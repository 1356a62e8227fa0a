---------------------------- MODULE AgentKeyring ----------------------------
(***************************************************************************)
(* The signing keys of an agent of the swarm and the messages signed with   *)
(* them (agents/swarm/crypto.py).  A private key is kept in ed25519.enc,    *)
(* sealed for this machine and user, and the public one in ed25519.pub;     *)
(* older versions kept plain PEM files, which are migrated.  The X25519     *)
(* pair is kept in the same way.                                            *)
(*                                                                         *)
(* Each of Rings is an AgentKeyring of the one server: the coordinator of   *)
(* routes/swarm.py has one and that of get_swarm() another, on the same     *)
(* files.  _ensure_key runs on the event loop without a suspension, so that *)
(* one ring at a time is inside it; the server may die at any point of it,  *)
(* and a file that is being written is then cut short.                      *)
(*                                                                         *)
(* A message is the number it was signed as, and the nonce it is then given  *)
(* that number too.  The signature does not cover the nonce, so a message   *)
(* may come to a ring with its own nonce, with another or with none.        *)
(*                                                                         *)
(* Bounds: MaxKeys keys, MaxMessages messages, MaxTime ticks of the clock.  *)
(***************************************************************************)
EXTENDS Integers, Sequences, FiniteSets

CONSTANTS Rings, MaxKeys, MaxMessages, MaxTime,
          Ttl, MaxNonces    \* of the nonce registry

ASSUME KeyringAssumption ==
    MaxKeys \in Nat \ {0} /\ MaxMessages \in Nat /\ MaxTime \in Nat /\ Ttl \in Nat /\ MaxNonces \in Nat

NoNonce == 0
Missing == 0
Damaged == -1       \* cut short, or sealed for another machine
Keys    == 1..MaxKeys
Files   == {"ed25519.enc", "ed25519.pub", "private.pem", "public.pem"}
Pair    == [private : Keys, public : Keys]
NoPair  == [private |-> Missing, public |-> Missing]

VARIABLES
    disk,               \* the key in each file
    made,               \* how many keys were generated
    held,               \* the pair each ring has in memory
    writes, ring, pair, \* what is left of a _ensure_key, whose it is, for which pair
    signed, by,         \* how many messages there are, and the ring and key of each
    nonces, accepted,   \* of each ring: its registry, and the nonce of each message
                        \* it accepted, and when
    clock,
    trusted, excused    \* the keys that signed anything; a rename, a failed migration

messages == <<signed, by, nonces, accepted>>
keyringVars == <<disk, made, held, writes, ring, pair, messages, clock, trusted, excused>>

KeyringInit ==
    /\ \E old \in {Missing, 1} :
          /\ disk = [f \in Files |-> IF f \in {"private.pem", "public.pem"} THEN old ELSE Missing]
          /\ trusted = {old} \ {Missing}
    /\ made = 1 /\ held = [r \in Rings |-> NoPair]
    /\ writes = <<>> /\ ring \in Rings /\ pair = NoPair
    /\ signed = 0 /\ by = <<>>
    /\ nonces = [r \in Rings |-> {}] /\ accepted = [r \in Rings |-> <<>>]
    /\ clock = 0 /\ excused = {}

-----------------------------------------------------------------------------
Has(f) == disk[f] # Missing
Good(f) == disk[f] \in Keys

Put(f, key) == [file |-> f, key |-> key]

(* write_bytes empties the file before it fills it. *)
Written(f, key) == <<Put(f, Damaged), Put(f, key)>>

Saved(p) == Written("ed25519.enc", p.private) \o Written("ed25519.pub", p.public)

Unlinked == <<Put("private.pem", Missing), Put("public.pem", Missing)>>

(* A bug: the old files go first. *)
MigrationUnlinksFirst(p) == Unlinked \o Saved(p)

Migration(p) == Saved(p) \o Unlinked

Works(r, p, steps) == ring' = r /\ pair' = p /\ writes' = steps

(* _load_or_generate_ed25519 of a ring without a key: the sealed files, or   *)
(* the old ones, or a new pair.                                             *)
Starts(r) == writes = <<>> /\ held[r] = NoPair

LoadKey(r) ==
    /\ Starts(r) /\ Good("ed25519.enc") /\ Good("ed25519.pub")
    /\ held' = [held EXCEPT ![r] = [private |-> disk["ed25519.enc"], public |-> disk["ed25519.pub"]]]
    /\ UNCHANGED <<disk, made, writes, ring, pair, messages, clock, trusted, excused>>

Unloadable == ~(Good("ed25519.enc") /\ Good("ed25519.pub"))

MigrateKey(r) ==
    /\ Starts(r) /\ Unloadable /\ Has("private.pem") /\ Has("public.pem")
    /\ LET old == [private |-> disk["private.pem"], public |-> disk["public.pem"]]
       IN  /\ held' = [held EXCEPT ![r] = old]
           /\ Works(r, old, Migration(old))
    /\ UNCHANGED <<disk, made, messages, clock, trusted, excused>>

New(r) ==
    /\ made < MaxKeys /\ made' = made + 1
    /\ Works(r, [private |-> made', public |-> made'],
                Saved([private |-> made', public |-> made']))

GenerateKey(r) ==
    /\ Starts(r) /\ Unloadable /\ ~(Has("private.pem") /\ Has("public.pem"))
    /\ New(r) /\ held' = held
    /\ UNCHANGED <<disk, messages, clock, trusted, excused>>

(* A new pair is remembered once both files are written. *)
Write ==
    /\ writes # <<>>
    /\ disk' = [disk EXCEPT ![Head(writes).file] = Head(writes).key]
    /\ writes' = Tail(writes)
    /\ held' = IF Len(writes) = 1 THEN [held EXCEPT ![ring] = pair] ELSE held
    /\ UNCHANGED <<made, ring, pair, messages, clock, trusted, excused>>

(* A write that fails is raised, but in a migration a new pair is made.      *)
WriteFails ==
    /\ writes # <<>> /\ Head(writes).key # Missing
    /\ IF held[ring] = NoPair
       THEN writes' = <<>> /\ UNCHANGED <<made, ring, pair, excused>>
       ELSE New(ring) /\ excused' = excused \cup {"migration failed"}
    /\ held' = [held EXCEPT ![ring] = NoPair]
    /\ UNCHANGED <<disk, messages, clock, trusted>>

(* The server ends, at any point; with it go the rings and their messages.   *)
Ends ==
    /\ writes' = <<>> /\ held' = [r \in Rings |-> NoPair]
    /\ signed' = 0 /\ by' = <<>>
    /\ nonces' = [r \in Rings |-> {}] /\ accepted' = [r \in Rings |-> <<>>]
    /\ UNCHANGED <<made, ring, pair, clock, trusted>>

Restart == Ends /\ UNCHANGED <<disk, excused>>

(* The machine or the user has another name from now on.                    *)
Rename ==
    /\ Has("ed25519.enc") /\ "renamed" \notin excused
    /\ disk' = [disk EXCEPT !["ed25519.enc"] = Damaged]
    /\ excused' = excused \cup {"renamed"}
    /\ Ends

-----------------------------------------------------------------------------
Ready(r) == held[r] # NoPair /\ (writes = <<>> \/ ring # r)

Sign(r) ==
    /\ Ready(r) /\ signed < MaxMessages
    /\ signed' = signed + 1
    /\ by' = Append(by, held[r].private)
    /\ trusted' = trusted \cup {held[r].private}
    /\ UNCHANGED <<disk, made, held, writes, ring, pair, nonces, accepted, clock, excused>>

(* A bug: a full registry is emptied. *)
KeptNone(known) == IF Cardinality(known) > MaxNonces THEN {} ELSE known

(* NonceRegistry._evict_expired: only when there are too many, and then only *)
(* the old ones.                                                            *)
Kept(known) ==
    IF Cardinality(known) > MaxNonces THEN {k \in known : k[2] > clock - Ttl} ELSE known

Registered(r, n) == n # NoNonce /\ \E k \in Kept(nonces[r]) : k[1] = n

(* verify_message of message m under nonce n: the nonce is registered, when  *)
(* there is one, before the signature is looked at.                         *)
Verify(r, m, n) ==
    /\ Ready(r) /\ Len(accepted[r]) <= MaxMessages /\ ~ Registered(r, n)
    /\ nonces' = IF n = NoNonce THEN nonces
                 ELSE [nonces EXCEPT ![r] = Kept(@) \cup {<<n, clock>>}]
    /\ accepted' = [accepted EXCEPT ![r] =
           IF by[m] = held[r].public THEN Append(@, <<n, clock>>) ELSE @]
    /\ UNCHANGED <<disk, made, held, writes, ring, pair, signed, by, clock, trusted, excused>>

Replayed(r, n) ==
    /\ Ready(r) /\ Registered(r, n)
    /\ nonces' = [nonces EXCEPT ![r] = Kept(@)]
    /\ UNCHANGED <<disk, made, held, writes, ring, pair, signed, by, accepted, clock, trusted, excused>>

Tick ==
    /\ clock < MaxTime /\ clock' = clock + 1
    /\ UNCHANGED <<disk, made, held, writes, ring, pair, messages, trusted, excused>>

KeyringNext ==
    \/ Write \/ WriteFails \/ Restart \/ Rename \/ Tick
    \/ \E r \in Rings :
          \/ LoadKey(r) \/ MigrateKey(r) \/ GenerateKey(r) \/ Sign(r)
          \/ \E m \in 1..signed, n \in NoNonce..signed : Verify(r, m, n) \/ Replayed(r, n)

KeyringSpec == KeyringInit /\ [][KeyringNext]_keyringVars

-----------------------------------------------------------------------------

(* Through deaths of the server at any point of a generation or a migration, *)
(* an agent signs with one key for ever, and the two halves a ring holds     *)
(* belong together, so that it can verify what it signs: the one unless the  *)
(* machine is renamed or a migration cannot write, the other unless it is   *)
(* renamed (crypto.py:58, 233).                                             *)
OneKeyPair ==
    /\ excused = {} => Cardinality(trusted) <= 1
    /\ "renamed" \notin excused => \A r \in Rings : held[r].private = held[r].public

(* A ring accepts nothing twice under one nonce within its lifetime, however *)
(* full its registry is.  That a message is accepted once holds of those     *)
(* that come with the nonce they were given: without a nonce, or under       *)
(* another, it is accepted again (crypto.py:408, 531).                       *)
AcceptedOnce ==
    \A r \in Rings : \A i, j \in DOMAIN accepted[r] :
        i < j /\ accepted[r][i][1] # NoNonce /\ accepted[r][i][1] = accepted[r][j][1] =>
            accepted[r][j][2] - accepted[r][i][2] >= Ttl
=============================================================================
