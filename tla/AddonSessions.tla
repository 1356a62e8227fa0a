--------------------------- MODULE AddonSessions ---------------------------
(***************************************************************************)
(* The browser add-on's sessions: AddonSessionManager of core/addon_auth.py *)
(* behind the routes of routes/addon.py.  An add-on registers its key and   *)
(* is given a challenge, signs it and is given a token, and presents the    *)
(* token until it expires or the add-on logs out.                           *)
(*                                                                         *)
(* The manager's methods have no await, and neither has the dependency that *)
(* checks a token: each call is one step of the event loop.  Challenges are *)
(* random and never repeat: a challenge is its number, in the order in      *)
(* which they were issued.  A used challenge is cleared to b"", which an     *)
(* empty challenge in a request matches like any other.                     *)
(*                                                                         *)
(* A token is the HMAC of the challenge and the add-on's id: that of an      *)
(* issued challenge is named by its number, that of the empty one by the     *)
(* add-on, which gets the same one each time.  The clock never goes back,    *)
(* and add-ons send the challenges and tokens they were given, or none.      *)
(*                                                                         *)
(* Bounds: MaxChallenges registrations, MaxTime ticks, MaxRestarts.         *)
(***************************************************************************)
EXTENDS Naturals, FiniteSets

CONSTANTS
    Addons,         \* ids of add-ons, the hashes of their public keys
    NoAddon,        \* what an unknown token stands for
    NoSession, NoToken,
    SessionTTL,     \* session_ttl_seconds, 3600 in the code
    ChallengeTTL,   \* challenge_ttl_seconds, 60 in the code
    MaxSessions,    \* max_sessions, 50 in the code
    MaxChallenges, MaxTime, MaxRestarts

Serials == 1..MaxChallenges
Tokens  == Serials \cup Addons

(* serial is the number of the challenge the session was created with, open  *)
(* whether it is waited on or cleared; place is where the session stands in  *)
(* the dictionary, which registering again does not change.                 *)
Session == [serial : Serials, place : Serials, open : BOOLEAN, issued : Nat,
            token : Tokens \cup {NoToken}, expires : Nat]

ASSUME AddonAssumption ==
    /\ NoAddon \notin Addons /\ NoSession \notin Session
    /\ Addons \cap Serials = {} /\ NoToken \notin Tokens
    /\ SessionTTL \in Nat \ {0} /\ ChallengeTTL \in Nat /\ MaxSessions \in Nat \ {0}
    /\ MaxChallenges \in Nat /\ MaxTime \in Nat /\ MaxRestarts \in Nat

VARIABLES
    sessions,   \* _sessions
    index,      \* _token_index
    now,        \* time.time(), in ticks
    last,       \* number of the last challenge
    asked,      \* which add-on each challenge was given to
    given,      \* the tokens that were given
    until,      \* when each add-on was last told its session ends, 0 once logged out
    restarts

vars == <<sessions, index, now, last, asked, given, until, restarts>>

Active == {a \in Addons : sessions[a] # NoSession}

Authenticated(a) == sessions[a].token # NoToken

(* Sessions are dropped, and the token each was given last leaves the index. *)
Dropped(gone) == [a \in Addons |-> IF a \in gone THEN NoSession ELSE sessions[a]]
Forgotten(gone) ==
    [t \in Tokens |-> IF \E a \in gone : sessions[a].token = t THEN NoAddon ELSE index[t]]

(* Whom a token belongs to. *)
TokenOf(t) == IF t \in Addons THEN t ELSE asked[t]

-----------------------------------------------------------------------------
Init ==
    /\ sessions = [a \in Addons |-> NoSession]
    /\ index = [t \in Tokens |-> NoAddon]
    /\ now = 0 /\ last = 0 /\ restarts = 0
    /\ asked = [n \in Serials |-> NoAddon]
    /\ given = {}
    /\ until = [a \in Addons |-> 0]

(* _evict_expired: authenticated sessions only; an unanswered challenge      *)
(* keeps its place.                                                         *)
Expired == {a \in Active : Authenticated(a) /\ now > sessions[a].expires}

(* _evict_oldest, among the sessions beside a new one. *)
Oldest(others) ==
    {a \in others : \A b \in others : sessions[a].serial <= sessions[b].serial}

(* A new session that takes the count over the limit drives out the oldest.  *)
Evicted(a) ==
    LET others == (Active \ Expired) \ {a}
    IN  IF Cardinality(others) >= MaxSessions THEN Oldest(others) ELSE {}

PlaceOf(a) == IF a \in Active \ Expired THEN sessions[a].place ELSE last + 1

(* A bug: the session goes on where the old one was. *)
RegisterRenewed(a) ==
    LET gone == Expired \cup Evicted(a)
        session == [serial |-> last + 1, place |-> PlaceOf(a), open |-> TRUE, issued |-> now,
                    token |-> IF a \in Active THEN sessions[a].token ELSE NoToken,
                    expires |-> now + SessionTTL]
    IN  /\ last < MaxChallenges
        /\ last' = last + 1
        /\ asked' = [asked EXCEPT ![last + 1] = a]
        /\ sessions' = [Dropped(gone) EXCEPT ![a] = session]
        /\ index' = Forgotten(gone)
        /\ UNCHANGED <<now, given, until, restarts>>

(* register_addon.  The session it overwrites leaves its token in the index. *)
Register(a) ==
    LET gone == Expired \cup Evicted(a)
        session == [serial |-> last + 1, place |-> PlaceOf(a), open |-> TRUE, issued |-> now,
                    token |-> NoToken, expires |-> 0]
    IN  /\ last < MaxChallenges
        /\ last' = last + 1
        /\ asked' = [asked EXCEPT ![last + 1] = a]
        /\ sessions' = [Dropped(gone) EXCEPT ![a] = session]
        /\ index' = Forgotten(gone)
        /\ UNCHANGED <<now, given, until, restarts>>

(* register_addon with a key that cannot be parsed: what had expired is gone. *)
RegisterRefused ==
    /\ Expired # {}
    /\ sessions' = Dropped(Expired)
    /\ index' = Forgotten(Expired)
    /\ UNCHANGED <<now, last, asked, given, until, restarts>>

(* authenticate looks for the first session with the challenge of the        *)
(* request: the one that waits on it, or, for an empty challenge, the first  *)
(* of those whose challenge was used.                                       *)
Cleared == {a \in Active : ~sessions[a].open}

Matched(a) ==
    sessions[a].open \/ \A b \in Cleared : sessions[a].place <= sessions[b].place

(* Too late since the challenge was issued, and the session is dropped, its  *)
(* token left in the index; not signed by the add-on's key, and nothing      *)
(* happens; else a token is issued and the challenge is cleared.            *)
ChallengeExpired(a) ==
    /\ Matched(a) /\ now > sessions[a].issued + ChallengeTTL
    /\ sessions' = Dropped({a})
    /\ UNCHANGED <<index, now, last, asked, given, until, restarts>>

TokenFor(a) == IF sessions[a].open THEN sessions[a].serial ELSE a

Authenticate(a) ==
    LET token == TokenFor(a)
    IN  /\ Matched(a) /\ now <= sessions[a].issued + ChallengeTTL
        /\ sessions' = [sessions EXCEPT ![a] =
               [@ EXCEPT !.open = FALSE, !.token = token, !.expires = now + SessionTTL]]
        /\ index' = [index EXCEPT ![token] = a]
        /\ given' = given \cup {token}
        /\ until' = [until EXCEPT ![a] = now + SessionTTL]
        /\ UNCHANGED <<now, last, asked, restarts>>

(* validate_session looks the add-on up by the token, and then the session   *)
(* by the add-on: when the add-on has registered again it is the new one,    *)
(* and an old token is good for as long as that lasts, past its own expiry.  *)
Accepted(t) ==
    /\ index[t] \in Active
    /\ Authenticated(index[t])
    /\ now <= sessions[index[t]].expires

(* Presenting a token whose session is gone or has expired cleans both up.   *)
(* One that is accepted, that is unknown, or whose session waits for its    *)
(* challenge, changes nothing.                                              *)
Stale(t) ==
    /\ index[t] # NoAddon
    /\ index[t] \in Active => Authenticated(index[t])
    /\ ~Accepted(t)

Refuse(t) ==
    /\ Stale(t)
    /\ index' = [index EXCEPT ![t] = NoAddon]
    /\ sessions' = Dropped({index[t]})
    /\ UNCHANGED <<now, last, asked, given, until, restarts>>

Present(t) == ~Stale(t) /\ UNCHANGED vars

(* A bug: only the token that was presented is revoked. *)
LogoutPresented(t) ==
    /\ Accepted(t)
    /\ index' = [index EXCEPT ![t] = NoAddon]
    /\ until' = [until EXCEPT ![index[t]] = 0]
    /\ UNCHANGED <<sessions, now, last, asked, given, restarts>>

(* addon_logout revokes the token of the session, whatever token was         *)
(* presented, and the session with it.                                      *)
Logout(t) ==
    /\ Accepted(t)
    /\ index' = Forgotten({index[t]})
    /\ sessions' = Dropped({index[t]})
    /\ until' = [until EXCEPT ![index[t]] = 0]
    /\ UNCHANGED <<now, last, asked, given, restarts>>

Tick ==
    /\ now < MaxTime /\ now' = now + 1
    /\ UNCHANGED <<sessions, index, last, asked, given, until, restarts>>

(* Sessions live in memory; the server's secret is kept in a file.          *)
Restart ==
    /\ restarts < MaxRestarts /\ restarts' = restarts + 1
    /\ sessions' = [a \in Addons |-> NoSession]
    /\ index' = [t \in Tokens |-> NoAddon]
    /\ UNCHANGED <<now, last, asked, given, until>>

Next ==
    \/ \E a \in Addons : Register(a)
    \/ RegisterRefused
    \/ \E a \in Active : ChallengeExpired(a) \/ Authenticate(a)
    \/ \E t \in Tokens : Refuse(t) \/ Present(t) \/ Logout(t)
    \/ Tick
    \/ Restart

Spec == Init /\ [][Next]_vars

-----------------------------------------------------------------------------
(* Every variable has its type, and there are no more sessions than the      *)
(* limit.                                                                   *)
TypeOK ==
    /\ sessions \in [Addons -> Session \cup {NoSession}]
    /\ Cardinality(Active) <= MaxSessions
    /\ index \in [Tokens -> Addons \cup {NoAddon}]
    /\ now \in 0..MaxTime /\ last \in 0..MaxChallenges
    /\ asked \in [Serials -> Addons \cup {NoAddon}]
    /\ given \subseteq Tokens
    /\ until \in [Addons -> Nat]
    /\ restarts \in 0..MaxRestarts

(* A token is accepted only while its add-on has a session it was promised,  *)
(* did not log out of and may still use, through any registering again,     *)
(* signing of a cleared challenge, eviction, clean-up of a refused token and *)
(* restart (validate_session).                                              *)
AcceptedWhilePromised ==
    \A t \in Tokens : Accepted(t) =>
        /\ t \in given
        /\ index[t] = TokenOf(t)
        /\ now <= until[TokenOf(t)]

(* A challenge that was issued yields one token, once: no session waits on  *)
(* one whose token was given (addon_auth.py:176).  The empty challenge it is *)
(* cleared to yields the add-on's lasting token as often as it is signed.    *)
ChallengeUsedOnce == \A a \in Active : sessions[a].open => sessions[a].serial \notin given

(* The sessions keep the promise about tokens of AddonTokens.               *)
Given == [t \in Tokens |-> IF t \in given THEN TokenOf(t) ELSE NoAddon]
Live == {t \in Tokens : Accepted(t)}
Promise == INSTANCE AddonTokens WITH Lasting <- Addons, owner <- Given, live <- Live
PromiseKept == Promise!Spec
=============================================================================
