-------------------------- MODULE TerminationLock --------------------------
(***************************************************************************)
(* core/termination_lock.py and its two routes (routes/addon.py): signals   *)
(* stop the server only once the lock is opened with the shutdown password. *)
(* The password's hash is in memory and in shutdown.key, which is written   *)
(* in place; a first start makes a password up and shows it once in the log. *)
(*                                                                         *)
(* The routes have no await: one runs at a time, and only a signal or a     *)
(* crash comes between its steps.  uvicorn, whose handler a let-through      *)
(* signal reaches, finishes what is being served and then exits.            *)
(*                                                                         *)
(* Bounds: MaxTime ticks of the clock, MaxFaults failing writes, and        *)
(* MaxStarts starts of the server.                                          *)
(***************************************************************************)
EXTENDS SlidingWindow

CONSTANTS
    Passwords, Nothing,     \* Nothing: no password; a file cut short; no hash yet
    Addresses,              \* client addresses that ask for a shutdown
    MaxAttempts, Lockout,   \* _SHUTDOWN_MAX_ATTEMPTS, _SHUTDOWN_LOCKOUT_SECONDS
    MaxTime, MaxFaults, MaxStarts

LockAssumption ==
    /\ Nothing \notin Passwords
    /\ MaxAttempts \in Nat \ {0} /\ Lockout \in Nat \ {0}
    /\ MaxTime \in Nat /\ MaxFaults \in Nat /\ MaxStarts \in Nat

VARIABLES
    file,           \* the password whose hash shutdown.key holds
    hash,           \* the one whose hash is in memory
    locked,         \* _locked
    installed,      \* the signal handlers are the lock's
    stopping,       \* a signal got through to uvicorn
    at,             \* where the server stands
    changing,       \* the password a PUT is setting
    attempts,       \* _shutdown_attempts
    now, faults, starts,
    known,          \* the password last shown or confirmed to the user
    cut,            \* since then a write of another one failed or was cut off
    judged          \* each address's wrong passwords for a shutdown since the start

memory == <<hash, locked, installed, stopping, changing>>
bounds == <<now, faults, starts>>
user == <<known, cut>>
vars == <<file, memory, at, attempts, bounds, user, judged>>

Works == UNCHANGED faults
Fails == faults < MaxFaults /\ faults' = faults + 1

Init ==
    /\ file = Nothing /\ hash = Nothing /\ changing = Nothing /\ known = Nothing
    /\ locked = TRUE /\ installed = FALSE /\ stopping = FALSE /\ cut = FALSE
    /\ at = "off"
    /\ attempts = [a \in Addresses |-> {}] /\ judged = attempts
    /\ now = 0 /\ faults = 0 /\ starts = 0

Start ==
    /\ at = "off" /\ starts < MaxStarts
    /\ starts' = starts + 1
    /\ at' = "load"
    /\ UNCHANGED <<file, memory, attempts, now, faults, user, judged>>

(* install, which calls _load_or_generate_key first: a key file of the full  *)
(* length is taken, in any other case a password is generated.              *)
Load ==
    /\ at = "load" /\ file # Nothing
    /\ hash' = file
    /\ at' = "install"
    /\ UNCHANGED <<file, locked, installed, stopping, changing, attempts, bounds, user, judged>>

Generate(p) ==
    /\ at = "load" /\ file = Nothing
    /\ p # known
    /\ hash' = p
    /\ at' = "truncate"
    /\ UNCHANGED <<file, locked, installed, stopping, changing, attempts, bounds, user, judged>>

(* write_bytes empties the file and then fills it.  A failure ends install,  *)
(* and the server goes on without its handlers, or ends the PUT.            *)
WriteTo(content, next) ==
    /\ \/ file' = content /\ at' = next /\ Works /\ UNCHANGED <<changing, cut>>
       \/ /\ UNCHANGED file /\ at' = "serve" /\ Fails
          /\ changing' = Nothing /\ cut' = TRUE
    /\ UNCHANGED <<hash, locked, installed, stopping, attempts, now, starts, known, judged>>

Truncate == at = "truncate" /\ WriteTo(Nothing, "write")
Write == at = "write" /\ WriteTo(hash, "tell")

(* The generated password appears in the log; a PUT is answered.            *)
Tell ==
    /\ at = "tell"
    /\ known' = hash /\ cut' = FALSE
    /\ at' = IF changing = Nothing THEN "install" ELSE "serve"
    /\ changing' = Nothing
    /\ UNCHANGED <<file, hash, locked, installed, stopping, attempts, bounds, judged>>

Install ==
    /\ at = "install"
    /\ installed' = TRUE
    /\ at' = "serve"
    /\ UNCHANGED <<file, hash, locked, stopping, changing, attempts, bounds, user, judged>>

(* PUT /server/password opens the lock to verify the current password, and   *)
(* closes it again in any case.  It refuses any number of wrong ones: the    *)
(* limit and `judged' are those of the shutdown route.                      *)
RefusePut(current) ==
    /\ at = "serve" /\ ~stopping /\ current # hash
    /\ locked' = TRUE
    /\ UNCHANGED <<file, hash, installed, stopping, changing, at, attempts, bounds, user, judged>>

BeginPut(p) ==
    /\ at = "serve" /\ ~stopping /\ hash # Nothing
    /\ locked' = FALSE
    /\ changing' = p
    /\ at' = "relock"
    /\ UNCHANGED <<file, hash, installed, stopping, attempts, bounds, user, judged>>

(* A bug: what the docstring says, the new password counts from a restart on. *)
SetPasswordOnDisk ==
    /\ at = "relock"
    /\ locked' = TRUE
    /\ file' = changing
    /\ at' = "serve" /\ changing' = Nothing
    /\ known' = changing /\ cut' = FALSE
    /\ UNCHANGED <<hash, installed, stopping, attempts, bounds, judged>>

(* set_password: the hash in memory, and the file after it. *)
SetPassword ==
    /\ at = "relock"
    /\ locked' = TRUE
    /\ hash' = changing
    /\ at' = "truncate"
    /\ UNCHANGED <<file, installed, stopping, changing, attempts, bounds, user, judged>>

Recent(a) == Within(attempts[a], now, Lockout)

(* A bug: one wrong password more than the limit. *)
LockedOutLate(a) == Cardinality(Recent(a)) > MaxAttempts

LockedOut(a) == Cardinality(Recent(a)) >= MaxAttempts

(* DELETE /server/shutdown. *)
RefuseTooMany(a) ==
    /\ at = "serve" /\ ~stopping /\ LockedOut(a)
    /\ attempts' = [attempts EXCEPT ![a] = Recent(a)]
    /\ UNCHANGED <<file, memory, at, bounds, user, judged>>

RefuseShutdown(a, password) ==
    /\ at = "serve" /\ ~stopping /\ ~LockedOut(a) /\ password # hash
    /\ attempts' = [attempts EXCEPT ![a] = Recent(a) \cup {NewMark(judged[a], now)}]
    /\ judged' = [judged EXCEPT ![a] = @ \cup {NewMark(@, now)}]
    /\ UNCHANGED <<file, memory, at, bounds, user>>

(* The right password opens the lock, and the server signals itself.        *)
Shutdown(a) ==
    /\ at = "serve" /\ ~stopping /\ ~LockedOut(a) /\ hash # Nothing
    /\ attempts' = [attempts EXCEPT ![a] = {}]
    /\ locked' = FALSE /\ stopping' = TRUE
    /\ UNCHANGED <<file, hash, installed, changing, at, bounds, user, judged>>

(* _handle_signal: nothing while locked; else the handler found at the       *)
(* installation takes over, as it does where nothing was installed.         *)
Signal ==
    /\ at # "off" /\ ~stopping
    /\ installed => ~locked
    /\ stopping' = TRUE
    /\ UNCHANGED <<file, hash, locked, installed, changing, at, attempts, bounds, user, judged>>

Down ==
    /\ at' = "off"
    /\ hash' = Nothing /\ changing' = Nothing
    /\ locked' = TRUE /\ installed' = FALSE /\ stopping' = FALSE
    /\ attempts' = [a \in Addresses |-> {}] /\ judged' = attempts'
    /\ UNCHANGED <<file, bounds, known>>

Exit == at = "serve" /\ stopping /\ Down /\ UNCHANGED cut

(* The process is killed: what was written and not told stays that way.     *)
Crash == at # "off" /\ Down /\ cut' = (cut \/ at \in {"write", "tell"})

Tick ==
    /\ now < MaxTime /\ now' = now + 1
    /\ UNCHANGED <<file, memory, at, attempts, faults, starts, user, judged>>

Next ==
    \/ Start \/ Load \/ Install \/ Truncate \/ Write \/ Tell
    \/ \E p \in Passwords : Generate(p) \/ RefusePut(p) \/ BeginPut(p)
    \/ SetPassword
    \/ \E a \in Addresses : RefuseTooMany(a) \/ Shutdown(a)
    \/ \E a \in Addresses, p \in Passwords : RefuseShutdown(a, p)
    \/ Signal \/ Exit \/ Crash \/ Tick

Spec == Init /\ [][Next]_vars

-----------------------------------------------------------------------------
(* The password the user was last shown, or was told is set, is the one that *)
(* opens the lock, through changes and restarts, unless the writing of      *)
(* another one failed or was cut off.                                       *)
ChosenOpens == (at = "serve" /\ ~cut) => hash = known

(* DELETE /server/shutdown judges, within any lockout period, no more than    *)
(* _SHUTDOWN_MAX_ATTEMPTS wrong passwords of an address, as long as the      *)
(* server runs.  It says nothing of PUT /server/password, where the same    *)
(* password can be tried without limit.                                     *)
ShutdownLockout == \A a \in Addresses : AtMost(MaxAttempts, judged[a], Lockout)
=============================================================================
