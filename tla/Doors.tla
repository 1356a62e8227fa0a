------------------------------- MODULE Doors -------------------------------
(***************************************************************************)
(* The three small services beside the chats, on one clock: the termination *)
(* lock, the consent notifier and the control bridge.  They share nothing   *)
(* else; a fault is one of either.                                          *)
(***************************************************************************)
EXTENDS SlidingWindow

CONSTANTS
    \* of the lock
    Passwords, Nothing, Addresses, MaxAttempts, Lockout, LockTime, MaxStarts,
    \* of the notifier
    Clients, Requests,
    \* of the bridge
    Calls, Services, Operations, Texts, Configs, Missing, Broken, Supported,
    PerHour, PerDay, PerMinute, Hour, Day, Minute, BridgeTime, MaxEdits,
    MaxFaults

VARIABLES
    clock, faults,
    file, hash, locked, installed, stopping, at, changing, attempts, starts,
    known, cut, judged,
    pending, notices, connections, socket, present, targets, dead, sending,
    raised, silent, seen, listed,
    disk, config, running, counters, stage, job, inbox, answers, reached, times,
    logged, lost, passed, edits

lockVars == <<file, hash, locked, installed, stopping, at, changing, attempts,
              starts, known, cut, judged>>
notifierVars == <<pending, notices, connections, socket, present, targets, dead,
                  sending, raised, silent, seen, listed>>
bridgeVars == <<disk, config, running, counters, stage, job, inbox, answers, reached,
                times, logged, lost, passed, edits>>
doorsVars == <<lockVars, notifierVars, bridgeVars, clock, faults>>

Lock == INSTANCE TerminationLock WITH now <- clock, MaxTime <- LockTime
Notifier == INSTANCE ConsentNotifier
Bridge == INSTANCE ControlBridge WITH now <- clock, MaxTime <- BridgeTime

ASSUME DoorsAssumption == Lock!LockAssumption /\ Bridge!BridgeAssumption

DoorsInit == Lock!Init /\ Notifier!Init /\ Bridge!Init

MoveLock == Lock!Next /\ UNCHANGED <<notifierVars, bridgeVars>>
MoveNotifier == Notifier!Next /\ UNCHANGED <<lockVars, bridgeVars, clock, faults>>
MoveBridge == Bridge!Next /\ UNCHANGED <<lockVars, notifierVars>>

DoorsSpec == DoorsInit /\ [][MoveLock \/ MoveNotifier \/ MoveBridge]_doorsVars

(* See TerminationLock, ConsentNotifier and ControlBridge. *)
ChosenOpens == Lock!ChosenOpens
LimitsHold == Lock!ShutdownLockout /\ Bridge!WithinLimits
NothingMissed == Notifier!NothingMissed
HandledIsLogged == Bridge!HandledIsLogged
=============================================================================
