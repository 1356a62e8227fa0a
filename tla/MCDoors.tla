------------------------------ MODULE MCDoors ------------------------------
(* One of the three services at a time is explored, while the others stand   *)
(* at their start.                                                          *)
EXTENDS Doors, TLC

CONSTANTS Mail, Bank

VARIABLE scene

MCServices == {Mail, Bank}
MCOperations == {"read", "odd"}
MCSupported == {"read"}
MCTexts == {{"credentials"}, {"identifiers", "harmful"}}
Shut == [policy |-> (Mail :> "limited" @@ Bank :> "block"), operations |-> {"read"},
         guardian |-> <<[category |-> "credentials", action |-> "block"],
                        [category |-> "identifiers", action |-> "redact_and_store"],
                        [category |-> "harmful", action |-> "block"]>>]
Open == [policy |-> (Mail :> "open" @@ Bank :> "limited"), operations |-> {"read", "odd"},
         guardian |-> <<>>]
MCConfigs == {Shut, Open}

MCInit == DoorsInit /\ scene \in {"lock", "notifier", "bridge"}

(* One call of any kind and one to a service or the web, or three of these:  *)
(* the hour and the day limit them.  The calls share nothing else, but for   *)
(* the connector, which Execute calls as well.                              *)
FewCalls ==
    LET taken == {c \in Calls : stage[c] # "new"}
        others == {c \in taken : job[c] # <<"proxy">>}
    IN others = {} \/ (Cardinality(others) = 1 /\ Cardinality(taken) <= 2)

MCNext ==
    \/ scene = "lock" /\ MoveLock /\ UNCHANGED scene
    \/ scene = "notifier" /\ MoveNotifier /\ UNCHANGED scene
    \/ scene = "bridge" /\ MoveBridge /\ FewCalls' /\ UNCHANGED scene

MCSpec == MCInit /\ [][MCNext]_<<doorsVars, scene>>

Symmetry == Permutations(Clients \cup Addresses)
            \cup Permutations(Requests) \cup Permutations(Passwords \cup Calls)
=============================================================================
