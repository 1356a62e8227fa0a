-------------------------- MODULE MCConsentLedger --------------------------
(* An instance of ConsentLedger for TLC: two requests, raised for one       *)
(* provider each, and a single tag.                                         *)
EXTENDS ConsentLedger, TLC

CONSTANTS r1, r2, cloud, other

MCRequests == {r1, r2}
MCProviders == {cloud, other}
MCProviderOf == r1 :> cloud @@ r2 :> other

(* Calls fail where the loop is alone; the bot's threads come where none did. *)
MCBound == LoopAlone \/ faults = 0
=============================================================================
