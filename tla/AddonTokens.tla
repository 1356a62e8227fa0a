---------------------------- MODULE AddonTokens ----------------------------
(***************************************************************************)
(* What the add-on sessions promise about tokens: a token is given to one    *)
(* add-on and speaks for no other, and is given once but for the lasting     *)
(* ones, which their add-on may be given again; and no token starts to speak *)
(* but in the step in which its own add-on was given one, that is, has just  *)
(* signed a challenge.  Tokens may cease to speak at any time.               *)
(***************************************************************************)
CONSTANTS Addons, Tokens, NoAddon,
          Lasting       \* the tokens that may be given again

VARIABLES
    owner,      \* which add-on each token was given to
    live        \* the tokens that are accepted

vars == <<owner, live>>

TokensOf(a) == {t \in Tokens : owner[t] = a}

Init == owner = [t \in Tokens |-> NoAddon] /\ live = {}

(* The add-on's older tokens may speak again; those of others are untouched. *)
Grant(a, t) ==
    /\ owner[t] = NoAddon \/ (owner[t] = a /\ t \in Lasting)
    /\ owner' = [owner EXCEPT ![t] = a]
    /\ t \in live'
    /\ live' \ (TokensOf(a) \cup {t}) = live \ TokensOf(a)

End == live' \subseteq live /\ UNCHANGED owner

Next == End \/ \E a \in Addons, t \in Tokens : Grant(a, t)

Spec == Init /\ [][Next]_vars
=============================================================================
