--------------------------- MODULE SlidingWindow ---------------------------
(***************************************************************************)
(* The limits of this code that count what happened lately: a list of times, *)
(* from which those that are a period old are dropped before the rest is    *)
(* counted and the new one appended (routes/addon.py, docker/bridge/main.py, *)
(* mcp_services/base.py).  A list is here a set of marks, each a time and    *)
(* its place in the history of all of them.                                 *)
(***************************************************************************)
EXTENDS Naturals, FiniteSets

Mark == [n : Nat, at : Nat]

NewMark(history, now) == [n |-> Cardinality(history) + 1, at |-> now]

Within(marks, now, period) == {m \in marks : now < m.at + period}

(* In the period from any mark on there are at most so many of them. *)
AtMost(limit, history, period) ==
    \A x \in history :
        Cardinality({y \in history : y.n >= x.n /\ y.at < x.at + period}) <= limit
=============================================================================
