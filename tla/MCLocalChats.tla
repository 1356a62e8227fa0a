---------------------------- MODULE MCLocalChats ----------------------------
(* Two users with different limits; one of them has two turns of one         *)
(* conversation, the other a memory, and there is room for one conversation. *)
EXTENDS LocalChats, TLC

CONSTANTS ann, bob, q1, q2, q3, diary

MCSymmetry == Permutations({q1, q3})      \* two turns alike

MCUserOf == q1 :> ann @@ q2 :> bob @@ q3 :> ann
MCConversationOf == q1 :> "a" @@ q2 :> "b" @@ q3 :> "a"
MCLimitOf == q1 :> 1 @@ q2 :> 2 @@ q3 :> 1
MCOwnerOf == diary :> bob
=============================================================================
