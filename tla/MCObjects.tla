----------------------------- MODULE MCObjects -----------------------------
(***************************************************************************)
(* A small instance of Objects for TLC.  What follows a revival is not     *)
(* explored: revived stays TRUE, and under it nothing but types is         *)
(* claimed.  Nor is what follows when a nullified weak reference was freed *)
(* in the chain: then only the counts are claimed, which no weak reference *)
(* enters into but by a promotion.                                         *)
(***************************************************************************)
EXTENDS Objects, TLC

CONSTANTS t1, t2, o1, o2, w1, w2

MCSymmetry == Permutations(Threads) \cup Permutations(Objs) \cup Permutations(Refs)

Explored == ~revived /\ ~leftLinked
=============================================================================
