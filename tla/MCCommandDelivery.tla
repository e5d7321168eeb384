-------------------------- MODULE MCCommandDelivery --------------------------
(***************************************************************************)
(* Small instances of CommandDelivery for TLC.                             *)
(***************************************************************************)
EXTENDS CommandDelivery, TLC

CONSTANTS u1, u2, r1, w1, w2, t1, t2

OneHandler == w1 :> r1

People2 == Permutations({u1, u2})
=============================================================================
