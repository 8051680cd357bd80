------------------------------ MODULE MCOutbox ------------------------------
(* Instances of Outbox for model checking.                                 *)
EXTENDS Outbox, TLC

CONSTANTS e1, e2, e3, k1, k2

(* Two events of one aggregate and one of another.                         *)
TwoKeys == (e1 :> k1) @@ (e2 :> k1) @@ (e3 :> k2)
=============================================================================
