----------------------------- MODULE MCHomework -----------------------------
(* Instances of Homework for model checking.                               *)
EXTENDS Homework, TLC

CONSTANT a1
=============================================================================
