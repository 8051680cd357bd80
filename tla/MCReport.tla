------------------------------ MODULE MCReport ------------------------------
(* Instances of Report for model checking.                                 *)
EXTENDS Report, TLC

CONSTANTS l1, l2, h1, r1, s1

OneStudent == [e \in Entity |-> s1]
Amounts == {-2, 3}
=============================================================================
