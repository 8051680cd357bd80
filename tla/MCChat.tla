------------------------------- MODULE MCChat -------------------------------
(* Instances of Chat for model checking.                                   *)
EXTENDS Chat, TLC

Calls == Permutations(Call)
Users == Permutations(User)
CallsAndUsers == Calls \cup Users
=============================================================================
