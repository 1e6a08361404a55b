---------------------------- MODULE MCDurableQueue ----------------------------
(***************************************************************************)
(* The instance of DurableQueue TLC checks; the values of the constants    *)
(* are in the configurations.  Requests are interchangeable, and so are    *)
(* the users who have logged in; the safety run takes advantage of it.     *)
(***************************************************************************)
EXTENDS DurableQueue

Symmetry == Permutations(Request) \cup Permutations(User \ {Anonymous})
=============================================================================
