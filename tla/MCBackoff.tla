------------------------------- MODULE MCBackoff -------------------------------
EXTENDS Backoff

(* Three is a primitive root of 7; W is 2 * M + 2, as in the code. *)
MCSetting == {0}
MCPower == {1, 2}
=============================================================================
