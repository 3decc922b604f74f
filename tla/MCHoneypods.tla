----------------------------- MODULE MCHoneypods -----------------------------
(* Values of Honeypods' constants that a cfg cannot write. *)
EXTENDS Redirection

\* Every path has a deadline to miss; the lengths (30 to 300 s) do not matter.
Timeouts == [p \in Paths |-> 1]
=============================================================================
