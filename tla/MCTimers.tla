----------------------------- MODULE MCTimers ------------------------------
(* The instances TLC checks Timers in.  The callers are the TMOUT prompt,   *)
(* read -t, and the shell's history file, touched again and again.          *)
EXTENDS Timers

Cast(U, slow, n, nest) ==
  [users |-> U, slow |-> slow, nest |-> nest,
   nodes |-> CHOOSE N \in SUBSET Nodes : Cardinality(N) = n]

\* Time stands still in the code, or may pass anywhere.
AllCasts ==
  { Cast({"tmout", "hist"}, FALSE, 3, 2), Cast({"tmout", "read"}, FALSE, 2, 2),
    Cast({"tmout", "hist"}, TRUE, 2, 1),  Cast({"tmout", "read"}, TRUE, 2, 1) }

=============================================================================
