----------------------------- MODULE MCJobTable ----------------------------
(* Scripts for JobTable. *)
EXTENDS JobTable

S(trap, max, limit, ops) == [trap |-> trap, max |-> max, limit |-> limit, ops |-> ops]

\* JOBMAX without a CHLD trap; a CHLD trap with JOBMAX; more jobs than numbers.
PassScripts == { S(FALSE, 2, 8, {"bg", "fg"}), S(FALSE, 0, 8, {"bg", "wait", "jobs"}),
                 S(TRUE, 0, 8, {"bg", "fg", "wait"}), S(TRUE, 2, 8, {"bg"}),
                 S(FALSE, 0, 2, {"bg", "fg"}), S(TRUE, 0, 2, {"bg"}) }

LateScripts  == { S(FALSE, 2, 8, {"bg"}) }
============================================================================
