----------------------------- MODULE MCJobLock -----------------------------
(* The scripts TLC checks JobLock with.  The .cfg files name two children   *)
(* and a counter of three bits.                                             *)
EXTENDS JobLock

Script(trap, S) == [trap |-> trap, ops |-> S]

\* Every balanced command, with and without a CHLD trap; and every command
\* without one.
SoundScripts == { Script(TRUE, BalancedOps), Script(FALSE, BalancedOps),
                  Script(FALSE, AllOps) }

=============================================================================
