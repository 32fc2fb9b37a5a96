----------------------------- MODULE MCSigTrap -----------------------------
(* Scripts for SigTrap: signals 1 and 3 stand for the ones numbered below and
   above SIGCHLD, which is 2; signal 4 was ignored when the shell started. *)
EXTENDS SigTrap

T(s, coms) == [op : {"trap"}, sig : {s}, com : coms]
C(op)      == [op |-> op]
Script(first, cmds, sends) == [first |-> first, cmds |-> cmds, sends |-> sends]

\* Traps set, emptied and cleared on two signals; jobs that end under a CHLD
\* trap and a lower signal; jobs that end with no CHLD trap; functions with
\* traps of their own under a caller that traps every number.
PassScripts ==
  { Script({}, T(1, Coms) \union T(3, Coms) \union T(4, {"action"})
                 \union {C("other")}, {1, 3, 4}),
    Script({1, 2}, {C("fork"), C("other")}, {1}),
    Script({}, {C("fork"), C("other")}, {3}),
    Script({1}, T(1, {"action", "none"}) \union T(3, {"action"})
             \union {C("call"), C("return"), C("other")}, {}) }

\* A caller with a trap, and a function with none.
FunctionScripts == { Script({1}, {C("call"), C("return"), C("other")}, {1}) }
============================================================================
