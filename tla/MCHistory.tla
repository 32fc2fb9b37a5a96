------------------------------ MODULE MCHistory -----------------------------
(* Shells and what they do, for History. *)
EXTENDS History

S(shells, ops, apart, cmds) ==
  [shells |-> shells, ops |-> ops, apart |-> apart, cmds |-> cmds]

PassSetups ==
  { S({"a"}, {"cancel", "print", "mark"}, TRUE, 5), S({"a", "b"}, {"cancel", "mark"}, TRUE, 4),
    S({"a", "b"}, {"age", "mark"}, TRUE, 5), S({"a", "b"}, {"cancel", "empty"}, FALSE, 2),
    S({"a", "b"}, {"print", "mark"}, FALSE, 3) }

NumberSetups == { S({"a", "b"}, {"mark"}, TRUE, 4) }
============================================================================
