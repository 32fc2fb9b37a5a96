----------------------------- MODULE MCSubSig -----------------------------
(* Scripts for SubSig: signals 1 and 2 end a shell without a trap, signal 3
   (WINCH) does not. *)
EXTENDS SubSig

S(trapped, ignored, sends) == [trapped |-> trapped, ignored |-> ignored, sends |-> sends]

PassScripts == { S({1}, {}, 1), S({1, 2}, {}, 3), S({1, 3}, {2}, 3) }

IgnoredScripts == { S({}, {1}, 1) }
===========================================================================
