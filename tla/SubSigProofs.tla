---------------------------- MODULE SubSigProofs ----------------------------
(***************************************************************************)
(* Theorems about SubSig, for any signals, any nesting of subshells and    *)
(* any scripts: signals are let in wherever commands run, and a signal is  *)
(* passed on at most once.                                                 *)
(***************************************************************************)
EXTENDS SubSig, TLAPS

-----------------------------------------------------------------------------
\* The parts of the inductive invariant

\* Signals are off where sh_subshell relies on it: only where they are on can
\* one jump.
SignalsOff == pc \in {"setup", "test", "open", "restore", "reopen"} => savesig # Open

\* How deep the shell is in subshells
DepthAt ==
  /\ pc = "setup" => subshell < MaxDepth
  /\ pc \in {"test", "open", "popped", "restore"} => subshell > 0

\* What the variables hold that carry a signal from subshell to subshell
Carriers ==
  /\ lastsig # 0 => lastsig \in script.trapped \ Benign
  /\ ignsig # 0 => ignsig \in Benign
  /\ \A s \in Sigs \ script.trapped : siginfo[s] = 0

\* Where a subshell may still end by itself no signal waits to be passed on.
NotPassing ==
  /\ pc \in {"test", "open"} => ~jumped
  /\ pc = "home" /\ subshell > 0 => ~jumped \/ lastsig = 0
  /\ pc = "return" /\ subshell > 0 => ~jumped \/ lastsig = 0 \/ lastsig \in pending

Inv == /\ TypeOK /\ SignalsOn /\ SignalsOff /\ DepthAt
       /\ Carriers /\ NotPassing /\ AtMostOnce

(* What is queued for a trap has been sent under it.                       *)
LEMMA QueuedIsSent ==
  ASSUME Inv, NEW s \in Sigs \ Benign PROVE siginfo[s] <= credit[s]
<1>1. CASE s \in script.trapped
  <2>1. InFlight(s) <= credit[s]
    BY <1>1 DEF Inv, AtMostOnce
  <2>2. siginfo[s] \in Nat /\ credit[s] \in Nat
    BY DEF Inv, TypeOK
  <2>3. QED
    BY <2>1, <2>2 DEF InFlight, One
<1>2. CASE s \notin script.trapped
  BY <1>2 DEF Inv, TypeOK, Carriers
<1>3. QED
  BY <1>1, <1>2

(* What sh_chktrap does to what the other steps rely on.                   *)
LEMMA ChktrapFacts ==
  ASSUME Inv, sh_chktrap
  PROVE  /\ siginfo' \in [Sigs -> Nat] /\ credit' \in [Sigs -> Nat]
         /\ owed' \subseteq Sigs /\ trapnote' \in BOOLEAN
         /\ lastsig' = lastsig \/ lastsig' = 0
         /\ \A s \in Sigs : siginfo'[s] = siginfo[s] \/ siginfo'[s] = 0
         /\ \A s \in Sigs \ Benign : credit'[s] - siginfo'[s] = credit[s] - siginfo[s]
<1> USE DEF Inv, TypeOK
<1>1. CASE subshell = 0 /\ \E s \in Sigs : siginfo[s] > 0
  <2>1. /\ trapnote' = FALSE /\ lastsig' = 0
        /\ siginfo' = [s \in Sigs |-> 0]
        /\ credit' = [s \in Sigs |-> IF s \in Benign THEN 0 ELSE credit[s] - siginfo[s]]
        /\ owed' \subseteq owed
    BY <1>1 DEF sh_chktrap
  <2>2. \A s \in Sigs \ Benign : credit[s] - siginfo[s] \in Nat
    BY QueuedIsSent
  <2>3. \A s \in Sigs \ Benign : credit'[s] - siginfo'[s] = credit[s] - siginfo[s]
    BY <2>1, <2>2
  <2>4. credit' \in [Sigs -> Nat]
    BY <2>1, <2>2
  <2>5. siginfo' \in [Sigs -> Nat] /\ \A s \in Sigs : siginfo'[s] = 0
    BY <2>1
  <2>6. QED
    BY <2>1, <2>3, <2>4, <2>5
<1>2. CASE ~(subshell = 0 /\ \E s \in Sigs : siginfo[s] > 0)
  BY <1>2 DEF sh_chktrap, runs
<1>3. QED
  BY <1>1, <1>2

LEMMA TypesKept == Inv /\ [Next]_vars => TypeOK'
<1> SUFFICES ASSUME Inv, [Next]_vars PROVE TypeOK'
  OBVIOUS
<1> USE SubSigAssumption
    DEF Inv, TypeOK, DepthAt, Open, Shut, kernel, saved, last, traps, runs, ghost
<1>1. CASE Command
  BY <1>1, ChktrapFacts DEF Command
<1>2. CASE Enter
  BY <1>2 DEF Enter
<1>3. CASE Setup
  <2>1. subshell' \in 0..MaxDepth
    BY <1>3 DEF Setup
  <2>2. QED
    BY <1>3, <2>1 DEF Setup
<1>4. CASE Test
  BY <1>4 DEF Test
<1>5. CASE Body
  BY <1>5 DEF Body
<1>6. CASE BodyEnds
  BY <1>6 DEF BodyEnds
<1>7. CASE ForkOff
  BY <1>7 DEF ForkOff
<1>8. CASE Shutting
  BY <1>8 DEF Shutting
<1>9. CASE Restore
  <2>1. subshell' \in 0..MaxDepth
    BY <1>9 DEF Restore
  <2>2. QED
    BY <1>9, <2>1 DEF Restore
<1>10. CASE Reopen
  BY <1>10 DEF Reopen, Kill
<1>11. CASE Check
  BY <1>11, ChktrapFacts DEF Check
<1>12. CASE KillIgnsig
  BY <1>12 DEF KillIgnsig, Kill
<1>13. CASE KillLast
  BY <1>13 DEF KillLast, Kill
<1>14. CASE Return
  BY <1>14 DEF Return
<1>15. CASE \E s \in Sigs : Send(s)
  <2>1. sent' \in 0..script'.sends
    BY <1>15 DEF Send
  <2>2. credit' \in [Sigs -> Nat] /\ owed' \subseteq Sigs
    <3>1. PICK s \in Sigs : Send(s)
      BY <1>15
    <3>2. CASE s \in script.trapped
      <4>1. (IF s \in Benign THEN 0 ELSE credit[s] + 1) \in Nat
        OBVIOUS
      <4>2. /\ credit' = [credit EXCEPT ![s] = IF s \in Benign THEN 0 ELSE credit[s] + 1]
            /\ owed' = owed \union {s}
        BY <3>1, <3>2 DEF Send
      <4>3. QED
        BY <4>1, <4>2
    <3>3. CASE s \notin script.trapped
      BY <3>1, <3>3 DEF Send
    <3>4. QED
      BY <3>2, <3>3
  <2>3. QED
    BY <1>15, <2>1, <2>2 DEF Send
<1>16. CASE \E s \in Sigs : FaultSaved(s)
  BY <1>16 DEF FaultSaved, Delivers
<1>17. CASE \E s \in Sigs : FaultIgnored(s)
  BY <1>17 DEF FaultIgnored, Delivers
<1>18. CASE \E s \in Sigs : FaultTrap(s)
  BY <1>18 DEF FaultTrap, Delivers
<1>19. CASE \E s \in Sigs : FaultBenign(s)
  BY <1>19 DEF FaultBenign, Delivers
<1>20. CASE \E s \in Sigs : FaultEnds(s)
  BY <1>20 DEF FaultEnds, Delivers
<1>21. CASE UNCHANGED vars
  BY <1>21 DEF vars
<1>22. QED
  BY <1>1, <1>2, <1>3, <1>4, <1>5, <1>6, <1>7, <1>8, <1>9, <1>10, <1>11, <1>12, <1>13, <1>14, <1>15, <1>16, <1>17, <1>18, <1>19, <1>20, <1>21 DEF Next, Main, sh_fault

LEMMA PlacesKept ==
  Inv /\ [Next]_vars => (SignalsOn /\ SignalsOff /\ DepthAt /\ Carriers /\ NotPassing)'
<1> SUFFICES ASSUME Inv, [Next]_vars
             PROVE  (SignalsOn /\ SignalsOff /\ DepthAt /\ Carriers /\ NotPassing)'
  OBVIOUS
<1> USE SubSigAssumption
    DEF Inv, TypeOK, SignalsOn, SignalsOff, DepthAt, Carriers, NotPassing,
        Open, Shut, kernel, saved, last, traps, runs, ghost
<1>1. CASE Command
  BY <1>1, ChktrapFacts DEF Command
<1>2. CASE Enter
  BY <1>2 DEF Enter
<1>3. CASE Setup
  BY <1>3 DEF Setup
<1>4. CASE Test
  BY <1>4 DEF Test
<1>5. CASE Body
  BY <1>5 DEF Body
<1>6. CASE BodyEnds
  BY <1>6 DEF BodyEnds
<1>7. CASE ForkOff
  BY <1>7 DEF ForkOff
<1>8. CASE Shutting
  BY <1>8 DEF Shutting
<1>9. CASE Restore
  BY <1>9 DEF Restore
<1>10. CASE Reopen
  BY <1>10 DEF Reopen, Kill
<1>11. CASE Check
  BY <1>11, ChktrapFacts DEF Check
<1>12. CASE KillIgnsig
  BY <1>12 DEF KillIgnsig, Kill
<1>13. CASE KillLast
  BY <1>13 DEF KillLast, Kill
<1>14. CASE Return
  BY <1>14 DEF Return
<1>15. CASE \E s \in Sigs : Send(s)
  BY <1>15 DEF Send
<1>16. CASE \E s \in Sigs : FaultSaved(s)
  BY <1>16 DEF FaultSaved, Delivers
<1>17. CASE \E s \in Sigs : FaultIgnored(s)
  BY <1>17 DEF FaultIgnored, Delivers
<1>18. CASE \E s \in Sigs : FaultTrap(s)
  BY <1>18 DEF FaultTrap, Delivers
<1>19. CASE \E s \in Sigs : FaultBenign(s)
  BY <1>19 DEF FaultBenign, Delivers
<1>20. CASE \E s \in Sigs : FaultEnds(s)
  BY <1>20 DEF FaultEnds, Delivers
<1>21. CASE UNCHANGED vars
  BY <1>21 DEF vars
<1>22. QED
  BY <1>1, <1>2, <1>3, <1>4, <1>5, <1>6, <1>7, <1>8, <1>9, <1>10, <1>11, <1>12, <1>13, <1>14, <1>15, <1>16, <1>17, <1>18, <1>19, <1>20, <1>21 DEF Next, Main, sh_fault

LEMMA ScriptKept == [Next]_vars => script' = script
BY DEF Next, Main, sh_fault, vars, Command, Enter, Setup, Test, Body, BodyEnds, ForkOff, Shutting,
  Restore, Reopen, Check, KillIgnsig, KillLast, Return, Send,
  FaultSaved, FaultIgnored, FaultTrap, FaultBenign, FaultEnds

LEMMA CountKept == Inv /\ [Next]_vars => AtMostOnce'
<1> SUFFICES ASSUME Inv, [Next]_vars, NEW s \in script.trapped \ Benign
             PROVE  InFlight(s)' <= credit'[s]
  BY ScriptKept DEF AtMostOnce
<1>a. InFlight(s) <= credit[s] /\ s \in Sigs \ Benign /\ s # Open /\ s # Shut /\ s # 0
  BY SubSigAssumption DEF Inv, AtMostOnce, TypeOK, Open, Shut
<1> USE <1>a, SubSigAssumption
    DEF Inv, TypeOK, SignalsOn, SignalsOff, Carriers, NotPassing, InFlight, One,
        Open, Shut, kernel, saved, last, traps, runs, ghost
<1>1. CASE Command
  BY <1>1, ChktrapFacts DEF Command
<1>2. CASE Enter
  BY <1>2 DEF Enter
<1>3. CASE Setup
  BY <1>3 DEF Setup
<1>4. CASE Test
  BY <1>4 DEF Test
<1>5. CASE Body
  BY <1>5 DEF Body
<1>6. CASE BodyEnds
  BY <1>6 DEF BodyEnds
<1>7. CASE ForkOff
  BY <1>7 DEF ForkOff
<1>8. CASE Shutting
  BY <1>8 DEF Shutting
<1>9. CASE Restore
  BY <1>9 DEF Restore
<1>10. CASE Reopen
  BY <1>10 DEF Reopen, Kill
<1>11. CASE Check
  BY <1>11, ChktrapFacts DEF Check
<1>12. CASE KillIgnsig
  BY <1>12 DEF KillIgnsig, Kill
<1>13. CASE KillLast
  BY <1>13 DEF KillLast, Kill
<1>14. CASE Return
  BY <1>14 DEF Return
<1>15. CASE \E t \in Sigs : Send(t)
  BY <1>15 DEF Send
<1>16. CASE \E t \in Sigs : FaultSaved(t)
  BY <1>16 DEF FaultSaved, Delivers
<1>17. CASE \E t \in Sigs : FaultIgnored(t)
  BY <1>17 DEF FaultIgnored, Delivers
<1>18. CASE \E t \in Sigs : FaultTrap(t)
  BY <1>18 DEF FaultTrap, Delivers
<1>19. CASE \E t \in Sigs : FaultBenign(t)
  BY <1>19 DEF FaultBenign, Delivers
<1>20. CASE \E t \in Sigs : FaultEnds(t)
  BY <1>20 DEF FaultEnds, Delivers
<1>21. CASE UNCHANGED vars
  BY <1>21 DEF vars
<1>22. QED
  BY <1>1, <1>2, <1>3, <1>4, <1>5, <1>6, <1>7, <1>8, <1>9, <1>10, <1>11, <1>12, <1>13, <1>14, <1>15, <1>16, <1>17, <1>18, <1>19, <1>20, <1>21 DEF Next, Main, sh_fault

LEMMA InvHolds == Spec => []Inv
<1>1. Init => Inv
  <2> SUFFICES ASSUME Init PROVE Inv
    OBVIOUS
  <2> USE SubSigAssumption DEF Init, Open, Shut
  <2>1. script.sends \in Nat /\ sent \in 0..script.sends /\ subshell \in 0..MaxDepth
    OBVIOUS
  <2>2. siginfo \in [Sigs -> Nat] /\ credit \in [Sigs -> Nat]
    OBVIOUS
  <2>3. TypeOK
    BY <2>1, <2>2 DEF TypeOK
  <2>4. SignalsOn /\ SignalsOff /\ DepthAt /\ Carriers /\ NotPassing
    BY DEF SignalsOn, SignalsOff, DepthAt, Carriers, NotPassing
  <2>5. AtMostOnce
    BY DEF AtMostOnce, InFlight, One
  <2>6. QED
    BY <2>3, <2>4, <2>5 DEF Inv
<1>2. Inv /\ [Next]_vars => Inv'
  BY TypesKept, PlacesKept, CountKept DEF Inv
<1>3. QED
  BY <1>1, <1>2, PTL DEF Spec

(* The state of sh_subshell has its type; the credit of a trap never falls  *)
(* below 0, so that no trap runs for a signal that was not sent.            *)
THEOREM TypeCorrect == Spec => []TypeOK
BY InvHolds, PTL DEF Inv

(* However deep in subshells and whichever way they are left, commands run  *)
(* with signals let in: no way out of sh_subshell leaves them shut.         *)
THEOREM SignalsStayOn == Spec => []SignalsOn
BY InvHolds, PTL DEF Inv

(* A signal under a trap of the parent is passed on at most once, and is in *)
(* one place on its way.                                                    *)
THEOREM PassedOnce == Spec => []AtMostOnce
BY InvHolds, PTL DEF Inv
=============================================================================
