---------------------------- MODULE SigTrapProofs ---------------------------
(***************************************************************************)
(* Theorems about SigTrap, for any number of signals, any scripts and any  *)
(* number of jobs: the state has its type, and no trap runs more often     *)
(* than its signal came.  For the kinds of scripts named below, the trap   *)
(* table is what was asked for, and a signal that waits is announced.      *)
(***************************************************************************)
EXTENDS SigTrap, TLAPS

-----------------------------------------------------------------------------
\* The parts of the inductive invariant

\* sh_chktrap never looks at a signal beyond the trap table, so that its
\* restart at trapmax - 1 is a signal too.
InTable == pc \in {"scan", "take", "body", "chld", "chldbody"} /\ sig > 0 => sig < trapmax

\* Where it looks at the CHLD trap, and where at another.
AtSignal ==
  /\ pc \in {"take", "body"} => sig > 0 /\ sig # CHLD
  /\ pc \in {"chld", "chldbody"} => sig = CHLD
  /\ pc = "body" => ip > 0
  /\ pc = "chldbody" => due > 0

Inv == TypeOK /\ InTable /\ AtSignal /\ Accounted

(* The end of sh_chktrap's loop goes to a signal in the table, or to 0.     *)
LEMMA BottomFacts ==
  ASSUME Inv, pc = "scan", sig > 0, Bottom
  PROVE  sig' \in 0..SigMax /\ count' \in BOOLEAN /\ (sig' > 0 => sig' < trapmax)
<1>1. sig \in 1..SigMax /\ trapmax \in 0..SigMax + 1 /\ sig < trapmax /\ SigMax \in Nat
  BY SigAssumption DEF Inv, TypeOK, InTable
<1>2. trapmax - 1 \in 0..SigMax /\ trapmax - 1 < trapmax
  BY <1>1
<1>3. sig - 1 \in 0..SigMax /\ sig - 1 < trapmax
  BY <1>1
<1>4. QED
  BY <1>2, <1>3 DEF Inv, TypeOK, Bottom

(* What job_reap does to what the other steps rely on.                      *)
LEMMA ReapFacts ==
  ASSUME Inv, job_reap
  PROVE  /\ zombie' \in Nat /\ due' \in Nat /\ due' >= due
         /\ trapped' \in [Sigs -> BOOLEAN] /\ fault' \in [Sigs -> BOOLEAN]
         /\ off' \in [Sigs -> BOOLEAN]
         /\ trapnote' \subseteq {"trap", "set"} /\ owed' \subseteq Sigs
         /\ credit' \in [Sigs -> Nat] /\ due' <= credit'[CHLD]
         /\ \A s \in Sigs \ {CHLD} : credit'[s] = credit[s]
<1> DEFINE announce == zombie > 0 /\ trapcom[CHLD] # "none"
<1>1. CHLD \in Sigs
  BY SigAssumption
<1>2. CASE announce
  <2>1. /\ zombie' = 0 /\ due' = due + zombie /\ owed' = owed \union {CHLD}
        /\ credit' = [credit EXCEPT ![CHLD] = @ + zombie]
    BY <1>2 DEF job_reap
  <2>2. zombie \in Nat /\ due \in Nat /\ credit \in [Sigs -> Nat] /\ due <= credit[CHLD]
    BY DEF Inv, TypeOK, Accounted
  <2>3. /\ due' \in Nat /\ due' >= due /\ credit' \in [Sigs -> Nat]
        /\ due' <= credit'[CHLD] /\ \A s \in Sigs \ {CHLD} : credit'[s] = credit[s]
    BY <1>1, <2>1, <2>2
  <2>4. /\ trapped' \in [Sigs -> BOOLEAN] /\ fault' \in [Sigs -> BOOLEAN]
        /\ off' \in [Sigs -> BOOLEAN] /\ trapnote' \subseteq {"trap", "set"}
    BY <1>1 DEF job_reap, Inv, TypeOK
  <2>5. QED
    BY <1>1, <2>1, <2>3, <2>4 DEF Inv, TypeOK
<1>3. CASE ~announce
  <2>1. zombie' = 0 /\ due' = due /\ owed' = owed /\ credit' = credit
    BY <1>3 DEF job_reap
  <2>2. /\ trapped' \in [Sigs -> BOOLEAN] /\ fault' \in [Sigs -> BOOLEAN]
        /\ off' \in [Sigs -> BOOLEAN] /\ trapnote' \subseteq {"trap", "set"}
    BY <1>1 DEF job_reap, Inv, TypeOK
  <2>3. QED
    BY <2>1, <2>2 DEF Inv, TypeOK, Accounted
<1>4. QED
  BY <1>2, <1>3

LEMMA TypesKept == Inv /\ [Next]_vars => TypeOK'
<1> SUFFICES ASSUME Inv, [Next]_vars PROVE TypeOK'
  OBVIOUS
<1> USE SigAssumption
    DEF Inv, TypeOK, InTable, AtSignal, Sigs, Coms, kernel, table, flags, jobs, scan, ghost
<1>1. CASE \E s \in Sigs, com \in Coms : Trap(s, com)
  <2>1. PICK s \in Sigs, com \in Coms : Trap(s, com)
    BY <1>1
  <2>2. /\ asked' \in [Sigs -> Coms] /\ owed' \subseteq Sigs /\ pc' = "check"
        /\ UNCHANGED <<script, pending, sent, running, zombie, outer, fn, siginfo,
                       trapnote, jobs, scan, passed, credit>>
    BY <2>1 DEF Trap, ClearTrap, SetTrap
  <2>3. trapmax' \in 0..(SigMax + 1)
    BY <2>1 DEF Trap, ClearTrap, SetTrap
  <2>4. disp' \in [Sigs -> {"default", "ignore", "sh_fault", "job_waitsafe"}]
    BY <2>1 DEF Trap, ClearTrap, SetTrap, sh_sigtrap
  <2>5. fault' \in [Sigs -> BOOLEAN] /\ off' \in [Sigs -> BOOLEAN]
    <3>1. /\ fault' = fault \/ fault' = [fault EXCEPT ![s] = TRUE]
          /\ off' = off \/ off' = [off EXCEPT ![s] = TRUE]
      BY <2>1 DEF Trap, ClearTrap, SetTrap, sh_sigtrap
    <3>2. fault \in [Sigs -> BOOLEAN] /\ off \in [Sigs -> BOOLEAN]
      OBVIOUS
    <3> HIDE DEF Inv, TypeOK, InTable, AtSignal, Sigs
    <3>3. QED
      BY <3>1, <3>2
  <2>6. trapped' \in [Sigs -> BOOLEAN]
    <3>1. trapped' = trapped \/ trapped' = [trapped EXCEPT ![s] = FALSE]
      BY <2>1 DEF Trap, ClearTrap, SetTrap, sh_sigtrap, sh_sigclear
    <3>2. trapped \in [Sigs -> BOOLEAN]
      OBVIOUS
    <3> HIDE DEF Inv, TypeOK, InTable, AtSignal, Sigs
    <3>3. QED
      BY <3>1, <3>2
  <2>7. trapcom' \in [Sigs -> Coms]
    BY <2>1 DEF Trap, ClearTrap, SetTrap, sh_sigtrap, sh_sigclear
  <2>8. QED
    BY <2>2, <2>3, <2>4, <2>5, <2>6, <2>7
<1>2. CASE Fork
  BY <1>2 DEF Fork
<1>3. CASE Other
  BY <1>3 DEF Other
<1>4. CASE Call
  BY <1>4 DEF Call, sh_sigreset
<1>5. CASE Return
  BY <1>5 DEF Return, Restored
<1>6. CASE Dies
  BY <1>6 DEF Dies
<1>7. CASE Quiet
  BY <1>7 DEF Quiet
<1>8. CASE Enter
  <2>1. sig' \in 0..SigMax
    BY <1>8 DEF Enter
  <2>2. QED
    BY <1>8, <2>1 DEF Enter
<1>9. CASE Pass
  <2>1. CASE Bottom
    <3>1. sig' \in 0..SigMax /\ count' \in BOOLEAN
      BY <1>9, <2>1, BottomFacts DEF Pass
    <3>2. QED
      BY <1>9, <3>1 DEF Pass
  <2>2. CASE ~Bottom
    BY <1>9, <2>2 DEF Pass
  <2>3. QED
    BY <2>1, <2>2
<1>10. CASE Visit
  <2>1. CASE Bottom
    <3>1. sig' \in 0..SigMax /\ count' \in BOOLEAN
      BY <1>10, <2>1, BottomFacts DEF Visit
    <3>2. QED
      BY <1>10, <3>1 DEF Visit
  <2>2. CASE ~Bottom
    BY <1>10, <2>2 DEF Visit
  <2>3. QED
    BY <2>1, <2>2
<1>11. CASE Take
  BY <1>11 DEF Take
<1>12. CASE BodyEnds
  <2>1. ip' \in Nat /\ sig \in Sigs /\ sig < trapmax
    BY <1>12 DEF BodyEnds
  <2>2. credit' \in [Sigs -> Nat]
    BY <1>12, <2>1 DEF BodyEnds
  <2>3. sig \in 0..SigMax /\ sig - 1 \in 0..SigMax /\ trapmax - 1 \in 0..SigMax
    BY <2>1
  <2>4. sig' \in {sig, sig - 1, trapmax - 1}
    BY <1>12 DEF BodyEnds
  <2>5. count' \in BOOLEAN /\ pc' \in {"body", "take", "scan"}
    BY <1>12 DEF BodyEnds
  <2>6. QED
    BY <1>12, <2>1, <2>2, <2>3, <2>4, <2>5 DEF BodyEnds
<1>13. CASE BodyLeft
  <2>1. /\ pc' = "unwind" /\ locked' = FALSE /\ savesig' \in BOOLEAN
        /\ UNCHANGED <<script, disp, pending, sent, running, table, siginfo, scan, passed>>
    BY <1>13 DEF BodyLeft
  <2>2. CASE locked /\ savesig
    <3>1. job_reap
      BY <1>13, <2>2 DEF BodyLeft
    <3> HIDE DEF Inv
    <3>2. /\ zombie' \in Nat /\ due' \in Nat /\ trapped' \in [Sigs -> BOOLEAN]
          /\ fault' \in [Sigs -> BOOLEAN] /\ off' \in [Sigs -> BOOLEAN]
          /\ trapnote' \subseteq {"trap", "set"} /\ owed' \subseteq Sigs
          /\ credit' \in [Sigs -> Nat]
      BY <3>1, ReapFacts
    <3>3. QED
      BY <2>1, <3>2 DEF Inv
  <2>3. CASE ~(locked /\ savesig)
    <3>1. UNCHANGED <<zombie, due, flags, trapnote, owed, credit>>
      BY <1>13, <2>3 DEF BodyLeft
    <3>2. QED
      BY <2>1, <3>1
  <2>4. QED
    BY <2>2, <2>3
<1>14. CASE ChldVisit
  BY <1>14 DEF ChldVisit
<1>15. CASE ChldRun
  BY <1>15 DEF ChldRun
<1>16. CASE ChldBodyEnds
  <2>1. due' \in Nat
    BY <1>16 DEF ChldBodyEnds
  <2>2. credit' \in [Sigs -> Nat]
    BY <1>16 DEF ChldBodyEnds
  <2>3. QED
    BY <1>16, <2>1, <2>2 DEF ChldBodyEnds
<1>17. CASE ChldDone
  <2> DEFINE reaped == IF savesig THEN zombie ELSE 0
             again  == reaped > 0 /\ trapcom[CHLD] # "none"
  <2>1. sig' \in 0..SigMax /\ reaped \in Nat
    BY <1>17 DEF ChldDone
  <2>2. zombie' \in Nat /\ due' \in Nat
    BY <1>17 DEF ChldDone
  <2>3. trapped' \in [Sigs -> BOOLEAN] /\ fault' \in [Sigs -> BOOLEAN] /\ off' \in [Sigs -> BOOLEAN]
    BY <1>17 DEF ChldDone
  <2>4. owed' \subseteq Sigs /\ trapnote' \subseteq {"trap", "set"}
    BY <1>17 DEF ChldDone
  <2>5. credit' \in [Sigs -> Nat]
    <3>1. CASE again
      BY <1>17, <2>1, <3>1 DEF ChldDone
    <3>2. CASE ~again
      BY <1>17, <3>2 DEF ChldDone
    <3>3. QED
      BY <3>1, <3>2
  <2>6. QED
    BY <1>17, <2>1, <2>2, <2>3, <2>4, <2>5 DEF ChldDone
<1>18. CASE ScanEnds
  BY <1>18 DEF ScanEnds
<1>19. CASE KidExits
  BY <1>19 DEF KidExits
<1>20. CASE \E s \in Sigs : Send(s)
  BY <1>20 DEF Send
<1>21. CASE \E s \in Sigs : Killed(s)
  BY <1>21 DEF Killed, Delivers
<1>22. CASE \E s \in Sigs : sh_fault(s)
  <2>1. PICK s \in Sigs : sh_fault(s)
    BY <1>22
  <2>2. CASE FaultTrap(s)
    <3>1. siginfo' \in [Sigs -> Nat] /\ credit' \in [Sigs -> Nat]
      <4>1. /\ siginfo' = [siginfo EXCEPT ![s] = siginfo[s] + 1]
            /\ credit' = [credit EXCEPT ![s] = credit[s] + 1]
        BY <2>2 DEF FaultTrap
      <4>2. siginfo \in [Sigs -> Nat] /\ credit \in [Sigs -> Nat]
        OBVIOUS
      <4> HIDE DEF Inv, TypeOK, InTable, AtSignal, Sigs
      <4>3. QED
        BY <4>1, <4>2
    <3>2. /\ trapped' \in [Sigs -> BOOLEAN] /\ owed' \subseteq Sigs
          /\ trapnote' \subseteq {"trap", "set"}
      BY <2>2 DEF FaultTrap
    <3>3. QED
      BY <2>1, <2>2, <3>1, <3>2 DEF sh_fault, Delivers, FaultTrap
  <2>3. CASE FaultIgnored(s)
    BY <2>1, <2>3 DEF sh_fault, Delivers, FaultIgnored
  <2>4. CASE FaultUntrapped(s)
    BY <2>1, <2>4 DEF sh_fault, Delivers, FaultUntrapped
  <2>5. QED
    BY <2>1, <2>2, <2>3, <2>4 DEF sh_fault
<1>23. CASE job_waitsafe
  <2>1. /\ pending' \subseteq Sigs /\ savesig' \in BOOLEAN
        /\ UNCHANGED <<script, disp, sent, running, table, siginfo, locked, pc, scan, passed>>
    BY <1>23 DEF job_waitsafe, Delivers
  <2>2. CASE locked
    <3>1. UNCHANGED <<zombie, due, flags, trapnote, owed, credit>>
      BY <1>23, <2>2 DEF job_waitsafe
    <3>2. QED
      BY <2>1, <3>1
  <2>3. CASE ~locked
    <3>1. job_reap
      BY <1>23, <2>3 DEF job_waitsafe
    <3> HIDE DEF Inv
    <3>2. /\ zombie' \in Nat /\ due' \in Nat /\ trapped' \in [Sigs -> BOOLEAN]
          /\ fault' \in [Sigs -> BOOLEAN] /\ off' \in [Sigs -> BOOLEAN]
          /\ trapnote' \subseteq {"trap", "set"} /\ owed' \subseteq Sigs
          /\ credit' \in [Sigs -> Nat]
      BY <3>1, ReapFacts
    <3>3. QED
      BY <2>1, <3>2 DEF Inv
  <2>4. QED
    BY <2>2, <2>3
<1>24. CASE UNCHANGED vars
  BY <1>24 DEF vars
<1> HIDE DEF Inv, TypeOK, InTable, AtSignal, Accounted, Sigs, Coms, kernel, table, flags, jobs,
             scan, ghost
<1>25. QED
  <2>1. CASE Main
    BY <2>1, <1>1, <1>2, <1>3, <1>4, <1>5, <1>6, <1>7, <1>8, <1>9, <1>10, <1>11, <1>12,
       <1>13, <1>14, <1>15, <1>16, <1>17, <1>18
    DEF Main
  <2>2. CASE \E s \in Sigs : Handler(s) \/ Send(s)
    BY <2>2, <1>20, <1>21, <1>22, <1>23 DEF Handler
  <2>3. QED
    BY <2>1, <2>2, <1>19, <1>24 DEF Next

LEMMA ScanKept == Inv /\ [Next]_vars => (InTable /\ AtSignal)'
<1> SUFFICES ASSUME Inv, [Next]_vars PROVE (InTable /\ AtSignal)'
  OBVIOUS
<1> USE SigAssumption
    DEF Inv, TypeOK, InTable, AtSignal, Sigs, Coms, kernel, table, flags, jobs, scan, ghost
<1>1. CASE \E s \in Sigs, com \in Coms : Trap(s, com)
  BY <1>1 DEF Trap, SetTrap, ClearTrap, sh_sigtrap, sh_sigclear
<1>2. CASE Fork
  BY <1>2 DEF Fork
<1>3. CASE Other
  BY <1>3 DEF Other
<1>4. CASE Call
  BY <1>4 DEF Call, sh_sigreset
<1>5. CASE Return
  BY <1>5 DEF Return, Restored
<1>6. CASE Dies
  BY <1>6 DEF Dies
<1>7. CASE Quiet
  BY <1>7 DEF Quiet
<1>8. CASE Enter
  BY <1>8 DEF Enter
<1>9. CASE Pass
  <2>1. CASE Bottom
    <3>1. sig' > 0 => sig' < trapmax
      BY <1>9, <2>1, BottomFacts DEF Pass
    <3>2. QED
      BY <1>9, <3>1 DEF Pass
  <2>2. CASE ~Bottom
    BY <1>9, <2>2 DEF Pass
  <2>3. QED
    BY <2>1, <2>2
<1>10. CASE Visit
  <2>1. CASE Bottom
    <3>1. sig' > 0 => sig' < trapmax
      BY <1>10, <2>1, BottomFacts DEF Visit
    <3>2. QED
      BY <1>10, <3>1 DEF Visit
  <2>2. CASE ~Bottom
    BY <1>10, <2>2 DEF Visit
  <2>3. QED
    BY <2>1, <2>2
<1>11. CASE Take
  BY <1>11 DEF Take
<1>12. CASE BodyEnds
  BY <1>12 DEF BodyEnds
<1>13. CASE BodyLeft
  BY <1>13 DEF BodyLeft
<1>14. CASE ChldVisit
  BY <1>14 DEF ChldVisit
<1>15. CASE ChldRun
  BY <1>15 DEF ChldRun
<1>16. CASE ChldBodyEnds
  BY <1>16 DEF ChldBodyEnds
<1>17. CASE ChldDone
  BY <1>17 DEF ChldDone
<1>18. CASE ScanEnds
  BY <1>18 DEF ScanEnds
<1>19. CASE KidExits
  BY <1>19 DEF KidExits
<1>20. CASE \E s \in Sigs : Send(s)
  BY <1>20 DEF Send
<1>21. CASE \E s \in Sigs : Killed(s)
  BY <1>21 DEF Killed, Delivers
<1>22. CASE \E s \in Sigs : sh_fault(s)
  BY <1>22 DEF sh_fault, Delivers, FaultTrap, FaultIgnored, FaultUntrapped
<1>23. CASE job_waitsafe
  <2>1. UNCHANGED <<table, pc, scan>>
    BY <1>23 DEF job_waitsafe
  <2>2. due' >= due /\ due' \in Nat
    <3>1. CASE job_reap
      <4> HIDE DEF Inv
      <4>1. QED
        BY <3>1, ReapFacts
    <3>2. CASE ~job_reap
      BY <1>23, <3>2 DEF job_waitsafe
    <3>3. QED
      BY <3>1, <3>2
  <2>3. QED
    BY <2>1, <2>2
<1>24. CASE UNCHANGED vars
  BY <1>24 DEF vars
<1> HIDE DEF Inv, TypeOK, InTable, AtSignal, Accounted, Sigs, Coms, kernel, table, flags, jobs,
             scan, ghost
<1>25. QED
  <2>1. CASE Main
    BY <2>1, <1>1, <1>2, <1>3, <1>4, <1>5, <1>6, <1>7, <1>8, <1>9, <1>10, <1>11, <1>12,
       <1>13, <1>14, <1>15, <1>16, <1>17, <1>18
    DEF Main
  <2>2. CASE \E s \in Sigs : Handler(s) \/ Send(s)
    BY <2>2, <1>20, <1>21, <1>22, <1>23 DEF Handler
  <2>3. QED
    BY <2>1, <2>2, <1>19, <1>24 DEF Next

LEMMA AccountKept == Inv /\ [Next]_vars => Accounted'
<1> SUFFICES ASSUME Inv, [Next]_vars PROVE Accounted'
  OBVIOUS
<1> USE SigAssumption
    DEF Inv, TypeOK, AtSignal, Accounted, Taken, Sigs, Coms, kernel, table, flags, jobs,
        scan, ghost
<1>1. CASE \E s \in Sigs, com \in Coms : Trap(s, com)
  BY <1>1 DEF Trap, SetTrap, ClearTrap, sh_sigtrap, sh_sigclear
<1>2. CASE Fork
  BY <1>2 DEF Fork
<1>3. CASE Other
  BY <1>3 DEF Other
<1>4. CASE Call
  BY <1>4 DEF Call, sh_sigreset
<1>5. CASE Return
  BY <1>5 DEF Return, Restored
<1>6. CASE Dies
  BY <1>6 DEF Dies
<1>7. CASE Quiet
  BY <1>7 DEF Quiet
<1>8. CASE Enter
  BY <1>8 DEF Enter
<1>9. CASE Pass
  BY <1>9, BottomFacts DEF Pass
<1>10. CASE Visit
  BY <1>10, BottomFacts DEF Visit
<1>11. CASE Take
  <2>1. /\ sig \in Sigs \ {CHLD} /\ pc = "take" /\ due' = due /\ credit' = credit
        /\ ip' = siginfo[sig] /\ siginfo' = [siginfo EXCEPT ![sig] = 0]
        /\ pc' = "body" => sig' = sig
    BY <1>11 DEF Take
  <2>2. \A s \in Sigs \ {CHLD} : siginfo[s] \in Nat /\ siginfo[s] <= credit[s]
    BY <2>1
  <2>3. siginfo \in [Sigs -> Nat] /\ credit \in [Sigs -> Nat] /\ due <= credit[CHLD]
    OBVIOUS
  <2> HIDE DEF Inv, TypeOK, AtSignal, Sigs
  <2>4. \A s \in Sigs \ {CHLD} : siginfo'[s] + Taken(s)' <= credit'[s]
    BY <2>1, <2>2, <2>3
  <2>5. QED
    BY <2>1, <2>3, <2>4
<1>12. CASE BodyEnds
  <2>1. /\ sig \in Sigs \ {CHLD} /\ ip \in Nat \ {0} /\ siginfo' = siginfo /\ due' = due
        /\ siginfo[sig] + ip <= credit[sig]
    BY <1>12 DEF BodyEnds
  <2>2. credit' = [credit EXCEPT ![sig] = credit[sig] - 1] /\ ip' = ip - 1
    <3>1. credit[sig] \in Nat /\ siginfo[sig] \in Nat
      BY <2>1
    <3>2. credit[sig] # 0
      BY <2>1, <3>1
    <3>3. QED
      BY <1>12, <3>2 DEF BodyEnds
  <2>3. pc' # "body" \/ sig' = sig
    BY <1>12 DEF BodyEnds
  <2>4. \A s \in Sigs \ {CHLD} : siginfo'[s] + (IF pc' = "body" /\ sig' = s THEN ip' ELSE 0) <= credit'[s]
    <3> SUFFICES ASSUME NEW s \in Sigs \ {CHLD}
                 PROVE  siginfo'[s] + (IF pc' = "body" /\ sig' = s THEN ip' ELSE 0) <= credit'[s]
      OBVIOUS
    <3>1. siginfo[s] \in Nat /\ credit[s] \in Nat /\ siginfo[s] <= credit[s]
      <4>1. siginfo[s] \in Nat /\ credit[s] \in Nat /\ Taken(s) \in Nat
        BY <2>1
      <4>2. siginfo[s] + Taken(s) <= credit[s]
        OBVIOUS
      <4> HIDE DEF Taken, TypeOK, Accounted
      <4>3. QED
        BY <4>1, <4>2
    <3>2. CASE s = sig
      <4>1. /\ credit'[s] = credit[s] - 1 /\ siginfo'[s] = siginfo[s] /\ ip \in Nat \ {0}
            /\ siginfo[s] + ip <= credit[s] /\ ip' = ip - 1
        BY <2>1, <2>2, <3>2
      <4> HIDE DEF Inv, TypeOK, AtSignal, Accounted, Sigs
      <4>2. QED
        BY <3>1, <4>1
    <3>3. CASE s # sig
      BY <2>1, <2>2, <2>3, <3>1, <3>3
    <3>4. QED
      BY <3>2, <3>3
  <2>5. QED
    BY <2>1, <2>2, <2>4
<1>13. CASE BodyLeft
  <2>1. pc' = "unwind" /\ siginfo' = siginfo
    BY <1>13 DEF BodyLeft
  <2>2. /\ due' <= credit'[CHLD] /\ \A s \in Sigs \ {CHLD} : credit'[s] = credit[s]
    BY <1>13, ReapFacts DEF BodyLeft
  <2>3. QED
    BY <2>1, <2>2
<1>14. CASE ChldVisit
  BY <1>14 DEF ChldVisit
<1>15. CASE ChldRun
  BY <1>15 DEF ChldRun
<1>16. CASE ChldBodyEnds
  BY <1>16 DEF ChldBodyEnds
<1>17. CASE ChldDone
  BY <1>17 DEF ChldDone
<1>18. CASE ScanEnds
  BY <1>18 DEF ScanEnds
<1>19. CASE KidExits
  BY <1>19 DEF KidExits
<1>20. CASE \E s \in Sigs : Send(s)
  BY <1>20 DEF Send
<1>21. CASE \E s \in Sigs : Killed(s)
  <2>1. /\ siginfo' = siginfo /\ credit' = credit /\ due' = due /\ sig' = sig /\ ip' = ip
        /\ pc' = "dead"
    BY <1>21 DEF Killed, Delivers
  <2>2. \A s \in Sigs \ {CHLD} :
          siginfo[s] \in Nat /\ credit[s] \in Nat /\ Taken(s) \in Nat
    OBVIOUS
  <2>3. \A s \in Sigs \ {CHLD} : siginfo[s] + Taken(s) <= credit[s]
    OBVIOUS
  <2>4. due <= credit[CHLD] /\ \A s \in Sigs : Taken(s)' = 0
    BY <2>1
  <2> HIDE DEF Inv, TypeOK, AtSignal, Taken, Sigs
  <2>5. QED
    BY <2>1, <2>2, <2>3, <2>4
<1>22. CASE \E s \in Sigs : sh_fault(s)
  <2>1. PICK s \in Sigs : sh_fault(s)
    BY <1>22
  <2>2. due' = due /\ pc' = pc /\ sig' = sig /\ ip' = ip
    BY <2>1 DEF sh_fault
  <2>3. CASE FaultTrap(s)
    <3>1. /\ siginfo' = [siginfo EXCEPT ![s] = siginfo[s] + 1]
          /\ credit' = [credit EXCEPT ![s] = credit[s] + 1]
      BY <2>3 DEF FaultTrap
    <3>2. \A t \in Sigs : siginfo'[t] - siginfo[t] = credit'[t] - credit[t]
      <4>1. siginfo \in [Sigs -> Nat] /\ credit \in [Sigs -> Nat]
        OBVIOUS
      <4> HIDE DEF Inv, TypeOK, AtSignal, Accounted, Sigs
      <4>2. QED
        BY <3>1, <4>1
    <3>3. due' <= credit'[CHLD]
      BY <2>2, <3>1
    <3>4. \A t \in Sigs : siginfo'[t] \in Nat /\ credit'[t] \in Nat
      <4>1. siginfo \in [Sigs -> Nat] /\ credit \in [Sigs -> Nat]
        OBVIOUS
      <4> HIDE DEF Inv, TypeOK, AtSignal, Accounted, Sigs
      <4>2. QED
        BY <3>1, <4>1
    <3>5. \A t \in Sigs \ {CHLD} :
            /\ siginfo[t] + Taken(t) <= credit[t] /\ Taken(t)' = Taken(t) /\ Taken(t) \in Nat
            /\ siginfo[t] \in Nat /\ credit[t] \in Nat
      BY <2>2
    <3>6. \A t \in Sigs \ {CHLD} : siginfo'[t] + Taken(t)' <= credit'[t]
      <4> HIDE DEF Taken, TypeOK, Accounted
      <4>1. QED
        BY <3>2, <3>4, <3>5
    <3>7. QED
      BY <3>3, <3>6
  <2>4. CASE ~FaultTrap(s)
    BY <2>1, <2>2, <2>4 DEF sh_fault, FaultIgnored, FaultUntrapped
  <2>5. QED
    BY <2>3, <2>4
<1>23. CASE job_waitsafe
  <2>1. pc' = pc /\ siginfo' = siginfo /\ sig' = sig /\ ip' = ip
    BY <1>23 DEF job_waitsafe
  <2>2. /\ due' <= credit'[CHLD] /\ \A s \in Sigs \ {CHLD} : credit'[s] = credit[s]
    BY <1>23, ReapFacts DEF job_waitsafe
  <2>3. QED
    BY <2>1, <2>2
<1>24. CASE UNCHANGED vars
  BY <1>24 DEF vars
<1> HIDE DEF Inv, TypeOK, InTable, AtSignal, Accounted, Sigs, Coms, kernel, table, flags, jobs,
             scan, ghost
<1>25. QED
  <2>1. CASE Main
    BY <2>1, <1>1, <1>2, <1>3, <1>4, <1>5, <1>6, <1>7, <1>8, <1>9, <1>10, <1>11, <1>12,
       <1>13, <1>14, <1>15, <1>16, <1>17, <1>18
    DEF Main
  <2>2. CASE \E s \in Sigs : Handler(s) \/ Send(s)
    BY <2>2, <1>20, <1>21, <1>22, <1>23 DEF Handler
  <2>3. QED
    BY <2>1, <2>2, <1>19, <1>24 DEF Next

LEMMA InvHolds == Spec => []Inv
<1>1. Init => Inv
  <2> SUFFICES ASSUME Init PROVE Inv
    OBVIOUS
  <2> USE SigAssumption DEF Init, Sigs, Coms, Const
  <2>1. /\ disp \in [Sigs -> {"default", "ignore", "sh_fault", "job_waitsafe"}]
        /\ trapcom \in [Sigs -> Coms] /\ asked \in [Sigs -> Coms]
    OBVIOUS
  <2>2. outer \in [trapcom : [Sigs -> Coms], trapmax : 0..(SigMax + 1), asked : [Sigs -> Coms]]
    OBVIOUS
  <2>3. /\ fault \in [Sigs -> BOOLEAN] /\ trapped \in [Sigs -> BOOLEAN]
        /\ off \in [Sigs -> BOOLEAN]
    OBVIOUS
  <2>4. siginfo \in [Sigs -> Nat] /\ credit \in [Sigs -> Nat]
    OBVIOUS
  <2>5. /\ trapmax \in 0..(SigMax + 1) /\ sig \in 0..SigMax /\ ip \in Nat
        /\ sent \in Nat /\ running \in Nat /\ zombie \in Nat /\ due \in Nat
    OBVIOUS
  <2> HIDE DEF Const, Coms
  <2>8. TypeOK
    BY <2>1, <2>2, <2>3, <2>4, <2>5 DEF TypeOK
  <2>6. InTable /\ AtSignal /\ Accounted
    BY DEF InTable, AtSignal, Accounted, Taken, Const
  <2>7. QED
    BY <2>6, <2>8 DEF Inv
<1>2. Inv /\ [Next]_vars => Inv'
  BY TypesKept, ScanKept, AccountKept DEF Inv
<1>3. QED
  BY <1>1, <1>2, PTL DEF Spec

(* The trap machinery keeps its type: in particular sh_chktrap's restart    *)
(* at the top of the table stays within the signals there are.              *)
THEOREM TypeCorrect == Spec => []TypeOK
BY InvHolds, PTL DEF Inv

(* A trap runs at most once for each signal received under it, whatever     *)
(* signals, functions and jobs the script has.                              *)
THEOREM AccountedHolds == Spec => []Accounted
BY InvHolds, PTL DEF Inv

-----------------------------------------------------------------------------
\* What a script may do so that its traps are announced and kept

Forks(s)     == [op |-> "fork"] \in s.cmds
Calls(s)     == [op |-> "call"] \in s.cmds
Asks(s, t, com) == [op |-> "trap", sig |-> t, com |-> com] \in s.cmds
TrapsChld(s) == \E com \in Coms : Asks(s, CHLD, com)

-----------------------------------------------------------------------------
\* The trap table: the inductive invariant behind AsAsked

\* A function calls no trap builtin with an empty string, which its caller
\* would inherit; and no command touches the CHLD trap, whose flag job_reap
\* drops.
KeepsTable(s) ==
  /\ ~TrapsChld(s)
  /\ Calls(s) => \A t \in Sigs : ~Asks(s, t, "ignore")

Ours == Sigs \ EntryIgnored

\* What the tables say is what was asked for, here and in the caller; a trap
\* that is set is within the table that sh_funscope saves.
TableKept ==
  \A s \in Ours :
    /\ trapcom[s] = asked[s]
    /\ trapcom[s] # "none" => s < trapmax
    /\ fn => /\ outer.trapcom[s] = outer.asked[s]
             /\ outer.trapcom[s] # "none" => s < outer.trapmax

\* sh_sigtrap has installed sh_fault for whatever has a trap.
Installed ==
  \A s \in Ours :
    /\ disp[s] # "ignore" /\ ~off[s]
    /\ (~fault[s] /\ s # CHLD) => /\ trapcom[s] = "none"
                                  /\ fn => outer.trapcom[s] = "none"

NoneIgnored ==
  Calls(script) => \A s \in Ours : /\ trapcom[s] # "ignore"
                                   /\ fn => outer.trapcom[s] # "ignore"

TableInv == TableKept /\ Installed /\ NoneIgnored

LEMMA ScriptFixed == [Next]_vars => script' = script
<1> USE DEF vars, ghost, scan, jobs, flags, table, kernel
<1>1. Main => script' = script
  BY DEF Main, Trap, Fork, Other, Call, Return, Dies, Quiet, Enter, Pass, Visit, Take, BodyEnds,
     BodyLeft, ChldVisit, ChldRun, ChldBodyEnds, ChldDone, ScanEnds
<1>2. (\E s \in Sigs : Handler(s) \/ Send(s)) \/ KidExits => script' = script
  BY DEF Handler, sh_fault, Killed, job_waitsafe, Send, KidExits
<1>3. QED
  BY <1>1, <1>2 DEF Next

(* A step that leaves the trap table and the dispositions alone.            *)
LEMMA TableSame ==
  ASSUME TableInv, script' = script, UNCHANGED <<disp, trapcom, trapmax, outer, fn, asked>>,
         \A s \in Ours : off'[s] => off[s],
         \A s \in Ours : s # CHLD => fault'[s] = fault[s]
  PROVE  TableInv'
BY DEF TableInv, TableKept, Installed, NoneIgnored, Calls

LEMMA ReapFlags ==
  ASSUME Inv, job_reap
  PROVE  \A s \in Sigs : /\ off'[s] => off[s]
                         /\ s # CHLD => fault'[s] = fault[s]
<1>1. fault \in [Sigs -> BOOLEAN] /\ off \in [Sigs -> BOOLEAN]
  BY DEF Inv, TypeOK
<1>2. QED
  BY <1>1 DEF job_reap

LEMMA TrapTable ==
  ASSUME Inv, TableInv, KeepsTable(script), NEW s \in Sigs, NEW com \in Coms, Trap(s, com)
  PROVE  TableInv'
<1> USE SigAssumption DEF Ours
<1>1. /\ s # CHLD /\ asked' = [asked EXCEPT ![s] = com] /\ script' = script
      /\ outer' = outer /\ fn' = fn
  BY DEF Trap, KeepsTable, TrapsChld, Asks
<1>2. Calls(script) => com # "ignore"
  BY DEF Trap, KeepsTable, Asks
<1>3. /\ disp \in [Sigs -> {"default", "ignore", "sh_fault", "job_waitsafe"}]
      /\ trapcom \in [Sigs -> Coms] /\ asked \in [Sigs -> Coms]
      /\ fault \in [Sigs -> BOOLEAN] /\ off \in [Sigs -> BOOLEAN]
      /\ trapmax \in 0..(SigMax + 1) /\ s \in Nat /\ SigMax \in Nat
  BY DEF Inv, TypeOK, Sigs
<1>4. CASE com = "none"
  <2>1. ClearTrap(s)
    BY <1>4 DEF Trap
  <2>2. UNCHANGED <<trapmax, disp, fault, off>>
    BY <2>1 DEF ClearTrap
  <2>3. trapcom' = [trapcom EXCEPT ![s] = "none"] \/ (~fault[s] /\ trapcom' = trapcom)
    BY <2>1 DEF ClearTrap, sh_sigclear
  <2>4. \A t \in Sigs : t # s => trapcom'[t] = trapcom[t]
    BY <1>3, <2>3
  <2>5. s \in Ours => trapcom'[s] = "none"
    BY <1>1, <1>3, <2>3 DEF TableInv, Installed
  <2>6. TableKept'
    BY <1>1, <1>3, <1>4, <2>2, <2>4, <2>5 DEF TableInv, TableKept
  <2>7. Installed' /\ NoneIgnored'
    BY <1>1, <2>2, <2>4, <2>5 DEF TableInv, Installed, NoneIgnored, Calls
  <2>8. QED
    BY <2>6, <2>7 DEF TableInv
<1>5. CASE com # "none"
  <2>1. SetTrap(s, com)
    BY <1>5 DEF Trap
  <2>2. trapmax' >= trapmax /\ s < trapmax' /\ trapmax' \in Nat
    BY <1>3, <2>1 DEF SetTrap
  <2>3. \A t \in Sigs : t # s => disp'[t] = disp[t] /\ fault'[t] = fault[t] /\ off'[t] = off[t]
    BY <1>3, <2>1 DEF SetTrap, sh_sigtrap, flags
  <2>4. s \in Ours => disp'[s] # "ignore" /\ ~off'[s] /\ fault'[s]
    BY <1>3, <2>1 DEF SetTrap, sh_sigtrap, flags, TableInv, Installed
  <2>5. trapcom' = [trapcom EXCEPT ![s] = IF off'[s] THEN "ignore" ELSE com]
    BY <2>1 DEF SetTrap
  <2>6. \A t \in Sigs : t # s => trapcom'[t] = trapcom[t]
    BY <1>3, <2>5
  <2>7. s \in Ours => trapcom'[s] = com
    BY <1>3, <2>4, <2>5
  <2>8. TableKept'
    <3>1. \A t \in Sigs : t < trapmax => t < trapmax'
      BY <1>3, <2>2 DEF Sigs
    <3>2. QED
      BY <1>1, <1>3, <2>2, <2>6, <2>7, <3>1 DEF TableInv, TableKept
  <2>9. Installed' /\ NoneIgnored'
    BY <1>1, <1>2, <2>3, <2>4, <2>6, <2>7 DEF TableInv, Installed, NoneIgnored, Calls
  <2>10. QED
    BY <2>8, <2>9 DEF TableInv
<1>6. QED
  BY <1>4, <1>5

LEMMA CallTable ==
  ASSUME Inv, TableInv, Call PROVE TableInv'
<1>1. trapcom \in [Sigs -> Coms] /\ asked \in [Sigs -> Coms]
  BY DEF Inv, TypeOK
<1>2. /\ outer' = [trapcom |-> trapcom, trapmax |-> trapmax, asked |-> asked]
      /\ trapcom' = [s \in Sigs |-> IF trapcom[s] = "action" THEN "none" ELSE trapcom[s]]
      /\ asked' = [s \in Sigs |-> IF asked[s] = "action" THEN "none" ELSE asked[s]]
      /\ fn' = TRUE /\ UNCHANGED <<script, disp, fault, off, trapmax>>
  BY DEF Call, sh_sigreset, kernel
<1>3. /\ outer'.trapcom = trapcom /\ outer'.trapmax = trapmax /\ outer'.asked = asked
  BY <1>2
<1>4. \A s \in Sigs : /\ trapcom'[s] = IF trapcom[s] = "action" THEN "none" ELSE trapcom[s]
                      /\ asked'[s] = IF asked[s] = "action" THEN "none" ELSE asked[s]
  BY <1>2
<1>5. QED
  BY <1>2, <1>3, <1>4 DEF TableInv, TableKept, Installed, NoneIgnored, Ours, Calls

LEMMA ReturnTable ==
  ASSUME Inv, TableInv, Calls(script), Return PROVE TableInv'
<1> USE SigAssumption
<1>1. /\ trapcom \in [Sigs -> Coms] /\ asked \in [Sigs -> Coms] /\ trapmax \in 0..(SigMax + 1)
      /\ outer.trapcom \in [Sigs -> Coms] /\ outer.trapmax \in 0..(SigMax + 1)
      /\ outer.asked \in [Sigs -> Coms]
  BY DEF Inv, TypeOK
<1>2. /\ fn /\ fn' = FALSE /\ trapmax' = outer.trapmax /\ asked' = outer.asked
      /\ UNCHANGED <<script, disp, fault, off, outer>>
  BY DEF Return, kernel
<1>3. \A s \in Sigs : trapcom'[s] = IF outer.trapmax > 0 /\ s <= outer.trapmax
                                      THEN outer.trapcom[s]
                                      ELSE IF trapcom[s] = "action" THEN "none" ELSE trapcom[s]
  BY DEF Return, Restored
<1>4. \A s \in Ours : trapcom'[s] = outer.trapcom[s]
  <2> SUFFICES ASSUME NEW s \in Ours PROVE trapcom'[s] = outer.trapcom[s]
    OBVIOUS
  <2>1. s \in Sigs /\ s \in Nat \ {0} /\ SigMax \in Nat /\ outer.trapmax \in Nat
    BY <1>1 DEF Ours, Sigs
  <2>2. CASE outer.trapcom[s] = "none"
    <3>1. trapcom[s] \in {"none", "action"}
      BY <1>1, <2>1 DEF TableInv, NoneIgnored, Coms
    <3>2. QED
      BY <1>3, <2>1, <2>2, <3>1
  <2>3. CASE outer.trapcom[s] # "none"
    <3>1. s < outer.trapmax
      BY <1>2, <2>3 DEF TableInv, TableKept
    <3>2. QED
      BY <1>3, <2>1, <3>1
  <2>4. QED
    BY <2>2, <2>3
<1>5. QED
  BY <1>2, <1>4 DEF TableInv, TableKept, Installed, NoneIgnored, Calls

\* Only a script that calls a function is in one.
CallsFirst == fn => Calls(script)

LEMMA CallsFirstStep == CallsFirst /\ [Next]_vars => CallsFirst'
<1> SUFFICES ASSUME CallsFirst, [Next]_vars PROVE CallsFirst'
  OBVIOUS
<1>1. CASE Call
  BY <1>1, ScriptFixed DEF Call, CallsFirst, Calls
<1>2. CASE Return
  BY <1>2 DEF Return, CallsFirst
<1>3. CASE ~Call /\ ~Return
  <2> USE DEF vars, ghost, scan, jobs, flags, table, kernel
  <2>1. Main => fn' = fn
    BY <1>3 DEF Main, Trap, Fork, Other, Dies, Quiet, Enter, Pass, Visit, Take, BodyEnds,
       BodyLeft, ChldVisit, ChldRun, ChldBodyEnds, ChldDone, ScanEnds
  <2>2. (\E s \in Sigs : Handler(s) \/ Send(s)) \/ KidExits => fn' = fn
    BY DEF Handler, sh_fault, Killed, job_waitsafe, Send, KidExits
  <2>3. fn' = fn
    BY <2>1, <2>2 DEF Next
  <2>4. QED
    BY <2>3, ScriptFixed DEF CallsFirst, Calls
<1>4. QED
  BY <1>1, <1>2, <1>3

LEMMA TableStep ==
  ASSUME Inv, TableInv, CallsFirst, KeepsTable(script), [Next]_vars
  PROVE  TableInv'
<1> USE DEF Ours
<1>1. CASE \E s \in Sigs, com \in Coms : Trap(s, com)
  BY <1>1, TrapTable
<1>2. CASE Call
  BY <1>2, CallTable
<1>3. CASE Return
  BY <1>3, ReturnTable DEF Return, CallsFirst
<1>4. ASSUME job_reap, UNCHANGED <<disp, trapcom, trapmax, outer, fn, asked>>
      PROVE  TableInv'
  BY <1>4, ReapFlags, TableSame, ScriptFixed
<1>5. CASE BodyLeft
  <2>1. UNCHANGED <<disp, trapcom, trapmax, outer, fn, asked>>
    BY <1>5 DEF BodyLeft, table
  <2>2. job_reap \/ UNCHANGED <<fault, off>>
    BY <1>5 DEF BodyLeft, flags
  <2>3. QED
    BY <1>4, <2>1, <2>2, TableSame, ScriptFixed
<1>6. CASE job_waitsafe
  <2>1. UNCHANGED <<disp, trapcom, trapmax, outer, fn, asked>>
    BY <1>6 DEF job_waitsafe, table
  <2>2. job_reap \/ UNCHANGED <<fault, off>>
    BY <1>6 DEF job_waitsafe, flags
  <2>3. QED
    BY <1>4, <2>1, <2>2, TableSame, ScriptFixed
<1>7. CASE ChldDone
  <2>1. UNCHANGED <<disp, trapcom, trapmax, outer, fn, asked>>
    BY <1>7 DEF ChldDone, table
  <2>2. fault \in [Sigs -> BOOLEAN] /\ off \in [Sigs -> BOOLEAN]
    BY DEF Inv, TypeOK
  <2>3. PICK again \in BOOLEAN : /\ fault' = [fault EXCEPT ![CHLD] = @ /\ ~again]
                                 /\ off' = [off EXCEPT ![CHLD] = @ /\ ~again]
    BY <1>7 DEF ChldDone
  <2>4. \A s \in Sigs : (off'[s] => off[s]) /\ (s # CHLD => fault'[s] = fault[s])
    BY <2>2, <2>3
  <2>5. QED
    BY <2>1, <2>4, TableSame, ScriptFixed
<1>8. CASE Fork \/ Other \/ Dies \/ Quiet \/ Enter \/ Pass \/ Visit \/ Take \/ BodyEnds
  <2>1. UNCHANGED <<disp, trapcom, trapmax, outer, fn, asked, fault, off>>
    BY <1>8 DEF Fork, Other, Dies, Quiet, Enter, Pass, Visit, Take, BodyEnds, table, flags, kernel
  <2>2. QED
    BY <2>1, TableSame, ScriptFixed
<1>9. CASE ChldVisit \/ ChldRun \/ ChldBodyEnds \/ ScanEnds \/ KidExits \/ UNCHANGED vars
  <2>1. UNCHANGED <<disp, trapcom, trapmax, outer, fn, asked, fault, off>>
    BY <1>9 DEF ChldVisit, ChldRun, ChldBodyEnds, ScanEnds, KidExits, vars, table, flags, kernel
  <2>2. QED
    BY <2>1, TableSame, ScriptFixed
<1>10. CASE \E s \in Sigs : sh_fault(s) \/ Killed(s) \/ Send(s)
  <2>1. UNCHANGED <<disp, trapcom, trapmax, outer, fn, asked, fault, off>>
    BY <1>10 DEF sh_fault, Killed, Send, table, flags
  <2>2. QED
    BY <2>1, TableSame, ScriptFixed
<1>11. QED
  BY <1>1, <1>2, <1>3, <1>5, <1>6, <1>7, <1>8, <1>9, <1>10 DEF Next, Main, Handler

(* In a script that leaves the CHLD trap alone, and whose functions, if it  *)
(* has any, set no empty trap, every trap is always what the last trap      *)
(* command of the scope asked for: through sh_sigreset, the table that      *)
(* sh_funscope restores, and a function that a signal or a return leaves.   *)
THEOREM AsAskedHolds ==
  ASSUME \A s \in Scripts : KeepsTable(s)
  PROVE  Spec => []AsAsked
<1>1. Init => TableInv /\ CallsFirst /\ KeepsTable(script)
  <2> SUFFICES ASSUME Init PROVE TableInv /\ CallsFirst /\ KeepsTable(script)
    OBVIOUS
  <2>1. fn = FALSE /\ script \in Scripts /\ asked = trapcom
    BY DEF Init
  <2>2. \A s \in Sigs : /\ trapcom[s] = IF s \in script.first THEN "action" ELSE "none"
                        /\ s \in script.first => s < trapmax
                        /\ off[s] = FALSE
                        /\ disp[s] = "ignore" => s \in EntryIgnored
                        /\ s \in script.first => fault[s]
    BY DEF Init, Const
  <2>3. QED
    BY <2>1, <2>2 DEF TableInv, TableKept, Installed, NoneIgnored, Ours, CallsFirst
<1>2. /\ Inv /\ TableInv /\ CallsFirst /\ KeepsTable(script) /\ [Next]_vars
      => (TableInv /\ CallsFirst /\ KeepsTable(script))'
  BY TableStep, CallsFirstStep, ScriptFixed DEF KeepsTable, TrapsChld, Asks, Calls
<1>3. TableInv => AsAsked
  BY DEF TableInv, TableKept, AsAsked, Ours
<1>4. QED
  BY <1>1, <1>2, <1>3, InvHolds, PTL DEF Spec

-----------------------------------------------------------------------------
\* What is owed is announced: the inductive invariant behind Announced

\* A script to which nothing happens; or one without functions that either has
\* no jobs, or leaves the CHLD trap alone and, when it is set, is sent no
\* signal that job_chldtrap would forget.
Silent(s)    == s.sends = {} /\ ~Forks(s)
Untrapped(s) == CHLD \notin s.first /\ ~TrapsChld(s)
Announces(s) ==
  \/ Silent(s)
  \/ /\ ~Calls(s)
     /\ \/ ~Forks(s)
        \/ Untrapped(s)
        \/ ~TrapsChld(s) /\ \A t \in s.sends : t <= CHLD

SilentInv == owed = {} /\ running = 0 /\ zombie = 0 /\ pending = {}

LEMMA SilentStep ==
  ASSUME Inv, SilentInv, Silent(script), [Next]_vars
  PROVE  SilentInv'
<1> USE SigAssumption DEF SilentInv
<1>1. CASE \E s \in Sigs, com \in Coms : Trap(s, com)
  BY <1>1 DEF Trap, SetTrap, ClearTrap
<1>2. CASE Fork
  BY <1>2 DEF Fork, Silent, Forks
<1>3. CASE Other \/ Call \/ Return \/ Dies \/ Quiet \/ Enter \/ Pass \/ Visit \/ Take \/ BodyEnds
  BY <1>3 DEF Other, Call, Return, Dies, Quiet, Enter, Pass, Visit, Take, BodyEnds, kernel, ghost
<1>4. CASE BodyLeft \/ ChldVisit \/ ChldRun \/ ChldBodyEnds \/ ChldDone \/ ScanEnds
  BY <1>4 DEF BodyLeft, job_reap, ChldVisit, ChldRun, ChldBodyEnds, ChldDone, ScanEnds, kernel, ghost
<1>5. CASE KidExits \/ UNCHANGED vars
  BY <1>5 DEF KidExits, vars, kernel, ghost
<1>6. CASE \E s \in Sigs : Send(s) \/ sh_fault(s) \/ Killed(s) \/ job_waitsafe
  BY <1>6 DEF Send, Silent, sh_fault, Killed, job_waitsafe, Delivers
<1>7. QED
  BY <1>1, <1>2, <1>3, <1>4, <1>5, <1>6 DEF Next, Main, Handler

\* Where the shell cannot be, and what cannot be set, in the other scripts
AtChld == pc \in {"chld", "chldbody"}

JobsOnly ==
  /\ ~fn
  /\ disp[CHLD] = "job_waitsafe" /\ siginfo[CHLD] = 0
  /\ pending \subseteq script.sends \union {CHLD}
  /\ \A s \in Sigs : trapcom[s] # "none" => s < trapmax
  /\ \A s \in Sigs : trapcom[s] = "action" => ~off[s] /\ (s = CHLD \/ fault[s])
  /\ ~Forks(script) => running = 0 /\ zombie = 0 /\ fault[CHLD] /\ ~trapped[CHLD] /\ ~AtChld
  /\ Untrapped(script) => trapcom[CHLD] = "none" /\ ~trapped[CHLD] /\ ~AtChld

\* Between a signal and its trap: the trap is set, its siginfo is queued, or
\* the shell is at it.
Queued ==
  pc \notin {"unwind", "dead"} =>
    /\ \A s \in owed \ {CHLD} :
         trapcom[s] = "action" /\ (siginfo[s] > 0 \/ (pc = "body" /\ sig = s))
    /\ CHLD \in owed => /\ trapcom[CHLD] # "none"
                        /\ due > 0 /\ (AtChld \/ trapped[CHLD])

\* sh_chktrap will be called again, or has not come to any of them yet.
Note == IF AtChld THEN note0 ELSE trapnote
Ahead == pc \in {"scan", "take", "body", "chld", "chldbody"} /\ \A s \in owed : s <= sig
Reached == pc \notin {"unwind", "dead"} /\ owed # {} => "trap" \in Note \/ Ahead

WaitingInv == JobsOnly /\ Queued /\ Reached

Waits(s) == ~Calls(s) /\ (~Forks(s) \/ ~TrapsChld(s))

LEMMA JobsOnlyStep ==
  ASSUME Inv, JobsOnly, Waits(script), [Next]_vars
  PROVE  JobsOnly'
<1>18. TypeOK'
  BY TypesKept
<1> USE SigAssumption DEF Inv, TypeOK, JobsOnly, AtChld, kernel, table, flags, scan, jobs
<1>0. script' = script /\ (Forks(script) <=> Forks(script)') /\ (Untrapped(script) <=> Untrapped(script)')
  BY ScriptFixed DEF Forks, Untrapped, TrapsChld, Asks
<1>1. CASE \E s \in Sigs, com \in Coms : Trap(s, com)
  <2>1. PICK s \in Sigs, com \in Coms : Trap(s, com)
    BY <1>1
  <2>2. /\ s = CHLD => ~Forks(script) /\ ~Untrapped(script)
        /\ UNCHANGED <<fn, siginfo, pending, running, zombie>> /\ pc' = "check"
    BY <2>1 DEF Trap, Waits, Untrapped, TrapsChld, Asks
  <2>3. \A t \in Sigs : t # s => /\ disp'[t] = disp[t] /\ fault'[t] = fault[t] /\ off'[t] = off[t]
                                 /\ trapped'[t] = trapped[t] /\ trapcom'[t] = trapcom[t]
    BY <2>1 DEF Trap, SetTrap, ClearTrap, sh_sigtrap, sh_sigclear
  <2>4. s = CHLD => disp' = disp /\ fault' = fault /\ off' = off /\ ~trapped'[CHLD]
    BY <2>1, <2>2 DEF Trap, SetTrap, ClearTrap, sh_sigtrap, sh_sigclear
  <2>5. trapmax' >= trapmax /\ (trapcom'[s] # "none" => s < trapmax')
    <3>1. trapmax \in Nat /\ s \in Nat
      BY DEF Sigs
    <3>2. CASE com = "none"
      BY <2>1, <3>1, <3>2 DEF Trap, ClearTrap, sh_sigclear
    <3>3. CASE com # "none"
      BY <2>1, <3>1, <3>3 DEF Trap, SetTrap
    <3>4. QED
      BY <3>2, <3>3
  <2>6. trapcom'[s] = "action" => ~off'[s] /\ (s = CHLD \/ fault'[s])
    BY <2>1 DEF Trap, SetTrap, ClearTrap, sh_sigtrap, sh_sigclear
  <2>7. \A t \in Sigs : trapcom'[t] # "none" => t < trapmax'
    <3>1. trapmax \in Nat /\ trapmax' \in Nat /\ \A t \in Sigs : t \in Nat
      BY <1>18 DEF Sigs
    <3>2. QED
      BY <2>3, <2>5, <3>1
  <2>8. QED
    BY <1>0, <2>2, <2>3, <2>4, <2>6, <2>7
<1>2. CASE Fork
  BY <1>0, <1>2 DEF Fork, Forks
<1>3. CASE Other \/ Dies \/ Quiet \/ Enter \/ Pass
  BY <1>0, <1>3 DEF Other, Dies, Quiet, Enter, Pass
<1>4. CASE Visit \/ Take \/ BodyEnds
  BY <1>0, <1>4 DEF Visit, Take, BodyEnds
<1>5. CASE Call \/ Return
  BY <1>5 DEF Call, Return, Waits, Calls
<1>6. ASSUME job_reap
      PROVE  /\ ~Forks(script) => zombie' = 0 /\ fault'[CHLD] /\ ~trapped'[CHLD]
             /\ Untrapped(script) => ~trapped'[CHLD]
             /\ \A s \in Sigs : (off'[s] => off[s]) /\ (s # CHLD => fault'[s] = fault[s])
  BY <1>6 DEF job_reap
<1>7. CASE BodyLeft
  <2>1. UNCHANGED <<disp, pending, running, table, siginfo>> /\ pc' = "unwind"
    BY <1>7 DEF BodyLeft
  <2>2. job_reap \/ UNCHANGED <<zombie, flags>>
    BY <1>7 DEF BodyLeft
  <2>3. QED
    BY <1>0, <1>6, <2>1, <2>2
<1>8. CASE job_waitsafe
  <2>1. UNCHANGED <<disp, running, table, siginfo, pc>> /\ pending' \subseteq pending
    BY <1>8 DEF job_waitsafe, Delivers
  <2>2. job_reap \/ UNCHANGED <<zombie, flags>>
    BY <1>8 DEF job_waitsafe
  <2>3. QED
    BY <1>0, <1>6, <2>1, <2>2
<1>9. CASE ChldVisit
  <2>1. Forks(script) /\ ~Untrapped(script)
    BY <1>9 DEF ChldVisit, Visited
  <2>2. QED
    BY <1>0, <1>9, <2>1 DEF ChldVisit
<1>10. CASE ChldRun \/ ChldBodyEnds \/ ScanEnds
  BY <1>0, <1>10 DEF ChldRun, ChldBodyEnds, ScanEnds
<1>11. CASE ChldDone
  <2>1. Forks(script) /\ ~Untrapped(script)
    BY <1>11 DEF ChldDone
  <2>2. UNCHANGED <<disp, pending, table, siginfo>>
    BY <1>11 DEF ChldDone
  <2>3. \A s \in Sigs : (off'[s] => off[s]) /\ (s # CHLD => fault'[s] = fault[s])
    BY <1>11 DEF ChldDone
  <2>4. QED
    BY <1>0, <2>1, <2>2, <2>3
<1>12. CASE KidExits
  <2>1. Forks(script)
    BY <1>12 DEF KidExits
  <2>2. QED
    BY <1>0, <1>12, <2>1 DEF KidExits
<1>13. CASE UNCHANGED vars
  BY <1>0, <1>13 DEF vars
<1>14. CASE \E s \in Sigs : Send(s)
  BY <1>0, <1>14 DEF Send
<1>15. CASE \E s \in Sigs : Killed(s)
  BY <1>0, <1>15 DEF Killed, Delivers
<1>16. CASE \E s \in Sigs : sh_fault(s)
  <2>1. PICK s \in Sigs : sh_fault(s)
    BY <1>16
  <2>2. s # CHLD
    BY <2>1 DEF sh_fault
  <2>3. siginfo'[CHLD] = 0 /\ trapped'[CHLD] = trapped[CHLD]
    BY <2>1, <2>2 DEF sh_fault, FaultTrap, FaultIgnored, FaultUntrapped
  <2>4. UNCHANGED <<disp, running, zombie, table, fault, off, pc>> /\ pending' \subseteq pending
    BY <2>1 DEF sh_fault, Delivers
  <2>5. QED
    BY <1>0, <2>3, <2>4
<1> HIDE DEF Inv, TypeOK, JobsOnly, AtChld, kernel, table, flags, scan, jobs
<1>17. QED
  BY <1>1, <1>2, <1>3, <1>4, <1>5, <1>7, <1>8, <1>9, <1>10, <1>11, <1>12, <1>13, <1>14, <1>15, <1>16
  DEF Next, Main, Handler

LEMMA QueuedStep ==
  ASSUME Inv, JobsOnly, Queued, Waits(script), [Next]_vars
  PROVE  Queued'
<1> USE SigAssumption DEF Inv, TypeOK, AtSignal, Queued, AtChld, kernel, table, flags, scan, jobs, ghost
<1>1. CASE \E s \in Sigs, com \in Coms : Trap(s, com)
  <2>1. PICK s \in Sigs, com \in Coms : Trap(s, com)
    BY <1>1
  <2>2. /\ s = CHLD => CHLD \notin owed
        /\ siginfo' = siginfo /\ due' = due /\ pc = "home" /\ pc' = "check" /\ owed' \subseteq owed
    BY <2>1 DEF Trap, SetTrap, ClearTrap, JobsOnly, Waits, TrapsChld, Asks
  <2>3. \A t \in Sigs : t # s => trapped'[t] = trapped[t] /\ trapcom'[t] = trapcom[t]
    BY <2>1 DEF Trap, SetTrap, ClearTrap, sh_sigtrap, sh_sigclear
  <2>4. s \in owed' /\ s # CHLD => trapcom'[s] = "action"
    <3> SUFFICES ASSUME s \in owed', s # CHLD PROVE trapcom'[s] = "action"
      OBVIOUS
    <3>1. trapcom[s] = "action" /\ ~off[s] /\ fault[s]
      BY <2>2 DEF JobsOnly
    <3>2. com = "action"
      BY <2>1 DEF Trap, SetTrap, ClearTrap, Coms
    <3>3. SetTrap(s, com)
      BY <2>1, <3>2 DEF Trap
    <3>4. off' = off
      BY <3>1, <3>3 DEF SetTrap, sh_sigtrap
    <3>5. QED
      BY <3>1, <3>2, <3>3, <3>4 DEF SetTrap
  <2>5. CHLD \in Sigs
    OBVIOUS
  <2>6. QED
    BY <2>2, <2>3, <2>4, <2>5
<1>2. CASE Fork \/ Other \/ Dies \/ Quiet \/ Enter \/ ScanEnds \/ ChldRun
  BY <1>2 DEF Fork, Other, Dies, Quiet, Enter, ScanEnds, ChldRun
<1>3. CASE Call \/ Return
  BY <1>3 DEF Call, Return, Waits, Calls, JobsOnly
<1>4. CASE Pass
  BY <1>4 DEF Pass
<1>5. CASE Visit
  BY <1>5 DEF Visit
<1>6. CASE Take
  BY <1>6 DEF Take
<1>7. CASE BodyEnds
  BY <1>7 DEF BodyEnds
<1>8. CASE BodyLeft
  BY <1>8 DEF BodyLeft
<1>9. CASE ChldVisit
  BY <1>9 DEF ChldVisit
<1>10. CASE ChldBodyEnds
  BY <1>10 DEF ChldBodyEnds
<1>11. CASE ChldDone
  <2>1. CHLD \notin owed
    BY <1>11 DEF ChldDone
  <2>2. PICK again \in BOOLEAN : /\ trapped' = [trapped EXCEPT ![CHLD] = @ \/ again]
                                 /\ owed' = IF again THEN owed \union {CHLD} ELSE owed
                                 /\ again => due' > 0 /\ trapcom[CHLD] # "none"
    BY <1>11 DEF ChldDone
  <2>3. UNCHANGED <<trapcom, siginfo>> /\ pc' = "scan" /\ pc = "chld"
    BY <1>11 DEF ChldDone
  <2>4. QED
    BY <2>1, <2>2, <2>3
<1>12. CASE KidExits \/ UNCHANGED vars
  BY <1>12 DEF KidExits, vars
<1>13. CASE \E s \in Sigs : Send(s) \/ Killed(s)
  BY <1>13 DEF Send, Killed
<1>14. CASE \E s \in Sigs : sh_fault(s)
  <2>1. PICK s \in Sigs : sh_fault(s)
    BY <1>14
  <2>2. s # CHLD
    BY <2>1 DEF sh_fault, JobsOnly
  <2>3. UNCHANGED <<trapcom, due, pc, sig>>
    BY <2>1 DEF sh_fault
  <2>4. CASE FaultTrap(s)
    <3>1. /\ siginfo' = [siginfo EXCEPT ![s] = siginfo[s] + 1] /\ trapcom[s] = "action"
          /\ trapped' = [trapped EXCEPT ![s] = TRUE] /\ owed' = owed \union {s}
      BY <2>4 DEF FaultTrap
    <3>2. siginfo'[s] > 0 /\ \A t \in Sigs \ {s} : siginfo'[t] = siginfo[t]
      BY <3>1
    <3>3. trapped'[CHLD] = trapped[CHLD]
      BY <2>2, <3>1
    <3>4. QED
      BY <2>2, <2>3, <3>1, <3>2, <3>3
  <2>5. CASE ~FaultTrap(s)
    BY <2>1, <2>3, <2>5 DEF sh_fault, FaultIgnored, FaultUntrapped
  <2>6. QED
    BY <2>4, <2>5
<1>15. CASE job_waitsafe
  <2>1. UNCHANGED <<trapcom, siginfo, pc, sig>>
    BY <1>15 DEF job_waitsafe
  <2>2. CASE job_reap
    <3>1. PICK announce \in BOOLEAN :
            /\ announce => zombie > 0 /\ trapcom[CHLD] # "none"
            /\ due' = IF announce THEN due + zombie ELSE due
            /\ trapped' = [trapped EXCEPT ![CHLD] = @ \/ announce]
            /\ owed' = IF announce THEN owed \union {CHLD} ELSE owed
      BY <2>2 DEF job_reap
    <3>2. QED
      BY <2>1, <3>1
  <2>3. CASE ~job_reap
    BY <1>15, <2>1, <2>3 DEF job_waitsafe
  <2>4. QED
    BY <2>2, <2>3
<1> HIDE DEF Inv, TypeOK, AtSignal, Queued, AtChld, kernel, table, flags, scan, jobs, ghost
<1>16. QED
  BY <1>1, <1>2, <1>3, <1>4, <1>5, <1>6, <1>7, <1>8, <1>9, <1>10, <1>11, <1>12, <1>13, <1>14, <1>15
  DEF Next, Main, Handler

LEMMA ReachedStep ==
  ASSUME Inv, JobsOnly, JobsOnly', Queued, Reached, Waits(script),
         ~Forks(script) \/ Untrapped(script) \/ \A t \in script.sends : t <= CHLD,
         [Next]_vars
  PROVE  Reached'
<1> USE SigAssumption
    DEF Inv, TypeOK, AtSignal, Reached, Note, Ahead, AtChld, kernel, table, flags, scan, jobs, ghost
<1>0. owed \subseteq Sigs /\ \A s \in Sigs : s \in Nat \ {0}
  BY DEF Sigs
<1>1. CASE \E s \in Sigs, com \in Coms : Trap(s, com)
  BY <1>1 DEF Trap, SetTrap, ClearTrap
<1>2. CASE Fork \/ Other \/ Dies \/ Quiet \/ ScanEnds
  BY <1>0, <1>2 DEF Fork, Other, Dies, Quiet, ScanEnds
<1>3. CASE Enter
  <2>1. pc = "check" /\ owed' = owed /\ pc' = "scan"
    BY <1>3 DEF Enter
  <2>2. \A s \in owed : s < trapmax
    BY <2>1, <1>0 DEF JobsOnly, Queued
  <2>3. sig' = IF trapmax = 0 THEN 0 ELSE trapmax - 1
    BY <1>3 DEF Enter
  <2>4. \A s \in owed : s <= sig'
    <3>1. trapmax \in Nat
      OBVIOUS
    <3>2. QED
      BY <1>0, <2>2, <2>3, <3>1
  <2>5. QED
    BY <2>1, <2>4
<1>4. CASE Call \/ Return
  BY <1>4 DEF Call, Return, Waits, Calls, JobsOnly
<1>5. ASSUME pc = "scan", sig > 0, sig \notin owed, Bottom, owed' = owed, pc' = "scan", trapnote' = trapnote
      PROVE  Reached'
  <2>1. CASE Ahead
    <3>1. \A s \in owed : s <= sig /\ s # sig
      BY <1>5, <2>1
    <3>2. sig \in Nat
      BY DEF Sigs
    <3>3. \A s \in owed : s <= sig - 1 /\ sig # 1
      BY <1>0, <3>1, <3>2
    <3>4. owed # {} => sig' = sig - 1
      BY <1>5, <3>3 DEF Bottom
    <3>5. QED
      BY <1>5, <3>3, <3>4
  <2>2. CASE ~Ahead
    BY <1>5, <2>2
  <2>3. QED
    BY <2>1, <2>2
<1>6. CASE Pass
  <2>1. sig \notin owed
    BY <1>6 DEF Pass, Visited, Queued
  <2>2. QED
    BY <1>5, <1>6, <2>1 DEF Pass
<1>7. CASE Visit
  <2>1. CASE trapcom[sig] = "none"
    <3>1. sig \notin owed
      BY <1>7, <2>1 DEF Visit, Queued
    <3>2. QED
      BY <1>5, <1>7, <2>1, <3>1 DEF Visit
  <2>2. CASE trapcom[sig] # "none"
    BY <1>7, <2>2 DEF Visit
  <2>3. QED
    BY <2>1, <2>2
<1>8. CASE Take
  <2>1. CASE siginfo[sig] = 0
    <3>1. sig \notin owed /\ sig \in Nat
      BY <1>8, <2>1 DEF Take, Queued, Sigs
    <3>2. pc' = "scan" /\ sig' = sig - 1 /\ owed' = owed /\ trapnote' = trapnote /\ pc = "take"
      BY <1>8, <2>1 DEF Take
    <3>3. (\A s \in owed : s <= sig) => \A s \in owed : s <= sig - 1
      BY <1>0, <3>1
    <3>4. QED
      BY <3>2, <3>3
  <2>2. CASE siginfo[sig] # 0
    BY <1>8, <2>2 DEF Take
  <2>3. QED
    BY <2>1, <2>2
<1>9. CASE BodyEnds
  <2>1. pc = "body" /\ trapnote' = trapnote /\ owed' \subseteq owed /\ sig \in Nat
    BY <1>9 DEF BodyEnds, Sigs
  <2>2. CASE pc' \in {"body", "take"} /\ sig' = sig
    BY <2>1, <2>2
  <2>3. CASE ~(pc' \in {"body", "take"} /\ sig' = sig)
    <3>1. owed' = owed \ {sig} /\ pc' = "scan" /\ (sig # 1 => sig' = sig - 1)
      BY <1>9, <2>3 DEF BodyEnds
    <3>2. (\A s \in owed : s <= sig) => \A s \in owed' : s <= sig - 1 /\ sig # 1
      BY <1>0, <2>1, <3>1
    <3>3. QED
      BY <2>1, <3>1, <3>2
  <2>4. QED
    BY <2>2, <2>3
<1>10. CASE BodyLeft
  BY <1>10 DEF BodyLeft
<1>11. CASE ChldVisit \/ ChldRun \/ ChldBodyEnds
  BY <1>11 DEF ChldVisit, ChldRun, ChldBodyEnds
<1>12. CASE ChldDone
  <2>1. CHLD \notin owed /\ pc = "chld" /\ sig = CHLD /\ pc' = "scan" /\ sig' = sig - 1 /\ CHLD \in Nat
    BY <1>12 DEF ChldDone, Queued, Sigs
  <2>2. \/ owed' = owed
        \/ savesig /\ trapped'[CHLD]
    BY <1>12 DEF ChldDone
  <2>3. trapnote' = IF savesig /\ trapped'[CHLD] THEN note0 \union {"trap"} ELSE note0
    BY <1>12 DEF ChldDone
  <2>4. CASE "trap" \in trapnote'
    BY <2>1, <2>4
  <2>5. CASE "trap" \notin trapnote'
    <3>1. owed' = owed /\ trapnote' = note0
      BY <2>2, <2>3, <2>5
    <3>2. (\A s \in owed : s <= sig) => \A s \in owed : s <= sig - 1
      BY <1>0, <2>1
    <3>3. QED
      BY <2>1, <2>5, <3>1, <3>2
  <2>6. QED
    BY <2>4, <2>5
<1>13. CASE KidExits \/ UNCHANGED vars
  BY <1>13 DEF KidExits, vars
<1>14. CASE \E s \in Sigs : Send(s) \/ Killed(s)
  BY <1>14 DEF Send, Killed
<1>15. CASE \E s \in Sigs : sh_fault(s)
  <2>1. PICK s \in Sigs : sh_fault(s)
    BY <1>15
  <2>2. UNCHANGED <<pc, sig, note0>> /\ s \in pending
    BY <2>1 DEF sh_fault, Delivers
  <2>3. CASE FaultTrap(s) /\ AtChld
    <3>1. s <= CHLD /\ sig = CHLD
      BY <2>2, <2>3 DEF JobsOnly, Sigs
    <3>2. owed' = owed \union {s}
      BY <2>3 DEF FaultTrap
    <3>3. QED
      BY <2>2, <2>3, <3>1, <3>2
  <2>4. CASE FaultTrap(s) /\ ~AtChld
    BY <2>2, <2>4 DEF FaultTrap
  <2>5. CASE ~FaultTrap(s)
    <3>1. owed' = owed /\ trapnote \subseteq trapnote'
      BY <2>1, <2>5 DEF sh_fault, FaultIgnored, FaultUntrapped
    <3>2. QED
      BY <2>2, <3>1
  <2>6. QED
    BY <2>3, <2>4, <2>5
<1>16. CASE job_waitsafe
  <2>1. UNCHANGED <<pc, sig, note0>>
    BY <1>16 DEF job_waitsafe
  <2>2. CASE owed' = owed
    <3>1. trapnote \subseteq trapnote'
      BY <1>16 DEF job_waitsafe, job_reap
    <3>2. QED
      BY <2>1, <2>2, <3>1
  <2>3. CASE owed' # owed
    <3>1. job_reap
      BY <1>16, <2>3 DEF job_waitsafe
    <3>2. owed' = owed \union {CHLD} /\ "trap" \in trapnote'
      BY <2>3, <3>1 DEF job_reap
    <3>3. CASE AtChld
      <4>1. CHLD <= CHLD /\ sig = CHLD
        BY <3>3 DEF Sigs
      <4>2. QED
        BY <2>1, <3>2, <3>3, <4>1
    <3>4. CASE ~AtChld
      BY <2>1, <3>2, <3>4
    <3>5. QED
      BY <3>3, <3>4
  <2>4. QED
    BY <2>2, <2>3
<1> HIDE DEF Inv, TypeOK, AtSignal, Reached, Note, Ahead, AtChld, kernel, table, flags, scan, jobs, ghost
<1>17. QED
  BY <1>1, <1>2, <1>3, <1>4, <1>6, <1>7, <1>8, <1>9, <1>10, <1>11, <1>12, <1>13, <1>14, <1>15, <1>16
  DEF Next, Main, Handler

(* Between two commands a signal whose trap has not run is announced, in a  *)
(* script without functions whose CHLD trap, if it has jobs, is not set     *)
(* anew, and is not set at all when a signal above SIGCHLD may come; so a   *)
(* signal that comes at any moment of sh_chktrap, of its retry or of a trap *)
(* is seen by this scan or by the next.                                     *)
THEOREM AnnouncedHolds ==
  ASSUME \A s \in Scripts : Announces(s)
  PROVE  Spec => []Announced
<1> DEFINE J == IF Silent(script) THEN SilentInv ELSE WaitingInv
<1>1. Init => J /\ Announces(script)
  <2> SUFFICES ASSUME Init PROVE J /\ Announces(script)
    OBVIOUS
  <2>1. SilentInv
    BY DEF Init, SilentInv
  <2>2. /\ ~fn /\ CHLD \in Sigs /\ script \in Scripts /\ pending = {} /\ owed = {} /\ pc = "home"
        /\ running = 0 /\ zombie = 0
    BY SigAssumption DEF Init
  <2>3. \A s \in Sigs : /\ siginfo[s] = 0 /\ ~off[s] /\ ~trapped[s]
                        /\ s = CHLD => disp[s] = "job_waitsafe" /\ fault[s]
                        /\ trapcom[s] = IF s \in script.first THEN "action" ELSE "none"
                        /\ s \in script.first => fault[s] /\ s < trapmax
    BY DEF Init, Const
  <2>4. JobsOnly
    BY <2>2, <2>3 DEF JobsOnly, Untrapped, AtChld
  <2>5. Queued /\ Reached
    BY <2>2 DEF Queued, Reached
  <2>6. QED
    BY <2>1, <2>2, <2>4, <2>5 DEF WaitingInv
<1>2. Inv /\ J /\ Announces(script) /\ [Next]_vars => (J /\ Announces(script))'
  <2> SUFFICES ASSUME Inv, J, Announces(script), [Next]_vars PROVE (J /\ Announces(script))'
    OBVIOUS
  <2>1. script' = script
    BY ScriptFixed
  <2>2. CASE Silent(script)
    BY <2>1, <2>2, SilentStep DEF Silent, Forks, Announces, Calls, Untrapped, TrapsChld, Asks
  <2>3. CASE ~Silent(script)
    <3>1. /\ JobsOnly /\ Queued /\ Reached
          /\ ~Calls(script)
          /\ ~Forks(script) \/ Untrapped(script) \/ (~TrapsChld(script) /\ \A t \in script.sends : t <= CHLD)
      BY <2>3 DEF WaitingInv, Announces
    <3>2. Waits(script)
      BY <3>1 DEF Waits, Untrapped
    <3>3. JobsOnly'
      BY <3>1, <3>2, JobsOnlyStep
    <3>4. Queued'
      BY <3>1, <3>2, QueuedStep
    <3>5. Reached'
      BY <3>1, <3>2, <3>3, ReachedStep
    <3>6. QED
      BY <2>1, <2>3, <3>3, <3>4, <3>5
      DEF WaitingInv, Silent, Forks, Announces, Calls, Untrapped, TrapsChld, Asks
  <2>4. QED
    BY <2>2, <2>3
<1>3. J => Announced
  BY DEF SilentInv, WaitingInv, Reached, Note, Ahead, AtChld, Announced
<1> HIDE DEF J
<1>4. QED
  BY <1>1, <1>2, <1>3, InvHolds, PTL DEF Spec
=============================================================================
