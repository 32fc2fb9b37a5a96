--------------------------- MODULE JobLockProofs ---------------------------
(***************************************************************************)
(* Theorems about JobLock, for any set of children, any width of the       *)
(* counter of at least two bits and any set of scripts.                    *)
(***************************************************************************)
EXTENDS JobLock, TLAPS, FiniteSetTheorems

LEMMA CollectTypes ==
  ASSUME TypeOK, NEW c \in Children, Collect(c)
  PROVE  /\ kid' \in [Children -> {"unborn", "running", "zombie", "reaped"}]
         /\ pending' \in BOOLEAN
         /\ posted' \subseteq Children /\ bg' \subseteq Children
         /\ done' \subseteq Children /\ saved' \subseteq Children
         /\ in_critical' \in 0..UMax /\ savesig' \in BOOLEAN
         /\ waitsafe' \in 0..WMod-1 /\ sigflag' \in BOOLEAN
BY WModAssumption DEF TypeOK, Collect, Bump

LEMMA CounterTypes ==
  /\ \A n \in 0..UMax : Inc(n) \in 0..UMax /\ Dec(n) \in 0..UMax
  /\ \A w \in 0..WMod-1 : Bump(w) \in 0..WMod-1
<1>1. \A n \in 0..UMax : Inc(n) \in 0..UMax /\ Dec(n) \in 0..UMax
  BY WidthAssumption DEF Inc, Dec
<1>2. \A w \in 0..WMod-1 : Bump(w) \in 0..WMod-1
  BY WModAssumption DEF Bump
<1> QED BY <1>1, <1>2

(* Every variable keeps its type, whatever commands the script runs.        *)
THEOREM TypeCorrect == Spec => []TypeOK
<1>1. Init => TypeOK
  <2> SUFFICES ASSUME Init PROVE TypeOK
    OBVIOUS
  <2>1. /\ 0 \in 0..UMax /\ 0 \in 0..WMod-1 /\ 0 \in Levels
        /\ "home" \in Labels
    BY WidthAssumption, WModAssumption DEF Levels, Labels, Outside
  <2>2. /\ pc \in [Levels -> Labels \union Sub]
        /\ uret \in [Levels -> Labels]
        /\ rret \in [Levels -> {"dec", "waited"}]
        /\ reap \in [Levels -> ReapLocals]
    BY <2>1 DEF Init, ReapLocals
  <2>3. target \in [Levels -> Children] /\ tjob \in Children
    BY <2>1 DEF Init
  <2>4. QED
    BY <2>1, <2>2, <2>3, ScriptAssumption DEF Init, TypeOK
<1>2. TypeOK /\ [Next]_vars => TypeOK'
  <2> SUFFICES ASSUME TypeOK, [Next]_vars PROVE TypeOK'
    OBVIOUS
  <2> USE WidthAssumption, WModAssumption
      DEF TypeOK, Levels, Labels, Outside, Inside, Nested, Sub, ReapLocals
  <2>1. CASE UnlockTest
    <3>1. /\ pc' \in [Levels -> Labels \union Sub]
          /\ rret' \in [Levels -> {"dec", "waited"}]
      BY <2>1 DEF UnlockTest, Goto, TypeOK, Sub
    <3>2. reap' \in [Levels -> ReapLocals]
      <4>1. CASE reap' = [reap EXCEPT ![lvl].sig = TRUE]
        BY <4>1 DEF TypeOK, Levels, ReapLocals
      <4>2. CASE reap' = reap
        BY <4>2 DEF TypeOK
      <4>3. QED
        BY <2>1, <4>1, <4>2 DEF UnlockTest
    <3>3. QED
      BY <2>1, <3>1, <3>2 DEF UnlockTest, kernel, table, region, trapv
  <2>2. CASE UnlockDec
    BY <2>2, CounterTypes DEF UnlockDec, At, Goto, kernel, table, calls, trapv
  <2>3. CASE ReapStart
    <3>1. lvl \in Levels /\ reap \in [Levels -> ReapLocals]
      BY DEF TypeOK
    <3>2. reap' \in [Levels -> ReapLocals]
      <4>1. reap' = [reap EXCEPT ![lvl].nohang = reap[lvl].sig, ![lvl].nochild = FALSE]
        BY <2>3 DEF ReapStart
      <4>2. reap[lvl] \in ReapLocals
        BY <3>1
      <4>3. [[reap[lvl] EXCEPT !.nohang = reap[lvl].sig] EXCEPT !.nochild = FALSE] \in ReapLocals
        BY <4>2, Zenon DEF ReapLocals
      <4>4. QED
        BY <3>1, <4>1
    <3>3. pc' \in [Levels -> Labels \union Sub]
      BY <2>3 DEF ReapStart, Goto
    <3>4. QED
      BY <2>3, <3>2, <3>3 DEF ReapStart, kernel, table, trapv
  <2>4. CASE ReapChild
    BY <2>4, CollectTypes DEF ReapChild, At, trapv
  <2>5. CASE ReapLast
    <3>1. PICK b \in BOOLEAN : reap' = [reap EXCEPT ![lvl].nochild = b]
      <4>1. CASE Running
        <5>1. reap' = [reap EXCEPT ![lvl].nochild = FALSE]
          BY <2>5, <4>1 DEF ReapLast
        <5>2. QED
          BY <5>1
      <4>2. CASE ~Running
        <5>1. reap' = [reap EXCEPT ![lvl].nochild = TRUE]
          BY <2>5, <4>2 DEF ReapLast
        <5>2. QED
          BY <5>1
      <4>3. QED
        BY <4>1, <4>2
    <3>2. reap' \in [Levels -> ReapLocals]
      <4>1. lvl \in Levels /\ reap \in [Levels -> ReapLocals]
        BY DEF TypeOK
      <4> HIDE DEF TypeOK, Levels, Labels, Outside, Inside, Nested, Sub
      <4>2. QED
        BY <3>1, <4>1
    <3>3. pc' \in [Levels -> Labels \union Sub]
      BY <2>5 DEF ReapLast, Goto
    <3>4. QED
      BY <2>5, <3>2, <3>3 DEF ReapLast, kernel, table, region, trapv
  <2>6. CASE ReapEnd
    BY <2>6 DEF ReapEnd, At, Goto, kernel, table, calls
  <2>7. CASE Prompt
    BY <2>7, CounterTypes
    DEF Prompt, At, Goto, Lock, kernel, table, region, calls, trapv
  <2>8. CASE PromptWalk
    BY <2>8 DEF PromptWalk, At, Unlock, Unpost, kernel, region, trapv, Goto
  <2>9. CASE ReadCommand
    BY <2>9 DEF ReadCommand, At, Goto, kernel, table, region, calls, trapv
  <2>10. CASE NoOp
    BY <2>10 DEF NoOp, At, Goto, kernel, table, region, calls, trapv
  <2>11. CASE ForkLock
    BY <2>11, CounterTypes
    DEF ForkLock, At, Lock, kernel, table, calls, trapv, Goto
  <2>12. CASE ForkChild
    BY <2>12 DEF ForkChild, At, Goto, table, region, trapv
  <2>13. CASE PostLock
    BY <2>13, CounterTypes
    DEF PostLock, At, Lock, kernel, table, calls, trapv, Goto
  <2>14. CASE PostJob
    BY <2>14 DEF PostJob, At, Unlock, kernel, region, trapv, Goto
  <2>15. CASE ForkUnlock
    BY <2>15 DEF ForkUnlock, At, Unlock, kernel, table, region, trapv, Goto
  <2>16. CASE WaitLock
    BY <2>16, CounterTypes DEF WaitLock, At, Lock, kernel, table, trapv, Goto
  <2>17. CASE WaitFound
    BY <2>17 DEF WaitFound, At, Goto, Unpost, kernel, region, calls, trapv
  <2>18. CASE WaitReap
    BY <2>18 DEF WaitReap, At, Goto, kernel, table, trapv
  <2>19. CASE WaitAgain
    BY <2>19 DEF WaitAgain, At, Goto, kernel, table, region, calls, trapv
  <2>20. CASE WaitUnlock
    BY <2>20 DEF WaitUnlock, At, Unlock, kernel, table, region, trapv, Goto
  <2>21. CASE WaitSweep
    BY <2>21, CounterTypes
    DEF WaitSweep, At, Goto, Lock, kernel, table, region, calls, trapv
  <2>22. CASE WaitUnpost
    BY <2>22 DEF WaitUnpost, At, Unlock, Unpost, kernel, region, trapv, Goto
  <2>23. CASE AllocStart
    BY <2>23 DEF AllocStart, At, Goto, kernel, table, region, calls, trapv
  <2>24. CASE AllocEnd
    BY <2>24 DEF AllocEnd, At, Goto, kernel, table, region, calls, trapv
  <2>25. CASE PipeStart
    BY <2>25, CounterTypes
    DEF PipeStart, At, Goto, Lock, kernel, table, region, calls, trapv
  <2>26. CASE PipeUnlock
    BY <2>26 DEF PipeUnlock, At, Unlock, kernel, table, region, trapv, Goto
  <2>27. CASE PipeEnd
    BY <2>27 DEF PipeEnd, At, Goto, kernel, table, region, calls, trapv
  <2>28. CASE UsageLock
    BY <2>28, CounterTypes
    DEF UsageLock, At, Lock, kernel, table, calls, trapv, Goto
  <2>29. CASE ErrorStart
    BY <2>29 DEF ErrorStart, At, Goto, kernel, table, region, calls, trapv
  <2>30. CASE ShExit
    BY <2>30 DEF ShExit, At, Goto, Unlock, kernel, table, region, calls, trapv
  <2>31. CASE Jump
    BY <2>31 DEF Jump, At, Goto, kernel, table, region, calls, trapv
  <2>32. CASE CloseLock
    BY <2>32, CounterTypes
    DEF CloseLock, At, Lock, kernel, table, calls, trapv, Goto
  <2>33. CASE KillLock
    BY <2>33, CounterTypes
    DEF KillLock, At, Lock, kernel, table, calls, trapv, Goto
  <2>34. CASE ReturnLocked
    BY <2>34 DEF ReturnLocked, At, Goto, kernel, table, region, calls, trapv
  <2>35. CASE CheckTrap
    BY <2>35 DEF CheckTrap, At, Goto, kernel, table, region, calls
  <2>36. CASE TrapLock
    BY <2>36, CounterTypes
    DEF TrapLock, At, Lock, kernel, table, calls, trapv, Goto
  <2>37. CASE TrapBody
    BY <2>37 DEF TrapBody, At, kernel, region, calls
  <2>38. CASE TrapBodyEnd
    BY <2>38 DEF TrapBodyEnd, At, Unpost, kernel, table, region, calls, trapv
  <2>39. CASE TrapUnlock
    BY <2>39 DEF TrapUnlock, At, Unlock, kernel, table, region, trapv, Goto
  <2>40. CASE TrapReturn
    BY <2>40 DEF TrapReturn, At, Goto, kernel, table, calls, trapv
  <2>41. CASE Deliver
    BY <2>41 DEF Deliver, table, region, calls, trapv
  <2>42. CASE HandlerDefer
    BY <2>42, CounterTypes DEF HandlerDefer, kernel, table, calls, trapv
  <2>43. CASE HandlerReap
    BY <2>43 DEF HandlerReap, kernel, table, calls, trapv
  <2>44. CASE HandlerChild
    BY <2>44, CollectTypes DEF HandlerChild, calls, trapv
  <2>45. CASE HandlerReturn
    BY <2>45 DEF HandlerReturn, kernel, table, region, calls, trapv
  <2>46. CASE \E c \in Children : ChildExit(c)
    BY <2>46 DEF ChildExit, table, region, calls, trapv
  <2>47. CASE SpawnFail
    BY <2>47 DEF SpawnFail, At, Unlock, kernel, table, region, trapv, Goto
  <2>48. CASE SpawnReset
    BY <2>48 DEF SpawnReset, At, Goto, kernel, table, calls, trapv
  <2>49. CASE UNCHANGED vars
    BY <2>49 DEF vars
  <2>50. QED
    BY <2>1, <2>2, <2>3, <2>4, <2>5, <2>6, <2>7, <2>8, <2>9, <2>10, <2>11,
        <2>12, <2>13, <2>14, <2>15, <2>16, <2>17, <2>18, <2>19, <2>20,
        <2>21, <2>22, <2>23, <2>24, <2>25, <2>26, <2>27, <2>28, <2>29,
        <2>30, <2>31, <2>32, <2>33, <2>34, <2>35, <2>36, <2>37, <2>38,
        <2>39, <2>40, <2>41, <2>42, <2>43, <2>44, <2>45, <2>46, <2>47,
        <2>48, <2>49
    DEF Next, Main, Handler
<1>3. QED
  BY <1>1, <1>2, PTL DEF Spec

(***************************************************************************)
(* The inductive invariant behind Exclusion.  RegionCount is not inductive *)
(* alone: it needs to know where the subroutines return to.                *)
(***************************************************************************)
TrapLabels == {"chldtrap", "scan", "trapret"}
Unbalanced == {"failed", "exit", "closing", "killing"}

\* The body of a CHLD trap takes no CHLD trap; the program it interrupted
\* stands at "scan"; and job_reap has saved a count of one.
TrapScope == /\ pc[1] \notin TrapLabels /\ uret[1] \notin TrapLabels
             /\ lvl = 1 => pc[0] = "scan"
             /\ tret = "home" \/ (tret = "waited" /\ crit = 1)

\* job_unlock never makes job_reap block, so only job_wait's call runs a trap.
SigScope == \A l \in Levels :
  pc[l] \in {"reap", "waitpid", "reapend"} /\ rret[l] = "dec" => reap[l].sig

\* No label of a command that leaves its region open is ever reached.
NoLeak == \A l \in Levels : pc[l] \notin Unbalanced /\ uret[l] \notin Unbalanced

\* The handler goes on reaping in the state it was entered in.
HandlerScope == handler = "reaping" => in_critical = 0 /\ ~vmbusy

IndInv == Exact /\ TrapScope /\ SigScope /\ NoLeak /\ HandlerScope

LEMMA HeldIsNat == ASSUME TypeOK PROVE \A l \in Levels : Held(l) \in 0..3
BY DEF TypeOK, Held, Depth

LEMMA IndInvStep ==
  ASSUME ops \subseteq BalancedOps, TypeOK, TypeOK', IndInv, [Next]_vars
  PROVE  IndInv'
<1> USE WidthAssumption
    DEF TypeOK, IndInv, Exact, TrapScope, SigScope, NoLeak, HandlerScope,
        TrapLabels, Unbalanced, Levels, Held, Depth, Outside, Inside, Nested,
        Sub, ReapLocals, vmbusy
<1>1. CASE UnlockTest
  BY <1>1 DEF UnlockTest, At, Goto, kernel, table, region, trapv
<1>2. CASE UnlockDec
  <2>1. /\ handler = "off" /\ lvl \in Levels /\ pc[lvl] = "dec"
        /\ uret[lvl] \in Labels /\ uret[lvl] \notin Sub
        /\ pc' = [pc EXCEPT ![lvl] = uret[lvl]] /\ pc'[lvl] = uret[lvl]
        /\ UNCHANGED <<lvl, handler, uret, rret, reap, tret, crit>>
    BY <1>2 DEF UnlockDec, At, Goto, calls, trapv, TypeOK, Labels, Outside,
                Inside, Nested, Sub
  <2>2. Exact'
    <3>1. in_critical = lvl + 1 + Depth(uret[lvl])
      <4>1. Held(lvl) = 1 + Depth(uret[lvl])
        BY <2>1 DEF Held
      <4>2. QED
        BY <2>1, <4>1 DEF IndInv, Exact, Levels, Depth
    <3>2. in_critical' = lvl + Depth(uret[lvl])
      BY <1>2, <2>1, <3>1 DEF UnlockDec, Dec, Levels, Depth
    <3>3. Held(lvl)' = Depth(uret[lvl])
      BY <2>1 DEF Held, Sub, Depth
    <3>4. QED
      BY <2>1, <3>2, <3>3 DEF Exact
  <2>3. TrapScope' /\ NoLeak'
    BY <2>1 DEF IndInv, TrapScope, NoLeak, TrapLabels, Levels, TypeOK
  <2>4. SigScope' /\ HandlerScope'
    BY <2>1 DEF IndInv, SigScope, HandlerScope, Levels, Sub, TypeOK
  <2>5. QED
    BY <2>2, <2>3, <2>4 DEF IndInv
<1>3. CASE ReapStart
  BY <1>3 DEF ReapStart, At, Goto, kernel, table, trapv
<1>4. CASE ReapChild
  BY <1>4 DEF ReapChild, At, Collect, trapv
<1>5. CASE ReapLast
  BY <1>5 DEF ReapLast, At, Goto, kernel, table, region, trapv
<1>6. CASE ReapEnd
  BY <1>6 DEF ReapEnd, At, Goto, kernel, table, calls
<1>7. CASE Prompt
  BY <1>7 DEF Prompt, At, Goto, Lock, kernel, table, region, calls, trapv, Inc
<1>8. CASE PromptWalk
  BY <1>8 DEF PromptWalk, At, Unlock, kernel, region, trapv, Goto
<1>9. CASE ReadCommand
  BY <1>9 DEF ReadCommand, At, Goto, kernel, table, region, calls, trapv
<1>10. CASE NoOp
  BY <1>10 DEF NoOp, At, Goto, kernel, table, region, calls, trapv
<1>11. CASE ForkLock
  BY <1>11 DEF ForkLock, At, Lock, kernel, table, calls, trapv, Goto, Inc
<1>12. CASE ForkChild
  BY <1>12 DEF ForkChild, At, Goto, table, region, trapv
<1>13. CASE PostLock
  BY <1>13 DEF PostLock, At, Lock, kernel, table, calls, trapv, Goto, Inc
<1>14. CASE PostJob
  BY <1>14 DEF PostJob, At, Unlock, kernel, region, trapv, Goto
<1>15. CASE ForkUnlock
  BY <1>15 DEF ForkUnlock, At, Unlock, kernel, table, region, trapv, Goto
<1>16. CASE WaitLock
  BY <1>16 DEF WaitLock, At, Lock, kernel, table, trapv, Goto, Inc
<1>17. CASE WaitFound
  BY <1>17 DEF WaitFound, At, Goto, kernel, region, calls, trapv
<1>18. CASE WaitReap
  BY <1>18 DEF WaitReap, At, Goto, kernel, table, trapv
<1>19. CASE WaitAgain
  BY <1>19 DEF WaitAgain, At, Goto, kernel, table, region, calls, trapv
<1>20. CASE WaitUnlock
  BY <1>20 DEF WaitUnlock, At, Unlock, kernel, table, region, trapv, Goto
<1>21. CASE WaitSweep
  BY <1>21
  DEF WaitSweep, At, Goto, Lock, kernel, table, region, calls, trapv, Inc
<1>22. CASE WaitUnpost
  BY <1>22 DEF WaitUnpost, At, Unlock, kernel, region, trapv, Goto
<1>23. CASE AllocStart
  BY <1>23 DEF AllocStart, At, Goto, kernel, table, region, calls, trapv
<1>24. CASE AllocEnd
  BY <1>24 DEF AllocEnd, At, Goto, kernel, table, region, calls, trapv
<1>25. CASE PipeStart
  BY <1>25
  DEF PipeStart, At, Goto, Lock, kernel, table, region, calls, trapv, Inc
<1>26. CASE PipeUnlock
  BY <1>26 DEF PipeUnlock, At, Unlock, kernel, table, region, trapv, Goto
<1>27. CASE PipeEnd
  BY <1>27 DEF PipeEnd, At, Goto, kernel, table, region, calls, trapv
<1>28. CASE UsageLock
  BY <1>28 DEF UsageLock, At, Lock, kernel, table, calls, trapv, Goto, Inc
<1>29. CASE ErrorStart
  BY <1>29
  DEF ErrorStart, At, Goto, kernel, table, region, calls, trapv, BalancedOps
<1>30. CASE ShExit
  BY <1>30 DEF ShExit, At, Goto, Unlock, kernel, table, region, calls, trapv
<1>31. CASE Jump
  BY <1>31 DEF Jump, At, Goto, kernel, table, region, calls, trapv
<1>32. CASE CloseLock
  BY <1>32
  DEF CloseLock, At, Lock, kernel, table, calls, trapv, Goto, Inc,
      BalancedOps
<1>33. CASE KillLock
  BY <1>33
  DEF KillLock, At, Lock, kernel, table, calls, trapv, Goto, Inc, BalancedOps
<1>34. CASE ReturnLocked
  BY <1>34 DEF ReturnLocked, At, Goto, kernel, table, region, calls, trapv
<1>35. CASE CheckTrap
  BY <1>35 DEF CheckTrap, At, Goto, kernel, table, region, calls
<1>36. CASE TrapLock
  BY <1>36 DEF TrapLock, At, Lock, kernel, table, calls, trapv, Goto, Inc
<1>37. CASE TrapBody
  BY <1>37 DEF TrapBody, At, kernel, region, calls
<1>38. CASE TrapBodyEnd
  BY <1>38 DEF TrapBodyEnd, At, kernel, table, region, calls, trapv
<1>39. CASE TrapUnlock
  BY <1>39 DEF TrapUnlock, At, Unlock, kernel, table, region, trapv, Goto
<1>40. CASE TrapReturn
  BY <1>40 DEF TrapReturn, At, Goto, kernel, table, calls, trapv
<1>41. CASE Deliver
  BY <1>41 DEF Deliver, table, region, calls, trapv
<1>42. CASE HandlerDefer
  BY <1>42 DEF HandlerDefer, kernel, table, calls, trapv
<1>43. CASE HandlerReap
  BY <1>43 DEF HandlerReap, kernel, table, calls, trapv
<1>44. CASE HandlerChild
  BY <1>44 DEF HandlerChild, Collect, calls, trapv
<1>45. CASE HandlerReturn
  BY <1>45 DEF HandlerReturn, kernel, table, region, calls, trapv
<1>46. CASE \E c \in Children : ChildExit(c)
  BY <1>46 DEF ChildExit, table, region, calls, trapv
<1>47. CASE SpawnFail
  BY <1>47
  DEF SpawnFail, At, Unlock, kernel, table, region, trapv, Goto, BalancedOps
<1>48. CASE SpawnReset
  BY <1>48 DEF SpawnReset, At, Goto, kernel, table, calls, trapv
<1>49. CASE UNCHANGED vars
  BY <1>49 DEF vars
<1>50. QED
  BY <1>1, <1>2, <1>3, <1>4, <1>5, <1>6, <1>7, <1>8, <1>9, <1>10, <1>11,
      <1>12, <1>13, <1>14, <1>15, <1>16, <1>17, <1>18, <1>19, <1>20, <1>21,
      <1>22, <1>23, <1>24, <1>25, <1>26, <1>27, <1>28, <1>29, <1>30, <1>31,
      <1>32, <1>33, <1>34, <1>35, <1>36, <1>37, <1>38, <1>39, <1>40, <1>41,
      <1>42, <1>43, <1>44, <1>45, <1>46, <1>47, <1>48, <1>49
  DEF Next, Main, Handler

LEMMA OpsFixed == [Next]_vars => UNCHANGED <<ops, trapcom>>
BY DEF Next, Main, Handler, vars, trapv, UnlockTest, UnlockDec, ReapStart,
  ReapChild, ReapLast, ReapEnd, Prompt, PromptWalk, ReadCommand, NoOp, ForkLock,
  ForkChild, SpawnFail, SpawnReset, PostLock, PostJob, ForkUnlock, WaitLock,
  WaitFound, WaitReap, WaitAgain, WaitUnlock, WaitSweep, WaitUnpost, AllocStart,
  AllocEnd, PipeStart, PipeUnlock, PipeEnd, UsageLock, ErrorStart, ShExit, Jump,
  CloseLock, KillLock, ReturnLocked, CheckTrap, TrapLock, TrapBody, TrapBodyEnd,
  TrapUnlock, TrapReturn, Deliver, HandlerDefer, HandlerReap, HandlerChild,
  HandlerReturn, ChildExit

(* In a script whose commands leave every region they enter, the counter is *)
(* exact and the handler never reaps inside a region or the allocator.      *)
THEOREM ExclusionHolds == Spec => [](RegionCount /\ (Balanced => Exclusion))
<1>1. Init => (Balanced => IndInv)
  BY DEF Init, IndInv, Exact, TrapScope, SigScope, NoLeak, HandlerScope,
         TrapLabels, Unbalanced, Levels, Held, Depth, Nested, Inside
<1>2. TypeOK /\ TypeOK' /\ (Balanced => IndInv) /\ [Next]_vars
        => (Balanced => IndInv)'
  BY IndInvStep, OpsFixed DEF Balanced
<1>3. TypeOK /\ (Balanced => IndInv) => RegionCount /\ (Balanced => Exclusion)
  BY HeldIsNat
  DEF TypeOK, Levels, IndInv, RegionCount, Exact, HandlerScope, Exclusion
<1>4. QED
  BY <1>1, <1>2, <1>3, TypeCorrect, PTL DEF Spec

(***************************************************************************)
(* The inductive invariant behind PostedFirst: a child that lives is on    *)
(* the list, or is the one that the shell is about to put there; and what  *)
(* is marked done has been collected, so that only those leave the list.   *)
(***************************************************************************)
Posting == pc[lvl] \in {"post", "posting"}

PostInv ==
  /\ saved = {}
  /\ \A c \in Children : kid[c] \in {"running", "zombie"} =>
       c \in posted \/ (Posting /\ c = target[lvl])
  /\ \A c \in done : kid[c] = "reaped"

(* Nobody reaps between the fork and the end of job_post.                   *)
LEMMA NotWhilePosting ==
  ASSUME TypeOK, Exclusion, handler = "reaping" PROVE ~Posting
<1>1. lvl = 0 /\ pc[0] \in Labels \union Sub /\ Held(0) = 0
  BY DEF TypeOK, Exclusion, Levels
<1>2. pc[0] \notin {"post", "posting"}
  BY <1>1 DEF Held, Depth, Inside, Nested
<1>3. QED
  BY <1>1, <1>2 DEF Posting

(* Who is collected while the shell posts nothing is on the list.           *)
LEMMA CollectKeeps ==
  ASSUME TypeOK, PostInv, ~Posting, NEW c \in Children, Collect(c)
  PROVE  /\ saved' = {} /\ posted' = posted
         /\ \A d \in Children : kid'[d] \in {"running", "zombie"} => d \in posted'
         /\ \A d \in done' : kid'[d] = "reaped"
BY DEF TypeOK, PostInv, Collect

(* What job_unpost takes off the list has been collected.                   *)
LEMMA UnpostKeeps ==
  ASSUME PostInv, ~Posting, NEW S, Unpost(S), kid' = kid
  PROVE  /\ saved' = {}
         /\ \A d \in Children : kid'[d] \in {"running", "zombie"} => d \in posted'
         /\ \A d \in done' : kid'[d] = "reaped"
BY DEF PostInv, Unpost

(* A step of the main program that leaves the children and the table alone  *)
(* and is not a step of job_post.                                           *)
LEMMA QuietKeeps ==
  ASSUME PostInv, ~Posting, UNCHANGED <<kid, posted, done, saved>>
  PROVE  PostInv'
BY DEF PostInv

LEMMA PostedStep ==
  ASSUME TypeOK, Exclusion, PostInv, [Next]_vars
  PROVE  PostInv'
<1>1. CASE UnlockTest \/ UnlockDec \/ ReapStart \/ ReapLast \/ ReapEnd \/
           Prompt \/ ReadCommand \/ NoOp
  <2>1. ~Posting /\ UNCHANGED <<kid, posted, done, saved>>
    BY <1>1 DEF Posting, At, kernel, table, UnlockTest, UnlockDec, ReapStart,
        ReapLast, ReapEnd, Prompt, ReadCommand, NoOp
  <2>2. QED
    BY <2>1, QuietKeeps
<1>2. CASE ForkLock \/ SpawnFail \/ SpawnReset \/ ForkUnlock \/
           WaitLock \/ WaitReap \/ WaitAgain \/ WaitUnlock
  <2>1. ~Posting /\ UNCHANGED <<kid, posted, done, saved>>
    BY <1>2 DEF Posting, At, kernel, table, ForkLock, SpawnFail, SpawnReset,
        ForkUnlock, WaitLock, WaitReap, WaitAgain, WaitUnlock
  <2>2. QED
    BY <2>1, QuietKeeps
<1>3. CASE WaitSweep \/ AllocStart \/ AllocEnd \/ PipeStart \/
           PipeUnlock \/ PipeEnd \/ UsageLock \/ ErrorStart
  <2>1. ~Posting /\ UNCHANGED <<kid, posted, done, saved>>
    BY <1>3 DEF Posting, At, kernel, table, WaitSweep, AllocStart, AllocEnd,
        PipeStart, PipeUnlock, PipeEnd, UsageLock, ErrorStart
  <2>2. QED
    BY <2>1, QuietKeeps
<1>4. CASE ShExit \/ Jump \/ CloseLock \/ KillLock \/ ReturnLocked \/
           CheckTrap \/ TrapLock \/ TrapUnlock \/ TrapReturn
  <2>1. ~Posting /\ UNCHANGED <<kid, posted, done, saved>>
    BY <1>4 DEF Posting, At, kernel, table, ShExit, Jump, CloseLock, KillLock,
        ReturnLocked, CheckTrap, TrapLock, TrapUnlock, TrapReturn
  <2>2. QED
    BY <2>1, QuietKeeps
<1>5. CASE ReapChild
  <2>1. PICK c \in Children : Collect(c)
    BY <1>5 DEF ReapChild
  <2>2. ~Posting
    BY <1>5 DEF ReapChild, At, Posting
  <2>3. QED
    BY <2>1, <2>2, CollectKeeps DEF PostInv
<1>6. CASE HandlerChild
  <2>1. PICK c \in Children : Collect(c)
    BY <1>6 DEF HandlerChild
  <2>2. ~Posting
    BY <1>6, NotWhilePosting DEF HandlerChild
  <2>3. QED
    BY <2>1, <2>2, CollectKeeps DEF PostInv
<1>7. CASE PromptWalk \/ WaitFound \/ WaitUnpost
  <2>1. ~Posting /\ kid' = kid /\ \E S : Unpost(S)
    BY <1>7 DEF PromptWalk, WaitFound, WaitUnpost, At, Posting, kernel
  <2>2. QED
    BY <2>1, UnpostKeeps DEF PostInv
<1>8. CASE TrapBodyEnd
  <2>1. ~Posting /\ kid' = kid
    BY <1>8 DEF TrapBodyEnd, At, Posting, kernel
  <2>2. CASE Unpost({tjob})
    BY <2>1, <2>2, UnpostKeeps DEF PostInv
  <2>3. CASE UNCHANGED table
    BY <2>1, <2>3, QuietKeeps DEF table
  <2>4. QED
    BY <1>8, <2>2, <2>3 DEF TrapBodyEnd
<1>9. CASE TrapBody
  <2>1. ~Posting /\ UNCHANGED <<kid, posted, done, saved>>
    BY <1>9 DEF TrapBody, At, Posting, kernel
  <2>2. QED
    BY <2>1, QuietKeeps
<1>10. CASE ForkChild
  <2>1. PICK c \in Children : /\ kid[c] = "unborn"
                             /\ kid' = [kid EXCEPT ![c] = "running"]
                             /\ target' = [target EXCEPT ![lvl] = c]
    BY <1>10 DEF ForkChild
  <2>2. /\ lvl' = lvl /\ pc'[lvl] = "post" /\ ~Posting /\ lvl \in Levels
        /\ UNCHANGED <<posted, done, saved>>
    BY <1>10 DEF ForkChild, At, Goto, Posting, table, TypeOK
  <2>3. Posting' /\ target'[lvl'] = c
    BY <2>1, <2>2 DEF Posting, TypeOK
  <2>4. QED
    BY <2>1, <2>2, <2>3 DEF PostInv, TypeOK
<1>11. CASE PostLock
  <2>1. Posting' /\ UNCHANGED <<kid, posted, done, saved, target, lvl>>
    BY <1>11 DEF PostLock, Posting, At, Lock, Goto, kernel, table, calls, TypeOK
  <2>2. QED
    BY <2>1 DEF PostInv
<1>12. CASE PostJob
  <2>1. posted' = posted \union {target[lvl]} /\ UNCHANGED <<kid, done, saved>>
    BY <1>12 DEF PostJob, kernel
  <2>2. QED
    BY <2>1 DEF PostInv
<1>13. CASE Deliver \/ HandlerDefer \/ HandlerReap \/ HandlerReturn \/ UNCHANGED vars
  <2>1. UNCHANGED <<kid, posted, done, saved, lvl, pc, target>>
    BY <1>13 DEF Deliver, HandlerDefer, HandlerReap, HandlerReturn, vars, kernel, table, calls
  <2>2. QED
    BY <2>1 DEF PostInv, Posting
<1>14. CASE \E c \in Children : ChildExit(c)
  BY <1>14 DEF ChildExit, table, calls, PostInv, Posting, TypeOK
<1>15. QED
  BY <1>1, <1>2, <1>3, <1>4, <1>5, <1>6, <1>7, <1>8, <1>9, <1>10, <1>11,
     <1>12, <1>13, <1>14
  DEF Next, Main, Handler

(* A child is on the list before it can be collected, whatever the widths,  *)
(* the number of children and the commands that leave what they enter.      *)
THEOREM PostedFirstHolds == Spec => []PostedFirst
<1>1. Init => PostInv
  BY DEF Init, PostInv
<1>2. /\ TypeOK /\ (Balanced => Exclusion) /\ (Balanced => PostInv) /\ [Next]_vars
      => (Balanced => PostInv)'
  BY PostedStep, OpsFixed DEF Balanced
<1>3. (Balanced => PostInv) => PostedFirst
  BY DEF PostInv, PostedFirst
<1>4. QED
  BY <1>1, <1>2, <1>3, TypeCorrect, ExclusionHolds, PTL DEF Spec

(***************************************************************************)
(* The inductive invariant behind NeverUnder, for all commands: without a  *)
(* CHLD trap no label of job_chldtrap is reached, the counter is at least  *)
(* the number of open regions, and the levels leaked leave room for two,   *)
(* also for the level that a return from "closing" or "killing" leaks.     *)
(***************************************************************************)
LeakScope ==
  /\ lvl = 0 /\ ~sigflag /\ pc[0] \notin TrapLabels /\ uret[0] \notin TrapLabels
  /\ in_critical >= Held(0) /\ in_critical <= Held(0) + UMax - 2
  /\ uret[0] \notin {"closing", "killing"}
  /\ pc[0] \in {"closing", "killing"} => in_critical <= UMax - 2

LEMMA LeakScopeStep ==
  ASSUME ~trapcom, TypeOK, TypeOK', LeakScope, [Next]_vars
  PROVE  LeakScope'
<1> USE WidthAssumption
    DEF TypeOK, LeakScope, TrapLabels, Levels, Held, Depth, Outside, Inside, Nested, Sub,
        Labels
<1>1. CASE UnlockTest
  BY <1>1 DEF UnlockTest, At, Goto, kernel, table, region, trapv
<1>2. CASE UnlockDec
  <2>1. /\ lvl = 0 /\ pc[0] = "dec" /\ uret[0] \in Labels /\ uret[0] \notin Sub
        /\ pc' = [pc EXCEPT ![0] = uret[0]] /\ UNCHANGED <<lvl, sigflag, uret, rret>>
    BY <1>2 DEF UnlockDec, At, Goto, calls, Labels
  <2>2. Held(0) = 1 + Depth(uret[0]) /\ Held(0)' = Depth(uret[0])
    BY <2>1
  <2>3. in_critical \in Nat /\ UMax \in Nat /\ Depth(uret[0]) \in Nat
    OBVIOUS
  <2>4. in_critical >= Held(0) /\ in_critical <= Held(0) + UMax - 2
    OBVIOUS
  <2> HIDE DEF Held, Depth, TypeOK, LeakScope, Labels, Sub, Outside, Inside
  <2>5. in_critical' = in_critical - 1
    BY <1>2, <2>2, <2>3, <2>4 DEF UnlockDec, Dec
  <2>6. in_critical' >= Held(0)' /\ in_critical' <= Held(0)' + UMax - 2
    BY <2>2, <2>3, <2>4, <2>5
  <2>7. QED
    BY <2>1, <2>6 DEF LeakScope, TypeOK, Levels
<1>3. CASE ReapStart
  BY <1>3 DEF ReapStart, At, Goto, kernel, table, trapv
<1>4. CASE ReapChild
  BY <1>4 DEF ReapChild, At, Collect, trapv
<1>5. CASE ReapLast
  BY <1>5 DEF ReapLast, At, Goto, kernel, table, region, trapv
<1>6. CASE ReapEnd
  BY <1>6 DEF ReapEnd, At, Goto, kernel, table, calls
<1>7. CASE Prompt
  BY <1>7 DEF Prompt, At, Goto, Lock, kernel, table, region, calls, trapv, Inc
<1>8. CASE PromptWalk
  BY <1>8 DEF PromptWalk, At, Unlock, kernel, region, trapv, Goto
<1>9. CASE ReadCommand
  BY <1>9 DEF ReadCommand, At, Goto, kernel, table, region, calls, trapv
<1>10. CASE NoOp
  BY <1>10 DEF NoOp, At, Goto, kernel, table, region, calls, trapv
<1>11. CASE ForkLock
  BY <1>11 DEF ForkLock, At, Lock, kernel, table, calls, trapv, Goto, Inc
<1>12. CASE ForkChild
  BY <1>12 DEF ForkChild, At, Goto, table, region, trapv
<1>13. CASE PostLock
  BY <1>13 DEF PostLock, At, Lock, kernel, table, calls, trapv, Goto, Inc
<1>14. CASE PostJob
  BY <1>14 DEF PostJob, At, Unlock, kernel, region, trapv, Goto
<1>15. CASE ForkUnlock
  BY <1>15 DEF ForkUnlock, At, Unlock, kernel, table, region, trapv, Goto
<1>16. CASE WaitLock
  BY <1>16 DEF WaitLock, At, Lock, kernel, table, trapv, Goto, Inc
<1>17. CASE WaitFound
  BY <1>17 DEF WaitFound, At, Goto, kernel, region, calls, trapv
<1>18. CASE WaitReap
  BY <1>18 DEF WaitReap, At, Goto, kernel, table, trapv
<1>19. CASE WaitAgain
  BY <1>19 DEF WaitAgain, At, Goto, kernel, table, region, calls, trapv
<1>20. CASE WaitUnlock
  BY <1>20 DEF WaitUnlock, At, Unlock, kernel, table, region, trapv, Goto
<1>21. CASE WaitSweep
  BY <1>21
  DEF WaitSweep, At, Goto, Lock, kernel, table, region, calls, trapv, Inc
<1>22. CASE WaitUnpost
  BY <1>22 DEF WaitUnpost, At, Unlock, kernel, region, trapv, Goto
<1>23. CASE AllocStart
  BY <1>23 DEF AllocStart, At, Goto, kernel, table, region, calls, trapv
<1>24. CASE AllocEnd
  BY <1>24 DEF AllocEnd, At, Goto, kernel, table, region, calls, trapv
<1>25. CASE PipeStart
  BY <1>25
  DEF PipeStart, At, Goto, Lock, kernel, table, region, calls, trapv, Inc
<1>26. CASE PipeUnlock
  BY <1>26 DEF PipeUnlock, At, Unlock, kernel, table, region, trapv, Goto
<1>27. CASE PipeEnd
  BY <1>27 DEF PipeEnd, At, Goto, kernel, table, region, calls, trapv
<1>28. CASE UsageLock
  BY <1>28 DEF UsageLock, At, Lock, kernel, table, calls, trapv, Goto, Inc
<1>29. CASE ErrorStart
  BY <1>29
  DEF ErrorStart, At, Goto, kernel, table, region, calls, trapv
<1>30. CASE ShExit
  BY <1>30 DEF ShExit, At, Goto, Unlock, kernel, table, region, calls, trapv
<1>31. CASE Jump
  BY <1>31 DEF Jump, At, Goto, kernel, table, region, calls, trapv
<1>32. CASE CloseLock
  BY <1>32
  DEF CloseLock, Room, At, Lock, kernel, table, calls, trapv, Goto, Inc
<1>33. CASE KillLock
  BY <1>33
  DEF KillLock, Room, At, Lock, kernel, table, calls, trapv, Goto, Inc
<1>34. CASE ReturnLocked
  BY <1>34 DEF ReturnLocked, At, Goto, kernel, table, region, calls, trapv
<1>35. CASE CheckTrap
  BY <1>35 DEF CheckTrap, At, Goto, kernel, table, region, calls
<1>36. CASE TrapLock
  BY <1>36 DEF TrapLock, At, Lock, kernel, table, calls, trapv, Goto, Inc
<1>37. CASE TrapBody
  BY <1>37 DEF TrapBody, At, kernel, region, calls
<1>38. CASE TrapBodyEnd
  BY <1>38 DEF TrapBodyEnd, At, kernel, table, region, calls, trapv
<1>39. CASE TrapUnlock
  BY <1>39 DEF TrapUnlock, At, Unlock, kernel, table, region, trapv, Goto
<1>40. CASE TrapReturn
  BY <1>40 DEF TrapReturn, At, Goto, kernel, table, calls, trapv
<1>41. CASE Deliver
  BY <1>41 DEF Deliver, table, region, calls, trapv
<1>42. CASE HandlerDefer
  BY <1>42 DEF HandlerDefer, kernel, table, calls, trapv
<1>43. CASE HandlerReap
  BY <1>43 DEF HandlerReap, kernel, table, calls, trapv
<1>44. CASE HandlerChild
  BY <1>44 DEF HandlerChild, Collect, calls, trapv
<1>45. CASE HandlerReturn
  BY <1>45 DEF HandlerReturn, kernel, table, region, calls, trapv
<1>46. CASE \E c \in Children : ChildExit(c)
  BY <1>46 DEF ChildExit, table, region, calls, trapv
<1>47. CASE SpawnFail
  BY <1>47
  DEF SpawnFail, At, Unlock, kernel, table, region, trapv, Goto
<1>48. CASE SpawnReset
  BY <1>48 DEF SpawnReset, At, Goto, kernel, table, calls, trapv
<1>49. CASE UNCHANGED vars
  BY <1>49 DEF vars
<1>50. QED
  BY <1>1, <1>2, <1>3, <1>4, <1>5, <1>6, <1>7, <1>8, <1>9, <1>10, <1>11,
      <1>12, <1>13, <1>14, <1>15, <1>16, <1>17, <1>18, <1>19, <1>20, <1>21,
      <1>22, <1>23, <1>24, <1>25, <1>26, <1>27, <1>28, <1>29, <1>30, <1>31,
      <1>32, <1>33, <1>34, <1>35, <1>36, <1>37, <1>38, <1>39, <1>40, <1>41,
      <1>42, <1>43, <1>44, <1>45, <1>46, <1>47, <1>48, <1>49
  DEF Next, Main, Handler

(* Without a CHLD trap an error, a failed spawn, a refused exit or a failed *)
(* kill may leave the counter too high, and never too low, so that the      *)
(* handler still keeps out of the regions there are.                        *)
THEOREM NeverUnderHolds == Spec => []NeverUnder
<1>1. Init => (~trapcom => LeakScope)
  BY WidthAssumption
  DEF Init, LeakScope, TrapLabels, Held, Depth, Levels, Nested, Inside
<1>2. TypeOK /\ TypeOK' /\ (~trapcom => LeakScope) /\ [Next]_vars
      => (~trapcom => LeakScope)'
  BY LeakScopeStep, OpsFixed
<1>3. TypeOK /\ (~trapcom => LeakScope) => NeverUnder
  BY HeldIsNat DEF LeakScope, NeverUnder, TypeOK, Levels
<1>4. QED
  BY <1>1, <1>2, <1>3, TypeCorrect, PTL DEF Spec

(***************************************************************************)
(* Exclusion for every script that keeps the region or sets no CHLD trap.  *)
(***************************************************************************)
(* Where the handler reaps, the main program stands still: the guard under *)
(* which it began to reap goes on holding.                                 *)
LEMMA HandlerScopeStep ==
  ASSUME HandlerScope, [Next]_vars
  PROVE  HandlerScope'
<1>1. CASE Main
  <2>1. handler = "off"
    BY <1>1 DEF At, UnlockTest, UnlockDec, ReapStart, ReapLast, ReapEnd, Prompt,
        PromptWalk, ReadCommand, NoOp, ForkLock, ForkChild, SpawnFail,
        SpawnReset, PostLock, PostJob, ForkUnlock, WaitLock, WaitFound,
        WaitReap, WaitAgain, WaitUnlock, WaitSweep, WaitUnpost,
        AllocStart, AllocEnd, PipeStart, PipeUnlock, PipeEnd, UsageLock,
        ErrorStart, ShExit, Jump, CloseLock, KillLock, ReturnLocked,
        CheckTrap, TrapLock, TrapBody, TrapBodyEnd, TrapUnlock, TrapReturn, ReapChild, Main
  <2>2. handler' = handler
    BY <1>1 DEF UnlockTest, UnlockDec, ReapStart, ReapLast, ReapEnd, Prompt,
        PromptWalk, ReadCommand, NoOp, ForkLock, ForkChild, SpawnFail,
        SpawnReset, PostLock, PostJob, ForkUnlock, WaitLock, WaitFound,
        WaitReap, WaitAgain, WaitUnlock, WaitSweep, WaitUnpost,
        AllocStart, AllocEnd, PipeStart, PipeUnlock, PipeEnd, UsageLock,
        ErrorStart, ShExit, Jump, CloseLock, KillLock, ReturnLocked,
        CheckTrap, TrapLock, TrapBody, TrapBodyEnd, TrapUnlock, TrapReturn, ReapChild, Main
  <2>3. QED
    BY <2>1, <2>2 DEF HandlerScope
<1>2. CASE Deliver \/ HandlerDefer \/ HandlerReap \/ HandlerReturn
  BY <1>2 DEF Deliver, HandlerDefer, HandlerReap, HandlerReturn, HandlerScope, vmbusy
<1>3. CASE HandlerChild
  BY <1>3 DEF HandlerChild, Collect, HandlerScope, vmbusy
<1>4. CASE (\E c \in Children : ChildExit(c)) \/ UNCHANGED vars
  BY <1>4 DEF ChildExit, vars, region, HandlerScope, vmbusy
<1>5. QED
  BY <1>1, <1>2, <1>3, <1>4 DEF Next, Handler

(* Without a trap the counter is at least the number of open regions, so a  *)
(* handler that found it 0 excludes them all.                               *)
LEMMA QuietExcludes ==
  ASSUME TypeOK, HandlerScope, NeverUnder, ~trapcom
  PROVE  Exclusion
<1> SUFFICES ASSUME handler = "reaping"
             PROVE  lvl = 0 /\ Held(0) = 0 /\ ~vmbusy
  BY DEF Exclusion
<1> DEFINE h == Held(lvl)
<1>1. lvl \in {0, 1} /\ h \in 0..3
  BY HeldIsNat DEF TypeOK, Levels
<1>2. 0 >= lvl + h /\ ~vmbusy
  BY DEF HandlerScope, NeverUnder
<1> HIDE DEF h
<1>3. lvl = 0 /\ h = 0
  BY <1>1, <1>2
<1>4. QED
  BY <1>2, <1>3 DEF h

(* What a script may do and be sound: leave the regions it enters, or set   *)
(* no CHLD trap.                                                            *)
SoundScript(s) == s.ops \subseteq BalancedOps \/ ~s.trap

(* If every script leaves the regions it enters or sets no CHLD trap, then  *)
(* whenever job_waitsafe reaps, the main program is outside every region    *)
(* and outside the allocator: also after errors, failed spawns, refused     *)
(* exits and failed kills, which leave the counter too high.                *)
THEOREM ExclusionAnywhere ==
  ASSUME \A s \in Scripts : SoundScript(s)
  PROVE  Spec => []Exclusion
<1>1. Init => HandlerScope /\ (Balanced \/ ~trapcom)
  BY DEF Init, HandlerScope, Balanced, SoundScript
<1>2. HandlerScope /\ (Balanced \/ ~trapcom) /\ [Next]_vars
      => (HandlerScope /\ (Balanced \/ ~trapcom))'
  BY HandlerScopeStep, OpsFixed DEF Balanced
<1>3. TypeOK /\ HandlerScope /\ NeverUnder /\ ~trapcom => Exclusion
  BY QuietExcludes
<1>4. QED
  BY <1>1, <1>2, <1>3, TypeCorrect, ExclusionHolds, NeverUnderHolds, PTL DEF Spec

(***************************************************************************)
(* Behind WaitGetsStatus: the count of events.  A child that lives or will *)
(* is good for two bumps of waitsafe, for its SIGCHLD and for its          *)
(* collection; so with fewer than WMod of them waitsafe never wraps to 0.  *)
(***************************************************************************)
Fresh == {c \in Children : kid[c] \in {"unborn", "running"}}
Dead  == {c \in Children : kid[c] = "zombie"}
Owed  == (IF pending THEN 1 ELSE 0) + (IF handler = "entered" THEN 1 ELSE 0)

Budget == waitsafe + 2 * Cardinality(Fresh) + Cardinality(Dead) + Owed
            <= 2 * Cardinality(Children)

LEMMA Counts ==
  ASSUME IsFiniteSet(Children)
  PROVE  /\ IsFiniteSet(Fresh) /\ IsFiniteSet(Dead)
         /\ Cardinality(Fresh) \in Nat /\ Cardinality(Dead) \in Nat
         /\ Cardinality(Children) \in Nat
<1>1. IsFiniteSet(Fresh) /\ IsFiniteSet(Dead)
  BY FS_Subset DEF Fresh, Dead
<1>2. QED
  BY <1>1, FS_CardinalityType

LEMMA CountsNext ==
  ASSUME IsFiniteSet(Children)
  PROVE  /\ IsFiniteSet(Fresh') /\ IsFiniteSet(Dead')
         /\ Cardinality(Fresh') \in Nat /\ Cardinality(Dead') \in Nat
<1>1. IsFiniteSet(Fresh') /\ IsFiniteSet(Dead')
  BY FS_Subset DEF Fresh, Dead
<1>2. QED
  BY <1>1, FS_CardinalityType

(* One more event, when there is room for it, makes waitsafe one more.      *)
LEMMA BumpCounts ==
  ASSUME NEW w \in 0..WMod-1
  PROVE  /\ Bump(w) \in Nat /\ Bump(w) <= w + 1
         /\ w + 1 < WMod => Bump(w) = w + 1
BY WModAssumption DEF Bump

(* A collection takes one child from the dead.                              *)
LEMMA CollectCounts ==
  ASSUME IsFiniteSet(Children), TypeOK, NEW c \in Children, Collect(c)
  PROVE  /\ Fresh' = Fresh
         /\ Cardinality(Dead) = Cardinality(Dead') + 1
<1>1. kid[c] = "zombie" /\ kid' = [kid EXCEPT ![c] = "reaped"] /\ kid \in [Children -> {"unborn", "running", "zombie", "reaped"}]
  BY DEF Collect, TypeOK
<1>2. Fresh' = Fresh
  BY <1>1 DEF Fresh
<1>3. Dead' = Dead \ {c} /\ c \in Dead
  BY <1>1 DEF Dead
<1>4. Cardinality(Dead') = Cardinality(Dead) - 1
  BY <1>3, Counts, FS_RemoveElement
<1>5. QED
  BY <1>2, <1>4, Counts

(* The exit of a child takes it from the living to the dead.                *)
LEMMA ExitCounts ==
  ASSUME IsFiniteSet(Children), TypeOK, NEW c \in Children, ChildExit(c)
  PROVE  /\ Cardinality(Fresh) = Cardinality(Fresh') + 1
         /\ Cardinality(Dead') = Cardinality(Dead) + 1
<1>1. kid[c] = "running" /\ kid' = [kid EXCEPT ![c] = "zombie"] /\ kid \in [Children -> {"unborn", "running", "zombie", "reaped"}]
  BY DEF ChildExit, TypeOK
<1>2. Dead' = Dead \union {c} /\ c \notin Dead
  BY <1>1 DEF Dead
<1>3. Fresh' = Fresh \ {c} /\ c \in Fresh
  BY <1>1 DEF Fresh
<1>4. Cardinality(Fresh') = Cardinality(Fresh) - 1
  BY <1>3, Counts, FS_RemoveElement
<1>5. Cardinality(Dead') = Cardinality(Dead) + 1
  BY <1>2, Counts, FS_AddElement
<1>6. QED
  BY <1>4, <1>5, Counts

LEMMA BudgetStep ==
  ASSUME IsFiniteSet(Children), TypeOK, TypeOK', Budget, [Next]_vars
  PROVE  Budget'
<1> DEFINE f == Cardinality(Fresh)
           g == Cardinality(Fresh')
           d == Cardinality(Dead)
           e == Cardinality(Dead')
           m == Cardinality(Children)
           o == Owed
           p == Owed'
           w == waitsafe
           v == waitsafe'
<1>1. /\ f \in Nat /\ g \in Nat /\ d \in Nat /\ e \in Nat /\ m \in Nat
      /\ o \in Nat /\ p \in Nat /\ w \in Nat /\ v \in Nat
      /\ w + 2 * f + d + o <= 2 * m
  BY Counts, CountsNext, WModAssumption DEF TypeOK, Budget, Owed
<1>2. SUFFICES v + 2 * g + e + p <= 2 * m
  BY DEF Budget
<1>3. CASE UNCHANGED <<kid, pending, handler>> /\ (v = w \/ v = 0)
  <2>1. g = f /\ e = d /\ p = o
    BY <1>3 DEF Fresh, Dead, Owed
  <2> HIDE DEF f, g, d, e, m, o, p, w, v
  <2>2. QED
    BY <1>1, <1>3, <2>1
<1>4. ASSUME NEW c \in Children, Collect(c), handler # "entered", handler' = handler
      PROVE  v + 2 * g + e + p <= 2 * m
  <2>1. g = f /\ d = e + 1
    BY <1>4, CollectCounts
  <2>2. p = o
    BY <1>4 DEF Collect, Owed
  <2>3. v <= w + 1
    BY <1>4, BumpCounts DEF Collect, TypeOK
  <2> HIDE DEF f, g, d, e, m, o, p, w, v
  <2>4. QED
    BY <1>1, <2>1, <2>2, <2>3
<1>5. CASE ReapChild
  BY <1>4, <1>5 DEF ReapChild, At
<1>6. CASE HandlerChild
  BY <1>4, <1>6 DEF HandlerChild
<1>7. ASSUME NEW c \in Children, ChildExit(c)
      PROVE  v + 2 * g + e + p <= 2 * m
  <2>1. f = g + 1 /\ e = d + 1
    BY <1>7, ExitCounts
  <2>2. p <= o + 1 /\ v = w
    BY <1>7 DEF ChildExit, Owed, region, TypeOK
  <2> HIDE DEF f, g, d, e, m, o, p, w, v
  <2>3. QED
    BY <1>1, <2>1, <2>2
<1>8. CASE Deliver
  <2>1. g = f /\ e = d /\ p = o /\ v = w
    BY <1>8 DEF Deliver, Owed, region, Fresh, Dead
  <2> HIDE DEF f, g, d, e, m, o, p, w, v
  <2>2. QED
    BY <1>1, <2>1
<1>9. CASE HandlerDefer
  <2>1. g = f /\ e = d /\ o = p + 1
    BY <1>9 DEF HandlerDefer, Owed, kernel, Fresh, Dead, TypeOK
  <2>2. v <= w + 1
    BY <1>9, BumpCounts DEF HandlerDefer, TypeOK
  <2> HIDE DEF f, g, d, e, m, o, p, w, v
  <2>3. QED
    BY <1>1, <2>1, <2>2
<1>10. CASE HandlerReap \/ HandlerReturn
  <2>1. g = f /\ e = d /\ v = w
    BY <1>10 DEF HandlerReap, HandlerReturn, kernel, region, Fresh, Dead
  <2>2. p <= o
    BY <1>10 DEF HandlerReap, HandlerReturn, kernel, Owed
  <2> HIDE DEF f, g, d, e, m, o, p, w, v
  <2>3. QED
    BY <1>1, <2>1, <2>2
<1>11. CASE ForkChild
  <2>1. g = f /\ e = d
    BY <1>11 DEF ForkChild, Fresh, Dead, TypeOK
  <2>2. p = o /\ v = w
    BY <1>11 DEF ForkChild, Owed, region
  <2> HIDE DEF f, g, d, e, m, o, p, w, v
  <2>3. QED
    BY <1>1, <2>1, <2>2
<1>12. CASE UNCHANGED vars
  BY <1>3, <1>12 DEF vars
<1>13. CASE Main
  <2>1. CASE ReapChild \/ ForkChild
    BY <2>1, <1>5, <1>11
  <2>2. CASE ~(ReapChild \/ ForkChild)
    <3>1. UNCHANGED <<kid, pending, handler>> /\ (v = w \/ v = 0)
      BY <1>13, <2>2 DEF Main, kernel, region, Lock,
        UnlockTest, UnlockDec, ReapStart, ReapLast, ReapEnd, Prompt,
        PromptWalk, ReadCommand, NoOp, ForkLock, SpawnFail,
        SpawnReset, PostLock, PostJob, ForkUnlock, WaitLock,
        WaitFound, WaitReap, WaitAgain, WaitUnlock, WaitSweep,
        WaitUnpost, AllocStart, AllocEnd, PipeStart, PipeUnlock,
        PipeEnd, UsageLock, ErrorStart, ShExit, Jump, CloseLock,
        KillLock, ReturnLocked, CheckTrap, TrapLock, TrapBody,
        TrapBodyEnd, TrapUnlock, TrapReturn
    <3>2. QED
      BY <1>3, <3>1
  <2>3. QED
    BY <2>1, <2>2
<1>14. QED
  BY <1>6, <1>7, <1>8, <1>9, <1>10, <1>12, <1>13 DEF Next, Handler

(* With room for every event, an event leaves waitsafe other than 0.        *)
LEMMA NoWrap ==
  ASSUME IsFiniteSet(Children), 2 * Cardinality(Children) < WMod, TypeOK, Budget
  PROVE  /\ \A c \in Children : Collect(c) => waitsafe' # 0
         /\ HandlerDefer => waitsafe' # 0
<1> DEFINE f == Cardinality(Fresh)
           d == Cardinality(Dead)
           m == Cardinality(Children)
           o == Owed
<1>1. /\ f \in Nat /\ d \in Nat /\ m \in Nat /\ o \in 0..2 /\ WMod \in Nat
      /\ waitsafe \in Nat /\ waitsafe + 2 * f + d + o <= 2 * m /\ 2 * m < WMod
  BY Counts, WModAssumption DEF TypeOK, Budget, Owed
<1>2. ASSUME NEW c \in Children, Collect(c) PROVE waitsafe' # 0
  <2>1. d = Cardinality(Dead') + 1 /\ Cardinality(Dead') \in Nat
    BY <1>2, CollectCounts, CountsNext
  <2>2. d >= 1
    <3> HIDE DEF d
    <3>1. QED
      BY <2>1
  <2>3. waitsafe + 1 < WMod
    <3> HIDE DEF f, d, m, o
    <3>1. QED
      BY <1>1, <2>2
  <2>4. waitsafe' = waitsafe + 1
    BY <1>2, <2>3, BumpCounts DEF Collect, TypeOK
  <2>5. QED
    BY <1>1, <2>4
<1>3. ASSUME HandlerDefer PROVE waitsafe' # 0
  <2>1. o >= 1
    BY <1>3 DEF HandlerDefer, Owed
  <2>2. waitsafe + 1 < WMod
    <3> HIDE DEF f, d, m, o
    <3>1. QED
      BY <1>1, <2>1
  <2>3. waitsafe' = waitsafe + 1
    BY <1>3, <2>2, BumpCounts DEF HandlerDefer, TypeOK
  <2>4. QED
    BY <1>1, <2>3
<1>4. QED
  BY <1>2, <1>3

(***************************************************************************)
(* The inductive invariant behind WaitGetsStatus: between "waitsafe = 0"   *)
(* and the test at the end of job_wait's loop, a process that has been     *)
(* collected has left its mark in waitsafe.                                *)
(***************************************************************************)
InWait == pc[0] = "waited" \/ (pc[0] \in {"reap", "waitpid", "reapend"} /\ rret[0] = "waited")

WaitInv ==
  /\ pc[1] = "home" /\ uret[0] \notin {"waited", "nostatus"}
  /\ (InWait /\ target[0] \in done) => waitsafe # 0
  /\ pc[0] = "nostatus" => target[0] \notin done

(* In job_wait's region the handler collects nobody.                        *)
LEMMA NoCollectInWait ==
  ASSUME TypeOK, Exclusion, handler = "reaping"
  PROVE  ~InWait /\ pc[0] # "nostatus"
<1>1. lvl = 0 /\ pc[0] \in Labels \union Sub /\ rret[0] \in {"dec", "waited"} /\ Held(0) = 0
  BY DEF TypeOK, Exclusion, Levels
<1>2. pc[0] \notin {"waited", "nostatus"}
  BY <1>1 DEF Held, Depth, Inside, Nested
<1>3. pc[0] \in {"reap", "waitpid", "reapend"} => rret[0] # "waited"
  BY <1>1 DEF Held, Depth, Inside, Nested
<1>4. QED
  BY <1>2, <1>3 DEF InWait

(* A step outside the wait that arrives neither in job_reap for job_wait    *)
(* nor at "nostatus".                                                       *)
LEMMA ElsewhereKeeps ==
  ASSUME pc'[1] = "home", uret'[0] \notin {"waited", "nostatus"}, ~InWait', pc'[0] # "nostatus"
  PROVE  WaitInv'
BY DEF WaitInv

(* A step within the wait that leaves the collected and the count alone.    *)
LEMMA WithinKeeps ==
  ASSUME WaitInv, pc'[1] = "home", uret'[0] = uret[0], InWait, target'[0] = target[0],
         UNCHANGED <<done, waitsafe>>, pc'[0] # "nostatus"
  PROVE  WaitInv'
BY DEF WaitInv

LEMMA WaitInvStep ==
  ASSUME IsFiniteSet(Children), 2 * Cardinality(Children) < WMod,
         TypeOK, Budget, LeakScope, Exclusion, WaitInv, [Next]_vars
  PROVE  WaitInv'
<1>1. /\ lvl = 0 /\ pc[1] = "home" /\ uret[0] \notin {"waited", "nostatus"} /\ ~sigflag
      /\ pc \in [{0, 1} -> Labels \union Sub] /\ uret \in [{0, 1} -> Labels]
      /\ rret \in [{0, 1} -> {"dec", "waited"}] /\ target \in [{0, 1} -> Children]
      /\ uret[0] \notin Sub /\ pc[0] \notin TrapLabels
  BY DEF TypeOK, LeakScope, WaitInv, Levels, Labels, Outside, Inside, Nested, Sub
<1>2. 0 \in {0, 1} /\ 1 \in {0, 1} /\ 0 # 1
  OBVIOUS
<1> USE <1>1, <1>2
<1>3. CASE UnlockTest
  BY <1>3, ElsewhereKeeps DEF UnlockTest, At, Goto, InWait
<1>4. CASE UnlockDec
  BY <1>4, ElsewhereKeeps DEF UnlockDec, At, Goto, InWait, Sub, calls
<1>5. CASE ReapStart \/ ReapLast
  <2>1. CASE InWait
    BY <1>5, <2>1, WithinKeeps DEF ReapStart, ReapLast, At, Goto, calls, table, region
  <2>2. CASE ~InWait
    BY <1>5, <2>2, ElsewhereKeeps DEF ReapStart, ReapLast, At, Goto, InWait, calls, table, region
  <2>3. QED
    BY <2>1, <2>2
<1>6. CASE ReapChild
  <2>1. waitsafe' # 0 /\ UNCHANGED <<pc, uret, rret, target>> /\ pc[0] = "waitpid"
    BY <1>6, NoWrap DEF ReapChild, At
  <2>2. QED
    BY <2>1 DEF WaitInv, InWait
<1>7. CASE ReapEnd
  <2>1. pc' = [pc EXCEPT ![0] = rret[0]] /\ UNCHANGED <<done, waitsafe, uret, rret, target>> /\ pc[0] = "reapend"
    BY <1>7 DEF ReapEnd, At, Goto, calls, table
  <2>2. QED
    BY <2>1, ElsewhereKeeps, WithinKeeps DEF InWait
<1>8. CASE Prompt \/ PromptWalk \/ ReadCommand \/ NoOp \/ ForkLock \/ ForkChild \/ SpawnFail
           \/ SpawnReset \/ PostLock \/ PostJob \/ ForkUnlock
  <2>1. pc'[1] = "home" /\ uret'[0] \notin {"waited", "nostatus"} /\ ~InWait' /\ pc'[0] # "nostatus"
    BY <1>8 DEF Prompt, PromptWalk, ReadCommand, NoOp, ForkLock, ForkChild, SpawnFail, SpawnReset,
      PostLock, PostJob, ForkUnlock, At, Goto, Lock, Unlock, InWait, calls
  <2>2. QED
    BY <2>1, ElsewhereKeeps
<1>9. CASE WaitLock \/ WaitFound \/ WaitUnlock \/ WaitSweep \/ WaitUnpost
  <2>1. pc'[1] = "home" /\ uret'[0] \notin {"waited", "nostatus"} /\ ~InWait' /\ pc'[0] # "nostatus"
    BY <1>9 DEF WaitLock, WaitFound, WaitUnlock, WaitSweep, WaitUnpost, At, Goto, Lock, Unlock,
      InWait, calls
  <2>2. QED
    BY <2>1, ElsewhereKeeps
<1>10. CASE WaitReap
  <2>1. target[0] \notin done /\ pc' = [pc EXCEPT ![0] = "reap"] /\ UNCHANGED <<done, target, uret>>
    BY <1>10 DEF WaitReap, At, Goto, table
  <2>2. QED
    BY <2>1 DEF WaitInv
<1>11. CASE WaitAgain
  <2>1. pc[0] = "waited" /\ UNCHANGED <<done, target, uret, waitsafe>> /\ pc'[1] = "home"
    BY <1>11 DEF WaitAgain, At, Goto, calls, table, region
  <2>2. pc'[0] = "waiting" \/ (pc'[0] = "nostatus" /\ waitsafe = 0)
    BY <1>11 DEF WaitAgain, At, Goto
  <2>3. pc'[0] = "nostatus" => target[0] \notin done
    BY <2>1, <2>2 DEF WaitInv, InWait
  <2>4. ~InWait'
    BY <2>2 DEF InWait
  <2>5. QED
    BY <2>1, <2>3, <2>4 DEF WaitInv
<1>12. CASE AllocStart \/ AllocEnd \/ PipeStart \/ PipeUnlock \/ PipeEnd \/ UsageLock \/ ErrorStart
            \/ ShExit \/ Jump \/ CloseLock \/ KillLock \/ ReturnLocked
  <2>1. pc'[1] = "home" /\ uret'[0] \notin {"waited", "nostatus"} /\ ~InWait' /\ pc'[0] # "nostatus"
    BY <1>12 DEF AllocStart, AllocEnd, PipeStart, PipeUnlock, PipeEnd, UsageLock, ErrorStart, ShExit,
      Jump, CloseLock, KillLock, ReturnLocked, At, Goto, Lock, Unlock, InWait, calls
  <2>2. QED
    BY <2>1, ElsewhereKeeps
<1>13. CASE CheckTrap \/ TrapLock \/ TrapBody \/ TrapBodyEnd \/ TrapUnlock \/ TrapReturn
  BY <1>13 DEF CheckTrap, TrapLock, TrapBody, TrapBodyEnd, TrapUnlock, TrapReturn, At, TrapLabels
<1>14. CASE Deliver \/ HandlerReap \/ HandlerReturn \/ UNCHANGED vars
       \/ \E c \in Children : ChildExit(c)
  <2>1. UNCHANGED <<pc, uret, rret, target, done, waitsafe>>
    BY <1>14 DEF Deliver, HandlerReap, HandlerReturn, ChildExit, vars, calls, table, region
  <2>2. QED
    BY <2>1 DEF WaitInv, InWait
<1>15. CASE HandlerDefer
  <2>1. waitsafe' # 0 /\ UNCHANGED <<pc, uret, rret, target, done>>
    BY <1>15, NoWrap DEF HandlerDefer, calls, table
  <2>2. QED
    BY <2>1 DEF WaitInv, InWait
<1>16. CASE HandlerChild
  <2>1. UNCHANGED <<pc, uret, rret>> /\ ~InWait /\ pc[0] # "nostatus"
    BY <1>16, NoCollectInWait DEF HandlerChild, calls
  <2>2. QED
    BY <2>1, ElsewhereKeeps DEF InWait
<1>17. QED
  BY <1>3, <1>4, <1>5, <1>6, <1>7, <1>8, <1>9, <1>10, <1>11, <1>12, <1>13, <1>14, <1>15, <1>16
  DEF Next, Main, Handler

(* With no CHLD trap set, however signals fall and whatever regions other   *)
(* commands have leaked, job_wait gives up on its process only when that    *)
(* process has not been collected, as long as two bumps for each child fit  *)
(* waitsafe.                                                                *)
THEOREM WaitGetsStatusHolds ==
  ASSUME IsFiniteSet(Children), 2 * Cardinality(Children) < WMod
  PROVE  Spec => []WaitGetsStatus
<1>1. Init => Budget
  <2> SUFFICES ASSUME Init PROVE Budget
    OBVIOUS
  <2>1. Fresh = Children /\ Dead = {} /\ Owed = 0 /\ waitsafe = 0
    BY DEF Init, Fresh, Dead, Owed
  <2>2. Cardinality(Children) \in Nat /\ Cardinality({}) = 0
    BY FS_CardinalityType, FS_EmptySet
  <2>3. QED
    BY <2>1, <2>2 DEF Budget
<1>2. Init => (~trapcom => LeakScope /\ WaitInv /\ Exclusion)
  BY WidthAssumption
  DEF Init, LeakScope, TrapLabels, Held, Depth, Levels, Nested, Inside, WaitInv, InWait, Exclusion
<1>3. TypeOK /\ TypeOK' /\ Budget /\ [Next]_vars => Budget'
  BY BudgetStep
<1>4. TypeOK /\ HandlerScope /\ NeverUnder /\ ~trapcom => Exclusion
  BY QuietExcludes
<1>5. /\ TypeOK
      /\ TypeOK'
      /\ Budget
      /\ HandlerScope
      /\ NeverUnder
      /\ ~trapcom => LeakScope
      /\ ~trapcom => WaitInv
      /\ [Next]_vars
      => (/\ ~trapcom => LeakScope
          /\ ~trapcom => WaitInv)'
  BY <1>4, LeakScopeStep, WaitInvStep, OpsFixed
<1>6. Init => HandlerScope
  BY DEF Init, HandlerScope
<1>7. HandlerScope /\ [Next]_vars => HandlerScope'
  BY HandlerScopeStep
<1>8. TypeOK /\ (~trapcom => WaitInv) => WaitGetsStatus
  BY DEF WaitInv, WaitGetsStatus, Levels
<1>9. QED
  BY <1>1, <1>2, <1>3, <1>5, <1>6, <1>7, <1>8, TypeCorrect, NeverUnderHolds, PTL DEF Spec
=============================================================================
