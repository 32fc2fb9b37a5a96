---------------------------- MODULE JobSaveProofs --------------------------
(***************************************************************************)
(* The lists of saved statuses keep their types, and the count of a list   *)
(* covers its nodes, for any processes, limits, nesting and forks.  The    *)
(* two need each other: job_chksave stops at the node its count ends at,   *)
(* so a count that is too low would lose nodes, and a count of 0 with a    *)
(* node behind it would become negative.                                   *)
(*                                                                         *)
(* The lemmas are about the operators on the lists: each of them keeps     *)
(* StoreOK and the number of lists.                                        *)
(***************************************************************************)
EXTENDS JobSave, SequenceTheorems, WellFoundedInduction, TLAPS

(* A list of saved statuses, and one whose count is not below its length. *)
Lists == [count : Nat, list : Seq(Nodes)]
Covered(lev) == lev \in Lists /\ Len(lev.list) <= lev.count

(* The lists and the pool. *)
StoreOK(s) ==
  /\ s \in [levels : Seq(Lists), pool : Nat, njob : 0..NJob]
  /\ s.levels # <<>> /\ s.pool <= s.njob
  /\ \A n \in 1..Len(s.levels) : Covered(s.levels[n])

(* A set of numbers that is not empty has a least one. *)
LEMMA LeastOf ==
  ASSUME NEW S, S \subseteq Nat, S # {}
  PROVE  \E n \in S : \A m \in S : n <= m
<1>1. PICK n \in S : \A m \in S : <<m, n>> \notin OpToRel(<, Nat)
  BY NatLessThanWellFounded, WFMin, Zenon
<1>2. \A m \in S : ~(m < n)
  BY <1>1 DEF OpToRel
<1> QED BY <1>2

(* What job_chksave finds is a node of one of the lists. *)
LEMMA NodeFound ==
  ASSUME NEW s, StoreOK(s), NEW pid, Holding(s, pid) # {}
  PROVE  /\ LevelOf(s, pid) \in 1..Len(s.levels)
         /\ Hit(s.levels[LevelOf(s, pid)], pid) \in 1..Len(s.levels[LevelOf(s, pid)].list)
         /\ Node(s, pid) \in Nodes
<1>0. ASSUME NEW lev, Covered(lev)
      PROVE  Hit(lev, pid) \in 0..Len(lev.list)
  <2> USE <1>0
  <2>1. Len(lev.list) \in Nat /\ lev.count \in Nat /\ ~(lev.count < Len(lev.list))
    BY LenProperties DEF Covered, Lists
  <2>2. Matches(lev, pid) \subseteq 1..Len(lev.list)
    BY DEF Matches
  <2>3. CASE Matches(lev, pid) # {}
    <3>1. \E i \in Matches(lev, pid) : \A k \in Matches(lev, pid) : i <= k
      BY <2>1, <2>2, <2>3, LeastOf
    <3> QED BY <2>2, <2>3, <3>1, <2>1 DEF Hit
  <2>4. CASE Matches(lev, pid) = {}
    BY <2>1, <2>4 DEF Hit
  <2> QED BY <2>3, <2>4
<1>1. Len(s.levels) \in Nat /\ DOMAIN s.levels = 1..Len(s.levels)
  BY LenProperties DEF StoreOK
<1>2. Holding(s, pid) \subseteq 1..Len(s.levels)
  BY <1>1 DEF Holding
<1>3. \E n \in Holding(s, pid) : \A m \in Holding(s, pid) : n <= m
  BY <1>1, <1>2, LeastOf
<1>4. LevelOf(s, pid) \in Holding(s, pid)
  BY <1>3 DEF LevelOf
<1> DEFINE lev == s.levels[LevelOf(s, pid)]
<1>5. Covered(lev) /\ Hit(lev, pid) # 0
  BY <1>2, <1>4 DEF Holding, StoreOK
<1>6. Hit(lev, pid) \in 1..Len(lev.list)
  <2>1. Hit(lev, pid) \in 0..Len(lev.list)
    BY <1>5, <1>0
  <2>2. Len(lev.list) \in Nat
    BY <1>5, LenProperties DEF Covered, Lists
  <2> QED BY <1>5, <2>1, <2>2
<1>7. lev.list[Hit(lev, pid)] \in Nodes
  BY <1>5, <1>6, ElementOfSeq DEF Covered, Lists
<1> QED BY <1>2, <1>4, <1>6, <1>7 DEF Node

(* One list is replaced. *)
LEMMA LevelPut ==
  ASSUME NEW s, StoreOK(s), NEW n \in 1..Len(s.levels), NEW lev, Covered(lev),
         NEW pool \in Nat, NEW njob \in 0..NJob, pool <= njob
  PROVE  LET t == [levels |-> [s.levels EXCEPT ![n] = lev], pool |-> pool, njob |-> njob]
         IN  StoreOK(t) /\ Len(t.levels) = Len(s.levels) /\ t.levels[n] = lev
<1> DEFINE l == [s.levels EXCEPT ![n] = lev]
<1>1. l \in Seq(Lists) /\ Len(l) = Len(s.levels) /\ l[n] = lev
      /\ \A m \in 1..Len(s.levels) : m # n => l[m] = s.levels[m]
  BY ExceptSeq, LenProperties DEF StoreOK, Covered
<1>2. l # <<>>
  BY <1>1, EmptySeq
<1>3. \A m \in 1..Len(l) : Covered(l[m])
  BY <1>1 DEF StoreOK
<1> QED BY <1>1, <1>2, <1>3 DEF StoreOK

(* A node goes back to the pool.  A count above the length stays above it. *)
LEMMA DropOK ==
  ASSUME NEW s, StoreOK(s), NEW n \in 1..Len(s.levels), NEW i \in 1..Len(s.levels[n].list)
  PROVE  /\ StoreOK(Drop(s, n, i)) /\ Len(Drop(s, n, i).levels) = Len(s.levels)
         /\ Drop(s, n, i).njob >= s.njob
         /\ Len(s.levels[n].list) < s.levels[n].count
              => Len(Drop(s, n, i).levels[n].list) < Drop(s, n, i).levels[n].count
<1> DEFINE old  == s.levels[n]
           lev  == [count |-> old.count - 1, list |-> RemoveAt(old.list, i)]
           pool == IF s.njob < NJob THEN s.pool + 1 ELSE s.pool
           njob == IF s.njob < NJob THEN s.njob + 1 ELSE s.njob
<1>0. ASSUME NEW q \in Seq(Nodes)
      PROVE  \A j \in 1..Len(q) :
               RemoveAt(q, j) \in Seq(Nodes) /\ Len(RemoveAt(q, j)) = Len(q) - 1
  <2> USE <1>0
  <2> TAKE j \in 1..Len(q)
  <2> DEFINE a == SubSeq(q, 1, j - 1)
             b == SubSeq(q, j + 1, Len(q))
  <2>1. Len(q) \in Nat
    BY LenProperties
  <2>2. a \in Seq(Nodes) /\ Len(a) = j - 1
    BY <2>1, SubSeqProperties
  <2>3. b \in Seq(Nodes) /\ Len(b) = Len(q) - j
    BY <2>1, SubSeqProperties
  <2>4. a \o b \in Seq(Nodes) /\ Len(a \o b) = Len(a) + Len(b)
    BY <2>2, <2>3, ConcatProperties
  <2>5. RemoveAt(q, j) = a \o b
    BY DEF RemoveAt
  <2> HIDE DEF a, b
  <2>6. j \in Int /\ (j - 1) + (Len(q) - j) = Len(q) - 1
    BY <2>1
  <2>7. Len(a \o b) = Len(q) - 1
    BY <2>2, <2>3, <2>4, <2>6
  <2> QED BY <2>4, <2>5, <2>7
<1>1. old.count \in Nat /\ old.list \in Seq(Nodes) /\ Len(old.list) <= old.count
  BY DEF StoreOK, Covered, Lists
<1>2. Len(old.list) \in Nat /\ Len(old.list) >= 1
  BY <1>1, LenProperties
<1>3. RemoveAt(old.list, i) \in Seq(Nodes) /\ Len(RemoveAt(old.list, i)) = Len(old.list) - 1
  BY <1>1, <1>0
<1>4. Covered(lev) /\ (Len(old.list) < old.count => Len(lev.list) < lev.count)
  BY <1>1, <1>2, <1>3 DEF Covered, Lists
<1>5. pool \in Nat /\ njob \in 0..NJob /\ pool <= njob /\ njob >= s.njob
  BY LimitAssumption DEF StoreOK
<1>6. Drop(s, n, i) = [levels |-> [s.levels EXCEPT ![n] = lev], pool |-> pool, njob |-> njob]
  BY DEF Drop
<1> HIDE DEF lev, pool, njob
<1> QED BY <1>4, <1>5, <1>6, LevelPut

(* job_chksave, whatever it is asked for. *)
LEMMA ChkSaveOK ==
  ASSUME NEW s, StoreOK(s), NEW pid, NEW env
  PROVE  /\ StoreOK(ChkSave(s, pid, env)) /\ Len(ChkSave(s, pid, env).levels) = Len(s.levels)
         /\ ChkSave(s, pid, env).njob >= s.njob
<1>1. CASE Saved(s, pid, env)
  BY <1>1, NodeFound, DropOK DEF Saved, ChkSave
<1>2. CASE ~Saved(s, pid, env)
  BY <1>2 DEF ChkSave, StoreOK
<1> QED BY <1>1, <1>2

(* job_chksave(0,-1) takes the last node of the list. *)
LEMMA EvictOK ==
  ASSUME NEW s, StoreOK(s)
  PROVE  /\ StoreOK(Evict(s)) /\ Len(Evict(s).levels) = Len(s.levels) /\ Evict(s).njob >= s.njob
         /\ Len(s.levels[1].list) < s.levels[1].count
              => Len(Evict(s).levels[1].list) < Evict(s).levels[1].count
<1>1. 1 \in 1..Len(s.levels)
  BY EmptySeq, LenProperties DEF StoreOK
<1> DEFINE lev == s.levels[1]
<1>2. Len(lev.list) \in Nat /\ lev.count \in Nat /\ Len(lev.list) <= lev.count
  BY <1>1, LenProperties DEF StoreOK, Covered, Lists
<1>3. Oldest(lev) = Len(lev.list)
  BY <1>2 DEF Oldest
<1>4. CASE Len(lev.list) = 0
  BY <1>2, <1>3, <1>4 DEF Evict, StoreOK
<1>5. CASE Len(lev.list) # 0
  <2>1. Len(lev.list) \in 1..Len(lev.list)
    BY <1>2, <1>5
  <2>2. Evict(s) = Drop(s, 1, Len(lev.list))
    BY <1>3, <1>5 DEF Evict
  <2> QED BY <1>1, <2>1, <2>2, DropOK
<1> QED BY <1>4, <1>5

(* init_savelist, and job_clear of the list. *)
LEMMA EmptiedOK ==
  ASSUME NEW s, StoreOK(s)
  PROVE  /\ StoreOK(Refill(s)) /\ Refill(s).levels = s.levels
         /\ StoreOK(Emptied(s)) /\ Len(Emptied(s).levels) = Len(s.levels)
         /\ Emptied(s).levels = [s.levels EXCEPT ![1] = [count |-> s.levels[1].count, list |-> <<>>]]
<1> DEFINE lev == [count |-> s.levels[1].count, list |-> <<>>]
           t   == [levels |-> [s.levels EXCEPT ![1] = lev], pool |-> s.pool, njob |-> s.njob]
<1>0. ASSUME NEW u, StoreOK(u)
      PROVE  StoreOK(Refill(u)) /\ Refill(u).levels = u.levels
  <2> USE <1>0
  <2>1. CASE u.njob < NJob
    <3> DEFINE n == u.pool + (NJob - u.njob)
    <3>1. n \in Nat /\ n <= NJob /\ NJob \in 0..NJob
      BY <2>1, LimitAssumption DEF StoreOK
    <3>2. Refill(u) = [levels |-> u.levels, pool |-> n, njob |-> NJob]
      BY <2>1 DEF Refill, StoreOK
    <3> HIDE DEF n
    <3> QED BY <3>1, <3>2 DEF StoreOK
  <2>2. CASE ~(u.njob < NJob)
    BY <2>2 DEF Refill
  <2> QED BY <2>1, <2>2
<1>1. 1 \in 1..Len(s.levels) /\ Covered(s.levels[1])
  BY EmptySeq, LenProperties DEF StoreOK
<1>2. Covered(lev)
  BY <1>1 DEF Covered, Lists
<1>3. [s EXCEPT !.levels[1].list = <<>>] = t
  <2> DEFINE l == [s.levels EXCEPT ![1].list = <<>>]
  <2>1. [s.levels[1] EXCEPT !.list = <<>>] = lev
    BY <1>1 DEF Covered, Lists
  <2>2. [s.levels EXCEPT ![1].list = <<>>] = [s.levels EXCEPT ![1] = lev]
    BY <2>1
  <2>3. [s EXCEPT !.levels[1].list = <<>>] = [s EXCEPT !.levels = l]
    OBVIOUS
  <2>4. [s EXCEPT !.levels = l] = [levels |-> l, pool |-> s.pool, njob |-> s.njob]
    <3> HIDE DEF l
    <3> QED BY DEF StoreOK
  <2> QED BY <2>2, <2>3, <2>4
<1>4. StoreOK(t) /\ Len(t.levels) = Len(s.levels)
  <2> HIDE DEF lev
  <2> QED BY <1>1, <1>2, LevelPut DEF StoreOK
<1>5. t.levels = [s.levels EXCEPT ![1] = [count |-> s.levels[1].count, list |-> <<>>]]
  OBVIOUS
<1> HIDE DEF t
<1> QED BY <1>0, <1>3, <1>4, <1>5 DEF Emptied

(* The count of the first list goes up. *)
LEMMA CountedOK ==
  ASSUME NEW u, StoreOK(u)
  PROVE  /\ StoreOK(Counted(u)) /\ Len(Counted(u).levels) = Len(u.levels)
         /\ Counted(u).njob = u.njob
         /\ Len(Counted(u).levels[1].list) < Counted(u).levels[1].count
         /\ Counted(u).levels = [u.levels EXCEPT ![1] =
              [count |-> u.levels[1].count + 1, list |-> u.levels[1].list]]
<1> DEFINE old1 == u.levels[1]
           lev1 == [count |-> old1.count + 1, list |-> old1.list]
           t1   == [levels |-> [u.levels EXCEPT ![1] = lev1], pool |-> u.pool, njob |-> u.njob]
<1>1. 1 \in 1..Len(u.levels) /\ Covered(old1)
  BY EmptySeq, LenProperties DEF StoreOK
<1>2. Covered(lev1) /\ Len(lev1.list) < lev1.count
  BY <1>1, LenProperties DEF Covered, Lists
<1>3. Counted(u) = t1
  <2> DEFINE l1 == [u.levels EXCEPT ![1].count = @ + 1]
  <2>1. [old1 EXCEPT !.count = @ + 1] = lev1
    BY <1>1 DEF Covered, Lists
  <2>2. l1 = [u.levels EXCEPT ![1] = lev1]
    BY <2>1
  <2>3. Counted(u) = [u EXCEPT !.levels = l1]
    BY DEF Counted
  <2>4. [u EXCEPT !.levels = l1] = [levels |-> l1, pool |-> u.pool, njob |-> u.njob]
    <3> HIDE DEF l1
    <3> QED BY DEF StoreOK
  <2> QED BY <2>2, <2>3, <2>4
<1>4. StoreOK(t1) /\ Len(t1.levels) = Len(u.levels) /\ t1.levels[1] = lev1
  <2>1. u.pool \in Nat /\ u.njob \in 0..NJob /\ u.pool <= u.njob
    BY DEF StoreOK
  <2> HIDE DEF lev1
  <2> QED BY <1>1, <1>2, <2>1, LevelPut
<1>5. t1.njob = u.njob
  OBVIOUS
<1>6. Counted(u).levels = [u.levels EXCEPT ![1] =
        [count |-> u.levels[1].count + 1, list |-> u.levels[1].list]]
  BY <1>3
<1> HIDE DEF t1, lev1
<1> QED BY <1>2, <1>3, <1>4, <1>5, <1>6

(* There is room for a node: the count is above the length. *)
LEMMA RoomOK ==
  ASSUME NEW s, StoreOK(s), NEW pid, NEW t, t = Trimmed(Counted(ChkSave(s, pid, AnyEnv)))
  PROVE  /\ StoreOK(t) /\ Len(t.levels) = Len(s.levels) /\ t.njob >= s.njob
         /\ Len(t.levels[1].list) < t.levels[1].count
<1> DEFINE c == ChkSave(s, pid, AnyEnv)
           d == Counted(c)
<1>1. StoreOK(c) /\ Len(c.levels) = Len(s.levels) /\ c.njob >= s.njob
  BY ChkSaveOK
<1>2. /\ StoreOK(d) /\ Len(d.levels) = Len(s.levels) /\ d.njob >= s.njob
      /\ Len(d.levels[1].list) < d.levels[1].count
  <2> HIDE DEF c
  <2> QED BY <1>1, CountedOK
<1> HIDE DEF d
<1>3. /\ StoreOK(Evict(d)) /\ Len(Evict(d).levels) = Len(d.levels) /\ Evict(d).njob >= d.njob
      /\ Len(Evict(d).levels[1].list) < Evict(d).levels[1].count
  BY <1>2, EvictOK
<1>4. d.njob \in Int /\ s.njob \in Int /\ Evict(d).njob \in Int
  BY <1>2, <1>3, LimitAssumption DEF StoreOK
<1>5. Trimmed(d) = d \/ Trimmed(d) = Evict(d)
  BY DEF Trimmed
<1>6. t = Trimmed(d)
  BY DEF d
<1> QED BY <1>2, <1>3, <1>4, <1>5, <1>6

(* A node before the first list, which counts it already. *)
Added(l, node) ==
  [l EXCEPT ![1] = [count |-> l[1].count, list |-> <<node>> \o l[1].list]]

(* What jobsave_create does to the lists, once there is room. *)
LEMMA CreateIs ==
  ASSUME NEW s, StoreOK(s), NEW pid, NEW env, NEW val,
         NEW t, t = Trimmed(Counted(ChkSave(s, pid, AnyEnv)))
  PROVE  Create(s, pid, env, val).levels
           = Added(t.levels, [pid |-> pid, env |-> env % EnvMod, val |-> val])
<1> DEFINE old  == t.levels[1]
           node == [pid |-> pid, env |-> env % EnvMod, val |-> val]
           lev  == [count |-> old.count, list |-> <<node>> \o old.list]
<1>1. Covered(old)
  <2>1. StoreOK(t)
    BY RoomOK
  <2> QED BY <2>1, EmptySeq, LenProperties DEF StoreOK
<1>2. Create(s, pid, env, val).levels = [t.levels EXCEPT ![1].list = <<node>> \o @]
  BY DEF Create
<1>3. [old EXCEPT !.list = <<node>> \o @] = lev
  <2> DEFINE longer == <<node>> \o old.list
  <2>1. [old EXCEPT !.list = longer] = [count |-> old.count, list |-> longer]
    <3> HIDE DEF longer, old
    <3> QED BY <1>1 DEF Covered, Lists
  <2> QED BY <2>1
<1>4. [t.levels EXCEPT ![1].list = <<node>> \o @] = [t.levels EXCEPT ![1] = lev]
  BY <1>3
<1> QED BY <1>2, <1>4 DEF Added

(* jobsave_create: the count goes up before the node is there.  The node may  *)
(* come from a pool that was not empty before the calls of job_chksave.        *)
LEMMA CreateOK ==
  ASSUME NEW s, StoreOK(s), NEW pid \in Pids, NEW env \in Nat, NEW val \in Vals
  PROVE  StoreOK(Create(s, pid, env, val)) /\ Len(Create(s, pid, env, val).levels) = Len(s.levels)
<1> DEFINE t    == Trimmed(Counted(ChkSave(s, pid, AnyEnv)))
           old  == t.levels[1]
           node == [pid |-> pid, env |-> env % EnvMod, val |-> val]
           lev  == [count |-> old.count, list |-> <<node>> \o old.list]
           pool == IF s.pool > 0 THEN s.pool - 1 ELSE t.pool
           njob == IF s.pool > 0 THEN t.njob - 1 ELSE t.njob
<1>1. StoreOK(t) /\ Len(t.levels) = Len(s.levels) /\ t.njob >= s.njob /\ Len(old.list) < old.count
  BY RoomOK
<1> HIDE DEF t
<1>2. 1 \in 1..Len(t.levels) /\ Covered(old)
  BY <1>1, EmptySeq, LenProperties DEF StoreOK
<1>3. Covered(lev)
  <2>1. env % EnvMod \in 0..(EnvMod - 1)
    BY WidthAssumption
  <2>2. node \in Nodes
    BY <2>1 DEF Nodes
  <2>3. <<node>> \in Seq(Nodes) /\ Len(<<node>>) = 1
    <3> HIDE DEF node
    <3> QED BY <2>2
  <2>4. old.list \in Seq(Nodes) /\ old.count \in Nat /\ Len(old.list) \in Nat
    BY <1>2, LenProperties DEF Covered, Lists
  <2> HIDE DEF node
  <2>5. <<node>> \o old.list \in Seq(Nodes) /\ Len(<<node>> \o old.list) = 1 + Len(old.list)
    BY <2>3, <2>4, ConcatProperties
  <2> QED BY <1>1, <2>4, <2>5 DEF Covered, Lists
<1>4. pool \in Nat /\ njob \in 0..NJob /\ pool <= njob
  BY <1>1, LimitAssumption DEF StoreOK
<1>5. Create(s, pid, env, val)
        = [levels |-> [t.levels EXCEPT ![1] = lev], pool |-> pool, njob |-> njob]
  <2>1. Create(s, pid, env, val).levels = [t.levels EXCEPT ![1] = lev]
    <3>1. Create(s, pid, env, val).levels = Added(t.levels, node)
      BY CreateIs DEF t
    <3> QED BY <3>1 DEF Added
  <2> HIDE DEF lev
  <2> QED BY <2>1 DEF Create, t
<1> HIDE DEF lev, pool, njob
<1> QED BY <1>1, <1>2, <1>3, <1>4, <1>5, LevelPut

(* The list of a subshell that ends is put before the one of the shell. *)
LEMMA JoinedCovered ==
  ASSUME NEW inner, Covered(inner), NEW out, Covered(out)
  PROVE  Covered(Joined(inner, out))
<1> DEFINE both  == inner.list \o out.list
           total == inner.count + out.count
<1>1. /\ inner.count \in Nat /\ inner.list \in Seq(Nodes) /\ Len(inner.list) <= inner.count
      /\ out.count \in Nat /\ out.list \in Seq(Nodes) /\ Len(out.list) <= out.count
  BY DEF Covered, Lists
<1>2. Len(inner.list) \in Nat /\ Len(out.list) \in Nat
  BY <1>1, LenProperties
<1>3. both \in Seq(Nodes) /\ Len(both) = Len(inner.list) + Len(out.list)
  BY <1>1, ConcatProperties
<1>4. \/ Joined(inner, out) = [count |-> total, list |-> both]
      \/ Joined(inner, out) = [count |-> total, list |-> out.list]
  BY DEF Joined
<1> HIDE DEF both
<1>5. total \in Nat /\ Len(both) <= total /\ Len(out.list) <= total
  <2> DEFINE m == inner.count
             n == out.count
             k == Len(inner.list)
             i == Len(out.list)
  <2>1. m \in Nat /\ n \in Nat /\ k \in Nat /\ i \in Nat /\ k <= m /\ i <= n
    BY <1>1, <1>2
  <2>2. total = m + n /\ Len(both) = k + i
    BY <1>3
  <2> HIDE DEF m, n, k, i, total
  <2>3. total \in Nat /\ Len(both) <= total /\ i <= total
    BY <2>1, <2>2
  <2> QED BY <2>3 DEF i
<1> HIDE DEF total
<1> QED BY <1>1, <1>3, <1>4, <1>5 DEF Covered, Lists

(* The lists then, and when a subshell begins with an empty one. *)
Merged(ls) == <<Joined(ls[1], ls[2])>> \o SubSeq(ls, 3, Len(ls))
Opened(ls) == <<[count |-> 0, list |-> <<>>]>> \o ls

LEMMA MergedIs ==
  ASSUME NEW ls \in Seq(Lists), Len(ls) > 1, \A n \in 1..Len(ls) : Covered(ls[n])
  PROVE  /\ Merged(ls) \in Seq(Lists) /\ Len(Merged(ls)) = Len(ls) - 1
         /\ Merged(ls)[1] = Joined(ls[1], ls[2]) /\ Covered(Merged(ls)[1])
         /\ \A n \in 2..Len(Merged(ls)) : Merged(ls)[n] = ls[n + 1]
<1> DEFINE top  == Joined(ls[1], ls[2])
           rest == SubSeq(ls, 3, Len(ls))
           l    == <<top>> \o rest
<1>1. Len(ls) \in Nat
  BY LenProperties
<1>2. Covered(top)
  <2>1. 1 \in 1..Len(ls) /\ 2 \in 1..Len(ls)
    BY <1>1
  <2> QED BY <1>1, <2>1, JoinedCovered
<1>3. rest \in Seq(Lists) /\ Len(rest) = Len(ls) - 2
      /\ \A n \in 1..Len(rest) : rest[n] = ls[n + 2]
  <2>1. \A i \in 3..Len(ls) : ls[i] \in Lists
    BY <1>1, ElementOfSeq
  <2>2. /\ rest \in Seq(Lists) /\ Len(rest) = (IF 3 <= Len(ls) THEN Len(ls) - 3 + 1 ELSE 0)
        /\ \A n \in 1..(Len(ls) - 3 + 1) : rest[n] = ls[3 + n - 1]
    BY <1>1, <2>1, SubSeqProperties
  <2> HIDE DEF rest
  <2>3. Len(rest) = Len(ls) - 2 /\ Len(ls) - 3 + 1 = Len(ls) - 2
    <3> DEFINE m == Len(ls)
    <3>1. m \in Nat /\ m > 1 /\ Len(rest) = (IF 3 <= m THEN m - 3 + 1 ELSE 0)
      BY <1>1, <2>2
    <3> HIDE DEF m
    <3>2. Len(rest) = m - 2 /\ m - 3 + 1 = m - 2
      BY <3>1
    <3> QED BY <3>2 DEF m
  <2>4. \A n \in 1..Len(rest) : rest[n] = ls[3 + n - 1] /\ 3 + n - 1 = n + 2
    BY <1>1, <2>2, <2>3
  <2> QED BY <2>2, <2>3, <2>4
<1>4. <<top>> \in Seq(Lists) /\ Len(<<top>>) = 1 /\ <<top>>[1] = top
  <2> HIDE DEF top
  <2> QED BY <1>2 DEF Covered
<1> HIDE DEF top, rest
<1>5. /\ l \in Seq(Lists) /\ Len(l) = Len(ls) - 1
      /\ l[1] = top /\ \A n \in 2..Len(l) : l[n] = ls[n + 1]
  <2>1. /\ l \in Seq(Lists) /\ Len(l) = 1 + Len(rest)
        /\ \A n \in 1..Len(l) : l[n] = IF n <= 1 THEN <<top>>[n] ELSE rest[n - 1]
    BY <1>3, <1>4, ConcatProperties
  <2> HIDE DEF l
  <2>2. Len(l) = Len(ls) - 1
    BY <1>1, <1>3, <2>1
  <2>3. l[1] = top
    BY <1>1, <1>4, <2>1, <2>2
  <2>4. \A n \in 2..Len(l) : l[n] = rest[n - 1] /\ n - 1 \in 1..Len(rest)
    BY <1>1, <1>3, <2>1, <2>2
  <2>5. \A n \in 2..Len(l) : l[n] = ls[n + 1]
    <3> TAKE n \in 2..Len(l)
    <3>1. (n - 1) + 2 = n + 1
      BY <1>1, <2>2
    <3> QED BY <1>3, <2>4, <3>1
  <2> QED BY <2>1, <2>2, <2>3, <2>5
<1>6. l = Merged(ls)
  BY DEF top, rest, Merged
<1> HIDE DEF l
<1> QED BY <1>2, <1>5, <1>6 DEF top

LEMMA JoinedOK ==
  ASSUME NEW s, StoreOK(s), Len(s.levels) > 1
  PROVE  LET t == [s EXCEPT !.levels = <<Joined(@[1], @[2])>> \o SubSeq(@, 3, Len(@))]
         IN  StoreOK(t) /\ Len(t.levels) = Len(s.levels) - 1
<1> DEFINE l == Merged(s.levels)
<1>1. /\ s.levels \in Seq(Lists) /\ Len(s.levels) \in Nat
      /\ \A n \in 1..Len(s.levels) : Covered(s.levels[n])
  BY LenProperties DEF StoreOK
<1>2. /\ l \in Seq(Lists) /\ Len(l) = Len(s.levels) - 1 /\ Covered(l[1])
      /\ \A n \in 2..Len(l) : l[n] = s.levels[n + 1]
  BY <1>1, MergedIs
<1>3. [s EXCEPT !.levels = <<Joined(@[1], @[2])>> \o SubSeq(@, 3, Len(@))]
        = [levels |-> l, pool |-> s.pool, njob |-> s.njob]
  <2>1. [s EXCEPT !.levels = l] = [levels |-> l, pool |-> s.pool, njob |-> s.njob]
    <3> HIDE DEF l
    <3> QED BY DEF StoreOK
  <2> QED BY <2>1 DEF Merged
<1> HIDE DEF l
<1>4. (\A n \in 1..Len(l) : Covered(l[n])) /\ l # <<>>
  BY <1>1, <1>2, EmptySeq
<1>5. StoreOK([levels |-> l, pool |-> s.pool, njob |-> s.njob])
  BY <1>2, <1>4 DEF StoreOK
<1> QED BY <1>2, <1>3, <1>5

LEMMA OpenedIs ==
  ASSUME NEW ls \in Seq(Lists)
  PROVE  /\ Opened(ls) \in Seq(Lists) /\ Len(Opened(ls)) = Len(ls) + 1
         /\ Opened(ls)[1] = [count |-> 0, list |-> <<>>] /\ Covered(Opened(ls)[1])
         /\ \A n \in 2..Len(Opened(ls)) : Opened(ls)[n] = ls[n - 1]
<1> DEFINE new == [count |-> 0, list |-> <<>>]
<1>1. Len(ls) \in Nat
  BY LenProperties
<1>2. Covered(new)
  BY EmptySeq DEF Covered, Lists
<1>3. <<new>> \in Seq(Lists) /\ Len(<<new>>) = 1 /\ <<new>>[1] = new
  <2> HIDE DEF new
  <2> QED BY <1>2 DEF Covered
<1>4. Opened(ls) = <<new>> \o ls
  BY DEF Opened
<1> HIDE DEF new
<1>5. /\ Opened(ls) \in Seq(Lists) /\ Len(Opened(ls)) = 1 + Len(ls)
      /\ \A n \in 1..Len(Opened(ls)) :
           Opened(ls)[n] = IF n <= 1 THEN <<new>>[n] ELSE ls[n - 1]
  BY <1>3, <1>4, ConcatProperties
<1>6. Opened(ls)[1] = new /\ \A n \in 2..Len(Opened(ls)) : Opened(ls)[n] = ls[n - 1]
  BY <1>1, <1>3, <1>5
<1> QED BY <1>1, <1>2, <1>5, <1>6 DEF new

(* A subshell begins with an empty list. *)
LEMMA NewLevelOK ==
  ASSUME NEW s, StoreOK(s)
  PROVE  LET t == [s EXCEPT !.levels = <<[count |-> 0, list |-> <<>>]>> \o @]
         IN  StoreOK(t) /\ Len(t.levels) = Len(s.levels) + 1
<1> DEFINE l == Opened(s.levels)
<1>1. /\ s.levels \in Seq(Lists) /\ Len(s.levels) \in Nat
      /\ \A n \in 1..Len(s.levels) : Covered(s.levels[n])
  BY LenProperties DEF StoreOK
<1>2. /\ l \in Seq(Lists) /\ Len(l) = Len(s.levels) + 1 /\ Covered(l[1])
      /\ \A n \in 2..Len(l) : l[n] = s.levels[n - 1]
  BY <1>1, OpenedIs
<1>3. [s EXCEPT !.levels = <<[count |-> 0, list |-> <<>>]>> \o @]
        = [levels |-> l, pool |-> s.pool, njob |-> s.njob]
  <2>1. [s EXCEPT !.levels = l] = [levels |-> l, pool |-> s.pool, njob |-> s.njob]
    <3> HIDE DEF l
    <3> QED BY DEF StoreOK
  <2> QED BY <2>1 DEF Opened
<1> HIDE DEF l
<1>4. (\A n \in 1..Len(l) : Covered(l[n])) /\ l # <<>>
  BY <1>1, <1>2, EmptySeq
<1>5. StoreOK([levels |-> l, pool |-> s.pool, njob |-> s.njob])
  BY <1>2, <1>4 DEF StoreOK
<1> QED BY <1>2, <1>3, <1>5

(* The job table has entries of their types. *)
JobsOK(t) == DOMAIN t \subseteq Pids /\ \A p \in DOMAIN t : t[p] \in Jobs

(* A list for each subshell, and one more; the list of a subshell that ends *)
(* goes before the subshell does.                                           *)
Depth == IF pc \in {"trim", "restore"} THEN Len(outer) ELSE Len(outer) + 1

ShellOK ==
  /\ curenv \in Envs /\ subenv \in Envs /\ forks \in 0..MaxForks
  /\ outer \in Seq([env : Envs, share : BOOLEAN]) /\ Len(outer) <= MaxDepth
  /\ Len(store.levels) = Depth /\ floor \in 1..Len(store.levels)

RestOK ==
  /\ mine \subseteq Pids /\ toclear \in BOOLEAN
  /\ pc \in {"run", "sweep", "trim", "restore"}
  /\ exitval \in Vals \union {NoEnt}

(* The inductive invariant. *)
IInv == StoreOK(store) /\ JobsOK(job) /\ ShellOK /\ RestOK

(* The shell starts with one empty list. *)
LEMMA Initially == Init => IInv
<1> SUFFICES ASSUME Init PROVE IInv
  OBVIOUS
<1>1. StoreOK(store) /\ Len(store.levels) = 1
  <2> DEFINE new == [count |-> 0, list |-> <<>>]
             l   == <<new>>
  <2>1. Covered(new)
    BY EmptySeq DEF Covered, Lists
  <2> HIDE DEF new
  <2>2. l \in Seq(Lists) /\ Len(l) = 1 /\ l[1] = new
    BY <2>1 DEF Covered
  <2> HIDE DEF l
  <2>3. (\A n \in 1..Len(l) : Covered(l[n])) /\ l # <<>>
    BY <2>1, <2>2, EmptySeq
  <2>4. store = [levels |-> l, pool |-> NJob, njob |-> NJob]
    BY DEF Init, l, new
  <2>5. NJob \in Nat /\ NJob \in 0..NJob /\ NJob <= NJob
    BY LimitAssumption
  <2> HIDE DEF Init
  <2>6. /\ store \in [levels : Seq(Lists), pool : Nat, njob : 0..NJob]
        /\ store.levels = l /\ store.pool <= store.njob
    BY <2>2, <2>4, <2>5
  <2> QED BY <2>2, <2>3, <2>6 DEF StoreOK
<1>2. JobsOK(job)
  BY DEF Init, JobsOK
<1>3. ShellOK
  BY <1>1, BoundAssumption, EmptySeq DEF Init, ShellOK, Envs, Depth
<1>4. RestOK
  BY InheritedAssumption DEF Init, RestOK
<1> QED BY <1>1, <1>2, <1>3, <1>4 DEF IInv

(* The operations that work on the lists as they are. *)
LEMMA StoreSteps ==
  ASSUME IInv, NEW p \in Pids, NEW v \in Vals,
         Start(p) \/ Reap(p, v) \/ ReapUnknown(p, v) \/ WaitSaved(p) \/ Unpost(p)
  PROVE  StoreOK(store') /\ Len(store'.levels) = Len(store.levels)
\* A status that is saved is one of a process that ended.
<1>0. ASSUME NEW s, StoreOK(s), NEW t, JobsOK(t), NEW q \in DOMAIN t, t[q].st # Running
      PROVE  StoreOK(Unposted(s, t, q)) /\ Len(Unposted(s, t, q).levels) = Len(s.levels)
  <2> USE <1>0
  <2>1. q \in Pids /\ t[q].env \in Nat /\ t[q].st \in Vals
    BY BoundAssumption DEF JobsOK, Jobs, Envs
  <2> QED BY <2>1, CreateOK DEF Unposted
<1> USE DEF IInv
<1>1. CASE Start(p)
  <2> DEFINE old == ClearedJobs
             s0  == Refill(Cleared(store))
             s1  == IF p \in DOMAIN old /\ old[p].st # Running THEN Unposted(s0, old, p) ELSE s0
  <2>1. JobsOK(old)
    BY DEF ClearedJobs, JobsOK
  <2>2. StoreOK(s0) /\ Len(s0.levels) = Len(store.levels)
    BY EmptiedOK DEF Cleared
  <2>3. StoreOK(s1) /\ Len(s1.levels) = Len(store.levels)
    <3> HIDE DEF s0, old
    <3> QED BY <1>0, <2>1, <2>2
  <2>4. store' = ChkSave(ChkSave(s1, p, curenv), p, AnyEnv)
    BY <1>1 DEF Start, Dropped
  <2> HIDE DEF s1
  <2>5. StoreOK(ChkSave(s1, p, curenv)) /\ Len(ChkSave(s1, p, curenv).levels) = Len(store.levels)
    BY <2>3, ChkSaveOK
  <2> QED BY <2>4, <2>5, ChkSaveOK
<1>2. CASE Reap(p, v)
  BY <1>2, ChkSaveOK DEF Reap, Forgotten
<1>3. CASE ReapUnknown(p, v)
  <2> DEFINE s == Cleared(Forgotten(p, v))
  <2>1. StoreOK(Forgotten(p, v)) /\ Len(Forgotten(p, v).levels) = Len(store.levels)
    BY ChkSaveOK DEF Forgotten
  <2>2. StoreOK(s) /\ Len(s.levels) = Len(store.levels)
    BY <2>1, EmptiedOK DEF Cleared
  <2>3. store' = Create(s, p, curenv, v) /\ curenv \in Nat
    BY <1>3, BoundAssumption DEF ReapUnknown, ShellOK, Envs
  <2> HIDE DEF s
  <2> QED BY <2>2, <2>3, CreateOK
<1>4. CASE WaitSaved(p)
  BY <1>4, ChkSaveOK DEF WaitSaved
<1>5. CASE Unpost(p)
  BY <1>0, <1>5 DEF Unpost, Leaving, Ended
<1> QED BY <1>1, <1>2, <1>3, <1>4, <1>5

(* Every step keeps the types of the job table. *)
LEMMA JobSteps ==
  ASSUME IInv, [Next]_vars
  PROVE  JobsOK(job)'
<1> USE DEF IInv
<1>1. ASSUME NEW p \in Pids, Start(p)
      PROVE  JobsOK(job')
  <2>1. DOMAIN ClearedJobs \subseteq Pids /\ \A q \in DOMAIN ClearedJobs : job[q] \in Jobs
    BY DEF ClearedJobs, JobsOK
  <2>2. Posted(curenv) \in Jobs
    BY DEF Posted, Jobs, ShellOK
  <2>3. job' = [q \in DOMAIN ClearedJobs \union {p} |-> IF q = p THEN Posted(curenv) ELSE job[q]]
    BY <1>1 DEF Start
  <2> QED BY <2>1, <2>2, <2>3 DEF JobsOK
<1>2. ASSUME NEW p \in Pids, NEW v \in Vals, Reap(p, v)
      PROVE  JobsOK(job')
  <2>1. job' = [job EXCEPT ![p] = [@ EXCEPT !.st = v, !.done = TRUE]] /\ p \in DOMAIN job
    BY <1>2 DEF Reap
  <2>2. [job[p] EXCEPT !.st = v, !.done = TRUE] \in Jobs
    BY <2>1 DEF JobsOK, Jobs
  <2> QED BY <2>1, <2>2 DEF JobsOK
<1>3. ASSUME NEW p \in Pids, NEW v \in Vals, ReapUnknown(p, v)
      PROVE  JobsOK(job')
  BY <1>3 DEF ReapUnknown, ClearedJobs, JobsOK
<1>4. ASSUME NEW p \in Pids, WaitOf(p) \/ Unpost(p)
      PROVE  JobsOK(job')
  <2>1. CASE WaitSaved(p) \/ WaitForeign(p) \/ WaitNoChild(p)
    BY <2>1 DEF WaitSaved, WaitForeign, WaitNoChild
  <2>2. CASE WaitJob(p) \/ Unpost(p)
    <3>1. job' = [q \in DOMAIN job \ {p} |-> job[q]]
      BY <2>2 DEF WaitJob, Unpost, Without, Restrict
    <3> QED BY <3>1 DEF JobsOK
  <2>3. CASE WaitEarly(p)
    <3>1. job' = [job EXCEPT ![p] = [@ EXCEPT !.save = FALSE]] /\ p \in DOMAIN job
      BY <2>3 DEF WaitEarly
    <3>2. [job[p] EXCEPT !.save = FALSE] \in Jobs
      BY <3>1 DEF JobsOK, Jobs
    <3> QED BY <3>1, <3>2 DEF JobsOK
  <2> QED BY <1>4, <2>1, <2>2, <2>3 DEF WaitOf
<1>5. CASE WaitAll
  <2>1. job' = [p \in DOMAIN job |-> [job[p] EXCEPT !.done = TRUE]]
    BY <1>5 DEF WaitAll
  <2>2. \A p \in DOMAIN job : [job[p] EXCEPT !.done = TRUE] \in Jobs
    BY DEF JobsOK, Jobs
  <2> QED BY <2>1, <2>2 DEF JobsOK
<1>6. CASE Restored
  <2>1. job' = [p \in DOMAIN job |-> [job[p] EXCEPT !.done = @ \/ job[p].env = curenv]]
    BY <1>6 DEF Restored
  <2>2. \A p \in DOMAIN job : [job[p] EXCEPT !.done = @ \/ job[p].env = curenv] \in Jobs
    BY DEF JobsOK, Jobs
  <2> QED BY <2>1, <2>2 DEF JobsOK
<1>7. ASSUME NEW clear \in BOOLEAN, Fork(clear)
      PROVE  JobsOK(job')
  BY <1>7 DEF Fork, JobsOK
<1>8. CASE Sweep \/ SweepDone \/ Trim \/ TrimDone \/ Leave
  BY <1>8 DEF Sweep, SweepDone, Trim, TrimDone, Leave
<1>9. ASSUME NEW share \in Shares, Enter(share)
      PROVE  JobsOK(job')
  BY <1>9 DEF Enter
<1>10. CASE UNCHANGED vars
  BY <1>10 DEF vars
<1> QED
  BY <1>1, <1>2, <1>3, <1>4, <1>5, <1>6, <1>7, <1>8, <1>9, <1>10 DEF Next, Loop

(* Every step keeps the rest of the invariant. *)
LEMMA ShellSteps ==
  ASSUME IInv, [Next]_vars
  PROVE  StoreOK(store)' /\ ShellOK' /\ RestOK'
<1> USE DEF IInv
<1>1. ASSUME NEW p \in Pids, NEW v \in Vals,
             Start(p) \/ Reap(p, v) \/ ReapUnknown(p, v) \/ WaitSaved(p)
      PROVE  StoreOK(store)' /\ ShellOK' /\ RestOK'
  <2>1. StoreOK(store') /\ Len(store'.levels) = Len(store.levels)
    BY <1>1, StoreSteps
  <2>2. UNCHANGED <<shell, pc>>
    BY <1>1 DEF Start, Reap, ReapUnknown, WaitSaved
  <2>3. ShellOK'
    BY <2>1, <2>2 DEF ShellOK, Depth, shell
  <2>4. mine' \subseteq Pids /\ toclear' \in BOOLEAN
    BY <1>1 DEF Start, Reap, ReapUnknown, WaitSaved, RestOK
  <2>5. exitval' \in Vals \union {NoEnt}
    <3>1. CASE WaitSaved(p)
      <4>1. Saved(store, p, curenv) => Node(store, p) \in Nodes
        BY NodeFound DEF Saved
      <4> QED BY <3>1, <4>1 DEF WaitSaved, Nodes
    <3>2. CASE exitval' = exitval
      BY <3>2 DEF RestOK
    <3> QED BY <1>1, <3>1, <3>2 DEF Start, Reap, ReapUnknown
  <2> QED BY <2>1, <2>2, <2>3, <2>4, <2>5 DEF RestOK
<1>2. ASSUME NEW p \in Pids, WaitForeign(p) \/ WaitJob(p) \/ WaitEarly(p) \/ WaitNoChild(p)
      PROVE  StoreOK(store)' /\ ShellOK' /\ RestOK'
  <2>1. UNCHANGED <<store, mine, toclear, shell>> /\ pc' \in {"run", "sweep"} /\ pc = "run"
    BY <1>2 DEF WaitForeign, WaitJob, WaitEarly, WaitNoChild
  <2>2. ShellOK'
    BY <2>1 DEF ShellOK, Depth, shell
  <2>3. exitval' \in Vals \union {NoEnt}
    <3>1. CASE WaitJob(p)
      <4>1. p \in DOMAIN job /\ job[p].st # Running /\ exitval' = job[p].st
        BY <3>1 DEF WaitJob, Ended
      <4> QED BY <4>1 DEF JobsOK, Jobs
    <3> QED BY <1>2, <3>1, ValsAssumption DEF WaitForeign, WaitEarly, WaitNoChild
  <2> QED BY <2>1, <2>2, <2>3 DEF RestOK
<1>3. CASE WaitAll \/ Sweep \/ SweepDone \/ TrimDone \/ UNCHANGED vars
  <2>1. UNCHANGED <<store, mine, toclear, shell, exitval>>
    BY <1>3 DEF WaitAll, Sweep, SweepDone, TrimDone, vars, shell
  <2>2. /\ pc' \in {"run", "sweep", "trim", "restore"}
        /\ pc' \in {"trim", "restore"} <=> pc \in {"trim", "restore"}
    BY <1>3 DEF WaitAll, Sweep, SweepDone, TrimDone, vars, RestOK
  <2> QED BY <2>1, <2>2 DEF ShellOK, RestOK, Depth, shell
<1>4. CASE Trim \/ \E p \in Pids : Unpost(p)
  <2>1. StoreOK(store') /\ Len(store'.levels) = Len(store.levels)
    <3>1. CASE Trim
      BY <3>1, EvictOK DEF Trim
    <3>2. ASSUME NEW p \in Pids, Unpost(p)
          PROVE  StoreOK(store') /\ Len(store'.levels) = Len(store.levels)
      BY <3>2, StoreSteps, ValsAssumption
    <3> QED BY <1>4, <3>1, <3>2
  <2>2. UNCHANGED <<mine, toclear, shell, pc, exitval>>
    BY <1>4 DEF Trim, Unpost
  <2> QED BY <2>1, <2>2 DEF ShellOK, RestOK, Depth, shell
<1>5. CASE Leave
  <2>1. Len(store.levels) \in Nat /\ floor \in Nat /\ floor >= 1
    BY LenProperties DEF StoreOK, ShellOK
  <2>2. StoreOK(store') /\ Len(store'.levels) = Len(store.levels) - 1
    BY <1>5, <2>1, JoinedOK DEF Leave
  <2>3. /\ UNCHANGED <<mine, toclear, shell, exitval>> /\ pc = "run" /\ pc' = "trim"
        /\ Len(store.levels) > floor
    BY <1>5 DEF Leave
  <2>4. ShellOK'
    BY <2>1, <2>2, <2>3, LenProperties DEF ShellOK, Depth, shell
  <2> QED BY <2>2, <2>3, <2>4 DEF RestOK
<1>6. CASE Restored
  <2>1. outer \in Seq([env : Envs, share : BOOLEAN]) /\ Len(outer) >= 1 /\ Len(outer) \in Nat
        /\ Len(outer) = Len(store.levels)
    BY <1>6, LenProperties, EmptySeq DEF Restored, ShellOK, Depth, StoreOK
  <2>2. outer[1] \in [env : Envs, share : BOOLEAN]
    <3>1. 1 \in 1..Len(outer)
      BY <2>1
    <3> QED BY <2>1, <3>1, ElementOfSeq
  <2>3. Tail(outer) \in Seq([env : Envs, share : BOOLEAN]) /\ Len(Tail(outer)) = Len(outer) - 1
    BY <2>1, HeadTailProperties, EmptySeq
  <2>4. curenv' \in Envs
    BY <1>6, <2>2 DEF Restored, ShellOK
  <2>5. UNCHANGED <<store, mine, toclear, subenv, floor, forks, exitval>>
        /\ pc' = "run" /\ outer' = Tail(outer)
    BY <1>6 DEF Restored
  <2>6. Len(outer') + 1 = Len(store'.levels) /\ Len(outer') <= MaxDepth
    <3>1. Len(outer) <= MaxDepth /\ MaxDepth \in Nat
      BY BoundAssumption DEF ShellOK
    <3> QED BY <2>1, <2>3, <2>5, <3>1
  <2>7. ShellOK'
    BY <2>3, <2>4, <2>5, <2>6 DEF ShellOK, Depth
  <2> QED BY <2>5, <2>7 DEF RestOK
<1>7. ASSUME NEW share \in Shares, Enter(share)
      PROVE  StoreOK(store)' /\ ShellOK' /\ RestOK'
  <2>1. StoreOK(store') /\ Len(store'.levels) = Len(store.levels) + 1
    BY <1>7, NewLevelOK DEF Enter
  <2>2. curenv' \in Envs /\ subenv' \in Envs
    BY <1>7, BoundAssumption DEF Enter, ShellOK, Envs
  <2> DEFINE top == [env |-> curenv, share |-> share]
  <2>3. <<top>> \in Seq([env : Envs, share : BOOLEAN]) /\ Len(<<top>>) = 1
    <3>1. top \in [env : Envs, share : BOOLEAN]
      BY ShareAssumption DEF ShellOK
    <3> HIDE DEF top
    <3> QED BY <3>1
  <2>4. /\ outer' = <<top>> \o outer /\ pc = "run" /\ Len(outer) < MaxDepth
        /\ UNCHANGED <<mine, toclear, floor, forks, pc, exitval>>
    BY <1>7 DEF Enter
  <2> HIDE DEF top
  <2>5. outer' \in Seq([env : Envs, share : BOOLEAN]) /\ Len(outer') = Len(outer) + 1
    BY <2>3, <2>4, ConcatProperties DEF ShellOK
  <2>6. Len(outer) \in Nat /\ Len(store.levels) \in Nat /\ MaxDepth \in Nat
    BY LenProperties, BoundAssumption DEF ShellOK, StoreOK
  <2>7. ShellOK'
    BY <2>1, <2>2, <2>4, <2>5, <2>6 DEF ShellOK, Depth
  <2> QED BY <2>1, <2>4, <2>7 DEF RestOK
<1>8. ASSUME NEW clear \in BOOLEAN, Fork(clear)
      PROVE  StoreOK(store)' /\ ShellOK' /\ RestOK'
  <2>1. StoreOK(store') /\ Len(store'.levels) = Len(store.levels)
    BY <1>8, EmptiedOK DEF Fork
  <2>2. Len(store.levels) \in Nat /\ Len(store.levels) >= 1
    BY LenProperties, EmptySeq DEF StoreOK
  <2>3. curenv' \in Envs /\ forks' \in 0..MaxForks
    BY <1>8, BoundAssumption DEF Fork, ShellOK, Envs
  <2>4. /\ floor' = Len(store.levels) /\ mine' = {} /\ toclear' \in BOOLEAN
        /\ UNCHANGED <<subenv, outer, pc, exitval>>
    BY <1>8 DEF Fork
  <2> QED BY <2>1, <2>2, <2>3, <2>4 DEF ShellOK, RestOK, Depth
<1>9. ASSUME NEW p \in Pids, Start(p) \/ WaitOf(p)
      PROVE  StoreOK(store)' /\ ShellOK' /\ RestOK'
  <2>1. 0 \in Vals
    BY ValsAssumption
  <2> QED BY <1>1, <1>2, <1>9, <2>1 DEF WaitOf
<1> QED
  BY <1>1, <1>3, <1>4, <1>5, <1>6, <1>7, <1>8, <1>9 DEF Next, Loop

(* Every variable of JobSave keeps its type. *)
THEOREM TypeCorrect == Spec => []TypeOK
<1>1. IInv /\ [Next]_vars => IInv'
  BY JobSteps, ShellSteps DEF IInv
<1>2. IInv => TypeOK
  <2> SUFFICES ASSUME IInv PROVE TypeOK
    OBVIOUS
  <2>1. Len(store.levels) \in 1..MaxDepth+1
    BY LenProperties, EmptySeq, BoundAssumption DEF IInv, ShellOK, Depth, StoreOK
  <2> QED BY <2>1 DEF IInv, TypeOK, StoreOK, Lists, JobsOK, ShellOK, RestOK
<1> QED
  BY Initially, <1>1, <1>2, PTL DEF Spec

(* The count of a list is never less than its length: job_chksave gives away no *)
(* status of another process for want of count.                                 *)
THEOREM CountCoversHolds == Spec => []CountCovers
<1>1. IInv /\ [Next]_vars => IInv'
  BY JobSteps, ShellSteps DEF IInv
<1>2. IInv => CountCovers
  BY LenProperties DEF IInv, StoreOK, Covered, CountCovers
<1> QED
  BY Initially, <1>1, <1>2, PTL DEF Spec
============================================================================
