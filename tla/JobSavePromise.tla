-------------------------- MODULE JobSavePromise ---------------------------
(***************************************************************************)
(* JobSave implements AbsSave: what the lists, the table and the calls of  *)
(* job_chksave, jobsave_create and job_unpost do together is what the      *)
(* abstract module promises of "wait", for any processes and limits.       *)
(*                                                                         *)
(* The module goes from the lists to the promise.  First what each         *)
(* operation does to the set of statuses that are saved.  Then the         *)
(* inductive invariant Once: there is one status of a process, in one      *)
(* place; the counts of a shell that never forked are exact.  Last, for    *)
(* each action of JobSave, the step of AbsSave it is.                      *)
(***************************************************************************)
EXTENDS JobSaveProofs, FiniteSetTheorems, FunctionTheorems

(* The statuses of a list, and of all lists. *)
Elems(q) == { q[i] : i \in 1..Len(q) }
Saves(l) == UNION { Elems(l[n].list) : n \in 1..Len(l) }

(* A process has one status at most: in a list, in all lists. *)
Distinct(q) == \A i, j \in 1..Len(q) : q[i].pid = q[j].pid => i = j
Single(l) ==
  /\ \A n \in 1..Len(l) : Distinct(l[n].list)
  /\ \A n, m \in 1..Len(l) : \A x \in Elems(l[n].list), y \in Elems(l[m].list) :
       x.pid = y.pid => n = m

(* What the statuses of k are, compared with those of l: one is gone, a list is *)
(* another one, those of a process are gone if they are of environment env.     *)
Loses(k, l, y) == Saves(k) = Saves(l) \ {y}
Swaps(k, l, n) == Saves(k) = (Saves(l) \ Elems(l[n].list)) \union Elems(k[n].list)
Forgets(k, l, pid, env) ==
  Saves(k) = { x \in Saves(l) : ~(x.pid = pid /\ (env = AnyEnv \/ x.env = env)) }

(* A node leaves a list. *)
LEMMA RemoveDoes ==
  ASSUME NEW q \in Seq(Nodes), NEW i \in 1..Len(q), Distinct(q)
  PROVE  LET r == RemoveAt(q, i)
         IN  /\ r \in Seq(Nodes) /\ Len(r) = Len(q) - 1
             /\ Distinct(r) /\ Elems(r) = Elems(q) \ {q[i]}
<1> DEFINE a == SubSeq(q, 1, i - 1)
           b == SubSeq(q, i + 1, Len(q))
           r == RemoveAt(q, i)
           g(k) == IF k <= i - 1 THEN k ELSE k + 1
<1>1. Len(q) \in Nat /\ i \in Int /\ 1 <= i /\ i <= Len(q)
  BY LenProperties
<1>2. /\ a \in Seq(Nodes) /\ Len(a) = i - 1
      /\ \A k \in 1..(i - 1) : a[k] = q[k]
  <2>1. \A k \in 1..(i - 1) : q[k] \in Nodes
    BY <1>1, ElementOfSeq
  <2> HIDE DEF a
  <2>2. a \in Seq(Nodes) /\ Len(a) = (IF 1 <= i - 1 THEN i - 1 - 1 + 1 ELSE 0)
        /\ \A k \in 1..(i - 1 - 1 + 1) : a[k] = q[1 + k - 1]
    BY <1>1, <2>1, SubSeqProperties DEF a
  <2> QED BY <1>1, <2>2
<1>3. /\ b \in Seq(Nodes) /\ Len(b) = Len(q) - i
      /\ \A k \in 1..(Len(q) - i) : b[k] = q[i + k]
  <2>1. \A k \in (i + 1)..Len(q) : q[k] \in Nodes
    BY <1>1, ElementOfSeq
  <2>2. b \in Seq(Nodes) /\ Len(b) = (IF i + 1 <= Len(q) THEN Len(q) - (i + 1) + 1 ELSE 0)
        /\ \A k \in 1..(Len(q) - (i + 1) + 1) : b[k] = q[(i + 1) + k - 1]
    BY <1>1, <2>1, SubSeqProperties
  <2> HIDE DEF b
  <2> QED BY <1>1, <2>2
<1>4. r = a \o b
  BY DEF RemoveAt
<1> HIDE DEF a, b, r
<1>5. /\ r \in Seq(Nodes) /\ Len(r) = Len(q) - 1
      /\ \A k \in 1..Len(r) : r[k] = q[g(k)]
  <2>1. /\ a \o b \in Seq(Nodes) /\ Len(a \o b) = Len(a) + Len(b)
        /\ \A k \in 1..(Len(a) + Len(b)) :
              (a \o b)[k] = IF k <= Len(a) THEN a[k] ELSE b[k - Len(a)]
    BY <1>2, <1>3, ConcatProperties
  <2>2. r \in Seq(Nodes) /\ Len(r) = Len(q) - 1
    BY <1>1, <1>2, <1>3, <1>4, <2>1
  <2>3. ASSUME NEW k \in 1..Len(r) PROVE r[k] = q[g(k)]
    <3>1. CASE k <= i - 1
      <4>1. r[k] = a[k] /\ k \in 1..(i - 1)
        BY <1>1, <1>2, <1>3, <1>4, <2>1, <2>2, <3>1
      <4> QED BY <1>2, <3>1, <4>1
    <3>2. CASE ~(k <= i - 1)
      <4>1. r[k] = b[k - (i - 1)] /\ k - (i - 1) \in 1..(Len(q) - i)
        BY <1>1, <1>2, <1>3, <1>4, <2>1, <2>2, <3>2
      <4>2. i + (k - (i - 1)) = k + 1
        BY <1>1, <2>2
      <4> QED BY <1>3, <3>2, <4>1, <4>2
    <3> QED BY <3>1, <3>2
  <2> QED BY <2>2, <2>3
<1>6. \A k \in 1..Len(r) : g(k) \in 1..Len(q) /\ g(k) # i
  BY <1>1, <1>5
<1>7. \A k, m \in 1..Len(r) : g(k) = g(m) => k = m
  BY <1>1, <1>5
<1>8. \A m \in 1..Len(q) : m # i => \E k \in 1..Len(r) : g(k) = m
  <2> TAKE m \in 1..Len(q)
  <2> HAVE m # i
  <2>1. CASE m < i
    BY <1>1, <1>5, <2>1
  <2>2. CASE m > i
    <3>1. m - 1 \in 1..Len(r) /\ g(m - 1) = m
      BY <1>1, <1>5, <2>2
    <3> QED BY <3>1
  <2> QED BY <1>1, <2>1, <2>2
<1> HIDE DEF g
<1>9. Distinct(r)
  BY <1>5, <1>6, <1>7 DEF Distinct
<1>10. Elems(r) = Elems(q) \ {q[i]}
  <2>1. \A x \in Elems(r) : x \in Elems(q) \ {q[i]}
    BY <1>5, <1>6 DEF Elems, Distinct
  <2>2. \A x \in Elems(q) \ {q[i]} : x \in Elems(r)
    <3> SUFFICES ASSUME NEW m \in 1..Len(q), m # i PROVE q[m] \in Elems(r)
      BY DEF Elems
    <3> QED BY <1>5, <1>8 DEF Elems
  <2> QED BY <2>1, <2>2
<1> QED BY <1>5, <1>9, <1>10 DEF r

(* A list is put before another. *)
LEMMA ConcatDoes ==
  ASSUME NEW a \in Seq(Nodes), NEW b \in Seq(Nodes), Distinct(a), Distinct(b),
         \A x \in Elems(a), y \in Elems(b) : x.pid # y.pid
  PROVE  Distinct(a \o b) /\ Elems(a \o b) = Elems(a) \union Elems(b)
<1> DEFINE r == a \o b
<1>1. Len(a) \in Nat /\ Len(b) \in Nat
  BY LenProperties
<1>2. /\ Len(r) = Len(a) + Len(b)
      /\ \A k \in 1..Len(r) : r[k] = IF k <= Len(a) THEN a[k] ELSE b[k - Len(a)]
  BY ConcatProperties
<1> HIDE DEF r
<1>3. \A k \in 1..Len(r) : IF k <= Len(a) THEN k \in 1..Len(a) ELSE k - Len(a) \in 1..Len(b)
  BY <1>1, <1>2
<1>4. \A k \in 1..Len(a) : k \in 1..Len(r) /\ r[k] = a[k]
  BY <1>1, <1>2
<1>5. \A k \in 1..Len(b) : Len(a) + k \in 1..Len(r) /\ r[Len(a) + k] = b[k]
  <2> TAKE k \in 1..Len(b)
  <2>1. Len(a) + k \in 1..Len(r) /\ ~(Len(a) + k <= Len(a)) /\ (Len(a) + k) - Len(a) = k
    BY <1>1, <1>2
  <2> QED BY <1>2, <2>1
<1>6. Elems(r) = Elems(a) \union Elems(b)
  <2>1. \A x \in Elems(r) : x \in Elems(a) \union Elems(b)
    BY <1>2, <1>3 DEF Elems
  <2>2. \A x \in Elems(a) : x \in Elems(r)
    BY <1>4 DEF Elems
  <2>3. \A x \in Elems(b) : x \in Elems(r)
    <3> SUFFICES ASSUME NEW k \in 1..Len(b) PROVE b[k] \in Elems(r)
      BY DEF Elems
    <3>1. Len(a) + k \in 1..Len(r) /\ r[Len(a) + k] = b[k]
      BY <1>5
    <3> QED BY <3>1 DEF Elems
  <2> QED BY <2>1, <2>2, <2>3
<1>7. Distinct(r)
  <2> SUFFICES ASSUME NEW i \in 1..Len(r), NEW j \in 1..Len(r), r[i].pid = r[j].pid
               PROVE  i = j
    BY DEF Distinct
  <2>1. CASE i <= Len(a) /\ j <= Len(a)
    BY <1>2, <1>3, <2>1 DEF Distinct
  <2>2. CASE ~(i <= Len(a)) /\ ~(j <= Len(a))
    <3>1. i - Len(a) \in 1..Len(b) /\ j - Len(a) \in 1..Len(b)
          /\ b[i - Len(a)].pid = b[j - Len(a)].pid
      BY <1>2, <1>3, <2>2
    <3>2. i - Len(a) = j - Len(a)
      BY <3>1 DEF Distinct
    <3> QED BY <1>1, <1>2, <3>2
  <2>3. CASE (i <= Len(a)) # (j <= Len(a))
    BY <1>2, <1>3, <2>3 DEF Elems
  <2> QED BY <2>1, <2>2, <2>3
<1> QED BY <1>6, <1>7 DEF r

(* Only list n is another; what is new in it is of processes without a status. *)
Only(k, l, n) ==
  k \in Seq(Lists) /\ Len(k) = Len(l) /\ \A m \in 1..Len(l) : m # n => k[m] = l[m]
Fits(k, l, n) ==
  \A x \in Elems(k[n].list) : x \in Elems(l[n].list) \/ \A y \in Saves(l) : y.pid # x.pid

(* The list lev is put in the place of list n. *)
Put(l, n, lev) == [l EXCEPT ![n] = lev]
LEMMA PutOnly ==
  ASSUME NEW l \in Seq(Lists), NEW n \in 1..Len(l), NEW lev \in Lists
  PROVE  Only(Put(l, n, lev), l, n) /\ Put(l, n, lev)[n] = lev
BY ExceptSeq, LenProperties DEF Only, Put

(* One list is replaced. *)
LEMMA PutDoes ==
  ASSUME NEW l \in Seq(Lists), Single(l), NEW n \in 1..Len(l),
         NEW k, Only(k, l, n), Distinct(k[n].list), Fits(k, l, n)
  PROVE  Single(k) /\ Swaps(k, l, n)
<1> DEFINE lev == k[n]
<1>1. /\ k \in Seq(Lists) /\ Len(k) = Len(l)
      /\ \A m \in 1..Len(l) : m # n => k[m] = l[m]
  BY DEF Only
<1>2. \A m \in 1..Len(l) : Elems(l[m].list) \subseteq Saves(l)
  BY DEF Saves
<1>3. \A m \in 1..Len(l) : m # n =>
        \A x \in Elems(lev.list), y \in Elems(l[m].list) : x.pid # y.pid
  BY <1>2 DEF Single, Fits
<1>4. Single(k)
  BY <1>1, <1>3 DEF Single
<1>5. Saves(k) = (Saves(l) \ Elems(l[n].list)) \union Elems(lev.list)
  <2>1. \A x \in Saves(k) : x \in (Saves(l) \ Elems(l[n].list)) \union Elems(lev.list)
    <3> SUFFICES ASSUME NEW m \in 1..Len(k), NEW x \in Elems(k[m].list)
                 PROVE  x \in (Saves(l) \ Elems(l[n].list)) \union Elems(lev.list)
      BY DEF Saves
    <3>1. CASE m = n
      BY <1>1, <3>1
    <3>2. CASE m # n
      BY <1>1, <1>2, <3>2 DEF Single
    <3> QED BY <3>1, <3>2
  <2>2. Elems(lev.list) \subseteq Saves(k)
    BY <1>1 DEF Saves
  <2>3. \A x \in Saves(l) \ Elems(l[n].list) : x \in Saves(k)
    BY <1>1 DEF Saves
  <2> QED BY <2>1, <2>2, <2>3
<1> QED BY <1>1, <1>4, <1>5 DEF Swaps

(* What job_chksave finds, when the counts cover the lists. *)
LEMMA HitIs ==
  ASSUME NEW lev, Covered(lev), NEW pid
  PROVE  IF \E x \in Elems(lev.list) : x.pid = pid
         THEN Hit(lev, pid) \in 1..Len(lev.list) /\ lev.list[Hit(lev, pid)].pid = pid
         ELSE Hit(lev, pid) = 0
<1>1. Len(lev.list) \in Nat /\ lev.count \in Nat /\ ~(lev.count < Len(lev.list))
  BY LenProperties DEF Covered, Lists
<1>2. Matches(lev, pid) = { i \in 1..Len(lev.list) : lev.list[i].pid = pid }
  BY <1>1 DEF Matches
<1>3. CASE Matches(lev, pid) # {}
  <2>1. \E i \in Matches(lev, pid) : \A k \in Matches(lev, pid) : i <= k
    BY <1>1, <1>2, <1>3, LeastOf
  <2>2. Hit(lev, pid) \in Matches(lev, pid)
    BY <1>3, <2>1 DEF Hit
  <2> QED BY <1>2, <2>2 DEF Elems
<1>4. CASE Matches(lev, pid) = {}
  BY <1>1, <1>2, <1>4 DEF Hit, Elems
<1> QED BY <1>3, <1>4

(* The counts of the lists below the first are exact, and below the limit. *)
Deep(l) == \A n \in 2..Len(l) : l[n].count = Len(l[n].list) /\ l[n].count <= ChildMax

(* They stay so when one list is replaced. *)
LEMMA DeepPut ==
  ASSUME NEW l \in Seq(Lists), Deep(l), NEW n \in 1..Len(l),
         NEW k, Only(k, l, n),
         n # 1 => k[n].count = Len(k[n].list) /\ k[n].count <= ChildMax
  PROVE  Deep(k)
<1> SUFFICES ASSUME NEW m \in 2..Len(k)
             PROVE  k[m].count = Len(k[m].list) /\ k[m].count <= ChildMax
  BY DEF Deep
<1>1. m \in 1..Len(l) /\ m \in 2..Len(l) /\ m # 1
  BY LenProperties DEF Only
<1> QED BY <1>1 DEF Deep, Only

(* As many nodes fewer as counted. *)
Less(lev, old, d) == lev.count = old.count - d /\ Len(lev.list) = Len(old.list) - d

(* A node goes back to the pool: its status is gone, and no other. *)
LEMMA DropDoes ==
  ASSUME NEW s, StoreOK(s), Single(s.levels),
         NEW n \in 1..Len(s.levels), NEW i \in 1..Len(s.levels[n].list),
         NEW d, d = Drop(s, n, i).levels
  PROVE  /\ Single(d) /\ Loses(d, s.levels, s.levels[n].list[i])
         /\ Less(d[n], s.levels[n], 1)
         /\ \A m \in 1..Len(d) : m # n => d[m] = s.levels[m]
         /\ Deep(s.levels) => Deep(d)
<1> DEFINE l   == s.levels
           old == l[n]
           r   == RemoveAt(old.list, i)
           lev == [count |-> old.count - 1, list |-> r]
           k   == Put(l, n, lev)
<1>1. l \in Seq(Lists) /\ Covered(old) /\ old.list \in Seq(Nodes) /\ old.count \in Nat
  BY DEF StoreOK, Covered, Lists
<1>2. /\ r \in Seq(Nodes) /\ Len(r) = Len(old.list) - 1
      /\ Distinct(r) /\ Elems(r) = Elems(old.list) \ {old.list[i]}
  BY <1>1, RemoveDoes DEF Single
<1>3. Len(old.list) \in Nat /\ Len(l) \in Nat /\ Len(old.list) <= old.count
  BY <1>1, LenProperties DEF Covered
<1>10. n \in 1..Len(l)
  OBVIOUS
<1>4. d = k
  BY DEF Drop, Put
<1> HIDE DEF l, r
<1>5. lev \in Lists /\ Less(lev, old, 1) /\ lev.list = r
  BY <1>1, <1>2, <1>3 DEF Lists, Less
<1> HIDE DEF lev
<1>11. Only(k, l, n) /\ k[n] = lev
  BY <1>1, <1>5, <1>10, PutOnly
<1> HIDE DEF k
<1>6. Single(k) /\ Swaps(k, l, n)
  <2>1. Fits(k, l, n) /\ Distinct(k[n].list)
    BY <1>2, <1>5, <1>11 DEF Fits
  <2> QED BY <1>1, <1>10, <1>11, <2>1, PutDoes DEF l
<1>7. Elems(old.list) \subseteq Saves(l) /\ old.list[i] \in Elems(old.list)
  BY DEF Saves, Elems, l
<1>8. Loses(k, l, old.list[i])
  BY <1>2, <1>5, <1>6, <1>7, <1>11 DEF Loses, Swaps
<1>9. Deep(l) => Deep(k)
  <2> SUFFICES ASSUME Deep(l), n # 1 PROVE lev.count = Len(lev.list) /\ lev.count <= ChildMax
    BY <1>1, <1>10, <1>11, DeepPut
  <2>1. n \in 2..Len(l)
    BY <1>3, <1>10
  <2>2. old.count = Len(old.list) /\ old.count <= ChildMax
    BY <2>1 DEF Deep
  <2>3. lev.count = old.count - 1 /\ Len(lev.list) = Len(old.list) - 1
    BY <1>5 DEF Less
  <2>4. ChildMax \in Nat
    BY LimitAssumption
  <2> HIDE DEF old
  <2> QED BY <1>1, <2>2, <2>3, <2>4
<1> HIDE DEF old
<1> QED BY <1>4, <1>5, <1>6, <1>8, <1>9, <1>11 DEF l, old, Only

(* job_chksave, of a process and an environment, takes the status it finds, *)
(* and leaves the difference between a count and its list as it is.         *)
LEMMA ChkSaveDoes ==
  ASSUME NEW s, StoreOK(s), Single(s.levels), NEW pid, NEW env,
         NEW k, k = ChkSave(s, pid, env).levels
  PROVE  /\ Single(k)
         /\ Forgets(k, s.levels, pid, env)
         /\ Deep(s.levels) => Deep(k)
         /\ k[1] = s.levels[1] \/ Less(k[1], s.levels[1], 1)
         /\ Saved(s, pid, env) => /\ Node(s, pid) \in Saves(s.levels)
                                  /\ Node(s, pid).pid = pid
         /\ ~Saved(s, pid, env) => \A x \in Saves(s.levels) :
                                     x.pid = pid => env # AnyEnv /\ x.env # env
<1> DEFINE l == s.levels
           Asked(x) == x.pid = pid /\ (env = AnyEnv \/ x.env = env)
<1>1. l \in Seq(Lists) /\ Len(l) \in Nat /\ DOMAIN l = 1..Len(l) /\ 1 \in 1..Len(l)
  BY LenProperties, EmptySeq DEF StoreOK
<1>2. \A n \in 1..Len(l) :
        IF \E x \in Elems(l[n].list) : x.pid = pid
        THEN Hit(l[n], pid) \in 1..Len(l[n].list) /\ l[n].list[Hit(l[n], pid)].pid = pid
        ELSE Hit(l[n], pid) = 0
  BY HitIs DEF StoreOK
<1>3. \A n \in 1..Len(l) : Elems(l[n].list) \subseteq Saves(l)
  BY DEF Saves
<1>4. \A x \in Saves(l), y \in Saves(l) : x.pid = y.pid => x = y
  <2> SUFFICES ASSUME NEW n \in 1..Len(l), NEW x \in Elems(l[n].list),
                      NEW m \in 1..Len(l), NEW y \in Elems(l[m].list), x.pid = y.pid
               PROVE  x = y
    <3> HIDE DEF l
    <3> QED BY DEF Saves
  <2>1. n = m
    BY DEF Single
  <2>2. PICK i \in 1..Len(l[n].list), j \in 1..Len(l[n].list) :
          x = l[n].list[i] /\ y = l[n].list[j]
    BY <2>1 DEF Elems
  <2> QED BY <2>2 DEF Single, Distinct
<1>5. CASE Holding(s, pid) = {}
  <2>1. ~Saved(s, pid, env) /\ ChkSave(s, pid, env) = s
    BY <1>5 DEF Saved, ChkSave
  <2>2. \A x \in Saves(l) : x.pid # pid
    BY <1>1, <1>2, <1>5 DEF Holding, Saves
  <2>3. Forgets(k, l, pid, env)
    BY <2>1, <2>2 DEF Forgets
  <2> QED BY <2>1, <2>2, <2>3
<1>6. CASE Holding(s, pid) # {}
  <2> DEFINE n == LevelOf(s, pid)
             i == Hit(l[n], pid)
  <2>1. n \in 1..Len(l) /\ i \in 1..Len(l[n].list) /\ Node(s, pid) = l[n].list[i]
    BY <1>6, NodeFound DEF Node
  <2>2. Node(s, pid).pid = pid /\ Node(s, pid) \in Saves(l)
    <3>1. i # 0
      <4>1. Len(l[n].list) \in Nat
        BY <2>1, LenProperties DEF StoreOK, Covered, Lists
      <4> HIDE DEF i
      <4> QED BY <2>1, <4>1
    <3>2. l[n].list[i] \in Elems(l[n].list)
      BY <2>1 DEF Elems
    <3> HIDE DEF n
    <3> QED BY <1>2, <1>3, <2>1, <3>1, <3>2
  <2>3. CASE Saved(s, pid, env)
    <3>1. ChkSave(s, pid, env) = Drop(s, n, i)
      BY <2>3 DEF ChkSave
    <3>2. Asked(Node(s, pid))
      BY <2>2, <2>3 DEF Saved
    <3> HIDE DEF n, i
    <3>3. /\ Single(k) /\ Loses(k, l, l[n].list[i])
          /\ Less(k[n], l[n], 1) /\ \A m \in 1..Len(k) : m # n => k[m] = l[m]
          /\ Deep(l) => Deep(k)
      <4>1. k = Drop(s, n, i).levels
        BY <3>1
      <4> QED BY <2>1, <4>1, DropDoes
    <3>4. Len(k) = Len(l)
      BY <2>1, <3>1, DropOK
    <3>5. Forgets(k, l, pid, env)
      BY <1>4, <2>1, <2>2, <3>2, <3>3 DEF Loses, Forgets
    <3>6. k[1] = l[1] \/ Less(k[1], l[1], 1)
      BY <1>1, <3>3, <3>4
    <3> QED BY <2>2, <2>3, <3>3, <3>5, <3>6
  <2>4. CASE ~Saved(s, pid, env)
    <3>1. k = l
      BY <2>4 DEF ChkSave
    <3>2. \A x \in Saves(l) : x.pid = pid => env # AnyEnv /\ x.env # env
      BY <1>4, <1>6, <2>2, <2>4 DEF Saved
    <3>3. Forgets(k, l, pid, env)
      BY <3>1, <3>2 DEF Forgets
    <3> QED BY <2>4, <3>1, <3>2, <3>3
  <2> QED BY <2>3, <2>4
<1> QED BY <1>5, <1>6

(* job_chksave(0,-1) takes the oldest status of the list, if there is one. *)
LEMMA EvictDoes ==
  ASSUME NEW s, StoreOK(s), Single(s.levels), NEW k, k = Evict(s).levels
  PROVE  /\ Single(k) /\ Saves(k) \subseteq Saves(s.levels)
         /\ Deep(s.levels) => Deep(k)
         /\ IF s.levels[1].list = <<>> THEN k = s.levels ELSE Less(k[1], s.levels[1], 1)
<1> DEFINE lev == s.levels[1]
<1>1. 1 \in 1..Len(s.levels)
  BY EmptySeq, LenProperties DEF StoreOK
<1>2. Len(lev.list) \in Nat /\ lev.count \in Nat /\ ~(lev.count < Len(lev.list))
      /\ (lev.list = <<>> <=> Len(lev.list) = 0)
  BY <1>1, LenProperties, EmptySeq DEF StoreOK, Covered, Lists
<1>3. Oldest(lev) = Len(lev.list)
  BY <1>2 DEF Oldest
<1>4. CASE Len(lev.list) = 0
  BY <1>2, <1>3, <1>4 DEF Evict
<1>5. CASE Len(lev.list) # 0
  <2>1. Len(lev.list) \in 1..Len(lev.list)
    BY <1>2, <1>5
  <2> DEFINE i == Len(lev.list)
  <2>2. k = Drop(s, 1, i).levels
    BY <1>3, <1>5 DEF Evict
  <2>3. i \in 1..Len(s.levels[1].list)
    BY <2>1
  <2> HIDE DEF i
  <2>4. /\ Single(k) /\ Loses(k, s.levels, s.levels[1].list[i])
        /\ Less(k[1], s.levels[1], 1)
        /\ Deep(s.levels) => Deep(k)
    BY <1>1, <2>2, <2>3, DropDoes
  <2> QED BY <1>2, <1>5, <2>2, <2>4 DEF Loses
<1> QED BY <1>4, <1>5

(* All counts are exact, and below the limit. *)
Tight(l) == Deep(l) /\ l[1].count = Len(l[1].list) /\ l[1].count <= ChildMax

(* The status of a process is the one in node now; others may be gone, or are not. *)
Adds(k, l, node) ==
  /\ node \in Saves(k)
  /\ \A x \in Saves(k) : x = node \/ (x \in Saves(l) /\ x.pid # node.pid)
AddsAll(k, l, node) ==
  Adds(k, l, node) /\ \A x \in Saves(l) : x.pid # node.pid => x \in Saves(k)

(* jobsave_create, of a process: when the counts are exact it deletes the status *)
(* of another process only if the limit is reached all the same.                 *)
LEMMA CreateDoes ==
  ASSUME NEW s, StoreOK(s), Single(s.levels),
         NEW pid \in Pids, NEW env \in Nat, NEW val \in Vals,
         NEW k, k = Create(s, pid, env, val).levels,
         NEW node, node = [pid |-> pid, env |-> env % EnvMod, val |-> val]
  PROVE  /\ Single(k) /\ Adds(k, s.levels, node)
         /\ Tight(s.levels) =>
              /\ Tight(k)
              /\ AddsAll(k, s.levels, node) \/ Len(k[1].list) >= ChildMax
<1> DEFINE l  == s.levels
           c  == ChkSave(s, pid, AnyEnv)
           d  == Counted(c)
           t  == Trimmed(d)
           lc == c.levels
           ld == d.levels
           lt == t.levels
<1>1. /\ StoreOK(c) /\ Len(lc) = Len(l) /\ Single(lc) /\ Forgets(lc, l, pid, AnyEnv)
      /\ Deep(l) => Deep(lc)
      /\ lc[1] = l[1] \/ Less(lc[1], l[1], 1)
  BY ChkSaveOK, ChkSaveDoes
<1> HIDE DEF c
<1>2. /\ StoreOK(d) /\ Len(ld) = Len(lc)
      /\ ld = [lc EXCEPT ![1] = [count |-> lc[1].count + 1, list |-> lc[1].list]]
  BY <1>1, CountedOK
<1> HIDE DEF d
<1>3. /\ lc \in Seq(Lists) /\ ld \in Seq(Lists) /\ 1 \in 1..Len(lc) /\ 1 \in 1..Len(ld)
      /\ Covered(l[1]) /\ Covered(lc[1]) /\ Covered(ld[1])
  BY <1>1, <1>2, EmptySeq, LenProperties DEF StoreOK
<1> HIDE DEF lc, ld
<1>4. Only(ld, lc, 1) /\ ld[1] = [count |-> lc[1].count + 1, list |-> lc[1].list]
  <2> DEFINE lev == [count |-> lc[1].count + 1, list |-> lc[1].list]
  <2>1. lev \in Lists
    <3>1. lc[1].count \in Nat /\ lc[1].list \in Seq(Nodes)
      BY <1>3 DEF Covered, Lists
    <3> QED BY <3>1 DEF Lists
  <2>2. ld = Put(lc, 1, lev)
    BY <1>2 DEF Put
  <2> HIDE DEF lev
  <2>3. Only(ld, lc, 1) /\ ld[1] = lev
    BY <1>3, <2>1, <2>2, PutOnly
  <2> QED BY <2>3 DEF lev
<1>5. Single(ld) /\ Saves(ld) = Saves(lc)
  <2>1. Distinct(ld[1].list) /\ Fits(ld, lc, 1)
    BY <1>1, <1>3, <1>4 DEF Single, Fits
  <2>2. Single(ld) /\ Swaps(ld, lc, 1)
    BY <1>1, <1>3, <1>4, <2>1, PutDoes
  <2>3. Elems(lc[1].list) \subseteq Saves(lc)
    BY <1>3 DEF Saves
  <2> QED BY <1>4, <2>2, <2>3 DEF Swaps
<1>6. Deep(l) => Deep(ld)
  BY <1>1, <1>3, <1>4, DeepPut
<1>7. /\ StoreOK(t) /\ Single(lt) /\ Saves(lt) \subseteq Saves(ld)
      /\ Deep(ld) => Deep(lt)
      /\ IF ld[1].count > ChildMax /\ ld[1].list # <<>> THEN Less(lt[1], ld[1], 1) ELSE lt = ld
  <2>1. CASE ld[1].count > ChildMax
    <3>1. t = Evict(d) /\ lt = Evict(d).levels
      BY <2>1 DEF Trimmed, ld
    <3> HIDE DEF t
    <3> QED BY <1>2, <1>5, <2>1, <3>1, EvictOK, EvictDoes DEF ld
  <2>2. CASE ~(ld[1].count > ChildMax)
    <3>1. t = d
      BY <2>2 DEF Trimmed, ld
    <3> QED BY <1>2, <1>5, <2>2, <3>1 DEF ld
  <2> QED BY <2>1, <2>2
<1>8. k = Added(lt, node)
  BY CreateIs DEF c, d
<1> HIDE DEF t
<1>9. lt \in Seq(Lists) /\ 1 \in 1..Len(lt) /\ Covered(lt[1])
  BY <1>7, EmptySeq, LenProperties DEF StoreOK
<1> HIDE DEF lt
<1>10. node \in Nodes /\ node.pid = pid
  <2>1. env % EnvMod \in 0..(EnvMod - 1)
    BY WidthAssumption
  <2> QED BY <2>1 DEF Nodes
<1>11. /\ <<node>> \in Seq(Nodes) /\ Len(<<node>>) = 1 /\ Elems(<<node>>) = {node}
       /\ Distinct(<<node>>)
  BY <1>10 DEF Elems, Distinct
<1> DEFINE q == <<node>> \o lt[1].list
<1>12. \A x \in Saves(lt) : x \in Saves(l) /\ x.pid # pid
  BY <1>1, <1>5, <1>7 DEF Forgets
<1>13. Elems(lt[1].list) \subseteq Saves(lt) /\ Distinct(lt[1].list)
  BY <1>7, <1>9 DEF Saves, Single
<1>14. /\ q \in Seq(Nodes) /\ Len(q) = 1 + Len(lt[1].list)
       /\ Distinct(q) /\ Elems(q) = {node} \union Elems(lt[1].list)
  <2>1. lt[1].list \in Seq(Nodes)
    BY <1>9 DEF Covered, Lists
  <2>2. \A x \in Elems(<<node>>), y \in Elems(lt[1].list) : x.pid # y.pid
    BY <1>10, <1>11, <1>12, <1>13
  <2>3. Distinct(q) /\ Elems(q) = Elems(<<node>>) \union Elems(lt[1].list)
    BY <1>11, <1>13, <2>1, <2>2, ConcatDoes
  <2>4. q \in Seq(Nodes) /\ Len(q) = Len(<<node>>) + Len(lt[1].list)
    BY <1>11, <2>1, ConcatProperties
  <2> QED BY <1>11, <2>3, <2>4
<1>15. Only(k, lt, 1) /\ k[1] = [count |-> lt[1].count, list |-> q]
  <2> DEFINE lev == [count |-> lt[1].count, list |-> q]
  <2>1. lev \in Lists
    <3> HIDE DEF q
    <3> QED BY <1>9, <1>14 DEF Covered, Lists
  <2>2. k = Put(lt, 1, lev)
    BY <1>8 DEF Added, Put
  <2> HIDE DEF lev
  <2>3. Only(k, lt, 1) /\ k[1] = lev
    BY <1>9, <2>1, <2>2, PutOnly
  <2> QED BY <2>3 DEF lev
<1> HIDE DEF q
<1>16. Single(k) /\ Swaps(k, lt, 1)
  <2>1. Distinct(k[1].list) /\ Fits(k, lt, 1)
    BY <1>10, <1>12, <1>13, <1>14, <1>15 DEF Fits
  <2> QED BY <1>7, <1>9, <1>15, <2>1, PutDoes
<1>17. Saves(k) = Saves(lt) \union {node}
  BY <1>13, <1>14, <1>15, <1>16 DEF Swaps
<1>18. Adds(k, l, node)
  BY <1>10, <1>12, <1>17 DEF Adds
<1>19. ASSUME Tight(l)
       PROVE  Tight(k) /\ (AddsAll(k, l, node) \/ Len(k[1].list) >= ChildMax)
  <2> DEFINE m == lc[1].count
             n == Len(lc[1].list)
  <2>1. ChildMax \in Nat /\ ChildMax > 0
    BY LimitAssumption
  <2>2. m \in Nat /\ m = n /\ m <= ChildMax
    <3>1. l[1].count \in Nat /\ l[1].count = Len(l[1].list) /\ l[1].count <= ChildMax
      BY <1>3, <1>19 DEF Tight, Covered, Lists
    <3>2. m \in Nat
      BY <1>3 DEF Covered, Lists
    <3>3. CASE lc[1] = l[1]
      BY <3>1, <3>3
    <3>4. CASE Less(lc[1], l[1], 1)
      <4>1. m = l[1].count - 1 /\ n = Len(l[1].list) - 1
        BY <3>4 DEF Less
      <4> HIDE DEF m, n
      <4> QED BY <2>1, <3>1, <3>2, <4>1
    <3> QED BY <1>1, <3>3, <3>4
  <2>3. ld[1].count = m + 1 /\ Len(ld[1].list) = n /\ (ld[1].list = <<>> => n = 0)
    BY <1>4, EmptySeq
  <2> HIDE DEF m, n
  <2>4. Deep(k)
    BY <1>6, <1>7, <1>9, <1>15, <1>19, DeepPut DEF Tight
  <2>5. k[1].count = lt[1].count /\ Len(k[1].list) = 1 + Len(lt[1].list)
    BY <1>14, <1>15
  <2>6. CASE m + 1 > ChildMax
    <3>1. lt[1].count = m /\ Len(lt[1].list) = n - 1
      <4>1. lt[1].count = ld[1].count - 1 /\ Len(lt[1].list) = Len(ld[1].list) - 1
        BY <1>7, <2>1, <2>2, <2>3, <2>6 DEF Less
      <4> QED BY <2>2, <2>3, <4>1
    <3> QED BY <2>1, <2>2, <2>4, <2>5, <2>6, <3>1 DEF Tight
  <2>7. CASE ~(m + 1 > ChildMax)
    <3>1. lt = ld
      BY <1>7, <2>3, <2>7
    <3>2. AddsAll(k, l, node)
      BY <1>1, <1>5, <1>10, <1>17, <1>18, <3>1 DEF Forgets, AddsAll
    <3> QED BY <2>1, <2>2, <2>3, <2>4, <2>5, <2>7, <3>1, <3>2 DEF Tight
  <2> QED BY <2>6, <2>7
<1> QED BY <1>16, <1>18, <1>19

(* The list of a subshell joins that of the shell: nothing is lost unless it is *)
(* longer than the limit and one.                                               *)
LEMMA MergedDoes ==
  ASSUME NEW l \in Seq(Lists), Len(l) > 1, \A n \in 1..Len(l) : Covered(l[n]),
         Single(l), NEW k, k = Merged(l)
  PROVE  /\ Single(k) /\ Saves(k) \subseteq Saves(l)
         /\ Tight(l) => /\ Deep(k) /\ k[1].count = Len(k[1].list)
                        /\ Saves(l) \subseteq Saves(k)
<1> DEFINE a == l[1].list
           b == l[2].list
           q == k[1].list
<1>1. /\ k \in Seq(Lists) /\ Len(k) = Len(l) - 1 /\ k[1] = Joined(l[1], l[2])
      /\ \A n \in 2..Len(k) : k[n] = l[n + 1]
  BY MergedIs
<1>2. Len(l) \in Nat /\ 1 \in 1..Len(l) /\ 2 \in 1..Len(l)
      /\ \A n \in 2..Len(k) : n + 1 \in 1..Len(l) /\ n + 1 # 1 /\ n + 1 # 2
  BY <1>1, LenProperties
<1>3. a \in Seq(Nodes) /\ b \in Seq(Nodes) /\ Distinct(a) /\ Distinct(b)
  BY <1>2 DEF Covered, Lists, Single
<1>4. /\ Distinct(a \o b) /\ Elems(a \o b) = Elems(a) \union Elems(b)
      /\ Len(a \o b) = Len(a) + Len(b)
  <2>1. \A x \in Elems(a), y \in Elems(b) : x.pid # y.pid
    BY <1>2 DEF Single
  <2> HIDE DEF a, b
  <2> QED BY <1>3, <2>1, ConcatDoes, ConcatProperties
<1>5. /\ k[1].count = l[1].count + l[2].count
      /\ q = IF Len(a) <= ChildMax + 1 THEN a \o b ELSE b
  BY <1>1 DEF Joined
<1> HIDE DEF a, b, q
<1>6. Distinct(q) /\ Elems(q) \subseteq Elems(a) \union Elems(b)
  BY <1>3, <1>4, <1>5
<1>7. \A n \in 2..Len(k) : \A x \in Elems(q), y \in Elems(l[n + 1].list) : x.pid # y.pid
  BY <1>2, <1>6 DEF Single, a, b
<1>8. Single(k)
  <2>1. \A n \in 1..Len(k) : n = 1 \/ n \in 2..Len(k)
    BY <1>1, <1>2
  <2>2. \A n \in 1..Len(k) : Distinct(k[n].list)
    BY <1>1, <1>2, <1>6, <2>1 DEF Single, q
  <2> SUFFICES ASSUME NEW n \in 1..Len(k), NEW m \in 1..Len(k),
                      NEW x \in Elems(k[n].list), NEW y \in Elems(k[m].list), x.pid = y.pid
               PROVE  n = m
    BY <2>2 DEF Single
  <2>3. CASE n = 1 \/ m = 1
    <3>1. \A i \in 2..Len(k) : \A u \in Elems(k[1].list), v \in Elems(k[i].list) : u.pid # v.pid
      BY <1>1, <1>7 DEF q
    <3> QED BY <2>1, <2>3, <3>1
  <2>4. CASE n \in 2..Len(k) /\ m \in 2..Len(k)
    <3>1. n + 1 = m + 1
      BY <1>1, <1>2, <2>4 DEF Single
    <3> QED BY <1>1, <1>2, <2>4, <3>1
  <2> QED BY <2>1, <2>3, <2>4
<1>9. Saves(k) \subseteq Saves(l)
  <2> SUFFICES ASSUME NEW n \in 1..Len(k), NEW x \in Elems(k[n].list) PROVE x \in Saves(l)
    BY DEF Saves
  <2>1. CASE n = 1
    BY <1>2, <1>6, <2>1 DEF Saves, a, b, q
  <2>2. CASE n # 1
    <3>1. n \in 2..Len(k)
      BY <1>1, <1>2, <2>2
    <3> QED BY <1>1, <1>2, <3>1 DEF Saves
  <2> QED BY <2>1, <2>2
<1>10. ASSUME Tight(l)
       PROVE  Deep(k) /\ k[1].count = Len(q) /\ Saves(l) \subseteq Saves(k)
  <2>1. /\ l[1].count = Len(a) /\ Len(a) <= ChildMax /\ Len(a) \in Nat
        /\ l[2].count = Len(b) /\ Len(b) \in Nat
    <3>1. 2 \in 2..Len(l)
      BY <1>2
    <3> QED BY <1>3, <1>10, <3>1, LenProperties DEF Tight, Deep, a, b
  <2>2. q = a \o b
    BY <1>5, <2>1, LimitAssumption
  <2>3. k[1].count = Len(q)
    BY <1>4, <1>5, <2>1, <2>2
  <2>4. Deep(k)
    <3> SUFFICES ASSUME NEW n \in 2..Len(k)
                 PROVE  k[n].count = Len(k[n].list) /\ k[n].count <= ChildMax
      BY DEF Deep
    <3>1. n + 1 \in 2..Len(l)
      BY <1>1, <1>2
    <3> QED BY <1>1, <1>10, <3>1 DEF Tight, Deep
  <2>5. Saves(l) \subseteq Saves(k)
    <3> SUFFICES ASSUME NEW n \in 1..Len(l), NEW x \in Elems(l[n].list) PROVE x \in Saves(k)
      BY DEF Saves
    <3>1. CASE n = 1 \/ n = 2
      <4>1. x \in Elems(a) \union Elems(b)
        BY <3>1 DEF a, b
      <4>2. x \in Elems(q)
        BY <1>4, <2>2, <4>1
      <4>3. 1 \in 1..Len(k)
        BY <1>1, <1>2
      <4> QED BY <4>2, <4>3 DEF Saves, q
    <3>2. CASE n # 1 /\ n # 2
      <4>1. n - 1 \in 2..Len(k) /\ n - 1 \in 1..Len(k) /\ (n - 1) + 1 = n
        BY <1>1, <1>2, <3>2
      <4>2. k[n - 1] = l[n]
        BY <1>1, <4>1
      <4> QED BY <4>1, <4>2 DEF Saves
    <3> QED BY <3>1, <3>2
  <2> QED BY <2>3, <2>4, <2>5
<1> QED BY <1>8, <1>9, <1>10 DEF q

(* A subshell begins: no status is new. *)
LEMMA OpenedDoes ==
  ASSUME NEW l \in Seq(Lists), Single(l), NEW k, k = Opened(l)
  PROVE  /\ Single(k) /\ Saves(k) = Saves(l)
         /\ Tight(l) /\ l # <<>> => Tight(k)
<1>1. /\ k \in Seq(Lists) /\ Len(k) = Len(l) + 1 /\ k[1] = [count |-> 0, list |-> <<>>]
      /\ \A n \in 2..Len(k) : k[n] = l[n - 1]
  BY OpenedIs
<1>2. Len(l) \in Nat /\ \A n \in 1..Len(k) : n = 1 \/ n \in 2..Len(k)
  BY <1>1, LenProperties
<1>3. Len(k[1].list) = 0 /\ Elems(k[1].list) = {} /\ Distinct(k[1].list) /\ k[1].count = 0
  BY <1>1, EmptySeq DEF Elems, Distinct
<1>4. \A n \in 2..Len(k) : n - 1 \in 1..Len(l)
  BY <1>1, <1>2
<1>5. Single(k)
  <2>1. \A n \in 1..Len(k) : Distinct(k[n].list)
    BY <1>1, <1>2, <1>3, <1>4 DEF Single
  <2> SUFFICES ASSUME NEW n \in 1..Len(k), NEW m \in 1..Len(k),
                      NEW x \in Elems(k[n].list), NEW y \in Elems(k[m].list), x.pid = y.pid
               PROVE  n = m
    BY <2>1 DEF Single
  <2>2. n \in 2..Len(k) /\ m \in 2..Len(k)
    BY <1>2, <1>3
  <2>3. /\ n - 1 \in 1..Len(l) /\ x \in Elems(l[n - 1].list)
        /\ m - 1 \in 1..Len(l) /\ y \in Elems(l[m - 1].list)
    BY <1>1, <1>4, <2>2
  <2>4. n - 1 = m - 1
    BY <2>3 DEF Single
  <2> QED BY <1>1, <1>2, <2>2, <2>4
<1>6. Saves(k) = Saves(l)
  <2>1. ASSUME NEW n \in 1..Len(k), NEW x \in Elems(k[n].list) PROVE x \in Saves(l)
    <3>1. n \in 2..Len(k)
      BY <1>2, <1>3
    <3>2. n - 1 \in 1..Len(l) /\ x \in Elems(l[n - 1].list)
      BY <1>1, <1>4, <3>1
    <3> QED BY <3>2 DEF Saves
  <2>2. ASSUME NEW n \in 1..Len(l), NEW x \in Elems(l[n].list) PROVE x \in Saves(k)
    <3>1. n + 1 \in 2..Len(k) /\ n + 1 \in 1..Len(k) /\ (n + 1) - 1 = n
      BY <1>1, <1>2
    <3>2. k[n + 1] = l[n]
      BY <1>1, <3>1
    <3> QED BY <3>1, <3>2 DEF Saves
  <2>3. Saves(l) \subseteq Saves(k)
    BY <2>2 DEF Saves
  <2>4. Saves(k) \subseteq Saves(l)
    BY <2>1 DEF Saves
  <2> QED BY <2>3, <2>4
<1>7. ASSUME Tight(l), l # <<>> PROVE Tight(k)
  <2> SUFFICES ASSUME NEW n \in 2..Len(k)
               PROVE  k[n].count = Len(k[n].list) /\ k[n].count <= ChildMax
    BY <1>3, LimitAssumption DEF Tight, Deep
  <2>1. n - 1 = 1 \/ n - 1 \in 2..Len(l)
    BY <1>1, <1>2
  <2> QED BY <1>1, <1>7, <2>1 DEF Tight, Deep
<1> QED BY <1>5, <1>6, <1>7

(* job_clear: the statuses of the first list are gone. *)
LEMMA EmptiedDoes ==
  ASSUME NEW s, StoreOK(s), Single(s.levels), NEW k, k = Emptied(s).levels
  PROVE  Single(k) /\ Saves(k) \subseteq Saves(s.levels)
<1> DEFINE l   == s.levels
           lev == [count |-> l[1].count, list |-> <<>>]
<1>1. l \in Seq(Lists) /\ 1 \in 1..Len(l) /\ lev \in Lists
  BY EmptySeq, LenProperties DEF StoreOK, Lists, Covered
<1>2. k = Put(l, 1, lev)
  BY EmptiedOK DEF Put
<1>3. lev.list = <<>>
  OBVIOUS
<1> HIDE DEF l, lev
<1>4. Only(k, l, 1) /\ k[1] = lev
  BY <1>1, <1>2, PutOnly
<1>5. Elems(<<>>) = {} /\ Distinct(<<>>)
  BY EmptySeq DEF Elems, Distinct
<1>6. Single(k) /\ Swaps(k, l, 1)
  <2>1. Single(l) /\ Distinct(k[1].list) /\ Fits(k, l, 1)
    BY <1>3, <1>4, <1>5 DEF Fits, l
  <2> QED BY <1>1, <1>4, <2>1, PutDoes
<1> QED BY <1>3, <1>4, <1>5, <1>6 DEF Swaps, l

(***************************************************************************)
(* The inductive invariant.                                                *)
(***************************************************************************)
\* No process of the table has a status in the lists.
Apart(l, t) == \A x \in Saves(l) : x.pid \notin DOMAIN t

\* What the shell that never forked knows of its counts.
Exact(l, at) ==
  forks = 0 => /\ Deep(l) /\ l[1].count = Len(l[1].list)
               /\ at # "trim" => l[1].count <= ChildMax

ListsOnce == Single(store.levels) /\ Apart(store.levels, job) /\ Exact(store.levels, pc)

\* A process this shell waits for has not ended, one that ended has P_DONE, and
\* job.toclear is set in the child of a fork only, before it starts a process.
JobsOnce ==
  /\ \A p \in mine : p \in DOMAIN job => ~Ended(p)
  /\ \A p \in DOMAIN job : Ended(p) => job[p].done
  /\ toclear => mine = {} /\ forks > 0

Once == IInv /\ ListsOnce /\ JobsOnce

(* Every step keeps what is known of the table. *)
LEMMA JobsOnceSteps ==
  ASSUME IInv, JobsOnce, [Next]_vars
  PROVE  JobsOnce'
<1> USE DEF JobsOnce, Ended
<1>1. ASSUME NEW p \in Pids, Start(p)
      PROVE  JobsOnce'
  <2>1. job' = [q \in DOMAIN ClearedJobs \union {p} |-> IF q = p THEN Posted(curenv) ELSE job[q]]
        /\ mine' = mine \union {p} /\ toclear' = FALSE
    BY <1>1 DEF Start
  <2>2. \A q \in DOMAIN ClearedJobs : q \in DOMAIN job
    BY DEF ClearedJobs
  <2>3. job'[p].st = Running
    BY <2>1 DEF Posted
  <2>4. \A q \in DOMAIN job' : q # p => q \in DOMAIN job /\ job'[q] = job[q]
    BY <2>1, <2>2
  <2> QED BY <2>1, <2>3, <2>4
<1>2. ASSUME NEW p \in Pids, NEW v \in Vals, Reap(p, v)
      PROVE  JobsOnce'
  <2>1. /\ job' = [job EXCEPT ![p] = [@ EXCEPT !.st = v, !.done = TRUE]] /\ p \in DOMAIN job
        /\ mine' = mine \ {p} /\ UNCHANGED <<toclear, forks>>
    BY <1>2 DEF Reap, shell
  <2>2. job'[p].done /\ \A q \in DOMAIN job' : q # p => q \in DOMAIN job /\ job'[q] = job[q]
    BY <2>1 DEF IInv, JobsOK, Jobs
  <2> QED BY <2>1, <2>2
<1>3. ASSUME NEW p \in Pids, NEW v \in Vals, ReapUnknown(p, v)
      PROVE  JobsOnce'
  BY <1>3 DEF ReapUnknown, ClearedJobs, shell
<1>4. ASSUME NEW p \in Pids, WaitOf(p) \/ Unpost(p)
      PROVE  JobsOnce'
  <2>0. UNCHANGED <<mine, toclear, forks>>
    BY <1>4 DEF WaitOf, WaitSaved, WaitForeign, WaitNoChild, WaitJob, WaitEarly, Unpost, shell
  <2>1. CASE WaitSaved(p) \/ WaitForeign(p) \/ WaitNoChild(p)
    BY <2>0, <2>1 DEF WaitSaved, WaitForeign, WaitNoChild
  <2>2. CASE WaitJob(p) \/ Unpost(p)
    <3>1. job' = [q \in DOMAIN job \ {p} |-> job[q]]
      BY <2>2 DEF WaitJob, Unpost, Without, Restrict
    <3> QED BY <2>0, <3>1
  <2>3. CASE WaitEarly(p)
    <3>1. job' = [job EXCEPT ![p] = [@ EXCEPT !.save = FALSE]] /\ p \in DOMAIN job
      BY <2>3 DEF WaitEarly
    <3>2. DOMAIN job' = DOMAIN job
          /\ \A q \in DOMAIN job : job'[q].st = job[q].st /\ job'[q].done = job[q].done
      BY <3>1 DEF IInv, JobsOK, Jobs
    <3> QED BY <2>0, <3>2
  <2> QED BY <1>4, <2>1, <2>2, <2>3 DEF WaitOf
<1>5. CASE WaitAll \/ Restored
  <2>1. /\ DOMAIN job' = DOMAIN job /\ UNCHANGED <<mine, toclear, forks>>
        /\ \A q \in DOMAIN job : job'[q].st = job[q].st /\ (job[q].done => job'[q].done)
    <3>1. CASE WaitAll
      <4>1. job' = [p \in DOMAIN job |-> [job[p] EXCEPT !.done = TRUE]]
        BY <3>1 DEF WaitAll
      <4>2. DOMAIN job' = DOMAIN job /\ \A q \in DOMAIN job : job'[q].st = job[q].st /\ job'[q].done
        BY <4>1 DEF IInv, JobsOK, Jobs
      <4> QED BY <3>1, <4>2 DEF WaitAll, shell
    <3>2. CASE Restored
      <4>1. job' = [p \in DOMAIN job |-> [job[p] EXCEPT !.done = @ \/ job[p].env = curenv]]
        BY <3>2 DEF Restored
      <4>2. DOMAIN job' = DOMAIN job
            /\ \A q \in DOMAIN job : job'[q].st = job[q].st /\ (job[q].done => job'[q].done)
        BY <4>1 DEF IInv, JobsOK, Jobs
      <4> QED BY <3>2, <4>2 DEF Restored
    <3> QED BY <1>5, <3>1, <3>2
  <2> QED BY <2>1
<1>6. ASSUME NEW clear \in BOOLEAN, Fork(clear)
      PROVE  JobsOnce'
  <2>1. mine' = {} /\ forks' = forks + 1 /\ job' = IF clear THEN <<>> ELSE job
    BY <1>6 DEF Fork
  <2>2. forks' > 0
    BY <2>1, BoundAssumption DEF IInv, ShellOK
  <2> QED BY <2>1, <2>2
<1>7. CASE Sweep \/ SweepDone \/ Trim \/ TrimDone \/ Leave
  BY <1>7 DEF Sweep, SweepDone, Trim, TrimDone, Leave, shell
<1>8. ASSUME NEW share \in Shares, Enter(share)
      PROVE  JobsOnce'
  BY <1>8 DEF Enter
<1>9. CASE UNCHANGED vars
  BY <1>9 DEF vars, shell
<1> QED
  BY <1>1, <1>2, <1>3, <1>4, <1>5, <1>6, <1>7, <1>8, <1>9 DEF Next, Loop

(***************************************************************************)
(* What the operations that use the lists do to them.                      *)
(***************************************************************************)
\* The node is new, and what had to go for it went for want of room.
Takes(k, l, node) ==
  /\ Single(k) /\ Adds(k, l, node)
  /\ Tight(l) => Tight(k) /\ (AddsAll(k, l, node) \/ Len(k[1].list) >= ChildMax)

\* The status of a process, if there is one of the environment, is gone.
Clears(k, l, pid, env) ==
  Single(k) /\ Forgets(k, l, pid, env) /\ (Tight(l) => Tight(k))

\* What is saved of a process of the table t that has ended.
NodeOf(t, p) == [pid |-> p, env |-> t[p].env % EnvMod, val |-> t[p].st]

(* job_chksave. *)
LEMMA Clearing ==
  ASSUME NEW s, StoreOK(s), Single(s.levels), NEW pid, NEW env,
         NEW k, k = ChkSave(s, pid, env).levels
  PROVE  Clears(k, s.levels, pid, env) /\ StoreOK(ChkSave(s, pid, env))
<1>1. StoreOK(ChkSave(s, pid, env))
  BY ChkSaveOK
<1>2. /\ Single(k) /\ Forgets(k, s.levels, pid, env)
      /\ Deep(s.levels) => Deep(k)
  BY ChkSaveDoes
<1>3. k[1] = s.levels[1] \/ Less(k[1], s.levels[1], 1)
  BY ChkSaveDoes
<1>4. ASSUME Tight(s.levels) PROVE Tight(k)
  <2>1. 1 \in 1..Len(s.levels)
    BY EmptySeq, LenProperties DEF StoreOK
  <2>2. s.levels[1].count \in Nat /\ ChildMax \in Nat
    BY <2>1, LimitAssumption DEF StoreOK, Covered, Lists
  <2>3. s.levels[1].count = Len(s.levels[1].list) /\ s.levels[1].count <= ChildMax
    BY <1>4 DEF Tight
  <2>4. k[1].count = Len(k[1].list) /\ k[1].count <= ChildMax
    <3> DEFINE c == s.levels[1].count
               n == Len(s.levels[1].list)
    <3> HIDE DEF c, n
    <3>1. c \in Nat /\ c = n /\ c <= ChildMax
      BY <2>2, <2>3 DEF c, n
    <3>2. \/ k[1].count = c /\ Len(k[1].list) = n
          \/ k[1].count = c - 1 /\ Len(k[1].list) = n - 1
      BY <1>3 DEF c, n, Less
    <3> QED BY <2>2, <3>1, <3>2
  <2> QED BY <1>2, <1>4, <2>4 DEF Tight
<1> QED BY <1>1, <1>2, <1>4 DEF Clears

(* jobsave_create. *)
LEMMA Creating ==
  ASSUME NEW s, StoreOK(s), Single(s.levels),
         NEW pid \in Pids, NEW env \in Nat, NEW val \in Vals,
         NEW k, k = Create(s, pid, env, val).levels,
         NEW node, node = [pid |-> pid, env |-> env % EnvMod, val |-> val]
  PROVE  Takes(k, s.levels, node)
BY CreateDoes DEF Takes

(* job_unpost. *)
LEMMA Unposting ==
  ASSUME NEW s, StoreOK(s), Single(s.levels), NEW t, JobsOK(t),
         NEW p \in DOMAIN t, t[p].st # Running,
         NEW k, k = Unposted(s, t, p).levels
  PROVE  /\ StoreOK(Unposted(s, t, p))
         /\ IF t[p].save THEN Takes(k, s.levels, NodeOf(t, p)) ELSE k = s.levels
<1>1. p \in Pids /\ t[p].env \in Nat /\ t[p].st \in Vals
  BY BoundAssumption DEF JobsOK, Jobs, Envs
<1>2. CASE t[p].save
  <2>1. Unposted(s, t, p) = Create(s, p, t[p].env, t[p].st)
    BY <1>2 DEF Unposted
  <2>2. StoreOK(Create(s, p, t[p].env, t[p].st))
    BY <1>1, CreateOK
  <2>3. Takes(k, s.levels, NodeOf(t, p))
    BY <1>1, <2>1, Creating DEF NodeOf
  <2> QED BY <1>2, <2>1, <2>2, <2>3
<1>3. CASE ~t[p].save
  BY <1>3 DEF Unposted
<1> QED BY <1>2, <1>3

(* What is there before job_post deletes the status of its process: the lists *)
(* after job_clear and job_unpost of an old job with the same number.          *)
Started(p) ==
  LET s0 == Refill(Cleared(store))
  IN  IF p \in DOMAIN ClearedJobs /\ ClearedJobs[p].st # Running
      THEN Unposted(s0, ClearedJobs, p) ELSE s0

(* job_post, for a process that may have the number of an old job. *)
LEMMA Starting ==
  ASSUME IInv, ListsOnce, NEW p \in Pids, Start(p), NEW m, m = Started(p).levels
  PROVE  /\ StoreOK(Started(p)) /\ Clears(store'.levels, m, p, AnyEnv)
         /\ toclear => Single(m) /\ Saves(m) \subseteq Saves(store.levels)
         /\ ~toclear => \/ m = store.levels
                        \/ p \in DOMAIN job /\ Ended(p) /\ Takes(m, store.levels, NodeOf(job, p))
<1> DEFINE s0 == Refill(Cleared(store))
           s1 == Started(p)
<1>1. StoreOK(store) /\ JobsOK(job) /\ Single(store.levels)
  BY DEF IInv, ListsOnce
<1>2. /\ StoreOK(s0) /\ Single(s0.levels)
      /\ IF toclear THEN Saves(s0.levels) \subseteq Saves(store.levels)
                    ELSE s0.levels = store.levels
  <2>1. CASE toclear
    <3>1. StoreOK(Emptied(store)) /\ s0 = Refill(Emptied(store))
      BY <1>1, <2>1, EmptiedOK DEF Cleared
    <3>2. StoreOK(s0) /\ s0.levels = Emptied(store).levels
      BY <3>1, EmptiedOK
    <3> QED BY <1>1, <2>1, <3>2, EmptiedDoes
  <2>2. CASE ~toclear
    BY <1>1, <2>2, EmptiedOK DEF Cleared
  <2> QED BY <2>1, <2>2
<1> HIDE DEF s0
<1>3. /\ StoreOK(s1) /\ Single(m)
      /\ \/ m = s0.levels
         \/ ~toclear /\ p \in DOMAIN job /\ Ended(p) /\ Takes(m, s0.levels, NodeOf(job, p))
  <2>1. CASE ~toclear /\ p \in DOMAIN job /\ Ended(p)
    <3>1. s1 = Unposted(s0, job, p)
      BY <2>1 DEF Started, ClearedJobs, Ended, s0
    <3>2. /\ StoreOK(s1)
          /\ IF job[p].save THEN Takes(m, s0.levels, NodeOf(job, p)) ELSE m = s0.levels
      BY <1>1, <1>2, <2>1, <3>1, Unposting DEF Ended
    <3> QED BY <1>2, <2>1, <3>2 DEF Takes
  <2>2. CASE ~(~toclear /\ p \in DOMAIN job /\ Ended(p))
    <3>1. ~(p \in DOMAIN ClearedJobs /\ ClearedJobs[p].st # Running)
      BY <2>2 DEF ClearedJobs, Ended
    <3> QED BY <1>2, <3>1 DEF Started, s0
  <2> QED BY <2>1, <2>2
<1>4. Clears(store'.levels, m, p, AnyEnv)
  <2>1. store' = ChkSave(ChkSave(s1, p, curenv), p, AnyEnv)
    BY DEF Start, Dropped, Started
  <2> DEFINE c == ChkSave(s1, p, curenv)
  <2> HIDE DEF s1
  <2>2. StoreOK(c) /\ Clears(c.levels, m, p, curenv)
    BY <1>3, Clearing DEF s1
  <2>3. Single(c.levels)
    BY <2>2 DEF Clears
  <2> HIDE DEF c
  <2>4. Clears(store'.levels, c.levels, p, AnyEnv)
    BY <2>1, <2>2, <2>3, Clearing DEF c
  <2> QED BY <2>2, <2>4 DEF Clears, Forgets
<1> QED BY <1>2, <1>3, <1>4

(* job_reap of a process that is not on the table. *)
LEMMA Reaping ==
  ASSUME IInv, ListsOnce, JobsOnce, NEW p \in Pids, NEW v \in Vals, ReapUnknown(p, v),
         NEW node, node = [pid |-> p, env |-> curenv % EnvMod, val |-> v]
  PROVE  Takes(store'.levels, store.levels, node)
<1>1. StoreOK(store) /\ Single(store.levels) /\ curenv \in Nat
  BY BoundAssumption DEF IInv, ListsOnce, ShellOK, Envs
<1>2. ~toclear /\ store' = Create(Forgotten(p, v), p, curenv, v)
  BY DEF ReapUnknown, JobsOnce, Cleared
<1> DEFINE s == Forgotten(p, v)
<1>3. StoreOK(s) /\ (s.levels = store.levels \/ Clears(s.levels, store.levels, p, AnyEnv))
  BY <1>1, Clearing DEF Forgotten
<1> HIDE DEF s
<1>4. Takes(store'.levels, s.levels, node)
  <2>1. Single(s.levels)
    BY <1>1, <1>3 DEF Clears
  <2> QED BY <1>1, <1>2, <1>3, <2>1, Creating DEF s
<1>5. CASE Clears(s.levels, store.levels, p, AnyEnv)
  <2>1. node.pid = p
    OBVIOUS
  <2>2. Saves(s.levels) = { x \in Saves(store.levels) : x.pid # p }
    BY <1>5 DEF Clears, Forgets
  <2>3. Adds(store'.levels, store.levels, node)
    BY <1>4, <2>1, <2>2 DEF Takes, Adds
  <2>4. AddsAll(store'.levels, s.levels, node) => AddsAll(store'.levels, store.levels, node)
    BY <2>1, <2>2, <2>3 DEF AddsAll
  <2> QED BY <1>4, <1>5, <2>3, <2>4 DEF Takes, Clears
<1> QED BY <1>3, <1>4, <1>5

(* Outside the loop that trims, exact counts are below the limit. *)
LEMMA ExactTight ==
  ASSUME NEW l, NEW at, at # "trim"
  PROVE  Exact(l, at) <=> (forks = 0 => Tight(l))
BY DEF Exact, Tight

(* Every step keeps what is known of the lists. *)
LEMMA ListsOnceSteps ==
  ASSUME Once, [Next]_vars
  PROVE  ListsOnce'
<1> DEFINE l == store.levels
           k == store'.levels
<1>0. /\ StoreOK(store) /\ JobsOK(job) /\ Single(l) /\ Apart(l, job) /\ Exact(l, pc)
      /\ IInv /\ ListsOnce /\ JobsOnce
  BY DEF Once, IInv, ListsOnce
<1>1. ASSUME NEW p \in Pids, Start(p)
      PROVE  ListsOnce'
  <2> DEFINE m == Started(p).levels
  <2>1. /\ Clears(k, m, p, AnyEnv)
        /\ toclear => Single(m) /\ Saves(m) \subseteq Saves(l)
        /\ ~toclear => \/ m = l
                       \/ p \in DOMAIN job /\ Ended(p) /\ Takes(m, l, NodeOf(job, p))
    BY <1>0, <1>1, Starting
  <2> HIDE DEF m
  <2>2. pc = "run" /\ pc' = "run" /\ forks' = forks /\ (forks = 0 => ~toclear)
    BY <1>0, <1>1 DEF Start, shell, JobsOnce
  <2>3. forks = 0 => Tight(l)
    BY <1>0, <2>2, ExactTight
  <2>4. forks = 0 => Tight(k)
    BY <2>1, <2>2, <2>3 DEF Clears, Takes
  <2>5. \A x \in Saves(k) : x \in Saves(m) /\ x.pid # p
    BY <2>1 DEF Clears, Forgets
  <2>6. \A x \in Saves(m) : x \in Saves(l) \/ x.pid = p
    BY <2>1 DEF Takes, Adds, NodeOf
  <2>7. \A q \in DOMAIN job' : q = p \/ q \in DOMAIN job
    BY <1>1 DEF Start, ClearedJobs
  <2>8. Apart(k, job')
    BY <1>0, <2>5, <2>6, <2>7 DEF Apart
  <2> QED BY <2>1, <2>2, <2>4, <2>8, ExactTight DEF ListsOnce, Clears, Exact, Tight
<1>2. ASSUME NEW p \in Pids, NEW v \in Vals, Reap(p, v)
      PROVE  ListsOnce'
  <2>1. DOMAIN job' = DOMAIN job /\ forks' = forks /\ pc' = "run" /\ pc = "run"
        /\ store' = Forgotten(p, v)
    BY <1>2 DEF Reap, shell
  <2>2. k = l \/ Clears(k, l, p, AnyEnv)
    BY <1>0, <2>1, Clearing DEF Forgotten
  <2>3. Single(k) /\ Saves(k) \subseteq Saves(l) /\ (Tight(l) => Tight(k))
    BY <1>0, <2>2 DEF Clears, Forgets
  <2> QED BY <1>0, <2>1, <2>3 DEF ListsOnce, Exact, Tight, Apart
<1>3. ASSUME NEW p \in Pids, NEW v \in Vals, ReapUnknown(p, v)
      PROVE  ListsOnce'
  <2> DEFINE node == [pid |-> p, env |-> curenv % EnvMod, val |-> v]
  <2>1. Takes(k, l, node)
    BY <1>0, <1>3, Reaping
  <2>2. node.pid = p
    OBVIOUS
  <2> HIDE DEF node
  <2>3. job' = job /\ forks' = forks /\ pc' = "run" /\ pc = "run" /\ p \notin DOMAIN job
    BY <1>0, <1>3 DEF ReapUnknown, shell, JobsOnce, ClearedJobs
  <2> QED BY <1>0, <2>1, <2>2, <2>3 DEF ListsOnce, Exact, Tight, Apart, Takes, Adds
<1>4. ASSUME NEW p \in Pids, WaitOf(p)
      PROVE  ListsOnce'
  <2>1. /\ DOMAIN job' \subseteq DOMAIN job /\ forks' = forks
        /\ pc = "run" /\ pc' # "trim"
        /\ store' = store \/ store' = ChkSave(store, p, curenv)
    BY <1>4 DEF WaitOf, WaitSaved, WaitForeign, WaitNoChild, WaitJob, WaitEarly,
                shell, Without, Restrict
  <2>2. k = l \/ Clears(k, l, p, curenv)
    BY <1>0, <2>1, Clearing
  <2>3. Single(k) /\ Saves(k) \subseteq Saves(l) /\ (Tight(l) => Tight(k))
    BY <1>0, <2>2 DEF Clears, Forgets
  <2> QED BY <1>0, <2>1, <2>3 DEF ListsOnce, Exact, Tight, Apart
<1>5. ASSUME NEW p \in Pids, Unpost(p)
      PROVE  ListsOnce'
  <2>1. /\ p \in DOMAIN job /\ job[p].st # Running /\ pc' = pc /\ forks' = forks
        /\ pc # "trim" /\ store' = Unposted(store, job, p)
        /\ DOMAIN job' = DOMAIN job \ {p}
    BY <1>5 DEF Unpost, Leaving, Ended, shell, Without, Restrict
  <2>2. k = l \/ Takes(k, l, NodeOf(job, p))
    BY <1>0, <2>1, Unposting
  <2>3. NodeOf(job, p).pid = p
    BY DEF NodeOf
  <2> QED BY <1>0, <2>1, <2>2, <2>3 DEF ListsOnce, Exact, Tight, Apart, Takes, Adds
<1>6. CASE Trim
  <2>1. /\ store' = Evict(store) /\ pc = "trim" /\ pc' = pc /\ forks' = forks /\ job' = job
        /\ l[1].count > ChildMax
    BY <1>6 DEF Trim, Overfull, shell
  <2>2. /\ Single(k) /\ Saves(k) \subseteq Saves(l)
        /\ Deep(l) => Deep(k)
    BY <1>0, <2>1, EvictDoes
  <2>3. IF l[1].list = <<>> THEN k = l ELSE Less(k[1], l[1], 1)
    BY <1>0, <2>1, EvictDoes
  <2> HIDE DEF l, k
  <2> QED BY <1>0, <2>1, <2>2, <2>3 DEF ListsOnce, Exact, Apart, Less, l, k
<1>7. CASE Leave
  <2>0. Len(l) > floor /\ floor \in Nat /\ floor >= 1 /\ Len(l) \in Nat
    BY <1>0, <1>7, LenProperties DEF Leave, StoreOK, IInv, ShellOK
  <2>1. /\ store'.levels = Merged(l) /\ pc = "run" /\ pc' = "trim" /\ forks' = forks
        /\ job' = job /\ Len(l) > 1
    <3>1. store'.levels = Merged(l)
      BY <1>7 DEF Leave, Merged
    <3> QED BY <1>7, <2>0, <3>1 DEF Leave, shell
  <2>2. /\ Single(k) /\ Saves(k) \subseteq Saves(l)
        /\ Tight(l) => /\ Deep(k) /\ k[1].count = Len(k[1].list)
                       /\ Saves(l) \subseteq Saves(k)
    BY <1>0, <2>1, MergedDoes DEF StoreOK
  <2> QED BY <1>0, <2>1, <2>2 DEF ListsOnce, Exact, Tight, Apart
<1>8. ASSUME NEW share \in Shares, Enter(share)
      PROVE  ListsOnce'
  <2>1. store'.levels = Opened(l) /\ pc = "run" /\ pc' = pc /\ forks' = forks /\ job' = job
    BY <1>8 DEF Enter, Opened
  <2>2. /\ Single(k) /\ Saves(k) = Saves(l)
        /\ Tight(l) => Tight(k)
    BY <1>0, <2>1, OpenedDoes DEF StoreOK
  <2> QED BY <1>0, <2>1, <2>2 DEF ListsOnce, Exact, Tight, Apart
<1>9. ASSUME NEW clear \in BOOLEAN, Fork(clear)
      PROVE  ListsOnce'
  <2>1. /\ forks' # 0 /\ pc' = pc
        /\ DOMAIN job' \subseteq DOMAIN job
        /\ store' = store \/ store' = Emptied(store)
    BY <1>0, <1>9, BoundAssumption DEF Fork, IInv, ShellOK
  <2>2. Single(k) /\ Saves(k) \subseteq Saves(l)
    BY <1>0, <2>1, EmptiedDoes
  <2> QED BY <1>0, <2>1, <2>2 DEF ListsOnce, Exact, Apart
<1>10. CASE WaitAll \/ Sweep \/ SweepDone \/ TrimDone \/ Restored \/ UNCHANGED vars
  <2>1. /\ store' = store /\ forks' = forks /\ DOMAIN job' = DOMAIN job
        /\ pc' = pc \/ (pc # "trim" /\ pc' # "trim") \/ ~Overfull
    BY <1>10 DEF WaitAll, Sweep, SweepDone, TrimDone, Restored, shell, vars
  <2>2. 1 \in 1..Len(l) /\ Covered(l[1])
    BY <1>0, EmptySeq, LenProperties DEF StoreOK
  <2>3. l[1].count \in Nat /\ ChildMax \in Nat
    BY <2>2, LimitAssumption DEF Covered, Lists
  <2> QED BY <1>0, <2>1, <2>3 DEF ListsOnce, Exact, Apart, Overfull
<1> QED
  BY <1>1, <1>2, <1>3, <1>4, <1>5, <1>6, <1>7, <1>8, <1>9, <1>10 DEF Next, Loop

(* The shell starts with nothing saved, and no job. *)
LEMMA OnceInitially == Init => Once
<1> SUFFICES ASSUME Init PROVE Once
  OBVIOUS
<1> DEFINE new == [count |-> 0, list |-> <<>>]
           l   == <<new>>
<1>1. store.levels = l
  BY DEF Init
<1>2. new.count = 0 /\ new.list = <<>>
  OBVIOUS
<1>3. Elems(<<>>) = {} /\ Distinct(<<>>) /\ Len(<<>>) = 0
  BY EmptySeq DEF Elems, Distinct
<1> HIDE DEF new
<1>4. 1..Len(l) = {1} /\ l[1] = new /\ 2..Len(l) = {}
  OBVIOUS
<1> HIDE DEF l
<1>5. Saves(l) = {} /\ Single(l) /\ Tight(l)
  BY <1>2, <1>3, <1>4, LimitAssumption DEF Saves, Single, Tight, Deep
<1>6. job = <<>> /\ toclear = FALSE /\ pc = "run" /\ forks = 0
  BY DEF Init
<1>7. ListsOnce
  BY <1>1, <1>5, <1>6 DEF ListsOnce, Apart, Exact, Tight
<1>8. JobsOnce
  BY <1>6 DEF JobsOnce
<1> QED BY <1>7, <1>8, Initially DEF Once

(* Every step keeps the inductive invariant. *)
LEMMA OnceSteps == Once /\ [Next]_vars => Once'
<1> SUFFICES ASSUME Once, [Next]_vars PROVE Once'
  OBVIOUS
<1>1. IInv /\ JobsOnce
  BY DEF Once
<1>2. IInv'
  BY <1>1, JobSteps, ShellSteps DEF IInv
<1>3. JobsOnce' /\ ListsOnce'
  BY <1>1, JobsOnceSteps, ListsOnceSteps
<1> QED BY <1>2, <1>3 DEF Once

(* A position is that of a status. *)
LEMMA AtIs ==
  ASSUME IInv, NEW x \in Positions
  PROVE  /\ x[1] \in 1..Len(store.levels) /\ x[2] \in 1..Len(store.levels[x[1]].list)
         /\ x = <<x[1], x[2]>>
         /\ At(x) \in Elems(store.levels[x[1]].list) /\ At(x) \in Saves(store.levels)
<1>1. x[1] \in Int /\ x[1] >= 1 /\ x[2] \in Int /\ x[2] >= 1 /\ x = <<x[1], x[2]>>
      /\ x[1] <= Len(store.levels) /\ x[2] <= Len(store.levels[x[1]].list)
  BY DEF Positions
<1>2. Len(store.levels) \in Nat
  BY LenProperties DEF IInv, StoreOK
<1>3. x[1] \in 1..Len(store.levels)
  BY <1>1, <1>2
<1>4. Len(store.levels[x[1]].list) \in Nat
  BY <1>3, LenProperties DEF IInv, StoreOK, Covered, Lists
<1>5. x[2] \in 1..Len(store.levels[x[1]].list)
  BY <1>1, <1>4
<1> QED BY <1>1, <1>3, <1>5 DEF At, Elems, Saves

(* A process has one status at most, in one list of the chain or on the table, *)
(* whatever numbers the system gives to new processes and however the shell    *)
(* nests and forks: what job_post, jobsave_create and job_reap delete first is *)
(* all there is.                                                               *)
THEOREM UniquePidsHolds == Spec => []UniquePids
<1>1. Once => UniquePids
  <2> SUFFICES ASSUME Once PROVE UniquePids
    OBVIOUS
  <2>1. IInv /\ Single(store.levels) /\ Apart(store.levels, job)
    BY DEF Once, ListsOnce
  <2>2. ASSUME NEW x \in Positions, NEW y \in Positions, At(x).pid = At(y).pid
        PROVE  x = y
    <3>1. x[1] = y[1]
      BY <2>1, <2>2, AtIs DEF Single
    <3>2. x[2] = y[2]
      <4>1. Distinct(store.levels[x[1]].list)
        BY <2>1, AtIs DEF Single
      <4> QED BY <2>1, <2>2, <3>1, <4>1, AtIs DEF Distinct, At
    <3> QED BY <2>1, <3>1, <3>2, AtIs
  <2> QED BY <2>1, <2>2, AtIs DEF UniquePids, Apart
<1> QED
  BY OnceInitially, OnceSteps, <1>1, PTL DEF Spec

(***************************************************************************)
(* The statuses the shell knows, as the function of the abstract module.   *)
(***************************************************************************)
\* The status of a process of the table t, those of all that ended, and with the
\* lists l all that are known.
Status(t, p) == [pid |-> p, env |-> t[p].env, val |-> t[p].st]
Rest(t)      == { p \in DOMAIN t : t[p].st # Running }
Stat(l, t)   == Saves(l) \union { Status(t, p) : p \in Rest(t) }

One(F)    == \A x, y \in F : x.pid = y.pid => x = y
PidsOf(F) == { x.pid : x \in F }
Of(F, p)  == CHOOSE x \in F : x.pid = p
FnOf(F)   == [p \in PidsOf(F) |-> [env |-> Of(F, p).env, val |-> Of(F, p).val]]

(* The function gives what the status of a process says. *)
LEMMA FnAt ==
  ASSUME NEW F, One(F), NEW x \in F
  PROVE  /\ x.pid \in DOMAIN FnOf(F) /\ DOMAIN FnOf(F) = PidsOf(F)
         /\ FnOf(F)[x.pid] = [env |-> x.env, val |-> x.val]
<1>1. Of(F, x.pid) \in F /\ Of(F, x.pid).pid = x.pid
  BY DEF Of
<1>2. Of(F, x.pid) = x
  BY <1>1 DEF One
<1>3. x.pid \in PidsOf(F)
  BY DEF PidsOf
<1> QED BY <1>2, <1>3 DEF FnOf

(* Fewer statuses: the function restricted. *)
LEMMA FnSub ==
  ASSUME NEW F, One(F), NEW G, G \subseteq F
  PROVE  One(G) /\ PidsOf(G) \subseteq PidsOf(F) /\ FnOf(G) = Restrict(FnOf(F), PidsOf(G))
<1>1. One(G) /\ PidsOf(G) \subseteq PidsOf(F)
  BY DEF One, PidsOf
<1>2. ASSUME NEW p \in PidsOf(G)
      PROVE  [env |-> Of(G, p).env, val |-> Of(G, p).val] = FnOf(F)[p]
  <2>1. PICK x \in G : x.pid = p
    BY DEF PidsOf
  <2>2. FnOf(F)[p] = [env |-> x.env, val |-> x.val]
    BY <2>1, FnAt
  <2>3. FnOf(G)[p] = [env |-> x.env, val |-> x.val]
    BY <1>1, <2>1, FnAt
  <2>4. FnOf(G)[p] = [env |-> Of(G, p).env, val |-> Of(G, p).val]
    BY DEF FnOf
  <2> QED BY <2>2, <2>3, <2>4
<1>3. FnOf(G) = [p \in PidsOf(G) |-> FnOf(F)[p]]
  BY <1>2 DEF FnOf
<1> QED BY <1>1, <1>3 DEF Restrict

\* All but the status of a process.
Sans(F, p) == { x \in F : x.pid # p }

(* The status of a process is gone. *)
LEMMA FnSans ==
  ASSUME NEW F, One(F), NEW p
  PROVE  /\ One(Sans(F, p)) /\ PidsOf(Sans(F, p)) = PidsOf(F) \ {p}
         /\ FnOf(Sans(F, p)) = Promise!Without(FnOf(F), p)
<1>1. Sans(F, p) \subseteq F
  BY DEF Sans
<1>2. PidsOf(Sans(F, p)) = PidsOf(F) \ {p}
  BY DEF Sans, PidsOf
<1>3. DOMAIN FnOf(F) = PidsOf(F)
  BY DEF FnOf
<1>4. FnOf(Sans(F, p)) = Restrict(FnOf(F), PidsOf(Sans(F, p)))
  BY <1>1, FnSub
<1> QED BY <1>1, <1>2, <1>3, <1>4, FnSub DEF Promise!Without, Promise!Restrict, Restrict

(* One status more, in the place of the one of its process. *)
LEMMA FnWith ==
  ASSUME NEW F, One(F), NEW x, NEW G, G = Sans(F, x.pid) \union {x}
  PROVE  /\ One(G)
         /\ FnOf(G) = Promise!With(FnOf(F), x.pid, [env |-> x.env, val |-> x.val])
<1>1. One(G)
  BY DEF One, Sans
<1>2. PidsOf(G) = PidsOf(F) \union {x.pid} /\ DOMAIN FnOf(F) = PidsOf(F)
  BY DEF PidsOf, Sans, FnOf
<1> DEFINE r == [env |-> x.env, val |-> x.val]
<1>3. ASSUME NEW p \in PidsOf(G)
      PROVE  FnOf(G)[p] = IF p = x.pid THEN r ELSE FnOf(F)[p]
  <2>1. CASE p = x.pid
    <3>1. x \in G
      OBVIOUS
    <3> QED BY <1>1, <2>1, <3>1, FnAt
  <2>2. CASE p # x.pid
    <3>1. PICK y \in F : y.pid = p
      BY <1>2, <2>2 DEF PidsOf
    <3>2. y \in G
      BY <2>2, <3>1 DEF Sans
    <3>3. FnOf(G)[p] = [env |-> y.env, val |-> y.val]
      BY <1>1, <3>1, <3>2, FnAt
    <3>4. FnOf(F)[p] = [env |-> y.env, val |-> y.val]
      BY <3>1, FnAt
    <3> QED BY <2>2, <3>3, <3>4
  <2> QED BY <2>1, <2>2
<1>4. FnOf(G) = [p \in PidsOf(G) |-> FnOf(G)[p]]
  BY DEF FnOf
<1> HIDE DEF r
<1>5. FnOf(G) = [p \in PidsOf(F) \union {x.pid} |-> IF p = x.pid THEN r ELSE FnOf(F)[p]]
  BY <1>2, <1>3, <1>4
<1> QED BY <1>1, <1>2, <1>5 DEF Promise!With, r

(* What may go of the statuses F: those of processes left running, or any when no *)
(* fewer than the limit stay.                                                     *)
LEMMA FnKept ==
  ASSUME NEW F, One(F), NEW G, G \subseteq F,
         \/ \A p \in PidsOf(F) : p \in PidsOf(G) \/ p \in LeftRunning
         \/ Cardinality(PidsOf(G)) >= ChildMax
         \/ forks > 0
  PROVE  FnOf(G) \in Promise!Kept(FnOf(F))
<1>1. /\ PidsOf(G) \in SUBSET PidsOf(F) /\ DOMAIN FnOf(F) = PidsOf(F)
      /\ FnOf(G) = Restrict(FnOf(F), PidsOf(G))
  BY FnSub DEF FnOf
<1>2. \/ PidsOf(F) \ PidsOf(G) \subseteq LeftRunning
      \/ Cardinality(PidsOf(G)) >= ChildMax
      \/ forks > 0
  OBVIOUS
<1>3. Promise!Cardinality(PidsOf(G)) = Cardinality(PidsOf(G))
  BY DEF Promise!Cardinality, Cardinality
<1>4. FnOf(G) = Promise!Restrict(FnOf(F), PidsOf(G))
  BY <1>1 DEF Promise!Restrict, Restrict
<1> QED BY <1>1, <1>2, <1>3, <1>4 DEF Promise!Kept

(* The lists have no more statuses than there are processes. *)
LEMMA ShortLists ==
  ASSUME NEW q \in Seq(Nodes), Distinct(q), NEW F, Elems(q) \subseteq F,
         PidsOf(F) \subseteq Pids
  PROVE  Len(q) <= Cardinality(PidsOf(F)) /\ Len(q) <= Cardinality(Pids)
         /\ Cardinality(Pids) \in Nat /\ Cardinality(PidsOf(F)) \in Nat
<1> DEFINE f == [i \in 1..Len(q) |-> q[i].pid]
           P == PidsOf(F)
<1>1. IsFiniteSet(P) /\ Cardinality(P) <= Cardinality(Pids)
  BY PidsAssumption, FS_Subset
<1>2. Cardinality(P) \in Nat /\ Cardinality(Pids) \in Nat
  BY <1>1, PidsAssumption, FS_CardinalityType
<1>3. \A i \in 1..Len(q) : q[i].pid \in P
  BY DEF Elems, PidsOf
<1>4. f \in [1..Len(q) -> P]
  BY <1>3
<1>5. f \in Injection(1..Len(q), P)
  BY <1>4, Fun_IsInj DEF Distinct
<1>6. Cardinality(1..Len(q)) <= Cardinality(P)
  BY <1>1, <1>5, FS_Injection
<1>7. Len(q) \in Nat
  BY LenProperties
<1>8. Cardinality(1..Len(q)) = Len(q)
  <2> DEFINE n == Len(q)
  <2>1. n \in Nat /\ n \in Int /\ 1 \in Int
    BY <1>7
  <2> HIDE DEF n
  <2>2. Cardinality(1..n) = IF 1 > n THEN 0 ELSE n - 1 + 1
    BY <2>1, FS_Interval
  <2>3. Cardinality(1..n) = n
    BY <2>1, <2>2
  <2> QED BY <2>3 DEF n
<1> QED BY <1>1, <1>2, <1>6, <1>7, <1>8

(* Of a process there is one status at most, in the lists or on the table. *)
LEMMA StatOne ==
  ASSUME NEW l, Single(l), NEW t, Apart(l, t)
  PROVE  One(Saves(l)) /\ One(Stat(l, t))
<1>1. One(Saves(l))
  <2> SUFFICES ASSUME NEW n \in 1..Len(l), NEW m \in 1..Len(l),
                      NEW x \in Elems(l[n].list), NEW y \in Elems(l[m].list), x.pid = y.pid
               PROVE  x = y
    BY DEF One, Saves
  <2>1. n = m /\ Distinct(l[n].list)
    BY DEF Single
  <2> QED BY <2>1 DEF Distinct, Elems
<1>2. \A p \in Rest(t) : Status(t, p).pid = p /\ p \in DOMAIN t
  BY DEF Rest, Status
<1> QED BY <1>1, <1>2 DEF One, Stat, Apart

(* What the lists hold has its types. *)
LEMMA SavesTyped ==
  ASSUME NEW s, StoreOK(s)
  PROVE  /\ \A n \in 1..Len(s.levels) : s.levels[n].list \in Seq(Nodes)
                                        /\ Elems(s.levels[n].list) \subseteq Saves(s.levels)
         /\ Saves(s.levels) \subseteq Nodes
<1>1. \A n \in 1..Len(s.levels) : s.levels[n].list \in Seq(Nodes)
  BY DEF StoreOK, Covered, Lists
<1>2. \A n \in 1..Len(s.levels) : Elems(s.levels[n].list) \subseteq Nodes
  BY <1>1, ElementOfSeq DEF Elems
<1> QED BY <1>1, <1>2 DEF Saves

Known == [p \in AllKnown |-> KnownOf(p)]

(* The statuses that JobSave shows to the abstract module are those of the lists *)
(* and of the processes of the table that ended.                                 *)
LEMMA KnownIs == Once => Known = FnOf(Stat(store.levels, job))
<1> SUFFICES ASSUME Once PROVE Known = FnOf(Stat(store.levels, job))
  OBVIOUS
<1> DEFINE l == store.levels
           F == Stat(l, job)
<1>0. IInv /\ Single(l) /\ Apart(l, job)
  BY DEF Once, ListsOnce
<1>1. One(F) /\ Saves(l) \subseteq F /\ \A p \in Rest(job) : Status(job, p) \in F
  BY <1>0, StatOne DEF Stat
<1>2. \A x \in Positions : At(x) \in Saves(l)
  BY <1>0, AtIs
<1>3. ASSUME NEW x \in Saves(l)
      PROVE  \E y \in Positions : At(y) = x
  <2>1. PICK n \in 1..Len(l) : x \in Elems(l[n].list)
    BY DEF Saves
  <2>2. PICK i \in 1..Len(l[n].list) : x = l[n].list[i]
    BY <2>1 DEF Elems
  <2>3. Len(l) <= MaxDepth + 1 /\ Len(l) \in Nat
    BY <1>0, LenProperties, BoundAssumption DEF IInv, ShellOK, Depth, StoreOK
  <2>4. Len(l[n].list) <= Cardinality(Pids) /\ Len(l[n].list) \in Nat /\ Cardinality(Pids) \in Nat
    <3>1. l[n].list \in Seq(Nodes) /\ Elems(l[n].list) \subseteq Saves(l) /\ Saves(l) \subseteq Nodes
      BY <1>0, SavesTyped DEF IInv
    <3>2. PidsOf(Saves(l)) \subseteq Pids
      BY <3>1 DEF PidsOf, Nodes
    <3>3. Distinct(l[n].list)
      BY <1>0 DEF Single
    <3> QED BY <3>1, <3>2, <3>3, ShortLists, LenProperties
  <2>5. n \in 1..MaxDepth+1 /\ i \in 1..Cardinality(Pids)
    BY <2>3, <2>4, BoundAssumption
  <2>6. n <= Len(l) /\ i <= Len(l[n].list)
    BY <2>3, <2>4
  <2>7. <<n, i>> \in Positions /\ At(<<n, i>>) = x
    BY <2>2, <2>5, <2>6 DEF Positions, At
  <2> QED BY <2>7
<1>4. AllKnown = PidsOf(F)
  <2>1. AllKnown = Rest(job) \union { At(x).pid : x \in Positions }
    BY DEF AllKnown, Rest, Ended
  <2>2. { At(x).pid : x \in Positions } = PidsOf(Saves(l))
    BY <1>2, <1>3 DEF PidsOf
  <2>3. PidsOf(F) = PidsOf(Saves(l)) \union Rest(job)
    <3>1. \A p \in Rest(job) : Status(job, p).pid = p
      BY DEF Status
    <3>2. PidsOf({ Status(job, p) : p \in Rest(job) }) = Rest(job)
      BY <3>1 DEF PidsOf
    <3>3. \A A, B : PidsOf(A \union B) = PidsOf(A) \union PidsOf(B)
      BY DEF PidsOf
    <3> QED BY <3>2, <3>3 DEF Stat
  <2> QED BY <2>1, <2>2, <2>3
<1>5. ASSUME NEW p \in AllKnown
      PROVE  KnownOf(p) = FnOf(F)[p]
  <2>1. CASE \E x \in Positions : At(x).pid = p
    <3> DEFINE y == CHOOSE x \in Positions : At(x).pid = p
    <3>1. y \in Positions /\ At(y).pid = p
      BY <2>1
    <3>2. KnownOf(p) = [env |-> At(y).env, val |-> At(y).val]
      BY <2>1 DEF KnownOf
    <3> HIDE DEF y
    <3>3. At(y) \in F
      BY <1>1, <1>2, <3>1
    <3>4. FnOf(F)[At(y).pid] = [env |-> At(y).env, val |-> At(y).val]
      BY <1>1, <3>3, FnAt
    <3> QED BY <3>1, <3>2, <3>4
  <2>2. CASE ~ \E x \in Positions : At(x).pid = p
    <3>1. p \in Rest(job)
      BY <2>2 DEF AllKnown, Rest, Ended
    <3>2. Status(job, p) \in F /\ Status(job, p).pid = p
      BY <1>1, <3>1 DEF Status
    <3>3. KnownOf(p) = [env |-> job[p].env, val |-> job[p].st]
      BY <2>2 DEF KnownOf
    <3>4. FnOf(F)[p] = [env |-> Status(job, p).env, val |-> Status(job, p).val]
      BY <1>1, <3>2, FnAt
    <3> QED BY <3>3, <3>4 DEF Status
  <2> QED BY <2>1, <2>2
<1> HIDE DEF F
<1>6. FnOf(F) = [p \in PidsOf(F) |-> FnOf(F)[p]]
  BY DEF FnOf
<1> QED BY <1>4, <1>5, <1>6 DEF Known, F

(***************************************************************************)
(* The steps of JobSave are steps of the abstract module.                  *)
(***************************************************************************)
\* The environments of the processes that this shell started and that still run.
Posts == [p \in { q \in mine : q \in DOMAIN job } |-> job[p].env]

(* Which processes they are of. *)
LEMMA PostsAt ==
  /\ DOMAIN Posts = { q \in mine : q \in DOMAIN job }
  /\ \A p \in DOMAIN Posts : Posts[p] = job[p].env
BY DEF Posts

\* What is known before the step and after it.
Before == Stat(store.levels, job)
After  == Stat(store'.levels, job')

(* It is what AbsSave calls known, before the step and after it. *)
LEMMA Shown ==
  ASSUME Once, Once'
  PROVE  /\ Known = FnOf(Before) /\ One(Before) /\ PidsOf(Before) \subseteq Pids
         /\ Known' = FnOf(After) /\ One(After) /\ PidsOf(After) \subseteq Pids
<1>1. Known = FnOf(Before)
  BY KnownIs DEF Before
<1>2. (Known = FnOf(Stat(store.levels, job)))'
  BY KnownIs, PTL
<1>3. One(Before) /\ One(After)
  BY StatOne DEF Once, ListsOnce, Before, After
<1>4. ASSUME NEW s, StoreOK(s), NEW t, JobsOK(t)
      PROVE  PidsOf(Stat(s.levels, t)) \subseteq Pids
  <2>1. Saves(s.levels) \subseteq Nodes
    BY <1>4, SavesTyped
  <2>2. \A p \in Rest(t) : Status(t, p).pid \in Pids
    BY <1>4 DEF Rest, Status, JobsOK
  <2> QED BY <2>1, <2>2 DEF PidsOf, Stat, Nodes
<1>5. PidsOf(Before) \subseteq Pids /\ PidsOf(After) \subseteq Pids
  BY <1>4 DEF Once, IInv, Before, After
<1> QED BY <1>1, <1>2, <1>3, <1>5 DEF After

(* A list that is full is enough for the limit. *)
LEMMA Enough ==
  ASSUME NEW s, StoreOK(s), Single(s.levels), Len(s.levels[1].list) >= ChildMax,
         NEW F, Saves(s.levels) \subseteq F, PidsOf(F) \subseteq Pids
  PROVE  Cardinality(PidsOf(F)) >= ChildMax
<1> DEFINE q == s.levels[1].list
<1>1. 1 \in 1..Len(s.levels)
  BY EmptySeq, LenProperties DEF StoreOK
<1>2. q \in Seq(Nodes) /\ Distinct(q) /\ Elems(q) \subseteq F
  BY <1>1, SavesTyped DEF Single
<1> HIDE DEF q
<1>3. /\ Len(q) <= Cardinality(PidsOf(F)) /\ Cardinality(PidsOf(F)) \in Nat
      /\ Len(q) \in Nat /\ ChildMax \in Nat
  BY <1>2, ShortLists, LenProperties, LimitAssumption
<1>4. Len(q) >= ChildMax
  BY DEF q
<1> QED BY <1>3, <1>4

(* When the environment numbers fit into jobsave.env, they are kept. *)
LEMMA EnvKept ==
  ASSUME MaxEnv < EnvMod
  PROVE  /\ \A e \in Envs : e % EnvMod = e
         /\ \A t : JobsOK(t) => \A p \in DOMAIN t : NodeOf(t, p) = Status(t, p)
<1>1. \A e \in Envs : e % EnvMod = e
  BY WidthAssumption, BoundAssumption DEF Envs
<1>2. ASSUME NEW t, JobsOK(t), NEW p \in DOMAIN t
      PROVE  NodeOf(t, p) = Status(t, p)
  BY <1>1, <1>2 DEF JobsOK, Jobs, NodeOf, Status
<1> QED BY <1>1, <1>2

(* A step may forget statuses that were left running, or above the limit. *)
LEMMA ForgetOf ==
  ASSUME Once, Once', After \subseteq Before,
         \/ \A x \in Before : x \in After \/ x.pid \in LeftRunning
         \/ Cardinality(PidsOf(After)) >= ChildMax
         \/ forks > 0
  PROVE  Known' \in Promise!Kept(Known)
<1>1. /\ Known = FnOf(Before) /\ Known' = FnOf(After) /\ One(Before)
  BY Shown
<1>2. \/ \A p \in PidsOf(Before) : p \in PidsOf(After) \/ p \in LeftRunning
      \/ Cardinality(PidsOf(After)) >= ChildMax
      \/ forks > 0
  BY DEF PidsOf
<1> QED BY <1>1, <1>2, FnKept

(* job_unpost saves the status, and forgets one only if it may. *)
LEMMA UnpostShown ==
  ASSUME Once, Once', MaxEnv < EnvMod, NEW p \in Pids, Unpost(p)
  PROVE  Promise!Forget
<1> DEFINE l == store.levels
           k == store'.levels
<1>0. /\ StoreOK(store) /\ JobsOK(job) /\ Single(l) /\ Apart(l, job) /\ Exact(l, pc)
      /\ JobsOnce /\ StoreOK(store') /\ Single(k) /\ PidsOf(After) \subseteq Pids
      /\ forks \in Nat
  BY Shown, BoundAssumption DEF Once, IInv, ListsOnce, ShellOK
<1>1. /\ p \in Rest(job) /\ p \in DOMAIN job /\ Ended(p) /\ pc # "trim"
      /\ store' = Unposted(store, job, p)
      /\ job' = [q \in DOMAIN job \ {p} |-> job[q]]
      /\ UNCHANGED <<mine, curenv, forks, exitval>>
  BY DEF Unpost, Leaving, Ended, Rest, Without, Restrict, shell
<1>2. Rest(job') = Rest(job) \ {p} /\ \A q \in Rest(job') : Status(job', q) = Status(job, q)
  BY <1>1 DEF Rest, Status
<1>3. IF job[p].save THEN Takes(k, l, Status(job, p)) ELSE k = l
  <2>1. NodeOf(job, p) = Status(job, p)
    BY <1>0, <1>1, EnvKept
  <2> QED BY <1>0, <1>1, <2>1, Unposting DEF Ended
<1>4. Status(job, p).pid = p /\ Status(job, p) \in Before
  BY <1>1 DEF Status, Before, Stat
<1>5. \A x \in Saves(k) : x \in Before
  BY <1>3, <1>4 DEF Takes, Adds, Before, Stat
<1>6. After \subseteq Before
  BY <1>2, <1>5 DEF After, Before, Stat
<1>7. Known' \in Promise!Kept(Known)
  <2>1. CASE forks > 0
    BY <1>6, <2>1, ForgetOf
  <2>2. CASE ~job[p].save
    <3>1. p \in LeftRunning
      BY <1>1, <2>2 DEF LeftRunning
    <3>2. \A x \in Before : x \in After \/ x = Status(job, p)
      BY <1>2, <1>3, <2>2 DEF After, Before, Stat
    <3> QED BY <1>4, <1>6, <3>1, <3>2, ForgetOf
  <2>3. CASE job[p].save /\ ~(forks > 0)
    <3>1. Tight(l)
      BY <1>0, <1>1, <2>3, ExactTight
    <3>2. CASE AddsAll(k, l, Status(job, p))
      <4>1. \A x \in Saves(l) : x \in Saves(k)
        BY <1>0, <1>1, <1>4, <3>2 DEF AddsAll, Apart
      <4>2. Status(job, p) \in Saves(k)
        BY <3>2 DEF AddsAll, Adds
      <4>3. \A x \in Before : x \in After
        BY <1>2, <4>1, <4>2 DEF After, Before, Stat
      <4> QED BY <1>6, <4>3, ForgetOf
    <3>3. CASE Len(k[1].list) >= ChildMax
      <4>1. Saves(k) \subseteq After
        BY DEF After, Stat
      <4>2. Cardinality(PidsOf(After)) >= ChildMax
        BY <1>0, <3>3, <4>1, Enough
      <4> QED BY <1>6, <4>2, ForgetOf
    <3> QED BY <1>3, <2>3, <3>1, <3>2, <3>3 DEF Takes
  <2> QED BY <2>1, <2>2, <2>3
<1>8. p \notin mine
  BY <1>0, <1>1 DEF JobsOnce
<1>9. LeftRunning' \subseteq LeftRunning
  BY <1>1 DEF LeftRunning, Ended
<1>10. Posts' = Posts
  BY <1>1, <1>8 DEF Posts
<1> QED BY <1>1, <1>7, <1>9, <1>10 DEF Promise!Forget, Known, Posts

(* A process starts: its number has no status any more. *)
LEMMA StartShown ==
  ASSUME Once, Once', MaxEnv < EnvMod, NEW p \in Pids, Start(p)
  PROVE  Promise!Start(p)
<1> DEFINE l   == store.levels
           k   == store'.levels
           m   == Started(p).levels
           old == ClearedJobs
           new == ~toclear /\ p \in DOMAIN job /\ Ended(p) /\ Takes(m, l, NodeOf(job, p))
           mid == IF toclear THEN Saves(m)
                  ELSE IF new THEN Saves(m) \union { Status(job, q) : q \in Rest(job) \ {p} }
                  ELSE Before
<1>0. /\ StoreOK(store) /\ JobsOK(job) /\ Single(l) /\ Apart(l, job) /\ Exact(l, pc)
      /\ JobsOnce /\ StoreOK(store') /\ Single(k) /\ PidsOf(Before) \subseteq Pids
      /\ forks \in Nat /\ One(Before) /\ Known = FnOf(Before) /\ Known' = FnOf(After)
      /\ IInv /\ ListsOnce
  BY Shown, BoundAssumption DEF Once, IInv, ListsOnce, ShellOK
<1>1. /\ pc = "run" /\ p \notin mine /\ mine' = mine \union {p}
      /\ job' = [q \in DOMAIN old \union {p} |-> IF q = p THEN Posted(curenv) ELSE job[q]]
      /\ UNCHANGED <<curenv, forks, exitval>>
  BY DEF Start, shell
<1>2. /\ StoreOK(Started(p)) /\ Clears(k, m, p, AnyEnv)
      /\ toclear => Single(m) /\ Saves(m) \subseteq Saves(l)
      /\ ~toclear => m = l \/ new
  BY <1>0, Starting
<1>3. Saves(k) = Sans(Saves(m), p)
  BY <1>2 DEF Clears, Forgets, Sans
<1>4. /\ toclear => mine = {} /\ forks > 0
      /\ old = IF toclear THEN <<>> ELSE job
      /\ \A q \in DOMAIN old : ~toclear /\ q \in DOMAIN job
  BY <1>0 DEF JobsOnce, ClearedJobs
<1>5. /\ Rest(job') = IF toclear THEN {} ELSE Rest(job) \ {p}
      /\ \A q \in Rest(job') : Status(job', q) = Status(job, q)
  <2>1. job'[p].st = Running
    BY <1>1 DEF Posted
  <2>2. DOMAIN job' = DOMAIN old \union {p} /\ \A q \in DOMAIN job' : q # p => job'[q] = job[q]
    BY <1>1
  <2> QED BY <1>4, <2>1, <2>2 DEF Rest, Status
<1>6. \A q : Status(job, q).pid = q
  BY DEF Status
<1> HIDE DEF m, old, new
<1>7. mid \subseteq Before /\ Sans(mid, p) = After
  <2>1. CASE toclear
    BY <1>2, <1>3, <1>5, <2>1 DEF Before, After, Stat, Sans
  <2>2. CASE ~toclear /\ new
    <3>1. Adds(m, l, Status(job, p)) /\ p \in Rest(job)
      <4>1. p \in DOMAIN job /\ NodeOf(job, p) = Status(job, p)
        BY <1>0, <2>2, EnvKept DEF new
      <4> QED BY <2>2, <4>1 DEF new, Takes, Rest, Ended
    <3>2. mid = Saves(m) \union { Status(job, q) : q \in Rest(job) \ {p} }
      BY <2>2
    <3>3. mid \subseteq Before
      BY <3>1, <3>2 DEF Adds, Before, Stat
    <3>4. Sans(mid, p) = After
      <4>1. After = Sans(Saves(m), p) \union { Status(job, q) : q \in Rest(job) \ {p} }
        BY <1>3, <1>5, <2>2 DEF After, Stat
      <4> HIDE DEF mid
      <4> QED BY <1>6, <3>2, <4>1 DEF Sans
    <3> QED BY <3>3, <3>4
  <2>3. CASE ~toclear /\ ~new
    <3>1. mid = Before /\ m = l
      BY <1>2, <2>3
    <3>2. Before = Saves(m) \union { Status(job, q) : q \in Rest(job) }
      BY <3>1 DEF Before, Stat
    <3>3. After = Sans(Saves(m), p) \union { Status(job, q) : q \in Rest(job) \ {p} }
      BY <1>3, <1>5, <2>3 DEF After, Stat
    <3> HIDE DEF mid
    <3> QED BY <1>6, <3>1, <3>2, <3>3 DEF Sans
  <2> QED BY <2>1, <2>2, <2>3
<1>8. \/ \A q \in PidsOf(Before) : q \in PidsOf(mid) \/ q \in LeftRunning
      \/ Cardinality(PidsOf(mid)) >= ChildMax
      \/ forks > 0
  <2>1. CASE forks > 0
    BY <2>1
  <2>2. CASE ~new /\ ~(forks > 0)
    BY <1>4, <2>2
  <2>3. CASE new /\ ~(forks > 0)
    <3>1. ~toclear /\ Tight(l) /\ p \in DOMAIN job /\ Takes(m, l, NodeOf(job, p))
          /\ p \in Rest(job)
      BY <1>0, <1>1, <2>3, ExactTight DEF new, Rest, Ended
    <3>2. mid = Saves(m) \union { Status(job, q) : q \in Rest(job) \ {p} }
      BY <2>3, <3>1
    <3>3. CASE AddsAll(m, l, NodeOf(job, p))
      <4>1. NodeOf(job, p).pid = p
        BY DEF NodeOf
      <4>2. \A x \in Saves(l) : x \in Saves(m)
        BY <1>0, <3>1, <3>3, <4>1 DEF AddsAll, Apart
      <4>3. NodeOf(job, p) = Status(job, p) /\ NodeOf(job, p) \in Saves(m)
        BY <1>0, <3>1, <3>3, EnvKept DEF AddsAll, Adds
      <4> HIDE DEF mid
      <4>4. \A x \in Before : x \in mid
        BY <3>2, <4>2, <4>3 DEF Before, Stat
      <4> QED BY <4>4 DEF PidsOf
    <3>4. CASE Len(m[1].list) >= ChildMax
      <4>1. Saves(m) \subseteq mid /\ PidsOf(mid) \subseteq Pids
        BY <1>0, <1>7, <3>2 DEF PidsOf
      <4>2. Single(m)
        BY <3>1 DEF Takes
      <4> HIDE DEF mid
      <4> QED BY <1>2, <3>4, <4>1, <4>2, Enough DEF m
    <3> QED BY <3>1, <3>3, <3>4 DEF Takes
  <2> QED BY <2>1, <2>2, <2>3
<1> HIDE DEF mid
<1>9. FnOf(mid) \in Promise!Kept(Known) /\ Known' = Promise!Without(FnOf(mid), p)
  <2>1. One(mid)
    BY <1>0, <1>7, FnSub
  <2> QED BY <1>0, <1>7, <1>8, <2>1, FnKept, FnSans
<1>10. LeftRunning' \in SUBSET (LeftRunning \ {p})
  <2>1. /\ job'[p].save /\ ~job'[p].done /\ p \in mine' /\ job'[p].st = Running
        /\ \A q \in DOMAIN job' : q = p \/ (q \in DOMAIN job /\ job'[q] = job[q])
    BY <1>1, <1>4 DEF Posted
  <2> QED BY <1>1, <2>1 DEF LeftRunning, Ended
<1>11. Posts' = Promise!With(Posts, p, curenv)
  <2>1. /\ DOMAIN job' = DOMAIN old \union {p} /\ job'[p].env = curenv
        /\ \A q \in DOMAIN old : q # p => job'[q] = job[q]
    BY <1>1 DEF Posted
  <2>2. { q \in mine' : q \in DOMAIN job' } = { q \in mine : q \in DOMAIN job } \union {p}
    BY <1>1, <1>4, <2>1
  <2>3. \A q \in { r \in mine : r \in DOMAIN job } : q # p /\ job'[q] = job[q]
    BY <1>1, <1>4, <2>1
  <2>4. Posts' = [q \in { r \in mine : r \in DOMAIN job } \union {p} |->
                    IF q = p THEN curenv ELSE job[q].env]
    BY <2>1, <2>2, <2>3 DEF Posts
  <2>5. Promise!With(Posts, p, curenv)
          = [q \in { r \in mine : r \in DOMAIN job } \union {p} |->
                IF q = p THEN curenv ELSE job[q].env]
    BY <1>1, PostsAt DEF Promise!With
  <2> QED BY <2>4, <2>5
<1>12. \E f \in Promise!Kept(Known) : Known' = Promise!Without(f, p)
  BY <1>9
<1> QED BY <1>1, <1>10, <1>11, <1>12 DEF Promise!Start, Known, Posts

(* A process of the table ends. *)
LEMMA ReapShown ==
  ASSUME Once, Once', NEW p \in Pids, NEW v \in Vals, Reap(p, v)
  PROVE  Promise!End(p, v)
<1> DEFINE l == store.levels
           k == store'.levels
           x == [pid |-> p, env |-> job[p].env, val |-> v]
<1>0. /\ StoreOK(store) /\ JobsOK(job) /\ Single(l) /\ Apart(l, job)
      /\ JobsOnce /\ One(Before) /\ Known = FnOf(Before) /\ Known' = FnOf(After)
  BY Shown DEF Once, IInv, ListsOnce
<1>1. /\ p \in mine /\ p \in DOMAIN job /\ mine' = mine \ {p}
      /\ store' = Forgotten(p, v)
      /\ job' = [job EXCEPT ![p] = [@ EXCEPT !.st = v, !.done = TRUE]]
      /\ UNCHANGED <<curenv, forks, exitval>>
  BY DEF Reap, shell
<1>2. /\ DOMAIN job' = DOMAIN job /\ \A q \in DOMAIN job : q # p => job'[q] = job[q]
      /\ job'[p].env = job[p].env /\ job'[p].save = job[p].save /\ job'[p].st = v
  BY <1>0, <1>1 DEF JobsOK, Jobs
<1>3. v # Running /\ p \notin Rest(job)
  BY <1>0, <1>1, ValsAssumption DEF Running, JobsOnce, Rest, Ended
<1>4. Saves(k) = Saves(l) /\ \A y \in Saves(l) : y.pid # p
  <2>1. \A y \in Saves(l) : y.pid # p
    BY <1>0, <1>1 DEF Apart
  <2>2. k = l \/ Clears(k, l, p, AnyEnv)
    BY <1>0, <1>1, Clearing DEF Forgotten
  <2> QED BY <2>1, <2>2 DEF Clears, Forgets
<1>5. /\ Rest(job') = Rest(job) \union {p} /\ Status(job', p) = x
      /\ \A q \in Rest(job) : q # p /\ Status(job', q) = Status(job, q)
  BY <1>1, <1>2, <1>3 DEF Rest, Status
<1>6. x.pid = p /\ x.env = job[p].env /\ x.val = v
  OBVIOUS
<1> HIDE DEF x
<1>7. After = Before \union {x}
  BY <1>4, <1>5 DEF After, Before, Stat
<1>8. \A y \in Before : y.pid # p
  BY <1>4, <1>5 DEF Before, Stat, Status
<1>9. After = Sans(Before, x.pid) \union {x}
  BY <1>6, <1>7, <1>8 DEF Sans
<1>10. One(After) /\ Known' = Promise!With(Known, p, [env |-> job[p].env, val |-> v])
  BY <1>0, <1>6, <1>9, FnWith
<1>11. p \in DOMAIN Posts /\ Posts[p] = job[p].env
  BY <1>1 DEF Posts
<1>12. FnOf(After) \in Promise!Kept(FnOf(After))
  BY <1>10, FnKept
<1>13. Posts' = Promise!Without(Posts, p)
  <2>1. { q \in mine' : q \in DOMAIN job' } = { q \in mine : q \in DOMAIN job } \ {p}
    BY <1>1, <1>2
  <2> QED BY <1>2, <2>1, PostsAt DEF Posts, Promise!Without, Promise!Restrict
<1>14. LeftRunning' \in SUBSET LeftRunning
  BY <1>1, <1>2, <1>3 DEF LeftRunning, Ended
<1>15. Known' \in Promise!Kept(Promise!With(Known, p,
         [env |-> IF p \in DOMAIN Posts THEN Posts[p] ELSE curenv, val |-> v]))
  BY <1>0, <1>10, <1>11, <1>12
<1> QED BY <1>1, <1>13, <1>14, <1>15 DEF Promise!End, Known, Posts

(* A process that was never posted, or whose job is gone, ends. *)
LEMMA ReapUnknownShown ==
  ASSUME Once, Once', MaxEnv < EnvMod, NEW p \in Pids, NEW v \in Vals, ReapUnknown(p, v)
  PROVE  Promise!End(p, v)
<1> DEFINE l == store.levels
           k == store'.levels
           x == [pid |-> p, env |-> curenv, val |-> v]
<1>0. /\ StoreOK(store) /\ JobsOK(job) /\ Single(l) /\ Apart(l, job) /\ Exact(l, pc)
      /\ JobsOnce /\ One(Before) /\ Known = FnOf(Before) /\ Known' = FnOf(After)
      /\ StoreOK(store') /\ Single(k) /\ PidsOf(After) \subseteq Pids
      /\ IInv /\ ListsOnce /\ curenv \in Envs /\ forks \in Nat
  BY Shown, BoundAssumption DEF Once, IInv, ListsOnce, ShellOK
<1>1. /\ p \in mine /\ p \notin DOMAIN job /\ mine' = mine \ {p} /\ pc = "run"
      /\ job' = job
      /\ UNCHANGED <<curenv, forks, exitval>>
  BY <1>0 DEF ReapUnknown, shell, JobsOnce, ClearedJobs
<1>2. Takes(k, l, x)
  <2>1. curenv % EnvMod = curenv
    BY <1>0, EnvKept
  <2> QED BY <1>0, <2>1, Reaping
<1>3. x.pid = p /\ x.env = curenv /\ x.val = v
  OBVIOUS
<1> HIDE DEF x
<1> DEFINE with == Sans(Before, p) \union {x}
<1>4. \A q \in Rest(job) : Status(job, q).pid # p
  BY <1>1 DEF Rest, Status
<1>5. x \in After /\ After \subseteq with
  BY <1>1, <1>2, <1>3, <1>4 DEF Takes, Adds, After, Before, Stat, Sans
<1>6. One(with) /\ FnOf(with) = Promise!With(Known, p, [env |-> curenv, val |-> v])
  BY <1>0, <1>3, FnWith
<1>7. \/ with \subseteq After
      \/ Cardinality(PidsOf(After)) >= ChildMax
      \/ forks > 0
  <2>1. CASE ~(forks > 0)
    <3>1. Tight(l)
      BY <1>0, <1>1, <2>1, ExactTight
    <3>2. CASE AddsAll(k, l, x)
      BY <1>1, <1>3, <1>5, <3>2 DEF AddsAll, After, Before, Stat, Sans
    <3>3. CASE Len(k[1].list) >= ChildMax
      <4>1. Saves(k) \subseteq After
        BY DEF After, Stat
      <4> QED BY <1>0, <3>3, <4>1, Enough
    <3> QED BY <1>2, <3>1, <3>2, <3>3 DEF Takes
  <2> QED BY <2>1
<1> HIDE DEF with
<1>8. FnOf(After) \in Promise!Kept(FnOf(with))
  <2>1. \/ \A q \in PidsOf(with) : q \in PidsOf(After) \/ q \in LeftRunning
        \/ Cardinality(PidsOf(After)) >= ChildMax
        \/ forks > 0
    BY <1>7 DEF PidsOf
  <2> QED BY <1>5, <1>6, <2>1, FnKept
<1>9. p \notin DOMAIN Posts
  BY <1>1, PostsAt
<1>10. Posts' = Promise!Without(Posts, p)
  <2>1. { q \in mine' : q \in DOMAIN job' } = { q \in mine : q \in DOMAIN job } \ {p}
    BY <1>1
  <2> QED BY <1>1, <2>1, PostsAt DEF Posts, Promise!Without, Promise!Restrict
<1>11. LeftRunning' \in SUBSET LeftRunning
  BY <1>1 DEF LeftRunning, Ended
<1>12. Known' \in Promise!Kept(Promise!With(Known, p,
         [env |-> IF p \in DOMAIN Posts THEN Posts[p] ELSE curenv, val |-> v]))
  BY <1>0, <1>6, <1>8, <1>9
<1> QED BY <1>1, <1>10, <1>11, <1>12 DEF Promise!End, Known, Posts

(* The loop that trims the list forgets the oldest, which is one too many. *)
LEMMA TrimShown ==
  ASSUME Once, Once', Trim
  PROVE  Promise!Forget
<1> DEFINE l == store.levels
           k == store'.levels
<1>0. /\ StoreOK(store) /\ Single(l) /\ Exact(l, pc)
      /\ StoreOK(store') /\ Single(k) /\ PidsOf(After) \subseteq Pids /\ forks \in Nat
  BY Shown, BoundAssumption DEF Once, IInv, ListsOnce, ShellOK
<1>1. /\ store' = Evict(store) /\ l[1].count > ChildMax
      /\ UNCHANGED <<job, mine, curenv, forks, exitval>>
  BY DEF Trim, Overfull, shell
<1>2. Saves(k) \subseteq Saves(l)
  BY <1>0, <1>1, EvictDoes
<1>3. IF l[1].list = <<>> THEN k = l ELSE Less(k[1], l[1], 1)
  BY <1>0, <1>1, EvictDoes
<1>4. After \subseteq Before
  BY <1>1, <1>2 DEF After, Before, Stat
<1>5. Known' \in Promise!Kept(Known)
  <2>1. CASE forks > 0
    BY <1>4, <2>1, ForgetOf
  <2>2. CASE ~(forks > 0)
    <3>1. l[1].count = Len(l[1].list)
      BY <1>0, <2>2 DEF Exact
    <3>2. 1 \in 1..Len(l)
      BY <1>0, EmptySeq, LenProperties DEF StoreOK
    <3>3. Len(l[1].list) \in Nat /\ ChildMax \in Nat
      BY <1>0, <3>2, LenProperties, LimitAssumption DEF StoreOK, Covered, Lists
    <3>4. l[1].list # <<>>
      BY <1>1, <3>1, <3>3, EmptySeq
    <3>5. Len(k[1].list) = Len(l[1].list) - 1
      BY <1>3, <3>4 DEF Less
    <3>6. Len(k[1].list) >= ChildMax
      <4> DEFINE n == Len(l[1].list)
      <4>1. n > ChildMax /\ n \in Nat
        BY <1>1, <3>1, <3>3
      <4> HIDE DEF n
      <4>2. n - 1 >= ChildMax
        BY <3>3, <4>1
      <4> QED BY <3>5, <4>2 DEF n
    <3>7. Saves(k) \subseteq After
      BY DEF After, Stat
    <3>8. Cardinality(PidsOf(After)) >= ChildMax
      BY <1>0, <3>6, <3>7, Enough
    <3> QED BY <1>4, <3>8, ForgetOf
  <2> QED BY <2>1, <2>2
<1>6. LeftRunning' = LeftRunning /\ Posts' = Posts
  BY <1>1 DEF LeftRunning, Ended, Posts
<1> QED BY <1>1, <1>5, <1>6 DEF Promise!Forget, Known, Posts

(* The end of a subshell loses nothing, in a shell that never forked. *)
LEMMA LeaveShown ==
  ASSUME Once, Once', Leave
  PROVE  Promise!Forget
<1> DEFINE l == store.levels
           k == store'.levels
<1>0. /\ StoreOK(store) /\ Single(l) /\ Exact(l, pc) /\ forks \in Nat /\ IInv
  BY BoundAssumption DEF Once, IInv, ListsOnce, ShellOK
<1>1. /\ k = Merged(l) /\ Len(l) > floor /\ pc = "run"
      /\ UNCHANGED <<job, mine, curenv, forks, exitval>>
  <2>1. store' = [store EXCEPT !.levels = Merged(store.levels)]
    BY DEF Leave, Merged
  <2>2. k = Merged(l)
    BY <1>0, <2>1 DEF StoreOK
  <2> QED BY <2>2 DEF Leave, shell
<1>2. Len(l) > 1
  <2>1. Len(l) \in Nat /\ floor \in Nat /\ floor >= 1
    BY <1>0, LenProperties DEF StoreOK, IInv, ShellOK
  <2> QED BY <1>1, <2>1
<1>3. /\ Saves(k) \subseteq Saves(l)
      /\ Tight(l) => Saves(l) \subseteq Saves(k)
  BY <1>0, <1>1, <1>2, MergedDoes DEF StoreOK
<1>4. After \subseteq Before
  BY <1>1, <1>3 DEF After, Before, Stat
<1>5. Known' \in Promise!Kept(Known)
  <2>1. CASE forks > 0
    BY <1>4, <2>1, ForgetOf
  <2>2. CASE ~(forks > 0)
    <3>1. Tight(l)
      BY <1>0, <1>1, <2>2, ExactTight
    <3>2. \A x \in Before : x \in After
      BY <1>1, <1>3, <3>1 DEF After, Before, Stat
    <3> QED BY <1>4, <3>2, ForgetOf
  <2> QED BY <2>1, <2>2
<1>6. LeftRunning' = LeftRunning /\ Posts' = Posts
  BY <1>1 DEF LeftRunning, Ended, Posts
<1> QED BY <1>1, <1>5, <1>6 DEF Promise!Forget, Known, Posts

(* wait, for a process that is not on the table. *)
LEMMA WaitSavedShown ==
  ASSUME Once, Once', NEW p \in Pids, WaitSaved(p)
  PROVE  Promise!Wait(p)
<1> DEFINE l == store.levels
           k == store'.levels
<1>0. /\ StoreOK(store) /\ Single(l) /\ curenv \in Nat
      /\ One(Before) /\ Known = FnOf(Before) /\ Known' = FnOf(After)
  BY Shown, BoundAssumption DEF Once, IInv, ListsOnce, ShellOK, Envs
<1>1. /\ p \notin DOMAIN job /\ store' = ChkSave(store, p, curenv)
      /\ exitval' = IF Saved(store, p, curenv) THEN Node(store, p).val ELSE NoEnt
      /\ UNCHANGED <<job, mine, curenv, forks>>
  BY DEF WaitSaved, shell
<1>2. p \notin LeftRunning /\ p \notin DOMAIN Posts /\ \A q \in Rest(job) : Status(job, q).pid # p
  BY <1>1, PostsAt DEF LeftRunning, Rest, Status
<1>3. LeftRunning' = LeftRunning /\ Posts' = Posts
  BY <1>1 DEF LeftRunning, Ended, Posts
<1>4. CASE Saved(store, p, curenv)
  <2> DEFINE x == Node(store, p)
  <2>1. x \in Saves(l) /\ x.pid = p
    BY <1>0, <1>4, ChkSaveDoes
  <2>2. x.env = curenv
    BY <1>0, <1>4 DEF Saved, AnyEnv
  <2> HIDE DEF x
  <2>3. x \in Before
    BY <2>1 DEF Before, Stat
  <2>4. p \in DOMAIN Known /\ Known[p] = [env |-> x.env, val |-> x.val]
    BY <1>0, <2>1, <2>3, FnAt
  <2>5. Saves(k) = Sans(Saves(l), p)
    <3>1. Clears(k, l, p, curenv)
      BY <1>0, <1>1, Clearing
    <3>2. \A y \in Saves(l) : y.pid = p => y = x
      BY <1>0, <2>1, <2>3 DEF One, Before, Stat
    <3> QED BY <1>0, <2>2, <3>1, <3>2 DEF Clears, Forgets, Sans, AnyEnv
  <2>6. After = Sans(Before, p)
    BY <1>1, <1>2, <2>5 DEF After, Before, Stat, Sans
  <2>7. Known' = Promise!Without(Known, p)
    BY <1>0, <2>6, FnSans
  <2>8. exitval' = Known[p].val /\ Known[p].env = curenv
    BY <1>1, <1>4, <2>2, <2>4 DEF x
  <2> QED BY <1>1, <1>2, <1>3, <2>4, <2>7, <2>8 DEF Promise!Wait, Known, Posts
<1>5. CASE ~Saved(store, p, curenv)
  <2>1. \A x \in Saves(l) : x.pid = p => x.env # curenv
    BY <1>0, <1>5, ChkSaveDoes
  <2>2. p \notin DOMAIN Known \/ Known[p].env # curenv
    <3> SUFFICES ASSUME p \in DOMAIN Known PROVE Known[p].env # curenv
      OBVIOUS
    <3>1. PICK x \in Before : x.pid = p
      BY <1>0 DEF FnOf, PidsOf
    <3>2. x.env # curenv
      BY <1>2, <2>1, <3>1 DEF Before, Stat
    <3>3. Known[p] = [env |-> x.env, val |-> x.val]
      BY <1>0, <3>1, FnAt
    <3> QED BY <3>2, <3>3
  <2>3. store' = store /\ exitval' = NoEnt
    BY <1>1, <1>5 DEF ChkSave
  <2>4. Known' = Known
    BY <1>0, <1>1, <2>3 DEF After, Before
  <2> QED BY <1>1, <1>2, <1>3, <2>2, <2>3, <2>4 DEF Promise!Wait, Known, Posts
<1> QED BY <1>4, <1>5

(* The processes of the table that ended are known, with their environment. *)
LEMMA KnownOfJob ==
  ASSUME Once, Once', NEW p \in DOMAIN job
  PROVE  IF Ended(p)
         THEN /\ p \in DOMAIN Known /\ Known[p] = [env |-> job[p].env, val |-> job[p].st]
              /\ p \notin DOMAIN Posts
         ELSE p \notin DOMAIN Known
<1>0. /\ Apart(store.levels, job) /\ JobsOnce
      /\ One(Before) /\ Known = FnOf(Before)
  BY Shown DEF Once, ListsOnce
<1>1. CASE Ended(p)
  <2> DEFINE x == Status(job, p)
  <2>1. x \in Before
    BY <1>1 DEF Before, Stat, Rest, Ended
  <2>2. x.pid = p /\ x.env = job[p].env /\ x.val = job[p].st
    BY DEF Status
  <2> HIDE DEF x
  <2>3. p \in DOMAIN Known /\ Known[p] = [env |-> x.env, val |-> x.val]
    BY <1>0, <2>1, <2>2, FnAt
  <2> QED BY <1>0, <1>1, <2>2, <2>3, PostsAt DEF JobsOnce
<1>2. CASE ~Ended(p)
  <2>1. \A x \in Before : x.pid # p
    BY <1>0, <1>2 DEF Before, Stat, Apart, Status, Rest, Ended
  <2> QED BY <1>0, <1>2, <2>1 DEF FnOf, PidsOf
<1> QED BY <1>1, <1>2

(* wait, for a process of the table. *)
LEMMA WaitShown ==
  ASSUME Once, Once', NEW p \in Pids,
         WaitForeign(p) \/ WaitJob(p) \/ WaitEarly(p) \/ WaitNoChild(p)
  PROVE  Promise!Wait(p) \/ Promise!WaitLeft(p)
<1>0. /\ JobsOK(job) /\ JobsOnce
      /\ One(Before) /\ Known = FnOf(Before) /\ Known' = FnOf(After)
  BY Shown DEF Once, IInv
<1>1. p \in DOMAIN job /\ UNCHANGED <<store, mine, curenv, forks>>
  BY DEF WaitForeign, WaitJob, WaitEarly, WaitNoChild, shell
<1>2. CASE WaitForeign(p)
  <2>1. job[p].env # curenv /\ exitval' = NoEnt /\ job' = job
    BY <1>2 DEF WaitForeign
  <2>2. Known' = Known /\ LeftRunning' = LeftRunning /\ Posts' = Posts
    BY <1>0, <1>1, <2>1 DEF After, Before, LeftRunning, Ended, Posts
  <2>3. p \notin DOMAIN Known \/ Known[p].env # curenv
    <3>1. CASE Ended(p)
      <4>1. Known[p] = [env |-> job[p].env, val |-> job[p].st]
        BY <1>1, <3>1, KnownOfJob
      <4> QED BY <2>1, <4>1
    <3>2. CASE ~Ended(p)
      BY <1>1, <3>2, KnownOfJob
    <3> QED BY <3>1, <3>2
  <2>4. p \in DOMAIN Posts => Posts[p] # curenv
    BY <2>1, PostsAt
  <2>5. CASE p \in LeftRunning
    BY <1>1, <2>1, <2>2, <2>5 DEF Promise!WaitLeft, Known, Posts
  <2>6. CASE p \notin LeftRunning
    BY <1>1, <2>1, <2>2, <2>3, <2>4, <2>6 DEF Promise!Wait, Known, Posts
  <2> QED BY <2>5, <2>6
<1>3. CASE WaitJob(p)
  <2>1. /\ Ended(p) /\ job[p].env = curenv /\ exitval' = job[p].st
        /\ job' = [q \in DOMAIN job \ {p} |-> job[q]]
    BY <1>3 DEF WaitJob, Without, Restrict
  <2>2. exitval' \in Vals
    BY <1>0, <1>1, <2>1 DEF JobsOK, Jobs, Ended
  <2>3. Known' = Promise!Without(Known, p)
    <3>1. /\ Rest(job') = Rest(job) \ {p} /\ \A q \in Rest(job') : Status(job', q) = Status(job, q)
          /\ \A q : Status(job, q).pid = q
      BY <2>1 DEF Rest, Status
    <3>2. \A x \in Saves(store.levels) : x.pid # p
      BY <1>1 DEF Once, ListsOnce, Apart
    <3>3. After = Sans(Before, p)
      BY <1>1, <3>1, <3>2 DEF After, Before, Stat, Sans
    <3> QED BY <1>0, <3>3, FnSans
  <2>4. /\ p \in DOMAIN Known /\ Known[p] = [env |-> job[p].env, val |-> job[p].st]
        /\ p \notin DOMAIN Posts /\ p \notin mine
    BY <1>0, <1>1, <2>1, KnownOfJob DEF JobsOnce
  <2>5. Posts' = Posts
    BY <1>1, <2>1, <2>4 DEF Posts
  <2>6. LeftRunning' = LeftRunning \ {p}
    BY <1>1, <2>1 DEF LeftRunning, Ended
  <2>7. CASE p \in LeftRunning
    BY <1>1, <2>2, <2>3, <2>5, <2>6, <2>7 DEF Promise!WaitLeft, Known, Posts
  <2>8. CASE p \notin LeftRunning
    <3>1. LeftRunning' = LeftRunning
      BY <2>6, <2>8
    <3>2. Known[p].env = curenv /\ exitval' = Known[p].val
      BY <2>1, <2>4
    <3> QED BY <1>1, <2>3, <2>4, <2>5, <2>8, <3>1, <3>2 DEF Promise!Wait, Known, Posts
  <2> QED BY <2>7, <2>8
<1>4. CASE WaitEarly(p) \/ WaitNoChild(p)
  <2>1. exitval' = 0 /\ 0 \in Vals
    BY <1>4, ValsAssumption DEF WaitEarly, WaitNoChild
  <2>2. p \in LeftRunning
    BY <1>0, <1>1, <1>4 DEF WaitEarly, WaitNoChild, LeftRunning, JobsOnce
  <2>3. /\ DOMAIN job' = DOMAIN job
        /\ \A q \in DOMAIN job : /\ job'[q].env = job[q].env /\ job'[q].st = job[q].st
                                 /\ job'[q].done = job[q].done
                                 /\ q # p => job'[q].save = job[q].save
    <3>1. CASE WaitEarly(p)
      <4>1. job' = [job EXCEPT ![p] = [@ EXCEPT !.save = FALSE]]
        BY <3>1 DEF WaitEarly
      <4> QED BY <1>0, <1>1, <4>1 DEF JobsOK, Jobs
    <3> QED BY <1>4, <3>1 DEF WaitNoChild
  <2>4. /\ Rest(job') = Rest(job) /\ \A q \in Rest(job) : Status(job', q) = Status(job, q)
    BY <2>3 DEF Rest, Status
  <2>5. Known' = Known
    <3>1. After = Before
      BY <1>1, <2>4 DEF After, Before, Stat
    <3> QED BY <1>0, <3>1
  <2>6. LeftRunning' \in SUBSET LeftRunning
    BY <1>1, <2>2, <2>3 DEF LeftRunning, Ended
  <2>7. Posts' = Posts
    BY <1>1, <2>3 DEF Posts
  <2> QED BY <1>1, <2>1, <2>2, <2>5, <2>6, <2>7 DEF Promise!WaitLeft, Known, Posts
<1> QED BY <1>2, <1>3, <1>4

(* Subshells. *)
LEMMA MoveShown ==
  ASSUME Once, Once', Restored \/ \E share \in Shares : Enter(share)
  PROVE  Promise!Move
<1>0. /\ StoreOK(store) /\ Single(store.levels) /\ JobsOK(job) /\ curenv' \in Envs
      /\ Known = FnOf(Before) /\ Known' = FnOf(After)
  BY Shown DEF Once, IInv, ListsOnce, ShellOK
<1>1. UNCHANGED <<mine, forks, exitval>>
  BY DEF Restored, Enter
<1>2. CASE \E share \in Shares : Enter(share)
  <2>1. store'.levels = Opened(store.levels) /\ job' = job
    BY <1>2 DEF Enter, Opened
  <2>2. Saves(store'.levels) = Saves(store.levels)
    BY <1>0, <2>1, OpenedDoes DEF StoreOK
  <2>3. Known' = Known
    BY <1>0, <2>1, <2>2 DEF After, Before, Stat
  <2>4. LeftRunning' = LeftRunning /\ Posts' = Posts
    BY <1>1, <2>1 DEF LeftRunning, Ended, Posts
  <2> QED BY <1>0, <1>1, <2>3, <2>4 DEF Promise!Move, Known, Posts
<1>3. CASE Restored
  <2>1. store' = store
        /\ job' = [p \in DOMAIN job |-> [job[p] EXCEPT !.done = @ \/ job[p].env = curenv]]
    BY <1>3 DEF Restored
  <2>2. /\ DOMAIN job' = DOMAIN job
        /\ \A q \in DOMAIN job : /\ job'[q].env = job[q].env /\ job'[q].st = job[q].st
                                 /\ job'[q].save = job[q].save
                                 /\ job'[q].done => job[q].done \/ job[q].env = curenv
    BY <1>0, <2>1 DEF JobsOK, Jobs
  <2>3. Rest(job') = Rest(job) /\ \A q \in Rest(job) : Status(job', q) = Status(job, q)
    BY <2>2 DEF Rest, Status
  <2>4. Known' = Known
    <3>1. After = Before
      BY <2>1, <2>3 DEF After, Before, Stat
    <3> QED BY <1>0, <3>1
  <2>5. Posts' = Posts
    BY <1>1, <2>2 DEF Posts
  <2>6. LeftRunning' \in SUBSET (LeftRunning \union { p \in DOMAIN Posts : Posts[p] = curenv })
    BY <1>1, <2>2, PostsAt DEF LeftRunning, Ended
  <2> QED BY <1>0, <1>1, <2>4, <2>5, <2>6 DEF Promise!Move, Known, Posts
<1> QED BY <1>2, <1>3

(* The child of a fork. *)
LEMMA ForkShown ==
  ASSUME Once, Once', NEW clear \in BOOLEAN, Fork(clear)
  PROVE  Promise!Fork
<1>0. /\ StoreOK(store) /\ Single(store.levels) /\ curenv' \in Envs /\ forks \in Nat
      /\ One(Before) /\ Known = FnOf(Before) /\ Known' = FnOf(After)
  BY Shown, BoundAssumption DEF Once, IInv, ListsOnce, ShellOK
<1>1. /\ forks' = forks + 1 /\ mine' = {} /\ exitval' = exitval
      /\ store' = store \/ store' = Emptied(store)
      /\ job' = job \/ job' = <<>>
  BY DEF Fork
<1>2. Saves(store'.levels) \subseteq Saves(store.levels)
  BY <1>0, <1>1, EmptiedDoes
<1>3. After \subseteq Before
  BY <1>1, <1>2 DEF After, Before, Stat, Rest, Status
<1>4. \E D \in SUBSET DOMAIN Known : Known' = Promise!Restrict(Known, D)
  <2>1. /\ PidsOf(After) \in SUBSET DOMAIN FnOf(Before)
        /\ FnOf(After) = Restrict(FnOf(Before), PidsOf(After))
    BY <1>0, <1>3, FnSub DEF FnOf
  <2> QED BY <1>0, <2>1 DEF Promise!Restrict, Restrict
<1>5. Posts' = <<>>
  <2>1. Posts' = [q \in {} |-> job'[q].env]
    BY <1>1 DEF Posts
  <2>2. DOMAIN Posts' = {}
    BY <2>1
  <2> QED BY <2>1, <2>2
<1>6. LeftRunning' \in SUBSET (LeftRunning \union DOMAIN Posts)
  BY <1>1, PostsAt DEF LeftRunning, Ended
<1>7. (forks > 0)' = TRUE
  BY <1>0, <1>1
<1> QED BY <1>0, <1>1, <1>4, <1>5, <1>6, <1>7 DEF Promise!Fork, Known, Posts

(* The rest changes nothing that the abstract module sees. *)
LEMMA StutterShown ==
  ASSUME Once, Once', WaitAll \/ Sweep \/ SweepDone \/ TrimDone \/ UNCHANGED vars
  PROVE  UNCHANGED Promise!vars
<1>0. JobsOK(job) /\ JobsOnce /\ Known = FnOf(Before) /\ Known' = FnOf(After)
  BY Shown DEF Once, IInv
<1>1. UNCHANGED <<store, mine, curenv, forks, exitval>>
  BY DEF WaitAll, Sweep, SweepDone, TrimDone, vars, shell
<1>2. /\ DOMAIN job' = DOMAIN job
      /\ \A q \in DOMAIN job : /\ job'[q].env = job[q].env /\ job'[q].st = job[q].st
                               /\ job'[q].save = job[q].save
                               /\ job'[q].done = job[q].done \/ (mine = {} /\ job'[q].done)
  <2>1. CASE WaitAll
    <3>1. mine = {} /\ job' = [p \in DOMAIN job |-> [job[p] EXCEPT !.done = TRUE]]
      BY <2>1 DEF WaitAll
    <3> QED BY <1>0, <3>1 DEF JobsOK, Jobs
  <2>2. CASE job' = job
    BY <2>2
  <2> QED BY <2>1, <2>2 DEF Sweep, SweepDone, TrimDone, vars
<1>3. Rest(job') = Rest(job) /\ \A q \in Rest(job) : Status(job', q) = Status(job, q)
  BY <1>2 DEF Rest, Status
<1>4. Known' = Known
  <2>1. After = Before
    BY <1>1, <1>3 DEF After, Before, Stat
  <2> QED BY <1>0, <2>1
<1>5. Posts' = Posts /\ LeftRunning' = LeftRunning
  BY <1>1, <1>2 DEF Posts, LeftRunning, Ended
<1> QED BY <1>1, <1>4, <1>5 DEF Promise!vars, Known, Posts

(* In the beginning nothing is known. *)
LEMMA InitShown == Init => Promise!Init
<1> SUFFICES ASSUME Init PROVE Promise!Init
  OBVIOUS
<1>1. Once
  BY OnceInitially
<1>2. job = <<>> /\ curenv = 0 /\ forks = 0 /\ exitval = NoEnt
  BY DEF Init
<1>3. Known = <<>>
  <2>1. Known = FnOf(Stat(store.levels, job))
    BY <1>1, KnownIs
  <2>2. store.levels = <<[count |-> 0, list |-> <<>>]>>
    BY DEF Init
  <2> DEFINE new == [count |-> 0, list |-> <<>>]
  <2>3. Elems(new.list) = {}
    BY EmptySeq DEF Elems
  <2>4. store.levels = <<new>>
    BY <2>2
  <2> HIDE DEF new
  <2>5. \A n \in 1..Len(store.levels) : store.levels[n] = new
    BY <2>4
  <2>6. Stat(store.levels, job) = {}
    BY <1>2, <2>3, <2>5 DEF Stat, Saves, Rest
  <2>7. PidsOf(Stat(store.levels, job)) = {}
    BY <2>6 DEF PidsOf
  <2>8. DOMAIN Known = {}
    BY <2>1, <2>7 DEF FnOf
  <2>9. Known = [p \in {} |-> Known[p]]
    BY <2>1, <2>7 DEF FnOf
  <2> QED BY <2>9
<1>4. Posts = <<>>
  <2>1. Posts = [q \in {} |-> job[q].env]
    BY <1>2 DEF Posts
  <2> QED BY <2>1
<1>5. LeftRunning = {} /\ (forks > 0) = FALSE
  BY <1>2 DEF LeftRunning
<1> QED BY <1>2, <1>3, <1>4, <1>5 DEF Promise!Init, Known, Posts

(* The saved lists and the job table together keep the promise of AbsSave, whatever *)
(* the limits, the nesting of subshells, the forks, and the numbers the system      *)
(* gives again: wait gives the status of a process once, in the environment that    *)
(* started it, unless no fewer than child_max are kept.  As long as the numbers of  *)
(* environments fit into jobsave.env.                                               *)
THEOREM PromiseHolds ==
  ASSUME MaxEnv < EnvMod
  PROVE  Spec => PromiseKept
<1>1. Once /\ Once' /\ [Next]_vars => [Promise!Next]_(Promise!vars)
  <2> SUFFICES ASSUME Once, Once', [Next]_vars PROVE [Promise!Next]_(Promise!vars)
    OBVIOUS
  <2>1. ASSUME NEW p \in Pids, Start(p) \/ WaitOf(p) \/ Unpost(p)
        PROVE  Promise!Next
    <3>1. CASE Start(p)
      BY <3>1, StartShown DEF Promise!Next
    <3>2. CASE WaitOf(p)
      BY <3>2, WaitSavedShown, WaitShown DEF WaitOf, Promise!Next
    <3>3. CASE Unpost(p)
      BY <3>3, UnpostShown DEF Promise!Next
    <3> QED BY <2>1, <3>1, <3>2, <3>3
  <2>2. ASSUME NEW p \in Pids, NEW v \in Vals, Reap(p, v) \/ ReapUnknown(p, v)
        PROVE  Promise!Next
    <3>1. Promise!End(p, v)
      BY <2>2, ReapShown, ReapUnknownShown
    <3> QED BY <3>1 DEF Promise!Next
  <2>3. CASE Trim \/ Leave
    BY <2>3, TrimShown, LeaveShown DEF Promise!Next
  <2>4. CASE Restored \/ \E share \in Shares : Enter(share)
    BY <2>4, MoveShown DEF Promise!Next
  <2>5. CASE \E clear \in BOOLEAN : Fork(clear)
    BY <2>5, ForkShown DEF Promise!Next
  <2>6. CASE WaitAll \/ Sweep \/ SweepDone \/ TrimDone \/ UNCHANGED vars
    BY <2>6, StutterShown
  <2> QED BY <2>1, <2>2, <2>3, <2>4, <2>5, <2>6 DEF Next, Loop
<1> QED
  BY OnceInitially, OnceSteps, InitShown, <1>1, PTL DEF Spec, PromiseKept, Promise!Spec
============================================================================
