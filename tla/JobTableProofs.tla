--------------------------- MODULE JobTableProofs --------------------------
(***************************************************************************)
(* Theorems about JobTable, for every number of processes, every size of   *)
(* the vector and every script.                                            *)
(*                                                                         *)
(* wait without arguments ends with no child: the property is of a step;   *)
(* what makes it so is that a job_reap that found no child stays true      *)
(* until the wait is over: nothing is forked in between, and a process     *)
(* that ends or is reaped does not run again.                              *)
(*                                                                         *)
(* Every list that an operation leaves is a part of the one it found, so   *)
(* that the table keeps its type and no two jobs get one number: for that  *)
(* an entry must not outlive the process number it has (Sound), or job_post *)
(* would run out of numbers.                                               *)
(***************************************************************************)
EXTENDS JobTable, FiniteSetTheorems, WellFoundedInduction, TLAPS

-----------------------------------------------------------------------------
\* Numbers in order

\* There is a least number in every set of them.
LEMMA LeastNumber ==
  ASSUME NEW S, S \subseteq Nat, S # {}
  PROVE  Least(S) \in S /\ \A y \in S : Least(S) <= y
<1> DEFINE R == OpToRel(<, Nat)
<1>1. IsWellFoundedOn(R, Nat)
  BY NatLessThanWellFounded
<1>2. \A x, y \in Nat : x < y => <<x, y>> \in R
  BY DEF OpToRel
<1> HIDE DEF R
<1>3. PICK x \in S : \A y \in S : ~ (<<y, x>> \in R)
  BY <1>1, WFMin
<1>4. ASSUME NEW y \in S PROVE x <= y
  <2>1. x \in Nat /\ y \in Nat /\ ~ (<<y, x>> \in R)
    BY <1>3
  <2>2. ~ (y < x)
    BY <1>2, <2>1
  <2>3. QED
    BY <2>1, <2>2
<1>5. \E m \in S : \A y \in S : m <= y
  BY <1>4
<1>6. QED
  BY <1>5 DEF Least

\* The numbers of a set of n of them can be counted upwards.
Upwards(f, n) == \A i, k \in 1..n : i < k => f[i] < f[k]
Ordered(n) == \A S \in SUBSET Nat :
  IsFiniteSet(S) /\ Cardinality(S) = n => \E f \in [1..n -> S] : Upwards(f, n)

LEMMA NoneOrdered == Ordered(0)
<1> SUFFICES ASSUME NEW S \in SUBSET Nat, IsFiniteSet(S), Cardinality(S) = 0
             PROVE  \E f \in [1..0 -> S] : Upwards(f, 0)
  BY DEF Ordered
<1> DEFINE f == [i \in 1..0 |-> i]
<1>1. f \in [1..0 -> S] /\ Upwards(f, 0)
  BY DEF Upwards
<1>2. QED
  BY <1>1

LEMMA MoreOrdered ==
  ASSUME NEW n \in Nat \ {0}, Ordered(n - 1)
  PROVE  Ordered(n)
<1> SUFFICES ASSUME NEW S \in SUBSET Nat, IsFiniteSet(S), Cardinality(S) = n
             PROVE  \E f \in [1..n -> S] : Upwards(f, n)
  BY DEF Ordered
<1>1. S # {}
  BY FS_EmptySet
<1> DEFINE m == Least(S)
<1>2. m \in S /\ m \in Nat /\ \A y \in S : m <= y
  BY <1>1, LeastNumber
<1> HIDE DEF m
<1>3. IsFiniteSet(S \ {m}) /\ Cardinality(S \ {m}) = n - 1
  BY <1>2, FS_RemoveElement
<1>4. PICK g \in [1..(n - 1) -> S \ {m}] : Upwards(g, n - 1)
  BY <1>3 DEF Ordered
<1> DEFINE f == [i \in 1..n |-> IF i = 1 THEN m ELSE g[i - 1]]
<1>5. \A i \in 1..n : i # 1 => i - 1 \in 1..(n - 1) /\ g[i - 1] \in S \ {m}
  BY <1>4
<1>6. f \in [1..n -> S]
  BY <1>2, <1>5
<1>7. ASSUME NEW i \in 1..n, NEW k \in 1..n, i < k PROVE f[i] < f[k]
  <2>0. k # 1
    BY <1>7
  <2>1. f[k] = g[k - 1] /\ f[k] \in S \ {m} /\ f[k] \in Nat
    BY <1>5, <2>0
  <2>2. CASE i = 1
    <3>1. f[i] = m /\ m <= f[k] /\ m # f[k]
      BY <1>2, <2>1, <2>2
    <3>2. QED
      BY <1>2, <2>1, <3>1
  <2>3. CASE i # 1
    <3>1. f[i] = g[i - 1] /\ i - 1 \in 1..(n - 1) /\ k - 1 \in 1..(n - 1) /\ i - 1 < k - 1
      BY <1>7, <2>3
    <3>2. g[i - 1] < g[k - 1]
      BY <1>4, <3>1 DEF Upwards
    <3>3. QED
      BY <2>1, <3>1, <3>2
  <2>4. QED
    BY <2>2, <2>3
<1>8. QED
  BY <1>6, <1>7 DEF Upwards

LEMMA AllOrdered == \A n \in Nat : Ordered(n)
<1> DEFINE B == {n \in Nat : ~Ordered(n)}
<1> SUFFICES ASSUME B # {} PROVE FALSE
  OBVIOUS
<1> DEFINE m == Least(B)
<1>1. m \in B /\ \A y \in B : m <= y
  BY LeastNumber
<1> HIDE DEF m
<1>2. m \in Nat /\ ~Ordered(m)
  BY <1>1
<1>3. m # 0
  BY <1>2, NoneOrdered
<1>4. m - 1 \in Nat /\ ~(m <= m - 1)
  BY <1>2, <1>3
<1>5. Ordered(m - 1)
  BY <1>1, <1>4
<1>6. QED
  BY <1>2, <1>3, <1>5, MoreOrdered

-----------------------------------------------------------------------------
\* Parts of a list

Single(l)  == \A i, k \in DOMAIN l : l[i].job = l[k].job => i = k
Apart(l)   == \A i, k \in DOMAIN l : l[i].pid = l[k].pid => i = k
Numbers(l) == {l[i].job : i \in DOMAIN l}

\* l2 is what l has at the places S.
Part(l2, l, S) ==
  /\ l2 \in Seq(Entry)
  /\ Single(l) => Single(l2) /\ Numbers(l2) = Numbers(l) \ {l[i].job : i \in DOMAIN l \ S}
  /\ Apart(l) => Apart(l2)
  /\ \A i \in DOMAIN l2 : \E k \in S : l2[i] = l[k]

LEMMA EntriesIs ==
  ASSUME NEW l \in Seq(Entry), NEW S \in SUBSET (DOMAIN l)
  PROVE  Part(Entries(l, S), l, S)
<1> DEFINE n == Cardinality(S)
           f == CHOOSE f \in [1..n -> S] : \A i, k \in DOMAIN f : i < k => f[i] < f[k]
           l2 == [i \in 1..n |-> l[f[i]]]
<1>1. Entries(l, S) = l2
  BY DEF Entries
<1>2. IsFiniteSet(S) /\ n \in Nat /\ S \subseteq Nat
  <2>1. DOMAIN l = 1..Len(l) /\ Len(l) \in Nat /\ IsFiniteSet(1..Len(l))
    BY FS_Interval
  <2>2. QED
    BY <2>1, FS_Subset, FS_CardinalityType
<1>3. f \in [1..n -> S] /\ Upwards(f, n)
  <2>1. \E g \in [1..n -> S] : Upwards(g, n)
    BY <1>2, AllOrdered DEF Ordered
  <2>2. \E g \in [1..n -> S] : \A i, k \in DOMAIN g : i < k => g[i] < g[k]
    BY <2>1 DEF Upwards
  <2>3. f \in [1..n -> S] /\ \A i, k \in DOMAIN f : i < k => f[i] < f[k]
    BY <2>2
  <2>4. QED
    BY <2>3 DEF Upwards
<1> HIDE DEF f
<1>4. \A i, k \in 1..n : f[i] = f[k] => i = k
  <2> SUFFICES ASSUME NEW i \in 1..n, NEW k \in 1..n, f[i] = f[k] PROVE i = k
    OBVIOUS
  <2>1. f[i] \in Nat /\ f[k] = f[i] /\ ~(f[i] < f[i])
    BY <1>2, <1>3
  <2>2. ~(i < k) /\ ~(k < i)
    BY <1>3, <2>1 DEF Upwards
  <2>3. QED
    BY <2>2
<1>5. \A x \in S : \E i \in 1..n : f[i] = x
  <2>1. f \in Injection(1..n, S)
    BY <1>3, <1>4 DEF Injection, IsInjective
  <2>2. IsFiniteSet(1..n) /\ Cardinality(1..n) = n
    BY <1>2, FS_Interval
  <2>3. f \in Surjection(1..n, S)
    BY <1>2, <2>1, <2>2, FS_Injection
  <2>4. QED
    BY <2>3 DEF Surjection
<1> HIDE DEF n
<1>6. /\ DOMAIN l2 = 1..n
      /\ \A i \in 1..n : f[i] \in S /\ f[i] \in DOMAIN l /\ l2[i] = l[f[i]]
  BY <1>3
<1>7. l2 \in Seq(Entry)
  <2>1. \A i \in 1..n : l[f[i]] \in Entry
    BY <1>6
  <2>2. QED
    BY <1>2, <2>1
<1> HIDE DEF l2
<1>8. Apart(l) => Apart(l2)
  BY <1>4, <1>6 DEF Apart
<1>9. Single(l) => Single(l2)
  BY <1>4, <1>6 DEF Single
<1>10. ASSUME Single(l)
       PROVE  Numbers(l2) = Numbers(l) \ {l[i].job : i \in DOMAIN l \ S}
  <2>1. ASSUME NEW x \in Numbers(l2)
        PROVE  x \in Numbers(l) \ {l[i].job : i \in DOMAIN l \ S}
    <3>1. PICK i \in 1..n : x = l2[i].job
      BY <1>6 DEF Numbers
    <3>2. f[i] \in S /\ f[i] \in DOMAIN l /\ x = l[f[i]].job
      BY <1>6, <3>1
    <3>3. \A k \in DOMAIN l \ S : l[k].job # x
      BY <1>10, <3>2 DEF Single
    <3>4. QED
      BY <3>2, <3>3 DEF Numbers
  <2>2. ASSUME NEW x \in Numbers(l) \ {l[i].job : i \in DOMAIN l \ S}
        PROVE  x \in Numbers(l2)
    <3>1. PICK k \in DOMAIN l : x = l[k].job
      BY <2>2 DEF Numbers
    <3>2. k \in S
      BY <2>2, <3>1
    <3>3. PICK i \in 1..n : f[i] = k
      BY <1>5, <3>2
    <3>4. l2[i].job = x
      BY <1>6, <3>1, <3>3
    <3>5. QED
      BY <1>6, <3>4 DEF Numbers
  <2>3. QED
    BY <2>1, <2>2
<1>11. \A i \in DOMAIN l2 : \E k \in S : l2[i] = l[k]
  BY <1>6
<1>12. QED
  BY <1>1, <1>7, <1>8, <1>9, <1>10, <1>11 DEF Part

-----------------------------------------------------------------------------
\* What the operations leave of a table

Alive(l, q) == \A i \in DOMAIN l : ~l[i].done => q[l[i].pid] # "none"

\* The list l2 with the bits b2 has nothing that the list l with b has not.
Smaller(l2, b2, l, b) ==
  /\ l2 \in Seq(Entry) /\ b2 \subseteq b
  /\ Single(l) /\ b = Numbers(l) => Single(l2) /\ b2 = Numbers(l2)
  /\ Apart(l) => Apart(l2)
  /\ \A i \in DOMAIN l2 : \E k \in DOMAIN l : /\ l2[i].pid = l[k].pid
                                              /\ l[k].done => l2[i].done

LEMMA SameSmaller ==
  ASSUME NEW l \in Seq(Entry), NEW l2 \in Seq(Entry), NEW b, DOMAIN l2 = DOMAIN l,
         \A i \in DOMAIN l : /\ l2[i].pid = l[i].pid /\ l2[i].job = l[i].job
                             /\ l[i].done => l2[i].done
  PROVE  Smaller(l2, b, l, b)
<1>1. Single(l) => Single(l2)
  BY DEF Single
<1>2. Apart(l) => Apart(l2)
  BY DEF Apart
<1>3. Numbers(l2) = Numbers(l)
  BY DEF Numbers
<1>4. QED
  BY <1>1, <1>2, <1>3 DEF Smaller

LEMMA SmallerTwice ==
  ASSUME NEW l, NEW l2, NEW l3, NEW b, NEW b2, NEW b3,
         Smaller(l2, b2, l, b), Smaller(l3, b3, l2, b2)
  PROVE  Smaller(l3, b3, l, b)
<1>1. l3 \in Seq(Entry) /\ b3 \subseteq b
  BY DEF Smaller
<1>2. Single(l) /\ b = Numbers(l) => Single(l3) /\ b3 = Numbers(l3)
  BY DEF Smaller
<1>3. Apart(l) => Apart(l3)
  BY DEF Smaller
<1>4. ASSUME NEW i \in DOMAIN l3
      PROVE  \E k \in DOMAIN l : l3[i].pid = l[k].pid /\ (l[k].done => l3[i].done)
  <2>1. PICK m \in DOMAIN l2 : l3[i].pid = l2[m].pid /\ (l2[m].done => l3[i].done)
    BY DEF Smaller
  <2>2. PICK k \in DOMAIN l : l2[m].pid = l[k].pid /\ (l[k].done => l2[m].done)
    BY <2>1 DEF Smaller
  <2>3. QED
    BY <2>1, <2>2
<1>5. QED
  BY <1>1, <1>2, <1>3, <1>4 DEF Smaller

LEMMA SmallerAlive ==
  ASSUME NEW l, NEW l2, NEW b, NEW b2, NEW q, Smaller(l2, b2, l, b), Alive(l, q)
  PROVE  Alive(l2, q)
<1> SUFFICES ASSUME NEW i \in DOMAIN l2, ~l2[i].done PROVE q[l2[i].pid] # "none"
  BY DEF Alive
<1>1. PICK k \in DOMAIN l : l2[i].pid = l[k].pid /\ (l[k].done => l2[i].done)
  BY DEF Smaller
<1>2. QED
  BY <1>1 DEF Alive

LEMMA PartSmaller ==
  ASSUME NEW l \in Seq(Entry), NEW S \in SUBSET (DOMAIN l), NEW b
  PROVE  Smaller(Entries(l, S), b \ {l[i].job : i \in DOMAIN l \ S}, l, b)
<1> DEFINE l2 == Entries(l, S)
<1>1. Part(l2, l, S)
  BY EntriesIs
<1> HIDE DEF l2
<1>2. \A i \in DOMAIN l2 : \E k \in DOMAIN l : l2[i] = l[k]
  BY <1>1 DEF Part
<1>3. Smaller(l2, b \ {l[i].job : i \in DOMAIN l \ S}, l, b)
  BY <1>1, <1>2 DEF Part, Smaller
<1>4. QED
  BY <1>3 DEF l2

LEMMA JidIs ==
  ASSUME NEW l \in Seq(Entry), NEW j, job_byjid(l, j) # 0
  PROVE  job_byjid(l, j) \in DOMAIN l /\ l[job_byjid(l, j)].job = j
<1> DEFINE at == {i \in DOMAIN l : l[i].job = j}
<1>1. at # {} /\ job_byjid(l, j) = Least(at)
  BY DEF job_byjid, Least
<1>2. at \subseteq Nat
  OBVIOUS
<1>3. Least(at) \in at
  BY <1>1, <1>2, LeastNumber
<1>4. QED
  BY <1>1, <1>3

LEMMA UnpostSmaller ==
  ASSUME NEW l \in Seq(Entry), NEW b, NEW j, NEW t, t = job_unpost([list |-> l, bits |-> b], j)
  PROVE  /\ Smaller(t.list, t.bits, l, b)
         /\ Single(l) /\ Unposted(l, j) => t.bits = b \ {j} /\ Numbers(t.list) = Numbers(l) \ {j}
<1>1. CASE Unposted(l, j)
  <2> DEFINE i == job_byjid(l, j)  S == DOMAIN l \ {i}
  <2>1. i \in DOMAIN l /\ l[i].job = j
    BY <1>1, JidIs DEF Unposted
  <2>2. t.list = Entries(l, S) /\ t.bits = b \ {j}
    BY <1>1 DEF job_unpost, Without
  <2> HIDE DEF i
  <2>3. {l[k].job : k \in DOMAIN l \ S} = {j}
    BY <2>1
  <2>4. S \in SUBSET (DOMAIN l)
    OBVIOUS
  <2> HIDE DEF S
  <2>5. Smaller(t.list, b \ {l[k].job : k \in DOMAIN l \ S}, l, b)
    BY <2>2, <2>4, PartSmaller
  <2>6. Single(l) => Numbers(t.list) = Numbers(l) \ {l[k].job : k \in DOMAIN l \ S}
    BY <2>2, <2>4, EntriesIs DEF Part
  <2>7. QED
    BY <2>2, <2>3, <2>5, <2>6
<1>2. CASE ~Unposted(l, j)
  <2>1. t.list = l /\ t.bits = b
    BY <1>2 DEF job_unpost
  <2>2. Smaller(l, b, l, b)
    BY SameSmaller
  <2>3. QED
    BY <1>2, <2>1, <2>2
<1>3. QED
  BY <1>1, <1>2

LEMMA UnpostAllSmaller ==
  ASSUME NEW l \in Seq(Entry), NEW b, NEW t, t = unpost_all([list |-> l, bits |-> b])
  PROVE  Smaller(t.list, t.bits, l, b)
<1> DEFINE gone == {i \in DOMAIN l : Goes(l, i)}  S == DOMAIN l \ gone
<1>1. t.list = Entries(l, S) /\ t.bits = b \ {l[i].job : i \in gone}
  BY DEF unpost_all
<1>2. DOMAIN l \ S = gone /\ S \in SUBSET (DOMAIN l)
  OBVIOUS
<1> HIDE DEF gone, S
<1>3. Smaller(t.list, b \ {l[i].job : i \in DOMAIN l \ S}, l, b)
  BY <1>1, <1>2, PartSmaller
<1>4. QED
  BY <1>1, <1>2, <1>3

LEMMA ReapedSmaller ==
  ASSUME NEW l \in Seq(Entry), NEW n, NEW b, TypeOK, job_reap(l, n)
  PROVE  /\ Smaller(pwlist', b, l, b)
         /\ Alive(l, proc) => Alive(pwlist', proc')
         /\ proc' \in [Pids -> {"none", "running", "zombie"}]
         /\ numbjob' \in {0, n} /\ trapnote' \in BOOLEAN
<1>1. /\ pwlist' = Reaped(l) /\ numbjob' \in {0, n}
      /\ proc' = [p \in Pids |-> IF proc[p] = "zombie" THEN "none" ELSE proc[p]]
      /\ trapnote' = (trapnote \/ Tells(l))
  BY DEF job_reap
<1>2. \A i \in DOMAIN l : l[i] \in Entry
  OBVIOUS
<1>3. /\ DOMAIN pwlist' = DOMAIN l
      /\ \A i \in DOMAIN l : pwlist'[i] = IF l[i].pid \in Zombies /\ ~l[i].done
           THEN [l[i] EXCEPT !.done = TRUE, !.bg = @ /\ script.trap] ELSE l[i]
  BY <1>1 DEF Reaped
<1>4. \A i \in DOMAIN l : /\ pwlist'[i] \in Entry
                          /\ pwlist'[i].pid = l[i].pid /\ pwlist'[i].job = l[i].job
                          /\ l[i].done => pwlist'[i].done
                          /\ l[i].pid \in Zombies => pwlist'[i].done
  <2>1. \A e \in Entry, x \in BOOLEAN :
          LET r == [e EXCEPT !.done = TRUE, !.bg = x]
          IN  r \in Entry /\ r.pid = e.pid /\ r.job = e.job /\ r.done
    BY DEF Entry
  <2> SUFFICES ASSUME NEW i \in DOMAIN l
               PROVE  /\ pwlist'[i] \in Entry
                      /\ pwlist'[i].pid = l[i].pid /\ pwlist'[i].job = l[i].job
                      /\ l[i].done => pwlist'[i].done
                      /\ l[i].pid \in Zombies => pwlist'[i].done
    OBVIOUS
  <2>2. CASE l[i].pid \in Zombies /\ ~l[i].done
    <3> DEFINE x == l[i].bg /\ script.trap
    <3>1. x \in BOOLEAN /\ pwlist'[i] = [l[i] EXCEPT !.done = TRUE, !.bg = x]
      BY <1>3, <2>2
    <3> HIDE DEF x
    <3> DEFINE r == [l[i] EXCEPT !.done = TRUE, !.bg = x]
    <3>2. r \in Entry /\ r.pid = l[i].pid /\ r.job = l[i].job /\ r.done
      BY <1>2, <2>1, <3>1
    <3>3. pwlist'[i] = r
      BY <3>1
    <3> HIDE DEF r
    <3>4. QED
      BY <3>2, <3>3
  <2>3. CASE ~(l[i].pid \in Zombies /\ ~l[i].done)
    BY <1>2, <1>3, <2>3
  <2>4. QED
    BY <2>2, <2>3
<1>5. pwlist' \in Seq(Entry)
  <2>1. DOMAIN l = 1..Len(l) /\ Len(l) \in Nat
    OBVIOUS
  <2>2. pwlist' \in [1..Len(l) -> Entry]
    BY <1>1, <1>3, <1>4, <2>1 DEF Reaped
  <2>3. QED
    BY <2>1, <2>2
<1>6. Smaller(pwlist', b, l, b)
  BY <1>3, <1>4, <1>5, SameSmaller
<1>7. ASSUME Alive(l, proc) PROVE Alive(pwlist', proc')
  <2> SUFFICES ASSUME NEW i \in DOMAIN l, ~pwlist'[i].done PROVE proc'[pwlist'[i].pid] # "none"
    BY <1>3 DEF Alive
  <2>1. /\ ~l[i].done /\ l[i].pid \in Pids /\ l[i].pid \notin Zombies /\ pwlist'[i].pid = l[i].pid
    BY <1>2, <1>4 DEF Entry
  <2>2. proc[l[i].pid] # "none" /\ proc[l[i].pid] # "zombie"
    BY <1>7, <2>1 DEF Alive, Zombies
  <2>3. QED
    BY <1>1, <2>1, <2>2
<1>8. proc' \in [Pids -> {"none", "running", "zombie"}]
  BY <1>1 DEF TypeOK
<1>9. trapnote' \in BOOLEAN
  BY <1>1 DEF TypeOK, Tells
<1>10. QED
  BY <1>1, <1>6, <1>7, <1>8, <1>9

LEMMA TrapSmaller ==
  ASSUME NEW l \in Seq(Entry), NEW t, t = job_chldtrap(l)
  PROVE  /\ Smaller(t.list, t.bits, l, freejobs)
         /\ Cardinality(Due(l)) \in Nat
<1> DEFINE m == Announced(l)
<1>1. \A i \in DOMAIN l : l[i] \in Entry
  OBVIOUS
<1>2. /\ DOMAIN m = DOMAIN l
      /\ \A i \in DOMAIN l : m[i] = IF i \in Due(l) THEN [l[i] EXCEPT !.bg = FALSE] ELSE l[i]
  BY DEF Announced
<1>3. \A i \in DOMAIN l : /\ m[i] \in Entry
                          /\ m[i].pid = l[i].pid /\ m[i].job = l[i].job /\ m[i].done = l[i].done
  BY <1>1, <1>2 DEF Entry
<1>4. m \in Seq(Entry)
  <2>1. DOMAIN l = 1..Len(l) /\ Len(l) \in Nat
    OBVIOUS
  <2>2. m \in [1..Len(l) -> Entry]
    BY <1>2, <1>3, <2>1 DEF Announced
  <2>3. QED
    BY <2>1, <2>2
<1> HIDE DEF m
<1>5. Smaller(m, freejobs, l, freejobs)
  BY <1>2, <1>3, <1>4, SameSmaller
<1>6. \/ t = [list |-> m, bits |-> freejobs]
      \/ \E j : t = job_unpost([list |-> m, bits |-> freejobs], j)
  BY DEF job_chldtrap, m
<1>7. Smaller(t.list, t.bits, m, freejobs)
  <2>1. CASE t = [list |-> m, bits |-> freejobs]
    <3>1. Smaller(m, freejobs, m, freejobs)
      BY <1>4, SameSmaller
    <3>2. QED
      BY <2>1, <3>1
  <2>2. ASSUME NEW j, t = job_unpost([list |-> m, bits |-> freejobs], j)
        PROVE  Smaller(t.list, t.bits, m, freejobs)
    BY <1>4, <2>2, UnpostSmaller
  <2>3. QED
    BY <1>6, <2>1, <2>2
<1>8. Smaller(t.list, t.bits, l, freejobs)
  BY <1>5, <1>7, SmallerTwice
<1>9. Cardinality(Due(l)) \in Nat
  <2>1. DOMAIN l = 1..Len(l) /\ IsFiniteSet(1..Len(l)) /\ Due(l) \subseteq DOMAIN l
    BY FS_Interval DEF Due
  <2>2. QED
    BY <2>1, FS_Subset, FS_CardinalityType
<1>10. QED
  BY <1>8, <1>9

LEMMA AllGoneSmaller ==
  ASSUME pwlist \in Seq(Entry), NEW t, t = AllGone
  PROVE  Smaller(t.list, t.bits, pwlist, freejobs)
<1> DEFINE m == [i \in DOMAIN pwlist |-> [pwlist[i] EXCEPT !.done = TRUE]]
<1>1. \A i \in DOMAIN pwlist : pwlist[i] \in Entry
  OBVIOUS
<1>2. \A i \in DOMAIN pwlist : /\ m[i] \in Entry /\ m[i].done
                               /\ m[i].pid = pwlist[i].pid /\ m[i].job = pwlist[i].job
  BY <1>1 DEF Entry
<1>3. m \in Seq(Entry) /\ DOMAIN m = DOMAIN pwlist
  <2>1. DOMAIN pwlist = 1..Len(pwlist) /\ Len(pwlist) \in Nat
    OBVIOUS
  <2>2. m \in [1..Len(pwlist) -> Entry]
    BY <1>2, <2>1
  <2>3. QED
    BY <2>1, <2>2
<1>4. t = unpost_all([list |-> m, bits |-> freejobs])
  BY DEF AllGone
<1> HIDE DEF m
<1>5. Smaller(m, freejobs, pwlist, freejobs)
  BY <1>2, <1>3, SameSmaller
<1>6. QED
  BY <1>3, <1>4, <1>5, UnpostAllSmaller, SmallerTwice

-----------------------------------------------------------------------------
\* The vector of job numbers

LEMMA WordsIs ==
  ASSUME TypeOK
  PROVE  /\ Words \in Nat /\ script.limit \in Nat \ {0} /\ W \in Nat \ {0}
         /\ Words * W \in Nat /\ script.limit <= Words * W
         /\ script.limit = W => Words = 1
<1>1. script.limit \in Nat \ {0} /\ W \in Nat \ {0}
  BY TableAssumption DEF TypeOK
<1>2. \A m \in Nat : /\ m \div W \in Nat
                     /\ m < (m \div W) * W + W
  BY <1>1
<1>3. Words \in Nat /\ script.limit + W - 1 < Words * W + W /\ Words * W \in Nat
  BY <1>1, <1>2 DEF Words
<1>4. script.limit <= Words * W
  <2> DEFINE k == Words * W
  <2>1. k \in Nat /\ script.limit + W - 1 < k + W
    BY <1>3
  <2> HIDE DEF k
  <2>2. script.limit <= k
    BY <1>1, <2>1
  <2>3. QED
    BY <2>2 DEF k
<1>5. ASSUME script.limit = W PROVE Words = 1
  <2>1. (W + W - 1) \div W = 1
    BY <1>1
  <2>2. QED
    BY <1>5, <2>1 DEF Words
<1>6. QED
  BY <1>1, <1>3, <1>4, <1>5

LEMMA WordIs ==
  ASSUME TypeOK, NEW w \in Nat, w < Words
  PROVE  Word(w) \subseteq 1..(Words * W) /\ Word(w) \subseteq Nat \ {0} /\ w * W + W + 1 \in Nat \ {0}
<1>1. Words \in Nat /\ W \in Nat \ {0}
  BY WordsIs
<1>2. w * W \in Nat /\ w * W + W = (w + 1) * W
  BY <1>1
<1>3. (w + 1) * W <= Words * W
  <2>1. \E d \in Nat : Words = (w + 1) + d
    <3>1. Words - (w + 1) \in Nat /\ Words = (w + 1) + (Words - (w + 1))
      BY <1>1
    <3>2. QED
      BY <3>1
  <2>2. PICK d \in Nat : Words = (w + 1) + d
    BY <2>1
  <2>3. Words * W = (w + 1) * W + d * W /\ d * W \in Nat /\ (w + 1) * W \in Nat
    BY <1>1, <2>2
  <2>4. QED
    BY <2>3
<1>4. QED
  BY <1>1, <1>2, <1>3 DEF Word

LEMMA MarkedIs ==
  ASSUME TypeOK, NEW bits, bits \subseteq 1..(Words * W), NEW w \in Nat, w < Words
  PROVE  Taken(bits, w) \in Nat \ {0} /\ Marked(bits, w) \subseteq 1..(Words * W)
<1>1. CASE Word(w) \subseteq bits
  BY <1>1, WordIs DEF Taken, Marked
<1>2. CASE ~(Word(w) \subseteq bits)
  <2> DEFINE S == Word(w) \ bits
  <2>1. S # {} /\ S \subseteq Nat
    BY <1>2, WordIs
  <2> HIDE DEF S
  <2>2. Least(S) \in S
    BY <2>1, LeastNumber
  <2>3. Taken(bits, w) = Least(S) /\ Marked(bits, w) = bits \union {Least(S)}
    BY <1>2 DEF Taken, Marked, S
  <2>4. S \subseteq 1..(Words * W) /\ S \subseteq Nat \ {0}
    BY WordIs DEF S
  <2>5. QED
    BY <2>2, <2>3, <2>4
<1>3. QED
  BY <1>1, <1>2

\* With every bit of the only word taken, job_alloc takes the number it has freed.
LEMMA OnlyWord ==
  ASSUME TypeOK, script.limit = W, Free = {}, NEW v \in Victims, v \div W < Words,
         Single(pwlist), freejobs = Numbers(pwlist),
         NEW t, t = job_unpost(Table, v)
  PROVE  /\ Taken(t.bits, v \div W) = v /\ v \notin Numbers(t.list)
         /\ Marked(t.bits, v \div W) = t.bits \union {v}
<1>1. Words = 1 /\ W \in Nat \ {0}
  BY WordsIs
<1>2. v \in 1..W /\ v \div W = 0
  <2>1. v \in 1..W
    BY DEF Victims
  <2>2. v \div W \in Nat
    BY <1>1, <2>1
  <2>3. QED
    BY <1>1, <2>1, <2>2
<1>3. v # W
  <2>1. W \div W = 1
    BY <1>1
  <2>2. QED
    BY <1>2, <2>1
<1>4. Unposted(pwlist, v)
  <2>1. v < W
    BY <1>1, <1>2, <1>3
  <2>2. QED
    BY <2>1 DEF Victims
<1>5. pwlist \in Seq(Entry)
  BY DEF TypeOK
<1>6. t.bits = freejobs \ {v} /\ Numbers(t.list) = Numbers(pwlist) \ {v}
  BY <1>4, <1>5, UnpostSmaller DEF Table
<1>7. Word(0) = 1..W /\ 1..W \subseteq freejobs
  BY <1>1 DEF Word, Free
<1>8. Word(0) \ t.bits = {v}
  BY <1>2, <1>6, <1>7
<1>9. Least({v}) = v
  BY <1>2 DEF Least
<1>10. QED
  BY <1>2, <1>6, <1>8, <1>9 DEF Taken, Marked

LEMMA InFront ==
  ASSUME NEW l \in Seq(Entry), NEW e \in Entry, NEW l2, l2 = <<e>> \o l
  PROVE  /\ l2 \in Seq(Entry) /\ Numbers(l2) = Numbers(l) \union {e.job}
         /\ Single(l) /\ e.job \notin Numbers(l) => Single(l2)
         /\ Apart(l) /\ (\A i \in DOMAIN l : l[i].pid # e.pid) => Apart(l2)
         /\ \A q : Alive(l, q) /\ q[e.pid] # "none" => Alive(l2, q)
<1> DEFINE n == Len(l)
<1>1. /\ n \in Nat /\ DOMAIN l = 1..n /\ l2 \in Seq(Entry) /\ DOMAIN l2 = 1..(n + 1)
      /\ l2[1] = e /\ \A i \in 1..n : l2[i + 1] = l[i] /\ i + 1 \in 1..(n + 1)
  OBVIOUS
<1> HIDE DEF n
<1>2. \A i \in DOMAIN l2 : i # 1 => i - 1 \in DOMAIN l /\ l2[i] = l[i - 1]
  <2> SUFFICES ASSUME NEW i \in DOMAIN l2, i # 1 PROVE i - 1 \in DOMAIN l /\ l2[i] = l[i - 1]
    OBVIOUS
  <2>1. i - 1 \in 1..n /\ (i - 1) + 1 = i
    BY <1>1
  <2>2. QED
    BY <1>1, <2>1
<1>3. 1 \in DOMAIN l2 /\ \A i \in DOMAIN l2 : i \in Nat
  BY <1>1
<1>4. Numbers(l2) = Numbers(l) \union {e.job}
  <2>1. ASSUME NEW x \in Numbers(l) PROVE x \in Numbers(l2)
    <3>1. PICK i \in 1..n : x = l[i].job
      BY <1>1 DEF Numbers
    <3>2. i + 1 \in DOMAIN l2 /\ l2[i + 1].job = x
      BY <1>1, <3>1
    <3>3. QED
      BY <3>2 DEF Numbers
  <2>2. e.job \in Numbers(l2)
    BY <1>1, <1>3 DEF Numbers
  <2>3. \A x \in Numbers(l2) : x \in Numbers(l) \union {e.job}
    BY <1>1, <1>2 DEF Numbers
  <2>4. QED
    BY <2>1, <2>2, <2>3
<1>5. ASSUME Single(l), e.job \notin Numbers(l), NEW i \in DOMAIN l2, NEW k \in DOMAIN l2,
             l2[i].job = l2[k].job
      PROVE  i = k
  <2>1. \A m \in DOMAIN l : l[m].job # e.job
    BY <1>5 DEF Numbers
  <2>2. i = 1 <=> k = 1
    BY <1>1, <1>2, <1>5, <2>1
  <2>3. i # 1 => i - 1 = k - 1
    BY <1>2, <1>5, <2>2 DEF Single
  <2>4. QED
    BY <1>3, <2>2, <2>3
<1>6. ASSUME Apart(l), \A m \in DOMAIN l : l[m].pid # e.pid,
             NEW i \in DOMAIN l2, NEW k \in DOMAIN l2, l2[i].pid = l2[k].pid
      PROVE  i = k
  <2>2. i = 1 <=> k = 1
    BY <1>1, <1>2, <1>6
  <2>3. i # 1 => i - 1 = k - 1
    BY <1>2, <1>6, <2>2 DEF Apart
  <2>4. QED
    BY <1>3, <2>2, <2>3
<1>7. ASSUME NEW q, Alive(l, q), q[e.pid] # "none" PROVE Alive(l2, q)
  BY <1>1, <1>2, <1>7 DEF Alive
<1>8. QED
  BY <1>1, <1>4, <1>5, <1>6, <1>7 DEF Single, Apart

-----------------------------------------------------------------------------
\* What a step leaves of the table

\* new is a process that has been forked.
Forked == pc \in {"alloc", "one", "onetrap", "fg", "fgtrap"} => new.pid \in Pids

TInv == TypeOK /\ Forked

Shrinks ==
  /\ Smaller(pwlist', freejobs', pwlist, freejobs)
  /\ Alive(pwlist, proc) => Alive(pwlist', proc')

LEMMA TableSame == ASSUME TypeOK, UNCHANGED <<pwlist, freejobs>> PROVE Smaller(pwlist', freejobs', pwlist, freejobs)
<1>1. pwlist \in Seq(Entry)
  BY DEF TypeOK
<1>2. Smaller(pwlist, freejobs, pwlist, freejobs)
  BY <1>1, SameSmaller
<1>3. QED
  BY <1>2

\* Steps that leave the table alone
LEMMA QuietShrinks ==
  ASSUME TypeOK, UNCHANGED <<pwlist, freejobs>>,
         \/ UNCHANGED proc
         \/ \E p \in Pids : proc' = [proc EXCEPT ![p] = "zombie"]
  PROVE  Shrinks
<1>1. ASSUME Alive(pwlist, proc) PROVE Alive(pwlist', proc')
  <2>1. \A p \in Pids : proc[p] # "none" => proc'[p] # "none"
    BY DEF TypeOK
  <2>2. \A i \in DOMAIN pwlist : pwlist[i].pid \in Pids
    <3>1. \A i \in DOMAIN pwlist : pwlist[i] \in Entry
      BY DEF TypeOK
    <3>2. QED
      BY <3>1 DEF Entry
  <2>3. QED
    BY <1>1, <2>1, <2>2 DEF Alive
<1>2. QED
  BY <1>1, TableSame DEF Shrinks

\* Steps that only unpost
LEMMA UnpostShrinks ==
  ASSUME UNCHANGED proc, NEW t, Becomes(t), Smaller(t.list, t.bits, pwlist, freejobs)
  PROVE  Shrinks
<1>1. Smaller(pwlist', freejobs', pwlist, freejobs)
  BY DEF Becomes
<1>2. Alive(pwlist, proc) => Alive(pwlist', proc)
  BY <1>1, SmallerAlive
<1>3. QED
  BY <1>1, <1>2 DEF Shrinks, Alive

LEMMA ReapShrinks ==
  ASSUME TypeOK, job_reap(pwlist, numbjob), UNCHANGED freejobs
  PROVE  /\ Shrinks /\ proc' \in [Pids -> {"none", "running", "zombie"}]
         /\ numbjob' \in Int /\ trapnote' \in BOOLEAN
<1>1. pwlist \in Seq(Entry) /\ numbjob \in Int
  BY DEF TypeOK
<1>2. /\ Smaller(pwlist', freejobs, pwlist, freejobs)
      /\ Alive(pwlist, proc) => Alive(pwlist', proc')
      /\ proc' \in [Pids -> {"none", "running", "zombie"}]
      /\ numbjob' \in {0, numbjob} /\ trapnote' \in BOOLEAN
  BY <1>1, ReapedSmaller
<1>3. QED
  BY <1>1, <1>2 DEF Shrinks

LEMMA TrapShrinks ==
  ASSUME TypeOK, NEW from, NEW to, ReapTrap(from, to)
  PROVE  /\ Shrinks /\ proc' \in [Pids -> {"none", "running", "zombie"}]
         /\ numbjob' \in Int /\ trapnote' \in BOOLEAN
<1> DEFINE t == job_chldtrap(pwlist)  n == numbjob - Cardinality(Due(pwlist))
<1>1. pwlist \in Seq(Entry) /\ numbjob \in Int
  BY DEF TypeOK
<1>2. Smaller(t.list, t.bits, pwlist, freejobs) /\ Cardinality(Due(pwlist)) \in Nat
  BY <1>1, TrapSmaller
<1>3. n \in Int
  BY <1>1, <1>2
<1>4. /\ freejobs' = t.bits
      /\ \/ job_reap(t.list, n)
         \/ pwlist' = t.list /\ numbjob' = n /\ UNCHANGED <<proc, trapnote>>
  BY DEF ReapTrap
<1>5. t.list \in Seq(Entry)
  BY <1>2 DEF Smaller
<1> HIDE DEF t, n
<1>6. CASE pwlist' = t.list /\ numbjob' = n /\ UNCHANGED <<proc, trapnote>>
  <2>1. Smaller(pwlist', freejobs', pwlist, freejobs)
    BY <1>2, <1>4, <1>6
  <2>2. Alive(pwlist, proc) => Alive(pwlist', proc')
    <3>1. Alive(pwlist, proc) => Alive(pwlist', proc)
      BY <2>1, SmallerAlive
    <3>2. QED
      BY <1>6, <3>1
  <2>3. proc' \in [Pids -> {"none", "running", "zombie"}] /\ trapnote' \in BOOLEAN
    BY <1>6 DEF TypeOK
  <2>4. QED
    BY <1>3, <1>6, <2>1, <2>2, <2>3 DEF Shrinks
<1>7. CASE job_reap(t.list, n)
  <2>1. /\ Smaller(pwlist', t.bits, t.list, t.bits)
        /\ Alive(t.list, proc) => Alive(pwlist', proc')
        /\ proc' \in [Pids -> {"none", "running", "zombie"}]
        /\ numbjob' \in {0, n} /\ trapnote' \in BOOLEAN
    BY <1>5, <1>7, ReapedSmaller
  <2>2. Smaller(pwlist', freejobs', pwlist, freejobs)
    BY <1>2, <1>4, <2>1, SmallerTwice
  <2>3. Alive(pwlist, proc) => Alive(t.list, proc)
    BY <1>2, SmallerAlive
  <2>4. QED
    BY <1>3, <2>1, <2>2, <2>3 DEF Shrinks
<1>8. QED
  BY <1>4, <1>6, <1>7

\* Fork unposts an entry of the same process number, if there is one.
LEMMA ForkShrinks ==
  ASSUME TypeOK, Fork
  PROVE  /\ Shrinks /\ proc' \in [Pids -> {"none", "running", "zombie"}]
         /\ new' \in [pid : Pids, bg : BOOLEAN] /\ new'.bg = new.bg
         /\ back' \subseteq Pids
         /\ proc[new'.pid] = "none" /\ proc'[new'.pid] = "running"
         /\ \A i \in DOMAIN pwlist : pwlist[i].pid = new'.pid => ~pwlist[i].bg
         /\ LET old == {i \in DOMAIN pwlist : pwlist[i].pid = new'.pid}
            IN  Becomes(IF old = {} THEN Table ELSE job_unpost(Table, pwlist[Least(old)].job))
<1>1. PICK p \in Pids :
         LET old == {i \in DOMAIN pwlist : pwlist[i].pid = p}
         IN  /\ proc[p] = "none" /\ \A i \in old : ~pwlist[i].bg
             /\ Becomes(IF old = {} THEN Table ELSE job_unpost(Table, pwlist[Least(old)].job))
             /\ proc' = [proc EXCEPT ![p] = "running"]
             /\ new' = [new EXCEPT !.pid = p]
             /\ back' = IF new.bg THEN back \union {p} ELSE back
  BY DEF Fork
<1>2. new' \in [pid : Pids, bg : BOOLEAN] /\ new'.pid = p /\ new'.bg = new.bg
  BY <1>1 DEF TypeOK
<1> DEFINE old == {i \in DOMAIN pwlist : pwlist[i].pid = p}
           t == IF old = {} THEN Table ELSE job_unpost(Table, pwlist[Least(old)].job)
<1>3. Becomes(t)
  BY <1>1
<1>4. pwlist \in Seq(Entry)
  BY DEF TypeOK
<1>5. Smaller(t.list, t.bits, pwlist, freejobs)
  <2>1. CASE old = {}
    <3>1. t.list = pwlist /\ t.bits = freejobs
      BY <2>1 DEF Table
    <3>2. Smaller(pwlist, freejobs, pwlist, freejobs)
      BY <1>4, SameSmaller
    <3>3. QED
      BY <3>1, <3>2
  <2>2. CASE old # {}
    <3>1. t = job_unpost([list |-> pwlist, bits |-> freejobs], pwlist[Least(old)].job)
      BY <2>2 DEF Table
    <3> HIDE DEF t
    <3>2. QED
      BY <1>4, <3>1, UnpostSmaller
  <2>3. QED
    BY <2>1, <2>2
<1> HIDE DEF t
<1>6. Smaller(pwlist', freejobs', pwlist, freejobs)
  BY <1>3, <1>5 DEF Becomes
<1>7. proc' \in [Pids -> {"none", "running", "zombie"}] /\ proc'[p] = "running"
  BY <1>1 DEF TypeOK
<1>8. ASSUME Alive(pwlist, proc) PROVE Alive(pwlist', proc')
  <2>1. Alive(pwlist', proc)
    BY <1>6, <1>8, SmallerAlive
  <2>2. \A q \in Pids : proc[q] # "none" => proc'[q] # "none"
    BY <1>1 DEF TypeOK
  <2>3. \A i \in DOMAIN pwlist' : pwlist'[i].pid \in Pids
    <3>1. \A i \in DOMAIN pwlist' : pwlist'[i] \in Entry
      BY <1>6 DEF Smaller
    <3>2. QED
      BY <3>1 DEF Entry
  <2>4. QED
    BY <2>1, <2>2, <2>3 DEF Alive
<1>9. back' \subseteq Pids
  BY <1>1 DEF TypeOK
<1>10. QED
  BY <1>1, <1>2, <1>6, <1>7, <1>8, <1>9 DEF Shrinks

-----------------------------------------------------------------------------
\* Types

LEMMA UnpostersShrink ==
  ASSUME TypeOK, FgDone \/ FgGiveUp \/ OneEnds \/ AllEnds \/ Jobs \/ ChkTrap \/ PostWait
  PROVE  Shrinks /\ UNCHANGED proc /\ numbjob' \in Int /\ trapnote' \in BOOLEAN
<1>1. pwlist \in Seq(Entry) /\ numbjob \in Int /\ trapnote \in BOOLEAN
  BY DEF TypeOK
<1>2. ASSUME NEW j, NEW t, t = unpost_all(job_unpost(Table, j))
      PROVE  Smaller(t.list, t.bits, pwlist, freejobs)
  <2> DEFINE u == job_unpost(Table, j)
  <2>1. u = job_unpost([list |-> pwlist, bits |-> freejobs], j)
    BY DEF Table
  <2>2. u = [list |-> u.list, bits |-> u.bits]
    BY DEF job_unpost, Table
  <2>3. t = unpost_all([list |-> u.list, bits |-> u.bits])
    BY <1>2, <2>2
  <2> HIDE DEF u
  <2>4. Smaller(u.list, u.bits, pwlist, freejobs)
    BY <1>1, <2>1, UnpostSmaller
  <2>5. Smaller(t.list, t.bits, u.list, u.bits)
    BY <2>3, <2>4, UnpostAllSmaller DEF Smaller
  <2>6. QED
    BY <2>4, <2>5, SmallerTwice
<1>3. ASSUME NEW t, t = unpost_all(Table)
      PROVE  Smaller(t.list, t.bits, pwlist, freejobs)
  BY <1>1, <1>3, UnpostAllSmaller DEF Table
<1>4. CASE FgDone
  <2>1. UNCHANGED <<proc, numbjob, trapnote>>
    BY <1>4 DEF FgDone
  <2>2. \E j : Becomes(unpost_all(job_unpost(Table, j)))
    BY <1>4 DEF FgDone
  <2>3. QED
    BY <1>1, <1>2, <2>1, <2>2, UnpostShrinks
<1>5. CASE FgGiveUp \/ Jobs
  <2>1. UNCHANGED <<proc, numbjob, trapnote>> /\ Becomes(unpost_all(Table))
    BY <1>5 DEF FgGiveUp, Jobs
  <2>2. QED
    BY <1>1, <1>3, <2>1, UnpostShrinks
<1>6. CASE OneEnds \/ AllEnds
  <2>1. UNCHANGED <<proc, numbjob, trapnote>> /\ (Becomes(AllGone) \/ UNCHANGED <<pwlist, freejobs>>)
    BY <1>6 DEF OneEnds, AllEnds
  <2>2. QED
    BY <1>1, <2>1, AllGoneSmaller, UnpostShrinks, QuietShrinks
<1>7. CASE ChkTrap
  <2>1. /\ UNCHANGED proc /\ trapnote' = FALSE /\ Becomes(job_chldtrap(pwlist))
        /\ numbjob' = numbjob - Cardinality(Due(pwlist))
    BY <1>7 DEF ChkTrap
  <2>2. Cardinality(Due(pwlist)) \in Nat
    BY <1>1, TrapSmaller
  <2>3. Shrinks
    BY <1>1, <2>1, TrapSmaller, UnpostShrinks
  <2>4. numbjob' \in Int
    BY <1>1, <2>1, <2>2
  <2>5. QED
    BY <2>1, <2>3, <2>4
<1>8. CASE PostWait
  <2>1. UNCHANGED <<proc, numbjob, trapnote>> /\ \E j : Becomes(job_unpost(Table, j))
    BY <1>8 DEF PostWait
  <2>2. QED
    BY <1>1, <2>1, UnpostSmaller, UnpostShrinks DEF Table
<1>9. QED
  BY <1>4, <1>5, <1>6, <1>7, <1>8

\* Every step but those that post an entry leaves a part of the table.
Posting == Post \/ PostFull

LEMMA StepShrinks ==
  ASSUME TypeOK, [Next]_vars, ~Posting
  PROVE  /\ Shrinks /\ proc' \in [Pids -> {"none", "running", "zombie"}]
         /\ numbjob' \in Int /\ trapnote' \in BOOLEAN
<1>0. /\ proc \in [Pids -> {"none", "running", "zombie"}]
      /\ numbjob \in Int /\ trapnote \in BOOLEAN
  BY DEF TypeOK
<1> USE DEF table
<1>1. ASSUME NEW p \in Pids, KidExits(p)
      PROVE  /\ Shrinks /\ proc' \in [Pids -> {"none", "running", "zombie"}]
             /\ numbjob' \in Int /\ trapnote' \in BOOLEAN
  <2>1. proc' = [proc EXCEPT ![p] = "zombie"] /\ UNCHANGED <<pwlist, freejobs, numbjob, trapnote>>
    BY <1>1 DEF KidExits
  <2>2. QED
    BY <1>0, <2>1, QuietShrinks
<1>2. CASE \/ UNCHANGED vars \/ Defer \/ Background \/ Foreground \/ LimitTest \/ WaitAll \/ Check
  <2>1. UNCHANGED <<proc, pwlist, freejobs, trapnote>> /\ numbjob' = numbjob
    BY <1>2 DEF vars, Defer, Background, Foreground, LimitTest, WaitAll, Check
  <2>2. QED
    BY <1>0, <2>1, QuietShrinks
<1>3. CASE HandlerReap \/ LimitReap \/ FgReap \/ OneReap \/ AllReap
  <2>1. job_reap(pwlist, numbjob) /\ UNCHANGED freejobs
    BY <1>3 DEF HandlerReap, LimitReap, FgReap, OneReap, AllReap, WaitReap
  <2>2. QED
    BY <2>1, ReapShrinks
<1>4. CASE \E from, to : ReapTrap(from, to)
  BY <1>4, TrapShrinks
<1>5. CASE FgDone \/ FgGiveUp \/ OneEnds \/ AllEnds \/ Jobs \/ ChkTrap \/ PostWait
  BY <1>0, <1>5, UnpostersShrink
<1>6. CASE Fork
  <2>1. numbjob' \in Int /\ trapnote' \in BOOLEAN
    BY <1>0, <1>6 DEF Fork
  <2>2. QED
    BY <1>6, <2>1, ForkShrinks
<1>7. QED
  BY <1>1, <1>2, <1>3, <1>4, <1>5, <1>6 DEF Next, Main, Handler, Posting

LEMMA OtherTypes ==
  ASSUME TInv, [Next]_vars
  PROVE  /\ script' = script /\ chld' \in {"none", "pending", "saved"}
         /\ bckpid' \in Pids \union {None} /\ pc' \in Labels
         /\ new' \in [pid : Pids \union {None}, bg : BOOLEAN] /\ res' \in {"some", "none", "idle"}
         /\ back' \subseteq Pids /\ Forked'
<1>0. /\ chld \in {"none", "pending", "saved"}
      /\ bckpid \in Pids \union {None} /\ pc \in Labels
      /\ new \in [pid : Pids \union {None}, bg : BOOLEAN] /\ res \in {"some", "none", "idle"}
      /\ back \subseteq Pids /\ Forked
  BY DEF TInv, TypeOK
<1> DEFINE Good == /\ script' = script /\ chld' \in {"none", "pending", "saved"}
                   /\ bckpid' \in Pids \union {None} /\ pc' \in Labels
                   /\ new' \in [pid : Pids \union {None}, bg : BOOLEAN]
                   /\ res' \in {"some", "none", "idle"}
                   /\ back' \subseteq Pids /\ Forked'
<1>1. ASSUME NEW p \in Pids, KidExits(p) PROVE Good
  BY <1>0, <1>1 DEF KidExits, Forked
<1>2. CASE UNCHANGED vars \/ Handler
  BY <1>0, <1>2 DEF vars, Handler, Defer, HandlerReap, Forked
<1>3. CASE Background \/ Foreground \/ WaitAll
  <2>1. [pid |-> None, bg |-> TRUE] \in [pid : Pids \union {None}, bg : BOOLEAN]
        /\ [pid |-> None, bg |-> FALSE] \in [pid : Pids \union {None}, bg : BOOLEAN]
    OBVIOUS
  <2>2. QED
    BY <1>0, <1>3, <2>1 DEF Background, Foreground, WaitAll, Forked, Labels
<1>4. CASE LimitTest \/ LimitReap \/ ReapTrap("limittrap", "limit") \/ Check \/ ChkTrap \/ Jobs
  BY <1>0, <1>4 DEF LimitTest, LimitReap, ReapTrap, Check, ChkTrap, Jobs, Taking, Forked, Labels
<1>5. CASE ReapTrap("onetrap", "one") \/ ReapTrap("fgtrap", "fg") \/ ReapTrap("alltrap", "all")
  BY <1>0, <1>5 DEF ReapTrap, Taking, Forked, Labels
<1>6. CASE FgReap \/ OneReap \/ AllReap
  BY <1>0, <1>6 DEF FgReap, OneReap, AllReap, WaitReap, Taking, Forked, Labels
<1>7. CASE FgDone \/ FgGiveUp \/ OneEnds \/ AllEnds
  BY <1>0, <1>7 DEF FgDone, FgGiveUp, OneEnds, AllEnds, Forked, Labels
<1>8. CASE Fork
  <2>1. new' \in [pid : Pids, bg : BOOLEAN] /\ back' \subseteq Pids
    BY <1>8, ForkShrinks DEF TInv
  <2>2. UNCHANGED <<script, chld, bckpid, res>> /\ pc' = "alloc"
    BY <1>8 DEF Fork
  <2>3. QED
    BY <1>0, <2>1, <2>2 DEF Forked, Labels
<1>9. CASE Post \/ PostFull
  <2>1. pc = "alloc" /\ \E j, l, bits : PostAs(j, l, bits)
    BY <1>9 DEF Post, PostFull
  <2>2. QED
    BY <1>0, <2>1 DEF PostAs, Forked, Labels
<1>10. CASE PostWait
  BY <1>0, <1>10 DEF PostWait, Forked, Labels
<1>11. QED
  BY <1>1, <1>2, <1>3, <1>4, <1>5, <1>6, <1>7, <1>8, <1>9, <1>10 DEF Next, Main

\* What is posted, and in front of what
LEMMA PostIs ==
  ASSUME TInv, Posting
  PROVE  \E j \in Nat \ {0}, l \in Seq(Entry) :
           LET e == [pid |-> new.pid, job |-> j, bg |-> new.bg, done |-> FALSE]
           IN  /\ pc = "alloc" /\ pc' \in {"check", "fg"} /\ UNCHANGED <<proc, numbjob, trapnote, new>>
               /\ e \in Entry /\ pwlist' = <<e>> \o l /\ freejobs' \subseteq 1..(Words * W)
               /\ \/ Free # {} /\ l = pwlist /\ j \notin freejobs /\ freejobs' = freejobs \union {j}
                  \/ /\ Free = {}
                     /\ \E v \in Victims : \E t \in {job_unpost(Table, v)} :
                          /\ v \div W < Words /\ l = t.list /\ j = Taken(t.bits, v \div W)
                          /\ freejobs' = Marked(t.bits, v \div W)
<1>0. TypeOK /\ pwlist \in Seq(Entry) /\ freejobs \subseteq 1..(Words * W) /\ Words * W \in Nat
  BY WordsIs DEF TInv, TypeOK
<1>1. pc = "alloc" /\ new.pid \in Pids /\ new.bg \in BOOLEAN
  BY DEF Posting, Post, PostFull, TInv, TypeOK, Forked
<1>2. \A j \in Nat \ {0} : [pid |-> new.pid, job |-> j, bg |-> new.bg, done |-> FALSE] \in Entry
  BY <1>1 DEF Entry
<1>3. CASE Post
  <2> DEFINE j == Least(Free)
  <2>1. Free # {} /\ PostAs(j, pwlist, freejobs \union {j})
    BY <1>3 DEF Post
  <2>2. Free \subseteq Nat
    BY DEF Free
  <2>3. j \in Free
    BY <2>1, <2>2, LeastNumber
  <2> HIDE DEF j
  <2>4. j \in Nat \ {0} /\ j \notin freejobs /\ freejobs \union {j} \subseteq 1..(Words * W)
    BY <1>0, <2>3 DEF Free
  <2>5. /\ pwlist' = <<[pid |-> new.pid, job |-> j, bg |-> new.bg, done |-> FALSE]>> \o pwlist
        /\ freejobs' = freejobs \union {j} /\ pc' \in {"check", "fg"}
        /\ UNCHANGED <<proc, numbjob, trapnote, new>>
    BY <2>1 DEF PostAs
  <2>6. QED
    BY <1>0, <1>1, <1>2, <2>1, <2>4, <2>5
<1>4. CASE PostFull
  <2>1. Free = {}
    BY <1>4 DEF PostFull
  <2>2. PICK v \in Victims :
           LET w == v \div W
               t == job_unpost(Table, v)
           IN  w < Words /\ PostAs(Taken(t.bits, w), t.list, Marked(t.bits, w))
    BY <1>4 DEF PostFull
  <2> DEFINE t == job_unpost(Table, v)  w == v \div W  j == Taken(t.bits, w)
  <2>3. Smaller(t.list, t.bits, pwlist, freejobs)
    <3>1. t = job_unpost([list |-> pwlist, bits |-> freejobs], v)
      BY DEF Table
    <3> HIDE DEF t
    <3>2. QED
      BY <1>0, <3>1, UnpostSmaller
  <2>4. w \in Nat /\ w < Words
    <3>1. v \in Nat /\ W \in Nat \ {0}
      BY TableAssumption DEF Victims
    <3>2. QED
      BY <2>2, <3>1
  <2>5. PostAs(j, t.list, Marked(t.bits, w)) /\ t \in {job_unpost(Table, v)}
    BY <2>2
  <2> HIDE DEF t, w
  <2>6. t.list \in Seq(Entry) /\ t.bits \subseteq 1..(Words * W)
    BY <1>0, <2>3 DEF Smaller
  <2>7. j \in Nat \ {0} /\ Marked(t.bits, w) \subseteq 1..(Words * W)
    BY <1>0, <2>4, <2>6, MarkedIs
  <2> HIDE DEF j
  <2>8. /\ pwlist' = <<[pid |-> new.pid, job |-> j, bg |-> new.bg, done |-> FALSE]>> \o t.list
        /\ freejobs' = Marked(t.bits, w) /\ pc' \in {"check", "fg"}
        /\ UNCHANGED <<proc, numbjob, trapnote, new>>
    BY <2>5 DEF PostAs
  <2>9. /\ Free = {}
        /\ \E x \in Victims : \E u \in {job_unpost(Table, x)} :
             /\ x \div W < Words /\ t.list = u.list /\ j = Taken(u.bits, x \div W)
             /\ freejobs' = Marked(u.bits, x \div W)
    BY <2>1, <2>4, <2>5, <2>8 DEF j, w
  <2>10. QED
    BY <1>1, <1>2, <2>6, <2>7, <2>8, <2>9
<1>5. QED
  BY <1>3, <1>4 DEF Posting

LEMMA TypesKept == ASSUME TInv, [Next]_vars PROVE TInv'
<1>1. /\ script' = script /\ chld' \in {"none", "pending", "saved"}
      /\ bckpid' \in Pids \union {None} /\ pc' \in Labels
      /\ new' \in [pid : Pids \union {None}, bg : BOOLEAN] /\ res' \in {"some", "none", "idle"}
      /\ back' \subseteq Pids /\ Forked'
  BY OtherTypes
<1>2. Words' = Words /\ script \in Scripts
  BY <1>1 DEF Words, TInv, TypeOK
<1>3. /\ pwlist' \in Seq(Entry) /\ freejobs' \subseteq 1..(Words * W)
      /\ proc' \in [Pids -> {"none", "running", "zombie"}]
      /\ numbjob' \in Int /\ trapnote' \in BOOLEAN
  <2>1. CASE Posting
    <3>1. PICK j \in Nat \ {0}, l \in Seq(Entry) :
            LET e == [pid |-> new.pid, job |-> j, bg |-> new.bg, done |-> FALSE]
            IN  /\ UNCHANGED <<proc, numbjob, trapnote>>
                /\ e \in Entry /\ pwlist' = <<e>> \o l /\ freejobs' \subseteq 1..(Words * W)
      BY <2>1, PostIs
    <3>2. pwlist' \in Seq(Entry)
      BY <3>1, InFront
    <3>3. QED
      BY <3>1, <3>2 DEF TInv, TypeOK
  <2>2. CASE ~Posting
    <3>1. /\ Shrinks /\ proc' \in [Pids -> {"none", "running", "zombie"}]
          /\ numbjob' \in Int /\ trapnote' \in BOOLEAN
      BY <2>2, StepShrinks DEF TInv
    <3>2. freejobs \subseteq 1..(Words * W)
      BY DEF TInv, TypeOK
    <3>3. QED
      BY <3>1, <3>2 DEF Shrinks, Smaller
  <2>3. QED
    BY <2>1, <2>2
<1>4. QED
  BY <1>1, <1>2, <1>3 DEF TInv, TypeOK

LEMMA TInvHolds == Spec => []TInv
<1>1. Init => TInv
  <2> SUFFICES ASSUME Init PROVE TInv
    OBVIOUS
  <2>1. new \in [pid : Pids \union {None}, bg : BOOLEAN]
    BY DEF Init
  <2>2. pwlist \in Seq(Entry) /\ numbjob \in Int /\ freejobs \subseteq 1..(Words * W)
    BY DEF Init
  <2>3. QED
    BY <2>1, <2>2 DEF Init, TInv, TypeOK, Forked, Labels
<1>2. TInv /\ [Next]_vars => TInv'
  BY TypesKept
<1>3. QED
  BY <1>1, <1>2, PTL DEF Spec

(* The table and its counters have their types: job_alloc marks no bit      *)
(* beyond the vector, whatever child_max is and whatever it finds in the    *)
(* word it looks in when every number is taken.                             *)
THEOREM TypeCorrect == Spec => []TypeOK
<1>1. TInv => TypeOK
  BY DEF TInv
<1>2. QED
  BY <1>1, TInvHolds, PTL

-----------------------------------------------------------------------------
\* What a job_reap and its trap do to the processes

(* A job_reap and its trap start nothing: a process that is taken was a zombie. *)
LEMMA TrapRuns ==
  /\ \A n : job_reap(pwlist, n) => (NoChild => NoChild')
  /\ \A from, to : ReapTrap(from, to) => /\ pc = from /\ pc' = to /\ res' = res
                                         /\ NoChild => NoChild'
<1>0. ASSUME proc' = [p \in Pids |-> IF proc[p] = "zombie" THEN "none" ELSE proc[p]]
      PROVE  NoChild => NoChild'
  BY <1>0 DEF NoChild, Running
<1>a. \A n : job_reap(pwlist, n) => (NoChild => NoChild')
  BY <1>0 DEF job_reap
<1> SUFFICES ASSUME NEW from, NEW to, ReapTrap(from, to)
             PROVE  /\ pc = from /\ pc' = to /\ res' = res
                    /\ NoChild => NoChild'
  BY <1>a
<1>1. pc = from /\ pc' = to /\ res' = res
  BY DEF ReapTrap
<1>2. \/ proc' = [p \in Pids |-> IF proc[p] = "zombie" THEN "none" ELSE proc[p]]
      \/ proc' = proc
  BY DEF ReapTrap, job_reap
<1>3. NoChild => NoChild'
  BY <1>0, <1>2 DEF NoChild, Running
<1> QED BY <1>1, <1>3

-----------------------------------------------------------------------------
\* One number for each job

Limited  == script.limit = W \/ script.limit > Cardinality(Pids)
Numbered == Limited => Single(pwlist) /\ freejobs = Numbers(pwlist)

\* With numbers for all jobs an entry never outlives its process number: it is
\* marked done before the number can be used again, and unposted then.
Sound ==
  script.limit > Cardinality(Pids) =>
    /\ Apart(pwlist) /\ Alive(pwlist, proc)
    /\ pc = "alloc" => /\ proc[new.pid] # "none"
                       /\ \A i \in DOMAIN pwlist : pwlist[i].pid # new.pid
    /\ pc \notin {"one", "onetrap"}

NInv == Numbered /\ Sound

\* So there is a number for the next one.
LEMMA NumberFree ==
  ASSUME TInv, NInv, pc = "alloc", script.limit > Cardinality(Pids)
  PROVE  Free # {}
<1> DEFINE n == Len(pwlist)  P == Pids \ {new.pid}
<1>1. /\ pwlist \in Seq(Entry) /\ n \in Nat /\ DOMAIN pwlist = 1..n
      /\ new.pid \in Pids /\ freejobs = Numbers(pwlist)
      /\ Apart(pwlist) /\ \A i \in DOMAIN pwlist : pwlist[i].pid # new.pid
  BY DEF TInv, TypeOK, Forked, NInv, Numbered, Limited, Sound
<1>2. \A i \in 1..n : pwlist[i] \in Entry /\ pwlist[i].pid \in P
  <2>1. \A i \in 1..n : pwlist[i] \in Entry
    BY <1>1
  <2>2. QED
    BY <1>1, <2>1 DEF Entry
<1> HIDE DEF n
<1>3. IsFiniteSet(P) /\ Cardinality(P) = Cardinality(Pids) - 1 /\ Cardinality(Pids) \in Nat
  BY <1>1, TableAssumption, FS_RemoveElement, FS_CardinalityType
<1> HIDE DEF P
<1>4. IsFiniteSet(1..n) /\ Cardinality(1..n) = n
  BY <1>1, FS_Interval
<1>5. n <= Cardinality(P)
  <2> DEFINE f == [i \in 1..n |-> pwlist[i].pid]
  <2>1. f \in [1..n -> P] /\ \A i, k \in 1..n : f[i] = f[k] => i = k
    BY <1>1, <1>2 DEF Apart
  <2> HIDE DEF f
  <2>2. f \in Injection(1..n, P)
    BY <2>1 DEF Injection, IsInjective
  <2>3. QED
    BY <1>3, <1>4, <2>2, FS_Injection
<1>6. IsFiniteSet(freejobs) /\ Cardinality(freejobs) <= n
  <2> DEFINE g == [i \in 1..n |-> pwlist[i].job]
  <2>1. g \in [1..n -> freejobs] /\ \A x \in freejobs : \E i \in 1..n : g[i] = x
    BY <1>1 DEF Numbers
  <2> HIDE DEF g
  <2>2. g \in Surjection(1..n, freejobs)
    BY <2>1 DEF Surjection
  <2>3. QED
    BY <1>4, <2>2, FS_Surjection
<1>7. ASSUME Free = {} PROVE FALSE
  <2> DEFINE k == Words * W
  <2>1. k \in Nat /\ script.limit <= k /\ script.limit \in Nat
    BY WordsIs DEF TInv
  <2>2. 1..k \in SUBSET freejobs
    BY <1>7 DEF Free
  <2> HIDE DEF k
  <2>3. Cardinality(1..k) = k
    BY <2>1, FS_Interval
  <2>4. Cardinality(1..k) <= Cardinality(freejobs)
    BY ONLY <1>6, <2>2, FS_Subset
  <2>a. Cardinality(freejobs) \in Nat
    BY <1>6, FS_CardinalityType
  <2>5. QED
    BY <1>1, <1>3, <1>5, <1>6, <2>1, <2>3, <2>4, <2>a
<1>8. QED
  BY <1>7

\* job_post adds a number that no entry has.
LEMMA PostNumbers == ASSUME TInv, NInv, Posting PROVE NInv'
<1>0. TypeOK /\ script' = script /\ pwlist \in Seq(Entry)
  BY OtherTypes DEF TInv, TypeOK, Next, Main, Posting
<1>1. PICK j \in Nat \ {0}, l \in Seq(Entry) :
        LET e == [pid |-> new.pid, job |-> j, bg |-> new.bg, done |-> FALSE]
        IN  /\ pc = "alloc" /\ pc' \in {"check", "fg"} /\ UNCHANGED <<proc, numbjob, trapnote, new>>
            /\ e \in Entry /\ pwlist' = <<e>> \o l /\ freejobs' \subseteq 1..(Words * W)
            /\ \/ Free # {} /\ l = pwlist /\ j \notin freejobs /\ freejobs' = freejobs \union {j}
               \/ /\ Free = {}
                  /\ \E v \in Victims : \E t \in {job_unpost(Table, v)} :
                       /\ v \div W < Words /\ l = t.list /\ j = Taken(t.bits, v \div W)
                       /\ freejobs' = Marked(t.bits, v \div W)
  BY PostIs
<1> DEFINE e == [pid |-> new.pid, job |-> j, bg |-> new.bg, done |-> FALSE]
<1>2. e \in Entry /\ e.job = j /\ e.pid = new.pid /\ pwlist' = <<e>> \o l
  BY <1>1
<1> HIDE DEF e
<1>3. /\ Numbers(pwlist') = Numbers(l) \union {j}
      /\ Single(l) /\ j \notin Numbers(l) => Single(pwlist')
      /\ Apart(l) /\ (\A i \in DOMAIN l : l[i].pid # new.pid) => Apart(pwlist')
      /\ \A q : Alive(l, q) /\ q[new.pid] # "none" => Alive(pwlist', q)
  BY <1>2, InFront
<1>4. script.limit > Cardinality(Pids) => Free # {}
  BY <1>1, NumberFree
<1>5. Sound'
  <2> SUFFICES ASSUME script.limit > Cardinality(Pids)
               PROVE  Apart(pwlist') /\ Alive(pwlist', proc') /\ pc' \notin {"alloc", "one", "onetrap"}
    BY <1>0 DEF Sound
  <2>1. l = pwlist
    BY <1>1, <1>4
  <2>2. /\ Apart(pwlist) /\ Alive(pwlist, proc) /\ proc[new.pid] # "none"
        /\ \A i \in DOMAIN pwlist : pwlist[i].pid # new.pid
    BY <1>1 DEF NInv, Sound
  <2>3. QED
    BY <1>1, <1>3, <2>1, <2>2
<1>6. Numbered'
  <2> SUFFICES ASSUME Limited PROVE Single(pwlist') /\ freejobs' = Numbers(pwlist')
    BY <1>0 DEF Numbered, Limited
  <2>1. Single(pwlist) /\ freejobs = Numbers(pwlist)
    BY DEF NInv, Numbered
  <2>2. CASE Free # {}
    BY <1>1, <1>3, <2>1, <2>2
  <2>3. CASE Free = {}
    <3>1. PICK v \in Victims : \E t \in {job_unpost(Table, v)} :
             /\ v \div W < Words /\ l = t.list /\ j = Taken(t.bits, v \div W)
             /\ freejobs' = Marked(t.bits, v \div W)
      BY <1>1, <2>3
    <3>2. PICK t \in {job_unpost(Table, v)} :
             /\ v \div W < Words /\ l = t.list /\ j = Taken(t.bits, v \div W)
             /\ freejobs' = Marked(t.bits, v \div W)
      BY <3>1
    <3>3. script.limit = W
      BY <1>4, <2>3 DEF Limited
    <3>4. j = v /\ v \notin Numbers(l) /\ freejobs' = t.bits \union {v}
      BY <1>0, <2>1, <2>3, <3>2, <3>3, OnlyWord
    <3>5. Single(l) /\ t.bits = Numbers(l)
      <4>1. t = job_unpost([list |-> pwlist, bits |-> freejobs], v)
        BY <3>2 DEF Table
      <4>2. Smaller(t.list, t.bits, pwlist, freejobs)
        BY <1>0, <4>1, UnpostSmaller
      <4>3. QED
        BY <2>1, <3>2, <4>2 DEF Smaller
    <3>6. QED
      BY <1>3, <3>4, <3>5
  <2>4. QED
    BY <2>2, <2>3
<1>7. QED
  BY <1>5, <1>6 DEF NInv

\* After sh_fork no entry has the number of the new process.
LEMMA ForkApart ==
  ASSUME TInv, NInv, Fork, script.limit > Cardinality(Pids)
  PROVE  \A i \in DOMAIN pwlist' : pwlist'[i].pid # new'.pid
<1> DEFINE old == {i \in DOMAIN pwlist : pwlist[i].pid = new'.pid}
<1>1. /\ pwlist \in Seq(Entry) /\ Apart(pwlist) /\ Alive(pwlist, proc)
      /\ Single(pwlist)
  BY DEF TInv, TypeOK, NInv, Sound, Numbered, Limited
<1>2. /\ Shrinks /\ proc[new'.pid] = "none"
      /\ \A i \in DOMAIN pwlist : pwlist[i].pid = new'.pid => ~pwlist[i].bg
      /\ Becomes(IF old = {} THEN Table ELSE job_unpost(Table, pwlist[Least(old)].job))
  BY ForkShrinks DEF TInv
<1>3. CASE old = {}
  <2>1. pwlist' = pwlist
    BY <1>2, <1>3 DEF Becomes, Table
  <2>2. QED
    BY <1>3, <2>1
<1>4. CASE old # {}
  <2>1. old \subseteq Nat
    BY <1>1
  <2> DEFINE o == Least(old)
  <2>2. o \in DOMAIN pwlist /\ pwlist[o].pid = new'.pid
    BY <1>4, <2>1, LeastNumber
  <2>3. PICK t : t = job_unpost([list |-> pwlist, bits |-> freejobs], pwlist[o].job) /\ pwlist' = t.list
    BY <1>2, <1>4 DEF Becomes, Table
  <2> HIDE DEF o, old
  <2>4. ~pwlist[o].bg /\ pwlist[o].done
    BY <1>1, <1>2, <2>2 DEF Alive
  <2> DEFINE j == pwlist[o].job  k == job_byjid(pwlist, j)
  <2>5. k = o
    <3> DEFINE at == {i \in DOMAIN pwlist : pwlist[i].job = j}
    <3>1. at = {o}
      BY <1>1, <2>2 DEF Single
    <3>2. k # 0
      <4>1. o \in Nat \ {0}
        BY <1>1, <2>2
      <4>2. (CHOOSE i \in {o} : \A x \in {o} : i <= x) = o
        BY <4>1
      <4>3. QED
        BY <3>1, <4>1, <4>2 DEF job_byjid
    <3>3. k \in DOMAIN pwlist /\ pwlist[k].job = j
      BY <1>1, <3>2, JidIs
    <3>4. QED
      BY <1>1, <2>2, <3>3 DEF Single
  <2>6. o # 0
    BY <1>1, <2>2
  <2>7. pwlist' = Entries(pwlist, DOMAIN pwlist \ {o})
    BY <2>3, <2>4, <2>5, <2>6 DEF job_unpost, Unposted, Without
  <2>8. Part(pwlist', pwlist, DOMAIN pwlist \ {o})
    BY <1>1, <2>7, EntriesIs
  <2>9. \A i \in DOMAIN pwlist' : \E m \in DOMAIN pwlist \ {o} : pwlist'[i] = pwlist[m]
    BY <2>8 DEF Part
  <2>10. QED
    BY <1>1, <2>2, <2>9 DEF Apart
<1>5. QED
  BY <1>3, <1>4

LEMMA OtherNumbers == ASSUME TInv, NInv, [Next]_vars, ~Posting PROVE NInv'
<1>0. script' = script /\ Shrinks
  BY OtherTypes, StepShrinks DEF TInv
<1>1. Numbered'
  BY <1>0 DEF NInv, Numbered, Limited, Shrinks, Smaller
<1>2. Sound'
  <2> SUFFICES ASSUME script.limit > Cardinality(Pids)
               PROVE  /\ Apart(pwlist') /\ Alive(pwlist', proc')
                      /\ pc' = "alloc" => /\ proc'[new'.pid] # "none"
                                          /\ \A i \in DOMAIN pwlist' : pwlist'[i].pid # new'.pid
                      /\ pc' \notin {"one", "onetrap"}
    BY <1>0 DEF Sound
  <2>0. pc \notin {"one", "onetrap"}
    BY DEF NInv, Sound
  <2>1. Apart(pwlist') /\ Alive(pwlist', proc')
    BY <1>0 DEF NInv, Sound, Shrinks, Smaller
  <2>2. pc' \notin {"one", "onetrap"} /\ (pc' = "alloc" => pc = "alloc" \/ Fork)
    <3>1. ASSUME NEW p \in Pids, KidExits(p) PROVE pc' = pc
      BY <3>1 DEF KidExits
    <3>2. CASE UNCHANGED vars \/ Handler
      <4>1. pc' = pc
        BY <3>2 DEF vars, Handler, Defer, HandlerReap
      <4>2. QED
        BY <2>0, <4>1
    <3>3. CASE \/ Background \/ Foreground \/ LimitTest \/ LimitReap \/ Fork \/ FgDone \/ FgReap
               \/ FgGiveUp \/ WaitAll \/ AllReap \/ AllEnds \/ Jobs \/ Check \/ ChkTrap
      BY <3>3 DEF Background, Foreground, LimitTest, LimitReap, Fork, FgDone, FgReap,
                  FgGiveUp, WaitAll, AllReap, AllEnds, Jobs, Check, ChkTrap, WaitReap
    <3>4. CASE \/ ReapTrap("limittrap", "limit") \/ ReapTrap("onetrap", "one")
               \/ ReapTrap("fgtrap", "fg") \/ ReapTrap("alltrap", "all")
      BY <2>0, <3>4, TrapRuns
    <3>5. ~OneReap /\ ~OneEnds
      BY <2>0 DEF OneReap, OneEnds, WaitReap
    <3>6. ~PostWait
      BY NumberFree DEF PostWait
    <3>7. QED
      BY <2>0, <3>1, <3>2, <3>3, <3>4, <3>5, <3>6 DEF Next, Main, Posting
  <2>3. CASE Fork
    <3>1. proc'[new'.pid] # "none"
      BY <2>3, ForkShrinks DEF TInv
    <3>2. QED
      BY <2>1, <2>2, <2>3, <3>1, ForkApart
  <2>4. CASE ~Fork
    <3> SUFFICES ASSUME pc' = "alloc", pc = "alloc"
                 PROVE  /\ proc'[new'.pid] # "none"
                        /\ \A i \in DOMAIN pwlist' : pwlist'[i].pid # new'.pid
      BY <2>1, <2>2, <2>4
    <3>1. new' = new /\ pwlist' = pwlist /\ (proc' = proc \/ \E p \in Pids : proc' = [proc EXCEPT ![p] = "zombie"])
      <4>1. ASSUME NEW p \in Pids, KidExits(p)
            PROVE  new' = new /\ pwlist' = pwlist /\ proc' = [proc EXCEPT ![p] = "zombie"]
        BY <4>1 DEF KidExits, table
      <4>2. CASE UNCHANGED vars \/ Defer
        BY <4>2 DEF vars, Defer, table
      <4>3. ~HandlerReap
        BY DEF HandlerReap, Locked
      <4>4. ~Main
        <5>1. ~(\/ Background \/ Foreground \/ LimitTest \/ LimitReap \/ FgDone \/ FgReap
                \/ FgGiveUp \/ WaitAll \/ AllReap \/ AllEnds \/ Jobs \/ Check \/ ChkTrap
                \/ OneReap \/ OneEnds)
          BY DEF Background, Foreground, LimitTest, LimitReap, FgDone, FgReap,
                 FgGiveUp, WaitAll, AllReap, AllEnds, Jobs, Check, ChkTrap, WaitReap, At,
                 OneReap, OneEnds
        <5>2. ~(\/ ReapTrap("limittrap", "limit") \/ ReapTrap("onetrap", "one")
                \/ ReapTrap("fgtrap", "fg") \/ ReapTrap("alltrap", "all"))
          BY TrapRuns
        <5>3. ~PostWait
          BY NumberFree DEF PostWait
        <5>4. QED
          BY <2>4, <5>1, <5>2, <5>3 DEF Main, Posting
      <4>5. QED
        BY <4>1, <4>2, <4>3, <4>4 DEF Next, Handler
    <3>2. \A p \in Pids : proc[p] # "none" => proc'[p] # "none"
      BY <3>1 DEF TInv, TypeOK
    <3>3. new.pid \in Pids /\ proc[new.pid] # "none" /\ \A i \in DOMAIN pwlist : pwlist[i].pid # new.pid
      BY DEF TInv, Forked, NInv, Sound
    <3>4. QED
      BY <3>1, <3>2, <3>3
  <2>5. QED
    BY <2>3, <2>4
<1>3. QED
  BY <1>1, <1>2 DEF NInv

(* No two jobs have one number, and the vector has the bits of the jobs     *)
(* there are, with more numbers than processes there can be or a vector of  *)
(* one full word, whatever is posted, reaped, announced and unposted.       *)
THEOREM UniqueNumbersHolds == Spec => []UniqueNumbers
<1>1. Init => NInv
  <2> SUFFICES ASSUME Init PROVE NInv
    OBVIOUS
  <2>1. DOMAIN pwlist = {} /\ freejobs = {} /\ pc = "home"
    BY DEF Init
  <2>2. QED
    BY <2>1 DEF NInv, Numbered, Sound, Single, Apart, Alive, Numbers
<1>2. NInv /\ TInv /\ [Next]_vars => NInv'
  BY PostNumbers, OtherNumbers
<1>3. NInv => UniqueNumbers
  BY DEF NInv, Numbered, Limited, Single, Numbers, UniqueNumbers
<1>4. QED
  BY <1>1, <1>2, <1>3, TInvHolds, PTL DEF Spec

-----------------------------------------------------------------------------
\* wait without arguments

Waiting == {"all", "alltrap"}

(* While wait without arguments lasts, "none" is still true of the kernel. *)
StaysNone == pc \in Waiting /\ res = "none" => NoChild

(* Only the wait itself, the trap in it and a job_reap of it go on waiting;
   every step that starts a process goes elsewhere. *)
LEMMA NonePersists ==
  ASSUME StaysNone, [Next]_vars
  PROVE  StaysNone'
<1> SUFFICES ASSUME pc' \in Waiting, res' = "none"
             PROVE  NoChild'
  BY DEF StaysNone
<1> USE DEF Waiting
<1>1. CASE UNCHANGED vars
  BY <1>1 DEF vars, StaysNone, NoChild, Running
<1>2. ASSUME NEW p \in Pids, KidExits(p)
      PROVE  NoChild'
  <2>1. pc' = pc /\ res' = res /\ proc[p] = "running"
    BY <1>2 DEF KidExits
  <2> QED BY <2>1 DEF StaysNone, NoChild, Running
<1>3. CASE Defer
  BY <1>3 DEF Defer, StaysNone, NoChild, Running
<1>4. CASE HandlerReap
  <2>1. pc' = pc /\ res' = res
    BY <1>4 DEF HandlerReap
  <2>2. NoChild => NoChild'
    BY <1>4, TrapRuns DEF HandlerReap
  <2> QED BY <2>1, <2>2 DEF StaysNone
<1>5. CASE AllReap
  <2>1. res' = IF Zombies # {} THEN "some" ELSE IF NoChild THEN "none" ELSE "idle"
    BY <1>5 DEF AllReap, WaitReap
  <2>2. NoChild
    BY <2>1
  <2>3. NoChild => NoChild'
    BY <1>5, TrapRuns DEF AllReap, WaitReap
  <2> QED BY <2>2, <2>3
<1>6. CASE ReapTrap("alltrap", "all")
  BY <1>6, TrapRuns DEF StaysNone
<1>7. CASE \/ ReapTrap("limittrap", "limit") \/ ReapTrap("onetrap", "one")
           \/ ReapTrap("fgtrap", "fg")
  BY <1>7, TrapRuns
<1>8. CASE WaitAll
  BY <1>8 DEF WaitAll
<1>9. CASE Background \/ Foreground \/ LimitTest \/ LimitReap
  BY <1>9 DEF Background, Foreground, LimitTest, LimitReap
<1>10. CASE Fork \/ Post \/ PostFull \/ PostWait
  BY <1>10 DEF Fork, Post, PostFull, PostWait, PostAs
<1>11. CASE FgDone \/ FgReap \/ FgGiveUp \/ OneReap \/ OneEnds
  BY <1>11 DEF FgDone, FgReap, FgGiveUp, OneReap, OneEnds, WaitReap
<1>12. CASE AllEnds \/ Jobs \/ Check \/ ChkTrap
  BY <1>12 DEF AllEnds, Jobs, Check, ChkTrap
<1> QED
  BY <1>1, <1>2, <1>3, <1>4, <1>5, <1>6, <1>7, <1>8, <1>9, <1>10, <1>11, <1>12
  DEF Next, Main, Handler

(* wait without arguments ends with no child, unless a trap is pending. *)
THEOREM WaitedForAllHolds == Spec => WaitedForAll
<1>1. Init => StaysNone
  BY DEF Init, StaysNone, Waiting
<1>2. StaysNone /\ [Next]_vars => StaysNone'
  BY NonePersists
<1>3. StaysNone /\ [Next]_vars => [pc = "all" /\ pc' = "check" /\ ~trapnote => NoChild]_vars
  \* The step to "check" is the end of the wait: without a child, or with a trap.
  <2> SUFFICES ASSUME StaysNone, [Next]_vars, pc = "all", pc' = "check", ~trapnote
               PROVE  NoChild
    OBVIOUS
  <2>1. ~UNCHANGED vars
    BY DEF vars
  <2>2. ASSUME NEW p \in Pids, KidExits(p)
        PROVE  FALSE
    BY <2>2 DEF KidExits
  <2>3. ~Handler
    BY DEF Handler, Defer, HandlerReap
  <2>4. ~(Background \/ Foreground \/ LimitTest \/ LimitReap)
    BY DEF Background, Foreground, LimitTest, LimitReap, At
  <2>5. /\ ~ReapTrap("limittrap", "limit") /\ ~ReapTrap("onetrap", "one")
        /\ ~ReapTrap("fgtrap", "fg") /\ ~ReapTrap("alltrap", "all")
    BY TrapRuns
  <2>6. ~(Fork \/ Post \/ PostFull \/ PostWait)
    BY DEF Fork, Post, PostFull, PostWait, At
  <2>7. ~(FgDone \/ FgReap \/ FgGiveUp \/ OneReap \/ OneEnds)
    BY DEF FgDone, FgReap, FgGiveUp, OneReap, OneEnds, WaitReap
  <2>8. ~(WaitAll \/ AllReap \/ Jobs \/ Check \/ ChkTrap)
    BY DEF WaitAll, AllReap, WaitReap, Jobs, Check, ChkTrap, At
  <2>9. AllEnds
    BY <2>1, <2>2, <2>3, <2>4, <2>5, <2>6, <2>7, <2>8 DEF Next, Main
  <2>10. res = "none"
    BY <2>9 DEF AllEnds
  <2> QED BY <2>10 DEF StaysNone, Waiting
<1> QED
  BY <1>1, <1>2, <1>3, PTL DEF Spec, WaitedForAll
=============================================================================
