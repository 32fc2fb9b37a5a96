---------------------------- MODULE HistoryProofs ---------------------------
(***************************************************************************)
(* Theorems about History, for any shells, sizes and setups.               *)
(*                                                                         *)
(* Of any shells: none believes it has read more of its file than there    *)
(* is, so hist_eof never takes a file for one that was cut off (BInv).     *)
(* What a shell has read it counts itself, command for command; that the   *)
(* count and the file agree needs that files only grow, that a write ends  *)
(* no farther than where it was going to when the end was looked up        *)
(* (WritesIn), and that every reader stops at the end (ReadOnIs).          *)
(*                                                                         *)
(* Of shells that do not act at the same time (Core): each knows the file  *)
(* as it is when it is read from its start.  The number of a shell is that *)
(* of its place in the file (Number, Reads) and its ring has, for every    *)
(* number, the last place that had it (Latest).  A number goes up or down  *)
(* by one from a slot to the next (NumberStep), so the last place with a   *)
(* number below the present one is before a command that still counts      *)
(* (LastPlace), and the offset leads to it (Lookup).  To keep this, what   *)
(* is cancelled must be the last number there was (Top, Near), and a file  *)
(* in use must not be trimmed (Settled).                                   *)
(***************************************************************************)
EXTENDS History, WellFoundedInduction, TLAPS

-----------------------------------------------------------------------------
\* Numbers

\* There is a least number in every set of them.
LEMMA LeastNumber ==
  ASSUME NEW S, S \subseteq Nat, S # {}
  PROVE  \E x \in S : \A y \in S : x <= y
<1> DEFINE R == OpToRel(<, Nat)
<1>1. IsWellFoundedOn(R, Nat)
  BY NatLessThanWellFounded
<1>2. \A x, y \in Nat : x < y => <<x, y>> \in R
  BY DEF OpToRel
<1> HIDE DEF R
<1>3. PICK x \in S : \A y \in S : ~ (<<y, x>> \in R)
  BY <1>1, WFMin
<1>4. ASSUME NEW y \in S PROVE x <= y
  <2>1. x \in Nat /\ y \in Nat /\ ~ (<<y, x>> \in R)
    BY <1>3
  <2>2. ~ (y < x)
    BY <1>2, <2>1
  <2>3. QED
    BY <2>1, <2>2
<1>5. QED
  BY <1>4

\* And a greatest in every set that has a bound.
LEMMA GreatestNumber ==
  ASSUME NEW n \in Nat, NEW S, S \subseteq 0..n, S # {}
  PROVE  \E x \in S : \A y \in S : y <= x
<1> DEFINE T == {n - y : y \in S}
<1>1. T \subseteq Nat /\ T # {}
  <2>1. \A y \in S : n - y \in Nat
    OBVIOUS
  <2>2. QED
    BY <2>1
<1>2. PICK t \in T : \A u \in T : t <= u
  BY <1>1, LeastNumber
<1>3. PICK x \in S : t = n - x
  OBVIOUS
<1>4. ASSUME NEW y \in S PROVE y <= x
  <2>1. n - x <= n - y
    BY <1>2, <1>3
  <2>2. x \in Int /\ y \in Int
    OBVIOUS
  <2>3. QED
    BY <2>1, <2>2
<1>5. QED
  BY <1>4

-----------------------------------------------------------------------------
\* Types, with any integers for the numbers of the commands

Record == [kind : {"cmd", "mark", "undo", "null"}, n : Int]
Labels == {"off", "start", "home", "typed", "write", "run", "edit", "redo"}
Offsets == [0..(Ring - 1) -> Nat]
Hist == [file : Nat, first : Int, histind : Int, histcnt : Nat \ {0}, histcmds : Offsets,
         pc : Labels, cur : Nat, next : {"home", "run"}]
File == [slots : Seq(Record), recent : BOOLEAN]

LEMMA RingIs == Ring \in Nat \ {0} /\ \A n \in Int : hist_ind(n) \in 0..(Ring - 1)
<1>1. Ring \in Nat \ {0}
  BY HistoryAssumption
<1>2. \A n \in Int : n % Ring \in 0..(Ring - 1)
  BY <1>1
<1>3. QED
  BY <1>1, <1>2 DEF hist_ind

\* A command, or what stands for one, is read: the number, the count and the
\* offset change.
Counts(h, n, c) == [h EXCEPT !.histind = n, !.histcnt = c, !.histcmds[hist_ind(n)] = c]

Put(m, i, c) == [m EXCEPT ![i] = c]

LEMMA CountedAll ==
  ASSUME NEW h \in Hist, NEW n \in Int, NEW c \in Nat \ {0}, NEW g, g = Counts(h, n, c)
  PROVE  /\ g \in Hist /\ g.histcnt = c /\ g.histind = n /\ g.first = h.first
         /\ g.file = h.file /\ g.next = h.next /\ g.cur = h.cur /\ g.pc = h.pc
         /\ g.histcmds = Put(h.histcmds, hist_ind(n), c)
<1> DEFINE m == [h.histcmds EXCEPT ![hist_ind(n)] = c]
<1>1. m \in Offsets
  BY RingIs DEF Offsets, Hist
<1>2. g = [h EXCEPT !.histind = n, !.histcnt = c, !.histcmds = m]
  BY DEF Hist, Counts
<1> HIDE DEF m
<1>3. /\ g \in Hist /\ g.histcnt = c /\ g.histind = n /\ g.first = h.first
      /\ g.file = h.file /\ g.next = h.next /\ g.cur = h.cur /\ g.pc = h.pc /\ g.histcmds = m
  BY <1>1, <1>2 DEF Hist
<1>4. QED
  BY <1>3 DEF m, Put

LEMMA Counted ==
  ASSUME NEW h \in Hist, NEW n \in Int, NEW c \in Nat \ {0}
  PROVE  LET g == Counts(h, n, c)
         IN  /\ g \in Hist /\ g.histcnt = c
             /\ g.file = h.file /\ g.next = h.next /\ g.cur = h.cur /\ g.pc = h.pc
<1> DEFINE g == Counts(h, n, c)
<1>1. g = Counts(h, n, c)
  OBVIOUS
<1> HIDE DEF g
<1>2. /\ g \in Hist /\ g.histcnt = c
      /\ g.file = h.file /\ g.next = h.next /\ g.cur = h.cur /\ g.pc = h.pc
  BY <1>1, CountedAll
<1>3. QED
  BY <1>2 DEF g

LEMMA StepIs ==
  ASSUME NEW h \in Hist, NEW x \in Record, NEW starting \in BOOLEAN
  PROVE  LET g == Step(starting, h, x)
         IN  g \in Hist /\ g.histcnt = h.histcnt + 1 /\ g.file = h.file
<1> DEFINE n == IF x.kind = "undo" THEN h.histind - 1
                ELSE IF x.kind # "mark" THEN h.histind + 1
                ELSE IF starting THEN h.histind ELSE Adopted(x.n)
           c == h.histcnt + 1
<1>1. n \in Int
  BY DEF Hist, Record, Adopted
<1>2. c \in Nat \ {0}
  BY DEF Hist
<1>3. Step(starting, h, x) = Counts(h, n, c)
  BY DEF Step, Counts
<1> HIDE DEF n, c
<1>4. /\ Counts(h, n, c) \in Hist /\ Counts(h, n, c).histcnt = c
      /\ Counts(h, n, c).file = h.file
  BY <1>1, <1>2, Counted
<1>5. QED
  BY <1>3, <1>4 DEF c

\* The walk of ReadOn, slot by slot: there is one, it keeps the types, and it
\* counts what it reads.
Walk(u, starting, h, f, n) ==
  u = [p \in (h.histcnt - 1)..n |-> IF p < h.histcnt THEN h ELSE Step(starting, u[p - 1], f[p])]

LEMMA WalkThere ==
  ASSUME NEW h \in Hist, NEW f, NEW starting, NEW n \in Nat, n >= h.histcnt - 1
  PROVE  \E u : Walk(u, starting, h, f, n)
<1> DEFINE a == h.histcnt - 1
           Good(m) == \E u : Walk(u, starting, h, f, a + m)
           B == {m \in Nat : ~Good(m)}
<1>1. a \in Nat /\ h.histcnt = a + 1
  BY DEF Hist
<1>2. Good(0)
  <2> DEFINE u == [p \in a..(a + 0) |-> h]
  <2>1. \A p \in a..(a + 0) : p < h.histcnt
    BY <1>1
  <2>2. u = [p \in a..(a + 0) |-> IF p < h.histcnt THEN h ELSE Step(starting, u[p - 1], f[p])]
    BY <2>1
  <2>3. QED
    BY <2>2 DEF Walk
<1>3. ASSUME NEW m \in Nat, Good(m) PROVE Good(m + 1)
  <2>1. PICK u : u = [p \in a..(a + m) |-> IF p < h.histcnt THEN h ELSE Step(starting, u[p - 1], f[p])]
    BY <1>3 DEF Walk
  <2> DEFINE k == a + (m + 1)
             v == [p \in a..k |-> IF p = k THEN Step(starting, u[k - 1], f[k]) ELSE u[p]]
  <2>2. k \in Nat /\ k - 1 \in a..(a + m) /\ k - 1 # k /\ k \in a..k /\ ~(k < h.histcnt)
    BY <1>1
  <2>3. \A p \in a..k : p # k => p \in a..(a + m)
    BY <1>1
  <2>4. \A p \in a..(a + m) : /\ p \in a..k /\ p # k
                              /\ ~(p < h.histcnt) => p - 1 \in a..(a + m)
    BY <1>1
  <2> HIDE DEF k
  <2>5. \A p \in a..(a + m) : v[p] = u[p]
    BY <2>4
  <2>6. ASSUME NEW p \in a..k
        PROVE  v[p] = IF p < h.histcnt THEN h ELSE Step(starting, v[p - 1], f[p])
    <3>1. CASE p = k
      BY <2>2, <2>5, <3>1
    <3>2. CASE p # k
      <4>1. v[p] = u[p] /\ u[p] = IF p < h.histcnt THEN h ELSE Step(starting, u[p - 1], f[p])
        BY <2>1, <2>3, <2>5, <3>2
      <4>2. ~(p < h.histcnt) => v[p - 1] = u[p - 1]
        BY <2>3, <2>4, <2>5, <3>2
      <4>3. QED
        BY <4>1, <4>2
    <3>3. QED
      BY <3>1, <3>2
  <2>7. v = [p \in a..k |-> IF p < h.histcnt THEN h ELSE Step(starting, v[p - 1], f[p])]
    BY <2>6
  <2> HIDE DEF v
  <2>8. Walk(v, starting, h, f, k)
    BY <2>7 DEF Walk
  <2>9. QED
    BY <2>8 DEF k
<1> HIDE DEF Good
<1>4. \A m \in Nat : Good(m)
  <2> SUFFICES ASSUME B # {} PROVE FALSE
    OBVIOUS
  <2>1. PICK m \in B : \A y \in B : m <= y
    BY LeastNumber
  <2>2. m \in Nat /\ ~Good(m) /\ m # 0
    BY <1>2
  <2>3. m - 1 \in Nat /\ ~(m <= m - 1) /\ (m - 1) + 1 = m
    BY <2>2
  <2>4. Good(m - 1)
    BY <2>1, <2>3
  <2>5. QED
    BY <1>3, <2>2, <2>3, <2>4
<1>5. Good(n - a)
  BY <1>1, <1>4
<1>6. a + (n - a) = n
  BY <1>1
<1>7. QED
  BY <1>5, <1>6 DEF Good

LEMMA WalkCounts ==
  ASSUME NEW h \in Hist, NEW f \in Seq(Record), NEW starting \in BOOLEAN,
         NEW n \in Nat, n <= Len(f), NEW u, Walk(u, starting, h, f, n)
  PROVE  \A p \in (h.histcnt - 1)..n :
            u[p] \in Hist /\ u[p].histcnt = p + 1 /\ u[p].file = h.file
<1> DEFINE a == h.histcnt - 1
           Good(p) == u[p] \in Hist /\ u[p].histcnt = p + 1 /\ u[p].file = h.file
           B == {p \in a..n : ~Good(p)}
<1>1. a \in Nat /\ h.histcnt = a + 1 /\ h.histcnt \in Nat
  BY DEF Hist
<1>2. \A p \in a..n : u[p] = IF p < h.histcnt THEN h ELSE Step(starting, u[p - 1], f[p])
  BY DEF Walk
<1>3. ASSUME NEW p \in a..n, p # a, Good(p - 1) PROVE Good(p)
  <2>1. p \in 1..Len(f) /\ ~(p < h.histcnt) /\ p - 1 \in Int /\ (p - 1) + 1 = p
    BY <1>1, <1>3
  <2>2. f[p] \in Record
    BY <2>1
  <2>3. u[p] = Step(starting, u[p - 1], f[p])
    BY <1>2, <2>1
  <2>4. QED
    BY <1>3, <2>1, <2>2, <2>3, StepIs
<1>4. a \in a..n => Good(a)
  BY <1>1, <1>2
<1> HIDE DEF Good
<1> SUFFICES ASSUME B # {} PROVE FALSE
  BY DEF Good
<1>5. B \subseteq Nat
  BY <1>1
<1>6. PICK p \in B : \A y \in B : p <= y
  BY <1>5, LeastNumber
<1>7. p \in a..n /\ ~Good(p) /\ p # a
  BY <1>4
<1>8. p - 1 \in a..n /\ ~(p <= p - 1)
  BY <1>1, <1>7
<1>9. Good(p - 1)
  BY <1>6, <1>8
<1>10. QED
  BY <1>3, <1>7, <1>9

LEMMA ReadOnIs ==
  ASSUME NEW h \in Hist, NEW f \in Seq(Record), NEW starting \in BOOLEAN,
         h.histcnt <= Len(f) + 1
  PROVE  /\ ReadOn(starting, h, f) \in Hist
         /\ ReadOn(starting, h, f).histcnt = Len(f) + 1
         /\ ReadOn(starting, h, f).file = h.file
<1> DEFINE n == Len(f)
<1>1. n \in Nat /\ h.histcnt \in Nat \ {0}
  BY DEF Hist
<1>2. CASE h.histcnt > n
  BY <1>1, <1>2 DEF ReadOn
<1>3. CASE ~(h.histcnt > n)
  <2> DEFINE u == CHOOSE u : Walk(u, starting, h, f, n)
  <2>1. ReadOn(starting, h, f) = u[n]
    BY <1>3 DEF ReadOn, Walk
  <2>2. Walk(u, starting, h, f, n)
    BY <1>1, <1>3, WalkThere
  <2> HIDE DEF u
  <2>3. n \in (h.histcnt - 1)..n
    BY <1>1, <1>3
  <2> HIDE DEF n
  <2>4. n <= Len(f)
    BY <1>1 DEF n
  <2>5. u[n] \in Hist /\ u[n].histcnt = n + 1 /\ u[n].file = h.file
    BY <1>1, <2>2, <2>3, <2>4, WalkCounts
  <2>6. QED
    BY <2>1, <2>5 DEF n
<1>4. QED
  BY <1>2, <1>3

-----------------------------------------------------------------------------
\* What the operations do to one shell's copy

LEMMA Appended ==
  ASSUME NEW S, NEW s \in Seq(S), NEW t \in Seq(S)
  PROVE  s \o t \in Seq(S) /\ Len(s \o t) = Len(s) + Len(t) /\ Len(s) \in Nat /\ Len(t) \in Nat
OBVIOUS

LEMMA Marks == <<>> \in Seq(Record) /\ <<Null, Undo>> \in Seq(Record) /\ <<Undo>> \in Seq(Record)
BY DEF Null, Undo, Record

LEMMA LargerIs == \A i, j \in Int : Larger(i, j) \in Int /\ Larger(i, j) >= i /\ Larger(i, j) >= j
BY DEF Larger

\* hist_eof reads to the end, which may be one it has made.
LEMMA EofIs ==
  ASSUME NEW h \in Hist, NEW f \in Seq(Record), NEW starting \in BOOLEAN,
         h.histcnt <= Len(f) + 1, NEW r \in hist_eof(starting, h, f)
  PROVE  /\ r.h \in Hist /\ r.h.file = h.file /\ r.tail \in Seq(Record)
         /\ r.h.histcnt = Len(f) + Len(r.tail) + 1
<1>0. Len(f) \in Nat
  OBVIOUS
<1>1. CASE Within(h, f)
  <2> DEFINE h1 == ReadOn(starting, h, f)  f1 == f \o <<Null, Undo>>
  <2>1. PICK g \in Garbage : r = [h |-> ReadOn(starting, Restarted(h1, g), f1), tail |-> <<Null, Undo>>]
    BY <1>1 DEF hist_eof
  <2>2. h1 \in Hist /\ h1.file = h.file
    BY ReadOnIs
  <2> HIDE DEF h1
  <2>3. Larger(g - HistSize + 2, 1) \in Int
    BY HistoryAssumption, LargerIs
  <2> DEFINE h2 == Restarted(h1, g)
  <2>4. h2 \in Hist /\ h2.histcnt = 1 /\ h2.file = h.file
    <3> DEFINE x == Larger(g - HistSize + 2, 1)  c == 1
    <3>1. x \in Int /\ c \in Nat \ {0} /\ h2 = [h1 EXCEPT !.histcnt = c, !.histind = x]
      BY <2>3 DEF Restarted
    <3> HIDE DEF x, c, h2
    <3>2. h2 \in Hist
      BY <2>2, <3>1 DEF Hist
    <3>3. h2.histcnt = 1 /\ h2.file = h1.file
      BY <2>2, <3>1 DEF Hist, c
    <3>4. QED
      BY <2>2, <3>2, <3>3
  <2>5. f1 \in Seq(Record) /\ Len(f1) = Len(f) + 2 /\ 1 <= Len(f1) + 1
    <3>1. Len(<<Null, Undo>>) = 2
      OBVIOUS
    <3>2. QED
      BY <1>0, <3>1, Marks, Appended
  <2> HIDE DEF h2, f1
  <2> DEFINE h3 == ReadOn(starting, h2, f1)
  <2>6. h3 \in Hist /\ h3.histcnt = Len(f1) + 1 /\ h3.file = h2.file
    BY <2>4, <2>5, ReadOnIs
  <2>7. r.h = h3 /\ r.tail = <<Null, Undo>>
    BY <2>1 DEF h2
  <2> HIDE DEF h3
  <2>8. Len(r.tail) = 2 /\ r.tail \in Seq(Record)
    BY <2>7, Marks
  <2>9. Len(f1) + 1 = Len(f) + 2 + 1
    BY <1>0, <2>5
  <2>10. QED
    BY <2>4, <2>6, <2>7, <2>8, <2>9
<1>2. CASE ~Within(h, f)
  <2>1. r.h = ReadOn(starting, h, f) /\ r.tail = <<>>
    BY <1>2 DEF hist_eof
  <2>2. Len(r.tail) = 0 /\ r.tail \in Seq(Record)
    BY <2>1, Marks
  <2>3. QED
    BY <1>0, <2>1, <2>2, ReadOnIs
<1>3. QED
  BY <1>1, <1>2

LEMMA ClosedIs == Closed \in Hist /\ Closed.histcnt = 1 /\ Closed.file = 1
<1>1. Zeros \in Offsets
  BY DEF Zeros, Offsets
<1>2. QED
  BY <1>1 DEF Closed, Hist, Labels

\* A shell starts to read somewhere in the file.
LEMMA FromIs ==
  ASSUME NEW h \in Hist, NEW f \in Seq(Record), NEW a \in Starts(f)
  PROVE  /\ From(h, a) \in Hist /\ From(h, a).file = h.file
         /\ From(h, a).histcnt <= Len(f) + 1
<1>1. a.at \in Nat \ {0} /\ a.at <= Len(f) + 1 /\ a.n \in Int
  <2>1. CASE a = Begin
    BY <2>1 DEF Begin
  <2>2. CASE a # Begin
    <3>1. PICK p \in DOMAIN f : a = [at |-> p + 1, n |-> f[p].n]
      BY <2>2 DEF Starts
    <3>2. p \in 1..Len(f) /\ f[p] \in Record
      OBVIOUS
    <3>3. f[p].n \in Int
      BY <3>2 DEF Record
    <3>4. QED
      BY <3>1, <3>2, <3>3
  <2>3. QED
    BY <2>1, <2>2
<1>2. QED
  BY <1>1 DEF From, Hist

\* The commands that hist_trim copies, and their offsets
Offset(h, i) == h.histcmds[hist_ind(hist_start(h.histind) + i - 1)]

LEMMA CopiedIs ==
  ASSUME NEW h \in Hist, NEW f \in Seq(Record)
  PROVE  /\ Copied(h, f) \in Seq(Record)
         /\ \A i \in 1..Len(Copied(h, f)) : /\ i \in 1..Ring /\ Offset(h, i) <= Len(f)
                                           /\ Copied(h, f)[i] = SlotAt(f, Offset(h, i))
         /\ Offset(h, 1) <= Len(f) => Len(Copied(h, f)) # 0
<1> DEFINE at(i) == Offset(h, i)
           Goes(i) == at(i) <= Len(f) /\ (i > 1 => at(i) > at(i - 1))
           all   == {k \in 1..Ring : \A i \in 1..k : Goes(i)}
<1>1. Copied(h, f) = [i \in all |-> SlotAt(f, at(i))]
  BY DEF Copied, Offset
<1>3. \A i \in 1..Ring : at(i) \in Nat
  <2> SUFFICES ASSUME NEW i \in 1..Ring PROVE at(i) \in Nat
    OBVIOUS
  <2> DEFINE n == hist_start(h.histind)
  <2>1. n \in Int
    BY HistoryAssumption, LargerIs DEF hist_start, Hist
  <2> HIDE DEF n
  <2>2. hist_ind(n + i - 1) \in 0..(Ring - 1)
    BY <2>1, RingIs
  <2>3. h.histcmds[hist_ind(n + i - 1)] \in Nat
    BY <2>2 DEF Hist, Offsets
  <2>4. QED
    BY <2>3 DEF Offset, n
<1> HIDE DEF at
<1>4. Len(f) \in Nat /\ \A k \in all : k \in 1..Ring /\ at(k) <= Len(f)
  <2>1. \A k \in all : k \in 1..k
    OBVIOUS
  <2>2. QED
    BY <2>1
<1>5. \A k \in all : \A i \in 1..k : i \in all
  <2> HIDE DEF Goes
  <2>1. \A k \in 1..Ring : \A i \in 1..k : i \in 1..Ring /\ 1..i \subseteq 1..k
    BY RingIs
  <2>2. QED
    BY <2>1
<1>2. at(1) <= Len(f) => 1 \in all
  <2>1. 1 \in 1..Ring /\ \A i \in 1..1 : i = 1
    BY RingIs
  <2>2. QED
    BY <2>1
<1>6. \E m \in Nat : all = 1..m
  <2>0. all \subseteq 0..Ring /\ Ring \in Nat
    BY RingIs
  <2> HIDE DEF all
  <2>1. CASE all = {}
    <3>1. all = 1..0
      BY <2>1
    <3>2. QED
      BY <3>1
  <2>2. CASE all # {}
    <3>1. PICK m \in all : \A y \in all : y <= m
      BY <2>0, <2>2, GreatestNumber
    <3>2. m \in Nat /\ \A y \in all : y \in 1..m
      BY <1>4, <3>1
    <3>3. QED
      BY <1>5, <3>1, <3>2
  <2>3. QED
    BY <2>1, <2>2
<1> HIDE DEF all
<1>7. \A i \in all : SlotAt(f, at(i)) \in Record
  <2> SUFFICES ASSUME NEW i \in all PROVE SlotAt(f, at(i)) \in Record
    OBVIOUS
  <2>1. at(i) \in Nat /\ at(i) <= Len(f)
    BY <1>3, <1>4
  <2>2. CASE at(i) = 0
    BY <2>2 DEF SlotAt, Cmd, Record
  <2>3. CASE at(i) # 0
    <3>1. at(i) \in 1..Len(f)
      BY <1>4, <2>1, <2>3
    <3>2. f[at(i)] \in Record
      BY <3>1
    <3>3. QED
      BY <2>3, <3>2 DEF SlotAt
  <2>4. QED
    BY <2>2, <2>3
<1>8. PICK m \in Nat : all = 1..m
  BY <1>6
<1> DEFINE c == Copied(h, f)
<1>9. c \in Seq(Record) /\ Len(c) = m /\ \A i \in 1..m : c[i] = SlotAt(f, at(i))
  BY <1>1, <1>7, <1>8
<1> HIDE DEF c
<1>10. \A i \in 1..Len(c) : i \in 1..Ring /\ at(i) <= Len(f) /\ c[i] = SlotAt(f, at(i))
  BY <1>4, <1>8, <1>9
<1>11. at(1) <= Len(f) => Len(c) # 0
  BY <1>2, <1>8, <1>9
<1>12. QED
  BY <1>9, <1>10, <1>11 DEF c, at

LEMMA FreshIs ==
  ASSUME NEW k \in Nat, Named \in Nat
  PROVE  Fresh(k) \in Hist /\ Fresh(k).histcnt = k + 2 /\ Fresh(k).file = Named + 1
<1> DEFINE is(j) == {i \in 1..(k + 1) : hist_ind(i) = j}
           cell(j) == IF j = hist_ind(k) THEN k + 2
                      ELSE IF is(j) = {} THEN 0 ELSE CHOOSE i \in is(j) : \A m \in is(j) : m <= i
           m == [j \in DOMAIN Zeros |-> cell(j)]
<1>1. ASSUME NEW j PROVE cell(j) \in Nat
  <2>1. CASE is(j) # {}
    <3>1. is(j) \subseteq 0..(k + 1) /\ k + 1 \in Nat
      OBVIOUS
    <3>2. \E i \in is(j) : \A x \in is(j) : x <= i
      BY <2>1, <3>1, GreatestNumber
    <3>3. (CHOOSE i \in is(j) : \A x \in is(j) : x <= i) \in is(j)
      BY <3>2
    <3>4. QED
      BY <3>3
  <2>2. CASE is(j) = {}
    BY <2>2
  <2>3. QED
    BY <2>1, <2>2
<1>2. Fresh(k) = [Closed EXCEPT !.file = Named + 1, !.histind = k, !.histcnt = k + 2, !.histcmds = m]
  BY DEF Fresh
<1> HIDE DEF cell
<1>3. m \in Offsets
  BY <1>1 DEF Zeros, Offsets
<1> DEFINE c == k + 2  d == Named + 1
<1>4. c \in Nat \ {0} /\ d \in Nat /\ k \in Int
  OBVIOUS
<1> HIDE DEF m, c, d
<1>5. Fresh(k) = [Closed EXCEPT !.file = d, !.histind = k, !.histcnt = c, !.histcmds = m]
  BY <1>2 DEF c, d
<1>6. Fresh(k) \in Hist /\ Fresh(k).histcnt = c /\ Fresh(k).file = d
  BY <1>3, <1>4, <1>5, ClosedIs DEF Hist
<1>7. QED
  BY <1>6 DEF c, d

-----------------------------------------------------------------------------
\* The inductive invariant

\* A write ends where its shell looked up the end, or farther on.
WritesIn == \A s \in Shells : At(s, "write") => sh[s].cur \in 1..(Len(Slots(s)) + 1)

Types ==
  /\ files \in Seq(File) /\ Len(files) # 0 /\ sh \in [Shells -> Hist] /\ issued \in Nat
  /\ \A s \in Shells : sh[s].file \in 1..Len(files)

BInv == Types /\ Behind /\ WritesIn

\* Each file keeps what it has.
Grows == /\ files' \in Seq(File) /\ Len(files) <= Len(files')
         /\ \A i \in 1..Len(files) : Len(files[i].slots) <= Len(files'[i].slots)

LEMMA SlotsAre ==
  ASSUME Types
  PROVE  /\ Named \in Nat
         /\ \A i \in 1..Named : /\ files[i] \in File /\ files[i].slots \in Seq(Record)
                                /\ Len(files[i].slots) \in Nat
         /\ \A s \in Shells : /\ sh[s] \in Hist /\ Slots(s) \in Seq(Record)
                              /\ Len(Slots(s)) \in Nat /\ sh[s].histcnt \in Nat \ {0} /\ sh[s].cur \in Nat
<1>1. Named \in Nat /\ \A i \in 1..Named : files[i] \in File
  BY DEF Types, Named
<1>2. \A i \in 1..Named : files[i].slots \in Seq(Record)
  BY <1>1 DEF File
<1>3. \A i \in 1..Named : Len(files[i].slots) \in Nat
  BY <1>2
<1>4. \A s \in Shells : sh[s] \in Hist /\ sh[s].file \in 1..Named
  BY DEF Types, Named
<1>5. \A s \in Shells : sh[s].histcnt \in Nat \ {0} /\ sh[s].cur \in Nat
  BY <1>4 DEF Hist
<1>6. QED
  BY <1>1, <1>2, <1>3, <1>4, <1>5 DEF Slots

\* A step of shell s leaves the others as they are, and their files have at
\* least what they had.
LEMMA OneShell ==
  ASSUME BInv, Grows, issued' \in Nat, NEW s \in Shells, NEW h \in Hist,
         sh' = [sh EXCEPT ![s] = h],
         h.file \in 1..Len(files'), h.histcnt <= Len(files'[h.file].slots) + 1,
         h.pc = "write" => h.cur \in 1..(Len(files'[h.file].slots) + 1)
  PROVE  BInv'
<1>1. sh \in [Shells -> Hist] /\ Len(files) \in Nat /\ Len(files') \in Nat
  BY SlotsAre DEF BInv, Types, Grows, Named
<1>2. sh' \in [Shells -> Hist] /\ sh'[s] = h /\ \A r \in Shells \ {s} : sh'[r] = sh[r]
  BY <1>1
<1>3. ASSUME NEW r \in Shells \ {s}
      PROVE  /\ sh[r].file \in 1..Len(files')
             /\ sh[r].histcnt <= Len(files'[sh[r].file].slots) + 1
             /\ sh[r].pc = "write" => sh[r].cur \in 1..(Len(files'[sh[r].file].slots) + 1)
  <2> DEFINE i == sh[r].file  a == Len(files[i].slots)  b == Len(files'[i].slots)
  <2>1. i \in 1..Len(files) /\ i \in 1..Len(files')
    BY <1>1 DEF BInv, Types, Grows
  <2>2. a \in Nat /\ b \in Nat
    <3>1. files'[i] \in File
      BY <2>1 DEF Grows
    <3>2. files'[i].slots \in Seq(Record)
      BY <3>1 DEF File
    <3>3. a \in Nat
      BY <2>1, SlotsAre DEF BInv, Named
    <3>4. b \in Nat
      BY <3>2
    <3>5. QED
      BY <3>3, <3>4
  <2>3. a <= b
    BY <2>1 DEF Grows
  <2>4. /\ sh[r].histcnt <= a + 1 /\ sh[r].histcnt \in Nat /\ sh[r].cur \in Nat
        /\ sh[r].pc = "write" => sh[r].cur \in 1..(a + 1)
    BY SlotsAre DEF BInv, Behind, WritesIn, At, Slots
  <2> HIDE DEF a, b
  <2>5. sh[r].histcnt <= b + 1 /\ (sh[r].pc = "write" => sh[r].cur \in 1..(b + 1))
    BY <2>2, <2>3, <2>4
  <2>6. QED
    BY <2>1, <2>5 DEF b
<1>4. Types'
  <2>1. Len(files) # 0 /\ Len(files) <= Len(files') /\ files' \in Seq(File)
    BY DEF BInv, Types, Grows
  <2>2. Len(files') # 0
    BY <1>1, <2>1
  <2>3. \A r \in Shells : sh'[r].file \in 1..Len(files')
    BY <1>2, <1>3
  <2>4. QED
    BY <1>2, <2>1, <2>2, <2>3 DEF Types
<1>5. Behind' /\ WritesIn'
  BY <1>2, <1>3 DEF Behind, WritesIn, At, Slots
<1>6. QED
  BY <1>4, <1>5 DEF BInv

\* A step of s that appends tail to its file
LEMMA BecomesIs ==
  ASSUME BInv, issued' \in Nat, NEW s \in Shells, NEW h \in Hist, NEW l \in Labels, l # "write",
         NEW tail \in Seq(Record), Becomes(s, h, l, tail),
         h.file \in 1..Len(files), h.histcnt <= Len(files[h.file].slots) + Len(tail) + 1
  PROVE  BInv'
<1> DEFINE g == [h EXCEPT !.pc = l]  f == files[h.file].slots
<1>1. g \in Hist /\ g.pc = l /\ g.file = h.file /\ g.histcnt = h.histcnt
  BY DEF Hist
<1>2. sh' = [sh EXCEPT ![s] = g]
  BY DEF Becomes
<1> HIDE DEF g
<1>3. files \in Seq(File) /\ f \in Seq(Record) /\ Len(f) \in Nat /\ Len(files) \in Nat
  BY SlotsAre DEF BInv, Types, Named
<1> HIDE DEF f
<1>4. CASE tail = <<>>
  <2>1. files' = files
    BY <1>4 DEF Becomes
  <2>2. Grows
    <3>1. \A i \in 1..Len(files) : Len(files[i].slots) \in Nat
      BY SlotsAre DEF BInv, Named
    <3>2. QED
      BY <1>3, <2>1, <3>1 DEF Grows
  <2>3. Len(tail) = 0
    BY <1>4
  <2>4. h.histcnt <= Len(f) + 1
    BY <1>3, <2>3 DEF f
  <2>5. QED
    BY <1>1, <1>2, <2>1, <2>2, <2>4, OneShell DEF f
<1>5. CASE tail # <<>>
  <2> DEFINE new == [slots |-> f \o tail, recent |-> TRUE]
  <2>1. files' = [files EXCEPT ![h.file] = new]
    BY <1>5 DEF Becomes, f
  <2>2. /\ f \o tail \in Seq(Record) /\ Len(f \o tail) = Len(f) + Len(tail) /\ Len(tail) \in Nat
    BY <1>3, Appended
  <2>3. new \in File /\ new.slots = f \o tail
    BY <2>2 DEF File
  <2> HIDE DEF new
  <2>4. /\ files' \in Seq(File) /\ Len(files') = Len(files) /\ files'[h.file] = new
        /\ \A i \in 1..Len(files) : i # h.file => files'[i] = files[i]
    BY <1>3, <2>1, <2>3
  <2>5. Grows
    <3>1. ASSUME NEW i \in 1..Len(files) PROVE Len(files[i].slots) <= Len(files'[i].slots)
      <4>1. CASE i = h.file
        <5>1. Len(f) <= Len(f) + Len(tail)
          BY <1>3, <2>2
        <5>2. files[i].slots = f /\ files'[i].slots = f \o tail
          BY <2>3, <2>4, <4>1 DEF f
        <5>3. QED
          BY <2>2, <5>1, <5>2
      <4>2. CASE i # h.file
        <5>1. Len(files[i].slots) \in Nat
          BY SlotsAre DEF BInv, Named
        <5>2. QED
          BY <2>4, <4>2, <5>1
      <4>3. QED
        BY <4>1, <4>2
    <3>2. QED
      BY <1>3, <2>4, <3>1 DEF Grows
  <2>6. h.histcnt <= Len(files'[h.file].slots) + 1
    <3>1. h.histcnt <= Len(f) + Len(tail) + 1
      BY DEF f
    <3>2. files'[h.file].slots = f \o tail
      BY <2>3, <2>4
    <3>3. QED
      BY <2>2, <3>1, <3>2
  <2>7. QED
    BY <1>1, <1>2, <2>4, <2>5, <2>6, OneShell
<1>6. QED
  BY <1>4, <1>5

\* A step that leaves the files alone
LEMMA FilesSame == ASSUME BInv, files' = files PROVE Grows
<1>1. \A i \in 1..Len(files) : Len(files[i].slots) \in Nat
  BY SlotsAre DEF BInv, Named
<1>2. files \in Seq(File) /\ Len(files) \in Nat
  BY DEF BInv, Types
<1>3. QED
  BY <1>1, <1>2 DEF Grows

LEMMA QuietIs ==
  ASSUME BInv, files' = files, issued' = issued, NEW s \in Shells, NEW l \in Labels, l # "write",
         sh' = [sh EXCEPT ![s].pc = l]
  PROVE  BInv'
<1> DEFINE h == [sh[s] EXCEPT !.pc = l]
<1>1. /\ sh[s] \in Hist /\ sh[s].file \in 1..Len(files) /\ sh[s].histcnt <= Len(files[sh[s].file].slots) + 1
      /\ sh \in [Shells -> Hist] /\ issued \in Nat
  BY DEF BInv, Types, Behind, Slots
<1>2. h \in Hist /\ h.pc = l /\ h.file = sh[s].file /\ h.histcnt = sh[s].histcnt
  BY <1>1 DEF Hist
<1>3. sh' = [sh EXCEPT ![s] = h]
  BY <1>1
<1> HIDE DEF h
<1>4. QED
  BY <1>1, <1>2, <1>3, FilesSame, OneShell

LEMMA PutIs ==
  ASSUME NEW S, NEW q \in Seq(S), NEW i \in 1..Len(q), NEW x \in S,
         NEW q1, q1 = [q EXCEPT ![i] = x]
  PROVE  q1 \in Seq(S) /\ Len(q1) = Len(q) /\ \A j \in 1..Len(q) : q1[j] = IF j = i THEN x ELSE q[j]
OBVIOUS

\* The file that has the name is used, or nobody used it for a while.
LEMMA AgeIs ==
  ASSUME BInv, NEW g \in File, g.slots = files[Named].slots, files' = [files EXCEPT ![Named] = g],
         UNCHANGED <<sh, issued>>
  PROVE  BInv'
<1> DEFINE n == Named
<1>1. /\ files \in Seq(File) /\ n \in 1..Len(files) /\ Len(files) \in Nat
      /\ \A i \in 1..Len(files) : Len(files[i].slots) \in Nat
      /\ sh \in [Shells -> Hist] /\ issued \in Nat
  BY SlotsAre DEF BInv, Types, Named
<1>2. files' = [files EXCEPT ![n] = g]
  OBVIOUS
<1> HIDE DEF n
<1>3. /\ files' \in Seq(File) /\ Len(files') = Len(files)
      /\ \A i \in 1..Len(files) : files'[i] = IF i = n THEN g ELSE files[i]
  <2>1. files \in Seq(File) /\ n \in 1..Len(files)
    BY <1>1
  <2>2. QED
    BY ONLY <1>2, <2>1, PutIs, g \in File
<1>4. \A i \in 1..Len(files) : files'[i].slots = files[i].slots
  BY <1>3 DEF n
<1>5. \A s \in Shells : sh[s].file \in 1..Len(files) /\ files'[sh[s].file].slots = files[sh[s].file].slots
  BY <1>4 DEF BInv, Types
<1>6. Types'
  BY <1>1, <1>3 DEF BInv, Types
<1>7. Behind' /\ WritesIn'
  BY <1>5 DEF BInv, Behind, WritesIn, At, Slots
<1>8. QED
  BY <1>6, <1>7 DEF BInv

-----------------------------------------------------------------------------
\* The operations

LEMMA ShellIs ==
  ASSUME BInv, NEW s \in Shells
  PROVE  /\ sh[s] \in Hist /\ sh[s].file \in 1..Len(files)
         /\ Slots(s) \in Seq(Record) /\ Len(Slots(s)) \in Nat
         /\ sh[s].histcnt \in Nat \ {0} /\ sh[s].histcnt <= Len(Slots(s)) + 1
         /\ sh[s].histind \in Int /\ sh[s].cur \in Nat /\ sh[s].next \in {"home", "run"}
         /\ sh \in [Shells -> Hist] /\ issued \in Nat
<1>1. sh[s] \in Hist /\ sh[s].file \in 1..Len(files) /\ sh \in [Shells -> Hist] /\ issued \in Nat
  BY DEF BInv, Types
<1>2. sh[s].histind \in Int /\ sh[s].next \in {"home", "run"}
  BY <1>1 DEF Hist
<1>3. QED
  BY <1>1, <1>2, SlotsAre DEF BInv, Behind

LEMMA CatchUpKeeps ==
  ASSUME BInv, NEW s \in Shells, NEW from, NEW to \in Labels, to # "write", CatchUp(s, from, to)
  PROVE  BInv'
<1>1. PICK r \in hist_eof(FALSE, sh[s], Slots(s)) : Becomes(s, r.h, to, r.tail)
  BY DEF CatchUp
<1>2. issued' \in Nat
  BY ShellIs DEF CatchUp
<1>3. /\ r.h \in Hist /\ r.h.file = sh[s].file /\ r.tail \in Seq(Record)
      /\ r.h.histcnt = Len(Slots(s)) + Len(r.tail) + 1
  BY ShellIs, EofIs
<1>4. r.h.file \in 1..Len(files) /\ files[r.h.file].slots = Slots(s)
  BY <1>3, ShellIs DEF Slots
<1>5. Len(Slots(s)) \in Nat /\ Len(r.tail) \in Nat
  BY <1>3, ShellIs
<1>6. r.h.histcnt <= Len(files[r.h.file].slots) + Len(r.tail) + 1
  BY <1>3, <1>4, <1>5
<1>7. QED
  BY <1>1, <1>2, <1>3, <1>4, <1>6, BecomesIs

\* The shell that opens the file, before it reads
LEMMA OpenedIs ==
  ASSUME Named \in Nat
  PROVE  LET h0 == [Closed EXCEPT !.file = Named, !.histcmds[1] = 1]
         IN  h0 \in Hist /\ h0.file = Named
<1> DEFINE h0 == [Closed EXCEPT !.file = Named, !.histcmds[1] = 1]
           n == Named  c == [Zeros EXCEPT ![1] = 1]
<1>1. c \in Offsets
  <2>1. Zeros \in Offsets
    BY DEF Zeros, Offsets
  <2>2. QED
    BY <2>1 DEF Offsets
<1>2. h0 = [Closed EXCEPT !.file = n, !.histcmds = c]
  BY DEF Closed
<1> HIDE DEF n, c, h0
<1>3. n \in Nat
  BY DEF n
<1>4. h0 \in Hist /\ h0.file = n
  BY <1>1, <1>2, <1>3, ClosedIs DEF Hist
<1>5. QED
  BY <1>4 DEF h0, n

LEMMA OpenKeeps == ASSUME BInv, NEW s \in Shells, Open(s) PROVE BInv'
<1> DEFINE f  == files[Named].slots
           h0 == [Closed EXCEPT !.file = Named, !.histcmds[1] = 1]
<1>1. /\ Named \in 1..Len(files) /\ f \in Seq(Record) /\ Len(f) \in Nat /\ issued' \in Nat
      /\ h0 \in Hist /\ h0.file = Named
  <2>1. Named \in 1..Len(files)
    BY SlotsAre DEF BInv, Types, Named
  <2>2. issued' \in Nat
    BY DEF Open, BInv, Types
  <2>3. f \in Seq(Record) /\ Len(f) \in Nat
    BY <2>1, SlotsAre DEF BInv, Named
  <2>4. QED
    BY <2>1, <2>2, <2>3, OpenedIs
<1>2. PICK a \in Starts(f) : \E r \in hist_eof(TRUE, From(h0, a), f) :
        LET enough == a.n <= hist_start(r.h.histind)
            f1     == f \o r.tail
        IN  \/ Becomes(s, r.h, "start", r.tail)
            \/ \E b \in Starts(f1) : \E r2 \in hist_eof(TRUE, From(r.h, b), f1) :
                 Becomes(s, r2.h, "start", r.tail \o r2.tail)
  BY DEF Open
<1> DEFINE h1 == From(h0, a)
<1>3. PICK r \in hist_eof(TRUE, h1, f) :
        \/ Becomes(s, r.h, "start", r.tail)
        \/ \E b \in Starts(f \o r.tail) : \E r2 \in hist_eof(TRUE, From(r.h, b), f \o r.tail) :
             Becomes(s, r2.h, "start", r.tail \o r2.tail)
  BY <1>2
<1> HIDE DEF h0
<1>4. h1 \in Hist /\ h1.file = Named /\ h1.histcnt <= Len(f) + 1
  BY <1>1, FromIs
<1> HIDE DEF h1, f
<1>5. /\ r.h \in Hist /\ r.h.file = Named /\ r.tail \in Seq(Record)
      /\ r.h.histcnt = Len(f) + Len(r.tail) + 1
  <2>1. f \in Seq(Record)
    BY <1>1
  <2>2. QED
    BY ONLY <1>4, <2>1, EofIs, r \in hist_eof(TRUE, h1, f), TRUE \in BOOLEAN
<1>6. Len(r.tail) \in Nat /\ "start" \in Labels
  BY <1>5 DEF Labels
<1>7. CASE Becomes(s, r.h, "start", r.tail)
  <2>1. r.h.histcnt <= Len(files[r.h.file].slots) + Len(r.tail) + 1
    BY <1>1, <1>5, <1>6 DEF f
  <2>2. QED
    BY <1>1, <1>5, <1>6, <1>7, <2>1, BecomesIs
<1>8. CASE \E b \in Starts(f \o r.tail) : \E r2 \in hist_eof(TRUE, From(r.h, b), f \o r.tail) :
             Becomes(s, r2.h, "start", r.tail \o r2.tail)
  <2> DEFINE f1 == f \o r.tail
  <2>1. f1 \in Seq(Record) /\ Len(f1) = Len(f) + Len(r.tail)
    BY <1>1, <1>5, Appended
  <2>2. PICK b \in Starts(f1) : \E r2 \in hist_eof(TRUE, From(r.h, b), f1) :
             Becomes(s, r2.h, "start", r.tail \o r2.tail)
    BY <1>8
  <2> DEFINE h2 == From(r.h, b)
  <2>3. PICK r2 \in hist_eof(TRUE, h2, f1) : Becomes(s, r2.h, "start", r.tail \o r2.tail)
    BY <2>2
  <2> HIDE DEF f1
  <2>4. h2 \in Hist /\ h2.file = Named /\ h2.histcnt <= Len(f1) + 1
    BY <1>5, <2>1, FromIs
  <2> HIDE DEF h2
  <2>5. /\ r2.h \in Hist /\ r2.h.file = Named /\ r2.tail \in Seq(Record)
        /\ r2.h.histcnt = Len(f1) + Len(r2.tail) + 1
    BY <2>1, <2>3, <2>4, EofIs
  <2> DEFINE t == r.tail \o r2.tail
  <2>6. t \in Seq(Record) /\ Len(t) = Len(r.tail) + Len(r2.tail) /\ Len(r2.tail) \in Nat
    BY <1>5, <2>5, Appended
  <2>7. Becomes(s, r2.h, "start", t)
    BY <2>3
  <2> HIDE DEF t
  <2>8. r2.h.histcnt <= Len(f) + Len(t) + 1
    <3> DEFINE x == Len(f)  y == Len(r.tail)  z == Len(r2.tail)  w == Len(f1)
               v == Len(t)  c == r2.h.histcnt
    <3>1. x \in Nat /\ y \in Nat /\ z \in Nat /\ w = x + y /\ v = y + z /\ c = w + z + 1
      BY <1>1, <1>6, <2>1, <2>5, <2>6
    <3> HIDE DEF x, y, z, w, v, c
    <3>2. c <= x + v + 1
      BY <3>1
    <3>3. QED
      BY <3>2 DEF x, v, c
  <2>9. QED
    BY <1>1, <1>6, <2>5, <2>6, <2>7, <2>8, BecomesIs DEF f
<1>9. QED
  BY <1>3, <1>7, <1>8

LEMMA TrimKeeps == ASSUME BInv, NEW s \in Shells, hist_trim(s) PROVE BInv'
<1> DEFINE new == Copied(sh[s], Slots(s))
           k == Len(new)
           slots == Append(new, Undo)
           file == [slots |-> slots, recent |-> TRUE]
           h == [Fresh(k) EXCEPT !.pc = "home"]
<1>1. /\ files' = Append(files, file) /\ sh' = [sh EXCEPT ![s] = h]
      /\ issued' \in Nat
  BY ShellIs DEF hist_trim
<1>2. new \in Seq(Record)
  BY ShellIs, CopiedIs
<1>3. Undo \in Record
  BY DEF Undo, Record
<1> HIDE DEF new
<1>4. k \in Nat /\ slots \in Seq(Record) /\ Len(slots) = k + 1
  BY <1>2, <1>3
<1> HIDE DEF k, slots
<1>5. file \in File /\ file.slots = slots
  BY <1>4 DEF File
<1> HIDE DEF file
<1>6. files \in Seq(File) /\ Len(files) \in Nat /\ Named = Len(files)
  BY SlotsAre DEF BInv, Types, Named
<1>7. /\ files' \in Seq(File) /\ Len(files') = Len(files) + 1
      /\ \A i \in 1..Len(files) : files'[i] = files[i]
      /\ files'[Len(files) + 1] = file
  BY <1>1, <1>5, <1>6
<1>8. Grows
  <2>1. \A i \in 1..Len(files) : Len(files[i].slots) \in Nat
    BY SlotsAre DEF BInv, Named
  <2>2. QED
    BY <1>6, <1>7, <2>1 DEF Grows
<1>9. h \in Hist /\ h.histcnt = k + 2 /\ h.file = Len(files) + 1 /\ h.pc = "home"
  <2>1. Fresh(k) \in Hist /\ Fresh(k).histcnt = k + 2 /\ Fresh(k).file = Len(files) + 1
    BY <1>4, <1>6, FreshIs
  <2>2. "home" \in Labels
    BY DEF Labels
  <2>3. QED
    BY <2>1, <2>2 DEF Hist
<1> HIDE DEF h
<1>10. h.file \in 1..Len(files') /\ files'[h.file].slots = slots
  BY <1>5, <1>6, <1>7, <1>9
<1>11. h.histcnt <= Len(files'[h.file].slots) + 1
  BY <1>4, <1>9, <1>10
<1>12. QED
  BY <1>1, <1>8, <1>9, <1>10, <1>11, OneShell

LEMMA SeekKeeps == ASSUME BInv, NEW s \in Shells, Seek(s) PROVE BInv'
<1> DEFINE c == Len(Slots(s)) + 1
           x == IF At(s, "typed") THEN "run" ELSE "home"
           h == [sh[s] EXCEPT !.pc = "write", !.cur = c, !.next = x]
<1>1. sh' = [sh EXCEPT ![s].pc = "write", ![s].cur = c, ![s].next = x] /\ files' = files /\ issued' \in Nat
  BY ShellIs DEF Seek
<1>2. c \in Nat /\ x \in {"home", "run"} /\ "write" \in Labels /\ sh[s] \in Hist
  BY ShellIs DEF Labels
<1> HIDE DEF x
<1>3. c \in 1..(Len(Slots(s)) + 1)
  BY ShellIs
<1> HIDE DEF c
<1>4. sh' = [sh EXCEPT ![s] = h]
  BY <1>1, ShellIs
<1>5. h \in Hist /\ h.cur = c /\ h.file = sh[s].file /\ h.histcnt = sh[s].histcnt
  BY <1>2 DEF Hist
<1> HIDE DEF h
<1>6. h.file \in 1..Len(files') /\ files'[h.file].slots = Slots(s)
  BY <1>1, <1>5, ShellIs DEF Slots
<1>7. QED
  BY <1>1, <1>3, <1>4, <1>5, <1>6, FilesSame, ShellIs, OneShell

LEMMA WriteKeeps == ASSUME BInv, NEW s \in Shells, Write(s) PROVE BInv'
<1> DEFINE h == sh[s]  n == h.histind + 1
<1>1. PICK m \in BOOLEAN :
        LET end == h.cur + (IF m THEN 2 ELSE 1)
        IN  Becomes(s, [h EXCEPT !.histind = n, !.histcnt = end, !.histcmds[hist_ind(n)] = end],
                    h.next, <<Cmd(issued + 1)>> \o (IF m THEN <<Mark(n)>> ELSE <<>>))
  BY DEF Write
<1> DEFINE k == IF m THEN 2 ELSE 1
           end == h.cur + k
           g == Counts(h, n, end)
           t == <<Cmd(issued + 1)>> \o (IF m THEN <<Mark(n)>> ELSE <<>>)
<1>2. Becomes(s, g, h.next, t)
  BY <1>1 DEF Counts
<1>3. issued' \in Nat
  BY ShellIs DEF Write
<1>4. h.cur \in 1..(Len(Slots(s)) + 1) /\ h.next \in Labels /\ h.next # "write"
  BY ShellIs DEF Write, BInv, WritesIn, Labels
<1>5. t \in Seq(Record) /\ Len(t) = k
  <2> DEFINE a == <<Cmd(issued + 1)>>  b == IF m THEN <<Mark(n)>> ELSE <<>>
  <2>1. Cmd(issued + 1) \in Record /\ Mark(n) \in Record
    BY ShellIs DEF Cmd, Mark, Record
  <2>2. a \in Seq(Record) /\ Len(a) = 1
    BY <2>1
  <2>3. b \in Seq(Record) /\ Len(b) = k - 1
    BY <2>1
  <2> HIDE DEF a, b
  <2>4. a \o b \in Seq(Record) /\ Len(a \o b) = Len(a) + Len(b)
    BY <2>2, <2>3, Appended
  <2>5. QED
    BY <2>2, <2>3, <2>4 DEF a, b
<1>6. k \in Nat \ {0}
  OBVIOUS
<1> HIDE DEF k, t
<1>7. end \in Nat \ {0} /\ end <= Len(Slots(s)) + k + 1 /\ n \in Int
  BY <1>4, <1>6, ShellIs
<1> HIDE DEF end, n
<1>8. g \in Hist /\ g.histcnt = end /\ g.file = sh[s].file
  BY <1>7, ShellIs, Counted
<1> HIDE DEF g
<1>9. g.file \in 1..Len(files) /\ files[g.file].slots = Slots(s)
  BY <1>8, ShellIs DEF Slots
<1>10. g.histcnt <= Len(files[g.file].slots) + Len(t) + 1
  BY <1>5, <1>7, <1>8, <1>9
<1>11. QED
  BY <1>2, <1>3, <1>4, <1>5, <1>8, <1>9, <1>10, BecomesIs

LEMMA FlushEmptyKeeps == ASSUME BInv, NEW s \in Shells, FlushEmpty(s) PROVE BInv'
<1> DEFINE c == Len(Slots(s)) + 1
           h == [sh[s] EXCEPT !.pc = "home", !.histcnt = c]
<1>1. sh' = [sh EXCEPT ![s].pc = "home", ![s].histcnt = c] /\ files' = files /\ issued' \in Nat
  BY ShellIs DEF FlushEmpty
<1>2. c \in Nat \ {0} /\ c <= Len(Slots(s)) + 1 /\ "home" \in Labels /\ sh[s] \in Hist
  BY ShellIs DEF Labels
<1> HIDE DEF c
<1>3. sh' = [sh EXCEPT ![s] = h]
  BY <1>1, ShellIs
<1>4. h \in Hist /\ h.pc = "home" /\ h.file = sh[s].file /\ h.histcnt = c
  BY <1>2 DEF Hist
<1> HIDE DEF h
<1>5. h.file \in 1..Len(files') /\ files'[h.file].slots = Slots(s)
  BY <1>1, <1>4, ShellIs DEF Slots
<1>6. QED
  BY <1>1, <1>2, <1>3, <1>4, <1>5, FilesSame, OneShell

LEMMA CancelKeeps == ASSUME BInv, NEW s \in Shells, hist_cancel(s) PROVE BInv'
<1> DEFINE n == sh[s].histind - 1  c == sh[s].histcnt + 1  g == Counts(sh[s], n, c)
<1>1. Becomes(s, g, "redo", <<Undo>>) /\ issued' \in Nat
  BY ShellIs DEF hist_cancel, Counts
<1>2. n \in Int /\ c \in Nat \ {0} /\ c <= Len(Slots(s)) + 1 + 1
  BY ShellIs
<1> HIDE DEF n, c
<1>3. g \in Hist /\ g.histcnt = c /\ g.file = sh[s].file
  BY <1>2, ShellIs, Counted
<1> HIDE DEF g
<1> DEFINE t == <<Undo>>
<1>4. t \in Seq(Record) /\ Len(t) = 1 /\ "redo" \in Labels
  BY Marks DEF Labels
<1>5. Becomes(s, g, "redo", t)
  BY <1>1
<1> HIDE DEF t
<1>6. g.file \in 1..Len(files) /\ files[g.file].slots = Slots(s)
  BY <1>3, ShellIs DEF Slots
<1>7. g.histcnt <= Len(files[g.file].slots) + Len(t) + 1
  BY <1>2, <1>3, <1>4, <1>6
<1>8. QED
  BY <1>1, <1>3, <1>4, <1>5, <1>6, <1>7, BecomesIs

LEMMA LeaveKeeps == ASSUME BInv, NEW s \in Shells, Leave(s) PROVE BInv'
<1>1. sh' = [sh EXCEPT ![s] = Closed] /\ files' = files /\ issued' \in Nat
  BY ShellIs DEF Leave
<1>2. 1 \in 1..Len(files')
  BY <1>1, SlotsAre DEF BInv, Types, Named
<1>3. Closed.histcnt <= Len(files'[Closed.file].slots) + 1 /\ Closed.pc # "write"
  <2>1. Len(files[1].slots) \in Nat
    BY <1>1, <1>2, SlotsAre DEF BInv, Named
  <2>2. Closed.pc = "off"
    BY DEF Closed
  <2>3. QED
    BY <1>1, <2>1, <2>2, ClosedIs
<1>4. QED
  BY <1>1, <1>2, <1>3, ClosedIs, FilesSame, OneShell

LEMMA QuietKeeps ==
  ASSUME BInv, NEW s \in Shells, Ready(s) \/ Run(s) \/ GiveUp(s)
  PROVE  BInv'
<1>1. "home" \in Labels
  BY DEF Labels
<1>2. QED
  BY <1>1, QuietIs DEF Ready, Run, GiveUp

LEMMA AgeKeeps == ASSUME BInv, Age \/ hist_touch PROVE BInv'
<1>1. PICK b \in BOOLEAN : files' = [files EXCEPT ![Named].recent = b] /\ UNCHANGED <<sh, issued>>
  BY DEF Age, hist_touch
<1> DEFINE g == [files[Named] EXCEPT !.recent = b]
<1>2. files[Named] \in File
  BY SlotsAre DEF BInv, Types, Named
<1>3. g \in File /\ g.slots = files[Named].slots
  BY <1>2 DEF File
<1>4. files' = [files EXCEPT ![Named] = g]
  BY <1>1
<1> HIDE DEF g
<1>5. QED
  BY <1>1, <1>3, <1>4, AgeIs

-----------------------------------------------------------------------------
LEMMA BInvStarts == Init => BInv
<1> SUFFICES ASSUME Init PROVE BInv
  OBVIOUS
<1> DEFINE f == [slots |-> <<>>, recent |-> TRUE]
<1>1. files = <<f>> /\ sh = [s \in Shells |-> Closed] /\ issued = 0
  BY DEF Init
<1>2. f \in File /\ Len(f.slots) = 0
  BY Marks DEF File
<1> HIDE DEF f
<1>3. files \in Seq(File) /\ Len(files) = 1 /\ files[1] = f
  BY <1>1, <1>2
<1>4. Closed.pc = "off"
  BY DEF Closed
<1>5. Types
  BY <1>1, <1>3, ClosedIs DEF Types
<1>6. Behind /\ WritesIn
  BY <1>1, <1>2, <1>3, <1>4, ClosedIs DEF Behind, WritesIn, At, Slots
<1>7. QED
  BY <1>5, <1>6 DEF BInv

LEMMA BInvKeeps == BInv /\ [Next]_vars => BInv'
<1> SUFFICES ASSUME BInv, [Next]_vars PROVE BInv'
  OBVIOUS
<1>1. ASSUME NEW s \in Shells, Open(s) PROVE BInv'
  BY <1>1, OpenKeeps
<1>2. ASSUME NEW s \in Shells, Ready(s) \/ Run(s) \/ GiveUp(s) PROVE BInv'
  BY <1>2, QuietKeeps
<1>3. ASSUME NEW s \in Shells, hist_trim(s) PROVE BInv'
  BY <1>3, TrimKeeps
<1>4. ASSUME NEW s \in Shells, Prompt(s) PROVE BInv'
  BY <1>4, CatchUpKeeps DEF Prompt, Labels
<1>5. ASSUME NEW s \in Shells, Seek(s) PROVE BInv'
  BY <1>5, SeekKeeps
<1>6. ASSUME NEW s \in Shells, Write(s) PROVE BInv'
  BY <1>6, WriteKeeps
<1>7. ASSUME NEW s \in Shells, FlushEmpty(s) PROVE BInv'
  BY <1>7, FlushEmptyKeeps
<1>8. ASSUME NEW s \in Shells, HistEdit(s) PROVE BInv'
  BY <1>8, CatchUpKeeps DEF HistEdit, Labels
<1>9. ASSUME NEW s \in Shells, hist_cancel(s) PROVE BInv'
  BY <1>9, CancelKeeps
<1>10. ASSUME NEW s \in Shells, Leave(s) PROVE BInv'
  BY <1>10, LeaveKeeps
<1>11. CASE Age \/ hist_touch
  BY <1>11, AgeKeeps
<1>12. CASE UNCHANGED vars
  BY <1>12 DEF vars, BInv, Types, Behind, WritesIn, At, Slots
<1>13. QED
  BY <1>1, <1>2, <1>3, <1>4, <1>5, <1>6, <1>7, <1>8, <1>9, <1>10, <1>11, <1>12 DEF Next

\* hist_eof would take a file shorter than what it has read for one that was cut
\* off, and write into it (history.c:631, 726).  However the writes, restarts,
\* cancelled commands and trims of any number of shells fall, no shell believes
\* it has read more than its file has.
THEOREM BehindHolds == Spec => []Behind
<1>1. BInv => Behind
  BY DEF BInv
<1>2. QED
  BY <1>1, BInvStarts, BInvKeeps, PTL DEF Spec

-----------------------------------------------------------------------------
\* What a file means

\* Kept: a record is taken into account.
LEMMA KeptIs ==
  ASSUME NEW l \in Seq(Int), NEW x \in Record
  PROVE  /\ Kept(l, x) \in Seq(Int)
         /\ x.kind = "mark" => Kept(l, x) = l
         /\ x.kind = "undo" /\ Len(l) # 0 =>
              /\ Len(Kept(l, x)) = Len(l) - 1
              /\ \A k \in 1..(Len(l) - 1) : Kept(l, x)[k] = l[k]
         /\ x.kind \notin {"mark", "undo"} =>
              /\ Len(Kept(l, x)) = Len(l) + 1 /\ Kept(l, x)[Len(l) + 1] = x.n
              /\ \A k \in 1..Len(l) : Kept(l, x)[k] = l[k]
<1>1. x.n \in Int /\ Len(l) \in Nat
  BY DEF Record
<1>2. CASE x.kind = "undo"
  <2>1. Kept(l, x) = SubSeq(l, 1, Len(l) - 1)
    BY <1>2 DEF Kept
  <2>2. SubSeq(l, 1, Len(l) - 1) \in Seq(Int)
    BY <1>1
  <2>3. Len(l) # 0 => /\ Len(SubSeq(l, 1, Len(l) - 1)) = Len(l) - 1
                       /\ \A k \in 1..(Len(l) - 1) : SubSeq(l, 1, Len(l) - 1)[k] = l[k]
    <3> SUFFICES ASSUME Len(l) # 0
                 PROVE  /\ Len(SubSeq(l, 1, Len(l) - 1)) = Len(l) - 1
                        /\ \A k \in 1..(Len(l) - 1) : SubSeq(l, 1, Len(l) - 1)[k] = l[k]
      OBVIOUS
    <3> DEFINE n == Len(l) - 1
    <3>1. n \in Nat /\ n \in 0..Len(l) /\ 1 \in 1..(n + 1) /\ n - 1 + 1 = n
      BY <1>1
    <3> HIDE DEF n
    <3>2. Len(SubSeq(l, 1, n)) = n
      BY <3>1
    <3>3. \A k \in 1..n : SubSeq(l, 1, n)[k] = l[k]
      BY <3>1
    <3>4. QED
      BY <3>2, <3>3 DEF n
  <2>4. QED
    BY <1>2, <2>1, <2>2, <2>3
<1>3. CASE x.kind = "mark"
  BY <1>3 DEF Kept
<1>4. CASE x.kind \notin {"mark", "undo"}
  <2>1. Kept(l, x) = Append(l, x.n)
    BY <1>4 DEF Kept
  <2>2. QED
    BY <1>1, <1>4, <2>1
<1>5. QED
  BY <1>2, <1>3, <1>4

\* The function of LiveTo
Lives(u, f, p) == u = [q \in 0..p |-> IF q = 0 THEN <<>> ELSE Kept(u[q - 1], f[q])]

LEMMA LivesThere == ASSUME NEW f, NEW p \in Nat PROVE \E u : Lives(u, f, p)
<1> DEFINE Good(m) == \E u : Lives(u, f, m)
           B == {m \in Nat : ~Good(m)}
<1>1. Good(0)
  <2> DEFINE u == [q \in 0..0 |-> <<>>]
  <2>1. u = [q \in 0..0 |-> IF q = 0 THEN <<>> ELSE Kept(u[q - 1], f[q])]
    OBVIOUS
  <2>2. QED
    BY <2>1 DEF Lives
<1>2. ASSUME NEW m \in Nat, Good(m) PROVE Good(m + 1)
  <2>1. PICK u : u = [q \in 0..m |-> IF q = 0 THEN <<>> ELSE Kept(u[q - 1], f[q])]
    BY <1>2 DEF Lives
  <2> DEFINE k == m + 1
             v == [q \in 0..k |-> IF q = k THEN Kept(u[k - 1], f[k]) ELSE u[q]]
  <2>2. k \in 0..k /\ k - 1 \in 0..m /\ k - 1 # k /\ k # 0 /\ k - 1 \in 0..k
    OBVIOUS
  <2>3. \A q \in 0..k : q # k => q \in 0..m /\ (q # 0 => q - 1 \in 0..m)
    OBVIOUS
  <2>4. \A q \in 0..m : q \in 0..k /\ q # k
    OBVIOUS
  <2> HIDE DEF k
  <2>5. \A q \in 0..m : v[q] = u[q]
    BY <2>4
  <2>6. ASSUME NEW q \in 0..k
        PROVE  v[q] = IF q = 0 THEN <<>> ELSE Kept(v[q - 1], f[q])
    <3>1. CASE q = k
      BY <2>2, <2>5, <3>1
    <3>2. CASE q # k
      <4>1. v[q] = u[q] /\ u[q] = IF q = 0 THEN <<>> ELSE Kept(u[q - 1], f[q])
        BY <2>1, <2>3, <2>5, <3>2
      <4>2. q # 0 => v[q - 1] = u[q - 1]
        BY <2>3, <2>5, <3>2
      <4>3. QED
        BY <4>1, <4>2
    <3>3. QED
      BY <3>1, <3>2
  <2>7. v = [q \in 0..k |-> IF q = 0 THEN <<>> ELSE Kept(v[q - 1], f[q])]
    BY <2>6
  <2> HIDE DEF v
  <2>8. Lives(v, f, k)
    BY <2>7 DEF Lives
  <2>9. QED
    BY <2>8 DEF k
<1> HIDE DEF Good
<1> SUFFICES ASSUME B # {} PROVE FALSE
  BY DEF Good
<1>3. PICK m \in B : \A y \in B : m <= y
  BY LeastNumber
<1>4. m \in Nat /\ ~Good(m) /\ m # 0
  BY <1>1
<1>5. m - 1 \in Nat /\ ~(m <= m - 1) /\ (m - 1) + 1 = m
  BY <1>4
<1>6. Good(m - 1)
  BY <1>3, <1>5
<1>7. QED
  BY <1>2, <1>4, <1>5, <1>6

\* Its values depend on the slots before the place alone.
LEMMA LivesSame ==
  ASSUME NEW f, NEW g, NEW p \in Nat, NEW r \in Nat, NEW n \in Nat, n <= p, n <= r,
         NEW u, Lives(u, f, p), NEW v, Lives(v, g, r), \A i \in 1..n : f[i] = g[i]
  PROVE  u[n] = v[n]
<1> DEFINE B == {q \in 0..n : u[q] # v[q]}
<1>1. \A q \in 0..n : /\ u[q] = IF q = 0 THEN <<>> ELSE Kept(u[q - 1], f[q])
                      /\ v[q] = IF q = 0 THEN <<>> ELSE Kept(v[q - 1], g[q])
  <2>1. \A q \in 0..n : q \in 0..p /\ q \in 0..r
    OBVIOUS
  <2>2. QED
    BY <2>1 DEF Lives
<1> SUFFICES ASSUME B # {} PROVE FALSE
  OBVIOUS
<1>2. B \subseteq Nat
  OBVIOUS
<1>3. PICK q \in B : \A y \in B : q <= y
  BY <1>2, LeastNumber
<1>4. q \in 0..n /\ u[q] # v[q]
  OBVIOUS
<1>5. q # 0
  BY <1>1, <1>4
<1>6. q - 1 \in 0..n /\ q \in 1..n /\ ~(q <= q - 1)
  BY <1>4, <1>5
<1>7. u[q - 1] = v[q - 1]
  BY <1>3, <1>6
<1>8. QED
  BY <1>1, <1>4, <1>5, <1>6, <1>7

LEMMA LiveToIs ==
  ASSUME NEW f, NEW p \in Nat
  PROVE  \E u : Lives(u, f, p) /\ LiveTo(f, p) = u[p]
<1> DEFINE u == CHOOSE u : Lives(u, f, p)
<1>1. Lives(u, f, p)
  BY LivesThere
<1>2. LiveTo(f, p) = u[p]
  BY DEF LiveTo, Lives
<1>3. QED
  BY <1>1, <1>2

LEMMA LiveSame ==
  ASSUME NEW f, NEW g, NEW p \in Nat, \A i \in 1..p : f[i] = g[i]
  PROVE  LiveTo(f, p) = LiveTo(g, p)
<1>1. PICK u : Lives(u, f, p) /\ LiveTo(f, p) = u[p]
  BY LiveToIs
<1>2. PICK v : Lives(v, g, p) /\ LiveTo(g, p) = v[p]
  BY LiveToIs
<1>3. u[p] = v[p]
  BY <1>1, <1>2, LivesSame
<1>4. QED
  BY <1>1, <1>2, <1>3

LEMMA LiveStep ==
  ASSUME NEW f
  PROVE  /\ LiveTo(f, 0) = <<>>
         /\ \A p \in Nat : LiveTo(f, p + 1) = Kept(LiveTo(f, p), f[p + 1])
<1>1. LiveTo(f, 0) = <<>>
  <2>1. PICK u : Lives(u, f, 0) /\ LiveTo(f, 0) = u[0]
    BY LiveToIs
  <2>2. QED
    BY <2>1 DEF Lives
<1>2. ASSUME NEW p \in Nat PROVE LiveTo(f, p + 1) = Kept(LiveTo(f, p), f[p + 1])
  <2> DEFINE k == p + 1
  <2>0. k \in Nat /\ k \in 0..k /\ k # 0 /\ k - 1 = p /\ p <= k
    OBVIOUS
  <2> HIDE DEF k
  <2>1. PICK u : Lives(u, f, k) /\ LiveTo(f, k) = u[k]
    BY <2>0, LiveToIs
  <2>2. PICK v : Lives(v, f, p) /\ LiveTo(f, p) = v[p]
    BY LiveToIs
  <2>3. u[p] = v[p]
    <3>1. p <= p
      OBVIOUS
    <3>2. QED
      BY <2>0, <2>1, <2>2, <3>1, LivesSame
  <2>4. u[k] = Kept(u[k - 1], f[k])
    BY <2>0, <2>1 DEF Lives
  <2>5. QED
    BY <2>0, <2>1, <2>2, <2>3, <2>4 DEF k
<1>3. QED
  BY <1>1, <1>2

\* The number of the next command at a place in the file
Number(f, p) == Len(LiveTo(f, p)) + 1

LEMMA LiveIs ==
  ASSUME NEW f \in Seq(Record), NEW p \in 0..Len(f)
  PROVE  LiveTo(f, p) \in Seq(Int) /\ Number(f, p) \in Nat \ {0}
<1> DEFINE B == {q \in 0..Len(f) : LiveTo(f, q) \notin Seq(Int)}
<1>0. Len(f) \in Nat
  OBVIOUS
<1>1. LiveTo(f, p) \in Seq(Int)
  <2> SUFFICES ASSUME B # {} PROVE FALSE
    OBVIOUS
  <2>1. B \subseteq Nat
    BY <1>0
  <2>2. PICK q \in B : \A y \in B : q <= y
    BY <2>1, LeastNumber
  <2>3. q \in 0..Len(f) /\ LiveTo(f, q) \notin Seq(Int)
    OBVIOUS
  <2>4. <<>> \in Seq(Int)
    OBVIOUS
  <2>5. q # 0
    BY <2>3, <2>4, LiveStep
  <2>6. q - 1 \in Nat /\ q - 1 \in 0..Len(f) /\ (q - 1) + 1 = q /\ ~(q <= q - 1) /\ q \in 1..Len(f)
    BY <1>0, <2>3, <2>5
  <2>7. LiveTo(f, q - 1) \in Seq(Int)
    BY <2>2, <2>6
  <2>8. LiveTo(f, q) = Kept(LiveTo(f, q - 1), f[q])
    BY <2>6, LiveStep
  <2>9. f[q] \in Record
    BY <2>6
  <2>10. QED
    BY <2>3, <2>7, <2>8, <2>9, KeptIs
<1>2. QED
  BY <1>1 DEF Number

\* What every file holds whose writers know its numbers: a marker has the number
\* that is next, and what is cancelled is there.
Sound(f) ==
  \A p \in 1..Len(f) :
    /\ f[p].kind \in {"cmd", "mark", "undo"} /\ f[p].n \in Nat
    /\ f[p].kind = "mark" => f[p].n = Number(f, p - 1) /\ f[p].n >= 2
    /\ f[p].kind = "undo" => Number(f, p - 1) >= 2

\* From a slot to the next
LEMMA NumberStep ==
  ASSUME NEW f \in Seq(Record), Sound(f), NEW p \in 0..(Len(f) - 1)
  PROVE  LET x == f[p + 1]  n == Number(f, p)  m == Number(f, p + 1)
         IN  /\ x.kind \in {"cmd", "mark", "undo"}
             /\ x.kind = "cmd" => m = n + 1 /\ LiveTo(f, p + 1)[n] = x.n
             /\ x.kind = "mark" => m = n /\ x.n = n
             /\ x.kind = "undo" => m = n - 1
             /\ \A k \in 1..(n - 1) : k < m => LiveTo(f, p + 1)[k] = LiveTo(f, p)[k]
<1> DEFINE x == f[p + 1]  l == LiveTo(f, p)  g == LiveTo(f, p + 1)
<1>1. p \in 0..Len(f) /\ p + 1 \in 1..Len(f) /\ p \in Nat /\ (p + 1) - 1 = p
  OBVIOUS
<1>2. l \in Seq(Int) /\ Len(l) \in Nat /\ Number(f, p) = Len(l) + 1 /\ Number(f, p + 1) = Len(g) + 1
  BY <1>1, LiveIs DEF Number
<1>3. g = Kept(l, x) /\ x \in Record
  BY <1>1, LiveStep
<1>4. /\ x.kind \in {"cmd", "mark", "undo"}
      /\ x.kind = "mark" => x.n = Number(f, p)
      /\ x.kind = "undo" => Number(f, p) >= 2
  BY <1>1 DEF Sound
<1> HIDE DEF x, l, g
<1>5. /\ x.kind = "mark" => g = l
      /\ x.kind = "undo" /\ Len(l) # 0 =>
           /\ Len(g) = Len(l) - 1
           /\ \A k \in 1..(Len(l) - 1) : g[k] = l[k]
      /\ x.kind = "cmd" =>
           /\ Len(g) = Len(l) + 1 /\ g[Len(l) + 1] = x.n
           /\ \A k \in 1..Len(l) : g[k] = l[k]
  BY <1>2, <1>3, KeptIs
<1> DEFINE n == Len(l)  m == Len(g)
<1>6. n \in Nat /\ Number(f, p) = n + 1 /\ Number(f, p + 1) = m + 1
  BY <1>2
<1>7. /\ x.kind = "mark" => m = n /\ g = l /\ x.n = n + 1
      /\ x.kind = "undo" => m = n - 1 /\ \A k \in 1..(n - 1) : g[k] = l[k]
      /\ x.kind = "cmd" => m = n + 1 /\ g[n + 1] = x.n /\ \A k \in 1..n : g[k] = l[k]
  BY <1>4, <1>5, <1>6
<1> HIDE DEF n, m
<1>8. /\ x.kind = "cmd" => m + 1 = (n + 1) + 1 /\ g[n + 1] = x.n
      /\ x.kind = "mark" => m + 1 = n + 1 /\ x.n = n + 1
      /\ x.kind = "undo" => m + 1 = (n + 1) - 1
      /\ \A k \in 1..((n + 1) - 1) : k < m + 1 => g[k] = l[k]
  BY <1>4, <1>6, <1>7
<1>9. QED
  BY <1>4, <1>6, <1>8 DEF x, l, g

LEMMA NumberUp ==
  ASSUME NEW f \in Seq(Record), Sound(f), NEW p \in 0..(Len(f) - 1)
  PROVE  /\ Number(f, p) \in Nat \ {0} /\ Number(f, p + 1) \in Nat \ {0}
         /\ Number(f, p + 1) <= Number(f, p) + 1
<1>1. p \in 0..Len(f) /\ p + 1 \in 0..Len(f)
  OBVIOUS
<1>2. Number(f, p) \in Nat \ {0} /\ Number(f, p + 1) \in Nat \ {0}
  BY <1>1, LiveIs
<1>3. QED
  BY <1>2, NumberStep

\* Numbers go up one at a time: between two places every number between theirs
\* is met.
LEMMA Between ==
  ASSUME NEW f \in Seq(Record), Sound(f), NEW q \in 0..Len(f), NEW p \in q..Len(f),
         NEW k \in Int, Number(f, q) <= k, k <= Number(f, p)
  PROVE  \E r \in q..p : Number(f, r) = k
<1> DEFINE G == {r \in q..p : Number(f, r) <= k}
<1>1. p \in Nat /\ G \subseteq 0..p /\ q \in G /\ p \in q..p
  OBVIOUS
<1>2. PICK r \in G : \A y \in G : y <= r
  BY <1>1, GreatestNumber
<1>3. r \in q..p /\ Number(f, r) <= k /\ r \in 0..Len(f)
  OBVIOUS
<1>4. Number(f, r) \in Nat
  BY <1>3, LiveIs
<1>5. CASE r = p
  BY <1>3, <1>4, <1>5
<1>6. CASE r # p
  <2>1. r + 1 \in q..p /\ ~(r + 1 <= r) /\ r \in 0..(Len(f) - 1)
    BY <1>3, <1>6
  <2>2. ~(Number(f, r + 1) <= k)
    BY <1>2, <2>1
  <2>3. Number(f, r + 1) <= Number(f, r) + 1 /\ Number(f, r + 1) \in Nat
    BY <2>1, NumberUp
  <2>4. Number(f, r) = k
    BY <1>3, <1>4, <2>2, <2>3
  <2>5. QED
    BY <1>3, <2>4
<1>7. QED
  BY <1>5, <1>6

\* The last place with the number k, when the number is higher now: behind it is
\* the command k.
LEMMA LastPlace ==
  ASSUME NEW f \in Seq(Record), Sound(f), NEW p \in 0..Len(f), NEW r \in 0..(p - 1),
         NEW k \in Nat, Number(f, r) = k, k < Number(f, p),
         \A t \in (r + 1)..p : Number(f, t) # k
  PROVE  f[r + 1].kind = "cmd" /\ LiveTo(f, p)[k] = f[r + 1].n
<1>1. ASSUME NEW t \in (r + 1)..p PROVE Number(f, t) > k
  <2>1. t \in 0..Len(f) /\ p \in t..Len(f) /\ \A y \in t..p : y \in (r + 1)..p
    OBVIOUS
  <2>2. Number(f, t) \in Nat
    BY <2>1, LiveIs
  <2>3. CASE Number(f, t) <= k
    <3>1. k <= Number(f, p)
      <4>1. Number(f, p) \in Nat
        BY LiveIs
      <4>2. QED
        BY <4>1
    <3>2. \E y \in t..p : Number(f, y) = k
      BY <2>1, <2>3, <3>1, Between
    <3>3. QED
      BY <2>1, <3>2
  <2>4. QED
    BY <2>2, <2>3
<1>2. r \in 0..(Len(f) - 1) /\ r + 1 \in (r + 1)..p
  OBVIOUS
<1>3. Number(f, r + 1) > k /\ k \in Nat \ {0}
  <2>1. Number(f, r) \in Nat \ {0}
    BY <1>2, NumberUp
  <2>2. QED
    BY <1>1, <1>2, <2>1
<1>4. f[r + 1].kind = "cmd" /\ LiveTo(f, r + 1)[k] = f[r + 1].n
  BY <1>2, <1>3, NumberStep
<1> DEFINE B == {t \in (r + 1)..p : LiveTo(f, t)[k] # f[r + 1].n}
<1>5. ASSUME B # {} PROVE FALSE
  <2>1. B \subseteq Nat
    OBVIOUS
  <2>2. PICK t \in B : \A y \in B : t <= y
    BY <1>5, <2>1, LeastNumber
  <2>3. t \in (r + 1)..p /\ LiveTo(f, t)[k] # f[r + 1].n /\ t # r + 1
    BY <1>4
  <2>4. t - 1 \in (r + 1)..p /\ ~(t <= t - 1) /\ t - 1 \in 0..(Len(f) - 1) /\ (t - 1) + 1 = t
    BY <2>3
  <2>5. LiveTo(f, t - 1)[k] = f[r + 1].n
    BY <2>2, <2>4
  <2>6. Number(f, t - 1) > k /\ Number(f, t) > k
    BY <1>1, <2>3, <2>4
  <2>7. Number(f, t - 1) \in Nat
    BY <2>4, NumberUp
  <2>8. k \in 1..(Number(f, t - 1) - 1)
    BY <1>3, <2>6, <2>7
  <2>9. LiveTo(f, t)[k] = LiveTo(f, t - 1)[k]
    BY <2>4, <2>6, <2>8, NumberStep
  <2>10. QED
    BY <2>3, <2>5, <2>9
<1>6. p \in (r + 1)..p
  OBVIOUS
<1>7. QED
  BY <1>4, <1>5, <1>6

\* A place in the ring stands for one number of those that are near.
LEMMA OneNumber ==
  ASSUME NEW k \in Nat, NEW n \in Nat, hist_ind(n) = hist_ind(k), n < k + Ring
  PROVE  n <= k
<1>1. Ring \in Nat \ {0}
  BY RingIs
<1> DEFINE a == k % Ring
<1>2. n % Ring = a
  BY DEF hist_ind
<1>3. k = (k \div Ring) * Ring + a /\ n = (n \div Ring) * Ring + (n % Ring)
  BY <1>1
<1> DEFINE i == k \div Ring  j == n \div Ring
<1>4. i \in Int /\ j \in Int /\ k = i * Ring + a /\ n = j * Ring + a /\ a \in Int
  BY <1>1, <1>2, <1>3
<1> HIDE DEF a, i, j
<1>5. CASE j <= i
  <2>1. j * Ring <= i * Ring
    BY <1>1, <1>4, <1>5
  <2>2. QED
    BY <1>1, <1>4, <2>1
<1>6. CASE j >= i + 1
  <2>1. j * Ring >= (i + 1) * Ring /\ (i + 1) * Ring = i * Ring + Ring
    BY <1>1, <1>4, <1>6
  <2>2. QED
    BY <1>1, <1>4, <2>1
<1>7. QED
  BY <1>4, <1>5, <1>6

-----------------------------------------------------------------------------
\* What a shell's ring of offsets holds

\* The places a shell has seen that began to read at place a and is at place p
\* now: it also has the first command's offset.
Seen(a, p) == {q \in 0..p : q = 0 \/ q > a}

\* For every number, as far as the ring tells them apart, the ring has the last
\* of these places.
Latest(f, places, m) ==
  \A j \in 0..(Ring - 1) :
    \/ m[j] = 0 /\ \A q \in places : hist_ind(Number(f, q)) # j
    \/ /\ m[j] - 1 \in places /\ hist_ind(Number(f, m[j] - 1)) = j
       /\ \A q \in places : hist_ind(Number(f, q)) = j => q <= m[j] - 1

\* The ring m0 becomes m when a shell reads on from place a to place p.
Over(f, a, p, m0, m) ==
  \A j \in 0..(Ring - 1) :
    \/ m[j] = m0[j] /\ \A q \in (a + 1)..p : hist_ind(Number(f, q)) # j
    \/ /\ m[j] - 1 \in (a + 1)..p /\ hist_ind(Number(f, m[j] - 1)) = j
       /\ \A q \in (a + 1)..p : hist_ind(Number(f, q)) = j => q <= m[j] - 1

LEMMA OverNothing == ASSUME NEW f, NEW a \in Nat, NEW m PROVE Over(f, a, a, m, m)
<1>1. \A q \in (a + 1)..a : FALSE
  OBVIOUS
<1>2. QED
  BY <1>1 DEF Over

LEMMA OverStep ==
  ASSUME NEW f, NEW a \in Nat, NEW p \in Nat, a <= p, NEW m0, NEW m \in Offsets,
         Over(f, a, p, m0, m), NEW i \in 0..(Ring - 1), hist_ind(Number(f, p + 1)) = i,
         NEW m1, m1 = Put(m, i, p + 2)
  PROVE  Over(f, a, p + 1, m0, m1)
<1>1. m1[i] = p + 2 /\ \A j \in 0..(Ring - 1) : j # i => m1[j] = m[j]
  BY DEF Offsets, Put
<1>2. \A q \in (a + 1)..(p + 1) : q = p + 1 \/ q \in (a + 1)..p
  OBVIOUS
<1>3. p + 1 \in (a + 1)..(p + 1) /\ (p + 2) - 1 = p + 1 /\ \A q \in (a + 1)..(p + 1) : q <= p + 1
  OBVIOUS
<1>4. \A q \in (a + 1)..p : q \in (a + 1)..(p + 1)
  OBVIOUS
<1>5. ASSUME NEW j \in 0..(Ring - 1)
      PROVE  \/ m1[j] = m0[j] /\ \A q \in (a + 1)..(p + 1) : hist_ind(Number(f, q)) # j
             \/ /\ m1[j] - 1 \in (a + 1)..(p + 1) /\ hist_ind(Number(f, m1[j] - 1)) = j
                /\ \A q \in (a + 1)..(p + 1) : hist_ind(Number(f, q)) = j => q <= m1[j] - 1
  <2>1. CASE j = i
    BY <1>1, <1>3, <2>1
  <2>2. CASE j # i
    <3>1. m1[j] = m[j]
      BY <1>1, <2>2
    <3>2. \A q \in (a + 1)..(p + 1) : hist_ind(Number(f, q)) = j => q \in (a + 1)..p
      BY <1>2, <2>2
    <3>3. CASE m[j] = m0[j] /\ \A q \in (a + 1)..p : hist_ind(Number(f, q)) # j
      BY <3>1, <3>2, <3>3
    <3>4. CASE /\ m[j] - 1 \in (a + 1)..p /\ hist_ind(Number(f, m[j] - 1)) = j
               /\ \A q \in (a + 1)..p : hist_ind(Number(f, q)) = j => q <= m[j] - 1
      BY <1>4, <3>1, <3>2, <3>4
    <3>5. QED
      BY <3>3, <3>4 DEF Over
  <2>3. QED
    BY <2>1, <2>2
<1>6. QED
  BY <1>5 DEF Over

\* Reading on from what was seen adds the places that are read.
LEMMA SeenMore ==
  ASSUME NEW f, NEW c \in Nat, NEW p \in Nat, NEW places, places \subseteq 0..p,
         NEW m0 \in Offsets, Latest(f, places, m0), NEW m \in Offsets, Over(f, c, p, m0, m)
  PROVE  Latest(f, places \union (c + 1)..p, m)
<1> DEFINE new == (c + 1)..p
<1>1. \A q \in places : q \in new \/ q <= c
  OBVIOUS
<1>2. \A q \in new : q > c /\ q \in Nat
  OBVIOUS
<1>3. \A j \in 0..(Ring - 1) : m[j] \in Nat /\ m0[j] \in Nat
  BY DEF Offsets
<1>4. Over(f, c, p, m0, m)
  OBVIOUS
<1>5. ASSUME NEW j \in 0..(Ring - 1)
      PROVE  \/ m[j] = 0 /\ \A q \in places \union new : hist_ind(Number(f, q)) # j
             \/ /\ m[j] - 1 \in places \union new /\ hist_ind(Number(f, m[j] - 1)) = j
                /\ \A q \in places \union new : hist_ind(Number(f, q)) = j => q <= m[j] - 1
  <2>1. CASE m[j] = m0[j] /\ \A q \in new : hist_ind(Number(f, q)) # j
    <3> HIDE DEF new
    <3>1. CASE m0[j] = 0 /\ \A q \in places : hist_ind(Number(f, q)) # j
      BY <2>1, <3>1
    <3>2. CASE /\ m0[j] - 1 \in places /\ hist_ind(Number(f, m0[j] - 1)) = j
               /\ \A q \in places : hist_ind(Number(f, q)) = j => q <= m0[j] - 1
      BY <2>1, <3>2
    <3>3. QED
      BY <3>1, <3>2 DEF Latest
  <2>2. CASE /\ m[j] - 1 \in new /\ hist_ind(Number(f, m[j] - 1)) = j
             /\ \A q \in new : hist_ind(Number(f, q)) = j => q <= m[j] - 1
    <3> DEFINE e == m[j] - 1
    <3>1. e \in new /\ e > c /\ e \in Nat
      BY <1>2, <2>2
    <3>2. \A q \in places : q \in new \/ q <= e
      <4>1. \A q \in places : q \in Int
        OBVIOUS
      <4> HIDE DEF e, new
      <4>2. QED
        BY <1>1, <3>1, <4>1
    <3> HIDE DEF new
    <3>3. \A q \in places \union new : hist_ind(Number(f, q)) = j => q <= e
      BY <2>2, <3>2
    <3>4. QED
      BY <2>2, <3>1, <3>3
  <2>3. QED
    BY <1>4, <2>1, <2>2 DEF Over
<1> HIDE DEF new
<1>6. Latest(f, places \union new, m)
  BY <1>5 DEF Latest
<1>7. QED
  BY <1>6 DEF new

\* An offset that the ring has for one of the last numbers is that command's;
\* for the number the shell began at it may be another's.
LEMMA Lookup ==
  ASSUME NEW f \in Seq(Record), Sound(f), NEW p \in 0..Len(f), NEW a \in 0..p, NEW b \in a..p,
         NEW m \in Offsets, Latest(f, Seen(a, p), m), Number(f, b) = 1 => a = 0,
         NEW k \in Nat, k >= Number(f, b), k < Number(f, p),
         \A q \in 0..p : Number(f, q) < k + Ring
  PROVE  LET c == m[hist_ind(k)]
         IN  /\ c = 0 \/ (c \in 1..p /\ f[c].kind = "cmd")
             /\ k > Number(f, b) \/ k = 1 => c # 0 /\ f[c].n = LiveTo(f, p)[k]
<1> DEFINE i == hist_ind(k)  c == m[i]  q == c - 1
<1>0. p \in Nat /\ a \in Nat /\ b \in Nat /\ a <= b /\ b <= p /\ p <= Len(f) /\ Len(f) \in Nat
  OBVIOUS
<1>1. i \in 0..(Ring - 1) /\ c \in Nat
  <2>1. k \in Int
    OBVIOUS
  <2>2. i \in 0..(Ring - 1)
    BY <2>1, RingIs
  <2> HIDE DEF i
  <2>3. QED
    BY <2>2 DEF Offsets
<1>2. \A t \in 0..p : Number(f, t) \in Nat \ {0}
  <2>1. \A t \in 0..p : t \in 0..Len(f)
    BY <1>0
  <2>2. QED
    BY <2>1, LiveIs
<1>3. \/ c = 0 /\ \A t \in Seen(a, p) : hist_ind(Number(f, t)) # i
      \/ q \in Seen(a, p) /\ hist_ind(Number(f, q)) = i /\ \A t \in Seen(a, p) : hist_ind(Number(f, t)) = i => t <= q
  BY <1>1 DEF Latest
<1> HIDE DEF i
<1>4. \A t \in 0..p : hist_ind(Number(f, t)) = i => Number(f, t) <= k
  BY <1>2, OneNumber DEF i
<1>5. \A t \in 0..p : Number(f, t) = k => hist_ind(Number(f, t)) = i
  BY DEF i
<1>6. ASSUME c # 0, q >= a
      PROVE  q \in 0..(p - 1) /\ f[c].kind = "cmd" /\ f[c].n = LiveTo(f, p)[k]
  <2>1. q \in 0..p /\ hist_ind(Number(f, q)) = i /\ q + 1 = c /\ q \in 0..Len(f)
    BY <1>0, <1>1, <1>3, <1>6 DEF Seen
  <2>2. \A t \in (q + 1)..p : t \in Seen(a, p) /\ t \in 0..p /\ ~(t <= q)
    BY <1>0, <1>6, <2>1 DEF Seen
  <2>3. \A t \in (q + 1)..p : Number(f, t) # k
    BY <1>3, <1>5, <1>6, <2>2
  <2>4. Number(f, q) = k
    <3>1. Number(f, q) <= k /\ Number(f, q) \in Nat /\ k <= Number(f, p) /\ p \in q..Len(f)
      <4>1. Number(f, p) \in Nat /\ p \in q..Len(f)
        BY <1>0, <1>2, <2>1
      <4>2. QED
        BY <1>2, <1>4, <2>1, <4>1
    <3>2. PICK r \in q..p : Number(f, r) = k
      BY <2>1, <3>1, Between
    <3>3. r = q \/ r \in (q + 1)..p
      BY <2>1
    <3>4. QED
      BY <2>3, <3>2, <3>3
  <2>5. q # p /\ q \in 0..(p - 1)
    <3>1. Number(f, p) \in Nat
      BY <1>0, <1>2
    <3>2. q # p
      BY <2>4, <3>1
    <3>3. QED
      BY <2>1, <3>2
  <2> HIDE DEF q
  <2>6. QED
    BY <1>0, <2>1, <2>3, <2>4, <2>5, LastPlace
<1>7. CASE k > Number(f, b)
  <2>1. b \in 0..Len(f) /\ b \in 0..p /\ p \in b..Len(f) /\ Number(f, b) \in Nat /\ Number(f, p) \in Nat
    BY <1>0, <1>2
  <2>2. PICK r \in b..p : Number(f, r) = k
    BY <1>7, <2>1, Between
  <2>3. r # b /\ r > a /\ r \in 0..p
    BY <1>0, <1>7, <2>1, <2>2
  <2>4. r \in Seen(a, p) /\ hist_ind(Number(f, r)) = i
    BY <1>5, <2>2, <2>3 DEF Seen
  <2>5. c # 0 /\ r <= q
    BY <1>3, <2>4
  <2>6. q >= a /\ c - 1 = q
    BY <1>0, <1>1, <2>3, <2>5
  <2>7. c \in 1..p
    BY <1>0, <1>1, <1>6, <2>5, <2>6
  <2>8. QED
    BY <1>6, <2>5, <2>6, <2>7 DEF i
<1>8. CASE k = 1
  <2>1. Number(f, b) = 1 /\ a = 0
    BY <1>0, <1>2, <1>8
  <2>2. 0 \in Seen(a, p) /\ Number(f, 0) = 1 /\ 0 \in 0..p
    BY <1>0, LiveStep DEF Seen, Number
  <2>3. c # 0
    BY <1>3, <1>5, <1>8, <2>2
  <2>4. q >= a
    BY <1>1, <2>1, <2>3
  <2>5. c \in 1..p
    BY <1>0, <1>1, <1>6, <2>3, <2>4
  <2>6. QED
    BY <1>6, <2>3, <2>4, <2>5 DEF i
<1>9. CASE ~(k > Number(f, b)) /\ k # 1
  <2>1. CASE c = 0
    BY <1>9, <2>1 DEF i
  <2>2. CASE c # 0 /\ q >= a
    <3>1. c \in 1..p /\ f[c].kind = "cmd"
      BY <1>0, <1>1, <1>6, <2>2
    <3>2. QED
      BY <1>9, <3>1 DEF i
  <2>3. CASE c # 0 /\ ~(q >= a)
    <3>1. q = 0 /\ c = 1 /\ a > 0
      BY <1>0, <1>1, <1>3, <2>3 DEF Seen
    <3>2. 0 \in 0..(Len(f) - 1) /\ 1 \in 1..Len(f) /\ 1 \in 1..p /\ 1 - 1 = 0 /\ 0 + 1 = 1
      BY <1>0, <3>1
    <3>3. Number(f, 0) = 1
      BY LiveStep DEF Number
    <3>4. f[1].kind = "cmd"
      BY <3>2, <3>3 DEF Sound
    <3>5. QED
      BY <1>9, <3>1, <3>2, <3>4 DEF i
  <2>4. QED
    BY <2>1, <2>2, <2>3
<1>10. QED
  BY <1>7, <1>8, <1>9

-----------------------------------------------------------------------------
\* Readers that know their number

\* The markers whose number a reader takes as it is
LowBytes(f) == \A p \in 1..Len(f) : f[p].kind = "mark" => f[p].n % Low # 0

\* A reader has the number of its place, and offsets from where it began, which
\* is also where its first number is, or before.
Reads(h, f) ==
  /\ h.histcnt - 1 \in 0..Len(f) /\ h.histind = Number(f, h.histcnt - 1)
  /\ \E a \in 0..(h.histcnt - 1) : \E b \in a..(h.histcnt - 1) :
       /\ Latest(f, Seen(a, h.histcnt - 1), h.histcmds)
       /\ h.first = Number(f, b) /\ (Number(f, b) = 1 => a = 0)

LEMMA StepReads ==
  ASSUME NEW f \in Seq(Record), Sound(f), NEW starting \in BOOLEAN, starting \/ LowBytes(f),
         NEW p \in 0..(Len(f) - 1), NEW h \in Hist, h.histcnt = p + 1, h.histind = Number(f, p)
  PROVE  Step(starting, h, f[p + 1]) = Counts(h, Number(f, p + 1), p + 2)
<1> DEFINE x == f[p + 1]
           n == IF x.kind = "undo" THEN h.histind - 1
                ELSE IF x.kind # "mark" THEN h.histind + 1
                ELSE IF starting THEN h.histind ELSE Adopted(x.n)
<1>1. p + 1 \in 1..Len(f) /\ (p + 1) + 1 = p + 2
  OBVIOUS
<1>2. /\ x.kind \in {"cmd", "mark", "undo"}
      /\ x.kind = "cmd" => Number(f, p + 1) = Number(f, p) + 1
      /\ x.kind = "mark" => Number(f, p + 1) = Number(f, p) /\ x.n = Number(f, p)
      /\ x.kind = "undo" => Number(f, p + 1) = Number(f, p) - 1
  BY NumberStep
<1>3. x.kind = "mark" /\ ~starting => Adopted(x.n) = x.n
  BY <1>1 DEF LowBytes, Adopted
<1> HIDE DEF x
<1>4. n = Number(f, p + 1)
  BY <1>2, <1>3
<1>5. Step(starting, h, x) = Counts(h, n, p + 2)
  BY <1>1 DEF Step, Counts
<1>6. QED
  BY <1>4, <1>5 DEF x

LEMMA WalkReads ==
  ASSUME NEW f \in Seq(Record), Sound(f), NEW starting \in BOOLEAN, starting \/ LowBytes(f),
         NEW h \in Hist, NEW a \in Nat, h.histcnt = a + 1, h.histind = Number(f, a),
         NEW n \in Nat, n <= Len(f), NEW u, Walk(u, starting, h, f, n)
  PROVE  \A p \in a..n : /\ u[p].histind = Number(f, p) /\ u[p].first = h.first
                         /\ Over(f, a, p, h.histcmds, u[p].histcmds)
<1> DEFINE Good(p) == /\ u[p].histind = Number(f, p) /\ u[p].first = h.first
                      /\ Over(f, a, p, h.histcmds, u[p].histcmds)
           B == {p \in a..n : ~Good(p)}
<1>0. h.histcnt - 1 = a
  OBVIOUS
<1>1. \A p \in a..n : u[p] = IF p < h.histcnt THEN h ELSE Step(starting, u[p - 1], f[p])
  BY <1>0 DEF Walk
<1>2. \A p \in a..n : u[p] \in Hist /\ u[p].histcnt = p + 1
  BY <1>0, WalkCounts
<1>3. ASSUME NEW p \in a..n, p # a, Good(p - 1) PROVE Good(p)
  <2> DEFINE q == p - 1
  <2>1. q \in a..n /\ q \in 0..(Len(f) - 1) /\ q + 1 = p /\ ~(p < h.histcnt) /\ a <= q /\ q \in Nat
        /\ p \in 0..Len(f) /\ q + 2 = p + 1 /\ q + 2 \in Nat \ {0}
    BY <1>3
  <2> DEFINE g == u[q]
  <2>2. g \in Hist /\ g.histcnt = q + 1 /\ g.histind = Number(f, q) /\ g.first = h.first
        /\ Over(f, a, q, h.histcmds, g.histcmds) /\ u[p] = Step(starting, g, f[p])
    BY <1>1, <1>2, <1>3, <2>1
  <2> HIDE DEF q, g
  <2>3. u[p] = Counts(g, Number(f, p), q + 2)
    BY <2>1, <2>2, StepReads
  <2>4. Number(f, p) \in Int
    BY <2>1, LiveIs
  <2> DEFINE i == hist_ind(Number(f, q + 1))
  <2>5. /\ u[p].histind = Number(f, p) /\ u[p].first = g.first
        /\ u[p].histcmds = Put(g.histcmds, i, q + 2)
    BY <2>1, <2>2, <2>3, <2>4, CountedAll
  <2>6. i \in 0..(Ring - 1) /\ g.histcmds \in Offsets /\ hist_ind(Number(f, q + 1)) = i
    BY <2>1, <2>2, <2>4, RingIs DEF Hist
  <2> HIDE DEF i
  <2>7. Over(f, a, q + 1, h.histcmds, u[p].histcmds)
    <3> DEFINE m0 == h.histcmds  m == g.histcmds  m1 == u[p].histcmds
    <3>1. m \in Offsets /\ m1 = Put(m, i, q + 2) /\ Over(f, a, q, m0, m)
      BY <2>2, <2>5, <2>6
    <3> HIDE DEF m0, m, m1
    <3>2. Over(f, a, q + 1, m0, m1)
      BY <2>1, <2>6, <3>1, OverStep
    <3>3. QED
      BY <3>2 DEF m0, m1
  <2>8. QED
    BY <2>1, <2>2, <2>5, <2>7
<1>4. a \in a..n => Good(a)
  <2>1. a < h.histcnt
    OBVIOUS
  <2>2. QED
    BY <1>1, <2>1, OverNothing
<1> HIDE DEF Good
<1> SUFFICES ASSUME B # {} PROVE FALSE
  BY DEF Good
<1>5. B \subseteq Nat
  OBVIOUS
<1>6. PICK p \in B : \A y \in B : p <= y
  BY <1>5, LeastNumber
<1>7. p \in a..n /\ ~Good(p) /\ p # a
  BY <1>4
<1>8. p - 1 \in a..n /\ ~(p <= p - 1)
  BY <1>7
<1>9. Good(p - 1)
  BY <1>6, <1>8
<1>10. QED
  BY <1>3, <1>7, <1>9

LEMMA ReadOnReads ==
  ASSUME NEW f \in Seq(Record), Sound(f), NEW starting \in BOOLEAN, starting \/ LowBytes(f),
         NEW h \in Hist, NEW a \in 0..Len(f), h.histcnt = a + 1, h.histind = Number(f, a)
  PROVE  LET g == ReadOn(starting, h, f)
         IN  /\ g.histind = Number(f, Len(f)) /\ g.first = h.first
             /\ Over(f, a, Len(f), h.histcmds, g.histcmds)
<1> DEFINE n == Len(f)
<1>1. n \in Nat /\ a \in Nat
  OBVIOUS
<1>2. CASE h.histcnt > n
  <2>1. a = n
    BY <1>1, <1>2
  <2>2. ReadOn(starting, h, f) = h
    BY <1>2 DEF ReadOn
  <2>3. QED
    BY <1>1, <2>1, <2>2, OverNothing
<1>3. CASE ~(h.histcnt > n)
  <2> DEFINE u == CHOOSE u : Walk(u, starting, h, f, n)
  <2>1. ReadOn(starting, h, f) = u[n]
    BY <1>3 DEF ReadOn, Walk
  <2>2. Walk(u, starting, h, f, n)
    <3>1. n >= h.histcnt - 1
      BY <1>1, <1>3
    <3>2. \E v : Walk(v, starting, h, f, n)
      BY <1>1, <3>1, WalkThere
    <3>3. QED
      BY <3>2
  <2> HIDE DEF u
  <2>3. n \in a..n
    BY <1>1, <1>3
  <2> HIDE DEF n
  <2>4. n <= Len(f)
    BY <1>1 DEF n
  <2>5. u[n].histind = Number(f, n) /\ u[n].first = h.first /\ Over(f, a, n, h.histcmds, u[n].histcmds)
    BY <1>1, <2>2, <2>3, <2>4, WalkReads
  <2>6. QED
    BY <2>1, <2>5 DEF n
<1>4. QED
  BY <1>2, <1>3

\* hist_eof in a shell that is open
LEMMA CaughtUp ==
  ASSUME NEW f \in Seq(Record), Sound(f), LowBytes(f), NEW h \in Hist, Reads(h, f)
  PROVE  LET g == ReadOn(FALSE, h, f)
         IN  g \in Hist /\ Reads(g, f) /\ g.histcnt = Len(f) + 1 /\ g.first = h.first /\ g.file = h.file
<1> DEFINE g == ReadOn(FALSE, h, f)  p == h.histcnt - 1  n == Len(f)
<1>1. p \in 0..n /\ h.histcnt = p + 1 /\ h.histind = Number(f, p) /\ n \in Nat /\ h.histcnt <= n + 1
      /\ p \in Nat
  BY DEF Reads, Hist
<1>2. /\ g \in Hist /\ g.histcnt = n + 1 /\ g.file = h.file
      /\ g.histind = Number(f, n) /\ g.first = h.first
      /\ Over(f, p, n, h.histcmds, g.histcmds)
  <2>1. g \in Hist /\ g.histcnt = n + 1 /\ g.file = h.file
    BY <1>1, ReadOnIs
  <2>2. g.histind = Number(f, n) /\ g.first = h.first /\ Over(f, p, n, h.histcmds, g.histcmds)
    BY <1>1, ReadOnReads
  <2>3. QED
    BY <2>1, <2>2
<1>9. PICK a \in 0..p : \E b \in a..p :
         Latest(f, Seen(a, p), h.histcmds) /\ h.first = Number(f, b) /\ (Number(f, b) = 1 => a = 0)
  BY DEF Reads
<1>3. PICK b \in a..p :
         Latest(f, Seen(a, p), h.histcmds) /\ h.first = Number(f, b) /\ (Number(f, b) = 1 => a = 0)
  BY <1>9
<1> HIDE DEF g, p, n
<1>4. Latest(f, Seen(a, p) \union (p + 1)..n, g.histcmds)
  <2>1. Seen(a, p) \subseteq 0..n
    BY <1>1 DEF Seen
  <2>2. h.histcmds \in Offsets /\ g.histcmds \in Offsets
    BY <1>2 DEF Hist
  <2>3. QED
    BY <1>1, <1>2, <1>3, <2>1, <2>2, SeenMore
<1>5. Seen(a, p) \union (p + 1)..n = Seen(a, n)
  BY <1>1 DEF Seen
<1>6. a \in 0..n /\ b \in a..n /\ n \in 0..n /\ (n + 1) - 1 = n
  BY <1>1
<1>7. Reads(g, f)
  BY <1>2, <1>3, <1>4, <1>5, <1>6 DEF Reads, n
<1>8. QED
  BY <1>2, <1>7 DEF g, n

\* Where a shell starts to read
LEMMA StartIs ==
  ASSUME NEW f \in Seq(Record), Sound(f), NEW x \in Starts(f)
  PROVE  \E a \in 0..Len(f) : x.at = a + 1 /\ x.n = Number(f, a) /\ (Number(f, a) = 1 => a = 0)
<1>0. Len(f) \in Nat
  OBVIOUS
<1>1. CASE x = Begin
  <2>1. 0 \in 0..Len(f) /\ Number(f, 0) = 1 /\ 1 = 0 + 1
    BY <1>0, LiveStep DEF Number
  <2>2. QED
    BY <1>1, <2>1 DEF Begin
<1>2. CASE x # Begin
  <2>1. PICK p \in DOMAIN f : f[p].kind = "mark" /\ x = [at |-> p + 1, n |-> f[p].n]
    BY <1>2 DEF Starts
  <2>2. p \in 1..Len(f) /\ p - 1 \in 0..(Len(f) - 1) /\ (p - 1) + 1 = p /\ p \in 0..Len(f)
    BY <1>0
  <2>3. Number(f, p) = Number(f, p - 1) /\ f[p].n = Number(f, p)
    BY <2>1, <2>2, NumberStep
  <2>4. f[p].n >= 2
    BY <2>1, <2>2 DEF Sound
  <2>5. x.at = p + 1 /\ x.n = Number(f, p) /\ Number(f, p) # 1
    BY <2>1, <2>3, <2>4
  <2>6. QED
    BY <2>2, <2>5
<1>3. QED
  BY <1>1, <1>2

LEMMA SmallIs == Ring > 1 => 1 % Ring = 1
<1> SUFFICES ASSUME Ring > 1 PROVE 1 % Ring = 1
  OBVIOUS
<1> DEFINE d == 1 \div Ring  a == 1 % Ring
<1>1. Ring \in Nat \ {0}
  BY RingIs
<1>2. d \in Int /\ a \in 0..(Ring - 1) /\ 1 = d * Ring + a
  BY <1>1
<1> HIDE DEF d, a
<1>3. CASE d >= 1
  <2>1. d * Ring >= 1 * Ring
    BY <1>1, <1>2, <1>3
  <2>2. QED
    BY <1>1, <1>2, <2>1
<1>4. CASE d <= -1
  <2>1. d * Ring <= (-1) * Ring
    BY <1>1, <1>2, <1>4
  <2>2. QED
    BY <1>1, <1>2, <2>1
<1>5. CASE d = 0
  BY <1>1, <1>2, <1>5 DEF a
<1>6. QED
  BY <1>2, <1>3, <1>4, <1>5

\* The first reading of a shell that starts: its ring has the first command's
\* offset and no other.
LEMMA FirstReading ==
  ASSUME NEW f \in Seq(Record), Sound(f), Named \in Nat, Ring > 1, NEW x \in Starts(f)
  PROVE  LET h0 == [Closed EXCEPT !.file = Named, !.histcmds[1] = 1]
             g  == ReadOn(TRUE, From(h0, x), f)
         IN  /\ g \in Hist /\ Reads(g, f) /\ g.histcnt = Len(f) + 1 /\ g.file = Named /\ g.first = x.n
<1> DEFINE h0 == [Closed EXCEPT !.file = Named, !.histcmds[1] = 1]
           h == From(h0, x)
           g == ReadOn(TRUE, h, f)
           m0 == [Zeros EXCEPT ![1] = 1]
           n == Len(f)
<1>1. PICK a \in 0..Len(f) : x.at = a + 1 /\ x.n = Number(f, a) /\ (Number(f, a) = 1 => a = 0)
  BY StartIs
<1>2. h0 \in Hist /\ h0.file = Named
  BY OpenedIs
<1>3. h0.histcmds = m0
  BY DEF Closed
<1>4. Latest(f, Seen(0, 0), m0)
  <2>1. Seen(0, 0) = {0}
    BY DEF Seen
  <2>2. Number(f, 0) = 1 /\ hist_ind(1) = 1 /\ 1 \in 0..(Ring - 1) /\ 1 - 1 = 0 /\ 0 <= 0
    <3>1. Number(f, 0) = 1
      BY LiveStep DEF Number
    <3>2. 1 % Ring = 1 /\ 1 \in 0..(Ring - 1)
      BY RingIs, SmallIs
    <3>3. QED
      BY <3>1, <3>2 DEF hist_ind
  <2>3. m0[1] = 1 /\ \A j \in 0..(Ring - 1) : j # 1 => m0[j] = 0
    BY <2>2 DEF Zeros
  <2> HIDE DEF m0
  <2>4. QED
    BY <2>1, <2>2, <2>3 DEF Latest
<1> HIDE DEF h0
<1>5. h \in Hist /\ h.file = Named /\ h.histcnt <= n + 1
  BY <1>2, FromIs
<1>6. h.histcnt = a + 1 /\ h.histind = Number(f, a) /\ h.first = Number(f, a) /\ h.histcmds = m0
  BY <1>1, <1>2, <1>3 DEF From, Hist
<1> HIDE DEF h, m0
<1>7. g \in Hist /\ g.histcnt = n + 1 /\ g.file = Named
  BY <1>5, ReadOnIs
<1>8. g.histind = Number(f, n) /\ g.first = Number(f, a) /\ Over(f, a, n, m0, g.histcmds)
  BY <1>1, <1>5, <1>6, ReadOnReads
<1> HIDE DEF g, n
<1>9. n \in Nat /\ a \in 0..n /\ a \in a..n /\ n \in 0..n /\ (n + 1) - 1 = n /\ a \in Nat
  BY DEF n
<1>10. Latest(f, Seen(0, 0) \union (a + 1)..n, g.histcmds)
  <2>1. Seen(0, 0) \subseteq 0..n
    BY <1>9 DEF Seen
  <2>2. m0 \in Offsets /\ g.histcmds \in Offsets
    BY <1>5, <1>6, <1>7 DEF Hist
  <2>3. QED
    BY <1>4, <1>8, <1>9, <2>1, <2>2, SeenMore
<1>11. Seen(0, 0) \union (a + 1)..n = Seen(a, n)
  BY <1>9 DEF Seen
<1>12. Reads(g, f)
  BY <1>1, <1>7, <1>8, <1>9, <1>10, <1>11 DEF Reads, n
<1>13. QED
  BY <1>1, <1>7, <1>8, <1>12 DEF g, h, h0, n

\* The second reading, from anywhere
LEMMA SecondReading ==
  ASSUME NEW f \in Seq(Record), Sound(f), NEW r \in Hist, Reads(r, f), r.histcnt = Len(f) + 1,
         NEW x \in Starts(f)
  PROVE  LET g == ReadOn(TRUE, From(r, x), f)
         IN  /\ g \in Hist /\ Reads(g, f) /\ g.histcnt = Len(f) + 1 /\ g.file = r.file
             /\ g.first = x.n /\ g.histind = r.histind
<1> DEFINE h == From(r, x)
           g == ReadOn(TRUE, h, f)
           n == Len(f)
<1>1. PICK c \in 0..Len(f) : x.at = c + 1 /\ x.n = Number(f, c) /\ (Number(f, c) = 1 => c = 0)
  BY StartIs
<1>2. h \in Hist /\ h.file = r.file /\ h.histcnt <= n + 1
  BY FromIs
<1>3. h.histcnt = c + 1 /\ h.histind = Number(f, c) /\ h.first = Number(f, c) /\ h.histcmds = r.histcmds
  BY <1>1 DEF From, Hist
<1> HIDE DEF h
<1>4. g \in Hist /\ g.histcnt = n + 1 /\ g.file = r.file
  BY <1>2, ReadOnIs
<1>5. g.histind = Number(f, n) /\ g.first = Number(f, c) /\ Over(f, c, n, r.histcmds, g.histcmds)
  BY <1>1, <1>2, <1>3, ReadOnReads
<1>6. n \in Nat /\ (n + 1) - 1 = n /\ r.histcnt - 1 = n /\ n \in 0..n
  OBVIOUS
<1>7. r.histind = Number(f, n)
  BY <1>6 DEF Reads
<1>8. PICK a \in 0..n : Latest(f, Seen(a, n), r.histcmds)
  BY <1>6 DEF Reads
<1> HIDE DEF g, n
<1> DEFINE d == IF a < c THEN a ELSE c
<1>9. d \in 0..n /\ c \in d..n /\ c \in Nat /\ (c = 0 => d = 0)
  BY <1>1, <1>6, <1>8 DEF n
<1>10. Latest(f, Seen(a, n) \union (c + 1)..n, g.histcmds)
  <2>1. Seen(a, n) \subseteq 0..n
    BY <1>6 DEF Seen
  <2>2. r.histcmds \in Offsets /\ g.histcmds \in Offsets
    BY <1>4 DEF Hist
  <2>3. QED
    BY <1>5, <1>6, <1>8, <1>9, <2>1, <2>2, SeenMore
<1>11. Seen(a, n) \union (c + 1)..n = Seen(d, n)
  BY <1>6, <1>8, <1>9 DEF Seen
<1> HIDE DEF d
<1>12. Reads(g, f)
  BY <1>1, <1>4, <1>5, <1>6, <1>9, <1>10, <1>11 DEF Reads, n
<1>13. QED
  BY <1>1, <1>4, <1>5, <1>7, <1>12 DEF g, h, n

-----------------------------------------------------------------------------
\* Files that grow

Extends(f, g) == Len(f) <= Len(g) /\ \A i \in 1..Len(f) : g[i] = f[i]

\* No place before the end has a number higher than the one at the end, or more
\* than one higher.
Top(f)  == \A q \in 0..Len(f) : Number(f, q) <= Number(f, Len(f))
Near(f) == \A q \in 0..Len(f) : Number(f, q) <= Number(f, Len(f)) + 1

LEMMA ExtendIs ==
  ASSUME NEW f \in Seq(Record), NEW g \in Seq(Record), Extends(f, g)
  PROVE  /\ \A p \in 0..Len(f) : Number(g, p) = Number(f, p)
         /\ Sound(f) /\ (\A p \in (Len(f) + 1)..Len(g) :
              /\ g[p].kind \in {"cmd", "mark", "undo"} /\ g[p].n \in Nat
              /\ g[p].kind = "mark" => g[p].n = Number(g, p - 1) /\ g[p].n >= 2
              /\ g[p].kind = "undo" => Number(g, p - 1) >= 2) => Sound(g)
<1>0. Len(f) \in Nat /\ Len(g) \in Nat
  OBVIOUS
<1>1. ASSUME NEW p \in 0..Len(f) PROVE Number(g, p) = Number(f, p)
  <2>1. \A i \in 1..p : g[i] = f[i]
    BY DEF Extends
  <2>2. LiveTo(g, p) = LiveTo(f, p)
    BY <2>1, LiveSame
  <2>3. QED
    BY <2>2 DEF Number
<1>2. ASSUME Sound(f), NEW p \in 1..Len(f)
      PROVE  /\ g[p].kind \in {"cmd", "mark", "undo"} /\ g[p].n \in Nat
             /\ g[p].kind = "mark" => g[p].n = Number(g, p - 1) /\ g[p].n >= 2
             /\ g[p].kind = "undo" => Number(g, p - 1) >= 2
  <2>1. p - 1 \in 0..Len(f)
    OBVIOUS
  <2>2. g[p] = f[p] /\ Number(g, p - 1) = Number(f, p - 1)
    BY <1>1, <2>1 DEF Extends
  <2>3. QED
    BY <1>2, <2>2 DEF Sound
<1>3. \A p \in 1..Len(g) : p \in 1..Len(f) \/ p \in (Len(f) + 1)..Len(g)
  BY <1>0
<1>4. QED
  BY <1>1, <1>2, <1>3 DEF Sound

LEMMA ReadsExtended ==
  ASSUME NEW f \in Seq(Record), NEW g \in Seq(Record), Extends(f, g), NEW h \in Hist, Reads(h, f)
  PROVE  Reads(h, g)
<1> DEFINE p == h.histcnt - 1
<1>1. p \in 0..Len(f) /\ h.histind = Number(f, p) /\ Len(f) \in Nat /\ Len(g) \in Nat
  BY DEF Reads
<1>2. PICK a \in 0..p : \E b \in a..p :
         Latest(f, Seen(a, p), h.histcmds) /\ h.first = Number(f, b) /\ (Number(f, b) = 1 => a = 0)
  BY DEF Reads
<1>3. PICK b \in a..p :
         Latest(f, Seen(a, p), h.histcmds) /\ h.first = Number(f, b) /\ (Number(f, b) = 1 => a = 0)
  BY <1>2
<1>4. \A q \in 0..Len(f) : Number(g, q) = Number(f, q)
  BY ExtendIs
<1>5. p \in 0..Len(g) /\ b \in 0..Len(f) /\ \A q \in Seen(a, p) : q \in 0..Len(f)
  BY <1>1 DEF Seen, Extends
<1>6. Latest(g, Seen(a, p), h.histcmds)
  <2> HIDE DEF p
  <2> DEFINE m == h.histcmds  T == Seen(a, p)
  <2>1. Latest(f, T, m) /\ \A q \in T : Number(g, q) = Number(f, q)
    BY <1>3, <1>4, <1>5
  <2> HIDE DEF m, T
  <2>2. ASSUME NEW j \in 0..(Ring - 1)
        PROVE  \/ m[j] = 0 /\ \A q \in T : hist_ind(Number(g, q)) # j
               \/ /\ m[j] - 1 \in T /\ hist_ind(Number(g, m[j] - 1)) = j
                  /\ \A q \in T : hist_ind(Number(g, q)) = j => q <= m[j] - 1
    BY <2>1 DEF Latest
  <2>3. Latest(g, T, m)
    BY <2>2 DEF Latest
  <2>4. QED
    BY <2>3 DEF T, m
<1>7. h.histind = Number(g, p) /\ h.first = Number(g, b) /\ (Number(g, b) = 1 => a = 0)
  BY <1>1, <1>3, <1>4, <1>5
<1>8. QED
  BY <1>5, <1>6, <1>7 DEF Reads

\* A shell that has read everything and appends reads on over that.
LEMMA ReadsMore ==
  ASSUME NEW f \in Seq(Record), NEW g \in Seq(Record), Extends(f, g), NEW h \in Hist, Reads(h, f),
         h.histcnt = Len(f) + 1, NEW h1 \in Hist, h1.histcnt = Len(g) + 1, h1.first = h.first,
         h1.histind = Number(g, Len(g)), Over(g, Len(f), Len(g), h.histcmds, h1.histcmds)
  PROVE  Reads(h1, g)
<1> DEFINE p == Len(f)  n == Len(g)
<1>1. p \in Nat /\ n \in Nat /\ p <= n /\ h.histcnt - 1 = p
  BY DEF Extends
<1>2. Reads(h, g)
  BY ReadsExtended
<1>3. PICK a \in 0..p : \E b \in a..p :
         Latest(g, Seen(a, p), h.histcmds) /\ h.first = Number(g, b) /\ (Number(g, b) = 1 => a = 0)
  BY <1>1, <1>2 DEF Reads
<1>4. PICK b \in a..p :
         Latest(g, Seen(a, p), h.histcmds) /\ h.first = Number(g, b) /\ (Number(g, b) = 1 => a = 0)
  BY <1>3
<1> HIDE DEF p, n
<1>5. Latest(g, Seen(a, p) \union (p + 1)..n, h1.histcmds)
  <2>1. Seen(a, p) \subseteq 0..n
    BY <1>1 DEF Seen
  <2>2. h.histcmds \in Offsets /\ h1.histcmds \in Offsets /\ Over(g, p, n, h.histcmds, h1.histcmds)
    BY DEF Hist, p, n
  <2>3. QED
    BY <1>1, <1>4, <2>1, <2>2, SeenMore
<1>6. Seen(a, p) \union (p + 1)..n = Seen(a, n)
  BY <1>1 DEF Seen
<1>7. a \in 0..n /\ b \in a..n /\ n \in 0..n /\ (n + 1) - 1 = n
  BY <1>1
<1>8. h1.histcnt - 1 = n /\ h1.histind = Number(g, n) /\ n = Len(g)
  BY <1>7 DEF n
<1>9. QED
  BY <1>4, <1>5, <1>6, <1>7, <1>8 DEF Reads

\* One more record
LEMMA OneMore ==
  ASSUME NEW f \in Seq(Record), Sound(f), NEW g \in Seq(Record), Extends(f, g), Len(g) = Len(f) + 1
  PROVE  LET x == g[Len(g)]  n == Number(f, Len(f))
         IN  /\ x.kind = "cmd" /\ x.n \in Nat /\ Near(f) =>
                  Sound(g) /\ Number(g, Len(g)) = n + 1 /\ Top(g)
             /\ x.kind = "mark" /\ x.n = n /\ n >= 2 /\ Top(f) =>
                  Sound(g) /\ Number(g, Len(g)) = n /\ Top(g)
             /\ x.kind = "undo" /\ x.n \in Nat /\ n >= 2 /\ Top(f) =>
                  Sound(g) /\ Number(g, Len(g)) = n - 1 /\ Near(g)
<1> DEFINE p == Len(f)  x == g[Len(g)]  n == Number(f, p)  m == Number(g, Len(g))
<1>1. p \in Nat /\ Len(g) = p + 1 /\ p \in 0..Len(f) /\ p \in 0..(Len(g) - 1) /\ (p + 1) - 1 = p
  OBVIOUS
<1>2. \A q \in 0..p : Number(g, q) = Number(f, q)
  BY ExtendIs
<1>3. \A q \in 0..p : Number(f, q) \in Nat
  BY LiveIs
<1>4. n \in Nat /\ Number(g, p) = n
  BY <1>1, <1>2, <1>3
<1>5. \A i \in (p + 1)..Len(g) : i = p + 1
  BY <1>1
<1>6. Sound(g) => /\ x.kind = "cmd" => m = n + 1
                  /\ x.kind = "mark" => m = n
                  /\ x.kind = "undo" => m = n - 1
  <2> HIDE DEF p, n, m, x
  <2>1. Sound(g) => /\ g[p + 1].kind = "cmd" => Number(g, p + 1) = Number(g, p) + 1
                    /\ g[p + 1].kind = "mark" => Number(g, p + 1) = Number(g, p)
                    /\ g[p + 1].kind = "undo" => Number(g, p + 1) = Number(g, p) - 1
    BY <1>1, NumberStep
  <2>2. QED
    BY <1>1, <1>4, <2>1 DEF m, x
<1>7. \A q \in 0..Len(g) : q \in 0..p \/ q = p + 1
  BY <1>1
<1>8. /\ x.kind = "cmd" /\ x.n \in Nat => Sound(g)
      /\ x.kind = "mark" /\ x.n = n /\ n >= 2 => Sound(g)
      /\ x.kind = "undo" /\ x.n \in Nat /\ n >= 2 => Sound(g)
  <2>1. x = g[p + 1] /\ Number(g, (p + 1) - 1) = n
    BY <1>1, <1>4
  <2> HIDE DEF p, n, x
  <2>2. Sound(f) /\ (\A i \in (p + 1)..Len(g) :
              /\ g[i].kind \in {"cmd", "mark", "undo"} /\ g[i].n \in Nat
              /\ g[i].kind = "mark" => g[i].n = Number(g, i - 1) /\ g[i].n >= 2
              /\ g[i].kind = "undo" => Number(g, i - 1) >= 2) => Sound(g)
    BY ExtendIs DEF p
  <2>3. QED
    BY <1>4, <1>5, <2>1, <2>2
<1>9. m = Number(g, p + 1)
  BY <1>1
<1> HIDE DEF n, m, x
<1>10. /\ Top(f) <=> \A q \in 0..p : Number(f, q) <= n
       /\ Near(f) <=> \A q \in 0..p : Number(f, q) <= n + 1
       /\ Top(g) <=> \A q \in 0..Len(g) : Number(g, q) <= m
       /\ Near(g) <=> \A q \in 0..Len(g) : Number(g, q) <= m + 1
  BY DEF Top, Near, n, m
<1> HIDE DEF p
<1>11. /\ m \in Int /\ (\A q \in 0..p : Number(f, q) <= m) => Top(g)
       /\ m \in Int /\ (\A q \in 0..p : Number(f, q) <= m + 1) => Near(g)
  BY <1>2, <1>7, <1>9, <1>10
<1>12. CASE x.kind = "cmd" /\ x.n \in Nat /\ Near(f)
  <2>1. Sound(g) /\ m = n + 1 /\ m \in Int
    BY <1>4, <1>6, <1>8, <1>12
  <2>2. Top(g)
    BY <1>3, <1>10, <1>11, <1>12, <2>1
  <2>3. QED
    BY <1>12, <2>1, <2>2 DEF x, n, m, p
<1>13. CASE x.kind = "mark" /\ x.n = n /\ n >= 2 /\ Top(f)
  <2>1. Sound(g) /\ m = n /\ m \in Int
    BY <1>4, <1>6, <1>8, <1>13
  <2>2. Top(g)
    BY <1>3, <1>10, <1>11, <1>13, <2>1
  <2>3. QED
    BY <1>13, <2>1, <2>2 DEF x, n, m, p
<1>14. CASE x.kind = "undo" /\ x.n \in Nat /\ n >= 2 /\ Top(f)
  <2>1. Sound(g) /\ m = n - 1 /\ m \in Int /\ m + 1 = n
    BY <1>4, <1>6, <1>8, <1>14
  <2>2. \A q \in 0..p : Number(f, q) <= m + 1
    BY <1>10, <1>14, <2>1
  <2>3. Near(g)
    BY <1>11, <2>1, <2>2
  <2>4. QED
    BY <1>14, <2>1, <2>3 DEF x, n, m, p
<1>15. QED
  BY <1>12, <1>13, <1>14 DEF x, n, m, p

-----------------------------------------------------------------------------
\* The file that hist_trim makes

\* The commands it copies are commands, at least one of them and no more than
\* HISTSIZE: the last number's offset is behind the file.
LEMMA CopiedSound ==
  ASSUME NEW f \in Seq(Record), Sound(f), Near(f), NEW h \in Hist, Reads(h, f),
         h.histcnt = Len(f) + 1, h.first <= hist_start(h.histind), hist_start(h.histind) > 1,
         Ring > HistSize + 1
  PROVE  LET c == Copied(h, f)
         IN  /\ Len(c) \in 1..HistSize
             /\ \A i \in 1..Len(c) : c[i].kind = "cmd" /\ c[i].n \in Nat
<1> DEFINE p == Len(f)  n == h.histind  k0 == n - HistSize  c == Copied(h, f)
<1>1. p \in Nat /\ h.histcnt - 1 = p /\ HistSize \in Nat \ {0} /\ Ring \in Nat
  BY HistoryAssumption
<1>2. n = Number(f, p) /\ n \in Nat
  BY <1>1, LiveIs DEF Reads
<1>3. hist_start(n) = k0 /\ k0 \in Nat /\ k0 > 1
  <2>1. hist_start(n) = k0 \/ hist_start(n) = 1
    BY DEF hist_start, Larger
  <2>2. QED
    BY <1>1, <1>2, <2>1
<1>4. PICK a \in 0..p : \E b \in a..p :
         Latest(f, Seen(a, p), h.histcmds) /\ h.first = Number(f, b) /\ (Number(f, b) = 1 => a = 0)
  BY <1>1 DEF Reads
<1>5. PICK b \in a..p :
         Latest(f, Seen(a, p), h.histcmds) /\ h.first = Number(f, b) /\ (Number(f, b) = 1 => a = 0)
  BY <1>4
<1>6. \A q \in 0..p : Number(f, q) \in Nat /\ Number(f, q) <= n + 1
  BY <1>2, LiveIs DEF Near
<1>7. h.histcmds \in Offsets
  BY DEF Hist
<1>8. Number(f, b) <= k0 /\ Number(f, b) \in Nat
  BY <1>1, <1>3, <1>5, <1>6
<1>9. Len(c) \in Nat /\ \A i \in 1..Len(c) : /\ i \in 1..Ring /\ Offset(h, i) <= p
                                             /\ c[i] = SlotAt(f, Offset(h, i))
  BY CopiedIs
<1>10. Offset(h, 1) <= p => Len(c) # 0
  BY CopiedIs
<1> HIDE DEF c, n, k0
<1>11. \A i \in 1..Ring : Offset(h, i) = h.histcmds[hist_ind(k0 + i - 1)]
  BY <1>3 DEF Offset, n
<1>12. ASSUME NEW i \in 1..HistSize
       PROVE  Offset(h, i) = 0 \/ (Offset(h, i) \in 1..p /\ f[Offset(h, i)].kind = "cmd")
  <2> DEFINE k == k0 + i - 1
  <2>1. k \in Nat /\ k >= k0 /\ k < n /\ i \in 1..Ring
    BY <1>1, <1>2, <1>3 DEF k0
  <2>2. \A q \in 0..p : Number(f, q) < k + Ring
    <3>1. n + 1 < k + Ring
      BY <1>1, <1>2, <2>1 DEF k0
    <3> HIDE DEF k, p
    <3>2. QED
      BY <1>1, <1>2, <1>6, <2>1, <3>1
  <2>3. Offset(h, i) = h.histcmds[hist_ind(k)]
    BY <1>11, <2>1
  <2> HIDE DEF k
  <2>4. k >= Number(f, b) /\ k < Number(f, p)
    BY <1>2, <1>3, <1>8, <2>1
  <2> DEFINE m == h.histcmds
  <2>5. m \in Offsets /\ Latest(f, Seen(a, p), m) /\ p \in 0..Len(f)
    BY <1>1, <1>5, <1>7
  <2> HIDE DEF m, p
  <2>6. m[hist_ind(k)] = 0 \/ (m[hist_ind(k)] \in 1..p /\ f[m[hist_ind(k)]].kind = "cmd")
    BY <1>4, <1>5, <2>1, <2>2, <2>4, <2>5, Lookup
  <2>7. QED
    BY <2>3, <2>6 DEF m
<1>13. 1 \in 1..HistSize
  BY <1>1
<1>14. Len(c) # 0
  BY <1>1, <1>10, <1>12, <1>13
<1>15. Len(c) <= HistSize
  <2> SUFFICES ASSUME Len(c) > HistSize PROVE FALSE
    BY <1>1, <1>9
  <2> DEFINE i == HistSize + 1  j == hist_ind(n)
  <2>1. i \in 1..Len(c) /\ i \in 1..Ring /\ k0 + i - 1 = n
    BY <1>1, <1>2, <1>3, <1>9 DEF k0
  <2> HIDE DEF i
  <2>2. h.histcmds[j] <= p
    BY <1>9, <1>11, <2>1
  <2>3. b # p
    <3>1. k0 < n
      BY <1>1, <1>2 DEF k0
    <3>2. Number(f, b) # Number(f, p)
      BY <1>2, <1>3, <1>8, <3>1
    <3>3. QED
      BY <3>2
  <2>4. p \in Seen(a, p) /\ hist_ind(Number(f, p)) = j
    <3>1. hist_ind(Number(f, p)) = j
      BY <1>2
    <3> HIDE DEF j, p
    <3>2. p > a
      BY <1>1, <2>3
    <3>3. QED
      BY <1>1, <3>1, <3>2 DEF Seen
  <2>5. j \in 0..(Ring - 1) /\ h.histcmds[j] \in Nat
    <3>1. j \in 0..(Ring - 1)
      <4>1. n \in Int
        BY <1>2
      <4>2. QED
        BY <4>1, RingIs
    <3> HIDE DEF j
    <3>2. QED
      BY <1>7, <3>1 DEF Offsets
  <2> HIDE DEF j
  <2>6. h.histcmds[j] # 0 /\ p <= h.histcmds[j] - 1
    BY <1>5, <2>4, <2>5 DEF Latest
  <2>7. QED
    BY <1>1, <2>2, <2>5, <2>6
<1>16. ASSUME NEW i \in 1..Len(c) PROVE c[i].kind = "cmd" /\ c[i].n \in Nat
  <2>1. i \in 1..HistSize /\ c[i] = SlotAt(f, Offset(h, i))
    BY <1>1, <1>9, <1>15
  <2>2. CASE Offset(h, i) = 0
    BY <2>1, <2>2 DEF SlotAt, Cmd
  <2>3. CASE Offset(h, i) # 0
    <3>1. Offset(h, i) \in 1..p /\ f[Offset(h, i)].kind = "cmd"
      BY <1>12, <2>1, <2>3
    <3>2. f[Offset(h, i)].n \in Nat
      BY <3>1 DEF Sound
    <3>3. c[i] = f[Offset(h, i)]
      BY <2>1, <2>3 DEF SlotAt
    <3>4. QED
      BY <3>1, <3>2, <3>3
  <2>4. QED
    BY <2>2, <2>3
<1>17. Len(c) \in 1..HistSize
  BY <1>1, <1>9, <1>14, <1>15
<1>18. QED
  BY <1>16, <1>17 DEF c

\* The commands and the record that cancels the last
LEMMA TrimmedIs ==
  ASSUME NEW k \in Nat \ {0}, NEW g \in Seq(Record), Len(g) = k + 1,
         \A i \in 1..k : g[i].kind = "cmd" /\ g[i].n \in Nat,
         g[k + 1].kind = "undo", g[k + 1].n = 0
  PROVE  /\ Sound(g) /\ Near(g)
         /\ \A q \in 0..k : Number(g, q) = q + 1
         /\ Number(g, k + 1) = k
<1> DEFINE B == {q \in 0..k : Number(g, q) # q + 1}
<1>1. ASSUME B # {} PROVE FALSE
  <2>1. B \subseteq Nat
    OBVIOUS
  <2>2. PICK q \in B : \A y \in B : q <= y
    BY <1>1, <2>1, LeastNumber
  <2>3. q \in 0..k /\ Number(g, q) # q + 1
    OBVIOUS
  <2>4. Number(g, 0) = 1
    BY LiveStep DEF Number
  <2>5. q # 0
    BY <2>3, <2>4
  <2>6. q - 1 \in 0..k /\ ~(q <= q - 1) /\ q - 1 \in Nat /\ (q - 1) + 1 = q /\ q \in 1..k
        /\ q - 1 \in 0..Len(g)
    BY <2>3, <2>5
  <2>7. Number(g, q - 1) = q
    BY <2>2, <2>6
  <2> DEFINE r == q - 1
  <2>8. r \in Nat /\ r \in 0..Len(g) /\ r + 1 = q /\ Number(g, r) = q
    BY <2>6, <2>7
  <2> HIDE DEF r
  <2> DEFINE l == LiveTo(g, r)  x == g[q]  l1 == LiveTo(g, q)
  <2>9. l1 = Kept(l, x)
    BY <2>8, LiveStep
  <2>10. l \in Seq(Int)
    BY <2>8, LiveIs
  <2>11. x \in Record /\ x.kind = "cmd"
    BY <2>6
  <2>12. Number(g, q) = Len(l1) + 1 /\ q = Len(l) + 1
    BY <2>8 DEF Number
  <2> HIDE DEF l, x, l1
  <2>13. Len(l1) = Len(l) + 1
    BY <2>9, <2>10, <2>11, KeptIs
  <2>14. QED
    BY <2>3, <2>12, <2>13
<1>2. \A q \in 0..k : Number(g, q) = q + 1
  BY <1>1
<1>3. ASSUME NEW p \in 1..Len(g)
      PROVE  /\ g[p].kind \in {"cmd", "mark", "undo"} /\ g[p].n \in Nat
             /\ g[p].kind = "mark" => g[p].n = Number(g, p - 1) /\ g[p].n >= 2
             /\ g[p].kind = "undo" => Number(g, p - 1) >= 2
  <2>1. CASE p \in 1..k
    BY <2>1
  <2>2. CASE p = k + 1
    <3>1. p - 1 = k /\ k \in 0..k /\ k + 1 >= 2
      BY <2>2
    <3>2. Number(g, p - 1) >= 2
      BY <1>2, <3>1
    <3>3. QED
      BY <2>2, <3>2
  <2>3. QED
    BY <2>1, <2>2
<1>4. Sound(g)
  BY <1>3 DEF Sound
<1>5. Number(g, k + 1) = k
  <2>1. k \in 0..(Len(g) - 1) /\ k \in 0..k
    OBVIOUS
  <2>2. Number(g, k + 1) = Number(g, k) - 1
    BY <1>4, <2>1, NumberStep
  <2>3. QED
    BY <1>2, <2>1, <2>2
<1>6. Near(g)
  <2>1. \A q \in 0..Len(g) : q \in 0..k \/ q = k + 1
    OBVIOUS
  <2>2. QED
    BY <1>2, <1>5, <2>1 DEF Near
<1>7. QED
  BY <1>2, <1>4, <1>5, <1>6

\* The shell that made it knows it.
LEMMA FreshReads ==
  ASSUME NEW k \in Nat \ {0}, Named \in Nat, NEW g \in Seq(Record), Len(g) = k + 1,
         \A q \in 0..k : Number(g, q) = q + 1, Number(g, k + 1) = k
  PROVE  Reads(Fresh(k), g) /\ Fresh(k).first = 1
<1> DEFINE is(j) == {i \in 1..(k + 1) : hist_ind(i) = j}
           cell(j) == IF j = hist_ind(k) THEN k + 2
                      ELSE IF is(j) = {} THEN 0 ELSE CHOOSE i \in is(j) : \A m \in is(j) : m <= i
           m == [j \in DOMAIN Zeros |-> cell(j)]
<1>1. Fresh(k) = [Closed EXCEPT !.file = Named + 1, !.histind = k, !.histcnt = k + 2, !.histcmds = m]
  BY DEF Fresh
<1>2. \A q \in 0..(k + 1) : IF q = k + 1 THEN Number(g, q) = k ELSE Number(g, q) = q + 1 /\ q + 1 \in 1..(k + 1)
  <2>1. \A q \in 0..(k + 1) : q # k + 1 => q \in 0..k /\ q + 1 \in 1..(k + 1)
    OBVIOUS
  <2>2. QED
    BY <2>1
<1>3. Seen(0, k + 1) = 0..(k + 1)
  BY DEF Seen
<1>4. ASSUME NEW j \in 0..(Ring - 1)
      PROVE  \/ m[j] = 0 /\ \A q \in Seen(0, k + 1) : hist_ind(Number(g, q)) # j
             \/ /\ m[j] - 1 \in Seen(0, k + 1) /\ hist_ind(Number(g, m[j] - 1)) = j
                /\ \A q \in Seen(0, k + 1) : hist_ind(Number(g, q)) = j => q <= m[j] - 1
  <2>1. m[j] = cell(j)
    BY DEF Zeros
  <2> HIDE DEF m
  <2>2. CASE j = hist_ind(k)
    <3>1. m[j] = k + 2 /\ (k + 2) - 1 = k + 1 /\ k + 1 \in 0..(k + 1)
      BY <2>1, <2>2
    <3>2. \A q \in 0..(k + 1) : q <= k + 1
      OBVIOUS
    <3>3. hist_ind(Number(g, k + 1)) = j
      BY <2>2
    <3>4. QED
      BY <1>3, <3>1, <3>2, <3>3
  <2>3. CASE j # hist_ind(k) /\ is(j) = {}
    <3>1. m[j] = 0
      BY <2>1, <2>3
    <3>2. \A i \in 1..(k + 1) : hist_ind(i) # j
      BY <2>3
    <3>3. \A q \in 0..(k + 1) : hist_ind(Number(g, q)) # j
      BY <1>2, <2>3, <3>2
    <3>4. QED
      BY <1>3, <3>1, <3>3
  <2>4. CASE j # hist_ind(k) /\ is(j) # {}
    <3>1. is(j) \subseteq 0..(k + 1) /\ k + 1 \in Nat
      OBVIOUS
    <3>2. \E i \in is(j) : \A x \in is(j) : x <= i
      BY <2>4, <3>1, GreatestNumber
    <3>3. m[j] \in is(j) /\ \A x \in is(j) : x <= m[j]
      BY <2>1, <2>4, <3>2
    <3> DEFINE i == m[j]
    <3>4. i \in 1..(k + 1) /\ hist_ind(i) = j /\ \A x \in 1..(k + 1) : hist_ind(x) = j => x <= i
      BY <3>3
    <3> HIDE DEF i
    <3>5. i - 1 \in 0..k /\ i - 1 \in 0..(k + 1) /\ (i - 1) + 1 = i
      BY <3>4
    <3>6. Number(g, i - 1) = i
      BY <3>5
    <3>7. ASSUME NEW q \in 0..(k + 1), hist_ind(Number(g, q)) = j PROVE q <= i - 1
      <4>1. q # k + 1
        BY <2>4, <3>7
      <4>2. Number(g, q) = q + 1 /\ q + 1 \in 1..(k + 1)
        BY <1>2, <4>1
      <4>3. q + 1 <= i
        BY <3>4, <3>7, <4>2
      <4>4. QED
        BY <3>4, <4>3
    <3>8. QED
      BY <1>3, <3>4, <3>5, <3>6, <3>7 DEF i
  <2>5. QED
    BY <2>2, <2>3, <2>4
<1> HIDE DEF m
<1>5. Latest(g, Seen(0, k + 1), m)
  BY <1>4 DEF Latest
<1>6. m = Fresh(k).histcmds /\ Fresh(k).histind = k /\ Fresh(k).histcnt = k + 2 /\ Fresh(k).first = 1
  BY <1>1 DEF Closed
<1>7. 0 \in 0..(k + 1) /\ k + 1 \in 0..Len(g) /\ (k + 2) - 1 = k + 1 /\ Number(g, 0) = 1
  BY <1>2
<1>8. QED
  BY <1>5, <1>6, <1>7 DEF Reads

-----------------------------------------------------------------------------
\* Shells that act one at a time

\* The file that has the name
Text == files[Named].slots

\* A shell knows the file: it has read a part of it, and all of it while it is in
\* the middle of something.  What it may cancel is the last number there was.
Fits(h, n, f) ==
  /\ h.pc = "off" => h.first = 1 /\ h.histind = 1
  /\ h.pc # "off" =>
     /\ h.file = n /\ Reads(h, f)
     /\ h.pc # "home" => h.histcnt = Len(f) + 1
     /\ h.pc = "write" => h.cur = Len(f) + 1
     /\ h.pc \in {"run", "edit"} => Number(f, Len(f)) >= 2 /\ Top(f)
     /\ h.pc = "start" => h.first <= hist_start(h.histind)

Alone == \A r, s \in Shells : r # s => sh[r].pc \in {"off", "home"} \/ sh[s].pc \in {"off", "home"}

Numbers == \A i \in 1..Len(files) : \A p \in 1..Len(files[i].slots) : files[i].slots[p].n \in Nat

\* A file that is in use is not trimmed: it was touched, or there is no need.
Small(f) == hist_start(Number(f, Len(f))) <= 1 \/ Len(f) <= Big
Settled  == (\E s \in Shells : sh[s].pc \notin {"off", "start"}) => files[Named].recent \/ Small(Text)

Core ==
  /\ Alone /\ Numbers /\ Settled
  /\ Sound(Text) /\ Near(Text)
  /\ \A s \in Shells : Fits(sh[s], Named, Text)

\* No marker has a number whose low byte is 0.
NoZero == \A i \in 1..Len(files) : LowBytes(files[i].slots)

Calm == setup.apart /\ ~garbled /\ NoZero

LEMMA TextIs ==
  ASSUME BInv
  PROVE  /\ Named \in 1..Len(files) /\ Named \in Nat /\ Len(files) \in Nat /\ Named = Len(files)
         /\ Text \in Seq(Record) /\ Len(Text) \in Nat /\ Number(Text, Len(Text)) \in Nat \ {0}
         /\ \A s \in Shells : sh[s] \in Hist /\ sh \in [Shells -> Hist]
<1>1. Named \in Nat /\ Named = Len(files) /\ Len(files) # 0
  BY SlotsAre DEF BInv, Types, Named
<1>2. Named \in 1..Len(files)
  BY <1>1
<1>3. Text \in Seq(Record) /\ Len(Text) \in Nat
  BY <1>2, SlotsAre DEF BInv, Text, Named
<1>4. Number(Text, Len(Text)) \in Nat \ {0}
  <2>1. Len(Text) \in 0..Len(Text)
    BY <1>3
  <2>2. QED
    BY <1>3, <2>1, LiveIs
<1>5. QED
  BY <1>1, <1>2, <1>3, <1>4 DEF BInv, Types

LEMMA ExtendsSelf == ASSUME NEW f PROVE Extends(f, f) /\ (Len(f) \in Nat => Len(f) <= Len(f))
<1>1. Len(f) <= Len(f)
  OBVIOUS
<1>2. QED
  BY <1>1 DEF Extends

\* A step of shell s, which may append to the file
LEMMA Moves ==
  ASSUME BInv, Core, NEW s \in Shells, NEW h \in Hist, sh' = [sh EXCEPT ![s] = h],
         Len(files') = Len(files), \A i \in 1..Len(files) : i # Named => files'[i] = files[i],
         NEW g \in Seq(Record), files'[Named].slots = g,
         g = Text \/ (Extends(Text, g) /\ sh[s].pc \notin {"off", "home"}), Sound(g), Near(g),
         h.pc \in {"off", "home"} \/ \A r \in Shells \ {s} : sh[r].pc \in {"off", "home"},
         Fits(h, Named, g),
         \/ files'[Named].recent
         \/ /\ g = Text /\ files'[Named].recent = files[Named].recent
            /\ h.pc \in {"off", "start"} \/ sh[s].pc \notin {"off", "start"} \/ Small(Text)
  PROVE  Core'
<1>1. Named' = Named /\ Text' = g
  BY DEF Named, Text
<1>2. sh'[s] = h /\ \A r \in Shells \ {s} : sh'[r] = sh[r]
  BY TextIs
<1>3. Alone'
  <2>1. ASSUME NEW r \in Shells, NEW t \in Shells, r # t
        PROVE  sh'[r].pc \in {"off", "home"} \/ sh'[t].pc \in {"off", "home"}
    <3>1. CASE r = s
      BY <1>2, <2>1, <3>1
    <3>2. CASE t = s
      BY <1>2, <2>1, <3>2
    <3>3. CASE r # s /\ t # s
      BY <1>2, <2>1, <3>3 DEF Core, Alone
    <3>4. QED
      BY <3>1, <3>2, <3>3
  <2>2. QED
    BY <2>1 DEF Alone
<1>4. Numbers'
  <2>1. ASSUME NEW i \in 1..Len(files), NEW p \in 1..Len(files'[i].slots) PROVE files'[i].slots[p].n \in Nat
    <3>1. CASE i = Named
      BY <3>1 DEF Sound
    <3>2. CASE i # Named
      BY <3>2 DEF Core, Numbers
    <3>3. QED
      BY <3>1, <3>2
  <2>2. QED
    BY <2>1 DEF Numbers
<1>5. Settled'
  <2>1. CASE files'[Named].recent
    BY <1>1, <2>1 DEF Settled
  <2>2. CASE /\ g = Text /\ files'[Named].recent = files[Named].recent
             /\ h.pc \in {"off", "start"} \/ sh[s].pc \notin {"off", "start"} \/ Small(Text)
    <3>1. ASSUME NEW r \in Shells, sh'[r].pc \notin {"off", "start"}
          PROVE  files[Named].recent \/ Small(Text)
      <4>1. CASE r = s
        BY <1>2, <2>2, <3>1, <4>1 DEF Core, Settled
      <4>2. CASE r # s
        BY <1>2, <3>1, <4>2 DEF Core, Settled
      <4>3. QED
        BY <4>1, <4>2
    <3>2. QED
      BY <1>1, <2>2, <3>1 DEF Settled
  <2>3. QED
    BY <2>1, <2>2
<1>6. ASSUME NEW r \in Shells PROVE Fits(sh'[r], Named, g)
  <2>1. CASE r = s
    BY <1>2, <2>1
  <2>2. CASE r # s /\ g = Text
    BY <1>2, <2>2 DEF Core
  <2>3. CASE r # s /\ g # Text
    <3>1. sh'[r] = sh[r] /\ sh[r].pc \in {"off", "home"} /\ Fits(sh[r], Named, Text) /\ sh[r] \in Hist
      BY <1>2, <2>3, TextIs DEF Core, Alone
    <3>2. CASE sh[r].pc = "off"
      BY <3>1, <3>2 DEF Fits
    <3>3. CASE sh[r].pc = "home"
      <4>1. sh[r].file = Named /\ Reads(sh[r], Text)
        BY <3>1, <3>3 DEF Fits
      <4>2. Reads(sh[r], g)
        BY <2>3, <3>1, <4>1, TextIs, ReadsExtended
      <4>3. QED
        BY <3>1, <3>3, <4>1, <4>2 DEF Fits
    <3>4. QED
      BY <3>1, <3>2, <3>3
  <2>4. QED
    BY <2>1, <2>2, <2>3
<1>7. QED
  BY <1>1, <1>3, <1>4, <1>5, <1>6 DEF Core

\* A step of shell s that leaves the files alone
LEMMA Reading ==
  ASSUME BInv, Core, NEW s \in Shells, NEW h \in Hist, sh' = [sh EXCEPT ![s] = h], files' = files,
         h.pc \in {"off", "home"} \/ \A r \in Shells \ {s} : sh[r].pc \in {"off", "home"},
         Fits(h, Named, Text),
         h.pc \in {"off", "start"} \/ sh[s].pc \notin {"off", "start"} \/ Small(Text)
  PROVE  Core'
<1>1. Text \in Seq(Record) /\ files'[Named].slots = Text
  BY TextIs DEF Text
<1>2. Sound(Text) /\ Near(Text)
  BY DEF Core
<1>3. files'[Named].recent = files[Named].recent /\ Len(files') = Len(files)
  OBVIOUS
<1> HIDE DEF Text
<1>4. QED
  BY <1>1, <1>2, <1>3, Moves

LEMMA FitsThere ==
  ASSUME NEW h \in Hist, NEW n, h.file = n, NEW f, Reads(h, f), NEW l \in Labels,
         NEW g, g = [h EXCEPT !.pc = l]
  PROVE  /\ g \in Hist /\ g.pc = l /\ g.file = n /\ Reads(g, f)
         /\ g.histcnt = h.histcnt /\ g.cur = h.cur /\ g.first = h.first /\ g.histind = h.histind
         /\ l = "home" => Fits(g, n, f)
         /\ l \in {"typed", "redo"} /\ h.histcnt = Len(f) + 1 => Fits(g, n, f)
         /\ l \in {"run", "edit"} /\ h.histcnt = Len(f) + 1 /\ Number(f, Len(f)) >= 2 /\ Top(f) => Fits(g, n, f)
<1>1. /\ g \in Hist /\ g.pc = l /\ g.file = n
      /\ g.histcnt = h.histcnt /\ g.cur = h.cur /\ g.first = h.first /\ g.histind = h.histind
      /\ g.histcmds = h.histcmds
  BY DEF Hist
<1>2. Reads(g, f)
  BY <1>1 DEF Reads
<1>3. QED
  BY <1>1, <1>2 DEF Fits

\* Nobody else is in the middle of something.
LEMMA TurnIs ==
  ASSUME Calm, NEW s \in Shells, Turn(s)
  PROVE  \A r \in Shells \ {s} : sh[r].pc \in {"off", "home"}
BY DEF Calm, Turn

LEMMA BusyIs ==
  ASSUME Core, NEW s \in Shells, sh[s].pc \notin {"off", "home"}
  PROVE  \A r \in Shells \ {s} : sh[r].pc \in {"off", "home"}
BY DEF Core, Alone

\* hist_eof that did not take the end of the file for the middle of a command
LEMMA EofPlain ==
  ASSUME NEW starting, NEW h, NEW f, NEW r \in hist_eof(starting, h, f), r.tail = <<>>
  PROVE  r.h = ReadOn(starting, h, f)
<1>1. CASE Within(h, f)
  <2>1. PICK x : r = [h |-> x, tail |-> <<Null, Undo>>]
    BY <1>1 DEF hist_eof
  <2>2. r.tail = <<Null, Undo>>
    BY <2>1
  <2>3. <<Null, Undo>> # <<>>
    OBVIOUS
  <2>4. QED
    BY <2>2, <2>3
<1>2. CASE ~Within(h, f)
  BY <1>2 DEF hist_eof
<1>3. QED
  BY <1>1, <1>2

LEMMA EofTail ==
  ASSUME NEW starting, NEW h, NEW f, NEW r \in hist_eof(starting, h, f)
  PROVE  r.tail \in {<<>>, <<Null, Undo>>}
<1>1. CASE Within(h, f)
  <2>1. PICK x : r = [h |-> x, tail |-> <<Null, Undo>>]
    BY <1>1 DEF hist_eof
  <2>2. QED
    BY <2>1
<1>2. CASE ~Within(h, f)
  BY <1>2 DEF hist_eof
<1>3. QED
  BY <1>1, <1>2

LEMMA BothEmpty ==
  ASSUME NEW t \in {<<>>, <<Null, Undo>>}, NEW u \in {<<>>, <<Null, Undo>>}, t \o u = <<>>
  PROVE  t = <<>> /\ u = <<>>
<1>1. t \in Seq(Record) /\ u \in Seq(Record)
  BY Marks
<1> DEFINE a == Len(t)  b == Len(u)  c == Len(t \o u)
<1>2. c = a + b /\ a \in Nat /\ b \in Nat
  BY <1>1, Appended
<1>3. c = 0
  OBVIOUS
<1> HIDE DEF a, b, c
<1>4. a = 0 /\ b = 0
  BY <1>2, <1>3
<1>5. Len(<<Null, Undo>>) = 2
  OBVIOUS
<1>6. QED
  BY <1>4, <1>5 DEF a, b

LEMMA CatchUpCore ==
  ASSUME BInv, Calm, ~garbled', Core, NEW s \in Shells, NEW from,
         NEW to \in {"typed", "edit"}, CatchUp(s, from, to),
         from \in {"home", "run"}, to = "edit" => from = "run"
  PROVE  Core'
<1>1. PICK r \in hist_eof(FALSE, sh[s], Slots(s)) :
         Becomes(s, r.h, to, r.tail) /\ garbled' = (garbled \/ r.tail # <<>>)
  BY DEF CatchUp, Recovers
<1>2. sh[s].pc = from /\ \A r1 \in Shells \ {s} : sh[r1].pc \in {"off", "home"}
  BY TurnIs DEF CatchUp, At
<1>3. r.tail = <<>> /\ files' = files
  BY <1>1 DEF Becomes
<1>4. Fits(sh[s], Named, Text) /\ sh[s] \in Hist /\ Sound(Text) /\ LowBytes(Text) /\ Text \in Seq(Record)
  BY TextIs DEF Core, Calm, NoZero, Text
<1>5. sh[s].file = Named /\ Reads(sh[s], Text) /\ Slots(s) = Text
  BY <1>2, <1>4 DEF Fits, Slots, Text
<1> DEFINE g == r.h
<1>6. g = ReadOn(FALSE, sh[s], Text)
  BY <1>3, <1>5, EofPlain
<1>7. g \in Hist /\ Reads(g, Text) /\ g.histcnt = Len(Text) + 1 /\ g.file = Named
  BY <1>4, <1>5, <1>6, CaughtUp
<1>8. sh' = [sh EXCEPT ![s] = [g EXCEPT !.pc = to]]
  BY <1>1 DEF Becomes
<1> HIDE DEF g
<1> DEFINE x == [g EXCEPT !.pc = to]
<1>9. x = [g EXCEPT !.pc = to] /\ to \in Labels
  BY DEF Labels
<1>10. to = "edit" => Number(Text, Len(Text)) >= 2 /\ Top(Text)
  BY <1>2, <1>4 DEF Fits
<1> HIDE DEF x
<1>11. x \in Hist /\ x.pc = to /\ Fits(x, Named, Text)
  BY <1>7, <1>9, <1>10, FitsThere
<1>12. sh' = [sh EXCEPT ![s] = x]
  BY <1>8 DEF x
<1>13. QED
  BY <1>2, <1>3, <1>11, <1>12, Reading

LEMMA OpenCore ==
  ASSUME BInv, Calm, ~garbled', Core, NEW s \in Shells, Open(s)
  PROVE  Core'
<1> DEFINE h0 == [Closed EXCEPT !.file = Named, !.histcmds[1] = 1]
<1>1. /\ Text \in Seq(Record) /\ Sound(Text) /\ Named \in Nat /\ Ring > 1
      /\ sh[s].pc = "off" /\ \A r1 \in Shells \ {s} : sh[r1].pc \in {"off", "home"}
  <2>1. Ring > 1
    BY HistoryAssumption
  <2>2. QED
    BY <2>1, TextIs, TurnIs DEF Core, Open, At
<1>2. PICK a \in Starts(Text) : \E r \in hist_eof(TRUE, From(h0, a), Text) :
        LET f1 == Text \o r.tail
        IN  \/ /\ a.n <= hist_start(r.h.histind)
               /\ Becomes(s, r.h, "start", r.tail) /\ Recovers(r.tail)
            \/ \E b \in Starts(f1) :
                 /\ b.n <= hist_start(r.h.histind)
                 /\ \E r2 \in hist_eof(TRUE, From(r.h, b), f1) :
                      /\ Becomes(s, r2.h, "start", r.tail \o r2.tail)
                      /\ Recovers(r.tail \o r2.tail)
  BY DEF Open, Text
<1> DEFINE h1 == From(h0, a)
<1>3. PICK r \in hist_eof(TRUE, h1, Text) :
        \/ /\ a.n <= hist_start(r.h.histind)
           /\ Becomes(s, r.h, "start", r.tail) /\ Recovers(r.tail)
        \/ \E b \in Starts(Text \o r.tail) :
             /\ b.n <= hist_start(r.h.histind)
             /\ \E r2 \in hist_eof(TRUE, From(r.h, b), Text \o r.tail) :
                  /\ Becomes(s, r2.h, "start", r.tail \o r2.tail)
                  /\ Recovers(r.tail \o r2.tail)
  BY <1>2
<1>4. ASSUME r.tail = <<>>
      PROVE  /\ r.h \in Hist /\ Reads(r.h, Text) /\ r.h.histcnt = Len(Text) + 1
             /\ r.h.file = Named /\ r.h.first = a.n
  <2>1. r.h = ReadOn(TRUE, h1, Text)
    BY <1>4, EofPlain
  <2>2. LET g == ReadOn(TRUE, h1, Text)
        IN  g \in Hist /\ Reads(g, Text) /\ g.histcnt = Len(Text) + 1 /\ g.file = Named /\ g.first = a.n
    BY <1>1, FirstReading
  <2> HIDE DEF h1
  <2>3. QED
    BY <2>1, <2>2
<1> HIDE DEF h1, h0
<1>5. ASSUME NEW g \in Hist, Reads(g, Text), g.histcnt = Len(Text) + 1, g.file = Named,
             g.first <= hist_start(g.histind), Becomes(s, g, "start", <<>>)
      PROVE  Core'
  <2> DEFINE x == [g EXCEPT !.pc = "start"]
  <2>1. sh' = [sh EXCEPT ![s] = x] /\ files' = files /\ "start" \in Labels /\ x = [g EXCEPT !.pc = "start"]
    BY <1>5 DEF Becomes, Labels
  <2> HIDE DEF x
  <2>2. /\ x \in Hist /\ x.pc = "start" /\ x.file = Named /\ Reads(x, Text)
        /\ x.histcnt = g.histcnt /\ x.first = g.first /\ x.histind = g.histind
    BY <1>5, <2>1, FitsThere
  <2>3. Fits(x, Named, Text)
    BY <1>5, <2>2 DEF Fits
  <2>4. QED
    BY <1>1, <2>1, <2>2, <2>3, Reading
<1>6. CASE /\ a.n <= hist_start(r.h.histind)
           /\ Becomes(s, r.h, "start", r.tail) /\ Recovers(r.tail)
  <2>1. r.tail = <<>>
    BY <1>6 DEF Recovers
  <2>2. Becomes(s, r.h, "start", <<>>)
    BY <1>6, <2>1
  <2>3. QED
    BY <1>4, <1>5, <1>6, <2>1, <2>2
<1>7. CASE \E b \in Starts(Text \o r.tail) :
             /\ b.n <= hist_start(r.h.histind)
             /\ \E r2 \in hist_eof(TRUE, From(r.h, b), Text \o r.tail) :
                  /\ Becomes(s, r2.h, "start", r.tail \o r2.tail)
                  /\ Recovers(r.tail \o r2.tail)
  <2>1. PICK b \in Starts(Text \o r.tail) :
             /\ b.n <= hist_start(r.h.histind)
             /\ \E r2 \in hist_eof(TRUE, From(r.h, b), Text \o r.tail) :
                  /\ Becomes(s, r2.h, "start", r.tail \o r2.tail)
                  /\ Recovers(r.tail \o r2.tail)
    BY <1>7
  <2>2. PICK r2 \in hist_eof(TRUE, From(r.h, b), Text \o r.tail) :
             /\ Becomes(s, r2.h, "start", r.tail \o r2.tail)
             /\ Recovers(r.tail \o r2.tail)
    BY <2>1
  <2>3. r.tail \o r2.tail = <<>>
    BY <2>2 DEF Recovers
  <2>4. r.tail = <<>> /\ r2.tail = <<>>
    <3>1. r.tail \in {<<>>, <<Null, Undo>>}
      BY EofTail
    <3>2. r2.tail \in {<<>>, <<Null, Undo>>}
      BY EofTail
    <3> DEFINE t == r.tail  u == r2.tail
    <3>3. t \in {<<>>, <<Null, Undo>>} /\ u \in {<<>>, <<Null, Undo>>} /\ t \o u = <<>>
      BY <2>3, <3>1, <3>2
    <3> HIDE DEF t, u
    <3>4. t = <<>> /\ u = <<>>
      BY <3>3, BothEmpty
    <3>5. QED
      BY <3>4 DEF t, u
  <2>5. Text \o r.tail = Text
    <3>1. Text \o <<>> = Text
      BY <1>1
    <3>2. QED
      BY <2>4, <3>1
  <2>6. b \in Starts(Text) /\ r2 \in hist_eof(TRUE, From(r.h, b), Text)
    BY <2>5
  <2>7. r2.h = ReadOn(TRUE, From(r.h, b), Text)
    BY <2>4, <2>6, EofPlain
  <2>8. /\ r2.h \in Hist /\ Reads(r2.h, Text) /\ r2.h.histcnt = Len(Text) + 1
        /\ r2.h.file = Named /\ r2.h.first = b.n /\ r2.h.histind = r.h.histind
    <3>1. /\ r.h \in Hist /\ Reads(r.h, Text) /\ r.h.histcnt = Len(Text) + 1 /\ r.h.file = Named
      BY <1>4, <2>4
    <3> DEFINE y == r.h  g == ReadOn(TRUE, From(y, b), Text)
    <3> HIDE DEF y
    <3>2. y \in Hist /\ Reads(y, Text) /\ y.histcnt = Len(Text) + 1 /\ y.file = Named
      BY <3>1 DEF y
    <3>3. /\ g \in Hist /\ Reads(g, Text) /\ g.histcnt = Len(Text) + 1 /\ g.file = y.file
          /\ g.first = b.n /\ g.histind = y.histind
      BY <1>1, <2>6, <3>2, SecondReading
    <3>4. r2.h = g
      BY <2>7 DEF y
    <3> HIDE DEF g
    <3>5. QED
      BY <3>2, <3>3, <3>4 DEF y
  <2>9. Becomes(s, r2.h, "start", <<>>)
    BY <2>2, <2>3
  <2>10. r2.h.first <= hist_start(r2.h.histind)
    BY <2>1, <2>8
  <2> DEFINE z == r2.h
  <2>11. /\ z \in Hist /\ Reads(z, Text) /\ z.histcnt = Len(Text) + 1 /\ z.file = Named
         /\ z.first <= hist_start(z.histind) /\ Becomes(s, z, "start", <<>>)
    BY <2>8, <2>9, <2>10
  <2> HIDE DEF z
  <2>12. QED
    BY <1>5, <2>11
<1>8. QED
  BY <1>3, <1>6, <1>7

\* Steps that change the place of the shell alone
LEMMA FitsNow ==
  ASSUME BInv, Core, NEW s \in Shells, sh[s].pc # "off"
  PROVE  /\ sh[s] \in Hist /\ sh[s].file = Named /\ Reads(sh[s], Text) /\ Fits(sh[s], Named, Text)
         /\ Slots(s) = Text
<1>1. sh[s] \in Hist /\ Fits(sh[s], Named, Text)
  BY TextIs DEF Core
<1>2. QED
  BY <1>1 DEF Fits, Slots, Text

LEMMA ReadyCore == ASSUME BInv, Core, NEW s \in Shells, Ready(s) PROVE Core'
<1> DEFINE g == [sh[s] EXCEPT !.pc = "home"]
<1>1. sh[s].pc = "start" /\ ~ToTrim(s) /\ sh' = [sh EXCEPT ![s] = g] /\ files' = files /\ "home" \in Labels
  <2>1. sh \in [Shells -> Hist]
    BY TextIs
  <2>2. QED
    BY <2>1 DEF Ready, At, Labels
<1>2. /\ sh[s] \in Hist /\ sh[s].file = Named /\ Reads(sh[s], Text) /\ Fits(sh[s], Named, Text)
      /\ Slots(s) = Text
  BY <1>1, FitsNow
<1>3. g = [sh[s] EXCEPT !.pc = "home"]
  OBVIOUS
<1> HIDE DEF g
<1>4. g \in Hist /\ g.pc = "home" /\ Fits(g, Named, Text)
  BY <1>1, <1>2, <1>3, FitsThere
<1>5. sh[s].histind = Number(Text, Len(Text))
  <2>1. sh[s].histcnt = Len(Text) + 1
    BY <1>1, <1>2 DEF Fits
  <2>2. sh[s].histcnt - 1 = Len(Text)
    BY <2>1, TextIs
  <2>3. QED
    BY <1>2, <2>2 DEF Reads
<1>6. files[Named].recent \/ Small(Text)
  <2>1. \/ files[Named].recent \/ ~(hist_start(Number(Text, Len(Text))) > 1) \/ ~(Len(Text) > Big)
    BY <1>1, <1>2, <1>5 DEF ToTrim
  <2>2. hist_start(Number(Text, Len(Text))) \in Int /\ Big \in Int /\ Len(Text) \in Int
    <3>1. Number(Text, Len(Text)) \in Nat /\ HistSize \in Nat /\ Big \in Nat /\ Len(Text) \in Nat
      BY TextIs, HistoryAssumption
    <3> DEFINE n == Number(Text, Len(Text))
    <3> HIDE DEF n
    <3>2. n - HistSize \in Int
      BY <3>1 DEF n
    <3>3. Larger(n - HistSize, 1) \in Int
      BY <3>2, LargerIs
    <3>4. QED
      BY <3>1, <3>3 DEF hist_start, n
  <2>3. QED
    BY <2>1, <2>2 DEF Small
<1>7. CASE files[Named].recent
  <2> DEFINE f == Text
  <2>1. f \in Seq(Record) /\ files'[Named].slots = f /\ Sound(f) /\ Near(f) /\ Len(files') = Len(files)
        /\ files'[Named].recent /\ f = Text
    BY <1>1, <1>7, TextIs DEF Text, Core
  <2> HIDE DEF f
  <2>2. QED
    BY <1>1, <1>2, <1>4, <2>1, Moves
<1>8. CASE Small(Text)
  BY <1>1, <1>4, <1>8, Reading
<1>9. QED
  BY <1>6, <1>7, <1>8

LEMMA QuietCore == ASSUME BInv, Core, NEW s \in Shells, Run(s) \/ GiveUp(s) PROVE Core'
<1> DEFINE g == [sh[s] EXCEPT !.pc = "home"]
<1>1. sh[s].pc \in {"run", "redo"} /\ sh' = [sh EXCEPT ![s] = g] /\ files' = files /\ "home" \in Labels
  <2>1. sh \in [Shells -> Hist]
    BY TextIs
  <2>2. QED
    BY <2>1 DEF Run, GiveUp, At, Labels
<1>2. sh[s] \in Hist /\ sh[s].file = Named /\ Reads(sh[s], Text)
  BY <1>1, FitsNow
<1>3. g = [sh[s] EXCEPT !.pc = "home"]
  OBVIOUS
<1> HIDE DEF g
<1>4. g \in Hist /\ g.pc = "home" /\ Fits(g, Named, Text)
  BY <1>1, <1>2, <1>3, FitsThere
<1>5. QED
  BY <1>1, <1>4, Reading

LEMMA SeekCore == ASSUME BInv, Calm, Core, NEW s \in Shells, Seek(s) PROVE Core'
<1> DEFINE c == Len(Slots(s)) + 1
           x == IF At(s, "typed") THEN "run" ELSE "home"
           h == [sh[s] EXCEPT !.pc = "write", !.cur = c, !.next = x]
<1>1. /\ sh[s].pc \in {"typed", "redo", "run"} /\ sh' = [sh EXCEPT ![s] = h] /\ files' = files
      /\ \A r \in Shells \ {s} : sh[r].pc \in {"off", "home"}
  <2>1. sh \in [Shells -> Hist]
    BY TextIs
  <2>2. \A r \in Shells \ {s} : sh[r].pc \in {"off", "home"}
    BY TurnIs DEF Seek
  <2>3. QED
    BY <2>1, <2>2 DEF Seek, At
<1>2. /\ sh[s] \in Hist /\ sh[s].file = Named /\ Reads(sh[s], Text) /\ Slots(s) = Text
      /\ Fits(sh[s], Named, Text)
  BY <1>1, FitsNow
<1>3. c = Len(Text) + 1 /\ c \in Nat /\ x \in {"home", "run"} /\ "write" \in Labels
  BY <1>2, TextIs DEF Labels
<1> HIDE DEF c, x
<1>4. /\ h \in Hist /\ h.pc = "write" /\ h.cur = c /\ h.file = Named /\ h.histcnt = sh[s].histcnt
      /\ h.histind = sh[s].histind /\ h.first = sh[s].first /\ h.histcmds = sh[s].histcmds
  BY <1>2, <1>3 DEF Hist
<1> HIDE DEF h
<1>5. Reads(h, Text)
  BY <1>2, <1>4 DEF Reads
<1>6. sh[s].histcnt = Len(Text) + 1
  BY <1>1, <1>2 DEF Fits
<1>7. Fits(h, Named, Text)
  BY <1>3, <1>4, <1>5, <1>6 DEF Fits
<1>8. QED
  BY <1>1, <1>4, <1>7, Reading

LEMMA FlushEmptyCore == ASSUME BInv, Core, NEW s \in Shells, FlushEmpty(s) PROVE Core'
<1> DEFINE c == Len(Slots(s)) + 1
           h == [sh[s] EXCEPT !.pc = "home", !.histcnt = c]
<1>1. sh[s].pc = "typed" /\ sh' = [sh EXCEPT ![s] = h] /\ files' = files
  <2>1. sh \in [Shells -> Hist]
    BY TextIs
  <2>2. QED
    BY <2>1 DEF FlushEmpty, At
<1>2. /\ sh[s] \in Hist /\ sh[s].file = Named /\ Reads(sh[s], Text) /\ Slots(s) = Text
      /\ Fits(sh[s], Named, Text)
  BY <1>1, FitsNow
<1>3. c = sh[s].histcnt /\ "home" \in Labels
  BY <1>1, <1>2 DEF Fits, Labels
<1> HIDE DEF c
<1> DEFINE g == [sh[s] EXCEPT !.pc = "home"]
<1>4. h = g
  BY <1>2, <1>3 DEF Hist
<1>5. g = [sh[s] EXCEPT !.pc = "home"]
  OBVIOUS
<1> HIDE DEF g, h
<1>6. g \in Hist /\ g.pc = "home" /\ Fits(g, Named, Text)
  BY <1>2, <1>3, <1>5, FitsThere
<1>7. QED
  BY <1>1, <1>4, <1>6, Reading

LEMMA LeaveCore == ASSUME BInv, Core, NEW s \in Shells, Leave(s) PROVE Core'
<1>1. sh' = [sh EXCEPT ![s] = Closed] /\ files' = files
  BY DEF Leave
<1>2. Closed.pc = "off" /\ Closed.first = 1 /\ Closed.histind = 1
  BY DEF Closed
<1>3. Fits(Closed, Named, Text)
  BY <1>2 DEF Fits
<1>4. QED
  BY <1>1, <1>2, <1>3, ClosedIs, Reading

LEMMA AgeCore == ASSUME BInv, Core, Age \/ hist_touch PROVE Core'
<1>1. PICK b \in BOOLEAN : /\ files' = [files EXCEPT ![Named].recent = b] /\ sh' = sh
                           /\ b \/ \A s \in Shells : sh[s].pc = "off"
  BY DEF Age, hist_touch, At
<1> DEFINE g == [files[Named] EXCEPT !.recent = b]
<1>2. files[Named] \in File
  BY SlotsAre DEF BInv, Types, Named
<1>3. g \in File /\ g.slots = files[Named].slots /\ g.recent = b
  BY <1>2 DEF File
<1>4. files' = [files EXCEPT ![Named] = g]
  BY <1>1
<1> HIDE DEF g
<1>5. Len(files') = Len(files) /\ \A i \in 1..Len(files) : files'[i] = IF i = Named THEN g ELSE files[i]
  <2> DEFINE n == Named
  <2>1. files \in Seq(File) /\ n \in 1..Len(files) /\ files' = [files EXCEPT ![n] = g]
    BY <1>4, TextIs DEF BInv, Types
  <2> HIDE DEF n
  <2>2. Len(files') = Len(files) /\ \A i \in 1..Len(files) : files'[i] = IF i = n THEN g ELSE files[i]
    BY ONLY <1>3, <2>1, PutIs
  <2>3. QED
    BY <2>2 DEF n
<1>6. \A i \in 1..Len(files) : files'[i].slots = files[i].slots
  BY <1>3, <1>5
<1>7. Named' = Named /\ Text' = Text /\ files'[Named].recent = b
  <2>1. Named' = Named /\ Named \in 1..Len(files)
    BY <1>5, TextIs DEF Named
  <2>2. QED
    BY <1>3, <1>5, <1>6, <2>1 DEF Text
<1>8. Numbers'
  BY <1>5, <1>6 DEF Core, Numbers
<1>9. Settled'
  BY <1>1, <1>7 DEF Settled
<1>10. QED
  BY <1>1, <1>7, <1>8, <1>9 DEF Core, Alone

LEMMA JoinIs ==
  ASSUME NEW f \in Seq(Record), NEW t \in Seq(Record), NEW g, g = f \o t
  PROVE  /\ g \in Seq(Record) /\ Len(g) = Len(f) + Len(t)
         /\ \A i \in 1..Len(f) : g[i] = f[i]
         /\ \A j \in 1..Len(t) : g[Len(f) + j] = t[j]
<1>1. Len(f) \in Nat /\ Len(t) \in Nat /\ g \in Seq(Record) /\ Len(g) = Len(f) + Len(t)
  OBVIOUS
<1>2. \A i \in 1..(Len(f) + Len(t)) : g[i] = IF i <= Len(f) THEN f[i] ELSE t[i - Len(f)]
  OBVIOUS
<1> DEFINE p == Len(f)  k == Len(t)
<1>3. p \in Nat /\ k \in Nat /\ \A i \in 1..(p + k) : g[i] = IF i <= p THEN f[i] ELSE t[i - p]
  BY <1>1, <1>2
<1> HIDE DEF p, k
<1>4. \A i \in 1..p : i \in 1..(p + k) /\ i <= p
  BY <1>3
<1>5. \A j \in 1..k : p + j \in 1..(p + k) /\ ~(p + j <= p) /\ (p + j) - p = j
  BY <1>3
<1>6. \A i \in 1..p : g[i] = f[i]
  BY <1>3, <1>4
<1>7. \A j \in 1..k : g[p + j] = t[j]
  BY <1>3, <1>5
<1>8. QED
  BY <1>1, <1>6, <1>7 DEF p, k

LEMMA JoinOne ==
  ASSUME NEW f \in Seq(Record), NEW t \in Seq(Record), Len(t) = 1, NEW g, g = f \o t
  PROVE  g \in Seq(Record) /\ Len(g) = Len(f) + 1 /\ g[Len(f) + 1] = t[1]
<1>1. g \in Seq(Record) /\ Len(g) = Len(f) + Len(t)
  BY ONLY f \in Seq(Record), t \in Seq(Record), g = f \o t, JoinIs
<1>2. \A j \in 1..Len(t) : g[Len(f) + j] = t[j]
  BY ONLY f \in Seq(Record), t \in Seq(Record), g = f \o t, JoinIs
<1>3. 1 \in 1..Len(t)
  BY ONLY Len(t) = 1
<1>4. QED
  BY <1>1, <1>2, <1>3

LEMMA JoinTwo ==
  ASSUME NEW f \in Seq(Record), NEW t \in Seq(Record), Len(t) = 2, NEW g, g = f \o t
  PROVE  /\ g \in Seq(Record) /\ Len(g) = Len(f) + 2
         /\ g[Len(f) + 1] = t[1] /\ g[Len(f) + 2] = t[2]
<1>1. g \in Seq(Record) /\ Len(g) = Len(f) + Len(t)
  BY ONLY f \in Seq(Record), t \in Seq(Record), g = f \o t, JoinIs
<1>2. \A j \in 1..Len(t) : g[Len(f) + j] = t[j]
  BY ONLY f \in Seq(Record), t \in Seq(Record), g = f \o t, JoinIs
<1>3. 1 \in 1..Len(t) /\ 2 \in 1..Len(t)
  BY ONLY Len(t) = 2
<1>4. QED
  BY <1>1, <1>2, <1>3

\* Shell s, in the middle of something, appends to the file.
LEMMA Appends ==
  ASSUME BInv, Core, NEW s \in Shells, sh[s].pc \notin {"off", "home"},
         NEW h \in Hist, NEW l \in Labels, NEW tail \in Seq(Record), tail # <<>>,
         Becomes(s, h, l, tail), h.file = Named,
         NEW g, g = Text \o tail, Sound(g), Near(g), Fits([h EXCEPT !.pc = l], Named, g)
  PROVE  Core'
<1> DEFINE x == [h EXCEPT !.pc = l]  f == Text  new == [slots |-> g, recent |-> TRUE]  n == Named
<1>1. f \in Seq(Record) /\ Len(f) \in Nat /\ n \in 1..Len(files) /\ files \in Seq(File) /\ Len(files) \in Nat
  BY TextIs DEF BInv, Types
<1>2. g \in Seq(Record) /\ Len(f) <= Len(g) /\ \A i \in 1..Len(f) : g[i] = f[i]
  <2> HIDE DEF f
  <2>1. g = f \o tail
    BY DEF f
  <2>2. QED
    BY ONLY <1>1, <2>1, tail \in Seq(Record)
<1>3. Extends(f, g)
  BY <1>2 DEF Extends
<1>4. files' = [files EXCEPT ![n] = new] /\ sh' = [sh EXCEPT ![s] = x]
  BY DEF Becomes, Text
<1>5. new \in File /\ new.slots = g /\ new.recent
  BY <1>2 DEF File
<1>6. x \in Hist /\ x.pc = l
  BY DEF Hist
<1>7. Fits(x, Named, g)
  OBVIOUS
<1> HIDE DEF x, f, new, n
<1>8. Len(files') = Len(files) /\ \A i \in 1..Len(files) : files'[i] = IF i = n THEN new ELSE files[i]
  BY ONLY <1>1, <1>4, <1>5, PutIs
<1>9. files'[Named].slots = g /\ files'[Named].recent /\ \A i \in 1..Len(files) : i # Named => files'[i] = files[i]
  BY <1>1, <1>5, <1>8 DEF n
<1>10. \A r \in Shells \ {s} : sh[r].pc \in {"off", "home"}
  BY BusyIs
<1>11. g = Text \/ (Extends(Text, g) /\ sh[s].pc \notin {"off", "home"})
  BY <1>3 DEF f
<1>12. QED
  BY ONLY BInv, Core, s \in Shells, <1>4, <1>2, <1>6, <1>7, <1>8, <1>9, <1>10, <1>11, Sound(g), Near(g), Moves

LEMMA TopNear == ASSUME NEW f \in Seq(Record), Top(f) PROVE Near(f)
<1> DEFINE n == Number(f, Len(f))
<1>1. Len(f) \in 0..Len(f)
  OBVIOUS
<1>2. n \in Nat /\ \A q \in 0..Len(f) : Number(f, q) \in Nat
  BY <1>1, LiveIs
<1>3. \A q \in 0..Len(f) : Number(f, q) <= n
  BY DEF Top
<1> HIDE DEF n
<1>4. \A q \in 0..Len(f) : Number(f, q) <= n + 1
  BY <1>2, <1>3
<1>5. QED
  BY <1>4 DEF Near, n

\* The record of one command: the shell's number and offset
LEMMA OneCounted ==
  ASSUME NEW f \in Seq(Record), NEW g \in Seq(Record), Extends(f, g), Len(g) = Len(f) + 1,
         NEW h \in Hist, Reads(h, f), h.histcnt = Len(f) + 1,
         NEW h1, h1 = Counts(h, Number(g, Len(g)), Len(f) + 2)
  PROVE  h1 \in Hist /\ Reads(h1, g) /\ h1.histcnt = Len(g) + 1 /\ h1.file = h.file
<1> DEFINE p == Len(f)  n == Number(g, Len(g))  i == hist_ind(n)  m0 == h.histcmds
<1>1. p \in Nat /\ Len(g) = p + 1 /\ p + 2 \in Nat \ {0} /\ Len(g) \in 0..Len(g) /\ p <= p
  OBVIOUS
<1>2. n \in Int
  BY <1>1, LiveIs
<1>3. i \in 0..(Ring - 1)
  BY <1>2, RingIs
<1>4. m0 \in Offsets
  BY DEF Hist
<1>5. h1 = Counts(h, n, p + 2) /\ n = Number(g, p + 1)
  BY <1>1
<1> HIDE DEF n, p
<1>6. /\ h1 \in Hist /\ h1.histcnt = p + 2 /\ h1.histind = n /\ h1.first = h.first /\ h1.file = h.file
      /\ h1.histcmds = Put(m0, i, p + 2)
  BY <1>1, <1>2, <1>5, CountedAll
<1>7. hist_ind(Number(g, p + 1)) = i
  BY <1>5
<1> HIDE DEF i, m0
<1>8. Over(g, p, p + 1, m0, h1.histcmds)
  <2>1. Over(g, p, p, m0, m0)
    BY <1>1, OverNothing
  <2> DEFINE m1 == h1.histcmds
  <2>2. m1 = Put(m0, i, p + 2)
    BY <1>6
  <2> HIDE DEF m1
  <2>3. Over(g, p, p + 1, m0, m1)
    BY <1>1, <1>3, <1>4, <1>7, <2>1, <2>2, OverStep
  <2>4. QED
    BY <2>3 DEF m1
<1>9. h1.histcnt = Len(g) + 1 /\ h1.histind = Number(g, Len(g))
  BY <1>1, <1>6 DEF n
<1>10. Over(g, Len(f), Len(g), h.histcmds, h1.histcmds)
  BY <1>1, <1>8 DEF p, m0
<1>11. Reads(h1, g)
  BY <1>6, <1>9, <1>10, ReadsMore
<1>12. QED
  BY <1>6, <1>9, <1>11

LEMMA CancelCore == ASSUME BInv, Core, NEW s \in Shells, hist_cancel(s) PROVE Core'
<1> DEFINE h == sh[s]  n == h.histind - 1  c == h.histcnt + 1  x == Counts(h, n, c)
           t == <<Undo>>  f == Text  g == f \o t
<1>1. sh[s].pc = "edit" /\ Becomes(s, x, "redo", t)
  BY DEF hist_cancel, Counts, At
<1>2. h \in Hist /\ h.file = Named /\ Reads(h, f) /\ Fits(h, Named, f)
  BY <1>1, FitsNow
<1>3. f \in Seq(Record) /\ Len(f) \in Nat /\ Sound(f)
  BY TextIs DEF Core
<1>4. h.histcnt = Len(f) + 1 /\ Number(f, Len(f)) >= 2 /\ Top(f)
  BY <1>1, <1>2 DEF Fits
<1>5. h.histind = Number(f, Len(f))
  <2>1. h.histcnt - 1 = Len(f)
    BY <1>3, <1>4
  <2>2. QED
    BY <1>2, <2>1 DEF Reads
<1> HIDE DEF f, h
<1>6. Undo \in Record /\ Undo.kind = "undo" /\ Undo.n \in Nat
  BY DEF Undo, Record
<1>7. t \in Seq(Record) /\ t # <<>> /\ Len(t) = 1 /\ t[1] = Undo
  BY <1>6
<1>8. /\ g \in Seq(Record) /\ Len(g) = Len(f) + 1 /\ g[Len(f) + 1] = Undo
      /\ \A i \in 1..Len(f) : g[i] = f[i]
  <2> HIDE DEF t
  <2>0. g = f \o t
    BY <1>7
  <2> HIDE DEF g
  <2>1. g \in Seq(Record) /\ Len(g) = Len(f) + 1 /\ g[Len(f) + 1] = t[1]
    BY ONLY <1>3, <1>7, <2>0, JoinOne
  <2>2. \A i \in 1..Len(f) : g[i] = f[i]
    BY ONLY <1>3, <1>7, <2>0, JoinIs
  <2>3. QED
    BY <1>7, <2>1, <2>2
<1>9. g = f \o t
  OBVIOUS
<1> HIDE DEF g, t
<1>10. Extends(f, g)
  BY <1>3, <1>8 DEF Extends
<1>11. Sound(g) /\ Number(g, Len(g)) = Number(f, Len(f)) - 1 /\ Near(g)
  <2>1. g[Len(g)] = Undo
    BY <1>8
  <2>2. QED
    BY <1>3, <1>4, <1>6, <1>8, <1>10, <2>1, OneMore
<1>12. x = Counts(h, Number(g, Len(g)), Len(f) + 2)
  <2>1. n = Number(g, Len(g)) /\ c = Len(f) + 2
    BY <1>3, <1>4, <1>5, <1>11
  <2>2. QED
    BY <2>1
<1> HIDE DEF x
<1>13. x \in Hist /\ Reads(x, g) /\ x.histcnt = Len(g) + 1 /\ x.file = Named
  <2>1. x \in Hist /\ Reads(x, g) /\ x.histcnt = Len(g) + 1 /\ x.file = h.file
    BY <1>2, <1>3, <1>4, <1>8, <1>10, <1>12, OneCounted
  <2>2. QED
    BY <1>2, <2>1
<1> DEFINE y == [x EXCEPT !.pc = "redo"]
<1>14. y = [x EXCEPT !.pc = "redo"] /\ "redo" \in Labels
  BY DEF Labels
<1> HIDE DEF y
<1>15. Fits(y, Named, g)
  BY <1>13, <1>14, FitsThere
<1>16. Fits([x EXCEPT !.pc = "redo"], Named, g)
  BY <1>14, <1>15
<1>17. sh[s].pc \notin {"off", "home"} /\ g = Text \o t
  BY <1>1, <1>9 DEF f
<1>18. QED
  BY ONLY BInv, Core, s \in Shells, <1>1, <1>7, <1>11, <1>13, <1>14, <1>16, <1>17, Appends

LEMMA WriteCore == ASSUME BInv, Core, NEW s \in Shells, Write(s) PROVE Core'
<1> DEFINE h == sh[s]  n == h.histind + 1  f == Text
<1>1. PICK m \in BOOLEAN :
        LET end == h.cur + (IF m THEN 2 ELSE 1)
        IN  Becomes(s, [h EXCEPT !.histind = n, !.histcnt = end, !.histcmds[hist_ind(n)] = end],
                    h.next, <<Cmd(issued + 1)>> \o (IF m THEN <<Mark(n)>> ELSE <<>>))
  BY DEF Write
<1>2. sh[s].pc = "write"
  BY DEF Write, At
<1>3. h \in Hist /\ h.file = Named /\ Reads(h, f) /\ Fits(h, Named, f)
  BY <1>2, FitsNow
<1>4. f \in Seq(Record) /\ Len(f) \in Nat /\ Sound(f) /\ Near(f)
  BY TextIs DEF Core
<1>5. h.histcnt = Len(f) + 1 /\ h.cur = Len(f) + 1
  BY <1>2, <1>3 DEF Fits
<1>6. h.histind = Number(f, Len(f)) /\ Number(f, Len(f)) \in Nat \ {0} /\ h.next \in {"home", "run"}
  <2>1. h.histcnt - 1 = Len(f) /\ Len(f) \in 0..Len(f)
    BY <1>4, <1>5
  <2>2. h.next \in {"home", "run"}
    BY <1>3 DEF Hist
  <2>3. QED
    BY <1>3, <1>4, <2>1, <2>2, LiveIs DEF Reads
<1> DEFINE c == Cmd(issued + 1)  t1 == <<c>>  g1 == f \o t1  x1 == Counts(h, n, Len(f) + 2)
<1>7. c \in Record /\ c.kind = "cmd" /\ c.n \in Nat
  <2>1. issued \in Nat
    BY DEF BInv, Types
  <2>2. QED
    BY <2>1 DEF Cmd, Record
<1>8. ~m => Becomes(s, x1, h.next, t1)
  <2> SUFFICES ASSUME ~m PROVE Becomes(s, x1, h.next, t1)
    OBVIOUS
  <2>1. t1 \o <<>> = t1
    BY <1>7
  <2>2. h.cur + 1 = Len(f) + 2
    BY <1>4, <1>5
  <2>3. QED
    BY <1>1, <2>1, <2>2 DEF Counts
<1> DEFINE k == Mark(n)  t2 == <<c>> \o <<k>>  g2 == f \o t2  x2 == Counts(h, n, Len(f) + 3)
<1>9. m => Becomes(s, x2, h.next, t2)
  <2> SUFFICES ASSUME m PROVE Becomes(s, x2, h.next, t2)
    OBVIOUS
  <2>1. h.cur + 2 = Len(f) + 3
    BY <1>4, <1>5
  <2>2. QED
    BY <1>1, <2>1 DEF Counts
<1> HIDE DEF f, h, c
<1>10. n \in Nat /\ n >= 2
  BY <1>6
<1>11. k \in Record /\ k.kind = "mark" /\ k.n = n
  BY <1>10 DEF Mark, Record
<1> HIDE DEF k
<1>12. t1 \in Seq(Record) /\ t1 # <<>> /\ Len(t1) = 1 /\ t1[1] = c
  BY <1>7
<1>13. t2 \in Seq(Record) /\ t2 # <<>> /\ Len(t2) = 2 /\ t2[1] = c /\ t2[2] = k
  BY <1>7, <1>11
<1> HIDE DEF t1, t2
<1>14. g1 \in Seq(Record) /\ Len(g1) = Len(f) + 1 /\ g1[Len(f) + 1] = c /\ \A i \in 1..Len(f) : g1[i] = f[i]
  <2>0. g1 = f \o t1
    BY <1>12
  <2> HIDE DEF g1
  <2>1. g1 \in Seq(Record) /\ Len(g1) = Len(f) + 1 /\ g1[Len(f) + 1] = t1[1]
    BY ONLY <1>4, <1>12, <2>0, JoinOne
  <2>2. \A i \in 1..Len(f) : g1[i] = f[i]
    BY ONLY <1>4, <1>12, <2>0, JoinIs
  <2>3. QED
    BY <1>12, <2>1, <2>2
<1>15. /\ g2 \in Seq(Record) /\ Len(g2) = Len(f) + 2 /\ g2[Len(f) + 1] = c /\ g2[Len(f) + 2] = k
       /\ \A i \in 1..Len(f) : g2[i] = f[i]
  <2>0. g2 = f \o t2
    BY <1>13
  <2> HIDE DEF g2
  <2>1. g2 \in Seq(Record) /\ Len(g2) = Len(f) + 2
    BY ONLY <1>4, <1>13, <2>0, JoinTwo
  <2>2. g2[Len(f) + 1] = t2[1] /\ g2[Len(f) + 2] = t2[2]
    BY ONLY <1>4, <1>13, <2>0, JoinTwo
  <2>3. \A i \in 1..Len(f) : g2[i] = f[i]
    BY ONLY <1>4, <1>13, <2>0, JoinIs
  <2>4. QED
    BY <1>13, <2>1, <2>2, <2>3
<1>16. g1 = f \o t1 /\ g2 = f \o t2
  OBVIOUS
<1> HIDE DEF g1, g2
<1>17. Extends(f, g1) /\ Extends(f, g2)
  BY <1>4, <1>14, <1>15 DEF Extends
<1>18. Extends(g1, g2) /\ Len(g2) = Len(g1) + 1 /\ g1[Len(g1)] = c /\ g2[Len(g2)] = k
  <2>1. Len(g1) <= Len(g2) /\ Len(g2) = Len(g1) + 1
    BY <1>4, <1>14, <1>15
  <2>2. \A i \in 1..Len(g1) : i \in 1..Len(f) \/ i = Len(f) + 1
    BY <1>4, <1>14
  <2>3. \A i \in 1..Len(g1) : g2[i] = g1[i]
    BY <1>14, <1>15, <2>2
  <2>4. QED
    BY <1>14, <1>15, <2>1, <2>3 DEF Extends
<1>19. Sound(g1) /\ Number(g1, Len(g1)) = n /\ Top(g1)
  BY <1>4, <1>6, <1>7, <1>14, <1>17, <1>18, OneMore
<1>20. Sound(g2) /\ Number(g2, Len(g2)) = n /\ Top(g2)
  BY <1>10, <1>11, <1>14, <1>15, <1>18, <1>19, OneMore
<1>21. x1 \in Hist /\ Reads(x1, g1) /\ x1.histcnt = Len(g1) + 1 /\ x1.file = Named
  <2>1. x1 = Counts(h, Number(g1, Len(g1)), Len(f) + 2)
    BY <1>19
  <2> HIDE DEF x1
  <2>2. x1 \in Hist /\ Reads(x1, g1) /\ x1.histcnt = Len(g1) + 1 /\ x1.file = h.file
    BY <1>3, <1>4, <1>5, <1>14, <1>17, <2>1, OneCounted
  <2>3. QED
    BY <1>3, <2>2
<1>22. x2 \in Hist /\ Reads(x2, g2) /\ x2.histcnt = Len(g2) + 1 /\ x2.file = Named
  <2> DEFINE p == Len(f)  i == hist_ind(n)  m0 == h.histcmds
  <2>1. x2 = Counts(h, n, p + 3) /\ p + 3 \in Nat \ {0} /\ n \in Int /\ p \in Nat /\ p <= p /\ p <= p + 1
        /\ p + 1 \in Nat /\ (p + 1) + 1 = p + 2 /\ (p + 1) + 2 = p + 3 /\ Len(g2) = p + 2 /\ Len(g1) = p + 1
    BY <1>4, <1>10, <1>14, <1>15
  <2> HIDE DEF x2, p
  <2>2. /\ x2 \in Hist /\ x2.histcnt = p + 3 /\ x2.histind = n /\ x2.first = h.first /\ x2.file = h.file
        /\ x2.histcmds = Put(m0, i, p + 3)
    BY <1>3, <2>1, CountedAll
  <2>3. i \in 0..(Ring - 1) /\ m0 \in Offsets
    BY <1>3, <2>1, RingIs DEF Hist
  <2>4. Number(g2, p + 1) = n /\ Number(g2, p + 2) = n
    <3>1. p + 1 \in 0..Len(g1)
      BY <2>1
    <3>2. Number(g2, p + 1) = Number(g1, p + 1)
      BY <1>14, <1>15, <1>18, <3>1, ExtendIs
    <3>3. QED
      BY <1>19, <1>20, <2>1, <3>2
  <2>5. hist_ind(Number(g2, p + 1)) = i /\ hist_ind(Number(g2, (p + 1) + 1)) = i
    BY <2>1, <2>4
  <2> DEFINE m1 == Put(m0, i, p + 2)  m2 == x2.histcmds
  <2>6. m1 \in Offsets /\ m2 = Put(m1, i, p + 3)
    <3>1. [m0 EXCEPT ![i] = p + 2] \in Offsets
      BY <2>1, <2>3 DEF Offsets
    <3>2. [m0 EXCEPT ![i] = p + 3] = [[m0 EXCEPT ![i] = p + 2] EXCEPT ![i] = p + 3]
      BY <2>3 DEF Offsets
    <3>3. QED
      BY <2>2, <3>1, <3>2 DEF Put
  <2>7. m1 = Put(m0, i, p + 2)
    OBVIOUS
  <2> HIDE DEF m0, m1, m2, i
  <2>8. Over(g2, p, p, m0, m0)
    BY <2>1, OverNothing
  <2>9. Over(g2, p, p + 1, m0, m1)
    BY <2>1, <2>3, <2>5, <2>7, <2>8, OverStep
  <2>10. m2 = Put(m1, i, (p + 1) + 2)
    BY <2>1, <2>6
  <2>11. Over(g2, p, (p + 1) + 1, m0, m2)
    BY <2>1, <2>3, <2>5, <2>6, <2>9, <2>10, OverStep
  <2>12. Over(g2, Len(f), Len(g2), h.histcmds, x2.histcmds)
    BY <2>1, <2>11 DEF p, m0, m2
  <2>13. x2.histcnt = Len(g2) + 1 /\ x2.histind = Number(g2, Len(g2))
    BY <1>20, <2>1, <2>2
  <2>14. Reads(x2, g2)
    BY <1>3, <1>4, <1>5, <1>15, <1>17, <2>2, <2>12, <2>13, ReadsMore
  <2>15. QED
    BY <1>3, <2>2, <2>13, <2>14
<1> HIDE DEF x1, x2, n
<1>23. h.next \in Labels
  BY <1>6 DEF Labels
<1>24. Fits([x1 EXCEPT !.pc = h.next], Named, g1) /\ Fits([x2 EXCEPT !.pc = h.next], Named, g2)
  <2> DEFINE l == h.next  y1 == [x1 EXCEPT !.pc = l]  y2 == [x2 EXCEPT !.pc = l]
  <2>1. y1 = [x1 EXCEPT !.pc = l] /\ y2 = [x2 EXCEPT !.pc = l] /\ l \in Labels /\ l \in {"home", "run"}
    BY <1>6, <1>23
  <2> HIDE DEF y1, y2, l
  <2>2. Fits(y1, Named, g1)
    BY <1>10, <1>19, <1>21, <2>1, FitsThere
  <2>3. Fits(y2, Named, g2)
    BY <1>10, <1>20, <1>22, <2>1, FitsThere
  <2>4. QED
    BY <2>2, <2>3 DEF y1, y2, l
<1>25. Near(g1) /\ Near(g2)
  BY <1>14, <1>15, <1>19, <1>20, TopNear
<1>26. sh[s].pc \notin {"off", "home"} /\ g1 = Text \o t1 /\ g2 = Text \o t2
  BY <1>2, <1>16 DEF f
<1>27. CASE ~m
  <2>1. Becomes(s, x1, h.next, t1)
    BY <1>8, <1>27
  <2>2. QED
    BY ONLY BInv, Core, s \in Shells, <1>12, <1>19, <1>21, <1>23, <1>24, <1>25, <1>26, <2>1, Appends
<1>28. CASE m
  <2>1. Becomes(s, x2, h.next, t2)
    BY <1>9, <1>28
  <2>2. QED
    BY ONLY BInv, Core, s \in Shells, <1>13, <1>20, <1>22, <1>23, <1>24, <1>25, <1>26, <2>1, Appends
<1>29. QED
  BY <1>27, <1>28

-----------------------------------------------------------------------------
\* A file is trimmed when no other shell uses it.
LEMMA NobodyTrims ==
  ASSUME BInv, Core, Calm, NEW s \in Shells, hist_trim(s)
  PROVE  \A r \in Shells \ {s} : sh[r].pc = "off"
<1>1. sh[s].pc = "start" /\ \A r \in Shells \ {s} : sh[r].pc \in {"off", "home"}
  BY TurnIs DEF hist_trim, At
<1>2. sh[s].file = Named /\ Slots(s) = Text /\ Reads(sh[s], Text) /\ Fits(sh[s], Named, Text)
  BY <1>1, FitsNow
<1>3. sh[s].histind = Number(Text, Len(Text))
  <2>1. sh[s].histcnt = Len(Text) + 1
    BY <1>1, <1>2 DEF Fits
  <2>2. sh[s].histcnt - 1 = Len(Text)
    BY <2>1, TextIs
  <2>3. QED
    BY <1>2, <2>2 DEF Reads
<1> DEFINE i == hist_start(Number(Text, Len(Text)))
<1>4. ~files[Named].recent /\ i > 1 /\ Len(Text) > Big
  BY <1>2, <1>3 DEF hist_trim, ToTrim
<1>5. i \in Int /\ Big \in Int /\ Len(Text) \in Int
  <2>1. Number(Text, Len(Text)) \in Nat /\ HistSize \in Nat /\ Big \in Nat /\ Len(Text) \in Nat
    BY TextIs, HistoryAssumption
  <2> DEFINE n == Number(Text, Len(Text))
  <2> HIDE DEF n
  <2>2. n - HistSize \in Int
    BY <2>1 DEF n
  <2>3. Larger(n - HistSize, 1) \in Int
    BY <2>2, LargerIs
  <2>4. QED
    BY <2>1, <2>3 DEF hist_start, n
<1>6. ~Small(Text)
  <2>1. ~(i <= 1) /\ ~(Len(Text) <= Big)
    BY <1>4, <1>5
  <2>2. QED
    BY <2>1 DEF Small
<1>7. \A r \in Shells : sh[r].pc \in {"off", "start"}
  BY <1>4, <1>6 DEF Core, Settled
<1>8. QED
  BY <1>1, <1>7

LEMMA TrimCore ==
  ASSUME BInv, Calm, Core, Ring > HistSize + 1, NEW s \in Shells, hist_trim(s)
  PROVE  Core'
<1> DEFINE c == Copied(sh[s], Slots(s))
           k == Len(c)
           g == Append(c, Undo)
           file == [slots |-> g, recent |-> TRUE]
           x == Fresh(k)
           h == [x EXCEPT !.pc = "home"]
<1>1. /\ files' = Append(files, file) /\ sh' = [sh EXCEPT ![s] = h] /\ sh[s].pc = "start"
      /\ hist_start(sh[s].histind) > 1
  BY DEF hist_trim, At, ToTrim
<1>2. /\ sh[s] \in Hist /\ Reads(sh[s], Text) /\ Slots(s) = Text
      /\ sh[s].histcnt = Len(Text) + 1 /\ sh[s].first <= hist_start(sh[s].histind)
  BY <1>1, FitsNow DEF Fits
<1>3. c \in Seq(Record) /\ k \in Nat \ {0} /\ \A i \in 1..k : c[i].kind = "cmd" /\ c[i].n \in Nat
  <2> DEFINE y == sh[s]  f == Text
  <2>1. c = Copied(y, f) /\ f \in Seq(Record) /\ Sound(f) /\ Near(f) /\ y \in Hist /\ Reads(y, f)
        /\ y.histcnt = Len(f) + 1 /\ y.first <= hist_start(y.histind) /\ hist_start(y.histind) > 1
    BY <1>1, <1>2, TextIs DEF Core
  <2> HIDE DEF y, f
  <2>2. LET e == Copied(y, f)
        IN  Len(e) \in 1..HistSize /\ \A i \in 1..Len(e) : e[i].kind = "cmd" /\ e[i].n \in Nat
    BY <2>1, CopiedSound
  <2>3. c \in Seq(Record)
    BY <2>1, CopiedIs
  <2> HIDE DEF c
  <2>4. Len(c) \in 1..HistSize /\ \A i \in 1..Len(c) : c[i].kind = "cmd" /\ c[i].n \in Nat
    BY <2>1, <2>2
  <2>5. HistSize \in Nat
    BY HistoryAssumption
  <2>6. QED
    BY <2>3, <2>4, <2>5
<1> HIDE DEF c
<1>4. Undo \in Record /\ Undo.kind = "undo" /\ Undo.n = 0
  BY DEF Undo, Record
<1>5. /\ g \in Seq(Record) /\ Len(g) = k + 1 /\ g[k + 1] = Undo
      /\ \A i \in 1..k : g[i] = c[i]
  BY <1>3, <1>4
<1> HIDE DEF k, g
<1>6. Sound(g) /\ Near(g) /\ Number(g, k + 1) = k /\ \A q \in 0..k : Number(g, q) = q + 1
  <2>1. \A i \in 1..k : g[i].kind = "cmd" /\ g[i].n \in Nat
    BY <1>3, <1>5
  <2>2. g[k + 1].kind = "undo" /\ g[k + 1].n = 0
    BY <1>4, <1>5
  <2>3. k \in Nat \ {0} /\ g \in Seq(Record) /\ Len(g) = k + 1
    BY <1>3, <1>5
  <2>4. QED
    BY ONLY <2>1, <2>2, <2>3, TrimmedIs
<1>7. files \in Seq(File) /\ Named \in Nat /\ Named = Len(files)
  BY SlotsAre DEF BInv, Types, Named
<1>8. x \in Hist /\ x.histcnt = k + 2 /\ x.file = Named + 1 /\ Reads(x, g) /\ x = Fresh(k)
  BY <1>3, <1>5, <1>6, <1>7, FreshIs, FreshReads
<1>9. file \in File /\ file.slots = g /\ file.recent
  BY <1>5 DEF File
<1> HIDE DEF x, file
<1>10. h = [x EXCEPT !.pc = "home"] /\ "home" \in Labels
  BY DEF Labels
<1> HIDE DEF h
<1> DEFINE n == Named + 1
<1>11. h \in Hist /\ h.pc = "home" /\ Fits(h, n, g)
  <2>1. x.file = n
    BY <1>8
  <2> HIDE DEF n
  <2>2. QED
    BY <1>8, <1>10, <2>1, FitsThere
<1>12. /\ Len(files') = Named + 1 /\ files'[Named + 1] = file
       /\ \A i \in 1..Len(files) : files'[i] = files[i]
  BY <1>1, <1>7, <1>9
<1>13. Named' = n /\ Text' = g /\ files'[Named'].recent
  BY <1>9, <1>12 DEF Named, Text
<1>14. sh'[s] = h /\ \A r \in Shells \ {s} : sh'[r] = sh[r] /\ sh[r].pc = "off"
  <2>1. sh \in [Shells -> Hist]
    BY TextIs
  <2>2. QED
    BY <1>1, <2>1, NobodyTrims
<1>15. Alone'
  BY <1>11, <1>14 DEF Alone
<1>16. Numbers'
  <2>1. ASSUME NEW i \in 1..Len(files'), NEW p \in 1..Len(files'[i].slots) PROVE files'[i].slots[p].n \in Nat
    <3>1. CASE i = Named + 1
      BY <1>6, <1>9, <1>12, <3>1 DEF Sound
    <3>2. CASE i # Named + 1
      <4>1. i \in 1..Len(files)
        BY <1>7, <1>12, <3>2
      <4>2. QED
        BY <1>12, <4>1 DEF Core, Numbers
    <3>3. QED
      BY <3>1, <3>2
  <2>2. QED
    BY <2>1 DEF Numbers
<1>17. Settled'
  BY <1>13 DEF Settled
<1>18. Sound(Text)' /\ Near(Text)'
  BY <1>6, <1>13
<1>19. \A r \in Shells : Fits(sh'[r], n, g)
  <2>1. ASSUME NEW r \in Shells \ {s} PROVE Fits(sh'[r], n, g)
    <3>1. Fits(sh[r], Named, Text) /\ sh[r].pc = "off" /\ sh'[r] = sh[r]
      BY <1>14 DEF Core
    <3>2. QED
      BY <3>1 DEF Fits
  <2>2. QED
    BY <1>11, <1>14, <2>1
<1>20. QED
  BY <1>13, <1>15, <1>16, <1>17, <1>18, <1>19 DEF Core

-----------------------------------------------------------------------------
\* What every step leaves as it is: the slots there are, what was set up, and a
\* mistake that was made.
Keeps ==
  /\ Len(files) <= Len(files')
  /\ \A i \in 1..Len(files) : Extends(files[i].slots, files'[i].slots)
  /\ setup' = setup /\ (garbled => garbled')

LEMMA FilesStay ==
  ASSUME BInv, files' = files, setup' = setup, garbled => garbled'
  PROVE  Keeps
<1>1. Len(files) <= Len(files')
  BY SlotsAre DEF BInv, Named
<1>2. ASSUME NEW i \in 1..Len(files) PROVE Extends(files[i].slots, files'[i].slots)
  <2>1. Len(files[i].slots) \in Nat
    BY SlotsAre DEF BInv, Named
  <2>2. QED
    BY <2>1, ExtendsSelf
<1>3. QED
  BY <1>1, <1>2 DEF Keeps

LEMMA ExtendsJoined ==
  ASSUME NEW f \in Seq(Record), NEW t \in Seq(Record), NEW g, g = f \o t
  PROVE  Extends(f, g)
<1>1. Len(g) = Len(f) + Len(t) /\ \A i \in 1..Len(f) : g[i] = f[i]
  BY ONLY f \in Seq(Record), t \in Seq(Record), g = f \o t, JoinIs
<1>2. Len(f) \in Nat /\ Len(t) \in Nat
  OBVIOUS
<1>3. QED
  BY <1>1, <1>2 DEF Extends

LEMMA BecomesAppends ==
  ASSUME BInv, NEW s, NEW h, NEW l, NEW tail \in Seq(Record), Becomes(s, h, l, tail),
         setup' = setup, garbled => garbled'
  PROVE  Keeps
<1>1. CASE tail = <<>>
  BY <1>1, FilesStay DEF Becomes
<1>2. CASE tail # <<>>
  <2> DEFINE n == h.file  new == [slots |-> files[n].slots \o tail, recent |-> TRUE]
  <2>1. files' = [files EXCEPT ![n] = new] /\ files \in Seq(File) /\ Len(files) \in Nat
    BY <1>2, SlotsAre DEF Becomes, BInv, Types, Named
  <2>2. new.slots = files[n].slots \o tail
    OBVIOUS
  <2> HIDE DEF new, n
  <2>3. Len(files') = Len(files) /\ \A i \in 1..Len(files) : files'[i] = IF i = n THEN new ELSE files[i]
    BY ONLY <2>1
  <2>4. ASSUME NEW i \in 1..Len(files) PROVE Extends(files[i].slots, files'[i].slots)
    <3>1. files[i].slots \in Seq(Record) /\ Len(files[i].slots) \in Nat
      BY SlotsAre DEF BInv, Named
    <3>2. CASE i = n
      <4>1. files'[i].slots = files[i].slots \o tail
        BY <2>2, <2>3, <3>2
      <4>2. QED
        BY ONLY <3>1, <4>1, tail \in Seq(Record), ExtendsJoined
    <3>3. CASE i # n
      <4>1. files'[i].slots = files[i].slots
        BY <2>3, <3>3
      <4>2. QED
        BY <3>1, <4>1, ExtendsSelf
    <3>4. QED
      BY <3>2, <3>3
  <2>5. QED
    BY <2>1, <2>3, <2>4 DEF Keeps
<1>3. QED
  BY <1>1, <1>2

LEMMA EofSeq ==
  ASSUME NEW starting, NEW h, NEW f, NEW r \in hist_eof(starting, h, f)
  PROVE  r.tail \in Seq(Record)
BY EofTail, Marks

LEMMA CatchUpAppends ==
  ASSUME BInv, NEW s \in Shells, NEW from, NEW to, CatchUp(s, from, to)
  PROVE  Keeps
<1>1. PICK r \in hist_eof(FALSE, sh[s], Slots(s)) : Becomes(s, r.h, to, r.tail) /\ Recovers(r.tail)
  BY DEF CatchUp
<1>2. setup' = setup /\ (garbled => garbled')
  BY <1>1 DEF CatchUp, Recovers
<1>3. r.tail \in Seq(Record)
  BY EofSeq
<1>4. QED
  BY <1>1, <1>2, <1>3, BecomesAppends

LEMMA OpenAppends == ASSUME BInv, NEW s \in Shells, Open(s) PROVE Keeps
<1> DEFINE f == files[Named].slots
           h0 == [Closed EXCEPT !.file = Named, !.histcmds[1] = 1]
<1>1. PICK a \in Starts(f) : \E r \in hist_eof(TRUE, From(h0, a), f) :
        LET f1 == f \o r.tail
        IN  \/ Becomes(s, r.h, "start", r.tail) /\ Recovers(r.tail)
            \/ \E b \in Starts(f1) : \E r2 \in hist_eof(TRUE, From(r.h, b), f1) :
                 Becomes(s, r2.h, "start", r.tail \o r2.tail) /\ Recovers(r.tail \o r2.tail)
  BY DEF Open
<1>2. PICK r \in hist_eof(TRUE, From(h0, a), f) :
        \/ Becomes(s, r.h, "start", r.tail) /\ Recovers(r.tail)
        \/ \E b \in Starts(f \o r.tail) : \E r2 \in hist_eof(TRUE, From(r.h, b), f \o r.tail) :
             Becomes(s, r2.h, "start", r.tail \o r2.tail) /\ Recovers(r.tail \o r2.tail)
  BY <1>1
<1>3. r.tail \in Seq(Record) /\ setup' = setup
  BY EofSeq DEF Open
<1>4. CASE Becomes(s, r.h, "start", r.tail) /\ Recovers(r.tail)
  <2>1. garbled => garbled'
    BY <1>4 DEF Recovers
  <2>2. QED
    BY <1>3, <1>4, <2>1, BecomesAppends
<1>5. ASSUME NEW b \in Starts(f \o r.tail), NEW r2 \in hist_eof(TRUE, From(r.h, b), f \o r.tail),
             Becomes(s, r2.h, "start", r.tail \o r2.tail), Recovers(r.tail \o r2.tail)
      PROVE  Keeps
  <2>1. r2.tail \in Seq(Record)
    BY EofSeq
  <2> DEFINE t == r.tail \o r2.tail
  <2>2. t \in Seq(Record)
    BY <1>3, <2>1
  <2>3. Becomes(s, r2.h, "start", t) /\ (garbled => garbled')
    BY <1>5 DEF Recovers
  <2> HIDE DEF t
  <2>4. QED
    BY <1>3, <2>2, <2>3, BecomesAppends
<1>6. QED
  BY <1>2, <1>4, <1>5

LEMMA WriteAppends == ASSUME BInv, NEW s \in Shells, Write(s) PROVE Keeps
<1> DEFINE n == sh[s].histind + 1
<1>1. PICK m \in BOOLEAN : \E h :
        Becomes(s, h, sh[s].next, <<Cmd(issued + 1)>> \o (IF m THEN <<Mark(n)>> ELSE <<>>))
  BY DEF Write
<1>2. PICK h : Becomes(s, h, sh[s].next, <<Cmd(issued + 1)>> \o (IF m THEN <<Mark(n)>> ELSE <<>>))
  BY <1>1
<1>3. issued \in Nat /\ n \in Int
  BY ShellIs
<1> HIDE DEF n
<1>4. Cmd(issued + 1) \in Record /\ Mark(n) \in Record
  BY <1>3 DEF Cmd, Mark, Record
<1> DEFINE t == <<Cmd(issued + 1)>> \o (IF m THEN <<Mark(n)>> ELSE <<>>)
<1>5. t \in Seq(Record)
  <2>1. <<Cmd(issued + 1)>> \in Seq(Record) /\ <<Mark(n)>> \in Seq(Record)
    BY <1>4
  <2>2. (IF m THEN <<Mark(n)>> ELSE <<>>) \in Seq(Record)
    BY <2>1, Marks
  <2>3. QED
    BY <2>1, <2>2
<1>6. setup' = setup /\ garbled' = garbled
  BY DEF Write
<1>7. Becomes(s, h, sh[s].next, t)
  BY <1>2
<1> HIDE DEF t
<1>8. QED
  BY <1>5, <1>6, <1>7, BecomesAppends

LEMMA CancelAppends == ASSUME BInv, NEW s \in Shells, hist_cancel(s) PROVE Keeps
<1>1. PICK h : Becomes(s, h, "redo", <<Undo>>)
  BY DEF hist_cancel
<1>2. setup' = setup /\ garbled' = garbled
  BY DEF hist_cancel
<1>3. QED
  BY <1>1, <1>2, Marks, BecomesAppends

LEMMA TrimAppends == ASSUME BInv, NEW s \in Shells, hist_trim(s) PROVE Keeps
<1>1. PICK file : files' = Append(files, file)
  BY DEF hist_trim
<1>2. files \in Seq(File) /\ Len(files) \in Nat
  BY SlotsAre DEF BInv, Types, Named
<1>3. Len(files') = Len(files) + 1 /\ \A i \in 1..Len(files) : files'[i] = files[i]
  BY <1>1, <1>2
<1>4. ASSUME NEW i \in 1..Len(files) PROVE Extends(files[i].slots, files'[i].slots)
  <2>1. Len(files[i].slots) \in Nat
    BY SlotsAre DEF BInv, Named
  <2>2. QED
    BY <1>3, <2>1, ExtendsSelf
<1>5. setup' = setup /\ garbled' = garbled
  BY DEF hist_trim
<1>6. QED
  BY <1>2, <1>3, <1>4, <1>5 DEF Keeps

LEMMA AgeAppends == ASSUME BInv, Age \/ hist_touch PROVE Keeps
<1>1. PICK b : files' = [files EXCEPT ![Named].recent = b]
  BY DEF Age, hist_touch
<1>2. files \in Seq(File) /\ Len(files) \in Nat
  BY SlotsAre DEF BInv, Types, Named
<1>3. Len(files') = Len(files)
  BY <1>1, <1>2
<1>4. ASSUME NEW i \in 1..Len(files) PROVE Extends(files[i].slots, files'[i].slots)
  <2>1. files[i] \in File /\ Len(files[i].slots) \in Nat
    BY SlotsAre DEF BInv, Named
  <2>2. files'[i].slots = files[i].slots
    BY <1>1, <1>2, <2>1 DEF File
  <2>3. QED
    BY <2>1, <2>2, ExtendsSelf
<1>5. setup' = setup /\ garbled' = garbled
  BY DEF Age, hist_touch
<1>6. QED
  BY <1>2, <1>3, <1>4, <1>5 DEF Keeps

LEMMA AlwaysKeeps == ASSUME BInv, [Next]_vars PROVE Keeps
<1>1. ASSUME NEW s \in Shells, Ready(s) \/ Run(s) \/ GiveUp(s) \/ Seek(s) \/ FlushEmpty(s) \/ Leave(s)
      PROVE  Keeps
  <2>1. files' = files /\ setup' = setup /\ garbled' = garbled
    BY <1>1 DEF Ready, Run, GiveUp, Seek, FlushEmpty, Leave
  <2>2. QED
    BY <2>1, FilesStay
<1>2. ASSUME NEW s \in Shells, Prompt(s) \/ HistEdit(s) PROVE Keeps
  BY <1>2, CatchUpAppends DEF Prompt, HistEdit
<1>3. CASE UNCHANGED vars
  BY <1>3, FilesStay DEF vars
<1>4. QED
  BY <1>1, <1>2, <1>3, OpenAppends, WriteAppends, CancelAppends, TrimAppends, AgeAppends DEF Next

\* What is calm now was calm before.
LEMMA CalmBefore ==
  ASSUME BInv, [Next]_vars, Calm'
  PROVE  Calm /\ ~garbled'
<1>1. Keeps
  BY AlwaysKeeps
<1>2. ASSUME NEW i \in 1..Len(files), NEW p \in 1..Len(files[i].slots), files[i].slots[p].kind = "mark"
      PROVE  files[i].slots[p].n % Low # 0
  <2> DEFINE f == files[i].slots  g == files'[i].slots
  <2>1. Len(files) \in Nat /\ Len(f) \in Nat /\ f \in Seq(Record)
    BY SlotsAre DEF BInv, Types, Named
  <2>2. Len(files) <= Len(files') /\ Len(f) <= Len(g) /\ \A q \in 1..Len(f) : g[q] = f[q]
    BY <1>1 DEF Keeps, Extends
  <2>3. i \in 1..Len(files') /\ p \in 1..Len(g) /\ g[p] = f[p]
    <3>1. Len(files') \in Nat /\ Len(g) \in Nat
      <4>1. i \in 1..Len(files')
        BY <2>1, <2>2, BInvKeeps, SlotsAre DEF BInv, Named
      <4>2. QED
        BY <4>1, BInvKeeps, SlotsAre DEF BInv, Named
    <3>2. QED
      BY <2>1, <2>2, <3>1
  <2>4. g[p].n % Low # 0
    BY <1>2, <2>3 DEF Calm, NoZero, LowBytes
  <2>5. QED
    BY <2>3, <2>4
<1>3. NoZero
  BY <1>2 DEF NoZero, LowBytes
<1>4. QED
  BY <1>1, <1>3 DEF Keeps, Calm

-----------------------------------------------------------------------------
\* The bounds of the model, and the setup
Bounded == setup \in Setups /\ issued \in 0..setup.cmds /\ garbled \in BOOLEAN

LEMMA BoundedStarts == Init => Bounded
<1> SUFFICES ASSUME Init PROVE Bounded
  OBVIOUS
<1>1. setup \in Setups /\ issued = 0 /\ garbled = FALSE
  BY DEF Init
<1>2. setup.cmds \in Nat
  BY <1>1, HistoryAssumption
<1>3. issued \in 0..setup.cmds
  BY <1>1, <1>2
<1>4. garbled \in BOOLEAN
  BY <1>1
<1>5. QED
  BY <1>1, <1>3, <1>4 DEF Bounded

LEMMA BoundedKeeps == Bounded /\ [Next]_vars => Bounded'
<1> SUFFICES ASSUME Bounded, [Next]_vars PROVE Bounded'
  OBVIOUS
<1>1. setup \in Setups /\ issued \in 0..setup.cmds /\ garbled \in BOOLEAN /\ setup.cmds \in Nat
  BY HistoryAssumption DEF Bounded
<1>2. ASSUME setup' = setup, issued' = issued, garbled' \in BOOLEAN PROVE Bounded'
  BY <1>1, <1>2 DEF Bounded
<1>3. ASSUME NEW s \in Shells, Open(s) PROVE Bounded'
  <2>1. garbled' \in BOOLEAN
    BY <1>3 DEF Open, Recovers
  <2>2. QED
    BY <1>2, <1>3, <2>1 DEF Open
<1>4. ASSUME NEW s \in Shells, NEW from, NEW to, CatchUp(s, from, to) PROVE Bounded'
  <2>1. garbled' \in BOOLEAN
    BY <1>4 DEF CatchUp, Recovers
  <2>2. QED
    BY <1>2, <1>4, <2>1 DEF CatchUp
<1>5. ASSUME NEW s \in Shells, Write(s) PROVE Bounded'
  <2>1. setup' = setup /\ garbled' = garbled /\ issued' = issued + 1 /\ issued < setup.cmds
    BY <1>5 DEF Write
  <2>2. issued + 1 \in 0..setup.cmds
    BY <1>1, <2>1
  <2>3. QED
    BY <1>1, <2>1, <2>2 DEF Bounded
<1>6. ASSUME NEW s \in Shells,
             \/ Ready(s) \/ Run(s) \/ GiveUp(s) \/ Seek(s) \/ FlushEmpty(s) \/ Leave(s)
             \/ hist_trim(s) \/ hist_cancel(s)
      PROVE  Bounded'
  <2>1. setup' = setup /\ issued' = issued /\ garbled' = garbled
    BY <1>6 DEF Ready, Run, GiveUp, Seek, FlushEmpty, Leave, hist_trim, hist_cancel
  <2>2. QED
    BY <1>1, <1>2, <2>1
<1>7. CASE Age \/ hist_touch
  BY <1>1, <1>2, <1>7 DEF Age, hist_touch
<1>8. CASE UNCHANGED vars
  BY <1>1, <1>2, <1>8 DEF vars
<1>9. QED
  BY <1>3, <1>4, <1>5, <1>6, <1>7, <1>8 DEF Next, Prompt, HistEdit

-----------------------------------------------------------------------------
\* The inductive invariant.  Where shells act at the same time, or a mistake was
\* made, only BInv and Bounded are left of it.
IInv == BInv /\ Bounded /\ (Calm => Core)

LEMMA IInvStarts == Init => IInv
<1> SUFFICES ASSUME Init PROVE IInv
  OBVIOUS
<1>1. BInv /\ Bounded
  BY BInvStarts, BoundedStarts
<1> DEFINE f == [slots |-> <<>>, recent |-> TRUE]
<1>2. files = <<f>> /\ sh = [s \in Shells |-> Closed]
  BY DEF Init
<1>3. f.slots = <<>> /\ f.recent
  OBVIOUS
<1> HIDE DEF f
<1>4. Len(files) = 1 /\ files[1] = f /\ Named = 1
  BY <1>2 DEF Named
<1>5. Text = <<>> /\ files[Named].recent
  BY <1>3, <1>4 DEF Text
<1>6. Len(Text) = 0 /\ \A p \in 1..Len(Text) : FALSE
  BY <1>5
<1>7. Closed.pc = "off" /\ Closed.first = 1 /\ Closed.histind = 1
  BY DEF Closed
<1>8. Alone /\ Numbers /\ Settled
  BY <1>2, <1>3, <1>4, <1>5, <1>7 DEF Alone, Numbers, Settled
<1>9. Sound(Text)
  BY <1>6 DEF Sound
<1>10. Near(Text)
  <2>1. Top(Text)
    <3> DEFINE t == Text
    <3>1. Len(t) = 0 /\ Number(t, 0) \in Nat
      <4>1. t \in Seq(Record) /\ Len(t) = 0 /\ 0 \in 0..Len(t)
        BY <1>5, <1>6, Marks
      <4> HIDE DEF t
      <4>2. QED
        BY <4>1, LiveIs
    <3> HIDE DEF t
    <3>2. \A q \in 0..Len(t) : q = 0
      BY <3>1
    <3>3. Top(t)
      BY <3>1, <3>2 DEF Top
    <3>4. QED
      BY <3>3 DEF t
  <2>2. Text \in Seq(Record)
    BY <1>5, Marks
  <2> DEFINE t == Text
  <2>3. t \in Seq(Record) /\ Top(t)
    BY <2>1, <2>2
  <2> HIDE DEF t
  <2>4. Near(t)
    BY <2>3, TopNear
  <2>5. QED
    BY <2>4 DEF t
<1>11. \A s \in Shells : Fits(sh[s], Named, Text)
  BY <1>2, <1>7 DEF Fits
<1>12. QED
  BY <1>1, <1>8, <1>9, <1>10, <1>11 DEF IInv, Core

LEMMA CoreKeeps ==
  ASSUME Ring > HistSize + 1, BInv, Calm, ~garbled', Core, [Next]_vars
  PROVE  Core'
<1>1. ASSUME NEW s \in Shells, Open(s) PROVE Core'
  BY <1>1, OpenCore
<1>2. ASSUME NEW s \in Shells, Prompt(s) PROVE Core'
  BY <1>2, CatchUpCore DEF Prompt
<1>3. ASSUME NEW s \in Shells, HistEdit(s) PROVE Core'
  BY <1>3, CatchUpCore DEF HistEdit
<1>4. ASSUME NEW s \in Shells, hist_trim(s) PROVE Core'
  BY <1>4, TrimCore
<1>5. ASSUME NEW s \in Shells, Write(s) PROVE Core'
  BY <1>5, WriteCore
<1>6. ASSUME NEW s \in Shells, hist_cancel(s) PROVE Core'
  BY <1>6, CancelCore
<1>7. ASSUME NEW s \in Shells, Seek(s) PROVE Core'
  BY <1>7, SeekCore
<1>8. ASSUME NEW s \in Shells, FlushEmpty(s) PROVE Core'
  BY <1>8, FlushEmptyCore
<1>9. ASSUME NEW s \in Shells, Ready(s) PROVE Core'
  BY <1>9, ReadyCore
<1>10. ASSUME NEW s \in Shells, Run(s) \/ GiveUp(s) PROVE Core'
  BY <1>10, QuietCore
<1>11. ASSUME NEW s \in Shells, Leave(s) PROVE Core'
  BY <1>11, LeaveCore
<1>12. CASE Age \/ hist_touch
  BY <1>12, AgeCore
<1>13. CASE UNCHANGED vars
  <2>1. files' = files /\ sh' = sh
    BY <1>13 DEF vars
  <2>2. QED
    BY <2>1 DEF Core, Alone, Numbers, Settled, Text, Named
<1>14. QED
  BY <1>1, <1>2, <1>3, <1>4, <1>5, <1>6, <1>7, <1>8, <1>9, <1>10, <1>11, <1>12, <1>13 DEF Next

LEMMA IInvKeeps == ASSUME Ring > HistSize + 1 PROVE IInv /\ [Next]_vars => IInv'
<1> SUFFICES ASSUME IInv, [Next]_vars PROVE IInv'
  OBVIOUS
<1>1. BInv /\ Bounded /\ (Calm => Core)
  BY DEF IInv
<1>2. BInv' /\ Bounded'
  BY <1>1, BInvKeeps, BoundedKeeps
<1>3. ASSUME Calm' PROVE Core'
  BY <1>1, <1>3, CalmBefore, CoreKeeps
<1>4. QED
  BY <1>2, <1>3 DEF IInv

-----------------------------------------------------------------------------
\* What the invariant is for

LEMMA ListedRight ==
  ASSUME BInv, Core, Ring > HistSize + 1, NEW s \in Shells, sh[s].pc = "typed"
  PROVE  Agrees(sh[s], Slots(s))
<1> DEFINE h == sh[s]  f == Text  p == Len(f)  n == Number(f, p)
<1>1. /\ h \in Hist /\ Slots(s) = f /\ Reads(h, f) /\ h.histcnt = p + 1
      /\ f \in Seq(Record) /\ Sound(f) /\ Near(f)
  BY FitsNow, TextIs DEF Fits, Core
<1> HIDE DEF h, f
<1>2. p \in Nat /\ h.histcnt - 1 = p /\ p \in 0..p /\ p \in 0..Len(f)
  BY <1>1
<1>3. h.histind = n /\ n \in Nat \ {0} /\ n = Len(Live(f)) + 1
  BY <1>1, <1>2, LiveIs DEF Reads, Number, Live
<1>4. PICK a \in 0..p : \E b \in a..p :
         Latest(f, Seen(a, p), h.histcmds) /\ h.first = Number(f, b) /\ (Number(f, b) = 1 => a = 0)
  BY <1>1, <1>2 DEF Reads
<1>5. PICK b \in a..p :
         Latest(f, Seen(a, p), h.histcmds) /\ h.first = Number(f, b) /\ (Number(f, b) = 1 => a = 0)
  BY <1>4
<1>6. \A q \in 0..p : Number(f, q) \in Nat /\ Number(f, q) <= n + 1
  BY <1>1, LiveIs DEF Near
<1>7. Number(f, b) \in Nat \ {0} /\ h.first = Number(f, b)
  <2>1. b \in 0..Len(f)
    BY <1>2
  <2>2. QED
    BY <1>1, <1>5, <2>1, LiveIs
<1>8. h.histcmds \in Offsets /\ Ring \in Nat /\ HistSize \in Nat \ {0}
  BY <1>1, HistoryAssumption DEF Hist
<1> HIDE DEF n
<1>9. ASSUME NEW k \in Listed(h)
      PROVE  SlotAt(f, h.histcmds[hist_ind(k)]).n = Live(f)[k]
  <2> DEFINE i == Larger(n - HistSize, 1)
  <2>1. i \in Int /\ i >= n - HistSize /\ i >= 1
    <3>1. n - HistSize \in Int
      BY <1>3, <1>8
    <3>2. QED
      BY <3>1, LargerIs
  <2>2. k \in i..(n - 1) /\ (k > h.first \/ h.first = 1)
    BY <1>3 DEF Listed
  <2> HIDE DEF i
  <2>3. k \in Nat /\ k >= 1 /\ k < n /\ k >= n - HistSize
    BY <1>3, <1>8, <2>1, <2>2
  <2>4. k >= Number(f, b) /\ (k > Number(f, b) \/ k = 1)
    BY <1>7, <2>2, <2>3
  <2>5. \A q \in 0..p : Number(f, q) < k + Ring
    <3>1. n + 1 < k + Ring
      BY <1>3, <1>8, <2>3
    <3> HIDE DEF p
    <3>2. QED
      BY <1>3, <1>6, <1>8, <2>3, <3>1
  <2> DEFINE m == h.histcmds  c == m[hist_ind(k)]
  <2>6. m \in Offsets /\ Latest(f, Seen(a, p), m) /\ p \in 0..Len(f) /\ k < Number(f, p)
    BY <1>2, <1>5, <1>8, <2>3 DEF n
  <2> HIDE DEF m, p
  <2>7. c # 0 /\ f[c].n = LiveTo(f, p)[k]
    BY <1>1, <1>4, <1>5, <2>3, <2>4, <2>5, <2>6, Lookup
  <2> HIDE DEF c
  <2>8. SlotAt(f, c).n = Live(f)[k]
    BY <2>7 DEF SlotAt, Live, p
  <2>9. QED
    BY <2>8 DEF c, m
<1>10. Agrees(h, f)
  BY <1>3, <1>9 DEF Agrees
<1>11. QED
  BY <1>1, <1>10 DEF h

LEMMA TypesRight ==
  ASSUME BInv, Bounded, Core
  PROVE  TypeOK
<1>1. ASSUME NEW i \in DOMAIN files
      PROVE  /\ files[i].recent \in BOOLEAN
             /\ \A p \in DOMAIN files[i].slots : files[i].slots[p] \in Slot
  <2>1. files \in Seq(File) /\ i \in 1..Len(files)
    BY DEF BInv, Types
  <2>2. files[i] \in File /\ files[i].slots \in Seq(Record)
    BY <2>1, SlotsAre DEF BInv, Named
  <2>3. ASSUME NEW p \in DOMAIN files[i].slots PROVE files[i].slots[p] \in Slot
    <3>1. p \in 1..Len(files[i].slots)
      BY <2>2
    <3>2. files[i].slots[p] \in Record /\ files[i].slots[p].n \in Nat
      BY <2>1, <2>2, <3>1 DEF Core, Numbers
    <3>3. QED
      BY <3>2 DEF Record, Slot
  <2>4. QED
    BY <2>2, <2>3 DEF File
<1>2. ASSUME NEW s \in Shells PROVE sh[s].first \in Nat /\ sh[s].histind \in Nat
  <2>1. Fits(sh[s], Named, Text) /\ Text \in Seq(Record) /\ Len(Text) \in Nat /\ sh[s] \in Hist
    BY TextIs DEF Core
  <2>2. CASE sh[s].pc = "off"
    BY <2>1, <2>2 DEF Fits
  <2>3. CASE sh[s].pc # "off"
    <3> DEFINE h == sh[s]  f == Text  p == h.histcnt - 1
    <3>1. Reads(h, f) /\ f \in Seq(Record)
      BY <2>1, <2>3 DEF Fits
    <3> HIDE DEF h, f
    <3>2. p \in 0..Len(f) /\ h.histind = Number(f, p) /\ \E a \in 0..p : \E b \in a..p : h.first = Number(f, b)
      BY <3>1 DEF Reads
    <3> HIDE DEF p
    <3>3. PICK a \in 0..p : \E b \in a..p : h.first = Number(f, b)
      BY <3>2
    <3>4. PICK b \in a..p : h.first = Number(f, b)
      BY <3>3
    <3>5. b \in 0..Len(f)
      BY <3>2, <3>3, <3>4
    <3>6. QED
      BY <3>1, <3>2, <3>4, <3>5, LiveIs DEF h
  <2>4. QED
    BY <2>2, <2>3
<1>3. ASSUME NEW s \in Shells
      PROVE  /\ sh[s].file \in DOMAIN files /\ sh[s].histcnt \in Nat /\ sh[s].cur \in Nat
             /\ sh[s].histcmds \in [0..(Ring - 1) -> Nat]
             /\ sh[s].pc \in {"off", "start", "home", "typed", "write", "run", "edit", "redo"}
  <2>1. files \in Seq(File) /\ sh[s] \in Hist /\ sh[s].file \in 1..Len(files)
    BY DEF BInv, Types
  <2>2. QED
    BY <2>1 DEF Hist, Offsets, Labels
<1>4. QED
  BY <1>1, <1>2, <1>3 DEF TypeOK, Bounded

\* "A shell can access the commands of all interactive shells which use the
\* same named HISTFILE" (sh.1:4567).  When the shells do not act at the same
\* time, no hist_eof has used oldind without a value and no marker has a number
\* with a low byte of 0, a shell that has read on (hist_eof, history.c:585) has
\* the numbers and the offsets that the file read from its start gives, however
\* long the file and however often it was cancelled in, marked, trimmed
\* (hist_trim) and left.  The ring has to have two places more than HISTSIZE:
\* after a command was cancelled its number's old place is still in use.
THEOREM InStepHolds ==
  ASSUME Ring > HistSize + 1
  PROVE  Spec => [](NoZero => InStep)
<1>1. IInv => (NoZero => InStep)
  <2> SUFFICES ASSUME IInv, NoZero, NEW s \in Shells, At(s, "typed"), setup.apart, ~garbled
               PROVE  Agrees(sh[s], Slots(s))
    BY DEF InStep
  <2>1. BInv /\ Core
    BY DEF IInv, Calm
  <2>2. QED
    BY <2>1, ListedRight DEF At
<1>2. QED
  BY <1>1, IInvStarts, IInvKeeps, PTL DEF Spec

\* hist_touch keeps the file from being trimmed under a running shell
\* (history.c:374, hist_clean): with the same conditions, no shell has a file
\* open that has lost its name to the copy of hist_trim.
THEOREM ConnectedHolds ==
  ASSUME Ring > HistSize + 1
  PROVE  Spec => [](NoZero /\ ~garbled => Connected)
<1>1. IInv => (NoZero /\ ~garbled => Connected)
  <2> SUFFICES ASSUME IInv, NoZero, ~garbled, NEW s \in Shells, setup.apart, ~At(s, "off")
               PROVE  sh[s].file = Named
    BY DEF Connected
  <2>1. BInv /\ Core
    BY DEF IInv, Calm
  <2>2. QED
    BY <2>1, FitsNow DEF At
<1>2. QED
  BY <1>1, IInvStarts, IInvKeeps, PTL DEF Spec

\* The types of the files and of the shells' copies: with the same conditions no
\* number of a command (histind, history.c:595) is ever below 0.
THEOREM TypeCorrect ==
  ASSUME Ring > HistSize + 1
  PROVE  Spec => [](setup.apart /\ NoZero /\ ~garbled => TypeOK)
<1>1. IInv => (setup.apart /\ NoZero /\ ~garbled => TypeOK)
  BY TypesRight DEF IInv, Calm
<1>2. QED
  BY <1>1, IInvStarts, IInvKeeps, PTL DEF Spec
=============================================================================
