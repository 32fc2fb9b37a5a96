---------------------------- MODULE TimersProofs ----------------------------
(***************************************************************************)
(* Theorems about Timers, for any callers, delays, nodes and any nesting   *)
(* of handlers: one activity at a time walks or extends the list (from     *)
(* Inv), the queue keeps its types and every node is linked once (from     *)
(* TInv), and while time stands still in the code SIGALRM has its handler  *)
(* and every handle is that of its owner's timer (from CInv).              *)
(***************************************************************************)
EXTENDS Timers, FiniteSetTheorems, WellFoundedInduction, TLAPS

-----------------------------------------------------------------------------
\* The parts of the inductive invariant

\* The activations of the handler are a stack of records with a label.
Labelled(S) == \A x \in S : "pc" \in DOMAIN x
Stack == \E S : Labelled(S) /\ frames \in Seq(S)

\* All but the innermost handler wait for an action they have called.
OthersAct == \A i \in 2..Len(frames) : frames[i].pc = "acting"

\* A handler that is not in an action has said so, and turns others away.
AlarmSaid == frames # <<>> /\ frames[1].pc # "acting" => "alarm" \in time_state

\* So has sh_timeradd, from before it reads tptop until tpmin is right.
Extending == pc \in {"link", "arm", "clear"}
AddSaid   == Extending => "add" \in time_state /\ frames = <<>>

Inv == Stack /\ OthersAct /\ AlarmSaid /\ AddSaid

\* The records the handler writes have one.
LEMMA TopRecord == \A l, t, g : "pc" \in DOMAIN [pc |-> l, tp |-> t, gap |-> g]
OBVIOUS

-----------------------------------------------------------------------------
\* What the steps of the handler do to the stack

LEMMA PushKept ==
  ASSUME NEW S, Labelled(S), frames \in Seq(S), OthersAct, NEW x, "pc" \in DOMAIN x,
         frames # <<>> => frames[1].pc = "acting",
         frames' = <<x>> \o frames
  PROVE  Stack' /\ OthersAct' /\ frames' # <<>> /\ frames'[1] = x
<1> DEFINE T == S \union {x}
<1>1. frames \in Seq(T) /\ <<x>> \in Seq(T) /\ Labelled(T)
  BY DEF Labelled
<1>2. frames' \in Seq(T) /\ Len(frames') = Len(frames) + 1 /\ frames'[1] = x
  BY <1>1
<1>3. \A i \in 2..Len(frames') : i - 1 \in 1..Len(frames) /\ frames'[i] = frames[i - 1]
  BY <1>1, <1>2
<1>4. \A j \in 1..Len(frames) : frames[j].pc = "acting"
  <2>1. Len(frames) \in Nat /\ (Len(frames) > 0 => frames # <<>>)
    OBVIOUS
  <2>2. QED
    BY <2>1 DEF OthersAct
<1>5. OthersAct'
  BY <1>3, <1>4 DEF OthersAct
<1>6. QED
  BY <1>1, <1>2, <1>5 DEF Stack

LEMMA TopKept ==
  ASSUME NEW S, Labelled(S), frames \in Seq(S), frames # <<>>, OthersAct,
         NEW x, "pc" \in DOMAIN x,
         frames' = [frames EXCEPT ![1] = x]
  PROVE  Stack' /\ OthersAct' /\ frames' # <<>> /\ frames'[1] = x
<1> DEFINE T == S \union {x}
<1>1. frames \in Seq(T) /\ x \in T /\ Len(frames) \in Nat \ {0} /\ Labelled(T)
  BY DEF Labelled
<1>2. frames' \in Seq(T) /\ Len(frames') = Len(frames) /\ frames'[1] = x
  BY <1>1
<1>3. \A i \in 2..Len(frames) : frames'[i] = frames[i]
  BY <1>1
<1>4. QED
  BY <1>1, <1>2, <1>3 DEF OthersAct, Stack

LEMMA PopKept ==
  ASSUME NEW S, Labelled(S), frames \in Seq(S), frames # <<>>, OthersAct,
         frames' = Tail(frames)
  PROVE  Stack' /\ OthersAct' /\ (frames' # <<>> => frames'[1].pc = "acting")
<1>1. frames' \in Seq(S) /\ Len(frames') = Len(frames) - 1 /\ Len(frames) \in Nat \ {0}
  OBVIOUS
<1>2. \A i \in 1..Len(frames') : frames'[i] = frames[i + 1] /\ i + 1 \in 2..Len(frames)
  BY <1>1
<1>3. \A i \in 1..Len(frames') : frames'[i].pc = "acting"
  BY <1>2 DEF OthersAct
<1>4. frames' # <<>> => Len(frames') >= 1
  BY <1>1
<1>5. QED
  BY <1>1, <1>3, <1>4 DEF OthersAct, Stack

-----------------------------------------------------------------------------
\* The handler turns itself away while another walks, and from sh_timeradd.
LEMMA DeliverKept == Inv /\ Deliver => Inv'
<1> SUFFICES ASSUME Inv, Deliver PROVE Inv'
  OBVIOUS
<1>1. /\ Called = {} /\ time_state' = {"alarm"} /\ pc' = pc
      /\ frames' = <<[pc |-> "scan", tp |-> NoNode, gap |-> 0]>> \o frames
  BY DEF Deliver, Entry, adding
<1>2. "add" \notin time_state /\ "alarm" \notin time_state
  BY <1>1 DEF Called
<1>3. (frames # <<>> => frames[1].pc = "acting") /\ ~Extending
  BY <1>2 DEF Inv, AlarmSaid, AddSaid
<1>4. PICK S : Labelled(S) /\ frames \in Seq(S)
  BY DEF Inv, Stack
<1>5. Stack' /\ OthersAct'
  BY <1>1, <1>3, <1>4, PushKept, TopRecord DEF Inv
<1>6. QED
  BY <1>1, <1>3, <1>5 DEF Inv, AlarmSaid, AddSaid, Extending

\* The handler's own steps
LEMMA HandlerKept == Inv /\ Handler => Inv'
<1> SUFFICES ASSUME Inv, Handler PROVE Inv'
  OBVIOUS
<1>1. PICK S : Labelled(S) /\ frames \in Seq(S)
  BY DEF Inv, Stack
<1>2. frames # <<>> /\ ~Extending /\ OthersAct
  BY DEF Handler, Scan, Scanned, Arm, Run, Acted, Jump, Return, HandlerAt, Inv, AddSaid
<1>3. "pc" \in DOMAIN frames[1]
  <2>1. frames[1] \in S
    BY <1>1, <1>2
  <2>2. QED
    BY <1>1, <2>1 DEF Labelled
<1>4. CASE Scan
  <2>1. /\ frames[1].pc = "scan" /\ time_state' = time_state /\ pc' = pc
        /\ \E t, g : frames' = [frames EXCEPT ![1] = [pc |-> "arm", tp |-> t, gap |-> g]]
    BY <1>4 DEF Scan, Scanned, HandlerAt, adding
  <2>2. "alarm" \in time_state
    BY <1>2, <2>1 DEF Inv, AlarmSaid
  <2>3. Stack' /\ OthersAct'
    BY <1>1, <1>2, <2>1, TopKept, TopRecord
  <2>4. QED
    BY <1>2, <2>1, <2>2, <2>3 DEF Inv, AlarmSaid, AddSaid, Extending
<1>5. CASE Arm
  <2>1. /\ frames[1].pc = "arm" /\ time_state' = time_state /\ pc' = pc
        /\ frames' = [frames EXCEPT ![1].pc = "run"]
    BY <1>5 DEF Arm, HandlerAt, adding
  <2>2. "alarm" \in time_state
    BY <1>2, <2>1 DEF Inv, AlarmSaid
  <2>3. \E x : "pc" \in DOMAIN x /\ frames' = [frames EXCEPT ![1] = x]
    <3>1. "pc" \in DOMAIN [frames[1] EXCEPT !.pc = "run"]
      BY <1>3
    <3>2. frames' = [frames EXCEPT ![1] = [frames[1] EXCEPT !.pc = "run"]]
      BY <2>1
    <3>3. QED
      BY <3>1, <3>2
  <2>4. Stack' /\ OthersAct'
    BY <1>1, <1>2, <2>3, TopKept
  <2>5. QED
    BY <1>2, <2>1, <2>2, <2>4 DEF Inv, AlarmSaid, AddSaid, Extending
<1>6. CASE Run
  <2>1. /\ frames[1].pc = "run" /\ pc' = pc
        /\ frames' = [frames EXCEPT ![1].pc = "acting"]
    BY <1>6 DEF Run, HandlerAt, adding
  <2>2. frames' = [frames EXCEPT ![1] = [frames[1] EXCEPT !.pc = "acting"]]
    BY <2>1
  <2>3. LET x == [frames[1] EXCEPT !.pc = "acting"]
        IN  "pc" \in DOMAIN x /\ x.pc = "acting"
    BY <1>3
  <2>4. Stack' /\ OthersAct' /\ frames'[1].pc = "acting"
    BY <1>1, <1>2, <2>2, <2>3, TopKept
  <2>5. QED
    BY <1>2, <2>1, <2>4 DEF Inv, AlarmSaid, AddSaid, Extending
<1>7. CASE Acted
  <2>1. /\ "alarm" \in time_state' /\ pc' = pc
        /\ frames' = [frames EXCEPT ![1] = [pc |-> "scan", tp |-> NoNode, gap |-> 0]]
    BY <1>7 DEF Acted, adding
  <2>2. Stack' /\ OthersAct'
    BY <1>1, <1>2, <2>1, TopKept, TopRecord
  <2>3. QED
    BY <1>2, <2>1, <2>2 DEF Inv, AlarmSaid, AddSaid, Extending
<1>8. CASE Jump
  <2>1. frames' = <<>> /\ pc' = "idle"
    BY <1>8 DEF Jump
  <2>2. Stack'
    <3>1. frames' \in Seq({}) /\ Labelled({})
      BY <2>1 DEF Labelled
    <3>2. QED
      BY <3>1 DEF Stack
  <2>3. OthersAct'
    BY <2>1 DEF OthersAct
  <2>4. QED
    BY <2>1, <2>2, <2>3 DEF Inv, AlarmSaid, AddSaid, Extending
<1>9. CASE Return
  <2>1. frames' = Tail(frames) /\ pc' = pc
    BY <1>9 DEF Return, adding
  <2>2. Stack' /\ OthersAct' /\ (frames' # <<>> => frames'[1].pc = "acting")
    BY <1>1, <1>2, <2>1, PopKept
  <2>3. QED
    BY <1>2, <2>1, <2>2 DEF Inv, AlarmSaid, AddSaid, Extending
<1>10. QED
  BY <1>4, <1>5, <1>6, <1>7, <1>8, <1>9 DEF Handler

\* Steps of the main program, which runs while there is no handler.
LEMMA MainKept ==
  Inv /\ (Adding \/ DelAll \/ \E u \in Users : Del(u) \/ \E d \in Delays : AddTake(u, d)) => Inv'
<1> SUFFICES ASSUME Inv, Adding \/ DelAll \/ \E u \in Users : Del(u) \/ \E d \in Delays : AddTake(u, d)
             PROVE  Inv'
  OBVIOUS
<1>1. frames = <<>> /\ frames' = frames
  BY DEF Adding, AddTake, AddPop, AddFill, Filled, AddLink, AddArm, AddClear, AddTest, AddKill,
         AddReturn, Del, DelAll, DelAllOff, MainAt
<1>2. Extending' => "add" \in time_state'
  <2>1. CASE AddFill
    BY <2>1 DEF AddFill, Filled
  <2>2. CASE AddLink
    BY <2>2 DEF AddLink, MainAt, Inv, AddSaid, Extending
  <2>3. CASE AddArm
    BY <2>3 DEF AddArm, MainAt, Inv, AddSaid, Extending
  <2>4. CASE ~(AddFill \/ AddLink \/ AddArm)
    <3>1. pc' \in {"idle", "pop", "fill", "test", "kill", "killed", "return", "off"}
      BY <2>4 DEF Adding, AddTake, AddPop, AddClear, AddTest, AddKill, AddReturn, Del, DelAll,
                  DelAllOff, MainAt, adding
    <3>2. QED
      BY <3>1 DEF Extending
  <2>5. QED
    BY <2>1, <2>2, <2>3, <2>4
<1>3. Stack' /\ OthersAct' /\ AlarmSaid'
  BY <1>1 DEF Inv, Stack, OthersAct, AlarmSaid
<1>4. QED
  BY <1>1, <1>2, <1>3 DEF Inv, AddSaid

LEMMA InvHolds == Spec => []Inv
<1>1. Init => Inv
  <2> SUFFICES ASSUME Init PROVE Inv
    OBVIOUS
  <2>1. frames = <<>> /\ pc = "idle"
    BY DEF Init
  <2>2. frames \in Seq({}) /\ Labelled({})
    BY <2>1 DEF Labelled
  <2>3. OthersAct
    BY <2>1 DEF OthersAct
  <2>4. QED
    BY <2>1, <2>2, <2>3 DEF Inv, Stack, AlarmSaid, AddSaid, Extending
<1>2. Inv /\ [Next]_vars => Inv'
  <2> SUFFICES ASSUME Inv, [Next]_vars PROVE Inv'
    OBVIOUS
  <2>1. CASE DeliverBusy
    BY <2>1 DEF DeliverBusy, Entry, Called, adding, Inv, Stack, OthersAct, AlarmSaid, AddSaid,
                Extending
  <2>2. CASE Tick \/ UNCHANGED vars
    <3>1. frames' = frames /\ time_state' = time_state /\ pc' = pc
      BY <2>2 DEF Tick, adding, vars
    <3>2. QED
      BY <3>1 DEF Inv, Stack, OthersAct, AlarmSaid, AddSaid, Extending
  <2>3. QED
    BY <2>1, <2>2, DeliverKept, HandlerKept, MainKept DEF Next
<1>3. QED
  BY <1>1, <1>2, PTL DEF Spec

(* The handler never starts in the middle of sh_timeradd's link, nor in the *)
(* walk of another handler, whatever alarms come: time_state says so from   *)
(* before either until after (timers.c:110, 209, 229).                      *)
THEOREM OneWalkHolds == Spec => []OneWalk
<1>1. Inv => OneWalk
  BY DEF Inv, OthersAct, AddSaid, Extending, OneWalk
<1>2. QED
  BY <1>1, InvHolds, PTL

-----------------------------------------------------------------------------
\* Lists of nodes

\* There is a least number in every set of them.
LEMMA LeastNumber ==
  ASSUME NEW S, S \subseteq Nat, S # {}
  PROVE  \E x \in S : \A y \in S : x <= y
<1> DEFINE R == OpToRel(<, Nat)
<1>1. IsWellFoundedOn(R, Nat)
  BY NatLessThanWellFounded
<1>2. \A x, y \in Nat : x < y => <<x, y>> \in R
  BY DEF OpToRel
<1> HIDE DEF R
<1>3. PICK x \in S : \A y \in S : ~ (<<y, x>> \in R)
  BY <1>1, WFMin
<1>4. ASSUME NEW y \in S PROVE x <= y
  <2>1. x \in Nat /\ y \in Nat /\ ~ (<<y, x>> \in R)
    BY <1>3
  <2>2. ~ (y < x)
    BY <1>2, <2>1
  <2>3. QED
    BY <2>1, <2>2
<1>5. QED
  BY <1>4

LEMMA Concatenated ==
  ASSUME NEW S, NEW s \in Seq(S), NEW t \in Seq(S)
  PROVE  /\ s \o t \in Seq(S)
         /\ ToSet(s \o t) = ToSet(s) \union ToSet(t)
         /\ IsInjective(s) /\ IsInjective(t) /\ ToSet(s) \intersect ToSet(t) = {}
              => IsInjective(s \o t)
<1> DEFINE u == s \o t
<1>1. /\ u \in Seq(S) /\ Len(u) = Len(s) + Len(t) /\ Len(s) \in Nat /\ Len(t) \in Nat
      /\ DOMAIN s = 1..Len(s) /\ DOMAIN t = 1..Len(t) /\ DOMAIN u = 1..Len(u)
  OBVIOUS
<1>2. /\ \A i \in 1..Len(s) : i \in 1..Len(u) /\ u[i] = s[i]
      /\ \A i \in 1..Len(t) : i + Len(s) \in 1..Len(u) /\ u[i + Len(s)] = t[i]
  BY <1>1
<1>3. \A i \in 1..Len(u) : \/ i \in 1..Len(s) /\ u[i] = s[i]
                           \/ i - Len(s) \in 1..Len(t) /\ u[i] = t[i - Len(s)]
  BY <1>1
<1> HIDE DEF u
<1>4. ToSet(u) = ToSet(s) \union ToSet(t)
  <2>1. \A x : x \in ToSet(s) => x \in ToSet(u)
    BY <1>1, <1>2 DEF ToSet
  <2>2. \A x : x \in ToSet(t) => x \in ToSet(u)
    BY <1>1, <1>2 DEF ToSet
  <2>3. \A x : x \in ToSet(u) => x \in ToSet(s) \/ x \in ToSet(t)
    BY <1>1, <1>3 DEF ToSet
  <2>4. QED
    BY <2>1, <2>2, <2>3
<1>5. ASSUME IsInjective(s), IsInjective(t), ToSet(s) \intersect ToSet(t) = {}
      PROVE  IsInjective(u)
  <2> SUFFICES ASSUME NEW i \in 1..Len(u), NEW k \in 1..Len(u), u[i] = u[k]
               PROVE  i = k
    BY <1>1 DEF IsInjective
  <2>1. \A a \in 1..Len(s), b \in 1..Len(t) : s[a] # t[b]
    BY <1>1, <1>5 DEF ToSet
  <2>2. CASE i \in 1..Len(s) /\ u[i] = s[i] /\ k \in 1..Len(s) /\ u[k] = s[k]
    BY <1>1, <1>5, <2>2 DEF IsInjective
  <2>3. CASE /\ i - Len(s) \in 1..Len(t) /\ u[i] = t[i - Len(s)]
             /\ k - Len(s) \in 1..Len(t) /\ u[k] = t[k - Len(s)]
    <3>1. i - Len(s) = k - Len(s)
      BY <1>1, <1>5, <2>3 DEF IsInjective
    <3>2. QED
      BY <1>1, <3>1
  <2>4. QED
    BY <1>3, <2>1, <2>2, <2>3
<1>6. QED
  BY <1>1, <1>4, <1>5 DEF u

LEMMA Reversed ==
  ASSUME NEW S, NEW s \in Seq(S)
  PROVE  /\ Reverse(s) \in Seq(S) /\ ToSet(Reverse(s)) = ToSet(s)
         /\ IsInjective(s) => IsInjective(Reverse(s))
<1> DEFINE n == Len(s)  t == Reverse(s)
<1>1. n \in Nat /\ DOMAIN s = 1..n /\ \A i \in 1..n : s[i] \in S
  OBVIOUS
<1>2. \A i \in 1..n : (n - i) + 1 \in 1..n /\ (n - ((n - i) + 1)) + 1 = i
  BY <1>1
<1>3. t = [i \in 1..n |-> s[(n - i) + 1]]
  BY DEF Reverse
<1> HIDE DEF n, t
<1>4. t \in Seq(S) /\ DOMAIN t = 1..n /\ \A i \in 1..n : t[i] = s[(n - i) + 1]
  BY <1>1, <1>2, <1>3
<1>5. ToSet(t) = ToSet(s)
  <2>1. \A x : x \in ToSet(t) => x \in ToSet(s)
    BY <1>1, <1>2, <1>4 DEF ToSet
  <2>2. \A i \in 1..n : s[i] = t[(n - i) + 1]
    BY <1>2, <1>4
  <2>3. \A x : x \in ToSet(s) => x \in ToSet(t)
    BY <1>1, <1>2, <1>4, <2>2 DEF ToSet
  <2>4. QED
    BY <2>1, <2>3
<1>6. ASSUME IsInjective(s) PROVE IsInjective(t)
  <2> SUFFICES ASSUME NEW i \in 1..n, NEW k \in 1..n, t[i] = t[k] PROVE i = k
    BY <1>4 DEF IsInjective
  <2>1. (n - i) + 1 = (n - k) + 1
    BY <1>1, <1>2, <1>4, <1>6 DEF IsInjective
  <2>2. QED
    BY <1>1, <2>1
<1>7. QED
  BY <1>4, <1>5, <1>6 DEF t

LEMMA FirstAndRest ==
  ASSUME NEW S, NEW s \in Seq(S), s # <<>>
  PROVE  /\ Head(s) \in S /\ Head(s) \in ToSet(s)
         /\ Tail(s) \in Seq(S) /\ ToSet(Tail(s)) \subseteq ToSet(s)
         /\ IsInjective(s) => IsInjective(Tail(s)) /\ Head(s) \notin ToSet(Tail(s))
<1> DEFINE t == Tail(s)  h == Head(s)  n == Len(s)
<1>1. /\ n \in Nat \ {0} /\ DOMAIN s = 1..n /\ t \in Seq(S) /\ DOMAIN t = 1..(n - 1)
      /\ h = s[1] /\ s[1] \in S
  OBVIOUS
<1>2. \A i \in 1..(n - 1) : i + 1 \in 1..n /\ i + 1 # 1 /\ t[i] = s[i + 1]
  OBVIOUS
<1> HIDE DEF t, h, n
<1>a. 1 \in 1..n
  BY <1>1
<1>3. ToSet(t) \subseteq ToSet(s) /\ h \in ToSet(s)
  <2>1. \A x \in ToSet(t) : \E i \in 1..n : x = s[i]
    BY <1>1, <1>2 DEF ToSet
  <2>2. QED
    BY <2>1, <1>1, <1>a DEF ToSet
<1>4. ASSUME IsInjective(s) PROVE IsInjective(t) /\ h \notin ToSet(t)
  <2>0. \A a, b \in 1..n : s[a] = s[b] => a = b
    BY <1>1, <1>4 DEF IsInjective
  <2>1. ASSUME NEW i \in 1..(n - 1), NEW k \in 1..(n - 1), t[i] = t[k]
        PROVE  i = k
    <3>1. i + 1 = k + 1
      BY <1>2, <2>0, <2>1
    <3>2. QED
      BY <3>1
  <2>2. \A i \in 1..(n - 1) : t[i] # s[1]
    BY <1>a, <1>2, <2>0
  <2>3. QED
    BY <1>1, <2>1, <2>2 DEF IsInjective, ToSet
<1>5. QED
  BY <1>1, <1>3, <1>4 DEF t, h

\* The nodes of S in the order of the list are these nodes, each once.
LEMMA InOrderIs ==
  ASSUME list \in Seq(Nodes), NEW S, S \subseteq ToSet(list), NEW s, s \in InOrder(S)
  PROVE  s \in Seq(Nodes) /\ ToSet(s) = S /\ IsInjective(s)
<1>1. IsFiniteSet(ToSet(list)) /\ ToSet(list) \subseteq Nodes
  <2>1. list \in Surjection(1..Len(list), ToSet(list)) /\ ToSet(list) \subseteq Nodes
    BY DEF Surjection, ToSet
  <2>2. IsFiniteSet(1..Len(list))
    BY FS_Interval
  <2>3. QED
    BY <2>1, <2>2, FS_Surjection
<1>2. Cardinality(S) \in Nat
  BY <1>1, FS_Subset, FS_CardinalityType
<1> DEFINE n == Cardinality(S)
<1> HIDE DEF n
<1>3. /\ s \in [1..n -> S] /\ ToSet(s) = S
      /\ \A i, j \in DOMAIN s : i < j => Place(s[i]) < Place(s[j])
  BY DEF InOrder, n
<1>4. n \in Nat
  BY <1>2 DEF n
<1>5. s \in Seq(Nodes)
  BY <1>1, <1>3, <1>4
<1>6. \A x \in S : Place(x) \in Nat
  <2>1. \A x \in S : \E i \in DOMAIN list : list[i] = x
    BY DEF ToSet
  <2>2. \A x \in S : Place(x) \in DOMAIN list
    BY <2>1 DEF Place
  <2>3. QED
    BY <2>2
<1>7. IsInjective(s)
  <2> SUFFICES ASSUME NEW i \in 1..n, NEW j \in 1..n, s[i] = s[j] PROVE i = j
    BY <1>3 DEF IsInjective
  <2>1. Place(s[i]) \in Nat /\ ~(i < j) /\ ~(j < i)
    <3>1. Place(s[i]) \in Nat /\ Place(s[j]) = Place(s[i])
      BY <1>3, <1>6
    <3>2. ~(Place(s[i]) < Place(s[i]))
      BY <3>1
    <3>3. QED
      BY <1>3, <3>1, <3>2
  <2>2. QED
    BY <1>4, <2>1
<1>8. QED
  BY <1>3, <1>5, <1>7

-----------------------------------------------------------------------------
\* What the code picks: the soonest timer, and when a timer is due again

LEMMA Largest ==
  /\ LargestDelay \in Delays /\ LargestDelay \in Nat \ {0}
  /\ \A d \in Delays : d \in 1..LargestDelay /\ d \in 0..LargestDelay
<1>1. \E d \in Delays : \A e \in Delays : e <= d
  BY DelaysAssumption
<1>2. LargestDelay \in Delays /\ \A e \in Delays : e <= LargestDelay
  BY <1>1 DEF LargestDelay
<1>3. \A d \in Delays : d \in Nat \ {0}
  BY DelaysAssumption
<1>4. QED
  BY <1>2, <1>3

LEMMA NothingWanted == NoWant \in [user : Users, delay : Delays]
<1>1. (CHOOSE u \in Users : TRUE) \in Users
  BY UsersAssumption
<1>2. (CHOOSE d \in Delays : TRUE) \in Delays
  BY Largest
<1>3. QED
  BY <1>1, <1>2 DEF NoWant

LEMMA Spans ==
  /\ 0..LargestDelay \subseteq Span
  /\ \A r \in Span : r \in Int /\ r + 1 \in Nat /\ (r <= 0 => r \in -1..0)
BY Largest DEF Span, Late

LEMMA PlaceIs ==
  ASSUME TypeOK
  PROVE  ToSet(list) \subseteq Nodes /\ \A n \in ToSet(list) : Place(n) \in Nat
<1>0. list \in Seq(Nodes)
  BY DEF TypeOK
<1>1. \A n \in ToSet(list) : \E i \in DOMAIN list : list[i] = n
  BY DEF ToSet
<1>2. \A n \in ToSet(list) : Place(n) \in DOMAIN list
  BY <1>1 DEF Place
<1>3. QED
  BY <1>0, <1>2 DEF ToSet

LEMMA SoonestIs ==
  ASSUME TypeOK, NEW S, S \subseteq ToSet(list)
  PROVE  /\ S = {} => Soonest(S) = NoNode
         /\ S # {} => /\ Soonest(S) \in S
                      /\ \A m \in S : node[Soonest(S)].rem <= node[m].rem
<1>1. CASE S = {}
  BY <1>1 DEF Soonest
<1>2. CASE S # {}
  <2>1. /\ S \subseteq Nodes
        /\ \A m \in S : Place(m) \in Nat /\ node[m].rem \in Int /\ node[m].rem + 1 \in Nat
    <3>1. S \subseteq Nodes /\ \A m \in S : Place(m) \in Nat
      BY PlaceIs
    <3>2. \A m \in S : node[m].rem \in Span
      BY <3>1 DEF TypeOK, Timer
    <3>3. QED
      BY <3>1, <3>2, Spans
  <2> DEFINE R == {node[m].rem + 1 : m \in S}
  <2>2. PICK r \in R : \A x \in R : r <= x
    <3>1. R \subseteq Nat /\ R # {}
      BY <1>2, <2>1
    <3> HIDE DEF R
    <3>2. QED
      BY <3>1, LeastNumber
  <2>3. PICK m0 \in S : node[m0].rem + 1 = r
    BY <2>2
  <2>4. \A m \in S : node[m0].rem <= node[m].rem
    <3>1. \A m \in S : node[m0].rem + 1 <= node[m].rem + 1
      BY <2>2, <2>3
    <3>2. QED
      BY <3>1, <2>1
  <2> DEFINE P == {Place(m) : m \in {k \in S : node[k].rem = node[m0].rem}}
  <2>5. PICK p \in P : \A x \in P : p <= x
    <3>1. P \subseteq Nat /\ P # {}
      BY <2>1
    <3> HIDE DEF P
    <3>2. QED
      BY <3>1, LeastNumber
  <2>6. PICK n \in S : node[n].rem = node[m0].rem /\ Place(n) = p
    BY <2>5
  <2>7. \A m \in S : \/ node[n].rem < node[m].rem
                     \/ node[n].rem = node[m].rem /\ Place(n) <= Place(m)
    <3> SUFFICES ASSUME NEW m \in S, ~(node[n].rem < node[m].rem)
                 PROVE  node[n].rem = node[m].rem /\ Place(n) <= Place(m)
      OBVIOUS
    <3>1. node[m].rem = node[m0].rem
      BY <2>1, <2>4, <2>6
    <3>2. Place(m) \in P
      BY <3>1
    <3>3. QED
      BY <2>5, <2>6, <3>1, <3>2
  <2> HIDE DEF R, P
  <2>8. LET s == Soonest(S)
        IN  s \in S /\ \A m \in S : \/ node[s].rem < node[m].rem
                                    \/ node[s].rem = node[m].rem /\ Place(s) <= Place(m)
    BY <1>2, <2>7 DEF Soonest
  <2> DEFINE s == Soonest(S)
  <2>9. s \in S /\ \A m \in S : node[s].rem < node[m].rem \/ node[s].rem = node[m].rem
    BY <2>8
  <2> HIDE DEF s
  <2>10. \A m \in S : node[s].rem <= node[m].rem
    BY <2>1, <2>9
  <2>11. QED
    BY <1>2, <2>9, <2>10 DEF s
<1>3. QED
  BY <1>1, <1>2

LEMMA Divided == \A i \in Nat \ {0} : i % i = 0
OBVIOUS

LEMMA DueAgain == \A i \in Nat \ {0}, r \in -1..0 : \E k \in 1..i : (k - r) % i = 0
<1> TAKE i \in Nat \ {0}, r \in -1..0
<1>1. CASE r = 0
  <2>1. (i - r) % i = 0
    BY <1>1, Divided
  <2>2. QED
    BY <2>1
<1>2. CASE r = -1 /\ i = 1
  <2>1. (i - r) % i = 0
    BY <1>2
  <2>2. QED
    BY <2>1
<1>3. CASE r = -1 /\ i # 1
  <2>1. i - 1 \in 1..i /\ (i - 1) - r = i
    BY <1>3
  <2>2. QED
    BY <2>1, Divided
<1>4. QED
  BY <1>1, <1>2, <1>3

LEMMA AgainIs ==
  ASSUME TypeOK, NEW n \in Nodes, node[n].rem <= 0, node[n].incr # 0
  PROVE  Again(n) \in 1..LargestDelay
<1> DEFINE r == node[n].rem  i == node[n].incr
<1>1. r \in Span /\ r <= 0 /\ i \in 0..LargestDelay /\ i # 0
  BY DEF TypeOK, Timer
<1>2. Again(n) = CHOOSE k \in 1..i : (k - r) % i = 0
  BY DEF Again
<1> HIDE DEF r, i
<1>3. r \in -1..0 /\ i \in Nat \ {0}
  BY <1>1, Spans
<1>4. \E k \in 1..i : (k - r) % i = 0
  BY <1>3, DueAgain
<1>5. Again(n) \in 1..i
  BY <1>2, <1>4
<1>6. QED
  BY <1>1, <1>3, <1>5, Largest

\* What one walk of the handler does, in the terms the invariants use
Walked(tp, redo, wake, min) ==
  /\ tp \in Nodes \union {NoNode}
  /\ tp # NoNode => tp \in ToSet(list) /\ node[tp].act /\ node[tp].rem <= 0
  /\ redo => tp # NoNode /\ node[tp].incr # 0 /\ wake \in 1..LargestDelay
  /\ tp # NoNode /\ ~redo => node[tp].incr = 0
  /\ list' \in Seq(Nodes) /\ IsInjective(list') /\ ToSet(list') = Active
  /\ \E s \in Seq(Nodes) : IsInjective(s) /\ ToSet(s) = Dead /\ free' = s \o free
  /\ node' = IF redo THEN [node EXCEPT ![tp].rem = wake] ELSE node
  /\ min \in Active \union {NoNode}
  /\ min # NoNode => node'[min].rem \in 1..LargestDelay
  /\ min = NoNode => ~redo /\ Active = Due
  /\ tpmin' = min
  /\ frames' = [frames EXCEPT ![1] = [pc |-> "arm", tp |-> tp,
                                     gap |-> IF min = NoNode THEN 0 ELSE node'[min].rem]]

LEMMA ScanIs ==
  ASSUME TypeOK, Scan
  PROVE  \E tp, wake, min : \E redo \in BOOLEAN : Walked(tp, redo, wake, min)
<1> DEFINE tp   == Soonest(Due)
           next == Soonest(Active \ Due)
<1>1. PICK redo \in BOOLEAN : redo = (tp # NoNode /\ node[tp].incr # 0)
  OBVIOUS
<1> DEFINE wake == IF redo THEN Again(tp) ELSE 0
           min  == IF redo /\ (next = NoNode \/ node[next].rem > wake) THEN tp ELSE next
<1>2. /\ list' \in InOrder(Active)
      /\ \E s \in InOrder(Dead) : free' = Reverse(s) \o free
      /\ node' = IF redo THEN [node EXCEPT ![tp].rem = wake] ELSE node
      /\ tpmin' = min
      /\ frames' = [frames EXCEPT ![1] = [pc |-> "arm", tp |-> tp,
           gap |-> IF min = NoNode THEN 0 ELSE IF redo /\ min = tp THEN wake ELSE node[min].rem]]
  BY <1>1 DEF Scan, Scanned
<1>3. /\ Due \subseteq ToSet(list) /\ Active \subseteq ToSet(list) /\ Active \ Due \subseteq ToSet(list)
      /\ Dead \subseteq ToSet(list) /\ ToSet(list) \subseteq Nodes /\ Due \subseteq Active
      /\ NoNode \notin Nodes
  BY PlaceIs, NodesAssumption DEF Due, Active, Dead
<1>4. /\ tp = NoNode \/ tp \in Due
      /\ next = NoNode \/ next \in Active \ Due
      /\ next = NoNode => Active \ Due = {}
  BY <1>3, SoonestIs
<1>5. tp # NoNode => tp \in Nodes /\ tp \in ToSet(list) /\ node[tp].act /\ node[tp].rem <= 0
  BY <1>3, <1>4 DEF Due, Active
<1>6. redo => tp # NoNode /\ wake \in 1..LargestDelay
  BY <1>1, <1>5, AgainIs
<1>7. tp # NoNode /\ ~redo => node[tp].incr = 0
  BY <1>1
<1>8. next # NoNode => next \in Nodes /\ next \in Active /\ next # tp /\ node[next].rem \in 1..LargestDelay
  <2> SUFFICES ASSUME next # NoNode
               PROVE  next \in Nodes /\ next \in Active /\ next # tp /\ node[next].rem \in 1..LargestDelay
    OBVIOUS
  <2>1. next \in Active \ Due /\ next \in Nodes
    BY <1>3, <1>4
  <2>2. ~(node[next].rem <= 0) /\ node[next].rem \in Span
    BY <2>1 DEF Due, TypeOK, Timer
  <2>3. next # tp
    BY <1>3, <1>4, <2>1
  <2>4. QED
    BY <2>1, <2>2, <2>3, Largest DEF Span
<1>9. node \in [Nodes -> Timer]
  BY DEF TypeOK, Timer
<1>10. list' \in Seq(Nodes) /\ IsInjective(list') /\ ToSet(list') = Active
  BY <1>2, <1>3, InOrderIs DEF TypeOK
<1>11. \E s \in Seq(Nodes) : IsInjective(s) /\ ToSet(s) = Dead /\ free' = s \o free
  <2>1. PICK s \in InOrder(Dead) : free' = Reverse(s) \o free
    BY <1>2
  <2>2. s \in Seq(Nodes) /\ ToSet(s) = Dead /\ IsInjective(s)
    BY <1>3, InOrderIs DEF TypeOK
  <2>3. Reverse(s) \in Seq(Nodes) /\ ToSet(Reverse(s)) = Dead /\ IsInjective(Reverse(s))
    BY <2>2, Reversed
  <2>4. QED
    BY <2>1, <2>3
<1> HIDE DEF tp, next
<1>12. min = NoNode \/ (redo /\ min = tp) \/ (min # NoNode /\ min = next /\ min # tp)
  BY <1>8
<1> HIDE DEF wake
<1>13. redo => node'[tp].rem = wake /\ \A n \in Nodes \ {tp} : node'[n] = node[n]
  <2> SUFFICES ASSUME redo PROVE node'[tp].rem = wake /\ \A n \in Nodes \ {tp} : node'[n] = node[n]
    OBVIOUS
  <2>1. node' = [node EXCEPT ![tp].rem = wake] /\ tp \in Nodes
    BY <1>2, <1>5, <1>6
  <2>2. node[tp] \in Timer
    BY <1>9, <2>1
  <2>3. QED
    BY <1>9, <2>1, <2>2 DEF Timer
<1>14. min # NoNode => node'[min].rem \in 1..LargestDelay /\ min \in Active
                       /\ node'[min].rem = IF redo /\ min = tp THEN wake ELSE node[min].rem
  <2>1. CASE redo /\ min = tp
    BY <1>3, <1>4, <1>6, <1>13, <2>1
  <2>2. CASE min # NoNode /\ min = next /\ min # tp
    <3>1. node'[min] = node[min]
      BY <1>2, <1>8, <1>13, <2>2
    <3>2. QED
      BY <1>8, <2>2, <3>1
  <2>3. QED
    BY <1>12, <2>1, <2>2
<1>15. min = NoNode => ~redo /\ Active = Due
  <2>1. min = NoNode => ~redo /\ next = NoNode
    BY <1>3, <1>5, <1>6
  <2>2. QED
    BY <2>1, <1>3, <1>4
<1> HIDE DEF min
<1>16. frames' = [frames EXCEPT ![1] = [pc |-> "arm", tp |-> tp,
                    gap |-> IF min = NoNode THEN 0 ELSE node'[min].rem]]
  BY <1>2, <1>14
<1>17. Walked(tp, redo, wake, min)
  BY <1>1, <1>2, <1>5, <1>6, <1>7, <1>10, <1>11, <1>14, <1>15, <1>16 DEF Walked
<1>18. QED
  BY <1>17

-----------------------------------------------------------------------------
(***************************************************************************)
(* Types and the places of the nodes.  A handler that starts finds room on *)
(* the stack, because no alarm comes while as many are in their actions as *)
(* a behaviour may nest (Shallow).  Placed says where the node is that     *)
(* sh_timeradd has in hand: still in the free list until it is popped, in  *)
(* no list until it is linked; and that tptop is still what it has read    *)
(* when it is.                                                             *)
(***************************************************************************)
Shallow == pending => ~Deepest

InHand ==
  /\ pc = "pop" => /\ new \in ToSet(free) /\ new \notin ToSet(rest)
                   /\ ToSet(rest) \subseteq ToSet(free) /\ IsInjective(rest)
  /\ pc \in {"fill", "link"} => new \in Nodes \ (ToSet(list) \union ToSet(free) \union fresh)
  /\ pc = "link" => rest = list

Placed ==
  /\ NodesApart /\ InHand
  /\ fresh \intersect (ToSet(list) \union ToSet(free)) = {}

TInv == TypeOK /\ Inv /\ Shallow /\ Placed

LEMMA StackTypes ==
  ASSUME frames \in Seq(Frame)
  PROVE  /\ \A x \in Frame : <<x>> \o frames \in Seq(Frame)
                             /\ Len(<<x>> \o frames) = Len(frames) + 1
         /\ frames # <<>> => /\ frames[1] \in Frame /\ Len(frames) \in Nat \ {0}
                             /\ Tail(frames) \in Seq(Frame) /\ Len(Tail(frames)) = Len(frames) - 1
                             /\ \A x \in Frame : /\ [frames EXCEPT ![1] = x] \in Seq(Frame)
                                                 /\ Len([frames EXCEPT ![1] = x]) = Len(frames)
                                                 /\ [frames EXCEPT ![1] = x][1] = x
OBVIOUS

LEMMA NodeTypes ==
  ASSUME node \in [Nodes -> Timer]
  PROVE  /\ \A n \in Nodes, r \in Span : [node EXCEPT ![n].rem = r] \in [Nodes -> Timer]
         /\ \A n \in Nodes : [node EXCEPT ![n].act = FALSE] \in [Nodes -> Timer]
         /\ [n \in Nodes |-> [node[n] EXCEPT !.act = FALSE]] \in [Nodes -> Timer]
         /\ [n \in Nodes |-> IF node[n].act /\ node[n].rem > -Late
                             THEN [node[n] EXCEPT !.rem = @ - 1] ELSE node[n]] \in [Nodes -> Timer]
<1>0. \A n \in Nodes : node[n] \in Timer
  OBVIOUS
<1>a. \A x \in Timer : /\ \A r \in Span : [x EXCEPT !.rem = r] \in Timer
                       /\ [x EXCEPT !.act = FALSE] \in Timer
                       /\ x.rem > -Late => x.rem - 1 \in Span
  <2>1. \A r \in Span : r > -Late => r - 1 \in Span
    BY Largest DEF Span, Late
  <2>2. QED
    BY <2>1 DEF Timer
<1>1. ASSUME NEW n \in Nodes, NEW r \in Span
      PROVE  [node EXCEPT ![n].rem = r] \in [Nodes -> Timer]
  <2>1. [node EXCEPT ![n].rem = r] = [node EXCEPT ![n] = [node[n] EXCEPT !.rem = r]]
    OBVIOUS
  <2>2. QED
    BY <2>1, <1>0, <1>a
<1>2. ASSUME NEW n \in Nodes
      PROVE  [node EXCEPT ![n].act = FALSE] \in [Nodes -> Timer]
  <2>1. [node EXCEPT ![n].act = FALSE] = [node EXCEPT ![n] = [node[n] EXCEPT !.act = FALSE]]
    OBVIOUS
  <2>2. QED
    BY <2>1, <1>0, <1>a
<1>3. [n \in Nodes |-> [node[n] EXCEPT !.act = FALSE]] \in [Nodes -> Timer]
  BY <1>0, <1>a
<1>4. ASSUME NEW n \in Nodes, node[n].rem > -Late
      PROVE  [node[n] EXCEPT !.rem = @ - 1] \in Timer
  BY <1>0, <1>4, <1>a
<1>5. QED
  BY <1>0, <1>1, <1>2, <1>3, <1>4

\* The activation a handler starts with
LEMMA StartFrame == [pc |-> "scan", tp |-> NoNode, gap |-> 0] \in Frame
BY Largest DEF Frame, Nulls

LEMMA InitTypes == Init => TypeOK
<1> SUFFICES ASSUME Init PROVE TypeOK
  OBVIOUS
<1>1. Null \in Timer
  <2>1. (CHOOSE u \in Users : TRUE) \in Users
    BY UsersAssumption
  <2>2. 0 \in 0..LargestDelay /\ 0 \in Span
    BY Largest, Spans
  <2>3. QED
    BY <2>1, <2>2 DEF Null, Timer
<1>2. cast \in Casts /\ cast.nodes \subseteq Nodes /\ cast.nest \in Nat \ {0} /\ fresh = cast.nodes
  BY CastsAssumption DEF Init
<1>3. node \in [Nodes -> Timer] /\ frames \in Seq(Frame) /\ Len(frames) <= cast.nest
  BY <1>1, <1>2 DEF Init
<1>4. 0 \in 0..LargestDelay
  BY Largest
<1>5. handle \in [Users -> Nulls] /\ tpmin \in Nulls /\ new \in Nulls /\ want \in [user : Users, delay : Delays]
  BY NothingWanted DEF Init, Nulls
<1>6. list \in Seq(Nodes) /\ free \in Seq(Nodes) /\ rest \in Seq(Nodes)
  BY DEF Init
<1>7. /\ left \in 0..LargestDelay /\ itimer \in 0..LargestDelay /\ pending \in BOOLEAN
      /\ time_state \subseteq {"add", "alarm", "defer", "call"}
      /\ disp \in {"default", "sigalrm"} /\ pc = "idle"
  BY <1>4 DEF Init
<1>8. QED
  BY <1>2, <1>3, <1>5, <1>6, <1>7 DEF TypeOK

\* The steps of sh_timeradd and timerdel
LEMMA MainTypes ==
  ASSUME TypeOK, Placed,
         Adding \/ DelAll \/ \E u \in Users : Del(u) \/ \E d \in Delays : AddTake(u, d)
  PROVE  TypeOK'
<1> USE DEF kernel, queue, adding
<1>1. CASE \E u \in Users, d \in Delays : AddTake(u, d)
  <2>1. PICK u \in Users, d \in Delays : AddTake(u, d)
    BY <1>1
  <2>2. CASE free # <<>>
    <3>1. new' = Head(free) /\ rest' = Tail(free) /\ fresh' = fresh /\ pc' = "pop"
      BY <2>1, <2>2 DEF AddTake
    <3>2. new' \in Nulls /\ rest' \in Seq(Nodes)
      BY <2>2, <3>1, FirstAndRest DEF TypeOK, Nulls
    <3>3. QED
      BY <2>1, <3>1, <3>2 DEF AddTake, TypeOK
  <2>3. CASE free = <<>>
    BY <2>1, <2>3 DEF AddTake, TypeOK, Nulls
  <2>4. QED
    BY <2>2, <2>3
<1>2. CASE AddPop
  BY <1>2 DEF AddPop, TypeOK
<1>3. CASE AddFill
  <2>1. new \in Nodes
    BY <1>3 DEF AddFill, Filled, MainAt, Placed, InHand
  <2>2. want.user \in Users /\ want.delay \in Span /\ want.delay \in 0..LargestDelay /\ 0 \in 0..LargestDelay
    <3>1. want.user \in Users /\ want.delay \in Delays
      BY DEF TypeOK
    <3>2. want.delay \in 0..LargestDelay
      BY <3>1, Largest
    <3>3. 0 \in 0..LargestDelay
      BY Largest
    <3>4. QED
      BY <3>1, <3>2, <3>3, Spans
  <2>3. [rem |-> want.delay, incr |-> IF want.user \in Repeats THEN want.delay ELSE 0,
         user |-> want.user, act |-> TRUE] \in Timer
    BY <2>2 DEF Timer
  <2>4. node' \in [Nodes -> Timer]
    BY <1>3, <2>1, <2>3 DEF AddFill, Filled, TypeOK
  <2>5. QED
    BY <1>3, <2>4 DEF AddFill, Filled, TypeOK, Timer
<1>4. CASE AddLink
  <2>1. new \in Nodes
    BY <1>4 DEF AddLink, MainAt, Placed, InHand
  <2>2. list' \in Seq(Nodes)
    BY <1>4, <2>1 DEF AddLink, TypeOK
  <2>3. QED
    BY <1>4, <2>2 DEF AddLink, TypeOK
<1>5. CASE AddArm
  <2>1. want.delay \in Delays
    BY DEF TypeOK
  <2>2. want.delay \in 0..LargestDelay
    BY <2>1, Largest
  <2>3. time_state' \subseteq {"add", "alarm", "defer", "call"}
    BY <1>5 DEF AddArm, TypeOK
  <2>4. tpmin' \in Nulls /\ disp' \in {"default", "sigalrm"} /\ itimer' \in 0..LargestDelay
    BY <1>5, <2>2 DEF AddArm, TypeOK
  <2>5. QED
    BY <1>5, <2>3, <2>4 DEF AddArm, TypeOK
<1>6. CASE AddClear \/ AddTest \/ AddKill
  BY <1>6 DEF AddClear, AddTest, AddKill, TypeOK
<1>7. CASE AddReturn
  <2>1. handle' \in [Users -> Nulls]
    BY <1>7 DEF AddReturn, TypeOK, Nulls
  <2>2. QED
    BY <1>7, <2>1, NothingWanted DEF AddReturn, TypeOK, Nulls
<1>8. CASE DelAll \/ DelAllOff
  <2>1. node' \in [Nodes -> Timer]
    BY <1>8, NodeTypes DEF DelAll, DelAllOff, TypeOK
  <2>2. itimer' \in 0..LargestDelay /\ handle' \in [Users -> Nulls] /\ tpmin' \in Nulls
    BY <1>8, Largest DEF DelAll, DelAllOff, TypeOK, Nulls
  <2>3. QED
    BY <1>8, <2>1, <2>2 DEF DelAll, DelAllOff, TypeOK
<1>9. CASE \E u \in Users : Del(u)
  <2>1. PICK u \in Users : Del(u)
    BY <1>9
  <2>2. handle[u] \in Nodes
    BY <2>1 DEF Del, TypeOK, Nulls
  <2>3. node' \in [Nodes -> Timer]
    BY <2>1, <2>2, NodeTypes DEF Del, TypeOK
  <2>4. QED
    BY <2>1, <2>3 DEF Del, TypeOK, Nulls, Timer
<1>10. QED
  BY <1>1, <1>2, <1>3, <1>4, <1>5, <1>6, <1>7, <1>8, <1>9 DEF Adding

\* The steps of the handler, and the clock
LEMMA HandlerTypes == ASSUME TypeOK, Handler PROVE TypeOK'
<1>0. frames # <<>> /\ frames \in Seq(Frame) /\ frames[1] \in Frame
  BY StackTypes DEF Handler, Scan, Scanned, Arm, Run, Acted, Jump, Return, HandlerAt, TypeOK
<1> USE DEF kernel, queue, adding
<1>1. CASE Scan
  <2>1. PICK tp, wake, min : \E redo \in BOOLEAN : Walked(tp, redo, wake, min)
    BY <1>1, ScanIs
  <2>2. PICK redo \in BOOLEAN : Walked(tp, redo, wake, min)
    BY <2>1
  <2>3. list' \in Seq(Nodes) /\ free' \in Seq(Nodes)
    BY <2>2, Concatenated DEF Walked, TypeOK
  <2>4. node' \in [Nodes -> Timer]
    <3>1. CASE redo
      <4>1. tp \in Nodes /\ wake \in Span /\ node' = [node EXCEPT ![tp].rem = wake]
        BY <2>2, <3>1, Spans, Largest DEF Walked
      <4>2. QED
        BY <4>1, NodeTypes DEF TypeOK
    <3>2. CASE ~redo
      BY <2>2, <3>2 DEF Walked, TypeOK
    <3>3. QED
      BY <3>1, <3>2
  <2>5. min \in Nulls /\ tp \in Nulls /\ tpmin' = min
    BY <2>2, PlaceIs DEF Walked, Nulls, Active
  <2>6. [pc |-> "arm", tp |-> tp, gap |-> IF min = NoNode THEN 0 ELSE node'[min].rem] \in Frame
    BY <2>2, <2>5, Largest DEF Walked, Frame
  <2>7. frames' \in Seq(Frame) /\ Len(frames') = Len(frames)
    BY <1>0, <2>2, <2>6, StackTypes DEF Walked
  <2>8. QED
    BY <1>1, <2>3, <2>4, <2>5, <2>7 DEF Scan, Scanned, TypeOK
<1>2. CASE Arm
  <2>1. frames' = [frames EXCEPT ![1] = [frames[1] EXCEPT !.pc = "run"]]
    BY <1>2 DEF Arm
  <2>2. [frames[1] EXCEPT !.pc = "run"] \in Frame
    BY <1>0 DEF Frame
  <2>3. frames' \in Seq(Frame) /\ Len(frames') = Len(frames)
    BY <1>0, <2>1, <2>2, StackTypes
  <2>4. frames[1].gap \in 0..LargestDelay
    BY <1>0 DEF Frame
  <2>5. left' \in 0..LargestDelay /\ itimer' \in 0..LargestDelay /\ disp' \in {"default", "sigalrm"}
    BY <1>2, <2>4 DEF Arm, TypeOK
  <2>6. QED
    BY <1>2, <2>3, <2>5 DEF Arm, TypeOK
<1>3. CASE Run
  <2>1. frames' = [frames EXCEPT ![1] = [frames[1] EXCEPT !.pc = "acting"]]
    BY <1>3 DEF Run
  <2>2. [frames[1] EXCEPT !.pc = "acting"] \in Frame /\ frames[1].tp \in Nodes
    BY <1>0, <1>3 DEF Frame, Nulls, Run
  <2>3. frames' \in Seq(Frame) /\ Len(frames') = Len(frames)
    BY <1>0, <2>1, <2>2, StackTypes
  <2>4. node' \in [Nodes -> Timer]
    BY <1>3, <2>2, NodeTypes DEF Run, TypeOK
  <2>5. handle' \in [Users -> Nulls]
    BY <1>3 DEF Run, TypeOK, Nulls
  <2>6. time_state' \subseteq {"add", "alarm", "defer", "call"}
    BY <1>3 DEF Run, TypeOK
  <2>7. QED
    BY <1>3, <2>3, <2>4, <2>5, <2>6 DEF Run, TypeOK
<1>4. CASE Acted
  <2>1. frames' \in Seq(Frame) /\ Len(frames') = Len(frames)
    BY <1>0, <1>4, StartFrame, StackTypes DEF Acted
  <2>2. QED
    BY <1>4, <2>1 DEF Acted, TypeOK
<1>5. CASE Jump
  <2>1. frames' \in Seq(Frame) /\ Len(frames') <= cast.nest
    BY <1>5, CastsAssumption DEF Jump, TypeOK
  <2>2. new' \in Nulls /\ rest' \in Seq(Nodes)
    BY <1>5 DEF Jump, Nulls
  <2>3. QED
    BY <1>5, <2>1, <2>2, NothingWanted DEF Jump, TypeOK
<1>6. CASE Return
  <2>1. frames' \in Seq(Frame) /\ Len(frames') = Len(frames) - 1 /\ Len(frames) \in Nat
    BY <1>0, <1>6, StackTypes DEF Return
  <2>2. cast.nest \in Nat
    BY CastsAssumption DEF TypeOK
  <2>3. Len(frames') <= cast.nest
    BY <2>1, <2>2 DEF TypeOK
  <2>4. QED
    BY <1>6, <2>1, <2>3 DEF Return, TypeOK
<1>7. QED
  BY <1>1, <1>2, <1>3, <1>4, <1>5, <1>6 DEF Handler

LEMMA SignalTypes == ASSUME TInv, Deliver \/ DeliverBusy \/ Tick PROVE TypeOK'
<1> USE DEF kernel, queue, adding
<1>1. CASE Deliver
  <2>1. /\ Called = {} /\ pending
        /\ frames' = <<[pc |-> "scan", tp |-> NoNode, gap |-> 0]>> \o frames
    BY <1>1 DEF Deliver, Entry
  <2>2. frames \in Seq(Frame) /\ Len(frames) <= cast.nest /\ cast.nest \in Nat \ {0}
    BY CastsAssumption DEF TInv, TypeOK
  <2>3. frames # <<>> => frames[1].pc = "acting"
    BY <2>1 DEF TInv, Inv, AlarmSaid, Called
  <2>4. Len(frames) # cast.nest
    <3>1. CASE frames = <<>>
      BY <2>2, <3>1
    <3>2. CASE frames # <<>>
      BY <2>1, <2>3, <3>2 DEF TInv, Shallow, Deepest
    <3>3. QED
      BY <3>1, <3>2
  <2>5. frames' \in Seq(Frame) /\ Len(frames') = Len(frames) + 1 /\ Len(frames) \in Nat
    BY <2>1, <2>2, StartFrame, StackTypes
  <2>6. Len(frames') <= cast.nest
    BY <2>2, <2>4, <2>5
  <2>7. left' \in 0..LargestDelay /\ itimer' \in 0..LargestDelay
    BY <1>1, Largest DEF Deliver, Entry, TInv, TypeOK
  <2>8. QED
    BY <1>1, <2>5, <2>6, <2>7 DEF Deliver, Entry, TInv, TypeOK
<1>2. CASE DeliverBusy
  <2>1. left' \in 0..LargestDelay /\ itimer' \in 0..LargestDelay
    BY <1>2, Largest DEF DeliverBusy, Entry, TInv, TypeOK
  <2>2. time_state' \subseteq {"add", "alarm", "defer", "call"}
    BY <1>2 DEF DeliverBusy, Called, TInv, TypeOK
  <2>3. QED
    BY <1>2, <2>1, <2>2 DEF DeliverBusy, Entry, TInv, TypeOK
<1>3. CASE Tick
  <2>1. node' \in [Nodes -> Timer]
    BY <1>3, NodeTypes DEF Tick, TInv, TypeOK
  <2>2. itimer' \in 0..LargestDelay
    BY <1>3, Largest DEF Tick, TInv, TypeOK
  <2>3. QED
    BY <1>3, <2>1, <2>2 DEF Tick, TInv, TypeOK
<1>4. QED
  BY <1>1, <1>2, <1>3

-----------------------------------------------------------------------------
LEMMA CastFixed == [Next]_vars => cast' = cast
BY DEF Next, Adding, Handler, AddTake, AddPop, AddFill, Filled, AddLink, AddArm, AddClear,
       AddTest, AddKill, AddReturn, Del, DelAll, DelAllOff, Deliver, DeliverBusy, Entry, Scan,
       Scanned, Arm, Run, Acted, Jump, Return, Tick, vars

\* The stack has room for the handler when an alarm comes.
LEMMA ShallowStep == ASSUME TInv, [Next]_vars PROVE Shallow'
<1> USE DEF kernel, queue, adding
<1>0. cast' = cast /\ cast.nest \in Nat \ {0}
  BY CastsAssumption, CastFixed DEF TInv, TypeOK
<1>1. CASE Adding \/ DelAll \/ \E u \in Users : Del(u) \/ \E d \in Delays : AddTake(u, d)
  <2>1. frames' = <<>>
    BY <1>1 DEF Adding, AddTake, AddPop, AddFill, Filled, AddLink, AddArm, AddClear, AddTest,
                AddKill, AddReturn, Del, DelAll, DelAllOff, MainAt
  <2>2. Len(frames') = 0
    BY <2>1
  <2>3. QED
    BY <1>0, <2>2 DEF Shallow, Deepest
<1>2. CASE Handler
  <2>1. ~pending /\ pending' = pending
    BY <1>2 DEF Handler, Scan, Scanned, Arm, Run, Acted, Jump, Return, HandlerAt, Ready
  <2>2. QED
    BY <2>1 DEF Shallow
<1>3. CASE Deliver \/ DeliverBusy
  BY <1>3 DEF Deliver, DeliverBusy, Entry, Shallow
<1>4. CASE Tick
  BY <1>0, <1>4 DEF Tick, Shallow, Deepest
<1>5. CASE UNCHANGED vars
  BY <1>5 DEF vars, TInv, Shallow, Deepest
<1>6. QED
  BY <1>1, <1>2, <1>3, <1>4, <1>5 DEF Next

\* Of the nodes only those that are active matter, and a step that adds none
\* and keeps the lists keeps all in their places.
LEMMA SamePlaces ==
  ASSUME Placed, UNCHANGED <<list, free, fresh>>,
         pc' \notin {"pop", "fill", "link"} \/ UNCHANGED <<pc, new, rest>>,
         pc = "link" => UNCHANGED <<pc, new>>,
         \A n \in Nodes : node'[n].act => node[n].act
  PROVE  Placed'
<1>1. InHand'
  BY DEF Placed, InHand
<1>2. NodesApart'
  BY DEF Placed, NodesApart
<1>3. QED
  BY <1>1, <1>2 DEF Placed

LEMMA ActKept ==
  ASSUME node \in [Nodes -> Timer]
  PROVE  /\ \A n \in Nodes, r \in Span, m \in Nodes : [node EXCEPT ![n].rem = r][m].act = node[m].act
         /\ \A n, m \in Nodes : [node EXCEPT ![n].act = FALSE][m].act => node[m].act
<1>1. \A x \in Timer, r \in Span : [x EXCEPT !.rem = r].act = x.act /\ ~[x EXCEPT !.act = FALSE].act
  BY DEF Timer
<1>2. ASSUME NEW n \in Nodes, NEW r \in Span, NEW m \in Nodes
      PROVE  [node EXCEPT ![n].rem = r][m].act = node[m].act
  <2>1. [node EXCEPT ![n].rem = r][m] = IF m = n THEN [node[n] EXCEPT !.rem = r] ELSE node[m]
    OBVIOUS
  <2>2. QED
    BY <2>1, <1>1
<1>3. ASSUME NEW n \in Nodes, NEW m \in Nodes, [node EXCEPT ![n].act = FALSE][m].act
      PROVE  node[m].act
  <2>1. [node EXCEPT ![n].act = FALSE][m] = IF m = n THEN [node[n] EXCEPT !.act = FALSE] ELSE node[m]
    OBVIOUS
  <2>2. m # n
    BY <2>1, <1>1, <1>3
  <2>3. QED
    BY <2>1, <2>2, <1>3
<1>4. QED
  BY <1>2, <1>3

LEMMA MainPlaces ==
  ASSUME TInv,
         Adding \/ DelAll \/ \E u \in Users : Del(u) \/ \E d \in Delays : AddTake(u, d)
  PROVE  Placed'
<1> USE DEF kernel, queue, adding
<1>0. TypeOK /\ Placed
  BY DEF TInv
<1>1. CASE \E u \in Users, d \in Delays : AddTake(u, d)
  <2>1. PICK u \in Users, d \in Delays : AddTake(u, d)
    BY <1>1
  <2>2. CASE free # <<>>
    <3>1. /\ new' = Head(free) /\ rest' = Tail(free) /\ fresh' = fresh /\ pc' = "pop"
          /\ UNCHANGED <<list, free, node>> /\ pc = "idle"
      BY <2>1, <2>2 DEF AddTake, MainAt
    <3>2. free \in Seq(Nodes) /\ IsInjective(free)
      BY <1>0 DEF TypeOK, Placed, NodesApart
    <3>3. InHand'
      BY <2>2, <3>1, <3>2, FirstAndRest DEF InHand
    <3>4. NodesApart'
      BY <1>0, <3>1 DEF Placed, NodesApart
    <3>5. QED
      BY <1>0, <3>1, <3>3, <3>4 DEF Placed
  <2>3. CASE free = <<>>
    <3>1. /\ new' \in fresh /\ fresh' = fresh \ {new'} /\ pc' = "fill"
          /\ UNCHANGED <<list, free, node>> /\ pc = "idle"
      BY <2>1, <2>3 DEF AddTake, MainAt
    <3>2. InHand'
      BY <1>0, <3>1 DEF InHand, Placed, TypeOK
    <3>3. NodesApart'
      BY <1>0, <3>1 DEF Placed, NodesApart
    <3>4. QED
      BY <1>0, <3>1, <3>2, <3>3 DEF Placed
  <2>4. QED
    BY <2>2, <2>3
<1>2. CASE AddPop
  <2>1. /\ pc = "pop" /\ pc' = "fill" /\ free' = rest /\ UNCHANGED <<list, fresh, node, new>>
    BY <1>2 DEF AddPop, MainAt
  <2>2. ToSet(free) \subseteq Nodes
    BY <1>0 DEF TypeOK, ToSet
  <2>3. InHand'
    BY <1>0, <2>1, <2>2 DEF InHand, Placed, NodesApart
  <2>4. NodesApart'
    BY <1>0, <2>1 DEF Placed, NodesApart, InHand
  <2>5. QED
    BY <1>0, <2>1, <2>3, <2>4 DEF Placed, InHand
<1>3. CASE AddFill
  <2>1. /\ pc = "fill" /\ pc' = "link" /\ rest' = list /\ UNCHANGED <<list, free, fresh, new>>
        /\ \A n \in Nodes \ {new} : node'[n] = node[n]
    BY <1>0, <1>3 DEF AddFill, Filled, MainAt, TypeOK
  <2>2. InHand'
    BY <1>0, <2>1 DEF InHand, Placed
  <2>3. NodesApart'
    BY <1>0, <2>1 DEF Placed, NodesApart
  <2>4. QED
    BY <1>0, <2>1, <2>2, <2>3 DEF Placed
<1>4. CASE AddLink
  <2>1. /\ pc = "link" /\ pc' = "arm" /\ list' = <<new>> \o rest /\ UNCHANGED <<free, fresh, new, node>>
    BY <1>4 DEF AddLink, MainAt
  <2>2. rest = list /\ new \in Nodes \ (ToSet(list) \union ToSet(free) \union fresh)
    BY <1>0, <2>1 DEF Placed, InHand
  <2>3. <<new>> \in Seq(Nodes) /\ ToSet(<<new>>) = {new} /\ IsInjective(<<new>>)
    BY <2>2 DEF ToSet, IsInjective
  <2>4. ToSet(list') = {new} \union ToSet(list) /\ IsInjective(list')
    <3>1. list \in Seq(Nodes) /\ IsInjective(list) /\ ToSet(<<new>>) \intersect ToSet(list) = {}
      BY <1>0, <2>2, <2>3 DEF TypeOK, Placed, NodesApart
    <3> DEFINE one == <<new>>
    <3>2. list' = one \o list /\ one \in Seq(Nodes) /\ ToSet(one) = {new} /\ IsInjective(one)
      BY <2>1, <2>2, <2>3
    <3>3. ToSet(one) \intersect ToSet(list) = {}
      BY <3>1
    <3> HIDE DEF one
    <3>4. ToSet(one \o list) = ToSet(one) \union ToSet(list) /\ IsInjective(one \o list)
      BY <3>1, <3>2, <3>3, Concatenated
    <3>5. QED
      BY <3>2, <3>4
  <2>5. NodesApart'
    BY <1>0, <2>1, <2>2, <2>4 DEF Placed, NodesApart
  <2>6. QED
    BY <1>0, <2>1, <2>2, <2>4, <2>5 DEF Placed, InHand
<1>5. CASE AddArm \/ AddClear \/ AddTest \/ AddKill \/ AddReturn \/ DelAllOff
  <2>1. /\ UNCHANGED <<list, free, fresh, node>> /\ pc' \notin {"pop", "fill", "link"} /\ pc # "link"
    BY <1>5 DEF AddArm, AddClear, AddTest, AddKill, AddReturn, DelAllOff, MainAt
  <2>2. QED
    BY <1>0, <2>1, SamePlaces
<1>6. CASE DelAll
  <2>1. /\ UNCHANGED <<list, free, fresh>> /\ pc' = "off" /\ pc = "idle"
        /\ node' = [n \in Nodes |-> [node[n] EXCEPT !.act = FALSE]]
    BY <1>6 DEF DelAll, MainAt
  <2>2. \A n \in Nodes : node'[n].act => node[n].act
    <3>1. \A n \in Nodes : node[n] \in Timer
      BY <1>0 DEF TypeOK
    <3>2. QED
      BY <2>1, <3>1 DEF Timer
  <2>3. QED
    BY <1>0, <2>1, <2>2, SamePlaces
<1>7. CASE \E u \in Users : Del(u)
  <2>1. PICK u \in Users : Del(u)
    BY <1>7
  <2>2. /\ UNCHANGED <<list, free, fresh, pc>> /\ pc = "idle" /\ handle[u] \in Nodes
        /\ node' = [node EXCEPT ![handle[u]].act = FALSE]
    BY <1>0, <2>1 DEF Del, MainAt, TypeOK, Nulls
  <2>3. \A n \in Nodes : node'[n].act => node[n].act
    BY <1>0, <2>2, ActKept DEF TypeOK
  <2>4. QED
    BY <1>0, <2>2, <2>3, SamePlaces
<1>8. QED
  BY <1>1, <1>2, <1>3, <1>4, <1>5, <1>6, <1>7 DEF Adding

\* The handler takes nodes from the list to the free list, and never while
\* sh_timeradd has read one and not written it.
LEMMA HandlerPlaces == ASSUME TInv, Handler PROVE Placed'
<1> USE DEF kernel, queue, adding
<1>0. TypeOK /\ Placed /\ frames # <<>>
  BY DEF TInv, Handler, Scan, Scanned, Arm, Run, Acted, Jump, Return, HandlerAt
<1>a. pc # "link"
  BY <1>0 DEF TInv, Inv, AddSaid, Extending
<1>1. CASE Scan
  <2>1. PICK tp, wake, min : \E redo \in BOOLEAN : Walked(tp, redo, wake, min)
    BY <1>0, <1>1, ScanIs
  <2>2. PICK redo \in BOOLEAN : Walked(tp, redo, wake, min)
    BY <2>1
  <2>3. PICK s \in Seq(Nodes) : IsInjective(s) /\ ToSet(s) = Dead /\ free' = s \o free
    BY <2>2 DEF Walked
  <2>4. /\ Dead \subseteq ToSet(list) /\ Active \subseteq ToSet(list) /\ Dead \intersect Active = {}
        /\ ToSet(list) \subseteq Nodes
    BY <1>0, PlaceIs DEF Dead, Active
  <2>5. ToSet(free') = Dead \union ToSet(free) /\ IsInjective(free')
    <3>1. free \in Seq(Nodes) /\ IsInjective(free) /\ Dead \intersect ToSet(free) = {}
      BY <1>0, <2>4 DEF TypeOK, Placed, NodesApart
    <3>2. QED
      BY <2>3, <3>1, Concatenated
  <2>6. IsInjective(list') /\ ToSet(list') = Active
    BY <2>2 DEF Walked
  <2>7. UNCHANGED <<fresh, pc, new, rest>>
    BY <1>1 DEF Scan, Scanned
  <2>8. \A n \in Nodes : node'[n].act = node[n].act
    <3>1. CASE redo
      <4>1. tp \in Nodes /\ wake \in Span /\ node' = [node EXCEPT ![tp].rem = wake]
        BY <2>2, <3>1, Spans, Largest DEF Walked
      <4>2. QED
        BY <1>0, <4>1, ActKept DEF TypeOK
    <3>2. CASE ~redo
      BY <2>2, <3>2 DEF Walked
    <3>3. QED
      BY <3>1, <3>2
  <2>9. NodesApart'
    <3>1. \A n \in Nodes : node'[n].act => n \in Active
      BY <1>0, <1>a, <2>8 DEF Placed, NodesApart, Active
    <3>2. ToSet(list') \intersect ToSet(free') = {}
      BY <1>0, <2>4, <2>5, <2>6 DEF Placed, NodesApart
    <3>3. QED
      BY <2>5, <2>6, <3>1, <3>2 DEF NodesApart
  <2>10. InHand'
    BY <1>0, <1>a, <2>4, <2>5, <2>6, <2>7 DEF Placed, InHand
  <2>11. fresh' \intersect (ToSet(list') \union ToSet(free')) = {}
    BY <1>0, <2>4, <2>5, <2>6, <2>7 DEF Placed
  <2>12. QED
    BY <2>9, <2>10, <2>11 DEF Placed
<1>2. CASE Arm \/ Acted \/ Return
  <2>1. UNCHANGED <<node, list, free, fresh, pc, new, rest>>
    BY <1>2 DEF Arm, Acted, Return
  <2>2. QED
    BY <1>0, <2>1, SamePlaces
<1>3. CASE Run
  <2>1. UNCHANGED <<list, free, fresh, pc, new, rest>> /\ frames[1].tp # NoNode
    BY <1>3 DEF Run
  <2>2. frames[1].tp \in Nodes
    <3>1. frames[1] \in Frame
      BY <1>0, StackTypes DEF TypeOK
    <3>2. QED
      BY <2>1, <3>1 DEF Frame, Nulls
  <2>3. node' = [node EXCEPT ![frames[1].tp].act = FALSE] \/ node' = node
    BY <1>3 DEF Run
  <2>4. \A n \in Nodes : node'[n].act => node[n].act
    BY <1>0, <2>2, <2>3, ActKept DEF TypeOK
  <2>5. QED
    BY <1>0, <2>1, <2>4, SamePlaces
<1>4. CASE Jump
  <2>1. UNCHANGED <<node, list, free, fresh>> /\ pc' = "idle"
    BY <1>4 DEF Jump
  <2>2. QED
    BY <1>0, <1>a, <2>1, SamePlaces
<1>5. QED
  BY <1>1, <1>2, <1>3, <1>4 DEF Handler

LEMMA OtherPlaces == ASSUME TInv, Deliver \/ DeliverBusy \/ Tick \/ UNCHANGED vars PROVE Placed'
<1> USE DEF kernel, queue, adding
<1>1. UNCHANGED <<list, free, fresh, pc, new, rest>>
  BY DEF Deliver, DeliverBusy, Entry, Tick, vars
<1>2. \A n \in Nodes : node'[n].act => node[n].act
  <2>1. CASE Tick
    <3>1. \A n \in Nodes : node[n] \in Timer
      BY DEF TInv, TypeOK
    <3>2. \A n \in Nodes : node'[n] = node[n] \/ node'[n] = [node[n] EXCEPT !.rem = @ - 1]
      BY <2>1 DEF Tick
    <3>3. QED
      BY <3>1, <3>2 DEF Timer
  <2>2. CASE ~Tick
    BY <2>2 DEF Deliver, DeliverBusy, Entry, vars
  <2>3. QED
    BY <2>1, <2>2
<1>3. QED
  BY <1>1, <1>2, SamePlaces DEF TInv

LEMMA TInvHolds == Spec => []TInv
<1>1. Init => TypeOK /\ Shallow /\ Placed
  <2> SUFFICES ASSUME Init PROVE TypeOK /\ Shallow /\ Placed
    OBVIOUS
  <2>1. ToSet(list) = {} /\ ToSet(free) = {} /\ IsInjective(list) /\ IsInjective(free)
    BY DEF Init, ToSet, IsInjective
  <2>2. \A n \in Nodes : ~node[n].act
    BY DEF Init, Null
  <2>3. QED
    BY <2>1, <2>2, InitTypes DEF Init, Shallow, Placed, NodesApart, InHand
<1>2. TInv /\ Inv' /\ [Next]_vars => TInv'
  <2> SUFFICES ASSUME TInv, Inv', [Next]_vars PROVE TInv'
    OBVIOUS
  <2>1. CASE Adding \/ DelAll \/ \E u \in Users : Del(u) \/ \E d \in Delays : AddTake(u, d)
    BY <2>1, MainTypes, MainPlaces, ShallowStep DEF TInv
  <2>2. CASE Handler
    BY <2>2, HandlerTypes, HandlerPlaces, ShallowStep DEF TInv
  <2>3. CASE Deliver \/ DeliverBusy \/ Tick
    BY <2>3, SignalTypes, OtherPlaces, ShallowStep DEF TInv
  <2>4. CASE UNCHANGED vars
    <3>1. TypeOK'
      BY <2>4 DEF TInv, TypeOK, vars
    <3>2. QED
      BY <2>4, <3>1, OtherPlaces, ShallowStep DEF TInv
  <2>5. QED
    BY <2>1, <2>2, <2>3, <2>4 DEF Next
<1>3. QED
  BY <1>1, <1>2, InvHolds, PTL DEF Spec, TInv

(* The timers keep their types: among other things the time that is left to *)
(* a timer and to the alarm stays within what callers ask for, and there is *)
(* always an activation left for a handler an alarm starts.                 *)
THEOREM TypeCorrect == Spec => []TypeOK
<1>1. TInv => TypeOK
  BY DEF TInv
<1>2. QED
  BY <1>1, TInvHolds, PTL

(* A Timer_t is in one list at most, once, and none that is set is out of   *)
(* the list: the handler may free nodes between the two steps in which      *)
(* sh_timeradd takes one from tpfree, but is kept out of those in which it  *)
(* links it at tptop.                                                       *)
THEOREM NodesApartHolds == Spec => []NodesApart
<1>1. TInv => NodesApart
  BY DEF TInv, Placed
<1>2. QED
  BY <1>1, TInvHolds, PTL

-----------------------------------------------------------------------------
(***************************************************************************)
(* When time stands still in the code (~cast.slow) an alarm comes between  *)
(* two commands, or from the kill of sh_timeradd, and finds no handler at  *)
(* work.  What is to be shown is that SIGALRM has its handler while the    *)
(* interval timer runs: the handler gives the signal back when no timer is *)
(* left, and then the interval timer must not run on.                      *)
(***************************************************************************)
AtRest == /\ pending \/ frames # <<>> => pc \in {"idle", "killed"}
          /\ Len(frames) <= 1 /\ (pending => frames = <<>>)

Flags == /\ "add" \in time_state => pc \in {"link", "arm", "clear"}
         /\ "defer" \in time_state => pc \in {"clear", "test"}
         /\ "call" \in time_state => pc = "kill" \/ (pc = "killed" /\ pending)
         /\ "alarm" \in time_state => frames # <<>> /\ frames[1].pc # "acting"

Taken == tpmin # NoNode \/ frames # <<>> \/ pc = "kill" \/ "defer" \in time_state \/ pending
           => disp = "sigalrm"

\* Some timer that is set is not due yet.
Awake == \E n \in Nodes : node[n].act /\ node[n].rem > 0 /\ n \in ToSet(list)

\* While the interval timer runs there is a timer it runs for: tpmin, or for a
\* handler that has still to look for it, one it will find.
Clock ==
  /\ itimer # 0 /\ (frames = <<>> \/ frames[1].pc # "scan") => tpmin # NoNode
  /\ itimer # 0 /\ frames # <<>> => Awake
  /\ frames # <<>> /\ frames[1].pc = "arm" /\ tpmin # NoNode => Awake
  /\ frames # <<>> /\ frames[1].pc # "scan" /\ Awake => tpmin # NoNode
  /\ frames # <<>> /\ frames[1].pc \in {"arm", "run"} /\ frames[1].tp # NoNode
       /\ node[frames[1].tp].incr = 0 => node[frames[1].tp].rem <= 0

\* The timer of sh_timeradd lives until it returns.
NewLives ==
  pc \in {"link", "arm", "clear", "test", "kill", "killed", "return"} =>
    /\ new \in Nodes /\ node[new].act /\ node[new].rem > 0 /\ node[new].user = want.user
    /\ pc # "link" => new \in ToSet(list)

Own == \A u \in Users : handle[u] # NoNode => node[handle[u]].user = u /\ node[handle[u]].act

Calm == AtRest /\ Flags /\ Taken /\ Clock /\ NewLives /\ Own
CInv == ~cast.slow => Calm

LEMMA CalmMain ==
  ASSUME TInv, Calm,
         Adding \/ DelAll \/ \E u \in Users : Del(u) \/ \E d \in Delays : AddTake(u, d)
  PROVE  Calm'
<1> USE DEF kernel, queue, adding
<1>0. TypeOK /\ Placed /\ AtRest /\ Flags /\ Taken /\ Clock /\ NewLives /\ Own
  BY DEF TInv, Calm
<1>a. frames = <<>> /\ frames' = <<>> /\ ~pending /\ Len(frames') = 0
  <2>1. frames = <<>> /\ frames' = <<>> /\ ~pending
    BY DEF Adding, AddTake, AddPop, AddFill, Filled, AddLink, AddArm, AddClear, AddTest,
           AddKill, AddReturn, Del, DelAll, DelAllOff, MainAt, Ready
  <2>2. QED
    BY <2>1
<1>b. itimer # 0 => tpmin # NoNode
  BY <1>0, <1>a DEF Clock
<1>1. CASE \E u \in Users, d \in Delays : AddTake(u, d)
  <2>1. /\ pc = "idle" /\ pc' \in {"pop", "fill"}
        /\ UNCHANGED <<node, list, tpmin, time_state, kernel, handle>>
    BY <1>1 DEF AddTake, MainAt
  <2>2. AtRest' /\ Flags' /\ Taken' /\ Clock' /\ NewLives' /\ Own'
    BY <1>0, <1>a, <1>b, <2>1 DEF AtRest, Flags, Taken, Clock, NewLives, Own
  <2>3. QED
    BY <2>2 DEF Calm
<1>2. CASE AddPop
  <2>1. /\ pc = "pop" /\ pc' = "fill"
        /\ UNCHANGED <<node, list, tpmin, time_state, kernel, handle>>
    BY <1>2 DEF AddPop, MainAt
  <2>2. AtRest' /\ Flags' /\ Taken' /\ Clock' /\ NewLives' /\ Own'
    BY <1>0, <1>a, <1>b, <2>1 DEF AtRest, Flags, Taken, Clock, NewLives, Own
  <2>3. QED
    BY <2>2 DEF Calm
<1>3. CASE AddFill
  <2>1. /\ pc = "fill" /\ pc' = "link" /\ time_state' = time_state \union {"add"}
        /\ UNCHANGED <<list, tpmin, kernel, handle, new, want>>
    BY <1>3 DEF AddFill, Filled, MainAt
  <2>2. new \in Nodes /\ new \notin ToSet(list) /\ ~node[new].act
    BY <1>0, <2>1 DEF Placed, InHand, NodesApart
  <2>3. /\ \A n \in Nodes \ {new} : node'[n] = node[n]
        /\ node'[new].act /\ node'[new].rem = want.delay /\ node'[new].user = want.user
    BY <1>0, <1>3, <2>2 DEF AddFill, Filled, TypeOK
  <2>4. want.delay > 0
    <3>1. want.delay \in Delays
      BY <1>0 DEF TypeOK
    <3>2. want.delay \in 1..LargestDelay
      BY <3>1, Largest
    <3>3. QED
      BY <3>2, Largest
  <2>5. NewLives'
    BY <2>1, <2>2, <2>3, <2>4 DEF NewLives
  <2>6. Own'
    <3> SUFFICES ASSUME NEW u \in Users, handle[u] # NoNode
                 PROVE  node'[handle[u]].user = u /\ node'[handle[u]].act
      BY <2>1 DEF Own
    <3>1. handle[u] \in Nodes /\ node[handle[u]].user = u /\ node[handle[u]].act
      BY <1>0 DEF Own, TypeOK, Nulls
    <3>2. QED
      BY <2>2, <2>3, <3>1
  <2>7. AtRest' /\ Flags' /\ Taken' /\ Clock'
    BY <1>0, <1>a, <1>b, <2>1 DEF AtRest, Flags, Taken, Clock
  <2>8. QED
    BY <2>5, <2>6, <2>7 DEF Calm
<1>4. CASE AddLink
  <2>1. /\ pc = "link" /\ pc' = "arm" /\ list' = <<new>> \o rest
        /\ UNCHANGED <<node, tpmin, time_state, kernel, handle, new, want>>
    BY <1>4 DEF AddLink, MainAt
  <2>2. new \in Nodes /\ rest \in Seq(Nodes)
    BY <1>0, <2>1 DEF Placed, InHand, TypeOK
  <2>3. new \in ToSet(list')
    <3>1. 1 \in DOMAIN list' /\ list'[1] = new
      BY <2>1, <2>2
    <3>2. QED
      BY <3>1 DEF ToSet
  <2>4. NewLives'
    BY <1>0, <2>1, <2>3 DEF NewLives
  <2>5. AtRest' /\ Flags' /\ Taken' /\ Clock' /\ Own'
    BY <1>0, <1>a, <1>b, <2>1 DEF AtRest, Flags, Taken, Clock, Own
  <2>6. QED
    BY <2>4, <2>5 DEF Calm
<1>5. CASE AddArm
  <2>1. /\ pc = "arm" /\ pc' = "clear"
        /\ UNCHANGED <<node, list, pending, handle, new, want>>
        /\ \/ tpmin' = new /\ disp' = "sigalrm" /\ time_state' = time_state
           \/ /\ tpmin # NoNode /\ UNCHANGED <<tpmin, disp, itimer>>
              /\ time_state' \in {time_state, time_state \union {"defer"}}
    BY <1>5 DEF AddArm, MainAt, Sooner
  <2>2. new # NoNode
    BY <1>0, <2>1, NodesAssumption DEF NewLives
  <2>3. Taken' /\ Clock'
    BY <1>0, <1>a, <1>b, <2>1, <2>2 DEF Taken, Clock
  <2>4. AtRest' /\ Flags' /\ NewLives' /\ Own'
    BY <1>0, <1>a, <2>1 DEF AtRest, Flags, NewLives, Own
  <2>5. QED
    BY <2>3, <2>4 DEF Calm
<1>6. CASE AddClear
  <2>1. /\ pc = "clear" /\ pc' = "test" /\ time_state' = time_state \ {"add"}
        /\ UNCHANGED <<node, list, tpmin, kernel, handle, new, want>>
    BY <1>6 DEF AddClear, MainAt
  <2>2. AtRest' /\ Flags' /\ Taken' /\ Clock' /\ NewLives' /\ Own'
    BY <1>0, <1>a, <1>b, <2>1 DEF AtRest, Flags, Taken, Clock, NewLives, Own
  <2>3. QED
    BY <2>2 DEF Calm
<1>7. CASE AddTest
  <2>1. /\ pc = "test"
        /\ \/ "defer" \in time_state /\ time_state' = {"call"} /\ pc' = "kill"
           \/ "defer" \notin time_state /\ time_state' = time_state /\ pc' = "return"
        /\ UNCHANGED <<node, list, tpmin, kernel, handle, new, want>>
    BY <1>7 DEF AddTest, MainAt
  <2>2. AtRest' /\ Flags' /\ Taken' /\ Clock' /\ NewLives' /\ Own'
    BY <1>0, <1>a, <1>b, <2>1 DEF AtRest, Flags, Taken, Clock, NewLives, Own
  <2>3. QED
    BY <2>2 DEF Calm
<1>8. CASE AddKill
  <2>1. /\ pc = "kill" /\ pc' = "killed" /\ pending' = TRUE
        /\ UNCHANGED <<node, list, tpmin, time_state, itimer, disp, handle, new, want>>
    BY <1>8 DEF AddKill, MainAt
  <2>2. AtRest' /\ Flags' /\ Taken' /\ Clock' /\ NewLives' /\ Own'
    BY <1>0, <1>a, <1>b, <2>1 DEF AtRest, Flags, Taken, Clock, NewLives, Own
  <2>3. QED
    BY <2>2 DEF Calm
<1>9. CASE AddReturn
  <2>1. /\ pc \in {"return", "killed"} /\ pc' = "idle"
        /\ handle' \in {[handle EXCEPT ![want.user] = NoNode], [handle EXCEPT ![want.user] = new]}
        /\ UNCHANGED <<node, list, tpmin, time_state, kernel>>
    BY <1>9 DEF AddReturn, MainAt
  <2>2. want.user \in Users /\ handle \in [Users -> Nulls]
    BY <1>0 DEF TypeOK
  <2>3. Own'
    BY <1>0, <2>1, <2>2 DEF Own, NewLives
  <2>4. AtRest' /\ Flags' /\ Taken' /\ Clock' /\ NewLives'
    BY <1>0, <1>a, <1>b, <2>1 DEF AtRest, Flags, Taken, Clock, NewLives
  <2>5. QED
    BY <2>3, <2>4 DEF Calm
<1>10. CASE DelAll \/ DelAllOff
  <2>1. /\ pc' = "off" /\ pc = "idle" /\ handle' = [u \in Users |-> NoNode] /\ UNCHANGED <<tpmin, kernel>>
        \/ /\ pc = "off" /\ pc' = "idle" /\ itimer' = 0 /\ tpmin' = NoNode
           /\ UNCHANGED <<node, handle, pending>>
    BY <1>b, <1>10 DEF DelAll, DelAllOff, MainAt
  <2>2. UNCHANGED <<list, time_state>>
    BY <1>10 DEF DelAll, DelAllOff
  <2>3. Own'
    BY <1>0, <2>1 DEF Own
  <2>4. AtRest' /\ Flags' /\ NewLives' /\ Taken' /\ Clock'
    BY <1>0, <1>a, <1>b, <2>1, <2>2 DEF AtRest, Flags, Taken, Clock, NewLives
  <2>5. QED
    BY <2>3, <2>4 DEF Calm
<1>11. CASE \E u \in Users : Del(u)
  <2>1. PICK u \in Users : Del(u)
    BY <1>11
  <2>2. /\ pc = "idle" /\ pc' = pc /\ handle[u] # NoNode
        /\ node' = [node EXCEPT ![handle[u]].act = FALSE]
        /\ handle' = [handle EXCEPT ![u] = NoNode]
        /\ UNCHANGED <<list, tpmin, time_state, kernel>>
    BY <2>1 DEF Del, MainAt
  <2>3. Own'
    <3> SUFFICES ASSUME NEW v \in Users, handle'[v] # NoNode
                 PROVE  node'[handle'[v]].user = v /\ node'[handle'[v]].act
      BY DEF Own
    <3>1. v # u /\ handle'[v] = handle[v] /\ handle[v] \in Nodes
      BY <1>0, <2>2 DEF TypeOK, Nulls
    <3>2. node[handle[v]].user = v /\ node[handle[v]].act /\ node[handle[u]].user = u
      BY <1>0, <2>2, <3>1 DEF Own
    <3>3. handle[v] # handle[u]
      BY <3>1, <3>2
    <3>4. node'[handle[v]] = node[handle[v]]
      BY <1>0, <2>2, <3>1, <3>3 DEF TypeOK
    <3>5. QED
      BY <3>1, <3>2, <3>4
  <2>4. AtRest' /\ Flags' /\ NewLives' /\ Taken' /\ Clock'
    BY <1>0, <1>a, <1>b, <2>2 DEF AtRest, Flags, Taken, Clock, NewLives
  <2>5. QED
    BY <2>3, <2>4 DEF Calm
<1>12. QED
  BY <1>1, <1>2, <1>3, <1>4, <1>5, <1>6, <1>7, <1>8, <1>9, <1>10, <1>11 DEF Adding

\* A walk changes no timer but the one that is due longest, and of that only
\* the time that is left to it.
LEMMA WalkedNodes ==
  ASSUME TypeOK, NEW tp, NEW wake, NEW min, NEW redo \in BOOLEAN, Walked(tp, redo, wake, min)
  PROVE  /\ \A n \in Nodes : /\ node'[n].act = node[n].act /\ node'[n].user = node[n].user
                             /\ node'[n].incr = node[n].incr
                             /\ n # tp \/ ~redo => node'[n] = node[n]
         /\ redo => node[tp].incr # 0 /\ tp \in Nodes
         /\ tp # NoNode => tp \in Nodes /\ node[tp].rem <= 0
<1>1. CASE redo
  <2>1. tp \in Nodes /\ wake \in Span /\ node' = [node EXCEPT ![tp].rem = wake] /\ node[tp].incr # 0
    BY <1>1, Spans, Largest DEF Walked
  <2>2. \A n \in Nodes : node[n] \in Timer
    BY DEF TypeOK
  <2>3. \A n \in Nodes : node'[n] = IF n = tp THEN [node[n] EXCEPT !.rem = wake] ELSE node[n]
    BY <2>1 DEF TypeOK
  <2>4. QED
    BY <2>1, <2>2, <2>3, <1>1 DEF Timer, Walked
<1>2. CASE ~redo
  BY <1>2 DEF Walked
<1>3. QED
  BY <1>1, <1>2

LEMMA CalmScan == ASSUME TInv, Calm, Scan PROVE Calm'
<1> USE DEF kernel, queue, adding
<1>0. TypeOK /\ AtRest /\ Flags /\ Taken /\ Clock /\ NewLives /\ Own /\ TypeOK /\ ToSet(list) \subseteq Nodes
  BY PlaceIs DEF TInv, Calm
<1>1. /\ ~pending /\ frames # <<>> /\ frames[1].pc = "scan"
      /\ UNCHANGED <<time_state, kernel, pc, new, want, handle>>
  BY DEF Scan, Scanned, HandlerAt, Ready
<1>2. PICK tp, wake, min : \E redo \in BOOLEAN : Walked(tp, redo, wake, min)
  BY <1>0, ScanIs
<1>3. PICK redo \in BOOLEAN : Walked(tp, redo, wake, min)
  BY <1>2
<1>4. /\ \A n \in Nodes : /\ node'[n].act = node[n].act /\ node'[n].user = node[n].user
                          /\ node'[n].incr = node[n].incr
                          /\ n # tp \/ ~redo => node'[n] = node[n]
      /\ redo => node[tp].incr # 0 /\ tp \in Nodes
      /\ tp # NoNode => tp \in Nodes /\ node[tp].rem <= 0
  BY <1>0, <1>3, WalkedNodes
<1>5. /\ ToSet(list') = Active /\ min \in Active \union {NoNode} /\ tpmin' = min
      /\ min # NoNode => node'[min].rem \in 1..LargestDelay
      /\ min = NoNode => ~redo /\ Active = Due
      /\ tp # NoNode /\ ~redo => node[tp].incr = 0
  BY <1>3 DEF Walked
<1>6. frames' # <<>> /\ Len(frames') = Len(frames) /\ frames'[1].pc = "arm" /\ frames'[1].tp = tp
  <2>1. \E g : frames' = [frames EXCEPT ![1] = [pc |-> "arm", tp |-> tp, gap |-> g]]
    BY <1>3 DEF Walked
  <2>2. frames \in Seq(Frame)
    BY <1>0 DEF TypeOK
  <2>3. QED
    BY <1>1, <2>1, <2>2
<1>7. \A n \in Nodes : node[n].rem \in Int
  <2>1. \A n \in Nodes : node[n].rem \in Span
    BY <1>0 DEF TypeOK, Timer
  <2>2. QED
    BY <2>1, Spans
<1>8. \A n \in Nodes : node[n].act /\ node[n].rem > 0 /\ n \in ToSet(list)
         => n # tp /\ node'[n] = node[n] /\ n \in ToSet(list') /\ Active # Due
  <2> SUFFICES ASSUME NEW n \in Nodes, node[n].act, node[n].rem > 0, n \in ToSet(list)
               PROVE  n # tp /\ node'[n] = node[n] /\ n \in ToSet(list') /\ Active # Due
    OBVIOUS
  <2>1. ~(node[n].rem <= 0)
    BY <1>7
  <2>2. n # tp
    BY <1>4, <2>1, NodesAssumption
  <2>3. n \in Active /\ n \notin Due
    BY <2>1 DEF Active, Due
  <2>4. QED
    BY <1>4, <1>5, <2>2, <2>3
<1>9. Awake => Awake' /\ min # NoNode
  BY <1>5, <1>8 DEF Awake
<1>10. min # NoNode => Awake'
  <2> SUFFICES ASSUME min # NoNode PROVE Awake'
    OBVIOUS
  <2>1. min \in Nodes /\ min \in ToSet(list') /\ node[min].act /\ node'[min].rem \in 1..LargestDelay
    BY <1>0, <1>5 DEF Active
  <2>2. node'[min].rem > 0 /\ node'[min].act
    BY <1>4, <2>1, Largest
  <2>3. QED
    BY <2>1, <2>2 DEF Awake
<1>11. min = NoNode => ~Awake'
  <2> SUFFICES ASSUME min = NoNode, NEW n \in Nodes, node'[n].act, node'[n].rem > 0, n \in ToSet(list')
               PROVE  FALSE
    BY DEF Awake
  <2>1. n \in Due /\ node'[n] = node[n]
    BY <1>4, <1>5
  <2>2. node[n].rem <= 0 /\ node[n].rem \in Int
    BY <1>7, <2>1 DEF Due
  <2>3. QED
    BY <2>1, <2>2
<1>12. Clock'
  <2>1. itimer' # 0 => tpmin' # NoNode /\ Awake'
    BY <1>0, <1>1, <1>5, <1>9 DEF Clock
  <2>2. tp # NoNode /\ node'[tp].incr = 0 => node'[tp].rem <= 0
    BY <1>4
  <2>3. QED
    BY <1>5, <1>6, <1>10, <1>11, <2>1, <2>2 DEF Clock
<1>13. NewLives'
  <2>1. pc \in {"idle", "killed"}
    BY <1>0, <1>1 DEF AtRest
  <2>2. QED
    BY <1>0, <1>1, <1>8, <2>1 DEF NewLives
<1>14. Own'
  <2>1. \A u \in Users : handle[u] # NoNode => handle[u] \in Nodes
    BY <1>0 DEF TypeOK, Nulls
  <2>2. QED
    BY <1>0, <1>1, <1>4, <2>1 DEF Own
<1>15. AtRest' /\ Flags' /\ Taken'
  BY <1>0, <1>1, <1>6 DEF AtRest, Flags, Taken
<1>16. QED
  BY <1>12, <1>13, <1>14, <1>15 DEF Calm

LEMMA CalmHandler == ASSUME TInv, Calm, Handler PROVE Calm'
<1> USE DEF kernel, queue, adding
<1>0. TypeOK /\ AtRest /\ Flags /\ Taken /\ Clock /\ NewLives /\ Own
  BY DEF TInv, Calm
<1>a. ~pending /\ frames # <<>> /\ pending' = pending
  BY DEF Handler, Scan, Scanned, Arm, Run, Acted, Jump, Return, HandlerAt, Ready
<1>b. /\ frames \in Seq(Frame) /\ frames[1] \in Frame /\ Len(frames) = 1
      /\ pc \in {"idle", "killed"} /\ disp = "sigalrm"
  <2>1. frames \in Seq(Frame) /\ frames[1] \in Frame /\ Len(frames) \in Nat \ {0}
    BY <1>0, <1>a, StackTypes DEF TypeOK
  <2>2. Len(frames) = 1
    <3>1. Len(frames) <= 1
      BY <1>0 DEF AtRest
    <3> DEFINE size == Len(frames)
    <3>2. size \in Nat \ {0} /\ size <= 1
      BY <2>1, <3>1
    <3> HIDE DEF size
    <3>3. size = 1
      BY <3>2
    <3>4. QED
      BY <3>3 DEF size
  <2>3. QED
    BY <1>0, <1>a, <2>1, <2>2 DEF AtRest, Taken
<1>1. CASE Scan
  BY <1>1, CalmScan
<1>2. CASE Arm
  <2>1. /\ frames[1].pc = "arm" /\ UNCHANGED <<node, list, tpmin, time_state, pc, new, want, handle>>
        /\ frames' = [frames EXCEPT ![1] = [frames[1] EXCEPT !.pc = "run"]]
        /\ disp' \in {disp, "sigalrm"}
        /\ tpmin # NoNode \/ itimer' = itimer
    BY <1>2 DEF Arm, HandlerAt
  <2>2. frames' # <<>> /\ Len(frames') = 1 /\ frames'[1].pc = "run" /\ frames'[1].tp = frames[1].tp
    <3>1. LET x == [frames[1] EXCEPT !.pc = "run"]
          IN  x \in Frame /\ x.pc = "run" /\ x.tp = frames[1].tp
      BY <1>b DEF Frame
    <3>2. QED
      BY <1>a, <1>b, <2>1, <3>1
  <2>3. Clock'
    <3>1. itimer' # 0 => tpmin # NoNode /\ Awake
      BY <1>0, <1>a, <2>1 DEF Clock
    <3>2. Awake' <=> Awake
      BY <2>1 DEF Awake
    <3>3. QED
      BY <1>0, <1>a, <2>1, <2>2, <3>1, <3>2 DEF Clock
  <2>4. AtRest' /\ Flags' /\ Taken' /\ NewLives' /\ Own'
    BY <1>0, <1>a, <1>b, <2>1, <2>2 DEF AtRest, Flags, Taken, NewLives, Own
  <2>5. QED
    BY <2>3, <2>4 DEF Calm
<1>3. CASE Run
  <2> DEFINE n == frames[1].tp
  <2>1. /\ frames[1].pc = "run" /\ n # NoNode
        /\ UNCHANGED <<list, tpmin, itimer, disp, pc, new, want>> /\ time_state' = time_state \ {"alarm"}
        /\ frames' = [frames EXCEPT ![1] = [frames[1] EXCEPT !.pc = "acting"]]
        /\ \/ /\ node[n].incr = 0 /\ node' = [node EXCEPT ![n].act = FALSE]
              /\ handle' = [handle EXCEPT ![node[n].user] = NoNode]
           \/ UNCHANGED <<node, handle>>
    BY <1>3 DEF Run, HandlerAt
  <2>2. frames' # <<>> /\ Len(frames') = 1 /\ frames'[1].pc = "acting"
    <3>1. LET x == [frames[1] EXCEPT !.pc = "acting"]
          IN  x \in Frame /\ x.pc = "acting"
      BY <1>b DEF Frame
    <3>2. QED
      BY <1>a, <1>b, <2>1, <3>1
  <2>3. n \in Nodes /\ (node[n].incr = 0 => node[n].rem <= 0)
    BY <1>0, <1>a, <1>b, <2>1 DEF Clock, Frame, Nulls
  <2> HIDE DEF n
  <2>4. /\ \A m \in Nodes : m # n => node'[m] = node[m]
        /\ \A m \in Nodes : node'[m].act => node'[m] = node[m]
        /\ \A m \in Nodes : node[m].rem > 0 => node'[m] = node[m]
    <3>1. CASE node' = node
      BY <3>1
    <3>2. CASE node[n].incr = 0 /\ node' = [node EXCEPT ![n].act = FALSE]
      <4>1. node[n] \in Timer /\ ~[node[n] EXCEPT !.act = FALSE].act
        BY <1>0, <2>3 DEF TypeOK, Timer
      <4>2. \A m \in Nodes : node'[m] = IF m = n THEN [node[n] EXCEPT !.act = FALSE] ELSE node[m]
        BY <1>0, <2>3, <3>2 DEF TypeOK
      <4>3. ~(node[n].rem > 0)
        <5>1. node[n].rem \in Int
          BY <4>1, Spans DEF Timer
        <5>2. QED
          BY <2>3, <3>2, <5>1
      <4>4. QED
        BY <4>1, <4>2, <4>3
    <3>3. QED
      BY <2>1, <3>1, <3>2
  <2>5. Awake => Awake'
    BY <2>1, <2>4 DEF Awake
  <2>6. Awake' => Awake
    BY <2>1, <2>4 DEF Awake
  <2>7. Clock'
    <3>1. itimer' # 0 => tpmin' # NoNode /\ Awake'
      BY <1>0, <1>a, <2>1, <2>5 DEF Clock
    <3>2. QED
      BY <1>0, <1>a, <2>1, <2>2, <2>6, <3>1 DEF Clock
  <2>8. NewLives'
    BY <1>0, <1>b, <2>1, <2>4 DEF NewLives
  <2>9. Own'
    <3>1. CASE UNCHANGED <<node, handle>>
      BY <1>0, <3>1 DEF Own
    <3>2. CASE /\ node[n].incr = 0 /\ node' = [node EXCEPT ![n].act = FALSE]
               /\ handle' = [handle EXCEPT ![node[n].user] = NoNode]
      <4> SUFFICES ASSUME NEW v \in Users, handle'[v] # NoNode
                   PROVE  node'[handle'[v]].user = v /\ node'[handle'[v]].act
        BY DEF Own
      <4>1. v # node[n].user /\ handle'[v] = handle[v] /\ handle[v] \in Nodes
        BY <1>0, <3>2 DEF TypeOK, Nulls
      <4>2. node[handle[v]].user = v /\ node[handle[v]].act
        BY <1>0, <4>1 DEF Own
      <4>3. node'[handle[v]] = node[handle[v]]
        BY <2>4, <4>1, <4>2
      <4>4. QED
        BY <4>1, <4>2, <4>3
    <3>3. QED
      BY <2>1, <3>1, <3>2
  <2>10. AtRest' /\ Flags' /\ Taken'
    BY <1>0, <1>a, <1>b, <2>1, <2>2 DEF AtRest, Flags, Taken
  <2>11. QED
    BY <2>7, <2>8, <2>9, <2>10 DEF Calm
<1>4. CASE Acted
  <2>1. /\ frames' = [frames EXCEPT ![1] = [pc |-> "scan", tp |-> NoNode, gap |-> 0]]
        /\ UNCHANGED <<node, list, tpmin, itimer, disp, pc, new, want, handle>>
        /\ time_state' = time_state \union {"alarm"}
    BY <1>4 DEF Acted
  <2>2. frames' # <<>> /\ Len(frames') = 1 /\ frames'[1].pc = "scan"
    BY <1>a, <1>b, <2>1
  <2>3. Clock'
    BY <1>0, <1>a, <2>1, <2>2 DEF Clock, Awake
  <2>4. AtRest' /\ Flags' /\ Taken' /\ NewLives' /\ Own'
    BY <1>0, <1>a, <1>b, <2>1, <2>2 DEF AtRest, Flags, Taken, NewLives, Own
  <2>5. QED
    BY <2>3, <2>4 DEF Calm
<1>5. CASE Jump
  <2>1. /\ frames' = <<>> /\ frames[1].pc = "acting" /\ pc' = "idle"
        /\ UNCHANGED <<node, list, tpmin, itimer, disp, time_state, handle>>
    BY <1>5 DEF Jump, HandlerAt
  <2>2. Len(frames') = 0
    BY <2>1
  <2>3. AtRest' /\ Flags' /\ Taken' /\ Clock' /\ NewLives' /\ Own'
    BY <1>0, <1>a, <1>b, <2>1, <2>2 DEF AtRest, Flags, Taken, Clock, NewLives, Own
  <2>4. QED
    BY <2>3 DEF Calm
<1>6. CASE Return
  <2>1. /\ frames[1].pc = "run" /\ frames' = Tail(frames)
        /\ disp' = IF tpmin = NoNode THEN "default" ELSE disp
        /\ time_state' = time_state \ {"alarm"}
        /\ UNCHANGED <<node, list, tpmin, itimer, pc, new, want, handle>>
    BY <1>6 DEF Return, HandlerAt
  <2>2. frames' = <<>> /\ Len(frames') = 0
    BY <1>b, <2>1
  <2>3. AtRest' /\ Flags' /\ Taken' /\ Clock' /\ NewLives' /\ Own'
    BY <1>0, <1>a, <1>b, <2>1, <2>2 DEF AtRest, Flags, Taken, Clock, NewLives, Own
  <2>4. QED
    BY <2>3 DEF Calm
<1>7. QED
  BY <1>1, <1>2, <1>3, <1>4, <1>5, <1>6 DEF Handler

LEMMA CalmSignal ==
  ASSUME TInv, Calm, ~cast.slow, Deliver \/ DeliverBusy \/ Tick
  PROVE  Calm'
<1> USE DEF kernel, queue, adding
<1>0. TypeOK /\ AtRest /\ Flags /\ Taken /\ Clock /\ NewLives /\ Own
  BY DEF TInv, Calm
<1>1. CASE Deliver \/ DeliverBusy
  <2>1. pending /\ frames = <<>> /\ pc \in {"idle", "killed"}
    BY <1>0, <1>1 DEF Deliver, DeliverBusy, Entry, AtRest
  <2>2. Called = {}
    BY <1>0, <2>1 DEF Flags, Called, TypeOK
  <2>3. /\ frames' = <<[pc |-> "scan", tp |-> NoNode, gap |-> 0]>> \o frames
        /\ time_state' = {"alarm"} /\ pending' = FALSE /\ disp = "sigalrm" /\ disp' = disp
        /\ itimer' = IF "call" \in time_state THEN itimer ELSE 0
        /\ UNCHANGED <<node, list, tpmin, pc, new, want, handle>>
    BY <1>1, <2>2 DEF Deliver, DeliverBusy, Entry
  <2>4. frames' # <<>> /\ Len(frames') = 1 /\ frames'[1].pc = "scan"
    BY <2>1, <2>3
  <2>5. itimer' # 0 => Awake'
    BY <1>0, <2>1, <2>3 DEF Flags, NewLives, Awake
  <2>6. AtRest' /\ Flags' /\ Taken' /\ Clock' /\ NewLives' /\ Own'
    BY <1>0, <2>1, <2>3, <2>4, <2>5 DEF AtRest, Flags, Taken, Clock, NewLives, Own
  <2>7. QED
    BY <2>6 DEF Calm
<1>2. CASE Tick
  <2>1. /\ frames = <<>> /\ pc = "idle"
        /\ UNCHANGED <<list, tpmin, time_state, disp, frames, pc, new, want, handle>>
        /\ itimer' = IF itimer = 0 THEN 0 ELSE itimer - 1
        /\ pending' = (pending \/ itimer = 1)
    BY <1>2 DEF Tick, Quick
  <2>2. \A n \in Nodes : node'[n].user = node[n].user /\ node'[n].act = node[n].act
    <3>1. \A n \in Nodes : node[n] \in Timer
      BY <1>0 DEF TypeOK
    <3>2. \A n \in Nodes : node'[n] = node[n] \/ node'[n] = [node[n] EXCEPT !.rem = @ - 1]
      BY <1>2 DEF Tick
    <3>3. QED
      BY <3>1, <3>2 DEF Timer
  <2>3. Own'
    <3>1. \A u \in Users : handle[u] # NoNode => handle[u] \in Nodes
      BY <1>0 DEF TypeOK, Nulls
    <3>2. QED
      BY <1>0, <2>1, <2>2, <3>1 DEF Own
  <2>4. itimer' # 0 \/ (pending' /\ ~pending) => itimer # 0
    <3>1. itimer = 0 => itimer' = 0 /\ ~(itimer = 1)
      BY <2>1
    <3>2. pending' /\ ~pending => itimer = 1
      BY <2>1, <1>0 DEF TypeOK
    <3>3. QED
      BY <3>1, <3>2
  <2>5. Taken'
    BY <1>0, <2>1, <2>4 DEF Taken, Clock
  <2>6. AtRest' /\ Flags' /\ Clock' /\ NewLives'
    BY <1>0, <2>1, <2>4 DEF AtRest, Flags, Clock, NewLives
  <2>7. QED
    BY <2>3, <2>5, <2>6 DEF Calm
<1>3. QED
  BY <1>1, <1>2

LEMMA CInvHolds == Spec => []CInv
<1>1. Init => CInv
  <2> SUFFICES ASSUME Init PROVE Calm
    BY DEF CInv
  <2>1. frames = <<>> /\ Len(frames) = 0
    BY DEF Init
  <2>2. AtRest /\ Flags /\ Taken /\ Clock /\ NewLives /\ Own
    BY <2>1 DEF Init, AtRest, Flags, Taken, Clock, NewLives, Own
  <2>3. QED
    BY <2>2 DEF Calm
<1>2. CInv /\ TInv /\ [Next]_vars => CInv'
  <2> SUFFICES ASSUME Calm, TInv, [Next]_vars, ~cast.slow PROVE Calm'
    BY CastFixed DEF CInv
  <2>1. CASE UNCHANGED vars
    BY <2>1 DEF vars, Calm, AtRest, Flags, Taken, Clock, Awake, NewLives, Own
  <2>2. QED
    BY <2>1, CalmMain, CalmHandler, CalmSignal DEF Next
<1>3. QED
  BY <1>1, <1>2, TInvHolds, PTL DEF Spec

(* As long as time stands still in the code, SIGALRM has its handler while  *)
(* an alarm is set or on its way, whatever timers are added, deleted,       *)
(* repeated or left by sh_exit: the default would end the shell.            *)
THEOREM HandledHolds == Spec => []Handled
<1>1. CInv => Handled
  BY DEF CInv, Calm, Taken, Clock, Handled
<1>2. QED
  BY <1>1, CInvHolds, PTL

(* As long as time stands still in the code, the handle that a caller keeps *)
(* is that of its own timer and of one that is set, so that timerdel stops  *)
(* no other, though nodes are used again.                                   *)
THEOREM OwnHandleHolds == Spec => []OwnHandle
<1>1. CInv => OwnHandle
  BY DEF CInv, Calm, Own, OwnHandle
<1>2. QED
  BY <1>1, CInvHolds, PTL
=============================================================================
