------------------------------- MODULE Timers -------------------------------
(***************************************************************************)
(* The timer queue of ksh93 (sh/timers.c): sh_timeradd and timerdel, which *)
(* the main program calls, and the SIGALRM handler sigalrm, which runs the *)
(* actions of the timers that are due.  All timers share one interval      *)
(* timer, set for tpmin, the timer that is due next.                       *)
(*                                                                         *)
(* The handler may start between any two steps of the main program and,    *)
(* because it unblocks SIGALRM, between any two of its own.  Time is       *)
(* counted in ticks, and a timer by the ticks that are left.  The actions  *)
(* start no timer themselves.                                              *)
(***************************************************************************)
EXTENDS Integers, SequencesExt

CONSTANTS
  Users,      \* callers of sh_timeradd, each with one timer at a time
  Repeats,    \* those whose timer repeats
  Jumpers,    \* those whose action leaves by sh_exit (read -t)
  Nodes,      \* Timer_t structures malloc may return
  NoNode,     \* a null pointer
  Delays,     \* what a caller may ask for
  Casts       \* what differs between behaviours: the callers there are (users),
              \* whether time may pass inside the handler and sh_timeradd (slow)
              \* and two bounds, the structures malloc has (nodes) and the
              \* handlers inside the actions of handlers (nest)

Late == 1     \* bound: a timer is not followed further than this past its time

ASSUME UsersAssumption  == /\ Users # {} /\ Repeats \subseteq Users
                           /\ Jumpers \subseteq Users \ Repeats
ASSUME NodesAssumption  == NoNode \notin Nodes
ASSUME DelaysAssumption == /\ Delays \subseteq Nat \ {0}
                           /\ \E d \in Delays : \A e \in Delays : e <= d
ASSUME CastsAssumption  ==
  Casts \subseteq [users : SUBSET Users, slow : BOOLEAN, nodes : SUBSET Nodes, nest : Nat \ {0}]

VARIABLES
  node,        \* Timer_t: ticks left, incr, user (handle); act: action is set
  list,        \* the list at tptop
  free,        \* the list at tpfree
  fresh,       \* nodes malloc has not returned yet
  tpmin,
  time_state,  \* the bits of time_state that are set
  left,        \* the static variable of sigalrm
  itimer,      \* ticks to the next SIGALRM, 0 for none
  pending,     \* SIGALRM has been raised
  disp,        \* disposition of SIGALRM: sigalrm, or default (fatal)
  frames,      \* activations of sigalrm, the innermost first
  pc, new, rest,  \* sh_timeradd: label, tp, and the list it has read
  want,        \* its arguments
  handle,      \* the handles the callers keep
  cast         \* fixed: which behaviour this is

kernel == <<itimer, pending, disp>>
queue  == <<node, list, free, fresh, tpmin>>
adding == <<pc, new, rest, want>>
vars == <<node, list, free, fresh, tpmin, time_state, left, itimer, pending,
          disp, frames, pc, new, rest, want, handle, cast>>

NoWant == [user |-> CHOOSE u \in Users : TRUE, delay |-> CHOOSE d \in Delays : TRUE]
Null == [rem |-> 0, incr |-> 0, user |-> CHOOSE u \in Users : TRUE, act |-> FALSE]

Init ==
  /\ node = [n \in Nodes |-> Null]
  /\ list = <<>> /\ free = <<>>
  /\ tpmin = NoNode /\ time_state = {} /\ left = 0
  /\ itimer = 0 /\ pending = FALSE /\ disp = "default"
  /\ frames = <<>>
  /\ pc = "idle" /\ new = NoNode /\ rest = <<>>
  /\ want = NoWant
  /\ handle = [u \in Users |-> NoNode]
  /\ cast \in Casts /\ fresh = cast.nodes

\* A signal is taken before the program runs on.
Ready   == ~pending
MainAt(l) == Ready /\ frames = <<>> /\ pc = l

(***************************************************************************)
(* sh_timeradd.                                                            *)
(***************************************************************************)
\* tp = tpfree and tp->next is read, or malloc.
AddTake(u, d) ==
  /\ MainAt("idle") /\ u \in cast.users /\ handle[u] = NoNode
  /\ want' = [user |-> u, delay |-> d]
  /\ \/ /\ free # <<>>
        /\ new' = Head(free) /\ rest' = Tail(free)
        /\ fresh' = fresh /\ pc' = "pop"
     \/ /\ free = <<>>
        /\ \E n \in fresh : new' = n /\ fresh' = fresh \ {n}
        /\ rest' = rest /\ pc' = "fill"
  /\ UNCHANGED <<node, list, free, tpmin, time_state, left, kernel, frames,
                 handle, cast>>

\* Mutant: tpfree keeps the node.
AddPopNot ==
  /\ MainAt("pop")
  /\ free' = free
  /\ rest' = <<>> /\ pc' = "fill"
  /\ UNCHANGED <<node, list, fresh, tpmin, time_state, left, kernel, frames, new,
                 want, handle, cast>>

\* tpfree = tp->next: what the handler has freed since is forgotten.
AddPop ==
  /\ MainAt("pop")
  /\ free' = rest
  /\ rest' = <<>> /\ pc' = "fill"
  /\ UNCHANGED <<node, list, fresh, tpmin, time_state, left, kernel, frames, new,
                 want, handle, cast>>

\* From tp->wakeup = getnow()+t to tp->next = tptop.
Filled(flags) ==
  /\ MainAt("fill")
  /\ node' = [node EXCEPT ![new] =
                [rem  |-> want.delay,
                 incr |-> IF want.user \in Repeats THEN want.delay ELSE 0,
                 user |-> want.user, act |-> TRUE]]
  /\ time_state' = time_state \union flags
  /\ rest' = list /\ pc' = "link"
  /\ UNCHANGED <<list, free, fresh, tpmin, left, kernel, frames, new, want, handle,
                 cast>>

\* Mutant: sh_timeradd does not say that it is at work.
AddFillOpen == Filled({})

AddFill == Filled({"add"})

\* tptop = tp.
AddLink ==
  /\ MainAt("link")
  /\ list' = <<new>> \o rest
  /\ rest' = <<>> /\ pc' = "arm"
  /\ UNCHANGED <<node, free, fresh, tpmin, time_state, left, kernel, frames, new,
                 want, handle, cast>>

Sooner(n) == tpmin # NoNode => node[n].rem < node[tpmin].rem

AddArm ==
  /\ MainAt("arm")
  /\ \/ /\ Sooner(new)
        /\ tpmin' = new /\ disp' = "sigalrm" /\ itimer' = want.delay
        /\ time_state' = time_state
     \/ /\ ~Sooner(new)
        /\ time_state' = IF node[tpmin].act THEN time_state
                         ELSE time_state \union {"defer"}
        /\ UNCHANGED <<tpmin, disp, itimer>>
  /\ pc' = "clear"
  /\ UNCHANGED <<node, list, free, fresh, left, pending, frames, new, rest,
                 want, handle, cast>>

AddClear ==
  /\ MainAt("clear")
  /\ time_state' = time_state \ {"add"}
  /\ pc' = "test"
  /\ UNCHANGED <<queue, left, kernel, frames, new, rest, want, handle, cast>>

AddTest ==
  /\ MainAt("test")
  /\ \/ /\ "defer" \in time_state
        /\ time_state' = {"call"} /\ pc' = "kill"
     \/ /\ "defer" \notin time_state
        /\ pc' = "return" /\ UNCHANGED time_state
  /\ UNCHANGED <<queue, left, kernel, frames, new, rest, want, handle, cast>>

\* kill(getpid(),SIGALRM) is taken before kill returns.
AddKill ==
  /\ MainAt("kill")
  /\ pending' = TRUE
  /\ pc' = "killed"
  /\ UNCHANGED <<queue, time_state, left, itimer, disp, frames, new, rest,
                 want, handle, cast>>

\* After the kill the timer may be gone.
AddReturn ==
  /\ MainAt("return") \/ MainAt("killed")
  /\ handle' = [handle EXCEPT ![want.user] =
       IF pc = "killed" /\ (list = <<>> \/ Head(list) # new) THEN NoNode ELSE new]
  /\ pc' = "idle" /\ new' = NoNode /\ rest' = <<>> /\ want' = NoWant
  /\ UNCHANGED <<queue, time_state, left, kernel, frames, cast>>

(***************************************************************************)
(* timerdel(handle), and timerdel(0) before an exec: it is in two steps.   *)
(***************************************************************************)
Del(u) ==
  /\ MainAt("idle") /\ handle[u] # NoNode
  /\ node' = [node EXCEPT ![handle[u]].act = FALSE]
  /\ handle' = [handle EXCEPT ![u] = NoNode]
  /\ UNCHANGED <<list, free, fresh, tpmin, time_state, left, kernel, frames,
                 adding, cast>>

DelAll ==
  /\ MainAt("idle") /\ list # <<>>
  /\ node' = [n \in Nodes |-> [node[n] EXCEPT !.act = FALSE]]
  /\ handle' = [u \in Users |-> NoNode]
  /\ pc' = "off"
  /\ UNCHANGED <<list, free, fresh, tpmin, time_state, left, kernel, frames,
                 new, rest, want, cast>>

DelAllOff ==
  /\ MainAt("off")
  /\ tpmin' = NoNode /\ disp' = "default"
  /\ itimer' = IF tpmin = NoNode THEN itimer ELSE 0
  /\ pc' = "idle"
  /\ UNCHANGED <<node, list, free, fresh, time_state, left, pending, frames,
                 new, rest, want, handle, cast>>

(***************************************************************************)
(* sigalrm.  Its entry runs with SIGALRM blocked: alarm(0) stops the       *)
(* interval timer, and a busy time_state sends it back.                    *)
(***************************************************************************)
Called == time_state \ {"call"}

Entry == /\ pending /\ disp = "sigalrm"
         /\ pending' = FALSE
         /\ left' = 0
         /\ itimer' = IF "call" \in time_state THEN itimer ELSE 0
         /\ UNCHANGED <<queue, disp, adding, handle, cast>>

DeliverBusy ==
  /\ Entry /\ Called # {}
  /\ time_state' = Called \union (IF "add" \in Called THEN {"defer"} ELSE {})
  /\ UNCHANGED frames

\* Mutant: no flag turns the signal away.
DeliverAlways ==
  /\ Entry
  /\ time_state' = Called \union {"alarm"}
  /\ frames' = <<[pc |-> "scan", tp |-> NoNode, gap |-> 0]>> \o frames

Deliver ==
  /\ Entry /\ Called = {}
  /\ time_state' = {"alarm"}
  /\ frames' = <<[pc |-> "scan", tp |-> NoNode, gap |-> 0]>> \o frames

HandlerAt(l) == Ready /\ frames # <<>> /\ frames[1].pc = l

Place(n) == CHOOSE i \in DOMAIN list : list[i] = n

\* The nodes of S, in the order of the list.
InOrder(S) ==
  { s \in [1..Cardinality(S) -> S] :
      ToSet(s) = S /\ \A i, j \in DOMAIN s : i < j => Place(s[i]) < Place(s[j]) }

\* The first of the soonest of the timers S.
Soonest(S) ==
  LET before(n, m) == \/ node[n].rem < node[m].rem
                      \/ node[n].rem = node[m].rem /\ Place(n) <= Place(m)
  IN  IF S = {} THEN NoNode ELSE CHOOSE n \in S : \A m \in S : before(n, m)

Active == { n \in ToSet(list) : node[n].act }
Due    == { n \in Active : node[n].rem <= 0 }
Dead   == ToSet(list) \ Active

\* When a repeating timer that is due is due again.
Again(n) == CHOOSE r \in 1..node[n].incr : (r - node[n].rem) % node[n].incr = 0

\* One walk of the list: the nodes of dead timers go to tpfree; tp is the
\* timer that is due longest, tpmin the next one after now.
Scanned(repeats) ==
  /\ HandlerAt("scan")
  /\ LET tp   == Soonest(Due)
         next == Soonest(Active \ Due)
         redo == tp # NoNode /\ node[tp].incr # 0 /\ repeats
         wake == IF redo THEN Again(tp) ELSE 0
         min  == IF redo /\ (next = NoNode \/ node[next].rem > wake) THEN tp ELSE next
     IN  /\ list' \in InOrder(Active)
         /\ \E s \in InOrder(Dead) : free' = Reverse(s) \o free
         /\ node' = IF redo THEN [node EXCEPT ![tp].rem = wake] ELSE node
         /\ tpmin' = min
         /\ frames' = [frames EXCEPT ![1] =
              [pc |-> "arm", tp |-> tp,
               gap |-> IF min = NoNode THEN 0 ELSE IF redo /\ min = tp THEN wake ELSE node[min].rem]]
  /\ UNCHANGED <<fresh, time_state, left, kernel, adding, handle, cast>>

\* Mutant: a timer that repeats is never due again.
ScanOnce == Scanned(FALSE)

Scan == Scanned(TRUE)

\* setalarm(tpmin->wakeup-now), unless the old alarm comes sooner.
Arm ==
  /\ HandlerAt("arm")
  /\ LET gap  == frames[1].gap
         keep == itimer # 0 /\ itimer < gap
     IN  \/ /\ tpmin # NoNode
            /\ left = 0 \/ (frames[1].tp # NoNode /\ gap < left)
            /\ disp' = IF left = 0 THEN "sigalrm" ELSE disp
            /\ itimer' = IF keep THEN itimer ELSE gap
            /\ left'   = IF keep THEN itimer ELSE gap
         \/ /\ tpmin = NoNode \/ (left # 0 /\ (frames[1].tp = NoNode \/ gap >= left))
            /\ UNCHANGED <<disp, itimer, left>>
  /\ frames' = [frames EXCEPT ![1].pc = "run"]
  /\ UNCHANGED <<queue, time_state, pending, adding, handle, cast>>

\* Call the action of the timer that is due.  The action of one that does not
\* repeat clears the handle its caller keeps.
Run ==
  /\ HandlerAt("run") /\ frames[1].tp # NoNode
  /\ LET n == frames[1].tp  u == node[n].user
     IN  \/ /\ node[n].incr = 0
            /\ node' = [node EXCEPT ![n].act = FALSE]
            /\ handle' = [handle EXCEPT ![u] = NoNode]
         \/ /\ node[n].incr # 0
            /\ UNCHANGED <<node, handle>>
  /\ time_state' = time_state \ {"alarm"}
  /\ frames' = [frames EXCEPT ![1].pc = "acting"]
  /\ UNCHANGED <<list, free, fresh, tpmin, left, kernel, adding, cast>>

Acted ==
  /\ HandlerAt("acting") /\ node[frames[1].tp].user \notin Jumpers
  /\ time_state' = time_state \union {"alarm"}
  /\ frames' = [frames EXCEPT ![1] = [pc |-> "scan", tp |-> NoNode, gap |-> 0]]
  /\ UNCHANGED <<queue, left, kernel, adding, handle, cast>>

\* The action is sh_exit: every handler that runs, and what the main program
\* did, is given up.
Jump ==
  /\ HandlerAt("acting") /\ node[frames[1].tp].user \in Jumpers
  /\ frames' = <<>>
  /\ pc' = "idle" /\ new' = NoNode /\ rest' = <<>> /\ want' = NoWant
  /\ UNCHANGED <<queue, time_state, left, kernel, handle, cast>>

\* Mutant: the handler always gives the signal back.
ReturnDefault ==
  /\ HandlerAt("run") /\ frames[1].tp = NoNode
  /\ disp' = "default"
  /\ time_state' = time_state \ {"alarm"}
  /\ frames' = Tail(frames)
  /\ UNCHANGED <<queue, left, itimer, pending, adding, handle, cast>>

Return ==
  /\ HandlerAt("run") /\ frames[1].tp = NoNode
  /\ disp' = IF tpmin = NoNode THEN "default" ELSE disp
  /\ time_state' = time_state \ {"alarm"}
  /\ frames' = Tail(frames)
  /\ UNCHANGED <<queue, left, itimer, pending, adding, handle, cast>>

(***************************************************************************)
(* The clock.                                                              *)
(***************************************************************************)
Quick == frames = <<>> /\ pc = "idle"
Deepest == Len(frames) = cast.nest /\ frames[1].pc = "acting"

Tick ==
  /\ cast.slow \/ Quick
  /\ ~Deepest
  /\ node' = [n \in Nodes |-> IF node[n].act /\ node[n].rem > -Late
                              THEN [node[n] EXCEPT !.rem = @ - 1] ELSE node[n]]
  /\ itimer' = IF itimer = 0 THEN 0 ELSE itimer - 1
  /\ pending' = (pending \/ itimer = 1)
  /\ UNCHANGED <<list, free, fresh, tpmin, time_state, left, disp, frames,
                 adding, handle, cast>>

Handler == Scan \/ Arm \/ Run \/ Acted \/ Jump \/ Return
Adding  == AddPop \/ AddFill \/ AddLink \/ AddArm \/ AddClear \/ AddTest
           \/ AddKill \/ AddReturn \/ DelAllOff

Next ==
  \/ \E u \in Users : Del(u) \/ \E d \in Delays : AddTake(u, d)
  \/ DelAll \/ Adding \/ Handler \/ Deliver \/ DeliverBusy \/ Tick

Spec == Init /\ [][Next]_vars

\* The processor runs the program between signals, and time passes.  Nobody
\* has to start or to delete a timer.
FairSpec == /\ Spec
            /\ SF_vars(Adding \/ Handler)
            /\ WF_vars(Deliver \/ DeliverBusy) /\ WF_vars(Tick)

(***************************************************************************)
(* Properties.                                                             *)
(***************************************************************************)
LargestDelay == CHOOSE d \in Delays : \A e \in Delays : e <= d
Span  == -Late..LargestDelay
Nulls == Nodes \union {NoNode}
Timer == [rem : Span, incr : 0..LargestDelay, user : Users, act : BOOLEAN]
Frame == [pc : {"scan", "arm", "run", "acting"}, tp : Nulls, gap : 0..LargestDelay]

TypeOK ==
  /\ node \in [Nodes -> Timer]
  /\ list \in Seq(Nodes) /\ free \in Seq(Nodes) /\ fresh \subseteq Nodes
  /\ tpmin \in Nulls
  /\ time_state \subseteq {"add", "alarm", "defer", "call"}
  /\ left \in 0..LargestDelay /\ itimer \in 0..LargestDelay /\ pending \in BOOLEAN
  /\ disp \in {"default", "sigalrm"}
  /\ frames \in Seq(Frame)
  /\ Len(frames) <= cast.nest
  /\ pc \in {"idle", "pop", "fill", "link", "arm", "clear", "test", "kill", "killed", "return", "off"}
  /\ new \in Nulls /\ rest \in Seq(Nodes)
  /\ want \in [user : Users, delay : Delays]
  /\ handle \in [Users -> Nulls] /\ cast \in Casts

(* A Timer_t is linked once: the handler never meets a node twice, frees one *)
(* that is free, or loses the tail of the list that sh_timeradd extends.     *)
NodesApart ==
  /\ IsInjective(list) /\ IsInjective(free)
  /\ ToSet(list) \intersect ToSet(free) = {}
  /\ \A n \in Nodes : node[n].act => n \in ToSet(list) \/ (pc = "link" /\ n = new)

(* One activity at a time walks or extends the list: a handler starts only   *)
(* outside sh_timeradd's link and the walk of another, which calls an action. *)
OneWalk ==
  /\ \A i \in 2..Len(frames) : frames[i].pc = "acting"
  /\ frames # <<>> => pc \notin {"link", "arm", "clear"}

(* While an alarm is set or a SIGALRM is on its way the shell has a handler  *)
(* for it (its default would end the shell), when time stands still in      *)
(* sh_timeradd: a late alarm may come just before the kill.                 *)
Handled == ~cast.slow /\ (pending \/ itimer # 0) => disp = "sigalrm"

(* The handle a caller keeps is that of its own timer: timerdel deletes no   *)
(* other.                                                                   *)
OwnHandle ==
  ~cast.slow => \A u \in Users : handle[u] # NoNode =>
             node[handle[u]].user = u /\ node[handle[u]].act

Served(n) == ~node[n].act \/ node[n].rem > 0

(* A timer that is due is served (or deleted): the one alarm that all timers *)
(* share is set again after every change.  Not so in a slow handler, or when *)
(* an action jumps out of the handler while another timer is due.           *)
QuickServed ==
  ~cast.slow /\ cast.users \intersect Jumpers = {} =>
    \A n \in Nodes : ~Served(n) ~> Served(n)
=============================================================================
