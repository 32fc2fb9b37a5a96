------------------------------ MODULE JobSave ------------------------------
(***************************************************************************)
(* The exit statuses ksh93 keeps for "wait" (sh/jobs.c): the list bck of   *)
(* processes that left the job table without being waited for, one list    *)
(* for each subshell that runs inside the process, the pool job_savelist   *)
(* the nodes come from, and what the child of a fork does with what it     *)
(* inherits.                                                               *)
(*                                                                         *)
(* Each operation runs under job_lock(), so an action is a whole           *)
(* operation; only the loops over the job table and the loop that trims    *)
(* the list are split into steps.  All jobs are background jobs of one     *)
(* process, without job control, so P_NOTIFY is never left set.            *)
(***************************************************************************)
EXTENDS Integers, FiniteSets, SequencesExt

CONSTANTS
  Pids,       \* process numbers
  Inherited,  \* children that may be there before the shell, by an exec
  Vals,       \* exit statuses, 0 among them
  NoEnt,      \* ERROR_NOENT, the status of an unknown process (127)
  ChildMax,   \* shgd->lim.child_max
  NJob,       \* NJOB_SAVELIST
  EnvMod,     \* number of values of jobsave.env, an unsigned short (2^16)
  Shares,     \* TRUE in it: subshells may share state, ${ list; }
  MaxEnv, MaxDepth, MaxForks   \* bounds: of subenv, of nesting, of forks

ASSUME ValsAssumption  == Vals \subseteq Nat /\ 0 \in Vals /\ NoEnt \notin Vals
ASSUME PidsAssumption  == IsFiniteSet(Pids)
ASSUME InheritedAssumption == Inherited \subseteq Pids
ASSUME LimitAssumption == ChildMax \in Nat /\ ChildMax > 0 /\ NJob \in Nat
ASSUME WidthAssumption == EnvMod \in Nat /\ EnvMod > 0
ASSUME ShareAssumption == Shares \subseteq BOOLEAN
ASSUME BoundAssumption == {MaxEnv, MaxDepth, MaxForks} \subseteq Nat

VARIABLES
  store,      \* [levels, pool, njob]: bck and its prev chain, the length of
              \* job_savelist, njob_savelist
  job,        \* the job table: for each process posted its environment, the
              \* flags P_DONE and P_EXITSAVE (done, save), and its status st
  mine,       \* children of this process that were not reaped yet
  toclear,    \* job.toclear
  curenv,     \* shp->curenv
  subenv,     \* the last environment number given
  outer,      \* what the subshells that run will go back to
  floor,      \* levels inherited from the parent process
  forks,      \* forks that led to this process
  pc,         \* inside job_subrestore or a loop over the table
  exitval     \* of the last wait

vars == <<store, job, mine, toclear, curenv, subenv, outer, floor, forks, pc,
          exitval>>
shell == <<curenv, subenv, outer, floor, forks>>

Running == -1              \* st of a process not reaped yet: it has P_BG
AnyEnv  == -1              \* the environment argument that matches all

(***************************************************************************)
(* job_chksave: find the status of a process and take it off its list.     *)
(* The search looks at no more nodes than the count of the list says, and  *)
(* takes the node it stops at.                                             *)
(***************************************************************************)
Matches(lev, pid) == { i \in 1..Len(lev.list) : i <= lev.count /\ lev.list[i].pid = pid }

\* Position of the node the search stops at, 0 for none.
Hit(lev, pid) ==
  IF Matches(lev, pid) # {}
  THEN CHOOSE i \in Matches(lev, pid) : \A k \in Matches(lev, pid) : i <= k
  ELSE IF lev.count < Len(lev.list) THEN lev.count + 1 ELSE 0

\* The same with pid 0, the oldest process of the list.
Oldest(lev) == IF lev.count < Len(lev.list) THEN lev.count + 1 ELSE Len(lev.list)

Holding(s, pid) == { n \in DOMAIN s.levels : Hit(s.levels[n], pid) # 0 }
LevelOf(s, pid) ==
  CHOOSE n \in Holding(s, pid) : \A m \in Holding(s, pid) : n <= m
Node(s, pid) == LET lev == s.levels[LevelOf(s, pid)]
                IN  lev.list[Hit(lev, pid)]

\* Mutant: the pool takes every node back.
DropPooled(s, n, i) ==
  [levels |-> [s.levels EXCEPT ![n] = [count |-> @.count - 1,
                                       list  |-> RemoveAt(@.list, i)]],
   pool |-> s.pool + 1, njob |-> s.njob + 1]

\* The node at position i of level n goes back to the pool, or to the heap
\* when the pool is full.
Drop(s, n, i) ==
  [levels |-> [s.levels EXCEPT ![n] = [count |-> @.count - 1,
                                       list  |-> RemoveAt(@.list, i)]],
   pool   |-> IF s.njob < NJob THEN s.pool + 1 ELSE s.pool,
   njob   |-> IF s.njob < NJob THEN s.njob + 1 ELSE s.njob]

Saved(s, pid, env) ==
  Holding(s, pid) # {} /\ (env = AnyEnv \/ Node(s, pid).env = env)

ChkSave(s, pid, env) ==
  IF Saved(s, pid, env)
  THEN LET n == LevelOf(s, pid) IN Drop(s, n, Hit(s.levels[n], pid))
  ELSE s

Evict(s) == LET i == Oldest(s.levels[1]) IN IF i = 0 THEN s ELSE Drop(s, 1, i)

(***************************************************************************)
(* jobsave_create, and the status its callers store.  The head of the pool *)
(* is read before the calls of job_chksave, and what they put there is     *)
(* lost when the head is taken.                                            *)
(***************************************************************************)
Counted(s) == [s EXCEPT !.levels[1].count = @ + 1]
Trimmed(s) == IF s.levels[1].count > ChildMax THEN Evict(s) ELSE s

Create(s, pid, env, val) ==
  LET t == Trimmed(Counted(ChkSave(s, pid, AnyEnv)))
  IN  [levels |-> [t.levels EXCEPT ![1].list =
                     <<[pid |-> pid, env |-> env % EnvMod, val |-> val]>> \o @],
       pool   |-> IF s.pool > 0 THEN s.pool - 1 ELSE t.pool,
       njob   |-> IF s.pool > 0 THEN t.njob - 1 ELSE t.njob]

\* init_savelist
Refill(s) == IF s.njob < NJob
             THEN [s EXCEPT !.pool = @ + (NJob - s.njob), !.njob = NJob]
             ELSE s

\* job_clear, of the list: its nodes are freed, its count stays.
Emptied(s) == Refill([s EXCEPT !.levels[1].list = <<>>])

Init ==
  /\ store = [levels |-> <<[count |-> 0, list |-> <<>>]>>,
              pool |-> NJob, njob |-> NJob]
  /\ job = <<>>
  /\ mine \in SUBSET Inherited
  /\ toclear = FALSE /\ curenv = 0 /\ subenv = 0 /\ outer = <<>>
  /\ floor = 1 /\ forks = 0 /\ pc = "run" /\ exitval = NoEnt

Ended(p)      == job[p].st # Running
Posted(e)     == [env |-> e, done |-> FALSE, save |-> TRUE, st |-> Running]
\* job_unpost of a process of the table t that has ended.
Unposted(s, t, p) == IF t[p].save THEN Create(s, p, t[p].env, t[p].st) ELSE s
Without(p)    == Restrict(job, DOMAIN job \ {p})
Cleared(s)    == IF toclear THEN Emptied(s) ELSE s
ClearedJobs   == IF toclear THEN <<>> ELSE job

\* Mutant: job_post deletes a status of its own environment only.
DroppedHere(s, p) == ChkSave(s, p, curenv)

\* The number p is given to a new process: job_post, then job_fork(pid).
Dropped(s, p) == ChkSave(ChkSave(s, p, curenv), p, AnyEnv)

(***************************************************************************)
(* Starting a background process: job_clear in the child of a fork,        *)
(* job_post, job_fork(pid).  The number may be that of an old process.     *)
(***************************************************************************)
Start(p) ==
  /\ pc = "run" /\ p \notin mine
  /\ LET s0 == Refill(Cleared(store))
         old == ClearedJobs
         s1 == IF p \in DOMAIN old /\ old[p].st # Running
               THEN Unposted(s0, old, p) ELSE s0
     IN  store' = Dropped(s1, p)
  /\ job' = [q \in DOMAIN ClearedJobs \union {p} |->
               IF q = p THEN Posted(curenv) ELSE job[q]]
  /\ mine' = mine \union {p}
  /\ toclear' = FALSE
  /\ UNCHANGED <<shell, pc, exitval>>

(***************************************************************************)
(* job_reap collects a process that is on the table, or one that is not.   *)
(***************************************************************************)
Forgotten(p, v) == IF v = 0 THEN ChkSave(store, p, AnyEnv) ELSE store

Reap(p, v) ==
  /\ pc = "run" /\ p \in mine /\ p \in DOMAIN job
  /\ mine' = mine \ {p}
  /\ job' = [job EXCEPT ![p].st = v, ![p].done = TRUE]
  /\ store' = Forgotten(p, v)
  /\ UNCHANGED <<toclear, shell, pc, exitval>>

ReapUnknown(p, v) ==
  /\ pc = "run" /\ p \in mine /\ p \notin DOMAIN job
  /\ mine' = mine \ {p}
  /\ store' = Create(Cleared(Forgotten(p, v)), p, curenv, v)
  /\ job' = ClearedJobs
  /\ toclear' = FALSE
  /\ UNCHANGED <<shell, pc, exitval>>

(***************************************************************************)
(* job_wait(-pid).  When it finds the process on the table it sweeps the   *)
(* table before it returns.                                                *)
(***************************************************************************)
\* Mutant: the environment of the process is not looked at.
WaitSavedAny(p) ==
  /\ pc = "run" /\ p \notin DOMAIN job
  /\ exitval' = IF Saved(store, p, AnyEnv) THEN Node(store, p).val ELSE NoEnt
  /\ store' = ChkSave(store, p, AnyEnv)
  /\ UNCHANGED <<job, mine, toclear, shell, pc>>

WaitSaved(p) ==
  /\ pc = "run" /\ p \notin DOMAIN job
  /\ exitval' = IF Saved(store, p, curenv) THEN Node(store, p).val ELSE NoEnt
  /\ store' = ChkSave(store, p, curenv)
  /\ UNCHANGED <<job, mine, toclear, shell, pc>>

WaitForeign(p) ==
  /\ pc = "run" /\ p \in DOMAIN job /\ job[p].env # curenv
  /\ exitval' = NoEnt
  /\ UNCHANGED <<store, job, mine, toclear, shell, pc>>

WaitJob(p) ==
  /\ pc = "run" /\ p \in DOMAIN job /\ job[p].env = curenv /\ Ended(p)
  /\ exitval' = job[p].st
  /\ job' = Without(p)
  /\ pc' = "sweep"
  /\ UNCHANGED <<store, mine, toclear, shell>>

\* A process that runs and has P_DONE: job_subrestore set it.  The job keeps
\* its place for P_BG, its status will not be saved.
WaitEarly(p) ==
  /\ pc = "run" /\ p \in DOMAIN job /\ job[p].env = curenv
  /\ ~Ended(p) /\ job[p].done
  /\ exitval' = 0
  /\ job' = [job EXCEPT ![p].save = FALSE]
  /\ pc' = "sweep"
  /\ UNCHANGED <<store, mine, toclear, shell>>

\* A process of the parent, and no child to wait for: sh_exec has set the
\* status to 0.
WaitNoChild(p) ==
  /\ pc = "run" /\ p \in DOMAIN job /\ job[p].env = curenv
  /\ ~job[p].done /\ mine = {}
  /\ exitval' = 0
  /\ pc' = "sweep"
  /\ UNCHANGED <<store, job, mine, toclear, shell>>

\* job_wait(-1): wait for every child, then unpost every job.
WaitAll ==
  /\ pc = "run" /\ mine = {}
  /\ job' = [p \in DOMAIN job |-> [job[p] EXCEPT !.done = TRUE]]
  /\ pc' = "sweep"
  /\ UNCHANGED <<store, mine, toclear, shell, exitval>>

\* The end of job_wait for a foreground process: every job that has ended
\* leaves the table.
Sweep ==
  /\ pc = "run" /\ job # <<>>
  /\ pc' = "sweep"
  /\ UNCHANGED <<store, job, mine, toclear, shell, exitval>>

\* One turn of the loop: job_unpost saves the status.  (The order of the
\* table is not modelled.)  After a subshell the loop is for its own jobs.
Leaving == { p \in DOMAIN job : Ended(p) /\ (pc = "restore" => job[p].env = curenv) }

Unpost(p) ==
  /\ pc \in {"sweep", "restore"} /\ p \in Leaving
  /\ store' = Unposted(store, job, p)
  /\ job' = Without(p)
  /\ UNCHANGED <<mine, toclear, shell, pc, exitval>>

SweepDone ==
  /\ pc = "sweep" /\ Leaving = {}
  /\ pc' = "run"
  /\ UNCHANGED <<store, job, mine, toclear, shell, exitval>>

(***************************************************************************)
(* Subshells: sh_subshell with job_subsave and job_subrestore.             *)
(***************************************************************************)
Enter(share) ==
  /\ pc = "run" /\ Len(outer) < MaxDepth
  /\ LET e == IF curenv = 0 THEN 1 ELSE subenv + 1
     IN  e <= MaxEnv /\ curenv' = e /\ subenv' = e
  /\ outer' = <<[env |-> curenv, share |-> share]>> \o outer
  /\ store' = [store EXCEPT !.levels = <<[count |-> 0, list |-> <<>>]>> \o @]
  /\ UNCHANGED <<job, mine, toclear, floor, forks, pc, exitval>>

\* Mutant: only one of the counts is kept.
JoinedCount(inner, out) ==
  [count |-> out.count, list |-> inner.list \o out.list]

\* Mutant: the nodes of the subshell are not linked, their count is.
JoinedLost(inner, out) ==
  [count |-> inner.count + out.count, list |-> out.list]

\* The list of the subshell goes before the list of the shell.
Joined(inner, out) ==
  [count |-> inner.count + out.count,
   list  |-> IF Len(inner.list) <= ChildMax + 1
             THEN inner.list \o out.list ELSE out.list]

Leave ==
  /\ pc = "run" /\ Len(store.levels) > floor
  /\ store' = [store EXCEPT !.levels =
                 <<Joined(@[1], @[2])>> \o SubSeq(@, 3, Len(@))]
  /\ pc' = "trim"
  /\ UNCHANGED <<job, mine, toclear, shell, exitval>>

Overfull == store.levels[1].count > ChildMax

Trim ==
  /\ pc = "trim" /\ Overfull
  /\ store' = Evict(store)
  /\ UNCHANGED <<job, mine, toclear, shell, pc, exitval>>

TrimDone ==
  /\ pc = "trim" /\ ~Overfull
  /\ pc' = "restore"
  /\ UNCHANGED <<store, job, mine, toclear, shell, exitval>>

\* The jobs of the subshell that still run get P_DONE and stay.  A subshell
\* that shares state does not put the environment number back.
Restored ==
  /\ pc = "restore" /\ Leaving = {}
  /\ job' = [p \in DOMAIN job |->
               [job[p] EXCEPT !.done = @ \/ job[p].env = curenv]]
  /\ curenv' = IF outer[1].share THEN curenv ELSE outer[1].env
  /\ outer' = Tail(outer)
  /\ pc' = "run"
  /\ UNCHANGED <<store, mine, toclear, subenv, floor, forks, exitval>>

\* The shell forks and this is the child; sh_subfork sets curenv to 0 first.
\* A compound command that is not part of a pipeline calls job_clear at once.
Fork(clear) ==
  /\ pc = "run" /\ forks < MaxForks
  /\ forks' = forks + 1
  /\ toclear' = ~clear
  /\ store' = IF clear THEN Emptied(store) ELSE store
  /\ job' = IF clear THEN <<>> ELSE job
  /\ mine' = {}
  /\ floor' = Len(store.levels)
  /\ curenv' \in IF outer # <<>> THEN {curenv, 0} ELSE {curenv}
  /\ UNCHANGED <<subenv, outer, pc, exitval>>

Loop == SweepDone \/ Trim \/ TrimDone \/ Restored \/ \E p \in Pids : Unpost(p)

WaitOf(p) == WaitSaved(p) \/ WaitForeign(p) \/ WaitJob(p) \/ WaitEarly(p) \/ WaitNoChild(p)

Next ==
  \/ \E p \in Pids : Start(p) \/ WaitOf(p) \/ \E v \in Vals : Reap(p, v) \/ ReapUnknown(p, v)
  \/ WaitAll \/ Sweep \/ Loop \/ Leave
  \/ \E share \in Shares : Enter(share)
  \/ \E clear \in BOOLEAN : Fork(clear)

Spec     == Init /\ [][Next]_vars
\* The loops run under job_lock(), in the main program or at the end of a
\* subshell: nothing stops them.
FairSpec == Spec /\ WF_vars(Loop)

(***************************************************************************)
(* Properties.                                                             *)
(***************************************************************************)
Envs  == 0..MaxEnv
Nodes == [pid : Pids, env : 0..EnvMod-1, val : Vals]
Jobs  == [env : Envs, done : BOOLEAN, save : BOOLEAN, st : Vals \union {Running}]

TypeOK ==
  /\ store \in [levels : Seq([count : Nat, list : Seq(Nodes)]),
                pool : Nat, njob : 0..NJob]
  /\ store.pool <= store.njob
  /\ Len(store.levels) \in 1..MaxDepth+1
  /\ DOMAIN job \subseteq Pids
  /\ \A p \in DOMAIN job : job[p] \in Jobs
  /\ mine \subseteq Pids /\ toclear \in BOOLEAN
  /\ curenv \in Envs /\ subenv \in Envs
  /\ outer \in Seq([env : Envs, share : BOOLEAN])
  /\ floor \in 1..Len(store.levels) /\ forks \in 0..MaxForks
  /\ pc \in {"run", "sweep", "trim", "restore"}
  /\ exitval \in Vals \union {NoEnt}

Positions == { x \in (1..MaxDepth+1) \X (1..Cardinality(Pids)) :
                 x[1] <= Len(store.levels) /\ x[2] <= Len(store.levels[x[1]].list) }
At(x) == store.levels[x[1]].list[x[2]]

(* A process number has one status at most: in one list of the chain, and   *)
(* not there as well as on the job table.                                   *)
UniquePids ==
  /\ \A x \in Positions, y \in Positions : At(x).pid = At(y).pid => x = y
  /\ \A x \in Positions : At(x).pid \notin DOMAIN job

(* The count of a list is never less than its length, so that job_chksave   *)
(* does not run out of count at a node of another process and give away     *)
(* its status.                                                              *)
CountCovers ==
  \A n \in DOMAIN store.levels :
    Len(store.levels[n].list) <= store.levels[n].count

(* The loop of job_subrestore that trims the list to child_max ends: each   *)
(* call of job_chksave(0,-1) deletes the oldest process of the list.        *)
TrimEnds == pc = "trim" ~> pc # "trim"

(* At the top level, a process that the top level started can be waited     *)
(* for: wait does not take it for a process of another environment.         *)
TopWaits ==
  pc = "run" /\ outer = <<>> =>
    \A p \in DOMAIN job : job[p].env = 0 => curenv = 0

(* The saved lists and the job table together keep the promise of AbsSave.  *)
AllKnown ==
  { p \in DOMAIN job : Ended(p) } \union { At(x).pid : x \in Positions }

KnownOf(p) ==
  IF \E x \in Positions : At(x).pid = p
  THEN LET x == CHOOSE x \in Positions : At(x).pid = p
       IN  [env |-> At(x).env, val |-> At(x).val]
  ELSE [env |-> job[p].env, val |-> job[p].st]

LeftRunning ==
  { p \in DOMAIN job :
      ~job[p].save \/ (~Ended(p) /\ (job[p].done \/ p \notin mine)) }

Promise == INSTANCE AbsSave WITH
  Limit   <- ChildMax,
  env     <- curenv,
  running <- [p \in { q \in mine : q \in DOMAIN job } |-> job[p].env],
  known   <- [p \in AllKnown |-> KnownOf(p)],
  left    <- LeftRunning,
  forked  <- forks > 0,
  answer  <- exitval

PromiseKept == Promise!Spec
=============================================================================
