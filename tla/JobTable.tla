------------------------------ MODULE JobTable -----------------------------
(***************************************************************************)
(* The job table of ksh93 as a table: job numbers and the bit vector they  *)
(* are taken from (job_alloc, job_free), entries that are posted, marked   *)
(* done, announced to a CHLD trap and unposted, and the count job.numbjob  *)
(* that the JOBMAX limit on background jobs is tested against.             *)
(*                                                                         *)
(* The monitor is off: entries have no process group and no P_NOTIFY when  *)
(* done, and a job is one process.  What the critical regions do inside is *)
(* in JobLock; here the handler reaps outside of a region, and is deferred *)
(* to its end otherwise.  A CHLD trap touches no jobs.                     *)
(***************************************************************************)
EXTENDS Integers, Sequences, FiniteSets

CONSTANTS
  Pids,      \* process numbers; one is not used again while the CHLD trap of
             \* its last process is due
  W,         \* CHAR_BIT
  MaxCount,  \* bound: of numbjob, up and down
  Scripts    \* [trap, max, limit, ops]: a CHLD trap, JOBMAX (0: none),
             \* child_max, commands

Ops == {"bg", "fg", "wait", "jobs"}
ASSUME TableAssumption ==
  /\ IsFiniteSet(Pids) /\ W \in Nat \ {0} /\ MaxCount \in Nat
  /\ \A s \in Scripts : /\ s.trap \in BOOLEAN /\ s.max \in Nat
                        /\ s.limit \in Nat \ {0} /\ s.ops \subseteq Ops

VARIABLES
  script,
  proc,      \* a process in the kernel: none, running or zombie
  chld,      \* SIGCHLD: none, pending, or saved in job.savesig
  pwlist,    \* the table, first entry first
  freejobs,  \* the job numbers whose bit is set
  numbjob,
  trapnote,  \* the CHLD trap is pending: sigflag[SIGCHLD] and trapnote, set
             \* and cleared together here
  bckpid,    \* $!, 0 for none
  pc,
  new,       \* the process to be posted or waited for, and whether with &
  res,       \* what job_wait's last job_reap did: reaped "some", found no child
             \* ("none") or nothing to reap ("idle")
  back       \* auxiliary: the processes started with & that have not ended

table == <<pwlist, freejobs, numbjob>>
vars  == <<script, proc, chld, table, trapnote, bckpid, pc, new, res, back>>

Words    == (script.limit + W - 1) \div W      \* BYTE(child_max)
Running  == {p \in Pids : proc[p] = "running"}
Zombies  == {p \in Pids : proc[p] = "zombie"}
None     == 0

Init ==
  /\ script \in Scripts
  /\ proc = [p \in Pids |-> "none"] /\ chld = "none"
  /\ pwlist = <<>> /\ freejobs = {} /\ numbjob = 0
  /\ trapnote = FALSE /\ bckpid = None
  /\ pc = "home" /\ new = [pid |-> None, bg |-> FALSE] /\ res = "some" /\ back = {}

-----------------------------------------------------------------------------
\* Operations on the table

\* job_byjid: the first entry with the number
job_byjid(l, j) ==
  LET at == {i \in DOMAIN l : l[i].job = j}
  IN  IF at = {} THEN 0 ELSE CHOOSE i \in at : \A k \in at : i <= k

\* The entries of l at the places S, in the order of the table
Entries(l, S) ==
  LET at == CHOOSE f \in [1..Cardinality(S) -> S] : \A i, k \in DOMAIN f : i < k => f[i] < f[k]
  IN  [i \in 1..Cardinality(S) |-> l[at[i]]]

\* job_unpost looks its entry up again, by number.
Unposted(l, j) == LET i == job_byjid(l, j) IN i # 0 /\ ~l[i].bg /\ l[i].done
Without(l, i)  == Entries(l, DOMAIN l \ {i})

job_unpost(t, j) ==
  IF Unposted(t.list, j)
  THEN [list |-> Without(t.list, job_byjid(t.list, j)), bits |-> t.bits \ {j}]
  ELSE t

\* job_unpost of every entry, in the order of the table.  Entries with the
\* same number go until one of them cannot.
Goes(l, i) == \A k \in 1..i : l[k].job = l[i].job => ~l[k].bg /\ l[k].done
unpost_all(t) ==
  LET gone == {i \in DOMAIN t.list : Goes(t.list, i)}
  IN  [list |-> Entries(t.list, DOMAIN t.list \ gone),
       bits |-> t.bits \ {t.list[i].job : i \in gone}]

Table == [list |-> pwlist, bits |-> freejobs]
Becomes(table1) == \E t \in {table1} : pwlist' = t.list /\ freejobs' = t.bits

Least(S) == CHOOSE n \in S : \A m \in S : n <= m

\* job_alloc takes the first bit that is free: word w of the vector holds the
\* numbers w*W+1 .. w*W+W.
FreeFromZero == 0..(Words * W - 1) \ freejobs
Free    == 1..(Words * W) \ freejobs
Word(w) == (w * W + 1)..(w * W + W)

\* With every bit taken it unposts the first job that can go, if there is one,
\* and looks in the word (!) of that number plus one.
Victims == {v \in 1..script.limit : /\ v < script.limit => Unposted(pwlist, v)
                                    /\ \A u \in 1..(v - 1) : ~Unposted(pwlist, u)}

\* In a word without a free bit the mask is shifted out: the number is one past
\* the word, and no bit is set.
Taken(bits, w)  == IF Word(w) \subseteq bits THEN w * W + W + 1 ELSE Least(Word(w) \ bits)
Marked(bits, w) == IF Word(w) \subseteq bits THEN bits ELSE bits \union {Least(Word(w) \ bits)}

\* job_reap of the list l with n jobs counted: every zombie is reaped.  A
\* background entry stays P_BG for the trap; the count is cleared when waitpid
\* finds no child, and is not lowered otherwise.
NoChild == Running = {}
Reaped(l) ==
  [i \in DOMAIN l |-> IF l[i].pid \in Zombies /\ ~l[i].done
                      THEN [l[i] EXCEPT !.done = TRUE, !.bg = @ /\ script.trap] ELSE l[i]]
Tells(l) == script.trap /\ \E i \in DOMAIN l : l[i].pid \in Zombies /\ l[i].bg /\ ~l[i].done

\* A job_reap that never clears the count.
job_reapCounts(l, n) ==
  /\ pwlist' = Reaped(l)
  /\ proc' = [p \in Pids |-> IF proc[p] = "zombie" THEN "none" ELSE proc[p]]
  /\ numbjob' = n
  /\ trapnote' = (trapnote \/ Tells(l))

job_reap(l, n) ==
  /\ pwlist' = Reaped(l)
  /\ proc' = [p \in Pids |-> IF proc[p] = "zombie" THEN "none" ELSE proc[p]]
  /\ numbjob' = IF NoChild THEN 0 ELSE n
  /\ trapnote' = (trapnote \/ Tells(l))

\* job_chldtrap over the list l with n jobs counted: each finished background
\* job has its trap and is counted down; the one of $! is unposted.
Due(l) == {i \in DOMAIN l : l[i].bg /\ l[i].done}
Announced(l) == [i \in DOMAIN l |-> IF i \in Due(l) THEN [l[i] EXCEPT !.bg = FALSE] ELSE l[i]]
job_chldtrapFirst(l) ==
  [list |-> [i \in DOMAIN l |-> IF i \in Due(l) /\ i = Least(Due(l))
                               THEN [l[i] EXCEPT !.bg = FALSE] ELSE l[i]],
   bits |-> freejobs]
job_chldtrap(l) ==
  LET last == {i \in Due(l) : l[i].pid = bckpid}
      t    == [list |-> Announced(l), bits |-> freejobs]
  IN  IF last = {} THEN t ELSE job_unpost(t, l[Least(last)].job)

-----------------------------------------------------------------------------
\* The kernel and the handler

Locked == pc \in {"limitreap", "limittrap", "alloc", "one", "onetrap", "fg", "fgtrap",
                  "all", "alltrap"}

KidExits(p) ==
  /\ proc[p] = "running"
  /\ proc' = [proc EXCEPT ![p] = "zombie"]
  /\ chld' = IF chld = "saved" THEN "saved" ELSE "pending"
  /\ back' = back \ {p}
  /\ UNCHANGED <<script, table, trapnote, bckpid, pc, new, res>>

Defer ==
  /\ chld = "pending" /\ Locked
  /\ chld' = "saved"
  /\ UNCHANGED <<script, proc, table, trapnote, bckpid, pc, new, res, back>>

\* job_waitsafe, or job_unlock with a signal saved
HandlerReap ==
  /\ chld # "none" /\ ~Locked
  /\ chld' = "none"
  /\ job_reap(pwlist, numbjob)
  /\ UNCHANGED <<script, freejobs, bckpid, pc, new, res, back>>

-----------------------------------------------------------------------------
\* Commands.  Outside of a region a saved signal is dealt with first.

At(l) == pc = l /\ (Locked \/ chld # "saved")

\* Bound: there is a process number for one more job.
Room == \E p \in Pids : proc[p] = "none" /\ \A i \in DOMAIN pwlist : pwlist[i].pid = p => ~pwlist[i].bg

\* command &, with JOBMAX set or not
Background ==
  /\ "bg" \in script.ops /\ At("home") /\ Room
  /\ numbjob < MaxCount /\ numbjob > -MaxCount
  /\ pc' = IF script.max > 0 THEN "limit" ELSE "fork"
  /\ new' = [pid |-> None, bg |-> TRUE]
  /\ UNCHANGED <<script, proc, chld, table, trapnote, bckpid, res, back>>

Foreground ==
  /\ "fg" \in script.ops /\ At("home") /\ Room
  /\ pc' = "fork" /\ new' = [pid |-> None, bg |-> FALSE]
  /\ UNCHANGED <<script, proc, chld, table, trapnote, bckpid, res, back>>

\* while(job.numbjob >= job.maxjob)
LimitTest ==
  /\ At("limit")
  /\ pc' = IF numbjob >= script.max THEN "limitreap" ELSE "fork"
  /\ UNCHANGED <<script, proc, chld, table, trapnote, bckpid, new, res, back>>

\* A job_reap(0) blocks until a child can be reaped; job_wait passes the saved
\* signal, and then it does not block.
Ready == Zombies # {} \/ NoChild
Taking == chld' = IF chld = "saved" THEN "none" ELSE chld

LimitReap ==
  /\ pc = "limitreap" /\ Ready
  /\ Taking /\ job_reap(pwlist, numbjob)
  /\ pc' = IF trapnote' THEN "limittrap" ELSE "limit"
  /\ UNCHANGED <<script, freejobs, bckpid, new, res, back>>

\* The trap that job_reap(0) runs itself, and the job_unlock of job_chldtrap
ReapTrap(from, to) ==
  /\ pc = from
  /\ \E t \in {job_chldtrap(pwlist)}, n \in {numbjob - Cardinality(Due(pwlist))} :
         /\ freejobs' = t.bits
         /\ IF chld = "saved"
              THEN job_reap(t.list, n)
              ELSE pwlist' = t.list /\ numbjob' = n /\ UNCHANGED <<proc, trapnote>>
  /\ Taking
  /\ pc' = to
  /\ UNCHANGED <<script, bckpid, new, res, back>>

\* sh_fork with job_lock around it, and the first part of job_post, which
\* unposts a finished entry with the same process number.
Fork ==
  /\ At("fork")
  /\ \E p \in Pids :
       LET old == {i \in DOMAIN pwlist : pwlist[i].pid = p}
       IN  /\ proc[p] = "none" /\ \A i \in old : ~pwlist[i].bg
           /\ Becomes(IF old = {} THEN Table ELSE job_unpost(Table, pwlist[Least(old)].job))
           /\ proc' = [proc EXCEPT ![p] = "running"]
           /\ new' = [new EXCEPT !.pid = p]
           /\ back' = IF new.bg THEN back \union {p} ELSE back
  /\ numbjob' = IF new.bg THEN numbjob + 1 ELSE numbjob
  /\ pc' = "alloc"
  /\ UNCHANGED <<script, chld, trapnote, bckpid, res>>

\* job_post: the entry in front, with the number j
PostAs(j, l, bits) ==
  /\ pwlist' = <<[pid |-> new.pid, job |-> j, bg |-> new.bg, done |-> FALSE]>> \o l
  /\ freejobs' = bits
  /\ IF new.bg THEN pc' = "check" /\ bckpid' = new.pid
               ELSE pc' = "fg" /\ UNCHANGED bckpid
  /\ res' = "some"
  /\ UNCHANGED <<script, proc, chld, numbjob, trapnote, new, back>>

\* A number from the length of the table.
PostHigh ==
  /\ pc = "alloc" /\ Free # {}
  /\ PostAs(Len(pwlist) + 1, pwlist, freejobs \union {Len(pwlist) + 1})

Post ==
  /\ pc = "alloc" /\ Free # {}
  /\ \E j \in {Least(Free)} : PostAs(j, pwlist, freejobs \union {j})

PostFull ==
  /\ pc = "alloc" /\ Free = {}
  /\ \E v \in Victims :
       LET w == v \div W
           t == job_unpost(Table, v)
       IN  w < Words /\ PostAs(Taken(t.bits, w), t.list, Marked(t.bits, w))

\* while((pw->p_job = job_alloc(shp)) < 0) job_wait((pid_t)1);
PostWait ==
  /\ pc = "alloc" /\ Free = {}
  /\ \E v \in Victims : v \div W >= Words /\ Becomes(job_unpost(Table, v))
  /\ pc' = "one" /\ res' = "some"
  /\ UNCHANGED <<script, proc, chld, numbjob, trapnote, bckpid, new, back>>

-----------------------------------------------------------------------------
\* job_wait: for a process ("fg"), for any one ("one"), for all ("all")

\* A job_reap in the loop of job_wait at label l, and the trap it may run
WaitReap(l, trap) ==
  /\ pc = l
  /\ chld = "saved" \/ Ready
  /\ Taking /\ job_reap(pwlist, numbjob)
  /\ res' = IF Zombies # {} THEN "some" ELSE IF NoChild THEN "none" ELSE "idle"
  /\ pc' = IF trapnote' /\ chld # "saved" THEN trap ELSE l
  /\ UNCHANGED <<script, freejobs, bckpid, new, back>>

At1(p)    == Least({i \in DOMAIN pwlist : pwlist[i].pid = p})
DoneAt(p) == pwlist[At1(p)].done

\* The process is done: its entry goes, and then every entry that can.
FgDone ==
  /\ pc = "fg" /\ DoneAt(new.pid)
  /\ \E t \in {job_unpost(Table, pwlist[At1(new.pid)].job)} : Becomes(unpost_all(t))
  /\ pc' = "check"
  /\ UNCHANGED <<script, proc, chld, numbjob, trapnote, bckpid, new, res, back>>

FgReap == WaitReap("fg", "fgtrap") /\ ~DoneAt(new.pid) /\ res # "none"

FgGiveUp ==
  /\ pc = "fg" /\ ~DoneAt(new.pid) /\ res = "none"
  /\ Becomes(unpost_all(Table))
  /\ pc' = "check"
  /\ UNCHANGED <<script, proc, chld, numbjob, trapnote, bckpid, new, res, back>>

\* With no child left every entry is marked done, and unposted.
AllGone ==
  LET gone == [i \in DOMAIN pwlist |-> [pwlist[i] EXCEPT !.done = TRUE]]
  IN  unpost_all([list |-> gone, bits |-> freejobs])

\* job_wait((pid_t)1): back to job_alloc after a job_reap that reaped nothing
OneReap == WaitReap("one", "onetrap") /\ res = "some"
OneEnds ==
  /\ pc = "one" /\ res # "some"
  /\ IF res = "none" THEN Becomes(AllGone) ELSE UNCHANGED <<pwlist, freejobs>>
  /\ pc' = "alloc"
  /\ UNCHANGED <<script, proc, chld, numbjob, trapnote, bckpid, new, res, back>>

\* wait without arguments: job_wait((pid_t)-1)
WaitAll ==
  /\ "wait" \in script.ops /\ At("home")
  /\ pc' = "all" /\ new' = [pid |-> None, bg |-> FALSE] /\ res' = "some"
  /\ UNCHANGED <<script, proc, chld, table, trapnote, bckpid, back>>

AllReap == WaitReap("all", "alltrap") /\ (res = "some" \/ (res = "idle" /\ ~trapnote))

\* A wait that takes any job_reap without a catch for the end.
AllEndsEarly ==
  /\ pc = "all"
  /\ \/ res = "none" /\ Becomes(AllGone)
     \/ res = "idle" /\ UNCHANGED <<pwlist, freejobs>>
  /\ pc' = "check"
  /\ UNCHANGED <<script, proc, chld, numbjob, trapnote, bckpid, new, res, back>>

\* It ends without a child, or when a trap is pending.
AllEnds ==
  /\ pc = "all"
  /\ \/ res = "none" /\ Becomes(AllGone)
     \/ res = "idle" /\ trapnote /\ UNCHANGED <<pwlist, freejobs>>
  /\ pc' = "check"
  /\ UNCHANGED <<script, proc, chld, numbjob, trapnote, bckpid, new, res, back>>

\* job_wait((pid_t)0), from the jobs command: what is done is unposted.
Jobs ==
  /\ "jobs" \in script.ops /\ At("home")
  /\ Becomes(unpost_all(Table))
  /\ pc' = "check"
  /\ UNCHANGED <<script, proc, chld, numbjob, trapnote, bckpid, new, res, back>>

\* sh_chktrap after the command, or in the next one that starts no process
Check ==
  /\ At("check") /\ ~trapnote
  /\ pc' = "home"
  /\ UNCHANGED <<script, proc, chld, table, trapnote, bckpid, new, res, back>>

ChkTrap ==
  /\ At("check") \/ At("home")
  /\ trapnote
  /\ trapnote' = FALSE
  /\ Becomes(job_chldtrap(pwlist))
  /\ numbjob' = numbjob - Cardinality(Due(pwlist))
  /\ pc' = "home"
  /\ UNCHANGED <<script, proc, chld, bckpid, new, res, back>>

-----------------------------------------------------------------------------
Main == \/ Background \/ Foreground \/ LimitTest \/ LimitReap
        \/ ReapTrap("limittrap", "limit") \/ ReapTrap("onetrap", "one")
        \/ ReapTrap("fgtrap", "fg") \/ ReapTrap("alltrap", "all")
        \/ Fork \/ Post \/ PostFull \/ PostWait \/ FgDone \/ FgReap \/ FgGiveUp
        \/ OneReap \/ OneEnds \/ WaitAll \/ AllReap \/ AllEnds \/ Jobs \/ Check \/ ChkTrap

Handler == Defer \/ HandlerReap

Next == Main \/ Handler \/ \E p \in Pids : KidExits(p)

\* The script runs on, SIGCHLD is delivered, and no job runs for ever.
Spec == /\ Init /\ [][Next]_vars /\ WF_vars(Main) /\ WF_vars(Handler)
        /\ \A p \in Pids : WF_vars(KidExits(p))

-----------------------------------------------------------------------------
Entry  == [pid : Pids, job : Nat \ {0}, bg : BOOLEAN, done : BOOLEAN]
Labels == {"home", "limit", "limitreap", "limittrap", "fork", "alloc", "one", "onetrap",
           "fg", "fgtrap", "all", "alltrap", "check"}

(* The table and its counters have their types, and no number is marked that
   the vector does not hold. *)
TypeOK ==
  /\ script \in Scripts
  /\ proc \in [Pids -> {"none", "running", "zombie"}]
  /\ chld \in {"none", "pending", "saved"}
  /\ pwlist \in Seq(Entry)
  /\ freejobs \subseteq 1..(Words * W) /\ numbjob \in Int
  /\ trapnote \in BOOLEAN
  /\ bckpid \in Pids \union {None} /\ pc \in Labels
  /\ new \in [pid : Pids \union {None}, bg : BOOLEAN]
  /\ res \in {"some", "none", "idle"} /\ back \subseteq Pids

(* No two jobs have one number, and the vector has the bits of the jobs there
   are: "get an unused job number" (jobs.c:1977).  When the numbers are used up
   this is so with a vector of one full word only: otherwise job_alloc finds the
   bit it has freed in another word, or past the last number. *)
UniqueNumbers == script.limit = W \/ script.limit > Cardinality(Pids) =>
  /\ \A i, k \in DOMAIN pwlist : pwlist[i].job = pwlist[k].job => i = k
  /\ freejobs = {pwlist[i].job : i \in DOMAIN pwlist}

(* "the shell will wait for a job to complete before staring a new job"
   (sh.1:2093): when it waits for JOBMAX, and every end of a job has been seen,
   JOBMAX jobs do run. *)
WaitsForOne ==
  pc = "limitreap" /\ Zombies = {} => Cardinality(back) >= script.max

(* The wait for JOBMAX ends, with a trap on CHLD or without one, though the
   count may be too high (xec.c:1666). *)
LimitEnds == (pc = "limit") ~> (pc = "fork")

(* wait without arguments ends with no child, unless a trap is pending. *)
WaitedForAll == [][pc = "all" /\ pc' = "check" /\ ~trapnote => NoChild]_vars

(* "each completing background job gets its own trap" (RELEASE:1768): with a
   CHLD trap, and numbers for all jobs, an entry that is due for the trap is
   announced.  With the numbers used up job_post may wait for, and reap, the
   process it is about to post; nothing announces that one. *)
EveryJobAnnounced ==
  \A p \in Pids :
    (/\ script.trap /\ script.limit > Cardinality(Pids)
     /\ \E i \in Due(pwlist) : pwlist[i].pid = p)
      ~> ~(\E i \in Due(pwlist) : pwlist[i].pid = p)
============================================================================
