------------------------------ MODULE JobLock ------------------------------
(***************************************************************************)
(* The critical-region protocol of ksh93's job table (sh/jobs.c,           *)
(* include/jobs.h): the counter job.in_critical, the deferred SIGCHLD in   *)
(* job.savesig, the SIGCHLD handler job_waitsafe, the reaper job_reap and  *)
(* the callers that bracket their work with job_lock() and job_unlock().   *)
(*                                                                         *)
(* One process, two flows of control: the main program, and the signal     *)
(* handler, which may start between any two of its steps and runs to its   *)
(* end before the main program moves again.  Children exit at any time.    *)
(* job_unlock and job_reap are subroutines with a return label; the main   *)
(* program runs at level 0 and the body of a CHLD trap at level 1.         *)
(***************************************************************************)
EXTENDS Naturals, FiniteSets

CONSTANTS
  Children,   \* the background jobs the script may start, one process each
  UMax,       \* largest value of "unsigned int in_critical" (2^32-1 in C)
  WMod,       \* number of values of "char waitsafe" (256 in C)
  Scripts     \* the scripts: [trap, ops], whether one sets a trap on CHLD, and
              \* the commands it runs

AllOps == {"fork", "wait", "pipe", "alloc", "trap", "usage", "error",
           "nospawn", "exit", "killq"}
\* The commands whose every path leaves the region it entered.
BalancedOps == {"fork", "wait", "pipe", "alloc", "trap", "usage"}

ASSUME ScriptAssumption == Scripts \subseteq [trap : BOOLEAN, ops : SUBSET AllOps]
ASSUME WidthAssumption == UMax \in Nat /\ UMax >= 3
ASSUME WModAssumption  == WMod \in Nat /\ WMod >= 2

Levels == 0..1   \* bound: the body of a CHLD trap takes no CHLD trap itself

\* The labels of the main program, by the number of regions it has entered,
\* and not left, there.
Outside == {"home", "read", "cmd", "clean", "malloc", "pread", "failed",
            "exit", "jump", "chldtrap", "trapret"}
Inside  == {"walk", "spawn", "post", "forked", "waiting", "waited", "got",
            "nostatus", "unposting", "piped", "walkarg", "closing", "killing",
            "scan"}
Nested  == {"posting"}

Labels   == Outside \union Inside \union Nested
Depth(l) == IF l \in Nested THEN 2 ELSE IF l \in Inside THEN 1 ELSE 0
Sub    == {"unlock", "dec", "reap", "waitpid", "reapend"}  \* the subroutines

VARIABLES
  kid,          \* a child in the kernel: unborn, running, zombie or reaped
  pending,      \* SIGCHLD is pending for the shell
  blocked,      \* SIGCHLD is blocked
  posted,       \* children with an entry on job.pwlist
  bg,           \* entries with P_BG
  done,         \* entries with P_DONE
  ops,          \* the commands of the script that runs, fixed
  trapcom,      \* the CHLD trap is set: st.trapcom[SIGCHLD], fixed here
  saved,        \* children whose status went to the bck list instead
  in_critical, savesig, waitsafe,   \* the fields of struct jobs
  sigflag,      \* sigflag[SIGCHLD] & SH_SIGTRAP
  handler,      \* job_waitsafe: off, entered or reaping
  lvl,          \* level the main program runs at
  pc,           \* label at each level
  uret,         \* return label of job_unlock
  rret,         \* return label of job_reap
  reap,         \* locals of job_reap
  target,       \* the process job_wait waits for
  tret,         \* return label of job_chldtrap
  tjob,         \* the job job_chldtrap has run the trap for
  crit          \* job_reap's copy of in_critical during job_chldtrap

kernel == <<kid, pending>>
table  == <<posted, bg, done, saved>>
region == <<in_critical, savesig, waitsafe>>
calls  == <<uret, rret, reap, target>>
trapv  == <<ops, trapcom, tret, tjob, crit>>
vars   == <<kid, pending, blocked, posted, bg, done, saved, in_critical,
            savesig, waitsafe, sigflag, handler, lvl, pc, uret, rret, reap,
            target, ops, trapcom, tret, tjob, crit>>

Inc(n) == IF n = UMax THEN 0 ELSE n + 1    \* asoincint
Dec(n) == IF n = 0 THEN UMax ELSE n - 1    \* asodecint
Bump(w) == (w + 1) % WMod                  \* job.waitsafe++

ReapLocals == [sig : BOOLEAN, nohang : BOOLEAN, nochild : BOOLEAN]

Init ==
  /\ kid = [c \in Children |-> "unborn"]
  /\ pending = FALSE /\ blocked = FALSE
  /\ posted = {} /\ bg = {} /\ done = {} /\ saved = {}
  /\ in_critical = 0 /\ savesig = FALSE /\ waitsafe = 0
  /\ \E s \in Scripts : trapcom = s.trap /\ ops = s.ops
  /\ sigflag = FALSE
  /\ handler = "off" /\ lvl = 0
  /\ pc = [l \in Levels |-> "home"]
  /\ uret = [l \in Levels |-> "home"]
  /\ rret = [l \in Levels |-> "dec"]
  /\ reap = [l \in Levels |-> [sig |-> FALSE, nohang |-> FALSE, nochild |-> FALSE]]
  /\ target \in [Levels -> Children]
  /\ target[0] = target[1]
  /\ tjob = target[0]
  /\ tret = "home" /\ crit = 0

(***************************************************************************)
(* Moves of the main program.                                              *)
(***************************************************************************)
At(l)  == handler = "off" /\ pc[lvl] = l
Goto(l) == pc' = [pc EXCEPT ![lvl] = l]

\* job_lock() and on to label l.
Lock(l) == /\ in_critical' = Inc(in_critical)
           /\ Goto(l)
           /\ UNCHANGED <<savesig, waitsafe>>

\* Call job_unlock(); it returns to label l.
Unlock(l) == /\ Goto("unlock")
             /\ uret' = [uret EXCEPT ![lvl] = l]
             /\ UNCHANGED <<rret, reap, target>>

\* Mutant: a deferred signal is never looked at.
UnlockTestBlind ==
  /\ At("unlock")
  /\ Goto("dec")
  /\ UNCHANGED <<kernel, blocked, table, region, sigflag, handler, lvl, calls,
                 trapv>>

\* The test of job_unlock(): reap a deferred signal in the outermost region.
UnlockTest ==
  /\ At("unlock")
  /\ \/ /\ in_critical = 1 /\ savesig
        /\ Goto("reap")
        /\ rret' = [rret EXCEPT ![lvl] = "dec"]
        /\ reap' = [reap EXCEPT ![lvl].sig = TRUE]
     \/ /\ ~(in_critical = 1 /\ savesig)
        /\ Goto("dec")
        /\ UNCHANGED <<rret, reap>>
  /\ UNCHANGED <<kernel, blocked, table, region, sigflag, handler, lvl, uret,
                 target, trapv>>

UnlockDec ==
  /\ At("dec")
  /\ in_critical' = Dec(in_critical)
  /\ Goto(uret[lvl])
  /\ UNCHANGED <<kernel, blocked, table, savesig, waitsafe, sigflag, handler,
                 lvl, calls, trapv>>

(***************************************************************************)
(* job_reap: its entry, one round of its waitpid loop, and its end.        *)
(***************************************************************************)
ReapStart ==
  /\ At("reap")
  /\ savesig' = FALSE
  /\ reap' = [reap EXCEPT ![lvl].nohang = reap[lvl].sig, ![lvl].nochild = FALSE]
  /\ Goto("waitpid")
  /\ UNCHANGED <<kernel, blocked, table, in_critical, waitsafe, sigflag,
                 handler, lvl, uret, rret, target, trapv>>

\* The body of the loop for a child that has terminated.
Collect(c) ==
  /\ kid[c] = "zombie"
  /\ kid' = [kid EXCEPT ![c] = "reaped"]
  /\ waitsafe' = Bump(waitsafe)
  /\ \/ /\ c \in posted
        /\ done' = done \union {c}
        /\ bg' = IF trapcom THEN bg ELSE bg \ {c}
        /\ sigflag' = (sigflag \/ (trapcom /\ c \in bg))
        /\ saved' = saved
     \/ /\ c \notin posted
        /\ saved' = saved \union {c}
        /\ UNCHANGED <<done, bg, sigflag>>
  /\ UNCHANGED <<pending, posted, in_critical, savesig>>

Zombie  == \E c \in Children : kid[c] = "zombie"
Running == \E c \in Children : kid[c] = "running"

ReapChild ==
  /\ At("waitpid")
  /\ \E c \in Children : Collect(c)
  /\ reap' = [reap EXCEPT ![lvl].nohang = TRUE]
  /\ UNCHANGED <<blocked, handler, lvl, pc, uret, rret, target, trapv>>

\* Nothing to collect: waitpid returns 0 under WNOHANG, or fails with ECHILD.
\* Without WNOHANG it blocks while a child runs.
ReapLast ==
  /\ At("waitpid")
  /\ ~Zombie
  /\ Running => reap[lvl].nohang
  /\ reap' = [reap EXCEPT ![lvl].nochild = ~Running]
  /\ Goto("reapend")
  /\ UNCHANGED <<kernel, blocked, table, region, sigflag, handler, lvl, uret,
                 rret, target, trapv>>

\* job_reap(0) runs the CHLD trap itself, outside every region.
ReapEnd ==
  /\ At("reapend")
  /\ \/ /\ lvl = 0 /\ ~reap[lvl].sig /\ sigflag
        /\ crit' = in_critical
        /\ in_critical' = 0
        /\ tret' = rret[lvl]
        /\ Goto("chldtrap")
     \/ /\ ~(lvl = 0 /\ ~reap[lvl].sig /\ sigflag)
        /\ Goto(rret[lvl])
        /\ UNCHANGED <<crit, in_critical, tret>>
  /\ UNCHANGED <<kernel, blocked, table, savesig, waitsafe, sigflag, handler,
                 lvl, calls, ops, trapcom, tjob>>

(***************************************************************************)
(* job_waitsafe, the SIGCHLD handler.  The signal is blocked while it      *)
(* runs.                                                                   *)
(***************************************************************************)
Deliver ==
  /\ pending /\ ~blocked /\ handler = "off"
  /\ pending' = FALSE /\ blocked' = TRUE /\ handler' = "entered"
  /\ UNCHANGED <<kid, table, region, sigflag, lvl, pc, calls, trapv>>

vmbusy == pc[lvl] = "malloc"

HandlerDefer ==
  /\ handler = "entered"
  /\ in_critical # 0 \/ vmbusy
  /\ savesig' = TRUE
  /\ waitsafe' = Bump(waitsafe)
  /\ handler' = "off" /\ blocked' = FALSE
  /\ UNCHANGED <<kernel, table, in_critical, sigflag, lvl, pc, calls, trapv>>

\* Mutant: the handler reaps whatever it interrupted.
HandlerReapAlways ==
  /\ handler = "entered"
  /\ savesig' = FALSE
  /\ handler' = "reaping"
  /\ UNCHANGED <<kernel, blocked, table, in_critical, waitsafe, sigflag, lvl,
                 pc, calls, trapv>>

HandlerReap ==
  /\ handler = "entered"
  /\ in_critical = 0 /\ ~vmbusy
  /\ savesig' = FALSE
  /\ handler' = "reaping"
  /\ UNCHANGED <<kernel, blocked, table, in_critical, waitsafe, sigflag, lvl,
                 pc, calls, trapv>>

HandlerChild ==
  /\ handler = "reaping"
  /\ \E c \in Children : Collect(c)
  /\ UNCHANGED <<blocked, handler, lvl, pc, calls, trapv>>

HandlerReturn ==
  /\ handler = "reaping"
  /\ ~Zombie
  /\ handler' = "off" /\ blocked' = FALSE
  /\ UNCHANGED <<kernel, table, region, sigflag, lvl, pc, calls, trapv>>

(***************************************************************************)
(* The command loop.  At level 0 "home" is the top of exfile's loop, which *)
(* walks the table when it has an entry; at level 1 it is the end of the   *)
(* trap's body.                                                            *)
(***************************************************************************)
Prompt ==
  /\ At("home") /\ lvl = 0
  /\ \/ /\ posted # {} /\ Lock("walk")
     \/ /\ posted = {} /\ Goto("read") /\ UNCHANGED region
  /\ UNCHANGED <<kernel, blocked, table, sigflag, handler, lvl, calls, trapv>>

\* job_unpost of the jobs S: those that have finished and do not wait for a
\* CHLD trap leave the list, and their flags are cleared.
Unpost(S) == /\ posted' = posted \ (S \intersect (done \ bg))
             /\ done' = done \ (S \ bg)
             /\ UNCHANGED <<bg, saved>>

PromptWalk ==
  /\ At("walk")
  /\ Unpost(posted)
  /\ Unlock("read")
  /\ UNCHANGED <<kernel, blocked, region, sigflag, handler, lvl, trapv>>

ReadCommand ==
  /\ At("read")
  /\ Goto("cmd")
  /\ UNCHANGED <<kernel, blocked, table, region, sigflag, handler, lvl, calls,
                 trapv>>

\* A command that touches no job.
NoOp ==
  /\ At("cmd")
  /\ Goto("home")
  /\ UNCHANGED <<kernel, blocked, table, region, sigflag, handler, lvl, calls,
                 trapv>>

(***************************************************************************)
(* Starting a background job: job_fork(-1), the fork or spawn, job_post    *)
(* inside its own region, job_fork(pid).  sh_fork blocks signals from the  *)
(* fork to the end of job_post, sh_ntfork does not.                        *)
(***************************************************************************)
\* Mutant: the region is not entered before the fork.
ForkNoLock ==
  /\ At("cmd") /\ "fork" \in ops
  /\ \E c \in Children : kid[c] = "unborn"
  /\ Goto("spawn")
  /\ blocked' \in BOOLEAN
  /\ UNCHANGED <<kernel, table, region, sigflag, handler, lvl, calls, trapv>>

ForkLock ==
  /\ At("cmd") /\ "fork" \in ops
  /\ \E c \in Children : kid[c] = "unborn"
  /\ Lock("spawn")
  /\ blocked' \in BOOLEAN
  /\ UNCHANGED <<kernel, table, sigflag, handler, lvl, calls, trapv>>

ForkChild ==
  /\ At("spawn")
  /\ \E c \in Children :
       /\ kid[c] = "unborn"
       /\ kid' = [kid EXCEPT ![c] = "running"]
       /\ target' = [target EXCEPT ![lvl] = c]
  /\ Goto("post")
  /\ UNCHANGED <<pending, blocked, table, region, sigflag, handler, lvl, uret,
                 rret, reap, trapv>>

\* sh_ntfork cannot start the program: job_fork(0), the branch written for
\* the child of a fork, which also empties the region, then the error exit.
SpawnFail ==
  /\ At("spawn") /\ "nospawn" \in ops /\ ~blocked
  /\ Unlock("failed")
  /\ UNCHANGED <<kernel, blocked, table, region, sigflag, handler, lvl, trapv>>

SpawnReset ==
  /\ At("failed")
  /\ waitsafe' = 0 /\ in_critical' = 0
  /\ Goto("exit")
  /\ UNCHANGED <<kernel, blocked, table, savesig, sigflag, handler, lvl, calls,
                 trapv>>

PostLock ==
  /\ At("post")
  /\ Lock("posting")
  /\ UNCHANGED <<kernel, blocked, table, sigflag, handler, lvl, calls, trapv>>

PostJob ==
  /\ At("posting")
  /\ posted' = posted \union {target[lvl]}
  /\ bg' = bg \union {target[lvl]}
  /\ Unlock("forked")
  /\ UNCHANGED <<kernel, blocked, done, saved, region, sigflag, handler, lvl,
                 trapv>>

ForkUnlock ==
  /\ At("forked")
  /\ blocked' = FALSE
  /\ Unlock("home")
  /\ UNCHANGED <<kernel, table, region, sigflag, handler, lvl, trapv>>

(***************************************************************************)
(* job_wait(-pid), the wait builtin, for a process on the list.            *)
(***************************************************************************)
WaitLock ==
  /\ At("cmd") /\ "wait" \in ops
  /\ \E c \in posted : target' = [target EXCEPT ![lvl] = c]
  /\ Lock("waiting")
  /\ UNCHANGED <<kernel, blocked, table, sigflag, handler, lvl, uret, rret,
                 reap, trapv>>

WaitFound ==
  /\ At("waiting")
  /\ target[lvl] \in done
  /\ Unpost({target[lvl]})
  /\ Goto("got")
  /\ UNCHANGED <<kernel, blocked, region, sigflag, handler, lvl, calls, trapv>>

\* Mutant: job_reap comes back to the head of the loop.
WaitReapLoop ==
  /\ At("waiting")
  /\ target[lvl] \notin done
  /\ waitsafe' = 0
  /\ reap' = [reap EXCEPT ![lvl].sig = savesig]
  /\ rret' = [rret EXCEPT ![lvl] = "waiting"]
  /\ Goto("reap")
  /\ UNCHANGED <<kernel, blocked, table, in_critical, savesig, sigflag,
                 handler, lvl, uret, target, trapv>>

\* waitsafe = 0 and the argument of job_reap(job.savesig).
WaitReap ==
  /\ At("waiting")
  /\ target[lvl] \notin done
  /\ waitsafe' = 0
  /\ reap' = [reap EXCEPT ![lvl].sig = savesig]
  /\ rret' = [rret EXCEPT ![lvl] = "waited"]
  /\ Goto("reap")
  /\ UNCHANGED <<kernel, blocked, table, in_critical, savesig, sigflag,
                 handler, lvl, uret, target, trapv>>

\* Mutant: the test for "no child" comes before the test of waitsafe.
WaitAgainEarly ==
  /\ At("waited")
  /\ IF reap[lvl].nochild \/ sigflag THEN Goto("nostatus") ELSE Goto("waiting")
  /\ UNCHANGED <<kernel, blocked, table, region, sigflag, handler, lvl, calls,
                 trapv>>

\* Loop when something was collected or signalled, leave when there is no
\* child, and when the wait is interrupted by a trap that is due.
WaitAgain ==
  /\ At("waited")
  /\ \/ /\ waitsafe # 0 \/ ~(reap[lvl].nochild \/ sigflag)
        /\ Goto("waiting")
     \/ /\ waitsafe = 0 /\ (reap[lvl].nochild \/ sigflag)
        /\ Goto("nostatus")
  /\ UNCHANGED <<kernel, blocked, table, region, sigflag, handler, lvl, calls,
                 trapv>>

WaitUnlock ==
  /\ At("got") \/ At("nostatus")
  /\ Unlock("clean")
  /\ UNCHANGED <<kernel, blocked, table, region, sigflag, handler, lvl, trapv>>

\* The sweep at label done, skipped inside a trap.
WaitSweep ==
  /\ At("clean")
  /\ \/ /\ lvl = 0 /\ Lock("unposting")
     \/ /\ lvl # 0 /\ Goto("home") /\ UNCHANGED region
  /\ UNCHANGED <<kernel, blocked, table, sigflag, handler, lvl, calls, trapv>>

WaitUnpost ==
  /\ At("unposting")
  /\ Unpost(posted)
  /\ Unlock("home")
  /\ UNCHANGED <<kernel, blocked, region, sigflag, handler, lvl, trapv>>

(***************************************************************************)
(* Other commands.                                                         *)
(***************************************************************************)
\* A command inside the memory allocator, where vmbusy() holds.
AllocStart ==
  /\ At("cmd") /\ "alloc" \in ops
  /\ Goto("malloc")
  /\ UNCHANGED <<kernel, blocked, table, region, sigflag, handler, lvl, calls,
                 trapv>>

AllocEnd ==
  /\ At("malloc")
  /\ Goto("home")
  /\ UNCHANGED <<kernel, blocked, table, region, sigflag, handler, lvl, calls,
                 trapv>>

\* piperead: an empty region that reaps, then a read that may block.
PipeStart ==
  /\ At("cmd") /\ "pipe" \in ops
  /\ \/ /\ waitsafe # 0 /\ savesig /\ Lock("piped")
     \/ /\ ~(waitsafe # 0 /\ savesig) /\ Goto("pread") /\ UNCHANGED region
  /\ UNCHANGED <<kernel, blocked, table, sigflag, handler, lvl, calls, trapv>>

PipeUnlock ==
  /\ At("piped")
  /\ Unlock("pread")
  /\ UNCHANGED <<kernel, blocked, table, region, sigflag, handler, lvl, trapv>>

PipeEnd ==
  /\ At("pread")
  /\ Goto("home")
  /\ UNCHANGED <<kernel, blocked, table, region, sigflag, handler, lvl, calls,
                 trapv>>

\* job_walk given a bad job name calls errormsg, hence sh_exit, in its region.
UsageLock ==
  /\ At("cmd") /\ "usage" \in ops
  /\ Lock("walkarg")
  /\ UNCHANGED <<kernel, blocked, table, sigflag, handler, lvl, calls, trapv>>

\* A command that fails outside every region of its own calls sh_exit too.
ErrorStart ==
  /\ At("cmd") /\ "error" \in ops
  /\ Goto("exit")
  /\ UNCHANGED <<kernel, blocked, table, region, sigflag, handler, lvl, calls,
                 trapv>>

\* Mutant: sh_exit leaves a region whether there is one or not.
ShExitAlways ==
  /\ At("exit") \/ At("walkarg")
  /\ Unlock("jump")
  /\ UNCHANGED <<kernel, blocked, table, region, sigflag, handler, lvl, trapv>>

\* sh_exit leaves one region when there is one, then jumps to the checkpoint
\* of the command.
ShExit ==
  /\ At("exit") \/ At("walkarg")
  /\ \/ /\ in_critical # 0 /\ Unlock("jump")
     \/ /\ in_critical = 0 /\ Goto("jump") /\ UNCHANGED calls
  /\ UNCHANGED <<kernel, blocked, table, region, sigflag, handler, lvl, trapv>>

Jump ==
  /\ At("jump")
  /\ Goto("home")
  /\ UNCHANGED <<kernel, blocked, table, region, sigflag, handler, lvl, calls,
                 trapv>>

\* Bound: the levels leaked leave room for the regions of a command.
Room == in_critical + 3 <= UMax

\* job_close at a login shell with running jobs: it says so, and the shell
\* stays.  (An exit that succeeds ends the model's interest.)
CloseLock ==
  /\ At("cmd") /\ "exit" \in ops
  /\ lvl = 0 /\ posted \ done # {} /\ Room
  /\ Lock("closing")
  /\ UNCHANGED <<kernel, blocked, table, sigflag, handler, lvl, calls, trapv>>

\* job_kill with a queued signal for a job: the branch no_sigqueue.
KillLock ==
  /\ At("cmd") /\ "killq" \in ops
  /\ posted # {} /\ Room
  /\ Lock("killing")
  /\ UNCHANGED <<kernel, blocked, table, sigflag, handler, lvl, calls, trapv>>

\* Both return without a job_unlock().
ReturnLocked ==
  /\ At("closing") \/ At("killing")
  /\ Goto("home")
  /\ UNCHANGED <<kernel, blocked, table, region, sigflag, handler, lvl, calls,
                 trapv>>

(***************************************************************************)
(* The CHLD trap: from sh_chktrap between commands, or from job_reap(0).   *)
(***************************************************************************)
CheckTrap ==
  /\ At("cmd") /\ "trap" \in ops
  /\ lvl = 0 /\ sigflag
  /\ sigflag' = FALSE
  /\ tret' = "home"
  /\ Goto("chldtrap")
  /\ UNCHANGED <<kernel, blocked, table, region, handler, lvl, calls,
                 ops, trapcom, tjob, crit>>

TrapLock ==
  /\ At("chldtrap")
  /\ Lock("scan")
  /\ UNCHANGED <<kernel, blocked, table, sigflag, handler, lvl, calls, trapv>>

\* Run the trap for the next finished background job.
TrapBody ==
  /\ At("scan")
  /\ \E c \in posted \intersect bg \intersect done :
       bg' = bg \ {c} /\ tjob' = c
  /\ lvl' = 1
  /\ pc' = [pc EXCEPT ![1] = "cmd"]
  /\ UNCHANGED <<kernel, blocked, posted, done, saved, region, sigflag,
                 handler, calls, ops, trapcom, tret, crit>>

\* The job is unposted after its trap when it is the one in $!.
TrapBodyEnd ==
  /\ At("home") /\ lvl = 1
  /\ lvl' = 0
  /\ Unpost({tjob}) \/ UNCHANGED table
  /\ UNCHANGED <<kernel, blocked, region, sigflag, handler, pc, calls, trapv>>

TrapUnlock ==
  /\ At("scan")
  /\ posted \intersect bg \intersect done = {}
  /\ Unlock("trapret")
  /\ UNCHANGED <<kernel, blocked, table, region, sigflag, handler, lvl, trapv>>

\* Mutant: job_reap does not put in_critical back.
TrapReturnOpen ==
  /\ At("trapret")
  /\ Goto(tret)
  /\ UNCHANGED <<kernel, blocked, table, region, sigflag, handler, lvl, calls,
                 trapv>>

\* Back in sh_chktrap, or in job_reap, which puts in_critical back.
TrapReturn ==
  /\ At("trapret")
  /\ Goto(tret)
  /\ in_critical' = IF tret = "home" THEN in_critical ELSE crit
  /\ UNCHANGED <<kernel, blocked, table, savesig, waitsafe, sigflag, handler,
                 lvl, calls, trapv>>

(***************************************************************************)
(* The kernel: a child exits and raises SIGCHLD.                           *)
(***************************************************************************)
ChildExit(c) ==
  /\ kid[c] = "running"
  /\ kid' = [kid EXCEPT ![c] = "zombie"]
  /\ pending' = TRUE
  /\ UNCHANGED <<blocked, table, region, sigflag, handler, lvl, pc, calls,
                 trapv>>

Main ==
  \/ UnlockTest \/ UnlockDec \/ ReapStart \/ ReapChild \/ ReapLast \/ ReapEnd
  \/ Prompt \/ PromptWalk \/ ReadCommand \/ NoOp
  \/ ForkLock \/ ForkChild \/ SpawnFail \/ SpawnReset \/ PostLock \/ PostJob \/ ForkUnlock
  \/ WaitLock \/ WaitFound \/ WaitReap \/ WaitAgain \/ WaitUnlock
  \/ WaitSweep \/ WaitUnpost
  \/ AllocStart \/ AllocEnd \/ PipeStart \/ PipeUnlock \/ PipeEnd
  \/ UsageLock \/ ErrorStart \/ ShExit \/ Jump
  \/ CloseLock \/ KillLock \/ ReturnLocked
  \/ CheckTrap \/ TrapLock \/ TrapBody \/ TrapBodyEnd \/ TrapUnlock \/ TrapReturn

Handler == HandlerDefer \/ HandlerReap \/ HandlerChild \/ HandlerReturn

Next == Main \/ Deliver \/ Handler \/ \E c \in Children : ChildExit(c)

Spec == Init /\ [][Next]_vars

(***************************************************************************)
(* Fairness: the processor runs the shell and delivers an unblocked        *)
(* signal, the user goes on typing, and every child ends some day.         *)
(***************************************************************************)
Fairness == /\ WF_vars(Main)
            /\ WF_vars(Deliver)
            /\ WF_vars(Handler)
            /\ \A c \in Children : WF_vars(ChildExit(c))

FairSpec == Spec /\ Fairness

(***************************************************************************)
(* Properties.                                                             *)
(***************************************************************************)
TypeOK ==
  /\ kid \in [Children -> {"unborn", "running", "zombie", "reaped"}]
  /\ pending \in BOOLEAN /\ blocked \in BOOLEAN
  /\ posted \subseteq Children /\ bg \subseteq Children
  /\ done \subseteq Children /\ saved \subseteq Children
  /\ in_critical \in 0..UMax /\ savesig \in BOOLEAN /\ waitsafe \in 0..WMod-1
  /\ ops \subseteq AllOps /\ trapcom \in BOOLEAN /\ sigflag \in BOOLEAN
  /\ handler \in {"off", "entered", "reaping"}
  /\ lvl \in Levels
  /\ pc \in [Levels -> Labels \union Sub]
  /\ uret \in [Levels -> Labels]
  /\ rret \in [Levels -> {"dec", "waited"}]
  /\ reap \in [Levels -> ReapLocals]
  /\ target \in [Levels -> Children] /\ tjob \in Children
  /\ tret \in {"home", "dec", "waited"} /\ crit \in 0..UMax

\* Regions entered by the main program at level l and not yet left.
Held(l) ==
  CASE pc[l] \in {"unlock", "dec"} -> 1 + Depth(uret[l])
    [] pc[l] \in {"reap", "waitpid", "reapend"} ->
         IF rret[l] = "dec" THEN 1 + Depth(uret[l]) ELSE Depth(rret[l])
    [] OTHER -> Depth(pc[l])

Balanced == ops \subseteq BalancedOps
Exact    == in_critical = lvl + Held(lvl)

(* Only the main program's own open regions are counted in in_critical      *)
(* (job_lock and job_unlock balance on every path, through the subroutines, *)
(* sh_exit's jump and the CHLD trap, whose body runs inside one region).    *)
RegionCount == Balanced => Exact

(* While job_waitsafe itself reaps, the main program is outside every region *)
(* and outside the allocator: it cannot be in the middle of an update of the *)
(* job table, the status list or the heap.                                  *)
Exclusion == handler = "reaping" => lvl = 0 /\ Held(0) = 0 /\ ~vmbusy

(* Without traps the counter never falls below the regions that are open,   *)
(* whatever job_close, kill -q and failed commands leave behind: a leaked    *)
(* level delays the reaping of children and does not let it in too early.    *)
NeverUnder == ~trapcom => in_critical >= lvl + Held(lvl)

(* A child is on the job list before anyone can collect it: job_fork(-1)     *)
(* keeps the handler out from before the fork until job_post has run.       *)
PostedFirst == Balanced => saved = {}

(* With no CHLD trap set, job_wait leaves its loop without the status of its *)
(* process only when that process has not been collected: waitsafe, a char   *)
(* that counts "wait will not block", is not 0 after a child was collected.  *)
(* A level leaked by another command changes nothing in that.                *)
WaitGetsStatus ==
  ~trapcom => \A l \in Levels : pc[l] = "nostatus" => target[l] \notin done

(* Every child that ends is collected, whether its SIGCHLD is handled at     *)
(* once, deferred by a region, or deferred by the allocator.                *)
EveryZombieReaped ==
  Balanced => \A c \in Children : kid[c] = "zombie" ~> kid[c] = "reaped"
=============================================================================
