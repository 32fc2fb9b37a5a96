------------------------------ MODULE SigTrap ------------------------------
(***************************************************************************)
(* Signals and traps of ksh93: the handler sh_fault, the trap builtin with *)
(* sh_sigtrap and sh_sigclear, the check sh_chktrap after every command,   *)
(* the CHLD trap (job_reap, job_chldtrap), and the trap table that a       *)
(* function saves and restores (sh_funscope, sh_sigreset).                 *)
(*                                                                         *)
(* A handler runs between two steps of the shell and to its end.  A        *)
(* signal is three things that must agree: a siginfo record queued for it, *)
(* a bit in sigflag, and a bit in trapnote without which the shell does    *)
(* not look at the other two.                                              *)
(***************************************************************************)
EXTENDS Naturals

CONSTANTS
  SigMax,        \* signals are 1 .. SigMax
  CHLD,          \* the number of SIGCHLD
  EntryIgnored,  \* signals ignored when the shell started
  Scripts,       \* [first, cmds, sends]: signals on which traps are set at the
                 \* start, commands run after that, signals sent to the shell
  MaxSends,      \* bound: signals sent to the shell
  MaxKids        \* bound: background jobs started

Sigs == 1..SigMax
Coms == {"none", "ignore", "action"}  \* trapcom[sig]: null, empty, a string

\* trap action sig, trap '' sig, trap - sig; a job with &; a function that
\* is called and returns; any other command
Commands == [op : {"trap"}, sig : Sigs, com : Coms]
              \union [op : {"fork", "call", "return", "other"}]

ASSUME SigAssumption ==
  /\ SigMax \in Nat /\ CHLD \in Sigs
  /\ EntryIgnored \subseteq Sigs \ {CHLD}
  /\ MaxSends \in Nat /\ MaxKids \in Nat
  /\ Scripts \subseteq [first : SUBSET (Sigs \ EntryIgnored),
                          cmds : SUBSET Commands, sends : SUBSET Sigs]

VARIABLES
  script,    \* the script that runs, fixed
  \* the kernel
  disp,      \* disposition: default, ignore, sh_fault or job_waitsafe
  pending,   \* signals sent and not delivered
  sent,      \* how many were sent
  running, zombie,   \* background jobs
  \* the shell
  trapcom, trapmax,  \* of shp->st
  outer,     \* [trapcom, trapmax, asked] of the caller, in a function
  fn,        \* a function runs
  fault, trapped, off,   \* sigflag: SH_SIGFAULT, SH_SIGTRAP, SH_SIGOFF
  siginfo,   \* length of the queue of each signal
  trapnote,  \* "trap", "set"
  due,       \* entries with P_BG and P_DONE
  locked, savesig,   \* job.in_critical, a SIGCHLD deferred
  \* sh_chktrap and job_chldtrap
  pc, sig, count, ip, note0,
  \* auxiliaries
  asked,     \* the last trap command for each signal, in this scope
  owed,      \* received under a trap of this scope that has not run since
  passed,    \* received in a function that leaves them to its caller's trap
  credit     \* signals received under a trap, less the runs of it

kernel == <<disp, pending, sent, running, zombie>>
table  == <<trapcom, trapmax, outer, fn, asked>>
flags  == <<fault, trapped, off>>
jobs   == <<due, locked, savesig>>
scan   == <<sig, count, ip, note0>>
ghost  == <<owed, passed, credit>>
vars   == <<script, kernel, table, flags, siginfo, trapnote, jobs, pc, scan, ghost>>

Const(v) == [s \in Sigs |-> v]

\* sh_siginit, job_init, and the traps the script starts with.  The CHLD entry
\* of the signal table has SH_SIGFAULT though job_waitsafe is the handler.
Init ==
  /\ script \in Scripts
  /\ disp = [s \in Sigs |-> IF s = CHLD THEN "job_waitsafe"
                            ELSE IF s \in EntryIgnored THEN "ignore"
                            ELSE IF s \in script.first THEN "sh_fault" ELSE "default"]
  /\ pending = {} /\ sent = 0 /\ running = 0 /\ zombie = 0
  /\ trapcom = [s \in Sigs |-> IF s \in script.first THEN "action" ELSE "none"]
  /\ trapmax \in 0..SigMax + 1 /\ \A s \in script.first : s < trapmax
  /\ trapmax = 0 \/ \E s \in script.first : trapmax = s + 1
  /\ fn = FALSE /\ asked = trapcom
  /\ outer = [trapcom |-> Const("none"), trapmax |-> 0, asked |-> Const("none")]
  /\ fault = [s \in Sigs |-> s = CHLD \/ s \in script.first]
  /\ trapped = Const(FALSE) /\ off = Const(FALSE)
  /\ siginfo = Const(0) /\ trapnote = {}
  /\ due = 0 /\ locked = FALSE /\ savesig = FALSE
  /\ pc = "home" /\ sig = 0 /\ count = FALSE /\ ip = 0 /\ note0 = {}
  /\ owed = {} /\ passed = {} /\ credit = Const(0)

-----------------------------------------------------------------------------
\* Other processes and the kernel

Send(s) ==
  /\ s \in script.sends /\ sent < MaxSends
  /\ sent' = sent + 1
  /\ pending' = IF disp[s] = "ignore" THEN pending ELSE pending \union {s}
  /\ UNCHANGED <<script, disp, running, zombie, table, flags, siginfo, trapnote,
                 jobs, pc, scan, ghost>>

KidExits ==
  /\ running > 0
  /\ running' = running - 1 /\ zombie' = zombie + 1
  /\ pending' = pending \union {CHLD}
  /\ UNCHANGED <<script, disp, sent, table, flags, siginfo, trapnote, jobs, pc,
                 scan, ghost>>

Delivers(s) == pc # "dead" /\ s \in pending /\ pending' = pending \ {s}

\* No handler was ever installed: the shell dies of the signal.
Killed(s) ==
  /\ Delivers(s) /\ disp[s] = "default"
  /\ pc' = "dead"
  /\ UNCHANGED <<script, disp, sent, running, zombie, table, flags, siginfo,
                 trapnote, jobs, scan, ghost>>

FaultTrapQuiet(s) ==
  /\ trapcom[s] = "action"
  /\ siginfo' = [siginfo EXCEPT ![s] = @ + 1]
  /\ trapped' = [trapped EXCEPT ![s] = TRUE]
  /\ owed' = owed \union {s}
  /\ credit' = [credit EXCEPT ![s] = @ + 1]
  /\ UNCHANGED <<trapnote, passed>>

\* sh_fault with a trap: queue the siginfo, then mark trapnote and sigflag.
FaultTrap(s) ==
  /\ trapcom[s] = "action"
  /\ siginfo' = [siginfo EXCEPT ![s] = @ + 1]
  /\ trapnote' = trapnote \union {"trap"}
  /\ trapped' = [trapped EXCEPT ![s] = TRUE]
  /\ owed' = owed \union {s}
  /\ credit' = [credit EXCEPT ![s] = @ + 1]
  /\ UNCHANGED passed

\* sh_fault of a signal whose trap is the empty string.
FaultIgnored(s) ==
  /\ trapcom[s] = "ignore"
  /\ UNCHANGED <<siginfo, trapnote, trapped, ghost>>

\* sh_fault without a trap: the shell, or the function, will end.
FaultUntrapped(s) ==
  /\ trapcom[s] = "none"
  /\ trapnote' = trapnote \union {"set"}
  /\ passed' = IF fn /\ outer.trapcom[s] = "action" THEN passed \union {s} ELSE passed
  /\ UNCHANGED <<siginfo, trapped, owed, credit>>

sh_fault(s) ==
  /\ Delivers(s) /\ disp[s] = "sh_fault"
  /\ FaultTrap(s) \/ FaultIgnored(s) \/ FaultUntrapped(s)
  /\ UNCHANGED <<script, disp, sent, running, zombie, table, fault, off, jobs, pc, scan>>

\* job_reap(SIGCHLD): with a CHLD trap a job is due and sigflag is assigned,
\* which drops SH_SIGFAULT; without one it is forgotten.  trapnote takes the
\* bit that sigflag has after the last entry.
job_reap ==
  LET announce == zombie > 0 /\ trapcom[CHLD] # "none"
  IN  /\ zombie' = 0
      /\ due' = IF announce THEN due + zombie ELSE due
      /\ trapped' = [trapped EXCEPT ![CHLD] = @ \/ announce]
      /\ fault' = [fault EXCEPT ![CHLD] = @ /\ ~announce]
      /\ off' = [off EXCEPT ![CHLD] = @ /\ ~announce]
      /\ trapnote' = IF trapped'[CHLD] THEN trapnote \union {"trap"} ELSE trapnote
      /\ owed' = IF announce THEN owed \union {CHLD} ELSE owed
      /\ credit' = IF announce THEN [credit EXCEPT ![CHLD] = @ + zombie] ELSE credit

job_waitsafe ==
  /\ Delivers(CHLD) /\ disp[CHLD] = "job_waitsafe"
  /\ IF locked
       THEN savesig' = TRUE /\ UNCHANGED <<zombie, due, flags, trapnote, owed, credit>>
       ELSE job_reap /\ UNCHANGED savesig
  /\ UNCHANGED <<script, disp, sent, running, table, siginfo, locked, pc, scan, passed>>

-----------------------------------------------------------------------------
\* Commands

\* sh_sigtrap: install sh_fault unless it is installed, or the signal was
\* ignored when the shell started.
sh_sigtrap(s) ==
  IF fault[s] \/ off[s]
  THEN UNCHANGED <<disp, flags>>
  ELSE /\ trapped' = [trapped EXCEPT ![s] = FALSE]
       /\ IF disp[s] = "ignore"
            THEN off' = [off EXCEPT ![s] = TRUE] /\ UNCHANGED <<disp, fault>>
            ELSE /\ disp' = [disp EXCEPT ![s] = "sh_fault"]
                 /\ fault' = [fault EXCEPT ![s] = TRUE]
                 /\ UNCHANGED off

\* trap action sig and trap '' sig
SetTrap(s, com) ==
  /\ trapmax' = IF s >= trapmax THEN s + 1 ELSE trapmax
  /\ sh_sigtrap(s)
  /\ trapcom' = [trapcom EXCEPT ![s] = IF off'[s] THEN "ignore" ELSE com]
  /\ owed' = IF com = "action" THEN owed ELSE owed \ {s}

\* A form of sh_sigclear that forgets the flag and not the string.
sh_sigclearKeeps(s) == fault[s] /\ trapped' = [trapped EXCEPT ![s] = FALSE]
                       /\ UNCHANGED trapcom

\* trap - sig; sh_fault stays the handler.
sh_sigclear(s) ==
  IF fault[s]
  THEN /\ trapped' = [trapped EXCEPT ![s] = FALSE]
       /\ trapcom' = [trapcom EXCEPT ![s] = "none"]
  ELSE UNCHANGED <<trapped, trapcom>>

ClearTrap(s) ==
  /\ sh_sigclear(s)
  /\ owed' = owed \ {s}
  /\ UNCHANGED <<trapmax, disp, fault, off>>

Trap(s, com) ==
  /\ [op |-> "trap", sig |-> s, com |-> com] \in script.cmds
  /\ pc = "home" /\ pc' = "check"
  /\ asked' = [asked EXCEPT ![s] = com]
  /\ IF com = "none" THEN ClearTrap(s) ELSE SetTrap(s, com)
  /\ UNCHANGED <<script, pending, sent, running, zombie, outer, fn, siginfo,
                 trapnote, jobs, scan, passed, credit>>

Fork ==
  /\ [op |-> "fork"] \in script.cmds
  /\ pc = "home" /\ pc' = "check"
  /\ running + zombie + due < MaxKids
  /\ running' = running + 1
  /\ UNCHANGED <<script, disp, pending, sent, zombie, table, flags, siginfo,
                 trapnote, jobs, scan, ghost>>

Other ==
  /\ [op |-> "other"] \in script.cmds
  /\ pc = "home" /\ pc' = "check"
  /\ UNCHANGED <<script, kernel, table, flags, siginfo, trapnote, jobs, scan, ghost>>

\* sh_sigreset: strings are dropped, empty ones stay; trapnote is cleared.
\* A queue of siginfo stays.
sh_sigreset ==
  /\ trapcom' = [s \in Sigs |-> IF trapcom[s] = "action" THEN "none" ELSE trapcom[s]]
  /\ trapped' = [s \in Sigs |-> trapped[s] /\ trapcom[s] = "none"]
  /\ trapnote' = {}

\* sh_funscope before the body of the function
Call ==
  /\ [op |-> "call"] \in script.cmds
  /\ pc = "home" /\ ~fn
  /\ outer' = [trapcom |-> trapcom, trapmax |-> trapmax, asked |-> asked]
  /\ sh_sigreset
  /\ asked' = [s \in Sigs |-> IF asked[s] = "action" THEN "none" ELSE asked[s]]
  /\ fn' = TRUE
  /\ UNCHANGED <<script, kernel, trapmax, fault, off, siginfo, jobs, pc, scan, ghost>>

\* The entries sh_funscope puts back: as many as the caller's table had, and
\* none when it had none.
Restored(tab) == [s \in Sigs |-> IF outer.trapmax > 0 /\ s <= outer.trapmax
                                   THEN outer.trapcom[s] ELSE tab[s]]

\* sh_funscope after the body, which returned or was left by sh_exit
Return ==
  /\ fn
  /\ \/ pc = "home" /\ [op |-> "return"] \in script.cmds
     \/ pc = "unwind"
  /\ LET cleared == [s \in Sigs |-> IF trapcom[s] = "action" THEN "none" ELSE trapcom[s]]
     IN  trapcom' = Restored(cleared)
  /\ trapped' = [s \in Sigs |-> trapped[s] /\ trapcom[s] = "none"]
  /\ trapnote' = {}
  /\ trapmax' = outer.trapmax /\ asked' = outer.asked /\ fn' = FALSE
  /\ owed' = {s \in owed : trapcom[s] # "action"}
  /\ pc' = "check"
  /\ UNCHANGED <<script, kernel, outer, fault, off, siginfo, jobs, scan, passed, credit>>

\* sh_exit at the top level
Dies ==
  /\ pc = "unwind" /\ ~fn
  /\ pc' = "dead"
  /\ UNCHANGED <<script, kernel, table, flags, siginfo, trapnote, jobs, scan, ghost>>

-----------------------------------------------------------------------------
\* sh_chktrap, called after a command when trapnote is not empty

Quiet ==
  /\ pc = "check" /\ trapnote = {}
  /\ pc' = "home"
  /\ UNCHANGED <<script, kernel, table, flags, siginfo, trapnote, jobs, scan, ghost>>

EnterHigh ==
  /\ pc = "check" /\ trapnote # {}
  /\ trapnote' = trapnote \ {"trap"}
  /\ sig' = trapmax /\ count' = FALSE
  /\ pc' = "scan"
  /\ UNCHANGED <<script, kernel, table, flags, siginfo, jobs, ip, note0, ghost>>

EnterClears ==
  /\ pc = "check" /\ trapnote # {}
  /\ trapnote' = {}
  /\ sig' = (IF trapmax = 0 THEN 0 ELSE trapmax - 1) /\ count' = FALSE
  /\ pc' = "scan"
  /\ UNCHANGED <<script, kernel, table, flags, siginfo, jobs, ip, note0, ghost>>

Enter ==
  /\ pc = "check" /\ trapnote # {}
  /\ trapnote' = trapnote \ {"trap"}
  /\ sig' = (IF trapmax = 0 THEN 0 ELSE trapmax - 1) /\ count' = FALSE
  /\ pc' = "scan"
  /\ UNCHANGED <<script, kernel, table, flags, siginfo, jobs, ip, note0, ghost>>

\* The end of the loop's body: a trap ran and signal 1 is done, so look again.
Bottom ==
  IF sig = 1 /\ count THEN sig' = trapmax - 1 /\ count' = FALSE
                      ELSE sig' = sig - 1 /\ UNCHANGED count

Visited == trapped[sig] \/ siginfo[sig] > 0

Pass ==
  /\ pc = "scan" /\ sig > 0 /\ ~Visited
  /\ Bottom
  /\ UNCHANGED <<script, kernel, table, flags, siginfo, trapnote, jobs, pc, ip, note0, ghost>>

\* The bit goes before the trap runs.
Visit ==
  /\ pc = "scan" /\ sig > 0 /\ Visited /\ sig # CHLD
  /\ trapped' = [trapped EXCEPT ![sig] = FALSE]
  /\ IF trapcom[sig] # "none" THEN pc' = "take" /\ UNCHANGED <<sig, count>>
                              ELSE Bottom /\ UNCHANGED pc
  /\ UNCHANGED <<script, kernel, table, fault, off, siginfo, trapnote, jobs, ip, note0, ghost>>

\* Take without the exchange: the queue is read and stays.
TakeKeeps ==
  /\ pc = "take"
  /\ ip' = siginfo[sig] /\ UNCHANGED siginfo
  /\ IF ip' = 0 THEN pc' = "scan" /\ sig' = sig - 1 ELSE pc' = "body" /\ UNCHANGED sig
  /\ UNCHANGED <<script, kernel, table, flags, trapnote, jobs, count, note0, ghost>>

\* retry: the queue is taken whole; an empty one skips the end of the loop.
Take ==
  /\ pc = "take"
  /\ ip' = siginfo[sig]
  /\ siginfo' = [siginfo EXCEPT ![sig] = 0]
  /\ IF ip' = 0 THEN pc' = "scan" /\ sig' = sig - 1 ELSE pc' = "body" /\ UNCHANGED sig
  /\ UNCHANGED <<script, kernel, table, flags, trapnote, jobs, count, note0, ghost>>

\* One run of the trap, for one siginfo; then the next one, then the queue.
BodyEnds ==
  /\ pc = "body" /\ "set" \notin trapnote
  /\ credit' = [credit EXCEPT ![sig] = IF @ = 0 THEN 0 ELSE @ - 1]
  /\ ip' = ip - 1
  /\ owed' = IF ip = 1 /\ siginfo[sig] = 0 THEN owed \ {sig} ELSE owed
  /\ \/ ip > 1 /\ count' = TRUE /\ UNCHANGED <<pc, sig>>
     \/ ip = 1 /\ siginfo[sig] > 0 /\ pc' = "take" /\ count' = TRUE /\ UNCHANGED sig
     \/ /\ ip = 1 /\ siginfo[sig] = 0
        /\ pc' = "scan"
        /\ IF sig = 1 THEN sig' = trapmax - 1 /\ count' = FALSE
                      ELSE sig' = sig - 1 /\ count' = TRUE
  /\ UNCHANGED <<script, kernel, table, flags, siginfo, trapnote, jobs, note0, passed>>

\* sh_exit out of a trap, after the command during which a signal that has no
\* trap arrived: what sh_chktrap had taken and not run is lost.
BodyLeft ==
  /\ pc \in {"body", "chldbody"} /\ "set" \in trapnote
  /\ pc' = "unwind" /\ locked' = FALSE
  /\ IF locked /\ savesig
       THEN savesig' = FALSE /\ job_reap
       ELSE UNCHANGED <<zombie, due, flags, trapnote, savesig, owed, credit>>
  /\ UNCHANGED <<script, disp, pending, sent, running, table, siginfo, scan, passed>>

\* job_chldtrap: keep trapnote, lock the job table
ChldVisit ==
  /\ pc = "scan" /\ sig = CHLD /\ Visited
  /\ trapped' = [trapped EXCEPT ![CHLD] = FALSE]
  /\ note0' = trapnote /\ locked' = TRUE
  /\ pc' = "chld"
  /\ UNCHANGED <<script, kernel, table, fault, off, siginfo, trapnote, due, savesig,
                 sig, count, ip, ghost>>

ChldRun ==
  /\ pc = "chld" /\ due > 0
  /\ pc' = "chldbody"
  /\ UNCHANGED <<script, kernel, table, flags, siginfo, trapnote, jobs, scan, ghost>>

ChldBodyEnds ==
  /\ pc = "chldbody" /\ "set" \notin trapnote
  /\ due' = due - 1
  /\ credit' = [credit EXCEPT ![CHLD] = IF @ = 0 THEN 0 ELSE @ - 1]
  /\ owed' = IF due = 1 THEN owed \ {CHLD} ELSE owed
  /\ pc' = "chld"
  /\ UNCHANGED <<script, kernel, table, flags, siginfo, trapnote, locked, savesig,
                 scan, passed>>

\* trapnote as it was; job_unlock, which reaps what was deferred; continue.
ChldDone ==
  /\ pc = "chld" /\ due = 0
  /\ locked' = FALSE /\ savesig' = FALSE
  /\ LET reaped == IF savesig THEN zombie ELSE 0
         again  == reaped > 0 /\ trapcom[CHLD] # "none"
     IN  /\ zombie' = zombie - reaped
         /\ due' = IF again THEN reaped ELSE 0
         /\ trapped' = [trapped EXCEPT ![CHLD] = @ \/ again]
         /\ fault' = [fault EXCEPT ![CHLD] = @ /\ ~again]
         /\ off' = [off EXCEPT ![CHLD] = @ /\ ~again]
         /\ trapnote' = IF savesig /\ trapped'[CHLD] THEN note0 \union {"trap"} ELSE note0
         /\ owed' = IF again THEN owed \union {CHLD} ELSE owed
         /\ credit' = IF again THEN [credit EXCEPT ![CHLD] = @ + reaped] ELSE credit
  /\ pc' = "scan" /\ sig' = sig - 1
  /\ UNCHANGED <<script, disp, pending, sent, running, table, siginfo, count, ip,
                 note0, passed>>

\* trapnote loses the trap bit after the scan, not before it.
ScanEndsClears ==
  /\ pc = "scan" /\ sig = 0
  /\ trapnote' = trapnote \ {"trap"}
  /\ pc' = IF "set" \in trapnote THEN "unwind" ELSE "home"
  /\ UNCHANGED <<script, kernel, table, flags, siginfo, jobs, scan, ghost>>

\* The end of the scan, and sh_exec's test of SH_SIGSET
ScanEnds ==
  /\ pc = "scan" /\ sig = 0
  /\ pc' = IF "set" \in trapnote THEN "unwind" ELSE "home"
  /\ UNCHANGED <<script, kernel, table, flags, siginfo, trapnote, jobs, scan, ghost>>

-----------------------------------------------------------------------------
Main == \/ \E s \in Sigs, com \in Coms : Trap(s, com)
        \/ Fork \/ Other \/ Call \/ Return \/ Dies
        \/ Quiet \/ Enter \/ Pass \/ Visit \/ Take \/ BodyEnds \/ BodyLeft
        \/ ChldVisit \/ ChldRun \/ ChldBodyEnds \/ ChldDone \/ ScanEnds

Handler(s) == sh_fault(s) \/ Killed(s) \/ (s = CHLD /\ job_waitsafe)

Next == Main \/ KidExits \/ \E s \in Sigs : Handler(s) \/ Send(s)

\* The kernel delivers what is pending, and the script runs on, one command
\* after the other.
Spec == /\ Init /\ [][Next]_vars
        /\ WF_vars(Main) /\ \A s \in Sigs : WF_vars(Handler(s))

-----------------------------------------------------------------------------
(* The state of the trap machinery has its type. *)
TypeOK ==
  /\ script \in Scripts
  /\ disp \in [Sigs -> {"default", "ignore", "sh_fault", "job_waitsafe"}]
  /\ pending \subseteq Sigs /\ sent \in Nat /\ running \in Nat /\ zombie \in Nat
  /\ trapcom \in [Sigs -> Coms] /\ asked \in [Sigs -> Coms]
  /\ trapmax \in 0..(SigMax + 1) /\ fn \in BOOLEAN
  /\ outer \in [trapcom : [Sigs -> Coms], trapmax : 0..(SigMax + 1), asked : [Sigs -> Coms]]
  /\ fault \in [Sigs -> BOOLEAN] /\ trapped \in [Sigs -> BOOLEAN]
  /\ off \in [Sigs -> BOOLEAN]
  /\ siginfo \in [Sigs -> Nat] /\ trapnote \subseteq {"trap", "set"}
  /\ due \in Nat /\ locked \in BOOLEAN /\ savesig \in BOOLEAN
  /\ pc \in {"home", "check", "scan", "take", "body", "chld", "chldbody",
             "unwind", "dead"}
  /\ sig \in 0..SigMax /\ count \in BOOLEAN /\ ip \in Nat
  /\ note0 \subseteq {"trap", "set"}
  /\ owed \subseteq Sigs /\ passed \subseteq Sigs /\ credit \in [Sigs -> Nat]

(* A trap runs at most once for each signal received under it: what is queued
   for a signal, and what sh_chktrap has taken of it, are signals that were
   received and not yet paid for (set_trapinfo, sh_chktrap). *)
Taken(s)  == IF pc = "body" /\ sig = s THEN ip ELSE 0
Accounted ==
  /\ \A s \in Sigs \ {CHLD} : siginfo[s] + Taken(s) <= credit[s]
  /\ due <= credit[CHLD]

(* Between two commands a signal whose trap has not run is announced by
   trapnote: otherwise sh_exec never calls sh_chktrap for it. *)
Announced == pc = "home" /\ owed # {} => "trap" \in trapnote

(* The trap of a signal is what the last trap command of this scope asked for,
   and again what it was when a function has returned, for every signal that
   was not ignored on entry (sh.1:7427-7436). *)
AsAsked == \A s \in Sigs \ EntryIgnored : trapcom[s] = asked[s]

(* "action will be processed ... when the shell receives signal(s) sig"
   (sh.1:7402-7406): a signal received under a trap is followed by a run of it,
   unless the trap is taken back or the shell ends. *)
EveryTrapRuns == \A s \in Sigs : s \in owed ~> (s \notin owed \/ pc = "dead")

(* A signal that has no trap, received outside of a function, ends the shell:
   nothing clears its mark in trapnote before sh_exec tests it (sh_fault,
   xec.c:3039). *)
UntrappedEnds == ("set" \in trapnote /\ ~fn) ~> pc = "dead"

(* "A trap condition that is not caught or ignored by the function causes the
   function to terminate and the condition to be passed on to the caller"
   (sh.1:3980-3982): when the function has ended the signal waits for, or has had,
   its trap in the caller. *)
PassedOn == \A s \in passed : fn \/ trapped[s] \/ siginfo[s] > 0
============================================================================
