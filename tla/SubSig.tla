------------------------------- MODULE SubSig -------------------------------
(***************************************************************************)
(* Signals and virtual subshells of ksh93: sh_subshell runs ( list ) and   *)
(* $(list) in the shell's own process.  On the way in and on the way out   *)
(* it keeps signals off with shp->savesig, which has room for one; in      *)
(* between the traps of the caller do not count, so that a signal ends the *)
(* subshell and is sent again to the shell it came from (shp->lastsig).    *)
(*                                                                         *)
(* sh_chktrap is one step here; its own steps are in SigTrap.              *)
(***************************************************************************)
EXTENDS Integers, FiniteSets

CONSTANTS
  Sigs,      \* signal numbers, above 0
  Benign,    \* those with SH_SIGIGNORE (WINCH); the others have SH_SIGDONE
  MaxDepth,  \* bound: subshells in subshells
  MaxQueue,  \* bound: a longer queue for a trap is counted as this long
  Scripts    \* [trapped, ignored, sends]: signals with a trap at the top level,
             \* with an empty one, and how many signals come

ASSUME SubSigAssumption ==
  /\ Sigs \subseteq Nat \ {0} /\ Benign \subseteq Sigs /\ MaxDepth \in Nat /\ MaxQueue \in Nat
  /\ \A s \in Scripts : /\ s.trapped \subseteq Sigs /\ s.ignored \subseteq Sigs
                        /\ s.trapped \intersect s.ignored = {} /\ s.sends \in Nat

VARIABLES
  script,
  pending, sent,   \* the kernel's pending signals; how many others sent
  subshell,        \* shp->subshell
  pc,
  savesig,         \* 0: signals are let in; -1: kept off; or the one that came
  nsig,            \* the local of sh_subshell that takes it
  jumped,          \* sh_subshell's jmpval is SH_JMPSUB
  lastsig, ignsig,
  siginfo,         \* how many of each signal are queued for its trap
  trapnote,        \* SH_SIGTRAP
  \* auxiliaries
  ran,             \* the last subshell that was entered was to run its commands
  credit,          \* signals sent under a trap, less the runs of it; 0 for those
                   \* in Benign
  owed,            \* one was sent and its trap has not run
  dropped          \* one came where nothing takes it up

Open == 0
Shut == -1

kernel == <<pending, sent>>
saved  == <<savesig, nsig>>
last   == <<jumped, lastsig, ignsig>>
traps  == <<siginfo, trapnote>>
runs   == <<credit, owed>>
ghost  == <<ran, runs, dropped>>
vars   == <<script, kernel, subshell, pc, saved, last, traps, ghost>>

Init ==
  /\ script \in Scripts
  /\ pending = {} /\ sent = 0
  /\ subshell = 0 /\ pc = "home"
  /\ savesig = Open /\ nsig = 0
  /\ jumped = FALSE /\ lastsig = 0 /\ ignsig = 0
  /\ siginfo = [s \in Sigs |-> 0] /\ trapnote = FALSE
  /\ ran = TRUE /\ credit = [s \in Sigs |-> 0] /\ owed = {} /\ dropped = FALSE

-----------------------------------------------------------------------------
\* Other processes, and kill(getpid(),sig): the signal comes before it returns

Send(s) ==
  /\ sent < script.sends /\ pc # "astray"
  /\ s \in script.trapped \union script.ignored
  /\ s \notin pending
  /\ pending' = pending \union {s} /\ sent' = sent + 1
  /\ IF s \in script.trapped
       THEN /\ credit' = [credit EXCEPT ![s] = IF s \in Benign THEN 0 ELSE @ + 1]
            /\ owed' = owed \union {s}
       ELSE UNCHANGED runs
  /\ UNCHANGED <<script, subshell, pc, saved, last, traps, ran, dropped>>

Kill(s) == pending' = IF s > 0 THEN pending \union {s} ELSE pending

\* sh_fault.  The shell, and every subshell, has it as handler for all signals
\* that are sent here.

Delivers(s) == s \in pending /\ pc # "astray" /\ pending' = pending \ {s}

\* Critical region: the last one is kept.
FaultSaved(s) ==
  /\ Delivers(s) /\ savesig # Open
  /\ savesig' = IF s \in Benign THEN savesig ELSE s
  /\ UNCHANGED <<script, sent, subshell, pc, nsig, last, traps, ghost>>

FaultIgnored(s) ==
  /\ Delivers(s) /\ savesig = Open /\ s \in script.ignored
  /\ UNCHANGED <<script, sent, subshell, pc, saved, last, traps, ghost>>

FaultTrap(s) ==
  /\ Delivers(s) /\ savesig = Open /\ s \in script.trapped /\ subshell = 0
  /\ siginfo' = [siginfo EXCEPT ![s] = IF @ < MaxQueue THEN @ + 1 ELSE @]
  /\ trapnote' = TRUE
  /\ UNCHANGED <<script, sent, subshell, pc, saved, last, ghost>>

\* In a subshell the trap is gone.
FaultBenign(s) ==
  /\ Delivers(s) /\ savesig = Open /\ s \in script.trapped /\ subshell > 0
  /\ s \in Benign
  /\ ignsig' = s
  /\ UNCHANGED <<script, sent, subshell, pc, saved, jumped, lastsig, traps, ghost>>

\* A subshell that is jumped over counts itself off, and is counted off again.
FaultEndsTwice(s) ==
  /\ Delivers(s) /\ savesig = Open /\ s \in script.trapped /\ subshell > 0
  /\ s \notin Benign
  /\ lastsig' = s /\ jumped' = TRUE
  /\ pc' = "popped" /\ subshell' = IF pc = "popped" THEN subshell - 1 ELSE subshell
  /\ UNCHANGED <<script, sent, saved, ignsig, traps, ghost>>

\* sh_exit jumps to the innermost subshell.  One that has already dropped its
\* checkpoint, and has not shut signals off yet, is jumped over: what it saved is
\* never restored.
FaultEnds(s) ==
  /\ Delivers(s) /\ savesig = Open /\ s \in script.trapped /\ subshell > 0
  /\ s \notin Benign
  /\ lastsig' = s /\ jumped' = TRUE
  /\ pc' = IF pc = "popped" THEN "astray" ELSE "popped"
  /\ UNCHANGED <<script, sent, subshell, saved, ignsig, traps, ghost>>

sh_fault(s) == \/ FaultSaved(s) \/ FaultIgnored(s) \/ FaultTrap(s)
               \/ FaultBenign(s) \/ FaultEnds(s)

-----------------------------------------------------------------------------
\* sh_chktrap: at the top level every trap that is queued runs, in commands
\* that set lastsig to 0.

sh_chktrap ==
  /\ trapnote' = FALSE
  /\ IF subshell = 0 /\ \E s \in Sigs : siginfo[s] > 0
       THEN /\ siginfo' = [s \in Sigs |-> 0] /\ lastsig' = 0
            /\ credit' = [s \in Sigs |-> IF s \in Benign THEN 0 ELSE credit[s] - siginfo[s]]
            /\ owed' = {s \in owed : siginfo[s] = 0}
       ELSE UNCHANGED <<siginfo, lastsig, runs>>

\* The end of a command
Command ==
  /\ pc = "home" /\ trapnote
  /\ sh_chktrap
  /\ UNCHANGED <<script, kernel, subshell, pc, saved, jumped, ignsig, ran, dropped>>

\* sh_subshell, up to savesig = -1
Enter ==
  /\ pc = "home" /\ subshell < MaxDepth
  /\ savesig' = Shut
  /\ pc' = "setup"
  /\ UNCHANGED <<script, kernel, subshell, nsig, last, traps, ghost>>

\* The subshell is counted, and sh_sigreset takes the traps away, with what is
\* noted of them.
Setup ==
  /\ pc = "setup"
  /\ subshell' = subshell + 1
  /\ trapnote' = FALSE /\ jumped' = FALSE
  /\ dropped' = (dropped \/ trapnote)
  /\ pc' = "test"
  /\ UNCHANGED <<script, kernel, saved, lastsig, ignsig, siginfo, ran, runs>>

\* if(shp->savesig < 0): otherwise the commands are left out.
Test ==
  /\ pc = "test"
  /\ pc' = IF savesig = Shut THEN "open" ELSE "popped"
  /\ ran' = (savesig = Shut)
  /\ UNCHANGED <<script, kernel, subshell, saved, last, traps, runs, dropped>>

\* A form of the next step that leaves signals off.
BodyShut ==
  /\ pc = "open"
  /\ lastsig' = 0
  /\ pc' = "home"
  /\ UNCHANGED <<script, kernel, subshell, saved, jumped, ignsig, traps, ghost>>

\* shp->savesig = 0; sh_exec()
Body ==
  /\ pc = "open"
  /\ savesig' = Open /\ lastsig' = 0
  /\ dropped' = (dropped \/ savesig # Shut)
  /\ pc' = "home"
  /\ UNCHANGED <<script, kernel, subshell, nsig, jumped, ignsig, traps, ran, runs>>

\* The end of the commands
BodyEnds ==
  /\ pc = "home" /\ subshell > 0
  /\ pc' = "popped"
  /\ UNCHANGED <<script, kernel, subshell, saved, last, traps, ghost>>

\* A command that needs a process of its own: sh_subfork, of which the parent
\* jumps to the end of the subshell with signals kept off.
ForkOff ==
  /\ pc = "home" /\ subshell > 0
  /\ savesig' = Shut /\ lastsig' = 0 /\ jumped' = TRUE
  /\ pc' = "popped"
  /\ UNCHANGED <<script, kernel, subshell, nsig, ignsig, traps, ghost>>

\* if(!shp->savesig) shp->savesig = -1
Shutting ==
  /\ pc = "popped"
  /\ savesig' = IF savesig = Open THEN Shut ELSE savesig
  /\ pc' = "restore"
  /\ UNCHANGED <<script, kernel, subshell, nsig, last, traps, ghost>>

\* The caller's traps are back, trapnote is 0, and savesig is read.
Restore ==
  /\ pc = "restore"
  /\ subshell' = subshell - 1
  /\ trapnote' = FALSE
  /\ nsig' = savesig
  /\ pc' = "reopen"
  /\ UNCHANGED <<script, kernel, savesig, last, siginfo, ghost>>

\* shp->savesig = 0, and the signal is sent again.
ReopenDrops ==
  /\ pc = "reopen"
  /\ savesig' = Open /\ nsig' = 0
  /\ dropped' = (dropped \/ savesig # nsig)
  /\ pc' = "check"
  /\ UNCHANGED <<script, kernel, subshell, last, traps, ran, runs>>

Reopen ==
  /\ pc = "reopen"
  /\ savesig' = Open /\ nsig' = 0
  /\ Kill(nsig)
  /\ dropped' = (dropped \/ savesig # nsig)
  /\ pc' = "check"
  /\ UNCHANGED <<script, sent, subshell, last, traps, ran, runs>>

\* job_wait(), if(shp->trapnote) sh_chktrap()
Check ==
  /\ pc = "check" /\ pending = {}
  /\ IF trapnote THEN sh_chktrap ELSE UNCHANGED <<traps, lastsig, runs>>
  /\ pc' = "ignsig"
  /\ UNCHANGED <<script, kernel, subshell, saved, jumped, ignsig, ran, dropped>>

KillIgnsig ==
  /\ pc = "ignsig"
  /\ Kill(ignsig)
  /\ pc' = "lastsig"
  /\ UNCHANGED <<script, sent, subshell, saved, last, traps, ghost>>

\* A subshell that ends for any reason sends the last signal.
KillLastAlways ==
  /\ pc = "lastsig" /\ pending = {}
  /\ Kill(lastsig)
  /\ pc' = "return"
  /\ UNCHANGED <<script, sent, subshell, saved, last, traps, ghost>>

\* if(jmpval==SH_JMPSUB && shp->lastsig) kill(getpid(),shp->lastsig)
KillLast ==
  /\ pc = "lastsig" /\ pending = {}
  /\ Kill(IF jumped THEN lastsig ELSE 0)
  /\ pc' = "return"
  /\ UNCHANGED <<script, sent, subshell, saved, last, traps, ghost>>

Return ==
  /\ pc = "return" /\ pending = {}
  /\ pc' = "home"
  /\ UNCHANGED <<script, kernel, subshell, saved, last, traps, ghost>>

-----------------------------------------------------------------------------
Main == \/ Command \/ Enter \/ Setup \/ Test \/ Body \/ BodyEnds \/ ForkOff
        \/ Shutting \/ Restore \/ Reopen \/ Check \/ KillIgnsig \/ KillLast \/ Return

Next == Main \/ \E s \in Sigs : Send(s) \/ sh_fault(s)

\* The shell runs on and signals are delivered; nobody has to send one.
Spec == Init /\ [][Next]_vars /\ WF_vars(Main) /\ \A s \in Sigs : WF_vars(sh_fault(s))

-----------------------------------------------------------------------------
(* The state of sh_subshell has its type. *)
TypeOK ==
  /\ script \in Scripts
  /\ pending \subseteq Sigs /\ sent \in 0..script.sends
  /\ subshell \in 0..MaxDepth
  /\ pc \in {"home", "setup", "test", "open", "popped", "restore", "reopen", "check",
             "ignsig", "lastsig", "return", "astray"}
  /\ savesig \in Sigs \union {Open, Shut} /\ nsig \in Sigs \union {0, Shut}
  /\ jumped \in BOOLEAN /\ lastsig \in Sigs \union {0} /\ ignsig \in Sigs \union {0}
  /\ siginfo \in [Sigs -> Nat] /\ trapnote \in BOOLEAN
  /\ ran \in BOOLEAN /\ credit \in [Sigs -> Nat] /\ owed \subseteq Sigs
  /\ dropped \in BOOLEAN

(* Commands run with signals let in, at every depth: whichever way a subshell
   was entered, passed over, forked off or left by a signal, savesig is 0 again
   (subshell.c:495, 615, 639, 832).  Elsewhere sh_fault would only store the
   signal, and no one would look at it. *)
SignalsOn == pc \in {"home", "check", "ignsig", "lastsig", "return"} => savesig = Open

(* A signal that is passed from subshell to subshell is in one place at a time,
   so that its trap runs at most once for it.  Signals that a shell without a
   trap ignores are not so: ignsig is never cleared. *)
One(cond)  == IF cond THEN 1 ELSE 0
InFlight(s) ==
  siginfo[s] + One(s \in pending)
    + One(IF pc = "reopen" THEN nsig = s ELSE savesig = s)
    + One(jumped /\ lastsig = s
            /\ pc \in {"popped", "restore", "reopen", "check", "ignsig", "lastsig"})
AtMostOnce == \A s \in script.trapped \ Benign : InFlight(s) <= credit[s]

(* A single signal under a trap of the top level runs it, however deep in
   subshells it comes, and while they are entered and left (subshell.c:834, 861).
   Not so in three places, where it is dropped: noted before sh_sigreset sets
   trapnote to 0, between the test of savesig and its reset, and between the last
   read of savesig and its reset; nor where it jumps over a subshell. *)
OneTrapRuns ==
  \A s \in Sigs \ Benign :
    (script.sends = 1 /\ s \in owed) ~> (s \notin owed \/ dropped \/ pc = "astray")

(* "If action is the null string, then this signal is ignored by the shell and by
   the commands it invokes" (sh.1:7435): with ignored signals only, every subshell runs
   its commands. *)
BodyRuns == script.trapped = {} => ran
============================================================================
