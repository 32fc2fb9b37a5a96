------------------------------ MODULE AbsSave ------------------------------
(***************************************************************************)
(* What the shell promises about the exit status of a background process:  *)
(* "wait pid" gives it once, in the environment (shell or subshell) that   *)
(* started the process, unless more than Limit statuses were waiting to be *)
(* asked for.  Nothing is promised for a process that the environment left *)
(* running: the subshell that started it ended, or it is the parent's.     *)
(***************************************************************************)
EXTENDS Naturals, FiniteSets, Functions

CONSTANTS
  Pids,    \* process numbers, which the system uses again
  Vals,    \* exit statuses
  Envs,    \* environment numbers
  Limit,   \* how many statuses are remembered for certain
  NoEnt    \* the answer for a process this environment does not know

VARIABLES
  env,       \* the current environment
  running,   \* environment of each process that was posted and still runs
  known,     \* [env, val] of each process that ended and was not waited for
  left,      \* processes left running
  forked,    \* this is the child of a fork
  answer     \* of the last wait

vars == <<env, running, known, left, forked, answer>>

Without(f, p) == Restrict(f, DOMAIN f \ {p})
With(f, p, x) == [q \in DOMAIN f \union {p} |-> IF q = p THEN x ELSE f[q]]

Init == /\ env = 0 /\ forked = FALSE /\ answer = NoEnt
        /\ running = <<>> /\ known = <<>> /\ left = {}

\* What may remain of the statuses k: all but those of processes left, or no
\* fewer than Limit; after a fork nothing is promised for the old ones.
Kept(k) ==
  { Restrict(k, D) : D \in { D \in SUBSET DOMAIN k :
      DOMAIN k \ D \subseteq left \/ Cardinality(D) >= Limit \/ forked } }

\* Room may have been made for the status of the process that had the number.
Start(p) == /\ \E k \in Kept(known) : known' = Without(k, p)
            /\ running' = With(running, p, env)
            /\ left' \in SUBSET (left \ {p})
            /\ UNCHANGED <<env, forked, answer>>

\* A process ends; one that was never posted belongs to the environment it
\* ends in.
End(p, v) ==
  /\ known' \in Kept(With(known, p,
       [env |-> IF p \in DOMAIN running THEN running[p] ELSE env, val |-> v]))
  /\ running' = Without(running, p)
  /\ left' \in SUBSET left
  /\ UNCHANGED <<env, forked, answer>>

\* wait returns only for a process that has ended.
Wait(p) ==
  /\ p \notin left
  /\ p \in DOMAIN running => running[p] # env
  /\ \/ /\ p \in DOMAIN known /\ known[p].env = env
        /\ answer' = known[p].val
        /\ known' = Without(known, p)
     \/ /\ p \notin DOMAIN known \/ known[p].env # env
        /\ answer' = NoEnt
        /\ known' = known
  /\ UNCHANGED <<env, running, left, forked>>

WaitLeft(p) ==
  /\ p \in left
  /\ answer' \in Vals \union {NoEnt}
  /\ known' \in {known, Without(known, p)}
  /\ left' \in SUBSET left
  /\ UNCHANGED <<env, running, forked>>

Forget == /\ known' \in Kept(known) /\ left' \in SUBSET left
          /\ UNCHANGED <<env, running, forked, answer>>

\* To another environment; the processes of this one may be left.
Move == /\ env' \in Envs
        /\ left' \in SUBSET (left \union { p \in DOMAIN running : running[p] = env })
        /\ UNCHANGED <<running, known, forked, answer>>

\* The child of a fork has no processes; it may still find the statuses its
\* parent knew.
Fork == /\ forked' = TRUE /\ env' \in Envs
        /\ running' = <<>>
        /\ left' \in SUBSET (left \union DOMAIN running)
        /\ \E D \in SUBSET DOMAIN known : known' = Restrict(known, D)
        /\ UNCHANGED answer

Next == \/ \E p \in Pids : \/ Start(p) \/ Wait(p) \/ WaitLeft(p)
                           \/ \E v \in Vals : End(p, v)
        \/ Forget \/ Move \/ Fork

Spec == Init /\ [][Next]_vars
=============================================================================
