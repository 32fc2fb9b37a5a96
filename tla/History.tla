------------------------------- MODULE History ------------------------------
(***************************************************************************)
(* The history file of ksh93, shared by several shells (edit/history.c):   *)
(* each keeps an open file, the number of the next command and a ring of   *)
(* offsets; commands are appended (hist_write), what others appended is    *)
(* read (hist_eof), the last command is cancelled by a record after it     *)
(* (hist_cancel), and a shell that starts on a large file nobody used for  *)
(* ten minutes copies the end of it to a new file (hist_trim).             *)
(*                                                                         *)
(* A file is a sequence of slots, one for each command, each UNDO record   *)
(* and each marker with a command number; an offset is a slot's place.     *)
(* The file has the right format and is read in one buffer.                *)
(***************************************************************************)
EXTENDS Integers, SequencesExt

CONSTANTS
  Shells,
  HistSize,  \* HISTSIZE, the same in all shells
  Ring,      \* histmask + 1
  Low,       \* the values of the low byte of a marker's number: 256
  Big,       \* HIST_MAX
  Garbage,   \* what the uninitialised oldind of hist_eof may hold
  MaxFiles,  \* bound: files made by hist_trim, and the first
  Setups     \* [shells, ops, apart, cmds]: who may start, what they do, whether
             \* one waits for the other's command or start to be over, and the
             \* bound on the commands written

Ops == {"cancel", "print", "empty", "mark", "age"}
ASSUME HistoryAssumption ==
  /\ HistSize \in Nat \ {0} /\ Ring \in Nat /\ Ring > HistSize
  /\ Low \in Nat \ {0} /\ Big \in Nat /\ Garbage \subseteq Nat
  /\ MaxFiles \in Nat
  /\ \A s \in Setups : /\ s.shells \subseteq Shells /\ s.ops \subseteq Ops
                       /\ s.apart \in BOOLEAN /\ s.cmds \in Nat

VARIABLES
  setup,
  files,    \* every file there was: its slots, and whether it was modified in
            \* the last HIST_RECENT seconds; the last one has the name
  sh,       \* History_t of each shell, and where the shell is
  issued,   \* commands written
  garbled   \* auxiliary: some shell has used oldind without a value

vars == <<setup, files, sh, issued, garbled>>

Cmd(i)    == [kind |-> "cmd", n |-> i]
Mark(i)   == [kind |-> "mark", n |-> i]
Undo      == [kind |-> "undo", n |-> 0]
Null      == [kind |-> "null", n |-> 0]
Larger(i, j) == IF i > j THEN i ELSE j

hist_ind(c) == c % Ring
Zeros   == [j \in 0..(Ring - 1) |-> 0]
Closed  == [file |-> 1, first |-> 1, histind |-> 1, histcnt |-> 1, histcmds |-> Zeros,
            pc |-> "off", cur |-> 0, next |-> "home"]
Named   == Len(files)
Slots(s) == files[sh[s].file].slots
At(s, l) == sh[s].pc = l

Init ==
  /\ setup \in Setups
  /\ files = <<[slots |-> <<>>, recent |-> TRUE]>>
  /\ sh = [s \in Shells |-> Closed]
  /\ issued = 0 /\ garbled = FALSE

\* In a setup that is apart nobody else is in the middle of something.
Turn(s) == setup.apart => \A r \in Shells \ {s} : sh[r].pc \in {"off", "home"}

-----------------------------------------------------------------------------
\* hist_eof

\* The number of a marker is put together with `|' and a `-1' that is applied
\* to the low byte alone: a low byte of 0 makes it -1.
Adopted(n) == IF n % Low = 0 THEN 0 ELSE n

\* Two mistakes: UNDO takes two numbers back, or a marker counts when the shell
\* starts.
StepUndoTwo(starting, h, x) ==
  LET n == IF x.kind = "undo" THEN h.histind - 2
           ELSE IF x.kind # "mark" THEN h.histind + 1
           ELSE IF starting THEN h.histind ELSE Adopted(x.n)
  IN  [h EXCEPT !.histind = n, !.histcnt = @ + 1,
                !.histcmds[hist_ind(n)] = h.histcnt + 1]

StepMarkCounts(starting, h, x) ==
  LET n == IF x.kind = "undo" THEN h.histind - 1
           ELSE IF x.kind # "mark" \/ starting THEN h.histind + 1
           ELSE Adopted(x.n)
  IN  [h EXCEPT !.histind = n, !.histcnt = @ + 1,
                !.histcmds[hist_ind(n)] = h.histcnt + 1]

\* One slot: the number of the command after it, and its offset.  While the
\* shell starts markers are not believed.
Step(starting, h, x) ==
  LET n == IF x.kind = "undo" THEN h.histind - 1
           ELSE IF x.kind # "mark" THEN h.histind + 1
           ELSE IF starting THEN h.histind ELSE Adopted(x.n)
  IN  [h EXCEPT !.histind = n, !.histcnt = @ + 1,
                !.histcmds[hist_ind(n)] = h.histcnt + 1]

ReadOn(starting, h, f) ==
  LET upto[p \in (h.histcnt - 1)..Len(f)] ==
        IF p < h.histcnt THEN h ELSE Step(starting, upto[p - 1], f[p])
  IN  IF h.histcnt > Len(f) THEN h ELSE upto[Len(f)]

\* A reader whose text ends after a marker or an UNDO believes it is within a
\* command.  It ends and cancels that, and reads the whole file again from a
\* number that depends on oldind.
Within(h, f) == h.histcnt <= Len(f) /\ f[Len(f)].kind \in {"undo", "mark"}

Restarted(h, g) ==
  [h EXCEPT !.histcnt = 1, !.histind = Larger(g - HistSize + 2, 1)]

\* The shell afterwards, and what it appended.
hist_eof(starting, h, f) ==
  IF Within(h, f)
  THEN {[h |-> ReadOn(starting, Restarted(ReadOn(starting, h, f), g), f \o <<Null, Undo>>),
         tail |-> <<Null, Undo>>] : g \in Garbage}
  ELSE {[h |-> ReadOn(starting, h, f), tail |-> <<>>]}

\* Shell s becomes h, at l, and appends tail to its file, which is then recent.
Becomes(s, h, l, tail) ==
  /\ sh' = [sh EXCEPT ![s] = [h EXCEPT !.pc = l]]
  /\ files' = IF tail = <<>> THEN files
              ELSE [files EXCEPT ![h.file] = [slots |-> @.slots \o tail, recent |-> TRUE]]

\* Bound: one step with such a recovery.
Recovers(tail) ==
  /\ tail # <<>> => ~garbled
  /\ garbled' = (garbled \/ tail # <<>>)

CatchUp(s, from, to) ==
  /\ At(s, from) /\ Turn(s)
  /\ \E r \in hist_eof(FALSE, sh[s], Slots(s)) :
        Becomes(s, r.h, to, r.tail) /\ Recovers(r.tail)
  /\ UNCHANGED <<setup, issued>>

-----------------------------------------------------------------------------
\* sh_histinit

\* hist_nearend: the place after a marker, with its number, or the beginning
Begin     == [at |-> 1, n |-> 1]
Starts(f) == {Begin} \union {[at |-> p + 1, n |-> f[p].n] : p \in {q \in DOMAIN f : f[q].kind = "mark"}}
From(h, a) == [h EXCEPT !.histcnt = a.at, !.histind = a.n, !.first = a.n]
hist_start(n) == Larger(n - HistSize, 1)

\* The file is read from somewhere near its end, and again from farther up when
\* that was not far enough.
Open(s) ==
  /\ s \in setup.shells /\ At(s, "off") /\ Turn(s)
  /\ LET f  == files[Named].slots
         h0 == [Closed EXCEPT !.file = Named, !.histcmds[1] = 1]
     IN  \E a \in Starts(f) : \E r \in hist_eof(TRUE, From(h0, a), f) :
           LET enough == a.n <= hist_start(r.h.histind)
               f1     == f \o r.tail
           IN  \/ /\ enough
                  /\ Becomes(s, r.h, "start", r.tail)
                  /\ Recovers(r.tail)
               \/ /\ ~enough
                  /\ \E b \in Starts(f1) :
                       /\ b.n <= hist_start(r.h.histind)
                       /\ \E r2 \in hist_eof(TRUE, From(r.h, b), f1) :
                            /\ Becomes(s, r2.h, "start", r.tail \o r2.tail)
                            /\ Recovers(r.tail \o r2.tail)
  /\ UNCHANGED <<setup, issued>>

\* hist_clean(fd) && hist_start>1 && hsize > HIST_MAX
ToTrim(s) == /\ ~files[sh[s].file].recent
             /\ hist_start(sh[s].histind) > 1 /\ Len(Slots(s)) > Big

Ready(s) ==
  /\ At(s, "start") /\ ~ToTrim(s)
  /\ sh' = [sh EXCEPT ![s].pc = "home"]
  /\ UNCHANGED <<setup, files, issued, garbled>>

\* hist_trim copies the commands at the offsets of HISTSIZE numbers, as long as
\* the offsets go up, and then cancels the last.  An offset that was never set
\* is that of the header, with the first command behind it.
SlotAt(f, p) == IF p = 0 THEN Cmd(0) ELSE f[p]

Copied(h, f) ==
  LET n     == hist_start(h.histind)
      at(i) == h.histcmds[hist_ind(n + i - 1)]
      Goes(i) == at(i) <= Len(f) /\ (i > 1 => at(i) > at(i - 1))
      all   == {k \in 1..Ring : \A i \in 1..k : Goes(i)}
  IN  [i \in all |-> SlotAt(f, at(i))]

Fresh(k) ==
  [Closed EXCEPT !.file = Named + 1, !.histind = k, !.histcnt = k + 2,
     !.histcmds = [j \in DOMAIN Zeros |->
        IF j = hist_ind(k) THEN k + 2
        ELSE LET is == {i \in 1..(k + 1) : hist_ind(i) = j}
             IN  IF is = {} THEN 0 ELSE CHOOSE i \in is : \A m \in is : m <= i]]

hist_trim(s) ==
  /\ At(s, "start") /\ Turn(s) /\ ToTrim(s) /\ Named < MaxFiles
  /\ LET new == Copied(sh[s], Slots(s))
     IN  /\ files' = Append(files, [slots |-> Append(new, Undo), recent |-> TRUE])
         /\ sh' = [sh EXCEPT ![s] = [Fresh(Len(new)) EXCEPT !.pc = "home"]]
  /\ UNCHANGED <<setup, issued, garbled>>

-----------------------------------------------------------------------------
\* The read-eval loop and the built-in commands

\* hist_eof before the prompt and after the line was read
Prompt(s) == CatchUp(s, "home", "typed")

\* hist_write, up to the lseek: the typed command, the one that hist runs
\* again, or print -s
Seek(s) ==
  /\ Turn(s) /\ issued < setup.cmds
  /\ At(s, "typed") \/ At(s, "redo") \/ (At(s, "run") /\ "print" \in setup.ops)
  /\ sh' = [sh EXCEPT ![s].pc = "write", ![s].cur = Len(Slots(s)) + 1,
                      ![s].next = IF At(s, "typed") THEN "run" ELSE "home"]
  /\ UNCHANGED <<setup, files, issued, garbled>>

\* A hist_write that counts a marker it does not write.
WriteCounts(s) ==
  /\ At(s, "write") /\ issued < setup.cmds
  /\ LET h   == sh[s]
         n   == h.histind + 1
         end == h.cur + 2
     IN  Becomes(s, [h EXCEPT !.histind = n, !.histcnt = end, !.histcmds[hist_ind(n)] = end],
                 h.next, <<Cmd(issued + 1)>>)
  /\ issued' = issued + 1
  /\ UNCHANGED <<setup, garbled>>

\* The rest of hist_write, with a marker when the last one is far enough back
Write(s) ==
  /\ At(s, "write") /\ issued < setup.cmds
  /\ \E m \in IF "mark" \in setup.ops THEN BOOLEAN ELSE {FALSE} :
       LET h   == sh[s]
           n   == h.histind + 1
           end == h.cur + (IF m THEN 2 ELSE 1)
       IN  Becomes(s, [h EXCEPT !.histind = n, !.histcnt = end, !.histcmds[hist_ind(n)] = end],
                   h.next, <<Cmd(issued + 1)>> \o (IF m THEN <<Mark(n)>> ELSE <<>>))
  /\ issued' = issued + 1
  /\ UNCHANGED <<setup, garbled>>

\* An empty line: histcnt is at the end of the file all the same.
FlushEmpty(s) ==
  /\ "empty" \in setup.ops /\ At(s, "typed")
  /\ sh' = [sh EXCEPT ![s].pc = "home", ![s].histcnt = Len(Slots(s)) + 1]
  /\ UNCHANGED <<setup, files, issued, garbled>>

Run(s) ==
  /\ At(s, "run")
  /\ sh' = [sh EXCEPT ![s].pc = "home"]
  /\ UNCHANGED <<setup, files, issued, garbled>>

\* hist: hist_eof, the editor, hist_cancel, and the edited command unless the
\* editor failed
HistEdit(s) == "cancel" \in setup.ops /\ CatchUp(s, "run", "edit")

hist_cancel(s) ==
  /\ At(s, "edit")
  /\ LET h == sh[s]
         n == h.histind - 1
     IN  Becomes(s, [h EXCEPT !.histind = n, !.histcnt = @ + 1,
                              !.histcmds[hist_ind(n)] = h.histcnt + 1], "redo", <<Undo>>)
  /\ UNCHANGED <<setup, issued, garbled>>

GiveUp(s) ==
  /\ At(s, "redo")
  /\ sh' = [sh EXCEPT ![s].pc = "home"]
  /\ UNCHANGED <<setup, files, issued, garbled>>

\* The shell exits, or is killed anywhere.
Leave(s) ==
  /\ ~At(s, "off")
  /\ sh' = [sh EXCEPT ![s] = Closed]
  /\ UNCHANGED <<setup, files, issued, garbled>>

\* HIST_RECENT seconds pass.  An open shell has hist_touch called before that.
AgeAnyTime ==   \* without hist_touch
  /\ "age" \in setup.ops /\ files[Named].recent
  /\ files' = [files EXCEPT ![Named].recent = FALSE]
  /\ UNCHANGED <<setup, sh, issued, garbled>>

Age ==
  /\ "age" \in setup.ops /\ files[Named].recent
  /\ \A s \in Shells : At(s, "off")
  /\ files' = [files EXCEPT ![Named].recent = FALSE]
  /\ UNCHANGED <<setup, sh, issued, garbled>>

\* hist_touch: by name
hist_touch ==
  /\ \E s \in Shells : ~At(s, "off")
  /\ ~files[Named].recent
  /\ files' = [files EXCEPT ![Named].recent = TRUE]
  /\ UNCHANGED <<setup, sh, issued, garbled>>

Next == \/ \E s \in Shells :
             \/ Open(s) \/ Ready(s) \/ hist_trim(s) \/ Prompt(s) \/ Seek(s) \/ Write(s)
             \/ FlushEmpty(s) \/ Run(s) \/ HistEdit(s) \/ hist_cancel(s) \/ GiveUp(s) \/ Leave(s)
        \/ Age \/ hist_touch

Spec == Init /\ [][Next]_vars

-----------------------------------------------------------------------------
(* The files and the shells' copies have their types. *)
Slot == [kind : {"cmd", "mark", "undo", "null"}, n : Nat]
TypeOK ==
  /\ setup \in Setups /\ issued \in 0..setup.cmds /\ garbled \in BOOLEAN
  /\ \A i \in DOMAIN files :
       /\ files[i].recent \in BOOLEAN
       /\ \A p \in DOMAIN files[i].slots : files[i].slots[p] \in Slot
  /\ \A s \in Shells :
       LET h == sh[s]
       IN  /\ h.file \in DOMAIN files /\ h.first \in Nat /\ h.histind \in Nat
           /\ h.histcnt \in Nat /\ h.cur \in Nat
           /\ h.histcmds \in [0..(Ring - 1) -> Nat]
           /\ h.pc \in {"off", "start", "home", "typed", "write", "run", "edit", "redo"}

(* hist_eof takes a file that is shorter than what it has read for one that
   was cut off, and writes into it (history.c:631, 726).  However the writes of
   several shells fall, no shell believes it has read more than there is. *)
Behind == \A s \in Shells : sh[s].histcnt <= Len(Slots(s)) + 1

\* What a file means: its commands without the cancelled ones, up to a place in
\* it.  Markers only save reading from the start.
Kept(l, x) == IF x.kind = "undo" THEN SubSeq(l, 1, Len(l) - 1)
              ELSE IF x.kind = "mark" THEN l ELSE Append(l, x.n)

LiveTo(f, p) ==
  LET live[q \in 0..p] == IF q = 0 THEN <<>> ELSE Kept(live[q - 1], f[q])
  IN  live[p]

Live(f) == LiveTo(f, Len(f))

\* The numbers a shell can list, without the one it started to read at.
Listed(h) == {k \in Larger(h.histind - HistSize, 1)..(h.histind - 1) : k > h.first \/ h.first = 1}

Agrees(h, f) ==
  LET live == Live(f)
  IN  /\ h.histind = Len(live) + 1
      /\ \A k \in Listed(h) : SlotAt(f, h.histcmds[hist_ind(k)]).n = live[k]

(* "A shell can access the commands of all interactive shells which use the
   same named HISTFILE" (sh.1:4567): after hist_eof a shell's numbers and
   offsets are those of the file read from its start - through restarts,
   markers, cancelled commands, trims and the other shell's commands - when
   the shells do not act at the same time and no hist_eof ended at a marker. *)
InStep == \A s \in Shells :
            At(s, "typed") /\ setup.apart /\ ~garbled => Agrees(sh[s], Slots(s))

(* HISTCMD: "Number of the current command in the history file" (sh.1:2007). *)
Numbered == \A s \in Shells :
              At(s, "typed") /\ setup.apart => sh[s].histind = Len(Live(Slots(s))) + 1

(* hist_touch keeps the file from being trimmed under a running shell
   (history.c:374, hist_clean): no shell writes to a file that has no name. *)
Connected == \A s \in Shells : setup.apart /\ ~At(s, "off") => sh[s].file = Named
============================================================================
