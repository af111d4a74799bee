--------------------------- MODULE CaseEventStore ---------------------------
(***************************************************************************)
(* FileCaseEventStore (case/caseStore.ts): the on-disk event log of a      *)
(* case, one JSON line per event.  The store holds no lock, so every file  *)
(* system call is a step of its own, and several processes (a scheduled    *)
(* routine and an interactive command, say) may work on the same file.     *)
(*                                                                         *)
(* The file is the sequence of its non-empty lines, each an event or text  *)
(* that does not parse, and a flag telling whether the last line still     *)
(* lacks its newline.  A write can be interrupted: by the death of the     *)
(* process or by an I/O error that makes appendFileSync throw half way.    *)
(***************************************************************************)
EXTENDS Naturals, Sequences, FiniteSets, SequencesExt

CONSTANTS Process,      \* the processes that use the store
          Compactors,   \* those that also run the compaction tooling
          Event,        \* the events callers record
          Malformed,    \* a line JSON.parse rejects
          NoView,       \* a process outside any compaction
          MaxBatch,     \* bound: events per appendAll call
          MaxLines,     \* bound: lines in the file
          MaxCalls,     \* bound: appendAll calls that are handed the same event
          MaxTears      \* bound: interrupted writes that leave bytes behind

ASSUME StoreAssumption ==
  /\ Compactors \subseteq Process
  /\ Malformed \notin Event
  /\ NoView \notin Seq(Event)
  /\ MaxBatch \in Nat
  /\ MaxLines \in Nat
  /\ MaxCalls \in Nat
  /\ MaxTears \in Nat

VARIABLES exists,    \* the log file is there
          lines,     \* its lines, in file order
          open,      \* the last line has no newline yet
          pc,        \* pc[p]: the file system call p makes next
          todo,      \* todo[p]: events appendAll has still to record
          view,      \* view[p]: what p's compaction will write
          calls,     \* history variable: how many appendAll calls each event was handed to
          acked,     \* history variable: events whose append() returned
          exposed,   \* history variable: events last written during a compaction
          tears      \* number of interrupted writes so far

disk == <<exists, lines, open>>
vars == <<exists, lines, open, pc, todo, view, calls, acked, exposed, tears>>

Line == Event \cup {Malformed}

Batch == {es \in UNION {[1..n -> Event] : n \in 1..MaxBatch} :
            \A i, j \in DOMAIN es : es[i] = es[j] => i = j}

Init == /\ exists = FALSE
        /\ lines = <<>>
        /\ open = FALSE
        /\ pc = [p \in Process |-> "idle"]
        /\ todo = [p \in Process |-> <<>>]
        /\ view = [p \in Process |-> NoView]
        /\ calls = [e \in Event |-> 0]
        /\ acked = {}
        /\ exposed = {}
        /\ tears = 0
-----------------------------------------------------------------------------
(* load() *)

\* Mutant: a load() that skips malformed lines wherever they are.
LoadsAnything == TRUE

\* Mutant: a load() that rejects the malformed line only when it is the last.
LoadsUnlessTorn == lines # <<>> => lines[Len(lines)] # Malformed

\* load() throws on a malformed line that is not the last one.
Loads == \A i \in 1..(Len(lines) - 1) : lines[i] # Malformed

\* A malformed last line is dropped; everything else is returned in order.
Replayed == IF lines # <<>> /\ lines[Len(lines)] = Malformed
              THEN SubSeq(lines, 1, Len(lines) - 1)
              ELSE lines
-----------------------------------------------------------------------------
(* The calls of append() and rewriteForCompaction() *)

\* p's call ends without a result: it threw, or the process died and the next
\* one starts afresh.
Abort(p) == /\ pc' = [pc EXCEPT ![p] = "idle"]
            /\ todo' = [todo EXCEPT ![p] = <<>>]
            /\ view' = [view EXCEPT ![p] = NoView]

\* append(e) is AppendAll of one event.  The store takes what it is given: a
\* caller whose batch failed half way may hand in all of it again, the events
\* already recorded included, and two callers may hand in the same event.
AppendAll(p) ==
  /\ pc[p] = "idle"
  /\ \E es \in Batch :
       /\ \A e \in Range(es) : calls[e] < MaxCalls
       /\ todo' = [todo EXCEPT ![p] = es]
       /\ calls' = [e \in Event |-> IF e \in Range(es) THEN calls[e] + 1 ELSE calls[e]]
  /\ pc' = [pc EXCEPT ![p] = "check"]
  /\ UNCHANGED <<disk, view, acked, exposed, tears>>

\* ensureFile: existsSync.
CheckExists(p) ==
  /\ pc[p] = "check"
  /\ pc' = [pc EXCEPT ![p] = IF ~exists THEN "create"
                             ELSE IF view[p] = NoView THEN "write" ELSE "tmp"]
  /\ UNCHANGED <<disk, todo, view, calls, acked, exposed, tears>>

\* Mutant: without the "wx" flag the second creator truncates the file.
CreateOverwrites(p) ==
  /\ pc[p] = "create"
  /\ exists' = TRUE
  /\ lines' = <<>>
  /\ open' = FALSE
  /\ pc' = [pc EXCEPT ![p] = IF view[p] = NoView THEN "write" ELSE "tmp"]
  /\ UNCHANGED <<todo, view, calls, acked, exposed, tears>>

\* ensureFile: writeFileSync with flag "wx" creates an empty file, and throws
\* EEXIST when another process created it since the check.
Create(p) ==
  /\ pc[p] = "create"
  /\ \/ /\ ~exists
        /\ exists' = TRUE
        /\ lines' = <<>>
        /\ open' = FALSE
        /\ pc' = [pc EXCEPT ![p] = IF view[p] = NoView THEN "write" ELSE "tmp"]
        /\ UNCHANGED <<todo, view>>
     \/ /\ exists
        /\ Abort(p)
        /\ UNCHANGED disk
  /\ UNCHANGED <<calls, acked, exposed, tears>>

\* What the file's lines become when the text l is written at its end: text
\* that follows an unfinished line becomes part of it, and no such
\* concatenation parses.
Put(l) == IF open THEN [lines EXCEPT ![Len(lines)] = Malformed]
                  ELSE Append(lines, l)

\* An event written while a compaction is under way may be overwritten by it.
Expose(e) == exposed' = IF \E q \in Process : view[q] # NoView
                          THEN exposed \cup {e}
                          ELSE exposed \ {e}

\* append: appendFileSync adds the event and its newline in one write.
Write(p) ==
  /\ pc[p] = "write"
  /\ Len(lines) < MaxLines
  /\ lines' = Put(Head(todo[p]))
  /\ open' = FALSE
  /\ Expose(Head(todo[p]))
  /\ pc' = [pc EXCEPT ![p] = "wrote"]
  /\ UNCHANGED <<exists, todo, view, calls, acked, tears>>

\* Mutant: an interrupted write that is acknowledged all the same.
InterruptedWriteAcked(p) ==
  /\ pc[p] = "write"
  /\ Len(lines) < MaxLines
  /\ tears < MaxTears
  /\ \E l \in {Malformed, Head(todo[p])} : lines' = Put(l)
  /\ open' = TRUE
  /\ Expose(Head(todo[p]))
  /\ tears' = tears + 1
  /\ pc' = [pc EXCEPT ![p] = "wrote"]
  /\ UNCHANGED <<exists, todo, view, calls, acked>>

\* The write stops half way: some of the line, or all of it but its newline,
\* is in the file, and the call does not return.
InterruptedWrite(p) ==
  /\ pc[p] = "write"
  /\ Len(lines) < MaxLines
  /\ tears < MaxTears
  /\ \E l \in {Malformed, Head(todo[p])} : lines' = Put(l)
  /\ open' = TRUE
  /\ tears' = tears + 1
  /\ Abort(p)
  /\ UNCHANGED <<exists, calls, acked, exposed>>

\* Mutant: appendAll's loop runs once more after its last event.
ReturnOnceMore(p) ==
  /\ pc[p] = "wrote"
  /\ acked' = acked \cup {Head(todo[p])}
  /\ todo' = [todo EXCEPT ![p] = Tail(todo[p])]
  /\ pc' = [pc EXCEPT ![p] = "check"]
  /\ UNCHANGED <<disk, view, calls, exposed, tears>>

\* append() returns; appendAll goes on to its next event.
Return(p) ==
  /\ pc[p] = "wrote"
  /\ acked' = acked \cup {Head(todo[p])}
  /\ todo' = [todo EXCEPT ![p] = Tail(todo[p])]
  /\ pc' = [pc EXCEPT ![p] = IF Tail(todo[p]) = <<>> THEN "idle" ELSE "check"]
  /\ UNCHANGED <<disk, view, calls, exposed, tears>>

\* The compaction tooling replays the log and hands the result to
\* rewriteForCompaction.
LoadForCompaction(p) ==
  /\ p \in Compactors
  /\ pc[p] = "idle"
  /\ Loads
  /\ view' = [view EXCEPT ![p] = Replayed]
  /\ pc' = [pc EXCEPT ![p] = "check"]
  /\ UNCHANGED <<disk, todo, calls, acked, exposed, tears>>

\* Mutant: the rewrite opens the log itself instead of a temporary file.
WriteInPlace(p) ==
  /\ pc[p] = "tmp"
  /\ lines' = <<>>
  /\ open' = FALSE
  /\ pc' = [pc EXCEPT ![p] = "rename"]
  /\ UNCHANGED <<exists, todo, view, calls, acked, exposed, tears>>

\* rewriteForCompaction: the new content goes to a temporary file of its own,
\* which nobody reads, whole or not, before the rename.
WriteTmp(p) ==
  /\ pc[p] = "tmp"
  /\ pc' = [pc EXCEPT ![p] = "rename"]
  /\ UNCHANGED <<disk, todo, view, calls, acked, exposed, tears>>

\* Mutant: the rewrite adds its content to the log instead of replacing it.
RenameAppends(p) ==
  /\ pc[p] = "rename"
  /\ lines' = lines \o view[p]
  /\ open' = FALSE
  /\ pc' = [pc EXCEPT ![p] = "idle"]
  /\ view' = [view EXCEPT ![p] = NoView]
  /\ UNCHANGED <<exists, todo, calls, acked, exposed, tears>>

\* rewriteForCompaction: renameSync replaces the log in one step.
Rename(p) ==
  /\ pc[p] = "rename"
  /\ lines' = view[p]
  /\ open' = FALSE
  /\ pc' = [pc EXCEPT ![p] = "idle"]
  /\ view' = [view EXCEPT ![p] = NoView]
  /\ UNCHANGED <<exists, todo, calls, acked, exposed, tears>>

\* The process dies between two calls and is started again.
Crash(p) ==
  /\ pc[p] # "idle"
  /\ Abort(p)
  /\ UNCHANGED <<disk, calls, acked, exposed, tears>>

Step(p) == \/ AppendAll(p)
           \/ CheckExists(p)
           \/ Create(p)
           \/ Write(p)
           \/ InterruptedWrite(p)
           \/ Return(p)
           \/ LoadForCompaction(p)
           \/ WriteTmp(p)
           \/ Rename(p)
           \/ Crash(p)

Next == \E p \in Process : Step(p)

Spec == Init /\ [][Next]_vars
-----------------------------------------------------------------------------
(* Properties *)

\* The types of the store's state: the log file of case/caseStore.ts and the
\* position of every process in append() and rewriteForCompaction().
TypeOK ==
  /\ exists \in BOOLEAN
  /\ lines \in Seq(Line)
  /\ open \in BOOLEAN
  /\ open => lines # <<>>
  /\ pc \in [Process -> {"idle", "check", "create", "write", "wrote", "tmp", "rename"}]
  /\ todo \in [Process -> Seq(Event)]
  /\ \A p \in Process : pc[p] \in {"write", "wrote"} => todo[p] # <<>>
  /\ view \in [Process -> Seq(Event) \cup {NoView}]
  /\ \A p \in Process : pc[p] \in {"tmp", "rename"} => view[p] # NoView
  /\ calls \in [Event -> Nat]
  /\ acked \subseteq Event
  /\ exposed \subseteq Event
  /\ tears \in 0..MaxTears

\* Durability of append(): an event whose append() returned is in every later
\* replay, whatever processes race to create the file, die or compact, unless
\* it was written while a compaction had already taken its copy of the log.
AckedDurable == /\ Loads
                /\ acked \ exposed \subseteq Range(Replayed)

\* An event appears in a replay more than once only if it was handed in more than
\* once: whatever dies, tears, is retried or compacted, a call writes an event at
\* most once, and a compaction never brings back more than it copied.
NoMoreCopiesThanCalls ==
  \A e \in Event : Cardinality({i \in DOMAIN lines : lines[i] = e}) <= calls[e]

\* The store implements the abstract history: its racing file system calls are
\* seen by load() as whole appends and whole compactions, and nothing else.
H == INSTANCE CaseHistory WITH history <- Replayed, copy <- view
RefinesHistory == H!Spec

\* The claim load() makes for an interrupted append, as far as it is true:
\* while the torn tail is the last thing in the file, the log still loads with
\* every acknowledged event in it.
TornTailHarmless == open /\ Loads => acked \subseteq Range(Replayed)

\* How much can be lost without load() noticing: once a later append has been
\* glued to a torn tail, at most one acknowledged event is missing from what
\* load() returns (the next append makes load() throw).
SilentLossBounded ==
  Loads => \A e, f \in acked \ Range(Replayed) : e = f

\* load() fails closed for good: once an interior line is malformed, no append,
\* retry or restart makes the log loadable again.
CorruptionPersists == [][~Loads => ~Loads']_vars
=============================================================================
