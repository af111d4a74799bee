----------------------- MODULE CaseEventStore_proofs -----------------------
(***************************************************************************)
(* Proofs about CaseEventStore, for any number of processes, compactors,   *)
(* events, lines and interrupted writes.                                   *)
(***************************************************************************)
EXTENDS CaseEventStore, SequenceTheorems, FiniteSetTheorems, TLAPS

-----------------------------------------------------------------------------
(* Sequences and what load() returns *)

LEMMA RangeOfAppend ==
  ASSUME NEW S, NEW s \in Seq(S), NEW e \in S
  PROVE  Range(Append(s, e)) = Range(s) \cup {e}
<1>1. Append(s, e) \in Seq(S) /\ Len(Append(s, e)) = Len(s) + 1
  OBVIOUS
<1>2. /\ \A i \in 1..Len(s) : Append(s, e)[i] = s[i]
      /\ Append(s, e)[Len(s) + 1] = e
  OBVIOUS
<1>3. DOMAIN Append(s, e) = DOMAIN s \cup {Len(s) + 1}
  BY <1>1
<1> QED BY <1>2, <1>3 DEF Range

\* A log that loads replays to a sequence of events, never a malformed line.
LEMMA ReplayedIsEvents ==
  ASSUME lines \in Seq(Line), Loads
  PROVE  Replayed \in Seq(Event)
<1>1. CASE lines # <<>> /\ lines[Len(lines)] = Malformed
  BY <1>1 DEF Replayed, Loads, Line
<1>2. CASE ~(lines # <<>> /\ lines[Len(lines)] = Malformed)
  BY <1>2 DEF Replayed, Loads, Line
<1> QED BY <1>1, <1>2

\* A file of whole events replays to itself.
LEMMA ReplayOfEvents ==
  ASSUME lines \in Seq(Event)
  PROVE  Loads /\ Replayed = lines
<1>1. \A i \in 1..Len(lines) : lines[i] # Malformed
  BY StoreAssumption
<1>2. lines # <<>> => Len(lines) \in 1..Len(lines)
  OBVIOUS
<1> QED BY <1>1, <1>2 DEF Loads, Replayed

\* The same in the next state.
LEMMA ReplayOfEventsNext ==
  ASSUME lines' \in Seq(Event)
  PROVE  Loads' /\ Replayed' = lines'
<1>1. \A i \in 1..Len(lines') : lines'[i] # Malformed
  BY StoreAssumption
<1>2. lines' # <<>> => Len(lines') \in 1..Len(lines')
  OBVIOUS
<1> QED BY <1>1, <1>2 DEF Loads, Replayed

LEMMA BatchIsSeq == \A es \in Batch : es \in Seq(Event) /\ es # <<>>
<1> SUFFICES ASSUME NEW es \in Batch PROVE es \in Seq(Event) /\ es # <<>>
  OBVIOUS
<1>1. PICK n \in 1..MaxBatch : es \in [1..n -> Event]
  BY DEF Batch
<1>2. n \in Nat /\ n # 0
  BY StoreAssumption
<1>3. es \in Seq(Event) /\ Len(es) = n
  BY <1>1, <1>2
<1> QED BY <1>2, <1>3
-----------------------------------------------------------------------------
(* Type correctness *)

\* TypeOK, and: a process on its way to a write has something to write.
TypeInv == /\ TypeOK
           /\ \A p \in Process : pc[p] \in {"check", "create"} /\ view[p] = NoView
                                   => todo[p] # <<>>

LEMMA PutType ==
  ASSUME TypeOK, NEW l \in Line
  PROVE  /\ Put(l) \in Seq(Line)
         /\ Put(l) # <<>>
<1>1. CASE open
  <2>1. lines \in Seq(Line) /\ Len(lines) \in 1..Len(lines)
    BY <1>1 DEF TypeOK
  <2>2. Malformed \in Line
    BY DEF Line
  <2>3. Put(l) = [lines EXCEPT ![Len(lines)] = Malformed]
    BY <1>1 DEF Put
  <2> HIDE DEF Line
  <2>4. Put(l) \in Seq(Line) /\ Len(Put(l)) = Len(lines)
    BY <2>1, <2>2, <2>3, ExceptSeq
  <2> QED BY <2>1, <2>4
<1>2. CASE ~open
  <2>1. lines \in Seq(Line)
    BY DEF TypeOK
  <2>2. Put(l) = Append(lines, l)
    BY <1>2 DEF Put
  <2> HIDE DEF Line
  <2>3. Append(lines, l) \in Seq(Line) /\ Append(lines, l) # <<>>
    BY <2>1, AppendProperties
  <2> QED BY <2>2, <2>3
<1> QED BY <1>1, <1>2

LEMMA TypeInvStep ==
  ASSUME TypeInv, NEW p \in Process, Step(p)
  PROVE  TypeInv'
<1> USE DEF TypeInv, TypeOK, disk
<1>1. CASE AppendAll(p)
  BY <1>1, BatchIsSeq DEF AppendAll
<1>2. CASE CheckExists(p)
  BY <1>2 DEF CheckExists
<1>3. CASE Create(p)
  <2> HIDE DEF TypeInv, TypeOK
  <2>1. CASE ~exists
    <3>1. /\ exists' = TRUE /\ lines' = <<>> /\ open' = FALSE
          /\ pc' = [pc EXCEPT ![p] = IF view[p] = NoView THEN "write" ELSE "tmp"]
          /\ pc[p] = "create"
          /\ UNCHANGED <<todo, view, calls, acked, exposed, tears>>
      BY <1>3, <2>1, Zenon DEF Create
    <3>2. lines' \in Seq(Line)
      BY <3>1
    <3> QED BY <3>1, <3>2 DEF TypeInv, TypeOK
  <2>2. CASE exists
    <3>1. Abort(p) /\ UNCHANGED <<disk, calls, acked, exposed, tears>>
      BY <1>3, <2>2, Zenon DEF Create, disk
    <3> QED BY <3>1 DEF Abort, TypeInv, TypeOK, disk
  <2> QED BY <2>1, <2>2
<1>4. CASE Write(p)
  <2>1. Head(todo[p]) \in Event /\ Head(todo[p]) \in Line
    BY <1>4 DEF Write, Line
  <2>2. lines' \in Seq(Line) /\ lines' # <<>>
    BY <1>4, <2>1, PutType DEF Write
  <2>3. exposed' \subseteq Event
    BY <1>4, <2>1 DEF Write, Expose
  <2> QED BY <1>4, <2>2, <2>3 DEF Write
<1>5. CASE InterruptedWrite(p)
  <2>1. \A l \in {Malformed, Head(todo[p])} : l \in Line
    BY <1>5 DEF InterruptedWrite, Line
  <2>2. lines' \in Seq(Line) /\ lines' # <<>>
    BY <1>5, <2>1, PutType DEF InterruptedWrite
  <2>3. tears' \in 0..MaxTears
    BY <1>5, StoreAssumption DEF InterruptedWrite
  <2> QED BY <1>5, <2>2, <2>3 DEF InterruptedWrite, Abort
<1>6. CASE Return(p)
  BY <1>6 DEF Return
<1>7. CASE LoadForCompaction(p)
  BY <1>7, ReplayedIsEvents, StoreAssumption DEF LoadForCompaction
<1>8. CASE WriteTmp(p)
  BY <1>8 DEF WriteTmp
<1>9. CASE Rename(p)
  <2>1. view[p] \in Seq(Event)
    BY <1>9 DEF Rename
  <2>2. lines' \in Seq(Line)
    BY <1>9, <2>1, SeqMonotonic, Event \subseteq Line DEF Rename, Line
  <2> QED BY <1>9, <2>2 DEF Rename
<1>10. CASE Crash(p)
  BY <1>10 DEF Crash, Abort
<1> QED BY <1>1, <1>2, <1>3, <1>4, <1>5, <1>6, <1>7, <1>8, <1>9, <1>10 DEF Step

LEMMA TypeInvariant == Spec => []TypeInv
<1>1. Init => TypeInv
  <2> SUFFICES ASSUME Init PROVE TypeInv
    OBVIOUS
  <2>1. <<>> \in Seq(Line) /\ <<>> \in Seq(Event) /\ 0 \in 0..MaxTears
    BY StoreAssumption
  <2> QED BY <2>1 DEF Init, TypeInv, TypeOK
<1>2. TypeInv /\ [Next]_vars => TypeInv'
  <2> SUFFICES ASSUME TypeInv, [Next]_vars PROVE TypeInv'
    OBVIOUS
  <2>1. CASE Next
    BY <2>1, TypeInvStep DEF Next
  <2>2. CASE UNCHANGED vars
    BY <2>2 DEF vars, TypeInv, TypeOK
  <2> QED BY <2>1, <2>2
<1> QED BY <1>1, <1>2, PTL DEF Spec

\* The store's state is always well typed.
THEOREM TypeCorrect == Spec => []TypeOK
<1>1. TypeInv => TypeOK
  BY DEF TypeInv
<1> QED BY <1>1, TypeInvariant, PTL
-----------------------------------------------------------------------------
(* Durability, when no write is interrupted *)

\* Events whose write has been made outside every compaction and has returned,
\* or is about to.
Durable == (acked \cup {Head(todo[p]) : p \in {q \in Process : pc[q] = "wrote"}}) \ exposed

\* The file holds whole events only; it is there once a process has seen it; and
\* it, and every copy a compaction is about to install, holds what is durable.
DurInv == /\ lines \in Seq(Event)
          /\ open = FALSE
          /\ exists = FALSE => lines = <<>>
          /\ \A p \in Process : pc[p] \in {"write", "wrote", "tmp", "rename"} => exists = TRUE
          /\ Durable \subseteq Range(lines)
          /\ \A p \in Process : view[p] # NoView => Durable \subseteq Range(view[p])

LEMMA DurInvStep ==
  ASSUME MaxTears = 0, TypeInv, DurInv, NEW p \in Process, Step(p)
  PROVE  DurInv'
<1> USE DEF TypeInv, TypeOK, disk
<1>1. CASE AppendAll(p)
  <2>1. Durable' \subseteq Durable
    BY <1>1 DEF AppendAll, Durable
  <2> QED BY <1>1, <2>1 DEF AppendAll, DurInv
<1>2. CASE CheckExists(p)
  <2>1. Durable' \subseteq Durable
    BY <1>2 DEF CheckExists, Durable
  <2> QED BY <1>2, <2>1 DEF CheckExists, DurInv
<1>3. CASE Create(p)
  <2>1. Durable' \subseteq Durable
    BY <1>3 DEF Create, Abort, Durable
  <2> HIDE DEF TypeInv, TypeOK, Durable
  <2>2. CASE exists = FALSE
    <3>1. /\ exists' = TRUE /\ lines' = <<>> /\ open' = FALSE
          /\ pc' = [pc EXCEPT ![p] = IF view[p] = NoView THEN "write" ELSE "tmp"]
          /\ UNCHANGED view
      BY <1>3, <2>2, Zenon DEF Create
    <3> QED BY <2>1, <2>2, <3>1 DEF DurInv
  <2>3. CASE exists = TRUE
    <3>1. Abort(p) /\ UNCHANGED disk
      BY <1>3, <2>3, Zenon DEF Create
    <3> QED BY <2>1, <2>3, <3>1 DEF Abort, disk, DurInv, TypeInv, TypeOK
  <2> QED BY <2>2, <2>3 DEF TypeInv, TypeOK
<1>4. CASE Write(p)
  <2> DEFINE e == Head(todo[p])
  <2>1. e \in Event
    BY <1>4 DEF Write
  <2>2. lines' = Append(lines, e) /\ lines' \in Seq(Event)
    BY <1>4, <2>1 DEF Write, Put, DurInv
  <2>3. Range(lines') = Range(lines) \cup {e}
    BY <2>1, <2>2, RangeOfAppend DEF DurInv
  <2>4. CASE \E q \in Process : view[q] # NoView
    <3>1. Durable' \subseteq Durable
      BY <1>4, <2>4 DEF Write, Expose, Durable
    <3> QED BY <1>4, <2>2, <2>3, <3>1 DEF Write, DurInv
  <2>5. CASE ~\E q \in Process : view[q] # NoView
    <3>1. Durable' \subseteq Durable \cup {e}
      BY <1>4, <2>5 DEF Write, Expose, Durable
    <3> QED BY <1>4, <2>2, <2>3, <2>5, <3>1 DEF Write, DurInv
  <2> QED BY <2>4, <2>5
<1>5. CASE InterruptedWrite(p)
  BY <1>5 DEF InterruptedWrite
<1>6. CASE Return(p)
  <2>1. Durable' \subseteq Durable
    BY <1>6 DEF Return, Durable
  <2> QED BY <1>6, <2>1 DEF Return, DurInv
<1>7. CASE LoadForCompaction(p)
  <2>1. Durable' \subseteq Durable
    BY <1>7 DEF LoadForCompaction, Durable
  <2>2. Replayed = lines
    BY ReplayOfEvents DEF DurInv
  <2> QED BY <1>7, <2>1, <2>2 DEF LoadForCompaction, DurInv
<1>8. CASE WriteTmp(p)
  <2>1. Durable' \subseteq Durable
    BY <1>8 DEF WriteTmp, Durable
  <2> QED BY <1>8, <2>1 DEF WriteTmp, DurInv
<1>9. CASE Rename(p)
  <2>1. Durable' \subseteq Durable
    BY <1>9 DEF Rename, Durable
  <2> QED BY <1>9, <2>1 DEF Rename, DurInv
<1>10. CASE Crash(p)
  <2>1. Durable' \subseteq Durable
    BY <1>10 DEF Crash, Abort, Durable
  <2> QED BY <1>10, <2>1 DEF Crash, Abort, DurInv
<1> QED BY <1>1, <1>2, <1>3, <1>4, <1>5, <1>6, <1>7, <1>8, <1>9, <1>10 DEF Step

LEMMA DurInvariant ==
  ASSUME MaxTears = 0
  PROVE  Spec => [](TypeInv /\ DurInv)
<1>1. Init => DurInv
  <2> SUFFICES ASSUME Init PROVE DurInv
    OBVIOUS
  <2>1. Durable = {}
    BY DEF Init, Durable
  <2>2. <<>> \in Seq(Event)
    OBVIOUS
  <2> QED BY <2>1, <2>2 DEF Init, DurInv
<1>2. TypeInv /\ DurInv /\ [Next]_vars => DurInv'
  <2> SUFFICES ASSUME TypeInv, DurInv, [Next]_vars PROVE DurInv'
    OBVIOUS
  <2>1. CASE Next
    BY <2>1, DurInvStep DEF Next
  <2>2. CASE UNCHANGED vars
    BY <2>2 DEF vars, DurInv, Durable
  <2> QED BY <2>1, <2>2
<1> QED BY <1>1, <1>2, TypeInvariant, PTL DEF Spec

\* As long as no write is interrupted, an acknowledged event is in every replay
\* unless its write overlapped a compaction: processes racing to create the
\* file, dying anywhere, retrying and compacting lose nothing else.
THEOREM AckedAreDurable ==
  ASSUME MaxTears = 0
  PROVE  Spec => []AckedDurable
<1>1. TypeInv /\ DurInv => AckedDurable
  <2> SUFFICES ASSUME DurInv PROVE AckedDurable
    OBVIOUS
  <2>1. Loads /\ Replayed = lines
    BY ReplayOfEvents DEF DurInv
  <2> QED BY <2>1 DEF AckedDurable, DurInv, Durable
<1> QED BY <1>1, DurInvariant, PTL
-----------------------------------------------------------------------------
(* The store implements the abstract history *)

LEMMA RefinementStep ==
  ASSUME MaxTears = 0, TypeInv, DurInv, DurInv', NEW p \in Process, Step(p)
  PROVE  [H!Next]_(H!histVars)
<1> USE DEF TypeInv, TypeOK, disk
<1>1. Replayed = lines /\ Replayed' = lines'
  BY ReplayOfEvents, ReplayOfEventsNext DEF DurInv
<1>2. CASE AppendAll(p) \/ CheckExists(p) \/ Return(p) \/ WriteTmp(p)
  BY <1>1, <1>2 DEF AppendAll, CheckExists, Return, WriteTmp, H!histVars
<1>3. CASE Create(p)
  <2>1. lines' = lines
    BY <1>3, Zenon DEF Create, DurInv
  <2>2. UNCHANGED view \/ view' = [view EXCEPT ![p] = NoView]
    BY <1>3, Zenon DEF Create, Abort
  <2> QED BY <1>1, <2>1, <2>2 DEF H!Next, H!Abandon, H!histVars
<1>4. CASE Write(p)
  <2>1. Head(todo[p]) \in Event
    BY <1>4 DEF Write
  <2>2. lines' = Append(lines, Head(todo[p])) /\ UNCHANGED view
    BY <1>4 DEF Write, Put, DurInv
  <2> QED BY <1>1, <2>1, <2>2 DEF H!Next, H!Record
<1>5. CASE InterruptedWrite(p)
  BY <1>5 DEF InterruptedWrite
<1>6. CASE LoadForCompaction(p)
  BY <1>1, <1>6 DEF LoadForCompaction, H!Next, H!TakeCopy
<1>7. CASE Rename(p)
  BY <1>1, <1>7 DEF Rename, H!Next, H!PutBack
<1>8. CASE Crash(p)
  BY <1>1, <1>8 DEF Crash, Abort, H!Next, H!Abandon
<1> QED BY <1>2, <1>3, <1>4, <1>5, <1>6, <1>7, <1>8 DEF Step

\* As long as no write is interrupted, the store is the abstract history: load()
\* sees appends and compactions as single steps.
THEOREM StoreRefinesHistory ==
  ASSUME MaxTears = 0
  PROVE  Spec => RefinesHistory
<1>1. Init => H!Init
  BY DEF Init, H!Init, Replayed
<1>2. TypeInv /\ DurInv /\ DurInv' /\ [Next]_vars => [H!Next]_(H!histVars)
  <2> SUFFICES ASSUME TypeInv, DurInv, DurInv', [Next]_vars
               PROVE  [H!Next]_(H!histVars)
    OBVIOUS
  <2>1. CASE Next
    BY <2>1, RefinementStep DEF Next
  <2>2. CASE UNCHANGED vars
    BY <2>2 DEF vars, Replayed, H!histVars
  <2> QED BY <2>1, <2>2
<1> QED BY <1>1, <1>2, DurInvariant, PTL DEF Spec, RefinesHistory, H!Spec
-----------------------------------------------------------------------------
(* How often an event is recorded, whatever is interrupted, compacted or retried *)

Copies(s, e) == Cardinality({i \in DOMAIN s : s[i] = e})

\* What p has still to write of its batch.
Pending(p) == IF pc[p] = "wrote" THEN Tail(todo[p]) ELSE todo[p]

\* The processes that have still to write e.
Writers(e) == {p \in Process : e \in Range(Pending(p))}

\* Every copy in the file, or in what a compaction is about to install, and every
\* write still to be made, comes from a call of its own.
CopyInv ==
  /\ \A p \in Process : IsInjective(todo[p])
  /\ \A e \in Event :
       /\ IsFiniteSet(Writers(e))
       /\ Copies(lines, e) + Cardinality(Writers(e)) <= calls[e]
       /\ \A p \in Process : view[p] # NoView
            => Copies(view[p], e) + Cardinality(Writers(e)) <= calls[e]

LEMMA CopiesIsNat ==
  ASSUME NEW S, NEW s \in Seq(S), NEW e
  PROVE  /\ IsFiniteSet({i \in DOMAIN s : s[i] = e})
         /\ Copies(s, e) \in Nat
<1>1. IsFiniteSet(1..Len(s)) /\ DOMAIN s = 1..Len(s)
  BY FS_Interval
<1>2. IsFiniteSet({i \in DOMAIN s : s[i] = e})
  BY <1>1, FS_Subset
<1> QED BY <1>2, FS_CardinalityType DEF Copies

LEMMA CopiesOfAppend ==
  ASSUME NEW S, NEW s \in Seq(S), NEW l \in S, NEW e
  PROVE  Copies(Append(s, l), e) = IF l = e THEN Copies(s, e) + 1 ELSE Copies(s, e)
<1> DEFINE at == {i \in DOMAIN s : s[i] = e}
           new == {i \in DOMAIN Append(s, l) : Append(s, l)[i] = e}
<1>1. /\ DOMAIN Append(s, l) = DOMAIN s \cup {Len(s) + 1}
      /\ Len(s) + 1 \notin DOMAIN s
      /\ \A i \in DOMAIN s : Append(s, l)[i] = s[i]
      /\ Append(s, l)[Len(s) + 1] = l
  OBVIOUS
<1>2. IsFiniteSet(at) /\ Len(s) + 1 \notin at
  BY <1>1, CopiesIsNat
<1>3. CASE l = e
  <2>1. new = at \cup {Len(s) + 1}
    BY <1>1, <1>3
  <2>2. Cardinality(at \cup {Len(s) + 1}) = Cardinality(at) + 1
    BY <1>2, FS_AddElement
  <2> QED BY <1>3, <2>1, <2>2 DEF Copies
<1>4. CASE l # e
  <2>1. new = at
    BY <1>1, <1>4
  <2> QED BY <1>4, <2>1 DEF Copies
<1> QED BY <1>3, <1>4

\* Where a sequence holds e, one that holds e wherever it does has as many copies.
LEMMA CopiesOfLess ==
  ASSUME NEW S, NEW s \in Seq(S), NEW t, NEW e,
         DOMAIN t \subseteq DOMAIN s,
         \A i \in DOMAIN t : t[i] = e => s[i] = e
  PROVE  Copies(t, e) \in Nat /\ Copies(t, e) <= Copies(s, e)
<1>1. {i \in DOMAIN t : t[i] = e} \subseteq {i \in DOMAIN s : s[i] = e}
  OBVIOUS
<1>2. IsFiniteSet({i \in DOMAIN s : s[i] = e})
  BY CopiesIsNat
<1> QED BY <1>1, <1>2, FS_Subset, FS_CardinalityType DEF Copies

\* A write leaves at most one more copy, of what was written.
LEMMA CopiesOfPut ==
  ASSUME TypeOK, NEW l \in Line, NEW e \in Event
  PROVE  /\ Copies(Put(l), e) \in Nat
         /\ Copies(Put(l), e) <= Copies(lines, e) + 1
         /\ l # e => Copies(Put(l), e) <= Copies(lines, e)
<1>1. lines \in Seq(Line) /\ Malformed \in Line /\ e # Malformed
  BY StoreAssumption DEF TypeOK, Line
<1>2. Copies(lines, e) \in Nat
  BY <1>1, CopiesIsNat
<1>3. CASE open
  <2>1. Len(lines) \in 1..Len(lines)
    BY <1>3 DEF TypeOK
  <2>2. Put(l) = [lines EXCEPT ![Len(lines)] = Malformed]
    BY <1>3 DEF Put
  <2>3. DOMAIN Put(l) = DOMAIN lines /\ \A i \in DOMAIN Put(l) : Put(l)[i] = e => lines[i] = e
    BY <1>1, <2>1, <2>2
  <2>4. Copies(Put(l), e) \in Nat /\ Copies(Put(l), e) <= Copies(lines, e)
    BY <1>1, <2>3, CopiesOfLess
  <2> QED BY <1>2, <2>4
<1>4. CASE ~open
  <2>1. Put(l) = Append(lines, l)
    BY <1>4 DEF Put
  <2>2. Copies(Put(l), e) = IF l = e THEN Copies(lines, e) + 1 ELSE Copies(lines, e)
    BY <1>1, <2>1, CopiesOfAppend
  <2> QED BY <1>2, <2>2
<1> QED BY <1>3, <1>4

LEMMA TailOfInjective ==
  ASSUME NEW S, NEW s \in Seq(S), s # <<>>, IsInjective(s)
  PROVE  /\ IsInjective(Tail(s))
         /\ Range(Tail(s)) = Range(s) \ {Head(s)}
         /\ Head(s) \in Range(s)
<1>1. /\ Len(s) \in Nat \ {0} /\ DOMAIN s = 1..Len(s) /\ Head(s) = s[1]
      /\ Tail(s) \in Seq(S) /\ Len(Tail(s)) = Len(s) - 1
      /\ \A i \in 1..(Len(s) - 1) : Tail(s)[i] = s[i + 1]
  OBVIOUS
<1>2. DOMAIN Tail(s) = 1..(Len(s) - 1)
  BY <1>1
<1>3. \A i, j \in DOMAIN s : s[i] = s[j] => i = j
  BY DEF IsInjective
<1>4. IsInjective(Tail(s))
  <2> SUFFICES ASSUME NEW i \in DOMAIN Tail(s), NEW j \in DOMAIN Tail(s), Tail(s)[i] = Tail(s)[j]
               PROVE  i = j
    BY DEF IsInjective
  <2>1. i + 1 \in DOMAIN s /\ j + 1 \in DOMAIN s /\ s[i + 1] = s[j + 1]
    BY <1>1, <1>2
  <2>2. i + 1 = j + 1
    BY <1>3, <2>1
  <2> QED BY <1>1, <1>2, <2>2
<1>5. ASSUME NEW e \in Range(Tail(s)) PROVE e \in Range(s) \ {Head(s)}
  <2>1. PICK i \in 1..(Len(s) - 1) : e = s[i + 1]
    BY <1>1, <1>2, <1>5 DEF Range
  <2>2. i + 1 \in DOMAIN s /\ 1 \in DOMAIN s /\ i + 1 # 1
    BY <1>1
  <2> QED BY <1>1, <1>3, <2>1, <2>2 DEF Range
<1>6. ASSUME NEW e \in Range(s) \ {Head(s)} PROVE e \in Range(Tail(s))
  <2>1. PICK i \in DOMAIN s : e = s[i]
    BY <1>6 DEF Range
  <2>2. i - 1 \in 1..(Len(s) - 1) /\ s[(i - 1) + 1] = e
    BY <1>1, <1>6, <2>1
  <2> QED BY <1>1, <1>2, <2>2 DEF Range
<1> QED BY <1>1, <1>4, <1>5, <1>6 DEF Range

\* A step that writes nothing new to the file and leaves nobody more to write.
LEMMA FewerCopies ==
  ASSUME TypeOK, CopyInv, NEW e \in Event, calls'[e] = calls[e],
         Writers(e)' \subseteq Writers(e),
         Copies(lines, e)' \in Nat,
         \/ Copies(lines, e)' <= Copies(lines, e)
         \/ \E q \in Process : view[q] # NoView /\ Copies(lines, e)' = Copies(view[q], e),
         \A q \in Process : view'[q] # NoView =>
            \/ view'[q] = view[q]
            \/ /\ Copies(view[q], e)' \in Nat
               /\ Copies(view[q], e)' <= Copies(lines, e)
  PROVE  /\ IsFiniteSet(Writers(e)')
         /\ Copies(lines, e)' + Cardinality(Writers(e)') <= calls'[e]
         /\ \A q \in Process : view'[q] # NoView
              => Copies(view[q], e)' + Cardinality(Writers(e)') <= calls'[e]
<1>1. /\ IsFiniteSet(Writers(e)) /\ IsFiniteSet(Writers(e)')
      /\ Cardinality(Writers(e)) \in Nat /\ Cardinality(Writers(e)') \in Nat
      /\ Cardinality(Writers(e)') <= Cardinality(Writers(e))
  BY FS_Subset, FS_CardinalityType DEF CopyInv
<1>2. /\ Copies(lines, e) \in Nat /\ calls[e] \in Nat
      /\ \A q \in Process : view[q] # NoView => Copies(view[q], e) \in Nat
  BY CopiesIsNat DEF TypeOK
<1>3. /\ Copies(lines, e) + Cardinality(Writers(e)) <= calls[e]
      /\ \A q \in Process : view[q] # NoView
           => Copies(view[q], e) + Cardinality(Writers(e)) <= calls[e]
  BY DEF CopyInv
<1>4. Copies(lines, e)' + Cardinality(Writers(e)') <= calls'[e]
  BY <1>1, <1>2, <1>3
<1>5. ASSUME NEW q \in Process, view'[q] # NoView
      PROVE  Copies(view[q], e)' + Cardinality(Writers(e)') <= calls'[e]
  <2>1. CASE view'[q] = view[q]
    <3>1. Copies(view[q], e)' = Copies(view[q], e)
      BY <2>1 DEF Copies
    <3> QED BY <1>1, <1>2, <1>3, <1>5, <2>1, <3>1
  <2>2. CASE view'[q] # view[q]
    BY <1>1, <1>2, <1>3, <1>5, <2>2
  <2> QED BY <2>1, <2>2
<1> QED BY <1>1, <1>4, <1>5

\* A step in which one of those that had to write e has written it, or given up.
LEMMA OneMoreCopy ==
  ASSUME TypeOK, CopyInv, NEW e \in Event, NEW p \in Writers(e), calls'[e] = calls[e],
         Writers(e)' \subseteq Writers(e) \ {p},
         Copies(lines, e)' \in Nat,
         Copies(lines, e)' <= Copies(lines, e) + 1,
         \A q \in Process : view'[q] # NoView => view'[q] = view[q]
  PROVE  /\ IsFiniteSet(Writers(e)')
         /\ Copies(lines, e)' + Cardinality(Writers(e)') <= calls'[e]
         /\ \A q \in Process : view'[q] # NoView
              => Copies(view[q], e)' + Cardinality(Writers(e)') <= calls'[e]
<1>1. IsFiniteSet(Writers(e))
  BY DEF CopyInv
<1>2. /\ IsFiniteSet(Writers(e) \ {p})
      /\ Cardinality(Writers(e) \ {p}) = Cardinality(Writers(e)) - 1
  BY <1>1, FS_RemoveElement
<1>3. /\ IsFiniteSet(Writers(e)')
      /\ Cardinality(Writers(e)) \in Nat /\ Cardinality(Writers(e)') \in Nat
      /\ Cardinality(Writers(e)') <= Cardinality(Writers(e)) - 1
  BY <1>1, <1>2, FS_Subset, FS_CardinalityType
<1>4. /\ Copies(lines, e) \in Nat /\ calls[e] \in Nat
      /\ \A q \in Process : view[q] # NoView => Copies(view[q], e) \in Nat
  BY CopiesIsNat DEF TypeOK
<1>5. /\ Copies(lines, e) + Cardinality(Writers(e)) <= calls[e]
      /\ \A q \in Process : view[q] # NoView
           => Copies(view[q], e) + Cardinality(Writers(e)) <= calls[e]
  BY DEF CopyInv
<1>6. \A q \in Process : view'[q] # NoView => Copies(view[q], e)' = Copies(view[q], e)
  BY DEF Copies
<1> QED BY <1>3, <1>4, <1>5, <1>6

\* A step that hands e to one more process.
LEMMA OneMoreCall ==
  ASSUME TypeOK, CopyInv, NEW e \in Event, NEW p \in Process, calls'[e] = calls[e] + 1,
         Writers(e)' \subseteq Writers(e) \cup {p},
         UNCHANGED <<lines, view>>
  PROVE  /\ IsFiniteSet(Writers(e)')
         /\ Copies(lines, e)' + Cardinality(Writers(e)') <= calls'[e]
         /\ \A q \in Process : view'[q] # NoView
              => Copies(view[q], e)' + Cardinality(Writers(e)') <= calls'[e]
<1>1. IsFiniteSet(Writers(e))
  BY DEF CopyInv
<1>2. /\ IsFiniteSet(Writers(e) \cup {p})
      /\ Cardinality(Writers(e) \cup {p}) <= Cardinality(Writers(e)) + 1
  <2>1. Cardinality(Writers(e)) \in Nat
    BY <1>1, FS_CardinalityType
  <2>2. CASE p \in Writers(e)
    <3>1. Writers(e) \cup {p} = Writers(e)
      BY <2>2
    <3>2. /\ IsFiniteSet(Writers(e) \cup {p})
          /\ Cardinality(Writers(e) \cup {p}) = Cardinality(Writers(e))
      BY <1>1, <3>1, Zenon
    <3> QED BY <2>1, <3>2
  <2>3. CASE p \notin Writers(e)
    <3>1. /\ IsFiniteSet(Writers(e) \cup {p})
          /\ Cardinality(Writers(e) \cup {p}) = Cardinality(Writers(e)) + 1
      BY <1>1, <2>3, FS_AddElement
    <3> QED BY <2>1, <3>1
  <2> QED BY <2>2, <2>3
<1>3. /\ IsFiniteSet(Writers(e)')
      /\ Cardinality(Writers(e)) \in Nat /\ Cardinality(Writers(e)') \in Nat
      /\ Cardinality(Writers(e) \cup {p}) \in Nat
      /\ Cardinality(Writers(e)') <= Cardinality(Writers(e) \cup {p})
  BY <1>1, <1>2, FS_Subset, FS_CardinalityType
<1>4. /\ Copies(lines, e) \in Nat /\ calls[e] \in Nat
      /\ \A q \in Process : view[q] # NoView => Copies(view[q], e) \in Nat
  BY CopiesIsNat DEF TypeOK
<1>5. /\ Copies(lines, e) + Cardinality(Writers(e)) <= calls[e]
      /\ \A q \in Process : view[q] # NoView
           => Copies(view[q], e) + Cardinality(Writers(e)) <= calls[e]
  BY DEF CopyInv
<1>6. /\ Copies(lines, e)' = Copies(lines, e)
      /\ \A q \in Process : Copies(view[q], e)' = Copies(view[q], e)
  BY DEF Copies
<1> QED BY <1>2, <1>3, <1>4, <1>5, <1>6

\* What p has still to write, from the list it is about to write.
LEMMA PendingOfTop ==
  ASSUME TypeOK, CopyInv, NEW p \in Process, pc[p] = "write"
  PROVE  /\ Head(todo[p]) \in Event
         /\ p \in Writers(Head(todo[p]))
         /\ IsInjective(Tail(todo[p]))
         /\ Range(Tail(todo[p])) = Range(todo[p]) \ {Head(todo[p])}
<1>1. todo[p] \in Seq(Event) /\ todo[p] # <<>> /\ IsInjective(todo[p])
  BY DEF TypeOK, CopyInv
<1>2. Head(todo[p]) \in Event
  BY <1>1
<1> QED BY <1>1, <1>2, TailOfInjective DEF Writers, Pending

\* A call that ends without a result leaves nothing to write.
LEMMA AbortWritesNothing ==
  ASSUME TypeOK, CopyInv, NEW p \in Process, Abort(p)
  PROVE  /\ \A e \in Event : Writers(e)' \subseteq Writers(e) \ {p}
         /\ \A q \in Process : IsInjective(todo'[q])
         /\ \A q \in Process : view'[q] # NoView => view'[q] = view[q]
<1>1. /\ todo' = [todo EXCEPT ![p] = <<>>] /\ pc' = [pc EXCEPT ![p] = "idle"]
      /\ view' = [view EXCEPT ![p] = NoView]
      /\ todo \in [Process -> Seq(Event)] /\ view \in [Process -> Seq(Event) \cup {NoView}]
      /\ pc \in [Process -> {"idle", "check", "create", "write", "wrote", "tmp", "rename"}]
  BY DEF Abort, TypeOK
<1>2. Pending(p)' = <<>> /\ \A q \in Process \ {p} : Pending(q)' = Pending(q)
  BY <1>1 DEF Pending
<1>3. Range(<<>>) = {} /\ IsInjective(<<>>)
  BY DEF Range, IsInjective
<1>4. \A e \in Event : Writers(e)' \subseteq Writers(e) \ {p}
  BY <1>2, <1>3 DEF Writers
<1>5. \A q \in Process : IsInjective(todo'[q])
  BY <1>1, <1>3 DEF CopyInv
<1> QED BY <1>1, <1>4, <1>5

\* CopyInv, from its parts.
LEMMA CopyInvFromParts ==
  ASSUME \A p \in Process : IsInjective(todo'[p]),
         \A e \in Event :
           /\ IsFiniteSet(Writers(e)')
           /\ Copies(lines, e)' + Cardinality(Writers(e)') <= calls'[e]
           /\ \A p \in Process : view'[p] # NoView
                => Copies(view[p], e)' + Cardinality(Writers(e)') <= calls'[e]
  PROVE  CopyInv'
BY DEF CopyInv

LEMMA CopyInvStep ==
  ASSUME TypeOK, TypeOK', CopyInv, NEW p \in Process, Step(p)
  PROVE  CopyInv'
<1>types. /\ todo \in [Process -> Seq(Event)] /\ calls \in [Event -> Nat]
          /\ pc \in [Process -> {"idle", "check", "create", "write", "wrote", "tmp", "rename"}]
          /\ view \in [Process -> Seq(Event) \cup {NoView}]
  BY DEF TypeOK
<1>copies. \A e \in Event : Copies(lines, e) \in Nat /\ Copies(lines, e)' \in Nat
  BY CopiesIsNat DEF TypeOK
<1>inj. \A q \in Process : IsInjective(todo[q])
  BY DEF CopyInv
<1>1. CASE AppendAll(p)
  <2>1. PICK es \in Batch : todo' = [todo EXCEPT ![p] = es]
                            /\ calls' = [e \in Event |-> IF e \in Range(es) THEN calls[e] + 1
                                                                            ELSE calls[e]]
    BY <1>1 DEF AppendAll
  <2>2. pc[p] = "idle" /\ pc' = [pc EXCEPT ![p] = "check"] /\ UNCHANGED <<lines, view>>
    BY <1>1 DEF AppendAll, disk
  <2>3. IsInjective(es)
    BY DEF Batch, IsInjective
  <2>4. Pending(p)' = es /\ \A q \in Process \ {p} : Pending(q)' = Pending(q)
    BY <1>types, <2>1, <2>2 DEF Pending
  <2>5. ASSUME NEW e \in Event
        PROVE  /\ IsFiniteSet(Writers(e)')
               /\ Copies(lines, e)' + Cardinality(Writers(e)') <= calls'[e]
               /\ \A q \in Process : view'[q] # NoView
                    => Copies(view[q], e)' + Cardinality(Writers(e)') <= calls'[e]
    <3>1. CASE e \in Range(es)
      <4>1. Writers(e)' \subseteq Writers(e) \cup {p}
        BY <2>4 DEF Writers
      <4> QED BY <2>1, <2>2, <3>1, <4>1, OneMoreCall
    <3>2. CASE e \notin Range(es)
      <4>1. Writers(e)' \subseteq Writers(e) /\ calls'[e] = calls[e]
        BY <2>1, <2>4, <3>2 DEF Writers
      <4>2. Copies(lines, e)' \in Nat /\ Copies(lines, e)' <= Copies(lines, e)
        BY <1>copies, <2>2 DEF Copies
      <4> QED BY <2>2, <4>1, <4>2, FewerCopies
    <3> QED BY <3>1, <3>2
  <2>6. \A q \in Process : IsInjective(todo'[q])
    BY <1>types, <1>inj, <2>1, <2>3
  <2> QED BY <2>5, <2>6, CopyInvFromParts
<1>2. ASSUME UNCHANGED <<lines, calls>>,
             \A e \in Event : Writers(e)' \subseteq Writers(e),
             \A q \in Process : IsInjective(todo'[q]),
             \A q \in Process : view'[q] # NoView =>
               view'[q] = view[q] \/ (Loads /\ view'[q] = Replayed)
      PROVE  CopyInv'
  <2>1. ASSUME NEW e \in Event
        PROVE  /\ IsFiniteSet(Writers(e)')
               /\ Copies(lines, e)' + Cardinality(Writers(e)') <= calls'[e]
               /\ \A q \in Process : view'[q] # NoView
                    => Copies(view[q], e)' + Cardinality(Writers(e)') <= calls'[e]
    <3>1. Copies(lines, e)' = Copies(lines, e)
      BY <1>2 DEF Copies
    <3>2. Copies(Replayed, e) \in Nat /\ Copies(Replayed, e) <= Copies(lines, e)
      <4>1. DOMAIN Replayed \subseteq DOMAIN lines
            /\ \A i \in DOMAIN Replayed : Replayed[i] = lines[i]
        BY DEF Replayed, TypeOK
      <4>2. lines \in Seq(Line)
        BY DEF TypeOK
      <4> QED BY <4>1, <4>2, CopiesOfLess
    <3>3. \A q \in Process : view'[q] # NoView =>
            \/ view'[q] = view[q]
            \/ /\ Copies(view[q], e)' \in Nat
               /\ Copies(view[q], e)' <= Copies(lines, e)
      BY <1>2, <3>2 DEF Copies
    <3> QED BY <1>2, <1>copies, <3>1, <3>3, FewerCopies
  <2> QED BY <1>2, <2>1, CopyInvFromParts
<1>3. CASE CheckExists(p) \/ LoadForCompaction(p) \/ WriteTmp(p)
  <2>1. UNCHANGED <<lines, calls, todo>>
    BY <1>3 DEF CheckExists, LoadForCompaction, WriteTmp, disk
  <2>2. \A q \in Process : pc'[q] = "wrote" <=> pc[q] = "wrote"
    BY <1>3, <1>types DEF CheckExists, LoadForCompaction, WriteTmp
  <2>3. \A e \in Event : Writers(e)' \subseteq Writers(e)
    BY <2>1, <2>2 DEF Writers, Pending
  <2>4. \A q \in Process : view'[q] # NoView =>
          view'[q] = view[q] \/ (Loads /\ view'[q] = Replayed)
    BY <1>3, <1>types DEF CheckExists, LoadForCompaction, WriteTmp
  <2>5. \A q \in Process : IsInjective(todo'[q])
    BY <1>inj, <2>1
  <2> QED BY <1>2, <2>1, <2>3, <2>4, <2>5
<1>4. ASSUME Abort(p), UNCHANGED <<lines, calls>> PROVE CopyInv'
  BY <1>2, <1>4, AbortWritesNothing
<1>5. CASE Crash(p)
  BY <1>4, <1>5 DEF Crash, disk
<1>6. CASE Create(p)
  <2>1. CASE exists
    <3>1. Abort(p) /\ UNCHANGED <<lines, calls>>
      BY <1>6, <2>1, Zenon DEF Create, disk
    <3> QED BY <1>4, <3>1
  <2>2. CASE ~exists
    <3>1. /\ lines' = <<>> /\ UNCHANGED <<todo, view, calls>>
          /\ pc[p] = "create"
          /\ pc' = [pc EXCEPT ![p] = IF view[p] = NoView THEN "write" ELSE "tmp"]
      BY <1>6, <2>2, Zenon DEF Create
    <3>2. \A q \in Process : pc'[q] = "wrote" <=> pc[q] = "wrote"
      BY <1>types, <3>1
    <3>3. \A e \in Event : Writers(e)' \subseteq Writers(e)
      BY <3>1, <3>2 DEF Writers, Pending
    <3>4. \A e \in Event : Copies(lines, e)' \in Nat /\ Copies(lines, e)' <= Copies(lines, e)
      <4> SUFFICES ASSUME NEW e \in Event
                   PROVE  Copies(lines', e) \in Nat /\ Copies(lines', e) <= Copies(lines, e)
        BY DEF Copies
      <4>1. lines \in Seq(Line) /\ DOMAIN lines' = {}
        BY <3>1 DEF TypeOK
      <4> QED BY <4>1, CopiesOfLess
    <3>5. \A q \in Process : IsInjective(todo'[q])
      BY <1>inj, <3>1
    <3>6. ASSUME NEW e \in Event
          PROVE  /\ IsFiniteSet(Writers(e)')
                 /\ Copies(lines, e)' + Cardinality(Writers(e)') <= calls'[e]
                 /\ \A q \in Process : view'[q] # NoView
                      => Copies(view[q], e)' + Cardinality(Writers(e)') <= calls'[e]
      BY <3>1, <3>3, <3>4, FewerCopies
    <3> QED BY <3>5, <3>6, CopyInvFromParts
  <2> QED BY <2>1, <2>2
<1>7. CASE Return(p)
  <2>1. /\ UNCHANGED <<lines, calls, view>> /\ pc[p] = "wrote" /\ todo[p] # <<>>
        /\ todo' = [todo EXCEPT ![p] = Tail(todo[p])]
        /\ pc'[p] # "wrote" /\ \A q \in Process \ {p} : pc'[q] = pc[q]
    BY <1>7, <1>types DEF Return, disk, TypeOK
  <2>2. \A q \in Process : Pending(q)' = Pending(q)
    BY <1>types, <2>1 DEF Pending
  <2>3. \A e \in Event : Writers(e)' \subseteq Writers(e)
    BY <2>2 DEF Writers
  <2>4. IsInjective(Tail(todo[p]))
    BY <1>types, <1>inj, <2>1, TailOfInjective
  <2>5. \A q \in Process : IsInjective(todo'[q])
    BY <1>types, <1>inj, <2>1, <2>4
  <2> QED BY <1>2, <2>1, <2>3, <2>5
<1>8. CASE Write(p)
  <2>0. PICK w \in Event : w = Head(todo[p])
    BY <1>8, PendingOfTop DEF Write
  <2>1. /\ pc[p] = "write" /\ lines' = Put(w) /\ UNCHANGED <<todo, view, calls>>
        /\ pc' = [pc EXCEPT ![p] = "wrote"]
    BY <1>8, <2>0 DEF Write
  <2>2. /\ w \in Line /\ p \in Writers(w)
        /\ Range(Tail(todo[p])) = Range(todo[p]) \ {w}
    BY <2>0, <2>1, PendingOfTop DEF Line
  <2>3. Pending(p) = todo[p] /\ Pending(p)' = Tail(todo[p])
        /\ \A q \in Process \ {p} : Pending(q)' = Pending(q)
    BY <1>types, <2>1 DEF Pending
  <2>4. /\ \A e \in Event : Writers(e)' \subseteq Writers(e)
        /\ Writers(w)' \subseteq Writers(w) \ {p}
    BY <2>2, <2>3 DEF Writers
  <2>5. \A e \in Event : /\ Copies(lines, e)' \in Nat
                         /\ Copies(lines, e)' <= Copies(lines, e) + 1
                         /\ w # e => Copies(lines, e)' <= Copies(lines, e)
    BY <2>1, <2>2, CopiesOfPut DEF Copies
  <2>6. ASSUME NEW e \in Event
        PROVE  /\ IsFiniteSet(Writers(e)')
               /\ Copies(lines, e)' + Cardinality(Writers(e)') <= calls'[e]
               /\ \A q \in Process : view'[q] # NoView
                    => Copies(view[q], e)' + Cardinality(Writers(e)') <= calls'[e]
    <3>1. CASE e = w
      BY <2>1, <2>2, <2>4, <2>5, <3>1, OneMoreCopy
    <3>2. CASE e # w
      BY <2>1, <2>4, <2>5, <3>2, FewerCopies
    <3> QED BY <3>1, <3>2
  <2> QED BY <1>inj, <2>1, <2>6, CopyInvFromParts
<1>9. CASE InterruptedWrite(p)
  <2>0. PICK w \in Event : w = Head(todo[p])
    BY <1>9, PendingOfTop DEF InterruptedWrite
  <2>1. PICK l \in {Malformed, w} : lines' = Put(l)
    BY <1>9, <2>0 DEF InterruptedWrite
  <2>2. pc[p] = "write" /\ Abort(p) /\ UNCHANGED calls
    BY <1>9 DEF InterruptedWrite
  <2>3. p \in Writers(w) /\ l \in Line
    BY <2>0, <2>2, PendingOfTop DEF Line
  <2>4. /\ \A e \in Event : Writers(e)' \subseteq Writers(e) \ {p}
        /\ \A q \in Process : IsInjective(todo'[q])
        /\ \A q \in Process : view'[q] # NoView => view'[q] = view[q]
    BY <2>2, AbortWritesNothing
  <2>5. \A e \in Event : /\ Copies(lines, e)' \in Nat
                         /\ Copies(lines, e)' <= Copies(lines, e) + 1
                         /\ l # e => Copies(lines, e)' <= Copies(lines, e)
    BY <2>1, <2>3, CopiesOfPut DEF Copies
  <2>6. ASSUME NEW e \in Event
        PROVE  /\ IsFiniteSet(Writers(e)')
               /\ Copies(lines, e)' + Cardinality(Writers(e)') <= calls'[e]
               /\ \A q \in Process : view'[q] # NoView
                    => Copies(view[q], e)' + Cardinality(Writers(e)') <= calls'[e]
    <3>1. CASE e = w
      BY <2>2, <2>3, <2>4, <2>5, <3>1, OneMoreCopy
    <3>2. CASE e # w
      <4>1. l # e
        BY <3>2, StoreAssumption
      <4> QED BY <2>2, <2>4, <2>5, <4>1, FewerCopies
    <3> QED BY <3>1, <3>2
  <2> QED BY <2>4, <2>6, CopyInvFromParts
<1>10. CASE Rename(p)
  <2>1. /\ lines' = view[p] /\ view[p] # NoView /\ UNCHANGED <<todo, calls>>
        /\ pc[p] = "rename" /\ pc' = [pc EXCEPT ![p] = "idle"]
        /\ view' = [view EXCEPT ![p] = NoView]
    BY <1>10 DEF Rename, TypeOK
  <2>2. \A q \in Process : pc'[q] = "wrote" <=> pc[q] = "wrote"
    BY <1>types, <2>1
  <2>3. \A e \in Event : Writers(e)' \subseteq Writers(e)
    BY <2>1, <2>2 DEF Writers, Pending
  <2>4. ASSUME NEW e \in Event
        PROVE  /\ IsFiniteSet(Writers(e)')
               /\ Copies(lines, e)' + Cardinality(Writers(e)') <= calls'[e]
               /\ \A q \in Process : view'[q] # NoView
                    => Copies(view[q], e)' + Cardinality(Writers(e)') <= calls'[e]
    <3>1. Copies(lines, e)' = Copies(view[p], e)
      BY <2>1 DEF Copies
    <3>2. \A q \in Process : view'[q] # NoView => view'[q] = view[q]
      BY <1>types, <2>1
    <3> QED BY <1>copies, <2>1, <2>3, <3>1, <3>2, FewerCopies
  <2> QED BY <1>inj, <2>1, <2>4, CopyInvFromParts
<1> QED BY <1>1, <1>3, <1>5, <1>6, <1>7, <1>8, <1>9, <1>10 DEF Step

\* However often a batch is retried, writes are torn or the log is compacted, an
\* event is in the log at most as often as calls were handed it.
THEOREM CopiesAreBounded == Spec => []NoMoreCopiesThanCalls
<1>1. Init => CopyInv
  <2> SUFFICES ASSUME Init PROVE CopyInv
    OBVIOUS
  <2>1. \A p \in Process : IsInjective(todo[p]) /\ Range(Pending(p)) = {} /\ view[p] = NoView
    BY DEF Init, IsInjective, Pending, Range
  <2>2. \A e : Copies(lines, e) = 0
    <3>1. \A e : {i \in DOMAIN lines : lines[i] = e} = {}
      BY DEF Init
    <3> QED BY <3>1, FS_EmptySet DEF Copies
  <2>3. \A e \in Event : Writers(e) = {} /\ calls[e] = 0
    BY <2>1 DEF Init, Writers
  <2>4. IsFiniteSet({}) /\ Cardinality({}) = 0
    BY FS_EmptySet
  <2> QED BY <2>1, <2>2, <2>3, <2>4 DEF CopyInv
<1>2. TypeOK /\ TypeOK' /\ CopyInv /\ [Next]_vars => CopyInv'
  <2> SUFFICES ASSUME TypeOK, TypeOK', CopyInv, [Next]_vars PROVE CopyInv'
    OBVIOUS
  <2>1. CASE Next
    BY <2>1, CopyInvStep DEF Next
  <2>2. CASE UNCHANGED vars
    BY <2>2 DEF vars, CopyInv, Copies, Writers, Pending
  <2> QED BY <2>1, <2>2
<1>3. TypeOK /\ CopyInv => NoMoreCopiesThanCalls
  <2> SUFFICES ASSUME TypeOK, CopyInv, NEW e \in Event
               PROVE  Copies(lines, e) <= calls[e]
    BY DEF NoMoreCopiesThanCalls, Copies
  <2>1. Copies(lines, e) \in Nat /\ calls[e] \in Nat
    BY CopiesIsNat DEF TypeOK
  <2>2. /\ Cardinality(Writers(e)) \in Nat
        /\ Copies(lines, e) + Cardinality(Writers(e)) <= calls[e]
    BY FS_CardinalityType DEF CopyInv
  <2> QED BY <2>1, <2>2
<1> QED BY <1>1, <1>2, <1>3, TypeCorrect, PTL DEF Spec
-----------------------------------------------------------------------------
(* Interrupted writes, when nobody compacts *)

\* Events whose write has been made and has returned, or is about to.
Written == acked \cup {Head(todo[p]) : p \in {q \in Process : pc[q] = "wrote"}}

\* The lines before the torn one, if the last line is torn.
Whole == IF open THEN SubSeq(lines, 1, Len(lines) - 1) ELSE lines

\* A write has been completed on top of a torn line.
Glued == ~open /\ lines # <<>> /\ lines[Len(lines)] = Malformed

\* No process compacts.  As long as the log loads, everything written is in a
\* whole line, but for the one event that was glued to a torn line.
TornInv == /\ \A p \in Process : view[p] = NoView
           /\ exists = FALSE => lines = <<>>
           /\ \A p \in Process : pc[p] \in {"write", "wrote"} => exists = TRUE
           /\ Loads /\ ~Glued => Written \subseteq Range(Whole)
           /\ Loads /\ Glued =>
                \E e \in Event : Written \ {e} \subseteq Range(SubSeq(lines, 1, Len(lines) - 1))

\* A write on top of a torn line spoils it, and changes nothing before it.
LEMMA PutOnTorn ==
  ASSUME TypeOK, open, NEW l \in Line
  PROVE  /\ Len(lines) \in Nat \ {0} /\ Len(Put(l)) = Len(lines)
         /\ Put(l)[Len(lines)] = Malformed
         /\ \A i \in 1..(Len(lines) - 1) : Put(l)[i] = lines[i]
         /\ SubSeq(Put(l), 1, Len(lines) - 1) = SubSeq(lines, 1, Len(lines) - 1)
<1>1. lines \in Seq(Line) /\ Malformed \in Line /\ Len(lines) \in 1..Len(lines)
  BY DEF TypeOK, Line
<1> HIDE DEF Line, TypeOK
<1>2. Put(l) = [lines EXCEPT ![Len(lines)] = Malformed]
  BY DEF Put
<1>3. /\ Put(l) \in Seq(Line) /\ Len(Put(l)) = Len(lines)
      /\ Put(l)[Len(lines)] = Malformed
      /\ \A i \in 1..(Len(lines) - 1) : Put(l)[i] = lines[i]
  BY <1>1, <1>2, ExceptSeq
<1>4. SubSeq(Put(l), 1, Len(lines) - 1) = SubSeq(lines, 1, Len(lines) - 1)
  BY <1>1, <1>3
<1> QED BY <1>1, <1>3, <1>4

\* Any other write adds one line.
LEMMA PutOnWhole ==
  ASSUME TypeOK, ~open, NEW l \in Line
  PROVE  /\ Len(lines) \in Nat /\ Len(Put(l)) = Len(lines) + 1
         /\ Put(l)[Len(lines) + 1] = l
         /\ \A i \in 1..Len(lines) : Put(l)[i] = lines[i]
         /\ SubSeq(Put(l), 1, Len(lines)) = lines
<1>1. lines \in Seq(Line)
  BY DEF TypeOK
<1> HIDE DEF Line, TypeOK
<1>2. Put(l) = Append(lines, l)
  BY DEF Put
<1>3. /\ Put(l) \in Seq(Line) /\ Len(Put(l)) = Len(lines) + 1
      /\ Put(l)[Len(lines) + 1] = l
      /\ \A i \in 1..Len(lines) : Put(l)[i] = lines[i]
  BY <1>1, <1>2, AppendProperties
<1>4. SubSeq(Put(l), 1, Len(lines)) = lines
  BY <1>1, <1>3
<1> QED BY <1>1, <1>3, <1>4

\* A log that loads after it does not end in a spoilt line before it.
LEMMA PutOnGlued ==
  ASSUME TypeOK, ~open, NEW l \in Line, lines' = Put(l), Loads'
  PROVE  ~Glued
<1>1. /\ Len(lines) \in Nat /\ Len(lines') = Len(lines) + 1
      /\ \A i \in 1..Len(lines) : lines'[i] = lines[i]
  BY PutOnWhole
<1>2. \A i \in 1..Len(lines) : lines[i] # Malformed
  BY <1>1 DEF Loads
<1>3. lines \in Seq(Line)
  BY DEF TypeOK
<1>4. lines # <<>> => Len(lines) \in 1..Len(lines)
  BY <1>1, <1>3
<1> QED BY <1>2, <1>4 DEF Glued

\* Neither mends a malformed line inside the file.
LEMMA PutKeepsCorruption ==
  ASSUME TypeOK, NEW l \in Line, lines' = Put(l), ~Loads
  PROVE  ~Loads'
<1>1. PICK i \in 1..(Len(lines) - 1) : lines[i] = Malformed
  BY DEF Loads
<1>2. CASE open
  BY <1>1, <1>2, PutOnTorn DEF Loads
<1>3. CASE ~open
  <2>1. i \in 1..Len(lines) /\ Len(lines) \in Nat
    BY <1>1, <1>3, PutOnWhole
  <2> QED BY <1>1, <1>3, <2>1, PutOnWhole DEF Loads
<1> QED BY <1>2, <1>3

LEMMA TornInvStep ==
  ASSUME Compactors = {}, TypeInv, TornInv, NEW p \in Process, Step(p)
  PROVE  /\ TornInv'
         /\ ~Loads => ~Loads'
<1> USE DEF TypeInv
<1>1. ASSUME UNCHANGED disk, Written' \subseteq Written, UNCHANGED view \/ Abort(p),
             \A q \in Process : pc'[q] \in {"write", "wrote"} => exists = TRUE
      PROVE  TornInv' /\ (~Loads => ~Loads')
  <2>1. (Loads' <=> Loads) /\ (Glued' <=> Glued) /\ Whole' = Whole
    BY <1>1 DEF disk, Loads, Glued, Whole
  <2>2. \A q \in Process : view'[q] = NoView
    BY <1>1 DEF Abort, TornInv, TypeOK
  <2> QED BY <1>1, <2>1, <2>2 DEF TornInv, disk
<1>2. CASE AppendAll(p) \/ CheckExists(p) \/ Return(p) \/ Crash(p)
  <2>1. UNCHANGED disk /\ (UNCHANGED view \/ Abort(p))
    BY <1>2 DEF AppendAll, CheckExists, Return, Crash
  <2>2. Written' \subseteq Written
    BY <1>2 DEF AppendAll, CheckExists, Return, Crash, Abort, Written, TypeOK
  <2>3. \A q \in Process : pc'[q] \in {"write", "wrote"} => exists = TRUE
    BY <1>2 DEF AppendAll, CheckExists, Return, Crash, Abort, TornInv, TypeOK
  <2> QED BY <2>1, <2>2, <2>3, <1>1
<1>3. CASE Create(p)
  <2>1. Written' \subseteq Written
    BY <1>3 DEF Create, Abort, Written, TypeOK
  <2>2. CASE exists = TRUE
    <3>1. Abort(p) /\ UNCHANGED disk
      BY <1>3, <2>2, Zenon DEF Create
    <3> QED BY <1>1, <2>1, <2>2, <3>1
  <2>3. CASE exists = FALSE
    <3>1. /\ exists' = TRUE /\ lines' = <<>> /\ open' = FALSE /\ UNCHANGED view
      BY <1>3, <2>3, Zenon DEF Create
    <3>2. lines = <<>> /\ ~open
      BY <2>3 DEF TornInv, TypeOK
    <3>3. Loads /\ ~Glued /\ Whole = <<>>
      BY <3>2 DEF Loads, Glued, Whole
    <3>4. Loads' /\ ~Glued' /\ Whole' = <<>>
      BY <3>1 DEF Loads, Glued, Whole
    <3> QED BY <2>1, <3>1, <3>3, <3>4 DEF TornInv
  <2> QED BY <2>2, <2>3 DEF TypeOK
<1>4. CASE Write(p)
  <2> DEFINE e == Head(todo[p])
  <2>1. e \in Event /\ e \in Line /\ e # Malformed
    BY <1>4, StoreAssumption DEF Write, TypeOK, Line
  <2>2. lines' = Put(e) /\ open' = FALSE
    BY <1>4 DEF Write
  <2>3. Written' \subseteq Written \cup {e}
    BY <1>4 DEF Write, Written, TypeOK
  <2>4. /\ \A q \in Process : view'[q] = NoView
        /\ exists' = FALSE => lines' = <<>>
        /\ \A q \in Process : pc'[q] \in {"write", "wrote"} => exists' = TRUE
    BY <1>4 DEF Write, TornInv, TypeOK
  <2>5. ~Loads => ~Loads'
    BY <2>1, <2>2, PutKeepsCorruption
  <2>6. CASE open
    <3>1. Glued' /\ SubSeq(lines', 1, Len(lines') - 1) = Whole
      BY <2>1, <2>2, <2>6, PutOnTorn DEF Glued, Whole
    <3>2. Loads => Written \subseteq Range(Whole)
      BY <2>6 DEF TornInv, Glued
    <3> QED BY <2>1, <2>3, <2>4, <2>5, <3>1, <3>2 DEF TornInv
  <2>7. CASE ~open
    <3>1. Whole' = lines' /\ ~Glued' /\ Whole = lines
      BY <2>1, <2>2, <2>7, PutOnWhole DEF Glued, Whole
    <3>2. lines \in Seq(Line) /\ Range(lines') = Range(lines) \cup {e}
      BY <2>1, <2>2, <2>7, RangeOfAppend DEF TypeOK, Put
    <3>3. ASSUME Loads' PROVE ~Glued
      BY <2>1, <2>2, <2>7, <3>3, PutOnGlued
    <3> QED BY <2>3, <2>4, <2>5, <3>1, <3>2, <3>3 DEF TornInv
  <2> QED BY <2>6, <2>7
<1>5. CASE InterruptedWrite(p)
  <2>1. PICK l \in {Malformed, Head(todo[p])} : lines' = Put(l)
    BY <1>5 DEF InterruptedWrite
  <2>2. l \in Line /\ open' = TRUE
    BY <1>5 DEF InterruptedWrite, TypeOK, Line
  <2>3. Written' \subseteq Written
    BY <1>5 DEF InterruptedWrite, Abort, Written, TypeOK
  <2>4. /\ \A q \in Process : view'[q] = NoView
        /\ exists' = FALSE => lines' = <<>>
        /\ \A q \in Process : pc'[q] \in {"write", "wrote"} => exists' = TRUE
    BY <1>5 DEF InterruptedWrite, Abort, TornInv, TypeOK
  <2>5. ~Loads => ~Loads'
    BY <2>1, <2>2, PutKeepsCorruption
  <2>6. ~Glued'
    BY <2>2 DEF Glued
  <2>7. Whole' = Whole
    <3>1. CASE open
      BY <2>1, <2>2, <3>1, PutOnTorn DEF Whole
    <3>2. CASE ~open
      BY <2>1, <2>2, <3>2, PutOnWhole DEF Whole
    <3> QED BY <3>1, <3>2
  <2>8. ASSUME Loads' PROVE ~Glued
    <3>1. CASE open
      BY <3>1 DEF Glued
    <3>2. CASE ~open
      BY <2>1, <2>2, <2>8, <3>2, PutOnGlued
    <3> QED BY <3>1, <3>2
  <2> QED BY <2>3, <2>4, <2>5, <2>6, <2>7, <2>8 DEF TornInv
<1>6. CASE LoadForCompaction(p) \/ WriteTmp(p) \/ Rename(p)
  BY <1>6 DEF LoadForCompaction, WriteTmp, Rename, TornInv, TypeOK
<1> QED BY <1>2, <1>3, <1>4, <1>5, <1>6 DEF Step

LEMMA TornInvNext ==
  ASSUME Compactors = {}
  PROVE  TypeInv /\ TornInv /\ [Next]_vars => TornInv' /\ (~Loads => ~Loads')
<1> SUFFICES ASSUME TypeInv, TornInv, [Next]_vars
             PROVE  TornInv' /\ (~Loads => ~Loads')
  OBVIOUS
<1>1. CASE Next
  BY <1>1, TornInvStep DEF Next
<1>2. CASE UNCHANGED vars
  BY <1>2 DEF vars, TornInv, Written, Whole, Glued, Loads
<1> QED BY <1>1, <1>2

LEMMA TornInvariant ==
  ASSUME Compactors = {}
  PROVE  Spec => [](TypeInv /\ TornInv)
<1>1. Init => TornInv
  BY DEF Init, TornInv, Written, Whole, Glued
<1> QED BY <1>1, TornInvNext, TypeInvariant, PTL DEF Spec

\* Range of the lines before the last, within the range of the lines.
LEMMA RangeOfFront ==
  ASSUME NEW S, NEW s \in Seq(S)
  PROVE  Range(SubSeq(s, 1, Len(s) - 1)) \subseteq Range(s)
<1>1. /\ Len(SubSeq(s, 1, Len(s) - 1)) = IF Len(s) = 0 THEN 0 ELSE Len(s) - 1
      /\ \A i \in 1..(Len(s) - 1) : SubSeq(s, 1, Len(s) - 1)[i] = s[i]
  OBVIOUS
<1>2. SubSeq(s, 1, Len(s) - 1) \in Seq(S)
  OBVIOUS
<1> QED BY <1>1, <1>2 DEF Range

\* Without compaction, however many writes are interrupted: a torn tail costs no
\* acknowledged event as long as it is the last thing in the file.
THEOREM TornTailIsHarmless ==
  ASSUME Compactors = {}
  PROVE  Spec => []TornTailHarmless
<1>1. TypeInv /\ TornInv => TornTailHarmless
  <2> SUFFICES ASSUME TypeInv, TornInv, open, Loads
               PROVE  acked \subseteq Range(Replayed)
    BY DEF TornTailHarmless
  <2>1. acked \subseteq Range(SubSeq(lines, 1, Len(lines) - 1))
    BY DEF TornInv, Glued, Whole, Written
  <2>2. Range(SubSeq(lines, 1, Len(lines) - 1)) \subseteq Range(lines)
    BY RangeOfFront DEF TypeInv, TypeOK
  <2> QED BY <2>1, <2>2 DEF Replayed
<1> QED BY <1>1, TornInvariant, PTL

\* Without compaction, a log that still loads misses at most one acknowledged
\* event.
THEOREM SilentLossIsBounded ==
  ASSUME Compactors = {}
  PROVE  Spec => []SilentLossBounded
<1>1. TypeInv /\ TornInv => SilentLossBounded
  <2> SUFFICES ASSUME TypeInv, TornInv, Loads
               PROVE  \A e, f \in acked \ Range(Replayed) : e = f
    BY DEF SilentLossBounded
  <2>1. CASE Glued
    <3>1. Replayed = SubSeq(lines, 1, Len(lines) - 1)
      BY <2>1 DEF Glued, Replayed
    <3> QED BY <2>1, <3>1 DEF TornInv, Written
  <2>2. CASE ~Glued
    <3>1. CASE open
      <4>1. acked \subseteq Range(SubSeq(lines, 1, Len(lines) - 1))
        BY <2>2, <3>1 DEF TornInv, Whole, Written
      <4>2. Range(SubSeq(lines, 1, Len(lines) - 1)) \subseteq Range(lines)
        BY RangeOfFront DEF TypeInv, TypeOK
      <4> QED BY <4>1, <4>2 DEF Replayed
    <3>2. CASE ~open
      BY <2>2, <3>2 DEF TornInv, Whole, Written, Glued, Replayed
    <3> QED BY <3>1, <3>2
  <2> QED BY <2>1, <2>2
<1> QED BY <1>1, TornInvariant, PTL

\* Without compaction, a log that load() rejects is rejected for ever.
THEOREM CorruptionIsPermanent ==
  ASSUME Compactors = {}
  PROVE  Spec => CorruptionPersists
<1>1. TypeInv /\ TornInv /\ [Next]_vars => [~Loads => ~Loads']_vars
  BY TornInvNext
<1> QED BY <1>1, TornInvariant, PTL DEF Spec, CorruptionPersists
=============================================================================
