---------------------------- MODULE CaseHistory ----------------------------
(***************************************************************************)
(* What a case event store promises its callers, with the file system left *)
(* out: one history that recording an event extends by exactly that event, *)
(* and a compaction that atomically puts back a copy taken earlier.  The   *)
(* file-level design of CaseEventStore implements this specification as    *)
(* long as no append is interrupted half way.                              *)
(***************************************************************************)
EXTENDS Sequences

CONSTANTS Process,   \* the operating-system processes that open the case
          Event,     \* the case events that can be recorded
          NoView     \* a process that holds no copy of the history

VARIABLES history,   \* what a replay returns
          copy       \* copy[p]: the history process p is about to put back

histVars == <<history, copy>>

Init == /\ history = <<>>
        /\ copy = [p \in Process |-> NoView]

\* append(): the history gains one event, at its end.
Record(e) == /\ history' = Append(history, e)
             /\ UNCHANGED copy

\* A compaction starts from what a replay returned...
TakeCopy(p) == /\ copy' = [copy EXCEPT ![p] = history]
               /\ UNCHANGED history

\* ... and ends by installing it in one step ...
PutBack(p) == /\ copy[p] # NoView
              /\ history' = copy[p]
              /\ copy' = [copy EXCEPT ![p] = NoView]

\* ... or is abandoned, leaving the history as it was.
Abandon(p) == /\ copy' = [copy EXCEPT ![p] = NoView]
              /\ UNCHANGED history

Next == \/ \E e \in Event : Record(e)
        \/ \E p \in Process : TakeCopy(p) \/ PutBack(p) \/ Abandon(p)

Spec == Init /\ [][Next]_histVars
=============================================================================
