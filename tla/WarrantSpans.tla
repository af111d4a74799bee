---------------------------- MODULE WarrantSpans ----------------------------
(***************************************************************************)
(* A quote and the text it is taken from: how resolveQuote binds an        *)
(* untrusted quote to captured text (warrant/resolveQuote.ts), and how a   *)
(* warrant somebody else supplies is verified against the captured source  *)
(* (verifyWarrantSpan, verifyNonPrimarySpan and the like checks of the     *)
(* conformance and relationship validators).                               *)
(*                                                                         *)
(* A text is the sequence of its words, an offset counts words, and the    *)
(* hash of a text is the text: hashes are only ever compared.  A store     *)
(* gives the captured text of every source, or Missing.                    *)
(***************************************************************************)
EXTENDS Integers, Sequences

CONSTANT Missing    \* a source that has not been captured

\* A warrant that is not there has no field, and quotes nothing.
NoWarrant == [quotedText |-> <<>>]

ClaimTypes == {"directly_stated", "inferred"}

Slice(text, start, end) == SubSeq(text, start + 1, end)

\* The offsets of all occurrences, overlapping ones included.
FindAllOccurrences(text, quote) ==
  {i \in 0 .. Len(text) - Len(quote) : Slice(text, i, i + Len(quote)) = quote}

Warrant(source, text, start, quote, claimType) ==
  [sourceId |-> source, contentHash |-> text, start |-> start, end |-> start + Len(quote),
   quotedText |-> quote, claimType |-> claimType]

Resolved(w) == [status |-> "resolved", warrant |-> w]
NotResolved(status) == [status |-> status, warrant |-> NoWarrant]

\* Mutant: the first of several occurrences is taken.
ResolveFirst(source, quote, claimType, store) ==
  IF quote = <<>> \/ claimType \notin ClaimTypes \/ store[source] = Missing
  THEN NotResolved("unresolvable")
  ELSE LET at == FindAllOccurrences(store[source], quote)
       IN IF at = {} THEN NotResolved("unresolvable")
          ELSE Resolved(Warrant(source, store[source],
                                CHOOSE i \in at : \A j \in at : i <= j, quote, claimType))

\* One verbatim occurrence, or nothing: several are never decided between.
ResolveQuote(source, quote, claimType, store) ==
  IF quote = <<>> \/ claimType \notin ClaimTypes \/ store[source] = Missing
  THEN NotResolved("unresolvable")
  ELSE LET at == FindAllOccurrences(store[source], quote)
       IN IF at = {} THEN NotResolved("unresolvable")
          ELSE IF \E i, j \in at : i # j THEN NotResolved("ambiguous")
          ELSE Resolved(Warrant(source, store[source], CHOOSE i \in at : TRUE, quote, claimType))

\* The fields every warrant must have before it is compared with anything.
Complete(w) ==
  /\ w.quotedText # <<>>
  /\ 0 <= w.start /\ w.start < w.end
  /\ w.claimType \in ClaimTypes

\* Mutant: the words at the span are compared, the hash of the text is not.
SpanOnly(w, store) ==
  /\ w # NoWarrant
  /\ Complete(w)
  /\ store[w.sourceId] # Missing
  /\ w.end <= Len(store[w.sourceId])
  /\ Slice(store[w.sourceId], w.start, w.end) = w.quotedText

\* verifyWarrantSpan
Verified(w, store) ==
  /\ w # NoWarrant
  /\ Complete(w)
  /\ store[w.sourceId] # Missing
  /\ store[w.sourceId] = w.contentHash
  /\ w.end <= Len(store[w.sourceId])
  /\ Slice(store[w.sourceId], w.start, w.end) = w.quotedText
=============================================================================
