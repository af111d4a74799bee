------------------------ MODULE CaseAnalysis_proofs ------------------------
(***************************************************************************)
(* What a trace vouches for, and what a drift report may leave unmarked,   *)
(* for every number of sources, documents, claims and changes.             *)
(*                                                                         *)
(* All of it rests on one inductive invariant: a trace is the analysis of  *)
(* the artifacts it pins, and stays it whatever is acquired later.  What a *)
(* validated claim went through is then read off the stages of the         *)
(* pipelines, and what its words are, for a claim of a binding force, off  *)
(* the draining of phrases from the sentences of its quotes.               *)
(***************************************************************************)
EXTENDS CaseAnalysis, FiniteSetTheorems, SequenceTheorems, TLAPS

-----------------------------------------------------------------------------
(* Quotations: what a resolved one, and a warrant that passes the check,   *)
(* guarantee for every text.                                               *)

\* Whatever resolveQuote resolves is quoted at one place only, from the text
\* captured for that source.
THEOREM ResolvedIsUnique ==
  ASSUME NEW source, NEW quote, NEW claimType, NEW store, NEW w,
         ResolveQuote(source, quote, claimType, store) = Resolved(w)
  PROVE  /\ quote # <<>> /\ claimType \in ClaimTypes
         /\ store[source] # Missing
         /\ FindAllOccurrences(store[source], quote) = {w.start}
         /\ w = Warrant(source, store[source], w.start, quote, claimType)
<1> DEFINE at == FindAllOccurrences(store[source], quote)
           i == CHOOSE i \in at : TRUE
<1>1. /\ store[source] # Missing
      /\ at # {} /\ ~\E k, j \in at : k # j
      /\ ResolveQuote(source, quote, claimType, store)
           = Resolved(Warrant(source, store[source], i, quote, claimType))
  BY DEF ResolveQuote, NotResolved, Resolved
<1>2. i \in at
  BY <1>1
<1>3. at = {i}
  BY <1>1, <1>2
<1>4. Warrant(source, store[source], i, quote, claimType).start = i
  BY DEF Warrant
<1>5. quote # <<>> /\ claimType \in ClaimTypes
      /\ w = Warrant(source, store[source], i, quote, claimType)
  BY <1>1 DEF ResolveQuote, NotResolved, Resolved
<1> QED
  BY <1>1, <1>3, <1>4, <1>5

\* The evidence a quotation is bound to passes every later check of the
\* pipeline against the same capture (warrantValidator.ts and its likes): no
\* claim is ever refused for a hash or a span the engine derived itself.
THEOREM ResolvedIsVerified ==
  ASSUME NEW Word, NEW source, NEW quote \in Seq(Word), NEW claimType, NEW store, NEW w,
         store[source] \in Seq(Word),
         ResolveQuote(source, quote, claimType, store) = Resolved(w)
  PROVE  Verified(w, store)
<1>1. FindAllOccurrences(store[source], quote) = {w.start}
  BY ONLY ResolveQuote(source, quote, claimType, store) = Resolved(w), ResolvedIsUnique
<1>2. w = Warrant(source, store[source], w.start, quote, claimType)
  BY ResolvedIsUnique
<1>3. store[source] # Missing /\ quote # <<>> /\ claimType \in ClaimTypes
  BY ResolvedIsUnique
<1>4. /\ w.start \in 0 .. Len(store[source]) - Len(quote)
      /\ Slice(store[source], w.start, w.start + Len(quote)) = quote
  BY <1>1 DEF FindAllOccurrences
<1>5. /\ Len(store[source]) \in Nat
      /\ Len(quote) \in Nat /\ Len(quote) > 0
  BY <1>3
<1>6. /\ w.sourceId = source /\ w.contentHash = store[source] /\ w.quotedText = quote
      /\ w.end = w.start + Len(quote) /\ w.claimType = claimType
  BY <1>2 DEF Warrant
<1>7. Complete(w)
  BY <1>3, <1>4, <1>5, <1>6 DEF Complete
<1>8. w.end <= Len(store[source])
  BY <1>4, <1>5, <1>6
<1>9. w # NoWarrant
  BY <1>3, <1>6 DEF NoWarrant
<1> QED
  BY <1>3, <1>4, <1>6, <1>7, <1>8, <1>9 DEF Verified

\* A warrant, wherever it comes from, that passes the check quotes words that
\* stand in the captured text of the source it cites, at the span it cites.
THEOREM VerifiedIsVerbatim ==
  ASSUME NEW Word, NEW w, NEW store,
         Verified(w, store),
         store[w.sourceId] \in Seq(Word), w.start \in Int, w.end \in Int,
         w.quotedText \in Seq(Word)
  PROVE  /\ Len(w.quotedText) = w.end - w.start
         /\ w.start \in FindAllOccurrences(store[w.sourceId], w.quotedText)
<1> DEFINE text == store[w.sourceId]
<1>1. /\ 0 <= w.start /\ w.start < w.end /\ w.end <= Len(text)
      /\ SubSeq(text, w.start + 1, w.end) = w.quotedText
  BY DEF Verified, Complete, Slice
<1>2. Len(text) \in Nat
  OBVIOUS
<1>3. Len(SubSeq(text, w.start + 1, w.end)) = w.end - w.start
  BY <1>1, <1>2
<1>4. Len(w.quotedText) = w.end - w.start
  BY <1>1, <1>3
<1>5. /\ w.start \in 0 .. Len(text) - Len(w.quotedText)
      /\ Slice(text, w.start, w.start + Len(w.quotedText)) = w.quotedText
  BY <1>1, <1>2, <1>4 DEF Slice
<1> QED
  BY <1>4, <1>5 DEF FindAllOccurrences

\* A warrant holds against a later capture exactly when the text is the one it
\* was given for: a page that changed elsewhere invalidates it, and a capture
\* with the same text never does.
THEOREM VerifiedPinsTheText ==
  ASSUME NEW w, NEW old, NEW new, Verified(w, old)
  PROVE  Verified(w, new) <=> new[w.sourceId] = old[w.sourceId]
BY DEF Verified

-----------------------------------------------------------------------------
(* What a trace stays true to *)

IInv == /\ DOMAIN rechecked = Source
        /\ trace = NoTrace => rechecked = NothingChecked
        /\ Kept => /\ trace.compiled = Compile(Texts(trace.artifacts))
                   /\ \A s \in Source : trace.artifacts[s] = Unavailable => rechecked[s] = Pending

LEMMA InitIInv == Init => IInv
BY DEF Init, IInv, NothingChecked, Kept

LEMMA NextIInv == IInv /\ [Next]_vars => IInv'
<1> SUFFICES ASSUME IInv, [Next]_vars
             PROVE  IInv'
  OBVIOUS
<1> USE DEF IInv, Kept
<1>1. CASE UNCHANGED <<trace, rechecked>>
  BY <1>1
<1>2. CASE Analyse
  <2> DEFINE store == SourceStore(Supplied \o captured)
  <2>1. trace = NoTrace /\ trace' = Analysis(store) /\ rechecked' = NothingChecked
    BY <1>2 DEF Analyse, world
  <2>2. trace'.artifacts = store /\ trace'.compiled = Compile(Texts(store))
    BY <2>1 DEF Analysis
  <2>3. (DOMAIN rechecked = Source)' /\ \A s \in Source : rechecked'[s] = Pending
    BY <2>1 DEF NothingChecked
  <2>4. Compile(Texts(trace.artifacts))' = Compile(Texts(store))
    BY <2>2
  <2> QED
    BY <2>1, <2>2, <2>3, <2>4
<1>3. CASE Recheck
  BY <1>3 DEF Recheck, Pinned, Artifact
<1>4. CASE CheckAgain
  BY <1>4 DEF CheckAgain, Checked, NothingChecked
<1> QED
  BY <1>1, <1>2, <1>3, <1>4
     DEF Next, vars, world, Publish, Upgrade, Acquire, AcquireFails, Acquiring

LEMMA SpecIInv == Spec => []IInv
BY InitIInv, NextIInv, PTL DEF Spec

-----------------------------------------------------------------------------
(* What the stages of a pipeline establish about a claim they validate. *)

LEMMA ThenValidated ==
  ASSUME NEW first, NEW second, Then(first, second) = "validated"
  PROVE  first = "validated" /\ second = "validated"
BY DEF Then

LEMMA CheckValidated ==
  ASSUME NEW condition, Check(condition) = "validated"
  PROVE  condition
BY DEF Check

LEMMA BindingResolved ==
  ASSUME NEW resolution, Binding(resolution) = "validated",
         resolution.status \in {"unresolvable", "ambiguous", "resolved"}
  PROVE  resolution.status = "resolved"
BY DEF Binding

LEMMA ResolutionStatus ==
  ASSUME NEW source, NEW quote, NEW claimType, NEW texts
  PROVE  LET r == ResolveQuote(source, quote, claimType, texts)
         IN /\ r.status \in {"unresolvable", "ambiguous", "resolved"}
            /\ r.status = "resolved" => r = Resolved(r.warrant)
BY DEF ResolveQuote, NotResolved, Resolved

QuotedOnce(source, quote, claimType, texts, w) ==
  /\ texts[source] # Missing
  /\ Cardinality(FindAllOccurrences(texts[source], quote)) = 1
  /\ w = Warrant(source, texts[source], w.start, quote, claimType)
  /\ w # NoWarrant

LEMMA ResolvedQuotedOnce ==
  ASSUME NEW source, NEW quote, NEW claimType, NEW texts,
         ResolveQuote(source, quote, claimType, texts).status = "resolved"
  PROVE  QuotedOnce(source, quote, claimType, texts,
                    ResolveQuote(source, quote, claimType, texts).warrant)
<1> DEFINE w == ResolveQuote(source, quote, claimType, texts).warrant
<1>0. ResolveQuote(source, quote, claimType, texts) = Resolved(w)
  BY ResolutionStatus
<1>1. /\ texts[source] # Missing
      /\ FindAllOccurrences(texts[source], quote) = {w.start}
      /\ w = Warrant(source, texts[source], w.start, quote, claimType)
  BY <1>0, ResolvedIsUnique
<1>2. Cardinality({w.start}) = 1
  BY FS_Singleton
<1>3. quote # <<>>
  BY <1>0, ResolvedIsUnique
<1>4. w # NoWarrant
  BY <1>1, <1>3 DEF Warrant, NoWarrant
<1> QED
  BY <1>1, <1>2, <1>4 DEF QuotedOnce

\* resolveRawProposal: every quote of a candidate stands once in its source.
LEMMA RawIsQuotedOnce ==
  ASSUME NEW p, NEW texts, ResolveRawProposal(p, texts) = "validated"
  PROVE  /\ QuotedOnce(p.source, p.quote, p.claimType, texts, Candidate(p, texts).warrant)
         /\ p.extra # NoQuote =>
              QuotedOnce(p.source, p.extra, p.extraType, texts, Candidate(p, texts).second)
         /\ p.extra = NoQuote => Candidate(p, texts).second = NoWarrant
<1>1. Binding(Primary(p, texts)) = "validated" /\ Binding(Secondary(p, texts)) = "validated"
  BY ThenValidated DEF ResolveRawProposal
<1>2. Primary(p, texts).status = "resolved"
  BY <1>1, BindingResolved, ResolutionStatus DEF Primary, Resolution
<1>3. QuotedOnce(p.source, p.quote, p.claimType, texts, Candidate(p, texts).warrant)
  BY <1>2, ResolvedQuotedOnce DEF Primary, Resolution, Candidate
<1>4. CASE p.extra = NoQuote
  BY <1>3, <1>4 DEF Secondary, Resolved, Candidate
<1>5. CASE p.extra # NoQuote
  <2>1. Secondary(p, texts) = ResolveQuote(p.source, p.extra, p.extraType, texts)
    BY <1>5 DEF Secondary, Resolution
  <2>2. Secondary(p, texts).status = "resolved"
    BY <1>1, <2>1, BindingResolved, ResolutionStatus
  <2> QED
    BY <1>3, <1>5, <2>1, <2>2, ResolvedQuotedOnce DEF Candidate
<1> QED
  BY <1>4, <1>5

WasRead(p) == p.claimType # "inferred" /\ (p.extra # NoQuote => p.extraType # "inferred")

LEMMA StatedIsRead ==
  ASSUME NEW source, NEW quote, NEW claimType, NEW texts, NEW w,
         QuotedOnce(source, quote, claimType, texts, w), Stated(w) = "validated"
  PROVE  claimType # "inferred"
BY DEF QuotedOnce, Warrant, Stated

LEMMA RuleIsRead ==
  ASSUME NEW p, NEW texts, ProposeRawAndValidate(p, texts) = "validated"
  PROVE  ResolveRawProposal(p, texts) = "validated" /\ WasRead(p)
<1> DEFINE c == Candidate(p, texts)
<1>1. ResolveRawProposal(p, texts) = "validated" /\ ProposeAndValidate(c, texts) = "validated"
  BY ThenValidated DEF ProposeRawAndValidate
<1>2. CheckWarrant(c, texts) = "validated"
  BY <1>1, ThenValidated DEF ProposeAndValidate
<1>3. /\ Stated(c.warrant) = "validated"
      /\ c.second # NoWarrant => Stated(c.second) = "validated"
  BY <1>2 DEF CheckWarrant, Then
<1> QED
  BY <1>1, <1>3, RawIsQuotedOnce, StatedIsRead DEF WasRead, QuotedOnce

LEMMA RelationshipIsRead ==
  ASSUME NEW p, NEW texts, p.extra = NoQuote, ProposeRawRelationship(p, texts) = "validated"
  PROVE  ResolveRawProposal(p, texts) = "validated" /\ WasRead(p)
<1> DEFINE c == Candidate(p, texts)
<1>1. /\ ResolveRawProposal(p, texts) = "validated"
      /\ CheckRelationshipWarrant(c, texts) = "validated"
  BY ThenValidated DEF ProposeRawRelationship
<1>2. Stated(c.warrant) = "validated"
  BY <1>1 DEF CheckRelationshipWarrant, Then
<1> QED
  BY <1>1, <1>2, RawIsQuotedOnce, StatedIsRead DEF WasRead

LEMMA ConstraintIsRead ==
  ASSUME NEW p, NEW texts, NEW allowed,
         ProposeRawConformanceRule(p, texts, allowed) = "validated"
  PROVE  /\ ResolveRawProposal(p, texts) = "validated"
         /\ WasRead(p)
         /\ p.source \in allowed
<1> DEFINE c == Candidate(p, texts)
<1>1. /\ GateSourceId(allowed, p.source) = "validated"
      /\ ResolveRawProposal(p, texts) = "validated"
      /\ ProposeConformanceRule(c, texts, allowed) = "validated"
  BY DEF ProposeRawConformanceRule, Then
<1>2. p.source \in allowed
  BY <1>1 DEF GateSourceId, Check
<1>3. c.claim = p
  BY DEF Candidate
<1>4. ValidateConformanceRule(c, texts) = "validated"
  BY <1>1 DEF ProposeConformanceRule, Then
<1>5. /\ Stated(c.warrant) = "validated"
      /\ ValidateException(c, texts) = "validated"
  BY <1>4 DEF ValidateConformanceRule, Then
<1>6. p.extra # NoQuote => Stated(c.second) = "validated"
  BY <1>3, <1>5 DEF ValidateException, Then
<1> QED
  BY <1>1, <1>2, <1>5, <1>6, RawIsQuotedOnce, StatedIsRead DEF WasRead

-----------------------------------------------------------------------------
(* Compile, at the claims it validates. *)

LEMMA CompileValidated ==
  ASSUME NEW texts
  PROVE  LET compiled == Compile(texts)
         IN /\ compiled.rules.validated =
                 {p \in RuleClaims :
                    ProposeGatedRawRule(p, texts, compiled.allowed) = "validated"}
            /\ compiled.constraints.validated =
                 {p \in Constraints :
                    ProposeRawConformanceRule(p, texts, compiled.allowed) = "validated"}
            /\ compiled.lineage.validated =
                 {p \in Range(Lineage) : ProposeRawRelationship(p, texts) = "validated"}
BY DEF Compile, Batch, Verdicts

LEMMA RuleIsGated ==
  ASSUME NEW p, NEW texts, NEW allowed, ProposeGatedRawRule(p, texts, allowed) = "validated"
  PROVE  p.source \in allowed /\ ProposeRawAndValidate(p, texts) = "validated"
BY DEF ProposeGatedRawRule, GateSourceId, Check, Then

\* What the claims of a trace have in common, whatever their kind.
LEMMA ClaimFacts ==
  ASSUME IInv, Kept, NEW p \in Claims(trace.compiled)
  PROVE  /\ p.source \in Pinned
         /\ Texts(trace.artifacts)[p.source] = trace.artifacts[p.source].text
         /\ ResolveRawProposal(p, Texts(trace.artifacts)) = "validated"
         /\ WasRead(p)
         /\ p \in trace.compiled.lineage.validated \/ p.source \in trace.compiled.allowed
<1> DEFINE T == Texts(trace.artifacts)
<1>1. trace.compiled = Compile(T)
  BY DEF IInv
<1>2. /\ p.source \in Source
      /\ ResolveRawProposal(p, T) = "validated"
      /\ WasRead(p)
      /\ p \in trace.compiled.lineage.validated \/ p.source \in trace.compiled.allowed
  <2>1. CASE p \in trace.compiled.rules.validated
    <3>1. p \in RuleClaims /\ ProposeGatedRawRule(p, T, trace.compiled.allowed) = "validated"
      BY <1>1, <2>1, CompileValidated
    <3> QED
      BY <3>1, RuleIsGated, RuleIsRead, AnalysisAssumption DEF AnalysisAssumption
  <2>2. CASE p \in trace.compiled.constraints.validated
    <3>1. p \in Constraints
          /\ ProposeRawConformanceRule(p, T, trace.compiled.allowed) = "validated"
      BY <1>1, <2>2, CompileValidated
    <3> QED
      BY <3>1, ConstraintIsRead, AnalysisAssumption DEF AnalysisAssumption
  <2>3. CASE p \in trace.compiled.lineage.validated
    <3>1. p \in Range(Lineage) /\ ProposeRawRelationship(p, T) = "validated"
      BY <1>1, <2>3, CompileValidated
    <3> QED
      BY <2>3, <3>1, RelationshipIsRead, AnalysisAssumption DEF AnalysisAssumption
  <2> QED
    BY <2>1, <2>2, <2>3 DEF Claims
<1>3. T[p.source] # Missing
  BY <1>2, RawIsQuotedOnce DEF QuotedOnce
<1> QED
  BY <1>2, <1>3 DEF Texts, Pinned

-----------------------------------------------------------------------------
(* The properties *)

\* Every claim a trace vouches for stands once in the text the trace pins, was
\* read and not inferred, and comes from a source that governs the case if it
\* can bind, wherever documents changed during the analysis or after it.
THEOREM SpecClaimsAreWarranted == Spec => []ClaimsAreWarranted
<1>1. IInv => ClaimsAreWarranted
  <2> SUFFICES ASSUME IInv, Kept, NEW p \in Claims(trace.compiled)
               PROVE  /\ \A q \in Quotes(p) : IsQuotedOnce(q, trace.artifacts[p.source].text)
                      /\ p.claimType # "inferred"
                      /\ p.extra # NoQuote => p.extraType # "inferred"
                      /\ \/ p \in trace.compiled.lineage.validated
                         \/ p.source \in trace.compiled.allowed
    BY DEF ClaimsAreWarranted
  <2>1. \A q \in Quotes(p) : IsQuotedOnce(q, trace.artifacts[p.source].text)
    BY ClaimFacts, RawIsQuotedOnce DEF QuotedOnce, Quotes, IsQuotedOnce
  <2> QED
    BY <2>1, ClaimFacts DEF WasRead
<1> QED
  BY <1>1, SpecIInv, PTL

LEMMA UnmarkedText ==
  ASSUME IInv, Checked, NEW s \in Pinned, s \notin Drifted
  PROVE  /\ rechecked[s] # Unavailable
         /\ Texts(rechecked)[s] = Texts(trace.artifacts)[s]
         /\ rechecked[s].text = trace.artifacts[s].text
<1>1. Status(trace.artifacts[s], rechecked[s]) = "UNCHANGED"
  BY DEF Drifted
<1>2. rechecked[s] # Unavailable /\ rechecked[s].text = trace.artifacts[s].text
  BY <1>1 DEF Status
<1> QED
  BY <1>2 DEF Texts, Pinned

\* A claim whose quotation can no longer be resolved, because its source is
\* gone, changed, or is extracted differently, is marked for revalidation.
THEOREM SpecLostQuotesMarked == Spec => []LostQuotesMarked
<1>1. IInv => LostQuotesMarked
  <2> SUFFICES ASSUME IInv, Checked, NEW p \in Claims(trace.compiled), p.source \notin Drifted
               PROVE  /\ rechecked[p.source] # Unavailable
                      /\ \A q \in Quotes(p) : IsQuotedOnce(q, rechecked[p.source].text)
    BY DEF LostQuotesMarked, Marked
  <2>1. Kept
    BY DEF Checked, Kept
  <2>2. \A q \in Quotes(p) : IsQuotedOnce(q, trace.artifacts[p.source].text)
    BY <2>1, ClaimFacts, RawIsQuotedOnce DEF QuotedOnce, Quotes, IsQuotedOnce
  <2> QED
    BY <2>1, <2>2, ClaimFacts, UnmarkedText
<1> QED
  BY <1>1, SpecIInv, PTL

\* A drift report of no change means that the analysis could be made again from
\* the documents the check saw, with the same result in every part.
THEOREM SpecUnchangedIsReproducible == Spec => []UnchangedIsReproducible
<1>1. IInv => UnchangedIsReproducible
  <2> SUFFICES ASSUME IInv, Checked, Overall = "UNCHANGED"
               PROVE  Compile(Texts(rechecked)) = trace.compiled
    BY DEF UnchangedIsReproducible
  <2>1. Kept /\ Drifted = {}
    BY DEF Checked, Kept, Overall
  <2>2. \A s \in Source : Texts(rechecked)[s] = Texts(trace.artifacts)[s]
    <3> TAKE s \in Source
    <3>1. CASE s \in Pinned
      BY <2>1, <3>1, UnmarkedText
    <3>2. CASE s \notin Pinned
      <4>1. rechecked[s] = Pending /\ trace.artifacts[s] = Unavailable
        BY <2>1, <3>2 DEF IInv, Pinned
      <4> QED
        BY <4>1 DEF Texts, Pending
    <3> QED
      BY <3>1, <3>2
  <2>3. Texts(rechecked) = Texts(trace.artifacts)
    BY <2>2 DEF Texts
  <2> QED
    BY <2>1, <2>3 DEF IInv
<1> QED
  BY <1>1, SpecIInv, PTL

-----------------------------------------------------------------------------
(* Rules written down with their warrants *)

\* Everything the rule pipeline asks of a store is the text of the sources
\* whose warrants it checks.
LEMMA ProposeAndValidateIsLocal ==
  ASSUME NEW c, NEW old, NEW new, NEW source,
         c.warrant.sourceId = source,
         c.second = NoWarrant \/ c.second.sourceId = source,
         old[source] = new[source]
  PROVE  ProposeAndValidate(c, old) = ProposeAndValidate(c, new)
<1>1. Verified(c.warrant, old) = Verified(c.warrant, new)
  BY DEF Verified
<1>2. CheckWarrant(c, old) = CheckWarrant(c, new)
  <2>1. CASE c.second = NoWarrant
    BY <1>1, <2>1 DEF CheckWarrant
  <2>2. CASE c.second # NoWarrant
    <3>1. Verified(c.second, old) = Verified(c.second, new)
      BY <2>2 DEF Verified
    <3> QED
      BY <1>1, <3>1 DEF CheckWarrant
  <2> QED
    BY <2>1, <2>2
<1> QED
  BY <1>2 DEF ProposeAndValidate

LEMMA RawIsLocal ==
  ASSUME NEW p, NEW old, NEW new, old[p.source] = new[p.source]
  PROVE  /\ Candidate(p, old) = Candidate(p, new)
         /\ ResolveRawProposal(p, old) = ResolveRawProposal(p, new)
<1>1. \A quote, claimType : ResolveQuote(p.source, quote, claimType, old)
                             = ResolveQuote(p.source, quote, claimType, new)
  BY DEF ResolveQuote
<1>2. Primary(p, old) = Primary(p, new) /\ Secondary(p, old) = Secondary(p, new)
  BY <1>1 DEF Primary, Secondary, Resolution
<1> QED
  BY <1>2 DEF Candidate, ResolveRawProposal

LEMMA CandidateSources ==
  ASSUME NEW p, NEW texts, ResolveRawProposal(p, texts) = "validated"
  PROVE  LET c == Candidate(p, texts)
         IN /\ c.claim = p
            /\ c.warrant.sourceId = p.source
            /\ c.warrant.contentHash = texts[p.source]
            /\ c.second = NoWarrant \/ c.second.sourceId = p.source
<1> DEFINE c == Candidate(p, texts)
<1>1. c.warrant = Warrant(p.source, texts[p.source], c.warrant.start, p.quote, p.claimType)
  BY RawIsQuotedOnce DEF QuotedOnce
<1>2. \/ c.second = NoWarrant
      \/ c.second = Warrant(p.source, texts[p.source], c.second.start, p.extra, p.extraType)
  BY RawIsQuotedOnce DEF QuotedOnce
<1>3. c.claim = p
  BY DEF Candidate
<1> QED
  BY <1>1, <1>2, <1>3 DEF Warrant

\* Evidence written down with its warrants is accepted later exactly as far as
\* the captured text is still the same: a rule a drift report leaves unmarked
\* passes again, and one that passes would be accepted from its quotes alone.
THEOREM SpecPinnedRulesAgree == Spec => []PinnedRulesAgree
<1>1. IInv => PinnedRulesAgree
  <2> SUFFICES ASSUME IInv, Checked
               PROVE  PinnedRulesAgree
    BY DEF PinnedRulesAgree
  <2> DEFINE old    == Texts(trace.artifacts)
             new    == Texts(rechecked)
             rules  == trace.compiled.rules.validated
             pinned == {Candidate(p, old) : p \in rules}
             passed == {c.claim : c \in EvaluateFixture(pinned, rechecked).validated}
  <2>1. Kept /\ trace.compiled = Compile(old)
    BY DEF IInv, Checked, Kept
  <2>2. /\ EvaluateFixture(pinned, rechecked).validated
             = {c \in pinned : ProposeAndValidate(c, new) = "validated"}
        /\ ResolveCase(rechecked).validated
             = {p \in RuleClaims : ProposeRawAndValidate(p, new) = "validated"}
    BY DEF EvaluateFixture, ResolveCase, Batch, Verdicts
  <2>3. ASSUME NEW p \in rules
        PROVE  /\ p \in RuleClaims /\ p \in Claims(trace.compiled)
               /\ p.source \in Pinned
               /\ ResolveRawProposal(p, old) = "validated"
               /\ ProposeAndValidate(Candidate(p, old), old) = "validated"
    <3>1. p \in RuleClaims /\ ProposeGatedRawRule(p, old, trace.compiled.allowed) = "validated"
      BY <2>1, CompileValidated
    <3>2. p \in Claims(trace.compiled)
      BY DEF Claims
    <3>3. ProposeRawAndValidate(p, old) = "validated"
      BY <3>1, RuleIsGated
    <3> QED
      BY <2>1, <3>1, <3>2, <3>3, ClaimFacts, ThenValidated DEF ProposeRawAndValidate
  <2>4. rules \ Marked \subseteq passed
    <3> SUFFICES ASSUME NEW p \in rules, p \notin Marked
                 PROVE  p \in passed
      OBVIOUS
    <3> DEFINE c == Candidate(p, old)
    <3>1. p.source \in Pinned /\ p.source \notin Drifted
      BY <2>3 DEF Marked
    <3>2. old[p.source] = new[p.source]
      BY <3>1, UnmarkedText
    <3>3. ProposeAndValidate(c, new) = "validated"
      BY <2>3, <3>2, CandidateSources, ProposeAndValidateIsLocal
    <3>4. c \in pinned /\ c.claim = p
      BY DEF Candidate
    <3> QED
      BY <2>2, <3>3, <3>4
  <2>5. passed \subseteq ResolveCase(rechecked).validated
    <3> SUFFICES ASSUME NEW q \in passed
                 PROVE  q \in ResolveCase(rechecked).validated
      OBVIOUS
    <3>0. PICK c \in pinned : ProposeAndValidate(c, new) = "validated" /\ q = c.claim
      BY <2>2
    <3>1. PICK p \in rules : c = Candidate(p, old)
      OBVIOUS
    <3>2. q = p
      BY <3>0, <3>1 DEF Candidate
    <3>3. CheckWarrant(c, new) = "validated"
      BY <3>0, ThenValidated DEF ProposeAndValidate
    <3>4. Verified(c.warrant, new)
      BY <3>3 DEF CheckWarrant, Then, Check
    <3>5. new[p.source] = old[p.source]
      BY <2>3, <3>1, <3>4, CandidateSources DEF Verified
    <3>6. ResolveRawProposal(p, new) = "validated" /\ Candidate(p, new) = c
      BY <2>3, <3>1, <3>5, RawIsLocal
    <3>7. ProposeRawAndValidate(p, new) = "validated"
      BY <3>0, <3>6 DEF ProposeRawAndValidate, Then
    <3> QED
      BY <2>2, <2>3, <3>2, <3>7
  <2> QED
    BY <2>4, <2>5 DEF PinnedRulesAgree
<1> QED
  BY <1>1, SpecIInv, PTL

-----------------------------------------------------------------------------
(* Numbers *)

LEMMA Induction ==
  ASSUME NEW S, 0 \in S, \A n \in Nat : n \in S => n + 1 \in S
  PROVE  Nat \subseteq S
<1> DEFINE Missed == {0..n : n \in Nat \ S}
<1> SUFFICES ASSUME Missed # {}
             PROVE  FALSE
  OBVIOUS
<1>1. Missed \subseteq FiniteSubsetsOf(Nat)
  <2>1. \A n \in Nat : 0..n \in SUBSET Nat /\ IsFiniteSet(0..n)
    BY FS_Interval
  <2> QED
    BY <2>1 DEF FiniteSubsetsOf
<1>2. IsWellFoundedOn(StrictSubsetOrdering(Nat), FiniteSubsetsOf(Nat))
  BY FS_StrictSubsetOrderingWellFounded
<1> HIDE DEF Missed
<1>3. PICK X \in Missed : \A Y \in Missed : <<Y, X>> \notin StrictSubsetOrdering(Nat)
  BY <1>1, <1>2, WFMin
<1> USE DEF Missed
<1>4. PICK m \in Nat \ S : X = 0..m
  OBVIOUS
<1>5. m - 1 \in Nat \ S
  BY <1>4
<1>6. <<0..(m - 1), 0..m>> \in StrictSubsetOrdering(Nat)
  <2>1. 0..(m - 1) \subseteq 0..m /\ m \in 0..m /\ m \notin 0..(m - 1) /\ 0..m \subseteq Nat
    BY <1>4
  <2> QED
    BY <2>1 DEF StrictSubsetOrdering
<1> QED
  BY <1>3, <1>4, <1>5, <1>6

\* The place of i among the numbers S.
Place(S, i) == Cardinality({k \in S : k < i})
Nth(S, n) == CHOOSE i \in S : Place(S, i) = n - 1

LEMMA PlacesOrder ==
  ASSUME NEW m \in Nat, NEW S \in SUBSET (1..m)
  PROVE  /\ IsFiniteSet(S) /\ Cardinality(S) \in Nat
         /\ \A i \in S : Place(S, i) \in Nat /\ Place(S, i) + 1 \in 1..Cardinality(S)
         /\ \A i, j \in S : i < j => Place(S, i) < Place(S, j)
         /\ \A i \in S : i + 1 \in S => Place(S, i + 1) = Place(S, i) + 1
<1> DEFINE Less(i) == {k \in S : k < i}
<1>0. \A k \in S : k \in Nat
  OBVIOUS
<1>1. IsFiniteSet(S) /\ Cardinality(S) \in Nat
  <2>1. IsFiniteSet(1..m)
    BY FS_Interval
  <2>2. IsFiniteSet(S)
    BY <2>1, FS_Subset
  <2> QED
    BY <2>2, FS_CardinalityType
<1>2. ASSUME NEW i \in S
      PROVE  /\ IsFiniteSet(Less(i)) /\ Place(S, i) \in Nat
             /\ Less(i) \in SUBSET S /\ i \notin Less(i)
  <2>1. Less(i) \in SUBSET S
    OBVIOUS
  <2>2. IsFiniteSet(Less(i))
    BY <1>1, <2>1, FS_Subset
  <2>3. i \notin Less(i)
    OBVIOUS
  <2> QED
    BY <2>1, <2>2, <2>3, FS_CardinalityType DEF Place
<1>3. ASSUME NEW i \in S
      PROVE  Place(S, i) + 1 \in 1..Cardinality(S)
  <2>1. Less(i) # S
    BY <1>2
  <2> HIDE DEF Less
  <2>2. Cardinality(Less(i)) <= Cardinality(S) /\ Cardinality(Less(i)) # Cardinality(S)
    BY <1>1, <1>2, <2>1, FS_Subset
  <2>3. Place(S, i) = Cardinality(Less(i))
    BY DEF Place, Less
  <2> QED
    BY <1>1, <1>2, <2>2, <2>3
<1>4. ASSUME NEW i \in S, NEW j \in S, i < j
      PROVE  Place(S, i) < Place(S, j)
  <2>1. Less(i) \in SUBSET Less(j) /\ i \in Less(j)
    <3>1. \A k \in S : k < i => k < j
      BY <1>0, <1>4
    <3> QED
      BY <1>4, <3>1
  <2>2. Less(i) # Less(j)
    BY <1>2, <2>1
  <2>3. Place(S, i) = Cardinality(Less(i)) /\ Place(S, j) = Cardinality(Less(j))
    BY DEF Place
  <2>4. /\ IsFiniteSet(Less(i)) /\ Place(S, i) \in Nat
        /\ IsFiniteSet(Less(j)) /\ Place(S, j) \in Nat
    BY <1>2
  <2> HIDE DEF Less
  <2>5. Cardinality(Less(i)) <= Cardinality(Less(j)) /\ Cardinality(Less(i)) # Cardinality(Less(j))
    BY <2>1, <2>2, <2>4, FS_Subset
  <2> QED
    BY <2>3, <2>4, <2>5
<1>5. ASSUME NEW i \in S, i + 1 \in S
      PROVE  Place(S, i + 1) = Place(S, i) + 1
  <2>1. Less(i + 1) = Less(i) \cup {i}
    <3>1. \A k \in S : k < i + 1 <=> k < i \/ k = i
      BY <1>0
    <3> QED
      BY <3>1
  <2>2. Place(S, i) = Cardinality(Less(i)) /\ Place(S, i + 1) = Cardinality(Less(i + 1))
    BY DEF Place
  <2>3. IsFiniteSet(Less(i)) /\ i \notin Less(i)
    BY <1>2
  <2> HIDE DEF Less
  <2> QED
    BY <2>1, <2>2, <2>3, FS_AddElement
<1> QED
  BY <1>1, <1>2, <1>3, <1>4, <1>5

LEMMA NthIsPlaced ==
  ASSUME NEW m \in Nat, NEW S \in SUBSET (1..m)
  PROVE  /\ \A n \in 1..Cardinality(S) : Nth(S, n) \in S
         /\ \A i \in S : Nth(S, Place(S, i) + 1) = i
<1> DEFINE C == Cardinality(S)
           place == [i \in S |-> Place(S, i) + 1]
<1>1. /\ IsFiniteSet(S) /\ C \in Nat
      /\ \A i \in S : Place(S, i) \in Nat /\ Place(S, i) + 1 \in 1..C
      /\ \A i, j \in S : Place(S, i) = Place(S, j) => i = j
  <2>1. \A i, j \in S : i < j \/ j < i \/ i = j
    <3>1. \A k \in S : k \in Nat
      OBVIOUS
    <3> QED
      BY <3>1
  <2>2. /\ IsFiniteSet(S) /\ Cardinality(S) \in Nat
        /\ \A i \in S : Place(S, i) \in Nat /\ Place(S, i) + 1 \in 1..Cardinality(S)
        /\ \A i, j \in S : i < j => Place(S, i) < Place(S, j)
    BY PlacesOrder
  <2> QED
    BY <2>1, <2>2
<1>2. place \in Injection(S, 1..C)
  BY <1>1 DEF Injection, IsInjective
<1>3. IsFiniteSet(1..C) /\ Cardinality(1..C) = C
  BY <1>1, FS_Interval
<1>4. place \in Surjection(S, 1..C)
  <2> HIDE DEF place
  <2> QED
    BY <1>1, <1>2, <1>3, FS_Injection
<1>5. ASSUME NEW n \in 1..C
      PROVE  \E i \in S : Place(S, i) = n - 1
  <2>1. PICK i \in S : place[i] = n
    <3> HIDE DEF place
    <3> QED
      BY <1>4 DEF Surjection
  <2>2. Place(S, i) + 1 = n /\ Place(S, i) \in Nat /\ n \in Nat
    BY <1>1, <2>1
  <2> QED
    BY <2>2
<1>6. ASSUME NEW n \in 1..C
      PROVE  Nth(S, n) \in S /\ Place(S, Nth(S, n)) = n - 1
  <2> HIDE DEF C
  <2> QED
    BY <1>5 DEF Nth
<1>7. ASSUME NEW i \in S
      PROVE  Nth(S, Place(S, i) + 1) = i
  <2>1. Place(S, i) + 1 \in 1..C
    BY <1>1
  <2>2. Nth(S, Place(S, i) + 1) \in S /\ Place(S, Nth(S, Place(S, i) + 1)) = (Place(S, i) + 1) - 1
    BY <1>6, <2>1
  <2>3. Place(S, Nth(S, Place(S, i) + 1)) = Place(S, i)
    BY <1>1, <2>2
  <2> QED
    BY <1>1, <2>2, <2>3
<1> QED
  BY <1>6, <1>7

-----------------------------------------------------------------------------
(* Phrases and drained texts *)

\* A phrase occurs where its words stand side by side.
OccursAt(text, phrase, j) ==
  /\ j \in Nat /\ j + Len(phrase) <= Len(text)
  /\ \A k \in 1..Len(phrase) : text[j + k] = phrase[k]

LEMMA Occurrences ==
  ASSUME NEW W, NEW text \in Seq(W), NEW V, NEW phrase \in Seq(V), NEW j
  PROVE  j \in FindAllOccurrences(text, phrase) <=> OccursAt(text, phrase, j)
<1> DEFINE L == Len(phrase)
           slice == SubSeq(text, j + 1, j + L)
<1>1. Len(text) \in Nat /\ L \in Nat
  OBVIOUS
<1>2. j \in 0 .. Len(text) - L <=> j \in Nat /\ j + L <= Len(text)
  BY <1>1
<1>3. ASSUME j \in Nat, j + L <= Len(text)
      PROVE  slice = phrase <=> \A k \in 1..L : text[j + k] = phrase[k]
  <2>1. /\ slice \in Seq(W) /\ Len(slice) = L
        /\ \A k \in 1..L : slice[k] = text[j + k]
    <3>1. \A i \in j + 1 .. j + L : text[i] \in W
      BY <1>1, <1>3
    <3>2. j + 1 \in Int /\ j + L \in Int
      BY <1>1, <1>3
    <3>3. /\ slice \in Seq(W)
          /\ Len(slice) = IF j + 1 <= j + L THEN (j + L) - (j + 1) + 1 ELSE 0
          /\ \A k \in 1 .. (j + L) - (j + 1) + 1 : slice[k] = text[(j + 1) + k - 1]
      <4> HIDE DEF L
      <4> QED
        BY <3>1, <3>2, SubSeqProperties
    <3> QED
      BY <1>1, <1>3, <3>3
  <2>2. slice \in Seq(W \cup V) /\ phrase \in Seq(W \cup V)
    <3> HIDE DEF slice
    <3> QED
      BY <2>1, SeqMonotonic
  <2>3. (\A k \in 1..L : slice[k] = phrase[k]) => slice = phrase
    <3> HIDE DEF slice
    <3> QED
      BY <2>1, <2>2, SeqEqual
  <2> HIDE DEF slice
  <2> QED
    BY <2>1, <2>3
<1> QED
  BY <1>2, <1>3 DEF FindAllOccurrences, Slice, OccursAt

DrainState(W) == [text : Seq(W), found : BOOLEAN]

\* The words a phrase leaves behind.
Left(text, phrase) ==
  {i \in DOMAIN text :
     \A j \in FindAllOccurrences(text, phrase) : i \notin j + 1 .. j + Len(phrase)}

\* Where its i-th word is in the drained text.
LeftAt(text, phrase, i, drained) ==
  /\ Place(Left(text, phrase), i) + 1 \in 1..Len(drained)
  /\ drained[Place(Left(text, phrase), i) + 1] = text[i]

LEMMA DrainedPhrase ==
  ASSUME NEW W, NEW state \in DrainState(W), NEW phrase,
         FindAllOccurrences(state.text, phrase) # {}
  PROVE  /\ DrainPhrase(state, phrase) \in DrainState(W)
         /\ DrainPhrase(state, phrase).found = TRUE
         /\ \A i \in Left(state.text, phrase) :
              LeftAt(state.text, phrase, i, DrainPhrase(state, phrase).text)
<1> DEFINE left == Left(state.text, phrase)
           words == [n \in 1..Cardinality(left) |-> state.text[Nth(left, n)]]
<1>1. state.text \in Seq(W) /\ Len(state.text) \in Nat /\ DOMAIN state.text = 1..Len(state.text)
  BY DEF DrainState
<1>2. left \in SUBSET (1..Len(state.text))
  BY <1>1 DEF Left
<1>3. DrainPhrase(state, phrase) = [text |-> words, found |-> TRUE]
  BY DEF DrainPhrase, Left, Nth, Place
<1> HIDE DEF left
<1>4. /\ Cardinality(left) \in Nat
      /\ \A n \in 1..Cardinality(left) : Nth(left, n) \in left
      /\ \A i \in left : /\ Nth(left, Place(left, i) + 1) = i
                         /\ Place(left, i) + 1 \in 1..Cardinality(left)
  BY <1>1, <1>2, NthIsPlaced, PlacesOrder
<1>5. words \in [1..Cardinality(left) -> W]
  <2>1. \A i \in left : state.text[i] \in W
    BY <1>1, <1>2
  <2> QED
    BY <1>4, <2>1
<1>6. words \in Seq(W) /\ Len(words) = Cardinality(left)
  <2> HIDE DEF words
  <2> QED
    BY <1>4, <1>5
<1>7. \A i \in left : words[Place(left, i) + 1] = state.text[i]
  BY <1>4
<1>9. \A i \in left : LeftAt(state.text, phrase, i, words)
  BY <1>4, <1>6, <1>7 DEF LeftAt, left
<1> HIDE DEF words
<1>8. /\ DrainPhrase(state, phrase) \in DrainState(W) /\ DrainPhrase(state, phrase).found = TRUE
      /\ DrainPhrase(state, phrase).text = words
  BY <1>3, <1>6 DEF DrainState
<1> QED
  BY <1>8, <1>9 DEF left

LEMMA UndrainedPhrase ==
  ASSUME NEW state, NEW phrase, FindAllOccurrences(state.text, phrase) = {}
  PROVE  DrainPhrase(state, phrase) = state
BY DEF DrainPhrase

LEMMA DrainPhraseType ==
  ASSUME NEW W, NEW state \in DrainState(W), NEW phrase
  PROVE  DrainPhrase(state, phrase) \in DrainState(W)
BY DrainedPhrase, UndrainedPhrase

\* A word that is taken out stands in the phrase, among the words of the phrase.
LEMMA TakenWords ==
  ASSUME NEW W, NEW text \in Seq(W), NEW V, NEW phrase \in Seq(V),
         NEW i \in (1..Len(text)) \ Left(text, phrase)
  PROVE  \E k \in 1..Len(phrase) :
           /\ text[i] = phrase[k]
           /\ k < Len(phrase) => i < Len(text) /\ text[i + 1] = phrase[k + 1]
           /\ k > 1 => text[i - 1] = phrase[k - 1]
<1>1. Len(text) \in Nat /\ Len(phrase) \in Nat /\ DOMAIN text = 1..Len(text)
  OBVIOUS
<1>2. PICK j \in FindAllOccurrences(text, phrase) : i \in j + 1 .. j + Len(phrase)
  BY <1>1 DEF Left
<1>3. OccursAt(text, phrase, j)
  BY <1>2, Occurrences
<1>4. j \in Nat /\ j + Len(phrase) <= Len(text)
      /\ \A k \in 1..Len(phrase) : text[j + k] = phrase[k]
  BY <1>3 DEF OccursAt
<1> DEFINE k == i - j
<1>5. k \in 1..Len(phrase) /\ i = j + k /\ i + 1 = j + (k + 1) /\ i - 1 = j + (k - 1)
  BY <1>1, <1>2, <1>4
<1> HIDE DEF k
<1>6. /\ k < Len(phrase) => k + 1 \in 1..Len(phrase) /\ i < Len(text)
      /\ k > 1 => k - 1 \in 1..Len(phrase)
  BY <1>1, <1>4, <1>5
<1> QED
  BY <1>4, <1>5, <1>6

\* Draining a phrase leaves a word that is none of its words, and two
\* neighbours whose words are never the border of the phrase.
LEMMA WordStays ==
  ASSUME NEW W, NEW state \in DrainState(W), NEW V, NEW phrase \in Seq(V), NEW w \in V,
         \A k \in 1..Len(phrase) : phrase[k] # w,
         FindAllOccurrences(state.text, <<w>>) # {}
  PROVE  FindAllOccurrences(DrainPhrase(state, phrase).text, <<w>>) # {}
<1> SUFFICES ASSUME FindAllOccurrences(state.text, phrase) # {}
             PROVE  FindAllOccurrences(DrainPhrase(state, phrase).text, <<w>>) # {}
  BY UndrainedPhrase
<1> DEFINE text == state.text
           drained == DrainPhrase(state, phrase).text
           left == Left(text, phrase)
<1>1. /\ text \in Seq(W) /\ Len(text) \in Nat /\ DOMAIN text = 1..Len(text)
      /\ <<w>> \in Seq(V) /\ Len(<<w>>) = 1 /\ <<w>>[1] = w
  BY DEF DrainState
<1>2. PICK j : OccursAt(text, <<w>>, j)
  <2> HIDE DEF text
  <2>1. PICK j \in FindAllOccurrences(text, <<w>>) : TRUE
    BY DEF text
  <2> QED
    BY <1>1, <2>1, Occurrences
<1>3. j \in Nat /\ j + 1 \in 1..Len(text) /\ text[j + 1] = w
  BY <1>1, <1>2 DEF OccursAt
<1>4. j + 1 \in left
  <2> HIDE DEF text
  <2> QED
    BY <1>1, <1>3, TakenWords
<1>5. /\ drained \in Seq(W) /\ Place(left, j + 1) + 1 \in 1..Len(drained)
      /\ drained[Place(left, j + 1) + 1] = text[j + 1]
  <2>1. DrainPhrase(state, phrase) \in DrainState(W) /\ LeftAt(text, phrase, j + 1, drained)
    BY <1>4, DrainedPhrase
  <2> QED
    BY <2>1 DEF DrainState, LeftAt
<1> DEFINE n == Place(left, j + 1)
<1>6. n \in Nat
  <2>1. left \in SUBSET (1..Len(text))
    BY <1>1 DEF Left
  <2> HIDE DEF left, text
  <2> QED
    BY <1>1, <1>4, <2>1, PlacesOrder
<1> HIDE DEF n, drained, left, text
<1>7. OccursAt(drained, <<w>>, n)
  BY <1>1, <1>3, <1>5, <1>6 DEF OccursAt, n
<1> QED
  BY <1>1, <1>5, <1>7, Occurrences DEF drained

LEMMA PairStays ==
  ASSUME NEW W, NEW state \in DrainState(W), NEW V, NEW phrase \in Seq(V),
         NEW a \in V, NEW b \in V,
         \A k \in 1..Len(phrase) :
           /\ phrase[k] = a => k < Len(phrase) /\ phrase[k + 1] # b
           /\ phrase[k] = b => k > 1 /\ phrase[k - 1] # a,
         FindAllOccurrences(state.text, <<a, b>>) # {}
  PROVE  FindAllOccurrences(DrainPhrase(state, phrase).text, <<a, b>>) # {}
<1> SUFFICES ASSUME FindAllOccurrences(state.text, phrase) # {}
             PROVE  FindAllOccurrences(DrainPhrase(state, phrase).text, <<a, b>>) # {}
  BY UndrainedPhrase
<1> DEFINE text == state.text
           drained == DrainPhrase(state, phrase).text
           left == Left(text, phrase)
<1>1. /\ text \in Seq(W) /\ Len(text) \in Nat /\ DOMAIN text = 1..Len(text)
      /\ <<a, b>> \in Seq(V) /\ Len(<<a, b>>) = 2 /\ <<a, b>>[1] = a /\ <<a, b>>[2] = b
  BY DEF DrainState
<1>2. PICK j : OccursAt(text, <<a, b>>, j)
  <2> HIDE DEF text
  <2>1. PICK j \in FindAllOccurrences(text, <<a, b>>) : TRUE
    BY DEF text
  <2> QED
    BY <1>1, <2>1, Occurrences
<1>3. /\ j \in Nat /\ j + 1 \in 1..Len(text) /\ text[j + 1] = a
      /\ (j + 1) + 1 \in 1..Len(text) /\ text[(j + 1) + 1] = b
      /\ ((j + 1) + 1) - 1 = j + 1
  BY <1>1, <1>2 DEF OccursAt
<1>4. j + 1 \in left /\ (j + 1) + 1 \in left
  <2> HIDE DEF text
  <2>1. j + 1 \in left
    <3> SUFFICES ASSUME j + 1 \notin left
                 PROVE  FALSE
      OBVIOUS
    <3> DEFINE i == j + 1
    <3>0. i \in (1..Len(text)) \ Left(text, phrase)
      BY <1>3
    <3>1. PICK k \in 1..Len(phrase) :
            text[i] = phrase[k] /\ (k < Len(phrase) => text[i + 1] = phrase[k + 1])
      <4> HIDE DEF i
      <4> QED
        BY <1>1, <3>0, TakenWords
    <3> QED
      BY <1>3, <3>1
  <2>2. (j + 1) + 1 \in left
    <3> SUFFICES ASSUME (j + 1) + 1 \notin left
                 PROVE  FALSE
      OBVIOUS
    <3> DEFINE i == (j + 1) + 1
    <3>0. i \in (1..Len(text)) \ Left(text, phrase)
      BY <1>3
    <3>1. PICK k \in 1..Len(phrase) :
            text[i] = phrase[k] /\ (k > 1 => text[i - 1] = phrase[k - 1])
      <4> HIDE DEF i
      <4> QED
        BY <1>1, <3>0, TakenWords
    <3> QED
      BY <1>3, <3>1
  <2> QED
    BY <2>1, <2>2
<1> DEFINE n == Place(left, j + 1)
<1>5. n \in Nat /\ Place(left, (j + 1) + 1) = n + 1
  <2>1. left \in SUBSET (1..Len(text))
    BY <1>1 DEF Left
  <2> HIDE DEF left, text
  <2> QED
    BY <1>1, <1>4, <2>1, PlacesOrder
<1>6. /\ drained \in Seq(W) /\ Len(drained) \in Nat
      /\ n + 1 \in 1..Len(drained) /\ drained[n + 1] = a
      /\ (n + 1) + 1 \in 1..Len(drained) /\ drained[(n + 1) + 1] = b
  <2>0. DrainPhrase(state, phrase) \in DrainState(W)
        /\ \A i \in left : LeftAt(text, phrase, i, drained)
    BY DrainedPhrase
  <2>1. drained \in Seq(W) /\ Len(drained) \in Nat
    BY <2>0 DEF DrainState
  <2>2. \A i \in left : /\ Place(left, i) + 1 \in 1..Len(drained)
                        /\ drained[Place(left, i) + 1] = text[i]
    BY <2>0 DEF LeftAt
  <2> HIDE DEF drained, left, text
  <2> QED
    BY <1>3, <1>4, <1>5, <2>1, <2>2
<1> HIDE DEF n, drained, left, text
<1>7. OccursAt(drained, <<a, b>>, n)
  <2>1. n + Len(<<a, b>>) <= Len(drained)
    BY <1>1, <1>5, <1>6
  <2>2. \A k \in 1..2 : k = 1 \/ k = 2
    OBVIOUS
  <2>3. (n + 1) + 1 = n + 2
    BY <1>5
  <2> QED
    BY <1>1, <1>5, <1>6, <2>1, <2>2, <2>3 DEF OccursAt
<1> QED
  BY <1>1, <1>6, <1>7, Occurrences DEF drained

\* f is the draining of the first n phrases, one after the other.
Drains(f, text, phrases, n) ==
  f = [m \in 0..n |-> IF m = 0 THEN [text |-> text, found |-> FALSE]
                      ELSE DrainPhrase(f[m - 1], phrases[m])]

LEMMA DrainSteps ==
  ASSUME NEW text, NEW phrases, Len(phrases) \in Nat
  PROVE  \E f : /\ f[0] = [text |-> text, found |-> FALSE]
                /\ \A n \in 0..(Len(phrases) - 1) : f[n + 1] = DrainPhrase(f[n], phrases[n + 1])
                /\ Drain(text, phrases) = f[Len(phrases)]
<1> DEFINE N == Len(phrases)
           Done == {n \in Nat : \E f : Drains(f, text, phrases, n)}
           Start == [text |-> text, found |-> FALSE]
           Step(f, m) == IF m = 0 THEN Start ELSE DrainPhrase(f[m - 1], phrases[m])
<1>1. ASSUME NEW f, NEW n \in Nat, Drains(f, text, phrases, n), NEW m \in 0..n
      PROVE  f[m] = Step(f, m)
  <2> DEFINE F == [k \in 0..n |-> Step(f, k)]
  <2>1. f = F
    BY <1>1 DEF Drains
  <2>2. F[m] = Step(f, m)
    <3> HIDE DEF Step
    <3> QED
      OBVIOUS
  <2> QED
    BY ONLY <2>1, <2>2
<1>2. 0 \in Done
  <2>1. Drains([m \in 0..0 |-> [text |-> text, found |-> FALSE]], text, phrases, 0)
    BY DEF Drains
  <2> QED
    BY <2>1
<1>3. ASSUME NEW n \in Nat, n \in Done
      PROVE  n + 1 \in Done
  <2>1. PICK f : Drains(f, text, phrases, n)
    BY <1>3
  <2> DEFINE g == [m \in 0..(n + 1) |-> IF m <= n THEN f[m] ELSE DrainPhrase(f[n], phrases[n + 1])]
             h == [m \in 0..(n + 1) |-> Step(g, m)]
  <2>2. ASSUME NEW m \in 0..(n + 1)
        PROVE  g[m] = h[m]
    <3>0. h[m] = Step(g, m)
      <4> HIDE DEF Step, g
      <4> QED
        OBVIOUS
    <3>1. CASE m = 0
      <4> HIDE DEF Start
      <4>1. f[0] = Start /\ g[0] = f[0] /\ h[0] = Start
        BY <1>1, <2>1, <3>0, <3>1
      <4> QED
        BY <3>1, <4>1
    <3>2. CASE m \in 1..n
      <4>1. m - 1 \in 0..n /\ g[m - 1] = f[m - 1] /\ g[m] = f[m] /\ m # 0 /\ m \in 0..n
        BY <3>2
      <4>2. f[m] = Step(f, m)
        BY <1>1, <2>1, <4>1
      <4> QED
        BY <3>0, <4>1, <4>2
    <3>3. CASE m = n + 1
      <4>1. m - 1 = n /\ g[m - 1] = f[n] /\ m # 0 /\ ~(m <= n)
        BY <3>3
      <4> QED
        BY <3>0, <3>3, <4>1
    <3> QED
      BY <3>1, <3>2, <3>3
  <2>3. g = h
    <3> HIDE DEF Step
    <3> QED
      BY <2>2
  <2>4. Drains(g, text, phrases, n + 1)
    BY <2>3 DEF Drains
  <2> QED
    BY <2>4
<1>4. \E f : Drains(f, text, phrases, N)
  <2> HIDE DEF Done
  <2>1. Nat \subseteq Done
    BY <1>2, <1>3, Induction
  <2> QED
    BY <2>1 DEF Done
<1> DEFINE d == CHOOSE f : Drains(f, text, phrases, N)
<1>5. Drains(d, text, phrases, N)
  BY <1>4
<1>6. Drain(text, phrases) = d[N]
  BY DEF Drain, Drains
<1> HIDE DEF d
<1>7. d[0] = Start
  <2> HIDE DEF Start
  <2>1. Step(d, 0) = Start /\ 0 \in 0..N
    OBVIOUS
  <2> HIDE DEF Step
  <2> QED
    BY <1>1, <1>5, <2>1
<1>8. ASSUME NEW n \in 0..(N - 1)
      PROVE  d[n + 1] = DrainPhrase(d[n], phrases[n + 1])
  <2>1. n + 1 \in 0..N /\ n + 1 # 0 /\ (n + 1) - 1 = n
    OBVIOUS
  <2>2. d[n + 1] = Step(d, n + 1)
    BY <1>1, <1>5, <2>1
  <2> QED
    BY <2>1, <2>2
<1> QED
  BY <1>6, <1>7, <1>8

\* What every phrase preserves, draining preserves.
LEMMA DrainPreserves ==
  ASSUME NEW text, NEW phrases, Len(phrases) \in Nat, NEW P,
         [text |-> text, found |-> FALSE] \in P,
         \A n \in 1..Len(phrases) : \A state \in P : DrainPhrase(state, phrases[n]) \in P
  PROVE  Drain(text, phrases) \in P
<1> DEFINE N == Len(phrases)
<1>1. PICK f : /\ f[0] = [text |-> text, found |-> FALSE]
               /\ \A n \in 0..(N - 1) : f[n + 1] = DrainPhrase(f[n], phrases[n + 1])
               /\ Drain(text, phrases) = f[N]
  BY DrainSteps
<1> DEFINE Preserved == {n \in Nat : n <= N => f[n] \in P}
<1>2. 0 \in Preserved
  BY <1>1
<1>3. ASSUME NEW n \in Nat, n \in Preserved
      PROVE  n + 1 \in Preserved
  <2> SUFFICES ASSUME n + 1 <= N
               PROVE  f[n + 1] \in P
    OBVIOUS
  <2>1. n \in 0..(N - 1) /\ n + 1 \in 1..N /\ f[n] \in P
    BY <1>3
  <2> QED
    BY <1>1, <2>1
<1>4. Nat \subseteq Preserved
  <2> HIDE DEF Preserved
  <2> QED
    BY <1>2, <1>3, Induction
<1> QED
  BY <1>1, <1>4

LEMMA DrainType ==
  ASSUME NEW W, NEW text \in Seq(W), NEW phrases, Len(phrases) \in Nat
  PROVE  Drain(text, phrases) \in DrainState(W)
<1>1. [text |-> text, found |-> FALSE] \in DrainState(W)
  BY DEF DrainState
<1>2. \A state \in DrainState(W) : \A phrase : DrainPhrase(state, phrase) \in DrainState(W)
  BY DrainPhraseType
<1> QED
  BY <1>1, <1>2, DrainPreserves

\* A list of phrases is found exactly where the text says one of them, and takes
\* out nothing otherwise.
LEMMA DrainFinds ==
  ASSUME NEW W, NEW text \in Seq(W), NEW phrases, Len(phrases) \in Nat,
         DOMAIN phrases = 1..Len(phrases)
  PROVE  /\ Drain(text, phrases).found = TRUE <=> Says(text, Range(phrases))
         /\ ~Says(text, Range(phrases)) => Drain(text, phrases).text = text
<1> DEFINE N == Len(phrases)
           SaysUpto(n) == \E k \in 1..n : FindAllOccurrences(text, phrases[k]) # {}
<1>1. PICK f : /\ f[0] = [text |-> text, found |-> FALSE]
               /\ \A n \in 0..(N - 1) : f[n + 1] = DrainPhrase(f[n], phrases[n + 1])
               /\ Drain(text, phrases) = f[N]
  BY DrainSteps
<1> DEFINE Found(n) == /\ f[n] \in DrainState(W)
                       /\ f[n].found = TRUE <=> SaysUpto(n)
                       /\ f[n].found # TRUE => f[n].text = text
           Right == {n \in Nat : n <= N => Found(n)}
<1>2. 0 \in Right
  <2>1. f[0] \in DrainState(W) /\ f[0].found # TRUE /\ f[0].text = text
    BY <1>1 DEF DrainState
  <2>2. ~SaysUpto(0)
    OBVIOUS
  <2> HIDE DEF SaysUpto
  <2>3. Found(0)
    BY <2>1, <2>2
  <2> HIDE DEF Found
  <2> QED
    BY <2>3
<1>3. ASSUME NEW n \in Nat, n \in Right
      PROVE  n + 1 \in Right
  <2> HIDE DEF Found
  <2> SUFFICES ASSUME n + 1 <= N
               PROVE  Found(n + 1)
    OBVIOUS
  <2>1. n \in 0..(N - 1) /\ f[n + 1] = DrainPhrase(f[n], phrases[n + 1]) /\ Found(n)
    BY <1>1, <1>3
  <2> USE DEF Found
  <2>2. SaysUpto(n + 1) <=> SaysUpto(n) \/ FindAllOccurrences(text, phrases[n + 1]) # {}
    <3>1. 1..(n + 1) = (1..n) \cup {n + 1}
      OBVIOUS
    <3> QED
      BY <3>1
  <2>3. CASE FindAllOccurrences(f[n].text, phrases[n + 1]) = {}
    <3>1. f[n + 1] = f[n]
      BY <2>1, <2>3, UndrainedPhrase
    <3> HIDE DEF SaysUpto
    <3> QED
      BY <2>1, <2>2, <2>3, <3>1
  <2>4. CASE FindAllOccurrences(f[n].text, phrases[n + 1]) # {}
    <3>1. f[n + 1] \in DrainState(W) /\ f[n + 1].found = TRUE
      BY <2>1, <2>4, DrainedPhrase
    <3> HIDE DEF SaysUpto
    <3> QED
      BY <2>1, <2>2, <2>4, <3>1
  <2> QED
    BY <2>3, <2>4
<1>4. Nat \subseteq Right
  <2> HIDE DEF Right
  <2> QED
    BY <1>2, <1>3, Induction
<1>5. Found(N)
  <2> HIDE DEF Found
  <2> QED
    BY <1>4
<1>6. SaysUpto(N) <=> Says(text, Range(phrases))
  BY DEF Says, Range
<1> QED
  BY <1>1, <1>5, <1>6

\* What a list of phrases cannot take out.
LEMMA DrainKeepsWord ==
  ASSUME NEW W, NEW text \in Seq(W), NEW phrases, Len(phrases) \in Nat, NEW V, NEW w \in V,
         \A n \in 1..Len(phrases) :
           phrases[n] \in Seq(V) /\ \A k \in 1..Len(phrases[n]) : phrases[n][k] # w,
         FindAllOccurrences(text, <<w>>) # {}
  PROVE  FindAllOccurrences(Drain(text, phrases).text, <<w>>) # {}
<1> DEFINE P == {state \in DrainState(W) : FindAllOccurrences(state.text, <<w>>) # {}}
<1>1. [text |-> text, found |-> FALSE] \in P
  BY DEF DrainState
<1>2. ASSUME NEW n \in 1..Len(phrases), NEW state \in P
      PROVE  DrainPhrase(state, phrases[n]) \in P
  BY DrainPhraseType, WordStays
<1> HIDE DEF P
<1>3. Drain(text, phrases) \in P
  BY <1>1, <1>2, DrainPreserves
<1> QED
  BY <1>3 DEF P

\* The words a and b are neither of them at the border of the phrase.
Apart(phrase, a, b) ==
  \A k \in 1..Len(phrase) : /\ phrase[k] = a => k < Len(phrase) /\ phrase[k + 1] # b
                            /\ phrase[k] = b => k > 1 /\ phrase[k - 1] # a

LEMMA DrainKeepsPair ==
  ASSUME NEW W, NEW text \in Seq(W), NEW phrases, Len(phrases) \in Nat, NEW V,
         NEW a \in V, NEW b \in V,
         \A n \in 1..Len(phrases) : phrases[n] \in Seq(V) /\ Apart(phrases[n], a, b),
         FindAllOccurrences(text, <<a, b>>) # {}
  PROVE  FindAllOccurrences(Drain(text, phrases).text, <<a, b>>) # {}
<1> DEFINE P == {state \in DrainState(W) : FindAllOccurrences(state.text, <<a, b>>) # {}}
<1>1. [text |-> text, found |-> FALSE] \in P
  BY DEF DrainState
<1>2. ASSUME NEW n \in 1..Len(phrases), NEW state \in P
      PROVE  DrainPhrase(state, phrases[n]) \in P
  BY DrainPhraseType, PairStays DEF Apart
<1> HIDE DEF P
<1>3. Drain(text, phrases) \in P
  BY <1>1, <1>2, DrainPreserves
<1> QED
  BY <1>3 DEF P

-----------------------------------------------------------------------------
(* The lists of phrases *)

\* The one-word advice, and the words it is kept apart from.
AdviceWord ==
  {"should", "normally", "ordinarily", "typically", "usually", "generally", "encouraged",
   "encourages", "recommended", "recommends", "suggested", "preferably"}
RestrictiveWord == {"may", "only", "shall", "must", "will", "be", "if", "where", "considered"}
NegativeWord == {"must", "not", "never", "shall", "may", "is", "are", "prohibited", "permitted"}
PositiveWord == {"must", "shall", "is", "are", "required", "to", "obligated"}

LEMMA RestrictivePhrases ==
  /\ Len(Restrictive) \in Nat /\ DOMAIN Restrictive = 1..Len(Restrictive)
  /\ \A n \in 1..Len(Restrictive) : Restrictive[n] \in Seq(RestrictiveWord)
<1>1. Len(Restrictive) = 7 /\ DOMAIN Restrictive = 1..7
  BY DEF Restrictive
<1>2. \A n \in 1..7 : n \in {1, 2, 3, 4, 5, 6, 7}
  OBVIOUS
<1>3. \A n \in {1, 2, 3, 4, 5, 6, 7} : Restrictive[n] \in Seq(RestrictiveWord)
  <2>1. /\ Restrictive[1] = <<"may", "only">>
        /\ Restrictive[2] = <<"shall", "only">>
        /\ Restrictive[3] = <<"must", "only">>
        /\ Restrictive[4] = <<"will", "only", "be">>
        /\ Restrictive[5] = <<"only", "if">>
        /\ Restrictive[6] = <<"only", "where">>
        /\ Restrictive[7] = <<"only", "be", "considered", "if">>
    BY DEF Restrictive
  <2>2. /\ <<"may", "only">> \in Seq(RestrictiveWord)
        /\ <<"shall", "only">> \in Seq(RestrictiveWord)
        /\ <<"must", "only">> \in Seq(RestrictiveWord)
        /\ <<"will", "only", "be">> \in Seq(RestrictiveWord)
        /\ <<"only", "if">> \in Seq(RestrictiveWord)
        /\ <<"only", "where">> \in Seq(RestrictiveWord)
        /\ <<"only", "be", "considered", "if">> \in Seq(RestrictiveWord)
    BY DEF RestrictiveWord
  <2> QED
    BY <2>1, <2>2
<1> QED
  BY <1>1, <1>2, <1>3

LEMMA NegativePhrases ==
  /\ Len(BindingNegative) \in Nat /\ DOMAIN BindingNegative = 1..Len(BindingNegative)
  /\ \A n \in 1..Len(BindingNegative) : BindingNegative[n] \in Seq(NegativeWord)
<1>1. Len(BindingNegative) = 9 /\ DOMAIN BindingNegative = 1..9
  BY DEF BindingNegative
<1>2. \A n \in 1..9 : n \in {1, 2, 3, 4, 5, 6, 7, 8, 9}
  OBVIOUS
<1>3. \A n \in {1, 2, 3, 4, 5, 6, 7, 8, 9} : BindingNegative[n] \in Seq(NegativeWord)
  <2>1. /\ BindingNegative[1] = <<"must", "not">>
        /\ BindingNegative[2] = <<"must", "never">>
        /\ BindingNegative[3] = <<"shall", "not">>
        /\ BindingNegative[4] = <<"shall", "never">>
        /\ BindingNegative[5] = <<"may", "not">>
        /\ BindingNegative[6] = <<"is", "prohibited">>
        /\ BindingNegative[7] = <<"are", "prohibited">>
        /\ BindingNegative[8] = <<"is", "not", "permitted">>
        /\ BindingNegative[9] = <<"are", "not", "permitted">>
    BY DEF BindingNegative
  <2>2. /\ <<"must", "not">> \in Seq(NegativeWord)
        /\ <<"must", "never">> \in Seq(NegativeWord)
        /\ <<"shall", "not">> \in Seq(NegativeWord)
        /\ <<"shall", "never">> \in Seq(NegativeWord)
        /\ <<"may", "not">> \in Seq(NegativeWord)
        /\ <<"is", "prohibited">> \in Seq(NegativeWord)
        /\ <<"are", "prohibited">> \in Seq(NegativeWord)
        /\ <<"is", "not", "permitted">> \in Seq(NegativeWord)
        /\ <<"are", "not", "permitted">> \in Seq(NegativeWord)
    BY DEF NegativeWord
  <2> QED
    BY <2>1, <2>2
<1> QED
  BY <1>1, <1>2, <1>3

LEMMA PositivePhrases ==
  /\ Len(BindingPositive) \in Nat /\ DOMAIN BindingPositive = 1..Len(BindingPositive)
  /\ \A n \in 1..Len(BindingPositive) : BindingPositive[n] \in Seq(PositiveWord)
<1>1. Len(BindingPositive) = 9 /\ DOMAIN BindingPositive = 1..9
  BY DEF BindingPositive
<1>2. \A n \in 1..9 : n \in {1, 2, 3, 4, 5, 6, 7, 8, 9}
  OBVIOUS
<1>3. \A n \in {1, 2, 3, 4, 5, 6, 7, 8, 9} : BindingPositive[n] \in Seq(PositiveWord)
  <2>1. /\ BindingPositive[1] = <<"must">>
        /\ BindingPositive[2] = <<"shall">>
        /\ BindingPositive[3] = <<"is", "required", "to">>
        /\ BindingPositive[4] = <<"are", "required", "to">>
        /\ BindingPositive[5] = <<"is", "required">>
        /\ BindingPositive[6] = <<"are", "required">>
        /\ BindingPositive[7] = <<"required", "to">>
        /\ BindingPositive[8] = <<"is", "obligated", "to">>
        /\ BindingPositive[9] = <<"are", "obligated", "to">>
    BY DEF BindingPositive
  <2>2. /\ <<"must">> \in Seq(PositiveWord)
        /\ <<"shall">> \in Seq(PositiveWord)
        /\ <<"is", "required", "to">> \in Seq(PositiveWord)
        /\ <<"are", "required", "to">> \in Seq(PositiveWord)
        /\ <<"is", "required">> \in Seq(PositiveWord)
        /\ <<"are", "required">> \in Seq(PositiveWord)
        /\ <<"required", "to">> \in Seq(PositiveWord)
        /\ <<"is", "obligated", "to">> \in Seq(PositiveWord)
        /\ <<"are", "obligated", "to">> \in Seq(PositiveWord)
    BY DEF PositiveWord
  <2> QED
    BY <2>1, <2>2
<1> QED
  BY <1>1, <1>2, <1>3

LEMMA AdvicePhrases ==
  /\ Len(AdvisoryNegative) \in Nat /\ DOMAIN AdvisoryNegative = 1..Len(AdvisoryNegative)
  /\ Range(AdvisoryNegative) = {<<"should", "not">>, <<"is", "discouraged">>, <<"are", "discouraged">>}
BY DEF AdvisoryNegative, Range

LEMMA AdvisoryPhrases ==
  /\ Len(Advisory) \in Nat /\ DOMAIN Advisory = 1..Len(Advisory)
  /\ \A phrase \in Range(Advisory) :
       Len(phrase) = 1 /\ phrase # <<"may">> => \E w \in AdviceWord : phrase = <<w>>
BY DEF Advisory, Range, AdviceWord

LEMMA RestrictiveApart ==
  ASSUME NEW n \in 1..Len(Restrictive)
  PROVE  /\ Apart(Restrictive[n], "should", "not")
         /\ Apart(Restrictive[n], "is", "discouraged")
         /\ Apart(Restrictive[n], "are", "discouraged")
<1>1. \A k \in 1..Len(Restrictive[n]) : Restrictive[n][k] \in RestrictiveWord
  BY RestrictivePhrases
<1>2. RestrictiveWord \cap {"should", "not", "is", "are", "discouraged"} = {}
  BY DEF RestrictiveWord
<1> QED
  BY <1>1, <1>2 DEF Apart

LEMMA ApartFromTwo ==
  ASSUME NEW x, NEW y, NEW a, NEW b, x # b, y # a, x # a \/ y # b
  PROVE  Apart(<<x, y>>, a, b)
<1> DEFINE phrase == <<x, y>>
<1>1. Len(phrase) = 2 /\ phrase[1] = x /\ phrase[2] = y /\ \A k \in 1..2 : k = 1 \/ k = 2
  OBVIOUS
<1> HIDE DEF phrase
<1>2. Apart(phrase, a, b)
  BY <1>1 DEF Apart
<1> QED
  BY <1>2 DEF phrase

LEMMA ApartFromThree ==
  ASSUME NEW x, NEW y, NEW z, NEW a, NEW b, x # b, z # a, x # a \/ y # b, y # a \/ z # b
  PROVE  Apart(<<x, y, z>>, a, b)
<1> DEFINE phrase == <<x, y, z>>
<1>1. /\ Len(phrase) = 3 /\ phrase[1] = x /\ phrase[2] = y /\ phrase[3] = z
      /\ \A k \in 1..3 : k = 1 \/ k = 2 \/ k = 3
  OBVIOUS
<1> HIDE DEF phrase
<1>2. Apart(phrase, a, b)
  BY <1>1 DEF Apart
<1> QED
  BY <1>2 DEF phrase

\* "is" and "are" go on with a word other than "discouraged", and "not" follows
\* a word other than "should".
LEMMA NegativesApart ==
  ASSUME NEW n \in 1..Len(BindingNegative)
  PROVE  /\ Apart(BindingNegative[n], "should", "not")
         /\ Apart(BindingNegative[n], "is", "discouraged")
         /\ Apart(BindingNegative[n], "are", "discouraged")
<1>1. \/ \E x, y : /\ BindingNegative[n] = <<x, y>>
                   /\ x # "should" /\ x # "discouraged" /\ x # "not"
                   /\ y # "should" /\ y # "discouraged" /\ y # "is" /\ y # "are"
      \/ \E x, z : /\ BindingNegative[n] = <<x, "not", z>>
                   /\ x # "should" /\ x # "discouraged" /\ x # "not"
                   /\ z = "permitted"
  BY DEF BindingNegative
<1> QED
  BY <1>1, ApartFromTwo, ApartFromThree

\* The words no permission may go on with: "not", and those that begin a phrase
\* that binds.
LEMMA Openers ==
  ASSUME NEW w, w \notin {"not"} \cup {phrase[1] : phrase \in BindingWords}
  PROVE  w \notin {"may", "not", "only", "shall", "must", "will", "is", "are", "required"}
<1>1. /\ Restrictive[1] = <<"may", "only">> /\ Restrictive[2] = <<"shall", "only">>
      /\ Restrictive[3] = <<"must", "only">> /\ Restrictive[4] = <<"will", "only", "be">>
      /\ Restrictive[5] = <<"only", "if">>
      /\ BindingNegative[6] = <<"is", "prohibited">> /\ BindingNegative[7] = <<"are", "prohibited">>
      /\ BindingPositive[7] = <<"required", "to">>
  BY DEF Restrictive, BindingNegative, BindingPositive
<1>2. {1, 2, 3, 4, 5} \subseteq DOMAIN Restrictive /\ {6, 7} \subseteq DOMAIN BindingNegative
      /\ 7 \in DOMAIN BindingPositive
  BY DEF Restrictive, BindingNegative, BindingPositive
<1>3. \A phrase \in {<<"may", "only">>, <<"shall", "only">>, <<"must", "only">>, <<"will", "only", "be">>,
                     <<"only", "if">>, <<"is", "prohibited">>, <<"are", "prohibited">>, <<"required", "to">>} :
        phrase \in BindingWords
  BY <1>1, <1>2 DEF BindingWords, Range
<1>4. \A phrase \in BindingWords : w # phrase[1]
  OBVIOUS
<1> QED
  BY <1>3, <1>4

LEMMA ApartWithout ==
  ASSUME NEW V, NEW phrase \in Seq(V), NEW a, NEW b,
         \A k \in 1..Len(phrase) : phrase[k] # a,
         Len(phrase) > 0 => phrase[1] # b
  PROVE  Apart(phrase, a, b)
<1> SUFFICES ASSUME NEW k \in 1..Len(phrase), phrase[k] = b
             PROVE  k > 1 /\ phrase[k - 1] # a
  BY DEF Apart
<1>1. Len(phrase) \in Nat
  OBVIOUS
<1>2. k > 1 /\ k - 1 \in 1..Len(phrase)
  BY <1>1
<1> QED
  BY <1>2

\* "may" stands in phrases that go on with "only" or "not" and in no other.
LEMMA PermissionsApart ==
  ASSUME NEW w, w \notin {"not"} \cup {phrase[1] : phrase \in BindingWords}
  PROVE  /\ \A n \in 1..Len(Restrictive) : Apart(Restrictive[n], "may", w)
         /\ \A n \in 1..Len(BindingNegative) : Apart(BindingNegative[n], "may", w)
         /\ \A n \in 1..Len(BindingPositive) : Apart(BindingPositive[n], "may", w)
<1>1. w \notin {"may", "not", "only", "shall", "must", "will", "is", "are", "required"}
  BY Openers
<1>2. ASSUME NEW n \in 1..Len(Restrictive)
      PROVE  Apart(Restrictive[n], "may", w)
  <2>1. \/ \E x, y : /\ Restrictive[n] = <<x, y>> /\ x \in {"may", "shall", "must", "only"}
                     /\ y \in {"only", "if", "where"} /\ (x = "may" => y = "only")
        \/ Restrictive[n] = <<"will", "only", "be">>
        \/ Restrictive[n] = <<"only", "be", "considered", "if">>
    BY DEF Restrictive
  <2>2. Apart(<<"only", "be", "considered", "if">>, "may", w)
    <3> DEFINE phrase == <<"only", "be", "considered", "if">>
    <3>1. /\ phrase \in Seq({"only", "be", "considered", "if"}) /\ Len(phrase) = 4
          /\ \A k \in 1..4 : phrase[k] \in {"only", "be", "considered", "if"}
          /\ phrase[1] = "only"
      OBVIOUS
    <3> HIDE DEF phrase
    <3>2. Apart(phrase, "may", w)
      BY <1>1, <3>1, ApartWithout
    <3> QED
      BY <3>2 DEF phrase
  <2>3. ASSUME NEW x, NEW y, Restrictive[n] = <<x, y>>, x \in {"may", "shall", "must", "only"},
               y \in {"only", "if", "where"}, x = "may" => y = "only"
        PROVE  Apart(Restrictive[n], "may", w)
    <3>1. x # w /\ y # "may" /\ (x # "may" \/ y # w)
      BY <1>1, <2>3
    <3> QED
      BY <2>3, <3>1, ApartFromTwo
  <2>4. CASE Restrictive[n] = <<"will", "only", "be">>
    <3>1. "will" # w /\ "be" # "may" /\ "will" # "may" /\ "only" # "may"
      BY <1>1
    <3> QED
      BY <2>4, <3>1, ApartFromThree
  <2> QED
    BY <2>1, <2>2, <2>3, <2>4
<1>3. ASSUME NEW n \in 1..Len(BindingNegative)
      PROVE  Apart(BindingNegative[n], "may", w)
  <2>1. \/ \E x, y : /\ BindingNegative[n] = <<x, y>> /\ x \in {"may", "shall", "must", "is", "are"}
                     /\ y \in {"not", "never", "prohibited"} /\ (x = "may" => y = "not")
        \/ \E x : /\ BindingNegative[n] = <<x, "not", "permitted">> /\ x \in {"is", "are"}
    BY DEF BindingNegative
  <2>2. ASSUME NEW x, NEW y, BindingNegative[n] = <<x, y>>, x \in {"may", "shall", "must", "is", "are"},
               y \in {"not", "never", "prohibited"}, x = "may" => y = "not"
        PROVE  Apart(BindingNegative[n], "may", w)
    <3>1. x # w /\ y # "may" /\ (x # "may" \/ y # w)
      BY <1>1, <2>2
    <3> QED
      BY <2>2, <3>1, ApartFromTwo
  <2>3. ASSUME NEW x, BindingNegative[n] = <<x, "not", "permitted">>, x \in {"is", "are"}
        PROVE  Apart(BindingNegative[n], "may", w)
    <3>1. x # w /\ "permitted" # "may" /\ x # "may" /\ "not" # "may"
      BY <1>1, <2>3
    <3> QED
      BY <2>3, <3>1, ApartFromThree
  <2> QED
    BY <2>1, <2>2, <2>3
<1>4. ASSUME NEW n \in 1..Len(BindingPositive)
      PROVE  Apart(BindingPositive[n], "may", w)
  <2>1. \/ \E x : BindingPositive[n] = <<x>> /\ x \in {"must", "shall"}
        \/ \E x, y : /\ BindingPositive[n] = <<x, y>> /\ x \in {"is", "are", "required"}
                     /\ y \in {"required", "to"}
        \/ \E x, y : /\ BindingPositive[n] = <<x, y, "to">> /\ x \in {"is", "are"}
                     /\ y \in {"required", "obligated"}
    BY DEF BindingPositive
  <2>2. ASSUME NEW x \in {"must", "shall"}
        PROVE  Apart(<<x>>, "may", w)
    <3>1. Len(<<x>>) = 1 /\ <<x>>[1] = x /\ \A k \in 1..1 : k = 1
      OBVIOUS
    <3> QED
      BY <1>1, <3>1 DEF Apart
  <2>3. ASSUME NEW x, NEW y, BindingPositive[n] = <<x, y>>, x \in {"is", "are", "required"},
               y \in {"required", "to"}
        PROVE  Apart(BindingPositive[n], "may", w)
    <3>1. x # w /\ y # "may" /\ x # "may"
      BY <1>1, <2>3
    <3> QED
      BY <2>3, <3>1, ApartFromTwo
  <2>4. ASSUME NEW x, NEW y, BindingPositive[n] = <<x, y, "to">>, x \in {"is", "are"},
               y \in {"required", "obligated"}
        PROVE  Apart(BindingPositive[n], "may", w)
    <3>1. x # w /\ "to" # "may" /\ x # "may" /\ y # "may"
      BY <1>1, <2>4
    <3> QED
      BY <2>4, <3>1, ApartFromThree
  <2> QED
    BY <2>1, <2>2, <2>3, <2>4
<1> QED
  BY <1>2, <1>3, <1>4

-----------------------------------------------------------------------------
(* What the words of a sentence must be for the phrases found in it *)

\* The text that draining a list of phrases leaves.
Rest(text, phrases) == Drain(text, phrases).text

LEMMA Rests ==
  ASSUME NEW W, NEW text \in Seq(W), NEW phrases, Len(phrases) \in Nat
  PROVE  Rest(text, phrases) \in Seq(W) /\ Drain(text, phrases).found \in BOOLEAN
<1>1. Drain(text, phrases) \in DrainState(W)
  BY DrainType
<1> QED
  BY <1>1 DEF Rest, DrainState

\* The words of the phrases.
ModalWord == RestrictiveWord \cup NegativeWord \cup PositiveWord \cup AdviceWord \cup {"discouraged"}

LEMMA KnownWords ==
  /\ \A n \in 1..Len(Restrictive) : Restrictive[n] \in Seq(ModalWord)
  /\ \A n \in 1..Len(BindingNegative) : BindingNegative[n] \in Seq(ModalWord)
  /\ \A n \in 1..Len(BindingPositive) : BindingPositive[n] \in Seq(ModalWord)
<1>1. RestrictiveWord \subseteq ModalWord /\ NegativeWord \subseteq ModalWord /\ PositiveWord \subseteq ModalWord
  BY DEF ModalWord
<1>2. \A S : S \subseteq ModalWord => \A phrase \in Seq(S) : phrase \in Seq(ModalWord)
  BY SeqMonotonic
<1> QED
  BY <1>1, <1>2, RestrictivePhrases, NegativePhrases, PositivePhrases

\* Advice in one word is found: no list that is drained before takes it out.
LEMMA WordOfAdviceIsFound ==
  ASSUME NEW W, NEW s \in Seq(W), NEW w \in AdviceWord, <<w>> \in Range(Advisory),
         FindAllOccurrences(s, <<w>>) # {}
  PROVE  LET negated     == Rest(Rest(s, Restrictive), BindingNegative)
             discouraged == Drain(negated, AdvisoryNegative)
         IN \/ discouraged.found = TRUE
            \/ Drain(Rest(discouraged.text, BindingPositive), Advisory).found = TRUE
<1> DEFINE restricted == Rest(s, Restrictive)
           negated == Rest(restricted, BindingNegative)
           discouraged == Drain(negated, AdvisoryNegative)
           affirmed == Rest(negated, BindingPositive)
<1>0. w \in ModalWord
  BY DEF ModalWord
<1>1. AdviceWord \cap (RestrictiveWord \cup NegativeWord \cup PositiveWord) = {}
  BY DEF AdviceWord, RestrictiveWord, NegativeWord, PositiveWord
<1>2. /\ \A n \in 1..Len(Restrictive) : \A k \in 1..Len(Restrictive[n]) : Restrictive[n][k] # w
      /\ \A n \in 1..Len(BindingNegative) :
           \A k \in 1..Len(BindingNegative[n]) : BindingNegative[n][k] # w
      /\ \A n \in 1..Len(BindingPositive) :
           \A k \in 1..Len(BindingPositive[n]) : BindingPositive[n][k] # w
  <2>1. \A S, phrase : phrase \in Seq(S) => \A k \in 1..Len(phrase) : phrase[k] \in S
    OBVIOUS
  <2> QED
    BY <1>1, <2>1, RestrictivePhrases, NegativePhrases, PositivePhrases
<1>3. restricted \in Seq(W) /\ FindAllOccurrences(restricted, <<w>>) # {}
  <2>1. restricted \in Seq(W)
    BY Rests, RestrictivePhrases
  <2>2. FindAllOccurrences(Drain(s, Restrictive).text, <<w>>) # {}
    BY <1>0, <1>2, RestrictivePhrases, KnownWords, DrainKeepsWord
  <2> QED
    BY <2>1, <2>2 DEF Rest
<1> HIDE DEF restricted
<1>4. negated \in Seq(W) /\ FindAllOccurrences(negated, <<w>>) # {}
  <2>1. negated \in Seq(W)
    BY <1>3, Rests, NegativePhrases
  <2>2. FindAllOccurrences(Drain(restricted, BindingNegative).text, <<w>>) # {}
    BY <1>0, <1>2, <1>3, NegativePhrases, KnownWords, DrainKeepsWord
  <2> QED
    BY <2>1, <2>2 DEF Rest
<1> HIDE DEF negated
<1>5. affirmed \in Seq(W) /\ FindAllOccurrences(affirmed, <<w>>) # {}
  <2>1. affirmed \in Seq(W)
    BY <1>4, Rests, PositivePhrases
  <2>2. FindAllOccurrences(Drain(negated, BindingPositive).text, <<w>>) # {}
    BY <1>0, <1>2, <1>4, PositivePhrases, KnownWords, DrainKeepsWord
  <2> QED
    BY <2>1, <2>2 DEF Rest
<1>6. discouraged.found = TRUE \/ discouraged.text = negated
  BY <1>4, DrainFinds, AdvicePhrases
<1>7. Drain(affirmed, Advisory).found = TRUE
  <2> HIDE DEF affirmed
  <2>1. Says(affirmed, Range(Advisory))
    BY <1>5 DEF Says
  <2> QED
    BY <1>5, <2>1, DrainFinds, AdvisoryPhrases
<1> QED
  BY <1>6, <1>7 DEF negated, restricted

\* So is advice against: its two words stay side by side.
LEMMA AdviceAgainstIsFound ==
  ASSUME NEW W, NEW s \in Seq(W), Says(s, Range(AdvisoryNegative))
  PROVE  Drain(Rest(Rest(s, Restrictive), BindingNegative), AdvisoryNegative).found = TRUE
<1> DEFINE restricted == Rest(s, Restrictive)
           negated == Rest(restricted, BindingNegative)
<1>1. PICK a \in ModalWord, b \in ModalWord :
         /\ <<a, b>> \in Range(AdvisoryNegative) /\ FindAllOccurrences(s, <<a, b>>) # {}
         /\ \A n \in 1..Len(Restrictive) : Apart(Restrictive[n], a, b)
         /\ \A n \in 1..Len(BindingNegative) : Apart(BindingNegative[n], a, b)
  BY AdvicePhrases, RestrictiveApart, NegativesApart DEF Says, ModalWord, NegativeWord, AdviceWord
<1>2. restricted \in Seq(W) /\ FindAllOccurrences(restricted, <<a, b>>) # {}
  <2>1. restricted \in Seq(W)
    BY Rests, RestrictivePhrases
  <2>2. FindAllOccurrences(Drain(s, Restrictive).text, <<a, b>>) # {}
    BY <1>1, RestrictivePhrases, KnownWords, DrainKeepsPair
  <2> QED
    BY <2>1, <2>2 DEF Rest
<1> HIDE DEF restricted
<1>3. negated \in Seq(W) /\ FindAllOccurrences(negated, <<a, b>>) # {}
  <2>1. negated \in Seq(W)
    BY <1>2, Rests, NegativePhrases
  <2>2. FindAllOccurrences(Drain(restricted, BindingNegative).text, <<a, b>>) # {}
    BY <1>1, <1>2, NegativePhrases, KnownWords, DrainKeepsPair
  <2> QED
    BY <2>1, <2>2 DEF Rest
<1> HIDE DEF negated
<1>4. Says(negated, Range(AdvisoryNegative))
  BY <1>1, <1>3 DEF Says
<1>5. Drain(negated, AdvisoryNegative).found = TRUE
  BY <1>3, <1>4, DrainFinds, AdvicePhrases
<1> QED
  BY <1>5 DEF negated, restricted

\* So is a permission.
LEMMA PermissionIsFound ==
  ASSUME NEW W, NEW s \in Seq(W), NEW w, FindAllOccurrences(s, <<"may", w>>) # {},
         w \notin {"not"} \cup {phrase[1] : phrase \in BindingWords}
  PROVE  LET negated     == Rest(Rest(s, Restrictive), BindingNegative)
             discouraged == Drain(negated, AdvisoryNegative)
         IN \/ discouraged.found = TRUE
            \/ Drain(Rest(discouraged.text, BindingPositive), Advisory).found = TRUE
<1> DEFINE V == ModalWord \cup {w}
           pair == <<"may", w>>
           restricted == Rest(s, Restrictive)
           negated == Rest(restricted, BindingNegative)
           discouraged == Drain(negated, AdvisoryNegative)
           affirmed == Rest(negated, BindingPositive)
<1>1. "may" \in V /\ w \in V
  BY DEF ModalWord, NegativeWord
<1>2. \A phrase \in Seq(ModalWord) : phrase \in Seq(V)
  BY SeqMonotonic
<1>3. /\ \A n \in 1..Len(Restrictive) : Restrictive[n] \in Seq(V) /\ Apart(Restrictive[n], "may", w)
      /\ \A n \in 1..Len(BindingNegative) :
           BindingNegative[n] \in Seq(V) /\ Apart(BindingNegative[n], "may", w)
      /\ \A n \in 1..Len(BindingPositive) :
           BindingPositive[n] \in Seq(V) /\ Apart(BindingPositive[n], "may", w)
  <2> HIDE DEF V
  <2> QED
    BY <1>2, KnownWords, PermissionsApart
<1> HIDE DEF V
<1>4. restricted \in Seq(W) /\ FindAllOccurrences(restricted, pair) # {}
  <2>1. restricted \in Seq(W)
    BY Rests, RestrictivePhrases
  <2>2. FindAllOccurrences(Drain(s, Restrictive).text, <<"may", w>>) # {}
    BY <1>1, <1>3, RestrictivePhrases, DrainKeepsPair
  <2> QED
    BY <2>1, <2>2 DEF Rest
<1> HIDE DEF restricted
<1>5. negated \in Seq(W) /\ FindAllOccurrences(negated, pair) # {}
  <2>1. negated \in Seq(W)
    BY <1>4, Rests, NegativePhrases
  <2>2. FindAllOccurrences(Drain(restricted, BindingNegative).text, <<"may", w>>) # {}
    BY <1>1, <1>3, <1>4, NegativePhrases, DrainKeepsPair
  <2> QED
    BY <2>1, <2>2 DEF Rest
<1> HIDE DEF negated
<1>6. affirmed \in Seq(W) /\ FindAllOccurrences(affirmed, pair) # {}
  <2>1. affirmed \in Seq(W)
    BY <1>5, Rests, PositivePhrases
  <2>2. FindAllOccurrences(Drain(negated, BindingPositive).text, <<"may", w>>) # {}
    BY <1>1, <1>3, <1>5, PositivePhrases, DrainKeepsPair
  <2> QED
    BY <2>1, <2>2 DEF Rest
<1>7. discouraged.found = TRUE \/ discouraged.text = negated
  BY <1>5, DrainFinds, AdvicePhrases
<1>8. Drain(affirmed, Advisory).found = TRUE
  <2> HIDE DEF affirmed
  <2>1. PICK j : OccursAt(affirmed, pair, j)
    <3>1. pair \in Seq(V)
      BY <1>1
    <3> HIDE DEF pair
    <3> QED
      BY <1>6, <3>1, Occurrences
  <2>2. OccursAt(affirmed, <<"may">>, j)
    <3>1. Len(pair) = 2 /\ pair[1] = "may" /\ Len(<<"may">>) = 1 /\ <<"may">>[1] = "may"
          /\ 1 \in 1..2 /\ \A k \in 1..1 : k = 1
      OBVIOUS
    <3> HIDE DEF pair
    <3>2. j + Len(pair) <= Len(affirmed) => j + Len(<<"may">>) <= Len(affirmed)
      BY <1>6, <2>1, <3>1 DEF OccursAt
    <3> QED
      BY <2>1, <3>1, <3>2 DEF OccursAt
  <2>3. FindAllOccurrences(affirmed, <<"may">>) # {}
    <3>1. <<"may">> \in Seq({"may"})
      OBVIOUS
    <3> QED
      BY <1>6, <2>2, <3>1, Occurrences
  <2>4. <<"may">> \in Range(Advisory)
    BY DEF Advisory, Range
  <2>5. Says(affirmed, Range(Advisory))
    BY <2>3, <2>4 DEF Says
  <2> QED
    BY <1>6, <2>5, DrainFinds, AdvisoryPhrases
<1> QED
  BY <1>7, <1>8 DEF negated, restricted

\* The kinds of phrase found, as ClassifySentence finds them.
Kinded(s, restrictive, negative, positive, advisory) ==
  /\ ClassifySentence(s) = Modality(restrictive, negative, positive, advisory)
  /\ Advises(s) => advisory
  /\ restrictive <=> Says(s, Range(Restrictive))
  /\ ~restrictive => (negative <=> Says(s, Range(BindingNegative)))
  /\ ~restrictive /\ ~negative =>
       \/ positive <=> Says(s, Range(BindingPositive))
       \/ advisory /\ positive /\ Fused(s)
       \/ advisory /\ ~positive

LEMMA Kinds ==
  ASSUME NEW W, NEW s \in Seq(W)
  PROVE  \E restrictive, negative, positive, advisory \in BOOLEAN :
           Kinded(s, restrictive, negative, positive, advisory)
<1> DEFINE restrictive == Drain(s, Restrictive)
           negative    == Drain(restrictive.text, BindingNegative)
           discouraged == Drain(negative.text, AdvisoryNegative)
           positive    == Drain(discouraged.text, BindingPositive)
           advisory    == Drain(positive.text, Advisory)
<1>1. /\ restrictive \in DrainState(W)
      /\ restrictive.found = TRUE <=> Says(s, Range(Restrictive))
      /\ restrictive.found # TRUE => restrictive.text = s
  BY RestrictivePhrases, DrainType, DrainFinds
<1>2. /\ negative \in DrainState(W)
      /\ negative.found = TRUE <=> Says(restrictive.text, Range(BindingNegative))
      /\ negative.found # TRUE => negative.text = restrictive.text
  <2>1. restrictive.text \in Seq(W)
    BY <1>1 DEF DrainState
  <2> HIDE DEF restrictive
  <2> QED
    BY <2>1, NegativePhrases, DrainType, DrainFinds
<1>3. /\ discouraged \in DrainState(W)
      /\ discouraged.found = TRUE <=> Says(negative.text, Range(AdvisoryNegative))
      /\ discouraged.found # TRUE => discouraged.text = negative.text
  <2>1. negative.text \in Seq(W)
    BY <1>2 DEF DrainState
  <2> HIDE DEF negative
  <2> QED
    BY <2>1, AdvicePhrases, DrainType, DrainFinds
<1>4. /\ positive \in DrainState(W)
      /\ positive.found = TRUE <=> Says(discouraged.text, Range(BindingPositive))
  <2>1. discouraged.text \in Seq(W)
    BY <1>3 DEF DrainState
  <2> HIDE DEF discouraged
  <2> QED
    BY <2>1, PositivePhrases, DrainType, DrainFinds
<1>5. advisory \in DrainState(W)
  <2>1. positive.text \in Seq(W)
    BY <1>4 DEF DrainState
  <2> HIDE DEF positive
  <2> QED
    BY <2>1, AdvisoryPhrases, DrainType
<1>6. Advises(s) => discouraged.found = TRUE \/ advisory.found = TRUE
  <2>1. ASSUME Says(s, Range(AdvisoryNegative))
        PROVE  discouraged.found = TRUE
    BY <2>1, AdviceAgainstIsFound DEF Rest
  <2>2. ASSUME NEW phrase \in Range(Advisory), Len(phrase) = 1, phrase # <<"may">>,
               FindAllOccurrences(s, phrase) # {}
        PROVE  discouraged.found = TRUE \/ advisory.found = TRUE
    <3>1. PICK w \in AdviceWord : phrase = <<w>>
      BY <2>2, AdvisoryPhrases
    <3>2. \/ discouraged.found = TRUE
          \/ Drain(Rest(discouraged.text, BindingPositive), Advisory).found = TRUE
      BY <2>2, <3>1, WordOfAdviceIsFound DEF Rest
    <3> QED
      BY <3>2 DEF Rest
  <2>3. ASSUME NEW phrase \in Permissions(s), FindAllOccurrences(s, phrase) # {}
        PROVE  discouraged.found = TRUE \/ advisory.found = TRUE
    <3>1. PICK w : /\ phrase = <<"may", w>>
                   /\ w \notin {"not"} \cup {binding[1] : binding \in BindingWords}
      BY <2>3 DEF Permissions
    <3>2. \/ discouraged.found = TRUE
          \/ Drain(Rest(discouraged.text, BindingPositive), Advisory).found = TRUE
      BY <2>3, <3>1, PermissionIsFound DEF Rest
    <3> QED
      BY <3>2 DEF Rest
  <2> HIDE DEF discouraged, advisory
  <2> QED
    BY <2>1, <2>2, <2>3 DEF Says, AdvisoryWords, Advises
<1>7. ASSUME restrictive.found # TRUE, negative.found # TRUE
      PROVE  \/ positive.found = TRUE <=> Says(s, Range(BindingPositive))
             \/ discouraged.found = TRUE /\ positive.found = TRUE /\ Fused(s)
             \/ discouraged.found = TRUE /\ positive.found # TRUE
  <2>1. negative.text = s
    BY <1>1, <1>2, <1>7
  <2>2. CASE discouraged.found # TRUE
    BY <1>3, <1>4, <2>1, <2>2
  <2>3. CASE discouraged.found = TRUE /\ positive.found = TRUE
    <3>1. PICK phrase \in Range(BindingPositive) :
            FindAllOccurrences(discouraged.text, phrase) # {}
      <4> HIDE DEF discouraged, positive
      <4> QED
        BY <1>4, <2>3 DEF Says
    <3>2. s \in Seq(Range(s)) /\ discouraged.text \in Seq(Range(s))
      <4>1. s \in Seq(Range(s))
        BY DEF Range
      <4>2. discouraged \in DrainState(Range(s))
        BY <2>1, <4>1, AdvicePhrases, DrainType
      <4> HIDE DEF discouraged
      <4> QED
        BY <4>1, <4>2 DEF DrainState
    <3>3. phrase \in Seq(PositiveWord)
      BY <3>1, PositivePhrases DEF Range
    <3>4. Range(phrase) \subseteq Range(s)
      <4> DEFINE text == discouraged.text
      <4>1. text \in Seq(Range(s)) /\ FindAllOccurrences(text, phrase) # {}
        BY <3>1, <3>2
      <4> HIDE DEF text
      <4>2. PICK j : OccursAt(text, phrase, j)
        BY <3>3, <4>1, Occurrences
      <4>3. \A k \in 1..Len(phrase) : phrase[k] \in Range(s)
        BY <3>3, <4>1, <4>2 DEF OccursAt
      <4>4. DOMAIN phrase = 1..Len(phrase)
        BY <3>3
      <4> QED
        BY <4>3, <4>4 DEF Range
    <3>5. Says(s, Range(AdvisoryNegative))
      BY <1>3, <2>1, <2>3
    <3> QED
      BY <2>3, <3>1, <3>4, <3>5 DEF Fused
  <2> HIDE DEF discouraged, positive
  <2> QED
    BY <2>2, <2>3
<1>8. ClassifySentence(s) = Modality(restrictive.found, negative.found, positive.found,
                                     discouraged.found \/ advisory.found)
  BY DEF ClassifySentence
<1>9. /\ restrictive.found \in BOOLEAN /\ negative.found \in BOOLEAN
      /\ discouraged.found \in BOOLEAN /\ positive.found \in BOOLEAN /\ advisory.found \in BOOLEAN
  <2> HIDE DEF restrictive, negative, discouraged, positive, advisory
  <2> QED
    BY <1>1, <1>2, <1>3, <1>4, <1>5 DEF DrainState
<1>10. restrictive.found # TRUE => restrictive.text = s
  BY <1>1
<1> HIDE DEF advisory
<1> HIDE DEF positive
<1> HIDE DEF discouraged
<1> HIDE DEF negative
<1> HIDE DEF restrictive
<1>11. Kinded(s, restrictive.found, negative.found, positive.found,
              discouraged.found \/ advisory.found)
  BY <1>1, <1>2, <1>6, <1>7, <1>8, <1>9, <1>10 DEF Kinded
<1>12. (discouraged.found \/ advisory.found) \in BOOLEAN
  BY <1>9
<1> QED
  BY <1>9, <1>11, <1>12

\* A sentence whose modality supports a force binds in the sense of the force.
LEMMA SupportedBinds ==
  ASSUME NEW W, NEW s \in Seq(W), NEW force, SupportsForce(force, ClassifySentence(s))
  PROVE  Binds(s, force)
<1>1. PICK restrictive, negative, positive, advisory \in BOOLEAN :
        Kinded(s, restrictive, negative, positive, advisory)
  BY Kinds
<1>2. \/ ClassifySentence(s) = "BINDING_RESTRICTIVE"
      \/ force \in {"MUST_NOT", "SHALL_NOT"} /\ ClassifySentence(s) = "BINDING_NEGATIVE"
      \/ force \notin {"MUST_NOT", "SHALL_NOT"} /\ ClassifySentence(s) = "BINDING_POSITIVE"
  BY DEF SupportsForce
<1>3. ~advisory
  BY <1>1, <1>2 DEF Kinded, Modality
<1>4. CASE ClassifySentence(s) = "BINDING_RESTRICTIVE"
  BY <1>1, <1>3, <1>4 DEF Kinded, Modality, Binds
<1>5. CASE force \in {"MUST_NOT", "SHALL_NOT"} /\ ClassifySentence(s) = "BINDING_NEGATIVE"
  BY <1>1, <1>3, <1>5 DEF Kinded, Modality, Binds
<1>6. CASE force \notin {"MUST_NOT", "SHALL_NOT"} /\ ClassifySentence(s) = "BINDING_POSITIVE"
  BY <1>1, <1>3, <1>6 DEF Kinded, Modality, Binds
<1> QED
  BY <1>2, <1>4, <1>5, <1>6

\* A sentence in which advice stands is advisory at best, and one that is more
\* than advisory says what binds, but for the words that drain fuses.
LEMMA AdviceIsSeen ==
  ASSUME NEW W, NEW s \in Seq(W), Advises(s)
  PROVE  \/ ClassifySentence(s) = "ADVISORY"
         \/ Says(s, BindingWords) \/ Fused(s)
<1>1. PICK restrictive, negative, positive, advisory \in BOOLEAN :
        Kinded(s, restrictive, negative, positive, advisory)
  BY Kinds
<1>2. /\ Says(s, Range(Restrictive)) => Says(s, BindingWords)
      /\ Says(s, Range(BindingNegative)) => Says(s, BindingWords)
      /\ Says(s, Range(BindingPositive)) => Says(s, BindingWords)
  BY DEF Says, BindingWords
<1> QED
  BY <1>1, <1>2 DEF Kinded, Modality

LEMMA BindingIsSaid ==
  ASSUME NEW W, NEW s \in Seq(W), ClassifySentence(s) \in BindingModality
  PROVE  Says(s, BindingWords)
<1>1. \E force : SupportsForce(force, ClassifySentence(s))
  <2>1. SupportsForce("MUST", "BINDING_POSITIVE") /\ SupportsForce("MUST_NOT", "BINDING_NEGATIVE")
        /\ SupportsForce("MUST", "BINDING_RESTRICTIVE")
    BY DEF SupportsForce
  <2> QED
    BY <2>1 DEF BindingModality
<1>2. \E force : Binds(s, force)
  BY <1>1, SupportedBinds
<1> QED
  BY <1>2 DEF Binds, Says, BindingWords

-----------------------------------------------------------------------------
(* A text and its sentences *)

LEMMA LeastNumber ==
  ASSUME NEW S \in SUBSET Nat, S # {}
  PROVE  \E m \in S : \A n \in S : m <= n
<1> SUFFICES ASSUME \A m \in S : \E n \in S : n < m
             PROVE  FALSE
  OBVIOUS
<1> DEFINE Above == {n \in Nat : \A k \in 0..n : k \notin S}
<1>1. 0 \in Above
  OBVIOUS
<1>2. ASSUME NEW n \in Nat, n \in Above
      PROVE  n + 1 \in Above
  <2>1. n + 1 \notin S
    BY <1>2
  <2> QED
    BY <1>2, <2>1
<1>3. Nat \subseteq Above
  <2> HIDE DEF Above
  <2> QED
    BY <1>1, <1>2, Induction
<1>4. \A k \in Nat : k \notin S
  BY <1>3
<1> QED
  BY <1>4

LEMMA GreatestNumber ==
  ASSUME NEW S \in SUBSET Nat, S # {}, NEW bound \in Nat, \A n \in S : n <= bound
  PROVE  \E m \in S : \A n \in S : n <= m
<1> DEFINE D == {bound - n : n \in S}
<1>1. D \in SUBSET Nat /\ D # {}
  <2>1. ASSUME NEW n \in S
        PROVE  bound - n \in Nat
    <3>1. n \in Nat /\ n <= bound
      OBVIOUS
    <3> QED
      BY <3>1
  <2>2. PICK n : n \in S
    BY ONLY S # {}
  <2>3. bound - n \in D
    BY <2>2
  <2> QED
    BY <2>1, <2>3
<1>2. PICK d \in D : \A e \in D : d <= e
  <2> HIDE DEF D
  <2> QED
    BY <1>1, LeastNumber
<1>3. PICK m \in S : d = bound - m
  OBVIOUS
<1>4. \A n \in S : bound - m <= bound - n
  BY <1>2, <1>3
<1> QED
  BY <1>4

\* A sentence starts at the start of the text or after a terminator, and ends
\* with the next one or with the text.
SentenceAt(text, a, b) ==
  /\ a \in Nat /\ b \in Nat /\ a < b /\ b <= Len(text)
  /\ a # 0 => text[a] \in Terminators
  /\ b # Len(text) => text[b] \in Terminators
  /\ \A i \in (a + 1)..(b - 1) : text[i] \notin Terminators

LEMMA SentenceCuts ==
  ASSUME NEW W, NEW text \in Seq(W)
  PROVE  /\ \A sentence \in Sentences(text) :
              \E a, b \in Nat : SentenceAt(text, a, b) /\ sentence = Slice(text, a, b)
         /\ \A a, b \in Nat : SentenceAt(text, a, b) => Slice(text, a, b) \in Sentences(text)
<1> DEFINE ends == {i \in DOMAIN text : text[i] \in Terminators}
           cuts == {cut \in ({0} \cup ends) \X (ends \cup {Len(text)}) :
                      cut[1] < cut[2] /\ ends \cap (cut[1] + 1) .. (cut[2] - 1) = {}}
<1>1. Len(text) \in Nat /\ DOMAIN text = 1..Len(text)
  OBVIOUS
<1>2. Sentences(text) = {Slice(text, cut[1], cut[2]) : cut \in cuts}
  BY DEF Sentences
<1>3. ASSUME NEW cut \in cuts
      PROVE  cut[1] \in Nat /\ cut[2] \in Nat /\ SentenceAt(text, cut[1], cut[2])
  <2>1. /\ cut[1] \in {0} \cup ends /\ cut[2] \in ends \cup {Len(text)}
        /\ cut[1] < cut[2] /\ ends \cap (cut[1] + 1) .. (cut[2] - 1) = {}
    OBVIOUS
  <2>2. /\ cut[1] \in Nat /\ cut[2] \in Nat /\ cut[2] <= Len(text)
        /\ cut[1] # 0 => text[cut[1]] \in Terminators
        /\ cut[2] # Len(text) => text[cut[2]] \in Terminators
    BY <1>1, <2>1
  <2>3. ASSUME NEW i \in (cut[1] + 1)..(cut[2] - 1)
        PROVE  text[i] \notin Terminators
    <3>1. i \notin ends
      BY <2>1
    <3>2. i \in 1..Len(text)
      BY <1>1, <2>2
    <3> QED
      BY <1>1, <3>1, <3>2
  <2> HIDE DEF cuts, ends
  <2> QED
    BY <2>1, <2>2, <2>3 DEF SentenceAt
<1>4. ASSUME NEW a \in Nat, NEW b \in Nat, SentenceAt(text, a, b)
      PROVE  <<a, b>> \in cuts
  <2> DEFINE N == Len(text)
  <2>0. N \in Nat /\ DOMAIN text = 1..N
    BY <1>1
  <2>1. a < b /\ a \in {0} \cup ends /\ b \in ends \cup {N}
    <3>1. /\ a < b /\ b <= N
          /\ a # 0 => text[a] \in Terminators
          /\ b # N => text[b] \in Terminators
      BY <1>4 DEF SentenceAt
    <3> HIDE DEF N
    <3>2. b \in 1..N /\ (a # 0 => a \in 1..N)
      BY ONLY <2>0, <3>1, a \in Nat, b \in Nat
    <3>3. a # 0 => a \in ends
      BY <2>0, <3>1, <3>2
    <3>4. b # N => b \in ends
      BY <2>0, <3>1, <3>2
    <3> HIDE DEF ends
    <3> QED
      BY <3>1, <3>3, <3>4
  <2>2. ends \cap (a + 1)..(b - 1) = {}
    BY <1>4 DEF SentenceAt
  <2> HIDE DEF ends
  <2> QED
    BY <2>1, <2>2
<1>5. \A a, b \in Nat : SentenceAt(text, a, b) => Slice(text, a, b) \in Sentences(text)
  <2> HIDE DEF cuts
  <2> SUFFICES ASSUME NEW a \in Nat, NEW b \in Nat, SentenceAt(text, a, b)
               PROVE  Slice(text, a, b) \in Sentences(text)
    OBVIOUS
  <2>1. <<a, b>> \in cuts /\ <<a, b>>[1] = a /\ <<a, b>>[2] = b
    BY <1>4
  <2> QED
    BY <1>2, <2>1
<1> HIDE DEF cuts
<1> QED
  BY <1>2, <1>3, <1>5

LEMMA SentenceWords ==
  ASSUME NEW W, NEW text \in Seq(W), NEW a, NEW b, SentenceAt(text, a, b)
  PROVE  /\ Slice(text, a, b) \in Seq(W) /\ Len(Slice(text, a, b)) = b - a
         /\ \A k \in 1..(b - a) : a + k \in 1..Len(text) /\ Slice(text, a, b)[k] = text[a + k]
<1>1. a \in Nat /\ b \in Nat /\ a < b /\ b <= Len(text) /\ Len(text) \in Nat
  BY DEF SentenceAt
<1>2. \A i \in a + 1 .. b : text[i] \in W
  BY <1>1
<1>3. /\ SubSeq(text, a + 1, b) \in Seq(W)
      /\ Len(SubSeq(text, a + 1, b)) = IF a + 1 <= b THEN b - (a + 1) + 1 ELSE 0
      /\ \A k \in 1 .. b - (a + 1) + 1 : SubSeq(text, a + 1, b)[k] = text[(a + 1) + k - 1]
  BY <1>1, <1>2, SubSeqProperties
<1>4. b - (a + 1) + 1 = b - a /\ \A k \in 1..(b - a) : (a + 1) + k - 1 = a + k /\ a + k \in 1..Len(text)
  BY <1>1
<1>5. Slice(text, a, b) = SubSeq(text, a + 1, b)
  BY DEF Slice
<1>6. a + 1 <= b
  BY <1>1
<1> QED
  BY <1>3, <1>4, <1>5, <1>6

LEMMA SentenceRange ==
  ASSUME NEW W, NEW text \in Seq(W), NEW a, NEW b, SentenceAt(text, a, b)
  PROVE  Range(Slice(text, a, b)) \subseteq Range(text)
<1> DEFINE s == Slice(text, a, b)
<1>1. /\ s \in Seq(W) /\ Len(s) = b - a
      /\ \A k \in 1..(b - a) : a + k \in 1..Len(text) /\ s[k] = text[a + k]
  BY SentenceWords
<1> HIDE DEF s
<1>2. DOMAIN s = 1..(b - a) /\ DOMAIN text = 1..Len(text)
  BY <1>1
<1>3. Range(s) \subseteq Range(text)
  BY <1>1, <1>2 DEF Range
<1> QED
  BY <1>3 DEF s

\* What a sentence says, the text says; what the text says without a
\* terminator, one of its sentences says.
LEMMA SentenceSays ==
  ASSUME NEW W, NEW text \in Seq(W), NEW a, NEW b, SentenceAt(text, a, b),
         NEW V, NEW phrases \in SUBSET Seq(V), Says(Slice(text, a, b), phrases)
  PROVE  Says(text, phrases)
<1> DEFINE s == Slice(text, a, b)
<1>1. /\ s \in Seq(W) /\ Len(s) = b - a /\ a \in Nat /\ b \in Nat /\ b <= Len(text) /\ a < b
      /\ \A k \in 1..(b - a) : a + k \in 1..Len(text) /\ s[k] = text[a + k]
  <2>1. a \in Nat /\ b \in Nat /\ b <= Len(text) /\ a < b
    BY DEF SentenceAt
  <2>2. /\ s \in Seq(W) /\ Len(s) = b - a
        /\ \A k \in 1..(b - a) : a + k \in 1..Len(text) /\ s[k] = text[a + k]
    BY ONLY SentenceAt(text, a, b), text \in Seq(W), SentenceWords
  <2> QED
    BY <2>1, <2>2
<1> HIDE DEF s
<1>2. PICK phrase \in phrases : FindAllOccurrences(s, phrase) # {}
  BY DEF Says, s
<1>3. PICK j : OccursAt(s, phrase, j)
  BY <1>1, <1>2, Occurrences
<1>4. OccursAt(text, phrase, a + j)
  <2>1. j \in Nat /\ j + Len(phrase) <= b - a /\ Len(phrase) \in Nat /\ Len(text) \in Nat
    BY <1>1, <1>2, <1>3 DEF OccursAt
  <2>2. ASSUME NEW k \in 1..Len(phrase)
        PROVE  text[(a + j) + k] = phrase[k]
    <3>1. s[j + k] = phrase[k]
      BY <1>3 DEF OccursAt
    <3>2. j + k \in 1..(b - a) /\ a + (j + k) = (a + j) + k
      BY <1>1, <2>1
    <3> QED
      BY <1>1, <3>1, <3>2
  <2> QED
    BY <1>1, <2>1, <2>2 DEF OccursAt
<1> QED
  BY <1>2, <1>4, Occurrences DEF Says

LEMMA SomeSentenceSays ==
  ASSUME NEW W, NEW text \in Seq(W), NEW V, NEW phrase \in Seq(V), Len(phrase) > 0,
         \A k \in 1..Len(phrase) : phrase[k] \notin Terminators,
         FindAllOccurrences(text, phrase) # {}
  PROVE  \E a, b \in Nat : /\ SentenceAt(text, a, b)
                           /\ FindAllOccurrences(Slice(text, a, b), phrase) # {}
<1> DEFINE L == Len(phrase)
           N == Len(text)
<1>1. L \in Nat /\ N \in Nat /\ DOMAIN text = 1..N
  OBVIOUS
<1>2. PICK j : OccursAt(text, phrase, j)
  BY Occurrences
<1>3. j \in Nat /\ j + L <= N /\ \A k \in 1..L : text[j + k] \notin Terminators
  BY <1>2 DEF OccursAt
<1> HIDE DEF L, N
<1>0. L > 0
  BY DEF L
<1> DEFINE before == {0} \cup {i \in 1..j : text[i] \in Terminators}
           after == {N} \cup {i \in (j + L)..N : text[i] \in Terminators}
<1>4. PICK a \in before : \A i \in before : i <= a
  <2>1. before \in SUBSET Nat /\ before # {} /\ \A i \in before : i <= j
    BY <1>3
  <2> HIDE DEF before
  <2> QED
    BY <1>3, <2>1, GreatestNumber
<1>5. PICK b \in after : \A i \in after : b <= i
  <2>1. after \in SUBSET Nat /\ after # {}
    BY <1>1, <1>3
  <2> HIDE DEF after
  <2> QED
    BY <2>1, LeastNumber
<1>6. /\ a \in Nat /\ a <= j /\ (a # 0 => text[a] \in Terminators)
      /\ b \in Nat /\ j + L <= b /\ b <= N /\ (b # N => text[b] \in Terminators)
  <2>1. a \in Nat /\ a <= j /\ (a # 0 => text[a] \in Terminators)
    BY <1>3, <1>4
  <2>2. b \in Nat /\ j + L <= b /\ b <= N /\ (b # N => text[b] \in Terminators)
    BY <1>1, <1>3, <1>5
  <2> QED
    BY <2>1, <2>2
<1>7. ASSUME NEW i \in (a + 1)..(b - 1), text[i] \in Terminators
      PROVE  FALSE
  <2>1. i \in Nat /\ a < i /\ i < b
    BY <1>6
  <2>2. i \notin before /\ i \notin after
    <3>1. ~(i <= a) /\ ~(b <= i)
      BY <1>6, <2>1
    <3> HIDE DEF before, after
    <3> QED
      BY <1>4, <1>5, <3>1
  <2>3. j < i
    BY <1>3, <1>6, <1>7, <2>1, <2>2
  <2>4. i < j + L
    BY <1>1, <1>3, <1>6, <1>7, <2>1, <2>2
  <2>5. i - j \in 1..L /\ j + (i - j) = i
    BY <1>1, <1>3, <2>1, <2>3, <2>4
  <2> QED
    BY <1>3, <1>7, <2>5
<1> HIDE DEF before, after
<1>8. SentenceAt(text, a, b)
  <2>1. a < b
    BY <1>0, <1>1, <1>3, <1>6
  <2> QED
    BY <1>6, <1>7, <2>1 DEF SentenceAt, N
<1> DEFINE s == Slice(text, a, b)
<1>9. /\ s \in Seq(W) /\ Len(s) = b - a
      /\ \A k \in 1..(b - a) : s[k] = text[a + k]
  BY <1>8, SentenceWords
<1> HIDE DEF s
<1>10. OccursAt(s, phrase, j - a)
  <2>1. j - a \in Nat /\ (j - a) + L <= b - a
    BY <1>1, <1>3, <1>6
  <2>2. ASSUME NEW k \in 1..L
        PROVE  s[(j - a) + k] = phrase[k]
    <3>1. (j - a) + k \in 1..(b - a) /\ a + ((j - a) + k) = j + k
      BY <1>1, <1>3, <1>6, <2>1
    <3>2. text[j + k] = phrase[k]
      BY <1>2 DEF OccursAt, L
    <3> QED
      BY <1>9, <3>1, <3>2
  <2> QED
    BY <1>9, <2>1, <2>2 DEF OccursAt, L
<1>11. FindAllOccurrences(s, phrase) # {}
  BY <1>9, <1>10, Occurrences
<1> QED
  BY <1>6, <1>8, <1>11 DEF s

-----------------------------------------------------------------------------
(* What evidence that supports a force says *)

LEMMA SentencesAreTexts ==
  ASSUME NEW W, NEW text \in Seq(W), NEW sentence \in Sentences(text)
  PROVE  sentence \in Seq(W)
BY SentenceCuts, SentenceWords

LEMMA PhrasesAreWords ==
  /\ BindingWords \in SUBSET Seq(ModalWord)
  /\ AdvisoryWords \in SUBSET Seq(ModalWord)
  /\ Range(AdvisoryNegative) \in SUBSET Seq(ModalWord)
  /\ \A phrase \in AdvisoryWords :
       Len(phrase) > 0 /\ \A k \in 1..Len(phrase) : phrase[k] \notin Terminators
<1>1. \A phrase \in Range(AdvisoryNegative) :
        /\ phrase \in Seq(ModalWord) /\ Len(phrase) > 0
        /\ \A k \in 1..Len(phrase) : phrase[k] \notin Terminators
  <2>1. ASSUME NEW a \in ModalWord \ Terminators, NEW b \in ModalWord \ Terminators
        PROVE  /\ <<a, b>> \in Seq(ModalWord) /\ Len(<<a, b>>) > 0
               /\ \A k \in 1..Len(<<a, b>>) : <<a, b>>[k] \notin Terminators
    <3>1. Len(<<a, b>>) = 2 /\ \A k \in 1..2 : k = 1 \/ k = 2
      OBVIOUS
    <3> QED
      BY <3>1
  <2>2. {"should", "not", "is", "are", "discouraged"} \in SUBSET (ModalWord \ Terminators)
    BY DEF ModalWord, NegativeWord, AdviceWord, Terminators
  <2> QED
    BY <2>1, <2>2, AdvicePhrases
<1>2. \A w \in AdviceWord : /\ <<w>> \in Seq(ModalWord) /\ Len(<<w>>) > 0
                            /\ \A k \in 1..Len(<<w>>) : <<w>>[k] \notin Terminators
  <2>1. AdviceWord \cap Terminators = {} /\ AdviceWord \in SUBSET ModalWord
    BY DEF AdviceWord, Terminators, ModalWord
  <2>2. \A w \in AdviceWord : Len(<<w>>) = 1 /\ <<w>>[1] = w /\ \A k \in 1..1 : k = 1
    OBVIOUS
  <2> QED
    BY <2>1, <2>2
<1>3. \A phrase \in AdvisoryWords :
        phrase \in Range(AdvisoryNegative) \/ \E w \in AdviceWord : phrase = <<w>>
  BY AdvisoryPhrases DEF AdvisoryWords
<1>4. BindingWords \in SUBSET Seq(ModalWord)
  BY KnownWords, RestrictivePhrases, NegativePhrases, PositivePhrases DEF BindingWords, Range
<1> QED
  BY <1>1, <1>2, <1>3, <1>4

LEMMA PermissionsAreWords ==
  ASSUME NEW text, NEW phrase \in Permissions(text)
  PROVE  /\ phrase \in Seq(Range(text) \cup {"may"}) /\ Len(phrase) > 0
         /\ \A k \in 1..Len(phrase) : phrase[k] \notin Terminators
<1>1. PICK w \in Range(text) \ Terminators : phrase = <<"may", w>>
  BY DEF Permissions
<1>2. "may" \notin Terminators
  BY DEF Terminators
<1>3. Len(phrase) = 2 /\ phrase[1] = "may" /\ phrase[2] = w /\ \A k \in 1..2 : k = 1 \/ k = 2
  BY <1>1
<1>4. <<"may", w>> \in Seq(Range(text) \cup {"may"})
  OBVIOUS
<1> QED
  BY <1>1, <1>2, <1>3, <1>4

\* A permission is one of every text that says it.
LEMMA PermissionStays ==
  ASSUME NEW text, NEW phrase \in Permissions(text), NEW W, NEW s \in Seq(W),
         FindAllOccurrences(s, phrase) # {}
  PROVE  phrase \in Permissions(s)
<1>1. PICK w \in Range(text) \ (Terminators \cup {"not"} \cup {p[1] : p \in BindingWords}) :
        phrase = <<"may", w>>
  BY DEF Permissions
<1>2. phrase \in Seq(Range(text) \cup {"may"}) /\ Len(phrase) = 2 /\ phrase[2] = w
  BY <1>1, PermissionsAreWords
<1>3. PICK j : OccursAt(s, phrase, j)
  BY <1>2, Occurrences
<1>4. j \in Nat /\ j + 2 \in DOMAIN s /\ s[j + 2] = w
  <2>1. j \in Nat /\ j + 2 <= Len(s) /\ s[j + 2] = w
    BY <1>2, <1>3 DEF OccursAt
  <2> QED
    BY <2>1
<1>5. w \in Range(s)
  BY <1>4 DEF Range
<1> QED
  BY <1>1, <1>5 DEF Permissions

\* What CheckDeonticSupport accepts for a binding force: one sentence binds in
\* the sense of the force, and no passage only advises.
THEOREM SupportIsSaid ==
  ASSUME NEW W, NEW spans \in SUBSET Seq(W), NEW force \in BindingForce,
         CheckDeonticSupport(force, spans) = "supported"
  PROVE  /\ \E q \in spans : \E sentence \in Sentences(q) : Binds(sentence, force)
         /\ \A q \in spans : Advises(q) => Says(q, BindingWords) \/ Fused(q)
<1> DEFINE OnlyAdvises(modalities) ==
             "ADVISORY" \in modalities /\ modalities \cap BindingModality = {}
           classified == {ClassifySpan(span) : span \in spans}
<1>1. /\ ~\E modalities \in classified : OnlyAdvises(modalities)
      /\ \E m \in UNION classified : SupportsForce(force, m)
  BY DEF CheckDeonticSupport
<1>2. \E q \in spans : \E sentence \in Sentences(q) : Binds(sentence, force)
  <2>1. PICK q \in spans : \E m \in ClassifySpan(q) : SupportsForce(force, m)
    BY <1>1
  <2>2. PICK sentence \in Sentences(q) : SupportsForce(force, ClassifySentence(sentence))
    BY <2>1 DEF ClassifySpan
  <2>3. sentence \in Seq(W)
    BY SentencesAreTexts
  <2> QED
    BY <2>2, <2>3, SupportedBinds
<1>3. ASSUME NEW q \in spans, Advises(q)
      PROVE  Says(q, BindingWords) \/ Fused(q)
  <2>1. PICK phrase \in AdvisoryWords \cup Permissions(q) : FindAllOccurrences(q, phrase) # {}
    BY <1>3 DEF Says, Advises
  <2>2. PICK a \in Nat, b \in Nat :
           SentenceAt(q, a, b) /\ FindAllOccurrences(Slice(q, a, b), phrase) # {}
    <3>1. CASE phrase \in AdvisoryWords
      BY <2>1, <3>1, PhrasesAreWords, SomeSentenceSays
    <3>2. CASE phrase \in Permissions(q)
      BY <2>1, <3>2, PermissionsAreWords, SomeSentenceSays
    <3> QED
      BY <3>1, <3>2
  <2> DEFINE s == Slice(q, a, b)
  <2>3. s \in Sentences(q) /\ s \in Seq(W) /\ Advises(s)
    <3>1. s \in Sentences(q)
      BY <2>2, SentenceCuts
    <3>2. s \in Seq(W)
      BY <3>1, SentencesAreTexts
    <3>3. phrase \in Permissions(q) => phrase \in Permissions(s)
      <4> HIDE DEF s
      <4> QED
        BY <2>2, <3>2, PermissionStays DEF s
    <3>4. Advises(s)
      BY <2>1, <2>2, <3>3 DEF Says, Advises
    <3> QED
      BY <3>1, <3>2, <3>4
  <2>4. CASE Says(s, BindingWords)
    BY <2>2, <2>4, PhrasesAreWords, SentenceSays
  <2>5. CASE Fused(s)
    <3>1. Says(q, Range(AdvisoryNegative))
      <4>1. Says(s, Range(AdvisoryNegative))
        BY <2>5 DEF Fused
      <4> QED
        BY <2>2, <4>1, PhrasesAreWords, SentenceSays
    <3>2. Range(s) \subseteq Range(q)
      BY <2>2, SentenceRange
    <3> HIDE DEF s
    <3> QED
      BY <2>5, <3>1, <3>2 DEF Fused
  <2>6. CASE ClassifySentence(s) = "ADVISORY"
    <3>1. "ADVISORY" \in ClassifySpan(q)
      BY <2>3, <2>6 DEF ClassifySpan
    <3>2. PICK t \in Sentences(q) : ClassifySentence(t) \in BindingModality
      <4>1. ~OnlyAdvises(ClassifySpan(q))
        BY <1>1
      <4> QED
        BY <3>1, <4>1 DEF ClassifySpan
    <3>3. Says(t, BindingWords)
      BY <3>2, SentencesAreTexts, BindingIsSaid
    <3>4. PICK c \in Nat, d \in Nat : SentenceAt(q, c, d) /\ t = Slice(q, c, d)
      BY SentenceCuts
    <3>5. Says(q, BindingWords)
      BY <3>3, <3>4, PhrasesAreWords, SentenceSays
    <3> QED
      BY <3>5
  <2> HIDE DEF s
  <2> QED
    BY <2>3, <2>4, <2>5, <2>6, AdviceIsSeen
<1> QED
  BY <1>2, <1>3

LEMMA QuotesAreTexts ==
  ASSUME NEW p \in RuleClaims
  PROVE  /\ p.quote \in Seq(STRING) /\ p.quote # NoQuote
         /\ p.extra # NoQuote => p.extra \in Seq(STRING)
BY AnalysisAssumption DEF AnalysisAssumption

LEMMA WarrantQuotes ==
  ASSUME NEW source, NEW quote, NEW claimType, NEW texts, NEW w,
         QuotedOnce(source, quote, claimType, texts, w)
  PROVE  w # NoWarrant /\ w.quotedText = quote
BY DEF QuotedOnce, Warrant

\* The quotes of a rule the pipeline validates are what its support is read from.
LEMMA RuleIsSupported ==
  ASSUME NEW p \in RuleClaims, NEW texts, ProposeRawAndValidate(p, texts) = "validated"
  PROVE  CheckDeonticSupport(p.force, Quotes(p)) = "supported"
<1> DEFINE c == Candidate(p, texts)
           spans == {w.quotedText : w \in {c.warrant, c.second} \ {NoWarrant}}
<1>1. ResolveRawProposal(p, texts) = "validated" /\ ProposeAndValidate(c, texts) = "validated"
  BY ThenValidated DEF ProposeRawAndValidate
<1>2. Deontic(c) = "validated"
  <2>1. CheckWarrant(c, texts) = "validated"
    BY <1>1, ThenValidated DEF ProposeAndValidate
  <2> HIDE DEF c
  <2> QED
    BY <2>1, ThenValidated DEF CheckWarrant
<1>3. c.claim = p
  BY DEF Candidate
<1>4. CheckDeonticSupport(p.force, spans) = "supported"
  <2>1. CheckDeonticSupport(p.force, spans) \in {"supported", "contradicted", "unsupported"}
    BY DEF CheckDeonticSupport
  <2> HIDE DEF c
  <2> QED
    BY <1>2, <1>3, <2>1 DEF Deontic
<1>5. spans = Quotes(p)
  <2>1. p.quote # NoQuote
    BY QuotesAreTexts
  <2>2. c.warrant # NoWarrant /\ c.warrant.quotedText = p.quote
    BY <1>1, RawIsQuotedOnce, WarrantQuotes
  <2>3. CASE p.extra = NoQuote
    <3>1. c.second = NoWarrant
      BY <1>1, <2>3, RawIsQuotedOnce
    <3> HIDE DEF c
    <3>2. {c.warrant, c.second} \ {NoWarrant} = {c.warrant}
      BY <2>2, <3>1
    <3> QED
      BY <2>1, <2>2, <2>3, <3>2 DEF Quotes
  <2>4. CASE p.extra # NoQuote
    <3>1. c.second # NoWarrant /\ c.second.quotedText = p.extra
      BY <1>1, <2>4, RawIsQuotedOnce, WarrantQuotes
    <3> HIDE DEF c
    <3>2. {c.warrant, c.second} \ {NoWarrant} = {c.warrant, c.second}
      BY <2>2, <3>1
    <3> QED
      BY <2>1, <2>2, <2>4, <3>1, <3>2 DEF Quotes
  <2> QED
    BY <2>3, <2>4
<1> QED
  BY <1>4, <1>5

\* A rule of a trace that claims a binding force quotes a sentence that binds in
\* the sense of that force, and no passage that only advises, whatever its words
\* and whichever phrases of the lists stand side by side in it, but for the one
\* way in which draining a phrase brings two words together.
THEOREM SpecForceIsQuoted == Spec => []ForceIsQuoted
<1>1. IInv => ForceIsQuoted
  <2> SUFFICES ASSUME IInv, Kept, NEW p \in trace.compiled.rules.validated,
                      p.force \in BindingForce
               PROVE  /\ \E q \in Quotes(p) : \E sentence \in Sentences(q) : Binds(sentence, p.force)
                      /\ \A q \in Quotes(p) : Advises(q) => Says(q, BindingWords) \/ Fused(q)
    BY DEF ForceIsQuoted
  <2> DEFINE T == Texts(trace.artifacts)
  <2>1. trace.compiled = Compile(T)
    BY DEF IInv
  <2>2. p \in RuleClaims /\ ProposeGatedRawRule(p, T, trace.compiled.allowed) = "validated"
    BY <2>1, CompileValidated
  <2>3. ProposeRawAndValidate(p, T) = "validated"
    BY <2>2, RuleIsGated
  <2>4. CheckDeonticSupport(p.force, Quotes(p)) = "supported"
    BY <2>2, <2>3, RuleIsSupported
  <2>5. Quotes(p) \in SUBSET Seq(STRING)
    BY <2>2, QuotesAreTexts DEF Quotes
  <2> QED
    BY <2>4, <2>5, SupportIsSaid
<1> QED
  BY <1>1, SpecIInv, PTL

=============================================================================
