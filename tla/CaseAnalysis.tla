---------------------------- MODULE CaseAnalysis ----------------------------
(***************************************************************************)
(* analyzeCase (cli/analyzeCase.ts) and checkSourceDrift                   *)
(* (drift/sourceDrift.ts), over documents that their institutions change   *)
(* at any time.  Both await the documents one after the other; what        *)
(* follows the last of them is one synchronous computation.  resolveCase   *)
(* and evaluateFixture are the same computation without authority, on raw  *)
(* and on pre-warranted claims.                                            *)
(***************************************************************************)
EXTENDS Warrants

CONSTANTS Source,          \* the sources of the case
          Supplied,        \* artifacts captured before, in order
          Order,           \* the sources to acquire, in order
          Scopes, Query, Effective, AsOf, NoUnit, AnyStudent, NoSource,
          Lineage,         \* proposed relationships, in order
          RuleClaims,      \* proposed policy rules
          Constraints,     \* proposed conformance rules
          Documents,       \* Documents[s]: what may be served at the source's URL
          Extracted,       \* Extracted[document, extractor]: its canonical text
          Extractors,      \* versions of the extractor
          Unavailable,     \* nothing is served
          NoTrace,
          MaxChanges       \* bound: changes to documents and extractor

ASSUME AnalysisAssumption ==
  /\ Order \in Seq(Source) /\ IsInjective(Order)
  /\ \A i \in DOMAIN Supplied : Supplied[i].source \in Source
  /\ \A p \in RuleClaims \cup Constraints \cup Range(Lineage) : p.source \in Source
  /\ \A p \in Range(Lineage) : p.extra = NoQuote
  /\ \A p \in RuleClaims : /\ p.quote \in Seq(STRING) /\ p.quote # NoQuote
                           /\ p.extra # NoQuote => p.extra \in Seq(STRING)
  /\ Extractors \subseteq Nat
  /\ MaxChanges \in Nat

VARIABLES served,     \* what is served at every source's URL
          extractor,  \* the extractor installed
          changes,
          captured,   \* the artifacts of the analysis under way
          trace,      \* the trace of the finished analysis
          rechecked   \* what the drift check under way has found, by source

world == <<served, extractor, changes>>
vars == <<served, extractor, changes, captured, trace, rechecked>>

\* A source the drift check has not come to.
Pending == [text |-> Missing]
NothingChecked == [s \in Source |-> Pending]

Init == /\ served \in {f \in [Source -> UNION {Documents[s] : s \in Source}] :
                         \A s \in Source : f[s] \in Documents[s]}
        /\ extractor \in Extractors /\ \A e \in Extractors : extractor <= e
        /\ changes = 0
        /\ captured = <<>>
        /\ trace = NoTrace
        /\ rechecked = NothingChecked
-----------------------------------------------------------------------------
Authority == INSTANCE AuthorityResolver
               WITH Queries <- {Query}, Effective <- {Effective}, Instant <- {AsOf},
                    Lineage <- {}, MaxRelationships <- 0,
                    query <- Query, effective <- Effective, relationships <- <<>>, asOf <- AsOf

\* acquireSource: the document as served at that moment, and its text.
Artifact(s) == [source |-> s, raw |-> served[s], text |-> Extracted[served[s], extractor]]

\* SourceStore: the artifact last put under a source id.  The hash of a supplied
\* artifact, which the code takes as supplied, is taken to be that of its text.
SourceStore(artifacts) ==
  [s \in Source |->
     LET at == {i \in DOMAIN artifacts : artifacts[i].source = s}
     IN IF at = {} THEN Unavailable ELSE artifacts[Max(at)]]

Texts(store) == [s \in Source |-> IF store[s] = Unavailable THEN Missing ELSE store[s].text]

\* usedSources, a Map: its sources in the order in which they were first put.
Position(s) ==
  LET put == [i \in DOMAIN Supplied |-> Supplied[i].source] \o Order
  IN Min({i \in DOMAIN put : put[i] = s})

\* From the captured texts to validated claims: lineage, authority, rules.
Compile(texts) ==
  LET lineage == Batch([p \in Range(Lineage) |-> ProposeRawRelationship(p, texts)])
      valid   == SelectSeq(Lineage, LAMBDA p : p \in lineage.validated)
      edges   == [i \in DOMAIN valid |->
                    [type |-> valid[i].type, from |-> valid[i].source, to |-> valid[i].to]]
      allowed == Authority!Resolution(edges, AsOf).allowed
  IN [allowed     |-> allowed,
      lineage     |-> lineage,
      rules       |-> Batch([p \in RuleClaims |-> ProposeGatedRawRule(p, texts, allowed)]),
      constraints |-> Batch([p \in Constraints |-> ProposeRawConformanceRule(p, texts, allowed)])]

\* The synchronous part of analyzeCase, on the artifacts of all sources.
Analysis(store) == [artifacts |-> store, compiled |-> Compile(Texts(store))]

Claims(compiled) ==
  compiled.lineage.validated \cup compiled.rules.validated \cup compiled.constraints.validated

\* resolveCase: no authority is resolved, every captured source may be cited.
ResolveCase(store) == Batch([p \in RuleClaims |-> ProposeRawAndValidate(p, Texts(store))])

\* evaluateFixture: rules that come with their warrants.
EvaluateFixture(candidates, store) ==
  Batch([c \in candidates |-> ProposeAndValidate(c, Texts(store))])
-----------------------------------------------------------------------------
Publish(s, d) == /\ changes < MaxChanges
                 /\ served[s] # d
                 /\ served' = [served EXCEPT ![s] = d]
                 /\ changes' = changes + 1
                 /\ UNCHANGED <<extractor, captured, trace, rechecked>>

Upgrade(e) == /\ changes < MaxChanges
              /\ e > extractor
              /\ extractor' = e
              /\ changes' = changes + 1
              /\ UNCHANGED <<served, captured, trace, rechecked>>

Acquiring == trace = NoTrace /\ Len(captured) < Len(Order)

Acquire == /\ Acquiring
           /\ served[Order[Len(captured) + 1]] # Unavailable
           /\ captured' = Append(captured, Artifact(Order[Len(captured) + 1]))
           /\ UNCHANGED <<world, trace, rechecked>>

\* acquireSource throws: nothing of the analysis is kept, and the next one
\* starts from the first source.
AcquireFails == /\ Acquiring
                /\ served[Order[Len(captured) + 1]] = Unavailable
                /\ captured' = <<>>
                /\ UNCHANGED <<world, trace, rechecked>>

Analyse == /\ trace = NoTrace
           /\ Len(captured) = Len(Order)
           /\ trace' = Analysis(SourceStore(Supplied \o captured))
           /\ captured' = <<>>
           /\ UNCHANGED <<world, rechecked>>

\* What the trace pins.
Pinned == {s \in Source : trace.artifacts[s] # Unavailable}

\* checkSourceDrift awaits the next source; one that cannot be acquired is
\* recorded as such.
Recheck == /\ trace # NoTrace
           /\ \E s \in Pinned :
                /\ rechecked[s] = Pending
                /\ \A t \in Pinned : Position(t) < Position(s) => rechecked[t] # Pending
                /\ rechecked' = [rechecked EXCEPT ![s] =
                                   IF served[s] = Unavailable THEN Unavailable ELSE Artifact(s)]
           /\ UNCHANGED <<world, captured, trace>>

Checked == trace # NoTrace /\ \A s \in Pinned : rechecked[s] # Pending

\* The report is written; a routine checks the trace again some day.
CheckAgain == /\ Checked
              /\ rechecked' = NothingChecked
              /\ UNCHANGED <<world, captured, trace>>

Next == \/ \E s \in Source : \E d \in Documents[s] \cup {Unavailable} : Publish(s, d)
        \/ \E e \in Extractors : Upgrade(e)
        \/ Acquire \/ AcquireFails \/ Analyse \/ Recheck \/ CheckAgain

Spec == Init /\ [][Next]_vars
-----------------------------------------------------------------------------
(* The drift report *)

\* Mutant: a source that cannot be acquired again is passed over.
StatusIfServed(pinned, current) ==
  IF current = Unavailable \/ current.raw = pinned.raw THEN "UNCHANGED" ELSE "SOURCE_CHANGED"

\* Mutant: the same bytes are taken for the same text.
StatusByBytes(pinned, current) ==
  IF current = Unavailable THEN "SOURCE_UNAVAILABLE"
  ELSE IF current.raw # pinned.raw THEN "SOURCE_CHANGED" ELSE "UNCHANGED"

\* classify
Status(pinned, current) ==
  IF current = Unavailable THEN "SOURCE_UNAVAILABLE"
  ELSE IF current.raw # pinned.raw THEN "SOURCE_CHANGED"
  ELSE IF current.text # pinned.text THEN "EXTRACTOR_DRIFT"
  ELSE "UNCHANGED"

Drifted == {s \in Pinned : Status(trace.artifacts[s], rechecked[s]) # "UNCHANGED"}
Overall == IF Drifted = {} THEN "UNCHANGED" ELSE "REVALIDATION_REQUIRED"

\* dependentsBySource: what the report marks REVALIDATION_REQUIRED.
Marked == {p \in Claims(trace.compiled) : p.source \in Drifted}
-----------------------------------------------------------------------------
(* Properties *)

Kept == trace # NoTrace
Quotes(p) == {p.quote, p.extra} \ {NoQuote}

IsQuotedOnce(quote, text) == Cardinality(FindAllOccurrences(text, quote)) = 1

\* Wherever documents change between two acquisitions, every claim of a trace
\* is quoted exactly once in the text the trace pins, was read and not
\* inferred, and comes, if it can bind, from a source that governs the case.
ClaimsAreWarranted ==
  Kept => \A p \in Claims(trace.compiled) :
            /\ \A q \in Quotes(p) : IsQuotedOnce(q, trace.artifacts[p.source].text)
            /\ p.claimType # "inferred"
            /\ p.extra # NoQuote => p.extraType # "inferred"
            /\ \/ p \in trace.compiled.lineage.validated
               \/ p.source \in trace.compiled.allowed

Says(text, phrases) == \E phrase \in phrases : FindAllOccurrences(text, phrase) # {}

\* What binds, and the advice that no other list of phrases can take apart: its
\* one word is none of theirs, or its two words never stand side by side there.
\* "may" is safe before a word that does not make it an order ("may not", "may
\* only") and begins no phrase that binds.
BindingWords == Range(Restrictive) \cup Range(BindingNegative) \cup Range(BindingPositive)
AdvisoryWords ==
  {phrase \in Range(Advisory) : Len(phrase) = 1 /\ phrase # <<"may">>} \cup Range(AdvisoryNegative)
Permissions(text) ==
  {<<"may", w>> : w \in Range(text) \ (Terminators \cup {"not"} \cup {phrase[1] : phrase \in BindingWords})}
Advises(text) == Says(text, AdvisoryWords \cup Permissions(text))

\* The words of a sentence bind, in the sense of the force: an obligation
\* without a prohibition, or a prohibition, and no advice beside it.
Binds(sentence, force) ==
  /\ ~Advises(sentence)
  /\ \/ Says(sentence, Range(Restrictive))
     \/ IF force \in {"MUST_NOT", "SHALL_NOT"} THEN Says(sentence, Range(BindingNegative))
        ELSE Says(sentence, Range(BindingPositive)) /\ ~Says(sentence, Range(BindingNegative))

\* The words of an obligation stand around a discouragement ("is should not
\* required"), which drain takes out from between them: against its comment
\* (deonticSupport.ts:200), it finds a phrase that is not in the source.
Fused(text) == /\ Says(text, Range(AdvisoryNegative))
               /\ \E phrase \in Range(BindingPositive) : Range(phrase) \subseteq Range(text)

\* "no rule reaches a binding force on evidence whose modal vocabulary is purely
\* advisory, and no rule reaches one on evidence with no modal vocabulary at
\* all" (deonticSupport.ts): a rule of a trace that claims a binding force
\* quotes a sentence that binds in that sense, and no passage that only advises,
\* but for words that drain fuses.
ForceIsQuoted ==
  Kept => \A p \in trace.compiled.rules.validated :
            p.force \in BindingForce =>
              /\ \E q \in Quotes(p) : \E sentence \in Sentences(q) : Binds(sentence, p.force)
              /\ \A q \in Quotes(p) : Advises(q) => Says(q, BindingWords) \/ Fused(q)

\* A report of no drift means that the case could be analysed again today, from
\* the documents the check saw, with the same result.
UnchangedIsReproducible ==
  (Checked /\ Overall = "UNCHANGED") => Compile(Texts(rechecked)) = trace.compiled

\* A claim whose own quotation can no longer be resolved is marked.
LostQuotesMarked ==
  Checked =>
    \A p \in Claims(trace.compiled) :
      (\/ rechecked[p.source] = Unavailable
       \/ \E q \in Quotes(p) : ~IsQuotedOnce(q, rechecked[p.source].text))
      => p \in Marked

\* The rules of a trace written down with the warrants they were given, and
\* evaluated against the documents the drift check saw: those the report leaves
\* unmarked pass again, and those that pass would be accepted from their quotes
\* alone, so that evidence pinned to an older text is never taken for current.
PinnedRulesAgree ==
  Checked =>
    LET rules  == trace.compiled.rules.validated
        pinned == {Candidate(p, Texts(trace.artifacts)) : p \in rules}
        passed == {c.claim : c \in EvaluateFixture(pinned, rechecked).validated}
    IN /\ rules \ Marked \subseteq passed
       /\ passed \subseteq ResolveCase(rechecked).validated

\* "Every claim and finding that depended on a changed source is marked"
\* (sourceDrift.ts): also the rules of a source that governs only by what a
\* changed document says of it.
DependentsMarked ==
  (Checked /\ \A s \in Source : rechecked[s] # Unavailable) =>
    \A p \in Claims(trace.compiled) \ Claims(Compile(Texts(rechecked))) : p \in Marked
=============================================================================
