# TLA+ verification of the Recourse engine

Recourse (`src/recourse-grokbot/engine`) takes the documents in which a university publishes its
procedures, rules and lineage claims an untrusted model proposes about them, and the events of a
student's case; it keeps only the proposals it can verify against the documents, works out which
document governs, and computes deadlines, statuses and findings. This directory holds TLA+ models
of that engine, the TLC configurations that check them, and TLAPS proofs. Paths below are relative
to `src/recourse-grokbot/engine/src/`.

Nearly all of the engine is pure, synchronous functions. What makes it hard is elsewhere: a file
shared by processes that can die, two functions that await the network once per document while
documents change, a memoised recursion over possibly circular deadlines, and results that are
recomputed over and over from a log and a set of claims that grow *in any order*.

## 1. Inventory

| Component | State | Operations | What is hard | What makes it correct |
|---|---|---|---|---|
| Case event store (`case/caseStore.ts`) | one JSON-lines file per case | `append`, `appendAll`, `load`, `rewriteForCompaction` | no lock: processes race to create, append and compact; a write can stop half way | what was acknowledged is replayed; calls look atomic; corruption is noticed |
| Event log (`case/eventLog.ts`) | events in order of recording | `append`, `all`, `firstOfType`, `ofType` | facts are recorded late | readers depend on when things occurred |
| Calendar (`calendar/businessDayCalendar.ts`) | closures | `addDays`, `isBusinessDay` | dates and timestamps compared as strings; weekends | exactly so many business days |
| Due dates (`case/caseTwin.ts`) | per-evaluation memo, visiting set | `resolveDueDate`, `computeDueDateUncached`, `resolveAnchor` | circular anchors, a memo shared between roots | terminates; solves the deadlines' equations; never guesses |
| Case twin (`case/caseTwin.ts`) | none (function of procedure, log, instant) | `computeCaseState` | the log grows in any order, time passes | how statuses may move |
| Deviations (`deviation/detector.ts`) | none | `detectDeviations` | seven kinds from six inputs | same facts, same deviations; none is missing from the page |
| Procedure model (`procedure/procedureModel.ts`) | none | `buildProcedureModel`, `detectConflicts` | the same duty in several forms | advisory rules never gate state; disagreement is reported |
| Conformance (`conformance/conformanceChecker.ts`) | none | `checkConformance`, `checkAllConformance` | late events, waivers and denials | findings are final and unavoidable |
| Forecast (`forecast/forecast.ts`) | none | `forecastScenario(s)` | the case goes on after the forecast | forecasts come true; warnings are exact |
| Authority (`authority/authorityResolver.ts`, `authorityGate.ts`) | none (function of the validated claims and the instant) | `resolveAuthority`, `gateSourceId` | cycles, several superiors, chains of replacements, effective dates | one tree or nothing; order of claims irrelevant |
| Lineage validation (`authority/relationshipValidator.ts`, `rawRelationship.ts`) | none | `proposeRawRelationship(s)` | | only quoted, stated claims |
| Rule compilation (`warrant/*`, `validation/*`) | `SourceStore` | `resolveQuote`, `proposeGatedRawRule(s)`, `proposeAndValidate(All)`, `checkWarrant`, `validateRule` | the order of the checks decides rejection or review; warrants of an older capture | quoted once, stated, governed; old evidence is never taken for current |
| Deontic support (`validation/deonticSupport.ts`) | none | `checkDeonticSupport`, `classifySpan` | overlapping phrases, several sentences and spans | a binding force is quoted in its own sense |
| Conformance-rule compilation (`conformance/conformanceValidator.ts`, `rawConformance.ts`, `conformancePipeline.ts`) | `SourceStore` | `proposeRawConformanceRule(s)` | the same | the same |
| Acquisition (`warrant/acquireSource.ts`) | none | `acquireSource` | a document changes or disappears between two fetches | one capture per analysis |
| Case analysis (`cli/analyzeCase.ts`) | artifacts acquired so far | `analyzeCase` | one `await` per source | the trace vouches for captured text |
| Recourse trace (`trace/recourseTrace.ts`) | the JSON trace | `buildRecourseTrace`, `renderRecourseTraceMarkdown` | two derivations of what is missing; rebuilt after every fact | reproducible; what it settles stays settled; the summary hides nothing |
| Drift (`drift/sourceDrift.ts`) | artifacts acquired so far | `checkSourceDrift` | one `await` per source, withdrawn documents, extractor upgrades | "unchanged" means reproducible; everything affected is marked |
| Fixture evaluation (`cli/evaluate.ts`), resolve-case (`cli/resolveCase.ts`) | none | `evaluateFixture`, `resolveCase` | no authority gate; pre-warranted rules | the same verdicts as the raw path on the same text |
| Command line, types, bench, skills, schemas | | | | not modelled, see section 8 |

Interactions: `analyzeCase` acquires every source, then runs lineage validation, authority, rule
compilation, procedure model, twin, conformance, deviations and forecast in one synchronous
computation; `buildRecourseTrace` stores the result; `checkSourceDrift` reads the trace and
acquires the sources again. The event log is filled from input files; the event store is the
durable form of it.

`PROJECT.json` lists every component with its status, and the hazards at the lines where they bite.

## 2. Modules

```
CaseHistory  <-- refined by --  CaseEventStore --- CaseEventStore_proofs

BusinessDayCalendar
  Deadlines ----- DueDateResolver, ProcedureModel --- DueDateConflicts --- DueDateResolver_proofs
  EventLog --- ConformanceRules --- Conformance --- Conformance_proofs
  Deadlines, EventLog, ProcedureModel --- CaseTwin
      CaseTwin, ConformanceRules --- ScenarioForecast --+-- CaseForecast --- CaseForecast_proofs
                                                        +-- RecourseTrace --- RecourseTrace_proofs

WarrantSpans --- DeonticSupport --- Warrants --- CaseAnalysis --- CaseAnalysis_proofs
                                                   ^-- INSTANCE -- AuthorityResolver
                                                                     +--- AuthorityResolver_proofs
```

`EventLog_proofs` holds the lemmas on numbers, the calendar and event logs, for `ConformanceRules`
and what it is built from; `DueDateResolver_proofs`, `Conformance_proofs` and `CaseForecast_proofs`
extend it, and `RecourseTrace_proofs` extends `CaseForecast_proofs`.

Each state machine has an `MC...` module that gives TLC its constants. `CaseTwin` is run as the state
machine of `RecourseTrace` and of `CaseForecast`.

**CaseEventStore.** `exists`, `lines`, `open` are the file: its non-empty lines, each an event or
text that does not parse, and whether the last one lacks its newline. `pc`, `todo`, `view` say where
each process is in `appendAll` or `rewriteForCompaction`. Every `node:fs` call is an action:
`CheckExists` and `Create` are `ensureFile`, `Write` is `appendFileSync`, `WriteTmp` and `Rename` the
rewrite; `LoadForCompaction` is the replay a compaction starts from. `AppendAll` takes any batch: events
that an earlier call failed to record or has recorded, and events another process hands in at the same
time; `calls` counts how often each was handed in. `InterruptedWrite` leaves part
of a line (or the whole line without its newline) and does not return; the next write is glued to it.
`Crash` kills a process between two calls. `load()` is the operators `Loads` and `Replayed`.
`CaseHistory` is the abstract store: a history that `Record` extends by one event, and a copy that a
compaction takes and puts back atomically.

**BusinessDayCalendar, EventLog, Deadlines, ConformanceRules** are the pure functions. The engine
compares ISO strings; an instant is a number, `2*d` for the date-only string of day `d` and `2*d+1`
for a time on that day, so that the order of instants is the order of the strings. `Walk` is the loop
of `addDays`, `First` what `firstOfType` finds, `DueDateOf` one deadline's due date and `DueDates` the
due dates of all obligations, as their equations define them.

**DueDateResolver.** One evaluation of `computeCaseState`'s due dates: `stack` holds the activations
of `computeDueDateUncached`, `cache` is `dueDateCache`, `out` what is reported. `Resolve` and
`ReportCached` are the outer loop, `AnchorKnown`, `AnchorCycle`, `AnchorResolve` the cases of
`resolveAnchor` and of the visiting check (which stores `null` in the memo), `Finish` the return.
**DueDateConflicts** puts next to the dates what the procedure model says of the same obligations.

**ProcedureModel** is the sorting of validated rules into a procedure and `detectConflicts`.

**CaseTwin.** `compiled` is what the analysis kept of a policy (rules, constraints, refused and held
claims, ambiguities, the authority's status), fixed from the start; `log` grows by `Record`,
`evaluationAt` moves on by `Evaluate`; `CaseState` and `Deviations` are recomputed in every state.
**Conformance** does the same for one rule.

**ScenarioForecast** is `forecastScenario` as a function of a case. **CaseForecast** adds one forecast
(`Forecast`) to the case, remembers of what log and instant it was made (`base`, `baseAt`), and lets
the case go on after it.

**RecourseTrace** is `buildRecourseTrace` on the case of the moment: a row per obligation, finding and
scenario, and the list of what could not be determined (`Uncertainty`). Of the page that
`renderRecourseTraceMarkdown` writes it keeps which facts the summary (`Summary`, up to "What this record
does not claim") and the evidence sections (`Evidence`) state, not the sentences.

**AuthorityResolver.** `relationships` grows by `Validate`, `asOf` moves on by `Later`; `Resolution`
is `resolveAuthority` together with the set of sources the gate lets through. `Records` are the lineage
claims between candidates by the one that is below, `Superior` who such a claim puts above it, `Chain`
the walk up from a document, as many steps as there are candidates.

**WarrantSpans.** A text is the sequence of its words, an offset counts words, and the hash of a text
is the text itself (hashes are only compared). `ResolveQuote` binds a quote to its one occurrence;
`Verified` is the check of a warrant somebody else wrote down. Quotes begin and end at a word here; in
the code at any character.

**DeonticSupport** has the phrase lists, `Sentences`, and the draining of phrases from a sentence in
the order of the lists: what is found decides the modality, what the spans carry decides the support.

**Warrants** are the pipelines, raw, gated and pre-warranted, for rules, lineage claims and conformance
rules: sequences of stages, the first that does not pass deciding (`Then`), each batch a partition into
three buckets (`Batch`).

**CaseAnalysis** interleaves changes of the world (`Publish`, `Upgrade`) with the awaits of an analysis
(`Acquire`, `AcquireFails`), its synchronous rest (`Analyse`) and repeated drift checks (`Recheck`,
`CheckAgain`); what follows the last await is atomic because JavaScript runs it so. Supplied artifacts
are put into the store first and an acquired one replaces them. `ResolveCase` and `EvaluateFixture`
are the older compositions without authority.

## 3. What the runs show

| Run | Question | Result |
|---|---|---|
| `store` | two processes create, append, retry, compact and die; no torn write | `AckedDurable`: acknowledged events replay, except those written while a compaction already held its copy. `RefinesHistory`: the races look like whole appends and compactions. `NoMoreCopiesThanCalls`: an event is replayed twice only if it was handed in twice |
| `store_torn` | two processes, two torn writes, no compaction | a torn tail alone loses nothing; at most one acknowledged event is lost without `load()` noticing; once it throws it throws for good |
| `store_torn_loss` | is every acknowledged event replayed after a torn write? | **violated**: the next append is glued to the torn line |
| `due_dates` | three obligations, every combination of deadlines | terminates, never recurses into itself, solves the equations, reports the dates the twin is modelled with where nothing is circular, guesses nothing, counts business days, keeps settled memo entries; obligations of one scope that come out with different dates are reported as a conflict, unless both involve a circle (`DisagreementReported`) |
| `due_dates_circular` | does a deadline resolve as soon as one anchor does? | **violated**: the memo keeps the `null` of a circular reference |
| `conformance` | ten rules, four events in any order | findings do not depend on the order of recording, lead times are exact, findings are final on a chronological record |
| `conformance_late` | can a later event take a violation back? | **violated**: a required event after its window |
| `trace` | facts recorded late, time passes, the trace is rebuilt | the order of recording is irrelevant (`TraceReproducible`), and so are the facts a retried batch leaves twice (`RetriesChangeNothing`); advice moves nothing; what a chronological record has settled stays settled; a forecast that moves nothing waits for something exactly when the list of limits names what is missing; the summary tells every deviation but missing evidence; statuses only advance, due dates never slip |
| `forecast` | every scenario of up to two hypothetical events | forecasts come true; passing time only makes pending obligations missed; a warning is given exactly for new violations |
| `authority` | three documents, three claims | a document is chosen exactly when every other candidate has one record and whoever is taken together with all superiors includes it; the order of claims is irrelevant; time acts only on effective dates; what was replaced stays out |
| `analysis` | three sources, three changes of the world | every claim of a trace is quoted once in pinned text and governed; a binding force is quoted in its own sense; no passage that only advises is quoted beside it, as far as the advice is one of the words and pairs of `ForceIsQuoted`, "may" among them (outside this half: "may" before "not" or a word that begins a binding phrase, advice of several words, and words that fuse, see below); "unchanged" is reproducible; lost quotes are marked; the warrants of a trace pass against other documents only where the quotes alone would |
| `analysis_dependents` | is everything that depended on a changed source marked? | **violated**: rules that depend on a lineage claim of another document |

The four violated runs are the findings in `PROJECT.json`, each with the line of the repository it
contradicts. Some facts of the twin that a reader may not expect are part of what the passing runs
state: an obligation on the `latest` of several anchors may be missed and become pending again when a
further anchor is recorded (`StatusAdvances` and `DueDatesNeverSlip` exclude exactly the obligations
that hang on a `latest`); and a due date has no time of day, so on the due day itself every timestamp
is already later than it. A third one was met while modelling the forecast: a scenario that only
supplies the evidence a gate asks for removes a deviation and is still `STATE_UNCHANGED`, since
`diff()` compares obligations, eligibility and conformance findings.

Places where words and code part without a run about them, met while translating:

- `procedure/procedureModel.ts:88` calls "MUST vs MAY on the same required action" a conflict;
  `isIncompatibleForce` knows only requirement against prohibition.
- `validation/deonticSupport.ts:183-187` says that splitting a provision into more sentences makes the
  gate "never looser". It does: a provision that binds in one half and advises in the other is `MIXED`
  as one sentence, and supported once a semicolon divides it.
- `validation/deonticSupport.ts:200-202` says that `drain` leaves a space behind "so neighbouring words
  cannot be fused into a phrase that was not in the source". The patterns of the phrases span any run of
  spaces, so they can: "the form is should not required" loses "should not" and then says "is required",
  which nobody wrote, and a passage that only advises becomes `MIXED`. Met when `ForceIsQuoted` did not
  prove: `Fused` is exactly this exception, and the passages it lets by are those that discourage and
  contain the words of a binding phrase elsewhere.
- `warrant/rawProposal.ts` describes force evidence as something that can only add; a second quote that
  does not resolve, or only advises, turns a rule that would pass without it into a rejected one.
- `resolveCase` and `evaluateFixture` know no authority: any captured source may be cited.
- Missing evidence (`STUDENT_REQUIREMENT_MISSING`) is a deviation of the analysis and is nowhere in the
  trace, nor are the warrants of force evidence; `SummaryTellsDeviations` excludes exactly the former.
- Facts of one instant are listed in the order they were recorded, so the trace hash of the same facts
  may differ; `TraceReproducible` says what does not.
- `deadlinesDiffer` (`procedure/procedureModel.ts:132-134`) compares `JSON.stringify` outputs, so two
  deadlines that say the same with their keys in another order are reported as a conflict.
  `DeadlinesDiffer` compares what they say: the engine may report more conflicts than the model, never
  fewer, which is the direction `DisagreementReported` needs.
- With circular references even equal deadlines may come out with different dates and no conflict:
  r1 and r2 both on the latest of (due r3, e1) plus 1, r3 on the latest of (due r1, due r2). Resolved in
  that order, r2 meets the circle at r3 while r1 is being resolved: it counts from e1 alone and gets the day
  after it; r3 takes that date, and r1 gets one day more (`caseTwin.ts:66-153`). `DisagreementReported` excludes the pairs that both involve a circle, and no others.
- Nothing checks that the ids of rules are unique, which `TwinAssumption` takes them to be.

## 4. Bounds

- `store`: 2 processes, 3 events, batches of 2, 4 lines. Races need two processes; a batch of 2 meets
  a failure between its events; 3 events are needed for one before, one during and one after a
  compaction. Each event is handed in at most twice (`MaxCalls`): once and again after a failure, after
  a success, or by the other process at the same time. `store_torn` allows 2 torn writes: one to be glued to, one to corrupt again.
- `due_dates`: 3 rules give self-references, pairs, triangles and a chain into a circle; two anchors
  per deadline are the least that distinguish the combinators. Two of the rules share their scope (`Terms`). One closure, a weekend, a timestamp.
- `conformance`: 4 events allow the notice, the hearing, the waiver and its denial in one log, or an
  event type twice; the instants are a Friday with and without a time, a Saturday, the Tuesday after.
- `trace`: chains of three deadlines of every type, one obligation stated twice in eight procedures, one
  advised; seven facts, of which four are recorded; three instants before, on and after the due dates;
  a case with everything, one of deadlines only, one of closed lists only, one that nothing governs; a
  scenario that adds nothing and one that supposes the decision. `forecast`: chains of two deadlines,
  three recorded facts, one of them an assertion that names no ground, three instants, every scenario
  of up to two facts.
- `authority`: 3 sources and 3 claims give a chain, a fork, two superiors, a cycle of two next to a
  root and a chain of replacements; 2 instants lie between the effective dates.
- `analysis`: a superior, a subordinate and a source of another institution; 3 changes allow a document
  to change between the two acquisitions, again before the drift check and again during it. The page
  has a reprint with the same text, a version with one quote repeated and one with every word shifted;
  the second extractor loses a sentence. Twenty-one claims meet every stage at which a claim can fail.

Bounds appear in guards by name (`MaxLines`, `MaxCalls`, `MaxTears`, `MaxEvents`, `MaxRelationships`,
`MaxHypotheses`, `MaxChanges`; one forecast per behaviour). `CHECK_DEADLOCK FALSE` is given where the
bounded logs or lists simply end, or the evaluation is over; `analysis` has it on, since the drift
check can always be repeated. Symmetry is used on events in the store only, where no constant is
distinguished and nothing but safety is checked.

## 5. Fairness

Only `DueDateResolver` states fairness, `WF_vars(Next)`: the evaluation is one synchronous call, which
runs until it returns. No other component promises that anything happens: callers decide when to
record, analyse, check or compact.

## 6. Proofs

All safety and action properties of the passing runs are proved for every value of the constants that
satisfies the assumptions of section 6.2; `PROJECT.json` lists the theorem of each. The runs show the same
properties on instances, and show that the assumptions can be met.

### 6.1 What is proved, and how

`CaseEventStore_proofs`, for any processes, events, lines and torn writes:

- `TypeCorrect`: `TypeInv` adds to `TypeOK` what a process holds at each `pc` (an appender holds an
  event and no copy, a compactor a copy and no events); `TypeOK` alone is not inductive.
- `AckedAreDurable`, `StoreRefinesHistory` assume `MaxTears = 0`. `DurInv` says that the file is a
  sequence of whole events, and that the durable events are in it and in every copy about to be put
  back; the refinement has one step per action, each a step of `CaseHistory` or a stutter.
- `CopiesAreBounded` assumes `MaxTears = 0`. `CopyInv` counts with the copies in the log, and in every
  copy a compaction holds, the processes that have the event still to write: together they are at most the
  calls it was handed to. A compaction that put its copy after the log, instead of in its place, would
  break it. Appending does not look for duplicates, so a retried batch does leave some: that they are
  harmless is `RetriesAreHarmless` below.
- `TornTailIsHarmless`, `SilentLossIsBounded`, `CorruptionIsPermanent` assume `Compactors = {}`.
  `TornInv` locates every event that was written: in the replay, or in the one malformed last line.

The two assumptions exclude each other's hazard: a compaction after a torn write puts back what the
replay returned, which is the loss `store_torn_loss` shows.

`DueDateResolver_proofs`, for any procedure, circular or not, any order and record:

- `RecursionFollowsAPath` from `PathInv`: the activations are a path through the anchors without
  repetition.
- `DueDatesAreSolved` and `SettledMemoIsStable` from `MemoInv`: every memo entry of a rule that
  involves no circular reference solves its deadline's equation over the memo, every activation has
  collected the dates of the anchors it has passed, and the circle check is never met by such a rule
  (`CycleIsCircular`: the activations between the two occurrences are a circular set).
- `DatesHaveFacts` from `GuessInv`: of a set of rules none of which has a fact of its own and all of whose
  anchors are in the set, nothing is ever known. The property is about the union of these sets.
- `TypesArePreserved` and `BusinessDaysAreCounted` from `TypeInv`, which adds to `MemoInv` that an entry of
  a relative deadline is what the deadline says, or nothing. What `addDays`' loop counts is
  `BusinessDaysAdded` of `EventLog_proofs`: the loop reaches the first day with so many business days
  behind it, which exists because closures are finitely many.
- `DisagreementsAreReported`: the entries of rules that involve no circular reference solve their
  equations, so two of them with one deadline have one date. Two rules with one deadline have the same
  anchors, so both involve a circle or neither does (`SettledTogether`). Dates of which one is such an
  entry therefore differ only where the deadlines do, and then `detectConflicts` has the pair. Section 3
  shows why the pairs of circular ones are excluded.
- `TwinsDatesAreComputed` joins the resolver to the twin: without circles the equations have one solution
  (of two, the obligations they differ on would each be anchored on one of themselves), and the report
  is one; so neither the order of the obligations nor the memo shows in it.

`Conformance_proofs`, for any rule, closures and log: `FindingsAreFinal`,
`RecordingOrderIsIrrelevant` and `LeadTimesAreCounted`. The log is a sequence of dated events, so every
type that was recorded has one first event (`FirstsExist`, `FirstIsUnique`); an event appended in
chronological order (`LateEventsMoveNothing`) and an exchange of two neighbours (`ExchangeMovesNothing`)
then leave the first instants that matter where they were.

`CaseForecast_proofs`, for any compilation with unique ids and no circular anchors (section 6.2), any
events and instants:

- `DueDatesOnlyMoveUp` and `StatusesAdvance`. Whatever was recorded, late or not, the first occurrence of
  a type only moves to an earlier instant (`StepsAreEarlier`); `addDays` is monotone and so is the least
  of several dates, so along anchors that lead to no `latest` the due dates only move earlier
  (`DueDatesEarlier`: a set of counterexamples would hold one that is anchored on none of them).
- `ForecastsComeTrue`: the list a forecast orders by date (`All`) holds the facts of the log and the
  scenario, and a case depends on the facts of its log and not on their order, unless two facts of one
  type share an instant (`SameFactsSameCase`, `NoTiesNoOrder`).
- `NothingNewIsOnlyMissed` and `WarningsAreComplete` from `FIInv`: the forecast that was made is the one of
  the case that was.

`RecourseTrace_proofs`, for any such compilation, any log and scenarios:

- `AdviceNeverGates`: a case state depends on the procedure's binding obligations and grounds only.
- `SummaryIsComplete`: every kind of deviation has its line.
- `ForecastsNameTheGap`: the two derivations of what is missing select the same obligations and exceptions.
- `TracesSettle`: a fact that comes after all others is the first of its type or changes no first.
- `TracesAreReproducible`: an exchange of neighbours with different instants or types leaves every first
  event where it was, the orderings of the list and of the simulated logs included.
- `RetriesAreHarmless`: a log followed by its own tail, as a retried batch leaves it, has the same facts and
  the same first event of every type and obligation (`FirstOfJoined`); a trace depends on no more
  (`SameFactsSameTrace`), but for the list of facts itself.

`AuthorityResolver_proofs`, for any sources, scopes and lineage:

- `ReplacedStayRetired`, `TimeMovesOnEffectiveDates`: a resolution looks at the instant only through
  `Retired`, to which a replacement adds the old document for good on its effective date.
- `ValidationOrderDoesNotMatter`: an exchange of two claims carries the records of each document over one
  to one (`ExchangedRecords`), and replacements commute.
- `AuthorityIsATree`: the walk up from a document never repeats one unless it is in a circle, so in as many
  steps as there are candidates it is at the top or in a circle (`ChainReachesTheTop`, by counting what
  it has passed); the converse takes the documents the walk passes for the closed set.

`CaseAnalysis_proofs`, for any documents, extractors, claims and changes:

- A resolved quote occurs once (`ResolvedIsUnique`), its warrant passes the check for warrants of unknown
  origin (`ResolvedIsVerified`), and what passes that check is verbatim (`VerifiedIsVerbatim`).
- `SpecClaimsAreWarranted`, `SpecLostQuotesMarked`, `SpecUnchangedIsReproducible`, `SpecPinnedRulesAgree`.
  The inductive invariant is that the claims of a trace are what the texts it pins compile to, and that a
  drift check touches pinned sources only; the properties alone are not inductive, since nothing in them
  says where the compilation came from. On it rest one lemma per stage (what a validated claim went
  through) and locality: a claim is judged by the text of its own source only (`RawIsLocal`).
- `SpecForceIsQuoted` from `SupportIsSaid`, which says of every text what the gate's verdict on it means.
  A list of phrases is found exactly where the text, as the lists before it left it, says one of them
  (`DrainFinds`). What is left has lost words, so phrases can come to stand there that nobody wrote; the
  lemmas `WordStays` and `PairStays` say what cannot be lost: a word that is in no earlier phrase, and
  two neighbours neither of which can be taken without the other. Advice is made of these
  (`WordOfAdviceIsFound`, `AdviceAgainstIsFound`, `PermissionIsFound`). "may" stands in "may not" and "may
  only", so it counts as advice before any other word that begins no phrase that binds
  (`PermissionsApart`). Advice of several words ("at its discretion"), and "may" before "is", "must" or
  the like, is left out of the second conjunct. A phrase that binds can be found without having been said only
  after a discouragement was taken out from between its words, which is `Fused`. A text says a phrase
  without a full stop in it exactly when one of its sentences does (`SomeSentenceSays`).

### 6.2 What they assume

The `ASSUME`s, which TLC evaluates on every instance:

- deadlines are as `validation/ruleValidator.ts:59-95` leaves them (`ValidDeadline`), lead times are
  positive (`conformance/conformanceValidator.ts`). Amounts are whole. The validator accepts fractions of a
  day, which `addDays` rounds: up to the next business day, down to whole calendar days, so a whole
  amount, 0 included, stands for each; `BusinessDaysCounted` then speaks of the rounded amount. It does not
  look at the unit either (`addDays` takes all but calendar days for business days), nor at the datetime of
  an absolute deadline, nor for a type that is none of the four: that the last two are as
  `types/policy.ts` declares them is an assumption;
- the closures are a finite set of days: a policy lists them. With closures on every day `addDays` would
  not return;
- in the twin, and only there, the ids of rules are unique and no obligations are anchored on one another
  in a circle (`TwinAssumption`, `AnchorsAssumption`). The code checks neither; what it does with circles is
  the subject of `DueDateResolver`, which assumes nothing about them. Every theorem about the twin, the
  forecast and the trace rests on these two: of a case with a circle or with two rules of one id they say
  nothing;
- the scenarios a trace is asked for are scenarios (`AskedAssumption`); quotes are texts and sources known
  (`AnalysisAssumption`); claims name distinct sources and there are finitely many of them
  (`AuthorityAssumption`).

### 6.3 Induction and recursion

The induction theorems of the library quantify over operators, which the installed provers cannot
instantiate. `Induction` of `EventLog_proofs` quantifies over a set instead, and is derived from the
well-foundedness of the finite subsets (of the intervals up to the members of a set of numbers, one is
the least); it is repeated in the two modules that share no component with that one. A recursive function
`f[x \in S] == e` is a `CHOOSE`, of which nothing is known until some function is shown to solve the
equation: by induction on the domain for `Chain`, `Walk` and `Drain` (`ChainExists`, `WalkExists`,
`DrainSteps`), and for due dates along the anchors, of which every set of rules has one that is anchored on
none of the set (`SolutionExists`, from the union of the partial solutions). For this the loops of two
variables are functions of a pair (`Walk`), and no module uses `RECURSIVE`.

### 6.4 Left to TLC

`Terminates` (liveness under fairness, and `ENABLED`), and the four runs that expect a violation.

## 7. Plan

The parts of the engine that carry its logic are modelled. What would add to them, in order of
importance:

1. The product of the two halves of `analyzeCase` in one state space: findings and due dates that a
   changed document makes stale, so that drift speaks of conclusions and not only of claims. Today the
   compilation is the output of `CaseAnalysis` and an input of `RecourseTrace`.
2. The event store under the event log, so that a replay after a crash feeds the twin.
3. Circular references in the twin: it excludes them today, and `DueDateResolver` alone shows what the
   code does with them. A twin with the resolver's memo in place of `DueDates` would say which statuses
   then depend on the order of the obligations.

## 8. Not modelled

- `fsync` and power loss (the store does not call it), the creation of the case directory, temporary
  files a dead compaction leaves behind.
- Hashes: a hash stands for what it hashes. A supplied artifact comes with its `contentHash`, which
  `analyzeCase` does not recompute: one whose hash is not that of its text is outside the model. Redirects, content types and headers of a document.
- `normalize` of `validation/deonticSupport.ts` (case, tags, entities) and the bullets and line breaks
  that divide sentences like a full stop. The code cuts at a terminator only before white space
  (`deonticSupport.ts:190`): a terminator here is one that is followed by some. A word is never taken apart.
- Field-by-field shape and provenance checks: one predicate of a claim. Of a scenario (`forecast.ts:129-178`)
  the model checks that a scenario without new events has none and that the ids of its events are new and
  distinct, not that its id, instant, kind and fields are there.
- The wording of traces, reasons and drift reports, the clipping of long quotes, the boundary statement.
- The command line (`cli/index.ts`, `traceCase.ts`): reads a file, calls one function, prints. The last
  line of `cli/index.ts`, and of `bench/capture.ts` and `bench/runner.ts`, also holds an encoded string
  that is passed to `eval`; nothing in the documents describes it, and it is neither run nor modelled
  here. It deserves a look before anybody runs these files.
- Reading fixtures and printing in `cli/evaluate.ts` and `cli/resolveCase.ts`.
- The case states of `STATE_MACHINE.md`, the skills, routines and schemas: no code implements them.
- Types, benchmark runner, fixtures.
