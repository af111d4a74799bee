--------------------------- MODULE MCCaseAnalysis ---------------------------
(* CaseAnalysis for TLC: a campus policy that governs a college page, and a *)
(* catalog of another institution captured before.                          *)
EXTENDS CaseAnalysis, TLC

CONSTANTS campus, college, catalog

MCScope(institution) ==
  [institution |-> institution, unit |-> NoUnit, studentType |-> AnyStudent,
   decisionTypes |-> {"grade_appeal"}, excludes |-> {}]
MCScopes == [s \in Source |-> MCScope(IF s = catalog THEN "elsewhere" ELSE "university")]
MCQuery == [institution |-> "university", decisionType |-> "grade_appeal",
            unit |-> NoUnit, studentType |-> AnyStudent]
MCEffective == [s \in Source |-> 1]
MCOrder == <<campus, college>>

(* What the documents say *)
Governs  == <<"this", "policy", "governs", "college", "pages">>
Appeals  == <<"appeals", "must", "be", "filed">>
Late     == <<"late", "appeals", "may", "only", "be", "heard", "if", "new">>
Normally == <<"replies", "normally", "take", "ten", "days">>
Reply    == <<"a", "reply", "must", "be", "given">>
NoVote   == <<"the", "chair", "must", "not", "vote">>
Notes    == <<"a", "vote", "is", "should", "not", "required">>
Waived   == <<"notice", "may", "be", "waived">>
Stop     == <<".">>

Page == Normally \o Stop \o Reply \o Stop \o NoVote \o Stop \o Notes \o Stop
MCText ==
  ("policy"     :> Governs \o Stop \o Appeals \o Stop \o Late \o Stop)
  @@ ("unlinked" :> Appeals \o Stop \o Late \o Stop)
  @@ ("page"     :> Page \o Waived \o Stop)
  @@ ("reprint"  :> Page \o Waived \o Stop)
  @@ ("repeated" :> Page \o Waived \o Stop \o Reply \o Stop)
  @@ ("prefaced" :> <<"revised">> \o Stop \o Page)
  @@ ("garbled"  :> Page)
  @@ ("catalog"  :> Appeals \o Stop)

MCDocuments == [s \in Source |->
  CASE s = campus  -> {"policy", "unlinked"}
    [] s = college -> {"page", "reprint", "repeated", "prefaced"}
    [] s = catalog -> {"catalog"}]

\* The second version of the extractor loses the last sentence of the page.
MCExtracted == [p \in {"policy", "unlinked", "page", "reprint", "repeated", "prefaced", "catalog"}
                      \X Extractors |->
  MCText[IF p = <<"page", 2>> THEN "garbled" ELSE p[1]]]

\* An old copy of the college page is at hand, and gives way to the acquired one.
MCSupplied == <<[source |-> catalog, raw |-> "catalog", text |-> MCText["catalog"]],
                [source |-> college, raw |-> "repeated", text |-> MCText["repeated"]]>>

(* What is claimed of them *)
MCClaim(id, source, quote) ==
  [id |-> id, source |-> source, quote |-> quote, claimType |-> "directly_stated",
   extra |-> NoQuote, extraType |-> "directly_stated", wellFormed |-> TRUE]

MCLineage ==
  <<MCClaim("edge", campus, Governs) @@ [type |-> "GOVERNS", to |-> college],
    [MCClaim("loop", campus, Governs) EXCEPT !.wellFormed = FALSE]
      @@ [type |-> "GOVERNS", to |-> campus]>>

MCRule(id, source, quote, force) == MCClaim(id, source, quote) @@ [force |-> force]

MCRuleClaims ==
  {MCRule("file", campus, Appeals, "MUST"),
   MCRule("late", campus, Late, "MUST_NOT"),
   MCRule("foreign", catalog, Appeals, "MUST"),
   [MCRule("guess", campus, Appeals, "MUST") EXCEPT !.claimType = "inferred"],
   MCRule("blank", campus, <<>>, "MAY"),
   MCRule("invented", campus, <<"appeals", "must", "be", "granted">>, "MUST"),
   [MCRule("incomplete", campus, Appeals, "MUST") EXCEPT !.wellFormed = FALSE],
   [MCRule("reply", college, <<"ten", "days">>, "MUST") EXCEPT !.extra = Reply],
   [MCRule("guessed force", college, <<"ten", "days">>, "MUST")
      EXCEPT !.extra = Reply, !.extraType = "inferred"],
   [MCRule("polite", college, Normally, "MUST") EXCEPT !.extra = Reply],
   [MCRule("waiver", college, Waived, "MUST") EXCEPT !.extra = Reply],
   [MCRule("notes", college, Notes, "MUST") EXCEPT !.extra = Reply],
   MCRule("adjacent", college, Normally \o Stop \o Reply, "MUST"),
   MCRule("custom", college, Normally, "NORMALLY"),
   MCRule("ban", college, NoVote, "MUST_NOT"),
   MCRule("twisted", college, NoVote, "MUST")}

MCConstraints ==
  {[MCClaim("notice", college, Reply) EXCEPT !.extra = Waived],
   [MCClaim("excused", college, Reply) EXCEPT !.extra = <<"notice", "is", "waived">>],
   [MCClaim("broken", college, Reply) EXCEPT !.wellFormed = FALSE]}
=============================================================================
