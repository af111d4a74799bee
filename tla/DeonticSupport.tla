--------------------------- MODULE DeonticSupport ---------------------------
(***************************************************************************)
(* Whether the words of a verified quotation support the force a rule      *)
(* claims (validation/deonticSupport.ts): phrases are drained from each    *)
(* sentence, longer and prohibitive ones first, and the kinds of phrase    *)
(* found decide its modality.  The words are as normalize leaves them: in  *)
(* lower case, without tags and entities.                                  *)
(***************************************************************************)
EXTENDS Integers, SequencesExt, WarrantSpans

Terminators == {".", ";", ":", "!", "?"}

Restrictive ==
  <<<<"may", "only">>, <<"shall", "only">>, <<"must", "only">>, <<"will", "only", "be">>,
    <<"only", "if">>, <<"only", "where">>, <<"only", "be", "considered", "if">>>>

BindingNegative ==
  <<<<"must", "not">>, <<"must", "never">>, <<"shall", "not">>, <<"shall", "never">>,
    <<"may", "not">>, <<"is", "prohibited">>, <<"are", "prohibited">>,
    <<"is", "not", "permitted">>, <<"are", "not", "permitted">>>>

AdvisoryNegative == <<<<"should", "not">>, <<"is", "discouraged">>, <<"are", "discouraged">>>>

BindingPositive ==
  <<<<"must">>, <<"shall">>, <<"is", "required", "to">>, <<"are", "required", "to">>,
    <<"is", "required">>, <<"are", "required">>, <<"required", "to">>,
    <<"is", "obligated", "to">>, <<"are", "obligated", "to">>>>

Advisory ==
  <<<<"should">>, <<"may">>, <<"normally">>, <<"ordinarily">>, <<"typically">>, <<"usually">>,
    <<"generally">>, <<"encouraged">>, <<"encourages">>, <<"recommended">>, <<"recommends">>,
    <<"is", "advised">>, <<"are", "advised">>, <<"suggested">>, <<"preferably">>,
    <<"where", "possible">>, <<"if", "possible">>, <<"at", "their", "discretion">>,
    <<"at", "its", "discretion">>>>

BindingModality == {"BINDING_POSITIVE", "BINDING_NEGATIVE", "BINDING_RESTRICTIVE"}
BindingForce == {"MUST", "MUST_NOT", "SHALL", "SHALL_NOT"}

-----------------------------------------------------------------------------
\* toSentences: the text is cut after every terminator that a space follows; one
\* inside a word is no terminator here.  A bullet or a line break cuts likewise.
Sentences(text) ==
  LET ends == {i \in DOMAIN text : text[i] \in Terminators}
      cuts == {cut \in ({0} \cup ends) \X (ends \cup {Len(text)}) :
                 cut[1] < cut[2] /\ ends \cap (cut[1] + 1) .. (cut[2] - 1) = {}}
  IN {Slice(text, cut[1], cut[2]) : cut \in cuts}

\* Every occurrence of a phrase gives way to a space: the words around it are
\* neighbours from then on.
DrainPhrase(state, phrase) ==
  LET at     == FindAllOccurrences(state.text, phrase)
      kept   == {i \in DOMAIN state.text : \A j \in at : i \notin j + 1 .. j + Len(phrase)}
      Nth(n) == CHOOSE i \in kept : Cardinality({k \in kept : k < i}) = n - 1
  IN IF at = {} THEN state
     ELSE [text |-> [n \in 1..Cardinality(kept) |-> state.text[Nth(n)]], found |-> TRUE]

Drain(text, phrases) ==
  LET drained[n \in 0..Len(phrases)] ==
        IF n = 0 THEN [text |-> text, found |-> FALSE]
        ELSE DrainPhrase(drained[n - 1], phrases[n])
  IN drained[Len(phrases)]

\* The kinds of phrase found decide.
Modality(restrictive, negative, positive, advisory) ==
  IF advisory THEN IF restrictive \/ negative \/ positive THEN "MIXED" ELSE "ADVISORY"
  ELSE IF restrictive THEN "BINDING_RESTRICTIVE"
  ELSE IF negative THEN IF positive THEN "MIXED" ELSE "BINDING_NEGATIVE"
  ELSE IF positive THEN "BINDING_POSITIVE" ELSE "NONE"

\* Mutant: affirmative phrases are drained before the prohibitive ones that
\* contain them.
ClassifyAffirmativeFirst(sentence) ==
  LET restrictive == Drain(sentence, Restrictive)
      positive    == Drain(restrictive.text, BindingPositive)
      negative    == Drain(positive.text, BindingNegative)
      discouraged == Drain(negative.text, AdvisoryNegative)
      advisory    == Drain(discouraged.text, Advisory)
  IN Modality(restrictive.found, negative.found, positive.found,
              discouraged.found \/ advisory.found)

ClassifySentence(sentence) ==
  LET restrictive == Drain(sentence, Restrictive)
      negative    == Drain(restrictive.text, BindingNegative)
      discouraged == Drain(negative.text, AdvisoryNegative)
      positive    == Drain(discouraged.text, BindingPositive)
      advisory    == Drain(positive.text, Advisory)
  IN Modality(restrictive.found, negative.found, positive.found,
              discouraged.found \/ advisory.found)

ClassifySpan(text) == {ClassifySentence(sentence) : sentence \in Sentences(text)}

SupportsForce(force, modality) ==
  \/ modality = "BINDING_RESTRICTIVE"
  \/ modality = IF force \in {"MUST_NOT", "SHALL_NOT"} THEN "BINDING_NEGATIVE"
                                                       ELSE "BINDING_POSITIVE"

\* An advisory span is not lifted by a binding sentence quoted from elsewhere.
CheckDeonticSupport(force, spans) ==
  LET classified  == {ClassifySpan(span) : span \in spans}
      OnlyAdvises(modalities) == "ADVISORY" \in modalities /\ modalities \cap BindingModality = {}
  IN IF force \notin BindingForce THEN "supported"
     ELSE IF \E modalities \in classified : OnlyAdvises(modalities) THEN "contradicted"
     ELSE IF \E m \in UNION classified : SupportsForce(force, m) THEN "supported"
     ELSE "unsupported"
=============================================================================
