-------------------------------- MODULE Prompts --------------------------------
(***************************************************************************)
(* The prompts of the server's model calls.  A template is fixed text with *)
(* named slots, of which only the slots are kept, in order; a text is a    *)
(* sequence of tokens, one of which may be a slot's name as the template   *)
(* spells it.  The tools fill their slots in turn, each over the outcome   *)
(* of the ones before; translation, review and consolidation locate every  *)
(* slot in the template before they insert anything.                       *)
(***************************************************************************)
EXTENDS Naturals, FiniteSets, Sequences, SequencesExt, FiniteSetsExt

CONSTANT InputMax       \* INPUT_MAX_CHARS

ASSUME PromptsAssumption == InputMax \in Nat

Slot(name) == <<"slot", name>>
Word(name) == <<"word", name>>
Number(k) == <<"number", k>>
Space == Word(" ")

(* A call's prompt: its template, the slots in the order they are filled,   *)
(* whether all are located first, and those the server's own text fills.    *)
Prompting(template, fills, located, own) ==
    [template |-> [k \in DOMAIN template |-> Slot(template[k])], fills |-> fills,
     located |-> located, own |-> own]

InTurn(template, own) == Prompting(template, template, FALSE, own)
Located(template, own) == Prompting(template, template, TRUE, own)

VerifyPrompt == InTurn(<<"lens", "claim", "context">>, {"lens"})
DivergePrompt == InTurn(<<"lens", "problem", "context">>, {"lens"})
DecidePrompt == InTurn(<<"decision", "options", "context", "violation_clause">>, {"violation_clause"})
ElicitPrompt == InTurn(<<"task", "context", "preferences", "violation_clause">>, {"violation_clause"})
UnstickPrompt == InTurn(<<"goal", "blocked", "tried">>, {})
GroundedVerifyPrompt == InTurn(<<"claim", "evidence">>, {})

(* The research run's hops; its verification is verify's with a template    *)
(* that has no lens.                                                        *)
ScopePrompt == InTurn(<<"angles_max", "focus_clause", "question">>, {"angles_max"})
ExtractPrompt == InTurn(<<"title", "text">>, {})
ResearchVerifyPrompt == Prompting(<<"claim", "context">>, <<"lens", "claim", "context">>, FALSE, {"lens"})
SynthesizePrompt ==
    InTurn(<<"retry_clause", "question", "sub_questions", "findings", "refuted">>, {"retry_clause"})

TranslatePrompt ==
    Located(<<"decline_bias", "whitelist", "violation_clause", "claim", "context">>,
            {"decline_bias", "whitelist"})
ReviewPrompt == Located(<<"candidates", "preferences", "turn">>, {})
ConsolidatePrompt == Located(<<"existing", "new">>, {})

PromptFor ==
    [verify |-> VerifyPrompt, diverge |-> DivergePrompt, decide |-> DecidePrompt, elicit |-> ElicitPrompt,
     unstick |-> UnstickPrompt, grounded |-> GroundedVerifyPrompt, scope |-> ScopePrompt, extract |-> ExtractPrompt,
     research_verify |-> ResearchVerifyPrompt, synthesize |-> SynthesizePrompt, translate |-> TranslatePrompt,
     review |-> ReviewPrompt, consolidate |-> ConsolidatePrompt]

(* The slots that texts of a caller, a page, a store or a model reach.      *)
Foreign(mode) == ToSet(PromptFor[mode].fills) \ PromptFor[mode].own
-----------------------------------------------------------------------------
(* What a slot is given: the items of a list are numbered or marked each,   *)
(* and an absent list is said to be empty.                                  *)
Numbered(items) == FlattenSeq([k \in DOMAIN items |-> <<Number(k), items[k]>>])
Marked(items) == FlattenSeq([k \in DOMAIN items |-> <<Number(0), items[k]>>])
OrNone(items, listed) == IF items = <<>> THEN <<Word("none")>> ELSE listed

DecideGiven(slot, items) == IF slot = "options" THEN Numbered(items) ELSE items
ElicitGiven(slot, items) == IF slot = "preferences" THEN OrNone(items, Marked(items)) ELSE items
UnstickGiven(slot, items) == IF slot = "tried" THEN OrNone(items, Marked(items)) ELSE items
SynthesizeGiven(slot, items) ==
    CASE slot = "sub_questions" -> OrNone(items, Numbered(items))
      [] slot = "findings" -> Marked(items)
      [] slot = "refuted" -> OrNone(items, Marked(items))
      [] OTHER -> items
ReviewGiven(slot, items) == IF slot = "turn" THEN items ELSE OrNone(items, Numbered(items))

Given(mode, slot, items) ==
    IF slot \in PromptFor[mode].own THEN <<Word(slot)>>
    ELSE CASE mode = "decide" -> DecideGiven(slot, items)
           [] mode = "elicit" -> ElicitGiven(slot, items)
           [] mode = "unstick" -> UnstickGiven(slot, items)
           [] mode = "synthesize" -> SynthesizeGiven(slot, items)
           [] mode = "review" -> ReviewGiven(slot, items)
           [] mode = "translate" /\ slot = "context" -> OrNone(items, items)
           [] OTHER -> items
-----------------------------------------------------------------------------
(* str::replace: every occurrence of the slot in the text, in one pass.     *)
Replace(text, slot, value) ==
    FlattenSeq([k \in DOMAIN text |-> IF text[k] = Slot(slot) THEN value ELSE <<text[k]>>])

FillInTurn(template, fills, values) ==
    FoldLeft(LAMBDA text, slot : Replace(text, slot, values[slot]), template, fills)

(* Defect: one slot after the other, over what the others inserted.         *)
FillUnlocated(template, fills, values) == FillInTurn(template, fills, values)

(* fill: every slot is located in the template, before anything is inserted. *)
Fill(template, fills, values) ==
    FlattenSeq([k \in DOMAIN template |->
        IF template[k][2] \in ToSet(fills) THEN values[template[k][2]] ELSE <<template[k]>>])

PromptOf(prompt, values) ==
    IF prompt.located THEN Fill(prompt.template, prompt.fills, values)
    ELSE FillInTurn(prompt.template, prompt.fills, values)
-----------------------------------------------------------------------------
(* check_input: what must be said is, and what reaches the model fits.      *)
Says(texts, slot) == \E k \in DOMAIN texts[slot] : texts[slot][k] # Space
FitsTogether(texts, slots) == MapThenSumSet(LAMBDA s : Len(texts[s]), slots) <= InputMax

VerifyInput(texts) == Says(texts, "claim") /\ FitsTogether(texts, {"claim", "context"})
DivergeInput(texts) == Says(texts, "problem") /\ FitsTogether(texts, {"problem", "context"})
DecideInput(texts) ==
    /\ Says(texts, "decision") /\ Len(texts["options"]) >= 2
    /\ FitsTogether(texts, {"decision", "options", "context"})
ElicitInput(texts) == Says(texts, "task") /\ FitsTogether(texts, {"task", "context"})
UnstickInput(texts) ==
    Says(texts, "goal") /\ Says(texts, "blocked") /\ FitsTogether(texts, {"goal", "blocked", "tried"})
GroundedInput(texts) == Says(texts, "claim") /\ FitsTogether(texts, {"claim"})
CheckInput(texts) == Says(texts, "claim") /\ FitsTogether(texts, {"claim", "context"})

Accepts(mode, texts) ==
    CASE mode = "verify" -> VerifyInput(texts)
      [] mode = "diverge" -> DivergeInput(texts)
      [] mode = "decide" -> DecideInput(texts)
      [] mode = "elicit" -> ElicitInput(texts)
      [] mode = "unstick" -> UnstickInput(texts)
      [] mode = "grounded" -> GroundedInput(texts)
      [] mode = "translate" -> CheckInput(texts)
      [] OTHER -> TRUE
=============================================================================
