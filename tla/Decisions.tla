------------------------------- MODULE Decisions -------------------------------
(***************************************************************************)
(* What the single-pass correctives make of a model's answer before they   *)
(* return it: decide ranks and calibrates, elicit puts parallel arrays     *)
(* together over what recall gives it, unstick recovers a dropped argument *)
(* and refuses a restatement, and check judges a translation and the       *)
(* solver's reading of it.                                                 *)
(*                                                                         *)
(* A text is a sequence of characters: letters, each in either case, " "   *)
(* for white space, "." for punctuation, and "||" for unstick's marker.    *)
(***************************************************************************)
EXTENDS Naturals, Integers, FiniteSets, Sequences, SequencesExt, Sorting, Ranking

CONSTANTS
    ScoreMax,       \* 100, the scale of decide
    RecallWide,     \* RECALL_WIDE
    ElicitLimit,    \* RECALL_LIMIT of elicit.rs
    TextMax         \* EXPRESSION_MAX_CHARS and SMTLIB_MAX_CHARS

ASSUME DecisionsAssumption ==
    /\ ScoreMax \in Nat \ {0} /\ RecallWide \in 1..RecallLimitMax
    /\ ElicitLimit \in Nat /\ TextMax \in Nat

Failure == [ok |-> FALSE]
Success(value) == [ok |-> TRUE, value |-> value]

Blank(text) == \A k \in DOMAIN text : text[k] = " "

(* trim                                                                     *)
Trimmed(text) ==
    LET solid == {k \in DOMAIN text : text[k] # " "}
    IN  IF solid = {} THEN <<>>
        ELSE SubSeq(text, CHOOSE k \in solid : \A l \in solid : k <= l,
                          CHOOSE k \in solid : \A l \in solid : k >= l)

(* DecideParams::normalize: the options, or the lines of their text that    *)
(* are not blank.                                                           *)
OptionsOf(options, lines) ==
    IF options # <<>> THEN options
    ELSE LET solid == SelectSeq(lines, LAMBDA l : ~Blank(l)) IN [k \in DOMAIN solid |-> Trimmed(solid[k])]

(* Defect: the last of the best wins, as max_by_key would have it.          *)
ByScoreLast(scores) ==
    LET places == Reverse([k \in DOMAIN scores |-> k]) IN StableDescending(places, LAMBDA k : scores[k])

ByScore(scores) ==
    LET places == [k \in DOMAIN scores |-> k] IN StableDescending(places, LAMBDA k : scores[k])

(* decide's assemble, over n options: the places recommended and second,    *)
(* and the confidence as a fraction.                                        *)
Decide(n, pass) ==
    IF \/ Len(pass.scores) # n \/ pass.rationales # n
       \/ \A k \in DOMAIN pass.factors : Blank(pass.factors[k])
       \/ \E k \in DOMAIN pass.scores : pass.scores[k] \notin 0..ScoreMax
    THEN Failure
    ELSE LET order == ByScore(pass.scores)
             margin == pass.scores[order[1]] - pass.scores[order[2]]
         IN  Success([recommended |-> order[1], second |-> order[2],
                      confidence |-> <<ScoreMax + margin, 2 * ScoreMax>>])

(* recalled_preferences: a wide recall, what is trusted of it, then the cap. *)
RecalledPreferences(ms) ==
    Shortened(SelectSeq(Recall(ms, "any", RecallWide), LAMBDA m : m.trusted), ElicitLimit)

Paired(a, b) == [k \in 1..(IF Len(a) < Len(b) THEN Len(a) ELSE Len(b)) |-> <<a[k], b[k]>>]

(* elicit's assemble.                                                       *)
Elicit(pass) ==
    IF \/ Len(pass.signals) # Len(pass.texts) \/ Len(pass.strengths) # Len(pass.texts)
       \/ Len(pass.conflicts) # Len(pass.questions)
       \/ \E k \in DOMAIN pass.strengths : pass.strengths[k] \notin {"revealed", "stated"}
    THEN Failure
    ELSE Success([preferences |-> Paired(Paired(pass.texts, pass.signals), pass.strengths),
                  divergences |-> Paired(pass.questions, pass.conflicts)])

(* UnstickParams::normalize: the blocker a client put behind a marker.      *)
Marks(text) == {k \in DOMAIN text : text[k] = "||"}

Recovered(goal, blocked) ==
    IF Marks(goal) = {} THEN [goal |-> goal, blocked |-> blocked]
    ELSE LET first == CHOOSE k \in Marks(goal) : \A l \in Marks(goal) : k <= l
             tail == SubSeq(goal, first + 1, Len(goal))
             end == IF Marks(tail) = {} THEN Len(tail)
                    ELSE (CHOOSE k \in Marks(tail) : \A l \in Marks(tail) : k <= l) - 1
         IN  [goal |-> Trimmed(SubSeq(goal, 1, first - 1)),
              blocked |-> IF Blank(blocked) THEN Trimmed(SubSeq(tail, 1, end)) ELSE blocked]

(* unstick's normalize: letters in one case, in words.                      *)
Lower(c) == CASE c = "A" -> "a" [] c = "B" -> "b" [] OTHER -> c
Words(text) ==
    LET heard == SelectSeq([k \in DOMAIN text |-> Lower(text[k])], LAMBDA c : c # ".")
        spaced(k) == heard[k] = " " /\ (k = 1 \/ k = Len(heard) \/ heard[k - 1] = " ")
        kept == {k \in DOMAIN heard : ~spaced(k)}
        seq == [i \in 1..Cardinality(kept) |->
                    heard[CHOOSE k \in kept : Cardinality({l \in kept : l < k}) = i - 1]]
    IN  Trimmed(seq)

Restates(step, tried) ==
    \E k \in DOMAIN tried : ~Blank(tried[k]) /\ Words(tried[k]) = Words(step)

Unstick(step, tried) == IF Blank(step) \/ Restates(step, tried) THEN Failure ELSE Success(step)

(* count_asserts: the forms of a script that read as assertions.            *)
Asserting == {"(assert", "( assert"}
CountAsserts(script) == Cardinality({k \in DOMAIN script : script[k].head \in Asserting})

Forbidden == {";", "(check-sat", "(push", "(pop", "(reset", "(set-option", "(assert-soft"}

(* cross_field_validate.  A script is a sequence of forms, of one length.   *)
Translation(out) ==
    CASE ~out.checkable -> IF Blank(out.reason) THEN Failure ELSE Success("not_checkable")
      [] out.checkable /\ out.engine = "arithmetic" ->
            IF Blank(out.expression) \/ Len(Trimmed(out.expression)) > TextMax THEN Failure
            ELSE Success("arithmetic")
      [] out.checkable /\ out.engine = "constraints" ->
            IF \/ out.script = <<>> \/ Len(out.script) > TextMax \/ CountAsserts(out.script) = 0
               \/ \E k \in DOMAIN out.script : out.script[k].head \in Forbidden
               \/ out.asserted \notin {"satisfiable", "unsatisfiable"}
            THEN Failure ELSE Success("constraints")
      [] OTHER -> Failure

(* Z3 takes the assertions up to the first form it cannot read, and of      *)
(* those the ones after the last reset: a form with white space after its   *)
(* parenthesis is none of the Forbidden texts.                              *)
Accepted(script) ==
    LET Readable(k) == \A l \in 1..k : script[l].sound
        Kept(k) == \A l \in DOMAIN script : l > k /\ Readable(l) => script[l].head # "( reset"
    IN  {k \in DOMAIN script : script[k].head \in Asserting /\ Readable(k) /\ Kept(k)}

(* check: the solver decides only a script whose assertions were all        *)
(* accepted.                                                                *)
Solves(script) == CountAsserts(script) > 0 /\ Cardinality(Accepted(script)) >= CountAsserts(script)
================================================================================
