----------------------------- MODULE MCAlgorithms -----------------------------
(***************************************************************************)
(* Two actions with one volatile field each over transcripts of five lines *)
(* and thresholds of two, so that a streak, its reset, its ageing out and  *)
(* a read that starts inside it all fit; a tree of four files, one too     *)
(* large and one not text, under ceilings two units reach; pages of five   *)
(* paragraphs; schemas of two properties; stores of three memories;        *)
(* fan-outs of three responses under a saturation two of them reach;       *)
(* windows of three entries whose statements oppose the final message in   *)
(* more pairs than the cap; three options scored on and off a scale of     *)
(* three; scripts of four forms; texts of four characters; patterns of     *)
(* three tokens over paths of three characters; two rows, with counts on   *)
(* both sides of the largest signed one; prompts given three words under a *)
(* bound of two; requests on both sides of each limit; three hits of two   *)
(* pages spelled in several ways; answers of five characters over two     *)
(* sources; five claims and gaps under a cap of three; and sources of two  *)
(* reads besides the standing ones, with documents of two statements.      *)
(***************************************************************************)
EXTENDS GroundedEvidence

File(lines, text) == [lines |-> lines, text |-> text]
MCTree == <<File(<<2, 0, 1>>, TRUE), File(<<3, 0>>, TRUE), File(<<9, 9>>, TRUE), File(<<1>>, FALSE)>>

Locator(path, glob, range) == [path |-> path, glob |-> glob, range |-> range]
MCLocators ==
    {Locator({p}, {}, r) : p \in 1..5, r \in {Whole}}
    \cup {Locator({1}, {}, r) : r \in {<<1, 1>>, <<3, 3>>, <<2, 2>>, <<2, 7>>, <<3, 2>>, <<4, 5>>}}
    \cup {Locator({}, {1, 2}, Whole), Locator({}, {5}, Whole), Locator({}, {1}, <<1, 2>>),
          Locator({1}, {1}, Whole), Locator({}, {}, Whole)}

MCParagraphs == [chars : {1, 2, 4, 7}, shared : 0..1]

Scalar(vs) == {"scalar"} \X vs
MCScalars == Scalar(1..3)
MCNames == <<"first", "second">>
MCProps ==
    [type : {"enum"}, values : {Scalar({1}), Scalar({1, 2})}, oneOf : BOOLEAN]
    \cup [type : {"number"}, bounds : {Scalar({1, 2}), MCScalars}]
    \cup [type : {"array"}, least : 0..2, most : {2, 3}]
    \cup {[type |-> "object"]}

MCStored ==
    {[id |-> i, relevance |-> r, recency |-> d, trusted |-> t, kind |-> k, active |-> a] :
        i \in 1..3, r \in {90, 94, 97}, d \in {0, 2}, t \in BOOLEAN, k \in {"fact"}, a \in {TRUE}}
    \cup {[id |-> i, relevance |-> 97, recency |-> 2, trusted |-> TRUE, kind |-> k, active |-> a] :
        i \in 1..3, k \in {"fact", "lesson"}, a \in BOOLEAN}

Statement(words, cues, long) == [words |-> words, cues |-> cues, long |-> long]
Plan == Statement({1, 2, 3}, {}, TRUE)
Not == Statement({1, 2, 3}, {"not"}, TRUE)
Other == Statement({2, 3, 4}, {"instead"}, TRUE)
Brief == Statement({1}, {"not"}, FALSE)

MCEntries ==
    [type : {"assistant"}, says : {<<Plan>>, <<Not>>, <<Other, Plan>>, <<Brief>>}]
    \cup [type : {"call"}, tool : {"shell"}, failed : BOOLEAN]

MCFinals == {<<Not>>, <<Plan, Not>>, <<Brief>>}

Recalled(id, says, score, kind, trusted, active) ==
    [id |-> id, says |-> says, score |-> score, kind |-> kind, trusted |-> trusted, active |-> active]
MCRemembered ==
    {<<>>,
     <<Recalled(1, Plan, 50, "fact", TRUE, TRUE), Recalled(2, Other, 60, "lesson", TRUE, TRUE)>>,
     <<Recalled(1, Other, 60, "fact", TRUE, TRUE), Recalled(2, Plan, 60, "fact", TRUE, TRUE),
       Recalled(3, Not, 70, "skill", TRUE, TRUE)>>,
     <<Recalled(1, Plan, 70, "fact", FALSE, TRUE), Recalled(2, Plan, 70, "fact", TRUE, FALSE),
       Recalled(3, Plan, 40, "fact", TRUE, TRUE)>>}

Char(c) == [type |-> "char", is |-> c]
Group(type, alts) == [type |-> type, alts |-> alts]
MCGlobTokens ==
    {Char("a"), Char(Slash), [type |-> "?"], [type |-> "class", chars |-> {"b"}],
     [type |-> "*"], [type |-> "**"], [type |-> "**/"],
     Group("!()", <<<<Char("a")>>>>), Group("!()", <<<<Char("a"), Char("b")>>, <<Char("b")>>>>),
     Group("!()", <<<<Char("a"), [type |-> "*"]>>>>),
     Group("+()", <<<<Char("a")>>, <<Char("b"), Char("a")>>>>), Group("*()", <<<<Char("b")>>>>),
     Group("?()", <<<<Char("a")>>>>), Group("{}", <<<<Char("a")>>, <<>>>>),
     Group("@()", <<<<Char("b"), Char("a")>>, <<Char("b")>>>>)}

Invocation(usage, latency) ==
    LET r == Recorded(usage, 2)
    IN  [model |-> r.model, in |-> r.in, out |-> r.out, models |-> r.models, estimated |-> r.estimated,
         latency |-> latency, outcome |-> "success", at |-> 1, usage |-> usage]

Rest(table, record) == [table |-> table, record |-> record]
MCWrites ==
    {Rest("invocations", Invocation(u, 1)) :
        u \in UNION {[d -> [in : {0, 2}, out : {1}]] : d \in SUBSET {2, 3}}}
    \cup {Rest("invocations", Invocation(NoUsage, 5))}
    \cup {Rest("pushes", p) :
            p \in [surfaced_ids : {{}, {1}}, latency_ms : {1, 3}, fail_open : {TRUE},
                   input_tokens : {1}, created_at : {1}]}
    \cup {Rest("checkpoints", c) :
            c \in [boundary : {"turn"}, verdict : {"flag"}, signals_evaluated : {{"repetition"}},
                   signals_fired : {{}}, delivered_keys : {{}, {1}}, latency_ms : {2}, created_at : {1}]}
    \cup {Rest("memories",
               [embedding |-> <<1, 2>>, kind |-> "fact", trust |-> "verified", tags |-> {}, created_at |-> 1,
                status |-> "merged", replaced_by |-> 2, last_reinforced_at |-> 2]),
          Rest("consolidations", [action |-> "merge", source_id |-> 1, target_id |-> 2, created_at |-> 1])}

Constant(value, readable) == [value |-> value, readable |-> readable]
MCDeclared ==
    <<[K |-> Constant(1, TRUE), U |-> Constant(1, FALSE), D |-> Constant(2, TRUE)],
      [D |-> Constant(1, TRUE), U |-> Constant(2, TRUE)],
      [Q |-> Constant(1, TRUE)]>>

Reading(name, form, default) == [name |-> name, form |-> form, commented |-> FALSE, default |-> default]
Literal(n) == [shape |-> "literal", value |-> n]
Named(c, f, qualified) == [shape |-> "constant", constant |-> c, file |-> f, qualified |-> qualified]
NoDefault == [shape |-> "none"]

MCStanding == <<Reading("ALIAS", "parse_env", Literal(2)), Reading("FIXTURE", "parse_env", Literal(2))>>
MCReads ==
    {Reading("A", f, Literal(1)) : f \in {"parse_env", "unwrap_or_else", "unwrap_or"}}
    \cup {Reading("A", "parse_env", d) :
            d \in {Named("K", 1, FALSE), Named("U", 1, FALSE), Named("D", 1, FALSE), Named("D", 2, TRUE),
                  Named("Q", 3, FALSE), [shape |-> "expression", value |-> 1]}}
    \cup {Reading("A", f, d) : f \in {"gate", "other"}, d \in {NoDefault, Literal(1)}}
    \cup {Reading("B", "parse_env", Literal(2)), Reading("B", "gate", NoDefault),
          [Reading("B", "parse_env", Literal(2)) EXCEPT !.commented = TRUE],
          Reading("FIXTURE", "parse_env", Literal(1))}

(* A note states nothing and mentions B.                                    *)
MCStatements == [name : {"A"}, value : 0..2] \cup [name : {"B"}, value : {0, 2}] \cup [name : {"NOTE"}, value : {0}]
MCMentions == [A |-> {"A"}, B |-> {"B"}, NOTE |-> {"NOTE", "B"}]
MCHelpLines ==
    [type : {"blank", "header"}, marker : {0}] \cup [type : {"more"}, marker : 0..2]
    \cup [type : {"entry"}, name : {"A", "B"}, marker : 0..1]

Request(question, focus, sources, domains) ==
    {[depth |-> d, question |-> question, focus |-> focus, sources |-> s, budget |-> b, deadline |-> t,
      concurrency |-> c, allowed |-> domains, denied |-> 0] :
        d \in {<<>>, <<"quick">>, <<"standard">>, <<"deep">>}, s \in sources, b \in {<<>>, <<999>>, <<1000>>},
        t \in {<<>>, <<4999>>, <<5000>>}, c \in {<<>>, <<0>>, <<1>>, <<9>>}}
MCRequests ==
    Request("fine", <<"fine">>, {<<>>, <<0>>, <<1>>, <<60>>, <<61>>}, 32)
    \cup UNION {Request(q, f, {<<>>}, n) : q \in {"fine", "blank", "long"}, f \in {<<"long">>, <<>>}, n \in {0, 33}}

MCHits ==
    [scheme : {"https", "HTTPS"}, host : {<<"a", "org">>, <<"docs", "a", "org">>}, shouted : BOOLEAN,
     path : {"p"}, tail : {""}]
    \cup [scheme : {"none"}, host : {<<"a", "org">>}, shouted : {FALSE}, path : {"p"}, tail : {"", "#f"}]

MCDomains == {<<"org">>, <<"docs", "a", "org">>}
MCFetched == {<<"1">>, <<"1", "2">>}

Claim(support, confidence, sources) == [support |-> support, confidence |-> confidence, sources |-> sources]
MCVerified ==
    {Claim("confirmed", 90, <<1, 2>>), Claim("contested", 40, <<2>>), Claim("refuted", 70, <<3>>)}
MCGaps == {Gap("gap", 0, 1), Gap("gap", 1, 9), Gap("gap", 2, 1), Gap("gap", 3, 1)}

MCHosts == {<<"a", "com">>, <<"a", "org">>, <<"a", "gov", "uk">>, <<"org", "com">>}

(* Actions are compared with one another and nothing else.                  *)
ActionsAlike == Permutations(Actions)

MCMaxItems ==
    [transcript |-> 5, turn |-> 3, locators |-> 3, pattern |-> 3, page |-> 5, schema |-> 2,
     scores |-> 3, inference |-> 5, text |-> 4, script |-> 4, request |-> 1, hits |-> 3, answer |-> 5, outcome |-> 5, backing |-> 4,
     prompt |-> 3, help |-> 4,
     facts |-> 4, reads |-> 2, statements |-> 2, store |-> 3, meters |-> 3, rows |-> 2]
=============================================================================
