------------------------------- MODULE Outcomes -------------------------------
(***************************************************************************)
(* What a research run computes between its calls: the settings of a       *)
(* request, the plan it makes of the scope's answer, the candidates among  *)
(* the hits of its searches, the citations of an answer, and the figures   *)
(* it publishes.                                                           *)
(*                                                                         *)
(* A host is the sequence of its labels.  A figure is a fraction.  What a  *)
(* request leaves out is the empty sequence.                               *)
(***************************************************************************)
EXTENDS Decisions

CONSTANTS
    CitationSpan,   \* the excerpt of a malformed citation
    GapsMax,        \* MAX_GAPS
    GapCharsMax,    \* MAX_GAP_CHARS
    QuestionsMax    \* MAX_SUB_QUESTIONS

ASSUME OutcomesAssumption ==
    /\ CitationSpan \in Nat \ {0} /\ GapCharsMax \in Nat \ {0} /\ QuestionsMax \in Nat
    /\ GapsMax \in Nat /\ GapsMax > QuestionsMax

(* Depth::tier                                                              *)
Tier ==
    [quick    |-> [angles |-> 3, sources |-> 8, votes |-> 1, deadline |-> 120000, budget |-> 350000],
     standard |-> [angles |-> 5, sources |-> 25, votes |-> 2, deadline |-> 240000, budget |-> 1600000],
     deep     |-> [angles |-> 8, sources |-> 60, votes |-> 3, deadline |-> 480000, budget |-> 5500000]]

(* structural_max_tokens: MAX_CLAIMS_PER_SOURCE and TOKENS_PER_CLAIM_PASS   *)
StructuralMax(depth) == Tier[depth].sources * 12 * Tier[depth].votes * 2508

Or(given, default) == IF given = <<>> THEN default ELSE given[1]
AtLeast(given, least) == \A k \in DOMAIN given : given[k] >= least

(* effective_concurrency: reduced to what is configured, never raised.      *)
EffectiveConcurrency(requested, configured) ==
    LET n == Or(requested, configured) IN IF n < configured THEN n ELSE configured

(* The call checks its concurrency, then validate_params the rest: a        *)
(* question and focus entries are "fine", "blank" or "long", and domains    *)
(* are counted.                                                             *)
Settings(request, configured) ==
    LET tier == Tier[Or(request.depth, "standard")]
    IN  IF \/ ~AtLeast(request.concurrency, 1)
           \/ request.question # "fine"
           \/ Len(request.focus) > 8 \/ \E k \in DOMAIN request.focus : request.focus[k] # "fine"
           \/ Or(request.sources, 1) \notin 1..60
           \/ ~AtLeast(request.budget, 1000) \/ ~AtLeast(request.deadline, 5000)
           \/ request.allowed > 32 \/ request.denied > 32
        THEN Failure
        ELSE Success([angles |-> tier.angles, votes |-> tier.votes,
                      sources |-> Or(request.sources, tier.sources),
                      deadline |-> Or(request.deadline, tier.deadline),
                      budget |-> Or(request.budget, tier.budget),
                      concurrency |-> EffectiveConcurrency(request.concurrency, configured)])

(* per_angle_count, of SEARCH_COUNT_MAX at most.                            *)
PerAngle(sources, angles) ==
    LET by == IF angles = 0 THEN 1 ELSE angles
        want == (2 * sources + by - 1) \div by
    IN  CASE want < 1 -> 1 [] want > 20 -> 20 [] OTHER -> want

(* The plan of scope: trimmed, without blanks, cut, and with the question   *)
(* as its angle when none is left.                                          *)
Solid(texts, most) ==
    LET solid == SelectSeq(texts, LAMBDA t : ~Blank(t))
    IN  Shortened([k \in DOMAIN solid |-> Trimmed(solid[k])], most)

Planned(out, question, most) ==
    LET angles == Solid(out.angles, most)
    IN  [angles |-> IF angles = <<>> THEN <<Trimmed(question)>> ELSE angles,
         questions |-> Solid(out.questions, QuestionsMax)]
-----------------------------------------------------------------------------
(* url_key: it strips a scheme in lower case, what follows the path, and    *)
(* the case of the host, which an unstripped scheme keeps out of its reach. *)
UrlKey(hit) ==
    LET stripped == hit.scheme \in {"https", "http", "none"}
    IN  [scheme |-> IF stripped THEN "none" ELSE hit.scheme,
         host |-> hit.host, shouted |-> ~stripped /\ hit.shouted, path |-> hit.path]

DomainMatches(host, domain) == IsSuffix(domain, host)

(* The domain filter; a hit without a scheme does not parse.                *)
Allowed(hit, allow, deny) ==
    /\ hit.scheme # "none"
    /\ ~\E d \in deny : DomainMatches(hit.host, d)
    /\ allow = {} \/ \E d \in allow : DomainMatches(hit.host, d)

(* seen.insert: the first of those with one key.                            *)
FirstByKey(seq, key(_)) ==
    LET first == {k \in DOMAIN seq : \A j \in 1..(k - 1) : key(seq[j]) # key(seq[k])}
    IN  [k \in 1..Cardinality(first) |->
            seq[CHOOSE i \in first : Cardinality({j \in first : j < i}) = k - 1]]

(* The hits of all the searches as candidates: the first of each key, then  *)
(* those the filter allows, then the first so many.                         *)
Found(hits) == FirstByKey(hits, UrlKey)
Candidates(hits, allow, deny, most) ==
    Shortened(SelectSeq(Found(hits), LAMBDA h : Allowed(h, allow, deny)), most)
-----------------------------------------------------------------------------
Digits == {"1", "2"}

(* scan: the strict citations, each once as its digits, and the number of   *)
(* near misses; a near miss is passed to its close if that is near, else to *)
(* the end of its digits.                                                   *)
Scan(answer) ==
    LET n == Len(answer)
        Attempt(i) == /\ answer[i] = "[" /\ i + 2 <= n
                      /\ answer[i + 1] \in {"s", "S"} /\ answer[i + 2] \in Digits
        DigitsEnd(i) == CHOOSE j \in (i + 3)..(n + 1) :
                            /\ \A k \in (i + 3)..(j - 1) : answer[k] \in Digits
                            /\ j <= n => answer[j] \notin Digits
        Strict(i) == answer[i + 1] = "s" /\ DigitsEnd(i) <= n /\ answer[DigitsEnd(i)] = "]"
        Closes(i) == {k \in i..n : answer[k] = "]" /\ k < i + CitationSpan}
        Past(i) == IF Closes(i) = {} THEN DigitsEnd(i)
                   ELSE 1 + CHOOSE k \in Closes(i) : \A l \in Closes(i) : k <= l
        from[i \in 1..(n + 1)] ==
            IF i > n THEN [valid |-> <<>>, malformed |-> 0]
            ELSE IF ~Attempt(i) THEN from[i + 1]
            ELSE IF Strict(i)
            THEN [from[DigitsEnd(i) + 1] EXCEPT !.valid = <<SubSeq(answer, i + 2, DigitsEnd(i) - 1)>> \o @]
            ELSE [from[Past(i)] EXCEPT !.malformed = @ + 1]
    IN  [from[1] EXCEPT !.valid = FirstByKey(@, LAMBDA id : id)]

(* Cited sources in the order of the answer, then those of findings only.   *)
Kept(citations, findings) == FirstByKey(citations \o FlattenSeq(findings), LAMBDA id : id)

(* ground                                                                   *)
Ground(answer, findings, fetched) ==
    LET s == Scan(answer)
    IN  IF \/ s.malformed > 0 \/ ~ToSet(s.valid) \subseteq fetched
           \/ \E k \in DOMAIN findings : findings[k] = <<>> \/ ~ToSet(findings[k]) \subseteq fetched
        THEN Failure
        ELSE Success(Kept(s.valid, findings))
-----------------------------------------------------------------------------
(* source_credibility, in tenths: the documentation domains, also as a      *)
(* label before the last.                                                   *)
Credibility(host) == IF \E k \in 2..Len(host) : host[k] \in {"gov", "edu", "org"} THEN 7 ELSE 5

SumOf(numbers) == FoldLeft(LAMBDA a, b : a + b, 0, numbers)

(* claim_confidence of a claim with sources, under the weights 60, 25, 15.  *)
ClaimConfidence(agreeing, completed, credibilities) ==
    LET n == Len(credibilities)
    IN  <<60 * agreeing * 30 * n + 25 * (IF n < 3 THEN n ELSE 3) * completed * 10 * n
            + 15 * SumOf(credibilities) * completed * 3,
          100 * completed * 30 * n>>

(* overall_confidence                                                       *)
OverallConfidence(confidences) ==
    IF confidences = <<>> THEN <<0, 1>> ELSE <<SumOf(confidences), Len(confidences)>>

(* settled_mask and coverage: keys off the scope's list name nothing.       *)
SettledMask(questions, targets) == [k \in 1..questions |-> k \notin ToSet(targets)]

Coverage(questions, targets) ==
    IF questions = 0 THEN <<1, 1>>
    ELSE <<Len(SelectSeq(SettledMask(questions, targets), LAMBDA s : s)), questions>>

(* refutation_rate                                                          *)
RefutationRate(refuted, verified) == IF verified = 0 THEN <<0, 1>> ELSE <<refuted, verified>>

Gap(says, target, chars) == [says |-> says, target |-> target, chars |-> chars]
EveryQuestion(questions) == [k \in 1..questions |-> Gap("question", k, 1)]

(* What synthesis leaves: nothing to synthesize, a demotion with its        *)
(* notice, or the model's gaps and what the gate kept.                      *)
Synthesized(questions, surviving, gaps, citations, demoted) ==
    LET findings == [k \in DOMAIN surviving |-> surviving[k].sources]
    IN  IF surviving = <<>> THEN [gaps |-> EveryQuestion(questions), kept |-> <<>>]
        ELSE IF demoted THEN [gaps |-> <<Gap("notice", 0, 1)>> \o EveryQuestion(questions),
                              kept |-> Kept(<<>>, findings)]
        ELSE [gaps |-> gaps, kept |-> Kept(citations, findings)]

(* assemble: what survives is a finding, and a contested one a              *)
(* disagreement too.                                                        *)
Assembled(surviving) ==
    [findings |-> surviving, disagreements |-> SelectSeq(surviving, LAMBDA c : c.support = "contested")]

(* assemble_result over the verified claims.                                *)
Published(questions, verified, gaps, citations, demoted) ==
    LET surviving == SelectSeq(verified, LAMBDA c : c.support # "refuted")
        s == Synthesized(questions, surviving, gaps, citations, demoted)
        targets == [k \in DOMAIN s.gaps |-> s.gaps[k].target]
        assembled == Assembled(surviving)
    IN  [findings |-> assembled.findings, disagreements |-> assembled.disagreements,
         confidence |-> OverallConfidence([k \in DOMAIN assembled.findings |-> assembled.findings[k].confidence]),
         coverage |-> Coverage(questions, targets),
         status |-> SettledMask(questions, targets),
         refuted |-> RefutationRate(Len(verified) - Len(surviving), Len(verified)),
         sources |-> s.kept,
         gaps |-> [k \in 1..Len(Shortened(s.gaps, GapsMax)) |->
                    [s.gaps[k] EXCEPT !.chars = IF @ < GapCharsMax THEN @ ELSE GapCharsMax]]]
================================================================================
