------------------------------ MODULE Algorithms ------------------------------
(***************************************************************************)
(* The pure algorithms of the server over inputs that grow an element at a *)
(* time: a transcript as the harness writes it and a checkpoint reads its  *)
(* tail, the turn an end-of-turn review mines, the locators and patterns   *)
(* of a grounded verification, a fetched page, a mode's schema, a model's  *)
(* answer to decide, elicit, unstick and check, a research request, its    *)
(* hits, its answer and its findings, the store recall ranks, the meters   *)
(* of a fan-out, and the rows of the database.                             *)
(***************************************************************************)
EXTENDS Screening, Evidence, Outcomes, Schemas, Review, Rows, Prompts, Facts

CONSTANTS
    Tree,           \* the source tree
    Locators,       \* the locators a caller may give
    PageMax,        \* EVIDENCE_EXCERPT_MAX_CHARS
    Paragraphs,     \* the paragraphs a page may have
    Names,          \* property names, in the order they are declared
    Props,          \* property schemas
    Stored,         \* the memories a save may leave
    Tokens,         \* token counts of one response
    Entries,        \* the entries a window may have: messages and tool calls
    Finals,         \* the messages a turn may end with
    Remembered,     \* the memories a turn may recall, with their cosines
    Characters,     \* the characters of a text
    Heads,          \* the forms of a script
    Writes,         \* the records written to each table
    GlobTokens,     \* the tokens of a pattern
    Standing,       \* reads every source of the configuration has
    Reads,          \* the reads it may have besides
    HelpLines,      \* the lines of --help
    Requests,       \* the requests a research call may make
    Configured,     \* RESEARCH_CONCURRENCY
    Hits,           \* the hits a search may return
    Domains,        \* the domains a caller may name
    Marking,        \* the characters of an answer with citations
    Fetched,        \* the sources fetched, by their digits
    Verified,       \* the claims a verification may leave
    Gaps,           \* the gaps a synthesis may name
    Hosts,          \* the hosts of a claim's sources
    Statements,     \* a variable and the default a document states for it
    MaxItems        \* bound: elements of each input, by kind

(* The forms that supply a default supply one, and a constant that a read   *)
(* takes its default from is declared where it says.                        *)
Defaulting == {"parse_env", "unwrap_or_else", "unwrap_or"}

IsReading(r) ==
    /\ r.form \in Defaulting \cup {"gate", "other"}
    /\ r.form \in Defaulting => r.default.shape # "none"
    /\ r.default.shape = "constant" =>
            r.default.file \in 1..Len(Declared) /\ r.default.constant \in DOMAIN Declared[r.default.file]

(* What an input is made of is well formed: counts are those of a u64, a    *)
(* relevance is any cosine and the decay of an age at most its weight, the  *)
(* statements of a review have finitely many words, a record has the        *)
(* columns of its table, an invocation's figures being those of its usage,  *)
(* and what a source reads or a document states has its own fields.         *)
ASSUME AlgorithmsAssumption ==
    /\ Tokens \subseteq Nat
    /\ UsageMax % 2 = 1
    /\ \A k, l \in DOMAIN Names : Names[k] = Names[l] => k = l
    /\ Props \subseteq PropSchemas
    /\ \A m \in Stored : IsMemory(m)
    /\ \A e \in Entries : IsEntry(e)
    /\ \A f \in Finals : IsMessage(f)
    /\ \A ms \in Remembered : ms \in Seq(ToSet(ms)) /\ \A k \in DOMAIN ms : IsRemembered(ms[k])
    /\ \A w \in Writes : w.table \in Tables /\ IsRecord(w.table, w.record)
    /\ Declared \in Seq(ToSet(Declared)) /\ Standing \in Seq(ToSet(Standing))
    /\ \A r \in Reads \cup ToSet(Standing) : IsReading(r)
    /\ \A s \in Statements : s = [name |-> s.name, value |-> s.value] /\ s.name \in Mentions[s.name]

VARIABLE input      \* the kind of input and its elements so far

Kinds == {"transcript", "turn", "locators", "pattern", "page", "schema", "scores", "inference",
          "text", "script", "prompt", "request", "hits", "answer", "outcome", "backing",
          "help", "facts", "store", "meters", "rows"}

Empty(kind) == [kind |-> kind, items |-> <<>>]

InputInit == input \in {Empty(kind) : kind \in Kinds}

Grown(kind, element) ==
    /\ input.kind = kind
    /\ Len(input.items) < MaxItems[kind]
    /\ input' = [input EXCEPT !.items = Append(@, element)]

(* The assistant takes a turn of one or two tool uses, with fresh ids and   *)
(* fresh values in the volatile fields.                                     *)
Turn ==
    \E acts \in UNION {[1..k -> Actions] : k \in 1..2} :
        Grown("transcript",
              [type |-> "turn",
               uses |-> [k \in DOMAIN acts |->
                            [id |-> <<Len(input.items), k>>, action |-> acts[k], noise |-> Len(input.items)]]])

(* A result arrives, in any order, for a tool use that has none yet.        *)
Result ==
    /\ input.kind = "transcript"
    /\ \E c \in CallsOf(input.items), error \in BOOLEAN :
        /\ \A r \in DOMAIN input.items :
            input.items[r].type = "result" => input.items[r].id # UseAt(input.items, c).id
        /\ Grown("transcript", [type |-> "result", id |-> UseAt(input.items, c).id, error |-> error])

(* A line the parser cannot read.                                           *)
Torn == Grown("transcript", [type |-> "torn"])

Locate == \E l \in Locators : Grown("locators", l)

Paginate == \E p \in Paragraphs : Grown("page", p)

(* A mode declares a property, required or not.                             *)
Declare == \E p \in Props, required \in BOOLEAN : Grown("schema", [prop |-> p, required |-> required])

(* A memory is saved.                                                       *)
Save == \E m \in Stored : m.id = Len(input.items) + 1 /\ Grown("store", m)

(* A recall returns memories and reinforces them.                           *)
Recalls ==
    /\ input.kind = "store"
    /\ \E kind \in {"any"} \cup {m.kind : m \in Stored}, limit \in 1..RecallLimitMax :
        input' = [input EXCEPT !.items = Reinforce(@, Recall(@, kind, limit))]

(* A response is metered into one of the passes of a fan-out.               *)
Meter == \E m \in Models, in, out \in Tokens : Grown("meters", [model |-> m, in |-> in, out |-> out])

(* An entry joins the window of a turn.                                     *)
Enter == \E e \in Entries : Grown("turn", e)

(* A pattern goes on; one that would open with a negation is read another   *)
(* way.                                                                     *)
Match ==
    \E t \in GlobTokens :
        (input.items = <<>> => t.type # "!()") /\ Grown("pattern", t)

(* decide's model scores one more option, on the scale or off it.           *)
Score == \E n \in -1..(ScoreMax + 1) : Grown("scores", n)

(* elicit's model adds to one of its parallel arrays.                       *)
Infer ==
    \E to \in {"texts", "signals", "strengths", "questions", "conflicts"},
       says \in {"revealed", "stated", "else"} :
        /\ to # "strengths" => says = "else"
        /\ Grown("inference", [to |-> to, says |-> says, at |-> Len(input.items)])

Type == \E c \in Characters : Grown("text", c)

(* check's model writes a form, one the solver can read or not.             *)
Form == \E h \in Heads, sound \in BOOLEAN : Grown("script", [head |-> h, sound |-> sound])

(* A call's texts go on: a word, white space, or the name of a slot.         *)
Tell ==
    /\ input.kind = "prompt"
    /\ \E mode \in DOMAIN PromptFor :
        /\ \A k \in DOMAIN input.items : input.items[k].mode = mode
        /\ \E slot \in Foreign(mode),
              token \in {Word("w"), Space} \cup {Slot(s) : s \in ToSet(PromptFor[mode].fills)} :
            Grown("prompt", [mode |-> mode, slot |-> slot, token |-> token])

(* A caller asks for research, a search hits, an answer goes on, a claim    *)
(* is verified or, after all of them, a gap is named, and a source backs a  *)
(* claim.                                                                   *)
Ask == \E r \in Requests : Grown("request", r)

Hit == \E h \in Hits : Grown("hits", h)

Cite == \E c \in Marking : Grown("answer", c)

Conclude ==
    \/ /\ input.kind = "outcome"
       /\ \A k \in DOMAIN input.items : input.items[k].of = "claim"
       /\ \E c \in Verified : Grown("outcome", [of |-> "claim", is |-> c])
    \/ \E g \in Gaps : Grown("outcome", [of |-> "gap", is |-> g])

Back == \E h \in Hosts : Grown("backing", h)

(* A line of --help is written.                                             *)
Wrap == \E l \in HelpLines : Grown("help", l)

(* config.rs comes to read a variable, or a document to state its default.  *)
ReadVariable ==
    /\ input.kind = "facts"
    /\ \A k \in DOMAIN input.items : input.items[k].of = "config"
    /\ Len(input.items) < MaxItems["reads"]
    /\ \E r \in Reads : Grown("facts", [of |-> "config", is |-> r])

State ==
    /\ input.kind = "facts"
    /\ \E document \in {"help", "table"}, s \in Statements :
        /\ document = "help" => \A k \in DOMAIN input.items : input.items[k].of # "table"
        /\ Len(SelectSeq(input.items, LAMBDA e : e.of = document)) < MaxItems["statements"]
        /\ Grown("facts", [of |-> document, is |-> s])

(* A record is written; invocations may have been by an older release.      *)
Write == \E w \in Writes :
    Grown("rows", [table |-> w.table, of |-> w.record, row |-> RowOf(w.table, w.record), older |-> FALSE])

WriteOlder == \E w \in Writes :
    /\ w.table = "invocations"
    /\ \A k \in DOMAIN input.items : input.kind = "rows" => input.items[k].older
    /\ Grown("rows", [table |-> w.table, of |-> w.record, row |-> OlderInvocationRow(w.record), older |-> TRUE])

(* A cell is found holding what no release wrote.                           *)
Damage ==
    /\ input.kind = "rows"
    /\ \E k \in DOMAIN input.items :
        LET row == input.items[k].row
        IN  /\ \A c \in DOMAIN row : row[c] # Damaged
            /\ \E c \in Checked(input.items[k].table) \cup (DOMAIN row \cap {"models", "usage_by_model"}) :
                input' = [input EXCEPT !.items[k].row[c] = Damaged]

InputNext ==
    \/ Turn \/ Result \/ Torn \/ Enter \/ Locate \/ Match \/ Paginate \/ Declare
    \/ Score \/ Infer \/ Type \/ Form \/ Tell
    \/ Ask \/ Hit \/ Cite \/ Conclude \/ Back \/ Wrap \/ ReadVariable \/ State \/ Save \/ Recalls \/ Meter
    \/ Write \/ WriteOlder \/ Damage

InputSpec == InputInit /\ [][InputNext]_input
-----------------------------------------------------------------------------
(* The flags of an evaluation match the transcript: whatever part of the    *)
(* file it read, it raises nothing the file up to there does not bear out,  *)
(* and when it read all of it, all there is to raise.                       *)
FlagsMatchTranscript ==
    input.kind = "transcript" =>
        LET file == input.items
            truth == Truth(file)
            whole == Cardinality(CallsOf(file)) <= WindowEntries
        IN  \A from \in 0..Len(file) :
                LET flags == Screen(TailOf(file, from, Len(file)))
                IN  /\ flags \subseteq truth
                    /\ from = 0 /\ whole => flags = truth

(* The assembled evidence is what the locators name: it is given exactly    *)
(* when every locator resolves within both ceilings, in order, and each     *)
(* manifest entry's bytes are those of the lines it names.                  *)
Resolves(l) == Units(Tree, l).ok
AllUnits(ls) == FoldLeft(LAMBDA s, l : s \o Units(Tree, l).value, <<>>, ls)

EvidenceIsExact ==
    input.kind = "locators" =>
        LET result == Assemble(Tree, input.items)
            resolved == \A k \in DOMAIN input.items : Resolves(input.items[k])
            units == AllUnits(input.items)
            readable == resolved /\ \A k \in DOMAIN units : Read(Tree, units[k][1], units[k][2]).ok
            bytes == FoldLeft(LAMBDA n, u : n + Read(Tree, u[1], u[2]).value, 0, units)
        IN  /\ result.ok <=> input.items # <<>> /\ readable /\ Len(units) <= MaxLocators /\ bytes <= MaxBytes
            /\ result.ok =>
                /\ result.value = [k \in DOMAIN units |->
                        [path |-> units[k][1], range |-> units[k][2],
                         bytes |-> Read(Tree, units[k][1], units[k][2]).value]]
                /\ \A p \in DOMAIN Tree : Joined(Tree[p].lines) > MaxBytes =>
                        \A k \in DOMAIN units : units[k][1] # p

(* An excerpt is a run of whole paragraphs around the one closest to the    *)
(* claim, within the cap, that neither neighbour would still fit.           *)
ExcerptIsTight ==
    input.kind = "page" /\ input.items # <<>> =>
        LET page == input.items
            e == Excerpt(page, PageMax)
            Size(lo, hi) == Joined([k \in 1..(hi - lo + 1) |-> page[lo + k - 1].chars])
        IN  /\ Anchor(page) \in e.lo..e.hi
            /\ e.cut <=> page[Anchor(page)].chars > PageMax
            /\ ~e.cut => /\ Size(e.lo, e.hi) <= PageMax
                         /\ e.lo > 1 => Size(e.lo - 1, e.hi) > PageMax
                         /\ e.hi < Len(page) => Size(e.lo, e.hi + 1) > PageMax

(* An answer passes the gate exactly when whatever in it opens like a       *)
(* citation is one, of a source that was fetched, and each finding has      *)
(* fetched sources only; what is kept is what is cited, once, the answer's  *)
(* first.                                                                   *)
CitationsAreReal ==
    input.kind = "answer" =>
        \A finding \in {<<>>} \cup {<<f>> : f \in Fetched \cup {<<"2", "2">>}} :
            LET text == input.items
                opened == {i \in DOMAIN text :
                    /\ text[i] = "[" /\ i + 2 <= Len(text)
                    /\ text[i + 1] \in {"s", "S"} /\ text[i + 2] \in Digits}
                Spells(i, id) == /\ i + Len(id) + 2 <= Len(text)
                                 /\ SubSeq(text, i, i + Len(id) + 2) = <<"[", "s">> \o id \o <<"]">>
                cited == {id \in Fetched : \E i \in opened : Spells(i, id)}
                result == Ground(text, <<finding>>, Fetched)
            IN  /\ result.ok <=> /\ \A i \in opened : \E id \in Fetched : Spells(i, id)
                                /\ finding # <<>> /\ ToSet(finding) \subseteq Fetched
                /\ result.ok =>
                    /\ ToSet(result.value) = cited \cup ToSet(finding)
                    /\ Len(result.value) = Cardinality(cited \cup ToSet(finding))
                    /\ ToSet(SubSeq(result.value, 1, Cardinality(cited))) = cited

(* The sources a research run reads are distinct pages of hosts it may ask, *)
(* in the order of the searches and as many as it may, whatever the         *)
(* spellings of their addresses; only a page first found without a scheme   *)
(* is lost, and only a scheme in capitals reads a page twice.               *)
PagesAreDistinct ==
    input.kind = "hits" =>
        \A allow, deny \in SUBSET Domains, most \in 0..2 :
            LET hits == input.items
                candidates == Candidates(hits, allow, deny, most)
                Page(h) == <<h.host, h.path>>
                Under(h, ds) == \E d \in ds : \E k \in 1..Len(h.host) : SubSeq(h.host, k, Len(h.host)) = d
                open == {k \in DOMAIN hits : ~Under(hits[k], deny) /\ (allow = {} \/ Under(hits[k], allow))}
                regular == \A k \in DOMAIN hits : hits[k].scheme \in {"http", "https", "none"}
                firsts == {k \in open : /\ hits[k].scheme # "none"
                                        /\ \A j \in 1..(k - 1) : Page(hits[j]) # Page(hits[k])}
            IN  /\ ToSet(candidates) \subseteq {hits[k] : k \in open}
                /\ Len(candidates) <= most
                /\ regular =>
                    /\ Len(candidates) = IF Cardinality(firsts) < most THEN Cardinality(firsts) ELSE most
                    /\ \A i, j \in DOMAIN candidates : i < j =>
                        \E k, l \in firsts : k < l /\ hits[k] = candidates[i] /\ hits[l] = candidates[j]

(* The grammar admits every complete answer: one that validates and gives   *)
(* every property can be decoded, what can be decoded and does not validate *)
(* fails on a bound only, and sanitizing twice changes nothing.             *)
SchemaOf(items) ==
    [props |-> [n \in {Names[k] : k \in DOMAIN items} |->
                    items[CHOOSE k \in DOMAIN items : Names[k] = n].prop],
     required |-> {Names[k] : k \in {k \in DOMAIN items : items[k].required}},
     closed |-> FALSE]

Answers(schema) ==
    UNION {[d -> Scalars \cup {<<"length", k>> : k \in 0..LengthMax}] :
            d \in SUBSET (DOMAIN schema.props \cup {"undeclared"})}

GrammarAdmitsAnswers ==
    input.kind = "schema" /\ IsFlat(SchemaOf(input.items)) =>
        LET schema == SchemaOf(input.items)
            grammar == Sanitize(schema)
        IN  /\ Sanitize(grammar) = grammar
            /\ \A a \in Answers(schema) :
                /\ Validates(schema, a) /\ DOMAIN a = DOMAIN schema.props => Validates(grammar, a)
                /\ Validates(grammar, a) /\ ~Validates(schema, a) =>
                        \E n \in DOMAIN a : schema.props[n].type # "enum" /\ a[n] \notin Admits(schema.props[n])

(* Recall is lawful: its answer does not depend on the order the store      *)
(* returned its rows in, nothing that ought to come before a returned       *)
(* memory is left out, and trust decides between memories whose relevance   *)
(* differs by less than the trust bonus outweighs recency.                  *)
Ought(ms, i, j) ==
    LET a == ms[i] b == ms[j]
    IN  \/ a.trusted /\ ~b.trusted /\ a.relevance + TrustEpsilon > b.relevance + RecencyWeight
        \/ a.trusted = b.trusted /\ a.relevance > b.relevance + RecencyWeight

RecallIsLawful ==
    input.kind = "store" =>
        \A kind \in {"any"} \cup {m.kind : m \in Stored}, limit \in 1..RecallLimitMax :
            LET ms == input.items
                returned == Recall(ms, kind, limit)
                wanted == Wanted(ms, kind)
                Place(i) == {k \in DOMAIN returned : returned[k].id = ms[i].id}
            IN  /\ Len(returned) = IF Cardinality(wanted) < limit THEN Cardinality(wanted) ELSE limit
                /\ Recall(Reverse(ms), kind, limit) = returned
                /\ \A i, j \in wanted : Ought(ms, i, j) /\ Place(j) # {} =>
                        \E k \in Place(i) : \A l \in Place(j) : k < l

(* The meters add up however the passes of a fan-out are folded: the record *)
(* is the same in any order and split, its totals are those of the          *)
(* responses up to saturation, and a model that answered is on it.          *)
Fold(items) == FoldLeft(LAMBDA u, r : Add(u, r.model, r.in, r.out), NoUsage, items)

MetersCommute ==
    input.kind = "meters" =>
        LET items == input.items
            record == Recorded(Fold(items), 0)
            Capped(n) == IF n > UsageMax THEN UsageMax ELSE n
        IN  /\ \A k \in 0..Len(items) :
                Recorded(Merge(Fold(SubSeq(items, k + 1, Len(items))), Fold(SubSeq(items, 1, k))), 0) = record
            /\ record.in = Capped(FoldLeft(LAMBDA n, r : n + r.in, 0, items))
            /\ record.models = {items[k].model : k \in DOMAIN items}
            /\ items # <<>> => Cardinality(Dominant(Fold(items))) = 1 /\ record.model \in record.models

(* A review is fair to what the turn said: every opposed pair is put once,  *)
(* the stored decisions first, up to the cap, each with all that happened   *)
(* since it was first said; a signal is keyed by a pair that was put and    *)
(* that the answer's echo fits; and the gate would hold on the first of the *)
(* preferences.                                                             *)
Said(items, f, s) ==
    {k \in DOMAIN items : /\ items[k].type = "assistant" /\ items[k].says # f
                          /\ s \in Range(items[k].says)}

Opposed(items, f) ==
    {p \in (UNION {Range(items[k].says) : k \in {k \in DOMAIN items : items[k].type = "assistant"}})
            \X Range(f) :
        /\ p[1].long /\ p[2].long /\ Said(items, f, p[1]) # {}
        /\ Overlap(p[1], p[2]) >= OverlapMin /\ OpposingPolarity(p[1], p[2])}

CandidatesAreFair ==
    input.kind = "turn" =>
        \A f \in Finals, memories \in Remembered :
            LET items == input.items
                recall == RankRecall(memories)
                mined == MineCandidates(items, f, recall)
                Pair(c) == <<c.earlier, c.final>>
                held == {i \in DOMAIN recall : IsConstraint(recall[i])}
                stored == {Pair(StoredCandidate(items, f, recall[i])) : i \in held}
                pairs == stored \cup Opposed(items, f)
                put == {Pair(mined[i]) : i \in DOMAIN mined}
                Echo(c) == [contradicts |-> TRUE, earlier |-> c.earlier, final |-> c.final]
            IN  /\ put \subseteq pairs /\ Cardinality(put) = Len(mined)
                /\ Len(mined) = IF Cardinality(pairs) > CandidatesMax THEN CandidatesMax ELSE Cardinality(pairs)
                /\ put \subseteq stored \/ stored \subseteq put
                /\ \A i \in DOMAIN mined :
                    LET c == mined[i]
                        said == Said(items, f, c.earlier)
                        first == CHOOSE k \in said : \A l \in said : k <= l
                    IN  /\ Pair(c) \notin stored =>
                                c.between = Summary(SubSeq(items, first + 1, Len(items)))
                        /\ LET key == Contradiction(Echo(c), mined)[1].of
                           IN  /\ key \in put
                               /\ c.earlier.words \subseteq key[1].words
                               /\ c.final.words \subseteq key[2].words
                /\ \A m \in ConstraintHold(memories) : m = MinePreferences(recall)[1]

(* decide, over as many options as were scored: it answers a full and       *)
(* well-scored assessment only, it recommends the earliest of the best and  *)
(* after it the earliest of the rest, it is as sure of a tie as of a coin   *)
(* toss and certain across the whole scale only, and what it recommends     *)
(* without a tie does not depend on the order of the options.               *)
DecisionIsFair ==
    input.kind = "scores" /\ Len(input.items) >= 2 =>
        LET scores == input.items
            n == Len(scores)
            Answer(s, m) == Decide(n, [scores |-> s, rationales |-> m, factors |-> <<<<"a">>>>])
            given == Answer(scores, n)
            top == given.value.recommended
            next == given.value.second
            reversed == Answer(Reverse(scores), n).value.recommended
        IN  /\ ~Answer(scores, n + 1).ok /\ ~Answer(SubSeq(scores, 1, n - 1), n).ok
            /\ given.ok <=> \A k \in 1..n : scores[k] \in 0..ScoreMax
            /\ given.ok =>
                /\ \A k \in 1..n \ {top} :
                    /\ scores[k] < scores[top] \/ (scores[k] = scores[top] /\ top < k)
                    /\ k # next => scores[k] < scores[next] \/ (scores[k] = scores[next] /\ next < k)
                /\ given.value.confidence[1] * 2 = given.value.confidence[2] <=> scores[top] = scores[next]
                /\ given.value.confidence[1] = given.value.confidence[2] <=>
                        scores[top] = ScoreMax /\ scores[next] = 0
                /\ scores[top] > scores[next] => reversed = n + 1 - top

(* elicit answers with everything its model inferred, or not at all.        *)
InferenceIsWhole ==
    input.kind = "inference" =>
        LET Array(to) == SelectSeq(input.items, LAMBDA e : e.to = to)
            strengths == Array("strengths")
            answer == Elicit([texts |-> Array("texts"), signals |-> Array("signals"),
                              strengths |-> [k \in DOMAIN strengths |-> strengths[k].says],
                              questions |-> Array("questions"), conflicts |-> Array("conflicts")])
            graded == [k \in DOMAIN input.items |-> input.items[k].to # "strengths" \/ input.items[k].says # "else"]
        IN  answer.ok =>
                /\ \A k \in DOMAIN graded : graded[k]
                /\ Len(input.items) = 3 * Len(answer.value.preferences) + 2 * Len(answer.value.divergences)
                /\ \A k \in DOMAIN answer.value.divergences :
                        answer.value.divergences[k] = <<Array("questions")[k], Array("conflicts")[k]>>

(* unstick: no marker is left in a goal and none in what is recovered, a    *)
(* blocker that was given stays, and a step that was tried is refused       *)
(* however it is punctuated, spaced or capitalised.  The options a caller   *)
(* gives as lines are the lines that say something, trimmed.                *)
StepIsNew ==
    input.kind = "text" =>
        LET text == input.items
            Loud(t) == [k \in DOMAIN t |-> CASE t[k] = "a" -> "A" [] t[k] = "b" -> "B" [] OTHER -> t[k]]
            bare == Recovered(text, <<>>)
            given == Recovered(text, <<"b">>)
        IN  /\ Marks(bare.goal) = {} /\ Marks(bare.blocked) = {}
            /\ given.goal = bare.goal /\ given.blocked = <<"b">>
            /\ ~Unstick(text, <<<<" ">>, <<" ", ".">> \o Loud(text) \o <<".", " ">>>>).ok
            /\ Unstick(text, <<text \o <<" ", "b">>>>).ok <=> ~Blank(text)
            /\ LET options == OptionsOf(<<>>, <<text, <<" ">>, text>>)
               IN  /\ Len(options) = IF Blank(text) THEN 0 ELSE 2
                   /\ \A k \in DOMAIN options : options[k][1] # " " /\ Trimmed(options[k]) = options[k]

(* check: a verdict rests on every assertion of the translation.            *)
ScriptIsWhole ==
    input.kind = "script" /\ input.items # <<>> =>
        LET script == input.items
            out == [checkable |-> TRUE, engine |-> "constraints", script |-> script, asserted |-> "satisfiable"]
        IN  Translation(out).ok /\ Solves(script) =>
                /\ \E k \in DOMAIN script : script[k].head \in Asserting
                /\ \A k \in DOMAIN script : script[k].head \in Asserting =>
                        /\ \A l \in 1..k : script[l].sound
                        /\ \A l \in DOMAIN script : script[l].head = "( reset" =>
                                l < k \/ \E j \in k..l : ~script[j].sound

(* elicit consults every trusted memory there is room for, unless untrusted *)
(* ones that are clearly more relevant fill its recall.                     *)
TrustedAreConsulted ==
    input.kind = "store" =>
        LET ms == input.items
            consulted == RecalledPreferences(ms)
            trusted == {i \in DOMAIN ms : ms[i].active /\ ms[i].trusted}
            others == {i \in DOMAIN ms : ms[i].active /\ ~ms[i].trusted}
        IN  /\ \A k \in DOMAIN consulted : consulted[k].trusted /\ consulted[k].active
            /\ Cardinality(trusted) <= RecallWide /\ (\A i \in trusted, j \in others : Ought(ms, i, j)) =>
                    Len(consulted) = IF Cardinality(trusted) < ElicitLimit THEN Cardinality(trusted) ELSE ElicitLimit

(* research: a request that is accepted is run as it asked and within the   *)
(* limits, a default budget pays for all that its tier may do, a deeper one *)
(* is never given less, and the searches of its angles together leave room  *)
(* to lose half the hits, or are as large as they may be.                   *)
RequestsAreBounded ==
    input.kind = "request" =>
        \A k \in DOMAIN input.items :
            LET request == input.items[k]
                given == Settings(request, Configured)
                s == given.value
                depth == Or(request.depth, "standard")
            IN  given.ok =>
                /\ s.concurrency \in 1..Configured /\ s.sources \in 1..60
                /\ s.budget >= 1000 /\ s.deadline >= 5000
                /\ request.sources \in {<<>>, <<s.sources>>} /\ request.budget \in {<<>>, <<s.budget>>}
                /\ request.budget = <<>> /\ request.sources = <<>> => s.budget >= StructuralMax(depth)
                /\ \A deeper \in DOMAIN Tier : Tier[deeper].votes > Tier[depth].votes =>
                    LET d == Settings([request EXCEPT !.depth = <<deeper>>], Configured)
                    IN  d.ok /\ \A f \in DOMAIN s : d.value[f] >= s[f]
                /\ \A angles \in 1..s.angles :
                        PerAngle(s.sources, angles) * angles >= 2 * s.sources \/ PerAngle(s.sources, angles) = 20

(* research: there is always something to search for, and nothing blank.    *)
PlanIsSearchable ==
    input.kind = "text" =>
        \A question \in {<<" ", "a">>, <<"b">>}, most \in 1..3 :
            LET text == input.items
                plan == Planned([angles |-> <<<<" ">>, text, <<>>, text>>, questions |-> <<text, text, text>>],
                                question, most)
            IN  /\ Len(plan.angles) \in 1..most
                /\ \A k \in DOMAIN plan.angles :
                    plan.angles[k] # <<>> /\ plan.angles[k][1] # " " /\ Last(plan.angles[k]) # " "
                /\ Len(plan.questions) = IF Blank(text) THEN 0 ELSE IF QuestionsMax < 3 THEN QuestionsMax ELSE 3

(* research: a claim's confidence is a share of one that more agreement     *)
(* raises and another source, up to the third, does not lower, whatever its *)
(* credibility; the order of the sources is nothing to it.                  *)
ConfidenceIsEarned ==
    input.kind = "backing" /\ input.items # <<>> =>
        LET tenths == [k \in DOMAIN input.items |-> Credibility(input.items[k])]
            AtMost(p, q) == p[1] * q[2] <= q[1] * p[2]
        IN  \A completed \in 1..3 : \A agreeing \in 0..completed :
                LET c == ClaimConfidence(agreeing, completed, tenths)
                IN  /\ AtMost(c, <<1, 1>>) /\ c[1] > 0
                    /\ c = ClaimConfidence(agreeing, completed, Reverse(tenths))
                    /\ agreeing < completed => AtMost(c, ClaimConfidence(agreeing + 1, completed, tenths))
                    /\ Len(tenths) < 3 => \A h \in Hosts :
                            AtMost(c, ClaimConfidence(agreeing, completed, Append(tenths, Credibility(h))))

(* research: the figures of a result are honest.  A sub-question is settled *)
(* iff no gap names it, one that was not published included; with nothing   *)
(* verified or a demoted answer none is, and each is among the gaps; the    *)
(* coverage is their share; the confidence lies among those of the findings *)
(* and does not depend on the gaps or a demotion; a claim is a finding or   *)
(* counted as refuted; and the sources are those the result cites.          *)
FiguresAreHonest ==
    input.kind = "outcome" =>
        \A questions \in 0..QuestionsMax, demoted \in BOOLEAN, citations \in {<<>>, <<1>>, <<3, 1>>} :
            LET Of(what) == LET said == SelectSeq(input.items, LAMBDA e : e.of = what)
                            IN  [k \in DOMAIN said |-> said[k].is]
                verified == Of("claim")
                gaps == Of("gap")
                result == Published(questions, verified, gaps, citations, demoted)
                silent == Published(questions, verified, <<>>, citations, ~demoted)
                asserted == ToSet(result.findings)
                settled == {k \in 1..questions : result.status[k]}
                named == {gaps[k].target : k \in DOMAIN gaps}
                answered == asserted # {} /\ ~demoted
                open == {k \in 1..questions : \E i \in DOMAIN result.gaps :
                            result.gaps[i].target = k /\ result.gaps[i].says = "question"}
                cited == UNION {ToSet(f.sources) : f \in asserted} \cup IF answered THEN ToSet(citations) ELSE {}
            IN  /\ DOMAIN result.status = 1..questions
                /\ settled = IF answered THEN (1..questions) \ named ELSE {}
                /\ ~answered => open = 1..questions
                /\ result.coverage = IF questions = 0 THEN <<1, 1>> ELSE <<Cardinality(settled), questions>>
                /\ result.confidence = silent.confidence
                /\ result.confidence[1] = 0 <=> asserted = {}
                /\ asserted # {} =>
                    \E f, g \in asserted :
                        /\ f.confidence * result.confidence[2] <= result.confidence[1]
                        /\ g.confidence * result.confidence[2] >= result.confidence[1]
                /\ \A f \in asserted : f.support # "refuted"
                /\ ToSet(result.disagreements) = {f \in asserted : f.support = "contested"}
                /\ verified # <<>> => result.refuted = <<Len(verified) - Len(result.findings), Len(verified)>>
                /\ ToSet(result.sources) = cited /\ Len(result.sources) = Cardinality(cited)
                /\ Len(result.gaps) <= GapsMax

(* What a corrective or a research run returns is computed from its models' *)
(* answers and from all of them, or the answer is refused.                  *)
AnswersAreComputed ==
    /\ DecisionIsFair /\ InferenceIsWhole /\ StepIsNew /\ ScriptIsWhole /\ TrustedAreConsulted
    /\ RequestsAreBounded /\ PlanIsSearchable /\ ConfidenceIsEarned /\ FiguresAreHonest

(* Prompts are verbatim: a model is sent the template with each text in its *)
(* own place as it was given, whatever a text says where the slots are      *)
(* located first, and where they are filled in turn whenever no text names  *)
(* a slot filled after its own; and of what the caller of a tool gave, it   *)
(* is then sent something, and no more than the bound.                      *)
TextsOf(items) ==
    [slot \in Foreign(items[1].mode) |->
        LET said == SelectSeq(items, LAMBDA e : e.slot = slot) IN [k \in DOMAIN said |-> said[k].token]]

Later(fills, slot) ==
    {fills[k] : k \in {k \in DOMAIN fills : \E j \in 1..(k - 1) : fills[j] = slot}}

Tools == {"verify", "diverge", "decide", "elicit", "unstick", "grounded", "translate"}
Served == {"preferences", "evidence", "violation_clause"}

PromptsAreVerbatim ==
    input.kind = "prompt" /\ input.items # <<>> =>
        LET mode == input.items[1].mode
            prompt == PromptFor[mode]
            texts == TextsOf(input.items)
            values == [slot \in ToSet(prompt.fills) |->
                        Given(mode, slot, IF slot \in prompt.own THEN <<>> ELSE texts[slot])]
            sent == PromptOf(prompt, values)
            whole == FlattenSeq([k \in DOMAIN prompt.template |-> values[prompt.template[k][2]]])
            plain == \A slot \in Foreign(mode) : \A later \in Later(prompt.fills, slot) :
                        Slot(later) \notin ToSet(texts[slot])
            told == SelectSeq(sent, LAMBDA t : t[1] = "slot" \/ t \in {Word("w"), Space})
        IN  /\ prompt.located \/ plain => sent = whole
            /\ plain /\ mode \in Tools /\ Accepts(mode, texts)
                /\ (\A slot \in Foreign(mode) \cap Served : texts[slot] = <<>>) =>
                    Len(told) <= InputMax /\ \E t \in ToSet(told) : t # Space

(* The documents are true: a marker of --help belongs to the entry it       *)
(* stands in, and when the checks of config.rs and of both documents pass,  *)
(* each document states, for every variable read with a default, the one    *)
(* that is applied and no other, and lists every variable that has none;    *)
(* and documents that do so, without contradiction, of defaults the checks  *)
(* can read, pass them.  The checks are relied on where no gate supplies a  *)
(* default after all (source.rs takes it to have none), no other constant   *)
(* is in the way of the one that is named, and no document names a         *)
(* variable without a default in the text of another.                       *)
Applied(default) ==
    IF default.shape = "constant" THEN Declared[default.file][default.constant].value ELSE default.value

MarkersBelong ==
    input.kind = "help" =>
        LET lines == input.items
        IN  ToSet(StatedInHelp(lines)) =
                {[name |-> lines[p[1]].name, value |-> lines[p[2]].marker] :
                    p \in {q \in (DOMAIN lines) \X (DOMAIN lines) :
                        /\ q[1] <= q[2] /\ lines[q[1]].type = "entry" /\ lines[q[2]].marker # Absent
                        /\ \A k \in (q[1] + 1)..q[2] : lines[k].type = "more"}}

PartOf(items, who) ==
    LET said == Filtered(items, LAMBDA e : e.of = who) IN [k \in DOMAIN said |-> said[k].is]

StatementsAreTrue ==
    input.kind = "facts" =>
        LET Of(who) == PartOf(input.items, who)
            source == Standing \o Of("config")
            code == {r \in ToSet(source) : ~r.commented}
            reads == {r \in code : r.name \notin Fixtures}
            entries == Of("help")
            help == [k \in DOMAIN entries |->
                        [type |-> "entry", name |-> entries[k].name, marker |-> entries[k].value]]
            bearing == {r \in reads : r.default.shape # "none"}
            noticed == \A r \in code : r.form = "gate" => r.default.shape = "none"
            unambiguous == \A r \in bearing : r.default.shape = "constant" =>
                    \A f \in Declaring(r.default) : Declared[f][r.default.constant].readable =>
                        \/ r.default.file = f
                        \/ r.default.file < f /\ Declared[r.default.file][r.default.constant].readable
            readable ==
                /\ \A r \in code :
                        /\ r.form \notin {"unwrap_or", "other"}
                        /\ r.form \in Defaulting /\ r.name \notin Exclusions \cup Fixtures =>
                                r.default.shape = "literal"
                /\ Exclusions \subseteq {r.name : r \in bearing}
                /\ \A k \in Fixtures : \E i \in DOMAIN source :
                        /\ source[i].name = k /\ source[i].form = "parse_env"
                        /\ \A j \in DOMAIN source : source[j].name = k => i = j
            truth == {[name |-> r.name, value |-> Applied(r.default)] :
                        r \in {r \in bearing : r.name \notin Exclusions}}
            excused == {s \in Statements : s.name \in Exclusions}
            silent == {r.name : r \in reads} \ ({r.name : r \in bearing} \cup TestNames)
            documents == {entries, Of("table")}
            Stated(document) == {s \in ToSet(document) : s.value # Absent}
            apart == \A document \in documents : \A n \in NamesOf(document) : Mentions[n] \cap silent \subseteq {n}
            true == \A document \in documents :
                        /\ Stated(document) \ excused = truth
                        /\ silent \subseteq NamesOf(document)
            consistent == \A document \in documents :
                            \A s, t \in Stated(document) : s.name = t.name => s = t
        IN  noticed =>
                /\ Documented(source, help, Of("table")) /\ unambiguous /\ apart => true
                /\ true /\ readable /\ consistent => Documented(source, help, Of("table"))

(* config_facts/mod.rs: the check that extraction is complete fails if it   *)
(* found fewer variables than the source reads with a default.              *)
ExtractionMissesNothing ==
    input.kind = "facts" =>
        LET source == Standing \o PartOf(input.items, "config")
            facts == Resolve(source)
        IN  ExtractionIsComplete(source, facts) =>
                \A r \in ToSet(source) :
                    ~r.commented /\ r.name \notin Fixtures /\ r.default.shape # "none"
                    => r.name \in NamesOf(facts)

(* What the check of the extraction lets pass is a gate that supplies a     *)
(* default after all, and nothing else: no other read is missed by both     *)
(* scans (source.rs: extract_pairs, classify_call_sites).                   *)
OnlyGatesHide ==
    input.kind = "facts" =>
        LET source == Standing \o PartOf(input.items, "config")
            facts == Resolve(source)
        IN  ExtractionIsComplete(source, facts) =>
                \A r \in ToSet(source) :
                    ~r.commented /\ r.name \notin Fixtures /\ r.default.shape # "none"
                    => r.name \in NamesOf(facts) \/ r.form = "gate"

DocumentsAreTrue == MarkersBelong /\ StatementsAreTrue /\ OnlyGatesHide

(* Rows read back as they were written, by this release or an older one: a  *)
(* table is listed exactly when no cell it parses is damaged and no count   *)
(* ran past a signed column, what is listed are the records, with usage     *)
(* that adds up to their counts whatever became of its own column, and what *)
(* the cooldown and the push gather is in any list there is.                *)
ReadsBack(item, r) ==
    LET o == item.of
        whole == ~item.older /\ item.row.usage_by_model # Damaged
    IN  /\ r.model = o.model /\ r.in = o.in /\ r.out = o.out /\ r.latency = o.latency /\ r.at = o.at
        /\ Totals(r.usage) = [in |-> r.in, out |-> r.out]
        /\ r.estimated <=> DOMAIN r.usage \ PricedModels # {}
        /\ whole /\ o.usage # NoUsage => r.usage = o.usage /\ r.estimated = o.estimated /\ r.models = o.models
        /\ item.older => r.models = {o.model} /\ DOMAIN r.usage = {o.model}

RowsRoundTrip ==
    input.kind = "rows" =>
        \A table \in Tables :
            LET items == Picked(input.items, {k \in DOMAIN input.items : input.items[k].table = table})
                rows == [k \in DOMAIN items |-> items[k].row]
                listed == List(table, rows)
                intact == \A k \in DOMAIN items :
                    /\ \A c \in Checked(table) : rows[k][c] # Damaged
                    /\ \A n \in IF table = "invocations"
                                THEN {items[k].of.in, items[k].of.out, items[k].of.latency}
                                ELSE {items[k].of[c] : c \in Counted(table)} : 2 * n < UsageMax
            IN  /\ listed.ok <=> intact
                /\ listed.ok => \A k \in DOMAIN items :
                        IF table = "invocations" THEN ReadsBack(items[k], listed.value[k])
                                                 ELSE listed.value[k] = items[k].of
                /\ listed.ok /\ table \in {"checkpoints", "pushes"} =>
                        LET column == IF table = "pushes" THEN "surfaced_ids" ELSE "delivered_keys"
                        IN  /\ Gathered(rows, column).ok
                            /\ Gathered(rows, column).value = UNION {listed.value[k][column] : k \in DOMAIN items}
=============================================================================
