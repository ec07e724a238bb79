--------------------------------- MODULE Facts ---------------------------------
(***************************************************************************)
(* The documented facts: the defaults config.rs applies, read out of its   *)
(* source, and the two documents an operator reads, --help and the table   *)
(* of the README, which must state each of them and no other.  The checks  *)
(* run as tests of the binary.                                             *)
(*                                                                         *)
(* A read of the environment names a variable, in a form, with a default   *)
(* where the form has one: a literal, a constant of some file, named alone *)
(* or by its path, or any other expression.  A gate is a read whose        *)
(* statement holds .ok(), .is_ok() or .map_err(; it supplies no default,   *)
(* unless something further on does (map_or, unwrap_or_default).  Values   *)
(* are numbers; 0 stands for a statement that there is none.               *)
(***************************************************************************)
EXTENDS Naturals, FiniteSets, Sequences, SequencesExt, Sorting

CONSTANTS
    Declared,       \* the files of the crate: each one's constants, with value and readable
    Sources,        \* SOURCES: how many of them, from the first, are searched
    Fixtures,       \* TEST_ONLY_KEYS
    TestNames,      \* the names that begin with PARALLAX_TEST
    Mentions,         \* the names that the entry or row of a name contains, its own among them
    Exclusions      \* EXCLUSIONS

ASSUME FactsAssumption == Sources \in 0..Len(Declared)

Absent == 0

(* strip_comments: what a comment quotes is no read.                        *)
Code(source) == Filtered(source, LAMBDA r : ~r.commented)

(* The searched files that declare the constant a default names.            *)
Declaring(default) ==
    {f \in 1..Sources :
        /\ default.constant \in DOMAIN Declared[f]
        /\ default.qualified => f = default.file}

(* lookup_constant: the first declaration whose value can be read.          *)
LookUp(default) ==
    LET readable == {f \in Declaring(default) : Declared[f][default.constant].readable}
    IN  IF readable # {}
        THEN LET f == CHOOSE f \in readable : \A g \in readable : f <= g
             IN  [type |-> "resolved", value |-> Declared[f][default.constant].value]
        ELSE IF Declaring(default) # {} THEN [type |-> "unresolvable"] ELSE [type |-> "not_found"]

(* classify: the whole expression, or nothing.                              *)
Classify(default) ==
    CASE default.shape = "literal" -> [type |-> "resolved", value |-> default.value]
      [] default.shape = "constant" -> LookUp(default)
      [] OTHER -> [type |-> "unresolvable"]

(* extract_pairs: the two shapes it reads.                                  *)
Extracted(source) == Filtered(Code(source), LAMBDA r : r.form \in {"parse_env", "unwrap_or_else"})

(* resolve_from                                                             *)
Resolve(source) ==
    LET pairs == Filtered(Extracted(source), LAMBDA r : r.name \notin Fixtures)
    IN  [k \in DOMAIN pairs |->
            [name |-> pairs[k].name,
             resolution |-> IF pairs[k].name \in Exclusions THEN [type |-> "excluded"]
                            ELSE Classify(pairs[k].default)]]

NamesOf(facts) == {facts[k].name : k \in DOMAIN facts}

(* Defect: only the shapes that are extracted are counted.                  *)
BearingAsExtracted(source) ==
    Len(Filtered(Extracted(source), LAMBDA r : r.name \notin Fixtures))

(* classify_call_sites: how many reads supply a default, and those of no    *)
(* known shape.  A gate is taken to supply none, whatever follows it.       *)
Bearing(source) ==
    LET code == Code(source)
        skipped == {k \in Fixtures : \E i \in DOMAIN code : code[i].form = "parse_env" /\ code[i].name = k}
    IN  Len(Filtered(code, LAMBDA r : r.form \in {"unwrap_or_else", "unwrap_or"}))
            + Len(Filtered(code, LAMBDA r : r.form = "parse_env")) - Cardinality(skipped)

Unrecognised(source) == Filtered(Code(source), LAMBDA r : r.form = "other")

(* variables_without_defaults                                               *)
WithoutDefaults(source, facts) ==
    {r.name : r \in {r \in ToSet(Code(source)) : r.form # "parse_env"}} \ (NamesOf(facts) \cup TestNames)

(* A document lists the names that occur anywhere in it.                    *)
Mentioned(names) == UNION {Mentions[n] : n \in names}
-----------------------------------------------------------------------------
(* stated_in_help: a marker belongs to the entry it is in, which a blank    *)
(* line, a header or the next entry ends.                                   *)
AtLine(read, line) ==
    LET current == CASE line.type = "entry" -> {line.name}
                     [] line.type = "more" -> read.current
                     [] OTHER -> {}
    IN  [current |-> current,
         stated |-> IF line.type \in {"entry", "more"} /\ line.marker # Absent
                    THEN read.stated \o SetToSeq({[name |-> n, value |-> line.marker] : n \in current})
                    ELSE read.stated]

StatedInHelp(lines) == FoldLeft(AtLine, [current |-> {}, stated |-> <<>>], lines).stated

(* stated_in_table: a row whose default column states one.                  *)
StatedInTable(rows) == Filtered(rows, LAMBDA r : r.value # Absent)
-----------------------------------------------------------------------------
(* The assertions, in the order the tests make them.                        *)
AllResolved(facts) ==
    \A k \in DOMAIN facts : facts[k].resolution.type \in {"resolved", "excluded"}

FixturesAreLive(source) == \A k \in Fixtures : \E i \in DOMAIN source : source[i].name = k

ExclusionsAreLive(facts) == Exclusions \subseteq NamesOf(facts)

ExtractionIsComplete(source, facts) == Unrecognised(source) = <<>> /\ Len(facts) = Bearing(source)

NoContradiction(stated) ==
    \A i, j \in DOMAIN stated : stated[i].name = stated[j].name => stated[i].value = stated[j].value

NoPhantom(facts, stated) == \A k \in DOMAIN stated : stated[k].name \in NamesOf(facts)

(* Each document states the default of every variable that resolved, the    *)
(* first of its statements.                                                 *)
StatesEach(facts, stated) ==
    \A k \in DOMAIN facts : facts[k].resolution.type = "resolved" =>
        \E j \in DOMAIN stated :
            /\ stated[j] = [name |-> facts[k].name, value |-> facts[k].resolution.value]
            /\ \A i \in 1..(j - 1) : stated[i].name # facts[k].name

Documented(source, help, table) ==
    LET facts == Resolve(source)
    IN  /\ AllResolved(facts) /\ ExclusionsAreLive(facts) /\ FixturesAreLive(source)
        /\ ExtractionIsComplete(source, facts)
        /\ \A stated \in {StatedInHelp(help), StatedInTable(table)} :
            StatesEach(facts, stated) /\ NoContradiction(stated) /\ NoPhantom(facts, stated)
        /\ \A listed \in {NamesOf(Filtered(help, LAMBDA l : l.type = "entry")), NamesOf(table)} :
            WithoutDefaults(source, facts) \subseteq Mentioned(listed)
=============================================================================
