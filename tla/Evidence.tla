------------------------------- MODULE Evidence -------------------------------
(***************************************************************************)
(* What a judge is shown of its sources.  Grounded verification assembles  *)
(* the text its locators name (grounded/mod.rs, assemble.rs, reader.rs,    *)
(* glob/expand.rs); a research panel is shown an excerpt of each page      *)
(* around the paragraph closest to the claim (research/evidence.rs).       *)
(*                                                                         *)
(* A source tree maps paths, which are numbers so that they can be sorted, *)
(* to files: [bytes, lines, text] with `lines` the byte length of each     *)
(* line.  A path outside the tree does not resolve, or escapes the root.   *)
(***************************************************************************)
EXTENDS Naturals, Sequences, FiniteSets, SequencesExt, FiniteSetsExt

CONSTANTS
    MaxBytes,       \* GROUNDED_VERIFY_MAX_BYTES, also the per-file limit
    MaxLocators     \* GROUNDED_VERIFY_MAX_LOCATORS

ASSUME EvidenceAssumption == MaxBytes \in Nat /\ MaxLocators \in Nat

Whole == <<0, 0>>
Failed(why) == [ok |-> FALSE, why |-> why]
Done(value) == [ok |-> TRUE, value |-> value]

(* The bytes of a run of lines: their own and the newlines between them.    *)
Joined(lines) == IF lines = <<>> THEN 0 ELSE FoldLeft(LAMBDA s, n : s + n, Len(lines) - 1, lines)

(* SystemSourceReader::read of the lines first..last of a path; Whole reads *)
(* all of it.  A range is 1-based and inclusive, its end is clamped, a start *)
(* past the end is an error, and so is a range that selects nothing.        *)
Read(tree, path, range) ==
    IF path \notin DOMAIN tree THEN Failed("not found")
    ELSE LET file == tree[path]
             last == IF range[2] < Len(file.lines) THEN range[2] ELSE Len(file.lines)
             taken == Joined(SubSeq(file.lines, range[1], last))
         IN  IF Joined(file.lines) > MaxBytes THEN Failed("too large")
             ELSE IF ~file.text THEN Failed("not text")
             ELSE IF Joined(file.lines) = 0 THEN Failed("empty")
             ELSE IF range = Whole THEN Done(Joined(file.lines))
             ELSE IF range[1] < 1 \/ range[1] > range[2] THEN Failed("bad range")
             ELSE IF range[1] > Len(file.lines) THEN Failed("past the end")
             ELSE IF taken = 0 THEN Failed("empty")
             ELSE Done(taken)

(* classify and expand: the units one locator stands for.  A glob is the    *)
(* set of paths it matches; those present are taken in sorted order.        *)
Units(tree, locator) ==
    LET matched == locator.glob \cap DOMAIN tree
    IN  IF locator.path # {} /\ locator.glob # {} THEN Failed("both")
        ELSE IF locator.path = {} /\ locator.glob = {} THEN Failed("neither")
        ELSE IF locator.glob = {} THEN Done(<<<<CHOOSE p \in locator.path : TRUE, locator.range>>>>)
        ELSE IF locator.range # Whole THEN Failed("range with a glob")
        ELSE IF matched = {} THEN Failed("no match")
        ELSE Done([k \in 1..Cardinality(matched) |->
                      <<SetToSortSeq(matched, LAMBDA p, q : p < q)[k], Whole>>])

(* Defect: the cap counts the locators, not what they expand to.            *)
AddUnitsByLocator(tree, s, locator) ==
    LET u == Units(tree, locator)
    IN  IF ~s.ok THEN s
        ELSE IF ~u.ok THEN u
        ELSE IF Len(s.value) + 1 > MaxLocators THEN Failed("too many")
        ELSE Done(s.value \o u.value)

(* The first loop of assemble: the cap is checked after each locator.       *)
AddUnits(tree, s, locator) ==
    LET u == Units(tree, locator)
    IN  IF ~s.ok THEN s
        ELSE IF ~u.ok THEN u
        ELSE IF Len(s.value \o u.value) > MaxLocators THEN Failed("too many")
        ELSE Done(s.value \o u.value)

(* The second loop: each unit is read, counted, and entered in the manifest. *)
AddText(tree, s, unit) ==
    LET r == Read(tree, unit[1], unit[2])
        total == FoldLeft(LAMBDA n, e : n + e.bytes, 0, s.value)
    IN  IF ~s.ok THEN s
        ELSE IF ~r.ok THEN r
        ELSE IF total + r.value > MaxBytes THEN Failed("too long")
        ELSE Done(Append(s.value, [path |-> unit[1], range |-> unit[2], bytes |-> r.value]))

(* assemble: the manifest of the evidence, or the first thing wrong.        *)
Assemble(tree, locators) ==
    LET Collect(s, l) == AddUnits(tree, s, l)
        Take(s, u) == AddText(tree, s, u)
        units == FoldLeft(Collect, Done(<<>>), locators)
    IN  IF locators = <<>> THEN Failed("no locators")
        ELSE IF ~units.ok THEN units
        ELSE FoldLeft(Take, Done(<<>>), units.value)
-----------------------------------------------------------------------------
(* The excerpt.  A page is a sequence of paragraphs [chars, shared]: their  *)
(* length and how many words they share with the claim.                     *)

(* The paragraph closest to the claim, the earliest of equals.              *)
Anchor(page) ==
    Min({i \in DOMAIN page : \A j \in DOMAIN page : page[j].shared <= page[i].shared})

(* take: a paragraph joins the excerpt when its text and newline fit.       *)
Fits(page, i, budget) == i \in DOMAIN page /\ page[i].chars + 1 <= budget

(* One round of the loop: the next paragraph, then the previous one.        *)
Grow(page, w) ==
    LET after == IF Fits(page, w.hi + 1, w.budget)
                 THEN [w EXCEPT !.hi = @ + 1, !.budget = @ - page[w.hi + 1].chars - 1] ELSE w
    IN  IF Fits(page, after.lo - 1, after.budget)
        THEN [after EXCEPT !.lo = @ - 1, !.budget = @ - page[after.lo - 1].chars - 1] ELSE after

(* evidence_excerpt: the paragraphs lo..hi of a page too long to be shown   *)
(* whole, grown until neither neighbour fits; an anchor that does not fit   *)
(* alone is cut.                                                            *)
Excerpt(page, max) ==
    LET a == Anchor(page)
        GrowOnce(w, k) == Grow(page, w)
        start == [lo |-> a, hi |-> a, budget |-> max - page[a].chars]
    IN  IF Joined([i \in DOMAIN page |-> page[i].chars]) <= max
        THEN [lo |-> 1, hi |-> Len(page), cut |-> FALSE]
        ELSE IF page[a].chars > max THEN [lo |-> a, hi |-> a, cut |-> TRUE]
        ELSE LET w == FoldLeft(GrowOnce, start, page) IN [lo |-> w.lo, hi |-> w.hi, cut |-> FALSE]
=============================================================================
