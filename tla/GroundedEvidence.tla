---------------------------- MODULE GroundedEvidence ----------------------------
(***************************************************************************)
(* What the evidence of a grounded verification and of a research run owes *)
(* to whatever names it, over the inputs of Algorithms.  The patterns are  *)
(* read by a recursive translation, so this is kept apart from the rest.   *)
(***************************************************************************)
EXTENDS Algorithms, Globs

CONSTANT PathMax        \* bound: characters of a path

(* A pattern selects the files its tokens stand for, or with a bang in      *)
(* front every other one.                                                   *)
RelativePaths ==
    {s \in Texts(PathMax) :
        /\ s # <<>> /\ s[1] # Slash /\ s[Len(s)] # Slash
        /\ \A k \in 1..(Len(s) - 1) : s[k] # Slash \/ s[k + 1] # Slash}

GlobsSelect ==
    input.kind = "pattern" /\ input.items # <<>> /\ Plain(input.items) =>
        \A bang \in BOOLEAN :
            Expand(RelativePaths, [bang |-> bang, tokens |-> input.items])
                = {s \in RelativePaths : (s \in Meaning(input.items, PathMax)) # bang}

(* Evidence is faithful to what names it: locators, a claim, a pattern, a   *)
(* search, a citation.                                                      *)
EvidenceIsFaithful ==
    EvidenceIsExact /\ ExcerptIsTight /\ GlobsSelect /\ CitationsAreReal /\ PagesAreDistinct
=================================================================================
