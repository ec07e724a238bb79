------------------------------- MODULE MCMemory -------------------------------
(* A standing memory, two saves that may overlap, and one session's pushes. *)
EXTENDS Memory

ThreeMemories == {"old", "a", "b"}
OldAndNew == {"old", "a"}
TwoMemories == {"a", "b"}
OldMemory == {"old"}
NoMemory == {}
OneKind == {"fact"}
TwoKinds == {"fact", "skill"}
AllBands == {"far", "near", "twin"}
CloseBands == {"near", "twin"}
TwinBand == {"twin"}
TwoPushes == {"p1", "p2"}
NoPushes == {}
OneSession == {"s1"}
=============================================================================
