-------------------------------- MODULE Sorting --------------------------------
(* Orders that keep or break ties by place, as the standard library's sorts *)
(* and maxima do.                                                           *)
EXTENDS Naturals, FiniteSets, Sequences

(* The sequence from the largest measure to the smallest; equal ones keep   *)
(* their order.                                                             *)
StableDescending(seq, measure(_)) ==
    LET Before(i, j) == \/ measure(seq[i]) > measure(seq[j])
                        \/ measure(seq[i]) = measure(seq[j]) /\ i < j
    IN  [k \in DOMAIN seq |->
            seq[CHOOSE i \in DOMAIN seq : Cardinality({j \in DOMAIN seq : Before(j, i)}) = k - 1]]

(* The place of the largest measure: the last one, or the first one.        *)
LastMax(seq, measure(_)) ==
    CHOOSE i \in DOMAIN seq :
        \A j \in DOMAIN seq : \/ measure(seq[i]) > measure(seq[j])
                              \/ measure(seq[i]) = measure(seq[j]) /\ i >= j

FirstMax(seq, measure(_)) ==
    CHOOSE i \in DOMAIN seq :
        \A j \in DOMAIN seq : \/ measure(seq[i]) > measure(seq[j])
                              \/ measure(seq[i]) = measure(seq[j]) /\ i <= j

(* The elements at some places, in their order: a filter.                   *)
Picked(seq, places) ==
    [k \in 1..Cardinality(places) |->
        seq[CHOOSE i \in places : Cardinality({j \in places : j < i}) = k - 1]]

Filtered(seq, Test(_)) == Picked(seq, {k \in DOMAIN seq : Test(seq[k])})

Shortened(seq, most) == SubSeq(seq, 1, IF Len(seq) < most THEN Len(seq) ELSE most)
================================================================================
