--------------------------- MODULE Corrective_proofs ---------------------------
(***************************************************************************)
(* Proofs about Corrective, for any tools, any size of the ensemble, any   *)
(* framings and computations and any relation of likeness between          *)
(* framings.                                                               *)
(*                                                                         *)
(* The two recursive functions of the model, the sum of a panel's usages   *)
(* and the passes that dedup keeps, are unfolded by induction on a set of  *)
(* numbers; the invariant follows a call through its phases.               *)
(***************************************************************************)
EXTENDS Corrective, FiniteSetTheorems, WellFoundedInduction, TLAPS

(* Induction on a set of numbers.                                           *)
LEMMA NumberInduction ==
    ASSUME NEW B, 0 \in B, \A n \in Nat : n \in B => n + 1 \in B
    PROVE  Nat \subseteq B
  <1> DEFINE Rest == Nat \ B
  <1> SUFFICES ASSUME Rest # {} PROVE FALSE
    OBVIOUS
  <1>1. PICK n \in Rest : \A m \in Rest : <<m, n>> \notin OpToRel(<, Nat)
    BY WFMin, NatLessThanWellFounded
  <1>2. n # 0 /\ n - 1 \in Nat
    OBVIOUS
  <1>3. n - 1 \notin B
    BY <1>2
  <1>4. <<n - 1, n>> \in OpToRel(<, Nat)
    BY <1>2 DEF OpToRel
  <1> QED
    BY <1>1, <1>2, <1>3, <1>4
-----------------------------------------------------------------------------
(* The sum of the usages of a set of passes.                                *)

(* Those of S whose usage was reported.                                     *)
Billed(P, S) == {i \in S : P[i].usage = 1}

(* f adds the usages of the subsets of S, one pass after the other.         *)
AddsUp(f, P, S) ==
    f = [s \in SUBSET S |->
            IF s = {} THEN 0
            ELSE P[CHOOSE x \in s : TRUE].usage + f[s \ {CHOOSE x \in s : TRUE}]]

(* The library's fold is the choice of a function that adds up.             *)
LEMMA UsageFunction ==
    ASSUME NEW P, NEW S
    PROVE  UsageOf(P, S) = (CHOOSE f : AddsUp(f, P, S))[S]
  BY Zenon DEF UsageOf, MapThenSumSet, MapThenFoldSet, AddsUp

(* Only one function adds them up.                                          *)
LEMMA OneSum ==
    ASSUME NEW P, NEW S, IsFiniteSet(S), NEW f, NEW g, AddsUp(f, P, S), AddsUp(g, P, S)
    PROVE  f[S] = g[S]
  <1> DEFINE B == {n \in Nat : \A s \in SUBSET S : Cardinality(s) = n => f[s] = g[s]}
  <1>1. \A s \in SUBSET S : IsFiniteSet(s) /\ Cardinality(s) \in Nat
    BY FS_Subset, FS_CardinalityType
  <1>2. 0 \in B
    <2>1. ASSUME NEW s \in SUBSET S, Cardinality(s) = 0 PROVE f[s] = g[s]
      <3>1. s = {}
        BY <1>1, <2>1, FS_EmptySet
      <3> QED
        BY <3>1 DEF AddsUp
    <2> QED
      BY <2>1
  <1>3. ASSUME NEW n \in Nat, n \in B PROVE n + 1 \in B
    <2>1. ASSUME NEW s \in SUBSET S, Cardinality(s) = n + 1 PROVE f[s] = g[s]
      <3> DEFINE x == CHOOSE x \in s : TRUE
      <3>1. s # {}
        BY <2>1, FS_EmptySet
      <3>2. x \in s
        BY <3>1
      <3>3. f[s] = P[x].usage + f[s \ {x}] /\ g[s] = P[x].usage + g[s \ {x}]
        BY <3>1 DEF AddsUp
      <3> HIDE DEF x
      <3>4. Cardinality(s \ {x}) = n
        BY <1>1, <2>1, <3>2, FS_RemoveElement
      <3>5. s \ {x} \in SUBSET S
        OBVIOUS
      <3> QED
        BY <1>3, <3>3, <3>4, <3>5
    <2> QED
      BY <2>1
  <1> HIDE DEF B
  <1>4. Nat \subseteq B
    BY <1>2, <1>3, NumberInduction
  <1> QED
    BY <1>1, <1>4 DEF B

(* The usage of a set of passes is the number of those that report one.     *)
LEMMA UsageCounts ==
    ASSUME NEW P, NEW S, IsFiniteSet(S), \A i \in S : P[i].usage \in {0, 1}
    PROVE  UsageOf(P, S) = Cardinality(Billed(P, S))
  <1> DEFINE g == [s \in SUBSET S |-> Cardinality(Billed(P, s))]
  <1>1. ASSUME NEW s \in SUBSET S, s # {}, NEW x \in s
        PROVE  Cardinality(Billed(P, s)) = P[x].usage + Cardinality(Billed(P, s \ {x}))
    <2>1. IsFiniteSet(Billed(P, s)) /\ Cardinality(Billed(P, s)) \in Nat
      BY FS_Subset, FS_CardinalityType DEF Billed
    <2>2. CASE P[x].usage = 1
      <3>1. Billed(P, s \ {x}) = Billed(P, s) \ {x} /\ x \in Billed(P, s)
        BY <2>2 DEF Billed
      <3>2. Cardinality(Billed(P, s) \ {x}) = Cardinality(Billed(P, s)) - 1
        BY <2>1, <3>1, FS_RemoveElement
      <3>3. Cardinality(Billed(P, s \ {x})) = Cardinality(Billed(P, s)) - 1
        BY <3>1, <3>2, Zenon
      <3> QED
        BY <2>1, <2>2, <3>3
    <2>3. CASE P[x].usage = 0
      <3>1. Billed(P, s \ {x}) = Billed(P, s)
        BY <2>3 DEF Billed
      <3> QED
        BY <2>1, <2>3, <3>1
    <2> QED
      BY <2>2, <2>3
  <1>2. AddsUp(g, P, S)
    <2>1. ASSUME NEW s \in SUBSET S
          PROVE  Cardinality(Billed(P, s))
                   = IF s = {} THEN 0
                     ELSE P[CHOOSE x \in s : TRUE].usage + g[s \ {CHOOSE x \in s : TRUE}]
      <3>1. CASE s = {}
        BY <3>1, FS_EmptySet DEF Billed
      <3>2. CASE s # {}
        <4> DEFINE x == CHOOSE x \in s : TRUE
        <4>1. x \in s
          BY <3>2
        <4>2. g[s \ {x}] = Cardinality(Billed(P, s \ {x}))
          OBVIOUS
        <4> HIDE DEF x, g
        <4>3. Cardinality(Billed(P, s)) = P[x].usage + g[s \ {x}]
          BY <1>1, <3>2, <4>1, <4>2
        <4> QED
          BY <3>2, <4>3 DEF x
      <3> QED
        BY <3>1, <3>2
    <2> QED
      BY <2>1 DEF AddsUp
  <1> DEFINE f == CHOOSE f : AddsUp(f, P, S)
  <1>3. AddsUp(f, P, S)
    BY <1>2
  <1>4. f[S] = g[S]
    <2> HIDE DEF f, g
    <2> QED
      BY <1>2, <1>3, OneSum
  <1> QED
    BY <1>4, UsageFunction
-----------------------------------------------------------------------------
(* The passes that dedup keeps.                                             *)

Like(i, j) == Similar(passes[i].framing, passes[j].framing)

(* What is kept after pass i, of what was kept before it.                   *)
KeptWith(i, before) ==
    IF i \in Completed(passes) /\ \A j \in before : ~Like(i, j) THEN before \cup {i} ELSE before

(* kept tells what is kept after each of the first n passes.                *)
Dedups(kept, n) == kept = [i \in 0..n |-> IF i = 0 THEN {} ELSE KeptWith(i, kept[i - 1])]

(* What dedup keeps is what some such function tells after the last pass.   *)
LEMMA KeptFunction == Kept = (CHOOSE kept : Dedups(kept, k))[k]
  BY Zenon DEF Kept, Dedups, KeptWith, Like

(* There is one for any number of passes.                                   *)
LEMMA DedupExists ==
    ASSUME NEW n \in Nat
    PROVE  \E kept : Dedups(kept, n)
  <1> DEFINE B == {m \in Nat : \E kept : Dedups(kept, m)}
  <1>1. 0 \in B
    <2>1. Dedups([i \in 0..0 |-> {}], 0)
      BY DEF Dedups
    <2> QED
      BY <2>1
  <1>2. ASSUME NEW m \in Nat, m \in B PROVE m + 1 \in B
    <2>1. PICK f : Dedups(f, m)
      BY <1>2
    <2> DEFINE g == [i \in 0..(m + 1) |-> IF i = m + 1 THEN KeptWith(m + 1, f[m]) ELSE f[i]]
    <2>2. ASSUME NEW i \in 0..(m + 1)
          PROVE  g[i] = IF i = 0 THEN {} ELSE KeptWith(i, g[i - 1])
      <3>1. CASE i = m + 1
        <4>1. g[i] = KeptWith(m + 1, f[m]) /\ g[i - 1] = f[m] /\ i # 0
          BY <3>1
        <4> HIDE DEF g
        <4> QED
          BY <3>1, <4>1
      <3>2. CASE i # m + 1
        <4>1. i \in 0..m /\ g[i] = f[i] /\ (i # 0 => i - 1 \in 0..m /\ g[i - 1] = f[i - 1])
          BY <3>2
        <4>2. f[i] = IF i = 0 THEN {} ELSE KeptWith(i, f[i - 1])
          BY <2>1, <4>1 DEF Dedups
        <4> HIDE DEF g
        <4> QED
          BY <4>1, <4>2
      <3> QED
        BY <3>1, <3>2
    <2>3. Dedups(g, m + 1)
      <3>1. g = [i \in 0..(m + 1) |-> g[i]]
        OBVIOUS
      <3> HIDE DEF g
      <3> QED
        BY <2>2, <3>1 DEF Dedups
    <2> QED
      BY <2>3
  <1> HIDE DEF B
  <1>3. Nat \subseteq B
    BY <1>1, <1>2, NumberInduction
  <1> QED
    BY <1>3 DEF B

(* K keeps, of the passes up to n, unlike ones that span the completed.     *)
Spans(K, n) ==
    /\ K \subseteq Completed(passes) \cap (1..n)
    /\ \A i, j \in K : i # j => ~Like(i, j)
    /\ \A i \in Completed(passes) \cap (1..n) : i \in K \/ \E j \in K : j < i /\ Like(i, j)

(* So what dedup keeps is unlike, and spans what completed.                 *)
LEMMA KeptSpans ==
    ASSUME k \in Nat
    PROVE  Spans(Kept, k)
  <1> DEFINE K == CHOOSE kept : Dedups(kept, k)
             B == {n \in Nat : n <= k => Spans(K[n], n)}
  <1>1. Dedups(K, k)
    BY DedupExists
  <1>2. 0 \in B
    <2>1. K[0] = {}
      <3> HIDE DEF K
      <3> QED
        BY <1>1 DEF Dedups
    <2> QED
      BY <2>1 DEF Spans
  <1>3. ASSUME NEW n \in Nat, n \in B PROVE n + 1 \in B
    <2> SUFFICES ASSUME n + 1 <= k PROVE Spans(K[n + 1], n + 1)
      OBVIOUS
    <2>1. Spans(K[n], n)
      BY <1>3
    <2>2. K[n + 1] = KeptWith(n + 1, K[n])
      <3> HIDE DEF K
      <3>1. n + 1 \in 0..k /\ n + 1 # 0 /\ (n + 1) - 1 = n
        OBVIOUS
      <3>2. K = [i \in 0..k |-> IF i = 0 THEN {} ELSE KeptWith(i, K[i - 1])]
        BY <1>1 DEF Dedups
      <3>3. K[n + 1] = KeptWith(n + 1, K[(n + 1) - 1])
        BY <3>1, <3>2
      <3> QED
        BY <3>1, <3>3
    <2> HIDE DEF K
    <2>3. \A i, j \in DOMAIN passes : Like(i, j) <=> Like(j, i)
      BY DEF Like, Similar
    <2>4. \A i \in Completed(passes) \cap (1..(n + 1)) : i = n + 1 \/ i \in Completed(passes) \cap (1..n)
      OBVIOUS
    <2>5. CASE n + 1 \in Completed(passes) /\ \A j \in K[n] : ~Like(n + 1, j)
      <3>1. K[n + 1] = K[n] \cup {n + 1}
        BY <2>2, <2>5 DEF KeptWith
      <3>2. K[n + 1] \subseteq Completed(passes) \cap (1..(n + 1))
        BY <2>1, <2>5, <3>1 DEF Spans
      <3>3. \A i, j \in K[n + 1] : i # j => ~Like(i, j)
        BY <2>1, <2>3, <2>5, <3>1 DEF Spans, Completed
      <3>4. ASSUME NEW i \in Completed(passes) \cap (1..(n + 1))
            PROVE  i \in K[n + 1] \/ \E j \in K[n + 1] : j < i /\ Like(i, j)
        BY <2>1, <2>4, <3>1 DEF Spans
      <3> QED
        BY <3>2, <3>3, <3>4 DEF Spans
    <2>6. CASE ~(n + 1 \in Completed(passes) /\ \A j \in K[n] : ~Like(n + 1, j))
      <3>1. K[n + 1] = K[n]
        BY <2>2, <2>6 DEF KeptWith
      <3>2. K[n] \subseteq Completed(passes) \cap (1..(n + 1))
        BY <2>1 DEF Spans
      <3>3. ASSUME NEW i \in Completed(passes) \cap (1..(n + 1))
            PROVE  i \in K[n] \/ \E j \in K[n] : j < i /\ Like(i, j)
        <4>1. CASE i = n + 1
          <5>1. PICK j \in K[n] : Like(n + 1, j)
            BY <2>6, <4>1
          <5>2. j \in 1..n
            BY <2>1 DEF Spans
          <5> QED
            BY <4>1, <5>1, <5>2
        <4> QED
          BY <2>1, <2>4, <4>1 DEF Spans
      <3> QED
        BY <2>1, <3>1, <3>2, <3>3 DEF Spans
    <2> QED
      BY <2>5, <2>6
  <1> HIDE DEF B
  <1>4. Nat \subseteq B
    BY <1>2, <1>3, NumberInduction
  <1>5. Spans(K[k], k)
    BY <1>4 DEF B
  <1> QED
    BY <1>5, KeptFunction
-----------------------------------------------------------------------------
(* The invariant.                                                           *)

(* What a pass that returned reports: a completion is billed, and one that  *)
(* refutes names its error.                                                 *)
Sound(p) ==
    /\ p \in PassResults
    /\ p.ok \in BOOLEAN /\ p.usage \in {0, 1}
    /\ ~p.ok => p.class \in Classes
    /\ p.ok => p.usage = 1
    /\ p.ok /\ tool \in {"verify", "grounded_verify"} =>
          /\ p.verdict \in {"supported", "refuted"}
          /\ p.verdict = "refuted" => p.found
          /\ p.spec \in Specs \cup {"none", "vague"}

PassesSound ==
    /\ DOMAIN passes \subseteq 1..k
    /\ passes = [i \in DOMAIN passes |-> passes[i]]
    /\ \A i \in DOMAIN passes : Sound(passes[i])

Typed ==
    /\ tool \in Tools
    /\ valid \in BOOLEAN
    /\ k \in 1..Ensemble
    /\ truth \in [Specs -> Settlements]
    /\ units \in {1, 2}
    /\ phase \in {"called", "recalling", "asking", "over"}
    /\ attempt \in {1, 2}
    /\ engine \in EngineSays \cup {"none"}
    /\ spent \in Nat /\ charged \in Nat /\ unmetered \in Nat
    /\ (phase = "over") = (result # Unset)

(* Before the first completion nothing is charged; while completions are    *)
(* awaited a panel's charges are with its passes, another tool's in spent.  *)
Accounted ==
    /\ phase \in {"called", "recalling"} =>
          DOMAIN passes = {} /\ spent = 0 /\ charged = 0 /\ unmetered = 0
    /\ phase = "recalling" => tool = "elicit"
    /\ phase = "asking" /\ tool \in Panels =>
          Cardinality(Billed(passes, DOMAIN passes)) + unmetered = charged
    /\ phase = "asking" /\ tool \notin Panels =>
          spent = charged /\ unmetered = 0 /\ (tool = "unstick" => charged = 0)

(* What a call that is over tells.                                          *)
ResultTyped == Over => result.class \in ToldClasses /\ result.usage \in Nat

Inv ==
    /\ Typed /\ PassesSound /\ Accounted /\ ResultTyped
    /\ BillingIsExact /\ VerdictIsBacked /\ ComputationIsNotVoted /\ PerspectivesSpan
-----------------------------------------------------------------------------
(* Nothing is charged and nothing is over at first.                         *)
LEMMA InvInit == Init => Inv
  <1> SUFFICES ASSUME Init PROVE Inv
    OBVIOUS
  <1>1. Typed
    <2>1. k \in 1..Ensemble
      BY CorrectiveAssumption DEF Init
    <2>2. truth \in [Specs -> Settlements]
      BY DEF Init, Settlements
    <2> QED
      BY <2>1, <2>2 DEF Init, Typed
  <1>2. DOMAIN passes = {} /\ passes = [i \in DOMAIN passes |-> passes[i]]
    BY DEF Init
  <1>3. phase = "called" /\ spent = 0 /\ charged = 0 /\ unmetered = 0
    BY DEF Init
  <1> QED
    BY <1>1, <1>2, <1>3
       DEF Inv, PassesSound, Accounted, ResultTyped, Over, Answered,
           BillingIsExact, VerdictIsBacked, ComputationIsNotVoted, PerspectivesSpan

(* While a call is not over it has promised nothing.                        *)
LEMMA NotOverYet ==
    ASSUME Typed', PassesSound', Accounted', phase' # "over"
    PROVE  Inv'
  BY DEF Inv, ResultTyped, Over, Answered, BillingIsExact, VerdictIsBacked, ComputationIsNotVoted, PerspectivesSpan

(* A set of passes is finite, and so is what is billed of it.               *)
LEMMA PassesFinite ==
    ASSUME PassesSound, k \in Nat
    PROVE  \A S \in SUBSET (DOMAIN passes) :
              IsFiniteSet(S) /\ Cardinality(S) \in Nat
              /\ UsageOf(passes, S) = Cardinality(Billed(passes, S))
              /\ UsageOf(passes, S) \in Nat
  <1> SUFFICES ASSUME NEW S \in SUBSET (DOMAIN passes)
               PROVE  /\ IsFiniteSet(S) /\ Cardinality(S) \in Nat
                      /\ UsageOf(passes, S) = Cardinality(Billed(passes, S))
                      /\ UsageOf(passes, S) \in Nat
    OBVIOUS
  <1>1. IsFiniteSet(1..k)
    BY FS_Interval
  <1>2. IsFiniteSet(S) /\ Cardinality(S) \in Nat
    BY <1>1, FS_Subset, FS_CardinalityType DEF PassesSound
  <1>3. \A i \in S : passes[i].usage \in {0, 1}
    BY DEF PassesSound, Sound
  <1>4. UsageOf(passes, S) = Cardinality(Billed(passes, S))
    BY <1>2, <1>3, UsageCounts
  <1>5. Cardinality(Billed(passes, S)) \in Nat
    BY <1>2, FS_Subset, FS_CardinalityType DEF Billed
  <1> QED
    BY <1>2, <1>4, <1>5

(* A panel's passes are the completed and the failed.                       *)
LEMMA UsageSplits ==
    ASSUME PassesSound, k \in Nat
    PROVE  UsageOf(passes, Completed(passes)) + UsageOf(passes, Failed(passes))
             = Cardinality(Billed(passes, DOMAIN passes))
  <1> DEFINE C == Billed(passes, Completed(passes))
             F == Billed(passes, Failed(passes))
             A == Billed(passes, DOMAIN passes)
  <1>1. Completed(passes) \in SUBSET (DOMAIN passes) /\ Failed(passes) \in SUBSET (DOMAIN passes)
    BY DEF Completed, Failed
  <1>2. A = C \cup F /\ C \cap F = {}
    BY DEF Billed, Completed, Failed
  <1>3. IsFiniteSet(C) /\ IsFiniteSet(F)
    BY <1>1, PassesFinite, FS_Subset DEF Billed
  <1>4. Cardinality(C) \in Nat /\ Cardinality(F) \in Nat
    BY <1>3, FS_CardinalityType
  <1> HIDE DEF C, F, A
  <1>5. Cardinality(A) = Cardinality(C) + Cardinality(F) - Cardinality(C \cap F)
    BY <1>2, <1>3, FS_Union
  <1>6. Cardinality(C \cap F) = 0
    BY <1>2, FS_EmptySet
  <1>7. Cardinality(A) = Cardinality(C) + Cardinality(F)
    BY <1>4, <1>5, <1>6
  <1>8. UsageOf(passes, Completed(passes)) = Cardinality(C) /\ UsageOf(passes, Failed(passes)) = Cardinality(F)
    BY <1>1, PassesFinite DEF C, F
  <1> QED
    BY <1>7, <1>8 DEF A
-----------------------------------------------------------------------------
(* A pass that returns is charged what it reports and what was dropped.     *)
LEMMA PassKeeps ==
    ASSUME Inv, NEW i \in 1..k, NEW p, NEW dropped \in Nat,
           Awaited(i), Sound(p), Extend(i, p),
           charged' = charged + p.usage + dropped, unmetered' = unmetered + dropped,
           UNCHANGED <<fixed, phase, attempt, engine, spent, result>>
    PROVE  Inv'
  <1>1. p.usage \in {0, 1}
    BY DEF Sound
  <1>2. Typed'
    BY <1>1 DEF Inv, Typed, fixed
  <1>3. DOMAIN passes' = DOMAIN passes \cup {i} /\ i \notin DOMAIN passes
    BY DEF Extend, Awaited
  <1>4. passes'[i] = p /\ \A j \in DOMAIN passes : passes'[j] = passes[j]
    BY <1>3 DEF Extend
  <1>5. PassesSound'
    <2>1. passes' = [j \in DOMAIN passes' |-> passes'[j]]
      BY DEF Extend
    <2>2. \A j \in DOMAIN passes' : Sound(passes'[j])
      BY <1>3, <1>4 DEF Inv, PassesSound
    <2>3. (\A j \in DOMAIN passes : Sound(passes[j]))'
      <3> SUFFICES ASSUME NEW j \in DOMAIN passes' PROVE Sound(passes[j])'
        OBVIOUS
      <3>1. Sound(passes'[j])
        BY <2>2
      <3> QED
        BY <3>1 DEF Sound, fixed
    <2> QED
      BY <1>3, <2>1, <2>3 DEF Inv, PassesSound, fixed
  <1>6. Accounted'
    <2> DEFINE A == Billed(passes, DOMAIN passes)
               B == Billed(passes', DOMAIN passes')
    <2>1. IsFiniteSet(A) /\ Cardinality(A) \in Nat /\ i \notin A
      <3>1. IsFiniteSet(DOMAIN passes)
        BY PassesFinite DEF Inv, Typed
      <3>2. A \subseteq DOMAIN passes
        BY DEF Billed
      <3> QED
        BY <1>3, <3>1, <3>2, FS_Subset, FS_CardinalityType
    <2>2. B = A \cup (IF p.usage = 1 THEN {i} ELSE {})
      BY <1>3, <1>4 DEF Billed
    <2>3. Cardinality(B) = Cardinality(A) + p.usage
      <3> HIDE DEF A, B
      <3>1. CASE p.usage = 1
        BY <2>1, <2>2, <3>1, FS_AddElement
      <3>2. CASE p.usage = 0
        <4>1. B = A
          BY <2>2, <3>2
        <4> QED
          BY <2>1, <3>2, <4>1
      <3> QED
        BY <1>1, <3>1, <3>2
    <2>4. Cardinality(A) + unmetered = charged /\ tool \in Panels /\ phase = "asking"
      BY DEF Inv, Accounted, Awaited
    <2>5. Cardinality(B) + unmetered' = charged'
      BY <1>1, <2>1, <2>3, <2>4 DEF Inv, Typed
    <2> HIDE DEF A
    <2> QED
      BY <2>4, <2>5 DEF Accounted, fixed
  <1> QED
    BY <1>2, <1>5, <1>6, NotOverYet DEF Awaited

(* A pass returns: refused or timed out, invalid, or completed.             *)
LEMMA PassReturnsKeeps ==
    ASSUME Inv, PassReturns
    PROVE  Inv'
  <1>1. PICK i \in 1..k : PassFails(i) \/ PassInvalid(i) \/ PassCompletes(i)
    BY DEF PassReturns
  <1>2. CASE PassFails(i)
    <2>1. PICK class \in {"refusal", "timeout"} :
              LET usage == IF class = "refusal" THEN 1 ELSE 0
              IN  /\ Extend(i, [ok |-> FALSE, class |-> class, usage |-> usage])
                  /\ charged' = charged + usage
      BY <1>2 DEF PassFails
    <2> DEFINE p == [ok |-> FALSE, class |-> class, usage |-> IF class = "refusal" THEN 1 ELSE 0]
    <2>2. Sound(p)
      BY DEF Sound, PassResults, Classes
    <2>3. charged' = charged + p.usage + 0 /\ unmetered' = unmetered + 0
      BY <1>2, <2>1 DEF PassFails, Inv, Typed
    <2>4. Extend(i, p)
      BY <2>1
    <2> HIDE DEF p
    <2> QED
      BY <1>2, <2>2, <2>3, <2>4, PassKeeps DEF PassFails
  <1>3. CASE PassInvalid(i)
    <2> DEFINE p == [ok |-> FALSE, class |-> "validation_failure", usage |-> 0]
    <2>1. Sound(p)
      BY DEF Sound, PassResults, Classes
    <2>2. charged' = charged + p.usage + 1 /\ unmetered' = unmetered + 1
      BY <1>3 DEF PassInvalid, Inv, Typed
    <2>3. Extend(i, p)
      BY <1>3 DEF PassInvalid
    <2> HIDE DEF p
    <2> QED
      BY <1>3, <2>1, <2>2, <2>3, PassKeeps DEF PassInvalid
  <1>4. CASE PassCompletes(i)
    <2>1. PICK o \in Outputs :
              /\ Acceptable(o)
              /\ Extend(i, IF tool = "diverge" THEN [ok |-> TRUE, usage |-> 1, framing |-> o.framing]
                           ELSE [ok |-> TRUE, usage |-> 1, verdict |-> o.verdict,
                                 found |-> o.found, spec |-> o.spec])
      BY <1>4 DEF PassCompletes
    <2>2. tool \in {"verify", "diverge", "grounded_verify"}
      BY <1>4 DEF PassCompletes, Awaited, Panels
    <2>3. CASE tool = "diverge"
      <3> DEFINE p == [ok |-> TRUE, usage |-> 1, framing |-> o.framing]
      <3>1. o.framing \in Framings
        BY <2>1, <2>3 DEF Outputs, Acceptable
      <3>2. Sound(p)
        BY <2>3, <3>1 DEF Sound, PassResults
      <3>3. charged' = charged + p.usage + 0 /\ unmetered' = unmetered + 0
        BY <1>4 DEF PassCompletes, Inv, Typed
      <3>4. Extend(i, p)
        BY <2>1, <2>3
      <3> HIDE DEF p
      <3> QED
        BY <1>4, <3>2, <3>3, <3>4, PassKeeps DEF PassCompletes
    <2>4. CASE tool \in {"verify", "grounded_verify"}
      <3> DEFINE p == [ok |-> TRUE, usage |-> 1, verdict |-> o.verdict,
                       found |-> o.found, spec |-> o.spec]
      <3>1. /\ o.verdict \in {"supported", "refuted"} /\ o.found \in BOOLEAN
            /\ o.spec \in Specs \cup {"none", "vague"}
        BY <2>4 DEF Outputs
      <3>2. o.verdict = "refuted" => o.found
        BY <2>1, <2>4 DEF Acceptable
      <3>3. Sound(p)
        <4>1. p \in PassResults
          BY <3>1 DEF PassResults
        <4>2. p.ok = TRUE /\ p.usage = 1 /\ p.verdict = o.verdict /\ p.spec = o.spec
          OBVIOUS
        <4>3. p.verdict = "refuted" => p.found
          BY <3>2
        <4> HIDE DEF p
        <4> QED
          BY <3>1, <4>1, <4>2, <4>3 DEF Sound
      <3>4. charged' = charged + p.usage + 0 /\ unmetered' = unmetered + 0
        BY <1>4 DEF PassCompletes, Inv, Typed
      <3>5. Extend(i, p)
        BY <2>1, <2>4
      <3> HIDE DEF p
      <3> QED
        BY <1>4, <3>3, <3>4, <3>5, PassKeeps DEF PassCompletes
    <2> QED
      BY <2>2, <2>3, <2>4
  <1> QED
    BY <1>1, <1>2, <1>3, <1>4
-----------------------------------------------------------------------------
(* A call whose input is rejected or accepted has been charged nothing.     *)
LEMMA CalledKeeps ==
    ASSUME Inv, Reject \/ Accept
    PROVE  Inv'
  <1>1. CASE Reject
    <2>1. result'.class = "invalid_input" /\ result'.usage = 0 /\ phase' = "over"
      BY <1>1 DEF Reject, Fail
    <2>2. result' # Unset
      BY <2>1 DEF Unset
    <2>3. Typed' /\ PassesSound' /\ Accounted'
      BY <1>1, <2>1, <2>2 DEF Reject, Inv, Typed, PassesSound, Sound, Accounted, fixed
    <2>4. ~Answered'
      BY <2>1 DEF Answered
    <2>5. unmetered' = 0 /\ charged' = 0
      BY <1>1 DEF Reject, Inv, Accounted
    <2>6. ResultTyped'
      BY <2>1 DEF ResultTyped, ToldClasses
    <2> QED
      BY <2>1, <2>3, <2>4, <2>5, <2>6
         DEF Inv, BillingIsExact, VerdictIsBacked, ComputationIsNotVoted, PerspectivesSpan
  <1>2. CASE Accept
    <2>1. PICK next \in {"recalling", "asking"} :
              phase' = next /\ (next = "recalling" => tool = "elicit")
      BY <1>2 DEF Accept
    <2>2. Typed' /\ PassesSound'
      BY <1>2, <2>1 DEF Accept, Inv, Typed, PassesSound, Sound, fixed
    <2>3. Billed(passes, DOMAIN passes) = {} /\ spent = 0 /\ charged = 0 /\ unmetered = 0
      BY <1>2 DEF Accept, Inv, Accounted, Billed
    <2>4. UNCHANGED <<fixed, passes, spent, charged, unmetered>> /\ (phase = "called" => DOMAIN passes = {})
      BY <1>2 DEF Accept, Inv, Accounted
    <2>5. Cardinality(Billed(passes', DOMAIN passes')) = 0
      BY <2>3, <2>4, FS_EmptySet
    <2>6. phase = "called"
      BY <1>2 DEF Accept
    <2>7. Accounted'
      BY <2>1, <2>3, <2>4, <2>5, <2>6 DEF Accounted, fixed
    <2> QED
      BY <2>1, <2>2, <2>7, NotOverYet
  <1> QED
    BY <1>1, <1>2

(* A call that ends, and is not the answer of a panel, has kept the books   *)
(* if what it reports and what was dropped are what it was charged.         *)
LEMMA EndKeeps ==
    ASSUME Inv, UNCHANGED <<fixed, passes>>, phase' = "over",
           tool \notin Panels \/ result'.class # "ok", result'.class \in ToldClasses,
           attempt' \in {1, 2}, engine' \in EngineSays \cup {"none"},
           spent' \in Nat, charged' \in Nat, unmetered' \in Nat,
           result'.usage + unmetered' = charged', result'.usage \in Nat,
           tool = "decide" \/ (tool = "elicit" /\ result'.class # "config_error") => unmetered' = 0
    PROVE  Inv'
  <1>1. result' # Unset
    BY DEF Unset, ToldClasses, Classes
  <1>2. Typed' /\ PassesSound' /\ Accounted' /\ ResultTyped'
    BY <1>1 DEF Inv, Typed, PassesSound, Sound, Accounted, ResultTyped, fixed
  <1>3. tool' \notin Panels \/ ~Answered'
    BY DEF Answered, fixed
  <1>4. BillingIsExact'
    BY <1>3 DEF BillingIsExact, fixed
  <1>5. VerdictIsBacked' /\ ComputationIsNotVoted' /\ PerspectivesSpan'
    BY <1>3 DEF VerdictIsBacked, ComputationIsNotVoted, PerspectivesSpan, Panels
  <1> QED
    BY <1>2, <1>4, <1>5 DEF Inv

(* elicit's recall: what it is charged is reported, unless the load failed. *)
LEMMA RecalledKeeps ==
    ASSUME Inv, Recalled
    PROVE  Inv'
  <1>1. /\ tool = "elicit" /\ tool \notin Panels /\ phase = "recalling"
        /\ spent = 0 /\ charged = 0 /\ unmetered = 0
        /\ UNCHANGED <<fixed, passes, attempt, engine>>
    BY DEF Recalled, Inv, Accounted, Panels
  <1>2. CASE phase' = "asking" /\ charged' = 1 /\ spent' = 1 /\ UNCHANGED <<unmetered, result>>
    <2>1. Typed' /\ PassesSound'
      BY <1>1, <1>2 DEF Inv, Typed, PassesSound, Sound, fixed
    <2>2. Accounted'
      BY <1>1, <1>2 DEF Accounted, fixed
    <2> QED
      BY <1>2, <2>1, <2>2, NotOverYet
  <1>3. ASSUME NEW class \in {"timeout", "embedding_provider"}, Fail(class, 0),
               UNCHANGED <<spent, charged, unmetered>>
        PROVE  Inv'
    <2>1. phase' = "over" /\ result'.class = class /\ result'.usage = 0
      BY <1>3 DEF Fail
    <2>2. attempt' \in {1, 2} /\ engine' \in EngineSays \cup {"none"} /\ unmetered' = 0
      BY <1>1, <1>3 DEF Inv, Typed
    <2> QED
      <3>1. result'.class \in ToldClasses /\ result'.class # "ok"
        BY <2>1 DEF ToldClasses, Classes
      <3>2. spent' \in Nat /\ charged' \in Nat /\ result'.usage \in Nat
            /\ result'.usage + unmetered' = charged'
        BY <1>1, <1>3, <2>1, <2>2
      <3> QED
        BY <1>1, <1>3, <2>1, <2>2, <3>1, <3>2, EndKeeps
  <1>4. CASE Fail("config_error", 0) /\ charged' = 1 /\ unmetered' = 1 /\ UNCHANGED spent
    <2>1. phase' = "over" /\ result'.class = "config_error" /\ result'.usage = 0
      BY <1>4 DEF Fail
    <2> QED
      BY <1>1, <1>4, <2>1, EndKeeps DEF Inv, Typed, ToldClasses, Classes
  <1> QED
    BY <1>2, <1>3, <1>4 DEF Recalled

(* The attempts of the other tools.                                         *)
LEMMA AttemptKeeps ==
    ASSUME Inv, AttemptReturns
    PROVE  Inv'
  <1>1. /\ Attempting /\ phase = "asking" /\ tool \notin Panels
        /\ spent = charged /\ unmetered = 0 /\ charged \in Nat
        /\ tool = "unstick" => charged = 0
        /\ UNCHANGED <<fixed, passes>>
    BY DEF AttemptReturns, AttemptFails, AttemptInvalid, AttemptViolates, AttemptAnswers,
           EngineAnswers, Attempting, Inv, Accounted, Typed
  <1>2. CASE AttemptFails
    <2>1. PICK class \in {"refusal", "timeout"} :
              LET usage == IF class = "refusal" THEN 1 ELSE 0
              IN  charged' = charged + usage /\ Fail(class, spent + usage)
      BY <1>2 DEF AttemptFails
    <2> DEFINE usage == IF class = "refusal" THEN 1 ELSE 0
    <2>2. /\ phase' = "over" /\ result'.class = class /\ result'.usage = spent + usage
          /\ charged' = charged + usage /\ usage \in Nat
      BY <2>1 DEF Fail
    <2>3. attempt' \in {1, 2} /\ engine' \in EngineSays \cup {"none"} /\ spent' = spent /\ unmetered' = 0
      BY <1>1, <1>2 DEF AttemptFails, Inv, Typed
    <2> HIDE DEF usage
    <2>4. result'.usage + unmetered' = charged' /\ charged' \in Nat /\ spent' \in Nat /\ result'.usage \in Nat
      BY <1>1, <2>2, <2>3
    <2> QED
      BY <1>1, <2>2, <2>3, <2>4, EndKeeps DEF ToldClasses, Classes
  <1>3. CASE AttemptInvalid
    <2>1. /\ phase' = "over" /\ result'.class = "validation_failure" /\ result'.usage = spent'
          /\ charged' = charged + 1
          /\ spent' = IF MetersFirst THEN spent + 1 ELSE spent
          /\ unmetered' = IF MetersFirst THEN unmetered ELSE unmetered + 1
      BY <1>3 DEF AttemptInvalid, Fail
    <2>2. attempt' \in {1, 2} /\ engine' \in EngineSays \cup {"none"}
      BY <1>3 DEF AttemptInvalid, Inv, Typed
    <2>3. tool = "decide" \/ tool = "elicit" => unmetered' = 0
      BY <1>1, <2>1 DEF MetersFirst
    <2> QED
      BY <1>1, <2>1, <2>2, <2>3, EndKeeps DEF ToldClasses, Classes
  <1>4. CASE AttemptViolates
    <2>1. CASE tool = "unstick"
      <3>1. /\ phase' = "over" /\ result'.class = "validation_failure" /\ result'.usage = 0
            /\ unmetered' = unmetered + 1 /\ charged' = charged + 1
            /\ UNCHANGED <<attempt, engine, spent>>
        BY <1>4, <2>1 DEF AttemptViolates, Fail
      <3> QED
        BY <1>1, <2>1, <3>1, EndKeeps DEF Inv, Typed, ToldClasses, Classes
    <2>2. CASE tool # "unstick"
      <3>1. /\ charged' = charged + 1 /\ spent' = spent + 1 /\ unmetered' = unmetered
            /\ engine' = IF tool = "check" THEN "violation" ELSE engine
        BY <1>4, <2>2 DEF AttemptViolates
      <3>2. engine' \in EngineSays \cup {"none"}
        BY <3>1 DEF Inv, Typed, EngineSays
      <3>3. CASE attempt < AttemptsMax
        <4>1. attempt' = attempt + 1 /\ UNCHANGED <<phase, result>>
          BY <1>4, <2>2, <3>3 DEF AttemptViolates
        <4>2. attempt' \in {1, 2}
          BY <3>3, <4>1, <2>2 DEF AttemptsMax, Inv, Typed
        <4>3. Typed'
          BY <1>1, <3>1, <3>2, <4>1, <4>2 DEF Inv, Typed, fixed
        <4>4. PassesSound'
          BY <1>1 DEF Inv, PassesSound, Sound, fixed
        <4>5. Accounted'
          BY <1>1, <2>2, <3>1, <4>1 DEF Accounted, fixed
        <4> QED
          BY <1>1, <4>1, <4>3, <4>4, <4>5, NotOverYet
      <3>4. CASE ~(attempt < AttemptsMax)
        <4>1. phase' = "over" /\ result'.class = "validation_failure" /\ result'.usage = spent' /\ attempt' = attempt
          BY <1>4, <2>2, <3>4 DEF AttemptViolates, Fail
        <4> QED
          BY <1>1, <3>1, <3>2, <4>1, EndKeeps DEF Inv, Typed, ToldClasses, Classes
      <3> QED
        BY <3>3, <3>4
    <2> QED
      BY <2>1, <2>2
  <1>5. CASE AttemptAnswers
    <2>1. /\ phase' = "over" /\ result'.class = "ok" /\ result'.usage = spent'
          /\ charged' = charged + 1 /\ spent' = spent + 1
          /\ UNCHANGED <<attempt, engine, unmetered>>
      BY <1>5 DEF AttemptAnswers, Return
    <2> QED
      BY <1>1, <2>1, EndKeeps DEF Inv, Typed, ToldClasses, Classes
  <1>6. CASE EngineAnswers
    <2>1. /\ tool = "check" /\ charged' = charged + 1 /\ spent' = spent + 1
          /\ UNCHANGED <<attempt, unmetered>>
      BY <1>6 DEF EngineAnswers
    <2>2. PICK said \in EngineSays \ {"violation"} :
              /\ engine' = said
              /\ IF said \in {"unknown", "crashed"}
                 THEN Fail(IF said = "unknown" THEN "timeout" ELSE "client", spent')
                 ELSE Return([class |-> "ok", usage |-> spent', verdict |-> EngineVerdict(said)])
      BY <1>6 DEF EngineAnswers
    <2>3. phase' = "over" /\ result'.class \in {"timeout", "client", "ok"} /\ result'.usage = spent'
      BY <2>2 DEF Fail, Return
    <2> QED
      BY <1>1, <2>1, <2>2, <2>3, EndKeeps DEF Inv, Typed, ToldClasses, Classes
  <1> QED
    BY <1>2, <1>3, <1>4, <1>5, <1>6 DEF AttemptReturns
-----------------------------------------------------------------------------
(* What a panel that has joined makes of its passes.                        *)

(* A panel ends with its promises kept.                                     *)
LEMMA PanelEndKeeps ==
    ASSUME Inv, Joined, UNCHANGED <<fixed, passes, attempt, engine, spent, charged, unmetered>>,
           phase' = "over", result'.class \in ToldClasses, result'.usage \in Nat,
           BillingIsExact', VerdictIsBacked', ComputationIsNotVoted', PerspectivesSpan'
    PROVE  Inv'
  <1>1. result' # Unset
    BY DEF Unset, ToldClasses, Classes
  <1>2. Typed' /\ PassesSound' /\ Accounted' /\ ResultTyped'
    BY <1>1 DEF Inv, Typed, PassesSound, Sound, Accounted, ResultTyped, fixed
  <1> QED
    BY <1>2 DEF Inv

(* A panel's answer reports the usage of its completed passes.              *)
LEMMA AnswerIsBilled ==
    ASSUME Inv, Joined, UNCHANGED <<fixed, passes, charged, unmetered>>,
           phase' = "over", result'.class = "ok",
           result'.usage = UsageOf(passes, Completed(passes))
    PROVE  BillingIsExact' /\ result'.usage \in Nat /\ result'.class \in ToldClasses
  <1>1. tool \in Panels /\ tool \notin {"decide", "elicit"}
    BY DEF Joined, Panels
  <1>2. Cardinality(Billed(passes, DOMAIN passes)) + unmetered = charged
    BY <1>1 DEF Inv, Accounted, Joined
  <1>3. Completed(passes) \in SUBSET (DOMAIN passes) /\ Failed(passes) \in SUBSET (DOMAIN passes)
    BY DEF Completed, Failed
  <1>4. UsageOf(passes, Completed(passes)) \in Nat /\ UsageOf(passes, Failed(passes)) \in Nat
    BY <1>3, PassesFinite DEF Inv, Typed
  <1>5. UsageOf(passes, Completed(passes)) + UsageOf(passes, Failed(passes)) + unmetered = charged
    BY <1>2, UsageSplits DEF Inv, Typed
  <1>6. UsageOf(passes, Failed(passes))' = UsageOf(passes, Failed(passes)) /\ tool' = tool
    BY DEF fixed
  <1>7. result'.usage + unmetered' + UsageOf(passes, Failed(passes)) = charged'
    BY <1>4, <1>5 DEF Inv, Typed
  <1> QED
    BY <1>1, <1>4, <1>6, <1>7 DEF BillingIsExact, Over, Answered, ToldClasses

(* The error of a panel carries the usage of every pass.                    *)
LEMMA PanelFailsKeeps ==
    ASSUME Inv, PanelFails
    PROVE  Inv'
  <1>1. /\ Joined /\ UNCHANGED <<fixed, passes, attempt, engine, spent, charged, unmetered>>
    BY DEF PanelFails
  <1>2. PICK class \in DominantClasses(passes) : Fail(class, ErrorUsage)
    BY DEF PanelFails
  <1>3. class \in Classes
    <2>1. PICK i \in Failed(passes) : class = passes[i].class
      BY DEF DominantClasses
    <2>2. i \in DOMAIN passes /\ passes[i].ok # TRUE
      BY <2>1 DEF Failed, Completed
    <2> QED
      BY <2>1, <2>2 DEF Inv, PassesSound, Sound
  <1>4. phase' = "over" /\ result'.class = class /\ result'.usage = UsageOf(passes, DOMAIN passes)
    BY <1>2 DEF Fail, ErrorUsage
  <1>5. result'.class \in ToldClasses /\ ~Answered' /\ result'.usage \in Nat
    BY <1>3, <1>4, PassesFinite DEF Classes, ToldClasses, Answered, Inv, Typed
  <1>6. BillingIsExact'
    <2>1. tool \in Panels /\ tool \notin {"decide", "elicit"}
      BY <1>1 DEF Joined, Panels
    <2>2. UsageOf(passes, DOMAIN passes) + unmetered = charged
      BY <1>1, <2>1, PassesFinite DEF Inv, Accounted, Joined, Typed
    <2>3. result'.usage + unmetered' + 0 = charged'
      BY <1>1, <1>4, <2>2 DEF Inv, Typed
    <2> QED
      BY <1>1, <1>5, <2>1, <2>3 DEF BillingIsExact, fixed
  <1> QED
    BY <1>1, <1>4, <1>5, <1>6, PanelEndKeeps
       DEF VerdictIsBacked, ComputationIsNotVoted, PerspectivesSpan

(* The completed passes of verify vote, and no pass votes twice.            *)
LEMMA VotersSplit ==
    ASSUME Inv, tool = "verify"
    PROVE  LET for == Voters(passes, "supported")
               against == Voters(passes, "refuted")
           IN  /\ for \cup against = Completed(passes)
               /\ Cardinality(for) \in Nat /\ Cardinality(against) \in Nat
               /\ Cardinality(Completed(passes)) = Cardinality(for) + Cardinality(against)
  <1> DEFINE for == Voters(passes, "supported")
             against == Voters(passes, "refuted")
  <1>1. for \cup against = Completed(passes) /\ for \cap against = {}
    <2>1. \A i \in Completed(passes) : passes[i].verdict \in {"supported", "refuted"}
      BY DEF Completed, Inv, PassesSound, Sound
    <2> QED
      BY <2>1 DEF Voters
  <1>2. /\ IsFiniteSet(for) /\ IsFiniteSet(against)
        /\ Cardinality(for) \in Nat /\ Cardinality(against) \in Nat
    <2>1. for \in SUBSET (DOMAIN passes) /\ against \in SUBSET (DOMAIN passes)
      BY DEF Voters, Completed
    <2> QED
      BY <2>1, PassesFinite DEF Inv, Typed
  <1>3. Cardinality(Completed(passes)) = Cardinality(for) + Cardinality(against)
    <2> HIDE DEF for, against
    <2>1. Cardinality(for \cap against) = 0
      BY <1>1, FS_EmptySet
    <2>2. Cardinality(for \cup against) = Cardinality(for) + Cardinality(against) - Cardinality(for \cap against)
      BY <1>2, FS_Union
    <2>3. Cardinality(for \cup against) = Cardinality(for) + Cardinality(against)
      BY <1>2, <2>1, <2>2
    <2> QED
      BY <1>1, <2>3
  <1> QED
    BY <1>1, <1>2, <1>3

(* The larger of two numbers is at least half of their sum.                 *)
LEMMA LargerOfTwo ==
    ASSUME NEW a \in Nat, NEW b \in Nat
    PROVE  Max({a, b}) \in Nat /\ 2 * Max({a, b}) >= a + b
  <1> DEFINE m == IF a >= b THEN a ELSE b
  <1>1. m \in {a, b} /\ \A y \in {a, b} : m >= y
    OBVIOUS
  <1>2. Max({a, b}) \in {a, b} /\ \A y \in {a, b} : Max({a, b}) >= y
    <2> HIDE DEF m
    <2> QED
      BY <1>1 DEF Max
  <1> QED
    BY <1>2

(* The verdict of verify is backed.                                         *)
LEMMA VerdictKeeps ==
    ASSUME Inv, PanelAnswers
    PROVE  Inv'
  <1> DEFINE for == Voters(passes, "supported")
             against == Voters(passes, "refuted")
  <1>1. /\ Joined /\ Enough /\ tool = "verify"
        /\ UNCHANGED <<fixed, passes, attempt, engine, spent, charged, unmetered>>
        /\ phase' = "over" /\ result' = VerifyAnswer
    BY DEF PanelAnswers, Return
  <1>2. /\ result'.class = "ok" /\ result'.usage = UsageOf(passes, Completed(passes))
        /\ result'.verdict = Verdict(passes) /\ result'.findings = Findings(passes)
        /\ result'.confidence[1] = Majority(passes)
        /\ result'.confidence[2] = Cardinality(Completed(passes))
    BY <1>1 DEF VerifyAnswer
  <1>3. /\ for \cup against = Completed(passes)
        /\ Cardinality(for) \in Nat /\ Cardinality(against) \in Nat
        /\ Cardinality(Completed(passes)) = Cardinality(for) + Cardinality(against)
    BY <1>1, VotersSplit
  <1>4. 2 * Cardinality(for \cup against) >= k
    <2>1. Cardinality(Completed(passes)) >= (k + 1) \div 2
      BY <1>1 DEF Enough, Quorum
    <2>2. k \in Nat /\ (k + 1) \div 2 \in Nat /\ 2 * ((k + 1) \div 2) >= k
      BY DEF Inv, Typed
    <2>3. Cardinality(Completed(passes)) \in Nat
      BY <1>3
    <2>4. 2 * Cardinality(Completed(passes)) >= k
      <3> DEFINE q == (k + 1) \div 2
                 c == Cardinality(Completed(passes))
      <3>1. q \in Nat /\ c \in Nat /\ c >= q /\ 2 * q >= k
        BY <2>1, <2>2, <2>3
      <3> HIDE DEF q, c
      <3>2. 2 * c >= k
        BY <2>2, <3>1
      <3> QED
        BY <3>2 DEF c
    <2> QED
      BY <1>3, <2>4
  <1>5. Verdict(passes) = "supported" => Cardinality(for) > Cardinality(against)
    BY <1>3 DEF Verdict
  <1>6. Verdict(passes) = "refuted" => Findings(passes) # {} /\ Findings(passes) \subseteq against
    <2> SUFFICES ASSUME Verdict(passes) = "refuted"
                 PROVE  Findings(passes) # {} /\ Findings(passes) \subseteq against
      OBVIOUS
    <2>1. Cardinality(against) >= Cardinality(for)
      BY DEF Verdict
    <2>2. Cardinality(Completed(passes)) >= 1
      <3>1. k \in Nat /\ k >= 1 /\ (k + 1) \div 2 >= 1
        BY DEF Inv, Typed
      <3> QED
        BY <1>1, <1>3, <3>1 DEF Enough, Quorum
    <2>3. Cardinality(against) # 0
      BY <1>3, <2>1, <2>2
    <2>4. PICK i : i \in against
      BY <2>3, FS_EmptySet
    <2>5. passes[i].found
      BY <1>1, <2>4 DEF Voters, Completed, Inv, PassesSound, Sound
    <2> QED
      BY <2>4, <2>5 DEF Findings
  <1>7. 2 * Majority(passes) >= Cardinality(Completed(passes))
    <2>1. {Cardinality(Voters(passes, v)) : v \in {"supported", "refuted"}}
            = {Cardinality(for), Cardinality(against)}
      OBVIOUS
    <2> HIDE DEF for, against
    <2> QED
      BY <1>3, <2>1, LargerOfTwo DEF Majority
  <1>8. VerdictIsBacked'
    BY <1>1, <1>2, <1>4, <1>5, <1>6, <1>7 DEF VerdictIsBacked, fixed
  <1> QED
    BY <1>1, <1>2, <1>8, AnswerIsBilled, PanelEndKeeps
       DEF ComputationIsNotVoted, PerspectivesSpan, fixed

(* The perspectives of diverge span.                                        *)
LEMMA ScatterKeeps ==
    ASSUME Inv, PanelScatters
    PROVE  Inv'
  <1>1. /\ Joined /\ Enough /\ tool = "diverge"
        /\ UNCHANGED <<fixed, passes, attempt, engine, spent, charged, unmetered>>
        /\ phase' = "over" /\ result'.class = "ok"
        /\ result'.usage = UsageOf(passes, Completed(passes)) /\ result'.kept = Kept
    BY DEF PanelScatters, Return
  <1>2. Spans(Kept, k)
    BY KeptSpans DEF Inv, Typed
  <1>3. Completed(passes) \subseteq 1..k /\ Completed(passes) # {}
    <2>1. Cardinality(Completed(passes)) >= 1
      BY <1>1 DEF Enough
    <2>2. Completed(passes) # {}
      BY <2>1, FS_EmptySet
    <2> QED
      BY <2>2 DEF Completed, Inv, PassesSound
  <1>4. Kept # {}
    BY <1>2, <1>3 DEF Spans
  <1>5. /\ \A i, j \in Kept : i # j => ~Similar(passes[i].framing, passes[j].framing)
        /\ \A i \in Completed(passes) :
              i \in Kept \/ \E j \in Kept : j < i /\ Similar(passes[i].framing, passes[j].framing)
    BY <1>2, <1>3 DEF Spans, Like
  <1>6. PerspectivesSpan'
    <2> DEFINE K == Kept
    <2> HIDE DEF K
    <2> QED
      BY <1>1, <1>4, <1>5 DEF K, PerspectivesSpan, Similar
  <1> QED
    BY <1>1, <1>6, AnswerIsBilled, PanelEndKeeps
       DEF ComputationIsNotVoted, VerdictIsBacked, fixed

(* grounded_verify: what most passes call a computation the engine settles, *)
(* on the spec they agree on, or nobody does.                               *)
LEMMA GroundKeeps ==
    ASSUME Inv, PanelGrounds
    PROVE  Inv'
  <1>1. /\ Joined /\ Enough /\ tool = "grounded_verify"
        /\ UNCHANGED <<fixed, passes, attempt, engine, spent, charged, unmetered>>
    BY DEF PanelGrounds
  <1>2. /\ VerifyAnswer.class = "ok" /\ VerifyAnswer.usage = UsageOf(passes, Completed(passes))
    BY DEF VerifyAnswer
  <1>3. /\ phase' = "over" /\ result'.class = "ok"
        /\ result'.usage = UsageOf(passes, Completed(passes))
        /\ \/ \E s \in Settling(passes, units, truth) : result'.verdict = Settled(s, truth)
           \/ result'.verdict = "inconclusive"
           \/ ~ComputingMajority(passes)
    <2>1. CASE \E s \in Settling(passes, units, truth) :
                  Return([VerifyAnswer EXCEPT !.verdict = Settled(s, truth),
                                              !.findings = {0}, !.confidence = <<1, 1>>])
      <3>1. PICK s \in Settling(passes, units, truth) :
                  Return([VerifyAnswer EXCEPT !.verdict = Settled(s, truth),
                                              !.findings = {0}, !.confidence = <<1, 1>>])
        BY <2>1
      <3>2. /\ phase' = "over" /\ result'.class = VerifyAnswer.class
            /\ result'.usage = VerifyAnswer.usage /\ result'.verdict = Settled(s, truth)
        BY <3>1 DEF Return, VerifyAnswer
      <3> QED
        BY <1>2, <3>2
    <2>2. CASE Return([VerifyAnswer EXCEPT !.verdict = "inconclusive"])
      <3>1. /\ phase' = "over" /\ result'.class = VerifyAnswer.class
            /\ result'.usage = VerifyAnswer.usage /\ result'.verdict = "inconclusive"
        BY <2>2 DEF Return, VerifyAnswer
      <3> QED
        BY <1>2, <3>1
    <2>3. CASE ~ComputingMajority(passes) /\ Return(VerifyAnswer)
      BY <1>2, <2>3 DEF Return
    <2> QED
      BY <2>1, <2>2, <2>3 DEF PanelGrounds
  <1>4. ComputationIsNotVoted'
    <2> DEFINE asking == {i \in DOMAIN passes : passes[i].ok /\ passes[i].spec # "none"}
    <2>1. asking = Computing(passes)
      BY DEF Computing, Completed
    <2>2. ASSUME ComputingMajority(passes), result'.verdict # "inconclusive"
          PROVE  /\ units = 1
                 /\ \A i \in asking : ~passes[i].found
                 /\ \E s \in Specs :
                      /\ 2 * Cardinality({i \in asking : passes[i].spec = s}) > Cardinality(asking)
                      /\ \/ truth[s] = "holds" /\ result'.verdict = "supported"
                         \/ truth[s] = "fails" /\ result'.verdict = "refuted"
      <3>1. PICK s \in Settling(passes, units, truth) : result'.verdict = Settled(s, truth)
        BY <1>3, <2>2
      <3>2. units = 1 /\ ~Compound(passes) /\ s \in AgreedSpecs(passes) /\ truth[s] # "error"
        BY <3>1 DEF Settling
      <3>3. /\ s \in {passes[i].spec : i \in Computing(passes)} \ {"vague"}
            /\ 2 * Cardinality({i \in Computing(passes) : passes[i].spec = s})
                 > Cardinality(Computing(passes))
        BY <3>2 DEF AgreedSpecs
      <3>4. s \in Specs
        <4>1. PICK i \in Computing(passes) : s = passes[i].spec
          BY <3>3
        <4>2. passes[i].spec \in Specs \cup {"none", "vague"} /\ passes[i].spec # "none"
          BY <1>1, <4>1 DEF Computing, Completed, Inv, PassesSound, Sound
        <4> QED
          BY <3>3, <4>1, <4>2
      <3>5. truth[s] \in {"holds", "fails"}
        BY <3>2, <3>4 DEF Inv, Typed, Settlements
      <3> HIDE DEF asking
      <3> QED
        BY <2>1, <3>1, <3>2, <3>3, <3>4, <3>5 DEF Compound, Settled
    <2>3. UNCHANGED <<tool, k, truth, units, passes>>
      BY <1>1 DEF fixed
    <2>4. ComputingMajority(passes) <=> 2 * Cardinality(asking) > Cardinality(Completed(passes))
      BY <2>1 DEF ComputingMajority
    <2> QED
      BY <2>2, <2>3, <2>4 DEF ComputationIsNotVoted
  <1>5. VerdictIsBacked' /\ PerspectivesSpan'
    BY <1>1 DEF VerdictIsBacked, PerspectivesSpan, fixed
  <1> QED
    BY <1>1, <1>3, <1>4, <1>5, AnswerIsBilled, PanelEndKeeps
-----------------------------------------------------------------------------
(* Every step keeps the invariant.                                          *)
LEMMA InvStep == Inv /\ [Next]_vars => Inv'
  <1> SUFFICES ASSUME Inv, [Next]_vars PROVE Inv'
    OBVIOUS
  <1>1. CASE UNCHANGED vars
    <2>1. UNCHANGED <<tool, valid, k, truth, units, phase, passes, attempt, engine,
                      spent, charged, unmetered, result>>
      BY <1>1 DEF vars, fixed
    <2>2. Typed' /\ PassesSound'
      BY <2>1 DEF Inv, Typed, PassesSound, Sound
    <2>3. Accounted' /\ ResultTyped'
      BY <2>1 DEF Inv, Accounted, ResultTyped, Over
    <2>4. Over' = Over /\ Answered' = Answered
      BY <2>1 DEF Over, Answered
    <2>5. BillingIsExact'
      BY <2>1, <2>4 DEF Inv, BillingIsExact
    <2>6. VerdictIsBacked'
      BY <2>1, <2>4 DEF Inv, VerdictIsBacked
    <2>7. ComputationIsNotVoted'
      BY <2>1, <2>4 DEF Inv, ComputationIsNotVoted
    <2>8. PerspectivesSpan'
      BY <2>1, <2>4 DEF Inv, PerspectivesSpan, Similar
    <2> QED
      BY <2>2, <2>3, <2>5, <2>6, <2>7, <2>8 DEF Inv
  <1>2. CASE PanelEnds
    BY <1>2, PanelFailsKeeps, VerdictKeeps, ScatterKeeps, GroundKeeps DEF PanelEnds
  <1> QED
    BY <1>1, <1>2, CalledKeeps, RecalledKeeps, PassReturnsKeeps, AttemptKeeps DEF Next

(* So it holds in every run.                                                *)
LEMMA Inductive == Spec => []Inv
  BY InvInit, InvStep, PTL DEF Spec
-----------------------------------------------------------------------------
(* The state of a call is well-formed in every run.                         *)
THEOREM TypeCorrect == Spec => []TypeOK
  <1>1. Inv => TypeOK
    <2> SUFFICES ASSUME Inv PROVE TypeOK
      OBVIOUS
    <2>1. passes \in [DOMAIN passes -> PassResults] /\ DOMAIN passes \in SUBSET (1..k)
      BY DEF Inv, PassesSound, Sound
    <2>2. \E S \in SUBSET (1..k) : passes \in [S -> PassResults]
      BY <2>1
    <2> QED
      BY <2>2 DEF Inv, Typed, TypeOK
  <1> QED
    BY <1>1, Inductive, PTL

(* A call reports what it was charged, less what local validation dropped   *)
(* and what the failed passes of a panel that answered used (run_spent,     *)
(* dominant_failure_metered, aggregate).                                    *)
THEOREM BillingStaysExact == Spec => []BillingIsExact
  BY Inductive, PTL DEF Inv

(* A verdict has a quorum behind it, a supported one a majority, a refuted  *)
(* one an error that a refuting pass found (aggregate_core).                *)
THEOREM VerdictStaysBacked == Spec => []VerdictIsBacked
  BY Inductive, PTL DEF Inv

(* A claim that most passes call a computation is never voted on (settle,   *)
(* agreed_spec).                                                            *)
THEOREM ComputationNeverVoted == Spec => []ComputationIsNotVoted
  BY Inductive, PTL DEF Inv

(* The perspectives that dedup keeps are unlike, and span those that        *)
(* completed, whatever the likeness of framings is.                         *)
THEOREM PerspectivesAlwaysSpan == Spec => []PerspectivesSpan
  BY Inductive, PTL DEF Inv
-----------------------------------------------------------------------------
(* A step of a call that is not over is charged at most one completion.     *)
LEMMA StepCharges ==
    ASSUME Inv, Next
    PROVE  phase # "over" /\ \E u \in 0..1 : charged' = charged + u
  <1>1. charged \in Nat
    BY DEF Inv, Typed
  <1>2. CASE Reject \/ Accept \/ PanelEnds
    <2>1. phase # "over"
      BY <1>2 DEF Reject, Accept, PanelEnds, PanelFails, PanelAnswers, PanelScatters,
                  PanelGrounds, Joined
    <2>2. charged' = charged
      BY <1>2 DEF Reject, Accept, PanelEnds, PanelFails, PanelAnswers, PanelScatters, PanelGrounds
    <2> QED
      BY <1>1, <2>1, <2>2
  <1>3. CASE Recalled
    <2>1. phase = "recalling" /\ charged = 0 /\ charged' \in {0, 1}
      BY <1>3 DEF Recalled, Inv, Accounted
    <2> QED
      BY <2>1
  <1>4. CASE PassReturns
    <2>1. PICK i \in 1..k : PassFails(i) \/ PassInvalid(i) \/ PassCompletes(i)
      BY <1>4 DEF PassReturns
    <2>2. phase # "over"
      BY <2>1 DEF PassFails, PassInvalid, PassCompletes, Awaited
    <2>3. charged' \in {charged + 0, charged + 1}
      <3>1. CASE PassFails(i)
        <4>1. PICK class \in {"refusal", "timeout"} :
                  charged' = charged + (IF class = "refusal" THEN 1 ELSE 0)
          BY <3>1 DEF PassFails
        <4> QED
          BY <4>1
      <3>2. CASE PassInvalid(i) \/ PassCompletes(i)
        BY <3>2 DEF PassInvalid, PassCompletes
      <3> QED
        BY <2>1, <3>1, <3>2
    <2> QED
      BY <1>1, <2>2, <2>3
  <1>5. CASE AttemptReturns
    <2>1. phase # "over" /\ charged' \in {charged, charged + 0, charged + 1}
      BY <1>5 DEF AttemptReturns, AttemptFails, AttemptInvalid, AttemptViolates, AttemptAnswers,
                  EngineAnswers, Attempting
    <2> QED
      BY <1>1, <2>1
  <1> QED
    BY <1>2, <1>3, <1>4, <1>5 DEF Next

(* What a call that is over tells was charged.                              *)
LEMMA ToldIsCharged ==
    Inv /\ Over =>
        /\ Told.class \in ToldClasses /\ Told.usage \in 0..charged
        /\ Told = [class |-> Told.class, usage |-> Told.usage]
  <1> SUFFICES ASSUME Inv, Over
               PROVE  /\ Told.class \in ToldClasses /\ Told.usage \in 0..charged
                      /\ Told = [class |-> Told.class, usage |-> Told.usage]
    OBVIOUS
  <1>1. Failed(passes) \in SUBSET (DOMAIN passes)
    BY DEF Failed
  <1>2. UsageOf(passes, Failed(passes)) \in Nat
    BY <1>1, PassesFinite DEF Inv, Typed
  <1>3. result.usage \in Nat /\ result.class \in ToldClasses /\ unmetered \in Nat /\ charged \in Nat
    BY DEF Inv, Typed, ResultTyped
  <1>4. result.usage <= charged
    BY <1>2, <1>3 DEF Inv, BillingIsExact
  <1> QED
    BY <1>3, <1>4 DEF Told

(* Every step is one of the promise or leaves it alone.                     *)
LEMMA StepKeepsPromise ==
    Inv /\ Inv' /\ [Next]_vars
      => [Promise!Next]_<<[c \in {"call"} |-> charged], [c \in {"call"} |-> Told]>>
  <1> SUFFICES ASSUME Inv, Inv', [Next]_vars
               PROVE  [Promise!Next]_<<[c \in {"call"} |-> charged], [c \in {"call"} |-> Told]>>
    OBVIOUS
  <1>1. CASE UNCHANGED vars
    BY <1>1 DEF vars, Told, Over
  <1>2. CASE Next
    <2>1. PICK u \in 0..1 : charged' = charged + u
      BY <1>2, StepCharges
    <2>2. ~Over /\ Told = Unset
      BY <1>2, StepCharges DEF Over, Told
    <2>3. [c \in {"call"} |-> charged]'
            = [[c \in {"call"} |-> charged] EXCEPT !["call"] = @ + u]
      BY <2>1
    <2>4. \/ UNCHANGED [c \in {"call"} |-> Told]
          \/ \E class \in ToldClasses, usage \in 0..([c \in {"call"} |-> charged]["call"] + u) :
                [c \in {"call"} |-> Told]'
                  = [[c \in {"call"} |-> Told] EXCEPT !["call"] = [class |-> class, usage |-> usage]]
      <3>1. CASE Over'
        <4>1. /\ Told'.class \in ToldClasses /\ Told'.usage \in 0..charged'
              /\ Told' = [class |-> Told'.class, usage |-> Told'.usage]
          <5>1. (Inv /\ Over =>
                    /\ Told.class \in ToldClasses /\ Told.usage \in 0..charged
                    /\ Told = [class |-> Told.class, usage |-> Told.usage])'
            BY ToldIsCharged, PTL
          <5> QED
            BY <3>1, <5>1
        <4> QED
          BY <2>1, <4>1
      <3>2. CASE ~Over'
        BY <2>2, <3>2 DEF Told
      <3> QED
        BY <3>1, <3>2
    <2>5. [c \in {"call"} |-> Told]["call"] = Unset
      BY <2>2
    <2>6. Promise!Request("call")
      BY <2>3, <2>4, <2>5 DEF Promise!Request
    <2> QED
      BY <2>6 DEF Promise!Next
  <1> QED
    BY <1>1, <1>2

(* A corrective promises its recorder what a client promises it             *)
(* (traits/client.rs, run_spent): one answer, and no more usage than it was *)
(* charged.                                                                 *)
THEOREM PromiseKept == Spec => KeepsPromise
  <1>1. Init => Promise!Init
    BY DEF Init, Promise!Init, Told, Over, Unset
  <1> QED
    BY <1>1, Inductive, StepKeepsPromise, PTL DEF Spec, KeepsPromise, Promise!Spec
=============================================================================
