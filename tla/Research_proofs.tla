--------------------------- MODULE Research_proofs ---------------------------
(***************************************************************************)
(* Proofs about the research run, for any number of sources, claims,       *)
(* permits and passes, any budget and any cost of a call.                  *)
(***************************************************************************)
EXTENDS Research, FiniteSetTheorems, TLAPS

(* The invariant.  Types, without the two bounds that follow from counting. *)
Typed ==
    /\ phase \in {"scope", "scoped", "search", "fetch", "verify", "synthesize", "done"}
    /\ late \in BOOLEAN
    /\ tripped \in {"none", "budget", "deadline"}
    /\ metered \in Nat /\ spent \in Nat
    /\ permits \in Nat
    /\ src \in [Sources -> SourceStates]
    /\ yield \in [Sources -> SUBSET Claims]
    /\ clm \in [Claims -> ClaimStates]
    /\ dropped \in Nat
    /\ attempt \in 0..1
    /\ result \in Results

Early == {"scope", "scoped", "search"}

(* What the barriers between the phases guarantee.                          *)
Stages ==
    /\ phase \in Early => tripped = "none" /\ \A i \in Sources : src[i] = "none"
    /\ phase \in Early \cup {"fetch"} => dropped = 0 /\ \A c \in Claims : clm[c] = "none"
    /\ phase \in {"verify", "synthesize", "done"} =>
          \A i \in Sources : src[i] \notin {"queued", "fetching", "extracting"}
    /\ phase \in {"synthesize", "done"} => \A c \in Claims : clm[c] \notin {"queued", "judging"}
    /\ phase \notin {"synthesize", "done"} => attempt = 0
    /\ phase # "done" => result = Pending

(* A permit is in the semaphore or with a unit in flight.                   *)
SourcesHolding == SourcesIn({"fetching", "extracting"})
ClaimsHolding == ClaimsIn({"judging"})
PermitsAreHeld == permits + Cardinality(SourcesHolding) + Cardinality(ClaimsHolding) = Concurrency

(* The meter, with what is in flight at its dearest.                        *)
MeterBounded ==
    /\ phase = "scope" => metered = 0
    /\ phase \in {"scoped", "search", "fetch", "verify"} =>
          metered + (Concurrency - permits) * UnitCost <= Fanout
    /\ phase = "synthesize" => metered <= Fanout + attempt * MaxCall
    /\ phase = "done" => metered <= Fanout + 2 * MaxCall

(* The latch is set for a cause, and what it stopped stays marked.          *)
TripHasACause ==
    /\ tripped = "budget" => metered >= Budget
    /\ tripped = "deadline" => late
    /\ SkippedWork => tripped # "none"
    /\ tripped # "none" => SkippedWork \/ \A i \in Sources : src[i] = "none"

(* The claims under way are the distinct claims of the sources.             *)
Deferred == ClaimsIn({"deferred"})
Valid == phase = "done" => result.answer # "error"

ClaimsAreCounted ==
    /\ phase \in {"verify", "synthesize", "done"} /\ Valid =>
          \A c \in Claims : clm[c] # "none" <=> c \in Unique
    /\ phase = "verify" => dropped = Cardinality(Deferred)
    /\ phase \in {"synthesize", "done"} /\ Valid =>
          dropped = Cardinality(Deferred) + Cardinality(Losses)
    /\ dropped \in {0, Cardinality(Deferred), Cardinality(Deferred) + Cardinality(Losses)}

(* A result keeps the ceiling's reason and lists what it cites.             *)
ResultIsKept ==
    phase = "done" =>
        /\ result.answer # "none"
        /\ result.answer \in {"gaps", "prose"} => result.stop = tripped
        /\ result.answer = "demoted" => result.stop \in {StopOr("malformed"), StopOr("grounding")}
        /\ result.answer \in {"prose", "demoted"} =>
              /\ result.sources = result.cites \cup Cited
              /\ result.cites \subseteq Extracted

IInv ==
    /\ Typed /\ Stages /\ PermitsAreHeld /\ MeterBounded /\ TripHasACause
    /\ ClaimsAreCounted /\ ResultIsKept

----------------------------------------------------------------------------
(* Sets of sources and of claims are finite, as is any set of one kind.     *)
LEMMA Finite ==
    /\ \A s : IsFiniteSet(SourcesIn(s)) /\ Cardinality(SourcesIn(s)) \in Nat
    /\ \A s : IsFiniteSet(ClaimsIn(s)) /\ Cardinality(ClaimsIn(s)) \in Nat
    /\ \A s : Cardinality(ClaimsIn(s)) <= MaxClaims
    /\ \A s : IsFiniteSet(SourcesIn(s)') /\ Cardinality(SourcesIn(s)') \in Nat
    /\ \A s : IsFiniteSet(ClaimsIn(s)') /\ Cardinality(ClaimsIn(s)') \in Nat
<1>1. IsFiniteSet(Sources) /\ IsFiniteSet(Claims) /\ Cardinality(Claims) = MaxClaims
  BY FS_Interval, ResearchAssumption DEF Sources, Claims
<1>2. ASSUME NEW S, IsFiniteSet(S), NEW T \in SUBSET S
      PROVE  IsFiniteSet(T) /\ Cardinality(T) \in Nat /\ Cardinality(T) <= Cardinality(S)
  BY <1>2, FS_Subset, FS_CardinalityType
<1>3. \A s : /\ SourcesIn(s) \subseteq Sources /\ SourcesIn(s)' \subseteq Sources
             /\ ClaimsIn(s) \subseteq Claims /\ ClaimsIn(s)' \subseteq Claims
  BY DEF SourcesIn, ClaimsIn
<1> QED
  BY <1>1, <1>2, <1>3

(* The same of any set of claims, named or not.                             *)
LEMMA FiniteClaims ==
    ASSUME NEW S \in SUBSET Claims
    PROVE  IsFiniteSet(S) /\ Cardinality(S) \in Nat /\ Cardinality(S) <= MaxClaims
<1>1. IsFiniteSet(Claims) /\ Cardinality(Claims) = MaxClaims
  BY FS_Interval, ResearchAssumption DEF Claims
<1> QED
  BY <1>1, FS_Subset, FS_CardinalityType

(* A product grows with its left factor.                                    *)
LEMMA Grows ==
    ASSUME NEW a \in Nat, NEW b \in Nat, NEW c \in Nat, a <= b
    PROVE  a * c \in Nat /\ a * c <= b * c
<1>1. PICK d \in Nat : b = a + d
  BY a <= b
<1>2. (a + d) * c = a * c + d * c
  BY SMT
<1>3. a * c \in Nat /\ d * c \in Nat
  BY SMT
<1> QED
  BY <1>1, <1>2, <1>3

(* The cost of a unit is at least that of one call.                         *)
LEMMA Costs ==
    /\ UnitCost \in Nat /\ Fanout \in Nat /\ MaxCall <= UnitCost
    /\ Concurrency * UnitCost \in Nat /\ Fanout = Budget - 1 + Concurrency * UnitCost
    /\ UnitCost <= Concurrency * UnitCost
<1> USE ResearchAssumption
<1>1. UnitCost \in Nat /\ MaxCall <= UnitCost
  <2>1. 1 * MaxCall \in Nat /\ 1 * MaxCall <= VerifyK * MaxCall
    BY Grows
  <2>2. VerifyK * MaxCall \in Nat
    <3>1. VerifyK \in Nat /\ MaxCall \in Nat /\ VerifyK <= VerifyK
      OBVIOUS
    <3> QED
      BY <3>1, Grows
  <2> QED
    BY <2>1, <2>2 DEF UnitCost
<1>2. Concurrency * UnitCost \in Nat /\ 1 * UnitCost <= Concurrency * UnitCost
  BY <1>1, Grows
<1> QED
  BY <1>1, <1>2 DEF Fanout

(* A panel counts at most VerifyK passes, so a verification costs at most   *)
(* UnitCost, and it ends with a label.                                      *)
LEMMA PanelCosts ==
    ASSUME NEW p \in Panels
    PROVE  /\ \A m \in CostOf(Counted(p)) : m \in Nat /\ m <= UnitCost
           /\ \A u \in CostOf(Uncounted(p)) : u \in Nat
           /\ \A n : Support(p, n) \in Labels
<1> USE ResearchAssumption
<1>1. /\ Counted(p) \in Nat /\ Counted(p) <= VerifyK
      /\ Uncounted(p) \in Nat
  BY DEF Panels, Counted, Uncounted, Completed
<1>2. Counted(p) * MaxCall \in Nat /\ Counted(p) * MaxCall <= UnitCost
  BY <1>1, Grows DEF UnitCost
<1>3. UnitCost \in Nat
  BY Costs
<1>4. \A m \in CostOf(Counted(p)) : m \in Nat /\ m <= UnitCost
  BY <1>1, <1>2, <1>3 DEF CostOf
<1>5. Uncounted(p) * MaxCall \in Nat
  BY <1>1, Grows
<1>6. \A u \in CostOf(Uncounted(p)) : u \in Nat
  BY <1>1, <1>5 DEF CostOf
<1>7. \A n : Support(p, n) \in Labels
  BY DEF Support, Labels
<1> QED
  BY <1>4, <1>6, <1>7

(* The meter stays a number.                                                *)
LEMMA Sums == \A m, n \in Nat : m + n \in Nat
OBVIOUS

(* A failure returns a well-formed error.                                   *)
LEMMA FailureIsTyped ==
    ASSUME NEW n \in Nat, Fails(n), metered' \in Nat
    PROVE  phase' = "done" /\ result' \in Results
<1> DEFINE r == [answer |-> "error", stop |-> "none", cites |-> {}, sources |-> {},
                 reported |-> metered' + n]
<1>1. phase' = "done" /\ result' = r
  BY DEF Fails
<1>2. metered' + n \in Nat
  BY Sums, Zenon
<1>3. r \in Results
  BY <1>2, Zenon DEF Results
<1> QED
  BY <1>1, <1>3, Zenon

(* The initial state satisfies the invariant.                               *)
LEMMA InitInv == Init => IInv
<1> SUFFICES ASSUME Init PROVE IInv
  OBVIOUS
<1> USE ResearchAssumption DEF Init
<1>1. Typed
  <2>1. Pending \in Results
    BY DEF Results, Pending
  <2>2. src \in [Sources -> SourceStates] /\ clm \in [Claims -> ClaimStates]
    BY DEF SourceStates, ClaimStates
  <2>3. yield \in [Sources -> SUBSET Claims]
    OBVIOUS
  <2>4. metered \in Nat /\ spent \in Nat /\ permits \in Nat /\ dropped \in Nat /\ attempt \in 0..1
    OBVIOUS
  <2>5. late \in BOOLEAN /\ tripped \in {"none", "budget", "deadline"}
    OBVIOUS
  <2>6. /\ phase \in {"scope", "scoped", "search", "fetch", "verify", "synthesize", "done"}
        /\ result \in Results
    BY <2>1
  <2> HIDE DEF Init
  <2> QED
    BY <2>2, <2>3, <2>4, <2>5, <2>6 DEF Typed
<1>2. Stages
  BY DEF Stages, Early
<1>3. \A s : ("none" \notin s => SourcesIn(s) = {} /\ ClaimsIn(s) = {})
  BY DEF SourcesIn, ClaimsIn
<1>4. PermitsAreHeld
  BY <1>3, FS_EmptySet DEF PermitsAreHeld, SourcesHolding, ClaimsHolding
<1>5. MeterBounded
  BY DEF MeterBounded
<1>6. TripHasACause
  BY <1>3 DEF TripHasACause, SkippedWork
<1>7. ClaimsAreCounted
  BY DEF ClaimsAreCounted
<1>8. ResultIsKept
  BY DEF ResultIsKept
<1> QED
  BY <1>1, <1>2, <1>4, <1>5, <1>6, <1>7, <1>8 DEF IInv

(* Every step keeps the types and what the barriers guarantee.              *)
LEMMA TypedStep ==
    ASSUME IInv, [Next]_vars
    PROVE  Typed' /\ Stages'
<1> USE ResearchAssumption DEF Typed, Stages, Early
<1> Typed /\ Stages
  BY DEF IInv
<1>1. Pending \in Results
  BY DEF Results, Pending
<1>2. ASSUME NEW n \in Nat, Fails(n), metered' \in Nat
      PROVE  phase' = "done" /\ result' \in Results
  BY <1>2, FailureIsTyped
<1>3. CASE ScopeReturns
  <2>1. metered' \in Nat /\ spent' \in Nat
    BY <1>3 DEF ScopeReturns, Bill, Billed
  <2> QED
    BY <1>2, <1>3, <2>1 DEF ScopeReturns
<1>4. CASE ScopeFails
  <2>1. PICK paid \in MaybeBilled : Bill(0, paid) /\ Fails(paid)
    BY <1>4 DEF ScopeFails
  <2>2. paid \in Nat /\ metered' \in Nat /\ spent' \in Nat
    BY <2>1 DEF Bill, MaybeBilled
  <2> QED
    BY <1>2, <1>4, <2>1, <2>2 DEF ScopeFails
<1>5. CASE SearchBegins
  BY <1>5 DEF SearchBegins, Latch, Probe
<1>6. CASE SearchReturns
  <2>1. PICK n \in 0..MaxSources, m \in 0..MaxSources :
          /\ Spawn(1..m, (m + 1)..n)
          /\ src' = [i \in Sources |-> IF i <= m THEN "queued"
                                       ELSE IF i <= n THEN "skipped" ELSE "none"]
    BY <1>6 DEF SearchReturns
  <2>2. src' \in [Sources -> SourceStates]
    BY <2>1 DEF SourceStates
  <2>3. late' \in BOOLEAN /\ tripped' \in {"none", "budget", "deadline"}
    BY <2>1 DEF Spawn, Probe
  <2> QED
    BY <1>6, <2>2, <2>3 DEF SearchReturns
<1>7. CASE SearchFails
  BY <1>2, <1>7 DEF SearchFails
<1>8. CASE FetchEnds
  <2>1. \A i \in Sources : src[i] \notin {"queued", "fetching", "extracting"}
    BY <1>8 DEF FetchEnds, SourcesIn
  <2>2. CASE Extracted = {} /\ SourcesIn({"failed"}) # {}
    BY <1>2, <1>8, <2>1, <2>2 DEF FetchEnds, PhaseFails
  <2>3. CASE ~(Extracted = {} /\ SourcesIn({"failed"}) # {})
    <3>1. PICK left \in SUBSET Unique :
            /\ Spawn(Unique \ left, left)
            /\ clm' = [c \in Claims |-> IF c \in left THEN "deferred"
                                       ELSE IF c \in Unique THEN "queued" ELSE "none"]
            /\ dropped' = Cardinality(left)
            /\ phase' = "verify"
            /\ UNCHANGED result
      BY <1>8, <2>3 DEF FetchEnds
    <3>2. left \subseteq Claims
      BY DEF Unique, Extracted, SourcesIn
    <3>3. dropped' \in Nat
      BY <3>1, <3>2, FiniteClaims
    <3>4. clm' \in [Claims -> ClaimStates]
      BY <3>1 DEF ClaimStates
    <3>5. late' \in BOOLEAN /\ tripped' \in {"none", "budget", "deadline"}
      BY <3>1 DEF Spawn, Probe
    <3> QED
      BY <1>8, <2>1, <3>1, <3>3, <3>4, <3>5 DEF FetchEnds
  <2> QED
    BY <2>2, <2>3
<1>9. CASE VerifyEnds
  <2>1. \A c \in Claims : clm[c] \notin {"queued", "judging"}
    BY <1>9 DEF VerifyEnds, ClaimsIn
  <2>2. CASE ClaimsIn(Labels) = {} /\ ClaimsIn({"failed"}) # {}
    BY <1>2, <1>9, <2>1, <2>2 DEF VerifyEnds, PhaseFails
  <2>3. CASE ~(ClaimsIn(Labels) = {} /\ ClaimsIn({"failed"}) # {})
    <3>1. dropped' \in Nat
      BY <1>9, <2>3, Finite DEF VerifyEnds, Losses
    <3>2. CASE Surviving = {}
      <4>1. result' \in Results /\ phase' = "done"
        BY <1>9, <2>3, <3>2 DEF VerifyEnds, Returns, Results
      <4>2. UNCHANGED <<late, tripped, metered, spent, permits, src, yield, clm, attempt>>
        BY <1>9 DEF VerifyEnds
      <4>3. phase = "verify"
        BY <1>9 DEF VerifyEnds
      <4>4. Typed'
        BY <3>1, <4>1, <4>2
      <4>5. Stages'
        BY <2>1, <4>1, <4>2, <4>3
      <4> QED
        BY <4>4, <4>5
    <3>3. CASE Surviving # {}
      BY <1>9, <2>1, <2>3, <3>1, <3>3 DEF VerifyEnds
    <3> QED
      BY <3>2, <3>3
  <2> QED
    BY <2>2, <2>3
<1>10. CASE SynthesisReturns
  <2>1. PICK a \in Answers, cost \in Billed :
          /\ Bill(cost, cost)
          /\ \/ /\ Rejection(a) = "none"
                /\ Returns("prose", tripped, a.cites, a.cites \cup Cited)
                /\ UNCHANGED attempt
             \/ attempt' = 1 /\ UNCHANGED <<phase, result>>
             \/ /\ Rejection(a) # "none" /\ Demotes(Rejection(a))
                /\ UNCHANGED attempt
    BY <1>10 DEF SynthesisReturns
  <2>2. metered' \in Nat /\ spent' \in Nat
    BY <2>1 DEF Bill, Billed
  <2>3. Cited \subseteq Sources
    BY DEF Cited, Backing, Extracted, SourcesIn
  <2>4. CASE Rejection(a) = "none" /\ Returns("prose", tripped, a.cites, a.cites \cup Cited)
    <3>1. a.cites \subseteq Sources /\ a.cites \subseteq 1..(MaxSources + 1)
      BY <2>4 DEF Rejection, Extracted, SourcesIn, Answers
    <3> QED
      BY <2>1, <2>2, <2>3, <2>4, <3>1, <1>10 DEF Returns, Results, SynthesisReturns
  <2>5. CASE attempt' = 1 /\ UNCHANGED <<phase, result>>
    BY <1>10, <2>2, <2>5 DEF SynthesisReturns
  <2>6. CASE Rejection(a) # "none" /\ Demotes(Rejection(a)) /\ UNCHANGED attempt
    <3>1. Rejection(a) \in {"malformed", "grounding"}
      BY <2>6 DEF Rejection
    <3> QED
      BY <1>10, <2>2, <2>3, <2>6, <3>1
      DEF Demotes, StopOr, Returns, Results, SynthesisReturns
  <2> QED
    BY <2>1, <2>4, <2>5, <2>6
<1>11. CASE SynthesisFails
  <2>1. PICK paid \in MaybeBilled : metered' \in Nat /\ spent' \in Nat /\ (Fails(paid) \/ Fails(0))
    BY <1>11 DEF SynthesisFails, Bill, MaybeBilled, Billed
  <2> QED
    BY <1>2, <1>11, <2>1 DEF SynthesisFails, MaybeBilled
<1>12. ASSUME NEW i \in Sources, Source(i) PROVE Typed' /\ Stages'
  <2>1. CASE SourceBegins(i)
    BY <2>1 DEF SourceBegins, IsNext, Latch, Probe, SourceStates
  <2>2. CASE PageLoads(i)
    BY <2>2 DEF PageLoads, SourceStates
  <2>3. CASE PageIsUseless(i)
    BY <2>3 DEF PageIsUseless, SourceEnds, SourceStates
  <2>4. CASE Extracts(i)
    BY <2>4 DEF Extracts, SourceEnds, SourceStates, Bill, Billed
  <2>5. CASE ExtractFails(i)
    BY <2>5 DEF ExtractFails, SourceEnds, SourceStates, Bill, Billed, MaybeBilled
  <2> QED
    BY <1>12, <2>1, <2>2, <2>3, <2>4, <2>5 DEF Source
<1>13. ASSUME NEW c \in Claims, Claim(c) PROVE Typed' /\ Stages'
  <2>1. CASE ClaimBegins(c)
    BY <2>1 DEF ClaimBegins, IsNext, Latch, Probe, ClaimStates
  <2>2. CASE ClaimEnds(c)
    <3>1. PICK p \in Panels :
            /\ \E m \in CostOf(Counted(p)), u \in CostOf(Uncounted(p)) : Bill(m, m + u)
            /\ clm' = [clm EXCEPT ![c] = IF HasQuorum(p) THEN Support(p, Cardinality(Backing(c)))
                                         ELSE "failed"]
      BY <2>2 DEF ClaimEnds
    <3>2. /\ metered' \in Nat /\ spent' \in Nat
          /\ Support(p, Cardinality(Backing(c))) \in Labels
      BY <3>1, PanelCosts DEF Bill
    <3> QED
      BY <2>2, <3>1, <3>2 DEF ClaimEnds, ClaimStates, Labels
  <2> QED
    BY <1>13, <2>1, <2>2 DEF Claim
<1>14. CASE DeadlinePasses
  BY <1>14 DEF DeadlinePasses
<1>15. CASE UNCHANGED vars
  BY <1>15 DEF vars
<1> HIDE DEF Typed, Stages
<1> QED
  BY <1>3, <1>4, <1>5, <1>6, <1>7, <1>8, <1>9, <1>10, <1>11, <1>12, <1>13, <1>14, <1>15
  DEF Next, Proceeds

(* A permit leaves the semaphore only to a unit that begins, and comes back *)
(* when that unit ends.                                                     *)
LEMMA PermitsStep ==
    ASSUME IInv, [Next]_vars
    PROVE  PermitsAreHeld'
<1> Typed /\ Stages /\ PermitsAreHeld
  BY DEF IInv
<1> USE ResearchAssumption
<1>1. /\ IsFiniteSet(SourcesHolding) /\ Cardinality(SourcesHolding) \in Nat
      /\ IsFiniteSet(ClaimsHolding) /\ Cardinality(ClaimsHolding) \in Nat
      /\ permits \in Nat
  BY Finite DEF SourcesHolding, ClaimsHolding, Typed
<1>2. ASSUME SourcesHolding' = SourcesHolding, ClaimsHolding' = ClaimsHolding, permits' = permits
      PROVE  PermitsAreHeld'
  BY <1>2 DEF PermitsAreHeld
<1>3. ASSUME UNCHANGED <<src, clm, permits>> PROVE PermitsAreHeld'
  BY <1>2, <1>3 DEF SourcesHolding, ClaimsHolding, SourcesIn, ClaimsIn
<1>4. CASE ScopeReturns
  BY <1>3, <1>4 DEF ScopeReturns
<1>5. CASE ScopeFails
  BY <1>3, <1>5 DEF ScopeFails
<1>6. CASE SearchBegins
  BY <1>3, <1>6 DEF SearchBegins
<1>7. CASE SearchReturns
  <2>1. SourcesHolding = {}
    BY <1>7 DEF SearchReturns, Stages, Early, SourcesHolding, SourcesIn
  <2>2. SourcesHolding' = {}
    BY <1>7 DEF SearchReturns, SourcesHolding, SourcesIn
  <2>3. ClaimsHolding' = ClaimsHolding
    BY <1>7 DEF SearchReturns, ClaimsHolding, ClaimsIn
  <2> QED
    BY <1>2, <1>7, <2>1, <2>2, <2>3 DEF SearchReturns
<1>8. CASE SearchFails
  BY <1>3, <1>8 DEF SearchFails
<1>9. CASE FetchEnds
  <2>1. CASE clm' = clm
    BY <1>3, <1>9, <2>1 DEF FetchEnds
  <2>2. CASE \E left \in SUBSET Unique :
            clm' = [c \in Claims |-> IF c \in left THEN "deferred"
                                    ELSE IF c \in Unique THEN "queued" ELSE "none"]
    <3>1. ClaimsHolding' = {}
      BY <2>2 DEF ClaimsHolding, ClaimsIn
    <3>2. ClaimsHolding = {}
      BY <1>9 DEF FetchEnds, Stages, Early, ClaimsHolding, ClaimsIn
    <3>3. SourcesHolding' = SourcesHolding
      BY <1>9 DEF FetchEnds, SourcesHolding, SourcesIn
    <3> QED
      BY <1>2, <1>9, <3>1, <3>2, <3>3 DEF FetchEnds
  <2> QED
    BY <1>9, <2>1, <2>2 DEF FetchEnds
<1>10. CASE VerifyEnds
  BY <1>3, <1>10 DEF VerifyEnds
<1>11. CASE SynthesisReturns
  BY <1>3, <1>11 DEF SynthesisReturns
<1>12. CASE SynthesisFails
  BY <1>3, <1>12 DEF SynthesisFails
<1>13. ASSUME NEW i \in Sources, Source(i) PROVE PermitsAreHeld'
  <2>1. src \in [Sources -> SourceStates]
    BY DEF Typed
  <2>2. CASE SourceBegins(i)
    <3>1. ClaimsHolding' = ClaimsHolding
      BY <2>2 DEF SourceBegins, ClaimsHolding, ClaimsIn
    <3>2. i \notin SourcesHolding /\ permits > 0
      BY <2>2 DEF SourceBegins, IsNext, SourcesHolding, SourcesIn
    <3>3. CASE tripped' = "none"
      <4>1. SourcesHolding' = SourcesHolding \cup {i}
        BY <2>1, <2>2, <3>3 DEF SourceBegins, SourcesHolding, SourcesIn
      <4>2. Cardinality(SourcesHolding') = Cardinality(SourcesHolding) + 1
        BY <1>1, <3>2, <4>1, FS_AddElement
      <4>3. permits' = permits - 1
        BY <2>2, <3>3 DEF SourceBegins
      <4> QED
        BY <1>1, <3>1, <3>2, <4>2, <4>3 DEF PermitsAreHeld
    <3>4. CASE tripped' # "none"
      <4>1. SourcesHolding' = SourcesHolding
        BY <2>1, <2>2, <3>2, <3>4 DEF SourceBegins, SourcesHolding, SourcesIn
      <4> QED
        BY <1>2, <2>2, <3>1, <3>4, <4>1 DEF SourceBegins
    <3> QED
      BY <3>3, <3>4
  <2>3. CASE PageLoads(i)
    <3>1. SourcesHolding' = SourcesHolding
      BY <2>1, <2>3 DEF PageLoads, SourcesHolding, SourcesIn
    <3>2. ClaimsHolding' = ClaimsHolding
      BY <2>3 DEF PageLoads, ClaimsHolding, ClaimsIn
    <3> QED
      BY <1>2, <2>3, <3>1, <3>2 DEF PageLoads
  <2>4. ASSUME NEW state \in {"failed", "unreadable", "extracted"}, SourceEnds(i, state),
               src[i] \in {"fetching", "extracting"}
        PROVE  PermitsAreHeld'
    <3>1. ClaimsHolding' = ClaimsHolding
      BY <2>4 DEF SourceEnds, ClaimsHolding, ClaimsIn
    <3>2. SourcesHolding' = SourcesHolding \ {i} /\ i \in SourcesHolding
      BY <2>1, <2>4 DEF SourceEnds, SourcesHolding, SourcesIn
    <3>3. Cardinality(SourcesHolding') = Cardinality(SourcesHolding) - 1
      BY <1>1, <3>2, FS_RemoveElement
    <3>4. permits' = permits + 1
      BY <2>4 DEF SourceEnds
    <3> QED
      BY <1>1, <3>1, <3>3, <3>4 DEF PermitsAreHeld
  <2>5. CASE PageIsUseless(i)
    BY <2>4, <2>5 DEF PageIsUseless
  <2>6. CASE Extracts(i)
    BY <2>4, <2>6 DEF Extracts
  <2>7. CASE ExtractFails(i)
    BY <2>4, <2>7 DEF ExtractFails
  <2> QED
    BY <1>13, <2>2, <2>3, <2>5, <2>6, <2>7 DEF Source
<1>14. ASSUME NEW c \in Claims, Claim(c) PROVE PermitsAreHeld'
  <2>1. clm \in [Claims -> ClaimStates]
    BY DEF Typed
  <2>2. SourcesHolding' = SourcesHolding
    BY <1>14 DEF Claim, ClaimBegins, ClaimEnds, SourcesHolding, SourcesIn
  <2>3. CASE ClaimBegins(c)
    <3>1. c \notin ClaimsHolding /\ permits > 0
      BY <2>3 DEF ClaimBegins, IsNext, ClaimsHolding, ClaimsIn
    <3>2. CASE tripped' = "none"
      <4>1. ClaimsHolding' = ClaimsHolding \cup {c}
        BY <2>1, <2>3, <3>2 DEF ClaimBegins, ClaimsHolding, ClaimsIn
      <4>2. Cardinality(ClaimsHolding') = Cardinality(ClaimsHolding) + 1
        BY <1>1, <3>1, <4>1, FS_AddElement
      <4>3. permits' = permits - 1
        BY <2>3, <3>2 DEF ClaimBegins
      <4> QED
        BY <1>1, <2>2, <3>1, <4>2, <4>3 DEF PermitsAreHeld
    <3>3. CASE tripped' # "none"
      <4>1. ClaimsHolding' = ClaimsHolding
        BY <2>1, <2>3, <3>1, <3>3 DEF ClaimBegins, ClaimsHolding, ClaimsIn
      <4> QED
        BY <1>2, <2>2, <2>3, <3>3, <4>1 DEF ClaimBegins
    <3> QED
      BY <3>2, <3>3
  <2>4. CASE ClaimEnds(c)
    <3>1. PICK label \in Labels \cup {"failed"} : clm' = [clm EXCEPT ![c] = label]
      BY <2>4, PanelCosts DEF ClaimEnds
    <3>2. label # "judging"
      BY DEF Labels
    <3>3. ClaimsHolding' = ClaimsHolding \ {c} /\ c \in ClaimsHolding
      BY <2>1, <2>4, <3>1, <3>2 DEF ClaimEnds, ClaimsHolding, ClaimsIn
    <3>4. Cardinality(ClaimsHolding') = Cardinality(ClaimsHolding) - 1
      BY <1>1, <3>3, FS_RemoveElement
    <3>5. permits' = permits + 1
      BY <2>4 DEF ClaimEnds
    <3> QED
      BY <1>1, <2>2, <3>4, <3>5 DEF PermitsAreHeld
  <2> QED
    BY <1>14, <2>3, <2>4 DEF Claim
<1>15. CASE DeadlinePasses
  BY <1>3, <1>15 DEF DeadlinePasses
<1>16. CASE UNCHANGED vars
  BY <1>3, <1>16 DEF vars
<1> QED
  BY <1>4, <1>5, <1>6, <1>7, <1>8, <1>9, <1>10, <1>11, <1>12, <1>13, <1>14, <1>15, <1>16
  DEF Next, Proceeds

(* What the units in flight may still cost.                                 *)
LEMMA Reserve ==
    ASSUME NEW n \in 0..Concurrency
    PROVE  /\ (Concurrency - n) * UnitCost \in Nat
           /\ n > 0 => /\ (Concurrency - (n - 1)) * UnitCost = (Concurrency - n) * UnitCost + UnitCost
                       /\ (Concurrency - (n - 1)) * UnitCost <= Concurrency * UnitCost
<1> DEFINE k == Concurrency - n
<1>1. k \in Nat /\ Concurrency \in Nat /\ UnitCost \in Nat
  BY ResearchAssumption, Costs
<1>2. k * UnitCost \in Nat
  BY <1>1, Grows
<1>3. ASSUME n > 0
      PROVE  /\ (Concurrency - (n - 1)) * UnitCost = k * UnitCost + UnitCost
             /\ (Concurrency - (n - 1)) * UnitCost <= Concurrency * UnitCost
  <2>1. Concurrency - (n - 1) = k + 1 /\ k + 1 \in Nat /\ k + 1 <= Concurrency
    BY <1>1, <1>3
  <2>2. (k + 1) * UnitCost <= Concurrency * UnitCost
    BY <1>1, <2>1, Grows
  <2> HIDE DEF k
  <2>3. (k + 1) * UnitCost = k * UnitCost + UnitCost
    BY <1>1, SMT
  <2> QED
    BY <2>1, <2>2, <2>3
<1> QED
  BY <1>2, <1>3

(* No permit is made up.                                                    *)
LEMMA PermitsBounded == Typed /\ PermitsAreHeld => permits \in 0..Concurrency
<1> QED
  BY Finite, ResearchAssumption DEF Typed, PermitsAreHeld, SourcesHolding, ClaimsHolding

(* The same after a step.                                                   *)
LEMMA PermitsBoundedNext == Typed' /\ PermitsAreHeld' => permits' \in 0..Concurrency
<1> QED
  BY Finite, ResearchAssumption DEF Typed, PermitsAreHeld, SourcesHolding, ClaimsHolding

(* The meter and what is in flight stay within the bound: a unit begins     *)
(* only under the budget, and what it costs was reserved then.              *)
LEMMA MeterStep ==
    ASSUME IInv, [Next]_vars
    PROVE  MeterBounded'
<1> Typed /\ Stages /\ PermitsAreHeld /\ MeterBounded
  BY DEF IInv
<1> USE ResearchAssumption
<1> DEFINE R == (Concurrency - permits) * UnitCost
<1>1. permits \in 0..Concurrency /\ permits' \in 0..Concurrency /\ metered \in Nat
  BY TypedStep, PermitsStep, PermitsBounded, PermitsBoundedNext DEF Typed
<1>2. /\ UnitCost \in Nat /\ Fanout \in Nat /\ MaxCall <= UnitCost /\ MaxCall <= Fanout
      /\ Concurrency * UnitCost \in Nat /\ Fanout = Budget - 1 + Concurrency * UnitCost
      /\ R \in Nat
  BY <1>1, Costs, Reserve
<1> HIDE DEF R
<1>3. phase \in {"scoped", "search", "fetch", "verify"} => metered + R <= Fanout
  BY DEF MeterBounded, R
<1>4. ASSUME UNCHANGED <<metered, permits>>, phase \notin {"scope", "synthesize", "done"},
             phase' # "scope", attempt = 0
      PROVE  MeterBounded'
  <2>1. 0 * MaxCall = 0
    OBVIOUS
  <2>2. (Concurrency - permits') * UnitCost = R
    BY <1>4 DEF R
  <2> QED
    BY <1>1, <1>2, <1>3, <1>4, <2>1, <2>2, TypedStep DEF MeterBounded, Stages, Typed
<1>5. CASE ScopeReturns
  <2>1. SourcesHolding = {} /\ ClaimsHolding = {}
    BY <1>5 DEF ScopeReturns, Stages, Early, SourcesHolding, ClaimsHolding, SourcesIn, ClaimsIn
  <2>2. permits = Concurrency
    BY <1>1, <2>1, FS_EmptySet DEF PermitsAreHeld
  <2>3. R = 0
    <3>1. 0 * UnitCost = 0
      BY <1>2
    <3> QED
      BY <2>2, <3>1 DEF R
  <2>4. metered' \in Nat /\ metered' <= MaxCall
    BY <1>5 DEF ScopeReturns, Bill, Billed, MeterBounded
  <2>5. phase' \in {"scoped", "done"} /\ permits' = permits
    BY <1>5 DEF ScopeReturns, Fails
  <2>6. (Concurrency - permits') * UnitCost = R
    BY <2>5 DEF R
  <2>7. metered' <= Fanout /\ metered' <= Fanout + 2 * MaxCall
    BY <1>2, <2>4
  <2> QED
    BY <1>2, <2>3, <2>4, <2>5, <2>6, <2>7 DEF MeterBounded
<1>6. CASE ScopeFails
  <2>1. metered' = 0 /\ phase' = "done"
    BY <1>6 DEF ScopeFails, Bill, Fails, MeterBounded
  <2> QED
    BY <1>2, <2>1 DEF MeterBounded
<1>7. CASE SearchBegins
  BY <1>4, <1>7 DEF SearchBegins, Stages
<1>8. CASE SearchReturns
  BY <1>4, <1>8 DEF SearchReturns, Stages
<1>9. CASE SearchFails
  BY <1>4, <1>9 DEF SearchFails, Fails, Stages
<1>10. CASE FetchEnds
  BY <1>4, <1>10 DEF FetchEnds, PhaseFails, Fails, Stages
<1>11. CASE VerifyEnds
  BY <1>4, <1>11 DEF VerifyEnds, PhaseFails, Fails, Returns, Stages
<1>12. ASSUME phase = "synthesize", NEW cost \in 0..MaxCall, metered' = metered + cost,
              phase' = "done" \/ (phase' = "synthesize" /\ attempt = 0 /\ attempt' = 1)
       PROVE  MeterBounded'
  <2>1. 0 * MaxCall = 0 /\ 1 * MaxCall = MaxCall
    OBVIOUS
  <2>2. attempt \in {0, 1}
    BY DEF Typed
  <2>3. metered <= Fanout + attempt * MaxCall
    BY <1>12 DEF MeterBounded
  <2>4. CASE attempt = 0
    <3>1. metered' <= Fanout + MaxCall
      BY <1>1, <1>2, <1>12, <2>1, <2>3, <2>4
    <3>2. CASE phase' = "done"
      <4>1. metered' <= Fanout + 2 * MaxCall
        BY <1>1, <1>2, <1>12, <3>1
      <4> QED
        BY <3>2, <4>1 DEF MeterBounded
    <3>3. CASE phase' = "synthesize" /\ attempt' = 1
      <4>1. attempt' * MaxCall = MaxCall
        BY <3>3
      <4> QED
        BY <3>1, <3>3, <4>1 DEF MeterBounded
    <3> QED
      BY <1>12, <3>2, <3>3
  <2>5. CASE attempt = 1
    <3>1. metered' <= Fanout + 2 * MaxCall
      BY <1>1, <1>2, <1>12, <2>1, <2>3, <2>5
    <3> QED
      BY <1>12, <2>5, <3>1 DEF MeterBounded
  <2> QED
    BY <2>2, <2>4, <2>5
<1>13. CASE SynthesisReturns
  <2>1. PICK cost \in Billed : Bill(cost, cost)
    BY <1>13 DEF SynthesisReturns
  <2>2. cost \in 0..MaxCall /\ metered' = metered + cost
    BY <2>1 DEF Billed, Bill
  <2>3. phase' = "done" \/ (phase' = "synthesize" /\ attempt = 0 /\ attempt' = 1)
    BY <1>13 DEF SynthesisReturns, Demotes, Returns
  <2> QED
    BY <1>12, <1>13, <2>2, <2>3 DEF SynthesisReturns
<1>14. CASE SynthesisFails
  <2>1. PICK cost \in 0..MaxCall : metered' = metered + cost
    BY <1>1, <1>14 DEF SynthesisFails, Bill, Billed, MaybeBilled
  <2>2. phase' = "done"
    BY <1>14 DEF SynthesisFails, Fails
  <2> QED
    BY <1>12, <1>14, <2>1, <2>2 DEF SynthesisFails
<1>15. ASSUME phase \in {"fetch", "verify"}, phase' = phase, metered' = metered, metered < Budget,
              permits > 0, permits' = permits - 1
       PROVE  MeterBounded'
  <2>1. (Concurrency - permits') * UnitCost <= Concurrency * UnitCost
    BY <1>1, <1>15, Reserve
  <2>2. (Concurrency - permits') * UnitCost \in Nat
    BY <1>1, Reserve
  <2> QED
    BY <1>1, <1>2, <1>15, <2>1, <2>2 DEF MeterBounded
<1>16. ASSUME phase \in {"fetch", "verify"}, phase' = phase, NEW cost \in Nat, cost <= UnitCost,
              metered' = metered + cost, permits' = permits + 1
       PROVE  MeterBounded'
  <2>1. permits' - 1 = permits /\ permits' > 0
    BY <1>1, <1>16
  <2>2. R = (Concurrency - permits') * UnitCost + UnitCost
    BY <1>1, <2>1, Reserve DEF R
  <2>3. (Concurrency - permits') * UnitCost \in Nat
    BY <1>1, Reserve
  <2> QED
    BY <1>1, <1>2, <1>3, <1>16, <2>2, <2>3 DEF MeterBounded
<1>17. ASSUME NEW i \in Sources, Source(i) PROVE MeterBounded'
  <2>1. phase = "fetch" /\ phase' = phase
    BY <1>17 DEF Source, SourceBegins, PageLoads, PageIsUseless, Extracts, ExtractFails, SourceEnds,
       Stages, Early, Typed
  <2>2. CASE SourceBegins(i)
    <3>1. CASE tripped' = "none"
      BY <1>1, <1>15, <2>1, <2>2, <3>1 DEF SourceBegins, Latch, Probe
    <3>2. CASE tripped' # "none"
      BY <1>4, <2>1, <2>2, <3>2 DEF SourceBegins, Stages
    <3> QED
      BY <3>1, <3>2
  <2>3. CASE PageLoads(i)
    BY <1>4, <2>1, <2>3 DEF PageLoads, Stages
  <2>4. CASE PageIsUseless(i)
    BY <1>1, <1>2, <1>16, <2>1, <2>4 DEF PageIsUseless, SourceEnds
  <2>5. CASE Extracts(i)
    BY <1>2, <1>16, <2>1, <2>5 DEF Extracts, SourceEnds, Bill, Billed
  <2>6. CASE ExtractFails(i)
    <3>1. PICK cost \in 0..MaxCall : metered' = metered + cost
      BY <1>1, <2>6 DEF ExtractFails, Bill, Billed, MaybeBilled
    <3> QED
      BY <1>2, <1>16, <2>1, <2>6, <3>1 DEF ExtractFails, SourceEnds
  <2> QED
    BY <1>17, <2>2, <2>3, <2>4, <2>5, <2>6 DEF Source
<1>18. ASSUME NEW c \in Claims, Claim(c) PROVE MeterBounded'
  <2>1. phase = "verify" /\ phase' = phase
    BY <1>18 DEF Claim, ClaimBegins, ClaimEnds, Stages, Early, Typed
  <2>2. CASE ClaimBegins(c)
    <3>1. CASE tripped' = "none"
      BY <1>1, <1>15, <2>1, <2>2, <3>1 DEF ClaimBegins, Latch, Probe
    <3>2. CASE tripped' # "none"
      BY <1>4, <2>1, <2>2, <3>2 DEF ClaimBegins, Stages
    <3> QED
      BY <3>1, <3>2
  <2>3. CASE ClaimEnds(c)
    <3>1. PICK cost \in Nat : cost <= UnitCost /\ metered' = metered + cost
      BY <2>3, PanelCosts DEF ClaimEnds, Bill
    <3> QED
      BY <1>16, <2>1, <2>3, <3>1 DEF ClaimEnds
  <2> QED
    BY <1>18, <2>2, <2>3 DEF Claim
<1>19. ASSUME UNCHANGED <<phase, metered, permits, attempt>> PROVE MeterBounded'
  BY <1>19 DEF MeterBounded
<1>20. CASE DeadlinePasses
  BY <1>19, <1>20 DEF DeadlinePasses
<1>21. CASE UNCHANGED vars
  BY <1>19, <1>21 DEF vars
<1> QED
  BY <1>5, <1>6, <1>7, <1>8, <1>9, <1>10, <1>11, <1>13, <1>14, <1>17, <1>18, <1>20, <1>21
  DEF Next, Proceeds

(* A run that has returned takes no further step.                           *)
LEMMA DoneIsLast ==
    ASSUME IInv, [Next]_vars, phase = "done"
    PROVE  UNCHANGED vars
<1>1. Stages
  BY DEF IInv
<1>2. ~Proceeds
  BY DEF Proceeds, ScopeReturns, ScopeFails, SearchBegins, SearchReturns, SearchFails, FetchEnds,
     VerifyEnds, SynthesisReturns, SynthesisFails
<1>3. \A i \in Sources : ~Source(i)
  BY <1>1 DEF Stages, Source, SourceBegins, PageLoads, PageIsUseless, Extracts, ExtractFails
<1>4. \A c \in Claims : ~Claim(c)
  BY <1>1 DEF Stages, Claim, ClaimBegins, ClaimEnds
<1>5. ~DeadlinePasses
  BY DEF DeadlinePasses
<1> QED
  BY <1>2, <1>3, <1>4, <1>5 DEF Next

(* Which phase the futures belong to.                                       *)
LEMMA UnitsHaveAPhase ==
    ASSUME IInv
    PROVE  /\ \A i \in Sources : Source(i) => phase = "fetch" /\ phase' = "fetch"
           /\ \A c \in Claims : Claim(c) => phase = "verify" /\ phase' = "verify"
<1>1. Stages /\ Typed
  BY DEF IInv
<1>2. \A i \in Sources : Source(i) => phase = "fetch" /\ phase' = "fetch"
  BY <1>1 DEF Stages, Typed, Early, Source, SourceBegins, PageLoads, PageIsUseless, Extracts,
     ExtractFails, SourceEnds
<1>3. \A c \in Claims : Claim(c) => phase = "verify" /\ phase' = "verify"
  BY <1>1 DEF Stages, Typed, Early, Claim, ClaimBegins, ClaimEnds
<1> QED
  BY <1>2, <1>3

(* The latch moves only by a probe, which had a cause, and the causes last. *)
LEMMA TripStep ==
    ASSUME IInv, [Next]_vars
    PROVE  TripHasACause'
<1> Typed /\ Stages /\ TripHasACause
  BY DEF IInv
<1> DEFINE Caused(t, l) == /\ t = "budget" => metered >= Budget
                           /\ t = "deadline" => l
<1>1. /\ \A l : Probe(l) = "budget" => metered >= Budget
      /\ \A l : Probe(l) = "deadline" => l \/ late
  BY DEF Probe, TripHasACause
<1>2. /\ tripped = "budget" => metered >= Budget
      /\ tripped = "deadline" => late
  BY DEF TripHasACause
<1>3. ASSUME UNCHANGED <<tripped, src, clm>>, metered' >= metered, metered' \in Nat, late => late'
      PROVE  TripHasACause'
  <2>1. SkippedWork' <=> SkippedWork
    BY <1>3 DEF SkippedWork, SourcesIn, ClaimsIn
  <2>2. tripped' = "budget" => metered' >= Budget
    BY <1>2, <1>3, ResearchAssumption DEF Typed
  <2> QED
    BY <1>2, <1>3, <2>1, <2>2 DEF TripHasACause
<1>4. metered' \in Nat
  BY TypedStep DEF Typed
<1>5. CASE ScopeReturns
  BY <1>3, <1>4, <1>5 DEF ScopeReturns, Bill, Billed, Typed
<1>6. CASE ScopeFails
  BY <1>3, <1>4, <1>6 DEF ScopeFails, Bill, Typed
<1>7. CASE SearchBegins
  <2>1. \A i \in Sources : src'[i] = "none"
    BY <1>7 DEF SearchBegins, Stages, Early
  <2>2. \A c \in Claims : clm'[c] = "none"
    BY <1>7 DEF SearchBegins, Stages, Early
  <2>3. ~SkippedWork'
    BY <2>1, <2>2 DEF SkippedWork, SourcesIn, ClaimsIn
  <2> QED
    BY <1>1, <1>7, <2>1, <2>3 DEF SearchBegins, Latch, TripHasACause
<1>8. CASE SearchReturns
  <2>1. PICK n \in 0..MaxSources, m \in 0..MaxSources :
          /\ m <= n
          /\ Spawn(1..m, (m + 1)..n)
          /\ src' = [i \in Sources |-> IF i <= m THEN "queued"
                                       ELSE IF i <= n THEN "skipped" ELSE "none"]
    BY <1>8 DEF SearchReturns
  <2>2. tripped = "none" /\ metered' = metered /\ ClaimsIn({"deferred", "skipped"})' = {}
    BY <1>8 DEF SearchReturns, Stages, Early, ClaimsIn
  <2>3. CASE (m + 1)..n = {}
    <3>1. tripped' = "none"
      BY <2>1, <2>2, <2>3 DEF Spawn
    <3>2. \A i \in Sources : src'[i] # "skipped"
      BY <2>1, <2>3, ResearchAssumption DEF Sources
    <3> QED
      BY <2>2, <3>1, <3>2 DEF TripHasACause, SkippedWork, SourcesIn
  <2>4. CASE (m + 1)..n # {}
    <3>1. tripped' # "none" /\ tripped' = Probe(late') /\ (late => late')
      BY <2>1, <2>4 DEF Spawn, Typed
    <3>2. PICK i \in (m + 1)..n : TRUE
      BY <2>4
    <3>3. i \in Sources /\ src'[i] = "skipped"
      BY <2>1, <3>2, ResearchAssumption DEF Sources
    <3>4. SkippedWork'
      BY <3>3 DEF SkippedWork, SourcesIn
    <3> QED
      BY <1>1, <2>2, <3>1, <3>4 DEF TripHasACause
  <2> QED
    BY <2>3, <2>4
<1>9. CASE SearchFails
  BY <1>3, <1>4, <1>9 DEF SearchFails, Typed
<1>10. CASE FetchEnds
  <2>1. CASE UNCHANGED <<late, tripped, clm>>
    BY <1>3, <1>4, <1>10, <2>1 DEF FetchEnds, Typed
  <2>2. CASE \E left \in SUBSET Unique :
          /\ Spawn(Unique \ left, left)
          /\ clm' = [c \in Claims |-> IF c \in left THEN "deferred"
                                     ELSE IF c \in Unique THEN "queued" ELSE "none"]
    <3>1. PICK left \in SUBSET Unique :
          /\ Spawn(Unique \ left, left)
          /\ clm' = [c \in Claims |-> IF c \in left THEN "deferred"
                                     ELSE IF c \in Unique THEN "queued" ELSE "none"]
      BY <2>2
    <3>2. metered' = metered /\ src' = src /\ \A c \in Claims : clm[c] = "none"
      BY <1>10 DEF FetchEnds, Stages
    <3>3. left \subseteq Claims
      BY DEF Typed, Unique, Extracted, SourcesIn
    <3>4. ClaimsIn({"deferred", "skipped"})' = left
      BY <3>1, <3>3 DEF ClaimsIn
    <3>5. ClaimsIn({"deferred", "skipped"}) = {}
      BY <3>2 DEF ClaimsIn
    <3>6. SourcesIn({"skipped"})' = SourcesIn({"skipped"})
      BY <3>2 DEF SourcesIn
    <3>7. CASE left = {}
      <4>1. UNCHANGED <<tripped, late>> /\ (SkippedWork' <=> SkippedWork)
        BY <3>1, <3>4, <3>5, <3>6, <3>7 DEF Spawn, SkippedWork
      <4> QED
        BY <3>2, <4>1 DEF TripHasACause
    <3>8. CASE left # {}
      <4>1. tripped' # "none" /\ tripped' = Probe(late') /\ (late => late')
        BY <3>1, <3>8 DEF Spawn, Typed
      <4>2. SkippedWork'
        BY <3>4, <3>8 DEF SkippedWork
      <4> QED
        BY <1>1, <3>2, <4>1, <4>2 DEF TripHasACause
    <3> QED
      BY <3>7, <3>8
  <2> QED
    BY <1>10, <2>1, <2>2 DEF FetchEnds
<1>11. CASE VerifyEnds
  BY <1>3, <1>4, <1>11 DEF VerifyEnds, Typed
<1>12. CASE SynthesisReturns
  BY <1>3, <1>4, <1>12 DEF SynthesisReturns, Bill, Billed, Typed
<1>13. CASE SynthesisFails
  <2>1. metered' >= metered
    BY <1>13 DEF SynthesisFails, Bill, Billed, Typed
  <2> QED
    BY <1>3, <1>4, <1>13, <2>1 DEF SynthesisFails
<1>14. ASSUME NEW i \in Sources, Source(i) PROVE TripHasACause'
  <2>1. clm' = clm /\ late' = late /\ src[i] # "none" /\ src[i] # "skipped"
    BY <1>14 DEF Source, SourceBegins, IsNext, PageLoads, PageIsUseless, Extracts, ExtractFails, SourceEnds
  <2>2. ClaimsIn({"deferred", "skipped"})' = ClaimsIn({"deferred", "skipped"})
    BY <2>1 DEF ClaimsIn
  <2>3. metered' >= metered
    BY <1>14 DEF Source, SourceBegins, PageLoads, PageIsUseless, Extracts, ExtractFails, Bill, Billed,
       MaybeBilled, Typed
  <2>4. ASSUME NEW state \in SourceStates, state # "skipped", src' = [src EXCEPT ![i] = state],
               tripped' = tripped
        PROVE  TripHasACause'
    <3>1. SourcesIn({"skipped"})' = SourcesIn({"skipped"})
      BY <2>1, <2>4 DEF SourcesIn, Typed
    <3>2. SkippedWork' <=> SkippedWork
      BY <2>2, <3>1 DEF SkippedWork
    <3>3. tripped' = "budget" => metered' >= Budget
      BY <1>2, <1>4, <2>3, <2>4, ResearchAssumption DEF Typed
    <3> QED
      BY <1>2, <2>1, <2>4, <3>2, <3>3 DEF TripHasACause
  <2>5. CASE SourceBegins(i)
    <3>1. CASE tripped' = "none"
      <4>1. tripped = "none" /\ src' = [src EXCEPT ![i] = "fetching"]
        BY <2>5, <3>1 DEF SourceBegins, Latch, Probe
      <4> QED
        BY <2>4, <3>1, <4>1 DEF SourceStates
    <3>2. CASE tripped' # "none"
      <4>1. SkippedWork'
        BY <2>5, <3>2 DEF SourceBegins, SkippedWork, SourcesIn, Typed
      <4> QED
        BY <1>1, <2>5, <3>2, <4>1 DEF SourceBegins, Latch, TripHasACause
    <3> QED
      BY <3>1, <3>2
  <2>6. CASE PageLoads(i)
    BY <2>4, <2>6 DEF PageLoads, SourceStates
  <2>7. CASE PageIsUseless(i)
    BY <2>4, <2>7 DEF PageIsUseless, SourceEnds, SourceStates
  <2>8. CASE Extracts(i)
    BY <2>4, <2>8 DEF Extracts, SourceEnds, SourceStates
  <2>9. CASE ExtractFails(i)
    BY <2>4, <2>9 DEF ExtractFails, SourceEnds, SourceStates
  <2> QED
    BY <1>14, <2>5, <2>6, <2>7, <2>8, <2>9 DEF Source
<1>15. ASSUME NEW c \in Claims, Claim(c) PROVE TripHasACause'
  <2>1. src' = src /\ late' = late /\ clm[c] \notin {"skipped", "deferred"}
    BY <1>15 DEF Claim, ClaimBegins, IsNext, ClaimEnds
  <2>2. SourcesIn({"skipped"})' = SourcesIn({"skipped"})
    BY <2>1 DEF SourcesIn
  <2>3. ASSUME NEW state \in ClaimStates, state \notin {"skipped", "deferred"},
               clm' = [clm EXCEPT ![c] = state], tripped' = tripped, metered' >= metered
        PROVE  TripHasACause'
    <3>1. ClaimsIn({"deferred", "skipped"})' = ClaimsIn({"deferred", "skipped"})
      BY <2>1, <2>3 DEF ClaimsIn, Typed
    <3>2. SkippedWork' <=> SkippedWork
      BY <2>2, <3>1 DEF SkippedWork
    <3>3. tripped' = "budget" => metered' >= Budget
      BY <1>2, <1>4, <2>3, ResearchAssumption DEF Typed
    <3> QED
      BY <1>2, <2>1, <2>3, <3>2, <3>3 DEF TripHasACause
  <2>4. CASE ClaimBegins(c)
    <3>1. CASE tripped' = "none"
      <4>1. tripped = "none" /\ clm' = [clm EXCEPT ![c] = "judging"]
        BY <2>4, <3>1 DEF ClaimBegins, Latch, Probe
      <4>2. metered' >= metered
        BY <2>4 DEF ClaimBegins, Typed
      <4> QED
        BY <2>3, <3>1, <4>1, <4>2 DEF ClaimStates
    <3>2. CASE tripped' # "none"
      <4>1. SkippedWork'
        BY <2>4, <3>2 DEF ClaimBegins, SkippedWork, ClaimsIn, Typed
      <4> QED
        BY <1>1, <2>4, <3>2, <4>1 DEF ClaimBegins, Latch, TripHasACause
    <3> QED
      BY <3>1, <3>2
  <2>5. CASE ClaimEnds(c)
    <3>1. PICK label \in Labels \cup {"failed"} : clm' = [clm EXCEPT ![c] = label]
      BY <2>5, PanelCosts DEF ClaimEnds
    <3>2. label \in ClaimStates /\ label \notin {"skipped", "deferred"}
      BY DEF Labels, ClaimStates
    <3>3. metered' >= metered
      BY <2>5, PanelCosts DEF ClaimEnds, Bill, Typed
    <3> QED
      BY <2>3, <2>5, <3>1, <3>2, <3>3 DEF ClaimEnds
  <2> QED
    BY <1>15, <2>4, <2>5 DEF Claim
<1>16. CASE DeadlinePasses
  BY <1>3, <1>4, <1>16 DEF DeadlinePasses, Typed
<1>17. CASE UNCHANGED vars
  BY <1>3, <1>4, <1>17 DEF vars, Typed
<1> QED
  BY <1>5, <1>6, <1>7, <1>8, <1>9, <1>10, <1>11, <1>12, <1>13, <1>14, <1>15, <1>16, <1>17
  DEF Next, Proceeds

(* The claims under way stay the distinct claims, and each barrier counts   *)
(* the ones lost before it.                                                 *)
LEMMA CountStep ==
    ASSUME IInv, [Next]_vars
    PROVE  ClaimsAreCounted'
<1> Typed /\ Stages /\ ClaimsAreCounted /\ Stages' /\ Typed'
  BY TypedStep DEF IInv
<1>1. ASSUME UNCHANGED <<src, yield>> PROVE Unique' = Unique
  BY <1>1 DEF Unique, Extracted, SourcesIn
<1>2. ASSUME phase' \in Early \cup {"fetch"} PROVE ClaimsAreCounted'
  BY <1>2 DEF Stages, ClaimsAreCounted, Early
<1>3. ASSUME dropped' = 0, phase' = "done", ~Valid' PROVE ClaimsAreCounted'
  BY <1>3 DEF ClaimsAreCounted
<1>4. ASSUME NEW n \in Nat, Fails(n) PROVE phase' = "done" /\ ~Valid'
  BY <1>4 DEF Fails, Valid
<1>5. CASE phase \in Early \cup {"fetch"} /\ ~FetchEnds
  <2>1. dropped = 0
    BY <1>5 DEF Stages
  <2>2. CASE ScopeReturns
    BY <1>2, <1>3, <1>4, <2>1, <2>2 DEF ScopeReturns, Early
  <2>3. CASE ScopeFails
    BY <1>3, <1>4, <2>1, <2>3 DEF ScopeFails, MaybeBilled
  <2>4. CASE SearchFails
    BY <1>3, <1>4, <2>1, <2>4 DEF SearchFails
  <2>5. CASE ~(ScopeReturns \/ ScopeFails \/ SearchFails)
    <3>1. ~VerifyEnds /\ ~SynthesisReturns /\ ~SynthesisFails
      BY <1>5 DEF VerifyEnds, SynthesisReturns, SynthesisFails, Early
    <3>2. \A c \in Claims : ~Claim(c)
      BY <1>5, UnitsHaveAPhase DEF Early
    <3>3. \A i \in Sources : Source(i) => phase' = "fetch"
      BY UnitsHaveAPhase
    <3>4. SearchBegins \/ SearchReturns \/ DeadlinePasses \/ UNCHANGED vars
              => phase' \in Early \cup {"fetch"}
      BY <1>5 DEF SearchBegins, SearchReturns, DeadlinePasses, vars, Early
    <3> QED
      BY <1>2, <1>5, <2>5, <3>1, <3>2, <3>3, <3>4 DEF Next, Proceeds
  <2> QED
    BY <2>2, <2>3, <2>4, <2>5
<1>6. CASE FetchEnds
  <2>1. dropped = 0 /\ UNCHANGED <<src, yield>>
    BY <1>6 DEF FetchEnds, Stages
  <2>2. CASE Extracted = {} /\ SourcesIn({"failed"}) # {}
    BY <1>3, <1>4, <1>6, <2>1, <2>2 DEF FetchEnds, PhaseFails
  <2>3. CASE ~(Extracted = {} /\ SourcesIn({"failed"}) # {})
    <3>1. PICK left \in SUBSET Unique :
            /\ clm' = [c \in Claims |-> IF c \in left THEN "deferred"
                                       ELSE IF c \in Unique THEN "queued" ELSE "none"]
            /\ dropped' = Cardinality(left)
            /\ phase' = "verify"
      BY <1>6, <2>3 DEF FetchEnds
    <3>2. left \subseteq Claims
      BY DEF Typed, Unique, Extracted, SourcesIn
    <3>3. Deferred' = left
      BY <3>1, <3>2 DEF Deferred, ClaimsIn
    <3>4. \A c \in Claims : clm'[c] # "none" <=> c \in Unique'
      BY <1>1, <2>1, <3>1
    <3> QED
      BY <3>1, <3>3, <3>4 DEF ClaimsAreCounted
  <2> QED
    BY <2>2, <2>3
<1>7. CASE VerifyEnds
  <2>1. /\ UNCHANGED <<src, yield, clm>> /\ phase = "verify" /\ Valid
        /\ Unique' = Unique /\ Deferred' = Deferred /\ Losses' = Losses
    BY <1>7, <1>1 DEF VerifyEnds, Valid, Deferred, Losses, ClaimsIn
  <2>2. /\ dropped = Cardinality(Deferred)
        /\ \A c \in Claims : clm[c] # "none" <=> c \in Unique
    BY <2>1 DEF ClaimsAreCounted
  <2>3. CASE ClaimsIn(Labels) = {} /\ ClaimsIn({"failed"}) # {}
    <3>1. phase' = "done" /\ ~Valid' /\ dropped' = dropped
      BY <1>4, <1>7, <2>3 DEF VerifyEnds, PhaseFails
    <3> QED
      BY <2>1, <2>2, <3>1 DEF ClaimsAreCounted
  <2>4. CASE ~(ClaimsIn(Labels) = {} /\ ClaimsIn({"failed"}) # {})
    <3>1. dropped' = dropped + Cardinality(Losses) /\ phase' \in {"done", "synthesize"}
      BY <1>7, <2>4 DEF VerifyEnds, Returns
    <3> QED
      BY <2>1, <2>2, <3>1 DEF ClaimsAreCounted
  <2> QED
    BY <2>3, <2>4
<1>8. CASE phase \in {"synthesize", "done"}
  <2>1. UNCHANGED <<src, yield, clm, dropped>>
    <3>1. CASE phase = "done"
      BY <3>1, DoneIsLast DEF vars
    <3>2. CASE phase = "synthesize"
      <4>1. SynthesisReturns \/ SynthesisFails \/ DeadlinePasses \/ UNCHANGED vars
        BY <3>2, UnitsHaveAPhase DEF Next, Proceeds, ScopeReturns, ScopeFails, SearchBegins,
           SearchReturns, SearchFails, FetchEnds, VerifyEnds
      <4> QED
        BY <4>1 DEF SynthesisReturns, SynthesisFails, DeadlinePasses, vars
    <3> QED
      BY <1>8, <3>1, <3>2
  <2>2. phase' \in {"synthesize", "done"}
    <3>1. CASE phase = "done"
      BY <3>1, DoneIsLast DEF vars
    <3>2. CASE phase = "synthesize"
      <4>1. SynthesisReturns \/ SynthesisFails \/ DeadlinePasses \/ UNCHANGED vars
        BY <3>2, UnitsHaveAPhase DEF Next, Proceeds, ScopeReturns, ScopeFails, SearchBegins,
           SearchReturns, SearchFails, FetchEnds, VerifyEnds
      <4> QED
        BY <3>2, <4>1 DEF SynthesisReturns, SynthesisFails, DeadlinePasses, vars, Demotes, Returns, Fails
    <3> QED
      BY <1>8, <3>1, <3>2
  <2>3. Valid' => Valid
    BY <1>8, DoneIsLast DEF Valid, vars
  <2>4. Unique' = Unique /\ Deferred' = Deferred /\ Losses' = Losses
    BY <1>1, <2>1 DEF Deferred, Losses, ClaimsIn
  <2> QED
    BY <1>8, <2>1, <2>2, <2>3, <2>4 DEF ClaimsAreCounted
<1>9. CASE phase = "verify" /\ ~VerifyEnds
  <2>1. Valid /\ dropped = Cardinality(Deferred)
    BY <1>9 DEF Valid, ClaimsAreCounted
  <2>2. ASSUME phase' = "verify", UNCHANGED <<src, yield, dropped>>, Deferred' = Deferred,
               \A c \in Claims : clm'[c] # "none" <=> clm[c] # "none"
        PROVE  ClaimsAreCounted'
    BY <1>1, <1>9, <2>1, <2>2 DEF ClaimsAreCounted
  <2>3. ASSUME NEW c \in Claims, NEW state \in ClaimStates, state \notin {"none", "deferred"},
               clm[c] \in {"queued", "judging"}, clm' = [clm EXCEPT ![c] = state]
        PROVE  Deferred' = Deferred /\ \A d \in Claims : clm'[d] # "none" <=> clm[d] # "none"
    BY <2>3 DEF Typed, Deferred, ClaimsIn
  <2>4. ASSUME NEW c \in Claims, Claim(c) PROVE ClaimsAreCounted'
    <3>1. phase' = "verify" /\ UNCHANGED <<src, yield, dropped>>
      BY <2>4, UnitsHaveAPhase DEF Claim, ClaimBegins, ClaimEnds
    <3>2. PICK state \in ClaimStates :
            /\ state \notin {"none", "deferred"} /\ clm[c] \in {"queued", "judging"}
            /\ clm' = [clm EXCEPT ![c] = state]
      <4>1. CASE ClaimBegins(c)
        BY <4>1 DEF ClaimBegins, IsNext, ClaimStates
      <4>2. CASE ClaimEnds(c)
        <5>1. PICK label \in Labels \cup {"failed"} : clm' = [clm EXCEPT ![c] = label]
          BY <4>2, PanelCosts DEF ClaimEnds
        <5>2. label \in ClaimStates /\ label \notin {"none", "deferred"}
          BY DEF Labels, ClaimStates
        <5> QED
          BY <4>2, <5>1, <5>2 DEF ClaimEnds
      <4> QED
        BY <2>4, <4>1, <4>2 DEF Claim
    <3> QED
      BY <2>2, <2>3, <3>1, <3>2
  <2>5. CASE DeadlinePasses \/ UNCHANGED vars
    <3>1. UNCHANGED <<phase, src, yield, clm, dropped>>
      BY <2>5 DEF DeadlinePasses, vars
    <3>2. Deferred' = Deferred
      BY <3>1 DEF Deferred, ClaimsIn
    <3> QED
      BY <1>9, <2>2, <3>1, <3>2
  <2>6. \A i \in Sources : ~Source(i)
    BY <1>9, UnitsHaveAPhase
  <2>7. ~(\/ ScopeReturns \/ ScopeFails \/ SearchBegins \/ SearchReturns \/ SearchFails
          \/ FetchEnds \/ SynthesisReturns \/ SynthesisFails)
    BY <1>9 DEF ScopeReturns, ScopeFails, SearchBegins, SearchReturns, SearchFails, FetchEnds,
       SynthesisReturns, SynthesisFails
  <2> QED
    BY <1>9, <2>4, <2>5, <2>6, <2>7 DEF Next, Proceeds
<1> QED
  BY <1>5, <1>6, <1>7, <1>8, <1>9 DEF Typed, Early

(* What a run returns is what the ceiling and the gate made of it.          *)
LEMMA ResultStep ==
    ASSUME IInv, [Next]_vars
    PROVE  ResultIsKept'
<1> Typed /\ Stages /\ ResultIsKept
  BY DEF IInv
<1>1. CASE phase = "done"
  <2>1. UNCHANGED vars
    BY <1>1, DoneIsLast
  <2> QED
    BY <2>1 DEF vars, ResultIsKept, StopOr, Cited, Surviving, ClaimsIn, Backing, Extracted, SourcesIn
<1>2. ASSUME NEW n \in Nat, Fails(n) PROVE ResultIsKept'
  BY <1>2 DEF Fails, ResultIsKept
<1>3. CASE phase # "done" /\ phase' = "done"
  <2>1. /\ \A i \in Sources : ~Source(i)
        /\ \A c \in Claims : ~Claim(c)
    BY <1>3, UnitsHaveAPhase
  <2>2. ~(SearchBegins \/ SearchReturns \/ DeadlinePasses \/ UNCHANGED vars)
    BY <1>3 DEF SearchBegins, SearchReturns, DeadlinePasses, vars
  <2>3. CASE ScopeReturns
    BY <1>2, <1>3, <2>3 DEF ScopeReturns
  <2>4. CASE ScopeFails
    BY <1>2, <2>4 DEF ScopeFails, MaybeBilled
  <2>5. CASE SearchFails
    BY <1>2, <2>5 DEF SearchFails
  <2>6. CASE FetchEnds
    BY <1>2, <1>3, <2>6 DEF FetchEnds, PhaseFails
  <2>7. CASE VerifyEnds
    <3>1. CASE PhaseFails
      BY <1>2, <3>1 DEF PhaseFails
    <3>2. CASE Returns("gaps", tripped, {}, {})
      BY <2>7, <3>2 DEF VerifyEnds, Returns, ResultIsKept
    <3> QED
      BY <1>3, <2>7, <3>1, <3>2 DEF VerifyEnds
  <2>8. CASE SynthesisReturns
    <3>1. /\ UNCHANGED <<tripped, src, yield, clm>>
          /\ Cited' = Cited /\ Extracted' = Extracted
      BY <2>8 DEF SynthesisReturns, Cited, Surviving, ClaimsIn, Backing, Extracted, SourcesIn
    <3>2. PICK a \in Answers :
            \/ Rejection(a) = "none" /\ Returns("prose", tripped, a.cites, a.cites \cup Cited)
            \/ UNCHANGED phase
            \/ Rejection(a) # "none" /\ Demotes(Rejection(a))
      BY <2>8 DEF SynthesisReturns
    <3>3. CASE Rejection(a) = "none" /\ Returns("prose", tripped, a.cites, a.cites \cup Cited)
      <4>1. a.cites \subseteq Extracted
        BY <3>3 DEF Rejection
      <4> QED
        BY <3>1, <3>3, <4>1 DEF Returns, ResultIsKept
    <3>4. CASE Rejection(a) # "none" /\ Demotes(Rejection(a))
      <4>1. Rejection(a) \in {"malformed", "grounding"}
        BY <3>4 DEF Rejection
      <4>2. result'.stop \in {StopOr("malformed"), StopOr("grounding")}
        BY <3>4, <4>1 DEF Demotes, Returns
      <4>3. StopOr("malformed")' = StopOr("malformed") /\ StopOr("grounding")' = StopOr("grounding")
        BY <3>1 DEF StopOr
      <4>4. /\ result'.answer = "demoted" /\ result'.cites = {} /\ result'.sources = Cited
        BY <3>4 DEF Demotes, Returns
      <4> QED
        BY <3>1, <4>2, <4>3, <4>4 DEF ResultIsKept
    <3> QED
      BY <1>3, <3>2, <3>3, <3>4
  <2>9. CASE SynthesisFails
    BY <1>2, <2>9 DEF SynthesisFails, MaybeBilled
  <2> QED
    BY <2>1, <2>2, <2>3, <2>4, <2>5, <2>6, <2>7, <2>8, <2>9 DEF Next, Proceeds
<1>4. CASE phase' # "done"
  BY <1>4 DEF ResultIsKept
<1> QED
  BY <1>1, <1>3, <1>4

(* The invariant holds of every behaviour.                                  *)
LEMMA InvHolds == Spec => []IInv
<1>1. Init => IInv
  BY InitInv
<1>2. IInv /\ [Next]_vars => IInv'
  BY TypedStep, PermitsStep, MeterStep, TripStep, CountStep, ResultStep DEF IInv
<1> QED
  BY <1>1, <1>2, PTL DEF Spec

----------------------------------------------------------------------------
(* The parts of the claims that a result speaks of.                         *)
LEMMA ClaimParts ==
    /\ Cardinality(Deferred) + Cardinality(Losses) = Cardinality(Deferred \cup Losses)
    /\ Cardinality(Deferred \cup Losses) \in Nat
    /\ Cardinality(Deferred \cup Losses) <= MaxClaims
    /\ Cardinality(Surviving \cup (Deferred \cup Losses))
          = Cardinality(Surviving) + Cardinality(Deferred \cup Losses)
<1>1. /\ Deferred \subseteq Claims /\ Losses \subseteq Claims /\ Surviving \subseteq Claims
      /\ Deferred \cap Losses = {} /\ Surviving \cap (Deferred \cup Losses) = {}
  BY DEF Deferred, Losses, Surviving, ClaimsIn, Labels
<1>2. /\ IsFiniteSet(Deferred) /\ IsFiniteSet(Losses) /\ IsFiniteSet(Surviving)
      /\ Cardinality(Deferred) \in Nat /\ Cardinality(Losses) \in Nat
      /\ Cardinality(Surviving) \in Nat
  BY <1>1, FiniteClaims
<1>3. /\ IsFiniteSet(Deferred \cup Losses) /\ Cardinality(Deferred \cup Losses) \in Nat
      /\ Cardinality(Deferred \cup Losses) <= MaxClaims
  BY <1>1, FiniteClaims
<1>4. ASSUME NEW S, NEW T, IsFiniteSet(S), IsFiniteSet(T), S \cap T = {}
      PROVE  Cardinality(S \cup T) = Cardinality(S) + Cardinality(T)
  <2>1. Cardinality(S \cup T) = Cardinality(S) + Cardinality(T) - Cardinality(S \cap T)
    BY <1>4, FS_Union
  <2>2. Cardinality(S \cap T) = 0
    BY <1>4, FS_EmptySet
  <2>3. Cardinality(S) \in Nat /\ Cardinality(T) \in Nat
    BY <1>4, FS_CardinalityType
  <2> QED
    BY <2>1, <2>2, <2>3
<1>5. Cardinality(Deferred \cup Losses) = Cardinality(Deferred) + Cardinality(Losses)
  BY <1>1, <1>2, <1>4
<1>6. Cardinality(Surviving \cup (Deferred \cup Losses))
        = Cardinality(Surviving) + Cardinality(Deferred \cup Losses)
  BY <1>1, <1>2, <1>3, <1>4
<1> QED
  BY <1>3, <1>5, <1>6

(* Type correctness, for any number of sources, claims and permits; no      *)
(* permit of the semaphore is lost or made up.                              *)
THEOREM TypeCorrect == Spec => []TypeOK
<1>1. IInv => TypeOK
  <2> SUFFICES ASSUME IInv PROVE TypeOK
    OBVIOUS
  <2>1. Typed /\ permits \in 0..Concurrency
    BY PermitsBounded DEF IInv
  <2>2. dropped \in 0..MaxClaims
    <3>1. Cardinality(Deferred) \in Nat /\ Cardinality(Deferred) <= MaxClaims
      BY Finite DEF Deferred
    <3>2. dropped \in {0, Cardinality(Deferred), Cardinality(Deferred) + Cardinality(Losses)}
      BY DEF IInv, ClaimsAreCounted
    <3>3. /\ Cardinality(Deferred) + Cardinality(Losses) \in Nat
          /\ Cardinality(Deferred) + Cardinality(Losses) <= MaxClaims
      BY ClaimParts
    <3>4. MaxClaims \in Nat
      BY ResearchAssumption
    <3>5. \A n \in Nat : n <= MaxClaims => n \in 0..MaxClaims
      BY <3>4
    <3>6. 0 \in 0..MaxClaims
      BY <3>4
    <3> HIDE DEF Deferred, Losses
    <3> QED
      BY <3>1, <3>2, <3>3, <3>5, <3>6
  <2> QED
    BY <2>1, <2>2, Zenon DEF Typed, TypeOK
<1> QED
  BY <1>1, InvHolds, PTL

(* The budget is enforced: the meter passes it by no more than the units in *)
(* flight and two synthesis calls cost.                                     *)
THEOREM BudgetEnforced == Spec => []OvershootBounded
<1>1. IInv => OvershootBounded
  <2> SUFFICES ASSUME IInv PROVE OvershootBounded
    OBVIOUS
  <2>1. Typed /\ MeterBounded /\ permits \in 0..Concurrency
    BY PermitsBounded DEF IInv
  <2>2. (Concurrency - permits) * UnitCost \in Nat
    BY <2>1, Reserve
  <2>3. Fanout \in Nat /\ metered \in Nat /\ MaxCall \in Nat
    BY <2>1, Costs, ResearchAssumption DEF Typed
  <2>4. CASE phase = "scope"
    BY <2>1, <2>3, <2>4 DEF MeterBounded, OvershootBounded
  <2>5. CASE phase \in {"scoped", "search", "fetch", "verify"}
    BY <2>1, <2>2, <2>3, <2>5 DEF MeterBounded, OvershootBounded
  <2>6. CASE phase = "synthesize"
    <3>1. attempt * MaxCall <= 2 * MaxCall /\ attempt * MaxCall \in Nat
      BY <2>1, <2>3, Grows DEF Typed
    <3> QED
      BY <2>1, <2>3, <2>6, <3>1 DEF MeterBounded, OvershootBounded
  <2>7. CASE phase = "done"
    BY <2>1, <2>3, <2>7 DEF MeterBounded, OvershootBounded
  <2> QED
    BY <2>1, <2>4, <2>5, <2>6, <2>7 DEF Typed
<1> QED
  BY <1>1, InvHolds, PTL

(* Past a ceiling nothing begins, whatever waits for a permit.              *)
THEOREM CeilingHolds == Spec => NothingStartsPastCeiling
<1> DEFINE A == metered >= Budget \/ late =>
                    /\ InFlight'.sources \subseteq InFlight.sources
                    /\ InFlight'.claims \subseteq InFlight.claims
<1>1. ASSUME IInv, [Next]_vars PROVE [A]_vars
  <2> SUFFICES ASSUME metered >= Budget \/ late
               PROVE  /\ SourcesIn({"fetching", "extracting"})'
                            \subseteq SourcesIn({"fetching", "extracting"})
                      /\ ClaimsIn({"judging"})' \subseteq ClaimsIn({"judging"})
    BY DEF InFlight
  <2>1. Probe(late) # "none"
    BY DEF Probe
  <2>2. Typed
    BY <1>1 DEF IInv
  <2>3. ASSUME \A i \in Sources : src'[i] \in {"fetching", "extracting"}
                                      => src[i] \in {"fetching", "extracting"},
               \A c \in Claims : clm'[c] = "judging" => clm[c] = "judging"
        PROVE  /\ SourcesIn({"fetching", "extracting"})'
                     \subseteq SourcesIn({"fetching", "extracting"})
               /\ ClaimsIn({"judging"})' \subseteq ClaimsIn({"judging"})
    BY <2>3 DEF SourcesIn, ClaimsIn
  <2>4. ASSUME UNCHANGED <<src, clm>>
        PROVE  /\ \A i \in Sources : src'[i] \in {"fetching", "extracting"}
                                      => src[i] \in {"fetching", "extracting"}
               /\ \A c \in Claims : clm'[c] = "judging" => clm[c] = "judging"
    BY <2>4
  <2>5. CASE Proceeds \/ DeadlinePasses \/ UNCHANGED vars
    <3>1. CASE SearchReturns
      <4>1. \A i \in Sources : src'[i] \notin {"fetching", "extracting"}
        BY <3>1 DEF SearchReturns
      <4> QED
        BY <2>3, <3>1, <4>1 DEF SearchReturns
    <3>2. CASE FetchEnds
      <4>1. clm' = clm \/ \A c \in Claims : clm'[c] # "judging"
        BY <3>2 DEF FetchEnds
      <4> QED
        BY <2>3, <3>2, <4>1 DEF FetchEnds
    <3>3. CASE ~(SearchReturns \/ FetchEnds)
      <4>1. UNCHANGED <<src, clm>>
        BY <2>5, <3>3 DEF Proceeds, ScopeReturns, ScopeFails, SearchBegins, SearchFails, VerifyEnds,
           SynthesisReturns, SynthesisFails, DeadlinePasses, vars
      <4> QED
        BY <2>3, <2>4, <4>1
    <3> QED
      BY <3>1, <3>2, <3>3
  <2>6. ASSUME NEW i \in Sources, Source(i)
        PROVE  /\ \A j \in Sources : src'[j] \in {"fetching", "extracting"}
                                      => src[j] \in {"fetching", "extracting"}
               /\ clm' = clm
    <3>1. CASE SourceBegins(i)
      BY <2>1, <2>2, <3>1 DEF SourceBegins, Latch, Typed
    <3>2. CASE PageLoads(i)
      BY <2>2, <3>2 DEF PageLoads, Typed
    <3>3. CASE PageIsUseless(i)
      BY <2>2, <3>3 DEF PageIsUseless, SourceEnds, Typed
    <3>4. CASE Extracts(i) \/ ExtractFails(i)
      BY <2>2, <3>4 DEF Extracts, ExtractFails, SourceEnds, Typed
    <3> QED
      BY <2>6, <3>1, <3>2, <3>3, <3>4 DEF Source
  <2>7. ASSUME NEW c \in Claims, Claim(c)
        PROVE  src' = src /\ \A d \in Claims : clm'[d] = "judging" => clm[d] = "judging"
    <3>1. CASE ClaimBegins(c)
      BY <2>1, <2>2, <3>1 DEF ClaimBegins, Latch, Typed
    <3>2. CASE ClaimEnds(c)
      BY <2>2, <3>2 DEF ClaimEnds, Typed
    <3> QED
      BY <2>7, <3>1, <3>2 DEF Claim
  <2> QED
    BY <1>1, <2>3, <2>5, <2>6, <2>7 DEF Next
<1> QED
  BY <1>1, InvHolds, PTL DEF Spec, NothingStartsPastCeiling

(* A stop reason names the ceiling that left work undone, or a demotion     *)
(* that no ceiling came before.                                             *)
THEOREM ReasonIsHonest == Spec => []StopReasonIsHonest
<1>1. IInv => StopReasonIsHonest
  <2> SUFFICES ASSUME IInv, phase = "done", result.answer # "error"
               PROVE  /\ SkippedWork => result.stop \in {"budget", "deadline"}
                      /\ result.stop \in {"budget", "deadline"} =>
                            SkippedWork \/ SourcesIn(SourceStates \ {"none"}) = {}
                      /\ result.stop = "budget" => metered >= Budget
                      /\ result.stop = "deadline" => late
                      /\ result.answer = "demoted" => result.stop # "none"
                      /\ result.stop \in {"malformed", "grounding"} => result.answer = "demoted"
    BY DEF StopReasonIsHonest
  <2>1. Typed /\ TripHasACause /\ ResultIsKept
    BY DEF IInv
  <2>2. tripped \in {"none", "budget", "deadline"}
    BY <2>1 DEF Typed
  <2>3. result.answer \in {"gaps", "prose", "demoted"}
    <3>1. result.answer \in {"none", "error", "gaps", "demoted", "prose"}
      BY <2>1 DEF Typed, Results
    <3>2. result.answer # "none"
      BY <2>1 DEF ResultIsKept
    <3> QED
      BY <3>1, <3>2
  <2>4. /\ result.answer # "demoted" => result.stop = tripped
        /\ result.answer = "demoted" =>
              \/ tripped # "none" /\ result.stop = tripped
              \/ tripped = "none" /\ result.stop \in {"malformed", "grounding"}
    BY <2>1, <2>3 DEF ResultIsKept, StopOr
  <2>5. /\ result.stop \in {"budget", "deadline"} <=> tripped # "none"
        /\ tripped # "none" => result.stop = tripped
    BY <2>2, <2>3, <2>4
  <2>6. (\A i \in Sources : src[i] = "none") => SourcesIn(SourceStates \ {"none"}) = {}
    BY DEF SourcesIn
  <2>7. /\ tripped = "budget" => metered >= Budget
        /\ tripped = "deadline" => late
        /\ SkippedWork => tripped # "none"
        /\ tripped # "none" => SkippedWork \/ SourcesIn(SourceStates \ {"none"}) = {}
    BY <2>1, <2>6 DEF TripHasACause
  <2> QED
    BY <2>2, <2>4, <2>5, <2>7
<1> QED
  BY <1>1, InvHolds, PTL

(* Every distinct claim of a result is a finding or counted as dropped.     *)
THEOREM ClaimsAddUp == Spec => []AccountingAddsUp
<1>1. IInv => AccountingAddsUp
  <2> SUFFICES ASSUME IInv, phase = "done", result.answer # "error"
               PROVE  Cardinality(Surviving) + dropped = Cardinality(Unique)
    BY DEF AccountingAddsUp
  <2>1. Typed /\ Stages /\ ClaimsAreCounted
    BY DEF IInv
  <2>2. dropped = Cardinality(Deferred) + Cardinality(Losses)
    BY <2>1 DEF ClaimsAreCounted, Valid
  <2>3. \A c \in Claims : clm[c] # "none" <=> c \in Unique
    BY <2>1 DEF ClaimsAreCounted, Valid
  <2>4. Unique \subseteq Claims
    BY <2>1 DEF Typed, Unique, Extracted, SourcesIn
  <2>5. \A c \in Claims : clm[c] \in {"none", "deferred", "skipped", "failed"} \cup Labels
    BY <2>1 DEF Typed, Stages, ClaimStates
  <2>6. Unique = Surviving \cup (Deferred \cup Losses)
    <3>1. \A c \in Claims : clm[c] # "none" <=>
            \/ clm[c] \in Labels \ {"refuted"}
            \/ clm[c] = "deferred"
            \/ clm[c] \in {"skipped", "failed", "refuted"}
      BY <2>5 DEF Labels
    <3> QED
      BY <2>3, <2>4, <3>1 DEF Surviving, Deferred, Losses, ClaimsIn
  <2> QED
    BY <2>2, <2>6, ClaimParts
<1> QED
  BY <1>1, InvHolds, PTL

(* Nothing ungrounded is published.                                         *)
THEOREM GroundingHolds == Spec => []PublishedIsGrounded
<1>1. IInv => PublishedIsGrounded
  <2> SUFFICES ASSUME IInv, phase = "done", result.answer \in {"prose", "demoted"}
               PROVE  /\ result.sources \subseteq Extracted
                      /\ result.cites \subseteq result.sources
                      /\ \A c \in Surviving : Backing(c) # {} /\ Backing(c) \subseteq result.sources
    BY DEF PublishedIsGrounded
  <2>1. Typed /\ ClaimsAreCounted /\ ResultIsKept
    BY DEF IInv
  <2>2. result.sources = result.cites \cup Cited /\ result.cites \subseteq Extracted
    BY <2>1 DEF ResultIsKept
  <2>3. Cited \subseteq Extracted
    BY DEF Cited, Backing
  <2>4. \A c \in Claims : clm[c] # "none" <=> c \in Unique
    BY <2>1 DEF ClaimsAreCounted, Valid
  <2>5. ASSUME NEW c \in Surviving
        PROVE  Backing(c) # {} /\ Backing(c) \subseteq Cited
    <3>1. c \in Claims /\ clm[c] # "none"
      BY DEF Surviving, ClaimsIn, Labels
    <3>2. c \in Unique
      BY <2>4, <3>1
    <3>3. PICK i \in Extracted : c \in yield[i]
      BY <3>2 DEF Unique
    <3> QED
      BY <3>3 DEF Backing, Cited
  <2> QED
    BY <2>2, <2>3, <2>5
<1> QED
  BY <1>1, InvHolds, PTL

(* The step that ends a run reports what was on the meter and what it cost, *)
(* once each, whatever the answer.                                          *)
LEMMA EndingBills ==
    ASSUME IInv, [Next]_vars, result' # result
    PROVE  result'.reported + spent = spent' + metered
<1>1. metered \in Nat /\ spent \in Nat
  BY <1>1 DEF IInv, Typed
<1>2. ASSUME NEW n, Fails(n) PROVE result'.reported = metered' + n
  BY <1>2 DEF Fails
<1>3. \A answer, stop, cites, sources :
        Returns(answer, stop, cites, sources) => result'.reported = metered'
  BY DEF Returns
<1>4. \A m, s : Bill(m, s) => metered' = metered + m /\ spent' = spent + s
  BY DEF Bill
<1>5. /\ \A i \in Sources : ~Source(i)
      /\ \A c \in Claims : ~Claim(c)
  BY Zenon DEF Source, SourceBegins, PageLoads, PageIsUseless, Extracts, ExtractFails, SourceEnds,
     Claim, ClaimBegins, ClaimEnds
<1>6. ~(SearchBegins \/ SearchReturns \/ DeadlinePasses \/ UNCHANGED vars)
  BY DEF SearchBegins, SearchReturns, DeadlinePasses, vars
<1>7. CASE ScopeReturns
  <2>1. PICK cost \in Billed : Bill(cost, cost) /\ Fails(0)
    BY <1>7 DEF ScopeReturns
  <2> QED
    BY <1>1, <1>2, <1>4, <2>1 DEF Billed
<1>8. CASE ScopeFails
  <2>1. PICK paid \in MaybeBilled : Bill(0, paid) /\ Fails(paid)
    BY <1>8 DEF ScopeFails
  <2> QED
    BY <1>1, <1>2, <1>4, <2>1 DEF MaybeBilled
<1>9. CASE SearchFails
  BY <1>1, <1>2, <1>9 DEF SearchFails
<1>10. CASE FetchEnds
  <2>1. Fails(0) /\ UNCHANGED <<metered, spent>>
    BY <1>10, Zenon DEF FetchEnds, PhaseFails
  <2> QED
    BY <1>1, <1>2, <2>1
<1>11. CASE VerifyEnds
  <2>1. /\ Fails(0) \/ Returns("gaps", tripped, {}, {})
        /\ UNCHANGED <<metered, spent>>
    BY <1>11, Zenon DEF VerifyEnds, PhaseFails
  <2> QED
    BY <1>1, <1>2, <1>3, <2>1
<1>12. CASE SynthesisReturns
  <2>1. PICK a \in Answers, cost \in Billed :
          /\ Bill(cost, cost)
          /\ \/ Returns("prose", tripped, a.cites, a.cites \cup Cited)
             \/ Demotes(Rejection(a))
    BY <1>12 DEF SynthesisReturns
  <2>2. result'.reported = metered'
    BY <1>3, <2>1 DEF Demotes
  <2> QED
    BY <1>1, <1>4, <2>1, <2>2 DEF Billed
<1>13. CASE SynthesisFails
  <2>1. \/ \E paid \in MaybeBilled : Bill(0, paid) /\ Fails(paid)
        \/ \E cost \in Billed : Bill(cost, cost) /\ Fails(0)
    BY <1>13 DEF SynthesisFails
  <2> QED
    BY <1>1, <1>2, <1>4, <2>1 DEF MaybeBilled, Billed
<1> QED
  BY <1>5, <1>6, <1>7, <1>8, <1>9, <1>10, <1>11, <1>12, <1>13 DEF Next, Proceeds

(* Whatever its answer, a run reports what was on the meter and what its    *)
(* last call cost, once each.                                               *)
THEOREM BilledOnce == Spec => EndingBillsOnce
<1> DEFINE A == result' # result => result'.reported + spent = spent' + metered
<1>1. IInv /\ [Next]_vars => [A]_vars
  BY EndingBills
<1> QED
  BY <1>1, InvHolds, PTL DEF Spec, EndingBillsOnce

(* The figures, the stop reason and the citations of a result are those of  *)
(* the run that produced it.                                                *)
THEOREM ResultsAreHonest == Spec => []ResultIsHonest
  <1>1. StopReasonIsHonest /\ AccountingAddsUp /\ PublishedIsGrounded => ResultIsHonest
    BY DEF ResultIsHonest
  <1> QED
    BY <1>1, ReasonIsHonest, ClaimsAddUp, GroundingHolds, PTL

(* No step starts work past a ceiling or bills the ending twice.            *)
THEOREM StepsStayLawful == Spec => StepsAreLawful
  BY CeilingHolds, BilledOnce DEF StepsAreLawful
----------------------------------------------------------------------------
(* The promise a run makes.                                                 *)

(* Completed and failed passes are at most VerifyK, so what a panel costs   *)
(* in all is at most UnitCost, whether it is counted or not.                *)
LEMMA PanelSpends ==
    ASSUME NEW p \in Panels, NEW m \in CostOf(Counted(p)), NEW u \in CostOf(Uncounted(p))
    PROVE  m \in Nat /\ u \in Nat /\ m + u <= UnitCost
<1> USE ResearchAssumption
<1>1. /\ Counted(p) \in Nat /\ Uncounted(p) \in Nat
      /\ Counted(p) + Uncounted(p) \in Nat /\ Counted(p) + Uncounted(p) <= VerifyK
  BY DEF Panels, Counted, Uncounted, Completed
<1>2. (Counted(p) + Uncounted(p)) * MaxCall <= UnitCost
  BY <1>1, Grows DEF UnitCost
<1>3. (Counted(p) + Uncounted(p)) * MaxCall = Counted(p) * MaxCall + Uncounted(p) * MaxCall
  BY <1>1, SMT
<1>4. Counted(p) * MaxCall \in Nat /\ Uncounted(p) * MaxCall \in Nat /\ UnitCost \in Nat
  BY <1>1, Grows, Costs
<1> QED
  BY <1>1, <1>2, <1>3, <1>4 DEF CostOf

(* A step spends at most what a unit costs, and meters no more than it      *)
(* spends.                                                                  *)
Spends == \E u \in 0..UnitCost, m \in Nat : m <= u /\ spent' = spent + u /\ metered' = metered + m

LEMMA StepSpends ==
    ASSUME IInv, [Next]_vars
    PROVE  Spends
<1>1. spent \in Nat /\ metered \in Nat
  BY DEF IInv, Typed
<1>2. UnitCost \in Nat /\ MaxCall \in Nat /\ MaxCall <= UnitCost
  BY Costs, ResearchAssumption
<1>3. ASSUME UNCHANGED <<metered, spent>> PROVE Spends
  BY <1>1, <1>2, <1>3 DEF Spends
<1>4. ASSUME NEW u \in 0..MaxCall, NEW m \in Nat, m <= u, Bill(m, u) PROVE Spends
  BY <1>2, <1>4 DEF Spends, Bill
<1>5. /\ \A cost \in Billed : cost \in 0..MaxCall /\ cost \in Nat
      /\ \A paid \in MaybeBilled : paid \in 0..MaxCall /\ paid \in Nat
  BY <1>2 DEF Billed, MaybeBilled
<1>6. CASE SearchBegins \/ SearchReturns \/ SearchFails \/ DeadlinePasses \/ UNCHANGED vars
  BY <1>3, <1>6 DEF SearchBegins, SearchReturns, SearchFails, DeadlinePasses, vars
<1>7. CASE FetchEnds \/ VerifyEnds
  BY <1>3, <1>7, Zenon DEF FetchEnds, VerifyEnds
<1>8. CASE ScopeReturns
  <2>1. PICK cost \in Billed : Bill(cost, cost)
    BY <1>8 DEF ScopeReturns
  <2> QED
    BY <1>4, <1>5, <2>1
<1>9. CASE ScopeFails
  <2>1. PICK paid \in MaybeBilled : Bill(0, paid)
    BY <1>9 DEF ScopeFails
  <2> QED
    BY <1>4, <1>5, <2>1
<1>10. CASE SynthesisReturns
  <2>1. PICK cost \in Billed : Bill(cost, cost)
    BY <1>10 DEF SynthesisReturns
  <2> QED
    BY <1>4, <1>5, <2>1
<1>11. CASE SynthesisFails
  <2>1. \/ \E paid \in MaybeBilled : Bill(0, paid)
        \/ \E cost \in Billed : Bill(cost, cost)
    BY <1>11 DEF SynthesisFails
  <2> QED
    BY <1>4, <1>5, <2>1
<1>12. ASSUME NEW i \in Sources, Source(i) PROVE Spends
  <2>1. CASE SourceBegins(i) \/ PageLoads(i) \/ PageIsUseless(i)
    BY <1>3, <2>1 DEF SourceBegins, PageLoads, PageIsUseless
  <2>2. CASE Extracts(i)
    <3>1. PICK cost \in Billed : Bill(cost, cost)
      BY <2>2 DEF Extracts
    <3> QED
      BY <1>4, <1>5, <3>1
  <2>3. CASE ExtractFails(i)
    <3>1. \/ \E paid \in MaybeBilled : Bill(paid, paid)
          \/ \E cost \in Billed : Bill(0, cost)
      BY <2>3 DEF ExtractFails
    <3> QED
      BY <1>4, <1>5, <3>1
  <2> QED
    BY <1>12, <2>1, <2>2, <2>3 DEF Source
<1>13. ASSUME NEW c \in Claims, Claim(c) PROVE Spends
  <2>1. CASE ClaimBegins(c)
    BY <1>3, <2>1 DEF ClaimBegins
  <2>2. CASE ClaimEnds(c)
    <3>1. PICK p \in Panels : \E m \in CostOf(Counted(p)), u \in CostOf(Uncounted(p)) : Bill(m, m + u)
      BY <2>2 DEF ClaimEnds
    <3>2. PICK m \in CostOf(Counted(p)), u \in CostOf(Uncounted(p)) : Bill(m, m + u)
      BY <3>1
    <3>3. m \in Nat /\ m + u \in 0..UnitCost /\ m <= m + u
      BY <1>2, PanelSpends
    <3> QED
      BY <3>2, <3>3 DEF Spends, Bill
  <2> QED
    BY <1>13, <2>1, <2>2 DEF Claim
<1> QED
  BY <1>6, <1>7, <1>8, <1>9, <1>10, <1>11, <1>12, <1>13 DEF Next, Proceeds

(* The meter never runs ahead of the bill, and neither does the report.     *)
Covered ==
    /\ metered <= spent
    /\ phase = "done" => result.reported <= spent

LEMMA CoveredStep == IInv /\ IInv' /\ Covered /\ [Next]_vars => Covered'
<1> SUFFICES ASSUME IInv, IInv', Covered, [Next]_vars PROVE Covered'
  OBVIOUS
<1>1. PICK u \in 0..UnitCost, m \in Nat : m <= u /\ spent' = spent + u /\ metered' = metered + m
  BY StepSpends DEF Spends
<1>2. spent \in Nat /\ metered \in Nat /\ metered' <= spent' /\ spent <= spent'
  BY <1>1, Costs DEF Covered, IInv, Typed
<1>3. ASSUME phase' = "done" PROVE result'.reported <= spent'
  <2>1. CASE result' = result
    <3>1. phase = "done"
      BY <1>3, <2>1 DEF IInv, Stages, ResultIsKept, Pending
    <3> QED
      BY <2>1, <3>1, DoneIsLast DEF Covered, vars
  <2>2. CASE result' # result
    <3>1. result'.reported + spent = spent' + metered
      BY <2>2, EndingBills
    <3>2. result'.reported \in Nat /\ spent' \in Nat
      BY DEF IInv, Typed, Results
    <3> QED
      BY <1>2, <3>1, <3>2 DEF Covered
  <2> QED
    BY <2>1, <2>2
<1> QED
  BY <1>2, <1>3 DEF Covered

(* What a run that is over tells.                                           *)
LEMMA ToldIsCovered ==
    ASSUME IInv, Covered, phase = "done"
    PROVE  /\ Told.class \in {"error", "gaps", "demoted", "prose"} /\ Told.usage \in 0..spent
           /\ Told = [class |-> Told.class, usage |-> Told.usage]
<1>1. /\ result.answer \in {"error", "gaps", "demoted", "prose"}
      /\ result.reported \in Nat /\ spent \in Nat
  BY DEF IInv, Typed, Results, ResultIsKept
<1> QED
  BY <1>1 DEF Told, Covered

(* Every step is one of the promise or leaves it alone.                     *)
LEMMA StepKeepsPromise ==
    IInv /\ Covered /\ IInv' /\ Covered' /\ [Next]_vars
      => [Promise!Next]_<<[c \in {"run"} |-> spent], [c \in {"run"} |-> Told]>>
<1> SUFFICES ASSUME IInv, Covered, IInv', Covered', [Next]_vars
             PROVE  [Promise!Next]_<<[c \in {"run"} |-> spent], [c \in {"run"} |-> Told]>>
  OBVIOUS
<1>1. CASE phase = "done"
  BY <1>1, DoneIsLast DEF vars, Told
<1>2. CASE phase # "done"
  <2>1. PICK u \in 0..UnitCost : spent' = spent + u
    BY StepSpends DEF Spends
  <2>2. Told = Untold
    BY <1>2 DEF Told
  <2>3. [c \in {"run"} |-> spent]' = [[c \in {"run"} |-> spent] EXCEPT !["run"] = @ + u]
    BY <2>1
  <2>4. \/ UNCHANGED [c \in {"run"} |-> Told]
        \/ \E class \in {"error", "gaps", "demoted", "prose"},
             usage \in 0..([c \in {"run"} |-> spent]["run"] + u) :
              [c \in {"run"} |-> Told]'
                = [[c \in {"run"} |-> Told] EXCEPT !["run"] = [class |-> class, usage |-> usage]]
    <3>1. CASE phase' = "done"
      <4>1. /\ Told'.class \in {"error", "gaps", "demoted", "prose"} /\ Told'.usage \in 0..spent'
            /\ Told' = [class |-> Told'.class, usage |-> Told'.usage]
        <5>1. (IInv /\ Covered /\ phase = "done" =>
                  /\ Told.class \in {"error", "gaps", "demoted", "prose"} /\ Told.usage \in 0..spent
                  /\ Told = [class |-> Told.class, usage |-> Told.usage])'
          BY ToldIsCovered, PTL
        <5> QED
          BY <3>1, <5>1
      <4> QED
        BY <2>1, <4>1
    <3>2. CASE phase' # "done"
      BY <2>2, <3>2 DEF Told
    <3> QED
      BY <3>1, <3>2
  <2>5. [c \in {"run"} |-> Told]["run"] = Untold
    BY <2>2
  <2>6. Promise!Request("run")
    BY <2>3, <2>4, <2>5 DEF Promise!Request
  <2> QED
    BY <2>6 DEF Promise!Next
<1> QED
  BY <1>1, <1>2

(* A research run promises its recorder what a client promises it: one      *)
(* answer, nothing charged after it, and no more usage reported than was    *)
(* charged, however many calls its fan-outs had in flight (run_at).         *)
THEOREM PromiseKept == Spec => KeepsPromise
<1>1. Init => Promise!Init /\ Covered
  BY DEF Init, Promise!Init, Told, Covered, Pending
<1>2. IInv /\ Covered /\ [Next]_vars /\ IInv' => Covered'
  BY CoveredStep
<1> QED
  BY <1>1, <1>2, InvHolds, StepKeepsPromise, PTL DEF Spec, KeepsPromise, Promise!Spec
=============================================================================
