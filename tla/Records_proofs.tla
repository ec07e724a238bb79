---------------------------- MODULE Records_proofs ----------------------------
(***************************************************************************)
(* Proofs about what a tool call leaves behind and what reads it.          *)
(*                                                                         *)
(* The first part is about InvocationRecord, for any set of calls, any     *)
(* failure classes and any bound on what a call is billed.  The rest is    *)
(* about Algorithms, for inputs of any length over any elements that       *)
(* AlgorithmsAssumption admits: the grammar sent to a provider, the meters *)
(* of a fan-out, the rows of the database, the order of recall, the        *)
(* candidates a turn stores and what the documents state of the defaults.  *)
(***************************************************************************)
EXTENDS InvocationRecord, Algorithms, FiniteSetTheorems, WellFoundedInduction, TLAPS

(* A call that left its work holds its own, well-formed record.             *)
HoldsOwnRecord ==
    \A i \in Invocations :
        phase[i] \in {"finishing", "replied", "gone"} =>
            record[i] \in Records /\ record[i].inv = i

(* Only a call that is gone has a detached writer.                          *)
WriterIsDetached == \A i \in Invocations : backstop[i] = "spawned" => phase[i] = "gone"

(* A call that has a row will get no other.                                 *)
RowsAreSettled == \A n \in DOMAIN rows : Settled(rows[n].inv)

(* The inductive invariant: at most one row, because a row settles.         *)
IInv == TypeOK /\ HoldsOwnRecord /\ WriterIsDetached /\ RowsAreSettled /\ AtMostOneRow

(* Appending to the rows of a table adds one row at its end.                *)
LEMMA Appended ==
    ASSUME NEW S, NEW s \in Seq(S), NEW x \in S
    PROVE  /\ Append(s, x) \in Seq(S)
           /\ DOMAIN Append(s, x) = DOMAIN s \cup {Len(s) + 1}
           /\ Append(s, x)[Len(s) + 1] = x
           /\ \A n \in DOMAIN s : Append(s, x)[n] = s[n] /\ n # Len(s) + 1
  OBVIOUS

(* Every entry of a table of records is a record of some call.              *)
LEMMA TableEntries ==
    ASSUME NEW s \in Seq(Records), NEW n \in DOMAIN s
    PROVE  s[n] \in Records /\ s[n].inv \in Invocations
  <1>1. s[n] \in Records
    OBVIOUS
  <1> QED
    BY <1>1 DEF Records

(* Init establishes the inductive invariant.                                *)
LEMMA InitIInv == Init => IInv
  BY InvocationAssumption
     DEF Init, IInv, TypeOK, HoldsOwnRecord, WriterIsDetached, RowsAreSettled, AtMostOneRow

(* A step that writes no row, and unsettles no call, preserves the          *)
(* invariant once it preserves the types and the records.                   *)
LEMMA NoRowStep ==
    ASSUME IInv, TypeOK', HoldsOwnRecord', WriterIsDetached', rows' = rows,
           \A i \in Invocations : Settled(i) => Settled(i)'
    PROVE  IInv'
  <1>1. \A n \in DOMAIN rows : rows[n].inv \in Invocations
    BY TableEntries DEF IInv, TypeOK
  <1>2. RowsAreSettled'
    BY <1>1 DEF IInv, RowsAreSettled
  <1>3. AtMostOneRow'
    BY DEF IInv, AtMostOneRow
  <1> QED
    BY <1>2, <1>3 DEF IInv

(* A step that writes the record of a call that was not settled and now is. *)
LEMMA RowStep ==
    ASSUME IInv, NEW i \in Invocations, TypeOK', HoldsOwnRecord', WriterIsDetached',
           record[i] \in Records, record[i].inv = i, rows' = Append(rows, record[i]),
           ~Settled(i), Settled(i)',
           \A j \in Invocations : Settled(j) => Settled(j)'
    PROVE  IInv'
  <1>1. rows \in Seq(Records)
    BY DEF IInv, TypeOK
  <1>2. /\ DOMAIN rows' = DOMAIN rows \cup {Len(rows) + 1}
        /\ rows'[Len(rows) + 1] = record[i]
        /\ \A n \in DOMAIN rows : rows'[n] = rows[n] /\ n # Len(rows) + 1
    BY <1>1, Appended
  <1>3. \A n \in DOMAIN rows : rows[n].inv \in Invocations /\ rows[n].inv # i
    BY <1>1, TableEntries DEF IInv, RowsAreSettled
  <1>4. RowsAreSettled'
    BY <1>2, <1>3 DEF IInv, RowsAreSettled
  <1>5. AtMostOneRow'
    BY <1>2, <1>3 DEF IInv, AtMostOneRow
  <1> QED
    BY <1>4, <1>5 DEF IInv

(* Every step preserves the inductive invariant.                            *)
LEMMA NextIInv == IInv /\ [Next]_vars => IInv'
  <1> SUFFICES ASSUME IInv, [Next]_vars PROVE IInv'
    OBVIOUS
  <1> USE InvocationAssumption
  <1>1. CASE UNCHANGED vars
    BY <1>1 DEF vars, IInv, TypeOK, HoldsOwnRecord, WriterIsDetached, RowsAreSettled,
                AtMostOneRow, Settled
  <1>2. CASE Exit
    <2>1. TypeOK' /\ HoldsOwnRecord' /\ WriterIsDetached'
      BY <1>2 DEF Exit, IInv, TypeOK, HoldsOwnRecord, WriterIsDetached
    <2> QED
      BY <1>2, <2>1, NoRowStep DEF Exit, Settled
  <1>3. ASSUME NEW i \in Invocations, Step(i) PROVE IInv'
    <2>1. CASE Arrive(i) \/ Bill(i) \/ Cancel(i)
      <3>1. TypeOK'
        <4>1. CASE Arrive(i)
          BY <4>1 DEF Arrive, IInv, TypeOK
        <4>2. CASE Bill(i)
          <5>1. spent[i] \in 0..MaxSpend /\ spent[i] < MaxSpend
            BY <4>2 DEF Bill, IInv, TypeOK
          <5>2. spent[i] + 1 \in 0..MaxSpend
            BY <5>1
          <5>3. spent' \in [Invocations -> 0..MaxSpend]
            BY <4>2, <5>2 DEF Bill, IInv, TypeOK
          <5> QED
            BY <4>2, <5>3 DEF Bill, IInv, TypeOK
        <4>3. CASE Cancel(i)
          BY <4>3 DEF Cancel, IInv, TypeOK
        <4> QED
          BY <2>1, <4>1, <4>2, <4>3
      <3>2. HoldsOwnRecord' /\ WriterIsDetached'
        BY <2>1 DEF Arrive, Bill, Cancel, IInv, TypeOK, HoldsOwnRecord, WriterIsDetached
      <3> QED
        BY <2>1, <3>1, <3>2, NoRowStep DEF Arrive, Bill, Cancel, IInv, TypeOK, Settled
    <2>2. ASSUME NEW outcome \in Outcomes, NEW usage \in 0..MaxSpend,
                 Finish(i, outcome, usage)
          PROVE  IInv'
      <3>1. [inv |-> i, outcome |-> outcome, usage |-> usage] \in Records
        BY DEF Records
      <3>2. TypeOK'
        BY <2>2, <3>1, Appended DEF Finish, IInv, TypeOK
      <3>3. HoldsOwnRecord' /\ WriterIsDetached'
        BY <2>2, <3>1 DEF Finish, IInv, TypeOK, HoldsOwnRecord, WriterIsDetached
      <3> QED
        BY <2>2, <3>2, <3>3, NoRowStep DEF Finish, IInv, TypeOK, Settled
    <2>3. CASE CancelArm(i) \/ WorkSucceeds(i) \/ WorkFails(i)
      <3>1. spent[i] \in 0..MaxSpend /\ 0 \in 0..MaxSpend
        BY DEF IInv, TypeOK
      <3>2. CASE CancelArm(i)
        BY <2>2, <3>1, <3>2 DEF CancelArm, Outcomes
      <3>4. CASE WorkSucceeds(i)
        <4>1. PICK told \in 0..spent[i] : Finish(i, "success", told)
          BY <3>4 DEF WorkSucceeds
        <4>2. told \in 0..MaxSpend /\ "success" \in Outcomes
          BY <3>1 DEF Outcomes
        <4> QED
          BY <2>2, <4>1, <4>2
      <3>3. CASE WorkFails(i)
        <4>1. PICK class \in Failures, billed \in 0..spent[i] : Finish(i, class, billed)
          BY <3>3 DEF WorkFails
        <4>2. class \in Outcomes /\ billed \in 0..MaxSpend
          BY <3>1 DEF Outcomes
        <4> QED
          BY <2>2, <4>1, <4>2
      <3> QED
        BY <2>3, <3>2, <3>3, <3>4
    <2>4. CASE RowWritten(i)
      <3>1. record[i] \in Records /\ record[i].inv = i
        BY <2>4 DEF RowWritten, IInv, HoldsOwnRecord
      <3>2. TypeOK'
        BY <2>4, <3>1, Appended DEF RowWritten, ReplyTo, IInv, TypeOK
      <3>3. HoldsOwnRecord' /\ WriterIsDetached'
        BY <2>4 DEF RowWritten, IInv, TypeOK, HoldsOwnRecord, WriterIsDetached
      <3>4. ~Settled(i) /\ Settled(i)' /\ \A j \in Invocations : Settled(j) => Settled(j)'
        BY <2>4 DEF RowWritten, IInv, TypeOK, WriterIsDetached, Settled
      <3> QED
        BY <2>4, <3>1, <3>2, <3>3, <3>4, RowStep DEF RowWritten
    <2>5. CASE RowRefused(i)
      <3>1. TypeOK'
        BY <2>5 DEF RowRefused, ReplyTo, IInv, TypeOK
      <3>2. HoldsOwnRecord' /\ WriterIsDetached'
        BY <2>5 DEF RowRefused, IInv, TypeOK, HoldsOwnRecord, WriterIsDetached
      <3> QED
        BY <2>5, <3>1, <3>2, NoRowStep DEF RowRefused, IInv, TypeOK, Settled
    <2>6. CASE Abandon(i) \/ DropAtExit(i)
      <3> DEFINE r == [inv |-> i, outcome |-> "cancelled", usage |-> 0]
      <3>1. r \in Records /\ r.inv = i
        BY DEF Records, Outcomes
      <3>2. TypeOK'
        <4>1. published' = Append(published, r) /\ record' = [record EXCEPT ![i] = r]
          BY <2>6 DEF Abandon, DropAtExit
        <4>2. published' \in Seq(Records) /\ record' \in [Invocations -> Records \cup {NoRecord}]
          BY <3>1, <4>1, Appended DEF IInv, TypeOK
        <4>3. CASE Abandon(i)
          BY <4>2, <4>3 DEF Abandon, IInv, TypeOK
        <4>4. CASE DropAtExit(i)
          BY <4>2, <4>4 DEF DropAtExit, IInv, TypeOK
        <4> QED
          BY <2>6, <4>3, <4>4
      <3>3. HoldsOwnRecord' /\ WriterIsDetached'
        <4>1. /\ record' = [record EXCEPT ![i] = r] /\ phase' = [phase EXCEPT ![i] = "gone"]
              /\ backstop' \in {backstop, [backstop EXCEPT ![i] = "spawned"]}
          BY <2>6 DEF Abandon, DropAtExit
        <4>2. HoldsOwnRecord'
          BY <3>1, <4>1 DEF IInv, TypeOK, HoldsOwnRecord
        <4>3. WriterIsDetached'
          BY <4>1 DEF IInv, TypeOK, WriterIsDetached
        <4> QED
          BY <4>2, <4>3
      <3> QED
        BY <2>6, <3>2, <3>3, NoRowStep DEF Abandon, DropAtExit, IInv, TypeOK, Settled
    <2>7. CASE AbandonInFinish(i)
      <3>1. record[i] \in Records /\ record[i].inv = i
        BY <2>7 DEF AbandonInFinish, IInv, HoldsOwnRecord
      <3>2. TypeOK'
        <4>1. rows' \in {rows, Append(rows, record[i])}
          BY <2>7 DEF AbandonInFinish
        <4>2. rows' \in Seq(Records)
          <5>1. rows \in Seq(Records)
            BY DEF IInv, TypeOK
          <5>2. Append(rows, record[i]) \in Seq(Records)
            BY <3>1, <5>1, Appended
          <5> QED
            BY <4>1, <5>1, <5>2
        <4>3. loss' \in [Invocations -> {"none", "write", "dropped", "exit"}]
          <5>1. \A why \in {"dropped", "exit"} :
                  [loss EXCEPT ![i] = why] \in [Invocations -> {"none", "write", "dropped", "exit"}]
            BY DEF IInv, TypeOK
          <5>2. \/ loss' = loss \/ loss' = [loss EXCEPT ![i] = "dropped"]
                \/ loss' = [loss EXCEPT ![i] = "exit"]
            BY <2>7 DEF AbandonInFinish
          <5> QED
            BY Zenon, <5>1, <5>2 DEF IInv, TypeOK
        <4> QED
          BY Zenon, <2>7, <4>2, <4>3 DEF AbandonInFinish, IInv, TypeOK
      <3>3. HoldsOwnRecord' /\ WriterIsDetached'
        BY <2>7 DEF AbandonInFinish, IInv, TypeOK, HoldsOwnRecord, WriterIsDetached
      <3>4. ~Settled(i) /\ Settled(i)' /\ \A j \in Invocations : Settled(j) => Settled(j)'
        BY <2>7 DEF AbandonInFinish, IInv, TypeOK, WriterIsDetached, Settled
      <3>5. CASE rows' = Append(rows, record[i])
        BY <3>1, <3>2, <3>3, <3>4, <3>5, RowStep
      <3>6. CASE rows' = rows
        BY <3>2, <3>3, <3>4, <3>6, NoRowStep
      <3> QED
        BY <2>7, <3>5, <3>6 DEF AbandonInFinish
    <2>8. CASE BackstopWrites(i)
      <3>1. record[i] \in Records /\ record[i].inv = i
        BY <2>8 DEF BackstopWrites, IInv, WriterIsDetached, HoldsOwnRecord
      <3>2. TypeOK'
        BY <2>8, <3>1, Appended DEF BackstopWrites, IInv, TypeOK
      <3>3. HoldsOwnRecord' /\ WriterIsDetached'
        BY <2>8 DEF BackstopWrites, IInv, TypeOK, HoldsOwnRecord, WriterIsDetached
      <3>4. ~Settled(i) /\ Settled(i)' /\ \A j \in Invocations : Settled(j) => Settled(j)'
        BY <2>8 DEF BackstopWrites, IInv, TypeOK, WriterIsDetached, Settled
      <3> QED
        BY <2>8, <3>1, <3>2, <3>3, <3>4, RowStep DEF BackstopWrites
    <2>9. CASE BackstopRefused(i) \/ BackstopDropped(i)
      <3>1. TypeOK'
        BY Zenon, <2>9 DEF BackstopRefused, BackstopDropped, IInv, TypeOK
      <3>2. HoldsOwnRecord' /\ WriterIsDetached'
        BY <2>9 DEF BackstopRefused, BackstopDropped, IInv, TypeOK, HoldsOwnRecord,
                    WriterIsDetached
      <3> QED
        BY <2>9, <3>1, <3>2, NoRowStep
           DEF BackstopRefused, BackstopDropped, IInv, TypeOK, Settled
    <2> QED
      BY <1>3, <2>1, <2>3, <2>4, <2>5, <2>6, <2>7, <2>8, <2>9 DEF Step
  <1> QED
    BY <1>1, <1>2, <1>3 DEF Next

(* The inductive invariant holds of every behaviour.                        *)
THEOREM Inductive == Spec => []IInv
  <1>1. Init => IInv
    BY InitIInv
  <1>2. IInv /\ [Next]_vars => IInv'
    BY NextIInv
  <1> QED
    BY <1>1, <1>2, PTL DEF Spec

(* The state of the guards, the sinks and the table is well-formed.         *)
THEOREM TypeCorrect == Spec => []TypeOK
  <1>1. IInv => TypeOK
    BY DEF IInv
  <1> QED
    BY <1>1, Inductive, PTL

(* No tool call ever has two rows: finish() and the Drop backstop of its    *)
(* guard exclude one another, however calls, drops and the exit interleave. *)
THEOREM NeverTwoRows == Spec => []AtMostOneRow
  <1>1. IInv => AtMostOneRow
    BY DEF IInv
  <1> QED
    BY <1>1, Inductive, PTL
-----------------------------------------------------------------------------
(* The three kinds of steps the ledger tells apart.                         *)
StaysPut(i) == (Settled(i)' <=> Settled(i)) /\ loss'[i] = loss[i]

Quiet == rows' = rows /\ \A j \in Invocations : StaysPut(j)

Loses(i) ==
    /\ rows' = rows /\ ~Settled(i) /\ Settled(i)' /\ loss'[i] # "none"
    /\ \A j \in Invocations \ {i} : StaysPut(j)

WritesRow(i) ==
    /\ record[i] \in Records /\ record[i].inv = i
    /\ rows' = Append(rows, record[i]) /\ ~Settled(i) /\ Settled(i)' /\ loss'[i] = loss[i]
    /\ \A j \in Invocations \ {i} : StaysPut(j)

(* Every step leaves the ledger alone, settles one call to nothing or       *)
(* settles it to its row.                                                   *)
LEMMA StepKinds ==
    ASSUME IInv, [Next]_vars
    PROVE  Quiet \/ \E i \in Invocations : Loses(i) \/ WritesRow(i)
  <1>1. CASE UNCHANGED vars \/ Exit
    BY <1>1 DEF vars, Exit, Quiet, StaysPut, Settled
  <1>2. ASSUME NEW i \in Invocations, Step(i)
        PROVE  Quiet \/ Loses(i) \/ WritesRow(i)
    <2>1. CASE Arrive(i) \/ Bill(i) \/ Cancel(i)
      BY <2>1 DEF Arrive, Bill, Cancel, IInv, TypeOK, Quiet, StaysPut, Settled
    <2>2. CASE CancelArm(i) \/ WorkSucceeds(i) \/ WorkFails(i)
      BY Zenon, <2>2 DEF CancelArm, WorkSucceeds, WorkFails, Finish, IInv, TypeOK, Quiet, StaysPut,
                  Settled
    <2>3. CASE Abandon(i)
      BY <2>3 DEF Abandon, IInv, TypeOK, Quiet, StaysPut, Settled
    <2>4. CASE RowRefused(i)
      BY <2>4 DEF RowRefused, IInv, TypeOK, WriterIsDetached, Loses, StaysPut, Settled
    <2>5. CASE DropAtExit(i)
      BY <2>5 DEF DropAtExit, IInv, TypeOK, WriterIsDetached, Loses, StaysPut, Settled
    <2>6. CASE BackstopRefused(i) \/ BackstopDropped(i)
      BY <2>6 DEF BackstopRefused, BackstopDropped, IInv, TypeOK, WriterIsDetached, Loses,
                  StaysPut, Settled
    <2>7. CASE RowWritten(i)
      BY <2>7 DEF RowWritten, IInv, TypeOK, WriterIsDetached, HoldsOwnRecord, WritesRow, StaysPut,
                  Settled
    <2>8. CASE BackstopWrites(i)
      BY <2>8 DEF BackstopWrites, IInv, TypeOK, WriterIsDetached, HoldsOwnRecord, WritesRow,
                  StaysPut, Settled
    <2>9. CASE AbandonInFinish(i)
      BY <2>9 DEF AbandonInFinish, IInv, TypeOK, WriterIsDetached, HoldsOwnRecord, WritesRow,
                  Loses, StaysPut, Settled
    <2> QED
      BY <1>2, <2>1, <2>2, <2>3, <2>4, <2>5, <2>6, <2>7, <2>8, <2>9 DEF Step
  <1> QED
    BY <1>1, <1>2 DEF Next

(* The rows of a call, after a step that writes the row of call i.          *)
LEMMA RowsAfterWrite ==
    ASSUME IInv, NEW i \in Invocations, WritesRow(i)
    PROVE  /\ RowsOf(i) = {} /\ RowsOf(i)' = {Len(rows) + 1}
           /\ rows'[Len(rows) + 1] = record[i]
           /\ \A j \in Invocations \ {i} : RowsOf(j)' = RowsOf(j)
           /\ \A n \in DOMAIN rows : rows'[n] = rows[n]
  <1>1. rows \in Seq(Records) /\ record[i] \in Records /\ rows' = Append(rows, record[i])
    BY DEF IInv, TypeOK, WritesRow
  <1>2. /\ DOMAIN rows' = DOMAIN rows \cup {Len(rows) + 1}
        /\ rows'[Len(rows) + 1] = record[i]
        /\ \A n \in DOMAIN rows : rows'[n] = rows[n] /\ n # Len(rows) + 1
    BY <1>1, Appended
  <1>3. \A n \in DOMAIN rows : rows[n].inv # i
    BY DEF IInv, RowsAreSettled, WritesRow
  <1>4. record[i].inv = i
    BY DEF WritesRow
  <1>5. RowsOf(i) = {}
    BY <1>3 DEF RowsOf
  <1>6. RowsOf(i)' = {Len(rows) + 1}
    BY <1>2, <1>3, <1>4 DEF RowsOf
  <1>7. ASSUME NEW j \in Invocations \ {i} PROVE RowsOf(j)' = RowsOf(j)
    BY <1>2, <1>4 DEF RowsOf
  <1> QED
    BY <1>2, <1>5, <1>6, <1>7

(* A call that may still get a row has lost none; one that may not has a    *)
(* row or a loss.                                                           *)
LossIsACause ==
    \A i \in Invocations :
        IF Settled(i) THEN RowsOf(i) = {} <=> loss[i] # "none" ELSE loss[i] = "none"

(* At the start no call is settled and none has lost a row.                 *)
LEMMA InitLoss == Init => LossIsACause
  BY Zenon DEF Init, LossIsACause, Settled

(* Every step keeps losses and rows apart.                                  *)
LEMMA NextLoss == IInv /\ LossIsACause /\ [Next]_vars => LossIsACause'
  <1> SUFFICES ASSUME IInv, LossIsACause, [Next]_vars PROVE LossIsACause'
    OBVIOUS
  <1>1. CASE Quiet
    <2>1. rows' = rows /\ \A j \in Invocations : StaysPut(j)
      BY <1>1 DEF Quiet
    <2>2. \A j \in Invocations : RowsOf(j)' = RowsOf(j)
      BY <2>1 DEF RowsOf
    <2> QED
      BY <2>1, <2>2 DEF StaysPut, LossIsACause
  <1>2. ASSUME NEW i \in Invocations, Loses(i) PROVE LossIsACause'
    <2>1. RowsOf(i)' = {}
      BY <1>2 DEF Loses, IInv, RowsAreSettled, RowsOf
    <2>2. \A j \in Invocations : RowsOf(j)' = RowsOf(j)
      BY <1>2 DEF Loses, RowsOf
    <2> QED
      BY <1>2, <2>1, <2>2 DEF Loses, StaysPut, LossIsACause
  <1>3. ASSUME NEW i \in Invocations, WritesRow(i) PROVE LossIsACause'
    <2>1. RowsOf(i)' # {} /\ \A j \in Invocations \ {i} : RowsOf(j)' = RowsOf(j)
      <3>1. RowsOf(i)' = {Len(rows) + 1} /\ \A j \in Invocations \ {i} : RowsOf(j)' = RowsOf(j)
        BY <1>3, RowsAfterWrite
      <3> QED
        BY Zenon, <3>1
    <2>2. Settled(i)' /\ loss'[i] = "none" /\ \A j \in Invocations \ {i} : StaysPut(j)
      BY Zenon, <1>3 DEF WritesRow, LossIsACause
    <2> QED
      BY Zenon, <2>1, <2>2 DEF StaysPut, LossIsACause
  <1> QED
    BY <1>1, <1>2, <1>3, StepKinds

(* A settled call without a row lost it to a refused write, a drop inside   *)
(* finish() or the exit, and a call with a row lost none.                   *)
THEOREM LossesHaveACause == Spec => []MissingRowsHaveACause
  <1>1. LossIsACause => MissingRowsHaveACause
    BY DEF LossIsACause, MissingRowsHaveACause
  <1> QED
    BY <1>1, InitLoss, NextLoss, Inductive, PTL DEF Spec
-----------------------------------------------------------------------------
(* The entry of a call with a row is the outcome of that row.               *)
LEMMA EntryOfRow ==
    ASSUME AtMostOneRow, NEW i \in Invocations, NEW n \in RowsOf(i)
    PROVE  LedgerEntry(i) = rows[n].outcome
  <1>1. \A m \in RowsOf(i) : m = n
    BY DEF AtMostOneRow, RowsOf
  <1>2. (CHOOSE m \in RowsOf(i) : TRUE) = n
    BY <1>1
  <1> QED
    BY Zenon, <1>2 DEF LedgerEntry

(* A step of the server settles one entry of the ledger, or none.           *)
LEMMA StepSettles ==
    ASSUME IInv, IInv', [Next]_vars
    PROVE  [Ledger!Next]_[i \in Invocations |-> LedgerEntry(i)]
  <1> DEFINE ledger == [i \in Invocations |-> LedgerEntry(i)]
  <1>1. ASSUME NEW j \in Invocations, StaysPut(j), RowsOf(j)' = RowsOf(j),
               \A n \in DOMAIN rows : rows'[n] = rows[n]
        PROVE  LedgerEntry(j)' = LedgerEntry(j)
    <2>1. CASE RowsOf(j) = {}
      BY <1>1, <2>1 DEF LedgerEntry, StaysPut
    <2>2. CASE RowsOf(j) # {}
      <3>1. PICK n \in RowsOf(j) : TRUE
        BY <2>2
      <3>2. n \in DOMAIN rows /\ n \in RowsOf(j)'
        BY <1>1, <3>1 DEF RowsOf
      <3>3. LedgerEntry(j) = rows[n].outcome
        BY <3>1, EntryOfRow DEF IInv
      <3>4. AtMostOneRow'
        BY DEF IInv
      <3>5. LedgerEntry(j)' = rows'[n].outcome
        <4>1. \A m \in RowsOf(j)' : m = n
          BY <3>2, <3>4 DEF AtMostOneRow, RowsOf
        <4>2. (CHOOSE m \in RowsOf(j)' : TRUE) = n
          BY <3>2, <4>1
        <4> QED
          BY Zenon, <3>2, <4>2 DEF LedgerEntry
      <3> QED
        BY <1>1, <3>2, <3>3, <3>5
    <2> QED
      BY <2>1, <2>2
  <1>2. CASE Quiet
    <2>1. \A j \in Invocations : LedgerEntry(j)' = LedgerEntry(j)
      BY <1>1, <1>2 DEF Quiet, RowsOf
    <2> QED
      BY <2>1
  <1>3. ASSUME NEW i \in Invocations, Loses(i) PROVE Ledger!Settle(i)
    <2>1. \A j \in Invocations \ {i} : LedgerEntry(j)' = LedgerEntry(j)
      BY <1>1, <1>3 DEF Loses, RowsOf
    <2>2. RowsOf(i) = {} /\ RowsOf(i)' = {}
      BY <1>3 DEF Loses, IInv, RowsAreSettled, RowsOf
    <2>3. LedgerEntry(i) = "open" /\ LedgerEntry(i)' = "missing"
      BY <1>3, <2>2 DEF Loses, LedgerEntry
    <2>4. ledger' = [ledger EXCEPT ![i] = "missing"] /\ ledger[i] = "open"
      BY Zenon, <2>1, <2>3
    <2> QED
      BY Zenon, <2>4 DEF Ledger!Settle
  <1>4. ASSUME NEW i \in Invocations, WritesRow(i) PROVE Ledger!Settle(i)
    <2>1. \A j \in Invocations \ {i} : LedgerEntry(j)' = LedgerEntry(j)
      BY <1>1, <1>4, RowsAfterWrite DEF WritesRow
    <2>2. LedgerEntry(i) = "open"
      BY <1>4, RowsAfterWrite DEF WritesRow, LedgerEntry
    <2>3. LedgerEntry(i)' = record[i].outcome
      <3>1. RowsOf(i)' = {Len(rows) + 1} /\ rows'[Len(rows) + 1] = record[i]
        BY <1>4, RowsAfterWrite
      <3>2. (CHOOSE m \in RowsOf(i)' : TRUE) = Len(rows) + 1
        BY <3>1
      <3> QED
        BY <3>1, <3>2 DEF LedgerEntry
    <2>4. record[i].outcome \in Outcomes
      BY <1>4 DEF WritesRow, Records
    <2>5. ledger' = [ledger EXCEPT ![i] = record[i].outcome] /\ ledger[i] = "open"
      BY Zenon, <2>1, <2>2, <2>3
    <2> QED
      BY Zenon, <2>4, <2>5 DEF Ledger!Settle
  <1> QED
    BY <1>2, <1>3, <1>4, StepKinds DEF Ledger!Next

(* The guard implements the settle-once ledger: every step settles one      *)
(* entry or none, and no settled entry changes.                             *)
THEOREM GuardSettlesOnce == Spec => SettlesOnce
  <1>1. Init => Ledger!Init
    <2> SUFFICES ASSUME Init PROVE \A i \in Invocations : LedgerEntry(i) = "open"
      BY DEF Ledger!Init
    <2>1. \A i \in Invocations : RowsOf(i) = {} /\ ~Settled(i)
      <3>1. DOMAIN rows = {}
        BY DEF Init
      <3> QED
        BY Zenon, <3>1 DEF Init, RowsOf, Settled
    <2> QED
      BY Zenon, <2>1 DEF LedgerEntry
  <1> QED
    BY <1>1, StepSettles, Inductive, PTL DEF Spec, SettlesOnce, Ledger!Spec
-----------------------------------------------------------------------------
(* The future of the call has handed its guard over.                        *)
HandedOver(i) == phase[i] \notin {"idle", "working"}

(* What was handed over was published once, and bills no more than was      *)
(* spent; nothing else was published.                                       *)
PublishedOnce ==
    \A i \in Invocations :
        IF HandedOver(i)
        THEN \E m \in DOMAIN published :
                PublishedOf(i) = {m} /\ published[m] = record[i]
        ELSE PublishedOf(i) = {}

RecordsAreFair ==
    \A i \in Invocations : HandedOver(i) =>
        /\ record[i].usage <= spent[i]
        /\ record[i].outcome = "cancelled" => record[i].usage = 0

(* A row is the record of its call, and an answer is that of the record.    *)
RowsAreRecords == \A n \in DOMAIN rows : rows[n] = record[rows[n].inv]

RepliesAreRecords ==
    \A i \in Invocations :
        reply[i] # "none" => HandedOver(i) /\ reply[i] = ReplyTo(record[i].outcome)

SinkInv == PublishedOnce /\ RecordsAreFair /\ RowsAreRecords /\ RepliesAreRecords

(* A guard is handed over: the record is published, once.                   *)
Hands(i) ==
    \E r \in Records :
        /\ r.inv = i /\ ~HandedOver(i) /\ HandedOver(i)'
        /\ r.usage <= spent[i] /\ (r.outcome = "cancelled" => r.usage = 0)
        /\ record' = [record EXCEPT ![i] = r] /\ published' = Append(published, r)
        /\ UNCHANGED <<spent, rows, reply>>
        /\ \A j \in Invocations \ {i} : HandedOver(j)' <=> HandedOver(j)

(* The record is left as it was, and so is what was billed once it is.      *)
Keeps(i) ==
    /\ UNCHANGED <<record, published>>
    /\ \A j \in Invocations : /\ HandedOver(j)' <=> HandedOver(j)
                              /\ HandedOver(j) => spent'[j] = spent[j]
    /\ rows' = rows \/ (HandedOver(i) /\ rows' = Append(rows, record[i]))
    /\ \/ reply' = reply
       \/ HandedOver(i) /\ reply' = [reply EXCEPT ![i] = ReplyTo(record[i].outcome)]

(* Each step of a call hands its guard over, or keeps its record.           *)
LEMMA HandsOrKeeps ==
    ASSUME IInv, NEW i \in Invocations, Step(i)
    PROVE  Hands(i) \/ Keeps(i)
  <1>0. spent[i] \in 0..MaxSpend /\ 0 \in 0..MaxSpend /\ "cancelled" \in Outcomes
    BY InvocationAssumption DEF IInv, TypeOK, Outcomes
  <1>1. ASSUME NEW outcome \in Outcomes, NEW usage \in 0..spent[i], Finish(i, outcome, usage),
               outcome = "cancelled" => usage = 0
        PROVE  Hands(i)
    <2> DEFINE r == [inv |-> i, outcome |-> outcome, usage |-> usage]
    <2>1. r \in Records /\ r.inv = i /\ r.usage = usage /\ r.outcome = outcome
      BY <1>0, InvocationAssumption DEF Records
    <2>2. record' = [record EXCEPT ![i] = r] /\ published' = Append(published, r)
      BY <1>1 DEF Finish
    <2> HIDE DEF r
    <2>3. ~HandedOver(i) /\ HandedOver(i)' /\ UNCHANGED <<spent, rows, reply>>
      BY <1>1 DEF Finish, HandedOver, IInv, TypeOK
    <2>4. \A j \in Invocations \ {i} : HandedOver(j)' <=> HandedOver(j)
      BY <1>1 DEF Finish, HandedOver, IInv, TypeOK
    <2>5. r.usage <= spent[i] /\ (r.outcome = "cancelled" => r.usage = 0)
      BY <1>0, <1>1, <2>1
    <2> QED
      BY Zenon, <2>1, <2>2, <2>3, <2>4, <2>5 DEF Hands
  <1>2. CASE CancelArm(i)
    BY <1>0, <1>1, <1>2 DEF CancelArm
  <1>3. CASE WorkSucceeds(i)
    BY <1>0, <1>1, <1>3 DEF WorkSucceeds, Outcomes
  <1>4. CASE WorkFails(i)
    BY Zenon, <1>1, <1>4, InvocationAssumption DEF WorkFails, Outcomes
  <1>5. CASE Abandon(i) \/ DropAtExit(i)
    <2> DEFINE r == [inv |-> i, outcome |-> "cancelled", usage |-> 0]
    <2>1. r \in Records /\ r.inv = i /\ r.usage = 0 /\ r.outcome = "cancelled"
      BY <1>0 DEF Records
    <2>2. /\ record' = [record EXCEPT ![i] = r] /\ published' = Append(published, r)
          /\ phase[i] = "working" /\ phase' = [phase EXCEPT ![i] = "gone"]
          /\ UNCHANGED <<spent, rows, reply>>
      BY <1>5 DEF Abandon, DropAtExit
    <2> HIDE DEF r
    <2>3. ~HandedOver(i) /\ \A j \in Invocations : HandedOver(j)' <=> (j = i \/ HandedOver(j))
      BY <2>2 DEF HandedOver, IInv, TypeOK
    <2>4. r.usage <= spent[i] /\ (r.outcome = "cancelled" => r.usage = 0)
      BY <1>0, <2>1
    <2>5. HandedOver(i)' /\ \A j \in Invocations \ {i} : HandedOver(j)' <=> HandedOver(j)
      BY <2>3
    <2>6. UNCHANGED <<spent, rows, reply>>
      BY <2>2
    <2> QED
      BY Zenon, <2>1, <2>2, <2>3, <2>4, <2>5, <2>6 DEF Hands
  <1>6. CASE Arrive(i) \/ Bill(i) \/ Cancel(i)
    BY <1>6 DEF Arrive, Bill, Cancel, Keeps, HandedOver, IInv, TypeOK
  <1>7. CASE RowWritten(i) \/ RowRefused(i) \/ AbandonInFinish(i)
    BY <1>7 DEF RowWritten, RowRefused, AbandonInFinish, Keeps, HandedOver, IInv, TypeOK
  <1>8. CASE BackstopWrites(i) \/ BackstopRefused(i) \/ BackstopDropped(i)
    BY <1>8 DEF BackstopWrites, BackstopRefused, BackstopDropped, Keeps, HandedOver, IInv,
                TypeOK, WriterIsDetached
  <1> QED
    BY <1>2, <1>3, <1>4, <1>5, <1>6, <1>7, <1>8 DEF Step

(* Handing a guard over keeps the sinks in agreement.                       *)
LEMMA HandsKeepsSinks ==
    ASSUME IInv, SinkInv, NEW i \in Invocations, Hands(i)
    PROVE  SinkInv'
  <1>1. PICK r \in Records :
            /\ r.inv = i /\ ~HandedOver(i) /\ HandedOver(i)'
            /\ r.usage <= spent[i] /\ (r.outcome = "cancelled" => r.usage = 0)
            /\ record' = [record EXCEPT ![i] = r] /\ published' = Append(published, r)
            /\ UNCHANGED <<spent, rows, reply>>
            /\ \A j \in Invocations \ {i} : HandedOver(j)' <=> HandedOver(j)
    BY Zenon DEF Hands
  <1>2. /\ DOMAIN published' = DOMAIN published \cup {Len(published) + 1}
        /\ published'[Len(published) + 1] = r
        /\ \A n \in DOMAIN published :
              published'[n] = published[n] /\ n # Len(published) + 1
    BY <1>1, Appended DEF IInv, TypeOK
  <1>3. record'[i] = r /\ \A j \in Invocations \ {i} : record'[j] = record[j]
    BY <1>1 DEF IInv, TypeOK
  <1>4. PublishedOnce'
    <2>1. PublishedOf(i)' = {Len(published) + 1}
      <3>1. PublishedOf(i) = {}
        BY <1>1 DEF SinkInv, PublishedOnce
      <3> QED
        BY <1>1, <1>2, <3>1 DEF PublishedOf
    <2>2. ASSUME NEW j \in Invocations \ {i} PROVE PublishedOf(j)' = PublishedOf(j)
      BY <1>1, <1>2 DEF PublishedOf
    <2>3. \A j \in Invocations \ {i} :
             IF HandedOver(j)'
             THEN \E m \in DOMAIN published' :
                     PublishedOf(j)' = {m} /\ published'[m] = record'[j]
             ELSE PublishedOf(j)' = {}
      BY <1>1, <1>2, <1>3, <2>2 DEF SinkInv, PublishedOnce
    <2> QED
      BY <1>1, <1>2, <1>3, <2>1, <2>3 DEF PublishedOnce
  <1>5. RecordsAreFair'
    BY <1>1, <1>3 DEF SinkInv, RecordsAreFair
  <1>6. RowsAreRecords'
    <2>1. \A n \in DOMAIN rows : rows[n].inv \in Invocations \ {i}
      BY Zenon, <1>1, TableEntries DEF IInv, TypeOK, RowsAreSettled, Settled, HandedOver
    <2> QED
      BY <1>1, <1>3, <2>1 DEF SinkInv, RowsAreRecords
  <1>7. RepliesAreRecords'
    BY <1>1, <1>3 DEF SinkInv, RepliesAreRecords
  <1> QED
    BY <1>4, <1>5, <1>6, <1>7 DEF SinkInv

(* So does a step that keeps the records.                                   *)
LEMMA KeepsKeepsSinks ==
    ASSUME IInv, SinkInv, NEW i \in Invocations, Keeps(i)
    PROVE  SinkInv'
  <1>1. PublishedOnce' /\ RecordsAreFair'
    BY DEF Keeps, SinkInv, PublishedOnce, PublishedOf, RecordsAreFair
  <1>2. RowsAreRecords'
    <2>1. CASE rows' = rows
      BY <2>1 DEF Keeps, SinkInv, RowsAreRecords
    <2>2. CASE HandedOver(i) /\ rows' = Append(rows, record[i])
      <3>1. rows \in Seq(Records) /\ record[i] \in Records /\ record[i].inv = i
        BY <2>2 DEF IInv, TypeOK, HoldsOwnRecord, HandedOver
      <3>2. /\ DOMAIN rows' = DOMAIN rows \cup {Len(rows) + 1}
            /\ rows'[Len(rows) + 1] = record[i]
            /\ \A n \in DOMAIN rows : rows'[n] = rows[n]
        BY <2>2, <3>1, Appended
      <3> QED
        BY <3>1, <3>2 DEF Keeps, SinkInv, RowsAreRecords
    <2> QED
      BY <2>1, <2>2 DEF Keeps
  <1>3. RepliesAreRecords'
    <2>1. CASE reply' = reply
      BY <2>1 DEF Keeps, SinkInv, RepliesAreRecords
    <2>2. CASE HandedOver(i) /\ reply' = [reply EXCEPT ![i] = ReplyTo(record[i].outcome)]
      <3>1. \A j \in Invocations :
               reply'[j] = IF j = i THEN ReplyTo(record[i].outcome) ELSE reply[j]
        BY <2>2 DEF IInv, TypeOK
      <3> QED
        BY <2>2, <3>1 DEF Keeps, SinkInv, RepliesAreRecords
    <2> QED
      BY <2>1, <2>2 DEF Keeps
  <1> QED
    BY <1>1, <1>2, <1>3 DEF SinkInv

(* Nothing is published, stored or answered at the start.                   *)
LEMMA InitSinks == Init => SinkInv
  <1> SUFFICES ASSUME Init PROVE SinkInv
    OBVIOUS
  <1>1. DOMAIN published = {} /\ DOMAIN rows = {}
    BY DEF Init
  <1> QED
    BY <1>1 DEF Init, SinkInv, PublishedOnce, PublishedOf, HandedOver, RecordsAreFair,
                RowsAreRecords, RepliesAreRecords

(* Every step keeps the sinks in agreement.                                 *)
LEMMA NextSinks == IInv /\ SinkInv /\ [Next]_vars => SinkInv'
  <1> SUFFICES ASSUME IInv, SinkInv, [Next]_vars PROVE SinkInv'
    OBVIOUS
  <1>1. CASE UNCHANGED vars \/ Exit
    BY <1>1 DEF vars, Exit, SinkInv, PublishedOnce, PublishedOf, HandedOver, RecordsAreFair,
                RowsAreRecords, RepliesAreRecords
  <1>2. ASSUME NEW i \in Invocations, Step(i) PROVE SinkInv'
    BY <1>2, HandsOrKeeps, HandsKeepsSinks, KeepsKeepsSinks
  <1> QED
    BY <1>1, <1>2 DEF Next

(* The agreement of records, sinks, rows and answers.                       *)
LEMMA SinksAgree == Spec => []SinkInv
  BY InitSinks, NextSinks, Inductive, PTL DEF Spec

(* A row was published before it was stored, and a call that handed its     *)
(* guard over was published exactly once (InvocationRecord::publish).       *)
THEOREM TwoSinksAgree == Spec => []OneMeasurementTwoSinks
  <1>1. IInv /\ SinkInv => OneMeasurementTwoSinks
    <2> SUFFICES ASSUME IInv, SinkInv PROVE OneMeasurementTwoSinks
      OBVIOUS
    <2>1. ASSUME NEW n \in DOMAIN rows PROVE \E m \in DOMAIN published : published[m] = rows[n]
      <3>1. rows[n].inv \in Invocations /\ HandedOver(rows[n].inv)
        BY Zenon, TableEntries DEF IInv, TypeOK, RowsAreSettled, Settled, HandedOver
      <3> QED
        BY <3>1 DEF SinkInv, PublishedOnce, RowsAreRecords
    <2>2. \A i \in Invocations :
             HandedOver(i) <=> \E m \in PublishedOf(i) : PublishedOf(i) = {m}
      BY Zenon DEF SinkInv, PublishedOnce
    <2> QED
      BY <2>1, <2>2 DEF OneMeasurementTwoSinks, HandedOver
  <1> QED
    BY <1>1, Inductive, SinksAgree, PTL

(* A row says what its caller was told and bills no more than was spent, a  *)
(* cancelled one nothing (run_recorded_usage).                              *)
THEOREM RepliesAgree == Spec => []ReplyAgreesWithRow
  <1>1. IInv /\ SinkInv => ReplyAgreesWithRow
    <2> SUFFICES ASSUME IInv, SinkInv, NEW n \in DOMAIN rows
                 PROVE  LET i == rows[n].inv
                        IN  /\ reply[i] # "none" => reply[i] = ReplyTo(rows[n].outcome)
                            /\ rows[n].usage <= spent[i]
                            /\ rows[n].outcome = "cancelled" => rows[n].usage = 0
      BY DEF ReplyAgreesWithRow
    <2>1. rows[n].inv \in Invocations /\ HandedOver(rows[n].inv)
      BY Zenon, TableEntries DEF IInv, TypeOK, RowsAreSettled, Settled, HandedOver
    <2> QED
      BY <2>1 DEF SinkInv, RecordsAreFair, RowsAreRecords, RepliesAreRecords
  <1> QED
    BY <1>1, Inductive, SinksAgree, PTL

(* The sinks, the table and the reply of each call tell one story, and a    *)
(* missing row has a recorded cause (record.rs, server.rs).                 *)
THEOREM RecordsHoldTrue == Spec => []RecordsAreTrue
  <1>1. /\ AtMostOneRow /\ OneMeasurementTwoSinks
        /\ MissingRowsHaveACause /\ ReplyAgreesWithRow
        => RecordsAreTrue
    BY DEF RecordsAreTrue
  <1> QED
    BY <1>1, NeverTwoRows, TwoSinksAgree, LossesHaveACause, RepliesAgree, PTL
-----------------------------------------------------------------------------
(* Induction on a set of numbers.                                           *)
LEMMA NumberInduction ==
    ASSUME NEW B, 0 \in B, \A n \in Nat : n \in B => n + 1 \in B
    PROVE  Nat \subseteq B
  <1> DEFINE Rest == Nat \ B
  <1> SUFFICES ASSUME Rest # {} PROVE FALSE
    OBVIOUS
  <1>1. PICK n \in Rest : \A m \in Rest : <<m, n>> \notin OpToRel(<, Nat)
    BY Zenon, WFMin, NatLessThanWellFounded
  <1>2. n # 0 /\ n - 1 \in Nat
    OBVIOUS
  <1>3. n - 1 \notin B
    BY <1>2
  <1>4. <<n - 1, n>> \in OpToRel(<, Nat)
    BY <1>2 DEF OpToRel
  <1> QED
    BY Zenon, <1>1, <1>2, <1>3, <1>4

(* A set of numbers that is not empty has a least element.                  *)
LEMMA LeastNumber ==
    ASSUME NEW S \in SUBSET Nat, S # {}
    PROVE  \E n \in S : \A m \in S : n <= m
  <1>1. PICK n \in S : \A m \in S : <<m, n>> \notin OpToRel(<, Nat)
    BY Zenon, WFMin, NatLessThanWellFounded
  <1>2. ASSUME NEW m \in S, ~(n <= m) PROVE FALSE
    <2>1. <<m, n>> \in OpToRel(<, Nat)
      BY <1>2 DEF OpToRel
    <2> QED
      BY Zenon, <1>1, <2>1
  <1> QED
    BY <1>2
-----------------------------------------------------------------------------
(* An input is of a kind, has elements, and a step keeps its kind.          *)
Shape ==
    /\ input = [kind |-> input.kind, items |-> input.items]
    /\ input.kind \in Kinds

(* An input grows by one element and keeps its kind.                        *)
LEMMA GrownKind ==
    ASSUME Shape, NEW kind, NEW element, Grown(kind, element)
    PROVE  /\ Shape' /\ input.kind = kind /\ input'.kind = kind
           /\ input'.items = Append(input.items, element)
  BY Zenon DEF Grown, Shape

(* What a step may be: the growth of some other input, or one of these.     *)
OtherKinds == Kinds \ {"schema", "store", "meters", "rows"}

GrowsOther == \E kind \in OtherKinds : \E element : Grown(kind, element)

(* A step grows an input no theorem here is about, or is one of the steps   *)
(* on a schema, a store, a meter or the rows.                               *)
LEMMA Steps ==
    ASSUME InputNext
    PROVE  GrowsOther \/ Declare \/ Save \/ Recalls \/ Meter \/ Write \/ WriteOlder \/ Damage
  <1>1. Turn => GrowsOther
    BY Zenon DEF Turn, GrowsOther, OtherKinds, Kinds
  <1>2. Result => GrowsOther
    BY Zenon DEF Result, GrowsOther, OtherKinds, Kinds
  <1>3. Torn => GrowsOther
    BY Zenon DEF Torn, GrowsOther, OtherKinds, Kinds
  <1>4. Enter => GrowsOther
    BY Zenon DEF Enter, GrowsOther, OtherKinds, Kinds
  <1>5. Locate => GrowsOther
    BY Zenon DEF Locate, GrowsOther, OtherKinds, Kinds
  <1>6. Match => GrowsOther
    BY Zenon DEF Match, GrowsOther, OtherKinds, Kinds
  <1>7. Paginate => GrowsOther
    BY Zenon DEF Paginate, GrowsOther, OtherKinds, Kinds
  <1>8. Score => GrowsOther
    BY Zenon DEF Score, GrowsOther, OtherKinds, Kinds
  <1>9. Infer => GrowsOther
    BY Zenon DEF Infer, GrowsOther, OtherKinds, Kinds
  <1>10. Type => GrowsOther
    BY Zenon DEF Type, GrowsOther, OtherKinds, Kinds
  <1>11. Form => GrowsOther
    BY Zenon DEF Form, GrowsOther, OtherKinds, Kinds
  <1>12. Tell => GrowsOther
    BY Zenon DEF Tell, GrowsOther, OtherKinds, Kinds
  <1>13. Ask => GrowsOther
    BY Zenon DEF Ask, GrowsOther, OtherKinds, Kinds
  <1>14. Hit => GrowsOther
    BY Zenon DEF Hit, GrowsOther, OtherKinds, Kinds
  <1>15. Cite => GrowsOther
    BY Zenon DEF Cite, GrowsOther, OtherKinds, Kinds
  <1>16. Conclude => GrowsOther
    BY Zenon DEF Conclude, GrowsOther, OtherKinds, Kinds
  <1>17. Back => GrowsOther
    BY Zenon DEF Back, GrowsOther, OtherKinds, Kinds
  <1>18. Wrap => GrowsOther
    BY Zenon DEF Wrap, GrowsOther, OtherKinds, Kinds
  <1>19. ReadVariable => GrowsOther
    BY Zenon DEF ReadVariable, GrowsOther, OtherKinds, Kinds
  <1>20. State => GrowsOther
    BY Zenon DEF State, GrowsOther, OtherKinds, Kinds
  <1> QED
    BY <1>1, <1>2, <1>3, <1>4, <1>5, <1>6, <1>7, <1>8, <1>9, <1>10, <1>11, <1>12, <1>13, <1>14, <1>15, <1>16, <1>17, <1>18, <1>19, <1>20 DEF InputNext

(* A step keeps the kind of the input.                                      *)
LEMMA ShapeStep ==
    ASSUME Shape, [InputNext]_input
    PROVE  Shape' /\ input'.kind = input.kind
  <1>1. CASE UNCHANGED input
    BY <1>1 DEF Shape
  <1>2. CASE GrowsOther
    BY <1>2, GrownKind DEF GrowsOther
  <1>3. CASE Declare
    BY <1>3, GrownKind DEF Declare
  <1>4. CASE Save
    BY <1>4, GrownKind DEF Save
  <1>5. CASE Recalls
    BY <1>5 DEF Recalls, Shape
  <1>6. CASE Meter
    BY <1>6, GrownKind DEF Meter
  <1>7. CASE Write
    BY <1>7, GrownKind DEF Write
  <1>8. CASE WriteOlder
    BY <1>8, GrownKind DEF WriteOlder
  <1>9. CASE Damage
    BY <1>9 DEF Damage, Shape
  <1> QED
    BY <1>1, <1>2, <1>3, <1>4, <1>5, <1>6, <1>7, <1>8, <1>9, Steps

(* An input starts with nothing in it.                                      *)
LEMMA ShapeInit == InputInit => Shape /\ input.items = <<>>
  BY DEF InputInit, Shape, Empty

(* What a step may be, by the kind of the input.                            *)
LEMMA KindStep ==
    ASSUME Shape, InputNext
    PROVE  /\ input.kind = "schema" => Declare
           /\ input.kind = "store" => Save \/ Recalls
           /\ input.kind = "meters" => Meter
           /\ input.kind = "rows" => Write \/ WriteOlder \/ Damage
  <1>1. GrowsOther => input.kind \notin {"schema", "store", "meters", "rows"}
    BY DEF GrowsOther, OtherKinds, Grown
  <1>2. Declare => input.kind = "schema"
    BY DEF Declare, Grown
  <1>3. Save \/ Recalls => input.kind = "store"
    BY DEF Save, Recalls, Grown
  <1>4. Meter => input.kind = "meters"
    BY DEF Meter, Grown
  <1>5. Write \/ WriteOlder \/ Damage => input.kind = "rows"
    BY Zenon DEF Write, WriteOlder, Damage, Grown
  <1> QED
    BY <1>1, <1>2, <1>3, <1>4, <1>5, Steps

-----------------------------------------------------------------------------
(* The grammar of a schema.                                                 *)

SchemaItem == [prop : Props, required : BOOLEAN]

SchemaTyped == input.kind = "schema" => input.items \in Seq(SchemaItem)

(* A declaration adds a property of one of the types the schemas have.      *)
LEMMA SchemaTypedStep ==
    ASSUME Shape, SchemaTyped, [InputNext]_input
    PROVE  SchemaTyped'
  <1>1. SUFFICES ASSUME input'.kind = "schema" PROVE input'.items \in Seq(SchemaItem)
    BY DEF SchemaTyped
  <1>2. input.kind = "schema" /\ input.items \in Seq(SchemaItem)
    BY <1>1, ShapeStep DEF SchemaTyped
  <1>3. CASE UNCHANGED input
    BY <1>2, <1>3
  <1>4. CASE InputNext
    <2>1. PICK p \in Props, required \in BOOLEAN : Grown("schema", [prop |-> p, required |-> required])
      BY Zenon, <1>2, <1>4, KindStep DEF Declare
    <2>2. input'.items = Append(input.items, [prop |-> p, required |-> required])
      BY <2>1, GrownKind
    <2> QED
      BY <1>2, <2>2 DEF SchemaItem
  <1> QED
    BY <1>3, <1>4

(* The schemas of arrays, and what is left of one.                          *)
ArraySchemas == [type : {"array"}, least : Nat, most : Nat]

(* An array's schema is told by its bounds.                                 *)
LEMMA SameArray ==
    ASSUME NEW p \in ArraySchemas, NEW q \in ArraySchemas, p.least = q.least, p.most = q.most
    PROVE  p = q
  BY DEF ArraySchemas

(* What sanitising leaves of an array: a lower bound of at most one, and no *)
(* upper bound.                                                             *)
LEMMA SanitizedArray ==
    ASSUME NEW p \in ArraySchemas
    PROVE  /\ SanitizeProp(p) \in ArraySchemas
           /\ SanitizeProp(p).least = IF p.least > 1 THEN 0 ELSE p.least
           /\ SanitizeProp(p).most = LengthMax
  <1>1. p.type = "array"
    BY DEF ArraySchemas
  <1> DEFINE least == IF p.least > 1 THEN 0 ELSE p.least
  <1>2. SanitizeProp(p) = [p EXCEPT !.least = least, !.most = LengthMax]
    BY <1>1 DEF SanitizeProp
  <1>3. least \in Nat
    BY DEF ArraySchemas
  <1> HIDE DEF least
  <1>4. /\ SanitizeProp(p) \in ArraySchemas
        /\ SanitizeProp(p).least = least
        /\ SanitizeProp(p).most = LengthMax
    BY Zenon, <1>2, <1>3, SchemasAssumption DEF ArraySchemas
  <1> QED
    BY <1>4 DEF least

(* Sanitizing a property: what is left of it is as it was sanitized.        *)
LEMMA SanitizedProp ==
    ASSUME NEW p \in PropSchemas
    PROVE  /\ SanitizeProp(SanitizeProp(p)) = SanitizeProp(p)
           /\ Admits(p) \subseteq Admits(SanitizeProp(p))
           /\ p.type = "enum" => Admits(SanitizeProp(p)) = Admits(p)
  <1>1. CASE p \in [type : {"enum"}, values : SUBSET Scalars, oneOf : BOOLEAN]
    BY Zenon, <1>1 DEF SanitizeProp, Admits
  <1>2. CASE p \in [type : {"number"}, bounds : SUBSET Scalars]
    BY Zenon, <1>2 DEF SanitizeProp, Admits
  <1>3. CASE p \in [type : {"array"}, least : Nat, most : 0..LengthMax]
    <2> DEFINE q == SanitizeProp(p)
    <2>1. p \in ArraySchemas /\ p.type = "array" /\ p.least \in Nat /\ p.most \in 0..LengthMax
      BY <1>3, SchemasAssumption DEF ArraySchemas
    <2>2. q \in ArraySchemas /\ q.least = (IF p.least > 1 THEN 0 ELSE p.least) /\ q.most = LengthMax
      BY <2>1, SanitizedArray
    <2> HIDE DEF q
    <2>3. q.type = "array" /\ q.least \in Nat /\ q.least <= p.least /\ q.least <= 1
      BY <2>1, <2>2 DEF ArraySchemas
    <2>4. SanitizeProp(q) \in ArraySchemas /\ SanitizeProp(q).least = q.least /\ SanitizeProp(q).most = q.most
      BY <2>2, <2>3, SanitizedArray
    <2>5. SanitizeProp(q) = q
      BY <2>2, <2>4, SameArray
    <2>6. Admits(p) = {<<"length", k>> : k \in p.least..p.most}
      BY <2>1 DEF Admits
    <2>7. Admits(q) = {<<"length", k>> : k \in q.least..q.most}
      BY <2>3 DEF Admits
    <2>8. p.least..p.most \subseteq q.least..q.most
      BY <2>1, <2>2, <2>3, SchemasAssumption
    <2>9. Admits(p) \subseteq Admits(q)
      BY <2>6, <2>7, <2>8
    <2> QED
      BY <2>1, <2>5, <2>9 DEF q
  <1>4. CASE p = [type |-> "object"]
    BY <1>4 DEF SanitizeProp, Admits
  <1> QED
    BY <1>1, <1>2, <1>3, <1>4 DEF PropSchemas


(* The grammar admits every complete answer.                                *)
LEMMA GrammarAdmits ==
    ASSUME Shape, SchemaTyped
    PROVE  GrammarAdmitsAnswers
  <1> SUFFICES ASSUME input.kind = "schema", IsFlat(SchemaOf(input.items)) PROVE GrammarAdmitsAnswers
    BY DEF GrammarAdmitsAnswers
  <1> DEFINE items == input.items
             schema == SchemaOf(items)
             grammar == Sanitize(schema)
  <1>1. items \in Seq(SchemaItem)
    BY DEF SchemaTyped
  <1>2. \A k \in DOMAIN items : items[k].prop \in PropSchemas
    <2>1. \A k \in DOMAIN items : items[k] \in SchemaItem
      BY <1>1
    <2> HIDE DEF items
    <2>2. \A k \in DOMAIN items : items[k].prop \in Props
      BY <2>1 DEF SchemaItem
    <2> QED
      BY <2>2, AlgorithmsAssumption
  <1>3. /\ DOMAIN schema.props = {Names[k] : k \in DOMAIN items}
        /\ schema.required \subseteq DOMAIN schema.props
        /\ schema.closed = FALSE
    BY Zenon DEF SchemaOf
  <1>4. ASSUME NEW n \in DOMAIN schema.props PROVE schema.props[n] \in PropSchemas
    <2>1. PICK k \in DOMAIN items : Names[k] = n
      BY <1>3
    <2>2. schema.props[n] = items[CHOOSE l \in DOMAIN items : Names[l] = n].prop
      BY <1>3 DEF SchemaOf
    <2> QED
      BY <1>2, <2>1, <2>2
  <1>5. /\ DOMAIN grammar.props = DOMAIN schema.props
        /\ \A n \in DOMAIN schema.props : grammar.props[n] = SanitizeProp(schema.props[n])
        /\ grammar.required = DOMAIN schema.props
        /\ grammar.closed = TRUE
    BY DEF Sanitize
  <1>6. Sanitize(grammar) = grammar
    <2>1. \A n \in DOMAIN schema.props : SanitizeProp(grammar.props[n]) = grammar.props[n]
      BY <1>4, <1>5, SanitizedProp
    <2>2. Sanitize(grammar) = [props |-> [n \in DOMAIN schema.props |-> SanitizeProp(grammar.props[n])],
                               required |-> DOMAIN schema.props, closed |-> TRUE]
      BY <1>5 DEF Sanitize
    <2>3. grammar = [props |-> [n \in DOMAIN schema.props |-> grammar.props[n]],
                     required |-> DOMAIN schema.props, closed |-> TRUE]
      BY Zenon DEF Sanitize
    <2> HIDE DEF schema, grammar
    <2>4. [n \in DOMAIN schema.props |-> SanitizeProp(grammar.props[n])]
            = [n \in DOMAIN schema.props |-> grammar.props[n]]
      BY <2>1
    <2> QED
      BY Zenon, <2>2, <2>3, <2>4
  <1> HIDE DEF schema, grammar
  <1>7. ASSUME NEW a \in Answers(schema), Validates(schema, a), DOMAIN a = DOMAIN schema.props
        PROVE  Validates(grammar, a)
    BY <1>4, <1>5, <1>7, SanitizedProp DEF Validates
  <1>8. ASSUME NEW a \in Answers(schema), Validates(grammar, a), ~Validates(schema, a)
        PROVE  \E n \in DOMAIN a : schema.props[n].type # "enum" /\ a[n] \notin Admits(schema.props[n])
    <2>1. DOMAIN a = DOMAIN schema.props
      BY Zenon, <1>5, <1>8 DEF Validates
    <2>2. PICK n \in DOMAIN a : a[n] \notin Admits(schema.props[n])
      BY <1>3, <1>8, <2>1 DEF Validates
    <2>3. a[n] \in Admits(SanitizeProp(schema.props[n]))
      BY <1>5, <1>8, <2>1 DEF Validates
    <2> QED
      BY <1>4, <2>1, <2>2, <2>3, SanitizedProp
  <1> QED
    BY <1>6, <1>7, <1>8 DEF schema, grammar, GrammarAdmitsAnswers

(* Whatever schema a mode registers, the grammar sent to the provider       *)
(* admits every complete answer the schema does.                            *)
THEOREM GrammarIsFaithful == InputSpec => []GrammarAdmitsAnswers
  <1> DEFINE Inv == Shape /\ SchemaTyped
  <1>1. InputInit => Inv
    <2>1. <<>> \in Seq(SchemaItem)
      OBVIOUS
    <2> QED
      BY <2>1, ShapeInit, Zenon DEF SchemaTyped
  <1>2. Inv /\ [InputNext]_input => Inv'
    BY ShapeStep, SchemaTypedStep
  <1>3. Inv => GrammarAdmitsAnswers
    BY GrammarAdmits
  <1> QED
    BY <1>1, <1>2, <1>3, PTL DEF InputSpec

-----------------------------------------------------------------------------
(* Folds.  A fold takes the elements of a finite set one after the other,   *)
(* each time the one that ch chooses of those that are left.                *)

Chooses(ch, S) == \A s \in SUBSET S : s # {} => ch[s] \in s

(* f folds O over the subsets of S.                                         *)
FoldsOver(f, O, base, ch, S) ==
    /\ f[{}] = base
    /\ \A s \in SUBSET S : s # {} => f[s] = O[ch[s]][f[s \ {ch[s]}]]

(* There is a fold, with its values where those of O and the base are.      *)
LEMMA FoldExists ==
    ASSUME NEW S, IsFiniteSet(S), NEW A, NEW base \in A, NEW O \in [S -> [A -> A]],
           NEW ch, Chooses(ch, S)
    PROVE  \E f \in [SUBSET S -> A] : FoldsOver(f, O, base, ch, S)
  <1> DEFINE Upto(f, n) == \A s \in SUBSET S :
                 s # {} /\ Cardinality(s) <= n => f[s] = O[ch[s]][f[s \ {ch[s]}]]
             B == {n \in Nat : \E f \in [SUBSET S -> A] : f[{}] = base /\ Upto(f, n)}
  <1>1. \A s \in SUBSET S : IsFiniteSet(s) /\ Cardinality(s) \in Nat /\ Cardinality(s) <= Cardinality(S)
    BY FS_Subset, FS_CardinalityType
  <1>2. \A s \in SUBSET S : Cardinality(s) = 0 <=> s = {}
    BY <1>1, FS_EmptySet
  <1>3. 0 \in B
    <2> DEFINE f == [s \in SUBSET S |-> base]
    <2>1. f \in [SUBSET S -> A] /\ f[{}] = base
      OBVIOUS
    <2>2. Upto(f, 0)
      <3> SUFFICES ASSUME NEW s \in SUBSET S, s # {}, Cardinality(s) <= 0 PROVE FALSE
        OBVIOUS
      <3> QED
        BY <1>1, <1>2
    <2> HIDE DEF f, Upto
    <2> QED
      BY <2>1, <2>2
  <1>4. ASSUME NEW n \in Nat, n \in B PROVE n + 1 \in B
    <2>1. PICK f \in [SUBSET S -> A] : f[{}] = base /\ Upto(f, n)
      BY Zenon, <1>4
    <2> DEFINE Extended(s) == O[ch[s]][f[s \ {ch[s]}]]
               g == [s \in SUBSET S |-> IF Cardinality(s) = n + 1 THEN Extended(s) ELSE f[s]]
    <2>2. ASSUME NEW s \in SUBSET S, s # {}
          PROVE  /\ ch[s] \in s /\ s \ {ch[s]} \in SUBSET S
                 /\ Cardinality(s \ {ch[s]}) = Cardinality(s) - 1
      <3>1. ch[s] \in s
        BY <2>2 DEF Chooses
      <3> QED
        BY Zenon, <1>1, <3>1, FS_RemoveElement
    <2>3. ASSUME NEW s \in SUBSET S, s # {} PROVE Extended(s) \in A
      <3>1. ch[s] \in S /\ f[s \ {ch[s]}] \in A
        BY Zenon, <2>2, <2>3
      <3> QED
        BY <3>1
    <2>4. g \in [SUBSET S -> A]
      <3>1. ASSUME NEW s \in SUBSET S PROVE (IF Cardinality(s) = n + 1 THEN Extended(s) ELSE f[s]) \in A
        <4>1. CASE Cardinality(s) = n + 1
          <5>1. s # {}
            BY <1>2, <4>1
          <5> QED
            BY Zenon, <2>3, <4>1, <5>1
        <4> QED
          BY <4>1
      <3> HIDE DEF Extended
      <3> QED
        BY <3>1
    <2>5. g[{}] = base
      <3>1. Cardinality({}) = 0 /\ {} \in SUBSET S
        BY FS_EmptySet
      <3> QED
        BY <2>1, <3>1
    <2>6. Upto(g, n + 1)
      <3> SUFFICES ASSUME NEW s \in SUBSET S, s # {}, Cardinality(s) <= n + 1
                   PROVE  g[s] = O[ch[s]][g[s \ {ch[s]}]]
        BY Zenon
      <3>1. g[s \ {ch[s]}] = f[s \ {ch[s]}]
        <4>1. Cardinality(s \ {ch[s]}) # n + 1 /\ s \ {ch[s]} \in SUBSET S
          BY <1>1, <2>2
        <4> QED
          BY <4>1
      <3>2. CASE Cardinality(s) = n + 1
        BY Zenon, <3>1, <3>2
      <3>3. CASE Cardinality(s) <= n
        <4>1. Cardinality(s) # n + 1
          BY <1>1, <3>3
        <4>2. g[s] = f[s]
          BY <4>1
        <4>3. f[s] = O[ch[s]][f[s \ {ch[s]}]]
          BY Zenon, <2>1, <3>3
        <4> QED
          BY Zenon, <3>1, <4>2, <4>3
      <3>4. Cardinality(s) = n + 1 \/ Cardinality(s) <= n
        BY <1>1
      <3> QED
        BY Zenon, <3>2, <3>3, <3>4
    <2> HIDE DEF g, Upto
    <2> QED
      BY <2>4, <2>5, <2>6
  <1> HIDE DEF B
  <1>5. Cardinality(S) \in B
    BY <1>1, <1>3, <1>4, NumberInduction
  <1>6. PICK f \in [SUBSET S -> A] : f[{}] = base /\ Upto(f, Cardinality(S))
    BY Zenon, <1>5 DEF B
  <1> QED
    BY Zenon, <1>1, <1>6 DEF FoldsOver

(* Two functions of the subsets of S are the same when they begin alike and *)
(* each step from the same value leads to the same value.                   *)
StepAlike(f, g, ch, S) ==
    /\ f[{}] = g[{}]
    /\ \A s \in SUBSET S : s # {} /\ f[s \ {ch[s]}] = g[s \ {ch[s]}] => f[s] = g[s]

(* Any two folds of a finite set along the same choice of elements agree.   *)
LEMMA FoldIsOne ==
    ASSUME NEW S, IsFiniteSet(S), NEW ch, Chooses(ch, S), NEW f, NEW g, StepAlike(f, g, ch, S)
    PROVE  f[S] = g[S]
  <1> DEFINE B == {n \in Nat : \A s \in SUBSET S : Cardinality(s) = n => f[s] = g[s]}
  <1>1. \A s \in SUBSET S : IsFiniteSet(s) /\ Cardinality(s) \in Nat
    BY FS_Subset, FS_CardinalityType
  <1>2. 0 \in B
    BY Zenon, <1>1, FS_EmptySet DEF StepAlike
  <1>3. ASSUME NEW n \in Nat, n \in B PROVE n + 1 \in B
    <2>1. ASSUME NEW s \in SUBSET S, Cardinality(s) = n + 1 PROVE f[s] = g[s]
      <3>1. s # {}
        BY <2>1, FS_EmptySet
      <3>2. ch[s] \in s
        BY <3>1 DEF Chooses
      <3>3. Cardinality(s \ {ch[s]}) = Cardinality(s) - 1
        BY <1>1, <3>2, FS_RemoveElement
      <3>4. Cardinality(s \ {ch[s]}) = n /\ s \ {ch[s]} \in SUBSET S
        BY <2>1, <3>3
      <3> QED
        BY <1>3, <3>1, <3>4 DEF StepAlike
    <2> QED
      BY <2>1
  <1> HIDE DEF B
  <1>4. Nat \subseteq B
    BY <1>2, <1>3, NumberInduction
  <1> QED
    BY <1>1, <1>4 DEF B

(* The largest of some numbers up to n.                                     *)
LEMMA MaxOf ==
    ASSUME NEW n \in Nat, NEW s \in SUBSET (1..n), s # {}
    PROVE  Max(s) \in s /\ \A y \in s : Max(s) >= y
  <1> DEFINE T == {n - x : x \in s}
  <1>1. T \in SUBSET Nat /\ T # {}
    <2>1. \A x \in s : n - x \in Nat
      OBVIOUS
    <2> QED
      BY Zenon, <2>1
  <1>2. PICK t \in T : \A u \in T : t <= u
    BY Zenon, <1>1, LeastNumber
  <1>3. PICK x \in s : t = n - x
    OBVIOUS
  <1>4. \A y \in s : x >= y
    <2> TAKE y \in s
    <2>1. t <= n - y
      BY <1>2
    <2> QED
      BY <1>3, <2>1
  <1> QED
    BY <1>4 DEF Max

(* A fold of a prefix of the numbers takes its last one first.              *)
LEMMA MaxOfPrefix ==
    ASSUME NEW n \in Nat, NEW k \in 1..n
    PROVE  Max(1..k) = k /\ (1..k) \ {k} = 1..(k - 1)
  <1>1. 1..k \in SUBSET (1..n) /\ 1..k # {} /\ k \in 1..k
    OBVIOUS
  <1>2. Max(1..k) \in 1..k /\ Max(1..k) >= k
    BY Zenon, <1>1, MaxOf
  <1> QED
    BY <1>2

(* A fold of a sequence goes along it.                                      *)
GoesAlong(f, O, base, n) ==
    /\ f[{}] = base
    /\ \A s \in SUBSET (1..n) : s # {} => f[s] = O[Max(s)][f[s \ {Max(s)}]]

(* A fold along a sequence exists, whatever a step of it does.              *)
LEMMA PrefixFold ==
    ASSUME NEW n \in Nat, NEW A, NEW base \in A, NEW O \in [1..n -> [A -> A]]
    PROVE  \E f \in [SUBSET (1..n) -> A] : GoesAlong(f, O, base, n)
  <1> DEFINE ch == [s \in SUBSET (1..n) |-> Max(s)]
  <1>1. IsFiniteSet(1..n)
    BY FS_Interval
  <1>2. Chooses(ch, 1..n)
    BY Zenon, MaxOf DEF Chooses
  <1>3. PICK f \in [SUBSET (1..n) -> A] : FoldsOver(f, O, base, ch, 1..n)
    BY <1>1, <1>2, FoldExists, Zenon
  <1> QED
    BY Zenon, <1>3 DEF FoldsOver, GoesAlong

(* Two functions of the numbers up to n agree at n when they begin alike    *)
(* and each step from the same value leads to the same value.               *)
GoAlike(f, g, n) ==
    /\ f[0] = g[0]
    /\ \A k \in 1..n : f[k - 1] = g[k - 1] => f[k] = g[k]

(* Two runs that start alike and step alike end alike.                      *)
LEMMA SamePrefix ==
    ASSUME NEW n \in Nat, NEW f, NEW g, GoAlike(f, g, n)
    PROVE  f[n] = g[n]
  <1> DEFINE B == {k \in Nat : k <= n => f[k] = g[k]}
  <1>1. 0 \in B
    BY DEF GoAlike
  <1>2. ASSUME NEW k \in Nat, k \in B PROVE k + 1 \in B
    <2>1. CASE k + 1 <= n
      <3>1. k + 1 \in 1..n /\ (k + 1) - 1 = k /\ f[k] = g[k]
        BY <1>2, <2>1
      <3>2. f[(k + 1) - 1] = g[(k + 1) - 1] => f[k + 1] = g[k + 1]
        BY <3>1 DEF GoAlike
      <3> QED
        BY <3>1, <3>2
    <2> QED
      BY <2>1
  <1> HIDE DEF B
  <1>3. Nat \subseteq B
    BY <1>1, <1>2, NumberInduction
  <1> QED
    BY <1>3 DEF B

-----------------------------------------------------------------------------
(* The meters.                                                              *)

Counts == [in : 0..UsageMax, out : 0..UsageMax]

ModelUsages == {u \in UNION {[D -> Counts] : D \in SUBSET Models} : IsFiniteSet(DOMAIN u)}

(* A usage is counts by model, of finitely many models.                     *)
LEMMA UsageShape ==
    ASSUME NEW u
    PROVE  u \in ModelUsages <=>
              /\ IsFiniteSet(DOMAIN u) /\ DOMAIN u \subseteq Models
              /\ u \in [DOMAIN u -> Counts]
  BY DEF ModelUsages

(* A saturated sum is a u64, and the order of its terms is nothing to it.   *)
LEMMA SatAddType ==
    ASSUME NEW a \in Nat, NEW b \in Nat
    PROVE  SatAdd(a, b) \in 0..UsageMax /\ SatAdd(a, b) \in Nat /\ SatAdd(a, b) = SatAdd(b, a)
  BY MeteringAssumption DEF SatAdd

(* Saturated sums of three terms may be taken in any order.                 *)
LEMMA SatAddAssociates ==
    ASSUME NEW a \in Nat, NEW b \in Nat, NEW c \in Nat
    PROVE  /\ SatAdd(SatAdd(a, b), c) = SatAdd(a, SatAdd(b, c))
           /\ SatAdd(SatAdd(a, b), c) = SatAdd(SatAdd(a, c), b)
  BY MeteringAssumption DEF SatAdd

(* Adding nothing to a u64 leaves it.                                       *)
LEMMA SatAddZero ==
    ASSUME NEW a \in 0..UsageMax
    PROVE  SatAdd(a, 0) = a /\ SatAdd(0, a) = a
  BY MeteringAssumption DEF SatAdd

(* What a usage holds of a model are counts.                                *)
LEMMA UsageOfType ==
    ASSUME NEW u \in ModelUsages, NEW m
    PROVE  UsageOf(u, m) \in Counts
  BY UsageShape, MeteringAssumption DEF UsageOf, Counts

(* A meter that was never used is a usage of no model.                      *)
LEMMA NoUsageType == NoUsage \in ModelUsages /\ DOMAIN NoUsage = {}
  <1>1. DOMAIN NoUsage = {} /\ NoUsage \in [{} -> Counts]
    BY DEF NoUsage
  <1> QED
    BY Zenon, <1>1, UsageShape, FS_EmptySet

(* a is u with a response metered.                                          *)
Metered(a, u, m, in, out) ==
    /\ a \in ModelUsages
    /\ DOMAIN a = DOMAIN u \cup {m}
    /\ a[m] = [in |-> SatAdd(UsageOf(u, m).in, in), out |-> SatAdd(UsageOf(u, m).out, out)]
    /\ \A n \in DOMAIN u : n # m => a[n] = u[n]

(* Metering a response adds to its model's counts and to no other's.        *)
LEMMA AddType ==
    ASSUME NEW u \in ModelUsages, NEW m \in Models, NEW in \in Nat, NEW out \in Nat
    PROVE  Metered(Add(u, m, in, out), u, m, in, out)
  <1> DEFINE v == Add(u, m, in, out)
  <1>1. UsageOf(u, m).in \in Nat /\ UsageOf(u, m).out \in Nat
    BY UsageOfType DEF Counts
  <1>2. [in |-> SatAdd(UsageOf(u, m).in, in), out |-> SatAdd(UsageOf(u, m).out, out)] \in Counts
    BY Zenon, <1>1, SatAddType DEF Counts
  <1>3. /\ DOMAIN v = DOMAIN u \cup {m}
        /\ v[m] = [in |-> SatAdd(UsageOf(u, m).in, in), out |-> SatAdd(UsageOf(u, m).out, out)]
        /\ \A n \in DOMAIN u : n # m => v[n] = u[n]
        /\ v = [n \in DOMAIN v |-> v[n]]
    BY DEF Add
  <1> HIDE DEF v
  <1>4. v \in [DOMAIN v -> Counts]
    BY <1>2, <1>3, UsageShape
  <1>5. IsFiniteSet(DOMAIN v) /\ DOMAIN v \subseteq Models
    BY <1>3, UsageShape, FS_AddElement
  <1> QED
    BY <1>3, <1>4, <1>5, UsageShape DEF v, Metered

MeterItem == [model : Models, in : Tokens, out : Tokens]

(* f meters the responses of some places, the last of them last.            *)
MetersOver(f, items) ==
    f = [s \in SUBSET DOMAIN items |->
            IF s = {} THEN NoUsage
            ELSE Add(f[s \ {Max(s)}], items[Max(s)].model, items[Max(s)].in, items[Max(s)].out)]

(* The meter of a fan-out, as the fold of its responses.                    *)
LEMMA MeterFunction ==
    ASSUME NEW items
    PROVE  Fold(items) = (CHOOSE f : MetersOver(f, items))[DOMAIN items]
  BY Zenon DEF Fold, FoldLeft, MapThenFoldSet, MetersOver

(* Folding responses goes along them.                                       *)
LEMMA MeterFold ==
    ASSUME NEW items \in Seq(MeterItem)
    PROVE  \E h \in [0..Len(items) -> ModelUsages] :
              /\ h[0] = NoUsage
              /\ \A k \in 1..Len(items) : h[k] = Add(h[k - 1], items[k].model, items[k].in, items[k].out)
              /\ h[Len(items)] = Fold(items)
  <1> DEFINE n == Len(items)
             With(i, u) == Add(u, items[i].model, items[i].in, items[i].out)
             O == [i \in 1..n |-> [u \in ModelUsages |-> With(i, u)]]
             ch == [s \in SUBSET (1..n) |-> Max(s)]
  <1>1. n \in Nat /\ DOMAIN items = 1..n
    OBVIOUS
  <1>2. \A i \in 1..n : items[i].model \in Models /\ items[i].in \in Nat /\ items[i].out \in Nat
    <2>1. \A i \in 1..n : items[i] \in MeterItem
      OBVIOUS
    <2> QED
      BY Zenon, <2>1, AlgorithmsAssumption DEF MeterItem
  <1>3. O \in [1..n -> [ModelUsages -> ModelUsages]]
    <2>1. \A i \in 1..n : \A u \in ModelUsages : With(i, u) \in ModelUsages
      BY Zenon, <1>2, AddType DEF Metered
    <2> HIDE DEF With
    <2> QED
      BY <2>1
  <1>4. PICK g \in [SUBSET (1..n) -> ModelUsages] : GoesAlong(g, O, NoUsage, n)
    <2>1. n \in Nat /\ NoUsage \in ModelUsages
      BY <1>1, NoUsageType
    <2> HIDE DEF O, n, With, ch
    <2> QED
      BY Zenon, <1>3, <2>1, PrefixFold
  <1>5. ASSUME NEW s \in SUBSET (1..n), s # {}
        PROVE  Max(s) \in 1..n /\ g[s \ {Max(s)}] \in ModelUsages /\ g[s] = With(Max(s), g[s \ {Max(s)}])
    <2>1. Max(s) \in s
      BY Zenon, <1>1, <1>5, MaxOf
    <2>2. s \ {Max(s)} \in SUBSET (1..n)
      BY Zenon
    <2> HIDE DEF With, n
    <2> QED
      BY Zenon, <1>4, <1>5, <2>1, <2>2 DEF GoesAlong
  <1>6. MetersOver(g, items)
    <2>1. \A s \in SUBSET (1..n) : g[s] = IF s = {} THEN NoUsage ELSE With(Max(s), g[s \ {Max(s)}])
      BY Zenon, <1>4, <1>5 DEF GoesAlong
    <2>2. g = [s \in SUBSET (1..n) |-> IF s = {} THEN NoUsage ELSE With(Max(s), g[s \ {Max(s)}])]
      <3> HIDE DEF With, n
      <3> QED
        BY Zenon, <1>4, <2>1
    <2> QED
      BY Zenon, <1>1, <2>2 DEF MetersOver
  <1> DEFINE f == CHOOSE f : MetersOver(f, items)
  <1>7. MetersOver(f, items)
    BY <1>6
  <1>8. f[1..n] = g[1..n]
    <2>1. f[{}] = NoUsage /\ \A s \in SUBSET (1..n) : s # {} => f[s] = With(Max(s), f[s \ {Max(s)}])
      <3> HIDE DEF f
      <3> QED
        BY Zenon, <1>1, <1>7 DEF MetersOver
    <2>2. \A s \in SUBSET (1..n) : s # {} /\ f[s \ {ch[s]}] = g[s \ {ch[s]}] => f[s] = g[s]
      <3> HIDE DEF f, With, n
      <3> QED
        BY Zenon, <1>5, <2>1
    <2>3. IsFiniteSet(1..n)
      BY <1>1, FS_Interval
    <2>4. Chooses(ch, 1..n)
      <3> HIDE DEF n
      <3>1. \A s \in SUBSET (1..n) : s # {} => Max(s) \in s
        BY Zenon, <1>1, MaxOf
      <3> QED
        BY <3>1 DEF Chooses
    <2>5. StepAlike(f, g, ch, 1..n)
      <3> HIDE DEF f, ch
      <3> QED
        BY <1>4, <2>1, <2>2 DEF StepAlike, GoesAlong
    <2> HIDE DEF f, With, n, ch
    <2> QED
      BY Zenon, <2>3, <2>4, <2>5, FoldIsOne
  <1> DEFINE h == [k \in 0..n |-> g[1..k]]
  <1>9. h \in [0..n -> ModelUsages] /\ h[0] = NoUsage
    <2> HIDE DEF n
    <2>1. 1..0 = {} /\ 0 \in 0..n
      BY <1>1
    <2> QED
      BY <1>1, <1>4, <2>1 DEF GoesAlong
  <1>10. ASSUME NEW k \in 1..n PROVE h[k] = With(k, h[k - 1])
    <2> HIDE DEF n, With
    <2>1. Max(1..k) = k /\ (1..k) \ {k} = 1..(k - 1) /\ 1..k # {} /\ 1..k \in SUBSET (1..n)
      <3>1. Max(1..k) = k /\ (1..k) \ {k} = 1..(k - 1)
        BY <1>1, MaxOfPrefix
      <3>2. k \in 1..k /\ \A j \in 1..k : j \in 1..n
        BY <1>1
      <3> QED
        BY <3>1, <3>2
    <2>2. g[1..k] = With(k, g[1..(k - 1)])
      BY Zenon, <1>5, <2>1
    <2> QED
      BY <1>1, <2>2
  <1>11. h[n] = Fold(items)
    <2> HIDE DEF f
    <2> QED
      BY <1>1, <1>8, MeterFunction DEF f
  <1> QED
    BY Zenon, <1>9, <1>10, <1>11

(* The meter of a fan-out is a usage.                                       *)
LEMMA FoldType ==
    ASSUME NEW items \in Seq(MeterItem)
    PROVE  Fold(items) \in ModelUsages
  <1>1. PICK h \in [0..Len(items) -> ModelUsages] : h[Len(items)] = Fold(items)
    BY MeterFold
  <1> QED
    BY <1>1

(* The meter of no response is empty.                                       *)
LEMMA FoldEmpty == Fold(<<>>) = NoUsage
  <1>1. <<>> \in Seq(MeterItem) /\ Len(<<>>) = 0
    OBVIOUS
  <1> QED
    BY Zenon, <1>1, MeterFold

(* One more response is added to what the others were folded to.            *)
LEMMA FoldAppend ==
    ASSUME NEW items \in Seq(MeterItem), NEW r \in MeterItem
    PROVE  Fold(Append(items, r)) = Add(Fold(items), r.model, r.in, r.out)
  <1> DEFINE n == Len(items)
             more == Append(items, r)
  <1>1. n \in Nat /\ more \in Seq(MeterItem) /\ Len(more) = n + 1 /\ more[n + 1] = r
        /\ \A k \in 1..n : more[k] = items[k]
    OBVIOUS
  <1> HIDE DEF more
  <1>2. PICK f \in [0..n -> ModelUsages] :
            /\ f[0] = NoUsage
            /\ \A k \in 1..n : f[k] = Add(f[k - 1], items[k].model, items[k].in, items[k].out)
            /\ f[n] = Fold(items)
    BY MeterFold
  <1>3. PICK g \in [0..(n + 1) -> ModelUsages] :
            /\ g[0] = NoUsage
            /\ \A k \in 1..(n + 1) : g[k] = Add(g[k - 1], more[k].model, more[k].in, more[k].out)
            /\ g[n + 1] = Fold(more)
    BY <1>1, MeterFold
  <1> HIDE DEF n
  <1>4. \A k \in 1..n : f[k - 1] = g[k - 1] => f[k] = g[k]
    <2> TAKE k \in 1..n
    <2>1. k \in 1..(n + 1) /\ more[k] = items[k]
      BY <1>1
    <2> QED
      BY <1>2, <1>3, <2>1
  <1>5. f[n] = g[n]
    <2>1. GoAlike(f, g, n)
      BY <1>2, <1>3, <1>4 DEF GoAlike
    <2> QED
      BY Zenon, <1>1, <2>1, SamePrefix
  <1>6. g[n + 1] = Add(g[(n + 1) - 1], more[n + 1].model, more[n + 1].in, more[n + 1].out)
    BY <1>1, <1>3
  <1>7. (n + 1) - 1 = n
    BY <1>1
  <1> QED
    BY <1>1, <1>2, <1>3, <1>5, <1>6, <1>7 DEF more

(* Usages that agree are one.                                               *)
LEMMA SameUsage ==
    ASSUME NEW u, NEW v, u = [n \in DOMAIN u |-> u[n]], v = [n \in DOMAIN v |-> v[n]],
           DOMAIN u = DOMAIN v, \A n \in DOMAIN u : u[n] = v[n]
    PROVE  u = v
  OBVIOUS

(* Merging a pass into an empty meter gives the pass.                       *)
LEMMA MergeNothing ==
    ASSUME NEW v \in ModelUsages
    PROVE  Merge(NoUsage, v) = v
  <1>1. ASSUME NEW n \in DOMAIN v
        PROVE  [in |-> SatAdd(UsageOf(NoUsage, n).in, UsageOf(v, n).in),
                out |-> SatAdd(UsageOf(NoUsage, n).out, UsageOf(v, n).out)] = v[n]
    <2>1. UsageOf(NoUsage, n) = [in |-> 0, out |-> 0] /\ UsageOf(v, n) = v[n] /\ v[n] \in Counts
      BY NoUsageType, UsageShape DEF UsageOf
    <2>2. v[n].in \in 0..UsageMax /\ v[n].out \in 0..UsageMax /\ v[n] = [in |-> v[n].in, out |-> v[n].out]
      BY <2>1 DEF Counts
    <2>3. SatAdd(0, v[n].in) = v[n].in /\ SatAdd(0, v[n].out) = v[n].out
      BY <2>2, SatAddZero
    <2> QED
      BY <2>1, <2>2, <2>3
  <1>2. v = [n \in DOMAIN v |-> v[n]]
    BY UsageShape
  <1>3. DOMAIN NoUsage \cup DOMAIN v = DOMAIN v
    BY NoUsageType
  <1>4. Merge(NoUsage, v) = [n \in DOMAIN v |-> v[n]]
    BY <1>1, <1>3 DEF Merge
  <1> QED
    BY <1>2, <1>4

(* A response is added on either side of a merge with the same result.      *)
LEMMA MergeAdd ==
    ASSUME NEW u \in ModelUsages, NEW v \in ModelUsages, NEW m \in Models, NEW in \in Nat, NEW out \in Nat
    PROVE  Merge(Add(u, m, in, out), v) = Add(Merge(u, v), m, in, out)
  <1> DEFINE a == Add(u, m, in, out)
             l == Merge(a, v)
             w == Merge(u, v)
             r == Add(w, m, in, out)
  <1>1. /\ a \in ModelUsages /\ DOMAIN a = DOMAIN u \cup {m}
        /\ a[m] = [in |-> SatAdd(UsageOf(u, m).in, in), out |-> SatAdd(UsageOf(u, m).out, out)]
        /\ \A n \in DOMAIN u : n # m => a[n] = u[n]
    <2>1. Metered(a, u, m, in, out)
      BY AddType
    <2> HIDE DEF a
    <2> QED
      BY <2>1, Zenon DEF Metered
  <1> HIDE DEF a
  <1>2. DOMAIN l = DOMAIN u \cup DOMAIN v \cup {m} /\ DOMAIN r = DOMAIN u \cup DOMAIN v \cup {m}
    BY <1>1 DEF Merge, Add
  <1>3. ASSUME NEW n \in DOMAIN l PROVE l[n] = r[n]
    <2>1. l[n] = [in |-> SatAdd(UsageOf(a, n).in, UsageOf(v, n).in),
                  out |-> SatAdd(UsageOf(a, n).out, UsageOf(v, n).out)]
      BY DEF Merge
    <2>2. /\ UsageOf(u, n).in \in Nat /\ UsageOf(u, n).out \in Nat
          /\ UsageOf(v, n).in \in 0..UsageMax /\ UsageOf(v, n).out \in 0..UsageMax
          /\ UsageOf(v, n).in \in Nat /\ UsageOf(v, n).out \in Nat
      BY UsageOfType DEF Counts
    <2>3. CASE n = m
      <3>1. UsageOf(a, n) = [in |-> SatAdd(UsageOf(u, n).in, in), out |-> SatAdd(UsageOf(u, n).out, out)]
        BY <1>1, <2>3 DEF UsageOf
      <3>2. r[n] = [in |-> SatAdd(UsageOf(w, n).in, in), out |-> SatAdd(UsageOf(w, n).out, out)]
        BY <1>2, <2>3 DEF Add
      <3>3. /\ UsageOf(w, n).in = SatAdd(UsageOf(u, n).in, UsageOf(v, n).in)
            /\ UsageOf(w, n).out = SatAdd(UsageOf(u, n).out, UsageOf(v, n).out)
        <4>1. CASE n \in DOMAIN u \cup DOMAIN v
          BY <4>1 DEF UsageOf, Merge
        <4>2. CASE n \notin DOMAIN u \cup DOMAIN v
          <5>1. UsageOf(w, n) = [in |-> 0, out |-> 0] /\ UsageOf(u, n) = [in |-> 0, out |-> 0]
                /\ UsageOf(v, n) = [in |-> 0, out |-> 0]
            BY <4>2 DEF UsageOf, Merge
          <5>2. SatAdd(0, 0) = 0
            BY SatAddZero, MeteringAssumption
          <5> QED
            BY <5>1, <5>2
        <4> QED
          BY <4>1, <4>2
      <3>4. /\ SatAdd(SatAdd(UsageOf(u, n).in, in), UsageOf(v, n).in) = SatAdd(SatAdd(UsageOf(u, n).in, UsageOf(v, n).in), in)
            /\ SatAdd(SatAdd(UsageOf(u, n).out, out), UsageOf(v, n).out) = SatAdd(SatAdd(UsageOf(u, n).out, UsageOf(v, n).out), out)
        BY <2>2, SatAddAssociates
      <3> QED
        BY <2>1, <3>1, <3>2, <3>3, <3>4
    <2>4. CASE n # m
      <3>1. n \in DOMAIN u \cup DOMAIN v
        BY <1>2, <2>4
      <3>2. UsageOf(a, n) = UsageOf(u, n)
        BY <1>1, <2>4 DEF UsageOf
      <3>3. r[n] = w[n]
        BY <1>2, <2>4 DEF Add
      <3>4. w[n] = [in |-> SatAdd(UsageOf(u, n).in, UsageOf(v, n).in),
                    out |-> SatAdd(UsageOf(u, n).out, UsageOf(v, n).out)]
        BY <3>1 DEF Merge
      <3> QED
        BY <2>1, <3>2, <3>3, <3>4
    <2> QED
      BY <2>3, <2>4
  <1>4. l = [n \in DOMAIN l |-> l[n]] /\ r = [n \in DOMAIN r |-> r[n]]
    BY DEF Merge, Add
  <1> HIDE DEF l, r
  <1>5. l = r
    BY <1>2, <1>3, <1>4, SameUsage
  <1> QED
    BY <1>5 DEF l, r, a, w

(* f sums the figures w of the sets within D, saturating.                   *)
SatSums(f, D, w) ==
    /\ f \in [SUBSET D -> 0..UsageMax]
    /\ f[{}] = 0
    /\ \A s \in SUBSET D : \A x \in s : f[s] = SatAdd(w[x], f[s \ {x}])

(* A saturated sum over a finite set exists.                                *)
LEMMA SatSumsExist ==
    ASSUME NEW D, IsFiniteSet(D), NEW w \in [D -> Nat]
    PROVE  \E f : SatSums(f, D, w)
  <1> DEFINE A == 0..UsageMax
             ch == [s \in SUBSET D |-> CHOOSE x \in s : TRUE]
             O == [x \in D |-> [n \in A |-> SatAdd(w[x], n)]]
  <1>1. 0 \in A /\ A \subseteq Nat /\ \A x \in D, n \in A : SatAdd(w[x], n) \in A
    <2>1. 0 \in A /\ A \subseteq Nat
      BY MeteringAssumption
    <2>2. ASSUME NEW x \in D, NEW n \in A PROVE SatAdd(w[x], n) \in A
      <3>1. w[x] \in Nat /\ n \in Nat
        BY <2>1
      <3> QED
        BY <3>1, SatAddType
    <2> QED
      BY <2>1, <2>2
  <1>2. O \in [D -> [A -> A]]
    <2> HIDE DEF A
    <2> QED
      BY <1>1
  <1>3. Chooses(ch, D)
    BY DEF Chooses
  <1>4. PICK f \in [SUBSET D -> A] : FoldsOver(f, O, 0, ch, D)
    <2> HIDE DEF A, O, ch
    <2> QED
      BY Zenon, <1>1, <1>2, <1>3, FoldExists
  <1>5. f[{}] = 0
    BY <1>4 DEF FoldsOver
  <1>6. ASSUME NEW s \in SUBSET D, s # {}
        PROVE  /\ ch[s] \in s /\ s \ {ch[s]} \in SUBSET D
               /\ f[s] = SatAdd(w[ch[s]], f[s \ {ch[s]}])
    <2>1. ch[s] \in s
      BY <1>3, <1>6 DEF Chooses
    <2>2. f[s] = O[ch[s]][f[s \ {ch[s]}]]
      BY Zenon, <1>4, <1>6 DEF FoldsOver
    <2>3. f[s \ {ch[s]}] \in A /\ ch[s] \in D
      BY <1>4, <2>1
    <2> HIDE DEF ch, A
    <2> QED
      BY <2>1, <2>2, <2>3
  <1> HIDE DEF ch, O, A
  <1> DEFINE B == {n \in Nat : \A s \in SUBSET D : Cardinality(s) = n =>
                        \A x \in s : f[s] = SatAdd(w[x], f[s \ {x}])}
  <1>7. \A s \in SUBSET D : IsFiniteSet(s) /\ Cardinality(s) \in Nat
    BY FS_Subset, FS_CardinalityType
  <1>8. 0 \in B
    <2>1. ASSUME NEW s \in SUBSET D, Cardinality(s) = 0 PROVE s = {}
      BY <1>7, <2>1, FS_EmptySet
    <2> QED
      BY <2>1
  <1>9. ASSUME NEW n \in Nat, n \in B PROVE n + 1 \in B
    <2>1. ASSUME NEW s \in SUBSET D, Cardinality(s) = n + 1, NEW x \in s
          PROVE  f[s] = SatAdd(w[x], f[s \ {x}])
      <3> DEFINE c == ch[s]
      <3>1. c \in s /\ f[s] = SatAdd(w[c], f[s \ {c}])
        BY Zenon, <1>6
      <3> HIDE DEF c
      <3>2. CASE x = c
        BY <3>1, <3>2
      <3>3. CASE x # c
        <4>1. /\ s \ {c} \in SUBSET D /\ s \ {x} \in SUBSET D /\ (s \ {c}) \ {x} \in SUBSET D
              /\ x \in s \ {c} /\ c \in s \ {x} /\ (s \ {c}) \ {x} = (s \ {x}) \ {c}
          BY <3>1, <3>3
        <4>2. Cardinality(s \ {c}) = Cardinality(s) - 1 /\ Cardinality(s \ {x}) = Cardinality(s) - 1
          BY <1>7, <3>1, FS_RemoveElement
        <4>3. Cardinality(s \ {c}) = n /\ Cardinality(s \ {x}) = n
          BY <2>1, <4>2
        <4>4. /\ f[s \ {c}] = SatAdd(w[x], f[(s \ {c}) \ {x}])
              /\ f[s \ {x}] = SatAdd(w[c], f[(s \ {x}) \ {c}])
          BY <1>9, <4>1, <4>3
        <4> DEFINE y == f[(s \ {c}) \ {x}]
        <4>5. y \in Nat /\ w[x] \in Nat /\ w[c] \in Nat
          BY Zenon, <1>1, <1>4, <3>1, <4>1
        <4> HIDE DEF y
        <4>6. SatAdd(w[c], SatAdd(w[x], y)) = SatAdd(w[x], SatAdd(w[c], y))
          BY <4>5, MeteringAssumption DEF SatAdd
        <4> QED
          BY Zenon, <3>1, <4>1, <4>4, <4>6 DEF y
      <3> QED
        BY <3>2, <3>3
    <2> QED
      BY <2>1
  <1> HIDE DEF B
  <1>10. Nat \subseteq B
    BY <1>8, <1>9, NumberInduction
  <1>11. \A s \in SUBSET D : \A x \in s : f[s] = SatAdd(w[x], f[s \ {x}])
    BY Zenon, <1>7, <1>10 DEF B
  <1> QED
    BY Zenon, <1>4, <1>5, <1>11 DEF SatSums, A

(* Sums of the same figures are the same.                                   *)
LEMMA SatSumsAgree ==
    ASSUME NEW D, NEW w, NEW f, SatSums(f, D, w),
           NEW E, NEW v, NEW g, SatSums(g, E, v),
           NEW S, IsFiniteSet(S), S \subseteq D, S \subseteq E, \A x \in S : w[x] = v[x]
    PROVE  f[S] = g[S]
  <1> DEFINE ch == [s \in SUBSET S |-> CHOOSE x \in s : TRUE]
  <1>1. \A s \in SUBSET S : s # {} => ch[s] \in s
    OBVIOUS
  <1> HIDE DEF ch
  <1>2. ASSUME NEW s \in SUBSET S, s # {}, f[s \ {ch[s]}] = g[s \ {ch[s]}] PROVE f[s] = g[s]
    <2>1. ch[s] \in s /\ s \in SUBSET D /\ s \in SUBSET E /\ w[ch[s]] = v[ch[s]]
      BY <1>1, <1>2
    <2> QED
      BY <1>2, <2>1 DEF SatSums
  <1>3. StepAlike(f, g, ch, S)
    BY <1>2 DEF StepAlike, SatSums
  <1>4. Chooses(ch, S)
    BY <1>1 DEF Chooses
  <1> QED
    BY <1>3, <1>4, FoldIsOne

(* What the models of a usage took in and gave out.                         *)
Ins(u) == [m \in DOMAIN u |-> u[m].in]
Outs(u) == [m \in DOMAIN u |-> u[m].out]

AddsIn(f, u) ==
    f = [s \in SUBSET DOMAIN u |->
            IF s = {} THEN 0
            ELSE SatAdd(u[CHOOSE x \in s : TRUE].in, f[s \ {CHOOSE x \in s : TRUE}])]
AddsOut(f, u) ==
    f = [s \in SUBSET DOMAIN u |->
            IF s = {} THEN 0
            ELSE SatAdd(u[CHOOSE x \in s : TRUE].out, f[s \ {CHOOSE x \in s : TRUE}])]

(* The totals of a usage, as the folds of its figures.                      *)
LEMMA TotalsFunction ==
    ASSUME NEW u
    PROVE  Totals(u) = [in |-> (CHOOSE f : AddsIn(f, u))[DOMAIN u],
                        out |-> (CHOOSE f : AddsOut(f, u))[DOMAIN u]]
  BY Zenon DEF Totals, FoldSet, MapThenFoldSet, AddsIn, AddsOut

(* The figures of a usage are numbers, one of each of its models.           *)
LEMMA FiguresType ==
    ASSUME NEW u \in ModelUsages
    PROVE  /\ Ins(u) \in [DOMAIN u -> Nat] /\ Outs(u) \in [DOMAIN u -> Nat]
           /\ IsFiniteSet(DOMAIN u)
           /\ \A m \in DOMAIN u : Ins(u)[m] = u[m].in /\ Outs(u)[m] = u[m].out
  <1>1. \A m \in DOMAIN u : u[m] \in Counts
    BY UsageShape
  <1> QED
    BY <1>1, UsageShape DEF Ins, Outs, Counts

(* The total input of a usage is any saturated sum of its models'.          *)
LEMMA AddedIn ==
    ASSUME NEW u \in ModelUsages, NEW g, SatSums(g, DOMAIN u, Ins(u))
    PROVE  (CHOOSE f : AddsIn(f, u))[DOMAIN u] = g[DOMAIN u]
  <1> DEFINE D == DOMAIN u
             ch == [s \in SUBSET D |-> CHOOSE x \in s : TRUE]
             f == CHOOSE f : AddsIn(f, u)
  <1>1. \A s \in SUBSET D : s # {} => (CHOOSE x \in s : TRUE) \in s
    OBVIOUS
  <1>2. ASSUME NEW s \in SUBSET D, s # {}
        PROVE  g[s] = SatAdd(u[CHOOSE x \in s : TRUE].in, g[s \ {CHOOSE x \in s : TRUE}])
    <2> DEFINE c == CHOOSE x \in s : TRUE
    <2>1. c \in s
      BY <1>2
    <2> HIDE DEF c
    <2>2. Ins(u)[c] = u[c].in
      BY <2>1, FiguresType
    <2>3. g[s] = SatAdd(Ins(u)[c], g[s \ {c}])
      BY <2>1 DEF SatSums
    <2>4. g[s] = SatAdd(u[c].in, g[s \ {c}])
      BY <2>2, <2>3
    <2> QED
      BY <2>4 DEF c
  <1>3. AddsIn(g, u)
    <2>1. g = [s \in SUBSET D |-> g[s]] /\ g[{}] = 0
      BY DEF SatSums
    <2> HIDE DEF D
    <2>2. g = [s \in SUBSET D |-> IF s = {} THEN 0
                    ELSE SatAdd(u[CHOOSE x \in s : TRUE].in, g[s \ {CHOOSE x \in s : TRUE}])]
      BY Zenon, <1>2, <2>1
    <2> QED
      BY <2>2, Zenon DEF AddsIn, D
  <1>4. AddsIn(f, u)
    BY <1>3
  <1>5. StepAlike(f, g, ch, D)
    <2> HIDE DEF f
    <2>1. f[{}] = 0 /\ g[{}] = 0
      BY <1>4 DEF AddsIn, SatSums
    <2>2. \A s \in SUBSET D : s # {} =>
              /\ ch[s] = CHOOSE x \in s : TRUE
              /\ f[s] = SatAdd(u[CHOOSE x \in s : TRUE].in, f[s \ {CHOOSE x \in s : TRUE}])
      BY <1>4 DEF AddsIn
    <2> HIDE DEF ch, D
    <2>3. ASSUME NEW s \in SUBSET D, s # {}, f[s \ {ch[s]}] = g[s \ {ch[s]}] PROVE f[s] = g[s]
      <3> DEFINE c == CHOOSE x \in s : TRUE
      <3>1. /\ ch[s] = c
            /\ f[s] = SatAdd(u[c].in, f[s \ {c}])
            /\ g[s] = SatAdd(u[c].in, g[s \ {c}])
        BY <1>2, <2>2, <2>3
      <3> HIDE DEF c
      <3> QED
        BY <2>3, <3>1
    <2> QED
      BY <2>1, <2>3 DEF StepAlike
  <1>6. Chooses(ch, D)
    BY <1>1 DEF Chooses
  <1> HIDE DEF ch, f
  <1>7. f[D] = g[D]
    BY <1>5, <1>6, FiguresType, FoldIsOne
  <1> QED
    BY <1>7 DEF f

(* The total output of a usage is any saturated sum of its models'.         *)
LEMMA AddedOut ==
    ASSUME NEW u \in ModelUsages, NEW g, SatSums(g, DOMAIN u, Outs(u))
    PROVE  (CHOOSE f : AddsOut(f, u))[DOMAIN u] = g[DOMAIN u]
  <1> DEFINE D == DOMAIN u
             ch == [s \in SUBSET D |-> CHOOSE x \in s : TRUE]
             f == CHOOSE f : AddsOut(f, u)
  <1>1. \A s \in SUBSET D : s # {} => (CHOOSE x \in s : TRUE) \in s
    OBVIOUS
  <1>2. ASSUME NEW s \in SUBSET D, s # {}
        PROVE  g[s] = SatAdd(u[CHOOSE x \in s : TRUE].out, g[s \ {CHOOSE x \in s : TRUE}])
    <2> DEFINE c == CHOOSE x \in s : TRUE
    <2>1. c \in s
      BY <1>2
    <2> HIDE DEF c
    <2>2. Outs(u)[c] = u[c].out
      BY <2>1, FiguresType
    <2>3. g[s] = SatAdd(Outs(u)[c], g[s \ {c}])
      BY <2>1 DEF SatSums
    <2>4. g[s] = SatAdd(u[c].out, g[s \ {c}])
      BY <2>2, <2>3
    <2> QED
      BY <2>4 DEF c
  <1>3. AddsOut(g, u)
    <2>1. g = [s \in SUBSET D |-> g[s]] /\ g[{}] = 0
      BY DEF SatSums
    <2> HIDE DEF D
    <2>2. g = [s \in SUBSET D |-> IF s = {} THEN 0
                    ELSE SatAdd(u[CHOOSE x \in s : TRUE].out, g[s \ {CHOOSE x \in s : TRUE}])]
      BY Zenon, <1>2, <2>1
    <2> QED
      BY <2>2, Zenon DEF AddsOut, D
  <1>4. AddsOut(f, u)
    BY <1>3
  <1>5. StepAlike(f, g, ch, D)
    <2> HIDE DEF f
    <2>1. f[{}] = 0 /\ g[{}] = 0
      BY <1>4 DEF AddsOut, SatSums
    <2>2. \A s \in SUBSET D : s # {} =>
              /\ ch[s] = CHOOSE x \in s : TRUE
              /\ f[s] = SatAdd(u[CHOOSE x \in s : TRUE].out, f[s \ {CHOOSE x \in s : TRUE}])
      BY <1>4 DEF AddsOut
    <2> HIDE DEF ch, D
    <2>3. ASSUME NEW s \in SUBSET D, s # {}, f[s \ {ch[s]}] = g[s \ {ch[s]}] PROVE f[s] = g[s]
      <3> DEFINE c == CHOOSE x \in s : TRUE
      <3>1. /\ ch[s] = c
            /\ f[s] = SatAdd(u[c].out, f[s \ {c}])
            /\ g[s] = SatAdd(u[c].out, g[s \ {c}])
        BY <1>2, <2>2, <2>3
      <3> HIDE DEF c
      <3> QED
        BY <2>3, <3>1
    <2> QED
      BY <2>1, <2>3 DEF StepAlike
  <1>6. Chooses(ch, D)
    BY <1>1 DEF Chooses
  <1> HIDE DEF ch, f
  <1>7. f[D] = g[D]
    BY <1>5, <1>6, FiguresType, FoldIsOne
  <1> QED
    BY <1>7 DEF f

(* The totals of a usage are the sums of its figures.                       *)
LEMMA TotalsAreSums ==
    ASSUME NEW u \in ModelUsages
    PROVE  /\ \E f : SatSums(f, DOMAIN u, Ins(u)) /\ Totals(u).in = f[DOMAIN u]
           /\ \E g : SatSums(g, DOMAIN u, Outs(u)) /\ Totals(u).out = g[DOMAIN u]
           /\ Totals(u) = [in |-> Totals(u).in, out |-> Totals(u).out]
           /\ Totals(u).in \in 0..UsageMax /\ Totals(u).out \in 0..UsageMax
  <1>1. /\ Totals(u).in = (CHOOSE f : AddsIn(f, u))[DOMAIN u]
        /\ Totals(u).out = (CHOOSE f : AddsOut(f, u))[DOMAIN u]
        /\ Totals(u) = [in |-> Totals(u).in, out |-> Totals(u).out]
    <2> DEFINE x == (CHOOSE f : AddsIn(f, u))[DOMAIN u]
               y == (CHOOSE f : AddsOut(f, u))[DOMAIN u]
    <2>1. Totals(u) = [in |-> x, out |-> y]
      BY TotalsFunction
    <2> HIDE DEF x, y
    <2>2. Totals(u).in = x /\ Totals(u).out = y
      BY <2>1
    <2>3. Totals(u) = [in |-> Totals(u).in, out |-> Totals(u).out]
      BY <2>1, <2>2
    <2> QED
      BY <2>2, <2>3 DEF x, y
  <1>2. PICK f : SatSums(f, DOMAIN u, Ins(u))
    BY FiguresType, SatSumsExist
  <1>3. PICK g : SatSums(g, DOMAIN u, Outs(u))
    BY FiguresType, SatSumsExist
  <1>4. Totals(u).in = f[DOMAIN u] /\ Totals(u).out = g[DOMAIN u]
    BY <1>1, <1>2, <1>3, AddedIn, AddedOut
  <1>5. f[DOMAIN u] \in 0..UsageMax /\ g[DOMAIN u] \in 0..UsageMax
    BY <1>2, <1>3 DEF SatSums
  <1> QED
    BY Zenon, <1>1, <1>2, <1>3, <1>4, <1>5

(* Nothing used sums to nothing.                                            *)
LEMMA TotalsNothing ==
    Totals(NoUsage).in = 0 /\ Totals(NoUsage).out = 0
  <1>1. PICK f : SatSums(f, DOMAIN NoUsage, Ins(NoUsage)) /\ Totals(NoUsage).in = f[DOMAIN NoUsage]
    BY NoUsageType, TotalsAreSums
  <1>2. PICK g : SatSums(g, DOMAIN NoUsage, Outs(NoUsage)) /\ Totals(NoUsage).out = g[DOMAIN NoUsage]
    BY NoUsageType, TotalsAreSums
  <1> QED
    BY <1>1, <1>2, NoUsageType DEF SatSums

(* The figures v are those of w on D with n more for m.                     *)
Gains(v, w, D, m, n) ==
    /\ v[m] = SatAdd(IF m \in D THEN w[m] ELSE 0, n)
    /\ \A x \in D : x # m => v[x] = w[x]

(* A response adds what it took to the sum of a usage it is metered into.   *)
LEMMA SumAdd ==
    ASSUME NEW D, IsFiniteSet(D), NEW w \in [D -> Nat], NEW f, SatSums(f, D, w),
           NEW m, NEW E, E = D \cup {m}, NEW v, NEW g, SatSums(g, E, v), NEW n \in Nat,
           Gains(v, w, D, m, n)
    PROVE  g[E] = SatAdd(f[D], n)
  <1> DEFINE S == D \ {m}
             old == IF m \in D THEN w[m] ELSE 0
  <1>1. IsFiniteSet(S) /\ S \subseteq D /\ S \subseteq E /\ E \ {m} = S
    BY FS_Subset
  <1>2. \A x \in S : w[x] = v[x]
    BY DEF Gains
  <1> HIDE DEF S
  <1>3. f[S] = g[S]
    BY <1>1, <1>2, SatSumsAgree
  <1>4. g[E] = SatAdd(v[m], g[S])
    BY Zenon, <1>1 DEF SatSums
  <1>5. f[S] \in 0..UsageMax /\ f[S] \in Nat
    BY <1>1, MeteringAssumption DEF SatSums
  <1>6. f[D] = SatAdd(old, f[S])
    <2>1. CASE m \in D
      BY <2>1 DEF SatSums, S
    <2>2. CASE m \notin D
      BY <1>5, <2>2, SatAddZero DEF S
    <2> QED
      BY <2>1, <2>2
  <1>7. old \in Nat
    OBVIOUS
  <1> HIDE DEF old
  <1>8. SatAdd(SatAdd(old, n), f[S]) = SatAdd(SatAdd(old, f[S]), n)
    BY <1>5, <1>7, SatAddAssociates
  <1>9. v[m] = SatAdd(old, n)
    BY DEF Gains, old
  <1> QED
    BY <1>3, <1>4, <1>6, <1>8, <1>9

(* Metering a response adds its tokens to the totals, up to saturation.     *)
LEMMA TotalsAdd ==
    ASSUME NEW u \in ModelUsages, NEW m \in Models, NEW in \in Nat, NEW out \in Nat, NEW a,
           Metered(a, u, m, in, out)
    PROVE  Totals(a).in = SatAdd(Totals(u).in, in) /\ Totals(a).out = SatAdd(Totals(u).out, out)
  <1>1. /\ a \in ModelUsages /\ DOMAIN a = DOMAIN u \cup {m}
        /\ a[m] = [in |-> SatAdd(UsageOf(u, m).in, in), out |-> SatAdd(UsageOf(u, m).out, out)]
        /\ \A n \in DOMAIN u : n # m => a[n] = u[n]
    BY Zenon DEF Metered
  <1>2. /\ Ins(u) \in [DOMAIN u -> Nat] /\ Ins(a) \in [DOMAIN u \cup {m} -> Nat]
        /\ Outs(u) \in [DOMAIN u -> Nat] /\ Outs(a) \in [DOMAIN u \cup {m} -> Nat]
        /\ IsFiniteSet(DOMAIN u)
    BY <1>1, FiguresType
  <1>3. Gains(Ins(a), Ins(u), DOMAIN u, m, in)
    BY <1>1, FiguresType DEF UsageOf, Gains
  <1>4. Gains(Outs(a), Outs(u), DOMAIN u, m, out)
    BY <1>1, FiguresType DEF UsageOf, Gains
  <1>5. PICK f : SatSums(f, DOMAIN u, Ins(u)) /\ Totals(u).in = f[DOMAIN u]
    BY TotalsAreSums
  <1>6. PICK g : SatSums(g, DOMAIN a, Ins(a)) /\ Totals(a).in = g[DOMAIN a]
    BY <1>1, TotalsAreSums
  <1>7. PICK h : SatSums(h, DOMAIN u, Outs(u)) /\ Totals(u).out = h[DOMAIN u]
    BY TotalsAreSums
  <1>8. PICK k : SatSums(k, DOMAIN a, Outs(a)) /\ Totals(a).out = k[DOMAIN a]
    BY <1>1, TotalsAreSums
  <1>9. DOMAIN a = DOMAIN u \cup {m}
    BY <1>1
  <1>10. g[DOMAIN a] = SatAdd(f[DOMAIN u], in)
    BY <1>2, <1>3, <1>5, <1>6, <1>9, SumAdd
  <1>11. k[DOMAIN a] = SatAdd(h[DOMAIN u], out)
    BY <1>2, <1>4, <1>7, <1>8, <1>9, SumAdd
  <1>12. Totals(a).in = SatAdd(Totals(u).in, in)
    BY <1>5, <1>6, <1>10
  <1>13. Totals(a).out = SatAdd(Totals(u).out, out)
    BY <1>7, <1>8, <1>11
  <1> QED
    BY <1>12, <1>13

(* The responses of a fan-out, all of them well formed.                     *)
MetersTyped == input.kind = "meters" => input.items \in Seq(MeterItem)

(* A response brings tokens of a model: the items stay well formed.         *)
LEMMA MetersTypedStep ==
    ASSUME Shape, MetersTyped, [InputNext]_input
    PROVE  MetersTyped'
  <1>1. SUFFICES ASSUME input'.kind = "meters" PROVE input'.items \in Seq(MeterItem)
    BY DEF MetersTyped
  <1>2. input.kind = "meters" /\ input.items \in Seq(MeterItem)
    BY <1>1, ShapeStep DEF MetersTyped
  <1>3. CASE UNCHANGED input
    BY <1>2, <1>3
  <1>4. CASE InputNext
    <2>1. PICK m \in Models, in, out \in Tokens : Grown("meters", [model |-> m, in |-> in, out |-> out])
      BY Zenon, <1>2, <1>4, KindStep DEF Meter
    <2>2. input'.items = Append(input.items, [model |-> m, in |-> in, out |-> out])
      BY <2>1, GrownKind
    <2> QED
      BY <1>2, <2>2 DEF MeterItem
  <1> QED
    BY <1>3, <1>4

(* Sequences of the same length and elements are the same.                  *)
LEMMA SameSeq ==
    ASSUME NEW S, NEW s \in Seq(S), NEW t \in Seq(S), Len(s) = Len(t), \A k \in 1..Len(s) : s[k] = t[k]
    PROVE  s = t
  <1> DEFINE n == Len(s)
  <1>1. s \in [1..n -> S] /\ t \in [1..n -> S]
    OBVIOUS
  <1>2. \A k \in 1..n : s[k] = t[k]
    OBVIOUS
  <1> HIDE DEF n
  <1>3. s = [k \in 1..n |-> s[k]] /\ t = [k \in 1..n |-> t[k]]
    BY Zenon, <1>1
  <1>4. [k \in 1..n |-> s[k]] = [k \in 1..n |-> t[k]]
    BY <1>2
  <1> QED
    BY <1>3, <1>4, Zenon

(* A run of a sequence that goes on by one.                                 *)
LEMMA LongerRun ==
    ASSUME NEW S, NEW s \in Seq(S), NEW i \in Nat, i >= 1, NEW j \in Nat, i <= j + 1, j + 1 <= Len(s)
    PROVE  /\ SubSeq(s, i, j) \in Seq(S)
           /\ s[j + 1] \in S
           /\ SubSeq(s, i, j + 1) = Append(SubSeq(s, i, j), s[j + 1])
  <1>1. SubSeq(s, i, j) \in Seq(S) /\ Len(SubSeq(s, i, j)) = (j - i) + 1
        /\ \A k \in 1..((j - i) + 1) : SubSeq(s, i, j)[k] = s[i + k - 1]
    OBVIOUS
  <1>2. SubSeq(s, i, j + 1) \in Seq(S) /\ Len(SubSeq(s, i, j + 1)) = (j - i) + 2
        /\ \A k \in 1..((j - i) + 2) : SubSeq(s, i, j + 1)[k] = s[i + k - 1]
    OBVIOUS
  <1>3. s[j + 1] \in S
    OBVIOUS
  <1> DEFINE t == SubSeq(s, i, j)
             u == SubSeq(s, i, j + 1)
  <1> HIDE DEF t, u
  <1>4. Append(t, s[j + 1]) \in Seq(S) /\ Len(Append(t, s[j + 1])) = (j - i) + 2
        /\ \A k \in 1..((j - i) + 1) : Append(t, s[j + 1])[k] = t[k]
        /\ Append(t, s[j + 1])[(j - i) + 2] = s[j + 1]
    BY <1>1, <1>3 DEF t
  <1>5. \A k \in 1..((j - i) + 2) : u[k] = Append(t, s[j + 1])[k]
    <2> TAKE k \in 1..((j - i) + 2)
    <2>1. u[k] = s[i + k - 1]
      BY <1>2 DEF u
    <2>2. CASE k = (j - i) + 2
      BY <1>4, <2>1, <2>2
    <2>3. CASE k # (j - i) + 2
      <3>1. k \in 1..((j - i) + 1)
        BY <2>3
      <3> QED
        BY <1>1, <1>4, <2>1, <3>1 DEF t
    <2> QED
      BY Zenon, <2>2, <2>3
  <1>6. u = Append(t, s[j + 1])
    <2> DEFINE v == Append(t, s[j + 1])
    <2>1. /\ u \in Seq(S) /\ v \in Seq(S) /\ Len(u) = Len(v) /\ Len(u) = (j - i) + 2
          /\ \A k \in 1..Len(u) : u[k] = v[k]
      BY <1>2, <1>4, <1>5 DEF u
    <2> HIDE DEF v
    <2>2. u = v
      BY Zenon, <2>1, SameSeq
    <2> QED
      BY <2>2 DEF v
  <1> QED
    BY Zenon, <1>1, <1>3, <1>6 DEF t, u

(* A run that ends before it starts is empty.                               *)
LEMMA EmptyRun ==
    ASSUME NEW S, NEW s \in Seq(S), NEW i \in Nat
    PROVE  SubSeq(s, i + 1, i) = <<>>
  OBVIOUS

(* The run from the first element to the last is the sequence.              *)
LEMMA WholeRun ==
    ASSUME NEW S, NEW s \in Seq(S)
    PROVE  SubSeq(s, 1, Len(s)) = s
  OBVIOUS

(* Wherever a fan-out is split, its two passes merge to the whole.          *)
LEMMA MergedPasses ==
    ASSUME NEW items \in Seq(MeterItem), NEW k \in 0..Len(items)
    PROVE  Merge(Fold(SubSeq(items, k + 1, Len(items))), Fold(SubSeq(items, 1, k))) = Fold(items)
  <1> DEFINE n == Len(items)
             Pass(i, j) == Fold(SubSeq(items, i, j))
             B == {j \in Nat : k <= j /\ j <= n => Merge(Pass(k + 1, j), Pass(1, k)) = Pass(1, j)}
  <1>1. n \in Nat /\ k \in Nat /\ k <= n
    OBVIOUS
  <1>2. \A i, j \in Nat : i >= 1 /\ i <= j + 1 /\ j <= n => SubSeq(items, i, j) \in Seq(MeterItem)
    OBVIOUS
  <1>3. \A i, j \in Nat : i >= 1 /\ i <= j + 1 /\ j <= n => Pass(i, j) \in ModelUsages
    BY Zenon, <1>2, FoldType
  <1>4. Merge(Pass(k + 1, k), Pass(1, k)) = Pass(1, k)
    <2>1. SubSeq(items, k + 1, k) = <<>>
      BY <1>1, EmptyRun
    <2>2. Pass(1, k) \in ModelUsages
      <3> HIDE DEF n, Pass
      <3> QED
        BY <1>1, <1>3
    <2> QED
      BY Zenon, <2>1, <2>2, FoldEmpty, MergeNothing
  <1>5. ASSUME NEW j \in Nat, j \in B PROVE j + 1 \in B
    <2>1. CASE k <= j /\ j + 1 <= n
      <3> DEFINE r == items[j + 1]
      <3>1. r \in MeterItem
        BY <1>1, <2>1
      <3>2. SubSeq(items, k + 1, j + 1) = Append(SubSeq(items, k + 1, j), r)
        BY <1>1, <2>1, LongerRun
      <3>3. SubSeq(items, 1, j + 1) = Append(SubSeq(items, 1, j), r)
        BY <1>1, <2>1, LongerRun
      <3>4. SubSeq(items, k + 1, j) \in Seq(MeterItem) /\ SubSeq(items, 1, j) \in Seq(MeterItem)
        BY <1>1, <2>1, <1>2
      <3>5. Pass(k + 1, j) \in ModelUsages /\ Pass(1, k) \in ModelUsages
        BY <1>1, <2>1, <1>3
      <3>6. r.model \in Models /\ r.in \in Nat /\ r.out \in Nat
        BY Zenon, <3>1, AlgorithmsAssumption DEF MeterItem
      <3> HIDE DEF r
      <3>7. Pass(k + 1, j + 1) = Add(Pass(k + 1, j), r.model, r.in, r.out)
        BY Zenon, <3>1, <3>2, <3>4, FoldAppend
      <3>8. Pass(1, j + 1) = Add(Pass(1, j), r.model, r.in, r.out)
        BY Zenon, <3>1, <3>3, <3>4, FoldAppend
      <3>9. Merge(Pass(k + 1, j), Pass(1, k)) = Pass(1, j)
        BY <1>5, <2>1, <1>1
      <3> HIDE DEF Pass
      <3> QED
        BY <3>5, <3>6, <3>7, <3>8, <3>9, MergeAdd
    <2>2. CASE ~(k <= j) /\ k <= j + 1
      <3>1. k = j + 1
        BY <1>1, <2>2
      <3> HIDE DEF Pass
      <3> QED
        BY <1>4, <3>1
    <2>3. CASE ~(k <= j + 1) \/ ~(j + 1 <= n)
      BY <2>3
    <2> QED
      BY <2>1, <2>2, <2>3
  <1>6. 0 \in B
    <2>1. k <= 0 => k = 0
      BY <1>1
    <2> HIDE DEF Pass
    <2> QED
      BY <1>4, <2>1
  <1> HIDE DEF B
  <1>7. n \in B
    BY <1>1, <1>5, <1>6, NumberInduction
  <1>8. Merge(Pass(k + 1, n), Pass(1, k)) = Pass(1, n)
    <2> HIDE DEF Pass, n
    <2> QED
      BY <1>1, <1>7 DEF B
  <1> QED
    BY Zenon, <1>8, WholeRun

Capped(n) == IF n > UsageMax THEN UsageMax ELSE n

(* f adds up what the responses of some places took, the last of them last. *)
SumsOver(f, items) ==
    f = [s \in SUBSET DOMAIN items |-> IF s = {} THEN 0 ELSE f[s \ {Max(s)}] + items[Max(s)].in]

TakenIn(items) == FoldLeft(LAMBDA n, r : n + r.in, 0, items)

(* The sum of the input tokens taken, as the fold of the responses.         *)
LEMMA TakenFunction ==
    ASSUME NEW items
    PROVE  TakenIn(items) = (CHOOSE f : SumsOver(f, items))[DOMAIN items]
  BY DEF TakenIn, FoldLeft, MapThenFoldSet, SumsOver

(* Adding up responses goes along them.                                     *)
LEMMA SumFold ==
    ASSUME NEW items \in Seq(MeterItem)
    PROVE  \E h \in [0..Len(items) -> Nat] :
              /\ h[0] = 0
              /\ \A k \in 1..Len(items) : h[k] = h[k - 1] + items[k].in
              /\ h[Len(items)] = TakenIn(items)
  <1> DEFINE n == Len(items)
             With(i, u) == u + items[i].in
             O == [i \in 1..n |-> [u \in Nat |-> With(i, u)]]
             ch == [s \in SUBSET (1..n) |-> Max(s)]
  <1>1. n \in Nat /\ DOMAIN items = 1..n
    OBVIOUS
  <1>2. \A i \in 1..n : items[i].in \in Nat
    <2>1. \A i \in 1..n : items[i] \in MeterItem
      OBVIOUS
    <2> QED
      BY Zenon, <2>1, AlgorithmsAssumption DEF MeterItem
  <1>3. O \in [1..n -> [Nat -> Nat]]
    <2>1. \A i \in 1..n : \A u \in Nat : With(i, u) \in Nat
      BY <1>2
    <2> HIDE DEF With
    <2> QED
      BY Zenon, <2>1
  <1>4. PICK g \in [SUBSET (1..n) -> Nat] : GoesAlong(g, O, 0, n)
    <2> HIDE DEF O, n, With, ch
    <2> QED
      BY Zenon, <1>1, <1>3, PrefixFold
  <1>5. ASSUME NEW s \in SUBSET (1..n), s # {}
        PROVE  Max(s) \in 1..n /\ g[s \ {Max(s)}] \in Nat /\ g[s] = With(Max(s), g[s \ {Max(s)}])
    <2>1. Max(s) \in s
      BY Zenon, <1>1, <1>5, MaxOf
    <2>2. s \ {Max(s)} \in SUBSET (1..n)
      BY Zenon
    <2> HIDE DEF With, n
    <2> QED
      BY Zenon, <1>4, <1>5, <2>1, <2>2 DEF GoesAlong
  <1>6. SumsOver(g, items)
    <2>1. \A s \in SUBSET (1..n) : g[s] = IF s = {} THEN 0 ELSE With(Max(s), g[s \ {Max(s)}])
      BY Zenon, <1>4, <1>5 DEF GoesAlong
    <2>2. g = [s \in SUBSET (1..n) |-> IF s = {} THEN 0 ELSE With(Max(s), g[s \ {Max(s)}])]
      <3> HIDE DEF With, n
      <3> QED
        BY Zenon, <1>4, <2>1
    <2> QED
      BY Zenon, <1>1, <2>2 DEF SumsOver
  <1> DEFINE f == CHOOSE f : SumsOver(f, items)
  <1>7. SumsOver(f, items)
    BY <1>6
  <1>8. f[1..n] = g[1..n]
    <2>1. f[{}] = 0 /\ \A s \in SUBSET (1..n) : s # {} => f[s] = With(Max(s), f[s \ {Max(s)}])
      <3> HIDE DEF f
      <3> QED
        BY Zenon, <1>1, <1>7 DEF SumsOver
    <2>2. \A s \in SUBSET (1..n) : s # {} /\ f[s \ {ch[s]}] = g[s \ {ch[s]}] => f[s] = g[s]
      <3> HIDE DEF f, With, n
      <3> QED
        BY Zenon, <1>5, <2>1
    <2>3. IsFiniteSet(1..n)
      BY <1>1, FS_Interval
    <2>4. Chooses(ch, 1..n)
      <3> HIDE DEF n
      <3>1. \A s \in SUBSET (1..n) : s # {} => Max(s) \in s
        BY Zenon, <1>1, MaxOf
      <3> QED
        BY <3>1 DEF Chooses
    <2>5. StepAlike(f, g, ch, 1..n)
      <3> HIDE DEF f, ch
      <3> QED
        BY Zenon, <1>4, <2>1, <2>2 DEF StepAlike, GoesAlong
    <2> HIDE DEF f, With, n, ch
    <2> QED
      BY Zenon, <2>3, <2>4, <2>5, FoldIsOne
  <1> DEFINE h == [k \in 0..n |-> g[1..k]]
  <1>9. h \in [0..n -> Nat] /\ h[0] = 0
    <2> HIDE DEF n
    <2>1. 1..0 = {} /\ 0 \in 0..n
      BY <1>1
    <2> QED
      BY <1>1, <1>4, <2>1 DEF GoesAlong
  <1>10. ASSUME NEW k \in 1..n PROVE h[k] = With(k, h[k - 1])
    <2> HIDE DEF n, With
    <2>1. Max(1..k) = k /\ (1..k) \ {k} = 1..(k - 1) /\ 1..k # {} /\ 1..k \in SUBSET (1..n)
      <3>1. Max(1..k) = k /\ (1..k) \ {k} = 1..(k - 1)
        BY <1>1, MaxOfPrefix
      <3>2. k \in 1..k /\ \A j \in 1..k : j \in 1..n
        BY <1>1
      <3> QED
        BY <3>1, <3>2
    <2>2. g[1..k] = With(k, g[1..(k - 1)])
      BY Zenon, <1>5, <2>1
    <2> QED
      BY <1>1, <2>2
  <1>11. h[n] = TakenIn(items)
    <2> HIDE DEF f
    <2> QED
      BY <1>1, <1>8, TakenFunction DEF f
  <1> QED
    BY Zenon, <1>9, <1>10, <1>11

(* A fan-out took what its responses took, up to saturation, and has used   *)
(* the models that answered.                                                *)
LEMMA FoldCounts ==
    ASSUME NEW items \in Seq(MeterItem)
    PROVE  /\ Totals(Fold(items)).in = Capped(TakenIn(items))
           /\ DOMAIN Fold(items) = {items[k].model : k \in DOMAIN items}
  <1> DEFINE n == Len(items)
  <1>1. n \in Nat /\ DOMAIN items = 1..n
    OBVIOUS
  <1>2. \A i \in 1..n : items[i].model \in Models /\ items[i].in \in Nat /\ items[i].out \in Nat
    <2>1. \A i \in 1..n : items[i] \in MeterItem
      OBVIOUS
    <2> QED
      BY Zenon, <2>1, AlgorithmsAssumption DEF MeterItem
  <1>3. PICK f \in [0..n -> ModelUsages] :
            /\ f[0] = NoUsage
            /\ \A k \in 1..n : f[k] = Add(f[k - 1], items[k].model, items[k].in, items[k].out)
            /\ f[n] = Fold(items)
    BY MeterFold
  <1>4. PICK h \in [0..n -> Nat] :
            /\ h[0] = 0
            /\ \A k \in 1..n : h[k] = h[k - 1] + items[k].in
            /\ h[n] = TakenIn(items)
    BY SumFold
  <1> HIDE DEF n
  <1> DEFINE B == {k \in Nat : k <= n => /\ Totals(f[k]).in = Capped(h[k])
                                         /\ DOMAIN f[k] = {items[j].model : j \in 1..k}}
  <1>5. 0 \in B
    BY <1>3, <1>4, TotalsNothing, NoUsageType, MeteringAssumption DEF Capped
  <1>6. ASSUME NEW k \in Nat, k \in B PROVE k + 1 \in B
    <2>1. CASE k + 1 <= n
      <3>1. k + 1 \in 1..n /\ (k + 1) - 1 = k /\ k \in 0..n /\ k <= n
        BY <1>1, <2>1
      <3> DEFINE r == items[k + 1]
      <3>2. f[k + 1] = Add(f[k], r.model, r.in, r.out) /\ h[k + 1] = h[k] + r.in
        BY <1>3, <1>4, <3>1
      <3>3. f[k] \in ModelUsages /\ h[k] \in Nat /\ r.model \in Models /\ r.in \in Nat /\ r.out \in Nat
        BY Zenon, <1>2, <1>3, <1>4, <3>1
      <3>4. Totals(f[k]).in = Capped(h[k]) /\ DOMAIN f[k] = {items[j].model : j \in 1..k}
        BY <1>6, <3>1
      <3>5. Metered(f[k + 1], f[k], r.model, r.in, r.out)
        <4> HIDE DEF r
        <4> QED
          BY <3>2, <3>3, AddType
      <3>6. DOMAIN f[k + 1] = DOMAIN f[k] \cup {r.model}
        BY <3>5, Zenon DEF Metered
      <3>7. {items[j].model : j \in 1..(k + 1)} = {items[j].model : j \in 1..k} \cup {r.model}
        <4>1. 1..(k + 1) = (1..k) \cup {k + 1}
          OBVIOUS
        <4> QED
          BY <4>1
      <3> HIDE DEF r
      <3>8. Totals(f[k + 1]).in = SatAdd(Totals(f[k]).in, r.in)
        BY <3>3, <3>5, TotalsAdd
      <3>9. SatAdd(Capped(h[k]), r.in) = Capped(h[k] + r.in)
        BY <3>3, MeteringAssumption DEF SatAdd, Capped
      <3>10. Totals(f[k + 1]).in = Capped(h[k + 1])
        BY <3>2, <3>4, <3>8, <3>9
      <3>11. DOMAIN f[k + 1] = {items[j].model : j \in 1..(k + 1)}
        BY Zenon, <3>4, <3>6, <3>7
      <3> QED
        BY <3>10, <3>11
    <2>2. CASE ~(k + 1 <= n)
      BY <2>2
    <2> QED
      BY <2>1, <2>2
  <1> HIDE DEF B
  <1>7. n \in B
    BY Zenon, <1>1, <1>5, <1>6, NumberInduction
  <1>8. Totals(f[n]).in = Capped(h[n]) /\ DOMAIN f[n] = {items[j].model : j \in 1..n}
    BY <1>1, <1>7 DEF B
  <1> QED
    BY <1>1, <1>3, <1>4, <1>8

(* Of the models used one used most, or the first of those that did.        *)
LEMMA OneDominates ==
    ASSUME NEW u \in ModelUsages, DOMAIN u # {}
    PROVE  \E d \in DOMAIN u : Dominant(u) = {d}
  <1> DEFINE Used(m) == SatAdd(u[m].in, u[m].out)
             D == DOMAIN u
             T == {UsageMax - Used(m) : m \in D}
  <1>1. D \subseteq Nat /\ D # {}
    BY UsageShape, MeteringAssumption
  <1>2. \A m \in D : Used(m) \in 0..UsageMax
    <2> TAKE m \in D
    <2>1. u[m] \in Counts
      BY UsageShape
    <2>2. u[m].in \in Nat /\ u[m].out \in Nat
      BY <2>1 DEF Counts
    <2> QED
      BY Zenon, <2>2, SatAddType
  <1>3. Dominant(u) = {m \in D : \A n \in D : Used(n) < Used(m) \/ (Used(n) = Used(m) /\ m <= n)}
    BY DEF Dominant
  <1> HIDE DEF Used, D
  <1>4. T \in SUBSET Nat /\ T # {}
    <2>1. \A m \in D : UsageMax - Used(m) \in Nat
      BY <1>2, MeteringAssumption
    <2> QED
      BY Zenon, <1>1, <2>1
  <1>5. PICK t \in T : \A s \in T : t <= s
    BY Zenon, <1>4, LeastNumber
  <1>6. PICK m \in D : t = UsageMax - Used(m)
    OBVIOUS
  <1>7. \A n \in D : Used(n) <= Used(m)
    <2> TAKE n \in D
    <2>1. t <= UsageMax - Used(n)
      BY <1>5
    <2> QED
      BY <1>2, <1>6, <2>1, MeteringAssumption
  <1> DEFINE E == {n \in D : Used(n) = Used(m)}
  <1>8. E \in SUBSET Nat /\ E # {}
    BY Zenon, <1>1
  <1>9. PICK d \in E : \A n \in E : d <= n
    BY Zenon, <1>8, LeastNumber
  <1>10. d \in D /\ Used(d) = Used(m) /\ \A n \in D : Used(n) = Used(m) => d <= n
    BY <1>9
  <1>11. d \in Dominant(u)
    <2>1. \A n \in D : Used(n) < Used(d) \/ (Used(n) = Used(d) /\ d <= n)
      <3> TAKE n \in D
      <3>1. Used(n) <= Used(m) /\ Used(n) \in Nat /\ Used(m) \in Nat
        BY <1>2, <1>7, MeteringAssumption
      <3> QED
        BY <1>10, <3>1
    <2> QED
      BY <1>3, <1>10, <2>1
  <1>12. ASSUME NEW e \in Dominant(u) PROVE e = d
    <2>1. /\ e \in D
          /\ Used(d) < Used(e) \/ (Used(d) = Used(e) /\ e <= d)
          /\ Used(e) < Used(d) \/ (Used(e) = Used(d) /\ d <= e)
      BY <1>3, <1>10, <1>11
    <2>2. Used(d) \in Nat /\ Used(e) \in Nat /\ d \in Nat /\ e \in Nat
      BY <1>1, <1>2, <1>10, <2>1, MeteringAssumption
    <2> QED
      BY <2>1, <2>2
  <1>13. Dominant(u) = {d}
    BY <1>11, <1>12
  <1> QED
    BY <1>10, <1>13 DEF D

(* The meters add up for every well-formed fan-out.                         *)
LEMMA MetersTypedCommute ==
    ASSUME MetersTyped
    PROVE  MetersCommute
  <1> SUFFICES ASSUME input.kind = "meters" PROVE MetersCommute
    BY Zenon DEF MetersCommute
  <1> DEFINE items == input.items
             u == Fold(items)
             entry == Recorded(u, 0)
  <1>1. items \in Seq(MeterItem)
    BY DEF MetersTyped
  <1> HIDE DEF items
  <1>2. u \in ModelUsages
    BY <1>1, FoldType
  <1>3. Totals(u).in = Capped(TakenIn(items)) /\ DOMAIN u = {items[k].model : k \in DOMAIN items}
    BY Zenon, <1>1, FoldCounts
  <1>4. \A k \in 0..Len(items) :
           Recorded(Merge(Fold(SubSeq(items, k + 1, Len(items))), Fold(SubSeq(items, 1, k))), 0) = entry
    BY <1>1, MergedPasses
  <1>5. /\ entry.in = Totals(u).in
        /\ entry.models = DOMAIN u
        /\ entry.model = IF u = NoUsage THEN 0 ELSE CHOOSE m \in Dominant(u) : TRUE
    <2> HIDE DEF u
    <2> QED
      BY DEF Recorded
  <1>6. ASSUME items # <<>>
        PROVE  Cardinality(Dominant(u)) = 1 /\ entry.model \in entry.models
    <2>1. 1 \in DOMAIN items
      BY <1>1, <1>6
    <2>2. DOMAIN u # {}
      BY <1>3, <2>1
    <2> HIDE DEF u, entry
    <2>3. PICK d \in DOMAIN u : Dominant(u) = {d}
      BY <1>2, <2>2, OneDominates
    <2>4. u # NoUsage
      BY <2>2, NoUsageType
    <2>5. (CHOOSE m \in Dominant(u) : TRUE) = d
      BY <2>3
    <2>6. Cardinality(Dominant(u)) = 1
      BY <2>3, FS_Singleton
    <2> QED
      BY <1>5, <2>3, <2>4, <2>5, <2>6
  <1> HIDE DEF u
  <1> QED
    BY <1>3, <1>4, <1>5, <1>6, Zenon DEF MetersCommute, TakenIn, Capped, items, u

(* The meters of a fan-out add up however its passes are folded.            *)
THEOREM MetersAddUp == InputSpec => []MetersCommute
  <1>1. InputInit => MetersTyped
    <2> SUFFICES ASSUME InputInit PROVE MetersTyped
      OBVIOUS
    <2>1. input.items = <<>>
      BY ShapeInit
    <2>2. <<>> \in Seq(MeterItem)
      OBVIOUS
    <2> QED
      BY <2>1, <2>2 DEF MetersTyped
  <1>2. Shape /\ MetersTyped /\ [InputNext]_input => MetersTyped'
    BY MetersTypedStep
  <1>3. InputInit => Shape
    BY ShapeInit
  <1>4. Shape /\ [InputNext]_input => Shape'
    BY ShapeStep
  <1>5. MetersTyped => MetersCommute
    BY MetersTypedCommute
  <1> QED
    BY <1>1, <1>2, <1>3, <1>4, <1>5, PTL DEF InputSpec

-----------------------------------------------------------------------------
(* Places.  An order R of a finite set gives each element its place, how    *)
(* many come before it.                                                     *)
Orders(R, S) ==
    /\ \A x \in S : <<x, x>> \notin R
    /\ \A x \in S : \A y \in S : x # y => <<x, y>> \in R \/ <<y, x>> \in R
    /\ \A x \in S : \A y \in S : \A z \in S : <<x, y>> \in R /\ <<y, z>> \in R => <<x, z>> \in R

Earlier(R, S, x) == {y \in S : <<y, x>> \in R}
PlaceIn(R, S, x) == Cardinality(Earlier(R, S, x))

(* A place is a number less than how many there are.                        *)
LEMMA PlaceType ==
    ASSUME NEW S, IsFiniteSet(S), NEW R, Orders(R, S), NEW x \in S
    PROVE  PlaceIn(R, S, x) \in 0..(Cardinality(S) - 1)
  <1> DEFINE E == Earlier(R, S, x)
  <1>1. E \in SUBSET S /\ x \notin E
    BY DEF Earlier, Orders
  <1> HIDE DEF E
  <1>2. IsFiniteSet(E) /\ Cardinality(E) <= Cardinality(S) /\ Cardinality(E) # Cardinality(S)
    BY <1>1, FS_Subset
  <1>3. Cardinality(E) \in Nat /\ Cardinality(S) \in Nat
    BY <1>2, FS_CardinalityType
  <1> QED
    BY <1>2, <1>3 DEF PlaceIn, E

(* What comes before has the smaller place.                                 *)
LEMMA PlaceGrows ==
    ASSUME NEW S, IsFiniteSet(S), NEW R, Orders(R, S), NEW x \in S, NEW y \in S, <<x, y>> \in R
    PROVE  PlaceIn(R, S, x) < PlaceIn(R, S, y)
  <1> DEFINE E == Earlier(R, S, x)
             F == Earlier(R, S, y)
  <1>1. E \in SUBSET F /\ F \in SUBSET S /\ x \in F /\ x \notin E
    BY DEF Earlier, Orders
  <1> HIDE DEF E, F
  <1>2. IsFiniteSet(F)
    BY <1>1, FS_Subset
  <1>3. IsFiniteSet(E) /\ Cardinality(E) <= Cardinality(F) /\ Cardinality(E) # Cardinality(F)
    BY <1>1, <1>2, FS_Subset
  <1>4. Cardinality(E) \in Nat /\ Cardinality(F) \in Nat
    BY <1>2, <1>3, FS_CardinalityType
  <1> QED
    BY <1>3, <1>4 DEF PlaceIn, E, F

(* The smaller place is that of what comes before.                          *)
LEMMA PlaceOrders ==
    ASSUME NEW S, IsFiniteSet(S), NEW R, Orders(R, S), NEW x \in S, NEW y \in S
    PROVE  /\ PlaceIn(R, S, x) < PlaceIn(R, S, y) <=> <<x, y>> \in R
           /\ PlaceIn(R, S, x) = PlaceIn(R, S, y) => x = y
  <1>1. PlaceIn(R, S, x) \in Nat /\ PlaceIn(R, S, y) \in Nat
    <2>1. Cardinality(S) \in Nat
      BY FS_CardinalityType
    <2> QED
      BY <2>1, PlaceType
  <1>2. x = y \/ <<x, y>> \in R \/ <<y, x>> \in R
    BY DEF Orders
  <1>3. <<x, y>> \in R => PlaceIn(R, S, x) < PlaceIn(R, S, y)
    BY PlaceGrows
  <1>4. <<y, x>> \in R => PlaceIn(R, S, y) < PlaceIn(R, S, x)
    BY PlaceGrows
  <1> QED
    BY <1>1, <1>2, <1>3, <1>4

(* Every place is one element's.                                            *)
IsPlace(R, S, k) == \E x \in S : PlaceIn(R, S, x) = k

(* An order of finitely many elements leaves no place empty.                *)
LEMMA EveryPlace ==
    ASSUME NEW S, IsFiniteSet(S), NEW R, Orders(R, S), NEW k \in Nat, k < Cardinality(S)
    PROVE  IsPlace(R, S, k)
  <1> DEFINE n == Cardinality(S)
             T == 0..(n - 1)
             f == [x \in S |-> PlaceIn(R, S, x)]
  <1>1. n \in Nat
    BY FS_CardinalityType
  <1> HIDE DEF n
  <1>2. IsFiniteSet(T) /\ Cardinality(T) = n
    BY <1>1, FS_Interval
  <1>3. \A x \in S : PlaceIn(R, S, x) \in T
    BY PlaceType DEF n
  <1> HIDE DEF T
  <1>4. f \in [S -> T]
    BY <1>3
  <1>5. \A x, y \in S : f[x] = f[y] => x = y
    BY Zenon, PlaceOrders
  <1> HIDE DEF f
  <1>6. f \in Injection(S, T)
    BY <1>4, <1>5 DEF Injection, IsInjective
  <1>7. f \in Surjection(S, T)
    BY <1>2, <1>6, FS_Injection DEF n
  <1>8. k \in T
    BY <1>1 DEF T, n
  <1>9. PICK x \in S : f[x] = k
    BY <1>7, <1>8 DEF Surjection
  <1> QED
    BY <1>9 DEF f, IsPlace

(* The pairs of places in their order.                                      *)
InOrder(P) == {p \in P \X P : p[1] < p[2]}

(* Numbers are in order, and before one come the lesser ones.               *)
LEMMA NumbersInOrder ==
    ASSUME NEW P \in SUBSET Nat
    PROVE  /\ Orders(InOrder(P), P)
           /\ \A x \in P : Earlier(InOrder(P), P, x) = {y \in P : y < x}
  <1>1. \A x, y \in P : <<x, y>> \in InOrder(P) <=> x < y
    BY DEF InOrder
  <1>2. \A x \in P : x \in Nat
    OBVIOUS
  <1> DEFINE R == InOrder(P)
  <1>3. \A x \in P : <<x, x>> \notin R
    BY <1>1, <1>2
  <1>4. \A x \in P : \A y \in P : x # y => <<x, y>> \in R \/ <<y, x>> \in R
    BY <1>1, <1>2
  <1>5. \A x \in P : \A y \in P : \A z \in P : <<x, y>> \in R /\ <<y, z>> \in R => <<x, z>> \in R
    BY <1>1, <1>2
  <1>6. \A x \in P : Earlier(R, P, x) = {y \in P : y < x}
    BY Zenon, <1>1 DEF Earlier
  <1> HIDE DEF R
  <1>7. Orders(R, P)
    BY <1>3, <1>4, <1>5 DEF Orders
  <1> QED
    BY <1>6, <1>7 DEF R

IsAt(x, s, P) == \E i \in P : x = s[i]

(* What a filter keeps is at one of the places it keeps.                    *)
LEMMA PickedItem ==
    ASSUME NEW P \in SUBSET Nat, IsFiniteSet(P), NEW s, NEW k \in 1..Cardinality(P)
    PROVE  IsAt(Picked(s, P)[k], s, P)
  <1> DEFINE R == InOrder(P)
             HasPlace(i) == Cardinality({j \in P : j < i}) = k - 1
  <1>1. Cardinality(P) \in Nat
    BY FS_CardinalityType
  <1>2. k - 1 \in Nat /\ k - 1 < Cardinality(P)
    BY <1>1
  <1>3. Orders(R, P)
    BY NumbersInOrder
  <1>4. PICK x \in P : PlaceIn(R, P, x) = k - 1
    <2> DEFINE n == k - 1
    <2>1. n \in Nat /\ n < Cardinality(P)
      BY <1>2
    <2> HIDE DEF R, HasPlace, n
    <2>2. IsPlace(R, P, n)
      BY <1>3, <2>1, EveryPlace
    <2> QED
      BY <2>2 DEF n, IsPlace
  <1>5. HasPlace(x)
    BY <1>4, NumbersInOrder DEF PlaceIn
  <1> DEFINE i == CHOOSE i \in P : HasPlace(i)
  <1>6. i \in P
    BY <1>5
  <1>7. Picked(s, P)[k] = s[i]
    BY DEF Picked
  <1> HIDE DEF i
  <1> QED
    BY <1>6, <1>7 DEF IsAt

(* A filter keeps as many elements as places.                               *)
LEMMA PickedDomain ==
    ASSUME NEW P \in SUBSET Nat, IsFiniteSet(P), NEW s
    PROVE  DOMAIN Picked(s, P) = 1..Cardinality(P)
  BY DEF Picked

-----------------------------------------------------------------------------
(* The rows of the database.                                                *)

(* The rows of a usage's column are those of its models, one of each.       *)
LEMMA UsageRows ==
    ASSUME NEW u \in ModelUsages
    PROVE  /\ IsFiniteSet(EncodeUsage(u))
           /\ \A r \in EncodeUsage(u) :
                /\ r.model \in DOMAIN u
                /\ r.in = u[r.model].in /\ r.out = u[r.model].out
                /\ \A q \in EncodeUsage(u) : q.model = r.model => q = r
           /\ \A m \in DOMAIN u : \E r \in EncodeUsage(u) : r.model = m
           /\ EncodeUsage(u) = {} <=> u = NoUsage
  <1> DEFINE E == EncodeUsage(u)
             Row(m) == [model |-> m, in |-> u[m].in, out |-> u[m].out]
  <1>1. E = {Row(m) : m \in DOMAIN u}
    BY DEF EncodeUsage
  <1>2. \A m \in DOMAIN u : Row(m).model = m /\ Row(m).in = u[m].in /\ Row(m).out = u[m].out
    OBVIOUS
  <1> HIDE DEF Row, E
  <1>3. \A r \in E : r.model \in DOMAIN u /\ r = Row(r.model)
    BY <1>1, <1>2
  <1> DEFINE f == [r \in E |-> r.model]
  <1>4. f \in Injection(E, DOMAIN u)
    <2>1. f \in [E -> DOMAIN u]
      BY <1>3
    <2>2. \A r, q \in E : f[r] = f[q] => r = q
      BY <1>3
    <2> HIDE DEF f
    <2> QED
      BY <2>1, <2>2 DEF Injection, IsInjective
  <1>5. IsFiniteSet(E)
    <2> HIDE DEF f
    <2> QED
      BY <1>4, UsageShape, FS_Injection
  <1>6. E = {} <=> u = NoUsage
    <2>1. E = {} <=> DOMAIN u = {}
      BY Zenon, <1>1
    <2>2. ASSUME DOMAIN u = {} PROVE u = NoUsage
      <3>1. u = [m \in DOMAIN u |-> u[m]] /\ NoUsage = [m \in DOMAIN NoUsage |-> NoUsage[m]]
        BY UsageShape, NoUsageType
      <3> QED
        BY <2>2, <3>1, NoUsageType, SameUsage
    <2> QED
      BY <2>1, <2>2, NoUsageType
  <1>7. \A r \in E : r.in = u[r.model].in /\ r.out = u[r.model].out
    BY <1>2, <1>3
  <1>8. \A r, q \in E : q.model = r.model => q = r
    BY <1>3
  <1>9. \A m \in DOMAIN u : \E r \in E : r.model = m
    BY <1>1, <1>2
  <1> QED
    BY <1>3, <1>5, <1>6, <1>7, <1>8, <1>9 DEF E

(* f decodes rows in whatever order they are taken.                         *)
DecodesOver(f, E) ==
    f = [s \in SUBSET E |->
            IF s = {} THEN NoUsage
            ELSE Add(f[s \ {CHOOSE x \in s : TRUE}], (CHOOSE x \in s : TRUE).model,
                     (CHOOSE x \in s : TRUE).in, (CHOOSE x \in s : TRUE).out)]

Decoded(E) == FoldSet(LAMBDA r, u : Add(u, r.model, r.in, r.out), NoUsage, E)

(* The decoding of a usage column, as the fold of its rows.                 *)
LEMMA DecodeFunction ==
    ASSUME NEW E
    PROVE  Decoded(E) = (CHOOSE f : DecodesOver(f, E))[E]
  BY Zenon DEF Decoded, FoldSet, MapThenFoldSet, DecodesOver

(* The column of a usage decodes to it.                                     *)
LEMMA DecodeEncoded ==
    ASSUME NEW u \in ModelUsages
    PROVE  Decoded(EncodeUsage(u)) = u
  <1> DEFINE E == EncodeUsage(u)
             Of(s) == {r.model : r \in s}
             g == [s \in SUBSET E |-> [m \in Of(s) |-> u[m]]]
             ch == [s \in SUBSET E |-> CHOOSE x \in s : TRUE]
             f == CHOOSE f : DecodesOver(f, E)
  <1>1. /\ IsFiniteSet(E)
        /\ \A r \in E : /\ r.model \in DOMAIN u /\ r.in = u[r.model].in /\ r.out = u[r.model].out
                        /\ \A q \in E : q.model = r.model => q = r
        /\ \A m \in DOMAIN u : \E r \in E : r.model = m
    BY UsageRows
  <1> HIDE DEF E
  <1>2. g[{}] = NoUsage
    <2>1. Of({}) = {} /\ {} \in SUBSET E
      OBVIOUS
    <2>2. g[{}] = [m \in {} |-> u[m]]
      BY <2>1
    <2>3. g[{}] = [m \in DOMAIN g[{}] |-> g[{}][m]] /\ DOMAIN g[{}] = {}
      BY <2>2
    <2>4. NoUsage = [m \in DOMAIN NoUsage |-> NoUsage[m]]
      BY NoUsageType, UsageShape
    <2> HIDE DEF g
    <2> QED
      BY <2>3, <2>4, NoUsageType, SameUsage
  <1>3. ASSUME NEW s \in SUBSET E, s # {}, NEW c \in s
        PROVE  g[s] = Add(g[s \ {c}], c.model, c.in, c.out)
    <2> DEFINE v == g[s \ {c}]
               a == Add(v, c.model, c.in, c.out)
    <2>1. c \in E /\ c.model \in DOMAIN u /\ c.in = u[c.model].in /\ c.out = u[c.model].out
      BY <1>1
    <2>2. c.model \notin Of(s \ {c})
      BY <1>1, <2>1
    <2>3. s \ {c} \in SUBSET E
      OBVIOUS
    <2>4. v = [m \in Of(s \ {c}) |-> u[m]]
      BY <2>3
    <2>5. Of(s) = Of(s \ {c}) \cup {c.model}
      OBVIOUS
    <2>6. UsageOf(v, c.model) = [in |-> 0, out |-> 0]
      BY <2>2, <2>4 DEF UsageOf
    <2>7. u[c.model] \in Counts
      BY <2>1, UsageShape
    <2>8. /\ u[c.model].in \in 0..UsageMax /\ u[c.model].out \in 0..UsageMax
          /\ u[c.model] = [in |-> u[c.model].in, out |-> u[c.model].out]
      BY <2>7 DEF Counts
    <2>9. SatAdd(0, c.in) = c.in /\ SatAdd(0, c.out) = c.out
      BY <2>1, <2>8, SatAddZero
    <2>10. /\ DOMAIN a = Of(s) /\ a = [m \in DOMAIN a |-> a[m]]
           /\ a[c.model] = [in |-> SatAdd(UsageOf(v, c.model).in, c.in), out |-> SatAdd(UsageOf(v, c.model).out, c.out)]
           /\ \A m \in DOMAIN v : m # c.model => a[m] = v[m]
      <3>1. DOMAIN v = Of(s \ {c})
        BY <2>4
      <3> HIDE DEF v, Of
      <3> QED
        BY <2>5, <3>1 DEF Add
    <2>11. a[c.model] = u[c.model]
      <3> HIDE DEF v, a
      <3> QED
        BY <2>1, <2>6, <2>8, <2>9, <2>10
    <2>12. \A m \in Of(s) : a[m] = u[m]
      <3> HIDE DEF a
      <3> QED
        BY Zenon, <2>4, <2>5, <2>10, <2>11
    <2>13. g[s] = [m \in Of(s) |-> u[m]]
      OBVIOUS
    <2> HIDE DEF a, g, Of
    <2>14. g[s] = [m \in Of(s) |-> a[m]]
      BY <2>12, <2>13
    <2>15. g[s] = a
      BY <2>10, <2>14, Zenon
    <2> QED
      BY <2>15 DEF a, v
  <1>4. DecodesOver(g, E)
    <2>1. \A s \in SUBSET E : s # {} => (CHOOSE x \in s : TRUE) \in s
      OBVIOUS
    <2>2. g = [s \in SUBSET E |-> g[s]]
      OBVIOUS
    <2> HIDE DEF g
    <2>3. \A s \in SUBSET E : g[s] =
            IF s = {} THEN NoUsage
            ELSE Add(g[s \ {CHOOSE x \in s : TRUE}], (CHOOSE x \in s : TRUE).model,
                     (CHOOSE x \in s : TRUE).in, (CHOOSE x \in s : TRUE).out)
      <3> TAKE s \in SUBSET E
      <3> DEFINE c == CHOOSE x \in s : TRUE
      <3>1. CASE s = {}
        BY <1>2, <3>1
      <3>2. CASE s # {}
        <4>1. c \in s
          BY <2>1, <3>2
        <4> HIDE DEF c
        <4>2. g[s] = Add(g[s \ {c}], c.model, c.in, c.out)
          BY <1>3, <3>2, <4>1
        <4> QED
          BY <3>2, <4>2 DEF c
      <3> QED
        BY <3>1, <3>2
    <2> QED
      BY <2>2, <2>3, Zenon DEF DecodesOver
  <1>5. DecodesOver(f, E)
    <2> HIDE DEF g
    <2> QED
      BY <1>4
  <1>6. \A s \in SUBSET E : s # {} => ch[s] \in s
    OBVIOUS
  <1>7. StepAlike(f, g, ch, E)
    <2> HIDE DEF f, g
    <2>1. f[{}] = NoUsage
      BY <1>5 DEF DecodesOver
    <2>2. \A s \in SUBSET E : s # {} =>
              f[s] = Add(f[s \ {ch[s]}], ch[s].model, ch[s].in, ch[s].out)
      BY <1>5 DEF DecodesOver
    <2> HIDE DEF ch
    <2>3. ASSUME NEW s \in SUBSET E, s # {}, f[s \ {ch[s]}] = g[s \ {ch[s]}] PROVE f[s] = g[s]
      <3>1. g[s] = Add(g[s \ {ch[s]}], ch[s].model, ch[s].in, ch[s].out)
        BY <1>3, <1>6, <2>3
      <3> QED
        BY <2>2, <2>3, <3>1
    <2> QED
      BY <1>2, <2>1, <2>3 DEF StepAlike
  <1>8. f[E] = g[E]
    <2>1. Chooses(ch, E)
      BY <1>6 DEF Chooses
    <2> HIDE DEF f, g, ch
    <2> QED
      BY <1>1, <1>7, <2>1, FoldIsOne
  <1>9. g[E] = u
    <2>1. Of(E) = DOMAIN u
      BY <1>1
    <2>2. g[E] = [m \in Of(E) |-> u[m]]
      OBVIOUS
    <2>3. u = [m \in DOMAIN u |-> u[m]]
      BY UsageShape
    <2> HIDE DEF g, Of
    <2> QED
      BY <2>1, <2>2, <2>3
  <1> HIDE DEF f
  <1>10. Decoded(E) = f[E]
    BY DecodeFunction DEF f
  <1> QED
    BY <1>8, <1>9, <1>10 DEF E

(* A count reads back unless its sign bit is set.                           *)
LEMMA SignedCount ==
    ASSUME NEW n \in 0..UsageMax
    PROVE  /\ AsSigned(n) \in Int
           /\ AsSigned(n) >= 0 <=> 2 * n < UsageMax
           /\ AsSigned(n) >= 0 => AsSigned(n) = n
  <1> DEFINE h == UsageMax \div 2
  <1>1. UsageMax \in Nat /\ UsageMax % 2 = 1
    BY MeteringAssumption, AlgorithmsAssumption
  <1>2. h \in Nat /\ UsageMax = 2 * h + 1
    BY <1>1
  <1>3. AsSigned(n) = IF n > h THEN n - (UsageMax + 1) ELSE n
    BY DEF AsSigned
  <1> HIDE DEF h
  <1> QED
    BY <1>1, <1>2, <1>3

Unparsed == {"models", "usage_by_model"}

(* An item of the store: a record, and the row its write bound with what    *)
(* damage may have come to a cell.                                          *)
BoundRow(item) == IF item.older THEN OlderInvocationRow(item.of) ELSE RowOf(item.table, item.of)

RowItem(item) ==
    /\ item = [table |-> item.table, of |-> item.of, row |-> item.row, older |-> item.older]
    /\ item.table \in Tables /\ item.older \in BOOLEAN /\ IsRecord(item.table, item.of)
    /\ item.older => item.table = "invocations"
    /\ item.row = [c \in DOMAIN item.row |-> item.row[c]]
    /\ DOMAIN item.row = DOMAIN BoundRow(item)
    /\ \A c \in DOMAIN item.row :
        \/ item.row[c] = BoundRow(item)[c]
        \/ item.row[c] = Damaged /\ c \in Checked(item.table) \cup Unparsed

RowsTyped ==
    input.kind = "rows" =>
        \E S : input.items \in Seq(S) /\ \A x \in S : RowItem(x)

(* The cells of a row are those of its values.                              *)
LEMMA CellsShape ==
    ASSUME NEW v
    PROVE  /\ DOMAIN Cells(v) = DOMAIN v
           /\ Cells(v) = [c \in DOMAIN v |-> Cell(v[c])]
           /\ \A c \in DOMAIN v : Cells(v)[c] = Cell(v[c])
  BY DEF Cells

(* A cell holds its value, and is neither damaged nor null.                 *)
LEMMA CellIsWhole ==
    ASSUME NEW v
    PROVE  /\ Cell(v) # Damaged /\ Cell(v) # Null /\ Cell(v).value = v /\ Null # Damaged
           /\ \A w : Cell(v) = Cell(w) => v = w
  BY DEF Cell, Damaged, Null

(* The cells an invocation is written to.                                   *)
LEMMA InvocationCells ==
    ASSUME NEW r
    PROVE  /\ DOMAIN InvocationRow(r) = {"model", "input_tokens", "output_tokens", "latency_ms", "outcome",
                                         "created_at", "models", "usage_by_model"}
           /\ InvocationRow(r) = [c \in DOMAIN InvocationRow(r) |-> InvocationRow(r)[c]]
           /\ InvocationRow(r).model = Cell(r.model)
           /\ InvocationRow(r).input_tokens = Cell(AsSigned(r.in))
           /\ InvocationRow(r).output_tokens = Cell(AsSigned(r.out))
           /\ InvocationRow(r).latency_ms = Cell(AsSigned(r.latency))
           /\ InvocationRow(r).outcome = Cell(r.outcome)
           /\ InvocationRow(r).created_at = Cell(r.at)
           /\ InvocationRow(r).models = Cell(r.models)
           /\ InvocationRow(r).usage_by_model = Cell(EncodeUsage(r.usage))
  BY DEF InvocationRow, Cells

(* The cells an older release wrote, with nothing in the two later columns. *)
LEMMA OlderCells ==
    ASSUME NEW r
    PROVE  /\ DOMAIN OlderInvocationRow(r) = DOMAIN InvocationRow(r)
           /\ OlderInvocationRow(r) = [c \in DOMAIN InvocationRow(r) |-> OlderInvocationRow(r)[c]]
           /\ OlderInvocationRow(r).models = Null /\ OlderInvocationRow(r).usage_by_model = Null
           /\ \A c \in DOMAIN InvocationRow(r) \ Unparsed : OlderInvocationRow(r)[c] = InvocationRow(r)[c]
  BY Zenon, InvocationCells DEF OlderInvocationRow, Unparsed

(* What a write binds is an item of the store.                              *)
LEMMA WrittenRow ==
    ASSUME NEW w \in Writes
    PROVE  RowItem([table |-> w.table, of |-> w.record, row |-> RowOf(w.table, w.record), older |-> FALSE])
  <1> DEFINE item == [table |-> w.table, of |-> w.record, row |-> RowOf(w.table, w.record), older |-> FALSE]
  <1>1. w.table \in Tables /\ IsRecord(w.table, w.record)
    BY AlgorithmsAssumption
  <1>2. /\ item.table = w.table /\ item.of = w.record /\ item.row = RowOf(w.table, w.record)
        /\ item.older = FALSE
        /\ item = [table |-> item.table, of |-> item.of, row |-> item.row, older |-> item.older]
    OBVIOUS
  <1>3. RowOf(w.table, w.record) = [c \in DOMAIN RowOf(w.table, w.record) |-> RowOf(w.table, w.record)[c]]
    <2>1. CASE w.table = "invocations"
      <3>1. RowOf(w.table, w.record) = InvocationRow(w.record)
        BY <2>1 DEF RowOf
      <3> QED
        BY <3>1, InvocationCells
    <2>2. CASE w.table # "invocations"
      <3>1. RowOf(w.table, w.record) = Bound(w.table, w.record)
        BY <2>2 DEF RowOf
      <3>2. \A v : Cells(v) = [c \in DOMAIN Cells(v) |-> Cells(v)[c]]
        BY DEF Cells
      <3>3. Bound(w.table, w.record) = [c \in DOMAIN Bound(w.table, w.record) |-> Bound(w.table, w.record)[c]]
        BY <3>2, Zenon DEF Bound
      <3> QED
        BY <3>1, <3>3
    <2> QED
      BY <2>1, <2>2
  <1> HIDE DEF item
  <1> QED
    BY <1>1, <1>2, <1>3 DEF RowItem, BoundRow

(* What an older release wrote is an item of the store.                     *)
LEMMA OlderRow ==
    ASSUME NEW w \in Writes, w.table = "invocations"
    PROVE  RowItem([table |-> w.table, of |-> w.record, row |-> OlderInvocationRow(w.record), older |-> TRUE])
  <1> DEFINE item == [table |-> w.table, of |-> w.record, row |-> OlderInvocationRow(w.record), older |-> TRUE]
  <1>1. w.table \in Tables /\ IsRecord(w.table, w.record)
    BY AlgorithmsAssumption
  <1>2. /\ item.table = w.table /\ item.of = w.record /\ item.row = OlderInvocationRow(w.record)
        /\ item.older = TRUE
        /\ item = [table |-> item.table, of |-> item.of, row |-> item.row, older |-> item.older]
    OBVIOUS
  <1>3. OlderInvocationRow(w.record) = [c \in DOMAIN OlderInvocationRow(w.record) |-> OlderInvocationRow(w.record)[c]]
    BY OlderCells
  <1> HIDE DEF item
  <1> QED
    BY <1>1, <1>2, <1>3 DEF RowItem, BoundRow

(* A damaged cell is one a read parses or one of the two it does without.   *)
LEMMA DamagedRow ==
    ASSUME NEW item, RowItem(item), NEW c \in Checked(item.table) \cup Unparsed
    PROVE  \A torn : torn = [item EXCEPT !.row[c] = Damaged] => RowItem(torn)
  <1> DEFINE row == [item.row EXCEPT ![c] = Damaged]
             torn == [item EXCEPT !.row[c] = Damaged]
  <1>1. item = [table |-> item.table, of |-> item.of, row |-> item.row, older |-> item.older]
    BY DEF RowItem
  <1>2. torn = [table |-> item.table, of |-> item.of, row |-> row, older |-> item.older]
    <2>1. torn = [item EXCEPT !.row = row]
      OBVIOUS
    <2> HIDE DEF row, torn
    <2> QED
      BY <1>1, <2>1
  <1>3. DOMAIN row = DOMAIN item.row
        /\ \A d \in DOMAIN item.row : row[d] = IF d = c THEN Damaged ELSE item.row[d]
    BY DEF RowItem
  <1>4. row = [d \in DOMAIN row |-> row[d]]
    <2>1. item.row = [d \in DOMAIN item.row |-> item.row[d]]
      BY DEF RowItem
    <2> QED
      BY <2>1
  <1> HIDE DEF torn, row
  <1>5. /\ torn.table = item.table /\ torn.of = item.of /\ torn.row = row /\ torn.older = item.older
        /\ torn = [table |-> torn.table, of |-> torn.of, row |-> torn.row, older |-> torn.older]
    BY <1>2
  <1>6. BoundRow(torn) = BoundRow(item)
    BY <1>5 DEF BoundRow
  <1>7. RowItem(torn)
    BY <1>3, <1>4, <1>5, <1>6 DEF RowItem
  <1> QED
    BY <1>7 DEF torn

(* A write or damage to a cell leaves the store of the shape the reads      *)
(* meet.                                                                    *)
LEMMA RowsTypedStep ==
    ASSUME Shape, RowsTyped, [InputNext]_input
    PROVE  RowsTyped'
  <1>1. SUFFICES ASSUME input'.kind = "rows"
                 PROVE  \E S : input'.items \in Seq(S) /\ \A x \in S : RowItem(x)
    BY DEF RowsTyped
  <1>2. input.kind = "rows"
    BY <1>1, ShapeStep
  <1>3. PICK S : input.items \in Seq(S) /\ \A x \in S : RowItem(x)
    BY <1>2 DEF RowsTyped
  <1>4. CASE UNCHANGED input
    BY <1>3, <1>4
  <1>5. ASSUME NEW e, RowItem(e), input'.items = Append(input.items, e)
        PROVE  \E T : input'.items \in Seq(T) /\ \A x \in T : RowItem(x)
    <2>1. input.items \in Seq(S \cup {e})
      BY <1>3
    <2>2. input'.items \in Seq(S \cup {e})
      BY <1>5, <2>1
    <2> QED
      BY <1>3, <1>5, <2>2
  <1>6. CASE Write
    <2>1. PICK w \in Writes :
            Grown("rows", [table |-> w.table, of |-> w.record, row |-> RowOf(w.table, w.record), older |-> FALSE])
      BY Zenon, <1>6 DEF Write
    <2> DEFINE e == [table |-> w.table, of |-> w.record, row |-> RowOf(w.table, w.record), older |-> FALSE]
    <2>2. RowItem(e)
      BY WrittenRow
    <2>3. input'.items = Append(input.items, e)
      BY <2>1, GrownKind
    <2> HIDE DEF e
    <2> QED
      BY <1>5, <2>2, <2>3
  <1>7. CASE WriteOlder
    <2>1. PICK w \in Writes :
            /\ w.table = "invocations"
            /\ Grown("rows", [table |-> w.table, of |-> w.record, row |-> OlderInvocationRow(w.record), older |-> TRUE])
      BY Zenon, <1>7 DEF WriteOlder
    <2> DEFINE e == [table |-> w.table, of |-> w.record, row |-> OlderInvocationRow(w.record), older |-> TRUE]
    <2>2. RowItem(e)
      BY <2>1, OlderRow
    <2>3. input'.items = Append(input.items, e)
      BY <2>1, GrownKind
    <2> HIDE DEF e
    <2> QED
      BY <1>5, <2>2, <2>3
  <1>8. CASE Damage
    <2>9. PICK k \in DOMAIN input.items :
            \E c \in Checked(input.items[k].table) \cup (DOMAIN input.items[k].row \cap Unparsed) :
                input' = [input EXCEPT !.items[k].row[c] = Damaged]
      BY Zenon, <1>8 DEF Damage, Unparsed
    <2>1. PICK c \in Checked(input.items[k].table) \cup Unparsed :
            input' = [input EXCEPT !.items[k].row[c] = Damaged]
      BY Zenon, <2>9
    <2> DEFINE items == input.items
               e == [items[k] EXCEPT !.row[c] = Damaged]
    <2>2. RowItem(e)
      <3>1. RowItem(items[k])
        BY <1>3
      <3>2. e = [items[k] EXCEPT !.row[c] = Damaged]
        OBVIOUS
      <3> HIDE DEF e
      <3> QED
        BY <3>1, <3>2, DamagedRow
    <2>3. input'.items = [items EXCEPT ![k] = e]
      <3>1. input' = [input EXCEPT !.items = [items EXCEPT ![k] = e]]
        BY <2>1
      <3> HIDE DEF e, items
      <3> QED
        BY <3>1 DEF Shape
    <2> HIDE DEF e
    <2>4. items \in Seq(S \cup {e})
      BY <1>3
    <2>5. input'.items \in Seq(S \cup {e})
      BY <2>3, <2>4
    <2> QED
      BY <1>3, <2>2, <2>5
  <1> QED
    BY <1>2, <1>4, <1>6, <1>7, <1>8, KindStep

(* An invocation's figures are those of its usage.                          *)
LEMMA InvocationFigures ==
    ASSUME NEW r, IsInvocation(r)
    PROVE  /\ r.usage \in ModelUsages /\ r.model \in Models
           /\ r.in \in 0..UsageMax /\ r.out \in 0..UsageMax /\ r.latency \in 0..UsageMax
           /\ Totals(r.usage) = [in |-> r.in, out |-> r.out]
           /\ r.models = DOMAIN r.usage /\ r.estimated = CostEstimated(r.usage)
  <1>1. /\ IsFiniteSet(DOMAIN r.usage) /\ DOMAIN r.usage \subseteq Models
        /\ r.usage \in [DOMAIN r.usage -> Counts]
        /\ r.model \in Models /\ r.latency \in 0..UsageMax
    BY DEF IsInvocation, Counts
  <1>2. r.usage \in ModelUsages
    <2> DEFINE u == r.usage
    <2>1. IsFiniteSet(DOMAIN u) /\ DOMAIN u \subseteq Models /\ u \in [DOMAIN u -> Counts]
      BY <1>1
    <2> HIDE DEF u
    <2>2. u \in ModelUsages
      BY <2>1, UsageShape
    <2> QED
      BY <2>2 DEF u
  <1> DEFINE figures == Recorded(r.usage, r.model)
  <1>3. r.in = figures.in /\ r.out = figures.out /\ r.models = figures.models /\ r.estimated = figures.estimated
    BY DEF IsInvocation
  <1>4. /\ figures.in = Totals(r.usage).in /\ figures.out = Totals(r.usage).out
        /\ figures.models = DOMAIN r.usage /\ figures.estimated = CostEstimated(r.usage)
    BY DEF Recorded
  <1> HIDE DEF figures
  <1>5. /\ Totals(r.usage) = [in |-> Totals(r.usage).in, out |-> Totals(r.usage).out]
        /\ Totals(r.usage).in \in 0..UsageMax /\ Totals(r.usage).out \in 0..UsageMax
    BY <1>2, TotalsAreSums
  <1>6. r.in = Totals(r.usage).in /\ r.out = Totals(r.usage).out
    BY <1>3, <1>4
  <1> QED
    BY <1>1, <1>2, <1>3, <1>4, <1>5, <1>6

(* The counts of an item's record.                                          *)
CountsOf(item) ==
    IF item.table = "invocations" THEN {item.of.in, item.of.out, item.of.latency}
                                  ELSE {item.of[c] : c \in Counted(item.table)}

(* A cell that is neither parsed nor done without is as it was bound.       *)
LEMMA CountedCell ==
    ASSUME NEW item, RowItem(item), NEW c \in DOMAIN item.row, c \notin Checked(item.table) \cup Unparsed
    PROVE  item.row[c] = BoundRow(item)[c]
  BY DEF RowItem

(* No column is counted and parsed, and none that is parsed is one a read   *)
(* does without.                                                            *)
LEMMA TablesApart ==
    ASSUME NEW table \in Tables
    PROVE  /\ Counted(table) \cap (Checked(table) \cup Unparsed) = {}
           /\ Checked(table) \cap Unparsed = {}
  BY DEF Tables, Counted, Checked, Unparsed

(* The cells of an invocation in the store.                                 *)
LEMMA InvocationRowItem ==
    ASSUME NEW item, RowItem(item), item.table = "invocations"
    PROVE  /\ IsInvocation(item.of)
           /\ DOMAIN item.row = DOMAIN InvocationRow(item.of)
           /\ \A c \in DOMAIN item.row \ Unparsed : BoundRow(item)[c] = InvocationRow(item.of)[c]
           /\ item.row.model = Cell(item.of.model)
           /\ item.row.input_tokens = Cell(AsSigned(item.of.in))
           /\ item.row.output_tokens = Cell(AsSigned(item.of.out))
           /\ item.row.latency_ms = Cell(AsSigned(item.of.latency))
           /\ item.row.created_at \in {Cell(item.of.at), Damaged}
           /\ IF item.older
              THEN item.row.models \in {Null, Damaged} /\ item.row.usage_by_model \in {Null, Damaged}
              ELSE /\ item.row.models \in {Cell(item.of.models), Damaged}
                   /\ item.row.usage_by_model \in {Cell(EncodeUsage(item.of.usage)), Damaged}
  <1> DEFINE r == item.of
             bound == BoundRow(item)
             row == item.row
  <1>1. IsInvocation(r)
    BY DEF RowItem, IsRecord
  <1>2. bound = IF item.older THEN OlderInvocationRow(r) ELSE InvocationRow(r)
    BY DEF BoundRow, RowOf
  <1>3. /\ DOMAIN bound = DOMAIN InvocationRow(r)
        /\ \A c \in DOMAIN InvocationRow(r) \ Unparsed : bound[c] = InvocationRow(r)[c]
    BY <1>2, OlderCells
  <1>4. DOMAIN row = DOMAIN bound
        /\ \A c \in DOMAIN row : row[c] = bound[c] \/ (row[c] = Damaged /\ c \in Checked("invocations") \cup Unparsed)
    BY DEF RowItem
  <1> HIDE DEF row, bound, r
  <1>5. DOMAIN InvocationRow(r) = {"model", "input_tokens", "output_tokens", "latency_ms", "outcome",
                                   "created_at", "models", "usage_by_model"}
    BY InvocationCells
  <1>6. Checked("invocations") = {"outcome", "created_at"}
    BY DEF Checked
  <1>7. /\ row.model = bound.model /\ row.input_tokens = bound.input_tokens
        /\ row.output_tokens = bound.output_tokens /\ row.latency_ms = bound.latency_ms
    BY <1>3, <1>4, <1>5, <1>6 DEF Unparsed
  <1>8. /\ bound.model = InvocationRow(r).model /\ bound.input_tokens = InvocationRow(r).input_tokens
        /\ bound.output_tokens = InvocationRow(r).output_tokens /\ bound.latency_ms = InvocationRow(r).latency_ms
        /\ bound.created_at = InvocationRow(r).created_at
    BY <1>3, <1>5 DEF Unparsed
  <1>9. row.created_at \in {bound.created_at, Damaged}
    BY <1>3, <1>4, <1>5
  <1>10. row.models \in {bound.models, Damaged} /\ row.usage_by_model \in {bound.usage_by_model, Damaged}
    BY <1>3, <1>4, <1>5
  <1>11. item.older => bound.models = Null /\ bound.usage_by_model = Null
    BY <1>2, OlderCells
  <1>12. ~item.older => bound.models = Cell(r.models) /\ bound.usage_by_model = Cell(EncodeUsage(r.usage))
    BY <1>2, InvocationCells
  <1>13. /\ row.model = Cell(r.model) /\ row.input_tokens = Cell(AsSigned(r.in))
         /\ row.output_tokens = Cell(AsSigned(r.out)) /\ row.latency_ms = Cell(AsSigned(r.latency))
         /\ row.created_at \in {Cell(r.at), Damaged}
    BY <1>7, <1>8, <1>9, InvocationCells
  <1>14. \A c \in DOMAIN row \ Unparsed : bound[c] = InvocationRow(r)[c]
    BY <1>3, <1>4
  <1>15. IF item.older
         THEN row.models \in {Null, Damaged} /\ row.usage_by_model \in {Null, Damaged}
         ELSE /\ row.models \in {Cell(r.models), Damaged}
              /\ row.usage_by_model \in {Cell(EncodeUsage(r.usage)), Damaged}
    BY <1>10, <1>11, <1>12
  <1>16. DOMAIN row = DOMAIN InvocationRow(r)
    BY <1>3, <1>4
  <1> QED
    BY <1>1, <1>13, <1>14, <1>15, <1>16 DEF row, bound, r

(* The cells of any other record in the store.                              *)
LEMMA OtherRowItem ==
    ASSUME NEW item, RowItem(item), item.table # "invocations"
    PROVE  /\ item.of = [c \in DOMAIN item.of |-> item.of[c]]
           /\ Checked(item.table) \cup Counted(item.table) \subseteq DOMAIN item.of
           /\ \A c \in Counted(item.table) : item.of[c] \in 0..UsageMax
           /\ DOMAIN item.row = DOMAIN item.of
           /\ \A c \in DOMAIN item.of :
                \/ item.row[c] = Damaged /\ c \in Checked(item.table)
                \/ item.row[c] = Cell(IF c \in Counted(item.table) THEN AsSigned(item.of[c]) ELSE item.of[c])
  <1> DEFINE o == item.of
             t == item.table
             V == [c \in DOMAIN o |-> IF c \in Counted(t) THEN AsSigned(o[c]) ELSE o[c]]
  <1>1. /\ o = [c \in DOMAIN o |-> o[c]] /\ Checked(t) \cup Counted(t) \subseteq DOMAIN o
        /\ \A c \in Counted(t) : o[c] \in 0..UsageMax
        /\ DOMAIN o \cap Unparsed = {}
    BY DEF RowItem, IsRecord, Unparsed
  <1>2. BoundRow(item) = Cells(V)
    BY DEF BoundRow, RowOf, Bound, RowItem
  <1>3. DOMAIN BoundRow(item) = DOMAIN o /\ \A c \in DOMAIN o : BoundRow(item)[c] = Cell(V[c])
    BY <1>2, CellsShape
  <1>4. DOMAIN item.row = DOMAIN o
    BY <1>3 DEF RowItem
  <1>5. \A c \in DOMAIN o :
            \/ item.row[c] = Damaged /\ c \in Checked(t)
            \/ item.row[c] = Cell(V[c])
    BY <1>1, <1>3, <1>4 DEF RowItem
  <1> QED
    BY Zenon, <1>1, <1>4, <1>5

(* A row loads when its parsed cells are whole and its counts are signed.   *)
LEMMA LoadsWhen ==
    ASSUME NEW item, RowItem(item)
    PROVE  Loads(item.table, item.row) <=>
              /\ \A c \in Checked(item.table) : item.row[c] # Damaged
              /\ \A n \in CountsOf(item) : 2 * n < UsageMax
  <1> SUFFICES (\A c \in Counted(item.table) : item.row[c].value >= 0) <=> \A n \in CountsOf(item) : 2 * n < UsageMax
    BY Zenon DEF Loads
  <1>1. CASE item.table = "invocations"
    <2> DEFINE o == item.of
    <2>1. /\ item.row["input_tokens"].value = AsSigned(o.in)
          /\ item.row["output_tokens"].value = AsSigned(o.out)
          /\ item.row["latency_ms"].value = AsSigned(o.latency)
      BY <1>1, InvocationRowItem, CellIsWhole
    <2>2. o.in \in 0..UsageMax /\ o.out \in 0..UsageMax /\ o.latency \in 0..UsageMax
      BY Zenon, <1>1, InvocationRowItem, InvocationFigures
    <2>3. Counted(item.table) = {"input_tokens", "output_tokens", "latency_ms"}
      BY <1>1 DEF Counted
    <2>4. CountsOf(item) = {o.in, o.out, o.latency}
      BY <1>1 DEF CountsOf
    <2>5. /\ AsSigned(o.in) >= 0 <=> 2 * o.in < UsageMax
          /\ AsSigned(o.out) >= 0 <=> 2 * o.out < UsageMax
          /\ AsSigned(o.latency) >= 0 <=> 2 * o.latency < UsageMax
      BY <2>2, SignedCount
    <2> HIDE DEF o
    <2> QED
      BY <2>1, <2>3, <2>4, <2>5
  <1>2. CASE item.table # "invocations"
    <2>1. \A c \in Counted(item.table) : item.row[c].value = AsSigned(item.of[c])
      <3> TAKE c \in Counted(item.table)
      <3>1. c \in DOMAIN item.of /\ c \notin Checked(item.table)
        BY <1>2, OtherRowItem, TablesApart DEF RowItem
      <3>2. item.row[c] = Cell(AsSigned(item.of[c]))
        BY Zenon, <1>2, <3>1, OtherRowItem
      <3> QED
        BY <3>2, CellIsWhole
    <2>2. \A c \in Counted(item.table) : item.of[c] \in 0..UsageMax
      BY Zenon, <1>2, OtherRowItem
    <2>3. \A c \in Counted(item.table) : item.row[c].value >= 0 <=> 2 * item.of[c] < UsageMax
      BY <2>1, <2>2, SignedCount
    <2>4. CountsOf(item) = {item.of[c] : c \in Counted(item.table)}
      BY <1>2 DEF CountsOf
    <2> QED
      BY <2>3, <2>4
  <1> QED
    BY <1>1, <1>2

(* What the usage column stands for: the record's usage when it is whole.   *)
LEMMA UsageReadsBack ==
    ASSUME NEW r, IsInvocation(r), NEW cell, cell \in {Null, Damaged, Cell(EncodeUsage(r.usage))},
           NEW u, u = DecodeUsage(cell, r.model, r.in, r.out)
    PROVE  /\ u \in ModelUsages /\ Totals(u) = [in |-> r.in, out |-> r.out]
           /\ cell = Cell(EncodeUsage(r.usage)) /\ r.usage # NoUsage => u = r.usage
           /\ cell \in {Null, Damaged} => DOMAIN u = {r.model}
  <1>1. /\ r.usage \in ModelUsages /\ r.model \in Models
        /\ r.in \in 0..UsageMax /\ r.out \in 0..UsageMax /\ r.in \in Nat /\ r.out \in Nat
        /\ Totals(r.usage) = [in |-> r.in, out |-> r.out]
    BY InvocationFigures, MeteringAssumption
  <1>2. CASE cell \in {Null, Damaged, Cell({})}
    <2>1. u = Add(NoUsage, r.model, r.in, r.out)
      BY <1>2, Zenon DEF DecodeUsage
    <2>2. Metered(u, NoUsage, r.model, r.in, r.out)
      BY <1>1, <2>1, NoUsageType, AddType
    <2>3. u \in ModelUsages /\ DOMAIN u = {r.model}
      BY <2>2, NoUsageType DEF Metered
    <2>4. Totals(u).in = SatAdd(Totals(NoUsage).in, r.in) /\ Totals(u).out = SatAdd(Totals(NoUsage).out, r.out)
      BY <1>1, <2>2, NoUsageType, TotalsAdd
    <2>5. Totals(u).in = r.in /\ Totals(u).out = r.out
      BY <1>1, <2>4, TotalsNothing, SatAddZero
    <2>6. Totals(u) = [in |-> r.in, out |-> r.out]
      BY <2>3, <2>5, TotalsAreSums
    <2>7. cell = Cell(EncodeUsage(r.usage)) => r.usage = NoUsage
      BY <1>1, <1>2, CellIsWhole, UsageRows
    <2> QED
      BY <2>3, <2>6, <2>7
  <1>3. CASE cell \notin {Null, Damaged, Cell({})}
    <2>1. cell = Cell(EncodeUsage(r.usage)) /\ cell.value = EncodeUsage(r.usage)
      BY <1>3, CellIsWhole
    <2>2. u = Decoded(cell.value)
      BY <1>3, Zenon DEF DecodeUsage, Decoded
    <2>3. u = r.usage
      BY <1>1, <2>1, <2>2, DecodeEncoded
    <2> QED
      BY <1>1, <1>3, <2>3
  <1> QED
    BY <1>2, <1>3

(* An invocation that loads reads back.                                     *)
LEMMA InvocationReadsBack ==
    ASSUME NEW item, RowItem(item), item.table = "invocations", Loads(item.table, item.row)
    PROVE  ReadsBack(item, RecordOf(item.table, item.row))
  <1> DEFINE o == item.of
             row == item.row
             r == InvocationOf(row)
             usage == DecodeUsage(row.usage_by_model, row.model.value, row.input_tokens.value, row.output_tokens.value)
  <1>1. /\ r.model = row.model.value /\ r.in = row.input_tokens.value /\ r.out = row.output_tokens.value
        /\ r.latency = row.latency_ms.value /\ r.at = row.created_at.value
        /\ r.models = (IF row.models \in {Null, Damaged} THEN DOMAIN usage ELSE row.models.value)
        /\ r.usage = usage /\ r.estimated = CostEstimated(usage)
    <2> HIDE DEF usage, row
    <2> QED
      BY DEF InvocationOf, usage
  <1>2. RecordOf(item.table, row) = r
    BY DEF RecordOf
  <1> HIDE DEF r, usage
  <1>3. IsInvocation(o)
    BY InvocationRowItem
  <1>4. /\ row.model = Cell(o.model) /\ row.input_tokens = Cell(AsSigned(o.in))
        /\ row.output_tokens = Cell(AsSigned(o.out)) /\ row.latency_ms = Cell(AsSigned(o.latency))
        /\ row.created_at \in {Cell(o.at), Damaged}
    BY InvocationRowItem
  <1>5. o.in \in 0..UsageMax /\ o.out \in 0..UsageMax /\ o.latency \in 0..UsageMax
    BY Zenon, <1>3, InvocationFigures
  <1>6. AsSigned(o.in) = o.in /\ AsSigned(o.out) = o.out /\ AsSigned(o.latency) = o.latency
    <2>1. Counted(item.table) = {"input_tokens", "output_tokens", "latency_ms"}
      BY DEF Counted
    <2>2. row["input_tokens"].value >= 0 /\ row["output_tokens"].value >= 0 /\ row["latency_ms"].value >= 0
      BY <2>1 DEF Loads
    <2>3. AsSigned(o.in) >= 0 /\ AsSigned(o.out) >= 0 /\ AsSigned(o.latency) >= 0
      BY <1>4, <2>2, CellIsWhole
    <2> QED
      BY <1>5, <2>3, SignedCount
  <1>7. row.created_at = Cell(o.at)
    <2>1. "created_at" \in Checked(item.table)
      BY DEF Checked
    <2>2. row["created_at"] # Damaged
      BY <2>1 DEF Loads
    <2> QED
      BY <1>4, <2>2
  <1>8. /\ row.model.value = o.model /\ row.input_tokens.value = o.in /\ row.output_tokens.value = o.out
        /\ row.latency_ms.value = o.latency /\ row.created_at.value = o.at
    BY <1>4, <1>6, <1>7, CellIsWhole
  <1>9. usage = DecodeUsage(row.usage_by_model, o.model, o.in, o.out)
    BY <1>8, Zenon DEF usage
  <1>10. IF item.older
         THEN row.models \in {Null, Damaged} /\ row.usage_by_model \in {Null, Damaged}
         ELSE /\ row.models \in {Cell(o.models), Damaged}
              /\ row.usage_by_model \in {Cell(EncodeUsage(o.usage)), Damaged}
    BY InvocationRowItem
  <1>11. /\ Totals(usage) = [in |-> o.in, out |-> o.out]
         /\ row.usage_by_model = Cell(EncodeUsage(o.usage)) /\ o.usage # NoUsage => usage = o.usage
         /\ row.usage_by_model \in {Null, Damaged} => DOMAIN usage = {o.model}
    <2>1. row.usage_by_model \in {Null, Damaged, Cell(EncodeUsage(o.usage))}
      BY <1>10
    <2> QED
      BY Zenon, <1>3, <1>9, <2>1, UsageReadsBack
  <1>12. o.models = DOMAIN o.usage /\ o.estimated = CostEstimated(o.usage)
    BY Zenon, <1>3, InvocationFigures
  <1>13. item.older \in BOOLEAN
    BY DEF RowItem
  <1>14. /\ r.model = o.model /\ r.in = o.in /\ r.out = o.out /\ r.latency = o.latency /\ r.at = o.at
         /\ Totals(r.usage) = [in |-> r.in, out |-> r.out]
    BY <1>1, <1>8, <1>11
  <1>15. r.estimated <=> DOMAIN r.usage \ PricedModels # {}
    BY Zenon, <1>1 DEF CostEstimated
  <1>16. ~item.older /\ row.usage_by_model # Damaged /\ o.usage # NoUsage =>
            r.usage = o.usage /\ r.estimated = o.estimated /\ r.models = o.models
    <2> SUFFICES ASSUME ~item.older, row.usage_by_model # Damaged, o.usage # NoUsage
                 PROVE  r.usage = o.usage /\ r.estimated = o.estimated /\ r.models = o.models
      OBVIOUS
    <2>1. usage = o.usage
      BY <1>10, <1>11
    <2>2. row.models \in {Cell(o.models), Damaged}
      BY <1>10
    <2>3. r.models = o.models
      <3>1. CASE row.models = Damaged
        BY <1>1, <1>12, <2>1, <3>1
      <3>2. CASE row.models = Cell(o.models)
        <4>1. row.models \notin {Null, Damaged} /\ row.models.value = o.models
          BY <3>2, CellIsWhole
        <4> QED
          BY <1>1, <4>1
      <3> QED
        BY <2>2, <3>1, <3>2
    <2> QED
      BY <1>1, <1>12, <2>1, <2>3
  <1>17. item.older => r.models = {o.model} /\ DOMAIN r.usage = {o.model}
    BY <1>1, <1>10, <1>11
  <1> HIDE DEF row, o
  <1>18. ReadsBack(item, r)
    BY <1>14, <1>15, <1>16, <1>17, Zenon DEF ReadsBack, row, o
  <1> QED
    BY <1>2, <1>18 DEF row

(* Any other record that loads is the one that was written.                 *)
LEMMA OtherReadsBack ==
    ASSUME NEW item, RowItem(item), item.table # "invocations", Loads(item.table, item.row)
    PROVE  RecordOf(item.table, item.row) = item.of
  <1> DEFINE o == item.of
             row == item.row
             t == item.table
  <1>1. RecordOf(t, row) = [c \in DOMAIN row |-> row[c].value]
    BY DEF RecordOf
  <1>2. /\ o = [c \in DOMAIN o |-> o[c]] /\ DOMAIN row = DOMAIN o
        /\ \A c \in Counted(t) : o[c] \in 0..UsageMax
    BY OtherRowItem
  <1>3. ASSUME NEW c \in DOMAIN o PROVE row[c].value = o[c]
    <2>1. row[c] = Cell(IF c \in Counted(t) THEN AsSigned(o[c]) ELSE o[c])
      BY Zenon, OtherRowItem DEF Loads
    <2>2. row[c].value = IF c \in Counted(t) THEN AsSigned(o[c]) ELSE o[c]
      BY <2>1, CellIsWhole
    <2>3. CASE c \in Counted(t)
      <3>1. AsSigned(o[c]) >= 0
        BY <2>2, <2>3 DEF Loads
      <3> QED
        BY <1>2, <2>2, <2>3, <3>1, SignedCount
    <2> QED
      BY <2>2, <2>3
  <1> HIDE DEF o, row, t
  <1>4. [c \in DOMAIN row |-> row[c].value] = [c \in DOMAIN o |-> o[c]]
    BY <1>2, <1>3
  <1> QED
    BY <1>1, <1>2, <1>4 DEF o, row, t

(* The items of a table, those a read takes whole, and those that load.     *)
OfTable(items, n, table) ==
    DOMAIN items = 1..n /\ \A k \in 1..n : RowItem(items[k]) /\ items[k].table = table

Intact(items, table) ==
    \A k \in DOMAIN items :
        /\ \A c \in Checked(table) : items[k].row[c] # Damaged
        /\ \A m \in CountsOf(items[k]) : 2 * m < UsageMax

AllLoad(items, table) == \A k \in DOMAIN items : Loads(table, items[k].row)

ItemRows(items) == [k \in DOMAIN items |-> items[k].row]

RowItems(S) == \A x \in S : RowItem(x)

RecordColumn(items, table, column) ==
    UNION {RecordOf(table, items[k].row)[column] : k \in DOMAIN items}

(* The rows of a table, as the listing takes them.                          *)
LEMMA TableRows ==
    ASSUME NEW S, NEW items \in Seq(S), RowItems(S), NEW table,
           NEW P, P = {k \in DOMAIN items : items[k].table = table}
    PROVE  /\ OfTable(Picked(items, P), Cardinality(P), table)
           /\ Cardinality(P) \in Nat
  <1>1. P \in SUBSET Nat /\ IsFiniteSet(P)
    <2>1. DOMAIN items = 1..Len(items) /\ Len(items) \in Nat
      OBVIOUS
    <2>2. IsFiniteSet(1..Len(items)) /\ P \in SUBSET (1..Len(items))
      BY <2>1, FS_Interval
    <2>3. IsFiniteSet(P)
      BY <2>2, FS_Subset
    <2> QED
      BY <2>2, <2>3
  <1>2. DOMAIN Picked(items, P) = 1..Cardinality(P)
    BY <1>1, PickedDomain
  <1>3. Cardinality(P) \in Nat
    BY <1>1, FS_CardinalityType
  <1>4. ASSUME NEW k \in 1..Cardinality(P)
        PROVE  RowItem(Picked(items, P)[k]) /\ Picked(items, P)[k].table = table
    <2>0. IsAt(Picked(items, P)[k], items, P)
      BY <1>1, PickedItem
    <2>1. PICK i \in P : Picked(items, P)[k] = items[i]
      BY Zenon, <2>0 DEF IsAt
    <2>2. RowItem(items[i]) /\ items[i].table = table
      BY DEF RowItems
    <2> QED
      BY <2>1, <2>2
  <1> QED
    BY <1>2, <1>3, <1>4 DEF OfTable

(* A table is listed exactly when all of it is intact.                      *)
LEMMA ListedWhenIntact ==
    ASSUME NEW table, NEW n \in Nat, NEW items, OfTable(items, n, table),
           NEW listed, listed = List(table, ItemRows(items))
    PROVE  /\ listed.ok <=> Intact(items, table)
           /\ listed.ok => /\ listed.value = [k \in DOMAIN items |-> RecordOf(table, items[k].row)]
                           /\ AllLoad(items, table)
  <1> DEFINE tableRows == ItemRows(items)
  <1>0. /\ DOMAIN items = 1..n
        /\ \A k \in 1..n : RowItem(items[k]) /\ items[k].table = table
    BY DEF OfTable
  <1>1. DOMAIN tableRows = 1..n /\ \A k \in 1..n : tableRows[k] = items[k].row
    BY <1>0 DEF ItemRows
  <1>x. listed = List(table, tableRows)
    OBVIOUS
  <1> HIDE DEF tableRows
  <1> DEFINE All == \A k \in DOMAIN tableRows : Loads(table, tableRows[k])
             value == [k \in DOMAIN tableRows |-> RecordOf(table, tableRows[k])]
  <1>2. \A k \in 1..n : Loads(table, tableRows[k]) <=>
            /\ \A c \in Checked(table) : tableRows[k][c] # Damaged
            /\ \A m \in CountsOf(items[k]) : 2 * m < UsageMax
    <2> TAKE k \in 1..n
    <2> DEFINE item == items[k]
    <2>1. RowItem(item) /\ item.table = table /\ tableRows[k] = item.row
      BY <1>0, <1>1
    <2> HIDE DEF item
    <2>2. Loads(item.table, item.row) <=>
              /\ \A c \in Checked(item.table) : item.row[c] # Damaged
              /\ \A m \in CountsOf(item) : 2 * m < UsageMax
      BY <2>1, LoadsWhen
    <2>3. Loads(table, tableRows[k]) <=>
              /\ \A c \in Checked(table) : tableRows[k][c] # Damaged
              /\ \A m \in CountsOf(item) : 2 * m < UsageMax
      BY <2>1, <2>2
    <2> QED
      BY <2>3 DEF item
  <1>3. listed = IF All THEN [ok |-> TRUE, value |-> value] ELSE [ok |-> FALSE]
    BY Zenon, <1>x DEF List
  <1>4. value = [k \in DOMAIN items |-> RecordOf(table, items[k].row)]
    BY <1>0, <1>1
  <1>5. All <=> \A k \in 1..n : Loads(table, tableRows[k])
    BY <1>1
  <1>6. All <=> AllLoad(items, table)
    BY <1>0, <1>1 DEF AllLoad
  <1> HIDE DEF All, value
  <1>7. listed.ok <=> All
    BY <1>3
  <1>8. listed.ok => listed.value = value
    BY <1>3
  <1>9. All <=> Intact(items, table)
    <2>1. Intact(items, table) <=> \A k \in 1..n :
                    /\ \A c \in Checked(table) : tableRows[k][c] # Damaged
                    /\ \A m \in CountsOf(items[k]) : 2 * m < UsageMax
      BY <1>0, <1>1 DEF Intact
    <2> QED
      BY <1>2, <1>5, <2>1
  <1> QED
    BY <1>4, <1>6, <1>7, <1>8, <1>9

(* The column the cooldown or the push gathers, of rows that load.          *)
LEMMA GatheredRows ==
    ASSUME NEW table, NEW n \in Nat, NEW items, OfTable(items, n, table), AllLoad(items, table),
           NEW tableRows, tableRows = ItemRows(items),
           table # "invocations", NEW column, column \in Checked(table)
    PROVE  /\ Gathered(tableRows, column).ok
           /\ Gathered(tableRows, column).value = RecordColumn(items, table, column)
  <1>0. /\ DOMAIN items = 1..n
        /\ \A k \in 1..n : RowItem(items[k]) /\ items[k].table = table
        /\ \A k \in 1..n : Loads(table, items[k].row)
    BY DEF OfTable, AllLoad
  <1>1. DOMAIN tableRows = 1..n /\ \A k \in 1..n : tableRows[k] = items[k].row
    BY <1>0 DEF ItemRows
  <1>2. \A k \in DOMAIN tableRows : tableRows[k][column] # Damaged
    BY <1>0, <1>1 DEF Loads
  <1>3. Gathered(tableRows, column) = [ok |-> TRUE, value |-> UNION {tableRows[k][column].value : k \in DOMAIN tableRows}]
    BY <1>2 DEF Gathered
  <1>4. \A k \in DOMAIN items : RecordOf(table, items[k].row)[column] = tableRows[k][column].value
    <2> TAKE k \in DOMAIN items
    <2> DEFINE row == items[k].row
    <2>1. column \in DOMAIN row
      <3> DEFINE item == items[k]
      <3>1. RowItem(item) /\ item.table = table
        BY <1>0
      <3> HIDE DEF item
      <3>2. column \in DOMAIN item.row
        BY Zenon, <3>1, OtherRowItem
      <3> QED
        BY <3>2 DEF item
    <2>2. RecordOf(table, row) = [c \in DOMAIN row |-> row[c].value]
      BY DEF RecordOf
    <2>3. tableRows[k] = row
      BY <1>0, <1>1
    <2> HIDE DEF row
    <2>4. RecordOf(table, row)[column] = tableRows[k][column].value
      BY <2>1, <2>2, <2>3
    <2> QED
      BY <2>4 DEF row
  <1>5. {tableRows[k][column].value : k \in DOMAIN tableRows} = {RecordOf(table, items[k].row)[column] : k \in DOMAIN items}
    BY <1>0, <1>1, <1>4
  <1> HIDE DEF Gathered
  <1> DEFINE value == UNION {tableRows[k][column].value : k \in DOMAIN tableRows}
  <1>6. Gathered(tableRows, column) = [ok |-> TRUE, value |-> value]
    BY <1>3
  <1>7. value = UNION {RecordOf(table, items[k].row)[column] : k \in DOMAIN items}
    BY Zenon, <1>5
  <1> HIDE DEF value
  <1>8. Gathered(tableRows, column).ok /\ Gathered(tableRows, column).value = value
    BY <1>6
  <1>9. value = RecordColumn(items, table, column)
    BY <1>7 DEF RecordColumn
  <1> QED
    BY <1>8, <1>9

(* Rows read back as they were written, from every store of that shape.     *)
LEMMA RowsTypedRoundTrip ==
    ASSUME RowsTyped
    PROVE  RowsRoundTrip
  <1> SUFFICES ASSUME input.kind = "rows" PROVE RowsRoundTrip
    BY Zenon DEF RowsRoundTrip
  <1>1. PICK S : input.items \in Seq(S) /\ \A x \in S : RowItem(x)
    BY DEF RowsTyped
  <1> SUFFICES ASSUME NEW table \in Tables
        PROVE LET items == Picked(input.items, {k \in DOMAIN input.items : input.items[k].table = table})
                tableRows == [k \in DOMAIN items |-> items[k].row]
                listed == List(table, tableRows)
                intact == \A k \in DOMAIN items :
                    /\ \A c \in Checked(table) : tableRows[k][c] # Damaged
                    /\ \A n \in IF table = "invocations"
                                THEN {items[k].of.in, items[k].of.out, items[k].of.latency}
                                ELSE {items[k].of[c] : c \in Counted(table)} : 2 * n < UsageMax
            IN  /\ listed.ok <=> intact
                /\ listed.ok => \A k \in DOMAIN items :
                        IF table = "invocations" THEN ReadsBack(items[k], listed.value[k])
                                                 ELSE listed.value[k] = items[k].of
                /\ listed.ok /\ table \in {"checkpoints", "pushes"} =>
                        LET column == IF table = "pushes" THEN "surfaced_ids" ELSE "delivered_keys"
                        IN  /\ Gathered(tableRows, column).ok
                            /\ Gathered(tableRows, column).value = UNION {listed.value[k][column] : k \in DOMAIN items}
    BY Zenon DEF RowsRoundTrip
  <1> DEFINE P == {k \in DOMAIN input.items : input.items[k].table = table}
             items == Picked(input.items, P)
             n == Cardinality(P)
             tableRows == [k \in DOMAIN items |-> items[k].row]
             listed == List(table, tableRows)
             column == IF table = "pushes" THEN "surfaced_ids" ELSE "delivered_keys"
  <1>a. OfTable(items, n, table) /\ n \in Nat
    <2>1. P = {k \in DOMAIN input.items : input.items[k].table = table}
      OBVIOUS
    <2> HIDE DEF P
    <2>2. RowItems(S)
      BY <1>1 DEF RowItems
    <2> QED
      BY Zenon, <1>1, <2>1, <2>2, TableRows
  <1> HIDE DEF items, n
  <1>2. /\ DOMAIN items = 1..n /\ n \in Nat
        /\ \A k \in DOMAIN items : RowItem(items[k]) /\ items[k].table = table
    BY <1>a DEF OfTable
  <1>3. tableRows = ItemRows(items) /\ tableRows = [k \in DOMAIN items |-> items[k].row] /\ listed = List(table, ItemRows(items))
    BY DEF ItemRows
  <1> HIDE DEF tableRows, listed
  <1>b. /\ listed.ok <=> Intact(items, table)
        /\ listed.ok => /\ listed.value = [k \in DOMAIN items |-> RecordOf(table, items[k].row)]
                        /\ AllLoad(items, table)
    BY <1>a, <1>3, ListedWhenIntact
  <1>4. /\ listed.ok <=> \A k \in DOMAIN items :
                                /\ \A c \in Checked(table) : tableRows[k][c] # Damaged
                                /\ \A m \in CountsOf(items[k]) : 2 * m < UsageMax
        /\ listed.ok => /\ listed.value = [k \in DOMAIN items |-> RecordOf(table, items[k].row)]
                        /\ \A k \in DOMAIN items : Loads(table, items[k].row)
    BY <1>b, <1>3 DEF Intact, AllLoad
  <1>5. \A k \in DOMAIN items : CountsOf(items[k]) =
            IF table = "invocations" THEN {items[k].of.in, items[k].of.out, items[k].of.latency}
                                     ELSE {items[k].of[c] : c \in Counted(table)}
    BY Zenon, <1>2 DEF CountsOf
  <1>6. listed.ok <=> \A k \in DOMAIN items :
                    /\ \A c \in Checked(table) : tableRows[k][c] # Damaged
                    /\ \A m \in IF table = "invocations"
                                THEN {items[k].of.in, items[k].of.out, items[k].of.latency}
                                ELSE {items[k].of[c] : c \in Counted(table)} : 2 * m < UsageMax
    BY <1>4, <1>5
  <1>7. ASSUME listed.ok, NEW k \in DOMAIN items
        PROVE  IF table = "invocations" THEN ReadsBack(items[k], listed.value[k])
                                        ELSE listed.value[k] = items[k].of
    <2> DEFINE item == items[k]
    <2>1. RowItem(item) /\ item.table = table /\ Loads(item.table, item.row)
      BY <1>2, <1>4, <1>7
    <2>2. listed.value[k] = RecordOf(item.table, item.row)
      BY <1>2, <1>4, <1>7
    <2> HIDE DEF item
    <2>3. CASE table = "invocations"
      <3>1. ReadsBack(item, listed.value[k])
        BY <2>1, <2>2, <2>3, InvocationReadsBack
      <3> QED
        BY <2>3, <3>1 DEF item
    <2>4. CASE table # "invocations"
      <3>1. listed.value[k] = item.of
        BY <2>1, <2>2, <2>4, OtherReadsBack
      <3> QED
        BY <2>4, <3>1 DEF item
    <2> QED
      BY <2>3, <2>4
  <1>8. ASSUME listed.ok, table \in {"checkpoints", "pushes"}
        PROVE  /\ Gathered(tableRows, column).ok
               /\ Gathered(tableRows, column).value = UNION {listed.value[k][column] : k \in DOMAIN items}
    <2>1. column \in Checked(table) /\ table # "invocations"
      BY <1>8 DEF Checked
    <2> HIDE DEF column
    <2>2. /\ Gathered(tableRows, column).ok
          /\ Gathered(tableRows, column).value = RecordColumn(items, table, column)
      <3>1. AllLoad(items, table)
        BY <1>b, <1>8
      <3>2. tableRows = ItemRows(items) /\ OfTable(items, n, table) /\ n \in Nat
        BY <1>3, <1>a
      <3> QED
        BY <2>1, <3>1, <3>2, GatheredRows
    <2>3. {RecordOf(table, items[k].row)[column] : k \in DOMAIN items} = {listed.value[k][column] : k \in DOMAIN items}
      BY <1>4, <1>8
    <2> QED
      BY Zenon, <2>2, <2>3 DEF RecordColumn
  <1> QED
    BY <1>6, <1>7, <1>8, Zenon DEF items, tableRows, listed, P

(* Rows read back as they were written.                                     *)
THEOREM RowsReadBack == InputSpec => []RowsRoundTrip
  <1> DEFINE Inv == Shape /\ RowsTyped
  <1>1. InputInit => Inv
    <2> SUFFICES ASSUME InputInit PROVE RowsTyped
      BY ShapeInit
    <2>1. input.items = <<>>
      BY ShapeInit
    <2>2. <<>> \in Seq({})
      OBVIOUS
    <2>3. input.items \in Seq({}) /\ \A x \in {} : RowItem(x)
      BY <2>1, <2>2
    <2>4. \E S : input.items \in Seq(S) /\ (\A x \in S : RowItem(x))
      <3> WITNESS {}
      <3> QED
        BY <2>3
    <2> QED
      BY <2>4, Zenon DEF RowsTyped
  <1>2. Inv /\ [InputNext]_input => Inv'
    BY ShapeStep, RowsTypedStep
  <1>3. Inv => RowsRoundTrip
    BY RowsTypedRoundTrip
  <1> QED
    BY <1>1, <1>2, <1>3, PTL DEF InputSpec

(* What recall is given: memories, told apart by their identifiers, in the  *)
(* order the store returned them.                                           *)
Memories(ms, n) ==
    /\ ms = [i \in 1..n |-> ms[i]]
    /\ \A i \in 1..n : IsMemory(ms[i])
    /\ \A i \in 1..n : \A j \in 1..n : ms[i].id = ms[j].id => i = j

(* The pairs of places of which the first outranks the second.              *)
RankOrder(ms, P) == {p \in P \X P : Outranks(ms, p[1], p[2])}

(* The place the rank gives a memory.                                       *)
RankPlace(ms, P, i) == PlaceIn(RankOrder(ms, P), P, i)

(* A function of 1..n is a sequence of n elements.                          *)
LEMMA MemoryList ==
    ASSUME NEW n \in Nat, NEW ms, ms = [i \in 1..n |-> ms[i]]
    PROVE  /\ DOMAIN ms = 1..n /\ Len(ms) = n
           /\ ms \in Seq({ms[i] : i \in 1..n})
  <1> DEFINE S == {ms[i] : i \in 1..n}
  <1>1. ms \in [1..n -> S]
    OBVIOUS
  <1> HIDE DEF S
  <1>2. ms \in Seq(S)
    BY <1>1
  <1>3. DOMAIN ms = 1..n /\ Len(ms) = n
    BY <1>1, <1>2
  <1> QED
    BY <1>2, <1>3 DEF S

(* A memory's score is a number, and so is its identifier.                  *)
LEMMA ScoreType ==
    ASSUME NEW m, IsMemory(m)
    PROVE  Effective(m) \in Int /\ m.id \in Nat
  <1>1. m.relevance \in Int /\ m.recency \in 0..RecencyWeight /\ m.id \in Nat
    BY DEF IsMemory
  <1>2. RecencyWeight \in Nat /\ TrustEpsilon \in Nat
    BY RankingAssumption
  <1>3. m.recency \in Int
    BY <1>1, <1>2
  <1> QED
    BY <1>1, <1>2, <1>3 DEF Effective

(* The rank is an order: any two memories differ in their identifiers.      *)
LEMMA RankOrders ==
    ASSUME NEW n \in Nat, NEW ms, Memories(ms, n), NEW P \in SUBSET (1..n)
    PROVE  /\ Orders(RankOrder(ms, P), P)
           /\ IsFiniteSet(P) /\ Cardinality(P) \in Nat
  <1> DEFINE R == RankOrder(ms, P)
  <1>1. \A x \in P : \A y \in P : <<x, y>> \in R <=> Outranks(ms, x, y)
    BY DEF RankOrder
  <1>2. \A i \in P : Effective(ms[i]) \in Int /\ ms[i].id \in Nat
    BY ScoreType DEF Memories
  <1>3. \A x \in P : \A y \in P : ms[x].id = ms[y].id => x = y
    BY DEF Memories
  <1> HIDE DEF R
  <1>4. \A x \in P : <<x, x>> \notin R
    BY <1>1, <1>2 DEF Outranks
  <1>5. \A x \in P : \A y \in P : x # y => <<x, y>> \in R \/ <<y, x>> \in R
    BY <1>1, <1>2, <1>3 DEF Outranks
  <1>6. \A x \in P : \A y \in P : \A z \in P : <<x, y>> \in R /\ <<y, z>> \in R => <<x, z>> \in R
    BY <1>1, <1>2 DEF Outranks
  <1>7. Orders(R, P)
    BY <1>4, <1>5, <1>6 DEF Orders
  <1>9. IsFiniteSet(P) /\ Cardinality(P) \in Nat
    <2>1. IsFiniteSet(1..n)
      BY FS_Interval
    <2>2. IsFiniteSet(P)
      BY Zenon, <2>1, FS_Subset
    <2> QED
      BY <2>2, FS_CardinalityType
  <1> QED
    BY <1>7, <1>9 DEF R

(* What the rank puts before a memory is what outranks it.                  *)
LEMMA EarlierRanked ==
    ASSUME NEW ms, NEW P, NEW i \in P
    PROVE  Earlier(RankOrder(ms, P), P, i) = {j \in P : Outranks(ms, j, i)}
  BY DEF Earlier, RankOrder

(* The rank has a memory for each of the places.                            *)
LEMMA RankTotal ==
    ASSUME NEW ms, NEW P
    PROVE  Rank(ms, P) = [k \in 1..Cardinality(P) |-> Rank(ms, P)[k]]
  <1> DEFINE at(k) == ms[CHOOSE i \in P : Cardinality({j \in P : Outranks(ms, j, i)}) = k - 1]
             r == Rank(ms, P)
  <1>1. r = [k \in 1..Cardinality(P) |-> at(k)]
    BY Zenon DEF Rank
  <1> HIDE DEF at, r
  <1>2. r = [k \in 1..Cardinality(P) |-> r[k]]
    BY <1>1
  <1> QED
    BY <1>2 DEF r

(* The rank puts each memory at its place.                                  *)
LEMMA RankItem ==
    ASSUME NEW n \in Nat, NEW ms, Memories(ms, n), NEW P \in SUBSET (1..n), NEW i \in P
    PROVE  /\ RankPlace(ms, P, i) + 1 \in 1..Cardinality(P)
           /\ Rank(ms, P)[RankPlace(ms, P, i) + 1] = ms[i]
  <1> DEFINE R == RankOrder(ms, P)
             k == RankPlace(ms, P, i) + 1
             HasPlace(x) == Cardinality({j \in P : Outranks(ms, j, x)}) = k - 1
  <1>1. Orders(R, P) /\ IsFiniteSet(P) /\ Cardinality(P) \in Nat
    BY RankOrders
  <1>2. RankPlace(ms, P, i) \in 0..(Cardinality(P) - 1)
    BY <1>1, PlaceType DEF RankPlace
  <1>3. k \in 1..Cardinality(P) /\ RankPlace(ms, P, i) = k - 1
    BY <1>1, <1>2
  <1>4. \A x \in P : HasPlace(x) <=> RankPlace(ms, P, x) = k - 1
    <2> TAKE x \in P
    <2>1. Earlier(R, P, x) = {j \in P : Outranks(ms, j, x)}
      BY EarlierRanked
    <2> HIDE DEF R, k
    <2> QED
      BY <2>1 DEF RankPlace, PlaceIn, R
  <1>5. \A x \in P : RankPlace(ms, P, x) = RankPlace(ms, P, i) => x = i
    BY Zenon, <1>1, PlaceOrders DEF RankPlace
  <1> DEFINE chosen == CHOOSE x \in P : HasPlace(x)
  <1>6. Rank(ms, P)[k] = ms[chosen]
    BY <1>3 DEF Rank
  <1>7. HasPlace(i)
    BY <1>3, <1>4
  <1> HIDE DEF HasPlace, k
  <1>8. chosen \in P /\ HasPlace(chosen)
    BY <1>7
  <1> HIDE DEF chosen
  <1>9. chosen = i
    BY <1>3, <1>4, <1>5, <1>8
  <1> QED
    BY <1>3, <1>6, <1>9 DEF k

(* Every place of the rank is a memory's.                                   *)
PlaceOfOne(ms, P, k) == \E i \in P : RankPlace(ms, P, i) + 1 = k

(* No place of the rank is left empty.                                      *)
LEMMA RankPlaces ==
    ASSUME NEW n \in Nat, NEW ms, Memories(ms, n), NEW P \in SUBSET (1..n), NEW k \in 1..Cardinality(P)
    PROVE  PlaceOfOne(ms, P, k)
  <1> DEFINE R == RankOrder(ms, P)
             m == k - 1
  <1>1. Orders(R, P) /\ IsFiniteSet(P) /\ Cardinality(P) \in Nat
    BY RankOrders
  <1>2. m \in Nat /\ m < Cardinality(P) /\ m + 1 = k
    BY <1>1
  <1> HIDE DEF R, m
  <1>3. IsPlace(R, P, m)
    BY <1>1, <1>2, EveryPlace
  <1>4. PICK i \in P : RankPlace(ms, P, i) = m
    BY <1>3 DEF IsPlace, RankPlace, R
  <1> QED
    BY <1>2, <1>4 DEF PlaceOfOne

Backwards(ns, ms, n) == ns = [i \in 1..n |-> ms[n - i + 1]]
Mirrored(Q, P, n) == Q = {i \in 1..n : n - i + 1 \in P}

(* The rank of a store read backwards is the same.                          *)
LEMMA RankReversed ==
    ASSUME NEW n \in Nat, NEW ms, Memories(ms, n), NEW P \in SUBSET (1..n),
           NEW ns, Backwards(ns, ms, n), NEW Q, Mirrored(Q, P, n)
    PROVE  Rank(ns, Q) = Rank(ms, P)
  <1> DEFINE Across(i) == n - i + 1
  <1>1. \A i \in 1..n : Across(i) \in 1..n /\ Across(Across(i)) = i
    OBVIOUS
  <1>2. \A i \in 1..n : ns[i] = ms[Across(i)] /\ ms[i] = ns[Across(i)]
    BY <1>1 DEF Backwards
  <1>3. Memories(ns, n)
    <2>1. \A i \in 1..n : IsMemory(ns[i])
      BY Zenon, <1>1, <1>2 DEF Memories
    <2>2. ns = [i \in 1..n |-> ns[i]]
      BY DEF Backwards
    <2>3. \A i \in 1..n : \A j \in 1..n : ns[i].id = ns[j].id => i = j
      <3> TAKE i \in 1..n
      <3> TAKE j \in 1..n
      <3>1. ns[i] = ms[Across(i)] /\ ns[j] = ms[Across(j)] /\ Across(i) \in 1..n /\ Across(j) \in 1..n
        BY <1>1, <1>2
      <3>2. ns[i].id = ns[j].id => Across(i) = Across(j)
        BY <3>1 DEF Memories
      <3> QED
        BY <1>1, <3>2
    <2> QED
      BY <2>1, <2>2, <2>3 DEF Memories
  <1>4. Q \in SUBSET (1..n) /\ \A i \in 1..n : (i \in P <=> Across(i) \in Q) /\ (i \in Q <=> Across(i) \in P)
    BY <1>1 DEF Mirrored
  <1> HIDE DEF Across
  <1>5. ASSUME NEW A \in SUBSET (1..n), NEW B \in SUBSET (1..n),
               \A i \in 1..n : i \in A <=> Across(i) \in B
        PROVE  Cardinality(A) = Cardinality(B)
    <2> DEFINE f == [i \in A |-> Across(i)]
    <2>1. f \in [A -> B]
      BY <1>5
    <2>2. \A i, j \in A : f[i] = f[j] => i = j
      BY <1>1
    <2>3. \A b \in B : \E a \in A : f[a] = b
      <3> TAKE b \in B
      <3>1. Across(b) \in A /\ f[Across(b)] = b
        BY <1>1, <1>5
      <3> QED
        BY Zenon, <3>1
    <2> HIDE DEF f
    <2>4. f \in Bijection(A, B)
      BY <2>1, <2>2, <2>3 DEF Bijection, Injection, Surjection, IsInjective
    <2>5. IsFiniteSet(A)
      <3>1. IsFiniteSet(1..n)
        BY FS_Interval
      <3> QED
        BY Zenon, <3>1, FS_Subset
    <2>6. ExistsBijection(A, B)
      BY <2>4 DEF ExistsBijection
    <2> QED
      BY <2>5, <2>6, FS_Bijection
  <1>6. Cardinality(P) = Cardinality(Q)
    BY <1>4, <1>5
  <1>7. ASSUME NEW i \in P
        PROVE  RankPlace(ns, Q, Across(i)) = RankPlace(ms, P, i) /\ Across(i) \in Q
    <2> DEFINE A == {j \in P : Outranks(ms, j, i)}
               B == {j \in Q : Outranks(ns, j, Across(i))}
    <2>1. Across(i) \in Q /\ Across(i) \in 1..n /\ ns[Across(i)] = ms[i]
      BY Zenon, <1>1, <1>2, <1>4
    <2>2. \A j \in P : Outranks(ms, j, i) <=> Outranks(ns, Across(j), Across(i))
      <3> TAKE j \in P
      <3>1. ns[Across(j)] = ms[j]
        BY <1>1, <1>2
      <3> QED
        BY <2>1, <3>1 DEF Outranks
    <2>3. \A j \in 1..n : j \in A <=> Across(j) \in B
      BY <1>4, <2>2
    <2>4. A \in SUBSET (1..n) /\ B \in SUBSET (1..n)
      BY Zenon, <1>4
    <2>5. A = Earlier(RankOrder(ms, P), P, i)
      BY EarlierRanked
    <2>6. B = Earlier(RankOrder(ns, Q), Q, Across(i))
      <3> DEFINE b == Across(i)
      <3>1. b \in Q /\ Q \in SUBSET (1..n)
        BY <1>4, <2>1
      <3> HIDE DEF b
      <3>2. Earlier(RankOrder(ns, Q), Q, b) = {j \in Q : Outranks(ns, j, b)}
        BY <3>1, EarlierRanked
      <3> QED
        BY <3>2 DEF b
    <2> HIDE DEF A, B
    <2>7. Cardinality(A) = Cardinality(B)
      BY <1>5, <2>3, <2>4
    <2> QED
      BY <2>1, <2>5, <2>6, <2>7 DEF RankPlace, PlaceIn
  <1>8. ASSUME NEW k \in 1..Cardinality(P)
        PROVE  Rank(ns, Q)[k] = Rank(ms, P)[k]
    <2>1. PlaceOfOne(ms, P, k)
      BY RankPlaces
    <2>2. PICK i \in P : RankPlace(ms, P, i) + 1 = k
      BY <2>1 DEF PlaceOfOne
    <2>3. Rank(ms, P)[k] = ms[i]
      BY <2>2, RankItem
    <2>4. Across(i) \in Q /\ RankPlace(ns, Q, Across(i)) + 1 = k
      BY <1>7, <2>2
    <2>5. Rank(ns, Q)[k] = ns[Across(i)]
      <3> DEFINE b == Across(i)
      <3>1. b \in Q /\ Q \in SUBSET (1..n) /\ RankPlace(ns, Q, b) + 1 = k
        BY <1>4, <2>4
      <3> HIDE DEF b
      <3>2. Rank(ns, Q)[RankPlace(ns, Q, b) + 1] = ns[b]
        BY <1>3, <3>1, RankItem
      <3> QED
        BY <3>1, <3>2 DEF b
    <2>6. ns[Across(i)] = ms[i]
      BY <1>2
    <2> QED
      BY <2>3, <2>5, <2>6
  <1>9. /\ Rank(ms, P) = [k \in 1..Cardinality(P) |-> Rank(ms, P)[k]]
        /\ Rank(ns, Q) = [k \in 1..Cardinality(Q) |-> Rank(ns, Q)[k]]
    BY RankTotal
  <1> QED
    BY <1>6, <1>8, <1>9

(* The memories recall returns: the first of the rank.                      *)
Least(a, b) == IF a < b THEN a ELSE b

(* Recall returns the start of the rank, as long as its limit allows.       *)
LEMMA RecallItems ==
    ASSUME NEW n \in Nat, NEW ms, Memories(ms, n), NEW kind, NEW limit \in Nat,
           NEW P, P = Wanted(ms, kind),
           NEW m, m = Least(limit, Cardinality(P)),
           NEW returned, returned = Recall(ms, kind, limit)
    PROVE  /\ P \in SUBSET (1..n) /\ Cardinality(P) \in Nat
           /\ m \in 0..Cardinality(P) /\ Len(returned) = m /\ DOMAIN returned = 1..m
           /\ \A k \in 1..m : returned[k] = Rank(ms, P)[k]
  <1> DEFINE c == Cardinality(P)
             r == Rank(ms, P)
  <1>1. DOMAIN ms = 1..n
    BY DEF Memories
  <1>2. P \in SUBSET (1..n)
    BY <1>1 DEF Wanted
  <1>3. c \in Nat
    BY <1>2, RankOrders
  <1>4. r = [k \in 1..c |-> r[k]]
    BY RankTotal
  <1>5. returned = SubSeq(r, 1, IF limit < Len(r) THEN limit ELSE Len(r))
    BY Zenon DEF Recall
  <1>6. m = Least(limit, c)
    OBVIOUS
  <1> HIDE DEF r, c
  <1>7. Len(r) = c /\ r \in Seq({r[k] : k \in 1..c})
    BY <1>3, <1>4, MemoryList
  <1>8. returned = SubSeq(r, 1, m)
    BY <1>5, <1>6, <1>7 DEF Least
  <1>9. m \in 0..c
    BY <1>3, <1>6 DEF Least
  <1>10. Len(returned) = m /\ DOMAIN returned = 1..m /\ \A k \in 1..m : returned[k] = r[k]
    BY <1>3, <1>7, <1>8, <1>9
  <1> QED
    BY <1>2, <1>3, <1>9, <1>10 DEF c, r

(* What ought to come before outranks.                                      *)
LEMMA OughtOutranks ==
    ASSUME NEW ms, NEW i, NEW j, IsMemory(ms[i]), IsMemory(ms[j]), Ought(ms, i, j)
    PROVE  Outranks(ms, i, j)
  <1> DEFINE a == ms[i]
             b == ms[j]
  <1>1. /\ a.relevance \in Int /\ a.recency \in 0..RecencyWeight /\ a.trusted \in BOOLEAN
        /\ b.relevance \in Int /\ b.recency \in 0..RecencyWeight /\ b.trusted \in BOOLEAN
    BY DEF IsMemory
  <1>2. RecencyWeight \in Nat /\ TrustEpsilon \in Nat
    BY RankingAssumption
  <1>3. \/ a.trusted /\ ~b.trusted /\ a.relevance + TrustEpsilon > b.relevance + RecencyWeight
        \/ a.trusted = b.trusted /\ a.relevance > b.relevance + RecencyWeight
    BY DEF Ought
  <1> HIDE DEF a, b
  <1>4. Effective(a) > Effective(b)
    <2>1. CASE a.trusted /\ b.trusted
      BY <1>1, <1>2, <1>3, <2>1 DEF Effective
    <2>2. CASE a.trusted /\ ~b.trusted
      <3>1. a.relevance + TrustEpsilon > b.relevance + RecencyWeight
        BY Zenon, <1>3, <2>2
      <3>2. Effective(a) = a.relevance + a.recency + TrustEpsilon /\ Effective(b) = b.relevance + b.recency
        BY <1>1, <1>2, <2>2 DEF Effective
      <3> QED
        BY <1>1, <1>2, <3>1, <3>2
    <2>3. CASE ~a.trusted
      <3>1. ~b.trusted /\ a.relevance > b.relevance + RecencyWeight
        BY <1>1, <1>3, <2>3
      <3> QED
        BY <1>1, <1>2, <2>3, <3>1 DEF Effective
    <2> QED
      BY <2>1, <2>2, <2>3
  <1> QED
    BY <1>4 DEF Outranks, a, b

(* A returned memory is at one place, its own in the rank.                  *)
LEMMA ReturnedPlace ==
    ASSUME NEW n \in Nat, NEW ms, Memories(ms, n), NEW kind, NEW limit \in Nat,
           NEW P, P = Wanted(ms, kind),
           NEW returned, returned = Recall(ms, kind, limit), NEW i \in P
    PROVE  {k \in DOMAIN returned : returned[k].id = ms[i].id} = {RankPlace(ms, P, i) + 1} \cap DOMAIN returned
  <1> DEFINE m == Least(limit, Cardinality(P))
             p == RankPlace(ms, P, i) + 1
  <1>1. /\ P \in SUBSET (1..n) /\ Cardinality(P) \in Nat
        /\ m \in 0..Cardinality(P) /\ DOMAIN returned = 1..m
        /\ \A k \in 1..m : returned[k] = Rank(ms, P)[k]
    BY RecallItems
  <1> HIDE DEF m
  <1>2. p \in 1..Cardinality(P) /\ Rank(ms, P)[p] = ms[i]
    BY <1>1, RankItem
  <1> HIDE DEF p
  <1>3. ASSUME NEW k \in 1..m, returned[k].id = ms[i].id
        PROVE  k = p
    <2>1. k \in 1..Cardinality(P)
      BY <1>1
    <2>2. PlaceOfOne(ms, P, k)
      BY <1>1, <2>1, RankPlaces
    <2>3. PICK j \in P : RankPlace(ms, P, j) + 1 = k
      BY <2>2 DEF PlaceOfOne
    <2>4. returned[k] = ms[j]
      BY <1>1, <2>3, RankItem
    <2>5. j = i
      BY <1>1, <1>3, <2>4 DEF Memories
    <2> QED
      BY <2>3, <2>5 DEF p
  <1>4. p \in 1..m => returned[p] = ms[i]
    BY <1>1, <1>2
  <1>5. {k \in DOMAIN returned : returned[k].id = ms[i].id} = {p} \cap DOMAIN returned
    BY <1>1, <1>3, <1>4
  <1> QED
    BY <1>5 DEF p

(* A store of recall: its memories are as they were saved, but for how      *)
(* recent they count as.                                                    *)
StoreOf(ms, n) ==
    /\ ms = [i \in 1..n |-> ms[i]]
    /\ \A i \in 1..n : IsMemory(ms[i]) /\ ms[i].id = i

StoreTyped == input.kind = "store" => \E n \in Nat : StoreOf(input.items, n)

(* A store is memories that recall can rank.                                *)
LEMMA StoreMemories ==
    ASSUME NEW n \in Nat, NEW ms, StoreOf(ms, n)
    PROVE  Memories(ms, n)
  BY DEF StoreOf, Memories

(* Reinforcement changes nothing but how recent a memory counts as.         *)
LEMMA StoreReinforced ==
    ASSUME NEW n \in Nat, NEW ms, StoreOf(ms, n), NEW returned
    PROVE  StoreOf(Reinforce(ms, returned), n)
  <1> DEFINE ns == Reinforce(ms, returned)
             again(i) == \E k \in DOMAIN returned : returned[k].id = ms[i].id
  <1>1. DOMAIN ms = 1..n /\ \A i \in 1..n : IsMemory(ms[i]) /\ ms[i].id = i
    BY DEF StoreOf
  <1>2. ns = [i \in 1..n |-> IF again(i) THEN [ms[i] EXCEPT !.recency = RecencyWeight] ELSE ms[i]]
    BY <1>1 DEF Reinforce
  <1> HIDE DEF ns, again
  <1>3. ASSUME NEW m, IsMemory(m)
        PROVE  /\ IsMemory([m EXCEPT !.recency = RecencyWeight])
               /\ [m EXCEPT !.recency = RecencyWeight].id = m.id
    <2> DEFINE e == [m EXCEPT !.recency = RecencyWeight]
    <2>1. RecencyWeight \in 0..RecencyWeight
      BY RankingAssumption
    <2>2. e = [id |-> m.id, relevance |-> m.relevance, recency |-> RecencyWeight, trusted |-> m.trusted,
               kind |-> m.kind, active |-> m.active]
      BY <1>3 DEF IsMemory
    <2>3. m.id \in Nat /\ m.relevance \in Int /\ m.trusted \in BOOLEAN /\ m.active \in BOOLEAN
      BY <1>3 DEF IsMemory
    <2> HIDE DEF e
    <2>4. IsMemory(e) /\ e.id = m.id
      BY <2>1, <2>2, <2>3 DEF IsMemory
    <2> QED
      BY <2>4 DEF e
  <1>4. \A i \in 1..n : IsMemory(ns[i]) /\ ns[i].id = i
    BY Zenon, <1>1, <1>2, <1>3
  <1>5. ns = [i \in 1..n |-> ns[i]]
    BY <1>2
  <1> QED
    BY <1>4, <1>5 DEF StoreOf, ns

(* A save adds a memory with an identifier of its own.                      *)
LEMMA StoreGrown ==
    ASSUME NEW n \in Nat, NEW ms, StoreOf(ms, n), NEW m, IsMemory(m), m.id = Len(ms) + 1
    PROVE  StoreOf(Append(ms, m), n + 1)
  <1> DEFINE ns == Append(ms, m)
  <1>1. /\ ms = [i \in 1..n |-> ms[i]]
        /\ \A i \in 1..n : IsMemory(ms[i]) /\ ms[i].id = i
    BY DEF StoreOf
  <1>2. Len(ms) = n /\ DOMAIN ms = 1..n /\ ms \in Seq({ms[i] : i \in 1..n})
    BY <1>1, MemoryList
  <1>3. ms \in Seq({ms[i] : i \in 1..n} \cup {m})
    BY <1>2
  <1>4. DOMAIN ns = 1..(n + 1) /\ ns[n + 1] = m /\ \A i \in 1..n : ns[i] = ms[i]
    BY <1>2, <1>3
  <1>5. ns = [i \in 1..(n + 1) |-> ns[i]]
    <2>1. ns \in Seq({ms[i] : i \in 1..n} \cup {m}) /\ Len(ns) = n + 1
      BY <1>2, <1>3
    <2> HIDE DEF ns
    <2> QED
      BY <2>1
  <1> HIDE DEF ns
  <1>6. \A i \in 1..(n + 1) : i = n + 1 \/ i \in 1..n
    OBVIOUS
  <1>7. \A i \in 1..(n + 1) : IsMemory(ns[i]) /\ ns[i].id = i
    BY <1>1, <1>2, <1>4, <1>6
  <1> QED
    BY <1>5, <1>7 DEF StoreOf, ns

(* Saves and recalls leave a store that recall can rank.                    *)
LEMMA StoreTypedStep ==
    ASSUME Shape, StoreTyped, [InputNext]_input
    PROVE  StoreTyped'
  <1>1. SUFFICES ASSUME input'.kind = "store"
                 PROVE  \E n \in Nat : StoreOf(input'.items, n)
    BY DEF StoreTyped
  <1>2. input.kind = "store"
    BY <1>1, ShapeStep
  <1>3. PICK n \in Nat : StoreOf(input.items, n)
    BY <1>2 DEF StoreTyped
  <1>4. CASE UNCHANGED input
    BY <1>3, <1>4
  <1>5. CASE Save
    <2>1. PICK m \in Stored : m.id = Len(input.items) + 1 /\ Grown("store", m)
      BY <1>5 DEF Save
    <2>2. IsMemory(m)
      BY AlgorithmsAssumption
    <2>3. input'.items = Append(input.items, m)
      BY <2>1, GrownKind
    <2>4. StoreOf(input'.items, n + 1) /\ n + 1 \in Nat
      BY <1>3, <2>1, <2>2, <2>3, StoreGrown
    <2> QED
      BY <2>4
  <1>6. CASE Recalls
    <2>1. PICK kind, limit : input' = [input EXCEPT !.items = Reinforce(@, Recall(@, kind, limit))]
      BY <1>6, Zenon DEF Recalls
    <2>2. input'.items = Reinforce(input.items, Recall(input.items, kind, limit))
      BY <2>1 DEF Shape
    <2>3. StoreOf(input'.items, n)
      BY <1>3, <2>2, StoreReinforced
    <2> QED
      BY <2>3
  <1> QED
    BY <1>2, <1>4, <1>5, <1>6, KindStep

(* What makes a recall lawful.                                              *)
Lawful(ms, kind, limit, returned, wanted) ==
    /\ Len(returned) = IF Cardinality(wanted) < limit THEN Cardinality(wanted) ELSE limit
    /\ Recall(Reverse(ms), kind, limit) = returned
    /\ \A i, j \in wanted :
         Ought(ms, i, j) /\ {k \in DOMAIN returned : returned[k].id = ms[j].id} # {} =>
             \E k \in {h \in DOMAIN returned : returned[h].id = ms[i].id} :
                 \A l \in {h \in DOMAIN returned : returned[h].id = ms[j].id} : k < l

(* Recall is lawful from every such store.                                  *)
LEMMA StoreRecalls ==
    ASSUME StoreTyped
    PROVE  RecallIsLawful
  <1> SUFFICES ASSUME input.kind = "store" PROVE RecallIsLawful
    BY Zenon DEF RecallIsLawful
  <1> DEFINE ms == input.items
  <1>1. PICK n \in Nat : StoreOf(ms, n)
    BY DEF StoreTyped
  <1>2. Memories(ms, n)
    BY <1>1, StoreMemories
  <1> HIDE DEF ms
  <1>3. DOMAIN ms = 1..n /\ Len(ms) = n
    BY <1>2, MemoryList DEF Memories
  <1>4. ASSUME NEW kind, NEW limit \in 1..RecallLimitMax,
               NEW returned, returned = Recall(ms, kind, limit),
               NEW wanted, wanted = Wanted(ms, kind)
        PROVE  Lawful(ms, kind, limit, returned, wanted)
    <2> DEFINE m == Least(limit, Cardinality(wanted))
    <2>1. limit \in Nat
      BY RankingAssumption
    <2>2. /\ wanted \in SUBSET (1..n) /\ Cardinality(wanted) \in Nat
          /\ Len(returned) = m /\ DOMAIN returned = 1..m
      BY <1>2, <1>4, <2>1, RecallItems
    <2>3. Len(returned) = IF Cardinality(wanted) < limit THEN Cardinality(wanted) ELSE limit
      BY <2>1, <2>2 DEF Least
    <2> HIDE DEF m
    <2>4. Recall(Reverse(ms), kind, limit) = returned
      <3> DEFINE ns == Reverse(ms)
                 Q == {i \in 1..n : n - i + 1 \in wanted}
      <3>1. ns = [i \in 1..n |-> ms[n - i + 1]]
        BY <1>3 DEF Reverse
      <3>2. Wanted(ns, kind) = Q
        <4>1. \A i \in 1..n : n - i + 1 \in 1..n /\ ns[i] = ms[n - i + 1]
          BY <3>1
        <4>2. DOMAIN ns = 1..n
          BY <3>1
        <4> HIDE DEF ns
        <4> QED
          BY <1>3, <1>4, <4>1, <4>2 DEF Wanted
      <3>3. Q = {i \in 1..n : n - i + 1 \in wanted}
        OBVIOUS
      <3> HIDE DEF ns, Q
      <3>4. Rank(ns, Q) = Rank(ms, wanted)
        <4>1. Backwards(ns, ms, n) /\ Mirrored(Q, wanted, n)
          BY <3>1, <3>3 DEF Backwards, Mirrored
        <4>2. Memories(ms, n) /\ wanted \in SUBSET (1..n)
          BY <1>2, <2>2
        <4> QED
          BY <4>1, <4>2, RankReversed
      <3>5. /\ Recall(ns, kind, limit) = LET r == Rank(ns, Q)
                                         IN  SubSeq(r, 1, IF limit < Len(r) THEN limit ELSE Len(r))
            /\ returned = LET r == Rank(ms, wanted)
                          IN  SubSeq(r, 1, IF limit < Len(r) THEN limit ELSE Len(r))
        BY <1>4, <3>2, Zenon DEF Recall
      <3> QED
        BY <3>4, <3>5, Zenon DEF ns
    <2>5. ASSUME NEW i \in wanted, NEW j \in wanted, Ought(ms, i, j),
                 {k \in DOMAIN returned : returned[k].id = ms[j].id} # {}
          PROVE  \E k \in {h \in DOMAIN returned : returned[h].id = ms[i].id} :
                     \A l \in {h \in DOMAIN returned : returned[h].id = ms[j].id} : k < l
      <3> DEFINE p == RankPlace(ms, wanted, i)
                 q == RankPlace(ms, wanted, j)
                 R == RankOrder(ms, wanted)
      <3>1. IsMemory(ms[i]) /\ IsMemory(ms[j])
        BY <1>2, <2>2 DEF Memories
      <3>2. Outranks(ms, i, j)
        BY <2>5, <3>1, OughtOutranks
      <3>3. <<i, j>> \in R
        BY <3>2 DEF RankOrder
      <3>4. p < q
        <4>1. Orders(R, wanted) /\ IsFiniteSet(wanted)
          BY <1>2, <2>2, RankOrders
        <4> HIDE DEF R
        <4>2. PlaceIn(R, wanted, i) < PlaceIn(R, wanted, j)
          BY <3>3, <4>1, PlaceGrows
        <4> QED
          BY <4>2 DEF RankPlace, R
      <3>5. {k \in DOMAIN returned : returned[k].id = ms[i].id} = {p + 1} \cap DOMAIN returned
        BY <1>2, <1>4, <2>1, ReturnedPlace
      <3>6. {k \in DOMAIN returned : returned[k].id = ms[j].id} = {q + 1} \cap DOMAIN returned
        BY <1>2, <1>4, <2>1, ReturnedPlace
      <3>7. p + 1 \in 1..Cardinality(wanted) /\ q + 1 \in 1..Cardinality(wanted) /\ m \in 0..Cardinality(wanted)
        <4>1. p + 1 \in 1..Cardinality(wanted)
          BY <1>2, <2>2, RankItem
        <4>2. q + 1 \in 1..Cardinality(wanted)
          BY <1>2, <2>2, RankItem
        <4>3. m \in 0..Cardinality(wanted)
          BY <1>2, <1>4, <2>1, RecallItems DEF m
        <4> QED
          BY <4>1, <4>2, <4>3
      <3>8. p \in Int /\ q \in Int
        <4>1. Orders(R, wanted) /\ IsFiniteSet(wanted)
          BY <1>2, <2>2, RankOrders
        <4> HIDE DEF R
        <4>2. PlaceIn(R, wanted, i) \in 0..(Cardinality(wanted) - 1) /\ PlaceIn(R, wanted, j) \in 0..(Cardinality(wanted) - 1)
          BY <4>1, PlaceType
        <4> QED
          BY <2>2, <4>2 DEF RankPlace, R
      <3> HIDE DEF p, q, R
      <3>9. q + 1 \in 1..m
        BY <2>2, <2>5, <3>6
      <3>10. p + 1 \in 1..m
        BY <2>2, <3>4, <3>7, <3>8, <3>9
      <3> QED
        BY <2>2, <3>4, <3>5, <3>6, <3>8, <3>10
    <2> QED
      BY <2>3, <2>4, <2>5 DEF Lawful
  <1> SUFFICES ASSUME NEW kind \in {"any"} \cup {m.kind : m \in Stored}, NEW limit \in 1..RecallLimitMax
               PROVE  LET returned == Recall(ms, kind, limit)
                          wanted == Wanted(ms, kind)
                          Place(i) == {k \in DOMAIN returned : returned[k].id = ms[i].id}
                      IN  /\ Len(returned) = IF Cardinality(wanted) < limit THEN Cardinality(wanted) ELSE limit
                          /\ Recall(Reverse(ms), kind, limit) = returned
                          /\ \A i, j \in wanted : Ought(ms, i, j) /\ Place(j) # {} =>
                                  \E k \in Place(i) : \A l \in Place(j) : k < l
    BY Zenon DEF RecallIsLawful, ms
  <1>5. Lawful(ms, kind, limit, Recall(ms, kind, limit), Wanted(ms, kind))
    BY <1>4
  <1> QED
    BY <1>5, Zenon DEF Lawful

(* Recall is lawful: its answer is the same in whatever order the store     *)
(* returned its rows, and what ought to come before a memory it returns,    *)
(* comes before it, for every store that saves and recalls may leave.       *)
THEOREM RecallRanks == InputSpec => []RecallIsLawful
  <1> DEFINE Inv == Shape /\ StoreTyped
  <1>1. InputInit => Inv
    <2> SUFFICES ASSUME InputInit PROVE StoreTyped
      BY ShapeInit
    <2>1. input.items = <<>>
      BY ShapeInit
    <2>2. input.items = [i \in 1..0 |-> input.items[i]]
      BY <2>1
    <2>3. StoreOf(input.items, 0)
      BY <2>2 DEF StoreOf
    <2> QED
      BY <2>3 DEF StoreTyped
  <1>2. Inv /\ [InputNext]_input => Inv'
    BY ShapeStep, StoreTypedStep
  <1>3. Inv => RecallIsLawful
    BY StoreRecalls
  <1> QED
    BY <1>1, <1>2, <1>3, PTL DEF InputSpec

-----------------------------------------------------------------------------
(* Lists.  The elements of s at the places of P, in an order R of them.     *)
ListOf(s, R, P) ==
    [k \in 1..Cardinality(P) |-> s[CHOOSE i \in P : PlaceIn(R, P, i) = k - 1]]

(* q lists them, its k-th element being that at the place at[k].            *)
Along(q, s, R, P, at) ==
    /\ Cardinality(P) \in Nat /\ DOMAIN q = 1..Cardinality(P)
    /\ at \in [1..Cardinality(P) -> P]
    /\ \A k \in 1..Cardinality(P) : q[k] = s[at[k]]
    /\ \A i \in P : \E k \in 1..Cardinality(P) : at[k] = i
    /\ \A k, l \in 1..Cardinality(P) : k < l <=> <<at[k], at[l]>> \in R

(* A list has a place for each of its elements, in their order.             *)
LEMMA ListAlong ==
    ASSUME NEW P, IsFiniteSet(P), NEW R, Orders(R, P), NEW s
    PROVE  \E at : Along(ListOf(s, R, P), s, R, P, at)
  <1> DEFINE n == Cardinality(P)
             at == [k \in 1..n |-> CHOOSE i \in P : PlaceIn(R, P, i) = k - 1]
             q == ListOf(s, R, P)
  <1>1. n \in Nat
    BY FS_CardinalityType
  <1>2. DOMAIN q = 1..n /\ \A k \in 1..n : q[k] = s[at[k]]
    BY DEF ListOf
  <1>3. ASSUME NEW k \in 1..n PROVE at[k] \in P /\ PlaceIn(R, P, at[k]) = k - 1
    <2> DEFINE m == k - 1
    <2>1. m \in Nat /\ m < n
      BY <1>1
    <2> HIDE DEF m
    <2>2. IsPlace(R, P, m)
      BY <2>1, EveryPlace
    <2>3. \E i \in P : PlaceIn(R, P, i) = m
      BY <2>2 DEF IsPlace
    <2> QED
      BY <2>3 DEF m
  <1>4. at = [k \in 1..n |-> at[k]]
    OBVIOUS
  <1> HIDE DEF at, q
  <1>5. at \in [1..n -> P]
    BY <1>3, <1>4
  <1>6. ASSUME NEW i \in P PROVE \E k \in 1..n : at[k] = i
    <2> DEFINE k == PlaceIn(R, P, i) + 1
    <2>1. k \in 1..n /\ k - 1 = PlaceIn(R, P, i)
      BY <1>1, PlaceType
    <2> HIDE DEF k
    <2>2. at[k] \in P /\ PlaceIn(R, P, at[k]) = PlaceIn(R, P, i)
      BY <1>3, <2>1
    <2>3. at[k] = i
      BY Zenon, <2>2, PlaceOrders
    <2> QED
      BY <2>1, <2>3
  <1>7. ASSUME NEW k \in 1..n, NEW l \in 1..n PROVE k < l <=> <<at[k], at[l]>> \in R
    <2>1. /\ at[k] \in P /\ at[l] \in P
          /\ PlaceIn(R, P, at[k]) = k - 1 /\ PlaceIn(R, P, at[l]) = l - 1
      BY <1>3
    <2>2. PlaceIn(R, P, at[k]) < PlaceIn(R, P, at[l]) <=> <<at[k], at[l]>> \in R
      BY <2>1, PlaceOrders
    <2> QED
      BY <1>1, <2>1, <2>2
  <1>8. Along(q, s, R, P, at)
    BY <1>1, <1>2, <1>5, <1>6, <1>7 DEF Along
  <1> QED
    BY <1>8 DEF q

(* A filter lists what it keeps in the order of the places.                 *)
KeepsAt(q, s, P, at) ==
    /\ Cardinality(P) \in Nat /\ DOMAIN q = 1..Cardinality(P)
    /\ at \in [1..Cardinality(P) -> P]
    /\ \A k \in 1..Cardinality(P) : q[k] = s[at[k]]
    /\ \A i \in P : \E k \in 1..Cardinality(P) : at[k] = i
    /\ \A k, l \in 1..Cardinality(P) : k < l <=> at[k] < at[l]

(* The filter of a sequence has a place for each element it keeps.          *)
LEMMA PickedKeeps ==
    ASSUME NEW n \in Nat, NEW P \in SUBSET (1..n), NEW s
    PROVE  \E at : KeepsAt(Picked(s, P), s, P, at)
  <1>1. IsFiniteSet(P) /\ P \in SUBSET Nat
    <2>1. IsFiniteSet(1..n) /\ 1..n \subseteq Nat
      BY FS_Interval
    <2> QED
      BY Zenon, <2>1, FS_Subset
  <1> DEFINE R == InOrder(P)
  <1>2. Orders(R, P) /\ \A x \in P : Earlier(R, P, x) = {y \in P : y < x}
    BY <1>1, NumbersInOrder
  <1>3. \A x \in P : \A y \in P : <<x, y>> \in R <=> x < y
    BY DEF InOrder
  <1> HIDE DEF R
  <1>4. Picked(s, P) = ListOf(s, R, P)
    <2>1. \A k : \A i \in P : Cardinality({j \in P : j < i}) = k - 1 <=> PlaceIn(R, P, i) = k - 1
      BY <1>2, Zenon DEF PlaceIn
    <2>2. \A k : (CHOOSE i \in P : Cardinality({j \in P : j < i}) = k - 1)
                 = (CHOOSE i \in P : PlaceIn(R, P, i) = k - 1)
      BY <2>1, Zenon
    <2> DEFINE here(k) == CHOOSE i \in P : Cardinality({j \in P : j < i}) = k - 1
               there(k) == CHOOSE i \in P : PlaceIn(R, P, i) = k - 1
    <2>3. Picked(s, P) = [k \in 1..Cardinality(P) |-> s[here(k)]]
      BY Zenon DEF Picked
    <2>4. ListOf(s, R, P) = [k \in 1..Cardinality(P) |-> s[there(k)]]
      BY Zenon DEF ListOf
    <2>5. \A k : here(k) = there(k)
      BY <2>2, Zenon
    <2> HIDE DEF here, there
    <2> QED
      BY <2>3, <2>4, <2>5
  <1>5. PICK at : Along(ListOf(s, R, P), s, R, P, at)
    BY <1>1, <1>2, ListAlong, Zenon
  <1>6. Along(Picked(s, P), s, R, P, at)
    BY <1>4, <1>5
  <1>7. at \in [1..Cardinality(P) -> P]
    BY <1>6 DEF Along
  <1>8. \A k, l \in 1..Cardinality(P) : k < l <=> at[k] < at[l]
    BY Zenon, <1>3, <1>6, <1>7 DEF Along
  <1>9. KeepsAt(Picked(s, P), s, P, at)
    BY <1>6, <1>8 DEF Along, KeepsAt
  <1> QED
    BY <1>9

(* In an order of finitely many elements, one comes before all others.      *)
ComesFirst(R, S, x) == x \in S /\ \A y \in S : y # x => <<x, y>> \in R

(* A finite set that is not empty has such an element.                      *)
LEMMA FirstOfOrder ==
    ASSUME NEW S, IsFiniteSet(S), S # {}, NEW R, Orders(R, S)
    PROVE  \E x : ComesFirst(R, S, x)
  <1>1. Cardinality(S) \in Nat /\ 0 < Cardinality(S)
    BY FS_CardinalityType, FS_EmptySet
  <1>2. IsPlace(R, S, 0)
    BY <1>1, EveryPlace
  <1>3. PICK x \in S : PlaceIn(R, S, x) = 0
    BY <1>2 DEF IsPlace
  <1>4. ASSUME NEW y \in S, y # x PROVE <<x, y>> \in R
    <2>1. <<y, x>> \in R => PlaceIn(R, S, y) < PlaceIn(R, S, x)
      BY PlaceGrows
    <2>2. PlaceIn(R, S, y) \in Nat
      BY <1>1, PlaceType
    <2>3. <<y, x>> \notin R
      BY <1>3, <2>1, <2>2
    <2> QED
      BY <1>4, <2>3 DEF Orders
  <1> QED
    BY <1>3, <1>4 DEF ComesFirst

(* The largest of n measures: the last one, or the first one.               *)
LastLargest(f, n, i) == i \in 1..n /\ \A j \in 1..n : f[i] > f[j] \/ (f[i] = f[j] /\ i >= j)
FirstLargest(f, n, i) == i \in 1..n /\ \A j \in 1..n : f[i] > f[j] \/ (f[i] = f[j] /\ i <= j)

(* Finitely many measures have a last and a first largest one.              *)
LEMMA LargestExist ==
    ASSUME NEW n \in Nat, n # 0, NEW f \in [1..n -> Int]
    PROVE  /\ \E i : LastLargest(f, n, i)
           /\ \E i : FirstLargest(f, n, i)
  <1> DEFINE S == 1..n
             Late == {p \in S \X S : f[p[1]] > f[p[2]] \/ (f[p[1]] = f[p[2]] /\ p[1] > p[2])}
             Soon == {p \in S \X S : f[p[1]] > f[p[2]] \/ (f[p[1]] = f[p[2]] /\ p[1] < p[2])}
  <1>1. IsFiniteSet(S) /\ S # {} /\ S \subseteq Int
    <2>1. IsFiniteSet(S)
      BY FS_Interval
    <2>2. 1 \in S
      OBVIOUS
    <2> QED
      BY <2>1, <2>2
  <1>2. \A x, y \in S : <<x, y>> \in Late <=> f[x] > f[y] \/ (f[x] = f[y] /\ x > y)
    OBVIOUS
  <1>3. \A x, y \in S : <<x, y>> \in Soon <=> f[x] > f[y] \/ (f[x] = f[y] /\ x < y)
    OBVIOUS
  <1>4. \A x \in S : f[x] \in Int /\ x \in Int
    BY <1>1
  <1> HIDE DEF S, Late, Soon
  <1>5. Orders(Late, S)
    <2>1. \A x \in S : <<x, x>> \notin Late
      BY <1>2, <1>4
    <2>2. ASSUME NEW x \in S, NEW y \in S, x # y PROVE <<x, y>> \in Late \/ <<y, x>> \in Late
      <3>1. f[x] \in Int /\ f[y] \in Int /\ x \in Int /\ y \in Int
        BY <1>4
      <3>2. \/ f[x] > f[y] \/ (f[x] = f[y] /\ x > y)
            \/ f[y] > f[x] \/ (f[y] = f[x] /\ y > x)
        BY <2>2, <3>1
      <3> QED
        BY <1>2, <3>2
    <2>3. ASSUME NEW x \in S, NEW y \in S, NEW z \in S, <<x, y>> \in Late, <<y, z>> \in Late
          PROVE  <<x, z>> \in Late
      <3>1. f[x] \in Int /\ f[y] \in Int /\ f[z] \in Int /\ x \in Int /\ y \in Int /\ z \in Int
        BY <1>4
      <3>2. f[x] > f[y] \/ (f[x] = f[y] /\ x > y)
        BY <1>2, <2>3
      <3>3. f[y] > f[z] \/ (f[y] = f[z] /\ y > z)
        BY <1>2, <2>3
      <3>4. f[x] > f[z] \/ (f[x] = f[z] /\ x > z)
        BY <3>1, <3>2, <3>3
      <3> QED
        BY <1>2, <3>4
    <2> QED
      BY <2>1, <2>2, <2>3 DEF Orders
  <1>6. Orders(Soon, S)
    <2>1. \A x \in S : <<x, x>> \notin Soon
      BY <1>3, <1>4
    <2>2. ASSUME NEW x \in S, NEW y \in S, x # y PROVE <<x, y>> \in Soon \/ <<y, x>> \in Soon
      <3>1. f[x] \in Int /\ f[y] \in Int /\ x \in Int /\ y \in Int
        BY <1>4
      <3>2. \/ f[x] > f[y] \/ (f[x] = f[y] /\ x < y)
            \/ f[y] > f[x] \/ (f[y] = f[x] /\ y < x)
        BY <2>2, <3>1
      <3> QED
        BY <1>3, <3>2
    <2>3. ASSUME NEW x \in S, NEW y \in S, NEW z \in S, <<x, y>> \in Soon, <<y, z>> \in Soon
          PROVE  <<x, z>> \in Soon
      <3>1. f[x] \in Int /\ f[y] \in Int /\ f[z] \in Int /\ x \in Int /\ y \in Int /\ z \in Int
        BY <1>4
      <3>2. f[x] > f[y] \/ (f[x] = f[y] /\ x < y)
        BY <1>3, <2>3
      <3>3. f[y] > f[z] \/ (f[y] = f[z] /\ y < z)
        BY <1>3, <2>3
      <3>4. f[x] > f[z] \/ (f[x] = f[z] /\ x < z)
        BY <3>1, <3>2, <3>3
      <3> QED
        BY <1>3, <3>4
    <2> QED
      BY <2>1, <2>2, <2>3 DEF Orders
  <1>7. PICK x : ComesFirst(Late, S, x)
    BY <1>1, <1>5, FirstOfOrder
  <1>8. PICK y : ComesFirst(Soon, S, y)
    BY <1>1, <1>6, FirstOfOrder
  <1>9. LastLargest(f, n, x)
    <2>1. x \in S /\ \A j \in S : j # x => f[x] > f[j] \/ (f[x] = f[j] /\ x > j)
      BY Zenon, <1>2, <1>7 DEF ComesFirst
    <2>2. \A j \in S : f[x] > f[j] \/ (f[x] = f[j] /\ x >= j)
      BY <1>4, <2>1
    <2> QED
      BY <2>1, <2>2 DEF LastLargest, S
  <1>10. FirstLargest(f, n, y)
    <2>1. y \in S /\ \A j \in S : j # y => f[y] > f[j] \/ (f[y] = f[j] /\ y < j)
      BY Zenon, <1>3, <1>8 DEF ComesFirst
    <2>2. \A j \in S : f[y] > f[j] \/ (f[y] = f[j] /\ y <= j)
      BY <1>4, <2>1
    <2> QED
      BY <2>1, <2>2 DEF FirstLargest, S
  <1> QED
    BY <1>9, <1>10

-----------------------------------------------------------------------------
(* Flattening.  Each element of q is one of the sequence src[i] of the      *)
(* first n of ss, all of theirs are in it, and those of an earlier sequence *)
(* come first.                                                              *)
Sourced(q, ss, n, src) ==
    /\ src \in [1..Len(q) -> 1..n]
    /\ \A i \in 1..Len(q) : \E j \in DOMAIN ss[src[i]] : q[i] = ss[src[i]][j]
    /\ \A k \in 1..n : \A j \in DOMAIN ss[k] : \E i \in 1..Len(q) : src[i] = k /\ q[i] = ss[k][j]
    /\ \A i, j \in 1..Len(q) : i < j => src[i] <= src[j]

Flattens(q, ss, n) == \E src : Sourced(q, ss, n, src)

(* One more sequence comes after all there is.                              *)
LEMMA FlattenMore ==
    ASSUME NEW S, NEW n \in Nat, NEW ss, NEW q \in Seq(S), NEW t \in Seq(S), t = ss[n + 1],
           Flattens(q, ss, n)
    PROVE  Flattens(q \o t, ss, n + 1)
  <1> DEFINE m == Len(q)
             r == q \o t
  <1>1. PICK src : Sourced(q, ss, n, src)
    BY DEF Flattens
  <1>2. /\ src \in [1..m -> 1..n]
        /\ \A i \in 1..m : \E j \in DOMAIN ss[src[i]] : q[i] = ss[src[i]][j]
        /\ \A k \in 1..n : \A j \in DOMAIN ss[k] : \E i \in 1..m : src[i] = k /\ q[i] = ss[k][j]
        /\ \A i, j \in 1..m : i < j => src[i] <= src[j]
    BY <1>1, Zenon DEF Sourced
  <1>3. /\ m \in Nat /\ Len(t) \in Nat /\ DOMAIN t = 1..Len(t)
        /\ Len(r) = m + Len(t)
        /\ \A i \in 1..m : r[i] = q[i]
        /\ \A j \in 1..Len(t) : r[m + j] = t[j]
    OBVIOUS
  <1> DEFINE src2 == [i \in 1..Len(r) |-> IF i <= m THEN src[i] ELSE n + 1]
  <1> HIDE DEF m, r
  <1>4. /\ \A i \in 1..m : i \in 1..Len(r) /\ src2[i] = src[i] /\ src2[i] \in 1..n
        /\ \A i \in 1..Len(r) : i \notin 1..m => src2[i] = n + 1
    <2>1. ASSUME NEW i \in 1..m PROVE i \in 1..Len(r) /\ i <= m
      BY <1>3
    <2>2. ASSUME NEW i \in 1..Len(r), i \notin 1..m PROVE ~(i <= m)
      BY <1>3, <2>2
    <2> QED
      BY Zenon, <1>2, <2>1, <2>2
  <1>x. src2 = [i \in 1..Len(r) |-> src2[i]]
    OBVIOUS
  <1> HIDE DEF src2
  <1>5. src2 \in [1..Len(r) -> 1..(n + 1)]
    <2>1. ASSUME NEW i \in 1..Len(r) PROVE src2[i] \in 1..(n + 1)
      <3>1. src2[i] \in 1..n \/ src2[i] = n + 1
        BY <1>4
      <3> QED
        BY <3>1
    <2> QED
      BY <1>x, <2>1
  <1>6. ASSUME NEW i \in 1..Len(r), i \notin 1..m
        PROVE  /\ i - m \in 1..Len(t) /\ r[i] = t[i - m]
    <2>1. i - m \in 1..Len(t) /\ m + (i - m) = i
      BY <1>3, <1>6
    <2>2. r[m + (i - m)] = t[i - m]
      BY <1>3, <2>1
    <2> QED
      BY <2>1, <2>2
  <1>7. ASSUME NEW i \in 1..Len(r) PROVE \E j \in DOMAIN ss[src2[i]] : r[i] = ss[src2[i]][j]
    <2>1. CASE i \in 1..m
      <3>1. \E j \in DOMAIN ss[src[i]] : q[i] = ss[src[i]][j]
        BY <1>2, <2>1
      <3>2. src2[i] = src[i] /\ r[i] = q[i]
        BY <1>3, <1>4, <2>1
      <3> QED
        BY <3>1, <3>2
    <2>2. CASE i \notin 1..m
      <3>1. src2[i] = n + 1
        BY <1>4, <2>2
      <3>2. i - m \in DOMAIN t /\ r[i] = t[i - m]
        BY <1>3, <1>6, <2>2
      <3> QED
        BY <3>1, <3>2
    <2> QED
      BY <2>1, <2>2
  <1>8. ASSUME NEW k \in 1..(n + 1), NEW j \in DOMAIN ss[k]
        PROVE  \E i \in 1..Len(r) : src2[i] = k /\ r[i] = ss[k][j]
    <2>1. CASE k \in 1..n
      <3>1. PICK i \in 1..m : src[i] = k /\ q[i] = ss[k][j]
        BY <1>2, <1>8, <2>1
      <3> QED
        BY <1>3, <1>4, <3>1
    <2>2. CASE k = n + 1
      <3>1. j \in 1..Len(t)
        BY <1>3, <1>8, <2>2
      <3>2. m + j \in 1..Len(r) /\ m + j \notin 1..m
        BY <1>3, <3>1
      <3>3. src2[m + j] = n + 1 /\ r[m + j] = t[j]
        BY Zenon, <1>3, <1>4, <3>1, <3>2
      <3> QED
        BY <2>2, <3>2, <3>3
    <2> QED
      BY <2>1, <2>2
  <1>9. ASSUME NEW i \in 1..Len(r), NEW j \in 1..Len(r), i < j PROVE src2[i] <= src2[j]
    <2>1. CASE j \in 1..m
      <3>1. i \in 1..m
        BY <1>3, <1>9, <2>1
      <3> QED
        BY <1>2, <1>4, <1>9, <2>1, <3>1
    <2>2. CASE j \notin 1..m
      <3>1. src2[j] = n + 1 /\ src2[i] \in 1..(n + 1)
        BY <1>4, <1>5, <2>2
      <3> QED
        BY <3>1
    <2> QED
      BY <2>1, <2>2
  <1>10. Sourced(r, ss, n + 1, src2)
    BY <1>5, <1>7, <1>8, <1>9, Zenon DEF Sourced
  <1> QED
    BY <1>10, Zenon DEF Flattens, r

(* Nothing is made of nothing.                                              *)
LEMMA FlattenNone ==
    ASSUME NEW ss
    PROVE  Flattens(<<>>, ss, 0)
  <1> DEFINE q == <<>>
             src == [i \in 1..0 |-> i]
  <1>1. Len(q) = 0
    OBVIOUS
  <1>2. 1..0 = {}
    OBVIOUS
  <1>3. src \in [1..0 -> 1..0]
    OBVIOUS
  <1> HIDE DEF q, src
  <1>4. Sourced(q, ss, 0, src)
    BY <1>1, <1>2, <1>3 DEF Sourced
  <1> QED
    BY <1>4 DEF Flattens, q

(* The sequences are put together one after the other.                      *)
PutsTogether(f, ss, n, S) ==
    /\ f = [i \in 1..n |-> f[i]]
    /\ \A i \in 1..n : f[i] \in Seq(S)
    /\ \A i \in 1..n : f[i] = IF i = 1 THEN ss[i] ELSE f[i - 1] \o ss[i]

(* There is a sequence of such sequences, as many as are wanted.            *)
LEMMA TogetherExists ==
    ASSUME NEW S, NEW n \in Nat, NEW ss, \A i \in 1..n : ss[i] \in Seq(S)
    PROVE  \E f : PutsTogether(f, ss, n, S)
  <1> DEFINE B == {m \in Nat : m <= n => \E f : PutsTogether(f, ss, m, S)}
  <1>1. 0 \in B
    <2> DEFINE f == [i \in 1..0 |-> ss[i]]
    <2>1. f = [i \in 1..0 |-> f[i]] /\ 1..0 = {}
      OBVIOUS
    <2> HIDE DEF f
    <2>2. PutsTogether(f, ss, 0, S)
      BY <2>1 DEF PutsTogether
    <2> QED
      BY <2>2
  <1>2. ASSUME NEW m \in Nat, m \in B PROVE m + 1 \in B
    <2> SUFFICES ASSUME m + 1 <= n PROVE \E f : PutsTogether(f, ss, m + 1, S)
      OBVIOUS
    <2>1. PICK f : PutsTogether(f, ss, m, S)
      BY <1>2
    <2> DEFINE last == IF m = 0 THEN ss[1] ELSE f[m] \o ss[m + 1]
               g == [i \in 1..(m + 1) |-> IF i = m + 1 THEN last ELSE f[i]]
    <2>2. last \in Seq(S)
      <3>1. ss[m + 1] \in Seq(S) /\ ss[1] \in Seq(S)
        OBVIOUS
      <3>2. m # 0 => f[m] \in Seq(S)
        BY <2>1 DEF PutsTogether
      <3> QED
        BY <3>1, <3>2 DEF last
    <2> HIDE DEF last
    <2>3. DOMAIN g = 1..(m + 1) /\ g[m + 1] = last /\ \A i \in 1..m : i \in 1..(m + 1) /\ g[i] = f[i]
      <3>1. m + 1 \in 1..(m + 1)
        OBVIOUS
      <3>2. \A i \in 1..m : i \in 1..(m + 1) /\ i # m + 1
        OBVIOUS
      <3> QED
        BY <3>1, <3>2
    <2>4. (m + 1) - 1 = m /\ (m + 1 = 1 <=> m = 0) /\ (m # 0 => m \in 1..m)
      OBVIOUS
    <2>5. \A i \in 1..(m + 1) : i = m + 1 \/ i \in 1..m
      OBVIOUS
    <2>6. \A i \in 1..m : i - 1 = 0 \/ i - 1 \in 1..m
      OBVIOUS
    <2>x. g = [i \in 1..(m + 1) |-> g[i]]
      OBVIOUS
    <2> HIDE DEF g
    <2>7. g[m + 1] = IF m + 1 = 1 THEN ss[m + 1] ELSE g[(m + 1) - 1] \o ss[m + 1]
      BY <2>3, <2>4 DEF last
    <2>8. ASSUME NEW i \in 1..m PROVE g[i] \in Seq(S) /\ g[i] = IF i = 1 THEN ss[i] ELSE g[i - 1] \o ss[i]
      <3>1. f[i] \in Seq(S) /\ f[i] = IF i = 1 THEN ss[i] ELSE f[i - 1] \o ss[i]
        BY Zenon, <2>1 DEF PutsTogether
      <3>2. i # 1 => i - 1 \in 1..m
        BY <2>6
      <3> QED
        BY Zenon, <2>3, <3>1, <3>2
    <2>9. PutsTogether(g, ss, m + 1, S)
      BY Zenon, <2>x, <2>2, <2>3, <2>5, <2>7, <2>8 DEF PutsTogether
    <2> QED
      BY <2>9
  <1> HIDE DEF B
  <1>3. n \in B
    BY <1>1, <1>2, NumberInduction
  <1> QED
    BY <1>3 DEF B

(* n sequences of elements of S, and what becomes of them.                  *)
Sequences(ss, n, S) == ss = [i \in 1..n |-> ss[i]] /\ \A i \in 1..n : ss[i] \in Seq(S)

EndsIn(q, ss, n, S) == \E f : PutsTogether(f, ss, n, S) /\ q = f[n]

(* Flattening puts the sequences together.                                  *)
LEMMA FlattenIs ==
    ASSUME NEW S, NEW ss, NEW n \in Nat, n = Len(ss), Sequences(ss, n, S)
    PROVE  /\ n = 0 => FlattenSeq(ss) = ss
           /\ n # 0 => EndsIn(FlattenSeq(ss), ss, n, S)
  <1>1. n = 0 => FlattenSeq(ss) = ss
    BY DEF FlattenSeq
  <1>0. \A i \in 1..n : ss[i] \in Seq(S)
    BY Zenon DEF Sequences
  <1>2. ASSUME n # 0 PROVE EndsIn(FlattenSeq(ss), ss, n, S)
    <2> DEFINE Is(f) == f = [i \in 1..n |-> IF i = 1 THEN ss[i] ELSE f[i - 1] \o ss[i]]
               flat == CHOOSE f : Is(f)
    <2>1. FlattenSeq(ss) = flat[n]
      BY <1>2, Zenon DEF FlattenSeq
    <2>2. PICK g : PutsTogether(g, ss, n, S)
      BY <1>0, TogetherExists, Zenon
    <2> DEFINE step(f) == [i \in 1..n |-> IF i = 1 THEN ss[i] ELSE f[i - 1] \o ss[i]]
    <2>3. Is(g)
      <3>1. g = [i \in 1..n |-> g[i]]
        BY <2>2, Zenon DEF PutsTogether
      <3>2. \A i \in 1..n : g[i] = IF i = 1 THEN ss[i] ELSE g[i - 1] \o ss[i]
        BY <2>2, Zenon DEF PutsTogether
      <3> QED
        BY Zenon, <3>1, <3>2
    <2>4. Is(flat)
      BY <2>3, Zenon
    <2> HIDE DEF flat
    <2>5. /\ flat = [i \in 1..n |-> flat[i]]
          /\ \A i \in 1..n : flat[i] = IF i = 1 THEN ss[i] ELSE flat[i - 1] \o ss[i]
      BY Zenon, <2>4
    <2> DEFINE B == {k \in Nat : k \in 1..n => flat[k] = g[k]}
    <2>6. 0 \in B
      OBVIOUS
    <2>7. ASSUME NEW k \in Nat, k \in B PROVE k + 1 \in B
      <3> SUFFICES ASSUME k + 1 \in 1..n PROVE flat[k + 1] = g[k + 1]
        OBVIOUS
      <3>1. /\ flat[k + 1] = IF k + 1 = 1 THEN ss[k + 1] ELSE flat[(k + 1) - 1] \o ss[k + 1]
            /\ g[k + 1] = IF k + 1 = 1 THEN ss[k + 1] ELSE g[(k + 1) - 1] \o ss[k + 1]
        BY <2>2, <2>5, Zenon DEF PutsTogether
      <3>2. k + 1 # 1 => (k + 1) - 1 = k /\ flat[k] = g[k]
        BY <2>7
      <3> QED
        BY <3>1, <3>2
    <2> HIDE DEF B
    <2>8. Nat \subseteq B
      BY <2>6, <2>7, NumberInduction
    <2>9. \A k \in 1..n : flat[k] = g[k]
      BY <2>8 DEF B
    <2>10. flat[n] = g[n]
      BY <1>2, <2>9
    <2> QED
      BY <2>1, <2>2, <2>10, Zenon DEF EndsIn
  <1> QED
    BY <1>1, <1>2

(* What flattening makes is made of the sequences, in their order.          *)
LEMMA FlattenFlattens ==
    ASSUME NEW S, NEW ss, NEW n \in Nat, Sequences(ss, n, S)
    PROVE  FlattenSeq(ss) \in Seq(S) /\ Flattens(FlattenSeq(ss), ss, n)
  <1>0. n = Len(ss) /\ DOMAIN ss = 1..n /\ ss \in Seq(Seq(S))
    <2>1. ss \in [1..n -> Seq(S)]
      BY DEF Sequences
    <2> QED
      BY <2>1
  <1>1. CASE n = 0
    <2>1. FlattenSeq(ss) = ss
      BY <1>0, <1>1, FlattenIs
    <2>2. ss = <<>>
      BY <1>0, <1>1
    <2>3. <<>> \in Seq(S)
      OBVIOUS
    <2>4. Flattens(<<>>, ss, 0)
      BY FlattenNone, Zenon
    <2> QED
      BY <1>1, <2>1, <2>2, <2>3, <2>4, Zenon
  <1>2. CASE n # 0
    <2>0. EndsIn(FlattenSeq(ss), ss, n, S)
      BY <1>0, <1>2, FlattenIs
    <2>1. PICK f : PutsTogether(f, ss, n, S) /\ FlattenSeq(ss) = f[n]
      BY <2>0 DEF EndsIn
    <2>2. \A i \in 1..n : f[i] \in Seq(S) /\ f[i] = IF i = 1 THEN ss[i] ELSE f[i - 1] \o ss[i]
      BY <2>1, Zenon DEF PutsTogether
    <2> DEFINE B == {k \in Nat : k \in 1..n => Flattens(f[k], ss, k)}
    <2>3. 0 \in B
      OBVIOUS
    <2>4. ASSUME NEW k \in Nat, k \in B PROVE k + 1 \in B
      <3> SUFFICES ASSUME k + 1 \in 1..n PROVE Flattens(f[k + 1], ss, k + 1)
        OBVIOUS
      <3> DEFINE t == ss[k + 1]
                 q == IF k = 0 THEN <<>> ELSE f[k]
      <3>1. t \in Seq(S)
        BY DEF Sequences
      <3>2. q \in Seq(S) /\ Flattens(q, ss, k)
        <4>1. CASE k = 0
          BY <4>1, FlattenNone
        <4>2. CASE k # 0
          <5>1. k \in 1..n
            BY <4>2
          <5> QED
            BY <2>2, <2>4, <4>2, <5>1
        <4> QED
          BY <4>1, <4>2
      <3>3. f[k + 1] = q \o t
        <4>1. f[k + 1] = IF k + 1 = 1 THEN ss[k + 1] ELSE f[(k + 1) - 1] \o ss[k + 1]
          BY <2>2, Zenon
        <4>2. k + 1 = 1 <=> k = 0
          OBVIOUS
        <4>3. (k + 1) - 1 = k
          OBVIOUS
        <4>4. <<>> \o t = t
          BY <3>1
        <4> QED
          BY Zenon, <4>1, <4>2, <4>3, <4>4
      <3> HIDE DEF q, t
      <3>4. Flattens(q \o t, ss, k + 1)
        BY <3>1, <3>2, FlattenMore, Zenon DEF t
      <3> QED
        BY <3>3, <3>4
    <2> HIDE DEF B
    <2>5. n \in B
      BY <2>3, <2>4, NumberInduction
    <2>6. n \in 1..n
      BY <1>2
    <2>7. Flattens(f[n], ss, n)
      BY <2>5, <2>6 DEF B
    <2> QED
      BY <2>1, <2>2, <2>6, <2>7
  <1> QED
    BY <1>1, <1>2

-----------------------------------------------------------------------------
(* Review.  q enumerates T: its m elements are those of T.                  *)
Elements(q, m, T) ==
    /\ m \in Nat /\ q = [k \in 1..m |-> q[k]]
    /\ \A k \in 1..m : q[k] \in T
    /\ \A x \in T : \E k \in 1..m : q[k] = x

(* A filter enumerates the elements at the places it keeps.                 *)
LEMMA PickedElements ==
    ASSUME NEW n \in Nat, NEW P \in SUBSET (1..n), NEW s
    PROVE  Elements(Picked(s, P), Cardinality(P), {s[i] : i \in P})
  <1> DEFINE m == Cardinality(P)
             q == Picked(s, P)
  <1>1. PICK at : KeepsAt(q, s, P, at)
    BY PickedKeeps, Zenon
  <1>2. q = [k \in 1..m |-> q[k]]
    <2> DEFINE place(k) == CHOOSE i \in P : Cardinality({j \in P : j < i}) = k - 1
    <2>1. q = [k \in 1..m |-> s[place(k)]]
      BY Zenon DEF Picked
    <2> HIDE DEF q, place
    <2> QED
      BY <2>1
  <1> HIDE DEF q, m
  <1>3. /\ m \in Nat /\ at \in [1..m -> P]
        /\ \A k \in 1..m : q[k] = s[at[k]]
        /\ \A i \in P : \E k \in 1..m : at[k] = i
    BY <1>1, Zenon DEF KeepsAt, m
  <1>4. \A k \in 1..m : q[k] \in {s[i] : i \in P}
    BY Zenon, <1>3
  <1>5. \A x \in {s[i] : i \in P} : \E k \in 1..m : q[k] = x
    BY <1>3
  <1>6. Elements(q, m, {s[i] : i \in P})
    BY <1>2, <1>3, <1>4, <1>5, Zenon DEF Elements
  <1> QED
    BY <1>6 DEF q, m

(* An enumeration is a sequence.                                            *)
LEMMA ElementsSequence ==
    ASSUME NEW q, NEW m, NEW T, Elements(q, m, T)
    PROVE  q \in Seq(T) /\ Len(q) = m /\ DOMAIN q = 1..m
  <1>1. m \in Nat /\ q \in [1..m -> T]
    BY DEF Elements
  <1> QED
    BY <1>1

(* A message: n statements.                                                 *)
Message(msg, n) == n \in Nat /\ msg = [k \in 1..n |-> msg[k]] /\ \A k \in 1..n : IsStatement(msg[k])

(* A message is as many statements as it is long.                           *)
LEMMA MessageShape ==
    ASSUME NEW msg, IsMessage(msg)
    PROVE  Message(msg, Len(msg)) /\ DOMAIN msg = 1..Len(msg)
  <1> DEFINE S == ToSet(msg)
  <1>1. msg \in Seq(S) /\ \A k \in DOMAIN msg : IsStatement(msg[k])
    BY DEF IsMessage
  <1> HIDE DEF S
  <1>2. Len(msg) \in Nat /\ DOMAIN msg = 1..Len(msg) /\ msg = [k \in 1..Len(msg) |-> msg[k]]
    BY <1>1
  <1> QED
    BY <1>1, <1>2 DEF Message

(* What a message commits to.                                               *)
CommittedOf(msg) == {s \in Range(msg) : s.long}

(* Committed lists the statements a message commits to.                     *)
LEMMA CommittedElements ==
    ASSUME NEW msg, IsMessage(msg)
    PROVE  \E m : Elements(Committed(msg), m, CommittedOf(msg))
  <1> DEFINE n == Len(msg)
             P == {k \in DOMAIN msg : msg[k].long}
  <1>1. n \in Nat /\ DOMAIN msg = 1..n
    BY MessageShape DEF Message
  <1>2. Committed(msg) = Picked(msg, P)
    BY DEF Committed, Filtered
  <1>3. CommittedOf(msg) = {msg[i] : i \in P}
    BY DEF CommittedOf, Range
  <1>4. P \in SUBSET (1..n)
    BY <1>1
  <1> HIDE DEF P, n
  <1>5. Elements(Picked(msg, P), Cardinality(P), {msg[i] : i \in P})
    BY Zenon, <1>1, <1>4, PickedElements
  <1> QED
    BY <1>2, <1>3, <1>5

(* q enumerates the sets T[1] to T[n], each element from that of src[i], in *)
(* their order.                                                             *)
MinedInTurn(q, m, T, n, src) ==
    /\ m \in Nat /\ q = [i \in 1..m |-> q[i]]
    /\ src \in [1..m -> 1..n]
    /\ \A i \in 1..m : q[i] \in T[src[i]]
    /\ \A k \in 1..n : \A x \in T[k] : \E i \in 1..m : src[i] = k /\ q[i] = x
    /\ \A i, j \in 1..m : i < j => src[i] <= src[j]

Enumerates(q, T) == \E m : Elements(q, m, T)

(* Flattening enumerations enumerates what they do.                         *)
LEMMA FlattenElements ==
    ASSUME NEW n \in Nat, NEW ss, ss = [k \in 1..n |-> ss[k]], NEW T,
           \A k \in 1..n : Enumerates(ss[k], T[k])
    PROVE  \E m : \E src : MinedInTurn(FlattenSeq(ss), m, T, n, src)
  <1> DEFINE S == UNION {T[k] : k \in 1..n}
             q == FlattenSeq(ss)
             m == Len(q)
  <1>1. ASSUME NEW k \in 1..n
        PROVE  /\ ss[k] \in Seq(S)
               /\ \A j \in DOMAIN ss[k] : ss[k][j] \in T[k]
               /\ \A x \in T[k] : \E j \in DOMAIN ss[k] : ss[k][j] = x
    <2>1. PICK l : Elements(ss[k], l, T[k])
      BY <1>1 DEF Enumerates
    <2>2. ss[k] \in Seq(T[k]) /\ DOMAIN ss[k] = 1..l
      BY <2>1, ElementsSequence
    <2>3. T[k] \subseteq S
      OBVIOUS
    <2>4. ss[k] \in Seq(S)
      BY <2>2, <2>3
    <2> QED
      BY <2>1, <2>2, <2>4 DEF Elements
  <1> HIDE DEF S
  <1>2. Sequences(ss, n, S)
    BY <1>1 DEF Sequences
  <1>3. q \in Seq(S) /\ Flattens(q, ss, n)
    BY <1>2, FlattenFlattens, Zenon
  <1> HIDE DEF q
  <1>4. m \in Nat /\ q = [i \in 1..m |-> q[i]]
    BY <1>3
  <1> HIDE DEF m
  <1>5. PICK src : Sourced(q, ss, n, src)
    BY Zenon, <1>3 DEF Flattens
  <1>6. /\ src \in [1..m -> 1..n]
        /\ \A i \in 1..m : \E j \in DOMAIN ss[src[i]] : q[i] = ss[src[i]][j]
        /\ \A k \in 1..n : \A j \in DOMAIN ss[k] : \E i \in 1..m : src[i] = k /\ q[i] = ss[k][j]
        /\ \A i, j \in 1..m : i < j => src[i] <= src[j]
    BY <1>5, Zenon DEF Sourced, m
  <1>7. ASSUME NEW i \in 1..m PROVE q[i] \in T[src[i]]
    <2>1. PICK j \in DOMAIN ss[src[i]] : q[i] = ss[src[i]][j]
      BY <1>6
    <2> QED
      BY <1>1, <1>6, <2>1
  <1>8. ASSUME NEW k \in 1..n, NEW x \in T[k] PROVE \E i \in 1..m : src[i] = k /\ q[i] = x
    <2>1. PICK j \in DOMAIN ss[k] : ss[k][j] = x
      BY <1>1
    <2> QED
      BY <1>6, <2>1
  <1>9. MinedInTurn(q, m, T, n, src)
    BY <1>4, <1>6, <1>7, <1>8, Zenon DEF MinedInTurn
  <1> QED
    BY Zenon, <1>9 DEF q

(* What is enumerated in turn is enumerated.                                *)
LEMMA InTurnElements ==
    ASSUME NEW n \in Nat, NEW T, NEW q, NEW m, NEW src, MinedInTurn(q, m, T, n, src),
           NEW U, \A k \in 1..n : T[k] \subseteq U, \A x \in U : \E k \in 1..n : x \in T[k]
    PROVE  Enumerates(q, U)
  <1>1. /\ m \in Nat /\ q = [i \in 1..m |-> q[i]]
        /\ src \in [1..m -> 1..n]
        /\ \A i \in 1..m : q[i] \in T[src[i]]
        /\ \A k \in 1..n : \A x \in T[k] : \E i \in 1..m : src[i] = k /\ q[i] = x
    BY Zenon DEF MinedInTurn
  <1>2. \A i \in 1..m : q[i] \in U
    BY <1>1
  <1>3. \A x \in U : \E i \in 1..m : q[i] = x
    BY <1>1
  <1>4. Elements(q, m, U)
    BY <1>1, <1>2, <1>3, Zenon DEF Elements
  <1> QED
    BY <1>4 DEF Enumerates

(* A window: n entries.                                                     *)
Conversation(items, n) == n \in Nat /\ items = [k \in 1..n |-> items[k]] /\ \A k \in 1..n : IsEntry(items[k])

(* An entry a candidate may come from, what is done after it, and the       *)
(* candidates it makes with a final message.                                *)
Speaks(items, f, k) == items[k].type # "call" /\ items[k].says # f
Since(items, k) == Summary(SubSeq(items, k + 1, Len(items)))
Opposes(s, t) == Overlap(s, t) >= OverlapMin /\ OpposingPolarity(s, t)
Candidate(s, t, since) == [earlier |-> s, final |-> t, between |-> since]
PairsWith(s, F, since) == {Candidate(s, t, since) : t \in {t \in F : Opposes(s, t)}}
CandidatesOf(items, f, k) ==
    IF Speaks(items, f, k)
    THEN UNION {PairsWith(s, CommittedOf(f), Since(items, k)) : s \in CommittedOf(items[k].says)}
    ELSE {}

(* The candidates of one statement.                                         *)
LEMMA StatementElements ==
    ASSUME NEW F, NEW m, NEW final, Elements(final, m, F), NEW s, NEW since,
           NEW opposed, opposed = Filtered(final, LAMBDA f : Overlap(s, f) >= OverlapMin /\ OpposingPolarity(s, f))
    PROVE  Enumerates([i \in DOMAIN opposed |-> [earlier |-> s, final |-> opposed[i], between |-> since]],
                      PairsWith(s, F, since))
  <1> DEFINE P == {k \in DOMAIN final : Opposes(s, final[k])}
             U == {final[i] : i \in P}
             q == [i \in DOMAIN opposed |-> Candidate(s, opposed[i], since)]
  <1>1. /\ m \in Nat /\ DOMAIN final = 1..m
        /\ \A k \in 1..m : final[k] \in F
        /\ \A x \in F : \E k \in 1..m : final[k] = x
    BY DEF Elements
  <1>2. opposed = Picked(final, P)
    BY DEF Filtered, Opposes
  <1>3. P \in SUBSET (1..m)
    BY <1>1
  <1>4. U = {t \in F : Opposes(s, t)}
    <2>1. ASSUME NEW x \in U PROVE x \in F /\ Opposes(s, x)
      BY <1>1
    <2>2. ASSUME NEW x \in F, Opposes(s, x) PROVE x \in U
      <3>1. PICK k \in 1..m : final[k] = x
        BY <1>1
      <3>2. k \in P
        BY <1>1, <2>2, <3>1
      <3> QED
        BY <3>1, <3>2
    <2> HIDE DEF U
    <2> QED
      BY <2>1, <2>2
  <1> HIDE DEF P
  <1>5. Elements(opposed, Cardinality(P), U)
    BY <1>1, <1>2, <1>3, PickedElements
  <1> DEFINE l == Cardinality(P)
  <1> HIDE DEF U, l
  <1>6. /\ l \in Nat /\ DOMAIN opposed = 1..l
        /\ \A k \in 1..l : opposed[k] \in U
        /\ \A x \in U : \E k \in 1..l : opposed[k] = x
    BY Zenon, <1>5 DEF Elements, l
  <1>7. q = [i \in 1..l |-> q[i]] /\ \A i \in 1..l : q[i] = Candidate(s, opposed[i], since)
    BY Zenon, <1>6
  <1>8. PairsWith(s, F, since) = {Candidate(s, t, since) : t \in U}
    BY <1>4, Zenon DEF PairsWith
  <1>9. q = [i \in DOMAIN opposed |-> [earlier |-> s, final |-> opposed[i], between |-> since]]
    BY Zenon DEF Candidate
  <1> HIDE DEF q
  <1>10. Elements(q, l, {Candidate(s, t, since) : t \in U})
    <2>1. \A k \in 1..l : q[k] \in {Candidate(s, t, since) : t \in U}
      BY Zenon, <1>6, <1>7
    <2>2. ASSUME NEW x \in {Candidate(s, t, since) : t \in U} PROVE \E k \in 1..l : q[k] = x
      <3>1. PICK t \in U : x = Candidate(s, t, since)
        OBVIOUS
      <3>2. PICK k \in 1..l : opposed[k] = t
        BY Zenon, <1>6
      <3> QED
        BY Zenon, <1>7, <3>1, <3>2
    <2> QED
      BY <1>6, <1>7, <2>1, <2>2, Zenon DEF Elements
  <1> QED
    BY Zenon, <1>8, <1>9, <1>10 DEF Enumerates

(* The candidates of an entry.                                              *)
LEMMA EntryElements ==
    ASSUME NEW items, NEW n, Conversation(items, n), NEW f, IsMessage(f), NEW k \in 1..n
    PROVE  Enumerates(EntryCandidates(items, f, k), CandidatesOf(items, f, k))
  <1> DEFINE e == items[k]
             since == Since(items, k)
             F == CommittedOf(f)
             final == Committed(f)
             said == Committed(e.says)
             OpposedTo(s) == Filtered(final, LAMBDA g : Overlap(s, g) >= OverlapMin /\ OpposingPolarity(s, g))
             Pairs(s) == LET opposed == OpposedTo(s)
                         IN  [i \in DOMAIN opposed |-> [earlier |-> s, final |-> opposed[i], between |-> since]]
             ss == [i \in DOMAIN said |-> Pairs(said[i])]
  <1>1. EntryCandidates(items, f, k) = IF e.type = "call" \/ e.says = f THEN <<>> ELSE FlattenSeq(ss)
    BY Zenon DEF EntryCandidates, Since
  <1>2. CASE e.type = "call" \/ e.says = f
    <2>1. EntryCandidates(items, f, k) = <<>>
      BY <1>1, <1>2, Zenon
    <2>2. CandidatesOf(items, f, k) = {}
      BY <1>2 DEF CandidatesOf, Speaks
    <2>3. Elements(<<>>, 0, {})
      BY DEF Elements
    <2> QED
      BY <2>1, <2>2, <2>3, Zenon DEF Enumerates
  <1>3. CASE ~(e.type = "call" \/ e.says = f)
    <2>1. IsMessage(e.says)
      BY <1>3 DEF Conversation, IsEntry
    <2>2. PICK m : Elements(said, m, CommittedOf(e.says))
      BY <2>1, CommittedElements
    <2>3. PICK l : Elements(final, l, F)
      BY CommittedElements
    <2> DEFINE T == [i \in 1..m |-> PairsWith(said[i], F, since)]
    <2>4. /\ m \in Nat /\ DOMAIN said = 1..m
          /\ \A i \in 1..m : said[i] \in CommittedOf(e.says)
          /\ \A x \in CommittedOf(e.says) : \E i \in 1..m : said[i] = x
      BY <2>2 DEF Elements
    <2> HIDE DEF said, final, F
    <2>5. ASSUME NEW i \in 1..m PROVE Enumerates(Pairs(said[i]), PairsWith(said[i], F, since))
      BY <2>3, StatementElements, Zenon
    <2> HIDE DEF Pairs
    <2>6. ss = [i \in 1..m |-> ss[i]] /\ \A i \in 1..m : ss[i] = Pairs(said[i])
      BY <2>4
    <2>7. \A i \in 1..m : T[i] = PairsWith(said[i], F, since)
      OBVIOUS
    <2> HIDE DEF ss, T
    <2>8. \A i \in 1..m : Enumerates(ss[i], T[i])
      BY <2>5, <2>6, <2>7
    <2>9. PICK z, src : MinedInTurn(FlattenSeq(ss), z, T, m, src)
      BY Zenon, <2>4, <2>6, <2>8, FlattenElements
    <2>10. \A i \in 1..m : T[i] \subseteq CandidatesOf(items, f, k)
      <3>1. CandidatesOf(items, f, k) = UNION {PairsWith(s, F, since) : s \in CommittedOf(e.says)}
        BY <1>3 DEF CandidatesOf, Speaks, F
      <3> QED
        BY <2>4, <2>7, <3>1
    <2>11. \A x \in CandidatesOf(items, f, k) : \E i \in 1..m : x \in T[i]
      <3>1. CandidatesOf(items, f, k) = UNION {PairsWith(s, F, since) : s \in CommittedOf(e.says)}
        BY <1>3 DEF CandidatesOf, Speaks, F
      <3> QED
        BY <2>4, <2>7, <3>1
    <2>12. Enumerates(FlattenSeq(ss), CandidatesOf(items, f, k))
      BY <2>4, <2>9, <2>10, <2>11, InTurnElements
    <2>13. EntryCandidates(items, f, k) = FlattenSeq(ss)
      BY <1>1, <1>3, Zenon
    <2> QED
      BY <2>12, <2>13
  <1> QED
    BY <1>2, <1>3

(* The same, with the elements of T[0] before all the others.               *)
InOrderFrom(q, m, T, n, src) ==
    /\ m \in Nat /\ q = [i \in 1..m |-> q[i]]
    /\ src \in [1..m -> 0..n]
    /\ \A i \in 1..m : q[i] \in T[src[i]]
    /\ \A k \in 0..n : \A x \in T[k] : \E i \in 1..m : src[i] = k /\ q[i] = x
    /\ \A i, j \in 1..m : i < j => src[i] <= src[j]

Comes(q, T, n) == \E m : \E src : InOrderFrom(q, m, T, n, src)

(* What comes before the others is put before them.                         *)
LEMMA PrependElements ==
    ASSUME NEW n \in Nat, NEW T, NEW q, NEW m, NEW src, MinedInTurn(q, m, [k \in 1..n |-> T[k]], n, src),
           NEW p, Enumerates(p, T[0])
    PROVE  Comes(p \o q, T, n)
  <1>0. PICK h : Elements(p, h, T[0])
    BY DEF Enumerates
  <1>1. /\ m \in Nat /\ q = [i \in 1..m |-> q[i]]
        /\ src \in [1..m -> 1..n]
        /\ \A i \in 1..m : q[i] \in [k \in 1..n |-> T[k]][src[i]]
        /\ \A k \in 1..n : \A x \in [l \in 1..n |-> T[l]][k] : \E i \in 1..m : src[i] = k /\ q[i] = x
        /\ \A i, j \in 1..m : i < j => src[i] <= src[j]
    BY Zenon DEF MinedInTurn
  <1>2. /\ \A i \in 1..m : src[i] \in 1..n /\ q[i] \in T[src[i]]
        /\ \A k \in 1..n : \A x \in T[k] : \E i \in 1..m : src[i] = k /\ q[i] = x
    BY Zenon, <1>1
  <1>3. /\ h \in Nat /\ p = [k \in 1..h |-> p[k]]
        /\ \A k \in 1..h : p[k] \in T[0]
        /\ \A x \in T[0] : \E k \in 1..h : p[k] = x
    BY <1>0 DEF Elements
  <1> DEFINE r == p \o q
             N == h + m
             src2 == [i \in 1..N |-> IF i <= h THEN 0 ELSE src[i - h]]
  <1> DEFINE X == T[0] \cup {q[i] : i \in 1..m}
  <1>4. p \in Seq(X) /\ q \in Seq(X) /\ Len(p) = h /\ Len(q) = m
    <2>1. p \in [1..h -> X]
      BY <1>3
    <2>2. q \in [1..m -> X]
      BY <1>1
    <2> HIDE DEF X
    <2> QED
      BY <1>1, <1>3, <2>1, <2>2
  <1> HIDE DEF X
  <1>5. /\ r = [i \in 1..N |-> r[i]]
        /\ \A i \in 1..h : i \in 1..N /\ r[i] = p[i]
        /\ \A i \in 1..m : h + i \in 1..N /\ r[h + i] = q[i]
    <2>1. r \in Seq(X) /\ Len(r) = N /\ N \in Nat
      BY <1>1, <1>3, <1>4
    <2>2. \A i \in 1..h : r[i] = p[i]
      BY <1>4
    <2>3. \A i \in 1..m : r[h + i] = q[i]
      BY <1>4
    <2> HIDE DEF r
    <2>4. r = [i \in 1..N |-> r[i]]
      BY <2>1
    <2>5. \A i \in 1..h : i \in 1..N
      BY <1>1, <1>3
    <2>6. \A i \in 1..m : h + i \in 1..N
      BY <1>1, <1>3
    <2> QED
      BY Zenon, <2>2, <2>3, <2>4, <2>5, <2>6
  <1>6. /\ src2 = [i \in 1..N |-> src2[i]]
        /\ \A i \in 1..h : src2[i] = 0
        /\ \A i \in 1..m : src2[h + i] = src[i]
    <2>1. ASSUME NEW i \in 1..h PROVE src2[i] = 0
      <3>1. i \in 1..N /\ i <= h
        BY <1>1, <1>3
      <3> QED
        BY <3>1
    <2>2. ASSUME NEW i \in 1..m PROVE src2[h + i] = src[i]
      <3>1. h + i \in 1..N /\ ~(h + i <= h) /\ (h + i) - h = i
        BY <1>1, <1>3
      <3> QED
        BY <3>1
    <2> QED
      BY <2>1, <2>2
  <1> HIDE DEF src2, r
  <1>7. ASSUME NEW i \in 1..N, i \notin 1..h PROVE i - h \in 1..m /\ h + (i - h) = i
    BY <1>1, <1>3, <1>7
  <1>8. ASSUME NEW i \in 1..N PROVE src2[i] \in 0..n /\ r[i] \in T[src2[i]]
    <2>1. CASE i \in 1..h
      <3>1. r[i] = p[i] /\ src2[i] = 0 /\ p[i] \in T[0]
        BY Zenon, <1>3, <1>5, <1>6, <2>1
      <3> QED
        BY <3>1
    <2>2. CASE i \notin 1..h
      <3>1. i - h \in 1..m /\ h + (i - h) = i
        BY <1>7, <2>2
      <3>2. r[i] = q[i - h] /\ src2[i] = src[i - h]
        BY Zenon, <1>5, <1>6, <3>1
      <3> QED
        BY <1>2, <3>1, <3>2
    <2> QED
      BY <2>1, <2>2
  <1>9. src2 \in [1..N -> 0..n]
    BY <1>6, <1>8
  <1>10. ASSUME NEW k \in 0..n, NEW x \in T[k] PROVE \E i \in 1..N : src2[i] = k /\ r[i] = x
    <2>1. CASE k = 0
      <3>1. PICK i \in 1..h : p[i] = x
        BY <1>3, <1>10, <2>1
      <3> QED
        BY Zenon, <1>5, <1>6, <2>1, <3>1
    <2>2. CASE k # 0
      <3>1. k \in 1..n
        BY <2>2
      <3>2. PICK i \in 1..m : src[i] = k /\ q[i] = x
        BY <1>2, <1>10, <3>1
      <3> QED
        BY Zenon, <1>5, <1>6, <3>2
    <2> QED
      BY <2>1, <2>2
  <1>11. ASSUME NEW i \in 1..N, NEW j \in 1..N, i < j PROVE src2[i] <= src2[j]
    <2>1. CASE i \in 1..h
      <3>1. src2[i] = 0 /\ src2[j] \in 0..n
        BY <1>6, <1>8, <2>1
      <3> QED
        BY <3>1
    <2>2. CASE i \notin 1..h
      <3>1. j \notin 1..h
        BY <1>3, <1>11, <2>2
      <3>2. /\ i - h \in 1..m /\ h + (i - h) = i
            /\ j - h \in 1..m /\ h + (j - h) = j
        BY <1>7, <2>2, <3>1
      <3>3. src2[i] = src[i - h] /\ src2[j] = src[j - h]
        BY Zenon, <1>6, <3>2
      <3>4. i - h < j - h
        BY <1>3, <1>11
      <3> QED
        BY <1>1, <3>2, <3>3, <3>4
    <2> QED
      BY <2>1, <2>2
  <1>12. N \in Nat
    BY <1>1, <1>3
  <1>13. InOrderFrom(r, N, T, n, src2)
    BY <1>5, <1>8, <1>9, <1>10, <1>11, <1>12, Zenon DEF InOrderFrom
  <1> QED
    BY <1>13, Zenon DEF Comes, r

(* What recall hands on: r memories at or above the floor.                  *)
Relevant(recall, r) ==
    /\ r \in Nat /\ recall = [k \in 1..r |-> recall[k]]
    /\ \A k \in 1..r : recall[k].score >= ReviewFloor /\ IsStatement(recall[k].says)

Held(recall) == {i \in DOMAIN recall : IsConstraint(recall[i])}
StoredOf(items, f, recall) == {StoredCandidate(items, f, recall[i]) : i \in Held(recall)}

(* All the candidates there are, the stored ones first and then the entries.*)
TurnSources(items, f, recall, n) ==
    [k \in 0..n |-> IF k = 0 THEN StoredOf(items, f, recall) ELSE CandidatesOf(items, f, k)]

(* All the candidates come from them, in this order.                        *)
LEMMA AllComes ==
    ASSUME NEW items, NEW n, Conversation(items, n), NEW f, IsMessage(f), NEW recall, NEW r, Relevant(recall, r)
    PROVE  Comes(AllCandidates(items, f, recall), TurnSources(items, f, recall, n), n)
  <1> DEFINE T == TurnSources(items, f, recall, n)
             held == Filtered(recall, LAMBDA m : m.score >= ReviewFloor /\ IsConstraint(m))
             p == [i \in DOMAIN held |-> StoredCandidate(items, f, held[i])]
             ss == [k \in DOMAIN items |-> EntryCandidates(items, f, k)]
  <1>1. AllCandidates(items, f, recall) = p \o FlattenSeq(ss)
    BY Zenon DEF AllCandidates
  <1>2. n \in Nat /\ DOMAIN items = 1..n
    BY DEF Conversation
  <1>3. ss = [k \in 1..n |-> ss[k]] /\ \A k \in 1..n : ss[k] = EntryCandidates(items, f, k)
    BY <1>2
  <1>4. T[0] = StoredOf(items, f, recall) /\ \A k \in 1..n : T[k] = CandidatesOf(items, f, k)
    BY <1>2 DEF TurnSources
  <1>5. Enumerates(p, T[0])
    <2> DEFINE P == {k \in DOMAIN recall : recall[k].score >= ReviewFloor /\ IsConstraint(recall[k])}
    <2>1. held = Picked(recall, P)
      BY DEF Filtered
    <2>2. P = Held(recall) /\ P \in SUBSET (1..r) /\ r \in Nat
      BY DEF Held, Relevant
    <2> HIDE DEF P, held
    <2>3. Elements(held, Cardinality(P), {recall[i] : i \in P})
      BY Zenon, <2>1, <2>2, PickedElements
    <2> DEFINE m == Cardinality(P)
    <2> HIDE DEF m
    <2>4. /\ m \in Nat /\ DOMAIN held = 1..m
          /\ \A k \in 1..m : \E i \in P : held[k] = recall[i]
          /\ \A i \in P : \E k \in 1..m : held[k] = recall[i]
      BY Zenon, <2>3 DEF Elements, m
    <2>5. p = [k \in 1..m |-> p[k]] /\ \A k \in 1..m : p[k] = StoredCandidate(items, f, held[k])
      BY <2>4
    <2> HIDE DEF p
    <2>6. T[0] = {StoredCandidate(items, f, recall[i]) : i \in P}
      BY <1>4, <2>2, Zenon DEF StoredOf
    <2> HIDE DEF T
    <2>7. \A k \in 1..m : p[k] \in T[0]
      BY <2>4, <2>5, <2>6
    <2>8. ASSUME NEW x \in T[0] PROVE \E k \in 1..m : p[k] = x
      <3>1. PICK i \in P : x = StoredCandidate(items, f, recall[i])
        BY <2>6, Zenon
      <3>2. PICK k \in 1..m : held[k] = recall[i]
        BY <2>4
      <3> QED
        BY <2>5, <3>1, <3>2
    <2>9. Elements(p, m, T[0])
      BY <2>4, <2>5, <2>7, <2>8, Zenon DEF Elements
    <2> QED
      BY <2>9 DEF Enumerates
  <1> DEFINE T1 == [k \in 1..n |-> T[k]]
  <1> HIDE DEF T, p, held, ss
  <1>6. \A k \in 1..n : Enumerates(ss[k], T1[k])
    BY <1>3, <1>4, EntryElements
  <1> HIDE DEF T1
  <1>7. PICK m, src : MinedInTurn(FlattenSeq(ss), m, T1, n, src)
    BY Zenon, <1>2, <1>3, <1>6, FlattenElements
  <1>8. Comes(p \o FlattenSeq(ss), T, n)
    BY <1>2, <1>5, <1>7, PrependElements DEF T1
  <1> QED
    BY <1>1, <1>8 DEF T

(* The places of the first candidate of each pair, and the pairs.           *)
KeptPlaces(A) == {i \in DOMAIN A : \A j \in 1..(i - 1) : ~SamePair(A[j], A[i])}
PairOf(c) == <<c.earlier, c.final>>
PairsOf(A) == {PairOf(A[i]) : i \in DOMAIN A}

FunctionTo(A, N) == N \in Nat /\ A = [i \in 1..N |-> A[i]]

(* Each pair has a first candidate, and only one.                           *)
LEMMA KeptPairs ==
    ASSUME NEW N, NEW A, FunctionTo(A, N)
    PROVE  /\ KeptPlaces(A) \in SUBSET (1..N)
           /\ \A i \in 1..N : \E y \in KeptPlaces(A) : y <= i /\ PairOf(A[y]) = PairOf(A[i])
           /\ \A x \in KeptPlaces(A) : \A y \in 1..(x - 1) : PairOf(A[y]) # PairOf(A[x])
           /\ \A x, y \in KeptPlaces(A) : PairOf(A[x]) = PairOf(A[y]) => x = y
           /\ Cardinality(KeptPlaces(A)) = Cardinality(PairsOf(A))
           /\ Cardinality(KeptPlaces(A)) \in Nat
  <1>1. N \in Nat /\ DOMAIN A = 1..N
    BY DEF FunctionTo
  <1>2. \A c, d : SamePair(c, d) <=> PairOf(c) = PairOf(d)
    BY DEF SamePair, PairOf
  <1>3. KeptPlaces(A) = {i \in 1..N : \A j \in 1..(i - 1) : PairOf(A[j]) # PairOf(A[i])}
    BY <1>1, <1>2 DEF KeptPlaces
  <1>4. ASSUME NEW i \in 1..N PROVE \E y \in KeptPlaces(A) : y <= i /\ PairOf(A[y]) = PairOf(A[i])
    <2> DEFINE B == {y \in 1..N : PairOf(A[y]) = PairOf(A[i])}
    <2>1. B \in SUBSET Nat /\ i \in B
      BY <1>1
    <2>2. PICK y \in B : \A z \in B : y <= z
      BY Zenon, <2>1, LeastNumber
    <2>3. ASSUME NEW j \in 1..(y - 1) PROVE PairOf(A[j]) # PairOf(A[y])
      <3>1. j \in 1..N /\ ~(y <= j)
        BY <1>1, <2>1
      <3> QED
        BY <2>2, <3>1
    <2> QED
      BY <1>3, <2>1, <2>2, <2>3
  <1>5. ASSUME NEW x \in KeptPlaces(A), NEW y \in KeptPlaces(A), PairOf(A[x]) = PairOf(A[y]) PROVE x = y
    <2>1. x \in 1..N /\ y \in 1..N
      BY <1>3
    <2>2. x \notin 1..(y - 1) /\ y \notin 1..(x - 1)
      BY <1>3, <1>5
    <2> QED
      BY <1>1, <2>1, <2>2
  <1> DEFINE g == [i \in KeptPlaces(A) |-> PairOf(A[i])]
             K == KeptPlaces(A)
             Q == PairsOf(A)
  <1>6. K \subseteq 1..N /\ IsFiniteSet(K)
    <2>1. IsFiniteSet(1..N)
      BY <1>1, FS_Interval
    <2>2. K \subseteq 1..N
      BY <1>3
    <2> QED
      BY Zenon, <2>1, <2>2, FS_Subset
  <1>7. Q = {PairOf(A[i]) : i \in 1..N}
    BY <1>1 DEF PairsOf
  <1>8. g \in [K -> Q] /\ \A i \in K : g[i] = PairOf(A[i])
    BY <1>6, <1>7
  <1>9. \A p \in Q : \E i \in K : g[i] = p
    BY <1>4, <1>7, <1>8
  <1>10. \A x, y \in K : g[x] = g[y] => x = y
    BY <1>5, <1>8
  <1> HIDE DEF g, K, Q
  <1>11. g \in Surjection(K, Q) /\ g \in Injection(K, Q)
    BY <1>8, <1>9, <1>10 DEF Surjection, Injection, IsInjective
  <1>12. Cardinality(Q) = Cardinality(K) /\ Cardinality(K) \in Nat
    BY <1>6, <1>11, FS_Surjection, FS_CardinalityType
  <1> QED
    BY <1>3, <1>4, <1>5, <1>12 DEF K, Q

(* M is the candidates at the places of at, m of them, which are the first  *)
(* of the pairs.                                                            *)
Selects(M, m, A, most, at) ==
    /\ m \in Nat /\ M = [k \in 1..m |-> M[k]]
    /\ at \in [1..m -> KeptPlaces(A)]
    /\ \A k \in 1..m : M[k] = A[at[k]]
    /\ \A k, l \in 1..m : k < l <=> at[k] < at[l]
    /\ \A k \in 1..m : \A x \in KeptPlaces(A) : x < at[k] => \E l \in 1..m : at[l] = x
    /\ m = IF Cardinality(PairsOf(A)) > most THEN most ELSE Cardinality(PairsOf(A))

SelectsSome(M, A, most) == \E m : \E at : Selects(M, m, A, most, at)

(* What is mined is the first of the candidates' pairs.                     *)
LEMMA MinedSelects ==
    ASSUME NEW N, NEW A, FunctionTo(A, N), NEW most \in Nat
    PROVE  SelectsSome(Shortened(Deduplicated(A), most), A, most)
  <1> DEFINE K == KeptPlaces(A)
             n == Cardinality(K)
             D == Deduplicated(A)
             m == IF n < most THEN n ELSE most
             M == Shortened(D, most)
  <1>1. N \in Nat /\ K \in SUBSET (1..N) /\ n \in Nat /\ n = Cardinality(PairsOf(A))
    BY Zenon, KeptPairs DEF FunctionTo
  <1>2. D = Picked(A, K)
    BY Zenon DEF Deduplicated, KeptPlaces
  <1> HIDE DEF K
  <1>3. PICK at : KeepsAt(Picked(A, K), A, K, at)
    BY Zenon, <1>1, PickedKeeps
  <1>4. Elements(Picked(A, K), n, {A[i] : i \in K})
    BY Zenon, <1>1, PickedElements
  <1> HIDE DEF D, n
  <1>5. /\ D \in Seq({A[i] : i \in K}) /\ Len(D) = n
        /\ at \in [1..n -> K]
        /\ \A k \in 1..n : D[k] = A[at[k]]
        /\ \A i \in K : \E k \in 1..n : at[k] = i
        /\ \A k, l \in 1..n : k < l <=> at[k] < at[l]
    <2>1. Elements(D, n, {A[i] : i \in K}) /\ KeepsAt(D, A, K, at)
      BY <1>2, <1>3, <1>4 DEF n
    <2>2. D \in Seq({A[i] : i \in K}) /\ Len(D) = n
      BY <2>1, ElementsSequence
    <2> QED
      BY <2>1, <2>2, Zenon DEF KeepsAt, n
  <1>6. m \in Nat /\ m <= n /\ \A k \in 1..m : k \in 1..n
    BY <1>1
  <1>7. M = SubSeq(D, 1, m)
    BY <1>5 DEF Shortened
  <1> HIDE DEF M, m
  <1>8. Len(M) = m /\ M \in Seq({A[i] : i \in K}) /\ \A k \in 1..m : M[k] = D[k]
    BY <1>5, <1>6, <1>7
  <1>9. M = [k \in 1..m |-> M[k]]
    BY <1>6, <1>8
  <1> DEFINE to == [k \in 1..m |-> at[k]]
  <1>10. to \in [1..m -> K] /\ \A k \in 1..m : to[k] = at[k]
    BY Zenon, <1>5, <1>6
  <1> HIDE DEF to
  <1>11. \A k \in 1..m : M[k] = A[to[k]]
    BY <1>5, <1>6, <1>8, <1>10
  <1>12. \A k, l \in 1..m : k < l <=> to[k] < to[l]
    BY Zenon, <1>5, <1>6, <1>10
  <1>13. ASSUME NEW k \in 1..m, NEW x \in K, x < to[k] PROVE \E l \in 1..m : to[l] = x
    <2>1. PICK l \in 1..n : at[l] = x
      BY <1>5
    <2>2. k \in 1..n /\ at[k] = to[k]
      BY <1>6, <1>10
    <2>3. l < k
      BY <1>5, <1>13, <2>1, <2>2
    <2>4. l \in 1..m
      BY <1>6, <2>1, <2>3
    <2> QED
      BY <1>10, <2>1, <2>4
  <1>14. m = IF Cardinality(PairsOf(A)) > most THEN most ELSE Cardinality(PairsOf(A))
    BY <1>1 DEF m
  <1>15. Selects(M, m, A, most, to)
    BY <1>6, <1>9, <1>10, <1>11, <1>12, <1>13, <1>14, Zenon DEF Selects, K
  <1> QED
    BY <1>15, Zenon DEF SelectsSome, M, D

(* What an entry's candidates are.                                          *)
LEMMA CandidateIs ==
    ASSUME NEW items, NEW n, Conversation(items, n), NEW f, NEW k \in 1..n
    PROVE  /\ \A c \in CandidatesOf(items, f, k) :
                /\ k \in Said(items, f, c.earlier) /\ c.earlier.long
                /\ c.final \in CommittedOf(f) /\ Opposes(c.earlier, c.final)
                /\ c.between = Since(items, k)
           /\ \A s : \A t \in CommittedOf(f) :
                k \in Said(items, f, s) /\ s.long /\ Opposes(s, t) =>
                    Candidate(s, t, Since(items, k)) \in CandidatesOf(items, f, k)
  <1>1. n \in Nat /\ DOMAIN items = 1..n /\ IsEntry(items[k])
    BY DEF Conversation
  <1>2. items[k].type = "call" \/ items[k].type = "assistant"
    BY <1>1 DEF IsEntry
  <1>3. \A s : k \in Said(items, f, s) <=> Speaks(items, f, k) /\ s \in Range(items[k].says)
    BY <1>1, <1>2 DEF Said, Speaks
  <1>4. ASSUME NEW c \in CandidatesOf(items, f, k)
        PROVE  /\ k \in Said(items, f, c.earlier) /\ c.earlier.long
               /\ c.final \in CommittedOf(f) /\ Opposes(c.earlier, c.final)
               /\ c.between = Since(items, k)
    <2>1. /\ Speaks(items, f, k)
          /\ c \in UNION {PairsWith(s, CommittedOf(f), Since(items, k)) : s \in CommittedOf(items[k].says)}
      BY <1>4 DEF CandidatesOf
    <2>2. PICK s \in CommittedOf(items[k].says) : c \in PairsWith(s, CommittedOf(f), Since(items, k))
      BY <2>1
    <2>3. PICK t \in CommittedOf(f) : Opposes(s, t) /\ c = Candidate(s, t, Since(items, k))
      BY <2>2 DEF PairsWith
    <2>4. c.earlier = s /\ c.final = t /\ c.between = Since(items, k)
      BY <2>3 DEF Candidate
    <2>5. s.long /\ s \in Range(items[k].says)
      BY <2>2 DEF CommittedOf
    <2> QED
      BY <1>3, <2>1, <2>3, <2>4, <2>5
  <1>5. ASSUME NEW s, NEW t \in CommittedOf(f), k \in Said(items, f, s), s.long, Opposes(s, t)
        PROVE  Candidate(s, t, Since(items, k)) \in CandidatesOf(items, f, k)
    <2>1. Speaks(items, f, k) /\ s \in CommittedOf(items[k].says)
      BY <1>3, <1>5 DEF CommittedOf
    <2>2. Candidate(s, t, Since(items, k)) \in PairsWith(s, CommittedOf(f), Since(items, k))
      BY <1>5 DEF PairsWith
    <2> QED
      BY <2>1, <2>2 DEF CandidatesOf
  <1> QED
    BY <1>4, <1>5

(* The pairs the entries make are the opposed ones.                         *)
LEMMA OpposedPairs ==
    ASSUME NEW items, NEW n, Conversation(items, n), NEW f, NEW p
    PROVE  p \in Opposed(items, f) <=>
                \E k \in 1..n : \E c \in CandidatesOf(items, f, k) : PairOf(c) = p
  <1>1. n \in Nat /\ DOMAIN items = 1..n
    BY DEF Conversation
  <1>2. ASSUME NEW k \in 1..n, NEW c \in CandidatesOf(items, f, k), PairOf(c) = p
        PROVE  p \in Opposed(items, f)
    <2> DEFINE s == c.earlier
               t == c.final
    <2>1. k \in Said(items, f, s) /\ s.long /\ t \in CommittedOf(f) /\ Opposes(s, t)
      BY <1>2, CandidateIs
    <2>2. p = <<s, t>>
      BY <1>2 DEF PairOf
    <2> HIDE DEF s, t
    <2>3. k \in DOMAIN items /\ items[k].type = "assistant" /\ s \in Range(items[k].says)
      BY <2>1 DEF Said
    <2>4. t \in Range(f) /\ t.long
      BY <2>1 DEF CommittedOf
    <2>5. p[1] = s /\ p[2] = t
      BY <2>2
    <2>6. p \in (UNION {Range(items[l].says) : l \in {l \in DOMAIN items : items[l].type = "assistant"}}) \X Range(f)
      BY <2>2, <2>3, <2>4
    <2>7. Said(items, f, s) # {} /\ Overlap(s, t) >= OverlapMin /\ OpposingPolarity(s, t)
      BY <2>1 DEF Opposes
    <2> QED
      BY <2>1, <2>4, <2>5, <2>6, <2>7 DEF Opposed
  <1>3. ASSUME p \in Opposed(items, f)
        PROVE  \E k \in 1..n : \E c \in CandidatesOf(items, f, k) : PairOf(c) = p
    <2>1. /\ p = <<p[1], p[2]>> /\ p[2] \in Range(f)
          /\ p[1].long /\ p[2].long /\ Said(items, f, p[1]) # {} /\ Opposes(p[1], p[2])
      BY <1>3 DEF Opposed, Opposes
    <2>2. PICK k \in Said(items, f, p[1]) : TRUE
      BY <2>1
    <2>3. k \in 1..n
      BY <1>1, <2>2 DEF Said
    <2>4. p[2] \in CommittedOf(f)
      BY <2>1 DEF CommittedOf
    <2> DEFINE c == Candidate(p[1], p[2], Since(items, k))
    <2>5. c \in CandidatesOf(items, f, k)
      BY <2>1, <2>2, <2>3, <2>4, CandidateIs
    <2>6. PairOf(c) = p
      BY <2>1 DEF PairOf, Candidate
    <2> QED
      BY <2>3, <2>5, <2>6
  <1> QED
    BY <1>2, <1>3

(* The pairs of all the candidates.                                         *)
StoredPairs(items, f, recall) == {PairOf(c) : c \in StoredOf(items, f, recall)}

(* They are the stored decisions and the opposed statements.                *)
LEMMA AllPairs ==
    ASSUME NEW items, NEW n, Conversation(items, n), NEW f, NEW recall,
           NEW A, Comes(A, TurnSources(items, f, recall, n), n)
    PROVE  PairsOf(A) = StoredPairs(items, f, recall) \cup Opposed(items, f)
  <1> DEFINE T == TurnSources(items, f, recall, n)
  <1>1. n \in Nat
    BY DEF Conversation
  <1>2. T[0] = StoredOf(items, f, recall) /\ \A k \in 1..n : T[k] = CandidatesOf(items, f, k)
    BY <1>1 DEF TurnSources
  <1> HIDE DEF T
  <1>3. PICK N, src : InOrderFrom(A, N, T, n, src)
    BY DEF Comes, T
  <1>4. /\ DOMAIN A = 1..N
        /\ \A i \in 1..N : src[i] \in 0..n /\ A[i] \in T[src[i]]
        /\ \A k \in 0..n : \A x \in T[k] : \E i \in 1..N : A[i] = x
    BY <1>3 DEF InOrderFrom
  <1>5. ASSUME NEW p \in PairsOf(A) PROVE p \in StoredPairs(items, f, recall) \cup Opposed(items, f)
    <2>1. PICK i \in 1..N : p = PairOf(A[i])
      BY <1>4 DEF PairsOf
    <2>2. CASE src[i] = 0
      BY <1>2, <1>4, <2>1, <2>2 DEF StoredPairs
    <2>3. CASE src[i] # 0
      <3>1. src[i] \in 1..n
        BY <1>4, <2>3
      <3>2. A[i] \in CandidatesOf(items, f, src[i])
        BY <1>2, <1>4, <3>1
      <3> QED
        BY <2>1, <3>1, <3>2, OpposedPairs
    <2> QED
      BY <2>2, <2>3
  <1>6. ASSUME NEW p \in StoredPairs(items, f, recall) PROVE p \in PairsOf(A)
    <2>1. PICK c \in T[0] : p = PairOf(c)
      BY <1>2 DEF StoredPairs
    <2>2. 0 \in 0..n
      BY <1>1
    <2>3. PICK i \in 1..N : A[i] = c
      BY <1>4, <2>2
    <2> QED
      BY <1>4, <2>1, <2>3 DEF PairsOf
  <1>7. ASSUME NEW p \in Opposed(items, f) PROVE p \in PairsOf(A)
    <2>1. PICK k \in 1..n : \E c \in CandidatesOf(items, f, k) : PairOf(c) = p
      BY <1>7, OpposedPairs
    <2>2. k \in 0..n
      BY <1>1
    <2>3. PICK c \in T[k] : PairOf(c) = p
      BY <1>2, <2>1
    <2>4. PICK i \in 1..N : A[i] = c
      BY <1>4, <2>2
    <2> QED
      BY <1>4, <2>3, <2>4 DEF PairsOf
  <1> QED
    BY <1>5, <1>6, <1>7

(* What is mined has a pair each, as many as there are up to the cap.       *)
LEMMA MinedPairs ==
    ASSUME NEW N, NEW A, FunctionTo(A, N), NEW M, NEW m, NEW most, NEW at, Selects(M, m, A, most, at)
    PROVE  /\ m \in Nat /\ DOMAIN M = 1..m /\ Len(M) = m
           /\ PairsOf(M) \subseteq PairsOf(A)
           /\ Cardinality(PairsOf(M)) = m
  <1>1. /\ m \in Nat /\ M = [k \in 1..m |-> M[k]]
        /\ at \in [1..m -> KeptPlaces(A)]
        /\ \A k \in 1..m : M[k] = A[at[k]]
        /\ \A k, l \in 1..m : k < l <=> at[k] < at[l]
    BY Zenon DEF Selects
  <1>2. /\ DOMAIN A = 1..N /\ N \in Nat /\ KeptPlaces(A) \in SUBSET (1..N)
        /\ \A x, y \in KeptPlaces(A) : PairOf(A[x]) = PairOf(A[y]) => x = y
    BY Zenon, KeptPairs DEF FunctionTo
  <1>3. DOMAIN M = 1..m
    BY <1>1
  <1>4. Len(M) = m
    <2>1. M \in [1..m -> {M[k] : k \in 1..m}]
      BY <1>1
    <2> QED
      BY <1>1, <2>1
  <1>5. PairsOf(M) \subseteq PairsOf(A)
    <2>1. ASSUME NEW k \in 1..m PROVE PairOf(M[k]) \in PairsOf(A)
      <3>1. at[k] \in DOMAIN A /\ M[k] = A[at[k]]
        BY <1>1, <1>2
      <3> QED
        BY <3>1 DEF PairsOf
    <2> QED
      BY <1>3, <2>1 DEF PairsOf
  <1> DEFINE S == 1..m
             Q == PairsOf(M)
             g == [k \in S |-> PairOf(M[k])]
  <1>6. g \in [S -> Q] /\ \A p \in Q : \E k \in S : g[k] = p
    BY <1>3 DEF PairsOf
  <1>7. ASSUME NEW k \in S, NEW l \in S, g[k] = g[l] PROVE k = l
    <2>1. PairOf(A[at[k]]) = PairOf(A[at[l]])
      BY <1>1, <1>7
    <2>2. at[k] = at[l]
      BY <1>1, <1>2, <2>1
    <2>3. at[k] \in 1..N
      BY <1>1, <1>2
    <2>4. ~(at[k] < at[l]) /\ ~(at[l] < at[k])
      BY <1>2, <2>2, <2>3
    <2>5. ~(k < l) /\ ~(l < k)
      BY <1>1, <2>4
    <2> QED
      BY <1>1, <2>5
  <1>8. IsFiniteSet(S) /\ Cardinality(S) = m
    BY <1>1, FS_Interval
  <1> HIDE DEF S, Q, g
  <1>9. g \in Surjection(S, Q) /\ g \in Injection(S, Q)
    BY <1>6, <1>7 DEF Surjection, Injection, IsInjective
  <1>10. Cardinality(Q) = m
    BY <1>8, <1>9, FS_Surjection
  <1> QED
    BY <1>1, <1>3, <1>4, <1>5, <1>10 DEF Q

(* The stored decisions come before whatever the entries oppose.            *)
LEMMA StoredFirst ==
    ASSUME NEW n \in Nat, NEW T, NEW A, NEW N, NEW src, InOrderFrom(A, N, T, n, src),
           NEW M, NEW m, NEW most, NEW at, Selects(M, m, A, most, at),
           NEW k \in 1..m, PairOf(M[k]) \notin {PairOf(c) : c \in T[0]}
    PROVE  {PairOf(c) : c \in T[0]} \subseteq PairsOf(M)
  <1>1. /\ N \in Nat /\ A = [i \in 1..N |-> A[i]]
        /\ src \in [1..N -> 0..n]
        /\ \A i \in 1..N : A[i] \in T[src[i]]
        /\ \A l \in 0..n : \A x \in T[l] : \E i \in 1..N : src[i] = l /\ A[i] = x
        /\ \A i, j \in 1..N : i < j => src[i] <= src[j]
    BY Zenon DEF InOrderFrom
  <1>2. /\ m \in Nat /\ M = [j \in 1..m |-> M[j]]
        /\ at \in [1..m -> KeptPlaces(A)]
        /\ \A j \in 1..m : M[j] = A[at[j]]
        /\ \A j \in 1..m : \A x \in KeptPlaces(A) : x < at[j] => \E l \in 1..m : at[l] = x
    BY Zenon DEF Selects
  <1>3. FunctionTo(A, N)
    BY <1>1 DEF FunctionTo
  <1>4. /\ KeptPlaces(A) \in SUBSET (1..N)
        /\ \A i \in 1..N : \E y \in KeptPlaces(A) : y <= i /\ PairOf(A[y]) = PairOf(A[i])
    BY <1>3, KeptPairs
  <1> SUFFICES ASSUME NEW c \in T[0] PROVE PairOf(c) \in PairsOf(M)
    OBVIOUS
  <1>5. 0 \in 0..n
    OBVIOUS
  <1>6. PICK i \in 1..N : src[i] = 0 /\ A[i] = c
    BY <1>1, <1>5
  <1>7. PICK y \in KeptPlaces(A) : y <= i /\ PairOf(A[y]) = PairOf(A[i])
    BY <1>4
  <1> DEFINE x == at[k]
  <1>8. x \in 1..N /\ M[k] = A[x]
    BY <1>2, <1>4
  <1>9. src[x] # 0
    BY <1>1, <1>8
  <1> HIDE DEF x
  <1>10. i < x
    <2>1. src[x] \in 0..n
      BY <1>1, <1>8
    <2>2. x < i => src[x] <= 0
      BY <1>1, <1>6, <1>8
    <2>3. x # i
      BY <1>6, <1>9
    <2> QED
      BY <1>1, <1>6, <1>8, <1>9, <2>1, <2>2, <2>3
  <1>11. y < x
    <2>1. x \in Int /\ i \in Int /\ y \in Int
      BY <1>4, <1>7, <1>8
    <2> QED
      BY <1>7, <1>10, <2>1
  <1>12. PICK l \in 1..m : at[l] = y
    BY <1>2, <1>11 DEF x
  <1>13. PairOf(M[l]) = PairOf(c)
    BY <1>2, <1>6, <1>7, <1>12
  <1>14. l \in DOMAIN M
    BY <1>2
  <1> QED
    BY <1>13, <1>14 DEF PairsOf

(* The first entry that said it.                                            *)
FirstSaid(items, f, s) == CHOOSE k \in Said(items, f, s) : \A l \in Said(items, f, s) : k <= l

(* A candidate of the entries tells what was done since it was first said.  *)
LEMMA SinceFirstSaid ==
    ASSUME NEW items, NEW n, Conversation(items, n), NEW f, NEW recall,
           NEW A, NEW N, NEW src, InOrderFrom(A, N, TurnSources(items, f, recall, n), n, src),
           NEW x \in KeptPlaces(A), PairOf(A[x]) \notin StoredPairs(items, f, recall)
    PROVE  A[x].between = Since(items, FirstSaid(items, f, A[x].earlier))
  <1> DEFINE T == TurnSources(items, f, recall, n)
             c == A[x]
             said == Said(items, f, c.earlier)
             k == src[x]
  <1>1. n \in Nat /\ DOMAIN items = 1..n
    BY DEF Conversation
  <1>2. T[0] = StoredOf(items, f, recall) /\ \A l \in 1..n : T[l] = CandidatesOf(items, f, l)
    BY <1>1 DEF TurnSources
  <1> HIDE DEF T
  <1>3. /\ N \in Nat /\ A = [i \in 1..N |-> A[i]]
        /\ src \in [1..N -> 0..n]
        /\ \A i \in 1..N : A[i] \in T[src[i]]
        /\ \A l \in 0..n : \A y \in T[l] : \E i \in 1..N : src[i] = l /\ A[i] = y
        /\ \A i, j \in 1..N : i < j => src[i] <= src[j]
    BY Zenon DEF InOrderFrom, T
  <1>4. FunctionTo(A, N)
    BY <1>3 DEF FunctionTo
  <1>5. x \in 1..N /\ \A y \in 1..(x - 1) : PairOf(A[y]) # PairOf(A[x])
    BY <1>4, KeptPairs
  <1>6. k \in 1..n /\ c \in CandidatesOf(items, f, k)
    <2>1. k # 0
      BY <1>2, <1>3, <1>5 DEF StoredPairs
    <2>2. k \in 0..n /\ c \in T[k]
      BY <1>3, <1>5
    <2>3. k \in 1..n
      BY <2>1, <2>2
    <2> QED
      BY <1>2, <2>2, <2>3
  <1> HIDE DEF c, k
  <1>7. /\ k \in said /\ c.earlier.long /\ c.final \in CommittedOf(f)
        /\ Opposes(c.earlier, c.final) /\ c.between = Since(items, k)
    BY <1>6, CandidateIs
  <1>8. ASSUME NEW l \in said PROVE k <= l
    <2>1. l \in 1..n
      BY <1>1 DEF Said
    <2> DEFINE d == Candidate(c.earlier, c.final, Since(items, l))
    <2>2. d \in CandidatesOf(items, f, l)
      BY <1>7, <2>1, CandidateIs
    <2>3. PairOf(d) = PairOf(c)
      BY DEF PairOf, Candidate
    <2> HIDE DEF d
    <2>4. PICK i \in 1..N : src[i] = l /\ A[i] = d
      BY <1>2, <1>3, <2>1, <2>2
    <2>5. i \notin 1..(x - 1)
      BY <1>5, <2>3, <2>4 DEF c
    <2>6. x <= i
      BY <1>3, <1>5, <2>5
    <2>7. x = i \/ x < i
      BY <1>3, <1>5, <2>6
    <2>8. x < i => k <= l
      BY <1>3, <1>5, <2>4 DEF k
    <2>9. x = i => k = l
      BY <2>4 DEF k
    <2> QED
      BY <1>6, <2>1, <2>7, <2>8, <2>9
  <1>9. FirstSaid(items, f, c.earlier) = k
    <2>1. \A l \in said : l \in Nat
      BY <1>1 DEF Said
    <2> DEFINE e == CHOOSE e \in said : \A l \in said : e <= l
    <2>2. e \in said /\ \A l \in said : e <= l
      BY <1>7, <1>8
    <2>3. FirstSaid(items, f, c.earlier) = e
      BY Zenon DEF FirstSaid
    <2> HIDE DEF e
    <2>4. e <= k /\ k <= e
      BY <1>7, <1>8, <2>2
    <2> QED
      BY <1>7, <2>1, <2>2, <2>3, <2>4
  <1> QED
    BY <1>7, <1>9 DEF c

(* Both statements of a candidate have finitely many words.                 *)
FinitePair(c) == IsFiniteSet(c.earlier.words) /\ IsFiniteSet(c.final.words)

(* Statements that are shared as far as can be share all there is.          *)
LEMMA OverlapType ==
    ASSUME NEW a, NEW b, IsFiniteSet(b.words)
    PROVE  /\ Overlap(a, b) \in Nat /\ Cardinality(b.words) \in Nat
           /\ Overlap(a, b) <= Cardinality(b.words)
           /\ Overlap(b, b) = Cardinality(b.words)
           /\ Overlap(a, b) = Cardinality(b.words) => b.words \subseteq a.words
  <1> DEFINE S == b.words
             T == a.words \cap b.words
  <1>1. IsFiniteSet(S) /\ T \in SUBSET S
    OBVIOUS
  <1>2. IsFiniteSet(T) /\ Cardinality(T) <= Cardinality(S) /\ (Cardinality(T) = Cardinality(S) => T = S)
    BY <1>1, FS_Subset
  <1>3. Cardinality(S) \in Nat /\ Cardinality(T) \in Nat
    BY <1>1, <1>2, FS_CardinalityType
  <1>4. Overlap(a, b) = Cardinality(T) /\ Overlap(b, b) = Cardinality(S)
    <2>1. b.words \cap b.words = S
      OBVIOUS
    <2> QED
      BY <2>1, Zenon DEF Overlap
  <1>5. T = S => b.words \subseteq a.words
    OBVIOUS
  <1> QED
    BY <1>2, <1>3, <1>4, <1>5

(* The other way around.                                                    *)
LEMMA OverlapWith ==
    ASSUME NEW a, NEW b, IsFiniteSet(a.words)
    PROVE  Overlap(a, b) \in Nat
  <1>1. IsFiniteSet(a.words \cap b.words)
    BY FS_Subset
  <1> QED
    BY <1>1, FS_CardinalityType DEF Overlap

(* What a candidate's echo is taken for.                                    *)
EchoOf(c) == [contradicts |-> TRUE, earlier |-> c.earlier, final |-> c.final]

Covers(d, c) == c.earlier.words \subseteq d.earlier.words /\ c.final.words \subseteq d.final.words

KeyOf(answer, M) == Contradiction(answer, M)[1].of

(* The echo of a candidate is taken for one that has all its words.         *)
LEMMA EchoFits ==
    ASSUME NEW m \in Nat, NEW M, M = [k \in 1..m |-> M[k]], \A k \in 1..m : FinitePair(M[k]), NEW i \in 1..m
    PROVE  \E j \in 1..m : KeyOf(EchoOf(M[i]), M) = PairOf(M[j]) /\ Covers(M[j], M[i])
  <1> DEFINE c == M[i]
             answer == EchoOf(c)
             fit(d) == Overlap(d.earlier, answer.earlier) + Overlap(d.final, answer.final)
             g == [k \in 1..m |-> fit(M[k])]
             IsLast(j) == \A l \in DOMAIN M : \/ fit(M[j]) > fit(M[l])
                                              \/ fit(M[j]) = fit(M[l]) /\ j >= l
             j0 == CHOOSE j \in DOMAIN M : IsLast(j)
  <1>1. DOMAIN M = 1..m /\ M # <<>> /\ m # 0
    <2>1. DOMAIN M = 1..m /\ i \in 1..m
      OBVIOUS
    <2>2. DOMAIN <<>> = {}
      OBVIOUS
    <2> QED
      BY <2>1, <2>2
  <1>2. /\ IsFiniteSet(c.earlier.words) /\ IsFiniteSet(c.final.words)
    BY DEF FinitePair
  <1>a. answer.contradicts = TRUE /\ answer.earlier = c.earlier /\ answer.final = c.final
    BY DEF EchoOf
  <1> HIDE DEF answer
  <1>3. \A d : Overlap(d.earlier, answer.earlier) \in Nat /\ Overlap(d.final, answer.final) \in Nat
    BY <1>2, <1>a, OverlapType
  <1>4. g \in [1..m -> Int] /\ \A k \in 1..m : g[k] = fit(M[k])
    BY <1>3
  <1> HIDE DEF c, fit, g
  <1>5. PICK j1 : LastLargest(g, m, j1)
    BY <1>1, <1>4, LargestExist
  <1>6. j1 \in DOMAIN M /\ IsLast(j1)
    BY <1>1, <1>4, <1>5 DEF LastLargest
  <1>7. j0 \in 1..m /\ IsLast(j0)
    BY <1>1, <1>6, Zenon
  <1>8. KeyOf(EchoOf(c), M) = <<M[j0].earlier, M[j0].final>>
    <2> DEFINE place == LastMax(M, LAMBDA d : Overlap(d.earlier, answer.earlier) + Overlap(d.final, answer.final))
               key(j) == <<M[j].earlier, M[j].final>>
    <2>2. Contradiction(answer, M) = <<[kind |-> "self_contradiction", of |-> key(place)]>>
      BY <1>1, <1>a, Zenon DEF Contradiction
    <2>3. place = j0
      BY Zenon DEF LastMax, fit
    <2>4. KeyOf(answer, M) = <<[kind |-> "self_contradiction", of |-> key(j0)]>>[1].of
      BY <2>2, <2>3, Zenon DEF KeyOf
    <2> DEFINE w == key(j0)
    <2> HIDE DEF place, j0, w
    <2>5. <<[kind |-> "self_contradiction", of |-> w]>>[1].of = w
      OBVIOUS
    <2>6. KeyOf(answer, M) = w
      BY <2>4, <2>5, Zenon DEF w
    <2> QED
      BY <2>6 DEF answer, w
  <1> HIDE DEF j0
  <1> DEFINE d == M[j0]
             x == Overlap(d.earlier, c.earlier)
             y == Overlap(d.final, c.final)
  <1>9. fit(d) >= fit(c)
    <2>1. fit(d) > fit(M[i]) \/ fit(d) = fit(M[i])
      BY <1>1, <1>7
    <2>2. fit(d) \in Int
      <3>1. Overlap(d.earlier, answer.earlier) \in Nat /\ Overlap(d.final, answer.final) \in Nat
        BY <1>3
      <3> QED
        BY <3>1 DEF fit
    <2>3. fit(c) \in Int
      <3>1. Overlap(c.earlier, answer.earlier) \in Nat /\ Overlap(c.final, answer.final) \in Nat
        BY <1>3
      <3> QED
        BY <3>1 DEF fit
    <2> QED
      BY <2>1, <2>2, <2>3 DEF c
  <1>10. /\ x \in Nat /\ y \in Nat
         /\ x <= Cardinality(c.earlier.words) /\ y <= Cardinality(c.final.words)
         /\ Cardinality(c.earlier.words) \in Nat /\ Cardinality(c.final.words) \in Nat
         /\ x = Cardinality(c.earlier.words) => c.earlier.words \subseteq d.earlier.words
         /\ y = Cardinality(c.final.words) => c.final.words \subseteq d.final.words
    BY Zenon, <1>2, OverlapType
  <1>11. fit(d) = x + y /\ fit(c) = Cardinality(c.earlier.words) + Cardinality(c.final.words)
    <2>1. Overlap(c.earlier, c.earlier) = Cardinality(c.earlier.words)
          /\ Overlap(c.final, c.final) = Cardinality(c.final.words)
      BY <1>2, OverlapType
    <2> QED
      BY <1>a, <2>1 DEF fit
  <1>12. x = Cardinality(c.earlier.words) /\ y = Cardinality(c.final.words)
    <2> HIDE DEF x, y, d
    <2> QED
      BY <1>9, <1>10, <1>11
  <1> QED
    BY Zenon, <1>7, <1>8, <1>10, <1>12 DEF PairOf, Covers, c

(* A message has finitely many words.                                       *)
LEMMA OpeningFinite ==
    ASSUME NEW f, IsMessage(f)
    PROVE  IsFiniteSet(Opening(f).words)
  <1> DEFINE n == Len(f)
             W == {f[k].words : k \in DOMAIN f}
             g == [k \in 1..n |-> f[k].words]
  <1>1. n \in Nat /\ DOMAIN f = 1..n /\ \A k \in 1..n : IsFiniteSet(f[k].words)
    BY MessageShape DEF Message, IsStatement
  <1> HIDE DEF n
  <1>2. g \in [1..n -> W] /\ \A w \in W : \E k \in 1..n : g[k] = w
    BY <1>1
  <1>3. \A w \in W : IsFiniteSet(w)
    BY <1>1
  <1>4. IsFiniteSet(1..n)
    BY <1>1, FS_Interval
  <1>5. Opening(f).words = UNION W
    BY DEF Opening
  <1> HIDE DEF W, g
  <1>6. g \in Surjection(1..n, W)
    BY <1>2 DEF Surjection
  <1>7. IsFiniteSet(W)
    BY <1>4, <1>6, FS_Surjection
  <1>8. IsFiniteSet(UNION W)
    BY <1>3, <1>7, FS_UNION
  <1> QED
    BY <1>5, <1>8

(* What a message commits to are statements.                                *)
LEMMA CommittedStatement ==
    ASSUME NEW msg, IsMessage(msg), NEW s \in CommittedOf(msg)
    PROVE  IsFiniteSet(s.words)
  <1>1. \A k \in DOMAIN msg : IsStatement(msg[k])
    BY DEF IsMessage
  <1>2. s \in Range(msg)
    BY DEF CommittedOf
  <1>3. PICK k \in DOMAIN msg : s = msg[k]
    BY <1>2 DEF Range
  <1> QED
    BY <1>1, <1>3 DEF IsStatement

(* The candidate of a stored decision has finitely many words.              *)
LEMMA StoredFinite ==
    ASSUME NEW items, NEW f, IsMessage(f), NEW m, IsStatement(m.says)
    PROVE  FinitePair(StoredCandidate(items, f, m))
  <1> DEFINE final == Committed(f)
             c == StoredCandidate(items, f, m)
             best == final[LastMax(final, LAMBDA s : Overlap(m.says, s))]
  <1>1. PICK l : Elements(final, l, CommittedOf(f))
    BY CommittedElements
  <1>2. c = [earlier |-> m.says, between |-> Summary(items),
             final |-> IF final = <<>> THEN Opening(f) ELSE best]
    BY Zenon DEF StoredCandidate
  <1>3. IsFiniteSet(m.says.words)
    BY DEF IsStatement
  <1>4. IsFiniteSet(Opening(f).words)
    BY OpeningFinite
  <1>5. ASSUME final # <<>> PROVE IsFiniteSet(best.words)
    <2> DEFINE measure(k) == Overlap(m.says, final[k])
               g == [k \in 1..l |-> measure(k)]
               IsLast(j) == \A k \in DOMAIN final : \/ measure(j) > measure(k)
                                                    \/ measure(j) = measure(k) /\ j >= k
               place == CHOOSE j \in DOMAIN final : IsLast(j)
    <2>1. best = final[place]
      BY Zenon DEF LastMax
    <2> HIDE DEF best, final
    <2>2. /\ l \in Nat /\ DOMAIN final = 1..l /\ final = [k \in 1..l |-> final[k]]
          /\ \A k \in 1..l : final[k] \in CommittedOf(f)
      BY <1>1 DEF Elements
    <2>3. \A k : measure(k) \in Nat
      BY <1>3, OverlapWith
    <2>4. l # 0
      <3>1. final \in Seq(CommittedOf(f)) /\ Len(final) = l
        BY <1>1, ElementsSequence
      <3> QED
        BY <1>5, <3>1
    <2>5. g \in [1..l -> Int] /\ \A k \in 1..l : g[k] = measure(k)
      BY <2>3
    <2> HIDE DEF measure, g
    <2>6. PICK j : LastLargest(g, l, j)
      BY <2>2, <2>4, <2>5, LargestExist
    <2>7. j \in DOMAIN final /\ IsLast(j)
      BY <2>2, <2>5, <2>6 DEF LastLargest
    <2>8. place \in DOMAIN final
      BY <2>7, Zenon
    <2> HIDE DEF place
    <2>9. best \in CommittedOf(f)
      BY <2>1, <2>2, <2>8
    <2> QED
      BY <2>9, CommittedStatement
  <1> HIDE DEF final, best, c
  <1>6. c.earlier = m.says /\ c.final = IF final = <<>> THEN Opening(f) ELSE best
    BY <1>2
  <1>7. FinitePair(c)
    BY <1>3, <1>4, <1>5, <1>6 DEF FinitePair
  <1> QED
    BY <1>7 DEF c

(* So have the candidates of an entry.                                      *)
LEMMA EntryFinite ==
    ASSUME NEW items, NEW n, Conversation(items, n), NEW f, IsMessage(f), NEW k \in 1..n,
           NEW c \in CandidatesOf(items, f, k)
    PROVE  FinitePair(c)
  <1>1. k \in Said(items, f, c.earlier) /\ c.earlier.long /\ c.final \in CommittedOf(f)
    BY CandidateIs
  <1>2. items[k].type = "assistant" /\ c.earlier \in Range(items[k].says)
    BY <1>1 DEF Said
  <1>3. IsMessage(items[k].says)
    BY <1>2 DEF Conversation, IsEntry
  <1>4. c.earlier \in CommittedOf(items[k].says)
    BY <1>1, <1>2 DEF CommittedOf
  <1> QED
    BY <1>1, <1>3, <1>4, CommittedStatement DEF FinitePair

(* And so has each of all the candidates.                                   *)
LEMMA AllFinite ==
    ASSUME NEW items, NEW n, Conversation(items, n), NEW f, IsMessage(f), NEW recall, NEW r, Relevant(recall, r),
           NEW A, NEW N, NEW src, InOrderFrom(A, N, TurnSources(items, f, recall, n), n, src), NEW i \in 1..N
    PROVE  FinitePair(A[i])
  <1> DEFINE T == TurnSources(items, f, recall, n)
  <1>1. n \in Nat
    BY DEF Conversation
  <1>2. T[0] = StoredOf(items, f, recall) /\ \A l \in 1..n : T[l] = CandidatesOf(items, f, l)
    BY <1>1 DEF TurnSources
  <1> HIDE DEF T
  <1>3. src[i] \in 0..n /\ A[i] \in T[src[i]]
    BY DEF InOrderFrom, T
  <1>4. CASE src[i] = 0
    <2>1. A[i] \in StoredOf(items, f, recall)
      BY <1>2, <1>3, <1>4
    <2>2. PICK k \in Held(recall) : A[i] = StoredCandidate(items, f, recall[k])
      BY <2>1, Zenon DEF StoredOf
    <2>3. IsStatement(recall[k].says)
      BY DEF Held, Relevant
    <2> DEFINE m == recall[k]
    <2> HIDE DEF m
    <2>4. FinitePair(StoredCandidate(items, f, m))
      BY <2>3, StoredFinite DEF m
    <2> QED
      BY <2>2, <2>4, Zenon DEF m
  <1>5. CASE src[i] # 0
    <2>1. src[i] \in 1..n
      BY <1>3, <1>5
    <2>2. A[i] \in CandidatesOf(items, f, src[i])
      BY <1>2, <1>3, <2>1
    <2> QED
      BY <2>1, <2>2, EntryFinite
  <1> QED
    BY <1>4, <1>5

(* Recalled memories, those that are ranked, and the order they come in.    *)
Recallable(ms, n) == n \in Nat /\ ms = [k \in 1..n |-> ms[k]] /\ \A k \in 1..n : IsRemembered(ms[k])

Ranked(ms) == {k \in DOMAIN ms : ms[k].active /\ ms[k].score >= ReviewFloor}
ByRecall(q, P) ==
    {p \in P \X P : q[p[1]].score > q[p[2]].score \/ (q[p[1]].score = q[p[2]].score /\ p[1] < p[2])}

(* By score, and by place where scores are equal, is an order.              *)
LEMMA ScoresOrder ==
    ASSUME NEW P \in SUBSET Nat, NEW q, \A i \in P : q[i].score \in Int
    PROVE  Orders(ByRecall(q, P), P)
  <1> DEFINE R == ByRecall(q, P)
             s(i) == q[i].score
  <1>1. \A x, y \in P : <<x, y>> \in R <=> s(x) > s(y) \/ (s(x) = s(y) /\ x < y)
    BY DEF ByRecall
  <1>2. \A x \in P : s(x) \in Int /\ x \in Int
    <2>1. \A x \in P : x \in Nat
      OBVIOUS
    <2>2. \A x \in P : s(x) \in Int
      BY Zenon
    <2> HIDE DEF s
    <2> QED
      BY <2>1, <2>2
  <1> HIDE DEF R, s
  <1>3. \A x \in P : <<x, x>> \notin R
    BY <1>1, <1>2
  <1>4. \A x \in P : \A y \in P : x # y => <<x, y>> \in R \/ <<y, x>> \in R
    BY <1>1, <1>2
  <1>5. ASSUME NEW x \in P, NEW y \in P, NEW z \in P, <<x, y>> \in R, <<y, z>> \in R
        PROVE  <<x, z>> \in R
    <2>1. s(x) \in Int /\ s(y) \in Int /\ s(z) \in Int /\ x \in Int /\ y \in Int /\ z \in Int
      BY <1>2
    <2>2. s(x) > s(y) \/ (s(x) = s(y) /\ x < y)
      BY <1>1, <1>5
    <2>3. s(y) > s(z) \/ (s(y) = s(z) /\ y < z)
      BY <1>1, <1>5
    <2>4. s(x) > s(z) \/ (s(x) = s(z) /\ x < z)
      BY <2>1, <2>2, <2>3
    <2> QED
      BY <1>1, <2>4
  <1>6. Orders(R, P)
    BY <1>3, <1>4, <1>5 DEF Orders
  <1> QED
    BY <1>6 DEF R

(* The recall is ranked by score.                                           *)
LEMMA RecallAlong ==
    ASSUME NEW ms, NEW n, Recallable(ms, n)
    PROVE  \E a : Along(RankRecall(ms), ms, ByRecall(ms, Ranked(ms)), Ranked(ms), a)
  <1> DEFINE P == Ranked(ms)
             m == Cardinality(P)
             q == Filtered(ms, LAMBDA x : x.active /\ x.score >= ReviewFloor)
             D == 1..m
             R == ByRecall(q, D)
             rank == RankRecall(ms)
  <1>1. n \in Nat /\ P \in SUBSET (1..n) /\ \A i \in P : ms[i].score \in Int
    BY DEF Recallable, Ranked, IsRemembered
  <1>f. q = Picked(ms, P)
    BY Zenon DEF Filtered, Ranked
  <1>2. PICK b : KeepsAt(q, ms, P, b)
    BY Zenon, <1>1, <1>f, PickedKeeps
  <1> HIDE DEF P, q
  <1>3. /\ m \in Nat /\ DOMAIN q = D
        /\ b \in [D -> P]
        /\ \A k \in D : q[k] = ms[b[k]]
        /\ \A i \in P : \E k \in D : b[k] = i
        /\ \A k, l \in D : k < l <=> b[k] < b[l]
    BY <1>2, Zenon DEF KeepsAt
  <1> HIDE DEF m
  <1>4. D \in SUBSET Nat /\ IsFiniteSet(D) /\ Cardinality(D) = m /\ \A i \in D : q[i].score \in Int
    <2>1. IsFiniteSet(D) /\ Cardinality(D) = m
      BY <1>3, FS_Interval
    <2>2. D \subseteq Nat
      OBVIOUS
    <2>3. ASSUME NEW i \in D PROVE q[i].score \in Int
      <3>1. q[i] = ms[b[i]] /\ b[i] \in P
        BY <1>3
      <3> QED
        BY Zenon, <1>1, <3>1
    <2> QED
      BY <2>1, <2>2, <2>3
  <1>x. D = 1..m
    OBVIOUS
  <1> HIDE DEF D
  <1>5. Orders(R, D)
    BY <1>4, ScoresOrder
  <1>6. rank = ListOf(q, R, D)
    <2> DEFINE Before(i, j) == \/ q[i].score > q[j].score
                               \/ q[i].score = q[j].score /\ i < j
               here(k) == CHOOSE i \in DOMAIN q : Cardinality({j \in DOMAIN q : Before(j, i)}) = k - 1
               there(k) == CHOOSE i \in D : PlaceIn(R, D, i) = k - 1
    <2>2. rank = [k \in DOMAIN q |-> q[here(k)]]
      BY Zenon DEF RankRecall, StableDescending, q
    <2>3. \A i \in D : Earlier(R, D, i) = {j \in D : Before(j, i)}
      BY DEF Earlier, ByRecall
    <2>4. \A k : \A i \in D : Cardinality({j \in D : Before(j, i)}) = k - 1 <=> PlaceIn(R, D, i) = k - 1
      BY <2>3, Zenon DEF PlaceIn
    <2>5. \A k : here(k) = there(k)
      BY <1>3, <2>4, Zenon
    <2>6. ListOf(q, R, D) = [k \in 1..Cardinality(D) |-> q[there(k)]]
      BY Zenon DEF ListOf
    <2>7. DOMAIN q = 1..Cardinality(D)
      BY <1>3, <1>4, <1>x
    <2> HIDE DEF here, there, rank
    <2> QED
      BY <2>2, <2>5, <2>6, <2>7
  <1>7. PICK s : Along(rank, q, R, D, s)
    BY <1>4, <1>5, <1>6, ListAlong
  <1> HIDE DEF rank
  <1>8. /\ DOMAIN rank = 1..m
        /\ s \in [1..m -> D]
        /\ \A k \in 1..m : rank[k] = q[s[k]]
        /\ \A i \in D : \E k \in 1..m : s[k] = i
        /\ \A k, l \in 1..m : k < l <=> <<s[k], s[l]>> \in R
    BY <1>4, <1>7, Zenon DEF Along
  <1>9. \A x, y \in D : <<x, y>> \in R <=> q[x].score > q[y].score \/ (q[x].score = q[y].score /\ x < y)
    BY DEF ByRecall
  <1> DEFINE a == [k \in 1..m |-> b[s[k]]]
             O == ByRecall(ms, P)
  <1>10. a \in [1..m -> P] /\ \A k \in 1..m : a[k] = b[s[k]]
    BY <1>3, <1>8
  <1> HIDE DEF a, R
  <1>11. \A k \in 1..m : rank[k] = ms[a[k]]
    BY <1>3, <1>8, <1>10
  <1>12. ASSUME NEW i \in P PROVE \E k \in 1..m : a[k] = i
    <2>1. PICK j \in D : b[j] = i
      BY <1>3
    <2>2. PICK k \in 1..m : s[k] = j
      BY <1>8
    <2> QED
      BY <1>10, <2>1, <2>2
  <1>13. ASSUME NEW k \in 1..m, NEW l \in 1..m PROVE k < l <=> <<a[k], a[l]>> \in O
    <2>1. s[k] \in D /\ s[l] \in D /\ a[k] \in P /\ a[l] \in P
      BY <1>8, <1>10
    <2>2. <<a[k], a[l]>> \in O <=>
            ms[a[k]].score > ms[a[l]].score \/ (ms[a[k]].score = ms[a[l]].score /\ a[k] < a[l])
      BY <2>1 DEF ByRecall
    <2>3. q[s[k]] = ms[a[k]] /\ q[s[l]] = ms[a[l]] /\ (s[k] < s[l] <=> a[k] < a[l])
      BY <1>3, <1>10, <2>1
    <2>4. k < l <=> <<s[k], s[l]>> \in R
      BY <1>8
    <2> QED
      BY <1>9, <2>1, <2>2, <2>3, <2>4
  <1> HIDE DEF O
  <1>14. Along(rank, ms, O, P, a)
    BY <1>3, <1>8, <1>10, <1>11, <1>12, <1>13, Zenon DEF Along, m
  <1> QED
    BY <1>14, Zenon DEF rank, O, P

(* What is recalled is relevant.                                            *)
LEMMA RecallRelevant ==
    ASSUME NEW ms, NEW n, Recallable(ms, n)
    PROVE  Relevant(RankRecall(ms), Cardinality(Ranked(ms)))
  <1> DEFINE P == Ranked(ms)
             m == Cardinality(P)
             rank == RankRecall(ms)
             near == Filtered(ms, LAMBDA x : x.active /\ x.score >= ReviewFloor)
             here(k) == CHOOSE i \in DOMAIN near :
                            Cardinality({j \in DOMAIN near : \/ near[j].score > near[i].score
                                                             \/ near[j].score = near[i].score /\ j < i}) = k - 1
  <1>1. PICK a : Along(rank, ms, ByRecall(ms, P), P, a)
    BY RecallAlong
  <1>2. rank = [k \in DOMAIN near |-> near[here(k)]]
    BY Zenon DEF RankRecall, StableDescending
  <1> HIDE DEF near, here, rank, m
  <1>3. rank = [k \in DOMAIN rank |-> rank[k]]
    BY <1>2
  <1>4. /\ m \in Nat /\ DOMAIN rank = 1..m /\ a \in [1..m -> P]
        /\ \A k \in 1..m : rank[k] = ms[a[k]]
    BY <1>1, Zenon DEF Along, m
  <1>5. \A i \in P : ms[i].score >= ReviewFloor /\ IsStatement(ms[i].says)
    BY DEF Ranked, Recallable, IsRemembered
  <1> HIDE DEF P
  <1>6. \A k \in 1..m : rank[k].score >= ReviewFloor /\ IsStatement(rank[k].says)
    BY <1>4, <1>5
  <1>7. rank = [k \in 1..m |-> rank[k]]
    BY <1>3, <1>4
  <1> QED
    BY <1>4, <1>6, <1>7 DEF Relevant, rank, m, P

(* The first that a filter keeps.                                           *)
FirstPlace(k, P) == k \in P /\ \A j \in P : k <= j
StartsWith(q, x) == q[1] = x

(* What a filter keeps starts with the first of those it keeps.             *)
LEMMA FirstKept ==
    ASSUME NEW n \in Nat, NEW P \in SUBSET (1..n), NEW s, NEW k, FirstPlace(k, P),
           NEW most \in Nat, most # 0
    PROVE  StartsWith(Shortened(Picked(s, P), most), s[k])
  <1> DEFINE q == Picked(s, P)
             m == Cardinality(P)
  <1>1. PICK at : KeepsAt(q, s, P, at)
    BY PickedKeeps, Zenon
  <1>2. Elements(q, m, {s[i] : i \in P})
    BY Zenon, PickedElements
  <1> HIDE DEF q, m
  <1>3. q \in Seq({s[i] : i \in P}) /\ Len(q) = m
    BY <1>2, ElementsSequence
  <1>4. /\ m \in Nat /\ at \in [1..m -> P]
        /\ \A l \in 1..m : q[l] = s[at[l]]
        /\ \A i \in P : \E l \in 1..m : at[l] = i
        /\ \A l, j \in 1..m : l < j <=> at[l] < at[j]
    BY <1>1, Zenon DEF KeepsAt, m
  <1>k. k \in P /\ \A j \in P : k <= j
    BY DEF FirstPlace
  <1>n. \A i \in P : i \in Nat
    <2>1. 1..n \subseteq Nat
      OBVIOUS
    <2> QED
      BY <2>1
  <1>5. PICK l \in 1..m : at[l] = k
    BY <1>4, <1>k
  <1>6. 1 \in 1..m /\ m >= 1
    BY <1>4, <1>5
  <1>7. at[1] = k
    <2>1. at[1] \in P /\ ~(at[1] < k)
      <3>1. at[1] \in P /\ k <= at[1]
        BY Zenon, <1>4, <1>6, <1>k
      <3>2. at[1] \in Nat /\ k \in Nat
        BY Zenon, <1>k, <1>n, <3>1
      <3> QED
        BY <3>1, <3>2
    <2>2. ~(1 < l)
      <3>1. 1 < l => at[1] < at[l]
        BY <1>4, <1>6
      <3> QED
        BY <1>5, <2>1, <3>1
    <2>3. l = 1
      BY <1>4, <2>2
    <2> QED
      BY <1>5, <2>3
  <1>8. q[1] = s[k]
    BY <1>4, <1>6, <1>7
  <1> DEFINE z == IF Len(q) < most THEN Len(q) ELSE most
  <1>9. z \in 1..Len(q) /\ 1 \in 1..z
    BY <1>3, <1>4, <1>6
  <1>10. Shortened(q, most) = SubSeq(q, 1, z)
    BY Zenon DEF Shortened
  <1> HIDE DEF z
  <1>11. SubSeq(q, 1, z)[1] = q[1]
    BY <1>3, <1>9
  <1> QED
    BY Zenon, <1>8, <1>10, <1>11 DEF q, StartsWith

(* The gate holds on the first of the preferences.                          *)
LEMMA HoldIsFirst ==
    ASSUME NEW ms, NEW n, Recallable(ms, n), NEW x \in ConstraintHold(ms)
    PROVE  x = MinePreferences(RankRecall(ms))[1]
  <1> DEFINE P == {k \in DOMAIN ms : IsConstraint(ms[k]) /\ ms[k].score >= GateTau}
             near == Filtered(ms, LAMBDA m : IsConstraint(m) /\ m.score >= GateTau)
             rank == RankRecall(ms)
             O == ByRecall(ms, Ranked(ms))
             z == Cardinality(P)
             r == Cardinality(Ranked(ms))
             IsFirst(i) == \A j \in DOMAIN near : \/ near[i].score > near[j].score
                                                  \/ near[i].score = near[j].score /\ i <= j
             place == CHOOSE i \in DOMAIN near : IsFirst(i)
  <1>1. /\ n \in Nat /\ DOMAIN ms = 1..n
        /\ \A k \in 1..n : ms[k].score \in Int
    BY DEF Recallable, IsRemembered
  <1>2. P \in SUBSET (1..n) /\ \A i \in P : ms[i].score \in Int /\ i \in Int
    BY <1>1
  <1>3. near = Picked(ms, P)
    BY Zenon DEF Filtered
  <1>4. PICK b : KeepsAt(near, ms, P, b)
    BY Zenon, <1>1, <1>2, <1>3, PickedKeeps
  <1>5. near # <<>> /\ x = near[place]
    <2>1. ConstraintHold(ms) = IF near = <<>> THEN {} ELSE {near[place]}
      BY Zenon DEF ConstraintHold, FirstMax
    <2> HIDE DEF near, place
    <2> QED
      BY <2>1
  <1>e. Elements(near, z, {ms[i] : i \in P})
    BY <1>1, <1>2, <1>3, PickedElements
  <1>6. P \subseteq Ranked(ms)
    <2>1. GateTau >= ReviewFloor /\ GateTau \in Nat /\ ReviewFloor \in Nat
      BY ReviewAssumption
    <2>2. ASSUME NEW i \in P PROVE i \in Ranked(ms)
      <3>1. ms[i].active /\ ms[i].score >= GateTau /\ ms[i].score \in Int /\ i \in DOMAIN ms
        BY <1>2 DEF IsConstraint
      <3> QED
        BY <2>1, <3>1 DEF Ranked
    <2> QED
      BY <2>2
  <1>p. \A i \in 1..n : i \in P <=> IsConstraint(ms[i]) /\ ms[i].score >= GateTau
    BY <1>1
  <1> HIDE DEF P, near
  <1>7. /\ z \in Nat /\ DOMAIN near = 1..z
        /\ b \in [1..z -> P]
        /\ \A k \in 1..z : near[k] = ms[b[k]]
        /\ \A i \in P : \E k \in 1..z : b[k] = i
        /\ \A k, l \in 1..z : k < l <=> b[k] < b[l]
    BY <1>4, Zenon DEF KeepsAt
  <1>8. z # 0
    <2>1. near \in Seq({ms[i] : i \in P}) /\ Len(near) = z
      BY <1>e, ElementsSequence
    <2> QED
      BY <1>5, <2>1
  <1> HIDE DEF z
  <1>9. place \in 1..z /\ IsFirst(place)
    <2> DEFINE g == [k \in 1..z |-> near[k].score]
    <2>1. \A k \in 1..z : g[k] = near[k].score
      OBVIOUS
    <2>2. g \in [1..z -> Int]
      <3>1. ASSUME NEW k \in 1..z PROVE near[k].score \in Int
        BY Zenon, <1>2, <1>7
      <3> QED
        BY <3>1
    <2> HIDE DEF g
    <2>3. PICK i : FirstLargest(g, z, i)
      BY <1>7, <1>8, <2>2, LargestExist
    <2>4. i \in DOMAIN near /\ IsFirst(i)
      BY <1>7, <2>1, <2>3 DEF FirstLargest
    <2> QED
      BY <1>7, <2>4, Zenon
  <1> HIDE DEF place
  <1> DEFINE w == b[place]
  <1>10. w \in P /\ x = ms[w]
    BY <1>5, <1>7, <1>9
  <1> HIDE DEF w
  <1>11. PICK a : Along(rank, ms, O, Ranked(ms), a)
    BY RecallAlong
  <1> HIDE DEF rank
  <1>12. /\ r \in Nat /\ DOMAIN rank = 1..r
         /\ a \in [1..r -> Ranked(ms)]
         /\ \A k \in 1..r : rank[k] = ms[a[k]]
         /\ \A i \in Ranked(ms) : \E k \in 1..r : a[k] = i
         /\ \A k, l \in 1..r : k < l <=> <<a[k], a[l]>> \in O
    BY <1>11, Zenon DEF Along
  <1>13. PICK k \in 1..r : a[k] = w
    BY <1>6, <1>10, <1>12
  <1>14. \A i, j \in Ranked(ms) : <<i, j>> \in O <=> ms[i].score > ms[j].score \/ (ms[i].score = ms[j].score /\ i < j)
    BY DEF ByRecall
  <1>15. Ranked(ms) \subseteq 1..n
    BY <1>1 DEF Ranked
  <1> HIDE DEF r, O
  <1>16. k \in Held(rank)
    BY <1>2, <1>10, <1>12, <1>13, <1>p DEF Held
  <1>17. ASSUME NEW j \in Held(rank) PROVE k <= j
    <2>1. j \in 1..r /\ IsConstraint(ms[a[j]])
      BY <1>12 DEF Held
    <2> SUFFICES ASSUME ~(k <= j) PROVE FALSE
      OBVIOUS
    <2> DEFINE v == a[j]
    <2>2. j < k
      BY <1>12, <2>1
    <2>3. <<v, w>> \in O /\ v \in Ranked(ms)
      BY <1>12, <1>13, <2>1, <2>2
    <2> HIDE DEF v
    <2>4. ms[v].score > ms[w].score \/ (ms[v].score = ms[w].score /\ v < w)
      BY <1>6, <1>10, <1>14, <2>3
    <2>5. ms[v].score \in Int /\ ms[w].score \in Int /\ v \in Int /\ w \in Int /\ ms[w].score >= GateTau /\ GateTau \in Int
      <3>1. v \in 1..n /\ w \in 1..n
        BY <1>2, <1>10, <1>15, <2>3
      <3>2. GateTau \in Int
        BY ReviewAssumption
      <3> QED
        BY <1>1, <1>10, <1>p, <3>1, <3>2
    <2>6. v \in P
      <3>1. v \in 1..n /\ IsConstraint(ms[v])
        BY <1>15, <2>1, <2>3 DEF v
      <3>2. ms[v].score >= GateTau
        BY <2>4, <2>5
      <3> QED
        BY <1>p, <3>1, <3>2
    <2>7. PICK l \in 1..z : b[l] = v
      BY <1>7, <2>6
    <2>8. ms[w].score > ms[v].score \/ (ms[w].score = ms[v].score /\ place <= l)
      BY <1>7, <1>9, <2>7 DEF w
    <2>9. v < w
      BY <2>4, <2>5, <2>8
    <2>10. l < place
      BY <1>7, <1>9, <2>7, <2>9 DEF w
    <2>11. place <= l
      BY <2>4, <2>5, <2>8
    <2> QED
      BY <1>7, <1>9, <2>7, <2>10, <2>11
  <1>18. MinePreferences(rank) = Shortened(Picked(rank, Held(rank)), CandidatesMax)
    BY Zenon DEF MinePreferences, Filtered, Held
  <1>19. Held(rank) \in SUBSET (1..r)
    BY <1>12 DEF Held
  <1>20. CandidatesMax \in Nat /\ CandidatesMax # 0
    BY ReviewAssumption
  <1>21. Shortened(Picked(rank, Held(rank)), CandidatesMax)[1] = rank[k]
    <2> DEFINE H == Held(rank)
               most == CandidatesMax
    <2>1. r \in Nat /\ H \in SUBSET (1..r) /\ FirstPlace(k, H) /\ most \in Nat /\ most # 0
      BY <1>12, <1>16, <1>17, <1>19, <1>20 DEF FirstPlace
    <2> HIDE DEF H, most
    <2>2. StartsWith(Shortened(Picked(rank, H), most), rank[k])
      BY <2>1, FirstKept
    <2> QED
      BY <2>2 DEF H, most, StartsWith
  <1> QED
    BY <1>10, <1>12, <1>13, <1>18, <1>21 DEF rank

(* What is fair of the review of one turn.                                  *)
MinedFairly(items, f, recall, mined, c) ==
    /\ PairOf(c) \notin StoredPairs(items, f, recall) =>
            c.between = Summary(SubSeq(items, FirstSaid(items, f, c.earlier) + 1, Len(items)))
    /\ KeyOf(EchoOf(c), mined) \in PairsOf(mined)
    /\ c.earlier.words \subseteq KeyOf(EchoOf(c), mined)[1].words
    /\ c.final.words \subseteq KeyOf(EchoOf(c), mined)[2].words

PairsToAnswer(items, f, recall) == StoredPairs(items, f, recall) \cup Opposed(items, f)

FairMining(items, f, recall, mined) ==
    /\ PairsOf(mined) \subseteq PairsToAnswer(items, f, recall)
    /\ Cardinality(PairsOf(mined)) = Len(mined)
    /\ Len(mined) = IF Cardinality(PairsToAnswer(items, f, recall)) > CandidatesMax
                    THEN CandidatesMax ELSE Cardinality(PairsToAnswer(items, f, recall))
    /\ PairsOf(mined) \subseteq StoredPairs(items, f, recall) \/ StoredPairs(items, f, recall) \subseteq PairsOf(mined)
    /\ \A i \in DOMAIN mined : MinedFairly(items, f, recall, mined, mined[i])

(* What is mined of a turn is fair.                                         *)
LEMMA MiningIsFair ==
    ASSUME NEW items, NEW n, Conversation(items, n), NEW f, IsMessage(f), NEW recall, NEW r, Relevant(recall, r)
    PROVE  FairMining(items, f, recall, MineCandidates(items, f, recall))
  <1> DEFINE A == AllCandidates(items, f, recall)
             T == TurnSources(items, f, recall, n)
             M == MineCandidates(items, f, recall)
  <1>1. n \in Nat /\ T[0] = StoredOf(items, f, recall)
    <2>1. n \in Nat
      BY DEF Conversation
    <2> QED
      BY <2>1 DEF TurnSources
  <1>2. Comes(A, T, n)
    BY AllComes
  <1>3. M = Shortened(Deduplicated(A), CandidatesMax)
    BY Zenon DEF MineCandidates
  <1> HIDE DEF A, M
  <1>4. PICK N, src : InOrderFrom(A, N, T, n, src)
    BY <1>2 DEF Comes
  <1>5. FunctionTo(A, N) /\ N \in Nat
    BY <1>4 DEF InOrderFrom, FunctionTo
  <1>6. CandidatesMax \in Nat
    BY ReviewAssumption
  <1>7. PICK m, at : Selects(M, m, A, CandidatesMax, at)
    BY <1>3, <1>5, <1>6, MinedSelects DEF SelectsSome
  <1>8. /\ m \in Nat /\ DOMAIN M = 1..m /\ Len(M) = m
        /\ PairsOf(M) \subseteq PairsOf(A)
        /\ Cardinality(PairsOf(M)) = m
    BY <1>5, <1>7, MinedPairs
  <1>9. PairsOf(A) = PairsToAnswer(items, f, recall)
    BY <1>2, AllPairs DEF PairsToAnswer
  <1>10. m = IF Cardinality(PairsOf(A)) > CandidatesMax THEN CandidatesMax ELSE Cardinality(PairsOf(A))
    BY <1>7, Zenon DEF Selects
  <1>11. /\ M = [k \in 1..m |-> M[k]]
         /\ \A k \in 1..m : at[k] \in KeptPlaces(A) /\ M[k] = A[at[k]]
    BY Zenon, <1>7 DEF Selects
  <1>12. KeptPlaces(A) \in SUBSET (1..N)
    BY <1>5, KeptPairs
  <1>13. StoredPairs(items, f, recall) = {PairOf(c) : c \in T[0]}
    BY <1>1, Zenon DEF StoredPairs
  <1> HIDE DEF T
  <1>14. PairsOf(M) \subseteq StoredPairs(items, f, recall) \/ StoredPairs(items, f, recall) \subseteq PairsOf(M)
    <2> SUFFICES ASSUME ~(PairsOf(M) \subseteq StoredPairs(items, f, recall))
                 PROVE  StoredPairs(items, f, recall) \subseteq PairsOf(M)
      OBVIOUS
    <2>1. PICK k \in 1..m : PairOf(M[k]) \notin StoredPairs(items, f, recall)
      BY <1>8 DEF PairsOf
    <2>2. PairOf(M[k]) \notin {PairOf(c) : c \in T[0]}
      BY <1>13, <2>1
    <2>3. {PairOf(c) : c \in T[0]} \subseteq PairsOf(M)
      BY <1>1, <1>4, <1>7, <2>2, StoredFirst
    <2> QED
      BY <1>13, <2>3
  <1>15. \A k \in 1..m : FinitePair(M[k])
    <2> TAKE k \in 1..m
    <2>1. at[k] \in 1..N /\ M[k] = A[at[k]]
      BY <1>11, <1>12
    <2>2. FinitePair(A[at[k]])
      BY <1>4, <2>1, AllFinite DEF T
    <2> QED
      BY <2>1, <2>2
  <1>16. ASSUME NEW k \in 1..m PROVE MinedFairly(items, f, recall, M, M[k])
    <2> DEFINE c == M[k]
    <2>1. PairOf(c) \notin StoredPairs(items, f, recall) => c.between = Since(items, FirstSaid(items, f, c.earlier))
      <3>1. at[k] \in KeptPlaces(A) /\ c = A[at[k]]
        BY <1>11
      <3> HIDE DEF c
      <3> SUFFICES ASSUME PairOf(c) \notin StoredPairs(items, f, recall)
                   PROVE  c.between = Since(items, FirstSaid(items, f, c.earlier))
        OBVIOUS
      <3>2. PairOf(A[at[k]]) \notin StoredPairs(items, f, recall)
        BY <3>1
      <3>3. A[at[k]].between = Since(items, FirstSaid(items, f, A[at[k]].earlier))
        BY <1>4, <3>1, <3>2, SinceFirstSaid DEF T
      <3> QED
        BY <3>1, <3>3
    <2>2. PICK j \in 1..m : KeyOf(EchoOf(c), M) = PairOf(M[j]) /\ Covers(M[j], c)
      BY Zenon, <1>8, <1>11, <1>15, EchoFits
    <2> HIDE DEF c
    <2> DEFINE key == KeyOf(EchoOf(c), M)
    <2>3. key \in PairsOf(M)
      BY <1>8, <2>2 DEF PairsOf
    <2>4. key[1] = M[j].earlier /\ key[2] = M[j].final
      BY <2>2 DEF PairOf
    <2>5. c.earlier.words \subseteq M[j].earlier.words /\ c.final.words \subseteq M[j].final.words
      BY <2>2 DEF Covers
    <2>6. Since(items, FirstSaid(items, f, c.earlier))
            = Summary(SubSeq(items, FirstSaid(items, f, c.earlier) + 1, Len(items)))
      BY Zenon DEF Since
    <2> QED
      BY <2>1, <2>3, <2>4, <2>5, <2>6 DEF MinedFairly, c
  <1>17. FairMining(items, f, recall, M)
    BY <1>8, <1>9, <1>10, <1>14, <1>16, Zenon DEF FairMining
  <1> QED
    BY <1>17 DEF M

(* The entries of a turn are those a window may have.                       *)
TurnTyped == input.kind = "turn" => input.items \in Seq(Entries)

(* The entries of a turn only grow.                                         *)
LEMMA TurnStep ==
    ASSUME Shape, InputNext, input.kind = "turn"
    PROVE  \E e \in Entries : input'.items = Append(input.items, e)
  <1>1. Enter
    <2>1. ~Turn /\ ~Result /\ ~Torn
      BY DEF Turn, Result, Torn, Grown
    <2>2. ~Locate /\ ~Match /\ ~Paginate /\ ~Declare /\ ~Score /\ ~Infer /\ ~Type /\ ~Form /\ ~Tell
      BY DEF Locate, Match, Paginate, Declare, Score, Infer, Type, Form, Tell, Grown
    <2>3. ~Ask /\ ~Hit /\ ~Cite /\ ~Conclude /\ ~Back /\ ~Wrap /\ ~ReadVariable /\ ~State
      BY DEF Ask, Hit, Cite, Conclude, Back, Wrap, ReadVariable, State, Grown
    <2>4. ~Save /\ ~Recalls /\ ~Meter /\ ~Write /\ ~WriteOlder /\ ~Damage
      BY DEF Save, Recalls, Meter, Write, WriteOlder, Damage, Grown
    <2> QED
      BY <2>1, <2>2, <2>3, <2>4 DEF InputNext
  <1>2. PICK e \in Entries : Grown("turn", e)
    BY <1>1 DEF Enter
  <1> QED
    BY <1>2, GrownKind

(* A turn's entries stay what they are.                                     *)
LEMMA TurnTypedStep ==
    ASSUME Shape, TurnTyped, [InputNext]_input
    PROVE  TurnTyped'
  <1>1. CASE UNCHANGED input
    BY <1>1 DEF TurnTyped
  <1>2. CASE InputNext
    <2>1. input'.kind = input.kind
      BY <1>2, ShapeStep
    <2>2. CASE input.kind = "turn"
      <3>1. PICK e \in Entries : input'.items = Append(input.items, e)
        BY <1>2, <2>2, TurnStep
      <3>2. input.items \in Seq(Entries)
        BY <2>2 DEF TurnTyped
      <3> DEFINE s == input.items
                 t == input'.items
      <3>3. s \in Seq(Entries) /\ t = Append(s, e)
        BY <3>1, <3>2
      <3> HIDE DEF s, t
      <3>4. t \in Seq(Entries)
        BY <3>3
      <3> QED
        BY <3>4 DEF TurnTyped, t
    <2>3. CASE input.kind # "turn"
      BY <2>1, <2>3 DEF TurnTyped
    <2> QED
      BY <2>2, <2>3
  <1> QED
    BY <1>1, <1>2

(* A turn of such entries is reviewed fairly.                               *)
LEMMA TurnIsFair ==
    ASSUME TurnTyped
    PROVE  CandidatesAreFair
  <1> DEFINE items == input.items
             recall(ms) == RankRecall(ms)
             mined(f, ms) == MineCandidates(items, f, recall(ms))
             Holds(ms) == \A x \in ConstraintHold(ms) : x = MinePreferences(recall(ms))[1]
  <1> SUFFICES ASSUME input.kind = "turn" PROVE CandidatesAreFair
    BY Zenon DEF CandidatesAreFair
  <1>1. Conversation(items, Len(items))
    <2> DEFINE s == input.items
    <2>1. s \in Seq(Entries)
      BY DEF TurnTyped
    <2> HIDE DEF s
    <2>2. Len(s) \in Nat /\ s = [k \in 1..Len(s) |-> s[k]] /\ \A k \in 1..Len(s) : s[k] \in Entries
      BY <2>1
    <2>3. \A e \in Entries : IsEntry(e)
      BY AlgorithmsAssumption
    <2>4. Conversation(s, Len(s))
      BY <2>2, <2>3 DEF Conversation
    <2> QED
      BY <2>4 DEF s
  <1> HIDE DEF items
  <1>2. ASSUME NEW f \in Finals, NEW ms \in Remembered
        PROVE  FairMining(items, f, recall(ms), mined(f, ms)) /\ Holds(ms)
    <2>1. IsMessage(f)
      BY AlgorithmsAssumption
    <2>2. Recallable(ms, Len(ms))
      <3> DEFINE S == ToSet(ms)
      <3>1. ms \in Seq(S) /\ \A k \in DOMAIN ms : IsRemembered(ms[k])
        BY AlgorithmsAssumption
      <3> HIDE DEF S
      <3>2. Len(ms) \in Nat /\ DOMAIN ms = 1..Len(ms) /\ ms = [k \in 1..Len(ms) |-> ms[k]]
        BY <3>1
      <3> QED
        BY <3>1, <3>2 DEF Recallable
    <2>3. Relevant(recall(ms), Cardinality(Ranked(ms)))
      BY <2>2, RecallRelevant
    <2>4. Holds(ms)
      BY <2>2, HoldIsFirst
    <2> QED
      BY <1>1, <2>1, <2>3, <2>4, MiningIsFair
  <1> DEFINE Pair(c) == <<c.earlier, c.final>>
             Echo(c) == [contradicts |-> TRUE, earlier |-> c.earlier, final |-> c.final]
             held(ms) == {i \in DOMAIN recall(ms) : IsConstraint(recall(ms)[i])}
             stored(f, ms) == {Pair(StoredCandidate(items, f, recall(ms)[i])) : i \in held(ms)}
             pairs(f, ms) == stored(f, ms) \cup Opposed(items, f)
             put(f, ms) == {Pair(mined(f, ms)[i]) : i \in DOMAIN mined(f, ms)}
             key(f, ms, c) == Contradiction(Echo(c), mined(f, ms))[1].of
             said(f, c) == Said(items, f, c.earlier)
             first(f, c) == CHOOSE k \in said(f, c) : \A l \in said(f, c) : k <= l
  <1>3. ASSUME NEW f, NEW ms, FairMining(items, f, recall(ms), mined(f, ms))
        PROVE  /\ put(f, ms) \subseteq pairs(f, ms) /\ Cardinality(put(f, ms)) = Len(mined(f, ms))
               /\ Len(mined(f, ms)) = IF Cardinality(pairs(f, ms)) > CandidatesMax
                                      THEN CandidatesMax ELSE Cardinality(pairs(f, ms))
               /\ put(f, ms) \subseteq stored(f, ms) \/ stored(f, ms) \subseteq put(f, ms)
               /\ \A i \in DOMAIN mined(f, ms) :
                    /\ Pair(mined(f, ms)[i]) \notin stored(f, ms) =>
                            mined(f, ms)[i].between
                                = Summary(SubSeq(items, first(f, mined(f, ms)[i]) + 1, Len(items)))
                    /\ key(f, ms, mined(f, ms)[i]) \in put(f, ms)
                    /\ mined(f, ms)[i].earlier.words \subseteq key(f, ms, mined(f, ms)[i])[1].words
                    /\ mined(f, ms)[i].final.words \subseteq key(f, ms, mined(f, ms)[i])[2].words
    <2>1. put(f, ms) = PairsOf(mined(f, ms))
      BY Zenon DEF PairsOf, PairOf
    <2>2. stored(f, ms) = StoredPairs(items, f, recall(ms))
      <3>1. \A x : x \in stored(f, ms) <=> \E i \in Held(recall(ms)) : x = PairOf(StoredCandidate(items, f, recall(ms)[i]))
        BY Zenon DEF Held, PairOf
      <3>2. \A x : x \in StoredPairs(items, f, recall(ms)) <=>
                    \E c \in StoredOf(items, f, recall(ms)) : x = PairOf(c)
        BY Zenon DEF StoredPairs
      <3>3. \A c : c \in StoredOf(items, f, recall(ms)) <=>
                    \E i \in Held(recall(ms)) : c = StoredCandidate(items, f, recall(ms)[i])
        BY Zenon DEF StoredOf
      <3> HIDE DEF stored, recall
      <3> QED
        BY <3>1, <3>2, <3>3, Zenon
    <2>3. \A c : key(f, ms, c) = KeyOf(EchoOf(c), mined(f, ms)) /\ Pair(c) = PairOf(c)
                 /\ first(f, c) = FirstSaid(items, f, c.earlier)
      BY Zenon DEF KeyOf, EchoOf, PairOf, FirstSaid
    <2> HIDE DEF put, stored, key, first, mined, recall, Pair
    <2>4. pairs(f, ms) = PairsToAnswer(items, f, recall(ms))
      BY <2>2, Zenon DEF PairsToAnswer
    <2> HIDE DEF pairs
    <2> QED
      BY <1>3, <2>1, <2>2, <2>3, <2>4, Zenon DEF FairMining, MinedFairly
  <1> DEFINE Body(f, ms) ==
                /\ put(f, ms) \subseteq pairs(f, ms) /\ Cardinality(put(f, ms)) = Len(mined(f, ms))
                /\ Len(mined(f, ms)) = IF Cardinality(pairs(f, ms)) > CandidatesMax
                                       THEN CandidatesMax ELSE Cardinality(pairs(f, ms))
                /\ put(f, ms) \subseteq stored(f, ms) \/ stored(f, ms) \subseteq put(f, ms)
                /\ \A i \in DOMAIN mined(f, ms) :
                    LET c == mined(f, ms)[i]
                    IN  /\ Pair(c) \notin stored(f, ms) =>
                                c.between = Summary(SubSeq(items, first(f, c) + 1, Len(items)))
                        /\ /\ key(f, ms, c) \in put(f, ms)
                           /\ c.earlier.words \subseteq key(f, ms, c)[1].words
                           /\ c.final.words \subseteq key(f, ms, c)[2].words
                /\ Holds(ms)
  <1>4. ASSUME NEW f \in Finals, NEW ms \in Remembered PROVE Body(f, ms)
    <2>1. FairMining(items, f, recall(ms), mined(f, ms)) /\ Holds(ms)
      BY <1>2, Zenon
    <2> HIDE DEF put, pairs, stored, mined, key, first, Pair, Holds, recall
    <2> QED
      BY <1>3, <2>1, Zenon
  <1>5. (\A f \in Finals : \A ms \in Remembered : Body(f, ms)) => CandidatesAreFair
    BY Zenon DEF CandidatesAreFair, items
  <1> QED
    BY <1>4, <1>5, Zenon

(* What the end-of-turn review puts to the hop, for every window, final     *)
(* message and recall: distinct pairs of statements it ought to, as many as *)
(* the cap lets, the stored decisions first, each with what was done since  *)
(* it was first said, told apart by the echo; and the gate holds on the     *)
(* first of the preferences (mine_candidates, review_once,                  *)
(* constraint_hold).                                                        *)
THEOREM ReviewIsFair == InputSpec => []CandidatesAreFair
  <1>1. InputInit => Shape /\ TurnTyped
    <2>1. <<>> \in Seq(Entries)
      OBVIOUS
    <2> QED
      BY Zenon, <2>1, ShapeInit DEF TurnTyped
  <1>2. Shape /\ TurnTyped /\ [InputNext]_input => Shape' /\ TurnTyped'
    BY ShapeStep, TurnTypedStep
  <1>3. TurnTyped => CandidatesAreFair
    BY TurnIsFair
  <1> QED
    BY <1>1, <1>2, <1>3, PTL DEF InputSpec

-----------------------------------------------------------------------------
(* A fold along a sequence is a run: each value is the step of the one      *)
(* before it.                                                               *)
Runs(h, O, base, n) == h[0] = base /\ \A k \in 1..n : h[k] = O[k][h[k - 1]]

(* f ends like such a run.                                                  *)
EndsLike(f, O, base, n, A) == \E h \in [0..n -> A] : Runs(h, O, base, n) /\ h[n] = f[1..n]

(* What f steps to where it has the value a.                                *)
StepsBy(f, O, base, n, A) ==
    /\ f[{}] = base
    /\ \A p \in SUBSET (1..n) : \A a \in A : p # {} /\ f[p \ {Max(p)}] = a => f[p] = O[Max(p)][a]

(* A function that takes these steps ends like such a run.                  *)
LEMMA PrefixRun ==
    ASSUME NEW n \in Nat, NEW A, NEW base \in A, NEW O \in [1..n -> [A -> A]],
           NEW f, StepsBy(f, O, base, n, A)
    PROVE  EndsLike(f, O, base, n, A)
  <1> DEFINE ch == [s \in SUBSET (1..n) |-> Max(s)]
             Upto(k) == 1..k
             h == [k \in 0..n |-> f[Upto(k)]]
  <1>1. PICK g \in [SUBSET (1..n) -> A] : GoesAlong(g, O, base, n)
    BY Zenon, PrefixFold
  <1>2. Chooses(ch, 1..n)
    BY Zenon, MaxOf DEF Chooses
  <1>3. ASSUME NEW s \in SUBSET (1..n), s # {}
        PROVE  /\ ch[s] = Max(s) /\ s \ {Max(s)} \in SUBSET (1..n) /\ g[s \ {Max(s)}] \in A
               /\ f[s \ {Max(s)}] = g[s \ {Max(s)}] => f[s] = g[s]
    <2>1. ch[s] = Max(s) /\ s \ {Max(s)} \in SUBSET (1..n)
      BY Zenon
    <2>2. g[s \ {Max(s)}] \in A
      BY <2>1
    <2>3. g[s] = O[Max(s)][g[s \ {Max(s)}]]
      BY <1>1, <1>3 DEF GoesAlong
    <2>4. f[s \ {Max(s)}] = g[s \ {Max(s)}] => f[s] = O[Max(s)][g[s \ {Max(s)}]]
      BY Zenon, <1>3, <2>2 DEF StepsBy
    <2> QED
      BY <2>1, <2>2, <2>3, <2>4
  <1>4. ASSUME NEW k \in 0..n PROVE Upto(k) \in SUBSET (1..n)
    OBVIOUS
  <1>5. \A k \in 1..n : Max(Upto(k)) = k /\ Upto(k) \ {k} = Upto(k - 1) /\ Upto(k) # {}
    <2> TAKE k \in 1..n
    <2>1. k \in Upto(k)
      OBVIOUS
    <2> QED
      BY Zenon, <2>1, MaxOfPrefix
  <1>6. Upto(0) = {}
    OBVIOUS
  <1> HIDE DEF ch
  <1>7. ASSUME NEW s \in SUBSET (1..n) PROVE f[s] = g[s]
    <2>1. IsFiniteSet(s)
      <3>1. IsFiniteSet(1..n)
        BY FS_Interval
      <3> QED
        BY Zenon, <3>1, FS_Subset
    <2>2. Chooses(ch, s)
      BY <1>2 DEF Chooses
    <2>3. StepAlike(f, g, ch, s)
      <3>1. f[{}] = g[{}]
        BY <1>1 DEF StepsBy, GoesAlong
      <3>2. \A p \in SUBSET s : p # {} /\ f[p \ {ch[p]}] = g[p \ {ch[p]}] => f[p] = g[p]
        BY Zenon, <1>3
      <3> QED
        BY Zenon, <3>1, <3>2 DEF StepAlike
    <2> QED
      BY Zenon, <2>1, <2>2, <2>3, FoldIsOne
  <1> HIDE DEF Upto
  <1>8. h \in [0..n -> A]
    BY <1>4, <1>7
  <1>9. Runs(h, O, base, n)
    <2>1. h[0] = base
      <3>1. 0 \in 0..n
        OBVIOUS
      <3> QED
        BY Zenon, <1>6, <3>1 DEF StepsBy
    <2>2. ASSUME NEW k \in 1..n PROVE h[k] = O[k][h[k - 1]]
      <3>1. k \in 0..n /\ k - 1 \in 0..n
        OBVIOUS
      <3>2. h[k] = f[Upto(k)] /\ h[k - 1] = f[Upto(k) \ {Max(Upto(k))}] /\ h[k - 1] \in A
        <4>1. h[k] = f[Upto(k)] /\ h[k - 1] = f[Upto(k - 1)] /\ h[k - 1] \in A
          BY <1>8, <3>1
        <4>2. Upto(k) \ {Max(Upto(k))} = Upto(k - 1)
          BY <1>5
        <4> QED
          BY Zenon, <4>1, <4>2
      <3>3. Upto(k) \in SUBSET (1..n) /\ Upto(k) # {} /\ Max(Upto(k)) = k
        BY <1>4, <1>5, <3>1
      <3> DEFINE p == Upto(k)
                 a == h[k - 1]
      <3>4. p \in SUBSET (1..n) /\ p # {} /\ a \in A /\ f[p \ {Max(p)}] = a
        BY Zenon, <3>2, <3>3
      <3> HIDE DEF p, a, h
      <3>5. f[p] = O[Max(p)][a]
        BY Zenon, <3>4 DEF StepsBy
      <3> QED
        BY Zenon, <3>2, <3>3, <3>5 DEF p, a
    <2> QED
      BY Zenon, <2>1, <2>2 DEF Runs
  <1>10. h[n] = f[1..n]
    BY DEF Upto
  <1> QED
    BY <1>8, <1>9, <1>10 DEF EndsLike

(* The documented facts.  A help page is n lines.                           *)
Page(lines, n) == n \in Nat /\ lines = [k \in 1..n |-> lines[k]]

(* A sequence is as many lines as it is long.                               *)
LEMMA PageOf ==
    ASSUME NEW S, NEW s \in Seq(S)
    PROVE  Page(s, Len(s)) /\ \A k \in 1..Len(s) : s[k] \in S
  BY DEF Page

(* The statements a page can make.                                          *)
Statable(lines, n) == {[name |-> lines[p[1]].name, value |-> lines[p[2]].marker] : p \in (1..n) \X (1..n)}

(* What is open after some of the lines, and what they stated.              *)
ReadStates(lines, n) ==
    [current : {{}} \cup {{lines[k].name} : k \in 1..n}, stated : Seq(Statable(lines, n))]

(* Nothing is open, or stated, before the first line.                       *)
ReadStart == [current |-> {}, stated |-> <<>>]

(* The one sequence of one element, and of none.                            *)
LEMMA SequenceOfOne ==
    ASSUME NEW x
    PROVE  SetToSeq({x}) = <<x>> /\ SetToSeq({}) = <<>>
  <1>1. SetToSeq({x}) = <<x>>
    <2> DEFINE S == {x}
               IsListing(f) == f \in [1..Cardinality(S) -> S] /\ IsInjective(f)
    <2>1. Cardinality(S) = 1
      BY FS_Singleton
    <2>2. IsListing(<<x>>)
      <3>1. <<x>> = [i \in 1..1 |-> x]
        OBVIOUS
      <3> QED
        BY <2>1, <3>1 DEF IsInjective
    <2>3. \A f : IsListing(f) => f = <<x>>
      BY <2>1
    <2>4. SetToSeq(S) = CHOOSE f : IsListing(f)
      BY Zenon DEF SetToSeq
    <2> HIDE DEF IsListing, S
    <2>5. IsListing(SetToSeq(S))
      BY <2>2, <2>4
    <2> QED
      BY <2>3, <2>5 DEF S
  <1>2. SetToSeq({}) = <<>>
    <2> DEFINE S == {}
               IsListing(f) == f \in [1..Cardinality(S) -> S] /\ IsInjective(f)
    <2>1. Cardinality(S) = 0
      BY FS_EmptySet
    <2>2. IsListing(<<>>)
      <3>1. <<>> \in [1..0 -> {}] /\ DOMAIN <<>> = {}
        OBVIOUS
      <3> QED
        BY <2>1, <3>1 DEF IsInjective
    <2>3. \A f : IsListing(f) => f = <<>>
      BY <2>1
    <2>4. SetToSeq(S) = CHOOSE f : IsListing(f)
      BY Zenon DEF SetToSeq
    <2> HIDE DEF IsListing, S
    <2>5. IsListing(SetToSeq(S))
      BY <2>2, <2>4
    <2> QED
      BY <2>3, <2>5 DEF S
  <1> QED
    BY <1>1, <1>2

(* The line marks a default of the entry it is in.                          *)
MarksDefault(line) == line.type \in {"entry", "more"} /\ line.marker # Absent

(* The entry a line is in: the one it begins, or the one it goes on.        *)
OpenAt(read, line) ==
    CASE line.type = "entry" -> {line.name}
      [] line.type = "more" -> read.current
      [] OTHER -> {}

(* What reading a line leaves open, and what it adds.                       *)
LEMMA LineRead ==
    ASSUME NEW read, NEW line
    PROVE  /\ AtLine(read, line).current = OpenAt(read, line)
           /\ ~MarksDefault(line) => AtLine(read, line).stated = read.stated
           /\ MarksDefault(line) =>
                AtLine(read, line).stated
                    = read.stated \o SetToSeq({[name |-> x, value |-> line.marker] : x \in OpenAt(read, line)})
           /\ AtLine(read, line) = [current |-> AtLine(read, line).current, stated |-> AtLine(read, line).stated]
  BY Zenon DEF AtLine, MarksDefault, OpenAt

(* What a marking line says of what is open.                                *)
LEMMA MarkOfOpen ==
    ASSUME NEW v, NEW open, NEW names, open \in {{}} \cup {{x} : x \in names}
    PROVE  LET said == {[name |-> x, value |-> v] : x \in open}
           IN  SetToSeq(said) \in Seq(said) /\ ToSet(SetToSeq(said)) = said
  <1>1. CASE open = {}
    <2>1. {[name |-> x, value |-> v] : x \in open} = {}
      BY <1>1
    <2>2. SetToSeq({}) = <<>>
      BY SequenceOfOne
    <2>3. <<>> \in Seq({}) /\ ToSet(<<>>) = {}
      BY DEF ToSet
    <2> QED
      BY <2>1, <2>2, <2>3, Zenon
  <1>2. CASE open # {}
    <2>1. PICK x : open = {x}
      BY <1>2
    <2> DEFINE r == [name |-> x, value |-> v]
    <2>2. {[name |-> y, value |-> v] : y \in open} = {r}
      BY <2>1
    <2> HIDE DEF r
    <2>3. SetToSeq({r}) = <<r>>
      BY SequenceOfOne
    <2>4. <<r>> \in Seq({r}) /\ ToSet(<<r>>) = {r}
      BY DEF ToSet
    <2> QED
      BY <2>2, <2>3, <2>4, Zenon
  <1> QED
    BY <1>1, <1>2, Zenon

(* Reading a line keeps to what the page can say.                           *)
LEMMA LineReadType ==
    ASSUME NEW lines, NEW n \in Nat, NEW k \in 1..n, NEW read \in ReadStates(lines, n)
    PROVE  AtLine(read, lines[k]) \in ReadStates(lines, n)
  <1> DEFINE line == lines[k]
             names == {lines[i].name : i \in 1..n}
             T == Statable(lines, n)
             open == OpenAt(read, line)
             said == {[name |-> x, value |-> line.marker] : x \in open}
             was == read.stated
  <1>1. read.current \in {{}} \cup {{lines[i].name} : i \in 1..n} /\ was \in Seq(T)
    BY DEF ReadStates
  <1>2. open \in {{}} \cup {{lines[i].name} : i \in 1..n}
    BY <1>1 DEF OpenAt
  <1>3. \A x \in open : x \in names
    BY <1>2
  <1>4. said \subseteq T
    <2>1. ASSUME NEW x \in open PROVE [name |-> x, value |-> line.marker] \in T
      <3>1. PICK i \in 1..n : x = lines[i].name
        BY <1>3
      <3>2. <<i, k>> \in (1..n) \X (1..n) /\ <<i, k>>[1] = i /\ <<i, k>>[2] = k
        OBVIOUS
      <3> QED
        BY <3>1, <3>2 DEF Statable
    <2> QED
      BY <2>1
  <1>5. SetToSeq(said) \in Seq(T)
    <2>1. open \in {{}} \cup {{x} : x \in names}
      BY <1>2
    <2>2. SetToSeq(said) \in Seq(said)
      <3> HIDE DEF names, open
      <3> QED
        BY <2>1, MarkOfOpen
    <2> HIDE DEF said, T
    <2> QED
      BY <1>4, <2>2
  <1> DEFINE more == SetToSeq(said)
             new == AtLine(read, line)
  <1>6. was \o more \in Seq(T)
    <2>1. was \in Seq(T) /\ more \in Seq(T)
      BY <1>1, <1>5
    <2> HIDE DEF was, more, T
    <2> QED
      BY <2>1
  <1>7. new.stated \in {was, was \o more}
    BY Zenon, LineRead
  <1>8. new = [current |-> new.current, stated |-> new.stated] /\ new.current = open
    BY Zenon, LineRead
  <1>9. new.stated \in Seq(T)
    <2> HIDE DEF new, was, more, T
    <2> QED
      BY <1>1, <1>6, <1>7
  <1> HIDE DEF new, open, T
  <1> QED
    BY <1>2, <1>8, <1>9 DEF ReadStates, T, new

(* f reads the lines at some places, the last of them last.                 *)
ReadsOver(f, lines) ==
    f = [p \in SUBSET DOMAIN lines |-> IF p = {} THEN ReadStart ELSE AtLine(f[p \ {Max(p)}], lines[Max(p)])]

(* What a page states, as the fold of its lines.                            *)
LEMMA HelpFunction ==
    ASSUME NEW lines
    PROVE  StatedInHelp(lines) = (CHOOSE f : ReadsOver(f, lines))[DOMAIN lines].stated
  BY Zenon DEF StatedInHelp, FoldLeft, MapThenFoldSet, ReadsOver, ReadStart

(* Reading goes along the lines.                                            *)
ReadsAlong(h, lines, n) ==
    /\ h \in [0..n -> ReadStates(lines, n)]
    /\ h[0] = ReadStart
    /\ \A k \in 1..n : h[k] = AtLine(h[k - 1], lines[k])
    /\ h[n].stated = StatedInHelp(lines)

(* There is such a run over a page.                                         *)
LEMMA HelpRun ==
    ASSUME NEW lines, NEW n, Page(lines, n)
    PROVE  \E h : ReadsAlong(h, lines, n)
  <1> DEFINE States == ReadStates(lines, n)
             With(k, s) == AtLine(s, lines[k])
             O == [k \in 1..n |-> [s \in States |-> With(k, s)]]
             f == CHOOSE f : ReadsOver(f, lines)
  <1>1. n \in Nat /\ DOMAIN lines = 1..n
    BY DEF Page
  <1>2. ReadStart \in States
    <2>1. <<>> \in Seq(Statable(lines, n))
      OBVIOUS
    <2> QED
      BY <2>1 DEF ReadStart, ReadStates
  <1>3. \A k \in 1..n : \A s \in States : With(k, s) \in States
    BY <1>1, LineReadType
  <1> HIDE DEF States
  <1>4. O \in [1..n -> [States -> States]] /\ \A k \in 1..n : \A s \in States : O[k][s] = With(k, s)
    <2> HIDE DEF With
    <2> QED
      BY <1>3
  <1> HIDE DEF O
  <1>5. PICK g \in [SUBSET (1..n) -> States] : GoesAlong(g, O, ReadStart, n)
    BY Zenon, <1>1, <1>2, <1>4, PrefixFold
  <1>6. ASSUME NEW p \in SUBSET (1..n), p # {} PROVE g[p] = With(Max(p), g[p \ {Max(p)}])
    <2>1. Max(p) \in 1..n
      BY Zenon, <1>1, <1>6, MaxOf
    <2>2. g[p \ {Max(p)}] \in States
      <3>1. p \ {Max(p)} \in SUBSET (1..n)
        BY Zenon
      <3> QED
        BY <3>1
    <2> HIDE DEF With
    <2> QED
      BY <1>4, <1>5, <1>6, <2>1, <2>2 DEF GoesAlong
  <1>7. ReadsOver(g, lines)
    <2>1. \A p \in SUBSET (1..n) : g[p] = IF p = {} THEN ReadStart ELSE With(Max(p), g[p \ {Max(p)}])
      BY Zenon, <1>5, <1>6 DEF GoesAlong
    <2>2. g = [p \in SUBSET (1..n) |-> IF p = {} THEN ReadStart ELSE With(Max(p), g[p \ {Max(p)}])]
      <3> HIDE DEF With
      <3> QED
        BY <2>1
    <2> QED
      BY Zenon, <1>1, <2>2 DEF ReadsOver
  <1>8. ReadsOver(f, lines)
    BY <1>7
  <1>9. StatedInHelp(lines) = f[1..n].stated
    BY <1>1, HelpFunction
  <1> HIDE DEF f
  <1>10. StepsBy(f, O, ReadStart, n, States)
    <2>1. f[{}] = ReadStart
      BY <1>8 DEF ReadsOver
    <2>2. ASSUME NEW p \in SUBSET (1..n), NEW a \in States, p # {}, f[p \ {Max(p)}] = a
          PROVE  f[p] = O[Max(p)][a]
      <3>1. f[p] = With(Max(p), f[p \ {Max(p)}])
        BY Zenon, <1>1, <1>8, <2>2 DEF ReadsOver
      <3>2. Max(p) \in 1..n
        BY Zenon, <1>1, <2>2, MaxOf
      <3> HIDE DEF With
      <3>3. O[Max(p)][a] = With(Max(p), a)
        BY <1>4, <3>2
      <3>4. f[p] = With(Max(p), a)
        BY Zenon, <2>2, <3>1
      <3> QED
        BY <3>3, <3>4
    <2> QED
      BY <2>1, <2>2 DEF StepsBy
  <1>11. PICK h \in [0..n -> States] : Runs(h, O, ReadStart, n) /\ h[n] = f[1..n]
    <2>1. EndsLike(f, O, ReadStart, n, States)
      BY <1>1, <1>2, <1>4, <1>10, PrefixRun
    <2> QED
      BY <2>1 DEF EndsLike
  <1>12. \A k \in 1..n : h[k] = With(k, h[k - 1])
    <2>1. \A k \in 1..n : k - 1 \in 0..n
      BY <1>1
    <2> HIDE DEF With
    <2> QED
      BY <1>4, <1>11, <2>1 DEF Runs
  <1> QED
    BY <1>9, <1>11, <1>12 DEF ReadsAlong, Runs, States

(* Line j is in the entry that begins at line i.                            *)
InEntry(lines, i, j) ==
    i \in 1..j /\ lines[i].type = "entry" /\ \A k \in (i + 1)..j : lines[k].type = "more"

(* The lines up to k state r.                                               *)
StatesUpTo(lines, r, k) ==
    \E i, j \in 1..k : /\ InEntry(lines, i, j) /\ MarksDefault(lines[j])
                       /\ r = [name |-> lines[i].name, value |-> lines[j].marker]

(* What is open after line k is the entry it is in, and what is stated is   *)
(* what the lines so far state.                                             *)
HasRead(lines, read, k) ==
    /\ \A x : x \in read.current <=> \E i \in 1..k : InEntry(lines, i, k) /\ x = lines[i].name
    /\ \A r : r \in ToSet(read.stated) <=> StatesUpTo(lines, r, k)

(* A line is in the entry the line before it is in, begins one or is in     *)
(* none.                                                                    *)
LEMMA EntryGoesOn ==
    ASSUME NEW lines, NEW k \in Nat, k > 0, NEW i
    PROVE  InEntry(lines, i, k) <=> \/ i = k /\ lines[k].type = "entry"
                                    \/ InEntry(lines, i, k - 1) /\ lines[k].type = "more"
  <1>1. ASSUME InEntry(lines, i, k)
        PROVE  \/ i = k /\ lines[k].type = "entry"
               \/ InEntry(lines, i, k - 1) /\ lines[k].type = "more"
    BY <1>1 DEF InEntry
  <1>2. ASSUME i = k, lines[k].type = "entry" PROVE InEntry(lines, i, k)
    BY <1>2 DEF InEntry
  <1>3. ASSUME InEntry(lines, i, k - 1), lines[k].type = "more" PROVE InEntry(lines, i, k)
    <2>1. i \in 1..k /\ \A m \in (i + 1)..k : m = k \/ m \in (i + 1)..(k - 1)
      BY <1>3 DEF InEntry
    <2> QED
      BY <1>3, <2>1 DEF InEntry
  <1> QED
    BY <1>1, <1>2, <1>3

(* What two sequences hold together.                                        *)
LEMMA HeldTogether ==
    ASSUME NEW S, NEW a \in Seq(S), NEW b \in Seq(S)
    PROVE  ToSet(a \o b) = ToSet(a) \cup ToSet(b)
  <1>1. DOMAIN a = 1..Len(a) /\ DOMAIN b = 1..Len(b) /\ Len(a) \in Nat /\ Len(b) \in Nat
    OBVIOUS
  <1>2. DOMAIN (a \o b) = 1..(Len(a) + Len(b))
    OBVIOUS
  <1>3. ASSUME NEW x \in ToSet(a \o b) PROVE x \in ToSet(a) \cup ToSet(b)
    <2>1. PICK k \in 1..(Len(a) + Len(b)) : x = (a \o b)[k]
      BY <1>2, <1>3 DEF ToSet
    <2>2. CASE k <= Len(a)
      <3>1. k \in 1..Len(a) /\ x = a[k]
        BY <1>1, <2>1, <2>2
      <3> QED
        BY <1>1, <3>1 DEF ToSet
    <2>3. CASE ~(k <= Len(a))
      <3>1. k - Len(a) \in 1..Len(b) /\ x = b[k - Len(a)]
        BY <1>1, <2>1, <2>3
      <3> QED
        BY <1>1, <3>1 DEF ToSet
    <2> QED
      BY <2>2, <2>3
  <1>4. ASSUME NEW x \in ToSet(a) PROVE x \in ToSet(a \o b)
    <2>1. PICK k \in 1..Len(a) : x = a[k]
      BY <1>1, <1>4 DEF ToSet
    <2>2. k \in 1..(Len(a) + Len(b)) /\ (a \o b)[k] = x
      BY <1>1, <2>1
    <2> QED
      BY <1>2, <2>2 DEF ToSet
  <1>5. ASSUME NEW x \in ToSet(b) PROVE x \in ToSet(a \o b)
    <2>1. PICK k \in 1..Len(b) : x = b[k]
      BY <1>1, <1>5 DEF ToSet
    <2>2. Len(a) + k \in 1..(Len(a) + Len(b)) /\ (a \o b)[Len(a) + k] = x
      BY <1>1, <2>1
    <2> QED
      BY <1>2, <2>2 DEF ToSet
  <1> QED
    BY <1>3, <1>4, <1>5

(* Reading one more line.                                                   *)
LEMMA ReadOne ==
    ASSUME NEW lines, NEW n \in Nat, NEW k \in 1..n, NEW read \in ReadStates(lines, n),
           HasRead(lines, read, k - 1)
    PROVE  HasRead(lines, AtLine(read, lines[k]), k)
  <1> DEFINE line == lines[k]
             new == AtLine(read, line)
             open == OpenAt(read, line)
             said == {[name |-> x, value |-> line.marker] : x \in open}
             Opens(x, m) == \E i \in 1..m : InEntry(lines, i, m) /\ x = lines[i].name
  <1>1. new.current = open
    BY Zenon, LineRead
  <1>2. ASSUME NEW x PROVE x \in open <=> Opens(x, k)
    <2>1. k \in Nat /\ k > 0 /\ k - 1 \in Nat /\ k \in 1..k /\ \A i \in 1..(k - 1) : i \in 1..k
      OBVIOUS
    <2>2. \A i : InEntry(lines, i, k) <=> \/ i = k /\ line.type = "entry"
                                          \/ InEntry(lines, i, k - 1) /\ line.type = "more"
      BY <2>1, EntryGoesOn
    <2>3. \A i : InEntry(lines, i, k - 1) => i \in 1..(k - 1)
      BY DEF InEntry
    <2>4. x \in read.current <=> Opens(x, k - 1)
      BY Zenon DEF HasRead
    <2>5. CASE line.type = "entry"
      <3>1. open = {line.name}
        BY <2>5 DEF OpenAt
      <3>2. Opens(x, k) <=> x = line.name
        BY <2>1, <2>2, <2>5
      <3> QED
        BY <3>1, <3>2
    <2>6. CASE line.type = "more"
      <3>1. open = read.current
        BY <2>6 DEF OpenAt
      <3>2. Opens(x, k) <=> Opens(x, k - 1)
        BY Zenon, <2>1, <2>2, <2>3, <2>6
      <3> QED
        BY Zenon, <2>4, <3>1, <3>2
    <2>7. CASE line.type # "entry" /\ line.type # "more"
      <3>1. open = {}
        BY <2>7 DEF OpenAt
      <3>2. ~Opens(x, k)
        BY Zenon, <2>2, <2>7
      <3> QED
        BY Zenon, <3>1, <3>2
    <2> QED
      BY <2>5, <2>6, <2>7
  <1>3. ASSUME NEW r PROVE StatesUpTo(lines, r, k) <=> StatesUpTo(lines, r, k - 1) \/ (MarksDefault(line) /\ r \in said)
    <2> DEFINE At(i, j) == /\ InEntry(lines, i, j) /\ MarksDefault(lines[j])
                           /\ r = [name |-> lines[i].name, value |-> lines[j].marker]
    <2>1. \A j \in 1..k : j = k \/ j \in 1..(k - 1)
      OBVIOUS
    <2>2. k \in 1..k /\ \A j \in 1..(k - 1) : j \in 1..k
      OBVIOUS
    <2>3. \A i : \A j \in 1..(k - 1) : InEntry(lines, i, j) => i \in 1..(k - 1)
      BY DEF InEntry
    <2>4. (\E i \in 1..k : At(i, k)) <=> (MarksDefault(line) /\ r \in said)
      <3>1. r \in said <=> \E x \in open : r = [name |-> x, value |-> line.marker]
        BY Zenon
      <3>2. \A x : x \in open <=> Opens(x, k)
        BY <1>2
      <3> HIDE DEF said, open
      <3>3. r \in said <=> \E i \in 1..k : InEntry(lines, i, k) /\ r = [name |-> lines[i].name, value |-> line.marker]
        BY Zenon, <3>1, <3>2
      <3> QED
        BY Zenon, <3>3
    <2>5. StatesUpTo(lines, r, k) <=> \E i, j \in 1..k : At(i, j)
      BY Zenon DEF StatesUpTo
    <2>6. StatesUpTo(lines, r, k - 1) <=> \E i, j \in 1..(k - 1) : At(i, j)
      BY Zenon DEF StatesUpTo
    <2>7. \A i : \A j \in 1..(k - 1) : At(i, j) => i \in 1..(k - 1)
      BY Zenon, <2>3
    <2> HIDE DEF At, said
    <2> QED
      BY Zenon, <2>1, <2>2, <2>4, <2>5, <2>6, <2>7
  <1>4. ASSUME NEW r PROVE r \in ToSet(new.stated) <=> r \in ToSet(read.stated) \/ (MarksDefault(line) /\ r \in said)
    <2>1. CASE ~MarksDefault(line)
      BY Zenon, <2>1, LineRead
    <2>2. CASE MarksDefault(line)
      <3> DEFINE T == Statable(lines, n)
                 was == read.stated
                 names == {lines[i].name : i \in 1..n}
      <3>1. was \in Seq(T) /\ read.current \in {{}} \cup {{lines[i].name} : i \in 1..n}
        BY DEF ReadStates
      <3>2. open \in {{}} \cup {{lines[i].name} : i \in 1..n}
        BY <3>1 DEF OpenAt
      <3>3. open \in {{}} \cup {{x} : x \in names}
        BY <3>2
      <3>4. SetToSeq(said) \in Seq(said) /\ ToSet(SetToSeq(said)) = said
        <4> HIDE DEF names, open
        <4> QED
          BY <3>3, MarkOfOpen
      <3>5. new.stated = was \o SetToSeq(said)
        BY Zenon, <2>2, LineRead
      <3> DEFINE more == SetToSeq(said)
                 U == T \cup said
      <3>6. was \in Seq(U) /\ more \in Seq(U)
        <4>1. was \in Seq(T) /\ more \in Seq(said) /\ T \subseteq U /\ said \subseteq U
          BY <3>1, <3>4
        <4> HIDE DEF was, more, T, said, U
        <4>2. was \in Seq(U)
          BY <4>1
        <4>3. more \in Seq(U)
          BY <4>1
        <4> QED
          BY <4>2, <4>3
      <3> HIDE DEF was, more, U, new, said
      <3>7. ToSet(was \o more) = ToSet(was) \cup ToSet(more)
        BY <3>6, HeldTogether
      <3>8. r \in ToSet(new.stated) <=> r \in ToSet(was) \/ r \in said
        BY <3>4, <3>5, <3>7 DEF more
      <3> QED
        BY <2>2, <3>8 DEF was
    <2> QED
      BY <2>1, <2>2
  <1>5. \A r : r \in ToSet(read.stated) <=> StatesUpTo(lines, r, k - 1)
    BY Zenon DEF HasRead
  <1> HIDE DEF new, open, said, line, Opens
  <1>6. HasRead(lines, new, k)
    <2>1. \A x : x \in new.current <=> Opens(x, k)
      BY Zenon, <1>1, <1>2
    <2>2. \A r : r \in ToSet(new.stated) <=> StatesUpTo(lines, r, k)
      BY Zenon, <1>3, <1>4, <1>5
    <2> QED
      BY Zenon, <2>1, <2>2 DEF HasRead, Opens
  <1> QED
    BY <1>6 DEF new, line

(* What a page states is what its entries mark.                             *)
LEMMA HelpStates ==
    ASSUME NEW lines, NEW n, Page(lines, n)
    PROVE  \A r : r \in ToSet(StatedInHelp(lines)) <=> StatesUpTo(lines, r, n)
  <1>1. n \in Nat
    BY DEF Page
  <1>2. PICK h : ReadsAlong(h, lines, n)
    BY HelpRun
  <1> DEFINE B == {k \in Nat : k <= n => HasRead(lines, h[k], k)}
  <1>3. 0 \in B
    <2>1. h[0].current = {} /\ h[0].stated = <<>>
      BY <1>2 DEF ReadsAlong, ReadStart
    <2>2. ToSet(<<>>) = {} /\ 1..0 = {}
      BY DEF ToSet
    <2>3. HasRead(lines, h[0], 0)
      BY <2>1, <2>2, Zenon DEF HasRead, StatesUpTo
    <2> QED
      BY <2>3
  <1>4. ASSUME NEW k \in Nat, k \in B PROVE k + 1 \in B
    <2>1. CASE k + 1 <= n
      <3> DEFINE m == k + 1
      <3>1. m \in 1..n /\ m - 1 = k /\ k \in 0..n /\ k <= n
        BY <1>1, <2>1
      <3>2. h[k] \in ReadStates(lines, n) /\ HasRead(lines, h[k], k)
        BY <1>2, <1>4, <3>1 DEF ReadsAlong
      <3>3. h[m] = AtLine(h[k], lines[m])
        BY Zenon, <1>2, <3>1 DEF ReadsAlong
      <3> HIDE DEF m
      <3>4. HasRead(lines, AtLine(h[m - 1], lines[m]), m)
        BY <1>1, <3>1, <3>2, ReadOne
      <3>5. HasRead(lines, h[m], m)
        BY <3>1, <3>3, <3>4
      <3> QED
        BY <3>5 DEF m
    <2> QED
      BY <2>1
  <1> HIDE DEF B
  <1>5. n \in B
    BY <1>1, <1>3, <1>4, NumberInduction
  <1>6. HasRead(lines, h[n], n)
    BY <1>1, <1>5 DEF B
  <1> QED
    BY Zenon, <1>2, <1>6 DEF HasRead, ReadsAlong

(* A marker belongs to the entry it stands in.                              *)
LEMMA PageMarkers ==
    ASSUME NEW lines, NEW n, Page(lines, n)
    PROVE  ToSet(StatedInHelp(lines)) =
                {[name |-> lines[p[1]].name, value |-> lines[p[2]].marker] :
                    p \in {q \in (DOMAIN lines) \X (DOMAIN lines) :
                        /\ q[1] <= q[2] /\ lines[q[1]].type = "entry" /\ lines[q[2]].marker # Absent
                        /\ \A k \in (q[1] + 1)..q[2] : lines[k].type = "more"}}
  <1> DEFINE Statement(i, j) == [name |-> lines[i].name, value |-> lines[j].marker]
             Belongs(i, j) ==
                /\ i <= j /\ lines[i].type = "entry" /\ lines[j].marker # Absent
                /\ \A k \in (i + 1)..j : lines[k].type = "more"
             Q == {q \in (1..n) \X (1..n) : Belongs(q[1], q[2])}
             T == {Statement(p[1], p[2]) : p \in Q}
  <1>1. n \in Nat /\ DOMAIN lines = 1..n
    BY DEF Page
  <1>2. ASSUME NEW i \in 1..n, NEW j \in 1..n
        PROVE  InEntry(lines, i, j) /\ MarksDefault(lines[j]) <=> Belongs(i, j)
    <2>1. ASSUME InEntry(lines, i, j), MarksDefault(lines[j]) PROVE Belongs(i, j)
      BY <2>1 DEF InEntry, MarksDefault
    <2>2. ASSUME Belongs(i, j) PROVE InEntry(lines, i, j) /\ MarksDefault(lines[j])
      <3>1. i = j \/ j \in (i + 1)..j
        BY <2>2
      <3>2. lines[j].type \in {"entry", "more"}
        BY <2>2, <3>1
      <3> QED
        BY <2>2, <3>2 DEF InEntry, MarksDefault
    <2> QED
      BY <2>1, <2>2
  <1>3. ASSUME NEW r PROVE StatesUpTo(lines, r, n) <=> \E i, j \in 1..n : Belongs(i, j) /\ r = Statement(i, j)
    BY Zenon, <1>2 DEF StatesUpTo
  <1>4. ASSUME NEW r PROVE r \in T <=> \E i, j \in 1..n : Belongs(i, j) /\ r = Statement(i, j)
    <2> HIDE DEF Belongs, Statement
    <2>1. ASSUME r \in T PROVE \E i, j \in 1..n : Belongs(i, j) /\ r = Statement(i, j)
      <3>1. PICK p \in Q : r = Statement(p[1], p[2])
        BY <2>1
      <3>2. p[1] \in 1..n /\ p[2] \in 1..n /\ Belongs(p[1], p[2])
        BY <3>1
      <3> QED
        BY Zenon, <3>1, <3>2
    <2>2. ASSUME NEW i \in 1..n, NEW j \in 1..n, Belongs(i, j), r = Statement(i, j) PROVE r \in T
      <3>1. <<i, j>> \in Q /\ <<i, j>>[1] = i /\ <<i, j>>[2] = j
        BY <2>2
      <3> QED
        BY Zenon, <2>2, <3>1
    <2> QED
      BY Zenon, <2>1, <2>2
  <1>5. \A r : r \in ToSet(StatedInHelp(lines)) <=> StatesUpTo(lines, r, n)
    BY HelpStates
  <1>6. ToSet(StatedInHelp(lines)) = T
    <2> HIDE DEF T, Belongs, Statement
    <2>1. \A r : r \in ToSet(StatedInHelp(lines)) <=> r \in T
      BY Zenon, <1>3, <1>4, <1>5
    <2> QED
      BY Zenon, <2>1
  <1> QED
    BY <1>1, <1>6, Zenon

(* Entries of a line each state what they mark.                             *)
LEMMA EntriesState ==
    ASSUME NEW lines, NEW n, Page(lines, n), \A k \in 1..n : lines[k].type = "entry", NEW r
    PROVE  r \in ToSet(StatedInHelp(lines)) <=>
              \E k \in 1..n : lines[k].marker # Absent /\ r = [name |-> lines[k].name, value |-> lines[k].marker]
  <1> DEFINE Statement(i, j) == [name |-> lines[i].name, value |-> lines[j].marker]
  <1>1. ASSUME NEW i \in 1..n, NEW j \in 1..n
        PROVE  InEntry(lines, i, j) <=> i = j
    <2>1. ASSUME InEntry(lines, i, j), i # j PROVE FALSE
      <3>1. j \in (i + 1)..j
        BY <2>1 DEF InEntry
      <3>2. lines[j].type = "more" /\ lines[j].type = "entry"
        BY Zenon, <2>1, <3>1 DEF InEntry
      <3>3. "more" = "entry"
        BY Zenon, <3>2
      <3> QED
        BY <3>3
    <2>2. ASSUME i = j PROVE InEntry(lines, i, j)
      BY <2>2 DEF InEntry
    <2> QED
      BY <2>1, <2>2
  <1>2. \A k \in 1..n : MarksDefault(lines[k]) <=> lines[k].marker # Absent
    BY DEF MarksDefault
  <1>3. StatesUpTo(lines, r, n) <=> \E i, j \in 1..n : i = j /\ lines[j].marker # Absent /\ r = Statement(i, j)
    BY Zenon, <1>1, <1>2 DEF StatesUpTo
  <1>4. r \in ToSet(StatedInHelp(lines)) <=> StatesUpTo(lines, r, n)
    BY HelpStates
  <1> HIDE DEF Statement
  <1>5. StatesUpTo(lines, r, n) <=> \E k \in 1..n : lines[k].marker # Absent /\ r = Statement(k, k)
    BY Zenon, <1>3
  <1> QED
    BY Zenon, <1>4, <1>5 DEF Statement

(* A filter is as long as the places it keeps, and holds what is at them.   *)
LEMMA Picks ==
    ASSUME NEW S, NEW s \in Seq(S), NEW P \in SUBSET DOMAIN s
    PROVE  /\ Picked(s, P) \in Seq(S) /\ Len(Picked(s, P)) = Cardinality(P)
           /\ IsFiniteSet(P) /\ DOMAIN Picked(s, P) = 1..Cardinality(P)
           /\ \A r : r \in ToSet(Picked(s, P)) <=> \E i \in P : r = s[i]
  <1> DEFINE kept == Picked(s, P)
             T == {s[i] : i \in P}
  <1>1. Len(s) \in Nat /\ DOMAIN s = 1..Len(s) /\ \A i \in DOMAIN s : s[i] \in S
    OBVIOUS
  <1>2. Elements(kept, Cardinality(P), T)
    BY <1>1, PickedElements
  <1>3. T \subseteq S
    BY <1>1
  <1>4. IsFiniteSet(P)
    <2>1. IsFiniteSet(1..Len(s))
      BY <1>1, FS_Interval
    <2> QED
      BY <1>1, <2>1, FS_Subset
  <1> HIDE DEF kept, T
  <1>5. kept \in Seq(T) /\ Len(kept) = Cardinality(P) /\ DOMAIN kept = 1..Cardinality(P)
    BY <1>2, ElementsSequence
  <1>6. kept \in Seq(S)
    BY <1>3, <1>5
  <1>7. \A r : r \in ToSet(kept) <=> r \in T
    BY Zenon, <1>2, <1>5 DEF Elements, ToSet
  <1> QED
    BY Zenon, <1>4, <1>5, <1>6, <1>7 DEF kept, T

(* The places among P at which s is in V.                                   *)
Within(s, P, V) == {i \in P : s[i] \in V}

(* A filter of a filter is as long as a filter for both.                    *)
LEMMA PicksAgain ==
    ASSUME NEW S, NEW s \in Seq(S), NEW P \in SUBSET DOMAIN s, NEW V
    PROVE  Cardinality(Within(Picked(s, P), DOMAIN Picked(s, P), V)) = Cardinality(Within(s, P, V))
  <1> DEFINE kept == Picked(s, P)
             Q == {k \in DOMAIN kept : kept[k] \in V}
             W == {i \in P : s[i] \in V}
  <1>1. Len(s) \in Nat /\ P \in SUBSET (1..Len(s)) /\ P \in SUBSET Nat
    OBVIOUS
  <1>2. IsFiniteSet(P)
    BY Picks
  <1>3. PICK at : KeepsAt(kept, s, P, at)
    BY Zenon, <1>1, PickedKeeps
  <1> HIDE DEF kept
  <1>4. /\ DOMAIN kept = 1..Cardinality(P) /\ at \in [1..Cardinality(P) -> P] /\ Cardinality(P) \in Nat
        /\ \A k \in 1..Cardinality(P) : kept[k] = s[at[k]]
        /\ \A i \in P : \E k \in 1..Cardinality(P) : at[k] = i
        /\ \A k, l \in 1..Cardinality(P) : k < l <=> at[k] < at[l]
    BY Zenon, <1>3 DEF KeepsAt
  <1> DEFINE f == [k \in Q |-> at[k]]
  <1>5. \A k \in Q : k \in 1..Cardinality(P) /\ at[k] \in W
    BY <1>4
  <1>6. f \in [Q -> W]
    BY <1>5
  <1>7. \A k, l \in Q : f[k] = f[l] => k = l
    <2> SUFFICES ASSUME NEW k \in Q, NEW l \in Q, at[k] = at[l] PROVE k = l
      OBVIOUS
    <2>1. k \in 1..Cardinality(P) /\ l \in 1..Cardinality(P) /\ at[k] \in Nat
      BY <1>1, <1>4, <1>5
    <2>2. ~(k < l) /\ ~(l < k)
      <3>1. ~(at[k] < at[l]) /\ ~(at[l] < at[k])
        BY <2>1
      <3> QED
        BY <1>4, <2>1, <3>1
    <2> QED
      BY <1>4, <2>1, <2>2
  <1>8. \A i \in W : \E k \in Q : f[k] = i
    BY <1>4
  <1>9. IsFiniteSet(W)
    BY <1>2, FS_Subset
  <1> HIDE DEF f, Q, W
  <1>10. f \in Injection(Q, W) /\ f \in Surjection(Q, W)
    BY <1>6, <1>7, <1>8 DEF Injection, IsInjective, Surjection
  <1>11. Cardinality(Q) = Cardinality(W)
    BY <1>9, <1>10, FS_Injection
  <1> QED
    BY <1>11 DEF Q, W, kept, Within

(* A table states what its rows do.                                         *)
LEMMA TableStates ==
    ASSUME NEW S, NEW shownRows \in Seq(S), NEW r
    PROVE  r \in ToSet(StatedInTable(shownRows)) <=> r \in ToSet(shownRows) /\ r.value # Absent
  <1> DEFINE P == {k \in DOMAIN shownRows : shownRows[k].value # Absent}
  <1>1. StatedInTable(shownRows) = Picked(shownRows, P)
    BY Zenon DEF StatedInTable, Filtered
  <1>2. P \in SUBSET DOMAIN shownRows
    OBVIOUS
  <1>3. (\E i \in P : r = shownRows[i]) <=> r \in ToSet(shownRows) /\ r.value # Absent
    BY Zenon DEF ToSet
  <1> HIDE DEF P
  <1>4. r \in ToSet(Picked(shownRows, P)) <=> \E i \in P : r = shownRows[i]
    BY <1>2, Picks
  <1> QED
    BY Zenon, <1>1, <1>3, <1>4

(* The reads of some code that are extracted, those that supply a default   *)
(* themselves, those that may be passed one, and the fixtures of them.      *)
ExtractedAt(code) == {k \in DOMAIN code : code[k].form \in {"parse_env", "unwrap_or_else"}}
FactAt(code) ==
    {k \in DOMAIN code :
        code[k] \in {r \in ToSet(code) : r.form \in {"parse_env", "unwrap_or_else"} /\ r.name \notin Fixtures}}
SuppliedAt(code) == {k \in DOMAIN code : code[k].form \in {"unwrap_or_else", "unwrap_or"}}
ParsedAt(code) == {k \in DOMAIN code : code[k].form = "parse_env"}
FixtureAt(code) == {k \in ParsedAt(code) : code[k].name \in Fixtures}
Skipped(code) == {k \in Fixtures : \E i \in DOMAIN code : code[i].form = "parse_env" /\ code[i].name = k}

(* Nothing is missed: every default that is supplied is extracted, and each *)
(* fixture is read but once.                                                *)
NothingMissed(code) ==
    /\ SuppliedAt(code) \subseteq FactAt(code)
    /\ \A i, j \in FixtureAt(code) : code[i].name = code[j].name => i = j

(* The two counts agree exactly when nothing is missed.                     *)
LEMMA CountsAgree ==
    ASSUME NEW S, NEW code \in Seq(S)
    PROVE  Cardinality(FactAt(code))
              = Cardinality(SuppliedAt(code)) + Cardinality(ParsedAt(code)) - Cardinality(Skipped(code))
           <=> NothingMissed(code)
  <1> DEFINE W == FactAt(code)
             B == SuppliedAt(code)
             E == ParsedAt(code)
             F == FixtureAt(code)
             K == Skipped(code)
             f == [i \in F |-> code[i].name]
  <1>1. IsFiniteSet(DOMAIN code)
    <2>1. Len(code) \in Nat /\ DOMAIN code = 1..Len(code)
      OBVIOUS
    <2> QED
      BY <2>1, FS_Interval
  <1>2. /\ W \in SUBSET DOMAIN code /\ B \in SUBSET DOMAIN code
        /\ E \in SUBSET DOMAIN code /\ F \in SUBSET E
    BY DEF FactAt, SuppliedAt, ParsedAt, FixtureAt
  <1>3. W = (E \ F) \cup (B \cap W) /\ (E \ F) \cap (B \cap W) = {}
    <2>1. \A k \in DOMAIN code : code[k] \in ToSet(code)
      BY DEF ToSet
    <2>2. \A k \in DOMAIN code : k \in W <=> code[k].form \in {"parse_env", "unwrap_or_else"} /\ code[k].name \notin Fixtures
      BY Zenon, <2>1 DEF FactAt
    <2>3. \A k \in DOMAIN code : k \in B <=> code[k].form \in {"unwrap_or_else", "unwrap_or"}
      BY Zenon DEF SuppliedAt
    <2>4. \A k \in DOMAIN code : k \in E \ F <=> code[k].form = "parse_env" /\ code[k].name \notin Fixtures
      BY Zenon DEF ParsedAt, FixtureAt
    <2> HIDE DEF W, B, E, F
    <2>5. \A k \in DOMAIN code : k \in W <=> k \in (E \ F) \cup (B \cap W)
      BY <2>2, <2>3, <2>4
    <2>6. \A k \in DOMAIN code : ~(k \in E \ F /\ k \in B)
      BY <2>3, <2>4
    <2> QED
      BY <1>2, <2>5, <2>6
  <1>4. K = {f[i] : i \in F}
    BY DEF Skipped, FixtureAt, ParsedAt
  <1>5. (\A i, j \in F : code[i].name = code[j].name => i = j) <=> \A i, j \in F : f[i] = f[j] => i = j
    <2>1. \A i \in F : f[i] = code[i].name
      OBVIOUS
    <2> HIDE DEF f, F
    <2> QED
      BY Zenon, <2>1
  <1>6. DOMAIN f = F /\ f = [i \in F |-> f[i]]
    OBVIOUS
  <1>7. NothingMissed(code) <=> B \subseteq W /\ \A i, j \in F : code[i].name = code[j].name => i = j
    BY Zenon DEF NothingMissed
  <1> HIDE DEF W, B, E, F, K, f
  <1>8. /\ IsFiniteSet(W) /\ IsFiniteSet(B) /\ IsFiniteSet(E) /\ IsFiniteSet(F)
        /\ IsFiniteSet(E \ F) /\ IsFiniteSet(B \cap W)
    <2>1. IsFiniteSet(W) /\ IsFiniteSet(B) /\ IsFiniteSet(E)
      BY <1>1, <1>2, FS_Subset
    <2>2. F \in SUBSET E /\ E \ F \in SUBSET E /\ B \cap W \in SUBSET B
      BY <1>2
    <2> QED
      BY Zenon, <2>1, <2>2, FS_Subset
  <1>9. Cardinality(W) = Cardinality(E \ F) + Cardinality(B \cap W)
    <2>1. Cardinality((E \ F) \cup (B \cap W))
            = Cardinality(E \ F) + Cardinality(B \cap W) - Cardinality((E \ F) \cap (B \cap W))
      BY <1>8, FS_Union
    <2>2. Cardinality((E \ F) \cap (B \cap W)) = 0
      BY <1>3, FS_EmptySet
    <2>3. Cardinality(E \ F) \in Nat /\ Cardinality(B \cap W) \in Nat
      BY <1>8, FS_CardinalityType
    <2>4. Cardinality(W) = Cardinality((E \ F) \cup (B \cap W))
      BY Zenon, <1>3
    <2> QED
      BY <2>1, <2>2, <2>3, <2>4
  <1>10. Cardinality(E \ F) = Cardinality(E) - Cardinality(F)
    <2>1. E \cap F = F
      BY <1>2
    <2>2. Cardinality(E \ F) = Cardinality(E) - Cardinality(E \cap F)
      BY <1>8, FS_Difference
    <2> QED
      BY <2>1, <2>2
  <1>11. Cardinality(B \cap W) <= Cardinality(B) /\ (Cardinality(B \cap W) = Cardinality(B) <=> B \subseteq W)
    <2>1. B \cap W \in SUBSET B
      OBVIOUS
    <2>2. Cardinality(B \cap W) <= Cardinality(B) /\ (Cardinality(B) = Cardinality(B \cap W) => B = B \cap W)
      BY Zenon, <1>8, <2>1, FS_Subset
    <2>3. B = B \cap W <=> B \subseteq W
      OBVIOUS
    <2> QED
      BY Zenon, <2>2, <2>3
  <1>12. Cardinality(K) <= Cardinality(F)
         /\ (Cardinality(K) = Cardinality(F) <=> \A i, j \in F : f[i] = f[j] => i = j) /\ IsFiniteSet(K)
    <2>1. f \in Surjection(F, K)
      <3>1. f \in [F -> K]
        BY <1>4, <1>6
      <3>2. \A x \in K : \E i \in F : f[i] = x
        BY <1>4
      <3> QED
        BY <3>1, <3>2 DEF Surjection
    <2>2. f \in Injection(F, K) <=> \A i, j \in F : f[i] = f[j] => i = j
      <3>1. f \in [F -> K] /\ DOMAIN f = F
        BY <1>6, <2>1 DEF Surjection
      <3> QED
        BY Zenon, <3>1 DEF Injection, IsInjective
    <2>3. IsFiniteSet(K) /\ Cardinality(K) <= Cardinality(F) /\ (Cardinality(K) = Cardinality(F) <=> f \in Injection(F, K))
      BY Zenon, <1>8, <2>1, FS_Surjection
    <2> QED
      BY Zenon, <2>2, <2>3
  <1> DEFINE w == Cardinality(W)
             b == Cardinality(B)
             e == Cardinality(E)
             x == Cardinality(F)
             k == Cardinality(K)
             m == Cardinality(B \cap W)
  <1>13. b \in Nat /\ e \in Nat /\ x \in Nat /\ k \in Nat /\ m \in Nat
    BY <1>8, <1>12, FS_CardinalityType
  <1>14. w = e - x + m /\ m <= b /\ k <= x
    BY <1>9, <1>10, <1>11, <1>12
  <1>15. (w = b + e - k) <=> (m = b /\ k = x)
    <2> HIDE DEF w, b, e, x, k, m
    <2> QED
      BY <1>13, <1>14
  <1> QED
    BY Zenon, <1>5, <1>7, <1>11, <1>12, <1>15 DEF W, B, E, K, w, b, e, x, k, m

(* What a source reads as code, the reads that supply a default in any      *)
(* form, those that are extracted and those of no known shape.              *)
ReadIn(source) == {r \in ToSet(source) : ~r.commented}
Bears(source) == {r \in ReadIn(source) : r.name \notin Fixtures /\ r.form \in Defaulting}
Pairs(source) == Filtered(Extracted(source), LAMBDA r : r.name \notin Fixtures)

(* The code of a source is what it reads.                                   *)
LEMMA CodeReads ==
    ASSUME NEW S, NEW source \in Seq(S)
    PROVE  Code(source) \in Seq(S) /\ ToSet(Code(source)) = ReadIn(source)
  <1> DEFINE P == {k \in DOMAIN source : ~source[k].commented}
             code == Code(source)
  <1>1. code = Picked(source, P)
    BY Zenon DEF Code, Filtered
  <1>2. P \in SUBSET DOMAIN source
    OBVIOUS
  <1>3. \A r : (\E i \in P : r = source[i]) <=> r \in ReadIn(source)
    BY Zenon DEF ToSet, ReadIn
  <1> HIDE DEF P
  <1>4. /\ Picked(source, P) \in Seq(S)
        /\ \A r : r \in ToSet(Picked(source, P)) <=> \E i \in P : r = source[i]
    BY <1>2, Picks
  <1> HIDE DEF code
  <1>5. code \in Seq(S) /\ \A r : r \in ToSet(code) <=> r \in ReadIn(source)
    BY Zenon, <1>1, <1>3, <1>4
  <1> QED
    BY Zenon, <1>5 DEF code

(* The pairs of a source are the extracted reads of its code that are no    *)
(* fixture's, each as often as it is there.                                 *)
LEMMA PairsAre ==
    ASSUME NEW S, NEW source \in Seq(S)
    PROVE  /\ Pairs(source) \in Seq(S) /\ Len(Pairs(source)) = Cardinality(FactAt(Code(source)))
           /\ \A r : r \in ToSet(Pairs(source)) <=>
                r \in ReadIn(source) /\ r.name \notin Fixtures /\ r.form \in {"parse_env", "unwrap_or_else"}
  <1> DEFINE code == Code(source)
             P == ExtractedAt(code)
             some == Extracted(source)
             N == {k \in DOMAIN some : some[k].name \notin Fixtures}
             V == {r \in ToSet(code) : r.form \in {"parse_env", "unwrap_or_else"} /\ r.name \notin Fixtures}
  <1>1. code \in Seq(S) /\ ToSet(code) = ReadIn(source)
    BY CodeReads
  <1>2. some = Picked(code, P)
    BY Zenon DEF Extracted, Filtered, ExtractedAt
  <1>3. Pairs(source) = Picked(some, N)
    BY Zenon DEF Pairs, Filtered
  <1>4. P \in SUBSET DOMAIN code /\ N \in SUBSET DOMAIN some
    BY DEF ExtractedAt
  <1>5. \A r : (\E i \in P : r = code[i]) <=> r \in ToSet(code) /\ r.form \in {"parse_env", "unwrap_or_else"}
    BY Zenon DEF ToSet, ExtractedAt
  <1>6. \A r : (\E k \in N : r = some[k]) <=> r \in ToSet(some) /\ r.name \notin Fixtures
    BY Zenon DEF ToSet
  <1>7. Within(code, P, V) = FactAt(code)
    <2>1. \A i \in DOMAIN code : code[i] \in V => i \in P
      BY Zenon DEF ExtractedAt
    <2>2. \A i : i \in FactAt(code) <=> i \in DOMAIN code /\ code[i] \in V
      BY Zenon DEF FactAt
    <2> HIDE DEF V, P
    <2>3. \A i : i \in Within(code, P, V) <=> i \in FactAt(code)
      BY Zenon, <1>4, <2>1, <2>2 DEF Within
    <2> QED
      BY Zenon, <2>3
  <1> HIDE DEF P, code
  <1>8. some \in Seq(S) /\ \A r : r \in ToSet(some) <=> \E i \in P : r = code[i]
    <2>1. Picked(code, P) \in Seq(S) /\ \A r : r \in ToSet(Picked(code, P)) <=> \E i \in P : r = code[i]
      BY <1>1, <1>4, Picks
    <2> HIDE DEF some
    <2> QED
      BY Zenon, <1>2, <2>1
  <1>9. N = Within(some, DOMAIN some, V)
    <2>1. \A k \in DOMAIN some : some[k] \in ToSet(some)
      BY Zenon DEF ToSet
    <2>2. \A k \in DOMAIN some : some[k].name \notin Fixtures <=> some[k] \in V
      BY Zenon, <1>5, <1>8, <2>1
    <2> HIDE DEF some, V
    <2>3. \A k : k \in N <=> k \in Within(some, DOMAIN some, V)
      BY Zenon, <2>2 DEF Within
    <2> HIDE DEF N
    <2> QED
      BY Zenon, <2>3
  <1>10. Cardinality(N) = Cardinality(FactAt(code))
    <2> HIDE DEF some, V, N
    <2>1. Cardinality(Within(Picked(code, P), DOMAIN Picked(code, P), V)) = Cardinality(Within(code, P, V))
      BY <1>1, <1>4, PicksAgain
    <2> QED
      BY <1>2, <1>7, <1>9, <2>1
  <1> HIDE DEF some, N
  <1>11. /\ Picked(some, N) \in Seq(S) /\ Len(Picked(some, N)) = Cardinality(N)
         /\ \A r : r \in ToSet(Picked(some, N)) <=> \E k \in N : r = some[k]
    BY <1>4, <1>8, Picks
  <1>12. \A r : r \in ToSet(Pairs(source)) <=>
                r \in ReadIn(source) /\ r.name \notin Fixtures /\ r.form \in {"parse_env", "unwrap_or_else"}
    BY Zenon, <1>1, <1>3, <1>5, <1>6, <1>8, <1>11
  <1>13. Pairs(source) \in Seq(S) /\ Len(Pairs(source)) = Cardinality(FactAt(code))
    BY Zenon, <1>3, <1>10, <1>11
  <1> QED
    BY Zenon, <1>12, <1>13 DEF code

(* What is resolved of a read.                                              *)
ResolutionOf(r) == IF r.name \in Exclusions THEN [type |-> "excluded"] ELSE Classify(r.default)
FactOf(r) == [name |-> r.name, resolution |-> ResolutionOf(r)]

(* The facts of a source are those of its pairs, in their order.            *)
LEMMA FactsAre ==
    ASSUME NEW source
    PROVE  /\ DOMAIN Resolve(source) = DOMAIN Pairs(source)
           /\ \A k \in DOMAIN Pairs(source) : Resolve(source)[k] = FactOf(Pairs(source)[k])
  BY Zenon DEF Resolve, Pairs, FactOf, ResolutionOf

(* As many facts as pairs, with the same names.                             *)
LEMMA FactsOfPairs ==
    ASSUME NEW S, NEW source \in Seq(S)
    PROVE  /\ Len(Resolve(source)) = Len(Pairs(source))
           /\ \A x : x \in NamesOf(Resolve(source)) <=> \E r \in ToSet(Pairs(source)) : x = r.name
           /\ \A k \in DOMAIN Resolve(source) : \E r \in ToSet(Pairs(source)) : Resolve(source)[k] = FactOf(r)
           /\ \A r \in ToSet(Pairs(source)) : \E k \in DOMAIN Resolve(source) : Resolve(source)[k] = FactOf(r)
  <1> DEFINE facts == Resolve(source)
             pairs == Pairs(source)
  <1>1. pairs \in Seq(S)
    BY PairsAre
  <1>2. DOMAIN facts = DOMAIN pairs /\ \A k \in DOMAIN pairs : facts[k] = FactOf(pairs[k])
    BY Zenon, FactsAre
  <1>3. \A r : r \in ToSet(pairs) <=> \E k \in DOMAIN pairs : r = pairs[k]
    BY Zenon DEF ToSet
  <1>4. \A r : FactOf(r).name = r.name
    BY DEF FactOf
  <1>5. facts = [k \in DOMAIN facts |-> facts[k]]
    BY Zenon DEF Resolve
  <1>6. \A x : x \in NamesOf(facts) <=> \E k \in DOMAIN facts : x = facts[k].name
    BY Zenon DEF NamesOf
  <1> HIDE DEF facts, pairs
  <1>7. Len(facts) = Len(pairs)
    <2>1. Len(pairs) \in Nat /\ DOMAIN facts = 1..Len(pairs)
      BY <1>1, <1>2
    <2> QED
      BY <1>5, <2>1
  <1>8. \A x : x \in NamesOf(facts) <=> \E r \in ToSet(pairs) : x = r.name
    <2>1. \A k \in DOMAIN pairs : facts[k].name = pairs[k].name
      BY Zenon, <1>2, <1>4
    <2>2. \A x : (\E k \in DOMAIN facts : x = facts[k].name) <=> \E k \in DOMAIN pairs : x = pairs[k].name
      BY Zenon, <1>2, <2>1
    <2>3. \A x : (\E k \in DOMAIN pairs : x = pairs[k].name) <=> \E r \in ToSet(pairs) : x = r.name
      BY Zenon, <1>3
    <2> QED
      BY Zenon, <1>6, <2>2, <2>3
  <1>9. \A k \in DOMAIN facts : \E r \in ToSet(pairs) : facts[k] = FactOf(r)
    BY Zenon, <1>2, <1>3
  <1>10. \A r \in ToSet(pairs) : \E k \in DOMAIN facts : facts[k] = FactOf(r)
    BY Zenon, <1>2, <1>3
  <1> QED
    BY Zenon, <1>7, <1>8, <1>9, <1>10 DEF facts, pairs

(* The extraction is complete exactly when every read is of a known shape   *)
(* and none that supplies a default is missed.                              *)
LEMMA ExtractionAsFound ==
    ASSUME NEW S, NEW source \in Seq(S)
    PROVE  ExtractionIsComplete(source, Resolve(source)) <=>
              (\A r \in ReadIn(source) : r.form # "other") /\ NothingMissed(Code(source))
  <1> DEFINE code == Code(source)
             odd == {k \in DOMAIN code : code[k].form = "other"}
             supplied == Picked(code, SuppliedAt(code))
             parsed == Picked(code, ParsedAt(code))
  <1>1. code \in Seq(S) /\ ToSet(code) = ReadIn(source)
    BY CodeReads
  <1>2. Unrecognised(source) = Picked(code, odd)
    BY Zenon DEF Unrecognised, Filtered
  <1>3. Bearing(source) = Len(supplied) + Len(parsed) - Cardinality(Skipped(code))
    BY Zenon DEF Bearing, Filtered, SuppliedAt, ParsedAt, Skipped
  <1>4. odd \in SUBSET DOMAIN code /\ SuppliedAt(code) \in SUBSET DOMAIN code /\ ParsedAt(code) \in SUBSET DOMAIN code
    BY DEF SuppliedAt, ParsedAt
  <1>5. odd = {} <=> \A r \in ReadIn(source) : r.form # "other"
    BY Zenon, <1>1 DEF ToSet
  <1> HIDE DEF odd, code
  <1>6. Picked(code, odd) \in Seq(S) /\ Len(Picked(code, odd)) = Cardinality(odd) /\ IsFiniteSet(odd)
    BY <1>1, <1>4, Picks
  <1>7. Len(supplied) = Cardinality(SuppliedAt(code))
    BY <1>1, <1>4, Picks
  <1>8. Len(parsed) = Cardinality(ParsedAt(code))
    BY <1>1, <1>4, Picks
  <1>9. Picked(code, odd) = <<>> <=> odd = {}
    <2> DEFINE q == Picked(code, odd)
    <2>1. Cardinality(odd) = 0 <=> odd = {}
      BY Zenon, <1>6, FS_EmptySet
    <2>2. q \in Seq(S) /\ Len(q) = Cardinality(odd)
      BY <1>6
    <2> HIDE DEF q
    <2>3. q = <<>> <=> Len(q) = 0
      BY <2>2
    <2> QED
      BY <2>1, <2>2, <2>3 DEF q
  <1>10. Len(Resolve(source)) = Cardinality(FactAt(code))
    BY Zenon, FactsOfPairs, PairsAre DEF code
  <1>11. Len(Resolve(source)) = Bearing(source) <=> NothingMissed(code)
    <2>1. Cardinality(FactAt(code))
              = Cardinality(SuppliedAt(code)) + Cardinality(ParsedAt(code)) - Cardinality(Skipped(code))
           <=> NothingMissed(code)
      BY <1>1, CountsAgree
    <2> HIDE DEF supplied, parsed
    <2> QED
      BY Zenon, <1>3, <1>7, <1>8, <1>10, <2>1
  <1> QED
    BY Zenon, <1>2, <1>5, <1>9, <1>11 DEF ExtractionIsComplete, code

(* When the extraction is complete, every read with a default is a pair.    *)
LEMMA CompleteBears ==
    ASSUME NEW S, NEW source \in Seq(S), NothingMissed(Code(source)), NEW r
    PROVE  r \in ToSet(Pairs(source)) <=> r \in Bears(source)
  <1> DEFINE code == Code(source)
  <1>1. ToSet(code) = ReadIn(source)
    BY Zenon, CodeReads
  <1>2. r \in ToSet(Pairs(source)) <=>
                r \in ReadIn(source) /\ r.name \notin Fixtures /\ r.form \in {"parse_env", "unwrap_or_else"}
    BY Zenon, PairsAre
  <1>3. ASSUME r \in ReadIn(source), r.form = "unwrap_or" PROVE FALSE
    <2>1. PICK k \in DOMAIN code : r = code[k]
      BY Zenon, <1>1, <1>3 DEF ToSet
    <2>2. k \in SuppliedAt(code)
      BY Zenon, <1>3, <2>1 DEF SuppliedAt
    <2>3. k \in FactAt(code)
      BY Zenon, <2>2 DEF NothingMissed
    <2>4. r.form \in {"parse_env", "unwrap_or_else"}
      BY Zenon, <2>1, <2>3 DEF FactAt
    <2> QED
      BY <1>3, <2>4
  <1>4. r \in Bears(source) <=> r \in ReadIn(source) /\ r.name \notin Fixtures /\ r.form \in {"parse_env", "unwrap_or_else", "unwrap_or"}
    BY Zenon DEF Bears, Defaulting
  <1> QED
    BY <1>2, <1>3, <1>4

(* No other searched file declares a readable constant of the name before   *)
(* the one that is meant.                                                   *)
Unambiguous(d) ==
    d.shape = "constant" =>
        \A f \in Declaring(d) : Declared[f][d.constant].readable =>
            \/ d.file = f
            \/ d.file < f /\ Declared[d.file][d.constant].readable

(* A default is resolved, or it is not for one of two reasons.              *)
LEMMA ClassifyType ==
    ASSUME NEW d
    PROVE  Classify(d).type \in {"resolved", "unresolvable", "not_found"}
  <1>1. LookUp(d).type \in {"resolved", "unresolvable", "not_found"}
    BY DEF LookUp
  <1>2. CASE d.shape = "literal"
    BY <1>2 DEF Classify
  <1>3. CASE d.shape = "constant"
    <2>1. Classify(d) = LookUp(d)
      BY <1>3 DEF Classify
    <2> QED
      BY <1>1, <2>1
  <1>4. CASE d.shape # "literal" /\ d.shape # "constant"
    BY <1>4 DEF Classify
  <1> QED
    BY <1>2, <1>3, <1>4

(* A literal resolves to itself.                                            *)
LEMMA ClassifyLiteral ==
    ASSUME NEW d, d.shape = "literal"
    PROVE  Classify(d).type = "resolved" /\ Classify(d).value = Applied(d)
  BY DEF Classify, Applied

(* What a default resolves to is what is applied, unless another constant   *)
(* of the name is in the way.                                               *)
LEMMA ResolvedIsApplied ==
    ASSUME NEW r, IsReading(r), Unambiguous(r.default), Classify(r.default).type = "resolved"
    PROVE  Classify(r.default).value = Applied(r.default)
  <1> DEFINE d == r.default
             R == {f \in Declaring(d) : Declared[f][d.constant].readable}
             Lowest(f) == f \in R /\ \A g \in R : f <= g
             first == CHOOSE f \in R : \A g \in R : f <= g
  <1>1. Sources \in Nat /\ Len(Declared) \in Nat /\ Sources <= Len(Declared)
    <2>1. Declared \in Seq(ToSet(Declared))
      BY AlgorithmsAssumption
    <2> DEFINE T == ToSet(Declared)
    <2> HIDE DEF T
    <2>2. Len(Declared) \in Nat
      BY <2>1 DEF T
    <2> QED
      BY <2>2, FactsAssumption
  <1>2. CASE d.shape = "literal"
    BY Zenon, <1>2, ClassifyLiteral
  <1>3. CASE d.shape = "constant"
    <2>1. Classify(d) = LookUp(d)
      BY <1>3 DEF Classify
    <2>2. LookUp(d) = IF R # {} THEN [type |-> "resolved", value |-> Declared[first][d.constant].value]
                      ELSE IF Declaring(d) # {} THEN [type |-> "unresolvable"] ELSE [type |-> "not_found"]
      BY Zenon DEF LookUp
    <2>3. R # {}
      <3> HIDE DEF R
      <3> QED
        BY <2>1, <2>2
    <2>4. Classify(d).value = Declared[first][d.constant].value
      <3> HIDE DEF R, first
      <3> QED
        BY <2>1, <2>2, <2>3
    <2>5. R \in SUBSET (1..Sources) /\ R \in SUBSET Nat
      BY <1>1 DEF Declaring
    <2>6. Lowest(first)
      <3>1. \E f \in R : \A g \in R : f <= g
        <4> HIDE DEF R
        <4> QED
          BY <2>3, <2>5, LeastNumber
      <3> HIDE DEF R
      <3> QED
        BY <3>1
    <2> HIDE DEF first
    <2>7. first \in Declaring(d) /\ Declared[first][d.constant].readable /\ first \in 1..Sources
      BY <2>5, <2>6
    <2>8. d.file = first \/ (d.file < first /\ Declared[d.file][d.constant].readable)
      BY <1>3, <2>7 DEF Unambiguous
    <2>9. d.file \in 1..Len(Declared) /\ d.constant \in DOMAIN Declared[d.file]
      BY <1>3 DEF IsReading
    <2>10. d.file = first
      <3> SUFFICES ASSUME d.file < first, Declared[d.file][d.constant].readable PROVE FALSE
        BY <2>8
      <3>1. d.file \in 1..Sources
        BY <1>1, <2>7, <2>9
      <3>2. d.qualified => first = d.file
        BY <2>7 DEF Declaring
      <3>3. d.file \in Declaring(d)
        BY <2>9, <3>1 DEF Declaring
      <3>4. first <= d.file
        BY <2>6, <3>3
      <3> QED
        BY <1>1, <2>7, <3>1, <3>4
    <2> QED
      BY <1>3, <2>4, <2>10 DEF Applied
  <1>4. CASE d.shape # "literal" /\ d.shape # "constant"
    <2>1. Classify(d).type = "unresolvable"
      BY <1>4 DEF Classify
    <2> QED
      BY <2>1
  <1> QED
    BY <1>2, <1>3, <1>4

(* A fact says what becomes of its read.                                    *)
LEMMA FactSays ==
    ASSUME NEW r
    PROVE  /\ FactOf(r).name = r.name
           /\ FactOf(r).resolution.type \in {"resolved", "excluded"}
                <=> r.name \in Exclusions \/ Classify(r.default).type = "resolved"
           /\ FactOf(r).resolution.type = "resolved"
                <=> r.name \notin Exclusions /\ Classify(r.default).type = "resolved"
           /\ r.name \notin Exclusions => FactOf(r).resolution.value = Classify(r.default).value
  <1>1. FactOf(r).name = r.name /\ FactOf(r).resolution = ResolutionOf(r)
    BY DEF FactOf
  <1>2. Classify(r.default).type \in {"resolved", "unresolvable", "not_found"}
    BY ClassifyType
  <1>3. CASE r.name \in Exclusions
    <2>1. ResolutionOf(r).type = "excluded"
      BY <1>3 DEF ResolutionOf
    <2> QED
      BY <1>1, <1>3, <2>1
  <1>4. CASE r.name \notin Exclusions
    <2>1. ResolutionOf(r) = Classify(r.default)
      BY <1>4 DEF ResolutionOf
    <2> QED
      BY <1>1, <1>2, <1>4, <2>1
  <1> QED
    BY <1>3, <1>4

(* What is applied, what is read without a default, and what documents may  *)
(* state besides.                                                           *)
Truths(source) ==
    {[name |-> r.name, value |-> Applied(r.default)] : r \in {r \in Bears(source) : r.name \notin Exclusions}}
Silent(source) ==
    {r.name : r \in {r \in ReadIn(source) : r.name \notin Fixtures}}
        \ ({r.name : r \in Bears(source)} \cup TestNames)
Excused == {s \in Statements : s.name \in Exclusions}
StatedOf(document) == {s \in ToSet(document) : s.value # Absent}

(* The reads of a source say where their constants are declared, and no     *)
(* other constant is in the way.                                            *)
Plain(source) == \A r \in Bears(source) : IsReading(r) /\ Unambiguous(r.default)

(* When nothing is missed, the silent are found to have no default.         *)
LEMMA SilentAreFound ==
    ASSUME NEW S, NEW source \in Seq(S), NothingMissed(Code(source))
    PROVE  Silent(source) \subseteq WithoutDefaults(source, Resolve(source))
  <1>1. ToSet(Code(source)) = ReadIn(source)
    BY CodeReads
  <1>2. \A x : x \in NamesOf(Resolve(source)) <=> \E r \in Bears(source) : x = r.name
    <2>1. \A r : r \in ToSet(Pairs(source)) <=> r \in Bears(source)
      BY CompleteBears
    <2>2. \A x : x \in NamesOf(Resolve(source)) <=> \E r \in ToSet(Pairs(source)) : x = r.name
      BY FactsOfPairs
    <2> QED
      BY Zenon, <2>1, <2>2
  <1>3. ASSUME NEW x \in Silent(source) PROVE x \in WithoutDefaults(source, Resolve(source))
    <2>1. PICK r \in ReadIn(source) : r.name \notin Fixtures /\ x = r.name
      BY DEF Silent
    <2>2. x \notin TestNames /\ ~\E q \in Bears(source) : x = q.name
      BY DEF Silent
    <2>3. r.form # "parse_env"
      BY <2>1, <2>2 DEF Bears, Defaulting
    <2>4. x \notin NamesOf(Resolve(source))
      BY Zenon, <1>2, <2>2
    <2>5. x \in {q.name : q \in {q \in ToSet(Code(source)) : q.form # "parse_env"}}
      BY <1>1, <2>1, <2>3
    <2> QED
      BY Zenon, <2>2, <2>4, <2>5 DEF WithoutDefaults
  <1> QED
    BY <1>3

(* A document that passes states what is applied.                           *)
LEMMA PassedIsTrue ==
    ASSUME NEW S, NEW source \in Seq(S), Plain(source), NothingMissed(Code(source)),
           AllResolved(Resolve(source)),
           NEW document \in Seq(Statements), NEW stated, ToSet(stated) = StatedOf(document),
           StatesEach(Resolve(source), stated), NoContradiction(stated), NoPhantom(Resolve(source), stated)
    PROVE  StatedOf(document) \ Excused = Truths(source)
  <1> DEFINE facts == Resolve(source)
             TruthOf(r) == [name |-> r.name, value |-> Applied(r.default)]
  <1>1. ASSUME NEW r \in Bears(source), r.name \notin Exclusions
        PROVE  TruthOf(r) \in StatedOf(document)
    <2>1. r \in ToSet(Pairs(source))
      BY CompleteBears
    <2>2. PICK k \in DOMAIN facts : facts[k] = FactOf(r)
      BY Zenon, <2>1, FactsOfPairs
    <2>3. facts[k].name = r.name /\ facts[k].resolution.type = "resolved"
      <3>1. FactOf(r).resolution.type \in {"resolved", "excluded"}
        BY Zenon, <2>2 DEF AllResolved
      <3> HIDE DEF facts
      <3>2. FactOf(r).resolution.type = "resolved" /\ FactOf(r).name = r.name
        BY Zenon, <1>1, <3>1, FactSays
      <3> QED
        BY Zenon, <2>2, <3>2
    <2>4. facts[k].resolution.value = Applied(r.default)
      <3>1. Classify(r.default).type = "resolved" /\ FactOf(r).resolution.value = Classify(r.default).value
        BY Zenon, <1>1, <2>2, <2>3, FactSays
      <3>2. Classify(r.default).value = Applied(r.default)
        BY <3>1, ResolvedIsApplied DEF Plain
      <3> QED
        BY Zenon, <2>2, <3>1, <3>2
    <2>5. PICK j \in DOMAIN stated : stated[j] = [name |-> facts[k].name, value |-> facts[k].resolution.value]
      BY Zenon, <2>3 DEF StatesEach
    <2>6. stated[j] = TruthOf(r)
      BY Zenon, <2>3, <2>4, <2>5
    <2>7. stated[j] \in ToSet(stated)
      BY DEF ToSet
    <2> QED
      BY Zenon, <2>6, <2>7
  <1>2. ASSUME NEW r \in Bears(source), r.name \notin Exclusions PROVE TruthOf(r) \notin Excused
    BY <1>2 DEF Excused
  <1>3. ASSUME NEW s \in StatedOf(document), s \notin Excused
        PROVE  \E r \in Bears(source) : r.name \notin Exclusions /\ s = TruthOf(r)
    <2>1. s \in Statements /\ s = [name |-> s.name, value |-> s.value] /\ s.name \notin Exclusions
      <3>1. s \in ToSet(document)
        BY DEF StatedOf
      <3>2. s \in Statements
        BY <3>1 DEF ToSet
      <3>3. s = [name |-> s.name, value |-> s.value]
        BY Zenon, <3>2, AlgorithmsAssumption
      <3> QED
        BY Zenon, <1>3, <3>2, <3>3 DEF Excused
    <2>2. PICK i \in DOMAIN stated : s = stated[i]
      <3>1. s \in ToSet(stated)
        BY Zenon
      <3> QED
        BY Zenon, <3>1 DEF ToSet
    <2>3. s.name \in NamesOf(facts)
      BY Zenon, <2>2 DEF NoPhantom
    <2>4. PICK r \in ToSet(Pairs(source)) : s.name = r.name
      <3>1. \A x : x \in NamesOf(facts) <=> \E r \in ToSet(Pairs(source)) : x = r.name
        BY FactsOfPairs
      <3> QED
        BY Zenon, <2>3, <3>1
    <2>5. r \in Bears(source) /\ r.name \notin Exclusions
      BY Zenon, <2>1, <2>4, CompleteBears
    <2>6. PICK j \in DOMAIN stated : stated[j] = TruthOf(r)
      <3>1. TruthOf(r) \in ToSet(stated)
        BY Zenon, <1>1, <2>5
      <3> QED
        BY Zenon, <3>1 DEF ToSet
    <2>7. stated[i].value = stated[j].value
      <3>1. stated[i].name = stated[j].name
        BY <2>2, <2>4, <2>6
      <3> QED
        BY Zenon, <3>1 DEF NoContradiction
    <2>8. s = TruthOf(r)
      BY <2>1, <2>2, <2>4, <2>6, <2>7
    <2> QED
      BY Zenon, <2>5, <2>8
  <1>4. \A t : t \in Truths(source) <=> \E r \in Bears(source) : r.name \notin Exclusions /\ t = TruthOf(r)
    BY Zenon DEF Truths
  <1> HIDE DEF TruthOf
  <1>5. \A t : t \in StatedOf(document) \ Excused <=> t \in Truths(source)
    <2>1. ASSUME NEW t \in StatedOf(document) \ Excused PROVE t \in Truths(source)
      <3>1. t \in StatedOf(document) /\ t \notin Excused
        BY Zenon
      <3> QED
        BY Zenon, <1>3, <1>4, <3>1
    <2>2. ASSUME NEW t \in Truths(source) PROVE t \in StatedOf(document) \ Excused
      <3>1. PICK r \in Bears(source) : r.name \notin Exclusions /\ t = TruthOf(r)
        BY Zenon, <1>4
      <3>2. TruthOf(r) \in StatedOf(document) /\ TruthOf(r) \notin Excused
        BY Zenon, <1>1, <1>2, <3>1
      <3> QED
        BY Zenon, <3>1, <3>2
    <2> QED
      BY Zenon, <2>1, <2>2
  <1> QED
    BY Zenon, <1>5

(* The defaults of a source the checks can read: no read of a shape that is *)
(* not, a literal where one is due, each exclusion read and each fixture    *)
(* read but once.                                                           *)
Legible(source) ==
    /\ \A r \in ReadIn(source) :
        /\ r.form \notin {"unwrap_or", "other"}
        /\ r.form \in Defaulting /\ r.name \notin Exclusions \cup Fixtures => r.default.shape = "literal"
    /\ Exclusions \subseteq {r.name : r \in Bears(source)}
    /\ \A k \in Fixtures : \E i \in DOMAIN source :
            /\ source[i].name = k /\ source[i].form = "parse_env"
            /\ \A j \in DOMAIN source : source[j].name = k => i = j

(* Nothing is missed of a legible source.                                   *)
LEMMA LegibleMissesNothing ==
    ASSUME NEW S, NEW source \in Seq(S), Legible(source)
    PROVE  NothingMissed(Code(source))
  <1> DEFINE code == Code(source)
             P == {k \in DOMAIN source : ~source[k].commented}
  <1>1. ToSet(code) = ReadIn(source)
    BY CodeReads
  <1>2. code = Picked(source, P)
    BY Zenon DEF Code, Filtered
  <1>3. Len(source) \in Nat /\ P \in SUBSET (1..Len(source)) /\ DOMAIN source = 1..Len(source)
    OBVIOUS
  <1> HIDE DEF P, code
  <1>4. PICK at : KeepsAt(code, source, P, at)
    BY Zenon, <1>2, <1>3, PickedKeeps
  <1>5. /\ DOMAIN code = 1..Cardinality(P) /\ Cardinality(P) \in Nat
        /\ at \in [1..Cardinality(P) -> P]
        /\ \A k \in 1..Cardinality(P) : code[k] = source[at[k]]
        /\ \A k, l \in 1..Cardinality(P) : k < l <=> at[k] < at[l]
    BY Zenon, <1>4 DEF KeepsAt
  <1>6. ASSUME NEW k \in DOMAIN code, code[k].name \in Fixtures
        PROVE  /\ code[k].form = "parse_env"
               /\ \A l \in DOMAIN code : code[l].name = code[k].name => k = l
    <2>1. PICK i \in DOMAIN source :
            /\ source[i].form = "parse_env"
            /\ \A j \in DOMAIN source : source[j].name = code[k].name => i = j
      BY Zenon, <1>6 DEF Legible
    <2>2. \A l \in DOMAIN code : at[l] \in DOMAIN source /\ code[l] = source[at[l]]
      BY <1>3, <1>5
    <2>3. \A l \in DOMAIN code : code[l].name = code[k].name => at[l] = i
      BY Zenon, <2>1, <2>2
    <2>4. at[k] = i
      BY Zenon, <2>3
    <2>5. code[k].form = "parse_env"
      BY Zenon, <2>1, <2>2, <2>4
    <2>6. ASSUME NEW l \in DOMAIN code, code[l].name = code[k].name PROVE k = l
      <3>1. at[l] = at[k] /\ at[k] \in Nat
        BY <1>3, <2>1, <2>3, <2>4, <2>6
      <3>2. ~(k < l) /\ ~(l < k)
        <4>1. ~(at[k] < at[l]) /\ ~(at[l] < at[k])
          BY <3>1
        <4> QED
          BY Zenon, <1>5, <4>1
      <3> QED
        BY <1>5, <3>2
    <2> QED
      BY <2>5, <2>6
  <1>7. \A k \in DOMAIN code : code[k] \in ReadIn(source) /\ code[k] \in ToSet(code)
    BY Zenon, <1>1 DEF ToSet
  <1>8. SuppliedAt(code) \subseteq FactAt(code)
    <2> SUFFICES ASSUME NEW k \in SuppliedAt(code) PROVE k \in FactAt(code)
      OBVIOUS
    <2>1. k \in DOMAIN code /\ code[k].form \in {"unwrap_or_else", "unwrap_or"}
      BY DEF SuppliedAt
    <2>2. code[k].form \notin {"unwrap_or", "other"}
      BY Zenon, <1>7, <2>1 DEF Legible
    <2>3. code[k].form = "unwrap_or_else"
      BY <2>1, <2>2
    <2>4. code[k].name \notin Fixtures
      <3>1. code[k].form # "parse_env"
        BY <2>3
      <3> QED
        BY Zenon, <1>6, <2>1, <3>1
    <2> QED
      BY <1>7, <2>1, <2>3, <2>4 DEF FactAt
  <1>9. \A i, j \in FixtureAt(code) : code[i].name = code[j].name => i = j
    <2>1. \A i \in FixtureAt(code) : i \in DOMAIN code /\ code[i].name \in Fixtures
      BY DEF FixtureAt, ParsedAt
    <2> QED
      BY Zenon, <1>6, <2>1
  <1> QED
    BY Zenon, <1>8, <1>9 DEF NothingMissed, code

(* What is found to have no default of a legible source is silent.          *)
LEMMA FoundAreSilent ==
    ASSUME NEW S, NEW source \in Seq(S), Legible(source)
    PROVE  WithoutDefaults(source, Resolve(source)) \subseteq Silent(source)
  <1>1. ToSet(Code(source)) = ReadIn(source)
    BY CodeReads
  <1>2. \A x : x \in NamesOf(Resolve(source)) <=> \E r \in Bears(source) : x = r.name
    <2>1. \A r : r \in ToSet(Pairs(source)) <=> r \in Bears(source)
      BY LegibleMissesNothing, CompleteBears
    <2>2. \A x : x \in NamesOf(Resolve(source)) <=> \E r \in ToSet(Pairs(source)) : x = r.name
      BY FactsOfPairs
    <2> QED
      BY Zenon, <2>1, <2>2
  <1>3. ASSUME NEW x \in WithoutDefaults(source, Resolve(source)) PROVE x \in Silent(source)
    <2>1. PICK r \in ReadIn(source) : r.form # "parse_env" /\ x = r.name
      BY <1>1 DEF WithoutDefaults
    <2>2. x \notin NamesOf(Resolve(source)) /\ x \notin TestNames
      BY Zenon DEF WithoutDefaults
    <2>3. r.name \notin Fixtures
      <3> SUFFICES ASSUME r.name \in Fixtures PROVE FALSE
        OBVIOUS
      <3>1. PICK i \in DOMAIN source :
              /\ source[i].form = "parse_env"
              /\ \A j \in DOMAIN source : source[j].name = r.name => i = j
        BY Zenon DEF Legible
      <3>2. PICK j \in DOMAIN source : r = source[j]
        BY Zenon DEF ReadIn, ToSet
      <3> QED
        BY Zenon, <2>1, <3>1, <3>2
    <2>4. x \in {q.name : q \in {q \in ReadIn(source) : q.name \notin Fixtures}}
      BY <2>1, <2>3
    <2>5. x \notin {q.name : q \in Bears(source)}
      BY Zenon, <1>2, <2>2
    <2> QED
      BY Zenon, <2>2, <2>4, <2>5 DEF Silent
  <1> QED
    BY <1>3

(* A legible source passes the checks of its own.                           *)
LEMMA LegiblePasses ==
    ASSUME NEW S, NEW source \in Seq(S), Legible(source)
    PROVE  /\ AllResolved(Resolve(source)) /\ ExclusionsAreLive(Resolve(source)) /\ FixturesAreLive(source)
           /\ ExtractionIsComplete(source, Resolve(source))
  <1>1. NothingMissed(Code(source))
    BY LegibleMissesNothing
  <1>2. \A r : r \in ToSet(Pairs(source)) <=> r \in Bears(source)
    BY <1>1, CompleteBears
  <1>3. \A x : x \in NamesOf(Resolve(source)) <=> \E r \in ToSet(Pairs(source)) : x = r.name
    BY FactsOfPairs
  <1>4. AllResolved(Resolve(source))
    <2> SUFFICES ASSUME NEW k \in DOMAIN Resolve(source)
                 PROVE  Resolve(source)[k].resolution.type \in {"resolved", "excluded"}
      BY Zenon DEF AllResolved
    <2>1. PICK r \in ToSet(Pairs(source)) : Resolve(source)[k] = FactOf(r)
      BY Zenon, FactsOfPairs
    <2>2. r \in ReadIn(source) /\ r.form \in Defaulting /\ r.name \notin Fixtures
      BY Zenon, <1>2 DEF Bears
    <2>3. r.name \in Exclusions \/ Classify(r.default).type = "resolved"
      <3>1. r.name \notin Exclusions => r.default.shape = "literal"
        BY <2>2 DEF Legible
      <3> QED
        BY Zenon, <3>1, ClassifyLiteral
    <2> QED
      BY Zenon, <2>1, <2>3, FactSays
  <1>5. ExclusionsAreLive(Resolve(source))
    <2>1. \A x \in Exclusions : \E r \in Bears(source) : x = r.name
      BY DEF Legible
    <2>2. \A x \in Exclusions : x \in NamesOf(Resolve(source))
      BY Zenon, <1>2, <1>3, <2>1
    <2> QED
      BY Zenon, <2>2 DEF ExclusionsAreLive
  <1>6. FixturesAreLive(source)
    BY Zenon DEF FixturesAreLive, Legible
  <1>7. ExtractionIsComplete(source, Resolve(source))
    <2>1. \A r \in ReadIn(source) : r.form # "other"
      BY DEF Legible
    <2> QED
      BY <1>1, <2>1, ExtractionAsFound
  <1> QED
    BY <1>4, <1>5, <1>6, <1>7

(* A document that states what is applied, without contradiction, passes.   *)
LEMMA TrueIsPassed ==
    ASSUME NEW S, NEW source \in Seq(S), Legible(source),
           NEW document, NEW T, NEW stated \in Seq(T), ToSet(stated) = StatedOf(document),
           StatedOf(document) \ Excused = Truths(source),
           \A s, t \in StatedOf(document) : s.name = t.name => s = t
    PROVE  /\ StatesEach(Resolve(source), stated) /\ NoContradiction(stated)
           /\ NoPhantom(Resolve(source), stated)
  <1> DEFINE facts == Resolve(source)
             TruthOf(r) == [name |-> r.name, value |-> Applied(r.default)]
  <1>1. NothingMissed(Code(source))
    BY LegibleMissesNothing
  <1>2. \A r : r \in ToSet(Pairs(source)) <=> r \in Bears(source)
    BY <1>1, CompleteBears
  <1>3. \A x : x \in NamesOf(facts) <=> \E r \in ToSet(Pairs(source)) : x = r.name
    BY FactsOfPairs
  <1>4. \A k \in DOMAIN stated : stated[k] \in StatedOf(document)
    BY Zenon DEF ToSet
  <1>5. NoContradiction(stated)
    <2>1. \A i, j \in DOMAIN stated : stated[i].name = stated[j].name => stated[i] = stated[j]
      BY Zenon, <1>4
    <2> QED
      BY Zenon, <2>1 DEF NoContradiction
  <1>6. \A t : t \in Truths(source) <=> \E r \in Bears(source) : r.name \notin Exclusions /\ t = TruthOf(r)
    BY Zenon DEF Truths
  <1>7. NoPhantom(facts, stated)
    <2> SUFFICES ASSUME NEW k \in DOMAIN stated PROVE stated[k].name \in NamesOf(facts)
      BY Zenon DEF NoPhantom
    <2>1. CASE stated[k] \in Excused
      <3>1. stated[k].name \in Exclusions
        BY <2>1 DEF Excused
      <3>2. ExclusionsAreLive(facts)
        BY LegiblePasses
      <3> QED
        BY Zenon, <3>1, <3>2 DEF ExclusionsAreLive
    <2>2. CASE stated[k] \notin Excused
      <3>1. stated[k] \in Truths(source)
        BY Zenon, <1>4, <2>2
      <3>2. PICK r \in Bears(source) : stated[k] = TruthOf(r)
        BY Zenon, <1>6, <3>1
      <3>3. stated[k].name = r.name
        BY <3>2
      <3> QED
        BY Zenon, <1>2, <1>3, <3>3
    <2> QED
      BY <2>1, <2>2
  <1>8. StatesEach(facts, stated)
    <2> SUFFICES ASSUME NEW k \in DOMAIN facts, facts[k].resolution.type = "resolved"
                 PROVE  \E j \in DOMAIN stated :
                            /\ stated[j] = [name |-> facts[k].name, value |-> facts[k].resolution.value]
                            /\ \A i \in 1..(j - 1) : stated[i].name # facts[k].name
      BY Zenon DEF StatesEach
    <2>1. PICK r \in ToSet(Pairs(source)) : facts[k] = FactOf(r)
      <3>1. \A l \in DOMAIN facts : \E r \in ToSet(Pairs(source)) : facts[l] = FactOf(r)
        BY FactsOfPairs
      <3> QED
        BY Zenon, <3>1
    <2>2. r \in Bears(source) /\ r.name \notin Exclusions /\ facts[k].name = r.name
          /\ facts[k].resolution.value = Classify(r.default).value
      BY Zenon, <1>2, <2>1, FactSays
    <2>3. r \in ReadIn(source) /\ r.form \in Defaulting /\ r.name \notin Fixtures
      BY Zenon, <2>2 DEF Bears
    <2>4. r.default.shape = "literal"
      BY <2>2, <2>3 DEF Legible
    <2>5. facts[k].resolution.value = Applied(r.default)
      BY Zenon, <2>2, <2>4, ClassifyLiteral
    <2>6. TruthOf(r) \in ToSet(stated)
      <3>1. TruthOf(r) \in Truths(source)
        BY Zenon, <1>6, <2>2
      <3> QED
        BY Zenon, <3>1
    <2> DEFINE I == {j \in DOMAIN stated : stated[j].name = r.name}
    <2>7. I \in SUBSET Nat /\ I # {} /\ DOMAIN stated = 1..Len(stated) /\ Len(stated) \in Nat
      <3>1. PICK j \in DOMAIN stated : stated[j] = TruthOf(r)
        BY Zenon, <2>6 DEF ToSet
      <3>2. j \in I
        BY <3>1
      <3> QED
        BY <3>2
    <2> HIDE DEF I
    <2>8. PICK j \in I : \A i \in I : j <= i
      BY <2>7, LeastNumber
    <2> USE DEF I
    <2>9. j \in DOMAIN stated /\ stated[j].name = r.name
      BY Zenon, <2>8
    <2>10. \A i \in 1..(j - 1) : stated[i].name # r.name
      <3> SUFFICES ASSUME NEW i \in 1..(j - 1), stated[i].name = r.name PROVE FALSE
        OBVIOUS
      <3>1. i \in DOMAIN stated /\ i < j /\ j \in Nat
        BY <2>7, <2>9
      <3>2. i \in I
        BY Zenon, <3>1
      <3> QED
        BY <2>8, <3>1, <3>2
    <2>11. stated[j] = TruthOf(r)
      <3>1. TruthOf(r) \in StatedOf(document) /\ TruthOf(r).name = r.name
        BY Zenon, <2>6
      <3> QED
        BY Zenon, <1>4, <2>9, <3>1
    <2> HIDE DEF I
    <2> QED
      BY Zenon, <2>2, <2>5, <2>9, <2>10, <2>11
  <1> QED
    BY <1>5, <1>7, <1>8

(* Entries of one line each that state what a document does.                *)
HelpOf(entries) ==
    [k \in DOMAIN entries |-> [type |-> "entry", name |-> entries[k].name, marker |-> entries[k].value]]

(* Such entries state what the document does, and list what it lists.       *)
LEMMA HelpSays ==
    ASSUME NEW entries \in Seq(Statements)
    PROVE  /\ \E T : StatedInHelp(HelpOf(entries)) \in Seq(T)
           /\ ToSet(StatedInHelp(HelpOf(entries))) = StatedOf(entries)
           /\ NamesOf(Filtered(HelpOf(entries), LAMBDA l : l.type = "entry")) = NamesOf(entries)
  <1> DEFINE n == Len(entries)
             help == HelpOf(entries)
             kept == Filtered(help, LAMBDA l : l.type = "entry")
             P == {k \in DOMAIN help : help[k].type = "entry"}
             L == ToSet(help)
  <1>1. n \in Nat /\ DOMAIN entries = 1..n
    OBVIOUS
  <1>2. /\ DOMAIN help = 1..n /\ help = [k \in 1..n |-> help[k]]
        /\ \A k \in 1..n : /\ help[k].type = "entry" /\ help[k].name = entries[k].name
                           /\ help[k].marker = entries[k].value
    BY <1>1 DEF HelpOf
  <1>3. kept = Picked(help, P)
    BY Zenon DEF Filtered
  <1> HIDE DEF help
  <1>4. Page(help, n)
    BY <1>1, <1>2 DEF Page
  <1>5. \E T : StatedInHelp(help) \in Seq(T)
    <2>1. PICK h : ReadsAlong(h, help, n)
      BY <1>4, HelpRun
    <2>2. n \in 0..n
      BY <1>1
    <2>3. h[n].stated \in Seq(Statable(help, n)) /\ h[n].stated = StatedInHelp(help)
      BY <2>1, <2>2 DEF ReadsAlong, ReadStates
    <2> QED
      BY Zenon, <2>3
  <1>6. \A k \in 1..n : entries[k] = [name |-> entries[k].name, value |-> entries[k].value]
    <2>1. \A k \in 1..n : entries[k] \in Statements
      OBVIOUS
    <2> QED
      BY Zenon, <2>1, AlgorithmsAssumption
  <1>7. ASSUME NEW r PROVE r \in ToSet(StatedInHelp(help)) <=> r \in StatedOf(entries)
    <2>1. r \in ToSet(StatedInHelp(help)) <=>
            \E k \in 1..n : help[k].marker # Absent /\ r = [name |-> help[k].name, value |-> help[k].marker]
      BY <1>2, <1>4, EntriesState
    <2>2. r \in StatedOf(entries) <=> \E k \in 1..n : r = entries[k] /\ r.value # Absent
      BY Zenon, <1>1 DEF StatedOf, ToSet
    <2>3. \A k \in 1..n : [name |-> help[k].name, value |-> help[k].marker] = entries[k]
      BY Zenon, <1>2, <1>6
    <2> QED
      BY Zenon, <1>2, <2>1, <2>2, <2>3
  <1>8. ToSet(StatedInHelp(help)) = StatedOf(entries)
    BY Zenon, <1>7
  <1>9. help \in Seq(L)
    <2>1. \A k \in 1..n : help[k] \in L
      BY <1>2 DEF ToSet
    <2> HIDE DEF L
    <2> QED
      BY <1>1, <1>2, <2>1
  <1>10. P \in SUBSET DOMAIN help /\ \A k \in 1..n : k \in P
    BY <1>2
  <1> HIDE DEF P, L, kept
  <1>11. \A r : r \in ToSet(Picked(help, P)) <=> \E i \in P : r = help[i]
    BY <1>9, <1>10, Picks
  <1>12. ASSUME NEW x PROVE x \in NamesOf(kept) <=> x \in NamesOf(entries)
    <2>1. x \in NamesOf(kept) <=> \E r \in ToSet(kept) : x = r.name
      BY Zenon DEF NamesOf, ToSet
    <2>2. (\E r \in ToSet(kept) : x = r.name) <=> \E i \in P : x = help[i].name
      BY Zenon, <1>3, <1>11
    <2>3. (\E i \in P : x = help[i].name) <=> \E i \in 1..n : x = entries[i].name
      BY Zenon, <1>2, <1>10
    <2>4. x \in NamesOf(entries) <=> \E i \in 1..n : x = entries[i].name
      BY Zenon, <1>1 DEF NamesOf
    <2> QED
      BY Zenon, <2>1, <2>2, <2>3, <2>4
  <1>13. NamesOf(kept) = NamesOf(entries)
    BY Zenon, <1>12
  <1> QED
    BY Zenon, <1>5, <1>8, <1>13 DEF help, kept

(* So does a table.                                                         *)
LEMMA TableSays ==
    ASSUME NEW shownRows \in Seq(Statements)
    PROVE  StatedInTable(shownRows) \in Seq(Statements) /\ ToSet(StatedInTable(shownRows)) = StatedOf(shownRows)
  <1> DEFINE P == {k \in DOMAIN shownRows : shownRows[k].value # Absent}
  <1>1. StatedInTable(shownRows) = Picked(shownRows, P)
    BY Zenon DEF StatedInTable, Filtered
  <1>2. P \in SUBSET DOMAIN shownRows
    OBVIOUS
  <1> HIDE DEF P
  <1>3. Picked(shownRows, P) \in Seq(Statements)
    BY <1>2, Picks
  <1>4. \A r : r \in ToSet(StatedInTable(shownRows)) <=> r \in StatedOf(shownRows)
    BY TableStates DEF StatedOf
  <1> QED
    BY Zenon, <1>1, <1>3, <1>4

(* A document states each default that is applied and no other, and names   *)
(* what is read without one.                                                *)
TrueTo(source, document) ==
    StatedOf(document) \ Excused = Truths(source) /\ Silent(source) \subseteq NamesOf(document)

(* A document states one default of a variable.                             *)
Consistent(document) == \A s, t \in StatedOf(document) : s.name = t.name => s = t

(* What the checks ask of each document.                                    *)
Passes(source, stated, listed) ==
    /\ StatesEach(Resolve(source), stated) /\ NoContradiction(stated) /\ NoPhantom(Resolve(source), stated)
    /\ WithoutDefaults(source, Resolve(source)) \subseteq Mentioned(listed)

(* No document mentions a silent variable but by its entry.                 *)
Apart(source, document) == \A n \in NamesOf(document) : Mentions[n] \cap Silent(source) \subseteq {n}

(* The checks of the documentation, document by document.                   *)
LEMMA ChecksAre ==
    ASSUME NEW source, NEW entries \in Seq(Statements), NEW table
    PROVE  Documented(source, HelpOf(entries), table) <=>
              /\ AllResolved(Resolve(source)) /\ ExclusionsAreLive(Resolve(source)) /\ FixturesAreLive(source)
              /\ ExtractionIsComplete(source, Resolve(source))
              /\ Passes(source, StatedInHelp(HelpOf(entries)), NamesOf(entries))
              /\ Passes(source, StatedInTable(table), NamesOf(table))
  <1> DEFINE kept == Filtered(HelpOf(entries), LAMBDA l : l.type = "entry")
             facts == Resolve(source)
             Fit(stated) == StatesEach(facts, stated) /\ NoContradiction(stated) /\ NoPhantom(facts, stated)
             Lists(listed) == WithoutDefaults(source, facts) \subseteq Mentioned(listed)
  <1>1. NamesOf(kept) = NamesOf(entries)
    BY Zenon, HelpSays
  <1>2. Documented(source, HelpOf(entries), table) <=>
              /\ AllResolved(facts) /\ ExclusionsAreLive(facts) /\ FixturesAreLive(source)
              /\ ExtractionIsComplete(source, facts)
              /\ \A stated \in {StatedInHelp(HelpOf(entries)), StatedInTable(table)} : Fit(stated)
              /\ \A listed \in {NamesOf(kept), NamesOf(table)} : Lists(listed)
    BY Zenon DEF Documented
  <1>3. \A stated, listed : Passes(source, stated, listed) <=> Fit(stated) /\ Lists(listed)
    BY Zenon DEF Passes
  <1> HIDE DEF Fit, Lists, facts, kept
  <1>4. Documented(source, HelpOf(entries), table) <=>
              /\ AllResolved(facts) /\ ExclusionsAreLive(facts) /\ FixturesAreLive(source)
              /\ ExtractionIsComplete(source, facts)
              /\ Fit(StatedInHelp(HelpOf(entries))) /\ Fit(StatedInTable(table))
              /\ Lists(NamesOf(entries)) /\ Lists(NamesOf(table))
    BY Zenon, <1>1, <1>2
  <1> QED
    BY Zenon, <1>3, <1>4 DEF facts

(* An entry mentions its own name.                                          *)
LEMMA EntriesMention ==
    ASSUME NEW document \in Seq(Statements)
    PROVE  NamesOf(document) \subseteq Mentioned(NamesOf(document))
  <1> SUFFICES ASSUME NEW n \in NamesOf(document) PROVE n \in Mentions[n]
    BY DEF Mentioned
  <1>1. PICK k \in DOMAIN document : n = document[k].name
    BY DEF NamesOf
  <1>2. document[k] \in Statements
    OBVIOUS
  <1> QED
    BY Zenon, <1>1, <1>2, AlgorithmsAssumption

(* The documents that pass are the true ones.                               *)
LEMMA DocumentsPass ==
    ASSUME NEW S, NEW source \in Seq(S), \A r \in ToSet(source) : IsReading(r),
           NEW entries \in Seq(Statements), NEW table \in Seq(Statements)
    PROVE  /\ Documented(source, HelpOf(entries), table) =>
                /\ \A r \in ReadIn(source) : r.form # "other"
                /\ (\A r \in Bears(source) : Unambiguous(r.default))
                    /\ Apart(source, entries) /\ Apart(source, table)
                    => TrueTo(source, entries) /\ TrueTo(source, table)
           /\ TrueTo(source, entries) /\ TrueTo(source, table) /\ Legible(source)
                /\ Consistent(entries) /\ Consistent(table)
                => Documented(source, HelpOf(entries), table)
  <1> DEFINE told == StatedInHelp(HelpOf(entries))
             shown == StatedInTable(table)
             without == WithoutDefaults(source, Resolve(source))
  <1>1. ToSet(told) = StatedOf(entries) /\ ToSet(shown) = StatedOf(table)
    BY Zenon, HelpSays, TableSays
  <1>2. PICK T : told \in Seq(T)
    BY Zenon, HelpSays
  <1>3. shown \in Seq(Statements)
    BY Zenon, TableSays
  <1>4. Documented(source, HelpOf(entries), table) <=>
              /\ AllResolved(Resolve(source)) /\ ExclusionsAreLive(Resolve(source)) /\ FixturesAreLive(source)
              /\ ExtractionIsComplete(source, Resolve(source))
              /\ Passes(source, told, NamesOf(entries))
              /\ Passes(source, shown, NamesOf(table))
    BY Zenon, ChecksAre
  <1> HIDE DEF told, shown
  <1>5. ASSUME Documented(source, HelpOf(entries), table)
        PROVE  (\A r \in ReadIn(source) : r.form # "other") /\ NothingMissed(Code(source))
    BY <1>4, <1>5, ExtractionAsFound
  <1>6. ASSUME Documented(source, HelpOf(entries), table), \A r \in Bears(source) : Unambiguous(r.default),
               Apart(source, entries), Apart(source, table)
        PROVE  TrueTo(source, entries) /\ TrueTo(source, table)
    <2>1. NothingMissed(Code(source))
      BY <1>5, <1>6
    <2>2. Plain(source)
      BY Zenon, <1>6 DEF Plain, Bears, ReadIn
    <2>3. Silent(source) \subseteq without
      BY <2>1, SilentAreFound
    <2>4. /\ AllResolved(Resolve(source))
          /\ Passes(source, told, NamesOf(entries)) /\ Passes(source, shown, NamesOf(table))
      BY Zenon, <1>4, <1>6
    <2>5. StatedOf(entries) \ Excused = Truths(source)
      BY <1>1, <2>1, <2>2, <2>4, PassedIsTrue DEF Passes
    <2>6. StatedOf(table) \ Excused = Truths(source)
      BY <1>1, <2>1, <2>2, <2>4, PassedIsTrue DEF Passes
    <2>7. ASSUME NEW document, Apart(source, document), without \subseteq Mentioned(NamesOf(document))
          PROVE  Silent(source) \subseteq NamesOf(document)
      <3> SUFFICES ASSUME NEW x \in Silent(source) PROVE x \in NamesOf(document)
        OBVIOUS
      <3> HIDE DEF without
      <3>1. PICK n \in NamesOf(document) : x \in Mentions[n]
        BY <2>3, <2>7 DEF Mentioned
      <3>2. x = n
        BY <2>7, <3>1 DEF Apart
      <3> QED
        BY <3>1, <3>2
    <2> QED
      BY Zenon, <1>6, <2>4, <2>5, <2>6, <2>7 DEF TrueTo, Passes
  <1>7. ASSUME TrueTo(source, entries), TrueTo(source, table), Legible(source),
               Consistent(entries), Consistent(table)
        PROVE  Documented(source, HelpOf(entries), table)
    <2>1. without \subseteq Silent(source)
      BY <1>7, FoundAreSilent
    <2>2. ASSUME NEW document \in Seq(Statements), TrueTo(source, document)
          PROVE  without \subseteq Mentioned(NamesOf(document))
      <3>1. Silent(source) \subseteq NamesOf(document)
        BY <2>2 DEF TrueTo
      <3>2. NamesOf(document) \subseteq Mentioned(NamesOf(document))
        BY EntriesMention
      <3> HIDE DEF without
      <3> QED
        BY <2>1, <3>1, <3>2
    <2>3. Passes(source, told, NamesOf(entries))
      <3>1. /\ StatesEach(Resolve(source), told) /\ NoContradiction(told)
            /\ NoPhantom(Resolve(source), told)
        BY <1>1, <1>2, <1>7, TrueIsPassed DEF TrueTo, Consistent
      <3> QED
        BY Zenon, <1>7, <2>2, <3>1 DEF Passes
    <2>4. Passes(source, shown, NamesOf(table))
      <3>1. /\ StatesEach(Resolve(source), shown) /\ NoContradiction(shown)
            /\ NoPhantom(Resolve(source), shown)
        BY <1>1, <1>3, <1>7, TrueIsPassed DEF TrueTo, Consistent
      <3> QED
        BY Zenon, <1>7, <2>2, <3>1 DEF Passes
    <2>5. /\ AllResolved(Resolve(source)) /\ ExclusionsAreLive(Resolve(source)) /\ FixturesAreLive(source)
          /\ ExtractionIsComplete(source, Resolve(source))
      BY <1>7, LegiblePasses
    <2> QED
      BY Zenon, <1>4, <2>3, <2>4, <2>5
  <1> QED
    BY Zenon, <1>5, <1>6, <1>7

(* A read of a variable in the source.                                      *)
ReadItem == [of : {"config"}, is : Reads]
(* A statement one of the documents makes.                                  *)
StatedItem == [of : {"help", "table"}, is : Statements]

(* What a page and the facts of a build are made of.                        *)
DocumentsTyped ==
    /\ input.kind = "help" => input.items \in Seq(HelpLines)
    /\ input.kind = "facts" => input.items \in Seq(ReadItem \cup StatedItem)

(* A page grows by a line, and the facts by a read or a statement.          *)
LEMMA DocumentStep ==
    ASSUME Shape, InputNext
    PROVE  /\ input.kind = "help" => \E l \in HelpLines : input'.items = Append(input.items, l)
           /\ input.kind = "facts" =>
                \E e \in ReadItem \cup StatedItem : input'.items = Append(input.items, e)
  <1>1. input.kind \in {"help", "facts"} => Wrap \/ ReadVariable \/ State
    <2> SUFFICES ASSUME input.kind \in {"help", "facts"} PROVE Wrap \/ ReadVariable \/ State
      OBVIOUS
    <2>1. ~Turn /\ ~Result /\ ~Torn /\ ~Enter
      BY DEF Turn, Result, Torn, Enter, Grown
    <2>2. ~Locate /\ ~Match /\ ~Paginate /\ ~Declare /\ ~Score /\ ~Infer /\ ~Type /\ ~Form /\ ~Tell
      BY DEF Locate, Match, Paginate, Declare, Score, Infer, Type, Form, Tell, Grown
    <2>3. ~Ask /\ ~Hit /\ ~Cite /\ ~Conclude /\ ~Back
      BY DEF Ask, Hit, Cite, Conclude, Back, Grown
    <2>4. ~Save /\ ~Recalls /\ ~Meter /\ ~Write /\ ~WriteOlder /\ ~Damage
      BY DEF Save, Recalls, Meter, Write, WriteOlder, Damage, Grown
    <2> QED
      BY <2>1, <2>2, <2>3, <2>4 DEF InputNext
  <1>2. ASSUME Wrap PROVE input.kind = "help" /\ \E l \in HelpLines : input'.items = Append(input.items, l)
    BY <1>2, GrownKind DEF Wrap
  <1>3. ASSUME ReadVariable
        PROVE  input.kind = "facts" /\ \E e \in ReadItem \cup StatedItem : input'.items = Append(input.items, e)
    <2>1. PICK r \in Reads : Grown("facts", [of |-> "config", is |-> r])
      BY <1>3 DEF ReadVariable
    <2>2. [of |-> "config", is |-> r] \in ReadItem \cup StatedItem
      BY DEF ReadItem
    <2> QED
      BY Zenon, <2>1, <2>2, GrownKind
  <1>4. ASSUME State
        PROVE  input.kind = "facts" /\ \E e \in ReadItem \cup StatedItem : input'.items = Append(input.items, e)
    <2>1. PICK document \in {"help", "table"}, s \in Statements : Grown("facts", [of |-> document, is |-> s])
      BY Zenon, <1>4 DEF State
    <2>2. [of |-> document, is |-> s] \in ReadItem \cup StatedItem
      BY DEF StatedItem
    <2> QED
      BY Zenon, <2>1, <2>2, GrownKind
  <1> QED
    BY <1>1, <1>2, <1>3, <1>4

(* They stay so.                                                            *)
LEMMA DocumentsTypedStep ==
    ASSUME Shape, DocumentsTyped, [InputNext]_input
    PROVE  DocumentsTyped'
  <1> DEFINE T == ReadItem \cup StatedItem
             s == input.items
             t == input'.items
  <1>1. CASE UNCHANGED input
    BY <1>1 DEF DocumentsTyped
  <1>2. CASE InputNext
    <2>1. input'.kind = input.kind
      BY <1>2, ShapeStep
    <2>2. CASE input.kind = "help"
      <3>1. PICK l \in HelpLines : t = Append(s, l)
        BY <1>2, <2>2, DocumentStep
      <3>2. s \in Seq(HelpLines)
        BY <2>2 DEF DocumentsTyped
      <3> HIDE DEF s, t
      <3>3. t \in Seq(HelpLines)
        BY <3>1, <3>2
      <3> QED
        BY <2>1, <2>2, <3>3 DEF DocumentsTyped, t
    <2>3. CASE input.kind = "facts"
      <3>1. PICK e \in T : t = Append(s, e)
        BY <1>2, <2>3, DocumentStep
      <3>2. s \in Seq(T)
        BY <2>3 DEF DocumentsTyped
      <3> HIDE DEF s, t, T
      <3>3. t \in Seq(T)
        BY <3>1, <3>2
      <3> QED
        BY <2>1, <2>3, <3>3 DEF DocumentsTyped, t, T
    <2>4. CASE input.kind # "help" /\ input.kind # "facts"
      BY <2>1, <2>4 DEF DocumentsTyped
    <2> QED
      BY <2>2, <2>3, <2>4
  <1> QED
    BY <1>1, <1>2

(* Each part holds what it may.                                             *)
LEMMA PartsTyped ==
    ASSUME NEW items \in Seq(ReadItem \cup StatedItem), NEW who \in {"config", "help", "table"}
    PROVE  PartOf(items, who) \in Seq(IF who = "config" THEN Reads ELSE Statements)
  <1> DEFINE T == ReadItem \cup StatedItem
             P == {k \in DOMAIN items : items[k].of = who}
             said == Picked(items, P)
             V == IF who = "config" THEN Reads ELSE Statements
             part == [k \in DOMAIN said |-> said[k].is]
  <1>1. PartOf(items, who) = part
    BY Zenon DEF PartOf, Filtered
  <1>2. P \in SUBSET DOMAIN items
    OBVIOUS
  <1>3. \A i \in P : items[i] \in T /\ items[i].of = who
    <2>1. \A i \in DOMAIN items : items[i] \in T
      OBVIOUS
    <2> HIDE DEF T
    <2> QED
      BY <2>1
  <1>4. \A i \in P : items[i].is \in V
    <2>1. \A e \in T : e.of = who => e.is \in V
      BY DEF ReadItem, StatedItem
    <2> HIDE DEF T, P, V
    <2> QED
      BY Zenon, <1>3, <2>1
  <1> HIDE DEF P, T
  <1>5. /\ Len(said) = Cardinality(P) /\ DOMAIN said = 1..Cardinality(P) /\ IsFiniteSet(P)
        /\ \A r : r \in ToSet(said) <=> \E i \in P : r = items[i]
    BY <1>2, Picks DEF T
  <1>6. Cardinality(P) \in Nat
    BY <1>5, FS_CardinalityType
  <1>7. \A k \in DOMAIN said : said[k].is \in V
    <2>1. \A k \in DOMAIN said : said[k] \in ToSet(said)
      BY Zenon DEF ToSet
    <2> HIDE DEF said, V
    <2> QED
      BY Zenon, <1>4, <1>5, <2>1
  <1>8. part \in Seq(V)
    <2> HIDE DEF said, V
    <2> QED
      BY <1>5, <1>6, <1>7
  <1> QED
    BY Zenon, <1>1, <1>8

(* The markers of a page belong to their entries.                           *)
LEMMA TypedMarkers ==
    ASSUME DocumentsTyped
    PROVE  MarkersBelong
  <1> DEFINE lines == input.items
  <1> SUFFICES ASSUME input.kind = "help" PROVE MarkersBelong
    BY DEF MarkersBelong
  <1>1. lines \in Seq(HelpLines)
    BY DEF DocumentsTyped
  <1> HIDE DEF lines
  <1>2. Page(lines, Len(lines))
    BY <1>1, PageOf
  <1>3. ToSet(StatedInHelp(lines)) =
                {[name |-> lines[p[1]].name, value |-> lines[p[2]].marker] :
                    p \in {q \in (DOMAIN lines) \X (DOMAIN lines) :
                        /\ q[1] <= q[2] /\ lines[q[1]].type = "entry" /\ lines[q[2]].marker # Absent
                        /\ \A k \in (q[1] + 1)..q[2] : lines[k].type = "more"}}
    BY <1>2, PageMarkers
  <1> QED
    BY Zenon, <1>3 DEF MarkersBelong, lines

(* The statements of both documents are true.                               *)
LEMMA TypedStatements ==
    ASSUME DocumentsTyped
    PROVE  StatementsAreTrue
  <1> DEFINE items == input.items
             config == PartOf(items, "config")
             entries == PartOf(items, "help")
             table == PartOf(items, "table")
             source == Standing \o config
             code == {r \in ToSet(source) : ~r.commented}
             reads == {r \in code : r.name \notin Fixtures}
             bearing == {r \in reads : r.default.shape # "none"}
             noticed == \A r \in code : r.form = "gate" => r.default.shape = "none"
             unambiguous == \A r \in bearing : r.default.shape = "constant" =>
                    \A f \in Declaring(r.default) : Declared[f][r.default.constant].readable =>
                        \/ r.default.file = f
                        \/ r.default.file < f /\ Declared[r.default.file][r.default.constant].readable
             readable ==
                /\ \A r \in code :
                        /\ r.form \notin {"unwrap_or", "other"}
                        /\ r.form \in Defaulting /\ r.name \notin Exclusions \cup Fixtures =>
                                r.default.shape = "literal"
                /\ Exclusions \subseteq {r.name : r \in bearing}
                /\ \A k \in Fixtures : \E i \in DOMAIN source :
                        /\ source[i].name = k /\ source[i].form = "parse_env"
                        /\ \A j \in DOMAIN source : source[j].name = k => i = j
             truth == {[name |-> r.name, value |-> Applied(r.default)] :
                        r \in {r \in bearing : r.name \notin Exclusions}}
             silent == {r.name : r \in reads} \ ({r.name : r \in bearing} \cup TestNames)
             documents == {entries, table}
             apart == \A document \in documents :
                        \A n \in NamesOf(document) : Mentions[n] \cap silent \subseteq {n}
             true == \A document \in documents :
                        /\ StatedOf(document) \ Excused = truth
                        /\ silent \subseteq NamesOf(document)
             consistent == \A document \in documents :
                            \A s, t \in StatedOf(document) : s.name = t.name => s = t
             Claim == noticed =>
                /\ Documented(source, HelpOf(entries), table) /\ unambiguous /\ apart => true
                /\ true /\ readable /\ consistent => Documented(source, HelpOf(entries), table)
  <1>1. (input.kind = "facts" => Claim) => StatementsAreTrue
    BY Zenon DEF StatementsAreTrue, HelpOf, StatedOf, Excused
  <1> SUFFICES ASSUME input.kind = "facts", noticed
               PROVE  /\ Documented(source, HelpOf(entries), table) /\ unambiguous /\ apart => true
                      /\ true /\ readable /\ consistent => Documented(source, HelpOf(entries), table)
    BY Zenon, <1>1
  <1>2. items \in Seq(ReadItem \cup StatedItem)
    BY DEF DocumentsTyped
  <1> HIDE DEF items
  <1>3. config \in Seq(Reads) /\ entries \in Seq(Statements) /\ table \in Seq(Statements)
    <2>1. \A who \in {"config", "help", "table"} :
              PartOf(items, who) \in Seq(IF who = "config" THEN Reads ELSE Statements)
      BY <1>2, PartsTyped
    <2> QED
      BY <2>1
  <1> HIDE DEF config, entries, table
  <1> DEFINE T == ToSet(Standing)
             S == Reads \cup T
  <1>4. Standing \in Seq(T) /\ \A r \in S : IsReading(r)
    BY AlgorithmsAssumption
  <1>5. source \in Seq(S) /\ ToSet(source) = T \cup ToSet(config)
    <2> HIDE DEF T
    <2>1. Standing \in Seq(S)
      BY <1>4
    <2>2. config \in Seq(S)
      BY <1>3
    <2> HIDE DEF S
    <2>3. source \in Seq(S) /\ ToSet(source) = ToSet(Standing) \cup ToSet(config)
      BY <2>1, <2>2, HeldTogether
    <2> QED
      BY <2>3 DEF T
  <1> HIDE DEF T, source
  <1>6. \A r \in ToSet(source) : IsReading(r)
    <2>1. ToSet(config) \subseteq Reads
      BY <1>3 DEF ToSet
    <2> QED
      BY <1>4, <1>5, <2>1
  <1> HIDE DEF S
  <1>7. code = ReadIn(source)
    BY DEF ReadIn
  <1> HIDE DEF code
  <1>8. ASSUME \A r \in ReadIn(source) : r.form # "other" PROVE bearing = Bears(source)
    <2>1. ASSUME NEW r \in ReadIn(source) PROVE r.default.shape # "none" <=> r.form \in Defaulting
      <3>1. IsReading(r)
        BY <1>6 DEF ReadIn
      <3>2. r.form \in Defaulting \cup {"gate", "other"} /\ (r.form \in Defaulting => r.default.shape # "none")
        BY Zenon, <3>1 DEF IsReading
      <3>3. r.form \notin Defaulting => r.form = "gate"
        BY Zenon, <1>8, <3>2
      <3> QED
        BY Zenon, <1>7, <3>2, <3>3
    <2> QED
      BY Zenon, <1>7, <2>1 DEF Bears
  <1> HIDE DEF bearing
  <1>9. ASSUME bearing = Bears(source)
        PROVE  /\ truth = Truths(source) /\ silent = Silent(source)
               /\ unambiguous <=> \A r \in Bears(source) : Unambiguous(r.default)
               /\ readable <=> Legible(source)
    <2>1. truth = Truths(source) /\ silent = Silent(source)
      BY Zenon, <1>7, <1>9 DEF Truths, Silent
    <2>2. unambiguous <=> \A r \in Bears(source) : Unambiguous(r.default)
      BY Zenon, <1>9 DEF Unambiguous
    <2>3. readable <=> Legible(source)
      BY Zenon, <1>7, <1>9 DEF Legible
    <2> QED
      BY Zenon, <2>1, <2>2, <2>3
  <1>10. readable => \A r \in ReadIn(source) : r.form # "other"
    BY <1>7
  <1> HIDE DEF reads, unambiguous, readable, truth, silent
  <1>11. ASSUME bearing = Bears(source)
         PROVE  /\ true <=> TrueTo(source, entries) /\ TrueTo(source, table)
                /\ apart <=> Apart(source, entries) /\ Apart(source, table)
    BY Zenon, <1>9, <1>11 DEF TrueTo, Apart
  <1>12. consistent <=> Consistent(entries) /\ Consistent(table)
    BY Zenon DEF Consistent
  <1> HIDE DEF true, apart, consistent
  <1>13. /\ Documented(source, HelpOf(entries), table) =>
                /\ \A r \in ReadIn(source) : r.form # "other"
                /\ (\A r \in Bears(source) : Unambiguous(r.default))
                    /\ Apart(source, entries) /\ Apart(source, table)
                    => TrueTo(source, entries) /\ TrueTo(source, table)
         /\ TrueTo(source, entries) /\ TrueTo(source, table) /\ Legible(source)
                /\ Consistent(entries) /\ Consistent(table)
                => Documented(source, HelpOf(entries), table)
    BY <1>3, <1>5, <1>6, DocumentsPass
  <1> QED
    BY Zenon, <1>8, <1>9, <1>10, <1>11, <1>12, <1>13

(* A complete extraction missed nothing but what a gate hides.              *)
LEMMA TypedHiding ==
    ASSUME DocumentsTyped
    PROVE  OnlyGatesHide
  <1> DEFINE config == PartOf(input.items, "config")
             source == Standing \o config
             T == ToSet(Standing)
             S == Reads \cup T
  <1> SUFFICES ASSUME input.kind = "facts", ExtractionIsComplete(source, Resolve(source)),
                      NEW r \in ToSet(source), ~r.commented, r.name \notin Fixtures, r.default.shape # "none"
               PROVE  r.name \in NamesOf(Resolve(source)) \/ r.form = "gate"
    BY Zenon DEF OnlyGatesHide
  <1>1. config \in Seq(Reads)
    <2>1. config \in Seq(IF "config" = "config" THEN Reads ELSE Statements)
      BY PartsTyped DEF DocumentsTyped
    <2> QED
      BY <2>1
  <1>2. Standing \in Seq(T) /\ \A q \in S : IsReading(q)
    BY AlgorithmsAssumption
  <1> HIDE DEF config
  <1>3. source \in Seq(S) /\ ToSet(source) = T \cup ToSet(config)
    <2> HIDE DEF T
    <2>1. Standing \in Seq(S) /\ config \in Seq(S)
      BY <1>1, <1>2
    <2> HIDE DEF S
    <2> QED
      BY <2>1, HeldTogether DEF T
  <1>4. IsReading(r)
    <2>1. ToSet(config) \subseteq Reads
      BY <1>1 DEF ToSet
    <2> QED
      BY <1>2, <1>3, <2>1
  <1> HIDE DEF source, S, T
  <1>5. r \in ReadIn(source)
    BY DEF ReadIn
  <1>6. (\A q \in ReadIn(source) : q.form # "other") /\ NothingMissed(Code(source))
    BY Zenon, <1>3, ExtractionAsFound
  <1>7. r.form \in Defaulting \/ r.form = "gate"
    BY Zenon, <1>4, <1>5, <1>6 DEF IsReading
  <1>8. ASSUME r.form \in Defaulting PROVE r.name \in NamesOf(Resolve(source))
    <2>1. r \in Bears(source)
      BY Zenon, <1>5, <1>8 DEF Bears
    <2>2. r \in ToSet(Pairs(source))
      BY Zenon, <1>3, <1>6, <2>1, CompleteBears
    <2> QED
      BY Zenon, <1>3, <2>2, FactsOfPairs
  <1> QED
    BY Zenon, <1>7, <1>8

(* What an operator reads is what is applied: a marker of --help belongs to *)
(* the entry it stands in, and documents pass the checks exactly when they  *)
(* state each default that is applied and no other and list the variables   *)
(* that have none, as far as the checks can tell: no gate hides a default   *)
(* and no entry mentions another's variable; and a gate is all that can     *)
(* hide one.  For any source, constants and documents (config_facts:        *)
(* resolve_from, classify_call_sites, stated_in_help; main.rs).             *)
THEOREM DocumentsTellTheTruth == InputSpec => []DocumentsAreTrue
  <1>1. InputInit => Shape /\ DocumentsTyped
    <2>1. <<>> \in Seq(HelpLines) /\ <<>> \in Seq(ReadItem \cup StatedItem)
      OBVIOUS
    <2> QED
      BY Zenon, <2>1, ShapeInit DEF DocumentsTyped
  <1>2. Shape /\ DocumentsTyped /\ [InputNext]_input => Shape' /\ DocumentsTyped'
    BY ShapeStep, DocumentsTypedStep
  <1>3. DocumentsTyped => DocumentsAreTrue
    BY TypedMarkers, TypedStatements, TypedHiding DEF DocumentsAreTrue
  <1> QED
    BY <1>1, <1>2, <1>3, PTL DEF InputSpec

=============================================================================
