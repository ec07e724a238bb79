-------------------------- MODULE Checkpoint_proofs --------------------------
(***************************************************************************)
(* Proofs about Checkpoint, for any number of evaluations, any clock and   *)
(* window, any sessions, signals and memories.                             *)
(*                                                                         *)
(* What an evaluation decides rests on what it read before its last await: *)
(* the keys the window held, the constraints the store held, what its hops *)
(* were billed.  Good says what is still true of those facts while it is   *)
(* suspended; tables only grow, the clock does not go back and a retired   *)
(* memory stays retired, so the others keep being good.                    *)
(***************************************************************************)
EXTENDS Checkpoint, FiniteSetTheorems, WellFoundedInduction, TLAPS

(* m was not retired before evaluation e began.                             *)
LiveFor(e, m) == store[m] # "absent" /\ (store[m] = "retired" => retired[m] >= e)

(* The memories an evaluation with these locals enforces.                   *)
Enforced(l) == {m \in Memories : l.fired \cap {Violation(m), Conflict(m)} # {}}

(* Nothing is decided before the verdict is in.                             *)
Undecided(p, l) ==
    p # "record" => l.verdict = "silence" /\ l.delivered = {} /\ ~l.failOpen

(* What was billed, hop by hop, and how much of it is metered.              *)
BilledSoFar(p, l) ==
    /\ p \in {"read", "embed"} => l.spent = 0 /\ l.metered = 0
    /\ p = "load" => l.spent = 1 /\ l.metered = 0
    /\ p = "review" => l.spent <= 1 /\ l.metered = l.spent
    /\ p \in {"count", "drop", "capture"} =>
          l.spent <= 2 /\ l.metered = l.spent /\ l.offered
    /\ p \in {"save", "audit"} =>
          l.metered <= 2 /\ l.spent = l.metered + 1 /\ l.offered
    /\ p \in {"cooldown", "record"} => l.metered <= l.spent
    /\ p = "cooldown" \/ (p = "record" /\ ~l.failOpen) =>
          l.spent <= l.metered + IF l.offered THEN 1 ELSE 0

(* A flag repeats no key a row stored when it began delivered in the window. *)
FlagIsFresh(l) ==
    l.verdict = "flag" =>
        \A i \in 1..l.base :
            (rows[i].session = l.session /\ rows[i].delivered \cap l.delivered # {})
                => rows[i].at + Window < l.at

(* A key held back was delivered by a row the window reached.               *)
HeldBackWithCause(l) ==
    \A k \in l.fired \ l.delivered :
        \E i \in DOMAIN rows :
            /\ rows[i].session = l.session
            /\ k \in rows[i].delivered
            /\ rows[i].at + Window >= l.readAt

(* What holds of evaluation e with locals l while it is suspended at p.     *)
Good(e, p, l) ==
    /\ l.readAt <= clock
    /\ Undecided(p, l) /\ BilledSoFar(p, l)
    /\ \A m \in l.recalled \cup Enforced(l) : LiveFor(e, m)
    /\ p = "record" => FlagIsFresh(l) /\ HeldBackWithCause(l)

SuspendedIsGood == \A e \in Evals : pc[e] \in Suspended => Good(e, pc[e], ev[e])

(* Evaluations begin in order, over the rows there are.                     *)
BegunInOrder ==
    \A e \in Evals : pc[e] # "idle" => e <= started /\ ev[e].base <= Len(rows)

(* A row belongs to an evaluation that is over, in its session.             *)
RowsAreOver ==
    \A n \in DOMAIN rows :
        /\ pc[rows[n].eval] \in {"answered", "dropped"}
        /\ rows[n].session = ev[rows[n].eval].session

(* The inductive invariant.                                                 *)
IInv ==
    /\ TypeOK /\ SuspendedIsGood /\ BegunInOrder /\ RowsAreOver
    /\ AnswerIsAudited /\ CooldownRespected /\ SuppressionJustified /\ EnforcesLiveConstraints
-----------------------------------------------------------------------------
(* An evaluation that began is not the placeholder of one that has not.     *)
LEMMA EvaluationIsNone == \A l \in Evaluations : l # NoEvaluation
  <1> SUFFICES ASSUME NEW l \in Evaluations, l = NoEvaluation PROVE FALSE
    OBVIOUS
  <1>1. "spent" \in DOMAIN l
    BY DEF Evaluations
  <1>2. "spent" \notin DOMAIN NoEvaluation
    BY DEF NoEvaluation
  <1> QED
    BY <1>1, <1>2

(* A table with one more row.                                               *)
LEMMA Appended ==
    ASSUME NEW S, NEW s \in Seq(S), NEW x \in S
    PROVE  /\ Append(s, x) \in Seq(S)
           /\ Len(Append(s, x)) = Len(s) + 1
           /\ DOMAIN Append(s, x) = DOMAIN s \cup {Len(s) + 1}
           /\ Append(s, x)[Len(s) + 1] = x
           /\ \A n \in DOMAIN s : Append(s, x)[n] = s[n] /\ n # Len(s) + 1
           /\ DOMAIN s = 1..Len(s) /\ Len(s) \in Nat
  OBVIOUS

(* The entries of a table are its rows.                                     *)
LEMMA Entries ==
    ASSUME NEW S, NEW s \in Seq(S), NEW n \in DOMAIN s
    PROVE  s[n] \in S
  OBVIOUS

(* Every row is the row of some evaluation, with its times and keys.        *)
LEMMA RowsTyped ==
    ASSUME TypeOK, NEW n \in DOMAIN rows
    PROVE  rows[n].eval \in Evals /\ rows[n].at \in Nat /\ rows[n] \in CheckpointRows
  <1>1. rows[n] \in CheckpointRows
    BY Entries DEF TypeOK
  <1> QED
    BY <1>1, CheckpointAssumption DEF CheckpointRows

(* Evaluation e is at next with new locals, the others are where they were. *)
Moves(e, next, locals) ==
    \A d \in Evals : /\ pc'[d] = IF d = e THEN next ELSE pc[d]
                     /\ ev'[d] = IF d = e THEN locals ELSE ev[d]

(* What Goto does, evaluation by evaluation.                                *)
LEMMA GotoMoves ==
    ASSUME TypeOK, NEW e \in Evals, NEW next \in {"answered", "dropped"} \cup Suspended,
           NEW locals \in Evaluations, Goto(e, next, locals)
    PROVE  /\ Moves(e, next, locals)
           /\ pc' \in [Evals -> {"idle", "answered", "dropped"} \cup Suspended]
           /\ ev' \in [Evals -> Evaluations \cup {NoEvaluation}]
           /\ \A d \in Evals : ev'[d] = NoEvaluation <=> pc'[d] = "idle"
  <1>1. next # "idle"
    BY DEF Suspended
  <1> QED
    BY <1>1, EvaluationIsNone DEF TypeOK, Goto, Moves

(* What a step of one evaluation leaves alone, unless it writes a row.      *)
Quiet ==
    /\ UNCHANGED <<clock, rows, store, retired>>
    /\ captures' \subseteq Evals /\ audited' \subseteq Evals
    /\ started' \in 0..MaxEvals /\ started <= started'

(* A step to another await, or to an end without a row, keeps the invariant *)
(* if the evaluation is good there.                                         *)
LEMMA EvaluationMoves ==
    ASSUME IInv, Quiet, NEW e \in Evals, e <= started', pc[e] \in {"idle"} \cup Suspended,
           NEW next \in {"answered", "dropped"} \cup Suspended,
           NEW locals \in Evaluations, Goto(e, next, locals), locals.base <= Len(rows),
           next \in Suspended => Good(e, next, locals),
           next = "answered" => locals.reply = "error"
    PROVE  IInv'
  <1> USE DEF IInv, Quiet
  <1>1. /\ Moves(e, next, locals)
        /\ pc' \in [Evals -> {"idle", "answered", "dropped"} \cup Suspended]
        /\ ev' \in [Evals -> Evaluations \cup {NoEvaluation}]
        /\ \A d \in Evals : ev'[d] = NoEvaluation <=> pc'[d] = "idle"
    BY GotoMoves
  <1>2. TypeOK'
    BY <1>1 DEF TypeOK
  <1>4. SuspendedIsGood'
    <2> SUFFICES ASSUME NEW d \in Evals, pc'[d] \in Suspended PROVE Good(d, pc[d], ev[d])'
      BY DEF SuspendedIsGood
    <2>1. CASE d = e
      BY <1>1, <2>1 DEF Moves, Good, Undecided, BilledSoFar, LiveFor, Enforced,
                              FlagIsFresh, HeldBackWithCause
    <2>2. CASE d # e
      BY <1>1, <2>2 DEF Moves, SuspendedIsGood, Good, Undecided, BilledSoFar, LiveFor,
                              Enforced, FlagIsFresh, HeldBackWithCause
    <2> QED
      BY <2>1, <2>2
  <1>5. BegunInOrder'
    <2>1. \A d \in Evals : d \in Nat
      BY DEF Evals
    <2> QED
      BY <1>1, <2>1 DEF BegunInOrder, Moves, TypeOK
  <1>6. \A n \in DOMAIN rows : rows[n].eval \in Evals /\ rows[n].eval # e
    BY RowsTyped DEF RowsAreOver, Suspended
  <1>7. RowsAreOver' /\ CooldownRespected' /\ SuppressionJustified'
    BY <1>1, <1>6 DEF RowsAreOver, CooldownRespected, SuppressionJustified, Moves
  <1>8. EnforcesLiveConstraints'
    BY DEF EnforcesLiveConstraints
  <1>9. AnswerIsAudited'
    BY <1>1, <1>6 DEF AnswerIsAudited, RowsOf, Moves, Suspended
  <1> QED
    BY <1>2, <1>4, <1>5, <1>7, <1>8, <1>9

(* The row of evaluation e is written, and the evaluation is over.          *)
LEMMA RowIsWritten ==
    ASSUME IInv, NEW e \in Evals, pc[e] = "record",
           NEW next \in {"answered", "dropped"}, NEW locals \in Evaluations,
           Goto(e, next, locals), rows' = Append(rows, Row(e)),
           UNCHANGED <<clock, started, store, retired, captures, audited>>,
           locals.base = ev[e].base, locals.session = ev[e].session,
           locals.readAt = ev[e].readAt, next = "answered" => locals.reply = ev[e].verdict
    PROVE  IInv'
  <1> USE DEF IInv
  <1>1. /\ Moves(e, next, locals)
        /\ pc' \in [Evals -> {"idle", "answered", "dropped"} \cup Suspended]
        /\ ev' \in [Evals -> Evaluations \cup {NoEvaluation}]
        /\ \A d \in Evals : ev'[d] = NoEvaluation <=> pc'[d] = "idle"
    BY GotoMoves
  <1>2. ev[e] \in Evaluations /\ Good(e, "record", ev[e]) /\ ev[e].base <= Len(rows)
    BY DEF TypeOK, SuspendedIsGood, BegunInOrder, Suspended
  <1> DEFINE last == Len(rows) + 1
  <1>3. /\ Row(e) \in CheckpointRows /\ Row(e).eval = e /\ Row(e).session = ev[e].session
        /\ Row(e).fired = ev[e].fired /\ Row(e).delivered = ev[e].delivered
        /\ Row(e).verdict = ev[e].verdict /\ Row(e).at = ev[e].at
    BY <1>2 DEF Row, CheckpointRows, Evaluations
  <1>4. /\ rows' \in Seq(CheckpointRows) /\ Len(rows') = last /\ Len(rows) \in Nat
        /\ DOMAIN rows' = DOMAIN rows \cup {last} /\ DOMAIN rows = 1..Len(rows)
        /\ rows'[last] = Row(e) /\ last \notin DOMAIN rows
        /\ \A n \in DOMAIN rows : rows'[n] = rows[n]
    BY <1>3, Appended DEF TypeOK
  <1>5. TypeOK'
    BY <1>1, <1>4 DEF TypeOK
  <1>6. \A n \in DOMAIN rows : rows[n].eval \in Evals /\ rows[n].eval # e
    BY RowsTyped DEF RowsAreOver
  <1>7. \A d \in Evals : pc[d] # "idle" =>
            ev[d] \in Evaluations /\ ev[d].base \in Nat /\ ev[d].base <= Len(rows)
    <2>1. \A d \in Evals : pc[d] # "idle" => ev[d] \in Evaluations
      BY DEF TypeOK
    <2> QED
      BY <2>1 DEF Evaluations, BegunInOrder
  <1>8. SuspendedIsGood'
    <2> SUFFICES ASSUME NEW d \in Evals, pc'[d] \in Suspended PROVE Good(d, pc[d], ev[d])'
      BY DEF SuspendedIsGood
    <2>1. d # e /\ pc'[d] = pc[d] /\ ev'[d] = ev[d] /\ Good(d, pc[d], ev[d]) /\ pc[d] # "idle"
      BY <1>1 DEF Moves, SuspendedIsGood, Suspended
    <2>2. FlagIsFresh(ev[d]) => FlagIsFresh(ev[d])'
      BY <1>4, <1>7, <2>1 DEF FlagIsFresh
    <2>3. HeldBackWithCause(ev[d]) => HeldBackWithCause(ev[d])'
      BY <1>4, <2>1 DEF HeldBackWithCause
    <2> QED
      BY <2>1, <2>2, <2>3 DEF Good, Undecided, BilledSoFar, LiveFor, Enforced
  <1>9. BegunInOrder'
    BY <1>1, <1>2, <1>4, <1>7 DEF BegunInOrder, Moves
  <1>10. RowsAreOver'
    BY <1>1, <1>3, <1>4, <1>6 DEF RowsAreOver, Moves
  <1>11. AnswerIsAudited'
    <2>1. \A d \in Evals : RowsOf(d)' = IF d = e THEN {last} ELSE RowsOf(d)
      BY <1>3, <1>4, <1>6 DEF RowsOf
    <2>2. next = "answered" => locals.reply # "error" /\ rows'[last].verdict = locals.reply
      <3>1. ev[e].verdict # "error"
        BY <1>2 DEF Evaluations, Verdicts
      <3> QED
        BY <1>3, <1>4, <3>1
    <2> SUFFICES ASSUME NEW d \in Evals
                 PROVE  /\ \A m, n \in RowsOf(d)' : m = n
                        /\ pc'[d] \notin {"answered", "dropped"} => RowsOf(d)' = {}
                        /\ pc'[d] = "answered" =>
                              IF ev'[d].reply = "error" THEN RowsOf(d)' = {}
                              ELSE \E n \in RowsOf(d)' : rows'[n].verdict = ev'[d].reply
      BY DEF AnswerIsAudited
    <2>3. CASE d = e
      BY <1>1, <2>1, <2>2, <2>3 DEF Moves
    <2>4. CASE d # e
      <3>1. RowsOf(d)' = RowsOf(d) /\ pc'[d] = pc[d] /\ ev'[d] = ev[d]
        BY <1>1, <2>1, <2>4 DEF Moves
      <3>2. \A n \in RowsOf(d) : rows'[n] = rows[n]
        BY <1>4 DEF RowsOf
      <3>3. /\ \A m, n \in RowsOf(d) : m = n
            /\ pc[d] \notin {"answered", "dropped"} => RowsOf(d) = {}
            /\ pc[d] = "answered" =>
                  IF ev[d].reply = "error" THEN RowsOf(d) = {}
                  ELSE \E n \in RowsOf(d) : rows[n].verdict = ev[d].reply
        BY DEF AnswerIsAudited
      <3> HIDE DEF IInv
      <3> QED
        BY <3>1, <3>2, <3>3
    <2> QED
      BY <2>3, <2>4
  <1>12. CooldownRespected'
    <2> SUFFICES ASSUME NEW j \in DOMAIN rows', rows'[j].verdict = "flag",
                        NEW i \in 1..ev'[rows'[j].eval].base,
                        rows'[i].session = rows'[j].session,
                        rows'[i].delivered \cap rows'[j].delivered # {}
                 PROVE  rows'[i].at + Window < rows'[j].at
      BY DEF CooldownRespected
    <2>1. CASE j \in DOMAIN rows
      <3>1. /\ rows'[j] = rows[j] /\ rows[j].eval \in Evals /\ pc[rows[j].eval] # "idle"
            /\ ev'[rows'[j].eval] = ev[rows[j].eval]
        BY <1>1, <1>4, <1>6, <2>1 DEF Moves, RowsAreOver
      <3>2. i \in 1..ev[rows[j].eval].base /\ rows'[i] = rows[i]
        BY <1>4, <1>7, <3>1
      <3> QED
        BY <2>1, <3>1, <3>2 DEF CooldownRespected
    <2>2. CASE j = last
      <3>1. rows'[j] = Row(e) /\ i \in 1..ev[e].base
        BY <1>1, <1>3, <1>4, <2>2 DEF Moves
      <3>2. rows'[i] = rows[i]
        BY <1>4, <1>7, <3>1
      <3> QED
        BY <1>2, <1>3, <3>1, <3>2 DEF Good, FlagIsFresh
    <2> QED
      BY <1>4, <2>1, <2>2
  <1>13. SuppressionJustified'
    <2> SUFFICES ASSUME NEW j \in DOMAIN rows', NEW k \in rows'[j].fired \ rows'[j].delivered
                 PROVE  \E i \in 1..(j - 1) :
                           /\ rows'[i].session = rows'[j].session
                           /\ k \in rows'[i].delivered
                           /\ rows'[i].at + Window >= ev'[rows'[j].eval].readAt
      BY DEF SuppressionJustified
    <2>1. CASE j \in DOMAIN rows
      <3>1. /\ rows'[j] = rows[j] /\ ev'[rows'[j].eval] = ev[rows[j].eval]
        BY <1>1, <1>4, <1>6, <2>1 DEF Moves
      <3>2. PICK i \in 1..(j - 1) : /\ rows[i].session = rows[j].session
                                    /\ k \in rows[i].delivered
                                    /\ rows[i].at + Window >= ev[rows[j].eval].readAt
        BY <2>1, <3>1 DEF SuppressionJustified
      <3>3. rows'[i] = rows[i]
        BY <1>4, <2>1, <3>2
      <3> QED
        BY <3>1, <3>2, <3>3
    <2>2. CASE j = last
      <3>1. rows'[j] = Row(e) /\ ev'[rows'[j].eval].readAt = ev[e].readAt
        BY <1>1, <1>3, <1>4, <2>2 DEF Moves
      <3>2. PICK i \in DOMAIN rows : /\ rows[i].session = ev[e].session
                                     /\ k \in rows[i].delivered
                                     /\ rows[i].at + Window >= ev[e].readAt
        BY <1>2, <1>3, <3>1 DEF Good, HeldBackWithCause
      <3>3. i \in 1..(j - 1) /\ rows'[i] = rows[i]
        BY <1>4, <2>2
      <3> QED
        BY <1>3, <3>1, <3>2, <3>3
    <2> QED
      BY <1>4, <2>1, <2>2
  <1>14. EnforcesLiveConstraints'
    <2> SUFFICES ASSUME NEW n \in DOMAIN rows', NEW m \in Memories,
                        rows'[n].fired \cap {Violation(m), Conflict(m)} # {}
                 PROVE  store[m] # "absent" /\ (store[m] = "retired" => retired[m] >= rows'[n].eval)
      BY DEF EnforcesLiveConstraints
    <2>1. CASE n \in DOMAIN rows
      BY <1>4, <2>1 DEF EnforcesLiveConstraints
    <2>2. CASE n = last
      BY <1>2, <1>3, <1>4, <2>2 DEF Good, Enforced, LiveFor
    <2> QED
      BY <1>4, <2>1, <2>2
  <1> QED
    BY <1>5, <1>8, <1>9, <1>10, <1>11, <1>12, <1>13, <1>14
-----------------------------------------------------------------------------
(* Locals an evaluation may conclude with, or ask the cooldown with.        *)
Ready(e, l) ==
    /\ l \in Evaluations /\ l.base <= Len(rows) /\ l.readAt <= clock
    /\ \A m \in l.recalled \cup Enforced(l) : LiveFor(e, m)
    /\ l.metered <= l.spent
    /\ ~l.failOpen => l.spent <= l.metered + IF l.offered THEN 1 ELSE 0

(* Evaluation e is at an await, or begins.                                  *)
Active(e) == e <= started' /\ pc[e] \in {"idle"} \cup Suspended

(* A verdict that respects the cooldown and explains what it holds back.    *)
LEMMA Concludes ==
    ASSUME IInv, Quiet, NEW e \in Evals, Active(e), NEW l, Ready(e, l), Conclude(e, l),
           l.verdict = "flag" =>
              \A i \in 1..l.base :
                 (rows[i].session = l.session /\ rows[i].delivered \cap l.delivered # {})
                    => rows[i].at + Window < clock,
           HeldBackWithCause(l)
    PROVE  IInv'
  <1> DEFINE last == [l EXCEPT !.at = clock]
  <1>1. l \in Evaluations /\ clock \in 0..MaxTime
    BY DEF Ready, IInv, TypeOK
  <1>2. /\ last \in Evaluations /\ last.at = clock /\ last.base = l.base
        /\ last.readAt = l.readAt /\ last.session = l.session /\ last.fired = l.fired
        /\ last.delivered = l.delivered /\ last.verdict = l.verdict
        /\ last.recalled = l.recalled /\ last.metered = l.metered /\ last.spent = l.spent
        /\ last.failOpen = l.failOpen /\ last.offered = l.offered
    BY <1>1 DEF Evaluations
  <1>3. Goto(e, "record", last) /\ "record" \in {"answered", "dropped"} \cup Suspended
    BY DEF Conclude, Suspended
  <1> HIDE DEF last
  <1>4. Good(e, "record", last)
    BY <1>2 DEF Ready, Good, Undecided, BilledSoFar, Enforced, LiveFor, FlagIsFresh,
                HeldBackWithCause
  <1>5. last.base <= Len(rows)
    BY <1>2 DEF Ready
  <1> QED
    BY <1>2, <1>3, <1>4, <1>5, EvaluationMoves DEF Active

(* Silence delivers nothing and holds nothing back.                         *)
LEMMA Silences ==
    ASSUME IInv, Quiet, NEW e \in Evals, Active(e), NEW l, Ready(e, l), Silence(e, l)
    PROVE  IInv'
  <1> DEFINE quiet == [l EXCEPT !.verdict = "silence", !.fired = {}]
  <1>1. l \in Evaluations
    BY DEF Ready
  <1>2. /\ quiet \in Evaluations /\ quiet.at = l.at /\ quiet.base = l.base
        /\ quiet.readAt = l.readAt /\ quiet.session = l.session /\ quiet.fired = {}
        /\ quiet.verdict = "silence" /\ quiet.recalled = l.recalled
        /\ quiet.metered = l.metered /\ quiet.spent = l.spent
        /\ quiet.failOpen = l.failOpen /\ quiet.offered = l.offered
    BY <1>1 DEF Evaluations, Verdicts
  <1>3. Conclude(e, quiet)
    BY DEF Silence
  <1> HIDE DEF quiet
  <1>4. Ready(e, quiet) /\ HeldBackWithCause(quiet)
    BY <1>2 DEF Ready, Enforced, LiveFor, HeldBackWithCause
  <1> QED
    BY <1>2, <1>3, <1>4, Concludes

(* An evaluation that is suspended has its locals.                          *)
LEMMA SuspendedHasLocals ==
    ASSUME IInv, NEW e \in Evals, pc[e] \in Suspended
    PROVE  /\ ev[e] \in Evaluations /\ ev[e].base <= Len(rows) /\ Good(e, pc[e], ev[e])
           /\ e <= started /\ ev[e].spent \in Nat /\ ev[e].metered \in Nat
  <1>1. ev[e] \in Evaluations /\ ev[e].base <= Len(rows) /\ Good(e, pc[e], ev[e]) /\ e <= started
    BY DEF IInv, TypeOK, SuspendedIsGood, BegunInOrder, Suspended
  <1> QED
    BY <1>1 DEF Evaluations, Units

(* A failure before the verdict is a silence that carries no usage.         *)
LEMMA FailsOpen ==
    ASSUME IInv, Quiet, NEW e \in Evals, pc[e] \in Suspended, pc[e] # "record", FailOpen(e, 0)
    PROVE  IInv'
  <1> DEFINE failed == [ev[e] EXCEPT !.failOpen = TRUE, !.fired = {}, !.metered = 0]
  <1>0. ev[e] \in Evaluations
    BY SuspendedHasLocals
  <1>1. /\ ev[e].base <= Len(rows) /\ Good(e, pc[e], ev[e])
        /\ e <= started /\ ev[e].spent \in Nat
    BY SuspendedHasLocals
  <1>2. /\ failed \in Evaluations /\ failed.base = ev[e].base /\ failed.readAt = ev[e].readAt
        /\ failed.fired = {} /\ failed.verdict = ev[e].verdict
        /\ failed.recalled = ev[e].recalled /\ failed.metered = 0
        /\ failed.spent = ev[e].spent /\ failed.failOpen
    <2>1. 0 \in Units
      BY DEF Units
    <2> QED
      BY <1>0, <2>1 DEF Evaluations
  <1>3. Conclude(e, failed)
    BY DEF FailOpen
  <1> HIDE DEF failed
  <1>4. Ready(e, failed) /\ HeldBackWithCause(failed) /\ failed.verdict # "flag"
    BY <1>1, <1>2 DEF Ready, Good, Undecided, Enforced, LiveFor, HeldBackWithCause
  <1>5. Active(e)
    BY <1>1 DEF Active, Quiet, IInv, TypeOK, Evals
  <1> QED
    BY <1>3, <1>4, <1>5, Concludes

(* What fired goes to the cooldown; nothing fired is silence.               *)
LEMMA Delivers ==
    ASSUME IInv, Quiet, NEW e \in Evals, Active(e), NEW l, Ready(e, l), DeliverFlags(e, l),
           l.verdict = "silence", l.delivered = {}, ~l.failOpen
    PROVE  IInv'
  <1>1. CASE Silence(e, l)
    BY <1>1, Silences
  <1>2. CASE AskCooldown(e, l)
    <2> DEFINE asked == [l EXCEPT !.readAt = clock]
    <2>1. l \in Evaluations /\ clock \in 0..MaxTime
      BY DEF Ready, IInv, TypeOK
    <2>2. /\ asked \in Evaluations /\ asked.base = l.base /\ asked.readAt = clock
          /\ asked.fired = l.fired /\ asked.delivered = {} /\ asked.verdict = "silence"
          /\ asked.recalled = l.recalled /\ asked.metered = l.metered
          /\ asked.spent = l.spent /\ ~asked.failOpen /\ asked.offered = l.offered
      BY <2>1 DEF Evaluations
    <2>3. Goto(e, "cooldown", asked) /\ "cooldown" \in {"answered", "dropped"} \cup Suspended
      BY <1>2 DEF AskCooldown, Suspended
    <2> HIDE DEF asked
    <2>4. Good(e, "cooldown", asked) /\ asked.base <= Len(rows)
      BY <2>1, <2>2 DEF Ready, Good, Undecided, BilledSoFar, Enforced, LiveFor
    <2> QED
      BY <2>2, <2>3, <2>4, EvaluationMoves DEF Active
  <1> QED
    BY <1>1, <1>2 DEF DeliverFlags

(* The clock, the admissions and the retirements leave what is good good.   *)
LEMMA EnvironmentStep ==
    ASSUME IInv, Tick \/ \E m \in Memories : Admit(m) \/ Retire(m)
    PROVE  IInv'
  <1> USE DEF IInv
  <1>1. /\ UNCHANGED <<started, pc, ev, rows, captures, audited>> /\ clock <= clock'
        /\ started \in 0..MaxEvals
    BY DEF Tick, Admit, Retire, TypeOK
  <1>2. TypeOK'
    <2>1. CASE Tick
      BY <2>1, CheckpointAssumption DEF Tick, TypeOK
    <2>2. ASSUME NEW n \in Memories, Admit(n) PROVE TypeOK'
      BY <2>2 DEF Admit, TypeOK
    <2>3. ASSUME NEW n \in Memories, Retire(n) PROVE TypeOK'
      BY <2>3 DEF Retire, TypeOK
    <2> QED
      BY <2>1, <2>2, <2>3
  <1>3. \A d \in Evals, m \in Memories : d <= started /\ LiveFor(d, m) => LiveFor(d, m)'
    <2> SUFFICES ASSUME NEW d \in Evals, NEW m \in Memories, d <= started, LiveFor(d, m)
                 PROVE  LiveFor(d, m)'
      OBVIOUS
    <2>1. CASE Tick
      BY <2>1 DEF Tick, LiveFor
    <2>2. ASSUME NEW n \in Memories, Admit(n) PROVE LiveFor(d, m)'
      BY <2>2 DEF Admit, LiveFor, TypeOK
    <2>3. ASSUME NEW n \in Memories, Retire(n) PROVE LiveFor(d, m)'
      BY <2>3 DEF Retire, LiveFor, TypeOK, Evals
    <2> QED
      BY <2>1, <2>2, <2>3
  <1>4. SuspendedIsGood'
    <2> SUFFICES ASSUME NEW d \in Evals, pc[d] \in Suspended PROVE Good(d, pc[d], ev[d])'
      BY <1>1 DEF SuspendedIsGood
    <2>1. Good(d, pc[d], ev[d]) /\ d <= started /\ ev[d] \in Evaluations
      BY SuspendedHasLocals
    <2>2. /\ ev[d].recalled \subseteq Memories /\ ev[d].readAt \in Nat
          /\ Enforced(ev[d]) \subseteq Memories
      BY <2>1, CheckpointAssumption DEF Evaluations, Enforced
    <2>3. \A m \in ev[d].recalled \cup Enforced(ev[d]) : LiveFor(d, m)'
      BY <1>3, <2>1, <2>2 DEF Good
    <2>4. ev[d].readAt <= clock'
      BY <1>1, <1>2, <2>1, <2>2, CheckpointAssumption DEF Good, TypeOK
    <2> QED
      BY <1>1, <2>1, <2>3, <2>4 DEF Good, Undecided, BilledSoFar, Enforced, FlagIsFresh,
                                    HeldBackWithCause
  <1>5. BegunInOrder' /\ RowsAreOver' /\ AnswerIsAudited' /\ CooldownRespected'
        /\ SuppressionJustified'
    BY <1>1 DEF BegunInOrder, RowsAreOver, AnswerIsAudited, RowsOf, CooldownRespected,
                SuppressionJustified
  <1>6. EnforcesLiveConstraints'
    <2>1. \A n \in DOMAIN rows : rows[n].eval \in Evals /\ rows[n].eval <= started
      BY RowsTyped DEF RowsAreOver, BegunInOrder
    <2> QED
      BY <1>1, <1>3, <2>1 DEF EnforcesLiveConstraints, LiveFor
  <1> QED
    BY <1>2, <1>4, <1>5, <1>6
-----------------------------------------------------------------------------
(* Keys of different kinds, or of different memories, differ.               *)
LEMMA KeysApart ==
    \A m \in Memories :
        /\ \A n \in Memories : Violation(n) # Conflict(m)
        /\ \A n \in Memories : Violation(n) = Violation(m) \/ Conflict(n) = Conflict(m) => n = m
        /\ Violation(m) \notin BatchKeys \cup ContradictionKeys
        /\ Conflict(m) \notin BatchKeys \cup ContradictionKeys
  BY CheckpointAssumption DEF Violation, Conflict, ContradictionKeys

(* A step of an evaluation at an await that writes no row is quiet.         *)
LEMMA AtAnAwait ==
    ASSUME IInv, NEW e \in Evals, pc[e] \in Suspended,
           UNCHANGED <<clock, started, rows, store, retired>>,
           captures' \subseteq Evals, audited' \subseteq Evals
    PROVE  Quiet /\ Active(e)
  <1>1. e <= started /\ started \in 0..MaxEvals
    BY SuspendedHasLocals DEF IInv, TypeOK
  <1> QED
    BY <1>1, CheckpointAssumption DEF Quiet, Active

(* An evaluation past its hops may conclude with the locals it has.         *)
LEMMA PastItsHops ==
    ASSUME IInv, NEW e \in Evals, pc[e] \in Suspended \ {"embed", "load", "record"}
    PROVE  /\ Ready(e, ev[e]) /\ ev[e].verdict = "silence" /\ ev[e].delivered = {}
           /\ ~ev[e].failOpen
  <1>1. /\ ev[e] \in Evaluations /\ ev[e].base <= Len(rows) /\ Good(e, pc[e], ev[e])
        /\ ev[e].spent \in Nat /\ ev[e].metered \in Nat
    BY SuspendedHasLocals
  <1>2. /\ ev[e].metered <= ev[e].spent
        /\ ev[e].spent <= ev[e].metered + IF ev[e].offered THEN 1 ELSE 0
    <2>1. CASE pc[e] = "read"
      BY <1>1, <2>1 DEF Good, BilledSoFar
    <2>2. CASE pc[e] = "review"
      BY <1>1, <2>2 DEF Good, BilledSoFar
    <2>3. CASE pc[e] \in {"count", "drop", "capture"}
      BY <1>1, <2>3 DEF Good, BilledSoFar
    <2>4. CASE pc[e] \in {"save", "audit"}
      BY <1>1, <2>4 DEF Good, BilledSoFar
    <2>5. CASE pc[e] = "cooldown"
      BY <1>1, <2>5 DEF Good, BilledSoFar
    <2> QED
      BY <2>1, <2>2, <2>3, <2>4, <2>5 DEF Suspended
  <1> QED
    BY <1>1, <1>2 DEF Good, Ready, Undecided

(* StartBatch, StartAction and StartTurn. *)
LEMMA StartStep ==
    ASSUME IInv, NEW e \in Evals, NEW s \in Sessions,
           StartBatch(e, s) \/ StartAction(e, s) \/ StartTurn(e, s)
    PROVE  IInv'
  <1>1. e = started + 1 /\ started' = e /\ UNCHANGED Rest
    BY DEF StartBatch, StartAction, StartTurn, Begin
  <1>2. started \in 0..MaxEvals /\ e \in 0..MaxEvals /\ MaxEvals \in Nat
    BY CheckpointAssumption DEF IInv, TypeOK, Evals
  <1>3. pc[e] = "idle"
    BY <1>1, <1>2 DEF IInv, BegunInOrder
  <1>4. Quiet /\ Active(e)
    BY <1>1, <1>2, <1>3 DEF Quiet, Active, Rest, IInv, TypeOK
  <1>5. PICK b \in Boundaries : \/ Goto(e, "read", Fresh(s, b)) \/ Goto(e, "embed", Fresh(s, b))
                                \/ Silence(e, Fresh(s, b))
    BY DEF StartBatch, StartAction, StartTurn, Begin
  <1> DEFINE l == Fresh(s, b)
  <1>6. /\ l.base = Len(rows) /\ l.readAt = 0 /\ l.recalled = {} /\ l.fired = {}
        /\ l.delivered = {} /\ l.verdict = "silence" /\ ~l.failOpen
        /\ l.metered = 0 /\ l.spent = 0
    BY DEF Fresh
  <1>7. l \in Evaluations
    <2>1. Len(rows) \in Nat /\ 0 \in 0..MaxTime /\ 0 \in Units
      BY CheckpointAssumption DEF IInv, TypeOK, Units
    <2> QED
      BY <2>1 DEF Fresh, Evaluations, Verdicts
  <1>8. 0 <= clock /\ Len(rows) \in Nat
    BY DEF IInv, TypeOK
  <1> HIDE DEF l
  <1>9. Ready(e, l) /\ Good(e, "read", l) /\ Good(e, "embed", l)
    BY <1>6, <1>7, <1>8 DEF Ready, Good, Undecided, BilledSoFar, Enforced
  <1>10. l.base <= Len(rows)
    BY <1>6, <1>8
  <1>11. CASE Silence(e, l)
    BY <1>4, <1>9, <1>11, Silences
  <1>12. CASE Goto(e, "read", l)
    BY <1>4, <1>7, <1>9, <1>10, <1>12, EvaluationMoves DEF Active, Suspended
  <1>13. CASE Goto(e, "embed", l)
    BY <1>4, <1>7, <1>9, <1>10, <1>13, EvaluationMoves DEF Active, Suspended
  <1> QED
    BY <1>5, <1>11, <1>12, <1>13 DEF l

(* BatchReads fires keys that name no memory.                               *)
LEMMA BatchReadsStep ==
    ASSUME IInv, NEW e \in Evals, BatchReads(e)
    PROVE  IInv'
  <1>1. pc[e] = "read" /\ UNCHANGED Shared /\ pc[e] \in Suspended
    BY DEF BatchReads, Suspended
  <1>2. Quiet /\ Active(e)
    BY <1>1, AtAnAwait DEF Shared, IInv, TypeOK
  <1>3. Ready(e, ev[e]) /\ ev[e].verdict = "silence" /\ ev[e].delivered = {} /\ ~ev[e].failOpen
    BY <1>1, PastItsHops
  <1>4. PICK fired \in SUBSET BatchKeys : DeliverFlags(e, [ev[e] EXCEPT !.fired = fired])
    BY DEF BatchReads
  <1> DEFINE l == [ev[e] EXCEPT !.fired = fired]
  <1>5. /\ l \in Evaluations /\ l.base = ev[e].base /\ l.readAt = ev[e].readAt
        /\ l.recalled = ev[e].recalled /\ l.fired = fired /\ l.metered = ev[e].metered
        /\ l.spent = ev[e].spent /\ l.failOpen = ev[e].failOpen /\ l.offered = ev[e].offered
        /\ l.verdict = "silence" /\ l.delivered = {}
    <2>1. ev[e] \in Evaluations /\ fired \in SUBSET Keys
      BY <1>3 DEF Ready, Keys
    <2> QED
      BY <1>3, <2>1 DEF Evaluations
  <1> HIDE DEF l
  <1>6. Enforced(l) = {}
    BY <1>5, KeysApart DEF Enforced
  <1>7. Ready(e, l)
    BY <1>3, <1>5, <1>6 DEF Ready
  <1> QED
    BY <1>2, <1>3, <1>4, <1>5, <1>7, Delivers DEF l

(* TurnReads goes to the recall, to the review or to silence.               *)
LEMMA TurnReadsStep ==
    ASSUME IInv, NEW e \in Evals, TurnReads(e)
    PROVE  IInv'
  <1>1. pc[e] = "read" /\ UNCHANGED Shared /\ pc[e] \in Suspended
    BY DEF TurnReads, Suspended
  <1>2. Quiet /\ Active(e)
    BY <1>1, AtAnAwait DEF Shared, IInv, TypeOK
  <1>3. Ready(e, ev[e])
    BY <1>1, PastItsHops
  <1>4. Good(e, "read", ev[e]) /\ ev[e] \in Evaluations /\ ev[e].base <= Len(rows)
    BY <1>1, SuspendedHasLocals
  <1>5. Good(e, "embed", ev[e]) /\ Good(e, "review", ev[e])
    BY <1>4 DEF Good, Undecided, BilledSoFar
  <1>6. CASE Goto(e, "embed", ev[e])
    BY <1>2, <1>4, <1>5, <1>6, EvaluationMoves DEF Active, Suspended
  <1>7. CASE Goto(e, "review", ev[e])
    BY <1>2, <1>4, <1>5, <1>7, EvaluationMoves DEF Active, Suspended
  <1>8. CASE Silence(e, ev[e])
    BY <1>2, <1>3, <1>8, Silences
  <1> QED
    BY <1>6, <1>7, <1>8 DEF TurnReads

(* The failures that carry nothing: a read, an embedding, a load, the gate's *)
(* budget, the cooldown's read.                                             *)
LEMMA FailureStep ==
    ASSUME IInv, NEW e \in Evals,
           \/ ReadFails(e) \/ EmbedFails(e) \/ LoadFails(e)
           \/ GateTimesOut(e) \/ CooldownReadFails(e)
    PROVE  IInv'
  <1>1. /\ pc[e] \in Suspended /\ pc[e] # "record" /\ UNCHANGED Shared
        /\ FailOpen(e, 0)
    BY DEF ReadFails, EmbedFails, LoadFails, GateTimesOut, CooldownReadFails, Suspended
  <1>2. Quiet
    BY <1>1, AtAnAwait DEF Shared, IInv, TypeOK
  <1> QED
    BY <1>1, <1>2, FailsOpen

(* QueryEmbedded bills one unit.                                            *)
LEMMA QueryEmbeddedStep ==
    ASSUME IInv, NEW e \in Evals, QueryEmbedded(e)
    PROVE  IInv'
  <1>1. pc[e] = "embed" /\ UNCHANGED Shared /\ pc[e] \in Suspended
    BY DEF QueryEmbedded, Suspended
  <1>2. Quiet /\ Active(e)
    BY <1>1, AtAnAwait DEF Shared, IInv, TypeOK
  <1>3. Good(e, "embed", ev[e]) /\ ev[e] \in Evaluations /\ ev[e].base <= Len(rows)
    BY <1>1, SuspendedHasLocals
  <1> DEFINE l == [ev[e] EXCEPT !.spent = @ + 1]
  <1>4. /\ l \in Evaluations /\ l.base = ev[e].base /\ l.readAt = ev[e].readAt
        /\ l.recalled = ev[e].recalled /\ l.fired = ev[e].fired /\ l.metered = 0
        /\ l.spent = 1 /\ l.failOpen = ev[e].failOpen /\ l.offered = ev[e].offered
        /\ l.verdict = ev[e].verdict /\ l.delivered = ev[e].delivered
    <2>1. ev[e].spent = 0 /\ ev[e].metered = 0 /\ 1 \in Units /\ l = [ev[e] EXCEPT !.spent = 1]
      BY <1>3 DEF Good, BilledSoFar, Units, Evaluations
    <2> QED
      BY <1>3, <2>1 DEF Evaluations
  <1>5. Goto(e, "load", l)
    BY DEF QueryEmbedded
  <1> HIDE DEF l
  <1>6. Good(e, "load", l) /\ l.base <= Len(rows)
    BY <1>3, <1>4 DEF Good, Undecided, BilledSoFar, Enforced
  <1> QED
    BY <1>2, <1>4, <1>5, <1>6, EvaluationMoves DEF Active, Suspended

(* The gate fires a memory that is enforceable when it loads.               *)
LEMMA GateLoadsStep ==
    ASSUME IInv, NEW e \in Evals, GateLoads(e)
    PROVE  IInv'
  <1>1. pc[e] = "load" /\ UNCHANGED Shared /\ pc[e] \in Suspended
    BY DEF GateLoads, Suspended
  <1>2. Quiet /\ Active(e)
    BY <1>1, AtAnAwait DEF Shared, IInv, TypeOK
  <1>3. Good(e, "load", ev[e]) /\ ev[e] \in Evaluations /\ ev[e].base <= Len(rows)
    BY <1>1, SuspendedHasLocals
  <1>4. CASE Silence(e, [ev[e] EXCEPT !.metered = 1])
    <2> DEFINE l == [ev[e] EXCEPT !.metered = 1]
    <2>1. /\ l \in Evaluations /\ l.base = ev[e].base /\ l.readAt = ev[e].readAt
          /\ l.recalled = ev[e].recalled /\ l.fired = ev[e].fired /\ l.metered = 1
          /\ l.spent = 1
      <3>1. ev[e].spent = 1 /\ 1 \in Units
        BY <1>3 DEF Good, BilledSoFar, Units
      <3> QED
        BY <1>3, <3>1 DEF Evaluations
    <2> HIDE DEF l
    <2>2. Ready(e, l)
      BY <1>3, <2>1 DEF Ready, Good, Enforced
    <2> QED
      BY <1>2, <1>4, <2>2, Silences DEF l
  <1>5. ASSUME NEW m \in Enforceable,
               Conclude(e, [ev[e] EXCEPT !.fired = {Conflict(m)}, !.delivered = {Conflict(m)},
                                         !.verdict = "hold", !.metered = 1])
        PROVE  IInv'
    <2> DEFINE l == [ev[e] EXCEPT !.fired = {Conflict(m)}, !.delivered = {Conflict(m)},
                                  !.verdict = "hold", !.metered = 1]
    <2>1. /\ l \in Evaluations /\ l.base = ev[e].base /\ l.readAt = ev[e].readAt
          /\ l.recalled = ev[e].recalled /\ l.fired = {Conflict(m)} /\ l.metered = 1
          /\ l.delivered = {Conflict(m)} /\ l.verdict = "hold" /\ l.spent = 1
      <3>1. ev[e].spent = 1 /\ 1 \in Units /\ "hold" \in Verdicts /\ {Conflict(m)} \in SUBSET Keys
        BY <1>3 DEF Good, BilledSoFar, Units, Verdicts, Keys, Enforceable
      <3> QED
        BY <1>3, <3>1 DEF Evaluations
    <2> HIDE DEF l
    <2>2. Enforced(l) \subseteq {m}
      BY <2>1, KeysApart DEF Enforced, Enforceable
    <2>3. LiveFor(e, m)
      BY DEF LiveFor, Enforceable
    <2>4. Ready(e, l)
      BY <1>3, <2>1, <2>2, <2>3 DEF Ready, Good
    <2>5. HeldBackWithCause(l)
      BY <2>1 DEF HeldBackWithCause
    <2> QED
      BY <1>2, <1>5, <2>1, <2>4, <2>5, Concludes DEF l
  <1> QED
    BY <1>4, <1>5 DEF GateLoads

(* The turn's recall holds memories that are enforceable when it loads.     *)
LEMMA TurnLoadsStep ==
    ASSUME IInv, NEW e \in Evals, TurnLoads(e)
    PROVE  IInv'
  <1>1. pc[e] = "load" /\ UNCHANGED Shared /\ pc[e] \in Suspended
    BY DEF TurnLoads, Suspended
  <1>2. Quiet /\ Active(e)
    BY <1>1, AtAnAwait DEF Shared, IInv, TypeOK
  <1>3. Good(e, "load", ev[e]) /\ ev[e] \in Evaluations /\ ev[e].base <= Len(rows)
    BY <1>1, SuspendedHasLocals
  <1>4. PICK near \in SUBSET Enforceable :
            Goto(e, "review", [ev[e] EXCEPT !.recalled = near, !.metered = 1])
    BY DEF TurnLoads
  <1> DEFINE l == [ev[e] EXCEPT !.recalled = near, !.metered = 1]
  <1>5. /\ l \in Evaluations /\ l.base = ev[e].base /\ l.readAt = ev[e].readAt
        /\ l.recalled = near /\ l.fired = ev[e].fired /\ l.metered = 1 /\ l.spent = 1
        /\ l.failOpen = ev[e].failOpen /\ l.offered = ev[e].offered
        /\ l.verdict = ev[e].verdict /\ l.delivered = ev[e].delivered
    <2>1. ev[e].spent = 1 /\ 1 \in Units /\ near \in SUBSET Memories
      BY <1>3 DEF Good, BilledSoFar, Units, Enforceable
    <2> QED
      BY <1>3, <2>1 DEF Evaluations
  <1> HIDE DEF l
  <1>6. \A m \in near : LiveFor(e, m)
    BY DEF LiveFor, Enforceable
  <1>7. Good(e, "review", l) /\ l.base <= Len(rows)
    BY <1>3, <1>5, <1>6 DEF Good, Undecided, BilledSoFar, Enforced
  <1> QED
    BY <1>2, <1>4, <1>5, <1>7, EvaluationMoves DEF Active, Suspended, l
-----------------------------------------------------------------------------
(* ReviewReturns fires a mined contradiction and violations of what was     *)
(* recalled, and bills one unit that the evaluation carries.                *)
LEMMA ReviewReturnsStep ==
    ASSUME IInv, NEW e \in Evals, ReviewReturns(e)
    PROVE  IInv'
  <1>1. pc[e] = "review" /\ UNCHANGED Shared /\ pc[e] \in Suspended
    BY DEF ReviewReturns, Suspended
  <1>2. Quiet /\ Active(e)
    BY <1>1, AtAnAwait DEF Shared, IInv, TypeOK
  <1>3. /\ Good(e, "review", ev[e]) /\ ev[e] \in Evaluations /\ ev[e].base <= Len(rows)
        /\ ev[e].spent \in Nat
    BY <1>1, SuspendedHasLocals
  <1>4. PICK contradiction \in {{}} \cup {{k} : k \in ContradictionKeys},
             violation \in {{}} \cup {{Violation(m)} : m \in ev[e].recalled} :
            LET l == [ev[e] EXCEPT !.fired = contradiction \cup violation,
                                   !.metered = @ + 1, !.spent = @ + 1]
            IN  DeliverFlags(e, l) \/ Goto(e, "count", [l EXCEPT !.offered = TRUE])
    BY DEF ReviewReturns
  <1> DEFINE fired == contradiction \cup violation
             l == [ev[e] EXCEPT !.fired = fired, !.metered = @ + 1, !.spent = @ + 1]
             offered == [l EXCEPT !.offered = TRUE]
  <1>5. /\ ev[e].metered = ev[e].spent /\ ev[e].spent + 1 \in Units
        /\ ev[e].spent + 1 <= 2 /\ ev[e].recalled \subseteq Memories
        /\ ev[e].verdict = "silence" /\ ev[e].delivered = {} /\ ~ev[e].failOpen
    BY <1>3 DEF Good, BilledSoFar, Undecided, Units, Evaluations
  <1>6. fired \in SUBSET Keys /\ \A m \in Memories : Violation(m) \in fired => m \in ev[e].recalled
    <2>1. fired \in SUBSET Keys
      BY <1>5 DEF Keys
    <2>2. ASSUME NEW m \in Memories, Violation(m) \in fired PROVE m \in ev[e].recalled
      BY <1>5, <2>2, KeysApart
    <2> QED
      BY <2>1, <2>2
  <1>7. \A m \in Memories : Conflict(m) \notin fired
    BY <1>5, KeysApart
  <1> HIDE DEF fired
  <1>8. /\ l \in Evaluations /\ l.base = ev[e].base /\ l.readAt = ev[e].readAt
        /\ l.recalled = ev[e].recalled /\ l.fired = fired /\ l.metered = ev[e].spent + 1
        /\ l.spent = ev[e].spent + 1 /\ ~l.failOpen
        /\ l.verdict = "silence" /\ l.delivered = {}
    BY <1>3, <1>5, <1>6 DEF Evaluations
  <1> HIDE DEF l
  <1>9. /\ offered \in Evaluations /\ offered.base = l.base /\ offered.readAt = l.readAt
        /\ offered.recalled = l.recalled /\ offered.fired = l.fired
        /\ offered.metered = l.metered /\ offered.spent = l.spent /\ ~offered.failOpen
        /\ offered.verdict = "silence" /\ offered.delivered = {} /\ offered.offered
    BY <1>8 DEF Evaluations
  <1> HIDE DEF offered
  <1>10. Enforced(l) \subseteq ev[e].recalled /\ Enforced(offered) \subseteq ev[e].recalled
    BY <1>6, <1>7, <1>8, <1>9 DEF Enforced
  <1>11. \A m \in ev[e].recalled : LiveFor(e, m)
    BY <1>3 DEF Good
  <1>12. Ready(e, l)
    BY <1>3, <1>8, <1>10, <1>11 DEF Ready, Good
  <1>13. Good(e, "count", offered) /\ offered.base <= Len(rows)
    BY <1>3, <1>5, <1>8, <1>9, <1>10, <1>11 DEF Good, Undecided, BilledSoFar
  <1>14. CASE DeliverFlags(e, l)
    BY <1>2, <1>8, <1>12, <1>14, Delivers
  <1>15. CASE Goto(e, "count", offered)
    BY <1>2, <1>9, <1>13, <1>15, EvaluationMoves DEF Active, Suspended
  <1> QED
    BY <1>4, <1>14, <1>15 DEF fired, l, offered

(* ReviewFails fails open with the recall metered and what the error tells. *)
LEMMA ReviewFailsStep ==
    ASSUME IInv, NEW e \in Evals, ReviewFails(e)
    PROVE  IInv'
  <1>1. pc[e] = "review" /\ UNCHANGED Shared /\ pc[e] \in Suspended
    BY DEF ReviewFails, Suspended
  <1>2. Quiet /\ Active(e)
    BY <1>1, AtAnAwait DEF Shared, IInv, TypeOK
  <1>3. /\ Good(e, "review", ev[e]) /\ ev[e] \in Evaluations /\ ev[e].base <= Len(rows)
        /\ ev[e].spent \in Nat
    BY <1>1, SuspendedHasLocals
  <1>4. PICK billed \in 0..1 : \E told \in 0..billed :
            Conclude(e, [ev[e] EXCEPT !.failOpen = TRUE, !.fired = {},
                                      !.spent = @ + billed, !.metered = @ + told])
    BY DEF ReviewFails
  <1>5. PICK told \in 0..billed :
            Conclude(e, [ev[e] EXCEPT !.failOpen = TRUE, !.fired = {},
                                      !.spent = @ + billed, !.metered = @ + told])
    BY <1>4
  <1> DEFINE l == [ev[e] EXCEPT !.failOpen = TRUE, !.fired = {},
                                !.spent = @ + billed, !.metered = @ + told]
  <1>6. /\ ev[e].metered = ev[e].spent /\ ev[e].spent + billed \in Units
        /\ ev[e].metered + told \in Units /\ ev[e].metered + told <= ev[e].spent + billed
        /\ ev[e].verdict = "silence"
    BY <1>3 DEF Good, BilledSoFar, Undecided, Units
  <1>7. /\ l \in Evaluations /\ l.base = ev[e].base /\ l.readAt = ev[e].readAt
        /\ l.recalled = ev[e].recalled /\ l.fired = {} /\ l.metered = ev[e].metered + told
        /\ l.spent = ev[e].spent + billed /\ l.failOpen /\ l.verdict = "silence"
    BY <1>3, <1>6 DEF Evaluations
  <1> HIDE DEF l
  <1>8. Ready(e, l) /\ HeldBackWithCause(l)
    BY <1>3, <1>6, <1>7 DEF Ready, Good, Enforced, HeldBackWithCause
  <1> QED
    BY <1>2, <1>5, <1>7, <1>8, Concludes DEF l

(* CaptureCounted goes to the drop or to the embedding.                     *)
LEMMA CaptureCountedStep ==
    ASSUME IInv, NEW e \in Evals, CaptureCounted(e)
    PROVE  IInv'
  <1>1. pc[e] = "count" /\ UNCHANGED Shared /\ pc[e] \in Suspended
    BY DEF CaptureCounted, Suspended
  <1>2. Quiet /\ Active(e)
    BY <1>1, AtAnAwait DEF Shared, IInv, TypeOK
  <1>3. Good(e, "count", ev[e]) /\ ev[e] \in Evaluations /\ ev[e].base <= Len(rows)
    BY <1>1, SuspendedHasLocals
  <1> DEFINE counted == AuditedOf(ev[e].session)
             l == [ev[e] EXCEPT !.counted = counted]
  <1>4. counted \subseteq Evals
    BY DEF AuditedOf, IInv, TypeOK
  <1>5. Goto(e, "drop", l) \/ Goto(e, "capture", l)
    BY DEF CaptureCounted
  <1> HIDE DEF counted
  <1>6. /\ l \in Evaluations /\ l.base = ev[e].base /\ l.readAt = ev[e].readAt
        /\ l.recalled = ev[e].recalled /\ l.fired = ev[e].fired /\ l.metered = ev[e].metered
        /\ l.spent = ev[e].spent /\ l.failOpen = ev[e].failOpen /\ l.offered = ev[e].offered
        /\ l.verdict = ev[e].verdict /\ l.delivered = ev[e].delivered
    BY <1>3, <1>4 DEF Evaluations
  <1> HIDE DEF l
  <1>7. Good(e, "drop", l) /\ Good(e, "capture", l) /\ l.base <= Len(rows)
    BY <1>3, <1>6 DEF Good, Undecided, BilledSoFar, Enforced
  <1>8. CASE Goto(e, "drop", l)
    BY <1>2, <1>6, <1>7, <1>8, EvaluationMoves DEF Active, Suspended
  <1>9. CASE Goto(e, "capture", l)
    BY <1>2, <1>6, <1>7, <1>9, EvaluationMoves DEF Active, Suspended
  <1> QED
    BY <1>5, <1>8, <1>9

(* CaptureEnds and CaptureAudited go on to the turn's flags.                *)
LEMMA CaptureOverStep ==
    ASSUME IInv, NEW e \in Evals, CaptureEnds(e) \/ CaptureAudited(e)
    PROVE  IInv'
  <1>1. /\ pc[e] \in Suspended \ {"embed", "load", "record"}
        /\ UNCHANGED <<clock, started, rows, store, retired>>
        /\ DeliverFlags(e, ev[e])
    BY DEF CaptureEnds, CaptureAudited, Shared, Suspended
  <1>2. captures' \subseteq Evals /\ audited' \subseteq Evals
    BY DEF CaptureEnds, CaptureAudited, Shared, IInv, TypeOK
  <1>3. Quiet /\ Active(e)
    BY <1>1, <1>2, AtAnAwait
  <1> QED
    BY <1>1, <1>3, PastItsHops, Delivers

(* CaptureEmbedded bills a unit the evaluation does not carry.              *)
LEMMA CaptureEmbeddedStep ==
    ASSUME IInv, NEW e \in Evals, CaptureEmbedded(e)
    PROVE  IInv'
  <1>1. pc[e] = "capture" /\ UNCHANGED Shared /\ pc[e] \in Suspended
    BY DEF CaptureEmbedded, Suspended
  <1>2. Quiet /\ Active(e)
    BY <1>1, AtAnAwait DEF Shared, IInv, TypeOK
  <1>3. /\ Good(e, "capture", ev[e]) /\ ev[e] \in Evaluations /\ ev[e].base <= Len(rows)
        /\ ev[e].spent \in Nat
    BY <1>1, SuspendedHasLocals
  <1> DEFINE l == [ev[e] EXCEPT !.spent = @ + 1]
  <1>4. /\ ev[e].spent + 1 \in Units /\ ev[e].metered = ev[e].spent /\ ev[e].spent <= 2
        /\ ev[e].offered
    BY <1>3 DEF Good, BilledSoFar, Units
  <1>5. /\ l \in Evaluations /\ l.base = ev[e].base /\ l.readAt = ev[e].readAt
        /\ l.recalled = ev[e].recalled /\ l.fired = ev[e].fired /\ l.metered = ev[e].metered
        /\ l.spent = ev[e].spent + 1 /\ l.failOpen = ev[e].failOpen
        /\ l.offered = ev[e].offered
        /\ l.verdict = ev[e].verdict /\ l.delivered = ev[e].delivered
    BY <1>3, <1>4 DEF Evaluations
  <1>6. Goto(e, "save", l)
    BY DEF CaptureEmbedded
  <1> HIDE DEF l
  <1>7. Good(e, "save", l) /\ l.base <= Len(rows)
    BY <1>3, <1>4, <1>5 DEF Good, Undecided, BilledSoFar, Enforced
  <1> QED
    BY <1>2, <1>5, <1>6, <1>7, EvaluationMoves DEF Active, Suspended

(* CaptureSaved stores the memory and goes on to its audit row.             *)
LEMMA CaptureSavedStep ==
    ASSUME IInv, NEW e \in Evals, CaptureSaved(e)
    PROVE  IInv'
  <1>1. pc[e] = "save" /\ pc[e] \in Suspended /\ Goto(e, "audit", ev[e])
    BY DEF CaptureSaved, Suspended
  <1>2. Quiet /\ Active(e)
    BY <1>1, AtAnAwait DEF CaptureSaved, IInv, TypeOK
  <1>3. Good(e, "save", ev[e]) /\ ev[e] \in Evaluations /\ ev[e].base <= Len(rows)
    BY <1>1, SuspendedHasLocals
  <1>4. Good(e, "audit", ev[e])
    BY <1>3 DEF Good, Undecided, BilledSoFar
  <1> QED
    BY <1>1, <1>2, <1>3, <1>4, EvaluationMoves DEF Active, Suspended

(* CooldownReads delivers what no row delivered in the window it took.      *)
LEMMA CooldownReadsStep ==
    ASSUME IInv, NEW e \in Evals, CooldownReads(e)
    PROVE  IInv'
  <1>1. pc[e] = "cooldown" /\ UNCHANGED Shared /\ pc[e] \in Suspended
    BY DEF CooldownReads, Suspended
  <1>2. Quiet /\ Active(e)
    BY <1>1, AtAnAwait DEF Shared, IInv, TypeOK
  <1>3. Ready(e, ev[e]) /\ ~ev[e].failOpen
    BY <1>1, PastItsHops
  <1> DEFINE remaining == ev[e].fired \ DeliveredSince(ev[e].session, ev[e].readAt)
             verdict == IF remaining = {} THEN "silence" ELSE "flag"
             l == [ev[e] EXCEPT !.delivered = remaining,
                                !.suppressed = (remaining = {}),
                                !.verdict = verdict]
  <1>4. Conclude(e, l)
    BY DEF CooldownReads
  <1>5. /\ \A i \in DOMAIN rows :
              (rows[i].session = ev[e].session /\ rows[i].delivered \cap remaining # {})
                  => ~(rows[i].at + Window >= ev[e].readAt)
        /\ \A k \in ev[e].fired \ remaining :
              \E i \in DOMAIN rows : /\ rows[i].session = ev[e].session
                                     /\ k \in rows[i].delivered
                                     /\ rows[i].at + Window >= ev[e].readAt
    BY DEF DeliveredSince
  <1>6. ev[e] \in Evaluations /\ remaining \subseteq Keys /\ verdict \in Verdicts
    BY <1>3 DEF Ready, Evaluations, Verdicts
  <1> HIDE DEF remaining, verdict
  <1>7. /\ l \in Evaluations /\ l.base = ev[e].base /\ l.readAt = ev[e].readAt
        /\ l.session = ev[e].session /\ l.recalled = ev[e].recalled
        /\ l.fired = ev[e].fired /\ l.metered = ev[e].metered
        /\ l.spent = ev[e].spent /\ l.failOpen = ev[e].failOpen /\ l.offered = ev[e].offered
        /\ l.delivered = remaining
    BY <1>6 DEF Evaluations
  <1> HIDE DEF l
  <1>8. Ready(e, l) /\ HeldBackWithCause(l)
    BY <1>3, <1>5, <1>7 DEF Ready, Enforced, HeldBackWithCause
  <1>9. ASSUME NEW i \in 1..l.base, rows[i].session = l.session,
               rows[i].delivered \cap l.delivered # {}
        PROVE  rows[i].at + Window < clock
    <2>1. l.base \in Nat /\ l.base <= Len(rows) /\ l.readAt \in Nat /\ l.readAt <= clock
      BY <1>7, <1>8, CheckpointAssumption DEF Ready, Evaluations
    <2>2. i \in DOMAIN rows /\ clock \in Nat
      BY <2>1 DEF IInv, TypeOK
    <2>3. rows[i].at \in Nat
      BY <2>2, RowsTyped DEF IInv
    <2>4. ~(rows[i].at + Window >= l.readAt)
      BY <1>5, <1>7, <1>9, <2>2
    <2> QED
      BY <2>1, <2>2, <2>3, <2>4, CheckpointAssumption
  <1> QED
    BY <1>2, <1>4, <1>8, <1>9, Concludes

(* What End leaves of an evaluation.                                        *)
LEMMA Ends ==
    ASSUME IInv, NEW e \in Evals, pc[e] \in Suspended, NEW how,
           NEW reply \in {"none", "error"} \cup Verdicts, End(e, how, reply)
    PROVE  \E l \in Evaluations :
              /\ Goto(e, how, l) /\ l.base = ev[e].base /\ l.session = ev[e].session
              /\ l.readAt = ev[e].readAt /\ l.reply = reply
  <1> DEFINE l == [ev[e] EXCEPT !.recalled = {}, !.fired = {}, !.delivered = {},
                                !.metered = 0, !.spent = 0, !.offered = FALSE,
                                !.at = 0, !.reply = reply]
  <1>1. ev[e] \in Evaluations /\ 0 \in Units /\ 0 \in 0..MaxTime
    BY SuspendedHasLocals, CheckpointAssumption DEF Units
  <1>2. /\ l \in Evaluations /\ l.base = ev[e].base /\ l.session = ev[e].session
        /\ l.readAt = ev[e].readAt /\ l.reply = reply
    BY <1>1 DEF Evaluations
  <1>3. Goto(e, how, l)
    BY DEF End
  <1> QED
    BY <1>2, <1>3

(* The row is written, and the evaluation answered or dropped with it.      *)
LEMMA RowWrittenStep ==
    ASSUME IInv, NEW e \in Evals, pc[e] = "record", rows' = Append(rows, Row(e)),
           UNCHANGED <<clock, started, store, retired, captures, audited>>,
           End(e, "answered", ev[e].verdict) \/ End(e, "dropped", "none")
    PROVE  IInv'
  <1>1. pc[e] \in Suspended /\ ev[e].verdict \in {"none", "error"} \cup Verdicts
    BY SuspendedHasLocals DEF Suspended, Evaluations
  <1>2. CASE End(e, "answered", ev[e].verdict)
    <2>1. PICK l \in Evaluations : /\ Goto(e, "answered", l) /\ l.base = ev[e].base
                                   /\ l.session = ev[e].session
                                   /\ l.readAt = ev[e].readAt /\ l.reply = ev[e].verdict
      BY <1>1, <1>2, Ends
    <2> QED
      BY <2>1, RowIsWritten
  <1>3. CASE End(e, "dropped", "none")
    BY <1>1, <1>3, Ends, RowIsWritten
  <1> QED
    BY <1>2, <1>3

(* The evaluation ends with no row: refused, or dropped.                    *)
LEMMA NoRowStep ==
    ASSUME IInv, NEW e \in Evals, pc[e] \in Suspended,
           UNCHANGED <<clock, started, rows, store, retired>>,
           captures' \subseteq Evals, audited' \subseteq Evals,
           End(e, "answered", "error") \/ End(e, "dropped", "none")
    PROVE  IInv'
  <1>1. Quiet /\ Active(e) /\ ev[e].base <= Len(rows)
    BY AtAnAwait, SuspendedHasLocals
  <1>2. "answered" \notin Suspended /\ "dropped" \notin Suspended
    BY DEF Suspended
  <1>3. CASE End(e, "answered", "error")
    <2>1. PICK l \in Evaluations : /\ Goto(e, "answered", l) /\ l.base = ev[e].base
                                   /\ l.reply = "error"
      BY <1>3, Ends
    <2> QED
      BY <1>1, <1>2, <2>1, EvaluationMoves DEF Active
  <1>4. CASE End(e, "dropped", "none")
    <2>1. PICK l \in Evaluations : Goto(e, "dropped", l) /\ l.base = ev[e].base
      BY <1>4, Ends
    <2> QED
      BY <1>1, <1>2, <2>1, EvaluationMoves DEF Active
  <1> QED
    BY <1>3, <1>4

(* Dropped: the statement in flight reached the database or not.            *)
LEMMA DroppedStep ==
    ASSUME IInv, NEW e \in Evals, Dropped(e)
    PROVE  IInv'
  <1>1. /\ pc[e] \in Suspended /\ End(e, "dropped", "none")
        /\ UNCHANGED <<clock, started, store, retired>>
    BY DEF Dropped
  <1>2. captures \subseteq Evals /\ audited \subseteq Evals
    BY DEF IInv, TypeOK
  <1>3. CASE pc[e] = "record" /\ rows' = Append(rows, Row(e)) /\ UNCHANGED <<captures, audited>>
    BY <1>1, <1>3, RowWrittenStep
  <1>4. CASE rows' = rows /\ captures' \subseteq Evals /\ audited' \subseteq Evals
    BY <1>1, <1>4, NoRowStep
  <1> QED
    BY <1>2, <1>3, <1>4 DEF Dropped
-----------------------------------------------------------------------------
(* One evaluation's step keeps the invariant, whatever the step.            *)
LEMMA ProceedStep ==
    ASSUME IInv, NEW e \in Evals, Proceed(e)
    PROVE  IInv'
  <1>1. CASE RowWritten(e)
    BY <1>1, RowWrittenStep DEF RowWritten
  <1>2. CASE RowRefused(e)
    <2>1. pc[e] \in Suspended /\ captures' \subseteq Evals /\ audited' \subseteq Evals
      BY <1>2 DEF RowRefused, Suspended, Shared, IInv, TypeOK
    <2> QED
      BY <1>2, <2>1, NoRowStep DEF RowRefused, Shared
  <1> QED
    BY <1>1, <1>2, BatchReadsStep, TurnReadsStep, FailureStep, QueryEmbeddedStep,
       GateLoadsStep, TurnLoadsStep, ReviewReturnsStep, ReviewFailsStep,
       CaptureCountedStep, CaptureOverStep, CaptureEmbeddedStep, CaptureSavedStep,
       CooldownReadsStep DEF Proceed

(* At the start nothing has begun and no table has a row.                   *)
LEMMA InitIInv == Init => IInv
  <1> SUFFICES ASSUME Init PROVE IInv
    OBVIOUS
  <1>1. \A e \in Evals : pc[e] = "idle" /\ ev[e] = NoEvaluation
    BY DEF Init
  <1>2. "idle" \notin Suspended /\ rows = <<>> /\ DOMAIN rows = {}
    BY DEF Init, Suspended
  <1>3. TypeOK
    BY <1>1, CheckpointAssumption DEF Init, TypeOK
  <1>4. SuspendedIsGood /\ BegunInOrder /\ RowsAreOver /\ AnswerIsAudited
    BY <1>1, <1>2 DEF SuspendedIsGood, BegunInOrder, RowsAreOver, AnswerIsAudited, RowsOf
  <1>5. CooldownRespected /\ SuppressionJustified /\ EnforcesLiveConstraints
    BY <1>2 DEF CooldownRespected, SuppressionJustified, EnforcesLiveConstraints
  <1> QED
    BY <1>3, <1>4, <1>5 DEF IInv

(* Every step keeps the invariant.                                          *)
LEMMA NextIInv == IInv /\ [Next]_vars => IInv'
  <1> SUFFICES ASSUME IInv, [Next]_vars PROVE IInv'
    OBVIOUS
  <1>1. ASSUME NEW e \in Evals, Start(e) PROVE IInv'
    BY <1>1, StartStep DEF Start
  <1>2. CASE UNCHANGED vars
    BY <1>2 DEF vars, IInv, TypeOK, SuspendedIsGood, Good, Undecided, BilledSoFar, LiveFor,
                Enforced, FlagIsFresh, HeldBackWithCause, BegunInOrder, RowsAreOver,
                AnswerIsAudited, RowsOf, CooldownRespected, SuppressionJustified,
                EnforcesLiveConstraints
  <1> QED
    BY <1>1, <1>2, ProceedStep, DroppedStep, EnvironmentStep DEF Next

(* The inductive invariant holds in every reachable state, for any number   *)
(* of overlapping evaluations.                                              *)
THEOREM Inductive == Spec => []IInv
  <1> QED
    BY InitIInv, NextIInv, PTL DEF Spec

(* The tables, the clock and the locals of the evaluations have their types. *)
THEOREM TypeCorrect == Spec => []TypeOK
  <1>1. IInv => TypeOK
    BY DEF IInv
  <1> QED
    BY <1>1, Inductive, PTL

(* Every answer is what the audit trail says (record()).                    *)
THEOREM AnswersAreAudited == Spec => []AnswerIsAudited
  <1>1. IInv => AnswerIsAudited
    BY DEF IInv
  <1> QED
    BY <1>1, Inductive, PTL

(* Evaluations that do not overlap respect the cooldown (unsuppressed).     *)
THEOREM CooldownHolds == Spec => []CooldownRespected
  <1>1. IInv => CooldownRespected
    BY DEF IInv
  <1> QED
    BY <1>1, Inductive, PTL

(* A key is held back only by a delivery the window reached, so suppression *)
(* never feeds itself (delivered_keys).                                     *)
THEOREM SuppressionHasACause == Spec => []SuppressionJustified
  <1>1. IInv => SuppressionJustified
    BY DEF IInv
  <1> QED
    BY <1>1, Inductive, PTL

(* No evaluation enforces a memory retired before it began (gate).          *)
THEOREM OnlyLiveIsEnforced == Spec => []EnforcesLiveConstraints
  <1>1. IInv => EnforcesLiveConstraints
    BY DEF IInv
  <1> QED
    BY <1>1, Inductive, PTL

(* An evaluation that concludes carries what its hops were billed (020).    *)
THEOREM SpendIsCarried == Spec => []ConclusionCarriesSpend
  <1>1. IInv => ConclusionCarriesSpend
    BY DEF IInv, SuspendedIsGood, Good, BilledSoFar, ConclusionCarriesSpend, Suspended
  <1> QED
    BY <1>1, Inductive, PTL

(* What a hook is answered is what the trail holds and what was spent.      *)
THEOREM AnswersAreHonest == Spec => []AnswerIsHonest
  <1>1. AnswerIsAudited /\ ConclusionCarriesSpend => AnswerIsHonest
    BY DEF AnswerIsHonest
  <1> QED
    BY <1>1, AnswersAreAudited, SpendIsCarried, PTL

(* The cooldown silences what was delivered lately and only that.           *)
THEOREM CooldownStaysFair == Spec => []CooldownIsFair
  <1>1. CooldownRespected /\ SuppressionJustified => CooldownIsFair
    BY DEF CooldownIsFair
  <1> QED
    BY <1>1, CooldownHolds, SuppressionHasACause, PTL
-----------------------------------------------------------------------------
(* The capture cap.  What an evaluation counted was audited then, so the    *)
(* counts of a session form a chain; the last of its captures to count      *)
(* counted every other, or they missed each other.                          *)
Before == {"idle", "read", "embed", "load", "review", "count"}
Capturing == {"capture", "save"}
Begun(e) == pc[e] # "idle"

CountedIsAudited(e) == ev[e].counted \subseteq AuditedOf(ev[e].session) /\ e \notin ev[e].counted

CountsNest(d, e) ==
    ev[d].session = ev[e].session =>
        ev[d].counted \subseteq ev[e].counted \/ ev[e].counted \subseteq ev[d].counted

UnderTheCap(e) ==
    (e \in captures \/ pc[e] \in Capturing) => Cardinality(ev[e].counted) < CaptureCap

CaptureInv ==
    /\ \A e \in captures \cup audited : Begun(e) /\ pc[e] \notin Before
    /\ \A e \in Evals : Begun(e) => CountedIsAudited(e)
    /\ \A d, e \in Evals : Begun(d) /\ Begun(e) => CountsNest(d, e)
    /\ \A e \in Evals : UnderTheCap(e)

(* How a step of e looks to the cap: l are its new locals.                  *)
Looks(l, e) ==
    /\ {"session", "counted"} \subseteq DOMAIN l
    /\ l.session = ev[e].session /\ l.counted = ev[e].counted

(* e goes on, without having counted.                                       *)
GoesOn(e) ==
    /\ Begun(e)
    /\ \E next \in Suspended \cup {"answered", "dropped"} : \E l :
        /\ Goto(e, next, l) /\ Looks(l, e)
        /\ next \in Before => pc[e] \in Before
        /\ next \in Capturing => pc[e] = "capture"
    /\ \/ audited' = audited
       \/ pc[e] = "audit" /\ audited' = audited \cup {e}
    /\ \/ captures' = captures
       \/ pc[e] = "save" /\ captures' = captures \cup {e}

Starts(e) ==
    /\ ~Begun(e)
    /\ \E next \in {"read", "embed", "record"} : \E l :
        Goto(e, next, l) /\ l.counted = {}
    /\ UNCHANGED <<captures, audited>>

(* An evaluation that began looks like itself.                              *)
LEMMA SuspendedLooks ==
    ASSUME IInv, NEW e \in Evals, Begun(e)
    PROVE  Looks(ev[e], e)
  <1>1. ev[e] \in Evaluations
    BY DEF IInv, TypeOK, Begun
  <1> QED
    BY <1>1 DEF Looks, Evaluations

(* Concluding leaves session and count alone, ...                           *)
LEMMA ConcludeLooks ==
    ASSUME NEW e, NEW l, Looks(l, e), Conclude(e, l)
    PROVE  \E m : Goto(e, "record", m) /\ Looks(m, e)
  <1> WITNESS [l EXCEPT !.at = clock]
  <1> QED
    BY DEF Conclude, Looks

(* ... and so do silence, ...                                               *)
LEMMA SilenceLooks ==
    ASSUME NEW e, NEW l, Looks(l, e), Silence(e, l)
    PROVE  \E m : Goto(e, "record", m) /\ Looks(m, e)
  <1> DEFINE q == [l EXCEPT !.verdict = "silence", !.fired = {}]
  <1>1. Conclude(e, q)
    BY DEF Silence
  <1>2. Looks(q, e)
    BY DEF Looks
  <1> QED
    BY <1>1, <1>2, ConcludeLooks

(* ... failing open ...                                                     *)
LEMMA FailLooks ==
    ASSUME NEW e, NEW metered, Looks(ev[e], e), FailOpen(e, metered)
    PROVE  \E m : Goto(e, "record", m) /\ Looks(m, e)
  <1> DEFINE q == [ev[e] EXCEPT !.failOpen = TRUE, !.fired = {}, !.metered = metered]
  <1>1. Conclude(e, q)
    BY DEF FailOpen
  <1>2. Looks(q, e)
    BY DEF Looks
  <1> QED
    BY <1>1, <1>2, ConcludeLooks

(* ... and delivering flags.                                                *)
LEMMA DeliverLooks ==
    ASSUME NEW e, NEW l, Looks(l, e), DeliverFlags(e, l)
    PROVE  \E next \in {"record", "cooldown"} : \E m : Goto(e, next, m) /\ Looks(m, e)
  <1>1. CASE Silence(e, l)
    BY <1>1, SilenceLooks
  <1>2. CASE AskCooldown(e, l)
    <2>1. Goto(e, "cooldown", [l EXCEPT !.readAt = clock])
      BY <1>2 DEF AskCooldown
    <2>2. Looks([l EXCEPT !.readAt = clock], e)
      BY DEF Looks
    <2> QED
      BY <2>1, <2>2
  <1> QED
    BY <1>1, <1>2 DEF DeliverFlags

(* A step to a harmless await leaves the cap alone.                         *)
Harmless == {"drop", "audit", "cooldown", "record", "answered", "dropped"}

(* Such a step is one of an evaluation that goes on.                        *)
LEMMA HarmlessGoesOn ==
    ASSUME NEW e, Begun(e), NEW next \in Harmless, NEW l, Goto(e, next, l), Looks(l, e),
           \/ UNCHANGED <<captures, audited>>
           \/ pc[e] = "save" /\ captures' = captures \cup {e} /\ audited' = audited
           \/ pc[e] = "audit" /\ audited' = audited \cup {e} /\ captures' = captures
    PROVE  GoesOn(e)
  <1>1. next \in Suspended \cup {"answered", "dropped"} /\ next \notin Before /\ next \notin Capturing
    BY DEF Harmless, Suspended, Before, Capturing
  <1>2. \/ audited' = audited
        \/ pc[e] = "audit" /\ audited' = audited \cup {e}
    OBVIOUS
  <1>3. \/ captures' = captures
        \/ pc[e] = "save" /\ captures' = captures \cup {e}
    OBVIOUS
  <1> QED
    BY <1>1, <1>2, <1>3 DEF GoesOn

(* A step to an await that precedes the count.                              *)
LEMMA EarlyGoesOn ==
    ASSUME NEW e, Begun(e), pc[e] \in Before, NEW next \in {"embed", "load", "review", "count"}, NEW l,
           Goto(e, next, l), Looks(l, e), UNCHANGED <<captures, audited>>
    PROVE  GoesOn(e)
  <1>1. next \in Suspended \cup {"answered", "dropped"} /\ next \notin Capturing
    BY DEF Suspended, Capturing
  <1> QED
    BY <1>1 DEF GoesOn

(* Every step of an evaluation is one of three.                             *)
LEMMA StepViews ==
    ASSUME IInv, NEW e \in Evals, Start(e) \/ Proceed(e) \/ Dropped(e)
    PROVE  Starts(e) \/ CaptureCounted(e) \/ GoesOn(e)
  <1> DEFINE Kept == UNCHANGED <<captures, audited>>
  <1>1. ASSUME Start(e) PROVE Starts(e)
    <2>1. PICK s \in Sessions, b \in Boundaries, next \in {"read", "embed", "record"} :
              /\ e = started + 1 /\ UNCHANGED Rest
              /\ \E l : Goto(e, next, l) /\ l.counted = {}
      <3>1. PICK s \in Sessions, b \in Boundaries :
                /\ e = started + 1 /\ UNCHANGED Rest
                /\ \/ Goto(e, "read", Fresh(s, b)) \/ Goto(e, "embed", Fresh(s, b))
                   \/ Silence(e, Fresh(s, b))
        BY <1>1 DEF Start, StartBatch, StartAction, StartTurn, Begin
      <3>2. Fresh(s, b).counted = {}
        BY DEF Fresh
      <3>3. CASE Silence(e, Fresh(s, b))
        <4> DEFINE l == [[Fresh(s, b) EXCEPT !.verdict = "silence", !.fired = {}] EXCEPT !.at = clock]
        <4>1. Goto(e, "record", l)
          BY <3>3 DEF Silence, Conclude
        <4>2. l.counted = {}
          BY DEF Fresh
        <4> QED
          BY <3>1, <4>1, <4>2
      <3> QED
        BY <3>1, <3>2, <3>3
    <2>2. pc[e] = "idle"
      <3>1. started \in 0..MaxEvals
        BY DEF IInv, TypeOK
      <3> QED
        BY <2>1, <3>1 DEF IInv, BegunInOrder
    <2> QED
      BY <2>1, <2>2 DEF Starts, Begun, Rest
  <1>2. ASSUME Begun(e), Kept, pc[e] # "idle",
               \/ \E next \in {"record", "cooldown"} : \E m : Goto(e, next, m) /\ Looks(m, e)
        PROVE  GoesOn(e)
    BY <1>2, HarmlessGoesOn DEF Harmless
  <1>3. ASSUME pc[e] \in Suspended PROVE Begun(e) /\ Looks(ev[e], e)
    BY <1>3, SuspendedLooks DEF Begun, Suspended
  <1>4. ASSUME ReadFails(e) \/ EmbedFails(e) \/ GateTimesOut(e) \/ LoadFails(e) \/ CooldownReadFails(e)
        PROVE  GoesOn(e)
    <2>1. pc[e] \in Suspended /\ FailOpen(e, 0) /\ Kept
      BY <1>4 DEF ReadFails, EmbedFails, GateTimesOut, LoadFails, CooldownReadFails, Suspended, Shared
    <2> QED
      BY <1>2, <1>3, <2>1, FailLooks DEF Begun
  <1>5. ASSUME BatchReads(e) PROVE GoesOn(e)
    <2>1. pc[e] \in Suspended /\ Kept
      BY <1>5 DEF BatchReads, Suspended, Shared
    <2>2. PICK fired \in SUBSET BatchKeys : DeliverFlags(e, [ev[e] EXCEPT !.fired = fired])
      BY <1>5 DEF BatchReads
    <2>3. Looks([ev[e] EXCEPT !.fired = fired], e)
      BY <1>3, <2>1 DEF Looks
    <2> QED
      BY <1>2, <1>3, <2>1, <2>2, <2>3, DeliverLooks DEF Begun
  <1>6. ASSUME TurnReads(e) PROVE GoesOn(e)
    <2>1. pc[e] = "read" /\ pc[e] \in Suspended /\ pc[e] \in Before /\ Kept
      BY <1>6 DEF TurnReads, Suspended, Shared, Before
    <2>2. Goto(e, "embed", ev[e]) \/ Goto(e, "review", ev[e]) \/ Silence(e, ev[e])
      BY <1>6 DEF TurnReads
    <2> QED
      BY <1>2, <1>3, <2>1, <2>2, EarlyGoesOn, SilenceLooks
  <1>7. ASSUME QueryEmbedded(e) \/ TurnLoads(e) PROVE GoesOn(e)
    <2>1. pc[e] \in Suspended /\ pc[e] \in Before /\ Kept
      BY <1>7 DEF QueryEmbedded, TurnLoads, Suspended, Shared, Before
    <2>2. CASE QueryEmbedded(e)
      <3>1. Looks([ev[e] EXCEPT !.spent = @ + 1], e)
        BY <1>3, <2>1 DEF Looks
      <3> QED
        BY <1>3, <2>1, <2>2, <3>1, EarlyGoesOn DEF QueryEmbedded
    <2>3. CASE TurnLoads(e)
      <3>1. PICK near \in SUBSET Enforceable :
                Goto(e, "review", [ev[e] EXCEPT !.recalled = near, !.metered = 1])
        BY <2>3 DEF TurnLoads
      <3>2. Looks([ev[e] EXCEPT !.recalled = near, !.metered = 1], e)
        BY <1>3, <2>1 DEF Looks
      <3> QED
        BY <1>3, <2>1, <3>1, <3>2, EarlyGoesOn
    <2> QED
      BY <1>7, <2>2, <2>3
  <1>8. ASSUME GateLoads(e) PROVE GoesOn(e)
    <2>1. pc[e] \in Suspended /\ Kept
      BY <1>8 DEF GateLoads, Suspended, Shared
    <2>2. CASE Silence(e, [ev[e] EXCEPT !.metered = 1])
      <3>1. Looks([ev[e] EXCEPT !.metered = 1], e)
        BY <1>3, <2>1 DEF Looks
      <3> QED
        BY <1>2, <1>3, <2>1, <2>2, <3>1, SilenceLooks DEF Begun
    <2>3. ASSUME NEW m \in Enforceable,
                 Conclude(e, [ev[e] EXCEPT !.fired = {Conflict(m)}, !.delivered = {Conflict(m)},
                                           !.verdict = "hold", !.metered = 1])
          PROVE  GoesOn(e)
      <3>1. Looks([ev[e] EXCEPT !.fired = {Conflict(m)}, !.delivered = {Conflict(m)},
                                !.verdict = "hold", !.metered = 1], e)
        BY <1>3, <2>1 DEF Looks
      <3> QED
        BY <1>2, <1>3, <2>1, <2>3, <3>1, ConcludeLooks DEF Begun
    <2> QED
      BY <1>8, <2>2, <2>3 DEF GateLoads
  <1>9. ASSUME ReviewReturns(e) PROVE GoesOn(e)
    <2> DEFINE R(fired) == [ev[e] EXCEPT !.fired = fired, !.metered = @ + 1, !.spent = @ + 1]
    <2>1. pc[e] \in Suspended /\ pc[e] \in Before /\ Kept
      BY <1>9 DEF ReviewReturns, Suspended, Shared, Before
    <2>2. PICK fired : DeliverFlags(e, R(fired)) \/ Goto(e, "count", [R(fired) EXCEPT !.offered = TRUE])
      BY <1>9 DEF ReviewReturns
    <2>3. Looks(R(fired), e) /\ Looks([R(fired) EXCEPT !.offered = TRUE], e)
      BY <1>3, <2>1 DEF Looks
    <2> HIDE DEF R
    <2> QED
      BY <1>2, <1>3, <2>1, <2>2, <2>3, DeliverLooks, EarlyGoesOn DEF Begun
  <1>10. ASSUME ReviewFails(e) PROVE GoesOn(e)
    <2>1. pc[e] \in Suspended /\ Kept
      BY <1>10 DEF ReviewFails, Suspended, Shared
    <2>2. PICK billed \in 0..1 : \E told \in 0..billed :
              Conclude(e, [ev[e] EXCEPT !.failOpen = TRUE, !.fired = {},
                                        !.spent = @ + billed, !.metered = @ + told])
      BY <1>10 DEF ReviewFails
    <2>3. PICK told \in 0..billed :
              Conclude(e, [ev[e] EXCEPT !.failOpen = TRUE, !.fired = {},
                                        !.spent = @ + billed, !.metered = @ + told])
      BY <2>2
    <2>4. Looks([ev[e] EXCEPT !.failOpen = TRUE, !.fired = {},
                              !.spent = @ + billed, !.metered = @ + told], e)
      BY <1>3, <2>1 DEF Looks
    <2> QED
      BY <1>2, <1>3, <2>1, <2>3, <2>4, ConcludeLooks DEF Begun
  <1>11. ASSUME CaptureEnds(e) \/ CaptureAudited(e) PROVE GoesOn(e)
    <2>1. pc[e] \in Suspended /\ DeliverFlags(e, ev[e])
      BY <1>11 DEF CaptureEnds, CaptureAudited, Suspended
    <2>2. \/ Kept
          \/ pc[e] = "audit" /\ audited' = audited \cup {e} /\ captures' = captures
      BY <1>11 DEF CaptureEnds, CaptureAudited, Shared
    <2>0. PICK next \in {"record", "cooldown"} : \E m : Goto(e, next, m) /\ Looks(m, e)
      BY <1>3, <2>1, DeliverLooks
    <2>3. PICK m : Goto(e, next, m) /\ Looks(m, e)
      BY <2>0
    <2> QED
      BY <1>3, <2>1, <2>2, <2>3, HarmlessGoesOn DEF Harmless
  <1>12. ASSUME CaptureEmbedded(e) PROVE GoesOn(e)
    <2>1. pc[e] = "capture" /\ pc[e] \in Suspended /\ Kept /\ "save" \in Suspended /\ "save" \notin Before
      BY <1>12 DEF CaptureEmbedded, Suspended, Shared, Before
    <2>2. Looks([ev[e] EXCEPT !.spent = @ + 1], e) /\ Begun(e)
      BY <1>3, <2>1 DEF Looks
    <2>3. Goto(e, "save", [ev[e] EXCEPT !.spent = @ + 1])
      BY <1>12 DEF CaptureEmbedded
    <2> QED
      BY <2>1, <2>2, <2>3 DEF GoesOn
  <1>13. ASSUME CaptureSaved(e) PROVE GoesOn(e)
    <2>1. pc[e] = "save" /\ pc[e] \in Suspended /\ captures' = captures \cup {e} /\ audited' = audited
      BY <1>13 DEF CaptureSaved, Suspended
    <2> QED
      BY <1>3, <1>13, <2>1, HarmlessGoesOn DEF CaptureSaved, Harmless
  <1>14. ASSUME CooldownReads(e) PROVE GoesOn(e)
    <2>1. pc[e] \in Suspended /\ Kept
      BY <1>14 DEF CooldownReads, Suspended, Shared
    <2> DEFINE remaining == ev[e].fired \ DeliveredSince(ev[e].session, ev[e].readAt)
               l == [ev[e] EXCEPT !.delivered = remaining, !.suppressed = (remaining = {}),
                                  !.verdict = IF remaining = {} THEN "silence" ELSE "flag"]
    <2>2. Conclude(e, l)
      BY <1>14 DEF CooldownReads
    <2>3. Looks(l, e)
      BY <1>3, <2>1 DEF Looks
    <2> QED
      BY <1>2, <1>3, <2>1, <2>2, <2>3, ConcludeLooks DEF Begun
  <1>15. ASSUME RowWritten(e) \/ RowRefused(e) \/ Dropped(e) PROVE GoesOn(e)
    <2>1. pc[e] \in Suspended
      BY <1>15 DEF RowWritten, RowRefused, Dropped, Suspended
    <2>0. PICK how \in {"answered", "dropped"} : \E reply : End(e, how, reply)
      BY <1>15 DEF RowWritten, RowRefused, Dropped
    <2>2. PICK reply : End(e, how, reply)
      BY <2>0
    <2>3. \/ Kept
          \/ pc[e] = "save" /\ captures' = captures \cup {e} /\ audited' = audited
          \/ pc[e] = "audit" /\ audited' = audited \cup {e} /\ captures' = captures
      BY <1>15 DEF RowWritten, RowRefused, Dropped, Shared
    <2> DEFINE l == [ev[e] EXCEPT !.recalled = {}, !.fired = {}, !.delivered = {},
                                  !.metered = 0, !.spent = 0, !.offered = FALSE,
                                  !.at = 0, !.reply = reply]
    <2>4. Goto(e, how, l)
      BY <2>2 DEF End
    <2>5. Looks(l, e)
      BY <1>3, <2>1 DEF Looks
    <2> HIDE DEF l
    <2> QED
      BY <1>3, <2>1, <2>3, <2>4, <2>5, HarmlessGoesOn DEF Harmless
  <1> QED
    BY <1>1, <1>4, <1>5, <1>6, <1>7, <1>8, <1>9, <1>10, <1>11, <1>12, <1>13, <1>14, <1>15 DEF Proceed

(* What an evaluation is to the cap is untouched by a step of another.      *)
LEMMA StartsKeeps ==
    ASSUME IInv, CaptureInv, NEW e \in Evals, Starts(e)
    PROVE  CaptureInv'
  <1>0. PICK next \in {"read", "embed", "record"} : \E l : Goto(e, next, l) /\ l.counted = {}
    BY DEF Starts
  <1>1. PICK l : Goto(e, next, l) /\ l.counted = {}
    BY <1>0
  <1>2. /\ \A d \in Evals : d # e => pc'[d] = pc[d] /\ ev'[d] = ev[d]
        /\ pc'[e] = next /\ ev'[e].counted = {}
        /\ captures' = captures /\ audited' = audited
        /\ captures \subseteq Evals /\ audited \subseteq Evals
    BY <1>1 DEF Goto, Starts, IInv, TypeOK
  <1>3. e \notin captures /\ e \notin audited
    BY DEF Starts, CaptureInv
  <1>4. \A s : AuditedOf(s)' = AuditedOf(s)
    BY <1>2, <1>3 DEF AuditedOf
  <1>5. (\A d \in captures \cup audited : Begun(d) /\ pc[d] \notin Before)'
    BY <1>2, <1>3 DEF CaptureInv, Begun
  <1>6. (\A d \in Evals : Begun(d) => CountedIsAudited(d))'
    BY <1>2, <1>4 DEF CaptureInv, Begun, CountedIsAudited
  <1>7. (\A c, d \in Evals : Begun(c) /\ Begun(d) => CountsNest(c, d))'
    BY <1>2 DEF CaptureInv, Begun, CountsNest
  <1>8. (\A d \in Evals : UnderTheCap(d))'
    BY <1>2, <1>3 DEF CaptureInv, UnderTheCap, Capturing
  <1> QED
    BY <1>5, <1>6, <1>7, <1>8 DEF CaptureInv

(* e counts all that was audited: every other count is part of it.          *)
LEMMA CountingKeeps ==
    ASSUME IInv, CaptureInv, NEW e \in Evals, CaptureCounted(e)
    PROVE  CaptureInv'
  <1> DEFINE s == ev[e].session
             next == IF Cardinality(AuditedOf(s)) >= CaptureCap THEN "drop" ELSE "capture"
  <1>1. ev[e] \in Evaluations /\ Begun(e) /\ pc[e] \in Before
    BY DEF IInv, TypeOK, CaptureCounted, Begun, Before
  <1>2. /\ \A d \in Evals : d # e => pc'[d] = pc[d] /\ ev'[d] = ev[d]
        /\ pc'[e] = next /\ ev'[e].counted = AuditedOf(s) /\ ev'[e].session = s
        /\ captures' = captures /\ audited' = audited
        /\ captures \subseteq Evals /\ audited \subseteq Evals
    BY <1>1 DEF CaptureCounted, Goto, IInv, TypeOK, Shared, Evaluations
  <1>3. e \notin audited
    BY <1>1 DEF CaptureInv
  <1>4. \A t : AuditedOf(t)' = AuditedOf(t)
    BY <1>2, <1>3 DEF AuditedOf
  <1>5. (\A d \in captures \cup audited : Begun(d) /\ pc[d] \notin Before)'
    <2>1. e \notin captures
      BY <1>1 DEF CaptureInv
    <2> QED
      BY <1>2, <1>3, <2>1 DEF CaptureInv, Begun
  <1>6. (\A d \in Evals : Begun(d) => CountedIsAudited(d))'
    <2>1. e \notin AuditedOf(s)
      BY <1>3 DEF AuditedOf
    <2> QED
      BY <1>2, <1>4, <2>1 DEF CaptureInv, Begun, CountedIsAudited
  <1>7. (\A c, d \in Evals : Begun(c) /\ Begun(d) => CountsNest(c, d))'
    <2>1. \A d \in Evals : d # e /\ Begun(d) /\ ev[d].session = s => ev[d].counted \subseteq AuditedOf(s)
      BY DEF CaptureInv, CountedIsAudited
    <2> QED
      BY <1>2, <2>1 DEF CaptureInv, Begun, CountsNest
  <1>8. (\A d \in Evals : UnderTheCap(d))'
    <2>1. e \notin captures
      BY <1>1 DEF CaptureInv
    <2>2. AuditedOf(s) \subseteq Evals
      BY <1>2 DEF AuditedOf
    <2>3. IsFiniteSet(Evals)
      BY FS_Interval, CheckpointAssumption DEF Evals
    <2>4. Cardinality(AuditedOf(s)) \in Nat
      BY <2>2, <2>3, FS_Subset, FS_CardinalityType
    <2> QED
      BY <1>2, <2>1, <2>4, CheckpointAssumption DEF CaptureInv, UnderTheCap, Capturing
  <1> QED
    BY <1>5, <1>6, <1>7, <1>8 DEF CaptureInv

(* A count once made stands; what is audited or stored later is e alone.    *)
LEMMA GoingOnKeeps ==
    ASSUME IInv, CaptureInv, NEW e \in Evals, GoesOn(e)
    PROVE  CaptureInv'
  <1>0. PICK next \in Suspended \cup {"answered", "dropped"} :
            /\ \E l : Goto(e, next, l) /\ Looks(l, e)
            /\ next \in Before => pc[e] \in Before
            /\ next \in Capturing => pc[e] = "capture"
    BY DEF GoesOn
  <1>1. PICK l : /\ Goto(e, next, l) /\ Looks(l, e)
                 /\ next \in Before => pc[e] \in Before
                 /\ next \in Capturing => pc[e] = "capture"
    BY <1>0
  <1>2. /\ \A d \in Evals : d # e => pc'[d] = pc[d]
        /\ \A d \in Evals : ev'[d].session = ev[d].session /\ ev'[d].counted = ev[d].counted
        /\ pc'[e] = next /\ next # "idle" /\ Begun(e)
        /\ captures \subseteq Evals /\ audited \subseteq Evals
    BY <1>1 DEF Goto, GoesOn, IInv, TypeOK, Looks, Suspended
  <1>3. /\ audited' = audited \/ (pc[e] = "audit" /\ audited' = audited \cup {e})
        /\ captures' = captures \/ (pc[e] = "save" /\ captures' = captures \cup {e})
    BY DEF GoesOn
  <1>4. \A d \in Evals : Begun(d)' <=> Begun(d)
    BY <1>2 DEF Begun
  <1>5. audited \subseteq audited' /\ \A s : AuditedOf(s) \subseteq AuditedOf(s)'
    BY <1>2, <1>3 DEF AuditedOf
  <1>6. (\A d \in captures \cup audited : Begun(d) /\ pc[d] \notin Before)'
    <2> SUFFICES ASSUME NEW d \in captures' \cup audited' PROVE Begun(d)' /\ pc'[d] \notin Before
      BY DEF Before
    <2>1. CASE d # e
      BY <1>2, <1>3, <2>1 DEF CaptureInv, Begun
    <2>2. CASE d = e
      <3>1. pc[e] \notin Before
        BY <1>3, <2>2 DEF CaptureInv, Before
      <3> QED
        BY <1>1, <1>2, <1>4, <2>2, <3>1
    <2> QED
      BY <2>1, <2>2
  <1>7. (\A d \in Evals : Begun(d) => CountedIsAudited(d))'
    <2> SUFFICES ASSUME NEW d \in Evals, Begun(d) PROVE CountedIsAudited(d)'
      BY <1>4
    <2>1. ev[d].counted \subseteq AuditedOf(ev[d].session) /\ d \notin ev[d].counted
      BY DEF CaptureInv, CountedIsAudited
    <2> QED
      BY <1>2, <1>3, <2>1 DEF CountedIsAudited, AuditedOf
  <1>8. (\A c, d \in Evals : Begun(c) /\ Begun(d) => CountsNest(c, d))'
    BY <1>2, <1>4 DEF CaptureInv, CountsNest
  <1>9. (\A d \in Evals : UnderTheCap(d))'
    <2> SUFFICES ASSUME NEW d \in Evals, d \in captures' \/ pc'[d] \in Capturing
                 PROVE  Cardinality(ev[d].counted) < CaptureCap
      BY <1>2 DEF UnderTheCap, Capturing
    <2>1. d \in captures \/ pc[d] \in Capturing
      BY <1>1, <1>2, <1>3 DEF Capturing
    <2> QED
      BY <2>1 DEF CaptureInv, UnderTheCap
  <1> QED
    BY <1>6, <1>7, <1>8, <1>9 DEF CaptureInv

(* Every step keeps the invariant of the cap.                               *)
LEMMA CaptureInvStep ==
    ASSUME IInv, CaptureInv, [Next]_vars
    PROVE  CaptureInv'
  <1>1. ASSUME NEW e \in Evals, Start(e) \/ Proceed(e) \/ Dropped(e)
        PROVE  CaptureInv'
    BY <1>1, StepViews, StartsKeeps, CountingKeeps, GoingOnKeeps
  <1>2. ASSUME UNCHANGED <<pc, ev, captures, audited>>
        PROVE  CaptureInv'
    BY <1>2 DEF CaptureInv, Begun, Before, Capturing, CountedIsAudited, AuditedOf, CountsNest,
                UnderTheCap
  <1> QED
    BY <1>1, <1>2 DEF Next, Tick, Admit, Retire, vars

(* So it holds in every run.                                                *)
LEMMA CaptureInvAlways == Spec => []CaptureInv
  <1>1. Init => CaptureInv
    <2> SUFFICES ASSUME Init PROVE CaptureInv
      OBVIOUS
    <2>1. captures = {} /\ audited = {} /\ \A e \in Evals : pc[e] = "idle"
      BY DEF Init
    <2> QED
      BY <2>1 DEF CaptureInv, Begun, UnderTheCap, Capturing
  <1>2. IInv /\ CaptureInv /\ [Next]_vars => CaptureInv'
    BY CaptureInvStep
  <1> QED
    BY <1>1, <1>2, Inductive, PTL DEF Spec

(* Captures that saw one another were counted by the last of them to count. *)
LEMMA OneCountedTheOthers ==
    ASSUME IInv, CaptureInv, NEW C, C \subseteq captures, NEW e \in C,
           \A d \in C : ev[d].session = ev[e].session,
           \A c, d \in C : c = d \/ c \in ev[d].counted \/ d \in ev[c].counted,
           \A d \in C : Cardinality(ev[d].counted) <= Cardinality(ev[e].counted)
    PROVE  C \ {e} \subseteq ev[e].counted
  <1> SUFFICES ASSUME NEW d \in C, d # e, d \notin ev[e].counted PROVE FALSE
    OBVIOUS
  <1>1. d \in Evals /\ e \in Evals /\ Begun(d) /\ Begun(e) /\ e \in ev[d].counted
    BY DEF IInv, TypeOK, CaptureInv
  <1>2. e \notin ev[e].counted /\ CountsNest(e, d)
    BY <1>1 DEF CaptureInv, CountedIsAudited
  <1>3. ev[e].counted \subseteq ev[d].counted
    BY <1>1, <1>2 DEF CountsNest
  <1>4. ev[d].counted \subseteq Evals /\ IsFiniteSet(Evals)
    <2>1. ev[d].counted \subseteq Evals
      BY <1>1 DEF CaptureInv, CountedIsAudited, AuditedOf, IInv, TypeOK
    <2>2. IsFiniteSet(Evals)
      BY FS_Interval, CheckpointAssumption DEF Evals
    <2> QED
      BY <2>1, <2>2
  <1>5. IsFiniteSet(ev[d].counted)
    BY <1>4, FS_Subset
  <1>6. ev[e].counted # ev[d].counted
    BY <1>1, <1>2
  <1>7. /\ Cardinality(ev[e].counted) \in Nat /\ Cardinality(ev[d].counted) \in Nat
        /\ Cardinality(ev[e].counted) < Cardinality(ev[d].counted)
    BY <1>3, <1>5, <1>6, FS_Subset, FS_CardinalityType
  <1> QED
    BY <1>7

(* Captures that all saw one another stay within the cap.                   *)
LEMMA OverrunHasACause == IInv /\ CaptureInv => CaptureOverrunHasACause
  <1> SUFFICES ASSUME IInv, CaptureInv, NEW s \in Sessions,
                      Cardinality(CapturesOf(s)) > CaptureCap,
                      \A d, e \in CapturesOf(s) :
                          d = e \/ d \in ev[e].counted \/ e \in ev[d].counted
               PROVE  FALSE
    BY DEF CaptureOverrunHasACause
  <1> DEFINE C == CapturesOf(s)
             Gap(e) == CaptureCap - Cardinality(ev[e].counted)
             Gaps == {Gap(e) : e \in C}
  <1>1. C \subseteq captures /\ C \subseteq Evals /\ \A d \in C : ev[d].session = s
    BY DEF CapturesOf, IInv, TypeOK
  <1>2. IsFiniteSet(Evals)
    BY FS_Interval, CheckpointAssumption DEF Evals
  <1>3. \A d \in C : ev[d].counted \subseteq Evals
    BY <1>1 DEF CaptureInv, CountedIsAudited, AuditedOf, IInv, TypeOK
  <1>4. \A d \in C : IsFiniteSet(ev[d].counted) /\ Cardinality(ev[d].counted) \in Nat
    BY <1>2, <1>3, FS_Subset, FS_CardinalityType
  <1>5. \A d \in C : Cardinality(ev[d].counted) < CaptureCap
    BY <1>1 DEF CaptureInv, UnderTheCap
  <1>6. PICK e \in C : \A d \in C : Cardinality(ev[d].counted) <= Cardinality(ev[e].counted)
    <2>0. C # {}
      BY FS_EmptySet, CheckpointAssumption
    <2>1. Gaps # {} /\ Gaps \subseteq Nat
      BY <1>4, <1>5, <2>0, CheckpointAssumption
    <2>2. PICK g \in Gaps : \A h \in Gaps : <<h, g>> \notin OpToRel(<, Nat)
      BY <2>1, WFMin, NatLessThanWellFounded
    <2>3. PICK e \in C : g = Gap(e)
      OBVIOUS
    <2>4. \A d \in C : Gap(d) \in Nat /\ Gap(e) \in Nat /\ ~(Gap(d) < Gap(e))
      BY <2>1, <2>2, <2>3 DEF OpToRel
    <2>5. \A d \in C : Cardinality(ev[d].counted) <= Cardinality(ev[e].counted)
      BY <1>4, <2>4, CheckpointAssumption
    <2> QED
      BY <2>5
  <1>7. C \ {e} \subseteq ev[e].counted
    <2> HIDE DEF C
    <2> QED
      BY <1>1, <1>6, OneCountedTheOthers DEF C
  <1>8. IsFiniteSet(C \ {e}) /\ Cardinality(C \ {e}) <= Cardinality(ev[e].counted)
    BY <1>4, <1>7, FS_Subset
  <1>9. IsFiniteSet(C) /\ Cardinality(C \ {e}) = Cardinality(C) - 1
    BY <1>1, <1>2, FS_Subset, FS_RemoveElement
  <1> QED
    BY <1>4, <1>5, <1>8, <1>9, FS_CardinalityType, CheckpointAssumption

(* A session exceeds its capture cap only through two captures that missed  *)
(* each other, neither audited when the other counted (store_capture).      *)
THEOREM OverrunAlwaysHasACause == Spec => []CaptureOverrunHasACause
  BY CaptureInvAlways, OverrunHasACause, Inductive, PTL
-----------------------------------------------------------------------------
(* An evaluation that is over.                                              *)
Over(p) == p \in {"answered", "dropped"}

(* The trail's view of a step that settles nothing, of an evaluation that   *)
(* ends without a row, and of one that ends with its row.                   *)
SettlesNothing ==
    rows' = rows /\ \A d \in Evals : Over(pc'[d]) <=> Over(pc[d])

EndsWithoutRow(e) ==
    /\ rows' = rows /\ ~Over(pc[e]) /\ Over(pc'[e])
    /\ \A d \in Evals \ {e} : pc'[d] = pc[d]

EndsWithRow(e) ==
    /\ rows' = Append(rows, Row(e)) /\ pc[e] = "record" /\ Over(pc'[e])
    /\ \A d \in Evals \ {e} : pc'[d] = pc[d]

(* The places a step of an evaluation takes it to.                          *)
LEMMA GoesTo ==
    ASSUME TypeOK, NEW e \in Evals, NEW next, NEW locals, Goto(e, next, locals)
    PROVE  pc'[e] = next /\ \A d \in Evals \ {e} : pc'[d] = pc[d]
  BY DEF Goto, TypeOK

(* A step to another await settles nothing.                                 *)
LEMMA SuspendedAgain ==
    ASSUME TypeOK, NEW e \in Evals, ~Over(pc[e]), UNCHANGED rows,
           NEW next \in Suspended, NEW locals, Goto(e, next, locals)
    PROVE  SettlesNothing
  <1>1. pc'[e] = next /\ ~Over(next) /\ \A d \in Evals \ {e} : pc'[d] = pc[d]
    BY GoesTo DEF Over, Suspended
  <1> QED
    BY <1>1 DEF SettlesNothing

(* So does a step that delivers flags, or falls silent.                     *)
LEMMA DeliveringSettlesNothing ==
    ASSUME TypeOK, NEW e \in Evals, ~Over(pc[e]), UNCHANGED rows, NEW locals,
           DeliverFlags(e, locals) \/ Silence(e, locals) \/ Conclude(e, locals)
    PROVE  SettlesNothing
  <1>1. "record" \in Suspended /\ "cooldown" \in Suspended
    BY DEF Suspended
  <1> QED
    BY <1>1, SuspendedAgain DEF DeliverFlags, Silence, AskCooldown, Conclude

(* A step starts or advances an evaluation, ends one, or is another's.      *)
LEMMA TrailStepKinds ==
    ASSUME IInv, [Next]_vars
    PROVE  \/ SettlesNothing
           \/ \E e \in Evals : EndsWithoutRow(e)
           \/ \E e \in Evals : EndsWithRow(e)
  <1> USE DEF IInv
  <1>1. {"read", "embed", "load", "review", "count", "drop", "capture", "save", "audit",
         "cooldown", "record"} = Suspended
    BY DEF Suspended
  <1>2. ASSUME NEW e \in Evals, Start(e) PROVE SettlesNothing
    <2>1. PICK s \in Sessions : StartBatch(e, s) \/ StartAction(e, s) \/ StartTurn(e, s)
      BY <1>2 DEF Start
    <2>2. ~Over(pc[e])
      <3>1. e = started + 1 /\ started \in Nat
        BY <2>1 DEF StartBatch, StartAction, StartTurn, Begin, TypeOK
      <3>2. pc[e] = "idle"
        BY <3>1 DEF BegunInOrder
      <3> QED
        BY <3>2 DEF Over
    <2>3. UNCHANGED rows
      BY <2>1 DEF StartBatch, StartAction, StartTurn, Rest
    <2>4. CASE StartBatch(e, s)
      BY <1>1, <2>2, <2>3, <2>4, SuspendedAgain DEF StartBatch
    <2>5. CASE StartAction(e, s)
      BY <1>1, <2>2, <2>3, <2>5, SuspendedAgain, DeliveringSettlesNothing DEF StartAction
    <2>6. CASE StartTurn(e, s)
      BY <1>1, <2>2, <2>3, <2>6, SuspendedAgain, DeliveringSettlesNothing DEF StartTurn
    <2> QED
      BY <2>1, <2>4, <2>5, <2>6
  <1>3. ASSUME NEW e \in Evals, Proceed(e), ~RowWritten(e), ~RowRefused(e)
        PROVE  SettlesNothing
    <2>1. ~Over(pc[e]) /\ UNCHANGED rows
      BY <1>3 DEF Proceed, Over, Shared, BatchReads, TurnReads, ReadFails, QueryEmbedded,
                  EmbedFails, GateLoads, GateTimesOut, TurnLoads, LoadFails, ReviewReturns,
                  ReviewFails, CaptureCounted, CaptureEnds, CaptureEmbedded, CaptureSaved,
                  CaptureAudited, CooldownReads, CooldownReadFails
    <2>2. \/ \E next \in Suspended : \E locals : Goto(e, next, locals)
          \/ \E locals : DeliverFlags(e, locals) \/ Silence(e, locals) \/ Conclude(e, locals)
      <3>1. CASE BatchReads(e) \/ TurnReads(e) \/ ReadFails(e)
        BY <1>1, <3>1 DEF BatchReads, TurnReads, ReadFails, FailOpen
      <3>2. CASE QueryEmbedded(e) \/ EmbedFails(e) \/ LoadFails(e) \/ GateTimesOut(e)
        BY <1>1, <3>2 DEF QueryEmbedded, EmbedFails, LoadFails, GateTimesOut, FailOpen
      <3>3. CASE GateLoads(e) \/ TurnLoads(e)
        BY <1>1, <3>3 DEF GateLoads, TurnLoads
      <3>4. CASE ReviewReturns(e) \/ ReviewFails(e)
        BY <1>1, <3>4 DEF ReviewReturns, ReviewFails
      <3>5. CASE CaptureCounted(e) \/ CaptureEnds(e) \/ CaptureEmbedded(e)
        BY <1>1, <3>5 DEF CaptureCounted, CaptureEnds, CaptureEmbedded
      <3>6. CASE CaptureSaved(e) \/ CaptureAudited(e)
        BY <1>1, <3>6 DEF CaptureSaved, CaptureAudited
      <3>7. CASE CooldownReads(e) \/ CooldownReadFails(e)
        BY <3>7 DEF CooldownReads, CooldownReadFails, FailOpen
      <3> QED
        BY <1>3, <3>1, <3>2, <3>3, <3>4, <3>5, <3>6, <3>7 DEF Proceed
    <2> QED
      BY <2>1, <2>2, SuspendedAgain, DeliveringSettlesNothing
  <1>4. ASSUME NEW e \in Evals, RowWritten(e) PROVE EndsWithRow(e)
    BY <1>4, GoesTo DEF RowWritten, End, EndsWithRow, Over
  <1>5. ASSUME NEW e \in Evals, RowRefused(e) PROVE EndsWithoutRow(e)
    BY <1>5, GoesTo DEF RowRefused, End, EndsWithoutRow, Over, Shared
  <1>6. ASSUME NEW e \in Evals, Dropped(e) PROVE EndsWithRow(e) \/ EndsWithoutRow(e)
    <2>1. pc'[e] = "dropped" /\ \A d \in Evals \ {e} : pc'[d] = pc[d]
      BY <1>6, GoesTo DEF Dropped, End
    <2>2. ~Over(pc[e])
      BY <1>6 DEF Dropped, Suspended, Over
    <2>3. rows' = rows \/ (pc[e] = "record" /\ rows' = Append(rows, Row(e)))
      BY <1>6 DEF Dropped
    <2> QED
      BY <2>1, <2>2, <2>3 DEF EndsWithRow, EndsWithoutRow, Over
  <1>7. ASSUME Tick \/ (\E m \in Memories : Admit(m) \/ Retire(m)) \/ UNCHANGED vars
        PROVE  SettlesNothing
    BY <1>7 DEF Tick, Admit, Retire, vars, SettlesNothing
  <1> QED
    BY <1>2, <1>3, <1>4, <1>5, <1>6, <1>7 DEF Next

(* The entry of an evaluation with a row is the verdict of that row.        *)
LEMMA EntryIsItsRow ==
    ASSUME AnswerIsAudited, NEW e \in Evals, NEW n \in RowsOf(e)
    PROVE  TrailEntry(e) = rows[n].verdict
  <1>1. \A m \in RowsOf(e) : m = n
    BY DEF AnswerIsAudited
  <1>2. (CHOOSE m \in RowsOf(e) : TRUE) = n
    BY <1>1
  <1> QED
    BY <1>2 DEF TrailEntry

(* An evaluation whose rows and whose end are what they were keeps its      *)
(* entry.                                                                   *)
LEMMA EntryStays ==
    ASSUME AnswerIsAudited, NEW e \in Evals, RowsOf(e)' = RowsOf(e),
           \A n \in DOMAIN rows : rows'[n] = rows[n], Over(pc'[e]) <=> Over(pc[e])
    PROVE  TrailEntry(e)' = TrailEntry(e)
  <1>1. CASE RowsOf(e) = {}
    BY <1>1 DEF TrailEntry, Over
  <1>2. CASE RowsOf(e) # {}
    <2>1. PICK n \in RowsOf(e) : TRUE
      BY <1>2
    <2>2. \A m \in RowsOf(e) : m = n
      BY DEF AnswerIsAudited
    <2>3. (CHOOSE m \in RowsOf(e) : TRUE) = n /\ (CHOOSE m \in RowsOf(e)' : TRUE) = n
      BY <2>2
    <2>4. rows'[n] = rows[n]
      BY DEF RowsOf
    <2> QED
      BY <1>2, <2>3, <2>4 DEF TrailEntry
  <1> QED
    BY <1>1, <1>2

(* The rows of the evaluations once e has written its own.                  *)
LEMMA RowsOnceWritten ==
    ASSUME IInv, NEW e \in Evals, EndsWithRow(e)
    PROVE  /\ RowsOf(e) = {} /\ RowsOf(e)' = {Len(rows) + 1}
           /\ rows'[Len(rows) + 1].verdict = ev[e].verdict /\ ev[e].verdict \in Verdicts
           /\ \A d \in Evals \ {e} : RowsOf(d)' = RowsOf(d)
           /\ \A n \in DOMAIN rows : rows'[n] = rows[n]
  <1> USE DEF IInv
  <1>1. ev[e] \in Evaluations
    BY DEF EndsWithRow, TypeOK
  <1>2. Row(e) \in CheckpointRows /\ Row(e).eval = e /\ Row(e).verdict = ev[e].verdict
    BY <1>1 DEF Row, CheckpointRows, Evaluations
  <1>3. /\ Len(rows) \in Nat /\ DOMAIN rows' = DOMAIN rows \cup {Len(rows) + 1}
        /\ rows'[Len(rows) + 1] = Row(e)
        /\ \A n \in DOMAIN rows : rows'[n] = rows[n] /\ n # Len(rows) + 1
    BY <1>2, Appended DEF TypeOK, EndsWithRow
  <1>4. RowsOf(e) = {}
    BY DEF EndsWithRow, AnswerIsAudited
  <1>5. \A d \in Evals : RowsOf(d)' = RowsOf(d) \cup IF d = e THEN {Len(rows) + 1} ELSE {}
    BY <1>2, <1>3 DEF RowsOf
  <1>6. ev[e].verdict \in Verdicts
    BY <1>1 DEF Evaluations
  <1>7. RowsOf(e)' = {Len(rows) + 1} /\ \A d \in Evals \ {e} : RowsOf(d)' = RowsOf(d)
    BY <1>4, <1>5
  <1>8. rows'[Len(rows) + 1].verdict = ev[e].verdict
    BY <1>2, <1>3
  <1> HIDE DEF IInv
  <1> QED
    BY <1>3, <1>4, <1>6, <1>7, <1>8

(* A step of the checkpoint layer settles one entry of the trail, or none.  *)
LEMMA StepSettlesTrail ==
    ASSUME IInv, [Next]_vars
    PROVE  [Trail!Next]_[e \in Evals |-> TrailEntry(e)]
  <1> DEFINE trail == [e \in Evals |-> TrailEntry(e)]
  <1>1. AnswerIsAudited
    BY DEF IInv
  <1>2. CASE SettlesNothing
    <2>1. \A d \in Evals : TrailEntry(d)' = TrailEntry(d)
      BY <1>1, <1>2, EntryStays DEF SettlesNothing, RowsOf
    <2> QED
      BY <2>1
  <1>3. ASSUME NEW e \in Evals, EndsWithoutRow(e) PROVE Trail!Settle(e)
    <2>1. \A d \in Evals \ {e} : TrailEntry(d)' = TrailEntry(d)
      BY <1>1, <1>3, EntryStays DEF EndsWithoutRow, RowsOf
    <2>2. RowsOf(e) = {} /\ RowsOf(e)' = {}
      BY <1>1, <1>3 DEF EndsWithoutRow, AnswerIsAudited, Over, RowsOf
    <2>3. TrailEntry(e) = "open" /\ TrailEntry(e)' = "missing"
      BY <1>3, <2>2 DEF EndsWithoutRow, TrailEntry, Over
    <2>4. trail' = [trail EXCEPT ![e] = "missing"] /\ trail[e] = "open"
      BY <2>1, <2>3
    <2> QED
      BY <2>4 DEF Trail!Settle
  <1>4. ASSUME NEW e \in Evals, EndsWithRow(e) PROVE Trail!Settle(e)
    <2>1. \A d \in Evals \ {e} : TrailEntry(d)' = TrailEntry(d)
      BY <1>1, <1>4, EntryStays, RowsOnceWritten DEF EndsWithRow
    <2>2. TrailEntry(e) = "open"
      BY <1>4, RowsOnceWritten DEF EndsWithRow, TrailEntry
    <2>3. TrailEntry(e)' = ev[e].verdict /\ ev[e].verdict \in Verdicts
      <3>1. /\ RowsOf(e)' = {Len(rows) + 1} /\ ev[e].verdict \in Verdicts
            /\ rows'[Len(rows) + 1].verdict = ev[e].verdict
        BY <1>4, RowsOnceWritten
      <3>2. (CHOOSE m \in RowsOf(e)' : TRUE) = Len(rows) + 1
        BY <3>1
      <3> QED
        BY <3>1, <3>2 DEF TrailEntry
    <2>4. trail' = [trail EXCEPT ![e] = ev[e].verdict] /\ trail[e] = "open"
      BY <2>1, <2>2, <2>3
    <2> QED
      BY <2>3, <2>4 DEF Trail!Settle
  <1> QED
    BY <1>2, <1>3, <1>4, TrailStepKinds DEF Trail!Next

(* The trail implements the settle-once ledger the recorder implements: an  *)
(* evaluation is entered once, with its verdict or as missing, for good.    *)
THEOREM TrailSettlesForGood == Spec => TrailSettlesOnce
  <1>1. Init => Trail!Init
    <2> SUFFICES ASSUME Init PROVE \A e \in Evals : TrailEntry(e) = "open"
      BY DEF Trail!Init
    <2>1. \A e \in Evals : RowsOf(e) = {} /\ pc[e] = "idle"
      <3>1. DOMAIN rows = {}
        BY DEF Init
      <3> QED
        BY <3>1 DEF Init, RowsOf
    <2> QED
      BY <2>1 DEF TrailEntry
  <1> QED
    BY <1>1, StepSettlesTrail, Inductive, PTL DEF Spec, TrailSettlesOnce, Trail!Spec
=============================================================================
