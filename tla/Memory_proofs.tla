---------------------------- MODULE Memory_proofs ----------------------------
(***************************************************************************)
(* Proofs about Memory, for any sets of memories, kinds, bands, pushes and *)
(* sessions.  What a save decides rests on what it read several awaits     *)
(* before, so the invariant says which of those facts still hold: a save's *)
(* own inputs never change, an id that left the active memories never      *)
(* comes back, and a retirement was judged by the save it points at.       *)
(***************************************************************************)
EXTENDS Memory, TLAPS

(* The ids the store has or had.                                            *)
Known == DOMAIN memories \cup forgotten

SaveTypes ==
    /\ band \in [Pairs -> Bands]
    /\ pc \in [Memories -> {"idle"} \cup Saving \cup Ended]
    /\ op \in [Memories -> Saves \cup {NoSave}]
    /\ \A m \in Memories : op[m] = NoSave <=> pc[m] = "idle"
    /\ DOMAIN memories \subseteq Memories /\ memories \in [DOMAIN memories -> Rows]
    /\ forgotten \subseteq Memories \ DOMAIN memories
    /\ audit \subseteq [source : Memories, target : Memories, action : Statuses]
    /\ unaudited \subseteq Memories

(* An id is known once its save got past the insert, and not before.        *)
StoredIsKnown ==
    \A m \in Memories :
        /\ pc[m] \in {"idle", "verify", "embed", "store", "error"} => m \notin Known
        /\ pc[m] \in {"load", "judge", "update", "audit", "saved"} => m \in Known

(* The saves a save came after are over.                                    *)
AfterHasEnded ==
    \A m \in Memories : pc[m] # "idle" =>
        \A s \in Memories : Precedes(s, m) => pc[s] \in Ended

(* A row holds what its save derived.                                       *)
RowIsItsSave ==
    \A m \in DOMAIN memories :
        memories[m].kind = op[m].kind /\ memories[m].trusted = op[m].trusted

(* The memory under judgment is another one that was stored earlier.        *)
RivalIsOlder ==
    \A m \in Memories : pc[m] \in {"judge", "update", "audit"} =>
        LET o == op[m].old
        IN  o \in Known /\ o # m /\ op[o].kind = op[m].kind /\ ~Precedes(m, o)

(* A retirement on its way to the store passed the trust guard.             *)
JudgmentIsGuarded ==
    \A m \in Memories : pc[m] \in {"update", "audit"} =>
        /\ op[m].status # "active"
        /\ op[m].status = "merged" => op[m].trusted \/ ~op[op[m].old].trusted

(* A retirement in the store is the one its replacement's save judged.      *)
RetirementIsJudged ==
    \A m \in DOMAIN memories : Retired(m) =>
        LET r == memories[m].replacedBy
        IN  /\ r \in Memories /\ pc[r] \in {"audit", "saved", "dropped"}
            /\ r # m /\ op[r].old = m /\ op[r].status = memories[m].status
            /\ op[r].kind = op[m].kind /\ ~Precedes(r, m)
            /\ memories[m].status = "merged" => op[r].trusted \/ ~op[m].trusted

(* A save that still owes its audit row has retired its rival.              *)
RowFollowsRetirement ==
    \A m \in Memories : pc[m] = "audit" /\ op[m].old \in DOMAIN memories => Retired(op[m].old)

(* Only a memory that was in the store has an audit row.                    *)
AuditedIsKnown == \A a \in audit : a.source \in Known

(* The inductive invariant of the saves.                                    *)
StoreInv ==
    /\ SaveTypes /\ StoredIsKnown /\ AfterHasEnded /\ RowIsItsSave /\ RivalIsOlder
    /\ JudgmentIsGuarded /\ RetirementIsJudged /\ RowFollowsRetirement
    /\ AuditedIsKnown /\ AuditExplainsStore

PushTypes ==
    /\ ppc \in [Pushes -> {"idle", "answered", "dropped"} \cup Pushing]
    /\ push \in [Pushes -> PushLocals \cup {NoPush}]
    /\ \A p \in Pushes : push[p] = NoPush <=> ppc[p] = "idle"
    /\ pushed \in Seq([push : Pushes, session : Sessions, ids : SUBSET Memories])

(* What a push has loaded was trusted and live when the push began, and no  *)
(* row stored by then shows what it surfaces.                               *)
PushSeesStore ==
    \A p \in Pushes : ppc[p] # "idle" =>
        /\ push[p].gone \subseteq Known /\ push[p].gone \cap Active = {}
        /\ \A m \in push[p].eligible \cup push[p].surfaced :
              m \in Known /\ op[m].trusted /\ m \notin push[p].gone
        /\ push[p].base <= Len(pushed)
        /\ \A i \in 1..push[p].base :
              pushed[i].session = push[p].session => pushed[i].ids \cap push[p].surfaced = {}

(* A row belongs to a push that began, in its session.                      *)
RowsArePushes ==
    \A n \in DOMAIN pushed :
        /\ ppc[pushed[n].push] # "idle"
        /\ pushed[n].session = push[pushed[n].push].session

(* The inductive invariant of the module.                                   *)
IInv == StoreInv /\ PushTypes /\ PushSeesStore /\ RowsArePushes /\ PushNeverRepeats
-----------------------------------------------------------------------------
(* A save that has begun is not the placeholder of one that has not.        *)
LEMMA SaveIsNone == \A s \in Saves : s # NoSave
  <1> SUFFICES ASSUME NEW s \in Saves, s = NoSave PROVE FALSE
    OBVIOUS
  <1>1. "trusted" \in DOMAIN s
    BY DEF Saves
  <1>2. "trusted" \notin DOMAIN NoSave
    BY DEF NoSave
  <1> QED
    BY <1>1, <1>2

(* The future of save m is at next, and the other saves are where they were. *)
Moves(m, next) == \A n \in Memories : pc'[n] = IF n = m THEN next ELSE pc[n]

(* The locals of save m are new, and those of the other saves are not.      *)
Sets(m, new) == \A n \in Memories : op'[n] = IF n = m THEN new ELSE op[n]

(* What Goto and an assignment to one save's locals do, save by save.       *)
LEMMA GotoMoves ==
    ASSUME SaveTypes, NEW m \in Memories, NEW next \in Saving \cup Ended, Goto(m, next)
    PROVE  pc' \in [Memories -> {"idle"} \cup Saving \cup Ended] /\ Moves(m, next)
  BY DEF SaveTypes, Goto, Moves

(* The same for an assignment to its locals.                                *)
LEMMA LocalsSet ==
    ASSUME SaveTypes, NEW m \in Memories, NEW new \in Saves,
           op' = [op EXCEPT ![m] = new]
    PROVE  op' \in [Memories -> Saves \cup {NoSave}] /\ Sets(m, new)
  BY DEF SaveTypes, Sets

(* A save in progress has its locals.                                       *)
LEMMA SavingHasLocals ==
    ASSUME SaveTypes, NEW m \in Memories, pc[m] # "idle"
    PROVE  op[m] \in Saves
  BY DEF SaveTypes

(* The types of the saves follow from the two functions, save by save.      *)
LEMMA SaveTypesKept ==
    ASSUME SaveTypes, NEW m \in Memories, NEW next \in Saving \cup Ended, NEW new \in Saves,
           pc' \in [Memories -> {"idle"} \cup Saving \cup Ended], Moves(m, next),
           op' \in [Memories -> Saves \cup {NoSave}], Sets(m, new), band' = band,
           DOMAIN memories' \subseteq Memories, memories' \in [DOMAIN memories' -> Rows],
           forgotten' \subseteq Memories \ DOMAIN memories',
           audit' \subseteq [source : Memories, target : Memories, action : Statuses],
           unaudited' \subseteq Memories
    PROVE  SaveTypes'
  <1>1. next # "idle"
    BY DEF Saving, Ended
  <1>2. \A n \in Memories : op'[n] = NoSave <=> pc'[n] = "idle"
    BY <1>1, SaveIsNone DEF SaveTypes, Moves, Sets
  <1> QED
    BY <1>2 DEF SaveTypes

(* A save moves on and leaves the store alone.  It does not go where it     *)
(* would have to have read something, and it owes no audit row.             *)
LEMMA StoreUntouched ==
    ASSUME StoreInv, SaveTypes', NEW m \in Memories, NEW next, NEW new,
           Moves(m, next), Sets(m, new), pc[m] \in Saving,
           next \in {"embed", "store", "saved", "error", "dropped"},
           next \in {"embed", "store", "error"} => pc[m] \in {"verify", "embed", "store"},
           next = "saved" => pc[m] \in {"load", "judge", "update", "audit"},
           new.kind = op[m].kind, new.trusted = op[m].trusted, new.after = op[m].after,
           pc[m] = "audit" => m \in unaudited' /\ new = op[m],
           memories' = memories, forgotten' = forgotten, audit' = audit,
           unaudited \subseteq unaudited'
    PROVE  StoreInv'
  <1> USE DEF Moves, Sets, StoreInv, SaveTypes, Saving, Ended
  <1>1. StoredIsKnown'
    BY DEF StoredIsKnown, Known
  <1>2. AfterHasEnded'
    BY DEF AfterHasEnded, Precedes
  <1>3. RowIsItsSave' /\ AuditedIsKnown'
    BY DEF RowIsItsSave, AuditedIsKnown, Known
  <1>4. RivalIsOlder'
    BY DEF RivalIsOlder, Known, Precedes
  <1>5. JudgmentIsGuarded'
    BY DEF RivalIsOlder, Known, JudgmentIsGuarded
  <1>6. RetirementIsJudged'
    BY DEF RetirementIsJudged, Retired, Precedes
  <1>7. RowFollowsRetirement'
    BY DEF RowFollowsRetirement, Retired
  <1>8. AuditExplainsStore'
    BY DEF RetirementIsJudged, AuditExplainsStore, Retired
  <1> QED
    BY <1>1, <1>2, <1>3, <1>4, <1>5, <1>6, <1>7, <1>8

(* The memory is inserted: it is the row of its save, and no retirement     *)
(* can be its doing yet.                                                    *)
LEMMA MemoryInserted ==
    ASSUME StoreInv, SaveTypes', NEW m \in Memories, NEW next \in {"load", "dropped"},
           pc[m] = "store", Moves(m, next), op' = op, Insert(m),
           forgotten' = forgotten, audit' = audit, unaudited' = unaudited
    PROVE  StoreInv'
  <1> USE DEF Moves, StoreInv, SaveTypes, Saving, Ended
  <1>1. m \notin Known
    BY DEF StoredIsKnown
  <1>2. /\ DOMAIN memories' = DOMAIN memories \cup {m}
        /\ \A i \in DOMAIN memories : memories'[i] = memories[i] /\ i # m
        /\ memories'[m] = [kind |-> op[m].kind, trusted |-> op[m].trusted,
                           status |-> "active", replacedBy |-> "none"]
    BY <1>1 DEF Insert, Known
  <1>3. StoredIsKnown'
    BY <1>2 DEF StoredIsKnown, Known
  <1>4. AfterHasEnded'
    BY DEF AfterHasEnded, Precedes
  <1>5. RowIsItsSave' /\ AuditedIsKnown'
    BY <1>2 DEF RowIsItsSave, AuditedIsKnown, Known
  <1>6. RivalIsOlder'
    BY <1>2 DEF RivalIsOlder, Known, Precedes
  <1>7. JudgmentIsGuarded'
    BY DEF JudgmentIsGuarded
  <1>8. RetirementIsJudged'
    BY <1>2 DEF RetirementIsJudged, Retired, Precedes
  <1>9. RowFollowsRetirement'
    BY <1>1, <1>2 DEF RowFollowsRetirement, Retired, Known, RivalIsOlder
  <1>10. AuditExplainsStore'
    BY <1>1, <1>2 DEF RetirementIsJudged, AuditExplainsStore, AuditedIsKnown, Retired, Known
  <1> QED
    BY <1>3, <1>4, <1>5, <1>6, <1>7, <1>8, <1>9, <1>10

(* The rival is retired, if it is still there: its row now shows what the   *)
(* save judged.                                                             *)
LEMMA RivalRetired ==
    ASSUME StoreInv, SaveTypes', NEW m \in Memories, NEW next \in {"audit", "dropped"},
           pc[m] = "update", Moves(m, next), op' = op, Retire(m), forgotten' = forgotten,
           audit' = audit, unaudited' = unaudited \cup (IF next = "audit" THEN {} ELSE {m})
    PROVE  StoreInv'
  <1> USE DEF Moves, StoreInv, SaveTypes, Saving, Ended
  <1> DEFINE o == op[m].old
  <1>1. /\ o \in Memories /\ o # m /\ op[o].kind = op[m].kind /\ ~Precedes(m, o)
        /\ op[m].status # "active"
        /\ op[m].status = "merged" => op[m].trusted \/ ~op[o].trusted
    BY DEF RivalIsOlder, JudgmentIsGuarded, Known
  <1>2. /\ DOMAIN memories' = DOMAIN memories
        /\ \A i \in DOMAIN memories : i # o => memories'[i] = memories[i]
        /\ o \in DOMAIN memories =>
              /\ memories'[o].status = op[m].status /\ memories'[o].replacedBy = m
              /\ memories'[o].kind = memories[o].kind
              /\ memories'[o].trusted = memories[o].trusted
    <2>1. o \in DOMAIN memories =>
              memories[o] \in [kind : Kinds, trusted : BOOLEAN, status : Statuses,
                               replacedBy : Memories \cup {"none"}]
      BY DEF Rows
    <2> QED
      BY <2>1 DEF Retire
  <1>3. StoredIsKnown'
    BY <1>2 DEF StoredIsKnown, Known
  <1>4. AfterHasEnded'
    BY DEF AfterHasEnded, Precedes
  <1>5. RowIsItsSave' /\ AuditedIsKnown'
    BY <1>2 DEF RowIsItsSave, AuditedIsKnown, Known
  <1>6. RivalIsOlder'
    BY <1>2 DEF RivalIsOlder, Known, Precedes
  <1>7. JudgmentIsGuarded'
    BY DEF JudgmentIsGuarded
  <1>8. RetirementIsJudged'
    BY <1>1, <1>2 DEF RetirementIsJudged, Retired, Precedes
  <1>9. RowFollowsRetirement'
    BY <1>1, <1>2 DEF RowFollowsRetirement, Retired
  <1>10. AuditExplainsStore'
    BY <1>1, <1>2 DEF RetirementIsJudged, AuditExplainsStore, Retired
  <1> QED
    BY <1>3, <1>4, <1>5, <1>6, <1>7, <1>8, <1>9, <1>10

(* The audit row is the row of the retirement the store shows.              *)
LEMMA RetirementAudited ==
    ASSUME StoreInv, SaveTypes', NEW m \in Memories, NEW next \in {"saved", "dropped"},
           pc[m] = "audit", Moves(m, next), op' = op, audit' = audit \cup {AuditRow(m)},
           memories' = memories, forgotten' = forgotten, unaudited' = unaudited
    PROVE  StoreInv'
  <1> USE DEF Moves, StoreInv, SaveTypes, Saving, Ended
  <1>1. StoredIsKnown'
    BY DEF StoredIsKnown, Known
  <1>2. AfterHasEnded'
    BY DEF AfterHasEnded, Precedes
  <1>3. RowIsItsSave' /\ JudgmentIsGuarded' /\ RowFollowsRetirement' /\ AuditedIsKnown'
    BY DEF RowIsItsSave, RivalIsOlder, JudgmentIsGuarded, RowFollowsRetirement, Retired,
           AuditedIsKnown, AuditRow, Known
  <1>4. RivalIsOlder'
    BY DEF RivalIsOlder, Known, Precedes
  <1>5. RetirementIsJudged'
    BY DEF RetirementIsJudged, Retired, Precedes
  <1>6. AuditExplainsStore'
    BY DEF RetirementIsJudged, RowFollowsRetirement, AuditExplainsStore, AuditRow, Retired
  <1> QED
    BY <1>1, <1>2, <1>3, <1>4, <1>5, <1>6

(* A save begins: what came before it has ended.                            *)
LEMMA SaveBegun ==
    ASSUME StoreInv, SaveTypes', NEW m \in Memories, NEW next \in {"verify", "embed"},
           NEW new, pc[m] = "idle", Moves(m, next), Sets(m, new),
           new.after = {s \in Memories : pc[s] \in Ended},
           memories' = memories, forgotten' = forgotten, audit' = audit,
           unaudited' = unaudited
    PROVE  StoreInv'
  <1> USE DEF Moves, Sets, StoreInv, SaveTypes, Saving, Ended
  <1>1. m \notin Known /\ Known \subseteq Memories
    BY DEF StoredIsKnown, Known
  <1>2. StoredIsKnown'
    BY DEF StoredIsKnown, Known
  <1>3. AfterHasEnded'
    BY DEF AfterHasEnded, Precedes
  <1>4. RowIsItsSave' /\ AuditedIsKnown'
    BY <1>1 DEF RowIsItsSave, AuditedIsKnown, Known
  <1>5. RivalIsOlder'
    BY <1>1 DEF RivalIsOlder, Known, Precedes
  <1>6. JudgmentIsGuarded'
    BY <1>1 DEF JudgmentIsGuarded, RivalIsOlder
  <1>7. RetirementIsJudged'
    BY <1>1 DEF RetirementIsJudged, Retired, Precedes, Known
  <1>8. RowFollowsRetirement'
    BY DEF RowFollowsRetirement, Retired
  <1>9. AuditExplainsStore'
    BY DEF RetirementIsJudged, AuditExplainsStore, Retired
  <1> QED
    BY <1>2, <1>3, <1>4, <1>5, <1>6, <1>7, <1>8, <1>9

(* The rival a save screens is another active memory of its kind, and its   *)
(* save began before this one ends.                                         *)
LEMMA RivalScreened ==
    ASSUME StoreInv, SaveTypes', NEW m \in Memories, NEW o \in Screen(m), NEW new,
           pc[m] = "load", Moves(m, "judge"), Sets(m, new),
           new.kind = op[m].kind, new.trusted = op[m].trusted, new.after = op[m].after,
           new.old = o,
           memories' = memories, forgotten' = forgotten, audit' = audit,
           unaudited' = unaudited
    PROVE  StoreInv'
  <1> USE DEF Moves, Sets, StoreInv, SaveTypes, Saving, Ended
  <1>1. /\ o \in DOMAIN memories /\ o # m /\ memories[o].kind = op[m].kind
        /\ o \in Known /\ o \in Memories /\ pc[o] # "idle"
    BY DEF Screen, Active, Known, StoredIsKnown
  <1>3. StoredIsKnown'
    BY DEF StoredIsKnown, Known
  <1>4. AfterHasEnded'
    BY DEF AfterHasEnded, Precedes
  <1>5. RowIsItsSave' /\ AuditedIsKnown'
    BY DEF RowIsItsSave, AuditedIsKnown, Known
  <1>6. op[o].kind = op[m].kind /\ ~Precedes(m, o)
    BY <1>1 DEF RowIsItsSave, AfterHasEnded
  <1>7. RivalIsOlder'
    BY <1>1, <1>6 DEF RivalIsOlder, Known, Precedes
  <1>8. JudgmentIsGuarded'
    BY DEF RivalIsOlder, Known, JudgmentIsGuarded
  <1>9. RetirementIsJudged'
    BY DEF RetirementIsJudged, Retired, Precedes
  <1>10. RowFollowsRetirement'
    BY DEF RowFollowsRetirement, Retired
  <1>11. AuditExplainsStore'
    BY DEF RetirementIsJudged, AuditExplainsStore, Retired
  <1> QED
    BY <1>3, <1>4, <1>5, <1>7, <1>8, <1>9, <1>10, <1>11

(* A judgment that retires the rival passed the trust guard.                *)
LEMMA RivalJudged ==
    ASSUME StoreInv, SaveTypes', NEW m \in Memories, NEW relation, NEW new,
           pc[m] = "judge", Moves(m, "update"), Sets(m, new),
           new.kind = op[m].kind, new.trusted = op[m].trusted, new.after = op[m].after,
           new.old = op[m].old, new.status = Apply(relation, m, op[m].old),
           new.status # "active",
           memories' = memories, forgotten' = forgotten, audit' = audit,
           unaudited' = unaudited
    PROVE  StoreInv'
  <1> USE DEF Moves, Sets, StoreInv, SaveTypes, Saving, Ended
  <1>2. new.status = "merged" => op[m].trusted \/ ~op[op[m].old].trusted
    BY DEF Apply
  <1>3. StoredIsKnown'
    BY DEF StoredIsKnown, Known
  <1>4. AfterHasEnded'
    BY DEF AfterHasEnded, Precedes
  <1>5. RowIsItsSave' /\ AuditedIsKnown'
    BY DEF RowIsItsSave, AuditedIsKnown, Known
  <1>6. RivalIsOlder'
    BY DEF RivalIsOlder, Known, Precedes
  <1>7. JudgmentIsGuarded'
    BY <1>2 DEF RivalIsOlder, Known, JudgmentIsGuarded
  <1>8. RetirementIsJudged'
    BY DEF RetirementIsJudged, Retired, Precedes
  <1>9. RowFollowsRetirement'
    BY DEF RowFollowsRetirement, Retired
  <1>10. AuditExplainsStore'
    BY DEF RetirementIsJudged, AuditExplainsStore, Retired
  <1> QED
    BY <1>3, <1>4, <1>5, <1>6, <1>7, <1>8, <1>9, <1>10

(* Forgetting takes one id out of the store, for good.                      *)
LEMMA MemoryForgotten ==
    ASSUME StoreInv, NEW m \in Memories, Forget(m)
    PROVE  StoreInv'
  <1> USE DEF StoreInv, SaveTypes, Saving, Ended
  <1>1. /\ m \in DOMAIN memories /\ UNCHANGED <<band, pc, op, audit, unaudited>>
        /\ forgotten' = forgotten \cup {m} /\ DOMAIN memories' = DOMAIN memories \ {m}
        /\ \A i \in DOMAIN memories \ {m} : memories'[i] = memories[i]
        /\ memories' = [i \in DOMAIN memories \ {m} |-> memories[i]]
    BY DEF Forget, saveVars
  <1>2. SaveTypes'
    BY <1>1
  <1>3. Known' = Known
    BY <1>1 DEF Known
  <1>4. StoredIsKnown' /\ AfterHasEnded' /\ RivalIsOlder' /\ JudgmentIsGuarded' /\ AuditedIsKnown'
    BY <1>1, <1>3 DEF StoredIsKnown, AfterHasEnded, RivalIsOlder, JudgmentIsGuarded,
                      AuditedIsKnown, Precedes
  <1>5. RowIsItsSave' /\ RowFollowsRetirement'
    BY <1>1 DEF RowIsItsSave, RowFollowsRetirement, Retired
  <1>6. RetirementIsJudged'
    BY <1>1 DEF RetirementIsJudged, Retired, Precedes
  <1>7. AuditExplainsStore'
    BY <1>1 DEF AuditExplainsStore, Retired
  <1> QED
    BY <1>2, <1>4, <1>5, <1>6, <1>7
-----------------------------------------------------------------------------
(* The actions, each by the lemma of what it does to the store.             *)
LEMMA SaveStep ==
    ASSUME StoreInv, NEW m \in Memories, SaveBegins(m) \/ SaveProceeds(m) \/ SaveDropped(m)
    PROVE  StoreInv'
  <1> USE DEF StoreInv
  <1> DEFINE AllPcs == {"idle"} \cup Saving \cup Ended
  <1>1. CASE SaveBegins(m)
    <2>1. PICK kind \in Kinds, trust \in {"first_hand", "untrusted", "verify"} :
            /\ Goto(m, IF trust = "verify" THEN "verify" ELSE "embed")
            /\ op' = [op EXCEPT ![m] =
                        [kind |-> kind, trusted |-> trust # "untrusted",
                         after |-> {s \in Memories : pc[s] \in Ended},
                         old |-> "none", status |-> "active"]]
      BY <1>1 DEF SaveBegins
    <2> DEFINE next == IF trust = "verify" THEN "verify" ELSE "embed"
               new == [kind |-> kind, trusted |-> trust # "untrusted",
                       after |-> {s \in Memories : pc[s] \in Ended},
                       old |-> "none", status |-> "active"]
    <2>2. next \in {"verify", "embed"} /\ next \in Saving \cup Ended
      BY DEF Saving
    <2>3. new \in Saves
      BY DEF Saves, Statuses
    <2>4. pc' \in [Memories -> AllPcs] /\ Moves(m, next)
      BY <2>1, <2>2, GotoMoves
    <2>5. op' \in [Memories -> Saves \cup {NoSave}] /\ Sets(m, new)
      BY <2>1, <2>3, LocalsSet
    <2>6. pc[m] = "idle" /\ UNCHANGED <<band, storeVars>>
      BY <1>1 DEF SaveBegins
    <2>7. new.after = {s \in Memories : pc[s] \in Ended}
      OBVIOUS
    <2> HIDE DEF next, new
    <2>8. SaveTypes'
      BY <2>2, <2>3, <2>4, <2>5, <2>6, SaveTypesKept DEF SaveTypes, storeVars
    <2> QED
      BY <2>2, <2>4, <2>5, <2>6, <2>7, <2>8, SaveBegun DEF storeVars
  <1>2. ASSUME NEW next \in Saving \cup Ended, pc[m] # "idle", Goto(m, next), op' = op,
               band' = band, DOMAIN memories' \subseteq Memories,
               memories' \in [DOMAIN memories' -> Rows],
               forgotten' \subseteq Memories \ DOMAIN memories',
               audit' \subseteq [source : Memories, target : Memories, action : Statuses],
               unaudited' \subseteq Memories
        PROVE  SaveTypes' /\ Moves(m, next) /\ Sets(m, op[m])
    <2>1. pc' \in [Memories -> AllPcs] /\ Moves(m, next)
      BY <1>2, GotoMoves
    <2>2. op[m] \in Saves
      BY <1>2, SavingHasLocals
    <2>3. op' \in [Memories -> Saves \cup {NoSave}] /\ Sets(m, op[m])
      BY <1>2 DEF SaveTypes, Sets
    <2> HIDE DEF StoreInv
    <2> QED
      BY <1>2, <2>1, <2>2, <2>3, SaveTypesKept DEF StoreInv
  <1>3. CASE Verified(m) \/ Embedded(m) \/ SaveFails(m)
    <2>1. PICK next \in {"embed", "store", "error"} :
            pc[m] \in {"verify", "embed", "store"} /\ Goto(m, next)
      BY <1>3 DEF Verified, Embedded, SaveFails, Only
    <2>2. UNCHANGED <<band, op, memories, forgotten, audit, unaudited>>
      BY <1>3 DEF Verified, Embedded, SaveFails, storeVars
    <2>3. next \in Saving \cup Ended /\ pc[m] \in Saving /\ pc[m] # "idle"
      BY <2>1 DEF Saving, Ended
    <2>4. SaveTypes' /\ Moves(m, next) /\ Sets(m, op[m])
      BY <1>2, <2>1, <2>2, <2>3 DEF SaveTypes
    <2> QED
      BY <2>1, <2>2, <2>3, <2>4, StoreUntouched
  <1>4. ASSUME NEW next \in {"load", "dropped"}, pc[m] = "store", Goto(m, next), Insert(m),
               UNCHANGED <<band, op, forgotten, audit, unaudited>>
        PROVE  StoreInv'
    <2>1. m \notin Known /\ op[m] \in Saves
      BY <1>4, SavingHasLocals DEF StoredIsKnown
    <2>2. /\ op[m].kind \in Kinds /\ op[m].trusted \in BOOLEAN
          /\ [kind |-> op[m].kind, trusted |-> op[m].trusted,
              status |-> "active", replacedBy |-> "none"] \in Rows
      BY <2>1 DEF Saves, Rows, Statuses
    <2>3. /\ DOMAIN memories' \subseteq Memories /\ memories' \in [DOMAIN memories' -> Rows]
          /\ forgotten' \subseteq Memories \ DOMAIN memories'
      BY <1>4, <2>1, <2>2 DEF Insert, SaveTypes, Known
    <2>4. next \in Saving \cup Ended /\ pc[m] # "idle"
      BY <1>4 DEF Saving, Ended
    <2>5. SaveTypes' /\ Moves(m, next)
      BY <1>2, <1>4, <2>3, <2>4 DEF SaveTypes
    <2> QED
      BY <1>4, <2>5, MemoryInserted
  <1>5. CASE Stored(m)
    BY <1>4, <1>5 DEF Stored, Only
  <1>6. ASSUME NEW next \in {"saved", "dropped"}, pc[m] \in Saving,
               next = "saved" => pc[m] \in {"load", "judge", "update", "audit"},
               Goto(m, next), UNCHANGED <<band, op, memories, forgotten, audit>>,
               unaudited' = IF pc[m] = "audit" THEN unaudited \cup {m} ELSE unaudited
        PROVE  StoreInv'
    <2>1. next \in Saving \cup Ended /\ pc[m] # "idle"
      BY <1>6 DEF Saving, Ended
    <2>2. SaveTypes' /\ Moves(m, next) /\ Sets(m, op[m])
      BY <1>2, <1>6, <2>1 DEF SaveTypes
    <2> QED
      BY <1>6, <2>2, StoreUntouched
  <1>7. CASE Screened(m)
    <2>1. UNCHANGED <<band, memories, forgotten, audit, unaudited>> /\ pc[m] = "load"
      BY <1>7 DEF Screened, storeVars
    <2>2. CASE Goto(m, "saved") /\ op' = op
      BY <1>6, <2>1, <2>2 DEF Saving
    <2>3. ASSUME NEW o \in Screen(m), Goto(m, "judge"), op' = [op EXCEPT ![m].old = o]
          PROVE  StoreInv'
      <3>1. o \in Memories /\ op[m] \in Saves
        BY <2>1, SavingHasLocals DEF Screen, Active, SaveTypes
      <3> DEFINE new == [op[m] EXCEPT !.old = o]
      <3>2. /\ new \in Saves /\ new.kind = op[m].kind /\ new.trusted = op[m].trusted
            /\ new.after = op[m].after /\ new.old = o
        BY <3>1 DEF Saves
      <3>3. op' = [op EXCEPT ![m] = new]
        BY <2>3
      <3>4. pc' \in [Memories -> AllPcs] /\ Moves(m, "judge") /\ "judge" \in Saving \cup Ended
        BY <2>3, GotoMoves DEF Saving
      <3> HIDE DEF new
      <3>5. op' \in [Memories -> Saves \cup {NoSave}] /\ Sets(m, new)
        BY <3>2, <3>3, LocalsSet
      <3>6. SaveTypes'
        BY <2>1, <3>2, <3>4, <3>5, SaveTypesKept DEF SaveTypes
      <3> QED
        BY <2>1, <3>2, <3>4, <3>5, <3>6, RivalScreened
    <2> QED
      BY <1>7, <2>1, <2>2, <2>3 DEF Screened
  <1>8. CASE Judged(m)
    <2>1. PICK relation \in {"updates", "same_assertion", "distinct"} :
            /\ op' = [op EXCEPT ![m].status = Apply(relation, m, op[m].old)]
            /\ Goto(m, IF Apply(relation, m, op[m].old) = "active" THEN "saved" ELSE "update")
      BY <1>8 DEF Judged
    <2> DEFINE status == Apply(relation, m, op[m].old)
               next == IF status = "active" THEN "saved" ELSE "update"
               new == [op[m] EXCEPT !.status = status]
    <2>2. UNCHANGED <<band, memories, forgotten, audit, unaudited>> /\ pc[m] = "judge"
      BY <1>8 DEF Judged, storeVars
    <2>3. op[m] \in Saves /\ status \in Statuses
      BY <2>2, SavingHasLocals DEF Apply, Statuses
    <2>4. next \in Saving \cup Ended /\ next \in {"saved", "update"}
      BY DEF Saving, Ended
    <2> HIDE DEF status
    <2>5. /\ new \in Saves /\ new.kind = op[m].kind /\ new.trusted = op[m].trusted
          /\ new.after = op[m].after /\ new.old = op[m].old /\ new.status = status
      BY <2>3 DEF Saves
    <2>6. op' = [op EXCEPT ![m] = new] /\ Goto(m, next)
      BY <2>1 DEF status
    <2>7. next = "saved" <=> status = "active"
      OBVIOUS
    <2> HIDE DEF next, new
    <2>8. pc' \in [Memories -> AllPcs] /\ Moves(m, next)
      BY <2>4, <2>6, GotoMoves
    <2>9. op' \in [Memories -> Saves \cup {NoSave}] /\ Sets(m, new)
      BY <2>5, <2>6, LocalsSet
    <2>10. SaveTypes'
      BY <2>2, <2>4, <2>5, <2>8, <2>9, SaveTypesKept DEF SaveTypes
    <2>11. CASE status = "active"
      BY <2>2, <2>5, <2>7, <2>8, <2>9, <2>10, <2>11, StoreUntouched DEF Saving
    <2>12. CASE status # "active"
      <3>1. next = "update"
        BY <2>4, <2>7, <2>12
      <3> QED
        BY <2>2, <2>5, <2>8, <2>9, <2>10, <2>12, <3>1, RivalJudged DEF status
    <2> QED
      BY <2>11, <2>12
  <1>9. ASSUME NEW next \in {"audit", "dropped"}, pc[m] = "update", Goto(m, next), Retire(m),
               UNCHANGED <<band, op, forgotten, audit>>,
               unaudited' = unaudited \cup (IF next = "audit" THEN {} ELSE {m})
        PROVE  StoreInv'
    <2>1. op[m] \in Saves /\ pc[m] # "idle" /\ next \in Saving \cup Ended
      BY <1>9, SavingHasLocals DEF Saving, Ended
    <2>2. op[m].status \in Statuses
      BY <2>1 DEF Saves
    <2>3. \A i \in DOMAIN memories :
            [memories[i] EXCEPT !.status = op[m].status, !.replacedBy = m] \in Rows
      <3>1. \A i \in DOMAIN memories : memories[i] \in Rows
        BY DEF SaveTypes
      <3> QED
        BY <2>2, <3>1 DEF Rows
    <2>4. /\ DOMAIN memories' = DOMAIN memories
          /\ memories' \in [DOMAIN memories' -> Rows]
      BY <1>9, <2>3 DEF Retire, SaveTypes
    <2>5. SaveTypes' /\ Moves(m, next)
      BY <1>2, <1>9, <2>1, <2>4 DEF SaveTypes
    <2> QED
      BY <1>9, <2>5, RivalRetired
  <1>10. CASE Updated(m)
    BY <1>9, <1>10 DEF Updated, Only
  <1>11. ASSUME NEW next \in {"saved", "dropped"}, pc[m] = "audit", Goto(m, next),
                audit' = audit \cup {AuditRow(m)},
                UNCHANGED <<band, op, memories, forgotten, unaudited>>
         PROVE  StoreInv'
    <2>1. op[m] \in Saves /\ pc[m] # "idle" /\ next \in Saving \cup Ended
      BY <1>11, SavingHasLocals DEF Saving, Ended
    <2>2. op[m].old \in Memories /\ op[m].status \in Statuses
      BY <1>11, <2>1 DEF RivalIsOlder, Known, SaveTypes, Saves
    <2>3. AuditRow(m) \in [source : Memories, target : Memories, action : Statuses]
      BY <2>2 DEF AuditRow
    <2>4. SaveTypes' /\ Moves(m, next)
      BY <1>2, <1>11, <2>1, <2>3 DEF SaveTypes
    <2> QED
      BY <1>11, <2>4, RetirementAudited
  <1>12. CASE Audited(m)
    BY <1>11, <1>12 DEF Audited, Only
  <1>13. CASE ConsolidationFails(m)
    BY <1>6, <1>13 DEF ConsolidationFails, Saving
  <1>14. CASE SaveDropped(m)
    <2>1. pc[m] \in Saving /\ Goto(m, "dropped") /\ UNCHANGED <<band, op, forgotten>>
      BY <1>14 DEF SaveDropped
    <2>2. CASE /\ unaudited' = IF pc[m] = "audit" THEN unaudited \cup {m} ELSE unaudited
               /\ UNCHANGED <<memories, audit>>
      BY <1>6, <2>1, <2>2
    <2>3. CASE pc[m] = "store" /\ Insert(m) /\ UNCHANGED <<audit, unaudited>>
      BY <1>4, <2>1, <2>3
    <2>4. CASE /\ pc[m] = "update" /\ Retire(m)
               /\ unaudited' = unaudited \cup {m} /\ UNCHANGED audit
      BY <1>9, <2>1, <2>4
    <2>5. CASE /\ pc[m] = "audit" /\ audit' = audit \cup {AuditRow(m)}
               /\ UNCHANGED <<memories, unaudited>>
      BY <1>11, <2>1, <2>5
    <2> QED
      BY <1>14, <2>2, <2>3, <2>4, <2>5 DEF SaveDropped
  <1> QED
    BY <1>1, <1>3, <1>5, <1>7, <1>8, <1>10, <1>12, <1>13, <1>14 DEF SaveProceeds
-----------------------------------------------------------------------------
(* What a step of the saves leaves alone: a known memory stays known with   *)
(* the trust of its save, and one that is not active does not become so.    *)
Frame ==
    \A i \in Known :
        i \in Known' /\ op'[i].trusted = op[i].trusted /\ (i \in Active' => i \in Active)

(* Every step of the saves, and forget, keeps to the frame.                 *)
LEMMA SaveFrame ==
    ASSUME StoreInv, NEW m \in Memories,
           SaveBegins(m) \/ SaveProceeds(m) \/ SaveDropped(m) \/ Forget(m)
    PROVE  Frame
  <1> USE DEF StoreInv
  <1>1. Known \subseteq Memories
    BY DEF Known, SaveTypes
  <1>2. \A i \in Known : op'[i].trusted = op[i].trusted
    <2>1. CASE SaveBegins(m)
      <3>1. m \notin Known
        BY <2>1 DEF SaveBegins, StoredIsKnown
      <3> QED
        BY <1>1, <2>1, <3>1 DEF SaveBegins, SaveTypes
    <2>2. CASE Screened(m) \/ Judged(m)
      <3>1. op[m] \in Saves
        BY <2>2, SavingHasLocals DEF Screened, Judged
      <3>2. op' = op \/ \E o : op' = [op EXCEPT ![m].old = o]
                     \/ \E status : op' = [op EXCEPT ![m].status = status]
        BY <2>2 DEF Screened, Judged
      <3>3. CASE op' = op
        BY <3>3
      <3>4. ASSUME NEW o, op' = [op EXCEPT ![m].old = o]
            PROVE  \A i \in Known : op'[i].trusted = op[i].trusted
        <4>1. [op[m] EXCEPT !.old = o].trusted = op[m].trusted
          BY <3>1 DEF Saves
        <4> QED
          BY <1>1, <3>4, <4>1 DEF SaveTypes
      <3>5. ASSUME NEW status, op' = [op EXCEPT ![m].status = status]
            PROVE  \A i \in Known : op'[i].trusted = op[i].trusted
        <4>1. [op[m] EXCEPT !.status = status].trusted = op[m].trusted
          BY <3>1 DEF Saves
        <4> QED
          BY <1>1, <3>5, <4>1 DEF SaveTypes
      <3> QED
        BY <3>2, <3>3, <3>4, <3>5
    <2>3. CASE \/ Verified(m) \/ Embedded(m) \/ SaveFails(m) \/ Stored(m) \/ Updated(m)
               \/ Audited(m) \/ ConsolidationFails(m) \/ SaveDropped(m) \/ Forget(m)
      BY <2>3 DEF Verified, Embedded, SaveFails, Stored, Updated, Audited,
                  ConsolidationFails, SaveDropped, Forget, saveVars
    <2> QED
      BY <2>1, <2>2, <2>3 DEF SaveProceeds
  <1>3. \A i \in Known : i \in Known' /\ (i \in Active' => i \in Active)
    <2>1. CASE memories' = memories /\ forgotten' = forgotten
      BY <2>1 DEF Known, Active
    <2>2. CASE pc[m] = "store" /\ Insert(m) /\ forgotten' = forgotten
      <3>1. m \notin Known
        BY <2>2 DEF StoredIsKnown
      <3> QED
        BY <2>2, <3>1 DEF Known, Active, Insert
    <2>3. CASE pc[m] = "update" /\ Retire(m) /\ forgotten' = forgotten
      <3>1. op[m].status # "active"
        BY <2>3 DEF JudgmentIsGuarded
      <3>2. \A i \in DOMAIN memories :
              [memories[i] EXCEPT !.status = op[m].status, !.replacedBy = m].status = op[m].status
        <4>1. \A i \in DOMAIN memories : memories[i] \in Rows
          BY DEF SaveTypes
        <4> QED
          BY <4>1 DEF Rows
      <3> QED
        BY <2>3, <3>1, <3>2 DEF Known, Active, Retire
    <2>4. CASE Forget(m)
      BY <2>4 DEF Forget, Known, Active
    <2> QED
      BY <2>1, <2>2, <2>3, <2>4
      DEF SaveBegins, SaveProceeds, Verified, Embedded, SaveFails, Stored, Screened, Judged,
          Updated, Audited, ConsolidationFails, SaveDropped, Only, storeVars
  <1> QED
    BY <1>2, <1>3 DEF Frame

(* The inductive invariant of the pushes.                                   *)
PushInv == PushTypes /\ PushSeesStore /\ RowsArePushes /\ PushNeverRepeats

(* A push is not disturbed by what the saves may do.                        *)
LEMMA PushFrame ==
    ASSUME PushInv, Frame, UNCHANGED pushVars
    PROVE  PushInv'
  <1> USE DEF PushInv, pushVars
  <1>1. PushTypes' /\ RowsArePushes' /\ PushNeverRepeats'
    BY DEF PushTypes, RowsArePushes, PushNeverRepeats
  <1>2. PushSeesStore'
    BY DEF PushSeesStore, Frame
  <1> QED
    BY <1>1, <1>2

(* A push that has begun is not the placeholder of one that has not.        *)
LEMMA PushIsNone == \A l \in PushLocals : l # NoPush
  <1> SUFFICES ASSUME NEW l \in PushLocals, l = NoPush PROVE FALSE
    OBVIOUS
  <1>1. "gone" \in DOMAIN l
    BY DEF PushLocals
  <1>2. "gone" \notin DOMAIN NoPush
    BY DEF NoPush
  <1> QED
    BY <1>1, <1>2

(* A table with one more row.                                               *)
LEMMA Appended ==
    ASSUME NEW S, NEW s \in Seq(S), NEW x \in S
    PROVE  /\ Append(s, x) \in Seq(S)
           /\ Len(Append(s, x)) = Len(s) + 1
           /\ DOMAIN Append(s, x) = DOMAIN s \cup {Len(s) + 1}
           /\ Append(s, x)[Len(s) + 1] = x
           /\ \A n \in DOMAIN s : Append(s, x)[n] = s[n] /\ n # Len(s) + 1
           /\ DOMAIN s = 1..Len(s) /\ Len(s) \in Nat
  OBVIOUS

(* The entries of a table are its rows.                                     *)
LEMMA Entries ==
    ASSUME NEW S, NEW s \in Seq(S), NEW n \in DOMAIN s
    PROVE  s[n] \in S
  OBVIOUS

(* Every row is the row of some push.                                       *)
LEMMA RowHasPush ==
    ASSUME PushTypes, NEW n \in DOMAIN pushed
    PROVE  pushed[n].push \in Pushes
  <1>1. pushed[n] \in [push : Pushes, session : Sessions, ids : SUBSET Memories]
    BY Entries DEF PushTypes
  <1> QED
    BY <1>1

(* Goto, for the pushes.                                                    *)
LEMMA PGotoMoves ==
    ASSUME PushTypes, NEW p \in Pushes, NEW next \in {"answered", "dropped"} \cup Pushing,
           NEW locals \in PushLocals, PGoto(p, next, locals)
    PROVE  /\ ppc' \in [Pushes -> {"idle", "answered", "dropped"} \cup Pushing]
           /\ push' \in [Pushes -> PushLocals \cup {NoPush}]
           /\ \A q \in Pushes : push'[q] = NoPush <=> ppc'[q] = "idle"
           /\ \A q \in Pushes : /\ ppc'[q] = IF q = p THEN next ELSE ppc[q]
                                /\ push'[q] = IF q = p THEN locals ELSE push[q]
  <1>1. next # "idle"
    BY DEF Pushing
  <1> QED
    BY <1>1, PushIsNone DEF PushTypes, PGoto

(* A push moves on, holding nothing but trusted memories that were live     *)
(* when it began and that no earlier row shows.                             *)
LEMMA PushMoves ==
    ASSUME PushInv, UNCHANGED <<memories, forgotten, op>>, NEW p \in Pushes,
           NEW next \in {"answered", "dropped"} \cup Pushing, NEW locals \in PushLocals,
           PGoto(p, next, locals), pushed' = pushed,
           ppc[p] # "idle" =>
              locals.session = push[p].session /\ locals.base = push[p].base,
           locals.gone \subseteq Known, locals.gone \cap Active = {},
           \A m \in locals.eligible \cup locals.surfaced :
              m \in Known /\ op[m].trusted /\ m \notin locals.gone,
           locals.base <= Len(pushed),
           \A i \in 1..locals.base : pushed[i].session = locals.session
                                        => pushed[i].ids \cap locals.surfaced = {}
    PROVE  PushInv'
  <1> USE DEF PushInv
  <1>1. /\ ppc' \in [Pushes -> {"idle", "answered", "dropped"} \cup Pushing]
        /\ push' \in [Pushes -> PushLocals \cup {NoPush}]
        /\ \A q \in Pushes : push'[q] = NoPush <=> ppc'[q] = "idle"
        /\ \A q \in Pushes : /\ ppc'[q] = IF q = p THEN next ELSE ppc[q]
                             /\ push'[q] = IF q = p THEN locals ELSE push[q]
    BY PGotoMoves
  <1>2. PushTypes'
    BY <1>1 DEF PushTypes
  <1>3. Known' = Known /\ Active' = Active
    BY DEF Known, Active
  <1>4. PushSeesStore'
    BY <1>1, <1>3 DEF PushSeesStore
  <1>5. \A n \in DOMAIN pushed : pushed[n].push \in Pushes
    BY RowHasPush
  <1>6. next # "idle"
    BY DEF Pushing
  <1>7. RowsArePushes'
    BY <1>1, <1>5, <1>6 DEF RowsArePushes
  <1>8. PushNeverRepeats'
    BY <1>1, <1>5 DEF PushNeverRepeats, RowsArePushes
  <1> QED
    BY <1>2, <1>4, <1>7, <1>8

(* The row of a push is written.                                            *)
LEMMA PushRowWritten ==
    ASSUME PushInv, UNCHANGED <<memories, forgotten, op>>, NEW p \in Pushes,
           NEW next \in {"touch", "dropped"}, ppc[p] = "record",
           NEW locals \in PushLocals, PGoto(p, next, locals),
           locals.session = push[p].session, locals.base = push[p].base,
           locals.gone = push[p].gone, locals.eligible = push[p].eligible,
           locals.surfaced \subseteq push[p].surfaced,
           pushed' = Append(pushed, PushRow(p))
    PROVE  PushInv'
  <1> USE DEF PushInv
  <1> DEFINE T == [push : Pushes, session : Sessions, ids : SUBSET Memories]
  <1>1. /\ ppc' \in [Pushes -> {"idle", "answered", "dropped"} \cup Pushing]
        /\ push' \in [Pushes -> PushLocals \cup {NoPush}]
        /\ \A q \in Pushes : push'[q] = NoPush <=> ppc'[q] = "idle"
        /\ \A q \in Pushes : /\ ppc'[q] = IF q = p THEN next ELSE ppc[q]
                             /\ push'[q] = IF q = p THEN locals ELSE push[q]
    <2>1. next \in {"answered", "dropped"} \cup Pushing
      BY DEF Pushing
    <2> QED
      BY <2>1, PGotoMoves
  <1>2. push[p] \in PushLocals
    BY DEF PushTypes
  <1>3. PushRow(p) \in T /\ pushed \in Seq(T)
    BY <1>2 DEF PushRow, PushLocals, PushTypes
  <1>4. /\ pushed' \in Seq(T) /\ Len(pushed') = Len(pushed) + 1
        /\ DOMAIN pushed' = DOMAIN pushed \cup {Len(pushed) + 1}
        /\ pushed'[Len(pushed) + 1] = PushRow(p)
        /\ \A n \in DOMAIN pushed : pushed'[n] = pushed[n]
        /\ DOMAIN pushed = 1..Len(pushed) /\ Len(pushed) \in Nat
    BY <1>3, Appended
  <1>5. PushTypes'
    BY <1>1, <1>4 DEF PushTypes
  <1>6. Known' = Known /\ Active' = Active
    BY DEF Known, Active
  <1>7. \A q \in Pushes : ppc[q] # "idle" =>
            /\ push[q].base \in Nat /\ push[q].base <= Len(pushed)
            /\ \A i \in 1..push[q].base : i \in DOMAIN pushed
    <2>1. \A q \in Pushes : ppc[q] # "idle" => push[q] \in PushLocals
      BY DEF PushTypes
    <2>2. \A q \in Pushes : ppc[q] # "idle" => push[q].base \in Nat
      BY <2>1 DEF PushLocals
    <2> QED
      BY <1>4, <2>2 DEF PushSeesStore
  <1>8. PushSeesStore'
    <2> SUFFICES ASSUME NEW q \in Pushes, ppc'[q] # "idle"
                 PROVE  /\ push'[q].gone \subseteq Known /\ push'[q].gone \cap Active = {}
                        /\ \A m \in push'[q].eligible \cup push'[q].surfaced :
                              m \in Known /\ op[m].trusted /\ m \notin push'[q].gone
                        /\ push'[q].base <= Len(pushed')
                        /\ \A i \in 1..push'[q].base :
                              pushed'[i].session = push'[q].session
                                 => pushed'[i].ids \cap push'[q].surfaced = {}
      BY <1>6 DEF PushSeesStore
    <2>1. ppc[q] # "idle" /\ push'[q].base = push[q].base /\ push'[q].session = push[q].session
          /\ push'[q].gone = push[q].gone /\ push'[q].eligible = push[q].eligible
          /\ push'[q].surfaced \subseteq push[q].surfaced
      BY <1>1
    <2>2. push'[q].base <= Len(pushed')
      BY <1>4, <1>7, <2>1
    <2>3. \A i \in 1..push'[q].base :
              pushed'[i].session = push'[q].session
                 => pushed'[i].ids \cap push'[q].surfaced = {}
      BY <1>4, <1>7, <2>1 DEF PushSeesStore
    <2> QED
      BY <2>1, <2>2, <2>3 DEF PushSeesStore
  <1>9. \A n \in DOMAIN pushed : pushed[n].push \in Pushes
    BY RowHasPush
  <1>10. PushRow(p).push = p /\ PushRow(p).session = push[p].session
         /\ PushRow(p).ids = push[p].surfaced
    BY DEF PushRow
  <1>11. RowsArePushes'
    BY <1>1, <1>4, <1>9, <1>10 DEF RowsArePushes
  <1>12. PushNeverRepeats'
    <2> SUFFICES ASSUME NEW n \in DOMAIN pushed', NEW i \in 1..push'[pushed'[n].push].base,
                        pushed'[i].session = pushed'[n].session
                 PROVE  pushed'[i].ids \cap pushed'[n].ids = {}
      BY DEF PushNeverRepeats
    <2>1. CASE n \in DOMAIN pushed
      <3>1. pushed'[n] = pushed[n] /\ ppc[pushed[n].push] # "idle" /\ pushed[n].push \in Pushes
        BY <1>4, <1>9, <2>1 DEF RowsArePushes
      <3>2. push'[pushed[n].push].base = push[pushed[n].push].base
        BY <1>1, <3>1
      <3>3. i \in 1..push[pushed[n].push].base /\ pushed'[i] = pushed[i]
        BY <1>4, <1>7, <3>1, <3>2
      <3> QED
        BY <2>1, <3>1, <3>3 DEF PushNeverRepeats
    <2>2. CASE n = Len(pushed) + 1
      <3>1. pushed'[n] = PushRow(p) /\ i \in 1..push[p].base
        BY <1>1, <1>4, <1>10, <2>2
      <3>2. pushed'[i] = pushed[i]
        BY <1>4, <1>7, <3>1
      <3> QED
        BY <1>10, <3>1, <3>2 DEF PushSeesStore
    <2> QED
      BY <1>4, <2>1, <2>2
  <1> QED
    BY <1>5, <1>8, <1>11, <1>12

(* Every step of a push keeps the invariant of the pushes.                  *)
LEMMA PushStep ==
    ASSUME StoreInv, PushInv, NEW p \in Pushes, PushBegins(p) \/ PushProceeds(p) \/ PushDropped(p)
    PROVE  PushInv'
  <1> USE DEF PushInv
  <1> DEFINE Nexts == {"answered", "dropped"} \cup Pushing
  <1>1. UNCHANGED <<memories, forgotten, op>>
    BY DEF PushBegins, PushProceeds, PushDropped, PushEmbedded, PushLoads, PushSelects,
           PushFailsOpen, PushRecorded, PushRefused, PushAnswers, storeVars, saveVars
  <1>2. /\ Known \subseteq Memories /\ Active \subseteq Known
        /\ \A m \in Active : memories[m].trusted = op[m].trusted
    BY DEF Known, Active, StoreInv, SaveTypes, RowIsItsSave
  <1>3. Len(pushed) \in Nat /\ DOMAIN pushed = 1..Len(pushed)
    BY DEF PushTypes
  <1>4. CASE PushBegins(p)
    <2>1. PICK s \in Sessions, next \in {"embed", "record"} :
            PGoto(p, next, [session |-> s, base |-> Len(pushed),
                            gone |-> forgotten \cup (DOMAIN memories \ Active),
                            eligible |-> {}, surfaced |-> {}])
      BY <1>4 DEF PushBegins
    <2> DEFINE locals == [session |-> s, base |-> Len(pushed),
                          gone |-> forgotten \cup (DOMAIN memories \ Active),
                          eligible |-> {}, surfaced |-> {}]
    <2>2. locals.gone \subseteq Known /\ locals.gone \cap Active = {}
      BY DEF Known, Active, StoreInv, SaveTypes
    <2>3. locals \in PushLocals
      BY <1>2, <1>3, <2>2 DEF PushLocals
    <2>4. /\ locals.base = Len(pushed) /\ locals.eligible = {} /\ locals.surfaced = {}
          /\ next \in Nexts
      BY DEF Pushing
    <2>5. PGoto(p, next, locals) /\ pushed' = pushed /\ ppc[p] = "idle"
      BY <1>4, <2>1 DEF PushBegins
    <2> HIDE DEF locals
    <2> QED
      BY <1>1, <1>3, <2>2, <2>3, <2>4, <2>5, PushMoves
  <1>5. ASSUME ppc[p] # "idle"
        PROVE  /\ push[p] \in PushLocals
               /\ push[p].gone \subseteq Known /\ push[p].gone \cap Active = {}
               /\ \A m \in push[p].eligible \cup push[p].surfaced :
                     m \in Known /\ op[m].trusted /\ m \notin push[p].gone
               /\ push[p].base <= Len(pushed)
               /\ \A i \in 1..push[p].base : pushed[i].session = push[p].session
                                                => pushed[i].ids \cap push[p].surfaced = {}
    BY <1>5 DEF PushTypes, PushSeesStore
  <1>6. ASSUME NEW next \in Nexts, ppc[p] # "idle", PGoto(p, next, push[p]), pushed' = pushed
        PROVE  PushInv'
    BY <1>1, <1>5, <1>6, PushMoves
  <1>7. CASE PushEmbedded(p) \/ PushFailsOpen(p) \/ PushAnswers(p)
    BY <1>6, <1>7 DEF PushEmbedded, PushFailsOpen, PushAnswers, Pushing
  <1>8. CASE PushLoads(p)
    <2>1. PICK near \in SUBSET Pushable :
            PGoto(p, "suppress", [push[p] EXCEPT !.eligible = near])
      BY <1>8 DEF PushLoads
    <2> DEFINE locals == [push[p] EXCEPT !.eligible = near]
    <2>2. near \subseteq Active /\ \A m \in near : memories[m].trusted
      BY DEF Pushable
    <2>3. ppc[p] # "idle" /\ pushed' = pushed
      BY <1>8 DEF PushLoads
    <2>4. near \in SUBSET Memories
      BY <1>2, <2>2
    <2>5. /\ locals \in PushLocals /\ locals.eligible = near
          /\ locals.surfaced = push[p].surfaced /\ locals.gone = push[p].gone
          /\ locals.session = push[p].session /\ locals.base = push[p].base
      <3>1. push[p] \in PushLocals
        BY <1>5, <2>3
      <3> QED
        BY <2>4, <3>1 DEF PushLocals
    <2>6. PGoto(p, "suppress", locals) /\ "suppress" \in Nexts
      BY <2>1 DEF Pushing
    <2> HIDE DEF locals
    <2>7. \A m \in near : m \in Known /\ op[m].trusted /\ m \notin push[p].gone
      BY <1>2, <1>5, <2>2, <2>3
    <2> QED
      BY <1>1, <1>5, <2>3, <2>5, <2>6, <2>7, PushMoves
  <1>9. CASE PushSelects(p)
    <2>1. PICK shown \in SUBSET (push[p].eligible \ AlreadyPushed(push[p].session)) :
            PGoto(p, "record", [push[p] EXCEPT !.surfaced = shown])
      BY <1>9 DEF PushSelects
    <2> DEFINE locals == [push[p] EXCEPT !.surfaced = shown]
    <2>2. ppc[p] # "idle" /\ pushed' = pushed
      BY <1>9 DEF PushSelects
    <2>3. push[p] \in PushLocals
      BY <1>5, <2>2
    <2>4. shown \subseteq push[p].eligible /\ shown \in SUBSET Memories
      BY <2>3 DEF PushLocals
    <2>5. /\ locals \in PushLocals /\ locals.surfaced = shown
          /\ locals.eligible = push[p].eligible /\ locals.gone = push[p].gone
          /\ locals.session = push[p].session /\ locals.base = push[p].base
          /\ push[p].base \in Nat
      BY <2>3, <2>4 DEF PushLocals
    <2>6. PGoto(p, "record", locals) /\ "record" \in Nexts
      BY <2>1 DEF Pushing
    <2>7. \A i \in DOMAIN pushed :
            pushed[i].session = push[p].session => pushed[i].ids \cap shown = {}
      BY DEF AlreadyPushed
    <2>8. \A i \in 1..push[p].base : i \in DOMAIN pushed
      BY <1>3, <1>5, <2>2, <2>5
    <2> HIDE DEF locals
    <2>9. \A m \in locals.eligible \cup locals.surfaced :
            m \in Known /\ op[m].trusted /\ m \notin locals.gone
      BY <1>5, <2>2, <2>4, <2>5
    <2>10. \A i \in 1..locals.base : pushed[i].session = locals.session
                                       => pushed[i].ids \cap locals.surfaced = {}
      BY <2>5, <2>7, <2>8
    <2>11. /\ locals.gone \subseteq Known /\ locals.gone \cap Active = {}
           /\ locals.base <= Len(pushed)
      BY <1>5, <2>2, <2>5
    <2> QED
      BY <1>1, <2>2, <2>5, <2>6, <2>9, <2>10, <2>11, PushMoves
  <1>10. ASSUME NEW next \in Nexts, ppc[p] # "idle", pushed' = pushed,
                PGoto(p, next, [push[p] EXCEPT !.surfaced = {}])
         PROVE  PushInv'
    <2> DEFINE locals == [push[p] EXCEPT !.surfaced = {}]
    <2>1. /\ locals \in PushLocals /\ locals.surfaced = {}
          /\ locals.eligible = push[p].eligible /\ locals.gone = push[p].gone
          /\ locals.session = push[p].session /\ locals.base = push[p].base
      <3>1. push[p] \in PushLocals
        BY <1>5, <1>10
      <3> QED
        BY <3>1 DEF PushLocals
    <2>2. PGoto(p, next, locals)
      BY <1>10
    <2> HIDE DEF locals
    <2> QED
      BY <1>1, <1>5, <1>10, <2>1, <2>2, PushMoves
  <1>11. CASE PushRefused(p)
    BY <1>10, <1>11 DEF PushRefused
  <1>12. CASE PushRecorded(p)
    <2>1. ppc[p] = "record" /\ PGoto(p, "touch", push[p]) /\ pushed' = Append(pushed, PushRow(p))
      BY <1>12 DEF PushRecorded
    <2>2. push[p] \in PushLocals
      BY <1>5, <2>1
    <2> QED
      BY <1>1, <2>1, <2>2, PushRowWritten
  <1>13. CASE PushDropped(p)
    <2>1. ppc[p] # "idle" /\ PGoto(p, "dropped", [push[p] EXCEPT !.surfaced = {}])
      BY <1>13 DEF PushDropped, Pushing
    <2>2. CASE UNCHANGED pushed
      BY <1>10, <2>1, <2>2
    <2>3. CASE ppc[p] = "record" /\ pushed' = Append(pushed, PushRow(p))
      <3> DEFINE locals == [push[p] EXCEPT !.surfaced = {}]
      <3>1. push[p] \in PushLocals
        BY <1>5, <2>1
      <3>2. /\ locals \in PushLocals /\ locals.surfaced = {}
            /\ locals.eligible = push[p].eligible /\ locals.gone = push[p].gone
            /\ locals.session = push[p].session /\ locals.base = push[p].base
        BY <3>1 DEF PushLocals
      <3>3. PGoto(p, "dropped", locals)
        BY <2>1
      <3> HIDE DEF locals
      <3> QED
        BY <1>1, <2>3, <3>2, <3>3, PushRowWritten
    <2> QED
      BY <1>13, <2>2, <2>3 DEF PushDropped
  <1> QED
    BY <1>4, <1>7, <1>8, <1>9, <1>11, <1>12, <1>13 DEF PushProceeds
-----------------------------------------------------------------------------
(* The steps of the pushes leave the store alone.                           *)
LEMMA StoreFrame ==
    ASSUME StoreInv, UNCHANGED <<band, pc, op, memories, forgotten, audit, unaudited>>
    PROVE  StoreInv'
  BY DEF StoreInv, SaveTypes, StoredIsKnown, AfterHasEnded, RowIsItsSave, RivalIsOlder,
         JudgmentIsGuarded, RetirementIsJudged, RowFollowsRetirement, AuditedIsKnown,
         AuditExplainsStore, Known, Retired, Precedes

(* Init establishes the inductive invariant.                                *)
LEMMA InitIInv == Init => IInv
  <1> SUFFICES ASSUME Init PROVE IInv
    OBVIOUS
  <1> USE MemoryAssumption
  <1>1. PICK standing \in [Standing -> [kind : Kinds, trusted : BOOLEAN]] :
        /\ op = [m \in Memories |->
                    IF m \in Standing
                    THEN [kind |-> standing[m].kind, trusted |-> standing[m].trusted,
                          after |-> {}, old |-> "none", status |-> "active"]
                    ELSE NoSave]
        /\ memories = [m \in Standing |->
                    [kind |-> standing[m].kind, trusted |-> standing[m].trusted,
                     status |-> "active", replacedBy |-> "none"]]
    BY DEF Init
  <1>2. /\ pc = [m \in Memories |-> IF m \in Standing THEN "saved" ELSE "idle"]
        /\ forgotten = {} /\ audit = {} /\ unaudited = {} /\ pushed = <<>>
        /\ ppc = [p \in Pushes |-> "idle"] /\ push = [p \in Pushes |-> NoPush]
        /\ band \in [Pairs -> Bands]
    BY DEF Init
  <1>3. \A m \in Standing :
            /\ standing[m].kind \in Kinds /\ standing[m].trusted \in BOOLEAN
            /\ m \in Memories /\ op[m] \in Saves /\ memories[m] \in Rows
            /\ op[m].kind = memories[m].kind /\ op[m].trusted = memories[m].trusted
            /\ op[m].after = {} /\ memories[m].status = "active"
    BY <1>1 DEF Saves, Rows, Statuses
  <1>4. SaveTypes
    <2>1. op \in [Memories -> Saves \cup {NoSave}]
      BY <1>1, <1>3
    <2>2. \A m \in Memories : op[m] = NoSave <=> pc[m] = "idle"
      BY <1>1, <1>2, <1>3, SaveIsNone
    <2>3. DOMAIN memories = Standing /\ memories \in [DOMAIN memories -> Rows]
      BY <1>1, <1>3
    <2> QED
      BY <1>2, <2>1, <2>2, <2>3 DEF SaveTypes, Ended
  <1>5. DOMAIN memories = Standing /\ Known = Standing
    BY <1>1, <1>2 DEF Known
  <1>6. StoredIsKnown /\ RivalIsOlder /\ JudgmentIsGuarded /\ RowFollowsRetirement
    BY <1>2, <1>5 DEF StoredIsKnown, RivalIsOlder, JudgmentIsGuarded, RowFollowsRetirement
  <1>7. AfterHasEnded
    BY <1>2, <1>3 DEF AfterHasEnded, Precedes
  <1>8. RowIsItsSave /\ RetirementIsJudged /\ AuditExplainsStore /\ AuditedIsKnown
    BY <1>2, <1>3, <1>5 DEF RowIsItsSave, RetirementIsJudged, AuditExplainsStore,
                            AuditedIsKnown, Retired
  <1>9. PushTypes
    BY <1>2 DEF PushTypes
  <1>10. PushSeesStore /\ RowsArePushes /\ PushNeverRepeats
    BY <1>2 DEF PushSeesStore, RowsArePushes, PushNeverRepeats
  <1> QED
    BY <1>4, <1>6, <1>7, <1>8, <1>9, <1>10 DEF IInv, StoreInv

(* Every step preserves the inductive invariant.                            *)
LEMMA NextIInv == IInv /\ [Next]_vars => IInv'
  <1> SUFFICES ASSUME StoreInv, PushInv, [Next]_vars PROVE StoreInv' /\ PushInv'
    BY DEF IInv, PushInv
  <1>1. ASSUME NEW m \in Memories,
               SaveBegins(m) \/ SaveProceeds(m) \/ SaveDropped(m) \/ Forget(m)
        PROVE  StoreInv' /\ PushInv'
    <2>1. StoreInv'
      BY <1>1, SaveStep, MemoryForgotten
    <2>2. UNCHANGED pushVars
      BY <1>1 DEF SaveBegins, SaveProceeds, Verified, Embedded, SaveFails, Stored, Screened,
                  Judged, Updated, Audited, ConsolidationFails, SaveDropped, Forget
    <2> QED
      BY <1>1, <2>1, <2>2, SaveFrame, PushFrame
  <1>2. ASSUME NEW p \in Pushes, PushBegins(p) \/ PushProceeds(p) \/ PushDropped(p)
        PROVE  StoreInv' /\ PushInv'
    <2>1. UNCHANGED <<band, pc, op, memories, forgotten, audit, unaudited>>
      BY <1>2 DEF PushBegins, PushProceeds, PushDropped, PushEmbedded, PushLoads, PushSelects,
                  PushFailsOpen, PushRecorded, PushRefused, PushAnswers, storeVars, saveVars
    <2> QED
      BY <1>2, <2>1, PushStep, StoreFrame
  <1>3. CASE UNCHANGED vars
    <2>1. Frame
      BY <1>3 DEF Frame, vars, saveVars, storeVars, Known, Active
    <2> QED
      BY <1>3, <2>1, StoreFrame, PushFrame DEF vars, saveVars, storeVars
  <1> QED
    BY <1>1, <1>2, <1>3 DEF Next

(* The inductive invariant holds in every reachable state.                  *)
THEOREM Inductive == Spec => []IInv
  <1> QED
    BY InitIInv, NextIInv, PTL DEF Spec
-----------------------------------------------------------------------------
(* Every variable keeps its type, for any memories, pushes and sessions.    *)
THEOREM TypeCorrect == Spec => []TypeOK
  <1>1. IInv => TypeOK
    BY DEF IInv, StoreInv, SaveTypes, PushTypes, TypeOK
  <1> QED
    BY <1>1, Inductive, PTL

(* A retirement goes forward, whatever saves overlap: never to itself, never *)
(* to another kind, never to a memory whose save ended before this one's    *)
(* began (consolidate::screen).                                             *)
THEOREM RetirementGoesForward == Spec => []NewerRetiresOlder
  <1>1. IInv => NewerRetiresOlder
    BY MemoryAssumption DEF IInv, StoreInv, RetirementIsJudged, RowIsItsSave, NewerRetiresOlder
  <1> QED
    BY <1>1, Inductive, PTL

(* The merge guard holds: no trusted memory is merged into an untrusted one, *)
(* however saves interleave, fail or are dropped (consolidate::apply).      *)
THEOREM MergeGuardHolds == Spec => []MergeKeepsTrust
  <1>1. IInv => MergeKeepsTrust
    <2> SUFFICES ASSUME IInv, NEW m \in DOMAIN memories,
                        memories[m].status = "merged", memories[m].trusted
                 PROVE  op[memories[m].replacedBy].trusted
      BY DEF MergeKeepsTrust
    <2>1. Retired(m) /\ op[m].trusted = memories[m].trusted
      BY DEF Retired, IInv, StoreInv, RowIsItsSave
    <2> QED
      BY <2>1 DEF IInv, StoreInv, RetirementIsJudged
  <1> QED
    BY <1>1, Inductive, PTL

(* The audit trail explains every retirement, and records none that did not *)
(* happen (tools.rs consolidate_admission).                                 *)
THEOREM TrailExplainsStore == Spec => []AuditExplainsStore
  <1>1. IInv => AuditExplainsStore
    BY DEF IInv, StoreInv
  <1> QED
    BY <1>1, Inductive, PTL

(* A save is answered for what it stored (tools.rs save_spent).             *)
THEOREM AnswersAreTrue == Spec => []AnsweredSavesAreStored
  <1>1. IInv => AnsweredSavesAreStored
    BY DEF IInv, StoreInv, StoredIsKnown, Known, AnsweredSavesAreStored
  <1> QED
    BY <1>1, Inductive, PTL

(* No step brings back a forgotten memory or revives a retired one, even    *)
(* the write of a consolidation that still holds its id.                    *)
THEOREM NoStepRevives == Spec => NothingReturns
  <1> DEFINE Stay == \A m \in Memories :
                       /\ m \in forgotten => m \notin DOMAIN memories'
                       /\ Retired(m) /\ m \in DOMAIN memories' => memories'[m].status # "active"
  <1>1. IInv /\ [Next]_vars => [Stay]_vars
    <2> SUFFICES ASSUME IInv, Next PROVE Stay
      OBVIOUS
    <2>1. SaveTypes /\ SaveTypes'
      BY NextIInv DEF IInv, StoreInv
    <2>2. forgotten \subseteq forgotten' /\ Frame
      <3>1. ASSUME NEW m \in Memories,
                   SaveBegins(m) \/ SaveProceeds(m) \/ SaveDropped(m) \/ Forget(m)
            PROVE  forgotten \subseteq forgotten' /\ Frame
        <4>1. forgotten \subseteq forgotten'
          BY <3>1 DEF SaveBegins, SaveProceeds, Verified, Embedded, SaveFails, Stored, Screened,
                      Judged, Updated, Audited, ConsolidationFails, SaveDropped, Forget, storeVars
        <4> QED
          BY <3>1, <4>1, SaveFrame DEF IInv
      <3>2. ASSUME NEW p \in Pushes, PushBegins(p) \/ PushProceeds(p) \/ PushDropped(p)
            PROVE  forgotten \subseteq forgotten' /\ Frame
        <4>1. UNCHANGED <<op, memories, forgotten>>
          BY <3>2 DEF PushBegins, PushProceeds, PushDropped, PushEmbedded, PushLoads, PushSelects,
                      PushFailsOpen, PushRecorded, PushRefused, PushAnswers, storeVars, saveVars
        <4> QED
          BY <4>1 DEF Frame, Known, Active
      <3> QED
        BY <3>1, <3>2 DEF Next
    <2> QED
      BY <2>1, <2>2 DEF SaveTypes, Frame, Known, Active, Retired
  <1> QED
    BY <1>1, Inductive, PTL DEF Spec, NothingReturns

(* Push honors the quarantine and the status its session began with         *)
(* (push::select).                                                          *)
THEOREM PushIsQuarantined == Spec => []PushHonorsStore
  <1>1. IInv => PushHonorsStore
    BY DEF IInv, PushSeesStore, PushHonorsStore
  <1> QED
    BY <1>1, Inductive, PTL

(* A push repeats nothing that a row stored when it began shows (FR-005).   *)
THEOREM PushIsFresh == Spec => []PushNeverRepeats
  <1>1. IInv => PushNeverRepeats
    BY DEF IInv
  <1> QED
    BY <1>1, Inductive, PTL
-----------------------------------------------------------------------------
(* The standing memories' saves are over, and consolidated nothing.         *)
StandingIsOver == \A s \in Standing : pc[s] = "saved" /\ op[s].old = "none"

(* A step takes one save that is not over a step further, and does not      *)
(* change what came before it once it has begun.                            *)
LEMMA OneSaveMoves ==
    ASSUME StoreInv, NEW m \in Memories, SaveBegins(m) \/ SaveProceeds(m) \/ SaveDropped(m)
    PROVE  /\ pc[m] \notin Ended
           /\ \A n \in Memories \ {m} : pc'[n] = pc[n] /\ op'[n] = op[n]
           /\ pc[m] # "idle" => pc'[m] # "idle" /\ op'[m].after = op[m].after
  <1> USE DEF StoreInv
  <1>1. pc[m] \notin Ended /\ \A n \in Memories \ {m} : pc'[n] = pc[n]
    BY DEF SaveBegins, SaveProceeds, SaveDropped, Verified, Embedded, SaveFails, Stored,
           Screened, Judged, Updated, Audited, ConsolidationFails, Only, Goto, Saving, Ended,
           SaveTypes
  <1>2. CASE SaveBegins(m)
    BY <1>1, <1>2 DEF SaveBegins, SaveTypes
  <1>3. CASE Screened(m) \/ Judged(m)
    <2>1. op[m] \in Saves
      BY <1>3, SavingHasLocals DEF Screened, Judged
    <2>2. pc'[m] # "idle"
      BY <1>3 DEF Screened, Judged, Goto, SaveTypes
    <2>3. op' = op \/ (\E o : op' = [op EXCEPT ![m].old = o])
                   \/ \E status : op' = [op EXCEPT ![m].status = status]
      BY <1>3 DEF Screened, Judged
    <2>4. CASE op' = op
      BY <1>1, <2>2, <2>4
    <2>5. ASSUME NEW o, op' = [op EXCEPT ![m].old = o]
          PROVE  /\ \A n \in Memories \ {m} : op'[n] = op[n]
                 /\ op'[m].after = op[m].after
      <3>1. [op[m] EXCEPT !.old = o].after = op[m].after
        BY <2>1 DEF Saves
      <3> QED
        BY <2>5, <3>1 DEF SaveTypes
    <2>6. ASSUME NEW status, op' = [op EXCEPT ![m].status = status]
          PROVE  /\ \A n \in Memories \ {m} : op'[n] = op[n]
                 /\ op'[m].after = op[m].after
      <3>1. [op[m] EXCEPT !.status = status].after = op[m].after
        BY <2>1 DEF Saves
      <3> QED
        BY <2>6, <3>1 DEF SaveTypes
    <2> QED
      BY <1>1, <2>2, <2>3, <2>4, <2>5, <2>6
  <1>4. CASE \/ Verified(m) \/ Embedded(m) \/ SaveFails(m) \/ Stored(m) \/ Updated(m)
             \/ Audited(m) \/ ConsolidationFails(m) \/ SaveDropped(m)
    <2>1. op' = op
      BY <1>4 DEF Verified, Embedded, SaveFails, Stored, Updated, Audited, ConsolidationFails,
                  SaveDropped
    <2>2. pc'[m] # "idle"
      BY <1>4 DEF Verified, Embedded, SaveFails, Stored, Updated, Audited, ConsolidationFails,
                  SaveDropped, Only, Goto, SaveTypes
    <2> QED
      BY <1>1, <2>1, <2>2
  <1> QED
    BY <1>2, <1>3, <1>4 DEF SaveProceeds

(* A save about to retire its rival is itself active, when saves do not     *)
(* overlap: whoever retired it would have begun after it ended.             *)
LEMMA RetirerIsActive ==
    ASSUME StoreInv, StandingIsOver, Serial, forgotten = {}, NEW m \in Memories, pc[m] = "update"
    PROVE  m \in Active
  <1> USE DEF StoreInv
  <1>1. m \in DOMAIN memories /\ m \notin Standing
    BY DEF StoredIsKnown, Known, StandingIsOver
  <1>2. ASSUME Retired(m) PROVE FALSE
    <2>1. PICK r \in Memories : /\ pc[r] # "idle" /\ r # m /\ op[r].old = m /\ ~Precedes(r, m)
      BY <1>1, <1>2 DEF RetirementIsJudged
    <2>2. r \notin Standing
      BY <2>1, MemoryAssumption DEF StandingIsOver
    <2>3. Precedes(m, r)
      BY <1>1, <2>1, <2>2 DEF Serial
    <2> QED
      BY <2>1, <2>3 DEF AfterHasEnded, Ended
  <1> QED
    BY <1>1, <1>2 DEF Active, Retired

(* A step of the saves keeps an active memory in the store.                 *)
LEMMA SerialSaveStep ==
    ASSUME StoreInv, StandingIsOver, SerialSavesKeepAMemory, NEW m \in Memories,
           SaveBegins(m) \/ SaveProceeds(m) \/ SaveDropped(m)
    PROVE  StandingIsOver' /\ SerialSavesKeepAMemory'
  <1> USE DEF StoreInv
  <1>1. StandingIsOver'
    BY OneSaveMoves, MemoryAssumption DEF StandingIsOver, Ended
  <1>2. Serial' => Serial
    <2> SUFFICES ASSUME Serial', NEW x \in Memories \ Standing, NEW y \in Memories \ Standing,
                        x # y, pc[x] # "idle", pc[y] # "idle"
                 PROVE  Precedes(x, y) \/ Precedes(y, x)
      BY DEF Serial
    <2>1. /\ pc'[x] # "idle" /\ pc'[y] # "idle"
          /\ op'[x].after = op[x].after /\ op'[y].after = op[y].after
      BY OneSaveMoves
    <2> QED
      BY <2>1 DEF Serial, Precedes
  <1>3. SerialSavesKeepAMemory'
    <2> SUFFICES ASSUME Serial', forgotten' = {}, DOMAIN memories' # {} PROVE Active' # {}
      BY DEF SerialSavesKeepAMemory
    <2>1. Serial /\ forgotten = {}
      BY <1>2 DEF SaveBegins, SaveProceeds, SaveDropped, Verified, Embedded, SaveFails, Stored,
                  Screened, Judged, Updated, Audited, ConsolidationFails, storeVars
    <2>2. CASE memories' = memories
      BY <2>1, <2>2 DEF SerialSavesKeepAMemory, Active
    <2>3. CASE Insert(m)
      <3>1. memories'[m].status = "active" /\ m \in DOMAIN memories'
        BY <2>3 DEF Insert
      <3> QED
        BY <3>1 DEF Active
    <2>4. CASE pc[m] = "update" /\ Retire(m)
      <3>1. m \in Active /\ op[m].old # m
        BY <2>1, <2>4, RetirerIsActive DEF RivalIsOlder
      <3>2. m \in DOMAIN memories' /\ memories'[m] = memories[m]
        BY <2>4, <3>1 DEF Retire, Active
      <3> QED
        BY <3>1, <3>2 DEF Active
    <2> QED
      BY <2>2, <2>3, <2>4 DEF SaveBegins, SaveProceeds, SaveDropped, Verified, Embedded,
         SaveFails, Stored, Screened, Judged, Updated, Audited, ConsolidationFails, Only, storeVars
  <1> QED
    BY <1>1, <1>3

(* Saves that do not overlap, and no forget, never leave the store without  *)
(* an active memory: none of them retires the last one (tools.rs).          *)
THEOREM SerialSavesKeepOne == Spec => []SerialSavesKeepAMemory
  <1> DEFINE Inv == IInv /\ StandingIsOver /\ SerialSavesKeepAMemory
  <1>1. Init => Inv
    <2> SUFFICES ASSUME Init PROVE StandingIsOver /\ SerialSavesKeepAMemory
      BY InitIInv
    <2>1. StandingIsOver
      BY MemoryAssumption DEF Init, StandingIsOver
    <2>2. SerialSavesKeepAMemory
      BY DEF Init, SerialSavesKeepAMemory, Active
    <2> QED
      BY <2>1, <2>2
  <1>2. Inv /\ [Next]_vars => Inv'
    <2> SUFFICES ASSUME Inv, [Next]_vars PROVE StandingIsOver' /\ SerialSavesKeepAMemory'
      BY NextIInv
    <2>1. StoreInv
      BY DEF IInv
    <2>2. ASSUME NEW m \in Memories, SaveBegins(m) \/ SaveProceeds(m) \/ SaveDropped(m)
          PROVE  StandingIsOver' /\ SerialSavesKeepAMemory'
      BY <2>1, <2>2, SerialSaveStep
    <2>3. ASSUME NEW m \in Memories, Forget(m)
          PROVE  StandingIsOver' /\ SerialSavesKeepAMemory'
      BY <2>3 DEF Forget, saveVars, StandingIsOver, SerialSavesKeepAMemory
    <2>4. CASE UNCHANGED <<pc, op, memories, forgotten>>
      BY <2>4 DEF StandingIsOver, SerialSavesKeepAMemory, Serial, Precedes, Active
    <2>5. ASSUME NEW p \in Pushes, PushBegins(p) \/ PushProceeds(p) \/ PushDropped(p)
          PROVE  UNCHANGED <<pc, op, memories, forgotten>>
      BY <2>5 DEF PushBegins, PushProceeds, PushDropped, PushEmbedded, PushLoads, PushSelects,
                  PushFailsOpen, PushRecorded, PushRefused, PushAnswers, storeVars, saveVars
    <2> QED
      BY <2>2, <2>3, <2>4, <2>5 DEF Next, vars, saveVars, storeVars
  <1> QED
    BY <1>1, <1>2, PTL DEF Spec

(* A retirement points forward and a merge keeps the trust of what it       *)
(* retires (consolidate.rs).                                                *)
THEOREM RetirementsStaySound == Spec => []RetirementsAreSound
  <1>1. NewerRetiresOlder /\ MergeKeepsTrust => RetirementsAreSound
    BY DEF RetirementsAreSound
  <1> QED
    BY <1>1, RetirementGoesForward, MergeGuardHolds, PTL

(* An answered save is stored, and serial saves never retire the last       *)
(* active memory (tools.rs save_spent).                                     *)
THEOREM SavesStayKept == Spec => []SavesAreKept
  <1>1. SerialSavesKeepAMemory /\ AnsweredSavesAreStored => SavesAreKept
    BY DEF SavesAreKept
  <1> QED
    BY <1>1, SerialSavesKeepOne, AnswersAreTrue, PTL

(* A push shows the session what it may see, and shows it once.             *)
THEOREM PushStaysSound == Spec => []PushIsSound
  <1>1. PushHonorsStore /\ PushNeverRepeats => PushIsSound
    BY DEF PushIsSound
  <1> QED
    BY <1>1, PushIsQuarantined, PushIsFresh, PTL
=============================================================================
