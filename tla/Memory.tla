------------------------------- MODULE Memory -------------------------------
(***************************************************************************)
(* The memory store and its tools: save with admission-time consolidation  *)
(* (memory/tools.rs, memory/consolidate.rs), forget, and the prompt-time   *)
(* push (memory/push.rs), over the memories, consolidation_records and     *)
(* push_records tables (storage/sqlite.rs).                                *)
(*                                                                         *)
(* A save stores its memory, then loads the store, screens it for the best *)
(* active pair, asks the model how the two relate and retires the other    *)
(* one.  No transaction spans these steps: saves, pushes and forgets       *)
(* interleave, any call may fail, and a request may be dropped at any      *)
(* await.  A save is known by the id of the memory it stores.              *)
(***************************************************************************)
EXTENDS Naturals, Sequences, FiniteSets

CONSTANTS
    Memories,   \* memory ids, one per save
    Standing,   \* the memories stored before the behaviour begins
    Kinds,      \* lesson, fact, skill
    Bands,      \* the cosine bands this behaviour draws from: far, near, twin
    Pushes,     \* the prompt-time evaluations
    Sessions,   \* the harness sessions
    PushCap     \* PUSH_CAP

ASSUME MemoryAssumption ==
    /\ Standing \subseteq Memories
    /\ Bands \subseteq {"far", "near", "twin"}
    /\ PushCap \in Nat \ {0}
    /\ "none" \notin Memories

VARIABLES
    band,       \* the cosine band of each pair of memories
    pc,         \* the await each save is suspended at
    op,         \* the locals and the answer of each save
    memories,   \* the memories table: a record per stored id
    forgotten,  \* history: ids deleted by forget
    audit,      \* the set of consolidation_records: who was retired, for whom
    unaudited,  \* history: saves whose audit write was refused or dropped
    ppc,        \* the await each push is suspended at
    push,       \* the locals of each push
    pushed      \* the push_records table

saveVars == <<pc, op>>
pushVars == <<ppc, push, pushed>>
storeVars == <<memories, forgotten, audit, unaudited>>
vars == <<band, saveVars, storeVars, pushVars>>

Pairs == {p \in SUBSET Memories : Cardinality(p) = 2}
Statuses == {"active", "superseded", "merged"}
Rows == [kind : Kinds, trusted : BOOLEAN, status : Statuses,
         replacedBy : Memories \cup {"none"}]
Saving == {"verify", "embed", "store", "load", "judge", "update", "audit"}
Ended == {"saved", "error", "dropped"}

NoSave == [kind |-> "none"]
Saves == [kind : Kinds, trusted : BOOLEAN, after : SUBSET Memories,
          old : Memories \cup {"none"}, status : Statuses]

Pushing == {"embed", "load", "suppress", "record", "touch"}
NoPush == [session |-> "none"]
PushLocals == [session : Sessions, base : Nat, gone : SUBSET Memories,
               eligible : SUBSET Memories, surfaced : SUBSET Memories]

TypeOK ==
    /\ band \in [Pairs -> Bands]
    /\ pc \in [Memories -> {"idle"} \cup Saving \cup Ended]
    /\ op \in [Memories -> Saves \cup {NoSave}]
    /\ \A m \in Memories : op[m] = NoSave <=> pc[m] = "idle"
    /\ DOMAIN memories \subseteq Memories /\ memories \in [DOMAIN memories -> Rows]
    /\ forgotten \subseteq Memories \ DOMAIN memories
    /\ audit \subseteq [source : Memories, target : Memories, action : Statuses]
    /\ unaudited \subseteq Memories
    /\ ppc \in [Pushes -> {"idle", "answered", "dropped"} \cup Pushing]
    /\ push \in [Pushes -> PushLocals \cup {NoPush}]
    /\ pushed \in Seq([push : Pushes, session : Sessions, ids : SUBSET Memories])

(* The standing memories were saved and never consolidated.                 *)
Init ==
    /\ band \in [Pairs -> Bands]
    /\ pc = [m \in Memories |-> IF m \in Standing THEN "saved" ELSE "idle"]
    /\ \E standing \in [Standing -> [kind : Kinds, trusted : BOOLEAN]] :
        /\ op = [m \in Memories |->
                    IF m \in Standing
                    THEN [kind |-> standing[m].kind, trusted |-> standing[m].trusted,
                          after |-> {}, old |-> "none", status |-> "active"]
                    ELSE NoSave]
        /\ memories = [m \in Standing |->
                    [kind |-> standing[m].kind, trusted |-> standing[m].trusted,
                     status |-> "active", replacedBy |-> "none"]]
    /\ forgotten = {} /\ audit = {} /\ unaudited = {}
    /\ ppc = [p \in Pushes |-> "idle"]
    /\ push = [p \in Pushes |-> NoPush]
    /\ pushed = <<>>
-----------------------------------------------------------------------------
Goto(m, next) == pc' = [pc EXCEPT ![m] = next]
Only(m, from, next) == pc[m] = from /\ Goto(m, next)

(* save: inputs are checked; only an external content that asked for it is  *)
(* verified, and trust is derived, never claimed.                           *)
SaveBegins(m) ==
    /\ pc[m] = "idle"
    /\ \E kind \in Kinds, trust \in {"first_hand", "untrusted", "verify"} :
        /\ Goto(m, IF trust = "verify" THEN "verify" ELSE "embed")
        /\ op' = [op EXCEPT ![m] =
                    [kind |-> kind, trusted |-> trust # "untrusted",
                     after |-> {s \in Memories : pc[s] \in Ended},
                     old |-> "none", status |-> "active"]]
    /\ UNCHANGED <<band, storeVars, pushVars>>

Verified(m) == Only(m, "verify", "embed") /\ UNCHANGED <<band, op, storeVars, pushVars>>

Embedded(m) == Only(m, "embed", "store") /\ UNCHANGED <<band, op, storeVars, pushVars>>

(* Refuted content, or any failing call before the memory is stored.        *)
SaveFails(m) ==
    /\ pc[m] \in {"verify", "embed", "store"}
    /\ Goto(m, "error")
    /\ UNCHANGED <<band, op, storeVars, pushVars>>

Insert(m) ==
    memories' = [i \in DOMAIN memories \cup {m} |->
        IF i = m THEN [kind |-> op[m].kind, trusted |-> op[m].trusted,
                       status |-> "active", replacedBy |-> "none"]
        ELSE memories[i]]

Stored(m) ==
    /\ Only(m, "store", "load")
    /\ Insert(m)
    /\ UNCHANGED <<band, op, forgotten, audit, unaudited, pushVars>>

Active == {m \in DOMAIN memories : memories[m].status = "active"}

(* ranking::cosine, by its band; a memory is as close as can be to itself.  *)
Cosine(m, o) == IF m = o THEN "twin" ELSE band[{m, o}]

(* consolidate::screen: the best active memory of the kind, itself aside,   *)
(* at or above SUPERSEDE_SCREEN_TAU.                                        *)
Screen(m) ==
    LET rivals == {o \in Active \ {m} : memories[o].kind = op[m].kind /\ Cosine(m, o) # "far"}
        twins == {o \in rivals : Cosine(m, o) = "twin"}
    IN  IF twins # {} THEN twins ELSE rivals

(* load_memories, then the screen.                                          *)
Screened(m) ==
    /\ pc[m] = "load"
    /\ \/ Screen(m) = {} /\ Goto(m, "saved") /\ UNCHANGED op
       \/ \E o \in Screen(m) : Goto(m, "judge") /\ op' = [op EXCEPT ![m].old = o]
    /\ UNCHANGED <<band, storeVars, pushVars>>

(* Defect: the merge has no trust guard.                                    *)
ApplyUnguarded(relation, m, o) ==
    CASE relation = "updates" -> "superseded"
      [] relation = "same_assertion" /\ Cosine(m, o) = "twin" -> "merged"
      [] OTHER -> "active"

(* consolidate::apply.  "active" stands for keeping both.                   *)
Apply(relation, m, o) ==
    CASE relation = "updates" -> "superseded"
      [] relation = "same_assertion" /\ Cosine(m, o) = "twin"
            /\ (op[m].trusted \/ ~op[o].trusted) -> "merged"
      [] OTHER -> "active"

(* judge: the hop's relation; distinct and context_specific keep both.      *)
Judged(m) ==
    /\ pc[m] = "judge"
    /\ \E relation \in {"updates", "same_assertion", "distinct"} :
          LET status == Apply(relation, m, op[m].old)
          IN  /\ op' = [op EXCEPT ![m].status = status]
              /\ Goto(m, IF status = "active" THEN "saved" ELSE "update")
    /\ UNCHANGED <<band, storeVars, pushVars>>

(* Defect: the status write is an upsert.                                   *)
RetireUpsert(m) ==
    memories' = [i \in DOMAIN memories \cup {op[m].old} |->
        IF i = op[m].old
        THEN [kind |-> op[i].kind, trusted |-> op[i].trusted,
              status |-> op[m].status, replacedBy |-> m]
        ELSE memories[i]]

(* update_memory_status: no precondition on the status it overwrites, and   *)
(* no error when the row is gone.                                           *)
Retire(m) ==
    memories' = [i \in DOMAIN memories |->
        IF i = op[m].old
        THEN [memories[i] EXCEPT !.status = op[m].status, !.replacedBy = m]
        ELSE memories[i]]

Updated(m) ==
    /\ Only(m, "update", "audit")
    /\ Retire(m)
    /\ UNCHANGED <<band, op, forgotten, audit, unaudited, pushVars>>

(* Defect: source and target of the audit row are swapped.                  *)
AuditRowSwapped(m) == [source |-> m, target |-> op[m].old, action |-> op[m].status]

AuditRow(m) == [source |-> op[m].old, target |-> m, action |-> op[m].status]

Audited(m) ==
    /\ Only(m, "audit", "saved")
    /\ audit' = audit \cup {AuditRow(m)}
    /\ UNCHANGED <<band, op, memories, forgotten, unaudited, pushVars>>

(* Defect: a failing consolidation fails the save.                          *)
ConsolidationFailsLoudly(m) ==
    /\ pc[m] \in {"load", "judge", "update", "audit"}
    /\ Goto(m, "error")
    /\ unaudited' = IF pc[m] = "audit" THEN unaudited \cup {m} ELSE unaudited
    /\ UNCHANGED <<band, op, memories, forgotten, audit, pushVars>>

(* Any failure of the consolidation, the judgment's budget included, is     *)
(* logged and the save succeeds; what was done before stays done.           *)
ConsolidationFails(m) ==
    /\ pc[m] \in {"load", "judge", "update", "audit"}
    /\ Goto(m, "saved")
    /\ unaudited' = IF pc[m] = "audit" THEN unaudited \cup {m} ELSE unaudited
    /\ UNCHANGED <<band, op, memories, forgotten, audit, pushVars>>

(* The request is dropped; a write in flight happened or not.               *)
SaveDropped(m) ==
    /\ pc[m] \in Saving
    /\ Goto(m, "dropped")
    /\ \/ /\ unaudited' = IF pc[m] = "audit" THEN unaudited \cup {m} ELSE unaudited
          /\ UNCHANGED <<memories, audit>>
       \/ pc[m] = "store" /\ Insert(m) /\ UNCHANGED <<audit, unaudited>>
       \/ /\ pc[m] = "update" /\ Retire(m)
          /\ unaudited' = unaudited \cup {m} /\ UNCHANGED audit
       \/ /\ pc[m] = "audit" /\ audit' = audit \cup {AuditRow(m)}
          /\ UNCHANGED <<memories, unaudited>>
    /\ UNCHANGED <<band, op, forgotten, pushVars>>

(* forget: one DELETE, whatever the memory's status.                        *)
Forget(m) ==
    /\ m \in DOMAIN memories
    /\ memories' = [i \in DOMAIN memories \ {m} |-> memories[i]]
    /\ forgotten' = forgotten \cup {m}
    /\ UNCHANGED <<band, saveVars, audit, unaudited, pushVars>>
-----------------------------------------------------------------------------
PGoto(p, next, locals) ==
    /\ ppc' = [ppc EXCEPT ![p] = next]
    /\ push' = [push EXCEPT ![p] = locals]

(* push::run; an empty prompt goes straight to its row.                     *)
PushBegins(p) ==
    /\ ppc[p] = "idle"
    /\ \E s \in Sessions, next \in {"embed", "record"} :
         PGoto(p, next, [session |-> s, base |-> Len(pushed),
                         gone |-> forgotten \cup (DOMAIN memories \ Active),
                         eligible |-> {}, surfaced |-> {}])
    /\ UNCHANGED <<band, saveVars, storeVars, pushed>>

PushEmbedded(p) ==
    /\ ppc[p] = "embed" /\ PGoto(p, "load", push[p])
    /\ UNCHANGED <<band, saveVars, storeVars, pushed>>

(* Defect: quarantined memories are pushed too.                             *)
PushableUntrusted == Active

(* select: active, trusted; PUSH_RELEVANCE_TAU leaves any subset of them.   *)
Pushable == {m \in Active : memories[m].trusted}

PushLoads(p) ==
    /\ ppc[p] = "load"
    /\ \E near \in SUBSET Pushable :
          PGoto(p, "suppress", [push[p] EXCEPT !.eligible = near])
    /\ UNCHANGED <<band, saveVars, storeVars, pushed>>

(* pushed_memory_ids *)
AlreadyPushed(s) ==
    UNION {pushed[n].ids : n \in {i \in DOMAIN pushed : pushed[i].session = s}}

(* select: the PUSH_CAP most relevant that the session has not been shown.  *)
PushSelects(p) ==
    LET fresh == push[p].eligible \ AlreadyPushed(push[p].session)
    IN  /\ ppc[p] = "suppress"
        /\ \E shown \in SUBSET fresh :
             /\ Cardinality(shown) = IF Cardinality(fresh) < PushCap
                                     THEN Cardinality(fresh) ELSE PushCap
             /\ PGoto(p, "record", [push[p] EXCEPT !.surfaced = shown])
        /\ UNCHANGED <<band, saveVars, storeVars, pushed>>

(* A failing call, or PUSH_BUDGET_MS: a silent, fail-open row.              *)
PushFailsOpen(p) ==
    /\ ppc[p] \in {"embed", "load", "suppress"}
    /\ PGoto(p, "record", push[p])
    /\ UNCHANGED <<band, saveVars, storeVars, pushed>>

PushRow(p) == [push |-> p, session |-> push[p].session, ids |-> push[p].surfaced]

PushRecorded(p) ==
    /\ ppc[p] = "record" /\ PGoto(p, "touch", push[p])
    /\ pushed' = Append(pushed, PushRow(p))
    /\ UNCHANGED <<band, saveVars, storeVars>>

(* Only the audit write propagates: the caller sees an error.               *)
PushRefused(p) ==
    /\ ppc[p] = "record" /\ PGoto(p, "answered", [push[p] EXCEPT !.surfaced = {}])
    /\ UNCHANGED <<band, saveVars, storeVars, pushed>>

(* touch_reinforcement, its failure ignored, moves only the decay clock.    *)
PushAnswers(p) ==
    /\ ppc[p] = "touch" /\ PGoto(p, "answered", push[p])
    /\ UNCHANGED <<band, saveVars, storeVars, pushed>>

PushDropped(p) ==
    /\ ppc[p] \in Pushing /\ PGoto(p, "dropped", [push[p] EXCEPT !.surfaced = {}])
    /\ \/ UNCHANGED pushed
       \/ ppc[p] = "record" /\ pushed' = Append(pushed, PushRow(p))
    /\ UNCHANGED <<band, saveVars, storeVars>>
-----------------------------------------------------------------------------
SaveProceeds(m) ==
    \/ Verified(m) \/ Embedded(m) \/ SaveFails(m) \/ Stored(m) \/ Screened(m)
    \/ Judged(m) \/ Updated(m) \/ Audited(m) \/ ConsolidationFails(m)

PushProceeds(p) ==
    \/ PushEmbedded(p) \/ PushLoads(p) \/ PushSelects(p) \/ PushFailsOpen(p)
    \/ PushRecorded(p) \/ PushRefused(p) \/ PushAnswers(p)

Next ==
    \/ \E m \in Memories : SaveBegins(m) \/ SaveProceeds(m) \/ SaveDropped(m) \/ Forget(m)
    \/ \E p \in Pushes : PushBegins(p) \/ PushProceeds(p) \/ PushDropped(p)

Spec == Init /\ [][Next]_vars
-----------------------------------------------------------------------------
Retired(m) == m \in DOMAIN memories /\ memories[m].status # "active"

(* Save m had ended when save n began.                                      *)
Precedes(m, n) == m \in op[n].after

(* Whatever saves overlap, a retirement goes forward: the memory it points  *)
(* at is another one, of the same kind, whose save did not end before the   *)
(* save of the retired one began (consolidate::screen, the id excluded).    *)
NewerRetiresOlder ==
    \A m \in DOMAIN memories : Retired(m) =>
        LET r == memories[m].replacedBy
        IN  /\ r # m /\ r # "none" /\ op[r].kind = memories[m].kind
            /\ ~Precedes(r, m)

(* The trust guard holds across interleavings: a trusted memory is merged   *)
(* away only into a trusted one (consolidate::apply, research D4).          *)
MergeKeepsTrust ==
    \A m \in DOMAIN memories :
        memories[m].status = "merged" /\ memories[m].trusted => op[memories[m].replacedBy].trusted

(* The audit trail explains the store: a retired memory has the row of the  *)
(* retirement its columns show, unless that row is still to be written or   *)
(* its write was lost; and a row names a memory that is retired or gone.    *)
AuditExplainsStore ==
    /\ \A m \in DOMAIN memories : Retired(m) =>
          LET r == memories[m].replacedBy
          IN  \/ [source |-> m, target |-> r, action |-> memories[m].status] \in audit
              \/ pc[r] = "audit" \/ r \in unaudited
    /\ \A a \in audit : a.source \in DOMAIN memories => Retired(a.source)

(* One save at a time leaves the knowledge in the store: as long as every   *)
(* save began after all others ended, and nothing was forgotten, some       *)
(* stored memory is active.                                                 *)
Serial == \A m, n \in Memories \ Standing :
    (m # n /\ pc[m] # "idle" /\ pc[n] # "idle") => Precedes(m, n) \/ Precedes(n, m)

SerialSavesKeepAMemory ==
    Serial /\ forgotten = {} /\ DOMAIN memories # {} => Active # {}

(* A save is answered for what it stored: one answered with success is in   *)
(* the store until it is forgotten, one that failed never was there, and    *)
(* consolidation changes neither answer.                                    *)
AnsweredSavesAreStored ==
    \A m \in Memories :
        /\ pc[m] = "saved" => m \in DOMAIN memories \cup forgotten
        /\ pc[m] = "error" => m \notin DOMAIN memories \cup forgotten

(* A retirement is sound: it points forward, and a merge keeps the trust of *)
(* what it retires (consolidate.rs).                                        *)
RetirementsAreSound == NewerRetiresOlder /\ MergeKeepsTrust

(* What was saved is kept: an answered save is stored, and serial saves     *)
(* never retire the last active memory (tools.rs save_spent).               *)
SavesAreKept == SerialSavesKeepAMemory /\ AnsweredSavesAreStored

(* A forgotten memory never comes back, whatever consolidation still holds  *)
(* its id, and a retired one never becomes active again.                    *)
NothingReturns ==
    [][\A m \in Memories :
        /\ m \in forgotten => m \notin DOMAIN memories'
        /\ Retired(m) /\ m \in DOMAIN memories' => memories'[m].status # "active"]_vars

(* The quarantine and the status hold for push: what a push surfaces is     *)
(* trusted and was neither retired nor forgotten before the push began.     *)
PushHonorsStore ==
    \A p \in Pushes : ppc[p] # "idle" =>
        \A m \in push[p].surfaced : op[m].trusted /\ m \notin push[p].gone

(* A push never repeats what a row stored before the push began shows the   *)
(* session has been given (select, FR-005).                                 *)
PushNeverRepeats ==
    \A n \in DOMAIN pushed : \A i \in 1..push[pushed[n].push].base :
        pushed[i].session = pushed[n].session => pushed[i].ids \cap pushed[n].ids = {}

(* A push shows the session what it may see, and shows it once (push.rs).   *)
PushIsSound == PushHonorsStore /\ PushNeverRepeats

(* tasks.md T008: untrusted admission vs trusted existing - keep both       *)
(* regardless of relation.                                                  *)
TrustedKeptFromUntrusted ==
    \A m \in DOMAIN memories :
        Retired(m) /\ memories[m].trusted => op[memories[m].replacedBy].trusted

(* tools.rs: admission consolidation is fail-open, any failure keeps both.  *)
FailureKeepsBoth ==
    \A m \in unaudited : pc[m] = "saved" /\ op[m].old \in DOMAIN memories
                            => memories[op[m].old].status = "active"

(* FR-004: the same assertion stored twice merges into one canonical active *)
(* record - with the saves overlapping and the guard passing.               *)
OneCanonicalActive ==
    (forgotten = {} /\ DOMAIN memories # {}) => Active # {}
=============================================================================
