------------------------------ MODULE Boot_proofs ------------------------------
(***************************************************************************)
(* Proofs about Boot, for any processes, environments and memories, any    *)
(* efforts and any number of launches.                                     *)
(*                                                                         *)
(* Columns are only added, so what a process found is still there later;   *)
(* what it did not find is in its list until it adds it, and whoever       *)
(* finds that another was faster is gone.                                  *)
(***************************************************************************)
EXTENDS Boot, TLAPS

MemoryColumns == ColumnsOf("memories")
InvocationColumns == ColumnsOf("invocation_records")

(* What process p knows of the columns, from where it stands.               *)
KnowsColumns(p) ==
    /\ phase[p] = "altering" =>
          todo[p] \subseteq MemoryColumns /\ MemoryColumns \subseteq columns \cup todo[p]
    /\ phase[p] \in {"invocations", "extending", "building", "serving", "answering"} =>
          MemoryColumns \subseteq columns
    /\ phase[p] = "extending" =>
          todo[p] \subseteq InvocationColumns /\ InvocationColumns \subseteq columns \cup todo[p]
    /\ phase[p] \in {"building", "serving", "answering"} => InvocationColumns \subseteq columns

(* Who added the column that has to be stamped knows it, until it stamps.   *)
StampingIsOwed ==
    /\ \A p \in stamping : phase[p] = "altering" /\ added[p]
    /\ ~Readable => cut \/ stamping # {}

(* The call that Answer takes.                                              *)
CallOf(tool, verifying, effort) ==
    [tool |-> tool, verifying |-> verifying, effort |-> effort,
     attributed |-> Attributed(env, tool, verifying),
     clients |-> Clients(env, tool, verifying, effort),
     embeds |-> Embeds(env, tool)]

(* What a process answers is a call of its catalog.                         *)
AnswersACall(p) ==
    /\ phase[p] \in {"serving", "answering"} => env.root # "missing"
    /\ phase[p] = "answering" =>
          \E tool \in Catalog(env), verifying \in BOOLEAN, effort \in CallEfforts :
              /\ verifying => tool = "save"
              /\ effort # NoEffort => tool \in Correctives \cup {"grounded_verify"}
              /\ row[p] = CallOf(tool, verifying, effort)

Inv ==
    /\ TypeOK /\ DOMAIN row = Processes
    /\ \A p \in Processes : KnowsColumns(p) /\ AnswersACall(p)
    /\ StampingIsOwed
-----------------------------------------------------------------------------
(* The columns of the two tables are told apart.                            *)
LEMMA Tables ==
    /\ MemoryColumns = {"status", "replaced_by", "last_reinforced_at"}
    /\ InvocationColumns = {"models", "usage_by_model", "depth", "effort", "passes"}
    /\ AllColumns = MemoryColumns \cup InvocationColumns
  <1>1. MemoryColumns = {"status", "replaced_by", "last_reinforced_at"}
    <2> DEFINE s == <<"status", "replaced_by", "last_reinforced_at">>
    <2>1. DOMAIN s = {1, 2, 3} /\ s[1] = "status" /\ s[2] = "replaced_by" /\ s[3] = "last_reinforced_at"
      OBVIOUS
    <2>2. MemoryColumns = {s[x] : x \in DOMAIN s}
      BY DEF MemoryColumns, ColumnsOf, Range, Additions
    <2> HIDE DEF s
    <2> QED
      BY <2>1, <2>2
  <1>2. InvocationColumns = {"models", "usage_by_model", "depth", "effort", "passes"}
    <2> DEFINE s == <<"models", "usage_by_model", "depth", "effort", "passes">>
    <2>1. /\ DOMAIN s = {1, 2, 3, 4, 5} /\ s[1] = "models" /\ s[2] = "usage_by_model"
          /\ s[3] = "depth" /\ s[4] = "effort" /\ s[5] = "passes"
      OBVIOUS
    <2>2. InvocationColumns = {s[x] : x \in DOMAIN s}
      BY DEF InvocationColumns, ColumnsOf, Range, Additions
    <2> HIDE DEF s
    <2> QED
      BY <2>1, <2>2
  <1> QED
    BY <1>1, <1>2 DEF AllColumns, MemoryColumns, InvocationColumns

(* A release left a database with some of the columns.                      *)
LEMMA ReleasesTyped == \A c \in Releases : c \subseteq AllColumns
  <1> DEFINE s == Additions.invocation_records
  <1>1. ASSUME NEW k \in {0, 2, 3, 5} PROVE {s[i] : i \in 1..k} \subseteq InvocationColumns
    <2>1. DOMAIN s = 1..5
      BY DEF Additions
    <2>2. InvocationColumns = {s[x] : x \in DOMAIN s}
      BY DEF InvocationColumns, ColumnsOf, Range
    <2>3. \A i \in 1..k : i \in 1..5
      OBVIOUS
    <2> HIDE DEF s
    <2> QED
      BY <2>1, <2>2, <2>3
  <1> QED
    BY <1>1, Tables DEF Releases, MemoryColumns
-----------------------------------------------------------------------------
(* No process has started, and a release left the tables whole.             *)
LEMMA InvInit == Init => Inv
  <1> SUFFICES ASSUME Init PROVE Inv
    OBVIOUS
  <1>1. TypeOK
    <2>1. columns \subseteq AllColumns /\ launches \in 0..MaxLaunches
      BY ReleasesTyped, BootAssumption DEF Init
    <2> QED
      BY <2>1 DEF Init, TypeOK, Phases, Endings
  <1>2. DOMAIN row = Processes /\ StampingIsOwed
    BY DEF Init, StampingIsOwed, Readable
  <1>3. \A p \in Processes : KnowsColumns(p) /\ AnswersACall(p)
    BY DEF Init, KnowsColumns, AnswersACall
  <1> QED
    BY <1>1, <1>2, <1>3 DEF Inv

(* A step of p leaves the others what they know: columns are only added.    *)
LEMMA OthersKept ==
    ASSUME Inv, NEW p \in Processes, columns \subseteq columns', env' = env,
           \A q \in Processes \ {p} : phase'[q] = phase[q] /\ todo'[q] = todo[q] /\ row'[q] = row[q],
           TypeOK', DOMAIN row' = Processes, KnowsColumns(p)', AnswersACall(p)', StampingIsOwed'
    PROVE  Inv'
  <1>1. ASSUME NEW q \in Processes \ {p} PROVE KnowsColumns(q)' /\ AnswersACall(q)'
    <2>1. KnowsColumns(q)'
      BY DEF Inv, KnowsColumns
    <2>2. AnswersACall(q)'
      BY DEF Inv, AnswersACall, CallOf
    <2> QED
      BY <2>1, <2>2
  <1> QED
    BY <1>1 DEF Inv

(* A process that ends owes nothing but, if it was about to stamp, a cut.   *)
LEMMA ExitKeeps ==
    ASSUME Inv, NEW p \in Processes, NEW how \in Endings, Exit(p, how),
           UNCHANGED <<env, database, todo, added, launches>>
    PROVE  Inv'
  <1>1. TypeOK'
    BY DEF Inv, TypeOK, Exit, Goto, database, Phases
  <1>2. DOMAIN row' = Processes /\ phase'[p] = "over"
    BY DEF Inv, TypeOK, Exit, Goto
  <1>3. StampingIsOwed'
    <2>1. \A q \in stamping \ {p} : phase'[q] = "altering" /\ added'[q]
      BY DEF Inv, TypeOK, Exit, Goto, StampingIsOwed
    <2>2. ~Readable => cut' \/ stamping \ {p} # {}
      BY DEF Inv, Exit, StampingIsOwed
    <2> QED
      BY <2>1, <2>2 DEF Exit, StampingIsOwed, Readable, database
  <1> QED
    BY <1>1, <1>2, <1>3, OthersKept
       DEF Inv, TypeOK, Exit, Goto, KnowsColumns, AnswersACall, database

(* A process goes on in its boot without touching the database.             *)
LEMMA LaunchKeeps ==
    ASSUME Inv, NEW p \in Processes, Launch(p)
    PROVE  Inv'
  <1>1. p \notin stamping
    BY DEF Inv, Launch, StampingIsOwed
  <1>2. PICK next \in {"opening", "over"} : Goto(p, next)
    BY DEF Launch
  <1>3. TypeOK'
    BY BootAssumption DEF Inv, TypeOK, Launch, Goto, database, Phases, Endings
  <1>4. StampingIsOwed'
    BY <1>1, <1>2 DEF Inv, TypeOK, Launch, Goto, StampingIsOwed, Readable, database
  <1> QED
    BY <1>2, <1>3, <1>4, OthersKept
       DEF Inv, TypeOK, Launch, Goto, KnowsColumns, AnswersACall, database

(* The connection, and the tables of the first release, change no column.   *)
LEMMA OpenKeeps ==
    ASSUME Inv, NEW p \in Processes, Open(p)
    PROVE  Inv'
  <1>1. TypeOK'
    BY DEF Inv, TypeOK, Open, Goto, database, Phases
  <1>2. StampingIsOwed'
    BY DEF Inv, TypeOK, Open, Goto, StampingIsOwed, Readable, database
  <1> QED
    BY <1>1, <1>2, OthersKept
       DEF Inv, TypeOK, Open, Goto, KnowsColumns, AnswersACall, database

(* What the PRAGMA does not list goes on the list, and nothing else does.   *)
LEMMA InspectKeeps ==
    ASSUME Inv, NEW p \in Processes, InspectMemories(p) \/ InspectInvocations(p)
    PROVE  Inv'
  <1>1. CASE InspectMemories(p)
    <2>1. todo' = [todo EXCEPT ![p] = MemoryColumns \ columns] /\ Goto(p, "altering")
          /\ phase[p] = "memories"
          /\ UNCHANGED <<env, columns, memories, unstamped, added, launches, ending, row, stamping, cut>>
      BY <1>1 DEF InspectMemories, Inspect, MemoryColumns, database
    <2>2. TypeOK'
      BY <2>1, Tables DEF Inv, TypeOK, Goto, Phases
    <2>3. KnowsColumns(p)' /\ AnswersACall(p)'
      BY <2>1 DEF Inv, TypeOK, Goto, KnowsColumns, AnswersACall
    <2>4. StampingIsOwed'
      BY <2>1 DEF Inv, TypeOK, Goto, StampingIsOwed, Readable
    <2> QED
      BY <2>1, <2>2, <2>3, <2>4, OthersKept DEF Inv, TypeOK, Goto
  <1>2. CASE InspectInvocations(p)
    <2>1. todo' = [todo EXCEPT ![p] = InvocationColumns \ columns] /\ Goto(p, "extending")
          /\ phase[p] = "invocations"
          /\ UNCHANGED <<env, columns, memories, unstamped, added, launches, ending, row, stamping, cut>>
      BY <1>2 DEF InspectInvocations, Inspect, InvocationColumns, database
    <2>2. TypeOK'
      BY <2>1, Tables DEF Inv, TypeOK, Goto, Phases
    <2>3. KnowsColumns(p)' /\ AnswersACall(p)'
      BY <2>1 DEF Inv, TypeOK, Goto, KnowsColumns, AnswersACall
    <2>4. StampingIsOwed'
      BY <2>1 DEF Inv, TypeOK, Goto, StampingIsOwed, Readable
    <2> QED
      BY <2>1, <2>2, <2>3, <2>4, OthersKept DEF Inv, TypeOK, Goto
  <1> QED
    BY <1>1, <1>2

(* A column that is added leaves the list, and one that another added ends  *)
(* the boot; the last of a table's owes its stamps.                         *)
LEMMA AlterKeeps ==
    ASSUME Inv, NEW p \in Processes, Alter(p)
    PROVE  Inv'
  <1>1. PICK c \in todo[p] :
            \/ Exit(p, "duplicate") /\ UNCHANGED <<env, database, todo, added, launches>>
            \/ c \notin columns /\ AddColumn(p, c, c = "last_reinforced_at") /\ UNCHANGED <<env, launches>>
    BY DEF Alter
  <1>2. CASE Exit(p, "duplicate") /\ UNCHANGED <<env, database, todo, added, launches>>
    BY <1>2, ExitKeeps DEF Endings
  <1>3. CASE AddColumn(p, c, c = "last_reinforced_at") /\ UNCHANGED <<env, launches>>
    <2>1. c \in AllColumns /\ todo[p] \subseteq AllColumns
      BY DEF Inv, TypeOK
    <2>2. TypeOK'
      <3>1. columns' \subseteq AllColumns /\ todo' \in [Processes -> SUBSET AllColumns]
        BY <1>3, <2>1 DEF Inv, TypeOK, AddColumn
      <3>2. added' \in [Processes -> BOOLEAN]
        BY <1>3, Zenon DEF Inv, TypeOK, AddColumn
      <3>3. unstamped' \subseteq memories' /\ stamping' \subseteq Processes
        BY <1>3 DEF Inv, TypeOK, AddColumn
      <3> QED
        BY <1>3, <3>1, <3>2, <3>3 DEF Inv, TypeOK, AddColumn
    <2>3. KnowsColumns(p)' /\ AnswersACall(p)'
      BY <1>3 DEF Inv, TypeOK, Alter, AddColumn, KnowsColumns, AnswersACall
    <2>4. StampingIsOwed'
      <3>1. CASE c = "last_reinforced_at"
        <4>1. phase[p] = "altering"
          <5>1. c \notin InvocationColumns
            BY <3>1, Tables
          <5> QED
            BY <5>1 DEF Inv, KnowsColumns, Alter
        <4>2. added'[p] /\ \A q \in Processes \ {p} : added'[q] = added[q]
          BY <1>3, <3>1 DEF Inv, TypeOK, AddColumn
        <4> QED
          BY <1>3, <3>1, <4>1, <4>2 DEF Inv, StampingIsOwed, AddColumn
      <3>2. CASE c # "last_reinforced_at"
        <4>1. \A q \in Processes : added[q] => added'[q]
          BY <1>3 DEF Inv, TypeOK, AddColumn
        <4> QED
          BY <1>3, <3>2, <4>1 DEF Inv, TypeOK, StampingIsOwed, AddColumn, Readable
      <3> QED
        BY <3>1, <3>2
    <2> QED
      BY <1>3, <2>2, <2>3, <2>4, OthersKept DEF Inv, TypeOK, AddColumn
  <1> QED
    BY <1>1, <1>2, <1>3

(* The UPDATE pays what the boot owes.                                      *)
LEMMA BackfillKeeps ==
    ASSUME Inv, NEW p \in Processes, Backfill(p)
    PROVE  Inv'
  <1>1. TypeOK'
    BY DEF Inv, TypeOK, Backfill, Goto, Phases
  <1>2. KnowsColumns(p)' /\ AnswersACall(p)'
    BY DEF Inv, TypeOK, Backfill, Goto, KnowsColumns, AnswersACall
  <1>3. StampingIsOwed'
    <2>1. \A q \in stamping \ {p} : phase'[q] = "altering" /\ added'[q]
      BY DEF Inv, TypeOK, Backfill, Goto, StampingIsOwed
    <2>2. ~Readable' => cut \/ stamping \ {p} # {}
      BY DEF Inv, TypeOK, Backfill, StampingIsOwed, Readable
    <2> QED
      BY <2>1, <2>2 DEF Backfill, StampingIsOwed
  <1> QED
    BY <1>1, <1>2, <1>3, OthersKept DEF Inv, TypeOK, Backfill, Goto

(* A list that is empty leaves a complete table.                            *)
LEMMA MigratedKeeps ==
    ASSUME Inv, NEW p \in Processes, Migrated(p)
    PROVE  Inv'
  <1>1. TypeOK'
    BY DEF Inv, TypeOK, Migrated, Goto, database, Phases
  <1>2. KnowsColumns(p)' /\ AnswersACall(p)'
    BY DEF Inv, TypeOK, Migrated, Goto, KnowsColumns, AnswersACall, database
  <1>3. StampingIsOwed'
    BY DEF Inv, TypeOK, Migrated, Goto, StampingIsOwed, Readable, database
  <1> QED
    BY <1>1, <1>2, <1>3, OthersKept DEF Inv, TypeOK, Migrated, Goto, database

(* What serves has resolved its root.                                       *)
LEMMA BuildKeeps ==
    ASSUME Inv, NEW p \in Processes, Build(p)
    PROVE  Inv'
  <1>1. CASE \E how \in Endings : Exit(p, how)
    BY <1>1, ExitKeeps DEF Build
  <1>2. CASE /\ Goto(p, "serving") /\ env.root # "missing"
             /\ UNCHANGED <<ending, row, stamping, cut>>
    <2>1. TypeOK'
      BY <1>2 DEF Inv, TypeOK, Build, Goto, database, Phases
    <2>2. KnowsColumns(p)' /\ AnswersACall(p)'
      BY <1>2 DEF Inv, TypeOK, Build, Goto, KnowsColumns, AnswersACall, database
    <2>3. StampingIsOwed'
      BY <1>2 DEF Inv, TypeOK, Build, Goto, StampingIsOwed, Readable, database
    <2> QED
      BY <1>2, <2>1, <2>2, <2>3, OthersKept DEF Inv, TypeOK, Build, Goto, database
  <1> QED
    BY <1>1, <1>2 DEF Build, Endings

(* A call is of the catalog.                                                *)
LEMMA AnswerKeeps ==
    ASSUME Inv, NEW p \in Processes, Answer(p)
    PROVE  Inv'
  <1>1. PICK tool \in Catalog(env), verifying \in BOOLEAN, effort \in CallEfforts :
            /\ verifying => tool = "save"
            /\ effort # NoEffort => tool \in Correctives \cup {"grounded_verify"}
            /\ row' = [row EXCEPT ![p] = CallOf(tool, verifying, effort)]
    BY DEF Answer, CallOf
  <1>2. /\ phase[p] = "serving" /\ Goto(p, "answering")
        /\ UNCHANGED <<env, columns, memories, unstamped, todo, added, launches, ending, stamping, cut>>
    BY DEF Answer, database
  <1>3. TypeOK' /\ DOMAIN row' = Processes
    BY <1>1, <1>2 DEF Inv, TypeOK, Goto, Phases
  <1>4. KnowsColumns(p)'
    BY <1>2 DEF Inv, TypeOK, Goto, KnowsColumns
  <1>5. AnswersACall(p)'
    <2>1. row'[p] = CallOf(tool, verifying, effort) /\ env.root # "missing" /\ env' = env
      BY <1>1, <1>2 DEF Inv, AnswersACall
    <2>2. CallOf(tool, verifying, effort)' = CallOf(tool, verifying, effort)
      BY <2>1 DEF CallOf
    <2> HIDE DEF CallOf
    <2> QED
      BY <1>1, <2>1, <2>2 DEF AnswersACall, CallOf
  <1>6. StampingIsOwed'
    BY <1>2 DEF Inv, TypeOK, Goto, StampingIsOwed, Readable
  <1> QED
    BY <1>1, <1>2, <1>3, <1>4, <1>5, <1>6, OthersKept DEF Inv, TypeOK, Goto

(* A reply stores or forgets a memory with its timestamp.                   *)
LEMMA RepliedKeeps ==
    ASSUME Inv, NEW p \in Processes, Replied(p)
    PROVE  Inv'
  <1>1. memories' \subseteq Memories
    BY DEF Inv, TypeOK, Replied
  <1>2. TypeOK' /\ DOMAIN row' = Processes
    BY <1>1 DEF Inv, TypeOK, Replied, Goto, Phases
  <1>3. KnowsColumns(p)' /\ AnswersACall(p)'
    BY DEF Inv, TypeOK, Replied, Goto, KnowsColumns, AnswersACall
  <1>4. StampingIsOwed'
    BY DEF Inv, TypeOK, Replied, Goto, StampingIsOwed, Readable
  <1> QED
    BY <1>2, <1>3, <1>4, OthersKept DEF Inv, TypeOK, Replied, Goto

(* Every step keeps the invariant.                                          *)
LEMMA InvStep == Inv /\ [Next]_vars => Inv'
  <1> SUFFICES ASSUME Inv, [Next]_vars PROVE Inv'
    OBVIOUS
  <1>1. CASE UNCHANGED vars
    BY <1>1 DEF vars, Inv, TypeOK, KnowsColumns, AnswersACall, CallOf, StampingIsOwed, Readable
  <1>2. ASSUME NEW p \in Processes, StatementFails(p) \/ Shutdown(p) \/ Killed(p) PROVE Inv'
    <2>1. PICK how \in Endings : Exit(p, how)
      BY <1>2 DEF StatementFails, Shutdown, Killed, Endings
    <2> QED
      BY <1>2, <2>1, ExitKeeps DEF StatementFails, Shutdown, Killed
  <1> QED
    BY <1>1, <1>2, LaunchKeeps, OpenKeeps, InspectKeeps, AlterKeeps, BackfillKeeps, MigratedKeeps,
       BuildKeeps, AnswerKeeps, RepliedKeeps DEF Next, Boots

(* So it holds in every run.                                                *)
LEMMA Inductive == Spec => []Inv
  BY InvInit, InvStep, PTL DEF Spec
-----------------------------------------------------------------------------
(* The life of the processes is well-formed in every run.                   *)
THEOREM TypeCorrect == Spec => []TypeOK
  <1>1. Inv => TypeOK
    BY DEF Inv
  <1> QED
    BY <1>1, Inductive, PTL

(* The migration is sound, however many processes boot at once or are       *)
(* killed between two statements (migrate_memory_columns).                  *)
THEOREM MigrationStaysSound == Spec => []MigrationIsSound
  <1>1. Inv => MigrationIsSound
    BY Tables DEF Inv, TypeOK, KnowsColumns, StampingIsOwed, MigrationIsSound
  <1> QED
    BY <1>1, Inductive, PTL
-----------------------------------------------------------------------------
(* The process that is about to stamp is the one whose list said so, and    *)
(* the column is there.                                                     *)
StamperIsKnown ==
    /\ \A p \in Processes : phase[p] \in {"opening", "memories"} => ~added[p]
    /\ \A p \in Processes : phase[p] = "altering" /\ added[p] => p \in stamping
    /\ stamping # {} => "last_reinforced_at" \in columns

(* Nobody is about to stamp when nobody has started.                        *)
LEMMA StamperInit == Init => StamperIsKnown
  BY DEF Init, StamperIsKnown

(* A step of p that is not an ALTER changes no list that p still goes by.   *)
LEMMA StamperKept ==
    ASSUME TypeOK, StamperIsKnown, NEW p \in Processes, columns' = columns,
           \A q \in Processes \ {p} : phase'[q] = phase[q] /\ added'[q] = added[q],
           \/ /\ stamping' = stamping \ {p} /\ phase'[p] \notin {"opening", "memories", "altering"}
           \/ /\ stamping' = stamping /\ ~added'[p]
           \/ /\ stamping' = stamping /\ phase'[p] \notin {"opening", "memories", "altering"}
    PROVE  StamperIsKnown'
  BY DEF StamperIsKnown

(* Every step keeps who is about to stamp known.                            *)
LEMMA StamperStep == TypeOK /\ StamperIsKnown /\ [Next]_vars => StamperIsKnown'
  <1> SUFFICES ASSUME TypeOK, StamperIsKnown, [Next]_vars PROVE StamperIsKnown'
    OBVIOUS
  <1> USE DEF TypeOK
  <1>1. CASE UNCHANGED vars
    BY <1>1 DEF vars, StamperIsKnown
  <1>2. ASSUME NEW p \in Processes, NEW how \in Endings, Exit(p, how),
               UNCHANGED <<env, database, todo, added, launches>>
        PROVE  StamperIsKnown'
    BY <1>2, StamperKept DEF Exit, Goto, database
  <1>3. ASSUME NEW p \in Processes, StatementFails(p) \/ Shutdown(p) \/ Killed(p) PROVE StamperIsKnown'
    BY <1>2, <1>3 DEF StatementFails, Shutdown, Killed, Endings
  <1>4. ASSUME NEW p \in Processes, Launch(p) PROVE StamperIsKnown'
    BY <1>4, StamperKept DEF Launch, Goto, database
  <1>5. ASSUME NEW p \in Processes, Open(p) \/ InspectMemories(p) PROVE StamperIsKnown'
    <2>1. phase[p] \in {"opening", "memories"} /\ ~added[p]
      BY <1>5 DEF Open, InspectMemories, Inspect, StamperIsKnown
    <2> QED
      BY <1>5, <2>1, StamperKept DEF Open, InspectMemories, Inspect, Goto, database
  <1>6. ASSUME NEW p \in Processes, Alter(p) PROVE StamperIsKnown'
    <2>1. PICK c \in todo[p] :
              \/ Exit(p, "duplicate") /\ UNCHANGED <<env, database, todo, added, launches>>
              \/ AddColumn(p, c, c = "last_reinforced_at")
      BY <1>6 DEF Alter
    <2>2. CASE AddColumn(p, c, c = "last_reinforced_at")
      <3>1. CASE c = "last_reinforced_at"
        BY <1>6, <2>2, <3>1 DEF Alter, AddColumn, StamperIsKnown
      <3>2. CASE c # "last_reinforced_at"
        <4>1. \A q \in Processes : added'[q] = added[q]
          BY <2>2, <3>2 DEF AddColumn
        <4> QED
          BY <2>2, <3>2, <4>1 DEF AddColumn, StamperIsKnown
      <3> QED
        BY <3>1, <3>2
    <2> QED
      BY <1>2, <2>1, <2>2 DEF Endings
  <1>7. ASSUME NEW p \in Processes, Backfill(p) PROVE StamperIsKnown'
    BY <1>7, StamperKept DEF Backfill, Goto
  <1>8. ASSUME NEW p \in Processes, InspectInvocations(p) \/ Migrated(p) \/ Answer(p) \/ Replied(p)
        PROVE  StamperIsKnown'
    BY <1>8, StamperKept DEF InspectInvocations, Inspect, Migrated, Answer, Replied, Goto, database
  <1>9. ASSUME NEW p \in Processes, Build(p) PROVE StamperIsKnown'
    <2>1. CASE \E how \in Endings : Exit(p, how)
      BY <1>2, <1>9, <2>1 DEF Build
    <2>2. CASE Goto(p, "serving") /\ UNCHANGED <<ending, row, stamping, cut>>
      BY <1>9, <2>2, StamperKept DEF Build, Goto, database
    <2> QED
      BY <1>9, <2>1, <2>2 DEF Build, Endings
  <1> QED
    BY <1>1, <1>3, <1>4, <1>5, <1>6, <1>7, <1>8, <1>9 DEF Next, Boots

(* What a step does when nobody is about to stamp.                          *)
LEMMA StepLeavesWounds ==
    ASSUME TypeOK, StamperIsKnown, [Next]_vars,
           stamping = {}, "last_reinforced_at" \in columns
    PROVE  stamping' = {} /\ unstamped' = unstamped \cap memories'
  <1> USE DEF TypeOK
  <1>1. CASE UNCHANGED <<stamping, unstamped, memories>>
    BY <1>1
  <1>2. ASSUME NEW p \in Processes, NEW how, Exit(p, how), UNCHANGED database
        PROVE  stamping' = {} /\ unstamped' = unstamped \cap memories'
    BY <1>2 DEF Exit, database
  <1>3. ASSUME NEW p \in Processes, Alter(p) PROVE stamping' = {} /\ unstamped' = unstamped \cap memories'
    <2>1. PICK c \in todo[p] :
              \/ Exit(p, "duplicate") /\ UNCHANGED database
              \/ c \notin columns /\ AddColumn(p, c, c = "last_reinforced_at")
      BY <1>3 DEF Alter
    <2> QED
      BY <1>2, <2>1 DEF AddColumn
  <1>4. ASSUME NEW p \in Processes, Backfill(p) PROVE stamping' = {} /\ unstamped' = unstamped \cap memories'
    <2>1. ~added[p]
      BY <1>4 DEF Backfill, StamperIsKnown
    <2> QED
      BY <1>4, <2>1 DEF Backfill
  <1>5. ASSUME NEW p \in Processes, Replied(p) PROVE stamping' = {} /\ unstamped' = unstamped \cap memories'
    BY <1>5 DEF Replied
  <1>6. ASSUME NEW p \in Processes, Build(p) PROVE stamping' = {} /\ unstamped' = unstamped \cap memories'
    BY <1>1, <1>2, <1>6 DEF Build, database
  <1>7. ASSUME NEW p \in Processes, StatementFails(p) \/ Shutdown(p) \/ Killed(p)
        PROVE  stamping' = {} /\ unstamped' = unstamped \cap memories'
    BY <1>2, <1>7 DEF StatementFails, Shutdown, Killed
  <1>8. ASSUME NEW p \in Processes,
               \/ Launch(p) \/ Open(p) \/ InspectMemories(p) \/ InspectInvocations(p)
               \/ Migrated(p) \/ Answer(p)
        PROVE  stamping' = {} /\ unstamped' = unstamped \cap memories'
    BY <1>1, <1>8 DEF Launch, Open, InspectMemories, InspectInvocations, Inspect, Migrated, Answer, database
  <1> QED
    BY <1>1, <1>3, <1>4, <1>5, <1>6, <1>7, <1>8 DEF Next, Boots, vars

(* What a boot that died left without a timestamp no later boot stamps      *)
(* (migrate_memory_columns): it stays until it is forgotten.                *)
THEOREM WoundsAlwaysStay == Spec => WoundsStay
  <1>1. Inv => TypeOK
    BY DEF Inv
  <1>2. Inv /\ StamperIsKnown /\ [Next]_vars
          => [stamping = {} /\ "last_reinforced_at" \in columns =>
                stamping' = {} /\ unstamped' = unstamped \cap memories']_vars
    BY <1>1, StepLeavesWounds
  <1>3. Spec => []StamperIsKnown
    BY <1>1, StamperInit, StamperStep, Inductive, PTL DEF Spec
  <1> QED
    BY <1>2, <1>3, Inductive, PTL DEF Spec, WoundsStay
-----------------------------------------------------------------------------
(* A process that boots alone finds what it found missing still missing.    *)
Alone == \A p, q \in Processes : p = q
FindsItMissing ==
    Alone => \A p \in Processes :
        /\ ending[p] # "duplicate"
        /\ phase[p] \in {"altering", "extending"} => todo[p] \cap columns = {}

(* Every step keeps what is on the list of a process alone missing.         *)
LEMMA MissingStep == TypeOK /\ FindsItMissing /\ [Next]_vars => FindsItMissing'
  <1> SUFFICES ASSUME TypeOK, FindsItMissing, [Next]_vars, Alone, NEW p \in Processes
               PROVE  /\ ending'[p] # "duplicate"
                      /\ phase'[p] \in {"altering", "extending"} => todo'[p] \cap columns' = {}
    BY DEF FindsItMissing, Alone
  <1> USE DEF TypeOK
  <1>1. /\ \A q \in Processes : q = p
        /\ ending[p] # "duplicate"
        /\ phase[p] \in {"altering", "extending"} => todo[p] \cap columns = {}
    BY DEF Alone, FindsItMissing
  <1> HIDE DEF Alone
  <1>2. ASSUME NEW how, how # "duplicate", Exit(p, how)
        PROVE  ending'[p] # "duplicate" /\ phase'[p] = "over"
    BY <1>2 DEF Exit, Goto
  <1>3. CASE Alter(p)
    <2>1. PICK c \in todo[p] :
              \/ c \in columns
              \/ AddColumn(p, c, c = "last_reinforced_at")
      BY <1>3 DEF Alter
    <2>2. AddColumn(p, c, c = "last_reinforced_at")
      BY <1>1, <1>3, <2>1 DEF Alter
    <2> QED
      BY <1>1, <1>3, <2>2 DEF Alter, AddColumn
  <1>4. CASE StatementFails(p) \/ Shutdown(p) \/ Killed(p)
    BY <1>2, <1>4 DEF StatementFails, Shutdown, Killed
  <1>5. CASE Build(p)
    <2>1. CASE \E how \in {"construction", "telemetry", "transport"} : Exit(p, how)
      BY <1>2, <2>1
    <2>2. CASE Goto(p, "serving") /\ UNCHANGED <<ending, row, stamping, cut>>
      BY <1>1, <2>2 DEF Goto
    <2> QED
      BY <1>5, <2>1, <2>2 DEF Build
  <1>6. CASE InspectMemories(p) \/ InspectInvocations(p)
    BY <1>1, <1>6 DEF InspectMemories, InspectInvocations, Inspect, Goto, database
  <1>7. CASE \/ Launch(p) \/ Open(p) \/ Backfill(p) \/ Migrated(p) \/ Answer(p) \/ Replied(p)
    BY <1>1, <1>7 DEF Launch, Open, Backfill, Migrated, Answer, Replied, Goto, database
  <1>8. CASE UNCHANGED vars
    BY <1>1, <1>8 DEF vars
  <1> QED
    BY <1>1, <1>3, <1>4, <1>5, <1>6, <1>7, <1>8 DEF Next, Boots

(* A boot fails on a column that is there already only when another process *)
(* is there to add it (migrate_memory_columns, migrate_invocation_columns). *)
THEOREM AloneNoDuplicates == Spec => []AloneNeverDuplicates
  <1>1. Inv => TypeOK
    BY DEF Inv
  <1>2. Init => FindsItMissing
    BY DEF Init, FindsItMissing
  <1>3. FindsItMissing => AloneNeverDuplicates
    BY DEF FindsItMissing, Alone, AloneNeverDuplicates
  <1> QED
    BY <1>1, <1>2, <1>3, MissingStep, Inductive, PTL DEF Spec
-----------------------------------------------------------------------------
(* A pool hands out the client of the model and the effort it is asked for: *)
(* the one injected at boot is what the factory would have built.           *)
LEMMA FactoryConnects ==
    ASSUME NEW e, NEW model, NEW effort
    PROVE  Factory(e, model, effort) = Connect(e, model, effort)
  BY DEF Factory, InjectedClient

(* The client of a site is connected to the model and the effort of its     *)
(* route.                                                                   *)
LEMMA SiteClient ==
    ASSUME NEW e, NEW site \in CallSites
    PROVE  ForSite(e, site) = Connect(e, ModelFor(e, site), EffortFor(e, site))
  <1> DEFINE pair == <<ModelFor(e, site), EffortFor(e, site)>>
  <1>1. pair \in RoutedPairs(e)
    BY DEF RoutedPairs
  <1>2. ForSite(e, site) = Factory(e, pair[1], pair[2])
    BY <1>1 DEF ForSite, ByKey
  <1> QED
    BY <1>2, FactoryConnects

(* An effort of the call takes the place of the route's, and the model      *)
(* stays.                                                                   *)
LEMMA EffortClient ==
    ASSUME NEW e, NEW site \in CallSites, NEW effort \in Efforts \cup {NoEffort}
    PROVE  ForSiteWithEffort(e, site, effort)
             = Connect(e, ModelFor(e, site), IF effort = NoEffort THEN EffortFor(e, site) ELSE effort)
  <1> DEFINE pair == <<ModelFor(e, site), effort>>
  <1>1. CASE effort = NoEffort
    BY <1>1, SiteClient DEF ForSiteWithEffort
  <1>2. CASE effort # NoEffort
    <2>1. pair \in RoutedModels(e) \X (Efforts \cup {NoEffort})
      BY DEF RoutedModels
    <2>2. pair \in DOMAIN ByEffort(e)
      BY <2>1 DEF ByEffort
    <2>3. ForSiteWithEffort(e, site, effort) = ByEffort(e)[pair]
      BY <1>2, <2>2 DEF ForSiteWithEffort
    <2>4. ByEffort(e)[pair] = IF pair \in DOMAIN ByKey(e) THEN ByKey(e)[pair] ELSE Factory(e, pair[1], pair[2])
      BY <2>1 DEF ByEffort
    <2>5. pair \in DOMAIN ByKey(e) => ByKey(e)[pair] = Factory(e, pair[1], pair[2])
      BY DEF ByKey
    <2> HIDE DEF pair
    <2>6. ForSiteWithEffort(e, site, effort) = Connect(e, pair[1], pair[2])
      BY <2>3, <2>4, <2>5, FactoryConnects
    <2> QED
      BY <1>2, <2>6 DEF pair
  <1> QED
    BY <1>1, <1>2

(* So the call of a tool of one call site is completed by the model routed  *)
(* to the site, at the effort the call or the routing asks for.             *)
LEMMA SiteCall ==
    ASSUME NEW tool \in Correctives \cup {"grounded_verify", "checkpoint_turn"},
           NEW verifying, NEW effort \in Efforts \cup {NoEffort},
           tool = "checkpoint_turn" => effort = NoEffort
    PROVE  LET site == IF tool = "checkpoint_turn" THEN "CHECKPOINT_REVIEW" ELSE Site(tool)
           IN  Clients(env, tool, verifying, effort)
                 = {Connect(env, Attributed(env, tool, verifying),
                            IF effort = NoEffort THEN EffortFor(env, site) ELSE effort)}
  <1>1. CASE tool = "checkpoint_turn"
    <2>1. "CHECKPOINT_REVIEW" \in CallSites
      BY DEF CallSites
    <2>2. tool \in CheckpointTools /\ tool \notin MemoryTools /\ tool \notin Correctives
      BY <1>1 DEF CheckpointTools, MemoryTools, Correctives
    <2>3. Attributed(env, tool, verifying) = ModelFor(env, "CHECKPOINT_REVIEW")
      BY <1>1, <2>2 DEF Attributed
    <2>4. Clients(env, tool, verifying, effort) = {ForSite(env, "CHECKPOINT_REVIEW")}
      BY <1>1, <2>2 DEF Clients
    <2> QED
      BY <1>1, <2>1, <2>3, <2>4, SiteClient
  <1>2. CASE tool \in Correctives \cup {"grounded_verify"}
    <2>1. Site(tool) \in CallSites /\ tool # "checkpoint_turn"
      BY <1>2 DEF Site, CallSites, Correctives
    <2>2. Attributed(env, tool, verifying) = ModelFor(env, Site(tool))
      BY <1>2 DEF Attributed, MemoryTools, CheckpointTools, Correctives
    <2>3. Clients(env, tool, verifying, effort) = {ForSiteWithEffort(env, Site(tool), effort)}
      BY <1>2 DEF Clients, Correctives
    <2> QED
      BY <2>1, <2>2, <2>3, EffortClient
  <1> QED
    BY <1>1, <1>2

(* Every call is served as the environment configures it: its capability is *)
(* on, and the one model its record names completes it, at the effort that  *)
(* was asked for or routed (server.rs, client/pool.rs, routing.rs).         *)
THEOREM CallsServedAsConfigured == Spec => []ServedAsConfigured
  <1>1. ASSUME Inv, NEW p \in Processes, phase[p] = "answering"
        PROVE  LET call == row[p]
                   site == IF call.tool = "checkpoint_turn" THEN "CHECKPOINT_REVIEW" ELSE Site(call.tool)
               IN  /\ call.tool \in MemoryTools => env.voyage = "set"
                   /\ call.tool = "research" => env.brave = "set"
                   /\ call.tool = "grounded_verify" => env.root = "set"
                   /\ call.verifying => \A client \in call.clients : client[1] = call.attributed
                   /\ call.tool \in Correctives \cup {"grounded_verify", "checkpoint_turn"} =>
                         LET wanted == IF call.effort = NoEffort THEN EffortFor(env, site) ELSE call.effort
                         IN  call.clients = {<<call.attributed,
                                               IF env.backend = "anthropic" THEN wanted ELSE NoEffort>>}
    <2>1. PICK tool \in Catalog(env), verifying \in BOOLEAN, effort \in CallEfforts :
              /\ verifying => tool = "save"
              /\ effort # NoEffort => tool \in Correctives \cup {"grounded_verify"}
              /\ row[p] = CallOf(tool, verifying, effort)
      BY <1>1 DEF Inv, AnswersACall
    <2>2. /\ row[p].tool = tool /\ row[p].verifying = verifying /\ row[p].effort = effort
          /\ row[p].attributed = Attributed(env, tool, verifying)
          /\ row[p].clients = Clients(env, tool, verifying, effort)
      BY <2>1 DEF CallOf
    <2>3. effort \in Efforts \cup {NoEffort}
      BY BootAssumption
    <2>4. /\ tool \in MemoryTools => env.voyage = "set"
          /\ tool = "research" => env.brave = "set"
          /\ tool = "grounded_verify" => env.root = "set"
      <3>1. env \in Environments /\ env.root # "missing"
        BY <1>1 DEF Inv, TypeOK, AnswersACall
      <3>2. /\ tool \in MemoryTools => Configured(env.voyage)
            /\ tool = "research" => Configured(env.brave)
            /\ tool = "grounded_verify" => Configured(env.root)
        BY DEF Catalog, MemoryTools, Correctives, CheckpointTools
      <3> QED
        BY <3>1, <3>2, BootAssumption DEF Configured
    <2>5. verifying => \A client \in row[p].clients : client[1] = row[p].attributed
      <3> SUFFICES ASSUME verifying PROVE \A client \in row[p].clients : client[1] = row[p].attributed
        OBVIOUS
      <3>1. tool = "save"
        BY <2>1
      <3>2. "VERIFY" \in CallSites
        BY DEF CallSites
      <3>3. Clients(env, tool, verifying, effort) = {ForSite(env, "VERIFY")}
        BY <3>1 DEF Clients, Correctives
      <3>4. Attributed(env, tool, verifying) = ModelFor(env, "VERIFY")
        BY <3>1 DEF Attributed, Correctives, MemoryTools, CheckpointTools
      <3>5. ForSite(env, "VERIFY")[1] = ModelFor(env, "VERIFY")
        BY <3>2, SiteClient DEF Connect
      <3> QED
        BY <2>2, <3>3, <3>4, <3>5
    <2>6. ASSUME tool \in Correctives \cup {"grounded_verify", "checkpoint_turn"}
          PROVE  LET site == IF tool = "checkpoint_turn" THEN "CHECKPOINT_REVIEW" ELSE Site(tool)
                     wanted == IF effort = NoEffort THEN EffortFor(env, site) ELSE effort
                 IN  row[p].clients = {<<row[p].attributed,
                                         IF env.backend = "anthropic" THEN wanted ELSE NoEffort>>}
      <3>1. tool = "checkpoint_turn" => effort = NoEffort
        BY <2>1 DEF Correctives
      <3> QED
        BY <2>2, <2>3, <2>6, <3>1, SiteCall DEF Connect
    <2> QED
      BY <2>2, <2>4, <2>5, <2>6
  <1>2. Inv => ServedAsConfigured
    BY <1>1 DEF ServedAsConfigured
  <1> QED
    BY <1>2, Inductive, PTL
================================================================================
