------------------------------ MODULE Migration ------------------------------
(***************************************************************************)
(* The Alembic migrations (src/migrations): env.py and the revisions       *)
(* v1_initial, v2_tags and v3_split_results, run by alembic commands one   *)
(* after the other on one SQLite file, any of which may be killed.         *)
(*                                                                         *)
(* Alembic 1.13, SQLAlchemy 2.0 and the sqlite3 module of Python 3.11 are  *)
(* modelled from how env.py uses them: sqlite3 opens a transaction before  *)
(* the first INSERT, UPDATE or DELETE, and until then each CREATE, ALTER   *)
(* or DROP is durable at once; Alembic commits after each revision unless  *)
(* the connection it was given is inside a transaction already, which it   *)
(* is as soon as env.py has read from it and not committed.                *)
(***************************************************************************)
EXTENDS Integers, Sequences

CONSTANTS
  Tasks,      (* rows of the tasks table that get a result                  *)
  Commands    (* the alembic commands that are run                          *)

ASSUME MigrationAssumption == Commands \subseteq {"upgrade head", "downgrade -1", "downgrade base"}

(* Tables, but for result_json, a column of tasks, and uq_tasks_name, an   *)
(* index. The bookkeeping table alembic_version always stays.             *)
V1 == {"tasks", "result_json", "api_keys", "rate_buckets"}
V2 == V1 \cup {"tags", "task_tags", "uq_tasks_name"}
V3 == (V2 \ {"result_json"}) \cup {"task_results"}
Artefacts == V2 \cup V3

Stamps == {"none", "v1_initial", "v2_tags", "v3_split_results", "head"}

(***************************************************************************)
(* A database: its artefacts, the version_num of alembic_version ("none"   *)
(* if there is no such row), the tasks whose result is in the column       *)
(* tasks.result_json and those whose result is in task_results.            *)
(***************************************************************************)
Database == [schema: SUBSET Artefacts, stamp: Stamps, inline: SUBSET Tasks, split: SUBSET Tasks]

VARIABLES
  disk,      (* what is committed                                           *)
  view,      (* what the connection sees                                    *)
  opened,    (* the connection has a SQLite transaction open                *)
  external,  (* Alembic found the connection inside a transaction           *)
  todo,      (* the statements left to execute; "idle" no command runs      *)
  command,   (* the command that runs or ran last                           *)
  origin,    (* history: the database that command began with               *)
  whole,     (* history: the command was neither killed nor did it fail     *)
  written    (* history: tasks with a result, since the tables were created *)

vars == <<disk, view, opened, external, todo, command, origin, whole, written>>

Empty == [schema |-> {}, stamp |-> "none", inline |-> {}, split |-> {}]

Init == /\ disk = Empty
        /\ view = Empty
        /\ opened = FALSE
        /\ external = FALSE
        /\ todo = <<>>
        /\ command = "none"
        /\ origin = Empty
        /\ whole = FALSE
        /\ written = {}

------------------------------------------------------------------------------
(* The revisions, as sequences of statements.                              *)

Create(x) == [does |-> "create", what |-> x]
Drop(x) == [does |-> "drop", what |-> x]
Stamp(v) == [does |-> "stamp", what |-> v]
Copy == [does |-> "copy", what |-> "task_results"]
Restore == [does |-> "restore", what |-> "result_json"]
EndOfRevision == [does |-> "commit", what |-> "revision"]
Close == [does |-> "close", what |-> "connection"]

UpgradeV1 == <<Create("tasks"), Create("api_keys"), Create("rate_buckets")>>
DowngradeV1 == <<Drop("rate_buckets"), Drop("api_keys"), Drop("tasks")>>

UpgradeV2 == <<Create("tags"), Create("task_tags"), Create("uq_tasks_name")>>
DowngradeV2 == <<Drop("uq_tasks_name"), Drop("task_tags"), Drop("tags")>>

UpgradeV3 == <<Create("task_results"), Copy, Drop("result_json")>>

\* Mutant: the table is dropped before its rows are moved back.
DropBeforeRestore == <<Create("result_json"), Drop("task_results"), Restore>>

DowngradeV3 == <<Create("result_json"), Restore, Drop("task_results")>>

Revision(statements, stamp) == statements \o <<Stamp(stamp), EndOfRevision>>

\* What a command executes from the revision the database is stamped with.
FromV2Up == Revision(UpgradeV3, "v3_split_results")
FromV1Up == Revision(UpgradeV2, "v2_tags") \o FromV2Up
FromV3Down == Revision(DowngradeV3, "v2_tags")
FromV2Down == Revision(DowngradeV2, "v1_initial")
FromV1Down == Revision(DowngradeV1, "none")

Script(cmd, stamp) ==
  CASE cmd = "upgrade head" ->
         ( CASE stamp = "none" -> Revision(UpgradeV1, "v1_initial") \o FromV1Up
             [] stamp = "v1_initial" -> FromV1Up
             [] stamp = "v2_tags" -> FromV2Up
             [] OTHER -> <<>> )
    [] cmd = "downgrade -1" ->
         ( CASE stamp = "v3_split_results" -> FromV3Down
             [] stamp = "v2_tags" -> FromV2Down
             [] stamp = "v1_initial" -> FromV1Down
             [] OTHER -> <<>> )
    [] OTHER ->
         ( CASE stamp = "v3_split_results" -> FromV3Down \o FromV2Down \o FromV1Down
             [] stamp = "v2_tags" -> FromV2Down \o FromV1Down
             [] stamp = "v1_initial" -> FromV1Down
             [] OTHER -> <<>> )

------------------------------------------------------------------------------
(* The effect of a statement, and when SQLite refuses it.                  *)

\* The column comes with the table it is created in; the index goes with it.
Possible(s, db) ==
  /\ s.does = "create" => s.what \notin db.schema
  /\ s.does = "create" /\ s.what \in {"result_json", "uq_tasks_name"} => "tasks" \in db.schema
  /\ s.does \in {"drop", "copy", "restore"} => s.what \in db.schema
  /\ s.does = "copy" => "result_json" \in db.schema /\ db.inline \cap db.split = {}
  /\ s.does = "restore" => "task_results" \in db.schema

Effect(s, db) ==
  CASE s.does = "create" ->
         [db EXCEPT !.schema = @ \cup {s.what} \cup (IF s.what = "tasks" THEN {"result_json"} ELSE {})]
    [] s.does = "drop" ->
         [db EXCEPT !.schema = @ \ ({s.what} \cup IF s.what = "tasks" THEN {"result_json", "uq_tasks_name"} ELSE {}),
                    !.inline = IF s.what \in {"tasks", "result_json"} THEN {} ELSE @,
                    !.split = IF s.what = "task_results" THEN {} ELSE @]
    [] s.does = "copy" -> [db EXCEPT !.split = @ \cup db.inline]
    [] s.does = "restore" -> [db EXCEPT !.inline = @ \cup db.split]
    [] s.does = "stamp" -> [db EXCEPT !.stamp = s.what]
    [] OTHER -> db

StartsTransaction(s) == s.does \in {"copy", "restore", "stamp"}

\* The results of tasks are gone with their table, as intended.
Kept(db) == IF "tasks" \in db.schema THEN written ELSE {}

------------------------------------------------------------------------------
(* The life of a command.                                                  *)

Idle == todo = <<>>

\* Mutant: the rewritten stamp is left to the transaction of the command.
ResetWithoutCommit ==
  /\ disk' = IF disk.stamp = "head" THEN [disk EXCEPT !.stamp = "v3_split_results"] ELSE disk
  /\ external' = TRUE

(* _reset_head_token_if_present: the stamp is read, which begins a         *)
(* SQLAlchemy transaction; only if it was "head" is it rewritten and       *)
(* committed.  Then Alembic looks at the connection.                       *)
ResetHeadToken ==
  \/ /\ disk.stamp = "head"
     /\ disk' = [disk EXCEPT !.stamp = "v3_split_results"]
     /\ external' = FALSE
  \/ /\ disk.stamp # "head"
     /\ external' = TRUE
     /\ UNCHANGED disk

\* downgrade -1 is refused where there is nothing to go down from.
RunCommand(cmd) ==
  /\ Idle
  /\ cmd = "downgrade -1" => disk.stamp # "none"
  /\ ResetHeadToken
  /\ view' = disk'
  /\ todo' = Script(cmd, disk'.stamp) \o <<Close>>
  /\ command' = cmd
  /\ origin' = disk
  /\ whole' = TRUE
  /\ UNCHANGED <<opened, written>>

\* A statement outside a transaction is durable at once.
Execute ==
  /\ ~Idle /\ Head(todo).does \notin {"commit", "close"}
  /\ Possible(Head(todo), view)
  /\ view' = Effect(Head(todo), view)
  /\ opened' = (opened \/ StartsTransaction(Head(todo)))
  /\ disk' = IF opened' THEN disk ELSE view'
  /\ written' = Kept(disk')
  /\ todo' = Tail(todo)
  /\ UNCHANGED <<external, command, origin, whole>>

\* The end of a revision: Alembic commits, unless the transaction is not its own.
CommitRevision ==
  /\ ~Idle /\ Head(todo).does = "commit"
  /\ \/ /\ ~external
        /\ disk' = view
        /\ opened' = FALSE
        /\ written' = Kept(view)
     \/ /\ external
        /\ UNCHANGED <<disk, opened, written>>
  /\ todo' = Tail(todo)
  /\ UNCHANGED <<view, external, command, origin, whole>>

\* What is not committed is rolled back when the connection goes.
Abandon(db) ==
  /\ disk' = db
  /\ view' = db
  /\ opened' = FALSE
  /\ todo' = <<>>
  /\ written' = Kept(db)
  /\ UNCHANGED <<external, command, origin>>

\* Mutant: the connection goes back with its transaction open.
CloseWithoutRollback ==
  /\ ~Idle /\ Head(todo).does = "close"
  /\ todo' = <<>>
  /\ UNCHANGED <<disk, view, opened, external, command, origin, whole, written>>

(* _stamp_head_token_at_chain_head commits what it stamps, and with it all *)
(* that Alembic left uncommitted; elsewhere nobody commits.                *)
CloseConnection ==
  /\ ~Idle /\ Head(todo).does = "close"
  /\ Abandon(IF view.stamp = "v3_split_results" THEN [view EXCEPT !.stamp = "head"] ELSE disk)
  /\ UNCHANGED whole

Fail ==
  /\ ~Idle /\ ~Possible(Head(todo), view)
  /\ Abandon(disk)
  /\ whole' = FALSE

Kill ==
  /\ ~Idle
  /\ Abandon(disk)
  /\ whole' = FALSE

\* Between commands the result of a task that is there is stored where the
\* stamped revision keeps it.
WriteResult(t) ==
  /\ Idle /\ t \notin written /\ "tasks" \in disk.schema
  /\ disk' = IF disk.stamp \in {"head", "v3_split_results"}
             THEN [disk EXCEPT !.split = @ \cup {t}]
             ELSE [disk EXCEPT !.inline = @ \cup {t}]
  /\ IF disk.stamp \in {"head", "v3_split_results"}
     THEN "task_results" \in disk.schema ELSE "result_json" \in disk.schema
  /\ view' = disk'
  /\ written' = written \cup {t}
  /\ UNCHANGED <<opened, external, todo, command, origin, whole>>

Next == \/ \E cmd \in Commands : RunCommand(cmd)
        \/ Execute \/ CommitRevision \/ CloseConnection \/ Fail \/ Kill
        \/ \E t \in Tasks : WriteResult(t)

Spec == Init /\ [][Next]_vars

------------------------------------------------------------------------------
(* The type invariant; no transaction outlives its connection, and without *)
(* one the connection sees what is on disk.                                *)
TypeOK ==
  /\ disk \in Database /\ view \in Database /\ origin \in Database
  /\ opened \in BOOLEAN /\ external \in BOOLEAN /\ whole \in BOOLEAN
  /\ command \in Commands \cup {"none"}
  /\ written \in SUBSET Tasks
  /\ Idle => ~opened
  /\ ~opened => view = disk

(* Wherever a command is killed or fails, and whatever is run after it,    *)
(* every result that was stored is on disk in exactly one place: the       *)
(* column or task_results (FR-07 v3: no data may be lost).                 *)
PayloadKeptOnce ==
  "tasks" \in disk.schema => /\ disk.inline \cup disk.split = written
                             /\ disk.inline \cap disk.split = {}

SchemaOf(stamp) == CASE stamp = "none" -> {}
                     [] stamp = "v1_initial" -> V1
                     [] stamp = "v2_tags" -> V2
                     [] OTHER -> V3

Intact(db) == db.schema = SchemaOf(db.stamp)

Goal(cmd, stamp) ==
  IF cmd = "upgrade head" THEN "head"
  ELSE IF cmd = "downgrade -1" /\ stamp = "head" THEN "v2_tags"
  ELSE IF cmd = "downgrade -1" /\ stamp = "v2_tags" THEN "v1_initial"
  ELSE "none"

Landed == Intact(disk) /\ disk.stamp = Goal(command, origin.stamp)

(* A command that ran to its end on an intact database leaves the schema   *)
(* and the stamp of its target: an upgrade from wherever it began, a       *)
(* downgrade from base or from head (AC-7.1, AC-7.2, AC-7.3).              *)
LandsOnTarget ==
  /\ Idle /\ whole /\ Intact(origin)
  /\ command = "upgrade head" \/ origin.stamp \in {"none", "head"}
  => Landed

------------------------------------------------------------------------------
(* What the documents say of the downgrades and the code does not do.      *)

(* downgrade base leaves no residual tables (AC-7.2), from the revision    *)
(* that downgrade -1 leads to as well as from head.                        *)
BaseLeavesNoTables ==
  Idle /\ whole /\ Intact(origin) /\ origin.stamp = "v2_tags" /\ command = "downgrade base"
    => disk.schema = {}
==============================================================================
