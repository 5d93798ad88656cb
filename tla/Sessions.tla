------------------------------- MODULE Sessions -------------------------------
(***************************************************************************)
(* Units of work on the database (repository/session.py): session_scope    *)
(* around the blocks of seed_tasks and list_tasks_with_relationships, over *)
(* a connection pool for each process and one SQLite file for all of them  *)
(* (check_same_thread, which session.py passes, is understood by SQLite    *)
(* alone).                                                                 *)
(*                                                                         *)
(* A session takes a connection from the pool for its first statement and  *)
(* gives it back when its transaction ends.  sqlite3 opens the transaction *)
(* at the first statement that writes, which takes SQLite's write lock     *)
(* until COMMIT or ROLLBACK; a SELECT reads what is committed and takes    *)
(* none.  Who waits too long for a connection or for the lock gets an      *)
(* exception.                                                              *)
(***************************************************************************)
EXTENDS Integers, FiniteSets

CONSTANTS
  Scopes,     (* the uses of session_scope                                  *)
  Seeds,      (* those of seed_tasks; the others list the tasks             *)
  CountOf,    (* CountOf[s]: the number n of seed_tasks(n)                  *)
  Procs,      (* the processes                                              *)
  ProcOf,     (* ProcOf[s]: the process s runs in                           *)
  Capacity,   (* connections a pool may open: pool_size and the overflow    *)
  Contents    (* what the database may hold to begin with                   *)

Tables == {"tags", "results", "tasks"}

ASSUME SessionAssumption ==
  /\ IsFiniteSet(Scopes)
  /\ Seeds \subseteq Scopes
  /\ CountOf \in [Seeds -> Nat]
  /\ ProcOf \in [Scopes -> Procs]
  /\ Capacity \in Nat \ {0}
  /\ Contents \subseteq [Tables -> SUBSET Nat]

VARIABLES
  db,       (* db[t]: the committed rows of table t, by their number        *)
  draft,    (* draft[s]: what s has made of it in its transaction           *)
  writer,   (* the scopes that hold the write lock: one at most             *)
  conn,     (* the scopes that hold a connection                            *)
  pc        (* pc[s]: where s stands                                        *)

vars == <<db, draft, writer, conn, pc>>

(***************************************************************************)
(* Where a scope stands:                                                   *)
(*  idle, asking (for a connection), then                                  *)
(*  tags, results, tasks: the table that is cleared next;                  *)
(*  inserting, or reading in a list; flushed when the block has returned;  *)
(*  committed; rolling when "except Exception" has caught something;       *)
(*  leaving when only "finally" is left; abandoned if close() was cut      *)
(*  short; then returned, raised or lost                                   *)
(***************************************************************************)
Body == Tables \cup {"asking", "inserting", "reading", "flushed"}
Open == Body \cup {"rolling", "leaving", "abandoned"}
Ended == {"returned", "raised", "lost"}

Blank == [t \in Tables |-> {}]

Init == /\ db \in Contents
        /\ draft = [s \in Scopes |-> Blank]
        /\ writer = {}
        /\ conn = {}
        /\ pc = [s \in Scopes |-> "idle"]

Moves(s, from, to) == pc[s] = from /\ pc' = [pc EXCEPT ![s] = to]

CheckedOut(p) == {s \in conn : ProcOf[s] = p}

------------------------------------------------------------------------------
(* The blocks.                                                             *)

Enter(s) == /\ Moves(s, "idle", "asking")
            /\ UNCHANGED <<db, draft, writer, conn>>

\* Mutant: a pool without a bound.
CheckoutUnbounded(s) ==
  /\ Moves(s, "asking", IF s \in Seeds THEN "tags" ELSE "reading")
  /\ conn' = conn \cup {s}
  /\ UNCHANGED <<db, draft, writer>>

\* The first statement of the block takes a connection from the pool.
Checkout(s) ==
  /\ Moves(s, "asking", IF s \in Seeds THEN "tags" ELSE "reading")
  /\ Cardinality(CheckedOut(ProcOf[s])) < Capacity
  /\ conn' = conn \cup {s}
  /\ UNCHANGED <<db, draft, writer>>

PoolTimeout(s) ==
  /\ Cardinality(CheckedOut(ProcOf[s])) >= Capacity
  /\ Moves(s, "asking", "rolling")
  /\ UNCHANGED <<db, draft, writer, conn>>

\* _clear_eager_load_graph; its first DELETE opens the transaction.
ClearTags(s) ==
  /\ Moves(s, "tags", "results")
  /\ writer = {} /\ writer' = {s}
  /\ draft' = [draft EXCEPT ![s] = [db EXCEPT !["tags"] = {}]]
  /\ UNCHANGED <<db, conn>>

LockTimeout(s) ==
  /\ writer # {}
  /\ Moves(s, "tags", "rolling")
  /\ UNCHANGED <<db, draft, writer, conn>>

ClearTable(s, table, next) ==
  /\ Moves(s, table, next)
  /\ draft' = [draft EXCEPT ![s][table] = {}]
  /\ UNCHANGED <<db, writer, conn>>

ClearResults(s) == ClearTable(s, "results", "tasks")
ClearTasks(s) == ClearTable(s, "tasks", "inserting")

\* flush() sends the rows; they are numbered from 0.
InsertTask(s, i) ==
  /\ pc[s] = "inserting" /\ UNCHANGED pc
  /\ i \in 0..(CountOf[s] - 1)
  /\ draft[s]["tasks"] = 0..(i - 1)
  /\ draft' = [draft EXCEPT ![s]["tasks"] = @ \cup {i}]
  /\ UNCHANGED <<db, writer, conn>>

Flushed(s) ==
  /\ draft[s]["tasks"] = 0..(CountOf[s] - 1)
  /\ Moves(s, "inserting", "flushed")
  /\ UNCHANGED <<db, draft, writer, conn>>

\* The three SELECTs of the list.
ReadAll(s) ==
  /\ Moves(s, "reading", "flushed")
  /\ UNCHANGED <<db, draft, writer, conn>>

------------------------------------------------------------------------------
(* session_scope.                                                          *)

\* What the end of a transaction gives back: the lock and the connection.
Release(s) == /\ writer' = writer \ {s}
              /\ conn' = conn \ {s}
              /\ draft' = [draft EXCEPT ![s] = Blank]

Commit(s) ==
  /\ Moves(s, "flushed", "committed")
  /\ db' = IF s \in writer THEN draft[s] ELSE db
  /\ Release(s)

\* An exception of the block, of a statement or of commit().
BlockRaises(s) ==
  /\ pc[s] \in Body
  /\ pc' = [pc EXCEPT ![s] = "rolling"]
  /\ UNCHANGED <<db, draft, writer, conn>>

(* KeyboardInterrupt and the like pass by "except Exception", in the block *)
(* or in commit(), before or after it has taken effect.                    *)
Interrupt(s) ==
  /\ pc[s] \in Body \cup {"rolling"}
  /\ pc' = [pc EXCEPT ![s] = "leaving"]
  /\ UNCHANGED <<db, draft, writer, conn>>

InterruptLate(s) ==
  /\ Moves(s, "committed", "raised")
  /\ UNCHANGED <<db, draft, writer, conn>>

Rollback(s) ==
  /\ Moves(s, "rolling", "leaving")
  /\ Release(s)
  /\ UNCHANGED db

\* Mutant: close() is called after rollback(), not in "finally".
RollbackFailsUnclosed(s) ==
  /\ Moves(s, "rolling", "raised")
  /\ UNCHANGED <<db, draft, writer, conn>>

\* rollback() raises in its turn: close() is still to come.
RollbackFails(s) ==
  /\ Moves(s, "rolling", "leaving")
  /\ UNCHANGED <<db, draft, writer, conn>>

\* Mutants: "finally" is forgotten; "finally" commits.
LeaveWithoutClose(s) ==
  /\ Moves(s, "leaving", "raised")
  /\ UNCHANGED <<db, draft, writer, conn>>

CloseCommitting(s) ==
  /\ Moves(s, "leaving", "raised")
  /\ db' = IF s \in writer THEN draft[s] ELSE db
  /\ Release(s)

(* close(): the pool rolls back a connection that comes back inside a      *)
(* transaction, and drops it if that fails.                                *)
Close(s) ==
  /\ Moves(s, "leaving", "raised")
  /\ Release(s)
  /\ UNCHANGED db

(* An interrupt inside close(): the pool gives up a connection whose reset *)
(* is cut short, which is what Close does; elsewhere in close() the        *)
(* session keeps it until it is freed with its frame, and the pool's       *)
(* finalizer takes the connection back.                                    *)
InterruptClose(s) ==
  /\ Moves(s, "leaving", "abandoned")
  /\ UNCHANGED <<db, draft, writer, conn>>

Finalize(s) ==
  /\ Moves(s, "abandoned", "raised")
  /\ Release(s)
  /\ UNCHANGED db

Return(s) ==
  /\ Moves(s, "committed", "returned")
  /\ UNCHANGED <<db, draft, writer, conn>>

(* A process is killed: its connections are gone, and SQLite rolls back    *)
(* what they had not committed when the file is next opened.               *)
Crash(p) ==
  LET dead == {s \in Scopes : ProcOf[s] = p /\ pc[s] \in Open \cup {"committed"}} IN
  /\ dead # {}
  /\ pc' = [s \in Scopes |-> IF s \in dead THEN "lost" ELSE pc[s]]
  /\ writer' = writer \ dead
  /\ conn' = conn \ dead
  /\ draft' = [s \in Scopes |-> IF s \in dead THEN Blank ELSE draft[s]]
  /\ UNCHANGED db

------------------------------------------------------------------------------
SeedStep(s) == \/ ClearTags(s) \/ ClearResults(s) \/ ClearTasks(s)
               \/ \E i \in 0..(CountOf[s] - 1) : InsertTask(s, i)
               \/ Flushed(s)

ScopeStep(s) == \/ Checkout(s) \/ ReadAll(s)
                \/ s \in Seeds /\ SeedStep(s)
                \/ Commit(s) \/ Rollback(s) \/ Close(s) \/ Finalize(s) \/ Return(s)

Mishap(s) == \/ PoolTimeout(s) \/ LockTimeout(s) \/ BlockRaises(s)
             \/ Interrupt(s) \/ InterruptLate(s) \/ InterruptClose(s) \/ RollbackFails(s)

Next == \/ \E s \in Scopes : Enter(s) \/ ScopeStep(s) \/ Mishap(s)
        \/ \E p \in Procs : Crash(p)

Spec == Init /\ [][Next]_vars

(* The threads run and statements are answered; that a wait is cut short   *)
(* by a time-out is not relied on.  CPython frees a session as soon as the *)
(* frame that its exception has left is gone.                              *)
FairSpec == Spec /\ \A s \in Scopes : WF_vars(ScopeStep(s))

------------------------------------------------------------------------------
(* The type invariant; a pool never opens more connections than it may,    *)
(* and SQLite has one writer at most.                                      *)
TypeOK ==
  /\ db \in [Tables -> SUBSET Nat]
  /\ draft \in [Scopes -> [Tables -> SUBSET Nat]]
  /\ writer = {} \/ \E s \in Scopes : writer = {s}
  /\ conn \in SUBSET Scopes
  /\ pc \in [Scopes -> {"idle", "committed"} \cup Open \cup Ended]
  /\ \A p \in Procs : Cardinality(CheckedOut(p)) <= Capacity

(* Whatever fails, in the block, in commit, in rollback or by an interrupt *)
(* that "except Exception" does not see, in close() included: a scope that *)
(* is left, and whose session is freed, holds no connection and no write   *)
(* lock, nobody holds the lock without being on its connection, and no     *)
(* uncommitted rows survive (AC-6.2).                                      *)
NothingHeldAfterwards ==
  /\ conn \subseteq {s \in Scopes : pc[s] \in Open \ {"asking"}}
  /\ writer \subseteq conn \cap Seeds
  /\ \A s \in Scopes \ writer : draft[s] = Blank

\* What seed_tasks(n) leaves, and what the block of a scope makes of c.
Seeded(n) == [t \in Tables |-> IF t = "tasks" THEN 0..(n - 1) ELSE {}]
Applied(s, c) == IF s \in Seeds THEN Seeded(CountOf[s]) ELSE c

Phase(p) == CASE p \in Open -> "open"
              [] p = "committed" -> "applied"
              [] OTHER -> p

Unit == INSTANCE UnitOfWork WITH
  content <- db,
  phase <- [s \in Scopes |-> Phase(pc[s])],
  Result <- Applied

(* session_scope keeps the promise of UnitOfWork: whatever fails or is     *)
(* killed at whatever point, the content of the database is the one before *)
(* the block or the one after it, and seed_tasks(n) that returned has left *)
(* exactly n tasks and nothing of the earlier ones (NFR-03).               *)
UnitsAreAtomic == Unit!Spec

(* Every scope that is entered is left, even if no time-out cuts a wait    *)
(* short: who waits for a connection or for the write lock is waiting for  *)
(* a scope that gives it back (AC-6.2).                                    *)
ScopeEnds == \A s \in Scopes : pc[s] = "asking" ~> pc[s] \in Ended
==============================================================================
