---------------------------- MODULE SessionsProofs ----------------------------
(***************************************************************************)
(* Theorems about Sessions for every set of scopes, processes and starting *)
(* contents: the type invariant with the bound of the pools, what a scope  *)
(* holds, and the refinement of UnitOfWork.                                *)
(***************************************************************************)
EXTENDS Sessions, FiniteSetTheorems, TLAPS

(* A pool that opens no connection stays within its bound.                 *)
LEMMA PoolShrinks ==
  ASSUME TypeOK, conn' \subseteq conn, NEW p \in Procs
  PROVE  Cardinality(CheckedOut(p)') <= Capacity
<1>1. /\ IsFiniteSet(CheckedOut(p))
      /\ Cardinality(CheckedOut(p)) <= Capacity
  <2>1. CheckedOut(p) \in SUBSET Scopes
    BY DEF TypeOK, CheckedOut
  <2> QED
    BY <2>1, SessionAssumption, FS_Subset DEF TypeOK
<1>2. CheckedOut(p)' \in SUBSET CheckedOut(p)
  BY DEF CheckedOut
<1>3. /\ Cardinality(CheckedOut(p)') <= Cardinality(CheckedOut(p))
      /\ Cardinality(CheckedOut(p)) \in Nat
      /\ Cardinality(CheckedOut(p)') \in Nat
  BY <1>1, <1>2, FS_Subset, FS_CardinalityType
<1> QED
  BY <1>1, <1>3, SessionAssumption

(* Checkout asks for room first, so it keeps the bound too.                *)
LEMMA PoolGrows ==
  ASSUME TypeOK, NEW s \in Scopes, Checkout(s), NEW p \in Procs
  PROVE  Cardinality(CheckedOut(p)') <= Capacity
<1>1. conn' = conn \cup {s} /\ Cardinality(CheckedOut(ProcOf[s])) < Capacity
  BY DEF Checkout
<1>2. CASE ProcOf[s] = p
  <2>1. CheckedOut(p)' = CheckedOut(p) \cup {s}
    BY <1>1, <1>2 DEF CheckedOut
  <2>2. IsFiniteSet(CheckedOut(p))
    <3>1. CheckedOut(p) \in SUBSET Scopes
      BY DEF TypeOK, CheckedOut
    <3> QED
      BY <3>1, SessionAssumption, FS_Subset
  <2>3. /\ Cardinality(CheckedOut(p)) \in Nat
        /\ Cardinality(CheckedOut(p) \cup {s}) \in
             {Cardinality(CheckedOut(p)), Cardinality(CheckedOut(p)) + 1}
    BY <2>2, FS_AddElement, FS_CardinalityType
  <2> QED
    BY <1>1, <1>2, <2>1, <2>3, SessionAssumption
<1>3. CASE ProcOf[s] # p
  <2>1. CheckedOut(p)' = CheckedOut(p)
    BY <1>1, <1>3 DEF CheckedOut
  <2> QED
    BY <2>1 DEF TypeOK
<1> QED
  BY <1>2, <1>3

(* The database, the sessions and the pools keep their types and bounds.   *)
THEOREM SessionsTypeCorrect == Spec => []TypeOK
<1>1. Init => TypeOK
  <2> SUFFICES ASSUME Init PROVE TypeOK
    OBVIOUS
  <2>1. \A p \in Procs : CheckedOut(p) = {}
    BY DEF Init, CheckedOut
  <2>2. \A p \in Procs : Cardinality(CheckedOut(p)) <= Capacity
    <3>1. Cardinality({}) = 0
      BY FS_EmptySet
    <3> QED
      BY <2>1, <3>1, SessionAssumption
  <2> QED
    BY <2>2, SessionAssumption DEF Init, TypeOK, Blank
<1>2. ASSUME TypeOK, [Next]_vars
      PROVE  TypeOK'
  <2>1. ASSUME NEW s \in Scopes, Checkout(s)
        PROVE  TypeOK'
    <3>1. \A p \in Procs : Cardinality(CheckedOut(p)') <= Capacity
      BY <1>2, <2>1, PoolGrows
    <3> QED
      BY <1>2, <2>1, <3>1 DEF TypeOK, Checkout, Moves, Open, Body, Tables
  <2>2. ASSUME conn' \subseteq conn,
               /\ db' \in [Tables -> SUBSET Nat]
               /\ draft' \in [Scopes -> [Tables -> SUBSET Nat]]
               /\ writer' = {} \/ \E s \in Scopes : writer' = {s}
               /\ pc' \in [Scopes -> {"idle", "committed"} \cup Open \cup Ended]
        PROVE  TypeOK'
    <3>1. \A p \in Procs : Cardinality(CheckedOut(p)') <= Capacity
      BY <1>2, <2>2, PoolShrinks
    <3> QED
      BY <1>2, <2>2, <3>1 DEF TypeOK
  <2>3. Blank \in [Tables -> SUBSET Nat]
    BY DEF Blank
  <2> USE <1>2 DEF TypeOK, Moves, Open, Body, Tables, Ended
  <2>4. ASSUME NEW s \in Scopes, Enter(s) \/ Flushed(s) \/ ReadAll(s) \/ Return(s)
        PROVE  TypeOK'
    BY <2>2, <2>4 DEF Enter, Flushed, ReadAll, Return
  <2>5. ASSUME NEW s \in Scopes, ClearTags(s)
        PROVE  TypeOK'
    BY <2>2, <2>5 DEF ClearTags
  <2>6. ASSUME NEW s \in Scopes, ClearResults(s) \/ ClearTasks(s)
        PROVE  TypeOK'
    <3>1. CASE ClearResults(s)
      BY <2>2, <2>6, <3>1 DEF ClearResults, ClearTable
    <3>2. CASE ClearTasks(s)
      BY <2>2, <2>6, <3>2 DEF ClearTasks, ClearTable
    <3> QED
      BY <2>6, <3>1, <3>2
  <2>7. ASSUME NEW s \in Seeds, NEW i \in 0..(CountOf[s] - 1), InsertTask(s, i)
        PROVE  TypeOK'
    <3>1. s \in Scopes /\ i \in Nat
      BY SessionAssumption
    <3> QED
      BY <2>2, <2>7, <3>1 DEF InsertTask
  <2>8. ASSUME NEW s \in Scopes, Commit(s) \/ Rollback(s) \/ Close(s) \/ Finalize(s)
        PROVE  TypeOK'
    <3>1. Release(s)
      BY <2>8 DEF Commit, Rollback, Close, Finalize
    <3>2. /\ conn' \subseteq conn
          /\ draft' \in [Scopes -> [Tables -> SUBSET Nat]]
      BY <2>3, <3>1 DEF Release
    <3>3. writer' = {} \/ \E q \in Scopes : writer' = {q}
      BY <3>1 DEF Release
    <3>4. db' \in [Tables -> SUBSET Nat]
      BY <2>8 DEF Commit, Rollback, Close, Finalize
    <3>5. pc' \in [Scopes -> {"idle", "committed"} \cup Open \cup Ended]
      BY <2>8 DEF Commit, Rollback, Close, Finalize
    <3> QED
      BY <2>2, <3>2, <3>3, <3>4, <3>5
  <2>9. ASSUME NEW s \in Scopes, Mishap(s)
        PROVE  TypeOK'
    BY <2>2, <2>9 DEF Mishap, PoolTimeout, LockTimeout, BlockRaises, Interrupt,
                      InterruptLate, InterruptClose, RollbackFails
  <2>10. ASSUME NEW p \in Procs, Crash(p)
         PROVE  TypeOK'
    BY <2>2, <2>3, <2>10 DEF Crash
  <2>11. CASE UNCHANGED vars
    BY <2>2, <2>11 DEF vars
  <2> QED
    BY <2>1, <2>4, <2>5, <2>6, <2>7, <2>8, <2>9, <2>10, <2>11 DEF Next, ScopeStep, SeedStep
<1> QED
  BY <1>1, <1>2, PTL DEF Spec

------------------------------------------------------------------------------
(* What a scope holds at each place: a connection in all of its block, the *)
(* write lock from the first DELETE of a seed on; and what the seed's      *)
(* transaction has made of the tables by then.                             *)

Writing == {"results", "tasks", "inserting"}

Holds(s) ==
  /\ pc[s] \in Body \ {"asking"} => s \in conn
  /\ s \in conn => pc[s] \in Open \ {"asking"}
  /\ s \in writer => s \in conn /\ s \in Seeds
  /\ s \notin writer => draft[s] = Blank
  /\ pc[s] \in Writing => s \in writer
  /\ pc[s] = "flushed" /\ s \in Seeds => s \in writer
  /\ pc[s] = "reading" => s \notin Seeds

Drafted(s) ==
  /\ pc[s] \in Writing => draft[s]["tags"] = {}
  /\ pc[s] \in {"tasks", "inserting"} => draft[s]["results"] = {}
  /\ pc[s] = "flushed" /\ s \in Seeds => draft[s] = Seeded(CountOf[s])

Held == \A s \in Scopes : Holds(s) /\ Drafted(s)

(* A step of one scope touches what that scope holds and nothing else;     *)
(* only a seed that finds the write lock free takes it.                    *)
LEMMA OthersKeep ==
  ASSUME TypeOK, Held, NEW s \in Scopes, NEW q \in Scopes, q # s,
         pc'[q] = pc[q], draft'[q] = draft[q],
         q \in conn' <=> q \in conn, q \in writer' <=> q \in writer
  PROVE  Holds(q)' /\ Drafted(q)'
BY DEF Held, Holds, Drafted, Seeded

(* The end of a transaction leaves a scope with nothing.                   *)
LEMMA ReleaseLeavesNothing ==
  ASSUME TypeOK, NEW s \in Scopes, Release(s)
  PROVE  /\ s \notin conn' /\ s \notin writer' /\ draft'[s] = Blank
         /\ \A q \in Scopes : q # s => /\ draft'[q] = draft[q]
                                       /\ q \in conn' <=> q \in conn
                                       /\ q \in writer' <=> q \in writer
BY DEF Release, TypeOK

LEMMA HeldInvariant == Spec => []Held
<1>1. Init => Held
  BY DEF Init, Held, Holds, Drafted, Body, Tables, Writing
<1>2. ASSUME TypeOK, Held, [Next]_vars
      PROVE  Held'
  <2> USE <1>2 DEF Moves
  <2> SUFFICES ASSUME NEW q \in Scopes
               PROVE  Holds(q)' /\ Drafted(q)'
    BY DEF Held
  <2>0. Holds(q) /\ Drafted(q)
    BY DEF Held
  <2>1. ASSUME NEW s \in Scopes, Enter(s) \/ Checkout(s) \/ ReadAll(s) \/ Return(s)
        PROVE  Holds(q)' /\ Drafted(q)'
    <3>1. CASE q # s
      BY <2>1, <3>1, OthersKeep DEF TypeOK, Enter, Checkout, ReadAll, Return
    <3>2. CASE q = s
      BY <2>0, <2>1, <3>2 DEF Holds, Drafted, TypeOK, Enter, Checkout, ReadAll, Return,
                              Open, Body, Tables, Writing
    <3> QED
      BY <3>1, <3>2
  <2>2. ASSUME NEW s \in Scopes, s \in Seeds, ClearTags(s)
        PROVE  Holds(q)' /\ Drafted(q)'
    <3>1. CASE q # s
      BY <2>2, <3>1, OthersKeep DEF TypeOK, ClearTags
    <3>2. CASE q = s
      <4>1. /\ draft'[s]["tags"] = {}
            /\ pc[s] = "tags" /\ pc'[s] = "results"
            /\ writer' = {s} /\ conn' = conn
        BY <2>2 DEF ClearTags, TypeOK, Tables
      <4> QED
        BY <2>0, <2>2, <3>2, <4>1 DEF Holds, Drafted, Open, Body, Tables, Writing
    <3> QED
      BY <3>1, <3>2
  <2>3. ASSUME NEW s \in Seeds, s \in Scopes, NEW table \in {"results", "tasks"},
               NEW next, ClearTable(s, table, next),
               <<table, next>> \in {<<"results", "tasks">>, <<"tasks", "inserting">>}
        PROVE  Holds(q)' /\ Drafted(q)'
    <3>1. CASE q # s
      BY <2>3, <3>1, OthersKeep DEF TypeOK, ClearTable
    <3>2. CASE q = s
      <4>1. /\ draft'[s][table] = {}
            /\ \A t \in Tables : t # table => draft'[s][t] = draft[s][t]
            /\ pc[s] = table /\ pc'[s] = next
            /\ writer' = writer /\ conn' = conn
        BY <2>3 DEF ClearTable, TypeOK, Tables
      <4> QED
        BY <2>0, <2>3, <3>2, <4>1 DEF Holds, Drafted, Open, Body, Tables, Writing
    <3> QED
      BY <3>1, <3>2
  <2>4. ASSUME NEW s \in Seeds, s \in Scopes, NEW i \in 0..(CountOf[s] - 1), InsertTask(s, i)
        PROVE  Holds(q)' /\ Drafted(q)'
    <3>1. CASE q # s
      BY <2>4, <3>1, OthersKeep DEF TypeOK, InsertTask
    <3>2. CASE q = s
      <4>1. /\ \A t \in {"tags", "results"} : draft'[s][t] = draft[s][t]
            /\ pc[s] = "inserting" /\ pc'[s] = "inserting"
            /\ writer' = writer /\ conn' = conn
        BY <2>4 DEF InsertTask, TypeOK, Tables
      <4> QED
        BY <2>0, <3>2, <4>1 DEF Holds, Drafted, Open, Body, Tables, Writing
    <3> QED
      BY <3>1, <3>2
  <2>5. ASSUME NEW s \in Seeds, s \in Scopes, Flushed(s)
        PROVE  Holds(q)' /\ Drafted(q)'
    <3>1. CASE q # s
      BY <2>5, <3>1, OthersKeep DEF TypeOK, Flushed
    <3>2. CASE q = s
      <4>1. /\ pc[s] = "inserting" /\ pc'[s] = "flushed"
            /\ draft'[s] = draft[s] /\ writer' = writer /\ conn' = conn
            /\ draft[s]["tasks"] = 0..(CountOf[s] - 1)
        BY <2>5 DEF Flushed, TypeOK
      <4>2. draft[s] = Seeded(CountOf[s])
        BY <2>0, <3>2, <4>1 DEF Drafted, Writing, TypeOK, Seeded, Tables
      <4>3. Holds(s)'
        BY <2>0, <3>2, <4>1 DEF Holds, Open, Body, Tables, Writing
      <4>4. Drafted(s)'
        BY <4>1, <4>2 DEF Drafted, Writing, Seeded
      <4> QED
        BY <3>2, <4>3, <4>4
    <3> QED
      BY <3>1, <3>2
  <2>6. ASSUME NEW s \in Scopes, Commit(s) \/ Rollback(s) \/ Close(s) \/ Finalize(s)
        PROVE  Holds(q)' /\ Drafted(q)'
    <3>1. Release(s) /\ pc'[s] \in {"committed", "leaving", "raised"}
      BY <2>6 DEF Commit, Rollback, Close, Finalize, TypeOK
    <3>2. CASE q # s
      <4>1. pc'[q] = pc[q]
        BY <2>6, <3>2 DEF Commit, Rollback, Close, Finalize, TypeOK
      <4> QED
        BY <3>1, <3>2, <4>1, ReleaseLeavesNothing, OthersKeep
    <3>3. CASE q = s
      BY <3>1, <3>3, ReleaseLeavesNothing DEF Holds, Drafted, Body, Tables, Writing
    <3> QED
      BY <3>2, <3>3
  <2>7. ASSUME NEW s \in Scopes, Mishap(s)
        PROVE  Holds(q)' /\ Drafted(q)'
    <3>1. /\ UNCHANGED <<draft, writer, conn>>
          /\ \/ pc[s] \in Body \cup {"rolling"} /\ pc' = [pc EXCEPT ![s] = "rolling"]
             \/ pc[s] \in Body \cup {"rolling"} /\ pc' = [pc EXCEPT ![s] = "leaving"]
             \/ pc[s] = "committed" /\ pc' = [pc EXCEPT ![s] = "raised"]
             \/ pc[s] = "leaving" /\ pc' = [pc EXCEPT ![s] = "abandoned"]
      BY <2>7 DEF Mishap, PoolTimeout, LockTimeout, BlockRaises, Interrupt, InterruptLate,
                  InterruptClose, RollbackFails, Body, Tables
    <3>2. CASE q # s
      BY <3>1, <3>2, OthersKeep DEF TypeOK
    <3>3. CASE q = s
      BY <2>0, <3>1, <3>3 DEF Holds, Drafted, TypeOK, Open, Body, Tables, Writing
    <3> QED
      BY <3>2, <3>3
  <2>8. ASSUME NEW p \in Procs, Crash(p)
        PROVE  Holds(q)' /\ Drafted(q)'
    <3> DEFINE dead == {s \in Scopes : ProcOf[s] = p /\ pc[s] \in Open \cup {"committed"}}
    <3>1. /\ pc' = [s \in Scopes |-> IF s \in dead THEN "lost" ELSE pc[s]]
          /\ writer' = writer \ dead /\ conn' = conn \ dead
          /\ draft' = [s \in Scopes |-> IF s \in dead THEN Blank ELSE draft[s]]
      BY <2>8 DEF Crash
    <3>2. CASE q \in dead
      BY <3>1, <3>2 DEF Holds, Drafted, Open, Body, Tables, Writing
    <3>3. CASE q \notin dead
      BY <2>0, <3>1, <3>3 DEF Holds, Drafted, Seeded
    <3> QED
      BY <3>2, <3>3
  <2>9. CASE UNCHANGED vars
    BY <2>0, <2>9 DEF vars, Holds, Drafted, Seeded
  <2>10. ASSUME NEW s \in Scopes, s \in Seeds, ClearResults(s) \/ ClearTasks(s)
         PROVE  Holds(q)' /\ Drafted(q)'
    BY <2>3, <2>10 DEF ClearResults, ClearTasks
  <2> QED
    BY <2>1, <2>2, <2>4, <2>5, <2>6, <2>7, <2>8, <2>9, <2>10, SessionAssumption
       DEF Next, ScopeStep, SeedStep
<1> QED
  BY <1>1, <1>2, SessionsTypeCorrect, PTL DEF Spec

(* A scope that is left holds no connection, no write lock and no          *)
(* uncommitted rows, whatever went wrong in it.                            *)
THEOREM ScopesReturnWhatTheyTook == Spec => []NothingHeldAfterwards
<1>1. TypeOK /\ Held => NothingHeldAfterwards
  <2> SUFFICES ASSUME TypeOK, Held
               PROVE  NothingHeldAfterwards
    OBVIOUS
  <2>1. \A s \in Scopes : Holds(s)
    BY DEF Held
  <2>2. writer \subseteq Scopes /\ conn \subseteq Scopes
    BY DEF TypeOK
  <2> QED
    BY <2>1, <2>2 DEF Holds, NothingHeldAfterwards
<1> QED
  BY <1>1, HeldInvariant, SessionsTypeCorrect, PTL

------------------------------------------------------------------------------
(* Refinement: every step of Sessions is a step of UnitOfWork on the       *)
(* mapped phases, or leaves them and the database as they are.             *)

ph == [s \in Scopes |-> Phase(pc[s])]

LEMMA PhaseValues ==
  /\ \A p \in Open : Phase(p) = "open"
  /\ Phase("committed") = "applied"
  /\ \A p \in {"idle"} \cup Ended : Phase(p) = p
BY DEF Phase, Open, Body, Tables, Ended

LEMMA PhaseMoves ==
  ASSUME TypeOK, NEW s \in Scopes, NEW to, pc' = [pc EXCEPT ![s] = to]
  PROVE  ph' = [ph EXCEPT ![s] = Phase(to)] /\ ph[s] = Phase(pc[s])
BY DEF TypeOK, ph

(* A step from one place inside the scope to another.                      *)
LEMMA PhaseStays ==
  ASSUME TypeOK, NEW s \in Scopes, NEW to \in Open, pc[s] \in Open,
         pc' = [pc EXCEPT ![s] = to]
  PROVE  ph' = ph
BY PhaseValues, PhaseMoves DEF TypeOK, ph

(* commit() makes of the database what the block of the scope promises.    *)
LEMMA CommitApplies ==
  ASSUME TypeOK, Held, NEW s \in Scopes, Commit(s)
  PROVE  db' = Applied(s, db)
<1>1. pc[s] = "flushed" /\ db' = IF s \in writer THEN draft[s] ELSE db
  BY DEF Commit, Moves
<1>2. Holds(s) /\ Drafted(s)
  BY DEF Held
<1> QED
  BY <1>1, <1>2 DEF Holds, Drafted, Applied

LEMMA UnitStep ==
  TypeOK /\ Held /\ [Next]_vars => [Unit!Next]_(Unit!uvars)
<1> SUFFICES ASSUME TypeOK, Held, [Next]_vars
             PROVE  Unit!Next \/ UNCHANGED Unit!uvars
  BY DEF Unit!uvars
<1> USE DEF Moves
<1>0. Unit!uvars = <<db, ph>>
  BY DEF Unit!uvars, ph
<1>1. ASSUME NEW s \in Scopes, Enter(s)
      PROVE  Unit!Next
  <2>1. ph[s] = "idle" /\ ph' = [ph EXCEPT ![s] = "open"] /\ db' = db
    <3>1. pc[s] = "idle" /\ pc' = [pc EXCEPT ![s] = "asking"] /\ db' = db
      BY <1>1 DEF Enter
    <3>2. Phase("idle") = "idle" /\ Phase("asking") = "open"
      BY PhaseValues DEF Open, Body
    <3> QED
      BY <3>1, <3>2, PhaseMoves
  <2>2. Unit!Open(s)
    BY <2>1 DEF Unit!Open, Unit!Moves, ph
  <2> QED
    BY <2>2 DEF Unit!Next
<1>2. ASSUME NEW s \in Scopes, Commit(s)
      PROVE  Unit!Next
  <2>1. ph[s] = "open" /\ ph' = [ph EXCEPT ![s] = "applied"]
    <3>1. pc[s] = "flushed" /\ pc' = [pc EXCEPT ![s] = "committed"]
      BY <1>2 DEF Commit
    <3>2. Phase("flushed") = "open" /\ Phase("committed") = "applied"
      BY PhaseValues DEF Open, Body
    <3> QED
      BY <3>1, <3>2, PhaseMoves
  <2>2. Unit!Apply(s)
    BY <1>2, <2>1, CommitApplies DEF Unit!Apply, Unit!Moves, ph
  <2> QED
    BY <2>2 DEF Unit!Next
<1>3. ASSUME NEW s \in Scopes, Return(s) \/ InterruptLate(s) \/ Close(s) \/ Finalize(s)
      PROVE  Unit!Next
  <2>1. /\ db' = db
        /\ \/ ph[s] = "applied" /\ ph' = [ph EXCEPT ![s] = "returned"]
           \/ ph[s] = "applied" /\ ph' = [ph EXCEPT ![s] = "raised"]
           \/ ph[s] = "open" /\ ph' = [ph EXCEPT ![s] = "raised"]
    BY <1>3, PhaseValues, PhaseMoves DEF Return, InterruptLate, Close, Finalize, Open, Ended
  <2>2. Unit!Settle(s)
    BY <2>1 DEF Unit!Settle, Unit!Moves, ph
  <2> QED
    BY <2>2 DEF Unit!Next
<1>4. ASSUME NEW s \in Scopes, NEW to \in Open, pc[s] \in Open,
             pc' = [pc EXCEPT ![s] = to], db' = db
      PROVE  UNCHANGED Unit!uvars
  BY <1>0, <1>4, PhaseStays DEF Unit!uvars, ph
<1>5. ASSUME NEW s \in Scopes, Checkout(s) \/ ReadAll(s) \/ Flushed(s) \/ ClearTags(s)
      PROVE  UNCHANGED Unit!uvars
  BY <1>4, <1>5 DEF Checkout, ReadAll, Flushed, ClearTags, Open, Body, Tables
<1>6. ASSUME NEW s \in Scopes, ClearResults(s) \/ ClearTasks(s) \/ Rollback(s)
      PROVE  UNCHANGED Unit!uvars
  BY <1>4, <1>6 DEF ClearResults, ClearTasks, ClearTable, Rollback, Open, Body, Tables
<1>7. ASSUME NEW s \in Seeds, NEW i, InsertTask(s, i)
      PROVE  UNCHANGED Unit!uvars
  BY <1>7 DEF InsertTask, Unit!uvars
<1>8. ASSUME NEW s \in Scopes, PoolTimeout(s) \/ LockTimeout(s) \/ BlockRaises(s)
      PROVE  UNCHANGED Unit!uvars
  BY <1>4, <1>8 DEF PoolTimeout, LockTimeout, BlockRaises, Open, Body, Tables
<1>9. ASSUME NEW s \in Scopes, Interrupt(s) \/ InterruptClose(s) \/ RollbackFails(s)
      PROVE  UNCHANGED Unit!uvars
  BY <1>4, <1>9 DEF Interrupt, InterruptClose, RollbackFails, Open
<1>10. ASSUME NEW p \in Procs, Crash(p)
       PROVE  Unit!Next
  <2> DEFINE dead == {s \in Scopes : ProcOf[s] = p /\ pc[s] \in Open \cup {"committed"}}
  <2>1. pc' = [s \in Scopes |-> IF s \in dead THEN "lost" ELSE pc[s]] /\ db' = db
    BY <1>10 DEF Crash
  <2>2. \A s \in dead : ph[s] \in {"open", "applied"}
    BY PhaseValues DEF ph
  <2>3. ph' = [s \in Scopes |-> IF s \in dead THEN "lost" ELSE ph[s]]
    BY <2>1, PhaseValues DEF ph, Ended
  <2>4. Unit!Lose(dead)
    BY <2>1, <2>2, <2>3 DEF Unit!Lose, ph
  <2> QED
    BY <2>4 DEF Unit!Next
<1>11. CASE UNCHANGED vars
  BY <1>11 DEF vars, Unit!uvars
<1> QED
  BY <1>1, <1>2, <1>3, <1>5, <1>6, <1>7, <1>8, <1>9, <1>10, <1>11
     DEF Next, ScopeStep, SeedStep, Mishap

(* session_scope implements UnitOfWork: the block of a scope is applied to *)
(* the database as a whole and before the scope returns, or not at all.    *)
THEOREM SessionsKeepUnits == Spec => UnitsAreAtomic
<1>1. Init => Unit!Init
  BY SessionAssumption, PhaseValues DEF Init, Unit!Init
<1> QED
  BY <1>1, UnitStep, SessionsTypeCorrect, HeldInvariant,
     PTL DEF Spec, UnitsAreAtomic, Unit!Spec
==============================================================================
