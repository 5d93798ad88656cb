-------------------------- MODULE TaskRunnerProofs --------------------------
(***************************************************************************)
(* Theorems about TaskRunner for every set of tasks, runs, descendants and *)
(* faults: the type invariant, the safety invariants the runs check, and   *)
(* the refinement of RunLedger.                                            *)
(***************************************************************************)
EXTENDS TaskRunner, TLAPS

(* state_machine, applied the way run_task applies it to a return code.    *)
LEMMA RunningConcludes ==
  ASSUME NEW c
  PROVE  StateMachine("running", FALSE, {c}, FALSE) = IF c = 0 THEN "done" ELSE "failed"
<1>1. {c} # {} /\ ({c} = {0} <=> c = 0)
  OBVIOUS
<1>2. CASE c = 0
  BY <1>1, <1>2 DEF StateMachine
<1>3. CASE c # 0
  BY <1>1, <1>3 DEF StateMachine
<1> QED
  BY <1>2, <1>3

(* SIGKILL to the child, its effect on every run.                          *)
LEMMA KillChildEffect ==
  ASSUME TypeOK, NEW r \in Runs, KillChild(r)
  PROVE  /\ child' \in [Runs -> {"none", "alive", "zombie", "collected", "known"}]
         /\ code' \in [Runs -> Exits]
         /\ \A q \in Runs : q # r => child'[q] = child[q] /\ code'[q] = code[q]
         /\ child[r] = "alive" => child'[r] = "zombie"
         /\ child[r] # "alive" => child'[r] = child[r] /\ code'[r] = code[r]
<1>1. CASE child[r] = "alive"
  <2>1. /\ child' = [child EXCEPT ![r] = "zombie"]
        /\ code' = [code EXCEPT ![r] = Killed]
    BY <1>1 DEF KillChild, TypeOK
  <2> QED
    BY <1>1, <2>1 DEF TypeOK, Exits, Killed
<1>2. CASE child[r] # "alive"
  <2>1. child' = child /\ code' = code
    BY <1>2 DEF KillChild, TypeOK
  <2> QED
    BY <1>2, <2>1 DEF TypeOK
<1> QED
  BY <1>1, <1>2

(* A step of a DELETE leaves the coroutines and the processes alone; only   *)
(* rows of its task go, one at a time.                                     *)
LEMMA DeleteEffect ==
  ASSUME NEW d \in Threads, DeleteStep(d)
  PROVE  /\ UNCHANGED <<row, pc, verdict, process>>
         /\ \/ results' = results
            \/ \E k \in Runs : /\ TaskOf[k] = sweep[d].task
                             /\ k \in sweep[d].keys
                             /\ Recorded(k)
                             /\ results' = {x \in results : x.run # k}
BY DEF DeleteStep, SnapshotKeys, Sweep, process

(* The place of a DELETE stays a place, and its task is still the same.     *)
LEMMA SweepOnEffect ==
  ASSUME TypeOK, NEW d \in Threads, NEW K \in SUBSET Runs, SweepOn(d, K)
  PROVE  /\ sweep' \in [Threads -> [at: {"idle", "removed", "sweeping"}, task: Tasks, keys: SUBSET Runs]]
         /\ \A e \in Threads : sweep'[e].task = sweep[e].task
         /\ \A e \in Threads : e # d => sweep'[e] = sweep[e]
         /\ sweep'[d].at # "removed"
         /\ sweep'[d].at = "idle" <=> sweep'[d].keys = {}
<1> DEFINE new == [at |-> IF K = {} THEN "idle" ELSE "sweeping", task |-> sweep[d].task, keys |-> K]
<1>1. sweep' = [sweep EXCEPT ![d] = new]
  BY DEF SweepOn, TypeOK
<1>2. /\ new \in [at: {"idle", "removed", "sweeping"}, task: Tasks, keys: SUBSET Runs]
      /\ new.task = sweep[d].task /\ new.at # "removed" /\ (new.at = "idle" <=> new.keys = {})
  BY DEF TypeOK
<1> HIDE DEF new
<1> QED
  BY <1>1, <1>2 DEF TypeOK

LEMMA DeleteSweeps ==
  ASSUME TypeOK, NEW d \in Threads, DeleteStep(d)
  PROVE  \E K \in SUBSET Runs : SweepOn(d, K)
<1>1. CASE SnapshotKeys(d)
  <2>1. {r \in Runs : Recorded(r)} \in SUBSET Runs
    OBVIOUS
  <2> QED
    BY <1>1, <2>1 DEF SnapshotKeys
<1>2. CASE \E k \in Runs : Sweep(d, k)
  <2>1. PICK k \in Runs : Sweep(d, k)
    BY <1>2
  <2>2. sweep[d].keys \ {k} \in SUBSET Runs /\ {} \in SUBSET Runs
    BY DEF TypeOK
  <2> QED
    BY <2>1, <2>2 DEF Sweep
<1> QED
  BY <1>1, <1>2 DEF DeleteStep

(* The tables, coroutines and processes of TaskRunner keep their types.    *)
THEOREM RunnerTypeCorrect == Spec => []TypeOK
<1>1. Init => TypeOK
  BY RunnerAssumption DEF Init, TypeOK, PC, Exits, NotFound, Terminal
<1>2. ASSUME TypeOK, [Next]_vars
      PROVE  TypeOK'
  <2> USE <1>2, RunnerAssumption DEF TypeOK, store, process, PC, Suspended, HoldsLoop,
          Settled, Status, Terminal, Exits, ChildCodes, NotFound, NoTokens, Killed
  <2>1. ASSUME NEW t \in Tasks, CreateTask(t)
        PROVE  TypeOK'
    BY <2>1 DEF CreateTask
  <2>2. ASSUME NEW r \in Runs, PostRun(r)
        PROVE  TypeOK'
    BY <2>2 DEF PostRun, Resumes
  <2>3. ASSUME NEW r \in Runs, RunStep(r)
        PROVE  TypeOK'
    <3>1. CASE MarkRunning(r)
      BY <3>1 DEF MarkRunning, Resumes, SafeUpdateStatus, UpdateStatus
    <3>2. CASE TokeniseFails(r)
      BY <3>2 DEF TokeniseFails, SafeWriteResult, WriteResult
    <3>3. CASE SpawnFails(r)
      <4>1. SafePersistTerminal(r, "failed") /\ UNCHANGED <<sweep, results, process>>
        BY <3>3 DEF SpawnFails
      <4> QED
        BY <4>1 DEF SafePersistTerminal, UpdateStatus
    <3>4. CASE SpawnRaises(r) \/ Spawn(r)
      BY <3>4 DEF SpawnRaises, Spawn
    <3>5. CASE ConnectPipes(r) \/ TimeoutFires(r) \/ WaitReturns(r)
      BY <3>5 DEF ConnectPipes, TimeoutFires, WaitReturns, Resumes
    <3>6. CASE CommunicateReturns(r)
      <4> DEFINE s == StateMachine("running", FALSE, {code[r]}, FALSE)
      <4>1. s \in Terminal
        BY RunningConcludes
      <4>2. SafePersistTerminal(r, s)
        BY <3>6 DEF CommunicateReturns
      <4> HIDE DEF s
      <4>3. UNCHANGED <<sweep, results, process>>
        BY <3>6 DEF CommunicateReturns
      <4> QED
        BY <4>1, <4>2, <4>3 DEF SafePersistTerminal, UpdateStatus
    <3>7. CASE ReapAfterKill(r)
      <4>1. /\ pc' \in [Runs -> PC]
            /\ UNCHANGED <<row, sweep, results, verdict, clogged>>
        BY <3>7 DEF ReapAfterKill, Resumes
      <4>2. /\ child' \in [Runs -> {"none", "alive", "zombie", "collected", "known"}]
            /\ code' \in [Runs -> Exits]
            /\ killed' \in [Runs -> BOOLEAN]
        BY <3>7, KillChildEffect DEF ReapAfterKill
      <4>3. kin' \in [Runs -> SUBSET Kin]
        BY <3>7 DEF ReapAfterKill
      <4> QED
        BY <4>1, <4>2, <4>3
    <3>8. CASE DrainPipes(r)
      BY <3>8 DEF DrainPipes, SafePersistTerminal, UpdateStatus
    <3>9. CASE RecordResult(r)
      BY <3>9 DEF RecordResult, SafeWriteResult, WriteResult, ExitRecorded
    <3> QED
      BY <2>3, <3>1, <3>2, <3>3, <3>4, <3>5, <3>6, <3>7, <3>8, <3>9 DEF RunStep
  <2>4. ASSUME NEW r \in Runs, ProcessStep(r)
        PROVE  TypeOK'
    <3>1. CASE \E x \in ChildCodes : ChildExits(r, x)
      BY <3>1 DEF ChildExits
    <3>2. CASE \E k \in Kin : Fork(r, k) \/ KinExits(r, k)
      BY <3>2 DEF Fork, KinExits
    <3>3. CASE Collect(r) \/ Notify(r)
      BY <3>3 DEF Collect, Notify
    <3>4. CASE Clog(r)
      BY <3>4 DEF Clog
    <3> QED
      BY <2>4, <3>1, <3>2, <3>3, <3>4 DEF ProcessStep
  <2>5. ASSUME NEW r \in Runs, Cancel(r)
        PROVE  TypeOK'
    BY <2>5, KillChildEffect DEF Cancel
  <2>6. CASE UNCHANGED vars
    BY <2>6 DEF vars
  <2>7. ASSUME NEW t \in Tasks, NEW d \in Threads, DeleteRow(d, t)
        PROVE  TypeOK'
    BY <2>7 DEF DeleteRow
  <2>8. ASSUME NEW d \in Threads, DeleteStep(d)
        PROVE  TypeOK'
    <3>1. UNCHANGED <<row, pc, verdict, process>> /\ results' \subseteq results
      BY <2>8, DeleteEffect
    <3>2. sweep' \in [Threads -> [at: {"idle", "removed", "sweeping"}, task: Tasks, keys: SUBSET Runs]]
      BY <2>8, DeleteSweeps, SweepOnEffect
    <3> QED
      BY <3>1, <3>2
  <2> QED
    BY <2>1, <2>2, <2>3, <2>4, <2>5, <2>6, <2>7, <2>8 DEF Next, Endpoint
<1> QED
  BY <1>1, <1>2, PTL DEF Spec

-----------------------------------------------------------------------------
(* The inductive invariant of the processes: which child states each       *)
(* program counter allows, and what a killed group looks like.             *)
ProcessInv(r) ==
  /\ pc[r] \in {"idle", "accepted", "marked", "crashed"} => child[r] = "none"
  /\ pc[r] \in {"recording", "ended"} => child[r] \in {"none", "known"}
  /\ pc[r] = "draining" => child[r] = "known"
  /\ child[r] = "none" => kin[r] = {} /\ ~killed[r] /\ code[r] = NotFound
  /\ killed[r] => child[r] # "alive" /\ \A k \in kin[r] : ~k.grouped

Processes == \A r \in Runs : ProcessInv(r)

LEMMA ProcessesInductive == TypeOK /\ Processes /\ [Next]_vars => Processes'
<1> SUFFICES ASSUME TypeOK, Processes, [Next]_vars, NEW q \in Runs
             PROVE  ProcessInv(q)'
  BY DEF Processes
<1>1. ProcessInv(q)
  BY DEF Processes
<1> USE RunnerAssumption DEF store, process
<1>2. CASE \/ \E t \in Tasks : CreateTask(t) \/ \E d \in Threads : DeleteRow(d, t)
          \/ \E d \in Threads : DeleteStep(d)
  <2>1. UNCHANGED <<pc, process>>
    BY <1>2, DeleteEffect DEF CreateTask, DeleteRow
  <2> QED
    BY <1>1, <2>1 DEF ProcessInv
<1>3. ASSUME NEW r \in Runs, PostRun(r)
      PROVE  ProcessInv(q)'
  BY <1>1, <1>3 DEF PostRun, Resumes, ProcessInv, TypeOK
<1>4. ASSUME NEW r \in Runs, RunStep(r)
      PROVE  ProcessInv(q)'
  <2>1. CASE MarkRunning(r) \/ ConnectPipes(r) \/ TimeoutFires(r) \/ WaitReturns(r)
    BY <1>1, <2>1 DEF MarkRunning, ConnectPipes, TimeoutFires, WaitReturns,
       ConnectionLost, Resumes, ProcessInv, TypeOK
  <2>2. CASE TokeniseFails(r) \/ SpawnRaises(r) \/ Spawn(r)
    BY <1>1, <2>2 DEF TokeniseFails, SpawnRaises, Spawn, ProcessInv, TypeOK
  <2>3. ASSUME NEW s, SafePersistTerminal(r, s), UNCHANGED process,
               pc[r] \notin {"recording", "ended"}, child[r] \in {"none", "known"}
        PROVE  ProcessInv(q)'
    BY <1>1, <2>3 DEF SafePersistTerminal, ProcessInv, TypeOK
  <2>4. CASE SpawnFails(r)
    BY <1>1, <2>3, <2>4 DEF SpawnFails, ProcessInv, Processes
  <2>5. CASE CommunicateReturns(r)
    BY <2>3, <2>5 DEF CommunicateReturns
  <2>6. CASE DrainPipes(r)
    BY <2>3, <2>6 DEF DrainPipes, Processes, ProcessInv
  <2>7. CASE ReapAfterKill(r)
    <3>1. CASE q # r
      <4>1. /\ pc'[q] = pc[q] /\ kin'[q] = kin[q] /\ killed'[q] = killed[q]
            /\ child'[q] = child[q] /\ code'[q] = code[q]
        BY <2>7, <3>1, KillChildEffect DEF ReapAfterKill, Resumes, TypeOK
      <4> QED
        BY <1>1, <4>1 DEF ProcessInv
    <3>2. CASE q = r /\ HasPgid(r)
      <4>1. /\ child'[r] = "zombie" /\ pc'[r] = "reaping"
            /\ kin'[r] = {k \in kin[r] : ~k.grouped}
        BY <2>7, <3>2, KillChildEffect DEF ReapAfterKill, Resumes, HasPgid, TypeOK
      <4> QED
        BY <3>2, <4>1 DEF ProcessInv
    <3>3. CASE q = r /\ ~HasPgid(r)
      <4>1. /\ UNCHANGED <<child, code, kin, killed>>
            /\ pc'[r] = IF child[r] = "known" THEN "draining" ELSE "reaping"
        BY <2>7, <3>3 DEF ReapAfterKill, Resumes, TypeOK
      <4> QED
        BY <1>1, <3>3, <4>1 DEF ProcessInv
    <3> QED
      BY <3>1, <3>2, <3>3
  <2>8. CASE RecordResult(r)
    BY <1>1, <2>8 DEF RecordResult, ProcessInv, TypeOK
  <2> QED
    BY <1>4, <2>1, <2>2, <2>4, <2>5, <2>6, <2>7, <2>8 DEF RunStep
<1>5. ASSUME NEW r \in Runs, ProcessStep(r)
      PROVE  ProcessInv(q)'
  <2>1. CASE \E x \in ChildCodes : ChildExits(r, x)
    BY <1>1, <2>1 DEF ChildExits, ProcessInv, TypeOK
  <2>2. ASSUME NEW k \in Kin, Fork(r, k)
        PROVE  ProcessInv(q)'
    <3>1. Live(r) # {} /\ (killed[r] => ~k.grouped)
      BY <2>2 DEF Fork, Live, Processes, ProcessInv
    <3>2. child[r] # "none"
      BY <3>1 DEF Live, Processes, ProcessInv
    <3> QED
      BY <1>1, <2>2, <3>1, <3>2 DEF Fork, ProcessInv, TypeOK
  <2>3. CASE \E k \in Kin : KinExits(r, k)
    BY <1>1, <2>3 DEF KinExits, ProcessInv, TypeOK
  <2>4. CASE Collect(r) \/ Notify(r)
    BY <1>1, <2>4 DEF Collect, Notify, ProcessInv, TypeOK
  <2>5. CASE Clog(r)
    BY <1>1, <2>5 DEF Clog, ProcessInv
  <2> QED
    BY <1>5, <2>1, <2>2, <2>3, <2>4, <2>5 DEF ProcessStep
<1>6. ASSUME NEW r \in Runs, Cancel(r)
      PROVE  ProcessInv(q)'
  <2>1. CASE pc[r] = "connecting"
    BY <1>1, <1>6, <2>1, KillChildEffect DEF Cancel, ProcessInv, TypeOK
  <2>2. CASE pc[r] # "connecting"
    BY <1>1, <1>6, <2>2 DEF Cancel, ProcessInv, TypeOK
  <2> QED
    BY <2>1, <2>2
<1>7. CASE UNCHANGED vars
  BY <1>1, <1>7 DEF vars, ProcessInv
<1> QED
  BY <1>2, <1>3, <1>4, <1>5, <1>6, <1>7 DEF Next, Endpoint

LEMMA ProcessesInvariant == Spec => []Processes
<1>1. Init => Processes
  BY DEF Init, Processes, ProcessInv
<1> QED
  BY <1>1, RunnerTypeCorrect, ProcessesInductive, PTL DEF Spec

(* No member of a process group that _reap_after_kill signalled is alive.  *)
THEOREM KilledGroups == Spec => []KilledGroupStaysDead
<1>1. Processes => KilledGroupStaysDead
  BY DEF Processes, ProcessInv, KilledGroupStaysDead, GroupAlive, Live
<1> QED
  BY <1>1, ProcessesInvariant, PTL

(* A run that returned has collected the child it spawned.                 *)
THEOREM ChildrenCollected == Spec => []ReturnAfterCollection
<1>1. Processes => ReturnAfterCollection
  BY DEF Processes, ProcessInv, ReturnAfterCollection
<1> QED
  BY <1>1, ProcessesInvariant, PTL

-----------------------------------------------------------------------------
(* The inductive invariant of the result table: HistoryTellsVerdict, and   *)
(* that a run about to add its row will add one that tells its verdict.    *)
RecordingAgrees(r) ==
  pc[r] = "recording" =>
    verdict[r] = "timeout" \/ (code[r] = 0 <=> verdict[r] = "done")

History == HistoryTellsVerdict /\ \A r \in Runs : RecordingAgrees(r)

(* What a step that writes no result row needs to preserve History.        *)
LEMMA HistoryFrame ==
  ASSUME TypeOK, History, results' \subseteq results,
         \A r \in Runs : pc[r] = "ended" => pc'[r] = "ended" /\ verdict'[r] = verdict[r],
         \A r \in Runs : RecordingAgrees(r)'
  PROVE  History'
<1>1. ASSUME NEW x \in results', NEW y \in results'
      PROVE  /\ x.run = y.run => x = y
             /\ pc'[x.run] = "ended"
             /\ x.exit = 0 <=> verdict'[x.run] = "done"
  <2>1. x \in results /\ y \in results /\ x.run \in Runs
    BY <1>1 DEF TypeOK
  <2>2. /\ x.run = y.run => x = y
        /\ pc[x.run] = "ended"
        /\ x.exit = 0 <=> verdict[x.run] = "done"
    BY <2>1 DEF History, HistoryTellsVerdict
  <2> QED
    BY <2>1, <2>2
<1> QED
  BY <1>1 DEF History, HistoryTellsVerdict

(* What a step that writes the result row of r needs to preserve History.  *)
LEMMA HistoryWrite ==
  ASSUME TypeOK, History, NEW r \in Runs, NEW e \in Exits, SafeWriteResult(r, e),
         pc[r] # "ended", pc' = [pc EXCEPT ![r] = "ended"],
         \A q \in Runs : q # r => verdict'[q] = verdict[q],
         e = 0 <=> verdict'[r] = "done", UNCHANGED code
  PROVE  History'
<1>1. \A q \in Runs : RecordingAgrees(q)'
  BY DEF History, RecordingAgrees, TypeOK
<1>2. \A x \in results : x.run \in Runs /\ x.run # r
  BY DEF History, HistoryTellsVerdict, TypeOK
<1>3. \A q \in Runs : pc[q] = "ended" => q # r /\ pc'[q] = "ended" /\ verdict'[q] = verdict[q]
  BY DEF TypeOK
<1>4. CASE UNCHANGED results
  BY <1>1, <1>3, <1>4, HistoryFrame
<1>5. CASE WriteResult(r, e)
  <2> DEFINE new == [run |-> r, exit |-> e]
  <2>1. results' = results \cup {new} /\ new.run = r /\ new.exit = e
    BY <1>2, <1>5 DEF WriteResult
  <2>2. pc'[r] = "ended"
    BY DEF TypeOK
  <2>3. ASSUME NEW x \in results'
        PROVE  pc'[x.run] = "ended" /\ (x.exit = 0 <=> verdict'[x.run] = "done")
    BY <1>2, <1>3, <2>1, <2>2, <2>3 DEF History, HistoryTellsVerdict
  <2>4. ASSUME NEW x \in results', NEW y \in results', x.run = y.run
        PROVE  x = y
    BY <1>2, <2>1, <2>4 DEF History, HistoryTellsVerdict
  <2> QED
    BY <1>1, <2>3, <2>4 DEF History, HistoryTellsVerdict
<1> QED
  BY <1>4, <1>5 DEF SafeWriteResult

LEMMA HistoryInductive == TypeOK /\ Processes /\ History /\ [Next]_vars => History'
<1> SUFFICES ASSUME TypeOK, Processes, History, [Next]_vars
             PROVE  History'
  OBVIOUS
<1> USE RunnerAssumption DEF store, process
<1>1. CASE \/ \E t \in Tasks : CreateTask(t) \/ \E d \in Threads : DeleteRow(d, t)
          \/ \E d \in Threads : DeleteStep(d)
  <2>1. results' \subseteq results /\ UNCHANGED <<pc, verdict, code>>
    BY <1>1, DeleteEffect DEF CreateTask, DeleteRow
  <2> QED
    BY <2>1, HistoryFrame DEF History, RecordingAgrees
<1>2. ASSUME NEW r \in Runs, NEW s \in Terminal, SafePersistTerminal(r, s),
             UNCHANGED <<sweep, results, process>>, pc[r] # "ended",
             s = "timeout" \/ (code[r] = 0 <=> s = "done")
      PROVE  History'
  <2>1. \A q \in Runs : q # r => pc'[q] = pc[q] /\ verdict'[q] = verdict[q]
    BY <1>2 DEF SafePersistTerminal, TypeOK
  <2>2. verdict'[r] = s
    BY <1>2 DEF SafePersistTerminal, TypeOK
  <2>3. \A q \in Runs : RecordingAgrees(q)'
    BY <1>2, <2>1, <2>2 DEF RecordingAgrees, History
  <2> QED
    BY <1>2, <2>1, <2>3, HistoryFrame
<1>3. ASSUME NEW r \in Runs, UNCHANGED <<results, verdict>>, pc[r] # "ended",
             \/ UNCHANGED pc
             \/ \E p \in PC \ {"recording"} : pc' = [pc EXCEPT ![r] = p],
             \A q \in Runs : pc[q] = "recording" => code'[q] = code[q]
      PROVE  History'
  <2>1. \A q \in Runs : pc[q] = "ended" => pc'[q] = "ended"
    BY <1>3 DEF TypeOK
  <2>2. \A q \in Runs : pc'[q] = "recording" => pc[q] = "recording"
    BY <1>3 DEF TypeOK
  <2>3. \A q \in Runs : RecordingAgrees(q)'
    BY <1>3, <2>2 DEF RecordingAgrees, History
  <2> QED
    BY <1>3, <2>1, <2>3, HistoryFrame
<1>4. ASSUME NEW r \in Runs, RunStep(r)
      PROVE  History'
  <2>1. CASE MarkRunning(r) \/ ConnectPipes(r) \/ TimeoutFires(r) \/ WaitReturns(r)
    BY <1>3, <2>1 DEF MarkRunning, ConnectPipes, TimeoutFires, WaitReturns, Resumes,
       PC, Suspended, HoldsLoop
  <2>2. CASE SpawnRaises(r) \/ Spawn(r)
    BY <1>3, <2>2 DEF SpawnRaises, Spawn, PC, Suspended, Settled
  <2>3. CASE TokeniseFails(r)
    <3>1. NoTokens \in Exits /\ NoTokens # 0
      BY DEF NoTokens, Exits
    <3>2. /\ SafeWriteResult(r, NoTokens) /\ UNCHANGED code
          /\ pc[r] # "ended" /\ pc' = [pc EXCEPT ![r] = "ended"]
      BY <2>3 DEF TokeniseFails
    <3>3. verdict'[r] = "failed" /\ \A q \in Runs : q # r => verdict'[q] = verdict[q]
      BY <2>3 DEF TokeniseFails, TypeOK
    <3> QED
      BY <3>1, <3>2, <3>3, HistoryWrite
  <2>4. CASE SpawnFails(r)
    <3>1. code[r] = NotFound
      BY <2>4 DEF SpawnFails, Processes, ProcessInv
    <3> QED
      BY <1>2, <2>4, <3>1 DEF SpawnFails, NotFound, Terminal
  <2>5. CASE CommunicateReturns(r)
    <3> DEFINE s == StateMachine("running", FALSE, {code[r]}, FALSE)
    <3>1. s \in Terminal /\ (code[r] = 0 <=> s = "done")
      BY RunningConcludes DEF Terminal
    <3>2. SafePersistTerminal(r, s) /\ UNCHANGED <<sweep, results, process>> /\ pc[r] = "waiting"
      BY <2>5 DEF CommunicateReturns
    <3> HIDE DEF s
    <3> QED
      BY <1>2, <3>1, <3>2
  <2>6. CASE DrainPipes(r)
    BY <1>2, <2>6 DEF DrainPipes, Terminal
  <2>7. CASE ReapAfterKill(r)
    <3>1. \A q \in Runs : pc[q] = "recording" => code'[q] = code[q]
      BY <2>7, KillChildEffect DEF ReapAfterKill, Resumes
    <3>2. pc[r] = "expired" /\ UNCHANGED <<results, verdict>>
      BY <2>7 DEF ReapAfterKill, Resumes
    <3>3. \E p \in PC \ {"recording"} : pc' = [pc EXCEPT ![r] = p]
      BY <2>7 DEF ReapAfterKill, Resumes, PC, Suspended
    <3> QED
      BY <1>3, <3>1, <3>2, <3>3
  <2>8. CASE RecordResult(r)
    <3>1. ExitRecorded(r) \in Exits /\ (ExitRecorded(r) = 0 <=> verdict[r] = "done")
      BY <2>8 DEF RecordResult, ExitRecorded, History, RecordingAgrees, TypeOK,
         Exits, NoTokens
    <3> QED
      BY <2>8, <3>1, HistoryWrite DEF RecordResult
  <2> QED
    BY <1>4, <2>1, <2>2, <2>3, <2>4, <2>5, <2>6, <2>7, <2>8 DEF RunStep
<1>5. ASSUME NEW r \in Runs, ProcessStep(r)
      PROVE  History'
  <2>1. UNCHANGED <<results, pc, verdict>>
    BY <1>5 DEF ProcessStep, ChildExits, Fork, KinExits, Collect, Notify, Clog
  <2>2. \A q \in Runs : pc[q] = "recording" => code'[q] = code[q]
    <3>1. CASE \E x \in ChildCodes : ChildExits(r, x)
      BY <3>1 DEF ChildExits, Processes, ProcessInv, TypeOK
    <3>2. CASE UNCHANGED code
      BY <3>2
    <3> QED
      BY <1>5, <3>1, <3>2 DEF ProcessStep, Fork, KinExits, Collect, Notify, Clog
  <2> QED
    BY <2>1, <2>2, HistoryFrame DEF History, RecordingAgrees
<1>6. ASSUME NEW r \in Runs, Cancel(r)
      PROVE  History'
  <2>1. \A q \in Runs : pc[q] = "recording" => code'[q] = code[q]
    BY <1>6, KillChildEffect DEF Cancel, LoopFree, HoldsLoop
  <2> QED
    BY <1>3, <1>6, <2>1 DEF Cancel, Suspended, PC, Settled
<1>7. ASSUME NEW r \in Runs, PostRun(r)
      PROVE  History'
  BY <1>3, <1>7 DEF PostRun, Resumes, PC, Suspended
<1>8. CASE UNCHANGED vars
  BY <1>8, HistoryFrame DEF vars, History, RecordingAgrees
<1> QED
  BY <1>1, <1>4, <1>5, <1>6, <1>7, <1>8 DEF Next, Endpoint

LEMMA HistoryInvariant == Spec => []History
<1>1. Init => History
  BY DEF Init, History, HistoryTellsVerdict, RecordingAgrees
<1> QED
  BY <1>1, RunnerTypeCorrect, ProcessesInvariant, HistoryInductive, PTL DEF Spec

(* The history has one row per run, and its exit code tells the verdict.   *)
THEOREM HistoryIsTruthful == Spec => []HistoryTellsVerdict
<1>1. History => HistoryTellsVerdict
  BY DEF History
<1> QED
  BY <1>1, HistoryInvariant, PTL

-----------------------------------------------------------------------------
(* A terminal status is one that a run of the task concluded with.         *)
LEMMA EarnedInductive ==
  TypeOK /\ TerminalStatusIsEarned /\ [Next]_vars => TerminalStatusIsEarned'
<1> SUFFICES ASSUME TypeOK, TerminalStatusIsEarned, [Next]_vars,
                    NEW t \in Tasks, row'[t] \in Terminal
             PROVE  \E r \in Runs : /\ TaskOf[r] = t
                                   /\ pc'[r] \in {"recording", "ended"}
                                   /\ verdict'[r] = row'[t]
  BY DEF TerminalStatusIsEarned
<1> USE RunnerAssumption DEF store, process
\* The step leaves the status of t and every concluded run alone.
<1>1. ASSUME row'[t] = row[t],
             \A q \in Runs : pc[q] \in {"recording", "ended"} =>
               pc'[q] \in {"recording", "ended"} /\ verdict'[q] = verdict[q]
      PROVE  \E r \in Runs : /\ TaskOf[r] = t
                            /\ pc'[r] \in {"recording", "ended"}
                            /\ verdict'[r] = row'[t]
  BY <1>1 DEF TerminalStatusIsEarned
<1>2. ASSUME NEW r \in Runs, NEW s, SafePersistTerminal(r, s),
             pc[r] \notin {"recording", "ended"}
      PROVE  \E q \in Runs : /\ TaskOf[q] = t
                            /\ pc'[q] \in {"recording", "ended"}
                            /\ verdict'[q] = row'[t]
  <2>1. /\ pc'[r] \in {"recording", "ended"} /\ verdict'[r] = s
        /\ \A q \in Runs : q # r => pc'[q] = pc[q] /\ verdict'[q] = verdict[q]
    BY <1>2 DEF SafePersistTerminal, TypeOK
  <2>2. row'[t] = row[t] \/ (TaskOf[r] = t /\ row'[t] = s)
    BY <1>2 DEF SafePersistTerminal, UpdateStatus, TypeOK
  <2> QED
    BY <1>1, <1>2, <2>1, <2>2
<1>3. ASSUME NEW r \in Runs, RunStep(r)
      PROVE  \E q \in Runs : /\ TaskOf[q] = t
                            /\ pc'[q] \in {"recording", "ended"}
                            /\ verdict'[q] = row'[t]
  <2>1. CASE MarkRunning(r)
    <3>1. row'[t] = row[t]
      BY <2>1 DEF MarkRunning, SafeUpdateStatus, UpdateStatus, TypeOK, Terminal
    <3> QED
      BY <1>1, <2>1, <3>1 DEF MarkRunning, Resumes, TypeOK
  <2>2. CASE ConnectPipes(r) \/ TimeoutFires(r) \/ WaitReturns(r) \/ ReapAfterKill(r)
    BY <1>1, <2>2 DEF ConnectPipes, TimeoutFires, WaitReturns, ReapAfterKill, Resumes, TypeOK
  <2>3. CASE TokeniseFails(r) \/ SpawnRaises(r) \/ Spawn(r) \/ RecordResult(r)
    BY <1>1, <2>3 DEF TokeniseFails, SpawnRaises, Spawn, RecordResult, TypeOK
  <2>4. CASE SpawnFails(r) \/ CommunicateReturns(r) \/ DrainPipes(r)
    BY <1>2, <2>4 DEF SpawnFails, CommunicateReturns, DrainPipes
  <2> QED
    BY <1>3, <2>1, <2>2, <2>3, <2>4 DEF RunStep
<1>4. ASSUME NEW r \in Runs, ProcessStep(r)
      PROVE  UNCHANGED <<row, pc, verdict>>
  BY <1>4 DEF ProcessStep, ChildExits, Fork, KinExits, Collect, Notify, Clog
<1>5. ASSUME NEW r \in Runs, Cancel(r) \/ PostRun(r)
      PROVE  /\ row' = row
             /\ \A q \in Runs : pc[q] \in {"recording", "ended"} =>
                  pc'[q] \in {"recording", "ended"} /\ verdict'[q] = verdict[q]
  BY <1>5 DEF Cancel, PostRun, Resumes, Suspended, TypeOK
<1>6. ASSUME \/ \E u \in Tasks : CreateTask(u) \/ \E d \in Threads : DeleteRow(d, u)
             \/ \E d \in Threads : DeleteStep(d)
      PROVE  row'[t] = row[t] /\ UNCHANGED <<pc, verdict>>
  BY <1>6, DeleteEffect DEF CreateTask, DeleteRow, TypeOK, Terminal
<1> QED
  BY <1>1, <1>3, <1>4, <1>5, <1>6 DEF Next, Endpoint, vars

(* A task shows done, failed or timeout only if one of its runs ended so.  *)
THEOREM StatusIsEarned == Spec => []TerminalStatusIsEarned
<1>1. Init => TerminalStatusIsEarned
  BY DEF Init, TerminalStatusIsEarned, Terminal
<1> QED
  BY <1>1, RunnerTypeCorrect, EarnedInductive, PTL DEF Spec

-----------------------------------------------------------------------------
(* The event loop: at most one coroutine stands between two awaits, and a  *)
(* run about to add its row finds the status it wrote, or a deleted task.  *)
OneHolder == \A q, r \in Runs : pc[q] \in HoldsLoop /\ pc[r] \in HoldsLoop => q = r
OwnStatus == \A r \in Runs : pc[r] = "recording" => row[TaskOf[r]] \in {verdict[r], "deleted"}
Verdicts == \A r \in Runs : pc[r] = "recording" => verdict[r] \in Terminal

Posted == \A r \in Runs : pc[r] # "idle" => row[TaskOf[r]] # "absent"

Loop == OneHolder /\ OwnStatus /\ Verdicts /\ Posted

\* A task that a run was posted for keeps a row, or the mark of its deletion.
LEMMA PostedFrame ==
  ASSUME Posted, \A r \in Runs : pc[r] = "idle" => pc'[r] = "idle" \/ row[TaskOf[r]] # "absent",
         \A t \in Tasks : row[t] # "absent" => row'[t] # "absent"
  PROVE  Posted'
BY RunnerAssumption DEF Posted

\* A step of run r that neither concludes it nor writes a status meanwhile.
LEMMA LoopFrame ==
  ASSUME TypeOK, Loop, NEW r \in Runs, NEW p \in PC \ {"recording"},
         pc' = [pc EXCEPT ![r] = p],
         p = "marked" => LoopFree,
         UNCHANGED row \/ LoopFree,
         \A q \in Runs : q # r => verdict'[q] = verdict[q],
         \A t \in Tasks : row[t] # "absent" => row'[t] # "absent",
         pc[r] # "idle" \/ row[TaskOf[r]] # "absent"
  PROVE  Loop'
<1>1. /\ \A q \in Runs : q # r => pc'[q] = pc[q]
      /\ pc'[r] = p
  BY DEF TypeOK
<1>2. OneHolder'
  <2>1. CASE p = "marked"
    BY <1>1, <2>1 DEF OneHolder, HoldsLoop, LoopFree
  <2>2. CASE p # "marked"
    BY <1>1, <2>2 DEF Loop, OneHolder, HoldsLoop
  <2> QED
    BY <2>1, <2>2
<1>3. ASSUME NEW q \in Runs, pc'[q] = "recording"
      PROVE  row'[TaskOf[q]] \in {verdict'[q], "deleted"} /\ verdict'[q] \in Terminal
  <2>1. q # r /\ pc[q] = "recording" /\ ~LoopFree
    BY <1>1, <1>3 DEF LoopFree, HoldsLoop
  <2> QED
    BY <2>1 DEF Loop, OwnStatus, Verdicts
<1>4. Posted'
  BY <1>1, PostedFrame DEF Loop
<1> QED
  BY <1>2, <1>3, <1>4 DEF Loop, OwnStatus, Verdicts

\* A step of the endpoints or of the processes: no coroutine moves.
LEMMA LoopIdle ==
  ASSUME TypeOK, Loop, pc' = pc, verdict' = verdict,
         \A t \in Tasks : row'[t] \in {row[t], "deleted"} \/ (row[t] = "absent" /\ row'[t] = "pending")
  PROVE  Loop'
<1> USE RunnerAssumption
<1>1. ASSUME NEW r \in Runs, pc[r] = "recording"
      PROVE  row'[TaskOf[r]] \in {verdict'[r], "deleted"}
  <2>1. row[TaskOf[r]] # "absent" /\ TaskOf[r] \in Tasks
    BY <1>1 DEF Loop, Posted
  <2> QED
    BY <1>1, <2>1 DEF Loop, OwnStatus
<1>2. Posted'
  BY PostedFrame DEF Loop
<1> QED
  BY <1>1, <1>2 DEF Loop, OneHolder, OwnStatus, Verdicts

LEMMA LoopInductive == TypeOK /\ Loop /\ [Next]_vars => Loop'
<1> SUFFICES ASSUME TypeOK, Loop, [Next]_vars
             PROVE  Loop'
  OBVIOUS
<1> USE RunnerAssumption DEF store, process
<1>2. ASSUME NEW r \in Runs, NEW s \in Terminal, SafePersistTerminal(r, s),
             LoopFree \/ pc[r] = "marked", pc[r] # "idle"
      PROVE  Loop'
  <2>1. /\ \A q \in Runs : q # r => pc'[q] = pc[q] /\ pc[q] \notin HoldsLoop
        /\ verdict'[r] = s
    BY <1>2 DEF SafePersistTerminal, LoopFree, HoldsLoop, Loop, OneHolder, TypeOK
  <2>2. OneHolder'
    BY <2>1 DEF OneHolder
  <2>3. \A t \in Tasks : row[t] # "absent" => row'[t] # "absent"
    BY <1>2 DEF SafePersistTerminal, UpdateStatus, Terminal, TypeOK
  <2>4. Posted'
    BY <1>2, <2>1, <2>3, PostedFrame DEF Loop
  <2>5. pc'[r] = "recording" => row'[TaskOf[r]] \in {s, "deleted"}
    <3>1. CASE row[TaskOf[r]] \in Status
      BY <1>2, <3>1 DEF SafePersistTerminal, UpdateStatus, TypeOK
    <3>2. CASE row[TaskOf[r]] \notin Status
      <4>1. row[TaskOf[r]] = "deleted"
        BY <1>2, <3>2 DEF Loop, Posted, TypeOK
      <4> QED
        BY <1>2, <3>2, <4>1 DEF SafePersistTerminal, UpdateStatus, TypeOK
    <3> QED
      BY <3>1, <3>2
  <2> QED
    BY <2>1, <2>2, <2>4, <2>5 DEF Loop, OwnStatus, Verdicts, HoldsLoop
<1>3. ASSUME NEW r \in Runs, RunStep(r)
      PROVE  Loop'
  <2> USE DEF PC, Suspended, HoldsLoop, Settled
  <2>1. CASE MarkRunning(r)
    <3>1. \A t \in Tasks : row[t] # "absent" => row'[t] # "absent"
      BY <2>1 DEF MarkRunning, SafeUpdateStatus, UpdateStatus, TypeOK
    <3> QED
      BY <2>1, <3>1, LoopFrame DEF MarkRunning, Resumes
  <2>2. CASE ConnectPipes(r) \/ TimeoutFires(r) \/ WaitReturns(r)
    BY <2>2, LoopFrame DEF ConnectPipes, TimeoutFires, WaitReturns, Resumes
  <2>3. CASE ReapAfterKill(r)
    <3>1. \E p \in {"draining", "reaping"} : pc' = [pc EXCEPT ![r] = p]
      BY <2>3 DEF ReapAfterKill, Resumes
    <3> QED
      BY <2>3, <3>1, LoopFrame DEF ReapAfterKill, Resumes
  <2>4. CASE TokeniseFails(r)
    <3>1. \A q \in Runs : q # r => verdict'[q] = verdict[q]
      BY <2>4 DEF TokeniseFails, TypeOK
    <3> QED
      BY <2>4, <3>1, LoopFrame DEF TokeniseFails
  <2>5. CASE SpawnRaises(r) \/ Spawn(r) \/ RecordResult(r)
    BY <2>5, LoopFrame DEF SpawnRaises, Spawn, RecordResult
  <2>6. CASE SpawnFails(r)
    BY <1>2, <2>6 DEF SpawnFails, Terminal
  <2>7. CASE CommunicateReturns(r)
    <3> DEFINE s == StateMachine("running", FALSE, {code[r]}, FALSE)
    <3>1. s \in Terminal
      BY RunningConcludes DEF Terminal
    <3>2. SafePersistTerminal(r, s) /\ LoopFree /\ pc[r] = "waiting"
      BY <2>7 DEF CommunicateReturns
    <3> HIDE DEF s
    <3> QED
      BY <1>2, <3>1, <3>2
  <2>8. CASE DrainPipes(r)
    BY <1>2, <2>8 DEF DrainPipes, Terminal
  <2> QED
    BY <1>3, <2>1, <2>2, <2>3, <2>4, <2>5, <2>6, <2>7, <2>8 DEF RunStep
<1>4. ASSUME NEW r \in Runs, ProcessStep(r)
      PROVE  UNCHANGED <<row, pc, verdict>>
  BY <1>4 DEF ProcessStep, ChildExits, Fork, KinExits, Collect, Notify, Clog
<1>5. ASSUME NEW r \in Runs, Cancel(r) \/ PostRun(r)
      PROVE  Loop'
  <2>1. CASE Cancel(r)
    BY <2>1, LoopFrame DEF Cancel, PC, Suspended, Settled
  <2>2. CASE PostRun(r)
    BY <2>2, LoopFrame DEF PostRun, Resumes, PC, Suspended, Status, Terminal
  <2> QED
    BY <1>5, <2>1, <2>2
<1>6. CASE \/ \E u \in Tasks : CreateTask(u) \/ \E d \in Threads : DeleteRow(d, u)
          \/ \E d \in Threads : DeleteStep(d)
  <2>1. /\ UNCHANGED <<pc, verdict>>
        /\ \A t \in Tasks : row'[t] \in {row[t], "deleted"} \/ (row[t] = "absent" /\ row'[t] = "pending")
    BY <1>6, DeleteEffect DEF CreateTask, DeleteRow, TypeOK
  <2> QED
    BY <2>1, LoopIdle
<1>7. ASSUME UNCHANGED <<row, pc, verdict>>
      PROVE  Loop'
  <2>1. \A t \in Tasks : row'[t] \in {row[t], "deleted"}
    BY <1>7
  <2> QED
    BY <1>7, <2>1, LoopIdle
<1>8. CASE \E r \in Runs : ProcessStep(r)
  BY <1>4, <1>7, <1>8
<1>9. CASE UNCHANGED vars
  BY <1>7, <1>9 DEF vars
<1> QED
  BY <1>3, <1>5, <1>6, <1>8, <1>9 DEF Next, Endpoint

LEMMA LoopInvariant == Spec => []Loop
<1>1. Init => Loop
  BY DEF Init, Loop, OneHolder, OwnStatus, Verdicts, Posted, HoldsLoop
<1> QED
  BY <1>1, RunnerTypeCorrect, LoopInductive, PTL DEF Spec

(* A result row is added only under the status its own run wrote.          *)
THEOREM ResultsFollowStatus == Spec => ResultUnderOwnStatus
<1>1. Loop /\ [Next]_vars =>
        [\A r \in Runs : ~Recorded(r) /\ Recorded(r)' /\ pc[r] = "recording"
           => row[TaskOf[r]] \in {verdict[r], "deleted"}]_vars
  BY DEF Loop, OwnStatus
<1> QED
  BY <1>1, LoopInvariant, PTL DEF Spec, ResultUnderOwnStatus

-----------------------------------------------------------------------------
(* A DELETE in progress has taken the row already, and a deleted task      *)
(* never comes back: what a sweep removes belongs to a deleted task.       *)
Sweeping ==
  \A d \in Threads : sweep[d].at = "idle" => sweep[d].keys = {}
SweptTasks ==
  \A d \in Threads : sweep[d].at # "idle" => row[sweep[d].task] = "deleted"
Lasting == Sweeping /\ SweptTasks /\ NoLostResult

\* A step that keeps deleted tasks deleted, and the row of every run recorded.
LEMMA LastingFrame ==
  ASSUME Lasting,
         \A r \in Runs : pc'[r] = "ended" => pc[r] = "ended" \/ Recorded(r)' \/ "repo" \in Faults,
         \A r \in Runs : Recorded(r) => Recorded(r)' \/ row'[TaskOf[r]] = "deleted",
         \A t \in Tasks : row[t] = "deleted" => row'[t] = "deleted",
         \A d \in Threads : \/ sweep'[d] = sweep[d]
                           \/ (sweep'[d].at = "idle" /\ sweep'[d].keys = {})
                           \/ (sweep'[d].at # "idle" /\ row'[sweep'[d].task] = "deleted"),
         TypeOK
  PROVE  Lasting'
<1>1. Sweeping' /\ SweptTasks'
  BY DEF Lasting, Sweeping, SweptTasks, TypeOK
<1>2. NoLostResult'
  BY RunnerAssumption DEF Lasting, NoLostResult, Recorded
<1> QED
  BY <1>1, <1>2 DEF Lasting

\* The best-effort writers, seen from the deleted tasks and the recorded runs.
LEMMA UpdateStatusKeeps ==
  ASSUME TypeOK, NEW t \in Tasks, NEW s, SafeUpdateStatus(t, s)
  PROVE  \A u \in Tasks : row[u] = "deleted" => row'[u] = "deleted"
BY DEF SafeUpdateStatus, UpdateStatus, TypeOK, Status, Terminal

LEMMA WriteResultKeeps ==
  ASSUME NEW r \in Runs, NEW e, SafeWriteResult(r, e)
  PROVE  /\ \A q \in Runs : Recorded(q) => Recorded(q)'
         /\ Recorded(r)' \/ "repo" \in Faults
<1>1. CASE WriteResult(r, e)
  <2>1. [run |-> r, exit |-> e] \in results'
    BY <1>1 DEF WriteResult
  <2>2. Recorded(r)'
    BY <2>1 DEF Recorded
  <2>3. ASSUME NEW q \in Runs, Recorded(q), q # r
        PROVE  Recorded(q)'
    BY <1>1, <2>3 DEF WriteResult, Recorded
  <2> QED
    BY <2>2, <2>3
<1>2. CASE "repo" \in Faults /\ UNCHANGED results
  BY <1>2 DEF Recorded
<1> QED
  BY <1>1, <1>2 DEF SafeWriteResult

LEMMA LastingInductive == TypeOK /\ Lasting /\ [Next]_vars => Lasting'
<1> SUFFICES ASSUME TypeOK, Lasting, [Next]_vars
             PROVE  Lasting'
  OBVIOUS
<1> USE RunnerAssumption DEF store, process
<1>1. ASSUME NEW r \in Runs, NEW s, SafePersistTerminal(r, s), UNCHANGED <<sweep, results>>
      PROVE  Lasting'
  <2>1. \A q \in Runs : pc'[q] = "ended" => pc[q] = "ended" \/ "repo" \in Faults
    BY <1>1 DEF SafePersistTerminal, TypeOK
  <2>2. SafeUpdateStatus(TaskOf[r], s)
    BY <1>1 DEF SafePersistTerminal, SafeUpdateStatus
  <2>3. \A u \in Tasks : row[u] = "deleted" => row'[u] = "deleted"
    BY <2>2, UpdateStatusKeeps
  <2> QED
    BY <1>1, <2>1, <2>3, LastingFrame DEF Recorded
<1>2. ASSUME NEW r \in Runs, RunStep(r)
      PROVE  Lasting'
  <2>1. CASE MarkRunning(r)
    <3>1. \A u \in Tasks : row[u] = "deleted" => row'[u] = "deleted"
      BY <2>1, UpdateStatusKeeps DEF MarkRunning
    <3>2. \A q \in Runs : pc'[q] = "ended" => pc[q] = "ended"
      BY <2>1 DEF MarkRunning, Resumes, TypeOK
    <3> QED
      BY <2>1, <3>1, <3>2, LastingFrame DEF MarkRunning, Recorded
  <2>2. CASE TokeniseFails(r)
    BY <2>2, WriteResultKeeps, LastingFrame DEF TokeniseFails, TypeOK
  <2>3. CASE RecordResult(r)
    BY <2>3, WriteResultKeeps, LastingFrame DEF RecordResult, TypeOK
  <2>4. CASE SpawnFails(r) \/ DrainPipes(r)
    BY <1>1, <2>4 DEF SpawnFails, DrainPipes
  <2>5. CASE CommunicateReturns(r)
    BY <1>1, <2>5 DEF CommunicateReturns
  <2>6. CASE SpawnRaises(r) \/ Spawn(r) \/ ConnectPipes(r) \/ TimeoutFires(r) \/ WaitReturns(r)
    <3>1. \A q \in Runs : pc'[q] = "ended" => pc[q] = "ended"
      BY <2>6 DEF SpawnRaises, Spawn, ConnectPipes, TimeoutFires, WaitReturns, Resumes, TypeOK
    <3>2. UNCHANGED <<row, sweep, results>>
      BY <2>6 DEF SpawnRaises, Spawn, ConnectPipes, TimeoutFires, WaitReturns
    <3> QED
      BY <3>1, <3>2, LastingFrame DEF Recorded
  <2>7. CASE ReapAfterKill(r)
    <3>1. \A q \in Runs : pc'[q] = "ended" => pc[q] = "ended"
      BY <2>7 DEF ReapAfterKill, Resumes, TypeOK
    <3>2. UNCHANGED <<row, sweep, results>>
      BY <2>7 DEF ReapAfterKill
    <3> QED
      BY <3>1, <3>2, LastingFrame DEF Recorded
  <2> QED
    BY <1>2, <2>1, <2>2, <2>3, <2>4, <2>5, <2>6, <2>7 DEF RunStep
<1>3. ASSUME NEW r \in Runs, ProcessStep(r) \/ Cancel(r) \/ PostRun(r)
      PROVE  Lasting'
  <2>1. UNCHANGED <<row, sweep, results>>
    BY <1>3 DEF ProcessStep, ChildExits, Fork, KinExits, Collect, Notify, Clog, Cancel, PostRun
  <2>2. \A q \in Runs : pc'[q] = "ended" => pc[q] = "ended"
    BY <1>3 DEF ProcessStep, ChildExits, Fork, KinExits, Collect, Notify, Clog, Cancel, PostRun,
                Resumes, TypeOK
  <2> QED
    BY <2>1, <2>2, LastingFrame DEF Recorded
<1>4. ASSUME NEW t \in Tasks, CreateTask(t) \/ \E d \in Threads : DeleteRow(d, t)
      PROVE  Lasting'
  <2>1. CASE CreateTask(t)
    BY <2>1, LastingFrame DEF CreateTask, TypeOK, Recorded
  <2>2. ASSUME NEW d \in Threads, DeleteRow(d, t)
        PROVE  Lasting'
    <3>1. /\ \A u \in Tasks : row[u] = "deleted" => row'[u] = "deleted"
          /\ row'[t] = "deleted"
          /\ UNCHANGED <<results, pc>>
      BY <2>2 DEF DeleteRow, TypeOK
    <3>2. /\ \A e \in Threads : e # d => sweep'[e] = sweep[e]
          /\ sweep'[d].task = t /\ sweep'[d].at = "removed"
      BY <2>2 DEF DeleteRow, TypeOK
    <3> QED
      BY <3>1, <3>2, LastingFrame DEF Recorded
  <2> QED
    BY <1>4, <2>1, <2>2
<1>5. ASSUME NEW d \in Threads, DeleteStep(d)
      PROVE  Lasting'
  <2>1. sweep[d].at # "idle" /\ row[sweep[d].task] = "deleted" /\ sweep[d].task \in Tasks
    BY <1>5 DEF DeleteStep, SnapshotKeys, Sweep, Lasting, Sweeping, SweptTasks, TypeOK
  <2>2. UNCHANGED <<row, pc>>
    BY <1>5, DeleteEffect
  <2>3. \A r \in Runs : Recorded(r) => Recorded(r)' \/ TaskOf[r] = sweep[d].task
    BY <1>5, DeleteEffect DEF Recorded
  <2>4. /\ \A e \in Threads : e # d => sweep'[e] = sweep[e]
        /\ sweep'[d].task = sweep[d].task
        /\ sweep'[d].at = "idle" <=> sweep'[d].keys = {}
    BY <1>5, DeleteSweeps, SweepOnEffect
  <2> QED
    BY <2>1, <2>2, <2>3, <2>4, LastingFrame
<1>6. CASE UNCHANGED vars
  BY <1>6, LastingFrame DEF vars, Recorded
<1> QED
  BY <1>2, <1>3, <1>4, <1>5, <1>6 DEF Next, Endpoint

LEMMA LastingInvariant == Spec => []Lasting
<1>1. Init => Lasting
  BY DEF Init, Lasting, Sweeping, SweptTasks, NoLostResult
<1> QED
  BY <1>1, RunnerTypeCorrect, LastingInductive, PTL DEF Spec

(* With a store that does not fail, every run that returned has its row in *)
(* the history, or its task has been deleted.                              *)
THEOREM ResultsAreKept == Spec => []NoLostResult
<1>1. Lasting => NoLostResult
  BY DEF Lasting
<1> QED
  BY <1>1, LastingInvariant, PTL

-----------------------------------------------------------------------------
(* Refinement: every step of TaskRunner is a step of RunLedger on the      *)
(* phases of the runs, the history table and the deleted tasks, or leaves  *)
(* all of them alone.                                                      *)
Gone == {t \in Tasks : row[t] = "deleted"}

(* No step of a run deletes a task or brings a deleted one back.           *)
LEMMA RunsKeepGone ==
  ASSUME TypeOK, NEW r \in Runs, RunStep(r)
  PROVE  Gone' = Gone
<1> USE RunnerAssumption
<1> SUFFICES \A t \in Tasks : row'[t] = "deleted" <=> row[t] = "deleted"
  BY DEF Gone
<1>1. ASSUME NEW s \in Status, UpdateStatus(TaskOf[r], s)
      PROVE  \A t \in Tasks : row'[t] = "deleted" <=> row[t] = "deleted"
  BY <1>1 DEF UpdateStatus, TypeOK, Status, Terminal
<1>2. CASE MarkRunning(r)
  BY <1>1, <1>2 DEF MarkRunning, SafeUpdateStatus, Status
<1>3. ASSUME NEW s \in Terminal, SafePersistTerminal(r, s)
      PROVE  \A t \in Tasks : row'[t] = "deleted" <=> row[t] = "deleted"
  BY <1>1, <1>3 DEF SafePersistTerminal, Status
<1>4. CASE SpawnFails(r) \/ DrainPipes(r)
  BY <1>3, <1>4 DEF SpawnFails, DrainPipes, Terminal
<1>5. CASE CommunicateReturns(r)
  <2> DEFINE s == StateMachine("running", FALSE, {code[r]}, FALSE)
  <2>1. s \in Terminal /\ SafePersistTerminal(r, s)
    BY <1>5, RunningConcludes DEF CommunicateReturns, Terminal
  <2> HIDE DEF s
  <2> QED
    BY <1>3, <2>1
<1>6. CASE UNCHANGED row
  BY <1>6
<1> QED
  BY <1>2, <1>4, <1>5, <1>6 DEF RunStep, TokeniseFails, SpawnRaises, Spawn, ConnectPipes, TimeoutFires,
     ReapAfterKill, WaitReturns, RecordResult, store
LEMMA PhaseValues ==
  /\ Phase("idle") = "idle"
  /\ Phase("ended") = "settled"
  /\ Phase("cancelled") = "lost" /\ Phase("crashed") = "lost"
  /\ \A p \in Suspended \cup HoldsLoop : Phase(p) = "open"
BY DEF Phase, Suspended, HoldsLoop

\* The phase of the moving run changes, the phases of the others do not.
LEMMA PhaseMoves ==
  ASSUME TypeOK, NEW r \in Runs, NEW p, pc' = [pc EXCEPT ![r] = p]
  PROVE  [q \in Runs |-> Phase(pc[q])]' = [[q \in Runs |-> Phase(pc[q])] EXCEPT ![r] = Phase(p)]
<1>1. \A q \in Runs : pc'[q] = IF q = r THEN p ELSE pc[q]
  BY DEF TypeOK
<1>2. \A q \in Runs : Phase(pc'[q]) = IF q = r THEN Phase(p) ELSE Phase(pc[q])
  BY <1>1
<1> QED
  BY <1>2

LEMMA PhaseStays ==
  ASSUME TypeOK, NEW r \in Runs, NEW p, pc' = [pc EXCEPT ![r] = p], Phase(p) = Phase(pc[r])
  PROVE  [q \in Runs |-> Phase(pc[q])]' = [q \in Runs |-> Phase(pc[q])]
<1>1. \A q \in Runs : pc'[q] = IF q = r THEN p ELSE pc[q]
  BY DEF TypeOK
<1> QED
  BY <1>1

\* A run that is still open has no row, so writing its row adds one.
LEMMA FreshRow ==
  ASSUME HistoryTellsVerdict, NEW r \in Runs, pc[r] # "ended", NEW e, SafeWriteResult(r, e)
  PROVE  results' = results \cup {[run |-> r, exit |-> e]} \/ results' = results
<1>1. \A x \in results : x.run # r
  BY DEF HistoryTellsVerdict
<1> QED
  BY <1>1 DEF SafeWriteResult, WriteResult

LEMMA LedgerStep ==
  TypeOK /\ Lasting /\ HistoryTellsVerdict /\ [Next]_vars => [Ledger!Next]_(Ledger!lvars)
<1> SUFFICES ASSUME TypeOK, Lasting, HistoryTellsVerdict, [Next]_vars
             PROVE  Ledger!Next \/ UNCHANGED Ledger!lvars
  OBVIOUS
<1> USE RunnerAssumption DEF store, process
<1> DEFINE ph == [q \in Runs |-> Phase(pc[q])]
<1>1. ASSUME NEW r \in Runs, pc[r] \in Suspended \cup HoldsLoop, pc' = [pc EXCEPT ![r] = "ended"],
             Gone' = Gone,
             \/ results' = results
             \/ \E x \in Exits : results' = results \cup {[run |-> r, exit |-> x]}
      PROVE  Ledger!Next
  <2>1. ph[r] = "open" /\ ph' = [ph EXCEPT ![r] = "settled"]
    BY <1>1, PhaseValues, PhaseMoves
  <2>2. Ledger!Settle(r)
    BY <1>1, <2>1 DEF Ledger!Settle, Gone
  <2> QED
    BY <2>2 DEF Ledger!Next
<1>2. ASSUME NEW r \in Runs, NEW p \in Suspended \cup HoldsLoop, pc[r] \in Suspended \cup HoldsLoop,
             pc' = [pc EXCEPT ![r] = p], results' = results, Gone' = Gone
      PROVE  UNCHANGED Ledger!lvars
  BY <1>2, PhaseValues, PhaseStays DEF Ledger!lvars, Gone
<1>3. ASSUME NEW r \in Runs, NEW p \in {"cancelled", "crashed"}, pc[r] \in Suspended \cup HoldsLoop,
             pc' = [pc EXCEPT ![r] = p], results' = results, Gone' = Gone
      PROVE  Ledger!Next
  <2>1. ph[r] = "open" /\ ph' = [ph EXCEPT ![r] = "lost"]
    BY <1>3, PhaseValues, PhaseMoves
  <2>2. Ledger!Lose(r)
    BY <1>3, <2>1 DEF Ledger!Lose, Gone
  <2> QED
    BY <2>2 DEF Ledger!Next
<1>4. ASSUME NEW r \in Runs, NEW s, SafePersistTerminal(r, s), UNCHANGED results, Gone' = Gone,
             pc[r] \in Suspended \cup HoldsLoop
      PROVE  Ledger!Next \/ UNCHANGED Ledger!lvars
  <2>1. CASE pc' = [pc EXCEPT ![r] = "recording"]
    BY <1>2, <1>4, <2>1 DEF HoldsLoop
  <2>2. CASE pc' = [pc EXCEPT ![r] = "ended"]
    BY <1>1, <1>4, <2>2
  <2> QED
    BY <1>4, <2>1, <2>2 DEF SafePersistTerminal
<1>5. ASSUME NEW r \in Runs, RunStep(r)
      PROVE  Ledger!Next \/ UNCHANGED Ledger!lvars
  <2>0. Gone' = Gone
    BY <1>5, RunsKeepGone
  <2>1. CASE MarkRunning(r) \/ Spawn(r) \/ ConnectPipes(r) \/ TimeoutFires(r) \/ WaitReturns(r)
    BY <1>2, <2>0, <2>1 DEF MarkRunning, Spawn, ConnectPipes, TimeoutFires, WaitReturns, Resumes,
                     Suspended, HoldsLoop
  <2>2. CASE ReapAfterKill(r)
    <3>1. \E p \in {"draining", "reaping"} : pc' = [pc EXCEPT ![r] = p]
      BY <2>2 DEF ReapAfterKill, Resumes
    <3>2. pc[r] = "expired" /\ results' = results
      BY <2>2 DEF ReapAfterKill, Resumes
    <3> QED
      BY <1>2, <2>0, <3>1, <3>2 DEF Suspended
  <2>3. CASE SpawnRaises(r)
    BY <1>3, <2>0, <2>3 DEF SpawnRaises, HoldsLoop
  <2>4. CASE SpawnFails(r) \/ DrainPipes(r)
    BY <1>4, <2>0, <2>4 DEF SpawnFails, DrainPipes, HoldsLoop, Suspended
  <2>5. CASE CommunicateReturns(r)
    BY <1>4, <2>0, <2>5 DEF CommunicateReturns, Suspended
  <2>6. CASE TokeniseFails(r)
    BY <1>1, <2>0, <2>6, FreshRow DEF TokeniseFails, HoldsLoop, Exits
  <2>7. CASE RecordResult(r)
    <3>1. ExitRecorded(r) \in Exits
      BY DEF ExitRecorded, TypeOK, Exits
    <3>2. results' = results \cup {[run |-> r, exit |-> ExitRecorded(r)]} \/ results' = results
      BY <2>7, FreshRow DEF RecordResult
    <3> QED
      BY <1>1, <2>0, <2>7, <3>1, <3>2 DEF RecordResult, HoldsLoop
  <2> QED
    BY <1>5, <2>1, <2>2, <2>3, <2>4, <2>5, <2>6, <2>7 DEF RunStep
<1>6. ASSUME NEW r \in Runs, Cancel(r)
      PROVE  Ledger!Next
  BY <1>3, <1>6 DEF Cancel, Gone
<1>7. ASSUME NEW r \in Runs, PostRun(r)
      PROVE  Ledger!Next
  <2>1. pc[r] = "idle" /\ pc' = [pc EXCEPT ![r] = "accepted"] /\ Phase("accepted") = "open"
    BY <1>7, PhaseValues DEF PostRun, Resumes, Suspended
  <2>2. ph[r] = "idle" /\ ph' = [ph EXCEPT ![r] = "open"]
    BY <2>1, PhaseValues, PhaseMoves
  <2>3. Ledger!Open(r)
    BY <1>7, <2>2 DEF Ledger!Open, PostRun, Status, Terminal
  <2> QED
    BY <2>3 DEF Ledger!Next
<1>8. ASSUME NEW d \in Threads, DeleteStep(d)
      PROVE  Ledger!Next \/ UNCHANGED Ledger!lvars
  <2>1. UNCHANGED <<row, pc>>
    BY <1>8, DeleteEffect
  <2>2. CASE results' = results
    BY <2>1, <2>2 DEF Ledger!lvars
  <2>3. ASSUME NEW k \in Runs, TaskOf[k] = sweep[d].task, k \in sweep[d].keys, Recorded(k),
               results' = {x \in results : x.run # k}
        PROVE  Ledger!Next
    <3>1. PICK y \in results : y.run = k
      BY <2>3 DEF Recorded
    <3>2. results' = results \ {y}
      BY <2>3, <3>1 DEF HistoryTellsVerdict
    <3>3. sweep[d].at # "idle"
      BY <2>3 DEF Lasting, Sweeping
    <3>4. TaskOf[y.run] \in Gone
      BY <2>3, <3>1, <3>3 DEF Lasting, SweptTasks, Gone
    <3>5. Ledger!Purge(y)
      BY <2>1, <3>2, <3>4 DEF Ledger!Purge, Gone
    <3> QED
      BY <3>1, <3>5 DEF Ledger!Next
  <2> QED
    BY <1>8, <2>2, <2>3, DeleteEffect
<1>9. ASSUME UNCHANGED <<row, pc, results>>
      PROVE  UNCHANGED Ledger!lvars
  BY <1>9 DEF Ledger!lvars
<1>10. CASE \E r \in Runs : ProcessStep(r)
  BY <1>9, <1>10 DEF ProcessStep, ChildExits, Fork, KinExits, Collect, Notify, Clog
<1>11. ASSUME NEW t \in Tasks, CreateTask(t)
       PROVE  UNCHANGED Ledger!lvars
  <2>1. Gone' = Gone
    BY <1>11 DEF CreateTask, Gone, TypeOK
  <2> QED
    BY <1>11, <2>1 DEF CreateTask, Ledger!lvars, Gone
<1>13. ASSUME NEW t \in Tasks, NEW d \in Threads, DeleteRow(d, t)
       PROVE  Ledger!Next
  <2>1. Gone' = Gone \cup {t}
    BY <1>13 DEF DeleteRow, Gone, TypeOK
  <2>2. Ledger!Delete(t)
    BY <1>13, <2>1 DEF DeleteRow, Ledger!Delete, Gone
  <2> QED
    BY <2>2 DEF Ledger!Next
<1>12. CASE UNCHANGED vars
  BY <1>9, <1>12 DEF vars
<1> QED
  BY <1>5, <1>6, <1>7, <1>8, <1>10, <1>11, <1>12, <1>13 DEF Next, Endpoint

(* The runner implements RunLedger: a run settles at most once, with at    *)
(* most one history row, written in the step that settles it and never     *)
(* altered, and rows go one at a time, only after their task was deleted.  *)
THEOREM RunnerKeepsLedger == Spec => LedgerSpec
<1>1. Init => Ledger!Init
  BY PhaseValues DEF Init, Ledger!Init
<1> QED
  BY <1>1, LedgerStep, RunnerTypeCorrect, LastingInvariant, HistoryIsTruthful,
     PTL DEF Spec, LedgerSpec, Ledger!Spec
=============================================================================
