----------------------------- MODULE TaskRunner -----------------------------
(***************************************************************************)
(* The execution of tasks: POST /v1/tasks/{id}/run (api/tasks.py), the     *)
(* background coroutine run_task (service/runner.py), the child processes  *)
(* it spawns and the task and result tables it writes                      *)
(* (repository/task_repo.py), with DELETE /v1/tasks/{id} running beside it *)
(* in a thread of the pool.                                                *)
(*                                                                         *)
(* run_task runs on the event loop, so what it does between two awaits is  *)
(* not interleaved with other coroutines; the operating system, the child  *)
(* watcher's thread and the DELETE handler's thread do interleave with it. *)
(***************************************************************************)
EXTENDS Integers, FiniteSets

CONSTANTS
  Tasks,    (* task identifiers                                             *)
  Runs,     (* run identifiers                                              *)
  Threads,  (* the threads of the pool in which DELETEs run                 *)
  TaskOf,   (* the task each run is posted for                              *)
  Kin,      (* the sorts of descendant the children may fork                *)
  Noisy,    (* runs whose child floods stdout or stderr                     *)
  Faults    (* the misfortunes the environment may inflict                  *)

(***************************************************************************)
(* A sort of descendant: "grouped" if it is still in the process group of  *)
(* the child (start_new_session makes the child lead one), "pipe" if it    *)
(* holds the child's stdout or stderr open.                                *)
(***************************************************************************)
Sort == [grouped: BOOLEAN, pipe: BOOLEAN]
Leader == [grouped |-> TRUE, pipe |-> TRUE]

(***************************************************************************)
(* "tokenise": a command that shlex.split refuses.  "spawn": exec fails    *)
(* with OSError.  "raise": create_subprocess_exec raises another error (no *)
(* argument at all, a NUL byte).  "repo": a write to the store raises one  *)
(* of _NON_FATAL_REPO_ERRORS.  "cancel": the coroutine is cancelled.       *)
(***************************************************************************)
FaultKinds == {"tokenise", "spawn", "raise", "repo", "cancel"}

ASSUME RunnerAssumption ==
  /\ TaskOf \in [Runs -> Tasks]
  /\ Kin \subseteq Sort
  /\ Noisy \subseteq Runs
  /\ Faults \subseteq FaultKinds

Terminal == {"done", "failed", "timeout"}
Status == {"pending", "running"} \cup Terminal

NotFound == 127      \* _EXIT_COMMAND_NOT_FOUND
NoTokens == -1       \* _EXIT_TOKENISE_FAILURE, also stored for a timeout
Killed == -9         \* returncode of a child that SIGKILL ended
ChildCodes == {0, 1} \* returncodes of a child that ends by itself
Exits == ChildCodes \cup {NotFound, NoTokens, Killed}

VARIABLES
  row,      (* row[t]: status column of task t, or "absent", or "deleted"  *)
  sweep,    (* sweep[d]: the DELETE in thread d: its task, and the keys it *)
            (* has yet to look at                                          *)
  results,  (* the result table: rows keyed by run_id                      *)
  pc,       (* pc[r]: where the coroutine of run r stands                  *)
  verdict,  (* verdict[r]: the status run r concluded with                 *)
  child,    (* child[r]: the child process, from fork to "known" returncode *)
  code,     (* code[r]: the exit code of the child (127: never spawned)    *)
  kin,      (* kin[r]: the sorts of live descendants of the child          *)
  clogged,  (* clogged[r]: the pipe transport has stopped reading          *)
  killed    (* history: os.killpg has been called for run r                *)

store == <<row, sweep, results>>
process == <<child, code, kin, clogged, killed>>
vars == <<row, sweep, results, pc, verdict, child, code, kin, clogged, killed>>

(***************************************************************************)
(* Where a run stands:                                                     *)
(*  idle        not posted              accepted   202 sent, not begun     *)
(*  marked      task marked running; the loop has not been released        *)
(*  connecting  in create_subprocess_exec, child already forked            *)
(*  waiting     in wait_for(communicate())                                 *)
(*  expired     the timer fired, communicate is being cancelled            *)
(*  reaping     in proc.wait() of _reap_after_kill                         *)
(*  draining    in wait_for(communicate()) of _drain_pipes                 *)
(*  recording   status written, result row not; the loop is not released   *)
(*  ended       run_task returned                                          *)
(*  cancelled   CancelledError left run_task                               *)
(*  crashed     another exception left run_task and was swallowed by       *)
(*              _execute_and_record                                        *)
(***************************************************************************)
Suspended == {"accepted", "connecting", "waiting", "expired", "reaping", "draining"}
HoldsLoop == {"marked", "recording"}
Settled == {"ended", "cancelled", "crashed"}
PC == {"idle"} \cup Suspended \cup HoldsLoop \cup Settled

Init == /\ row = [t \in Tasks |-> "absent"]
        /\ sweep \in [Threads -> [at: {"idle"}, task: Tasks, keys: {{}}]]
        /\ results = {}
        /\ pc = [r \in Runs |-> "idle"]
        /\ verdict = [r \in Runs |-> "none"]
        /\ child = [r \in Runs |-> "none"]
        /\ code = [r \in Runs |-> NotFound]
        /\ kin = [r \in Runs |-> {}]
        /\ clogged = [r \in Runs |-> FALSE]
        /\ killed = [r \in Runs |-> FALSE]

\* A coroutine resumes only when no other is between two of its awaits.
LoopFree == \A r \in Runs : pc[r] \notin HoldsLoop

Resumes(r, from, to) == /\ pc[r] = from
                        /\ LoopFree
                        /\ pc' = [pc EXCEPT ![r] = to]

------------------------------------------------------------------------------
(* The pure transition function state_machine.  An exit code that is not   *)
(* yet known is the empty set, a known one a singleton.                    *)

StateMachine(initial, execute, exit, timedOut) ==
  CASE initial = "pending" /\ execute -> "running"
    [] initial = "running" /\ timedOut -> "timeout"
    [] initial = "running" /\ ~timedOut /\ exit = {0} -> "done"
    [] initial = "running" /\ ~timedOut /\ exit \notin {{}, {0}} -> "failed"
    [] OTHER -> initial

------------------------------------------------------------------------------
(* The tables, written by the best-effort helpers of the runner.           *)

\* Mutant: a status is stored whether the row is there or not.
UpsertStatus(t, status) == row' = [row EXCEPT ![t] = status]

UpdateStatus(t, status) ==
  row' = IF row[t] \in Status THEN [row EXCEPT ![t] = status] ELSE row

WriteResult(r, exit) ==
  results' = {x \in results : x.run # r} \cup {[run |-> r, exit |-> exit]}

SafeUpdateStatus(t, status) ==
  \/ UpdateStatus(t, status)
  \/ "repo" \in Faults /\ UNCHANGED row

SafeWriteResult(r, exit) ==
  \/ WriteResult(r, exit)
  \/ "repo" \in Faults /\ UNCHANGED results

(* _safe_persist_terminal: the status, then the result row, in one try.    *)
(* The thread of a DELETE may run between the two, hence two steps; a      *)
(* status write that fails skips the result write.                         *)
\* (Its mutant has a try block for each of the two writes.)
PersistInTwoTries(r, status) ==
  /\ verdict' = [verdict EXCEPT ![r] = status]
  /\ SafeUpdateStatus(TaskOf[r], status)
  /\ pc' = [pc EXCEPT ![r] = "recording"]

SafePersistTerminal(r, status) ==
  /\ verdict' = [verdict EXCEPT ![r] = status]
  /\ \/ /\ UpdateStatus(TaskOf[r], status)
        /\ pc' = [pc EXCEPT ![r] = "recording"]
     \/ /\ "repo" \in Faults
        /\ pc' = [pc EXCEPT ![r] = "ended"]
        /\ UNCHANGED row

\* Mutant: the return code is stored even if the watchdog fired.
ReturnCodeRecorded(r) == code[r]

ExitRecorded(r) == IF verdict[r] = "timeout" THEN NoTokens ELSE code[r]

RecordResult(r) ==
  /\ pc[r] = "recording"
  /\ SafeWriteResult(r, ExitRecorded(r))
  /\ pc' = [pc EXCEPT ![r] = "ended"]
  /\ UNCHANGED <<row, sweep, verdict, process>>

------------------------------------------------------------------------------
(* The endpoints.                                                          *)

CreateTask(t) ==
  /\ row[t] = "absent"
  /\ row' = [row EXCEPT ![t] = "pending"]
  /\ UNCHANGED <<sweep, results, pc, verdict, process>>

\* POST /v1/tasks/{id}/run: the only condition is that the row exists.
PostRun(r) ==
  /\ row[TaskOf[r]] \in Status
  /\ Resumes(r, "idle", "accepted")
  /\ UNCHANGED <<store, verdict, process>>

(* DELETE /v1/tasks/{id} runs in a thread: the row goes first, then, one  *)
(* by one, the result rows of the task among a copy of the keys of all     *)
(* results.  DELETEs overlap and repeat one another.                       *)
DeleteRow(d, t) ==
  /\ row[t] # "absent"
  /\ sweep[d].at = "idle"
  /\ row' = [row EXCEPT ![t] = "deleted"]
  /\ sweep' = [sweep EXCEPT ![d] = [at |-> "removed", task |-> t, keys |-> {}]]
  /\ UNCHANGED <<results, pc, verdict, process>>

Recorded(r) == \E x \in results : x.run = r

\* The loop of thread d goes on with the keys K, or the request ends.
SweepOn(d, K) ==
  sweep' = [sweep EXCEPT ![d] = [at |-> IF K = {} THEN "idle" ELSE "sweeping",
                                 task |-> @.task, keys |-> K]]

SnapshotKeys(d) ==
  /\ sweep[d].at = "removed"
  /\ SweepOn(d, {r \in Runs : Recorded(r)})
  /\ UNCHANGED <<row, results, pc, verdict, process>>

(* One key of the copy: a row of the task is removed, one of another task  *)
(* stays; a key that another DELETE has removed is a KeyError, which ends  *)
(* the request with rows left.                                             *)
Sweep(d, k) ==
  /\ k \in sweep[d].keys
  /\ \/ /\ Recorded(k) /\ TaskOf[k] = sweep[d].task
        /\ results' = {x \in results : x.run # k}
        /\ SweepOn(d, sweep[d].keys \ {k})
     \/ /\ Recorded(k) /\ TaskOf[k] # sweep[d].task
        /\ SweepOn(d, sweep[d].keys \ {k})
        /\ UNCHANGED results
     \/ /\ ~Recorded(k)
        /\ SweepOn(d, {})
        /\ UNCHANGED results
  /\ UNCHANGED <<row, pc, verdict, process>>

DeleteStep(d) == SnapshotKeys(d) \/ \E k \in Runs : Sweep(d, k)

------------------------------------------------------------------------------
(* The processes of a run, as the operating system and asyncio know them:  *)
(* none, alive, zombie (exited), collected (waitpid returned in the child  *)
(* watcher's thread), known (the loop has set returncode).                 *)

Live(r) == kin[r] \cup (IF child[r] = "alive" THEN {Leader} ELSE {})
PipeHeld(r) == \E q \in Live(r) : q.pipe
GroupAlive(r) == \E q \in Live(r) : q.grouped

\* os.getpgid(pid) finds the child, dead or alive, until it is collected.
HasPgid(r) == child[r] \in {"alive", "zombie"}

\* The transport has seen the exit and the end of both pipes: only then does
\* a pending Process.wait() return (Python 3.11).
ConnectionLost(r) == child[r] = "known" /\ ~PipeHeld(r) /\ ~clogged[r]

KillChild(r) ==
  /\ child' = [child EXCEPT ![r] = IF @ = "alive" THEN "zombie" ELSE @]
  /\ code' = [code EXCEPT ![r] = IF child[r] = "alive" THEN Killed ELSE @]

ChildExits(r, x) ==
  /\ child[r] = "alive"
  /\ child' = [child EXCEPT ![r] = "zombie"]
  /\ code' = [code EXCEPT ![r] = x]
  /\ UNCHANGED <<store, pc, verdict, kin, clogged, killed>>

\* A process inherits its parent's group and pipes or gives them up.
Fork(r, k) ==
  /\ \E q \in Live(r) : (k.grouped => q.grouped) /\ (k.pipe => q.pipe)
  /\ k \notin kin[r]
  /\ kin' = [kin EXCEPT ![r] = @ \cup {k}]
  /\ UNCHANGED <<store, pc, verdict, child, code, clogged, killed>>

KinExits(r, k) ==
  /\ k \in kin[r]
  /\ kin' = [kin EXCEPT ![r] = @ \ {k}]
  /\ UNCHANGED <<store, pc, verdict, child, code, clogged, killed>>

Collect(r) ==
  /\ child[r] = "zombie"
  /\ child' = [child EXCEPT ![r] = "collected"]
  /\ UNCHANGED <<store, pc, verdict, code, kin, clogged, killed>>

Notify(r) ==
  /\ child[r] = "collected"
  /\ LoopFree
  /\ child' = [child EXCEPT ![r] = "known"]
  /\ UNCHANGED <<store, pc, verdict, code, kin, clogged, killed>>

(* With communicate cancelled nobody consumes the streams: past twice the  *)
(* stream limit the transport pauses reading and misses the end of file.   *)
Clog(r) ==
  /\ r \in Noisy
  /\ pc[r] \in {"expired", "reaping"}
  /\ LoopFree
  /\ ~clogged[r] /\ ~ConnectionLost(r)
  /\ clogged' = [clogged EXCEPT ![r] = TRUE]
  /\ UNCHANGED <<store, pc, verdict, child, code, kin, killed>>

------------------------------------------------------------------------------
(* run_task, one action for each stretch of it between two awaits, cut     *)
(* where a thread or the operating system can interleave.                  *)

MarkRunning(r) ==
  /\ Resumes(r, "accepted", "marked")
  /\ SafeUpdateStatus(TaskOf[r], "running")
  /\ UNCHANGED <<sweep, results, verdict, process>>

\* shlex.split raises: a result row, but no status, is written.
TokeniseFails(r) ==
  /\ "tokenise" \in Faults
  /\ pc[r] = "marked"
  /\ SafeWriteResult(r, NoTokens)
  /\ verdict' = [verdict EXCEPT ![r] = "failed"]
  /\ pc' = [pc EXCEPT ![r] = "ended"]
  /\ UNCHANGED <<row, sweep, process>>

\* Mutant: a failed spawn writes its result and leaves the status alone.
SpawnFailsSilently(r) ==
  /\ "spawn" \in Faults
  /\ pc[r] = "marked"
  /\ SafeWriteResult(r, NotFound)
  /\ verdict' = [verdict EXCEPT ![r] = "failed"]
  /\ pc' = [pc EXCEPT ![r] = "ended"]
  /\ UNCHANGED <<row, sweep, process>>

SpawnFails(r) ==
  /\ "spawn" \in Faults
  /\ pc[r] = "marked"
  /\ SafePersistTerminal(r, "failed")
  /\ UNCHANGED <<sweep, results, process>>

\* Neither FileNotFoundError nor OSError: _execute_and_record swallows it.
SpawnRaises(r) ==
  /\ "raise" \in Faults
  /\ pc[r] = "marked"
  /\ pc' = [pc EXCEPT ![r] = "crashed"]
  /\ UNCHANGED <<store, verdict, process>>

Spawn(r) ==
  /\ pc[r] = "marked"
  /\ pc' = [pc EXCEPT ![r] = "connecting"]
  /\ child' = [child EXCEPT ![r] = "alive"]
  /\ UNCHANGED <<store, verdict, code, kin, clogged, killed>>

ConnectPipes(r) ==
  /\ Resumes(r, "connecting", "waiting")
  /\ UNCHANGED <<store, verdict, process>>

\* communicate() returns once both pipes are at their end and the exit is known.
CommunicateReturns(r) ==
  /\ pc[r] = "waiting"
  /\ LoopFree
  /\ child[r] = "known" /\ ~PipeHeld(r)
  /\ SafePersistTerminal(r, StateMachine("running", FALSE, {code[r]}, FALSE))
  /\ UNCHANGED <<sweep, results, process>>

\* Mutants: communicate is awaited without wait_for; the timeout is shown
\* before the child is reaped.
NoWatchdog(r) == FALSE /\ UNCHANGED vars

TimeoutShownEarly(r) ==
  /\ Resumes(r, "waiting", "expired")
  /\ UpdateStatus(TaskOf[r], "timeout")
  /\ UNCHANGED <<sweep, results, verdict, process>>

TimeoutFires(r) ==
  /\ Resumes(r, "waiting", "expired")
  /\ UNCHANGED <<store, verdict, process>>

\* Mutants: proc.kill() in place of os.killpg; no proc.wait() after the kill.
KillLeaderOnly(r) ==
  /\ Resumes(r, "expired", IF child[r] = "known" THEN "draining" ELSE "reaping")
  /\ KillChild(r)
  /\ killed' = [killed EXCEPT ![r] = HasPgid(r)]
  /\ UNCHANGED <<store, verdict, kin, clogged>>

KillWithoutWait(r) ==
  /\ Resumes(r, "expired", "draining")
  /\ KillChild(r)
  /\ kin' = [kin EXCEPT ![r] = {k \in @ : HasPgid(r) => ~k.grouped}]
  /\ killed' = [killed EXCEPT ![r] = HasPgid(r)]
  /\ UNCHANGED <<store, verdict, clogged>>

(* _reap_after_kill up to its await.  The whole group is killed if the     *)
(* child still has a process group; wait() returns at once if returncode   *)
(* is set already.                                                         *)
ReapAfterKill(r) ==
  /\ Resumes(r, "expired", IF child[r] = "known" THEN "draining" ELSE "reaping")
  /\ \/ /\ HasPgid(r)
        /\ KillChild(r)
        /\ kin' = [kin EXCEPT ![r] = {k \in @ : ~k.grouped}]
        /\ killed' = [killed EXCEPT ![r] = TRUE]
     \/ /\ ~HasPgid(r)
        /\ UNCHANGED <<child, code, kin, killed>>
  /\ UNCHANGED <<store, verdict, clogged>>

WaitReturns(r) ==
  /\ ConnectionLost(r)
  /\ Resumes(r, "reaping", "draining")
  /\ UNCHANGED <<store, verdict, process>>

\* Mutants: a timed-out run stores a status the schema does not have; it ends
\* without writing its result row.
DrainAsInterrupted(r) ==
  /\ pc[r] = "draining"
  /\ LoopFree
  /\ SafePersistTerminal(r, "interrupted")
  /\ UNCHANGED <<sweep, results, process>>

DrainWithoutResult(r) ==
  /\ Resumes(r, "draining", "ended")
  /\ verdict' = [verdict EXCEPT ![r] = "timeout"]
  /\ UpdateStatus(TaskOf[r], "timeout")
  /\ UNCHANGED <<sweep, results, process>>

\* _drain_pipes always returns, with the output or without: it has a budget.
DrainPipes(r) ==
  /\ pc[r] = "draining"
  /\ LoopFree
  /\ SafePersistTerminal(r, "timeout")
  /\ UNCHANGED <<sweep, results, process>>

(* CancelledError at an await of run_task, or before its first line.  Only *)
(* create_subprocess_exec kills the child on the way out.                  *)
Cancel(r) ==
  /\ "cancel" \in Faults
  /\ pc[r] \in Suspended
  /\ LoopFree
  /\ pc' = [pc EXCEPT ![r] = "cancelled"]
  /\ IF pc[r] = "connecting" THEN KillChild(r) ELSE UNCHANGED <<child, code>>
  /\ UNCHANGED <<store, verdict, kin, clogged, killed>>

------------------------------------------------------------------------------
RunStep(r) ==
  \/ MarkRunning(r) \/ TokeniseFails(r) \/ SpawnFails(r) \/ SpawnRaises(r)
  \/ Spawn(r) \/ ConnectPipes(r) \/ CommunicateReturns(r) \/ TimeoutFires(r)
  \/ ReapAfterKill(r) \/ WaitReturns(r) \/ DrainPipes(r) \/ RecordResult(r)

ProcessStep(r) ==
  \/ \E x \in ChildCodes : ChildExits(r, x)
  \/ \E k \in Kin : Fork(r, k) \/ KinExits(r, k)
  \/ Collect(r) \/ Notify(r) \/ Clog(r)

Endpoint == \/ \E t \in Tasks : CreateTask(t) \/ \E d \in Threads : DeleteRow(d, t)
            \/ \E d \in Threads : DeleteStep(d)
            \/ \E r \in Runs : PostRun(r)

Next == \/ Endpoint
        \/ \E r \in Runs : RunStep(r) \/ ProcessStep(r) \/ Cancel(r)

Spec == Init /\ [][Next]_vars

(* The loop runs every ready coroutine and every timer that is due, the    *)
(* watcher's thread is blocked in waitpid, and a DELETE that has begun is  *)
(* carried through.  Nothing makes a child exit, a client call or a fault  *)
(* happen.                                                                 *)
Fairness == /\ \A r \in Runs : /\ WF_vars(RunStep(r))
                               /\ WF_vars(Collect(r))
                               /\ WF_vars(Notify(r))
            /\ \A d \in Threads : WF_vars(DeleteStep(d))

FairSpec == Spec /\ Fairness

------------------------------------------------------------------------------
(* The type invariant of the tables, the coroutines and the processes.     *)
TypeOK ==
  /\ row \in [Tasks -> Status \cup {"absent", "deleted"}]
  /\ sweep \in [Threads -> [at: {"idle", "removed", "sweeping"}, task: Tasks, keys: SUBSET Runs]]
  /\ results \in SUBSET [run: Runs, exit: Exits]
  /\ pc \in [Runs -> PC]
  /\ verdict \in [Runs -> Terminal \cup {"none"}]
  /\ child \in [Runs -> {"none", "alive", "zombie", "collected", "known"}]
  /\ code \in [Runs -> Exits]
  /\ kin \in [Runs -> SUBSET Kin]
  /\ clogged \in [Runs -> BOOLEAN]
  /\ killed \in [Runs -> BOOLEAN]

(* Once _reap_after_kill has signalled the process group of a child, no    *)
(* member of that group is alive, however it is interleaved with exits and *)
(* forks, and none comes back (SAD T-07).                                  *)
KilledGroupStaysDead == \A r \in Runs : killed[r] => ~GroupAlive(r)

(* run_task returns, and writes its terminal status, only after the child  *)
(* it spawned has been collected and its returncode is set: a settled run  *)
(* leaves neither a live child nor a zombie (FR-08 AC-8.4).                *)
ReturnAfterCollection ==
  \A r \in Runs : pc[r] \in {"recording", "ended"} => child[r] \in {"none", "known"}

(* The run history has at most one row for a run, and its exit code tells  *)
(* the verdict of the run the way state_machine reads exit codes: 0 for    *)
(* done and for nothing else.                                              *)
HistoryTellsVerdict ==
  \A x, y \in results :
    /\ x.run = y.run => x = y
    /\ pc[x.run] = "ended"
    /\ x.exit = 0 <=> verdict[x.run] = "done"

(* When the store does not fail, a run that returned has its row in the    *)
(* history unless its task has been deleted meanwhile.                     *)
NoLostResult ==
  "repo" \notin Faults =>
    \A r \in Runs : pc[r] = "ended" =>
      \/ \E x \in results : x.run = r
      \/ row[TaskOf[r]] = "deleted"

(* A task shows a terminal status only if one of its own runs concluded    *)
(* with exactly that status, whatever other runs of the task do.           *)
TerminalStatusIsEarned ==
  \A t \in Tasks : row[t] \in Terminal =>
    \E r \in Runs : /\ TaskOf[r] = t
                    /\ pc[r] \in {"recording", "ended"}
                    /\ verdict[r] = row[t]

(* A run that was spawned adds its result row only while its task shows    *)
(* the status it just wrote (or is deleted): a status write that the store *)
(* refused is not followed by a result row, and no other coroutine slips   *)
(* in between (the one try block of _safe_persist_terminal).               *)
ResultUnderOwnStatus ==
  [][\A r \in Runs :
       ~Recorded(r) /\ Recorded(r)' /\ pc[r] = "recording"
         => row[TaskOf[r]] \in {verdict[r], "deleted"}]_vars

(* Every run that was accepted settles: it returns, is cancelled or is     *)
(* dropped.  The watchdog of wait_for and the kill make this hold for      *)
(* children that never exit (FR-02 AC-2.3).                                *)
RunSettles == \A r \in Runs : pc[r] = "accepted" ~> pc[r] \in Settled

\* A run whose command could not be split into tokens.
Refused(r) == child[r] = "none" /\ \E x \in results : x.run = r /\ x.exit = NoTokens

\* A run that an exception of the spawn, or a cancellation, took away.
Dropped(r) == pc[r] \in {"crashed", "cancelled"}

(* A task does not show "running" for ever: a failed spawn, an exit and a  *)
(* timeout each store a terminal status.  There are three exceptions, none *)
(* of which stores a status: a command that shlex refused, an exception of *)
(* the spawn that is no OSError (a NUL byte, a command of blanks only) and *)
(* a cancellation.  A status that the store refused is not written again,  *)
(* so the property is about a store that does not fail.  It names the task *)
(* by its run: one run for each task.                                      *)
StatusSettles ==
  "repo" \notin Faults =>
    \A t \in Tasks :
      row[t] = "running" ~> \/ row[t] # "running"
                           \/ \E r \in Runs : TaskOf[r] = t /\ (Refused(r) \/ Dropped(r))

\* Where a run stands, as the client that posted it may learn.
Phase(p) == CASE p = "idle" -> "idle"
              [] p = "ended" -> "settled"
              [] p \in {"cancelled", "crashed"} -> "lost"
              [] OTHER -> "open"

Ledger == INSTANCE RunLedger WITH
  phase <- [r \in Runs |-> Phase(pc[r])],
  ledger <- results,
  gone <- {t \in Tasks : row[t] = "deleted"}
(* The runner keeps the promise of the execution endpoints: RunLedger, read *)
(* on the history table, the phase of each run and the deleted tasks, is   *)
(* implemented, with DELETEs that sweep row by row, overlap and fail.      *)
LedgerSpec == Ledger!Spec

------------------------------------------------------------------------------
(* What docs, comments and tests say of the runner and the code does not   *)
(* do: each is refuted by a run of its own.                                *)

(* A timed-out run leaves no process of its group behind (FR-08, T-07).    *)
TimeoutLeavesNoOrphan ==
  \A r \in Runs : pc[r] = "ended" /\ verdict[r] = "timeout" => ~GroupAlive(r)

(* The timeout bounds the run: the kill path ends without blocking.        *)
WatchdogEndsRun == \A r \in Runs : pc[r] = "expired" ~> pc[r] \in Settled
==============================================================================
