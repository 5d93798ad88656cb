------------------------------ MODULE Scheduler ------------------------------
(***************************************************************************)
(* The background scheduler (service/runner_scheduler.py): jobs submitted  *)
(* under a concurrency cap, and the graceful drain that waits for them,    *)
(* within a budget, through one asyncio.TaskGroup.                         *)
(*                                                                         *)
(* Everything runs on one event loop: an action is a stretch of one        *)
(* coroutine or callback between two awaits.  The semaphore, the task      *)
(* group and wait_for are asyncio's (Python 3.11), modelled from how the   *)
(* scheduler uses them.                                                    *)
(***************************************************************************)
EXTENDS Integers, Sequences, FiniteSets

CONSTANTS
  Jobs,      (* the coroutines that may be submitted                        *)
  Cap,       (* max_concurrent, as given: __init__ raises it to 1           *)
  Stubborn   (* jobs that may catch CancelledError and carry on             *)

ASSUME SchedulerAssumption ==
  /\ IsFiniteSet(Jobs)
  /\ Cap \in Int
  /\ Stubborn \subseteq Jobs

MaxConcurrent == IF Cap < 1 THEN 1 ELSE Cap

Finished == {"done", "failed", "cancelled"}
JobState == {"none", "created", "queued", "running"} \cup Finished
Ended == {"returned", "raised", "cancelled"}

VARIABLES
  job,      (* job[j]: state of the task that submit created for j         *)
  asked,    (* unfinished jobs whose cancellation is requested, undelivered *)
  tracked,  (* Scheduler._tasks                                            *)
  slots,    (* the semaphore's value                                       *)
  queue,    (* the semaphore's waiters, first come first                   *)
  granted,  (* waiters that were handed a slot and have not resumed yet    *)
  drain,    (* where the caller of drain stands                            *)
  batch,    (* the jobs it drains: a snapshot of tracked                   *)
  wrapper,  (* wrapper[j]: the _await_task coroutine of j in the group     *)
  group,    (* the task group: none, open, aborting, closed                *)
  errors,   (* the exceptions it has collected, by job                     *)
  told,     (* history: the caller of drain was cancelled during this call *)
            (* ("no"), before the group had closed or the reaping begun    *)
            (* ("early"), or only later ("late")                           *)
  expired,  (* history: the budget of this call is spent                   *)
  report    (* what drain returned                                         *)

sem == <<slots, queue, granted>>
jobs == <<job, tracked, slots, queue, granted>>
grp == <<wrapper, group, errors>>
caller == <<drain, batch, told, expired, report>>
vars == <<job, asked, tracked, slots, queue, granted, drain, batch, wrapper, group, errors, told, expired, report>>

(***************************************************************************)
(* Where the caller of drain stands:                                       *)
(*  idle      no call yet                                                  *)
(*  waiting   in wait_for(_drain_all())                                    *)
(*  closing   the budget is spent; waiting for the cancelled group         *)
(*  leaving   cancelled itself; waiting for the cancelled group            *)
(*  reaping   in the loop that awaits every job it has cancelled           *)
(*  returned, raised (an ExceptionGroup), cancelled (CancelledError)       *)
(***************************************************************************)
Init == /\ job = [j \in Jobs |-> "none"]
        /\ asked = {}
        /\ tracked = {}
        /\ slots = MaxConcurrent
        /\ queue = <<>>
        /\ granted = {}
        /\ drain = "idle"
        /\ batch = {}
        /\ wrapper = [j \in Jobs |-> "none"]
        /\ group = "none"
        /\ errors = {}
        /\ told = "no"
        /\ expired = FALSE
        /\ report = [completed |-> 0, interrupted |-> 0]

IsFinished(j) == job[j] \in Finished

------------------------------------------------------------------------------
(* The semaphore.  A waiter whose cancellation is requested before it was  *)
(* handed a slot is passed over.                                           *)

Locked == slots = 0 \/ \E i \in DOMAIN queue : queue[i] \in granted \/ queue[i] \notin asked

\* The waiters in q that may be handed a slot, g having theirs already.
Wakeable(q, g) == {i \in DOMAIN q : q[i] \notin g \cup asked}

\* What wake_up_next makes of the waiters q, of which g were handed a slot, and
\* of v free slots.
WakeNext(q, g, v) ==
  /\ queue' = q
  /\ IF v > 0 /\ Wakeable(q, g) # {}
     THEN \E i \in Wakeable(q, g) : /\ \A k \in Wakeable(q, g) : i <= k
                                    /\ granted' = g \cup {q[i]}
                                    /\ slots' = v - 1
     ELSE granted' = g /\ slots' = v

Place(j) == CHOOSE i \in DOMAIN queue : queue[i] = j

WithoutJob(j) == SubSeq(queue, 1, Place(j) - 1) \o SubSeq(queue, Place(j) + 1, Len(queue))

------------------------------------------------------------------------------
(* Scheduler.submit and the life of a job.                                 *)

Submit(j) ==
  /\ job[j] = "none"
  /\ job' = [job EXCEPT ![j] = "created"]
  /\ tracked' = tracked \cup {j}
  /\ UNCHANGED <<asked, sem, grp, caller>>

\* Mutants: the coroutine takes a slot without looking; it takes none.
BeginUnchecked(j) ==
  /\ job[j] = "created" /\ j \notin asked
  /\ job' = [job EXCEPT ![j] = "running"]
  /\ slots' = slots - 1
  /\ UNCHANGED <<asked, tracked, queue, granted, grp, caller>>

BeginUncapped(j) ==
  /\ job[j] = "created" /\ j \notin asked
  /\ job' = [job EXCEPT ![j] = "running"]
  /\ UNCHANGED <<asked, tracked, sem, grp, caller>>

\* _runner enters the semaphore, or queues for it.
Begin(j) ==
  /\ job[j] = "created" /\ j \notin asked
  /\ \/ /\ ~Locked
        /\ job' = [job EXCEPT ![j] = "running"]
        /\ slots' = slots - 1
        /\ UNCHANGED <<queue, granted>>
     \/ /\ Locked
        /\ job' = [job EXCEPT ![j] = "queued"]
        /\ queue' = Append(queue, j)
        /\ UNCHANGED <<slots, granted>>
  /\ UNCHANGED <<asked, tracked, grp, caller>>

Acquire(j) ==
  /\ j \in granted /\ j \notin asked
  /\ job' = [job EXCEPT ![j] = "running"]
  /\ WakeNext(WithoutJob(j), granted \ {j}, slots)
  /\ UNCHANGED <<asked, tracked, grp, caller>>

\* CancelledError before the job has its slot: the coroutine never starts.
Quit(j) ==
  /\ job[j] \in {"created", "queued"} /\ j \in asked
  /\ job' = [job EXCEPT ![j] = "cancelled"]
  /\ asked' = asked \ {j}
  /\ \/ job[j] = "created" /\ UNCHANGED sem
     \/ j \in granted /\ WakeNext(WithoutJob(j), granted \ {j}, slots + 1)
     \/ job[j] = "queued" /\ j \notin granted /\ queue' = WithoutJob(j) /\ UNCHANGED <<slots, granted>>
  /\ UNCHANGED <<tracked, grp, caller>>

\* Mutant: the slot is given back and nobody is woken.
FinishSilently(j, state) ==
  /\ job[j] = "running"
  /\ state = "cancelled" <=> j \in asked
  /\ job' = [job EXCEPT ![j] = state]
  /\ asked' = asked \ {j}
  /\ slots' = slots + 1
  /\ UNCHANGED <<queue, granted, tracked, grp, caller>>

\* The coroutine of the job ends, and the semaphore is released.
Finish(j, state) ==
  /\ job[j] = "running"
  /\ state = "cancelled" => j \in asked
  /\ state # "cancelled" => j \notin asked \/ j \in Stubborn
  /\ job' = [job EXCEPT ![j] = state]
  /\ asked' = asked \ {j}
  /\ WakeNext(queue, granted, slots + 1)
  /\ UNCHANGED <<tracked, grp, caller>>

Swallow(j) ==
  /\ job[j] = "running" /\ j \in asked \cap Stubborn
  /\ asked' = asked \ {j}
  /\ UNCHANGED <<jobs, grp, caller>>

\* The done callback of the task.
Discard(j) ==
  /\ IsFinished(j) /\ j \in tracked
  /\ tracked' = tracked \ {j}
  /\ UNCHANGED <<job, asked, sem, grp, caller>>

------------------------------------------------------------------------------
(* The task group of _drain_all: a wrapper coroutine awaits each job.      *)

Awaiting == {j \in batch : wrapper[j] = "awaiting"}

(* Cancelling a wrapper cancels the job it awaits; if that job is finished *)
(* it is the wrapper itself that is cancelled, and the job's outcome lost. *)
(* Every wrapper has begun by then: the loop's queue is first in first     *)
(* out, the first steps of _drain_all and of its wrappers are put there    *)
(* when drain is called and when _drain_all runs, and a cancellation, the  *)
(* timer or a failed wrapper reaches the group by way of a later entry.    *)
(* (With a budget of zero wait_for cancels _drain_all before its first     *)
(* line: CallDrain.)                                                       *)
Abort(seen) ==
  /\ group' = "aborting"
  /\ asked' = asked \cup {j \in Awaiting \ seen : ~IsFinished(j)}
  /\ wrapper' = [j \in Jobs |-> IF j \in seen THEN "done"
                                ELSE IF j \in Awaiting /\ IsFinished(j) THEN "cancelled"
                                ELSE wrapper[j]]

\* Mutant: an awaited job that ends cancelled aborts the group.
AbortOnCancelledJob(j) ==
  /\ group \in {"open", "aborting"}
  /\ j \in batch /\ IsFinished(j) /\ j \notin tracked
  /\ wrapper[j] \in {"awaiting", "cancelled"}
  /\ IF wrapper[j] = "awaiting" /\ job[j] # "done" /\ group = "open"
     THEN Abort({j})
     ELSE wrapper' = [wrapper EXCEPT ![j] = "done"] /\ UNCHANGED <<asked, group>>
  /\ UNCHANGED <<jobs, errors, caller>>

\* A wrapper ends with its job; an exception aborts the group.
WrapperEnds(j) ==
  /\ group \in {"open", "aborting"}
  /\ j \in batch /\ IsFinished(j) /\ j \notin tracked
  /\ wrapper[j] \in {"awaiting", "cancelled"}
  /\ LET fails == wrapper[j] = "awaiting" /\ job[j] = "failed" IN
       /\ errors' = IF fails THEN errors \cup {j} ELSE errors
       /\ IF fails /\ group = "open"
          THEN Abort({j})
          ELSE wrapper' = [wrapper EXCEPT ![j] = "done"] /\ UNCHANGED <<asked, group>>
  /\ UNCHANGED <<jobs, caller>>

GroupCloses ==
  /\ group \in {"open", "aborting"}
  /\ \A j \in batch : wrapper[j] = "done"
  /\ group' = "closed"
  /\ UNCHANGED <<jobs, asked, wrapper, errors, caller>>

------------------------------------------------------------------------------
(* drain and _structured_drain_tasks.                                      *)

(* A budget of zero cancels _drain_all before its first line: no wrapper,  *)
(* no task group.                                                          *)
CallDrain(budget) ==
  /\ drain \in {"idle"} \cup Ended
  /\ group \in {"none", "closed"}
  /\ batch' = tracked
  /\ told' = "no"
  /\ expired' = (budget = 0)
  /\ errors' = {}
  /\ \/ /\ tracked = {}
        /\ drain' = "returned"
        /\ report' = [completed |-> 0, interrupted |-> 0]
        /\ UNCHANGED <<wrapper, group>>
     \/ /\ tracked # {}
        /\ drain' = IF budget = 0 THEN "closing" ELSE "waiting"
        /\ group' = IF budget = 0 THEN "closed" ELSE "open"
        /\ wrapper' = [j \in Jobs |-> IF budget # 0 /\ j \in tracked THEN "awaiting" ELSE "none"]
        /\ UNCHANGED report
  /\ UNCHANGED <<jobs, asked>>

\* Mutant: the group is awaited without wait_for.
NoBudget == FALSE /\ UNCHANGED vars

BudgetSpent ==
  /\ drain = "waiting" /\ group # "closed"
  /\ drain' = "closing"
  /\ expired' = TRUE
  /\ IF group = "open" THEN Abort({}) ELSE UNCHANGED <<asked, wrapper, group>>
  /\ UNCHANGED <<jobs, errors, batch, told, report>>

\* Mutant: failed jobs are reported as interrupted.
CountNotDone ==
  [completed |-> Cardinality({j \in batch : job[j] = "done"}),
   interrupted |-> Cardinality({j \in batch : job[j] # "done"})]

Count ==
  [completed |-> Cardinality({j \in batch : IsFinished(j) /\ job[j] # "cancelled"}),
   interrupted |-> Cardinality({j \in batch : ~IsFinished(j) \/ job[j] = "cancelled"})]

Return == drain' = "returned" /\ report' = Count

\* wait_for ends with the group: its errors are raised, or drain reports.
WaitReturns ==
  /\ drain = "waiting" /\ group = "closed"
  /\ \/ errors # {} /\ drain' = "raised" /\ UNCHANGED report
     \/ errors = {} /\ Return
  /\ UNCHANGED <<jobs, asked, grp, batch, told, expired>>

\* Mutant: the jobs are cancelled but not awaited.
ReportAtOnce ==
  /\ drain = "closing" /\ group = "closed"
  /\ \/ errors # {} /\ drain' = "raised" /\ UNCHANGED <<asked, report>>
     \/ errors = {} /\ Return /\ asked' = asked \cup {j \in batch : ~IsFinished(j)}
  /\ UNCHANGED <<jobs, grp, batch, told, expired>>

\* Mutant: what is tracked now is cancelled, not what the drain was called for.
CancelTracked ==
  /\ drain = "closing" /\ group = "closed"
  /\ \/ errors # {} /\ drain' = "raised" /\ UNCHANGED asked
     \/ errors = {} /\ drain' = "reaping" /\ asked' = asked \cup {j \in tracked : ~IsFinished(j)}
  /\ UNCHANGED <<jobs, grp, batch, told, expired, report>>

\* Only a wait_for that raised TimeoutError cancels what is not done.
TimeoutCaught ==
  /\ drain = "closing" /\ group = "closed"
  /\ \/ errors # {} /\ drain' = "raised" /\ UNCHANGED asked
     \/ errors = {} /\ drain' = "reaping" /\ asked' = asked \cup {j \in batch : ~IsFinished(j)}
  /\ UNCHANGED <<jobs, grp, batch, told, expired, report>>

ReapReturns ==
  /\ drain = "reaping"
  /\ \A j \in batch : IsFinished(j)
  /\ Return
  /\ UNCHANGED <<jobs, asked, grp, batch, told, expired>>

\* Mutant: a cancelled wait_for is handled like one that timed out.
LeaveReports ==
  /\ drain = "leaving" /\ group = "closed"
  /\ drain' = "reaping"
  /\ asked' = asked \cup {j \in batch : ~IsFinished(j)}
  /\ UNCHANGED <<jobs, grp, batch, told, expired, report>>

LeaveReturns ==
  /\ drain = "leaving" /\ group = "closed"
  /\ drain' = "cancelled"
  /\ UNCHANGED <<jobs, asked, grp, batch, told, expired, report>>

(* The caller of drain is cancelled.  In wait_for the group goes with it,  *)
(* unless it is closed already: then wait_for returns as if nothing had    *)
(* happened.  While it waits for a cancelled group it leaves at once.  In  *)
(* the reaping loop the cancellation passes to the job it awaits, and what *)
(* comes back is discarded by "except BaseException".                      *)
CancelCaller ==
  /\ drain \in {"waiting", "closing", "leaving", "reaping"}
  /\ told' = IF drain # "reaping" /\ group # "closed" THEN "early"
             ELSE IF told = "no" THEN "late"
             ELSE told
  /\ \/ /\ drain = "waiting" /\ group # "closed"
        /\ drain' = "leaving"
        /\ IF group = "open" THEN Abort({}) ELSE UNCHANGED <<asked, wrapper, group>>
     \/ /\ drain = "waiting" /\ group = "closed"
        /\ UNCHANGED <<drain, asked, wrapper, group>>
     \/ /\ drain \in {"closing", "leaving"}
        /\ drain' = "cancelled"
        /\ UNCHANGED <<asked, wrapper, group>>
     \/ /\ drain = "reaping"
        /\ \E j \in batch : ~IsFinished(j) /\ asked' = asked \cup {j}
        /\ UNCHANGED <<drain, wrapper, group>>
  /\ UNCHANGED <<jobs, errors, batch, expired, report>>

------------------------------------------------------------------------------
JobStep(j) == \/ Begin(j) \/ Acquire(j) \/ Quit(j) \/ Discard(j) \/ WrapperEnds(j)

JobEnds(j) == \E state \in Finished : Finish(j, state)

DrainStep == GroupCloses \/ BudgetSpent \/ WaitReturns \/ TimeoutCaught \/ ReapReturns \/ LeaveReturns

Next == \/ \E j \in Jobs : Submit(j) \/ JobStep(j) \/ JobEnds(j) \/ Swallow(j)
        \/ \E budget \in {0, 1} : CallDrain(budget)
        \/ DrainStep \/ CancelCaller

Spec == Init /\ [][Next]_vars

(* The loop runs what is ready and the timer of wait_for goes off.  A job  *)
(* that is asked to stop stops, one that catches its cancellation ends in  *)
(* time; nothing else makes a job end.                                     *)
Fairness == /\ \A j \in Jobs : WF_vars(JobStep(j)) /\ WF_vars(j \in asked /\ JobEnds(j))
            /\ \A j \in Stubborn : WF_vars(JobEnds(j))
            /\ WF_vars(DrainStep)

FairSpec == Spec /\ Fairness

------------------------------------------------------------------------------
(* The type invariant of the scheduler, its group and its callers.         *)
TypeOK ==
  /\ job \in [Jobs -> JobState]
  /\ asked \in SUBSET Jobs
  /\ tracked \in SUBSET Jobs
  /\ slots \in 0..MaxConcurrent
  /\ queue \in Seq(Jobs)
  /\ granted \in SUBSET Jobs
  /\ drain \in {"idle", "waiting", "closing", "leaving", "reaping"} \cup Ended
  /\ batch \in SUBSET Jobs
  /\ wrapper \in [Jobs -> {"none", "awaiting", "cancelled", "done"}]
  /\ group \in {"none", "open", "aborting", "closed"}
  /\ errors \in SUBSET Jobs
  /\ told \in {"no", "early", "late"}
  /\ expired \in BOOLEAN
  /\ report \in [completed: 0..Cardinality(Jobs), interrupted: 0..Cardinality(Jobs)]

Running == {j \in Jobs : job[j] = "running"}

(* Every slot is free, on its way to a waiter or held by a running job:    *)
(* cancellations in any order neither leak a slot nor mint one, so never   *)
(* more than max_concurrent coroutines run (FR-08 AC-8.3).                 *)
SlotsConserved == slots + Cardinality(granted) + Cardinality(Running) = MaxConcurrent

(* No free slot sits beside a waiter that nobody will wake: a slot is free *)
(* only if every waiter is leaving or a wake-up is on its way (AC-8.3).    *)
NoLostWakeup ==
  slots > 0 => \A i \in DOMAIN queue : queue[i] \notin asked =>
                 \E k \in DOMAIN queue : queue[k] \in granted

(* When drain returns or raises, every job it was called for is finished:  *)
(* nothing it reports on is still running behind it (AC-8.2).              *)
DrainLeavesNothing == drain \in {"returned", "raised"} => \A j \in batch : IsFinished(j)

(* What drain reports is what became of the jobs: interrupted are exactly  *)
(* those that ended cancelled, completed the others, failed ones included. *)
ReportTellsOutcome ==
  drain = "returned" =>
    /\ report.interrupted = Cardinality({j \in batch : job[j] = "cancelled"})
    /\ report.completed = Cardinality({j \in batch : job[j] \in {"done", "failed"}})

(* drain raises only if a job it was called for failed, however late.      *)
RaiseHasCause == drain = "raised" => \E j \in batch : job[j] = "failed"

(* However a drain ends, its caller is told what became of the batch.      *)
OutcomeIsTold == ReportTellsOutcome /\ RaiseHasCause

(* A drain that was called ends, by its budget at the latest, as long as   *)
(* the jobs heed their cancellation (AC-8.2).                              *)
DrainEnds == drain \in {"waiting", "closing", "leaving", "reaping"} ~> drain \in Ended

(* A drain asks a job to stop only if the budget is spent, the drain has   *)
(* been cancelled itself, or a job of the batch raised: a job that ends    *)
(* well or is cancelled by others does not take its siblings with it.      *)
InterruptedHasCause ==
  [][\/ asked' \subseteq asked
     \/ expired' \/ told' # "no"
     \/ \E j \in batch : job[j] = "failed"]_vars

(* A job submitted while a drain is under way is none of its business: it  *)
(* is asked to stop neither with the group, nor when the budget is spent,  *)
(* nor when the caller is cancelled.                                       *)
LaterJobsSpared == [][asked' \subseteq asked \cup batch]_vars

(* A drain whose caller is cancelled does not return a report: the         *)
(* CancelledError is swallowed only if it comes when the group has closed  *)
(* or the cancelled jobs are being awaited (AC-8.5).                       *)
CancellationLostOnlyLate == drain = "returned" => told # "early"
==============================================================================
