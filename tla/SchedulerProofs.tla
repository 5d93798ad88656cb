---------------------------- MODULE SchedulerProofs ----------------------------
(***************************************************************************)
(* Theorems about Scheduler for every set of jobs, cap and set of jobs     *)
(* that catch their cancellation: the semaphore neither leaks nor mints a  *)
(* slot nor forgets a waiter, and a drain leaves nothing, tells the truth, *)
(* raises and interrupts for a cause.                                      *)
(***************************************************************************)
EXTENDS Scheduler, FiniteSetTheorems, SequenceTheorems, TLAPS

(* The waiters are the queued jobs, each once, and only they get slots.    *)
Queueing ==
  /\ \A i \in DOMAIN queue : job[queue[i]] = "queued"
  /\ \A i, k \in DOMAIN queue : queue[i] = queue[k] => i = k
  /\ \A j \in Jobs : job[j] = "queued" => \E i \in DOMAIN queue : queue[i] = j
  /\ \A j \in granted : j \in Jobs /\ job[j] = "queued"

(* The semaphore's share of the state, as one inductive invariant.         *)
SemTyped == /\ job \in [Jobs -> JobState]
            /\ asked \in SUBSET Jobs
            /\ slots \in Nat
            /\ queue \in Seq(Jobs)
            /\ granted \in SUBSET Jobs

Semaphore == SemTyped /\ Queueing /\ SlotsConserved /\ NoLostWakeup

(* A waiter that leaves the line leaves the others in place.               *)
LEMMA Removal ==
  ASSUME queue \in Seq(Jobs), NEW k \in DOMAIN queue,
         \A a, b \in DOMAIN queue : queue[a] = queue[b] => a = b
  PROVE  LET rest == WithoutJob(queue[k]) IN
         /\ rest \in Seq(Jobs)
         /\ Len(rest) = Len(queue) - 1
         /\ \A i \in 1..Len(rest) : rest[i] = IF i < k THEN queue[i] ELSE queue[i + 1]
<1>1. Place(queue[k]) = k
  BY DEF Place
<1>2. k \in 1..Len(queue) /\ Len(queue) \in Nat
  OBVIOUS
<1> DEFINE front == SubSeq(queue, 1, k - 1)
           back == SubSeq(queue, k + 1, Len(queue))
<1>3. /\ front \in Seq(Jobs) /\ Len(front) = k - 1
      /\ \A i \in 1..(k - 1) : front[i] = queue[i]
  BY <1>2
<1>4. /\ back \in Seq(Jobs) /\ Len(back) = Len(queue) - k
      /\ \A i \in 1..(Len(queue) - k) : back[i] = queue[k + i]
  BY <1>2
<1>5. WithoutJob(queue[k]) = front \o back
  BY <1>1 DEF WithoutJob
<1> HIDE DEF front, back
<1>6. /\ front \o back \in Seq(Jobs)
      /\ Len(front \o back) = Len(queue) - 1
      /\ \A i \in 1..(Len(queue) - 1) :
           (front \o back)[i] = IF i <= k - 1 THEN front[i] ELSE back[i - (k - 1)]
  <2>1. front \in Seq(Jobs) /\ back \in Seq(Jobs)
    BY <1>3, <1>4
  <2>2. Len(front) + Len(back) = Len(queue) - 1
    BY <1>2, <1>3, <1>4
  <2>3. /\ front \o back \in Seq(Jobs)
        /\ Len(front \o back) = Len(front) + Len(back)
        /\ \A i \in 1..(Len(front) + Len(back)) :
             (front \o back)[i] = IF i <= Len(front) THEN front[i] ELSE back[i - Len(front)]
    BY <2>1, ConcatProperties
  <2>4. Len(front) = k - 1
    BY <1>3
  <2> QED
    BY <2>2, <2>3, <2>4
<1>7. ASSUME NEW i \in 1..(Len(queue) - 1)
      PROVE  (front \o back)[i] = IF i < k THEN queue[i] ELSE queue[i + 1]
  <2>1. CASE i < k
    BY <1>2, <1>3, <1>6, <2>1
  <2>2. CASE i >= k
    <3> DEFINE m == i - (k - 1)
    <3>1. m \in 1..(Len(queue) - k) /\ k + m = i + 1 /\ ~(i <= k - 1)
      BY <1>2, <2>2
    <3>2. (front \o back)[i] = back[m]
      BY <1>6, <3>1
    <3>3. back[m] = queue[k + m]
      BY <1>4, <3>1
    <3> QED
      BY <1>2, <2>2, <3>1, <3>2, <3>3
  <2>3. i < k \/ i >= k
    BY <1>2
  <2> QED
    BY <2>1, <2>2, <2>3, Zenon
<1> QED
  BY <1>5, <1>6, <1>7

LEMMA Leaving ==
  ASSUME SemTyped, Queueing, NEW j \in Jobs, job[j] = "queued"
  PROVE  /\ WithoutJob(j) \in Seq(Jobs)
         /\ \A x : (\E i \in DOMAIN WithoutJob(j) : WithoutJob(j)[i] = x)
                     <=> (x # j /\ \E i \in DOMAIN queue : queue[i] = x)
         /\ \A a, b \in DOMAIN WithoutJob(j) : WithoutJob(j)[a] = WithoutJob(j)[b] => a = b
<1>1. PICK k \in DOMAIN queue : queue[k] = j
  BY DEF Queueing
<1> DEFINE rest == WithoutJob(j)
<1>2. /\ rest \in Seq(Jobs) /\ Len(rest) = Len(queue) - 1
      /\ \A i \in 1..Len(rest) : rest[i] = IF i < k THEN queue[i] ELSE queue[i + 1]
  BY <1>1, Removal DEF SemTyped, Queueing
<1>3. /\ DOMAIN rest = 1..Len(rest) /\ DOMAIN queue = 1..Len(queue)
      /\ Len(queue) \in Nat /\ k \in 1..Len(queue)
  BY <1>2 DEF SemTyped
<1> HIDE DEF rest
<1>4. \A a, b \in 1..Len(queue) : queue[a] = queue[b] => a = b
  BY <1>3 DEF Queueing
<1>5. ASSUME NEW i \in 1..Len(rest)
      PROVE  \E m \in 1..Len(queue) : m # k /\ rest[i] = queue[m]
  <2>1. CASE i < k
    BY <1>2, <1>3, <2>1
  <2>2. CASE i >= k
    BY <1>2, <1>3, <2>2
  <2> QED
    BY <1>3, <2>1, <2>2
<1>6. ASSUME NEW m \in 1..Len(queue), m # k
      PROVE  \E i \in 1..Len(rest) : rest[i] = queue[m]
  <2>1. CASE m < k
    BY <1>2, <1>3, <2>1
  <2>2. CASE m > k
    <3>1. m - 1 \in 1..Len(rest) /\ ~(m - 1 < k) /\ (m - 1) + 1 = m
      BY <1>2, <1>3, <2>2
    <3> QED
      BY <1>2, <3>1
  <2> QED
    BY <1>3, <1>6, <2>1, <2>2
<1>7. \A x : (\E i \in 1..Len(rest) : rest[i] = x)
               <=> (x # j /\ \E i \in 1..Len(queue) : queue[i] = x)
  BY <1>1, <1>3, <1>4, <1>5, <1>6
<1>8. \A a, b \in 1..Len(rest) : rest[a] = rest[b] => a = b
  BY <1>2, <1>3, <1>4
<1> QED
  BY <1>2, <1>3, <1>7, <1>8 DEF rest

(* A wake-up hands a slot to one waiter, or finds none or nobody.          *)
LEMMA Waking ==
  ASSUME NEW q \in Seq(Jobs), NEW g, NEW v \in Nat, WakeNext(q, g, v)
  PROVE  /\ queue' = q
         /\ \/ /\ \E i \in DOMAIN q : q[i] \notin g \cup asked /\ granted' = g \cup {q[i]}
               /\ v > 0 /\ slots' = v - 1
            \/ /\ granted' = g /\ slots' = v
               /\ v = 0 \/ \A i \in DOMAIN q : q[i] \in g \cup asked
BY DEF WakeNext, Wakeable

(* Counting jobs.                                                          *)
LEMMA Counting ==
  ASSUME NEW S \in SUBSET Jobs
  PROVE  /\ IsFiniteSet(S) /\ Cardinality(S) \in Nat
         /\ Cardinality(S) <= Cardinality(Jobs) /\ Cardinality(Jobs) \in Nat
         /\ \A x \in Jobs : x \notin S => Cardinality(S \cup {x}) = Cardinality(S) + 1
         /\ \A x \in S : Cardinality(S \ {x}) = Cardinality(S) - 1
<1>1. IsFiniteSet(Jobs)
  BY SchedulerAssumption
<1>2. IsFiniteSet(S) /\ Cardinality(S) <= Cardinality(Jobs)
  BY <1>1, FS_Subset
<1> QED
  BY <1>1, <1>2, FS_CardinalityType, FS_AddElement, FS_RemoveElement

LEMMA CapTyped == MaxConcurrent \in Nat \ {0}
BY SchedulerAssumption DEF MaxConcurrent

LEMMA SemaphoreInit == Init => Semaphore
<1> SUFFICES ASSUME Init PROVE Semaphore
  OBVIOUS
<1>1. job \in [Jobs -> JobState] /\ queue = <<>> /\ granted = {} /\ asked = {}
  BY DEF Init, JobState
<1>2. slots \in Nat
  BY CapTyped DEF Init
<1>3. Running = {} /\ Cardinality({}) = 0
  BY FS_EmptySet DEF Init, Running
<1>4. \A j \in Jobs : job[j] # "queued"
  BY DEF Init
<1>5. SemTyped
  BY <1>1, <1>2 DEF SemTyped
<1>6. Queueing /\ NoLostWakeup
  BY <1>1, <1>4 DEF Queueing, NoLostWakeup
<1>7. SlotsConserved
  BY <1>1, <1>2, <1>3, CapTyped DEF SlotsConserved, Init
<1> QED
  BY <1>5, <1>6, <1>7 DEF Semaphore

(* A step that leaves the jobs and the semaphore alone may ask more jobs   *)
(* to stop, and jobs outside the line may stop asking.                     *)
LEMMA SemaphoreAsked ==
  ASSUME Semaphore, UNCHANGED <<job, slots, queue, granted>>, asked' \in SUBSET Jobs,
         \A j \in asked : job[j] = "queued" => j \in asked'
  PROVE  Semaphore'
<1>1. SemTyped' /\ Queueing'
  BY DEF Semaphore, SemTyped, Queueing
<1>2. SlotsConserved'
  BY DEF Semaphore, SlotsConserved, Running
<1>3. NoLostWakeup'
  <2>1. ASSUME NEW i \in DOMAIN queue, queue[i] \notin asked' PROVE queue[i] \notin asked
    BY <2>1 DEF Semaphore, Queueing
  <2> QED
    BY <2>1 DEF Semaphore, NoLostWakeup
<1> QED
  BY <1>1, <1>2, <1>3 DEF Semaphore

LEMMA SemaphoreBegin == ASSUME Semaphore, NEW j \in Jobs, Begin(j) PROVE Semaphore'
<1> USE DEF Semaphore
<1>1. job[j] = "created" /\ j \notin asked /\ asked' = asked
  BY DEF Begin
<1>2. CASE ~Locked /\ job' = [job EXCEPT ![j] = "running"] /\ slots' = slots - 1 /\ UNCHANGED <<queue, granted>>
  <2>1. slots \in Nat /\ slots > 0 /\ \A i \in DOMAIN queue : queue[i] \notin granted /\ queue[i] \in asked
    BY <1>2 DEF Locked, SemTyped
  <2>2. Running' = Running \cup {j} /\ j \notin Running
    BY <1>1, <1>2 DEF Running, SemTyped
  <2>3. SemTyped'
    BY <1>1, <1>2, <2>1 DEF SemTyped, JobState
  <2>4. Queueing'
    BY <1>1, <1>2 DEF Queueing, SemTyped
  <2>5. SlotsConserved'
    <3>1. Cardinality(Running') = Cardinality(Running) + 1 /\ Cardinality(Running) \in Nat
      BY <2>2, Counting DEF Running
    <3>2. Cardinality(granted) \in Nat /\ MaxConcurrent \in Nat
      BY Counting, CapTyped DEF SemTyped
    <3>3. slots + Cardinality(granted) + Cardinality(Running) = MaxConcurrent
      BY DEF SlotsConserved
    <3>4. slots' + Cardinality(granted') + Cardinality(Running') = MaxConcurrent
      BY <1>2, <2>1, <3>1, <3>2, <3>3
    <3> QED
      BY <3>4 DEF SlotsConserved
  <2>6. NoLostWakeup'
    BY <1>1, <1>2, <2>1 DEF NoLostWakeup
  <2> QED
    BY <2>3, <2>4, <2>5, <2>6
<1>3. CASE Locked /\ job' = [job EXCEPT ![j] = "queued"] /\ queue' = Append(queue, j) /\ UNCHANGED <<slots, granted>>
  <2>1. /\ queue \in Seq(Jobs) /\ Len(queue) \in Nat
        /\ queue' \in Seq(Jobs) /\ Len(queue') = Len(queue) + 1
        /\ DOMAIN queue = 1..Len(queue) /\ DOMAIN queue' = 1..(Len(queue) + 1)
        /\ \A i \in 1..Len(queue) : queue'[i] = queue[i]
        /\ queue'[Len(queue) + 1] = j
    BY <1>3 DEF SemTyped
  <2>2. \A i \in 1..Len(queue) : queue[i] # j
    BY <1>1, <2>1 DEF Queueing
  <2>3. SemTyped'
    BY <1>1, <1>3, <2>1 DEF SemTyped, JobState
  <2>4. Queueing'
    <3>1. \A i \in DOMAIN queue' : job'[queue'[i]] = "queued"
      BY <1>1, <1>3, <2>1 DEF Queueing, SemTyped
    <3>2. \A i, k \in DOMAIN queue' : queue'[i] = queue'[k] => i = k
      BY <2>1, <2>2 DEF Queueing
    <3>3. \A x \in Jobs : job'[x] = "queued" => \E i \in DOMAIN queue' : queue'[i] = x
      <4>1. ASSUME NEW x \in Jobs, x # j, job'[x] = "queued" PROVE \E i \in DOMAIN queue' : queue'[i] = x
        <5>1. PICK i \in DOMAIN queue : queue[i] = x
          BY <1>3, <4>1 DEF Queueing, SemTyped
        <5> QED
          BY <2>1, <5>1
      <4>2. \E i \in DOMAIN queue' : queue'[i] = j
        BY <2>1
      <4> QED
        BY <4>1, <4>2
    <3>4. \A x \in granted' : x \in Jobs /\ job'[x] = "queued"
      BY <1>3 DEF Queueing, SemTyped
    <3> QED
      BY <3>1, <3>2, <3>3, <3>4 DEF Queueing
  <2>5. SlotsConserved'
    <3>1. Running' = Running
      BY <1>1, <1>3 DEF Running, SemTyped
    <3> QED
      BY <1>3, <3>1 DEF SlotsConserved
  <2>6. NoLostWakeup'
    <3>1. ASSUME slots > 0 PROVE \E k \in DOMAIN queue : queue[k] \in granted
      BY <1>3, <3>1 DEF Locked, NoLostWakeup
    <3> QED
      BY <1>3, <2>1, <3>1 DEF NoLostWakeup
  <2> QED
    BY <2>3, <2>4, <2>5, <2>6
<1> QED
  BY <1>2, <1>3 DEF Begin

(* A wake-up over a line q with g handed and v free keeps the semaphore.   *)
LEMMA SemaphoreWoken ==
  ASSUME NEW q \in Seq(Jobs), NEW g \in SUBSET Jobs, NEW v \in Nat, WakeNext(q, g, v),
         job' \in [Jobs -> JobState], asked' \in SUBSET Jobs,
         \A i \in DOMAIN q : job'[q[i]] = "queued" /\ (q[i] \in asked <=> q[i] \in asked'),
         \A a, b \in DOMAIN q : q[a] = q[b] => a = b,
         \A x \in Jobs : job'[x] = "queued" => \E i \in DOMAIN q : q[i] = x,
         \A x \in g : job'[x] = "queued",
         v + Cardinality(g) + Cardinality(Running') = MaxConcurrent
  PROVE  Semaphore'
<1>1. queue' = q
  BY Waking
<1>2. Cardinality(g) \in Nat /\ Cardinality(Running') \in Nat /\ MaxConcurrent \in Nat
  <2>1. Running' \in SUBSET Jobs
    BY DEF Running
  <2> QED
    BY <2>1, Counting, CapTyped
<1>3. CASE \E i \in DOMAIN q : q[i] \notin g \cup asked /\ granted' = g \cup {q[i]} /\ v > 0 /\ slots' = v - 1
  <2>1. PICK i \in DOMAIN q : q[i] \notin g \cup asked /\ granted' = g \cup {q[i]} /\ v > 0 /\ slots' = v - 1
    BY <1>3
  <2>2. q[i] \in Jobs /\ slots' \in Nat
    BY <2>1
  <2>3. SemTyped'
    BY <1>1, <2>1, <2>2 DEF SemTyped
  <2>4. Queueing'
    BY <1>1, <2>1, <2>2 DEF Queueing
  <2>5. SlotsConserved'
    <3>1. Cardinality(granted') = Cardinality(g) + 1
      BY <2>1, <2>2, Counting
    <3>2. slots' + Cardinality(granted') + Cardinality(Running') = MaxConcurrent
      BY <1>2, <2>1, <3>1
    <3> QED
      BY <3>2 DEF SlotsConserved
  <2>6. NoLostWakeup'
    BY <1>1, <2>1 DEF NoLostWakeup
  <2> QED
    BY <2>3, <2>4, <2>5, <2>6 DEF Semaphore
<1>4. CASE granted' = g /\ slots' = v /\ (v = 0 \/ \A i \in DOMAIN q : q[i] \in g \cup asked)
  <2>1. SemTyped' /\ Queueing'
    BY <1>1, <1>4 DEF SemTyped, Queueing
  <2>2. SlotsConserved'
    BY <1>4 DEF SlotsConserved
  <2>3. NoLostWakeup'
    BY <1>1, <1>4 DEF NoLostWakeup
  <2> QED
    BY <2>1, <2>2, <2>3 DEF Semaphore
<1> QED
  BY <1>3, <1>4, Waking

LEMMA SemaphoreAcquire == ASSUME Semaphore, NEW j \in Jobs, Acquire(j) PROVE Semaphore'
<1> USE DEF Semaphore
<1> DEFINE q == WithoutJob(j)
<1>1. /\ j \in granted /\ job[j] = "queued"
      /\ job' = [job EXCEPT ![j] = "running"] /\ asked' = asked
      /\ WakeNext(q, granted \ {j}, slots)
  BY DEF Acquire, Queueing
<1>2. /\ q \in Seq(Jobs)
      /\ \A x : (\E i \in DOMAIN q : q[i] = x) <=> (x # j /\ \E i \in DOMAIN queue : queue[i] = x)
      /\ \A a, b \in DOMAIN q : q[a] = q[b] => a = b
  BY <1>1, Leaving
<1> HIDE DEF q
<1>3. job' \in [Jobs -> JobState] /\ \A x \in Jobs : x # j => job'[x] = job[x]
  BY <1>1 DEF SemTyped, JobState
<1>4. ASSUME NEW i \in DOMAIN q PROVE job'[q[i]] = "queued"
  <2>1. q[i] # j /\ q[i] \in Jobs /\ job[q[i]] = "queued"
    <3>1. q[i] # j /\ \E k \in DOMAIN queue : queue[k] = q[i]
      BY <1>2, Zenon
    <3> QED
      BY <1>2, <3>1 DEF Queueing
  <2> QED
    BY <1>3, <2>1
<1>5. ASSUME NEW x \in Jobs, job'[x] = "queued" PROVE \E i \in DOMAIN q : q[i] = x
  <2>1. x # j /\ job[x] = "queued"
    BY <1>1, <1>3, <1>5 DEF SemTyped
  <2> QED
    BY <1>2, <2>1 DEF Queueing
<1>6. \A x \in granted \ {j} : job'[x] = "queued"
  BY <1>3 DEF Queueing
<1>7. slots + Cardinality(granted \ {j}) + Cardinality(Running') = MaxConcurrent
  <2>1. Running' = Running \cup {j} /\ j \notin Running
    BY <1>1, <1>3 DEF Running, SemTyped
  <2>2. Cardinality(Running') = Cardinality(Running) + 1 /\ Cardinality(Running) \in Nat
    BY <2>1, Counting DEF Running
  <2>3. Cardinality(granted \ {j}) = Cardinality(granted) - 1 /\ Cardinality(granted) \in Nat
    BY <1>1, Counting DEF SemTyped
  <2>4. slots \in Nat /\ slots + Cardinality(granted) + Cardinality(Running) = MaxConcurrent
    BY DEF SlotsConserved, SemTyped
  <2> QED
    BY <2>2, <2>3, <2>4, CapTyped
<1>8. slots \in Nat /\ granted \ {j} \in SUBSET Jobs /\ asked' \in SUBSET Jobs
  BY <1>1 DEF SemTyped
<1> QED
  BY <1>1, <1>2, <1>3, <1>4, <1>5, <1>6, <1>7, <1>8, SemaphoreWoken

LEMMA SemaphoreQuit == ASSUME Semaphore, NEW j \in Jobs, Quit(j) PROVE Semaphore'
<1> USE DEF Semaphore
<1>1. /\ job[j] \in {"created", "queued"}
      /\ job' = [job EXCEPT ![j] = "cancelled"] /\ asked' = asked \ {j}
  BY DEF Quit
<1>2. /\ job' \in [Jobs -> JobState] /\ job'[j] = "cancelled"
      /\ \A x \in Jobs : x # j => job'[x] = job[x]
  BY <1>1 DEF SemTyped, JobState, Finished
<1>3. Running' = Running
  BY <1>1, <1>2 DEF Running
<1>4. slots \in Nat /\ asked' \in SUBSET Jobs
  BY <1>1 DEF SemTyped
<1>5. CASE job[j] = "created" /\ UNCHANGED sem
  <2>1. UNCHANGED <<slots, queue, granted>>
    BY <1>5 DEF sem
  <2>2. SemTyped'
    BY <1>2, <1>4, <2>1 DEF SemTyped
  <2>3. \A i \in DOMAIN queue : queue[i] # j /\ queue[i] \in Jobs
    BY <1>5 DEF Queueing, SemTyped
  <2>4. Queueing'
    BY <1>2, <1>5, <2>1, <2>3 DEF Queueing
  <2>5. SlotsConserved'
    BY <1>3, <2>1 DEF SlotsConserved
  <2>6. NoLostWakeup'
    BY <1>1, <2>1, <2>3 DEF NoLostWakeup
  <2> QED
    BY <2>2, <2>4, <2>5, <2>6
<1>6. CASE job[j] = "queued"
  <2> DEFINE q == WithoutJob(j)
  <2>1. /\ q \in Seq(Jobs)
        /\ \A x : (\E i \in DOMAIN q : q[i] = x) <=> (x # j /\ \E i \in DOMAIN queue : queue[i] = x)
        /\ \A a, b \in DOMAIN q : q[a] = q[b] => a = b
    BY <1>6, Leaving
  <2>2. \/ j \in granted /\ WakeNext(q, granted \ {j}, slots + 1)
        \/ j \notin granted /\ queue' = q /\ UNCHANGED <<slots, granted>>
    BY <1>6 DEF Quit
  <2> HIDE DEF q
  <2>3. ASSUME NEW i \in DOMAIN q PROVE job'[q[i]] = "queued" /\ (q[i] \in asked <=> q[i] \in asked')
    <3>1. q[i] # j /\ q[i] \in Jobs /\ job[q[i]] = "queued"
      <4>1. q[i] # j /\ \E k \in DOMAIN queue : queue[k] = q[i]
        BY <2>1, Zenon
      <4> QED
        BY <2>1, <4>1 DEF Queueing
    <3> QED
      BY <1>1, <1>2, <3>1
  <2>4. ASSUME NEW x \in Jobs, job'[x] = "queued" PROVE \E i \in DOMAIN q : q[i] = x
    <3>1. x # j /\ job[x] = "queued"
      BY <1>2, <2>4
    <3> QED
      BY <2>1, <3>1 DEF Queueing
  <2>5. \A x \in granted \ {j} : job'[x] = "queued"
    BY <1>2 DEF Queueing
  <2>6. CASE j \in granted /\ WakeNext(q, granted \ {j}, slots + 1)
    <3>1. (slots + 1) + Cardinality(granted \ {j}) + Cardinality(Running') = MaxConcurrent
      <4>1. Cardinality(granted \ {j}) = Cardinality(granted) - 1 /\ Cardinality(granted) \in Nat
        BY <2>6, Counting DEF SemTyped
      <4>2. Cardinality(Running) \in Nat
        BY Counting DEF Running
      <4> QED
        BY <1>3, <1>4, <4>1, <4>2, CapTyped DEF SlotsConserved
    <3>2. slots + 1 \in Nat /\ granted \ {j} \in SUBSET Jobs
      BY <1>4 DEF SemTyped
    <3> QED
      BY <1>2, <1>4, <2>1, <2>3, <2>4, <2>5, <2>6, <3>1, <3>2, SemaphoreWoken
  <2>7. CASE j \notin granted /\ queue' = q /\ UNCHANGED <<slots, granted>>
    <3>1. SemTyped'
      BY <1>2, <1>4, <2>1, <2>7 DEF SemTyped
    <3>2. Queueing'
      BY <2>1, <2>3, <2>4, <2>5, <2>7 DEF Queueing
    <3>3. SlotsConserved'
      BY <1>3, <2>7 DEF SlotsConserved
    <3>4. NoLostWakeup'
      <4> SUFFICES ASSUME slots > 0, NEW i \in DOMAIN q, q[i] \notin asked
                   PROVE  \E k \in DOMAIN q : q[k] \in granted
        BY <2>3, <2>7 DEF NoLostWakeup
      <4>1. PICK m \in DOMAIN queue : queue[m] = q[i]
        BY <2>1
      <4>2. PICK k \in DOMAIN queue : queue[k] \in granted
        BY <4>1 DEF NoLostWakeup
      <4>3. queue[k] # j
        BY <2>7, <4>2
      <4> QED
        BY <2>1, <4>2, <4>3
    <3> QED
      BY <3>1, <3>2, <3>3, <3>4
  <2> QED
    BY <2>2, <2>6, <2>7
<1> QED
  BY <1>1, <1>5, <1>6 DEF Quit, Queueing

LEMMA SemaphoreFinish ==
  ASSUME Semaphore, NEW j \in Jobs, NEW state \in Finished, Finish(j, state)
  PROVE  Semaphore'
<1> USE DEF Semaphore
<1>1. /\ job[j] = "running"
      /\ job' = [job EXCEPT ![j] = state] /\ asked' = asked \ {j}
      /\ WakeNext(queue, granted, slots + 1)
  BY DEF Finish
<1>2. /\ job' \in [Jobs -> JobState] /\ job'[j] = state
      /\ \A x \in Jobs : x # j => job'[x] = job[x]
  BY <1>1 DEF SemTyped, JobState
<1>3. state # "queued" /\ state # "running"
  BY DEF Finished
<1>4. ASSUME NEW i \in DOMAIN queue
      PROVE  job'[queue[i]] = "queued" /\ (queue[i] \in asked <=> queue[i] \in asked')
  <2>1. job[queue[i]] = "queued" /\ queue[i] \in Jobs
    BY DEF Queueing, SemTyped
  <2> QED
    BY <1>1, <1>2, <2>1
<1>5. ASSUME NEW x \in Jobs, job'[x] = "queued" PROVE \E i \in DOMAIN queue : queue[i] = x
  BY <1>2, <1>3, <1>5 DEF Queueing
<1>6. \A x \in granted : job'[x] = "queued"
  BY <1>1, <1>2 DEF Queueing
<1>7. (slots + 1) + Cardinality(granted) + Cardinality(Running') = MaxConcurrent
  <2>1. Running' = Running \ {j} /\ j \in Running
    BY <1>1, <1>2, <1>3 DEF Running
  <2>2. Cardinality(Running') = Cardinality(Running) - 1 /\ Cardinality(Running) \in Nat
    BY <2>1, Counting DEF Running
  <2>3. slots \in Nat /\ Cardinality(granted) \in Nat
    BY Counting DEF SemTyped
  <2> QED
    BY <2>2, <2>3, CapTyped DEF SlotsConserved
<1>8. /\ slots + 1 \in Nat /\ granted \in SUBSET Jobs /\ asked' \in SUBSET Jobs /\ queue \in Seq(Jobs)
      /\ \A a, b \in DOMAIN queue : queue[a] = queue[b] => a = b
  BY <1>1 DEF SemTyped, Queueing
<1> QED
  BY <1>1, <1>2, <1>4, <1>5, <1>6, <1>7, <1>8, SemaphoreWoken

(* The steps of a drain touch the jobs only by asking them to stop.        *)
LEMMA DrainAsks ==
  ASSUME batch \in SUBSET Jobs,
         \/ \E j \in Jobs : WrapperEnds(j)
         \/ \E budget \in {0, 1} : CallDrain(budget)
         \/ DrainStep
         \/ CancelCaller
  PROVE  /\ UNCHANGED <<job, tracked, slots, queue, granted>>
         /\ asked \subseteq asked' /\ asked' \subseteq asked \cup batch
         /\ asked' # asked => \/ expired' \/ told' # "no"
                              \/ \E j \in batch : job[j] = "failed"
                              \/ drain = "closing"
BY DEF WrapperEnds, CallDrain, DrainStep, GroupCloses, BudgetSpent, WaitReturns, TimeoutCaught,
       ReapReturns, LeaveReturns, CancelCaller, Abort, Awaiting, jobs, grp

LEMMA SemaphoreNext ==
  ASSUME Semaphore, batch \in SUBSET Jobs, [Next]_vars
  PROVE  Semaphore'
<1>1. CASE \/ \E j \in Jobs : WrapperEnds(j)
           \/ \E budget \in {0, 1} : CallDrain(budget)
           \/ DrainStep
           \/ CancelCaller
  <2>1. UNCHANGED <<job, slots, queue, granted>> /\ asked \subseteq asked' /\ asked' \subseteq asked \cup batch
    BY <1>1, DrainAsks
  <2>2. asked' \in SUBSET Jobs
    BY <2>1 DEF Semaphore, SemTyped
  <2> QED
    BY <2>1, <2>2, SemaphoreAsked
<1>2. ASSUME NEW j \in Jobs, Submit(j) PROVE Semaphore'
  <2>1. /\ job[j] = "none" /\ job' = [job EXCEPT ![j] = "created"]
        /\ UNCHANGED <<asked, slots, queue, granted>>
    BY <1>2 DEF Submit, sem
  <2>2. SemTyped' /\ Queueing'
    BY <2>1 DEF Semaphore, SemTyped, Queueing, JobState
  <2>3. Running' = Running
    BY <2>1 DEF Semaphore, SemTyped, Running
  <2> QED
    BY <2>1, <2>2, <2>3 DEF Semaphore, SlotsConserved, NoLostWakeup
<1>3. ASSUME NEW j \in Jobs, Swallow(j) \/ Discard(j) PROVE Semaphore'
  <2>1. UNCHANGED <<job, slots, queue, granted>>
    BY <1>3 DEF Swallow, Discard, jobs, sem
  <2>2. asked' \in SUBSET Jobs /\ \A x \in asked : job[x] = "queued" => x \in asked'
    BY <1>3 DEF Swallow, Discard, Semaphore, SemTyped
  <2> QED
    BY <2>1, <2>2, SemaphoreAsked
<1>4. CASE UNCHANGED vars
  <2>1. UNCHANGED <<job, asked, slots, queue, granted>>
    BY <1>4 DEF vars
  <2> QED
    BY <2>1, SemaphoreAsked DEF Semaphore, SemTyped
<1>5. ASSUME NEW j \in Jobs, Begin(j) \/ Acquire(j) \/ Quit(j) \/ JobEnds(j) PROVE Semaphore'
  BY <1>5, SemaphoreBegin, SemaphoreAcquire, SemaphoreQuit, SemaphoreFinish DEF JobEnds
<1> QED
  BY <1>1, <1>2, <1>3, <1>4, <1>5 DEF Next, JobStep

------------------------------------------------------------------------------
(* The drain's share: the wrappers of a closed group have seen their jobs  *)
(* to the end, errors are of failed jobs of the batch, and what drain      *)
(* concluded stays true because finished jobs stay as they are.            *)
DrainTyped ==
  /\ tracked \in SUBSET Jobs
  /\ drain \in {"idle", "waiting", "closing", "leaving", "reaping"} \cup Ended
  /\ batch \in SUBSET Jobs
  /\ wrapper \in [Jobs -> {"none", "awaiting", "cancelled", "done"}]
  /\ group \in {"none", "open", "aborting", "closed"}
  /\ errors \in SUBSET Jobs
  /\ told \in {"no", "early", "late"}
  /\ expired \in BOOLEAN
  /\ report \in [completed: 0..Cardinality(Jobs), interrupted: 0..Cardinality(Jobs)]

Over == \A j \in batch : IsFinished(j)

Drained ==
  /\ DrainTyped
  /\ \A j \in errors : j \in batch /\ job[j] = "failed"
  /\ \A j \in batch : wrapper[j] = "done" => IsFinished(j)
  /\ group = "closed" /\ (drain = "waiting" \/ errors # {}) => Over
  /\ DrainLeavesNothing
  /\ RaiseHasCause
  /\ ReportTellsOutcome
  /\ told = "early" => drain \in {"leaving", "cancelled"}
  /\ drain = "closing" => expired

LEMMA DrainedInit == Init => Drained
<1> SUFFICES ASSUME Init PROVE Drained
  OBVIOUS
<1>1. Cardinality(Jobs) \in Nat
  BY SchedulerAssumption, FS_CardinalityType
<1>2. DrainTyped
  <2>1. report \in [completed: 0..Cardinality(Jobs), interrupted: 0..Cardinality(Jobs)]
    BY <1>1 DEF Init
  <2>2. wrapper \in [Jobs -> {"none", "awaiting", "cancelled", "done"}]
    BY DEF Init
  <2> QED
    BY <2>1, <2>2 DEF Init, DrainTyped
<1> QED
  BY <1>2 DEF Init, Drained, DrainLeavesNothing, RaiseHasCause, ReportTellsOutcome, Over, Ended

(* A job changes state: what has finished stays, so what was concluded     *)
(* stays true.                                                             *)
LEMMA DrainedJob ==
  ASSUME Drained, UNCHANGED <<drain, batch, wrapper, group, errors, told, expired, report>>,
         tracked' \in SUBSET Jobs,
         \A j \in Jobs : IsFinished(j) => job'[j] = job[j]
  PROVE  Drained'
<1>1. batch \subseteq Jobs /\ errors \subseteq batch
  BY DEF Drained, DrainTyped
<1>2. \A j \in batch : IsFinished(j) => IsFinished(j)' /\ job'[j] = job[j]
  BY <1>1 DEF IsFinished
<1>3. DrainTyped'
  BY DEF Drained, DrainTyped
<1>4. \A j \in errors : job'[j] = "failed"
  BY <1>1 DEF Drained, IsFinished, Finished
<1>5. Over => Over'
  BY <1>2 DEF Over
<1>6. DrainLeavesNothing'
  BY <1>2 DEF Drained, DrainLeavesNothing
<1>7. RaiseHasCause'
  BY <1>1 DEF Drained, RaiseHasCause, IsFinished, Finished
<1>8. ReportTellsOutcome'
  <2> SUFFICES ASSUME drain = "returned" PROVE ReportTellsOutcome'
    BY DEF ReportTellsOutcome
  <2>1. \A j \in batch : job'[j] = job[j]
    BY <1>1 DEF Drained, DrainLeavesNothing
  <2>2. /\ {j \in batch : job'[j] = "cancelled"} = {j \in batch : job[j] = "cancelled"}
        /\ {j \in batch : job'[j] \in {"done", "failed"}} = {j \in batch : job[j] \in {"done", "failed"}}
    BY <2>1
  <2> QED
    BY <2>2 DEF Drained, ReportTellsOutcome
<1> QED
  BY <1>1, <1>2, <1>3, <1>4, <1>5, <1>6, <1>7, <1>8 DEF Drained

(* What drain counts once all jobs are over.                               *)
LEMMA Counts ==
  ASSUME job \in [Jobs -> JobState], DrainTyped, Over, report' = Count, UNCHANGED <<job, batch>>
  PROVE  /\ report' \in [completed: 0..Cardinality(Jobs), interrupted: 0..Cardinality(Jobs)]
         /\ report'.interrupted = Cardinality({j \in batch : job'[j] = "cancelled"})
         /\ report'.completed = Cardinality({j \in batch : job'[j] \in {"done", "failed"}})
<1>1. /\ {j \in batch : IsFinished(j) /\ job[j] # "cancelled"} = {j \in batch : job[j] \in {"done", "failed"}}
      /\ {j \in batch : ~IsFinished(j) \/ job[j] = "cancelled"} = {j \in batch : job[j] = "cancelled"}
  BY DEF Over, IsFinished, Finished
<1>2. \A S \in SUBSET Jobs : Cardinality(S) \in 0..Cardinality(Jobs)
  BY Counting
<1>3. /\ {j \in batch : job[j] \in {"done", "failed"}} \in SUBSET Jobs
      /\ {j \in batch : job[j] = "cancelled"} \in SUBSET Jobs
  BY DEF DrainTyped
<1> QED
  BY <1>1, <1>2, <1>3 DEF Count

LEMMA DrainedCall ==
  ASSUME Drained, NEW budget \in {0, 1}, CallDrain(budget) PROVE Drained'
<1>1. /\ batch' = tracked /\ told' = "no" /\ expired' = (budget = 0) /\ errors' = {}
      /\ UNCHANGED <<job, tracked>> /\ group \in {"none", "closed"}
  BY DEF CallDrain, jobs
<1>2. Cardinality(Jobs) \in Nat
  BY SchedulerAssumption, FS_CardinalityType
<1>3. CASE /\ tracked = {} /\ drain' = "returned"
           /\ report' = [completed |-> 0, interrupted |-> 0] /\ UNCHANGED <<wrapper, group>>
  <2>1. DrainTyped'
    BY <1>1, <1>2, <1>3 DEF Drained, DrainTyped, Ended
  <2>2. ReportTellsOutcome'
    BY <1>1, <1>3, FS_EmptySet DEF ReportTellsOutcome
  <2> QED
    BY <1>1, <1>3, <2>1, <2>2 DEF Drained, DrainLeavesNothing, RaiseHasCause, Over
<1>4. CASE /\ tracked # {}
           /\ drain' = IF budget = 0 THEN "closing" ELSE "waiting"
           /\ group' = IF budget = 0 THEN "closed" ELSE "open"
           /\ wrapper' = [j \in Jobs |-> IF budget # 0 /\ j \in tracked THEN "awaiting" ELSE "none"]
           /\ UNCHANGED report
  <2>1. DrainTyped'
    BY <1>1, <1>4 DEF Drained, DrainTyped, Ended
  <2>2. \A j \in Jobs : wrapper'[j] # "done"
    BY <1>4
  <2> QED
    BY <1>1, <1>4, <2>1, <2>2 DEF Drained, DrainTyped, DrainLeavesNothing, RaiseHasCause, ReportTellsOutcome, Over
<1> QED
  BY <1>3, <1>4 DEF CallDrain

(* A group that is told to stop marks only wrappers whose jobs are over.   *)
LEMMA DrainedAbort ==
  ASSUME Drained, NEW seen \in SUBSET {j \in batch : IsFinished(j)}, Abort(seen)
  PROVE  /\ wrapper' \in [Jobs -> {"none", "awaiting", "cancelled", "done"}]
         /\ group' = "aborting"
         /\ \A j \in batch : wrapper'[j] = "done" => IsFinished(j)
BY DEF Abort, Drained, DrainTyped, Awaiting

LEMMA DrainedWrapper ==
  ASSUME Drained, NEW j \in Jobs, WrapperEnds(j) PROVE Drained'
<1>1. /\ group \in {"open", "aborting"} /\ j \in batch /\ IsFinished(j)
      /\ UNCHANGED <<job, tracked, drain, batch, told, expired, report>>
      /\ errors' = errors \/ (job[j] = "failed" /\ errors' = errors \cup {j})
  BY DEF WrapperEnds, jobs, caller
<1>2. /\ wrapper' \in [Jobs -> {"none", "awaiting", "cancelled", "done"}]
      /\ group' \in {"open", "aborting"}
      /\ \A k \in batch : wrapper'[k] = "done" => IsFinished(k)
  <2>1. CASE Abort({j})
    BY <1>1, <2>1, DrainedAbort
  <2>2. CASE wrapper' = [wrapper EXCEPT ![j] = "done"] /\ group' = group
    BY <1>1, <2>2 DEF Drained, DrainTyped
  <2> QED
    BY <2>1, <2>2 DEF WrapperEnds
<1>3. DrainTyped'
  BY <1>1, <1>2 DEF Drained, DrainTyped
<1> QED
  BY <1>1, <1>2, <1>3 DEF Drained, DrainLeavesNothing, RaiseHasCause, ReportTellsOutcome, IsFinished

(* Drain ends with a report.                                               *)
LEMMA DrainedReports ==
  ASSUME Drained, job \in [Jobs -> JobState], Over, told # "early", Return,
         UNCHANGED <<job, tracked, batch, wrapper, group, errors, told, expired>>
  PROVE  Drained'
<1>1. drain' = "returned" /\ report' = Count
  BY DEF Return
<1>2. /\ report' \in [completed: 0..Cardinality(Jobs), interrupted: 0..Cardinality(Jobs)]
      /\ ReportTellsOutcome'
  BY <1>1, Counts DEF Drained, ReportTellsOutcome
<1>3. DrainTyped'
  BY <1>1, <1>2 DEF Drained, DrainTyped, Ended
<1> QED
  BY <1>1, <1>2, <1>3 DEF Drained, DrainLeavesNothing, RaiseHasCause, Over, IsFinished

(* Drain moves on without concluding anything, or raises.                  *)
LEMMA DrainedMoves ==
  ASSUME Drained, UNCHANGED <<job, tracked, batch, wrapper, group, errors, told, expired, report>>,
         \/ drain' \in {"reaping", "cancelled"} /\ (told = "early" => drain' = "cancelled")
         \/ drain' = "raised" /\ errors # {} /\ group = "closed" /\ told # "early"
  PROVE  Drained'
<1>1. DrainTyped'
  BY DEF Drained, DrainTyped, Ended
<1> QED
  BY <1>1 DEF Drained, DrainLeavesNothing, RaiseHasCause, ReportTellsOutcome, Over, IsFinished

LEMMA DrainedStep ==
  ASSUME Drained, job \in [Jobs -> JobState], DrainStep PROVE Drained'
<1>1. CASE GroupCloses
  <2>1. /\ group' = "closed" /\ \A j \in batch : wrapper[j] = "done"
        /\ UNCHANGED <<job, tracked, drain, batch, wrapper, errors, told, expired, report>>
    BY <1>1 DEF GroupCloses, jobs, caller
  <2>2. Over'
    BY <2>1 DEF Drained, Over, IsFinished
  <2>3. DrainTyped'
    BY <2>1 DEF Drained, DrainTyped
  <2> QED
    BY <2>1, <2>2, <2>3 DEF Drained, DrainLeavesNothing, RaiseHasCause, ReportTellsOutcome, IsFinished
<1>2. CASE BudgetSpent
  <2>1. /\ drain = "waiting" /\ drain' = "closing" /\ expired' = TRUE /\ group # "closed"
        /\ UNCHANGED <<job, tracked, batch, errors, told, report>>
        /\ Abort({}) \/ UNCHANGED <<wrapper, group>>
    BY <1>2 DEF BudgetSpent, jobs
  <2>2. /\ wrapper' \in [Jobs -> {"none", "awaiting", "cancelled", "done"}]
        /\ group' # "closed" /\ group' \in {"none", "open", "aborting", "closed"}
        /\ \A j \in batch : wrapper'[j] = "done" => IsFinished(j)
    BY <2>1, DrainedAbort DEF Drained, DrainTyped
  <2>3. DrainTyped'
    BY <2>1, <2>2 DEF Drained, DrainTyped
  <2> QED
    BY <2>1, <2>2, <2>3 DEF Drained, DrainLeavesNothing, RaiseHasCause, ReportTellsOutcome, IsFinished
<1>3. CASE WaitReturns
  <2>1. /\ drain = "waiting" /\ group = "closed"
        /\ UNCHANGED <<job, tracked, batch, wrapper, group, errors, told, expired>>
        /\ \/ errors # {} /\ drain' = "raised" /\ report' = report
           \/ Return
    BY <1>3 DEF WaitReturns, jobs, grp
  <2>2. Over /\ told # "early"
    BY <2>1 DEF Drained
  <2> QED
    BY <2>1, <2>2, DrainedReports, DrainedMoves
<1>4. CASE TimeoutCaught
  <2>1. /\ drain = "closing" /\ group = "closed"
        /\ UNCHANGED <<job, tracked, batch, wrapper, group, errors, told, expired, report>>
        /\ \/ errors # {} /\ drain' = "raised"
           \/ drain' = "reaping"
    BY <1>4 DEF TimeoutCaught, jobs, grp
  <2>2. told # "early"
    BY <2>1 DEF Drained
  <2> QED
    BY <2>1, <2>2, DrainedMoves
<1>5. CASE ReapReturns
  <2>1. /\ drain = "reaping" /\ Over /\ Return
        /\ UNCHANGED <<job, tracked, batch, wrapper, group, errors, told, expired>>
    BY <1>5 DEF ReapReturns, jobs, grp, Over
  <2>2. told # "early"
    BY <2>1 DEF Drained
  <2> QED
    BY <2>1, <2>2, DrainedReports
<1>6. CASE LeaveReturns
  <2>1. /\ drain' = "cancelled"
        /\ UNCHANGED <<job, tracked, batch, wrapper, group, errors, told, expired, report>>
    BY <1>6 DEF LeaveReturns, jobs, grp
  <2> QED
    BY <2>1, DrainedMoves
<1> QED
  BY <1>1, <1>2, <1>3, <1>4, <1>5, <1>6 DEF DrainStep

LEMMA DrainedCancelled == ASSUME Drained, CancelCaller PROVE Drained'
<1>1. /\ UNCHANGED <<job, tracked, batch, errors, expired, report>>
      /\ drain \in {"waiting", "closing", "leaving", "reaping"}
      /\ told' \in {told, "early", "late"}
      /\ told' = "early" => told = "early" \/ (drain # "reaping" /\ group # "closed")
  BY DEF CancelCaller, jobs
<1>2. CASE drain = "waiting" /\ group # "closed" /\ drain' = "leaving" /\ Abort({})
  <2>1. /\ wrapper' \in [Jobs -> {"none", "awaiting", "cancelled", "done"}]
        /\ group' = "aborting"
        /\ \A j \in batch : wrapper'[j] = "done" => IsFinished(j)
    BY <1>2, DrainedAbort
  <2>2. DrainTyped'
    BY <1>1, <1>2, <2>1 DEF Drained, DrainTyped
  <2> QED
    BY <1>1, <1>2, <2>1, <2>2 DEF Drained, DrainLeavesNothing, RaiseHasCause, ReportTellsOutcome, IsFinished
<1>3. CASE /\ UNCHANGED <<wrapper, group>>
           /\ \/ drain = "waiting" /\ group # "closed" /\ drain' = "leaving"
              \/ drain = "waiting" /\ group = "closed" /\ drain' = drain
              \/ drain \in {"closing", "leaving"} /\ drain' = "cancelled"
              \/ drain = "reaping" /\ drain' = drain
  <2>1. DrainTyped'
    BY <1>1, <1>3 DEF Drained, DrainTyped, Ended
  <2> QED
    BY <1>1, <1>3, <2>1 DEF Drained, DrainLeavesNothing, RaiseHasCause, ReportTellsOutcome, Over, IsFinished
<1> QED
  BY <1>2, <1>3 DEF CancelCaller

LEMMA DrainedNext == ASSUME Drained, Semaphore, [Next]_vars PROVE Drained'
<1>1. job \in [Jobs -> JobState]
  BY DEF Semaphore, SemTyped
<1>2. ASSUME NEW j \in Jobs, NEW state \in JobState, ~IsFinished(j), job' = [job EXCEPT ![j] = state],
             UNCHANGED <<grp, caller>>, tracked' \in SUBSET Jobs
      PROVE  Drained'
  BY <1>1, <1>2, DrainedJob DEF IsFinished, grp, caller
<1>3. tracked \in SUBSET Jobs
  BY DEF Drained, DrainTyped
<1>4. ASSUME NEW j \in Jobs, Submit(j) \/ Begin(j) \/ Acquire(j) \/ Quit(j) \/ JobEnds(j) PROVE Drained'
  <2>1. /\ UNCHANGED <<grp, caller>> /\ tracked' \in SUBSET Jobs
        /\ ~IsFinished(j)
        /\ \E state \in JobState : job' = [job EXCEPT ![j] = state]
    BY <1>3, <1>4
       DEF Submit, Begin, Acquire, Quit, JobEnds, Finish, Semaphore, Queueing, JobState, Finished, IsFinished
  <2> QED
    BY <1>2, <2>1
<1>5. ASSUME NEW j \in Jobs, Swallow(j) \/ Discard(j) PROVE Drained'
  BY <1>3, <1>5, DrainedJob DEF Swallow, Discard, jobs, grp, caller
<1>6. CASE UNCHANGED vars
  BY <1>3, <1>6, DrainedJob DEF vars
<1>7. CASE \/ \E j \in Jobs : WrapperEnds(j)
           \/ \E budget \in {0, 1} : CallDrain(budget)
           \/ DrainStep
           \/ CancelCaller
  BY <1>1, <1>7, DrainedWrapper, DrainedCall, DrainedStep, DrainedCancelled
<1> QED
  BY <1>4, <1>5, <1>6, <1>7 DEF Next, JobStep

LEMMA SchedulerInvariant == Spec => [](Semaphore /\ Drained)
<1>1. Semaphore /\ Drained /\ [Next]_vars => (Semaphore /\ Drained)'
  BY SemaphoreNext, DrainedNext DEF Drained, DrainTyped
<1> QED
  BY <1>1, SemaphoreInit, DrainedInit, PTL DEF Spec

(* Every variable keeps its type; the semaphore's value stays below the    *)
(* cap because the slots are conserved.                                    *)
THEOREM SchedulerTypeCorrect == Spec => []TypeOK
<1>1. Semaphore /\ Drained => TypeOK
  <2> SUFFICES ASSUME Semaphore, Drained PROVE TypeOK
    OBVIOUS
  <2>1. slots \in 0..MaxConcurrent
    <3>1. Cardinality(granted) \in Nat /\ Cardinality(Running) \in Nat
      BY Counting DEF Semaphore, SemTyped, Running
    <3> QED
      BY <3>1, CapTyped DEF Semaphore, SemTyped, SlotsConserved
  <2> QED
    BY <2>1 DEF TypeOK, Semaphore, SemTyped, Drained, DrainTyped
<1> QED
  BY <1>1, SchedulerInvariant, PTL

(* No slot is lost or made, in whatever order jobs end or are cancelled.   *)
THEOREM SlotsAreConserved == Spec => []SlotsConserved
<1>1. Semaphore => SlotsConserved
  BY DEF Semaphore
<1> QED
  BY <1>1, SchedulerInvariant, PTL

(* No waiter is forgotten beside a free slot.                              *)
THEOREM WaitersAreWoken == Spec => []NoLostWakeup
<1>1. Semaphore => NoLostWakeup
  BY DEF Semaphore
<1> QED
  BY <1>1, SchedulerInvariant, PTL

(* When drain returns or raises, its jobs are over.                        *)
THEOREM DrainsLeaveNothing == Spec => []DrainLeavesNothing
<1>1. Drained => DrainLeavesNothing
  BY DEF Drained
<1> QED
  BY <1>1, SchedulerInvariant, PTL

(* The report counts what became of the jobs, and drain raises only for a *)
(* job that failed.                                                        *)
THEOREM OutcomesAreTold == Spec => []OutcomeIsTold
<1>1. Drained => OutcomeIsTold
  BY DEF Drained, OutcomeIsTold
<1> QED
  BY <1>1, SchedulerInvariant, PTL

(* A drain that is cancelled before the group closes reports nothing.      *)
THEOREM CancelledEarlyReportsNothing == Spec => []CancellationLostOnlyLate
<1>1. Drained => CancellationLostOnlyLate
  BY DEF Drained, CancellationLostOnlyLate
<1> QED
  BY <1>1, SchedulerInvariant, PTL

(* Jobs are asked to stop for one of the three causes only.                *)
THEOREM InterruptsForACause == Spec => InterruptedHasCause
<1>1. Semaphore /\ Drained /\ [Next]_vars
        => [\/ asked' \subseteq asked
            \/ expired' \/ told' # "no"
            \/ \E j \in batch : job[j] = "failed"]_vars
  <2> SUFFICES ASSUME Semaphore, Drained, Next, ~(asked' \subseteq asked)
               PROVE  expired' \/ told' # "no" \/ \E j \in batch : job[j] = "failed"
    BY DEF vars
  <2>1. \/ \E j \in Jobs : WrapperEnds(j)
        \/ \E budget \in {0, 1} : CallDrain(budget)
        \/ DrainStep
        \/ CancelCaller
    BY DEF Next, JobStep, JobEnds, Submit, Begin, Acquire, Quit, Finish, Swallow, Discard
  <2>2. batch \in SUBSET Jobs /\ (drain = "closing" => expired)
    BY DEF Drained, DrainTyped
  <2>3. \/ expired' \/ told' # "no"
        \/ \E j \in batch : job[j] = "failed"
        \/ drain = "closing"
    BY <2>1, <2>2, DrainAsks
  <2>4. drain = "closing" => expired' \/ told' # "no" \/ \E j \in batch : job[j] = "failed"
    BY <2>1, <2>2
       DEF WrapperEnds, CallDrain, DrainStep, GroupCloses, BudgetSpent, WaitReturns, TimeoutCaught,
           ReapReturns, LeaveReturns, CancelCaller, Abort, caller, Ended
  <2> QED
    BY <2>3, <2>4
<1> QED
  BY <1>1, SchedulerInvariant, PTL DEF Spec, InterruptedHasCause

(* Only jobs of the snapshot are asked to stop.                            *)
THEOREM LaterJobsAreSpared == Spec => LaterJobsSpared
<1>1. Semaphore /\ Drained /\ [Next]_vars => [asked' \subseteq asked \cup batch]_vars
  <2> SUFFICES ASSUME Semaphore, Drained, Next PROVE asked' \subseteq asked \cup batch
    BY DEF vars
  <2>1. CASE \/ \E j \in Jobs : WrapperEnds(j)
             \/ \E budget \in {0, 1} : CallDrain(budget)
             \/ DrainStep
             \/ CancelCaller
    BY <2>1, DrainAsks DEF Drained, DrainTyped
  <2>2. ASSUME NEW j \in Jobs, Submit(j) \/ Begin(j) \/ Acquire(j) \/ Quit(j) \/ Discard(j) \/ JobEnds(j) \/ Swallow(j)
        PROVE  asked' \subseteq asked
    BY <2>2 DEF Submit, Begin, Acquire, Quit, Discard, JobEnds, Finish, Swallow
  <2> QED
    BY <2>1, <2>2 DEF Next, JobStep
<1> QED
  BY <1>1, SchedulerInvariant, PTL DEF Spec, LaterJobsSpared
================================================================================
