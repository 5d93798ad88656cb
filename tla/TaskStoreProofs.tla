---------------------------- MODULE TaskStoreProofs ----------------------------
(***************************************************************************)
(* Theorems about TaskStore for every set of requests, runs and names: the *)
(* type invariant, what two creations of one name need, what a 500 needs,  *)
(* what a DELETE leaves, and what a walk over the pages may miss or repeat.*)
(***************************************************************************)
EXTENDS TaskStore, FiniteSetTheorems, TLAPS

States == {"absent", "idle", "scanning", "checked", "created", "refused", "failed",
           "removed", "sweeping", "deleted", "running", "written", "reading", "listed"}

(* The type invariant, and that a run under way has a task.                *)
Typed == /\ TypeOK
         /\ \A u \in Runs : pc[u] = "running" => arg[u] \in Creates

(* len() of the two dictionaries.                                          *)
LEMMA CountRows ==
  ASSUME Live \subseteq Creates
  PROVE  /\ IsFiniteSet(Live) /\ Cardinality(Live) \in Nat
         /\ Cardinality(Creates) \in Nat /\ Cardinality(Live) <= Cardinality(Creates)
         /\ \A c : c \notin Live => Cardinality(Live \cup {c}) = Cardinality(Live) + 1
<1>1. IsFiniteSet(Creates) /\ Live \in SUBSET Creates
  BY StoreAssumption
<1>2. IsFiniteSet(Live) /\ Cardinality(Live) <= Cardinality(Creates)
  BY <1>1, FS_Subset
<1> QED
  BY <1>1, <1>2, FS_CardinalityType, FS_AddElement

LEMMA CountResults ==
  ASSUME Stored \subseteq Runs
  PROVE  /\ Cardinality(Stored) \in Nat /\ Cardinality(Runs) \in Nat
         /\ Cardinality(Stored) <= Cardinality(Runs)
<1>1. IsFiniteSet(Runs) /\ Stored \in SUBSET Runs
  BY StoreAssumption
<1> QED
  BY <1>1, FS_Subset, FS_CardinalityType

(* What an insertion and a removal leave in the two dictionaries.          *)
LEMMA RowInserted ==
  ASSUME NEW c, NEW n, rows' = With(rows, c, n)
  PROVE  /\ Live' = Live \cup {c} /\ rows'[c] = n
         /\ \A x \in Live : x # c => rows'[x] = rows[x]
BY DEF With, Live

LEMMA RowRemoved ==
  ASSUME NEW t, rows' = Without(rows, t)
  PROVE  Live' = Live \ {t} /\ \A x \in Live : x # t => rows'[x] = rows[x]
BY DEF Without, Live

LEMMA ResultInserted ==
  ASSUME NEW u, NEW t, results' = With(results, u, t)
  PROVE  /\ Stored' = Stored \cup {u} /\ results'[u] = t
         /\ \A x \in Stored : x # u => results'[x] = results[x]
BY DEF With, Stored

LEMMA ResultRemoved ==
  ASSUME NEW k, results' = Without(results, k)
  PROVE  Stored' = Stored \ {k} /\ \A x \in Stored : x # k => results'[x] = results[x]
BY DEF Without, Stored

(* The history of the walk collects rows.                                  *)
TourType == tour \in [stayed: SUBSET Creates, came: SUBSET Creates, gone: SUBSET Creates,
                      once: SUBSET Creates, twice: SUBSET Creates]

LEMMA TourTyped ==
  ASSUME TourType, NEW T \in SUBSET Creates,
         \/ tour' = tour
         \/ tour' = [tour EXCEPT !.stayed = T]
         \/ tour' = [tour EXCEPT !.came = @ \cup T]
         \/ tour' = [tour EXCEPT !.gone = @ \cup T, !.stayed = @ \ T]
         \/ tour' = [tour EXCEPT !.twice = @ \cup (tour.once \cap T), !.once = @ \cup T]
  PROVE  TourType'
<1>1. CASE tour' = tour \/ tour' = [tour EXCEPT !.stayed = T]
  BY <1>1 DEF TourType
<1>2. CASE tour' = [tour EXCEPT !.came = @ \cup T]
  BY <1>2 DEF TourType
<1>3. CASE tour' = [tour EXCEPT !.gone = @ \cup T, !.stayed = @ \ T]
  BY <1>3 DEF TourType
<1>4. CASE tour' = [tour EXCEPT !.twice = @ \cup (tour.once \cap T), !.once = @ \cup T]
  BY <1>4 DEF TourType
<1> QED
  BY <1>1, <1>2, <1>3, <1>4

(* The client's place: a page it asked for, and the cursor of the next.    *)
WalkType ==
  /\ walk \in [at: {"absent", "idle", "asking", "filling", "done"}, limit: Limits \cup {1},
               cursor: 0..Cardinality(Creates), next: {Last} \cup 0..Cardinality(Creates),
               page: SUBSET Creates, got: SUBSET Creates]
  /\ walk.page \cap walk.got = {}

LEMMA WalkTyped ==
  ASSUME WalkType, Live \subseteq Creates, WalkStep
  PROVE  WalkType'
<1>0. /\ Cardinality(Live) \in Nat /\ Cardinality(Creates) \in Nat
      /\ Cardinality(Live) <= Cardinality(Creates)
  BY CountRows
<1>a. 0 \in 0..Cardinality(Creates)
  BY <1>0
<1>1. CASE AskPage
  <2> DEFINE n == Cardinality(Live)
             end == Smaller(walk.cursor + walk.limit, n)
  <2>1. walk.cursor \in Nat /\ walk.limit \in Nat
    <3>1. walk.limit \in Limits \cup {1} /\ walk.cursor \in 0..Cardinality(Creates)
      BY DEF WalkType
    <3>2. \A x \in Limits \cup {1} : x \in Nat
      BY StoreAssumption
    <3>3. \A x \in 0..Cardinality(Creates) : x \in Nat
      BY <1>0
    <3>4. walk.cursor \in Nat
      BY <3>1, <3>3, Zenon
    <3>5. walk.limit \in Nat
      BY <3>1, <3>2, Zenon
    <3> QED
      BY <3>4, <3>5
  <2>2. end \in 0..Cardinality(Creates)
    BY <1>0, <2>1 DEF Smaller
  <2>3. NextCursor(end, n) \in {Last} \cup 0..Cardinality(Creates)
    BY <2>2 DEF NextCursor
  <2>4. PICK page \in SUBSET Creates :
          walk' = [walk EXCEPT !.at = "filling", !.page = page, !.got = {},
                               !.next = NextCursor(end, n)]
    BY <1>1 DEF AskPage
  <2> QED
    BY <2>3, <2>4 DEF WalkType
<1>2. CASE LookUp
  <2>1. PICK t \in walk.page :
          \/ walk' = [walk EXCEPT !.page = @ \ {t}, !.got = @ \cup {t}]
          \/ walk' = [walk EXCEPT !.at = "asking", !.page = {}, !.got = {}, !.next = 0]
    BY <1>2 DEF LookUp
  <2>2. t \in Creates
    BY DEF WalkType
  <2>3. CASE walk' = [walk EXCEPT !.page = @ \ {t}, !.got = @ \cup {t}]
    BY <2>2, <2>3 DEF WalkType
  <2>4. CASE walk' = [walk EXCEPT !.at = "asking", !.page = {}, !.got = {}, !.next = 0]
    BY <1>a, <2>4 DEF WalkType
  <2> QED
    BY <2>1, <2>3, <2>4
<1>3. CASE AnswerPage
  <2>1. CASE walk.next = Last
    <3>1. walk' = [walk EXCEPT !.at = "done", !.cursor = 0, !.got = {}, !.next = 0]
      BY <1>3, <2>1 DEF AnswerPage
    <3> QED
      BY <1>a, <3>1 DEF WalkType
  <2>2. CASE walk.next # Last
    <3>1. walk' = [walk EXCEPT !.at = "asking", !.cursor = walk.next, !.got = {}, !.next = 0]
      BY <1>3, <2>2 DEF AnswerPage
    <3>2. walk.next \in 0..Cardinality(Creates)
      BY <2>2 DEF WalkType
    <3> QED
      BY <1>a, <3>1, <3>2 DEF WalkType
  <2> QED
    BY <2>1, <2>2
<1> QED
  BY <1>1, <1>2, <1>3 DEF WalkStep

(* Where the keys of the threads are typed.                                *)
LEMMA UpsetsTyped ==
  ASSUME TypeOK, NEW Q, NEW how \in {"grew", "shrank"}, Upsets(Q, how)
  PROVE  upset' \in [Threads -> SUBSET {"grew", "shrank"}]
BY DEF Upsets, TypeOK

(* The dictionaries, the requests and the client keep their types.         *)
LEMMA TypedInvariant == Spec => []Typed
<1>1. Init => Typed
  <2> SUFFICES ASSUME Init PROVE Typed
    OBVIOUS
  <2>1. Live = {} /\ Stored = {}
    BY DEF Init, Live, Stored
  <2>2. Cardinality(Creates) \in Nat /\ Cardinality(Runs) \in Nat
    BY StoreAssumption, FS_CardinalityType
  <2>3. walk \in {NoWalk, [NoWalk EXCEPT !.at = "absent"]}
    BY DEF Init
  <2>4. /\ pc \in [Actors -> States]
        /\ \A u \in Actors : pc[u] # "running"
    BY DEF Init, States
  <2>5. arg \in [Deletes \cup Runs -> {None} \cup Creates]
    BY DEF Init
  <2>6. size \in [Threads -> 0..(Cardinality(Creates) + Cardinality(Runs))]
    BY <2>2 DEF Init
  <2> QED
    BY <2>1, <2>2, <2>3, <2>4, <2>5, <2>6, StoreAssumption
       DEF Init, Typed, TypeOK, States, NoWalk, NoTour, Actors
<1>2. ASSUME Typed, [Next]_vars
      PROVE  Typed'
  <2> DEFINE Rows == Live \subseteq Creates /\ \A t \in Live : rows[t] = NameOf[t]
             Results == Stored \subseteq Runs /\ \A u \in Stored : results[u] \in Creates
             Local == /\ pc \in [Actors -> States]
                      /\ arg \in [Deletes \cup Runs -> {None} \cup Creates]
                      /\ size \in [Threads -> 0..(Cardinality(Creates) + Cardinality(Runs))]
                      /\ todo \in [Deletes -> SUBSET Runs]
             Walk == /\ walk \in [at: {"absent", "idle", "asking", "filling", "done"},
                                  limit: Limits \cup {1}, cursor: 0..Cardinality(Creates),
                                  next: {Last} \cup 0..Cardinality(Creates),
                                  page: SUBSET Creates, got: SUBSET Creates]
                     /\ walk.page \cap walk.got = {}
             History == /\ upset \in [Threads -> SUBSET {"grew", "shrank"}]
                        /\ between \subseteq Creates \X Creates
                        /\ after \in [Deletes -> SUBSET Runs]
                        /\ TourType
             Running == \A u \in Runs : pc[u] = "running" => arg[u] \in Creates
  <2>a. Rows /\ Results /\ Local /\ Walk /\ History /\ Running
    BY <1>2 DEF Typed, TypeOK, States, TourType
  <2>b. Rows' /\ Results' /\ Local' /\ Walk' /\ History' /\ Running' => Typed'
    BY DEF Typed, TypeOK, States, TourType
  <2>c. /\ Cardinality(Live) \in Nat /\ Cardinality(Stored) \in Nat
        /\ Cardinality(Live) <= Cardinality(Creates) /\ Cardinality(Stored) <= Cardinality(Runs)
        /\ Cardinality(Creates) \in Nat /\ Cardinality(Runs) \in Nat
    BY <2>a, CountRows, CountResults
  <2>d. /\ Creates \subseteq Threads /\ Deletes \subseteq Threads /\ Readers \subseteq Threads
        /\ Threads \subseteq Actors /\ Runs \subseteq Actors /\ Runs \cap Threads = {}
    BY StoreAssumption DEF Threads, Actors
  <2> USE <2>a, <2>b, <2>d DEF Moves, store, history, local, States, TourType
  <2>1. ASSUME NEW c \in Creates, ScanBegins(c) \/ ScanEnds(c)
        PROVE  Typed'
    <3>1. /\ UNCHANGED <<store, arg, todo, walk, history>>
          /\ \E s \in {"scanning", "failed", "refused", "checked"} : pc' = [pc EXCEPT ![c] = s]
          /\ \E n \in {0, Cardinality(Live)} : size' = [size EXCEPT ![c] = n]
      BY <2>1 DEF ScanBegins, ScanEnds
    <3>2. Local'
      BY <2>c, <3>1
    <3>3. Running'
      BY <3>1
    <3> QED
      BY <3>1, <3>2, <3>3 DEF Live, Stored
  <2>2. ASSUME NEW c \in Creates, Insert(c)
        PROVE  Typed'
    <3>1. Rows'
      <4>1. rows' = With(rows, c, NameOf[c])
        BY <2>2 DEF Insert
      <4> QED
        BY <4>1, RowInserted
    <3>2. Local' /\ Running'
      BY <2>2 DEF Insert
    <3>3. History'
      <4>1. between' \subseteq Creates \X Creates
        BY <2>2 DEF Insert
      <4>2. upset' \in [Threads -> SUBSET {"grew", "shrank"}]
        BY <1>2, <2>2, UpsetsTyped DEF Insert, Typed
      <4>5. {c} \in SUBSET Creates
        OBVIOUS
      <4>3. tour' = tour \/ tour' = [tour EXCEPT !.came = @ \cup {c}]
        BY <2>2 DEF Insert
      <4>4. TourType'
        BY <4>3, <4>5, TourTyped DEF TourType
      <4> QED
        BY <2>2, <4>1, <4>2, <4>4 DEF Insert
    <3> QED
      BY <2>2, <3>1, <3>2, <3>3 DEF Insert, Stored
  <2>3. ASSUME NEW d \in Deletes, NEW t \in Creates, RemoveRow(d, t)
        PROVE  Typed'
    <3>1. Rows'
      <4>1. rows' = Without(rows, t)
        BY <2>3 DEF RemoveRow
      <4> QED
        BY <4>1, RowRemoved
    <3>2. Local' /\ Running'
      BY <2>3 DEF RemoveRow
    <3>3. History'
      <4>1. upset' \in [Threads -> SUBSET {"grew", "shrank"}]
        BY <1>2, <2>3, UpsetsTyped DEF RemoveRow, Typed
      <4>5. {t} \in SUBSET Creates
        OBVIOUS
      <4>2. tour' = tour \/ tour' = [tour EXCEPT !.gone = @ \cup {t}, !.stayed = @ \ {t}]
        BY <2>3 DEF RemoveRow
      <4>3. TourType'
        BY <4>2, <4>5, TourTyped DEF TourType
      <4> QED
        BY <2>3, <4>1, <4>3 DEF RemoveRow
    <3> QED
      BY <2>3, <3>1, <3>2, <3>3 DEF RemoveRow, Stored
  <2>4. ASSUME NEW d \in Deletes, SnapshotKeys(d) \/ SweepEnds(d)
        PROVE  Typed'
    <3>1. Local' /\ Running'
      BY <2>4 DEF SnapshotKeys, SweepEnds
    <3> QED
      BY <2>4, <3>1 DEF SnapshotKeys, SweepEnds, Live, Stored
  <2>5. ASSUME NEW d \in Deletes, NEW k \in Runs, Sweep(d, k)
        PROVE  Typed'
    <3>1. Local' /\ Running'
      BY <2>5 DEF Sweep
    <3>2. Results'
      <4>1. CASE UNCHANGED results
        BY <4>1 DEF Stored
      <4>2. CASE results' = Without(results, k)
        BY <4>2, ResultRemoved
      <4> QED
        BY <2>5, <4>1, <4>2 DEF Sweep
    <3>3. History'
      BY <1>2, <2>5, UpsetsTyped DEF Sweep, Typed
    <3> QED
      BY <2>5, <3>1, <3>2, <3>3 DEF Sweep, Live
  <2>6. ASSUME NEW u \in Runs, NEW t \in Creates, PostRun(u, t)
        PROVE  Typed'
    <3>1. Local' /\ Running'
      BY <2>6 DEF PostRun
    <3> QED
      BY <2>6, <3>1 DEF PostRun, Live, Stored
  <2>7. ASSUME NEW u \in Runs, WriteResult(u)
        PROVE  Typed'
    <3>1. Local' /\ Running'
      BY <2>7 DEF WriteResult
    <3>2. Results'
      <4>1. results' = With(results, u, arg[u]) /\ arg[u] \in Creates
        BY <2>7 DEF WriteResult
      <4> QED
        BY <4>1, ResultInserted
    <3>3. History'
      <4>1. upset' \in [Threads -> SUBSET {"grew", "shrank"}]
        BY <1>2, <2>7, UpsetsTyped DEF WriteResult, Typed
      <4> QED
        BY <2>7, <4>1 DEF WriteResult
    <3> QED
      BY <2>7, <3>1, <3>2, <3>3 DEF WriteResult, Live
  <2>8. ASSUME NEW r \in Readers, ReadBegins(r) \/ ReadEnds(r)
        PROVE  Typed'
    <3>1. /\ UNCHANGED <<store, arg, todo, walk, history>>
          /\ \E s \in {"reading", "failed", "listed"} : pc' = [pc EXCEPT ![r] = s]
          /\ \E n \in {0, Cardinality(Stored)} : size' = [size EXCEPT ![r] = n]
      BY <2>8 DEF ReadBegins, ReadEnds
    <3>2. Local'
      BY <2>c, <3>1
    <3>3. Running'
      BY <3>1
    <3> QED
      BY <3>1, <3>2, <3>3 DEF Live, Stored
  <2>9. ASSUME NEW limit \in Limits, WalkBegins(limit)
        PROVE  Typed'
    <3>1. Walk'
      BY <2>9 DEF WalkBegins
    <3>2. TourType'
      BY <2>9, TourTyped DEF WalkBegins
    <3> QED
      BY <2>9, <3>1, <3>2 DEF WalkBegins, Live, Stored
  <2>10. CASE WalkStep
    <3>1. Walk'
      BY <2>10, WalkTyped DEF WalkType
    <3>2. History'
      <4>1. \/ UNCHANGED history
            \/ /\ tour' = [tour EXCEPT !.twice = @ \cup (tour.once \cap walk.got), !.once = @ \cup walk.got]
               /\ UNCHANGED <<upset, between, after>>
        BY <2>10 DEF WalkStep, AskPage, LookUp, AnswerPage
      <4>2. walk.got \in SUBSET Creates
        OBVIOUS
      <4>3. TourType'
        BY <4>1, <4>2, TourTyped
      <4> QED
        BY <4>1, <4>3
    <3>3. UNCHANGED <<store, local>>
      BY <2>10 DEF WalkStep, AskPage, LookUp, AnswerPage
    <3> QED
      BY <3>1, <3>2, <3>3 DEF Live, Stored
  <2>11. CASE UNCHANGED vars
    BY <2>11 DEF vars, Live, Stored
  <2> QED
    BY <1>2, <2>1, <2>2, <2>3, <2>4, <2>5, <2>6, <2>7, <2>8, <2>9, <2>10, <2>11
       DEF Next, CreateStep, DeleteStep, RunStep, ReadStep
<1> QED
  BY <1>1, <1>2, PTL DEF Spec

(* Rows and results are filed under what made them, with the names and     *)
(* tasks they belong to, and every request and page stays within its type. *)
THEOREM StoreTypeCorrect == Spec => []TypeOK
<1>1. Typed => TypeOK
  BY DEF Typed
<1> QED
  BY <1>1, TypedInvariant, PTL

------------------------------------------------------------------------------
(* Creations.  While no row is deleted, the rows only become more, so that *)
(* a loop that saw an insertion ends in RuntimeError; a check that passed  *)
(* has compared every row but those its pairs in "between" name.           *)

Creation(c) ==
  /\ pc[c] \in {"absent", "idle"} => upset[c] = {}
  /\ pc[c] = "scanning" /\ "shrank" \notin upset[c] =>
       IF upset[c] = {} THEN size[c] = Cardinality(Live) ELSE size[c] < Cardinality(Live)
  /\ pc[c] = "checked" =>
       \A x \in Live : NameOf[x] = NameOf[c] => <<c, x>> \in between \/ "shrank" \in upset[c]
  /\ c \in Live => pc[c] = "created"
  /\ pc[c] = "failed" => upset[c] # {}

Creations == \A c \in Creates : Creation(c)

LEMMA CreationKept ==
  ASSUME NEW c, UNCHANGED <<rows, between>>,
         pc'[c] = pc[c], upset'[c] = upset[c], size'[c] = size[c], Creation(c)
  PROVE  Creation(c)'
BY DEF Creation, Live

LEMMA SharedNameKept ==
  ASSUME TypeOK, SharedNameNeedsRace, Live' \subseteq Live, between \subseteq between',
         \A x \in Live' : rows'[x] = rows[x] /\ upset[x] \subseteq upset'[x]
  PROVE  SharedNameNeedsRace'
BY DEF SharedNameNeedsRace

LEMMA UpsetsEffect ==
  ASSUME TypeOK, NEW Q, NEW how \in {"grew", "shrank"}, Upsets(Q, how), NEW q \in Threads
  PROVE  upset'[q] = IF q \in Q THEN upset[q] \cup {how} ELSE upset[q]
BY DEF Upsets, TypeOK

(* Steps that leave the rows alone.                                        *)
LEMMA RowsUntouched ==
  ASSUME TypeOK, Creations, SharedNameNeedsRace, UNCHANGED <<rows, between>>,
         \A c \in Creates : pc'[c] = pc[c] /\ upset'[c] = upset[c] /\ size'[c] = size[c]
  PROVE  Creations' /\ SharedNameNeedsRace'
<1>1. Creations'
  BY CreationKept DEF Creations
<1>2. Live' = Live /\ Live \subseteq Creates
  BY DEF Live, TypeOK
<1> QED
  BY <1>1, <1>2, SharedNameKept

LEMMA InsertKeepsCreations ==
  ASSUME TypeOK, Creations, SharedNameNeedsRace, NEW c \in Creates, Insert(c)
  PROVE  Creations' /\ SharedNameNeedsRace'
<1> DEFINE late == {<<x, c>> : x \in {y \in Creates \ {c} : pc[y] = "checked"}}
<1>1. /\ rows' = With(rows, c, NameOf[c]) /\ Upsets(Scanning, "grew")
      /\ between' = between \cup late /\ size' = size
      /\ pc[c] = "checked" /\ pc' = [pc EXCEPT ![c] = "created"]
  BY DEF Insert, Moves
<1>2. /\ Live' = Live \cup {c} /\ rows'[c] = NameOf[c]
      /\ \A x \in Live : x # c => rows'[x] = rows[x]
  BY <1>1, RowInserted
<1>3. c \notin Live
  BY <1>1 DEF Creations, Creation
<1>4. /\ Cardinality(Live) \in Nat /\ Cardinality(Live') = Cardinality(Live) + 1
  BY <1>2, <1>3, CountRows DEF TypeOK
<1>5. \A q \in Creates : upset'[q] = IF q \in Scanning THEN upset[q] \cup {"grew"} ELSE upset[q]
  BY <1>1, UpsetsEffect DEF Threads
<1>6. ASSUME NEW q \in Creates
      PROVE  Creation(q)'
  <2>0. /\ Creation(q) /\ q \in Threads
        /\ pc'[q] = IF q = c THEN "created" ELSE pc[q]
        /\ q \in Scanning <=> pc[q] = "scanning"
    BY <1>1 DEF Creations, TypeOK, Actors, Threads, Scanning
  <2>1. pc'[q] \in {"absent", "idle"} => upset'[q] = {}
    BY <1>5, <2>0 DEF Creation
  <2>2. pc'[q] = "scanning" /\ "shrank" \notin upset'[q] =>
          upset'[q] # {} /\ size'[q] < Cardinality(Live')
    <3> SUFFICES ASSUME pc'[q] = "scanning", "shrank" \notin upset'[q]
                 PROVE  upset'[q] # {} /\ size'[q] < Cardinality(Live')
      OBVIOUS
    <3>1. pc[q] = "scanning" /\ upset'[q] = upset[q] \cup {"grew"}
      BY <1>5, <2>0
    <3>2. size[q] = Cardinality(Live) \/ size[q] < Cardinality(Live)
      BY <2>0, <3>1 DEF Creation
    <3>3. size[q] \in Nat /\ size'[q] = size[q]
      <4>1. size[q] \in 0..(Cardinality(Creates) + Cardinality(Runs))
        BY <2>0 DEF TypeOK
      <4> QED
        BY <1>1, <4>1
    <3> QED
      BY <1>4, <3>1, <3>2, <3>3
  <2>3. pc'[q] = "checked" =>
          \A x \in Live' : NameOf[x] = NameOf[q] => <<q, x>> \in between' \/ "shrank" \in upset'[q]
    <3> SUFFICES ASSUME pc'[q] = "checked", NEW x \in Live', NameOf[x] = NameOf[q]
                 PROVE  <<q, x>> \in between' \/ "shrank" \in upset'[q]
      OBVIOUS
    <3>1. CASE x = c
      BY <1>1, <2>0, <3>1
    <3>2. CASE x # c
      BY <1>1, <1>2, <1>5, <2>0, <3>2 DEF Creation
    <3> QED
      BY <3>1, <3>2
  <2>4. q \in Live' => pc'[q] = "created"
    BY <1>2, <2>0 DEF Creation
  <2>5. pc'[q] = "failed" => upset'[q] # {}
    BY <1>5, <2>0 DEF Creation
  <2> QED
    BY <2>1, <2>2, <2>3, <2>4, <2>5 DEF Creation
<1>7. SharedNameNeedsRace'
  <2> SUFFICES ASSUME NEW x \in Live', NEW y \in Live', x # y, rows'[x] = rows'[y]
               PROVE  \/ <<x, y>> \in between' \/ <<y, x>> \in between'
                      \/ "shrank" \in upset'[x] \cup upset'[y]
    BY DEF SharedNameNeedsRace
  <2>0. /\ \A t \in Live : t \in Creates /\ rows[t] = NameOf[t]
        /\ between \subseteq between'
        /\ \A q \in Creates : upset[q] \subseteq upset'[q]
    BY <1>1, <1>5 DEF TypeOK
  <2>1. CASE x = c
    BY <1>1, <1>2, <2>0, <2>1 DEF Creations, Creation
  <2>2. CASE y = c
    BY <1>1, <1>2, <2>0, <2>2 DEF Creations, Creation
  <2>3. CASE x # c /\ y # c
    BY <1>2, <2>0, <2>3 DEF SharedNameNeedsRace
  <2> QED
    BY <2>1, <2>2, <2>3
<1> QED
  BY <1>6, <1>7 DEF Creations

LEMMA ScanKeepsCreations ==
  ASSUME TypeOK, Creations, SharedNameNeedsRace, NEW c \in Creates, ScanBegins(c) \/ ScanEnds(c)
  PROVE  Creations' /\ SharedNameNeedsRace'
<1>1. UNCHANGED <<rows, between, upset>>
  BY DEF ScanBegins, ScanEnds, store, history
<1>2. Live' = Live /\ Live \subseteq Creates
  BY <1>1 DEF Live, TypeOK
<1>3. SharedNameNeedsRace'
  BY <1>1, <1>2, SharedNameKept
<1>4. c \in Threads /\ c \in Actors
  BY DEF Threads, Actors
<1>5. ASSUME NEW q \in Creates, q # c
      PROVE  Creation(q)'
  <2>1. pc'[q] = pc[q] /\ size'[q] = size[q]
    <3>1. q \in Threads /\ q \in Actors
      BY DEF Threads, Actors
    <3>2. \E to, n : pc' = [pc EXCEPT ![c] = to] /\ size' = [size EXCEPT ![c] = n]
      BY DEF ScanBegins, ScanEnds, Moves
    <3> QED
      BY <1>5, <3>1, <3>2 DEF TypeOK
  <2> QED
    BY <1>1, <2>1, CreationKept DEF Creations
<1>6. Creation(c)'
  <2>0. Creation(c)
    BY DEF Creations
  <2>1. CASE ScanBegins(c)
    <3>1. /\ pc[c] = "idle" /\ pc'[c] = "scanning" /\ size'[c] = Cardinality(Live)
      BY <1>4, <2>1 DEF ScanBegins, Moves, TypeOK
    <3> QED
      BY <1>1, <1>2, <2>0, <3>1 DEF Creation
  <2>2. CASE ScanEnds(c)
    <3>1. pc[c] = "scanning" /\ pc'[c] \in {"failed", "refused", "checked"}
      BY <1>4, <2>2 DEF ScanEnds, Moves, TypeOK
    <3>2. pc'[c] = "failed" => upset[c] # {}
      BY <1>4, <2>0, <2>2, <3>1 DEF ScanEnds, Moves, TypeOK, Creation
    <3>3. pc'[c] = "checked" /\ "shrank" \notin upset[c] => \A t \in Live : rows[t] # NameOf[c]
      <4>1. Cardinality(Live) \in Nat
        BY <1>2, CountRows
      <4> QED
        BY <1>4, <2>0, <2>2, <3>1, <4>1 DEF ScanEnds, Moves, TypeOK, Creation
    <3>4. pc'[c] = "checked" => \A x \in Live : NameOf[x] = NameOf[c] => "shrank" \in upset[c]
      BY <3>3 DEF TypeOK
    <3>5. c \notin Live
      BY <2>0, <3>1 DEF Creation
    <3> QED
      BY <1>1, <1>2, <3>1, <3>2, <3>4, <3>5 DEF Creation
  <2> QED
    BY <2>1, <2>2
<1> QED
  BY <1>3, <1>5, <1>6 DEF Creations

LEMMA RemoveKeepsCreations ==
  ASSUME TypeOK, Creations, SharedNameNeedsRace,
         NEW d \in Deletes, NEW t \in Creates, RemoveRow(d, t)
  PROVE  Creations' /\ SharedNameNeedsRace'
<1>1. /\ rows' = Without(rows, t) /\ UNCHANGED <<between, size>>
      /\ pc' = [pc EXCEPT ![d] = "removed"]
      /\ IF t \in Live THEN Upsets(Scanning, "shrank") ELSE upset' = upset
  BY DEF RemoveRow, Moves
<1>2. Live' = Live \ {t} /\ (\A x \in Live : x # t => rows'[x] = rows[x]) /\ Live \subseteq Creates
  BY <1>1, RowRemoved DEF TypeOK
<1>3. ASSUME NEW q \in Creates
      PROVE  /\ pc'[q] = pc[q] /\ q \in Threads
             /\ q \in Scanning <=> pc[q] = "scanning"
             /\ upset'[q] = IF t \in Live /\ q \in Scanning THEN upset[q] \cup {"shrank"} ELSE upset[q]
  <2>1. /\ q \in Threads /\ q \in Actors /\ q # d
        /\ q \in Scanning <=> pc[q] = "scanning"
    BY StoreAssumption DEF Threads, Actors, Scanning
  <2>2. pc'[q] = pc[q]
    BY <1>1, <2>1 DEF TypeOK
  <2>3. upset'[q] = IF t \in Live /\ q \in Scanning THEN upset[q] \cup {"shrank"} ELSE upset[q]
    BY <1>1, <2>1, UpsetsEffect
  <2> QED
    BY <2>1, <2>2, <2>3
<1>4. ASSUME NEW q \in Creates
      PROVE  Creation(q)'
  <2>1. CASE t \in Live
    BY <1>1, <1>2, <1>3, <2>1 DEF Creations, Creation
  <2>2. CASE t \notin Live
    <3>1. Live' = Live
      BY <1>2, <2>2
    <3> QED
      BY <1>1, <1>3, <2>2, <3>1 DEF Creations, Creation
  <2> QED
    BY <2>1, <2>2
<1>5. SharedNameNeedsRace'
  BY <1>1, <1>2, <1>3, SharedNameKept
<1> QED
  BY <1>4, <1>5 DEF Creations

LEMMA CreationsInvariant == Spec => [](Creations /\ SharedNameNeedsRace)
<1>1. Init => Creations /\ SharedNameNeedsRace
  <2> SUFFICES ASSUME Init PROVE Creations /\ SharedNameNeedsRace
    OBVIOUS
  <2>1. Live = {} /\ \A c \in Creates : pc[c] \in {"absent", "idle"} /\ upset[c] = {}
    BY DEF Init, Live, Actors, Threads
  <2> QED
    BY <2>1 DEF Creations, Creation, SharedNameNeedsRace
<1>2. ASSUME TypeOK, Creations, SharedNameNeedsRace, [Next]_vars
      PROVE  (Creations /\ SharedNameNeedsRace)'
  <2> USE <1>2 DEF Moves
  <2>0. /\ Creates \cap (Deletes \cup Readers \cup Runs) = {}
        /\ Reading \subseteq Readers
    BY StoreAssumption DEF Reading
  <2>a. ASSUME NEW q, q \notin Creates, NEW to, pc' = [pc EXCEPT ![q] = to],
               size' = size \/ \E n : size' = [size EXCEPT ![q] = n]
        PROVE  \A c \in Creates : pc'[c] = pc[c] /\ size'[c] = size[c]
    BY <2>a DEF TypeOK, Actors, Threads
  <2>b. ASSUME NEW Q, NEW how \in {"grew", "shrank"}, Upsets(Q, how), Q \cap Creates = {}
        PROVE  \A c \in Creates : upset'[c] = upset[c]
    BY <2>b, UpsetsEffect DEF Threads
  <2>1. ASSUME NEW c \in Creates, CreateStep(c)
        PROVE  Creations' /\ SharedNameNeedsRace'
    BY <2>1, ScanKeepsCreations, InsertKeepsCreations DEF CreateStep
  <2>2. ASSUME NEW d \in Deletes, SnapshotKeys(d) \/ SweepEnds(d)
        PROVE  Creations' /\ SharedNameNeedsRace'
    <3>1. \A c \in Creates : pc'[c] = pc[c] /\ size'[c] = size[c]
      BY <2>0, <2>2, <2>a DEF SnapshotKeys, SweepEnds
    <3> QED
      BY <2>2, <3>1, RowsUntouched DEF SnapshotKeys, SweepEnds, store, history
  <2>3. ASSUME NEW d \in Deletes, NEW k \in Runs, Sweep(d, k)
        PROVE  Creations' /\ SharedNameNeedsRace'
    <3>1. \A c \in Creates : upset'[c] = upset[c]
      <4>1. CASE UNCHANGED upset
        BY <4>1
      <4>2. CASE Upsets(Reading \cup {e \in Deletes \ {d} : k \in todo[e]}, "shrank")
        BY <2>0, <4>2, <2>b
      <4> QED
        BY <2>3, <4>1, <4>2 DEF Sweep
    <3>2. \A c \in Creates : pc'[c] = pc[c] /\ size'[c] = size[c]
      BY <2>0, <2>3, <2>a DEF Sweep
    <3> QED
      BY <2>3, <3>1, <3>2, RowsUntouched DEF Sweep
  <2>4. ASSUME NEW u \in Runs, NEW t \in Creates, PostRun(u, t)
        PROVE  Creations' /\ SharedNameNeedsRace'
    <3>1. \A c \in Creates : pc'[c] = pc[c] /\ size'[c] = size[c]
      BY <2>0, <2>4, <2>a DEF PostRun
    <3> QED
      BY <2>4, <3>1, RowsUntouched DEF PostRun, store, history
  <2>5. ASSUME NEW u \in Runs, WriteResult(u)
        PROVE  Creations' /\ SharedNameNeedsRace'
    <3>1. \A c \in Creates : upset'[c] = upset[c]
      BY <2>0, <2>5, <2>b DEF WriteResult
    <3>2. \A c \in Creates : pc'[c] = pc[c] /\ size'[c] = size[c]
      BY <2>0, <2>5, <2>a DEF WriteResult
    <3> QED
      BY <2>5, <3>1, <3>2, RowsUntouched DEF WriteResult
  <2>6. ASSUME NEW r \in Readers, ReadStep(r)
        PROVE  Creations' /\ SharedNameNeedsRace'
    <3>1. \A c \in Creates : pc'[c] = pc[c] /\ size'[c] = size[c]
      BY <2>0, <2>6, <2>a DEF ReadStep, ReadBegins, ReadEnds
    <3> QED
      BY <2>6, <3>1, RowsUntouched DEF ReadStep, ReadBegins, ReadEnds, store, history
  <2>7. CASE WalkStep \/ \E limit \in Limits : WalkBegins(limit)
    BY <2>7, RowsUntouched DEF WalkStep, AskPage, LookUp, AnswerPage, WalkBegins, store, local, history
  <2>8. CASE UNCHANGED vars
    BY <2>8, RowsUntouched DEF vars
  <2>9. ASSUME NEW d \in Deletes, NEW t \in Creates, RemoveRow(d, t)
        PROVE  Creations' /\ SharedNameNeedsRace'
    BY <2>9, RemoveKeepsCreations
  <2> QED
    BY <2>1, <2>2, <2>3, <2>4, <2>5, <2>6, <2>7, <2>8, <2>9 DEF Next, DeleteStep, RunStep
<1> QED
  BY <1>1, <1>2, StoreTypeCorrect, PTL DEF Spec

(* Two live tasks of one name were created in a race: each was inserted    *)
(* after the other was checked for, or a row was deleted under a check.    *)
THEOREM SharedNamesRaced == Spec => []SharedNameNeedsRace
BY CreationsInvariant, PTL

------------------------------------------------------------------------------
(* Deletions and lists of runs.  The keys a sweep has yet to look at are   *)
(* stored as long as nobody removed one of them, and a row of its task is  *)
(* either among them or was written since; the loop of list_runs sees the  *)
(* size it began with as long as nobody changed the results.               *)

Deletion(d) ==
  /\ pc[d] = "sweeping" =>
       /\ upset[d] = {} => todo[d] \subseteq Stored
       /\ \A u \in Stored : results[u] = arg[d] => u \in after[d] \cup todo[d]
  /\ pc[d] = "deleted" => \A u \in Stored : results[u] = arg[d] => u \in after[d]
  /\ pc[d] = "failed" => upset[d] # {}

Listing(r) ==
  /\ pc[r] = "reading" /\ upset[r] = {} => size[r] = Cardinality(Stored)
  /\ pc[r] = "failed" => upset[r] # {}

Sweeps == (\A d \in Deletes : Deletion(d)) /\ (\A r \in Readers : Listing(r))

LEMMA DeletionKept ==
  ASSUME NEW d, UNCHANGED results, pc'[d] = pc[d], upset'[d] = upset[d],
         arg'[d] = arg[d], todo'[d] = todo[d], after'[d] = after[d], Deletion(d)
  PROVE  Deletion(d)'
BY DEF Deletion, Stored

LEMMA ListingKept ==
  ASSUME NEW r, UNCHANGED results, pc'[r] = pc[r], upset'[r] = upset[r],
         size'[r] = size[r], Listing(r)
  PROVE  Listing(r)'
BY DEF Listing, Stored

(* A sweep removes a row of its task: other sweeps that have yet to look   *)
(* at it, and all loops over the results, are upset.                       *)
LEMMA SweepKeepsSweeps ==
  ASSUME TypeOK, Sweeps, NEW d \in Deletes, NEW k \in Runs, Sweep(d, k)
  PROVE  Sweeps'
<1> DEFINE hit == Reading \cup {e \in Deletes \ {d} : k \in todo[e]}
<1>1. /\ UNCHANGED <<arg, size, after>> /\ k \in todo[d] /\ pc[d] = "sweeping"
      /\ todo' = [todo EXCEPT ![d] = IF k \in Stored THEN @ \ {k} ELSE {}]
  BY DEF Sweep, Moves
<1>2. d \in Actors /\ d \in Threads /\ Deletes \cap Readers = {} /\ Reading \subseteq Readers
  BY StoreAssumption DEF Actors, Threads, Reading
<1>3. \A q \in Threads : q # d => pc'[q] = pc[q]
  BY DEF Sweep, Moves, TypeOK, Actors
<1>4. CASE k \notin Stored
  <2>1. UNCHANGED <<results, upset>> /\ pc'[d] = "failed"
    BY <1>2, <1>4 DEF Sweep, Moves, TypeOK
  <2>2. upset'[d] # {}
    BY <1>1, <1>4, <2>1 DEF Sweeps, Deletion
  <2>3. ASSUME NEW e \in Deletes
        PROVE  Deletion(e)'
    <3>1. CASE e = d
      BY <2>1, <2>2, <3>1 DEF Deletion
    <3>2. CASE e # d
      BY <1>1, <1>3, <2>1, <3>2, DeletionKept DEF Sweeps, Threads, TypeOK
    <3> QED
      BY <3>1, <3>2
  <2>4. ASSUME NEW r \in Readers
        PROVE  Listing(r)'
    BY <1>1, <1>2, <1>3, <2>1, ListingKept DEF Sweeps, Threads
  <2> QED
    BY <2>3, <2>4 DEF Sweeps
<1>5. CASE k \in Stored /\ results[k] # arg[d]
  <2>1. UNCHANGED <<results, upset>> /\ pc'[d] = "sweeping"
    BY <1>2, <1>5 DEF Sweep, Moves, TypeOK
  <2>2. ASSUME NEW e \in Deletes
        PROVE  Deletion(e)'
    <3>1. CASE e = d
      <4>1. todo'[d] = todo[d] \ {k}
        BY <1>1, <1>5 DEF TypeOK
      <4>2. Deletion(d)
        BY DEF Sweeps
      <4> QED
        BY <1>1, <1>5, <2>1, <3>1, <4>1, <4>2 DEF Deletion, Stored
    <3>2. CASE e # d
      BY <1>1, <1>3, <2>1, <3>2, DeletionKept DEF Sweeps, Threads, TypeOK
    <3> QED
      BY <3>1, <3>2
  <2>3. ASSUME NEW r \in Readers
        PROVE  Listing(r)'
    BY <1>1, <1>2, <1>3, <2>1, ListingKept DEF Sweeps, Threads
  <2> QED
    BY <2>2, <2>3 DEF Sweeps
<1>6. CASE k \in Stored /\ results[k] = arg[d]
  <2>1. results' = Without(results, k) /\ Upsets(hit, "shrank") /\ pc'[d] = "sweeping"
    BY <1>2, <1>6 DEF Sweep, Moves, TypeOK
  <2>2. Stored' = Stored \ {k} /\ \A x \in Stored : x # k => results'[x] = results[x]
    BY <2>1, ResultRemoved
  <2>3. \A q \in Threads : upset'[q] = IF q \in hit THEN upset[q] \cup {"shrank"} ELSE upset[q]
    <3> HIDE DEF hit
    <3> QED
      BY <2>1, UpsetsEffect
  <2>4. ASSUME NEW e \in Deletes
        PROVE  Deletion(e)'
    <3>0. /\ Deletion(e) /\ e \in Threads
          /\ e \in hit <=> (e # d /\ k \in todo[e])
      BY <1>2 DEF Sweeps, Threads
    <3>1. CASE e = d
      <4>1. todo'[d] = todo[d] \ {k} /\ upset'[d] = upset[d]
        BY <1>1, <1>2, <1>6, <2>3 DEF TypeOK
      <4> QED
        BY <1>1, <2>1, <2>2, <3>0, <3>1, <4>1 DEF Deletion
    <3>2. CASE e # d
      <4>1. todo'[e] = todo[e] /\ pc'[e] = pc[e]
        BY <1>1, <1>3, <3>0, <3>2 DEF TypeOK
      <4>2. upset'[e] = IF k \in todo[e] THEN upset[e] \cup {"shrank"} ELSE upset[e]
        BY <1>2, <2>3, <3>0, <3>2
      <4> QED
        BY <1>1, <2>2, <3>0, <4>1, <4>2 DEF Deletion
    <3> QED
      BY <3>1, <3>2
  <2>5. ASSUME NEW r \in Readers
        PROVE  Listing(r)'
    <3>1. r \in Threads /\ r # d
      BY <1>2 DEF Threads
    <3>2. pc'[r] = pc[r] /\ size'[r] = size[r]
      BY <1>1, <1>3, <3>1
    <3>3. upset[r] \subseteq upset'[r] /\ (pc[r] = "reading" => upset'[r] # {})
      BY <2>3, <3>1 DEF Reading
    <3> QED
      BY <3>2, <3>3 DEF Sweeps, Listing
  <2> QED
    BY <2>4, <2>5 DEF Sweeps
<1> QED
  BY <1>4, <1>5, <1>6

(* A run stores its row: sweeps under way leave it, and count it as new.   *)
LEMMA WriteKeepsSweeps ==
  ASSUME TypeOK, Sweeps, NEW u \in Runs, WriteResult(u)
  PROVE  Sweeps'
<1>1. /\ UNCHANGED <<arg, size, todo>> /\ Upsets(Reading, "grew")
      /\ results' = With(results, u, arg[u]) /\ pc' = [pc EXCEPT ![u] = "written"]
      /\ after' = [d \in Deletes |-> IF pc[d] \in {"absent", "idle", "removed"}
                                     THEN {} ELSE after[d] \cup {u}]
  BY DEF WriteResult, Moves
<1>2. Runs \cap Threads = {} /\ Deletes \cap Readers = {} /\ Reading \subseteq Readers
  BY StoreAssumption DEF Threads, Reading
<1>3. Stored' = Stored \cup {u} /\ \A x \in Stored : x # u => results'[x] = results[x]
  BY <1>1, ResultInserted
<1>4. \A q \in Threads : /\ pc'[q] = pc[q]
                         /\ upset'[q] = IF q \in Reading THEN upset[q] \cup {"grew"} ELSE upset[q]
  <2> SUFFICES ASSUME NEW q \in Threads
               PROVE  /\ pc'[q] = pc[q]
                      /\ upset'[q] = IF q \in Reading THEN upset[q] \cup {"grew"} ELSE upset[q]
    OBVIOUS
  <2>1. pc'[q] = pc[q]
    BY <1>1, <1>2 DEF TypeOK, Actors
  <2>2. upset'[q] = IF q \in Reading THEN upset[q] \cup {"grew"} ELSE upset[q]
    BY <1>1, UpsetsEffect
  <2> QED
    BY <2>1, <2>2
<1>5. ASSUME NEW d \in Deletes
      PROVE  Deletion(d)'
  <2>1. pc'[d] = pc[d] /\ upset'[d] = upset[d]
    BY <1>2, <1>4 DEF Threads
  <2>2. pc[d] \in {"sweeping", "deleted"} => after'[d] = after[d] \cup {u}
    BY <1>1
  <2> QED
    BY <1>1, <1>3, <2>1, <2>2 DEF Sweeps, Deletion
<1>6. ASSUME NEW r \in Readers
      PROVE  Listing(r)'
  BY <1>4 DEF Sweeps, Listing, Threads, Reading
<1> QED
  BY <1>5, <1>6 DEF Sweeps

LEMMA SweepsInvariant == Spec => []Sweeps
<1>1. Init => Sweeps
  <2> SUFFICES ASSUME Init PROVE Sweeps
    OBVIOUS
  <2>1. \A q \in Threads : pc[q] \in {"absent", "idle"}
    BY DEF Init, Actors
  <2> QED
    BY <2>1 DEF Sweeps, Deletion, Listing, Threads
<1>2. ASSUME TypeOK, Sweeps, [Next]_vars
      PROVE  Sweeps'
  <2> USE <1>2 DEF Moves
  <2>0. /\ Creates \subseteq Threads /\ Deletes \subseteq Threads /\ Readers \subseteq Threads
        /\ Threads \subseteq Actors /\ Runs \cap Threads = {}
        /\ Creates \cap (Deletes \cup Readers) = {} /\ Deletes \cap Readers = {}
        /\ Scanning \subseteq Creates
    BY StoreAssumption DEF Threads, Actors, Scanning
  <2>a. ASSUME UNCHANGED <<results, todo, after>>,
               \A q \in Deletes \cup Readers : /\ pc'[q] = pc[q] /\ upset'[q] = upset[q]
                                               /\ size'[q] = size[q],
               \A d \in Deletes : arg'[d] = arg[d]
        PROVE  Sweeps'
    BY <2>a, DeletionKept, ListingKept DEF Sweeps
  <2>1. ASSUME NEW c \in Creates, ScanBegins(c) \/ ScanEnds(c)
        PROVE  Sweeps'
    <3>1. /\ UNCHANGED <<results, todo, after, upset, arg>>
          /\ \E to, n : pc' = [pc EXCEPT ![c] = to] /\ size' = [size EXCEPT ![c] = n]
      BY <2>1 DEF ScanBegins, ScanEnds, store, history
    <3>2. \A q \in Deletes \cup Readers : pc'[q] = pc[q] /\ size'[q] = size[q]
      BY <2>0, <3>1 DEF TypeOK
    <3> QED
      BY <2>a, <3>1, <3>2
  <2>2. ASSUME NEW c \in Creates, Insert(c)
        PROVE  Sweeps'
    <3>1. /\ UNCHANGED <<results, todo, after, size, arg>> /\ Upsets(Scanning, "grew")
          /\ pc' = [pc EXCEPT ![c] = "created"]
      BY <2>2 DEF Insert
    <3>2. \A q \in Deletes \cup Readers : pc'[q] = pc[q]
      BY <2>0, <3>1 DEF TypeOK
    <3>3. \A q \in Deletes \cup Readers : upset'[q] = upset[q]
      BY <2>0, <3>1, UpsetsEffect
    <3> QED
      BY <2>a, <3>1, <3>2, <3>3
  <2>3. ASSUME NEW d \in Deletes, NEW t \in Creates, RemoveRow(d, t)
        PROVE  Sweeps'
    <3>1. /\ UNCHANGED <<results, todo, after, size>>
          /\ Upsets(Scanning, "shrank") \/ upset' = upset
          /\ pc' = [pc EXCEPT ![d] = "removed"] /\ arg' = [arg EXCEPT ![d] = t]
      BY <2>3 DEF RemoveRow
    <3>2. \A q \in Deletes \cup Readers : upset'[q] = upset[q]
      BY <2>0, <3>1, UpsetsEffect
    <3>3. ASSUME NEW e \in Deletes
          PROVE  Deletion(e)'
      <4>1. CASE e = d
        <5>1. pc'[d] = "removed"
          BY <2>0, <3>1 DEF TypeOK
        <5> QED
          BY <4>1, <5>1 DEF Deletion
      <4>2. CASE e # d
        BY <2>0, <3>1, <3>2, <4>2, DeletionKept DEF Sweeps, TypeOK
      <4> QED
        BY <4>1, <4>2
    <3>4. ASSUME NEW r \in Readers
          PROVE  Listing(r)'
      BY <2>0, <3>1, <3>2, ListingKept DEF Sweeps, TypeOK
    <3> QED
      BY <3>3, <3>4 DEF Sweeps
  <2>4. ASSUME NEW d \in Deletes, SnapshotKeys(d) \/ SweepEnds(d)
        PROVE  Sweeps'
    <3>1. UNCHANGED <<results, after, size, upset, arg>>
      BY <2>4 DEF SnapshotKeys, SweepEnds, store, history
    <3>2. \A q \in Deletes \cup Readers : q # d => pc'[q] = pc[q]
      BY <2>0, <2>4 DEF SnapshotKeys, SweepEnds, TypeOK
    <3>3. \A e \in Deletes : e # d => todo'[e] = todo[e]
      BY <2>4 DEF SnapshotKeys, SweepEnds, TypeOK
    <3>4. ASSUME NEW e \in Deletes
          PROVE  Deletion(e)'
      <4>1. CASE e = d /\ SnapshotKeys(d)
        <5>1. pc'[d] = "sweeping" /\ todo'[d] = Stored
          BY <2>0, <4>1 DEF SnapshotKeys, TypeOK
        <5> QED
          BY <3>1, <4>1, <5>1 DEF Deletion, Stored
      <4>2. CASE e = d /\ SweepEnds(d)
        <5>1. pc[d] = "sweeping" /\ pc'[d] = "deleted" /\ todo[d] = {} /\ Deletion(d)
          BY <2>0, <4>2 DEF SweepEnds, TypeOK, Sweeps
        <5> QED
          BY <3>1, <4>2, <5>1 DEF Deletion, Stored
      <4>3. CASE e # d
        BY <3>1, <3>2, <3>3, <4>3, DeletionKept DEF Sweeps
      <4> QED
        BY <2>4, <4>1, <4>2, <4>3
    <3>5. ASSUME NEW r \in Readers
          PROVE  Listing(r)'
      BY <2>0, <3>1, <3>2, ListingKept DEF Sweeps
    <3> QED
      BY <3>4, <3>5 DEF Sweeps
  <2>5. ASSUME NEW u \in Runs, NEW t \in Creates, PostRun(u, t)
        PROVE  Sweeps'
    <3>1. /\ UNCHANGED <<results, todo, after, size, upset>>
          /\ pc' = [pc EXCEPT ![u] = "running"] /\ arg' = [arg EXCEPT ![u] = t]
      BY <2>5 DEF PostRun, store, history
    <3>2. /\ \A q \in Deletes \cup Readers : pc'[q] = pc[q]
          /\ \A d \in Deletes : arg'[d] = arg[d]
      BY <2>0, <3>1 DEF TypeOK
    <3> QED
      BY <2>a, <3>1, <3>2
  <2>6. ASSUME NEW r \in Readers, ReadBegins(r) \/ ReadEnds(r)
        PROVE  Sweeps'
    <3>1. /\ UNCHANGED <<results, todo, after, upset, arg>>
          /\ \E to, n : pc' = [pc EXCEPT ![r] = to] /\ size' = [size EXCEPT ![r] = n]
      BY <2>6 DEF ReadBegins, ReadEnds, store, history
    <3>2. \A q \in Deletes \cup Readers : q # r => pc'[q] = pc[q] /\ size'[q] = size[q]
      BY <2>0, <3>1 DEF TypeOK
    <3>3. ASSUME NEW d \in Deletes
          PROVE  Deletion(d)'
      BY <2>0, <3>1, <3>2, DeletionKept DEF Sweeps
    <3>4. ASSUME NEW q \in Readers
          PROVE  Listing(q)'
      <4>1. CASE q = r /\ ReadBegins(r)
        <5>1. pc'[r] = "reading" /\ size'[r] = Cardinality(Stored)
          BY <2>0, <4>1 DEF ReadBegins, TypeOK
        <5> QED
          BY <3>1, <4>1, <5>1 DEF Listing, Stored
      <4>2. CASE q = r /\ ReadEnds(r)
        <5>1. /\ pc[r] = "reading" /\ Listing(r)
              /\ \/ pc'[r] = "listed"
                 \/ pc'[r] = "failed" /\ (Cardinality(Stored) # size[r] \/ upset[r] # {})
          BY <2>0, <4>2 DEF ReadEnds, TypeOK, Sweeps
        <5> QED
          BY <3>1, <4>2, <5>1 DEF Listing
      <4>3. CASE q # r
        BY <2>0, <3>1, <3>2, <4>3, ListingKept DEF Sweeps
      <4> QED
        BY <2>6, <4>1, <4>2, <4>3
    <3> QED
      BY <3>3, <3>4 DEF Sweeps
  <2>7. CASE WalkStep \/ \E limit \in Limits : WalkBegins(limit)
    BY <2>7, <2>a DEF WalkStep, AskPage, LookUp, AnswerPage, WalkBegins, store, local, history
  <2>8. CASE UNCHANGED vars
    BY <2>8, <2>a DEF vars
  <2> QED
    BY <2>1, <2>2, <2>3, <2>4, <2>5, <2>6, <2>7, <2>8, SweepKeepsSweeps, WriteKeepsSweeps
       DEF Next, CreateStep, DeleteStep, RunStep, ReadStep
<1> QED
  BY <1>1, <1>2, StoreTypeCorrect, PTL DEF Spec

(* A DELETE that answered 204 has left no result row of its task but those *)
(* written since it took its copy of the keys.                             *)
THEOREM DeletesSweepClean == Spec => []SweptClean
<1>1. Sweeps => SweptClean
  BY DEF Sweeps, Deletion, SweptClean
<1> QED
  BY <1>1, SweepsInvariant, PTL

(* A request ends in 500 only if the dictionary it loops over changed.     *)
THEOREM FailuresRaced == Spec => []FailureHasRace
<1>1. Creations /\ Sweeps => FailureHasRace
  BY DEF Creations, Creation, Sweeps, Deletion, Listing, FailureHasRace, Threads
<1> QED
  BY <1>1, CreationsInvariant, SweepsInvariant, PTL

------------------------------------------------------------------------------
(* The walk over the pages.  A row that stayed is not overtaken: until it  *)
(* has been delivered its place is not below the cursor, as only the       *)
(* deletion of a smaller row lowers it.  A row that has been delivered is  *)
(* not met again: its place is below the cursor, as only the insertion of  *)
(* a smaller row raises it.                                                *)

Walking == walk.at \in {"asking", "filling"}
NoneWent(t) == \A g \in tour.gone : ~(g < t)
NoneCame(t) == \A c \in tour.came : ~(c < t)

NotYetBegun == walk.at \in {"absent", "idle"} => tour = NoTour /\ walk.cursor = 0

Ahead == Walking => /\ tour.stayed \subseteq Live
                    /\ \A t \in tour.stayed \ tour.once : NoneWent(t) => walk.cursor <= Place(t)

Behind == Walking => \A t \in tour.once : NoneCame(t) => Place(t) < walk.cursor

\* The page was cut when the rows stood where the cursor says.
OnPage ==
  walk.at = "filling" =>
    /\ walk.next = Last \/ walk.cursor <= walk.next
    /\ \A t \in tour.stayed : NoneWent(t) => \/ t \in tour.once \cup walk.got \cup walk.page
                                             \/ walk.next # Last /\ walk.next <= Place(t)
    /\ \A t \in walk.got \cup walk.page :
         NoneCame(t) => t \notin tour.once /\ (walk.next = Last \/ Place(t) < walk.next)

Tour == NotYetBegun /\ Ahead /\ Behind /\ OnPage /\ SlipsNeedChanges

(* Places: how they are bounded, and what moves them.                      *)
LEMMA PlaceBounds ==
  ASSUME Live \subseteq Creates
  PROVE  /\ \A t : Place(t) \in Nat
         /\ \A t \in Live : Place(t) < Cardinality(Live)
<1>1. IsFiniteSet(Live)
  BY CountRows
<1>2. ASSUME NEW t
      PROVE  Place(t) \in Nat
  <2>1. {x \in Live : x < t} \in SUBSET Live
    OBVIOUS
  <2> QED
    BY <1>1, <2>1, FS_Subset, FS_CardinalityType DEF Place
<1>3. ASSUME NEW t \in Live
      PROVE  Place(t) < Cardinality(Live)
  <2>1. t \in Nat
    BY StoreAssumption
  <2>2. {x \in Live : x < t} \in SUBSET (Live \ {t})
    BY <2>1
  <2>3. /\ IsFiniteSet(Live \ {t}) /\ Cardinality(Live \ {t}) = Cardinality(Live) - 1
    BY <1>1, FS_RemoveElement
  <2>4. Place(t) <= Cardinality(Live \ {t})
    BY <2>2, <2>3, FS_Subset DEF Place
  <2>5. Cardinality(Live) \in Nat
    BY <1>1, FS_CardinalityType
  <2> QED
    BY <1>2, <2>3, <2>4, <2>5
<1> QED
  BY <1>2, <1>3

LEMMA PlaceAfterInsert ==
  ASSUME Live \subseteq Creates, NEW c \in Creates, Live' = Live \cup {c}
  PROVE  \A t : /\ Place(t)' \in Nat /\ Place(t) <= Place(t)'
                /\ ~(c < t) => Place(t)' = Place(t)
<1> SUFFICES ASSUME NEW t
             PROVE  /\ Place(t)' \in Nat /\ Place(t) <= Place(t)'
                    /\ ~(c < t) => Place(t)' = Place(t)
  OBVIOUS
<1> DEFINE old == {x \in Live : x < t}
           new == {x \in Live' : x < t}
<1>1. Place(t) = Cardinality(old) /\ Place(t)' = Cardinality(new)
  BY DEF Place
<1>2. IsFiniteSet(Live') /\ new \in SUBSET Live'
  BY CountRows, FS_AddElement
<1>3. IsFiniteSet(new)
  BY <1>2, FS_Subset
<1>4. old \in SUBSET new /\ (~(c < t) => old = new)
  OBVIOUS
<1> HIDE DEF old, new
<1>5. Cardinality(old) <= Cardinality(new)
  BY <1>3, <1>4, FS_Subset
<1>6. Cardinality(new) \in Nat
  BY <1>3, <1>4, FS_Subset, FS_CardinalityType
<1> QED
  BY <1>1, <1>4, <1>5, <1>6

LEMMA PlaceAfterRemove ==
  ASSUME Live \subseteq Creates, NEW g, Live' = Live \ {g}
  PROVE  \A t : /\ Place(t)' \in Nat /\ Place(t)' <= Place(t)
                /\ ~(g < t) => Place(t)' = Place(t)
<1> SUFFICES ASSUME NEW t
             PROVE  /\ Place(t)' \in Nat /\ Place(t)' <= Place(t)
                    /\ ~(g < t) => Place(t)' = Place(t)
  OBVIOUS
<1> DEFINE old == {x \in Live : x < t}
           new == {x \in Live' : x < t}
<1>1. Place(t) = Cardinality(old) /\ Place(t)' = Cardinality(new)
  BY DEF Place
<1>2. IsFiniteSet(Live) /\ old \in SUBSET Live
  BY CountRows
<1>3. IsFiniteSet(old)
  BY <1>2, FS_Subset
<1>4. new \in SUBSET old /\ (~(g < t) => old = new)
  OBVIOUS
<1> HIDE DEF old, new
<1>5. Cardinality(new) <= Cardinality(old)
  BY <1>3, <1>4, FS_Subset
<1>6. Cardinality(new) \in Nat
  BY <1>3, <1>4, FS_Subset, FS_CardinalityType
<1> QED
  BY <1>1, <1>4, <1>5, <1>6

(* The numbers of the walk, as the type invariant has them.                *)
LEMMA WalkNumbers ==
  ASSUME TypeOK
  PROVE  /\ Live \subseteq Creates /\ Cardinality(Live) \in Nat
         /\ walk.cursor \in Nat /\ walk.limit \in Nat \ {0} /\ walk.next \in Nat \cup {Last}
         /\ walk.page \subseteq Creates /\ walk.got \subseteq Creates
         /\ tour.stayed \subseteq Creates /\ tour.once \subseteq Creates
         /\ tour.came \subseteq Creates /\ tour.gone \subseteq Creates
<1>1. Live \subseteq Creates
  BY DEF TypeOK
<1>2. Cardinality(Live) \in Nat /\ Cardinality(Creates) \in Nat
  BY <1>1, CountRows
<1>3. /\ walk.limit \in Limits \cup {1} /\ walk.cursor \in 0..Cardinality(Creates)
      /\ walk.next \in {Last} \cup 0..Cardinality(Creates)
      /\ walk.page \subseteq Creates /\ walk.got \subseteq Creates
  BY DEF TypeOK
<1>4. Limits \cup {1} \subseteq Nat \ {0} /\ 0..Cardinality(Creates) \subseteq Nat
  BY <1>2, StoreAssumption
<1>5. /\ tour.stayed \subseteq Creates /\ tour.once \subseteq Creates
      /\ tour.came \subseteq Creates /\ tour.gone \subseteq Creates
  BY DEF TypeOK
<1>6. walk.cursor \in Nat
  BY <1>3, <1>4, Zenon
<1>7. walk.limit \in Nat \ {0}
  BY <1>3, <1>4, Zenon
<1>8. walk.next \in Nat \cup {Last}
  BY <1>3, <1>4, Zenon
<1> QED
  BY <1>1, <1>2, <1>3, <1>5, <1>6, <1>7, <1>8

(* A creation pushes rows on: what was ahead of the cursor stays ahead, and *)
(* what it pushes across is larger than a row that came.                   *)
LEMMA InsertKeepsTour ==
  ASSUME TypeOK, Tour, NEW c \in Creates, Insert(c)
  PROVE  Tour'
<1>1. /\ Live' = Live \cup {c} /\ walk' = walk
      /\ tour' = IF Walking THEN [tour EXCEPT !.came = @ \cup {c}] ELSE tour
  BY RowInserted DEF Insert, Walking
<1>2. \A t : /\ Place(t)' \in Nat /\ Place(t) <= Place(t)'
             /\ ~(c < t) => Place(t)' = Place(t)
  <2>1. Live \subseteq Creates /\ Live' = Live \cup {c}
    BY <1>1, WalkNumbers
  <2> QED
    BY <2>1, PlaceAfterInsert, Zenon
<1>3. /\ \A t : Place(t) \in Nat /\ Place(t)' \in Nat
      /\ walk.cursor \in Nat /\ walk.next \in Nat \cup {Last}
  BY <1>2, WalkNumbers, PlaceBounds
<1>4. CASE ~Walking
  BY <1>1, <1>4 DEF Tour, NotYetBegun, Ahead, Behind, OnPage, SlipsNeedChanges, Walking
<1>5. CASE Walking
  <2>1. /\ tour'.stayed = tour.stayed /\ tour'.gone = tour.gone /\ tour'.once = tour.once
        /\ tour'.twice = tour.twice /\ tour'.came = tour.came \cup {c}
    BY <1>1, <1>5 DEF TypeOK
  <2>2. \A t : /\ NoneWent(t)' <=> NoneWent(t)
               /\ NoneCame(t)' => NoneCame(t) /\ Place(t)' = Place(t)
    BY <1>2, <2>1 DEF NoneWent, NoneCame
  <2>3. Ahead'
    <3> SUFFICES ASSUME NEW t \in tour.stayed \ tour.once, NoneWent(t)
                 PROVE  walk.cursor <= Place(t)'
      BY <1>1, <1>5, <2>1, <2>2 DEF Tour, Ahead, Walking
    <3>1. walk.cursor <= Place(t) /\ Place(t) <= Place(t)'
      BY <1>2, <1>5 DEF Tour, Ahead
    <3> QED
      BY <1>3, <3>1
  <2>4. Behind'
    BY <1>1, <1>5, <2>1, <2>2 DEF Tour, Behind, Walking
  <2>5. OnPage'
    <3> SUFFICES ASSUME walk.at = "filling"
                 PROVE  /\ walk.next = Last \/ walk.cursor <= walk.next
                        /\ \A t \in tour.stayed :
                             NoneWent(t) => \/ t \in tour.once \cup walk.got \cup walk.page
                                            \/ walk.next # Last /\ walk.next <= Place(t)'
                        /\ \A t \in walk.got \cup walk.page :
                             NoneCame(t) /\ Place(t)' = Place(t)
                               => t \notin tour.once /\ (walk.next = Last \/ Place(t)' < walk.next)
      BY <1>1, <2>1, <2>2 DEF OnPage
    <3>1. ASSUME NEW t \in tour.stayed, NoneWent(t)
          PROVE  \/ t \in tour.once \cup walk.got \cup walk.page
                 \/ walk.next # Last /\ walk.next <= Place(t)'
      <4>1. CASE walk.next # Last /\ walk.next <= Place(t)
        <5>1. walk.next \in Nat /\ Place(t) \in Nat /\ Place(t)' \in Nat /\ Place(t) <= Place(t)'
          BY <1>2, <1>3, <4>1
        <5> QED
          BY <4>1, <5>1
      <4> QED
        BY <3>1, <4>1 DEF Tour, OnPage
    <3> QED
      BY <3>1 DEF Tour, OnPage
  <2>6. NotYetBegun' /\ SlipsNeedChanges'
    BY <1>1, <1>5, <2>1 DEF Tour, NotYetBegun, SlipsNeedChanges, Walking
  <2> QED
    BY <2>3, <2>4, <2>5, <2>6 DEF Tour
<1> QED
  BY <1>4, <1>5

(* A deletion pulls rows back: what was delivered stays behind the cursor, *)
(* and what it pulls across is larger than a row that went.                *)
LEMMA RemoveKeepsTour ==
  ASSUME TypeOK, Tour, NEW d \in Deletes, NEW g \in Creates, RemoveRow(d, g)
  PROVE  Tour'
<1>1. /\ Live' = Live \ {g} /\ walk' = walk
      /\ tour' = IF g \in Live /\ Walking THEN [tour EXCEPT !.gone = @ \cup {g}, !.stayed = @ \ {g}]
                 ELSE tour
  BY RowRemoved DEF RemoveRow, Walking
<1>2. \A t : /\ Place(t)' \in Nat /\ Place(t)' <= Place(t)
             /\ ~(g < t) => Place(t)' = Place(t)
  <2>1. Live \subseteq Creates /\ Live' = Live \ {g}
    BY <1>1, WalkNumbers
  <2> QED
    BY <2>1, PlaceAfterRemove, Zenon
<1>3. /\ \A t : Place(t) \in Nat /\ Place(t)' \in Nat
      /\ walk.cursor \in Nat /\ walk.next \in Nat \cup {Last}
  BY <1>2, WalkNumbers, PlaceBounds
<1>4. CASE ~Walking
  BY <1>1, <1>4 DEF Tour, NotYetBegun, Ahead, Behind, OnPage, SlipsNeedChanges, Walking
<1>5. CASE g \notin Live
  <2>1. Live' = Live /\ walk' = walk /\ tour' = tour
    BY <1>1, <1>5
  <2>2. \A t : Place(t)' = Place(t)
    BY <2>1 DEF Place
  <2> QED
    BY <2>1, <2>2 DEF Tour, NotYetBegun, Ahead, Behind, OnPage, SlipsNeedChanges, Walking,
                      NoneWent, NoneCame
<1>6. CASE g \in Live /\ Walking
  <2>1. /\ tour'.stayed = tour.stayed \ {g} /\ tour'.gone = tour.gone \cup {g}
        /\ tour'.once = tour.once /\ tour'.twice = tour.twice /\ tour'.came = tour.came
    BY <1>1, <1>6 DEF TypeOK
  <2>2. \A t : /\ NoneCame(t)' <=> NoneCame(t)
               /\ NoneWent(t)' => NoneWent(t) /\ Place(t)' = Place(t)
    BY <1>2, <2>1 DEF NoneWent, NoneCame
  <2>3. Ahead'
    BY <1>1, <1>6, <2>1, <2>2 DEF Tour, Ahead, Walking
  <2>4. Behind'
    <3> SUFFICES ASSUME NEW t \in tour.once, NoneCame(t)
                 PROVE  Place(t)' < walk.cursor
      BY <1>1, <1>6, <2>1, <2>2 DEF Tour, Behind, Walking
    <3>1. Place(t) < walk.cursor /\ Place(t)' <= Place(t)
      BY <1>2, <1>6 DEF Tour, Behind
    <3> QED
      BY <1>3, <3>1
  <2>5. OnPage'
    <3> SUFFICES ASSUME walk.at = "filling"
                 PROVE  /\ walk.next = Last \/ walk.cursor <= walk.next
                        /\ \A t \in tour.stayed :
                             NoneWent(t) /\ Place(t)' = Place(t)
                               => \/ t \in tour.once \cup walk.got \cup walk.page
                                  \/ walk.next # Last /\ walk.next <= Place(t)'
                        /\ \A t \in walk.got \cup walk.page :
                             NoneCame(t)
                               => t \notin tour.once /\ (walk.next = Last \/ Place(t)' < walk.next)
      BY <1>1, <2>1, <2>2 DEF OnPage
    <3>1. ASSUME NEW t \in walk.got \cup walk.page, NoneCame(t)
          PROVE  t \notin tour.once /\ (walk.next = Last \/ Place(t)' < walk.next)
      <4>1. CASE walk.next # Last
        <5>1. walk.next \in Nat /\ Place(t) \in Nat /\ Place(t)' \in Nat /\ Place(t)' <= Place(t)
          BY <1>2, <1>3, <4>1
        <5>2. t \notin tour.once /\ Place(t) < walk.next
          BY <3>1, <4>1 DEF Tour, OnPage
        <5> QED
          BY <5>1, <5>2
      <4> QED
        BY <3>1, <4>1 DEF Tour, OnPage
    <3> QED
      BY <3>1 DEF Tour, OnPage
  <2>6. NotYetBegun' /\ SlipsNeedChanges'
    BY <1>1, <1>6, <2>1 DEF Tour, NotYetBegun, SlipsNeedChanges, Walking
  <2> QED
    BY <2>3, <2>4, <2>5, <2>6 DEF Tour
<1> QED
  BY <1>4, <1>5, <1>6

(* Of a page that is cut, every row at or past the cursor is on it or      *)
(* stands at or past the next cursor.                                      *)
LEMMA AskPageKeepsTour ==
  ASSUME TypeOK, Tour, AskPage
  PROVE  Tour'
<1> DEFINE n == Cardinality(Live)
           end == Smaller(walk.cursor + walk.limit, n)
<1>1. /\ walk.at = "asking" /\ Live' = Live /\ tour' = tour
      /\ walk'.at = "filling" /\ walk'.cursor = walk.cursor /\ walk'.got = {}
      /\ walk'.page = {t \in Live : Place(t) \in walk.cursor..(end - 1)}
      /\ walk'.next = NextCursor(end, n)
  BY DEF AskPage, TypeOK, store, history, Live
<1>2. /\ n \in Nat /\ walk.cursor \in Nat /\ walk.limit \in Nat \ {0}
      /\ \A t : Place(t) \in Nat
      /\ \A t \in Live : Place(t) < n
  BY WalkNumbers, PlaceBounds
<1>3. \A t : Place(t)' = Place(t)
  BY <1>1 DEF Place
<1>4. /\ end \in Nat /\ end <= n
      /\ end < n => walk.cursor <= end
      /\ walk'.next = IF end < n THEN end ELSE Last
  BY <1>1, <1>2 DEF Smaller, NextCursor
<1> HIDE DEF n, end
<1>5. Walking /\ Walking'
  BY <1>1 DEF Walking
<1>6. NotYetBegun' /\ SlipsNeedChanges'
  BY <1>1, <1>5 DEF Tour, NotYetBegun, SlipsNeedChanges, Walking
<1>7. Ahead' /\ Behind'
  BY <1>1, <1>3, <1>5 DEF Tour, Ahead, Behind, NoneWent, NoneCame
<1>8. OnPage'
  <2>1. walk'.next = Last \/ walk'.cursor <= walk'.next
    BY <1>1, <1>4
  <2>2. ASSUME NEW t \in tour.stayed, NoneWent(t)
        PROVE  t \in tour.once \cup walk'.page \/ (walk'.next # Last /\ walk'.next <= Place(t))
    <3>1. CASE t \notin tour.once /\ t \notin walk'.page
      <4>1. t \in Live /\ walk.cursor <= Place(t)
        BY <1>5, <2>2, <3>1 DEF Tour, Ahead
      <4>2. end <= Place(t) /\ Place(t) < n
        BY <1>1, <1>2, <1>4, <3>1, <4>1
      <4> QED
        BY <1>2, <1>4, <4>2 DEF Last
    <3> QED
      BY <3>1
  <2>3. ASSUME NEW t \in walk'.page, NoneCame(t)
        PROVE  t \notin tour.once /\ (walk'.next = Last \/ Place(t) < walk'.next)
    <3>1. walk.cursor <= Place(t) /\ Place(t) < end
      BY <1>1, <1>2, <1>4, <2>3
    <3>2. t \in tour.once => Place(t) < walk.cursor
      BY <1>5, <2>3 DEF Tour, Behind
    <3> QED
      BY <1>2, <1>4, <3>1, <3>2
  <2> QED
    BY <1>1, <1>3, <2>1, <2>2, <2>3 DEF OnPage, NoneWent, NoneCame
<1> QED
  BY <1>6, <1>7, <1>8 DEF Tour

(* A row is found, or is missing and the page is asked for again.          *)
LEMMA LookUpKeepsTour ==
  ASSUME TypeOK, Tour, LookUp
  PROVE  Tour'
<1>1. /\ walk.at = "filling" /\ Live' = Live /\ tour' = tour /\ walk'.cursor = walk.cursor
      /\ \/ walk'.at = "asking"
         \/ /\ walk'.at = "filling" /\ walk'.next = walk.next
            /\ walk'.got \cup walk'.page = walk.got \cup walk.page
  BY DEF LookUp, TypeOK, store, history, Live
<1>2. \A t : Place(t)' = Place(t)
  BY <1>1 DEF Place
<1>3. Walking /\ Walking'
  BY <1>1 DEF Walking
<1>4. NotYetBegun' /\ SlipsNeedChanges'
  BY <1>1, <1>3 DEF Tour, NotYetBegun, SlipsNeedChanges, Walking
<1>5. Ahead' /\ Behind'
  BY <1>1, <1>2, <1>3 DEF Tour, Ahead, Behind, NoneWent, NoneCame
<1>6. OnPage'
  BY <1>1, <1>2 DEF Tour, OnPage, NoneWent, NoneCame
<1> QED
  BY <1>4, <1>5, <1>6 DEF Tour

(* The page is delivered and the cursor moves to where it was cut.         *)
LEMMA AnswerPageKeepsTour ==
  ASSUME TypeOK, Tour, AnswerPage
  PROVE  Tour'
<1>1. /\ walk.at = "filling" /\ walk.page = {} /\ Live' = Live
      /\ walk'.at = IF walk.next = Last THEN "done" ELSE "asking"
      /\ walk.next # Last => walk'.cursor = walk.next
      /\ tour'.stayed = tour.stayed /\ tour'.gone = tour.gone /\ tour'.came = tour.came
      /\ tour'.once = tour.once \cup walk.got
      /\ tour'.twice = tour.twice \cup (tour.once \cap walk.got)
  BY DEF AnswerPage, TypeOK, store, Live
<1>2. \A t : /\ Place(t)' = Place(t)
             /\ NoneWent(t)' <=> NoneWent(t)
             /\ NoneCame(t)' <=> NoneCame(t)
  BY <1>1 DEF Place, NoneWent, NoneCame
<1>3. \A t \in tour.stayed :
        NoneWent(t) => t \in tour'.once \/ (walk.next # Last /\ walk.next <= Place(t))
  BY <1>1 DEF Tour, OnPage
<1>4. \A t \in walk.got : NoneCame(t) => t \notin tour.once /\ (walk.next = Last \/ Place(t) < walk.next)
  BY <1>1 DEF Tour, OnPage
<1>5. SlipsNeedChanges'
  <2>1. ASSUME walk'.at = "done", NEW t \in tour'.stayed \ tour'.once
        PROVE  \E g \in tour'.gone : g < t
    BY <1>1, <1>3, <2>1 DEF NoneWent
  <2>2. ASSUME NEW t \in tour'.twice
        PROVE  \E c \in tour'.came : c < t
    BY <1>1, <1>4, <2>2 DEF Tour, SlipsNeedChanges, NoneCame
  <2> QED
    BY <2>1, <2>2 DEF SlipsNeedChanges
<1>6. NotYetBegun' /\ OnPage'
  BY <1>1 DEF NotYetBegun, OnPage
<1>7. Ahead'
  BY <1>1, <1>2, <1>3 DEF Tour, Ahead, Walking
<1>8. Behind'
  <2> SUFFICES ASSUME walk.next # Last, NEW t \in tour.once \cup walk.got, NoneCame(t)
               PROVE  Place(t) < walk.next
    BY <1>1, <1>2 DEF Behind, Walking
  <2>1. CASE t \in walk.got
    BY <1>4, <2>1
  <2>2. CASE t \in tour.once
    <3>1. Place(t) < walk.cursor /\ walk.cursor <= walk.next
      BY <1>1, <2>2 DEF Tour, Behind, OnPage, Walking
    <3>2. walk.cursor \in Nat /\ walk.next \in Nat
      BY WalkNumbers
    <3>3. Place(t) \in Nat
      BY WalkNumbers, PlaceBounds
    <3> QED
      BY <3>1, <3>2, <3>3
  <2> QED
    BY <2>1, <2>2
<1> QED
  BY <1>5, <1>6, <1>7, <1>8 DEF Tour

LEMMA WalkBeginsKeepsTour ==
  ASSUME TypeOK, Tour, NEW limit \in Limits, WalkBegins(limit)
  PROVE  Tour'
<1>1. /\ walk.at = "idle" /\ walk'.at = "asking" /\ walk'.cursor = 0 /\ Live' = Live
      /\ tour' = [NoTour EXCEPT !.stayed = Live]
  BY DEF WalkBegins, TypeOK, Tour, NotYetBegun, store, Live
<1>2. tour'.stayed = Live /\ tour'.once = {} /\ tour'.twice = {}
  BY <1>1 DEF NoTour
<1>3. \A t : Place(t)' = Place(t) /\ Place(t) \in Nat
  BY <1>1, WalkNumbers, PlaceBounds DEF Place
<1> QED
  BY <1>1, <1>2, <1>3 DEF Tour, NotYetBegun, Ahead, Behind, OnPage, SlipsNeedChanges

LEMMA TourKept ==
  ASSUME Tour, UNCHANGED <<rows, walk, tour>>
  PROVE  Tour'
<1>1. Live' = Live /\ walk' = walk /\ tour' = tour
  BY DEF Live
<1>2. \A t : Place(t)' = Place(t)
  BY <1>1 DEF Place
<1> QED
  BY <1>1, <1>2 DEF Tour, NotYetBegun, Ahead, Behind, OnPage, SlipsNeedChanges, Walking,
                    NoneWent, NoneCame

LEMMA TourInvariant == Spec => []Tour
<1>1. Init => Tour
  BY DEF Init, Tour, NotYetBegun, Ahead, Behind, OnPage, SlipsNeedChanges, Walking, NoTour, NoWalk
<1>2. ASSUME TypeOK, Tour, [Next]_vars
      PROVE  Tour'
  <2> USE <1>2
  <2>1. ASSUME NEW c \in Creates, ScanBegins(c) \/ ScanEnds(c)
        PROVE  Tour'
    BY <2>1, TourKept DEF ScanBegins, ScanEnds, store, history
  <2>2. ASSUME NEW c \in Creates, Insert(c)
        PROVE  Tour'
    BY <2>2, InsertKeepsTour
  <2>3. ASSUME NEW d \in Deletes, NEW t \in Creates, RemoveRow(d, t)
        PROVE  Tour'
    BY <2>3, RemoveKeepsTour
  <2>4. ASSUME NEW d \in Deletes, SnapshotKeys(d) \/ SweepEnds(d) \/ \E u \in Runs : Sweep(d, u)
        PROVE  Tour'
    BY <2>4, TourKept DEF SnapshotKeys, SweepEnds, Sweep, store, history
  <2>5. ASSUME NEW u \in Runs, RunStep(u)
        PROVE  Tour'
    BY <2>5, TourKept DEF RunStep, WriteResult, PostRun, store, history
  <2>6. ASSUME NEW r \in Readers, ReadStep(r)
        PROVE  Tour'
    BY <2>6, TourKept DEF ReadStep, ReadBegins, ReadEnds, store, history
  <2>7. ASSUME NEW limit \in Limits, WalkBegins(limit)
        PROVE  Tour'
    BY <2>7, WalkBeginsKeepsTour
  <2>8. CASE WalkStep
    BY <2>8, AskPageKeepsTour, LookUpKeepsTour, AnswerPageKeepsTour DEF WalkStep
  <2>9. CASE UNCHANGED vars
    BY <2>9, TourKept DEF vars
  <2> QED
    BY <2>1, <2>2, <2>3, <2>4, <2>5, <2>6, <2>7, <2>8, <2>9
       DEF Next, CreateStep, DeleteStep
<1> QED
  BY <1>1, <1>2, StoreTypeCorrect, PTL DEF Spec

(* A client that reads all pages misses a task that stayed only if a task  *)
(* with a smaller identifier was deleted meanwhile, and is given a task    *)
(* twice only if one with a smaller identifier was created meanwhile.      *)
THEOREM PagesSlipByChanges == Spec => []SlipsNeedChanges
<1>1. Tour => SlipsNeedChanges
  BY DEF Tour
<1> QED
  BY <1>1, TourInvariant, PTL

------------------------------------------------------------------------------
(* The part of PageWalkEnds that needs no fairness: a walk cannot go round *)
(* in circles.                                                             *)
Onward == walk.at = "filling" => walk.next = Last \/ walk.next > walk.cursor

LEMMA OnwardNext == TypeOK /\ Onward /\ [Next]_vars => Onward'
<1> SUFFICES ASSUME TypeOK, Onward, [Next]_vars PROVE Onward'
  OBVIOUS
<1>1. CASE UNCHANGED walk
  BY <1>1 DEF Onward
<1>2. CASE AskPage
  <2> DEFINE n == Cardinality(Live)
             end == Smaller(walk.cursor + walk.limit, n)
  <2>1. walk'.cursor = walk.cursor /\ walk'.next = IF end < n THEN end ELSE Last
    BY <1>2 DEF AskPage, TypeOK, NextCursor
  <2>2. n \in Nat /\ walk.cursor \in Nat /\ walk.limit \in Nat \ {0}
    BY WalkNumbers
  <2> HIDE DEF n
  <2>3. end < n => end > walk.cursor
    BY <2>2 DEF Smaller
  <2> QED
    BY <2>1, <2>3 DEF Onward
<1>3. CASE LookUp
  <2>1. \/ walk'.at = "asking"
        \/ walk'.cursor = walk.cursor /\ walk'.next = walk.next /\ walk'.at = walk.at
    BY <1>3 DEF LookUp, TypeOK
  <2> QED
    BY <2>1 DEF Onward
<1>4. CASE AnswerPage
  BY <1>4 DEF AnswerPage, TypeOK, Onward
<1>5. ASSUME NEW limit \in Limits, WalkBegins(limit) PROVE Onward'
  BY <1>5 DEF WalkBegins, TypeOK, Onward
<1>6. UNCHANGED walk \/ AskPage \/ LookUp \/ AnswerPage \/ \E limit \in Limits : WalkBegins(limit)
  BY DEF Next, CreateStep, DeleteStep, RunStep, ReadStep, WalkStep, ScanBegins, ScanEnds, Insert,
         RemoveRow, SnapshotKeys, SweepEnds, Sweep, WriteResult, PostRun, ReadBegins, ReadEnds,
         vars
<1> QED
  BY <1>1, <1>2, <1>3, <1>4, <1>5, <1>6

(* Every page that is answered is the last or moves the cursor on, and     *)
(* nothing else moves it, whatever is created and deleted meanwhile: only  *)
(* a page that failed is asked for again.                                  *)
THEOREM CursorMovesOn ==
  Spec => [][/\ AnswerPage => walk'.at = "done" \/ walk'.cursor > walk.cursor
             /\ walk'.cursor # walk.cursor => AnswerPage]_vars
<1>1. ASSUME TypeOK, Onward, [Next]_vars
      PROVE  [/\ AnswerPage => walk'.at = "done" \/ walk'.cursor > walk.cursor
              /\ walk'.cursor # walk.cursor => AnswerPage]_vars
  <2> USE <1>1
  <2>1. AnswerPage => walk'.at = "done" \/ walk'.cursor > walk.cursor
    BY DEF AnswerPage, TypeOK, Onward
  <2>2. walk'.cursor # walk.cursor => AnswerPage
    BY DEF Next, CreateStep, DeleteStep, RunStep, ReadStep, WalkStep, ScanBegins, ScanEnds, Insert,
           RemoveRow, SnapshotKeys, SweepEnds, Sweep, WriteResult, PostRun, ReadBegins, ReadEnds,
           AskPage, LookUp, WalkBegins, TypeOK, vars
  <2> QED
    BY <2>1, <2>2
<1>2. Init => Onward
  BY DEF Init, Onward, NoWalk
<1> QED
  BY <1>1, <1>2, OnwardNext, StoreTypeCorrect, PTL DEF Spec
==============================================================================
