------------------------------ MODULE TaskStore ------------------------------
(***************************************************************************)
(* The in-memory task store (repository/task_repo.py) under the handlers   *)
(* of api/tasks.py.  The handlers of POST, GET and DELETE are plain        *)
(* functions, so each request runs in a thread of the server's pool; POST  *)
(* .../run and the result rows of finished runs come from the event loop.  *)
(* Nothing locks the two dictionaries.                                     *)
(*                                                                         *)
(* An action is a stretch of a handler without a point at which CPython    *)
(* 3.11 switches threads: a dictionary operation, sorted(d.keys()) and     *)
(* list(d.keys()) are such stretches, a loop of Python code is not.  A     *)
(* loop over a dictionary raises RuntimeError at its next step if the      *)
(* dictionary's size is not the one it started with; if the size is the    *)
(* same again, entries may have moved and be missed, or the loop meets one *)
(* more than it counted on, which is a RuntimeError, too.  app.py answers  *)
(* 500 to every exception the handler does not name.                       *)
(*                                                                         *)
(* An identifier is a uuid4: its place in the order of identifiers tells   *)
(* nothing of when it was made.  Here POST request c inserts the row c and *)
(* the requests arrive in any order.                                       *)
(***************************************************************************)
EXTENDS Integers, FiniteSets

CONSTANTS
  Creates,   (* POST /v1/tasks: the requests, and the rows they insert      *)
  NameOf,    (* the name each of them asks for                              *)
  Deletes,   (* DELETE /v1/tasks/{id}                                       *)
  Readers,   (* GET /v1/tasks/{id}/runs                                     *)
  Runs,      (* the runs that may be accepted                               *)
  Limits,    (* the page sizes the client of GET /v1/tasks may ask for      *)
  Workloads  (* bound: which of these, and of Pages, are made together    *)

ASSUME StoreAssumption ==
  /\ Creates \subseteq Nat \ {0} /\ IsFiniteSet(Creates)
  /\ IsFiniteSet(Runs)
  /\ DOMAIN NameOf = Creates
  /\ Creates \cap Deletes = {} /\ Creates \cap Readers = {} /\ Deletes \cap Readers = {}
  /\ Runs \cap (Creates \cup Deletes \cup Readers) = {}
  /\ Limits \subseteq Nat \ {0}

Threads == Creates \cup Deletes \cup Readers
Actors == Threads \cup Runs

VARIABLES
  rows,      (* rows[t]: the name of the task t, for the tasks that exist   *)
  results,   (* results[u]: the task of the run u, for the runs that have a *)
             (* result row                                                  *)
  pc,        (* pc[q]: where the request or run q stands                    *)
  arg,       (* arg[q]: the task that DELETE or run q is about              *)
  size,      (* size[q]: len() of the dictionary q loops over               *)
  todo,      (* todo[d]: the keys DELETE d has yet to look at               *)
  walk,      (* the client that reads all pages of GET /v1/tasks            *)
  upset,     (* upset[q]: what happened to the keys q loops over or holds:  *)
             (* others made it grow, or shrink                              *)
  between,   (* history: <<x, c>>: c was inserted between the check and the *)
             (* insertion of x                                              *)
  after,     (* history: after[d]: result rows written since the snapshot   *)
             (* of d                                                        *)
  tour       (* history of the walk: the rows that were there throughout,   *)
             (* the rows that came or went, those delivered once and twice  *)

store == <<rows, results>>
local == <<pc, arg, size, todo>>
history == <<upset, between, after, tour>>
vars == <<rows, results, pc, arg, size, todo, walk, upset, between, after, tour>>

None == 0
Pages == -2
Last == -1
NoTour == [stayed |-> {}, came |-> {}, gone |-> {}, once |-> {}, twice |-> {}]
NoWalk == [at |-> "idle", limit |-> 1, cursor |-> 0, next |-> 0, page |-> {}, got |-> {}]

Live == DOMAIN rows
Stored == DOMAIN results

Without(f, k) == [x \in DOMAIN f \ {k} |-> f[x]]
With(f, k, v) == [x \in DOMAIN f \cup {k} |-> IF x = k THEN v ELSE f[x]]

Init == /\ rows = <<>> /\ results = <<>>
        /\ \E W \in Workloads :
             /\ pc = [q \in Actors |-> IF q \in W THEN "idle" ELSE "absent"]
             /\ walk = IF Pages \in W THEN NoWalk ELSE [NoWalk EXCEPT !.at = "absent"]
        /\ arg = [q \in Deletes \cup Runs |-> None]
        /\ size = [q \in Threads |-> 0]
        /\ todo = [d \in Deletes |-> {}]
        /\ upset = [q \in Threads |-> {}]
        /\ between = {}
        /\ after = [d \in Deletes |-> {}]
        /\ tour = NoTour

Moves(q, from, to) == pc[q] = from /\ pc' = [pc EXCEPT ![q] = to]

Upsets(Q, how) == upset' = [q \in Threads |-> IF q \in Q THEN upset[q] \cup {how} ELSE upset[q]]

Scanning == {c \in Creates : pc[c] = "scanning"}
Reading == {r \in Readers : pc[r] = "reading"}

------------------------------------------------------------------------------
(* POST /v1/tasks: any(... for r in rows.values()), then the insertion.    *)

ScanBegins(c) ==
  /\ Moves(c, "idle", "scanning")
  /\ size' = [size EXCEPT ![c] = Cardinality(Live)]
  /\ UNCHANGED <<store, arg, todo, walk, history>>

\* Mutant: the exception of the loop is taken for "no such name".
ScanSwallows(c) ==
  /\ \/ \A t \in Live : rows[t] # NameOf[c]
     \/ Cardinality(Live) # size[c]
     \/ upset[c] # {}
  /\ Moves(c, "scanning", "checked")
  /\ size' = [size EXCEPT ![c] = 0]
  /\ UNCHANGED <<store, arg, todo, walk, history>>

(* The step of the loop that decides: it meets the name (422), it finds    *)
(* the dictionary of another size, or an entry after the last (500), or it *)
(* has passed the last row.                                                *)
ScanEnds(c) ==
  /\ \/ /\ Cardinality(Live) # size[c] \/ upset[c] # {}
        /\ Moves(c, "scanning", "failed")
     \/ /\ Cardinality(Live) = size[c]
        /\ \E t \in Live : rows[t] = NameOf[c]
        /\ Moves(c, "scanning", "refused")
     \/ /\ Cardinality(Live) = size[c]
        /\ upset[c] # {} \/ \A t \in Live : rows[t] # NameOf[c]
        /\ Moves(c, "scanning", "checked")
  /\ size' = [size EXCEPT ![c] = 0]
  /\ UNCHANGED <<store, arg, todo, walk, history>>

Insert(c) ==
  /\ Moves(c, "checked", "created")
  /\ rows' = With(rows, c, NameOf[c])
  /\ Upsets(Scanning, "grew")
  /\ between' = between \cup {<<x, c>> : x \in {y \in Creates \ {c} : pc[y] = "checked"}}
  /\ tour' = IF walk.at \in {"asking", "filling"} THEN [tour EXCEPT !.came = @ \cup {c}] ELSE tour
  /\ UNCHANGED <<results, arg, size, todo, walk, after>>

------------------------------------------------------------------------------
(* DELETE /v1/tasks/{id}: the row, then a sweep over a copy of the keys of *)
(* all results, those of other tasks included.                             *)

\* Mutant: a DELETE that finds no row returns at once.
RemoveRowIfThere(d, t) ==
  /\ Moves(d, "idle", IF t \in Live THEN "removed" ELSE "deleted")
  /\ arg' = [arg EXCEPT ![d] = t]
  /\ rows' = Without(rows, t)
  /\ UNCHANGED <<results, size, todo, walk, history>>

RemoveRow(d, t) ==
  /\ Moves(d, "idle", "removed")
  /\ arg' = [arg EXCEPT ![d] = t]
  /\ rows' = Without(rows, t)
  /\ IF t \in Live /\ walk.at \in {"asking", "filling"}
     THEN tour' = [tour EXCEPT !.gone = @ \cup {t}, !.stayed = @ \ {t}]
     ELSE UNCHANGED tour
  /\ IF t \in Live THEN Upsets(Scanning, "shrank") ELSE UNCHANGED upset
  /\ UNCHANGED <<results, size, todo, walk, between, after>>

SnapshotKeys(d) ==
  /\ Moves(d, "removed", "sweeping")
  /\ todo' = [todo EXCEPT ![d] = Stored]
  /\ UNCHANGED <<store, arg, size, walk, history>>

\* Mutant: the loop runs over the dictionary itself, not over a copy.
SweepLive(d, k) ==
  /\ k \in todo[d]
  /\ IF k \in Stored /\ results[k] = arg[d]
     THEN results' = Without(results, k) /\ Moves(d, "sweeping", "failed")
     ELSE UNCHANGED results /\ Moves(d, "sweeping", "sweeping")
  /\ todo' = [todo EXCEPT ![d] = @ \ {k}]
  /\ UNCHANGED <<rows, arg, size, walk, history>>

(* One key of the copy.  A key that another DELETE has removed meanwhile   *)
(* is a KeyError, which ends the sweep.  (Its look-up and its removal are  *)
(* two operations; the one that finds it gone decides.)                    *)
Sweep(d, k) ==
  /\ k \in todo[d]
  /\ todo' = [todo EXCEPT ![d] = IF k \in Stored THEN @ \ {k} ELSE {}]
  /\ \/ k \notin Stored /\ Moves(d, "sweeping", "failed") /\ UNCHANGED <<results, upset>>
     \/ /\ k \in Stored /\ results[k] # arg[d]
        /\ Moves(d, "sweeping", "sweeping") /\ UNCHANGED <<results, upset>>
     \/ /\ k \in Stored /\ results[k] = arg[d]
        /\ Moves(d, "sweeping", "sweeping")
        /\ results' = Without(results, k)
        /\ Upsets(Reading \cup {e \in Deletes \ {d} : k \in todo[e]}, "shrank")
  /\ UNCHANGED <<rows, arg, size, walk, between, after, tour>>

\* 204, whether the task existed or not.
SweepEnds(d) ==
  /\ todo[d] = {}
  /\ Moves(d, "sweeping", "deleted")
  /\ UNCHANGED <<store, arg, size, todo, walk, history>>

------------------------------------------------------------------------------
(* Runs, and GET /v1/tasks/{id}/runs.                                      *)

\* POST .../run: get, and 202 if there is a row.
PostRun(u, t) ==
  /\ t \in Live
  /\ Moves(u, "idle", "running")
  /\ arg' = [arg EXCEPT ![u] = t]
  /\ UNCHANGED <<store, size, todo, walk, history>>

\* Mutant: the row is stored under the task, not under the run.
WriteUnderTask(u) ==
  /\ Moves(u, "running", "written")
  /\ results' = With(results, arg[u], arg[u])
  /\ UNCHANGED <<rows, arg, size, todo, walk, history>>

WriteResult(u) ==
  /\ Moves(u, "running", "written")
  /\ results' = With(results, u, arg[u])
  /\ Upsets(Reading, "grew")
  /\ after' = [d \in Deletes |-> IF pc[d] \in {"absent", "idle", "removed"} THEN {} ELSE after[d] \cup {u}]
  /\ UNCHANGED <<rows, arg, size, todo, walk, between, tour>>

ReadBegins(r) ==
  /\ Moves(r, "idle", "reading")
  /\ size' = [size EXCEPT ![r] = Cardinality(Stored)]
  /\ UNCHANGED <<store, arg, todo, walk, history>>

ReadEnds(r) ==
  /\ \/ /\ Cardinality(Stored) = size[r]
        /\ Moves(r, "reading", "listed")
     \/ /\ Cardinality(Stored) # size[r] \/ upset[r] # {}
        /\ Moves(r, "reading", "failed")
  /\ size' = [size EXCEPT ![r] = 0]
  /\ UNCHANGED <<store, arg, todo, walk, history>>
------------------------------------------------------------------------------
(* GET /v1/tasks, page after page.                                         *)

Smaller(a, b) == IF a < b THEN a ELSE b

\* The place of a row in sorted(rows.keys()), from 0.
Place(t) == Cardinality({x \in Live : x < t})

\* Mutants of the cursor: one row further; never null.
NextSkipping(end, n) == IF end < n THEN end + 1 ELSE Last
NextForEver(end, n) == IF end <= n THEN end ELSE Last

NextCursor(end, n) == IF end < n THEN end ELSE Last

WalkBegins(limit) ==
  /\ walk.at = "idle"
  /\ walk' = [walk EXCEPT !.at = "asking", !.limit = limit]
  /\ tour' = [tour EXCEPT !.stayed = Live]
  /\ UNCHANGED <<store, local, upset, between, after>>

(* list() sorts the keys and cuts the page; its rows are looked up later.  *)
AskPage ==
  LET n == Cardinality(Live)
      end == Smaller(walk.cursor + walk.limit, n) IN
  /\ walk.at = "asking"
  /\ walk' = [walk EXCEPT !.at = "filling",
                          !.page = {t \in Live : Place(t) \in walk.cursor..(end - 1)},
                          !.got = {},
                          !.next = NextCursor(end, n)]
  /\ UNCHANGED <<store, local, history>>

(* rows[i] for the next i of the page; a row that was deleted meanwhile is *)
(* a KeyError, and the client asks for the page again.                     *)
LookUp ==
  /\ walk.at = "filling"
  /\ \E t \in walk.page :
       /\ \A y \in walk.page : t <= y
       /\ walk' = IF t \in Live
                  THEN [walk EXCEPT !.page = @ \ {t}, !.got = @ \cup {t}]
                  ELSE [walk EXCEPT !.at = "asking", !.page = {}, !.got = {}, !.next = 0]
  /\ UNCHANGED <<store, local, history>>

\* The page is answered; the client follows next_cursor until it is null.
AnswerPage ==
  /\ walk.at = "filling" /\ walk.page = {}
  /\ walk' = [walk EXCEPT !.at = IF walk.next = Last THEN "done" ELSE "asking",
                          !.cursor = IF walk.next = Last THEN 0 ELSE walk.next,
                          !.got = {}, !.next = 0]
  /\ tour' = [tour EXCEPT !.twice = @ \cup (tour.once \cap walk.got), !.once = @ \cup walk.got]
  /\ UNCHANGED <<store, local, upset, between, after>>

------------------------------------------------------------------------------
CreateStep(c) == ScanBegins(c) \/ ScanEnds(c) \/ Insert(c)

DeleteStep(d) == \/ \E c \in Creates : pc[c] = "created" /\ RemoveRow(d, c)
                 \/ SnapshotKeys(d) \/ SweepEnds(d)
                 \/ \E u \in Runs : Sweep(d, u)

RunStep(u) == WriteResult(u) \/ \E t \in Creates : PostRun(u, t)

ReadStep(r) == ReadBegins(r) \/ ReadEnds(r)

WalkStep == AskPage \/ LookUp \/ AnswerPage

Next == \/ \E c \in Creates : CreateStep(c)
        \/ \E d \in Deletes : DeleteStep(d)
        \/ \E u \in Runs : RunStep(u)
        \/ \E r \in Readers : ReadStep(r)
        \/ \E limit \in Limits : WalkBegins(limit)
        \/ WalkStep

Spec == Init /\ [][Next]_vars

\* The threads that serve the pages run, and the client asks for the next one.
FairSpec == Spec /\ WF_vars(WalkStep)

------------------------------------------------------------------------------
(* The type invariant of the two dictionaries and of their users.          *)
TypeOK ==
  /\ Live \subseteq Creates /\ \A t \in Live : rows[t] = NameOf[t]
  /\ Stored \subseteq Runs /\ \A u \in Stored : results[u] \in Creates
  /\ pc \in [Actors -> {"absent", "idle", "scanning", "checked", "created", "refused", "failed",
                        "removed", "sweeping", "deleted", "running", "written",
                        "reading", "listed"}]
  /\ arg \in [Deletes \cup Runs -> {None} \cup Creates]
  /\ size \in [Threads -> 0..(Cardinality(Creates) + Cardinality(Runs))]
  /\ todo \in [Deletes -> SUBSET Runs]
  /\ walk \in [at: {"absent", "idle", "asking", "filling", "done"}, limit: Limits \cup {1},
               cursor: 0..Cardinality(Creates), next: {Last} \cup 0..Cardinality(Creates),
               page: SUBSET Creates, got: SUBSET Creates]
  /\ walk.page \cap walk.got = {}
  /\ upset \in [Threads -> SUBSET {"grew", "shrank"}]
  /\ between \subseteq Creates \X Creates
  /\ after \in [Deletes -> SUBSET Runs]
  /\ tour \in [stayed: SUBSET Creates, came: SUBSET Creates, gone: SUBSET Creates,
               once: SUBSET Creates, twice: SUBSET Creates]

(* Names of live tasks differ (FR-01) unless their creations raced: one    *)
(* was inserted between the check of the other and its insertion, or a row *)
(* was deleted while one of them compared names.  Checks that merely       *)
(* overlap are safe: the loop notices the insertion and answers 500.       *)
SharedNameNeedsRace ==
  \A x, c \in Live :
    x # c /\ rows[x] = rows[c] =>
      \/ <<x, c>> \in between \/ <<c, x>> \in between
      \/ "shrank" \in upset[x] \cup upset[c]

(* A request fails with 500 only if another one changed, while it ran, the *)
(* dictionary it loops over: a client that is alone never sees one.        *)
FailureHasRace == \A q \in Threads : pc[q] = "failed" => upset[q] # {}

(* When a DELETE has answered 204, no result row of its task is left that  *)
(* was there when it began to sweep; what is left was written since, by a  *)
(* run that was still under way.  It holds for a DELETE that repeats one   *)
(* that failed in the middle, and beside DELETEs of other tasks (AC-1.6).  *)
SweptClean ==
  \A d \in Deletes : pc[d] = "deleted" =>
    \A u \in Stored : results[u] = arg[d] => u \in after[d]

(* A client that follows next_cursor to its end misses a task that existed *)
(* all the time only if a task of a smaller identifier was deleted on the  *)
(* way, and is given a task twice only if a task of a smaller identifier   *)
(* was created on the way (AC-1.4): the cursor itself loses and repeats    *)
(* nothing, and a page that failed is asked for again without a gap.       *)
SlipsNeedChanges ==
  /\ walk.at = "done" =>
       \A t \in tour.stayed \ tour.once : \E g \in tour.gone : g < t
  /\ \A t \in tour.twice : \E c \in tour.came : c < t

(* The pages come to an end: a next_cursor is null at last (AC-1.4).       *)
PageWalkEnds == walk.at = "asking" ~> walk.at = "done"
==============================================================================
