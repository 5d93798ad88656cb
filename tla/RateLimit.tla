------------------------------ MODULE RateLimit ------------------------------
(***************************************************************************)
(* The gate of every /v1/tasks request (api/deps.py): require_api_key,     *)
(* require_scope and check_rate_limit, against one API key of the key      *)
(* repository and its token bucket, a row of the rate_buckets table        *)
(* (repository/rate_repo.py, policy in service/ratelimit.py).              *)
(*                                                                         *)
(* Each request runs in a thread of some worker; the workers share the     *)
(* database and the monotonic clock of one machine.  The bucket is counted *)
(* in fractions of a token, the clock in fractions of a second.            *)
(***************************************************************************)
EXTENDS Integers, FiniteSets

CONSTANTS
  Requests,   (* requests that present the key, each takes one token        *)
  Burst,      (* capacity of the bucket                                     *)
  Rate,       (* refill for each tick of the clock                          *)
  Cost,       (* one token                                                  *)
  Second,     (* ticks in a second                                          *)
  MaxClock,   (* bound: the clock stops here                                *)
  Grants,     (* the scopes the key may be created with                     *)
  Required,   (* the scope the route of each request asks for               *)
  Engines     (* the engines the database may be                            *)

ScopeRank == [read |-> 0, write |-> 1, admin |-> 2]
Scopes == DOMAIN ScopeRank

ASSUME RateAssumption ==
  /\ IsFiniteSet(Requests)
  /\ Burst \in Nat /\ Rate \in Nat /\ MaxClock \in Nat
  /\ Cost \in 1..Burst
  /\ Second \in Nat \ {0}
  /\ Required \in [Requests -> Scopes]
  /\ "none" \notin Grants
  /\ Engines \subseteq {"rowlock", "sqlite"}

VARIABLES
  engine,   (* "rowlock" honours SELECT ... FOR UPDATE, "sqlite" ignores it *)
  clock,    (* time.monotonic()                                             *)
  key,      (* the row of the key: "unknown", "active" or "revoked"         *)
  scope,    (* the scope it was created with                                *)
  present,  (* the bucket has a row                                         *)
  tokens,   (* its columns: the level                                       *)
  last,     (* and last_refill_ts                                           *)
  holder,   (* the requests that hold the row lock                          *)
  pc,       (* pc[r]: how far request r has come                            *)
  seen,     (* seen[r]: the columns consume read                            *)
  now,      (* now[r]: the clock consume read                               *)
  fresh,    (* fresh[r]: the level consume is about to write                *)
  late,     (* history: requests that arrived after the revocation          *)
  spoiled   (* history: requests overtaken by a write of another since they *)
            (* read the bucket (seen, now and fresh are locals of consume:  *)
            (* what is no longer of use is forgotten)                       *)

bucket == <<present, tokens, last>>
local == <<seen, now, fresh>>
vars == <<engine, clock, key, scope, present, tokens, last, holder, pc, seen, now, fresh, late, spoiled>>

(***************************************************************************)
(* Where a request stands: idle, received, authenticated, authorised;      *)
(* "missing" when get_or_create found no row; ensured after it; "reading"  *)
(* after consume's SELECT; "granting" or "refusing" before its COMMIT;     *)
(* then the answer: unauthenticated (401), forbidden (403), limited (429), *)
(* error (500), or admitted to the handler.                                *)
(***************************************************************************)
InConsume == {"reading", "granting", "refusing"}
Open == {"received", "authenticated", "authorised", "missing", "ensured"} \cup InConsume
Answers == {"unauthenticated", "forbidden", "limited", "error", "admitted"}

Unread == [tokens |-> 0, last |-> 0]

Init == /\ engine \in Engines
        /\ clock = 0
        /\ key = "unknown"
        /\ scope = "none"
        /\ present = FALSE /\ tokens = 0 /\ last = 0
        /\ holder = {}
        /\ pc = [r \in Requests |-> "idle"]
        /\ seen = [r \in Requests |-> Unread]
        /\ now = [r \in Requests |-> 0]
        /\ fresh = [r \in Requests |-> 0]
        /\ late = {}
        /\ spoiled = {}

Moves(r, from, to) == pc[r] = from /\ pc' = [pc EXCEPT ![r] = to]

------------------------------------------------------------------------------
(* The policy (service/ratelimit.py) and the header (_rate_limited).       *)

AtMost(a, b) == IF a < b THEN a ELSE b
AtLeast(a, b) == IF a > b THEN a ELSE b

\* Mutant: the refill is not clamped at the capacity.
RefillUnclamped(level, since, at) == level + AtLeast(0, at - since) * Rate

Refill(level, since, at) == AtMost(Burst, level + AtLeast(0, at - since) * Rate)

\* retry_after_seconds, as a fraction; one if nothing is ever refilled.
RetryAfterSeconds(deficit) == IF Rate = 0 THEN <<1, 1>> ELSE <<deficit, Rate * Second>>

\* Mutant: the fraction of a second is dropped.
RetryAfterTruncated(deficit) ==
  LET wait == RetryAfterSeconds(deficit) IN AtLeast(1, wait[1] \div wait[2])

\* The header: whole seconds, rounded up, at least one.
RetryAfter(deficit) ==
  LET wait == RetryAfterSeconds(deficit) IN AtLeast(1, (wait[1] + wait[2] - 1) \div wait[2])

ScopeSatisfies(granted, required) ==
  /\ {granted, required} \subseteq Scopes
  /\ ScopeRank[granted] >= ScopeRank[required]

------------------------------------------------------------------------------
(* The environment: the clock, the owner of the key, the clients.          *)

Tick == /\ clock < MaxClock
        /\ clock' = clock + 1
        /\ UNCHANGED <<engine, key, scope, bucket, holder, pc, local, late, spoiled>>

CreateKey(granted) ==
  /\ key = "unknown"
  /\ key' = "active"
  /\ scope' = granted
  /\ UNCHANGED <<engine, clock, bucket, holder, pc, local, late, spoiled>>

Revoke == /\ key = "active"
          /\ key' = "revoked"
          /\ UNCHANGED <<engine, clock, scope, bucket, holder, pc, local, late, spoiled>>

Arrive(r) ==
  /\ Moves(r, "idle", "received")
  /\ late' = IF key = "revoked" THEN late \cup {r} ELSE late
  /\ UNCHANGED <<engine, clock, key, scope, bucket, holder, local, spoiled>>

------------------------------------------------------------------------------
(* The dependencies of the route, in the order FastAPI resolves them.      *)

\* Mutant: any row of the key repository will do.
AuthenticateAnyRow(r) ==
  /\ Moves(r, "received", IF key # "unknown" THEN "authenticated" ELSE "unauthenticated")
  /\ UNCHANGED <<engine, clock, key, scope, bucket, holder, local, late, spoiled>>

Authenticate(r) ==
  /\ Moves(r, "received", IF key = "active" THEN "authenticated" ELSE "unauthenticated")
  /\ UNCHANGED <<engine, clock, key, scope, bucket, holder, local, late, spoiled>>

Authorise(r) ==
  /\ Moves(r, "authenticated",
           IF ScopeSatisfies(scope, Required[r]) THEN "authorised" ELSE "forbidden")
  /\ UNCHANGED <<engine, clock, key, scope, bucket, holder, local, late, spoiled>>

(* get_or_create: SELECT, then INSERT at commit.  Who loses the race for   *)
(* the INSERT gets an IntegrityError, which nobody handles.                *)
GetSelect(r) ==
  /\ Moves(r, "authorised", IF present THEN "ensured" ELSE "missing")
  /\ UNCHANGED <<engine, clock, key, scope, bucket, holder, local, late, spoiled>>

GetInsert(r) ==
  /\ Moves(r, "missing", IF present THEN "error" ELSE "ensured")
  /\ present' = TRUE
  /\ tokens' = IF present THEN tokens ELSE Burst
  /\ last' = IF present THEN last ELSE clock
  /\ UNCHANGED <<engine, clock, key, scope, holder, local, late, spoiled>>

\* Mutant: a SELECT without FOR UPDATE.
ConsumeSelectUnlocked(r) ==
  /\ Moves(r, "ensured", "reading")
  /\ seen' = [seen EXCEPT ![r] = [tokens |-> tokens, last |-> last]]
  /\ UNCHANGED <<engine, clock, key, scope, bucket, holder, now, fresh, late, spoiled>>

\* SELECT ... FOR UPDATE: the row is there since get_or_create.
ConsumeSelect(r) ==
  /\ Moves(r, "ensured", "reading")
  /\ \/ engine = "rowlock" /\ holder = {} /\ holder' = {r}
     \/ engine = "sqlite" /\ UNCHANGED holder
  /\ seen' = [seen EXCEPT ![r] = [tokens |-> tokens, last |-> last]]
  /\ UNCHANGED <<engine, clock, key, scope, bucket, now, fresh, late, spoiled>>

Compute(r) ==
  LET level == Refill(seen[r].tokens, seen[r].last, clock) IN
  /\ Moves(r, "reading", IF level >= Cost THEN "granting" ELSE "refusing")
  /\ now' = [now EXCEPT ![r] = clock]
  /\ fresh' = [fresh EXCEPT ![r] = IF level >= Cost THEN level - Cost ELSE level]
  /\ UNCHANGED <<engine, clock, key, scope, bucket, holder, seen, late, spoiled>>

(* The unit of work updates a column only where the new value differs from *)
(* the one it read.                                                        *)
WriteBack(r) ==
  /\ tokens' = IF fresh[r] # seen[r].tokens THEN fresh[r] ELSE tokens
  /\ last' = IF now[r] # seen[r].last THEN now[r] ELSE last
  /\ UNCHANGED present

Overtaken(r) == {q \in Requests \ {r} : pc[q] \in InConsume \cup {"limited"}}

\* Mutant: a refusal leaves the transaction open.
CommitIfGranting(r) ==
  /\ \/ Moves(r, "granting", "admitted") /\ holder' = holder \ {r}
     \/ Moves(r, "refusing", "limited") /\ UNCHANGED holder
  /\ WriteBack(r)
  /\ spoiled' = IF <<tokens, last>>' # <<tokens, last>> THEN spoiled \cup Overtaken(r) ELSE spoiled
  /\ seen' = [seen EXCEPT ![r] = Unread]
  /\ UNCHANGED <<engine, clock, key, scope, now, fresh, late>>

Commit(r) ==
  /\ Moves(r, "granting", "admitted") \/ Moves(r, "refusing", "limited")
  /\ holder' = holder \ {r}
  /\ WriteBack(r)
  /\ spoiled' = IF <<tokens, last>>' # <<tokens, last>> THEN spoiled \cup Overtaken(r) ELSE spoiled
  /\ seen' = [seen EXCEPT ![r] = Unread]
  /\ UNCHANGED <<engine, clock, key, scope, now, fresh, late>>

\* The database gives up on a statement (a lock timeout, a lost connection):
\* session.begin() rolls back and nobody handles the exception.
DatabaseFails(r) ==
  /\ pc[r] \in {"authorised", "missing", "ensured"} \cup InConsume
  /\ pc' = [pc EXCEPT ![r] = "error"]
  /\ holder' = holder \ {r}
  /\ seen' = [seen EXCEPT ![r] = Unread]
  /\ now' = [now EXCEPT ![r] = 0]
  /\ fresh' = [fresh EXCEPT ![r] = 0]
  /\ UNCHANGED <<engine, clock, key, scope, bucket, late, spoiled>>

------------------------------------------------------------------------------
RequestStep(r) == \/ Authenticate(r) \/ Authorise(r) \/ GetSelect(r) \/ GetInsert(r)
                  \/ ConsumeSelect(r) \/ Compute(r) \/ Commit(r)

Next == \/ Tick \/ Revoke
        \/ \E granted \in Grants : CreateKey(granted)
        \/ \E r \in Requests : Arrive(r) \/ RequestStep(r) \/ DatabaseFails(r)

Spec == Init /\ [][Next]_vars

\* Threads run, and so does the database.
FairSpec == Spec /\ \A r \in Requests : WF_vars(RequestStep(r))

------------------------------------------------------------------------------
(* The type invariant; the level of the bucket is never negative and never *)
(* above its capacity, on either engine (NFR-03).                          *)
TypeOK ==
  /\ engine \in {"rowlock", "sqlite"}
  /\ clock \in 0..MaxClock
  /\ key \in {"unknown", "active", "revoked"}
  /\ scope \in Grants \cup {"none"}
  /\ present \in BOOLEAN
  /\ tokens \in 0..Burst
  /\ last \in 0..MaxClock
  /\ holder \in SUBSET Requests
  /\ pc \in [Requests -> {"idle"} \cup Open \cup Answers]
  /\ seen \in [Requests -> [tokens: 0..Burst, last: 0..MaxClock]]
  /\ now \in [Requests -> 0..MaxClock]
  /\ fresh \in [Requests -> 0..Burst]
  /\ late \in SUBSET Requests
  /\ spoiled \in SUBSET Requests

\* The requests admitted on the strength of a clock between a and b.
AdmittedWithin(a, b) == {r \in Requests : pc[r] = "admitted" /\ now[r] \in a..b}

(* The policy of FR-05: in any stretch of time no more is admitted than a  *)
(* full bucket and what is refilled meanwhile; nobody else takes the last  *)
(* token (AC-5.3, R12).                                                    *)
WithinPolicy ==
  \A a, b \in 0..clock :
    a <= b => Cost * Cardinality(AdmittedWithin(a, b)) <= Burst + Rate * (b - a)

(* Where SELECT ... FOR UPDATE takes a row lock the policy is kept, for    *)
(* requests of any number of workers that overlap in any way.              *)
LockedBucketKeepsPolicy == engine = "rowlock" => WithinPolicy

(* A client that was told 429 and comes back after Retry-After seconds     *)
(* finds a token, if nobody took it meanwhile: the header is neither       *)
(* rounded down nor counted from a balance that was not stored (AC-5.2).   *)
RetryAfterSuffices ==
  \A r \in Requests :
    /\ pc[r] = "limited" /\ r \notin spoiled /\ Rate > 0
    /\ clock >= now[r] + Second * RetryAfter(Cost - fresh[r])
    => Refill(tokens, last, clock) >= Cost

(* A request that arrives after the key was revoked gets 401 and spends no *)
(* token, whatever other requests of the key are under way (AC-3.5).       *)
RevokedKeyIsRefused ==
  \A r \in late : pc[r] \in {"received", "unauthenticated"}

(* Every request is answered: the row lock is given back on every way out  *)
(* of consume, the refusals and the failures included.                     *)
RequestAnswered == \A r \in Requests : pc[r] = "received" ~> pc[r] \in Answers
==============================================================================
