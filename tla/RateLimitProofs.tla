---------------------------- MODULE RateLimitProofs ----------------------------
(***************************************************************************)
(* Theorems about RateLimit, for every set of requests, bucket, rate and   *)
(* required scopes: the type invariant, that a revoked key is refused,     *)
(* that Retry-After suffices on both engines, and that the policy is kept  *)
(* while requests do not overlap in consume, which a row lock ensures.     *)
(***************************************************************************)
EXTENDS RateLimit, FiniteSetTheorems, TLAPS

(* Arithmetic of the bucket.                                               *)
LEMMA RefillTyped ==
  ASSUME NEW level \in 0..Burst, NEW since \in Nat, NEW at \in Nat
  PROVE  /\ Refill(level, since, at) \in 0..Burst
         /\ level <= Refill(level, since, at)
<1>1. Burst \in Nat /\ Rate \in Nat /\ AtLeast(0, at - since) \in Nat
  BY RateAssumption DEF AtLeast
<1>2. AtLeast(0, at - since) * Rate \in Nat
  BY <1>1
<1> QED
  BY <1>1, <1>2 DEF Refill, AtMost

LEMMA TypeInit == Init => TypeOK
<1> SUFFICES ASSUME Init PROVE TypeOK
  OBVIOUS
<1>1. Unread \in [tokens: 0..Burst, last: 0..MaxClock] /\ 0 \in 0..MaxClock /\ 0 \in 0..Burst
  BY RateAssumption DEF Unread
<1>2. seen \in [Requests -> [tokens: 0..Burst, last: 0..MaxClock]]
  BY <1>1 DEF Init
<1>3. now \in [Requests -> 0..MaxClock] /\ fresh \in [Requests -> 0..Burst]
  BY <1>1 DEF Init
<1>4. pc \in [Requests -> {"idle"} \cup Open \cup Answers]
  BY DEF Init
<1> QED
  BY <1>1, <1>2, <1>3, <1>4, RateAssumption DEF Init, TypeOK

LEMMA TypeNext == TypeOK /\ [Next]_vars => TypeOK'
<1> SUFFICES ASSUME TypeOK, [Next]_vars PROVE TypeOK'
  OBVIOUS
<1> USE RateAssumption
<1>1. CASE Tick
  BY <1>1 DEF TypeOK, Tick, bucket, local
<1>2. CASE Revoke
  BY <1>2 DEF TypeOK, Revoke, bucket, local
<1>3. ASSUME NEW g \in Grants, CreateKey(g) PROVE TypeOK'
  BY <1>3 DEF TypeOK, CreateKey, bucket, local
<1>4. ASSUME NEW r \in Requests, Arrive(r) PROVE TypeOK'
  BY <1>4 DEF TypeOK, Arrive, Moves, bucket, local, Open
<1>5. ASSUME NEW r \in Requests, Authenticate(r) PROVE TypeOK'
  BY <1>5 DEF TypeOK, Authenticate, Moves, bucket, local, Open, Answers
<1>6. ASSUME NEW r \in Requests, Authorise(r) PROVE TypeOK'
  BY <1>6 DEF TypeOK, Authorise, Moves, bucket, local, Open, Answers
<1>7. ASSUME NEW r \in Requests, GetSelect(r) PROVE TypeOK'
  BY <1>7 DEF TypeOK, GetSelect, Moves, bucket, local, Open
<1>8. ASSUME NEW r \in Requests, GetInsert(r) PROVE TypeOK'
  BY <1>8 DEF TypeOK, GetInsert, Moves, local, Open, Answers
<1>9. ASSUME NEW r \in Requests, ConsumeSelect(r) PROVE TypeOK'
  BY <1>9 DEF TypeOK, ConsumeSelect, Moves, bucket, Open, InConsume
<1>10. ASSUME NEW r \in Requests, Compute(r) PROVE TypeOK'
  <2>1. seen[r].tokens \in 0..Burst /\ seen[r].last \in Nat /\ clock \in Nat
    BY DEF TypeOK
  <2> DEFINE level == Refill(seen[r].tokens, seen[r].last, clock)
  <2>2. level \in 0..Burst
    BY <2>1, RefillTyped
  <2>3. (IF level >= Cost THEN level - Cost ELSE level) \in 0..Burst
    BY <2>2
  <2>4. fresh' = [fresh EXCEPT ![r] = IF level >= Cost THEN level - Cost ELSE level]
    BY <1>10 DEF Compute
  <2>5. fresh' \in [Requests -> 0..Burst]
    BY <2>3, <2>4 DEF TypeOK
  <2>6. pc' \in [Requests -> {"idle"} \cup Open \cup Answers]
    BY <1>10 DEF TypeOK, Compute, Moves, Open, InConsume
  <2> QED
    BY <1>10, <2>5, <2>6 DEF TypeOK, Compute, bucket
<1>11. ASSUME NEW r \in Requests, Commit(r) PROVE TypeOK'
  <2>1. tokens' \in 0..Burst /\ last' \in 0..MaxClock /\ present' = present
    BY <1>11 DEF TypeOK, Commit, WriteBack
  <2>2. pc' \in [Requests -> {"idle"} \cup Open \cup Answers]
    BY <1>11 DEF TypeOK, Commit, Moves, Answers
  <2>3. Unread \in [tokens: 0..Burst, last: 0..MaxClock]
    BY DEF Unread
  <2>4. seen' \in [Requests -> [tokens: 0..Burst, last: 0..MaxClock]]
    BY <1>11, <2>3 DEF TypeOK, Commit
  <2>5. spoiled' \in SUBSET Requests /\ holder' \in SUBSET Requests
    BY <1>11 DEF TypeOK, Commit, Overtaken
  <2> QED
    BY <1>11, <2>1, <2>2, <2>4, <2>5 DEF TypeOK, Commit
<1>12. ASSUME NEW r \in Requests, DatabaseFails(r) PROVE TypeOK'
  BY <1>12 DEF TypeOK, DatabaseFails, bucket, Unread, Answers
<1>13. CASE UNCHANGED vars
  BY <1>13 DEF TypeOK, vars, bucket, local
<1> QED
  BY <1>1, <1>2, <1>3, <1>4, <1>5, <1>6, <1>7, <1>8, <1>9, <1>10, <1>11, <1>12, <1>13
     DEF Next, RequestStep

(* The state of the gate is of its type: in particular the level of the    *)
(* bucket stays between zero and its capacity on both engines.             *)
THEOREM GateTypeCorrect == Spec => []TypeOK
<1> QED
  BY TypeInit, TypeNext, PTL DEF Spec

------------------------------------------------------------------------------
(* A key that was revoked stays so, and those that came after it are late. *)
Shut == /\ late \subseteq Requests
        /\ late # {} => key = "revoked"
        /\ RevokedKeyIsRefused

LEMMA ShutNext == Shut /\ TypeOK /\ [Next]_vars => Shut'
<1> SUFFICES ASSUME Shut, TypeOK, [Next]_vars PROVE Shut'
  OBVIOUS
<1> USE DEF Shut, RevokedKeyIsRefused, TypeOK
<1>1. CASE Tick \/ Revoke \/ (\E g \in Grants : CreateKey(g)) \/ UNCHANGED vars
  BY <1>1 DEF Tick, Revoke, CreateKey, vars
<1>2. ASSUME NEW r \in Requests, Arrive(r) PROVE Shut'
  BY <1>2 DEF Arrive, Moves
<1>3. ASSUME NEW r \in Requests, Authenticate(r) PROVE Shut'
  BY <1>3 DEF Authenticate, Moves
<1>4. ASSUME NEW r \in Requests, pc[r] \notin {"received", "unauthenticated"},
             NEW s, pc' = [pc EXCEPT ![r] = s], UNCHANGED <<key, late>>
      PROVE  Shut'
  BY <1>4
<1>5. ASSUME NEW r \in Requests, Authorise(r) \/ GetSelect(r) \/ GetInsert(r) PROVE Shut'
  BY <1>4, <1>5 DEF Authorise, GetSelect, GetInsert, Moves
<1>6. ASSUME NEW r \in Requests, ConsumeSelect(r) \/ Compute(r) \/ Commit(r) \/ DatabaseFails(r)
      PROVE  Shut'
  BY <1>4, <1>6 DEF ConsumeSelect, Compute, Commit, DatabaseFails, Moves, InConsume
<1> QED
  BY <1>1, <1>2, <1>3, <1>5, <1>6 DEF Next, RequestStep

(* Whoever arrives after the revocation gets 401.                          *)
THEOREM RevokedRefused == Spec => []RevokedKeyIsRefused
<1>1. Init => Shut
  BY DEF Init, Shut, RevokedKeyIsRefused
<1>2. Shut => RevokedKeyIsRefused
  BY DEF Shut
<1> QED
  BY <1>1, <1>2, ShutNext, GateTypeCorrect, PTL DEF Spec
------------------------------------------------------------------------------
(* The header covers the deficit: what is refilled while it is waited out  *)
(* is at least what was missing.                                           *)
LEMMA RoundedUp ==
  ASSUME NEW d \in Nat, NEW m \in Nat \ {0}
  PROVE  /\ (d + m - 1) \div m \in Nat
         /\ m * ((d + m - 1) \div m) >= d
<1> DEFINE n == d + m - 1
<1>1. n \in Nat /\ n \div m \in Nat /\ n % m \in 0..(m - 1)
  BY SMT
<1>2. n = m * (n \div m) + (n % m)
  BY <1>1, SMT
<1> QED
  BY <1>1, <1>2, SMT

LEMMA WaitRefills ==
  ASSUME Rate > 0, NEW d \in Nat, NEW t \in Nat, t >= Second * RetryAfter(d)
  PROVE  t * Rate >= d
<1> DEFINE m == Rate * Second
           w == (d + m - 1) \div m
<1>1. m \in Nat \ {0} /\ Rate \in Nat /\ Second \in Nat
  BY RateAssumption
<1>2. w \in Nat /\ m * w >= d
  BY <1>1, RoundedUp
<1>3. RetryAfter(d) = AtLeast(1, w)
  BY DEF RetryAfter, RetryAfterSeconds
<1>4. RetryAfter(d) \in Nat /\ RetryAfter(d) >= w
  BY <1>2, <1>3 DEF AtLeast
<1> HIDE DEF w
<1>5. t >= Second * w
  <2>1. Second * RetryAfter(d) >= Second * w
    BY <1>1, <1>2, <1>4
  <2> QED
    BY <1>1, <1>2, <1>4, <2>1
<1>6. t * Rate >= (Second * w) * Rate
  BY <1>1, <1>2, <1>5
<1>7. (Second * w) * Rate = m * w
  BY <1>1, <1>2
<1> QED
  BY <1>1, <1>2, <1>6, <1>7

(* A request nobody overtook has seen the bucket as it is, and one that    *)
(* was refused unspoiled has left its own reading of level and clock.      *)
Sighted ==
  \A r \in Requests :
    /\ pc[r] \in InConsume \cup {"limited"} => present
    /\ pc[r] \in InConsume /\ r \notin spoiled => seen[r] = [tokens |-> tokens, last |-> last]
    /\ pc[r] \in {"refusing", "limited"} => fresh[r] < Cost /\ now[r] <= clock
    /\ pc[r] = "limited" /\ r \notin spoiled => tokens = fresh[r] /\ last = now[r]
    /\ pc[r] = "ensured" => present

LEMMA SightedNext == Sighted /\ TypeOK /\ [Next]_vars => Sighted'
<1> SUFFICES ASSUME Sighted, TypeOK, [Next]_vars PROVE Sighted'
  OBVIOUS
<1>1. CASE Tick
  BY <1>1 DEF Tick, Sighted, TypeOK, bucket, local
<1>2. CASE Revoke \/ (\E g \in Grants : CreateKey(g)) \/ UNCHANGED vars
  BY <1>2 DEF Revoke, CreateKey, vars, Sighted, bucket, local
<1>3. ASSUME NEW r \in Requests,
             Arrive(r) \/ Authenticate(r) \/ Authorise(r) \/ GetSelect(r)
      PROVE  Sighted'
  BY <1>3 DEF Arrive, Authenticate, Authorise, GetSelect, Moves, Sighted, TypeOK, bucket, local,
              InConsume
<1>4. ASSUME NEW r \in Requests, GetInsert(r) PROVE Sighted'
  <2>1. CASE present
    BY <1>4, <2>1 DEF GetInsert, Moves, Sighted, TypeOK, local, InConsume
  <2>2. CASE ~present
    BY <1>4, <2>2 DEF GetInsert, Moves, Sighted, TypeOK, local, InConsume
  <2> QED
    BY <2>1, <2>2
<1>5. ASSUME NEW r \in Requests, ConsumeSelect(r) PROVE Sighted'
  BY <1>5 DEF ConsumeSelect, Moves, Sighted, TypeOK, bucket, InConsume
<1>6. ASSUME NEW r \in Requests, Compute(r) PROVE Sighted'
  <2> DEFINE level == Refill(seen[r].tokens, seen[r].last, clock)
  <2>1. level \in 0..Burst /\ clock \in Nat /\ Cost \in Nat
    <3>1. seen[r].tokens \in 0..Burst /\ seen[r].last \in Nat /\ clock \in Nat /\ Cost \in Nat
      BY RateAssumption DEF TypeOK
    <3> QED
      BY <3>1, RefillTyped
  <2>2. /\ pc[r] = "reading" /\ pc' = [pc EXCEPT ![r] = IF level >= Cost THEN "granting" ELSE "refusing"]
        /\ now' = [now EXCEPT ![r] = clock]
        /\ fresh' = [fresh EXCEPT ![r] = IF level >= Cost THEN level - Cost ELSE level]
        /\ UNCHANGED <<tokens, last, present, seen, spoiled, clock>>
    BY <1>6 DEF Compute, Moves, bucket
  <2> HIDE DEF level
  <2> QED
    BY <2>1, <2>2 DEF Sighted, TypeOK, InConsume
<1>7. ASSUME NEW r \in Requests, Commit(r) PROVE Sighted'
  <2>1. /\ seen' = [seen EXCEPT ![r] = Unread]
        /\ UNCHANGED <<now, fresh, clock, present>>
    BY <1>7 DEF Commit, WriteBack
  <2>2. \/ pc[r] = "granting" /\ pc' = [pc EXCEPT ![r] = "admitted"]
        \/ pc[r] = "refusing" /\ pc' = [pc EXCEPT ![r] = "limited"]
    BY <1>7 DEF Commit, Moves
  <2>3. \/ tokens' = tokens /\ last' = last /\ spoiled' = spoiled
        \/ spoiled' = spoiled \cup Overtaken(r)
    BY <1>7 DEF Commit
  <2>4. r \notin spoiled => tokens' = fresh[r] /\ last' = now[r]
    BY <1>7, <2>2 DEF Commit, WriteBack, Sighted, InConsume
  <2>5. r \notin Overtaken(r)
    BY DEF Overtaken
  <2>6. ASSUME NEW q \in Requests, q # r
        PROVE  /\ pc'[q] = pc[q] /\ seen'[q] = seen[q]
               /\ pc[q] \in InConsume \cup {"limited"} /\ q \notin spoiled'
                  => tokens' = tokens /\ last' = last /\ q \notin spoiled
    BY <2>1, <2>2, <2>3, <2>6 DEF TypeOK, Overtaken
  <2>7. ASSUME NEW q \in Requests, q # r PROVE Sighted!(q)'
    BY <2>1, <2>6, <2>7 DEF Sighted
  <2>8. Sighted!(r)'
    BY <2>1, <2>2, <2>3, <2>4, <2>5 DEF Sighted, TypeOK, InConsume
  <2> QED
    BY <2>7, <2>8 DEF Sighted
<1>8. ASSUME NEW r \in Requests, DatabaseFails(r) PROVE Sighted'
  BY <1>8 DEF DatabaseFails, Sighted, TypeOK, bucket, InConsume
<1> QED
  BY <1>1, <1>2, <1>3, <1>4, <1>5, <1>6, <1>7, <1>8 DEF Next, RequestStep

LEMMA SightedSuffices == Sighted /\ TypeOK => RetryAfterSuffices
<1> SUFFICES ASSUME Sighted, TypeOK, NEW r \in Requests,
                    pc[r] = "limited", r \notin spoiled, Rate > 0,
                    clock >= now[r] + Second * RetryAfter(Cost - fresh[r])
             PROVE  Refill(tokens, last, clock) >= Cost
  BY DEF RetryAfterSuffices
<1>1. tokens = fresh[r] /\ last = now[r] /\ fresh[r] < Cost /\ now[r] <= clock
  BY DEF Sighted
<1>2. /\ fresh[r] \in Nat /\ now[r] \in Nat /\ clock \in Nat
      /\ Cost \in Nat /\ Cost <= Burst /\ Burst \in Nat /\ Rate \in Nat /\ Second \in Nat
  BY RateAssumption DEF TypeOK
<1> DEFINE d == Cost - fresh[r]
           t == clock - now[r]
<1>3. d \in Nat /\ t \in Nat
  BY <1>1, <1>2
<1>4. RetryAfter(d) \in Nat
  <2>1. Rate * Second \in Nat \ {0}
    BY <1>2, RateAssumption
  <2> QED
    BY <1>3, <2>1, RoundedUp DEF RetryAfter, RetryAfterSeconds, AtLeast
<1>5. Second * RetryAfter(d) \in Nat
  BY <1>2, <1>4
<1>6. t >= Second * RetryAfter(d)
  BY <1>2, <1>5
<1>7. t * Rate >= d
  BY <1>3, <1>6, WaitRefills
<1>8. AtLeast(0, clock - last) = t
  BY <1>1, <1>3 DEF AtLeast
<1>9. t * Rate \in Nat
  BY <1>2, <1>3
<1> QED
  BY <1>1, <1>2, <1>7, <1>8, <1>9 DEF Refill, AtMost

(* Retry-After is long enough, on both engines: what was refused and left  *)
(* alone since is granted when the time it was told has passed.            *)
THEOREM RetryAfterIsEnough == Spec => []RetryAfterSuffices
<1>1. Init => Sighted
  BY DEF Init, Sighted, InConsume
<1> QED
  BY <1>1, SightedNext, SightedSuffices, GateTypeCorrect, PTL DEF Spec
------------------------------------------------------------------------------
(* No two requests are between consume's SELECT and its COMMIT.            *)
Alone == \A q, r \in Requests : pc[q] \in InConsume /\ pc[r] \in InConsume => q = r

(* Who is in consume sees the bucket as it is.                             *)
Seeing ==
  /\ \A r \in Requests : pc[r] \in InConsume => seen[r] = [tokens |-> tokens, last |-> last]
  /\ \A r \in Requests : pc[r] \in InConsume \cup {"ensured", "limited", "admitted"} => present

(* What a request in consume is about to write.                            *)
Computing ==
  \A r \in Requests :
    /\ pc[r] \in {"granting", "refusing"} => now[r] \in last..clock
    /\ pc[r] = "granting" => fresh[r] + Cost = Refill(tokens, last, now[r])
    /\ pc[r] = "refusing" => fresh[r] = Refill(tokens, last, now[r])
    /\ pc[r] = "admitted" => now[r] <= last

AdmittedSince(a) == {r \in Requests : pc[r] = "admitted" /\ now[r] >= a}

(* What is left and what was admitted since a comes from a full bucket and *)
(* the refill since a, and the same holds for every stretch that is over.  *)
Account ==
  /\ last <= clock
  /\ \A a \in Nat : tokens + Cost * Cardinality(AdmittedSince(a)) <= Burst + Rate * AtLeast(0, last - a)
  /\ \A a, b \in Nat :
       a <= b => Cost * Cardinality(AdmittedWithin(a, b)) <= Burst + Rate * (b - a)

Balanced == Seeing /\ Computing /\ Account

LEMMA BalancedInit == Init => Balanced
<1> SUFFICES ASSUME Init PROVE Balanced
  OBVIOUS
<1>1. Seeing /\ Computing
  BY DEF Init, Seeing, Computing, InConsume
<1>2. \A a, b : AdmittedSince(a) = {} /\ AdmittedWithin(a, b) = {}
  BY DEF Init, AdmittedSince, AdmittedWithin
<1>3. \A n \in Nat : Rate * n \in Nat
  BY RateAssumption
<1>4. Cost \in Nat /\ Burst \in Nat /\ Cost * 0 = 0
  BY RateAssumption
<1>5. \A a \in Nat : AtLeast(0, 0 - a) \in Nat
  BY DEF AtLeast
<1>6. ASSUME NEW a \in Nat, NEW b \in Nat, a <= b PROVE b - a \in Nat
  BY <1>6
<1>7. Cardinality({}) = 0 /\ tokens = 0 /\ last = 0 /\ clock = 0
  BY FS_EmptySet DEF Init
<1>8. ASSUME NEW a \in Nat
      PROVE  tokens + Cost * Cardinality(AdmittedSince(a)) <= Burst + Rate * AtLeast(0, last - a)
  BY <1>2, <1>3, <1>4, <1>5, <1>7
<1>9. ASSUME NEW a \in Nat, NEW b \in Nat, a <= b
      PROVE  Cost * Cardinality(AdmittedWithin(a, b)) <= Burst + Rate * (b - a)
  BY <1>2, <1>3, <1>4, <1>6, <1>7, <1>9
<1> QED
  BY <1>1, <1>7, <1>8, <1>9 DEF Balanced, Account

(* Only a commit and the first row change the books.                       *)
LEMMA AccountKept ==
  ASSUME Account, TypeOK, tokens' = tokens, last' = last, clock' \in Nat, clock' >= clock,
         \A r \in Requests : pc'[r] = "admitted" => pc[r] = "admitted" /\ now'[r] = now[r],
         \A r \in Requests : pc[r] = "admitted" => pc'[r] = "admitted"
  PROVE  Account'
<1>1. \A a : AdmittedSince(a)' = AdmittedSince(a)
  BY DEF AdmittedSince
<1>2. \A a, b : AdmittedWithin(a, b)' = AdmittedWithin(a, b)
  BY DEF AdmittedWithin
<1>3. last' <= clock'
  BY DEF Account, TypeOK
<1> QED
  BY <1>1, <1>2, <1>3 DEF Account

(* What is admitted can be counted.                                        *)
LEMMA AdmittedFinite ==
  /\ \A a : IsFiniteSet(AdmittedSince(a)) /\ Cardinality(AdmittedSince(a)) \in Nat
  /\ \A a, b : IsFiniteSet(AdmittedWithin(a, b)) /\ Cardinality(AdmittedWithin(a, b)) \in Nat
<1>1. ASSUME NEW S \in SUBSET Requests PROVE IsFiniteSet(S) /\ Cardinality(S) \in Nat
  BY RateAssumption, FS_Subset, FS_CardinalityType
<1> QED
  BY <1>1 DEF AdmittedSince, AdmittedWithin

(* A refill is no more than the rate allows for the time that passed.      *)
LEMMA RefillBounded ==
  ASSUME NEW level \in 0..Burst, NEW since \in Nat, NEW at \in Nat, since <= at
  PROVE  /\ Refill(level, since, at) <= level + Rate * (at - since)
         /\ Refill(level, since, at) <= Burst
<1>1. AtLeast(0, at - since) = at - since /\ at - since \in Nat
  BY DEF AtLeast
<1>2. (at - since) * Rate = Rate * (at - since) /\ Rate * (at - since) \in Nat /\ Burst \in Nat
  BY <1>1, RateAssumption
<1> QED
  BY <1>1, <1>2 DEF Refill, AtMost

(* A token that is taken pays for one more that is admitted.               *)
LEMMA Spend ==
  ASSUME NEW n \in Nat, NEW m \in Nat, m <= n + 1,
         NEW level \in Nat, NEW above \in Nat, level + Cost = above
  PROVE  level + Cost * m <= above + Cost * n
<1>1. Cost \in Nat
  BY RateAssumption
<1>2. Cost * m <= Cost * (n + 1)
  BY <1>1
<1>3. Cost * (n + 1) = Cost * n + Cost
  BY <1>1
<1>4. Cost * m \in Nat /\ Cost * n \in Nat
  BY <1>1
<1> QED
  BY <1>1, <1>2, <1>3, <1>4

(* The books after the commit of r, which leaves "level" at time "at".     *)
LEMMA AccountCommitted ==
  ASSUME TypeOK, Account, \A q \in Requests : pc[q] = "admitted" => now[q] <= last,
         NEW r \in Requests, pc[r] # "admitted",
         NEW at \in Nat, at = now[r], last <= at, at <= clock,
         last' = at, tokens' \in Nat, clock' = clock, now' = now,
         \/ /\ pc' = [pc EXCEPT ![r] = "admitted"]
            /\ tokens' + Cost = Refill(tokens, last, at)
         \/ /\ pc' = [pc EXCEPT ![r] = "limited"]
            /\ tokens' = Refill(tokens, last, at)
  PROVE  Account'
<1> DEFINE full == Refill(tokens, last, at)
           N(a) == Cardinality(AdmittedSince(a))
<1>1. /\ tokens \in 0..Burst /\ last \in Nat /\ Burst \in Nat /\ Cost \in Nat /\ Rate \in Nat
      /\ now \in [Requests -> Nat] /\ clock \in Nat
      /\ pc \in [Requests -> {"idle"} \cup Open \cup Answers]
  BY RateAssumption DEF TypeOK
<1>2. full \in Nat /\ full <= Burst /\ full <= tokens + Rate * (at - last)
  <2>1. full \in 0..Burst
    BY <1>1, RefillTyped
  <2>2. full <= tokens + Rate * (at - last)
    BY <1>1, RefillBounded
  <2> QED
    BY <1>1, <2>1, <2>2
<1>3. \A a : N(a) \in Nat /\ N(a)' \in Nat
  <2>1. ASSUME NEW S \in SUBSET Requests PROVE Cardinality(S) \in Nat
    BY RateAssumption, FS_Subset, FS_CardinalityType
  <2> QED
    BY <2>1 DEF AdmittedSince
<1>4. ASSUME NEW a \in Nat
      PROVE  tokens' + Cost * N(a)' <= full + Cost * N(a)
  <2>1. CASE pc' = [pc EXCEPT ![r] = "admitted"] /\ tokens' + Cost = full
    <3>1. AdmittedSince(a)' \subseteq AdmittedSince(a) \cup {r}
      BY <1>1, <2>1 DEF AdmittedSince
    <3>2. IsFiniteSet(AdmittedSince(a) \cup {r}) /\ Cardinality(AdmittedSince(a) \cup {r}) = N(a) + 1
      BY AdmittedFinite, FS_AddElement DEF AdmittedSince
    <3>3. N(a)' <= N(a) + 1
      BY <3>1, <3>2, FS_Subset
    <3> QED
      BY <1>2, <1>3, <2>1, <3>3, Spend
  <2>2. CASE pc' = [pc EXCEPT ![r] = "limited"] /\ tokens' = full
    <3>1. AdmittedSince(a)' = AdmittedSince(a)
      BY <1>1, <2>2 DEF AdmittedSince
    <3> QED
      BY <1>1, <1>2, <1>3, <2>2, <3>1
  <2> QED
    BY <2>1, <2>2
<1>5. ASSUME NEW a \in Nat, a > last PROVE N(a) = 0
  <2>1. AdmittedSince(a) = {}
    BY <1>1, <1>5 DEF AdmittedSince
  <2> QED
    BY <2>1, FS_EmptySet
<1>6. ASSUME NEW a \in Nat PROVE N(a) \in Nat /\ Rate * AtLeast(0, at - a) \in Nat
  BY <1>1, <1>3 DEF AtLeast
<1>7. ASSUME NEW a \in Nat PROVE full + Cost * N(a) <= Burst + Rate * AtLeast(0, at - a)
  <2>1. CASE a > last
    BY <1>1, <1>2, <1>5, <1>6, <2>1
  <2>2. CASE a <= last
    <3>1. tokens + Cost * N(a) <= Burst + Rate * (last - a)
      <4>1. AtLeast(0, last - a) = last - a
        BY <1>1, <2>2 DEF AtLeast
      <4> QED
        BY <4>1 DEF Account
    <3>2. AtLeast(0, at - a) = at - a
      BY <1>1, <2>2 DEF AtLeast
    <3>3. Rate * (at - a) = Rate * (at - last) + Rate * (last - a)
      BY <1>1
    <3>4. Rate * (at - last) \in Nat /\ Rate * (last - a) \in Nat /\ Cost * N(a) \in Nat
      BY <1>1, <1>6, <2>2
    <3> HIDE DEF full, N
    <3> QED
      BY <1>1, <1>2, <3>1, <3>2, <3>3, <3>4
  <2> QED
    BY <1>1, <2>1, <2>2
<1>8. ASSUME NEW a \in Nat PROVE tokens' + Cost * N(a)' <= Burst + Rate * AtLeast(0, at - a)
  <2>1. Cost * N(a) \in Nat /\ Cost * N(a)' \in Nat
    BY <1>1, <1>3
  <2> HIDE DEF full, N
  <2> QED
    BY <1>1, <1>2, <1>4, <1>6, <1>7, <2>1
<1>9. ASSUME NEW a \in Nat, NEW b \in Nat, a <= b
      PROVE  Cost * Cardinality(AdmittedWithin(a, b)') <= Burst + Rate * (b - a)
  <2>1. CASE b < at
    <3>1. AdmittedWithin(a, b)' = AdmittedWithin(a, b)
      BY <1>1, <2>1 DEF AdmittedWithin
    <3> QED
      BY <1>9, <3>1 DEF Account
  <2>2. CASE b >= at
    <3>1. AdmittedWithin(a, b)' \subseteq AdmittedSince(a)' /\ AdmittedSince(a)' \subseteq Requests
      BY <1>1 DEF AdmittedWithin, AdmittedSince
    <3>2. IsFiniteSet(AdmittedSince(a)')
      BY <3>1, RateAssumption, FS_Subset
    <3>3. /\ Cardinality(AdmittedWithin(a, b)') \in Nat
          /\ Cardinality(AdmittedWithin(a, b)') <= N(a)'
      BY <3>1, <3>2, FS_Subset, FS_CardinalityType
    <3>4. Cost * Cardinality(AdmittedWithin(a, b)') <= Cost * N(a)'
      BY <1>1, <1>3, <3>3
    <3>5. Rate * AtLeast(0, at - a) <= Rate * (b - a)
      <4>1. AtLeast(0, at - a) \in Nat /\ AtLeast(0, at - a) <= b - a
        BY <1>9, <2>2 DEF AtLeast
      <4> QED
        BY <1>1, <4>1
    <3>6. /\ Rate * (b - a) \in Nat /\ Cost * N(a)' \in Nat
          /\ Cost * Cardinality(AdmittedWithin(a, b)') \in Nat
      BY <1>1, <1>3, <1>9, <3>3
    <3> HIDE DEF N
    <3> QED
      BY <1>1, <1>6, <1>8, <3>4, <3>5, <3>6
  <2> QED
    BY <2>1, <2>2
<1>10. last' <= clock'
  OBVIOUS
<1> QED
  BY <1>8, <1>9, <1>10 DEF Account

(* The books stay balanced as long as nobody is overtaken in consume.      *)
LEMMA BalancedNext == Balanced /\ Alone /\ TypeOK /\ [Next]_vars => Balanced'
<1> SUFFICES ASSUME Balanced, Alone, TypeOK, [Next]_vars PROVE (Seeing /\ Computing /\ Account)'
  BY DEF Balanced
<1>1. Seeing /\ Computing /\ Account
  BY DEF Balanced
<1>2. clock \in Nat /\ last \in Nat /\ tokens \in 0..Burst /\ Cost \in Nat /\ Burst \in Nat
  BY RateAssumption DEF TypeOK
<1>3. CASE Tick
  <2>1. Seeing'
    BY <1>1, <1>3 DEF Tick, Seeing, bucket, local
  <2>2. Computing'
    BY <1>1, <1>2, <1>3 DEF Tick, Computing, TypeOK, bucket, local
  <2>3. Account'
    BY <1>1, <1>2, <1>3, AccountKept DEF Tick, bucket, local
  <2> QED
    BY <2>1, <2>2, <2>3
<1>4. CASE Revoke \/ (\E g \in Grants : CreateKey(g)) \/ UNCHANGED vars
  <2>1. UNCHANGED <<clock, present, tokens, last, holder, pc, seen, now, fresh>>
    BY <1>4 DEF Revoke, CreateKey, vars, bucket, local
  <2>2. Account'
    BY <1>1, <1>2, <2>1, AccountKept
  <2> QED
    BY <1>1, <2>1, <2>2 DEF Seeing, Computing
<1>5. ASSUME NEW r \in Requests,
             Arrive(r) \/ Authenticate(r) \/ Authorise(r) \/ GetSelect(r)
      PROVE  (Seeing /\ Computing /\ Account)'
  <2>1. /\ UNCHANGED <<clock, present, tokens, last, holder, seen, now, fresh>>
        /\ pc[r] \notin InConsume \cup {"ensured", "limited", "admitted"}
    BY <1>5 DEF Arrive, Authenticate, Authorise, GetSelect, Moves, bucket, local, InConsume
  <2>2. PICK s \in {"received", "authenticated", "unauthenticated", "authorised", "forbidden",
                    "ensured", "missing"} :
          pc' = [pc EXCEPT ![r] = s] /\ (s = "ensured" => present)
    BY <1>5 DEF Arrive, Authenticate, Authorise, GetSelect, Moves
  <2>3. Seeing'
    BY <1>1, <2>1, <2>2 DEF Seeing, TypeOK, InConsume
  <2>4. Computing'
    BY <1>1, <2>1, <2>2 DEF Computing, TypeOK
  <2>5. Account'
    BY <1>1, <1>2, <2>1, <2>2, AccountKept DEF TypeOK
  <2> QED
    BY <2>3, <2>4, <2>5
<1>6. ASSUME NEW r \in Requests, GetInsert(r), present PROVE (Seeing /\ Computing /\ Account)'
  <2>1. /\ UNCHANGED <<clock, present, tokens, last, holder, seen, now, fresh>>
        /\ pc[r] = "missing" /\ pc' = [pc EXCEPT ![r] = "error"]
    BY <1>6 DEF GetInsert, Moves, local, TypeOK
  <2>2. Seeing'
    BY <1>1, <2>1 DEF Seeing, TypeOK, InConsume
  <2>3. Computing'
    BY <1>1, <2>1 DEF Computing, TypeOK
  <2>4. Account'
    BY <1>1, <1>2, <2>1, AccountKept DEF TypeOK
  <2> QED
    BY <2>2, <2>3, <2>4
<1>7. ASSUME NEW r \in Requests, GetInsert(r), ~present PROVE (Seeing /\ Computing /\ Account)'
  <2>1. /\ UNCHANGED <<clock, holder, seen, now, fresh>>
        /\ present' /\ tokens' = Burst /\ last' = clock
        /\ pc[r] = "missing" /\ pc' = [pc EXCEPT ![r] = "ensured"]
    BY <1>7 DEF GetInsert, Moves, local
  <2>2. \A q \in Requests : pc[q] \notin InConsume \cup {"ensured", "limited", "admitted"}
    BY <1>1, <1>7 DEF Seeing
  <2>3. \A q \in Requests : pc'[q] \notin InConsume \cup {"limited", "admitted"}
    BY <2>1, <2>2 DEF TypeOK, InConsume
  <2>4. Seeing'
    BY <1>1, <2>1, <2>2, <2>3 DEF Seeing
  <2>5. Computing'
    BY <2>3 DEF Computing, InConsume
  <2>6. Account'
    <3>1. \A a, b : AdmittedSince(a)' = {} /\ AdmittedWithin(a, b)' = {}
      BY <2>3 DEF AdmittedSince, AdmittedWithin
    <3>2. \A n \in Nat : Rate * n \in Nat
      BY RateAssumption
    <3>3. \A a \in Nat : AtLeast(0, last' - a) \in Nat
      BY <1>2, <2>1 DEF AtLeast
    <3>4. Cardinality({}) = 0 /\ Cost * 0 = 0
      BY <1>2, FS_EmptySet
    <3>5. ASSUME NEW a \in Nat
          PROVE  tokens' + Cost * Cardinality(AdmittedSince(a)') <= Burst + Rate * AtLeast(0, last' - a)
      <4>1. Rate * AtLeast(0, last' - a) \in Nat
        BY <3>2, <3>3
      <4>2. Cost * Cardinality(AdmittedSince(a)') = 0
        BY <3>1, <3>4
      <4> QED
        BY <1>2, <2>1, <4>1, <4>2
    <3>6. ASSUME NEW a \in Nat, NEW b \in Nat, a <= b
          PROVE  Cost * Cardinality(AdmittedWithin(a, b)') <= Burst + Rate * (b - a)
      <4>1. Rate * (b - a) \in Nat
        BY <3>2, <3>6
      <4>2. Cost * Cardinality(AdmittedWithin(a, b)') = 0
        BY <3>1, <3>4
      <4> QED
        BY <1>2, <4>1, <4>2
    <3>7. last' <= clock'
      BY <1>2, <2>1
    <3> QED
      BY <3>5, <3>6, <3>7 DEF Account
  <2> QED
    BY <2>4, <2>5, <2>6
<1>8. ASSUME NEW r \in Requests, ConsumeSelect(r) PROVE (Seeing /\ Computing /\ Account)'
  <2>1. /\ UNCHANGED <<clock, present, tokens, last, now, fresh>>
        /\ pc[r] = "ensured" /\ pc' = [pc EXCEPT ![r] = "reading"]
        /\ seen' = [seen EXCEPT ![r] = [tokens |-> tokens, last |-> last]]
    BY <1>8 DEF ConsumeSelect, Moves, bucket
  <2>2. Seeing'
    BY <1>1, <2>1 DEF Seeing, TypeOK, InConsume
  <2>3. Computing'
    BY <1>1, <2>1 DEF Computing, TypeOK
  <2>4. Account'
    BY <1>1, <1>2, <2>1, AccountKept DEF TypeOK
  <2> QED
    BY <2>2, <2>3, <2>4
<1>9. ASSUME NEW r \in Requests, Compute(r) PROVE (Seeing /\ Computing /\ Account)'
  <2> DEFINE level == Refill(seen[r].tokens, seen[r].last, clock)
             to == IF level >= Cost THEN "granting" ELSE "refusing"
  <2>1. /\ UNCHANGED <<clock, present, tokens, last, holder, seen>>
        /\ pc[r] = "reading" /\ pc' = [pc EXCEPT ![r] = to]
        /\ now' = [now EXCEPT ![r] = clock]
        /\ fresh' = [fresh EXCEPT ![r] = IF level >= Cost THEN level - Cost ELSE level]
    BY <1>9 DEF Compute, Moves, bucket
  <2>2. level = Refill(tokens, last, clock)
    BY <1>1, <2>1 DEF Seeing, InConsume
  <2>3. level \in Nat /\ last <= clock
    <3>1. level \in 0..Burst
      BY <1>2, <2>2, RefillTyped
    <3> QED
      BY <1>1, <1>2, <3>1 DEF Account
  <2>4. Seeing'
    BY <1>1, <2>1 DEF Seeing, TypeOK, InConsume
  <2>5. ASSUME NEW q \in Requests, q # r PROVE Computing!(q)'
    BY <1>1, <2>1, <2>5 DEF Computing, TypeOK
  <2>6. Computing!(r)'
    <3>1. pc'[r] = to /\ now'[r] = clock /\ fresh'[r] = IF level >= Cost THEN level - Cost ELSE level
      BY <2>1 DEF TypeOK
    <3> HIDE DEF level
    <3> QED
      BY <1>2, <2>1, <2>2, <2>3, <3>1
  <2>7. Computing'
    BY <2>5, <2>6 DEF Computing
  <2>8. Account'
    BY <1>1, <1>2, <2>1, AccountKept DEF TypeOK
  <2> QED
    BY <2>4, <2>7, <2>8
<1>10. ASSUME NEW r \in Requests, Commit(r) PROVE (Seeing /\ Computing /\ Account)'
  <2>1. /\ UNCHANGED <<clock, present, now, fresh>>
        /\ seen' = [seen EXCEPT ![r] = Unread]
        /\ holder' = holder \ {r}
    BY <1>10 DEF Commit, WriteBack
  <2>2. \/ pc[r] = "granting" /\ pc' = [pc EXCEPT ![r] = "admitted"]
        \/ pc[r] = "refusing" /\ pc' = [pc EXCEPT ![r] = "limited"]
    BY <1>10 DEF Commit, Moves
  <2>3. tokens' = fresh[r] /\ last' = now[r] /\ now[r] \in last..clock
    BY <1>1, <1>10, <2>2 DEF Commit, WriteBack, Seeing, Computing, InConsume
  <2>4. \A q \in Requests \ {r} : pc[q] \notin InConsume /\ pc'[q] = pc[q]
    BY <2>2 DEF Alone, TypeOK, InConsume
  <2>5. Seeing'
    BY <1>1, <2>1, <2>2, <2>4 DEF Seeing, TypeOK, InConsume
  <2>6. ASSUME NEW q \in Requests, q # r PROVE Computing!(q)'
    BY <1>1, <1>2, <2>1, <2>3, <2>4, <2>6 DEF Computing, TypeOK, InConsume
  <2>7. Computing!(r)'
    BY <1>2, <2>1, <2>2, <2>3 DEF TypeOK
  <2>8. Computing'
    BY <2>6, <2>7 DEF Computing
  <2>9. now[r] \in Nat /\ last <= now[r] /\ now[r] <= clock /\ tokens' \in Nat
    BY <1>2, <2>3 DEF TypeOK
  <2>10. \/ /\ pc' = [pc EXCEPT ![r] = "admitted"]
            /\ tokens' + Cost = Refill(tokens, last, now[r])
         \/ /\ pc' = [pc EXCEPT ![r] = "limited"]
            /\ tokens' = Refill(tokens, last, now[r])
    BY <1>1, <2>2, <2>3 DEF Computing
  <2>11. Account'
    BY <1>1, <2>1, <2>2, <2>3, <2>9, <2>10, AccountCommitted DEF Computing
  <2> QED
    BY <2>5, <2>8, <2>11
<1>11. ASSUME NEW r \in Requests, DatabaseFails(r) PROVE (Seeing /\ Computing /\ Account)'
  <2>1. /\ UNCHANGED <<clock, present, tokens, last>>
        /\ pc[r] # "admitted" /\ pc' = [pc EXCEPT ![r] = "error"]
        /\ holder' = holder \ {r}
        /\ seen' = [seen EXCEPT ![r] = Unread]
        /\ now' = [now EXCEPT ![r] = 0] /\ fresh' = [fresh EXCEPT ![r] = 0]
    BY <1>11 DEF DatabaseFails, bucket, InConsume
  <2>2. Seeing'
    BY <1>1, <2>1 DEF Seeing, TypeOK, InConsume
  <2>3. Computing'
    BY <1>1, <2>1 DEF Computing, TypeOK
  <2>4. Account'
    BY <1>1, <1>2, <2>1, AccountKept DEF TypeOK
  <2> QED
    BY <2>2, <2>3, <2>4
<1> QED
  BY <1>3, <1>4, <1>5, <1>6, <1>7, <1>8, <1>9, <1>10, <1>11 DEF Next, RequestStep

LEMMA BalancedSuffices == Balanced /\ TypeOK => WithinPolicy
<1> SUFFICES ASSUME Balanced, TypeOK PROVE WithinPolicy
  OBVIOUS
<1>1. Account /\ clock \in Nat
  BY DEF Balanced, TypeOK
<1>2. 0..clock \subseteq Nat
  BY <1>1
<1> QED
  BY <1>1, <1>2 DEF Account, WithinPolicy

(* Without any lock the policy is kept as long as no two requests overlap  *)
(* in consume: on SQLite, whose FOR UPDATE does nothing, that overlap is   *)
(* the one way to admit too much.                                          *)
THEOREM LoneConsumersKeepPolicy == Spec /\ []Alone => []WithinPolicy
<1> QED
  BY BalancedInit, BalancedNext, BalancedSuffices, GateTypeCorrect, PTL DEF Spec

------------------------------------------------------------------------------
(* The row lock: who holds it is in consume, and nobody else is.           *)
Locking ==
  engine = "rowlock" =>
    /\ \A r \in Requests : (pc[r] \in InConsume) <=> (r \in holder)
    /\ \A q, r \in holder : q = r

LEMMA EngineStays == [Next]_vars => engine' = engine
<1> QED
  BY DEF Next, RequestStep, vars, Tick, Revoke, CreateKey, Arrive, Authenticate, Authorise, GetSelect,
         GetInsert, ConsumeSelect, Compute, Commit, DatabaseFails

LEMMA LockingNext == Locking /\ TypeOK /\ [Next]_vars => Locking'
<1> SUFFICES ASSUME Locking, TypeOK, [Next]_vars, engine = "rowlock" PROVE Locking'
  BY EngineStays DEF Locking
<1> USE DEF Locking, TypeOK, InConsume
<1>1. CASE UNCHANGED <<holder, pc>>
  BY <1>1
<1>2. CASE Tick \/ Revoke \/ (\E g \in Grants : CreateKey(g)) \/ UNCHANGED vars
  BY <1>1, <1>2 DEF Tick, Revoke, CreateKey, vars
<1>3. ASSUME NEW r \in Requests,
             Arrive(r) \/ Authenticate(r) \/ Authorise(r) \/ GetSelect(r) \/ GetInsert(r)
      PROVE  Locking'
  BY <1>3 DEF Arrive, Authenticate, Authorise, GetSelect, GetInsert, Moves
<1>4. ASSUME NEW r \in Requests, ConsumeSelect(r) PROVE Locking'
  BY <1>4 DEF ConsumeSelect, Moves
<1>5. ASSUME NEW r \in Requests, Compute(r) PROVE Locking'
  BY <1>5 DEF Compute, Moves
<1>6. ASSUME NEW r \in Requests, Commit(r) \/ DatabaseFails(r) PROVE Locking'
  BY <1>6 DEF Commit, DatabaseFails, Moves
<1> QED
  BY <1>2, <1>3, <1>4, <1>5, <1>6 DEF Next, RequestStep

(* The row lock is held in consume only, by one request at a time: no way  *)
(* out of consume, refusal and failure included, keeps it (RequestAnswered *)
(* rests on this).                                                         *)
THEOREM LockIsGivenBack == Spec => []Locking
<1>1. Init => Locking
  BY DEF Init, Locking, InConsume
<1> QED
  BY <1>1, LockingNext, GateTypeCorrect, PTL DEF Spec

(* With a row lock, no stretch of time admits more than a full bucket and  *)
(* its refill, however many workers there are and however they overlap.    *)
THEOREM RowLockKeepsPolicy == Spec => []LockedBucketKeepsPolicy
<1> DEFINE Locked == engine = "rowlock" => Balanced
<1>1. Init => Locked
  BY BalancedInit
<1>2. Locking /\ engine = "rowlock" => Alone
  BY DEF Locking, Alone
<1>3. Locking /\ Locked /\ TypeOK /\ [Next]_vars => Locked'
  BY <1>2, BalancedNext, EngineStays
<1>4. Locked /\ TypeOK => LockedBucketKeepsPolicy
  BY BalancedSuffices DEF LockedBucketKeepsPolicy
<1> QED
  BY <1>1, <1>3, <1>4, LockIsGivenBack, GateTypeCorrect, PTL DEF Spec
================================================================================
