---------------------------- MODULE PipelineProofs ----------------------------
(***************************************************************************)
(* Proofs about Pipeline: whatever methods clients use, an answer has the  *)
(* documented status but for the exceptions the property names, a failure  *)
(* is a problem document, and nothing runs or is spent before the gate.    *)
(* The invariant says what a request that has reached a stage has behind   *)
(* it.                                                                     *)
(***************************************************************************)
EXTENDS Pipeline, TLAPS

Stages == {"received", "routing", "authenticating", "authorising", "metering", "validating",
           "handling", "answered"}

Checked == req.method \in {"POST", "PUT", "PATCH"} /\ req.path = "tasks"
Entitled == req.key \notin {"missing", "invalid"} /\ ~(Rank[req.key] < Rank[Needs])

(* What the stages passed have made sure of.                               *)
Passed ==
  /\ at \notin {"received", "answered"} => ~(Checked /\ req.body \in {"garbled", "bad"})
  /\ at \notin {"received", "routing", "answered"} => Supported
  /\ at \in {"authenticating", "authorising", "metering"} => Needs # "none"
  /\ at \in {"authorising", "metering"} => req.key \notin {"missing", "invalid"}
  /\ at = "metering" => Entitled
  /\ at \in {"validating", "handling"} => \/ Needs = "none" /\ bucket = "none"
                                          \/ Entitled /\ bucket = "token"
  /\ at = "handling" => ~BadParams /\ ~BodyRefused

(* What has happened so far.                                               *)
Progress ==
  /\ at \in Stages
  /\ req \in Requests
  /\ spent <=> bucket = "token"
  /\ at \in {"received", "routing", "authenticating", "authorising", "metering"} => bucket = "none"
  /\ at # "answered" => ending = "none"

IInv == Progress /\ Passed /\ StatusAsDocumented /\ ErrorsAreProblems /\ NothingBeforeTheGate

------------------------------------------------------------------------------
(* The table of routes.                                                    *)

LEMMA Routes ==
  /\ DOMAIN Scope = {"tasks", "task", "run", "runs", "metrics", "healthz", "readyz"}
  /\ DOMAIN Scope["tasks"] = {"POST", "GET"} /\ DOMAIN Scope["task"] = {"GET", "DELETE"}
  /\ DOMAIN Scope["run"] = {"POST"} /\ DOMAIN Scope["runs"] = {"GET"}
  /\ DOMAIN Scope["metrics"] = {"GET"} /\ DOMAIN Scope["healthz"] = {"GET"}
  /\ DOMAIN Scope["readyz"] = {"GET"}
  /\ Scope["readyz"]["GET"] = "none" /\ Scope["healthz"]["GET"] = "none"
BY DEF Scope

(* A route asks for nothing or for one of the three scopes.                *)
LEMMA NeedsAreScopes ==
  ASSUME req \in Requests, Supported
  PROVE  Needs \in {"none", "read", "write", "admin"}
<1>1. req.path \in {"tasks", "task", "run", "runs", "metrics", "healthz", "readyz"}
  BY Routes DEF Requests, Paths, Supported
<1>2. CASE req.path = "tasks"
  BY <1>2, Routes DEF Needs, Supported, Scope
<1>3. CASE req.path = "task"
  BY <1>3, Routes DEF Needs, Supported, Scope
<1>4. CASE req.path = "run"
  BY <1>4, Routes DEF Needs, Supported, Scope
<1>5. CASE req.path = "runs"
  BY <1>5, Routes DEF Needs, Supported, Scope
<1>6. CASE req.path = "metrics"
  BY <1>6, Routes DEF Needs, Supported, Scope
<1>7. CASE req.path \in {"healthz", "readyz"}
  BY <1>7, Routes DEF Needs, Supported, Scope
<1> QED
  BY <1>1, <1>2, <1>3, <1>4, <1>5, <1>6, <1>7

(* The levels compared are numbers.                                        *)
LEMMA EntitledRank ==
  ASSUME req \in Requests, Supported, Entitled
  PROVE  Rank[req.key] >= Rank[Needs] /\ req.key \in DOMAIN Rank
<1>1. req.key \in {"read", "write", "admin"}
  BY DEF Entitled, Requests, Keys
<1>2. Rank[req.key] \in Int /\ req.key \in DOMAIN Rank
  BY <1>1 DEF Rank
<1>3. Rank[Needs] \in Int
  BY NeedsAreScopes DEF Rank
<1> QED
  BY <1>2, <1>3 DEF Entitled

LEMMA CreatingIsSupported == Creating => Supported
BY Routes DEF Creating, Supported

------------------------------------------------------------------------------
(* Answers.                                                                *)

(* A problem document with one of the statuses of the table is fit.        *)
LEMMA ProblemsFit ==
  ASSUME NEW status \in {401, 403, 404, 422, 429, 500}, Problem(status), UNCHANGED req
  PROVE  /\ at' = "answered" /\ answer'.status = status
         /\ ErrorsAreProblems'
<1>1. at' = "answered" /\ answer' = Document(status)
  BY DEF Problem, Answer
<1>2. /\ answer'.status = status /\ answer'.form = "problem" /\ answer'.type = TypeOf(status)
      /\ answer'.id = Correlation /\ answer'.retry = (status = 429)
  BY <1>1 DEF Document
<1>3. TypeOf(status) # "http"
  BY DEF TypeOf
<1>4. answer'.retry <=> answer'.status = 429
  BY <1>2, Zenon
<1>5. /\ answer'.form = "problem" /\ answer'.type = TypeOf(answer'.status) /\ answer'.type # "http"
      /\ answer'.id = IF req'.id = "given" THEN "given" ELSE "fresh"
  BY <1>2, <1>3 DEF Correlation
<1> QED
  BY <1>1, <1>2, <1>4, <1>5, Zenon DEF ErrorsAreProblems

LEMMA DefaultsFit ==
  ASSUME NEW status \in {404, 405}, Default(status), UNCHANGED req, ~Supported
  PROVE  /\ at' = "answered" /\ answer'.status = status
         /\ ErrorsAreProblems'
<1>1. /\ at' = "answered" /\ answer'.status = status /\ answer'.form = "default"
  BY DEF Default, Answer, NoAnswer
<1> QED
  BY <1>1 DEF ErrorsAreProblems, Supported

LEMMA RepliesFit ==
  ASSUME NEW status \in {200, 201, 202, 204}, Reply(status)
  PROVE  /\ at' = "answered" /\ answer'.status = status
         /\ ErrorsAreProblems'
<1>1. at' = "answered" /\ answer'.status = status
  BY DEF Reply, Answer, NoAnswer
<1>2. status \in 200 .. 299
  OBVIOUS
<1> QED
  BY <1>1, <1>2 DEF ErrorsAreProblems

LEMMA NotReadyFits ==
  ASSUME NotReady, UNCHANGED req, req.path = "readyz"
  PROVE  /\ at' = "answered" /\ answer'.status = 503
         /\ ErrorsAreProblems'
<1>1. /\ at' = "answered" /\ answer'.status = 503 /\ answer'.form = "problem"
      /\ answer'.type = "not-ready" /\ answer'.id = "none" /\ answer'.retry = FALSE
  BY DEF NotReady, Answer, NoAnswer
<1>2. TypeOf(503) = "not-ready"
  BY DEF TypeOf
<1> QED
  BY <1>1, <1>2 DEF ErrorsAreProblems

------------------------------------------------------------------------------
(* The steps.                                                              *)

LEMMA InitHolds == Init => IInv
<1> SUFFICES ASSUME Init PROVE IInv
  OBVIOUS
<1>1. Progress /\ Passed
  BY DEF Init, Progress, Passed, Stages
<1>2. StatusAsDocumented /\ ErrorsAreProblems /\ NothingBeforeTheGate
  BY DEF Init, StatusAsDocumented, ErrorsAreProblems, NothingBeforeTheGate, Answered
<1> QED
  BY <1>1, <1>2 DEF IInv

(* What depends on the request only does not change.                       *)
LEMMA RequestStays ==
  ASSUME UNCHANGED req
  PROVE  /\ Needs' = Needs /\ (Supported' <=> Supported) /\ (Creating' <=> Creating)
         /\ (Checked' <=> Checked) /\ (Entitled' <=> Entitled)
         /\ (BadParams' <=> BadParams) /\ (BodyRefused' <=> BodyRefused)
         /\ (NonNumeric' <=> NonNumeric) /\ Declared' = Declared
<1>1. req' = req
  OBVIOUS
<1>2. Needs' = Needs /\ (Creating' <=> Creating) /\ Listing' = Listing
  BY <1>1 DEF Needs, Creating, Listing
<1>3. (Supported' <=> Supported) /\ (Checked' <=> Checked) /\ (Entitled' <=> Entitled)
  BY <1>1, <1>2 DEF Supported, Checked, Entitled
<1>4. (BadParams' <=> BadParams) /\ (BodyRefused' <=> BodyRefused) /\ (NonNumeric' <=> NonNumeric)
  BY <1>1, <1>2 DEF BadParams, BodyRefused, NonNumeric
<1>5. Declared' = Declared
  BY <1>1, <1>2 DEF Declared
<1> QED
  BY <1>2, <1>3, <1>4, <1>5

(* A step that does not answer has only its stage to account for.          *)
LEMMA Onwards ==
  ASSUME Progress, UNCHANGED req, at' \in Stages \ {"received", "answered"},
         Progress', Passed'
  PROVE  IInv'
<1>1. StatusAsDocumented' /\ ErrorsAreProblems'
  BY DEF StatusAsDocumented, ErrorsAreProblems, Answered
<1>2. ending' = "none" /\ at' # "answered"
  BY DEF Progress
<1>3. ASSUME spent' PROVE req'.key \in DOMAIN Rank /\ ~(Creating' /\ req'.body = "bad")
  <2>1. at' \in {"validating", "handling"} /\ bucket' = "token"
    BY <1>3 DEF Progress, Stages
  <2>2. Supported /\ Entitled /\ ~(Checked /\ req.body = "bad")
    BY <2>1, RequestStays DEF Passed
  <2>3. req.key \in DOMAIN Rank
    BY <2>2, EntitledRank DEF Progress
  <2>4. ~(Creating /\ req.body = "bad")
    BY <2>2 DEF Creating, Checked
  <2> QED
    BY <2>3, <2>4, RequestStays
<1>4. NothingBeforeTheGate'
  BY <1>2, <1>3 DEF NothingBeforeTheGate, Answered
<1> QED
  BY <1>1, <1>4 DEF IInv

(* An answer that runs no handler and takes no token.                      *)
LEMMA Refused ==
  ASSUME UNCHANGED req, Progress, at' = "answered", spent' = FALSE, bucket' # "token",
         ending' = "none", StatusAsDocumented', ErrorsAreProblems'
  PROVE  IInv'
<1>1. Progress' /\ Passed'
  BY DEF Progress, Passed, Stages
<1>2. NothingBeforeTheGate'
  BY DEF NothingBeforeTheGate
<1> QED
  BY <1>1, <1>2 DEF IInv

LEMMA PreValidateHolds ==
  ASSUME IInv, PreValidate
  PROVE  IInv'
<1>1. /\ at = "received" /\ UNCHANGED <<req, signal, spent, ending, bucket>> /\ Progress
      /\ bucket = "none" /\ spent = FALSE /\ ending = "none"
  BY DEF PreValidate, outside, IInv, Progress
<1>2. CASE Checked /\ req.body = "garbled"
  <2>1. Problem(500)
    BY <1>2 DEF PreValidate, Checked
  <2>2. at' = "answered" /\ answer'.status = 500 /\ ErrorsAreProblems'
    BY <1>1, <2>1, ProblemsFit
  <2>3. \/ Creating /\ req.body = "garbled"
        \/ req.path = "tasks" /\ req.method \in {"PUT", "PATCH"} /\ req.body = "garbled"
    BY <1>2 DEF Checked, Creating
  <2>4. StatusAsDocumented'
    BY <1>1, <2>2, <2>3, RequestStays DEF StatusAsDocumented
  <2> QED
    BY <1>1, <2>2, <2>4, Refused
<1>3. CASE Checked /\ req.body = "bad"
  <2>1. Problem(422)
    BY <1>3 DEF PreValidate, Checked
  <2>2. at' = "answered" /\ answer'.status = 422 /\ ErrorsAreProblems'
    BY <1>1, <2>1, ProblemsFit
  <2>3. ASSUME Creating PROVE Documented' = 422
    <3>1. Supported /\ req.path # "other"
      BY <2>3, CreatingIsSupported DEF Supported
    <3> QED
      BY <1>1, <1>3, <2>3, <3>1, RequestStays DEF Documented
  <2>4. ASSUME ~Creating
        PROVE  req.path = "tasks" /\ req.method \in {"PUT", "PATCH"} /\ req.body = "bad"
    BY <1>3, <2>4 DEF Checked, Creating
  <2>5. StatusAsDocumented'
    BY <1>1, <2>2, <2>3, <2>4 DEF StatusAsDocumented
  <2> QED
    BY <1>1, <2>2, <2>5, Refused
<1>4. CASE ~(Checked /\ req.body \in {"garbled", "bad"})
  <2>1. at' = "routing"
    BY <1>4 DEF PreValidate, Checked
  <2>2. Progress'
    BY <1>1, <2>1 DEF Progress, Stages
  <2>3. Passed'
    BY <1>1, <1>4, <2>1, RequestStays DEF Passed
  <2> QED
    BY <1>1, <2>1, <2>2, <2>3, Onwards DEF Stages
<1> QED
  BY <1>2, <1>3, <1>4

LEMMA RouteHolds ==
  ASSUME IInv, Route
  PROVE  IInv'
<1>1. /\ at = "routing" /\ UNCHANGED <<req, signal, spent, ending, bucket>> /\ Progress
      /\ bucket = "none" /\ spent = FALSE /\ ending = "none"
      /\ ~(Checked /\ req.body \in {"garbled", "bad"})
  BY DEF Route, outside, IInv, Progress, Passed
<1>2. CASE req.path = "other"
  <2>1. Default(404) /\ ~Supported
    BY <1>2 DEF Route, Supported
  <2>2. at' = "answered" /\ answer'.status = 404 /\ ErrorsAreProblems'
    BY <1>1, <2>1, DefaultsFit
  <2>3. Documented' = 404
    BY <1>1, <1>2 DEF Documented
  <2> QED
    BY <1>1, <2>2, <2>3, Refused DEF StatusAsDocumented
<1>3. CASE req.path # "other" /\ req.method \notin DOMAIN Scope[req.path]
  <2>1. Default(405) /\ ~Supported
    BY <1>3 DEF Route, Supported
  <2>2. at' = "answered" /\ answer'.status = 405 /\ ErrorsAreProblems'
    BY <1>1, <2>1, DefaultsFit
  <2>3. Documented' = 405
    BY <1>1, <1>3, <2>1, RequestStays DEF Documented
  <2> QED
    BY <1>1, <2>2, <2>3, Refused DEF StatusAsDocumented
<1>4. CASE Supported
  <2>1. at' = IF Needs = "none" THEN "validating" ELSE "authenticating"
    BY <1>4 DEF Route, Supported
  <2>2. Progress'
    BY <1>1, <2>1 DEF Progress, Stages
  <2>3. Passed'
    BY <1>1, <1>4, <2>1, RequestStays DEF Passed
  <2> QED
    BY <1>1, <2>1, <2>2, <2>3, Onwards DEF Stages
<1> QED
  BY <1>2, <1>3, <1>4 DEF Supported

LEMMA NotYetRefused ==
  ASSUME Supported, ~(Checked /\ req.body \in {"garbled", "bad"})
  PROVE  req.path # "other" /\ ~(Creating /\ req.body \in {"garbled", "bad"})
BY DEF Supported, Checked, Creating

LEMMA AuthenticateHolds ==
  ASSUME IInv, Authenticate
  PROVE  IInv'
<1>1. /\ at = "authenticating" /\ UNCHANGED <<req, signal, spent, ending, bucket>> /\ Progress
      /\ bucket = "none" /\ spent = FALSE /\ ending = "none"
      /\ ~(Checked /\ req.body \in {"garbled", "bad"}) /\ Supported /\ Needs # "none"
  BY DEF Authenticate, outside, IInv, Progress, Passed
<1>2. CASE req.key \in {"missing", "invalid"}
  <2>1. Problem(401)
    BY <1>2 DEF Authenticate
  <2>2. at' = "answered" /\ answer'.status = 401 /\ ErrorsAreProblems'
    BY <1>1, <2>1, ProblemsFit
  <2>3. Documented' = 401
    BY <1>1, <1>2, RequestStays, NotYetRefused DEF Documented
  <2> QED
    BY <1>1, <2>2, <2>3, Refused DEF StatusAsDocumented
<1>3. CASE req.key \notin {"missing", "invalid"}
  <2>1. at' = "authorising"
    BY <1>3 DEF Authenticate
  <2>2. Progress'
    BY <1>1, <2>1 DEF Progress, Stages
  <2>3. Passed'
    BY <1>1, <1>3, <2>1, RequestStays DEF Passed
  <2> QED
    BY <1>1, <2>1, <2>2, <2>3, Onwards DEF Stages
<1> QED
  BY <1>2, <1>3

LEMMA AuthoriseHolds ==
  ASSUME IInv, Authorise
  PROVE  IInv'
<1>1. /\ at = "authorising" /\ UNCHANGED <<req, signal, spent, ending, bucket>> /\ Progress
      /\ bucket = "none" /\ spent = FALSE /\ ending = "none"
      /\ ~(Checked /\ req.body \in {"garbled", "bad"}) /\ Supported /\ Needs # "none"
      /\ req.key \notin {"missing", "invalid"}
  BY DEF Authorise, outside, IInv, Progress, Passed
<1>2. CASE Rank[req.key] < Rank[Needs]
  <2>1. Problem(403)
    BY <1>2 DEF Authorise
  <2>2. at' = "answered" /\ answer'.status = 403 /\ ErrorsAreProblems'
    BY <1>1, <2>1, ProblemsFit
  <2>3. Documented' = 403
    BY <1>1, <1>2, RequestStays, NotYetRefused DEF Documented
  <2> QED
    BY <1>1, <2>2, <2>3, Refused DEF StatusAsDocumented
<1>3. CASE ~(Rank[req.key] < Rank[Needs])
  <2>1. at' = "metering"
    BY <1>3 DEF Authorise
  <2>2. Progress'
    BY <1>1, <2>1 DEF Progress, Stages
  <2>3. Passed'
    BY <1>1, <1>3, <2>1, RequestStays DEF Passed, Entitled
  <2> QED
    BY <1>1, <2>1, <2>2, <2>3, Onwards DEF Stages
<1> QED
  BY <1>2, <1>3

LEMMA MeterHolds ==
  ASSUME IInv, NEW says \in {"token", "empty", "broken"}, Meter(says)
  PROVE  IInv'
<1>1. /\ at = "metering" /\ UNCHANGED <<req, signal, ending>> /\ Progress
      /\ bucket' = says /\ spent' = (says = "token") /\ ending = "none"
      /\ ~(Checked /\ req.body \in {"garbled", "bad"}) /\ Supported /\ Needs # "none" /\ Entitled
  BY DEF Meter, outside, IInv, Progress, Passed
<1>2. ASSUME NEW status \in {429, 500}, Problem(status), says # "token",
             status = 429 <=> says = "empty"
      PROVE  IInv'
  <2>1. at' = "answered" /\ answer'.status = status /\ ErrorsAreProblems'
    BY <1>1, <1>2, ProblemsFit
  <2>2. Documented' = status
    BY <1>1, <1>2, RequestStays, NotYetRefused DEF Documented, Entitled
  <2> QED
    BY <1>1, <1>2, <2>1, <2>2, Refused DEF StatusAsDocumented
<1>3. CASE says = "empty"
  BY <1>2, <1>3 DEF Meter
<1>4. CASE says = "broken"
  BY <1>2, <1>4 DEF Meter
<1>5. CASE says = "token"
  <2>1. at' = "validating"
    BY <1>5 DEF Meter
  <2>2. Progress'
    BY <1>1, <1>5, <2>1 DEF Progress, Stages
  <2>3. Passed'
    BY <1>1, <1>5, <2>1, RequestStays DEF Passed
  <2> QED
    BY <1>1, <2>1, <2>2, <2>3, Onwards DEF Stages
<1> QED
  BY <1>3, <1>4, <1>5

(* A request that has passed the gate: an answer with the documented       *)
(* status, or one of the named exceptions, is fit.                         *)
LEMMA AnswersFit ==
  ASSUME Progress, Passed, at \in {"validating", "handling"}, UNCHANGED <<req, spent, bucket>>,
         at' = "answered", ending' # "none" => at = "handling",
         answer'.status \notin {401, 403, 405, 429},
         StatusAsDocumented', ErrorsAreProblems'
  PROVE  IInv'
<1>1. Supported /\ ~(Checked /\ req.body \in {"garbled", "bad"})
      /\ ((Needs = "none" /\ bucket = "none") \/ (Entitled /\ bucket = "token"))
  BY DEF Passed
<1>2. Progress' /\ Passed'
  BY DEF Progress, Passed, Stages
<1>3. Entitled => Rank[req.key] >= Rank[Needs] /\ req.key \in DOMAIN Rank
  BY <1>1, EntitledRank DEF Progress
<1>4. ~(Creating /\ req.body = "bad")
  BY <1>1, NotYetRefused
<1>5. spent <=> bucket = "token"
  BY DEF Progress
<1>6. NothingBeforeTheGate'
  BY <1>1, <1>3, <1>4, <1>5, RequestStays DEF NothingBeforeTheGate
<1> QED
  BY <1>2, <1>6 DEF IInv

LEMMA ValidateHolds ==
  ASSUME IInv, Validate
  PROVE  IInv'
<1>1. /\ at = "validating" /\ UNCHANGED <<req, signal, spent, ending, bucket>>
      /\ Progress /\ Passed /\ ending = "none"
      /\ Supported /\ ~(Checked /\ req.body \in {"garbled", "bad"})
      /\ ((Needs = "none" /\ bucket = "none") \/ (Entitled /\ bucket = "token"))
  BY DEF Validate, outside, IInv, Progress, Passed
<1>2. CASE BadParams \/ BodyRefused
  <2>1. Problem(422)
    BY <1>2 DEF Validate
  <2>2. at' = "answered" /\ answer'.status = 422 /\ ErrorsAreProblems'
    BY <1>1, <2>1, ProblemsFit
  <2>3. Documented' = 422
    BY <1>1, <1>2, RequestStays, NotYetRefused DEF Documented, Entitled
  <2>4. StatusAsDocumented'
    BY <2>2, <2>3 DEF StatusAsDocumented
  <2> QED
    BY <1>1, <2>2, <2>4, AnswersFit
<1>3. CASE ~(BadParams \/ BodyRefused)
  <2>1. at' = "handling"
    BY <1>3 DEF Validate
  <2>2. Progress'
    BY <1>1, <2>1 DEF Progress, Stages
  <2>3. Passed'
    BY <1>1, <1>3, <2>1, RequestStays DEF Passed
  <2> QED
    BY <1>1, <2>1, <2>2, <2>3, Onwards DEF Stages
<1> QED
  BY <1>2, <1>3

LEMMA DeclaredSucceeds == Declared \in {200, 201, 202, 204}
BY DEF Declared

LEMMA HandleHolds ==
  ASSUME IInv, NEW end \in {"ok", "unknown", "duplicate", "raises"}, Handle(end)
  PROVE  IInv'
<1>1. /\ at = "handling" /\ UNCHANGED <<req, signal, spent, bucket>> /\ ending' = end
      /\ Progress /\ Passed
      /\ Supported /\ ~(Checked /\ req.body \in {"garbled", "bad"})
      /\ ((Needs = "none" /\ bucket = "none") \/ (Entitled /\ bucket = "token"))
      /\ ~BadParams /\ ~BodyRefused
  BY DEF Handle, outside, IInv, Passed
<1>2. /\ NonNumeric => end = "raises"
      /\ ~NonNumeric => end \in Endings(req.path, req.method)
  BY DEF Handle
<1>3. Ready' <=> Ready
  BY <1>1 DEF Ready
<1>4. req.path = "readyz" => end = "ok" /\ ~NonNumeric
  BY <1>2 DEF Endings, NonNumeric, Listing
<1>5. ~NonNumeric /\ ~(req.path = "readyz" /\ ~Ready) =>
        Documented' = CASE end = "unknown" -> 404
                        [] end = "duplicate" -> 409
                        [] end = "raises" -> 500
                        [] end = "ok" -> Declared
  BY <1>1, <1>3, RequestStays, NotYetRefused DEF Documented, Entitled
<1>6. CASE end = "unknown"
  <2>1. Problem(404)
    BY <1>6 DEF Handle
  <2>2. at' = "answered" /\ answer'.status = 404 /\ ErrorsAreProblems'
    BY <1>1, <2>1, ProblemsFit
  <2>3. Documented' = 404
    BY <1>2, <1>4, <1>5, <1>6
  <2> QED
    BY <1>1, <2>2, <2>3, AnswersFit DEF StatusAsDocumented
<1>7. CASE end = "duplicate"
  <2>1. Problem(422)
    BY <1>7 DEF Handle
  <2>2. at' = "answered" /\ answer'.status = 422 /\ ErrorsAreProblems'
    BY <1>1, <2>1, ProblemsFit
  <2>3. StatusAsDocumented'
    BY <1>1, <1>7, <2>2 DEF StatusAsDocumented
  <2> QED
    BY <1>1, <2>2, <2>3, AnswersFit
<1>8. CASE end = "raises"
  <2>1. Problem(500)
    BY <1>8 DEF Handle
  <2>2. at' = "answered" /\ answer'.status = 500 /\ ErrorsAreProblems'
    BY <1>1, <2>1, ProblemsFit
  <2>3. NonNumeric \/ Documented' = 500
    BY <1>4, <1>5, <1>8
  <2>4. StatusAsDocumented'
    BY <1>1, <2>2, <2>3, RequestStays DEF StatusAsDocumented
  <2> QED
    BY <1>1, <2>2, <2>4, AnswersFit
<1>9. CASE end = "ok" /\ req.path = "readyz" /\ ~Ready
  <2>1. NotReady
    BY <1>9 DEF Handle
  <2>2. at' = "answered" /\ answer'.status = 503 /\ ErrorsAreProblems'
    BY <1>1, <1>9, <2>1, NotReadyFits
  <2>3. Documented' = 503
    BY <1>1, <1>3, <1>4, <1>9, RequestStays, NotYetRefused DEF Documented, Entitled
  <2> QED
    BY <1>1, <2>2, <2>3, AnswersFit DEF StatusAsDocumented
<1>10. CASE end = "ok" /\ ~(req.path = "readyz" /\ ~Ready)
  <2>1. Reply(Declared)
    BY <1>10 DEF Handle
  <2>2. at' = "answered" /\ answer'.status = Declared /\ ErrorsAreProblems'
    BY <2>1, DeclaredSucceeds, RepliesFit
  <2>3. Documented' = Declared
    BY <1>2, <1>5, <1>10
  <2>4. StatusAsDocumented'
    BY <2>2, <2>3 DEF StatusAsDocumented
  <2>5. answer'.status \notin {401, 403, 405, 429}
    BY <2>2, DeclaredSucceeds
  <2> QED
    BY <1>1, <2>2, <2>4, <2>5, AnswersFit
<1> QED
  BY <1>6, <1>7, <1>8, <1>9, <1>10

LEMMA StepHolds == IInv /\ [Next]_vars => IInv'
<1> SUFFICES ASSUME IInv, [Next]_vars PROVE IInv'
  OBVIOUS
<1>1. ASSUME NEW says \in {"token", "empty", "broken"}, Meter(says) PROVE IInv'
  BY <1>1, MeterHolds
<1>2. ASSUME NEW end \in {"ok", "unknown", "duplicate", "raises"}, Handle(end) PROVE IInv'
  BY <1>2, HandleHolds
<1>3. CASE PreValidate \/ Route \/ Authenticate \/ Authorise \/ Validate
  BY <1>3, PreValidateHolds, RouteHolds, AuthenticateHolds, AuthoriseHolds, ValidateHolds
<1>4. CASE UNCHANGED vars
  <2>1. UNCHANGED <<req, at, spent, ending, bucket, signal, answer>>
    BY <1>4 DEF vars
  <2>2. Progress' /\ Passed'
    BY <2>1, RequestStays DEF IInv, Progress, Passed
  <2>3. StatusAsDocumented'
    BY <2>1 DEF IInv, StatusAsDocumented, Answered, Documented, Ready, Supported, Creating,
                Listing, Needs, BadParams, NonNumeric, BodyRefused, Declared
  <2>4. ErrorsAreProblems' /\ NothingBeforeTheGate'
    BY <2>1 DEF IInv, ErrorsAreProblems, NothingBeforeTheGate, Answered, Supported, Creating, Needs
  <2> QED
    BY <2>2, <2>3, <2>4 DEF IInv
<1> QED
  BY <1>1, <1>2, <1>3, <1>4 DEF Next

LEMMA PipelineInvariant == Spec => []IInv
BY InitHolds, StepHolds, PTL DEF Spec

------------------------------------------------------------------------------
(* The theorems.                                                           *)

(* Every answer has the documented status, but for the named exceptions.   *)
THEOREM AnswersAsDocumented == Spec => []StatusAsDocumented
<1>1. IInv => StatusAsDocumented
  BY DEF IInv
<1> QED
  BY <1>1, PipelineInvariant, PTL

(* Every failure is a problem document, but for the named exceptions.      *)
THEOREM FailuresAreProblems == Spec => []ErrorsAreProblems
<1>1. IInv => ErrorsAreProblems
  BY DEF IInv
<1> QED
  BY <1>1, PipelineInvariant, PTL

(* No handler runs and no token is spent before the gate has been passed.  *)
THEOREM GateComesFirst == Spec => []NothingBeforeTheGate
<1>1. IInv => NothingBeforeTheGate
  BY DEF IInv
<1> QED
  BY <1>1, PipelineInvariant, PTL
==============================================================================
