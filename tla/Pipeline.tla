------------------------------- MODULE Pipeline -------------------------------
(***************************************************************************)
(* One request on its way through the application (app.py): the middleware *)
(* that validates bodies early, the router, the dependencies of the route  *)
(* (api/deps.py), the validation of parameters, the handler (api/tasks.py, *)
(* api/metrics.py, api/health.py), and the exception handlers that render  *)
(* what was raised on the way (app.py, errors.py).  Requests share nothing *)
(* here: the bucket of the key and the store are modelled in RateLimit and *)
(* TaskStore, and appear as what they answer.                              *)
(*                                                                         *)
(* The order of router, dependencies, parameters and body is that of       *)
(* FastAPI 0.115; what the router itself refuses is raised as Starlette's  *)
(* HTTPException, which the handler app.py registers does not see.         *)
(***************************************************************************)
EXTENDS Integers

CONSTANTS
  Methods,   (* the methods clients use                                     *)
  Ids,       (* X-Correlation-Id: "absent", "blank", "given"                *)
  Signals    (* what check_db and check_migration_head may answer together; *)
             (* at this commit both are stand-ins, which tests replace      *)

ASSUME PipelineAssumption ==
  /\ Ids \subseteq {"absent", "blank", "given"}
  /\ Signals \subseteq [db: BOOLEAN, head: BOOLEAN]

Rank == [none |-> 0, read |-> 1, write |-> 2, admin |-> 3]
Keys == {"missing", "invalid", "read", "write", "admin"}

(* The routes and the scope each asks for; probes ask for no key.  A body  *)
(* is declared by POST /v1/tasks only, which is also the first route of    *)
(* its path.                                                               *)
Scope == [tasks   |-> [POST |-> "write", GET |-> "read"],
          task    |-> [GET |-> "read", DELETE |-> "admin"],
          run     |-> [POST |-> "write"],
          runs    |-> [GET |-> "read"],
          metrics |-> [GET |-> "admin"],
          healthz |-> [GET |-> "none"],
          readyz  |-> [GET |-> "none"]]
Paths == DOMAIN Scope \cup {"other"}

(* How a handler may end, besides well: 404 for a task that is not there,  *)
(* the ValueError of a duplicate name, any other exception (a dictionary   *)
(* that changed under a loop).                                             *)
Endings(path, method) ==
  CASE path = "tasks" /\ method = "POST" -> {"ok", "duplicate", "raises"}
    [] path \in {"task", "run"} /\ method # "DELETE" -> {"ok", "unknown"}
    [] path \in {"metrics", "healthz", "readyz"} -> {"ok"}
    [] OTHER -> {"ok", "raises"}

(* Bodies: none, not UTF-8, not what TaskCreate asks for, good, and good   *)
(* JSON that is declared to be of another content type.                    *)
(* Parameters: well formed, refused by their declaration (an identifier    *)
(* that is no UUID, a limit out of range), a cursor that is no number.     *)
Bodies == {"none", "garbled", "bad", "good", "mistyped"}
Params == {"good", "bad", "cursor"}

Requests == [path: Paths, method: Methods, body: Bodies, key: Keys, params: Params, id: Ids]

VARIABLES
  req,       (* the request                                                 *)
  at,        (* the stage it has reached                                    *)
  spent,     (* it has taken a token                                        *)
  ending,    (* how its handler ended; "none" if it has not run             *)
  bucket,    (* what the rate limit said; "none" before                     *)
  signal,    (* what the readiness checks say                               *)
  answer     (* the response                                                *)

vars == <<req, at, spent, ending, bucket, signal, answer>>
outside == <<req, signal>>

NoAnswer == [status |-> 0, form |-> "none", type |-> "none", id |-> "none", retry |-> FALSE]

Init == /\ req \in Requests
        /\ at = "received"
        /\ spent = FALSE
        /\ ending = "none"
        /\ bucket = "none"
        /\ signal \in Signals
        /\ answer = NoAnswer

Needs == Scope[req.path][req.method]
Creating == req.path = "tasks" /\ req.method = "POST"
Listing == req.path = "tasks" /\ req.method = "GET"

\* What FastAPI refuses of the bodies that the middleware let pass.
BodyRefused == Creating /\ req.body \in {"none", "mistyped"}

\* What the parameters a route declares, an identifier or a limit, refuse.
BadParams == req.params = "bad" /\ (Listing \/ req.path \in {"task", "run", "runs"})
NonNumeric == req.params = "cursor" /\ Listing

------------------------------------------------------------------------------
(* Rendering: STATUS_TYPE_MAP, problem_response and the handlers.          *)

TypeOf(status) ==
  CASE status = 422 -> "validation"
    [] status = 401 -> "unauthenticated"
    [] status = 403 -> "forbidden"
    [] status = 404 -> "not-found"
    [] status = 409 -> "conflict"
    [] status = 429 -> "rate-limited"
    [] status = 503 -> "not-ready"
    [] status = 500 -> "internal"
    [] OTHER -> "http"

\* Mutant: a header of blanks is taken for an identifier.
CorrelationUnstripped == IF req.id = "absent" THEN "fresh" ELSE req.id

Correlation == IF req.id = "given" THEN "given" ELSE "fresh"

Answer(a) == at' = "answered" /\ answer' = a

Document(status) == [status |-> status, form |-> "problem", type |-> TypeOf(status),
                     id |-> Correlation, retry |-> status = 429]

Problem(status) == Answer(Document(status))

\* FastAPI's own rendering of what Starlette's router raises.
Default(status) == Answer([NoAnswer EXCEPT !.status = status, !.form = "default"])

Reply(status) == Answer([NoAnswer EXCEPT !.status = status, !.form = "result"])

\* The document readyz builds itself, without the two identifiers.
NotReady == Answer([NoAnswer EXCEPT !.status = 503, !.form = "problem", !.type = "not-ready"])

------------------------------------------------------------------------------
(* The stages.                                                             *)

(* The middleware looks for a route whose path template is the path of the *)
(* request, whatever its method and content type.  A body that is not      *)
(* UTF-8 is no JSONDecodeError.                                            *)
PreValidate ==
  LET checked == req.method \in {"POST", "PUT", "PATCH"} /\ req.path = "tasks" IN
  /\ at = "received"
  /\ CASE checked /\ req.body = "garbled" -> Problem(500)
       [] checked /\ req.body = "bad" -> Problem(422)
       [] OTHER -> at' = "routing" /\ UNCHANGED answer
  /\ UNCHANGED <<outside, spent, ending, bucket>>

\* Mutant: the routes are registered without their dependencies.
RouteUnguarded ==
  /\ at = "routing"
  /\ CASE req.path = "other" -> Default(404)
       [] req.path # "other" /\ req.method \notin DOMAIN Scope[req.path] -> Default(405)
       [] OTHER -> at' = "validating" /\ UNCHANGED answer
  /\ UNCHANGED <<outside, spent, ending, bucket>>

Route ==
  /\ at = "routing"
  /\ CASE req.path = "other" -> Default(404)
       [] req.path # "other" /\ req.method \notin DOMAIN Scope[req.path] -> Default(405)
       [] OTHER -> /\ at' = IF Needs = "none" THEN "validating" ELSE "authenticating"
                   /\ UNCHANGED answer
  /\ UNCHANGED <<outside, spent, ending, bucket>>

Authenticate ==
  /\ at = "authenticating"
  /\ IF req.key \in {"missing", "invalid"} THEN Problem(401)
     ELSE at' = "authorising" /\ UNCHANGED answer
  /\ UNCHANGED <<outside, spent, ending, bucket>>

Authorise ==
  /\ at = "authorising"
  /\ IF Rank[req.key] < Rank[Needs] THEN Problem(403)
     ELSE at' = "metering" /\ UNCHANGED answer
  /\ UNCHANGED <<outside, spent, ending, bucket>>

\* check_rate_limit; the database may refuse to answer.
Meter(says) ==
  /\ at = "metering"
  /\ bucket' = says
  /\ spent' = (says = "token")
  /\ CASE says = "token" -> at' = "validating" /\ UNCHANGED answer
       [] says = "empty" -> Problem(429)
       [] says = "broken" -> Problem(500)
  /\ UNCHANGED <<outside, ending>>

\* Mutant: what the declarations refuse is left to the handler.
ValidateBodyOnly ==
  /\ at = "validating"
  /\ IF BodyRefused THEN Problem(422)
     ELSE at' = "handling" /\ UNCHANGED answer
  /\ UNCHANGED <<outside, spent, ending, bucket>>

\* Path and query first, then the body, which may be missing or no JSON by its
\* declaration.
Validate ==
  /\ at = "validating"
  /\ IF BadParams \/ BodyRefused THEN Problem(422)
     ELSE at' = "handling" /\ UNCHANGED answer
  /\ UNCHANGED <<outside, spent, ending, bucket>>

\* The status a route declares.
Declared == CASE Creating -> 201
              [] req.path = "task" /\ req.method = "DELETE" -> 204
              [] req.path = "run" -> 202
              [] OTHER -> 200

Ready == signal.db /\ signal.head

\* readyz_response fails closed; int(cursor) raises and nobody catches it.
Handle(end) ==
  /\ at = "handling"
  /\ end \in IF NonNumeric THEN {"raises"} ELSE Endings(req.path, req.method)
  /\ ending' = end
  /\ CASE end = "unknown" -> Problem(404)
       [] end = "duplicate" -> Problem(422)
       [] end = "raises" -> Problem(500)
       [] end = "ok" /\ req.path = "readyz" /\ ~Ready -> NotReady
       [] OTHER -> Reply(Declared)
  /\ UNCHANGED <<outside, spent, bucket>>

Next == \/ PreValidate \/ Route \/ Authenticate \/ Authorise \/ Validate
        \/ \E says \in {"token", "empty", "broken"} : Meter(says)
        \/ \E end \in {"ok", "unknown", "duplicate", "raises"} : Handle(end)

Spec == Init /\ [][Next]_vars

------------------------------------------------------------------------------
Answered == at = "answered"
Supported == req.path # "other" /\ req.method \in DOMAIN Scope[req.path]

(* The documented answer (SPEC.md sections 3 and 7): for a request the     *)
(* routes know, an invalid body comes before the key (AC-10.1), then key,  *)
(* scope, rate limit, parameters and the business rules.  A body that is   *)
(* missing, or JSON under another content type, is FastAPI's to refuse,    *)
(* with the parameters.                                                    *)
Documented ==
  IF req.path = "other" THEN 404
  ELSE IF ~Supported THEN 405
  ELSE IF Creating /\ req.body \in {"garbled", "bad"} THEN 422
  ELSE IF Needs # "none" /\ req.key \in {"missing", "invalid"} THEN 401
  ELSE IF Needs # "none" /\ Rank[req.key] < Rank[Needs] THEN 403
  ELSE IF bucket = "empty" THEN 429
  ELSE IF bucket = "broken" THEN 500
  ELSE IF BadParams \/ NonNumeric \/ BodyRefused THEN 422
  ELSE IF req.path = "readyz" /\ ~Ready THEN 503
  ELSE IF ending = "unknown" THEN 404
  ELSE IF ending = "duplicate" THEN 409
  ELSE IF ending = "raises" THEN 500
  ELSE Declared

(* Every answer has the documented status, except in four cases: a body    *)
(* that is not UTF-8 and a cursor that is no number give 500, a duplicate  *)
(* name 422, and a method that /v1/tasks does not have gets the verdict on *)
(* its body instead of 405.                                                *)
StatusAsDocumented ==
  Answered =>
    \/ answer.status = Documented
    \/ Creating /\ req.body = "garbled" /\ answer.status = 500
    \/ NonNumeric /\ answer.status = 500
    \/ ending = "duplicate" /\ answer.status = 422
    \/ /\ req.path = "tasks" /\ req.method \in {"PUT", "PATCH"}
       /\ <<req.body, answer.status>> \in {<<"garbled", 500>>, <<"bad", 422>>}

(* Every answer that is no success is a problem document of the type its   *)
(* status has, with the caller's correlation identifier or a fresh one,    *)
(* and a Retry-After if it is 429 (AC-10.1, 10.2, 10.4, 10.5).  Not so for *)
(* what the router refuses, and readyz sends its document without the      *)
(* identifiers.                                                            *)
ErrorsAreProblems ==
  Answered /\ answer.status \notin 200..299 =>
    \/ /\ answer.form = "problem"
       /\ answer.type = TypeOf(answer.status) /\ answer.type # "http"
       /\ \/ answer.id = IF req.id = "given" THEN "given" ELSE "fresh"
          \/ req.path = "readyz" /\ answer.status = 503 /\ answer.id = "none"
       /\ answer.retry <=> answer.status = 429
    \/ ~Supported /\ answer.status \in {404, 405} /\ answer.form = "default"

(* Nothing of a handler under /v1 runs without a key of sufficient scope   *)
(* and a token, and what is refused before that, an invalid body included, *)
(* costs no token (AC-3.1, AC-4.1, AC-5.4).                                *)
NothingBeforeTheGate ==
  /\ ending # "none" => Needs = "none" \/ (spent /\ Rank[req.key] >= Rank[Needs])
  /\ Answered /\ answer.status \in {401, 403, 405, 429} => ~spent /\ ending = "none"
  /\ spent => req.key \in DOMAIN Rank /\ ~(Creating /\ req.body = "bad")
==============================================================================
