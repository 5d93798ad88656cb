----------------------------- MODULE UnitOfWork -----------------------------
(***************************************************************************)
(* What session_scope promises of the block it surrounds                   *)
(* (repository/session.py, AC-6.2 and NFR-03): the block is applied to the *)
(* database as a whole or not at all, before the caller hears of it, and a *)
(* caller that returns without an exception has had it applied.            *)
(***************************************************************************)
CONSTANTS
  Scopes,       (* the uses of session_scope                                *)
  Contents,     (* what the database may hold to begin with                 *)
  Result(_, _)  (* Result(s, c): what the block of s makes of the content c *)

VARIABLES
  content,   (* what the database holds                                     *)
  phase      (* phase[s]: idle, open, applied, or how it ended              *)

uvars == <<content, phase>>

Init == content \in Contents /\ phase = [s \in Scopes |-> "idle"]

Moves(s, from, to) == phase[s] = from /\ phase' = [phase EXCEPT ![s] = to]

Open(s) == Moves(s, "idle", "open") /\ UNCHANGED content

Apply(s) == Moves(s, "open", "applied") /\ content' = Result(s, content)

(* After it was applied the scope returns, unless an interrupt or the end  *)
(* of the process comes in between; before, it can only fail.              *)
Settle(s) == /\ \/ \E end \in {"returned", "raised", "lost"} : Moves(s, "applied", end)
                \/ \E end \in {"raised", "lost"} : Moves(s, "open", end)
             /\ UNCHANGED content

\* The end of a process settles all the scopes it has open.
Lose(S) == /\ \A s \in S : phase[s] \in {"open", "applied"}
           /\ phase' = [s \in Scopes |-> IF s \in S THEN "lost" ELSE phase[s]]
           /\ UNCHANGED content

Next == \/ \E s \in Scopes : Open(s) \/ Apply(s) \/ Settle(s)
        \/ \E S \in SUBSET Scopes : Lose(S)

Spec == Init /\ [][Next]_uvars
==============================================================================
