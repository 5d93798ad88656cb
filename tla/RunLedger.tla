------------------------------ MODULE RunLedger ------------------------------
(***************************************************************************)
(* What the execution endpoints promise a client that POSTs a run: the run *)
(* identifier returned by the 202 answer is opened once, it settles at     *)
(* most once, it leaves at most one row in the execution history, that row *)
(* appears only in the step in which the run settles and is never altered, *)
(* and history rows disappear, one at a time, only after their task has    *)
(* been deleted.  A deleted task stays deleted and no run is opened for it *)
(* any more; a run that is open at its deletion may still add its row, and *)
(* no promise is made as to which rows of a deleted task go.               *)
(***************************************************************************)
EXTENDS Integers

CONSTANTS Tasks,   (* task identifiers                                     *)
          Runs,    (* run identifiers (uuid4 values)                       *)
          TaskOf,  (* the task each run is posted for                      *)
          Exits    (* exit codes a history row may carry                   *)

VARIABLES phase,   (* phase[r]: how far run r has come                     *)
          ledger,  (* the execution history: a set of [run, exit] rows     *)
          gone     (* the tasks that have been deleted                     *)

lvars == <<phase, ledger, gone>>

Entry == [run: Runs, exit: Exits]

Init == /\ phase = [r \in Runs |-> "idle"]
        /\ ledger = {}
        /\ gone = {}

Open(r) == /\ phase[r] = "idle"
           /\ TaskOf[r] \notin gone
           /\ phase' = [phase EXCEPT ![r] = "open"]
           /\ UNCHANGED <<ledger, gone>>

\* A run settles with a history row, or without one when the store refused it.
Settle(r) == /\ phase[r] = "open"
             /\ phase' = [phase EXCEPT ![r] = "settled"]
             /\ \/ \E x \in Exits : ledger' = ledger \cup {[run |-> r, exit |-> x]}
                \/ UNCHANGED ledger
             /\ UNCHANGED gone

\* A run is lost: cancelled, or ended by an error nobody reports.
Lose(r) == /\ phase[r] = "open"
           /\ phase' = [phase EXCEPT ![r] = "lost"]
           /\ UNCHANGED <<ledger, gone>>

Delete(t) == /\ gone' = gone \cup {t}
             /\ UNCHANGED <<phase, ledger>>

\* A row of a deleted task is removed.
Purge(x) == /\ TaskOf[x.run] \in gone
            /\ ledger' = ledger \ {x}
            /\ UNCHANGED <<phase, gone>>

Next == \/ \E r \in Runs : Open(r) \/ Settle(r) \/ Lose(r)
        \/ \E t \in Tasks : Delete(t)
        \/ \E x \in ledger : Purge(x)

Spec == Init /\ [][Next]_lvars

==============================================================================
