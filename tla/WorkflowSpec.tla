---------------------------- MODULE WorkflowSpec ----------------------------
(***************************************************************************)
(* What the durable worker promises of the workflows that are submitted to it, *)
(* with no processes, queues, crashes or outages: each goes through its steps   *)
(* in order and does each of them once, waits at a boundary until it is          *)
(* released, and ends once, with success when every step is done and with an     *)
(* error only before that.                                                    *)
(***************************************************************************)
EXTENDS Naturals

CONSTANTS
    Workflows,
    Steps,     \* the steps of a workflow, in order
    Gated      \* steps that are done only after the release of their workflow

VARIABLES
    outcome,   \* of a workflow: absent, open, success or error
    done,      \* its steps that are done
    released   \* whether it has been released

vars == <<outcome, done, released>>

Init ==
    /\ outcome = [w \in Workflows |-> "absent"]
    /\ done = [w \in Workflows |-> {}]
    /\ released = [w \in Workflows |-> FALSE]

Left(w) == {i \in DOMAIN Steps[w] : Steps[w][i] \notin done[w]}
Submit(w) ==
    /\ outcome[w] = "absent"
    /\ outcome' = [outcome EXCEPT ![w] = "open"]
    /\ UNCHANGED <<done, released>>
Release(w) ==
    /\ ~released[w]
    /\ released' = [released EXCEPT ![w] = TRUE]
    /\ UNCHANGED <<outcome, done>>
Do(w) ==
    /\ outcome[w] = "open"
    /\ \E s \in {Steps[w][i] : i \in {i \in Left(w) : \A j \in Left(w) : i <= j}} :
          /\ s \in Gated => released[w]
          /\ done' = [done EXCEPT ![w] = @ \cup {s}]
    /\ UNCHANGED <<outcome, released>>
End(w) ==
    /\ outcome[w] = "open"
    /\ outcome' = [outcome EXCEPT ![w] = IF Left(w) = {} THEN "success" ELSE "error"]
    /\ UNCHANGED <<done, released>>

Next == \E w \in Workflows : Submit(w) \/ Release(w) \/ Do(w) \/ End(w)

Spec == Init /\ [][Next]_vars
=============================================================================
