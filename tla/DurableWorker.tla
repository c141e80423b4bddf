--------------------------- MODULE DurableWorker ---------------------------
(***************************************************************************)
(* backend/workflows: the resident worker, a one-off smoke run beside it, the  *)
(* two test workflows of the queue vespers-recovery-probe, and the readiness   *)
(* probe.                                                                     *)
(*                                                                          *)
(* DBOS is external: a step's result is recorded after the step has run, a      *)
(* launch recovers the pending workflows of its own executor, and a queue       *)
(* hands out work while fewer than its concurrency are pending.  A crash may     *)
(* come between any two steps.                                                *)
(***************************************************************************)
EXTENDS Integers, FiniteSets, Sequences, SequencesExt

CONSTANTS
    Procs,       \* which of "resident" and "smoke" run
    Workflows,   \* which of "recovery" and "adapter" are submitted
    MaxPolls,    \* polls in the boundary's 90 seconds: it begins with one
    MaxEnds,     \* stop signals, crashes and failed starts; bounds the model only
    MaxOutages   \* losses of the database; bounds the model only

ASSUME DurableWorkerAssumption ==
    /\ Procs \subseteq {"resident", "smoke"} /\ Workflows \subseteq {"recovery", "adapter"}
    /\ MaxPolls \in Nat \ {0} /\ MaxEnds \in Nat /\ MaxOutages \in Nat

\* The steps of each workflow in order; model turns of the adapter are steps as well.
StepsOf(w) == IF w = "recovery" THEN <<"completed", "boundary">> ELSE <<"first", "tool", "final">>
AllSteps == UNION {ToSet(StepsOf(w)) : w \in Workflows}
\* Steps that wait until the harness releases their workflow.
Boundaries == {"boundary", "final"}
\* Steps whose results DBOS records.
Durable_NotTool == {"completed", "boundary", "first", "final"}
Durable == {"completed", "boundary", "first", "tool", "final"}

VARIABLES
    phase,     \* of a process: down, launching, launched, serving, closing, destroyed
    stopped,   \* its stop event
    recover,   \* pending workflows its launch found and has not requeued yet
    at,        \* the step it executes of a workflow, or idle, return or raise
    stage,     \* of that step: start, ran, done, failed or refused
    polls,     \* polls left at a boundary
    db,        \* the database answers
    status,    \* of a workflow: absent, enqueued, pending, success or error
    owner,     \* the executor it was last handed to
    recorded,  \* its recorded steps
    raised,    \* the error of a step has been recorded
    released,  \* recovery_probe.control
    probe,     \* a readiness request
    effects,   \* how often each step took effect, those cut off before the record aside
    early,     \* the release preceded the boundary in progress
    ends, outages

proc == <<phase, stopped, recover>>
exec == <<at, stage, polls>>
store == <<status, owner, recorded, raised>>
ghosts == <<effects, early>>
vars == <<proc, exec, db, store, released, probe, ghosts, ends, outages>>

NoProbe == [pc |-> "none", stopped |-> FALSE]
Init ==
    /\ phase = [p \in Procs |-> "down"]
    /\ stopped = [p \in Procs |-> FALSE]
    /\ recover = [p \in Procs |-> {}]
    /\ at = [p \in Procs |-> [w \in Workflows |-> "idle"]]
    /\ stage = [p \in Procs |-> [w \in Workflows |-> "start"]]
    /\ polls = [p \in Procs |-> [w \in Workflows |-> 0]]
    /\ db = TRUE
    /\ status = [w \in Workflows |-> "absent"]
    /\ owner = [w \in Workflows |-> "none"]
    /\ recorded = [w \in Workflows |-> {}]
    /\ raised = [w \in Workflows |-> FALSE]
    /\ released = [w \in Workflows |-> FALSE]
    /\ probe = NoProbe
    /\ effects = [s \in AllSteps |-> 0]
    /\ early = [w \in Workflows |-> FALSE]
    /\ ends = 0 /\ outages = 0

Alive(p) == phase[p] \in {"launched", "serving", "closing", "destroyed"}
\* DBOS is up in the process: it records, recovers and serves its queues.
Launched(p) == phase[p] \in {"launched", "serving", "closing"} /\ db

-----------------------------------------------------------------------------
\* worker.main.
Start(p) ==
    /\ phase[p] = "down"
    /\ phase' = [phase EXCEPT ![p] = "launching"]
    /\ stopped' = [stopped EXCEPT ![p] = FALSE]
    /\ UNCHANGED <<recover, exec, db, store, released, probe, ghosts, ends, outages>>

Recoverable_None(p) == {}
\* A smoke run has an identity of its own, and so nothing to recover.
Recoverable_SharedIdentity(p) == {w \in Workflows : status[w] = "pending"}
Recoverable(p) == {w \in Workflows : status[w] = "pending" /\ owner[w] = p /\ p = "resident"}
StopFlag_Recreated(p) == FALSE
StopFlag(p) == stopped[p]
Launch(p) ==
    /\ phase[p] = "launching" /\ db
    /\ phase' = [phase EXCEPT ![p] = "launched"]
    /\ recover' = [recover EXCEPT ![p] = Recoverable(p)]
    /\ stopped' = [stopped EXCEPT ![p] = StopFlag(p)]
    /\ UNCHANGED <<exec, db, store, released, probe, ghosts, ends, outages>>

\* The readiness server is started; a smoke run goes to its end instead, as does a
\* worker whose port is taken.
Serve(p) ==
    /\ phase[p] = "launched"
    /\ IF p = "resident"
       THEN phase' = [phase EXCEPT ![p] = "serving"] /\ UNCHANGED stopped
       ELSE /\ phase' = [phase EXCEPT ![p] = "closing"]
            /\ stopped' = [stopped EXCEPT ![p] = TRUE]
    /\ UNCHANGED <<recover, exec, db, store, released, probe, ghosts, ends, outages>>
ServeFails ==
    /\ "resident" \in Procs /\ phase["resident"] = "launched" /\ ends < MaxEnds
    /\ phase' = [phase EXCEPT !["resident"] = "closing"]
    /\ stopped' = [stopped EXCEPT !["resident"] = TRUE]
    /\ ends' = ends + 1
    /\ UNCHANGED <<recover, exec, db, store, released, probe, ghosts, outages>>
Wake(p) ==
    /\ phase[p] = "serving" /\ stopped[p]
    /\ phase' = [phase EXCEPT ![p] = "closing"]
    /\ UNCHANGED <<stopped, recover, exec, db, store, released, probe, ghosts, ends, outages>>
\* server.shutdown, server_close and DBOS.destroy: a running step is not waited for.
Destroy(p) ==
    /\ phase[p] = "closing"
    /\ phase' = [phase EXCEPT ![p] = "destroyed"]
    /\ UNCHANGED <<stopped, recover, exec, db, store, released, probe, ghosts, ends, outages>>

\* The process is past the effect of a step, and the step is not recorded.
Ran(p, w, s) == at[p][w] = s /\ stage[p][w] \in {"ran", "done", "failed"}

\* What ends with the process.
Die(p) ==
    /\ phase' = [phase EXCEPT ![p] = "down"]
    /\ recover' = [recover EXCEPT ![p] = {}]
    /\ at' = [at EXCEPT ![p] = [w \in Workflows |-> "idle"]]
    /\ stage' = [stage EXCEPT ![p] = [w \in Workflows |-> "start"]]
    /\ polls' = [polls EXCEPT ![p] = [w \in Workflows |-> 0]]
    /\ effects' = [s \in AllSteps |-> effects[s] -
          Cardinality({w \in Workflows : Ran(p, w, s)})]
    /\ early' = [w \in Workflows |-> early[w] /\ at[p][w] = "idle"]
    /\ probe' = IF p = "resident" THEN NoProbe ELSE probe
    /\ UNCHANGED <<stopped, db, store, released, outages>>
Exit(p) == phase[p] = "destroyed" /\ Die(p) /\ UNCHANGED ends
LaunchFails(p) == phase[p] = "launching" /\ ~db /\ Die(p) /\ UNCHANGED ends
Crash(p) == phase[p] # "down" /\ ends < MaxEnds /\ Die(p) /\ ends' = ends + 1
Stop ==
    /\ "resident" \in Procs /\ ends < MaxEnds
    /\ phase["resident"] \in {"launching", "launched", "serving"}
    /\ stopped' = [stopped EXCEPT !["resident"] = TRUE]
    /\ ends' = ends + 1
    /\ UNCHANGED <<phase, recover, exec, db, store, released, probe, ghosts, outages>>

-----------------------------------------------------------------------------
\* DBOS, external.
Enqueue(w) ==
    /\ status[w] = "absent" /\ db
    /\ status' = [status EXCEPT ![w] = "enqueued"]
    /\ UNCHANGED <<proc, exec, db, owner, recorded, raised, released, probe, ghosts, ends, outages>>
Recover(p, w) ==
    /\ w \in recover[p] /\ Launched(p)
    /\ recover' = [recover EXCEPT ![p] = @ \ {w}]
    /\ status[w] = "pending"
    /\ status' = [status EXCEPT ![w] = "enqueued"] /\ owner' = [owner EXCEPT ![w] = "none"]
    /\ UNCHANGED <<phase, stopped, exec, db, recorded, raised, released, probe, ghosts,
                   ends, outages>>

\* Queue(..., concurrency=1)
Concurrency_Two == 2
Concurrency == 1
\* Where a workflow goes on: recorded steps are not run again.
Resume(w, record, error) ==
    LET left == {i \in DOMAIN StepsOf(w) : StepsOf(w)[i] \notin record}
    IN IF error THEN "raise" ELSE IF left = {} THEN "return"
       ELSE StepsOf(w)[CHOOSE i \in left : \A j \in left : i <= j]
Dequeue(p, w) ==
    /\ Launched(p) /\ status[w] = "enqueued"
    /\ Cardinality({v \in Workflows : status[v] = "pending"}) < Concurrency
    /\ status' = [status EXCEPT ![w] = "pending"] /\ owner' = [owner EXCEPT ![w] = p]
    /\ at' = [at EXCEPT ![p][w] = Resume(w, recorded[w], raised[w])]
    /\ stage' = [stage EXCEPT ![p][w] = "start"]
    /\ UNCHANGED <<proc, polls, db, recorded, raised, released, probe, ghosts, ends, outages>>

\* The step's own transaction.
Deadline_Kept(p, w) == IF ends = 0 THEN MaxPolls ELSE 0
Deadline(p, w) == MaxPolls
Effect(p, w) ==
    /\ Alive(p) /\ db /\ at[p][w] \in AllSteps /\ stage[p][w] = "start"
    /\ effects' = [effects EXCEPT ![at[p][w]] = @ + 1]
    /\ IF at[p][w] \in Boundaries
       THEN /\ polls' = [polls EXCEPT ![p][w] = Deadline(p, w)]
            /\ early' = [early EXCEPT ![w] = released[w]]
            /\ stage' = [stage EXCEPT ![p][w] = "ran"]
       ELSE /\ stage' = [stage EXCEPT ![p][w] = "done"]
            /\ UNCHANGED <<polls, early>>
    /\ UNCHANGED <<proc, at, db, store, released, probe, ends, outages>>
Poll(p, w) ==
    /\ Alive(p) /\ db /\ stage[p][w] = "ran" /\ polls[p][w] > 0
    /\ IF released[w]
       THEN stage' = [stage EXCEPT ![p][w] = "done"] /\ polls' = [polls EXCEPT ![p][w] = 0]
       ELSE stage' = stage /\ polls' = [polls EXCEPT ![p][w] = @ - 1]
    /\ UNCHANGED <<proc, at, db, store, released, probe, ghosts, ends, outages>>
OnDeadline_Returns == "done"
OnDeadline == "failed"
TimeOut(p, w) ==
    /\ Alive(p) /\ stage[p][w] = "ran" /\ polls[p][w] = 0
    /\ stage' = [stage EXCEPT ![p][w] = OnDeadline]
    /\ UNCHANGED <<proc, at, polls, db, store, released, probe, ghosts, ends, outages>>
\* A connection of the step is refused.
Disconnected(p, w) ==
    /\ Alive(p) /\ ~db /\ at[p][w] \in AllSteps
    /\ stage' = [stage EXCEPT ![p][w] =
          IF @ = "start" THEN "refused" ELSE "failed"]
    /\ stage[p][w] \in {"start", "ran"}
    /\ polls' = [polls EXCEPT ![p][w] = 0]
    /\ UNCHANGED <<proc, at, db, store, released, probe, ghosts, ends, outages>>

\* The result or the error of the step is recorded, and the workflow goes on.
After(w, s) == IF s = Last(StepsOf(w)) THEN "return"
               ELSE StepsOf(w)[1 + CHOOSE i \in DOMAIN StepsOf(w) : StepsOf(w)[i] = s]
Record(p, w) ==
    /\ Launched(p) /\ at[p][w] \in AllSteps
    /\ \/ /\ stage[p][w] = "done"
          /\ recorded' = [recorded EXCEPT ![w] = @ \cup ({at[p][w]} \cap Durable)]
          /\ at' = [at EXCEPT ![p][w] = After(w, at[p][w])] /\ UNCHANGED raised
       \/ /\ stage[p][w] \in {"failed", "refused"}
          /\ raised' = [raised EXCEPT ![w] = TRUE]
          /\ at' = [at EXCEPT ![p][w] = "raise"] /\ UNCHANGED recorded
    /\ stage' = [stage EXCEPT ![p][w] = "start"] /\ early' = [early EXCEPT ![w] = FALSE]
    /\ UNCHANGED <<proc, polls, db, status, owner, released, probe, effects, ends, outages>>
Finish(p, w) ==
    /\ Launched(p) /\ at[p][w] \in {"return", "raise"}
    /\ status' = [status EXCEPT ![w] = IF at[p][w] = "return" THEN "success" ELSE "error"]
    /\ at' = [at EXCEPT ![p][w] = "idle"] /\ owner' = [owner EXCEPT ![w] = "none"]
    /\ UNCHANGED <<proc, stage, polls, db, recorded, raised, released, probe, ghosts,
                   ends, outages>>

-----------------------------------------------------------------------------
\* The harness releases a boundary; the database is lost and comes back.
Release(w) ==
    /\ ~released[w] /\ db
    /\ released' = [released EXCEPT ![w] = TRUE]
    /\ UNCHANGED <<proc, exec, db, store, probe, ghosts, ends, outages>>
Lose ==
    /\ db /\ outages < MaxOutages
    /\ db' = FALSE /\ outages' = outages + 1
    /\ UNCHANGED <<proc, exec, store, released, probe, ghosts, ends>>
Reconnect ==
    /\ ~db /\ db' = TRUE
    /\ UNCHANGED <<proc, exec, store, released, probe, ghosts, ends, outages>>

\* readiness.main connects; probe.stopped remembers the stop event at that moment.
Probe ==
    /\ "resident" \in Procs /\ probe.pc = "none"
    /\ phase["resident"] \in {"serving", "closing"}
    /\ probe' = [pc |-> "connected", stopped |-> stopped["resident"]]
    /\ UNCHANGED <<proc, exec, db, store, released, ghosts, ends, outages>>
\* Handler.do_GET
Healthy_AnyTime == TRUE
Healthy == ~stopped["resident"]
ReadFlag ==
    /\ probe.pc = "connected"
    /\ probe' = IF Healthy THEN [probe EXCEPT !.pc = "checking"] ELSE NoProbe
    /\ UNCHANGED <<proc, exec, db, store, released, ghosts, ends, outages>>
\* SELECT 1, and the answer: 200 if the database is there.
CheckDatabase ==
    /\ probe.pc = "checking"
    /\ probe' = NoProbe
    /\ UNCHANGED <<proc, exec, db, store, released, ghosts, ends, outages>>

\* compose.yaml restarts a worker that ends (restart: unless-stopped), an operator one that
\* was stopped, and the database comes back.  The main thread of the resident and those
\* that recover and execute workflows get on; a smoke run need not.
Main(p) ==
    Start(p) \/ Launch(p) \/ LaunchFails(p) \/ Serve(p) \/ Wake(p) \/ Destroy(p) \/ Exit(p)
Execution(p) ==
    \E w \in Workflows :
        \/ Recover(p, w) \/ Dequeue(p, w) \/ Effect(p, w) \/ Poll(p, w) \/ TimeOut(p, w)
        \/ Disconnected(p, w) \/ Record(p, w) \/ Finish(p, w)
Next ==
    \/ \E p \in Procs : Main(p) \/ Execution(p) \/ Crash(p)
    \/ \E w \in Workflows : Enqueue(w) \/ Release(w)
    \/ Stop \/ ServeFails \/ Lose \/ Reconnect
    \/ Probe \/ ReadFlag \/ CheckDatabase

Spec == Init /\ [][Next]_vars
FairSpec ==
    /\ Spec /\ WF_vars(Reconnect)
    /\ "resident" \in Procs => WF_vars(Main("resident")) /\ WF_vars(Execution("resident"))

-----------------------------------------------------------------------------
TypeOK ==
    /\ phase \in [Procs -> {"down", "launching", "launched", "serving", "closing", "destroyed"}]
    /\ stopped \in [Procs -> BOOLEAN] /\ recover \in [Procs -> SUBSET Workflows]
    /\ at \in [Procs -> [Workflows -> AllSteps \cup {"idle", "return", "raise"}]]
    /\ stage \in [Procs -> [Workflows -> {"start", "ran", "done", "failed", "refused"}]]
    /\ polls \in [Procs -> [Workflows -> 0 .. MaxPolls]]
    /\ db \in BOOLEAN /\ ends \in 0 .. MaxEnds /\ outages \in 0 .. MaxOutages
    /\ status \in [Workflows -> {"absent", "enqueued", "pending", "success", "error"}]
    /\ owner \in [Workflows -> Procs \cup {"none"}]
    /\ recorded \in [Workflows -> SUBSET AllSteps] /\ raised \in [Workflows -> BOOLEAN]
    /\ released \in [Workflows -> BOOLEAN]
    /\ probe \in [pc : {"none", "connected", "checking"}, stopped : BOOLEAN]
    /\ effects \in [AllSteps -> Nat]
    /\ early \in [Workflows -> BOOLEAN]

\* docs/local-verification.md:115 and run.py:453, :513: recovery skips what is recorded.
\* A step takes effect once more only for a process that ended between its effect and
\* its record; a recorded one never does.
EffectsExplained == \A s \in AllSteps : effects[s] <= 1

\* docs/local-verification.md:110: stable and one-off identities and a queue of
\* concurrency 1 keep any two executions apart, across processes and recoveries.
OneAtATime ==
    \A p, q \in Procs, v, w \in Workflows :
        (at[p][v] # "idle" /\ at[q][w] # "idle") => p = q /\ v = w

\* What a process executes is what the queue gave it, and where it is follows from the
\* records.  A boundary is left only when released, and sees an earlier release at once.
ExecutionOK ==
    \A p \in Procs, w \in Workflows :
        /\ at[p][w] # "idle" =>
              /\ Alive(p) /\ status[w] = "pending" /\ owner[w] = p
              /\ at[p][w] = Resume(w, recorded[w], raised[w])
        /\ at[p][w] \notin AllSteps => stage[p][w] = "start"
        /\ stage[p][w] = "ran" => at[p][w] \in Boundaries
        /\ stage[p][w] = "done" /\ at[p][w] \in Boundaries => released[w]
        /\ stage[p][w] = "ran" /\ early[w] => released[w] /\ polls[p][w] > 0
        /\ w \in recover[p] => /\ p = "resident" /\ at[p][w] = "idle"
                               /\ status[w] = "pending" /\ owner[w] = p
OnePending ==
    \A v, w \in Workflows : status[v] = "pending" /\ status[w] = "pending" => v = w

\* Steps are recorded in order, and a boundary only after its release.
InOrder(w, record) ==
    \A i \in DOMAIN StepsOf(w) :
        i > 1 /\ StepsOf(w)[i] \in record => StepsOf(w)[i - 1] \in record
RecordOK ==
    \A w \in Workflows :
        /\ recorded[w] \subseteq ToSet(StepsOf(w)) /\ InOrder(w, recorded[w])
        /\ recorded[w] \cap Boundaries # {} => released[w]
        /\ status[w] = "success" => recorded[w] = ToSet(StepsOf(w))
        /\ raised[w] => recorded[w] # ToSet(StepsOf(w))

\* A step has taken effect if it is recorded or past its effect, and otherwise only if it
\* is the one whose error ended its workflow.
EffectOK ==
    \A w \in Workflows : \A s \in ToSet(StepsOf(w)) :
        LET ran == s \in recorded[w] \/ \E p \in Procs : Ran(p, w, s)
        IN /\ ran => effects[s] = 1
           /\ ~ran => effects[s] = 0 \/ (raised[w] /\ effects[s] = 1)

\* A probe remembers of the stop no more than is still so.
ProbeOK ==
    /\ probe.pc # "none" => "resident" \in Procs /\ phase["resident"] # "down"
    /\ probe.pc = "connected" /\ probe.stopped => stopped["resident"]
    /\ probe.pc = "checking" => ~probe.stopped

WorkerInv ==
    /\ TypeOK /\ OneAtATime
    /\ ExecutionOK /\ OnePending /\ RecordOK /\ EffectOK /\ ProbeOK

\* A workflow succeeds only after its release and with every step done, however often
\* it was interrupted and whatever its deadlines did.
SuccessIsEarned ==
    \A w \in Workflows : status[w] = "success" =>
        released[w] /\ \A s \in ToSet(StepsOf(w)) : effects[s] >= 1

\* recovery_probe.py:34: each attempt has a deadline of its own, so a release that came
\* before the attempt, as the harness gives it while the worker is dead, is always seen.
TimeoutIsDeserved ==
    [][\A p \in Procs, w \in Workflows :
          (db /\ stage[p][w] = "ran" /\ stage'[p][w] = "failed") => ~early[w]]_vars

\* docs/local-verification.md:84-90: a probe that began after the stop is never answered
\* ready, although handlers outlive the server's loop and the stop may come meanwhile.
Ready == CheckDatabase /\ db
ProbeIsHonest == [][Ready => ~probe.stopped]_vars

\* docs/local-verification.md:115, "replay ... skips its previously recorded completed
\* step": to whoever submitted it, a workflow does each step once and in order and ends
\* once, as if there were no crash, stop, outage or recovery, and no record is ever lost.
Promise == INSTANCE WorkflowSpec
    WITH Steps <- [w \in Workflows |-> StepsOf(w)], Gated <- Boundaries, done <- recorded,
         outcome <- [w \in Workflows |->
             IF status[w] \in {"enqueued", "pending"} THEN "open" ELSE status[w]]
ImplementsPromise == Promise!Spec

\* Submitted work ends through crashes, stops and outages, unless a smoke run beside the
\* resident takes it from the queue: nobody recovers the identity of one that has ended.
Taken == \E v \in Workflows : owner[v] = "smoke"
WorkEnds ==
    \A w \in Workflows :
        status[w] \in {"enqueued", "pending"} ~> status[w] \in {"success", "error"} \/ Taken

\* A stop signal ends the process whenever it comes after the handlers are installed,
\* during the launch too.
StopEnds ==
    "resident" \in Procs =>
        (stopped["resident"] /\ phase["resident"] # "down" ~> phase["resident"] = "down")
=============================================================================
