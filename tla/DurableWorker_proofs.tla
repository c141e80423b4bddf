------------------------ MODULE DurableWorker_proofs ------------------------
(***************************************************************************)
(* Proofs about DurableWorker: whatever crashes, stops and outages do, a step  *)
(* takes effect at most once, a workflow succeeds only when it was released    *)
(* and every step was done, a boundary that was released before its attempt    *)
(* never times out, and no probe is answered ready after the stop it saw.       *)
(*                                                                          *)
(* The records alone say where a workflow stands (Resume): the invariant ties   *)
(* what a process executes, and what has taken effect, to them.                 *)
(***************************************************************************)
EXTENDS DurableWorker, FiniteSetTheorems, TLAPS

\* A function of processes and workflows, changed at one of each.
LEMMA Nested ==
    ASSUME NEW A, NEW B, NEW S, NEW f \in [A -> [B -> S]], NEW a \in A, NEW b \in B,
           NEW x \in S, NEW g, g = [f EXCEPT ![a][b] = x]
    PROVE  /\ g \in [A -> [B -> S]]
           /\ \A c \in A, d \in B : g[c][d] = IF c = a /\ d = b THEN x ELSE f[c][d]
OBVIOUS

-----------------------------------------------------------------------------
\* The steps of the workflows.
LEMMA StepsAre ==
    /\ ToSet(StepsOf("recovery")) = {"completed", "boundary"}
    /\ ToSet(StepsOf("adapter")) = {"first", "tool", "final"}
    /\ DOMAIN StepsOf("recovery") = 1 .. 2 /\ DOMAIN StepsOf("adapter") = 1 .. 3
    /\ StepsOf("recovery")[1] = "completed" /\ StepsOf("recovery")[2] = "boundary"
    /\ StepsOf("adapter")[1] = "first" /\ StepsOf("adapter")[2] = "tool"
    /\ StepsOf("adapter")[3] = "final"
BY DEF StepsOf, ToSet

LEMMA WorkflowIs == ASSUME NEW w \in Workflows PROVE w = "recovery" \/ w = "adapter"
BY DurableWorkerAssumption

LEMMA StepsDiffer ==
    /\ \A w \in Workflows : ToSet(StepsOf(w)) \subseteq AllSteps
    /\ \A v, w \in Workflows :
          ToSet(StepsOf(v)) \cap ToSet(StepsOf(w)) # {} => v = w
    /\ AllSteps \subseteq Durable
    /\ \A s \in AllSteps : s \notin {"idle", "return", "raise"}
    /\ \A s \in AllSteps : \E w \in Workflows : s \in ToSet(StepsOf(w))
<1>1. \A w \in Workflows : w = "recovery" \/ w = "adapter"
  BY WorkflowIs
<1>2. \A w \in Workflows : ToSet(StepsOf(w)) \subseteq Durable
                           /\ ToSet(StepsOf(w)) \cap {"idle", "return", "raise"} = {}
  BY <1>1, StepsAre DEF Durable
<1>3. \A v, w \in Workflows : ToSet(StepsOf(v)) \cap ToSet(StepsOf(w)) # {} => v = w
  BY <1>1, StepsAre
<1>4. \A s : s \in AllSteps <=> \E w \in Workflows : s \in ToSet(StepsOf(w))
  BY DEF AllSteps
<1>5. QED
  BY <1>2, <1>3, <1>4

\* The least of a set of positions.
Least(S) == CHOOSE i \in S : \A j \in S : i <= j
LEMMA LeastIs ==
    ASSUME NEW S, S \subseteq 1 .. 3, NEW i \in S, \A j \in S : i <= j
    PROVE  Least(S) = i
<1>1. \A k \in S : (\A j \in S : k <= j) => k = i
  OBVIOUS
<1>2. Least(S) \in S /\ \A j \in S : Least(S) <= j
  BY DEF Least
<1>3. QED
  BY <1>1, <1>2

LEMMA ResumeIs ==
    ASSUME NEW w, NEW record, NEW left,
           left = {i \in DOMAIN StepsOf(w) : StepsOf(w)[i] \notin record}
    PROVE  /\ Resume(w, record, TRUE) = "raise"
           /\ Resume(w, record, FALSE) =
                 IF left = {} THEN "return" ELSE StepsOf(w)[Least(left)]
BY DEF Resume, Least

\* Where each workflow goes on, by what is recorded of it.
LEMMA ResumeRecovery ==
    ASSUME NEW record
    PROVE  Resume("recovery", record, FALSE) =
              IF "completed" \notin record THEN "completed"
              ELSE IF "boundary" \notin record THEN "boundary" ELSE "return"
<1> DEFINE steps == StepsOf("recovery")
           left == {i \in DOMAIN steps : steps[i] \notin record}
<1>1. /\ left \subseteq 1 .. 3
      /\ left = {i \in 1 .. 2 : steps[i] \notin record}
  BY StepsAre
<1>2. Resume("recovery", record, FALSE) = IF left = {} THEN "return" ELSE steps[Least(left)]
  BY ResumeIs
<1>3. steps[1] = "completed" /\ steps[2] = "boundary"
  BY StepsAre
<1> HIDE DEF steps
<1>4. CASE "completed" \notin record
  <2>1. 1 \in left /\ \A j \in left : 1 <= j
    BY <1>1, <1>3, <1>4
  <2>2. Least(left) = 1
    BY <1>1, <2>1, LeastIs
  <2>3. QED
    BY <1>2, <1>3, <1>4, <2>1, <2>2
<1>5. CASE "completed" \in record /\ "boundary" \notin record
  <2>1. 2 \in left /\ \A j \in left : 2 <= j
    BY <1>1, <1>3, <1>5
  <2>2. Least(left) = 2
    BY <1>1, <2>1, LeastIs
  <2>3. QED
    BY <1>2, <1>3, <1>5, <2>1, <2>2
<1>6. CASE "completed" \in record /\ "boundary" \in record
  <2>1. left = {}
    BY <1>1, <1>3, <1>6
  <2>2. QED
    BY <1>2, <1>6, <2>1
<1>7. QED
  BY <1>4, <1>5, <1>6

LEMMA ResumeAdapter ==
    ASSUME NEW record
    PROVE  Resume("adapter", record, FALSE) =
              IF "first" \notin record THEN "first"
              ELSE IF "tool" \notin record THEN "tool"
              ELSE IF "final" \notin record THEN "final" ELSE "return"
<1> DEFINE steps == StepsOf("adapter")
           left == {i \in DOMAIN steps : steps[i] \notin record}
<1>1. /\ left \subseteq 1 .. 3
      /\ left = {i \in 1 .. 3 : steps[i] \notin record}
  BY StepsAre
<1>2. Resume("adapter", record, FALSE) = IF left = {} THEN "return" ELSE steps[Least(left)]
  BY ResumeIs
<1>3. steps[1] = "first" /\ steps[2] = "tool" /\ steps[3] = "final"
  BY StepsAre
<1> HIDE DEF steps
<1>4. ASSUME NEW i, i \in 1 .. 3, NEW s, s = steps[i], s \notin record,
             \A j \in 1 .. 3 : j < i => steps[j] \in record
      PROVE  Resume("adapter", record, FALSE) = s
  <2>1. i \in left /\ \A j \in left : i <= j
    BY <1>1, <1>4
  <2>2. Least(left) = i
    BY <1>1, <2>1, LeastIs
  <2>3. QED
    BY <1>2, <1>4, <2>1, <2>2
<1>5. CASE "first" \notin record
  <2>1. 1 \in 1 .. 3 /\ \A j \in 1 .. 3 : ~(j < 1)
    OBVIOUS
  <2>2. Resume("adapter", record, FALSE) = "first"
    BY <1>3, <1>4, <1>5, <2>1
  <2>3. QED
    BY <1>5, <2>2
<1>6. CASE "first" \in record /\ "tool" \notin record
  <2>1. 2 \in 1 .. 3 /\ \A j \in 1 .. 3 : j < 2 => j = 1
    OBVIOUS
  <2>2. Resume("adapter", record, FALSE) = "tool"
    BY <1>3, <1>4, <1>6, <2>1
  <2>3. QED
    BY <1>6, <2>2
<1>7. CASE "first" \in record /\ "tool" \in record /\ "final" \notin record
  <2>1. 3 \in 1 .. 3 /\ \A j \in 1 .. 3 : j < 3 => j = 1 \/ j = 2
    OBVIOUS
  <2>2. Resume("adapter", record, FALSE) = "final"
    BY <1>3, <1>4, <1>7, <2>1
  <2>3. QED
    BY <1>7, <2>2
<1>8. CASE "first" \in record /\ "tool" \in record /\ "final" \in record
  <2>1. left = {}
    BY <1>1, <1>3, <1>8
  <2>2. QED
    BY <1>2, <1>8, <2>1
<1>9. QED
  BY <1>5, <1>6, <1>7, <1>8

\* What the rest needs of where a workflow goes on.
LEMMA ResumeFacts ==
    ASSUME NEW w \in Workflows, NEW record, NEW s, s = Resume(w, record, FALSE)
    PROVE  /\ s # "idle" /\ s # "raise"
           /\ s = "return" => ToSet(StepsOf(w)) \subseteq record
           /\ s # "return" => s \in ToSet(StepsOf(w)) /\ s \notin record
           /\ s # "return" /\ InOrder(w, record) =>
                 /\ After(w, s) = Resume(w, record \cup {s}, FALSE)
                 /\ InOrder(w, record \cup {s})
<1>1. CASE w = "recovery"
  <2>1. s = IF "completed" \notin record THEN "completed"
            ELSE IF "boundary" \notin record THEN "boundary" ELSE "return"
    BY <1>1, ResumeRecovery
  <2>2. Resume(w, record \cup {s}, FALSE) =
            IF "completed" \notin record \cup {s} THEN "completed"
            ELSE IF "boundary" \notin record \cup {s} THEN "boundary" ELSE "return"
    BY <1>1, ResumeRecovery
  <2>3. After(w, "completed") = "boundary" /\ After(w, "boundary") = "return"
    BY <1>1 DEF After, StepsOf, Last
  <2>4. \A r : InOrder(w, r) <=> ("boundary" \in r => "completed" \in r)
    BY <1>1, StepsAre DEF InOrder
  <2>5. QED
    BY <1>1, <2>1, <2>2, <2>3, <2>4, StepsAre
<1>2. CASE w = "adapter"
  <2>1. s = IF "first" \notin record THEN "first"
            ELSE IF "tool" \notin record THEN "tool"
            ELSE IF "final" \notin record THEN "final" ELSE "return"
    BY <1>2, ResumeAdapter
  <2>2. Resume(w, record \cup {s}, FALSE) =
            IF "first" \notin record \cup {s} THEN "first"
            ELSE IF "tool" \notin record \cup {s} THEN "tool"
            ELSE IF "final" \notin record \cup {s} THEN "final" ELSE "return"
    BY <1>2, ResumeAdapter
  <2>3. /\ After(w, "first") = "tool" /\ After(w, "tool") = "final"
        /\ After(w, "final") = "return"
    BY <1>2 DEF After, StepsOf, Last
  <2>4. \A r : InOrder(w, r) <=> /\ "tool" \in r => "first" \in r
                                 /\ "final" \in r => "tool" \in r
    BY <1>2, StepsAre DEF InOrder
  <2>5. QED
    BY <1>2, <2>1, <2>2, <2>3, <2>4, StepsAre
<1>3. QED
  BY <1>1, <1>2, WorkflowIs

LEMMA ResumeNext ==
    ASSUME NEW w \in Workflows, NEW record
    PROVE  /\ Resume(w, record, FALSE) # "idle"
           /\ Resume(w, record, FALSE) \in ToSet(StepsOf(w)) \cup {"return"}
<1> DEFINE s == Resume(w, record, FALSE)
<1> HIDE DEF s
<1>1. s = Resume(w, record, FALSE)
  BY DEF s
<1>2. s # "idle" /\ (s # "return" => s \in ToSet(StepsOf(w)))
  BY <1>1, ResumeFacts
<1>3. QED
  BY <1>1, <1>2

-----------------------------------------------------------------------------
\* Executions exclude each other because there is one pending workflow, and it has one
\* owner.
LEMMA Exclusive == ExecutionOK /\ OnePending => OneAtATime
BY DEF ExecutionOK, OnePending, OneAtATime
LEMMA ExclusiveNext == ExecutionOK' /\ OnePending' => OneAtATime'
BY DEF ExecutionOK, OnePending, OneAtATime

\* A step that a process executes is the next one of its workflow.
LEMMA ExecutingIs ==
    ASSUME WorkerInv, NEW p \in Procs, NEW w \in Workflows, at[p][w] # "idle"
    PROVE  /\ status[w] = "pending" /\ owner[w] = p /\ Alive(p)
           /\ raised[w] => at[p][w] = "raise"
           /\ ~raised[w] => at[p][w] = Resume(w, recorded[w], FALSE)
           /\ at[p][w] \in AllSteps =>
                 /\ ~raised[w] /\ at[p][w] \in ToSet(StepsOf(w)) /\ at[p][w] \notin recorded[w]
           /\ at[p][w] \in ToSet(StepsOf(w)) => at[p][w] \in AllSteps
<1>1. /\ status[w] = "pending" /\ owner[w] = p /\ Alive(p)
      /\ at[p][w] = Resume(w, recorded[w], raised[w]) /\ raised[w] \in BOOLEAN
  BY DEF WorkerInv, ExecutionOK, TypeOK
<1>2. Resume(w, recorded[w], TRUE) = "raise"
  BY ResumeIs
<1>3. "raise" \notin AllSteps /\ "return" \notin AllSteps
      /\ ToSet(StepsOf(w)) \subseteq AllSteps
  BY StepsDiffer
<1>4. CASE raised[w]
  BY <1>1, <1>2, <1>3, <1>4
<1>5. CASE ~raised[w]
  <2>1. at[p][w] = Resume(w, recorded[w], FALSE)
    BY <1>1, <1>5
  <2>2. at[p][w] # "return" =>
           at[p][w] \in ToSet(StepsOf(w)) /\ at[p][w] \notin recorded[w]
    BY <2>1, ResumeFacts
  <2>3. QED
    BY <1>1, <1>3, <1>5, <2>1, <2>2
<1>6. QED
  BY <1>1, <1>4, <1>5

\* What a step leaves alone keeps what the invariant says of it.
LEMMA ExecutionFrame ==
    ASSUME WorkerInv, UNCHANGED <<exec, store, early>>,
           \A w \in Workflows : released[w] => released'[w],
           \A p \in Procs : Alive(p) => Alive(p)',
           \A p \in Procs : recover'[p] \subseteq recover[p]
    PROVE  ExecutionOK' /\ OnePending'
BY DEF WorkerInv, ExecutionOK, OnePending, exec, store
LEMMA RecordFrame ==
    ASSUME WorkerInv, UNCHANGED <<recorded, raised, status>>,
           \A w \in Workflows : released[w] => released'[w]
    PROVE  RecordOK'
BY DEF WorkerInv, RecordOK, InOrder
LEMMA EffectFrame ==
    ASSUME WorkerInv, UNCHANGED <<at, stage, recorded, raised, effects>>
    PROVE  EffectOK'
BY DEF WorkerInv, EffectOK, Ran
LEMMA ProbeFrame ==
    ASSUME WorkerInv, UNCHANGED <<probe, phase, stopped>>
    PROVE  ProbeOK'
BY DEF WorkerInv, ProbeOK

LEMMA Together ==
    ASSUME TypeOK', ExecutionOK', OnePending', RecordOK', EffectOK', ProbeOK' PROVE WorkerInv'
BY ExclusiveNext DEF WorkerInv

-----------------------------------------------------------------------------
\* The main thread of a process moves on, and no execution with it.
Phases == {"down", "launching", "launched", "serving", "closing", "destroyed"}
LEMMA MoveInv ==
    ASSUME WorkerInv, NEW p \in Procs, NEW x \in Phases, phase' = [phase EXCEPT ![p] = x],
           x # "down", phase[p] \in {"down", "launching"} \/ x \notin {"down", "launching"},
           NEW y \in BOOLEAN, stopped' = [stopped EXCEPT ![p] = y],
           y \/ ~stopped[p] \/ phase[p] = "down",
           NEW found, recover' = [recover EXCEPT ![p] = found],
           found = recover[p] \/ (found = Recoverable(p) /\ ~Alive(p)),
           ends' \in 0 .. MaxEnds,
           UNCHANGED <<exec, db, store, released, probe, ghosts, outages>>
    PROVE  WorkerInv'
<1>1. TypeOK
  BY DEF WorkerInv
<1>2. /\ \A q \in Procs : phase'[q] = IF q = p THEN x ELSE phase[q]
      /\ \A q \in Procs : stopped'[q] = IF q = p THEN y ELSE stopped[q]
      /\ \A q \in Procs : recover'[q] = IF q = p THEN found ELSE recover[q]
  BY <1>1 DEF TypeOK
<1>3. \A q \in Procs : Alive(q) => Alive(q)'
  BY <1>1, <1>2 DEF Alive, Phases, TypeOK
<1>4. found \subseteq Workflows
  BY <1>1 DEF Recoverable, TypeOK
<1>5. TypeOK'
  BY <1>1, <1>4 DEF TypeOK, exec, store, ghosts, Phases
<1>6. /\ at' = at /\ stage' = stage /\ polls' = polls /\ status' = status
      /\ owner' = owner /\ recorded' = recorded /\ raised' = raised
      /\ early' = early /\ released' = released /\ effects' = effects /\ probe' = probe
  BY DEF exec, store, ghosts
<1>7. \A q \in Procs, w \in Workflows : w \in recover'[q] =>
         /\ q = "resident" /\ at[q][w] = "idle" /\ status[w] = "pending" /\ owner[w] = q
  <2>1. \A q \in Procs, w \in Workflows : w \in recover[q] =>
         /\ q = "resident" /\ at[q][w] = "idle" /\ status[w] = "pending" /\ owner[w] = q
    BY DEF WorkerInv, ExecutionOK
  <2>2. ~Alive(p) => \A w \in Workflows : at[p][w] = "idle"
    BY DEF WorkerInv, ExecutionOK
  <2>3. QED
    BY <1>2, <2>1, <2>2 DEF Recoverable
<1>8. ExecutionOK' /\ OnePending'
  <2>1. OnePending'
    BY <1>6 DEF WorkerInv, OnePending
  <2>2. ExecutionOK'
    BY <1>3, <1>6, <1>7 DEF WorkerInv, ExecutionOK
  <2>3. QED
    BY <2>1, <2>2
<1>9. RecordOK' /\ EffectOK'
  BY <1>6, RecordFrame, EffectFrame
<1>10. ProbeOK'
  BY <1>2, <1>6 DEF WorkerInv, ProbeOK
<1>11. QED
  BY <1>5, <1>8, <1>9, <1>10, Together

LEMMA MainInv ==
    ASSUME WorkerInv, NEW p \in Procs,
           Start(p) \/ Launch(p) \/ Serve(p) \/ Wake(p) \/ Destroy(p)
    PROVE  WorkerInv'
<1>1. TypeOK
  BY DEF WorkerInv
<1>2. /\ phase[p] \in Phases /\ stopped[p] \in BOOLEAN
      /\ ends \in 0 .. MaxEnds
      /\ phase = [phase EXCEPT ![p] = phase[p]]
      /\ stopped = [stopped EXCEPT ![p] = stopped[p]]
      /\ recover = [recover EXCEPT ![p] = recover[p]]
  BY <1>1 DEF TypeOK, Phases
<1>3. CASE Start(p)
  <2>1. /\ phase' = [phase EXCEPT ![p] = "launching"] /\ phase[p] = "down"
        /\ stopped' = [stopped EXCEPT ![p] = FALSE] /\ recover' = recover
        /\ UNCHANGED <<exec, db, store, released, probe, ghosts, ends, outages>>
    BY <1>3 DEF Start
  <2>2. QED
    BY <1>2, <2>1, MoveInv DEF Phases
<1>4. CASE Launch(p)
  <2>1. /\ phase' = [phase EXCEPT ![p] = "launched"] /\ phase[p] = "launching"
        /\ stopped' = [stopped EXCEPT ![p] = stopped[p]]
        /\ recover' = [recover EXCEPT ![p] = Recoverable(p)]
        /\ UNCHANGED <<exec, db, store, released, probe, ghosts, ends, outages>>
    BY <1>4 DEF Launch, StopFlag
  <2>2. ~Alive(p)
    BY <2>1 DEF Alive
  <2>3. QED
    BY <1>2, <2>1, <2>2, MoveInv DEF Phases
<1>5. CASE Serve(p)
  <2>1. PICK x \in {"serving", "closing"}, y \in {stopped[p], TRUE} :
           /\ phase' = [phase EXCEPT ![p] = x] /\ stopped' = [stopped EXCEPT ![p] = y]
    BY <1>2, <1>5 DEF Serve
  <2>2. /\ phase[p] = "launched" /\ recover' = recover
        /\ UNCHANGED <<exec, db, store, released, probe, ghosts, ends, outages>>
    BY <1>5 DEF Serve
  <2>3. QED
    BY <1>2, <2>1, <2>2, MoveInv DEF Phases
<1>6. CASE Wake(p) \/ Destroy(p)
  <2>1. PICK x \in {"closing", "destroyed"} : phase' = [phase EXCEPT ![p] = x]
    BY <1>6 DEF Wake, Destroy
  <2>2. /\ phase[p] \in {"serving", "closing"} /\ recover' = recover /\ stopped' = stopped
        /\ UNCHANGED <<exec, db, store, released, probe, ghosts, ends, outages>>
    BY <1>6 DEF Wake, Destroy
  <2>3. QED
    BY <1>2, <2>1, <2>2, MoveInv DEF Phases
<1>7. QED
  BY <1>3, <1>4, <1>5, <1>6

LEMMA SignalInv ==
    ASSUME WorkerInv, Stop \/ ServeFails PROVE WorkerInv'
<1> DEFINE p == "resident"
<1>1. /\ p \in Procs /\ phase[p] \in {"launching", "launched", "serving"}
      /\ stopped' = [stopped EXCEPT ![p] = TRUE] /\ recover' = recover
      /\ UNCHANGED <<exec, db, store, released, probe, ghosts, outages>>
      /\ ends < MaxEnds /\ ends' = ends + 1
  BY DEF Stop, ServeFails
<1>2. TypeOK
  BY DEF WorkerInv
<1>3. ends' \in 0 .. MaxEnds
  BY <1>1, <1>2, DurableWorkerAssumption DEF TypeOK
<1>4. recover = [recover EXCEPT ![p] = recover[p]] /\ phase = [phase EXCEPT ![p] = phase[p]]
  BY <1>2 DEF TypeOK
<1>5. PICK x \in {phase[p], "closing"} :
         phase' = [phase EXCEPT ![p] = x] /\ (x = "closing" \/ x = phase[p])
  BY <1>4 DEF Stop, ServeFails
<1>6. CASE phase[p] = "launching"
  BY <1>1, <1>3, <1>4, <1>5, <1>6, MoveInv DEF Phases
<1>7. CASE phase[p] # "launching"
  BY <1>1, <1>3, <1>4, <1>5, <1>7, MoveInv DEF Phases
<1>8. QED
  BY <1>6, <1>7

-----------------------------------------------------------------------------
\* A process ends: what it executed is forgotten, and the effect it had not recorded is
\* taken out of the count.
LEMMA CutOff ==
    ASSUME WorkerInv, NEW p \in Procs, NEW w \in Workflows, NEW s \in ToSet(StepsOf(w))
    PROVE  Cardinality({v \in Workflows : Ran(p, v, s)}) = IF Ran(p, w, s) THEN 1 ELSE 0
<1>1. \A v \in Workflows : Ran(p, v, s) => v = w
  <2>1. SUFFICES ASSUME NEW v \in Workflows, Ran(p, v, s) PROVE v = w
    OBVIOUS
  <2>2. at[p][v] = s /\ s \in AllSteps
    BY <2>1, StepsDiffer DEF Ran
  <2>3. s \in ToSet(StepsOf(v))
    BY <2>2, ExecutingIs, StepsDiffer
  <2>4. QED
    BY <2>3, StepsDiffer
<1>2. CASE Ran(p, w, s)
  <2>1. {v \in Workflows : Ran(p, v, s)} = {w}
    BY <1>1, <1>2
  <2>2. QED
    BY <1>2, <2>1, FS_Singleton
<1>3. CASE ~Ran(p, w, s)
  <2>1. {v \in Workflows : Ran(p, v, s)} = {}
    BY <1>1, <1>3
  <2>2. QED
    BY <1>3, <2>1, FS_EmptySet
<1>4. QED
  BY <1>2, <1>3

LEMMA DieInv ==
    ASSUME WorkerInv, NEW p \in Procs, Die(p), ends' \in 0 .. MaxEnds PROVE WorkerInv'
<1>1. TypeOK
  BY DEF WorkerInv
<1>2. /\ \A q \in Procs : phase'[q] = IF q = p THEN "down" ELSE phase[q]
      /\ \A q \in Procs : recover'[q] = IF q = p THEN {} ELSE recover[q]
      /\ \A q \in Procs, w \in Workflows :
            /\ at'[q][w] = IF q = p THEN "idle" ELSE at[q][w]
            /\ stage'[q][w] = IF q = p THEN "start" ELSE stage[q][w]
            /\ polls'[q][w] = IF q = p THEN 0 ELSE polls[q][w]
  BY <1>1 DEF Die, TypeOK
<1>3. /\ UNCHANGED <<stopped, status, owner, recorded, raised, released, db, outages>>
      /\ \A w \in Workflows : early'[w] => early[w]
      /\ early' \in [Workflows -> BOOLEAN]
  BY <1>1 DEF Die, store, TypeOK
<1>4. \A w \in Workflows : \A s \in ToSet(StepsOf(w)) :
         effects'[s] = effects[s] - (IF Ran(p, w, s) THEN 1 ELSE 0)
  <2>1. SUFFICES ASSUME NEW w \in Workflows, NEW s \in ToSet(StepsOf(w))
                 PROVE  effects'[s] = effects[s] - (IF Ran(p, w, s) THEN 1 ELSE 0)
    OBVIOUS
  <2>2. effects'[s] = effects[s] - Cardinality({v \in Workflows : Ran(p, v, s)})
    BY StepsDiffer DEF Die
  <2>3. QED
    BY <2>2, CutOff
<1>5. \A w \in Workflows : \A s \in ToSet(StepsOf(w)) : effects[s] \in Nat
  BY <1>1, StepsDiffer DEF TypeOK
<1>6. \A q \in Procs, w \in Workflows : at[q][w] # "idle" /\ q # p => at[p][w] = "idle"
  BY DEF WorkerInv, OneAtATime
<1>7. \A w \in Workflows : \A s \in ToSet(StepsOf(w)) :
         LET ran == s \in recorded[w] \/ \E q \in Procs : Ran(q, w, s)'
         IN /\ ran => effects'[s] = 1
            /\ ~ran => effects'[s] = 0 \/ (raised[w] /\ effects'[s] = 1)
  <2>1. SUFFICES ASSUME NEW w \in Workflows, NEW s \in ToSet(StepsOf(w))
        PROVE LET ran == s \in recorded[w] \/ \E q \in Procs : Ran(q, w, s)'
              IN /\ ran => effects'[s] = 1
                 /\ ~ran => effects'[s] = 0 \/ (raised[w] /\ effects'[s] = 1)
    OBVIOUS
  <2>2. \A q \in Procs : Ran(q, w, s)' <=> q # p /\ Ran(q, w, s)
    BY <1>2, StepsDiffer DEF Ran
  <2>3. /\ (s \in recorded[w] \/ \E q \in Procs : Ran(q, w, s)) => effects[s] = 1
        /\ ~(s \in recorded[w] \/ \E q \in Procs : Ran(q, w, s)) =>
              effects[s] = 0 \/ (raised[w] /\ effects[s] = 1)
    BY DEF WorkerInv, EffectOK
  <2>4. CASE Ran(p, w, s)
    <3>1. at[p][w] = s /\ s # "idle" /\ s \in AllSteps
      BY <2>4, StepsDiffer DEF Ran
    <3>2. s \notin recorded[w] /\ \A q \in Procs : Ran(q, w, s) => q = p
      BY <1>6, <3>1, ExecutingIs DEF Ran
    <3>3. effects'[s] = 0
      BY <1>4, <2>3, <2>4
    <3>4. QED
      BY <2>2, <3>2, <3>3
  <2>5. CASE ~Ran(p, w, s)
    <3>1. effects'[s] = effects[s]
      BY <1>4, <1>5, <2>5
    <3>2. \A q \in Procs : Ran(q, w, s)' <=> Ran(q, w, s)
      BY <2>2, <2>5
    <3>3. QED
      BY <2>3, <3>1, <3>2
  <2>6. QED
    BY <2>4, <2>5
<1>8. effects' \in [AllSteps -> Nat]
  <2>1. \A s \in AllSteps : effects'[s] \in Nat
    <3>1. \A w \in Workflows : \A s \in ToSet(StepsOf(w)) : effects'[s] \in {0, 1}
      BY <1>7
    <3>2. QED
      BY <3>1, StepsDiffer
  <2>2. QED
    BY <2>1 DEF Die
<1>9. TypeOK'
  <2>1. /\ phase' \in [Procs -> Phases] /\ recover' \in [Procs -> SUBSET Workflows]
        /\ at' \in [Procs -> [Workflows -> AllSteps \cup {"idle", "return", "raise"}]]
        /\ stage' \in [Procs -> [Workflows -> {"start", "ran", "done", "failed", "refused"}]]
        /\ polls' \in [Procs -> [Workflows -> 0 .. MaxPolls]]
    BY <1>1, DurableWorkerAssumption DEF Die, TypeOK, Phases
  <2>2. probe' \in [pc : {"none", "connected", "checking"}, stopped : BOOLEAN]
    BY <1>1 DEF Die, TypeOK, NoProbe
  <2>3. QED
    BY <1>1, <1>3, <1>8, <2>1, <2>2 DEF TypeOK, Phases
<1>10. OnePending'
  BY <1>3 DEF WorkerInv, OnePending
<1>11. ExecutionOK'
  <2>1. \A q \in Procs : q # p /\ Alive(q) => Alive(q)'
    BY <1>2 DEF Alive
  <2>2. "idle" \notin AllSteps
    BY StepsDiffer
  <2>3. QED
    BY <1>2, <1>3, <2>1, <2>2 DEF WorkerInv, ExecutionOK
<1>12. RecordOK'
  BY <1>3, RecordFrame
<1>13. EffectOK'
  BY <1>3, <1>7 DEF EffectOK
<1>14. ProbeOK'
  BY <1>2, <1>3 DEF WorkerInv, ProbeOK, Die, NoProbe
<1>15. QED
  BY <1>9, <1>10, <1>11, <1>12, <1>13, <1>14, Together

LEMMA EndInv ==
    ASSUME WorkerInv, NEW p \in Procs, Exit(p) \/ LaunchFails(p) \/ Crash(p) PROVE WorkerInv'
<1>1. ends' = ends \/ (ends < MaxEnds /\ ends' = ends + 1)
  BY DEF Exit, LaunchFails, Crash
<1>2. ends \in 0 .. MaxEnds
  BY DEF WorkerInv, TypeOK
<1>3. ends' \in 0 .. MaxEnds
  BY <1>1, <1>2, DurableWorkerAssumption
<1>4. QED
  BY <1>3, DieInv DEF Exit, LaunchFails, Crash

-----------------------------------------------------------------------------
\* The harness, the database and the probes.
LEMMA EnvironmentInv ==
    ASSUME WorkerInv, Lose \/ Reconnect \/ \E w \in Workflows : Enqueue(w) \/ Release(w)
    PROVE  WorkerInv'
<1>1. TypeOK
  BY DEF WorkerInv
<1>2. CASE Lose \/ Reconnect
  <2>1. UNCHANGED <<proc, exec, store, released, probe, ghosts, ends>>
    BY <1>2 DEF Lose, Reconnect
  <2>2. TypeOK'
    <3>1. outages' = outages \/ (outages < MaxOutages /\ outages' = outages + 1)
      BY <1>2 DEF Lose, Reconnect
    <3>2. outages' \in 0 .. MaxOutages
      BY <1>1, <3>1, DurableWorkerAssumption DEF TypeOK
    <3>3. db' \in BOOLEAN
      BY <1>2 DEF Lose, Reconnect
    <3>4. QED
      BY <1>1, <2>1, <3>2, <3>3 DEF TypeOK, proc, exec, store, ghosts
  <2>3. ExecutionOK' /\ OnePending'
    BY <2>1, ExecutionFrame DEF proc, ghosts, Alive
  <2>4. RecordOK' /\ EffectOK' /\ ProbeOK'
    BY <2>1, RecordFrame, EffectFrame, ProbeFrame DEF proc, exec, store, ghosts
  <2>5. QED
    BY <2>2, <2>3, <2>4, Together
<1>3. ASSUME NEW w \in Workflows, Release(w) PROVE WorkerInv'
  <2>1. /\ UNCHANGED <<proc, exec, db, store, probe, ghosts, ends, outages>>
        /\ released' = [released EXCEPT ![w] = TRUE]
    BY <1>3 DEF Release
  <2>2. TypeOK' /\ \A v \in Workflows : released[v] => released'[v]
    BY <1>1, <2>1 DEF TypeOK, proc, exec, store, ghosts
  <2>3. ExecutionOK' /\ OnePending'
    BY <2>1, <2>2, ExecutionFrame DEF proc, ghosts, Alive
  <2>4. RecordOK' /\ EffectOK' /\ ProbeOK'
    BY <2>1, <2>2, RecordFrame, EffectFrame, ProbeFrame DEF proc, exec, store, ghosts
  <2>5. QED
    BY <2>2, <2>3, <2>4, Together
<1>4. ASSUME NEW w \in Workflows, Enqueue(w) PROVE WorkerInv'
  <2>1. /\ UNCHANGED <<proc, exec, db, owner, recorded, raised, released, probe, ghosts,
                       ends, outages>>
        /\ status[w] = "absent" /\ status' = [status EXCEPT ![w] = "enqueued"]
    BY <1>4 DEF Enqueue
  <2>2. \A v \in Workflows : /\ status[v] = "pending" <=> status'[v] = "pending"
                             /\ status'[v] = "success" => status[v] = "success"
    BY <1>1, <2>1 DEF TypeOK
  <2>3. TypeOK'
    BY <1>1, <2>1 DEF TypeOK, proc, exec, ghosts
  <2>4. ExecutionOK' /\ OnePending'
    BY <2>1, <2>2 DEF WorkerInv, ExecutionOK, OnePending, proc, exec, ghosts, Alive
  <2>5. RecordOK'
    BY <2>1, <2>2 DEF WorkerInv, RecordOK, InOrder
  <2>6. EffectOK' /\ ProbeOK'
    BY <2>1, EffectFrame, ProbeFrame DEF proc, exec, ghosts
  <2>7. QED
    BY <2>3, <2>4, <2>5, <2>6, Together
<1>5. QED
  BY <1>2, <1>3, <1>4

LEMMA ProbeInv ==
    ASSUME WorkerInv, Probe \/ ReadFlag \/ CheckDatabase PROVE WorkerInv'
<1>1. UNCHANGED <<proc, exec, db, store, released, ghosts, ends, outages>>
  BY DEF Probe, ReadFlag, CheckDatabase
<1>2. TypeOK
  BY DEF WorkerInv
<1>3. probe' \in [pc : {"none", "connected", "checking"}, stopped : BOOLEAN]
  <2>1. CASE Probe
    BY <1>2, <2>1 DEF Probe, TypeOK
  <2>2. CASE ReadFlag
    <3>1. [probe EXCEPT !.pc = "checking"]
             \in [pc : {"none", "connected", "checking"}, stopped : BOOLEAN]
      BY <1>2 DEF TypeOK
    <3>2. QED
      BY <2>2, <3>1 DEF ReadFlag, NoProbe
  <2>3. CASE CheckDatabase
    BY <2>3 DEF CheckDatabase, NoProbe
  <2>4. QED
    BY <2>1, <2>2, <2>3
<1>4. TypeOK'
  BY <1>1, <1>2, <1>3 DEF TypeOK, proc, exec, store, ghosts
<1>5. ExecutionOK' /\ OnePending'
  BY <1>1, ExecutionFrame DEF proc, ghosts, Alive
<1>6. RecordOK' /\ EffectOK'
  BY <1>1, RecordFrame, EffectFrame DEF exec, store, ghosts
<1>7. ProbeOK'
  <2>1. CASE Probe
    BY <1>1, <2>1 DEF Probe, ProbeOK, proc
  <2>2. CASE ReadFlag
    <3>1. probe \in [pc : {"none", "connected", "checking"}, stopped : BOOLEAN]
      BY <1>2 DEF TypeOK
    <3>2. QED
      BY <1>1, <2>2, <3>1 DEF ReadFlag, ProbeOK, proc, WorkerInv, Healthy, NoProbe
  <2>3. CASE CheckDatabase
    BY <1>1, <2>3 DEF CheckDatabase, ProbeOK, proc, NoProbe
  <2>4. QED
    BY <2>1, <2>2, <2>3
<1>8. QED
  BY <1>4, <1>5, <1>6, <1>7, Together

-----------------------------------------------------------------------------
\* DBOS hands out and takes back workflows.
LEMMA RecoverInv ==
    ASSUME WorkerInv, NEW p \in Procs, NEW w \in Workflows, Recover(p, w) PROVE WorkerInv'
<1>1. TypeOK
  BY DEF WorkerInv
<1>2. /\ UNCHANGED <<phase, stopped, exec, db, recorded, raised, released, probe, ghosts,
                     ends, outages>>
      /\ w \in recover[p] /\ status[w] = "pending"
      /\ \A v \in Workflows : status'[v] = IF v = w THEN "enqueued" ELSE status[v]
      /\ \A v \in Workflows : owner'[v] = IF v = w THEN "none" ELSE owner[v]
      /\ \A q \in Procs : recover'[q] = IF q = p THEN recover[p] \ {w} ELSE recover[q]
  BY <1>1 DEF Recover, TypeOK
<1>3. TypeOK'
  BY <1>1, <1>2 DEF Recover, TypeOK, exec, ghosts
<1>4. /\ owner[w] = p /\ at[p][w] = "idle" /\ p = "resident"
      /\ \A q \in Procs : at[q][w] # "idle" => owner[w] = q
      /\ \A q \in Procs : w \in recover[q] => owner[w] = q
  BY <1>2 DEF WorkerInv, ExecutionOK
<1>5. \A q \in Procs : at[q][w] = "idle" /\ w \notin recover'[q]
  BY <1>2, <1>4
<1>6. ExecutionOK'
  BY <1>2, <1>5 DEF WorkerInv, ExecutionOK, exec, ghosts, Alive
<1>7. OnePending'
  BY <1>2 DEF WorkerInv, OnePending
<1>8. RecordOK'
  BY <1>2 DEF WorkerInv, RecordOK, InOrder
<1>9. EffectOK' /\ ProbeOK'
  BY <1>2, EffectFrame, ProbeFrame DEF exec, ghosts
<1>10. QED
  BY <1>3, <1>6, <1>7, <1>8, <1>9, Together

LEMMA NonePending ==
    Cardinality({v \in Workflows : status[v] = "pending"}) < Concurrency =>
        \A v \in Workflows : status[v] # "pending"
<1> DEFINE S == {v \in Workflows : status[v] = "pending"}
<1>1. IsFiniteSet({"recovery", "adapter"})
  <2>1. IsFiniteSet({"recovery"})
    BY FS_Singleton
  <2>2. IsFiniteSet({"recovery"} \cup {"adapter"})
    BY <2>1, FS_AddElement
  <2>3. {"recovery", "adapter"} = {"recovery"} \cup {"adapter"}
    OBVIOUS
  <2>4. QED
    BY <2>2, <2>3
<1>2. IsFiniteSet(S)
  BY <1>1, FS_Subset, DurableWorkerAssumption
<1>3. Cardinality(S) \in Nat /\ (Cardinality(S) = 0 => S = {})
  BY <1>2, FS_CardinalityType, FS_EmptySet
<1>4. QED
  BY <1>3 DEF Concurrency

LEMMA DequeueInv ==
    ASSUME WorkerInv, NEW p \in Procs, NEW w \in Workflows, Dequeue(p, w) PROVE WorkerInv'
<1> DEFINE x == Resume(w, recorded[w], raised[w])
<1>1. TypeOK /\ raised[w] \in BOOLEAN
  BY DEF WorkerInv, TypeOK
<1>2. /\ UNCHANGED <<proc, polls, db, recorded, raised, released, probe, ghosts, ends, outages>>
      /\ Launched(p) /\ status[w] = "enqueued"
      /\ \A v \in Workflows : status[v] # "pending"
      /\ \A v \in Workflows : status'[v] = IF v = w THEN "pending" ELSE status[v]
      /\ \A v \in Workflows : owner'[v] = IF v = w THEN p ELSE owner[v]
      /\ at' = [at EXCEPT ![p][w] = x] /\ stage' = [stage EXCEPT ![p][w] = "start"]
  BY <1>1, NonePending DEF Dequeue, TypeOK
<1>3. x \in AllSteps \cup {"return", "raise"}
  <2>1. CASE raised[w] = TRUE
    BY <2>1, ResumeIs
  <2>2. CASE raised[w] = FALSE
    <3>1. x = Resume(w, recorded[w], FALSE)
      BY <2>2
    <3>2. x # "return" => x \in ToSet(StepsOf(w))
      BY <3>1, ResumeFacts
    <3>3. QED
      BY <3>2, StepsDiffer
  <2>3. QED
    BY <1>1, <2>1, <2>2
<1> HIDE DEF x
<1>4. /\ at' \in [Procs -> [Workflows -> AllSteps \cup {"idle", "return", "raise"}]]
      /\ \A q \in Procs, v \in Workflows :
            at'[q][v] = IF q = p /\ v = w THEN x ELSE at[q][v]
  <2>1. x \in AllSteps \cup {"idle", "return", "raise"}
    BY <1>3
  <2>2. QED
    BY <1>1, <1>2, <2>1, Nested DEF TypeOK
<1>5. /\ stage' \in [Procs -> [Workflows -> {"start", "ran", "done", "failed", "refused"}]]
      /\ \A q \in Procs, v \in Workflows :
            stage'[q][v] = IF q = p /\ v = w THEN "start" ELSE stage[q][v]
  BY <1>1, <1>2, Nested DEF TypeOK
<1>6. TypeOK'
  BY <1>1, <1>2, <1>4, <1>5 DEF Dequeue, TypeOK, proc, ghosts
<1>7. \A q \in Procs, v \in Workflows : at[q][v] = "idle" /\ v \notin recover[q]
  BY <1>2 DEF WorkerInv, ExecutionOK
<1>8. ExecutionOK'
  <2>1. Alive(p) /\ (Alive(p))' = Alive(p)
    BY <1>2 DEF Launched, Alive, proc
  <2>2. "idle" \notin AllSteps
    BY StepsDiffer
  <2>3. x = Resume(w, recorded[w], raised[w])' /\ recover' = recover
    BY <1>2 DEF x, Resume, proc
  <2>4. \A q \in Procs, v \in Workflows : stage[q][v] = "start"
    BY <1>7, <2>2 DEF WorkerInv, ExecutionOK
  <2>5. \A q \in Procs, v \in Workflows : stage'[q][v] = "start" /\ v \notin recover'[q]
    BY <1>5, <1>7, <2>3, <2>4
  <2>6. \A q \in Procs, v \in Workflows : at'[q][v] # "idle" => q = p /\ v = w
    BY <1>4, <1>7
  <2>7. at'[p][w] = Resume(w, recorded[w], raised[w])'
    BY <1>4, <2>3
  <2>8. (Alive(p))' /\ status'[w] = "pending" /\ owner'[w] = p
    BY <1>2, <2>1
  <2>9. QED
    BY <2>5, <2>6, <2>7, <2>8 DEF ExecutionOK
<1>9. OnePending'
  BY <1>2 DEF OnePending
<1>10. RecordOK'
  BY <1>2 DEF WorkerInv, RecordOK, InOrder
<1>11. EffectOK'
  <2>1. "idle" \notin AllSteps
    BY StepsDiffer
  <2>2. \A q \in Procs, v \in Workflows : stage[q][v] = "start"
    BY <1>7, <2>1 DEF WorkerInv, ExecutionOK
  <2>3. \A q \in Procs, v \in Workflows, s \in AllSteps : ~Ran(q, v, s) /\ ~Ran(q, v, s)'
    BY <1>5, <2>2 DEF Ran
  <2>4. recorded' = recorded /\ raised' = raised /\ effects' = effects
    BY <1>2 DEF ghosts
  <2>5. \A v \in Workflows : \A s \in ToSet(StepsOf(v)) : s \in AllSteps
    BY StepsDiffer
  <2>6. QED
    BY <2>3, <2>4, <2>5 DEF WorkerInv, EffectOK
<1>12. ProbeOK'
  BY <1>2, ProbeFrame DEF proc
<1>13. QED
  BY <1>6, <1>8, <1>9, <1>10, <1>11, <1>12, Together

-----------------------------------------------------------------------------
\* An execution stays at its step.
LEMMA StageExecution ==
    ASSUME WorkerInv, NEW p \in Procs, NEW w \in Workflows, at[p][w] \in AllSteps, NEW g,
           UNCHANGED <<proc, at, store, released>>,
           \A q \in Procs, v \in Workflows :
              /\ stage'[q][v] = IF q = p /\ v = w THEN g ELSE stage[q][v]
              /\ ~(q = p /\ v = w) => polls'[q][v] = polls[q][v],
           \A v \in Workflows : v # w => early'[v] = early[v],
           g = "ran" => at[p][w] \in Boundaries,
           g = "done" /\ at[p][w] \in Boundaries => released[w],
           g = "ran" /\ early'[w] => released[w] /\ polls'[p][w] > 0
    PROVE  ExecutionOK' /\ OnePending'
<1>1. /\ at' = at /\ status' = status /\ owner' = owner /\ recorded' = recorded
      /\ raised' = raised /\ released' = released /\ phase' = phase /\ recover' = recover
  BY DEF proc, store
<1>2. \A q \in Procs : at[q][w] # "idle" => q = p
  BY StepsDiffer DEF WorkerInv, OneAtATime
<1>3. \A q \in Procs : q # p => stage[q][w] = "start"
  BY <1>2, StepsDiffer DEF WorkerInv, ExecutionOK
<1>4. OnePending'
  BY <1>1 DEF WorkerInv, OnePending
<1>5. \A q \in Procs, v \in Workflows :
         /\ at[q][v] \notin AllSteps => stage'[q][v] = "start"
         /\ stage'[q][v] = "ran" => at[q][v] \in Boundaries
         /\ stage'[q][v] = "done" /\ at[q][v] \in Boundaries => released[v]
         /\ stage'[q][v] = "ran" /\ early'[v] => released[v] /\ polls'[q][v] > 0
  <2>1. SUFFICES ASSUME NEW q \in Procs, NEW v \in Workflows
        PROVE /\ at[q][v] \notin AllSteps => stage'[q][v] = "start"
              /\ stage'[q][v] = "ran" => at[q][v] \in Boundaries
              /\ stage'[q][v] = "done" /\ at[q][v] \in Boundaries => released[v]
              /\ stage'[q][v] = "ran" /\ early'[v] => released[v] /\ polls'[q][v] > 0
    OBVIOUS
  <2>2. CASE q = p /\ v = w
    BY <2>2
  <2>3. CASE q # p /\ v = w
    <3>1. stage'[q][v] = "start"
      BY <1>3, <2>3
    <3>2. QED
      BY <3>1
  <2>4. CASE v # w
    BY <2>4 DEF WorkerInv, ExecutionOK
  <2>5. QED
    BY <2>2, <2>3, <2>4
<1>6. ExecutionOK'
  BY <1>1, <1>5 DEF WorkerInv, ExecutionOK, Alive
<1>7. QED
  BY <1>4, <1>6

LEMMA EffectInv ==
    ASSUME WorkerInv, NEW p \in Procs, NEW w \in Workflows, Effect(p, w) PROVE WorkerInv'
<1> DEFINE s == at[p][w]
           g == IF s \in Boundaries THEN "ran" ELSE "done"
<1>1. TypeOK
  BY DEF WorkerInv
<1>2. /\ UNCHANGED <<proc, at, db, store, released, probe, ends, outages>>
      /\ s \in AllSteps /\ stage[p][w] = "start"
      /\ effects' = [effects EXCEPT ![s] = @ + 1]
      /\ stage' = [stage EXCEPT ![p][w] = g]
      /\ s \in Boundaries => /\ polls' = [polls EXCEPT ![p][w] = MaxPolls]
                             /\ early' = [early EXCEPT ![w] = released[w]]
      /\ s \notin Boundaries => polls' = polls /\ early' = early
  BY DEF Effect, Deadline
<1>3. g \in {"ran", "done"} /\ (g = "ran" <=> s \in Boundaries)
  OBVIOUS
<1>4. s # "idle" /\ s \in ToSet(StepsOf(w)) /\ ~raised[w] /\ s \notin recorded[w]
  BY <1>2, ExecutingIs, StepsDiffer
<1> HIDE DEF s, g
<1>5. /\ stage' \in [Procs -> [Workflows -> {"start", "ran", "done", "failed", "refused"}]]
      /\ \A q \in Procs, v \in Workflows :
            stage'[q][v] = IF q = p /\ v = w THEN g ELSE stage[q][v]
  <2>1. g \in {"start", "ran", "done", "failed", "refused"}
    BY <1>3
  <2>2. QED
    BY <1>1, <1>2, <2>1, Nested DEF TypeOK
<1>6. /\ polls' \in [Procs -> [Workflows -> 0 .. MaxPolls]]
      /\ \A q \in Procs, v \in Workflows :
            polls'[q][v] = IF q = p /\ v = w /\ s \in Boundaries THEN MaxPolls
                           ELSE polls[q][v]
  <2>1. MaxPolls \in 0 .. MaxPolls
    BY DurableWorkerAssumption
  <2>2. CASE s \in Boundaries
    <3>1. polls' = [polls EXCEPT ![p][w] = MaxPolls]
      BY <1>2, <2>2
    <3>2. polls \in [Procs -> [Workflows -> 0 .. MaxPolls]]
      BY <1>1 DEF TypeOK
    <3>3. /\ polls' \in [Procs -> [Workflows -> 0 .. MaxPolls]]
          /\ \A q \in Procs, v \in Workflows :
                polls'[q][v] = IF q = p /\ v = w THEN MaxPolls ELSE polls[q][v]
      BY <2>1, <3>1, <3>2, Nested
    <3>4. QED
      BY <2>2, <3>3
  <2>3. CASE s \notin Boundaries
    BY <1>1, <1>2, <2>3 DEF TypeOK
  <2>4. QED
    BY <2>2, <2>3
<1>7. /\ early' \in [Workflows -> BOOLEAN]
      /\ \A v \in Workflows :
            early'[v] = IF v = w /\ s \in Boundaries THEN released[w] ELSE early[v]
  BY <1>1, <1>2 DEF TypeOK
<1>8. \A t \in AllSteps : effects'[t] = IF t = s THEN effects[s] + 1 ELSE effects[t]
  BY <1>1, <1>2 DEF TypeOK
<1>9. TypeOK'
  <2>1. effects' \in [AllSteps -> Nat]
    BY <1>1, <1>2 DEF TypeOK
  <2>2. QED
    BY <1>1, <1>2, <1>5, <1>6, <1>7, <2>1 DEF TypeOK, proc, store
<1>10. ExecutionOK' /\ OnePending'
  <2>1. g = "ran" /\ early'[w] => released[w] /\ polls'[p][w] > 0
    BY <1>3, <1>6, <1>7, DurableWorkerAssumption
  <2>2. at[p][w] \in AllSteps /\ (g = "ran" => at[p][w] \in Boundaries)
        /\ ~(g = "done" /\ at[p][w] \in Boundaries)
    BY <1>2, <1>3 DEF s
  <2>3. UNCHANGED <<proc, at, store, released>>
    BY <1>2
  <2>4. /\ \A q \in Procs, v \in Workflows :
              /\ stage'[q][v] = IF q = p /\ v = w THEN g ELSE stage[q][v]
              /\ ~(q = p /\ v = w) => polls'[q][v] = polls[q][v]
        /\ \A v \in Workflows : v # w => early'[v] = early[v]
    BY <1>5, <1>6, <1>7
  <2>5. QED
    BY <2>1, <2>2, <2>3, <2>4, StageExecution
<1>11. RecordOK'
  BY <1>2, RecordFrame DEF store
<1>12. EffectOK'
  <2>1. \A q \in Procs, v \in Workflows, t \in AllSteps :
           Ran(q, v, t)' <=> \/ Ran(q, v, t) \/ (q = p /\ v = w /\ t = s)
    BY <1>2, <1>3, <1>5 DEF Ran, s
  <2>2. \A q \in Procs : ~Ran(q, w, s)
    <3>1. \A q \in Procs : at[q][w] # "idle" => q = p
      BY <1>4 DEF WorkerInv, OneAtATime, s
    <3>2. QED
      BY <1>2, <1>4, <3>1 DEF Ran
  <2>3. effects[s] = 0
    BY <1>4, <2>2 DEF WorkerInv, EffectOK
  <2>4. recorded' = recorded /\ raised' = raised
    BY <1>2 DEF store
  <2>5. SUFFICES ASSUME NEW v \in Workflows, NEW t \in ToSet(StepsOf(v))
        PROVE LET ran == t \in recorded[v] \/ \E q \in Procs : Ran(q, v, t)'
              IN /\ ran => effects'[t] = 1
                 /\ ~ran => effects'[t] = 0 \/ (raised[v] /\ effects'[t] = 1)
    BY <2>4 DEF EffectOK
  <2>6. t \in AllSteps /\ (t = s => v = w)
    BY <1>4, StepsDiffer
  <2>7. CASE t = s
    <3>1. v = w /\ effects'[t] = 1 /\ Ran(p, v, t)'
      BY <1>2, <1>8, <2>1, <2>3, <2>6, <2>7
    <3>2. QED
      BY <3>1
  <2>8. CASE t # s
    <3>1. effects'[t] = effects[t] /\ \A q \in Procs : Ran(q, v, t)' <=> Ran(q, v, t)
      BY <1>8, <2>1, <2>6, <2>8
    <3>2. QED
      BY <3>1 DEF WorkerInv, EffectOK
  <2>9. QED
    BY <2>7, <2>8
<1>13. ProbeOK'
  BY <1>2, ProbeFrame DEF proc
<1>14. QED
  BY <1>9, <1>10, <1>11, <1>12, <1>13, Together

\* The boundary polls, times out or loses its connection: it is past its effect still, or
\* it was refused before.
LEMMA WaitInv ==
    ASSUME WorkerInv, NEW p \in Procs, NEW w \in Workflows,
           Poll(p, w) \/ TimeOut(p, w) \/ Disconnected(p, w)
    PROVE  WorkerInv'
<1>1. TypeOK
  BY DEF WorkerInv
<1>2. stage[p][w] \in {"start", "ran"} /\ polls[p][w] \in 0 .. MaxPolls
      /\ (stage[p][w] = "ran" => at[p][w] \in Boundaries)
  BY <1>1 DEF Poll, TimeOut, Disconnected, TypeOK, WorkerInv, ExecutionOK
<1>3. at[p][w] \in AllSteps
  <2>1. stage[p][w] = "ran" => at[p][w] \in AllSteps
    BY DEF WorkerInv, ExecutionOK
  <2>2. QED
    BY <2>1 DEF Poll, TimeOut, Disconnected
<1>4. UNCHANGED <<proc, at, store, released, probe, ghosts, db, ends, outages>>
  BY DEF Poll, TimeOut, Disconnected
<1>5. PICK g \in {"ran", "done", "failed", "refused"}, n \in 0 .. MaxPolls :
         /\ stage' = [stage EXCEPT ![p][w] = g] /\ polls' = [polls EXCEPT ![p][w] = n]
         /\ \/ stage[p][w] = "start" /\ g = "refused"
            \/ /\ stage[p][w] = "ran"
               /\ \/ g = "failed"
                  \/ g = "done" /\ released[w]
                  \/ g = "ran" /\ ~released[w]
  <2>1. /\ stage = [stage EXCEPT ![p][w] = stage[p][w]]
        /\ polls = [polls EXCEPT ![p][w] = polls[p][w]]
    BY <1>1 DEF TypeOK
  <2>2. 0 \in 0 .. MaxPolls
    BY DurableWorkerAssumption
  <2>3. CASE Poll(p, w)
    <3>1. polls[p][w] - 1 \in 0 .. MaxPolls
      BY <1>2, <2>3, DurableWorkerAssumption DEF Poll
    <3>2. CASE released[w]
      BY <2>2, <2>3, <3>2 DEF Poll
    <3>3. CASE ~released[w]
      <4>1. stage[p][w] = "ran" /\ stage' = [stage EXCEPT ![p][w] = "ran"]
            /\ polls' = [polls EXCEPT ![p][w] = polls[p][w] - 1]
        BY <2>1, <2>3, <3>3 DEF Poll
      <4>2. QED
        BY <3>1, <3>3, <4>1
    <3>4. QED
      BY <3>2, <3>3
  <2>4. CASE TimeOut(p, w)
    BY <1>2, <2>1, <2>4 DEF TimeOut, OnDeadline
  <2>5. CASE Disconnected(p, w)
    BY <1>2, <2>2, <2>5 DEF Disconnected
  <2>6. QED
    BY <2>3, <2>4, <2>5
<1>6. g \in {"ran", "done", "failed", "refused"}
  BY <1>5
<1>7. /\ stage' \in [Procs -> [Workflows -> {"start", "ran", "done", "failed", "refused"}]]
      /\ \A q \in Procs, v \in Workflows :
            stage'[q][v] = IF q = p /\ v = w THEN g ELSE stage[q][v]
  BY <1>1, <1>5, <1>6, Nested DEF TypeOK
<1>8. /\ polls' \in [Procs -> [Workflows -> 0 .. MaxPolls]]
      /\ \A q \in Procs, v \in Workflows :
            polls'[q][v] = IF q = p /\ v = w THEN n ELSE polls[q][v]
  BY <1>1, <1>5, Nested DEF TypeOK
<1>9. TypeOK'
  BY <1>1, <1>4, <1>7, <1>8 DEF TypeOK, proc, store, ghosts
<1>10. ExecutionOK' /\ OnePending'
  <2>1. stage[p][w] = "ran" /\ early[w] => released[w]
    BY DEF WorkerInv, ExecutionOK
  <2>2. /\ \A v \in Workflows : early'[v] = early[v]
        /\ ~(g = "ran" /\ early'[w])
    BY <1>4, <1>5, <2>1 DEF ghosts
  <2>3. /\ g = "ran" => at[p][w] \in Boundaries
        /\ g = "done" => released[w]
    BY <1>2, <1>5
  <2>4. UNCHANGED <<proc, at, store, released>>
    BY <1>4
  <2>5. \A q \in Procs, v \in Workflows :
           /\ stage'[q][v] = IF q = p /\ v = w THEN g ELSE stage[q][v]
           /\ ~(q = p /\ v = w) => polls'[q][v] = polls[q][v]
    BY <1>7, <1>8
  <2>6. QED
    BY <1>3, <2>2, <2>3, <2>4, <2>5, StageExecution
<1>11. RecordOK'
  BY <1>4, RecordFrame DEF store
<1>12. EffectOK'
  <2>1. \A q \in Procs, v \in Workflows : \A t : Ran(q, v, t)' <=> Ran(q, v, t)
    BY <1>4, <1>5, <1>7 DEF Ran
  <2>2. QED
    BY <1>4, <2>1 DEF WorkerInv, EffectOK, store, ghosts
<1>13. ProbeOK'
  BY <1>4, ProbeFrame DEF proc
<1>14. QED
  BY <1>9, <1>10, <1>11, <1>12, <1>13, Together

-----------------------------------------------------------------------------
\* A step is recorded, or its error is.
LEMMA RecordInv ==
    ASSUME WorkerInv, NEW p \in Procs, NEW w \in Workflows, Record(p, w) PROVE WorkerInv'
<1> DEFINE s == at[p][w]
<1>1. TypeOK
  BY DEF WorkerInv
<1>2. /\ UNCHANGED <<proc, polls, db, status, owner, released, probe, effects, ends, outages>>
      /\ Launched(p) /\ s \in AllSteps
      /\ stage' = [stage EXCEPT ![p][w] = "start"] /\ early' = [early EXCEPT ![w] = FALSE]
  BY DEF Record
<1>3. /\ s # "idle" /\ s \in ToSet(StepsOf(w)) /\ ~raised[w] /\ s \notin recorded[w]
      /\ status[w] = "pending" /\ owner[w] = p /\ Alive(p)
      /\ s = Resume(w, recorded[w], FALSE)
  BY <1>2, ExecutingIs, StepsDiffer
<1>4. PICK x \in AllSteps \cup {"return", "raise"}, error \in BOOLEAN,
           record \in SUBSET AllSteps :
         /\ at' = [at EXCEPT ![p][w] = x] /\ raised' = [raised EXCEPT ![w] = error]
         /\ recorded' = [recorded EXCEPT ![w] = record]
         /\ \/ /\ stage[p][w] = "done" /\ record = recorded[w] \cup {s}
               /\ x = After(w, s) /\ ~error
            \/ /\ stage[p][w] \in {"failed", "refused"} /\ record = recorded[w]
               /\ x = "raise" /\ error
  <2>1. /\ raised = [raised EXCEPT ![w] = FALSE] /\ recorded[w] \in SUBSET AllSteps
        /\ recorded = [recorded EXCEPT ![w] = recorded[w]]
    BY <1>1, <1>3 DEF TypeOK
  <2>2. CASE stage[p][w] = "done"
    <3>1. /\ at' = [at EXCEPT ![p][w] = After(w, s)] /\ raised' = raised
          /\ recorded' = [recorded EXCEPT ![w] = recorded[w] \cup ({s} \cap Durable)]
      BY <2>2 DEF Record
    <3>2. {s} \cap Durable = {s} /\ recorded[w] \cup {s} \in SUBSET AllSteps
      BY <1>2, <2>1, StepsDiffer
    <3>3. After(w, s) \in AllSteps \cup {"return", "raise"}
      <4>1. InOrder(w, recorded[w])
        BY DEF WorkerInv, RecordOK
      <4>2. s # "return"
        BY <1>2, StepsDiffer
      <4>3. After(w, s) = Resume(w, recorded[w] \cup {s}, FALSE)
        BY <1>3, <4>1, <4>2, ResumeFacts
      <4>4. After(w, s) = "return" \/ After(w, s) \in ToSet(StepsOf(w))
        BY <4>3, ResumeNext
      <4>5. QED
        BY <4>4, StepsDiffer
    <3>4. QED
      BY <2>1, <2>2, <3>1, <3>2, <3>3
  <2>3. CASE stage[p][w] # "done"
    BY <2>1, <2>3 DEF Record
  <2>4. QED
    BY <2>2, <2>3
<1> HIDE DEF s
<1>5. /\ at' \in [Procs -> [Workflows -> AllSteps \cup {"idle", "return", "raise"}]]
      /\ \A q \in Procs, v \in Workflows :
            at'[q][v] = IF q = p /\ v = w THEN x ELSE at[q][v]
  <2>1. x \in AllSteps \cup {"idle", "return", "raise"}
    BY <1>4
  <2>2. QED
    BY <1>1, <1>4, <2>1, Nested DEF TypeOK
<1>6. /\ stage' \in [Procs -> [Workflows -> {"start", "ran", "done", "failed", "refused"}]]
      /\ \A q \in Procs, v \in Workflows :
            stage'[q][v] = IF q = p /\ v = w THEN "start" ELSE stage[q][v]
  BY <1>1, <1>2, Nested DEF TypeOK
<1>7. /\ \A v \in Workflows : recorded'[v] = IF v = w THEN record ELSE recorded[v]
      /\ \A v \in Workflows : raised'[v] = IF v = w THEN error ELSE raised[v]
      /\ \A v \in Workflows : early'[v] = IF v = w THEN FALSE ELSE early[v]
  BY <1>1, <1>2, <1>4 DEF TypeOK
<1>8. TypeOK'
  <2>1. /\ recorded' \in [Workflows -> SUBSET AllSteps] /\ raised' \in [Workflows -> BOOLEAN]
        /\ early' \in [Workflows -> BOOLEAN]
    BY <1>1, <1>2, <1>4 DEF TypeOK
  <2>2. QED
    BY <1>1, <1>2, <1>5, <1>6, <2>1 DEF TypeOK, proc
<1>9. x = Resume(w, record, error) /\ InOrder(w, record) /\ x # "idle"
  <2>1. InOrder(w, recorded[w])
    BY DEF WorkerInv, RecordOK
  <2>2. s # "return"
    BY <1>2, StepsDiffer DEF s
  <2>3. /\ After(w, s) = Resume(w, recorded[w] \cup {s}, FALSE)
        /\ InOrder(w, recorded[w] \cup {s})
    BY <1>3, <2>1, <2>2, ResumeFacts
  <2>4. After(w, s) # "idle"
    BY <2>3, ResumeNext
  <2>5. CASE error = TRUE
    BY <1>4, <2>1, <2>5, ResumeIs
  <2>6. CASE error = FALSE
    BY <1>4, <2>3, <2>4, <2>6
  <2>7. QED
    BY <2>5, <2>6
<1>10. \A q \in Procs : q # p => at[q][w] = "idle" /\ stage[q][w] = "start"
  <2>1. \A q \in Procs : at[q][w] # "idle" => q = p
    BY <1>3 DEF WorkerInv, OneAtATime, s
  <2>2. QED
    BY <2>1, StepsDiffer DEF WorkerInv, ExecutionOK
<1>11. ExecutionOK'
  <2>1. SUFFICES ASSUME NEW q \in Procs, NEW v \in Workflows
        PROVE /\ at'[q][v] # "idle" =>
                    /\ Alive(q)' /\ status'[v] = "pending" /\ owner'[v] = q
                    /\ at'[q][v] = Resume(v, recorded'[v], raised'[v])
              /\ at'[q][v] \notin AllSteps => stage'[q][v] = "start"
              /\ stage'[q][v] = "ran" => at'[q][v] \in Boundaries
              /\ stage'[q][v] = "done" /\ at'[q][v] \in Boundaries => released'[v]
              /\ stage'[q][v] = "ran" /\ early'[v] => released'[v] /\ polls'[q][v] > 0
              /\ v \in recover'[q] =>
                    /\ q = "resident" /\ at'[q][v] = "idle"
                    /\ status'[v] = "pending" /\ owner'[v] = q
    BY DEF ExecutionOK
  <2>2. /\ status' = status /\ owner' = owner /\ released' = released /\ polls' = polls
        /\ recover' = recover /\ (Alive(q)' <=> Alive(q))
    BY <1>2 DEF proc, Alive
  <2>3. w \notin recover[p]
    BY <1>3 DEF WorkerInv, ExecutionOK, s
  <2>4. CASE q = p /\ v = w
    BY <1>3, <1>5, <1>6, <1>7, <1>9, <2>2, <2>3, <2>4
  <2>5. CASE q # p /\ v = w
    <3>1. at'[q][v] = "idle" /\ stage'[q][v] = "start" /\ at[q][v] = "idle"
      BY <1>5, <1>6, <1>10, <2>5
    <3>2. QED
      BY <2>2, <3>1 DEF WorkerInv, ExecutionOK
  <2>6. CASE v # w
    <3>1. /\ at'[q][v] = at[q][v] /\ stage'[q][v] = stage[q][v] /\ early'[v] = early[v]
          /\ recorded'[v] = recorded[v] /\ raised'[v] = raised[v]
      BY <1>5, <1>6, <1>7, <2>6
    <3>2. QED
      BY <2>2, <3>1 DEF WorkerInv, ExecutionOK
  <2>7. QED
    BY <2>4, <2>5, <2>6
<1>12. OnePending'
  BY <1>2 DEF WorkerInv, OnePending
<1>13. RecordOK'
  <2>1. stage[p][w] = "done" /\ s \in Boundaries => released[w]
    BY DEF WorkerInv, ExecutionOK, s
  <2>2. SUFFICES ASSUME NEW v \in Workflows
        PROVE /\ recorded'[v] \subseteq ToSet(StepsOf(v)) /\ InOrder(v, recorded'[v])
              /\ recorded'[v] \cap Boundaries # {} => released[v]
              /\ status[v] = "success" => recorded'[v] = ToSet(StepsOf(v))
              /\ raised'[v] => recorded'[v] # ToSet(StepsOf(v))
    BY <1>2 DEF RecordOK, InOrder
  <2>3. CASE v = w
    <3>1. /\ recorded[w] \subseteq ToSet(StepsOf(w))
          /\ recorded[w] \cap Boundaries # {} => released[w]
      BY DEF WorkerInv, RecordOK
    <3>2. /\ recorded'[w] = record /\ status[w] # "success"
          /\ raised'[w] = error /\ recorded[w] # ToSet(StepsOf(w))
      BY <1>3, <1>7
    <3>3. CASE record = recorded[w]
      BY <1>9, <2>3, <3>1, <3>2, <3>3
    <3>4. CASE record = recorded[w] \cup {s} /\ stage[p][w] = "done" /\ ~error
      BY <1>3, <1>9, <2>1, <2>3, <3>1, <3>2, <3>4
    <3>5. QED
      BY <1>4, <3>3, <3>4
  <2>4. CASE v # w
    <3>1. recorded'[v] = recorded[v] /\ raised'[v] = raised[v]
      BY <1>7, <2>4
    <3>2. QED
      BY <3>1 DEF WorkerInv, RecordOK
  <2>5. QED
    BY <2>3, <2>4
<1>14. EffectOK'
  <2>1. effects' = effects
    BY <1>2
  <2>2. SUFFICES ASSUME NEW v \in Workflows, NEW t \in ToSet(StepsOf(v))
        PROVE LET ran == t \in recorded'[v] \/ \E q \in Procs : Ran(q, v, t)'
              IN /\ ran => effects[t] = 1
                 /\ ~ran => effects[t] = 0 \/ (raised'[v] /\ effects[t] = 1)
    BY <2>1 DEF EffectOK
  <2>3. /\ (t \in recorded[v] \/ \E q \in Procs : Ran(q, v, t)) => effects[t] = 1
        /\ ~(t \in recorded[v] \/ \E q \in Procs : Ran(q, v, t)) =>
              effects[t] = 0 \/ (raised[v] /\ effects[t] = 1)
    BY DEF WorkerInv, EffectOK
  <2>4. CASE v # w
    <3>1. recorded'[v] = recorded[v] /\ raised'[v] = raised[v]
      BY <1>7, <2>4
    <3>2. \A q \in Procs : Ran(q, v, t)' <=> Ran(q, v, t)
      BY <1>5, <1>6, <2>4 DEF Ran
    <3>3. QED
      BY <2>3, <3>1, <3>2
  <2>5. CASE v = w
    <3>1. \A q \in Procs : ~Ran(q, w, t)' /\ (Ran(q, w, t) => q = p /\ t = s)
      BY <1>5, <1>6, <1>10 DEF Ran, s
    <3>2. CASE record = recorded[w] \cup {s} /\ stage[p][w] = "done" /\ ~error
      <4>1. Ran(p, w, s)
        BY <3>2 DEF Ran, s
      <4>2. recorded'[v] = recorded[w] \cup {s}
        BY <1>7, <2>5, <3>2
      <4>3. ~raised'[v] /\ ~raised[v]
        BY <1>3, <1>7, <2>5, <3>2
      <4>4. t = s => effects[t] = 1
        BY <2>3, <2>5, <4>1
      <4>5. t \in recorded'[v] => effects[t] = 1
        BY <2>3, <2>5, <4>2, <4>4
      <4>6. t \notin recorded'[v] =>
               t \notin recorded[v] /\ \A q \in Procs : ~Ran(q, v, t)
        BY <2>5, <3>1, <4>2
      <4>7. QED
        BY <2>3, <2>5, <3>1, <4>3, <4>5, <4>6
    <3>3. CASE record = recorded[w] /\ error
      <4>1. recorded'[v] = recorded[v] /\ raised'[v]
        BY <1>7, <2>5, <3>3
      <4>2. effects[t] \in {0, 1} /\ (t \in recorded[v] => effects[t] = 1)
        BY <2>3
      <4>3. QED
        BY <2>5, <3>1, <4>1, <4>2
    <3>4. QED
      BY <1>4, <3>2, <3>3
  <2>6. QED
    BY <2>4, <2>5
<1>15. ProbeOK'
  BY <1>2, ProbeFrame DEF proc
<1>16. QED
  BY <1>8, <1>11, <1>12, <1>13, <1>14, <1>15, Together

\* A workflow that has returned had every step recorded.
LEMMA FinishInv ==
    ASSUME WorkerInv, NEW p \in Procs, NEW w \in Workflows, Finish(p, w) PROVE WorkerInv'
<1>1. TypeOK
  BY DEF WorkerInv
<1>2. /\ UNCHANGED <<proc, stage, polls, db, recorded, raised, released, probe, ghosts,
                     ends, outages>>
      /\ at[p][w] \in {"return", "raise"}
      /\ \A v \in Workflows : v # w => status'[v] = status[v] /\ owner'[v] = owner[v]
      /\ status'[w] \in {"success", "error"}
      /\ status'[w] = "success" => at[p][w] = "return"
      /\ at' = [at EXCEPT ![p][w] = "idle"]
  BY <1>1 DEF Finish, TypeOK
<1>3. /\ at' \in [Procs -> [Workflows -> AllSteps \cup {"idle", "return", "raise"}]]
      /\ \A q \in Procs, v \in Workflows :
            at'[q][v] = IF q = p /\ v = w THEN "idle" ELSE at[q][v]
  BY <1>1, <1>2, Nested DEF TypeOK
<1>4. TypeOK'
  <2>1. status' \in [Workflows -> {"absent", "enqueued", "pending", "success", "error"}]
        /\ owner' \in [Workflows -> Procs \cup {"none"}]
    BY <1>1 DEF Finish, TypeOK
  <2>2. QED
    BY <1>1, <1>2, <1>3, <2>1 DEF TypeOK, proc, ghosts
<1>5. /\ at[p][w] # "idle" /\ at[p][w] \notin AllSteps /\ "idle" \notin AllSteps
      /\ \A q \in Procs : at[q][w] # "idle" => q = p
  BY <1>2, StepsDiffer DEF WorkerInv, OneAtATime
<1>6. \A q \in Procs : w \notin recover[q]
  <2>1. owner[w] = p /\ w \notin recover[p]
    BY <1>5 DEF WorkerInv, ExecutionOK
  <2>2. QED
    BY <2>1 DEF WorkerInv, ExecutionOK
<1>7. ExecutionOK'
  <2>1. /\ stage' = stage /\ polls' = polls /\ recorded' = recorded /\ raised' = raised
        /\ released' = released /\ early' = early /\ recover' = recover /\ phase' = phase
    BY <1>2 DEF proc, ghosts
  <2>2. \A q \in Procs : at'[q][w] = "idle" /\ stage[q][w] = "start"
    BY <1>3, <1>5 DEF WorkerInv, ExecutionOK
  <2>3. SUFFICES ASSUME NEW q \in Procs, NEW v \in Workflows
        PROVE /\ at'[q][v] # "idle" =>
                    /\ Alive(q) /\ status'[v] = "pending" /\ owner'[v] = q
                    /\ at'[q][v] = Resume(v, recorded[v], raised[v])
              /\ at'[q][v] \notin AllSteps => stage[q][v] = "start"
              /\ stage[q][v] = "ran" => at'[q][v] \in Boundaries
              /\ stage[q][v] = "done" /\ at'[q][v] \in Boundaries => released[v]
              /\ stage[q][v] = "ran" /\ early[v] => released[v] /\ polls[q][v] > 0
              /\ v \in recover[q] =>
                    /\ q = "resident" /\ at'[q][v] = "idle"
                    /\ status'[v] = "pending" /\ owner'[v] = q
    BY <2>1 DEF ExecutionOK, Alive
  <2>4. CASE v = w
    BY <1>6, <2>2, <2>4
  <2>5. CASE v # w
    <3>1. at'[q][v] = at[q][v] /\ status'[v] = status[v] /\ owner'[v] = owner[v]
      BY <1>2, <1>3, <2>5
    <3>2. QED
      BY <3>1 DEF WorkerInv, ExecutionOK
  <2>6. QED
    BY <2>4, <2>5
<1>8. OnePending'
  BY <1>2 DEF WorkerInv, OnePending
<1>9. RecordOK'
  <2>1. at[p][w] = "return" => ToSet(StepsOf(w)) \subseteq recorded[w]
    <3>1. SUFFICES ASSUME at[p][w] = "return" PROVE ToSet(StepsOf(w)) \subseteq recorded[w]
      OBVIOUS
    <3>2. ~raised[w]
      BY <1>5, <3>1, ExecutingIs
    <3>3. at[p][w] = Resume(w, recorded[w], FALSE)
      BY <1>5, <3>2, ExecutingIs
    <3>4. QED
      BY <3>1, <3>3, ResumeFacts
  <2>2. SUFFICES ASSUME NEW v \in Workflows
        PROVE /\ recorded[v] \subseteq ToSet(StepsOf(v)) /\ InOrder(v, recorded[v])
              /\ recorded[v] \cap Boundaries # {} => released[v]
              /\ status'[v] = "success" => recorded[v] = ToSet(StepsOf(v))
              /\ raised[v] => recorded[v] # ToSet(StepsOf(v))
    BY <1>2 DEF RecordOK, InOrder
  <2>3. QED
    BY <1>2, <2>1 DEF WorkerInv, RecordOK
<1>10. EffectOK'
  <2>1. \A q \in Procs, v \in Workflows : \A t \in AllSteps : Ran(q, v, t)' <=> Ran(q, v, t)
    BY <1>2, <1>3, <1>5 DEF Ran
  <2>2. recorded' = recorded /\ raised' = raised /\ effects' = effects
    BY <1>2 DEF ghosts
  <2>3. \A v \in Workflows : ToSet(StepsOf(v)) \subseteq AllSteps
    BY StepsDiffer
  <2>4. QED
    BY <2>1, <2>2, <2>3 DEF WorkerInv, EffectOK
<1>11. ProbeOK'
  BY <1>2, ProbeFrame DEF proc
<1>12. QED
  BY <1>4, <1>7, <1>8, <1>9, <1>10, <1>11, Together

-----------------------------------------------------------------------------
LEMMA InitInv == Init => WorkerInv
<1> SUFFICES ASSUME Init PROVE WorkerInv
  OBVIOUS
<1>1. \A s \in AllSteps : s # "idle"
  BY StepsDiffer
<1>2. TypeOK
  BY DurableWorkerAssumption DEF Init, TypeOK, NoProbe
<1>3. ExecutionOK /\ OnePending /\ OneAtATime
  BY <1>1 DEF Init, ExecutionOK, OnePending, OneAtATime
<1>4. RecordOK /\ ProbeOK
  BY DEF Init, RecordOK, ProbeOK, InOrder, NoProbe
<1>5. EffectOK
  BY StepsDiffer DEF Init, EffectOK, Ran
<1>6. QED
  BY <1>2, <1>3, <1>4, <1>5 DEF WorkerInv

LEMMA StutterInv == ASSUME WorkerInv, UNCHANGED vars PROVE WorkerInv'
<1>1. TypeOK'
  BY DEF WorkerInv, TypeOK, vars, proc, exec, store, ghosts
<1>2. ExecutionOK' /\ OnePending'
  BY ExecutionFrame DEF vars, proc, ghosts, Alive
<1>3. RecordOK' /\ EffectOK' /\ ProbeOK'
  BY RecordFrame, EffectFrame, ProbeFrame DEF vars, proc, exec, store, ghosts
<1>4. QED
  BY <1>1, <1>2, <1>3, Together

LEMMA NextInv == ASSUME WorkerInv, [Next]_vars PROVE WorkerInv'
<1>1. ASSUME NEW p \in Procs, Main(p) \/ Crash(p) PROVE WorkerInv'
  BY <1>1, MainInv, EndInv DEF Main
<1>2. ASSUME NEW p \in Procs, Execution(p) PROVE WorkerInv'
  BY <1>2, RecoverInv, DequeueInv, EffectInv, WaitInv, RecordInv, FinishInv DEF Execution
<1>3. ASSUME \/ \E w \in Workflows : Enqueue(w) \/ Release(w)
             \/ Lose \/ Reconnect
      PROVE  WorkerInv'
  BY <1>3, EnvironmentInv
<1>4. QED
  BY <1>1, <1>2, <1>3, StutterInv, SignalInv, ProbeInv DEF Next

\* What is executed, recorded and has taken effect fits together through every crash,
\* stop, outage and recovery, for any bounds on them and either set of processes.
THEOREM Invariance == Spec => []WorkerInv
<1>1. QED
  BY InitInv, NextInv, PTL DEF Spec

\* A step takes effect once more only for a process that ended between the effect and its
\* record.
THEOREM EffectsOnce == Spec => []EffectsExplained
<1>1. WorkerInv => EffectsExplained
  <2>1. SUFFICES ASSUME WorkerInv, NEW s \in AllSteps PROVE effects[s] <= 1
    BY DEF EffectsExplained
  <2>2. PICK w \in Workflows : s \in ToSet(StepsOf(w))
    BY StepsDiffer
  <2>3. effects[s] \in {0, 1}
    BY <2>1, <2>2 DEF WorkerInv, EffectOK
  <2>4. QED
    BY <2>3
<1>2. QED
  BY <1>1, Invariance, PTL

\* No workflow succeeds before its release, or with a step that was not done.
THEOREM EarnedSuccess == Spec => []SuccessIsEarned
<1>1. WorkerInv => SuccessIsEarned
  <2>1. SUFFICES ASSUME WorkerInv, NEW w \in Workflows, status[w] = "success"
                 PROVE  released[w] /\ \A s \in ToSet(StepsOf(w)) : effects[s] >= 1
    BY DEF SuccessIsEarned
  <2>2. recorded[w] = ToSet(StepsOf(w)) /\ (recorded[w] \cap Boundaries # {} => released[w])
    BY <2>1 DEF WorkerInv, RecordOK
  <2>3. ToSet(StepsOf(w)) \cap Boundaries # {}
    BY StepsAre, WorkflowIs DEF Boundaries
  <2>4. \A s \in ToSet(StepsOf(w)) : effects[s] = 1
    BY <2>1, <2>2 DEF WorkerInv, EffectOK
  <2>5. QED
    BY <2>2, <2>3, <2>4
<1>2. QED
  BY <1>1, Invariance, PTL

\* A boundary released before its attempt began has seen the release at its first poll: its
\* deadline ends no such attempt, and only a refused connection does.
THEOREM DeservedTimeout == Spec => TimeoutIsDeserved
<1> DEFINE P == \A p \in Procs, w \in Workflows :
                  (db /\ stage[p][w] = "ran" /\ stage'[p][w] = "failed") => ~early[w]
<1>1. WorkerInv /\ [Next]_vars => P
  <2>1. SUFFICES ASSUME WorkerInv, [Next]_vars, NEW p \in Procs, NEW w \in Workflows, db,
                        stage[p][w] = "ran", stage'[p][w] = "failed"
                 PROVE  ~early[w]
    OBVIOUS
  <2>2. /\ stage \in [Procs -> [Workflows -> {"start", "ran", "done", "failed", "refused"}]]
        /\ early[w] => polls[p][w] > 0
        /\ stage' # stage
    BY <2>1 DEF WorkerInv, TypeOK, ExecutionOK
  <2>3. ASSUME NEW q \in Procs, NEW v \in Workflows, NEW x,
               stage' = [stage EXCEPT ![q][v] = x]
        PROVE  q = p /\ v = w /\ x = "failed"
    BY <2>1, <2>2, <2>3
  <2>4. ASSUME NEW q \in Procs, Die(q) PROVE FALSE
    BY <2>1, <2>2, <2>4 DEF Die
  <2>5. ASSUME NEW q \in Procs, Main(q) \/ Crash(q) PROVE FALSE
    BY <2>2, <2>4, <2>5
       DEF Main, Crash, Start, Launch, LaunchFails, Serve, Wake, Destroy, Exit, exec
  <2>6. ASSUME NEW q \in Procs, NEW v \in Workflows, TimeOut(q, v)
        PROVE  ~early[w]
    <3>1. q = p /\ v = w /\ polls[q][v] = 0
      BY <2>3, <2>6 DEF TimeOut
    <3>2. QED
      BY <2>2, <3>1
  <2>7. ASSUME NEW q \in Procs, NEW v \in Workflows,
               Recover(q, v) \/ Dequeue(q, v) \/ Effect(q, v) \/ Poll(q, v) \/ Disconnected(q, v)
                 \/ Record(q, v) \/ Finish(q, v)
        PROVE  FALSE
    <3>1. CASE Recover(q, v) \/ Finish(q, v) \/ Disconnected(q, v)
      BY <2>1, <2>2, <3>1 DEF Recover, Finish, Disconnected, exec
    <3>2. CASE Dequeue(q, v) \/ Record(q, v)
      <4>1. stage' = [stage EXCEPT ![q][v] = "start"]
        BY <3>2 DEF Dequeue, Record
      <4>2. stage' # [stage EXCEPT ![q][v] = "start"]
        BY <2>3
      <4>3. QED
        BY <4>1, <4>2
    <3>3. CASE Effect(q, v)
      <4>1. \/ stage' = [stage EXCEPT ![q][v] = "ran"]
            \/ stage' = [stage EXCEPT ![q][v] = "done"]
        BY <3>3 DEF Effect
      <4>2. /\ stage' # [stage EXCEPT ![q][v] = "ran"]
            /\ stage' # [stage EXCEPT ![q][v] = "done"]
        BY <2>3
      <4>3. QED
        BY <4>1, <4>2
    <3>4. CASE Poll(q, v)
      <4>1. stage' = stage \/ stage' = [stage EXCEPT ![q][v] = "done"]
        BY <3>4 DEF Poll
      <4>2. stage' # [stage EXCEPT ![q][v] = "done"]
        BY <2>3
      <4>3. QED
        BY <2>2, <4>1, <4>2
    <3>5. QED
      BY <2>7, <3>1, <3>2, <3>3, <3>4
  <2>8. ASSUME \/ \E v \in Workflows : Enqueue(v) \/ Release(v)
               \/ Stop \/ ServeFails \/ Lose \/ Reconnect \/ Probe \/ ReadFlag \/ CheckDatabase
               \/ UNCHANGED vars
        PROVE  FALSE
    BY <2>2, <2>8 DEF Enqueue, Release, Stop, ServeFails, Lose, Reconnect, Probe, ReadFlag,
                      CheckDatabase, vars, exec
  <2>9. QED
    BY <2>1, <2>5, <2>6, <2>7, <2>8 DEF Next, Execution
<1>2. Spec => [][P]_vars
  BY <1>1, Invariance, PTL DEF Spec
<1>3. QED
  BY <1>2 DEF TimeoutIsDeserved

\* A probe that began after the stop is answered ready by no interleaving of the handler,
\* the stop and the end of the process.
THEOREM HonestProbe == Spec => ProbeIsHonest
<1>1. WorkerInv /\ [Next]_vars => (Ready => ~probe.stopped)
  BY DEF WorkerInv, ProbeOK, Ready, CheckDatabase
<1>2. Spec => [][Ready => ~probe.stopped]_vars
  BY <1>1, Invariance, PTL DEF Spec
<1>3. QED
  BY <1>2 DEF ProbeIsHonest

-----------------------------------------------------------------------------
(***************************************************************************)
(* The worker implements WorkflowSpec: only the record of a step, the end of   *)
(* a workflow, its submission and its release show; all else is a stutter.     *)
(***************************************************************************)
Left(w, record) == {i \in DOMAIN StepsOf(w) : StepsOf(w)[i] \notin record}
Outcome(v) == IF v \in {"enqueued", "pending"} THEN "open" ELSE v

LEMMA LeftIs ==
    ASSUME NEW w \in Workflows, NEW record
    PROVE  /\ Left(w, record) \subseteq 1 .. 3
           /\ Left(w, record) = {} <=> ToSet(StepsOf(w)) \subseteq record
BY WorkflowIs, StepsAre DEF Left

\* The step a workflow goes on with is the first that is left.
LEMMA FirstLeft ==
    ASSUME NEW w \in Workflows, NEW record, Resume(w, record, FALSE) # "return"
    PROVE  \E i \in Left(w, record) :
              /\ \A j \in Left(w, record) : i <= j
              /\ Resume(w, record, FALSE) = StepsOf(w)[i]
<1>1. PICK left : left = Left(w, record)
  OBVIOUS
<1>2. Resume(w, record, FALSE) = IF left = {} THEN "return" ELSE StepsOf(w)[Least(left)]
  BY <1>1, ResumeIs DEF Left
<1>3. left # {} /\ left \subseteq 1 .. 3
  BY <1>1, <1>2, LeftIs
<1>4. \E i \in left : \A j \in left : i <= j
  <2>1. CASE 1 \in left
    BY <1>3, <2>1
  <2>2. CASE 1 \notin left /\ 2 \in left
    BY <1>3, <2>2
  <2>3. CASE 1 \notin left /\ 2 \notin left
    <3>1. \A j \in left : j = 3
      BY <1>3, <2>3
    <3>2. 3 \in left
      BY <1>3, <3>1
    <3>3. QED
      BY <3>1, <3>2
  <2>4. QED
    BY <2>1, <2>2, <2>3
<1>5. Least(left) \in left /\ \A j \in left : Least(left) <= j
  BY <1>4 DEF Least
<1>6. QED
  BY <1>1, <1>2, <1>3, <1>5

LEMMA PromiseIs ==
    /\ \A w \in Workflows : Promise!Left(w) = Left(w, recorded[w])
    /\ \A w \in Workflows : [v \in Workflows |-> StepsOf(v)][w] = StepsOf(w)
BY DEF Promise!Left, Left

outcomeBar == [w \in Workflows |-> IF status[w] \in {"enqueued", "pending"} THEN "open"
                                   ELSE status[w]]

LEMMA OutcomeIs ==
    ASSUME WorkerInv, NEW w \in Workflows, NEW x, status' = [status EXCEPT ![w] = x]
    PROVE  outcomeBar' = [outcomeBar EXCEPT ![w] = Outcome(x)]
BY DEF WorkerInv, TypeOK, outcomeBar, Outcome

LEMMA StepIsStep ==
    ASSUME WorkerInv, [Next]_vars
    PROVE  [Promise!Next]_<<outcomeBar, recorded, released>>
<1>1. TypeOK
  BY DEF WorkerInv
<1>2. SUFFICES ASSUME ~UNCHANGED <<status, recorded, released>>
      PROVE  \/ UNCHANGED <<outcomeBar, recorded, released>>
             \/ \E w \in Workflows : \/ Promise!Submit(w) \/ Promise!Release(w)
                                     \/ Promise!Do(w) \/ Promise!End(w)
  BY DEF Promise!Next, outcomeBar
<1>3. ASSUME NEW w \in Workflows, Enqueue(w) PROVE Promise!Submit(w)
  BY <1>1, <1>3, OutcomeIs DEF Enqueue, Promise!Submit, Outcome, outcomeBar
<1>4. ASSUME NEW w \in Workflows, Release(w) PROVE Promise!Release(w)
  BY <1>4 DEF Release, Promise!Release, store
<1>5. ASSUME NEW p \in Procs, NEW w \in Workflows, Recover(p, w) \/ Dequeue(p, w)
      PROVE  UNCHANGED <<outcomeBar, recorded, released>>
  <2>1. PICK x \in {"enqueued", "pending"} :
           /\ status' = [status EXCEPT ![w] = x] /\ status[w] \in {"enqueued", "pending"}
           /\ UNCHANGED <<recorded, released>>
    BY <1>5 DEF Recover, Dequeue
  <2>2. outcomeBar' = [outcomeBar EXCEPT ![w] = "open"] /\ outcomeBar[w] = "open"
    BY <2>1, OutcomeIs DEF Outcome, outcomeBar
  <2>3. QED
    BY <2>1, <2>2 DEF outcomeBar
<1>6. ASSUME NEW p \in Procs, NEW w \in Workflows, Record(p, w)
      PROVE  UNCHANGED <<outcomeBar, recorded, released>> \/ Promise!Do(w)
  <2> DEFINE s == at[p][w]
  <2>1. s \in AllSteps /\ UNCHANGED <<status, released>> /\ s # "idle" /\ s # "return"
    BY <1>6, StepsDiffer DEF Record
  <2>2. outcomeBar' = outcomeBar /\ outcomeBar[w] = "open"
    BY <2>1, ExecutingIs DEF outcomeBar
  <2>3. CASE UNCHANGED recorded
    BY <2>1, <2>2, <2>3
  <2>4. CASE /\ stage[p][w] = "done"
             /\ recorded' = [recorded EXCEPT ![w] = @ \cup ({s} \cap Durable)]
    <3>1. s = Resume(w, recorded[w], FALSE) /\ {s} \cap Durable = {s}
      <4>1. ~raised[w]
        BY <2>1, ExecutingIs
      <4>2. s = Resume(w, recorded[w], FALSE)
        BY <2>1, <4>1, ExecutingIs
      <4>3. s \in Durable
        BY <2>1, StepsDiffer
      <4>4. QED
        BY <4>2, <4>3
    <3>2. PICK i \in Promise!Left(w) :
             (\A j \in Promise!Left(w) : i <= j) /\ s = StepsOf(w)[i]
      <4>1. Resume(w, recorded[w], FALSE) # "return"
        BY <2>1, <3>1
      <4>2. PICK i \in Left(w, recorded[w]) :
               /\ \A j \in Left(w, recorded[w]) : i <= j
               /\ Resume(w, recorded[w], FALSE) = StepsOf(w)[i]
        BY <4>1, FirstLeft
      <4>3. QED
        BY <3>1, <4>2, PromiseIs
    <3>3. s \in Boundaries => released[w]
      BY <2>4 DEF WorkerInv, ExecutionOK
    <3>4. recorded' = [recorded EXCEPT ![w] = @ \cup {s}]
      BY <2>4, <3>1
    <3> HIDE DEF s
    <3>5. s \in {[v \in Workflows |-> StepsOf(v)][w][k] :
                    k \in {k \in Promise!Left(w) : \A j \in Promise!Left(w) : k <= j}}
      BY <3>2, PromiseIs
    <3>6. QED
      BY <2>1, <2>2, <3>3, <3>4, <3>5 DEF Promise!Do, outcomeBar
  <2>5. QED
    BY <1>6, <2>3, <2>4 DEF Record
<1>7. ASSUME NEW p \in Procs, NEW w \in Workflows, Finish(p, w) PROVE Promise!End(w)
  <2>1. /\ at[p][w] \in {"return", "raise"} /\ UNCHANGED <<recorded, released>>
        /\ status' = [status EXCEPT ![w] = IF at[p][w] = "return" THEN "success" ELSE "error"]
    BY <1>7 DEF Finish
  <2>2. outcomeBar[w] = "open"
    BY <2>1, ExecutingIs DEF outcomeBar
  <2>3. at[p][w] = "return" <=> Promise!Left(w) = {}
    <3>1. CASE raised[w]
      <4>1. at[p][w] # "return"
        BY <2>1, <3>1, ExecutingIs
      <4>2. /\ recorded[w] \subseteq ToSet(StepsOf(w))
            /\ recorded[w] # ToSet(StepsOf(w))
        BY <3>1 DEF WorkerInv, RecordOK
      <4>3. Left(w, recorded[w]) # {}
        BY <4>2, LeftIs
      <4>4. QED
        BY <4>1, <4>3, PromiseIs
    <3>2. CASE ~raised[w]
      <4>1. at[p][w] = Resume(w, recorded[w], FALSE)
        BY <2>1, <3>2, ExecutingIs
      <4>2. at[p][w] = "return"
        BY <2>1, <4>1, ResumeFacts
      <4>3. Left(w, recorded[w]) = {}
        BY <4>1, <4>2, ResumeFacts, LeftIs
      <4>4. QED
        BY <4>2, <4>3, PromiseIs
    <3>3. QED
      BY <3>1, <3>2
  <2>4. outcomeBar' = [outcomeBar EXCEPT ![w] = IF Promise!Left(w) = {} THEN "success"
                                                ELSE "error"]
    BY <2>1, <2>3, OutcomeIs DEF Outcome
  <2>5. QED
    BY <2>1, <2>2, <2>4 DEF Promise!End, outcomeBar
<1>8. ASSUME NEW p \in Procs,
             Main(p) \/ Crash(p) \/ \E w \in Workflows : \/ Effect(p, w) \/ Poll(p, w)
                                                         \/ TimeOut(p, w) \/ Disconnected(p, w)
      PROVE  FALSE
  BY <1>2, <1>8 DEF Main, Start, Launch, LaunchFails, Serve, Wake, Destroy, Exit, Crash, Die,
                    Effect, Poll, TimeOut, Disconnected, store
<1>9. ASSUME \/ Stop \/ ServeFails \/ Lose \/ Reconnect \/ Probe \/ ReadFlag \/ CheckDatabase
             \/ UNCHANGED vars
      PROVE  FALSE
  BY <1>2, <1>9 DEF Stop, ServeFails, Lose, Reconnect, Probe, ReadFlag, CheckDatabase,
                    vars, store
<1>10. QED
  BY <1>3, <1>4, <1>5, <1>6, <1>7, <1>8, <1>9 DEF Next, Execution

\* Through any number of crashes, stops, outages and recoveries, and of processes that
\* share the queue, the workflows are what WorkflowSpec says, for any bounds on them.
THEOREM Implementation == Spec => ImplementsPromise
<1>1. Init => Promise!Init
  BY DEF Init, Promise!Init
<1>2. WorkerInv /\ [Next]_vars => [Promise!Next]_Promise!vars
  BY StepIsStep DEF Promise!vars, outcomeBar
<1>3. QED
  BY <1>1, <1>2, Invariance, PTL DEF Spec, Promise!Spec, ImplementsPromise

=============================================================================
