------------------------- MODULE SpikeRunner_proofs -------------------------
(***************************************************************************)
(* Theorems about SpikeRunner, for any number of killed runs.  The invariant   *)
(* has three parts beside the types: what has been counted, how far each       *)
(* provider has come, and which checks the visit in progress has behind it.    *)
(***************************************************************************)
EXTENDS SpikeRunner, TLAPS

Busy == phase \in {"send", "await", "closing"}

\* Counting.
Counting ==
    /\ Accounted
    /\ phase # "off" => \A k \in Kinds : file.counts[k] <= report.counts[k]
    /\ \A k \in Kinds : file.counts[k] <= Limit[k] /\ report.counts[k] <= Limit[k]
    /\ \A k \in Kinds : lost[k] <= Limit[k] * kills

\* Standing of the providers.
Standing ==
    /\ \A p \in Providers : file.status[p] = "pass" => report.status[p] = "pass"
    /\ Busy => provider \in todo /\ file.status[provider] # "pass"
    /\ \A p \in Providers : file.status[p] # "started"
    /\ phase # "off" => \A p \in Providers :
          report.status[p] = "started" => Busy /\ p = provider
    /\ phase = "closing" => report.status[provider] \in {"pass", "failed"}
    /\ phase # "off" => \A p \in names \ todo : report.status[p] \in {"pass", "failed"}
    /\ ExitIsHonest

\* The checks before the one in progress.
Behind ==
    phase \in {"send", "await"} =>
        /\ provider = "tavily" <=> step = "search"
        /\ step \in {"text", "tool", "structured"} => "discovery" \in report.checks
        /\ step \in {"tool", "structured"} => "text" \in fresh
        /\ step = "structured" => "tool" \in fresh

IInv == TypeOK /\ Counting /\ Standing /\ Behind

LEMMA Limits ==
    /\ \A k \in Kinds : k = "generation" \/ k = "discovery" \/ k = "search"
    /\ Limit["generation"] = 6 /\ Limit["discovery"] = 2 /\ Limit["search"] = 1
BY DEF Kinds, Limit

LEMMA KindType ==
    ASSUME NEW s PROVE Kind(s) \in Kinds /\ (Kind(s) = "search" <=> s = "search")
BY DEF Kind, Kinds

LEMMA EmptyReport ==
    /\ Empty \in Report /\ Empty.checks = {}
    /\ \A k \in Kinds : Empty.counts[k] = 0
    /\ \A p \in Providers : Empty.status[p] = "none"
BY DEF Empty, Report

\* A report changed at one status, count or set of checks is a report.
LEMMA ReportUpdate ==
    ASSUME NEW r \in Report, NEW p \in Providers, NEW v \in {"none", "started", "pass", "failed"},
           NEW k \in Kinds, NEW C \in SUBSET Checks
    PROVE  /\ [r EXCEPT !.status[p] = v] \in Report
           /\ [r EXCEPT !.counts[k] = @ + 1] \in Report
           /\ [r EXCEPT !.checks = C] \in Report
           /\ [r EXCEPT !.status[p] = v, !.checks = C] \in Report
<1>1. [r.status EXCEPT ![p] = v] \in [Providers -> {"none", "started", "pass", "failed"}]
  BY DEF Report
<1>2. [r.counts EXCEPT ![k] = @ + 1] \in [Kinds -> Nat]
  BY DEF Report
<1>3. [r EXCEPT !.status[p] = v] \in Report
  BY <1>1 DEF Report
<1>4. [r EXCEPT !.counts[k] = @ + 1] \in Report
  BY <1>2 DEF Report
<1>5. [r EXCEPT !.checks = C] \in Report
  BY DEF Report
<1>6. [r EXCEPT !.status[p] = v, !.checks = C] \in Report
  BY <1>1 DEF Report
<1> QED
  BY <1>3, <1>4, <1>5, <1>6

LEMMA InitOK == Init => IInv
<1> SUFFICES ASSUME Init PROVE IInv
  OBVIOUS
<1>1. TypeOK
  <2>1. file \in Report /\ report \in Report
    BY EmptyReport DEF Init
  <2>2. called \in BOOLEAN /\ fresh \in SUBSET (Checks \cup {"search"}) /\ todo \in SUBSET names
    BY DEF Init
  <2>3. sent \in [Kinds -> Nat] /\ lost \in [Kinds -> Nat] /\ kills \in 0 .. MaxKills
    BY SpikeRunnerAssumption DEF Init, Zero
  <2>4. phase \in {"off", "next", "send", "await", "closing"} /\ names \in SUBSET Providers
    BY DEF Init
  <2>5. /\ provider \in Providers /\ step \in Checks \cup {"search"} /\ turns \in Nat
        /\ exit \in {"none", "0", "1", "killed"}
    BY DEF Init, Providers, Checks
  <2> QED
    BY <2>1, <2>2, <2>3, <2>4, <2>5 DEF TypeOK
<1>2. Counting
  BY EmptyReport, Limits DEF Init, Counting, Accounted, Zero, Kinds
<1>3. Standing
  BY EmptyReport DEF Init, Standing, Busy, ExitIsHonest
<1>4. Behind
  BY DEF Init, Behind
<1> QED
  BY <1>1, <1>2, <1>3, <1>4 DEF IInv

-----------------------------------------------------------------------------
\* Types.
LEMMA TypeStep == TypeOK /\ Counting /\ [Next]_vars => TypeOK'
<1> SUFFICES ASSUME TypeOK, Counting, [Next]_vars PROVE TypeOK'
  OBVIOUS
<1> USE DEF TypeOK
<1>1. ASSUME NEW wanted \in SUBSET Providers, Start(wanted) PROVE TypeOK'
  BY <1>1, EmptyReport, SpikeRunnerAssumption DEF Start, Resumed, Zero, ghosts, agent
<1>2. CASE FailToStart
  BY <1>2 DEF FailToStart, config, agent, ghosts
<1>3. ASSUME NEW p \in Providers, Skip(p) PROVE TypeOK'
  BY <1>3 DEF Skip, agent, ghosts
<1>4. ASSUME NEW p \in Providers, Visit(p) PROVE TypeOK'
  BY <1>4, ReportUpdate DEF Visit, FirstStep, Checks, Kinds, ghosts
<1>5. CASE Send
  <2>1. report' \in Report
    <3>1. report' = [report EXCEPT !.counts[Kind(step)] = @ + 1] /\ Kind(step) \in Kinds
      BY <1>5, KindType DEF Send
    <3> QED
      BY <3>1, ReportUpdate DEF Providers
  <2>2. sent' \in [Kinds -> Nat] /\ turns' \in Nat
    BY <1>5, KindType DEF Send
  <2> QED
    BY <1>5, <2>1, <2>2 DEF Send, config
<1>6. CASE SendCapped
  BY <1>6, ReportUpdate DEF SendCapped, Kinds, config, agent, ghosts
<1>7. CASE Passed
  <2>1. fresh' \in SUBSET (Checks \cup {"search"})
    BY <1>7 DEF Passed
  <2>2. CASE After(step) = "none"
    <3>1. report.checks \cup ({step} \cap Checks) \in SUBSET Checks
      BY DEF Report
    <3>0. \E k : k \in Kinds
      BY DEF Kinds
    <3>2. report' = [report EXCEPT !.status[provider] = "pass",
                                   !.checks = report.checks \cup ({step} \cap Checks)]
      BY <1>7, <2>2 DEF Passed
    <3>3. report' \in Report
      BY <3>0, <3>1, <3>2, ReportUpdate
    <3> QED
      BY <1>7, <2>1, <2>2, <3>3 DEF Passed, config, agent, ghosts
  <2>3. CASE After(step) # "none"
    <3>1. step \in Checks /\ After(step) \in Checks
      BY <2>3 DEF After, Checks
    <3>2. report' \in Report
      BY <1>7, <2>3, <3>1 DEF Passed, Report
    <3>3. step' \in Checks \cup {"search"} /\ turns' \in Nat /\ phase' = "send"
      BY <1>7, <2>3, <3>1 DEF Passed
    <3>4. called' \in BOOLEAN
      BY <1>7, <2>3 DEF Passed
    <3>5. UNCHANGED <<file, names, todo, provider, exit, sent, lost, kills>>
      BY <1>7 DEF Passed, config, ghosts
    <3> QED
      BY <2>1, <3>2, <3>3, <3>4, <3>5
  <2> QED
    BY <2>2, <2>3
<1>8. CASE AnotherTurn
  BY <1>8 DEF AnotherTurn, config, ghosts
<1>9. CASE Failed
  BY <1>9, ReportUpdate DEF Failed, Kinds, config, agent, ghosts
<1>10. CASE Close
  BY <1>10 DEF Close, agent, ghosts
<1>11. CASE Timeout
  BY <1>11, ReportUpdate DEF Timeout, TimeoutReport, Kinds, agent, ghosts
<1>12. CASE Finish
  BY <1>12 DEF Finish, config, agent, ghosts
<1>13. CASE Kill
  <2>1. \A k \in Kinds : lost[k] + (report.counts[k] - file.counts[k]) \in Nat
    BY <1>13 DEF Kill, Counting, Report
  <2>2. lost' \in [Kinds -> Nat]
    BY <1>13, <2>1 DEF Kill
  <2>3. kills' \in 0 .. MaxKills
    BY <1>13, SpikeRunnerAssumption DEF Kill
  <2> QED
    BY <1>13, <2>2, <2>3 DEF Kill, config, agent
<1>14. CASE UNCHANGED vars
  BY <1>14 DEF vars, config, agent, ghosts
<1> QED
  BY <1>1, <1>2, <1>3, <1>4, <1>5, <1>6, <1>7, <1>8, <1>9, <1>10, <1>11, <1>12, <1>13, <1>14
  DEF Next, Progress, Answers

-----------------------------------------------------------------------------
\* Counting.
LEMMA CountsUntouched ==
    ASSUME Counting, file' = file, report'.counts = report.counts, sent' = sent, lost' = lost,
           kills' = kills, phase # "off", phase' # "off"
    PROVE  Counting'
BY DEF Counting, Accounted

LEMMA CountingStep == TypeOK /\ Counting /\ Standing /\ [Next]_vars => Counting'
<1> SUFFICES ASSUME TypeOK, Counting, Standing, [Next]_vars PROVE Counting'
  OBVIOUS
<1>0. /\ \A v \in {"started", "pass", "failed"}, p \in Providers :
            [report EXCEPT !.status[p] = v].counts = report.counts
      /\ \A C : [report EXCEPT !.checks = C].counts = report.counts
      /\ \A C : [report EXCEPT !.status[provider] = "pass", !.checks = C].counts = report.counts
  BY DEF TypeOK, Report
<1>1. ASSUME NEW wanted \in SUBSET Providers, Start(wanted) PROVE Counting'
  <2>1. CASE report' = file /\ UNCHANGED <<file, ghosts>>
    BY <1>1, <2>1 DEF Start, Counting, Accounted, TypeOK, Report, ghosts
  <2>2. CASE report' = Empty /\ file' = Empty /\ sent' = Zero /\ lost' = Zero /\ kills' = 0
    BY <1>1, <2>2, EmptyReport, Limits DEF Start, Counting, Accounted, Zero
  <2> QED
    BY <1>1, <2>1, <2>2 DEF Start, Resumed
<1>2. CASE FailToStart
  BY <1>2 DEF FailToStart, ghosts, Counting, Accounted
<1>3. ASSUME NEW p \in Providers, Skip(p) PROVE Counting'
  BY <1>3, CountsUntouched DEF Skip, ghosts
<1>4. ASSUME NEW p \in Providers, Visit(p) PROVE Counting'
  BY <1>0, <1>4, CountsUntouched DEF Visit, ghosts
<1>5. CASE Send
  <2> DEFINE k == Kind(step)
  <2>1. k \in Kinds
    BY KindType
  <2>2. /\ report'.counts = [report.counts EXCEPT ![k] = @ + 1]
        /\ sent' = [sent EXCEPT ![k] = @ + 1]
        /\ UNCHANGED <<file, lost, kills>> /\ phase # "off" /\ phase' # "off"
    BY <1>5 DEF Send, TypeOK, Report
  <2>3. report.counts[k] < Limit[k]
    BY <1>5, <2>1, Limits DEF Send, Capped, TypeOK, Report
  <2>4. /\ report.counts \in [Kinds -> Nat] /\ sent \in [Kinds -> Nat]
        /\ file.counts \in [Kinds -> Nat] /\ lost \in [Kinds -> Nat]
    BY DEF TypeOK, Report
  <2> HIDE DEF k
  <2>5. ASSUME NEW j \in Kinds
        PROVE  /\ sent'[j] = lost'[j] + report'.counts[j]
               /\ file'.counts[j] <= report'.counts[j]
               /\ report'.counts[j] <= Limit[j]
    <3>1. /\ sent[j] = lost[j] + report.counts[j] /\ file.counts[j] <= report.counts[j]
          /\ report.counts[j] <= Limit[j]
      BY <2>2 DEF Counting, Accounted
    <3>2. CASE j = k
      BY <2>1, <2>2, <2>3, <2>4, <3>1, <3>2, Limits
    <3>3. CASE j # k
      BY <2>1, <2>2, <2>4, <3>1, <3>3
    <3> QED
      BY <3>2, <3>3
  <2> QED
    BY <2>2, <2>5 DEF Counting, Accounted
<1>6. CASE SendCapped
  BY <1>0, <1>6, CountsUntouched DEF SendCapped, ghosts, TypeOK
<1>7. CASE Passed
  <2>1. report'.counts = report.counts
    BY <1>7 DEF Passed, TypeOK, Report
  <2> QED
    BY <1>7, <2>1, CountsUntouched DEF Passed, ghosts
<1>8. CASE AnotherTurn
  BY <1>8, CountsUntouched DEF AnotherTurn, ghosts
<1>9. CASE Failed
  BY <1>0, <1>9, CountsUntouched DEF Failed, ghosts, TypeOK
<1>10. CASE Close
  BY <1>10, CountsUntouched DEF Close, ghosts
<1>11. CASE Timeout
  BY <1>0, <1>11, CountsUntouched DEF Timeout, TimeoutReport, ghosts, TypeOK
<1>12. CASE Finish
  BY <1>12 DEF Finish, ghosts, Counting, Accounted
<1>13. CASE Kill
  <2>1. ASSUME NEW k \in Kinds
        PROVE  /\ sent'[k] = lost'[k] + file'.counts[k]
               /\ lost'[k] <= Limit[k] * kills'
    <3>1. /\ lost[k] \in Nat /\ report.counts[k] \in Nat /\ file.counts[k] \in Nat
          /\ sent[k] \in Nat /\ kills \in Nat
      BY SpikeRunnerAssumption DEF TypeOK, Report
    <3>2. /\ lost'[k] = lost[k] + (report.counts[k] - file.counts[k])
          /\ kills' = kills + 1 /\ sent'[k] = sent[k] /\ file' = file
      BY <1>13 DEF Kill
    <3>3. /\ lost[k] <= Limit[k] * kills /\ report.counts[k] <= Limit[k]
          /\ sent[k] = lost[k] + report.counts[k]
      BY <1>13 DEF Kill, Counting, Accounted
    <3>4. Limit[k] * kills' = Limit[k] * kills + Limit[k]
      <4>1. CASE Limit[k] = 6
        BY <3>1, <3>2, <4>1
      <4>2. CASE Limit[k] = 2
        BY <3>1, <3>2, <4>2
      <4>3. CASE Limit[k] = 1
        BY <3>1, <3>2, <4>3
      <4> QED
        BY <4>1, <4>2, <4>3, Limits
    <3>5. Limit[k] * kills \in Nat /\ Limit[k] \in Nat
      BY <3>1, Limits
    <3> QED
      BY <3>1, <3>2, <3>3, <3>4, <3>5
  <2> QED
    BY <1>13, <2>1 DEF Kill, Counting, Accounted
<1>14. CASE UNCHANGED vars
  BY <1>14 DEF vars, ghosts, Counting, Accounted
<1> QED
  BY <1>1, <1>2, <1>3, <1>4, <1>5, <1>6, <1>7, <1>8, <1>9, <1>10, <1>11, <1>12, <1>13, <1>14
  DEF Next, Progress, Answers

-----------------------------------------------------------------------------
\* Standing and the order of the checks.
LEMMA StandingStep == TypeOK /\ Standing /\ [Next]_vars => Standing'
<1> SUFFICES ASSUME TypeOK, Standing, [Next]_vars PROVE Standing'
  OBVIOUS
<1> USE DEF Standing, Busy, ExitIsHonest
<1>0. /\ file.status \in [Providers -> {"none", "started", "pass", "failed"}]
      /\ report.status \in [Providers -> {"none", "started", "pass", "failed"}]
      /\ provider \in Providers /\ todo \subseteq names /\ names \subseteq Providers
  BY DEF TypeOK, Report
<1>1. ASSUME NEW wanted \in SUBSET Providers, Start(wanted) PROVE Standing'
  <2>1. CASE report' = file /\ file' = file
    BY <1>0, <1>1, <2>1 DEF Start
  <2>2. CASE report' = Empty /\ file' = Empty
    BY <1>1, <2>2, EmptyReport DEF Start
  <2> QED
    BY <1>1, <2>1, <2>2 DEF Start, Resumed
<1>2. CASE FailToStart
  BY <1>2 DEF FailToStart, config
<1>3. ASSUME NEW p \in Providers, Skip(p) PROVE Standing'
  BY <1>0, <1>3 DEF Skip, IsDone
<1>4. ASSUME NEW p \in Providers, Visit(p) PROVE Standing'
  <2>1. report'.status = [report.status EXCEPT ![p] = "started"]
    BY <1>4 DEF Visit, TypeOK, Report
  <2> QED
    BY <1>0, <1>4, <2>1 DEF Visit, IsDone
<1>5. CASE Send
  <2>1. report'.status = report.status
    BY <1>5 DEF Send, TypeOK, Report
  <2> QED
    BY <1>5, <2>1 DEF Send, config
<1>6. CASE SendCapped \/ Failed
  <2>1. report'.status = [report.status EXCEPT ![provider] = "failed"]
    BY <1>6 DEF SendCapped, Failed, TypeOK, Report
  <2> QED
    BY <1>0, <1>6, <2>1 DEF SendCapped, Failed, config
<1>7. CASE Passed
  <2>1. CASE After(step) = "none"
    <3>1. report'.status = [report.status EXCEPT ![provider] = "pass"] /\ phase' = "closing"
      BY <1>7, <2>1 DEF Passed, TypeOK, Report
    <3> QED
      BY <1>0, <1>7, <3>1 DEF Passed, config
  <2>2. CASE After(step) # "none"
    <3>1. report'.status = report.status /\ phase' = "send"
      BY <1>7, <2>2 DEF Passed, TypeOK, Report
    <3> QED
      BY <1>0, <1>7, <3>1 DEF Passed, config
  <2> QED
    BY <2>1, <2>2
<1>8. CASE AnotherTurn
  BY <1>8 DEF AnotherTurn, config
<1>9. CASE Close
  BY <1>0, <1>9 DEF Close
<1>10. CASE Timeout
  <2>1. report'.status = [report.status EXCEPT ![provider] = "failed"]
    BY <1>10 DEF Timeout, TimeoutReport, TypeOK, Report
  <2> QED
    BY <1>0, <1>10, <2>1 DEF Timeout
<1>11. CASE Finish
  BY <1>0, <1>11 DEF Finish, config
<1>12. CASE Kill
  BY <1>12 DEF Kill, config
<1>13. CASE UNCHANGED vars
  BY <1>13 DEF vars, config
<1> QED
  BY <1>1, <1>2, <1>3, <1>4, <1>5, <1>6, <1>7, <1>8, <1>9, <1>10, <1>11, <1>12, <1>13
  DEF Next, Progress, Answers

LEMMA BehindStep == TypeOK /\ Behind /\ [Next]_vars => Behind'
<1> SUFFICES ASSUME TypeOK, Behind, [Next]_vars, phase' \in {"send", "await"} PROVE Behind'
  BY DEF Behind
<1> USE DEF Behind
<1>1. ASSUME NEW p \in Providers, Visit(p) PROVE Behind'
  <2>1. report'.checks = report.checks
    BY <1>1 DEF Visit, TypeOK, Report
  <2> QED
    BY <1>1, <2>1 DEF Visit, FirstStep, Providers
<1>2. CASE Send
  <2>1. report'.checks = report.checks
    BY <1>2 DEF Send, TypeOK, Report
  <2> QED
    BY <1>2, <2>1 DEF Send, config
<1>3. CASE Passed
  <2>1. After(step) # "none" /\ step' = After(step) /\ fresh' = fresh \cup {step}
    BY <1>3 DEF Passed
  <2>2. report'.checks = report.checks \cup {step} /\ provider' = provider
    BY <1>3, <2>1 DEF Passed, TypeOK, Report, config
  <2>3. \/ step = "discovery" /\ step' = "text"
        \/ step = "text" /\ step' = "tool"
        \/ step = "tool" /\ step' = "structured"
    BY <2>1 DEF After
  <2>4. provider # "tavily" /\ (step \in {"text", "tool"} => "discovery" \in report.checks)
        /\ (step = "tool" => "text" \in fresh)
    BY <1>3, <2>3 DEF Passed
  <2> QED
    BY <2>1, <2>2, <2>3, <2>4
<1>4. CASE AnotherTurn
  BY <1>4 DEF AnotherTurn, config
<1>5. CASE UNCHANGED vars
  BY <1>5 DEF vars, config, agent
<1>6. \/ \E p \in Providers : Visit(p)
      \/ Send \/ Passed \/ AnotherTurn \/ UNCHANGED vars
  BY DEF Next, Progress, Answers, Start, FailToStart, Skip, SendCapped, Failed, Close, Timeout,
         Finish, Kill
<1> QED
  BY <1>1, <1>2, <1>3, <1>4, <1>5, <1>6

-----------------------------------------------------------------------------
\* Types and accounting hold through any chain of runs.
THEOREM Invariance == Spec => [](Inv /\ IInv)
<1>1. Init => IInv
  BY InitOK
<1>2. IInv /\ [Next]_vars => IInv'
  BY TypeStep, CountingStep, StandingStep, BehindStep DEF IInv
<1>3. IInv => Inv
  BY DEF IInv, Inv, Counting
<1> QED
  BY <1>1, <1>2, <1>3, PTL DEF Spec

\* The caps bound a whole chain of resumed runs, one more for each killed one.
THEOREM CapsForever == Spec => []CapsHold
<1>1. IInv => CapsHold
  <2> SUFFICES ASSUME IInv, NEW k \in Kinds PROVE sent[k] <= Limit[k] * (1 + kills)
    BY DEF CapsHold
  <2>1. /\ lost[k] \in Nat /\ report.counts[k] \in Nat /\ file.counts[k] \in Nat
        /\ sent[k] \in Nat /\ kills \in Nat
    BY SpikeRunnerAssumption DEF IInv, TypeOK, Report
  <2>2. /\ lost[k] <= Limit[k] * kills /\ report.counts[k] <= Limit[k]
        /\ file.counts[k] <= Limit[k]
        /\ sent[k] = lost[k] + (IF phase = "off" THEN file.counts[k] ELSE report.counts[k])
    BY DEF IInv, Counting, Accounted
  <2>3. CASE Limit[k] = 6
    BY <2>1, <2>2, <2>3
  <2>4. CASE Limit[k] = 2
    BY <2>1, <2>2, <2>4
  <2>5. CASE Limit[k] = 1
    BY <2>1, <2>2, <2>5
  <2> QED
    BY <2>3, <2>4, <2>5, Limits
<1> QED
  BY <1>1, Invariance, PTL

\* An exit code of 0 means that all that was asked for has passed.
THEOREM HonestExit == Spec => []ExitIsHonest
<1>1. IInv => ExitIsHonest
  BY DEF IInv, Standing
<1> QED
  BY <1>1, Invariance, PTL

\* A pass is neither lost nor asked for again within one accounting.
THEOREM PassesStay == Spec => PassIsKept
<1> DEFINE Stays ==
      \A p \in Providers : file.status[p] = "pass" =>
          /\ file' # Empty => file'.status[p] = "pass"
          /\ \A k \in Kinds : (p = "tavily" <=> k = "search") => sent'[k] <= sent[k]
<1>1. IInv /\ [Next]_vars => Stays
  <2> SUFFICES ASSUME IInv, [Next]_vars, NEW p \in Providers, file.status[p] = "pass"
               PROVE  /\ file' # Empty => file'.status[p] = "pass"
                      /\ \A k \in Kinds : (p = "tavily" <=> k = "search") => sent'[k] <= sent[k]
    OBVIOUS
  <2>0. sent \in [Kinds -> Nat]
    BY DEF IInv, TypeOK
  <2>1. ASSUME NEW wanted \in SUBSET Providers, Start(wanted)
        PROVE  (file' # Empty => file' = file) /\ (\A k \in Kinds : sent'[k] <= sent[k])
    BY <2>0, <2>1 DEF Start, ghosts, Zero
  <2>2. CASE Finish
    <3>1. report.status[p] = "pass"
      BY <2>2 DEF Finish, IInv, Standing
    <3> QED
      BY <2>0, <2>2, <3>1 DEF Finish, ghosts
  <2>3. CASE Send
    <3>1. provider # p /\ provider \in Providers
      BY <2>3 DEF Send, IInv, Standing, Busy, TypeOK
    <3>2. provider = "tavily" <=> step = "search"
      BY <2>3 DEF Send, IInv, Behind
    <3>3. ~(p = "tavily" <=> Kind(step) = "search")
      BY <3>1, <3>2, KindType DEF Providers
    <3>4. ASSUME NEW k \in Kinds, p = "tavily" <=> k = "search" PROVE sent'[k] = sent[k]
      BY <2>0, <2>3, <3>3, <3>4 DEF Send
    <3> QED
      BY <2>0, <2>3, <3>4 DEF Send
  <2>4. CASE file' = file /\ sent' = sent
    BY <2>0, <2>4
  <2>5. \/ \E wanted \in SUBSET Providers : Start(wanted)
        \/ Finish \/ Send
        \/ file' = file /\ sent' = sent
    BY DEF Next, Progress, Answers, FailToStart, Skip, Visit, SendCapped, Passed, AnotherTurn,
           Failed, Close, Timeout, Kill, vars, ghosts
  <2> QED
    BY <2>0, <2>1, <2>2, <2>3, <2>4, <2>5
<1> QED
  BY <1>1, Invariance, PTL DEF Spec, PassIsKept

\* Gemini's verdict comes from one run that passed every check.
THEOREM OneRun == Spec => VerdictOfOneRun
<1> DEFINE One ==
      /\ report.status["gemini"] = "started" /\ report'.status["gemini"] = "pass"
      => {"text", "tool", "structured"} \subseteq fresh' /\ "discovery" \in report'.checks
<1>1. IInv /\ [Next]_vars => One
  <2> SUFFICES ASSUME IInv, [Next]_vars,
                      report.status["gemini"] = "started", report'.status["gemini"] = "pass"
               PROVE  {"text", "tool", "structured"} \subseteq fresh'
                      /\ "discovery" \in report'.checks
    OBVIOUS
  <2>0. report \in Report /\ file \in Report /\ "gemini" \in Providers /\ provider \in Providers
    BY DEF IInv, TypeOK, Providers
  <2>1. CASE Passed
    <3>1. After(step) = "none" /\ provider = "gemini"
      BY <2>0, <2>1 DEF Passed, Report
    <3>2. step # "search"
      BY <2>1, <3>1 DEF Passed, IInv, Behind
    <3>3. step = "structured"
      BY <3>1, <3>2 DEF After, IInv, TypeOK, Checks
    <3>4. "discovery" \in report.checks /\ {"text", "tool"} \subseteq fresh
      BY <2>1, <3>3 DEF Passed, IInv, Behind
    <3>5. fresh' = fresh \cup {"structured"}
      BY <2>1, <3>3 DEF Passed
    <3>6. report' = [report EXCEPT !.status[provider] = "pass",
                                   !.checks = report.checks \cup ({step} \cap Checks)]
      BY <2>1, <3>1 DEF Passed
    <3>7. report'.checks = report.checks \cup ({step} \cap Checks)
      BY <2>0, <3>6 DEF Report
    <3> QED
      BY <3>4, <3>5, <3>7
  <2>2. ASSUME NEW wanted \in SUBSET Providers, Start(wanted) PROVE FALSE
    BY <2>0, <2>2, EmptyReport DEF Start, Resumed, IInv, Standing
  <2>3. CASE ~Passed
    BY <2>0, <2>2, <2>3
    DEF Next, Progress, Answers, FailToStart, Skip, Visit, Send, SendCapped, AnotherTurn,
        Failed, Close, Timeout, TimeoutReport, Finish, Kill, vars, Report
  <2> QED
    BY <2>1, <2>3
<1> QED
  BY <1>1, Invariance, PTL DEF Spec, VerdictOfOneRun
=============================================================================
