---------------------------- MODULE SpikeRunner ----------------------------
(***************************************************************************)
(* backend/agent/live_spike.py: a runner of live checks against two providers, *)
(* whose request caps are kept across runs by the report each run prints and   *)
(* the next one resumes.                                                      *)
(*                                                                          *)
(* The operator resumes the last report that was printed whole, as             *)
(* docs/provider-compatibility.md asks, or starts new accounting.  A run may   *)
(* be killed at any point, and its report is lost.                             *)
(***************************************************************************)
EXTENDS Integers

CONSTANTS
    MaxKills    \* runs killed within one accounting; bounds the model only

ASSUME SpikeRunnerAssumption == MaxKills \in Nat

Providers == {"gemini", "tavily"}
\* What BoundedTransport counts, and its caps.
Limit == [generation |-> 6, discovery |-> 2, search |-> 1]
Kinds == {"generation", "discovery", "search"}
Kind(step) ==
    CASE step = "discovery" -> "discovery"
      [] step = "search" -> "search"
      [] OTHER -> "generation"
Checks == {"discovery", "text", "tool", "structured"}

Empty == [status |-> [p \in Providers |-> "none"], checks |-> {},
          counts |-> [k \in Kinds |-> 0]]

VARIABLES
    file,      \* the last report printed
    report,    \* the report of the run
    phase,     \* what the run does: off, next, send, await, closing
    todo,      \* providers asked for and not visited yet
    names,     \* providers asked for
    provider,  \* the provider visited
    step,      \* the check in progress
    turns,     \* requests the agent run of this check has made
    called,    \* the tool has been executed
    exit,      \* the exit code: none, 0, 1 or killed
    fresh,     \* checks that passed in this run
    sent,      \* requests that left the machine in this accounting
    lost,      \* those of killed runs
    kills

config == <<names, todo, provider>>
agent == <<step, turns, called>>
ghosts == <<sent, lost, kills>>
vars == <<file, report, phase, config, agent, exit, fresh, ghosts>>

Zero == [k \in Kinds |-> 0]
Init ==
    /\ file = Empty /\ report = Empty /\ phase = "off"
    /\ names = {} /\ todo = {} /\ provider = "gemini"
    /\ step = "text" /\ turns = 0 /\ called = FALSE
    /\ exit = "none" /\ fresh = {}
    /\ sent = Zero /\ lost = Zero /\ kills = 0

-----------------------------------------------------------------------------
\* main: --resume-report, or new accounting.
Resumed_NoCounts == [file EXCEPT !.counts = Zero]
Resumed == file
Start(wanted) ==
    /\ phase = "off" /\ wanted # {}
    /\ names' = wanted /\ todo' = wanted /\ phase' = "next"
    /\ exit' = "none" /\ fresh' = {}
    /\ \/ report' = Resumed /\ UNCHANGED <<file, ghosts>>
       \/ /\ report' = Empty /\ file' = Empty
          /\ sent' = Zero /\ lost' = Zero /\ kills' = 0
    /\ UNCHANGED <<provider, agent>>
\* The settings or the report cannot be read: a failure is printed, which accounts for
\* nothing and is no report to resume.
FailToStart ==
    /\ phase = "off"
    /\ exit' = "1"
    /\ UNCHANGED <<file, report, phase, config, agent, fresh, ghosts>>

\* run: a provider that passed is not asked again.
IsDone_Never(p) == FALSE
IsDone(p) == report.status[p] = "pass"
Skip(p) ==
    /\ phase = "next" /\ p \in todo /\ IsDone(p)
    /\ todo' = todo \ {p}
    /\ UNCHANGED <<file, report, phase, names, provider, agent, exit, fresh, ghosts>>

\* gemini: only the discovery is taken over from a resumed report.
FirstStep(p) ==
    IF p = "tavily" THEN "search"
    ELSE IF "discovery" \in report.checks THEN "text" ELSE "discovery"
Visit(p) ==
    /\ phase = "next" /\ p \in todo /\ ~IsDone(p)
    /\ report' = [report EXCEPT !.status[p] = "started"]
    /\ phase' = "send" /\ provider' = p
    /\ step' = FirstStep(p) /\ turns' = 0 /\ called' = FALSE
    /\ UNCHANGED <<file, names, todo, exit, fresh, ghosts>>

\* BoundedTransport.handle_async_request, up to its first await.
Capped_OffByOne(k) == report.counts[k] > Limit[k]
Capped(k) == report.counts[k] >= Limit[k]
Send ==
    /\ phase = "send" /\ ~Capped(Kind(step))
    /\ report' = [report EXCEPT !.counts[Kind(step)] = @ + 1]
    /\ sent' = [sent EXCEPT ![Kind(step)] = @ + 1]
    /\ turns' = turns + 1 /\ phase' = "await"
    /\ UNCHANGED <<file, config, step, called, exit, fresh, lost, kills>>
SendCapped ==
    /\ phase = "send" /\ Capped(Kind(step))
    /\ report' = [report EXCEPT !.status[provider] = "failed"]
    /\ phase' = "closing"
    /\ UNCHANGED <<file, config, agent, exit, fresh, ghosts>>

\* An answer that passes the check, and the check that follows it.
After(s) ==
    CASE s = "discovery" -> "text"
      [] s = "text" -> "tool"
      [] s = "tool" -> "structured"
      [] OTHER -> "none"
Passed ==
    /\ phase = "await" /\ (step = "tool" => called)
    /\ IF After(step) = "none"
       THEN /\ report' = [report EXCEPT !.status[provider] = "pass",
                                        !.checks = @ \cup ({step} \cap Checks)]
            /\ phase' = "closing" /\ UNCHANGED agent
       ELSE /\ report' = [report EXCEPT !.checks = @ \cup {step}]
            /\ phase' = "send"
            /\ step' = After(step) /\ turns' = 0 /\ called' = FALSE
    /\ fresh' = fresh \cup {step}
    /\ UNCHANGED <<file, config, exit, ghosts>>
\* The tool agent: request_limit 3, tool_calls_limit 1.  The framework may ask again.
AnotherTurn ==
    /\ phase = "await" /\ step = "tool" /\ turns < 3
    /\ called' \in {called, TRUE}
    /\ phase' = "send"
    /\ UNCHANGED <<file, report, config, step, turns, exit, fresh, ghosts>>
\* An error of the provider, a timeout of the client, an answer the check refuses, or
\* one that asks for more than the limits of the agent run.
Failed ==
    /\ phase = "await"
    /\ report' = [report EXCEPT !.status[provider] = "failed"]
    /\ phase' = "closing"
    /\ UNCHANGED <<file, config, agent, exit, fresh, ghosts>>

\* The client is closed and the provider left.
Close ==
    /\ phase = "closing"
    /\ todo' = todo \ {provider} /\ phase' = "next"
    /\ UNCHANGED <<file, report, names, provider, agent, exit, fresh, ghosts>>
\* The 90 seconds of a provider are over, or its client cannot be closed.
TimeoutReport_Unchanged == report
TimeoutReport == [report EXCEPT !.status[provider] = "failed"]
Timeout_NotInFlight ==
    /\ phase \in {"send", "closing"}
    /\ report' = TimeoutReport
    /\ todo' = todo \ {provider} /\ phase' = "next"
    /\ UNCHANGED <<file, names, provider, agent, exit, fresh, ghosts>>
Timeout ==
    /\ phase \in {"send", "await", "closing"}
    /\ report' = TimeoutReport
    /\ todo' = todo \ {provider} /\ phase' = "next"
    /\ UNCHANGED <<file, names, provider, agent, exit, fresh, ghosts>>

\* main: the report is printed and decides the exit code.
Finish ==
    /\ phase = "next" /\ todo = {}
    /\ file' = report /\ phase' = "off"
    /\ exit' = IF \E p \in Providers : report.status[p] = "failed" THEN "1" ELSE "0"
    /\ UNCHANGED <<report, config, agent, fresh, ghosts>>

Kill ==
    /\ phase # "off" /\ kills < MaxKills
    /\ phase' = "off" /\ exit' = "killed" /\ kills' = kills + 1
    /\ lost' = [k \in Kinds |-> lost[k] + (report.counts[k] - file.counts[k])]
    /\ UNCHANGED <<file, report, config, agent, fresh, sent>>

Progress ==
    \/ \E p \in Providers : Skip(p) \/ Visit(p)
    \/ Send \/ SendCapped \/ Close \/ Finish
Answers == Passed \/ AnotherTurn \/ Failed
Next ==
    \/ \E wanted \in SUBSET Providers : Start(wanted)
    \/ FailToStart \/ Progress \/ Answers \/ Timeout \/ Kill

Spec == Init /\ [][Next]_vars
\* A provider that never answers is left to the timeout: Answers is not fair.
FairSpec == Spec /\ WF_vars(Progress) /\ WF_vars(Timeout)

-----------------------------------------------------------------------------
Report == [status : [Providers -> {"none", "started", "pass", "failed"}],
           checks : SUBSET Checks, counts : [Kinds -> Nat]]
TypeOK ==
    /\ file \in Report /\ report \in Report
    /\ phase \in {"off", "next", "send", "await", "closing"}
    /\ names \in SUBSET Providers /\ todo \in SUBSET names
    /\ provider \in Providers
    /\ step \in Checks \cup {"search"} /\ turns \in Nat /\ called \in BOOLEAN
    /\ exit \in {"none", "0", "1", "killed"}
    /\ fresh \in SUBSET (Checks \cup {"search"})
    /\ sent \in [Kinds -> Nat] /\ lost \in [Kinds -> Nat] /\ kills \in 0 .. MaxKills

\* A request is in the report of the run that made it, or was lost with a killed run;
\* in particular none is lost to a failed check, a timeout or a cancelled await.
Accounted ==
    \A k \in Kinds :
        sent[k] = lost[k] + (IF phase = "off" THEN file.counts[k] ELSE report.counts[k])

Inv == TypeOK /\ Accounted

\* docs/provider-compatibility.md:86: the caps hold for a whole chain of resumed runs,
\* and each killed run costs at most one more cap, whatever fails or times out when.
CapsHold == \A k \in Kinds : sent[k] <= Limit[k] * (1 + kills)

\* docs/provider-compatibility.md:97: a resumed run asks nothing of a provider that
\* passed and does not lose its verdict, unless new accounting is begun.
PassIsKept ==
    [][\A p \in Providers : file.status[p] = "pass" =>
          /\ file' # Empty => file'.status[p] = "pass"
          /\ \A k \in Kinds : (p = "tavily" <=> k = "search") => sent'[k] <= sent[k]]_vars

\* A provider's verdict is one run's: gemini passes only where its text, tool and
\* structured checks have all passed in this run, however many runs came before.
VerdictOfOneRun ==
    [][/\ report.status["gemini"] = "started" /\ report'.status["gemini"] = "pass"
       => {"text", "tool", "structured"} \subseteq fresh' /\ "discovery" \in report'.checks]_vars

\* docs/provider-compatibility.md:94: an exit code of 0 means that every provider asked
\* for has passed, in this run or in the one it resumed, and that nothing in the printed
\* report failed; no check that was cut off looks like one that passed.
ExitIsHonest ==
    (phase = "off" /\ exit = "0") =>
        /\ \A p \in names : file.status[p] = "pass"
        /\ \A p \in Providers : file.status[p] \in {"none", "pass"}

\* A run ends although a provider may never answer.
RunsEnd == phase # "off" ~> phase = "off"
=============================================================================
