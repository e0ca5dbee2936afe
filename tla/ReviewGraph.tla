------------------------------ MODULE ReviewGraph ------------------------------
(***************************************************************************)
(* The LangGraph workflow of one review, node by node.  A super-step runs  *)
(* every node in next, the agents in parallel and in any order; what a     *)
(* node returned is kept beside the checkpoint as a pending write, and     *)
(* when all of them are there the writes are applied to the channels       *)
(* together and the edges say what runs next.                              *)
(*                                                                         *)
(* A run is an ainvoke.  Start is the worker's, with the initial state;    *)
(* Resume is the approve request's, with None: it takes up the latest      *)
(* checkpoint and the pending writes that were saved.  One run at a time   *)
(* here; ReviewLifecycle has several runs at once over the thread that     *)
(* ReviewThread describes.  The collector's indexing is that of RagIndex.  *)
(***************************************************************************)
EXTENDS ThreadPhases, RagIndex, FiniteSets

CONSTANTS
    Agents,      \* AGENT_NODES, the specialist agents
    CodeReview,  \* the agent that every review runs
    MaxRuns      \* bound: how many times the workflow is invoked

ASSUME AgentsAssumption == CodeReview \in Agents /\ IsFiniteSet(Agents) /\ MaxRuns \in Nat

Steps == {"context_collector", "repository_analyzer", "orchestrator",
          "consensus", "hitl", "output"}
ASSUME NamesAssumption == Agents \cap Steps = {}

Nodes == Steps \cup Agents

VARIABLES
    ch,      \* the channels of ReviewState as of the latest checkpoint
    next,    \* the nodes of the super-step that follows it
    writes,  \* what the finished nodes of that super-step returned
    run,     \* the ainvoke: "idle", "running", "paused", "stopped" or "ended"
    gate,    \* this run was resumed at the pause: interrupt_before lets it through
    runs,    \* invocations so far
    base,    \* agent_findings as this pass of the workflow found it
    posted   \* the findings in each comment the output node has posted

graphVars == <<ch, next, writes, run, gate, runs, base, posted>>
vars == <<graphVars, ragVars>>

(***************************************************************************)
(* The channels that decide something.  agent_findings counts the batches  *)
(* each agent has appended; consensus_result is the record the agent       *)
(* returns, its findings the severities it reports.                        *)
(***************************************************************************)
Severities == {"severe", "mild"}     \* severe: critical or high
NoBatches  == [a \in Agents |-> 0]
NoResult   == [risk |-> "none", findings |-> {}]

\* create_initial_state, over an agent_findings that only grows.
InitialState(findings) ==
    [pr_metadata |-> FALSE, error |-> FALSE, selected_agents |-> {},
     agent_findings |-> findings, consensus_result |-> NoResult]

Init ==
    /\ ch = InitialState(NoBatches)
    /\ next = {} /\ writes = << >>
    /\ run = "idle" /\ gate = FALSE /\ runs = 0
    /\ base = NoBatches /\ posted = {}
    /\ InitRag

-----------------------------------------------------------------------------
(* Invocations                                                             *)

\* Seeded fault: the pending writes of the abandoned pass stay behind.
Start_KeepsWrites ==
    /\ run # "running" /\ runs < MaxRuns
    /\ run' = "running" /\ runs' = runs + 1 /\ gate' = FALSE
    /\ ch' = InitialState(ch.agent_findings)
    /\ base' = ch.agent_findings
    /\ next' = {"context_collector"}
    /\ job' = NoJob
    /\ UNCHANGED <<writes, posted, rows>>

Start ==
    /\ run # "running" /\ runs < MaxRuns
    /\ run' = "running" /\ runs' = runs + 1 /\ gate' = FALSE
    /\ ch' = InitialState(ch.agent_findings)
    /\ base' = ch.agent_findings
    /\ next' = {"context_collector"} /\ writes' = << >>
    /\ job' = NoJob
    /\ UNCHANGED <<posted, rows>>

Resume ==
    /\ run \in {"paused", "stopped"} /\ next # {} /\ runs < MaxRuns
    /\ run' = "running" /\ runs' = runs + 1
    /\ gate' = (next = {"hitl"})
    /\ UNCHANGED <<ch, next, writes, base, posted, ragVars>>

\* A crash, a kill or the soft time limit: any of the finished writes may be saved.  A
\* collector that is to run again has forgotten how far it was.
Stop ==
    /\ run = "running" /\ next # {}
    /\ run' = "stopped"
    /\ \E saved \in SUBSET DOMAIN writes :
          /\ writes' = [n \in saved |-> writes[n]]
          /\ job' = IF "context_collector" \in next \ saved THEN NoJob ELSE job
    /\ UNCHANGED <<ch, next, gate, runs, base, posted, rows>>

Pause ==
    /\ run = "running" /\ next = {"hitl"} /\ ~gate
    /\ run' = "paused"
    /\ UNCHANGED <<ch, next, writes, gate, runs, base, posted, ragVars>>

Finish ==
    /\ run = "running" /\ next = {}
    /\ run' = "ended"
    /\ UNCHANGED <<ch, next, writes, gate, runs, base, posted, ragVars>>

-----------------------------------------------------------------------------
(* Nodes: each returns a partial update of the channels.                   *)

Ready(n) == run = "running" /\ n \in next \ DOMAIN writes

Return(n, update) ==
    /\ writes' = [m \in DOMAIN writes \cup {n} |-> IF m = n THEN update ELSE writes[m]]
    /\ UNCHANGED <<ch, next, run, gate, runs, base>>

\* An exception out of a node ends the run at the checkpoint before it.
RaiseIn(n) ==
    /\ Ready(n)
    /\ run' = "stopped"
    /\ job' = IF n = "context_collector" THEN NoJob ELSE job
    /\ UNCHANGED <<ch, next, writes, gate, runs, base, posted, rows>>

\* A GitHub failure is returned as an error, not raised.
FetchFails ==
    /\ Ready("context_collector") /\ job.at = "none"
    /\ Return("context_collector", [error |-> TRUE])
    /\ UNCHANGED <<posted, ragVars>>

CollectContext ==
    /\ Ready("context_collector")
    /\ Collect \/ IndexStep
    /\ UNCHANGED graphVars

ContextCollector ==
    /\ Ready("context_collector") /\ job.at \in {"indexed", "skipped"}
    /\ Return("context_collector", [pr_metadata |-> TRUE])
    /\ UNCHANGED <<posted, ragVars>>

\* Only indexing raises: its connection, or an INSERT.
ContextCollectorRaises == job.at = "indexing" /\ RaiseIn("context_collector")

RepositoryAnalyzer ==
    /\ Ready("repository_analyzer")
    /\ IF ch.pr_metadata THEN Return("repository_analyzer", << >>)
                         ELSE Return("repository_analyzer", [error |-> TRUE])
    /\ UNCHANGED <<posted, ragVars>>

\* Seeded fault: the prompt is built inside the try block, whose handler selects all.
PromptRaises_Never == FALSE

\* The prompt is built before the try block, from metadata that may be missing.
PromptRaises == ~ch.pr_metadata

OrchestratorRaises == PromptRaises /\ RaiseIn("orchestrator")

\* Seeded fault: what the LLM selected is taken as it is.
Selections_AsIs == (SUBSET Agents) \ {{}}

\* Whatever the LLM selects, code_review is added to it; if it fails, all agents run.
Selections == {s \in SUBSET Agents : CodeReview \in s}

Orchestrator ==
    /\ Ready("orchestrator") /\ ~PromptRaises
    /\ \E selected \in Selections : Return("orchestrator", [selected_agents |-> selected])
    /\ UNCHANGED <<posted, ragVars>>

\* What an agent's run returns: one batch of findings, the empty one if it fails.  It
\* never raises.
AgentResult == [agent_findings |-> 1]

Agent(a) ==
    /\ Ready(a)
    /\ Return(a, AgentResult)
    /\ UNCHANGED <<posted, ragVars>>

(***************************************************************************)
(* The consensus report: its risk score is the LLM's and says nothing of   *)
(* the severities it reports.  If there is no report the result is risk 0  *)
(* and no findings.                                                        *)
(***************************************************************************)
Reports == [risk : {"low", "high"}, findings : SUBSET Severities]
Fallback == [risk |-> "low", findings |-> {}]

ConsensusNode ==
    /\ Ready("consensus")
    /\ \E result \in Reports \cup {Fallback} :
          Return("consensus", [consensus_result |-> result])
    /\ UNCHANGED <<posted, ragVars>>

HitlNode ==
    /\ Ready("hitl") /\ gate
    /\ Return("hitl", << >>)
    /\ UNCHANGED <<posted, ragVars>>

Get(result, key) == IF key \in DOMAIN result THEN result[key] ELSE {}

\* Posts consensus_result["final_findings"]; the outcome of the call is swallowed.
OutputNode ==
    /\ Ready("output")
    /\ Return("output", << >>)
    /\ posted' = posted \cup {Get(ch.consensus_result, "final_findings")}
    /\ UNCHANGED ragVars

-----------------------------------------------------------------------------
(* The end of a super-step                                                 *)

Written(k) == {n \in DOMAIN writes : k \in DOMAIN writes[n]}

\* Seeded fault: the reducer of agent_findings is left out, the last agent to write wins.
Merged_NoReducer ==
    [k \in DOMAIN ch |->
        IF Written(k) = {} THEN ch[k]
        ELSE LET n == CHOOSE n \in Written(k) : TRUE
             IN  IF k = "agent_findings"
                   THEN [a \in Agents |-> IF a = n THEN ch[k][a] + 1 ELSE base[a]]
                   ELSE writes[n][k]]

\* agent_findings has the reducer add; any other channel takes the one value written.
Merged ==
    [k \in DOMAIN ch |->
        IF k = "agent_findings"
          THEN [a \in Agents |-> ch[k][a] + IF a \in Written(k) THEN 1 ELSE 0]
          ELSE IF Written(k) = {} THEN ch[k]
               ELSE writes[CHOOSE n \in Written(k) : TRUE][k]]

route_agents(state) == IF state.selected_agents = {} THEN Agents ELSE state.selected_agents

route_after_consensus(state) == {AfterConsensus(state.consensus_result.risk)}

\* The edges of create_workflow out of the super-step nodes, given the merged state.
Edges(nodes, state) ==
    CASE nodes = {"context_collector"}   -> {"repository_analyzer"}
      [] nodes = {"repository_analyzer"} -> {"orchestrator"}
      [] nodes = {"orchestrator"}        -> route_agents(state)
      [] nodes \subseteq Agents          -> {"consensus"}
      [] nodes = {"consensus"}           -> route_after_consensus(state)
      [] nodes = {"hitl"}                -> {"output"}
      [] OTHER                           -> {}

\* Seeded fault: the fan-in goes ahead with the first agent that is back.
StepDone_AnyAgent == next \cap DOMAIN writes # {}

\* Seeded fault: the fan-in waits for all the agents, selected or not.
StepDone_AllAgents ==
    IF next \subseteq Agents THEN DOMAIN writes = Agents ELSE DOMAIN writes = next

StepDone == DOMAIN writes = next

Checkpoint ==
    /\ run = "running" /\ next # {} /\ StepDone
    /\ ch' = Merged
    /\ next' = Edges(next, Merged)
    /\ writes' = << >>
    /\ UNCHANGED <<run, gate, runs, base, posted, ragVars>>

-----------------------------------------------------------------------------
RunNode ==
    \/ FetchFails \/ CollectContext \/ ContextCollector \/ RepositoryAnalyzer \/ Orchestrator \/ OrchestratorRaises
    \/ ConsensusNode \/ HitlNode \/ OutputNode
    \/ \E a \in Agents : Agent(a)

Progress == RunNode \/ Checkpoint \/ Pause \/ Finish

Next == Start \/ Resume \/ Stop \/ ContextCollectorRaises \/ Progress

Spec == Init /\ [][Next]_vars

\* The event loop of a run that is not stopped keeps running what is ready.
FairSpec == Spec /\ WF_vars(Progress)

-----------------------------------------------------------------------------
(* Properties                                                              *)

TypeOK ==
    /\ ch \in [pr_metadata : BOOLEAN, error : BOOLEAN, selected_agents : SUBSET Agents,
               agent_findings : [Agents -> 0 .. MaxRuns],
               consensus_result : Reports \cup {NoResult}]
    /\ next \subseteq Nodes
    /\ DOMAIN writes \subseteq next
    /\ run \in {"idle", "running", "paused", "stopped", "ended"}
    /\ gate \in BOOLEAN /\ runs \in 0 .. MaxRuns
    /\ base \in [Agents -> 0 .. MaxRuns]
    /\ posted \subseteq SUBSET Severities
    /\ rows \in [Chunks -> 0 .. MaxRuns]
    /\ job.at \in {"none", "indexing", "indexed", "skipped"}
    /\ job.chunks \in {<< >>, all_chunks(TRUE), all_chunks(FALSE)}
    /\ job.stored <= job.embedded /\ job.embedded <= Len(job.chunks)

\* Once the agents' super-step is over, this pass has added exactly one batch of every
\* selected agent and none of any other, however often it was stopped and resumed with
\* some of the agents' writes saved and the others lost.
AgentsDone == next \in {{"consensus"}, {"hitl"}, {"output"}}
                \/ (next = {} /\ runs > 0)

FanIn ==
    AgentsDone =>
        \A a \in Agents : ch.agent_findings[a] =
                              base[a] + IF a \in ch.selected_agents THEN 1 ELSE 0

\* When the agents run, everything this pass collected can be searched, unless the
\* embedding service failed during the pass: an indexing that broke off in any other way
\* ended the run, and the node is then executed again from the beginning.
Searchable ==
    (next # {} /\ next \subseteq Agents) \/ AgentsDone =>
        \/ job.at = "skipped"
        \/ job.at = "indexed" /\ \A c \in ToSet(job.chunks) : rows[c] > 0

\* The code review is part of every review that reaches consensus.
CodeReviewAlwaysRuns == AgentsDone => CodeReview \in ch.selected_agents

\* A thread that pauses or ends has no error in its state: a GitHub failure always stops
\* the run at the orchestrator, so run_review_task's error branch is never taken and the
\* failure is retried instead.
NoErrorPastOrchestrator == AgentsDone => ~ch.error

\* A run comes back: paused, ended or stopped by an exception.
RunEnds == (run = "running") ~> (run # "running")

(***************************************************************************)
(* The checkpoints of the node-by-node workflow are those of ReviewThread: *)
(* a pass of the agents is one with their findings added at once.          *)
(***************************************************************************)
PhaseOf ==
    IF runs = 0 THEN "none"
    ELSE CASE next = {"consensus"} -> "consensus"
           [] next = {"hitl"}      -> "hitl"
           [] next = {"output"}    -> "output"
           [] next = {}            -> "ended"
           [] OTHER                -> "analyse"

Thread == INSTANCE ReviewThread
            WITH g <- [phase |-> PhaseOf, copies |-> ch.agent_findings[CodeReview],
                       risk |-> ch.consensus_result.risk]

ImplementsThread == Thread!Spec

(***************************************************************************)
(* What the repository says of the program, and the code does not keep.    *)
(***************************************************************************)

\* graph/nodes.py: the output node "Posts the final review findings to the GitHub PR".
PostsFinalFindings ==
    run = "ended" => ch.consensus_result.findings \in posted
=============================================================================
