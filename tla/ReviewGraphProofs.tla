--------------------------- MODULE ReviewGraphProofs ---------------------------
(***************************************************************************)
(* Proofs about ReviewGraph, for any set of agents, any diff, ticket and   *)
(* document, any batch size and any number of invocations.                 *)
(***************************************************************************)
EXTENDS ReviewGraph, RagIndexProofs

-----------------------------------------------------------------------------
(* The inductive invariant                                                 *)

\* The channels of a checkpoint, for any number of batches.
Channels == [pr_metadata : BOOLEAN, error : BOOLEAN, selected_agents : SUBSET Agents,
             agent_findings : [Agents -> Nat], consensus_result : Reports \cup {NoResult}]

\* Types of everything but the writes and the index.
TypeInv ==
    /\ ch \in Channels /\ base \in [Agents -> Nat]
    /\ run \in {"idle", "running", "paused", "stopped", "ended"} /\ gate \in BOOLEAN
    /\ runs \in 0 .. MaxRuns
    /\ posted \subseteq SUBSET Severities

\* The collector has indexed, or the embedding service has failed it.
JobDone == job.at \in {"indexed", "skipped"}

\* Where the checkpoint is, and what its channels then hold.
NotStarted == runs = 0 /\ next = {} /\ ch = InitialState(NoBatches) /\ base = NoBatches
Collecting == next = {"context_collector"} /\ ch = InitialState(base)
Preparing  == /\ next \in {{"repository_analyzer"}, {"orchestrator"}}
              /\ ch.agent_findings = base
              /\ ch.error = ~ch.pr_metadata /\ (ch.pr_metadata => JobDone)
Selected   == CodeReview \in ch.selected_agents /\ ~ch.error /\ JobDone
Analysing  == next = ch.selected_agents /\ ch.agent_findings = base /\ Selected
Done       == AgentsDone /\ FanIn /\ Selected

\* Every state is at one of these stages, and no agent's batches outrun the invocations.
StageInv ==
    /\ NotStarted \/ (runs > 0 /\ (Collecting \/ Preparing \/ Analysing \/ Done))
    /\ run = "idle" <=> runs = 0
    /\ \A a \in Agents : runs > 0 => base[a] < runs

\* What a node that is done has returned.
Returned(n, update) ==
    \/ n = "context_collector" /\ update = [error |-> TRUE]
    \/ n = "context_collector" /\ update = [pr_metadata |-> TRUE] /\ JobDone
    \/ n = "repository_analyzer" /\ ch.pr_metadata /\ update = << >>
    \/ n = "repository_analyzer" /\ ~ch.pr_metadata /\ update = [error |-> TRUE]
    \/ n = "orchestrator" /\ ch.pr_metadata
         /\ \E s \in Selections : update = [selected_agents |-> s]
    \/ n \in Agents /\ update = AgentResult
    \/ n = "consensus" /\ \E result \in Reports : update = [consensus_result |-> result]
    \/ n \in {"hitl", "output"} /\ update = << >>

\* The pending writes are of nodes that are due, and each is what its node can return.
WritesInv == DOMAIN writes \subseteq next /\ \A n \in DOMAIN writes : Returned(n, writes[n])

\* A chunk has at most one row from each invocation, and the one under way may add one
\* to those it has not stored.
RowsBound == /\ \A c \in Chunks : rows[c] <= runs
             /\ run = "running" => AtMost(runs)

\* The inductive invariant.
IInv == TypeInv /\ StageInv /\ WritesInv /\ RagInv /\ RowsBound

-----------------------------------------------------------------------------
(* The channels when the writes of a super-step are applied                *)

\* The channels without a reducer: the last value written stays.
Overwritten == {"pr_metadata", "error", "selected_agents", "consensus_result"}

\* Channel by channel: agent_findings adds a batch per writer, the others take what was written.
LEMMA MergedChannels ==
    ASSUME ch \in Channels
    PROVE  /\ Merged = [pr_metadata |-> Merged.pr_metadata, error |-> Merged.error,
                        selected_agents |-> Merged.selected_agents,
                        agent_findings |-> Merged.agent_findings,
                        consensus_result |-> Merged.consensus_result]
           /\ Merged.agent_findings =
                [a \in Agents |-> ch.agent_findings[a]
                                    + IF a \in Written("agent_findings") THEN 1 ELSE 0]
           /\ \A k \in Overwritten :
                Merged[k] = IF Written(k) = {} THEN ch[k]
                            ELSE writes[CHOOSE n \in Written(k) : TRUE][k]
  <1>1. DOMAIN ch = {"pr_metadata", "error", "selected_agents", "agent_findings",
                     "consensus_result"}
    BY DEF Channels
  <1>2. /\ DOMAIN Merged = DOMAIN ch
        /\ \A k \in Overwritten :
                Merged[k] = IF Written(k) = {} THEN ch[k]
                            ELSE writes[CHOOSE n \in Written(k) : TRUE][k]
    BY <1>1 DEF Merged, Overwritten
  <1>3. Merged.agent_findings =
                [a \in Agents |-> ch.agent_findings[a]
                                    + IF a \in Written("agent_findings") THEN 1 ELSE 0]
    BY <1>1 DEF Merged
  <1>4. Merged = [pr_metadata |-> Merged.pr_metadata, error |-> Merged.error,
                  selected_agents |-> Merged.selected_agents,
                  agent_findings |-> Merged.agent_findings,
                  consensus_result |-> Merged.consensus_result]
    BY <1>1, <1>2 DEF Merged
  <1> QED
    BY <1>2, <1>3, <1>4

\* When a single node was to run, the channels it wrote have its values and the others
\* are as they were.
LEMMA MergedOfOne ==
    ASSUME ch \in Channels, NEW n, n \notin Agents, DOMAIN writes = {n}
    PROVE  /\ Merged.agent_findings = ch.agent_findings
           /\ \A k \in Overwritten :
                Merged[k] = IF k \in DOMAIN writes[n] THEN writes[n][k] ELSE ch[k]
  <1>1. Written("agent_findings") \cap Agents = {}
    BY DEF Written
  <1>2. ch.agent_findings \in [Agents -> Nat]
    BY DEF Channels
  <1>3. Merged.agent_findings = [a \in Agents |-> ch.agent_findings[a]]
    BY <1>1, <1>2, MergedChannels
  <1>4. ASSUME NEW k \in Overwritten
        PROVE  Merged[k] = IF k \in DOMAIN writes[n] THEN writes[n][k] ELSE ch[k]
    <2>1. CASE k \in DOMAIN writes[n]
      <3>1. Written(k) = {n}
        BY <2>1 DEF Written
      <3>2. (CHOOSE m \in Written(k) : TRUE) = n
        BY <3>1
      <3> QED
        BY <2>1, <3>1, <3>2, MergedChannels
    <2>2. CASE k \notin DOMAIN writes[n]
      <3>1. Written(k) = {}
        BY <2>2 DEF Written
      <3> QED
        BY <2>2, <3>1, MergedChannels
    <2> QED
      BY <2>1, <2>2
  <1> QED
    BY <1>2, <1>3, <1>4

\* When the agents were to run, each of them has added its findings and nothing else.
LEMMA MergedOfAgents ==
    ASSUME ch \in Channels, \A n \in DOMAIN writes : writes[n] = AgentResult
    PROVE  /\ Merged.agent_findings =
                [a \in Agents |-> ch.agent_findings[a] + IF a \in DOMAIN writes THEN 1 ELSE 0]
           /\ \A k \in Overwritten : Merged[k] = ch[k]
  <1>1. Written("agent_findings") = DOMAIN writes
    BY DEF Written, AgentResult
  <1>2. ASSUME NEW k \in Overwritten PROVE Written(k) = {}
    BY <1>2 DEF Written, AgentResult, Overwritten
  <1> QED
    BY <1>1, <1>2, MergedChannels

-----------------------------------------------------------------------------
(* The end of a super-step                                                 *)

\* The nodes are different from one another and from the agents.
LEMMA StepsAreNotAgents == \A n \in Steps : n \notin Agents
  BY NamesAssumption

\* The edges of the workflow, one by one: since no step has an agent's name, no two cases of
\* Edges apply at once.
LEMMA EdgesAre ==
    ASSUME NEW state
    PROVE  /\ Edges({"context_collector"}, state) = {"repository_analyzer"}
           /\ Edges({"repository_analyzer"}, state) = {"orchestrator"}
           /\ Edges({"orchestrator"}, state) = route_agents(state)
           /\ \A nodes \in SUBSET Agents : nodes # {} => Edges(nodes, state) = {"consensus"}
           /\ Edges({"consensus"}, state) = route_after_consensus(state)
           /\ Edges({"hitl"}, state) = {"output"}
           /\ Edges({"output"}, state) = {}
  <1>1. \A n \in Steps : ~({n} \subseteq Agents)
    BY StepsAreNotAgents
  <1>2. \A nodes \in SUBSET Agents, n \in Steps : nodes # {n}
    BY StepsAreNotAgents
  <1>3. \A nodes \in SUBSET Agents : nodes # {} => Edges(nodes, state) = {"consensus"}
    BY <1>2 DEF Edges, Steps
  <1>4. \A n \in Steps : ~({n} \subseteq Agents) /\ \A m \in Steps : {m} = {n} => m = n
    BY <1>1
  <1>5. Edges({"context_collector"}, state) = {"repository_analyzer"}
    BY <1>4 DEF Edges, Steps
  <1>6. Edges({"repository_analyzer"}, state) = {"orchestrator"}
    BY <1>4 DEF Edges, Steps
  <1>7. Edges({"orchestrator"}, state) = route_agents(state)
    BY <1>4 DEF Edges, Steps
  <1>8. Edges({"consensus"}, state) = route_after_consensus(state)
    BY <1>4 DEF Edges, Steps
  <1>9. Edges({"hitl"}, state) = {"output"}
    BY <1>4 DEF Edges, Steps
  <1>10. Edges({"output"}, state) = {}
    BY <1>4 DEF Edges, Steps
  <1> QED
    BY <1>3, <1>5, <1>6, <1>7, <1>8, <1>9, <1>10

\* After the collector: what it fetched, or its error.
LEMMA CollectorMerged ==
    ASSUME IInv, Checkpoint, Collecting
    PROVE  /\ Preparing' /\ TypeInv'
           /\ ch'.agent_findings = ch.agent_findings
           /\ ch'.consensus_result = ch.consensus_result
  <1>1. DOMAIN writes = {"context_collector"} /\ ch' = Merged
    BY DEF Checkpoint, StepDone, Collecting
  <1>2. "context_collector" \notin Agents
    BY StepsAreNotAgents DEF Steps
  <1>3. next' = {"repository_analyzer"}
    BY EdgesAre DEF Checkpoint, Collecting
  <1>4. Returned("context_collector", writes["context_collector"])
    BY <1>1 DEF IInv, WritesInv
  <1>5. \/ writes["context_collector"] = [error |-> TRUE]
        \/ writes["context_collector"] = [pr_metadata |-> TRUE] /\ JobDone
    BY <1>2, <1>4 DEF Returned
  <1>6. ch = InitialState(base) /\ ch \in Channels /\ job' = job
    BY DEF Collecting, IInv, TypeInv, Checkpoint, ragVars
  <1>7. \/ /\ Merged.error = TRUE /\ Merged.pr_metadata = FALSE
        \/ /\ Merged.error = FALSE /\ Merged.pr_metadata = TRUE /\ JobDone
    <2>1. /\ \A k \in Overwritten : Merged[k] =
                 IF k \in DOMAIN writes["context_collector"]
                   THEN writes["context_collector"][k] ELSE ch[k]
          /\ "error" \in Overwritten /\ "pr_metadata" \in Overwritten
      BY <1>1, <1>2, <1>6, MergedOfOne DEF Overwritten
    <2>2. ch["error"] = FALSE /\ ch["pr_metadata"] = FALSE
      BY <1>6 DEF InitialState
    <2>3. CASE writes["context_collector"] = [error |-> TRUE]
      <3>1. /\ DOMAIN writes["context_collector"] = {"error"}
            /\ writes["context_collector"]["error"] = TRUE
        BY <2>3
      <3> QED
        BY <3>1, <2>1, <2>2
    <2>4. CASE writes["context_collector"] = [pr_metadata |-> TRUE] /\ JobDone
      <3>1. /\ DOMAIN writes["context_collector"] = {"pr_metadata"}
            /\ writes["context_collector"]["pr_metadata"] = TRUE
        BY <2>4
      <3> QED
        BY <3>1, <2>1, <2>2, <2>4
    <2> QED
      BY <1>5, <2>3, <2>4
  <1>8. /\ Merged.agent_findings = base /\ Merged.selected_agents = {}
        /\ Merged.consensus_result = NoResult
    BY <1>1, <1>2, <1>5, <1>6, MergedOfOne DEF Overwritten, InitialState
  <1>9. ch' \in Channels
    BY <1>1, <1>6, <1>7, <1>8, MergedChannels DEF Channels, IInv, TypeInv
  <1> QED
    BY <1>1, <1>3, <1>6, <1>7, <1>8, <1>9
    DEF Preparing, JobDone, IInv, TypeInv, Checkpoint, InitialState

\* After the analyser: an error stays one, and nothing else is new.
LEMMA AnalyzerMerged ==
    ASSUME IInv, Checkpoint, Preparing, next = {"repository_analyzer"}
    PROVE  /\ Preparing' /\ TypeInv'
           /\ ch'.agent_findings = ch.agent_findings
           /\ ch'.consensus_result = ch.consensus_result
  <1>1. DOMAIN writes = {"repository_analyzer"} /\ ch' = Merged
    BY DEF Checkpoint, StepDone
  <1>2. "repository_analyzer" \notin Agents
    BY StepsAreNotAgents DEF Steps
  <1>3. next' = {"orchestrator"}
    BY EdgesAre DEF Checkpoint
  <1>4. Returned("repository_analyzer", writes["repository_analyzer"])
    BY <1>1 DEF IInv, WritesInv
  <1>5. \/ writes["repository_analyzer"] = [error |-> TRUE] /\ ~ch.pr_metadata
        \/ writes["repository_analyzer"] = << >> /\ ch.pr_metadata
    BY <1>2, <1>4 DEF Returned
  <1>6. ch \in Channels /\ job' = job
    BY DEF IInv, TypeInv, Checkpoint, ragVars
  <1>7. /\ Merged.pr_metadata = ch.pr_metadata /\ Merged.error = ch.error
        /\ Merged.agent_findings = base /\ Merged.selected_agents = ch.selected_agents
        /\ Merged.consensus_result = ch.consensus_result
    <2>1. /\ \A k \in Overwritten : Merged[k] =
                 IF k \in DOMAIN writes["repository_analyzer"]
                   THEN writes["repository_analyzer"][k] ELSE ch[k]
          /\ Merged.agent_findings = base
      BY <1>1, <1>2, <1>6, MergedOfOne DEF Preparing
    <2>2. ch["error"] = ~ch["pr_metadata"] /\ ch["error"] \in BOOLEAN
      BY <1>6 DEF Preparing, Channels
    <2>3. CASE writes["repository_analyzer"] = [error |-> TRUE] /\ ~ch.pr_metadata
      <3>1. /\ DOMAIN writes["repository_analyzer"] = {"error"}
            /\ writes["repository_analyzer"]["error"] = TRUE
        BY <2>3
      <3>2. ch["error"] = TRUE
        BY <2>2, <2>3
      <3> QED
        BY <3>1, <3>2, <2>1 DEF Overwritten
    <2>4. CASE writes["repository_analyzer"] = << >>
      <3>1. DOMAIN writes["repository_analyzer"] = {}
        BY <2>4
      <3> QED
        BY <3>1, <2>1 DEF Overwritten
    <2> QED
      BY <1>5, <2>3, <2>4
  <1>8. Merged = [ch EXCEPT !.agent_findings = base]
    BY <1>6, <1>7, MergedChannels DEF Channels
  <1>9. ch' = ch
    BY <1>1, <1>6, <1>8 DEF Preparing, Channels
  <1> QED
    BY <1>3, <1>6, <1>9 DEF Preparing, JobDone, IInv, TypeInv, Checkpoint

\* After the orchestrator: the agents it selected run, the code review among them.
LEMMA OrchestratorMerged ==
    ASSUME IInv, Checkpoint, Preparing, next = {"orchestrator"}
    PROVE  /\ Analysing' /\ TypeInv'
           /\ ch'.agent_findings = ch.agent_findings
           /\ ch'.consensus_result = ch.consensus_result
  <1>1. DOMAIN writes = {"orchestrator"} /\ ch' = Merged
    BY DEF Checkpoint, StepDone
  <1>2. "orchestrator" \notin Agents
    BY StepsAreNotAgents DEF Steps
  <1>3. Returned("orchestrator", writes["orchestrator"])
    BY <1>1 DEF IInv, WritesInv
  <1>4. ch.pr_metadata /\ \E s \in Selections : writes["orchestrator"] = [selected_agents |-> s]
    BY <1>2, <1>3 DEF Returned
  <1>5. PICK s \in Selections : writes["orchestrator"] = [selected_agents |-> s]
    BY <1>4
  <1>6. ch \in Channels /\ job' = job /\ base' = base
    BY DEF IInv, TypeInv, Checkpoint, ragVars
  <1>7. /\ Merged.pr_metadata = ch.pr_metadata /\ Merged.error = ch.error
        /\ Merged.agent_findings = base /\ Merged.selected_agents = s
        /\ Merged.consensus_result = ch.consensus_result
    BY <1>1, <1>2, <1>5, <1>6, MergedOfOne DEF Overwritten, Preparing
  <1>8. s \in SUBSET Agents /\ CodeReview \in s
    BY DEF Selections
  <1>9. ch' \in Channels
    BY <1>1, <1>6, <1>7, <1>8, MergedChannels DEF Channels, IInv, TypeInv
  <1>10. next' = s
    BY <1>7, <1>8, EdgesAre DEF Checkpoint, route_agents
  <1>11. ~Merged.error /\ JobDone
    BY <1>4, <1>7 DEF Preparing
  <1> QED
    BY <1>1, <1>6, <1>7, <1>8, <1>9, <1>10, <1>11
    DEF Analysing, Selected, JobDone, IInv, TypeInv, Checkpoint, Preparing

\* After the agents: one batch of findings more from each of them.
LEMMA AgentsMerged ==
    ASSUME IInv, Checkpoint, Analysing
    PROVE  /\ Done' /\ TypeInv' /\ next' = {"consensus"}
           /\ \A a \in ch.selected_agents :
                ch'.agent_findings[a] = ch.agent_findings[a] + 1
           /\ ch'.consensus_result = ch.consensus_result
  <1>1. DOMAIN writes = next /\ ch' = Merged /\ next \subseteq Agents /\ next # {}
    BY DEF Checkpoint, StepDone, Analysing, Selected, IInv, TypeInv, Channels
  <1>2. next' = {"consensus"}
    BY <1>1, EdgesAre DEF Checkpoint
  <1>3. \A n \in DOMAIN writes : writes[n] = AgentResult
    BY <1>1, StepsAreNotAgents DEF IInv, WritesInv, Returned, Steps
  <1>4. ch \in Channels /\ job' = job /\ base' = base
    BY DEF IInv, TypeInv, Checkpoint, ragVars
  <1>5. /\ Merged.pr_metadata = ch.pr_metadata /\ Merged.error = ch.error
        /\ Merged.selected_agents = ch.selected_agents
        /\ Merged.consensus_result = ch.consensus_result
        /\ Merged.agent_findings =
             [a \in Agents |-> base[a] + IF a \in ch.selected_agents THEN 1 ELSE 0]
    BY <1>1, <1>3, <1>4, MergedOfAgents DEF Overwritten, Analysing
  <1>6. Merged.agent_findings \in [Agents -> Nat]
    BY <1>5 DEF IInv, TypeInv
  <1>7. ch' \in Channels
    BY <1>1, <1>4, <1>5, <1>6, MergedChannels DEF Channels
  <1>8. FanIn'
    BY <1>1, <1>4, <1>5 DEF FanIn
  <1>9. Selected'
    BY <1>1, <1>4, <1>5 DEF Selected, Analysing, JobDone
  <1>10. \A a \in ch.selected_agents : ch'.agent_findings[a] = ch.agent_findings[a] + 1
    BY <1>1, <1>5 DEF Analysing
  <1> QED
    BY <1>1, <1>2, <1>4, <1>5, <1>7, <1>8, <1>9, <1>10
    DEF Done, AgentsDone, IInv, TypeInv, Checkpoint

\* After consensus, the human node and the output: the routes of the workflow.
LEMMA DoneMerged ==
    ASSUME IInv, Checkpoint, Done
    PROVE  /\ Done' /\ TypeInv'
           /\ ch'.agent_findings = ch.agent_findings
           /\ \/ /\ next = {"consensus"}
                 /\ ch'.consensus_result.risk \in {"low", "high"}
                 /\ next' = {AfterConsensus(ch'.consensus_result.risk)}
              \/ next = {"hitl"} /\ next' = {"output"} /\ ch' = ch
              \/ next = {"output"} /\ next' = {} /\ ch' = ch
  <1>1. PICK n \in {"consensus", "hitl", "output"} : next = {n}
    BY DEF Done, AgentsDone, Checkpoint
  <1>2. DOMAIN writes = {n} /\ ch' = Merged /\ n \notin Agents
    BY <1>1, StepsAreNotAgents DEF Checkpoint, StepDone, Steps
  <1>3. Returned(n, writes[n])
    BY <1>2 DEF IInv, WritesInv
  <1>4. ch \in Channels /\ job' = job /\ base' = base
    BY DEF IInv, TypeInv, Checkpoint, ragVars
  <1>5. ch.agent_findings \in [Agents -> Nat] /\ next' = Edges(next, Merged)
    BY <1>4 DEF Channels, Checkpoint
  <1>6. CASE n = "consensus"
    <2>1. PICK result \in Reports : writes[n] = [consensus_result |-> result]
      BY <1>2, <1>3, <1>6 DEF Returned
    <2>2. /\ Merged.pr_metadata = ch.pr_metadata /\ Merged.error = ch.error
          /\ Merged.agent_findings = ch.agent_findings
          /\ Merged.selected_agents = ch.selected_agents
          /\ Merged.consensus_result = result
      BY <1>2, <1>4, <2>1, MergedOfOne DEF Overwritten
    <2>3. ch' \in Channels
      BY <1>2, <1>4, <2>2, MergedChannels DEF Channels
    <2>4. result.risk \in {"low", "high"}
      BY DEF Reports
    <2>5. next' = {AfterConsensus(result.risk)}
      BY <1>1, <1>5, <1>6, <2>2, EdgesAre DEF route_after_consensus
    <2>6. AgentsDone'
      BY <2>4, <2>5 DEF AgentsDone, AfterConsensus
    <2>7. FanIn' /\ Selected'
      BY <1>2, <1>4, <2>2 DEF FanIn, Done, Selected, JobDone
    <2> QED
      BY <1>1, <1>2, <1>4, <1>6, <2>2, <2>3, <2>4, <2>5, <2>6, <2>7 DEF Done, IInv, TypeInv, Checkpoint
  <1>7. CASE n \in {"hitl", "output"}
    <2>1. writes[n] = << >>
      BY <1>2, <1>3, <1>7 DEF Returned
    <2>2. /\ Merged.pr_metadata = ch.pr_metadata /\ Merged.error = ch.error
          /\ Merged.agent_findings = ch.agent_findings
          /\ Merged.selected_agents = ch.selected_agents
          /\ Merged.consensus_result = ch.consensus_result
      BY <1>2, <1>4, <2>1, MergedOfOne DEF Overwritten
    <2>3. ch' = ch
      BY <1>2, <1>4, <2>2, MergedChannels DEF Channels
    <2>4. \/ n = "hitl" /\ next' = {"output"}
          \/ n = "output" /\ next' = {}
      BY <1>1, <1>5, <1>7, EdgesAre
    <2>5. AgentsDone'
      BY <2>4 DEF AgentsDone, IInv, StageInv, Done, Checkpoint, Collecting, NotStarted, Preparing, Analysing
    <2>6. FanIn' /\ Selected'
      BY <1>4, <2>3 DEF FanIn, Done, Selected, JobDone
    <2> QED
      BY <1>1, <1>4, <2>3, <2>4, <2>5, <2>6 DEF Done, IInv, TypeInv, Checkpoint
  <1> QED
    BY <1>6, <1>7

-----------------------------------------------------------------------------
(* The steps of the workflow keep the invariant                            *)

\* No invocation yet.
LEMMA InitIInv == Init => IInv
  <1> SUFFICES ASSUME Init PROVE IInv
    OBVIOUS
  <1>1. InitialState(NoBatches) \in Channels /\ NoBatches \in [Agents -> Nat]
    BY DEF InitialState, NoBatches, Channels, NoResult
  <1>2. MaxRuns \in Nat
    BY AgentsAssumption
  <1>3. TypeInv
    <2>1. ch \in Channels /\ base \in [Agents -> Nat]
      BY <1>1 DEF Init
    <2>2. runs \in 0 .. MaxRuns /\ posted \subseteq SUBSET Severities
      BY <1>2 DEF Init
    <2> QED
      BY <2>1, <2>2 DEF Init, TypeInv
  <1>4. StageInv
    BY DEF Init, StageInv, NotStarted
  <1>5. WritesInv
    BY DEF Init, WritesInv
  <1>6. RagInv
    BY InitRagInv DEF Init
  <1>7. RowsBound
    BY DEF Init, InitRag, RowsBound
  <1> QED
    BY <1>3, <1>4, <1>5, <1>6, <1>7 DEF IInv

\* The collector is due only at the beginning of a pass.
LEMMA CollectorFirst ==
    TypeInv /\ StageInv /\ "context_collector" \in next => Collecting /\ runs > 0
  <1>1. "context_collector" \notin Agents
    BY StepsAreNotAgents DEF Steps
  <1> QED
    BY <1>1 DEF StageInv, NotStarted, Preparing, Analysing, Done, AgentsDone, Selected,
                TypeInv, Channels

\* What the stages speak of is left alone, but for the job while the collector is due.
LEMMA StageKept ==
    ASSUME TypeInv, StageInv, UNCHANGED <<ch, next, runs, base>>, run' # "idle", run # "idle",
           job' = job \/ "context_collector" \in next
    PROVE  StageInv'
  <1>1. CASE "context_collector" \in next
    BY <1>1, CollectorFirst DEF StageInv, Collecting, InitialState
  <1>2. CASE job' = job
    <2>1. NotStarted' = NotStarted /\ Collecting' = Collecting /\ Preparing' = Preparing
          /\ Analysing' = Analysing /\ Done' = Done
      BY <1>2 DEF NotStarted, Collecting, Preparing, Analysing, Done, Selected, JobDone,
                  AgentsDone, FanIn, InitialState
    <2> QED
      BY <2>1 DEF StageInv
  <1> QED
    BY <1>1, <1>2

\* A new invocation starts over, from what the agents found before: their batches become
\* the base, and no more than there were invocations.
LEMMA StartIInv == IInv /\ Start => IInv'
  <1> SUFFICES ASSUME IInv, Start PROVE IInv'
    OBVIOUS
  <1>1. runs \in Nat /\ MaxRuns \in Nat /\ runs' = runs + 1 /\ runs' \in 0 .. MaxRuns
    BY AgentsAssumption DEF IInv, TypeInv, Start
  <1>2. ch.agent_findings \in [Agents -> Nat] /\ base \in [Agents -> Nat]
    BY DEF IInv, TypeInv, Channels
  <1>3. ch' \in Channels /\ base' = ch.agent_findings
    BY <1>2 DEF Start, Channels, InitialState, NoResult
  <1>4. TypeInv'
    BY <1>1, <1>2, <1>3 DEF Start, IInv, TypeInv
  <1>5. Collecting'
    BY DEF Start, Collecting, InitialState
  <1>6. \A a \in Agents : ch.agent_findings[a] <= runs
    <2> SUFFICES ASSUME NEW a \in Agents PROVE ch.agent_findings[a] <= runs
      OBVIOUS
    <2>1. CASE NotStarted
      BY <2>1, <1>1 DEF NotStarted, InitialState, NoBatches
    <2>2. CASE runs > 0 /\ ch.agent_findings = base
      BY <2>2, <1>1, <1>2 DEF IInv, StageInv
    <2>3. CASE runs > 0 /\ Done
      <3>1. ch.agent_findings[a] = base[a] + IF a \in ch.selected_agents THEN 1 ELSE 0
        BY <2>3 DEF Done, FanIn
      <3>2. base[a] < runs /\ base[a] \in Nat
        BY <2>3, <1>2 DEF IInv, StageInv
      <3> QED
        BY <1>1, <3>1, <3>2
    <2> QED
      BY <2>1, <2>2, <2>3 DEF IInv, StageInv, Collecting, Preparing, Analysing, InitialState
  <1>7. StageInv'
    BY <1>1, <1>2, <1>3, <1>5, <1>6 DEF Start, StageInv
  <1>8. WritesInv'
    BY DEF Start, WritesInv
  <1>9. job' = NoJob /\ UNCHANGED rows /\ RagInv
    BY DEF Start, IInv
  <1>10. \A c \in Chunks : rows[c] < runs'
    BY <1>1, <1>9 DEF IInv, RowsBound, RagInv, RagType
  <1>11. RowsBound'
    BY <1>1, <1>9, <1>10 DEF RowsBound, RagInv, RagType, AtMost
  <1> QED
    BY <1>4, <1>7, <1>8, <1>9, <1>11, ResetRagInv DEF IInv

\* A resumption goes on from the checkpoint as it is.
LEMMA ResumeIInv == IInv /\ Resume => IInv'
  <1> SUFFICES ASSUME IInv, Resume PROVE IInv'
    OBVIOUS
  <1>1. runs \in Nat /\ MaxRuns \in Nat /\ runs' = runs + 1 /\ runs' \in 0 .. MaxRuns
    BY AgentsAssumption DEF IInv, TypeInv, Resume
  <1>2. TypeInv'
    BY <1>1 DEF IInv, TypeInv, Resume
  <1>3. base \in [Agents -> Nat] /\ runs > 0
    BY <1>1 DEF IInv, TypeInv, StageInv, Resume
  <1>4. /\ UNCHANGED <<ch, next, base, job, rows, writes>> /\ next # {} /\ run' = "running"
    BY DEF Resume, ragVars
  <1>5. StageInv'
    <2>1. Collecting' = Collecting /\ Preparing' = Preparing /\ Analysing' = Analysing
      BY <1>4 DEF Collecting, Preparing, Analysing, Selected, JobDone, InitialState
    <2>2. Done => Done'
      BY <1>4 DEF Done, Selected, JobDone, AgentsDone, FanIn
    <2>3. Collecting \/ Preparing \/ Analysing \/ Done
      BY <1>3 DEF IInv, StageInv, NotStarted
    <2>4. \A a \in Agents : base'[a] < runs'
      BY <1>1, <1>3, <1>4 DEF IInv, StageInv
    <2> QED
      BY <1>1, <1>4, <2>1, <2>2, <2>3, <2>4 DEF StageInv
  <1>6. WritesInv'
    BY <1>4 DEF IInv, WritesInv, Returned, JobDone
  <1>7. RagInv' /\ Stored' = Stored
    BY <1>4 DEF IInv, RagInv, RagType, RowsInv, Stored
  <1>8. RowsBound'
    BY <1>1, <1>4, <1>7 DEF IInv, RagInv, RagType, RowsBound, AtMost
  <1> QED
    BY <1>2, <1>5, <1>6, <1>7, <1>8 DEF IInv

\* A run that ends early: whatever was saved of its writes, and whatever the collector had
\* got to if it has to begin again.
LEMMA BreakOffIInv ==
    ASSUME IInv, run = "running", run' = "stopped",
           UNCHANGED <<ch, next, gate, runs, base, posted, rows>>,
           NEW saved \in SUBSET DOMAIN writes, writes' = [n \in saved |-> writes[n]],
           job' = IF "context_collector" \in next \ saved THEN NoJob ELSE job
    PROVE  IInv'
  <1>1. TypeInv'
    BY DEF IInv, TypeInv
  <1>2. StageInv'
    BY StageKept DEF IInv
  <1>3. WritesInv'
    <2> SUFFICES ASSUME NEW n \in saved PROVE Returned(n, writes[n])'
      BY DEF IInv, WritesInv
    <2>1. Returned(n, writes[n])
      BY DEF IInv, WritesInv
    <2>2. n = "context_collector" => job' = job
      <3>1. CASE n # "context_collector"
        BY <3>1
      <3>2. CASE n = "context_collector"
        BY <3>2
      <3> QED
        BY <3>1, <3>2
    <2> QED
      BY <2>1, <2>2 DEF Returned, JobDone
  <1>4. RagInv'
    <2>1. CASE job' = NoJob
      BY <2>1, ResetRagInv DEF IInv
    <2>2. CASE job' = job
      BY <2>2 DEF IInv, RagInv, RagType, RowsInv, Stored
    <2> QED
      BY <2>1, <2>2
  <1>5. RowsBound'
    BY DEF IInv, RowsBound
  <1> QED
    BY <1>1, <1>2, <1>3, <1>4, <1>5 DEF IInv

\* A crash or a kill keeps the invariant, whatever part of the writes was saved.
LEMMA StopIInv == IInv /\ Stop => IInv'
  BY BreakOffIInv DEF Stop

\* So does a node that raises.
LEMMA RaiseInIInv ==
    ASSUME IInv, NEW n \in {"context_collector", "orchestrator"}, RaiseIn(n)
    PROVE  IInv'
  <1>1. run = "running" /\ n \in next /\ n \notin DOMAIN writes
    BY DEF RaiseIn, Ready
  <1>2. run' = "stopped" /\ UNCHANGED <<ch, next, writes, gate, runs, base, posted, rows>>
    BY DEF RaiseIn
  <1>3. TypeInv'
    BY <1>2 DEF IInv, TypeInv
  <1>4. job' = IF n = "context_collector" THEN NoJob ELSE job
    BY DEF RaiseIn
  <1>5. StageInv'
    BY <1>1, <1>2, <1>4, StageKept DEF IInv
  <1>6. WritesInv'
    <2>1. CASE n = "context_collector"
      <3>1. next = {"context_collector"}
        BY <2>1, <1>1, CollectorFirst DEF IInv, Collecting
      <3>2. DOMAIN writes = {}
        BY <1>1, <2>1, <3>1 DEF IInv, WritesInv
      <3> QED
        BY <3>2, <1>2 DEF IInv, WritesInv
    <2>2. CASE n = "orchestrator"
      BY <1>2, <1>4, <2>2 DEF IInv, WritesInv, Returned, JobDone
    <2> QED
      BY <2>1, <2>2
  <1>7. RagInv'
    <2>1. CASE job' = NoJob
      BY <2>1, <1>2, ResetRagInv DEF IInv
    <2>2. CASE job' = job
      BY <2>2, <1>2 DEF IInv, RagInv, RagType, RowsInv, Stored
    <2> QED
      BY <1>4, <2>1, <2>2
  <1>8. RowsBound'
    BY <1>2 DEF IInv, RowsBound
  <1> QED
    BY <1>3, <1>5, <1>6, <1>7, <1>8 DEF IInv

\* A run that pauses before the human node, or is at its end, changes no checkpoint.
LEMMA EndOfRunIInv == IInv /\ (Pause \/ Finish) => IInv'
  <1> SUFFICES ASSUME IInv, Pause \/ Finish PROVE IInv'
    OBVIOUS
  <1>1. /\ UNCHANGED <<ch, next, writes, gate, runs, base, posted, job, rows>>
        /\ run = "running" /\ run' \in {"paused", "ended"}
    BY DEF Pause, Finish, ragVars
  <1>2. TypeInv'
    BY <1>1 DEF IInv, TypeInv
  <1>3. StageInv'
    BY <1>1, StageKept DEF IInv
  <1>4. WritesInv'
    BY <1>1 DEF IInv, WritesInv, Returned, JobDone
  <1>5. RagInv'
    BY <1>1 DEF IInv, RagInv, RagType, RowsInv, Stored
  <1>6. RowsBound'
    BY <1>1 DEF IInv, RowsBound
  <1> QED
    BY <1>2, <1>3, <1>4, <1>5, <1>6 DEF IInv

\* A node returns something it can return.
LEMMA ReturnIInv ==
    ASSUME IInv, NEW n, NEW update, Ready(n), Return(n, update), Returned(n, update),
           UNCHANGED ragVars, posted' \subseteq SUBSET Severities
    PROVE  IInv'
  <1>1. /\ UNCHANGED <<ch, next, run, gate, runs, base, job, rows>>
        /\ run = "running" /\ n \in next /\ n \notin DOMAIN writes
    BY DEF Return, Ready, ragVars
  <1>2. TypeInv'
    BY <1>1 DEF IInv, TypeInv
  <1>3. StageInv'
    BY <1>1, StageKept DEF IInv
  <1>4. /\ DOMAIN writes' = DOMAIN writes \cup {n} /\ writes'[n] = update
        /\ \A m \in DOMAIN writes : writes'[m] = writes[m]
    BY <1>1 DEF Return
  <1>5. WritesInv'
    <2> SUFFICES ASSUME NEW m \in DOMAIN writes' PROVE Returned(m, writes[m])'
      BY <1>1, <1>4 DEF IInv, WritesInv
    <2>1. Returned(m, writes'[m])
      BY <1>4 DEF IInv, WritesInv
    <2> QED
      BY <1>1, <2>1 DEF Returned, JobDone
  <1>6. RagInv'
    BY <1>1 DEF IInv, RagInv, RagType, RowsInv, Stored
  <1>7. RowsBound'
    BY <1>1 DEF IInv, RowsBound, AtMost, Stored
  <1> QED
    BY <1>2, <1>3, <1>5, <1>6, <1>7 DEF IInv

\* A node that returns adds what it can return to the writes.
LEMMA NodeIInv ==
    ASSUME IInv,
           \/ FetchFails \/ ContextCollector \/ RepositoryAnalyzer \/ Orchestrator
           \/ ConsensusNode \/ HitlNode \/ OutputNode \/ \E a \in Agents : Agent(a)
    PROVE  IInv'
  <1>0. posted \subseteq SUBSET Severities
    BY DEF IInv, TypeInv
  <1>1. CASE FetchFails
    BY <1>0, <1>1, ReturnIInv DEF FetchFails, Returned
  <1>2. CASE ContextCollector
    BY <1>0, <1>2, ReturnIInv DEF ContextCollector, Returned, JobDone
  <1>3. CASE RepositoryAnalyzer
    BY <1>0, <1>3, ReturnIInv DEF RepositoryAnalyzer, Returned
  <1>4. CASE Orchestrator
    <2>1. PICK selected \in Selections : Return("orchestrator", [selected_agents |-> selected])
      BY <1>4 DEF Orchestrator
    <2>2. Ready("orchestrator") /\ ch.pr_metadata /\ posted' = posted /\ UNCHANGED ragVars
      BY <1>4 DEF Orchestrator, PromptRaises
    <2>3. Returned("orchestrator", [selected_agents |-> selected])
      BY <2>2 DEF Returned
    <2> QED
      BY <1>0, <2>1, <2>2, <2>3, ReturnIInv
  <1>5. CASE ConsensusNode
    <2>1. Fallback \in Reports
      BY DEF Fallback, Reports
    <2>2. PICK result \in Reports : Return("consensus", [consensus_result |-> result])
      BY <1>5, <2>1 DEF ConsensusNode
    <2>3. Ready("consensus") /\ posted' = posted /\ UNCHANGED ragVars
      BY <1>5 DEF ConsensusNode
    <2>4. Returned("consensus", [consensus_result |-> result])
      BY DEF Returned
    <2> QED
      BY <1>0, <2>2, <2>3, <2>4, ReturnIInv
  <1>6. CASE HitlNode
    BY <1>0, <1>6, ReturnIInv DEF HitlNode, Returned
  <1>7. CASE OutputNode
    <2>1. DOMAIN ch.consensus_result = {"risk", "findings"}
      BY DEF IInv, TypeInv, Channels, Reports, NoResult
    <2>2. Get(ch.consensus_result, "final_findings") = {}
      BY <2>1 DEF Get
    <2>3. posted' \subseteq SUBSET Severities
      BY <1>0, <1>7, <2>2 DEF OutputNode
    <2> QED
      BY <1>7, <2>3, ReturnIInv DEF OutputNode, Returned
  <1>8. ASSUME NEW a \in Agents, Agent(a) PROVE IInv'
    BY <1>0, <1>8, ReturnIInv DEF Agent, Returned
  <1> QED
    BY <1>1, <1>2, <1>3, <1>4, <1>5, <1>6, <1>7, <1>8

\* The collector's indexing keeps it, as the index's own steps keep theirs.
LEMMA CollectContextIInv == IInv /\ CollectContext => IInv'
  <1> SUFFICES ASSUME IInv, CollectContext PROVE IInv'
    OBVIOUS
  <1>1. /\ UNCHANGED <<ch, next, writes, run, gate, runs, base, posted>>
        /\ run = "running" /\ "context_collector" \in next
        /\ "context_collector" \notin DOMAIN writes
    BY DEF CollectContext, Ready, graphVars
  <1>2. Collect \/ IndexStep
    BY DEF CollectContext
  <1>3. TypeInv'
    BY <1>1 DEF IInv, TypeInv
  <1>4. StageInv'
    BY <1>1, StageKept DEF IInv
  <1>5. WritesInv'
    <2>1. next = {"context_collector"}
      BY <1>1, CollectorFirst DEF IInv, Collecting
    <2>2. DOMAIN writes = {}
      BY <1>1, <2>1 DEF IInv, WritesInv
    <2> QED
      BY <1>1, <2>2 DEF WritesInv
  <1>6. runs \in Nat /\ AtMost(runs)
    BY <1>1, AgentsAssumption DEF IInv, TypeInv, RowsBound
  <1>7. \A c \in Chunks : rows'[c] <= runs /\ (c \notin Stored' => rows'[c] < runs)
    BY <1>2, <1>6, StepRagInv DEF IInv
  <1>8. RowsBound'
    BY <1>1, <1>7 DEF RowsBound, AtMost
  <1>9. RagInv'
    BY <1>2, StepRagInv DEF IInv
  <1> QED
    BY <1>3, <1>4, <1>5, <1>8, <1>9 DEF IInv

\* The end of a super-step leads from each stage to the next.
LEMMA CheckpointIInv == IInv /\ Checkpoint => IInv'
  <1> SUFFICES ASSUME IInv, Checkpoint PROVE IInv'
    OBVIOUS
  <1>1. /\ UNCHANGED <<run, gate, runs, base, posted, job, rows>> /\ writes' = << >>
        /\ run = "running" /\ next # {}
    BY DEF Checkpoint, ragVars
  <1>2. TypeInv' /\ (Preparing' \/ Analysing' \/ Done')
    <2>1. CASE Collecting
      BY <2>1, CollectorMerged
    <2>2. CASE Preparing
      BY <2>2, AnalyzerMerged, OrchestratorMerged DEF Preparing
    <2>3. CASE Analysing
      BY <2>3, AgentsMerged
    <2>4. CASE Done
      BY <2>4, DoneMerged
    <2> QED
      BY <1>1, <2>1, <2>2, <2>3, <2>4 DEF IInv, StageInv, NotStarted
  <1>3. StageInv'
    BY <1>1, <1>2 DEF IInv, StageInv, NotStarted
  <1>4. WritesInv'
    BY <1>1 DEF WritesInv
  <1>5. RagInv'
    BY <1>1 DEF IInv, RagInv, RagType, RowsInv, Stored
  <1>6. RowsBound'
    BY <1>1 DEF IInv, RowsBound, AtMost, Stored
  <1> QED
    BY <1>2, <1>3, <1>4, <1>5, <1>6 DEF IInv

\* Every step keeps the invariant.
LEMMA NextIInv == IInv /\ [Next]_vars => IInv'
  <1> SUFFICES ASSUME IInv, [Next]_vars PROVE IInv'
    OBVIOUS
  <1>1. CASE Start
    BY <1>1, StartIInv
  <1>2. CASE Resume
    BY <1>2, ResumeIInv
  <1>3. CASE Stop
    BY <1>3, StopIInv
  <1>4. CASE ContextCollectorRaises \/ OrchestratorRaises
    BY <1>4, RaiseInIInv DEF ContextCollectorRaises, OrchestratorRaises
  <1>5. CASE Pause \/ Finish
    BY <1>5, EndOfRunIInv
  <1>6. CASE Checkpoint
    BY <1>6, CheckpointIInv
  <1>7. CASE CollectContext
    BY <1>7, CollectContextIInv
  <1>8. CASE \/ FetchFails \/ ContextCollector \/ RepositoryAnalyzer \/ Orchestrator
             \/ ConsensusNode \/ HitlNode \/ OutputNode \/ \E a \in Agents : Agent(a)
    BY <1>8, NodeIInv
  <1>9. CASE UNCHANGED vars
    <2>1. UNCHANGED <<ch, next, writes, run, gate, runs, base, posted, job, rows>>
      BY <1>9 DEF vars, graphVars, ragVars
    <2>2. TypeInv' /\ StageInv'
      BY <2>1 DEF IInv, TypeInv, StageInv, NotStarted, Collecting, Preparing, Analysing, Done,
                  Selected, JobDone, AgentsDone, FanIn, InitialState
    <2>3. WritesInv'
      BY <2>1 DEF IInv, WritesInv, Returned, JobDone
    <2>4. RagInv' /\ RowsBound'
      BY <2>1 DEF IInv, RagInv, RagType, RowsInv, Stored, RowsBound, AtMost
    <2> QED
      BY <2>2, <2>3, <2>4 DEF IInv
  <1> QED
    BY <1>1, <1>2, <1>3, <1>4, <1>5, <1>6, <1>7, <1>8, <1>9 DEF Next, Progress, RunNode

\* The invariant holds throughout.
LEMMA Invariance == Spec => []IInv
  BY InitIInv, NextIInv, PTL DEF Spec

-----------------------------------------------------------------------------
(* What follows from it                                                    *)

\* The channels, the writes, the run and the index have their types.
THEOREM WorkflowTypes == Spec => []TypeOK
  <1>1. IInv => TypeOK
    <2> SUFFICES ASSUME IInv PROVE TypeOK
      OBVIOUS
    <2>1. runs \in Nat /\ MaxRuns \in Nat /\ runs <= MaxRuns
      BY AgentsAssumption DEF IInv, TypeInv
    <2>2. ch \in Channels /\ base \in [Agents -> Nat] /\ ch.agent_findings \in [Agents -> Nat]
      BY DEF IInv, TypeInv, Channels
    <2>3. ASSUME NEW a \in Agents
          PROVE  ch.agent_findings[a] <= runs /\ base[a] <= runs
      <3>1. CASE NotStarted
        BY <3>1, <2>1 DEF NotStarted, InitialState, NoBatches
      <3>2. CASE runs > 0 /\ ch.agent_findings = base
        BY <3>2, <2>1, <2>2 DEF IInv, StageInv
      <3>3. CASE runs > 0 /\ Done
        <4>1. ch.agent_findings[a] = base[a] + IF a \in ch.selected_agents THEN 1 ELSE 0
          BY <3>3 DEF Done, FanIn
        <4>2. base[a] < runs /\ base[a] \in Nat
          BY <3>3, <2>2 DEF IInv, StageInv
        <4> QED
          BY <2>1, <4>1, <4>2
      <3> QED
        BY <3>1, <3>2, <3>3 DEF IInv, StageInv, Collecting, Preparing, Analysing, InitialState
    <2>4. /\ ch.agent_findings \in [Agents -> 0 .. MaxRuns] /\ base \in [Agents -> 0 .. MaxRuns]
      BY <2>1, <2>2, <2>3
    <2>5. ch \in [pr_metadata : BOOLEAN, error : BOOLEAN, selected_agents : SUBSET Agents,
                  agent_findings : [Agents -> 0 .. MaxRuns],
                  consensus_result : Reports \cup {NoResult}]
      BY <2>2, <2>4 DEF Channels
    <2>6. next \subseteq Nodes
      BY DEF IInv, StageInv, NotStarted, Collecting, Preparing, Analysing, Done, AgentsDone,
             TypeInv, Channels, Nodes, Steps
    <2>7. rows \in [Chunks -> 0 .. MaxRuns]
      BY <2>1 DEF IInv, RagInv, RagType, RowsBound
    <2>8. /\ job.at \in {"none", "indexing", "indexed", "skipped"}
          /\ job.chunks \in {<< >>, all_chunks(TRUE), all_chunks(FALSE)}
          /\ job.stored <= job.embedded /\ job.embedded <= Len(job.chunks)
      <3>1. job \in Jobs
        BY DEF IInv, RagInv, RagType
      <3>2. job.chunks \in {<< >>} \cup Plans /\ job.at \in {"none", "indexing", "indexed", "skipped"}
        BY <3>1 DEF Jobs
      <3> QED
        BY <3>2 DEF IInv, RagInv, RagType, Plans
    <2> QED
      BY <2>1, <2>4, <2>5, <2>6, <2>7, <2>8 DEF TypeOK, IInv, TypeInv, WritesInv
  <1> QED
    BY <1>1, Invariance, PTL

\* However often the agents' super-step is stopped and resumed, with whatever part of their
\* writes saved, each selected agent has added one batch when it is over.
THEOREM FanInIsExact == Spec => []FanIn
  <1>1. IInv => FanIn
    <2> SUFFICES ASSUME IInv, AgentsDone PROVE FanIn
      BY DEF FanIn
    <2>1. Done
      BY StepsAreNotAgents
      DEF IInv, StageInv, NotStarted, Collecting, Preparing, Analysing, Selected, AgentsDone,
          TypeInv, Channels, Steps
    <2> QED
      BY <2>1 DEF Done
  <1> QED
    BY <1>1, Invariance, PTL

\* No pass gets past the agents without the code review.
THEOREM CodeReviewIsIn == Spec => []CodeReviewAlwaysRuns
  <1>1. IInv => CodeReviewAlwaysRuns
    BY StepsAreNotAgents
    DEF IInv, StageInv, NotStarted, Collecting, Preparing, Analysing, Done, Selected, AgentsDone,
        TypeInv, Channels, Steps, CodeReviewAlwaysRuns
  <1> QED
    BY <1>1, Invariance, PTL

\* A failure to fetch the pull request never gets past the orchestrator.
THEOREM ErrorsStop == Spec => []NoErrorPastOrchestrator
  <1>1. IInv => NoErrorPastOrchestrator
    BY StepsAreNotAgents
    DEF IInv, StageInv, NotStarted, Collecting, Preparing, Analysing, Done, Selected, AgentsDone,
        TypeInv, Channels, Steps, NoErrorPastOrchestrator
  <1> QED
    BY <1>1, Invariance, PTL

\* When the agents run, what this pass collected is there to be searched, unless the
\* embedding service failed in it.
THEOREM CollectedIsSearchable == Spec => []Searchable
  <1>1. IInv => Searchable
    <2> SUFFICES ASSUME IInv, (next # {} /\ next \subseteq Agents) \/ AgentsDone
                 PROVE  \/ job.at = "skipped"
                        \/ job.at = "indexed" /\ \A c \in ToSet(job.chunks) : rows[c] > 0
      BY DEF Searchable
    <2>1. Selected
      BY StepsAreNotAgents
      DEF IInv, StageInv, NotStarted, Collecting, Preparing, Analysing, Done, AgentsDone, Steps
    <2>2. CASE job.at = "indexed"
      <3>1. RagType /\ job.stored = Len(job.chunks)
        BY <2>2 DEF IInv, RagInv, RagType
      <3>2. ToSet(job.chunks) = Stored
        BY <3>1, ChunksInSeq DEF ToSet, Stored
      <3> QED
        BY <2>2, <3>2 DEF IInv, RagInv
    <2> QED
      BY <2>1, <2>2 DEF Selected, JobDone
  <1> QED
    BY <1>1, Invariance, PTL

\* Whatever becomes of the attempts, a review is stored from the front.
THEOREM IndexedFromTheFront == Spec => []IndexInOrder
  <1>1. IInv => IndexInOrder
    BY RagInOrder DEF IInv
  <1> QED
    BY <1>1, Invariance, PTL

-----------------------------------------------------------------------------
(* The workflow implements the thread                                      *)

\* The thread that the workflow's checkpoints make up.
ThreadOf == [phase |-> PhaseOf, copies |-> ch.agent_findings[CodeReview],
             risk |-> ch.consensus_result.risk]

\* A review without an invocation is a thread that has not begun.
LEMMA InitIsThread == Init => Thread!Init
  <1> SUFFICES ASSUME Init PROVE ThreadOf = Thread!NoGraph
    BY DEF Thread!Init, ThreadOf
  <1>1. PhaseOf = "none"
    BY DEF Init, PhaseOf
  <1>2. ch.agent_findings[CodeReview] = 0 /\ ch.consensus_result.risk = "none"
    BY AgentsAssumption DEF Init, InitialState, NoBatches, NoResult
  <1> QED
    BY <1>1, <1>2 DEF ThreadOf, Thread!NoGraph

\* Where the checkpoint is, as a phase.
PhaseTells ==
    /\ runs > 0 /\ (Collecting \/ Preparing \/ Analysing) => PhaseOf = "analyse"
    /\ runs > 0 /\ next = {"consensus"} => PhaseOf = "consensus"
    /\ runs > 0 /\ next = {"hitl"} => PhaseOf = "hitl"
    /\ runs > 0 /\ next = {"output"} => PhaseOf = "output"
    /\ runs > 0 /\ next = {} => PhaseOf = "ended"

\* The stage of a checkpoint tells its phase, ...
LEMMA PhaseIs == IInv => PhaseTells
  <1> SUFFICES ASSUME IInv PROVE PhaseTells
    OBVIOUS
  <1>1. runs > 0 => runs # 0
    BY DEF IInv, TypeInv
  <1>2. ASSUME runs > 0, Collecting \/ Preparing \/ Analysing PROVE PhaseOf = "analyse"
    <2>1. next # {} /\ next \notin {{"consensus"}, {"hitl"}, {"output"}}
      BY <1>2, StepsAreNotAgents
      DEF Collecting, Preparing, Analysing, Selected, IInv, TypeInv, Channels, Steps
    <2> QED
      BY <1>1, <1>2, <2>1 DEF PhaseOf
  <1> QED
    BY <1>1, <1>2 DEF PhaseOf, PhaseTells

\* ... also after a step.
LEMMA PhaseIsNext == IInv' => PhaseTells'
  BY PhaseIs, PTL

\* What the abstract machine's moves make of a thread, field by field.
LEMMA ThreadMoves ==
    ASSUME NEW p, NEW c, NEW r, NEW g, g = [phase |-> p, copies |-> c, risk |-> r]
    PROVE  /\ Thread!Analysed(g) = [phase |-> "consensus", copies |-> c + 1, risk |-> r]
           /\ \A risk \in Risks :
                Thread!Decided(g, risk) =
                    [phase |-> AfterConsensus(risk), copies |-> c, risk |-> risk]
  <1>1. [g EXCEPT !.phase = "consensus"] = [phase |-> "consensus", copies |-> c, risk |-> r]
    OBVIOUS
  <1>2. Thread!Analysed(g) = [[g EXCEPT !.phase = "consensus"] EXCEPT !.copies = c + 1]
    BY DEF Thread!Analysed
  <1>3. Thread!Analysed(g) = [phase |-> "consensus", copies |-> c + 1, risk |-> r]
    BY <1>1, <1>2
  <1>4. ASSUME NEW risk \in Risks
        PROVE  Thread!Decided(g, risk) =
                    [phase |-> AfterConsensus(risk), copies |-> c, risk |-> risk]
    <2>1. [g EXCEPT !.risk = risk] = [phase |-> p, copies |-> c, risk |-> risk]
      OBVIOUS
    <2>2. Thread!Decided(g, risk) = [[g EXCEPT !.risk = risk] EXCEPT !.phase = AfterConsensus(risk)]
      BY DEF Thread!Decided, Thread!AfterConsensus, AfterConsensus
    <2> QED
      BY <2>1, <2>2
  <1> QED
    BY <1>3, <1>4

\* A Start is a restart of the thread, a Checkpoint is one of its moves or, before the agents
\* have finished, none; everything else leaves it alone.
LEMMA NextIsThread ==
    ASSUME IInv, IInv', [Next]_vars
    PROVE  Thread!Next \/ ThreadOf' = ThreadOf
  <1>0. runs \in Nat /\ ch \in Channels /\ ch' \in Channels /\ CodeReview \in Agents
    BY AgentsAssumption DEF IInv, TypeInv
  <1>1. CASE Start
    <2>1. PhaseOf' = "analyse"
      <3>1. /\ runs' # 0 /\ next' # {}
            /\ \A n \in {"consensus", "hitl", "output"} : next' # {n}
        <4>1. runs' = runs + 1 /\ next' = {"context_collector"}
          BY <1>1 DEF Start
        <4> QED
          BY <4>1, <1>0
      <3> QED
        BY <3>1 DEF PhaseOf
    <2>2. /\ ch'.agent_findings[CodeReview] = ch.agent_findings[CodeReview]
          /\ ch'.consensus_result.risk = "none"
      BY <1>1 DEF Start, InitialState, NoResult
    <2>3. ThreadOf' = Thread!Restarted(ThreadOf)
      BY <2>1, <2>2 DEF ThreadOf, Thread!Restarted
    <2> QED
      BY <2>3 DEF Thread!Next, Thread!Restart, ThreadOf
  <1>2. CASE Checkpoint
    <2>1. runs > 0 /\ runs' = runs /\ next # {}
      BY <1>2, <1>0 DEF Checkpoint, IInv, StageInv, NotStarted
    <2>2. PhaseTells /\ PhaseTells'
      BY PhaseIs, PhaseIsNext
    <2>3. CASE Collecting \/ Preparing
      <3>1. /\ Preparing' \/ Analysing'
            /\ ch'.agent_findings = ch.agent_findings
            /\ ch'.consensus_result = ch.consensus_result
        BY <2>3, <1>2, CollectorMerged, AnalyzerMerged, OrchestratorMerged DEF Preparing
      <3>2. PhaseOf = "analyse" /\ PhaseOf' = "analyse"
        BY <2>1, <2>2, <2>3, <3>1 DEF PhaseTells
      <3> QED
        BY <3>1, <3>2 DEF ThreadOf
    <2>4. CASE Analysing
      <3>1. /\ next' = {"consensus"} /\ CodeReview \in ch.selected_agents
            /\ \A a \in ch.selected_agents :
                 ch'.agent_findings[a] = ch.agent_findings[a] + 1
            /\ ch'.consensus_result = ch.consensus_result
        BY <2>4, <1>2, AgentsMerged DEF Analysing, Selected
      <3>2. PhaseOf = "analyse" /\ PhaseOf' = "consensus"
        BY <2>1, <2>2, <2>4, <3>1 DEF PhaseTells
      <3>3. ThreadOf' = Thread!Analysed(ThreadOf)
        <4>1. ThreadOf' = [phase |-> "consensus", copies |-> ch.agent_findings[CodeReview] + 1,
                           risk |-> ch.consensus_result.risk]
          BY <3>1, <3>2 DEF ThreadOf
        <4> QED
          BY <4>1, ThreadMoves DEF ThreadOf
      <3> QED
        BY <3>2, <3>3 DEF Thread!Next, Thread!Analyse, ThreadOf
    <2>5. CASE Done
      <3>1. /\ ch'.agent_findings = ch.agent_findings
            /\ \/ /\ next = {"consensus"}
                  /\ ch'.consensus_result.risk \in {"low", "high"}
                  /\ next' = {AfterConsensus(ch'.consensus_result.risk)}
               \/ next = {"hitl"} /\ next' = {"output"} /\ ch' = ch
               \/ next = {"output"} /\ next' = {} /\ ch' = ch
        BY <2>5, <1>2, DoneMerged
      <3>2. CASE next = {"consensus"}
        <4> DEFINE risk == ch'.consensus_result.risk
        <4>1. /\ risk \in {"low", "high"} /\ next' = {AfterConsensus(risk)}
          BY <3>1, <3>2
        <4>2. PhaseOf = "consensus" /\ PhaseOf' = AfterConsensus(risk)
          BY <4>1, <2>1, <2>2, <3>2 DEF PhaseTells, AfterConsensus
        <4>3. ThreadOf' = Thread!Decided(ThreadOf, risk)
          <5>1. ThreadOf' = [phase |-> AfterConsensus(risk),
                             copies |-> ch.agent_findings[CodeReview], risk |-> risk]
            BY <3>1, <4>2 DEF ThreadOf
          <5> HIDE DEF risk
          <5> QED
            <6>1. risk \in Risks
              BY <4>1 DEF Risks
            <6> QED
              BY <6>1, <5>1, ThreadMoves DEF ThreadOf
        <4> QED
          BY <4>1, <4>2, <4>3 DEF Thread!Next, Thread!Decide, ThreadOf
      <3>3. CASE next = {"hitl"} /\ next' = {"output"}
        <4>1. PhaseOf = "hitl" /\ PhaseOf' = "output"
          BY <2>1, <2>2, <3>3 DEF PhaseTells
        <4>2. ch' = ch
          BY <3>1, <3>3
        <4>3. ThreadOf' = Thread!Released(ThreadOf)
          BY <4>1, <4>2 DEF ThreadOf, Thread!Released
        <4> QED
          BY <4>1, <4>3 DEF Thread!Next, Thread!Release, ThreadOf
      <3>4. CASE next = {"output"} /\ next' = {}
        <4>1. PhaseOf = "output" /\ PhaseOf' = "ended"
          BY <2>1, <2>2, <3>4 DEF PhaseTells
        <4>2. ch' = ch
          BY <3>1, <3>4
        <4>3. ThreadOf' = Thread!Ended(ThreadOf)
          BY <4>1, <4>2 DEF ThreadOf, Thread!Ended
        <4> QED
          BY <4>1, <4>3 DEF Thread!Next, Thread!End, ThreadOf
      <3> QED
        BY <3>1, <3>2, <3>3, <3>4
    <2> QED
      BY <2>1, <2>3, <2>4, <2>5 DEF IInv, StageInv, NotStarted
  <1>3. CASE UNCHANGED <<ch, next>> /\ (runs' = runs \/ Resume)
    <2>1. (runs = 0) = (runs' = 0)
      BY <1>3, <1>0 DEF Resume, IInv, StageInv
    <2> QED
      BY <1>3, <2>1 DEF ThreadOf, PhaseOf
  <1>4. [Next]_vars => Start \/ Checkpoint \/ (UNCHANGED <<ch, next>> /\ (runs' = runs \/ Resume))
    BY DEF Next, Progress, RunNode, Resume, Stop, ContextCollectorRaises, OrchestratorRaises,
           RaiseIn, Pause, Finish, Return, FetchFails, CollectContext, ContextCollector,
           RepositoryAnalyzer, Orchestrator, Agent, ConsensusNode, HitlNode, OutputNode,
           vars, graphVars
  <1> QED
    BY <1>1, <1>2, <1>3, <1>4

\* Node by node, with its crashes and resumptions, the workflow is the thread that its
\* callers see: its checkpoints move as ReviewThread's do.
THEOREM WorkflowIsThread == Spec => ImplementsThread
  <1>1. IInv /\ IInv' /\ [Next]_vars => [Thread!Next]_ThreadOf
    BY NextIsThread
  <1> QED
    BY <1>1, InitIsThread, Invariance, PTL DEF Spec, ImplementsThread, Thread!Spec, ThreadOf
=============================================================================
