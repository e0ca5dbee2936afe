------------------------ MODULE ReviewLifecycleProofs ------------------------
(***************************************************************************)
(* Proofs about ReviewLifecycle, for any number of cancel and approve      *)
(* requests, retries and faults.                                           *)
(***************************************************************************)
EXTENDS ReviewLifecycle, TLAPS

-----------------------------------------------------------------------------
(* Graph states                                                            *)

\* What the nodes of the graph do to a graph state yields a graph state.
LEMMA GraphStatesClosed ==
    ASSUME NEW g \in GraphStates
    PROVE  /\ NoGraph \in GraphStates
           /\ Restarted(g) \in GraphStates
           /\ Analysed(g) \in GraphStates
           /\ \A risk \in {"low", "high"} : Decided(g, risk) \in GraphStates
           /\ Released(g) \in GraphStates
           /\ Ended(g) \in GraphStates
  <1> USE DEF GraphStates, Phases, Risks
  <1>1. NoGraph \in GraphStates
    BY DEF NoGraph
  <1>2. Restarted(g) \in GraphStates
    BY DEF Restarted
  <1>3. Analysed(g) \in GraphStates
    <2>1. g.copies + 1 \in Nat
      OBVIOUS
    <2> QED
      BY <2>1 DEF Analysed
  <1>4. ASSUME NEW risk \in {"low", "high"} PROVE Decided(g, risk) \in GraphStates
    BY DEF Decided, AfterConsensus
  <1>5. Released(g) \in GraphStates
    BY DEF Released
  <1>6. Ended(g) \in GraphStates
    BY DEF Ended
  <1> QED
    BY <1>1, <1>2, <1>3, <1>4, <1>5, <1>6

\* None of them, as a checkpoint, is inside the output node.
LEMMA NeverPosted ==
    ASSUME NEW g \in GraphStates
    PROVE  /\ NoGraph.phase # "posted"
           /\ Restarted(g).phase # "posted"
           /\ Analysed(g).phase # "posted"
           /\ \A risk \in {"low", "high"} : Decided(g, risk).phase # "posted"
           /\ Released(g).phase # "posted"
           /\ Ended(g).phase # "posted"
  BY DEF GraphStates, NoGraph, Restarted, Analysed, Decided, AfterConsensus, Released, Ended

-----------------------------------------------------------------------------
(* Type correctness                                                        *)

\* The types hold initially.
LEMMA InitTypeOK == Init => TypeOK
  BY BoundsAssumption
  DEF Init, TypeOK, BoundsAssumption, PCs, Rows, NoRow, Statuses, Risks, NoGraph,
      GraphStates, Phases

\* The start request keeps the types.
LEMMA StartTypeOK == TypeOK /\ Start => TypeOK'
  <1> SUFFICES ASSUME TypeOK, Start PROVE TypeOK'
    OBVIOUS
  <1> USE DEF TypeOK, Goto, store, broker, graph
  <1>1. CASE StartInsert
    BY <1>1 DEF StartInsert, PCs, Rows, Statuses, Processes, Requests
  <1>2. CASE StartSend
    BY <1>2 DEF StartSend, PCs
  <1>3. CASE StartCommit
    BY <1>3 DEF StartCommit, PCs, Rows
  <1> QED
    BY <1>1, <1>2, <1>3 DEF Start

\* A cancel request keeps the types.
LEMMA CancelTypeOK ==
    ASSUME NEW c \in Cancellers, TypeOK, Cancel(c)
    PROVE  TypeOK'
  <1> USE DEF TypeOK, Goto, store, broker, graph
  <1>1. CASE CancelLoad(c)
    BY <1>1 DEF CancelLoad, PCs, Rows, Requests
  <1>2. CASE CancelRevoke(c)
    BY <1>2 DEF CancelRevoke, PCs, Rows, NoRow, Statuses, Risks
  <1>3. CASE CancelCommit(c)
    BY <1>3 DEF CancelCommit, PCs, Rows, Statuses
  <1> QED
    BY <1>1, <1>2, <1>3 DEF Cancel

\* Whoever runs the graph keeps the types.
LEMMA RunGraphTypeOK ==
    ASSUME NEW e \in Executors, TypeOK, RunGraph(e)
    PROVE  TypeOK'
  <1> USE DEF TypeOK, Checkpoint, store, broker, graph
  <1>0. mem[e] \in GraphStates
    OBVIOUS
  <1>1. CASE Analyse(e)
    BY <1>0, <1>1, GraphStatesClosed, NeverPosted DEF Analyse
  <1>2. CASE Consensus(e)
    BY <1>0, <1>2, GraphStatesClosed, NeverPosted DEF Consensus
  <1>3. CASE Hitl(e)
    BY <1>0, <1>3, GraphStatesClosed, NeverPosted DEF Hitl
  <1>4. CASE Publish(e)
    BY <1>0, <1>4 DEF Publish, GraphStates, Phases
  <1>5. CASE EndGraph(e)
    BY <1>0, <1>5, GraphStatesClosed, NeverPosted DEF EndGraph
  <1> QED
    BY <1>1, <1>2, <1>3, <1>4, <1>5 DEF RunGraph

\* An attempt of the task keeps the types.
LEMMA AttemptTypeOK == TypeOK /\ Attempt => TypeOK'
  <1> SUFFICES ASSUME TypeOK, Attempt PROVE TypeOK'
    OBVIOUS
  <1>0. Worker \in Executors /\ Worker \in Processes
    BY DEF Executors, Processes
  <1>a. mem[Worker] \in GraphStates /\ NoGraph \in GraphStates
    BY <1>0, GraphStatesClosed DEF TypeOK
  <1>1. CASE RunGraph(Worker)
    BY <1>0, <1>1, RunGraphTypeOK
  <1> USE DEF TypeOK, Goto, store, broker, graph
  <1>2. CASE Receive
    BY <1>2 DEF Receive, PCs
  <1>3. CASE Discard
    BY <1>3 DEF Discard
  <1>4. CASE TokenFound
    BY <1>4 DEF TokenFound, PCs
  <1>5. CASE TokenMissing
    BY <1>5 DEF TokenMissing, PCs, Rows, Statuses
  <1>6. CASE MarkCollecting
    BY <1>6 DEF MarkCollecting, PCs, Rows, Statuses
  <1>7. CASE Invoke
    BY <1>0, <1>7, GraphStatesClosed, NeverPosted DEF Invoke, Checkpoint, PCs
  <1>8. CASE InvokeReturns
    BY <1>8 DEF InvokeReturns, PCs
  <1>9. CASE Inspect
    BY <1>0, <1>9 DEF Inspect, PCs
  <1>10. CASE PersistFindings
    <2>1. comments + mem[Worker].copies \in Nat
      BY <1>a DEF GraphStates
    <2> QED
      BY <1>10, <2>1 DEF PersistFindings, PCs
  <1>11. CASE Finish
    <2>1. RiskOf(mem[Worker]) \subseteq Risks
      BY <1>a DEF RiskOf, GraphStates, Risks
    <2> QED
      BY <1>0, <1>a, <1>11, <2>1 DEF Finish, Forget, PCs, Rows, Statuses
  <1>12. CASE Notify \/ Ack
    BY <1>12 DEF Notify, Ack, PCs
  <1>13. CASE MarkFailed
    BY <1>13 DEF MarkFailed, PCs, Rows, Statuses
  <1>14. CASE Retry
    <2>1. task' \in [state : {"unsent", "queued", "running", "done"}, retries : 0 .. MaxRetries]
      <3>1. task.retries < MaxRetries => task.retries + 1 \in 0 .. MaxRetries
        BY BoundsAssumption DEF BoundsAssumption
      <3> QED
        BY <1>14, <3>1 DEF Retry
    <2> QED
      BY <1>14, <2>1 DEF Retry, PCs
  <1> QED
    BY <1>1, <1>2, <1>3, <1>4, <1>5, <1>6, <1>7, <1>8, <1>9, <1>10, <1>11, <1>12,
       <1>13, <1>14 DEF Attempt

\* An exception in the try block and the arrival of a revocation keep the types.
LEMMA InterruptionTypeOK == TypeOK /\ (Raise \/ RevokeArrives) => TypeOK'
  <1> SUFFICES ASSUME TypeOK, Raise \/ RevokeArrives PROVE TypeOK'
    OBVIOUS
  <1>0. Worker \in Executors /\ NoGraph \in GraphStates
    BY GraphStatesClosed DEF Executors, TypeOK
  <1> USE DEF TypeOK, Forget, store, broker, graph
  <1>1. CASE Raise
    BY <1>0, <1>1 DEF Raise, PCs
  <1>2. CASE RevokeArrives
    BY <1>0, <1>2 DEF RevokeArrives, PCs
  <1> QED
    BY <1>1, <1>2

\* An approve request keeps the types.
LEMMA ApproveTypeOK ==
    ASSUME NEW a \in Approvers, TypeOK, Approve(a)
    PROVE  TypeOK'
  <1>0. a \in Executors /\ a \in Requests
    BY DEF Executors, Requests
  <1>a. mem[a] \in GraphStates /\ NoGraph \in GraphStates /\ NoRow \in Rows
    BY <1>0, GraphStatesClosed DEF TypeOK, Rows, NoRow, Statuses, Risks
  <1>1. CASE RunGraph(a)
    BY <1>0, <1>1, RunGraphTypeOK
  <1> USE DEF TypeOK, Goto, store, broker, graph
  <1>2. CASE ApproveLoad(a)
    BY <1>0, <1>2 DEF ApproveLoad, PCs, Rows
  <1>3. CASE ApproveMark(a)
    BY <1>0, <1>3 DEF ApproveMark, Flush, PCs, Rows, Statuses
  <1>4. CASE ApproveCheck(a)
    BY <1>4 DEF ApproveCheck, PCs
  <1>5. CASE ApproveResume(a)
    BY <1>0, <1>5 DEF ApproveResume, PCs, GraphStates
  <1>6. CASE ApproveReturns(a)
    BY <1>6 DEF ApproveReturns, PCs
  <1>7. CASE ApproveComplete(a)
    <2>1. row' \in Rows
      BY <1>0, <1>a, <1>7 DEF ApproveComplete, Flush, Rows, Statuses, GraphStates
    <2> QED
      BY <1>0, <1>a, <1>7, <2>1 DEF ApproveComplete, Forget, PCs
  <1>8. CASE ApproveDispatch(a)
    BY <1>8 DEF ApproveDispatch, PCs
  <1>9. CASE ApproveRaise(a)
    BY <1>0, <1>a, <1>9 DEF ApproveRaise, Forget, PCs
  <1> QED
    BY <1>1, <1>2, <1>3, <1>4, <1>5, <1>6, <1>7, <1>8, <1>9 DEF Approve, ApproveHandler

\* The faults of the environment keep the types and stay within their bound.
LEMMA FaultTypeOK ==
    TypeOK /\ (WorkerCrash \/ WorkerRestart \/ AttemptLost \/ ApiRestart) => TypeOK'
  <1> SUFFICES ASSUME TypeOK, WorkerCrash \/ WorkerRestart \/ AttemptLost \/ ApiRestart
               PROVE  TypeOK'
    OBVIOUS
  <1>0. /\ Worker \in Executors /\ NoGraph \in GraphStates
        /\ NoRow \in Rows /\ Requeued \in [state : {"unsent", "queued", "running", "done"},
                                            retries : 0 .. MaxRetries]
    BY GraphStatesClosed
    DEF Executors, TypeOK, Rows, NoRow, Statuses, Risks, Requeued
  <1>1. faults' \in 0 .. MaxFaults
    BY BoundsAssumption
    DEF WorkerCrash, WorkerRestart, AttemptLost, ApiRestart, Fault, TypeOK, BoundsAssumption
  <1> USE DEF TypeOK, Forget, store, broker, graph
  <1>2. CASE WorkerCrash
    BY <1>0, <1>1, <1>2 DEF WorkerCrash, PCs
  <1>3. CASE WorkerRestart
    BY <1>0, <1>1, <1>3 DEF WorkerRestart, PCs
  <1>4. CASE AttemptLost
    BY <1>0, <1>1, <1>4 DEF AttemptLost, PCs
  <1>5. CASE ApiRestart
    <2>1. pc' \in [Processes -> PCs]
      BY <1>5 DEF ApiRestart, PCs
    <2>2. mem' \in [Executors -> GraphStates]
      BY <1>0, <1>5 DEF ApiRestart
    <2> QED
      BY <1>0, <1>1, <1>5, <2>1, <2>2 DEF ApiRestart
  <1> QED
    BY <1>2, <1>3, <1>4, <1>5

\* Every step keeps the types.
LEMMA NextTypeOK == TypeOK /\ [Next]_vars => TypeOK'
  <1>1. TypeOK /\ UNCHANGED vars => TypeOK'
    BY DEF TypeOK, vars, store, broker, graph
  <1> QED
    BY <1>1, StartTypeOK, AttemptTypeOK, InterruptionTypeOK, CancelTypeOK, ApproveTypeOK,
       FaultTypeOK DEF Next

\* The row, the message, the checkpoint and every process are always what they should be
\* in kind, for every number of requests, retries and faults.
THEOREM TypeCorrect == Spec => []TypeOK
  BY InitTypeOK, NextTypeOK, PTL DEF Spec

-----------------------------------------------------------------------------
(***************************************************************************)
(* The gate.  HighRiskNeedsApproval is not inductive alone: an approve     *)
(* request could overwrite the entry that witnesses the release.  It only  *)
(* writes its own, and only while that still is "none".                    *)
(***************************************************************************)
Early == {"idle", "loaded", "marked", "checked"}

EntryInv == \A a \in Approvers : pc[a] \in Early => entry[a] = "none"

GateInv == TypeOK /\ EntryInv /\ HighRiskNeedsApproval

\* Nothing has happened yet.
LEMMA InitGate == Init => GateInv
  <1> SUFFICES ASSUME Init PROVE EntryInv /\ HighRiskNeedsApproval
    BY InitTypeOK DEF GateInv
  <1>1. EntryInv
    BY DEF Init, EntryInv
  <1>2. HighRiskNeedsApproval
    BY DEF Init, HighRiskNeedsApproval, PastGate, NoGraph
  <1> QED
    BY <1>1, <1>2

\* A step that only copies graph states or forgets them, and sends no approve request
\* back to where it has not resumed yet, keeps the gate.
LEMMA CopyingKeepsGate ==
    ASSUME GateInv, TypeOK',
           entry' = entry,
           \A a \in Approvers : pc'[a] \in Early => pc[a] \in Early,
           thread' = thread \/ thread'.phase = "analyse",
           \A e \in Executors : \/ mem'[e] \in {mem[e], thread, NoGraph}
                               \/ mem'[e].phase = "analyse"
    PROVE  GateInv'
  <1>1. EntryInv'
    BY DEF GateInv, EntryInv
  <1>2. ~PastGate(NoGraph) /\ \A g : g.phase = "analyse" => ~PastGate(g)
    BY DEF PastGate, NoGraph
  <1>3. PastGate(thread)' => PastGate(thread)
    BY <1>2 DEF PastGate
  <1>4. ASSUME NEW e \in Executors, PastGate(mem[e])'
        PROVE  PastGate(thread) \/ PastGate(mem[e])
    BY <1>2, <1>4 DEF PastGate
  <1>5. HighRiskNeedsApproval'
    BY <1>3, <1>4 DEF GateInv, HighRiskNeedsApproval
  <1> QED
    BY <1>1, <1>5 DEF GateInv

\* No node of the graph gets past the gate but hitl, which only a run resumed at the
\* pause executes.
LEMMA RunGraphKeepsGate ==
    ASSUME NEW e \in Executors, GateInv, RunGraph(e)
    PROVE  GateInv'
  <1>0. TypeOK /\ TypeOK'
    BY RunGraphTypeOK DEF GateInv
  <1>1. pc' = pc /\ entry' = entry
    BY DEF RunGraph, Analyse, Consensus, Hitl, Publish, EndGraph
  <1>2. EntryInv'
    BY <1>1 DEF GateInv, EntryInv
  <1>3. \A x \in Executors : x # e => mem'[x] = mem[x]
    BY <1>0 DEF RunGraph, Analyse, Consensus, Hitl, Publish, EndGraph, Checkpoint, TypeOK
  <1>4. mem[e] \in GraphStates
    BY <1>0 DEF TypeOK
  <1>5. SUFFICES ASSUME PastGate(thread)' \/ PastGate(mem[e])', ~PastGate(thread),
                        \A x \in Executors : ~PastGate(mem[x])
                 PROVE  \E a \in Approvers : entry[a] = "hitl"
    <2>1. CASE PastGate(thread) \/ \E x \in Executors : PastGate(mem[x])
      BY <1>0, <1>1, <1>2, <2>1 DEF GateInv, HighRiskNeedsApproval
    <2>2. CASE ~PastGate(thread) /\ \A x \in Executors : ~PastGate(mem[x])
      <3>1. (PastGate(thread)' \/ PastGate(mem[e])') => \E a \in Approvers : entry[a] = "hitl"
        BY <1>5, <2>2
      <3>2. \A x \in Executors : x # e => ~PastGate(mem[x])'
        BY <1>3, <2>2 DEF PastGate
      <3>3. HighRiskNeedsApproval'
        BY <1>1, <3>1, <3>2 DEF HighRiskNeedsApproval
      <3> QED
        BY <1>0, <1>2, <3>3 DEF GateInv
    <2> QED
      BY <2>1, <2>2
  <1>6. CASE Analyse(e)
    BY <1>0, <1>4, <1>5, <1>6 DEF Analyse, Analysed, Checkpoint, PastGate, GraphStates, TypeOK
  <1>7. CASE Consensus(e)
    BY <1>0, <1>4, <1>5, <1>7
    DEF Consensus, Decided, AfterConsensus, Checkpoint, PastGate, GraphStates, TypeOK
  <1>8. CASE Hitl(e)
    BY <1>8 DEF Hitl, AtPhase, Interrupted
  <1>9. CASE Publish(e)
    BY <1>0, <1>4, <1>5, <1>9 DEF Publish, AtPhase, PastGate, GraphStates, TypeOK
  <1>10. CASE EndGraph(e)
    BY <1>0, <1>4, <1>5, <1>10 DEF EndGraph, AtPhase, Ended, Checkpoint, PastGate, GraphStates, TypeOK
  <1> QED
    BY <1>6, <1>7, <1>8, <1>9, <1>10 DEF RunGraph

\* A resumption records its entry, which no earlier release depends on.
LEMMA ResumeKeepsGate ==
    ASSUME NEW a \in Approvers, GateInv, ApproveResume(a)
    PROVE  GateInv'
  <1>0. TypeOK /\ TypeOK' /\ a \in Executors
    BY ApproveTypeOK DEF GateInv, Approve, ApproveHandler, Executors
  <1>1. entry[a] = "none" /\ pc'[a] = "graph" /\ \A b \in Approvers : b # a => pc'[b] = pc[b]
    BY <1>0 DEF GateInv, EntryInv, Early, ApproveResume, Goto, TypeOK, Processes, Requests
  <1>2. \A b \in Approvers : b # a => entry'[b] = entry[b]
    BY <1>0 DEF ApproveResume, TypeOK
  <1>3. EntryInv'
    BY <1>1, <1>2 DEF GateInv, EntryInv, Early
  <1>4. thread' = thread /\ mem'[a] = thread /\ \A e \in Executors : e # a => mem'[e] = mem[e]
    BY <1>0 DEF ApproveResume, TypeOK
  <1>5. ASSUME PastGate(thread)' \/ \E e \in Executors : PastGate(mem[e])'
        PROVE  \E b \in Approvers : entry'[b] = "hitl"
    <2>1. PastGate(thread) \/ \E e \in Executors : PastGate(mem[e])
      BY <1>4, <1>5 DEF PastGate
    <2>2. PICK b \in Approvers : entry[b] = "hitl"
      BY <2>1 DEF GateInv, HighRiskNeedsApproval
    <2> QED
      BY <1>1, <1>2, <2>2
  <1> QED
    BY <1>0, <1>3, <1>5 DEF GateInv, HighRiskNeedsApproval

\* Requests that do not run the graph, and the worker's own steps.
LEMMA OthersKeepGate ==
    ASSUME GateInv,
           \/ Start \/ \E c \in Cancellers : Cancel(c)
           \/ Attempt \/ Raise \/ RevokeArrives
           \/ WorkerCrash \/ WorkerRestart \/ AttemptLost \/ ApiRestart
    PROVE  GateInv'
  <1>0. TypeOK /\ TypeOK'
    BY StartTypeOK, CancelTypeOK, AttemptTypeOK, InterruptionTypeOK, FaultTypeOK DEF GateInv
  <1>a. Worker \in Executors /\ Worker \notin Approvers /\ Starter \notin Approvers
        /\ \A c \in Cancellers : c \notin Approvers
    BY ProcessesAssumption DEF ProcessesAssumption, Executors
  <1>b. \A a \in Approvers : a \in Processes
    BY DEF Processes, Requests
  <1> USE DEF TypeOK, Goto, store, broker, graph
  <1>1. CASE Start
    <2>1. \A a \in Approvers : pc'[a] = pc[a]
      BY <1>0, <1>1, <1>a, <1>b DEF Start, StartInsert, StartSend, StartCommit
    <2> QED
      BY <1>0, <1>1, <2>1, CopyingKeepsGate DEF Start, StartInsert, StartSend, StartCommit
  <1>2. ASSUME NEW c \in Cancellers, Cancel(c) PROVE GateInv'
    <2>1. \A a \in Approvers : pc'[a] = pc[a]
      BY <1>0, <1>2, <1>a, <1>b DEF Cancel, CancelLoad, CancelRevoke, CancelCommit
    <2> QED
      BY <1>0, <1>2, <2>1, CopyingKeepsGate DEF Cancel, CancelLoad, CancelRevoke, CancelCommit
  <1>3. CASE Attempt
    <2>1. CASE RunGraph(Worker)
      BY <1>a, <2>1, RunGraphKeepsGate
    <2>2. \A a \in Approvers : pc'[a] = pc[a]
      BY <1>0, <1>3, <1>a, <1>b
      DEF Attempt, Receive, Discard, TokenFound, TokenMissing, MarkCollecting, Invoke,
          InvokeReturns, Inspect, PersistFindings, Finish, Notify, Ack, MarkFailed, Retry,
          RunGraph, Analyse, Consensus, Hitl, Publish, EndGraph
    <2>3. CASE Invoke
      <3>1. thread'.phase = "analyse" /\ entry' = entry
        BY <2>3 DEF Invoke, Checkpoint, Restarted
      <3>2. \A e \in Executors : mem'[e] = mem[e] \/ mem'[e].phase = "analyse"
        BY <1>0, <1>a, <2>3 DEF Invoke, Checkpoint, Restarted
      <3> QED
        BY <1>0, <2>2, <3>1, <3>2, CopyingKeepsGate
    <2>4. CASE Inspect \/ Finish
      <3>1. thread' = thread /\ entry' = entry
        BY <2>4 DEF Inspect, Finish
      <3>2. \A e \in Executors : mem'[e] \in {mem[e], thread, NoGraph}
        BY <1>0, <1>a, <2>4 DEF Inspect, Finish, Forget
      <3> QED
        BY <1>0, <2>2, <3>1, <3>2, CopyingKeepsGate
    <2>5. CASE ~RunGraph(Worker) /\ ~Invoke /\ ~Inspect /\ ~Finish
      <3>1. mem' = mem /\ thread' = thread /\ entry' = entry
        BY <1>3, <2>5
        DEF Attempt, Receive, Discard, TokenFound, TokenMissing, MarkCollecting,
            InvokeReturns, PersistFindings, Notify, Ack, MarkFailed, Retry
      <3> QED
        BY <1>0, <2>2, <3>1, CopyingKeepsGate
    <2> QED
      BY <2>1, <2>3, <2>4, <2>5
  <1>4. CASE Raise \/ RevokeArrives \/ WorkerCrash \/ WorkerRestart \/ AttemptLost
    <2>1. \A a \in Approvers : pc'[a] = pc[a]
      BY <1>0, <1>4, <1>a, <1>b DEF Raise, RevokeArrives, WorkerCrash, WorkerRestart, AttemptLost
    <2>2. entry' = entry /\ thread' = thread
      BY <1>4 DEF Raise, RevokeArrives, WorkerCrash, WorkerRestart, AttemptLost
    <2>3. \A e \in Executors : mem'[e] \in {mem[e], thread, NoGraph}
      BY <1>0, <1>4 DEF Raise, RevokeArrives, WorkerCrash, WorkerRestart, AttemptLost, Forget
    <2> QED
      BY <1>0, <2>1, <2>2, <2>3, CopyingKeepsGate
  <1>5. CASE ApiRestart
    <2>1. \A a \in Approvers : pc'[a] \in Early => pc[a] \in Early
      BY <1>0, <1>5, <1>a, <1>b DEF ApiRestart, Early
    <2> QED
      BY <1>0, <1>5, <2>1, CopyingKeepsGate DEF ApiRestart
  <1> QED
    BY <1>1, <1>2, <1>3, <1>4, <1>5

\* The steps of an approve request.
LEMMA ApproveKeepsGate ==
    ASSUME NEW a \in Approvers, GateInv, Approve(a)
    PROVE  GateInv'
  <1>0. TypeOK /\ TypeOK' /\ a \in Executors /\ \A b \in Approvers : b \in Processes
    BY ApproveTypeOK DEF GateInv, Executors, Processes, Requests
  <1>1. CASE RunGraph(a)
    BY <1>0, <1>1, RunGraphKeepsGate
  <1>2. CASE ApproveResume(a)
    BY <1>2, ResumeKeepsGate
  <1>3. CASE ApproveLoad(a) \/ ApproveMark(a) \/ ApproveCheck(a) \/ ApproveReturns(a)
                            \/ ApproveDispatch(a)
    <2> USE DEF ApproveLoad, ApproveMark, ApproveCheck, ApproveReturns, ApproveDispatch,
                Goto, store, broker, graph
    <2>1. \A b \in Approvers : pc'[b] \in Early => pc[b] \in Early
      BY <1>0, <1>3 DEF Early, TypeOK
    <2>2. entry' = entry /\ thread' = thread /\ mem' = mem
      BY <1>3
    <2> QED
      BY <1>0, <2>1, <2>2, CopyingKeepsGate
  <1>4. CASE ApproveRaise(a) \/ ApproveComplete(a)
    <2> USE DEF ApproveRaise, ApproveComplete, Goto, store, broker, graph
    <2>1. \A b \in Approvers : pc'[b] \in Early => pc[b] \in Early
      BY <1>0, <1>4 DEF Early, TypeOK
    <2>2. entry' = entry /\ thread' = thread
      BY <1>4
    <2>3. \A e \in Executors : mem'[e] \in {mem[e], thread, NoGraph}
      BY <1>0, <1>4 DEF Forget, TypeOK
    <2> QED
      BY <1>0, <2>1, <2>2, <2>3, CopyingKeepsGate
  <1> QED
    BY <1>1, <1>2, <1>3, <1>4 DEF Approve, ApproveHandler

\* Every step keeps the gate.
LEMMA NextKeepsGate == GateInv /\ [Next]_vars => GateInv'
  <1>1. GateInv /\ UNCHANGED vars => GateInv'
    <2> SUFFICES ASSUME GateInv, UNCHANGED vars PROVE GateInv'
      OBVIOUS
    <2>1. TypeOK'
      BY NextTypeOK DEF GateInv
    <2> QED
      BY <2>1, CopyingKeepsGate DEF vars, store, broker, graph
  <1> QED
    BY <1>1, OthersKeepGate, ApproveKeepsGate DEF Next

\* However many approve requests, attempts, retries and faults there are, the output node
\* of a high-risk review is only reached by way of an approve request that resumed the
\* thread from the human pause.
THEOREM HighRiskIsApproved == Spec => []HighRiskNeedsApproval
  <1>1. GateInv => HighRiskNeedsApproval
    BY DEF GateInv
  <1> QED
    BY <1>1, InitGate, NextKeepsGate, PTL DEF Spec
=============================================================================
