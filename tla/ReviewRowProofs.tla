---------------------------- MODULE ReviewRowProofs ----------------------------
(***************************************************************************)
(* Proofs about what the row of a review may say, given where the task and *)
(* the thread are.                                                         *)
(***************************************************************************)
EXTENDS ReviewLifecycleProofs

-----------------------------------------------------------------------------
(***************************************************************************)
(* The task.  A message is out for processing exactly while the worker is  *)
(* somewhere in the task, a revocation the worker knows leaves nothing     *)
(* running, and before the start request has sent the message, let alone   *)
(* inserted the row, nobody else can have done anything.                   *)
(***************************************************************************)
WorkerBusy   == task.state = "running" <=> pc[Worker] # "idle"
NothingSent  == pc[Starter] \in {"idle", "inserted"} => task.state = "unsent"
NothingThere ==
    pc[Starter] = "idle" => /\ row.status = "absent"
                            /\ \A p \in Cancellers \cup Approvers : pc[p] = "idle"

TaskInv == TypeOK /\ WorkerBusy /\ RevokedNeverRuns /\ NothingSent /\ NothingThere

\* Nothing has happened yet.
LEMMA InitTask == Init => TaskInv
  <1> SUFFICES ASSUME Init PROVE TaskInv
    OBVIOUS
  <1>1. TypeOK
    BY InitTypeOK
  <1>2. \A p \in Processes : pc[p] = "idle"
    BY DEF Init
  <1> QED
    BY <1>1, <1>2
    DEF TaskInv, Init, WorkerBusy, RevokedNeverRuns, NothingSent, NothingThere,
        NoRow, Processes, Requests

\* The processes are different ones.
LEMMA Distinct ==
    /\ Starter # Worker
    /\ Starter \in Processes /\ Worker \in Processes
    /\ \A p \in Cancellers \cup Approvers : p \in Processes /\ p # Starter /\ p # Worker
  BY ProcessesAssumption DEF ProcessesAssumption, Processes, Requests

\* The start request keeps the task invariant.
LEMMA StartKeepsTask == TaskInv /\ Start => TaskInv'
  <1> SUFFICES ASSUME TaskInv, Start PROVE TaskInv'
    OBVIOUS
  <1>0. TypeOK /\ TypeOK' /\ TaskInv
    BY StartTypeOK DEF TaskInv
  <1> USE Distinct
      DEF TaskInv, TypeOK, WorkerBusy, RevokedNeverRuns, NothingSent, NothingThere, Goto,
          store, broker, graph
  <1>1. CASE StartInsert
    BY <1>0, <1>1 DEF StartInsert
  <1>2. CASE StartSend
    BY <1>0, <1>2 DEF StartSend
  <1>3. CASE StartCommit
    BY <1>0, <1>3 DEF StartCommit
  <1> QED
    BY <1>1, <1>2, <1>3 DEF Start

\* A cancel request keeps it: its broadcast is only sent, not known.
LEMMA CancelKeepsTask ==
    ASSUME NEW c \in Cancellers, TaskInv, Cancel(c)
    PROVE  TaskInv'
  <1>0. TypeOK /\ TypeOK' /\ TaskInv
    BY CancelTypeOK DEF TaskInv
  <1> USE Distinct
      DEF TaskInv, TypeOK, WorkerBusy, RevokedNeverRuns, NothingSent, NothingThere, Goto,
          store, broker, graph
  <1>1. CASE CancelLoad(c)
    BY <1>0, <1>1 DEF CancelLoad
  <1>2. CASE CancelRevoke(c)
    BY <1>0, <1>2 DEF CancelRevoke
  <1>3. CASE CancelCommit(c)
    BY <1>0, <1>3 DEF CancelCommit
  <1> QED
    BY <1>1, <1>2, <1>3 DEF Cancel

\* An approve request keeps it: it touches neither the message nor the worker.
LEMMA ApproveKeepsTask ==
    ASSUME NEW a \in Approvers, TaskInv, Approve(a)
    PROVE  TaskInv'
  <1>0. TypeOK /\ TypeOK' /\ TaskInv
    BY ApproveTypeOK DEF TaskInv
  <1>1. task' = task /\ control' = control
    BY DEF Approve, ApproveLoad, ApproveHandler, ApproveMark, ApproveCheck, ApproveResume,
           ApproveReturns, ApproveRaise, ApproveComplete, ApproveDispatch, RunGraph, Analyse,
           Consensus, Hitl, Publish, EndGraph, broker
  <1>2. \A p \in Processes : p # a => pc'[p] = pc[p]
    BY <1>0
    DEF Approve, ApproveLoad, ApproveHandler, ApproveMark, ApproveCheck, ApproveResume,
        ApproveReturns, ApproveRaise, ApproveComplete, ApproveDispatch, RunGraph, Analyse,
        Consensus, Hitl, Publish, EndGraph, Goto, TypeOK
  <1>3. pc[Starter] # "idle"
    <2>1. CASE ApproveLoad(a)
      BY <1>0, <2>1 DEF ApproveLoad, TaskInv, NothingThere
    <2>2. CASE pc[a] # "idle"
      BY <1>0, <2>2 DEF TaskInv, NothingThere
    <2>3. ApproveHandler(a) \/ ApproveRaise(a) => pc[a] # "idle"
      BY DEF ApproveHandler, ApproveMark, ApproveCheck, ApproveResume, ApproveReturns,
             ApproveRaise, ApproveComplete, ApproveDispatch, RunGraph, Analyse, Consensus,
             Hitl, Publish, EndGraph, Goto, AtPhase, Returned
    <2> QED
      BY <2>1, <2>2, <2>3 DEF Approve
  <1> QED
    BY <1>0, <1>1, <1>2, <1>3, Distinct
    DEF TaskInv, WorkerBusy, RevokedNeverRuns, NothingSent, NothingThere

\* The worker keeps it: it receives only what is in the queue and not revoked, and leaves
\* the task only together with the message.
LEMMA WorkerKeepsTask == TaskInv /\ (Attempt \/ Raise \/ RevokeArrives) => TaskInv'
  <1> SUFFICES ASSUME TaskInv, Attempt \/ Raise \/ RevokeArrives PROVE TaskInv'
    OBVIOUS
  <1>0. TypeOK /\ TypeOK' /\ TaskInv
    BY AttemptTypeOK, InterruptionTypeOK DEF TaskInv
  <1> USE Distinct
      DEF TaskInv, TypeOK, WorkerBusy, RevokedNeverRuns, NothingSent, NothingThere, Goto,
          store, broker, graph
  <1>1. CASE RunGraph(Worker)
    <2>1. pc[Worker] # "idle" /\ UNCHANGED <<pc, row, task, control>>
      BY <1>1 DEF RunGraph, Analyse, Consensus, Hitl, Publish, EndGraph, AtPhase
    <2> QED
      BY <1>0, <2>1
  <1>2. CASE Receive
    BY <1>0, <1>2 DEF Receive
  <1>3. CASE Discard
    BY <1>0, <1>3 DEF Discard
  <1>4. CASE TokenFound \/ Invoke \/ InvokeReturns \/ Inspect \/ PersistFindings \/ Notify
    <2>1. pc[Worker] # "idle" /\ pc'[Worker] # "idle" /\ UNCHANGED <<row, task, control>>
      BY <1>0, <1>4 DEF TokenFound, Invoke, InvokeReturns, Inspect, PersistFindings, Notify
    <2>2. \A p \in Processes : p # Worker => pc'[p] = pc[p]
      BY <1>0, <1>4 DEF TokenFound, Invoke, InvokeReturns, Inspect, PersistFindings, Notify
    <2> QED
      BY <1>0, <2>1, <2>2
  <1>5. CASE TokenMissing \/ MarkCollecting \/ Finish \/ MarkFailed
    <2>1. pc[Worker] # "idle" /\ pc'[Worker] # "idle" /\ UNCHANGED <<task, control>>
      BY <1>0, <1>5 DEF TokenMissing, MarkCollecting, Finish, MarkFailed
    <2>2. \A p \in Processes : p # Worker => pc'[p] = pc[p]
      BY <1>0, <1>5 DEF TokenMissing, MarkCollecting, Finish, MarkFailed
    <2>3. pc[Starter] # "idle"
      BY <1>0, <2>1
    <2> QED
      BY <1>0, <2>1, <2>2, <2>3
  <1>6. CASE Ack
    BY <1>0, <1>6 DEF Ack
  <1>7. CASE Retry
    BY <1>0, <1>7 DEF Retry
  <1>8. CASE Raise
    BY <1>0, <1>8 DEF Raise, InTry
  <1>9. CASE RevokeArrives
    BY <1>0, <1>9 DEF RevokeArrives
  <1> QED
    BY <1>1, <1>2, <1>3, <1>4, <1>5, <1>6, <1>7, <1>8, <1>9 DEF Attempt

\* The faults keep it: a dying attempt gives its message back or takes it along.
LEMMA FaultKeepsTask ==
    TaskInv /\ (WorkerCrash \/ WorkerRestart \/ AttemptLost \/ ApiRestart) => TaskInv'
  <1> SUFFICES ASSUME TaskInv, WorkerCrash \/ WorkerRestart \/ AttemptLost \/ ApiRestart
               PROVE  TaskInv'
    OBVIOUS
  <1>0. TypeOK /\ TypeOK' /\ TaskInv
    BY FaultTypeOK DEF TaskInv
  <1> USE Distinct
      DEF TaskInv, TypeOK, WorkerBusy, RevokedNeverRuns, NothingSent, NothingThere, Requeued,
          store, broker, graph
  <1>1. CASE WorkerCrash
    BY <1>0, <1>1 DEF WorkerCrash
  <1>2. CASE WorkerRestart
    BY <1>0, <1>2 DEF WorkerRestart
  <1>3. CASE AttemptLost
    BY <1>0, <1>3 DEF AttemptLost
  <1>4. CASE ApiRestart
    BY <1>0, <1>4 DEF ApiRestart
  <1> QED
    BY <1>1, <1>2, <1>3, <1>4

\* Every step keeps the task invariant.
LEMMA NextKeepsTask == TaskInv /\ [Next]_vars => TaskInv'
  <1>1. TaskInv /\ UNCHANGED vars => TaskInv'
    BY DEF TaskInv, TypeOK, WorkerBusy, RevokedNeverRuns, NothingSent, NothingThere,
           vars, store, broker, graph
  <1> QED
    BY <1>1, StartKeepsTask, WorkerKeepsTask, CancelKeepsTask, ApproveKeepsTask,
       FaultKeepsTask DEF Next

\* The task invariant holds throughout.
LEMMA TaskAlways == Spec => []TaskInv
  BY InitTask, NextKeepsTask, PTL DEF Spec

\* No attempt runs at a worker that knows the task to be revoked, however the revocation
\* races with deliveries, retries, crashes and redeliveries.
THEOREM RevokedIsStopped == Spec => []RevokedNeverRuns
  <1>1. TaskInv => RevokedNeverRuns
    BY DEF TaskInv
  <1> QED
    BY <1>1, TaskAlways, PTL

-----------------------------------------------------------------------------
(***************************************************************************)
(* Cancellation.  Whoever writes another status than "cancelled" is the    *)
(* start request before there is a row, the worker inside the task, or an  *)
(* approve request; none of them is about.                                 *)
(***************************************************************************)

\* The step that CancelSticks forbids is no step of a state with the task invariant.
LEMMA CancelledStep ==
    ASSUME TaskInv, [Next]_vars, row.status = "cancelled", control = "known", NoApproval
    PROVE  row'.status = "cancelled"
  <1>0. TypeOK /\ pc[Worker] = "idle" /\ pc[Starter] # "idle"
    BY DEF TaskInv, TypeOK, WorkerBusy, RevokedNeverRuns, NothingThere
  <1> USE DEF Goto, store, broker, graph
  <1>1. CASE Start
    BY <1>0, <1>1 DEF Start, StartInsert, StartSend, StartCommit, TypeOK, Rows
  <1>2. CASE \E c \in Cancellers : Cancel(c)
    BY <1>0, <1>2 DEF Cancel, CancelLoad, CancelRevoke, CancelCommit, TypeOK, Rows
  <1>3. CASE Attempt \/ Raise
    BY <1>0, <1>3
    DEF Attempt, Receive, Discard, TokenFound, TokenMissing, MarkCollecting, Invoke,
        InvokeReturns, Inspect, PersistFindings, Finish, Notify, Ack, MarkFailed, Retry, Raise, InTry,
        RunGraph, Analyse, Consensus, Hitl, Publish, EndGraph, AtPhase
  <1>4. ASSUME NEW a \in Approvers, Approve(a) PROVE row' = row
    <2>1. pc[a] = "idle"
      BY DEF NoApproval
    <2> QED
      BY <1>4, <2>1
      DEF Approve, ApproveLoad, ApproveHandler, ApproveMark, ApproveCheck, ApproveResume,
          ApproveReturns, ApproveRaise, ApproveComplete, ApproveDispatch, RunGraph, Analyse,
          Consensus, Hitl, Publish, EndGraph, AtPhase, Returned
  <1>5. CASE RevokeArrives \/ WorkerCrash \/ WorkerRestart \/ AttemptLost \/ ApiRestart
    BY <1>5 DEF RevokeArrives, WorkerCrash, WorkerRestart, AttemptLost, ApiRestart
  <1>6. CASE UNCHANGED vars
    BY <1>6 DEF vars
  <1> QED
    BY <1>1, <1>2, <1>3, <1>4, <1>5, <1>6 DEF Next

\* A review cancelled after the worker has heard of the revocation stays cancelled until
\* somebody approves it, for every number of requests, retries and faults.
THEOREM CancellationSticks == Spec => CancelSticks
  <1>1. TaskInv /\ [Next]_vars
          => [row.status = "cancelled" /\ control = "known" /\ NoApproval
                => row'.status = "cancelled"]_vars
    BY CancelledStep
  <1> QED
    BY <1>1, TaskAlways, PTL DEF Spec, CancelSticks

-----------------------------------------------------------------------------
(***************************************************************************)
(* Row and thread.  The row is taken out of rest (MarkCollecting) before   *)
(* the thread is restarted, and put to rest again (Finish) only after the  *)
(* thread has stopped and its findings are stored; in between the worker's *)
(* memory and the thread agree, as nobody else writes checkpoints.         *)
(***************************************************************************)
AtRest  == row.status \in {"paused_for_review", "complete"}
Stopped(g) == g.phase \in {"hitl", "ended"} /\ g.risk # "none"

BeforeFinish == {"invoke", "graph", "inspect", "persist", "finish"}

RestIsFinished == pc[Worker] \in BeforeFinish => ~AtRest

GraphInStep ==
    pc[Worker] = "graph" =>
        /\ mem[Worker].phase # "posted" => thread = mem[Worker]
        /\ mem[Worker].phase \in {"hitl", "output", "posted", "ended"} => mem[Worker].risk # "none"

ThreadStopped == pc[Worker] \in {"inspect", "persist", "finish"} => Stopped(thread)
MemIsThread   == pc[Worker] \in {"persist", "finish"} => mem[Worker] = thread
Stored        == pc[Worker] = "finish" => comments >= thread.copies

RowParts == /\ RowMatchesThread /\ FindingsShown
            /\ RestIsFinished /\ GraphInStep /\ ThreadStopped /\ MemIsThread /\ Stored

RowInv == TaskInv /\ (NoApproval => RowParts)

\* Nothing has happened yet.
LEMMA InitRow == Init => RowInv
  <1> SUFFICES ASSUME Init PROVE RowParts
    BY InitTask DEF RowInv
  <1>1. pc[Worker] = "idle" /\ row.status = "absent"
    BY Distinct DEF Init, NoRow
  <1> QED
    BY <1>1
    DEF RowParts, RowMatchesThread, FindingsShown, RestIsFinished, AtRest, BeforeFinish, GraphInStep,
        ThreadStopped, MemIsThread, Stored

\* A step that leaves the thread, the comments and a row at rest alone keeps the row
\* invariant, if the worker is where it was with the same memory, or outside the try block.
LEMMA AsideKeepsRow ==
    ASSUME RowParts, NoApproval, thread' = thread, comments' = comments,
           row'.status = row.status \/ ~AtRest',
           row'.risk = row.risk,
           \/ pc'[Worker] = pc[Worker] /\ mem'[Worker] = mem[Worker]
           \/ pc'[Worker] \notin BeforeFinish
    PROVE  RowParts'
  <1>1. RowMatchesThread' /\ FindingsShown'
    BY DEF RowParts, RowMatchesThread, FindingsShown, AtRest
  <1>2. CASE pc'[Worker] \notin BeforeFinish
    BY <1>1, <1>2
    DEF RowParts, RestIsFinished, BeforeFinish, GraphInStep, ThreadStopped, MemIsThread, Stored
  <1>3. CASE pc'[Worker] = pc[Worker] /\ mem'[Worker] = mem[Worker]
    BY <1>1, <1>3
    DEF RowParts, RestIsFinished, AtRest, GraphInStep, ThreadStopped, MemIsThread, Stored
  <1> QED
    BY <1>2, <1>3

\* Approve requests do not come back to before they arrived.
LEMMA ApprovalStays ==
    ASSUME TypeOK, [Next]_vars, NoApproval'
    PROVE  NoApproval /\ \A a \in Approvers : ~Approve(a)
  <1>0. \A a \in Approvers : a \in Processes /\ a # Worker /\ a # Starter /\ a \notin Cancellers
    BY Distinct, ProcessesAssumption DEF ProcessesAssumption
  <1> USE DEF TypeOK, Goto, store, broker, graph
  <1>1. ASSUME NEW a \in Approvers, Approve(a) PROVE pc'[a] # "idle"
    BY <1>0, <1>1
    DEF Approve, ApproveLoad, ApproveHandler, ApproveMark, ApproveCheck, ApproveResume,
        ApproveReturns, ApproveRaise, ApproveComplete, ApproveDispatch, RunGraph, Analyse,
        Consensus, Hitl, Publish, EndGraph, AtPhase
  <1>2. \A a \in Approvers : ~Approve(a)
    BY <1>1 DEF NoApproval
  <1>3. ASSUME NEW a \in Approvers PROVE pc[a] = "idle"
    <2>0. pc'[a] = "idle"
      BY DEF NoApproval
    <2>1. CASE Start
      BY <1>0, <2>0, <2>1 DEF Start, StartInsert, StartSend, StartCommit
    <2>2. CASE \E c \in Cancellers : Cancel(c)
      BY <1>0, <2>0, <2>2 DEF Cancel, CancelLoad, CancelRevoke, CancelCommit
    <2>3. CASE Attempt
      BY <1>0, <2>0, <2>3
      DEF Attempt, Receive, Discard, TokenFound, TokenMissing, MarkCollecting, Invoke,
          InvokeReturns, Inspect, PersistFindings, Finish, Notify, Ack, MarkFailed, Retry,
          RunGraph, Analyse, Consensus, Hitl, Publish, EndGraph
    <2>4. CASE Raise \/ RevokeArrives \/ WorkerCrash \/ WorkerRestart \/ AttemptLost
      BY <1>0, <2>0, <2>4 DEF Raise, RevokeArrives, WorkerCrash, WorkerRestart, AttemptLost
    <2>5. CASE ApiRestart
      BY <1>0, <2>0, <2>5 DEF ApiRestart
    <2>6. CASE UNCHANGED vars
      BY <2>0, <2>6 DEF vars
    <2> QED
      BY <1>2, <2>1, <2>2, <2>3, <2>4, <2>5, <2>6 DEF Next
  <1> QED
    BY <1>2, <1>3 DEF NoApproval

\* The graph in the worker keeps it: row and comments stay, and each checkpoint is what the
\* worker then has in memory.
LEMMA WorkerGraphKeepsRow ==
    ASSUME TypeOK, RowParts, NoApproval, RunGraph(Worker)
    PROVE  RowParts'
  <1>0. Worker \in Executors /\ mem[Worker] \in GraphStates
    BY DEF Executors, TypeOK
  <1>1. pc[Worker] = "graph" /\ UNCHANGED <<pc, row, comments>>
    BY DEF RunGraph, Analyse, Consensus, Hitl, Publish, EndGraph, AtPhase, store
  <1>2. ~AtRest
    BY <1>1 DEF RowParts, RestIsFinished, BeforeFinish
  <1>3. GraphInStep'
    <2> USE <1>0, <1>1 DEF GraphInStep, AtPhase, Checkpoint, TypeOK, RowParts
    <2>1. CASE Analyse(Worker)
      BY <2>1 DEF Analyse, Analysed, GraphStates
    <2>2. CASE Consensus(Worker)
      BY <2>2 DEF Consensus, Decided, GraphStates
    <2>3. CASE Hitl(Worker)
      BY <2>3 DEF Hitl, Released, GraphStates
    <2>4. CASE Publish(Worker)
      BY <2>4 DEF Publish, GraphStates
    <2>5. CASE EndGraph(Worker)
      BY <2>5 DEF EndGraph, Ended, GraphStates
    <2> QED
      BY <2>1, <2>2, <2>3, <2>4, <2>5 DEF RunGraph
  <1> QED
    BY <1>1, <1>2, <1>3
    DEF RowParts, RowMatchesThread, FindingsShown, AtRest, RestIsFinished, ThreadStopped,
        MemIsThread, Stored

\* The worker's steps that only move it, or take the row out of rest.
LEMMA WorkerAsideKeepsRow ==
    ASSUME TypeOK, RowParts, NoApproval,
           \/ Receive \/ Discard \/ TokenFound \/ TokenMissing \/ Notify \/ Ack
           \/ MarkFailed \/ Retry \/ Raise \/ RevokeArrives
    PROVE  RowParts'
  <1>1. thread' = thread /\ comments' = comments
    BY DEF Receive, Discard, TokenFound, TokenMissing, Notify, Ack, MarkFailed, Retry, Raise,
           RevokeArrives, store, graph
  <1>2. (row'.status = row.status \/ ~AtRest') /\ row'.risk = row.risk
    BY DEF Receive, Discard, TokenFound, TokenMissing, Notify, Ack, MarkFailed, Retry, Raise,
           RevokeArrives, store, AtRest, TypeOK, Rows
  <1>3. \/ pc'[Worker] = pc[Worker] /\ mem'[Worker] = mem[Worker]
        \/ pc'[Worker] \notin BeforeFinish
    BY Distinct
    DEF Receive, Discard, TokenFound, TokenMissing, Notify, Ack, MarkFailed, Retry, Raise,
        RevokeArrives, Goto, graph, BeforeFinish, TypeOK
  <1> QED
    BY <1>1, <1>2, <1>3, AsideKeepsRow

\* The steps of the attempt from MarkCollecting to Finish that are not the graph's.
LEMMA WorkerTryKeepsRow ==
    ASSUME TypeOK, RowParts, NoApproval,
           MarkCollecting \/ Invoke \/ InvokeReturns \/ Inspect \/ PersistFindings \/ Finish
    PROVE  RowParts'
  <1>0. /\ Worker \in Processes /\ Worker \in Executors /\ Worker \notin Approvers
        /\ mem[Worker] \in GraphStates /\ thread \in GraphStates
        /\ thread.copies \in Nat /\ mem[Worker].copies \in Nat /\ comments \in Nat
    BY Distinct, ProcessesAssumption
    DEF ProcessesAssumption, Executors, TypeOK, GraphStates
  <1> USE <1>0
      DEF Goto, TypeOK, store, broker, graph, BeforeFinish, AtRest, RowParts, RowMatchesThread,
          FindingsShown, RestIsFinished, GraphInStep, ThreadStopped, MemIsThread, Stored
  <1>1. CASE MarkCollecting
    BY <1>1 DEF MarkCollecting, Rows
  <1>2. CASE Invoke
    BY <1>2 DEF Invoke, Checkpoint, Restarted
  <1>3. CASE InvokeReturns
    <2>1. mem[Worker].phase \in {"hitl", "ended"}
      BY <1>3 DEF InvokeReturns, Returned, Interrupted
    <2>2. Stopped(thread)
      BY <1>3, <2>1 DEF InvokeReturns, Stopped
    <2> QED
      BY <1>3, <2>2 DEF InvokeReturns
  <1>4. CASE Inspect
    BY <1>4 DEF Inspect
  <1>5. CASE PersistFindings
    <2>1. comments' >= thread.copies
      BY <1>5 DEF PersistFindings
    <2> QED
      BY <1>5, <2>1 DEF PersistFindings
  <1>6. CASE Finish
    <2>1. mem[Worker] = thread /\ Stopped(thread) /\ comments >= thread.copies
      BY <1>6 DEF Finish
    <2>2. /\ row'.risk = thread.risk
          /\ row'.status = IF thread.phase = "ended" THEN "complete" ELSE "paused_for_review"
      BY <1>6, <2>1 DEF Finish, RiskOf, Stopped, Rows
    <2>3. thread' = thread /\ comments' = comments /\ pc'[Worker] \in {"ack", "notify"}
      BY <1>6 DEF Finish
    <2> QED
      BY <2>1, <2>2, <2>3 DEF Stopped
  <1> QED
    BY <1>1, <1>2, <1>3, <1>4, <1>5, <1>6

\* So does every other process.
LEMMA OthersKeepRow ==
    ASSUME TypeOK, RowParts, NoApproval,
           \/ Start \/ (\E c \in Cancellers : Cancel(c))
           \/ WorkerCrash \/ WorkerRestart \/ AttemptLost \/ ApiRestart
    PROVE  RowParts'
  <1>1. CASE Start
    <2>1. thread' = thread /\ comments' = comments /\ mem' = mem
      BY <1>1 DEF Start, StartInsert, StartSend, StartCommit, store, graph
    <2>2. (row'.status = row.status \/ ~AtRest') /\ row'.risk = row.risk
      BY <1>1 DEF Start, StartInsert, StartSend, StartCommit, store, AtRest, TypeOK, Rows
    <2>3. pc'[Worker] = pc[Worker]
      BY <1>1, Distinct DEF Start, StartInsert, StartSend, StartCommit, Goto, TypeOK
    <2> QED
      BY <2>1, <2>2, <2>3, AsideKeepsRow
  <1>2. ASSUME NEW c \in Cancellers, Cancel(c) PROVE RowParts'
    <2>1. thread' = thread /\ comments' = comments /\ mem' = mem
      BY <1>2 DEF Cancel, CancelLoad, CancelRevoke, CancelCommit, store, graph
    <2>2. (row'.status = row.status \/ ~AtRest') /\ row'.risk = row.risk
      BY <1>2 DEF Cancel, CancelLoad, CancelRevoke, CancelCommit, store, AtRest, TypeOK, Rows
    <2>3. pc'[Worker] = pc[Worker]
      BY <1>2, Distinct DEF Cancel, CancelLoad, CancelRevoke, CancelCommit, Goto, TypeOK
    <2> QED
      BY <2>1, <2>2, <2>3, AsideKeepsRow
  <1>3. CASE WorkerCrash \/ WorkerRestart \/ AttemptLost
    <2>1. UNCHANGED <<thread, comments, row>>
      BY <1>3 DEF WorkerCrash, WorkerRestart, AttemptLost, store
    <2>2. pc'[Worker] \notin BeforeFinish
      BY <1>3, Distinct DEF WorkerCrash, WorkerRestart, AttemptLost, TypeOK, BeforeFinish
    <2> QED
      BY <2>1, <2>2, AsideKeepsRow
  <1>4. CASE ApiRestart
    <2>1. UNCHANGED <<thread, comments, row>>
      BY <1>4 DEF ApiRestart, store
    <2>2. pc'[Worker] = pc[Worker] /\ mem'[Worker] = mem[Worker]
      BY <1>4, Distinct DEF ApiRestart, Executors
    <2> QED
      BY <2>1, <2>2, AsideKeepsRow
  <1> QED
    BY <1>1, <1>2, <1>3, <1>4

\* Every step keeps the row invariant.
LEMMA NextKeepsRow == RowInv /\ [Next]_vars => RowInv'
  <1> SUFFICES ASSUME RowInv, [Next]_vars, NoApproval' PROVE RowParts'
    BY NextKeepsTask DEF RowInv
  <1>1. TypeOK /\ NoApproval /\ RowParts /\ \A a \in Approvers : ~Approve(a)
    BY ApprovalStays DEF RowInv, TaskInv
  <1>2. UNCHANGED vars => RowParts'
    BY <1>1
    DEF vars, store, graph, RowParts, RowMatchesThread, FindingsShown, RestIsFinished,
        AtRest, GraphInStep, ThreadStopped, MemIsThread, Stored, Stopped, NoApproval
  <1> QED
    BY <1>1, <1>2, WorkerGraphKeepsRow, WorkerAsideKeepsRow, WorkerTryKeepsRow, OthersKeepRow
    DEF Next, Attempt

\* The row invariant holds throughout.
LEMMA RowAlways == Spec => []RowInv
  BY InitRow, NextKeepsRow, PTL DEF Spec

\* Until somebody approves, a paused row stands for a thread at the human node, a complete
\* one for an ended thread, with that thread's risk, whatever cancels, retries and faults
\* went before.
THEOREM RowTellsThread == Spec => []RowMatchesThread
  <1>1. RowInv => RowMatchesThread
    BY DEF RowInv, RowParts, RowMatchesThread
  <1> QED
    BY <1>1, RowAlways, PTL

\* Until somebody approves, a review at rest has all its findings in the comments table.
THEOREM FindingsAreShown == Spec => []FindingsShown
  <1>1. RowInv => FindingsShown
    BY DEF RowInv, RowParts, FindingsShown
  <1> QED
    BY <1>1, RowAlways, PTL

-----------------------------------------------------------------------------
(***************************************************************************)
(* The first attempt.  Until it stores the findings there are none, and    *)
(* the thread it works on has been through the agents at most once, since  *)
(* it found no thread when it began.                                       *)
(***************************************************************************)
Undisturbed == task.retries = 0 /\ faults = 0 /\ NoApproval

FirstParts ==
    /\ task.state \in {"unsent", "queued"} => comments = 0 /\ thread.copies = 0
    /\ pc[Worker] \in {"token", "mark", "invoke"} => comments = 0 /\ thread.copies = 0
    /\ pc[Worker] = "graph" =>
          /\ comments = 0 /\ thread.copies <= 1 /\ mem[Worker].copies <= 1
          /\ mem[Worker].phase = "analyse" => mem[Worker].copies = 0
    /\ pc[Worker] = "inspect" => comments = 0 /\ thread.copies <= 1
    /\ pc[Worker] = "persist" => comments = 0 /\ mem[Worker].copies <= 1
    /\ comments <= 1

FirstInv == TaskInv /\ (Undisturbed => FirstParts)

\* Nothing has happened yet.
LEMMA InitFirst == Init => FirstInv
  <1>1. Init => FirstParts
    BY Distinct DEF Init, FirstParts, NoGraph
  <1> QED
    BY <1>1, InitTask DEF FirstInv

\* What has been retried, or has met a fault, stays so.
LEMMA DisturbedStays ==
    ASSUME TypeOK, [Next]_vars, Undisturbed'
    PROVE  Undisturbed /\ faults' = faults
  <1>1. NoApproval /\ \A a \in Approvers : ~Approve(a)
    BY ApprovalStays DEF Undisturbed
  <1>2. faults \in Nat /\ task.retries \in Nat
    BY BoundsAssumption DEF BoundsAssumption, TypeOK
  <1>3. faults' = faults
    <2>1. CASE Attempt \/ Raise \/ RevokeArrives
      BY <2>1
      DEF Attempt, Receive, Discard, TokenFound, TokenMissing, MarkCollecting, Invoke,
          InvokeReturns, Inspect, PersistFindings, Finish, Notify, Ack, MarkFailed, Retry, Raise,
          RevokeArrives, RunGraph, Analyse, Consensus, Hitl, Publish, EndGraph
    <2>2. CASE Start \/ (\E c \in Cancellers : Cancel(c)) \/ UNCHANGED vars
      BY <2>2
      DEF Start, StartInsert, StartSend, StartCommit, Cancel, CancelLoad, CancelRevoke,
          CancelCommit, vars
    <2>3. ~(WorkerCrash \/ WorkerRestart \/ AttemptLost \/ ApiRestart)
      BY <1>2 DEF WorkerCrash, WorkerRestart, AttemptLost, ApiRestart, Fault, Undisturbed
    <2> QED
      BY <1>1, <2>1, <2>2, <2>3 DEF Next
  <1>4. task.retries = 0
    <2>1. CASE StartSend \/ Receive \/ Discard \/ Ack \/ RevokeArrives \/ Retry
      BY <1>2, <2>1
      DEF StartSend, Receive, Discard, Ack, RevokeArrives, Retry, Undisturbed, TypeOK
    <2>2. CASE UNCHANGED task
      BY <2>2 DEF Undisturbed
    <2>3. ~(WorkerCrash \/ WorkerRestart \/ AttemptLost \/ ApiRestart)
      BY <1>2, <1>3 DEF WorkerCrash, WorkerRestart, AttemptLost, ApiRestart, Fault
    <2>4. ASSUME Attempt \/ Raise
          PROVE  Receive \/ Discard \/ Ack \/ Retry \/ UNCHANGED task
      BY <2>4
      DEF Attempt, TokenFound, TokenMissing, MarkCollecting, Invoke, InvokeReturns, Inspect,
          PersistFindings, Finish, Notify, MarkFailed, Raise, RunGraph, Analyse, Consensus,
          Hitl, Publish, EndGraph, broker
    <2>5. ASSUME Start \/ (\E c \in Cancellers : Cancel(c)) \/ UNCHANGED vars
          PROVE  StartSend \/ UNCHANGED task
      BY <2>5
      DEF Start, StartInsert, StartCommit, Cancel, CancelLoad, CancelRevoke, CancelCommit,
          vars, broker
    <2> QED
      BY <1>1, <2>1, <2>2, <2>3, <2>4, <2>5 DEF Next
  <1> QED
    BY <1>1, <1>2, <1>3, <1>4 DEF Undisturbed

\* The worker in its first attempt: it finds no findings and no thread, goes through the
\* agents once, and stores once what they found.
LEMMA FirstAttemptKeeps ==
    ASSUME TaskInv, FirstParts, Undisturbed, Undisturbed', faults' = faults, Attempt \/ Raise
    PROVE  FirstParts'
  <1>0. /\ TypeOK /\ Worker \in Processes /\ Worker \in Executors
        /\ mem[Worker] \in GraphStates /\ thread \in GraphStates
        /\ thread.copies \in Nat /\ mem[Worker].copies \in Nat /\ comments \in Nat
        /\ task.state = "running" <=> pc[Worker] # "idle"
    BY Distinct DEF Executors, TaskInv, TypeOK, GraphStates, WorkerBusy
  <1> USE <1>0 DEF Goto, TypeOK, store, broker, graph, FirstParts
  <1>1. CASE Receive
    BY <1>1 DEF Receive
  <1>2. CASE Discard
    BY <1>2 DEF Discard
  <1>3. CASE TokenFound \/ TokenMissing \/ MarkCollecting
    BY <1>3 DEF TokenFound, TokenMissing, MarkCollecting
  <1>4. CASE Invoke
    BY <1>4 DEF Invoke, Checkpoint, Restarted
  <1>5. CASE RunGraph(Worker)
    <2>1. UNCHANGED <<pc, comments, task>> /\ pc[Worker] = "graph"
      BY <1>5 DEF RunGraph, Analyse, Consensus, Hitl, Publish, EndGraph, AtPhase
    <2>2. /\ thread'.copies <= 1 /\ mem'[Worker].copies <= 1
          /\ mem'[Worker].phase = "analyse" => mem'[Worker].copies = 0
      <3> USE <2>1 DEF AtPhase, Checkpoint
      <3>1. CASE Analyse(Worker)
        BY <3>1 DEF Analyse, Analysed, GraphStates
      <3>2. CASE Consensus(Worker)
        BY <3>2 DEF Consensus, Decided, AfterConsensus, GraphStates
      <3>3. CASE Hitl(Worker)
        BY <3>3 DEF Hitl, Released, GraphStates
      <3>4. CASE Publish(Worker)
        BY <3>4 DEF Publish, GraphStates
      <3>5. CASE EndGraph(Worker)
        BY <3>5 DEF EndGraph, Ended, GraphStates
      <3> QED
        BY <1>5, <3>1, <3>2, <3>3, <3>4, <3>5 DEF RunGraph
    <2> QED
      BY <2>1, <2>2
  <1>6. CASE InvokeReturns
    BY <1>6 DEF InvokeReturns
  <1>7. CASE Inspect
    BY <1>7 DEF Inspect
  <1>8. CASE PersistFindings
    BY <1>8 DEF PersistFindings
  <1>9. CASE Finish \/ Notify \/ Ack
    BY <1>9 DEF Finish, Notify, Ack
  <1>10. CASE Raise \/ MarkFailed
    BY <1>10 DEF Raise, InTry, MarkFailed
  <1>11. CASE Retry
    <2>1. task.retries >= MaxRetries
      BY <1>11, BoundsAssumption DEF Retry, Undisturbed, BoundsAssumption
    <2> QED
      BY <1>11, <2>1, BoundsAssumption DEF Retry, Undisturbed, BoundsAssumption
  <1> QED
    BY <1>1, <1>2, <1>3, <1>4, <1>5, <1>6, <1>7, <1>8, <1>9, <1>10, <1>11 DEF Attempt

\* Every step keeps the invariant of the first attempt.
LEMMA NextKeepsFirst == FirstInv /\ [Next]_vars => FirstInv'
  <1> SUFFICES ASSUME FirstInv, [Next]_vars, Undisturbed' PROVE FirstParts'
    BY NextKeepsTask DEF FirstInv
  <1>1. TaskInv /\ TypeOK /\ Undisturbed /\ faults' = faults /\ FirstParts
    BY DisturbedStays DEF FirstInv, TaskInv
  <1>2. \A a \in Approvers : ~Approve(a)
    BY <1>1, ApprovalStays DEF Undisturbed
  <1>3. faults \in Nat
    BY <1>1, BoundsAssumption DEF TypeOK, BoundsAssumption
  <1> USE <1>1, Distinct DEF Goto, TypeOK, store, broker, graph, FirstParts
  <1>4. CASE Start
    <2>1. pc'[Worker] = pc[Worker] /\ UNCHANGED <<comments, thread, mem>>
      BY <1>4 DEF Start, StartInsert, StartSend, StartCommit
    <2>2. task'.state \in {"unsent", "queued"} => task.state \in {"unsent", "queued"}
      BY <1>4 DEF Start, StartInsert, StartSend, StartCommit, TaskInv, NothingSent
    <2> QED
      BY <2>1, <2>2
  <1>5. ASSUME NEW c \in Cancellers, Cancel(c) PROVE FirstParts'
    <2>1. pc'[Worker] = pc[Worker] /\ UNCHANGED <<comments, thread, mem, task>>
      BY <1>5 DEF Cancel, CancelLoad, CancelRevoke, CancelCommit
    <2> QED
      BY <2>1
  <1>6. CASE Attempt \/ Raise
    BY <1>6, FirstAttemptKeeps
  <1>7. CASE RevokeArrives
    BY <1>7 DEF RevokeArrives
  <1>8. ~(WorkerCrash \/ WorkerRestart \/ AttemptLost \/ ApiRestart)
    BY <1>3 DEF WorkerCrash, WorkerRestart, AttemptLost, ApiRestart, Fault
  <1>9. CASE UNCHANGED vars
    BY <1>9 DEF vars
  <1> QED
    BY <1>2, <1>4, <1>5, <1>6, <1>7, <1>8, <1>9 DEF Next

\* A review that met no retry, no fault and no approval has its findings stored at most
\* once, whatever the cancel requests do and wherever the attempt ended.
THEOREM FirstStoresOnce == Spec => []FirstAttemptStoresOnce
  <1>1. FirstInv => FirstAttemptStoresOnce
    BY DEF FirstInv, FirstParts, Undisturbed, FirstAttemptStoresOnce
  <1> QED
    BY <1>1, InitFirst, NextKeepsFirst, PTL DEF Spec

-----------------------------------------------------------------------------
(***************************************************************************)
(* The thread.  The worker writes checkpoints over the one it has in       *)
(* memory, so each is a step of ReviewThread from the one before; inside   *)
(* the output node the checkpoint is still the one before the node.        *)
(***************************************************************************)
InOutput ==
    NoApproval /\ pc[Worker] = "graph" /\ mem[Worker].phase = "posted"
        => thread = [mem[Worker] EXCEPT !.phase = "output"]

ThreadInv == RowInv /\ InOutput

\* Nothing runs.
LEMMA InitThread == Init => ThreadInv
  <1>1. Init => pc[Worker] # "graph"
    BY Distinct DEF Init
  <1> QED
    BY <1>1, InitRow DEF ThreadInv, InOutput

\* The worker's graph: what it has in memory moves on, and the checkpoint with it, except
\* inside the output node.
LEMMA WorkerGraphMoves ==
    ASSUME TypeOK, RowParts, InOutput, NoApproval, RunGraph(Worker)
    PROVE  InOutput' /\ (thread' = thread \/ Promised!Next)
  <1>0. /\ Worker \in Executors /\ Worker \notin Approvers /\ mem[Worker] \in GraphStates
        /\ GraphInStep
    BY ProcessesAssumption DEF ProcessesAssumption, Executors, TypeOK, RowParts
  <1> USE <1>0 DEF AtPhase, Checkpoint, TypeOK
  <1>1. CASE Analyse(Worker)
    <2>1. thread = mem[Worker] /\ thread' = Analysed(thread) /\ mem'[Worker] = thread'
      BY <1>1 DEF Analyse, GraphInStep
    <2>2. thread.phase = "analyse" /\ thread'.phase = "consensus"
      BY <1>1, <2>1 DEF Analyse, Analysed, GraphStates
    <2> QED
      BY <2>1, <2>2 DEF InOutput, Promised!Next, Promised!Analyse, Promised!Analysed, Analysed
  <1>2. CASE Consensus(Worker)
    <2>1. PICK risk \in {"low", "high"} :
             thread = mem[Worker] /\ thread' = Decided(thread, risk) /\ mem'[Worker] = thread'
      BY <1>2 DEF Consensus, GraphInStep
    <2>2. thread.phase = "consensus" /\ thread'.phase # "posted"
      BY <1>2, <2>1 DEF Consensus, Decided, AfterConsensus, GraphStates
    <2> QED
      BY <2>1, <2>2
      DEF InOutput, Promised!Next, Promised!Decide, Promised!Decided, Promised!AfterConsensus,
          Decided, AfterConsensus
  <1>3. CASE Hitl(Worker)
    BY <1>3 DEF Hitl, Interrupted
  <1>4. CASE Publish(Worker)
    <2>1. thread = mem[Worker] /\ thread.phase = "output" /\ thread' = thread
          /\ mem'[Worker] = [thread EXCEPT !.phase = "posted"]
      BY <1>4 DEF Publish, GraphInStep
    <2>2. thread = [mem'[Worker] EXCEPT !.phase = "output"]
      BY <2>1 DEF GraphStates
    <2> QED
      BY <2>1, <2>2 DEF InOutput
  <1>5. CASE EndGraph(Worker)
    <2>1. thread = [mem[Worker] EXCEPT !.phase = "output"] /\ thread' = Ended(mem[Worker])
          /\ mem'[Worker] = thread'
      BY <1>5 DEF EndGraph, InOutput
    <2>2. thread.phase = "output" /\ thread'.phase = "ended" /\ thread' = Ended(thread)
      BY <2>1 DEF Ended, GraphStates
    <2> QED
      BY <2>1, <2>2 DEF InOutput, Promised!Next, Promised!End, Promised!Ended, Ended
  <1> QED
    BY <1>1, <1>2, <1>3, <1>4, <1>5 DEF RunGraph

\* Every step keeps the invariant, and moves the thread as promised.
LEMMA NextMoves ==
    ASSUME ThreadInv, [Next]_vars, NoApproval'
    PROVE  InOutput' /\ (thread' = thread \/ Promised!Next)
  <1>1. TypeOK /\ NoApproval /\ RowParts /\ InOutput /\ \A a \in Approvers : ~Approve(a)
    BY ApprovalStays DEF ThreadInv, RowInv, TaskInv
  <1> USE <1>1, Distinct DEF Goto, TypeOK, graph, InOutput
  <1>2. CASE RunGraph(Worker)
    BY <1>2, WorkerGraphMoves
  <1>3. CASE Invoke
    <2>1. thread' = Restarted(thread) /\ mem'[Worker] = thread'
      BY <1>3 DEF Invoke, Checkpoint, Executors
    <2> QED
      BY <2>1 DEF Restarted, Promised!Next, Promised!Restart, Promised!Restarted
  <1>4. ASSUME thread' = thread,
               \/ pc'[Worker] = pc[Worker] /\ mem'[Worker] = mem[Worker]
               \/ pc'[Worker] # "graph"
        PROVE  InOutput' /\ (thread' = thread \/ Promised!Next)
    BY <1>4
  <1>5. ASSUME Attempt, ~RunGraph(Worker), ~Invoke
        PROVE  InOutput' /\ (thread' = thread \/ Promised!Next)
    BY <1>4, <1>5
    DEF Attempt, Receive, Discard, TokenFound, TokenMissing, MarkCollecting, InvokeReturns,
        Inspect, PersistFindings, Finish, Notify, Ack, MarkFailed, Retry
  <1>6. CASE Raise \/ RevokeArrives \/ WorkerCrash \/ WorkerRestart \/ AttemptLost
    BY <1>4, <1>6 DEF Raise, RevokeArrives, WorkerCrash, WorkerRestart, AttemptLost
  <1>7. CASE Start \/ (\E c \in Cancellers : Cancel(c)) \/ UNCHANGED vars
    BY <1>4, <1>7
    DEF Start, StartInsert, StartSend, StartCommit, Cancel, CancelLoad, CancelRevoke,
        CancelCommit, vars
  <1>8. CASE ApiRestart
    BY <1>4, <1>8 DEF ApiRestart, Executors
  <1> QED
    BY <1>1, <1>2, <1>3, <1>5, <1>6, <1>7, <1>8 DEF Next

\* While nobody has approved, every checkpoint is a step of the machine that the workflow
\* implements, for any number of retries, cancel requests and faults.
THEOREM ThreadKeepsPromise == Spec => ThreadAsPromised
  <1>1. ThreadInv /\ [Next]_vars => ThreadInv'
    <2> SUFFICES ASSUME ThreadInv, [Next]_vars PROVE ThreadInv'
      OBVIOUS
    <2>1. RowInv'
      BY NextKeepsRow DEF ThreadInv
    <2>2. InOutput'
      <3>1. CASE NoApproval'
        BY <3>1, NextMoves
      <3>2. CASE ~NoApproval'
        BY <3>2 DEF InOutput
      <3> QED
        BY <3>1, <3>2
    <2> QED
      BY <2>1, <2>2 DEF ThreadInv
  <1>2. ThreadInv /\ [Next]_vars => [NoApproval' => Promised!Next]_thread
    BY NextMoves
  <1> QED
    BY <1>1, <1>2, InitThread, PTL DEF Spec, ThreadAsPromised
=============================================================================
