--------------------------- MODULE ReviewLifecycle ---------------------------
(***************************************************************************)
(* The life of ONE review: the pull_requests row in Postgres, the Celery   *)
(* message of run_review_task, the LangGraph checkpoint of the thread in   *)
(* Redis, and the four kinds of process that touch them:                   *)
(*                                                                         *)
(*   Starter     the POST /reviews/start request                           *)
(*   Worker      the Celery worker that runs run_review_task               *)
(*   Cancellers  POST /reviews/{id}/cancel requests, one element each      *)
(*   Approvers   POST /reviews/{id}/approve requests, one element each     *)
(*                                                                         *)
(* Row, message and thread are all keyed by the review's id, so reviews do *)
(* not share state and one review is the whole story.  A process is cut    *)
(* into one action per commit, checkpoint write or remote call.  The nodes *)
(* of the graph are grouped here by the routing decisions they lead to;    *)
(* ReviewGraph has them one by one.                                        *)
(***************************************************************************)
EXTENDS ThreadPhases

CONSTANTS
    Starter,      \* the start request
    Worker,       \* the Celery worker
    Cancellers,   \* the cancel requests that may arrive
    Approvers,    \* the approve requests that may arrive
    MaxRetries,   \* max_retries of run_review_task
    FaultKinds,   \* the faults of the environment that may happen
    MaxFaults     \* bound: how many of them

ASSUME ProcessesAssumption ==
    /\ Starter # Worker
    /\ Starter \notin Cancellers \cup Approvers
    /\ Worker \notin Cancellers \cup Approvers
    /\ Cancellers \cap Approvers = {}

ASSUME BoundsAssumption == MaxRetries \in Nat /\ MaxFaults \in Nat

ASSUME FaultsAssumption == FaultKinds \subseteq {"crash", "restart", "lost", "api"}

Executors == {Worker} \cup Approvers          \* whoever runs the graph
Requests  == {Starter} \cup Cancellers \cup Approvers
Processes == Requests \cup {Worker}

VARIABLES
    pc,        \* where each process is
    row,       \* the pull_requests row
    comments,  \* how many times the findings were inserted into comments
    loaded,    \* the row as each request's ORM session loaded it
    task,      \* the Celery message: its state and its retry number
    control,   \* the revoke broadcast: "none", "sent" or "known" to the worker
    thread,    \* the latest checkpoint of the review's LangGraph thread
    mem,       \* the graph state each executor holds in memory
    entry,     \* the phase of the checkpoint each approve request resumed from
    faults     \* faults so far

store   == <<row, comments>>
broker  == <<task, control>>
graph   == <<thread, mem, entry>>
vars    == <<pc, store, loaded, broker, graph, faults>>

Statuses == {"absent", "queued", "collecting", "paused_for_review",
             "resuming", "complete", "failed", "cancelled"}
Terminal == {"complete", "failed", "cancelled"}

Rows     == [status : Statuses, task_id : BOOLEAN, error : BOOLEAN, risk : Risks]

PCs == {"idle", "done", "lost",                                    \* any process
        "inserted", "sent",                                        \* Starter
        "loaded", "revoked",                                       \* Cancellers
        "marked", "checked", "returned", "completed", "refused",   \* Approvers
        "token", "mark", "invoke", "graph", "inspect", "persist",  \* Worker
        "finish", "notify", "handler", "retry", "ack"}

NoRow   == [status |-> "absent", task_id |-> FALSE, error |-> FALSE, risk |-> "none"]

Init ==
    /\ pc = [p \in Processes |-> "idle"]
    /\ row = NoRow
    /\ comments = 0
    /\ loaded = [p \in Requests |-> NoRow]
    /\ task = [state |-> "unsent", retries |-> 0]
    /\ control = "none"
    /\ thread = NoGraph
    /\ mem = [e \in Executors |-> NoGraph]
    /\ entry = [a \in Approvers |-> "none"]
    /\ faults = 0

Goto(p, from, to) == pc[p] = from /\ pc' = [pc EXCEPT ![p] = to]
Forget(e) == mem' = [mem EXCEPT ![e] = NoGraph]

-----------------------------------------------------------------------------
(* POST /reviews/start: insert and commit, send the task, commit its id.   *)

StartInsert ==
    /\ Goto(Starter, "idle", "inserted")
    /\ row' = [row EXCEPT !.status = "queued"]
    /\ UNCHANGED <<comments, loaded, broker, graph, faults>>

StartSend ==
    /\ Goto(Starter, "inserted", "sent")
    /\ task' = [task EXCEPT !.state = "queued"]
    /\ UNCHANGED <<store, loaded, control, graph, faults>>

\* The session flushes the one attribute it changed, whatever the row says now.
StartCommit ==
    /\ Goto(Starter, "sent", "done")
    /\ row' = [row EXCEPT !.task_id = TRUE]
    /\ UNCHANGED <<comments, loaded, broker, graph, faults>>

Start == StartInsert \/ StartSend \/ StartCommit

-----------------------------------------------------------------------------
(* POST /reviews/{id}/cancel                                               *)

CancelLoad(c) ==
    /\ row.status # "absent"
    /\ Goto(c, "idle", IF row.status \in Terminal THEN "done" ELSE "loaded")
    /\ loaded' = [loaded EXCEPT ![c].task_id = row.task_id /\ row.status \notin Terminal]
    /\ UNCHANGED <<store, broker, graph, faults>>

\* control.revoke(terminate=True) is a broadcast nobody waits for.
CancelRevoke(c) ==
    /\ Goto(c, "loaded", "revoked")
    /\ control' = IF loaded[c].task_id /\ control = "none" THEN "sent" ELSE control
    /\ loaded' = [loaded EXCEPT ![c] = NoRow]
    /\ UNCHANGED <<store, task, graph, faults>>

CancelCommit(c) ==
    /\ Goto(c, "revoked", "done")
    /\ row' = [row EXCEPT !.status = "cancelled"]
    /\ UNCHANGED <<comments, loaded, broker, graph, faults>>

Cancel(c) == CancelLoad(c) \/ CancelRevoke(c) \/ CancelCommit(c)

-----------------------------------------------------------------------------
(* The graph, run by the worker's ainvoke(initial_state) or by an approve  *)
(* request's ainvoke(None).  A finished super-step is checkpointed, so the *)
(* thread always is what the last executor to write it had in memory.  An  *)
(* executor that is done with what it holds in memory forgets it.          *)

AtPhase(e, ph) == pc[e] = "graph" /\ mem[e].phase = ph

Checkpoint(e, g) ==
    /\ mem' = [mem EXCEPT ![e] = g]
    /\ thread' = g

\* Seeded fault: the agents' findings are added to all that was there before.
Analyse_Accumulates(e) ==
    /\ AtPhase(e, "analyse")
    /\ Checkpoint(e, [Analysed(mem[e]) EXCEPT !.copies = @ + mem[e].copies])
    /\ UNCHANGED <<pc, store, loaded, broker, entry, faults>>

Analyse(e) ==
    /\ AtPhase(e, "analyse")
    /\ Checkpoint(e, Analysed(mem[e]))
    /\ UNCHANGED <<pc, store, loaded, broker, entry, faults>>

Consensus(e) ==
    /\ AtPhase(e, "consensus")
    /\ \E risk \in {"low", "high"} : Checkpoint(e, Decided(mem[e], risk))
    /\ UNCHANGED <<pc, store, loaded, broker, entry, faults>>

\* Seeded fault: the workflow is compiled without interrupt_before.
Interrupted_Never(e) == FALSE

\* interrupt_before=["hitl"] stops every run but one resumed at the pause itself.
Interrupted(e) ==
    /\ mem[e].phase = "hitl"
    /\ e \in Approvers => entry[e] # "hitl"

Hitl(e) ==
    /\ AtPhase(e, "hitl") /\ ~Interrupted(e)
    /\ Checkpoint(e, Released(mem[e]))
    /\ UNCHANGED <<pc, store, loaded, broker, entry, faults>>

\* The output node's GitHub call; its outcome is swallowed.
Publish(e) ==
    /\ AtPhase(e, "output")
    /\ mem' = [mem EXCEPT ![e].phase = "posted"]
    /\ UNCHANGED <<pc, store, loaded, broker, thread, entry, faults>>

EndGraph(e) ==
    /\ AtPhase(e, "posted")
    /\ Checkpoint(e, Ended(mem[e]))
    /\ UNCHANGED <<pc, store, loaded, broker, entry, faults>>

RunGraph(e) == Analyse(e) \/ Consensus(e) \/ Hitl(e) \/ Publish(e) \/ EndGraph(e)

Returned(e) == pc[e] = "graph" /\ (Interrupted(e) \/ mem[e].phase = "ended")

-----------------------------------------------------------------------------
(* run_review_task in the worker                                           *)

\* Seeded fault: a worker that does not look at the revoked ids.
Receive_Unchecked ==
    /\ task.state = "queued"
    /\ Goto(Worker, "idle", "token")
    /\ task' = [task EXCEPT !.state = "running"]
    /\ UNCHANGED <<store, loaded, control, graph, faults>>

Receive ==
    /\ task.state = "queued" /\ control # "known"
    /\ Goto(Worker, "idle", "token")
    /\ task' = [task EXCEPT !.state = "running"]
    /\ UNCHANGED <<store, loaded, control, graph, faults>>

\* A message whose id the worker knows to be revoked is dropped on receipt.
Discard ==
    /\ task.state = "queued" /\ control = "known"
    /\ task' = [task EXCEPT !.state = "done"]
    /\ UNCHANGED <<pc, store, loaded, control, graph, faults>>

TokenFound ==
    /\ Goto(Worker, "token", "mark")
    /\ UNCHANGED <<store, loaded, broker, graph, faults>>

TokenMissing ==
    /\ Goto(Worker, "token", "ack")
    /\ row' = [row EXCEPT !.status = "failed", !.error = TRUE]
    /\ UNCHANGED <<comments, loaded, broker, graph, faults>>

\* Seeded fault: the attempt starts without writing the row.
MarkCollecting_Silent ==
    /\ Goto(Worker, "mark", "invoke")
    /\ UNCHANGED <<store, loaded, broker, graph, faults>>

MarkCollecting ==
    /\ Goto(Worker, "mark", "invoke")
    /\ row' = [row EXCEPT !.status = "collecting"]
    /\ UNCHANGED <<comments, loaded, broker, graph, faults>>

Invoke ==
    /\ Goto(Worker, "invoke", "graph")
    /\ Checkpoint(Worker, Restarted(thread))
    /\ UNCHANGED <<store, loaded, broker, entry, faults>>

InvokeReturns ==
    /\ Returned(Worker)
    /\ Goto(Worker, "graph", "inspect")
    /\ UNCHANGED <<store, loaded, broker, graph, faults>>

\* aget_state reads the thread again: it need not be what ainvoke left.
Inspect ==
    /\ Goto(Worker, "inspect", "persist")
    /\ mem' = [mem EXCEPT ![Worker] = thread]
    /\ UNCHANGED <<store, loaded, broker, thread, entry, faults>>

\* Seeded fault: only a completed run stores its findings.
PersistFindings_CompletedOnly ==
    /\ Goto(Worker, "persist", "finish")
    /\ comments' = comments + IF mem[Worker].phase = "ended" THEN mem[Worker].copies ELSE 0
    /\ UNCHANGED <<row, loaded, broker, graph, faults>>

\* Seeded fault: the paused branch falls through to the one that stores again.
PersistFindings_FallThrough ==
    /\ Goto(Worker, "persist", "finish")
    /\ comments' = comments + IF mem[Worker].phase = "hitl" THEN 2 * mem[Worker].copies
                                                            ELSE mem[Worker].copies
    /\ UNCHANGED <<row, loaded, broker, graph, faults>>

PersistFindings ==
    /\ Goto(Worker, "persist", "finish")
    /\ comments' = comments + mem[Worker].copies
    /\ UNCHANGED <<row, loaded, broker, graph, faults>>

\* The consensus risk, or _compute_risk_score of the findings when there is none.
RiskOf(g) == IF g.risk = "none" THEN {"low", "high"} ELSE {g.risk}

Finish ==
    /\ Goto(Worker, "finish", IF mem[Worker].phase = "ended" THEN "ack" ELSE "notify")
    /\ \E risk \in RiskOf(mem[Worker]) :
          row' = [row EXCEPT !.risk = risk,
                             !.status = IF mem[Worker].phase = "ended"
                                          THEN "complete" ELSE "paused_for_review"]
    /\ Forget(Worker)
    /\ UNCHANGED <<comments, loaded, broker, thread, entry, faults>>

\* The Slack message that a pause is announced with, still inside the try block.
Notify ==
    /\ Goto(Worker, "notify", "ack")
    /\ UNCHANGED <<store, loaded, broker, graph, faults>>

Ack ==
    /\ Goto(Worker, "ack", "idle")
    /\ task' = [task EXCEPT !.state = "done"]
    /\ UNCHANGED <<store, loaded, control, graph, faults>>

\* Any step of the try block may raise, the soft time limit included.
InTry == {"invoke", "graph", "inspect", "persist", "finish", "notify"}

Raise ==
    /\ pc[Worker] \in InTry
    /\ pc' = [pc EXCEPT ![Worker] = "handler"]
    /\ Forget(Worker)
    /\ UNCHANGED <<store, loaded, broker, thread, entry, faults>>

MarkFailed ==
    /\ Goto(Worker, "handler", "retry")
    /\ row' = [row EXCEPT !.status = "failed", !.error = TRUE]
    /\ UNCHANGED <<comments, loaded, broker, graph, faults>>

\* Seeded fault: the retry number is not carried over.
Retry_Uncounted ==
    /\ Goto(Worker, "retry", "idle")
    /\ task' = [task EXCEPT !.state = IF task.retries < MaxRetries THEN "queued" ELSE "done"]
    /\ UNCHANGED <<store, loaded, control, graph, faults>>

\* Seeded fault: max_retries is not looked at.
Retry_Unbounded ==
    /\ Goto(Worker, "retry", "idle")
    /\ task' = [state |-> "queued", retries |-> task.retries + 1]
    /\ UNCHANGED <<store, loaded, control, graph, faults>>

Retry ==
    /\ Goto(Worker, "retry", "idle")
    /\ task' = IF task.retries < MaxRetries
                 THEN [state |-> "queued", retries |-> task.retries + 1]
                 ELSE [task EXCEPT !.state = "done"]
    /\ UNCHANGED <<store, loaded, control, graph, faults>>

\* Seeded fault: revoke without terminate=True.
RevokeArrives_NoTerminate ==
    /\ control = "sent"
    /\ control' = "known"
    /\ UNCHANGED <<pc, store, loaded, task, graph, faults>>

\* The worker hears the broadcast: it remembers the id and kills a running attempt,
\* whose message is not delivered again.
RevokeArrives ==
    /\ control = "sent"
    /\ control' = "known"
    /\ pc' = [pc EXCEPT ![Worker] = "idle"]
    /\ Forget(Worker)
    /\ task' = IF task.state = "running" THEN [task EXCEPT !.state = "done"] ELSE task
    /\ UNCHANGED <<store, loaded, thread, entry, faults>>

Attempt ==
    \/ Receive \/ Discard \/ TokenFound \/ TokenMissing \/ MarkCollecting
    \/ Invoke \/ RunGraph(Worker) \/ InvokeReturns \/ Inspect \/ PersistFindings
    \/ Finish \/ Notify \/ Ack \/ MarkFailed \/ Retry

-----------------------------------------------------------------------------
(* POST /reviews/{id}/approve                                              *)

ApproveLoad(a) ==
    /\ row.status # "absent"
    /\ Goto(a, "idle", "loaded")
    /\ loaded' = [loaded EXCEPT ![a].status = row.status, ![a].risk = row.risk]
    /\ UNCHANGED <<store, broker, graph, faults>>

\* The ORM updates a column only when the new value differs from the loaded one.
Flush(old, new, current) == IF new # old THEN new ELSE current

ApproveMark(a) ==
    /\ Goto(a, "loaded", "marked")
    /\ row' = [row EXCEPT !.status = Flush(loaded[a].status, "resuming", @)]
    /\ loaded' = [loaded EXCEPT ![a].status = "resuming"]
    /\ UNCHANGED <<comments, broker, graph, faults>>

\* aget_state(...).next is empty for a thread that ended or never began: HTTP 400.
ApproveCheck(a) ==
    /\ Goto(a, "marked", IF thread.phase \in {"none", "ended"} THEN "refused" ELSE "checked")
    /\ UNCHANGED <<store, loaded, broker, graph, faults>>

\* ainvoke(None) loads the latest checkpoint once more and runs on from there.
ApproveResume(a) ==
    /\ Goto(a, "checked", "graph")
    /\ mem' = [mem EXCEPT ![a] = thread]
    /\ entry' = [entry EXCEPT ![a] = thread.phase]
    /\ UNCHANGED <<store, loaded, broker, thread, faults>>

ApproveReturns(a) ==
    /\ Returned(a)
    /\ Goto(a, "graph", "returned")
    /\ UNCHANGED <<store, loaded, broker, graph, faults>>

\* An exception out of the graph: HTTP 500.
ApproveRaise(a) ==
    /\ pc[a] \in {"marked", "checked", "graph"}
    /\ pc' = [pc EXCEPT ![a] = "refused"]
    /\ Forget(a)
    /\ loaded' = [loaded EXCEPT ![a] = NoRow]
    /\ UNCHANGED <<store, broker, thread, entry, faults>>

ApproveComplete(a) ==
    /\ Goto(a, "returned", "completed")
    /\ row' = [row EXCEPT !.status = "complete",
                          !.risk = Flush(loaded[a].risk, mem[a].risk, @)]
    /\ Forget(a)
    /\ loaded' = [loaded EXCEPT ![a] = NoRow]
    /\ UNCHANGED <<comments, broker, thread, entry, faults>>

\* generate_artifacts_task.delay: there is one such message per "done" approver.
ApproveDispatch(a) ==
    /\ Goto(a, "completed", "done")
    /\ UNCHANGED <<store, loaded, broker, graph, faults>>

\* Everything the handler does by itself once the request is in.
ApproveHandler(a) ==
    \/ ApproveMark(a) \/ ApproveCheck(a) \/ ApproveResume(a) \/ RunGraph(a)
    \/ ApproveReturns(a) \/ ApproveComplete(a) \/ ApproveDispatch(a)

Approve(a) == ApproveLoad(a) \/ ApproveHandler(a) \/ ApproveRaise(a)

-----------------------------------------------------------------------------
(* Faults of the environment                                               *)

Fault(kind) == kind \in FaultKinds /\ faults < MaxFaults /\ faults' = faults + 1

\* Seeded fault: the message is acknowledged on receipt and dies with the worker.
Requeued_AcksEarly == IF task.state = "running" THEN [task EXCEPT !.state = "done"] ELSE task

Requeued == IF task.state = "running" THEN [task EXCEPT !.state = "queued"] ELSE task

\* The process of the attempt dies: acks_late and reject_on_worker_lost redeliver.
WorkerCrash ==
    /\ Fault("crash")
    /\ task.state = "running"
    /\ task' = Requeued
    /\ pc' = [pc EXCEPT ![Worker] = "idle"]
    /\ Forget(Worker)
    /\ UNCHANGED <<store, loaded, control, thread, entry>>

\* The worker as a whole restarts: it also forgets the ids it knew to be revoked.
WorkerRestart ==
    /\ Fault("restart")
    /\ task' = Requeued
    /\ control' = "none"
    /\ pc' = [pc EXCEPT ![Worker] = "idle"]
    /\ Forget(Worker)
    /\ UNCHANGED <<store, loaded, thread, entry>>

\* The hard time limit, or an exception outside the try block, ends the task
\* for good: it is acknowledged and the row stays as it is.
AttemptLost ==
    /\ Fault("lost")
    /\ task.state = "running"
    /\ task' = [task EXCEPT !.state = "done"]
    /\ pc' = [pc EXCEPT ![Worker] = "idle"]
    /\ Forget(Worker)
    /\ UNCHANGED <<store, loaded, control, thread, entry>>

\* The API server restarts: the requests in flight end where they are.
ApiRestart ==
    /\ Fault("api")
    /\ pc' = [p \in Processes |->
                 IF p = Worker \/ pc[p] \in {"idle", "done", "refused"} THEN pc[p] ELSE "lost"]
    /\ mem' = [e \in Executors |-> IF e = Worker THEN mem[e] ELSE NoGraph]
    /\ loaded' = [p \in Requests |-> NoRow]
    /\ UNCHANGED <<store, broker, thread, entry>>

-----------------------------------------------------------------------------
Next ==
    \/ Start
    \/ Attempt
    \/ Raise
    \/ RevokeArrives
    \/ \E c \in Cancellers : Cancel(c)
    \/ \E a \in Approvers : Approve(a)
    \/ WorkerCrash \/ WorkerRestart \/ AttemptLost \/ ApiRestart

Spec == Init /\ [][Next]_vars

(***************************************************************************)
(* A request that has begun runs on (the event loop schedules it), the     *)
(* worker polls the queue and runs what it received, and a broadcast       *)
(* reaches a connected worker.  Nobody has to send a request.              *)
(***************************************************************************)
Fairness ==
    /\ WF_vars(StartSend \/ StartCommit)
    /\ WF_vars(Attempt)
    /\ WF_vars(RevokeArrives)
    /\ \A c \in Cancellers : WF_vars(CancelRevoke(c) \/ CancelCommit(c))
    /\ \A a \in Approvers : WF_vars(ApproveHandler(a))

FairSpec == Spec /\ Fairness

-----------------------------------------------------------------------------
(* Properties                                                              *)

\* Every variable holds a value of its kind; a checkpoint is never inside the output node.
TypeOK ==
    /\ pc \in [Processes -> PCs]
    /\ row \in Rows
    /\ comments \in Nat
    /\ loaded \in [Requests -> Rows]
    /\ task \in [state : {"unsent", "queued", "running", "done"}, retries : 0 .. MaxRetries]
    /\ control \in {"none", "sent", "known"}
    /\ thread \in GraphStates /\ thread.phase # "posted"
    /\ mem \in [Executors -> GraphStates]
    /\ entry \in [Approvers -> Phases]
    /\ faults \in 0 .. MaxFaults

NoApproval == \A a \in Approvers : pc[a] = "idle"

(***************************************************************************)
(* The gate.  Whatever the worker, redelivered attempts and approve        *)
(* requests do to the thread at the same time, no graph state of a         *)
(* high-risk review gets to the output node or beyond unless some approve  *)
(* request resumed the thread from the human pause itself: an approve that *)
(* came too early and ran the analysis does not count.                     *)
(***************************************************************************)
PastGate(g) == g.risk = "high" /\ g.phase \in {"output", "posted", "ended"}

HighRiskNeedsApproval ==
    (PastGate(thread) \/ \E e \in Executors : PastGate(mem[e]))
        => \E a \in Approvers : entry[a] = "hitl"

\* Two stores agree: while nobody has approved, a row shown as paused has its thread
\* waiting at the human node (so approving it cannot be refused), a row shown as complete
\* has a thread that ran to its end, and either shows the risk that its thread holds,
\* through every crash and redelivery.
RowMatchesThread ==
    NoApproval =>
        /\ row.status = "paused_for_review" => thread.phase = "hitl"
        /\ row.status = "complete" => thread.phase = "ended"
        /\ row.status \in {"paused_for_review", "complete"} => row.risk = thread.risk

\* While nobody has approved, a review shown as paused or complete has all the findings
\* its thread collected in the comments table already, so the page shows them.
FindingsShown ==
    NoApproval /\ row.status \in {"paused_for_review", "complete"}
        => comments >= thread.copies

\* A review that was never retried, redelivered or approved shows each finding once.
FirstAttemptStoresOnce ==
    task.retries = 0 /\ faults = 0 /\ NoApproval => comments <= 1

\* A worker that knows the task to be revoked is not running any attempt of it.
RevokedNeverRuns == control = "known" => task.state # "running"

\* Once the worker knows of the revocation, a cancelled review stays cancelled as long
\* as no approve request touches it: no write of a killed or dropped attempt comes late.
CancelSticks ==
    [][row.status = "cancelled" /\ control = "known" /\ NoApproval
          => row'.status = "cancelled"]_vars

(***************************************************************************)
(* While nobody has approved, the thread moves as ReviewThread promises,   *)
(* and as ReviewGraph is shown to move it, node by node: attempts that are *)
(* killed, crash, are redelivered or retried leave no checkpoint that a    *)
(* single run after another would not have written.                        *)
(***************************************************************************)
Promised == INSTANCE ReviewThread WITH g <- thread

ThreadAsPromised == [][NoApproval' => Promised!Next]_thread

Unattended == \A p \in Cancellers \cup Approvers : pc[p] = "idle"

\* A review nobody touches comes to rest: paused, complete or failed for good, through
\* retries, worker crashes and restarts (not through a hard time limit).
Settles ==
    []Unattended => <>[](row.status \in {"absent", "paused_for_review", "complete", "failed"})

\* Every request is answered and the task leaves the queue, whatever the requests and
\* the attempts do to one another: none of them waits on another.
EverythingEnds ==
    <>[](/\ task.state \in {"unsent", "done"}
         /\ \A p \in Requests : pc[p] \in {"idle", "done", "refused", "lost"})

(***************************************************************************)
(* What the repository says of the program, and the code does not keep.    *)
(***************************************************************************)

\* db/models/pull_request.py: cancelled is "User aborted via API".  A cancel request that
\* was answered leaves a review that comes to rest.
CancelSettles ==
    \A c \in Cancellers :
        (pc[c] = "done") ~> [](row.status \in Terminal)

\* docs/aerp_feature_document.md: Approve is "Workflow resumes. Comments posted to PR."
\* An approve request whose resumption returned has run the thread past its output node.
ApprovedMeansPosted ==
    \A a \in Approvers : pc[a] = "returned" => mem[a].phase = "ended"
=============================================================================
