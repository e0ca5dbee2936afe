------------------------------ MODULE AgentRun ------------------------------
(***************************************************************************)
(* The specialist agents at work in the passes of a review task, telling   *)
(* what they do on the progress feed.  An agent reasons, calls the search  *)
(* tool, and asks the model for its report up to three times.  Whatever    *)
(* fails on the way ends it with an empty report, and its node tells       *)
(* "complete" all the same.                                                *)
(***************************************************************************)
EXTENDS ProgressFeed

CONSTANTS
    MaxCalls,    \* tool calls of one agent that are carried out ([:5])
    MaxTries,    \* times the model is asked for the report (range(3))
    MaxPasses    \* bound: times the task runs

ASSUME RunAssumption == MaxCalls \in Nat /\ MaxTries \in Nat \ {0}
                        /\ MaxPasses \in Nat \ {0}

VARIABLES
    task,      \* the review's Celery task: not sent, waiting for a worker, in its work, or ended
    passes,
    at,        \* where each agent is
    selected,  \* the agents the orchestrator has chosen to run
    calls,     \* tool calls still to carry out
    tries      \* times the model has been asked for the report

runVars == <<task, passes, at, selected, calls, tries>>
vars    == <<feedVars, runVars>>

Idle == [a \in Agents |-> "idle"]
Zero == [a \in Agents |-> 0]

Init ==
    /\ InitFeed
    /\ task = "unsent" /\ passes = 0 /\ selected = {}
    /\ at = Idle /\ calls = Zero /\ tries = Zero

-----------------------------------------------------------------------------
Rest == <<pageVars, requestVars, opens>>
Agenda == <<selected, at, calls, tries>>

\* The task ran to its end, in whatever way; or it will never run (again), whatever the row says.
Ends   == {"over", "refused", "revoked", "lost"}
InWork == {"running", "notifying", "acking"}

\* start_review has committed the row.  It sends the message and stores the id of the task, at
\* once ...
StartSends ==
    /\ task = "unsent" /\ task' = "waiting"
    /\ \/ task_id' = TRUE /\ UNCHANGED chances
       \/ Chance /\ UNCHANGED task_id
    /\ UNCHANGED <<row, toldVars, pageVars, control, cancelling, approving, answered, opens,
                   passes, Agenda>>

\* ... or after others have done something, or never; ...
StartCommits ==
    /\ task \notin {"unsent", "refused"} /\ ~task_id /\ task_id' = TRUE
    /\ UNCHANGED <<row, toldVars, pageVars, control, cancelling, approving, answered, chances,
                   opens, runVars>>

\* ... or the broker refuses the message.
StartFails ==
    /\ task = "unsent" /\ task' = "refused" /\ Chance
    /\ UNCHANGED <<row, toldVars, Rest, passes, Agenda>>

-----------------------------------------------------------------------------
Received == task = "waiting" /\ control # "known"

\* run_review_task begins, for the first time, as a retry or redelivered; the orchestrator
\* chooses its agents.
PassStarts ==
    /\ Received /\ task' = "running" /\ passes' = passes + 1
    /\ row' = "collecting"
    /\ selected' \in SUBSET Agents
    /\ at' = Idle /\ calls' = Zero /\ tries' = Zero
    /\ UNCHANGED <<toldVars, chances, Rest>>

\* It finds no token and returns.
NoToken ==
    /\ Received /\ task' = "over" /\ row' = "failed"
    /\ UNCHANGED <<toldVars, chances, Rest, passes, Agenda>>

\* The agents end with the attempt: none inserts its event any more.
Gone == telling' = {} /\ selected' = {} /\ at' = Idle /\ calls' = Zero /\ tries' = Zero

Stop(next) ==
    /\ task' = next /\ Gone
    /\ UNCHANGED <<told, log, passes, pageVars, task_id, cancelling, approving, answered, opens>>

\* Consensus has the results of all agents, and the thread pauses, which is told on Slack, or
\* has ended.  A thread with an error does not come so far (NoErrorPastOrchestrator).
PassEnds ==
    /\ task = "running" /\ \A a \in Agents : at[a] = "done" /\ a \notin telling
    /\ \/ row' = "paused_for_review" /\ Stop("notifying")
       \/ row' = "complete" /\ Stop("acking")
    /\ UNCHANGED <<control, chances>>

Acks == task \in {"notifying", "acking"} /\ Stop("over") /\ UNCHANGED <<row, control, chances>>

\* Seeded fault: the task is retried without its failure being written.
PassFails_Silent ==
    /\ task \in {"running", "notifying"}
    /\ Stop(IF passes < MaxPasses THEN "waiting" ELSE "over")
    /\ Chance /\ UNCHANGED <<row, control>>

\* The task raises: its row is failed, and while there are retries left it will run again.
PassFails ==
    /\ task \in {"running", "notifying"}
    /\ Stop(IF passes < MaxPasses THEN "waiting" ELSE "over")
    /\ row' = "failed" /\ Chance /\ UNCHANGED control

\* The process of the attempt dies and the message is delivered again; ...
WorkerDies ==
    /\ task \in InWork /\ passes < MaxPasses /\ Stop("waiting") /\ Chance
    /\ UNCHANGED <<row, control>>

\* ... a worker that restarts as a whole has also forgotten what was revoked.
WorkerRestarts ==
    /\ control' = "none" /\ Chance /\ UNCHANGED row
    /\ \/ task \in InWork /\ passes < MaxPasses /\ Stop("waiting")
       \/ task \notin InWork /\ control # "none" /\ Stop(task)

\* The hard time limit, or an exception outside the try block: the row stays as it is.
AttemptLost ==
    /\ Received \/ task \in InWork
    /\ Stop("lost") /\ Chance /\ UNCHANGED <<row, control>>

\* The worker hears of the revocation: whatever the row says by then, it terminates the
\* attempt it is in, whose message is not delivered again, ...
RevokeArrives ==
    /\ control = "sent" /\ control' = "known"
    /\ Stop(IF task \in InWork THEN "revoked" ELSE task) /\ UNCHANGED <<row, chances>>

\* ... and drops a message that names a task it knows to be revoked.
Discard ==
    /\ task = "waiting" /\ control = "known" /\ task' = "revoked"
    /\ UNCHANGED <<feedVars, passes, Agenda>>

-----------------------------------------------------------------------------
Acts(a, where) == task = "running" /\ at[a] = where /\ a \notin telling

Goto(a, where) == at' = [at EXCEPT ![a] = where]

\* The orchestrator node tells of the agents it has not selected.
Skip(a) ==
    /\ Acts(a, "idle") /\ a \notin selected
    /\ Publish(a) /\ Goto(a, "done")
    /\ UNCHANGED <<task, passes, selected, calls, tries>>

\* The agents start once the orchestrator is done.
Start(a) ==
    /\ Acts(a, "idle") /\ a \in selected
    /\ \A b \in Agents \ selected : at[b] = "done" /\ b \notin telling
    /\ Publish(a) /\ Goto(a, "started")
    /\ UNCHANGED <<task, passes, selected, calls, tries>>

Reason(a) ==
    /\ Acts(a, "started") /\ Publish(a) /\ Goto(a, "reasoning")
    /\ UNCHANGED <<task, passes, selected, calls, tries>>

\* Seeded fault: every call the model asks for is carried out.
Think_Uncapped(a) ==
    /\ Acts(a, "reasoning") /\ Goto(a, "calling")
    /\ \E wanted \in 0 .. MaxCalls + 1 : calls' = [calls EXCEPT ![a] = wanted]
    /\ UNCHANGED <<feedVars, task, passes, selected, tries>>

\* The model asks for tool calls; only the first MaxCalls are carried out.
Think(a) ==
    /\ Acts(a, "reasoning") /\ Goto(a, "calling")
    /\ \E wanted \in 0 .. MaxCalls + 1 :
         calls' = [calls EXCEPT ![a] = IF wanted > MaxCalls THEN MaxCalls ELSE wanted]
    /\ UNCHANGED <<feedVars, task, passes, selected, tries>>

CallTool(a) ==
    /\ Acts(a, "calling") /\ calls[a] > 0
    /\ Publish(a) /\ Goto(a, "searching")
    /\ UNCHANGED <<task, passes, selected, calls, tries>>

\* The search tool answers; what it has found does not matter here.
Search(a) ==
    /\ Acts(a, "searching") /\ Goto(a, "calling") /\ calls' = [calls EXCEPT ![a] = @ - 1]
    /\ UNCHANGED <<feedVars, task, passes, selected, tries>>

Compile(a) ==
    /\ Acts(a, "calling") /\ calls[a] = 0
    /\ Publish(a) /\ Goto(a, "parsing")
    /\ UNCHANGED <<task, passes, selected, calls, tries>>

\* The model answers with a report, or with something else and is told so.
Parse(a) ==
    /\ Acts(a, "parsing") /\ tries[a] < MaxTries
    /\ \/ Goto(a, "ended") /\ tries' = [tries EXCEPT ![a] = 0]
       \/ tries' = [tries EXCEPT ![a] = @ + 1] /\ UNCHANGED at
    /\ UNCHANGED <<feedVars, task, passes, selected, calls>>

\* After the last try the report is a fallback without findings.
GiveUp(a) ==
    /\ Acts(a, "parsing") /\ tries[a] = MaxTries /\ Goto(a, "ended")
    /\ tries' = [tries EXCEPT ![a] = 0]
    /\ UNCHANGED <<feedVars, task, passes, selected, calls>>

\* Building the model, reasoning or a search raises: run returns an empty result.
Fails(a) ==
    /\ \E where \in {"started", "reasoning", "searching"} : Acts(a, where)
    /\ Goto(a, "ended") /\ calls' = [calls EXCEPT ![a] = 0]
    /\ UNCHANGED <<feedVars, task, passes, selected, tries>>

\* The node tells that the agent is complete, however it ended.
Complete(a) ==
    /\ Acts(a, "ended") /\ Publish(a) /\ Goto(a, "done")
    /\ UNCHANGED <<task, passes, selected, calls, tries>>

Inserts(a) == InsertLog(a) /\ UNCHANGED runVars

Agent(a) ==
    \/ Skip(a) \/ Start(a) \/ Reason(a) \/ Think(a) \/ CallTool(a) \/ Search(a) \/ Compile(a)
    \/ Parse(a) \/ GiveUp(a) \/ Fails(a) \/ Complete(a) \/ Inserts(a)

Task ==
    \/ StartSends \/ StartFails \/ StartCommits
    \/ PassStarts \/ NoToken \/ PassEnds \/ Acks \/ PassFails
    \/ WorkerDies \/ WorkerRestarts \/ AttemptLost \/ RevokeArrives \/ Discard

Next ==
    \/ Page /\ UNCHANGED runVars
    \/ Task
    \/ \E a \in Agents : Agent(a)

\* The start request goes on to send its message, a worker receives what is sent and goes on
\* with it, the event loop runs the agents on, the page's timer runs, events and answers arrive;
\* nobody has to press a button, nothing has to fail, and no broadcast has to arrive.
Fairness ==
    /\ WF_vars(StartSends \/ PassStarts \/ PassEnds \/ Acks \/ Discard)
    /\ \A a \in Agents : WF_vars(Agent(a))
    /\ WF_vars(Hear /\ UNCHANGED runVars)
    /\ WF_vars((Poll \/ \E s \in Statuses : Answer(s)) /\ UNCHANGED runVars)

Spec == Init /\ [][Next]_vars /\ Fairness

-----------------------------------------------------------------------------
TypeOK ==
    /\ FeedTypeOK
    /\ task \in {"unsent", "waiting"} \cup InWork \cup Ends /\ passes \in 0 .. MaxPasses
    /\ selected \subseteq Agents
    /\ at \in [Agents -> {"idle", "started", "reasoning", "searching", "calling", "parsing",
                          "ended", "done"}]
    /\ calls \in [Agents -> 0 .. MaxCalls] /\ tries \in [Agents -> 0 .. MaxTries]

\* A task that ends by itself leaves no row behind that waits for it, whatever requests have
\* written to the row meanwhile: queued or collecting stands for a task that is still to run
\* or running, or for one that was taken away (run_review_task, every way it returns).
EndedLeavesNoneWaiting ==
    task \in {"notifying", "acking", "over"} => row \notin {"queued", "collecting"}

\* The row is active and nothing that will still happen by itself changes it: an approval has
\* failed or never ends (reviews.py:386), the message was never sent (:80), the attempt ran
\* into the hard limit or raised outside the try block (review_tasks.py:42, :82), or it was
\* revoked, its last write to the row coming after the request's or the request not committing
\* (reviews.py:153, review_tasks.py:90).
Stranded ==
    \/ row = "resuming"
    \/ row \in {"queued", "collecting"} /\ task \in {"refused", "lost", "revoked"}

\* However the model answers the agents, and in whatever order answers, revocations and
\* redeliveries arrive, the page does not stay on an active status, unless the row itself is
\* stranded: the agents come to their ends, each attempt that is not taken away puts the row
\* to rest, and the page polls until it has learnt of it (BaseAgent.run's bounded loops,
\* run_review_task, ReviewDashboard's timer).
ReviewComesToRest == <>[](review \notin Active \/ Stranded)
=============================================================================
