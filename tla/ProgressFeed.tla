---------------------------- MODULE ProgressFeed ----------------------------
(***************************************************************************)
(* What a review's page knows of the agents.  An agent tells an event by   *)
(* publishing it to a Redis channel and then inserting it in review_logs;  *)
(* either may fail and neither failure is noticed.  The page reads the     *)
(* logs once, when it is mounted, and hears what is published while its    *)
(* WebSocket is subscribed.  It polls the row's status, and every change   *)
(* of the status it has closes the socket and, if the review still runs,   *)
(* opens another: what is published in between is not heard.  Of an event  *)
(* only its agent counts, and whether the agent has told a later one.      *)
(***************************************************************************)
EXTENDS Naturals, Sequences, Bags

CONSTANTS
    Agents,      \* the agents that tell events
    MaxAsks,     \* bound: status requests in flight
    MaxBehind,   \* bound: events on their way to the page
    MaxChances,  \* bound: things that need not happen, failures, slow answers and clicks
    MaxOpens     \* bound: times the page is opened or reloaded

ASSUME FeedAssumption == MaxAsks \in Nat \ {0} /\ MaxBehind \in Nat \ {0}
                         /\ MaxChances \in Nat /\ MaxOpens \in Nat

VARIABLES
    row,      \* pull_requests.status
    told,     \* the agents that have told an event
    telling,  \* those whose event is published and not yet inserted
    log,      \* the newest event of each agent in review_logs
    stream,   \* events on their way through the socket to the page
    sock,     \* the page's WebSocket
    review,   \* the status the page has
    shown,    \* progressLogs: the event the page shows of each agent
    logs,     \* the page's request for the logs
    read,     \* what that request found
    asked,    \* the statuses the answers in flight carry
    error,    \* the page shows its error panel instead of the review
    unheard,  \* history: agents whose latest event this page will not hear live
    live,     \* history: agents this page has heard live
    task_id,  \* pull_requests.task_id has been stored
    control,  \* the broadcast that revokes the task: not sent, sent, or known to the worker
    cancelling, \* the request to cancel that has loaded the row and not yet committed
    approving,  \* the request to approve that has marked the row and is resuming the graph
    answered, \* one of them has been answered, and the page is to ask for the status
    chances, opens

toldVars == <<told, telling, log>>
pageVars == <<sock, stream, review, shown, logs, read, asked, error, unheard, live>>
requestVars == <<task_id, control, cancelling, approving, answered>>
feedVars == <<row, toldVars, pageVars, requestVars, chances, opens>>

Statuses == {"queued", "collecting", "paused_for_review", "resuming", "complete", "failed",
             "cancelled"}

\* ACTIVE_STATUSES, of the statuses a row can have.
Active == {"queued", "collecting", "resuming"}

\* A request: none is under way, or one that its page awaits, or one whose page was left.
Request == {"none", "awaited", "left"}

\* An event: none at all, the latest its agent has told, or an older one.
Events == {"none", "old", "latest"}

Nothing == [a \in Agents |-> "none"]

\* Agent a tells another event.
Aged(f, a) == [f EXCEPT ![a] = IF @ = "latest" THEN "old" ELSE @]

InitFeed ==
    /\ row = "queued" /\ told = {} /\ telling = {} /\ log = Nothing
    /\ sock = "closed" /\ stream = <<>>
    /\ review = "none" /\ shown = Nothing /\ logs = "none" /\ read = Nothing
    /\ asked = EmptyBag /\ error = FALSE
    /\ unheard = {} /\ live = {}
    /\ task_id = FALSE /\ control = "none"
    /\ cancelling = "none" /\ approving = "none" /\ answered = FALSE
    /\ chances = 0 /\ opens = 0

\* Something happens that need not: Redis, Postgres or the network fails, a user clicks, an
\* answer takes longer than the page's timer.
Chance == chances < MaxChances /\ chances' = chances + 1

-----------------------------------------------------------------------------
\* publish_agent_status: publish_progress reaches the sockets that are subscribed; ...
Publish(a) ==
    /\ a \notin telling
    /\ told' = told \cup {a} /\ telling' = telling \cup {a}
    /\ log' = Aged(log, a) /\ shown' = Aged(shown, a) /\ read' = Aged(read, a)
    /\ LET older == [i \in DOMAIN stream |->
                       IF stream[i][1] = a THEN <<a, "old">> ELSE stream[i]] IN
         \/ /\ sock = "subscribed" /\ Len(stream) < MaxBehind
            /\ stream' = Append(older, <<a, "latest">>) /\ unheard' = unheard \ {a}
            /\ UNCHANGED chances
         \/ /\ stream' = older /\ unheard' = unheard \cup {a}
            /\ \/ sock # "subscribed" /\ UNCHANGED chances
               \/ Chance
    /\ UNCHANGED <<row, sock, review, logs, asked, error, live, requestVars, opens>>

\* ... then the row is inserted, or the failure is logged and passed over.
InsertLog(a) ==
    /\ a \in telling /\ telling' = telling \ {a}
    /\ \/ log' = [log EXCEPT ![a] = "latest"] /\ UNCHANGED chances
       \/ Chance /\ UNCHANGED log
    /\ UNCHANGED <<row, told, pageVars, requestVars, opens>>

-----------------------------------------------------------------------------
\* Agents whose latest event is lost with the stream.
Dropped == {a \in Agents : \E i \in DOMAIN stream : stream[i] = <<a, "latest">>}

\* The effect on review.status: the old socket is closed, a new one opened if s is active.
Reconnect(s) ==
    /\ stream' = <<>> /\ unheard' = unheard \cup Dropped
    /\ sock' = IF s \in Active THEN "open" ELSE "closed"

\* review_progress_ws has subscribed to the channel.
Subscribe == sock = "open" /\ sock' = "subscribed"
             /\ UNCHANGED <<row, toldVars, stream, review, shown, logs, read, asked, error,
                            unheard, live, requestVars, chances, opens>>

\* The connection is lost; the page does not open another for the same status.
Break ==
    /\ sock \in {"open", "subscribed"} /\ Chance
    /\ sock' = "broken" /\ stream' = <<>> /\ unheard' = unheard \cup Dropped
    /\ UNCHANGED <<row, toldVars, review, shown, logs, read, asked, error, live, requestVars,
                   opens>>

\* ws.onmessage: the event replaces what the page shows of its agent.
Hear ==
    /\ stream # <<>>
    /\ LET a == Head(stream)[1] IN
         shown' = [shown EXCEPT ![a] = Head(stream)[2]] /\ live' = live \cup {a}
    /\ stream' = Tail(stream)
    /\ UNCHANGED <<row, toldVars, sock, review, logs, read, asked, error, unheard,
                   requestVars, chances, opens>>

\* GET /logs: the rows are read ...
ReadLogs ==
    /\ logs = "asked" /\ logs' = "read" /\ read' = log
    /\ UNCHANGED <<row, toldVars, sock, stream, review, shown, asked, error, unheard, live,
                   requestVars, chances, opens>>

\* Seeded fault: what the logs say replaces what was heard live.
MergeLogs_Overwrite ==
    /\ logs = "read" /\ logs' = "merged"
    /\ shown' = [a \in Agents |-> IF read[a] = "none" THEN shown[a] ELSE read[a]]
    /\ UNCHANGED <<row, toldVars, sock, stream, review, read, asked, error, unheard, live,
                   requestVars, chances, opens>>

\* ... and their answer fills in the agents the page knows nothing of, or never comes.
MergeLogs ==
    /\ logs = "read" /\ logs' = "merged"
    /\ \/ /\ shown' = [a \in Agents |-> IF shown[a] = "none" THEN read[a] ELSE shown[a]]
          /\ UNCHANGED <<read, chances>>
       \/ Chance /\ read' = Nothing /\ UNCHANGED shown
    /\ UNCHANGED <<row, toldVars, sock, stream, review, asked, error, unheard, live, requestVars,
                   opens>>

-----------------------------------------------------------------------------
\* GET /status: the row is read, maybe before the last answer has come.
Ask ==
    /\ BagCardinality(asked) < MaxAsks /\ asked' = asked (+) SetToBag({row})
    /\ IF asked = EmptyBag THEN UNCHANGED chances ELSE Chance

\* Seeded fault: the page stops polling once the review is under way.
Poll_Queued ==
    /\ review = "queued" /\ Ask
    /\ UNCHANGED <<row, toldVars, sock, stream, review, shown, logs, read, error, unheard, live,
                   requestVars, opens>>

\* The timer of 5 seconds, which runs while the status the page has is active.
Poll ==
    /\ review \in Active /\ Ask
    /\ UNCHANGED <<row, toldVars, sock, stream, review, shown, logs, read, error, unheard, live,
                   requestVars, opens>>

\* fetchStatus has its answer.  With a review to look at, it asks for the findings too, and
\* fails if they do.
Answer(s) ==
    /\ BagIn(s, asked) /\ asked' = asked (-) SetToBag({s})
    /\ review' = s
    /\ IF s = review THEN UNCHANGED <<sock, stream, unheard>> ELSE Reconnect(s)
    /\ \/ error' = FALSE /\ UNCHANGED chances
       \/ s \in {"complete", "paused_for_review"} /\ Chance /\ error' = TRUE
    /\ UNCHANGED <<row, toldVars, shown, logs, read, live, requestVars, opens>>

\* The request fails.  If it was the page's first, there is no status to poll for.
AnswerFails(s) ==
    /\ BagIn(s, asked) /\ asked' = asked (-) SetToBag({s})
    /\ Chance /\ error' = TRUE
    /\ UNCHANGED <<row, toldVars, sock, stream, review, shown, logs, read, unheard, live,
                   requestVars, opens>>

\* The page is opened or reloaded: it starts with nothing and asks for the status and the
\* logs.  What it had asked the server for before goes on there.
Left(request) == IF request = "none" THEN "none" ELSE "left"

Open ==
    /\ opens < MaxOpens /\ opens' = opens + 1
    /\ review' = "none" /\ shown' = Nothing /\ error' = FALSE
    /\ asked' = SetToBag({row}) /\ logs' = "asked" /\ read' = Nothing
    /\ sock' = "closed" /\ stream' = <<>>
    /\ unheard' = told /\ live' = {}
    /\ cancelling' = Left(cancelling) /\ approving' = Left(approving) /\ answered' = FALSE
    /\ UNCHANGED <<row, toldVars, task_id, control, chances>>

-----------------------------------------------------------------------------
\* Abort and reject, POST /cancel: the row is loaded, and unless it is at its end the task it
\* names is revoked, by a broadcast that nobody waits for, ...
Cancel ==
    /\ review \in Active \cup {"paused_for_review"} /\ ~error /\ cancelling = "none" /\ Chance
    /\ \/ /\ row \in {"complete", "failed", "cancelled"} /\ answered' = TRUE
          /\ UNCHANGED <<cancelling, control>>
       \/ /\ row \notin {"complete", "failed", "cancelled"} /\ cancelling' = "awaited"
          /\ control' = IF task_id /\ control = "none" THEN "sent" ELSE control
          /\ UNCHANGED answered
    /\ UNCHANGED <<row, toldVars, pageVars, task_id, approving, opens>>

\* ... and the row is cancelled, whatever it says by now.  The event logged with it under the
\* name of System, which no page hears as publish is not awaited, is left out.
Cancelled ==
    /\ cancelling # "none" /\ cancelling' = "none"
    /\ row' = "cancelled" /\ answered' = (answered \/ cancelling = "awaited")
    /\ UNCHANGED <<toldVars, pageVars, task_id, control, approving, chances, opens>>

\* The request ends before it commits: what it has revoked stays revoked.
NotCancelled ==
    /\ cancelling # "none" /\ cancelling' = "none"
    /\ UNCHANGED <<row, toldVars, pageVars, task_id, control, approving, answered, chances, opens>>

\* POST /approve marks the row, whatever it is, ...
Approve ==
    /\ review = "paused_for_review" /\ ~error /\ approving = "none" /\ Chance
    /\ approving' = "awaited" /\ row' = "resuming"
    /\ UNCHANGED <<toldVars, pageVars, task_id, control, cancelling, answered, opens>>

\* ... runs the graph to its end, and completes the row, ...
Approved ==
    /\ approving # "none" /\ approving' = "none"
    /\ row' = "complete" /\ answered' = (answered \/ approving = "awaited")
    /\ UNCHANGED <<toldVars, pageVars, task_id, control, cancelling, chances, opens>>

\* ... or finds the thread not paused, or the graph raises: the row stays as it is, and the
\* page does not ask.
NotApproved ==
    /\ approving # "none" /\ approving' = "none"
    /\ UNCHANGED <<row, toldVars, pageVars, task_id, control, cancelling, answered, chances, opens>>

\* The page has its answer and calls fetchStatus; an answer that is lost never makes it.
AskAgain ==
    /\ answered /\ answered' = FALSE /\ Ask
    /\ UNCHANGED <<row, toldVars, sock, stream, review, shown, logs, read, error, unheard, live,
                   task_id, control, cancelling, approving, opens>>

Requests == Cancel \/ Cancelled \/ NotCancelled \/ Approve \/ Approved \/ NotApproved \/ AskAgain

Page ==
    \/ Subscribe \/ Break \/ Hear \/ ReadLogs \/ MergeLogs \/ Poll \/ Open \/ Requests
    \/ \E s \in Statuses : Answer(s) \/ AnswerFails(s)

-----------------------------------------------------------------------------
FeedTypeOK ==
    /\ row \in Statuses /\ review \in Statuses \cup {"none"}
    /\ log \in [Agents -> Events] /\ shown \in [Agents -> Events]
    /\ read \in [Agents -> Events]
    /\ told \subseteq Agents /\ telling \subseteq told
    /\ stream \in Seq(Agents \X Events)
    /\ sock \in {"closed", "open", "subscribed", "broken"}
    /\ logs \in {"none", "asked", "read", "merged"}
    /\ BagToSet(asked) \subseteq Statuses /\ error \in BOOLEAN
    /\ unheard \subseteq Agents /\ live \subseteq Agents
    /\ task_id \in BOOLEAN /\ control \in {"none", "sent", "known"}
    /\ cancelling \in Request /\ approving \in Request /\ answered \in BOOLEAN
    /\ chances \in 0 .. MaxChances /\ opens \in 0 .. MaxOpens

\* Nothing is on its way to the page.
Quiet == stream = <<>> /\ logs = "merged"

\* Once everything sent has arrived, the page shows of each agent the latest event, unless
\* that event was published where this page could not hear it and the logs could not make
\* up for it: they were read without it, or the page had already heard an older event of
\* the agent, which it does not replace (ReviewDashboard fetchLogs and ws.onmessage).
LossExplained ==
    Quiet => \A a \in told :
        shown[a] # "latest" => a \in unheard /\ (a \in live \/ read[a] # "latest")
=============================================================================
