# AERP in TLA+

AERP reviews GitHub pull requests with a team of LLM agents. This directory holds a
verification development of it: TLA+ models translated from the source, TLC runs that
check them on small instances, and TLAPS proofs of the properties that matter most for
instances of every size.

## 1. The system

| Part | Source | State it keeps | Operations |
|---|---|---|---|
| Review API | `backend/api/routes/reviews.py` | `pull_requests` row, `comments`, `review_logs` (Postgres) | start, status, cancel, findings, post a finding, approve, logs, progress socket |
| Review task | `backend/tasks/review_tasks.py`, `celery_app.py` | Celery message in Redis (state, retry number), revoked ids in the worker | `run_review_task`, retry, redelivery, revocation |
| Workflow | `backend/graph/*.py` | LangGraph thread in Redis: channels, next nodes, pending writes | collector, analyser, orchestrator, eight agents, consensus, human node, output |
| Agents | `backend/agents/*.py` | none | tool calls, three parse attempts, fallback |
| Artifacts task | `generate_artifacts_task`, `tools/github_tool.py` | branches and pull requests on GitHub | generate, create branch, files, pull request, retry |
| Sessions | `api/routes/auth.py`, `utils/security.py` | `refresh_tokens`, block list in Redis | login, refresh, logout, password change |
| Connectors | `api/routes/integrations.py`, `ProfileConnectors.jsx` | one row per user and service with its token; state of the page | connect, disconnect, list |
| RAG | `backend/rag/*.py` | `embeddings` | chunk, embed in batches, insert, search |
| Progress feed | `utils/pubsub.py`, the socket, `ReviewDashboard.jsx` | pub/sub channel, `review_logs`, state of the page | publish, persist, subscribe, poll, merge |
| Web pages | `frontend/src` | local storage, React state | forms and views |

How they interact. `POST /reviews/start` commits a row, sends a Celery message and commits
the message's id. The worker runs the graph over the thread whose id is the review's,
stores the agents' findings and writes the row. The graph stops before its human node if
the consensus risk is above 40. `POST /reviews/{id}/approve` runs the *same thread* in the
API process, from its latest checkpoint, then marks the row complete and sends the
artifacts task. `POST /reviews/{id}/cancel` broadcasts a revocation and writes the row. So
one row, one message and one thread are touched by four kinds of process without a lock.

What is hard: those processes interleave at every commit; the checks they make are on a
row or thread that moves on; an attempt may raise, be retried, crash and be redelivered,
be killed by a revocation or by a time limit; the ORM writes only the attributes it thinks
have changed; `agent_findings` only ever grows, also across retries; parallel agents write
one channel, and some of their writes may outlive a run that was stopped.

What makes each part correct:

- *lifecycle*: nothing of a high risk is published without a human; the row tells the truth
  about the thread; a review at rest shows its findings; a cancelled review stays so; a
  review nobody touches comes to rest;
- *workflow*: the fan-in waits for exactly the selected agents, each counted once per pass;
  a review without its pull request does not reach consensus; the run ends;
- *posting*: at most one comment per finding, and a finding marked as posted is on GitHub;
- *artifacts*: an approved review gets its two pull requests;
- *sessions*: a refresh token is good for one new pair, a session that was logged out is over,
  a logged-out access token is refused, up to a gap in the last second of its life; a tab shows
  the user its token is of, and finds its own session after a reload;
- *RAG*: what the agents can search after partial failures and retries;
- *agents*: whatever the model answers, an agent comes to its end;
- *connectors*: overlapping requests act one after the other, without a lock; the page shows what
  there is;
- *progress feed*: the page ends up showing each agent's latest event unless it could not
  have known of it, and learns that the review is at rest, unless its row is stranded.

The hazards, each at its line, are listed in `PROJECT.json`.

## 2. Modules

| Module | What it is |
|---|---|
| `ThreadPhases` | the states of a review's thread as its callers see them, and the operators that move them |
| `ReviewThread` | abstract machine over those states: what the workflow promises |
| `ReviewLifecycle` | one review: row, message, thread, start/cancel/approve requests, worker, faults |
| `MCReviewLifecycle` | instance for TLC |
| `RagIndex` | chunking and indexing of what the collector has fetched |
| `ReviewGraph` | the workflow node by node, with `RagIndex` inside its collector; implements `ReviewThread` |
| `MCReviewGraph` | instance for TLC |
| `FindingPosting` | requests to post one finding to its pull request |
| `Artifacts` | the task that follows an approval |
| `AuthSessions` | the server's side of sessions: login, refresh, logout, token check, clock |
| `AuthPage` | the page's side: tabs and local storage over `AuthSessions`; implements it |
| `MCAuthPage` | instance for TLC |
| `ConnectorRegister` | abstract machine: a register, with the stage of each request |
| `Connectors` | requests that connect and disconnect one service, and the page in its tabs; implements it |
| `MCConnectors` | instance for TLC |
| `ProgressFeed` | events of the agents, log table, socket, and the page that merges them |
| `AgentRun` | the task's passes and the agents in them, over `ProgressFeed` |
| `ReviewLifecycleProofs` | proofs: types, and the gate |
| `ReviewRowProofs` | proofs: revocation, cancellation, row against thread, findings, the first attempt, the thread as promised |
| `RagIndexProofs` | lemmas: what each step of indexing keeps |
| `ReviewGraphProofs` | proofs: types, fan-in, error path, index, and the refinement of `ReviewThread` |
| `AgentRunProofs` | proofs: types with the loop bounds, what the page can miss |
| `ConnectorsProofs` | proofs: types, the register, what a tab shows |
| `FindingPostingProofs` | proofs: types, and what a duplicate comment takes |
| `AuthSessionsProofs` | proofs: sessions on the server, and the page over it |

Definitions named `X_Something` with the comment "Seeded fault" are variants of `X` as a
plausible bug would have it. No specification uses them: each is there to show that a
property fails when `X` is replaced by it.

### ReviewLifecycle

Row, message and thread are keyed by the review's id and no two reviews share any of them,
so one review is modelled. Each process has a program counter `pc[p]`; there is one action
per commit, checkpoint write or remote call, because between two of these anything else
may happen.

| Code | Model |
|---|---|
| `pull_requests` row: `status`, `task_id`, `error`, `risk_score` | `row`; `risk` is `none`, `low` or `high` (above 40) |
| rows of `comments` | `comments`, counted in batches: all findings of one pass of the agents |
| ORM object of a request | `loaded[p]`; `Flush` writes an attribute only if it differs from the loaded one |
| Celery message | `task`: `unsent`, `queued`, `running`, `done`, with `retries` |
| `control.revoke` | `control`: `none`, `sent`, `known` to the worker |
| latest checkpoint | `thread`: phase, batches in `agent_findings` (`copies`), risk |
| state of a running `ainvoke` | `mem[e]`, for the worker and for each approve request |
| `start_review` | `StartInsert`, `StartSend`, `StartCommit` |
| `cancel_review` | `CancelLoad`, `CancelRevoke`, `CancelCommit` |
| `approve_review` | `ApproveLoad`, `ApproveMark`, `ApproveCheck`, `ApproveResume`, the graph, `ApproveReturns`, `ApproveComplete`, `ApproveDispatch`; `ApproveRaise` |
| `run_review_task` | `Receive`, `TokenFound`/`TokenMissing`, `MarkCollecting`, `Invoke`, the graph, `InvokeReturns`, `Inspect`, `PersistFindings`, `Finish`, `Notify`, `Ack`; `Raise`, `MarkFailed`, `Retry` |
| crash, restart, hard limit, revocation | `WorkerCrash`, `WorkerRestart`, `AttemptLost`, `ApiRestart`, `RevokeArrives`, `Discard` |

`entry[a]` is a history variable: the phase of the checkpoint approve request `a` resumed
from (which also decides whether `interrupt_before` lets it through).

Abstractions, each of them deliberate:

- the nodes up to consensus are one step of the thread (`Analyse`); `ReviewGraph` has them
  one by one, and shows that the checkpoints in between change nothing seen here. Pending
  writes saved by a stopped run are not in this module;
- `Invoke` starts `ainvoke` over the thread and writes its first checkpoint in one step;
- a session that reads the row, assigns and commits (`_update_review_status`) is one step:
  nothing is decided from what it read;
- `self.retry` publishes the next message and the worker then acknowledges the old one: one
  step, so a crash between the two, which would leave two messages, is left out;
- a `ReviewLog` insert, `recommendation`, `completed_at` and the posted text decide nothing;
- the `error` branch of the task (`review_tasks.py:153-157`) is not there: `ReviewGraph`
  checks that no run that ends has an error in its state (`NoErrorPastOrchestrator`);
- the findings of a pass are taken to be at least one; a pass without findings stores
  nothing and there is nothing to show.

### ReviewGraph

One variable per thing LangGraph keeps: channels of the latest checkpoint (`ch`), nodes to
run (`next`), results of finished nodes (`writes`). Agents run in any order; `Checkpoint`
merges all writes and follows the edges. `Start` is the worker's `ainvoke(initial_state)`,
`Resume` the approve request's `ainvoke(None)`, `Stop` a crash or kill that saves any subset
of the writes. One run at a time; several at once over one thread are in `ReviewLifecycle`.
The collector takes several steps: `FetchFails` if GitHub does, else `CollectContext` takes the
steps of `RagIndex` and `ContextCollector` returns; it starts over if it is stopped in between.

### RagIndex

`Diff`, `Ticket` and `Doc` say into how many chunks each file of the diff, the ticket and the
document are cut; a chunk is its source, its part and its place. `rows` counts what the
`embeddings` table has of each chunk. `Embed` is one request of at most `BatchSize` chunks,
`EmbedFails` its failure, which the code answers with `return 0`, and `Insert` one `INSERT`,
which commits by itself. A Jira failure is a ticket that is not there (`Collect`). The Google
document is always there: `_fetch_google_doc` returns a text saying that it has none.

### FindingPosting

Any number of `POST /reviews/{id}/findings/{id}/post` requests for one finding. They share
the column `is_posted_to_github`; `made[r]` counts the comments request `r` has made on
GitHub. `Load` is the read with its early return, `Inline` and `General` are the two calls of
`post_single_finding_comment`, `Fail` is the exception that becomes HTTP 500, `Commit` the
write, `Crash` the end of the API server, inside a call or between two steps. A call GitHub
answers is `Told`; a call without an answer is `Untold` and may have taken effect. `amiss` is
a history variable: two requests were in flight at once, or a comment was made that the
server was not told of or did not live to record. The calls of PyGithub block the event loop,
so the finest interleavings need more than one API process; those of `Load` with another
request's calls do not.

### Artifacts

`at[t]` is the place of one dispatch in `generate_artifacts_task`: `GithubToken`, `ReadState`,
`RunAgents` (both agents in one `gather`), `create_pull_request` for the documentation and for
the tests. `Raise` is the handler at the end, with its retries; `Crash` a redelivery.
`generate_documentation` is the set of what that function can come to, which is its
`TypeError` only; what follows it in the task is in the module, and out of reach.

### AuthSessions and AuthPage

A login or refresh issues a *pair*, an access and a refresh token, numbered in order.

| Code | Model |
|---|---|
| row of `refresh_tokens` | `pair[p].row`: `none`, `stored`, `gone`; `owner`; `parent`: the pair it was refreshed from |
| claims of the access token | `pair[p].exp`, in whole seconds |
| key `blocklist:<jti>` in Redis | `pair[p].until`: when it ends, to the part of a second |
| the clock | `sec` and `part` |
| `POST /login`, `/refresh`, `/logout`, `GET /me` | `Login`; `RefreshLoad`, `RefreshCommit`, `RefreshDrop`; `LogoutSend`, `LogoutAuth`, `LogoutDelete`, `LogoutBlock`, `LogoutDrop`; `Me` |
| `AuthProvider`'s state, one tab | `tab[t]`: token, user, loading, an effect due, the `/me` requests in flight, a logout in flight |
| `localStorage` | `store`, shared by the tabs |
| the effect on `token`, `login`, `fetchCurrentUser`, `logout`, `authFetch` | `Effect`, `SignIn`, `MeOk`/`MeRefused`/`MeFails`, `SignOut`/`SignOutReturns`, `FetchRefused` |
| the page is opened or reloaded | `Open` |

`overlapped`, `closed` and `loggedOut` are history variables of the server (pairs whose row a second
request found in use, those whose row a logout deleted, and, in `loggedOut`, those whose access
token a logout has been through with), `astray` and `foreign` of the page (tabs
whose last answer was not about their token, and those whose store another tab wrote to).
Signing in is one step: what the page does after the server's answer is synchronous, and an
answer that is lost leaves a pair nobody has. A refresh row past `expires_at` is refused
without a change. The page itself never refreshes.

### ProgressFeed and AgentRun

Of an event only its agent matters, and whether the agent has told a later one: `log[a]`,
`shown[a]`, `read[a]` and the entries of `stream` are `none`, `old` or `latest`. An action that
tells something includes `Publish(a)`; `InsertLog(a)` follows before the agent goes on, as both
are awaited in one coroutine. `Reconnect` is the effect on the status the page has, which
closes its socket and, for an active status, opens another. `Ask` reads the row and `Answer`
brings what was read to the page, in any order. `AgentRun` adds the task and the agents (`Skip` or
`Start`, `Reason`, `Think`, `CallTool`, `Search`, `Compile`, `Parse`, `GiveUp`, `Fails`,
`Complete`). The row is written by both sides, the task and the page's cancel and approve
requests:

| Code | Model |
|---|---|
| `pull_requests.status`, `task_id` | `row`, `task_id` (stored or not) |
| `start_review`: the message, then `task_id` | `StartSends`, `StartCommits`; `StartFails` if the broker refuses |
| Celery message and attempt | `task`: `unsent`, `waiting`, in its work (`running`, `notifying`, `acking`), or ended (`over`, `refused`, `revoked`, `lost`) |
| `run_review_task` | `PassStarts` or `NoToken`, the agents, `PassEnds`, `Acks`; `PassFails` with its retry |
| redelivery, restart, hard limit | `WorkerDies`, `WorkerRestarts`, `AttemptLost` |
| `cancel_review` | `Cancel` (load, revoke), then `Cancelled` (the row, whatever it says by then) or `NotCancelled` |
| `control.revoke(terminate=True)` | `control`: `none`, `sent`, `known` to the worker; `RevokeArrives` ends the attempt whatever the row says, `Discard` drops a message by its id |
| `approve_review` | `Approve`, then `Approved` or `NotApproved` |
| the page's `fetchStatus` after its answer | `AskAgain` |

One cancel and one approve request are in flight at once, and no second request follows while one
is, from whatever page; that several race each other is in `ReviewLifecycle`. What need not
happen (a failure, a click, a start that stores `task_id` late, a poll while another answer is
still out) is a `Chance`, of which there are `MaxChances`.

### Connectors

One user and one service; the rows of different ones are unrelated. `account` is the row, named
by the request that inserted it and the one whose token it has; `found[r]` is the row that
request `r` has read. `Load` is the lookup, `Insert`, `Update` and `Delete` the commits,
`Conflict` what the unique constraint and the row count of `UPDATE` refuse; a `DELETE` of no row
is only a warning. `tab` is what the page shows, `list` the fetches it waits for, `asker[r]` the
tab that waits for `r`'s answer. `OtherTold` is the fetch that follows a request about another
service. `excused` is a history variable: tabs that were left behind by another page, by an
answer that was lost or by a list that had been overtaken. A 401, which signs the tab out, is in
`AuthPage`.

## 3. Runs

| Run | Instance | Shows |
|---|---|---|
| `review_approval` | 1 approve request, 1 retry, 1 crash, fairness | types; `HighRiskNeedsApproval` with an approval before, during or after the pause, racing the attempts; `Settles`, `EverythingEnds` |
| `review_cancellation` | 2 cancel requests, 2 retries, any 2 faults | row against thread, findings shown, no double storing in a first attempt, revocation, cancellation, the thread moves as `ReviewThread` |
| `review_graph` | 3 agents, 3 invocations, two files and a ticket in batches of 2, fairness | fan-in, error path, what can be searched, `RunEnds`, refinement of `ReviewThread` |
| `auth_sessions` | 2 tabs, 2 users, 2 refresh requests, 3 pairs, 5 requests, seconds of 2 parts, symmetric | types, when a logged-out token is accepted, rotation, logout, the user a tab shows, its store |
| `agent_progress` | 1 agent, 2 passes, 2 tries, 1 tool call, 1 page, 2 chances, fairness | types with the loop bounds, what the page can miss, `EndedLeavesNoneWaiting`, `ReviewComesToRest` |
| `finding_posting` | 4 requests, a finding with a line | types; a duplicate comment has one of the three causes |
| `connectors` | 2 connect and 2 disconnect requests, 1 tab with 2 fetches, other clients, symmetric | types, what the page shows, refinement of `ConnectorRegister` |
| `posted_on_github` | 1 request | violated, see below |
| `cancel_settles` | 1 cancel request | violated, see below |
| `approved_posted` | 1 approve request | violated, see below |
| `posts_final_findings` | as `review_graph` | violated, see below |
| `artifacts_created` | 1 dispatch, 3 retries, nothing fails | violated, see below |

Bounds. `Approvers`: one request already runs the thread beside the task and its retry; that
any number of them cannot pass the gate is proved. `Cancellers`: two race each other, a third
only repeats what the second did. `MaxRetries`: the code has 3; one retry has an attempt before and one after
it, and the second is there to meet a fault in a retried attempt. `MaxFaults`: two faults
reach a crash during the recovery from a crash. `MaxRuns = 3` in `ReviewGraph`: a start, a
resumption and a restart. Four posting requests: two that overlap, one before and one after
them. Three agents: the mandatory one, a selected one, one left out. In `auth_sessions` three
pairs are a login, its refresh and a second login or refresh; a token lives one second, which
puts every event before, in and after its last one. In `agent_progress` one agent is enough for
the feed, since events of different agents are kept apart by their key and the order between
agents is the concern of `review_graph`; the page may be opened at any time, before the task
starts or after it ended, so one opening stands for a reload as well; two passes are an attempt
and its retry or redelivery, two tries a refused report and a repaired one or the fallback. Two
chances meet any two of: a click to cancel, a click to approve, a late `task_id`, a failure, a
crash, a hard limit, a lost answer. So a cancel meets a retry, a redelivery or a restart; a
click to cancel by itself is enough for a revocation that arrives after `collecting` was written.
In `connectors` two requests of each kind are enough for a row that is read, deleted, made anew and
then deleted by the one that read it first, and for a second click; two fetches overtake each
other; one tab is enough, as the other clients do to it all that another tab can.
`CHECK_DEADLOCK FALSE` throughout: a review that is over has no next step.

Fairness. Requests that have begun go on (the event loop schedules their coroutines), a
connected worker polls the queue and runs what it has received, a broadcast reaches it.
Nothing makes a request arrive, an exception or a fault happen, or the human approve.
`Settles` and `EverythingEnds` hold through crashes since `acks_late` and
`reject_on_worker_lost` give the message back; they are checked without the hard time
limit, which really loses the attempt. In `AgentRun` the start request goes on to send its message, the
worker takes it up and ends a pass when the agents have, the event loop runs each agent on, the
page's timer runs, events reach the page and some status answer does; no fairness is assumed of
failures, of a person's clicks, of what the requests to cancel and approve do next, of the
broadcast that revokes, of the request for the logs, nor of a single answer among several.
`ReviewComesToRest` has no premise that a failure does not happen; instead it names, in
`Stranded`, every row on which the page stays active for ever, all of which the run reaches:

- `resuming`: an approval failed or never ended (`reviews.py:386`);
- `queued`, the message never having been sent (`reviews.py:78`);
- `queued`, `collecting`: the attempt ran into the hard limit, or raised outside its try block
  (`review_tasks.py:42`, `:82`);
- `collecting`, the attempt having written it after the request had committed `cancelled`, and
  having been ended then by the revocation (`review_tasks.py:90`, `reviews.py:153`);
- `queued`, `collecting`: the request revoked the task and did not commit.

`EndedLeavesNoneWaiting` is the part of it that safety can say: whenever a task ends by itself,
none of these but `resuming` is left.

### Where code and documentation differ

- `CancelSettles`: a cancel request that comes before `task_id` is stored
  (`reviews.py:87`) revokes nothing and the review goes on over `cancelled`; one whose
  broadcast is slow can lose to `collecting` (`review_tasks.py:90`) and leave the review
  there for ever.
- `ApprovedMeansPosted`: approve is accepted while the analysis runs (`reviews.py:417`); the
  resumption stops at the pause and the review is marked complete with nothing posted.
- `PostsFinalFindings`: the output node reads a key consensus does not write
  (`nodes.py:589`, `consensus_agent.py:114`) and always posts "Everything looks good".
- `ArtifactsCreated`: `generate_documentation` calls `get_file_content` without its token
  (`documentation_agent.py:33` and `:38`, `github_tool.py:236`), so no artifacts task gets to a
  pull request.
- `PostedMeansOnGitHub`: when the general comment fails too, the helper returns the string
  `Error: ...` (`github_tool.py:233`), which the handler takes for a URL and stores as posted
  (`reviews.py:363`).

Without a run of their own:

- `utils/security.py:53-56` blocks a token for the time until it expires, but jose takes it until the
  second it expires in is over, and the block of one that is logged out in that second is not set
  (`security.py:59`): in the rest of that second a logged-out token is accepted (`LogoutHolds`
  says that it is, and that it is at no other time);
- disconnecting deletes the row (`integrations.py:120`), which the comment of `is_active` says
  is kept for audit (`third_party_user_account.py:118`);
- routing looks at the risk score only (`workflow.py:122`), and `Reports` in `ReviewGraph` leaves
  it free of the severities; `docs/aerp_feature_document.md:583` promises a pause for every
  critical or high finding;
- `db/models/review_log.py:7` has a row for an agent that fails; `BaseAgent.run` swallows the
  failure (`base_agent.py:302`) and the node tells `complete` (`Fails` and `Complete` in `AgentRun`);
- `rag/indexer.py:10-12` has agents go on without an embedding service, their searches empty; a
  search embeds its query with the same service (`retriever.py:56`), so it raises, and the agent
  ends without a finding (`Fails`);
- `nodes.py:97` promises to re-raise a GitHub failure, which is returned (`FetchFails`);
- the abort's publication is never awaited (`reviews.py:169`), so no page hears of it.

## 4. Proofs

Assumed are only that the processes are different ones and that the bounds are naturals
(`ProcessesAssumption`, `BoundsAssumption`, `FaultsAssumption`), that `HasLine` is a
Boolean, that a token lives some seconds of some parts (`AuthAssumption`), that the names of the
graph's nodes are no agents' and the agents are finitely many, `CodeReview` among them
(`NamesAssumption`, `AgentsAssumption`), that
sources are cut into natural numbers of chunks and batches are not empty (`RagAssumption`), that
the feed's bounds are naturals and a task may run at least once (`FeedAssumption`,
`RunAssumption`), and that connect and disconnect requests differ and nobody
is neither a request nor a tab (`RequestsAssumption`).
Everything is for any number of requests, retries, faults, tabs, users, pairs, agents, passes,
files and chunks.

| Theorem | Argument |
|---|---|
| `TypeCorrect` | `TypeOK` is inductive, action by action |
| `HighRiskIsApproved` | `GateInv`: besides the gate itself, an approve request that has not resumed yet has no `entry` (`EntryInv`). The gate alone is not inductive: `ApproveResume` writes `entry`, and what it overwrites must not be the `"hitl"` that justifies a thread past the gate. Graph states are only ever copied (thread to memory, memory to thread), restarted or moved; the only move past the gate for a high risk is `Hitl`, and `Interrupted` blocks it for all but a request that resumed at the pause |
| `RevokedIsStopped` | `TaskInv`: the message is running exactly while the worker is inside the task; before it is sent nothing else can happen |
| `CancellationSticks` | the same invariant: a worker that knows the revocation is idle, so no writer of the row is left but approve requests |
| `RowTellsThread`, `FindingsAreShown` | `RowInv`: inside the try block and before `Finish` the row is not at rest; in the graph the worker's memory is the latest checkpoint; after it the thread has stopped, and its findings are stored before the row is put to rest |
| `FirstStoresOnce` | `FirstInv`: while there was no retry, fault or approval, the thread an attempt begins on has no findings, its memory at most one batch, and none is stored before `PersistFindings`. The bound on `comments` alone says nothing of what is about to be stored |
| `ThreadKeepsPromise` | `RowInv` with `InOutput`: inside the output node the checkpoint is still the one before it. So each checkpoint the worker writes is over the one it has in memory, and a step of `ReviewThread` |
| `WorkflowTypes` | `IInv` = `TypeInv` ∧ `StageInv` ∧ `WritesInv` ∧ `RagInv` ∧ `RowsBound`. Its two counters are bounded only with the stages: an agent's findings from before the invocation number fewer than `runs` (`base[a] < runs`), and a chunk has at most one row from each invocation, counting the one the running job has still to store (`RowsBound`, `AtMost`) |
| `FanInIsExact`, `CodeReviewIsIn`, `ErrorsStop` | `StageInv`: every state is at one of five stages (`NotStarted`, `Collecting`, `Preparing`, `Analysing`, `Done`), and the stage fixes which nodes are due and what the channels hold relative to `base`. `WritesInv`: pending writes are of nodes that are due, each one that its node can return, so the writes a stopped run saved are merged once when it resumes |
| `CollectedIsSearchable` | `RagInv` with the stages: once `pr_metadata` is there without an error the job is indexed or was skipped (`JobDone`), an indexed job has stored all its chunks, every chunk the job has stored has a row, and no step removes a row |
| `IndexedFromTheFront` | `RowsInv`: a chunk outside the ticket has at least as many rows as each later one, and one more while the job has stored it and not the later one. Chunks ascend in one order whatever is collected (`ChunksAscend`, stated with `Before` on sets of chunks), so no induction over batches is needed |
| `WorkflowIsThread` | refinement: the stage gives the phase. `Start` restarts, the `Checkpoint` of the last agents analyses, that of consensus decides, that of the human node releases, that of the output ends; every other step stutters |
| `RunTypesHold` | `RunTypes`: a task that waits may still run, an agent that searches has a call to carry out |
| `NoneLeftWaiting` | the same invariant with the property: whoever writes `queued` or `collecting` is the start of the review or a pass, and each way out of `running` that leads to an end by itself writes the row first; requests write neither |
| `LossIsExplained` | `FeedInv`: an event the page was subscribed for is on its way with no later one of its agent behind it, or shown (`HeardOf`); of an agent not heard live the page shows nothing before the logs are merged, and the log's event after (`Unmerged`, `Filled`). `LossExplained` speaks of the moment when nothing is on its way, so alone it is not inductive |
| `ConnectorTypes`, `ConnectorsAreRegister` | refinement: a disconnect request takes effect when the row it read goes, so the commit that deletes a row serves all who had read it, and a later one stutters. That an insertion is nobody's whom a waiting request has read follows from `TypeOK` (only requests that went through are ever read) and `Reads` |
| `PageIsTrue` | `TabsFine`: a tab that was not left behind is right, or a fetch that has not read or has read right is under way, or an answer that will make it ask |
| `PostingTypeCorrect`, `PostedOnce` | `PostInv`: a request that is still to call has made at most as many comments as it has calls behind it (`Budget`), and as long as nothing is amiss there is one request in flight, a comment that exists is recorded or about to be, and a request about to call finds none. `DuplicatesExplained` says nothing of who may still call, so alone it is not inductive |
| `ServerKeepsSessions`, `LoggedOutIsRefused`, `RotationHolds`, `LogoutEndsSession` | `AuthInv`: where requests did not overlap, a row that is still there has no children (`Unspent`), and a refresh that found a row finds it there and is the only one that did (`Held`), so its commit makes the first child. The properties alone are not inductive, since they say nothing of a request between its two steps. A block ends in the second its token expires in (`Ends`), since cutting both times to seconds cancels out, and a token a logout has been through with has a block or has no second left (`Through`); so what is open is the last second, from the part of it in which the block was set |
| `PageUsesServer` | refinement: every step of a tab is a step of the server or leaves its variables alone. `SignOut` needs `PageInv`: what tab and store hold was issued |
| `PageTypes`, `UserIsOwner`, `ReloadIsSafe` | `PageInv`: besides `AuthInv`, the *refresh* token in the store is the tab's even before its effect has run (`StoreKept`); owners of issued pairs never change (`Owners`), which carries what a tab shows over steps of the server |

What the proofs changed in the model: `PhaseOf` of `ReviewGraph` had two true guards of one `CASE`
in the initial state, which TLC resolves in order and the semantics leaves open; its `Return` is an
explicit function, since `@@` says nothing to the provers; and `AgentRun` now assumes that a task
may run once at all, as without it the type invariant is false in the initial state.

Model-checked only: liveness (`Settles`, `EverythingEnds`, `RunEnds`, `ReviewComesToRest`), which is
beyond the prover. Every invariant and every action property of a passing run is proved, and
every refinement.

## 5. Plan

Done: the lifecycle, the workflow with its index, the posting of findings, sessions on the
server and in the page, the agents and their progress feed, the artifacts task, the connectors;
proofs of all their safety properties.

Left, in this order:

1. The safety halves of the other liveness properties, as `EndedLeavesNoneWaiting` is one of
   `ReviewComesToRest`: that no state but the known ones is without a step, stated without `ENABLED`.
2. `_compute_risk_score` against a reference definition.
3. Once the documentation agent can run: two dispatches of the artifacts task over one branch,
   composed with the dispatches of `ReviewLifecycle`.

## 6. Not modelled

The LLM and the remote services (their outcomes are choices in the actions that call them);
how vectors compare; the text of prompts, comments and messages; accounts (registration,
profile, password: one request, one row each); the text of a token and its encryption; the web pages apart
from sign-in, the connectors and the review's own; migrations, scripts and deployment.
