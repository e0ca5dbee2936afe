------------------------------- MODULE Artifacts -------------------------------
(***************************************************************************)
(* generate_artifacts_task: what approve_review dispatches.  It reads the  *)
(* approved thread, lets the documentation and the test agent write, and   *)
(* opens a pull request for each.  Every dispatch is a task of its own,    *)
(* and they all name their branches after the review.                      *)
(***************************************************************************)
EXTENDS Naturals

CONSTANTS
    Tasks,       \* the dispatches of one review
    MaxRetries,  \* max_retries of the task
    MaxFaults    \* bound: services that fail, connectors and threads that are missing

VARIABLES
    at,        \* where each task is
    tries,     \* the retries each task has used
    branches,  \* the branches on GitHub, by what they are for
    prs,       \* the pull requests
    faults     \* the faults so far

vars == <<at, tries, branches, prs, faults>>

Kinds == {"docs", "tests"}

Init ==
    /\ at = [t \in Tasks |-> "queued"]
    /\ tries = [t \in Tasks |-> 0]
    /\ branches = {} /\ prs = {} /\ faults = 0

Goto(t, from, to) == at[t] = from /\ at' = [at EXCEPT ![t] = to]
Fault == faults < MaxFaults /\ faults' = faults + 1

(***************************************************************************)
(* An exception anywhere is retried until the retries are used up; the     *)
(* soft time limit is such an exception.                                   *)
(***************************************************************************)
Raise(t, from) ==
    /\ Goto(t, from, IF tries[t] < MaxRetries THEN "queued" ELSE "failed")
    /\ tries' = [tries EXCEPT ![t] = IF @ < MaxRetries THEN @ + 1 ELSE @]
    /\ UNCHANGED <<branches, prs>>

\* The connector of the review's owner.
GithubToken(t) ==
    \/ /\ Goto(t, "queued", "state")
       /\ UNCHANGED <<tries, branches, prs, faults>>
    \/ Fault /\ Raise(t, "queued")

\* A thread that is not there is logged, and the task ends as if it had succeeded.
ReadState(t) ==
    /\ \/ Goto(t, "state", "agents") /\ UNCHANGED faults
       \/ Goto(t, "state", "succeeded") /\ Fault
    /\ UNCHANGED <<tries, branches, prs>>

(***************************************************************************)
(* What generate_documentation can come to.  It calls get_file_content,    *)
(* for the README if for nothing else, with four arguments; that function  *)
(* requires a fifth, github_token, so the call is a TypeError before       *)
(* anything is fetched.  Without it the outcomes would be "files" and, if  *)
(* the answer does not parse, "nothing".                                   *)
(***************************************************************************)
generate_documentation == {"TypeError"}

\* The agents run side by side, and the first exception ends both.
RunAgents(t) ==
    \/ \E docs \in generate_documentation :
          \/ docs = "TypeError" /\ Raise(t, "agents") /\ UNCHANGED faults
          \/ /\ docs # "TypeError"
             /\ Goto(t, "agents", IF docs = "files" THEN "docs" ELSE "tests")
             /\ UNCHANGED <<tries, branches, prs, faults>>
    \/ Fault /\ Raise(t, "agents")

\* Branch, files, pull request; a GithubException, such as that of a branch that exists,
\* is returned as a string nobody looks at, and what was made so far stays.
create_pull_request(t, kind) ==
    /\ Goto(t, kind, IF kind = "docs" THEN "tests" ELSE "succeeded")
    /\ \/ /\ kind \notin branches
          /\ branches' = branches \cup {kind} /\ prs' = prs \cup {kind}
          /\ UNCHANGED faults
       \/ kind \in branches /\ UNCHANGED <<branches, prs, faults>>
       \/ Fault /\ branches' \in {branches, branches \cup {kind}} /\ UNCHANGED prs
    /\ UNCHANGED tries

\* The worker dies: the message of a task that has not ended is delivered again.
Crash(t) ==
    /\ at[t] \in {"state", "agents"} \cup Kinds
    /\ Goto(t, at[t], "queued") /\ Fault
    /\ UNCHANGED <<tries, branches, prs>>

Attempt(t) ==
    \/ GithubToken(t) \/ ReadState(t) \/ RunAgents(t)
    \/ \E kind \in Kinds : create_pull_request(t, kind)

Next == \E t \in Tasks : Attempt(t) \/ Crash(t)

\* A worker goes on with a task it has, and takes one that waits.
Spec == Init /\ [][Next]_vars /\ \A t \in Tasks : WF_vars(Attempt(t))

-----------------------------------------------------------------------------
\* docs/aerp_feature_document.md, of the human's decision: "| **Approve** | Workflow
\* resumes. Comments posted to PR. Doc/Test PRs created. |"  Once the artifacts of an
\* approved review are dispatched and every service answers, the two pull requests are
\* there in the end.
ArtifactsCreated == <>(prs = Kinds)
=============================================================================
