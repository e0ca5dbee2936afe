---------------------------- MODULE FindingPosting ----------------------------
(***************************************************************************)
(* Posting ONE finding of a review to its pull request: any number of      *)
(* POST /reviews/{id}/findings/{id}/post requests, which share the         *)
(* is_posted_to_github column of the finding's row and the comments on     *)
(* GitHub.  The column is read before the GitHub call and written after    *)
(* it, and the call has no idempotency key.                                *)
(***************************************************************************)
EXTENDS Naturals

CONSTANTS
    Posters,   \* the requests that may arrive
    HasLine    \* the finding names a file and a line

ASSUME HasLineAssumption == HasLine \in BOOLEAN

VARIABLES
    pc,                    \* where each request is
    is_posted_to_github,   \* the column of the finding
    made,                  \* the comments each request has made on GitHub
    amiss                  \* history: requests overlapped, or a comment went unnoticed

vars == <<pc, is_posted_to_github, made, amiss>>

PCs == {"idle", "loaded", "fallback", "returned", "posted", "already", "failed", "lost"}

InFlight(r) == pc[r] \in {"loaded", "fallback", "returned"}
Alone(r)    == \A q \in Posters \ {r} : ~InFlight(q)

Init ==
    /\ pc = [r \in Posters |-> "idle"]
    /\ is_posted_to_github = FALSE
    /\ made = [r \in Posters |-> 0]
    /\ amiss = FALSE

Goto(r, from, to) == pc[r] = from /\ pc' = [pc EXCEPT ![r] = to]

-----------------------------------------------------------------------------
\* Seeded fault: the handler does not look at the column.
Load_Unchecked(r) ==
    /\ Goto(r, "idle", "loaded")
    /\ amiss' = (amiss \/ ~Alone(r))
    /\ UNCHANGED <<is_posted_to_github, made>>

Load(r) ==
    /\ Goto(r, "idle", IF is_posted_to_github THEN "already" ELSE "loaded")
    /\ amiss' = (amiss \/ (~is_posted_to_github /\ ~Alone(r)))
    /\ UNCHANGED <<is_posted_to_github, made>>

(***************************************************************************)
(* A call that creates a comment.  Told: GitHub's answer is a comment.     *)
(* Untold: no answer arrives, and the comment may be there all the same.   *)
(***************************************************************************)
Made(r)   == made' = [made EXCEPT ![r] = @ + 1]
Told(r)   == Made(r) /\ UNCHANGED amiss
Untold(r) == UNCHANGED <<made, amiss>> \/ (Made(r) /\ amiss' = TRUE)

\* Seeded fault: the inline call is tried again instead of the general comment.
Inline_Again(r) ==
    /\ HasLine
    /\ \/ Goto(r, "loaded", "returned") /\ Told(r)
       \/ Goto(r, "loaded", "loaded") /\ Untold(r)
    /\ UNCHANGED is_posted_to_github

\* create_review_comment; a GithubException falls through to the general comment.
Inline(r) ==
    /\ HasLine
    /\ \/ Goto(r, "loaded", "returned") /\ Told(r)
       \/ Goto(r, "loaded", "fallback") /\ Untold(r)
    /\ UNCHANGED is_posted_to_github

\* create_issue_comment; a GithubException is returned as a string like any other.
General(r) ==
    /\ Goto(r, IF HasLine THEN "fallback" ELSE "loaded", "returned")
    /\ Told(r) \/ Untold(r)
    /\ UNCHANGED is_posted_to_github

\* An exception of another kind, or one before the calls: HTTP 500, nothing is written.
Fail(r) ==
    /\ Goto(r, "loaded", "failed") \/ Goto(r, "fallback", "failed")
    /\ Untold(r)
    /\ UNCHANGED is_posted_to_github

Commit(r) ==
    /\ Goto(r, "returned", "posted")
    /\ is_posted_to_github' = TRUE
    /\ UNCHANGED <<made, amiss>>

\* The API server dies, perhaps inside a call: a comment may be there that nobody records.
Crash ==
    /\ pc' = [r \in Posters |-> IF InFlight(r) THEN "lost" ELSE pc[r]]
    /\ \/ /\ \E r \in Posters : InFlight(r)
          /\ amiss' = (amiss \/ \E r \in Posters : pc[r] = "returned")
          /\ UNCHANGED made
       \/ \E r \in Posters : pc[r] \in {"loaded", "fallback"} /\ Made(r) /\ amiss' = TRUE
    /\ UNCHANGED is_posted_to_github

Post(r) == Load(r) \/ Inline(r) \/ General(r) \/ Fail(r) \/ Commit(r)

Next == Crash \/ \E r \in Posters : Post(r)

Spec == Init /\ [][Next]_vars

-----------------------------------------------------------------------------
(* Properties                                                              *)

\* Every variable holds a value of its kind; no request makes more than two comments, and
\* two only by an inline call that seemed to fail.
TypeOK ==
    /\ pc \in [Posters -> PCs]
    /\ is_posted_to_github \in BOOLEAN
    /\ made \in [Posters -> 0 .. 2]
    /\ amiss \in BOOLEAN

Duplicated ==
    \E r \in Posters : \/ made[r] > 1
                       \/ \E q \in Posters \ {r} : made[r] > 0 /\ made[q] > 0

\* However often the button is pressed again, after answers, refusals and failures, a
\* finding has one comment at most unless two requests overlapped, or a comment was made
\* that the server did not learn of or did not live to record.
DuplicatesExplained == Duplicated => amiss

\* db/models/comment.py: is_posted_to_github is "TRUE only after the GitHub API call
\* succeeds."
PostedMeansOnGitHub == is_posted_to_github => \E r \in Posters : made[r] > 0
=============================================================================
