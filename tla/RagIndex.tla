------------------------------- MODULE RagIndex -------------------------------
(***************************************************************************)
(* Chunking and indexing the context of one review: the collector cuts     *)
(* the diff, the ticket and the document into chunks, and index_chunks     *)
(* embeds them batch by batch and inserts a row for each.  Every INSERT    *)
(* commits by itself and nothing is ever deleted, so what an attempt has   *)
(* stored is there for the attempts after it.  ReviewGraph runs these      *)
(* actions inside its context_collector node.                              *)
(***************************************************************************)
EXTENDS Naturals, SequencesExt

CONSTANTS
    Diff,       \* how many chunks each file of the diff is cut into, file by file
    Ticket,     \* how many the Jira ticket is cut into; 0 if the review names none
    Doc,        \* how many the document is cut into; 0 if the review names none
    BatchSize   \* chunks per embedding request

ASSUME RagAssumption ==
    /\ Diff \in Seq(Nat) /\ Ticket \in Nat /\ Doc \in Nat
    /\ BatchSize \in Nat \ {0}

VARIABLES
    rows,   \* the embeddings table: how many rows each chunk of the review has
    job     \* the collector's progress in its current execution

ragVars == <<rows, job>>

chunk_document(source, part, pieces) ==
    [i \in 1 .. pieces |-> [source |-> source, part |-> part, index |-> i]]

\* One document per file of the diff.
chunk_pr_diff(diff) ==
    FlattenSeq([f \in DOMAIN diff |-> chunk_document("github_pr", f, diff[f])])

all_chunks(jira) ==
    chunk_pr_diff(Diff) \o chunk_document("jira", 0, IF jira THEN Ticket ELSE 0)
                        \o chunk_document("google_doc", 0, Doc)

Chunks == ToSet(all_chunks(TRUE))

NoJob == [at |-> "none", chunks |-> << >>, embedded |-> 0, stored |-> 0]

InitRag == rows = [c \in Chunks |-> 0] /\ job = NoJob

\* The ticket is optional: a Jira failure is logged and the collector goes on without it.
Collect ==
    /\ job.at = "none"
    /\ \E jira \in BOOLEAN :
          job' = [NoJob EXCEPT !.at = "indexing", !.chunks = all_chunks(jira)]
    /\ UNCHANGED rows

BatchEnd == Min({job.embedded + BatchSize, Len(job.chunks)})
Unread   == job.at = "indexing" /\ job.stored = job.embedded /\ job.stored < Len(job.chunks)

Embed ==
    /\ Unread
    /\ job' = [job EXCEPT !.embedded = BatchEnd]
    /\ UNCHANGED rows

\* Seeded fault: the loop goes on with the next batch.
EmbedFails_NextBatch ==
    /\ Unread
    /\ job' = [job EXCEPT !.embedded = BatchEnd, !.stored = BatchEnd]
    /\ UNCHANGED rows

\* index_chunks returns 0; what earlier batches stored stays, and the collector goes on.
EmbedFails ==
    /\ Unread
    /\ job' = [job EXCEPT !.at = "skipped"]
    /\ UNCHANGED rows

\* Seeded fault: an INSERT that fails is logged and passed over.
Insert_Swallowed ==
    /\ job.at = "indexing" /\ job.stored < job.embedded
    /\ job' = [job EXCEPT !.stored = @ + 1]
    /\ rows' \in {rows, [rows EXCEPT ![job.chunks[job.stored + 1]] = @ + 1]}

Insert ==
    /\ job.at = "indexing" /\ job.stored < job.embedded
    /\ job' = [job EXCEPT !.stored = @ + 1]
    /\ rows' = [rows EXCEPT ![job.chunks[job.stored + 1]] = @ + 1]

Indexed ==
    /\ job.at = "indexing" /\ job.stored = Len(job.chunks)
    /\ job' = [job EXCEPT !.at = "indexed"]
    /\ UNCHANGED rows

IndexStep == Embed \/ EmbedFails \/ Insert \/ Indexed

-----------------------------------------------------------------------------
\* Whatever attempts were stopped, retried or gave up on the embedding service, what is
\* stored of a review is stored from the front: a chunk that every attempt collects has
\* at least as many rows as any chunk after it, so a search that can find the ticket or
\* the last file can find the files before them.
IndexInOrder ==
    \A jira \in BOOLEAN : LET chunks == all_chunks(jira) IN
        \A i, j \in DOMAIN chunks :
            i < j /\ chunks[i].source # "jira" => rows[chunks[i]] >= rows[chunks[j]]
=============================================================================
