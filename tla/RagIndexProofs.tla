---------------------------- MODULE RagIndexProofs ----------------------------
(***************************************************************************)
(* Proofs about RagIndex, for any diff, ticket and document and any batch  *)
(* size: the order of the chunks, and what a job that stops anywhere       *)
(* leaves in the table.  RagIndex has no behaviour of its own; its steps   *)
(* are taken by ReviewGraph, whose proofs use these.                       *)
(***************************************************************************)
EXTENDS RagIndex, WellFoundedInduction, TLAPS

\* A set of naturals that is not empty has a least element.
LEMMA LeastNatural ==
    ASSUME NEW T \in SUBSET Nat, T # {}
    PROVE  \E n \in T : \A m \in T : n <= m
  <1>1. PICK n \in T : \A m \in T : ~ (<<m, n>> \in OpToRel(<, Nat))
    BY NatLessThanWellFounded, WFMin
  <1>2. \A m \in T : ~ (m < n)
    BY <1>1 DEF OpToRel
  <1> QED
    BY <1>2

\* Induction, over a set: it needs no operator to be instantiated.
LEMMA SetInduction ==
    ASSUME NEW T, 0 \in T, \A n \in Nat : n \in T => n + 1 \in T
    PROVE  \A n \in Nat : n \in T
  <1> DEFINE Out == {n \in Nat : n \notin T}
  <1> SUFFICES ASSUME Out # {} PROVE FALSE
    OBVIOUS
  <1>1. PICK n \in Out : \A m \in Out : n <= m
    BY LeastNatural
  <1>2. n # 0 /\ n \in Nat
    OBVIOUS
  <1>3. n - 1 \in Nat /\ n - 1 \notin Out
    BY <1>1, <1>2
  <1>4. n - 1 \in T /\ (n - 1) + 1 = n
    BY <1>3, <1>2
  <1> QED
    BY <1>3, <1>4

-----------------------------------------------------------------------------
(* The chunks of a review, in the order of the documents they are cut from *)

\* What a chunk can be cut from, and the chunks there can be.
Sources == {"github_pr", "jira", "google_doc"}
Pieces  == [source : Sources, part : Nat, index : Nat]

\* The place of a source in what all_chunks puts one after the other.
Rank(c) == IF c.source = "github_pr" THEN 1 ELSE IF c.source = "jira" THEN 2 ELSE 3

\* Chunk c comes ahead of d: by its source, then its file, then its place in the file.
Before(c, d) ==
    \/ Rank(c) < Rank(d)
    \/ Rank(c) = Rank(d) /\ c.part < d.part
    \/ Rank(c) = Rank(d) /\ c.part = d.part /\ c.index < d.index

\* A sequence of chunks in that order, each of them once.
Ascending(s) == s \in Seq(Pieces) /\ \A i, j \in DOMAIN s : i < j => Before(s[i], s[j])

\* No two chunks are ahead of each other, and none is ahead of itself.
LEMMA BeforeIsStrict ==
    ASSUME NEW c \in Pieces, NEW d \in Pieces
    PROVE  Before(c, d) => ~ Before(d, c) /\ c # d
  BY DEF Before, Rank, Pieces

\* Two ascending sequences make one if all of the first is ahead of all of the second, and
\* it has the chunks of both.
LEMMA AscendingConcat ==
    ASSUME NEW s, NEW t, Ascending(s), Ascending(t),
           \A c \in ToSet(s), d \in ToSet(t) : Before(c, d)
    PROVE  Ascending(s \o t) /\ ToSet(s \o t) = ToSet(s) \cup ToSet(t)
  <1>1. s \o t \in Seq(Pieces) /\ Len(s \o t) = Len(s) + Len(t)
    BY DEF Ascending
  <1>2. \A i \in 1 .. Len(s) : (s \o t)[i] = s[i]
    BY DEF Ascending
  <1>3. \A i \in DOMAIN (s \o t) : i > Len(s) => i - Len(s) \in DOMAIN t /\ (s \o t)[i] = t[i - Len(s)]
    BY DEF Ascending
  <1>4. Ascending(s \o t)
    <2> SUFFICES ASSUME NEW i \in 1 .. Len(s \o t), NEW j \in 1 .. Len(s \o t), i < j
                 PROVE  Before((s \o t)[i], (s \o t)[j])
      BY <1>1 DEF Ascending
    <2>1. CASE j <= Len(s)
      BY <2>1, <1>2 DEF Ascending
    <2>2. CASE i > Len(s)
      BY <2>2, <1>3 DEF Ascending
    <2>3. CASE i <= Len(s) /\ j > Len(s)
      <3>1. (s \o t)[i] \in ToSet(s)
        BY <2>3, <1>2 DEF ToSet, Ascending
      <3>2. (s \o t)[j] \in ToSet(t)
        BY <2>3, <1>1, <1>3 DEF ToSet, Ascending
      <3> QED
        BY <3>1, <3>2
    <2> QED
      BY <2>1, <2>2, <2>3 DEF Ascending
  <1>5. ToSet(s \o t) \subseteq ToSet(s) \cup ToSet(t)
    BY <1>1, <1>2, <1>3 DEF ToSet, Ascending
  <1>6. ToSet(s) \subseteq ToSet(s \o t)
    BY <1>1, <1>2 DEF ToSet, Ascending
  <1>7. \A j \in DOMAIN t : Len(s) + j \in DOMAIN (s \o t) /\ (s \o t)[Len(s) + j] = t[j]
    BY DEF Ascending
  <1>8. ToSet(t) \subseteq ToSet(s \o t)
    BY <1>7 DEF ToSet
  <1> QED
    BY <1>4, <1>5, <1>6, <1>8

\* The chunks of one document ascend, and are all of it (chunk_document).
LEMMA DocumentAscends ==
    ASSUME NEW source \in Sources, NEW part \in Nat, NEW pieces \in Nat,
           NEW s, s = chunk_document(source, part, pieces)
    PROVE  /\ Ascending(s)
           /\ \A c \in ToSet(s) : c \in Pieces /\ c.source = source /\ c.part = part
  <1>1. s \in Seq(Pieces) /\ Len(s) = pieces
    BY DEF chunk_document, Pieces
  <1>2. \A i \in 1 .. pieces : s[i] = [source |-> source, part |-> part, index |-> i]
    BY DEF chunk_document
  <1>3. DOMAIN s = 1 .. pieces
    BY <1>1
  <1>4. Ascending(s)
    <2> SUFFICES ASSUME NEW i \in 1 .. pieces, NEW j \in 1 .. pieces, i < j
                 PROVE  Before(s[i], s[j])
      BY <1>1, <1>3 DEF Ascending
    <2> DEFINE piece(k) == [source |-> source, part |-> part, index |-> k]
    <2>1. s[i] = piece(i) /\ s[j] = piece(j)
      BY <1>2
    <2>2. Before(piece(i), piece(j))
      BY DEF Before, Rank
    <2> HIDE DEF piece
    <2> QED
      BY <2>1, <2>2
  <1> QED
    BY <1>2, <1>3, <1>4 DEF ToSet, Pieces

\* The recursive function that FlattenSeq chooses exists: by induction over its length, as
\* each of its values is made from the one before.
LEMMA FlattenDefined ==
    ASSUME NEW s, NEW n \in Nat
    PROVE  \E f : f = [i \in 1 .. n |-> IF i = 1 THEN s[i] ELSE f[i - 1] \o s[i]]
  <1> DEFINE IsFlat(f, m) == f = [i \in 1 .. m |-> IF i = 1 THEN s[i] ELSE f[i - 1] \o s[i]]
             T == {m \in Nat : \E f : IsFlat(f, m)}
  <1>1. 0 \in T
    <2>1. IsFlat([i \in 1 .. 0 |-> s[i]], 0)
      OBVIOUS
    <2> QED
      BY <2>1
  <1>2. ASSUME NEW m \in Nat, m \in T PROVE m + 1 \in T
    <2>1. PICK f : IsFlat(f, m)
      BY <1>2
    <2> DEFINE h == [i \in 1 .. m + 1 |-> IF i = 1 THEN s[i] ELSE f[i - 1] \o s[i]]
    <2>2. \A i \in 1 .. m : f[i] = IF i = 1 THEN s[i] ELSE f[i - 1] \o s[i]
      BY <2>1
    <2>3. \A i \in 1 .. m : h[i] = f[i]
      BY <2>2
    <2>4. \A i \in 1 .. m + 1 : i # 1 => h[i - 1] = f[i - 1]
      <3> SUFFICES ASSUME NEW i \in 1 .. m + 1, i # 1 PROVE h[i - 1] = f[i - 1]
        OBVIOUS
      <3>1. i - 1 \in 1 .. m
        OBVIOUS
      <3> QED
        BY <3>1, <2>3
    <2>5. IsFlat(h, m + 1)
      BY <2>4
    <2> HIDE DEF h, IsFlat
    <2> QED
      BY <2>5
  <1> HIDE DEF T
  <1>3. n \in T
    BY <1>1, <1>2, SetInduction
  <1> QED
    BY <1>3 DEF T

\* The chunks of a diff, file after file, are one ascending sequence.
LEMMA DiffAscends ==
    ASSUME NEW diff \in Seq(Nat), NEW s, s = chunk_pr_diff(diff)
    PROVE  Ascending(s) /\ \A c \in ToSet(s) : c.source = "github_pr"
  <1> DEFINE docs == [f \in DOMAIN diff |-> chunk_document("github_pr", f, diff[f])]
             n    == Len(diff)
  <1>1. n \in Nat /\ DOMAIN diff = 1 .. n /\ Len(docs) = n /\ s = FlattenSeq(docs)
    BY DEF chunk_pr_diff
  <1>2. CASE n = 0
    <2>1. s = << >>
      BY <1>1, <1>2 DEF FlattenSeq
    <2> QED
      BY <2>1 DEF Ascending, ToSet
  <1>3. CASE n # 0
    <2> DEFINE flat == CHOOSE f : f = [i \in 1 .. n |-> IF i = 1 THEN docs[i]
                                                        ELSE f[i - 1] \o docs[i]]
    <2>1. flat = [i \in 1 .. n |-> IF i = 1 THEN docs[i] ELSE flat[i - 1] \o docs[i]]
      <3> HIDE DEF docs, n
      <3> QED
        BY <1>1, FlattenDefined
    <2>2. s = flat[n]
      BY <1>1, <1>3 DEF FlattenSeq
    <2>3. \A f \in 1 .. n : /\ Ascending(docs[f])
                            /\ \A c \in ToSet(docs[f]) : /\ c \in Pieces /\ c.part = f
                                                         /\ c.source = "github_pr"
      <3> SUFFICES ASSUME NEW f \in 1 .. n
                   PROVE  /\ Ascending(docs[f])
                          /\ \A c \in ToSet(docs[f]) : /\ c \in Pieces /\ c.part = f
                                                       /\ c.source = "github_pr"
        OBVIOUS
      <3>1. docs[f] = chunk_document("github_pr", f, diff[f]) /\ diff[f] \in Nat
        BY <1>1
      <3> HIDE DEF docs, n
      <3> QED
        BY <3>1, DocumentAscends DEF Sources
    <2> HIDE DEF docs, n, flat
    <2> DEFINE Good(i) == /\ Ascending(flat[i])
                          /\ \A c \in ToSet(flat[i]) : /\ c \in Pieces /\ c.part <= i
                                                       /\ c.source = "github_pr"
               T == {i \in Nat : i \in 1 .. n => Good(i)}
    <2>4. 0 \in T
      OBVIOUS
    <2>5. ASSUME NEW i \in Nat, i \in T PROVE i + 1 \in T
      <3> SUFFICES ASSUME i + 1 \in 1 .. n PROVE Good(i + 1)
        OBVIOUS
      <3>1. CASE i = 0
        BY <3>1, <2>1, <2>3, <1>1
      <3>2. CASE i # 0
        <4>1. i \in 1 .. n /\ Good(i)
          BY <3>2, <2>5, <1>1
        <4>2. flat[i + 1] = flat[i] \o docs[i + 1]
          <5>1. i + 1 # 1 /\ (i + 1) - 1 = i
            BY <3>2
          <5> DEFINE rest(k) == IF k = 1 THEN docs[k] ELSE flat[k - 1] \o docs[k]
          <5>2. flat = [k \in 1 .. n |-> rest(k)]
            BY <2>1
          <5>3. rest(i + 1) = flat[i] \o docs[i + 1]
            BY <5>1
          <5> HIDE DEF rest
          <5> QED
            BY <5>2, <5>3
        <4>3. \A c \in ToSet(flat[i]), d \in ToSet(docs[i + 1]) : Before(c, d)
          BY <4>1, <2>3 DEF Before, Rank, Pieces
        <4>4. /\ Ascending(flat[i + 1])
              /\ ToSet(flat[i + 1]) = ToSet(flat[i]) \cup ToSet(docs[i + 1])
          BY <4>1, <4>2, <4>3, <2>3, AscendingConcat
        <4>5. \A c \in ToSet(docs[i + 1]) : c \in Pieces /\ c.part = i + 1 /\ c.source = "github_pr"
          BY <2>3
        <4>6. \A c \in Pieces : c.part <= i => c.part <= i + 1
          BY DEF Pieces
        <4> QED
          BY <4>1, <4>4, <4>5, <4>6 DEF Pieces
      <3> QED
        BY <3>1, <3>2
    <2> HIDE DEF Good
    <2>6. n \in T
      <3> HIDE DEF T
      <3> QED
        BY <2>4, <2>5, <1>1, SetInduction
    <2>7. Good(n)
      BY <2>6, <1>1, <1>3
    <2> QED
      BY <2>7, <2>2 DEF Good
  <1> QED
    BY <1>2, <1>3

\* What the collector indexes is one ascending sequence, with the ticket or without, and is
\* made up of all chunks there are, or of all but the ticket's.
LEMMA ChunksAscend ==
    /\ Ascending(all_chunks(TRUE)) /\ Ascending(all_chunks(FALSE))
    /\ ToSet(all_chunks(TRUE)) = Chunks /\ Chunks \subseteq Pieces
    /\ ToSet(all_chunks(FALSE)) = {c \in Chunks : c.source # "jira"}
  <1> DEFINE diff   == chunk_pr_diff(Diff)
             doc    == chunk_document("google_doc", 0, Doc)
             tick(jira) == chunk_document("jira", 0, IF jira THEN Ticket ELSE 0)
  <1>1. Ascending(diff) /\ \A c \in ToSet(diff) : c \in Pieces /\ c.source = "github_pr"
    BY DiffAscends, RagAssumption DEF RagAssumption, Ascending, ToSet
  <1>2. Ascending(doc) /\ \A c \in ToSet(doc) : c \in Pieces /\ c.source = "google_doc"
    BY DocumentAscends, RagAssumption DEF RagAssumption, Sources
  <1>3. ASSUME NEW jira \in BOOLEAN
        PROVE  /\ Ascending(tick(jira))
               /\ \A c \in ToSet(tick(jira)) : c \in Pieces /\ c.source = "jira"
    BY DocumentAscends, RagAssumption DEF RagAssumption, Sources
  <1>4. ToSet(tick(FALSE)) = {}
    BY DEF chunk_document, ToSet
  <1> HIDE DEF diff, doc, tick
  <1>5. ASSUME NEW jira \in BOOLEAN
        PROVE  /\ Ascending(all_chunks(jira))
               /\ ToSet(all_chunks(jira)) = ToSet(diff) \cup ToSet(tick(jira)) \cup ToSet(doc)
    <2>1. \A c \in ToSet(diff), d \in ToSet(tick(jira)) : Before(c, d)
      BY <1>1, <1>3 DEF Before, Rank
    <2>2. /\ Ascending(diff \o tick(jira))
          /\ ToSet(diff \o tick(jira)) = ToSet(diff) \cup ToSet(tick(jira))
      BY <2>1, <1>1, <1>3, AscendingConcat
    <2>3. \A c \in ToSet(diff \o tick(jira)), d \in ToSet(doc) : Before(c, d)
      BY <2>2, <1>1, <1>2, <1>3 DEF Before, Rank
    <2>4. all_chunks(jira) = (diff \o tick(jira)) \o doc
      BY DEF all_chunks, diff, tick, doc
    <2> QED
      BY <2>2, <2>3, <2>4, <1>2, AscendingConcat
  <1> QED
    BY <1>1, <1>2, <1>3, <1>4, <1>5 DEF Chunks

-----------------------------------------------------------------------------
(* What indexing keeps                                                     *)

\* The chunks the current job has stored.
Stored == {job.chunks[i] : i \in 1 .. job.stored}

\* What the collector may index.
Plans == {all_chunks(TRUE), all_chunks(FALSE)}

\* The states the collector's indexing can be in.
Jobs == [at : {"none", "indexing", "indexed", "skipped"},
         chunks : {<< >>} \cup Plans,
         embedded : Nat, stored : Nat]

\* Types, and how far a job has got: nothing is stored that has not been embedded, nothing
\* embedded that is not there, and an indexed job has stored everything.
RagType ==
    /\ rows \in [Chunks -> Nat] /\ job \in Jobs
    /\ job.stored <= job.embedded /\ job.embedded <= Len(job.chunks)
    /\ job.at = "none" => job.stored = 0
    /\ job.at = "indexing" => job.chunks \in Plans
    /\ job.at = "indexed" => job.stored = Len(job.chunks)

\* A chunk that the job has stored is a row ahead of every later one it has not.
RowsInv ==
    \A c, d \in Chunks :
        c.source # "jira" /\ Before(c, d) =>
            rows[c] >= rows[d] + IF c \in Stored /\ d \notin Stored THEN 1 ELSE 0

\* The invariant of the index: a chunk that the job has stored has a row.
RagInv == RagType /\ RowsInv /\ \A c \in Stored : rows[c] > 0

\* No chunk has more than n rows, and what the job may still store has fewer.
AtMost(n) == \A c \in Chunks : rows[c] <= n /\ (c \notin Stored => rows[c] < n)

\* The chunks of a job ascend, and those stored are among all chunks.
LEMMA ChunksInSeq ==
    RagType => /\ job.chunks \in Seq(Chunks) /\ Len(job.chunks) \in Nat
               /\ Ascending(job.chunks) /\ Stored \subseteq Chunks
  <1> SUFFICES ASSUME RagType
               PROVE  /\ job.chunks \in Seq(Chunks) /\ Len(job.chunks) \in Nat
                      /\ Ascending(job.chunks) /\ Stored \subseteq Chunks
    OBVIOUS
  <1>1. Ascending(<< >>) /\ ToSet(<< >>) = {}
    BY DEF Ascending, ToSet
  <1>2. Ascending(job.chunks) /\ ToSet(job.chunks) \subseteq Chunks
    BY <1>1, ChunksAscend DEF RagType, Jobs, Plans
  <1>3. job.chunks \in Seq(Pieces) /\ Len(job.chunks) \in Nat
    BY <1>2 DEF Ascending
  <1>4. \A i \in 1 .. Len(job.chunks) : job.chunks[i] \in Chunks
    BY <1>2, <1>3 DEF ToSet
  <1>5. job.chunks \in Seq(Chunks)
    BY <1>3, <1>4
  <1>6. \A i \in 1 .. job.stored : i \in 1 .. Len(job.chunks)
    BY <1>3 DEF RagType, Jobs
  <1> QED
    BY <1>2, <1>3, <1>4, <1>5, <1>6 DEF Stored

\* Insert adds a row to the first chunk the job has not stored, and to no other.
LEMMA InsertStores ==
    ASSUME RagType, Insert, NEW x, x = job.chunks[job.stored + 1]
    PROVE  /\ x \in Chunks /\ x \notin Stored /\ Stored' = Stored \cup {x}
           /\ rows' = [rows EXCEPT ![x] = @ + 1]
           /\ \A c \in Chunks : c.source # "jira" /\ Before(c, x) => c \in Stored
  <1> DEFINE k == job.stored + 1
  <1>1. k \in 1 .. Len(job.chunks) /\ job.stored \in Nat /\ Len(job.chunks) \in Nat
    BY ChunksInSeq DEF RagType, Jobs, Insert
  <1>2. x \in Chunks /\ job.chunks \in Seq(Pieces) /\ Chunks \subseteq Pieces
    BY <1>1, ChunksInSeq, ChunksAscend DEF Ascending
  <1>3. \A i, j \in 1 .. Len(job.chunks) : i < j => Before(job.chunks[i], job.chunks[j])
    BY <1>1, ChunksInSeq DEF Ascending
  <1>4. \A i \in 1 .. job.stored : Before(job.chunks[i], x) /\ job.chunks[i] \in Pieces
    BY <1>1, <1>2, <1>3
  <1>5. x \notin Stored
    BY <1>2, <1>4, BeforeIsStrict DEF Stored
  <1>6. job'.chunks = job.chunks /\ job'.stored = k /\ rows' = [rows EXCEPT ![x] = @ + 1]
    BY DEF Insert, RagType, Jobs
  <1>7. 1 .. k = (1 .. job.stored) \cup {k}
    BY <1>1
  <1>8. Stored' = Stored \cup {x}
    BY <1>6, <1>7 DEF Stored
  <1>9. ASSUME NEW c \in Chunks, c.source # "jira", Before(c, x)
        PROVE  c \in Stored
    <2>1. c \in ToSet(job.chunks)
      BY <1>9, ChunksAscend DEF Insert, RagType, Plans
    <2>2. PICK i \in 1 .. Len(job.chunks) : c = job.chunks[i]
      BY <2>1, <1>1, <1>2 DEF ToSet
    <2>3. ~ (k < i) /\ i # k
      BY <1>1, <1>2, <1>3, <1>9, <2>2, BeforeIsStrict
    <2>4. i \in 1 .. job.stored
      BY <1>1, <2>3
    <2> QED
      BY <2>2, <2>4 DEF Stored
  <1> QED
    BY <1>2, <1>5, <1>6, <1>8, <1>9

\* The smaller of two numbers is one of them and no larger than either.
LEMMA MinOfTwo ==
    ASSUME NEW a \in Nat, NEW b \in Nat
    PROVE  Min({a, b}) \in {a, b} /\ Min({a, b}) <= a /\ Min({a, b}) <= b
  <1>1. \E x \in {a, b} : \A y \in {a, b} : x <= y
    OBVIOUS
  <1> QED
    BY <1>1 DEF Min

\* Nothing is indexed yet.
LEMMA InitRagInv == InitRag => RagInv
  <1> SUFFICES ASSUME InitRag PROVE RagInv
    OBVIOUS
  <1>1. Stored = {}
    BY DEF InitRag, NoJob, Stored
  <1>2. RagType
    BY DEF InitRag, NoJob, RagType, Jobs
  <1> QED
    BY <1>1, <1>2 DEF RagInv, RowsInv, InitRag

\* Forgetting the job, as a new execution of the collector does.
LEMMA ResetRagInv ==
    ASSUME RagInv, job' = NoJob, UNCHANGED rows
    PROVE  RagInv'
  <1>1. Stored' = {}
    BY DEF NoJob, Stored
  <1>2. RagType'
    BY DEF NoJob, RagInv, RagType, Jobs
  <1>3. RowsInv'
    BY <1>1 DEF RagInv, RowsInv, RagType
  <1> QED
    BY <1>1, <1>2, <1>3 DEF RagInv

\* The steps of an indexing keep the invariant, and none gives a chunk more rows than one
\* pass may add.
LEMMA StepRagInv ==
    ASSUME RagInv, Collect \/ IndexStep
    PROVE  /\ RagInv'
           /\ \A n \in Nat : AtMost(n) =>
                \A c \in Chunks : rows'[c] <= n /\ (c \notin Stored' => rows'[c] < n)
  <1>0. RagType
    BY DEF RagInv
  <1>1. CASE Insert
    <2> DEFINE x == job.chunks[job.stored + 1]
    <2>1. /\ x \in Chunks /\ x \notin Stored /\ Stored' = Stored \cup {x}
          /\ rows' = [rows EXCEPT ![x] = @ + 1]
          /\ \A c \in Chunks : c.source # "jira" /\ Before(c, x) => c \in Stored
      BY <1>1, InsertStores DEF RagInv
    <2> HIDE DEF x
    <2>2. RagType'
      <3>1. rows' \in [Chunks -> Nat]
        BY <2>1 DEF RagInv, RagType
      <3>2. job' = [job EXCEPT !.stored = @ + 1] /\ job.at = "indexing" /\ job.stored < job.embedded
        BY <1>1 DEF Insert
      <3>3. /\ job' \in Jobs /\ job'.chunks = job.chunks /\ job'.at = job.at
            /\ job'.embedded = job.embedded /\ job'.stored = job.stored + 1
        <4>1. job \in Jobs /\ job.stored + 1 \in Nat
          <5>1. job \in Jobs
            BY <1>0 DEF RagType
          <5> QED
            BY <5>1 DEF Jobs
        <4> QED
          BY <3>2, <4>1 DEF Jobs
      <3>4. job'.stored <= job'.embedded
        BY <3>2, <3>3 DEF RagInv, RagType, Jobs
      <3> QED
        BY <3>1, <3>2, <3>3, <3>4 DEF RagInv, RagType
    <2>3. rows \in [Chunks -> Nat]
      BY DEF RagInv, RagType
    <2>4. \A c \in Chunks : rows'[c] = IF c = x THEN rows[c] + 1 ELSE rows[c]
      BY <2>1, <2>3
    <2>5. RowsInv'
      <3> SUFFICES ASSUME NEW c \in Chunks, NEW d \in Chunks, c.source # "jira", Before(c, d)
                   PROVE  rows'[c] >= rows'[d] + IF c \in Stored' /\ d \notin Stored' THEN 1 ELSE 0
        BY DEF RowsInv
      <3>1. rows[c] >= rows[d] + IF c \in Stored /\ d \notin Stored THEN 1 ELSE 0
        BY DEF RagInv, RowsInv
      <3>2. c # d
        BY BeforeIsStrict, ChunksAscend
      <3>3. CASE d = x
        BY <3>1, <3>2, <3>3, <2>1, <2>3, <2>4
      <3>4. CASE c = x
        BY <3>1, <3>2, <3>4, <2>1, <2>3, <2>4
      <3>5. CASE c # x /\ d # x
        BY <3>1, <3>5, <2>1, <2>3, <2>4
      <3> QED
        BY <3>3, <3>4, <3>5
    <2>6. \A c \in Stored' : rows'[c] > 0
      BY <2>1, <2>3, <2>4, ChunksInSeq DEF RagInv
    <2>7. \A n \in Nat : AtMost(n) =>
            \A c \in Chunks : rows'[c] <= n /\ (c \notin Stored' => rows'[c] < n)
      BY <2>1, <2>3, <2>4 DEF AtMost
    <2> QED
      BY <2>2, <2>5, <2>6, <2>7 DEF RagInv
  <1>2. CASE Collect \/ Embed \/ EmbedFails \/ Indexed
    <2>1. Stored' = Stored /\ UNCHANGED rows
      <3>1. CASE Collect
        <4>1. job.stored = 0 /\ job'.stored = 0 /\ UNCHANGED rows
          BY <3>1 DEF RagInv, RagType, Collect, NoJob
        <4> QED
          BY <4>1 DEF Stored
      <3>2. CASE Embed \/ EmbedFails \/ Indexed
        <4>1. job'.stored = job.stored /\ job'.chunks = job.chunks /\ UNCHANGED rows
          BY <3>2 DEF RagInv, RagType, Jobs, Embed, EmbedFails, Indexed
        <4> QED
          BY <4>1 DEF Stored
      <3> QED
        BY <1>2, <3>1, <3>2
    <2>2. RagType'
      <3>1. CASE Collect
        <4>1. PICK jira \in BOOLEAN :
                job' = [at |-> "indexing", chunks |-> all_chunks(jira),
                        embedded |-> 0, stored |-> 0]
          BY <3>1 DEF Collect, NoJob
        <4>2. Ascending(all_chunks(jira))
          BY ChunksAscend
        <4>3. Len(all_chunks(jira)) \in Nat
          BY <4>2 DEF Ascending
        <4>4. all_chunks(jira) \in Plans
          BY DEF Plans
        <4>5. rows' = rows
          BY <3>1 DEF Collect
        <4>6. job' \in Jobs
          BY <4>1, <4>4 DEF Jobs
        <4>7. /\ job'.at = "indexing" /\ job'.embedded = 0 /\ job'.stored = 0
              /\ job'.chunks \in Plans
              /\ Len(job'.chunks) \in Nat
          BY <4>1, <4>3, <4>4
        <4> QED
          BY <1>0, <4>5, <4>6, <4>7 DEF RagType
      <3>2. CASE Embed
        <4>1. BatchEnd \in Nat /\ BatchEnd <= Len(job.chunks) /\ job.stored <= BatchEnd
          <5>1. /\ job.embedded \in Nat /\ Len(job.chunks) \in Nat /\ BatchSize \in Nat
                /\ job.stored = job.embedded /\ job.embedded <= Len(job.chunks)
            BY <3>2, ChunksInSeq, RagAssumption
            DEF RagInv, RagType, Jobs, Embed, Unread, RagAssumption
          <5> QED
            BY <5>1, MinOfTwo DEF BatchEnd
        <4> HIDE DEF BatchEnd
        <4> QED
          BY <3>2, <4>1 DEF RagInv, RagType, Jobs, Embed, Unread
      <3>3. CASE EmbedFails
        BY <3>3 DEF RagInv, RagType, Jobs, EmbedFails, Unread
      <3>4. CASE Indexed
        BY <3>4 DEF RagInv, RagType, Jobs, Indexed
      <3> QED
        BY <1>2, <3>1, <3>2, <3>3, <3>4
    <2>3. RowsInv'
      BY <2>1 DEF RagInv, RowsInv
    <2> QED
      BY <2>1, <2>2, <2>3 DEF RagInv, AtMost
  <1> QED
    BY <1>1, <1>2 DEF IndexStep

\* What is stored is stored from the front.
LEMMA RagInOrder == RagInv => IndexInOrder
  <1> SUFFICES ASSUME RagInv, NEW jira \in BOOLEAN, NEW chunks, chunks = all_chunks(jira),
                      NEW i \in DOMAIN chunks, NEW j \in DOMAIN chunks,
                      i < j, chunks[i].source # "jira"
               PROVE  rows[chunks[i]] >= rows[chunks[j]]
    BY DEF IndexInOrder
  <1>1. Ascending(chunks) /\ ToSet(chunks) \subseteq Chunks
    BY ChunksAscend
  <1>2. Before(chunks[i], chunks[j]) /\ chunks[i] \in Chunks /\ chunks[j] \in Chunks
    BY <1>1 DEF Ascending, ToSet
  <1>3. \A c \in Chunks : rows[c] \in Nat
    BY DEF RagInv, RagType
  <1> QED
    BY <1>2, <1>3 DEF RagInv, RowsInv
=============================================================================
