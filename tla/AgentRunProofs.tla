----------------------------- MODULE AgentRunProofs -----------------------------
(***************************************************************************)
(* Proofs about AgentRun and the progress feed under it, for any number of *)
(* agents, tool calls, tries, passes, openings of the page, events on      *)
(* their way and chances.                                                  *)
(***************************************************************************)
EXTENDS AgentRun, SequenceTheorems, TLAPS

-----------------------------------------------------------------------------
(***************************************************************************)
(* The feed.  An event the page was subscribed for is still on its way,    *)
(* with no other event of its agent behind it, or is what the page shows.  *)
(* Of an agent it has not heard live the page shows what the logs said,    *)
(* once it has them, and nothing before.                                   *)
(***************************************************************************)
Comes(a) == \E i \in DOMAIN stream :
                /\ stream[i] = <<a, "latest">>
                /\ \A j \in DOMAIN stream : j > i => stream[j][1] # a
Came(a)  == shown[a] = "latest" /\ \A j \in DOMAIN stream : stream[j][1] # a

HeardOf  == \A a \in told \ unheard : Comes(a) \/ Came(a)
Unmerged == \A a \in Agents \ live : logs # "merged" => shown[a] = "none"
Filled   == \A a \in Agents \ live : logs = "merged" /\ read[a] = "latest" => shown[a] = "latest"

FeedInv == FeedTypeOK /\ HeardOf /\ Unmerged /\ Filled

\* Once nothing is on its way, what the page does not show is explained.
LEMMA FeedExplains == FeedInv => LossExplained
  BY DEF FeedInv, LossExplained, Quiet, HeardOf, Comes, Came, Filled, FeedTypeOK

-----------------------------------------------------------------------------
(* Telling events                                                          *)

\* Aging leaves what is no event of a alone, and ages the others.
LEMMA AgedType ==
    ASSUME NEW a \in Agents, NEW f \in [Agents -> Events], NEW g, g = Aged(f, a)
    PROVE  /\ g \in [Agents -> Events] /\ g[a] # "latest"
           /\ \A b \in Agents : b # a => g[b] = f[b]
           /\ \A b \in Agents : f[b] = "none" <=> g[b] = "none"
  BY DEF Aged, Events

\* An event that is told and heard of is on its way; one that is not is not heard of.  For
\* the other agents nothing changes.
LEMMA PublishFeed ==
    ASSUME FeedInv, NEW a \in Agents, Publish(a)
    PROVE  FeedInv'
  <1> DEFINE older == [i \in DOMAIN stream |->
                         IF stream[i][1] = a THEN <<a, "old">> ELSE stream[i]]
  <1>1. stream \in Seq(Agents \X Events) /\ DOMAIN stream = 1 .. Len(stream) /\ Len(stream) \in Nat
    BY DEF FeedInv, FeedTypeOK
  <1>2. older \in Seq(Agents \X Events) /\ Len(older) = Len(stream) /\ DOMAIN older = DOMAIN stream
    <2>1. \A i \in 1 .. Len(stream) : older[i] \in Agents \X Events
      BY <1>1 DEF Events
    <2>2. older = [i \in 1 .. Len(stream) |-> older[i]]
      BY <1>1
    <2> HIDE DEF older
    <2> QED
      BY <1>1, <2>1, <2>2
  <1>3. \A i \in DOMAIN stream : /\ older[i][1] = stream[i][1]
                                 /\ stream[i][1] # a => older[i] = stream[i]
    BY <1>1
  <1> HIDE DEF older
  <1>4. /\ log' \in [Agents -> Events] /\ shown' \in [Agents -> Events] /\ read' \in [Agents -> Events]
        /\ \A b \in Agents : b # a => shown'[b] = shown[b] /\ read'[b] = read[b]
        /\ read'[a] # "latest" /\ \A b \in Agents : shown[b] = "none" => shown'[b] = "none"
    <2>1. log' = Aged(log, a) /\ shown' = Aged(shown, a) /\ read' = Aged(read, a)
      BY DEF Publish
    <2> QED
      BY <2>1, AgedType DEF FeedInv, FeedTypeOK
  <1>5. /\ told' = told \cup {a} /\ telling' = telling \cup {a}
        /\ UNCHANGED <<row, sock, review, logs, asked, error, live, requestVars,
                       opens>>
    BY DEF Publish
  <1>6. \/ stream' = Append(older, <<a, "latest">>) /\ unheard' = unheard \ {a}
        \/ stream' = older /\ unheard' = unheard \cup {a}
    BY DEF Publish, older
  <1>7. chances' \in 0 .. MaxChances
    BY FeedAssumption DEF FeedAssumption, Publish, Chance, FeedInv, FeedTypeOK
  <1>8. stream' \in Seq(Agents \X Events)
    <2>1. <<a, "latest">> \in Agents \X Events
      BY DEF Events
    <2>2. Append(older, <<a, "latest">>) \in Seq(Agents \X Events)
      BY <2>1, <1>2, AppendProperties
    <2> QED
      BY <2>2, <1>2, <1>6
  <1>9. FeedTypeOK'
    BY <1>4, <1>5, <1>6, <1>7, <1>8 DEF FeedInv, FeedTypeOK, requestVars
  <1>10. HeardOf'
    <2> SUFFICES ASSUME NEW b \in told' \ unheard' PROVE Comes(b)' \/ Came(b)'
      BY DEF HeardOf
    <2>1. b \in Agents
      BY <1>9 DEF FeedTypeOK
    <2>2. CASE b = a
      <3>1. stream' = Append(older, <<a, "latest">>)
        BY <1>6, <2>2
      <3> DEFINE n == Len(stream) + 1
      <3>2. n \in DOMAIN stream' /\ stream'[n] = <<a, "latest">> /\ DOMAIN stream' = 1 .. n
        BY <3>1, <1>1, <1>2
      <3>3. Comes(b)'
        BY <3>2, <2>2, <1>1 DEF Comes
      <3> QED
        BY <3>3
    <2>3. CASE b # a
      <3>1. b \in told \ unheard
        BY <1>5, <1>6, <2>3
      <3>2. /\ \A i \in DOMAIN stream : /\ i \in DOMAIN stream'
                                        /\ stream[i][1] # a => stream'[i] = stream[i]
            /\ \A j \in DOMAIN stream' :
                  \/ stream'[j][1] = a
                  \/ j \in DOMAIN stream /\ stream'[j][1] = stream[j][1]
        <4>1. CASE stream' = older
          BY <4>1, <1>2, <1>3
        <4>2. CASE stream' = Append(older, <<a, "latest">>)
          <5>1. DOMAIN stream' = 1 .. Len(stream) + 1
            BY <4>2, <1>1, <1>2
          <5>2. \A i \in 1 .. Len(stream) : stream'[i] = older[i]
            BY <4>2, <1>1, <1>2
          <5>3. stream'[Len(stream) + 1] = <<a, "latest">>
            BY <4>2, <1>1, <1>2
          <5>4. \A j \in 1 .. Len(stream) + 1 : j \in 1 .. Len(stream) \/ j = Len(stream) + 1
            BY <1>1
          <5> QED
            BY <5>1, <5>2, <5>3, <5>4, <1>1, <1>3
        <4> QED
          BY <1>6, <4>1, <4>2
      <3>3. CASE Comes(b)
        <4>1. PICK i \in DOMAIN stream :
                  /\ stream[i] = <<b, "latest">>
                  /\ \A j \in DOMAIN stream : j > i => stream[j][1] # b
          BY <3>3 DEF Comes
        <4>2. i \in DOMAIN stream' /\ stream'[i] = <<b, "latest">>
          BY <4>1, <3>2, <2>3
        <4>3. \A j \in DOMAIN stream' : j > i => stream'[j][1] # b
          BY <4>1, <3>2, <2>3
        <4> QED
          BY <4>2, <4>3 DEF Comes
      <3>4. CASE Came(b)
        BY <3>4, <3>2, <2>1, <2>3, <1>4 DEF Came
      <3> QED
        BY <3>1, <3>3, <3>4 DEF FeedInv, HeardOf
    <2> QED
      BY <2>2, <2>3
  <1>11. Unmerged' /\ Filled'
    <2>1. \A b \in Agents \ live : logs # "merged" => shown'[b] = "none"
      BY <1>4 DEF FeedInv, Unmerged
    <2>2. \A b \in Agents \ live : logs = "merged" /\ read'[b] = "latest" => shown'[b] = "latest"
      BY <1>4 DEF FeedInv, Filled
    <2> QED
      BY <1>5, <2>1, <2>2 DEF Unmerged, Filled
  <1> QED
    BY <1>9, <1>10, <1>11 DEF FeedInv

\* What concerns the page is left alone.
LEMMA AsideKeepsFeed ==
    ASSUME FeedInv, FeedTypeOK',
           UNCHANGED <<told, stream, shown, read, logs, unheard, live>>
    PROVE  FeedInv'
  BY DEF FeedInv, HeardOf, Comes, Came, Unmerged, Filled

\* Inserting the row, or failing to.
LEMMA InsertFeed ==
    ASSUME FeedInv, NEW a \in Agents, InsertLog(a)
    PROVE  FeedInv'
  <1>1. FeedTypeOK'
    BY FeedAssumption
    DEF FeedAssumption, FeedInv, FeedTypeOK, InsertLog, Chance, pageVars, requestVars, Events
  <1> QED
    BY <1>1, AsideKeepsFeed DEF InsertLog, pageVars

-----------------------------------------------------------------------------
(* The page                                                                *)

\* The bag of answers in flight carries statuses only.
LEMMA AskedTypes ==
    ASSUME BagToSet(asked) \subseteq Statuses, NEW s \in Statuses, NEW other,
           \/ other = asked (+) SetToBag({s}) \/ other = asked (-) SetToBag({s})
           \/ other = SetToBag({s}) \/ other = asked
    PROVE  BagToSet(other) \subseteq Statuses
  <1>1. BagToSet(SetToBag({s})) = {s}
    BY DEF BagToSet, SetToBag
  <1>2. BagToSet(asked (+) SetToBag({s})) = BagToSet(asked) \cup {s}
    BY <1>1 DEF BagToSet, (+)
  <1>3. BagToSet(asked (-) SetToBag({s})) \subseteq BagToSet(asked)
    BY DEF BagToSet, (-)
  <1> QED
    BY <1>1, <1>2, <1>3

\* A socket that is given up takes along what was on its way, and the page remembers whose
\* latest event that was.
LEMMA DropFeed ==
    ASSUME FeedInv, FeedTypeOK', stream' = << >>, unheard' = unheard \cup Dropped,
           UNCHANGED <<told, shown, read, logs, live>>
    PROVE  FeedInv'
  <1>1. HeardOf'
    <2> SUFFICES ASSUME NEW a \in told \ unheard, a \notin Dropped PROVE Came(a)'
      BY DEF HeardOf
    <2>1. a \in Agents /\ ~Comes(a)
      BY DEF FeedInv, FeedTypeOK, Comes, Dropped
    <2>2. Came(a)
      BY <2>1 DEF FeedInv, HeardOf
    <2> QED
      BY <2>2 DEF Came
  <1> QED
    BY <1>1 DEF FeedInv, Unmerged, Filled

\* An event that arrives is shown; it is its agent's latest exactly if none of that agent
\* is behind it.
LEMMA HearFeed == FeedInv /\ Hear => FeedInv'
  <1> SUFFICES ASSUME FeedInv, Hear PROVE FeedInv'
    OBVIOUS
  <1>1. stream \in Seq(Agents \X Events) /\ stream # << >>
    BY DEF FeedInv, FeedTypeOK, Hear
  <1> DEFINE h == Head(stream)
             n == Len(stream)
  <1>2. /\ n \in Nat /\ n > 0 /\ DOMAIN stream = 1 .. n /\ h = stream[1]
        /\ h \in Agents \X Events
    BY <1>1
  <1>3. /\ stream' \in Seq(Agents \X Events) /\ DOMAIN stream' = 1 .. n - 1
        /\ \A i \in 1 .. n - 1 : stream'[i] = stream[i + 1]
    BY <1>1, <1>2 DEF Hear
  <1>4. /\ shown' = [shown EXCEPT ![h[1]] = h[2]] /\ live' = live \cup {h[1]}
        /\ UNCHANGED <<row, toldVars, sock, review, logs, read, asked, error, unheard,
                       requestVars, chances, opens>>
    BY DEF Hear
  <1> HIDE DEF h, n
  <1>5. h[1] \in Agents /\ h[2] \in Events
    BY <1>2
  <1>6. FeedTypeOK'
    BY <1>3, <1>4, <1>5 DEF FeedInv, FeedTypeOK, toldVars, requestVars
  <1>7. HeardOf'
    <2> SUFFICES ASSUME NEW a \in told \ unheard PROVE Comes(a)' \/ Came(a)'
      BY <1>4 DEF HeardOf, toldVars
    <2>1. a \in Agents
      BY DEF FeedInv, FeedTypeOK
    <2>2. CASE Comes(a)
      <3>1. PICK i \in 1 .. n : /\ stream[i] = <<a, "latest">>
                                /\ \A j \in 1 .. n : j > i => stream[j][1] # a
        BY <2>2, <1>2 DEF Comes
      <3>2. CASE i = 1
        <4>1. shown'[a] = "latest"
          BY <3>1, <3>2, <2>1, <1>2, <1>4 DEF FeedInv, FeedTypeOK
        <4>2. \A j \in 1 .. n - 1 : stream'[j][1] # a
          <5> SUFFICES ASSUME NEW j \in 1 .. n - 1 PROVE stream'[j][1] # a
            OBVIOUS
          <5>1. j + 1 \in 1 .. n /\ j + 1 > i
            BY <1>2, <3>2
          <5> QED
            BY <5>1, <3>1, <1>3
        <4> QED
          BY <4>1, <4>2, <1>3 DEF Came
      <3>3. CASE i # 1
        <4>1. i - 1 \in 1 .. n - 1 /\ (i - 1) + 1 = i
          BY <3>3, <1>2
        <4>2. stream'[i - 1] = <<a, "latest">>
          BY <4>1, <3>1, <1>3
        <4>3. \A j \in 1 .. n - 1 : j > i - 1 => stream'[j][1] # a
          <5> SUFFICES ASSUME NEW j \in 1 .. n - 1, j > i - 1 PROVE stream'[j][1] # a
            OBVIOUS
          <5>1. j + 1 \in 1 .. n /\ j + 1 > i
            BY <1>2, <4>1
          <5> QED
            BY <5>1, <3>1, <1>3
        <4> QED
          BY <4>1, <4>2, <4>3, <1>3 DEF Comes
      <3> QED
        BY <3>2, <3>3
    <2>3. CASE Came(a)
      <3>1. h[1] # a
        BY <2>3, <1>2 DEF Came
      <3>2. shown'[a] = "latest"
        BY <2>1, <2>3, <3>1, <1>4 DEF Came, FeedInv, FeedTypeOK
      <3>3. \A j \in 1 .. n - 1 : stream'[j][1] # a
        <4> SUFFICES ASSUME NEW j \in 1 .. n - 1 PROVE stream'[j][1] # a
          OBVIOUS
        <4>1. j + 1 \in 1 .. n
          BY <1>2
        <4> QED
          BY <4>1, <2>3, <1>2, <1>3 DEF Came
      <3> QED
        BY <3>2, <3>3, <1>3 DEF Came
    <2> QED
      BY <2>2, <2>3 DEF FeedInv, HeardOf
  <1>8. \A a \in Agents \ live' : a \notin live /\ shown'[a] = shown[a]
    BY <1>4, <1>5 DEF FeedInv, FeedTypeOK
  <1>9. Unmerged' /\ Filled'
    BY <1>4, <1>8 DEF FeedInv, Unmerged, Filled
  <1> QED
    BY <1>6, <1>7, <1>9 DEF FeedInv

\* The logs fill in what the page knows nothing of, which is all it has not heard live.
LEMMA MergeFeed == FeedInv /\ MergeLogs => FeedInv'
  <1> SUFFICES ASSUME FeedInv, MergeLogs PROVE FeedInv'
    OBVIOUS
  <1>1. CASE shown' = [a \in Agents |-> IF shown[a] = "none" THEN read[a] ELSE shown[a]]
             /\ UNCHANGED <<read, chances>>
    <2>1. FeedTypeOK'
      BY <1>1 DEF MergeLogs, FeedInv, FeedTypeOK, toldVars, requestVars
    <2>2. HeardOf'
      <3>1. \A a \in told : shown[a] = "latest" => shown'[a] = "latest"
        BY <1>1 DEF FeedInv, FeedTypeOK
      <3> QED
        BY <3>1 DEF MergeLogs, FeedInv, HeardOf, Comes, Came, toldVars
    <2>3. Unmerged' /\ Filled'
      BY <1>1 DEF MergeLogs, FeedInv, Unmerged, Filled
    <2> QED
      BY <2>1, <2>2, <2>3 DEF FeedInv
  <1>2. CASE Chance /\ read' = Nothing /\ UNCHANGED shown
    <2>1. FeedTypeOK'
      BY <1>2, FeedAssumption
      DEF FeedAssumption, Chance, MergeLogs, FeedInv, FeedTypeOK, toldVars, requestVars, Nothing, Events
    <2>2. HeardOf'
      BY <1>2 DEF MergeLogs, FeedInv, HeardOf, Comes, Came, toldVars
    <2>3. Unmerged' /\ Filled'
      BY <1>2 DEF MergeLogs, Unmerged, Filled, Nothing
    <2> QED
      BY <2>1, <2>2, <2>3 DEF FeedInv
  <1> QED
    BY <1>1, <1>2 DEF MergeLogs

\* An opened page knows nothing, has heard nothing, and will not hear what is told already.
LEMMA OpenFeed == FeedInv /\ Open => FeedInv'
  <1> SUFFICES ASSUME FeedInv, Open PROVE FeedInv'
    OBVIOUS
  <1>1. row \in Statuses /\ BagToSet(asked) \subseteq Statuses
    BY DEF FeedInv, FeedTypeOK
  <1>2. BagToSet(asked') \subseteq Statuses
    BY <1>1, AskedTypes DEF Open
  <1>3. opens' \in 0 .. MaxOpens
    BY FeedAssumption DEF FeedAssumption, Open, FeedInv, FeedTypeOK
  <1>4. << >> \in Seq(Agents \X Events) /\ Nothing \in [Agents -> Events]
    BY DEF Nothing, Events
  <1>5. cancelling' \in Request /\ approving' \in Request /\ answered' \in BOOLEAN
    BY DEF Open, Left, Request
  <1>6. FeedTypeOK'
    BY <1>2, <1>3, <1>4, <1>5 DEF Open, FeedInv, FeedTypeOK, toldVars
  <1>7. HeardOf' /\ Unmerged' /\ Filled'
    BY DEF Open, HeardOf, Unmerged, Filled, Nothing, toldVars
  <1> QED
    BY <1>6, <1>7 DEF FeedInv

\* The answer about a status: the socket is changed for another if the status is new.
LEMMA AnswerFeed ==
    ASSUME FeedInv, NEW s \in Statuses, Answer(s)
    PROVE  FeedInv'
  <1>1. BagToSet(asked') \subseteq Statuses
    BY AskedTypes DEF Answer, FeedInv, FeedTypeOK
  <1>2. chances' \in 0 .. MaxChances
    BY FeedAssumption DEF FeedAssumption, Answer, Chance, FeedInv, FeedTypeOK
  <1>3. error' \in BOOLEAN
    BY DEF Answer
  <1>4. CASE s = review
    <2>1. FeedTypeOK'
      BY <1>1, <1>2, <1>3, <1>4 DEF Answer, FeedInv, FeedTypeOK, toldVars, requestVars
    <2> QED
      BY <1>4, <2>1, AsideKeepsFeed DEF Answer, toldVars
  <1>5. CASE s # review
    <2>1. Reconnect(s)
      BY <1>5 DEF Answer
    <2>2. Dropped \subseteq Agents /\ << >> \in Seq(Agents \X Events)
      BY DEF Dropped
    <2>3. FeedTypeOK'
      BY <1>1, <1>2, <1>3, <2>1, <2>2 DEF Answer, Reconnect, FeedInv, FeedTypeOK, toldVars, requestVars
    <2> QED
      BY <2>1, <2>3, DropFeed DEF Answer, Reconnect, toldVars
  <1> QED
    BY <1>4, <1>5

\* The page asks for the status: that is another answer in flight.
LEMMA AskFeed ==
    ASSUME FeedInv, Ask, answered' \in BOOLEAN,
           UNCHANGED <<row, toldVars, sock, stream, review, shown, logs, read, error, unheard,
                       live, task_id, control, cancelling, approving, opens>>
    PROVE  FeedInv'
  <1>1. BagToSet(asked') \subseteq Statuses
    BY AskedTypes DEF Ask, FeedInv, FeedTypeOK
  <1>2. chances' \in 0 .. MaxChances
    BY FeedAssumption DEF FeedAssumption, Ask, Chance, FeedInv, FeedTypeOK
  <1>3. FeedTypeOK'
    BY <1>1, <1>2 DEF FeedInv, FeedTypeOK, toldVars, requestVars
  <1> QED
    BY <1>3, AsideKeepsFeed DEF toldVars

\* Requests to cancel and to approve write the row and themselves.
LEMMA RequestsFeed == FeedInv /\ Requests => FeedInv'
  <1> SUFFICES ASSUME FeedInv, Requests PROVE FeedInv'
    OBVIOUS
  <1>1. CASE AskAgain
    BY <1>1, AskFeed DEF AskAgain
  <1>2. CASE Cancel \/ Cancelled \/ NotCancelled \/ Approve \/ Approved \/ NotApproved
    <2>1. row' \in Statuses
      BY <1>2 DEF Cancel, Cancelled, NotCancelled, Approve, Approved, NotApproved, FeedInv,
                  FeedTypeOK, Statuses
    <2>2. /\ cancelling' \in Request /\ approving' \in Request /\ answered' \in BOOLEAN
          /\ task_id' \in BOOLEAN /\ control' \in {"none", "sent", "known"}
      BY <1>2 DEF Cancel, Cancelled, NotCancelled, Approve, Approved, NotApproved, FeedInv,
                  FeedTypeOK, Request
    <2>3. chances' \in 0 .. MaxChances
      BY <1>2, FeedAssumption
      DEF FeedAssumption, Chance, Cancel, Cancelled, NotCancelled, Approve, Approved,
          NotApproved, FeedInv, FeedTypeOK
    <2>4. UNCHANGED <<told, telling, log, pageVars, opens>>
      BY <1>2 DEF Cancel, Cancelled, NotCancelled, Approve, Approved, NotApproved, toldVars
    <2>5. FeedTypeOK'
      BY <2>1, <2>2, <2>3, <2>4 DEF FeedInv, FeedTypeOK, pageVars
    <2> QED
      BY <2>4, <2>5, AsideKeepsFeed DEF pageVars
  <1> QED
    BY <1>1, <1>2 DEF Requests

\* Every step of the page and of its user keeps the feed's invariant.
LEMMA PageFeed == FeedInv /\ Page => FeedInv'
  <1> SUFFICES ASSUME FeedInv, Page PROVE FeedInv'
    OBVIOUS
  <1>0. /\ FeedTypeOK /\ row \in Statuses /\ BagToSet(asked) \subseteq Statuses
        /\ log \in [Agents -> Events]
    BY DEF FeedInv, FeedTypeOK
  <1>1. CASE Subscribe
    <2>1. FeedTypeOK'
      BY <1>0, <1>1 DEF Subscribe, FeedTypeOK, toldVars, requestVars
    <2> QED
      BY <1>1, <2>1, AsideKeepsFeed DEF Subscribe, toldVars
  <1>2. CASE Break
    <2>1. Dropped \subseteq Agents /\ << >> \in Seq(Agents \X Events)
      BY DEF Dropped
    <2>2. FeedTypeOK'
      BY <1>0, <1>2, <2>1, FeedAssumption DEF FeedAssumption, Break, Chance, FeedTypeOK, toldVars, requestVars
    <2> QED
      BY <1>2, <2>2, DropFeed DEF Break, toldVars
  <1>3. CASE ReadLogs
    <2>1. FeedTypeOK'
      BY <1>0, <1>3 DEF ReadLogs, FeedTypeOK, toldVars, requestVars
    <2>2. HeardOf' /\ Unmerged' /\ Filled'
      BY <1>3 DEF ReadLogs, FeedInv, HeardOf, Comes, Came, Unmerged, Filled, toldVars
    <2> QED
      BY <2>1, <2>2 DEF FeedInv
  <1>4. CASE Poll
    <2>1. Ask /\ UNCHANGED <<row, toldVars, sock, stream, review, shown, logs, read, error,
                             unheard, live, requestVars, opens>>
      BY <1>4 DEF Poll
    <2>2. answered \in BOOLEAN
      BY <1>0 DEF FeedTypeOK
    <2>3. answered' \in BOOLEAN
      BY <2>1, <2>2 DEF requestVars
    <2> QED
      BY <2>1, <2>3, AskFeed DEF requestVars
  <1>5. ASSUME NEW s \in Statuses, AnswerFails(s) PROVE FeedInv'
    <2>1. BagToSet(asked') \subseteq Statuses
      BY <1>0, <1>5, AskedTypes DEF AnswerFails
    <2>2. chances' \in 0 .. MaxChances
      BY <1>0, <1>5, FeedAssumption DEF FeedAssumption, AnswerFails, Chance, FeedTypeOK
    <2>3. error' \in BOOLEAN
      BY <1>5 DEF AnswerFails
    <2>4. FeedTypeOK'
      BY <1>0, <1>5, <2>1, <2>2, <2>3 DEF AnswerFails, FeedTypeOK, toldVars, requestVars
    <2> QED
      BY <1>5, <2>4, AsideKeepsFeed DEF AnswerFails, toldVars
  <1> QED
    BY <1>1, <1>2, <1>3, <1>4, <1>5, HearFeed, MergeFeed, OpenFeed, AnswerFeed, RequestsFeed
    DEF Page

-----------------------------------------------------------------------------
(* The task and its agents                                                 *)

\* The runs, for the type invariant: a task that waits may still run, and an agent that
\* searches has a call to carry out.
RunTypes ==
    /\ task \in {"unsent", "waiting"} \cup InWork \cup Ends /\ passes \in 0 .. MaxPasses
    /\ selected \subseteq Agents
    /\ at \in [Agents -> {"idle", "started", "reasoning", "searching", "calling", "parsing",
                          "ended", "done"}]
    /\ calls \in [Agents -> 0 .. MaxCalls] /\ tries \in [Agents -> 0 .. MaxTries]
    /\ task \in {"unsent", "waiting"} => passes < MaxPasses
    /\ \A a \in Agents : at[a] = "searching" => calls[a] > 0

\* The inductive invariant.
IInv == FeedInv /\ RunTypes /\ EndedLeavesNoneWaiting

\* Nothing has been told, and the task waits to be sent.
LEMMA InitIInv == Init => IInv
  <1> SUFFICES ASSUME Init PROVE IInv
    OBVIOUS
  <1>1. BagToSet(asked) = {} /\ << >> \in Seq(Agents \X Events)
    BY DEF Init, InitFeed, EmptyBag, SetToBag, BagToSet
  <1>2. chances \in 0 .. MaxChances /\ opens \in 0 .. MaxOpens
    BY FeedAssumption DEF FeedAssumption, Init, InitFeed
  <1>3. /\ error \in BOOLEAN /\ task_id \in BOOLEAN /\ control \in {"none", "sent", "known"}
        /\ cancelling \in Request /\ approving \in Request /\ answered \in BOOLEAN
    BY DEF Init, InitFeed, Request
  <1>4. /\ row \in Statuses /\ Nothing \in [Agents -> Events] /\ telling \subseteq told
        /\ log = Nothing /\ shown = Nothing /\ read = Nothing
    BY DEF Init, InitFeed, Statuses, Nothing, Events
  <1>5. FeedTypeOK
    BY <1>1, <1>2, <1>3, <1>4 DEF Init, InitFeed, FeedTypeOK
  <1>6. HeardOf /\ Unmerged /\ Filled
    BY DEF Init, InitFeed, HeardOf, Unmerged, Filled, Nothing
  <1>7. RunTypes /\ EndedLeavesNoneWaiting
    BY RunAssumption DEF RunAssumption, Init, RunTypes, EndedLeavesNoneWaiting, Idle, Zero
  <1> QED
    BY <1>5, <1>6, <1>7 DEF IInv, FeedInv

\* What the start request, the worker and the broker do to the variables of the feed.
LEMMA TaskLeavesFeed ==
    ASSUME IInv, Task
    PROVE  /\ row' \in Statuses /\ chances' \in 0 .. MaxChances
           /\ told' = told /\ log' = log /\ telling' \in {telling, {}}
           /\ task_id' \in BOOLEAN /\ control' \in {"none", "sent", "known"}
           /\ UNCHANGED <<pageVars, cancelling, approving, answered, opens>>
  <1>1. /\ row \in Statuses /\ chances \in 0 .. MaxChances /\ task_id \in BOOLEAN
        /\ control \in {"none", "sent", "known"}
    BY DEF IInv, FeedInv, FeedTypeOK
  <1>2. CASE StartSends \/ StartFails \/ StartCommits
    <2>1. /\ row' = row /\ told' = told /\ log' = log /\ telling' = telling
          /\ UNCHANGED <<pageVars, control, cancelling, approving, answered, opens>>
      BY <1>2 DEF StartSends, StartFails, StartCommits, Rest, toldVars, requestVars
    <2>2. chances' \in 0 .. MaxChances
      BY <1>1, <1>2, FeedAssumption
      DEF FeedAssumption, StartSends, StartFails, StartCommits, Chance
    <2>3. task_id' = TRUE \/ task_id' = task_id
      BY <1>2 DEF StartSends, StartFails, StartCommits, Rest, requestVars
    <2>4. task_id' \in BOOLEAN
      BY <1>1, <2>3
    <2> QED
      BY <1>1, <2>1, <2>2, <2>4
  <1>3. CASE PassStarts \/ NoToken \/ Discard
    BY <1>1, <1>3 DEF PassStarts, NoToken, Discard, Rest, feedVars, toldVars, requestVars, Statuses
  <1>4. CASE PassEnds \/ Acks \/ RevokeArrives
    BY <1>1, <1>4 DEF PassEnds, Acks, RevokeArrives, Stop, Gone, Statuses
  <1>5. CASE PassFails \/ WorkerDies \/ WorkerRestarts \/ AttemptLost
    BY <1>1, <1>5, FeedAssumption
    DEF FeedAssumption, PassFails, WorkerDies, WorkerRestarts, AttemptLost, Stop, Gone, Chance,
        Statuses
  <1> QED
    BY <1>2, <1>3, <1>4, <1>5 DEF Task

\* An attempt that ends leaves no agent behind.
LEMMA GoneTypes ==
    ASSUME Gone
    PROVE  /\ selected' \subseteq Agents
           /\ at' \in [Agents -> {"idle", "started", "reasoning", "searching", "calling",
                                  "parsing", "ended", "done"}]
           /\ calls' \in [Agents -> 0 .. MaxCalls] /\ tries' \in [Agents -> 0 .. MaxTries]
           /\ \A a \in Agents : at'[a] = "searching" => calls'[a] > 0
  BY RunAssumption DEF RunAssumption, Gone, Idle, Zero

\* An attempt that starts or stops, however it stops, is nothing the page learns of by itself;
\* and one that ends by itself has written its end to the row, with the task still running.
LEMMA TaskIInv == IInv /\ Task => IInv'
  <1> SUFFICES ASSUME IInv, Task PROVE IInv'
    OBVIOUS
  <1>1. FeedInv'
    <2>1. FeedTypeOK'
      BY TaskLeavesFeed DEF pageVars, IInv, FeedInv, FeedTypeOK
    <2> QED
      BY <2>1, TaskLeavesFeed, AsideKeepsFeed DEF pageVars, IInv
  <1>2. RunTypes'
    <2> USE DEF InWork, Ends
    <2>1. CASE StartSends \/ StartFails \/ StartCommits \/ NoToken \/ Discard
      BY <2>1 DEF StartSends, StartFails, StartCommits, NoToken, Received, Discard, Agenda,
                  runVars, IInv, RunTypes
    <2>2. CASE PassStarts
      BY <2>2, RunAssumption DEF RunAssumption, PassStarts, Received, IInv, RunTypes, Idle, Zero
    <2>3. CASE \E next : Stop(next)
      <3>1. passes' = passes /\ Gone
        BY <2>3 DEF Stop
      <3>2. /\ task' \in {"unsent", "waiting"} \cup InWork \cup Ends
            /\ task' \in {"unsent", "waiting"} => passes < MaxPasses
        BY DEF Task, StartSends, StartFails, StartCommits, PassStarts, NoToken, Received,
               PassEnds, Acks, PassFails, WorkerDies, WorkerRestarts, AttemptLost,
               RevokeArrives, Discard, Stop, runVars, IInv, RunTypes
      <3> QED
        BY <3>1, <3>2, GoneTypes DEF IInv, RunTypes
    <2> QED
      BY <2>1, <2>2, <2>3
      DEF Task, PassEnds, Acks, PassFails, WorkerDies, WorkerRestarts, AttemptLost, RevokeArrives
  <1>3. EndedLeavesNoneWaiting'
    <2> USE DEF EndedLeavesNoneWaiting, IInv
    <2>1. CASE StartSends \/ StartFails \/ StartCommits \/ PassStarts \/ NoToken \/ Discard
      BY <2>1 DEF StartSends, StartFails, StartCommits, PassStarts, NoToken, Discard, runVars,
                  feedVars, Rest
    <2>2. CASE PassEnds \/ Acks \/ PassFails
      BY <2>2 DEF PassEnds, Acks, PassFails, Stop
    <2>3. CASE WorkerDies \/ WorkerRestarts \/ AttemptLost \/ RevokeArrives
      BY <2>3 DEF WorkerDies, WorkerRestarts, AttemptLost, RevokeArrives, InWork, Stop
    <2> QED
      BY <2>1, <2>2, <2>3 DEF Task
  <1> QED
    BY <1>1, <1>2, <1>3 DEF IInv

\* An agent moves on by itself, or tells an event as it does.
LEMMA AgentIInv ==
    ASSUME IInv, NEW a \in Agents, Agent(a)
    PROVE  IInv'
  <1>1. FeedInv'
    <2>1. Publish(a) \/ InsertLog(a) \/ UNCHANGED feedVars
      BY DEF Agent, Skip, Start, Reason, Think, CallTool, Search, Compile, Parse, GiveUp, Fails,
             Complete, Inserts
    <2>2. CASE UNCHANGED feedVars
      <3>1. FeedTypeOK'
        BY <2>2 DEF feedVars, toldVars, pageVars, requestVars, IInv, FeedInv, FeedTypeOK
      <3> QED
        BY <2>2, <3>1, AsideKeepsFeed DEF IInv, feedVars, toldVars, pageVars
    <2> QED
      BY <2>1, <2>2, PublishFeed, InsertFeed DEF IInv
  <1>2. RunTypes'
    <2> USE RunAssumption DEF RunAssumption, IInv, RunTypes, Acts, Goto
    <2>1. CASE Skip(a) \/ Start(a) \/ Reason(a) \/ Complete(a)
      BY <2>1 DEF Skip, Start, Reason, Complete
    <2>2. CASE Think(a)
      <3>1. PICK wanted \in 0 .. MaxCalls + 1 :
              calls' = [calls EXCEPT ![a] = IF wanted > MaxCalls THEN MaxCalls ELSE wanted]
        BY <2>2 DEF Think
      <3>2. calls' \in [Agents -> 0 .. MaxCalls]
        BY <3>1
      <3>3. \A b \in Agents : at'[b] = "searching" => b # a /\ at[b] = "searching"
        BY <2>2 DEF Think
      <3> QED
        BY <2>2, <3>1, <3>2, <3>3 DEF Think
    <2>3. CASE CallTool(a) \/ Compile(a)
      BY <2>3 DEF CallTool, Compile
    <2>4. CASE Search(a)
      BY <2>4 DEF Search
    <2>5. CASE Parse(a) \/ GiveUp(a)
      BY <2>5 DEF Parse, GiveUp
    <2>6. CASE Fails(a)
      BY <2>6 DEF Fails
    <2>7. CASE Inserts(a)
      BY <2>7 DEF Inserts, runVars
    <2> QED
      BY <2>1, <2>2, <2>3, <2>4, <2>5, <2>6, <2>7 DEF Agent
  <1>3. EndedLeavesNoneWaiting'
    <2>1. UNCHANGED <<task, row>>
      BY DEF Agent, Skip, Start, Reason, Think, CallTool, Search, Compile, Parse, GiveUp, Fails,
             Complete, Inserts, Publish, InsertLog, feedVars, runVars
    <2> QED
      BY <2>1 DEF IInv, EndedLeavesNoneWaiting
  <1> QED
    BY <1>1, <1>2, <1>3 DEF IInv

\* Every step keeps the invariant.
LEMMA NextIInv == IInv /\ [Next]_vars => IInv'
  <1> SUFFICES ASSUME IInv, [Next]_vars PROVE IInv'
    OBVIOUS
  <1>1. CASE Page /\ UNCHANGED runVars
    <2>1. FeedInv' /\ RunTypes'
      BY <1>1, PageFeed DEF IInv, RunTypes, runVars
    <2>2. row' \in {row, "cancelled", "resuming", "complete"}
      BY <1>1 DEF Page, Requests, Subscribe, Break, Hear, ReadLogs, MergeLogs, Poll, Open, Answer,
                  AnswerFails, Cancel, Cancelled, NotCancelled, Approve, Approved, NotApproved,
                  AskAgain
    <2> QED
      BY <1>1, <2>1, <2>2 DEF IInv, EndedLeavesNoneWaiting, runVars
  <1>2. CASE UNCHANGED vars
    <2>1. FeedTypeOK'
      BY <1>2 DEF vars, feedVars, toldVars, pageVars, requestVars, IInv, FeedInv, FeedTypeOK
    <2>2. FeedInv'
      BY <1>2, <2>1, AsideKeepsFeed DEF IInv, vars, feedVars, toldVars, pageVars
    <2> QED
      BY <1>2, <2>2 DEF vars, feedVars, runVars, IInv, RunTypes, EndedLeavesNoneWaiting
  <1> QED
    BY <1>1, <1>2, TaskIInv, AgentIInv DEF Next

\* The invariant holds throughout.
LEMMA Invariance == Spec => []IInv
  BY InitIInv, NextIInv, PTL DEF Spec

\* Feed, page, task and agents have their types; in particular no agent carries out more
\* tool calls, and asks for its report more often, than the loops of BaseAgent.run allow.
THEOREM RunTypesHold == Spec => []TypeOK
  <1>1. IInv => TypeOK
    BY DEF IInv, FeedInv, RunTypes, TypeOK
  <1> QED
    BY <1>1, Invariance, PTL

\* A task that has come to its end by itself has put the row to rest, however requests, deaths of
\* the worker, revocations and retries went before: no row is queued or collecting for it.
THEOREM NoneLeftWaiting == Spec => []EndedLeavesNoneWaiting
  <1>1. IInv => EndedLeavesNoneWaiting
    BY DEF IInv
  <1> QED
    BY <1>1, Invariance, PTL

\* However events, sockets, reloads, answers and chances interleave: once everything sent has
\* arrived, an event the page lacks is one it could not hear, and the logs could not tell it.
THEOREM LossIsExplained == Spec => []LossExplained
  <1>1. IInv => LossExplained
    BY FeedExplains DEF IInv
  <1> QED
    BY <1>1, Invariance, PTL
=============================================================================
