--------------------------- MODULE ConnectorsProofs ---------------------------
(***************************************************************************)
(* Proofs about Connectors, for any number of requests, tabs and fetches:  *)
(* types, the refinement of ConnectorRegister, and what a tab shows.       *)
(***************************************************************************)
EXTENDS Connectors, TLAPS

USE RequestsAssumption DEF Requests

\* A disconnect request that found no row never waits to commit.
Reads == \A d \in Disconnects : at[d] = "loaded" => found[d] # Nobody

\* A tab that was not left behind is right, or will hear of what it has to ask, or of the
\* answer that makes it ask.
Fine(t) ==
    \/ tab[t].shown = Connected
    \/ \E f \in Fetches : list[t][f] \in {"asked", Connected}
    \/ \E r \in Requests : asker[r] = t /\ at[r] = "ok"

TabsFine == \A t \in Tabs \ excused : Fine(t)

\* The inductive invariant.
IInv == TypeOK /\ Reads /\ TabsFine

-----------------------------------------------------------------------------
(* Types                                                                   *)

LEMMA InitTypes == Init => TypeOK /\ Reads
  BY DEF Init, TypeOK, Reads, Opened, Tab, NoAccount

\* What went through stays so: no step moves a request that is answered ok.
LEMMA CommittedGrows ==
    ASSUME TypeOK, NEW r \in Requests, NEW v, at[r] # "ok", at' = [at EXCEPT ![r] = v]
    PROVE  /\ Committed \subseteq Committed' /\ Nobody \notin Committed
           /\ r \in Connects /\ v = "ok" => r \in Committed'
  BY DEF TypeOK, Committed


LEMMA ServerKeepsTypes ==
    ASSUME TypeOK, Reads, NEW r \in Requests, Server(r)
    PROVE  TypeOK' /\ Reads'
  <1>1. ASSUME Load(r) PROVE TypeOK' /\ Reads'
    <2>1. Committed \subseteq Committed'
      BY <1>1, CommittedGrows DEF Load
    <2>2. account.id \in Committed \cup {Nobody} /\ (account = NoAccount <=> account.id = Nobody)
      BY DEF TypeOK, NoAccount, Committed
    <2> QED
      BY <1>1, <2>1, <2>2 DEF Load, TypeOK, Reads
  <1>2. ASSUME Commit(r), excused' \subseteq Tabs,
               account' = NoAccount \/ account' \in [id : Committed', token : Committed']
        PROVE  TypeOK' /\ Reads'
    <2>1. Committed \subseteq Committed'
      BY <1>2, CommittedGrows DEF Commit
    <2> QED
      BY <1>2, <2>1 DEF Commit, TypeOK, Reads
  <1>3. ASSUME NEW row, Commit(r), Change(r, row) PROVE account' = row /\ excused' \subseteq Tabs
    BY <1>3 DEF Change, TypeOK
  <1>4. ASSUME Commit(r) PROVE Committed \subseteq Committed' /\ (r \in Connects => r \in Committed')
    BY <1>4, CommittedGrows DEF Commit
  <1>5. CASE Insert(r)
    <2>1. account' = [id |-> r, token |-> r] /\ excused' \subseteq Tabs /\ r \in Committed'
      BY <1>3, <1>4, <1>5 DEF Insert
    <2> QED
      BY <1>2, <1>5, <2>1 DEF Insert
  <1>6. CASE Update(r)
    <2>1. account' = [account EXCEPT !.token = r] /\ excused' \subseteq Tabs /\ r \in Committed'
      BY <1>3, <1>4, <1>6 DEF Update
    <2>2. account \in [id : Committed, token : Committed]
      BY <1>6 DEF Update, TypeOK, NoAccount
    <2>3. account' \in [id : Committed', token : Committed']
      BY <2>1, <2>2, <1>4, <1>6 DEF Update
    <2> QED
      BY <1>2, <1>6, <2>1, <2>3 DEF Update
  <1>7. CASE Delete(r)
    <2>1. account' \in {account, NoAccount} /\ excused' \subseteq Tabs
      BY <1>3, <1>7 DEF Delete
    <2> QED
      BY <1>2, <1>4, <1>7, <2>1 DEF Delete, TypeOK
  <1>8. CASE Conflict(r) \/ Interrupt(r)
    <2>1. Committed \subseteq Committed'
      BY <1>8, CommittedGrows DEF Conflict, Interrupt
    <2> QED
      BY <1>8, <2>1 DEF Conflict, Interrupt, TypeOK, Reads
  <1> QED
    BY <1>1, <1>5, <1>6, <1>7, <1>8 DEF Server

LEMMA SendKeepsTypes ==
    ASSUME TypeOK, Reads, NEW r \in Requests, NEW t \in Tabs \cup {Nobody}, Send(t, r),
           UNCHANGED tab
    PROVE  TypeOK' /\ Reads'
  <1>1. Committed \subseteq Committed'
    BY CommittedGrows DEF Send
  <1> QED
    BY <1>1 DEF Send, TypeOK, Reads

LEMMA TabEdits ==
    \A s \in Tab, b \in BOOLEAN : [s EXCEPT !.modal = b] \in Tab /\ [s EXCEPT !.loading = b] \in Tab
  BY DEF Tab

LEMMA PageKeepsTypes ==
    ASSUME TypeOK, Reads, NEW t \in Tabs, Page(t)
    PROVE  TypeOK' /\ Reads'
  <1>0. Connected \in {"yes", "no"}
    BY DEF Connected
  <1>1. ASSUME UNCHANGED serverVars, asker' \in [Requests -> Tabs \cup {Nobody}],
               tab' \in [Tabs -> Tab],
               list' \in [Tabs -> [Fetches -> {"free", "asked", "yes", "no"}]],
               excused' \subseteq Tabs
        PROVE  TypeOK' /\ Reads'
    BY <1>1 DEF serverVars, TypeOK, Reads, Committed
  <1>2. CASE Open(t)
    BY <1>1, <1>2 DEF Open, Opened, Tab, TypeOK
  <1>3. CASE openConnectModal(t) \/ CancelModal(t)
    <2>1. PICK b \in BOOLEAN : tab' = [tab EXCEPT ![t] = [tab[t] EXCEPT !.modal = b]]
      BY <1>3 DEF openConnectModal, CancelModal, TypeOK
    <2>2. tab' \in [Tabs -> Tab]
      BY TabEdits, <2>1 DEF TypeOK
    <2> QED
      BY <1>1, <1>3, <2>2 DEF openConnectModal, CancelModal, TypeOK
  <1>4. ASSUME NEW r \in Requests, handleConnect(t, r) \/ handleDisconnect(t, r)
        PROVE  TypeOK' /\ Reads'
    BY <1>4, SendKeepsTypes DEF handleConnect, handleDisconnect
  <1>5. ASSUME NEW f \in Fetches, NEW s \in Tab, Fetching(t, f, s)
        PROVE  /\ tab' \in [Tabs -> Tab]
               /\ list' \in [Tabs -> [Fetches -> {"free", "asked", "yes", "no"}]]
    BY TabEdits, <1>5 DEF Fetching, TypeOK
  <1>6. ASSUME NEW r \in Requests, Told(t, r) PROVE TypeOK' /\ Reads'
    <2>1. (tab[t].modal /\ r \in Disconnects) \in BOOLEAN
      OBVIOUS
    <2>2. [tab[t] EXCEPT !.modal = @ /\ r \in Disconnects] \in Tab
      BY TabEdits, <2>1 DEF TypeOK
    <2> QED
      BY <1>1, <1>5, <1>6, <2>2 DEF Told, Heard, TypeOK
  <1>7. ASSUME NEW r \in Requests, Refused(t, r) \/ Broken(t, r) PROVE TypeOK' /\ Reads'
    BY <1>1, <1>7 DEF Refused, Broken, Heard, TypeOK
  <1>8. ASSUME NEW f \in Fetches, ListRead(t, f) PROVE TypeOK' /\ Reads'
    BY <1>0, <1>1, <1>8 DEF ListRead, TypeOK
  <1>9. ASSUME NEW f \in Fetches, ListShown(t, f) \/ ListFails(t, f) PROVE TypeOK' /\ Reads'
    <2>1. CASE ListShown(t, f)
      <3>1. \A s \in Tab, v \in {"yes", "no"} : [s EXCEPT !.shown = v, !.loading = FALSE] \in Tab
        BY DEF Tab
      <3>2. [tab[t] EXCEPT !.shown = list[t][f], !.loading = FALSE] \in Tab
        BY <2>1, <3>1 DEF ListShown, TypeOK
      <3> QED
        BY <1>1, <2>1, <3>2 DEF ListShown, TypeOK
    <2>2. CASE ListFails(t, f)
      <3>1. tab' = [tab EXCEPT ![t] = [tab[t] EXCEPT !.loading = FALSE]]
        BY <2>2 DEF ListFails
      <3>2. tab' \in [Tabs -> Tab]
        BY TabEdits, <3>1 DEF TypeOK
      <3> QED
        BY <1>1, <2>2, <3>2 DEF ListFails, TypeOK
    <2> QED
      BY <1>9, <2>1, <2>2
  <1>10. ASSUME NEW f \in Fetches, OtherTold(t, f) PROVE TypeOK' /\ Reads'
    BY <1>1, <1>5, <1>10 DEF OtherTold, TypeOK
  <1> QED
    BY <1>2, <1>3, <1>4, <1>6, <1>7, <1>8, <1>9, <1>10 DEF Page

LEMMA NextKeepsTypes == TypeOK /\ Reads /\ [Next]_vars => TypeOK' /\ Reads'
  <1> SUFFICES ASSUME TypeOK, Reads, [Next]_vars PROVE TypeOK' /\ Reads'
    OBVIOUS
  <1>1. CASE UNCHANGED vars
    BY <1>1 DEF vars, serverVars, TypeOK, Reads, Committed
  <1>2. ASSUME NEW r \in Requests, OtherClient(r) PROVE TypeOK' /\ Reads'
    BY <1>2, SendKeepsTypes DEF OtherClient
  <1> QED
    BY <1>1, <1>2, ServerKeepsTypes, PageKeepsTypes DEF Next

-----------------------------------------------------------------------------
(* What a tab shows                                                        *)

\* Every tab has asked for its first list.
LEMMA InitFine == Init => TabsFine
  BY DEF Init, TabsFine, Fine

\* A commit leaves its own tab waiting for the answer, and other tabs excused if it changes
\* what they show.
LEMMA CommitKeepsFine ==
    ASSUME TypeOK, TabsFine, NEW r \in Requests, NEW row, Commit(r), Change(r, row)
    PROVE  TabsFine'
  <1>1. asker' = asker /\ tab' = tab /\ list' = list
        /\ at'[r] = "ok" /\ \A q \in Requests : at[q] = "ok" => at'[q] = "ok"
    BY DEF Commit, TypeOK
  <1> SUFFICES ASSUME NEW t \in Tabs, t \notin excused' PROVE Fine(t)'
    BY DEF TabsFine
  <1>2. CASE Connected' = Connected
    <2>1. Fine(t)
      BY <1>2 DEF Change, TabsFine
    <2> QED
      BY <1>1, <1>2, <2>1 DEF Fine
  <1>3. CASE Connected' # Connected
    <2>1. asker[r] = t
      BY <1>3 DEF Change
    <2> QED
      BY <1>1, <2>1 DEF Fine
  <1> QED
    BY <1>2, <1>3

\* The other steps of the server, and those of other clients, answer nothing 200 that is
\* waited for no more.
LEMMA OthersKeepFine ==
    ASSUME TypeOK, TabsFine, UNCHANGED <<account, tab, list, excused>>,
           \A r \in Requests : at[r] = "ok" => at'[r] = "ok" /\ asker'[r] = asker[r]
    PROVE  TabsFine'
  <1> SUFFICES ASSUME NEW t \in Tabs \ excused, Fine(t) PROVE Fine(t)'
    BY DEF TabsFine
  <1> QED
    BY DEF Fine, Connected

LEMMA ServerKeepsFine ==
    ASSUME TypeOK, TabsFine, NEW r \in Requests, Server(r) \/ OtherClient(r)
    PROVE  TabsFine'
  <1>1. CASE Insert(r) \/ Update(r) \/ Delete(r)
    BY <1>1, CommitKeepsFine DEF Insert, Update, Delete
  <1>2. CASE Load(r)
    BY <1>2, OthersKeepFine DEF Load, TypeOK
  <1>3. CASE Conflict(r) \/ Interrupt(r)
    BY <1>3, OthersKeepFine DEF Conflict, Interrupt, TypeOK
  <1>4. CASE OtherClient(r)
    BY <1>4, OthersKeepFine DEF OtherClient, Send, TypeOK
  <1> QED
    BY <1>1, <1>2, <1>3, <1>4 DEF Server

\* A step of tab t leaves the other tabs as they were, and what they wait for.
OthersStay(t) ==
    /\ account' = account
    /\ \A u \in Tabs : u # t => /\ tab'[u] = tab[u] /\ list'[u] = list[u]
                                /\ (u \in excused') <=> (u \in excused)
    /\ \A r \in Requests : /\ at[r] = "ok" => at'[r] = "ok"
                           /\ asker[r] # t /\ at[r] = "ok" => asker'[r] = asker[r]

LEMMA TabKeepsFine ==
    ASSUME TabsFine, NEW t \in Tabs, OthersStay(t), t \notin excused' => Fine(t)'
    PROVE  TabsFine'
  <1> SUFFICES ASSUME NEW u \in Tabs, u \notin excused' PROVE Fine(u)'
    BY DEF TabsFine
  <1>1. CASE u = t
    BY <1>1
  <1>2. CASE u # t
    <2>0. tab'[u] = tab[u] /\ list'[u] = list[u] /\ u \notin excused
      BY <1>2 DEF OthersStay
    <2>1. Fine(u) /\ Connected' = Connected
      BY <2>0 DEF TabsFine, OthersStay, Connected
    <2>2. (\E r \in Requests : asker[r] = u /\ at[r] = "ok")
             => (\E r \in Requests : asker'[r] = u /\ at'[r] = "ok")
      BY <1>2 DEF OthersStay
    <2> QED
      BY <2>0, <2>1, <2>2 DEF Fine
  <1> QED
    BY <1>1, <1>2

LEMMA PageKeepsFine ==
    ASSUME TypeOK, TabsFine, NEW t \in Tabs, Page(t)
    PROVE  TabsFine'
  <1>0. t \notin excused => Fine(t)
    BY DEF TabsFine
  <1>1. CASE Open(t)
    <2>1. Fine(t)'
      BY <1>1 DEF Open, Fine, TypeOK
    <2>2. OthersStay(t)
      BY <1>1 DEF Open, serverVars, TypeOK, OthersStay
    <2> QED
      BY <2>1, <2>2, TabKeepsFine
  <1>2. CASE openConnectModal(t) \/ CancelModal(t)
    <2>1. tab'[t].shown = tab[t].shown /\ UNCHANGED <<serverVars, asker, list, excused>>
          /\ \A u \in Tabs : u # t => tab'[u] = tab[u]
      BY <1>2 DEF openConnectModal, CancelModal, TypeOK, Tab
    <2>2. t \notin excused' => Fine(t)'
      BY <1>0, <2>1 DEF Fine, Connected, serverVars
    <2>3. OthersStay(t)
      BY <2>1 DEF serverVars, OthersStay
    <2> QED
      BY <2>2, <2>3, TabKeepsFine
  <1>3. ASSUME NEW r \in Requests, handleConnect(t, r) \/ handleDisconnect(t, r)
        PROVE  TabsFine'
    BY <1>3, OthersKeepFine DEF handleConnect, handleDisconnect, Send, TypeOK
  <1>4. ASSUME NEW f \in Fetches, NEW s, Fetching(t, f, s), UNCHANGED <<serverVars, excused>>,
               \A r \in Requests : asker[r] # t => asker'[r] = asker[r]
        PROVE  TabsFine'
    <2>1. list'[t][f] = "asked" /\ \A u \in Tabs : u # t => tab'[u] = tab[u] /\ list'[u] = list[u]
      BY <1>4 DEF Fetching, TypeOK
    <2>2. Fine(t)'
      BY <2>1 DEF Fine
    <2>3. OthersStay(t)
      BY <1>4, <2>1 DEF serverVars, OthersStay
    <2> QED
      BY <2>2, <2>3, TabKeepsFine
  <1>5. ASSUME NEW r \in Requests, Told(t, r) PROVE TabsFine'
    BY <1>4, <1>5 DEF Told, Heard, TypeOK
  <1>6. ASSUME NEW r \in Requests, Refused(t, r) PROVE TabsFine'
    BY <1>6, OthersKeepFine DEF Refused, Heard, TypeOK, serverVars
  <1>7. ASSUME NEW r \in Requests, Broken(t, r) PROVE TabsFine'
    <2>1. CASE at[r] = "ok"
      <3>1. t \in excused' /\ \A u \in Tabs : u # t => (u \in excused' <=> u \in excused)
        BY <1>7, <2>1 DEF Broken
      <3>2. OthersStay(t)
        BY <1>7, <3>1 DEF Broken, Heard, TypeOK, serverVars, OthersStay
      <3> QED
        BY <3>1, <3>2, TabKeepsFine
    <2>2. CASE at[r] # "ok"
      BY <1>7, <2>2, OthersKeepFine DEF Broken, Heard, TypeOK, serverVars
    <2> QED
      BY <2>1, <2>2
  <1>8. ASSUME NEW f \in Fetches, ListRead(t, f) PROVE TabsFine'
    <2>1. list'[t][f] = Connected' /\ UNCHANGED <<serverVars, asker, tab, excused>>
          /\ \A u \in Tabs : u # t => list'[u] = list[u]
      BY <1>8 DEF ListRead, Connected, serverVars, TypeOK
    <2>2. Fine(t)'
      BY <2>1 DEF Fine
    <2>3. OthersStay(t)
      BY <2>1 DEF serverVars, OthersStay
    <2> QED
      BY <2>2, <2>3, TabKeepsFine
  <1>9. ASSUME NEW f \in Fetches, ListShown(t, f) PROVE TabsFine'
    <2>1. tab'[t].shown = list[t][f] /\ UNCHANGED <<serverVars, asker>>
          /\ \A u \in Tabs : u # t => /\ tab'[u] = tab[u] /\ list'[u] = list[u]
                                      /\ (u \in excused') <=> (u \in excused)
      BY <1>9 DEF ListShown, TypeOK, Tab
    <2>2. t \notin excused' => Fine(t)'
      BY <1>9, <2>1 DEF ListShown, Fine, Connected, serverVars
    <2>3. OthersStay(t)
      BY <2>1 DEF serverVars, OthersStay
    <2> QED
      BY <2>2, <2>3, TabKeepsFine
  <1>10. ASSUME NEW f \in Fetches, ListFails(t, f) PROVE TabsFine'
    <2>1. t \in excused' /\ UNCHANGED <<serverVars, asker>>
          /\ \A u \in Tabs : u # t => /\ tab'[u] = tab[u] /\ list'[u] = list[u]
                                      /\ (u \in excused') <=> (u \in excused)
      BY <1>10 DEF ListFails, TypeOK
    <2>2. OthersStay(t)
      BY <2>1 DEF serverVars, OthersStay
    <2> QED
      BY <2>1, <2>2, TabKeepsFine
  <1>11. ASSUME NEW f \in Fetches, OtherTold(t, f) PROVE TabsFine'
    BY <1>4, <1>11 DEF OtherTold
  <1> QED
    BY <1>1, <1>2, <1>3, <1>5, <1>6, <1>7, <1>8, <1>9, <1>10, <1>11 DEF Page

LEMMA Invariance == Spec => []IInv
  <1>1. Init => IInv
    BY InitTypes, InitFine DEF IInv
  <1>2. ASSUME TypeOK, TabsFine, UNCHANGED vars PROVE TabsFine'
    BY <1>2 DEF vars, serverVars, TabsFine, Fine, Connected
  <1>3. IInv /\ [Next]_vars => IInv'
    BY <1>2, NextKeepsTypes, ServerKeepsFine, PageKeepsFine DEF IInv, Next
  <1> QED
    BY <1>1, <1>3, PTL DEF Spec

\* Every row, and every row a request has read, is the work of a connect request that went
\* through, for any number of requests, tabs and fetches.
THEOREM ConnectorTypes == Spec => []TypeOK
  <1>1. IInv => TypeOK
    BY DEF IInv
  <1> QED
    BY <1>1, Invariance, PTL

\* A tab that waits for nothing shows whether the service is connected, unless another page,
\* a lost answer or an overtaken list left it behind.
THEOREM PageIsTrue == Spec => []ShownIsTrue
  <1>1. IInv => ShownIsTrue
    <2> SUFFICES ASSUME IInv, NEW t \in Tabs \ excused, ~Waits(t) PROVE tab[t].shown = Connected
      BY DEF ShownIsTrue
    <2>1. Connected \in {"yes", "no"} /\ Fine(t)
      BY DEF Connected, IInv, TabsFine
    <2> QED
      BY <2>1 DEF Fine, Waits
  <1> QED
    BY <1>1, Invariance, PTL

-----------------------------------------------------------------------------
(* The register                                                            *)

\* The stages of the requests.
Stages == [r \in Requests |-> stageOf(r)]

\* A request that stays where it was, over the same row, keeps its stage.
LEMMA StageKept ==
    ASSUME NEW r \in Requests, at'[r] = at[r], found'[r] = found[r], account'.id = account.id
    PROVE  stageOf(r)' = stageOf(r)
  BY DEF stageOf

\* A step of one request over the same row moves that one only.
LEMMA StageMoves ==
    ASSUME NEW r \in Requests, account'.id = account.id,
           \A q \in Requests \ {r} : at'[q] = at[q] /\ found'[q] = found[q]
    PROVE  Stages' = [Stages EXCEPT ![r] = stageOf(r)']
  BY StageKept DEF Stages

LEMMA InitRegister == Init => Register!Init
  BY DEF Init, Register!Init, Register!Requests, NoAccount, stageOf

LEMMA LoadRegister ==
    ASSUME TypeOK, Reads, NEW r \in Requests, Load(r)
    PROVE  [Register!Next]_<<account.token, Stages>>
  <1>1. account' = account /\ at[r] = "sent" /\ Stages' = [Stages EXCEPT ![r] = stageOf(r)']
    BY StageMoves DEF Load, TypeOK
  <1>2. stageOf(r) = "pending" /\ found'[r] = account.id
        /\ at'[r] = IF r \in Disconnects /\ account = NoAccount THEN "ok" ELSE "loaded"
    BY <1>1 DEF Load, stageOf, TypeOK
  <1>3. CASE r \in Disconnects /\ account = NoAccount
    <2>1. stageOf(r)' = "took" /\ account'.token = Nobody
      BY <1>1, <1>2, <1>3 DEF stageOf, NoAccount
    <2>2. Stages' = [q \in Requests |-> IF q \in {r} THEN "took" ELSE Stages[q]]
      BY <1>1, <2>1 DEF Stages
    <2>3. Register!Clear({r})
      BY <1>2, <2>1, <2>2 DEF Register!Clear, Register!Requests, Stages
    <2> QED
      BY <1>3, <2>3 DEF Register!Next
  <1>4. CASE ~(r \in Disconnects /\ account = NoAccount)
    <2>1. stageOf(r)' = "pending"
      BY <1>1, <1>2, <1>4 DEF stageOf
    <2>2. Stages' = Stages
      BY <1>1, <1>2, <2>1 DEF Stages
    <2> QED
      BY <1>1, <2>2
  <1> QED
    BY <1>3, <1>4

\* Whoever inserts a row, nobody else has found it yet: a disconnect request that waits to
\* commit has read the row of another, which is gone before a new one comes.
LEMMA InsertRegister ==
    ASSUME TypeOK, Reads, NEW r \in Requests, Insert(r)
    PROVE  [Register!Next]_<<account.token, Stages>>
  <1>1. r \in Connects /\ account = NoAccount /\ account' = [id |-> r, token |-> r]
        /\ at[r] = "loaded" /\ at' = [at EXCEPT ![r] = "ok"] /\ found' = found
    BY DEF Insert, Commit, Change
  <1>2. stageOf(r) = "pending" /\ stageOf(r)' = "took"
    BY <1>1 DEF stageOf, TypeOK
  <1>3. ASSUME NEW q \in Requests, q # r PROVE stageOf(q)' = stageOf(q)
    <2>1. at'[q] = at[q] /\ found'[q] = found[q]
      BY <1>1, <1>3 DEF TypeOK
    <2>2. CASE q \in Disconnects /\ at[q] = "loaded"
      <3>1. found[q] # r /\ found[q] # Nobody
        BY <1>1, <2>2 DEF TypeOK, Committed, Reads
      <3>2. account.id # found[q] /\ account'.id # found[q]
        BY <1>1, <3>1 DEF NoAccount
      <3> QED
        BY <2>1, <2>2, <3>2 DEF stageOf
    <2>3. CASE ~(q \in Disconnects /\ at[q] = "loaded")
      BY <2>1, <2>3 DEF stageOf
    <2> QED
      BY <2>2, <2>3
  <1>4. Stages' = [Stages EXCEPT ![r] = "took"]
    BY <1>2, <1>3 DEF Stages
  <1>5. Register!Put(r)
    BY <1>1, <1>2, <1>4 DEF Register!Put, Stages
  <1> QED
    BY <1>1, <1>5 DEF Register!Next

LEMMA UpdateRegister ==
    ASSUME TypeOK, NEW r \in Requests, Update(r)
    PROVE  [Register!Next]_<<account.token, Stages>>
  <1>1. r \in Connects /\ at[r] = "loaded" /\ at' = [at EXCEPT ![r] = "ok"] /\ found' = found
        /\ account' = [account EXCEPT !.token = r]
    BY DEF Update, Commit, Change
  <1>2. account \in [id : Committed, token : Committed]
    BY DEF Update, TypeOK, NoAccount
  <1>3. account'.id = account.id /\ account'.token = r
    BY <1>1, <1>2
  <1>4. stageOf(r) = "pending" /\ stageOf(r)' = "took"
    BY <1>1 DEF stageOf, TypeOK
  <1>5. Stages' = [Stages EXCEPT ![r] = "took"]
    BY <1>1, <1>3, <1>4, StageMoves DEF TypeOK
  <1>6. Register!Put(r)
    BY <1>3, <1>4, <1>5 DEF Register!Put, Stages
  <1> QED
    BY <1>1, <1>6 DEF Register!Next

\* The deletion of a row serves every request that has read it; one that comes to the commit
\* later finds it has been served.
LEMMA DeleteRegister ==
    ASSUME TypeOK, Reads, NEW r \in Requests, Delete(r)
    PROVE  [Register!Next]_<<account.token, Stages>>
  <1>1. r \in Disconnects /\ at[r] = "loaded" /\ at' = [at EXCEPT ![r] = "ok"] /\ found' = found
        /\ account' = IF account.id = found[r] THEN NoAccount ELSE account
    BY DEF Delete, Commit, Change
  <1>2. stageOf(r)' = "took" /\ found[r] # Nobody
    BY <1>1 DEF stageOf, TypeOK, Reads
  <1>3. CASE account.id # found[r]
    <2>1. account' = account /\ stageOf(r) = "took"
      BY <1>1, <1>3 DEF stageOf
    <2>2. Stages' = [Stages EXCEPT ![r] = "took"]
      BY <1>1, <1>2, <2>1, StageMoves DEF TypeOK
    <2>3. Stages' = Stages
      BY <2>1, <2>2 DEF Stages
    <2> QED
      BY <2>1, <2>3
  <1>4. CASE account.id = found[r]
    <2> DEFINE D == {d \in Disconnects : at[d] = "loaded" /\ found[d] = account.id}
    <2>1. account' = NoAccount /\ account'.id = Nobody /\ account'.token = Nobody
      BY <1>1, <1>4 DEF NoAccount
    <2>2. r \in D /\ D \subseteq Requests
      BY <1>1, <1>4
    <2>3. \A d \in D : stageOf(d) = "pending"
      BY DEF stageOf
    <2>4. ASSUME NEW d \in D PROVE stageOf(d)' = "took"
      <3>1. CASE d = r
        BY <1>2, <3>1
      <3>2. CASE d # r
        <4>1. at'[d] = "loaded" /\ found'[d] # account'.id
          BY <1>1, <1>2, <1>4, <2>1, <3>2 DEF TypeOK
        <4> QED
          BY <4>1 DEF stageOf
      <3> QED
        BY <3>1, <3>2
    <2>5. ASSUME NEW q \in Requests \ D PROVE stageOf(q)' = stageOf(q)
      <3>1. at'[q] = at[q] /\ found'[q] = found[q]
        BY <1>1, <2>2 DEF TypeOK
      <3>2. CASE q \in Disconnects /\ at[q] = "loaded"
        <4>1. account.id # found[q] /\ account'.id # found[q]
          BY <2>1, <3>2 DEF Reads
        <4> QED
          BY <3>1, <3>2, <4>1 DEF stageOf
      <3>3. CASE ~(q \in Disconnects /\ at[q] = "loaded")
        BY <3>1, <3>3 DEF stageOf
      <3> QED
        BY <3>2, <3>3
    <2> HIDE DEF D
    <2>6. Stages' = [q \in Requests |-> IF q \in D THEN "took" ELSE Stages[q]]
      BY <2>2, <2>4, <2>5 DEF Stages
    <2>7. Register!Clear(D)
      BY <2>1, <2>2, <2>3, <2>6 DEF Register!Clear, Register!Requests, Stages
    <2>8. D \in SUBSET Disconnects /\ D # {}
      BY <2>2 DEF D
    <2> QED
      BY <2>7, <2>8 DEF Register!Next
  <1> QED
    BY <1>3, <1>4

LEMMA FailRegister ==
    ASSUME TypeOK, NEW r \in Requests, Conflict(r) \/ Interrupt(r)
    PROVE  [Register!Next]_<<account.token, Stages>>
  <1>1. at[r] \in {"sent", "loaded"} /\ at' = [at EXCEPT ![r] = "failed"]
        /\ UNCHANGED <<account, found>>
    BY DEF Conflict, Interrupt
  <1>2. stageOf(r)' = "refused" /\ stageOf(r) \in (IF r \in Disconnects THEN {"pending", "took"}
                                                                       ELSE {"pending"})
    BY <1>1 DEF stageOf, TypeOK
  <1>3. Stages' = [Stages EXCEPT ![r] = "refused"]
    BY <1>1, <1>2, StageMoves DEF TypeOK
  <1>4. Register!Refuse(r)
    BY <1>1, <1>2, <1>3 DEF Register!Refuse, Stages
  <1> QED
    BY <1>4 DEF Register!Next, Register!Requests

LEMMA SendRegister ==
    ASSUME TypeOK, NEW t, NEW r \in Requests, Send(t, r)
    PROVE  [Register!Next]_<<account.token, Stages>>
  <1>1. at[r] = "idle" /\ at' = [at EXCEPT ![r] = "sent"] /\ UNCHANGED <<account, found>>
    BY DEF Send
  <1>2. stageOf(r) = "idle" /\ stageOf(r)' = "pending"
    BY <1>1 DEF stageOf, TypeOK
  <1>3. Stages' = [Stages EXCEPT ![r] = "pending"]
    BY <1>1, <1>2, StageMoves DEF TypeOK
  <1>4. Register!Begin(r)
    BY <1>1, <1>2, <1>3 DEF Register!Begin, Stages
  <1> QED
    BY <1>4 DEF Register!Next, Register!Requests

LEMMA NextRegister ==
    ASSUME TypeOK, Reads, [Next]_vars
    PROVE  [Register!Next]_<<account.token, Stages>>
  <1>1. ASSUME UNCHANGED serverVars PROVE UNCHANGED <<account.token, Stages>>
    BY <1>1 DEF serverVars, Stages, stageOf
  <1>2. ASSUME NEW r \in Requests, Server(r) \/ OtherClient(r)
        PROVE  [Register!Next]_<<account.token, Stages>>
    BY <1>2, LoadRegister, InsertRegister, UpdateRegister, DeleteRegister, FailRegister,
       SendRegister
    DEF Server, OtherClient
  <1>3. ASSUME NEW t \in Tabs, Page(t) PROVE [Register!Next]_<<account.token, Stages>>
    <2>1. \/ UNCHANGED serverVars
          \/ \E r \in Requests : Send(t, r)
      BY <1>3 DEF Page, Open, openConnectModal, CancelModal, handleConnect, handleDisconnect, Told,
         Refused, Broken, ListRead, ListShown, ListFails, OtherTold
    <2> QED
      BY <1>1, <2>1, SendRegister
  <1> QED
    BY <1>1, <1>2, <1>3 DEF Next, vars

\* Connecting and disconnecting act as on a register, whatever the handlers' interleaving:
\* the unique constraint and the row counts are enough, without a lock.
THEOREM ConnectorsAreRegister == Spec => ActsAsRegister
  <1>1. IInv /\ [Next]_vars => [Register!Next]_<<account.token, Stages>>
    BY NextRegister DEF IInv
  <1> QED
    BY <1>1, InitRegister, Invariance, PTL DEF Spec, ActsAsRegister, Register!Spec, Stages
=============================================================================
