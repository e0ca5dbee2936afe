------------------------------ MODULE Connectors ------------------------------
(***************************************************************************)
(* A user's connection to one external service: the handlers of            *)
(* api/routes/integrations.py, each cut between its SELECT and its commit, *)
(* and the page ProfileConnectors in several tabs.  Each handler decides   *)
(* by the row it read; uq_user_integration and the row counts of UPDATE    *)
(* are what is left at the commit.  The service is one the server knows,   *)
(* so no request ends in 404.                                              *)
(***************************************************************************)
CONSTANTS
    Connects,      \* POST /integrations/{name}/pat, each with a token of its own
    Disconnects,   \* DELETE /integrations/{name}
    Tabs,          \* tabs that show the page
    Fetches,       \* bound: GET /integrations of one tab in flight
    Nobody         \* no row, no request, no tab

ASSUME RequestsAssumption ==
    /\ Connects \cap Disconnects = {}
    /\ Nobody \notin Connects \cup Disconnects /\ Nobody \notin Tabs

Requests == Connects \cup Disconnects

VARIABLES
    account,   \* the row: the request that inserted it, and the one whose token it has
    at,        \* where each request is
    found,     \* the row its SELECT returned, by the request that inserted it
    asker,     \* the tab that waits for its answer
    tab,       \* what each tab shows
    list,      \* the fetches of each tab: what each has read
    excused    \* history: tabs another page, a failure or an overtaken answer left behind

serverVars == <<account, at, found>>
vars == <<serverVars, asker, tab, list, excused>>

NoAccount == [id |-> Nobody, token |-> Nobody]
Connected == IF account = NoAccount THEN "no" ELSE "yes"

Tab    == [shown : {"nothing", "yes", "no"}, loading : BOOLEAN, modal : BOOLEAN]
Opened == [shown |-> "nothing", loading |-> TRUE, modal |-> FALSE]

\* fetchIntegrations, sent with f.
Fetching(t, f, s) ==
    /\ list[t][f] = "free" /\ list' = [list EXCEPT ![t][f] = "asked"]
    /\ tab' = [tab EXCEPT ![t] = [s EXCEPT !.loading = TRUE]]

Init ==
    /\ account = NoAccount
    /\ at = [r \in Requests |-> "idle"]
    /\ found = [r \in Requests |-> Nobody] /\ asker = [r \in Requests |-> Nobody]
    /\ \E f \in Fetches :
          list = [t \in Tabs |-> [g \in Fetches |-> IF g = f THEN "asked" ELSE "free"]]
    /\ tab = [t \in Tabs |-> Opened]
    /\ excused = {}

-----------------------------------------------------------------------------
(* The server.                                                             *)

\* The two lookups.  A disconnect request that finds no row is answered at once.
Load(r) ==
    /\ at[r] = "sent"
    /\ found' = [found EXCEPT ![r] = account.id]
    /\ at' = [at EXCEPT ![r] = IF r \in Disconnects /\ account = NoAccount THEN "ok" ELSE "loaded"]
    /\ UNCHANGED <<account, asker, tab, list, excused>>

\* The pages that do not wait for r do not learn of what it has changed.
Change(r, row) ==
    /\ account' = row
    /\ excused' = IF Connected' = Connected THEN excused
                                            ELSE excused \cup {t \in Tabs : asker[r] # t}

Commit(r) ==
    /\ at[r] = "loaded" /\ at' = [at EXCEPT ![r] = "ok"]
    /\ UNCHANGED <<found, asker, tab, list>>

\* INSERT, while there still is no row.
Insert(r) ==
    /\ r \in Connects /\ found[r] = Nobody /\ account = NoAccount
    /\ Commit(r) /\ Change(r, [id |-> r, token |-> r])

\* Seeded fault: an UPDATE of no row passes for done.
Update_Unchecked(r) ==
    /\ r \in Connects /\ found[r] # Nobody
    /\ Commit(r)
    /\ Change(r, IF account.id = found[r] THEN [account EXCEPT !.token = r] ELSE account)

\* UPDATE, while there still is the row that was read.
Update(r) ==
    /\ r \in Connects /\ found[r] # Nobody /\ account.id = found[r]
    /\ Commit(r) /\ Change(r, [account EXCEPT !.token = r])

\* DELETE of the row that was read; that it is no longer there is a warning in the log only.
Delete(r) ==
    /\ r \in Disconnects
    /\ Commit(r) /\ Change(r, IF account.id = found[r] THEN NoAccount ELSE account)

\* Seeded fault: a refused commit has written the token.
Conflict_NoRollback(r) ==
    /\ r \in Connects /\ at[r] = "loaded" /\ account.id # found[r]
    /\ at' = [at EXCEPT ![r] = "failed"]
    /\ account' = IF account = NoAccount THEN account ELSE [account EXCEPT !.token = r]
    /\ UNCHANGED <<found, asker, tab, list, excused>>

\* The unique constraint or the row count refuses the commit, and the session rolls back.
Conflict(r) ==
    /\ r \in Connects /\ at[r] = "loaded" /\ account.id # found[r]
    /\ at' = [at EXCEPT ![r] = "failed"]
    /\ UNCHANGED <<account, found, asker, tab, list, excused>>

\* The database fails, or the API process ends.
Interrupt(r) ==
    /\ at[r] \in {"sent", "loaded"} /\ at' = [at EXCEPT ![r] = "failed"]
    /\ UNCHANGED <<account, found, asker, tab, list, excused>>

\* list_integrations.
ListRead(t, f) ==
    /\ list[t][f] = "asked" /\ list' = [list EXCEPT ![t][f] = Connected]
    /\ UNCHANGED <<serverVars, asker, tab, excused>>

-----------------------------------------------------------------------------
(* The page.                                                               *)

\* The page is opened or reloaded: nobody hears the answers its predecessor waited for.
Open(t) ==
    /\ \E f \in Fetches :
          list' = [list EXCEPT ![t] = [g \in Fetches |-> IF g = f THEN "asked" ELSE "free"]]
    /\ tab' = [tab EXCEPT ![t] = Opened]
    /\ asker' = [r \in Requests |-> IF asker[r] = t THEN Nobody ELSE asker[r]]
    /\ excused' = excused \ {t}
    /\ UNCHANGED serverVars

Send(t, r) ==
    /\ at[r] = "idle" /\ at' = [at EXCEPT ![r] = "sent"]
    /\ asker' = [asker EXCEPT ![r] = t]
    /\ UNCHANGED <<account, found, list, excused>>

\* A client that is no page, or a page that is not one of Tabs.
OtherClient(r) == Send(Nobody, r) /\ UNCHANGED tab

connecting(t) == \E c \in Connects : asker[c] = t

openConnectModal(t) ==
    /\ tab[t].shown = "no" /\ ~tab[t].loading /\ ~tab[t].modal
    /\ tab' = [tab EXCEPT ![t].modal = TRUE]
    /\ UNCHANGED <<serverVars, asker, list, excused>>

CancelModal(t) ==
    /\ tab[t].modal /\ ~connecting(t)
    /\ tab' = [tab EXCEPT ![t].modal = FALSE]
    /\ UNCHANGED <<serverVars, asker, list, excused>>

handleConnect(t, r) ==
    /\ r \in Connects /\ tab[t].modal /\ ~connecting(t)
    /\ Send(t, r) /\ UNCHANGED tab

\* The button stays while the request is under way: a second click sends another.
handleDisconnect(t, r) ==
    /\ r \in Disconnects /\ tab[t].shown = "yes" /\ ~tab[t].loading /\ ~tab[t].modal
    /\ Send(t, r) /\ UNCHANGED tab

Heard(r) == asker' = [asker EXCEPT ![r] = Nobody]

\* Seeded fault: the list is not asked for again.
Told_NoFetch(t, r) ==
    /\ asker[r] = t /\ at[r] = "ok" /\ Heard(r)
    /\ tab' = [tab EXCEPT ![t].modal = @ /\ r \in Disconnects]
    /\ UNCHANGED <<serverVars, list, excused>>

\* The request is answered 200.
Told(t, r) ==
    /\ asker[r] = t /\ at[r] = "ok" /\ Heard(r)
    /\ \E f \in Fetches : Fetching(t, f, [tab[t] EXCEPT !.modal = @ /\ r \in Disconnects])
    /\ UNCHANGED <<serverVars, excused>>

\* It is answered with an error; nothing has changed.
Refused(t, r) ==
    /\ asker[r] = t /\ at[r] = "failed" /\ Heard(r)
    /\ UNCHANGED <<serverVars, tab, list, excused>>

\* The connection breaks.  The request goes on, if it still has to.
Broken(t, r) ==
    /\ asker[r] = t /\ at[r] \in {"sent", "loaded", "ok"} /\ Heard(r)
    /\ excused' = IF at[r] = "ok" THEN excused \cup {t} ELSE excused
    /\ UNCHANGED <<serverVars, tab, list>>

\* A list arrives, in whatever order.
ListShown(t, f) ==
    /\ list[t][f] \in {"yes", "no"}
    /\ list' = [list EXCEPT ![t][f] = "free"]
    /\ tab' = [tab EXCEPT ![t] = [@ EXCEPT !.shown = list[t][f], !.loading = FALSE]]
    /\ excused' = IF list[t][f] = Connected THEN excused \ {t} ELSE excused \cup {t}
    /\ UNCHANGED <<serverVars, asker>>

ListFails(t, f) ==
    /\ list[t][f] # "free"
    /\ list' = [list EXCEPT ![t][f] = "free"]
    /\ tab' = [tab EXCEPT ![t].loading = FALSE]
    /\ excused' = excused \cup {t}
    /\ UNCHANGED <<serverVars, asker>>

\* Another service on the page is connected or disconnected.
OtherTold(t, f) ==
    /\ Fetching(t, f, tab[t])
    /\ UNCHANGED <<serverVars, asker, excused>>

Server(r) == Load(r) \/ Insert(r) \/ Update(r) \/ Delete(r) \/ Conflict(r) \/ Interrupt(r)

Page(t) ==
    \/ Open(t) \/ openConnectModal(t) \/ CancelModal(t)
    \/ \E r \in Requests : \/ handleConnect(t, r) \/ handleDisconnect(t, r)
                           \/ Told(t, r) \/ Refused(t, r) \/ Broken(t, r)
    \/ \E f \in Fetches : \/ ListRead(t, f) \/ ListShown(t, f) \/ ListFails(t, f)
                          \/ OtherTold(t, f)

Next == (\E r \in Requests : Server(r) \/ OtherClient(r)) \/ (\E t \in Tabs : Page(t))

Spec == Init /\ [][Next]_vars

-----------------------------------------------------------------------------
(* Properties                                                              *)

Committed == {c \in Connects : at[c] = "ok"}

\* Everything is of its kind, and the row, and the rows requests have read, are the work of
\* connect requests that went through.
TypeOK ==
    /\ account = NoAccount \/ account \in [id : Committed, token : Committed]
    /\ at \in [Requests -> {"idle", "sent", "loaded", "ok", "failed"}]
    /\ found \in [Requests -> Committed \cup {Nobody}]
    /\ asker \in [Requests -> Tabs \cup {Nobody}]
    /\ tab \in [Tabs -> Tab]
    /\ list \in [Tabs -> [Fetches -> {"free", "asked", "yes", "no"}]]
    /\ excused \subseteq Tabs

(***************************************************************************)
(* However requests overlap, they act as on a register, one after the      *)
(* other.  A disconnect request takes effect when the row it read goes,    *)
(* even if another request deletes it and a third connects again before it *)
(* commits.                                                                *)
(***************************************************************************)
stageOf(r) ==
    CASE at[r] = "idle"   -> "idle"
      [] at[r] = "sent"   -> "pending"
      [] at[r] = "loaded" -> IF r \in Disconnects /\ account.id # found[r] THEN "took"
                                                                          ELSE "pending"
      [] at[r] = "ok"     -> "took"
      [] at[r] = "failed" -> "refused"

Register == INSTANCE ConnectorRegister
              WITH value <- account.token, stage <- [r \in Requests |-> stageOf(r)]

ActsAsRegister == Register!Spec

\* A tab that waits for nothing shows whether the service is connected, unless since the
\* last list that was right when it came another page has changed it, an answer was lost,
\* or a list came that had been overtaken.
Waits(t) == (\E f \in Fetches : list[t][f] # "free") \/ (\E r \in Requests : asker[r] = t)

ShownIsTrue == \A t \in Tabs \ excused : Waits(t) \/ tab[t].shown = Connected

=============================================================================
