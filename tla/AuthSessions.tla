----------------------------- MODULE AuthSessions -----------------------------
(***************************************************************************)
(* Sessions as the API server keeps them.  A login or a refresh issues a   *)
(* pair: an access token, which is signed and carries its expiry, and a    *)
(* refresh token, which is a row of refresh_tokens.  A refresh replaces    *)
(* the row by that of a new pair; a logout deletes the row and puts the    *)
(* access token on a block list in Redis for as long as it would live.     *)
(* Every handler is cut at its awaits.                                     *)
(***************************************************************************)
EXTENDS Naturals

CONSTANTS
    Users,
    Refreshers,   \* the refresh requests that may be in flight at once
    Leavers,      \* the clients that may log out, one request of each at a time
    Life,         \* seconds an access token lives
    Parts,        \* the steps the clock takes within a second
    MaxPairs,     \* bound: pairs issued
    MaxRequests,  \* bound: requests sent
    MaxSec        \* bound: the clock

ASSUME AuthAssumption ==
    /\ Life \in Nat \ {0} /\ Parts \in Nat \ {0}
    /\ MaxPairs \in Nat /\ MaxRequests \in Nat /\ MaxSec \in Nat

VARIABLES
    pair,         \* what there is of each pair
    issued,       \* how many there are
    requests,     \* the requests sent so far
    sec, part,    \* the clock
    refreshing,   \* the pair each refresh request has found a row for; 0: none
    leave,        \* the logout requests
    overlapped,   \* history: the pairs whose row a second request found in use
    closed,       \* history: the pairs whose row a logout deleted
    loggedOut     \* history: the pairs whose access token a logout has been through with

history  == <<overlapped, closed, loggedOut>>
authVars == <<pair, issued, requests, sec, part, refreshing, leave, history>>

Ids   == 1 .. MaxPairs
Never == <<0, 0>>      \* the end of a block that never was
Nobody == "nobody"

\* until: when the block of the access token ends.
Pair  == [row : {"none", "stored", "gone"}, owner : Users \cup {Nobody}, parent : 0 .. MaxPairs,
          exp : Nat, until : Nat \X (0 .. Parts)]
Leave == [at : {"idle", "sent", "known", "deleted"}, access : 0 .. MaxPairs, refresh : 0 .. MaxPairs]

NoLeave == [at |-> "idle", access |-> 0, refresh |-> 0]

InitAuth ==
    /\ pair = [p \in Ids |-> [row |-> "none", owner |-> Nobody, parent |-> 0,
                              exp |-> 0, until |-> Never]]
    /\ issued = 0 /\ requests = 0 /\ sec = 0 /\ part = 0
    /\ refreshing = [f \in Refreshers |-> 0]
    /\ leave = [c \in Leavers |-> NoLeave]
    /\ overlapped = {} /\ closed = {} /\ loggedOut = {}

-----------------------------------------------------------------------------
(* Tokens                                                                  *)

\* The expiry is cut to whole seconds, and so is the clock it is compared with: a token
\* is good until the last second it names is over.
Unexpired(p) == sec <= pair[p].exp

Blocked(p) == \/ sec < pair[p].until[1]
              \/ sec = pair[p].until[1] /\ part < pair[p].until[2]

\* get_current_user.
Accepted(p) == Unexpired(p) /\ ~Blocked(p)

\* Seeded fault: the last second is not counted.
BlockEnd_Short(p) == <<sec + (pair[p].exp - sec) - 1, part>>

\* Redis keeps a key for the seconds it was set for, counted from the moment it was set.
BlockEnd(p) == <<sec + (pair[p].exp - sec), part>>

Row(p, state) == pair' = [pair EXCEPT ![p].row = state]

NewPair(u, parent) ==
    [row |-> "stored", owner |-> u, parent |-> parent, exp |-> sec + Life, until |-> Never]

-----------------------------------------------------------------------------
(* Requests                                                                *)

Request == requests < MaxRequests /\ requests' = requests + 1

\* Seeded fault: the new row is not committed.
Login_NoRow(u) ==
    /\ Request /\ issued < MaxPairs
    /\ issued' = issued + 1
    /\ pair' = [pair EXCEPT ![issued + 1] = [NewPair(u, 0) EXCEPT !.row = "none"]]
    /\ UNCHANGED <<sec, part, refreshing, leave, history>>

Login(u) ==
    /\ Request /\ issued < MaxPairs
    /\ issued' = issued + 1
    /\ pair' = [pair EXCEPT ![issued + 1] = NewPair(u, 0)]
    /\ UNCHANGED <<sec, part, refreshing, leave, history>>

\* Seeded fault: a row that is there is good, whatever became of it.
RefreshLoad_AnyRow(f, p) ==
    /\ Request /\ refreshing[f] = 0 /\ pair[p].row # "none"
    /\ refreshing' = [refreshing EXCEPT ![f] = p]
    /\ overlapped' = overlapped \cup {q \in {p} : \E g \in Refreshers : refreshing[g] = p}
    /\ UNCHANGED <<pair, issued, sec, part, leave, closed, loggedOut>>

\* refresh_token up to the checks.  One that fails them changes nothing, so a row past its
\* expires_at, which nothing ever removes, is one that no request here asks for.
RefreshLoad(f, p) ==
    /\ Request /\ refreshing[f] = 0 /\ pair[p].row = "stored"
    /\ refreshing' = [refreshing EXCEPT ![f] = p]
    /\ overlapped' = overlapped \cup {q \in {p} : \E g \in Refreshers : refreshing[g] = p}
    /\ UNCHANGED <<pair, issued, sec, part, leave, closed, loggedOut>>

\* Seeded fault: the old row is not deleted.
RefreshCommit_KeepsRow(f) ==
    LET p == refreshing[f] IN
    /\ p # 0 /\ issued < MaxPairs
    /\ issued' = issued + 1
    /\ pair' = [pair EXCEPT ![issued + 1] = NewPair(pair[p].owner, p)]
    /\ refreshing' = [refreshing EXCEPT ![f] = 0]
    /\ UNCHANGED <<requests, sec, part, leave, history>>

\* One transaction deletes the old row and inserts the new one.  That the old one is no
\* longer there to delete is a warning and no error.
RefreshCommit(f) ==
    LET p == refreshing[f] IN
    /\ p # 0 /\ issued < MaxPairs
    /\ issued' = issued + 1
    /\ pair' = [pair EXCEPT ![p].row = "gone",
                            ![issued + 1] = NewPair(pair[p].owner, p)]
    /\ refreshing' = [refreshing EXCEPT ![f] = 0]
    /\ UNCHANGED <<requests, sec, part, leave, history>>

\* The request fails, or the server dies, before the commit.
RefreshDrop(f) ==
    /\ refreshing[f] # 0
    /\ refreshing' = [refreshing EXCEPT ![f] = 0]
    /\ UNCHANGED <<requests, pair, issued, sec, part, leave, history>>

LogoutSend(c, access, refresh) ==
    /\ Request /\ leave[c] = NoLeave
    /\ leave' = [leave EXCEPT ![c] = [at |-> "sent", access |-> access, refresh |-> refresh]]
    /\ UNCHANGED <<pair, issued, sec, part, refreshing, history>>

\* The dependency runs first: a token that is not accepted is answered 401, and the
\* refresh token stays.
LogoutAuth(c) ==
    /\ leave[c].at = "sent"
    /\ leave' = [leave EXCEPT ![c] = IF Accepted(@.access) THEN [@ EXCEPT !.at = "known"]
                                                           ELSE NoLeave]
    /\ UNCHANGED <<requests, pair, issued, sec, part, refreshing, history>>

\* The row named by the body, if it is there.  That it is read before it is deleted makes no
\* difference: one that a refresh takes in between is deleted as nothing, which is a warning.
LogoutDelete(c) ==
    LET p == leave[c].refresh
        found == pair[p].row = "stored" IN
    /\ leave[c].at = "known"
    /\ leave' = [leave EXCEPT ![c].at = "deleted"]
    /\ IF found
         THEN /\ Row(p, "gone")
              /\ closed' = closed \cup {p}
              /\ overlapped' = overlapped \cup
                                   {q \in {p} : \E f \in Refreshers : refreshing[f] = p}
         ELSE UNCHANGED <<pair, closed, overlapped>>
    /\ UNCHANGED <<requests, issued, sec, part, refreshing, loggedOut>>

\* The token of the header, unless it is in its last second or past it by now.
LogoutBlock(c) ==
    LET p == leave[c].access IN
    /\ leave[c].at = "deleted"
    /\ leave' = [leave EXCEPT ![c] = NoLeave]
    /\ IF sec < pair[p].exp
         THEN pair' = [pair EXCEPT ![p].until = BlockEnd(p)]
         ELSE UNCHANGED pair
    /\ loggedOut' = loggedOut \cup {p}
    /\ UNCHANGED <<requests, issued, sec, part, refreshing, overlapped, closed>>

\* Redis fails: at the block, where that is logged and the answer is the same, or in the
\* dependency, which answers 500; or the request is lost, or the server dies under it.
LogoutDrop(c) ==
    /\ leave[c] # NoLeave
    /\ leave' = [leave EXCEPT ![c] = NoLeave]
    /\ UNCHANGED <<requests, pair, issued, sec, part, refreshing, history>>

\* A request that only asks who it is from, as GET /me is.
Me == Request /\ UNCHANGED <<pair, issued, sec, part, refreshing, leave, history>>

-----------------------------------------------------------------------------
(* Time                                                                    *)

Tick ==
    /\ sec < MaxSec
    /\ \/ part + 1 < Parts /\ part' = part + 1 /\ UNCHANGED sec
       \/ part + 1 = Parts /\ part' = 0 /\ sec' = sec + 1
    /\ UNCHANGED <<requests, pair, issued, refreshing, leave, history>>

Refresh(f) == (\E p \in Ids : RefreshLoad(f, p)) \/ RefreshCommit(f) \/ RefreshDrop(f)
Logout(c)  == LogoutAuth(c) \/ LogoutDelete(c) \/ LogoutBlock(c) \/ LogoutDrop(c)

Next ==
    \/ \E u \in Users : Login(u)
    \/ \E f \in Refreshers : Refresh(f)
    \/ \E c \in Leavers : Logout(c) \/ \E a, r \in 1 .. issued : LogoutSend(c, a, r)
    \/ Me \/ Tick

Spec == InitAuth /\ [][Next]_authVars

-----------------------------------------------------------------------------
(* Properties                                                              *)

AuthTypeOK ==
    /\ pair \in [Ids -> Pair] /\ issued \in 0 .. MaxPairs /\ requests \in 0 .. MaxRequests
    /\ \A p \in Ids : pair[p].row = "none" <=> p > issued
    /\ sec \in Nat /\ part \in 0 .. Parts - 1
    /\ refreshing \in [Refreshers -> 0 .. issued]
    /\ leave \in [Leavers -> Leave]
    /\ \A c \in Leavers : leave[c].at # "idle" => leave[c].access \in 1 .. issued
                                                  /\ leave[c].refresh \in 1 .. issued
    /\ overlapped \subseteq 1 .. issued /\ closed \subseteq 1 .. issued
    /\ loggedOut \subseteq 1 .. issued

\* A token that a logout has been through with is refused but for one gap: jose takes a token
\* until the second it expires in is over, while its block ends within that second, at the part
\* of the second the block was set in, and one that logs out in that second sets no block.
\* In the gap it is accepted, and at no other time, however often it is logged out
\* (utils/security.py add_token_to_blocklist and is_token_blocked, decode_token).
LogoutHolds ==
    \A p \in loggedOut :
        Accepted(p) <=> sec = pair[p].exp /\ pair[p].until[2] <= part

Children(p) == {q \in 1 .. issued : pair[q].parent = p}

\* A refresh token is good for one new pair, however requests for it are repeated, lost
\* or dropped, unless two of them had found its row at once.
RotationExplained ==
    \A p \in 1 .. issued \ overlapped : \A q, r \in Children(p) : q = r

\* A session whose refresh token a logout deleted is over: the row stays away and no pair
\* descends from it, unless a refresh had found the row before it was deleted.
SessionOver == \A p \in closed \ overlapped : pair[p].row = "gone" /\ Children(p) = {}
=============================================================================
