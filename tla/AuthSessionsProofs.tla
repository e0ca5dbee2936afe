-------------------------- MODULE AuthSessionsProofs --------------------------
(***************************************************************************)
(* Proofs about sessions, for every number of clients, pairs and requests: *)
(* first of the server alone, then of the server under the web page, each  *)
(* step of which is a step of the server or leaves it alone.               *)
(***************************************************************************)
EXTENDS AuthPage, TLAPS

USE DEF history

\* A pair descends from one that was issued.
Parents == \A q \in 1 .. issued : pair[q].parent \in 0 .. issued

\* Where requests did not overlap, a row that is still there has not been used, and a
\* refresh request that found a row finds it there and is the only one that did.
Unspent == \A p \in 1 .. issued \ overlapped : pair[p].row = "stored" => Children(p) = {}

Held ==
    \A f \in Refreshers : refreshing[f] # 0 /\ refreshing[f] \notin overlapped =>
        /\ pair[refreshing[f]].row = "stored"
        /\ \A g \in Refreshers : refreshing[g] = refreshing[f] => g = f

\* A block ends in the second the token expires in, which is not the first of all.
Ends ==
    \A p \in 1 .. issued :
        pair[p].exp > 0 /\ (pair[p].until = Never \/ pair[p].until[1] = pair[p].exp)

\* A logout sets a block while there is a second left for it.
Through == \A p \in loggedOut : pair[p].until # Never \/ pair[p].exp <= sec

AuthInv ==
    /\ AuthTypeOK
    /\ Parents
    /\ Unspent
    /\ Held
    /\ Ends
    /\ Through
    /\ RotationExplained
    /\ SessionOver

\* Nothing has been issued.
LEMMA InitAuthInv == InitAuth => AuthInv
  <1> SUFFICES ASSUME InitAuth PROVE AuthInv
    OBVIOUS
  <1> USE AuthAssumption DEF AuthAssumption, InitAuth
  <1>1. AuthTypeOK
    <2>1. 0 \in 0 .. MaxPairs /\ 0 \in 0 .. MaxRequests /\ 0 \in 0 .. Parts /\ 0 \in 0 .. Parts - 1
      OBVIOUS
    <2>2. [row |-> "none", owner |-> Nobody, parent |-> 0, exp |-> 0, until |-> Never] \in Pair
      BY <2>1 DEF Pair, Never
    <2>3. NoLeave \in Leave /\ NoLeave.at = "idle"
      BY <2>1 DEF NoLeave, Leave
    <2>4. \A p \in Ids : p > 0
      BY DEF Ids
    <2> QED
      BY <2>1, <2>2, <2>3, <2>4 DEF AuthTypeOK
  <1>2. 1 .. issued = {}
    OBVIOUS
  <1> QED
    BY <1>1, <1>2 DEF AuthInv, Parents, Unspent, Held, Ends, Through, RotationExplained, SessionOver

-----------------------------------------------------------------------------
(* Types                                                                   *)

\* A row that changes its state changes nothing else.
LEMMA RowTypeOK ==
    ASSUME AuthTypeOK, NEW p \in 1 .. issued, Row(p, "gone")
    PROVE  /\ pair' \in [Ids -> Pair]
           /\ \A q \in Ids : pair'[q].row = "none" <=> pair[q].row = "none"
  <1>1. p \in Ids /\ pair[p] \in Pair /\ pair[p].row # "none"
    BY AuthAssumption DEF AuthAssumption, AuthTypeOK, Ids
  <1>2. [pair[p] EXCEPT !.row = "gone"] \in Pair
    BY <1>1 DEF Pair
  <1> QED
    BY <1>1, <1>2 DEF AuthTypeOK, Row

LEMMA NewPairTypeOK ==
    ASSUME AuthTypeOK, NEW u \in Users \cup {Nobody}, NEW parent \in 0 .. MaxPairs
    PROVE  NewPair(u, parent) \in Pair
  <1>1. sec + Life \in Nat /\ Never \in Nat \X (0 .. Parts)
    BY AuthAssumption DEF AuthAssumption, AuthTypeOK, Never
  <1> QED
    BY <1>1 DEF NewPair, Pair

LEMMA LoginType ==
    ASSUME AuthTypeOK, NEW u \in Users, Login(u)
    PROVE  AuthTypeOK'
  <1> USE AuthAssumption DEF AuthAssumption, AuthTypeOK, Ids
  <1>1. NewPair(u, 0) \in Pair /\ NewPair(u, 0).row = "stored"
    BY NewPairTypeOK DEF NewPair
  <1>2. issued' \in 0 .. MaxPairs /\ requests' \in 0 .. MaxRequests /\ issued' = issued + 1
    BY DEF Login, Request
  <1>3. pair' \in [Ids -> Pair] /\ \A p \in Ids : pair'[p].row = "none" <=> p > issued'
    BY <1>1, <1>2 DEF Login
  <1> QED
    BY <1>2, <1>3 DEF Login

LEMMA RefreshType ==
    ASSUME AuthTypeOK, NEW f \in Refreshers, Refresh(f)
    PROVE  AuthTypeOK'
  <1> USE AuthAssumption DEF AuthAssumption, AuthTypeOK, Ids
  <1>1. ASSUME NEW p \in Ids, RefreshLoad(f, p) PROVE AuthTypeOK'
    <2>1. p \in 1 .. issued
      BY <1>1 DEF RefreshLoad
    <2>2. refreshing' \in [Refreshers -> 0 .. issued]
      BY <1>1, <2>1 DEF RefreshLoad
    <2>3. overlapped' \subseteq 1 .. issued
      BY <1>1, <2>1 DEF RefreshLoad
    <2>4. requests' \in 0 .. MaxRequests
      BY <1>1 DEF RefreshLoad, Request
    <2>5. UNCHANGED <<pair, issued, sec, part, leave, closed, loggedOut>>
      BY <1>1 DEF RefreshLoad
    <2> QED
      BY <2>2, <2>3, <2>4, <2>5
  <1>2. CASE RefreshCommit(f)
    <2>0. refreshing[f] \in 1 .. issued
      BY <1>2 DEF RefreshCommit
    <2>1. PICK p \in 1 .. issued :
            /\ issued < MaxPairs /\ issued' = issued + 1
            /\ pair' = [pair EXCEPT ![p].row = "gone",
                                   ![issued + 1] = NewPair(pair[p].owner, p)]
            /\ refreshing' = [refreshing EXCEPT ![f] = 0]
      BY <1>2, <2>0, Zenon DEF RefreshCommit
    <2>2. p \in Ids /\ p \in 0 .. MaxPairs /\ issued + 1 \in Ids /\ issued' \in 0 .. MaxPairs
      BY <2>1
    <2>3. pair[p] \in Pair /\ pair[p].owner \in Users \cup {Nobody} /\ pair[p].row # "none"
      BY <2>2 DEF Pair
    <2>4. NewPair(pair[p].owner, p) \in Pair
      BY <2>2, <2>3, NewPairTypeOK
    <2>5. [pair[p] EXCEPT !.row = "gone"] \in Pair
      BY <2>3 DEF Pair
    <2>6. pair' \in [Ids -> Pair]
      BY <2>1, <2>2, <2>4, <2>5
    <2>7. NewPair(pair[p].owner, p).row = "stored"
      BY DEF NewPair
    <2>8. \A q \in Ids : pair'[q].row = IF q = issued + 1 THEN "stored"
                                        ELSE IF q = p THEN "gone" ELSE pair[q].row
      BY <2>1, <2>2, <2>3, <2>7 DEF Pair
    <2>9. ASSUME NEW q \in Ids PROVE pair'[q].row = "none" <=> q > issued'
      <3>1. issued' = issued + 1 /\ p <= issued /\ (pair[q].row = "none" <=> q > issued)
        BY <2>1
      <3>2. CASE q = issued + 1
        BY <2>8, <3>1, <3>2
      <3>3. CASE q # issued + 1
        BY <2>8, <3>1, <3>3
      <3> QED
        BY <3>2, <3>3
    <2>10. refreshing' \in [Refreshers -> 0 .. issued']
      BY <2>1
    <2>11. \A S : S \subseteq 1 .. issued => S \subseteq 1 .. issued'
      BY <2>1
    <2>12. UNCHANGED <<requests, sec, part, leave, overlapped, closed, loggedOut>>
      BY <1>2 DEF RefreshCommit
    <2> QED
      BY <2>2, <2>6, <2>9, <2>10, <2>11, <2>12
  <1>3. CASE RefreshDrop(f)
    BY <1>3 DEF RefreshDrop
  <1> QED
    BY <1>1, <1>2, <1>3 DEF Refresh

LEMMA LogoutType ==
    ASSUME AuthTypeOK, NEW c \in Leavers, Logout(c)
    PROVE  AuthTypeOK'
  <1> USE AuthAssumption DEF AuthAssumption, AuthTypeOK, Ids, Leave
  <1>1. CASE LogoutAuth(c)
    <2>1. leave' \in [Leavers -> Leave]
          /\ \A d \in Leavers : leave'[d].at # "idle" =>
               leave[d].at # "idle" /\ leave'[d].access = leave[d].access
                                    /\ leave'[d].refresh = leave[d].refresh
      BY <1>1 DEF LogoutAuth, NoLeave
    <2>2. UNCHANGED <<requests, pair, issued, sec, part, refreshing, overlapped, closed, loggedOut>>
      BY <1>1 DEF LogoutAuth
    <2> QED
      BY <2>1, <2>2
  <1>2. CASE LogoutDelete(c)
    <2>1. leave' \in [Leavers -> Leave]
          /\ \A d \in Leavers : leave'[d].access = leave[d].access
                                /\ leave'[d].refresh = leave[d].refresh
                                /\ (leave'[d].at # "idle" => leave[d].at # "idle")
      BY <1>2 DEF LogoutDelete
    <2>2. leave[c].refresh \in 1 .. issued
      BY <1>2 DEF LogoutDelete
    <2>3. CASE pair[leave[c].refresh].row = "stored"
      <3>1. Row(leave[c].refresh, "gone")
        BY <1>2, <2>3 DEF LogoutDelete
      <3>2. /\ pair' \in [Ids -> Pair]
            /\ \A q \in Ids : pair'[q].row = "none" <=> pair[q].row = "none"
        BY <2>2, <3>1, RowTypeOK
      <3>3. closed' \subseteq 1 .. issued /\ overlapped' \subseteq 1 .. issued
        BY <1>2, <2>2, <2>3 DEF LogoutDelete
      <3> QED
        BY <1>2, <2>1, <3>2, <3>3 DEF LogoutDelete
    <2>4. CASE pair[leave[c].refresh].row # "stored"
      BY <1>2, <2>1, <2>4 DEF LogoutDelete
    <2> QED
      BY <2>3, <2>4
  <1>3. CASE LogoutBlock(c)
    <2> DEFINE p == leave[c].access
    <2>1. leave' \in [Leavers -> Leave]
          /\ \A d \in Leavers : leave'[d].at # "idle" => leave'[d] = leave[d]
      BY <1>3 DEF LogoutBlock, NoLeave
    <2>2. p \in 1 .. issued /\ p \in Ids /\ pair[p] \in Pair
      BY <1>3 DEF LogoutBlock
    <2> HIDE DEF p
    <2>3. CASE sec < pair[p].exp
      <3>1. pair[p].exp \in Nat /\ part \in 0 .. Parts
        BY <2>2 DEF Pair
      <3>a. sec + (pair[p].exp - sec) = pair[p].exp
        BY <3>1
      <3>b. BlockEnd(p) \in Nat \X (0 .. Parts)
        BY <3>1, <3>a DEF BlockEnd
      <3>2. [pair[p] EXCEPT !.until = BlockEnd(p)] \in Pair
            /\ [pair[p] EXCEPT !.until = BlockEnd(p)].row = pair[p].row
        BY <2>2, <3>b DEF Pair
      <3>3. pair' = [pair EXCEPT ![p] = [pair[p] EXCEPT !.until = BlockEnd(p)]]
        BY <1>3, <2>3 DEF LogoutBlock, p
      <3>4. pair' \in [Ids -> Pair] /\ \A q \in Ids : pair'[q].row = pair[q].row
        BY <2>2, <3>2, <3>3
      <3> QED
        BY <1>3, <2>1, <3>4 DEF LogoutBlock
    <2>4. CASE ~(sec < pair[p].exp)
      BY <1>3, <2>1, <2>4 DEF LogoutBlock, p
    <2> QED
      BY <2>3, <2>4
  <1>4. CASE LogoutDrop(c)
    BY <1>4 DEF LogoutDrop, NoLeave
  <1> QED
    BY <1>1, <1>2, <1>3, <1>4 DEF Logout

LEMMA LogoutSendType ==
    ASSUME AuthTypeOK, NEW c \in Leavers, NEW a \in 1 .. issued, NEW r \in 1 .. issued,
           LogoutSend(c, a, r)
    PROVE  AuthTypeOK'
  <1> USE AuthAssumption DEF AuthAssumption, AuthTypeOK, Ids, Leave
  <1>1. [at |-> "sent", access |-> a, refresh |-> r] \in Leave
    OBVIOUS
  <1> QED
    BY <1>1 DEF LogoutSend, Request

LEMMA TickType == AuthTypeOK /\ Tick => AuthTypeOK'
  BY AuthAssumption DEF AuthAssumption, AuthTypeOK, Tick

LEMMA MeType == AuthTypeOK /\ Me => AuthTypeOK'
  BY AuthAssumption DEF AuthAssumption, AuthTypeOK, Me, Request

-----------------------------------------------------------------------------
(* Sessions                                                                *)

Sessions == Parents /\ Unspent /\ Held /\ Ends /\ RotationExplained /\ SessionOver

\* What a step leaves alone.
LEMMA SessionsStutter ==
    ASSUME Sessions, UNCHANGED <<pair, issued, refreshing, overlapped, closed>>
    PROVE  Sessions'
  BY DEF Sessions, Parents, Unspent, Held, Ends, RotationExplained, SessionOver, Children, Never

\* A new pair is a child of its parent only, and has no children.
LEMMA ChildrenGrow ==
    ASSUME AuthTypeOK, Parents, NEW n, n = issued + 1, issued' = n, NEW parent \in 0 .. issued,
           \A q \in 1 .. issued : pair'[q].parent = pair[q].parent,
           pair'[n].parent = parent
    PROVE  /\ Parents'
           /\ Children(n)' = {}
           /\ \A p \in 1 .. issued :
                Children(p)' = Children(p) \cup {q \in {n} : p = parent}
  <1>1. issued \in Nat /\ 1 .. issued' = 1 .. issued \cup {n} /\ n \notin 1 .. issued
    BY AuthAssumption DEF AuthAssumption, AuthTypeOK
  <1>2. \A q \in 1 .. issued' : pair'[q].parent = IF q = n THEN parent ELSE pair[q].parent
    BY <1>1
  <1>3. Parents'
    BY <1>1, <1>2 DEF Parents
  <1>4. \A q \in 1 .. issued' : pair'[q].parent # n
    BY <1>1, <1>2 DEF Parents
  <1>5. Children(n)' = {}
    BY <1>1, <1>4 DEF Children
  <1>6. \A p \in 1 .. issued : Children(p)' = Children(p) \cup {q \in {n} : p = parent}
    BY <1>1, <1>2 DEF Children
  <1> QED
    BY <1>3, <1>5, <1>6

LEMMA LoginSessions ==
    ASSUME AuthTypeOK, Sessions, NEW u \in Users, Login(u)
    PROVE  Sessions'
  <1> USE DEF Sessions
  <1>0. PICK n : n = issued + 1
    OBVIOUS
  <1>1. /\ issued \in Nat /\ n = issued + 1 /\ issued' = n /\ n \in Ids
        /\ 1 .. issued' = 1 .. issued \cup {n} /\ n \notin 1 .. issued
        /\ 1 .. issued \subseteq Ids
        /\ overlapped \subseteq 1 .. issued /\ closed \subseteq 1 .. issued
    BY AuthAssumption, <1>0 DEF AuthAssumption, AuthTypeOK, Login, Ids
  <1>2. pair'[n] = NewPair(u, 0) /\ \A q \in 1 .. issued : pair'[q] = pair[q]
    BY <1>1 DEF Login, AuthTypeOK
  <1>3. /\ Parents' /\ Children(n)' = {}
        /\ \A p \in 1 .. issued : Children(p)' = Children(p)
    <2>1. pair'[n].parent = 0 /\ 0 \in 0 .. issued /\ 0 \notin 1 .. issued
      BY <1>1, <1>2 DEF NewPair
    <2>2. \A q \in 1 .. issued : pair'[q].parent = pair[q].parent
      BY <1>2
    <2>3. /\ Parents' /\ Children(n)' = {}
          /\ \A p \in 1 .. issued : Children(p)' = Children(p) \cup {q \in {n} : p = 0}
      BY <1>1, <2>1, <2>2, ChildrenGrow
    <2> QED
      BY <2>1, <2>3
  <1>4. UNCHANGED <<refreshing, overlapped, closed>>
    BY DEF Login
  <1>5. Unspent'
    BY <1>1, <1>2, <1>3, <1>4 DEF Unspent
  <1>6. Held'
    <2>1. \A f \in Refreshers : refreshing[f] # 0 => refreshing[f] \in 1 .. issued
      BY <1>1 DEF AuthTypeOK
    <2> QED
      BY <1>2, <1>4, <2>1 DEF Held
  <1>7. Ends'
    BY <1>1, <1>2, AuthAssumption DEF AuthAssumption, AuthTypeOK, Ends, NewPair, Never
  <1>8. RotationExplained'
    BY <1>1, <1>3, <1>4 DEF RotationExplained
  <1>9. SessionOver'
    BY <1>1, <1>2, <1>3, <1>4 DEF SessionOver
  <1> QED
    BY <1>3, <1>5, <1>6, <1>7, <1>8, <1>9

LEMMA LoadSessions ==
    ASSUME AuthTypeOK, Sessions, NEW f \in Refreshers, NEW p \in Ids, RefreshLoad(f, p)
    PROVE  Sessions'
  <1> USE DEF Sessions
  <1>1. /\ UNCHANGED <<pair, issued, closed>> /\ overlapped \subseteq overlapped'
        /\ refreshing' = [refreshing EXCEPT ![f] = p]
        /\ pair[p].row = "stored"
        /\ p \notin overlapped' => \A g \in Refreshers : refreshing[g] # p
        /\ \A q : q # p /\ q \in overlapped' => q \in overlapped
    BY DEF RefreshLoad
  <1>2. \A q : Children(q)' = Children(q)
    BY <1>1 DEF Children
  <1>3. Parents' /\ Ends'
    BY <1>1 DEF Parents, Ends, Never
  <1>4. Unspent' /\ RotationExplained' /\ SessionOver'
    BY <1>1, <1>2 DEF Unspent, RotationExplained, SessionOver
  <1>5. Held'
    <2>1. refreshing \in [Refreshers -> 0 .. issued]
      BY DEF AuthTypeOK
    <2>2. \A g \in Refreshers : refreshing'[g] = IF g = f THEN p ELSE refreshing[g]
      BY <1>1, <2>1
    <2> QED
      BY <1>1, <2>2 DEF Held
  <1> QED
    BY <1>3, <1>4, <1>5

LEMMA CommitSessions ==
    ASSUME AuthTypeOK, Sessions, NEW f \in Refreshers, RefreshCommit(f)
    PROVE  Sessions'
  <1> USE DEF Sessions
  <1>0. refreshing \in [Refreshers -> 0 .. issued] /\ refreshing[f] \in 1 .. issued
    BY DEF AuthTypeOK, RefreshCommit
  <1>n. PICK n : n = issued + 1
    OBVIOUS
  <1>1. PICK p \in 1 .. issued :
          /\ p = refreshing[f] /\ issued < MaxPairs /\ issued' = n
          /\ pair' = [pair EXCEPT ![p].row = "gone",
                                 ![n] = NewPair(pair[p].owner, p)]
          /\ refreshing' = [refreshing EXCEPT ![f] = 0]
          /\ UNCHANGED <<overlapped, closed>>
    BY <1>0, <1>n, Zenon DEF RefreshCommit
  <1>2. /\ issued \in Nat /\ n = issued + 1 /\ issued' = n /\ n \in Ids
        /\ 1 .. issued' = 1 .. issued \cup {n} /\ n \notin 1 .. issued
        /\ 1 .. issued \subseteq Ids
        /\ overlapped \subseteq 1 .. issued /\ closed \subseteq 1 .. issued
    <2>1. issued \in Nat /\ issued <= MaxPairs /\ MaxPairs \in Nat
          /\ overlapped \subseteq 1 .. issued /\ closed \subseteq 1 .. issued
      BY AuthAssumption DEF AuthAssumption, AuthTypeOK
    <2> QED
      BY <1>n, <1>1, <2>1 DEF Ids
  <1>3. /\ pair'[n] = NewPair(pair[p].owner, p)
        /\ pair'[p] = [pair[p] EXCEPT !.row = "gone"]
        /\ \A q \in 1 .. issued \ {p} : pair'[q] = pair[q]
    BY <1>1, <1>2 DEF AuthTypeOK
  <1>4. /\ \A q \in 1 .. issued : /\ pair'[q].parent = pair[q].parent
                                 /\ pair'[q].until = pair[q].until /\ pair'[q].exp = pair[q].exp
        /\ pair'[p].row = "gone"
        /\ pair'[n].parent = p /\ pair'[n].until = Never
    <2>1. pair[p] \in Pair
      BY <1>2 DEF AuthTypeOK
    <2> QED
      BY <1>2, <1>3, <2>1 DEF Pair, NewPair
  <1>5. /\ Parents' /\ Children(n)' = {}
        /\ \A q \in 1 .. issued :
             Children(q)' = Children(q) \cup {m \in {n} : q = p}
    BY <1>2, <1>4, ChildrenGrow
  <1>c. /\ \A q \in 1 .. issued \ {p} : Children(q)' = Children(q)
        /\ Children(p)' = Children(p) \cup {n}
    BY <1>5
  <1>r. \A q \in 1 .. issued \ {p} : pair'[q].row = pair[q].row
    BY <1>3
  <1>6. p \notin overlapped => /\ pair[p].row = "stored" /\ Children(p) = {}
                               /\ \A g \in Refreshers : refreshing[g] = p => g = f
    BY <1>1 DEF Held, Unspent
  <1>7. Unspent'
    <2>1. ASSUME NEW q \in 1 .. issued' \ overlapped', pair'[q].row = "stored"
          PROVE  Children(q)' = {}
      <3>1. q \notin overlapped /\ q # p
        BY <1>1, <1>4, <2>1
      <3>2. CASE q = n
        BY <1>5, <3>2
      <3>3. CASE q \in 1 .. issued \ {p}
        BY <1>c, <1>r, <2>1, <3>1, <3>3 DEF Unspent
      <3> QED
        BY <1>2, <3>1, <3>2, <3>3
    <2> QED
      BY <2>1 DEF Unspent
  <1>8. Held'
    <2>1. \A g \in Refreshers : refreshing'[g] = IF g = f THEN 0 ELSE refreshing[g]
      BY <1>0, <1>1
    <2>2. ASSUME NEW g \in Refreshers, refreshing'[g] # 0, refreshing'[g] \notin overlapped'
          PROVE  /\ pair'[refreshing'[g]].row = "stored"
                 /\ \A h \in Refreshers : refreshing'[h] = refreshing'[g] => h = g
      <3>1. g # f /\ refreshing'[g] = refreshing[g] /\ refreshing[g] \notin overlapped
        BY <1>1, <2>1, <2>2
      <3>2. refreshing[g] \in 1 .. issued
        BY <1>0, <2>2, <3>1
      <3>3. pair[refreshing[g]].row = "stored"
            /\ \A h \in Refreshers : refreshing[h] = refreshing[g] => h = g
        BY <2>2, <3>1 DEF Held
      <3>4. refreshing[g] # p
        BY <1>1, <3>1, <3>3
      <3> QED
        BY <1>r, <2>1, <2>2, <3>1, <3>2, <3>3, <3>4
    <2> QED
      BY <2>2 DEF Held
  <1>9. Ends'
    <2>1. pair'[n].exp > 0
      BY <1>3, AuthAssumption DEF AuthAssumption, AuthTypeOK, NewPair
    <2> QED
      BY <1>2, <1>4, <2>1 DEF Ends, Never
  <1>10. RotationExplained'
    <2>1. ASSUME NEW q \in 1 .. issued' \ overlapped'
          PROVE  \A m, k \in Children(q)' : m = k
      <3>1. CASE q = n
        BY <1>5, <3>1
      <3>2. CASE q = p
        BY <1>1, <1>c, <1>6, <2>1, <3>2
      <3>3. CASE q \in 1 .. issued \ {p}
        BY <1>1, <1>c, <2>1, <3>3 DEF RotationExplained
      <3> QED
        BY <1>2, <3>1, <3>2, <3>3
    <2> QED
      BY <2>1 DEF RotationExplained
  <1>11. SessionOver'
    <2>1. ASSUME NEW q \in closed' \ overlapped' PROVE pair'[q].row = "gone" /\ Children(q)' = {}
      <3>1. q \in closed \ overlapped /\ q \in 1 .. issued
        BY <1>1, <1>2, <2>1
      <3>2. pair[q].row = "gone" /\ Children(q) = {}
        BY <3>1 DEF SessionOver
      <3>3. q # p
        BY <1>6, <3>1, <3>2
      <3> QED
        BY <1>c, <1>r, <3>1, <3>2, <3>3
    <2> QED
      BY <2>1 DEF SessionOver
  <1> QED
    BY <1>5, <1>7, <1>8, <1>9, <1>10, <1>11

LEMMA DropSessions ==
    ASSUME AuthTypeOK, Sessions, NEW f \in Refreshers, RefreshDrop(f)
    PROVE  Sessions'
  <1> USE DEF Sessions
  <1>1. UNCHANGED <<pair, issued, overlapped, closed>> /\ refreshing' = [refreshing EXCEPT ![f] = 0]
    BY DEF RefreshDrop
  <1>2. \A g \in Refreshers : refreshing'[g] = IF g = f THEN 0 ELSE refreshing[g]
    BY <1>1 DEF AuthTypeOK
  <1>3. Held'
    BY <1>1, <1>2 DEF Held
  <1> QED
    BY <1>1, <1>3 DEF Parents, Unspent, Ends, RotationExplained, SessionOver, Children, Never

LEMMA DeleteSessions ==
    ASSUME AuthTypeOK, Sessions, NEW c \in Leavers, LogoutDelete(c)
    PROVE  Sessions'
  <1> USE DEF Sessions
  <1>1. CASE pair[leave[c].refresh].row # "stored"
    BY <1>1, SessionsStutter DEF LogoutDelete
  <1>2. CASE pair[leave[c].refresh].row = "stored"
    <2>1. PICK p \in 1 .. issued :
            /\ pair[p].row = "stored"
            /\ pair' = [pair EXCEPT ![p].row = "gone"]
            /\ closed' = closed \cup {p}
            /\ overlapped' = overlapped \cup {q \in {p} : \E f \in Refreshers : refreshing[f] = p}
            /\ UNCHANGED <<issued, refreshing>>
      <3>1. leave[c].refresh \in 1 .. issued
        BY DEF AuthTypeOK, LogoutDelete
      <3> QED
        BY <1>2, <3>1, Zenon DEF LogoutDelete, Row
    <2>2. p \in Ids /\ pair[p] \in Pair /\ 1 .. issued \subseteq Ids
      BY AuthAssumption DEF AuthAssumption, AuthTypeOK, Ids
    <2>3. pair'[p] = [pair[p] EXCEPT !.row = "gone"] /\ \A q \in 1 .. issued \ {p} : pair'[q] = pair[q]
      BY <2>1, <2>2 DEF AuthTypeOK
    <2>4. /\ \A q \in 1 .. issued : /\ pair'[q].parent = pair[q].parent
                                   /\ pair'[q].until = pair[q].until /\ pair'[q].exp = pair[q].exp
          /\ pair'[p].row = "gone"
      BY <2>2, <2>3 DEF Pair
    <2>5. \A q : Children(q)' = Children(q)
      BY <2>1, <2>4 DEF Children
    <2>6. Parents' /\ Ends'
      BY <2>1, <2>4 DEF Parents, Ends, Never
    <2>7. Unspent' /\ RotationExplained'
      BY <2>1, <2>3, <2>4, <2>5 DEF Unspent, RotationExplained
    <2>8. Held'
      <3>1. \A g \in Refreshers : refreshing[g] # 0 => refreshing[g] \in 1 .. issued
        BY DEF AuthTypeOK
      <3>2. \A g \in Refreshers : refreshing[g] = p => p \in overlapped'
        BY <2>1
      <3> QED
        BY <2>1, <2>3, <3>1, <3>2 DEF Held
    <2>9. SessionOver'
      <3>1. p \notin overlapped => Children(p) = {}
        BY <2>1 DEF Unspent
      <3>2. \A q \in closed : q \in 1 .. issued
        BY DEF AuthTypeOK
      <3> QED
        BY <2>1, <2>3, <2>4, <2>5, <3>1, <3>2 DEF SessionOver
    <2> QED
      BY <2>6, <2>7, <2>8, <2>9
  <1> QED
    BY <1>1, <1>2

LEMMA BlockSessions ==
    ASSUME AuthTypeOK, Sessions, NEW c \in Leavers, LogoutBlock(c)
    PROVE  Sessions'
  <1> USE DEF Sessions
  <1>1. PICK p \in 1 .. issued : p = leave[c].access
    BY DEF AuthTypeOK, LogoutBlock
  <1>2. p \in Ids /\ pair[p] \in Pair /\ 1 .. issued \subseteq Ids /\ pair[p].exp \in Nat /\ sec \in Nat
    BY AuthAssumption DEF AuthAssumption, AuthTypeOK, Ids, Pair
  <1>3. UNCHANGED <<issued, refreshing, overlapped, closed>>
    BY DEF LogoutBlock
  <1>4. CASE ~(sec < pair[p].exp)
    BY <1>1, <1>3, <1>4, SessionsStutter DEF LogoutBlock
  <1>5. CASE sec < pair[p].exp
    <2>1. pair' = [pair EXCEPT ![p].until = BlockEnd(p)]
      BY <1>1, <1>5 DEF LogoutBlock
    <2>2. BlockEnd(p)[1] = pair[p].exp
      BY <1>2 DEF BlockEnd
    <2>3. pair'[p] = [pair[p] EXCEPT !.until = BlockEnd(p)]
          /\ \A q \in 1 .. issued \ {p} : pair'[q] = pair[q]
      BY <1>2, <2>1 DEF AuthTypeOK
    <2>4. /\ \A q \in 1 .. issued : /\ pair'[q].parent = pair[q].parent
                                   /\ pair'[q].row = pair[q].row /\ pair'[q].exp = pair[q].exp
          /\ pair'[p].until = BlockEnd(p)
      BY <1>2, <2>3 DEF Pair
    <2>5. \A q : Children(q)' = Children(q)
      BY <1>3, <2>4 DEF Children
    <2>6. Ends'
      BY <1>3, <2>2, <2>3, <2>4 DEF Ends
    <2>7. Parents' /\ Unspent' /\ RotationExplained'
      BY <1>3, <2>4, <2>5 DEF Parents, Unspent, RotationExplained
    <2>8. Held'
      <3>1. \A g \in Refreshers : refreshing[g] # 0 => refreshing[g] \in 1 .. issued
        BY DEF AuthTypeOK
      <3> QED
        BY <1>3, <2>4, <3>1 DEF Held
    <2>9. SessionOver'
      <3>1. closed \subseteq 1 .. issued
        BY DEF AuthTypeOK
      <3> QED
        BY <1>3, <2>4, <2>5, <3>1 DEF SessionOver
    <2> QED
      BY <2>6, <2>7, <2>8, <2>9
  <1> QED
    BY <1>4, <1>5

-----------------------------------------------------------------------------
(* The server                                                              *)

\* No step of the server changes whose an issued pair is.
Owners == /\ issued <= issued'
          /\ \A p \in 1 .. issued : pair'[p].owner = pair[p].owner

LEMMA OwnersKept ==
    ASSUME AuthTypeOK, Next
    PROVE  Owners
  <1> USE AuthAssumption DEF AuthAssumption, Owners
  <1>0. /\ issued \in Nat /\ pair \in [Ids -> Pair] /\ 1 .. issued \subseteq Ids
        /\ \A p \in Ids : pair[p] \in Pair
    BY DEF AuthTypeOK, Ids
  <1>1. ASSUME NEW u \in Users, Login(u) PROVE Owners
    <2>1. issued' = issued + 1 /\ \A p \in 1 .. issued : p # issued + 1
      BY <1>0, <1>1 DEF Login
    <2> QED
      BY <1>0, <1>1, <2>1 DEF Login
  <1>2. ASSUME NEW f \in Refreshers, Refresh(f) PROVE Owners
    <2>1. CASE RefreshCommit(f)
      <3>1. PICK p \in 1 .. issued :
              /\ issued' = issued + 1
              /\ pair' = [pair EXCEPT ![p].row = "gone",
                                     ![issued + 1] = NewPair(pair[p].owner, p)]
        <4>1. refreshing[f] \in 1 .. issued
          BY <2>1 DEF AuthTypeOK, RefreshCommit
        <4> QED
          BY <2>1, <4>1, Zenon DEF RefreshCommit
      <3>2. \A q \in 1 .. issued : q # issued + 1
        BY <1>0
      <3> QED
        BY <1>0, <3>1, <3>2 DEF Pair
    <2>2. CASE UNCHANGED <<pair, issued>>
      BY <1>0, <2>2
    <2> QED
      BY <1>2, <2>1, <2>2 DEF Refresh, RefreshLoad, RefreshDrop
  <1>3. ASSUME NEW c \in Leavers, Logout(c) PROVE Owners
    <2>1. CASE LogoutDelete(c)
      BY <1>0, <2>1 DEF LogoutDelete, Row, Pair
    <2>2. CASE LogoutBlock(c)
      BY <1>0, <2>2 DEF LogoutBlock, Pair
    <2>3. CASE UNCHANGED <<pair, issued>>
      BY <1>0, <2>3
    <2> QED
      BY <1>3, <2>1, <2>2, <2>3 DEF Logout, LogoutAuth, LogoutDrop
  <1>4. CASE UNCHANGED <<pair, issued>>
    BY <1>0, <1>4
  <1> QED
    BY <1>1, <1>2, <1>3, <1>4 DEF Next, LogoutSend, Me, Tick

\* Tokens keep their expiry and no block is taken back, the clock goes on, and a token that is
\* logged out now has its block, which ends after the first second, or no second left.
LEMMA NextThrough ==
    ASSUME AuthTypeOK, Ends, Through, Next
    PROVE  Through'
  <1>0. /\ issued \in Nat /\ sec \in Nat /\ pair \in [Ids -> Pair] /\ 1 .. issued \subseteq Ids
        /\ loggedOut \subseteq 1 .. issued /\ \A p \in Ids : pair[p] \in Pair
    BY AuthAssumption DEF AuthAssumption, AuthTypeOK, Ids
  <1>1. ASSUME UNCHANGED loggedOut, sec' \in Nat, sec <= sec',
               \A p \in 1 .. issued : pair'[p].exp = pair[p].exp /\ pair'[p].until = pair[p].until
        PROVE  Through'
    <2> SUFFICES ASSUME NEW p \in loggedOut PROVE pair[p].until # Never \/ pair[p].exp <= sec'
      BY <1>0, <1>1 DEF Through, Never
    <2>1. pair[p].exp \in Nat
      BY <1>0 DEF Pair
    <2> QED
      BY <1>0, <1>1, <2>1 DEF Through
  <1>2. ASSUME UNCHANGED <<pair, loggedOut>>, sec' \in Nat, sec <= sec' PROVE Through'
    BY <1>1, <1>2
  <1>3. ASSUME NEW u \in Users, Login(u) PROVE Through'
    <2>1. \A p \in 1 .. issued : pair'[p] = pair[p]
      BY <1>0, <1>3 DEF Login
    <2> QED
      BY <1>0, <1>1, <1>3, <2>1 DEF Login
  <1>4. ASSUME NEW f \in Refreshers, Refresh(f) PROVE Through'
    <2>1. CASE RefreshCommit(f)
      <3>1. PICK p \in 1 .. issued :
              pair' = [pair EXCEPT ![p].row = "gone", ![issued + 1] = NewPair(pair[p].owner, p)]
        <4>1. refreshing[f] \in 1 .. issued
          BY <2>1 DEF AuthTypeOK, RefreshCommit
        <4> QED
          BY <2>1, <4>1, Zenon DEF RefreshCommit
      <3>2. \A q \in 1 .. issued : q # issued + 1
        BY <1>0
      <3>3. \A q \in 1 .. issued : pair'[q].exp = pair[q].exp /\ pair'[q].until = pair[q].until
        BY <1>0, <3>1, <3>2 DEF Pair
      <3> QED
        BY <1>0, <1>1, <2>1, <3>3 DEF RefreshCommit
    <2>2. CASE UNCHANGED <<pair, sec, loggedOut>>
      BY <1>0, <1>2, <2>2
    <2> QED
      BY <1>4, <2>1, <2>2 DEF Refresh, RefreshLoad, RefreshDrop
  <1>5. ASSUME NEW c \in Leavers, Logout(c) PROVE Through'
    <2>1. CASE LogoutDelete(c)
      <3>1. \A q \in 1 .. issued : pair'[q].exp = pair[q].exp /\ pair'[q].until = pair[q].until
        BY <1>0, <2>1 DEF LogoutDelete, Row, Pair
      <3> QED
        BY <1>0, <1>1, <2>1, <3>1 DEF LogoutDelete
    <2>2. CASE LogoutBlock(c)
      <3>1. PICK p \in 1 .. issued : p = leave[c].access
        BY <2>2 DEF AuthTypeOK, LogoutBlock
      <3>2. loggedOut' = loggedOut \cup {p} /\ sec' = sec
        BY <2>2, <3>1 DEF LogoutBlock
      <3>3. pair[p].exp \in Nat /\ pair[p].exp > 0
        BY <1>0 DEF Pair, Ends
      <3>4. CASE sec < pair[p].exp
        <4>1. pair' = [pair EXCEPT ![p].until = BlockEnd(p)]
          BY <2>2, <3>1, <3>4 DEF LogoutBlock
        <4>2. BlockEnd(p)[1] = pair[p].exp /\ Never[1] = 0
          BY <1>0, <3>3 DEF BlockEnd, Never
        <4>3. pair'[p].until = BlockEnd(p)
          BY <1>0, <4>1 DEF Pair
        <4>4. \A q \in 1 .. issued \ {p} : pair'[q] = pair[q]
          BY <1>0, <4>1
        <4> QED
          BY <1>0, <3>2, <3>3, <4>2, <4>3, <4>4 DEF Through, Never
      <3>5. CASE ~(sec < pair[p].exp)
        <4>1. pair' = pair /\ pair[p].exp <= sec
          BY <1>0, <2>2, <3>1, <3>3, <3>5 DEF LogoutBlock
        <4> QED
          BY <3>2, <4>1 DEF Through, Never
      <3> QED
        BY <3>4, <3>5
    <2>3. CASE UNCHANGED <<pair, sec, loggedOut>>
      BY <1>0, <1>2, <2>3
    <2> QED
      BY <1>5, <2>1, <2>2, <2>3 DEF Logout, LogoutAuth, LogoutDrop
  <1>6. CASE Tick
    <2>1. sec' \in Nat /\ sec <= sec'
      BY <1>0, <1>6 DEF Tick
    <2> QED
      BY <1>2, <1>6, <2>1 DEF Tick
  <1>7. CASE UNCHANGED <<pair, sec, loggedOut>>
    BY <1>0, <1>2, <1>7
  <1> QED
    BY <1>3, <1>4, <1>5, <1>6, <1>7 DEF Next, LogoutSend, Me

LEMMA ThroughKept == AuthInv /\ [Next]_authVars => Through'
  <1> SUFFICES ASSUME AuthInv, [Next]_authVars PROVE Through'
    OBVIOUS
  <1>1. CASE Next
    BY <1>1, NextThrough DEF AuthInv
  <1>2. CASE UNCHANGED authVars
    BY <1>2 DEF AuthInv, Through, authVars, Never
  <1> QED
    BY <1>1, <1>2

LEMMA NextAuthInv == AuthInv /\ [Next]_authVars => AuthInv'
  <1> SUFFICES ASSUME AuthInv, [Next]_authVars PROVE AuthTypeOK' /\ Sessions'
    BY ThroughKept DEF AuthInv, Sessions
  <1>0. AuthTypeOK /\ Sessions
    BY DEF AuthInv, Sessions
  <1>1. ASSUME NEW u \in Users, Login(u) PROVE AuthTypeOK' /\ Sessions'
    BY <1>0, <1>1, LoginType, LoginSessions
  <1>2. ASSUME NEW f \in Refreshers, Refresh(f) PROVE AuthTypeOK' /\ Sessions'
    <2>1. Sessions'
      BY <1>0, <1>2, LoadSessions, CommitSessions, DropSessions DEF Refresh
    <2> QED
      BY <1>0, <1>2, <2>1, RefreshType
  <1>3. ASSUME NEW c \in Leavers, Logout(c) PROVE AuthTypeOK' /\ Sessions'
    <2>1. ASSUME LogoutAuth(c) \/ LogoutDrop(c) PROVE Sessions'
      BY <1>0, <2>1, SessionsStutter DEF LogoutAuth, LogoutDrop
    <2>2. Sessions'
      BY <1>0, <1>3, <2>1, DeleteSessions, BlockSessions DEF Logout
    <2> QED
      BY <1>0, <1>3, <2>2, LogoutType
  <1>4. ASSUME NEW c \in Leavers, NEW a \in 1 .. issued, NEW r \in 1 .. issued,
               LogoutSend(c, a, r)
        PROVE  AuthTypeOK' /\ Sessions'
    <2>1. Sessions'
      BY <1>0, <1>4, SessionsStutter DEF LogoutSend
    <2> QED
      BY <1>0, <1>4, <2>1, LogoutSendType
  <1>5. CASE Me
    BY <1>0, <1>5, MeType, SessionsStutter DEF Me
  <1>6. CASE Tick
    BY <1>0, <1>6, TickType, SessionsStutter DEF Tick
  <1>7. CASE UNCHANGED authVars
    <2>1. Sessions'
      BY <1>0, <1>7, SessionsStutter DEF authVars
    <2> QED
      BY <1>0, <1>7, <2>1 DEF AuthTypeOK, authVars
  <1> QED
    BY <1>1, <1>2, <1>3, <1>4, <1>5, <1>6, <1>7 DEF Next

\* The block of a token that is logged out covers its life up to its last second, and jose
\* takes the token for all of that second.
LEMMA AuthInvLogout == AuthInv => LogoutHolds
  <1> SUFFICES ASSUME AuthInv, NEW p \in loggedOut
               PROVE  Accepted(p) <=> sec = pair[p].exp /\ pair[p].until[2] <= part
    BY DEF LogoutHolds
  <1>1. /\ p \in 1 .. issued /\ pair[p].exp \in Nat /\ pair[p].exp > 0 /\ sec \in Nat
        /\ part \in Nat /\ pair[p].until[2] \in Nat
    BY AuthAssumption DEF AuthAssumption, AuthInv, AuthTypeOK, Ends, Pair, Ids
  <1>2. CASE pair[p].until = Never
    <2>1. pair[p].exp <= sec
      BY <1>2 DEF AuthInv, Through
    <2>2. pair[p].until[1] = 0 /\ pair[p].until[2] = 0
      BY <1>2 DEF Never
    <2> QED
      BY <1>1, <2>1, <2>2 DEF Accepted, Unexpired, Blocked
  <1>3. CASE pair[p].until # Never
    <2>1. pair[p].until[1] = pair[p].exp
      BY <1>1, <1>3 DEF AuthInv, Ends
    <2> QED
      BY <1>1, <2>1 DEF Accepted, Unexpired, Blocked
  <1> QED
    BY <1>2, <1>3

-----------------------------------------------------------------------------
(* The page                                                                *)

\* Tabs and store hold pairs that have been issued.
PageTyped ==
    /\ tab \in [Tabs -> Tab] /\ \A t \in Tabs : tab[t].token \in 0 .. issued
    /\ store \in [access : 0 .. issued, refresh : 0 .. issued]
    /\ astray \subseteq Tabs /\ foreign \subseteq Tabs

\* The refresh token in the store is that of the tab's pair even before the effect.
StoreKept ==
    \A t \in Tabs \ foreign : tab[t].token # 0 =>
        store.refresh = tab[t].token /\ (tab[t].effect \/ store.access = tab[t].token)

PageInv == AuthInv /\ PageTyped /\ UserExplained /\ StoreKept

LEMMA InitPageInv == Init => PageInv
  <1> SUFFICES ASSUME Init PROVE PageInv
    OBVIOUS
  <1>1. AuthInv
    BY InitAuthInv DEF Init
  <1>2. Closed \in Tab /\ Closed.token = 0 /\ issued = 0
    BY AuthAssumption DEF AuthAssumption, Init, InitAuth, Closed, Tab
  <1>3. PageTyped
    BY <1>2 DEF Init, PageTyped, Empty
  <1>4. UserExplained /\ StoreKept
    BY <1>2 DEF Init, UserExplained, StoreKept
  <1> QED
    BY <1>1, <1>3, <1>4 DEF PageInv

\* Every step of the page is a step of the server or leaves it alone.
LEMMA PageSimulates ==
    ASSUME PageInv, [PageNext]_vars
    PROVE  [Next]_authVars
  <1>1. ASSUME NEW t \in Tabs, Page(t) PROVE [Next]_authVars
    <2>1. CASE Effect(t)
      BY <2>1 DEF Effect, Next
    <2>2. ASSUME NEW u \in Users, SignIn(t, u) PROVE Next
      BY <2>2 DEF SignIn, Next
    <2>3. CASE SignOut(t)
      <3>1. CASE store.refresh # 0
        <4>1. tab[t].token \in 1 .. issued /\ store.refresh \in 1 .. issued /\ t \in Leavers
          BY <2>3, <3>1 DEF SignOut, PageInv, PageTyped, Tabs
        <4>2. LogoutSend(t, tab[t].token, store.refresh)
          BY <2>3, <3>1 DEF SignOut
        <4> QED
          BY <4>1, <4>2 DEF Next
      <3>2. CASE store.refresh = 0
        BY <2>3, <3>2 DEF SignOut
      <3> QED
        BY <3>1, <3>2
    <2>4. CASE UNCHANGED authVars
      BY <2>4
    <2> QED
      BY <1>1, <2>1, <2>2, <2>3, <2>4
         DEF Page, Open, MeOk, MeRefused, MeFails, FetchRefused, SignOutReturns
  <1>2. CASE Server
    BY <1>2 DEF Server, Next, Tabs
  <1>3. CASE UNCHANGED vars
    BY <1>3 DEF vars
  <1> QED
    BY <1>1, <1>2, <1>3 DEF PageNext

\* The server's step seen from the page.
LEMMA ServerKept ==
    ASSUME PageInv, [PageNext]_vars
    PROVE  AuthInv' /\ Owners /\ issued \in Nat /\ issued' \in Nat
  <1>1. [Next]_authVars /\ AuthInv /\ AuthTypeOK
    BY PageSimulates DEF PageInv, AuthInv
  <1>2. AuthInv'
    BY <1>1, NextAuthInv
  <1>3. issued \in Nat /\ issued' \in Nat
    BY <1>1, <1>2, AuthAssumption DEF AuthAssumption, AuthInv, AuthTypeOK
  <1>4. CASE Next
    BY <1>1, <1>2, <1>3, <1>4, OwnersKept
  <1>5. CASE UNCHANGED authVars
    BY <1>2, <1>3, <1>5 DEF authVars, Owners
  <1> QED
    BY <1>1, <1>4, <1>5

\* A step of tab t that makes it s keeps the types, ...
LEMMA TypedStep ==
    ASSUME PageInv, issued \in Nat, issued' \in Nat, Owners,
           NEW t \in Tabs, NEW s \in Tab, s.token \in 0 .. issued',
           tab' = [tab EXCEPT ![t] = s],
           store'.access \in 0 .. issued', store'.refresh \in 0 .. issued',
           store' = [access |-> store'.access, refresh |-> store'.refresh],
           astray' \subseteq Tabs, foreign' \subseteq Tabs
    PROVE  PageTyped'
  <1>1. tab' \in [Tabs -> Tab]
        /\ \A u \in Tabs : tab'[u].token = IF u = t THEN s.token ELSE tab[u].token
    BY DEF PageInv, PageTyped
  <1>2. \A u \in Tabs : tab[u].token \in 0 .. issued'
    BY DEF PageInv, PageTyped, Owners
  <1> QED
    BY <1>1, <1>2 DEF PageTyped

\* ... what the tabs show, ...
LEMMA UserStep ==
    ASSUME PageInv, Owners, issued \in Nat,
           NEW t \in Tabs, NEW s, tab' = [tab EXCEPT ![t] = s],
           \A u \in Tabs \ {t} : u \in astray => u \in astray',
           t \notin astray' /\ ~s.loading /\ s.token # 0 /\ s.user # Nobody
               => s.user = pair'[s.token].owner
    PROVE  UserExplained'
  <1>1. \A u \in Tabs : tab'[u] = IF u = t THEN s ELSE tab[u]
    BY DEF PageInv, PageTyped
  <1>2. \A u \in Tabs : tab[u].token # 0 => tab[u].token \in 1 .. issued
    BY DEF PageInv, PageTyped
  <1>3. \A u \in Tabs : tab[u].token # 0 => pair'[tab[u].token].owner = pair[tab[u].token].owner
    BY <1>2 DEF Owners
  <1>4. UserExplained
    BY DEF PageInv
  <1>5. ASSUME NEW u \in Tabs \ astray', u # t,
               ~tab'[u].loading, tab'[u].token # 0, tab'[u].user # Nobody
        PROVE  tab'[u].user = pair'[tab'[u].token].owner
    <2>1. u \notin astray /\ tab'[u] = tab[u]
      BY <1>1, <1>5
    <2> QED
      BY <1>3, <1>4, <1>5, <2>1 DEF UserExplained
  <1>6. ASSUME NEW u \in Tabs \ astray', u = t,
               ~tab'[u].loading, tab'[u].token # 0, tab'[u].user # Nobody
        PROVE  tab'[u].user = pair'[tab'[u].token].owner
    BY <1>1, <1>6
  <1> QED
    BY <1>5, <1>6 DEF UserExplained

\* ... and what a reload would find.
LEMMA StoreStep ==
    ASSUME PageInv, NEW t \in Tabs, NEW s, tab' = [tab EXCEPT ![t] = s],
           \A u \in Tabs \ {t} : u \notin foreign' => store' = store /\ u \notin foreign,
           t \notin foreign' /\ s.token # 0 =>
               store'.refresh = s.token /\ (s.effect \/ store'.access = s.token)
    PROVE  StoreKept'
  <1>1. \A u \in Tabs : tab'[u] = IF u = t THEN s ELSE tab[u]
    BY DEF PageInv, PageTyped
  <1>2. StoreKept
    BY DEF PageInv
  <1>3. ASSUME NEW u \in Tabs \ foreign', tab'[u].token # 0, u # t
        PROVE  store'.refresh = tab'[u].token
               /\ (tab'[u].effect \/ store'.access = tab'[u].token)
    BY <1>1, <1>2, <1>3 DEF StoreKept
  <1>4. ASSUME NEW u \in Tabs \ foreign', tab'[u].token # 0, u = t
        PROVE  store'.refresh = tab'[u].token
               /\ (tab'[u].effect \/ store'.access = tab'[u].token)
    BY <1>1, <1>4
  <1> QED
    BY <1>3, <1>4 DEF StoreKept

\* A tab's token is replaced.
LEMMA SetTokenIs ==
    ASSUME NEW s \in Tab, NEW p \in 0 .. MaxPairs
    PROVE  /\ SetToken(s, p) \in Tab
           /\ SetToken(s, p).token = p
           /\ SetToken(s, p).loading = s.loading /\ SetToken(s, p).user = s.user
  BY DEF SetToken, Tab

PageKept == PageTyped' /\ UserExplained' /\ StoreKept'

\* A step that only takes a tab's token away, after which the tab is s.
LEMMA SignedOut ==
    ASSUME PageInv, Owners, issued \in Nat, issued' \in Nat,
           NEW t \in Tabs, NEW s \in Tab, s.token = 0, tab' = [tab EXCEPT ![t] = s],
           UNCHANGED <<store, astray, foreign>>
    PROVE  PageKept
  <1>1. /\ store' = [access |-> store'.access, refresh |-> store'.refresh]
        /\ store'.access \in 0 .. issued' /\ store'.refresh \in 0 .. issued'
        /\ astray' \subseteq Tabs /\ foreign' \subseteq Tabs
        /\ s.token \in 0 .. issued'
    BY DEF PageInv, PageTyped, Owners
  <1>2. PageTyped'
    BY <1>1, TypedStep
  <1>3. UserExplained'
    BY UserStep
  <1>4. StoreKept'
    BY StoreStep
  <1> QED
    BY <1>2, <1>3, <1>4 DEF PageKept

LEMMA OpenKept ==
    ASSUME PageInv, Owners, issued \in Nat, issued' \in Nat, NEW t \in Tabs, Open(t)
    PROVE  PageKept
  <1> DEFINE s == [Closed EXCEPT !.token = store.access, !.loading = TRUE, !.effect = TRUE]
  <1>1. /\ store' = [access |-> store'.access, refresh |-> store'.refresh]
        /\ store'.access \in 0 .. issued' /\ store'.refresh \in 0 .. issued'
        /\ store' = store /\ store.access \in 0 .. issued' /\ store.access \in 0 .. MaxPairs
        /\ astray' \subseteq Tabs /\ foreign' \subseteq Tabs
    BY AuthAssumption
       DEF AuthAssumption, Open, PageInv, AuthInv, AuthTypeOK, PageTyped, Owners
  <1>2. s \in Tab /\ s.token = store.access /\ s.loading /\ s.effect
    BY <1>1 DEF Closed, Tab
  <1>3. tab' = [tab EXCEPT ![t] = s] /\ (t \notin foreign' => store.access = store.refresh)
        /\ \A u \in Tabs \ {t} : (u \in astray => u \in astray') /\ (u \notin foreign' => u \notin foreign)
    BY DEF Open
  <1> HIDE DEF s
  <1>4. PageTyped'
    BY <1>1, <1>2, <1>3, TypedStep
  <1>5. UserExplained'
    BY <1>2, <1>3, UserStep
  <1>6. StoreKept'
    BY <1>1, <1>2, <1>3, StoreStep
  <1> QED
    BY <1>4, <1>5, <1>6 DEF PageKept

LEMMA EffectKept ==
    ASSUME PageInv, Owners, issued \in Nat, issued' \in Nat, NEW t \in Tabs, Effect(t)
    PROVE  PageKept
  <1>0. /\ tab[t] \in Tab /\ tab[t].token \in 0 .. issued /\ 0 \in 0 .. issued'
        /\ store = [access |-> store.access, refresh |-> store.refresh]
        /\ store.access \in 0 .. issued' /\ store.refresh \in 0 .. issued'
        /\ astray' = astray /\ astray \subseteq Tabs /\ foreign \subseteq Tabs
        /\ foreign' = IF store' = store THEN foreign ELSE foreign \cup (Tabs \ {t})
    BY DEF Effect, PageInv, PageTyped, Owners
  <1>1. CASE tab[t].token # 0
    <2> DEFINE s == [tab[t] EXCEPT !.effect = FALSE, !.loading = TRUE,
                                   !.asked = @ \cup {tab[t].token}]
    <2>1. tab' = [tab EXCEPT ![t] = s] /\ store' = [store EXCEPT !.access = tab[t].token]
      <3>1. tab' = [tab EXCEPT ![t] = s]
        BY <1>1, Zenon DEF Effect
      <3>2. store' = [store EXCEPT !.access = tab[t].token]
        BY <1>1 DEF Effect
      <3> QED
        BY <3>1, <3>2
    <2>2. tab[t].token \in Ids /\ tab[t].token \in 0 .. issued'
      BY <1>0, <1>1, AuthAssumption
         DEF AuthAssumption, PageInv, AuthInv, AuthTypeOK, Owners, Ids
    <2>3. s \in Tab /\ s.token = tab[t].token /\ s.loading
      BY <1>0, <2>2 DEF Tab
    <2>4. /\ store' = [access |-> tab[t].token, refresh |-> store.refresh]
          /\ store'.access = tab[t].token /\ store'.refresh = store.refresh
      BY <1>0, <2>1
    <2> HIDE DEF s
    <2>5. PageTyped'
      BY <1>0, <2>1, <2>2, <2>3, <2>4, TypedStep
    <2>6. UserExplained'
      BY <1>0, <2>1, <2>3, UserStep
    <2>7. t \notin foreign => store.refresh = tab[t].token
      BY <1>1 DEF PageInv, StoreKept
    <2>8. StoreKept'
      BY <1>0, <2>1, <2>3, <2>4, <2>7, StoreStep
    <2> QED
      BY <2>5, <2>6, <2>8 DEF PageKept
  <1>2. CASE tab[t].token = 0
    <2> DEFINE s == [tab[t] EXCEPT !.effect = FALSE, !.loading = FALSE, !.user = Nobody]
    <2>1. tab' = [tab EXCEPT ![t] = s] /\ store' = Empty
      BY <1>2 DEF Effect
    <2>2. s \in Tab /\ s.token = 0
      BY <1>0, <1>2 DEF Tab
    <2>3. store' = [access |-> 0, refresh |-> 0] /\ store'.access = 0 /\ store'.refresh = 0
      BY <2>1 DEF Empty
    <2> HIDE DEF s
    <2>4. PageTyped'
      BY <1>0, <2>1, <2>2, <2>3, TypedStep
    <2>5. UserExplained'
      BY <1>0, <2>1, <2>2, UserStep
    <2>6. StoreKept'
      BY <1>0, <2>1, <2>2, StoreStep
    <2> QED
      BY <2>4, <2>5, <2>6 DEF PageKept
  <1> QED
    BY <1>1, <1>2

LEMMA SignInKept ==
    ASSUME PageInv, Owners, issued \in Nat, issued' \in Nat, NEW t \in Tabs, NEW u \in Users,
           SignIn(t, u)
    PROVE  PageKept
  <1> DEFINE w == [tab[t] EXCEPT !.loading = TRUE]
  <1>1. PICK p : p = issued + 1 /\ p \in 0 .. MaxPairs /\ issued' = p
    BY AuthAssumption DEF AuthAssumption, SignIn, Login
  <1> DEFINE s == SetToken(w, p)
  <1>2. w \in Tab /\ w.loading
    BY DEF PageInv, PageTyped, Tab
  <1>3. tab' = [tab EXCEPT ![t] = s]
    BY <1>1 DEF SignIn
  <1>4. store' = [access |-> p, refresh |-> p] /\ store'.access = p /\ store'.refresh = p
        /\ foreign' = Tabs \ {t} /\ astray' = astray /\ astray \subseteq Tabs
    BY <1>1 DEF SignIn, PageInv, PageTyped
  <1> HIDE DEF w
  <1>5. s \in Tab /\ s.token = p /\ s.loading
    BY <1>1, <1>2, SetTokenIs
  <1> HIDE DEF s
  <1>6. PageTyped'
    <2>1. p \in 0 .. issued' /\ s.token \in 0 .. issued'
      BY <1>1, <1>5
    <2>2. store' = [access |-> store'.access, refresh |-> store'.refresh]
          /\ store'.access \in 0 .. issued' /\ store'.refresh \in 0 .. issued'
          /\ astray' \subseteq Tabs /\ foreign' \subseteq Tabs
      BY <1>4, <2>1
    <2> QED
      BY <1>3, <1>5, <2>1, <2>2, TypedStep
  <1>7. UserExplained'
    BY <1>3, <1>4, <1>5, UserStep
  <1>8. StoreKept'
    BY <1>3, <1>4, <1>5, StoreStep
  <1> QED
    BY <1>6, <1>7, <1>8 DEF PageKept

\* An answer about token p is handled.
LEMMA AnsweredIs ==
    ASSUME PageInv, NEW t \in Tabs, NEW p
    PROVE  /\ Answered(t, p) \in Tab /\ Answered(t, p).token = tab[t].token
           /\ Answered(t, p).effect = tab[t].effect
  <1>1. tab[t] \in Tab
    BY DEF PageInv, PageTyped
  <1> QED
    BY <1>1 DEF Answered, Tab

\* A step of a tab that keeps its token and its effect, and the store.
LEMMA SameTokenKept ==
    ASSUME PageInv, Owners, issued \in Nat, issued' \in Nat,
           NEW t \in Tabs, NEW s \in Tab, tab' = [tab EXCEPT ![t] = s],
           s.token = tab[t].token, s.effect = tab[t].effect,
           UNCHANGED <<store, foreign>>, astray' \subseteq Tabs,
           \A u \in Tabs \ {t} : u \in astray => u \in astray',
           t \notin astray' /\ ~s.loading /\ s.token # 0 /\ s.user # Nobody
               => s.user = pair'[s.token].owner
    PROVE  PageKept
  <1>1. /\ store' = [access |-> store'.access, refresh |-> store'.refresh]
        /\ store'.access \in 0 .. issued' /\ store'.refresh \in 0 .. issued'
        /\ s.token \in 0 .. issued' /\ foreign' \subseteq Tabs
    BY DEF PageInv, PageTyped, Owners
  <1>2. PageTyped'
    BY <1>1, TypedStep
  <1>3. UserExplained'
    BY UserStep
  <1>4. t \notin foreign' /\ s.token # 0 =>
            store'.refresh = s.token /\ (s.effect \/ store'.access = s.token)
    BY DEF PageInv, StoreKept
  <1>5. StoreKept'
    BY <1>4, StoreStep
  <1> QED
    BY <1>2, <1>3, <1>5 DEF PageKept

LEMMA MeOkKept ==
    ASSUME PageInv, Owners, issued \in Nat, issued' \in Nat, UNCHANGED authVars,
           NEW t \in Tabs, NEW p \in tab[t].asked, MeOk(t, p)
    PROVE  PageKept
  <1> DEFINE w == Answered(t, p)
             s == [w EXCEPT !.user = pair[p].owner]
  <1>1. w \in Tab /\ w.token = tab[t].token /\ w.effect = tab[t].effect
    BY AnsweredIs
  <1>2. pair[p].owner \in Users \cup {Nobody}
    <2>1. p \in Ids
      BY DEF PageInv, PageTyped, Tab
    <2> QED
      BY <2>1 DEF PageInv, AuthInv, AuthTypeOK, Pair
  <1>3. /\ tab' = [tab EXCEPT ![t] = s]
        /\ astray' = IF p = tab[t].token THEN astray \ {t} ELSE astray \cup {t}
        /\ UNCHANGED <<store, foreign, pair>> /\ astray \subseteq Tabs
    BY DEF MeOk, authVars, PageInv, PageTyped
  <1> HIDE DEF w
  <1>4. s \in Tab /\ s.token = tab[t].token /\ s.effect = tab[t].effect /\ s.user = pair[p].owner
    BY <1>1, <1>2 DEF Tab
  <1> HIDE DEF s
  <1>5. t \notin astray' => p = s.token
    BY <1>3, <1>4
  <1> QED
    BY <1>3, <1>4, <1>5, SameTokenKept

LEMMA MeFailsKept ==
    ASSUME PageInv, Owners, issued \in Nat, issued' \in Nat,
           NEW t \in Tabs, NEW p \in tab[t].asked, MeFails(t, p)
    PROVE  PageKept
  <1> DEFINE s == Answered(t, p)
  <1>1. s \in Tab /\ s.token = tab[t].token /\ s.effect = tab[t].effect
    BY AnsweredIs
  <1>2. /\ tab' = [tab EXCEPT ![t] = s] /\ astray' = astray \cup {t}
        /\ UNCHANGED <<store, foreign>> /\ astray \subseteq Tabs
    BY DEF MeFails, PageInv, PageTyped
  <1> HIDE DEF s
  <1> QED
    BY <1>1, <1>2, SameTokenKept

LEMMA SignOutKept ==
    ASSUME PageInv, Owners, issued \in Nat, issued' \in Nat, NEW t \in Tabs, SignOut(t)
    PROVE  PageKept
  <1>0. tab[t] \in Tab /\ 0 \in 0 .. MaxPairs
    BY AuthAssumption DEF AuthAssumption, PageInv, PageTyped
  <1>1. CASE store.refresh # 0
    <2> DEFINE s == [tab[t] EXCEPT !.leaving = TRUE]
    <2>1. tab' = [tab EXCEPT ![t] = s] /\ UNCHANGED <<store, astray, foreign>>
      BY <1>1 DEF SignOut
    <2>2. /\ s \in Tab /\ s.token = tab[t].token /\ s.effect = tab[t].effect
          /\ s.loading = tab[t].loading /\ s.user = tab[t].user
      BY <1>0 DEF Tab
    <2> HIDE DEF s
    <2>3. tab[t].token # 0 => pair'[tab[t].token].owner = pair[tab[t].token].owner
      BY DEF Owners, PageInv, PageTyped
    <2>4. t \notin astray /\ ~s.loading /\ s.token # 0 /\ s.user # Nobody
              => s.user = pair'[s.token].owner
      BY <2>2, <2>3 DEF PageInv, UserExplained
    <2>5. astray \subseteq Tabs
      BY DEF PageInv, PageTyped
    <2> QED
      BY <2>1, <2>2, <2>4, <2>5, SameTokenKept
  <1>2. CASE store.refresh = 0
    <2> DEFINE s == SetToken(tab[t], 0)
    <2>1. tab' = [tab EXCEPT ![t] = s] /\ UNCHANGED <<store, astray, foreign>>
      BY <1>2 DEF SignOut
    <2>2. s \in Tab /\ s.token = 0
      BY <1>0, SetTokenIs
    <2> HIDE DEF s
    <2> QED
      BY <2>1, <2>2, SignedOut
  <1> QED
    BY <1>1, <1>2

\* The ways in which a tab loses its token without having asked to.
LEMMA TokenTakenKept ==
    ASSUME PageInv, Owners, issued \in Nat, issued' \in Nat, NEW t \in Tabs,
           \/ \E p \in tab[t].asked : MeRefused(t, p)
           \/ FetchRefused(t)
           \/ SignOutReturns(t)
    PROVE  PageKept
  <1>1. PICK w \in Tab : /\ tab' = [tab EXCEPT ![t] = SetToken(w, 0)]
                         /\ UNCHANGED <<store, astray, foreign>>
    <2>1. tab[t] \in Tab /\ [tab[t] EXCEPT !.leaving = FALSE] \in Tab
      BY DEF PageInv, PageTyped, Tab
    <2>2. \A p : Answered(t, p) \in Tab
      BY AnsweredIs
    <2> QED
      BY <2>1, <2>2 DEF MeRefused, FetchRefused, SignOutReturns
  <1> DEFINE s == SetToken(w, 0)
  <1>2. s \in Tab /\ s.token = 0
    BY SetTokenIs, AuthAssumption DEF AuthAssumption
  <1> HIDE DEF s
  <1> QED
    BY <1>1, <1>2, SignedOut DEF s

\* The page stands still while the server takes a step.
LEMMA PageStutters ==
    ASSUME PageInv, Owners, issued \in Nat, issued' \in Nat, UNCHANGED pageVars
    PROVE  PageKept
  <1>1. /\ tab \in [Tabs -> Tab] /\ store \in [access : 0 .. issued, refresh : 0 .. issued]
        /\ \A t \in Tabs : tab[t].token \in 0 .. issued
        /\ astray \subseteq Tabs /\ foreign \subseteq Tabs /\ UserExplained /\ StoreKept
        /\ UNCHANGED <<tab, store, astray, foreign>>
    BY DEF PageInv, PageTyped, pageVars
  <1>2. \A n \in 0 .. issued : n \in 0 .. issued' /\ (n # 0 => pair'[n].owner = pair[n].owner)
    BY DEF Owners
  <1>3. PageTyped'
    BY <1>1, <1>2 DEF PageTyped
  <1>4. UserExplained'
    BY <1>1, <1>2 DEF UserExplained
  <1>5. StoreKept'
    BY <1>1 DEF StoreKept
  <1> QED
    BY <1>3, <1>4, <1>5 DEF PageKept

\* Each action of a tab, the server's steps and stuttering.
LEMMA NextPageInv == PageInv /\ [PageNext]_vars => PageInv'
  <1> SUFFICES ASSUME PageInv, [PageNext]_vars PROVE PageInv'
    OBVIOUS
  <1>1. AuthInv' /\ Owners /\ issued \in Nat /\ issued' \in Nat
    BY ServerKept
  <1>2. ASSUME NEW t \in Tabs, Page(t) PROVE PageKept
    <2>1. CASE Open(t)
      BY <1>1, <2>1, OpenKept
    <2>2. CASE Effect(t)
      BY <1>1, <2>2, EffectKept
    <2>3. ASSUME NEW u \in Users, SignIn(t, u) PROVE PageKept
      BY <1>1, <2>3, SignInKept
    <2>4. ASSUME NEW p \in tab[t].asked, MeOk(t, p) PROVE PageKept
      <3>1. UNCHANGED authVars
        BY <2>4 DEF MeOk
      <3> QED
        BY <1>1, <2>4, <3>1, MeOkKept
    <2>5. ASSUME NEW p \in tab[t].asked, MeFails(t, p) PROVE PageKept
      BY <1>1, <2>5, MeFailsKept
    <2>6. CASE SignOut(t)
      BY <1>1, <2>6, SignOutKept
    <2>7. CASE (\E p \in tab[t].asked : MeRefused(t, p)) \/ FetchRefused(t) \/ SignOutReturns(t)
      BY <1>1, <2>7, TokenTakenKept
    <2> QED
      BY <1>2, <2>1, <2>2, <2>3, <2>4, <2>5, <2>6, <2>7 DEF Page
  <1>3. ASSUME Server \/ UNCHANGED vars PROVE PageKept
    <2>1. UNCHANGED pageVars
      BY <1>3 DEF Server, vars
    <2> QED
      BY <1>1, <2>1, PageStutters
  <1>4. PageKept
    BY <1>2, <1>3 DEF PageNext
  <1> QED
    BY <1>1, <1>4 DEF PageInv, PageKept

LEMMA PageInvariant == PageSpec => []PageInv
  <1> QED
    BY InitPageInv, NextPageInv, PTL DEF PageSpec

LEMMA PageInvTypes == PageInv => TypeOK
  BY DEF PageInv, AuthInv, PageTyped, TypeOK

LEMMA PageInvStore == PageInv => ReloadKeepsSession
  <1> SUFFICES ASSUME PageInv, NEW t \in Tabs \ foreign, tab[t].token # 0, ~tab[t].effect
               PROVE  store = [access |-> tab[t].token, refresh |-> tab[t].token]
    BY DEF ReloadKeepsSession
  <1>1. store = [access |-> store.access, refresh |-> store.refresh]
    BY DEF PageInv, PageTyped
  <1>2. store.refresh = tab[t].token /\ store.access = tab[t].token
    BY DEF PageInv, StoreKept
  <1> QED
    BY <1>1, <1>2

-----------------------------------------------------------------------------
(* The theorems                                                            *)

\* The server under the web page is the server: each step of a tab is one of the server's
\* or leaves its variables alone.
THEOREM PageUsesServer == PageSpec => Spec
  <1>1. Init => InitAuth
    BY DEF Init
  <1>2. PageInv /\ [PageNext]_vars => [Next]_authVars
    BY PageSimulates
  <1> QED
    BY <1>1, <1>2, PageInvariant, PTL DEF PageSpec, Spec

\* The server by itself, whatever its clients send, keeps its sessions apart: a session
\* that a logout ended stays over, a refresh token is good for one pair, and an access token
\* that was logged out is refused, but for the gap in its last second.
THEOREM ServerKeepsSessions ==
    Spec => [](LogoutHolds /\ RotationExplained /\ SessionOver)
  <1>1. AuthInv => LogoutHolds /\ RotationExplained /\ SessionOver
    BY AuthInvLogout DEF AuthInv
  <1> QED
    BY <1>1, InitAuthInv, NextAuthInv, PTL DEF Spec

\* Server and tabs hold what they should: no tab and no request names a pair that was
\* never issued.
THEOREM PageTypes == PageSpec => []TypeOK
  BY PageInvariant, PageInvTypes, PTL

\* logout under the page, whichever tab sends it and however often: the token is refused from
\* then on, except in the last second of its life, after the part of it the block was set in.
THEOREM LoggedOutIsRefused == PageSpec => []LogoutHolds
  <1>1. PageInv => LogoutHolds
    BY AuthInvLogout DEF PageInv
  <1> QED
    BY <1>1, PageInvariant, PTL

\* refresh_token: a second pair from one refresh token takes two requests that both found
\* its row before either deleted it.
THEOREM RotationHolds == PageSpec => []RotationExplained
  <1>1. PageInv => RotationExplained
    BY DEF PageInv, AuthInv
  <1> QED
    BY <1>1, PageInvariant, PTL

\* logout: a session whose row it deleted has no successor, unless a refresh had found the
\* row first.
THEOREM LogoutEndsSession == PageSpec => []SessionOver
  <1>1. PageInv => SessionOver
    BY DEF PageInv, AuthInv
  <1> QED
    BY <1>1, PageInvariant, PTL

\* AuthProvider: the user a tab shows is the owner of its token, unless it last handled an
\* answer about another token or a failure.
THEOREM UserIsOwner == PageSpec => []UserExplained
  <1>1. PageInv => UserExplained
    BY DEF PageInv
  <1> QED
    BY <1>1, PageInvariant, PTL

\* AuthProvider: the store holds the tab's own pair, unless another tab has written to it.
THEOREM ReloadIsSafe == PageSpec => []ReloadKeepsSession
  BY PageInvariant, PageInvStore, PTL
=============================================================================
