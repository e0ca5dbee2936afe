------------------------- MODULE FindingPostingProofs -------------------------
(***************************************************************************)
(* Proofs about posting a finding, for every number of requests.           *)
(***************************************************************************)
EXTENDS FindingPosting, TLAPS

\* What a request can have made by where it is.
Budget ==
    \A r \in Posters : /\ pc[r] \in {"idle", "already", "loaded"} => made[r] = 0
                       /\ pc[r] = "fallback" => made[r] <= 1

\* As long as nothing is amiss: one request at a time; a comment that was made is recorded
\* or about to be; and a request that is still to call finds no comment made.
OneAtATime == \A r, q \in Posters : InFlight(r) /\ InFlight(q) => r = q
Recorded   == \A r \in Posters : made[r] > 0 => is_posted_to_github \/ pc[r] = "returned"
Fresh      == \A r, q \in Posters : pc[r] \in {"loaded", "fallback"} => made[q] = 0

PostInv ==
    /\ TypeOK
    /\ Budget
    /\ ~amiss => OneAtATime /\ Recorded /\ Fresh /\ ~Duplicated

\* No request has begun.
LEMMA InitPost == Init => PostInv
  <1> SUFFICES ASSUME Init PROVE PostInv
    OBVIOUS
  <1>1. TypeOK /\ Budget
    <2>1. pc \in [Posters -> PCs]
      BY DEF Init, PCs
    <2>2. 0 \in 0 .. 2 /\ 0 <= 1
      OBVIOUS
    <2>3. made \in [Posters -> 0 .. 2] /\ \A r \in Posters : made[r] = 0
      BY <2>2 DEF Init
    <2> QED
      BY <2>1, <2>2, <2>3 DEF Init, TypeOK, Budget
  <1>2. OneAtATime /\ Recorded /\ Fresh
    BY DEF Init, OneAtATime, InFlight, Recorded, Fresh
  <1>3. ~Duplicated
    BY DEF Init, Duplicated
  <1> QED
    BY <1>1, <1>2, <1>3 DEF PostInv

\* A request that can have made one comment at most can make another.
LEMMA MadeTypeOK ==
    ASSUME NEW r \in Posters, TypeOK, made[r] <= 1, Made(r) \/ UNCHANGED made
    PROVE  /\ made' \in [Posters -> 0 .. 2]
           /\ made'[r] \in {made[r], made[r] + 1}
           /\ \A q \in Posters \ {r} : made'[q] = made[q]
  <1>1. made[r] \in 0 .. 2 /\ made[r] + 1 \in 0 .. 2
    BY DEF TypeOK
  <1> QED
    BY <1>1 DEF TypeOK, Made

\* The types, with what each request can have made.
LEMMA CallsTypeOK ==
    ASSUME NEW r \in Posters, PostInv, Post(r)
    PROVE  TypeOK' /\ Budget'
  <1>0. TypeOK /\ Budget
    BY DEF PostInv
  <1> USE HasLineAssumption DEF HasLineAssumption, TypeOK, Budget, Goto, PCs
  <1>1. CASE Load(r)
    BY <1>0, <1>1 DEF Load, Alone, InFlight
  <1>2. CASE Inline(r)
    <2>1. made[r] = 0 /\ (Made(r) \/ UNCHANGED made)
      BY <1>0, <1>2 DEF Inline, Told, Untold
    <2>2. /\ made' \in [Posters -> 0 .. 2] /\ made'[r] \in {0, 1}
          /\ \A q \in Posters \ {r} : made'[q] = made[q]
      BY <1>0, <2>1, MadeTypeOK
    <2>3. /\ pc[r] = "loaded" /\ pc' \in [Posters -> PCs] /\ pc'[r] \in {"returned", "fallback"}
          /\ \A q \in Posters \ {r} : pc'[q] = pc[q]
      BY <1>0, <1>2 DEF Inline
    <2>4. amiss' \in BOOLEAN /\ UNCHANGED is_posted_to_github
      BY <1>0, <1>2 DEF Inline, Told, Untold
    <2> QED
      BY <1>0, <2>2, <2>3, <2>4
  <1>3. CASE General(r)
    <2>1. made[r] <= 1 /\ (Made(r) \/ UNCHANGED made)
      BY <1>0, <1>3 DEF General, Told, Untold
    <2>2. made' \in [Posters -> 0 .. 2] /\ \A q \in Posters \ {r} : made'[q] = made[q]
      BY <1>0, <2>1, MadeTypeOK
    <2>3. /\ pc' \in [Posters -> PCs] /\ pc'[r] = "returned"
          /\ \A q \in Posters \ {r} : pc'[q] = pc[q]
      BY <1>0, <1>3 DEF General
    <2>4. amiss' \in BOOLEAN /\ UNCHANGED is_posted_to_github
      BY <1>0, <1>3 DEF General, Told, Untold
    <2> QED
      BY <1>0, <2>2, <2>3, <2>4
  <1>4. CASE Fail(r)
    <2>1. made[r] <= 1 /\ (Made(r) \/ UNCHANGED made)
      BY <1>0, <1>4 DEF Fail, Untold
    <2>2. made' \in [Posters -> 0 .. 2] /\ \A q \in Posters \ {r} : made'[q] = made[q]
      BY <1>0, <2>1, MadeTypeOK
    <2>3. /\ pc' \in [Posters -> PCs] /\ pc'[r] = "failed"
          /\ \A q \in Posters \ {r} : pc'[q] = pc[q]
      BY <1>0, <1>4 DEF Fail
    <2>4. amiss' \in BOOLEAN /\ UNCHANGED is_posted_to_github
      BY <1>0, <1>4 DEF Fail, Untold
    <2> QED
      BY <1>0, <2>2, <2>3, <2>4
  <1>5. CASE Commit(r)
    BY <1>0, <1>5 DEF Commit
  <1> QED
    BY <1>1, <1>2, <1>3, <1>4, <1>5 DEF Post

\* A request that gets on while nothing is amiss keeps the rest of the invariant.
LEMMA CallsKeepOne ==
    ASSUME NEW r \in Posters, PostInv, Post(r), ~amiss'
    PROVE  (OneAtATime /\ Recorded /\ Fresh /\ ~Duplicated)'
  <1>0. TypeOK /\ Budget /\ OneAtATime /\ Recorded /\ Fresh /\ ~Duplicated /\ TypeOK'
    <2>1. ~amiss
      BY DEF Post, Load, Inline, General, Fail, Commit, Told, Untold, PostInv, TypeOK
    <2> QED
      BY <2>1, CallsTypeOK DEF PostInv
  <1> USE <1>0
      DEF TypeOK, Budget, OneAtATime, Recorded, Fresh, Duplicated, InFlight, Goto, Made, Told,
          Untold
  <1>1. CASE Load(r)
    <2>1. CASE is_posted_to_github
      BY <1>1, <2>1 DEF Load
    <2>2. CASE ~is_posted_to_github
      <3>1. \A q \in Posters \ {r} : ~InFlight(q) /\ pc'[q] = pc[q]
        BY <1>1, <2>2 DEF Load, Alone
      <3>2. pc[r] = "idle" /\ pc'[r] = "loaded" /\ UNCHANGED <<made, is_posted_to_github>>
        BY <1>1, <2>2 DEF Load
      <3>3. \A q \in Posters : made[q] = 0
        BY <2>2, <3>1, <3>2
      <3> QED
        BY <3>1, <3>2, <3>3
    <2> QED
      BY <2>1, <2>2
  <1>2. CASE Inline(r)
    BY <1>2 DEF Inline
  <1>3. CASE General(r)
    BY <1>3 DEF General
  <1>4. CASE Fail(r)
    BY <1>4 DEF Fail
  <1>5. CASE Commit(r)
    BY <1>5 DEF Commit
  <1> QED
    BY <1>1, <1>2, <1>3, <1>4, <1>5 DEF Post

\* So does a crash: nothing is in flight after it, and a comment about to be recorded
\* makes it amiss.
LEMMA CrashKeepsPost == PostInv /\ Crash => PostInv'
  <1> SUFFICES ASSUME PostInv, Crash PROVE PostInv'
    OBVIOUS
  <1>1. TypeOK' /\ Budget'
    <2>1. TypeOK /\ Budget
      BY DEF PostInv
    <2>2. pc' \in [Posters -> PCs] /\ \A q \in Posters : pc'[q] \in {pc[q], "lost"}
      BY <2>1 DEF Crash, TypeOK, PCs
    <2>3. \A q \in Posters : pc'[q] # "fallback" /\ pc'[q] # "loaded"
      BY <2>1 DEF Crash, InFlight
    <2>4. /\ made' \in [Posters -> 0 .. 2]
          /\ \A q \in Posters : made'[q] = made[q] \/ ~(pc[q] \in {"idle", "already"})
      <3>1. CASE UNCHANGED made
        BY <2>1, <3>1 DEF TypeOK
      <3>2. ASSUME NEW r \in Posters, pc[r] \in {"loaded", "fallback"}, Made(r)
            PROVE  /\ made' \in [Posters -> 0 .. 2]
                   /\ \A q \in Posters : made'[q] = made[q] \/ ~(pc[q] \in {"idle", "already"})
        <4>1. made[r] <= 1
          BY <2>1, <3>2 DEF Budget
        <4> QED
          BY <2>1, <3>2, <4>1, MadeTypeOK
      <3> QED
        BY <3>1, <3>2 DEF Crash
    <2>5. \A q \in Posters : pc'[q] \in {"idle", "already"} => pc[q] = pc'[q]
      BY <2>2
    <2>6. amiss' \in BOOLEAN /\ UNCHANGED is_posted_to_github
      BY <2>1 DEF Crash, TypeOK
    <2> QED
      BY <2>1, <2>2, <2>3, <2>4, <2>5, <2>6 DEF TypeOK, Budget
  <1>2. ~amiss' => (OneAtATime /\ Recorded /\ Fresh /\ ~Duplicated)'
    BY DEF Crash, PostInv, TypeOK, OneAtATime, Recorded, Fresh, Duplicated, InFlight
  <1> QED
    BY <1>1, <1>2 DEF PostInv

\* Every step keeps the invariant.
LEMMA NextKeepsPost == PostInv /\ [Next]_vars => PostInv'
  <1>1. PostInv /\ UNCHANGED vars => PostInv'
    BY DEF vars, PostInv, TypeOK, Budget, OneAtATime, Recorded, Fresh, Duplicated, InFlight
  <1>2. ASSUME NEW r \in Posters, PostInv, Post(r) PROVE PostInv'
    BY <1>2, CallsTypeOK, CallsKeepOne DEF PostInv
  <1> QED
    BY <1>1, <1>2, CrashKeepsPost DEF Next

\* The invariant holds throughout.
LEMMA PostAlways == Spec => []PostInv
  BY InitPost, NextKeepsPost, PTL DEF Spec

\* Each request makes at most two comments, for any number of requests.
THEOREM PostingTypeCorrect == Spec => []TypeOK
  <1>1. PostInv => TypeOK
    BY DEF PostInv
  <1> QED
    BY <1>1, PostAlways, PTL

\* A finding is commented twice only if requests overlapped or a comment went unnoticed,
\* for any number of requests one after another.
THEOREM PostedOnce == Spec => []DuplicatesExplained
  <1>1. PostInv => DuplicatesExplained
    BY DEF PostInv, TypeOK, DuplicatesExplained
  <1> QED
    BY <1>1, PostAlways, PTL
=============================================================================
