--------------------------- MODULE ConnectorRegister ---------------------------
(***************************************************************************)
(* What connecting to one service promises to one user's clients.  It is a *)
(* register: each request takes effect at once, between its beginning and  *)
(* its answer.  A connect request that is refused has had no effect.       *)
(***************************************************************************)
CONSTANTS Connects, Disconnects, Nobody

Requests == Connects \cup Disconnects

VARIABLES
    value,   \* the connect request whose token is in force; Nobody: not connected
    stage    \* of each request: "idle", "pending", "took" or "refused"

Init == value = Nobody /\ stage = [r \in Requests |-> "idle"]

Begin(r) ==
    /\ stage[r] = "idle" /\ stage' = [stage EXCEPT ![r] = "pending"]
    /\ UNCHANGED value

Put(c) ==
    /\ stage[c] = "pending" /\ stage' = [stage EXCEPT ![c] = "took"]
    /\ value' = c

\* One disconnection serves all the requests that ask for it at that moment.
Clear(D) ==
    /\ \A d \in D : stage[d] = "pending"
    /\ stage' = [r \in Requests |-> IF r \in D THEN "took" ELSE stage[r]]
    /\ value' = Nobody

\* A disconnect request that is refused may have been served.
Refuse(r) ==
    /\ stage[r] \in (IF r \in Disconnects THEN {"pending", "took"} ELSE {"pending"})
    /\ stage' = [stage EXCEPT ![r] = "refused"]
    /\ UNCHANGED value

Next ==
    \/ \E r \in Requests : Begin(r) \/ Refuse(r)
    \/ \E c \in Connects : Put(c)
    \/ \E D \in SUBSET Disconnects : D # {} /\ Clear(D)

Spec == Init /\ [][Next]_<<value, stage>>
=============================================================================
