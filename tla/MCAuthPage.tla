------------------------------ MODULE MCAuthPage ------------------------------
(* AuthPage for TLC: two tabs, two users, two refresh requests.  Each set is   *)
(* interchangeable throughout, so all three may be permuted.                   *)
EXTENDS AuthPage, TLC

CONSTANTS ann, bob, t1, t2, f1, f2

MCUsers      == {ann, bob}
MCTabs       == {t1, t2}
MCRefreshers == {f1, f2}

Symmetry ==
    {u @@ t @@ f : u \in Permutations(MCUsers), t \in Permutations(MCTabs),
                   f \in Permutations(MCRefreshers)}
=============================================================================
