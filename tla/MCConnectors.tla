----------------------------- MODULE MCConnectors -----------------------------
(* Connectors for TLC.  One tab: what others do to the row comes from clients  *)
(* that are none of its page.  Requests of a kind and fetches are              *)
(* interchangeable, so each set may be permuted.                               *)
EXTENDS Connectors, TLC

CONSTANTS c1, c2, d1, d2, t1, f1, f2

MCConnects    == {c1, c2}
MCDisconnects == {d1, d2}
MCTabs        == {t1}
MCFetches     == {f1, f2}

Symmetry ==
    {c @@ d @@ f : c \in Permutations(MCConnects), d \in Permutations(MCDisconnects),
                    f \in Permutations(MCFetches)}
=============================================================================
