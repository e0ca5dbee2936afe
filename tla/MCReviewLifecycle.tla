-------------------------- MODULE MCReviewLifecycle --------------------------
(***************************************************************************)
(* ReviewLifecycle on small instances: the processes are model values.     *)
(***************************************************************************)
EXTENDS ReviewLifecycle

CONSTANTS s1, w1, c1, c2, a1

=============================================================================
