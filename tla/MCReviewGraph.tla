---------------------------- MODULE MCReviewGraph ----------------------------
(* ReviewGraph over a diff of two files.                                      *)
EXTENDS ReviewGraph

TwoFiles == <<1, 1>>
=============================================================================
