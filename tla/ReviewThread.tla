----------------------------- MODULE ReviewThread -----------------------------
(***************************************************************************)
(* What the workflow promises to those who only see its checkpoints: the   *)
(* agents' results arrive together, consensus sees them, a high risk leads *)
(* to the human node and nowhere else, and the output comes last.          *)
(***************************************************************************)
EXTENDS ThreadPhases

VARIABLE g

Init == g = NoGraph

Restart == g' = Restarted(g)
Analyse == g.phase = "analyse" /\ g' = Analysed(g)
Decide  == g.phase = "consensus" /\ \E risk \in {"low", "high"} : g' = Decided(g, risk)
Release == g.phase = "hitl" /\ g' = Released(g)
End     == g.phase = "output" /\ g' = Ended(g)

Next == Restart \/ Analyse \/ Decide \/ Release \/ End

Spec == Init /\ [][Next]_g
=============================================================================
