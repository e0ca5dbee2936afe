----------------------------- MODULE ThreadPhases -----------------------------
(***************************************************************************)
(* The states of a review's LangGraph thread, as coarse as its callers see *)
(* them: the node that runs next, how often the agents' findings have been *)
(* appended, and the risk that consensus found.  ReviewLifecycle moves     *)
(* such states about in several processes, ReviewThread is the machine     *)
(* they form, and ReviewGraph implements that machine node by node.        *)
(***************************************************************************)
EXTENDS Naturals

Risks == {"none", "low", "high"}   \* high: a risk score above 40

(***************************************************************************)
(* "none" is a thread without a checkpoint, "ended" one with nothing left  *)
(* to run, "posted" is inside the output node, after its GitHub call.      *)
(* copies counts the passes of the agents in agent_findings, a channel     *)
(* whose reducer only ever adds.                                           *)
(***************************************************************************)
Phases      == {"none", "analyse", "consensus", "hitl", "output", "posted", "ended"}
GraphStates == [phase : Phases, copies : Nat, risk : Risks]

NoGraph == [phase |-> "none", copies |-> 0, risk |-> "none"]

\* Input on an existing thread restarts it: every channel is overwritten except
\* agent_findings, whose reducer adds the empty list to what is already there.
Restarted(g) == [phase |-> "analyse", copies |-> g.copies, risk |-> "none"]

\* Collector, analyser, orchestrator and the agents, who append their findings.
Analysed(g) == [g EXCEPT !.phase = "consensus", !.copies = @ + 1]

AfterConsensus(risk) == IF risk = "high" THEN "hitl" ELSE "output"

Decided(g, risk) == [g EXCEPT !.risk = risk, !.phase = AfterConsensus(risk)]

Released(g) == [g EXCEPT !.phase = "output"]
Ended(g)    == [g EXCEPT !.phase = "ended"]
=============================================================================
