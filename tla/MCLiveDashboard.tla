---------------------------- MODULE MCLiveDashboard ----------------------------
(***************************************************************************)
(* A small instance of LiveDashboard: the evals belong to one session and  *)
(* are about one model, as when a wedged eval is tried again.              *)
(***************************************************************************)
EXTENDS LiveInstance

MCSpec == Live!FairSpec

MCSessionOf == [e \in Evals |-> CHOOSE s \in Sessions : TRUE]
MCEvalModel == [e \in Evals |-> "model"]
=============================================================================
