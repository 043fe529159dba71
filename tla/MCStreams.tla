------------------------------- MODULE MCStreams -------------------------------
(***************************************************************************)
(* What runs by turns on one event loop, and shares no state: the streams  *)
(* and requests of the worker facade, the consumers of a stream router,    *)
(* the frames of an application.  A behaviour is one of the part that it   *)
(* has chosen; the others stay as they begin.                              *)
(***************************************************************************)
EXTENDS WorkerStreams, Application

CONSTANTS t1, t2, t3, ta, tb, mm, mn   \* tasks, their ids, their models

VARIABLE part

mcVars == <<part, vars, routerVars, frameVars>>

-----------------------------------------------------------------------------
\* Three tasks, of two models and two urgencies, the first two under one id.
MCTasks    == {t1, t2, t3}
MCId       == [t \in MCTasks |-> IF t = t3 THEN tb ELSE ta]
MCPriority == [t \in MCTasks |-> IF t = t2 THEN 1 ELSE 0]
MCModelOf  == [t \in MCTasks |-> IF t = t3 THEN mn ELSE mm]

-----------------------------------------------------------------------------
MCInit ==
    /\ part \in {"worker", "router", "frames"}
    /\ Init /\ Router!Init
    /\ Frame!Init /\ (part # "frames" => paused)

MCNext ==
    \/ part = "worker" /\ Next         /\ UNCHANGED <<part, routerVars, frameVars>>
    \/ part = "router" /\ Router!Next  /\ UNCHANGED <<part, vars, frameVars>>
    \/ part = "frames" /\ Frame!Next   /\ UNCHANGED <<part, vars, routerVars>>

MCSpec == MCInit /\ [][MCNext]_mcVars /\ Fairness /\ Frame!Fairness
=============================================================================
