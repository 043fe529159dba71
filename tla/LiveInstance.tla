------------------------------ MODULE LiveInstance ------------------------------
(***************************************************************************)
(* The live dashboard with its constants and variables named, for the run  *)
(* and for the proofs, where other parts stand beside it.                  *)
(***************************************************************************)
EXTENDS Naturals

CONSTANTS
    Runs, Evals, Sessions, Dashboards, NoSession, SessionOf, EvalModel,
    MaxEventBuffer, LoadLimit, MaxTasks, MaxPosts, MaxCuts, MaxCrashes, MaxFailures

VARIABLES
    serving, nextSeq, buffer, memory, disk, stream, view, phase,
    inFlight, tasks, kept, missed, posts, cuts, crashes, failures

Live == INSTANCE LiveDashboard WITH None <- NoSession, ModelOf <- EvalModel, up <- serving

ASSUME LiveAssumption == Live!LiveConstants

-----------------------------------------------------------------------------
\* The properties of the dashboards, as their module states them: a settled dashboard
\* shows what the server holds (LiveEventStore and the handlers of dashboard.js).
DashboardsAgree == Live!DashboardsAgree

\* What was acknowledged is still listed (LiveEventStore).
HistoryKept == Live!HistoryKept

\* A finished run reaches every dashboard that is left open (LiveEventStore).
CompletionsArrive == Live!CompletionsArrive
=============================================================================
