------------------------------ MODULE Application ------------------------------
(***************************************************************************)
(* Two parts an application is built from that share no state: the stream  *)
(* router it gives its consumers, and the scheduler whose frames its game  *)
(* loop runs.  This module names their constants and variables apart, for  *)
(* the run and for the proofs.                                             *)
(***************************************************************************)
EXTENDS Naturals

CONSTANTS
    Ids, Consumers, maxQueueDepth, Done, MaxEmits,                  \* of the router
    Tasks, Id, Priority, ModelOf, maxConcurrent, Frames, Timers,    \* of the frames
    None

VARIABLES
    streams, queues, closed, interrupted, resolve, result, reader, emitted, received,
    fresh, queue, before, running, aborted, frame, reused, timers, timerId, looping, paused

routerVars == <<streams, queues, closed, interrupted, resolve, result, reader, emitted, received>>

frameVars == <<fresh, queue, before, running, aborted, frame, reused, timers, timerId, looping, paused>>

Router == INSTANCE StreamRouter WITH queue <- queues

Frame == INSTANCE FrameLoop WITH active <- looping

ASSUME RouterAssumption == Router!RouterConstants

ASSUME FrameAssumption == Frame!FrameConstants

-----------------------------------------------------------------------------
\* The properties of the instances, as their modules state them: each consumer is
\* given what was emitted to it, and told of its end (StreamRouter).
ConsumersAreServed == Router!ConsumersAreServed

\* The entries of the scheduler are its tasks (FrameLoop).
RunningIsExecuting == Frame!RunningIsExecuting

\* Queued tasks start (FrameLoop).
QueuedTaskStarts == Frame!QueuedTaskStarts
=============================================================================
