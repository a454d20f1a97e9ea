---------------------------- MODULE MCSuspendCalls ----------------------------
(* Instances of SuspendCalls. *)
EXTENDS SuspendCalls, TLC

CONSTANTS i1, i2

\* Isolate i1 makes all calls of suspend functions.
MCCaller == [c \in Call |-> i1]

\* Isolate i1 also calls every C function; i2 takes threads for its events.
MCEntry == [i \in Isolate |-> IF i = i1 THEN Function ELSE {}]
=============================================================================
