---------------------------- MODULE MCSharedQueue ----------------------------
(* Two or three processes; each producer pushes two values.                *)
EXTENDS SharedQueue, TLC

CONSTANTS p1, p2, p3   \* processes

MCData == <<1, 2>>
Workers == {"producer", "consumer"}
AnyRole == {"producer", "consumer", "viewer"}
==============================================================================
