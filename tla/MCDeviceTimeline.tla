-------------------------- MODULE MCDeviceTimeline --------------------------
(* Instances of DeviceTimeline for TLC.                                    *)
EXTENDS DeviceTimeline

AllOps == Ops

(* What callbacks of Tick and Submit call.                                 *)
NestedOps == {"OnSubmittedWorkDone", "Tick", "Submit", "LoseForTesting", "Destroy"}

(* What callbacks of HandleError and Destroy call.                         *)
EndOps == {"WriteBuffer", "UnmapAtCreation", "OnSubmittedWorkDone", "Submit", "Destroy"}
=============================================================================
