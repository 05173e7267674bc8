-------------------------- MODULE BufferMapProtocol --------------------------
(***************************************************************************)
(* What mapping promises the application, without callbacks inside calls,  *)
(* serials or tasks: a buffer belongs to the GPU ("unmapped"), is on its   *)
(* way to the application ("pending", for the request in owner), belongs   *)
(* to it ("mapped"), or is gone.  Every request is answered exactly once,  *)
(* when the buffer leaves "pending".                                       *)
(***************************************************************************)
EXTENDS Integers

CONSTANT Requests

VARIABLES phase, owner, reply

protocolVars == <<phase, owner, reply>>

Init ==
    /\ phase \in {"unmapped", "mapped"}
    /\ owner = 0
    /\ reply = [r \in Requests |-> "None"]

Reply(with) == reply' = [reply EXCEPT ![owner] = with]

Request(r) ==
    /\ phase = "unmapped" /\ reply[r] = "None"
    /\ phase' = "pending" /\ owner' = r
    /\ reply' = [reply EXCEPT ![r] = "Waiting"]

Grant == phase = "pending" /\ phase' = "mapped" /\ owner' = owner /\ Reply("Success")

Cancel == phase = "pending" /\ phase' = "unmapped" /\ owner' = owner /\ Reply("Unmapped")

Release == phase = "mapped" /\ phase' = "unmapped" /\ UNCHANGED <<owner, reply>>

(* The device is lost: the request is answered, the buffer stays as it is. *)
Lose == phase = "pending" /\ phase' = "lost" /\ owner' = owner /\ Reply("DeviceLost")

Destroy ==
    /\ phase # "gone" /\ phase' = "gone" /\ owner' = owner
    /\ IF phase = "pending" THEN Reply("Destroyed") \/ Reply("DeviceLost") ELSE reply' = reply

Next == (\E r \in Requests : Request(r)) \/ Grant \/ Cancel \/ Release \/ Lose \/ Destroy

Spec == Init /\ [][Next]_protocolVars
=============================================================================
