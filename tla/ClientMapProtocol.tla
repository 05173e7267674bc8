------------------------- MODULE ClientMapProtocol -------------------------
(***************************************************************************)
(* What mapping over the wire promises the application for one buffer,     *)
(* without ids, serials, commands or a server.  Requests may overlap.  One *)
(* that is open can still be granted, and only while the application does  *)
(* not hold the buffer; whatever gives the buffer back closes the requests *)
(* made before, though their answers come later.                           *)
(***************************************************************************)
CONSTANT Requests

VARIABLES
    held,   \* the application may use the mapped memory
    open,   \* the requests that may still be granted
    reply

protocolVars == <<held, open, reply>>

Init ==
    /\ held = FALSE /\ open = {}
    /\ reply = [r \in Requests |-> "None"]

(* Created with mappedAtCreation, before any request.                      *)
CreateMapped ==
    /\ ~held /\ open = {} /\ \A r \in Requests : reply[r] = "None"
    /\ held' = TRUE /\ UNCHANGED <<open, reply>>

Request(r) ==
    /\ reply[r] = "None" /\ reply' = [reply EXCEPT ![r] = "Waiting"]
    /\ open' = open \cup {r} /\ held' = held

(* No connection: the request is answered by the call itself.              *)
RequestLost(r) ==
    /\ reply[r] = "None" /\ reply' = [reply EXCEPT ![r] = "DeviceLost"]
    /\ UNCHANGED <<held, open>>

Grant(r) ==
    /\ r \in open /\ reply[r] = "Waiting" /\ ~held
    /\ reply' = [reply EXCEPT ![r] = "Success"]
    /\ open' = open \ {r} /\ held' = TRUE

Refuse(r) ==
    /\ reply[r] = "Waiting"
    /\ \E status \in {"Unmapped", "Destroyed", "DeviceLost", "Error"} :
          reply' = [reply EXCEPT ![r] = status]
    /\ open' = open \ {r} /\ held' = held

(* Unmap or Destroy.                                                       *)
Return == held' = FALSE /\ open' = {} /\ reply' = reply

(* The last reference, or the connection, is gone: each request is         *)
(* answered, the mapping may stay.                                         *)
RefuseAll(status) ==
    /\ reply' = [r \in Requests |-> IF reply[r] = "Waiting" THEN status ELSE reply[r]]
    /\ open' = {} /\ held' \in {held, FALSE}

Next ==
    \/ CreateMapped \/ Return
    \/ \E r \in Requests : Request(r) \/ RequestLost(r) \/ Grant(r) \/ Refuse(r)
    \/ \E status \in {"Destroyed", "DeviceLost"} : RefuseAll(status)

Spec == Init /\ [][Next]_protocolVars
=============================================================================
