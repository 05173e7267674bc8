---------------------------- MODULE MCWireBuffer ----------------------------
(* WireBuffer for TLC, and what the client promises its application.       *)
EXTENDS WireBuffer

(* The requests for b the client may still grant, and what it has told.    *)
Open(b) == {r \in Requests : reqBuffer[r] = b /\ Safe(r)}
Told(b) == [r \in Requests |-> IF reqBuffer[r] = b THEN answer[r] ELSE "None"]

(* The protocol of one buffer of the client.                               *)
Promise(b) == INSTANCE ClientMapProtocol WITH held <- Holds(b), open <- Open(b), reply <- Told(b)

(* Client, server and wire together implement ClientMapProtocol for each   *)
(* buffer: a request is granted only while the application does not hold   *)
(* the buffer, and never after an Unmap or Destroy that followed it,       *)
(* whatever answers were in flight.                                        *)
ClientProtocol ==
    /\ \A b \in Buffers : Promise(b)!Init
    /\ [][\A b \in Buffers : [Promise(b)!Next]_(Promise(b)!protocolVars)]_vars
=============================================================================
