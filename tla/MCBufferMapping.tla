--------------------------- MODULE MCBufferMapping ---------------------------
(* BufferMapping for TLC, and the refinement of BufferMapProtocol.         *)
EXTENDS BufferMapping

(* Destroy has been called and runs the callback.                          *)
Destroying == \E d \in Depths : frame[d].op = "Destroy"

(* Who has the buffer.  Unmap and Destroy call the callback first and      *)
(* change mState later: the buffer has changed hands with the answer.      *)
Phase ==
    IF Destroying THEN "gone" ELSE
    CASE mState = "Unmapped" -> "unmapped"
      [] mState = "MappedAtCreation" -> "mapped"
      [] mState = "Destroyed" -> "gone"
      [] mState = "Mapped" /\ Waiting(mLastMapID) -> "pending"
      [] mState = "Mapped" /\ answer[mLastMapID] = "Unmapped" -> "unmapped"
      [] mState = "Mapped" /\ answer[mLastMapID] = "DeviceLost" -> "lost"
      [] OTHER -> "mapped"

Protocol == INSTANCE BufferMapProtocol
    WITH Requests <- Tasks, phase <- Phase, owner <- mLastMapID, reply <- answer

(* The buffer implements the mapping protocol: each request is answered    *)
(* once, with Success exactly when the application gets the buffer, and    *)
(* the buffer changes hands in no other way.                               *)
MappingProtocol == Protocol!Spec
=============================================================================
