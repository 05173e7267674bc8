------------------------- MODULE MCDynamicUploader -------------------------
(* Instances of DynamicUploader for TLC.                                   *)
EXTENDS DynamicUploader

(* States are told apart by the uploads in flight: nothing reads the       *)
(* offsets, sizes and serial of an upload once it has been reclaimed.      *)
Request(u) ==
    IF uploadState[u] = "InFlight"
      THEN <<uploadRing[u], uploadStart[u], endOffset[u], requestSize[u], uploadSerial[u],
             handleOffset[u], handleSize[u]>>
      ELSE <<>>

LiveView == <<mRingBuffers, ringVars, mStagingBuffer, uploadState, [u \in Uploads |-> Request(u)],
              mPendingSerial, mCompletedSerial, cursor>>
=============================================================================
