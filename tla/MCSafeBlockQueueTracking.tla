---------------------- MODULE MCSafeBlockQueueTracking ----------------------
(* Instances of SafeBlockQueueTracking for TLC.                            *)
EXTENDS SafeBlockQueueTracking
CONSTANTS p1, p2, c1, c2   \* model values
=============================================================================
