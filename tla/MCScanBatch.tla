---------------------------- MODULE MCScanBatch ----------------------------
(* Instances of ScanBatch for TLC.  The configurations give N and Threads.    *)
EXTENDS ScanBatch
=============================================================================
