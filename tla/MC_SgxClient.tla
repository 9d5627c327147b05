---------------------------- MODULE MC_SgxClient ----------------------------
(* Model-checking instance of SgxClient: two host threads, the owner t1    *)
(* and a second caller t2, one TCS so that a second entry has to wait.     *)
EXTENDS SgxClient

CONSTANTS t1, t2

MCThreads == {t1, t2}

(* The operations of the primary path: calls, signals and Destroy.         *)
MCPrimaryOps == {"Call", "Signal", "Destroy"}

(* The structured paths next to calls and Destroy.                         *)
MCStructuredOps == {"Snapshot", "Transfer", "Call", "Destroy"}

(* Snapshots racing with Destroy.                                          *)
MCSnapshotDestroyOps == {"Snapshot", "Destroy"}
=============================================================================
