-------------------------- MODULE MCPoolReconciler --------------------------
(* Instances of PoolReconciler: the disturbances each run includes.        *)
EXTENDS PoolReconciler

None == {}
FreshChurn == {"rival", "vanish", "age", "kill", "evict", "rollout", "badcall", "crash"}
Crashes == {"crash"}
FilesystemChurn == {"age", "vanish", "badcall", "crash"}
GkeChurn == {"age", "badsnap", "badcall", "crash"}
Ageing == {"age"}
=============================================================================
