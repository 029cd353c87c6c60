--------------------------- MODULE MCDaemonServer ---------------------------
(* Instances of DaemonServer: two copies of one file in the first root, and *)
(* one file in the second.                                                  *)
EXTENDS DaemonServer, TLC

CONSTANTS r1, r2, a1, a2, b1, x, y

TwoRootOf == a1 :> r1 @@ b1 :> r2
TwoContentOf == a1 :> x @@ b1 :> y
PlanRootOf == a1 :> r1 @@ a2 :> r1 @@ b1 :> r2
PlanContentOf == a1 :> x @@ a2 :> x @@ b1 :> y
OneRootOf == a1 :> r1 @@ a2 :> r1
OneContentOf == a1 :> x @@ a2 :> x

LoopMethods ==
  {"scan", "getAnalysis", "other", "markStale", "trash_asset", "restore_asset",
   "applyReferenceRewrite", "shutdown"}
PlanMethods ==
  {"scan", "buildCleanupPlan", "applyCleanupPlan", "buildResolutionPlan",
   "applyResolutionPlan", "restoreTrashSession"}
ResolutionMethods == {"scan", "buildResolutionPlan", "applyResolutionPlan"}
NoSelection == {{}}
MCSelections == {{}, {a1, b1}}
=============================================================================
