------------------------------ MODULE MCStoreAnalysis ------------------------------
(***************************************************************************)
(* Instance for TLC: three tests, two commits that are alike, windows of   *)
(* two days.                                                               *)
(***************************************************************************)
EXTENDS StoreAnalysis, TLC

CONSTANTS a, b, c, c1, c2, f1, f2

Report(x, y, z) == a :> x @@ b :> y @@ c :> z

MCTests        == {a, b, c}
MCCommits      == {c1, c2}
MCFiles        == {f1, f2}
MCChangedFiles == [x \in {c1, c2} |-> {f1}]
MCSymmetry     == Permutations({c1, c2})
MCProjectSizes == <<2, 3>>
MCConfidence   == <<1, 2, 3>>
MCCiReports    == {Report("passed", "passed", "passed"), Report("failed", "failed", "passed"),
                   Report("failed", "failed", "failed"), Report("retried", "passed", "flaky")}
MCLocalReports == {a :> "passed" @@ b :> "passed", a :> "passed" @@ b :> "failed"}
MCQuarantined  == {c}
MCHoldBacks    == {{}, {b}}
MCPromotion    == [matched |-> 1, fnr |-> 50, correlation |-> 950, holdout |-> 100, confidence |-> 2]
=============================================================================
