SPECIFICATION FairSpec
CONSTANTS
  Confidences = {1, 2}
  ConfidenceMin = 2
  KpiKinds = {"holdout_fnr"}
  Invocations = { {}, {"json", "output"}, {"plan-file"}, {"plan-file", "force"}, {"refresh-only", "output"}, {"refresh-only", "plan-file"} }

  
PROPERTIES
  EveryActionEnds
  ImplementsSchedule
