SPECIFICATION BatchSpec
CONSTANTS
  Projects <- MCProjects
  Manifests <- MCManifests
  Changes <- MCChanges
  Tries <- MCTries
  BatchAt = 5
CHECK_DEADLOCK FALSE
INVARIANTS
  PlanIsSound
  
  NoFailureIsLost
  PipelinesAgree
