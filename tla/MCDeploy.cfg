SPECIFICATION DeploySpec
CONSTANT MaxReleases = 4
INVARIANTS ProvenSurvives ProvenIsStarted
