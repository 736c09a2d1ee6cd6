SPECIFICATION Spec
CONSTANTS
  FixedRadarcape = "dontcare"
  radarcape_detect_interval = 2
  radarcape_liveness_interval = 4
  reconnect_interval = 6
  Endpoints = 3
  Changes = 2
INVARIANTS TypeOK OneAttempt LivenessJustified
PROPERTIES SilenceNoticed Recovers
