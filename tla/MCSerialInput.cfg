SPECIFICATION Spec
CONSTANTS
  FixedRadarcape = "dontcare"
  radarcape_detect_interval = 1
  radarcape_liveness_interval = 5
  reconnect_interval = 7
  FixedBaud = FALSE
  Rates = 2
  autobaud_base_interval = 1
  autobaud_max_interval = 6
  autobaud_good_messages = 2
  autobaud_restart_chunks = 1
  MaxLoops = 2
INVARIANTS TypeOK WayForward
PROPERTIES RateKept RateFound
