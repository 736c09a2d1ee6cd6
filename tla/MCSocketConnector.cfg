SPECIFICATION Spec
CONSTANTS
  reconnect_interval = 6
  Endpoints = 4
  Outstanding = 6
INVARIANTS TypeOK OneConnection
PROPERTIES Reestablished ImplementsRedial
