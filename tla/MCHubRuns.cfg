SPECIFICATION Spec
CONSTANTS
  Descendants = {"d1", "d2"}
  MaxInterrupts = 2
  Defects = {"none", "another-hub", "any-bearer", "replays", "another-vehicle",
    "repeats-a-page", "endless-pages", "no-304", "loose-cursor", "loose-range",
    "no-update", "loses-charge", "same-bearer", "no-grace", "one-rotation"}
  Drives = 5
  PageSize = 2
  Patience = 1
  MaxEvents = 2
  Addresses = 2
  Total = 2
  HandshakeParts = 2
  SendParts = 2
  BodyParts = 2
  Late = 3
  MaxExchanges = 2
  MaxDrives = 7
  Limit = 2
  MaxPages = 3
  Timeout = 2
INVARIANTS NothingSpared OneLife NativeExact ExchangeExact ProbeExact
PROPERTY RunsEnd
CHECK_DEADLOCK FALSE
