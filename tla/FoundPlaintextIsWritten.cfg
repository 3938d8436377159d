CONSTANTS
  p1 = p1
  curl = curl
  line1 = line1
  byte1 = byte1
  byte2 = byte2
  noSession = noSession
  noMatch = noMatch
  Pids <- OnePid
  Ptrs <- OnePtr
  Exes <- OneExe
  KeyLines <- OneLine
  Bytes <- TwoBytes
  NoSession <- noSession
  NoMatch <- noMatch
  CaptureMode = "capture"
  HasInspector = FALSE
  InspectLimit = 3
  EventTimes <- TwoTimes
  WallTimes <- Walls23
  Grace = 1
  MaxBytes = 2
SPECIFICATION Spec
INVARIANT PlaintextIsWritten
