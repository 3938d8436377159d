CONSTANTS
  p1 = p1
  curl = curl
  line1 = line1
  byte1 = byte1
  noSession = noSession
  noMatch = noMatch
  Pids <- OnePid
  Ptrs <- OnePtr
  Exes <- OneExe
  KeyLines <- OneLine
  Bytes <- OneByte
  HTTPBytes <- OneByte
  NoSession <- noSession
  NoMatch <- noMatch
  CaptureMode = "capture"
  HasInspector = FALSE
  InspectLimit = 3
  EventTimes <- OneTime
  WallTimes <- AfterGrace
  Grace = 1
  MaxBytes = 1
SPECIFICATION ArtifactsSpec
INVARIANTS ArtifactsTypeOK FilesComeInOrder DirectoryTellsSession
PROPERTIES CaptureReachesDisk
