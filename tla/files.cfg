SPECIFICATION FairSpec
CONSTANTS
  Client = {c1, c2}
  Uploader = {c1}
  Downloader = {c1, c2}
  MaxSize = 2
CHECK_DEADLOCK FALSE
INVARIANTS TypeOK UploadsAreWhole TransfersKeepSession
PROPERTIES UploadsEnd
