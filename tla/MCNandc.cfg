SPECIFICATION MCSpec
CONSTANTS
  NumBlocks = 3
  PagesPerBlock = 2
  MaxPages = 3
  MaxScan = 9
  Data = {d1}
  Blank = Blank
  Garbled = Garbled
  TargetIncluded = FALSE
INVARIANTS NandTypeOK BlankScan
PROPERTIES BlankPost ReadyAtLaunch WritesBehaved Streams
