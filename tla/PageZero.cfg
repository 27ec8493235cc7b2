SPECIFICATION MCSoundSpec
CONSTANTS
  NumBlocks = 5
  PagesPerBlock = 2
  MaxPages = 1
  MaxScan = 10
  Data <- MCData
  Blank = Blank
  Garbled = Garbled
  TargetIncluded = FALSE
  Images <- MCImages
  Cuts <- MCCuts
  ImgPages <- MCImgPages
  NoImage = NoImage
  ClearsStage = TRUE
  MaxRestarts = 1
  i1 = i1
  i2 = i2
  cut = i1
  Pages1 = 1
  Pages2 = 1
  PagesCut = 2
  MaxDirty = 0
INVARIANT HeaderInPageZero
