SPECIFICATION MCSpec
CONSTANTS
  NumBlocks = 4
  PagesPerBlock = 2
  MaxPages = 3
  MaxScan = 12
  Data <- MCData
  Blank = Blank
  Garbled = Garbled
  TargetIncluded = FALSE
  Images <- MCImages
  Cuts <- MCCuts
  ImgPages <- MCImgPages
  NoImage = NoImage
  ClearsStage = TRUE
  MaxRestarts = 2
  i1 = i1
  i2 = i2
  cut = i1
  Pages1 = 3
  Pages2 = 1
  PagesCut = 2
  MaxDirty = 0
PROPERTY MarksOnlyBadBlocks
