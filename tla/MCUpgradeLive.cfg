SPECIFICATION MCLiveSpec
CONSTANTS
  NumBlocks = 3
  PagesPerBlock = 2
  MaxPages = 2
  MaxScan = 6
  Data <- MCData
  Blank = Blank
  Garbled = Garbled
  TargetIncluded = TRUE
  Images <- MCImages
  Cuts <- MCCuts
  ImgPages <- MCImgPages
  NoImage = NoImage
  ClearsStage = FALSE
  MaxRestarts = 1
  i1 = i1
  i2 = i2
  cut = cut
  Pages1 = 2
  Pages2 = 1
  PagesCut = 2
  MaxDirty = 0
PROPERTY BootEnds
