SPECIFICATION FairSpec
CONSTANTS
  c1 = c1  c2 = c2  NoCard = NoCard
  Cards <- MCCards
  HighCap <- MCHighCap
  Rcas = {7, 9}
  Batches = 3
  MaxChanges = 2
  OcrTries = 1
  PollTries = 2
  StateTries = 2
  WaitTries = 2
  MaxBlocks = 3
INVARIANTS TypeOK ReadsIdentified SectorsRead UploadRight
PROPERTY UploadDecides
