SPECIFICATION FairSpec
CONSTANTS
  HdrWords = 3
  Headers <- AllHeaders
  Backing = "C"
  MaxLost = 1
INVARIANTS TypeOK CodeVerified SomeHeader UploadWhole StaleMagicCleared
PROPERTIES OneHeader BootDecides
