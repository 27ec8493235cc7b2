SPECIFICATION MCSafetySpec
CONSTANTS
  HdrWords = 2
  Headers <- MCHeaders
  Backing = "C"
  MaxLost = 1
  Uploads <- MCUploads
  HeaderOf <- MCHeaderOf
  MaxResets = 3
  up1 = up1
  up2 = up2
  up3 = up3
INVARIANT UpdatesWhole
