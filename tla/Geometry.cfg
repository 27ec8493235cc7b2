SPECIFICATION GSpec
CONSTANTS
  WordBits = 21
  Sizes = {2, 4}
  Lengths <- MCLengths
INVARIANTS GeometryFits RangeHoldsIsp HeaderIsOnePage WholeIsp
PROPERTY AddressesAgree
