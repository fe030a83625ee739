SPECIFICATION FairSpec
CONSTANTS
  Capacity = 2
  Sizes = {0, 1, 2, 3, 5}
  MaxBytes = 8
INVARIANTS TypeOK Contiguous OffsetInside LenExact
PROPERTIES IsByteQueue Returns
