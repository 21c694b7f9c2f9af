\* Files of up to 3 bytes, words of 3 bits, chunk sizes of two binary digits.
SPECIFICATION FairGetSpec
CONSTANTS
  OffMax = 3
  MaxLength = 3
  Asked = {2, 7}
  Base = 2
  Timeout = 1
INVARIANTS ReadsFile
PROPERTIES ReadsAsPromised Returns
