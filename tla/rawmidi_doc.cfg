\* devices of one direction; a claim of the docs that the code does not keep
SPECIFICATION RawSpec
CONSTANTS
  MaxDevice = 2
  MaxSubs = 2
  Unplugs = FALSE
PROPERTY EndsComplete
