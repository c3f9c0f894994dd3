SPECIFICATION Spec
CONSTANTS
  NoFile = NoFile
  Invalid = Invalid
  Created = Created
  Formats <- MCReduced
  PieceSizes = {2, 6}
  LabelSizes = {3, 4}
  AssocSizes = {1}
  Names = {1, 2, 3}
  Fourcc <- MCFourcc
  Misread <- MCMisread
  MaxPieces = 3
  MaxAssoc = 2
  FormatSizes = {0, 1, 4}
  ForeignChunks <- MCForeignChunks
  MaxForeign = 3
INVARIANT NoSizeMismatch
CHECK_DEADLOCK FALSE
