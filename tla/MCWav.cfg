SPECIFICATION Spec
CONSTANTS
  NoFile = NoFile
  Invalid = Invalid
  Created = Created
  Formats <- MCFormats
  PieceSizes = {0, 1, 2, 6}
  LabelSizes = {3, 4}
  AssocSizes = {1}
  Names = {1, 2, 3}
  Fourcc <- MCFourcc
  Misread <- MCMisread
  MaxPieces = 3
  MaxAssoc = 2
  FormatSizes = {0, 1, 4}
  ForeignChunks <- MCForeignChunks
  MaxForeign = 3
INVARIANTS SamplesEveryFactor RiffSizeIsLength ReadsHeaders FindsFirst ReadsBackWhatWasWritten ReadHeaderFindsData
PROPERTY ReadingEnds
CHECK_DEADLOCK FALSE
