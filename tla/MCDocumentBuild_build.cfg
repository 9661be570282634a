SPECIFICATION Spec
CONSTANTS
  PdfBlocks <- Kinds
  DocxBlocks <- WordKinds
  MaxBlocks = 3
  MaxItems = 4
  MaxPages = 2
  Barred <- Dashed
  Trimmed <- Stripped
  NewlineTokens = TRUE
  NameLimit = 3
  SnippetLimit = 1
  ChunkSize = 3
  Overlap = 1
INVARIANTS
  TypeOK
  TreeIsOutline
  StreamFollowsSource
  ChunksCoverText
  CitationsAreExact
CHECK_DEADLOCK FALSE
