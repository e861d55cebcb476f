SPECIFICATION FilesSpec
CONSTANTS
  MaxPartTokens = 8
  NewlineTokens = 3
  Continues <- MCContinues
  GapMinutes = 30
  Files <- MCFiles
INVARIANT WithinLimit NothingLost PlacesCited AttachmentsAccounted FoldersMerged SessionsAreChains
CHECK_DEADLOCK FALSE
