\* The server waits for ever when nobody signs up or plays: no check for deadlock.
CONSTANTS
  ann = ann
  bob = bob
  eve = eve
  Password = password
  Junk     = junk
  Ids           <- MCIds
  Members       <- MCMembers
  CharacterType = 1
  GameExp       = 500
  MaxSlots      = 2
  MaxAccounts   = 2
  MaxExp        = 500
  MaxCrashes    = 2
SPECIFICATION Spec
INVARIANTS
  TableIsOnFile
  CountNotBehind
  StoreTypeOK
PROPERTIES
  NobodyIsForgotten
  FilesKeepTheBook
CHECK_DEADLOCK FALSE
