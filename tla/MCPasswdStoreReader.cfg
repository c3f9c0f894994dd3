SPECIFICATION StoreSpec
CONSTANTS
  p1 = p1
  p2 = p2
  h1 = h1
  h2 = h2
  None = None
  Processes = {p1, p2}
  Users <- MCUsers
  Hashes <- MCHashes
  Groups <- MCGroups
  UsersGroup <- MCUsersGroup
  AgeChoices <- MCAgeChoices
  WarnChoices <- MCWarnChoices
  Today = 5
  Initial <- MCInitial
  Calls <- WriterAndReader
  Faults = {FALSE}
  MaxUid = 1001
INVARIANT ReaderFindsUser
