SPECIFICATION ServicesSpec
CONSTANTS
  p1 = p1
  p2 = p2
  h1 = h1
  h2 = h2
  None = None
  Processes = {p1}
  Users <- MCUsers
  Hashes <- MCHashes
  Groups <- MCGroups
  UsersGroup <- MCUsersGroup
  AgeChoices <- MCAgeChoices
  WarnChoices <- MCWarnChoices
  Today = 5
  Initial <- MCInitial
  Calls <- OneAdministrator
  Faults = {TRUE, FALSE}
  MaxUid = 1001
  User = alice
  Passwords = {p1, p2}
  Ages <- MCAges
  Warnings <- MCWarnings
  LastDay = 6
  SECONDS_PER_DAY = 12
  Window = 4
  YEAR_BUILD = 24
  Events <- MCEvents
  Gap = 3
  Slip = 2
  Days = 4
  Unset = Unset
  BUFFER_SIZE = 2
  PipeSize = 4
  MaxDescriptors = 5
  MaxOutput = 7
  MaxCalls = 5
INVARIANTS PairedWhenQuiet ShortOutputIsWhole OnlyStandardDescriptors
PROPERTIES ImplementsStore OldContentKept WarnedBeforeExpiry TurningOnGrantsPeriod DaysLeftCountsDown OncePerSteadyDay FiresWhenDue NoDaySkipped CallsReturn
CHECK_DEADLOCK FALSE
