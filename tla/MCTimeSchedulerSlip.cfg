SPECIFICATION SchedulerSpec
CONSTANTS
  SECONDS_PER_DAY = 12
  Window = 4
  YEAR_BUILD = 24
  Events <- MCEvents
  Gap = 3
  Slip = 2
  Days = 4
  Unset = Unset
PROPERTY OncePerDay
