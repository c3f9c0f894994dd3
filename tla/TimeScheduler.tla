--------------------------- MODULE TimeScheduler ---------------------------
(***************************************************************************)
(* smart/TimeScheduler.cpp: an event that is due at one time of every day, *)
(* and tick(), which its owner calls from a loop and which answers whether *)
(* to run the event now.                                                   *)
(*                                                                         *)
(* The wall clock is the local time in seconds, counted from a midnight;   *)
(* it starts unset and is set once.  Afterwards it moves on between two    *)
(* ticks, or goes back, as it does when it is corrected or when summer     *)
(* time ends.                                                              *)
(***************************************************************************)
EXTENDS Integers

CONSTANTS
  SECONDS_PER_DAY,
  Window,      \* seconds around midnight that make a step back a new day (10*60)
  YEAR_BUILD,  \* a clock before it is not set
  Events,      \* times of day the event may be due at
  Gap,         \* bound: seconds the clock moves on between two ticks
  Slip,        \* bound: seconds the clock goes back between two ticks
  Days,        \* bound: days to look at
  Unset        \* UINT_MAX, the state before the first accepted tick

ASSUME DayAssumption ==
  /\ SECONDS_PER_DAY \in Nat /\ Window \in Nat /\ Gap \in Nat /\ Slip \in Nat
  /\ YEAR_BUILD \in Nat \ {0} /\ YEAR_BUILD % SECONDS_PER_DAY = 0
  /\ Events \subseteq 0 .. SECONDS_PER_DAY - 1
  /\ Gap < Window /\ 2 * Window < SECONDS_PER_DAY
  /\ Unset \notin 0 .. SECONDS_PER_DAY - 1

VARIABLES
  clock,                   \* the wall clock at the last tick
  event,                   \* the argument seconds_since_midnight
  _seconds_since_midnight, \* Unset, or the time of day at the last tick
  answer,                  \* what the last tick returned
  since,                   \* history: the day the scheduler was armed, or -1
  fired,                   \* history: the days the event ran
  back                     \* history: the days the clock went back in or to

schedulerVars == <<clock, event, _seconds_since_midnight, answer, since, fired, back>>

LastMoment == YEAR_BUILD + Days * SECONDS_PER_DAY - 1

TimeOfDay(moment) == moment % SECONDS_PER_DAY
DayOf(moment) == moment \div SECONDS_PER_DAY

SchedulerInit ==
  /\ clock = 0
  /\ event \in Events
  /\ _seconds_since_midnight = Unset
  /\ answer = FALSE
  /\ since = -1
  /\ fired = {}
  /\ back = {}

(* Faulty: the time of the last tick is included. *)
PassedInclusive(last, new) == last <= event /\ event <= new

Passed(last, new) == last < event /\ event <= new

(* Faulty: a clock that goes back is never a new day. *)
NewDayNever(last, new) == FALSE

(* Faulty: every step back of the clock is a new day. *)
NewDayAlways(last, new) == TRUE

NewDay(last, new) == new < Window /\ SECONDS_PER_DAY - Window < last

Accepted(moment) == moment >= YEAR_BUILD

(* tick() with the clock at `moment'. *)
Tick(moment) ==
  /\ clock' = moment
  /\ IF _seconds_since_midnight = Unset
     THEN /\ answer' = FALSE
          /\ fired' = fired
          /\ IF Accepted(moment)
             THEN /\ _seconds_since_midnight' = TimeOfDay(moment)
                  /\ since' = DayOf(moment)
             ELSE UNCHANGED <<_seconds_since_midnight, since>>
     ELSE LET last == _seconds_since_midnight
              new == TimeOfDay(moment)
          IN  /\ answer' = IF last <= new THEN Passed(last, new)
                           ELSE NewDay(last, new) /\ event <= new
              /\ _seconds_since_midnight' = new
              /\ fired' = IF answer' THEN fired \cup {DayOf(moment)} ELSE fired
              /\ UNCHANGED since
  /\ back' = IF moment < clock THEN back \cup (DayOf(moment) .. DayOf(clock)) ELSE back
  /\ UNCHANGED event

(* The clock moves on, after it is set. *)
TickLater ==
  /\ clock >= YEAR_BUILD
  /\ \E seconds \in 0 .. Gap : clock + seconds <= LastMoment /\ Tick(clock + seconds)

(* The clock is not set: there is no time before YEAR_BUILD yet. *)
TickUnset ==
  /\ clock < YEAR_BUILD
  /\ Tick(clock)

(* The clock is set, to some time of the first day. *)
TickSet ==
  /\ clock < YEAR_BUILD
  /\ \E moment \in YEAR_BUILD .. YEAR_BUILD + SECONDS_PER_DAY - 1 : Tick(moment)

(* The clock has gone back. *)
TickEarlier ==
  /\ clock >= YEAR_BUILD
  /\ \E seconds \in 1 .. Slip : clock - seconds >= YEAR_BUILD /\ Tick(clock - seconds)

SchedulerNext == TickLater \/ TickUnset \/ TickSet \/ TickEarlier

SchedulerSpec == SchedulerInit /\ [][SchedulerNext]_schedulerVars

-----------------------------------------------------------------------------
(* TimeScheduler.h on tick: "It returns true only once per day."           *)
OncePerDay == [][answer' => DayOf(clock') \notin fired]_schedulerVars

(* What it does keep: once per day on the days in which the clock only     *)
(* moves on, whatever happened before them, also in the first tick of the  *)
(* day, which looks back across midnight.                                  *)
OncePerSteadyDay ==
  [][answer' /\ DayOf(clock') \notin back' => DayOf(clock') \notin fired]_schedulerVars

(* tick says true only for an event that became due between the previous   *)
(* tick and this one, also across midnight, and never for a clock that     *)
(* went back within a day.  Set back across midnight, the clock looks as   *)
(* if most of a day had passed, and the event runs.                        *)
FiresWhenDue ==
  [][answer' => \/ \E moment \in clock + 1 .. clock' : TimeOfDay(moment) = event
                \/ DayOf(clock') < DayOf(clock)]_schedulerVars

(* No day passes without the event, whether or not the clock goes back, as *)
(* long as ticks are at most Gap apart and the event is not due in the     *)
(* last Gap seconds before midnight: the code does not look at what is     *)
(* left of a day when it sees the next one.                                *)
NoDaySkipped ==
  [][(DayOf(clock') > DayOf(clock) /\ since # -1 /\ DayOf(clock) > since
        /\ event <= SECONDS_PER_DAY - 1 - Gap)
       => DayOf(clock) \in fired]_schedulerVars

============================================================================
