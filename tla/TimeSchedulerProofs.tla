------------------------ MODULE TimeSchedulerProofs -------------------------
(***************************************************************************)
(* Theorems about TimeScheduler, for days and windows of every length and  *)
(* every time of day an event may be due at.                               *)
(***************************************************************************)
EXTENDS TimeScheduler, TLAPS

(* The moment at which a day begins.                                       *)
Midnight(day) == SECONDS_PER_DAY * day

LEMMA Midnights ==
  ASSUME NEW d \in Nat
  PROVE  /\ Midnight(d) \in Nat
         /\ Midnight(d + 1) = Midnight(d) + SECONDS_PER_DAY
         /\ \A e \in Nat : e > d => Midnight(e) >= Midnight(d) + SECONDS_PER_DAY
<1> USE DayAssumption DEF Midnight
<1>1. Midnight(d) \in Nat
  OBVIOUS
<1>2. Midnight(d + 1) = Midnight(d) + SECONDS_PER_DAY
  OBVIOUS
<1>3. \A e \in Nat : e > d => Midnight(e) >= Midnight(d) + SECONDS_PER_DAY
  BY SMTT(20)
<1>4. QED
  BY <1>1, <1>2, <1>3

(* A moment is the day it falls on and its time of that day.               *)
LEMMA DayAndTime ==
  ASSUME NEW m \in Nat
  PROVE  /\ DayOf(m) \in Nat
         /\ TimeOfDay(m) \in 0 .. SECONDS_PER_DAY - 1
         /\ m = Midnight(DayOf(m)) + TimeOfDay(m)
BY DayAssumption DEF DayOf, TimeOfDay, Midnight

(* No other day and time make that moment.                                 *)
LEMMA DayAndTimeUnique ==
  ASSUME NEW m \in Nat, NEW d \in Nat, NEW t \in 0 .. SECONDS_PER_DAY - 1,
         m = Midnight(d) + t
  PROVE  DayOf(m) = d /\ TimeOfDay(m) = t
<1>1. /\ DayOf(m) \in Nat
      /\ TimeOfDay(m) \in 0 .. SECONDS_PER_DAY - 1
      /\ m = Midnight(DayOf(m)) + TimeOfDay(m)
      /\ Midnight(DayOf(m)) \in Nat /\ Midnight(d) \in Nat
      /\ SECONDS_PER_DAY \in Nat
  BY DayAndTime, Midnights, DayAssumption
<1>2. ~(DayOf(m) > d)
  BY <1>1, Midnights
<1>3. ~(d > DayOf(m))
  BY <1>1, Midnights
<1>4. DayOf(m) = d
  <2>1. DayOf(m) \in Nat
    BY <1>1
  <2>2. QED
    BY <1>2, <1>3, <2>1
<1>5. QED
  BY <1>1, <1>4

(* A clock that moves on by less than a day stays in the day, or is as far *)
(* in the next one.                                                        *)
LEMMA MovesOn ==
  ASSUME NEW m \in Nat, NEW seconds \in 0 .. Gap
  PROVE  IF TimeOfDay(m) + seconds < SECONDS_PER_DAY
         THEN /\ DayOf(m + seconds) = DayOf(m)
              /\ TimeOfDay(m + seconds) = TimeOfDay(m) + seconds
         ELSE /\ DayOf(m + seconds) = DayOf(m) + 1
              /\ TimeOfDay(m + seconds) = TimeOfDay(m) + seconds - SECONDS_PER_DAY
<1>1. /\ DayOf(m) \in Nat
      /\ TimeOfDay(m) \in 0 .. SECONDS_PER_DAY - 1
      /\ m = Midnight(DayOf(m)) + TimeOfDay(m)
      /\ Midnight(DayOf(m)) \in Nat
      /\ Midnight(DayOf(m) + 1) = Midnight(DayOf(m)) + SECONDS_PER_DAY
  BY DayAndTime, Midnights
<1>2. SECONDS_PER_DAY \in Nat /\ Gap < SECONDS_PER_DAY /\ Gap \in Nat
  BY DayAssumption
<1>3. CASE TimeOfDay(m) + seconds < SECONDS_PER_DAY
  <2>1. /\ TimeOfDay(m) + seconds \in 0 .. SECONDS_PER_DAY - 1
        /\ m + seconds = Midnight(DayOf(m)) + (TimeOfDay(m) + seconds)
        /\ m + seconds \in Nat
    BY <1>1, <1>2, <1>3
  <2>2. QED
    BY <1>1, <1>3, <2>1, DayAndTimeUnique
<1>4. CASE TimeOfDay(m) + seconds >= SECONDS_PER_DAY
  <2>1. /\ TimeOfDay(m) + seconds - SECONDS_PER_DAY \in 0 .. SECONDS_PER_DAY - 1
        /\ m + seconds = Midnight(DayOf(m) + 1) + (TimeOfDay(m) + seconds - SECONDS_PER_DAY)
        /\ m + seconds \in Nat /\ DayOf(m) + 1 \in Nat
    BY <1>1, <1>2, <1>4
  <2>2. QED
    BY <1>1, <1>2, <1>4, <2>1, DayAndTimeUnique
<1>5. QED
  BY <1>1, <1>2, <1>3, <1>4

(* A clock that goes back is in an earlier day, or earlier in the day.     *)
LEMMA GoesBack ==
  ASSUME NEW m \in Nat, NEW k \in Nat, k <= m
  PROVE  /\ DayOf(k) <= DayOf(m)
         /\ DayOf(k) = DayOf(m) => TimeOfDay(m) - TimeOfDay(k) = m - k
<1>1. /\ DayOf(m) \in Nat /\ DayOf(k) \in Nat
      /\ TimeOfDay(m) \in 0 .. SECONDS_PER_DAY - 1
      /\ TimeOfDay(k) \in 0 .. SECONDS_PER_DAY - 1
      /\ m = Midnight(DayOf(m)) + TimeOfDay(m)
      /\ k = Midnight(DayOf(k)) + TimeOfDay(k)
      /\ Midnight(DayOf(m)) \in Nat /\ Midnight(DayOf(k)) \in Nat
      /\ SECONDS_PER_DAY \in Nat
  BY DayAndTime, Midnights, DayAssumption
<1>2. ~(DayOf(k) > DayOf(m))
  BY <1>1, Midnights
<1>3. DayOf(k) = DayOf(m) => TimeOfDay(m) - TimeOfDay(k) = m - k
  BY <1>1
<1>4. QED
  BY <1>1, <1>2, <1>3

-----------------------------------------------------------------------------
(* The scheduler remembers the time of the last tick, from the one on at   *)
(* which the clock was set.                                                *)
Armed ==
  /\ clock \in Nat
  /\ event \in 0 .. SECONDS_PER_DAY - 1
  /\ clock < YEAR_BUILD => _seconds_since_midnight = Unset /\ since = -1 /\ fired = {}
  /\ clock >= YEAR_BUILD => _seconds_since_midnight = TimeOfDay(clock) /\ since \in Nat

(* What a tick answers, once the clock is set.                             *)
Answers(moment) ==
  IF TimeOfDay(clock) <= TimeOfDay(moment)
  THEN TimeOfDay(clock) < event /\ event <= TimeOfDay(moment)
  ELSE /\ TimeOfDay(moment) < Window /\ SECONDS_PER_DAY - Window < TimeOfDay(clock)
       /\ event <= TimeOfDay(moment)

LEMMA TickWhenArmed ==
  ASSUME Armed, clock >= YEAR_BUILD, NEW moment \in Nat, Tick(moment)
  PROVE  /\ clock' = moment /\ UNCHANGED <<event, since>>
         /\ _seconds_since_midnight' = TimeOfDay(moment)
         /\ answer' = Answers(moment)
         /\ fired' = IF Answers(moment) THEN fired \cup {DayOf(moment)} ELSE fired
<1>1. _seconds_since_midnight = TimeOfDay(clock) /\ _seconds_since_midnight # Unset
  BY DayAndTime, DayAssumption DEF Armed
<1>2. answer' = Answers(moment)
  BY <1>1 DEF Tick, Answers, Passed, NewDay
<1>3. QED
  BY <1>1, <1>2 DEF Tick

(* A tick before the clock is set, or the one that finds it set.           *)
LEMMA TickWhenUnset ==
  ASSUME Armed, clock < YEAR_BUILD, NEW moment \in Nat, Tick(moment)
  PROVE  /\ clock' = moment /\ UNCHANGED event
         /\ answer' = FALSE /\ fired' = {}
         /\ IF moment >= YEAR_BUILD
            THEN _seconds_since_midnight' = TimeOfDay(moment) /\ since' = DayOf(moment)
            ELSE _seconds_since_midnight' = Unset /\ since' = -1
BY DEF Armed, Tick, Accepted

(* Every step is a tick: of a clock that is not set or just set, that has  *)
(* moved on, or that has gone back.                                        *)
LEMMA StepIsTick ==
  ASSUME Armed, SchedulerNext
  PROVE  \/ /\ clock < YEAR_BUILD
            /\ \E moment \in Nat : Tick(moment)
         \/ /\ clock >= YEAR_BUILD
            /\ \E seconds \in 0 .. Gap : Tick(clock + seconds)
         \/ /\ clock >= YEAR_BUILD
            /\ \E seconds \in 1 .. Slip : clock - seconds >= YEAR_BUILD /\ Tick(clock - seconds)
BY SMTT(30), DayAssumption DEF SchedulerNext, TickLater, TickUnset, TickSet, TickEarlier, Armed

THEOREM ArmedHolds == SchedulerSpec => []Armed
<1>1. SchedulerInit => Armed
  <2> SUFFICES ASSUME SchedulerInit
               PROVE  Armed
    OBVIOUS
  <2>1. clock >= YEAR_BUILD => _seconds_since_midnight = TimeOfDay(clock) /\ since \in Nat
    BY DayAssumption DEF SchedulerInit
  <2>2. QED
    BY <2>1, DayAssumption DEF SchedulerInit, Armed
<1>2. Armed /\ [SchedulerNext]_schedulerVars => Armed'
  <2> SUFFICES ASSUME Armed, [SchedulerNext]_schedulerVars
               PROVE  Armed'
    OBVIOUS
  <2>1. ASSUME clock < YEAR_BUILD, NEW moment \in Nat, Tick(moment)
        PROVE  Armed'
    <3>1. /\ clock' = moment /\ UNCHANGED event /\ fired' = {}
          /\ IF moment >= YEAR_BUILD
             THEN _seconds_since_midnight' = TimeOfDay(moment) /\ since' = DayOf(moment)
             ELSE _seconds_since_midnight' = Unset /\ since' = -1
      BY <2>1, TickWhenUnset
    <3>2. DayOf(moment) \in Nat
      BY DayAndTime
    <3>3. QED
      BY <3>1, <3>2, DayAssumption DEF Armed
  <2>2. ASSUME clock >= YEAR_BUILD, NEW moment \in Nat, moment >= YEAR_BUILD, Tick(moment)
        PROVE  Armed'
    BY <2>2, TickWhenArmed, DayAssumption DEF Armed
  <2>3. \A seconds \in 0 .. Gap : clock >= YEAR_BUILD
                                    => clock + seconds \in Nat /\ clock + seconds >= YEAR_BUILD
    BY DayAssumption DEF Armed
  <2>4. \A seconds \in 1 .. Slip : clock - seconds >= YEAR_BUILD => clock - seconds \in Nat
    BY DayAssumption DEF Armed
  <2>5. CASE UNCHANGED schedulerVars
    BY <2>5 DEF schedulerVars, Armed
  <2>6. QED
    BY <2>1, <2>2, <2>3, <2>4, <2>5, StepIsTick
<1>3. QED
  BY <1>1, <1>2, PTL DEF SchedulerSpec

-----------------------------------------------------------------------------
(* A clock is corrected by less than what makes a step back look like a    *)
(* new day: going back from the end of a day to its beginning is not a     *)
(* correction tick could tell from midnight.                               *)
SmallSlip == Slip + 2 * Window <= SECONDS_PER_DAY

(* tick says true only for an event that became due since the last tick,   *)
(* or for a clock that was set back across midnight.                       *)
THEOREM FiresWhenDueAlways ==
  ASSUME SmallSlip
  PROVE  SchedulerSpec => FiresWhenDue
<1> DEFINE Due == answer' => \/ \E moment \in clock + 1 .. clock' : TimeOfDay(moment) = event
                             \/ DayOf(clock') < DayOf(clock)
<1>1. Armed /\ [SchedulerNext]_schedulerVars => [Due]_schedulerVars
  <2> SUFFICES ASSUME Armed, SchedulerNext, answer'
               PROVE  \/ \E moment \in clock + 1 .. clock' : TimeOfDay(moment) = event
                      \/ DayOf(clock') < DayOf(clock)
    OBVIOUS
  <2>0. /\ clock \in Nat /\ event \in 0 .. SECONDS_PER_DAY - 1
        /\ TimeOfDay(clock) \in 0 .. SECONDS_PER_DAY - 1
        /\ SECONDS_PER_DAY \in Nat /\ Gap \in Nat /\ Window \in Nat /\ Slip \in Nat
        /\ Gap < Window /\ 2 * Window < SECONDS_PER_DAY
        /\ YEAR_BUILD \in Nat \ {0}
    BY DayAndTime, DayAssumption DEF Armed
  <2>1. CASE clock < YEAR_BUILD /\ \E moment \in Nat : Tick(moment)
    BY <2>1, TickWhenUnset
  <2>2. ASSUME clock >= YEAR_BUILD, NEW seconds \in 0 .. Gap, Tick(clock + seconds)
        PROVE  \E moment \in clock + 1 .. clock' : TimeOfDay(moment) = event
    <3>1. clock + seconds \in Nat /\ clock' = clock + seconds /\ Answers(clock + seconds)
      <4>1. clock + seconds \in Nat
        BY <2>0
      <4>2. clock' = clock + seconds /\ answer' = Answers(clock + seconds)
        BY <2>2, <4>1, TickWhenArmed, Zenon
      <4>3. QED
        BY <4>1, <4>2, Zenon
    <3>2. IF TimeOfDay(clock) + seconds < SECONDS_PER_DAY
          THEN TimeOfDay(clock + seconds) = TimeOfDay(clock) + seconds
          ELSE TimeOfDay(clock + seconds) = TimeOfDay(clock) + seconds - SECONDS_PER_DAY
      BY <2>0, MovesOn
    <3>3. CASE TimeOfDay(clock) + seconds < SECONDS_PER_DAY
      <4>1. /\ TimeOfDay(clock) < event /\ event <= TimeOfDay(clock) + seconds
        BY <2>0, <3>1, <3>2, <3>3 DEF Answers
      <4>2. event - TimeOfDay(clock) \in 0 .. Gap
        BY <2>0, <4>1
      <4>3. TimeOfDay(clock + (event - TimeOfDay(clock))) = event
        BY <2>0, <4>2, MovesOn
      <4>4. clock + (event - TimeOfDay(clock)) \in clock + 1 .. clock'
        BY <2>0, <3>1, <4>1
      <4>5. QED
        BY <4>3, <4>4
    <3>4. CASE TimeOfDay(clock) + seconds >= SECONDS_PER_DAY
      <4>1. event <= TimeOfDay(clock) + seconds - SECONDS_PER_DAY
        BY <2>0, <3>1, <3>2, <3>4 DEF Answers
      <4> DEFINE later == event + SECONDS_PER_DAY - TimeOfDay(clock)
      <4>2. later \in 1 .. seconds /\ later \in 0 .. Gap
        BY <2>0, <4>1
      <4>3. TimeOfDay(clock) + later >= SECONDS_PER_DAY
        BY <2>0
      <4>4. TimeOfDay(clock + later) = TimeOfDay(clock) + later - SECONDS_PER_DAY
        BY <2>0, <4>2, <4>3, MovesOn
      <4>5. TimeOfDay(clock + later) = event /\ clock + later \in clock + 1 .. clock'
        BY <2>0, <3>1, <4>2, <4>4
      <4>6. QED
        BY <4>5
    <3>5. QED
      BY <2>0, <3>3, <3>4
  <2>3. ASSUME clock >= YEAR_BUILD, NEW seconds \in 1 .. Slip,
               clock - seconds >= YEAR_BUILD, Tick(clock - seconds)
        PROVE  DayOf(clock') < DayOf(clock)
    <3>1. clock - seconds \in Nat /\ clock' = clock - seconds /\ Answers(clock - seconds)
      <4>1. clock - seconds \in Nat
        BY <2>0, <2>3
      <4>2. clock' = clock - seconds /\ answer' = Answers(clock - seconds)
        BY <2>3, <4>1, TickWhenArmed, Zenon
      <4>3. QED
        BY <4>1, <4>2, Zenon
    <3>2. /\ DayOf(clock') <= DayOf(clock)
          /\ DayOf(clock') = DayOf(clock) => TimeOfDay(clock) - TimeOfDay(clock') = seconds
      BY <2>0, <3>1, GoesBack
    <3>3. /\ DayOf(clock) \in Nat /\ DayOf(clock') \in Nat
          /\ TimeOfDay(clock') \in 0 .. SECONDS_PER_DAY - 1
      BY <2>0, <3>1, DayAndTime
    <3>4. DayOf(clock') # DayOf(clock)
      <4> SUFFICES ASSUME DayOf(clock') = DayOf(clock)
                   PROVE  FALSE
        OBVIOUS
      <4>1. TimeOfDay(clock) > TimeOfDay(clock')
        BY <2>0, <3>2, <3>3
      <4>2. TimeOfDay(clock') < Window /\ SECONDS_PER_DAY - Window < TimeOfDay(clock)
        BY <2>0, <3>1, <3>3, <4>1 DEF Answers
      <4>3. QED
        BY <2>0, <3>2, <3>3, <4>2 DEF SmallSlip
    <3>5. QED
      BY <3>2, <3>3, <3>4
  <2>4. QED
    BY <2>1, <2>2, <2>3, StepIsTick
<1>2. QED
  BY <1>1, ArmedHolds, PTL DEF SchedulerSpec, FiresWhenDue

-----------------------------------------------------------------------------
(* A tick of a set clock that has moved on: the time is later in the same  *)
(* day, or at most Gap after the midnight that ended it.                   *)
LEMMA TickMovesOn ==
  ASSUME Armed, clock >= YEAR_BUILD, NEW seconds \in 0 .. Gap, Tick(clock + seconds)
  PROVE  /\ UNCHANGED <<event, since, back>>
         /\ answer' = Answers(clock')
         /\ fired' = IF Answers(clock') THEN fired \cup {DayOf(clock')} ELSE fired
         /\ \/ DayOf(clock') = DayOf(clock) /\ TimeOfDay(clock) <= TimeOfDay(clock')
            \/ /\ DayOf(clock') = DayOf(clock) + 1
               /\ TimeOfDay(clock) >= SECONDS_PER_DAY - Gap
               /\ TimeOfDay(clock') < Gap /\ TimeOfDay(clock') < TimeOfDay(clock)
<1>1. /\ clock \in Nat /\ clock + seconds \in Nat /\ ~(clock + seconds < clock)
      /\ TimeOfDay(clock) \in 0 .. SECONDS_PER_DAY - 1
      /\ SECONDS_PER_DAY \in Nat /\ Gap \in Nat /\ Window \in Nat
      /\ Gap < Window /\ 2 * Window < SECONDS_PER_DAY
  BY DayAndTime, DayAssumption DEF Armed
<1>2. /\ clock' = clock + seconds /\ UNCHANGED <<event, since>>
      /\ answer' = Answers(clock + seconds)
      /\ fired' = IF Answers(clock + seconds) THEN fired \cup {DayOf(clock + seconds)} ELSE fired
  BY <1>1, TickWhenArmed, Zenon
<1>3. UNCHANGED back
  BY <1>1 DEF Tick
<1>4. \/ DayOf(clock') = DayOf(clock) /\ TimeOfDay(clock) <= TimeOfDay(clock')
      \/ /\ DayOf(clock') = DayOf(clock) + 1
         /\ TimeOfDay(clock) >= SECONDS_PER_DAY - Gap
         /\ TimeOfDay(clock') < Gap /\ TimeOfDay(clock') < TimeOfDay(clock)
  <2>1. IF TimeOfDay(clock) + seconds < SECONDS_PER_DAY
        THEN /\ DayOf(clock') = DayOf(clock)
             /\ TimeOfDay(clock') = TimeOfDay(clock) + seconds
        ELSE /\ DayOf(clock') = DayOf(clock) + 1
             /\ TimeOfDay(clock') = TimeOfDay(clock) + seconds - SECONDS_PER_DAY
    BY <1>1, <1>2, MovesOn, Zenon
  <2>2. QED
    BY <1>1, <2>1
<1>5. QED
  BY <1>2, <1>3, <1>4, Zenon

(* A tick of a set clock that has gone back.                               *)
LEMMA TickGoesBack ==
  ASSUME Armed, clock >= YEAR_BUILD, NEW seconds \in 1 .. Slip,
         clock - seconds >= YEAR_BUILD, Tick(clock - seconds)
  PROVE  /\ UNCHANGED <<event, since>>
         /\ back' = back \cup (DayOf(clock') .. DayOf(clock))
         /\ fired' = IF Answers(clock') THEN fired \cup {DayOf(clock')} ELSE fired
         /\ DayOf(clock') <= DayOf(clock)
         /\ DayOf(clock') = DayOf(clock) => TimeOfDay(clock') < TimeOfDay(clock)
<1>1. clock \in Nat /\ clock - seconds \in Nat /\ clock - seconds < clock
  BY DayAssumption DEF Armed
<1>2. /\ clock' = clock - seconds /\ UNCHANGED <<event, since>>
      /\ fired' = IF Answers(clock - seconds) THEN fired \cup {DayOf(clock - seconds)} ELSE fired
  BY <1>1, TickWhenArmed, Zenon
<1>3. back' = back \cup (DayOf(clock') .. DayOf(clock))
  BY <1>1, <1>2 DEF Tick
<1>4. DayOf(clock') <= DayOf(clock)
  BY <1>1, <1>2, GoesBack
<1>5. DayOf(clock') = DayOf(clock) => TimeOfDay(clock') < TimeOfDay(clock)
  <2>1. /\ TimeOfDay(clock) \in 0 .. SECONDS_PER_DAY - 1
        /\ TimeOfDay(clock') \in 0 .. SECONDS_PER_DAY - 1
        /\ SECONDS_PER_DAY \in Nat
    BY <1>1, <1>2, DayAndTime, DayAssumption
  <2>2. QED
    BY <1>1, <1>2, <2>1, GoesBack
<1>6. QED
  BY <1>2, <1>3, <1>4, <1>5, Zenon

-----------------------------------------------------------------------------
(* The days the event has run in, but those the clock went back in or to,  *)
(* are over or past the time the event is due at.                          *)
FiredIsPast ==
  /\ fired \subseteq Nat
  /\ \A day \in fired : \/ day \in back
                        \/ day < DayOf(clock)
                        \/ day = DayOf(clock) /\ event <= TimeOfDay(clock)

LEMMA FiredIsPastStep ==
  ASSUME Armed, FiredIsPast, [SchedulerNext]_schedulerVars
  PROVE  FiredIsPast'
<1>1. /\ clock \in Nat /\ event \in Nat /\ fired \subseteq Nat
      /\ DayOf(clock) \in Nat
      /\ TimeOfDay(clock) \in 0 .. SECONDS_PER_DAY - 1 /\ SECONDS_PER_DAY \in Nat
  BY DayAndTime, DayAssumption DEF Armed, FiredIsPast
<1>2. CASE clock < YEAR_BUILD /\ \E moment \in Nat : Tick(moment)
  <2>1. fired' = {}
    BY <1>2, TickWhenUnset
  <2>2. QED
    BY <2>1 DEF FiredIsPast
<1>3. ASSUME clock >= YEAR_BUILD, NEW moment \in Nat, Tick(moment)
      PROVE  /\ DayOf(clock') \in Nat
             /\ TimeOfDay(clock') \in 0 .. SECONDS_PER_DAY - 1
  <2>1. clock' = moment
    BY <1>3 DEF Tick
  <2>2. QED
    BY <2>1, DayAndTime
<1>4. ASSUME clock >= YEAR_BUILD, NEW seconds \in 0 .. Gap, Tick(clock + seconds)
      PROVE  FiredIsPast'
  <2>1. /\ UNCHANGED <<event, since, back>>
        /\ fired' = IF Answers(clock') THEN fired \cup {DayOf(clock')} ELSE fired
        /\ \/ DayOf(clock') = DayOf(clock) /\ TimeOfDay(clock) <= TimeOfDay(clock')
           \/ DayOf(clock') = DayOf(clock) + 1
    BY <1>4, TickMovesOn
  <2>2. clock + seconds \in Nat
    BY <1>1, DayAssumption
  <2>3. DayOf(clock') \in Nat /\ TimeOfDay(clock') \in 0 .. SECONDS_PER_DAY - 1
    BY <1>3, <1>4, <2>2
  <2>4. Answers(clock') => event <= TimeOfDay(clock')
    BY DEF Answers
  <2>5. \A day \in fired : \/ day \in back
                           \/ day < DayOf(clock')
                           \/ day = DayOf(clock') /\ event <= TimeOfDay(clock')
    BY <1>1, <2>1, <2>3 DEF FiredIsPast
  <2>6. QED
    BY <1>1, <2>1, <2>3, <2>4, <2>5 DEF FiredIsPast
<1>5. ASSUME clock >= YEAR_BUILD, NEW seconds \in 1 .. Slip,
             clock - seconds >= YEAR_BUILD, Tick(clock - seconds)
      PROVE  FiredIsPast'
  <2>1. /\ UNCHANGED <<event, since>>
        /\ back' = back \cup (DayOf(clock') .. DayOf(clock))
        /\ fired' = IF Answers(clock') THEN fired \cup {DayOf(clock')} ELSE fired
        /\ DayOf(clock') <= DayOf(clock)
    BY <1>5, TickGoesBack
  <2>2. clock - seconds \in Nat
    BY <1>1, <1>5, DayAssumption
  <2>3. DayOf(clock') \in Nat
    BY <1>3, <1>5, <2>2
  <2>4. \A day \in fired : day \in back' \/ day < DayOf(clock')
    BY <1>1, <2>1, <2>3 DEF FiredIsPast
  <2>5. DayOf(clock') \in back'
    BY <1>1, <2>1, <2>3
  <2>6. QED
    BY <1>1, <2>1, <2>3, <2>4, <2>5 DEF FiredIsPast
<1>6. CASE UNCHANGED schedulerVars
  BY <1>6 DEF schedulerVars, FiredIsPast
<1>7. QED
  BY <1>2, <1>4, <1>5, <1>6, StepIsTick

(* tick says true at most once in a day in which the clock only moves on.  *)
THEOREM OncePerSteadyDayAlways == SchedulerSpec => OncePerSteadyDay
<1> DEFINE Once == answer' /\ DayOf(clock') \notin back' => DayOf(clock') \notin fired
<1>1. SchedulerInit => FiredIsPast
  BY DEF SchedulerInit, FiredIsPast
<1>2. Armed /\ FiredIsPast /\ [SchedulerNext]_schedulerVars => [Once]_schedulerVars
  <2> SUFFICES ASSUME Armed, FiredIsPast, SchedulerNext,
                      answer', DayOf(clock') \notin back', DayOf(clock') \in fired
               PROVE  FALSE
    OBVIOUS
  <2>1. /\ clock \in Nat /\ event \in Nat /\ fired \subseteq Nat
        /\ DayOf(clock) \in Nat
        /\ TimeOfDay(clock) \in 0 .. SECONDS_PER_DAY - 1 /\ SECONDS_PER_DAY \in Nat
    BY DayAndTime, DayAssumption DEF Armed, FiredIsPast
  <2>2. DayOf(clock') \in Nat
    BY <2>1, Zenon
  <2>3. CASE clock < YEAR_BUILD /\ \E moment \in Nat : Tick(moment)
    BY <2>3, TickWhenUnset
  <2>4. ASSUME clock >= YEAR_BUILD, NEW seconds \in 0 .. Gap, Tick(clock + seconds)
        PROVE  FALSE
    <3>1. /\ Answers(clock') /\ back' = back
          /\ \/ DayOf(clock') = DayOf(clock) /\ TimeOfDay(clock) <= TimeOfDay(clock')
             \/ DayOf(clock') = DayOf(clock) + 1
      BY <2>4, TickMovesOn, Zenon
    <3>2. DayOf(clock') = DayOf(clock) /\ event <= TimeOfDay(clock)
      BY <2>1, <2>2, <3>1 DEF FiredIsPast
    <3>3. TimeOfDay(clock) < event
      BY <2>1, <3>1, <3>2 DEF Answers
    <3>4. QED
      BY <2>1, <3>2, <3>3
  <2>5. ASSUME clock >= YEAR_BUILD, NEW seconds \in 1 .. Slip,
               clock - seconds >= YEAR_BUILD, Tick(clock - seconds)
        PROVE  FALSE
    <3>1. /\ back' = back \cup (DayOf(clock') .. DayOf(clock))
          /\ DayOf(clock') <= DayOf(clock)
      BY <2>5, TickGoesBack
    <3>2. QED
      BY <2>1, <2>2, <3>1
  <2>6. QED
    BY <2>3, <2>4, <2>5, StepIsTick
<1>3. Armed /\ FiredIsPast /\ [SchedulerNext]_schedulerVars => FiredIsPast'
  BY FiredIsPastStep
<1>4. QED
  BY <1>1, <1>2, <1>3, ArmedHolds, PTL DEF SchedulerSpec, OncePerSteadyDay

-----------------------------------------------------------------------------
(* The event is not due in the last Gap seconds of the day.                *)
NotAtMidnight == event <= SECONDS_PER_DAY - 1 - Gap

(* The event has run on every day after the one the scheduler was armed on *)
(* that is over, and today if it is past the time the event is due at.     *)
RanSoFar ==
  (since # -1 /\ NotAtMidnight) =>
    /\ \A day \in since + 1 .. DayOf(clock) - 1 : day \in fired
    /\ (DayOf(clock) > since /\ event <= TimeOfDay(clock)) => DayOf(clock) \in fired

LEMMA RanSoFarStep ==
  ASSUME Armed, RanSoFar, [SchedulerNext]_schedulerVars
  PROVE  RanSoFar'
<1>1. /\ clock \in Nat /\ event \in Nat /\ DayOf(clock) \in Nat
      /\ TimeOfDay(clock) \in 0 .. SECONDS_PER_DAY - 1
      /\ SECONDS_PER_DAY \in Nat /\ Gap \in Nat /\ Window \in Nat
      /\ Gap < Window /\ 2 * Window < SECONDS_PER_DAY
  BY DayAndTime, DayAssumption DEF Armed
<1>2. ASSUME NEW moment \in Nat, Tick(moment)
      PROVE  /\ DayOf(clock') \in Nat
             /\ TimeOfDay(clock') \in 0 .. SECONDS_PER_DAY - 1
  <2>1. clock' = moment
    BY <1>2 DEF Tick
  <2>2. QED
    BY <2>1, DayAndTime
<1>3. ASSUME clock < YEAR_BUILD, NEW moment \in Nat, Tick(moment)
      PROVE  RanSoFar'
  <2>1. since' = DayOf(clock') \/ since' = -1
    BY <1>3, TickWhenUnset
  <2>2. DayOf(clock') \in Nat
    BY <1>2, <1>3
  <2>3. QED
    BY <2>1, <2>2 DEF RanSoFar
<1>4. ASSUME clock >= YEAR_BUILD, NEW seconds \in 0 .. Gap, Tick(clock + seconds)
      PROVE  RanSoFar'
  <2> SUFFICES ASSUME NotAtMidnight
               PROVE  /\ \A day \in since + 1 .. DayOf(clock') - 1 : day \in fired'
                      /\ (DayOf(clock') > since /\ event <= TimeOfDay(clock'))
                           => DayOf(clock') \in fired'
    BY <1>4, TickMovesOn DEF RanSoFar, NotAtMidnight
  <2>1. since \in Nat
    BY <1>4 DEF Armed
  <2>2. /\ \A day \in since + 1 .. DayOf(clock) - 1 : day \in fired
        /\ (DayOf(clock) > since /\ event <= TimeOfDay(clock)) => DayOf(clock) \in fired
    BY <2>1 DEF RanSoFar
  <2>3. clock + seconds \in Nat
    BY <1>1
  <2>4. DayOf(clock') \in Nat /\ TimeOfDay(clock') \in 0 .. SECONDS_PER_DAY - 1
    BY <1>2, <1>4, <2>3
  <2>5. fired' = IF Answers(clock') THEN fired \cup {DayOf(clock')} ELSE fired
    BY <1>4, TickMovesOn
  <2>6. CASE DayOf(clock') = DayOf(clock) /\ TimeOfDay(clock) <= TimeOfDay(clock')
    <3>1. event <= TimeOfDay(clock') => event <= TimeOfDay(clock) \/ Answers(clock')
      BY <1>1, <2>6 DEF Answers
    <3>2. QED
      BY <2>2, <2>5, <2>6, <3>1
  <2>7. CASE /\ DayOf(clock') = DayOf(clock) + 1
             /\ TimeOfDay(clock) >= SECONDS_PER_DAY - Gap
             /\ TimeOfDay(clock') < Gap /\ TimeOfDay(clock') < TimeOfDay(clock)
    <3>1. event <= TimeOfDay(clock)
      BY <1>1, <2>7 DEF NotAtMidnight
    <3>2. event <= TimeOfDay(clock') => Answers(clock')
      BY <1>1, <2>4, <2>7 DEF Answers
    <3>3. \A day \in since + 1 .. DayOf(clock) : day \in fired
      BY <1>1, <2>1, <2>2, <3>1
    <3>4. QED
      BY <1>1, <2>5, <2>7, <3>2, <3>3
  <2>8. QED
    BY <1>4, <2>6, <2>7, TickMovesOn
<1>5. ASSUME clock >= YEAR_BUILD, NEW seconds \in 1 .. Slip,
             clock - seconds >= YEAR_BUILD, Tick(clock - seconds)
      PROVE  RanSoFar'
  <2> SUFFICES ASSUME NotAtMidnight
               PROVE  /\ \A day \in since + 1 .. DayOf(clock') - 1 : day \in fired'
                      /\ (DayOf(clock') > since /\ event <= TimeOfDay(clock'))
                           => DayOf(clock') \in fired'
    BY <1>5, TickGoesBack DEF RanSoFar, NotAtMidnight
  <2>1. since \in Nat
    BY <1>5 DEF Armed
  <2>2. /\ \A day \in since + 1 .. DayOf(clock) - 1 : day \in fired
        /\ (DayOf(clock) > since /\ event <= TimeOfDay(clock)) => DayOf(clock) \in fired
    BY <2>1 DEF RanSoFar
  <2>3. clock - seconds \in Nat
    BY <1>1, <1>5, DayAssumption
  <2>4. DayOf(clock') \in Nat /\ TimeOfDay(clock') \in 0 .. SECONDS_PER_DAY - 1
    BY <1>2, <1>5, <2>3
  <2>5. /\ fired \subseteq fired'
        /\ DayOf(clock') <= DayOf(clock)
        /\ DayOf(clock') = DayOf(clock) => TimeOfDay(clock') < TimeOfDay(clock)
    BY <1>5, TickGoesBack
  <2>6. QED
    BY <1>1, <2>1, <2>2, <2>4, <2>5
<1>6. CASE UNCHANGED schedulerVars
  BY <1>6 DEF schedulerVars, RanSoFar, NotAtMidnight
<1>7. QED
  BY <1>3, <1>4, <1>5, <1>6, StepIsTick

(* No day after the first passes without the event, however often the      *)
(* clock is corrected, as long as it is not due just before midnight.      *)
THEOREM NoDaySkippedAlways == SchedulerSpec => NoDaySkipped
<1> DEFINE Skipped == /\ DayOf(clock') > DayOf(clock) /\ since # -1 /\ DayOf(clock) > since
                      /\ event <= SECONDS_PER_DAY - 1 - Gap
<1>1. SchedulerInit => RanSoFar
  BY DEF SchedulerInit, RanSoFar
<1>2. Armed /\ RanSoFar /\ [SchedulerNext]_schedulerVars => [Skipped => DayOf(clock) \in fired]_schedulerVars
  <2> SUFFICES ASSUME Armed, RanSoFar, SchedulerNext, Skipped
               PROVE  DayOf(clock) \in fired
    OBVIOUS
  <2>1. /\ clock \in Nat /\ event \in Nat /\ DayOf(clock) \in Nat
        /\ TimeOfDay(clock) \in 0 .. SECONDS_PER_DAY - 1
        /\ SECONDS_PER_DAY \in Nat /\ Gap \in Nat
    BY DayAndTime, DayAssumption DEF Armed
  <2>2. CASE clock < YEAR_BUILD /\ \E moment \in Nat : Tick(moment)
    BY <2>2 DEF Armed
  <2>3. ASSUME clock >= YEAR_BUILD, NEW seconds \in 0 .. Gap, Tick(clock + seconds)
        PROVE  DayOf(clock) \in fired
    <3>1. TimeOfDay(clock) >= SECONDS_PER_DAY - Gap
      BY <2>1, <2>3, TickMovesOn
    <3>2. event <= TimeOfDay(clock)
      BY <2>1, <3>1
    <3>3. QED
      BY <3>2 DEF RanSoFar, NotAtMidnight
  <2>4. ASSUME clock >= YEAR_BUILD, NEW seconds \in 1 .. Slip,
               clock - seconds >= YEAR_BUILD, Tick(clock - seconds)
        PROVE  DayOf(clock) \in fired
    <3>1. DayOf(clock') <= DayOf(clock)
      BY <2>4, TickGoesBack
    <3>2. clock' \in Nat /\ clock' = clock - seconds
      BY <2>1, <2>4, DayAssumption DEF Tick
    <3>3. DayOf(clock') \in Nat
      BY <3>2, DayAndTime
    <3>4. QED
      BY <2>1, <3>1, <3>3
  <2>5. QED
    BY <2>2, <2>3, <2>4, StepIsTick
<1>3. Armed /\ RanSoFar /\ [SchedulerNext]_schedulerVars => RanSoFar'
  BY RanSoFarStep
<1>4. QED
  BY <1>1, <1>2, <1>3, ArmedHolds, PTL DEF SchedulerSpec, NoDaySkipped

=============================================================================
