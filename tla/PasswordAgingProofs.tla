------------------------ MODULE PasswordAgingProofs -------------------------
(***************************************************************************)
(* Theorems about PasswordAging, for a calendar of every length and every  *)
(* number of days the two calls that take one may be given.                *)
(***************************************************************************)
EXTENDS PasswordAging, TLAPS

(* What the fields of an account's line may hold.  A warning period of no  *)
(* day is never stored.                                                    *)
ShadowEntries ==
  [name : {User}, hash : Passwords,
   lstchg : Nat \cup {Off}, max : Nat \cup {Off}, warn : (Nat \ {0}) \cup {Off}]

LEMMA WithPasswordIsEntry ==
  ASSUME NEW e \in ShadowEntries, NEW hash \in Passwords, NEW day \in Nat
  PROVE  /\ WithPassword(e, hash, day) \in ShadowEntries
         /\ WithPassword(e, hash, day).max = e.max
         /\ WithPassword(e, hash, day).lstchg = day
BY Zenon DEF WithPassword, ShadowEntries

LEMMA WithMaxAgeIsEntry ==
  ASSUME NEW e \in ShadowEntries, NEW days \in Int, NEW day \in Nat
  PROVE  /\ WithMaxAge(e, days, day) \in ShadowEntries
         /\ WithMaxAge(e, days, day).max = IF days < 0 THEN Off ELSE days
         /\ WithMaxAge(e, days, day).lstchg =
              IF days < 0 THEN Off
              ELSE IF e.lstchg < 0 /\ days > 0 THEN day ELSE e.lstchg
<1>1. CASE days < 0
  BY <1>1, Zenon DEF WithMaxAge, ShadowEntries
<1>2. CASE ~(days < 0)
  <2>1. days \in Nat
    BY <1>2
  <2>2. CASE e.lstchg < 0 /\ days > 0
    BY <1>2, <2>1, <2>2, Zenon DEF WithMaxAge, ShadowEntries
  <2>3. CASE ~(e.lstchg < 0 /\ days > 0)
    BY <1>2, <2>1, <2>3, Zenon DEF WithMaxAge, ShadowEntries
  <2>4. QED
    BY <2>2, <2>3
<1>3. QED
  BY <1>1, <1>2

LEMMA WithWarningIsEntry ==
  ASSUME NEW e \in ShadowEntries, NEW days \in Int
  PROVE  /\ WithWarning(e, days) \in ShadowEntries
         /\ WithWarning(e, days).max = e.max
         /\ WithWarning(e, days).lstchg = e.lstchg
<1>1. (IF days > 0 THEN days ELSE Off) \in (Nat \ {0}) \cup {Off}
  OBVIOUS
<1>2. QED
  BY <1>1, Zenon DEF WithWarning, ShadowEntries

(* The account's line is one the edits write, and no password was changed  *)
(* after today.                                                            *)
Sensible ==
  /\ today \in Nat
  /\ entry \in ShadowEntries
  /\ entry.lstchg <= today

LEMMA LastChangeIsDay ==
  ASSUME Sensible
  PROVE  /\ entry.lstchg \in Nat \cup {Off} /\ entry.max \in Nat \cup {Off}
         /\ entry.warn \in (Nat \ {0}) \cup {Off}
BY Zenon DEF Sensible, ShadowEntries

LEMMA SensibleStep == Sensible /\ [AgingNext]_agingVars => Sensible'
<1> SUFFICES ASSUME Sensible, [AgingNext]_agingVars
             PROVE  Sensible'
  OBVIOUS
<1>0. /\ today \in Nat /\ entry \in ShadowEntries
      /\ entry.lstchg \in Int /\ entry.lstchg <= today
  BY LastChangeIsDay DEF Sensible, Off
<1>1. CASE NextDay
  BY <1>0, <1>1 DEF NextDay, Sensible
<1>2. ASSUME NEW hash \in Passwords, changePassword(hash)
      PROVE  Sensible'
  BY <1>0, <1>2, WithPasswordIsEntry DEF changePassword, Sensible
<1>3. ASSUME NEW hash \in Passwords, replaceUser(hash)
      PROVE  Sensible'
  BY <1>0, <1>3 DEF replaceUser, NewEntry, Sensible, ShadowEntries
<1>4. ASSUME NEW days \in Ages, changeMaxPasswordAge(days)
      PROVE  Sensible'
  BY <1>0, <1>4, ChoicesAssumption, WithMaxAgeIsEntry DEF changeMaxPasswordAge, Sensible, Off
<1>5. ASSUME NEW days \in Warnings, changeWarningPeriod(days)
      PROVE  Sensible'
  BY <1>0, <1>5, ChoicesAssumption, WithWarningIsEntry DEF changeWarningPeriod, Sensible
<1>6. CASE UNCHANGED agingVars
  BY <1>6 DEF agingVars, Sensible
<1>7. QED
  BY <1>1, <1>2, <1>3, <1>4, <1>5, <1>6 DEF AgingNext

(* The account's line stays within what the edits may write.               *)
THEOREM SensibleHolds == AgingSpec => []Sensible
<1>1. AgingInit => Sensible
  BY DEF AgingInit, NewEntry, Sensible, ShadowEntries
<1>2. QED
  BY <1>1, SensibleStep, PTL DEF AgingSpec

(* A day passes in no call.                                                *)
LEMMA OnlyNextDayPasses ==
  ASSUME Sensible, AgingNext, today' # today
  PROVE  today' = today + 1 /\ entry' = entry
BY DEF AgingNext, NextDay, changePassword, replaceUser, changeMaxPasswordAge, changeWarningPeriod

-----------------------------------------------------------------------------
(* An active password with a warning period does not expire without its    *)
(* user having been warned the day before that no day is left.             *)
THEOREM WarnedBeforeExpiryAlways == AgingSpec => WarnedBeforeExpiry
<1> DEFINE Surprise == /\ today' # today /\ Info.expActive /\ entry.warn # Off
                       /\ ~Expired /\ Expired'
<1>1. Sensible /\ [AgingNext]_agingVars => [Surprise => Info.warnUser /\ Info.daysLeft = 0]_agingVars
  <2> SUFFICES ASSUME Sensible, AgingNext, Surprise
               PROVE  Info.warnUser /\ Info.daysLeft = 0
    OBVIOUS
  <2>1. today' = today + 1 /\ entry' = entry
    BY OnlyNextDayPasses
  <2>2. entry.max # Off /\ entry.lstchg # Off
    BY DEF Info, getPasswordExpirationInfo
  <2>3. today = LastValidDay(entry)
    BY <2>1, <2>2, LastChangeIsDay DEF Expired, passwordExpired, LastValidDay, Sensible, Off
  <2>4. WarnUser(entry, today)
    BY <2>3, LastChangeIsDay DEF WarnUser, Sensible, Off
  <2>5. QED
    BY <2>2, <2>3, <2>4 DEF Info, getPasswordExpirationInfo, Sensible
<1>2. QED
  BY <1>1, SensibleHolds, PTL DEF AgingSpec, WarnedBeforeExpiry

(* Turning the expiration on grants the whole period from today.           *)
THEOREM TurningOnGrantsPeriodAlways == AgingSpec => TurningOnGrantsPeriod
<1> DEFINE TurnedOn == entry.lstchg = Off /\ entry'.max > 0 /\ entry.max # entry'.max
           Granted == /\ ~Expired' /\ Info'.expActive
                      /\ LastValidDay(entry') = today + entry'.max
<1>1. Sensible /\ [AgingNext]_agingVars => [TurnedOn => Granted]_agingVars
  <2> SUFFICES ASSUME Sensible, AgingNext, TurnedOn
               PROVE  Granted
    OBVIOUS
  <2>1. PICK days \in Ages : changeMaxPasswordAge(days)
    <3>1. ~NextDay
      BY DEF NextDay
    <3>2. ASSUME NEW hash \in Passwords
          PROVE  ~changePassword(hash) /\ ~replaceUser(hash)
      <4>1. changePassword(hash) => entry'.max = entry.max
        BY WithPasswordIsEntry DEF changePassword, Sensible
      <4>2. replaceUser(hash) => ~(entry'.max > 0)
        BY DEF replaceUser, NewEntry, Off
      <4>3. QED
        BY <4>1, <4>2
    <3>3. ASSUME NEW days \in Warnings
          PROVE  ~changeWarningPeriod(days)
      BY ChoicesAssumption, WithWarningIsEntry DEF changeWarningPeriod, Sensible
    <3>4. QED
      BY <3>1, <3>2, <3>3, Zenon DEF AgingNext
  <2>2. days \in Int /\ today' = today
    BY <2>1, ChoicesAssumption DEF changeMaxPasswordAge
  <2>3. days > 0 /\ entry'.max = days /\ entry'.lstchg = today
    BY <2>1, <2>2, WithMaxAgeIsEntry DEF changeMaxPasswordAge, Sensible, Off
  <2>4. LastValidDay(entry') = today + entry'.max /\ today \in Nat
    BY <2>3 DEF LastValidDay, Sensible
  <2>5. ~Expired'
    BY <2>2, <2>3, <2>4 DEF Expired, passwordExpired
  <2>6. Info'.expActive
    <3>1. entry'.max # Off /\ entry'.lstchg # Off
      BY <2>2, <2>3, <2>4 DEF Off
    <3>2. QED
      BY <3>1 DEF Info, getPasswordExpirationInfo
  <2>7. QED
    BY <2>4, <2>5, <2>6
<1>2. QED
  BY <1>1, SensibleHolds, PTL DEF AgingSpec, TurningOnGrantsPeriod

(* The days a warned user is told fall by one a day.                       *)
THEOREM DaysLeftCountsDownAlways == AgingSpec => DaysLeftCountsDown
<1> DEFINE Warned == today' # today /\ Info.warnUser /\ Info.daysLeft > 0
           Counted == Info'.warnUser /\ Info'.daysLeft = Info.daysLeft - 1 /\ ~Expired'
<1>1. Sensible /\ [AgingNext]_agingVars => [Warned => Counted]_agingVars
  <2> SUFFICES ASSUME Sensible, AgingNext, Warned
               PROVE  Counted
    OBVIOUS
  <2>1. today' = today + 1 /\ entry' = entry
    BY OnlyNextDayPasses
  <2> DEFINE left == LastValidDay(entry) - today
  <2>2. LastValidDay(entry) \in Int /\ today \in Nat
    BY LastChangeIsDay DEF LastValidDay, Sensible, Off
  <2>3. /\ entry.max # Off /\ entry.lstchg # Off /\ WarnUser(entry, today)
        /\ left > 0 /\ Info.daysLeft = left
    BY <2>2 DEF Info, getPasswordExpirationInfo
  <2>4. WarnUser(entry, today + 1)
    BY <2>2, <2>3, LastChangeIsDay DEF WarnUser, Sensible, Off
  <2>5. QED
    BY <2>1, <2>2, <2>3, <2>4 DEF Info, getPasswordExpirationInfo, Expired, passwordExpired
<1>2. QED
  BY <1>1, SensibleHolds, PTL DEF AgingSpec, DaysLeftCountsDown

=============================================================================
