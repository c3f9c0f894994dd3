--------------------------- MODULE PasswordAging ---------------------------
(***************************************************************************)
(* The life of one account in smart/passwd.cpp as days pass: what          *)
(* passwordExpired and getPasswordExpirationInfo answer after any sequence *)
(* of the calls that edit the account's shadow entry.                      *)
(***************************************************************************)
EXTENDS ShadowEntry

CONSTANTS
  User,        \* the account
  Passwords,   \* hashes of passwords
  Ages,  \* days given to changeMaxPasswordAge
  Warnings, \* days given to changeWarningPeriod
  LastDay      \* bound: the last day of the calendar

ASSUME LastDayAssumption == LastDay \in Nat
ASSUME ChoicesAssumption == Ages \subseteq Int /\ Warnings \subseteq Int

VARIABLES
  today,       \* time(NULL) / 86400
  entry        \* the account's line in /etc/shadow

agingVars == <<today, entry>>

Info == getPasswordExpirationInfo(entry, today)
Expired == passwordExpired(entry, today)

AgingInit ==
  /\ today = 0
  /\ \E hash \in Passwords : entry = NewEntry(User, hash, today)

NextDay ==
  /\ today < LastDay
  /\ today' = today + 1
  /\ UNCHANGED entry

changePassword(hash) ==
  /\ entry' = WithPassword(entry, hash, today)
  /\ UNCHANGED today

changeMaxPasswordAge(days) ==
  /\ entry' = WithMaxAge(entry, days, today)
  /\ UNCHANGED today

changeWarningPeriod(days) ==
  /\ entry' = WithWarning(entry, days)
  /\ UNCHANGED today

(* deleteUser and addNewUser of the same name. *)
replaceUser(hash) ==
  /\ entry' = NewEntry(User, hash, today)
  /\ UNCHANGED today

AgingNext ==
  \/ NextDay
  \/ \E hash \in Passwords : changePassword(hash) \/ replaceUser(hash)
  \/ \E days \in Ages : changeMaxPasswordAge(days)
  \/ \E days \in Warnings : changeWarningPeriod(days)

AgingSpec == AgingInit /\ [][AgingNext]_agingVars

-----------------------------------------------------------------------------
(* An active password with a warning period never expires by surprise: on  *)
(* the day before passwordExpired turns true the user was being warned,    *)
(* and was told that no day is left.                                       *)
WarnedBeforeExpiry ==
  [][(today' # today /\ Info.expActive /\ entry.warn # Off /\ ~Expired /\ Expired')
       => Info.warnUser /\ Info.daysLeft = 0]_agingVars

(* changeMaxPasswordAge with days > 0 on an account whose expiration was   *)
(* off grants the full period from today.                                  *)
TurningOnGrantsPeriod ==
  [][(entry.lstchg = Off /\ entry'.max > 0 /\ entry.max # entry'.max)
       => ~Expired' /\ Info'.expActive /\ LastValidDay(entry') = today + entry'.max]_agingVars

(* A warned user is told the days that remain before passwordExpired turns *)
(* true, and the number falls by one a day.                                *)
DaysLeftCountsDown ==
  [][(today' # today /\ Info.warnUser /\ Info.daysLeft > 0)
       => Info'.warnUser /\ Info'.daysLeft = Info.daysLeft - 1 /\ ~Expired']_agingVars

============================================================================
