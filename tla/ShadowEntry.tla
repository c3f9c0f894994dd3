---------------------------- MODULE ShadowEntry ----------------------------
(***************************************************************************)
(* One line of /etc/shadow as smart/passwd.cpp edits and interprets it.    *)
(* Days are counted as the code counts them, from the epoch; Off is the    *)
(* -1 that putspent writes, and fgetspent reads, as an empty field.        *)
(***************************************************************************)
EXTENDS Integers

Off == -1

(* The entry addNewUser appends. *)
NewEntry(user, hash, today) ==
  [name |-> user, hash |-> hash, lstchg |-> today, max |-> Off, warn |-> Off]

(* What changePassword does to the user's entry. *)
WithPassword(entry, hash, today) ==
  [entry EXCEPT !.hash = hash, !.lstchg = today]

(* Faulty: turning the expiration on keeps the old date of last change. *)
WithMaxAgeUndated(entry, days, today) ==
  IF days < 0
  THEN [entry EXCEPT !.max = Off, !.lstchg = Off]
  ELSE [entry EXCEPT !.max = days]

(* What changeMaxPasswordAge does: days < 0 turns the expiration off, and  *)
(* days > 0 starts it today when it was off.                               *)
WithMaxAge(entry, days, today) ==
  IF days < 0
  THEN [entry EXCEPT !.max = Off, !.lstchg = Off]
  ELSE [entry EXCEPT !.max = days,
                     !.lstchg = IF entry.lstchg < 0 /\ days > 0 THEN today ELSE @]

(* What changeWarningPeriod does. *)
WithWarning(entry, days) ==
  [entry EXCEPT !.warn = IF days > 0 THEN days ELSE Off]

LastValidDay(entry) == entry.lstchg + entry.max

(* Faulty: the last valid day counts as expired. *)
passwordExpiredEarly(entry, today) ==
  entry.lstchg # Off /\ today >= LastValidDay(entry)

passwordExpired(entry, today) ==
  entry.lstchg # Off /\ today > LastValidDay(entry)

(* Faulty: the warning starts a day late. *)
WarnUserLate(entry, today) ==
  entry.warn # Off /\ today > LastValidDay(entry) - entry.warn + 1

WarnUser(entry, today) ==
  entry.warn # Off /\ today >= LastValidDay(entry) - entry.warn

getPasswordExpirationInfo(entry, today) ==
  LET left == LastValidDay(entry) - today
      active == entry.max # Off /\ entry.lstchg # Off
      warn == active /\ WarnUser(entry, today)
  IN  [expActive |-> active,
       warnUser  |-> warn,
       daysLeft  |-> IF ~warn THEN -1 ELSE IF left > 0 THEN left ELSE 0]

============================================================================
