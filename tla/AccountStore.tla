---------------------------- MODULE AccountStore ---------------------------
(***************************************************************************)
(* What the calls of smart/passwd.h promise a caller: a set of accounts on *)
(* which a call is asked for in one step and answered in another.  A call  *)
(* that can be done returns with its change made; one that cannot throws   *)
(* and changes nothing.                                                    *)
(***************************************************************************)
EXTENDS ShadowEntry

CONSTANTS
  Users,
  UsersGroup,      \* the group "users", the only one deleteUser works on
  Today,           \* the day the calls are made
  MaxUid,          \* bound: no uid above it is given
  Requests,        \* the calls that may be made
  InitialAccounts, \* the accounts to start with
  None

VARIABLES
  accounts,  \* for every user, None or [uid, gid, shadow]
  request,   \* the call that is being executed, or None
  outcome    \* what came of the last one, "none" while a call is executed

HeldBy(user) == accounts[user] # None

Init ==
  /\ accounts = InitialAccounts
  /\ request = None
  /\ outcome = "none"

Ask(c) ==
  /\ request = None
  /\ request' = c
  /\ outcome' = "none"
  /\ UNCHANGED accounts

Answer(result) ==
  /\ request' = None
  /\ outcome' = result

-----------------------------------------------------------------------------
(* An edit of one shadow entry. *)
Edit(entry) ==
  /\ HeldBy(request.user)
  /\ accounts' = [accounts EXCEPT ![request.user].shadow = entry]

Entry == accounts[request.user].shadow

changePassword == Edit(WithPassword(Entry, request.arg, Today))

changeMaxPasswordAge == Edit(WithMaxAge(Entry, request.arg, Today))

changeWarningPeriod == Edit(WithWarning(Entry, request.arg))

(* The new uid is one no account has. *)
addNewUser ==
  /\ ~HeldBy(request.user)
  /\ \E uid \in 1000 .. MaxUid :
       /\ \A other \in Users : HeldBy(other) => accounts[other].uid # uid
       /\ accounts' = [accounts EXCEPT ![request.user] =
            [uid |-> uid, gid |-> request.gid,
             shadow |-> NewEntry(request.user, request.arg, Today)]]

deleteUser ==
  /\ HeldBy(request.user)
  /\ accounts[request.user].gid = UsersGroup
  /\ accounts' = [accounts EXCEPT ![request.user] = None]

(* The call is done. *)
Do ==
  /\ Answer("ok")
  /\ \/ request.kind = "changePassword" /\ changePassword
     \/ request.kind = "changeMaxPasswordAge" /\ changeMaxPasswordAge
     \/ request.kind = "changeWarningPeriod" /\ changeWarningPeriod
     \/ request.kind = "addNewUser" /\ addNewUser
     \/ request.kind = "deleteUser" /\ deleteUser
     \/ request.kind = "getUserByName" /\ HeldBy(request.user) /\ UNCHANGED accounts

(* What a call is refused for. *)
Impossible ==
  CASE request.kind = "addNewUser" -> HeldBy(request.user)
    [] request.kind = "deleteUser" ->
         ~HeldBy(request.user) \/ accounts[request.user].gid # UsersGroup
    [] OTHER -> ~HeldBy(request.user)

(* The call throws; a lookup says that there is no such account. *)
Refuse ==
  /\ Impossible
  /\ Answer(IF request.kind = "getUserByName" THEN "missing" ELSE "failed")
  /\ UNCHANGED accounts

Next ==
  \/ \E c \in Requests : Ask(c)
  \/ request # None /\ (Do \/ Refuse)

Spec == Init /\ [][Next]_<<accounts, request, outcome>>

============================================================================
