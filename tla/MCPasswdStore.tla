--------------------------- MODULE MCPasswdStore ---------------------------
(***************************************************************************)
(* Instances of PasswdStore for TLC: a machine with root, nobody, one      *)
(* member of "users" and room for another account.                         *)
(***************************************************************************)
EXTENDS PasswdStore

CONSTANTS p1, p2, h1, h2

MCUsers == {"root", "nobody", "alice", "bob"}
MCGroups == {"users"}
MCUsersGroup == "users"
MCHashes == {h1, h2}
MCAgeChoices == {Off, 30}
MCWarnChoices == {7}

ShadowLine(user) == [name |-> user, hash |-> h1, lstchg |-> 0, max |-> 30, warn |-> Off]

MCInitial ==
  [passwd |-> <<[name |-> "root",   uid |-> 0,     gid |-> "other"],
                [name |-> "nobody", uid |-> 65534, gid |-> "other"],
                [name |-> "alice",  uid |-> 1000,  gid |-> "users"]>>,
   shadow |-> <<ShadowLine("root"), ShadowLine("nobody"), ShadowLine("alice")>>]

Edits ==
  [kind : {"changePassword"}, user : {"root"}, arg : MCHashes]
  \cup [kind : {"changeMaxPasswordAge"}, user : {"alice"}, arg : {Off}]
  \cup [kind : {"changeWarningPeriod"}, user : {"alice"}, arg : MCWarnChoices]

Deletes(users) == [kind : {"deleteUser"}, user : users]

Lookups(users) == [kind : {"getUserByName"}, user : users]

(* One administrator.  Without faults: every call, and calls that must     *)
(* fail, for bob is missing at first, and root is not in "users".  With    *)
(* faults: edits of existing accounts.                                     *)
OneAdministrator ==
  [faults \in BOOLEAN |-> [p \in Processes |->
     IF faults THEN Edits
     ELSE [kind : {"changeMaxPasswordAge"}, user : {"alice"}, arg : {Off}]
          \cup [kind : {"changePassword"}, user : {"bob"}, arg : {h1}]
          \cup [kind : {"changeWarningPeriod"}, user : {"bob"}, arg : MCWarnChoices]
          \cup [kind : {"addNewUser"}, user : {"bob"}, arg : {h2}, gid : {"users"}]
          \cup Deletes({"root", "bob"}) \cup Lookups({"bob"})]]

(* An administrator and a process that looks accounts up. *)
WriterAndReader ==
  [faults \in BOOLEAN |-> [p \in Processes |->
     IF p = p1 THEN [kind : {"changePassword"}, user : {"alice"}, arg : {h2}]
     ELSE Lookups({"root"})]]
============================================================================
