---------------------------- MODULE PasswdStore ----------------------------
(***************************************************************************)
(* smart/passwd.cpp: the calls that change /etc/passwd and /etc/shadow, as *)
(* sequences of the file operations they make, by any number of processes  *)
(* that may die at any point.                                              *)
(*                                                                         *)
(* A file system maps names to inodes and inodes to the lines they hold.   *)
(* Of what a call writes, stdio puts a beginning of any length into the    *)
(* file while the call is writing, and the rest when the stream is closed, *)
(* which the File wrappers do when the call returns or throws: after the   *)
(* renames.                                                                *)
(*                                                                         *)
(* Abstracted: the old file is read at once; a line that is cut counts as  *)
(* missing; the one line that is appended to a file stays in the buffer;   *)
(* what was written is never lost by the system, only by the death of the  *)
(* writer.                                                                 *)
(***************************************************************************)
EXTENDS ShadowEntry, Sequences, FiniteSets, FiniteSetsExt, Functions

CONSTANTS
  Processes,
  Users, Hashes, Groups, UsersGroup, AgeChoices, WarnChoices,
  Today,
  Initial,        \* the accounts to start with, as lines of both files
  Calls,          \* on a system with and without faults, the calls each process makes
  Faults,         \* which of the two are looked at
  MaxUid,         \* bound: no uid above it is given
  None

ASSUME FaultsAssumption == Faults \subseteq BOOLEAN

Files == {"passwd", "shadow"}

(* /etc/shadow, /etc/shadow- and /etc/shadow.new, and the same of passwd. *)
Names == Files \X {"live", "backup", "new"}

Inodes == 1 .. Cardinality(Names) + 2 * Cardinality(Processes)

(* The lines of the two files, and what is called with what. *)
Gids == Groups \cup {Initial.passwd[i].gid : i \in DOMAIN Initial.passwd}

PasswdLines == [name : Users, uid : Nat, gid : Gids]

ShadowLines == [name : Users, hash : Hashes, lstchg : Int, max : Int, warn : Int]

ASSUME NoneAssumption ==
  /\ None \notin Inodes
  /\ None \notin [uid : Nat, gid : Gids, shadow : ShadowLines]
  /\ \A f \in Faults, p \in Processes : None \notin Calls[f][p]

ASSUME InitialAssumption ==
  /\ Initial.passwd \in Seq(PasswdLines) /\ Initial.shadow \in Seq(ShadowLines)
  /\ Today \in Nat /\ MaxUid \in Nat /\ AgeChoices \subseteq Int /\ WarnChoices \subseteq Int

ASSUME CallsAssumption ==
  \A f \in Faults, p \in Processes : \A c \in Calls[f][p] :
    /\ c.user \in Users
    /\ c.kind \in {"getUserByName", "addNewUser", "deleteUser",
                   "changePassword", "changeMaxPasswordAge", "changeWarningPeriod"}
    /\ c.kind \in {"changePassword", "addNewUser"} => c.arg \in Hashes
    /\ c.kind = "addNewUser" => c.gid \in Groups
    /\ c.kind = "changeMaxPasswordAge" => c.arg \in AgeChoices
    /\ c.kind = "changeWarningPeriod" => c.arg \in WarnChoices

VARIABLES
  dir,       \* name -> inode or None
  disk,      \* inode -> lines
  at,        \* process -> its next operation
  doing,     \* process -> the call it is executing
  file,      \* process -> the file being rewritten
  old,       \* process -> inode of the stream being read, or None
  out,       \* process -> file -> [inode, mode, lines]: the stream and all that was put into it
  result,    \* process -> outcome of its last call
  before,    \* history: contents of both files when the last call began
  faulty     \* may a process die in the middle of a call, or /dev/urandom be missing?

files == <<dir, disk>>
control == <<at, doing, file, old, out, result>>
storeVars == <<dir, disk, at, doing, file, old, out, result, before, faulty>>

-----------------------------------------------------------------------------
(* File system. *)

Lines(f) == IF dir[<<f, "live">>] = None THEN <<>> ELSE disk[dir[<<f, "live">>]]

NamesIn(lines) == {lines[i].name : i \in DOMAIN lines}

(* getpwnam_r and getspnam_r: the first line of that name. *)
Lookup(lines, user) ==
  lines[Min({i \in DOMAIN lines : lines[i].name = user})]

InUse ==
  (Range(dir) \cup Range(old) \cup {out[p][f].inode : p \in Processes, f \in Files}) \ {None}

FreshInode == Min(Inodes \ InUse)

Closed == [inode |-> None, mode |-> "closed", lines |-> <<>>]

(* Inodes without a name and without a stream are gone. *)
SetDisk(d) ==
  LET used == InUse' IN disk' = [i \in Inodes |-> IF i \in used THEN d[i] ELSE <<>>]

(* Closing a stream opened with "w" writes its lines from the start of the *)
(* inode, closing one opened with "a" writes them at its end.              *)
Flushed(d, stream) ==
  CASE stream.mode = "w" ->
         [d EXCEPT ![stream.inode] =
            stream.lines \o SubSeq(@, Len(stream.lines) + 1, Len(@))]
    [] stream.mode = "a" -> [d EXCEPT ![stream.inode] = @ \o stream.lines]
    [] OTHER -> d

Goto(p, next) == at' = [at EXCEPT ![p] = next]

NoContent == [passwd |-> <<>>, shadow |-> <<>>]

(* The call is over. *)
End(p, outcome) ==
  /\ Goto(p, "idle")
  /\ doing' = [doing EXCEPT ![p] = None]
  /\ file' = [file EXCEPT ![p] = "shadow"]
  /\ old' = [old EXCEPT ![p] = None]
  /\ out' = [out EXCEPT ![p] = [f \in Files |-> Closed]]
  /\ result' = [result EXCEPT ![p] = outcome]
  /\ before' = NoContent
  /\ UNCHANGED dir

(* The call returns or throws: its streams get closed. *)
Return(p, outcome) ==
  /\ Goto(p, "unwind")
  /\ result' = [result EXCEPT ![p] = outcome]
  /\ UNCHANGED <<files, doing, file, old, out, before>>

Throw(p) == Return(p, "failed")

OpenStreams(p) == {f \in Files : out[p][f].mode # "closed"}

(* Faulty: the streams are abandoned, not closed. *)
UnwindUnflushed(p) ==
  /\ at[p] = "unwind"
  /\ End(p, result[p])
  /\ SetDisk(disk)

(* The destructors of the File wrappers close the streams one by one, the  *)
(* one of shadow first.                                                    *)
Unwind(p) ==
  /\ at[p] = "unwind"
  /\ LET f == IF "shadow" \in OpenStreams(p) THEN "shadow" ELSE "passwd"
     IN  /\ IF OpenStreams(p) \subseteq {f}
            THEN End(p, result[p])
            ELSE /\ out' = [out EXCEPT ![p][f] = Closed]
                 /\ UNCHANGED <<dir, at, doing, file, old, result, before>>
         /\ SetDisk(Flushed(disk, out[p][f]))

-----------------------------------------------------------------------------
StoreInit ==
  /\ dir = [n \in Names |-> CASE n = <<"passwd", "live">> -> 1
                              [] n = <<"shadow", "live">> -> 2
                              [] OTHER -> None]
  /\ disk = [i \in Inodes |-> CASE i = 1 -> Initial.passwd
                                [] i = 2 -> Initial.shadow
                                [] OTHER -> <<>>]
  /\ at = [p \in Processes |-> "idle"]
  /\ doing = [p \in Processes |-> None]
  /\ file = [p \in Processes |-> "shadow"]
  /\ old = [p \in Processes |-> None]
  /\ out = [p \in Processes |-> [f \in Files |-> Closed]]
  /\ result = [p \in Processes |-> "none"]
  /\ before = NoContent
  /\ faulty \in Faults

(* One more than the highest uid, which nobody's does not count as. *)
NextUid(lines) ==
  1 + Max({999} \cup {lines[i].uid : i \in {k \in DOMAIN lines : lines[k].name # "nobody"}})

Begin(p, c) ==
  /\ at[p] = "idle"
  /\ c.kind = "addNewUser" => NextUid(Lines("passwd")) <= MaxUid
  /\ Goto(p, "check_passwd")
  /\ doing' = [doing EXCEPT ![p] = c]
  /\ file' = [file EXCEPT ![p] = IF c.kind = "deleteUser" THEN "passwd" ELSE "shadow"]
  /\ result' = [result EXCEPT ![p] = "none"]
  /\ before' = [passwd |-> Lines("passwd"), shadow |-> Lines("shadow")]
  /\ UNCHANGED <<dir, disk, old, out>>

(* getUserByName looks in /etc/passwd, then in /etc/shadow, and throws     *)
(* when a file is not there.  addNewUser goes on when the user is missing  *)
(* in one of them, the other calls when the user is in both.               *)
UserMissing(p) ==
  IF doing[p].kind = "addNewUser"
  THEN Goto(p, "append_passwd") /\ UNCHANGED <<dir, doing, file, old, out, result, before>>
  ELSE End(p, IF doing[p].kind = "getUserByName" THEN "missing" ELSE "failed")

UserPresent(p) ==
  CASE doing[p].kind = "addNewUser"    -> End(p, "failed")
    [] doing[p].kind = "getUserByName" -> End(p, "ok")
    [] OTHER ->
         /\ Goto(p, IF doing[p].kind = "deleteUser" THEN "check_group" ELSE "open_old")
         /\ UNCHANGED <<dir, doing, file, old, out, result, before>>

CheckPasswd(p) ==
  /\ at[p] = "check_passwd"
  /\ IF dir[<<"passwd", "live">>] = None THEN End(p, "failed")
     ELSE IF doing[p].user \in NamesIn(Lines("passwd"))
     THEN Goto(p, "check_shadow") /\ UNCHANGED <<dir, doing, file, old, out, result, before>>
     ELSE UserMissing(p)
  /\ UNCHANGED disk

CheckShadow(p) ==
  /\ at[p] = "check_shadow"
  /\ IF dir[<<"shadow", "live">>] = None THEN End(p, "failed")
     ELSE IF doing[p].user \in NamesIn(Lines("shadow")) THEN UserPresent(p)
     ELSE UserMissing(p)
  /\ UNCHANGED disk

(* A process that dies takes the buffers of its streams with it. *)
Dead(p) == End(p, "died") /\ SetDisk(disk)

Die(p) ==
  /\ faulty
  /\ at[p] # "idle"
  /\ Dead(p)

(* checkIfInUsers: the group of the user; without the user, a null pointer. *)
CheckGroup(p) ==
  /\ at[p] = "check_group"
  /\ IF doing[p].user \notin NamesIn(Lines("passwd")) THEN Dead(p)
     ELSE IF Lookup(Lines("passwd"), doing[p].user).gid # UsersGroup THEN Throw(p)
     ELSE /\ Goto(p, "open_old")
          /\ UNCHANGED <<files, doing, file, old, out, result, before>>

-----------------------------------------------------------------------------
(* The rewrite of one file: changePassword, changeMaxPasswordAge and       *)
(* changeWarningPeriod do it for shadow, deleteUser for passwd and shadow. *)

(* fopen of the old file.  deleteUser does not check that it succeeded,    *)
(* and opens the new one before it reads from a null pointer.              *)
OpenOld(p) ==
  /\ at[p] = "open_old"
  /\ IF dir[<<file[p], "live">>] # None \/ doing[p].kind = "deleteUser"
     THEN /\ old' = [old EXCEPT ![p] = dir[<<file[p], "live">>]]
          /\ Goto(p, "open_new")
          /\ UNCHANGED <<files, doing, file, out, result, before>>
     ELSE Throw(p)

(* fopen(..., "w") truncates a file that is there already. *)
OpenNew(p) ==
  /\ at[p] = "open_new"
  /\ LET name == <<file[p], "new">>
         inode == IF dir[name] = None THEN FreshInode ELSE dir[name]
     IN  /\ dir' = [dir EXCEPT ![name] = inode]
         /\ out' = [out EXCEPT ![p][file[p]] = [inode |-> inode, mode |-> "w", lines |-> <<>>]]
         /\ Goto(p, "copy")
         /\ UNCHANGED <<doing, file, old, result, before>>
         /\ SetDisk([disk EXCEPT ![inode] = <<>>])

EditLine(c, line) ==
  CASE c.kind = "changePassword"       -> WithPassword(line, c.arg, Today)
    [] c.kind = "changeMaxPasswordAge" -> WithMaxAge(line, c.arg, Today)
    [] c.kind = "changeWarningPeriod"  -> WithWarning(line, c.arg)

(* The lines that are kept, one after the other: for every i, of the first *)
(* i lines.                                                                *)
Remaining(lines, user) ==
  LET kept[i \in 0 .. Len(lines)] ==
        IF i = 0 THEN <<>>
        ELSE IF lines[i].name = user THEN kept[i - 1]
        ELSE Append(kept[i - 1], lines[i])
  IN  kept

Without(lines, user) == Remaining(lines, user)[Len(lines)]

(* Faulty: the edit is applied to every line. *)
EditedEverywhere(c, lines) ==
  IF c.kind = "deleteUser"
  THEN Without(lines, c.user)
  ELSE [i \in DOMAIN lines |-> EditLine(c, lines[i])]

Edited(c, lines) ==
  IF c.kind = "deleteUser"
  THEN Without(lines, c.user)
  ELSE [i \in DOMAIN lines |-> IF lines[i].name = c.user THEN EditLine(c, lines[i]) ELSE lines[i]]

(* The lines of the old file, edited, go to the stream of the new one,     *)
(* which writes the first of them whenever its buffer is full.             *)
CopyLines(p, lines) ==
  /\ out' = [out EXCEPT ![p][file[p]].lines = lines]
  /\ Goto(p, "backup")
  /\ UNCHANGED <<dir, doing, file, old, result, before>>
  /\ \E written \in 0 .. Len(lines) :
       SetDisk([disk EXCEPT ![out[p][file[p]].inode] = SubSeq(lines, 1, written)])

Copy(p) ==
  /\ at[p] = "copy"
  /\ IF old[p] = None THEN Dead(p) ELSE CopyLines(p, Edited(doing[p], disk[old[p]]))

Rename(from, to) == dir' = [dir EXCEPT ![to] = dir[from], ![from] = None]

(* Faulty: the new file replaces the old one, which is not kept. *)
RenameToBackupSkipped(p) ==
  /\ at[p] = "backup"
  /\ Goto(p, "install")
  /\ UNCHANGED <<files, doing, file, old, out, result, before>>

(* renameFile("/etc/shadow", "/etc/shadow-") *)
RenameToBackup(p) ==
  /\ at[p] = "backup"
  /\ IF dir[<<file[p], "live">>] = None THEN Throw(p)
     ELSE /\ Rename(<<file[p], "live">>, <<file[p], "backup">>)
          /\ Goto(p, "install")
          /\ UNCHANGED <<doing, file, old, out, result, before>>
          /\ SetDisk(disk)

(* renameFile("/etc/shadow.new", "/etc/shadow"); deleteUser goes on with   *)
(* the shadow file.                                                        *)
RenameToLive(p) ==
  /\ at[p] = "install"
  /\ IF dir[<<file[p], "new">>] = None THEN Throw(p)
     ELSE /\ Rename(<<file[p], "new">>, <<file[p], "live">>)
          /\ IF file[p] = "passwd"
             THEN Goto(p, "open_old") /\ file' = [file EXCEPT ![p] = "shadow"]
             ELSE Goto(p, "close") /\ UNCHANGED file
          /\ UNCHANGED <<doing, old, out, result, before>>
          /\ SetDisk(disk)

Close(p) ==
  /\ at[p] = "close"
  /\ Return(p, "ok")

-----------------------------------------------------------------------------
(* addNewUser: a line at the end of each file. *)

(* fopen(..., "a") creates a file that is missing. *)
Append1(p, f, line, next) ==
  LET name == <<f, "live">>
      inode == IF dir[name] = None THEN FreshInode ELSE dir[name]
  IN  /\ dir' = [dir EXCEPT ![name] = inode]
      /\ out' = [out EXCEPT ![p][f] = [inode |-> inode, mode |-> "a", lines |-> <<line>>]]
      /\ Goto(p, next)
      /\ UNCHANGED <<doing, file, old, result, before>>
      /\ SetDisk(disk)

AppendPasswd(p) ==
  /\ at[p] = "append_passwd"
  /\ Append1(p, "passwd",
             [name |-> doing[p].user, uid |-> NextUid(Lines("passwd")), gid |-> doing[p].gid],
             "append_shadow")

AppendShadow(p) ==
  /\ at[p] = "append_shadow"
  /\ Append1(p, "shadow", NewEntry(doing[p].user, doing[p].arg, Today), "close")

(* generateNewSalt throws when /dev/urandom cannot be opened: changePassword *)
(* has done nothing yet, addNewUser has written the line of /etc/passwd.     *)
SaltFails(p) ==
  /\ faulty
  /\ \/ at[p] = "append_shadow"
     \/ at[p] = "open_old" /\ doing[p].kind = "changePassword"
  /\ Throw(p)

-----------------------------------------------------------------------------
(* The process's next operation in its call. *)
Operation(p) ==
  \/ CheckPasswd(p) \/ CheckShadow(p) \/ CheckGroup(p)
  \/ OpenOld(p) \/ OpenNew(p) \/ Copy(p) \/ RenameToBackup(p) \/ RenameToLive(p)
  \/ AppendPasswd(p) \/ AppendShadow(p) \/ SaltFails(p)
  \/ Close(p) \/ Unwind(p)

StoreNext ==
  /\ \E p \in Processes :
       \/ \E c \in Calls[faulty][p] : Begin(p, c)
       \/ Operation(p)
       \/ Die(p)
  /\ UNCHANGED faulty

StoreSpec == StoreInit /\ [][StoreNext]_storeVars

-----------------------------------------------------------------------------
Quiet == \A p \in Processes : at[p] = "idle"

AccountsIn(content) ==
  [u \in Users |->
     IF u \in NamesIn(content.passwd) /\ u \in NamesIn(content.shadow)
     THEN LET line == Lookup(content.passwd, u)
          IN  [uid |-> line.uid, gid |-> line.gid, shadow |-> Lookup(content.shadow, u)]
     ELSE None]

Content == [passwd |-> Lines("passwd"), shadow |-> Lines("shadow")]

Paired(content) ==
  /\ NamesIn(content.passwd) = NamesIn(content.shadow)
  /\ \A f \in Files : \A i, j \in DOMAIN content[f] :
       content[f][i].name = content[f][j].name => i = j
  /\ \A i, j \in DOMAIN content.passwd :
       content.passwd[i].uid = content.passwd[j].uid => i = j

(* Without a fault, between calls every account has one line in each      *)
(* file, and accounts do not share a uid.                                  *)
PairedWhenQuiet == (Quiet /\ ~faulty) => Paired(Content)

(* Every call answers as one step on a set of accounts would: a call that  *)
(* returns has made its one change to one account, a call that throws was  *)
(* one that cannot be done and has changed nothing, and a lookup says      *)
(* whether the account is there.  (Of one process, on a system without     *)
(* faults; the accounts change when the call ends.)                        *)
Caller == CHOOSE p \in Processes : TRUE

Accounts == AccountsIn(IF faulty THEN Initial ELSE IF Quiet THEN Content ELSE before)

Request == IF faulty THEN None ELSE doing[Caller]

Reply == IF faulty \/ ~Quiet THEN "none" ELSE result[Caller]

Store == INSTANCE AccountStore
           WITH accounts <- Accounts, request <- Request, outcome <- Reply,
                Requests <- Calls[FALSE][Caller],
                InitialAccounts <- AccountsIn(Initial)

ImplementsStore == Store!Spec

(* What /etc/shadow held when an edit began is not lost by it: at every    *)
(* step, the one in which its process dies included, it is what /etc/shadow *)
(* holds or what the backup does.                                          *)
Held(side) ==
  IF dir[<<"shadow", side>>] = None THEN <<>> ELSE disk[dir[<<"shadow", side>>]]

KeepsOldContent ==
  \A p \in Processes :
    faulty /\ at[p] # "idle" => \E side \in {"live", "backup"} : Held(side)' = before.shadow

OldContentKept == [][KeepsOldContent]_storeVars

(* getUserByName does not miss an account that exists all the time.        *)
ReaderFindsUser == \A p \in Processes : result[p] # "missing"

============================================================================
