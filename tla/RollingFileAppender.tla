------------------------ MODULE RollingFileAppender -------------------------
(***************************************************************************)
(* log4cpp/src/RollingFileAppender.cpp: when the file has reached its size *)
(* it becomes backup 1, backup i becomes backup i+1 and the last backup is *)
(* removed, one system call at a time, each of which may fail and after    *)
(* each of which the process may be killed.  This is the appender of       *)
(* src/conf/log.conf.                                                      *)
(*                                                                         *)
(* The number of a backup is padded to the width of the highest one, so    *)
(* "log.1" and "log.01" are different names.                               *)
(***************************************************************************)
EXTENDS FileAppender

CONSTANTS
  Indexes,      \* values maxBackupIndex is given
  Radix,        \* the base file names are numbered in: 10
  MaxFileSize,  \* maxFileSize of the configuration, in events
  Sizes         \* what setMaximumFileSize() is given

ASSUME RollingAssumption ==
  /\ Indexes \subseteq Nat /\ MaxFileSize \in Nat /\ Sizes \subseteq Nat
  /\ Radix \in Nat /\ Radix > 1

VARIABLES
  configured,   \* what the configuration says
  maxBackupIndex, maxFileSize,
  roll,         \* where rollOver() is, and its loop variable
  cuts          \* history: kills that left the backups half renamed

rollVars == <<configured, maxBackupIndex, maxFileSize, roll, cuts>>

\* The digits of n: log10(n) + 1.
Digits(n) == IF n = 0 THEN 1 ELSE CHOOSE w \in 1 .. n : Radix ^ (w - 1) <= n /\ n < Radix ^ w

\* "<_fileName>.<i>", padded
BackupNames == FileNames \cap (Nat \X (Nat \ {0}))
Backup(i) == <<Digits(maxBackupIndex), i>>

\* Every backup has a name, and it is not the file's.
ASSUME BackupAssumption ==
  /\ \A n \in Indexes \cup {1} : \A i \in 1 .. n : <<Digits(n), i>> \in BackupNames
  /\ FileName \notin BackupNames /\ Rotated \notin BackupNames

AtRest == [at |-> "no", i |-> 0]
Renamed == [at |-> "open", i |-> 0]

\* The constructor keeps one backup at least, the setter does not.
AtLeastOne(n) == IF n > 0 THEN n ELSE 1

RollingInit ==
  /\ FileInit
  /\ configured \in Indexes
  /\ maxBackupIndex = AtLeastOne(configured) /\ maxFileSize = MaxFileSize
  /\ roll = AtRest
  /\ cuts = 0

\* What a setter changed is forgotten.
ConstructRolling ==
  /\ Construct
  /\ maxBackupIndex' = AtLeastOne(configured) /\ maxFileSize' = MaxFileSize
  /\ UNCHANGED <<configured, roll, cuts>>

setMaxBackupIndex ==
  /\ running /\ roll = AtRest /\ Use("calls")
  /\ maxBackupIndex' \in Indexes
  /\ whole' = FALSE
  /\ UNCHANGED <<present, data, fd, append, running, logged,
                 configured, maxFileSize, roll, cuts>>

setMaximumFileSize ==
  /\ running /\ roll = AtRest /\ Use("calls")
  /\ maxFileSize' \in Sizes
  /\ whole' = FALSE
  /\ UNCHANGED <<present, data, fd, append, running, logged>>
  /\ UNCHANGED <<configured, maxBackupIndex, roll, cuts>>

\* _append(): write, look at the size, and close the file if it is to be rolled.
AppendRolling ==
  /\ running /\ logged < MaxEvents /\ roll = AtRest
  /\ Write
  /\ LET full == fd \in FileNames /\ Cardinality(data'[fd]) >= maxFileSize IN
       /\ fd' = IF full THEN Closed ELSE fd
       /\ roll' = IF ~full THEN roll
                  ELSE IF maxBackupIndex = 0 THEN Renamed
                  ELSE [at |-> "remove", i |-> maxBackupIndex]
  /\ UNCHANGED <<present, append, running,
                 configured, maxBackupIndex, maxFileSize, cuts>>

\* Wrong on purpose: the one before the last is removed instead of the last.
RemoveLastButOne ==
  /\ roll.at = "remove"
  /\ roll' = [roll EXCEPT !.at = "rename"]
  /\ Remove(IF maxBackupIndex > 1 THEN Backup(maxBackupIndex - 1) ELSE Backup(1))
  /\ UNCHANGED <<fd, append, running, logged, whole, used,
                 configured, maxBackupIndex, maxFileSize, cuts>>

RemoveLast ==
  /\ roll.at = "remove"
  /\ roll' = [roll EXCEPT !.at = "rename"]
  /\ \/ Remove(Backup(maxBackupIndex)) /\ UNCHANGED used
     \/ Use("faults") /\ UNCHANGED <<present, data>>
  /\ UNCHANGED <<fd, append, running, logged, whole,
                 configured, maxBackupIndex, maxFileSize, cuts>>

\* Wrong on purpose: the loop counts up.
RenameUpwards ==
  /\ roll.at = "rename"
  /\ LET from == maxBackupIndex - roll.i
         next == IF from = 0 THEN FileName ELSE Backup(from) IN
       Rename(next, Backup(from + 1))
  /\ roll' = IF roll.i > 1 THEN [roll EXCEPT !.i = @ - 1] ELSE Renamed
  /\ UNCHANGED <<fd, append, running, logged, whole, used,
                 configured, maxBackupIndex, maxFileSize, cuts>>

\* Wrong on purpose: the file takes the first number that is free.
RenameToFree ==
  /\ roll.at = "rename"
  /\ roll' = Renamed
  /\ \E i \in 1 .. maxBackupIndex :
       /\ Backup(i) \notin present /\ \A j \in 1 .. i - 1 : Backup(j) \in present
       /\ Rename(FileName, Backup(i))
  /\ UNCHANGED <<fd, append, running, logged, whole, used,
                 configured, maxBackupIndex, maxFileSize, cuts>>

RenameNext ==
  /\ roll.at = "rename"
  /\ roll' = IF roll.i > 1 THEN [roll EXCEPT !.i = @ - 1] ELSE Renamed
  /\ \/ /\ Rename(IF roll.i > 1 THEN Backup(roll.i - 1) ELSE FileName, Backup(roll.i))
        /\ UNCHANGED <<whole, used>>
     \/ /\ Use("faults") /\ whole' = FALSE
        /\ UNCHANGED <<present, data>>
  /\ UNCHANGED <<fd, append, running, logged,
                 configured, maxBackupIndex, maxFileSize, cuts>>

\* A failed open() leaves -1 in _fd: no event is written any more, and no size
\* is looked at.
OpenNext ==
  /\ roll.at = "open"
  /\ roll' = AtRest
  /\ \/ /\ Open(append)
        /\ whole' = (whole /\ Spares(append))
        /\ UNCHANGED used
     \/ /\ Use("faults")
        /\ fd' = Closed /\ whole' = FALSE
        /\ UNCHANGED <<present, data>>
  /\ UNCHANGED <<append, running, logged,
                 configured, maxBackupIndex, maxFileSize, cuts>>

\* The process is killed, maybe between two renames.
CrashRolling ==
  /\ Crash
  /\ roll' = AtRest
  /\ cuts' = IF roll.at = "rename" /\ roll.i < maxBackupIndex THEN cuts + 1 ELSE cuts
  /\ UNCHANGED <<configured, maxBackupIndex, maxFileSize>>

CallRolling ==
  /\ roll = AtRest
  /\ close \/ reopen \/ setAppend
  /\ UNCHANGED rollVars

RollingNext ==
  \/ ConstructRolling \/ setMaxBackupIndex \/ setMaximumFileSize
  \/ AppendRolling \/ RemoveLast \/ RenameNext \/ OpenNext
  \/ CrashRolling \/ CallRolling

RollingSpec == RollingInit /\ [][RollingNext]_<<fileVars, rollVars>>

-----------------------------------------------------------------------------

\* The files of an appender are in order: what is in a backup was logged before
\* everything in a backup with a lower number and before everything in the file
\* itself, whatever failed and wherever the process was killed.
BackupsInOrder ==
  \A n, m \in BackupNames :
    /\ \A x \in data[n], y \in data[FileName] : x < y
    /\ n[1] = m[1] /\ n[2] > m[2] => \A x \in data[n], y \in data[m] : x < y

\* As long as nothing failed and no setting was changed, rollOver() gives up an
\* event only when maxBackupIndex full files of later ones are kept; each kill in the
\* middle of rollOver() may cost one of them.
KeepsRecent ==
  [][roll # AtRest /\ whole' /\ ~(Kept \subseteq Kept') =>
       Cardinality(Kept') >= (maxBackupIndex - cuts) * MaxFileSize]_<<fileVars, rollVars>>
=============================================================================
