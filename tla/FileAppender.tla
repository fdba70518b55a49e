---------------------------- MODULE FileAppender ----------------------------
(***************************************************************************)
(* log4cpp/src/FileAppender.cpp, the appender that writes every event to   *)
(* one file, and the directory it works in.  The file may be rotated from  *)
(* outside, which is what reopen() is for; the process may be killed and   *)
(* started again; open() and write() may fail.                             *)
(*                                                                         *)
(* Events are numbered as they are logged and are one unit long.  The      *)
(* descriptor belongs to a file, not to a name: a file that is renamed     *)
(* takes it along, and one that is removed or overwritten goes on existing *)
(* for the descriptor alone.                                               *)
(***************************************************************************)
EXTENDS Naturals, FiniteSets

CONSTANTS
  FileNames,   \* the names a file of the appender can have
  FileName,    \* _fileName, the one it opens
  Rotated,     \* what an external rotation renames it to
  Unlinked,    \* a file no name is left of
  Closed,      \* a descriptor of -1
  (* Bounds of the model. *)
  MaxEvents,   \* events logged
  MaxCrashes,  \* times the process is killed
  MaxFaults,   \* system calls that fail
  MaxCalls     \* calls of setters, close() and reopen(), external rotations

ASSUME FilesAssumption ==
  /\ FileName \in FileNames /\ Rotated \in FileNames /\ FileName # Rotated
  /\ Unlinked \notin FileNames /\ Closed \notin FileNames /\ Unlinked # Closed
  /\ MaxEvents \in Nat /\ MaxCrashes \in Nat /\ MaxFaults \in Nat /\ MaxCalls \in Nat

VARIABLES
  present,     \* the names that exist
  data,        \* the events in the file of each name
  fd,          \* the file _fd writes to
  append,      \* is O_TRUNC not in _flags?
  running,     \* is the process alive?
  logged,      \* history: events logged so far
  whole,       \* history: has no call failed and has nothing been truncated?
  used         \* history: what the bounds count

fileVars == <<present, data, fd, append, running, logged, whole, used>>

Bounds == [crashes |-> MaxCrashes, faults |-> MaxFaults, calls |-> MaxCalls]

Use(what) ==
  /\ used[what] < Bounds[what]
  /\ used' = [used EXCEPT ![what] = @ + 1]

Kept == UNION {data[n] : n \in FileNames}

FileInit ==
  /\ present = {}
  /\ data = [n \in FileNames |-> {}]
  /\ fd = Closed
  /\ append = TRUE
  /\ running = FALSE
  /\ logged = 0 /\ whole = TRUE
  /\ used = [crashes |-> 0, faults |-> 0, calls |-> 0]

-----------------------------------------------------------------------------
(* The directory. *)

\* rename(from, to).  Renaming a name that does not exist changes nothing.
Moved(names, contents, from, to) ==
  IF from \notin names THEN [present |-> names, data |-> contents]
  ELSE [present |-> (names \ {from}) \cup {to},
        data |-> [contents EXCEPT ![to] = contents[from], ![from] = {}]]

Rename(from, to) ==
  /\ present' = Moved(present, data, from, to).present
  /\ data' = Moved(present, data, from, to).data

\* unlink(n)
Remove(n) ==
  /\ present' = present \ {n}
  /\ data' = [data EXCEPT ![n] = {}]

\* open(_fileName, _flags, _mode), where it succeeds.
Open(app) ==
  /\ present' = present \cup {FileName}
  /\ data' = IF app THEN data ELSE [data EXCEPT ![FileName] = {}]
  /\ fd' = FileName

\* Does it leave every event where it was?
Spares(app) == app \/ data[FileName] = {}

-----------------------------------------------------------------------------
(* The appender. *)

\* FileAppender(), with the flag of the configuration: a failed open() leaves
\* -1 in _fd, and nobody looks.
Construct ==
  /\ ~running /\ running' = TRUE
  /\ append' \in BOOLEAN
  /\ \/ /\ Open(append')
        /\ whole' = (whole /\ Spares(append'))
        /\ UNCHANGED used
     \/ /\ Use("faults")
        /\ fd' = Closed /\ whole' = FALSE
        /\ UNCHANGED <<present, data>>
  /\ UNCHANGED logged

\* Without a descriptor, or to a file no name is left of, the event is lost, as
\* it is when write() fails.
Write ==
  /\ logged' = logged + 1
  /\ \/ /\ data' = IF fd \in FileNames
                     THEN [data EXCEPT ![fd] = @ \cup {logged'}] ELSE data
        /\ UNCHANGED <<whole, used>>
     \/ /\ fd # Closed /\ Use("faults")
        /\ whole' = FALSE
        /\ UNCHANGED data

_append ==
  /\ running /\ logged < MaxEvents
  /\ Write
  /\ UNCHANGED <<present, fd, append, running>>

close ==
  /\ running /\ Use("calls")
  /\ fd' = Closed
  /\ UNCHANGED <<present, data, append, running, logged, whole>>

\* The old descriptor is closed only once there is a new one.
reopen ==
  /\ running /\ Use("calls")
  /\ \/ Open(append) /\ whole' = (whole /\ Spares(append))
     \/ UNCHANGED <<present, data, fd, whole>>
  /\ UNCHANGED <<append, running, logged>>

setAppend ==
  /\ running /\ Use("calls")
  /\ append' = ~append
  /\ UNCHANGED <<present, data, fd, running, logged, whole>>

\* The process is killed, or it ends.
Crash ==
  /\ running /\ running' = FALSE
  /\ Use("crashes")
  /\ fd' = Closed
  /\ UNCHANGED <<present, data, append, logged, whole>>

\* logrotate renames the file under the appender.
Rotate ==
  /\ Use("calls")
  /\ Rename(FileName, Rotated)
  /\ fd' = IF fd = FileName THEN Rotated ELSE fd
  /\ UNCHANGED <<append, running, logged, whole>>

-----------------------------------------------------------------------------

FileNext ==
  Construct \/ _append \/ close \/ reopen \/ setAppend \/ Crash \/ Rotate

FileSpec == FileInit /\ [][FileNext]_fileVars

-----------------------------------------------------------------------------

store == INSTANCE LogStore WITH kept <- Kept, open <- fd \in FileNames

\* Rotated or rolled, killed or not, the files hold every event that was logged
\* while one was open, but for the oldest, until something fails.
ImplementsLogStore == store!Spec
=============================================================================
