---------------------- MODULE DailyRollingFileAppender ----------------------
(***************************************************************************)
(* log4cpp/src/DailyRollingFileAppender.cpp: the first event of a new day  *)
(* makes the file "log.<day of the file>", opens a new one and deletes the *)
(* files that were not written to for maxDaysToKeep days.  What day the    *)
(* file is of is remembered, and after a restart taken from the time of    *)
(* its last modification.  Time passes between any two system calls, the   *)
(* process may be killed there, and each call may fail.                    *)
(***************************************************************************)
EXTENDS FileAppender, Sequences

CONSTANTS
  DaysToKeep,   \* values maxDaysToKeep is given
  DayLength,    \* seconds in a day
  Wrap,         \* the values of an unsigned int
  (* Bounds of the model. *)
  MaxTime

ASSUME DailyAssumption ==
  /\ DaysToKeep \subseteq Nat
  /\ DayLength \in Nat \ {0} /\ Wrap \in Nat \ {0} /\ MaxTime \in Nat

VARIABLES
  now,             \* the clock, which is never set back
  mtime,           \* when the file of each name was last written to
  maxDaysToKeep,
  logsTime,        \* _logsTime: the day the file is of
  daily,           \* where _append() is, the day it read, the limit of rollOver(),
                   \* the names it has still to look at
  stamps           \* history: when each event was written, and the day it is of

dailyVars == <<now, mtime, maxDaysToKeep, logsTime, daily, stamps>>

Day(t) == t \div DayLength
Dated(d) == <<d>>
DatedNames == FileNames \cap [1 .. 1 -> Nat]

\* There is a name for every day, and it is not the file's.
ASSUME DatedAssumption ==
  /\ \A d \in 0 .. Day(MaxTime) : Dated(d) \in DatedNames
  /\ FileName \notin DatedNames

Idle == [at |-> "no", day |-> 0, oldest |-> 0, left |-> {}]

DailyInit ==
  /\ FileInit
  /\ now = 0
  /\ mtime = [n \in FileNames |-> 0]
  /\ maxDaysToKeep \in DaysToKeep \ {0}
  /\ logsTime = 0
  /\ daily = Idle
  /\ stamps = <<>>

Tick ==
  /\ now < MaxTime /\ now' = now + 1
  /\ UNCHANGED <<fileVars, mtime, maxDaysToKeep, logsTime, daily, stamps>>

\* open() touches a file it creates or truncates.
Touched(app) ==
  IF FileName \in present /\ app THEN mtime ELSE [mtime EXCEPT ![FileName] = now]

\* The file is opened first, so that stat() finds it unless open() failed.
ConstructDaily ==
  /\ Construct
  /\ mtime' = IF fd' = FileName THEN Touched(append') ELSE mtime
  /\ logsTime' = Day(IF FileName \in present' THEN mtime'[FileName] ELSE now)
  /\ UNCHANGED <<now, maxDaysToKeep, daily, stamps>>

setMaxDaysToKeep ==
  /\ running /\ daily = Idle /\ Use("calls")
  /\ maxDaysToKeep' \in DaysToKeep
  /\ UNCHANGED <<present, data, fd, append, running, logged, whole>>
  /\ UNCHANGED <<now, mtime, logsTime, daily, stamps>>

\* _append() reads the clock.
CheckDay ==
  /\ running /\ daily = Idle /\ logged < MaxEvents
  /\ daily' = [Idle EXCEPT !.at = IF Day(now) = logsTime THEN "write" ELSE "rename",
                           !.day = Day(now)]
  /\ UNCHANGED <<fileVars, now, mtime, maxDaysToKeep, logsTime, stamps>>

\* Wrong on purpose: the file is named after the new day.
RenameToToday ==
  /\ daily.at = "rename"
  /\ daily' = [daily EXCEPT !.at = "open"]
  /\ fd' = Closed
  /\ Rename(FileName, Dated(daily.day))
  /\ mtime' = [mtime EXCEPT ![Dated(daily.day)] = mtime[FileName]]
  /\ UNCHANGED <<append, running, logged, whole, used>>
  /\ UNCHANGED <<now, maxDaysToKeep, logsTime, stamps>>

\* Wrong on purpose: the file is named after its day of the week, in a week of
\* two days that the first of January came late in.
RenameToWeekday ==
  /\ daily.at = "rename"
  /\ daily' = [daily EXCEPT !.at = "open"]
  /\ fd' = Closed
  /\ Rename(FileName, Dated((logsTime + 1) % 2))
  /\ mtime' = [mtime EXCEPT ![Dated((logsTime + 1) % 2)] = mtime[FileName]]
  /\ UNCHANGED <<append, running, logged, whole, used>>
  /\ UNCHANGED <<now, maxDaysToKeep, logsTime, stamps>>

\* rollOver(): close and rename.
RenameDated ==
  /\ daily.at = "rename"
  /\ daily' = [daily EXCEPT !.at = "open"]
  /\ fd' = Closed
  /\ \/ /\ Rename(FileName, Dated(logsTime))
        /\ mtime' = IF FileName \in present
                      THEN [mtime EXCEPT ![Dated(logsTime)] = mtime[FileName]] ELSE mtime
        /\ UNCHANGED <<whole, used>>
     \/ /\ Use("faults") /\ whole' = FALSE
        /\ UNCHANGED <<present, data, mtime>>
  /\ UNCHANGED <<append, running, logged>>
  /\ UNCHANGED <<now, maxDaysToKeep, logsTime, stamps>>

OpenDated ==
  /\ daily.at = "open"
  /\ daily' = [daily EXCEPT !.at = "oldest"]
  /\ \/ /\ Open(append)
        /\ mtime' = Touched(append)
        /\ whole' = (whole /\ Spares(append))
        /\ UNCHANGED used
     \/ /\ Use("faults") /\ whole' = FALSE
        /\ fd' = Closed
        /\ UNCHANGED <<present, data, mtime>>
  /\ UNCHANGED <<append, running, logged>>
  /\ UNCHANGED <<now, maxDaysToKeep, logsTime, stamps>>

\* time(NULL) - maxDaysToKeep * 60 * 60 * 24, the product in unsigned
\* arithmetic; there is no file from before 0.  Then scandir(), without which
\* nothing is deleted.
FindOldest ==
  /\ daily.at = "oldest"
  /\ \E names \in {present, {}} :
       /\ LET span == (maxDaysToKeep * DayLength) % Wrap IN
            daily' = [daily EXCEPT !.at = "purge", !.left = names,
                                   !.oldest = IF now > span THEN now - span ELSE 0]
       /\ IF names = present THEN UNCHANGED used ELSE Use("faults")
  /\ UNCHANGED <<present, data, fd, append, running, logged, whole>>
  /\ UNCHANGED <<now, mtime, maxDaysToKeep, logsTime, stamps>>

\* The names are sorted, the file itself before the dated ones.
Before(n, m) == IF n = FileName THEN TRUE ELSE IF m = FileName THEN FALSE ELSE n[1] < m[1]
Outdated == {n \in daily.left \cap present : mtime[n] < daily.oldest}

Visit(n) ==
  /\ daily' = [daily EXCEPT !.left = @ \ {n}]
  /\ UNCHANGED <<append, running, logged>>
  /\ UNCHANGED <<now, mtime, maxDaysToKeep, logsTime, stamps>>

Unlink(n) ==
  /\ Remove(n)
  /\ fd' = IF fd = n THEN Unlinked ELSE fd
  /\ UNCHANGED <<whole, used>>

\* Wrong on purpose: the files that are not outdated are deleted.
PurgeRecent ==
  /\ daily.at = "purge"
  /\ \E n \in daily.left \ (Outdated \cup {FileName}) : Visit(n) /\ Unlink(n)

\* The next outdated file is deleted, or stays if its stat() or unlink() fails;
\* then the ones after it are gone and it is still there.
Purge ==
  /\ daily.at = "purge"
  /\ \E n \in Outdated :
       /\ \A m \in Outdated \ {n} : Before(n, m)
       /\ Visit(n)
       /\ \/ Unlink(n)
          \/ Use("faults") /\ whole' = FALSE /\ UNCHANGED <<present, data, fd>>

PurgeEnds ==
  /\ daily.at = "purge" /\ Outdated = {}
  /\ daily' = [daily EXCEPT !.at = "write", !.left = {}]
  /\ logsTime' = daily.day
  /\ UNCHANGED <<fileVars, now, mtime, maxDaysToKeep, stamps>>

AppendDaily ==
  /\ daily.at = "write" /\ daily' = Idle
  /\ Write
  /\ mtime' = IF data' # data THEN [mtime EXCEPT ![fd] = now] ELSE mtime
  /\ stamps' = Append(stamps, [at |-> now, day |-> daily.day])
  /\ UNCHANGED <<present, fd, append, running, now, maxDaysToKeep, logsTime>>

CrashDaily ==
  /\ Crash
  /\ daily' = Idle
  /\ UNCHANGED <<now, mtime, maxDaysToKeep, logsTime, stamps>>

CallDaily ==
  /\ daily = Idle
  /\ \/ close /\ UNCHANGED mtime
     \/ /\ reopen
        /\ mtime' = IF fd' = FileName /\ (data' # data \/ present' # present \/ ~append)
                      THEN Touched(append) ELSE mtime
     \/ setAppend /\ UNCHANGED mtime
  /\ UNCHANGED <<now, maxDaysToKeep, logsTime, daily, stamps>>

DailyNext ==
  \/ Tick
  \/ ConstructDaily \/ setMaxDaysToKeep
  \/ CheckDay \/ RenameDated \/ OpenDated \/ FindOldest \/ Purge \/ PurgeEnds \/ AppendDaily
  \/ CrashDaily \/ CallDaily

DailySpec == DailyInit /\ [][DailyNext]_<<fileVars, dailyVars>>

-----------------------------------------------------------------------------

\* The files are in order: what is in the file of a day was logged before
\* everything in the file of a later day and in the current one, whatever
\* failed, however late a write came and wherever the process was killed.
DaysInOrder ==
  \A n \in DatedNames :
    /\ \A x \in data[n], y \in data[FileName] : x < y
    /\ \A m \in DatedNames : n[1] < m[1] => \A x \in data[n], y \in data[m] : x < y

\* No event is in the file of a day before its own; and as long as nothing
\* failed and the process was never killed, it is in the file of its own day.
DayIsRight ==
  \A n \in DatedNames : \A e \in data[n] :
    /\ stamps[e].day <= n[1]
    /\ whole /\ used.crashes = 0 => stamps[e].day = n[1]

\* As long as nothing failed, rollOver() gives up no event of the last
\* maxDaysToKeep days.
KeepsDays ==
  [][daily # Idle /\ whole' => \A e \in Kept \ Kept' :
       stamps[e].at + maxDaysToKeep * DayLength < now]_<<fileVars, dailyVars>>
=============================================================================
