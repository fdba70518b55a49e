---------------------------- MODULE WordPipeline ----------------------------
(***************************************************************************)
(* test/pthread/dome2.c: the main thread reads a line into the one global  *)
(* buffer and posts sem1; thread 1 counts it and posts sem2; thread 2      *)
(* writes it to result.txt.  All three look for "exit" in the buffer when  *)
(* they get to it.  Nothing but main's sleep(1) keeps main from putting    *)
(* the next line into the buffer before the threads are done with it.      *)
(*                                                                         *)
(* A line is what one fgets() stores, up to 79 characters of it; "exit"    *)
(* stands for any line that begins so.  A thread that looks while main     *)
(* copies may find a mixture of two lines, and one may begin with "exit"   *)
(* although neither line does ("exam" and "edit").                         *)
(***************************************************************************)
EXTENDS Integers, Sequences

CONSTANTS
  Words,     \* lines that do not begin with "exit"
  Exit,      \* the line that does
  Empty,     \* the contents of the buffer before the first line
  Torn,      \* mixtures of a new line and an old one: one that does not begin
  TornExit,  \* with "exit", and one that does
  (* Bounds of the model. *)
  MaxLines,  \* lines the user enters
  MaxPosts   \* turns of main's loop, which does not notice the end of input

ASSUME WordAssumption ==
  /\ Exit \notin Words /\ TornExit \notin Words \cup {Exit}
  /\ Empty \notin Words \cup {Exit, TornExit}
  /\ MaxLines \in Nat /\ MaxPosts \in Nat

VARIABLES
  prompt,    \* is sleep(1) long enough for both threads, all through the run?
  input,     \* the lines still to come from stdin, then its end
  buf,       \* the global buffer
  sem1, sem2,
  main, pth1, pth2,       \* where each thread is
  posted, printed, file   \* history: what was in buf when main posted it; what
                          \* the two threads put out

vars == <<prompt, input, buf, sem1, sem2, main, pth1, pth2, posted, printed, file>>

Mixtures == {Torn, TornExit}

\* strncmp(buf, "exit", 4) == 0
IsExit(w) == w \in {Exit, TornExit}

\* The user ends the input, with "exit" or without.
Scripts ==
  LET Before == UNION {[1 .. n -> Words] : n \in 0 .. MaxLines - 1} IN
  Before \cup {Append(s, Exit) : s \in Before}

\* Wrong on purpose: sem2 is initialised to 1.
InitSem2Free ==
  /\ prompt \in BOOLEAN
  /\ input \in Scripts
  /\ buf = Empty
  /\ sem1 = 0 /\ sem2 = 1
  /\ main = "fgets" /\ pth1 = "wait" /\ pth2 = "wait"
  /\ posted = <<>> /\ printed = <<>> /\ file = <<>>

Init ==
  /\ prompt \in BOOLEAN
  /\ input \in Scripts
  /\ buf = Empty
  /\ sem1 = 0 /\ sem2 = 0
  /\ main = "fgets" /\ pth1 = "wait" /\ pth2 = "wait"
  /\ posted = <<>> /\ printed = <<>> /\ file = <<>>

\* What a thread may find in the buffer: while fgets() copies a line into it,
\* which is a data race, the old line, the new one or, if they differ, a mixture.
Seen ==
  IF main # "copy" THEN {buf}
  ELSE {buf, Head(input)} \cup (IF buf = Head(input) THEN {} ELSE Mixtures)

-----------------------------------------------------------------------------
(* The main thread *)

mainOnly == <<prompt, pth1, pth2, sem2, printed, file>>

StartCopy ==
  /\ main = "fgets" /\ input # <<>>
  /\ main' = "copy"
  /\ UNCHANGED <<mainOnly, input, buf, sem1, posted>>

EndCopy ==
  /\ main = "copy"
  /\ buf' = Head(input)
  /\ input' = Tail(input)
  /\ main' = "post"
  /\ UNCHANGED <<mainOnly, sem1, posted>>

\* fgets() returns NULL and leaves the buffer alone; main goes on.
EndOfInput ==
  /\ main = "fgets" /\ input = <<>> /\ Len(posted) < MaxPosts
  /\ main' = "post"
  /\ UNCHANGED <<mainOnly, input, buf, sem1, posted>>

\* sem_post(&sem1), and main's own look at the buffer, which only it writes.
PostSem1 ==
  /\ main = "post"
  /\ sem1' = sem1 + 1
  /\ posted' = Append(posted, buf)
  /\ main' = IF IsExit(buf) THEN "join1" ELSE "sleep"
  /\ UNCHANGED <<mainOnly, input, buf>>

Idle == sem1 = 0 /\ sem2 = 0 /\ pth1 \in {"wait", "done"} /\ pth2 \in {"wait", "done"}

WakeUp ==
  /\ main = "sleep"
  /\ prompt => Idle
  /\ main' = "fgets"
  /\ UNCHANGED <<mainOnly, input, buf, sem1, posted>>

\* pthread_join(); after both, the semaphores are destroyed and the program ends.
Join ==
  /\ \/ main = "join1" /\ pth1 = "done" /\ main' = "join2"
     \/ main = "join2" /\ pth2 = "done" /\ main' = "done"
  /\ UNCHANGED <<mainOnly, input, buf, sem1, posted>>

Main == StartCopy \/ EndCopy \/ EndOfInput \/ PostSem1 \/ WakeUp \/ Join

-----------------------------------------------------------------------------
(* Thread 1, pthread_str_count() *)

pth1Only == <<prompt, input, buf, main, pth2, posted, file>>

\* Wrong on purpose: thread 1 does not wait.
TryWaitSem1 ==
  /\ pth1 = "wait"
  /\ sem1' = sem1 - 1
  /\ pth1' = "count"
  /\ UNCHANGED <<pth1Only, sem2, printed>>

WaitSem1 ==
  /\ pth1 = "wait" /\ sem1 > 0
  /\ sem1' = sem1 - 1
  /\ pth1' = "count"
  /\ UNCHANGED <<pth1Only, sem2, printed>>

Count ==
  /\ pth1 = "count"
  /\ \E w \in Seen : printed' = Append(printed, w)
  /\ pth1' = "post"
  /\ UNCHANGED <<pth1Only, sem1, sem2>>

\* Wrong on purpose: sem2 is posted twice.
PostSem2Twice ==
  /\ pth1 = "post"
  /\ sem2' = sem2 + 2
  /\ pth1' = "check"
  /\ UNCHANGED <<pth1Only, sem1, printed>>

PostSem2 ==
  /\ pth1 = "post"
  /\ sem2' = sem2 + 1
  /\ pth1' = "check"
  /\ UNCHANGED <<pth1Only, sem1, printed>>

\* Wrong on purpose: thread 1 never looks for "exit".
NoCheck1 ==
  /\ pth1 = "check"
  /\ pth1' = "wait"
  /\ UNCHANGED <<pth1Only, sem1, sem2, printed>>

Check1 ==
  /\ pth1 = "check"
  /\ \E w \in Seen : pth1' = IF IsExit(w) THEN "done" ELSE "wait"
  /\ UNCHANGED <<pth1Only, sem1, sem2, printed>>

Pth1 == WaitSem1 \/ Count \/ PostSem2 \/ Check1

-----------------------------------------------------------------------------
(* Thread 2, pthread_write_file() *)

pth2Only == <<prompt, input, buf, sem1, main, pth1, posted, printed>>

WaitSem2 ==
  /\ pth2 = "wait" /\ sem2 > 0
  /\ sem2' = sem2 - 1
  /\ pth2' = "write"
  /\ UNCHANGED <<pth2Only, file>>

Write ==
  /\ pth2 = "write"
  /\ \E w \in Seen : file' = Append(file, w)
  /\ pth2' = "check"
  /\ UNCHANGED <<pth2Only, sem2>>

\* Wrong on purpose: the comparison is the wrong way round.
CheckInverted2 ==
  /\ pth2 = "check"
  /\ \E w \in Seen : pth2' = IF IsExit(w) THEN "wait" ELSE "done"
  /\ UNCHANGED <<pth2Only, sem2, file>>

Check2 ==
  /\ pth2 = "check"
  /\ \E w \in Seen : pth2' = IF IsExit(w) THEN "done" ELSE "wait"
  /\ UNCHANGED <<pth2Only, sem2, file>>

Pth2 == WaitSem2 \/ Write \/ Check2

Next == Main \/ Pth1 \/ Pth2

Spec == Init /\ [][Next]_vars

\* Each thread is scheduled.
FairSpec == Spec /\ WF_vars(Main) /\ WF_vars(Pth1) /\ WF_vars(Pth2)

-----------------------------------------------------------------------------
(* Properties *)

\* Every variable has its type.
TypeOK ==
  LET Strings == Words \cup {Exit, Empty} IN
  /\ prompt \in BOOLEAN
  /\ input \in Seq(Words \cup {Exit})
  /\ buf \in Strings
  /\ sem1 \in Nat /\ sem2 \in Nat
  /\ main \in {"fgets", "copy", "post", "sleep", "join1", "join2", "done"}
  /\ pth1 \in {"wait", "count", "post", "check", "done"}
  /\ pth2 \in {"wait", "write", "check", "done"}
  /\ posted \in Seq(Strings)
  /\ printed \in Seq(Strings \cup Mixtures) /\ file \in Seq(Strings \cup Mixtures)

\* The lines main has put into the buffer, and the one it is putting there.
Entered ==
  CASE main = "copy" -> Append(posted, Head(input))
    [] main = "post" -> Append(posted, buf)
    [] OTHER         -> posted

\* Can a thread that was posted n times have found w?  It is a line main put
\* into the buffer n-th or later, or a mixture, if one of the lines after the
\* n-th differs from the one it replaced.
Findable(n, w) ==
  \/ \E k \in n .. Len(Entered) : w = Entered[k]
  \/ /\ w \in Mixtures
     /\ \E k \in n + 1 .. Len(Entered) : Entered[k] # Entered[k - 1]

\* The semaphores account for what was posted and is not yet put out.
Accounted ==
  LET Before(b) == IF b THEN 1 ELSE 0 IN
  /\ Len(posted) = Len(printed) + sem1 + Before(pth1 = "count")
  /\ Len(printed) = Len(file) + sem2 + Before(pth1 = "post") + Before(pth2 = "write")

\* However late the threads are: thread 1 puts out no more than was posted, and
\* thread 2 no more than thread 1, and the i-th thing either puts out is never
\* older than the i-th line.  It may be newer, or a mixture: then the user has
\* entered a line after the i-th.
NeverBehind ==
  /\ Accounted
  /\ \A i \in DOMAIN printed : Findable(i, printed[i])
  /\ \A i \in DOMAIN file : Findable(i, file[i])

\* However late the threads are: a thread ends only on an "exit" no older than
\* the last line it was posted, or on a mixture that begins so, of two lines
\* entered since; and main ends only after both threads.
EndsOnExit ==
  /\ pth1 = "done" => \E w \in {Exit, TornExit} : Findable(Len(printed), w)
  /\ pth2 = "done" => \E w \in {Exit, TornExit} : Findable(Len(file), w)
  /\ main = "done" => pth1 = "done" /\ pth2 = "done"

\* Each line is counted once and then stored once, in order, before the next
\* is received, and the program ends after "exit": what dome2.c:10-13 says, and
\* what it does in a run in which sleep(1) is long enough.
Promised(s) == IF prompt THEN s ELSE <<>>

Service == INSTANCE WordService WITH
  Strings <- Words \cup {Exit, Empty},
  lines <- Promised(posted), counted <- Promised(printed), stored <- Promised(file),
  ended <- (prompt /\ main = "done")

ServesWords == Service!Spec

\* The program runs until the user enters "exit" (dome2.c:13: "until the user
\* enters exit") and then ends: no thread is left waiting.
ExitEntered == \E i \in DOMAIN input : IsExit(input[i])

EndsAfterExit == ExitEntered ~> (main = "done")

\* The same of a run in which sleep(1) is long enough.
EndsIfPrompt == (prompt /\ ExitEntered) ~> (main = "done")
=============================================================================
