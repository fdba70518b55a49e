------------------------- MODULE WordPipeline_proofs -------------------------
(***************************************************************************)
(* What holds of the pipeline however late its threads are, for any lines. *)
(***************************************************************************)
EXTENDS WordPipeline, TLAPS

Strings == Words \cup {Exit, Empty}

\* While main may still put a line into the buffer, "exit" is not in it; while
\* it does, there is a line to put.  It joins the threads one after the other.
MainAhead ==
  /\ buf # TornExit
  /\ main \in {"fgets", "copy", "sleep"} => buf # Exit
  /\ main = "copy" => input # <<>>
  /\ main \in {"join1", "join2", "done"} => buf = Exit
  /\ main = "join2" => pth1 = "done"

\* The buffer holds the last line that was posted, or the one about to be.
BufIsLast ==
  main # "post" /\ posted # <<>> => buf = posted[Len(posted)]

\* A thread looks for "exit" after it has put something out.
LooksAfter ==
  /\ pth1 \in {"post", "check", "done"} => printed # <<>>
  /\ pth2 \in {"check", "done"} => file # <<>>

IInv == TypeOK /\ MainAhead /\ BufIsLast /\ LooksAfter /\ NeverBehind /\ EndsOnExit

\* The user's input is a sequence of lines.
LEMMA ScriptsType == \A s \in Scripts : s \in Seq(Words \cup {Exit})
<1> DEFINE Before == UNION {[1 .. n -> Words] : n \in 0 .. MaxLines - 1}
<1>1. \A s \in Before : s \in Seq(Words)
  <2> SUFFICES ASSUME NEW n \in 0 .. MaxLines - 1, NEW s \in [1 .. n -> Words]
               PROVE  s \in Seq(Words)
    OBVIOUS
  <2>1. n \in Nat
    BY WordAssumption
  <2> QED BY <2>1
<1>2. \A s \in Seq(Words) : s \in Seq(Words \cup {Exit}) /\ Append(s, Exit) \in Seq(Words \cup {Exit})
  OBVIOUS
<1> QED BY <1>1, <1>2, Zenon DEF Scripts

\* Nobody has posted anything.
LEMMA InitIInv == Init => IInv
<1> SUFFICES ASSUME Init PROVE IInv
  OBVIOUS
<1>1. input \in Seq(Words \cup {Exit})
  BY ScriptsType DEF Init
<1>2. TypeOK
  BY <1>1 DEF Init, TypeOK
<1>3. MainAhead /\ BufIsLast /\ LooksAfter
  BY WordAssumption DEF Init, MainAhead, BufIsLast, LooksAfter
<1>4. NeverBehind
  BY DEF Init, NeverBehind, Accounted
<1>5. EndsOnExit
  BY DEF Init, EndsOnExit
<1> QED BY <1>2, <1>3, <1>4, <1>5 DEF IInv

\* What Append() puts at the end, what it keeps, and how long it makes it.
LEMMA AppendLast ==
  ASSUME NEW S, NEW s \in Seq(S), NEW w \in S
  PROVE  /\ Append(s, w) \in Seq(S)
         /\ Append(s, w) # <<>> /\ Append(s, w) # s
         /\ Len(Append(s, w)) = Len(s) + 1 /\ Len(s) \in Nat
         /\ Append(s, w)[Len(Append(s, w))] = w /\ Append(s, w)[Len(s) + 1] = w
         /\ \A i \in 1 .. Len(s) : Append(s, w)[i] = s[i]
OBVIOUS

\* The line main is putting into the buffer is one.
LEMMA HeadType ==
  ASSUME TypeOK, MainAhead, main = "copy"
  PROVE  Head(input) \in Words \cup {Exit} /\ Tail(input) \in Seq(Words \cup {Exit})
<1>1. input \in Seq(Words \cup {Exit}) /\ input # <<>>
  BY DEF TypeOK, MainAhead
<1> QED BY <1>1

\* Whatever a thread finds in the buffer is a line or a mixture of two.
LEMMA SeenType ==
  ASSUME TypeOK, MainAhead
  PROVE  Seen \subseteq Strings \cup Mixtures
<1>1. CASE main = "copy"
  BY <1>1, HeadType DEF Seen, TypeOK, Strings
<1>2. CASE main # "copy"
  BY <1>2 DEF Seen, TypeOK, Strings
<1> QED BY <1>1, <1>2

\* The lines main has put into the buffer: those it has posted and, while it
\* copies or is about to post, one more.
LEMMA EnteredIs ==
  ASSUME TypeOK, MainAhead
  PROVE  /\ Entered \in Seq(Strings)
         /\ Len(posted) \in Nat /\ Len(Entered) \in Nat
         /\ \A k \in 1 .. Len(posted) : Entered[k] = posted[k]
         /\ main = "copy" => /\ Len(Entered) = Len(posted) + 1
                             /\ Entered[Len(posted) + 1] = Head(input)
         /\ main = "post" => /\ Len(Entered) = Len(posted) + 1
                             /\ Entered[Len(posted) + 1] = buf
         /\ main \notin {"copy", "post"} => Entered = posted
<1>1. posted \in Seq(Strings) /\ buf \in Strings
  BY DEF TypeOK, Strings
<1>2. CASE main = "copy"
  <2>1. Entered = Append(posted, Head(input))
    BY <1>2 DEF Entered
  <2>2. Head(input) \in Strings
    BY <1>2, HeadType DEF Strings
  <2> QED BY <1>1, <1>2, <2>1, <2>2, AppendLast
<1>3. CASE main = "post"
  <2>1. Entered = Append(posted, buf)
    BY <1>3 DEF Entered
  <2> QED BY <1>1, <1>3, <2>1, AppendLast
<1>4. CASE main \notin {"copy", "post"}
  BY <1>1, <1>4 DEF Entered
<1> QED BY <1>2, <1>3, <1>4

\* A thread that was posted n times finds the line that was posted last, or
\* the one main is putting there.
LEMMA SeenFindable ==
  ASSUME TypeOK, MainAhead, BufIsLast, posted # <<>>,
         NEW n \in 1 .. Len(posted), NEW w \in Seen
  PROVE  Findable(n, w)
<1> DEFINE m == Len(posted)
<1>1. posted \in Seq(Strings)
  BY DEF TypeOK, Strings
<1>2. m \in Nat /\ m >= 1 /\ n \in 1 .. m /\ Len(Entered) \in Nat
  BY <1>1, EnteredIs
<1>3. CASE main = "copy"
  <2>1. Len(Entered) = m + 1 /\ Entered[m] = buf /\ Entered[m + 1] = Head(input)
    BY <1>2, <1>3, EnteredIs DEF BufIsLast
  <2>2. CASE w = buf
    <3>1. m \in n .. Len(Entered) /\ w = Entered[m]
      BY <1>2, <2>1, <2>2
    <3> QED BY <3>1 DEF Findable
  <2>3. CASE w = Head(input)
    <3>1. m + 1 \in n .. Len(Entered) /\ w = Entered[m + 1]
      BY <1>2, <2>1, <2>3
    <3> QED BY <3>1 DEF Findable
  <2>4. CASE w \in Mixtures /\ buf # Head(input)
    <3>1. m + 1 \in n + 1 .. Len(Entered) /\ Entered[m + 1] # Entered[(m + 1) - 1]
      BY <1>2, <2>1, <2>4
    <3> QED BY <2>4, <3>1 DEF Findable
  <2> QED BY <1>3, <2>2, <2>3, <2>4 DEF Seen
<1>4. CASE main = "post"
  <2>1. w = buf /\ Len(Entered) = m + 1 /\ Entered[m + 1] = buf
    BY <1>4, EnteredIs DEF Seen
  <2>2. m + 1 \in n .. Len(Entered)
    BY <1>2, <2>1
  <2> QED BY <2>1, <2>2 DEF Findable
<1>5. CASE main \notin {"copy", "post"}
  <2>1. w = buf /\ Entered = posted /\ buf = posted[m]
    BY <1>5, EnteredIs DEF Seen, BufIsLast
  <2>2. m \in n .. Len(Entered) /\ w = Entered[m]
    BY <1>2, <2>1
  <2> QED BY <2>2 DEF Findable
<1> QED BY <1>3, <1>4, <1>5

\* What a thread can have found it can still have found when main has put more
\* lines into the buffer.
LEMMA FindableStays ==
  ASSUME NEW n \in Nat, NEW w, Findable(n, w),
         Len(Entered) \in Nat, Len(Entered') \in Nat, Len(Entered) <= Len(Entered'),
         \A k \in 1 .. Len(Entered) : Entered'[k] = Entered[k],
         n >= 1
  PROVE  Findable(n, w)'
<1>1. CASE \E k \in n .. Len(Entered) : w = Entered[k]
  <2>1. PICK k \in n .. Len(Entered) : w = Entered[k]
    BY <1>1
  <2>2. k \in n .. Len(Entered') /\ w = Entered'[k]
    BY <2>1
  <2> QED BY <2>2 DEF Findable
<1>2. CASE w \in Mixtures /\ \E k \in n + 1 .. Len(Entered) : Entered[k] # Entered[k - 1]
  <2>1. PICK k \in n + 1 .. Len(Entered) : Entered[k] # Entered[k - 1]
    BY <1>2
  <2>2. k \in n + 1 .. Len(Entered') /\ k \in 1 .. Len(Entered) /\ k - 1 \in 1 .. Len(Entered)
    BY <2>1
  <2>3. Entered'[k] # Entered'[k - 1]
    BY <2>1, <2>2
  <2> QED BY <1>2, <2>2, <2>3 DEF Findable, Mixtures
<1> QED BY <1>1, <1>2 DEF Findable

\* The histories have lengths.
LEMMA Lengths ==
  ASSUME TypeOK
  PROVE  /\ Len(posted) \in Nat /\ Len(printed) \in Nat /\ Len(file) \in Nat
         /\ sem1 \in Nat /\ sem2 \in Nat
         /\ printed \in Seq(Strings \cup Mixtures) /\ file \in Seq(Strings \cup Mixtures)
         /\ posted \in Seq(Strings)
BY DEF TypeOK, Strings

\* A step of main that leaves the threads alone, and all it had put into the
\* buffer, leaves what they have put out findable.
LEMMA MainKeepsOutput ==
  ASSUME IInv, UNCHANGED mainOnly,
         Len(Entered') \in Nat, Len(Entered) <= Len(Entered'),
         \A k \in 1 .. Len(Entered) : Entered'[k] = Entered[k]
  PROVE  /\ \A i \in DOMAIN printed' : Findable(i, printed[i])'
         /\ \A i \in DOMAIN file' : Findable(i, file[i])'
         /\ pth1' = "done" => \E w \in {Exit, TornExit} : Findable(Len(printed), w)'
         /\ pth2' = "done" => \E w \in {Exit, TornExit} : Findable(Len(file), w)'
<1>1. TypeOK /\ MainAhead /\ NeverBehind /\ EndsOnExit
  BY DEF IInv
<1>2. printed' = printed /\ file' = file /\ pth1' = pth1 /\ pth2' = pth2
  BY DEF mainOnly
<1>3. Len(Entered) \in Nat /\ Len(posted) \in Nat
  BY <1>1, EnteredIs
<1>4. \A n \in Nat : \A w : n >= 1 /\ Findable(n, w) => Findable(n, w)'
  BY <1>3, FindableStays
<1>5. \A i \in DOMAIN printed : i \in Nat /\ i >= 1
  BY <1>1, Lengths
<1>6. \A i \in DOMAIN file : i \in Nat /\ i >= 1
  BY <1>1, Lengths
<1> QED
  <2>1. \A i \in DOMAIN printed : Findable(i, printed[i])'
    <3> SUFFICES ASSUME NEW i \in DOMAIN printed PROVE Findable(i, printed[i])'
      OBVIOUS
    <3>1. Findable(i, printed[i]) /\ i \in Nat /\ i >= 1
      BY <1>1, <1>5 DEF NeverBehind
    <3> QED BY <1>2, <1>4, <3>1
  <2>2. \A i \in DOMAIN file : Findable(i, file[i])'
    <3> SUFFICES ASSUME NEW i \in DOMAIN file PROVE Findable(i, file[i])'
      OBVIOUS
    <3>1. Findable(i, file[i]) /\ i \in Nat /\ i >= 1
      BY <1>1, <1>6 DEF NeverBehind
    <3> QED BY <1>2, <1>4, <3>1
  <2>3. ASSUME pth1' = "done" PROVE \E w \in {Exit, TornExit} : Findable(Len(printed), w)'
    <3>1. PICK w \in {Exit, TornExit} : Findable(Len(printed), w)
      BY <1>1, <1>2, <2>3 DEF EndsOnExit
    <3>2. Len(printed) \in Nat /\ Len(printed) >= 1
      BY <1>1, <1>2, <2>3, Lengths DEF IInv, LooksAfter
    <3> QED BY <1>2, <1>4, <3>1, <3>2
  <2>4. ASSUME pth2' = "done" PROVE \E w \in {Exit, TornExit} : Findable(Len(file), w)'
    <3>1. PICK w \in {Exit, TornExit} : Findable(Len(file), w)
      BY <1>1, <1>2, <2>4 DEF EndsOnExit
    <3>2. Len(file) \in Nat /\ Len(file) >= 1
      BY <1>1, <1>2, <2>4, Lengths DEF IInv, LooksAfter
    <3> QED BY <1>2, <1>4, <3>1, <3>2
  <2> QED BY <1>2, <2>1, <2>2, <2>3, <2>4

\* main() reads, checks and posts a word.
LEMMA MainStep == IInv /\ Main => IInv'
<1> SUFFICES ASSUME IInv, Main PROVE IInv'
  OBVIOUS
<1>0. TypeOK /\ MainAhead /\ BufIsLast /\ LooksAfter /\ NeverBehind /\ EndsOnExit /\ Accounted
  BY DEF IInv, NeverBehind
\* It is enough to keep the rest of the invariant and what main had put out.
<1>a. ASSUME UNCHANGED mainOnly, TypeOK', MainAhead', BufIsLast', Accounted',
             main' = "done" => pth1' = "done" /\ pth2' = "done",
             Len(Entered') \in Nat, Len(Entered) <= Len(Entered'),
             \A k \in 1 .. Len(Entered) : Entered'[k] = Entered[k]
      PROVE  IInv'
  <2>1. LooksAfter'
    BY <1>0, <1>a DEF LooksAfter, mainOnly
  <2>2. NeverBehind' /\ EndsOnExit'
    BY <1>a, MainKeepsOutput DEF NeverBehind, EndsOnExit
  <2> QED BY <1>a, <2>1, <2>2 DEF IInv
<1>b. /\ Len(posted) \in Nat /\ Len(Entered) \in Nat
      /\ \A k \in 1 .. Len(posted) : Entered[k] = posted[k]
  BY <1>0, EnteredIs
<1>1. CASE StartCopy
  <2>1. TypeOK' /\ MainAhead' /\ BufIsLast' /\ Accounted'
    BY <1>0, <1>1 DEF StartCopy, mainOnly, TypeOK, MainAhead, BufIsLast, Accounted
  <2>2. Entered = posted
    BY <1>0, <1>1, EnteredIs DEF StartCopy
  <2>3. Entered' = Append(posted, Head(input)) /\ posted \in Seq(Strings) /\ Head(input) \in Strings
    <3>1. Head(input) \in Words \cup {Exit}
      BY <1>0, <1>1 DEF StartCopy, TypeOK
    <3> QED BY <1>0, <1>1, <3>1, Lengths DEF StartCopy, Entered, Strings
  <2>4. Len(Entered') = Len(posted) + 1 /\ \A k \in 1 .. Len(posted) : Entered'[k] = posted[k]
    BY <2>3, AppendLast
  <2> QED BY <1>1, <1>a, <1>b, <2>1, <2>2, <2>4 DEF StartCopy
<1>2. CASE EndCopy
  <2>1. Head(input) \in Words \cup {Exit} /\ Tail(input) \in Seq(Words \cup {Exit})
    BY <1>0, <1>2, HeadType DEF EndCopy
  <2>2. TypeOK' /\ MainAhead' /\ BufIsLast' /\ Accounted'
    <3>1. TypeOK'
      BY <1>0, <1>2, <2>1 DEF EndCopy, mainOnly, TypeOK
    <3>2. MainAhead' /\ BufIsLast'
      BY <1>2, <2>1, WordAssumption DEF EndCopy, MainAhead, BufIsLast
    <3>3. Accounted'
      BY <1>0, <1>2 DEF EndCopy, mainOnly, Accounted
    <3> QED BY <3>1, <3>2, <3>3
  <2>3. Entered' = Entered
    BY <1>2 DEF EndCopy, Entered
  <2> QED BY <1>2, <1>a, <1>b, <2>2, <2>3 DEF EndCopy
<1>3. CASE EndOfInput
  <2>1. TypeOK' /\ MainAhead' /\ BufIsLast' /\ Accounted'
    BY <1>0, <1>3 DEF EndOfInput, mainOnly, TypeOK, MainAhead, BufIsLast, Accounted
  <2>2. Entered = posted
    BY <1>0, <1>3, EnteredIs DEF EndOfInput
  <2>3. Entered' = Append(posted, buf) /\ posted \in Seq(Strings) /\ buf \in Strings
    BY <1>0, <1>3 DEF EndOfInput, Entered, TypeOK, Strings
  <2>4. Len(Entered') = Len(posted) + 1 /\ \A k \in 1 .. Len(posted) : Entered'[k] = posted[k]
    BY <2>3, AppendLast
  <2> QED BY <1>3, <1>a, <1>b, <2>1, <2>2, <2>4 DEF EndOfInput
<1>4. CASE PostSem1
  <2>1. posted \in Seq(Strings) /\ buf \in Strings
    BY <1>0 DEF TypeOK, Strings
  <2>2. /\ Append(posted, buf) \in Seq(Strings)
        /\ Len(Append(posted, buf)) = Len(posted) + 1
        /\ Append(posted, buf)[Len(Append(posted, buf))] = buf
    BY <2>1, AppendLast
  <2>3. TypeOK' /\ MainAhead' /\ BufIsLast'
    BY <1>0, <1>4, <2>2 DEF PostSem1, mainOnly, TypeOK, MainAhead, BufIsLast, Strings, IsExit
  <2>4. Accounted'
    BY <1>0, <1>4, <2>2, Lengths DEF PostSem1, mainOnly, Accounted
  <2>5. Entered' = Entered
    BY <1>4 DEF PostSem1, Entered
  <2> QED BY <1>4, <1>a, <1>b, <2>3, <2>4, <2>5 DEF PostSem1
<1>5. CASE WakeUp
  <2>1. TypeOK' /\ MainAhead' /\ BufIsLast' /\ Accounted' /\ Entered' = Entered
    BY <1>0, <1>5 DEF WakeUp, mainOnly, TypeOK, MainAhead, BufIsLast, Accounted, Entered
  <2> QED BY <1>5, <1>a, <1>b, <2>1 DEF WakeUp
<1>6. CASE Join
  <2>1. TypeOK' /\ MainAhead' /\ BufIsLast' /\ Accounted' /\ Entered' = Entered
    BY <1>0, <1>6 DEF Join, mainOnly, TypeOK, MainAhead, BufIsLast, Accounted, Entered
  <2>2. main' = "done" => pth1' = "done" /\ pth2' = "done"
    BY <1>0, <1>6 DEF Join, mainOnly, MainAhead
  <2> QED BY <1>6, <1>a, <1>b, <2>1, <2>2 DEF Join
<1> QED BY <1>1, <1>2, <1>3, <1>4, <1>5, <1>6 DEF Main

\* While main is still, what can be found stays what it is.
LEMMA FindableSame ==
  ASSUME UNCHANGED <<input, buf, main, posted>>, NEW n, NEW w
  PROVE  Findable(n, w)' = Findable(n, w)
BY DEF Findable, Entered, Mixtures

\* What a thread puts out next is not behind: the histories stay findable.
LEMMA OutputFindable ==
  ASSUME NEW s \in Seq(Strings \cup Mixtures), NEW w \in Strings \cup Mixtures,
         \A i \in DOMAIN s : Findable(i, s[i]), Findable(Len(s) + 1, w)
  PROVE  /\ Append(s, w) \in Seq(Strings \cup Mixtures) /\ Append(s, w) # <<>>
         /\ Len(Append(s, w)) = Len(s) + 1
         /\ \A i \in DOMAIN Append(s, w) : Findable(i, Append(s, w)[i])
<1>1. /\ Append(s, w) \in Seq(Strings \cup Mixtures) /\ Append(s, w) # <<>>
      /\ Len(Append(s, w)) = Len(s) + 1 /\ Len(s) \in Nat
      /\ Append(s, w)[Len(s) + 1] = w
      /\ \A i \in 1 .. Len(s) : Append(s, w)[i] = s[i]
  BY AppendLast
<1>2. DOMAIN s = 1 .. Len(s) /\ DOMAIN Append(s, w) = 1 .. Len(s) + 1
  BY <1>1
<1>3. ASSUME NEW i \in 1 .. Len(s) + 1 PROVE Findable(i, Append(s, w)[i])
  <2>1. CASE i \in 1 .. Len(s)
    BY <1>1, <1>2, <2>1
  <2>2. CASE i = Len(s) + 1
    BY <1>1, <2>2
  <2> QED BY <1>1, <2>1, <2>2
<1> QED BY <1>1, <1>2, <1>3

\* Thread 1 waits, counts the line, posts sem2 and looks for "exit".
LEMMA Pth1Step == IInv /\ Pth1 => IInv'
<1> SUFFICES ASSUME IInv, Pth1 PROVE IInv'
  OBVIOUS
<1>0. TypeOK /\ MainAhead /\ BufIsLast /\ LooksAfter /\ NeverBehind /\ EndsOnExit /\ Accounted
  BY DEF IInv, NeverBehind
<1>a. UNCHANGED <<input, buf, main, posted, pth2, file>> /\ UNCHANGED prompt
  BY DEF Pth1, WaitSem1, Count, PostSem2, Check1, pth1Only
<1>b. MainAhead' /\ BufIsLast'
  <2>1. main = "join2" => pth1 = "done"
    BY <1>0 DEF MainAhead
  <2>2. pth1 # "done"
    BY DEF Pth1, WaitSem1, Count, PostSem2, Check1
  <2> QED BY <1>0, <1>a, <2>1, <2>2 DEF MainAhead, BufIsLast
<1>c. main # "done" /\ pth1 # "done"
  BY <1>0 DEF Pth1, WaitSem1, Count, PostSem2, Check1, EndsOnExit
<1>d. \A n, w : Findable(n, w)' = Findable(n, w)
  BY <1>a, FindableSame
<1>e. \A i \in DOMAIN file' : Findable(i, file[i])'
  BY <1>0, <1>a, <1>d DEF NeverBehind
<1>f. pth2' = "done" => \E w \in {Exit, TornExit} : Findable(Len(file), w)'
  BY <1>0, <1>a, <1>d DEF EndsOnExit
<1>1. CASE WaitSem1 \/ PostSem2
  <2>1. TypeOK' /\ LooksAfter' /\ Accounted' /\ printed' = printed /\ pth1' # "done"
    <3>1. TypeOK' /\ LooksAfter'
      BY <1>0, <1>1 DEF WaitSem1, PostSem2, pth1Only, TypeOK, LooksAfter
    <3>2. Accounted'
      <4>1. CASE WaitSem1
        BY <1>0, <4>1, Lengths DEF WaitSem1, pth1Only, Accounted
      <4>2. CASE PostSem2
        BY <1>0, <4>2, Lengths DEF PostSem2, pth1Only, Accounted
      <4> QED BY <1>1, <4>1, <4>2
    <3> QED BY <1>1, <3>1, <3>2 DEF WaitSem1, PostSem2
  <2>2. \A i \in DOMAIN printed' : Findable(i, printed[i])'
    BY <1>0, <1>d, <2>1 DEF NeverBehind
  <2> QED BY <1>a, <1>b, <1>c, <1>e, <1>f, <2>1, <2>2 DEF IInv, NeverBehind, EndsOnExit
<1>2. CASE Count
  <2>1. PICK w \in Seen : printed' = Append(printed, w)
    BY <1>2 DEF Count
  <2>2. printed \in Seq(Strings \cup Mixtures) /\ w \in Strings \cup Mixtures
    BY <1>0, SeenType, Lengths
  <2>3. Len(printed) + 1 \in 1 .. Len(posted) /\ posted # <<>>
    BY <1>0, <1>2, Lengths DEF Count, Accounted
  <2>4. Findable(Len(printed) + 1, w)
    BY <1>0, <2>3, SeenFindable
  <2>5. /\ printed' \in Seq(Strings \cup Mixtures) /\ printed' # <<>>
        /\ Len(printed') = Len(printed) + 1
        /\ \A i \in DOMAIN printed' : Findable(i, printed'[i])
    BY <1>0, <2>1, <2>2, <2>4, OutputFindable DEF NeverBehind
  <2>6. TypeOK' /\ LooksAfter'
    BY <1>0, <1>2, <2>5 DEF Count, pth1Only, TypeOK, LooksAfter, Strings, Mixtures
  <2>7. Accounted'
    BY <1>0, <1>2, <2>5, Lengths DEF Count, pth1Only, Accounted
  <2>8. \A i \in DOMAIN printed' : Findable(i, printed[i])'
    BY <1>d, <2>5
  <2>9. pth1' # "done"
    BY <1>2 DEF Count
  <2> QED BY <1>a, <1>b, <1>c, <1>e, <1>f, <2>6, <2>7, <2>8, <2>9 DEF IInv, NeverBehind, EndsOnExit
<1>3. CASE Check1
  <2>1. TypeOK' /\ LooksAfter' /\ Accounted' /\ printed' = printed
    BY <1>0, <1>3 DEF Check1, pth1Only, TypeOK, LooksAfter, Accounted, Mixtures
  <2>2. \A i \in DOMAIN printed' : Findable(i, printed[i])'
    BY <1>0, <1>d, <2>1 DEF NeverBehind
  <2>3. ASSUME pth1' = "done" PROVE \E w \in {Exit, TornExit} : Findable(Len(printed), w)'
    <3>1. PICK w \in Seen : IsExit(w)
      BY <1>3, <2>3 DEF Check1
    <3>2. Len(printed) \in 1 .. Len(posted) /\ posted # <<>>
      BY <1>0, <1>3, Lengths DEF Check1, Accounted, LooksAfter
    <3>3. Findable(Len(printed), w)
      BY <1>0, <3>2, SeenFindable
    <3> QED BY <1>d, <2>1, <3>1, <3>3 DEF IsExit
  <2> QED BY <1>a, <1>b, <1>c, <1>e, <1>f, <2>1, <2>2, <2>3 DEF IInv, NeverBehind, EndsOnExit
<1> QED BY <1>1, <1>2, <1>3 DEF Pth1

\* Thread 2 waits, writes the line to result.txt and looks for "exit".
LEMMA Pth2Step == IInv /\ Pth2 => IInv'
<1> SUFFICES ASSUME IInv, Pth2 PROVE IInv'
  OBVIOUS
<1>0. TypeOK /\ MainAhead /\ BufIsLast /\ LooksAfter /\ NeverBehind /\ EndsOnExit /\ Accounted
  BY DEF IInv, NeverBehind
<1>a. UNCHANGED <<input, buf, main, posted, pth1, printed>> /\ UNCHANGED prompt
  BY DEF Pth2, WaitSem2, Write, Check2, pth2Only
<1>b. MainAhead' /\ BufIsLast'
  BY <1>0, <1>a DEF MainAhead, BufIsLast
<1>c. main # "done" /\ pth2 # "done"
  BY <1>0 DEF Pth2, WaitSem2, Write, Check2, EndsOnExit
<1>d. \A n, w : Findable(n, w)' = Findable(n, w)
  BY <1>a, FindableSame
<1>e. \A i \in DOMAIN printed' : Findable(i, printed[i])'
  BY <1>0, <1>a, <1>d DEF NeverBehind
<1>f. pth1' = "done" => \E w \in {Exit, TornExit} : Findable(Len(printed), w)'
  BY <1>0, <1>a, <1>d DEF EndsOnExit
<1>1. CASE WaitSem2
  <2>1. TypeOK' /\ LooksAfter' /\ Accounted' /\ file' = file /\ pth2' # "done"
    <3>1. TypeOK' /\ LooksAfter'
      BY <1>0, <1>1 DEF WaitSem2, pth2Only, TypeOK, LooksAfter
    <3>2. Accounted'
      BY <1>0, <1>1, Lengths DEF WaitSem2, pth2Only, Accounted
    <3> QED BY <1>1, <3>1, <3>2 DEF WaitSem2
  <2>2. \A i \in DOMAIN file' : Findable(i, file[i])'
    BY <1>0, <1>d, <2>1 DEF NeverBehind
  <2> QED BY <1>a, <1>b, <1>c, <1>e, <1>f, <2>1, <2>2 DEF IInv, NeverBehind, EndsOnExit
<1>2. CASE Write
  <2>1. PICK w \in Seen : file' = Append(file, w)
    BY <1>2 DEF Write
  <2>2. file \in Seq(Strings \cup Mixtures) /\ w \in Strings \cup Mixtures
    BY <1>0, SeenType, Lengths
  <2>3. Len(file) + 1 \in 1 .. Len(posted) /\ posted # <<>>
    BY <1>0, <1>2, Lengths DEF Write, Accounted
  <2>4. Findable(Len(file) + 1, w)
    BY <1>0, <2>3, SeenFindable
  <2>5. /\ file' \in Seq(Strings \cup Mixtures) /\ file' # <<>>
        /\ Len(file') = Len(file) + 1
        /\ \A i \in DOMAIN file' : Findable(i, file'[i])
    BY <1>0, <2>1, <2>2, <2>4, OutputFindable DEF NeverBehind
  <2>6. TypeOK' /\ LooksAfter'
    BY <1>0, <1>2, <2>5 DEF Write, pth2Only, TypeOK, LooksAfter, Strings, Mixtures
  <2>7. Accounted'
    BY <1>0, <1>2, <2>5, Lengths DEF Write, pth2Only, Accounted
  <2>8. \A i \in DOMAIN file' : Findable(i, file[i])'
    BY <1>d, <2>5
  <2>9. pth2' # "done"
    BY <1>2 DEF Write
  <2> QED BY <1>a, <1>b, <1>c, <1>e, <1>f, <2>6, <2>7, <2>8, <2>9 DEF IInv, NeverBehind, EndsOnExit
<1>3. CASE Check2
  <2>1. TypeOK' /\ LooksAfter' /\ Accounted' /\ file' = file
    BY <1>0, <1>3 DEF Check2, pth2Only, TypeOK, LooksAfter, Accounted, Mixtures
  <2>2. \A i \in DOMAIN file' : Findable(i, file[i])'
    BY <1>0, <1>d, <2>1 DEF NeverBehind
  <2>3. ASSUME pth2' = "done" PROVE \E w \in {Exit, TornExit} : Findable(Len(file), w)'
    <3>1. PICK w \in Seen : IsExit(w)
      BY <1>3, <2>3 DEF Check2
    <3>2. Len(file) \in 1 .. Len(posted) /\ posted # <<>>
      BY <1>0, <1>3, Lengths DEF Check2, Accounted, LooksAfter
    <3>3. Findable(Len(file), w)
      BY <1>0, <3>2, SeenFindable
    <3> QED BY <1>d, <2>1, <3>1, <3>3 DEF IsExit
  <2> QED BY <1>a, <1>b, <1>c, <1>e, <1>f, <2>1, <2>2, <2>3 DEF IInv, NeverBehind, EndsOnExit
<1> QED BY <1>1, <1>2, <1>3 DEF Pth2

\* The inductive invariant is one: Init implies it and every step keeps it.
THEOREM Invariance == Spec => []IInv
<1>1. IInv /\ [Next]_vars => IInv'
  <2> SUFFICES ASSUME IInv, [Next]_vars PROVE IInv'
    OBVIOUS
  <2>1. CASE UNCHANGED vars
    <3>1. /\ UNCHANGED <<prompt, input, buf, sem1, sem2, main, pth1, pth2>>
          /\ UNCHANGED <<posted, printed, file>>
      BY <2>1 DEF vars
    <3>2. TypeOK' /\ MainAhead' /\ BufIsLast' /\ LooksAfter' /\ Accounted'
      <4>1. TypeOK' /\ MainAhead'
        BY <3>1 DEF IInv, TypeOK, MainAhead, Mixtures
      <4>2. BufIsLast' /\ LooksAfter' /\ Accounted'
        BY <3>1 DEF IInv, NeverBehind, BufIsLast, LooksAfter, Accounted
      <4> QED BY <4>1, <4>2
    <3>3. \A n, w : Findable(n, w)' = Findable(n, w)
      BY <3>1, FindableSame
    <3>4. NeverBehind' /\ EndsOnExit'
      BY <3>1, <3>2, <3>3 DEF IInv, NeverBehind, EndsOnExit
    <3> QED BY <3>2, <3>4 DEF IInv
  <2> QED BY <2>1, MainStep, Pth1Step, Pth2Step DEF Next
<1> QED BY InitIInv, <1>1, PTL DEF Spec

\* Every variable of dome2.c keeps its type: main's buffer, the strings of the
\* files, and the semaphores, whose counts are never negative.
THEOREM TypeCorrect == Spec => []TypeOK
<1>1. IInv => TypeOK
  BY DEF IInv
<1> QED BY Invariance, <1>1, PTL

\* However late the threads are, what either puts out i-th is never older than
\* the i-th line main posted: it is that line, a later one or, if a later one
\* differs, a mixture; and no more is written than was counted, or counted than
\* was posted (dome2.c:48 and :140 post, :30 and :76 wait, :44 and :82 read a
\* buffer that main may be writing at :137).
THEOREM NoneIsBehind == Spec => []NeverBehind
<1>1. IInv => NeverBehind
  BY DEF IInv
<1> QED BY Invariance, <1>1, PTL

\* However late the threads are, one ends (dome2.c:54, :89) only on an "exit" no
\* older than the last line it was posted, or on a mixture, that happens to begin
\* so, of lines entered since; and main ends after both (:155, :162).
THEOREM EndsOnlyOnExit == Spec => []EndsOnExit
<1>1. IInv => EndsOnExit
  BY DEF IInv
<1> QED BY Invariance, <1>1, PTL

-----------------------------------------------------------------------------
(* If sleep(1) is long enough, the program keeps the promise of WordService. *)

\* The one string in the buffer is on its way from main to the file.
AtThread1 ==
  /\ \/ sem1 = 1 /\ pth1 = "wait"
     \/ sem1 = 0 /\ pth1 = "count"
  /\ sem2 = 0 /\ pth2 = "wait"
  /\ printed = file /\ posted = Append(file, buf)

AtThread2 ==
  /\ sem1 = 0
  /\ \/ pth1 = "post" /\ sem2 = 0 /\ pth2 = "wait"
     \/ pth1 \in {"check", "wait", "done"} /\ sem2 = 1 /\ pth2 = "wait"
     \/ pth1 \in {"check", "wait", "done"} /\ sem2 = 0 /\ pth2 = "write"
  /\ printed = posted /\ posted = Append(file, buf)

Stored ==
  /\ sem1 = 0 /\ sem2 = 0
  /\ pth1 \in {"check", "wait", "done"} /\ pth2 \in {"check", "wait", "done"}
  /\ printed = posted /\ file = posted

\* Main touches the buffer only when both threads are back at their semaphores.
InTurn ==
  /\ main \in {"fgets", "copy", "post"} =>
       /\ Stored /\ pth1 = "wait" /\ pth2 = "wait"
       /\ posted # <<>> => posted[Len(posted)] # Exit
  /\ main \in {"sleep", "join1", "join2", "done"} =>
       /\ AtThread1 \/ AtThread2 \/ Stored
       /\ posted # <<>> /\ posted[Len(posted)] = buf
       /\ pth1 = "done" \/ pth2 = "done" => buf = Exit

\* AppendLast for the file and the line on its way there, and for main's post.
LEMMA LastOfPosted ==
  ASSUME TypeOK, NEW s \in {file, posted}
  PROVE  /\ Append(s, buf) # <<>> /\ Append(s, buf) # s
         /\ Len(Append(s, buf)) = Len(s) + 1 /\ Len(s) \in Nat
         /\ Append(s, buf)[Len(Append(s, buf))] = buf /\ Append(s, buf)[Len(s) + 1] = buf
<1>1. s \in Seq(Strings \cup Mixtures) /\ buf \in Strings \cup Mixtures
  <2>1. posted \in Seq(Strings) /\ file \in Seq(Strings \cup Mixtures) /\ buf \in Strings
    BY DEF TypeOK, Strings
  <2>2. posted \in Seq(Strings \cup Mixtures)
    BY <2>1
  <2> QED BY <2>1, <2>2
<1> QED BY <1>1, AppendLast

\* The service starts where the threads start.
LEMMA InitInTurn == Init => InTurn /\ Service!Init
BY DEF Init, InTurn, Stored, Service!Init, Promised

\* When main() is prompt, its steps are the service's.
LEMMA MainServes ==
  ASSUME prompt, IInv, InTurn, Main
  PROVE  InTurn' /\ [Service!Next]_(Service!vars)
<1> USE DEF mainOnly, Service!vars, Promised
<1>1. CASE StartCopy
  BY <1>1 DEF StartCopy, InTurn, Stored
<1>2. CASE EndCopy
  BY <1>2 DEF EndCopy, InTurn, Stored
<1>3. CASE EndOfInput
  BY <1>3 DEF EndOfInput, InTurn, Stored
<1>4. CASE PostSem1
  <2>1. Stored /\ pth1 = "wait" /\ pth2 = "wait" /\ (posted # <<>> => posted[Len(posted)] # Exit)
    BY <1>4 DEF PostSem1, InTurn
  <2>2. posted' = Append(posted, buf) /\ sem1' = 1 /\ main' \in {"join1", "sleep"}
    BY <1>4, <2>1 DEF PostSem1, Stored
  <2>3. UNCHANGED <<mainOnly, buf>>
    BY <1>4 DEF PostSem1
  <2>4. posted' # <<>> /\ posted'[Len(posted')] = buf
    BY <2>2, LastOfPosted DEF IInv
  <2>5. AtThread1'
    BY <2>1, <2>2, <2>3 DEF AtThread1, Stored
  <2>6. InTurn'
    BY <2>1, <2>2, <2>3, <2>4, <2>5 DEF InTurn
  <2>7. buf \in Words \cup {Exit, Empty}
    BY DEF IInv, TypeOK
  <2>8. (main = "done") = (main' = "done")
    BY <1>4 DEF PostSem1
  <2>9. Service!Receive
    BY <2>1, <2>2, <2>3, <2>7, <2>8 DEF Service!Receive, Stored
  <2> QED BY <2>6, <2>9 DEF Service!Next
<1>5. CASE WakeUp
  <2>1. Idle /\ main = "sleep" /\ main' = "fgets"
    BY <1>5 DEF WakeUp
  <2>2. UNCHANGED <<mainOnly, buf, sem1, posted>>
    BY <1>5 DEF WakeUp
  <2>3. buf # Exit /\ pth1 = "wait" /\ pth2 = "wait"
    BY <2>1 DEF Idle, InTurn, IInv, MainAhead
  <2>4. Stored
    BY <2>1, <2>3 DEF Idle, InTurn, AtThread1, AtThread2
  <2>5. posted[Len(posted)] = buf
    BY <2>1 DEF InTurn
  <2> QED BY <2>1, <2>2, <2>3, <2>4, <2>5 DEF InTurn, Stored
<1>6. CASE Join
  <2>1. /\ main \in {"join1", "join2"} /\ main' \in {"join2", "done"}
        /\ main' = "done" => pth2 = "done"
        /\ UNCHANGED <<mainOnly, buf, sem1, posted>>
    BY <1>6 DEF Join
  <2>2. InTurn'
    BY <2>1 DEF InTurn, AtThread1, AtThread2, Stored
  <2>3. CASE main' = "done"
    <3>1. Stored /\ posted # <<>> /\ posted[Len(posted)] = Exit
      BY <2>1, <2>3 DEF InTurn, AtThread1, AtThread2, IInv, MainAhead
    <3>2. Service!End
      BY <2>1, <2>3, <3>1 DEF Service!End, Stored
    <3> QED BY <2>2, <3>2 DEF Service!Next
  <2>4. CASE main' # "done"
    BY <2>1, <2>2, <2>4
  <2> QED BY <2>3, <2>4
<1> QED BY <1>1, <1>2, <1>3, <1>4, <1>5, <1>6 DEF Main

\* A thread at work has the buffer to itself.
LEMMA ThreadSeesLine ==
  ASSUME IInv, InTurn, pth1 \in {"count", "post", "check"} \/ pth2 \in {"write", "check"} \/ sem1 # 0 \/ sem2 # 0
  PROVE  /\ main \in {"sleep", "join1", "join2", "done"}
         /\ Seen = {buf}
         /\ AtThread1 \/ AtThread2 \/ Stored
         /\ posted # <<>> /\ posted[Len(posted)] = buf
<1>1. main \in {"sleep", "join1", "join2", "done"}
  BY DEF InTurn, Stored, IInv, TypeOK
<1> QED BY <1>1 DEF InTurn, Seen

\* The first thread's steps are the service's, or it sees nothing.
LEMMA Pth1Serves ==
  ASSUME prompt, IInv, InTurn, Pth1
  PROVE  InTurn' /\ [Service!Next]_(Service!vars)
<1> USE DEF pth1Only, Service!vars, Promised
<1>1. CASE WaitSem1
  BY <1>1, ThreadSeesLine DEF WaitSem1, InTurn, AtThread1, AtThread2, Stored
<1>2. CASE Count
  <2>1. AtThread1 /\ pth1 = "count" /\ pth1' = "post" /\ printed' = Append(printed, buf)
    BY <1>2, ThreadSeesLine DEF Count, AtThread2, Stored
  <2>2. UNCHANGED <<pth1Only, sem1, sem2>>
    BY <1>2 DEF Count
  <2>3. AtThread2'
    BY <2>1, <2>2 DEF AtThread1, AtThread2
  <2>4. InTurn'
    BY <1>2, <2>2, <2>3, ThreadSeesLine DEF InTurn, Count
  <2>5. /\ posted = Append(file, buf) /\ printed = file
        /\ Len(posted) = Len(file) + 1 /\ Len(file) \in Nat /\ posted[Len(file) + 1] = buf
    BY <2>1, LastOfPosted DEF AtThread1, IInv
  <2>6. Len(printed) < Len(posted)
    BY <2>5
  <2>7. Service!Count
    BY <2>1, <2>2, <2>5, <2>6 DEF Service!Count
  <2> QED BY <2>4, <2>7 DEF Service!Next
<1>3. CASE PostSem2
  BY <1>3, ThreadSeesLine DEF PostSem2, InTurn, AtThread1, AtThread2, Stored
<1>4. CASE Check1
  BY <1>4, ThreadSeesLine DEF Check1, InTurn, AtThread1, AtThread2, Stored, IsExit, IInv, MainAhead
<1> QED BY <1>1, <1>2, <1>3, <1>4 DEF Pth1

\* So are the second's.
LEMMA Pth2Serves ==
  ASSUME prompt, IInv, InTurn, Pth2
  PROVE  InTurn' /\ [Service!Next]_(Service!vars)
<1> USE DEF pth2Only, Service!vars, Promised
<1>1. CASE WaitSem2
  BY <1>1, ThreadSeesLine DEF WaitSem2, InTurn, AtThread1, AtThread2, Stored
<1>2. CASE Write
  <2>1. AtThread2 /\ pth2 = "write" /\ pth2' = "check" /\ file' = Append(file, buf)
    BY <1>2, ThreadSeesLine DEF Write, AtThread1, Stored
  <2>2. UNCHANGED <<pth2Only, sem2>>
    BY <1>2 DEF Write
  <2>3. Stored'
    BY <2>1, <2>2 DEF AtThread2, Stored
  <2>4. InTurn'
    BY <1>2, <2>2, <2>3, ThreadSeesLine DEF InTurn, Write
  <2>5. /\ posted = Append(file, buf) /\ printed = posted
        /\ Len(posted) = Len(file) + 1 /\ Len(file) \in Nat /\ posted[Len(file) + 1] = buf
    BY <2>1, LastOfPosted DEF AtThread2, IInv
  <2>6. Len(file) < Len(printed)
    BY <2>5
  <2>7. Service!Store
    BY <2>1, <2>2, <2>5, <2>6 DEF Service!Store
  <2> QED BY <2>4, <2>7 DEF Service!Next
<1>3. CASE Check2
  BY <1>3, ThreadSeesLine DEF Check2, InTurn, AtThread1, AtThread2, Stored, IsExit, IInv, MainAhead
<1> QED BY <1>1, <1>2, <1>3 DEF Pth2

\* In a run in which sleep(1) is long enough, what reaches stdout and result.txt
\* are the user's lines, each at once and in order: dome2.c keeps the promise of
\* its comment (10-13), which WordService states.
THEOREM Implements == Spec => ServesWords
<1> DEFINE Inv == prompt => InTurn
<1>1. IInv /\ Inv /\ [Next]_vars => Inv' /\ [Service!Next]_(Service!vars)
  <2> SUFFICES ASSUME IInv, Inv, [Next]_vars
               PROVE  Inv' /\ [Service!Next]_(Service!vars)
    OBVIOUS
  <2>1. prompt' = prompt
    BY DEF Next, vars, Main, StartCopy, EndCopy, EndOfInput, PostSem1, WakeUp, Join, mainOnly,
           Pth1, WaitSem1, Count, PostSem2, Check1, pth1Only,
           Pth2, WaitSem2, Write, Check2, pth2Only
  <2>2. CASE ~prompt
    BY <2>1, <2>2 DEF Service!vars, Promised
  <2>3. CASE UNCHANGED vars
    BY <2>3 DEF vars, Service!vars, Promised, InTurn, AtThread1, AtThread2, Stored
  <2>4. CASE prompt /\ Next
    BY <2>4, MainServes, Pth1Serves, Pth2Serves DEF Next
  <2> QED BY <2>2, <2>3, <2>4
<1>2. Init => Inv /\ Service!Init
  BY InitInTurn
<1> QED BY <1>2, Invariance, <1>1, PTL DEF Spec, ServesWords, Service!Spec
=============================================================================
