--------------------------- MODULE LogFiles_proofs --------------------------
(***************************************************************************)
(* Proofs about the rolling file appenders.  The size-based one: its       *)
(* backups are in order after any failure and any kill, it keeps the       *)
(* promise of LogStore, and as many events as its settings say.  The daily *)
(* one: its files are in order, if nothing fails an event is in the file   *)
(* of its day, and the files of the days to keep are kept.                 *)
(***************************************************************************)
EXTENDS RollingFileAppender, DailyRollingFileAppender, SequenceTheorems, FiniteSetTheorems,
        WellFoundedInduction, TLAPS

allVars == <<fileVars, rollVars>>

TypeInv ==
  /\ present \subseteq FileNames
  /\ data \in [FileNames -> SUBSET (1 .. logged)]
  /\ \A n \in FileNames \ present : data[n] = {}
  /\ fd \in {FileName, Closed}
  /\ fd = FileName => FileName \in present
  /\ append \in BOOLEAN /\ running \in BOOLEAN
  /\ logged \in Nat /\ whole \in BOOLEAN
  /\ configured \in Indexes
  /\ maxBackupIndex \in Indexes \cup {1}

RollInv ==
  /\ roll \in [at : {"no", "remove", "rename", "open"}, i : Nat]
  /\ roll.at \in {"remove", "rename"} => roll.i \in 1 .. maxBackupIndex
  /\ ~running => roll = AtRest
  /\ roll.at # "no" => fd = Closed

\* As long as nothing failed: only the file and the backups in use hold events,
\* and the rename that is next overwrites none unless it is of the last backup.
WholeInv ==
  whole =>
    /\ maxBackupIndex = AtLeastOne(configured)
    /\ \A n \in FileNames : data[n] # {} =>
         n = FileName \/ \E i \in 1 .. maxBackupIndex : n = Backup(i)
    /\ roll.at = "rename" /\ roll.i < maxBackupIndex => data[Backup(roll.i)] = {}
    /\ roll.at = "remove" => roll.i = maxBackupIndex

IInv == TypeInv /\ RollInv /\ BackupsInOrder /\ WholeInv

-----------------------------------------------------------------------------

\* The names rollOver() makes are backup names, each for one index.
LEMMA BackupFacts ==
  ASSUME maxBackupIndex \in Indexes \cup {1}, NEW i \in 1 .. maxBackupIndex
  PROVE  /\ Backup(i) \in FileNames /\ Backup(i) \in BackupNames
         /\ Backup(i)[1] = Digits(maxBackupIndex) /\ Backup(i)[2] = i
         /\ Backup(i) # FileName
  BY BackupAssumption DEF Backup, BackupNames

-----------------------------------------------------------------------------
(* One step at a time. *)

\* open() with or without O_APPEND: what it makes and what it truncates.
LEMMA OpenFacts ==
  ASSUME TypeInv, NEW app \in BOOLEAN, Open(app)
  PROVE  /\ present' \subseteq FileNames /\ fd' = FileName /\ FileName \in present'
         /\ data' \in [FileNames -> SUBSET (1 .. logged)]
         /\ \A n \in FileNames \ present' : data'[n] = {}
         /\ \A n \in FileNames : data'[n] \subseteq data[n]
         /\ Spares(app) => data' = data
<1>1. CASE app
  BY <1>1, FilesAssumption DEF TypeInv, Open, Spares
<1>2. CASE ~app
  <2>1. data' = [data EXCEPT ![FileName] = {}]
    BY <1>2 DEF Open
  <2>2. Spares(app) => data' = data
    BY <1>2, <2>1, FilesAssumption DEF TypeInv, Spares
  <2> QED BY <2>1, <2>2, FilesAssumption DEF TypeInv, Open
<1> QED BY <1>1, <1>2

\* Losing events does not disturb the order, nor where events are.
LEMMA ShrinkFacts ==
  ASSUME BackupsInOrder, FileName \in FileNames,
         \A n \in FileNames : data'[n] \subseteq data[n]
  PROVE  BackupsInOrder'
<1>1. \A n \in BackupNames : n \in FileNames
  BY DEF BackupNames
<1> QED BY <1>1 DEF BackupsInOrder

\* The constructor opens the file.
LEMMA ConstructStep == IInv /\ ConstructRolling => IInv'
<1> SUFFICES ASSUME IInv, ConstructRolling PROVE IInv'
  OBVIOUS
<1>1. /\ present' \subseteq FileNames /\ fd' \in {FileName, Closed}
      /\ fd' = FileName => FileName \in present'
      /\ data' \in [FileNames -> SUBSET (1 .. logged)]
      /\ \A n \in FileNames \ present' : data'[n] = {}
      /\ \A n \in FileNames : data'[n] \subseteq data[n]
  <2>1. CASE Open(append')
    BY <2>1, OpenFacts DEF IInv, ConstructRolling, Construct
  <2>2. CASE UNCHANGED <<present, data>> /\ fd' = Closed
    BY <2>2, FilesAssumption DEF IInv, TypeInv
  <2> QED BY <2>1, <2>2 DEF ConstructRolling, Construct
<1>2. whole' => whole /\ data' = data
  <2>1. CASE Open(append') /\ whole' = (whole /\ Spares(append'))
    <3>1. append' \in BOOLEAN
      BY DEF ConstructRolling, Construct
    <3> QED BY <2>1, <3>1, OpenFacts DEF IInv
  <2> QED BY <2>1 DEF ConstructRolling, Construct
<1>3. TypeInv'
  <2>1. AtLeastOne(configured) \in Indexes \cup {1}
    BY DEF IInv, TypeInv, AtLeastOne
  <2>2. whole' \in BOOLEAN
    BY DEF IInv, TypeInv, ConstructRolling, Construct, Spares
  <2> QED BY <1>1, <2>1, <2>2 DEF IInv, TypeInv, ConstructRolling, Construct
<1>4. RollInv'
  <2>1. roll = AtRest /\ roll' = roll
    BY DEF IInv, RollInv, ConstructRolling, Construct
  <2> QED BY <2>1 DEF RollInv, AtRest
<1>5. BackupsInOrder'
  BY <1>1, ShrinkFacts, FilesAssumption DEF IInv
<1>6. WholeInv'
  <2> SUFFICES ASSUME whole' PROVE WholeInv!2'
    BY DEF WholeInv
  <2>1. maxBackupIndex' = maxBackupIndex
    BY <1>2 DEF IInv, WholeInv, ConstructRolling
  <2> QED BY <1>2, <2>1 DEF IInv, WholeInv, ConstructRolling, Backup
<1> QED BY <1>3, <1>4, <1>5, <1>6 DEF IInv

\* The setters change the width of the index and when to roll, and no file.
LEMMA SetterStep == IInv /\ (setMaxBackupIndex \/ setMaximumFileSize) => IInv'
<1> SUFFICES ASSUME IInv, setMaxBackupIndex \/ setMaximumFileSize PROVE IInv'
  OBVIOUS
<1>1. TypeInv'
  BY DEF IInv, TypeInv, setMaxBackupIndex, setMaximumFileSize
<1>2. RollInv'
  BY DEF IInv, RollInv, setMaxBackupIndex, setMaximumFileSize, AtRest
<1>3. BackupsInOrder' /\ WholeInv'
  BY DEF IInv, BackupsInOrder, WholeInv, setMaxBackupIndex, setMaximumFileSize
<1> QED BY <1>1, <1>2, <1>3 DEF IInv

\* What is written is later than everything there.
LEMMA WriteFacts ==
  ASSUME TypeInv, Write
  PROVE  /\ logged' = logged + 1 /\ logged' \in Nat /\ whole' \in BOOLEAN
         /\ data' \in [FileNames -> SUBSET (1 .. logged')]
         /\ \A n \in FileNames \ {FileName} : data'[n] = data[n]
         /\ data'[FileName] \subseteq data[FileName] \cup {logged'}
         /\ fd # FileName => data' = data
         /\ whole' => whole /\ data' = IF fd = FileName
                         THEN [data EXCEPT ![FileName] = @ \cup {logged'}] ELSE data
<1>1. /\ logged' = logged + 1 /\ logged' \in Nat
      /\ data \in [FileNames -> SUBSET (1 .. logged')]
      /\ fd \in FileNames <=> fd = FileName
  BY FilesAssumption DEF Write, TypeInv
<1>2. CASE data' = data
  <2>1. whole' \in BOOLEAN /\ (whole' => whole)
    <3>1. whole' = whole \/ whole' = FALSE
      BY DEF Write
    <3>2. whole \in BOOLEAN
      BY DEF TypeInv
    <3>3. CASE whole' = whole
      BY <3>2, <3>3
    <3>4. CASE whole' = FALSE
      BY <3>4
    <3> QED BY <3>1, <3>3, <3>4
  <2>2. whole' => data' = IF fd = FileName
                    THEN [data EXCEPT ![FileName] = @ \cup {logged'}] ELSE data
    BY <1>1 DEF Write
  <2> QED BY <1>1, <1>2, <2>1, <2>2
<1>3. CASE data' # data
  <2>1. fd = FileName /\ data' = [data EXCEPT ![FileName] = @ \cup {logged'}] /\ whole' = whole
    BY <1>1, <1>3 DEF Write
  <2> QED BY <1>1, <2>1, FilesAssumption DEF TypeInv
<1> QED BY <1>2, <1>3

\* _append() writes to the open file, or begins to roll over.
LEMMA AppendStep == IInv /\ AppendRolling => IInv'
<1> SUFFICES ASSUME IInv, AppendRolling PROVE IInv'
  OBVIOUS
<1> DEFINE full == fd \in FileNames /\ Cardinality(data'[fd]) >= maxFileSize
<1>1. TypeInv /\ Write
  BY DEF IInv, AppendRolling
<1>2. TypeInv'
  <2>1. fd' \in {FileName, Closed}
    BY DEF IInv, TypeInv, AppendRolling
  <2>2. \A n \in FileNames \ present' : data'[n] = {}
    BY <1>1, WriteFacts, FilesAssumption DEF IInv, TypeInv, AppendRolling
  <2> QED BY <1>1, <2>1, <2>2, WriteFacts DEF TypeInv, AppendRolling
<1>3. /\ roll' \in {roll, Renamed, [at |-> "remove", i |-> maxBackupIndex]}
      /\ maxBackupIndex = 0 => roll'.at # "remove"
      /\ roll' # roll => fd' = Closed
      /\ roll = AtRest /\ running' = running /\ running
      /\ maxBackupIndex' = maxBackupIndex /\ configured' = configured
  BY DEF AppendRolling, AtRest, Renamed
<1>4. maxBackupIndex \in Nat
  BY RollingAssumption DEF IInv, TypeInv
<1>5. RollInv'
  <2>1. CASE roll' = roll
    BY <1>3, <2>1 DEF RollInv, AtRest
  <2>2. CASE roll' # roll
    BY <1>3, <1>4, <2>2 DEF RollInv, AtRest, Renamed
  <2> QED BY <2>1, <2>2
<1>6. BackupsInOrder'
  <2>1. \A n \in BackupNames : n \in FileNames /\ n # FileName /\ data'[n] = data[n]
    BY <1>1, WriteFacts, BackupAssumption DEF BackupNames
  <2>2. \A n \in BackupNames : \A x \in data[n] : x \in Nat /\ x < logged'
    BY <1>1, <2>1, WriteFacts DEF TypeInv
  <2> QED BY <1>1, <2>1, <2>2, WriteFacts DEF IInv, BackupsInOrder
<1>7. WholeInv'
  <2> SUFFICES ASSUME whole' PROVE WholeInv!2'
    BY DEF WholeInv
  <2>1. whole /\ \A n \in FileNames \ {FileName} : data'[n] = data[n]
    BY <1>1, WriteFacts
  <2>2. roll'.at # "rename" /\ (roll'.at = "remove" => roll'.i = maxBackupIndex)
    BY <1>3 DEF AtRest, Renamed
  <2> QED BY <1>3, <2>1, <2>2 DEF IInv, WholeInv, Backup
<1> QED BY <1>2, <1>5, <1>6, <1>7 DEF IInv

\* rollOver() removes the last backup.
LEMMA RemoveStep == IInv /\ RemoveLast => IInv'
<1> SUFFICES ASSUME IInv, RemoveLast PROVE IInv'
  OBVIOUS
<1>1. /\ roll.at = "remove" /\ roll' = [roll EXCEPT !.at = "rename"]
      /\ UNCHANGED <<fd, append, running, logged, whole, configured, maxBackupIndex>>
  BY DEF RemoveLast
<1>2. roll.i \in 1 .. maxBackupIndex /\ maxBackupIndex \in Nat
  BY <1>1, RollingAssumption DEF IInv, RollInv, TypeInv
<1>3. Backup(maxBackupIndex) \in FileNames /\ Backup(maxBackupIndex) # FileName
  BY <1>2, BackupFacts DEF IInv, TypeInv
<1>4. /\ present' \subseteq FileNames
      /\ data' \in [FileNames -> SUBSET (1 .. logged)]
      /\ \A n \in FileNames \ present' : data'[n] = {}
      /\ \A n \in FileNames : data'[n] \subseteq data[n]
      /\ FileName \in present => FileName \in present'
  <2>1. CASE Remove(Backup(maxBackupIndex))
    BY <1>3, <2>1 DEF Remove, IInv, TypeInv
  <2>2. CASE UNCHANGED <<present, data>>
    BY <2>2 DEF IInv, TypeInv
  <2> QED BY <2>1, <2>2 DEF RemoveLast
<1>5. TypeInv'
  BY <1>1, <1>4 DEF IInv, TypeInv
<1>6. RollInv'
  BY <1>1, <1>2 DEF IInv, RollInv, AtRest
<1>7. BackupsInOrder'
  BY <1>4, ShrinkFacts, FilesAssumption DEF IInv
<1>8. WholeInv'
  <2> SUFFICES ASSUME whole' PROVE WholeInv!2'
    BY DEF WholeInv
  <2>1. roll'.at = "rename" /\ roll'.i = maxBackupIndex
    BY <1>1 DEF IInv, WholeInv, RollInv
  <2> QED BY <1>1, <1>2, <1>4, <2>1 DEF IInv, WholeInv, Backup
<1> QED BY <1>5, <1>6, <1>7, <1>8 DEF IInv

\* What the next rename moves where.
Source == IF roll.i > 1 THEN Backup(roll.i - 1) ELSE FileName

\* What a rename() of rollOver() moves, if it succeeds.
LEMMA RenameFacts ==
  ASSUME IInv, RenameNext
  PROVE  /\ roll.i \in 1 .. maxBackupIndex /\ maxBackupIndex \in Nat
         /\ Source \in FileNames /\ Backup(roll.i) \in BackupNames
         /\ Backup(roll.i) \in FileNames /\ Source # Backup(roll.i)
         /\ UNCHANGED <<fd, append, running, logged, configured, maxBackupIndex>>
         /\ fd = Closed /\ running
         /\ whole' \in BOOLEAN
         /\ present' \subseteq FileNames
         /\ data' \in [FileNames -> SUBSET (1 .. logged)]
         /\ \A n \in FileNames \ present' : data'[n] = {}
         /\ \/ data' = data
            \/ /\ data'[Backup(roll.i)] = data[Source]
               /\ data'[Source] = {}
               /\ \A n \in FileNames \ {Source, Backup(roll.i)} : data'[n] = data[n]
         /\ whole' => /\ whole
                      /\ data'[Source] = {}
<1>1. roll.at = "rename" /\ roll.i \in 1 .. maxBackupIndex /\ maxBackupIndex \in Nat
  BY RollingAssumption DEF RenameNext, IInv, RollInv, TypeInv
<1>2. /\ Backup(roll.i) \in FileNames /\ Backup(roll.i) \in BackupNames
      /\ Backup(roll.i)[2] = roll.i /\ Backup(roll.i) # FileName
  BY <1>1, BackupFacts DEF IInv, TypeInv
<1>3. Source \in FileNames /\ Source # Backup(roll.i)
  <2>1. CASE roll.i > 1
    <3>1. roll.i - 1 \in 1 .. maxBackupIndex
      BY <1>1, <2>1
    <3>2. Backup(roll.i - 1) \in FileNames /\ Backup(roll.i - 1)[2] = roll.i - 1
      BY <3>1, BackupFacts DEF IInv, TypeInv
    <3>3. roll.i - 1 # roll.i
      BY <1>1
    <3> QED BY <1>2, <2>1, <3>2, <3>3 DEF Source
  <2>2. CASE ~(roll.i > 1)
    BY <1>2, <2>2, FilesAssumption DEF Source
  <2> QED BY <2>1, <2>2
<1>4. UNCHANGED <<fd, append, running, logged, configured, maxBackupIndex>>
  BY DEF RenameNext
<1>5. fd = Closed /\ running
  BY <1>1 DEF IInv, TypeInv, RollInv, AtRest
<1>6. CASE Rename(Source, Backup(roll.i)) /\ whole' = whole
  <2> DEFINE moved == Moved(present, data, Source, Backup(roll.i))
  <2>1. present' = moved.present /\ data' = moved.data
    BY <1>6 DEF Rename
  <2>2. /\ present \in SUBSET FileNames /\ data \in [FileNames -> SUBSET (1 .. logged)]
        /\ \A n \in FileNames \ present : data[n] = {}
    BY DEF IInv, TypeInv
  <2>3. /\ moved.present \subseteq FileNames
        /\ moved.data \in [FileNames -> SUBSET (1 .. logged)]
        /\ \A n \in FileNames \ moved.present : moved.data[n] = {}
        /\ Source \notin present => moved.data = data
        /\ Source \in present =>
             /\ moved.data[Backup(roll.i)] = data[Source]
             /\ moved.data[Source] = {}
             /\ \A n \in FileNames \ {Source, Backup(roll.i)} : moved.data[n] = data[n]
    <3>1. CASE Source \notin present
      BY <2>2, <3>1 DEF Moved
    <3>2. CASE Source \in present
      BY <1>2, <1>3, <2>2, <3>2 DEF Moved
    <3> QED BY <3>1, <3>2
  <2>4. whole' \in BOOLEAN /\ (whole' => whole)
    <3>1. whole \in BOOLEAN
      BY DEF IInv, TypeInv
    <3>2. whole' = whole
      BY <1>6
    <3> QED BY <3>1, <3>2
  <2>5. data'[Source] = {}
    BY <1>3, <2>1, <2>2, <2>3
  <2> HIDE DEF moved
  <2>6. /\ present' \subseteq FileNames
        /\ data' \in [FileNames -> SUBSET (1 .. logged)]
        /\ \A n \in FileNames \ present' : data'[n] = {}
    BY <2>1, <2>3
  <2>7. \/ data' = data
        \/ /\ data'[Backup(roll.i)] = data[Source]
           /\ \A n \in FileNames \ {Source, Backup(roll.i)} : data'[n] = data[n]
    BY <2>1, <2>3
  <2> QED BY <1>1, <1>2, <1>3, <1>4, <1>5, <2>4, <2>5, <2>6, <2>7
<1>7. CASE UNCHANGED <<present, data>> /\ whole' = FALSE
  <2>1. /\ present' \subseteq FileNames
        /\ data' \in [FileNames -> SUBSET (1 .. logged)]
        /\ \A n \in FileNames \ present' : data'[n] = {}
    BY <1>7 DEF IInv, TypeInv
  <2> QED BY <1>1, <1>2, <1>3, <1>4, <1>5, <1>7, <2>1
<1> QED BY <1>6, <1>7 DEF RenameNext, Source

\* rollOver() renames the next file.
LEMMA RenameStep == IInv /\ RenameNext => IInv'
<1> SUFFICES ASSUME IInv, RenameNext PROVE IInv'
  OBVIOUS
<1> DEFINE from == Source
           to == Backup(roll.i)
<1>1. /\ roll.i \in 1 .. maxBackupIndex /\ maxBackupIndex \in Nat
      /\ from \in FileNames /\ to \in BackupNames /\ to \in FileNames /\ from # to
      /\ UNCHANGED <<fd, append, running, logged, configured, maxBackupIndex>>
      /\ fd = Closed /\ running
      /\ whole' \in BOOLEAN
      /\ present' \subseteq FileNames
      /\ data' \in [FileNames -> SUBSET (1 .. logged)]
      /\ \A n \in FileNames \ present' : data'[n] = {}
      /\ \/ data' = data
         \/ /\ data'[to] = data[from]
            /\ data'[from] = {}
            /\ \A n \in FileNames \ {from, to} : data'[n] = data[n]
      /\ whole' => whole /\ data'[from] = {}
  BY RenameFacts
<1>2. /\ to[1] = Digits(maxBackupIndex) /\ to[2] = roll.i /\ to # FileName
      /\ \/ from = FileName /\ roll.i = 1
         \/ /\ roll.i - 1 \in 1 .. maxBackupIndex
            /\ from = Backup(roll.i - 1) /\ from \in BackupNames
            /\ from[1] = Digits(maxBackupIndex) /\ from[2] = roll.i - 1
  <2>1. to[1] = Digits(maxBackupIndex) /\ to[2] = roll.i /\ to # FileName
    BY <1>1, BackupFacts DEF IInv, TypeInv
  <2>2. CASE roll.i > 1
    <3>1. roll.i - 1 \in 1 .. maxBackupIndex
      BY <1>1, <2>2
    <3> QED BY <2>1, <2>2, <3>1, BackupFacts DEF IInv, TypeInv, Source
  <2>3. CASE ~(roll.i > 1)
    BY <1>1, <2>1, <2>3 DEF Source
  <2> QED BY <2>2, <2>3
<1> HIDE DEF from, to
<1>3. TypeInv'
  BY <1>1, FilesAssumption DEF IInv, TypeInv
<1>4. RollInv'
  <2>1. roll' = IF roll.i > 1 THEN [roll EXCEPT !.i = @ - 1] ELSE Renamed
    BY DEF RenameNext
  <2>2. roll.at = "rename"
    BY DEF RenameNext
  <2> QED BY <1>1, <2>1, <2>2 DEF IInv, RollInv, Renamed
<1>5. BackupsInOrder'
  <2> USE FilesAssumption, BackupAssumption
  <2>1. CASE data' = data
    BY <2>1 DEF IInv, BackupsInOrder
  <2>2. CASE /\ data'[to] = data[from]
             /\ data'[from] = {}
             /\ \A n \in FileNames \ {from, to} : data'[n] = data[n]
    <3>1. \A n \in BackupNames : /\ n \in FileNames /\ n # FileName
                                 /\ n[2] \in Nat /\ n[2] # 0
      BY DEF BackupNames
    <3>2. \A n \in BackupNames : n[1] = to[1] /\ n[2] = to[2] => n = to
      BY <1>1 DEF BackupNames
    <3>3. ASSUME NEW n \in BackupNames
          PROVE  \A x \in data'[n], y \in data'[FileName] : x < y
      BY <1>1, <1>2, <2>2, <3>1, <3>3 DEF IInv, BackupsInOrder
    <3>4. ASSUME NEW n \in BackupNames, NEW m \in BackupNames, n[1] = m[1], n[2] > m[2]
          PROVE  \A x \in data'[n], y \in data'[m] : x < y
      <4>1. CASE n = to
        <5>1. m # to
          BY <1>1, <3>1, <3>4, <4>1
        <5>2. m # from => data'[m] = data[m] /\ from # FileName
          BY <1>1, <1>2, <2>2, <3>1, <3>4, <4>1, <5>1
        <5>3. m # from => from[1] = m[1] /\ from[2] > m[2] /\ from \in BackupNames
          <6> SUFFICES ASSUME m # from
                       PROVE  from[1] = m[1] /\ from[2] > m[2] /\ from \in BackupNames
            OBVIOUS
          <6>1. from = Backup(roll.i - 1) /\ from \in BackupNames
                /\ from[1] = m[1] /\ from[2] = roll.i - 1 /\ m[2] < roll.i
            BY <1>2, <3>4, <4>1, <5>2, <3>1
          <6>2. m[1] = from[1] /\ m[2] = from[2] => m = from
            BY <6>1 DEF BackupNames
          <6> QED BY <1>1, <3>1, <6>1, <6>2
        <5> QED BY <2>2, <4>1, <5>2, <5>3 DEF IInv, BackupsInOrder
      <4>2. CASE n # to /\ m = to
        <5>1. n # from => data'[n] = data[n]
          BY <2>2, <3>1, <4>2
        <5>2. CASE from = FileName
          BY <2>2, <3>1, <4>2, <5>1, <5>2 DEF IInv, BackupsInOrder
        <5>3. CASE from # FileName
          <6>1. from \in BackupNames /\ from[1] = n[1] /\ n[2] > from[2]
            BY <1>1, <1>2, <3>1, <3>4, <4>2, <5>3
          <6> QED BY <2>2, <4>2, <5>1, <6>1 DEF IInv, BackupsInOrder
        <5> QED BY <5>2, <5>3
      <4>3. CASE n # to /\ m # to
        <5>1. /\ n # from => data'[n] = data[n]
              /\ m # from => data'[m] = data[m]
          BY <2>2, <3>1, <4>3
        <5> QED BY <2>2, <3>4, <5>1 DEF IInv, BackupsInOrder
      <4> QED BY <4>1, <4>2, <4>3
    <3> QED BY <3>3, <3>4 DEF BackupsInOrder
  <2> QED BY <1>1, <2>1, <2>2
<1>6. WholeInv'
  <2> SUFFICES ASSUME whole' PROVE WholeInv!2'
    BY DEF WholeInv
  <2>1. /\ whole /\ data'[from] = {}
        /\ \A n \in FileNames \ {to} : data'[n] \subseteq data[n]
    BY <1>1
  <2>2. \A n \in FileNames : data'[n] # {} =>
          n = FileName \/ \E i \in 1 .. maxBackupIndex : n = Backup(i)
    BY <1>1, <2>1 DEF IInv, WholeInv, to
  <2>3. roll'.at = "rename" => from = Backup(roll'.i)
    <3>1. roll' = IF roll.i > 1 THEN [roll EXCEPT !.i = @ - 1] ELSE Renamed
      BY DEF RenameNext
    <3> QED BY <1>1, <3>1 DEF IInv, RollInv, Renamed, from, Source
  <2>4. roll'.at # "remove"
    <3>1. /\ roll' = IF roll.i > 1 THEN [roll EXCEPT !.i = @ - 1] ELSE Renamed
          /\ roll.at = "rename"
      BY DEF RenameNext
    <3> QED BY <3>1 DEF IInv, RollInv, Renamed
  <2> QED BY <1>1, <2>1, <2>2, <2>3, <2>4 DEF IInv, WholeInv, Backup
<1> QED BY <1>3, <1>4, <1>5, <1>6 DEF IInv

\* The three steps that only open, truncate or close the file.
LEMMA FileStep ==
  ASSUME IInv,
         present' \subseteq FileNames, fd' \in {FileName, Closed},
         fd' = FileName => FileName \in present',
         data' \in [FileNames -> SUBSET (1 .. logged)],
         \A n \in FileNames \ present' : data'[n] = {},
         \A n \in FileNames : data'[n] \subseteq data[n],
         append' \in BOOLEAN, running' \in BOOLEAN, whole' \in BOOLEAN,
         whole' => whole,
         UNCHANGED <<logged, configured, maxBackupIndex>>,
         roll' = AtRest
  PROVE  IInv'
<1>1. TypeInv'
  BY DEF IInv, TypeInv
<1>2. RollInv'
  BY DEF RollInv, AtRest
<1>3. BackupsInOrder'
  BY ShrinkFacts, FilesAssumption DEF IInv
<1>4. WholeInv'
  BY DEF IInv, WholeInv, Backup, AtRest
<1> QED BY <1>1, <1>2, <1>3, <1>4 DEF IInv

\* rollOver() opens the file again.
LEMMA OpenStep == IInv /\ OpenNext => IInv'
<1> SUFFICES ASSUME IInv, OpenNext PROVE IInv'
  OBVIOUS
<1>1. /\ UNCHANGED <<append, running, logged, configured, maxBackupIndex>>
      /\ roll' = AtRest /\ append \in BOOLEAN /\ running \in BOOLEAN /\ whole \in BOOLEAN
  BY DEF OpenNext, IInv, TypeInv
<1>2. CASE Open(append) /\ whole' = (whole /\ Spares(append))
  <2>1. whole' \in BOOLEAN
    BY <1>1, <1>2 DEF Spares
  <2>2. whole' => whole
    BY <1>2
  <2> QED BY <1>1, <1>2, <2>1, <2>2, OpenFacts, FileStep DEF IInv
<1>3. CASE UNCHANGED <<present, data>> /\ fd' = Closed /\ whole' = FALSE
  <2>1. Closed # FileName
    BY FilesAssumption
  <2> QED BY <1>1, <1>3, <2>1, FileStep DEF IInv, TypeInv
<1> QED BY <1>2, <1>3 DEF OpenNext

\* A crash loses the appender and no file.
LEMMA CrashStep == IInv /\ CrashRolling => IInv'
<1> SUFFICES ASSUME IInv, CrashRolling PROVE IInv'
  OBVIOUS
<1>1. /\ UNCHANGED <<present, data, append, logged, whole, configured, maxBackupIndex>>
      /\ roll' = AtRest /\ fd' = Closed /\ running' = FALSE
  BY DEF CrashRolling, Crash
<1>2. Closed # FileName /\ whole \in BOOLEAN /\ append \in BOOLEAN
  BY FilesAssumption DEF IInv, TypeInv
<1>3. whole' \in BOOLEAN /\ (whole' => whole)
  <2>1. whole' = whole
    BY <1>1
  <2> QED BY <1>2, <2>1
<1> QED BY <1>1, <1>2, <1>3, FileStep DEF IInv, TypeInv

\* close() and reopen() of the appender.
LEMMA CallStep == IInv /\ CallRolling => IInv'
<1> SUFFICES ASSUME IInv, CallRolling PROVE IInv'
  OBVIOUS
<1>1. /\ roll' = AtRest /\ Closed # FileName
      /\ UNCHANGED <<running, logged, configured, maxBackupIndex>>
      /\ whole \in BOOLEAN /\ append \in BOOLEAN /\ running \in BOOLEAN
  BY FilesAssumption DEF CallRolling, close, reopen, setAppend, rollVars, IInv, TypeInv
<1>2. append' \in BOOLEAN
  BY <1>1 DEF CallRolling, close, reopen, setAppend
<1>3. whole' \in BOOLEAN
  BY <1>1 DEF CallRolling, close, reopen, setAppend, Spares
<1>4. whole' => whole
  <2>1. whole' = whole \/ whole' = (whole /\ Spares(append))
    BY DEF CallRolling, close, reopen, setAppend
  <2> QED BY <1>1, <2>1 DEF Spares
<1>5. CASE Open(append)
  BY <1>1, <1>2, <1>3, <1>4, <1>5, OpenFacts, FileStep DEF IInv
<1>6. CASE UNCHANGED <<present, data>> /\ (fd' = fd \/ fd' = Closed)
  BY <1>1, <1>2, <1>3, <1>4, <1>6, FileStep DEF IInv, TypeInv
<1>7. Open(append) \/ (UNCHANGED <<present, data>> /\ (fd' = fd \/ fd' = Closed))
  BY DEF CallRolling, close, reopen, setAppend
<1> QED BY <1>5, <1>6, <1>7

\* There is no appender, and no file.
LEMMA RollingInitInv == RollingInit => IInv
<1> SUFFICES ASSUME RollingInit PROVE IInv
  OBVIOUS
<1>1. TypeInv
  BY FilesAssumption DEF RollingInit, FileInit, TypeInv, AtLeastOne
<1>2. RollInv /\ BackupsInOrder /\ WholeInv
  <2>1. \A n \in FileNames : data[n] = {}
    BY DEF RollingInit, FileInit
  <2>2. \A n \in BackupNames : n \in FileNames
    BY DEF BackupNames
  <2>3. RollInv
    BY FilesAssumption DEF RollingInit, FileInit, RollInv, AtRest
  <2> QED BY <2>1, <2>2, <2>3, FilesAssumption DEF RollingInit, BackupsInOrder, WholeInv, AtRest
<1> QED BY <1>1, <1>2 DEF IInv

\* No step leaves two files with an event, or out of order.
LEMMA RollingNextInv == IInv /\ [RollingNext]_allVars => IInv'
<1>1. IInv /\ UNCHANGED allVars => IInv'
  BY DEF IInv, TypeInv, RollInv, BackupsInOrder, WholeInv, Backup, allVars, fileVars, rollVars
<1> QED BY <1>1, ConstructStep, SetterStep, AppendStep, RemoveStep, RenameStep, OpenStep,
           CrashStep, CallStep DEF RollingNext

-----------------------------------------------------------------------------

\* The order of the backups, for every number of backups, every size and any
\* number of failures, kills and restarts.
THEOREM BackupsAlwaysInOrder == RollingSpec => []BackupsInOrder
<1>1. IInv => BackupsInOrder
  BY DEF IInv
<1> QED BY <1>1, RollingInitInv, RollingNextInv, PTL DEF RollingSpec, allVars

-----------------------------------------------------------------------------
(* The refinement. *)

\* What is kept is what some file has.
LEMMA KeptFacts == \A e : e \in Kept <=> \E n \in FileNames : e \in data[n]
BY DEF Kept

\* A step that leaves the events where they are is an opening or a closing.
LEMMA SameEvents ==
  ASSUME data' = data, logged' = logged, whole' = whole
  PROVE  store!Next
<1>1. Kept' = Kept
  BY DEF Kept
<1>2. (fd \in FileNames)' \in BOOLEAN
  OBVIOUS
<1>3. store!OpenOrClose
  BY <1>1, <1>2 DEF store!OpenOrClose
<1> QED BY <1>3 DEF store!Next

\* A step that loses events, on record as a failure.
LEMMA LostEvents ==
  ASSUME \A n \in FileNames : data'[n] \subseteq data[n], logged' = logged, whole' = FALSE
  PROVE  store!Next
<1>1. Kept' \subseteq Kept
  BY DEF Kept
<1>2. (fd \in FileNames)' \in BOOLEAN
  OBVIOUS
<1>3. store!Damage
  BY <1>1, <1>2 DEF store!Damage
<1> QED BY <1>3 DEF store!Next

\* An event that is appended is one the store takes.
LEMMA AppendRefines == IInv /\ AppendRolling => store!Next
<1> SUFFICES ASSUME IInv, AppendRolling PROVE store!Next
  OBVIOUS
<1>1. TypeInv /\ Write
  BY DEF IInv, AppendRolling
<1>2. (fd \in FileNames)' \in BOOLEAN
  OBVIOUS
<1>3. fd \in FileNames <=> fd = FileName
  BY <1>1, FilesAssumption DEF TypeInv
<1>4. CASE UNCHANGED <<whole, used>> /\ data' = IF fd \in FileNames
                      THEN [data EXCEPT ![fd] = @ \cup {logged'}] ELSE data
  <2>1. Kept' = IF fd \in FileNames THEN Kept \cup {logged'} ELSE Kept
    <3>1. CASE fd \in FileNames
      <4>1. /\ fd \in FileNames /\ data \in [FileNames -> SUBSET (1 .. logged)]
            /\ data' = [data EXCEPT ![fd] = @ \cup {logged'}]
        BY <1>1, <1>4, <3>1 DEF TypeInv
      <4>2. \A e : e \in Kept' <=> e \in Kept \/ e = logged'
        BY <4>1 DEF Kept
      <4> QED BY <3>1, <4>2
    <3>2. CASE fd \notin FileNames
      BY <1>4, <3>2 DEF Kept
    <3> QED BY <3>1, <3>2
  <2>2. logged' = logged + 1 /\ whole' = whole
    BY <1>1, <1>4 DEF Write
  <2>3. store!Log
    BY <1>2, <2>1, <2>2 DEF store!Log
  <2> QED BY <2>3 DEF store!Next
<1>5. CASE whole' = FALSE /\ data' = data
  <2>1. Kept' = Kept
    BY <1>5 DEF Kept
  <2>2. logged' = logged + 1
    BY <1>1 DEF Write
  <2>3. store!Damage
    BY <1>2, <1>5, <2>1, <2>2 DEF store!Damage
  <2> QED BY <2>3 DEF store!Next
<1> QED BY <1>1, <1>4, <1>5 DEF Write

\* The last backup's events are the ones the store drops.
LEMMA RemoveRefines == IInv /\ RemoveLast => store!Next
<1> SUFFICES ASSUME IInv, RemoveLast PROVE store!Next
  OBVIOUS
<1> DEFINE last == Backup(maxBackupIndex)
<1>1. roll.at = "remove" /\ logged' = logged /\ whole' = whole /\ whole \in BOOLEAN
  BY DEF RemoveLast, IInv, TypeInv
<1>2. maxBackupIndex \in 1 .. maxBackupIndex /\ maxBackupIndex \in Nat
  BY <1>1, RollingAssumption DEF IInv, RollInv, TypeInv
<1>3. /\ last \in FileNames /\ last \in BackupNames /\ last # FileName
      /\ last[1] = Digits(maxBackupIndex) /\ last[2] = maxBackupIndex
  BY <1>2, BackupFacts DEF IInv, TypeInv
<1> HIDE DEF last
<1>4. CASE UNCHANGED <<present, data>>
  BY <1>1, <1>4, SameEvents
<1>5. CASE Remove(last)
  <2>1. data' = [data EXCEPT ![last] = {}] /\ data \in [FileNames -> SUBSET (1 .. logged)]
    BY <1>5 DEF Remove, IInv, TypeInv
  <2>2. CASE ~whole
    <3>1. whole' = FALSE
      BY <1>1, <2>2
    <3> QED BY <1>1, <1>3, <2>1, <3>1, LostEvents
  <2>3. CASE whole
    <3>1. \A n \in FileNames \ {last} : \A x \in data[last], y \in data[n] : x < y
      <4> SUFFICES ASSUME NEW n \in FileNames \ {last}, NEW x \in data[last], NEW y \in data[n]
                   PROVE  x < y
        OBVIOUS
      <4>1. CASE n = FileName
        BY <1>3, <4>1 DEF IInv, BackupsInOrder
      <4>2. CASE n # FileName
        <5>1. PICK i \in 1 .. maxBackupIndex : n = Backup(i)
          BY <2>3, <4>2 DEF IInv, WholeInv
        <5>2. n \in BackupNames /\ n[1] = Digits(maxBackupIndex) /\ n[2] = i
          BY <5>1, BackupFacts DEF IInv, TypeInv
        <5>3. i < maxBackupIndex
          BY <1>2, <5>1 DEF last
        <5> QED BY <1>3, <5>2, <5>3 DEF IInv, BackupsInOrder
      <4> QED BY <4>1, <4>2
    <3>2. Kept' \subseteq Kept /\ \A gone \in Kept \ Kept' : gone \in data[last]
      BY <1>3, <2>1 DEF Kept
    <3>3. \A rest \in Kept' : \E n \in FileNames \ {last} : rest \in data[n]
      BY <1>3, <2>1 DEF Kept
    <3>4. (fd \in FileNames)' = (fd \in FileNames)
      BY DEF RemoveLast
    <3>5. store!ForgetOldest
      BY <1>1, <3>1, <3>2, <3>3, <3>4 DEF store!ForgetOldest
    <3> QED BY <3>5 DEF store!Next
  <2> QED BY <2>2, <2>3
<1> QED BY <1>4, <1>5 DEF RemoveLast, last

\* A rename() loses nothing, or what it writes over.
LEMMA RenameRefines == IInv /\ RenameNext => store!Next
<1> SUFFICES ASSUME IInv, RenameNext PROVE store!Next
  OBVIOUS
<1> DEFINE from == Source
           to == Backup(roll.i)
<1>1. /\ roll.i \in 1 .. maxBackupIndex /\ maxBackupIndex \in Nat
      /\ from \in FileNames /\ to \in FileNames /\ to \in BackupNames /\ from # to
      /\ logged' = logged /\ fd' = fd
      /\ data \in [FileNames -> SUBSET (1 .. logged)]
      /\ data' \in [FileNames -> SUBSET (1 .. logged)]
      /\ \/ data' = data
         \/ /\ data'[to] = data[from]
            /\ data'[from] = {}
            /\ \A n \in FileNames \ {from, to} : data'[n] = data[n]
      /\ whole' => whole
  BY RenameFacts DEF IInv, TypeInv
<1>2. roll.at = "rename" /\ to[1] = Digits(maxBackupIndex) /\ to[2] = roll.i
  BY <1>1, BackupFacts DEF RenameNext, IInv, TypeInv
<1> HIDE DEF from, to
<1>3. CASE whole' = FALSE
  <2>1. Kept' \subseteq Kept
    BY <1>1 DEF Kept
  <2>2. store!Damage
    BY <1>1, <1>3, <2>1 DEF store!Damage
  <2> QED BY <2>2 DEF store!Next
<1>4. CASE whole' # FALSE /\ data' = data
  BY <1>1, <1>4, SameEvents DEF RenameNext
<1>5. CASE whole' # FALSE /\ data' # data
  <2>1. /\ data'[to] = data[from] /\ data'[from] = {}
        /\ \A n \in FileNames \ {from, to} : data'[n] = data[n]
        /\ whole' = whole
    BY <1>1, <1>5 DEF RenameNext
  <2>2. whole
    <3>1. whole \in BOOLEAN
      BY DEF IInv, TypeInv
    <3> QED BY <1>5, <2>1, <3>1
  <2>3. Kept' \subseteq Kept
    BY <1>1, <2>1 DEF Kept
  <2>4. \A gone \in Kept \ Kept' : gone \in data[to]
    BY <1>1, <2>1 DEF Kept
  <2>5. CASE roll.i < maxBackupIndex
    <3>1. data[to] = {}
      BY <1>2, <2>2, <2>5 DEF IInv, WholeInv, to
    <3>2. Kept' = Kept
      BY <2>3, <2>4, <3>1
    <3>3. store!OpenOrClose
      BY <1>1, <2>1, <3>2 DEF store!OpenOrClose
    <3> QED BY <3>3 DEF store!Next
  <2>6. CASE roll.i = maxBackupIndex
    <3>1. \A n \in FileNames \ {to} : \A x \in data[to], y \in data[n] : x < y
      <4> SUFFICES ASSUME NEW n \in FileNames \ {to}, NEW x \in data[to], NEW y \in data[n]
                   PROVE  x < y
        OBVIOUS
      <4>1. CASE n = FileName
        BY <1>1, <4>1 DEF IInv, BackupsInOrder
      <4>2. CASE n # FileName
        <5>1. PICK i \in 1 .. maxBackupIndex : n = Backup(i)
          BY <2>2, <4>2 DEF IInv, WholeInv
        <5>2. n \in BackupNames /\ n[1] = Digits(maxBackupIndex) /\ n[2] = i
          BY <5>1, BackupFacts DEF IInv, TypeInv
        <5>3. i < maxBackupIndex
          BY <1>1, <2>6, <5>1 DEF to
        <5> QED BY <1>1, <1>2, <2>6, <5>2, <5>3 DEF IInv, BackupsInOrder
      <4> QED BY <4>1, <4>2
    <3>2. \A rest \in Kept' : \E n \in FileNames \ {to} : rest \in data[n]
      BY <1>1, <2>1 DEF Kept
    <3>3. store!ForgetOldest
      BY <1>1, <2>1, <2>3, <2>4, <3>1, <3>2 DEF store!ForgetOldest
    <3> QED BY <3>3 DEF store!Next
  <2> QED BY <1>1, <2>5, <2>6
<1> QED BY <1>3, <1>4, <1>5

\* open(), wherever it is called.
LEMMA OpenRefines ==
  ASSUME TypeInv, NEW app \in BOOLEAN, logged' = logged,
         Open(app) /\ whole' = (whole /\ Spares(app))
  PROVE  store!Next
<1>1. whole \in BOOLEAN /\ Spares(app) \in BOOLEAN
  BY DEF TypeInv, Spares
<1>2. CASE whole' = FALSE
  BY <1>2, OpenFacts, LostEvents
<1>3. CASE whole' # FALSE
  <2>1. whole /\ Spares(app)
    BY <1>1, <1>3
  <2>2. whole' = whole
    BY <2>1
  <2> QED BY <2>1, <2>2, OpenFacts, SameEvents
<1> QED BY <1>2, <1>3

\* A constructor is a step of the store, which may truncate.
LEMMA ConstructRefines == IInv /\ ConstructRolling => store!Next
<1> SUFFICES ASSUME IInv, ConstructRolling PROVE store!Next
  OBVIOUS
<1>1. append' \in BOOLEAN /\ logged' = logged
  BY DEF ConstructRolling, Construct
<1>2. CASE Open(append') /\ whole' = (whole /\ Spares(append'))
  BY <1>1, <1>2, OpenRefines DEF IInv
<1>3. CASE whole' = FALSE /\ data' = data
  BY <1>1, <1>3, LostEvents
<1> QED BY <1>2, <1>3 DEF ConstructRolling, Construct

\* So is the opening at the end of rollOver().
LEMMA OpenNextRefines == IInv /\ OpenNext => store!Next
<1> SUFFICES ASSUME IInv, OpenNext PROVE store!Next
  OBVIOUS
<1>1. append \in BOOLEAN /\ logged' = logged
  BY DEF IInv, TypeInv, OpenNext
<1>2. CASE Open(append) /\ whole' = (whole /\ Spares(append))
  BY <1>1, <1>2, OpenRefines DEF IInv
<1>3. CASE whole' = FALSE /\ data' = data
  BY <1>1, <1>3, LostEvents
<1> QED BY <1>2, <1>3 DEF OpenNext

\* What changes no file is a step of the store that changes nothing.
LEMMA CallRefines ==
  IInv /\ (CallRolling \/ CrashRolling \/ setMaxBackupIndex \/ setMaximumFileSize) => store!Next
<1> SUFFICES ASSUME IInv,
                    CallRolling \/ CrashRolling \/ setMaxBackupIndex \/ setMaximumFileSize
             PROVE store!Next
  OBVIOUS
<1>1. append \in BOOLEAN /\ logged' = logged
  BY DEF IInv, TypeInv, CallRolling, close, reopen, setAppend, CrashRolling, Crash,
         setMaxBackupIndex, setMaximumFileSize
<1>2. CASE Open(append) /\ whole' = (whole /\ Spares(append))
  BY <1>1, <1>2, OpenRefines DEF IInv
<1>3. CASE data' = data /\ whole' = whole
  BY <1>1, <1>3, SameEvents
<1>4. CASE data' = data /\ whole' = FALSE
  BY <1>1, <1>4, LostEvents
<1> QED BY <1>2, <1>3, <1>4
        DEF CallRolling, close, reopen, setAppend, CrashRolling, Crash,
         setMaxBackupIndex, setMaximumFileSize

\* The rolling appender implements LogStore, for every number of backups, every
\* size and any number of failures, kills, restarts and calls.
THEOREM RollingImplementsLogStore == RollingSpec => ImplementsLogStore
<1>1. RollingInit => store!Init
  <2> SUFFICES ASSUME RollingInit PROVE store!Init
    OBVIOUS
  <2>1. Kept = {}
    BY DEF RollingInit, FileInit, Kept
  <2> QED BY <2>1, FilesAssumption DEF RollingInit, FileInit, store!Init
<1>2. IInv /\ [RollingNext]_allVars => [store!Next]_(store!vars)
  <2> SUFFICES ASSUME IInv, [RollingNext]_allVars PROVE [store!Next]_(store!vars)
    OBVIOUS
  <2>1. CASE UNCHANGED allVars
    BY <2>1 DEF allVars, fileVars, store!vars, Kept
  <2>2. CASE RollingNext
    BY <2>2, ConstructRefines, AppendRefines, RemoveRefines, RenameRefines,
       OpenNextRefines, CallRefines DEF RollingNext
  <2> QED BY <2>1, <2>2
<1> QED BY <1>1, <1>2, RollingInitInv, RollingNextInv, PTL
        DEF RollingSpec, ImplementsLogStore, store!Spec, allVars
-----------------------------------------------------------------------------
(* The appender of daily files. *)

dailyAll == <<fileVars, dailyVars>>

Stages == {"no", "rename", "open", "oldest", "purge", "write"}

DailyType ==
  /\ present \subseteq FileNames
  /\ data \in [FileNames -> SUBSET (1 .. logged)]
  /\ \A n \in FileNames \ present : data[n] = {}
  /\ fd \in {FileName, Closed, Unlinked}
  /\ fd = FileName => FileName \in present
  /\ append \in BOOLEAN /\ running \in BOOLEAN /\ whole \in BOOLEAN
  /\ logged \in Nat
  /\ used \in [crashes : Nat, faults : Nat, calls : Nat]
  /\ now \in 0 .. MaxTime
  /\ mtime \in [FileNames -> Nat] /\ \A n \in FileNames : mtime[n] <= now
  /\ maxDaysToKeep \in DaysToKeep
  /\ logsTime \in Nat
  /\ daily \in [at : Stages, day : Nat, oldest : Nat, left : SUBSET FileNames]
  /\ stamps \in Seq([at : Nat, day : Nat]) /\ Len(stamps) = logged

\* The day of the file, the day _append() read and today, in this order.
ClockInv ==
  /\ logsTime <= Day(now)
  /\ daily.at = "no" => daily = Idle
  /\ daily.at # "no" => running /\ daily.day <= Day(now)
  /\ daily.at = "write" => logsTime = daily.day
  /\ daily.at \in Stages \ {"no", "write"} => logsTime < daily.day
  /\ daily.at = "purge" =>
       daily.oldest = 0 \/ daily.oldest + ((maxDaysToKeep * DayLength) % Wrap) <= now

\* Dated files are of days before that of the file, so that none is written over.
DatesInv ==
  \A n \in DatedNames : data[n] # {} =>
    /\ n[1] < Day(now)
    /\ FileName \in present => n[1] < Day(mtime[FileName])
    /\ running => IF daily.at \in {"open", "oldest", "purge"} THEN n[1] <= logsTime
                  ELSE n[1] < logsTime

\* A file was last written to after its events were, and is of no day before theirs.
StampsInv ==
  /\ \A n \in FileNames : \A e \in data[n] :
       stamps[e].at <= mtime[n] /\ stamps[e].day <= Day(stamps[e].at)
  /\ running => \A e \in data[FileName] : stamps[e].day <= logsTime
  /\ \A n \in DatedNames : \A e \in data[n] : stamps[e].day <= n[1]

\* As long as nothing failed and the process was not killed, it is of their day.
RightInv ==
  whole /\ used.crashes = 0 =>
    /\ ~running => logged = 0
    /\ daily.at \in {"open", "oldest", "purge"} => data[FileName] = {}
    /\ \A e \in data[FileName] : stamps[e].day = logsTime
    /\ \A n \in DatedNames : \A e \in data[n] : stamps[e].day = n[1]

DailyInv == DailyType /\ ClockInv /\ DatesInv /\ StampsInv /\ RightInv /\ DaysInOrder

-----------------------------------------------------------------------------

\* A later time is of no earlier day.
LEMMA DayMono ==
  ASSUME NEW s \in Nat, NEW t \in Nat
  PROVE  Day(s) \in Nat /\ (s <= t => Day(s) <= Day(t))
  BY DailyAssumption DEF Day

\* Times of the model are natural numbers, and a name is made for its day.
LEMMA DayFacts ==
  ASSUME DailyType, ClockInv
  PROVE  /\ now \in Nat /\ Day(now) \in Nat
         /\ Dated(logsTime) \in DatedNames /\ Dated(logsTime) \in FileNames
         /\ Dated(logsTime)[1] = logsTime /\ Dated(logsTime) # FileName
<1>1. now \in Nat /\ MaxTime \in Nat /\ now <= MaxTime /\ logsTime \in Nat
  BY DailyAssumption DEF DailyType
<1>2. Day(now) \in Nat /\ Day(MaxTime) \in Nat /\ Day(now) <= Day(MaxTime) /\ logsTime <= Day(now)
  BY <1>1, DayMono DEF ClockInv
<1>3. logsTime \in 0 .. Day(MaxTime)
  BY <1>1, <1>2
<1>4. Dated(logsTime) \in DatedNames
  BY <1>3, DatedAssumption
<1>5. QED
  BY <1>1, <1>2, <1>4, DatedAssumption DEF Dated, DatedNames

\* What is known of an event that was logged.
LEMMA StampFacts ==
  ASSUME DailyType, NEW e \in 1 .. logged
  PROVE  stamps[e].at \in Nat /\ stamps[e].day \in Nat
<1> DEFINE S == [at : Nat, day : Nat]
<1>1. stamps \in Seq(S) /\ e \in 1 .. Len(stamps)
  BY DEF DailyType
<1> HIDE DEF S
<1>2. stamps[e] \in S
  BY <1>1, ElementOfSeq
<1>3. QED
  BY <1>2 DEF S

\* open() with or without O_APPEND, and the time it leaves.
LEMMA DailyOpenFacts ==
  ASSUME DailyType, NEW app \in BOOLEAN, Open(app)
  PROVE  /\ present' = present \cup {FileName} /\ fd' = FileName
         /\ data' \in [FileNames -> SUBSET (1 .. logged)]
         /\ \A n \in FileNames : data'[n] \subseteq data[n]
         /\ \A n \in FileNames \ {FileName} : data'[n] = data[n]
         /\ Spares(app) => data' = data
  BY FilesAssumption DEF DailyType, Open, Spares

\* A file that is touched is newer, the others are not.
LEMMA TouchedFacts ==
  ASSUME DailyType, NEW app \in BOOLEAN
  PROVE  /\ Touched(app) \in [FileNames -> Nat]
         /\ \A n \in FileNames : mtime[n] <= Touched(app)[n] /\ Touched(app)[n] <= now
         /\ \A n \in FileNames \ {FileName} : Touched(app)[n] = mtime[n]
         /\ Touched(app)[FileName] = now \/ (FileName \in present /\ Touched(app) = mtime)
  BY FilesAssumption DEF DailyType, Touched

-----------------------------------------------------------------------------
(* What is kept when an action opens or truncates the file, or leaves the files *)
(* alone.                                                                       *)

\* The file is no older than it was, or it is new.
Opened ==
  /\ \A n \in FileNames : data'[n] \subseteq data[n] /\ mtime[n] <= mtime'[n]
  /\ FileName \in present' => FileName \in present \/ mtime'[FileName] = now'
  /\ now <= now'
  /\ UNCHANGED <<logged, stamps>>

\* Then the events stay in order, and in files that are not older than they are.
LEMMA OpenedKeeps ==
  ASSUME DailyInv, DailyType', Opened
  PROVE  /\ DaysInOrder'
         /\ \A n \in FileNames : \A e \in data'[n] :
              stamps'[e].at <= mtime'[n] /\ stamps'[e].day <= Day(stamps'[e].at)
         /\ \A n \in DatedNames : \A e \in data'[n] : stamps'[e].day <= n[1]
         /\ \A n \in DatedNames : data'[n] # {} =>
              n[1] < Day(now') /\ (FileName \in present' => n[1] < Day(mtime'[FileName]))
<1>0. /\ DatedNames \subseteq FileNames /\ FileName \in FileNames
      /\ \A n \in DatedNames : n[1] \in Nat
  BY FilesAssumption DEF DatedNames
<1>1. DaysInOrder'
  BY <1>0 DEF DailyInv, DaysInOrder, Opened
<1>2. ASSUME NEW n \in FileNames, NEW e \in data'[n]
      PROVE  stamps'[e].at <= mtime'[n] /\ stamps'[e].day <= Day(stamps'[e].at)
  <2>1. e \in data[n] /\ mtime[n] <= mtime'[n] /\ stamps' = stamps
    BY <1>2 DEF Opened
  <2>2. e \in 1 .. Len(stamps) /\ mtime[n] \in Nat /\ mtime'[n] \in Nat
    BY <2>1 DEF DailyInv, DailyType
  <2>3. stamps[e].at \in Nat
    BY <2>2, StampFacts DEF DailyInv, DailyType
  <2>4. stamps[e].at <= mtime[n] /\ stamps[e].day <= Day(stamps[e].at)
    BY <2>1 DEF DailyInv, StampsInv
  <2>5. stamps[e].at <= mtime'[n]
    BY <2>1, <2>2, <2>3, <2>4
  <2>6. QED
    BY <2>1, <2>4, <2>5
<1>3. \A n \in DatedNames : \A e \in data'[n] : stamps'[e].day <= n[1]
  BY <1>0 DEF DailyInv, StampsInv, Opened
<1>4. ASSUME NEW n \in DatedNames, data'[n] # {}
      PROVE  n[1] < Day(now') /\ (FileName \in present' => n[1] < Day(mtime'[FileName]))
  <2>0. Day(now) \in Nat /\ Day(now') \in Nat /\ Day(now) <= Day(now') /\ n[1] \in Nat
    <3>1. now \in Nat /\ now' \in Nat /\ now <= now'
      BY DailyAssumption DEF DailyInv, DailyType, Opened
    <3>2. QED
      BY <1>0, <3>1, DayMono
  <2>1. n[1] < Day(now) /\ (FileName \in present => n[1] < Day(mtime[FileName]))
    BY <1>0, <1>4 DEF DailyInv, DatesInv, Opened
  <2>2. CASE mtime'[FileName] = now'
    BY <2>0, <2>1, <2>2
  <2>3. CASE FileName \in present
    <3>1. mtime[FileName] \in Nat /\ mtime'[FileName] \in Nat /\ mtime[FileName] <= mtime'[FileName]
      BY <1>0 DEF DailyInv, DailyType, Opened
    <3>2. Day(mtime[FileName]) <= Day(mtime'[FileName]) /\ Day(mtime[FileName]) \in Nat
          /\ Day(mtime'[FileName]) \in Nat
      BY <3>1, DayMono
    <3>3. QED
      BY <1>0, <2>0, <2>1, <2>3, <3>2
  <2>4. QED
    BY <2>0, <2>1, <2>2, <2>3 DEF Opened
<1>5. QED
  BY <1>1, <1>2, <1>3, <1>4

\* Then what is left to look at is the day of the file.
LEMMA OpenedInv ==
  ASSUME DailyInv, DailyType', ClockInv', RightInv', Opened,
         running' => /\ \A n \in DatedNames : data'[n] # {} =>
                          IF daily'.at \in {"open", "oldest", "purge"} THEN n[1] <= logsTime'
                          ELSE n[1] < logsTime'
                     /\ \A e \in data'[FileName] : stamps'[e].day <= logsTime'
  PROVE  DailyInv'
<1>1. DatesInv'
  BY OpenedKeeps DEF DatesInv
<1>2. StampsInv'
  BY OpenedKeeps DEF StampsInv
<1>3. DaysInOrder'
  BY OpenedKeeps
<1>4. QED
  BY <1>1, <1>2, <1>3 DEF DailyInv

\* The same for an action that leaves the day of the file alone, too, and what
\* rollOver() has done with it.
LEMMA SameDayInv ==
  ASSUME DailyInv, DailyType', ClockInv', Opened,
         logsTime' = logsTime, running' => running,
         running' => (daily.at \in {"open", "oldest", "purge"}
                        <=> daily'.at \in {"open", "oldest", "purge"}),
         ~running' => daily'.at = "no",
         whole' => whole, used'.crashes = 0 => running' = running /\ used.crashes = 0
  PROVE  DailyInv'
<1>1. /\ DailyType /\ ClockInv /\ DatesInv /\ StampsInv /\ RightInv
      /\ FileName \in FileNames /\ DatedNames \subseteq FileNames
      /\ \A n \in FileNames : data'[n] \subseteq data[n]
      /\ logged' = logged /\ stamps' = stamps
  BY FilesAssumption DEF DailyInv, DatedNames, Opened
<1>2. ASSUME running'
      PROVE  /\ \A n \in DatedNames : data'[n] # {} =>
                  IF daily'.at \in {"open", "oldest", "purge"} THEN n[1] <= logsTime'
                  ELSE n[1] < logsTime'
             /\ \A e \in data'[FileName] : stamps'[e].day <= logsTime'
  <2>1. ASSUME NEW n \in DatedNames, data'[n] # {}
        PROVE  IF daily'.at \in {"open", "oldest", "purge"} THEN n[1] <= logsTime'
               ELSE n[1] < logsTime'
    BY <1>1, <1>2, <2>1 DEF DatesInv
  <2>2. \A e \in data'[FileName] : stamps'[e].day <= logsTime'
    BY <1>1, <1>2 DEF StampsInv
  <2>3. QED
    BY <2>1, <2>2
<1>3. RightInv'
  <2>1. SUFFICES ASSUME whole', used'.crashes = 0
                 PROVE  /\ ~running' => logged' = 0
                        /\ daily'.at \in {"open", "oldest", "purge"} => data'[FileName] = {}
                        /\ \A e \in data'[FileName] : stamps'[e].day = logsTime'
                        /\ \A n \in DatedNames : \A e \in data'[n] : stamps'[e].day = n[1]
    BY DEF RightInv
  <2>2. whole /\ used.crashes = 0 /\ running' = running
    BY <2>1
  <2>3. /\ ~running => logged = 0
        /\ daily.at \in {"open", "oldest", "purge"} => data[FileName] = {}
        /\ \A e \in data[FileName] : stamps[e].day = logsTime
        /\ \A n \in DatedNames : \A e \in data[n] : stamps[e].day = n[1]
    BY <1>1, <2>2 DEF RightInv
  <2>4. daily'.at \in {"open", "oldest", "purge"} => data'[FileName] = {}
    BY <1>1, <2>2, <2>3
  <2>5. QED
    BY <1>1, <2>2, <2>3, <2>4
<1>4. QED
  BY <1>2, <1>3, OpenedInv

-----------------------------------------------------------------------------
(* One step at a time. *)

\* Time passes.
LEMMA TickKeeps == DailyInv /\ Tick => DailyInv'
<1> SUFFICES ASSUME DailyInv, Tick PROVE DailyInv'
  OBVIOUS
<1>1. /\ now \in Nat /\ now < MaxTime /\ now' = now + 1 /\ MaxTime \in Nat
      /\ UNCHANGED <<present, data, fd, append, running, logged, whole, used>>
      /\ UNCHANGED <<mtime, maxDaysToKeep, logsTime, daily, stamps>>
  BY DailyAssumption DEF Tick, fileVars, DailyInv, DailyType
<1>2. DailyType'
  <2>1. now' \in 0 .. MaxTime /\ \A n \in FileNames : mtime[n] <= now'
    BY <1>1 DEF DailyInv, DailyType
  <2>2. QED
    BY <1>1, <2>1 DEF DailyInv, DailyType
<1>3. ClockInv'
  <2>1. Day(now) \in Nat /\ Day(now') \in Nat /\ Day(now) <= Day(now')
    BY <1>1, DayMono
  <2>2. logsTime \in Nat /\ daily.day \in Nat /\ daily.oldest \in Nat
    BY DEF DailyInv, DailyType
  <2>3. logsTime <= Day(now') /\ (daily.day <= Day(now) => daily.day <= Day(now'))
    BY <2>1, <2>2 DEF DailyInv, ClockInv
  <2>4. (maxDaysToKeep * DayLength) % Wrap \in Nat
    BY DailyAssumption DEF DailyInv, DailyType
  <2> DEFINE span == (maxDaysToKeep * DayLength) % Wrap
  <2> HIDE DEF span
  <2>5. daily.oldest + span <= now => daily.oldest + span <= now'
    BY <1>1, <2>2, <2>4 DEF span
  <2>6. QED
    BY <1>1, <2>3, <2>5 DEF DailyInv, ClockInv, span
<1>4. Opened
  BY <1>1 DEF Opened, DailyInv, DailyType
<1>5. ~running => daily.at = "no"
  BY DEF DailyInv, ClockInv, DailyType, Stages
<1>6. QED
  BY <1>1, <1>2, <1>3, <1>4, <1>5, SameDayInv

\* A setter changes no file.
LEMMA SetDaysKeeps == DailyInv /\ setMaxDaysToKeep => DailyInv'
<1> SUFFICES ASSUME DailyInv, setMaxDaysToKeep PROVE DailyInv'
  OBVIOUS
<1>1. /\ running /\ daily = Idle /\ maxDaysToKeep' \in DaysToKeep
      /\ used' = [used EXCEPT !["calls"] = @ + 1]
      /\ UNCHANGED <<present, data, fd, append, running, logged, whole>>
      /\ UNCHANGED <<now, mtime, logsTime, daily, stamps>>
  BY DEF setMaxDaysToKeep, Use
<1>2. used \in [crashes : Nat, faults : Nat, calls : Nat]
  BY DEF DailyInv, DailyType
<1>3. used' \in [crashes : Nat, faults : Nat, calls : Nat] /\ used'.crashes = used.crashes
  BY <1>1, <1>2
<1>4. DailyType'
  BY <1>1, <1>3 DEF DailyInv, DailyType
<1>5. ClockInv'
  BY <1>1 DEF DailyInv, ClockInv, Idle
<1>6. Opened
  BY <1>1 DEF Opened, DailyInv, DailyType
<1>7. QED
  BY <1>1, <1>3, <1>4, <1>5, <1>6, SameDayInv

\* _append() reads the clock: today is the day of the file or later.
LEMMA CheckDayKeeps == DailyInv /\ CheckDay => DailyInv'
<1> SUFFICES ASSUME DailyInv, CheckDay PROVE DailyInv'
  OBVIOUS
<1>1. /\ running /\ daily = Idle
      /\ daily' = [Idle EXCEPT !.at = IF Day(now) = logsTime THEN "write" ELSE "rename",
                               !.day = Day(now)]
      /\ UNCHANGED <<present, data, fd, append, running, logged, whole, used>>
      /\ UNCHANGED <<now, mtime, maxDaysToKeep, logsTime, stamps>>
  BY DEF CheckDay, fileVars
<1>2. /\ daily'.at = (IF Day(now) = logsTime THEN "write" ELSE "rename")
      /\ daily'.day = Day(now) /\ daily'.oldest = 0 /\ daily.at = "no"
  BY <1>1 DEF Idle
<1>3. now \in Nat /\ Day(now) \in Nat /\ logsTime \in Nat /\ logsTime <= Day(now)
  BY DayFacts DEF DailyInv, DailyType, ClockInv
<1>4. daily' \in [at : Stages, day : Nat, oldest : Nat, left : SUBSET FileNames]
  BY <1>1, <1>3 DEF Idle, Stages
<1>5. DailyType'
  BY <1>1, <1>4 DEF DailyInv, DailyType
<1>6. ClockInv'
  BY <1>1, <1>2, <1>3 DEF ClockInv, Stages
<1>7. Opened
  BY <1>1, <1>3 DEF Opened, DailyInv, DailyType
<1>8. QED
  BY <1>1, <1>2, <1>5, <1>6, <1>7, SameDayInv

\* rollOver() looks for the day before which files are outdated.
LEMMA FindOldestKeeps == DailyInv /\ FindOldest => DailyInv'
<1> SUFFICES ASSUME DailyInv, FindOldest PROVE DailyInv'
  OBVIOUS
<1> DEFINE span == (maxDaysToKeep * DayLength) % Wrap
           first == IF now > span THEN now - span ELSE 0
<1>1. /\ daily.at = "oldest"
      /\ \E names \in {present, {}} :
           daily' = [daily EXCEPT !.at = "purge", !.left = names, !.oldest = first]
      /\ UNCHANGED <<present, data, fd, append, running, logged, whole>>
      /\ UNCHANGED <<now, mtime, maxDaysToKeep, logsTime, stamps>>
      /\ used' = used \/ used' = [used EXCEPT !["faults"] = @ + 1]
  BY DEF FindOldest, Use
<1>2. /\ now \in Nat /\ span \in Nat /\ present \subseteq FileNames
      /\ daily \in [at : Stages, day : Nat, oldest : Nat, left : SUBSET FileNames]
      /\ used \in [crashes : Nat, faults : Nat, calls : Nat]
  BY DailyAssumption DEF DailyInv, DailyType
<1>2a. used' \in [crashes : Nat, faults : Nat, calls : Nat] /\ used'.crashes = used.crashes
  BY <1>1, <1>2
<1>3. span' = span
  BY <1>1
<1> HIDE DEF span
<1>3a. first \in Nat /\ (first = 0 \/ first + span <= now)
  BY <1>2
<1> HIDE DEF first
<1>4. /\ daily'.at = "purge" /\ daily'.day = daily.day
      /\ daily'.oldest \in Nat /\ (daily'.oldest = 0 \/ daily'.oldest + span <= now)
      /\ daily' \in [at : Stages, day : Nat, oldest : Nat, left : SUBSET FileNames]
  <2>1. PICK names \in {present, {}} :
          daily' = [daily EXCEPT !.at = "purge", !.left = names, !.oldest = first]
    BY <1>1
  <2>2. names \in SUBSET FileNames
    BY <1>2
  <2>3. daily' = [at |-> "purge", day |-> daily.day, oldest |-> first, left |-> names]
    BY <1>2, <2>1
  <2> QED BY <1>2, <1>3a, <2>2, <2>3 DEF Stages
<1>5. DailyType'
  BY <1>1, <1>2a, <1>4 DEF DailyInv, DailyType
<1>6. ClockInv'
  <2>1. daily.at \in Stages \ {"no", "write"} /\ daily'.at \in Stages \ {"no", "write"}
    BY <1>1, <1>4 DEF Stages
  <2>2. logsTime <= Day(now) /\ running /\ daily.day <= Day(now) /\ logsTime < daily.day
    BY <1>1, <2>1 DEF DailyInv, ClockInv
  <2>3. QED
    BY <1>1, <1>3, <1>4, <2>2 DEF ClockInv, span
<1>7. Opened
  BY <1>1, <1>2 DEF Opened, DailyInv, DailyType
<1>8. QED
  BY <1>1, <1>2a, <1>4, <1>5, <1>6, <1>7, SameDayInv DEF DailyInv, ClockInv

\* rollOver() ends: the file is of the day that was read.
LEMMA PurgeEndsKeeps == DailyInv /\ PurgeEnds => DailyInv'
<1> SUFFICES ASSUME DailyInv, PurgeEnds PROVE DailyInv'
  OBVIOUS
<1>1. /\ daily.at = "purge" /\ daily' = [daily EXCEPT !.at = "write", !.left = {}]
      /\ logsTime' = daily.day
      /\ UNCHANGED <<present, data, fd, append, running, logged, whole, used>>
      /\ UNCHANGED <<now, mtime, maxDaysToKeep, stamps>>
  BY DEF PurgeEnds, fileVars
<1>2. /\ used \in [crashes : Nat, faults : Nat, calls : Nat]
      /\ daily \in [at : Stages, day : Nat, oldest : Nat, left : SUBSET FileNames]
      /\ running /\ logsTime < daily.day /\ daily.day <= Day(now) /\ logsTime \in Nat
      /\ now \in Nat
  BY <1>1 DEF DailyInv, DailyType, ClockInv, Stages
<1>3. /\ used' \in [crashes : Nat, faults : Nat, calls : Nat] /\ used'.crashes = used.crashes
      /\ daily' \in [at : Stages, day : Nat, oldest : Nat, left : SUBSET FileNames]
      /\ daily'.at = "write" /\ daily'.day = daily.day /\ daily.day \in Nat
  BY <1>1, <1>2 DEF Stages
<1>4. DailyType'
  BY <1>1, <1>3 DEF DailyInv, DailyType
<1>5. ClockInv'
  BY <1>1, <1>2, <1>3 DEF ClockInv
<1>6. Opened
  BY <1>1, <1>2 DEF Opened, DailyInv, DailyType
<1>7. ASSUME NEW n \in DatedNames, data'[n] # {} PROVE n[1] < logsTime'
  <2>1. n[1] <= logsTime /\ n[1] \in Nat
    BY <1>1, <1>2, <1>7 DEF DailyInv, DatesInv, DatedNames
  <2>2. QED
    BY <1>1, <1>2, <1>3, <2>1
<1>8. ASSUME NEW e \in data'[FileName] PROVE stamps'[e].day <= logsTime'
  <2>1. e \in data[FileName] /\ e \in 1 .. logged
    BY <1>1, <1>8, FilesAssumption DEF DailyInv, DailyType
  <2>2. stamps[e].day \in Nat /\ stamps[e].day <= logsTime
    BY <1>2, <2>1, StampFacts DEF DailyInv, StampsInv
  <2>3. QED
    BY <1>1, <1>2, <1>3, <2>2
<1>9. RightInv'
  BY <1>1, <1>2, <1>3 DEF DailyInv, RightInv
<1>10. QED
  BY <1>3, <1>4, <1>5, <1>6, <1>7, <1>8, <1>9, OpenedInv

\* The process is killed: the files stay.
LEMMA CrashDailyKeeps == DailyInv /\ CrashDaily => DailyInv'
<1> SUFFICES ASSUME DailyInv, CrashDaily PROVE DailyInv'
  OBVIOUS
<1>1. /\ running' = FALSE /\ fd' = Closed /\ daily' = Idle
      /\ used' = [used EXCEPT !["crashes"] = @ + 1]
      /\ UNCHANGED <<present, data, append, logged, whole>>
      /\ UNCHANGED <<now, mtime, maxDaysToKeep, logsTime, stamps>>
  BY DEF CrashDaily, Crash, Use
<1>2. used \in [crashes : Nat, faults : Nat, calls : Nat]
  BY DEF DailyInv, DailyType
<1>3. used' \in [crashes : Nat, faults : Nat, calls : Nat] /\ used'.crashes # 0
  BY <1>1, <1>2
<1>4. DailyType'
  BY <1>1, <1>3, FilesAssumption DEF DailyInv, DailyType, Idle, Stages
<1>5. ClockInv'
  BY <1>1 DEF DailyInv, ClockInv, Idle
<1>6. Opened
  BY <1>1 DEF Opened, DailyInv, DailyType
<1>7. RightInv'
  BY <1>3 DEF RightInv
<1>8. QED
  BY <1>1, <1>4, <1>5, <1>6, <1>7, OpenedInv

\* A constructor takes the day of the file from the time it was last written to.
LEMMA ConstructDailyKeeps == DailyInv /\ ConstructDaily => DailyInv'
<1> SUFFICES ASSUME DailyInv, ConstructDaily PROVE DailyInv'
  OBVIOUS
<1>0. /\ DailyType /\ ClockInv /\ RightInv /\ FileName \in FileNames /\ now \in Nat
      /\ DatedNames \subseteq FileNames
  BY FilesAssumption, DayFacts DEF DailyInv, DatedNames
<1>1. /\ ~running /\ running' = TRUE /\ append' \in BOOLEAN
      /\ \/ Open(append') /\ whole' = (whole /\ Spares(append')) /\ used' = used
         \/ /\ used' = [used EXCEPT !["faults"] = @ + 1]
            /\ fd' = Closed /\ whole' = FALSE /\ UNCHANGED <<present, data>>
      /\ mtime' = IF fd' = FileName THEN Touched(append') ELSE mtime
      /\ logsTime' = Day(IF FileName \in present' THEN mtime'[FileName] ELSE now)
      /\ UNCHANGED <<logged, now, maxDaysToKeep, daily, stamps>>
  BY DEF ConstructDaily, Construct, Use
<1>2. daily = Idle /\ daily.at = "no"
  BY <1>0, <1>1 DEF ClockInv, DailyType, Stages, Idle
<1>3. /\ present' \subseteq FileNames /\ data' \in [FileNames -> SUBSET (1 .. logged)]
      /\ \A n \in FileNames : data'[n] \subseteq data[n]
      /\ \A n \in FileNames \ present' : data'[n] = {}
      /\ fd' \in {FileName, Closed} /\ whole' \in BOOLEAN /\ (whole' => whole /\ used' = used)
      /\ fd' = FileName => FileName \in present'
      /\ present' = present \/ (present' = present \cup {FileName} /\ fd' = FileName)
      /\ used' \in [crashes : Nat, faults : Nat, calls : Nat] /\ used'.crashes = used.crashes
  <2>1. CASE Open(append') /\ whole' = (whole /\ Spares(append')) /\ used' = used
    <3>1. /\ present' = present \cup {FileName} /\ fd' = FileName
          /\ data' \in [FileNames -> SUBSET (1 .. logged)]
          /\ \A n \in FileNames : data'[n] \subseteq data[n]
          /\ \A n \in FileNames \ {FileName} : data'[n] = data[n]
      BY <1>0, <1>1, <2>1, DailyOpenFacts
    <3>2. \A n \in FileNames \ present' : data'[n] = {}
      BY <1>0, <3>1 DEF DailyType
    <3>3. whole' \in BOOLEAN
      BY <2>1
    <3>4. QED
      BY <1>0, <2>1, <3>1, <3>2, <3>3 DEF DailyType
  <2>2. CASE /\ used' = [used EXCEPT !["faults"] = @ + 1]
             /\ fd' = Closed /\ whole' = FALSE /\ UNCHANGED <<present, data>>
    <3>1. used \in [crashes : Nat, faults : Nat, calls : Nat]
      BY <1>0 DEF DailyType
    <3>2. used' \in [crashes : Nat, faults : Nat, calls : Nat] /\ used'.crashes = used.crashes
      BY <2>2, <3>1
    <3>3. QED
      BY <1>0, <2>2, <3>2, FilesAssumption DEF DailyType
  <2>3. QED
    BY <1>1, <2>1, <2>2
<1>4. /\ mtime' \in [FileNames -> Nat]
      /\ \A n \in FileNames : mtime[n] <= mtime'[n] /\ mtime'[n] <= now
      /\ FileName \in present' => FileName \in present \/ mtime'[FileName] = now
  <2>1. CASE fd' = FileName
    BY <1>0, <1>1, <2>1, TouchedFacts
  <2>2. CASE fd' # FileName
    BY <1>0, <1>1, <1>3, <2>2 DEF DailyType
  <2>3. QED
    BY <2>1, <2>2
<1>5. logsTime' \in Nat /\ logsTime' <= Day(now) /\ (FileName \in present' => logsTime' = Day(mtime'[FileName]))
  <2>1. mtime'[FileName] \in Nat /\ mtime'[FileName] <= now
    BY <1>0, <1>4
  <2>2. Day(mtime'[FileName]) \in Nat /\ Day(now) \in Nat /\ Day(mtime'[FileName]) <= Day(now)
    BY <1>0, <2>1, DayMono
  <2>3. QED
    BY <1>1, <2>2
<1>6. DailyType'
  BY <1>0, <1>1, <1>3, <1>4, <1>5 DEF DailyType
<1>7. ClockInv'
  BY <1>1, <1>2, <1>5 DEF ClockInv
<1>8. Opened
  BY <1>0, <1>1, <1>3, <1>4 DEF Opened
<1>9. /\ \A n \in FileNames : \A e \in data'[n] :
           stamps'[e].at <= mtime'[n] /\ stamps'[e].day <= Day(stamps'[e].at)
      /\ \A n \in DatedNames : data'[n] # {} =>
           n[1] < Day(now') /\ (FileName \in present' => n[1] < Day(mtime'[FileName]))
  BY <1>6, <1>8, OpenedKeeps
<1>10. ASSUME NEW n \in DatedNames, data'[n] # {} PROVE n[1] < logsTime'
  BY <1>1, <1>5, <1>9, <1>10
<1>11. ASSUME NEW e \in data'[FileName] PROVE stamps'[e].day <= logsTime'
  <2>1. FileName \in present' /\ e \in 1 .. logged'
    BY <1>0, <1>3, <1>6, <1>11 DEF DailyType
  <2>2. stamps'[e].at \in Nat /\ stamps'[e].day \in Nat
    BY <1>0, <1>1, <2>1, StampFacts
  <2>3. stamps'[e].at <= mtime'[FileName] /\ stamps'[e].day <= Day(stamps'[e].at)
    BY <1>0, <1>9, <1>11
  <2>4. Day(stamps'[e].at) <= Day(mtime'[FileName]) /\ Day(stamps'[e].at) \in Nat
        /\ Day(mtime'[FileName]) \in Nat
    BY <1>0, <1>4, <2>2, <2>3, DayMono
  <2>5. QED
    BY <1>5, <2>1, <2>2, <2>3, <2>4
<1>12. RightInv'
  <2>1. SUFFICES ASSUME whole', used'.crashes = 0
                 PROVE  \A n \in FileNames : data'[n] = {}
    BY <1>0, <1>1, <1>2 DEF RightInv
  <2>2. logged = 0
    BY <1>0, <1>1, <1>3, <2>1 DEF RightInv
  <2>3. QED
    BY <1>3, <2>2
<1>13. QED
  BY <1>2, <1>1, <1>6, <1>7, <1>8, <1>10, <1>11, <1>12, OpenedInv

\* rollOver() opens a new file.
LEMMA OpenDatedKeeps == DailyInv /\ OpenDated => DailyInv'
<1> SUFFICES ASSUME DailyInv, OpenDated PROVE DailyInv'
  OBVIOUS
<1>0. /\ DailyType /\ ClockInv /\ FileName \in FileNames /\ now \in Nat /\ append \in BOOLEAN
  BY FilesAssumption, DayFacts DEF DailyInv, DailyType
<1>1. /\ daily.at = "open" /\ daily' = [daily EXCEPT !.at = "oldest"]
      /\ \/ /\ Open(append) /\ mtime' = Touched(append)
            /\ whole' = (whole /\ Spares(append)) /\ used' = used
         \/ /\ used' = [used EXCEPT !["faults"] = @ + 1] /\ whole' = FALSE
            /\ fd' = Closed /\ UNCHANGED <<present, data, mtime>>
      /\ UNCHANGED <<append, running, logged, now, maxDaysToKeep, logsTime, stamps>>
  BY DEF OpenDated, Use
<1>2. /\ present' \subseteq FileNames /\ data' \in [FileNames -> SUBSET (1 .. logged)]
      /\ \A n \in FileNames : data'[n] \subseteq data[n]
      /\ \A n \in FileNames \ present' : data'[n] = {}
      /\ fd' \in {FileName, Closed} /\ whole' \in BOOLEAN /\ (whole' => whole)
      /\ fd' = FileName => FileName \in present'
      /\ used' \in [crashes : Nat, faults : Nat, calls : Nat] /\ used'.crashes = used.crashes
      /\ mtime' \in [FileNames -> Nat]
      /\ \A n \in FileNames : mtime[n] <= mtime'[n] /\ mtime'[n] <= now
      /\ FileName \in present' => FileName \in present \/ mtime'[FileName] = now
  <2>1. CASE /\ Open(append) /\ mtime' = Touched(append)
             /\ whole' = (whole /\ Spares(append)) /\ used' = used
    <3>1. /\ present' = present \cup {FileName} /\ fd' = FileName
          /\ data' \in [FileNames -> SUBSET (1 .. logged)]
          /\ \A n \in FileNames : data'[n] \subseteq data[n]
          /\ \A n \in FileNames \ {FileName} : data'[n] = data[n]
      BY <1>0, <2>1, DailyOpenFacts
    <3>2. /\ mtime' \in [FileNames -> Nat]
          /\ \A n \in FileNames : mtime[n] <= mtime'[n] /\ mtime'[n] <= now
          /\ FileName \in present \/ mtime'[FileName] = now
      BY <1>0, <2>1, TouchedFacts
    <3>3. \A n \in FileNames \ present' : data'[n] = {}
      BY <1>0, <3>1 DEF DailyType
    <3>4. whole' \in BOOLEAN
      BY <2>1
    <3>5. /\ present' \subseteq FileNames /\ (whole' => whole)
          /\ fd' \in {FileName, Closed} /\ (fd' = FileName => FileName \in present')
      BY <1>0, <2>1, <3>1 DEF DailyType
    <3>6. used' \in [crashes : Nat, faults : Nat, calls : Nat] /\ used'.crashes = used.crashes
      BY <1>0, <2>1 DEF DailyType
    <3>7. QED
      BY <3>1, <3>2, <3>3, <3>4, <3>5, <3>6
  <2>2. CASE /\ used' = [used EXCEPT !["faults"] = @ + 1] /\ whole' = FALSE
             /\ fd' = Closed /\ UNCHANGED <<present, data, mtime>>
    <3>1. used \in [crashes : Nat, faults : Nat, calls : Nat]
      BY <1>0 DEF DailyType
    <3>2. used' \in [crashes : Nat, faults : Nat, calls : Nat] /\ used'.crashes = used.crashes
      BY <2>2, <3>1
    <3>3. /\ mtime' \in [FileNames -> Nat]
          /\ \A n \in FileNames : mtime[n] <= mtime'[n] /\ mtime'[n] <= now
      BY <1>0, <2>2 DEF DailyType
    <3>4. /\ fd' \in {FileName, Closed} /\ fd' # FileName
          /\ whole' \in BOOLEAN /\ ~whole'
      BY <2>2, FilesAssumption
    <3>5. present' = present /\ data' = data
      BY <2>2
    <3>6. /\ present \subseteq FileNames /\ data \in [FileNames -> SUBSET (1 .. logged)]
          /\ \A n \in FileNames \ present : data[n] = {}
      BY <1>0 DEF DailyType
    <3>7. QED
      BY <3>2, <3>3, <3>4, <3>5, <3>6
  <2>3. QED
    BY <1>1, <2>1, <2>2
<1>3. daily' \in [at : Stages, day : Nat, oldest : Nat, left : SUBSET FileNames] /\ daily'.at = "oldest" /\ daily'.day = daily.day
  BY <1>0, <1>1 DEF DailyType, Stages
<1>4. DailyType'
  BY <1>0, <1>1, <1>2, <1>3 DEF DailyType
<1>5. ClockInv'
  BY <1>0, <1>1, <1>3 DEF ClockInv, Stages
<1>6. Opened
  BY <1>0, <1>1, <1>2 DEF Opened
<1>7. running' = TRUE
  BY <1>0, <1>1 DEF ClockInv, DailyType
<1>8. QED
  BY <1>1, <1>2, <1>3, <1>4, <1>5, <1>6, <1>7, SameDayInv

\* close(), reopen() and the setter.
LEMMA CallDailyKeeps == DailyInv /\ CallDaily => DailyInv'
<1> SUFFICES ASSUME DailyInv, CallDaily PROVE DailyInv'
  OBVIOUS
<1>0. /\ DailyType /\ ClockInv /\ FileName \in FileNames /\ now \in Nat /\ append \in BOOLEAN
  BY FilesAssumption, DayFacts DEF DailyInv, DailyType
<1>1. /\ daily = Idle /\ daily' = daily /\ running /\ append' \in BOOLEAN
      /\ used' = [used EXCEPT !["calls"] = @ + 1]
      /\ \/ mtime' = mtime \/ mtime' = Touched(append)
      /\ \/ Open(append) /\ whole' = (whole /\ Spares(append))
         \/ UNCHANGED <<present, data, whole>> /\ fd' \in {fd, Closed}
      /\ UNCHANGED <<running, logged, now, maxDaysToKeep, logsTime, stamps>>
  BY <1>0 DEF CallDaily, close, reopen, setAppend, Use
<1>2. FileName \in present' => FileName \in present \/ mtime'[FileName] = now
  <2>1. SUFFICES ASSUME FileName \in present', FileName \notin present
                 PROVE  mtime'[FileName] = now
    OBVIOUS
  <2>2. present' # present
    BY <2>1
  <2>3. reopen /\ fd' = FileName /\ mtime' = Touched(append)
    BY <2>2 DEF CallDaily, close, reopen, setAppend, Open
  <2>4. QED
    BY <1>0, <2>1, <2>3, TouchedFacts
<1>3. used \in [crashes : Nat, faults : Nat, calls : Nat]
  BY <1>0 DEF DailyType
<1>4. used' \in [crashes : Nat, faults : Nat, calls : Nat] /\ used'.crashes = used.crashes
  BY <1>1, <1>3
<1>5. mtime' \in [FileNames -> Nat] /\ \A n \in FileNames : mtime[n] <= mtime'[n] /\ mtime'[n] <= now
  BY <1>0, <1>1, TouchedFacts DEF DailyType
<1>6. /\ present' \subseteq FileNames /\ data' \in [FileNames -> SUBSET (1 .. logged)]
      /\ \A n \in FileNames : data'[n] \subseteq data[n]
      /\ \A n \in FileNames \ present' : data'[n] = {}
      /\ fd' \in {FileName, Closed, Unlinked} /\ whole' \in BOOLEAN /\ (whole' => whole)
      /\ fd' = FileName => FileName \in present'
  <2>1. CASE Open(append) /\ whole' = (whole /\ Spares(append))
    <3>1. /\ present' = present \cup {FileName} /\ fd' = FileName
          /\ data' \in [FileNames -> SUBSET (1 .. logged)]
          /\ \A n \in FileNames : data'[n] \subseteq data[n]
          /\ \A n \in FileNames \ {FileName} : data'[n] = data[n]
      BY <1>0, <2>1, DailyOpenFacts
    <3>2. \A n \in FileNames \ present' : data'[n] = {}
      BY <1>0, <3>1 DEF DailyType
    <3>3. whole' \in BOOLEAN
      BY <2>1
    <3>4. QED
      BY <1>0, <2>1, <3>1, <3>2, <3>3 DEF DailyType
  <2>2. CASE UNCHANGED <<present, data, whole>> /\ fd' \in {fd, Closed}
    BY <1>0, <2>2, FilesAssumption DEF DailyType
  <2>3. QED
    BY <1>1, <2>1, <2>2
<1>7. DailyType'
  BY <1>0, <1>1, <1>4, <1>5, <1>6 DEF DailyType
<1>8. ClockInv'
  BY <1>0, <1>1 DEF ClockInv, Idle
<1>9. Opened
  BY <1>0, <1>1, <1>2, <1>5, <1>6 DEF Opened
<1>10. QED
  BY <1>1, <1>4, <1>6, <1>7, <1>8, <1>9, SameDayInv

\* A file is deleted.
LEMMA PurgeKeeps == DailyInv /\ Purge => DailyInv'
<1> SUFFICES ASSUME DailyInv, Purge PROVE DailyInv'
  OBVIOUS
<1>1. PICK n \in Outdated :
        /\ Visit(n)
        /\ Unlink(n) \/ (Use("faults") /\ whole' = FALSE /\ UNCHANGED <<present, data, fd>>)
  BY DEF Purge
<1>2. /\ DailyType /\ ClockInv /\ FileName \in FileNames /\ now \in Nat
      /\ n \in present /\ n \in FileNames /\ daily.at = "purge"
  BY <1>1, FilesAssumption, DayFacts DEF DailyInv, DailyType, Outdated, Purge
<1>3. /\ daily' = [daily EXCEPT !.left = @ \ {n}]
      /\ UNCHANGED <<append, running, logged, now, mtime, maxDaysToKeep, logsTime, stamps>>
  BY <1>1 DEF Visit
<1>4. /\ daily' \in [at : Stages, day : Nat, oldest : Nat, left : SUBSET FileNames]
      /\ daily'.at = daily.at /\ daily'.day = daily.day /\ daily'.oldest = daily.oldest
  <2>1. daily \in [at : Stages, day : Nat, oldest : Nat, left : SUBSET FileNames]
    BY <1>2 DEF DailyType
  <2> QED BY <1>3, <2>1
<1>5. \/ /\ present' = present \ {n} /\ data' = [data EXCEPT ![n] = {}]
         /\ fd' = (IF fd = n THEN Unlinked ELSE fd)
         /\ UNCHANGED <<whole, used>>
      \/ /\ UNCHANGED <<present, data, fd>> /\ whole' = FALSE
         /\ used' = [used EXCEPT !["faults"] = @ + 1]
  BY <1>1 DEF Unlink, Remove, Use
<1>6. /\ data' \in [FileNames -> SUBSET (1 .. logged)]
      /\ present' \subseteq present /\ \A m \in FileNames : data'[m] \subseteq data[m]
      /\ \A m \in FileNames \ present' : data'[m] = {}
  BY <1>2, <1>5 DEF DailyType
<1>7. fd' \in {FileName, Closed, Unlinked} /\ (fd' = FileName => FileName \in present')
  BY <1>2, <1>5, FilesAssumption DEF DailyType
<1>8. /\ used' \in [crashes : Nat, faults : Nat, calls : Nat] /\ used'.crashes = used.crashes
      /\ whole' \in BOOLEAN /\ (whole' => whole)
  <2>1. whole \in BOOLEAN /\ used \in [crashes : Nat, faults : Nat, calls : Nat]
    BY <1>2 DEF DailyType
  <2>2. used' = used \/ used' = [used EXCEPT !["faults"] = @ + 1]
    BY <1>5
  <2>3. used' \in [crashes : Nat, faults : Nat, calls : Nat] /\ used'.crashes = used.crashes
    BY <2>1, <2>2
  <2>4. whole' = whole \/ whole' = FALSE
    BY <1>5
  <2>5. (whole' \in BOOLEAN) /\ (whole' => whole)
    <3>1. CASE whole' = whole
      BY <2>1, <3>1, Zenon
    <3>2. CASE whole' = FALSE
      BY <3>2
    <3> QED BY <2>4, <3>1, <3>2, Zenon
  <2> QED BY <2>3, <2>5, Zenon
<1>9. DailyType'
  BY <1>2, <1>3, <1>4, <1>6, <1>7, <1>8 DEF DailyType
<1>10. ClockInv'
  <2>1. daily' # Idle /\ daily'.at = "purge"
    BY <1>2, <1>4 DEF Idle
  <2> QED BY <1>2, <1>3, <1>4, <2>1 DEF ClockInv
<1>11. Opened
  BY <1>2, <1>3, <1>6 DEF Opened, DailyType
<1>12. ~running => daily.at = "no"
  BY <1>2 DEF ClockInv, DailyType, Stages
<1>13. QED
  BY <1>3, <1>4, <1>6, <1>8, <1>9, <1>10, <1>11, <1>12, SameDayInv

\* rollOver() renames the file to a name no file has events under.
LEMMA RenameDatedKeeps == DailyInv /\ RenameDated => DailyInv'
<1> SUFFICES ASSUME DailyInv, RenameDated PROVE DailyInv'
  OBVIOUS
<1> DEFINE D == Dated(logsTime)
<1>0. /\ DailyType /\ ClockInv /\ DatesInv /\ StampsInv /\ RightInv /\ DaysInOrder
      /\ FileName \in FileNames /\ DatedNames \subseteq FileNames
      /\ \A n \in DatedNames : n[1] \in Nat /\ n # FileName
  BY FilesAssumption, DatedAssumption DEF DailyInv, DatedNames
<1>1. /\ D \in DatedNames /\ D \in FileNames /\ D[1] = logsTime /\ D # FileName
      /\ now \in Nat /\ Day(now) \in Nat
  BY <1>0, DayFacts
<1> HIDE DEF D
<1>2. /\ daily.at = "rename" /\ daily' = [daily EXCEPT !.at = "open"] /\ fd' = Closed
      /\ UNCHANGED <<append, running, logged, now, maxDaysToKeep, logsTime, stamps>>
      /\ \/ /\ FileName \in present
            /\ present' = (present \ {FileName}) \cup {D}
            /\ data' = [data EXCEPT ![D] = data[FileName], ![FileName] = {}]
            /\ mtime' = [mtime EXCEPT ![D] = mtime[FileName]]
            /\ UNCHANGED <<whole, used>>
         \/ /\ FileName \notin present
            /\ UNCHANGED <<present, data, mtime, whole, used>>
         \/ /\ whole' = FALSE /\ UNCHANGED <<present, data, mtime>>
            /\ used' = [used EXCEPT !["faults"] = @ + 1]
  BY DEF RenameDated, Rename, Moved, Use, D
<1>3. /\ running /\ logsTime < daily.day /\ daily.day <= Day(now) /\ logsTime \in Nat
      /\ daily.day \in Nat /\ daily \in [at : Stages, day : Nat, oldest : Nat, left : SUBSET FileNames]
      /\ used \in [crashes : Nat, faults : Nat, calls : Nat]
  BY <1>0, <1>2 DEF ClockInv, DailyType, Stages
<1>4. /\ daily' \in [at : Stages, day : Nat, oldest : Nat, left : SUBSET FileNames] /\ daily'.at = "open"
      /\ daily'.day = daily.day
  BY <1>2, <1>3 DEF Stages
<1>5. ClockInv'
  BY <1>0, <1>2, <1>3, <1>4 DEF ClockInv, Stages
<1>6. \A n \in DatedNames : data[n] # {} => n[1] < logsTime
  BY <1>0, <1>2, <1>3 DEF DatesInv
<1>7. CASE /\ UNCHANGED <<present, data, mtime>>
           /\ FileName \notin present \/ whole' = FALSE
           /\ whole' => whole /\ used' = used
           /\ used' \in [crashes : Nat, faults : Nat, calls : Nat] /\ whole' \in BOOLEAN
  <2>1. DailyType'
    BY <1>0, <1>2, <1>4, <1>7, FilesAssumption DEF DailyType
  <2>2. Opened
    <3>1. now \in Nat /\ \A n \in FileNames : mtime[n] \in Nat
      BY <1>0, <1>1 DEF DailyType
    <3>2. /\ data' = data /\ mtime' = mtime /\ present' = present
          /\ now' = now /\ UNCHANGED <<logged, stamps>>
      BY <1>2, <1>7
    <3>3. QED
      BY <3>1, <3>2 DEF Opened
  <2>3. RightInv'
    BY <1>0, <1>2, <1>3, <1>4, <1>7 DEF RightInv, DailyType
  <2>4. /\ \A n \in DatedNames : data'[n] # {} => n[1] <= logsTime'
        /\ \A e \in data'[FileName] : stamps'[e].day <= logsTime'
    BY <1>0, <1>2, <1>3, <1>6, <1>7 DEF StampsInv
  <2>5. QED
    BY <1>4, <1>5, <2>1, <2>2, <2>3, <2>4, OpenedInv
<1>8. CASE /\ FileName \in present
           /\ present' = (present \ {FileName}) \cup {D}
           /\ data' = [data EXCEPT ![D] = data[FileName], ![FileName] = {}]
           /\ mtime' = [mtime EXCEPT ![D] = mtime[FileName]]
           /\ UNCHANGED <<whole, used>>
  <2>1. /\ data \in [FileNames -> SUBSET (1 .. logged)] /\ mtime \in [FileNames -> Nat]
        /\ present \subseteq FileNames
    BY <1>0 DEF DailyType
  <2>2. /\ data'[D] = data[FileName] /\ data'[FileName] = {}
        /\ \A n \in FileNames \ {D, FileName} : data'[n] = data[n] /\ mtime'[n] = mtime[n]
        /\ mtime'[D] = mtime[FileName] /\ mtime'[FileName] = mtime[FileName]
        /\ data' \in [FileNames -> SUBSET (1 .. logged)] /\ mtime' \in [FileNames -> Nat]
        /\ FileName \notin present' /\ present' \subseteq FileNames
    BY <1>0, <1>1, <1>8, <2>1
  <2>3. DailyType'
    <3>1. \A n \in FileNames \ present' : data'[n] = {}
      BY <1>0, <1>8, <2>2 DEF DailyType
    <3>2. \A n \in FileNames : mtime'[n] <= now
      BY <1>0, <2>2 DEF DailyType
    <3>3. QED
      BY <1>0, <1>2, <1>4, <1>8, <2>2, <3>1, <3>2, FilesAssumption DEF DailyType
  <2>4. \A n \in DatedNames : n # D => data'[n] = data[n] /\ n \in FileNames
    BY <1>0, <2>2
  <2>5. DatesInv'
    <3>1. SUFFICES ASSUME NEW n \in DatedNames, data'[n] # {}
                   PROVE  n[1] < Day(now) /\ n[1] <= logsTime
      BY <1>2, <1>4, <2>2 DEF DatesInv
    <3>2. n[1] <= logsTime /\ n[1] \in Nat
      BY <1>0, <1>1, <1>3, <1>6, <2>4, <3>1
    <3>3. QED
      BY <1>1, <1>3, <3>2
  <2>6. StampsInv'
    <3>1. \A n \in FileNames : \A e \in data'[n] :
            stamps[e].at <= mtime'[n] /\ stamps[e].day <= Day(stamps[e].at)
      BY <1>0, <2>2 DEF StampsInv
    <3>2. \A n \in DatedNames : \A e \in data'[n] : stamps[e].day <= n[1]
      BY <1>0, <1>1, <1>3, <2>2, <2>4 DEF StampsInv
    <3>3. \A e \in data'[FileName] : stamps[e].day <= logsTime
      BY <2>2
    <3>4. QED
      BY <1>2, <3>1, <3>2, <3>3 DEF StampsInv
  <2>7. RightInv'
    <3>1. SUFFICES ASSUME whole, used.crashes = 0
                   PROVE  \A n \in DatedNames : \A e \in data'[n] : stamps[e].day = n[1]
      BY <1>2, <1>3, <1>8, <2>2 DEF RightInv
    <3>2. QED
      BY <1>0, <1>1, <2>2, <2>4, <3>1 DEF RightInv
  <2>8. DaysInOrder'
    <3>1. \A n \in DatedNames : \A x \in data'[n], y \in data'[FileName] : x < y
      BY <2>2
    <3>2. ASSUME NEW n \in DatedNames, NEW m \in DatedNames, n[1] < m[1],
                 NEW x \in data'[n], NEW y \in data'[m]
          PROVE  x < y
      <4>1. n # D
        BY <1>0, <1>1, <1>3, <1>6, <2>4, <3>2
      <4>2. x \in data[n]
        BY <2>4, <3>2, <4>1
      <4>3. CASE m = D
        BY <1>0, <2>2, <3>2, <4>2, <4>3 DEF DaysInOrder
      <4>4. CASE m # D
        BY <1>0, <2>4, <3>2, <4>2, <4>4 DEF DaysInOrder
      <4>5. QED
        BY <4>3, <4>4
    <3>3. QED
      BY <3>1, <3>2 DEF DaysInOrder
  <2>9. QED
    BY <1>5, <2>3, <2>5, <2>6, <2>7, <2>8 DEF DailyInv
<1>9. QED
  <2>1. [used EXCEPT !["faults"] = @ + 1] \in [crashes : Nat, faults : Nat, calls : Nat]
    BY <1>3
  <2>2. whole \in BOOLEAN
    BY <1>0 DEF DailyType
  <2>3. CASE /\ FileName \in present
             /\ present' = (present \ {FileName}) \cup {D}
             /\ data' = [data EXCEPT ![D] = data[FileName], ![FileName] = {}]
             /\ mtime' = [mtime EXCEPT ![D] = mtime[FileName]]
             /\ UNCHANGED <<whole, used>>
    BY <1>8, <2>3
  <2>4. CASE FileName \notin present /\ UNCHANGED <<present, data, mtime, whole, used>>
    BY <1>3, <1>7, <2>2, <2>4
  <2>5. CASE /\ whole' = FALSE /\ UNCHANGED <<present, data, mtime>>
             /\ used' = [used EXCEPT !["faults"] = @ + 1]
    BY <1>7, <2>1, <2>5
  <2>6. QED
    BY <1>2, <2>3, <2>4, <2>5, Zenon

\* An event is the youngest, and of today or, if it comes late, of the day that
\* was read.
LEMMA AppendDailyKeeps == DailyInv /\ AppendDaily => DailyInv'
<1> SUFFICES ASSUME DailyInv, AppendDaily PROVE DailyInv'
  OBVIOUS
<1> DEFINE s == [at |-> now, day |-> daily.day]
           e0 == logged + 1
<1>0. /\ DailyType /\ ClockInv /\ DatesInv /\ StampsInv /\ RightInv /\ DaysInOrder
      /\ FileName \in FileNames /\ DatedNames \subseteq FileNames
      /\ FileName \notin DatedNames
  BY FilesAssumption, DatedAssumption DEF DailyInv, DatedNames
<1>1. /\ daily.at = "write" /\ daily' = Idle /\ logged' = e0
      /\ stamps' = Append(stamps, s)
      /\ \/ /\ data' = IF fd \in FileNames THEN [data EXCEPT ![fd] = @ \cup {logged'}] ELSE data
            /\ UNCHANGED <<whole, used>>
         \/ /\ data' = data /\ whole' = FALSE
            /\ used' = [used EXCEPT !["faults"] = @ + 1]
      /\ mtime' = IF data' # data THEN [mtime EXCEPT ![fd] = now] ELSE mtime
      /\ UNCHANGED <<present, fd, append, running, now, maxDaysToKeep, logsTime>>
  BY DEF AppendDaily, Write, Use
<1>2. /\ logged \in Nat /\ now \in Nat /\ Day(now) \in Nat /\ logsTime \in Nat
      /\ daily.day = logsTime /\ logsTime <= Day(now) /\ running
      /\ data \in [FileNames -> SUBSET (1 .. logged)] /\ mtime \in [FileNames -> Nat]
      /\ used \in [crashes : Nat, faults : Nat, calls : Nat] /\ whole \in BOOLEAN
  BY <1>0, <1>1, DayFacts DEF ClockInv, DailyType
<1>3. e0 \in Nat /\ e0 \notin 1 .. logged /\ 1 .. e0 = (1 .. logged) \cup {e0}
  BY <1>2
<1>4. /\ stamps' \in Seq([at : Nat, day : Nat]) /\ Len(stamps') = e0
      /\ \A e \in 1 .. logged : stamps'[e] = stamps[e]
      /\ stamps'[e0].at = now /\ stamps'[e0].day = logsTime
  <2>1. stamps \in Seq([at : Nat, day : Nat]) /\ Len(stamps) = logged
    BY <1>0 DEF DailyType
  <2>2. s \in [at : Nat, day : Nat] /\ s.at = now /\ s.day = logsTime
    BY <1>2
  <2> HIDE DEF s
  <2>3. QED
    BY <1>1, <2>1, <2>2, AppendProperties
<1> HIDE DEF s, e0
<1>5. /\ \/ data' = data /\ mtime' = mtime
         \/ /\ fd = FileName /\ data' = [data EXCEPT ![FileName] = @ \cup {e0}]
            /\ mtime' = [mtime EXCEPT ![FileName] = now]
      /\ whole' => whole /\ used' = used
      /\ whole' \in BOOLEAN /\ used' \in [crashes : Nat, faults : Nat, calls : Nat]
  <2>1. fd \in FileNames => fd = FileName
    BY <1>0, FilesAssumption DEF DailyType
  <2>2. [data EXCEPT ![FileName] = @ \cup {e0}] # data
    <3>1. e0 \notin data[FileName]
      BY <1>0, <1>2, <1>3
    <3>2. [data EXCEPT ![FileName] = @ \cup {e0}][FileName] = data[FileName] \cup {e0}
      BY <1>0, <1>2
    <3>3. QED
      BY <3>1, <3>2
  <2>3. [used EXCEPT !["faults"] = @ + 1] \in [crashes : Nat, faults : Nat, calls : Nat]
    BY <1>2
  <2>4. \/ data' = data /\ mtime' = mtime
        \/ /\ fd = FileName /\ data' = [data EXCEPT ![FileName] = @ \cup {e0}]
           /\ mtime' = [mtime EXCEPT ![FileName] = now]
    <3>1. CASE fd \in FileNames /\ data' = [data EXCEPT ![fd] = @ \cup {logged'}]
      <4>1. fd = FileName /\ data' = [data EXCEPT ![FileName] = @ \cup {e0}]
        BY <1>1, <2>1, <3>1
      <4>2. mtime' = [mtime EXCEPT ![FileName] = now]
        BY <1>1, <2>2, <4>1
      <4>3. QED
        BY <4>1, <4>2
    <3>2. CASE data' = data
      BY <1>1, <3>2
    <3>3. \/ fd \in FileNames /\ data' = [data EXCEPT ![fd] = @ \cup {logged'}]
          \/ data' = data
      BY <1>1
    <3>4. QED
      BY <3>1, <3>2, <3>3, Zenon
  <2>5. /\ whole' => whole /\ used' = used
        /\ whole' \in BOOLEAN /\ used' \in [crashes : Nat, faults : Nat, calls : Nat]
    <3>1. CASE UNCHANGED <<whole, used>>
      BY <1>2, <3>1
    <3>2. CASE whole' = FALSE /\ used' = [used EXCEPT !["faults"] = @ + 1]
      BY <2>3, <3>2
    <3>3. QED
      BY <1>1, <3>1, <3>2
  <2>6. QED
    BY <2>4, <2>5
<1>6. /\ \A n \in DatedNames : data'[n] = data[n] /\ mtime'[n] = mtime[n]
      /\ \A n \in FileNames : mtime[n] <= mtime'[n] /\ mtime'[n] <= now
      /\ data'[FileName] \subseteq data[FileName] \cup {e0}
      /\ e0 \in data'[FileName] => mtime'[FileName] = now
      /\ mtime'[FileName] \in {mtime[FileName], now}
      /\ data' \in [FileNames -> SUBSET (1 .. logged')] /\ mtime' \in [FileNames -> Nat]
  <2>1. \A n \in FileNames : mtime[n] \in Nat /\ mtime[n] <= now
    BY <1>0 DEF DailyType
  <2>2. logged' = e0
    BY <1>1
  <2>3. CASE data' = data /\ mtime' = mtime
    <3>1. data \in [FileNames -> SUBSET (1 .. e0)] /\ e0 \notin data[FileName]
      BY <1>0, <1>2, <1>3
    <3>2. QED
      BY <1>0, <1>2, <2>1, <2>2, <2>3, <3>1
  <2>4. CASE /\ fd = FileName /\ data' = [data EXCEPT ![FileName] = @ \cup {e0}]
             /\ mtime' = [mtime EXCEPT ![FileName] = now]
    <3>1. /\ data'[FileName] = data[FileName] \cup {e0} /\ mtime'[FileName] = now
          /\ \A n \in FileNames \ {FileName} : data'[n] = data[n] /\ mtime'[n] = mtime[n]
      BY <1>0, <1>2, <2>4
    <3>2. data' \in [FileNames -> SUBSET (1 .. e0)] /\ mtime' \in [FileNames -> Nat]
      BY <1>0, <1>2, <1>3, <2>4
    <3>3. now <= now
      BY <1>2
    <3>4. \A n \in FileNames : mtime[n] <= mtime'[n] /\ mtime'[n] <= now
      BY <2>1, <3>1, <3>3
    <3>5. \A n \in DatedNames : data'[n] = data[n] /\ mtime'[n] = mtime[n]
      BY <1>0, <3>1
    <3>6. QED
      BY <2>2, <3>1, <3>2, <3>4, <3>5
  <2>5. QED
    BY <1>5, <2>3, <2>4
<1>7. DailyType'
  <2>1. \A n \in FileNames \ present' : data'[n] = {}
    BY <1>0, <1>1, <1>2, <1>5 DEF DailyType
  <2>2. daily' \in [at : Stages, day : Nat, oldest : Nat, left : SUBSET FileNames]
    BY <1>1 DEF Idle, Stages
  <2>3. /\ present' \subseteq FileNames /\ fd' \in {FileName, Closed, Unlinked}
        /\ (fd' = FileName => FileName \in present')
        /\ append' \in BOOLEAN /\ running' \in BOOLEAN
        /\ now' \in 0 .. MaxTime /\ maxDaysToKeep' \in DaysToKeep /\ logsTime' \in Nat
    BY <1>0, <1>1 DEF DailyType
  <2>4. \A n \in FileNames : mtime'[n] <= now'
    BY <1>1, <1>6
  <2>5. logged' \in Nat /\ Len(stamps') = logged'
    BY <1>1, <1>3, <1>4
  <2>6. QED
    BY <1>4, <1>5, <1>6, <2>1, <2>2, <2>3, <2>4, <2>5, Zenon DEF DailyType
<1>8. ClockInv'
  BY <1>0, <1>1 DEF ClockInv, Idle, Stages
<1>9. DatesInv'
  <2>1. SUFFICES ASSUME NEW n \in DatedNames, data[n] # {}
                 PROVE  /\ n[1] < Day(now) /\ n[1] < logsTime
                        /\ FileName \in present => n[1] < Day(mtime'[FileName])
    BY <1>1, <1>6 DEF DatesInv, Idle
  <2>2. /\ n[1] < Day(now) /\ n[1] < logsTime
        /\ FileName \in present => n[1] < Day(mtime[FileName])
    BY <1>0, <1>1, <1>2, <2>1 DEF DatesInv
  <2>3. QED
    BY <1>6, <2>2
<1>10. \A n \in FileNames : \A e \in data[n] : stamps'[e] = stamps[e]
  BY <1>2, <1>4
<1>11. StampsInv'
  <2>1. ASSUME NEW n \in FileNames, NEW e \in data'[n]
        PROVE  stamps'[e].at <= mtime'[n] /\ stamps'[e].day <= Day(stamps'[e].at)
    <3>1. CASE e \in data[n]
      <4>1. stamps'[e] = stamps[e] /\ e \in 1 .. logged
        BY <1>2, <1>10, <3>1
      <4>2. stamps[e].at \in Nat /\ mtime[n] \in Nat /\ mtime'[n] \in Nat
        BY <1>0, <1>2, <1>6, <4>1, StampFacts
      <4>3. /\ stamps[e].at <= mtime[n] /\ mtime[n] <= mtime'[n]
            /\ stamps[e].day <= Day(stamps[e].at)
        BY <1>0, <1>6, <3>1 DEF StampsInv
      <4>4. stamps[e].at <= mtime'[n]
        BY <4>2, <4>3
      <4>5. QED
        BY <4>1, <4>3, <4>4
    <3>2. CASE e \notin data[n]
      <4>1. n = FileName /\ e = e0
        BY <1>0, <1>2, <1>5, <1>6, <2>1, <3>2
      <4>2. QED
        BY <1>2, <1>4, <1>6, <2>1, <4>1
    <3>3. QED
      BY <3>1, <3>2
  <2>2. \A e \in data'[FileName] : stamps'[e].day <= logsTime'
    BY <1>0, <1>1, <1>2, <1>4, <1>6, <1>10 DEF StampsInv
  <2>3. \A n \in DatedNames : \A e \in data'[n] : stamps'[e].day <= n[1]
    BY <1>0, <1>6, <1>10 DEF StampsInv
  <2>4. QED
    BY <2>1, <2>2, <2>3 DEF StampsInv
<1>12. RightInv'
  <2>1. SUFFICES ASSUME whole', used'.crashes = 0
                 PROVE  /\ ~running' => logged' = 0
                        /\ daily'.at \in {"open", "oldest", "purge"} => data'[FileName] = {}
                        /\ \A e \in data'[FileName] : stamps'[e].day = logsTime'
                        /\ \A n \in DatedNames : \A e \in data'[n] : stamps'[e].day = n[1]
    BY DEF RightInv
  <2>2. whole /\ used.crashes = 0
    BY <1>5, <2>1
  <2>3. /\ \A e \in data[FileName] : stamps[e].day = logsTime
        /\ \A n \in DatedNames : \A e \in data[n] : stamps[e].day = n[1]
    BY <1>0, <2>2 DEF RightInv
  <2>4. running' /\ daily'.at = "no"
    BY <1>1, <1>2 DEF Idle
  <2>5. \A e \in data'[FileName] : stamps'[e].day = logsTime'
    BY <1>0, <1>1, <1>4, <1>6, <1>10, <2>3
  <2>6. \A n \in DatedNames : \A e \in data'[n] : stamps'[e].day = n[1]
    BY <1>0, <1>6, <1>10, <2>3
  <2>7. QED
    BY <2>4, <2>5, <2>6
<1>13. DaysInOrder'
  <2>1. ASSUME NEW n \in DatedNames, NEW x \in data'[n], NEW y \in data'[FileName]
        PROVE  x < y
    <3>1. x \in data[n] /\ x \in 1 .. logged
      BY <1>0, <1>2, <1>6, <2>1
    <3>2. CASE y \in data[FileName]
      BY <1>0, <3>1, <3>2 DEF DaysInOrder
    <3>3. CASE y = e0
      BY <1>2, <3>1, <3>3 DEF e0
    <3>4. QED
      BY <1>6, <2>1, <3>2, <3>3
  <2>2. \A n, m \in DatedNames : n[1] < m[1] => \A x \in data'[n], y \in data'[m] : x < y
    BY <1>0, <1>6 DEF DaysInOrder
  <2>3. QED
    BY <2>1, <2>2 DEF DaysInOrder
<1>14. QED
  BY <1>7, <1>8, <1>9, <1>11, <1>12, <1>13 DEF DailyInv

\* The constructor has not run: there is no file yet.
LEMMA InitDaily == DailyInit => DailyInv
<1> SUFFICES ASSUME DailyInit PROVE DailyInv
  OBVIOUS
<1>1. /\ present = {} /\ data = [n \in FileNames |-> {}] /\ fd = Closed /\ append = TRUE
      /\ running = FALSE /\ logged = 0 /\ whole = TRUE
      /\ used = [crashes |-> 0, faults |-> 0, calls |-> 0]
      /\ now = 0 /\ mtime = [n \in FileNames |-> 0] /\ maxDaysToKeep \in DaysToKeep
      /\ logsTime = 0 /\ daily = Idle /\ stamps = <<>>
  BY DEF DailyInit, FileInit
<1>2. FileName \in FileNames /\ DatedNames \subseteq FileNames
  BY FilesAssumption DEF DatedNames
<1>3. DailyType
  <2>1. used \in [crashes : Nat, faults : Nat, calls : Nat]
    BY <1>1
  <2>2. stamps \in Seq([at : Nat, day : Nat]) /\ Len(stamps) = 0
    BY <1>1
  <2>3. now \in 0 .. MaxTime /\ mtime \in [FileNames -> Nat] /\ \A n \in FileNames : mtime[n] <= now
    BY <1>1, DailyAssumption
  <2>4. daily \in [at : Stages, day : Nat, oldest : Nat, left : SUBSET FileNames]
    BY <1>1 DEF Idle, Stages
  <2>5. data \in [FileNames -> SUBSET (1 .. logged)] /\ \A n \in FileNames : data[n] = {}
    BY <1>1
  <2>6. QED
    BY <1>1, <2>1, <2>2, <2>3, <2>4, <2>5, FilesAssumption DEF DailyType
<1>4. \A n \in FileNames : data[n] = {}
  BY <1>1
<1>5. ClockInv
  <2>1. Day(0) \in Nat
    BY DayMono
  <2>2. QED
    BY <1>1, <2>1 DEF ClockInv, Idle, Stages
<1>6. QED
  BY <1>1, <1>2, <1>3, <1>4, <1>5 DEF DailyInv, DatesInv, StampsInv, RightInv, DaysInOrder, Idle

\* Every step of the appender keeps the invariant.
LEMMA DailyNextKeeps == DailyInv /\ [DailyNext]_dailyAll => DailyInv'
<1> SUFFICES ASSUME DailyInv, [DailyNext]_dailyAll PROVE DailyInv'
  OBVIOUS
<1>1. CASE UNCHANGED dailyAll
  BY <1>1 DEF dailyAll, fileVars, dailyVars, DailyInv, DailyType, ClockInv, DatesInv, StampsInv,
              RightInv, DaysInOrder
<1>2. CASE DailyNext
  BY <1>2, TickKeeps, ConstructDailyKeeps, SetDaysKeeps, CheckDayKeeps, RenameDatedKeeps,
     OpenDatedKeeps, FindOldestKeeps, PurgeKeeps, PurgeEndsKeeps, AppendDailyKeeps,
     CrashDailyKeeps, CallDailyKeeps DEF DailyNext
<1>3. QED
  BY <1>1, <1>2

\* The inductive invariant of the appender with a file a day.
THEOREM DailyInvariance == DailySpec => []DailyInv
<1>1. DailyInv /\ [DailyNext]_<<fileVars, dailyVars>> => DailyInv'
  BY DailyNextKeeps DEF dailyAll
<1>2. QED
  BY InitDaily, <1>1, PTL DEF DailySpec

\* Whatever failed, however late a write came and wherever the process was
\* killed, what is in the file of a day was logged before what is in the file of
\* a later day and in the current one.
THEOREM DaysAlwaysInOrder == DailySpec => []DaysInOrder
<1>1. DailyInv => DaysInOrder
  BY DEF DailyInv
<1>2. QED
  BY DailyInvariance, <1>1, PTL

\* No event is in the file of a day before its own, and without a failure or a
\* restart it is in the file of its own day.
THEOREM DaysAreRight == DailySpec => []DayIsRight
<1>1. DailyInv => DayIsRight
  BY DEF DailyInv, StampsInv, RightInv, DayIsRight
<1>2. QED
  BY DailyInvariance, <1>1, PTL

-----------------------------------------------------------------------------
(* What rollOver() deletes. *)

\* What was in a file and is in none was in a file that changed.
LEMMA GivenUp ==
  ASSUME NEW e \in Kept \ Kept'
  PROVE  \E n \in FileNames : e \in data[n] /\ e \notin data'[n]
  BY DEF Kept

\* A step of rollOver() that is not Purge gives up nothing, unless it fails.
LEMMA OthersKeep ==
  ASSUME DailyInv, [DailyNext]_dailyAll, ~Purge, daily # Idle, whole'
  PROVE  Kept \subseteq Kept'
<1>0. /\ DailyType /\ DatesInv /\ ClockInv /\ FileName \in FileNames
      /\ DatedNames \subseteq FileNames /\ append \in BOOLEAN
  BY FilesAssumption DEF DailyInv, DatedNames, DailyType
<1>1. data' = data => Kept \subseteq Kept'
  BY DEF Kept
<1>2. CASE RenameDated
  <2> DEFINE D == Dated(logsTime)
  <2>1. D \in FileNames /\ D \in DatedNames /\ D[1] = logsTime /\ logsTime \in Nat
    BY <1>0, DayFacts DEF DailyType
  <2>2. daily.at = "rename" /\ running
    BY <1>0, <1>2 DEF RenameDated, ClockInv
  <2>3. data[D] = {}
    <3>1. data[D] # {} => D[1] < logsTime
      BY <1>0, <2>1, <2>2 DEF DatesInv
    <3>2. QED
      BY <2>1, <3>1
  <2>4. data' = data \/ data' = [data EXCEPT ![D] = data[FileName], ![FileName] = {}]
    BY <1>2 DEF RenameDated, Rename, Moved
  <2>5. CASE data' = [data EXCEPT ![D] = data[FileName], ![FileName] = {}]
    <3>1. data \in [FileNames -> SUBSET (1 .. logged)] /\ D # FileName
      BY <1>0, DayFacts DEF DailyType
    <3> HIDE DEF D
    <3>2. /\ data'[D] = data[FileName]
          /\ \A n \in FileNames \ {D, FileName} : data'[n] = data[n]
      BY <1>0, <2>1, <2>5, <3>1
    <3>3. ASSUME NEW e \in Kept \ Kept' PROVE FALSE
      <4>1. PICK n \in FileNames : e \in data[n] /\ e \notin data'[n]
        BY <3>3, GivenUp
      <4>2. n = FileName
        BY <2>3, <3>2, <4>1
      <4>3. e \in data'[D]
        BY <3>2, <4>1, <4>2
      <4>4. QED
        BY <2>1, <3>3, <4>3 DEF Kept
    <3>4. QED
      BY <3>3
  <2>6. QED
    BY <1>1, <2>4, <2>5
<1>3. CASE OpenDated
  BY <1>0, <1>1, <1>3, DailyOpenFacts DEF OpenDated
<1>4. CASE AppendDaily
  <2>1. data' = data \/ (fd \in FileNames /\ data' = [data EXCEPT ![fd] = @ \cup {logged'}])
    BY <1>4 DEF AppendDaily, Write
  <2>2. ASSUME NEW n \in FileNames PROVE data[n] \subseteq data'[n]
    BY <1>0, <2>1 DEF DailyType
  <2>3. QED
    BY <2>2 DEF Kept
<1>5. CASE Tick \/ FindOldest \/ PurgeEnds \/ CrashDaily \/ UNCHANGED dailyAll
  BY <1>1, <1>5 DEF Tick, FindOldest, PurgeEnds, CrashDaily, Crash, dailyAll, fileVars
<1>6. ~ConstructDaily
  BY <1>0 DEF ConstructDaily, Construct, ClockInv
<1>7. ~setMaxDaysToKeep /\ ~CheckDay /\ ~CallDaily
  BY DEF setMaxDaysToKeep, CheckDay, CallDaily
<1>8. QED
  BY <1>2, <1>3, <1>4, <1>5, <1>6, <1>7 DEF DailyNext

\* What Purge deletes is older than the limit rollOver() computed.
LEMMA PurgeFacts ==
  ASSUME DailyInv, Purge, NEW e \in Kept \ Kept'
  PROVE  /\ stamps[e].at \in Nat /\ stamps[e].at < daily.oldest
         /\ daily.oldest \in Nat
         /\ daily.oldest + ((maxDaysToKeep * DayLength) % Wrap) <= now
<1>1. DailyType /\ ClockInv /\ StampsInv /\ daily.at = "purge"
  BY DEF DailyInv, Purge
<1>2. PICK m \in Outdated : data' = [data EXCEPT ![m] = {}] \/ data' = data
  BY DEF Purge, Unlink, Remove
<1>3. PICK n \in FileNames : e \in data[n] /\ e \notin data'[n]
  BY GivenUp
<1>4. n = m
  BY <1>1, <1>2, <1>3 DEF DailyType
<1>5. mtime[n] < daily.oldest
  BY <1>2, <1>4 DEF Outdated
<1>6. e \in 1 .. logged /\ mtime[n] \in Nat /\ daily.oldest \in Nat
  BY <1>1, <1>3 DEF DailyType
<1>7. stamps[e].at \in Nat /\ stamps[e].at <= mtime[n]
  BY <1>1, <1>3, <1>6, StampFacts DEF StampsInv
<1>8. stamps[e].at < daily.oldest /\ daily.oldest # 0
  BY <1>5, <1>6, <1>7
<1>9. QED
  BY <1>1, <1>6, <1>7, <1>8 DEF ClockInv

\* As long as nothing failed, rollOver() gives up no event of the last
\* maxDaysToKeep days, where that many days, in seconds, fit an unsigned int
\* (up to 49710 days).
THEOREM RecentDaysKept ==
  ASSUME \A k \in DaysToKeep : k * DayLength < Wrap
  PROVE  DailySpec => KeepsDays
<1>1. ASSUME DailyInv, [DailyNext]_dailyAll, daily # Idle, whole', NEW e \in Kept \ Kept'
      PROVE  stamps[e].at + maxDaysToKeep * DayLength < now
  <2> DEFINE span == maxDaysToKeep * DayLength
  <2>1. Purge
    BY <1>1, OthersKeep
  <2>2. /\ stamps[e].at \in Nat /\ stamps[e].at < daily.oldest
        /\ daily.oldest \in Nat /\ daily.oldest + (span % Wrap) <= now
    BY <1>1, <2>1, PurgeFacts
  <2>3. maxDaysToKeep \in DaysToKeep /\ maxDaysToKeep \in Nat /\ now \in Nat
    BY <1>1, DailyAssumption DEF DailyInv, DailyType
  <2>4. span \in Nat /\ span < Wrap
    BY <2>3, DailyAssumption
  <2> HIDE DEF span
  <2>5. span % Wrap = span
    BY <2>4, DailyAssumption
  <2>6. stamps[e].at + span < now
    BY <2>2, <2>3, <2>4, <2>5
  <2>7. QED
    BY <2>6 DEF span
<1>2. DailyInv /\ [DailyNext]_<<fileVars, dailyVars>> =>
        [daily # Idle /\ whole' => \A e \in Kept \ Kept' :
           stamps[e].at + maxDaysToKeep * DayLength < now]_<<fileVars, dailyVars>>
  BY <1>1 DEF dailyAll
<1>3. QED
  BY DailyInvariance, <1>2, PTL DEF DailySpec, KeepsDays

-----------------------------------------------------------------------------
(* How much the rolling appender keeps. *)

Full(n) == Cardinality(data[n]) >= MaxFileSize

\* The backups below k that are not full, but for the one that is about to be
\* filled by the next rename.
Short(k) ==
  {j \in 1 .. k - 1 : (roll.at = "rename" => j # roll.i) /\ ~Full(Backup(j))}

\* As long as nothing failed, only kills have left holes below a backup.
RecentInv ==
  /\ cuts \in Nat
  /\ whole =>
       /\ roll.at \in {"remove", "rename"} => Full(FileName)
       /\ \A k \in 1 .. maxBackupIndex :
            data[Backup(k)] # {} => Cardinality(Short(k)) <= cuts

\* A set of numbers has a least one.
LEMMA LeastNumber ==
  ASSUME NEW T \in SUBSET Nat, T # {}
  PROVE  \E x \in T : \A y \in T : x <= y
<1> DEFINE R == OpToRel(<, Nat)
<1>1. IsWellFoundedOn(R, Nat)
  BY NatLessThanWellFounded, Zenon DEF OpToRel
<1>2. \A x, y \in Nat : <<y, x>> \in R <=> y < x
  BY DEF OpToRel
<1> HIDE DEF R
<1>3. PICK x \in T : \A y \in T : ~ (<<y, x>> \in R)
  BY <1>1, WFMin
<1>4. \A y \in T : ~ (y < x)
  BY <1>2, <1>3
<1> QED BY <1>4

\* m files that share no event, all the events of theirs, and those of them that
\* hold fewer than M.
Apart(m, D, S) ==
  /\ D \in [1 .. m -> SUBSET S] /\ IsFiniteSet(S)
  /\ \A i, j \in 1 .. m : i # j => D[i] \cap D[j] = {}
AllOf(m, D) == UNION {D[j] : j \in 1 .. m}
FewIn(m, D, M) == {j \in 1 .. m : ~(Cardinality(D[j]) >= M)}

\* Each of them that is not short adds M events.
LEMMA ManyEvents ==
  ASSUME NEW m \in Nat, NEW S, NEW D, Apart(m, D, S), NEW M \in Nat
  PROVE  /\ Cardinality(FewIn(m, D, M)) \in Nat
         /\ Cardinality(AllOf(m, D)) >= (m - Cardinality(FewIn(m, D, M))) * M
<1>0. /\ D \in [1 .. m -> SUBSET S] /\ IsFiniteSet(S)
      /\ \A i, j \in 1 .. m : i # j => D[i] \cap D[j] = {}
  BY DEF Apart
<1> DEFINE U(k) == UNION {D[j] : j \in 1 .. k}
           short(k) == {j \in 1 .. k : ~(Cardinality(D[j]) >= M)}
           Good(k) == Cardinality(U(k)) >= (k - Cardinality(short(k))) * M
<1>1. ASSUME NEW k \in 0 .. m
      PROVE  /\ IsFiniteSet(U(k)) /\ Cardinality(U(k)) \in Nat
             /\ IsFiniteSet(short(k)) /\ Cardinality(short(k)) \in Nat
  <2>1. U(k) \in SUBSET S
    BY <1>0
  <2>2. IsFiniteSet(1 .. k)
    BY FS_Interval
  <2>3. short(k) \in SUBSET (1 .. k)
    OBVIOUS
  <2> HIDE DEF U, short
  <2> QED BY <1>0, <2>1, <2>2, <2>3, FS_Subset, FS_CardinalityType
<1>2. Good(0)
  <2>1. U(0) = {} /\ short(0) = {}
    OBVIOUS
  <2> HIDE DEF U, short
  <2>2. Cardinality(U(0)) = 0 /\ Cardinality(short(0)) = 0
    BY <2>1, FS_EmptySet
  <2> QED BY <2>2
<1>3. ASSUME NEW k \in 1 .. m, Good(k - 1) PROVE Good(k)
  <2> DEFINE n == k - 1
             u == Cardinality(U(n))
             s == Cardinality(short(n))
             c == Cardinality(D[k])
  <2>1. n \in 0 .. m /\ n \in Nat /\ 1 .. k = (1 .. n) \cup {k} /\ k \notin 1 .. n
    OBVIOUS
  <2>2. U(k) = U(n) \cup D[k] /\ U(n) \cap D[k] = {}
    <3>1. \A e : e \in U(k) <=> e \in U(n) \/ e \in D[k]
      BY <2>1
    <3>2. \A e : ~(e \in U(n) /\ e \in D[k])
      BY <1>0, <2>1
    <3> QED BY <3>1, <3>2
  <2>3. IsFiniteSet(D[k]) /\ c \in Nat
    <3>1. D[k] \in SUBSET S
      BY <1>0
    <3> QED BY <1>0, <3>1, FS_Subset, FS_CardinalityType
  <2>4. u \in Nat /\ s \in Nat /\ IsFiniteSet(U(n)) /\ IsFiniteSet(short(n))
    BY <1>1, <2>1
  <2>5. u >= (n - s) * M
    BY <1>3
  <2>6. short(k) = IF c >= M THEN short(n) ELSE short(n) \cup {k}
    <3>1. \A j : j \in short(k) <=> j \in short(n) \/ (j = k /\ ~(c >= M))
      BY <2>1
    <3> QED BY <3>1
  <2>7. k \notin short(n)
    BY <2>1
  <2> HIDE DEF U, short, Good
  <2>8. Cardinality(U(k)) = u + c
    <3>1. Cardinality(U(n) \cup D[k]) = u + c - Cardinality({})
      BY <2>2, <2>3, <2>4, FS_Union
    <3>2. Cardinality({}) = 0
      BY FS_EmptySet
    <3> HIDE DEF u, c
    <3> QED BY <2>2, <2>3, <2>4, <3>1, <3>2
  <2>9. Cardinality(short(k)) = IF c >= M THEN s ELSE s + 1
    BY <2>4, <2>6, <2>7, FS_AddElement
  <2>10. k = n + 1
    BY <2>1
  <2> HIDE DEF n, u, s, c
  <2>11. u + c >= (k - Cardinality(short(k))) * M
    <3>1. CASE c >= M
      <4>1. (n + 1 - s) * M = (n - s) * M + M
        BY <2>1, <2>4
      <4> QED BY <2>1, <2>3, <2>4, <2>5, <2>9, <2>10, <3>1, <4>1
    <3>2. CASE ~(c >= M)
      <4>1. n + 1 - (s + 1) = n - s
        BY <2>1, <2>4
      <4>2. k - Cardinality(short(k)) = n - s
        BY <2>1, <2>4, <2>9, <2>10, <3>2, <4>1
      <4>3. (n - s) * M \in Int
        BY <2>1, <2>4
      <4> QED BY <2>3, <2>4, <2>5, <4>2, <4>3
    <3> QED BY <3>1, <3>2
  <2> QED BY <2>8, <2>11 DEF Good
<1>4. Good(m)
  <2> DEFINE Bad == {k \in 0 .. m : ~Good(k)}
  <2> HIDE DEF Good
  <2>1. SUFFICES ASSUME ~Good(m) PROVE FALSE
    OBVIOUS
  <2>2. Bad \in SUBSET Nat /\ Bad # {}
    BY <2>1
  <2>3. PICK k \in Bad : \A j \in Bad : k <= j
    BY <2>2, LeastNumber
  <2>4. k \in 1 .. m /\ ~Good(k)
    BY <1>2, <2>3
  <2>5. k - 1 \in 0 .. m /\ ~(k <= k - 1)
    BY <2>4
  <2>6. Good(k - 1)
    BY <2>3, <2>5
  <2> QED BY <1>3, <2>4, <2>6
<1>5. m \in 0 .. m
  OBVIOUS
<1>6. IsFiniteSet(short(m)) /\ Cardinality(short(m)) \in Nat
  BY <1>1, <1>5
<1>7. FewIn(m, D, M) = short(m) /\ AllOf(m, D) = U(m)
  BY DEF FewIn, AllOf
<1> QED BY <1>4, <1>6, <1>7, Zenon

\* The holes below a backup can be counted.
LEMMA ShortIsFinite ==
  ASSUME NEW k \in Nat
  PROVE  IsFiniteSet(Short(k)) /\ Cardinality(Short(k)) \in Nat
<1>1. IsFiniteSet(1 .. k - 1) /\ Short(k) \in SUBSET (1 .. k - 1)
  BY FS_Interval DEF Short
<1> QED BY <1>1, FS_Subset, FS_CardinalityType

\* As long as nothing failed there is a backup to keep.
LEMMA WholeFacts ==
  ASSUME IInv
  PROVE  /\ maxBackupIndex \in Nat /\ MaxFileSize \in Nat
         /\ whole => maxBackupIndex > 0
         /\ data \in [FileNames -> SUBSET (1 .. logged)] /\ logged \in Nat
         /\ \A i \in 1 .. maxBackupIndex :
              Backup(i) \in FileNames /\ Backup(i) \in BackupNames /\ Backup(i) # FileName
         /\ \A i, j \in 1 .. maxBackupIndex : Backup(i) = Backup(j) => i = j
<1>1. maxBackupIndex \in Indexes \cup {1} /\ maxBackupIndex \in Nat /\ configured \in Nat
  BY RollingAssumption DEF IInv, TypeInv
<1>2. whole => maxBackupIndex > 0
  BY <1>1 DEF IInv, WholeInv, AtLeastOne
<1>3. \A i \in 1 .. maxBackupIndex : /\ Backup(i) \in FileNames /\ Backup(i) \in BackupNames
                                     /\ Backup(i) # FileName /\ Backup(i)[2] = i
  BY <1>1, BackupFacts
<1> QED BY <1>1, <1>2, <1>3, RollingAssumption DEF IInv, TypeInv

\* Steps that leave the files alone, if nothing fails.
LEMMA RecentStays ==
  ASSUME RecentInv, cuts' = cuts,
         whole' => whole /\ data' = data /\ maxBackupIndex' = maxBackupIndex,
         roll' = roll \/ (roll.at # "rename" /\ roll'.at \notin {"remove", "rename"})
  PROVE  RecentInv'
<1> SUFFICES ASSUME whole'
             PROVE  /\ roll'.at \in {"remove", "rename"} => Full(FileName)'
                    /\ \A k \in 1 .. maxBackupIndex' :
                         data'[Backup(k)'] # {} => Cardinality(Short(k)') <= cuts'
  BY DEF RecentInv
<1>1. whole /\ data' = data /\ maxBackupIndex' = maxBackupIndex
  OBVIOUS
<1>2. \A n : Full(n)' = Full(n) /\ Backup(n)' = Backup(n)
  BY <1>1 DEF Full, Backup
<1>3. roll'.at \in {"remove", "rename"} => Full(FileName)'
  BY <1>1, <1>2 DEF RecentInv
<1>4. \A k : Short(k)' = Short(k)
  <2>1. CASE roll' = roll
    BY <1>2, <2>1 DEF Short
  <2>2. CASE roll.at # "rename" /\ roll'.at # "rename"
    <3>1. \A k : Short(k) = {j \in 1 .. k - 1 : ~Full(Backup(j))}
      BY <2>2 DEF Short
    <3>2. \A k : Short(k)' = {j \in 1 .. k - 1 : ~Full(Backup(j))'}
      BY <2>2 DEF Short
    <3>3. \A j : Full(Backup(j))' = Full(Backup(j))
      BY <1>1 DEF Full, Backup
    <3> QED BY <3>1, <3>2, <3>3
  <2> QED BY <2>1, <2>2
<1> QED BY <1>1, <1>2, <1>3, <1>4 DEF RecentInv

\* As long as no setting was changed, the size is that of the configuration.
SizeInv == whole => maxFileSize = MaxFileSize

\* Every step keeps it so: a setter gives whole up.
LEMMA SizeInvariance == IInv /\ SizeInv /\ [RollingNext]_allVars => SizeInv'
<1> SUFFICES ASSUME IInv, SizeInv, [RollingNext]_allVars, whole'
             PROVE  maxFileSize' = MaxFileSize
  BY DEF SizeInv
<1>1. CASE ConstructRolling
  BY <1>1 DEF ConstructRolling
<1>2. CASE setMaxBackupIndex \/ setMaximumFileSize
  BY <1>2 DEF setMaxBackupIndex, setMaximumFileSize
<1>3. CASE AppendRolling
  BY <1>3 DEF AppendRolling, Write, SizeInv
<1>4. CASE RemoveLast \/ RenameNext
  BY <1>4 DEF RemoveLast, RenameNext, SizeInv
<1>5. CASE OpenNext
  BY <1>5 DEF OpenNext, SizeInv
<1>6. CASE CrashRolling
  BY <1>6 DEF CrashRolling, Crash, SizeInv
<1>7. CASE CallRolling
  BY <1>7 DEF CallRolling, close, reopen, setAppend, rollVars, SizeInv
<1>8. CASE UNCHANGED allVars
  BY <1>8 DEF allVars, fileVars, rollVars, SizeInv
<1> QED BY <1>1, <1>2, <1>3, <1>4, <1>5, <1>6, <1>7, <1>8 DEF RollingNext

\* An event is appended, and the file is full if it is to be rolled.
LEMMA AppendKeepsRecent == IInv /\ SizeInv /\ RecentInv /\ AppendRolling => RecentInv'
<1> SUFFICES ASSUME IInv, SizeInv, RecentInv, AppendRolling, whole'
             PROVE  /\ roll'.at \in {"remove", "rename"} => Full(FileName)'
                    /\ \A k \in 1 .. maxBackupIndex' :
                         data'[Backup(k)'] # {} => Cardinality(Short(k)') <= cuts'
  BY DEF RecentInv, AppendRolling
<1>1. /\ Write /\ TypeInv /\ fd \in {FileName, Closed} /\ Closed \notin FileNames
      /\ roll = AtRest /\ maxBackupIndex' = maxBackupIndex /\ cuts' = cuts
  BY FilesAssumption DEF AppendRolling, IInv, TypeInv
<1>2. whole /\ \A n \in FileNames \ {FileName} : data'[n] = data[n]
  BY <1>1, WriteFacts
<1>3. roll.at # "rename" /\ roll'.at # "rename"
  BY <1>1 DEF AppendRolling, AtRest, Renamed
<1>4. roll'.at = "remove" => Full(FileName)'
  <2>1. roll'.at = "remove" => fd \in FileNames /\ Cardinality(data'[fd]) >= maxFileSize
    BY <1>1 DEF AppendRolling, AtRest
  <2> QED BY <1>1, <1>2, <2>1 DEF Full, SizeInv
<1>5. \A k \in 1 .. maxBackupIndex :
        /\ Backup(k)' = Backup(k) /\ data'[Backup(k)'] = data[Backup(k)]
        /\ Full(Backup(k))' = Full(Backup(k))
  BY <1>1, <1>2, WholeFacts DEF Full, Backup
<1>6. ASSUME NEW k \in 1 .. maxBackupIndex PROVE Short(k)' = Short(k)
  <2>1. Short(k) = {j \in 1 .. k - 1 : ~Full(Backup(j))}
    BY <1>3 DEF Short
  <2>2. Short(k)' = {j \in 1 .. k - 1 : ~Full(Backup(j))'}
    BY <1>3 DEF Short
  <2>3. \A j \in 1 .. k - 1 : Full(Backup(j))' = Full(Backup(j))
    BY <1>5, WholeFacts
  <2> QED BY <2>1, <2>2, <2>3
<1>7. \A k \in 1 .. maxBackupIndex : data[Backup(k)] # {} => Cardinality(Short(k)) <= cuts
  BY <1>2 DEF RecentInv
<1> QED BY <1>1, <1>3, <1>4, <1>5, <1>6, <1>7

\* The last backup is removed, or the rename that is next overwrites it.
LEMMA RemoveKeepsRecent == IInv /\ RecentInv /\ RemoveLast => RecentInv'
<1> SUFFICES ASSUME IInv, RecentInv, RemoveLast, whole'
             PROVE  /\ Full(FileName)'
                    /\ \A k \in 1 .. maxBackupIndex' :
                         data'[Backup(k)'] # {} => Cardinality(Short(k)') <= cuts'
  BY DEF RecentInv, RemoveLast
<1>1. /\ roll.at = "remove" /\ roll'.at = "rename" /\ roll'.i = roll.i
      /\ whole /\ maxBackupIndex' = maxBackupIndex /\ cuts' = cuts
  BY DEF RemoveLast, IInv, RollInv
<1>2. roll.i = maxBackupIndex /\ maxBackupIndex \in Nat /\ maxBackupIndex > 0
  BY <1>1, WholeFacts DEF IInv, WholeInv
<1>3. \A n \in FileNames : n # Backup(maxBackupIndex) => data'[n] = data[n]
  <2>1. CASE Remove(Backup(maxBackupIndex))
    BY <2>1, WholeFacts DEF Remove
  <2>2. CASE data' = data
    BY <2>2
  <2> QED BY <2>1, <2>2 DEF RemoveLast
<1>4. data'[Backup(maxBackupIndex)] # {} => data'[Backup(maxBackupIndex)] = data[Backup(maxBackupIndex)]
  <2>1. CASE Remove(Backup(maxBackupIndex))
    BY <1>2, <2>1, WholeFacts DEF Remove
  <2>2. CASE data' = data
    BY <2>2
  <2> QED BY <2>1, <2>2 DEF RemoveLast
<1>5. Full(FileName)'
  <2>1. Full(FileName) /\ FileName \in FileNames /\ FileName # Backup(maxBackupIndex)
    BY <1>1, <1>2, WholeFacts, FilesAssumption DEF RecentInv
  <2> QED BY <1>3, <2>1 DEF Full
<1>6. \A k : Backup(k)' = Backup(k)
  BY <1>1 DEF Backup
<1>7. ASSUME NEW k \in 1 .. maxBackupIndex PROVE Short(k)' = Short(k)
  <2>1. Short(k) = {j \in 1 .. k - 1 : ~Full(Backup(j))}
    BY <1>1 DEF Short
  <2>2. Short(k)' = {j \in 1 .. k - 1 : j # maxBackupIndex /\ ~Full(Backup(j))'}
    BY <1>1, <1>2 DEF Short
  <2>3. ASSUME NEW j \in 1 .. k - 1
        PROVE  j # maxBackupIndex /\ Full(Backup(j))' = Full(Backup(j))
    <3>1. j \in 1 .. maxBackupIndex /\ j # maxBackupIndex
      BY <1>2
    <3>2. Backup(j) \in FileNames /\ Backup(j) # Backup(maxBackupIndex)
      BY <1>2, <3>1, WholeFacts
    <3> QED BY <1>3, <1>6, <3>1, <3>2 DEF Full
  <2> QED BY <2>1, <2>2, <2>3
<1>8. ASSUME NEW k \in 1 .. maxBackupIndex, data'[Backup(k)] # {}
      PROVE  data[Backup(k)] # {}
  <2>1. Backup(k) \in FileNames
    BY WholeFacts
  <2> QED BY <1>3, <1>4, <1>8, <2>1
<1>9. \A k \in 1 .. maxBackupIndex : data[Backup(k)] # {} => Cardinality(Short(k)) <= cuts
  BY <1>1 DEF RecentInv
<1> QED BY <1>1, <1>5, <1>6, <1>7, <1>8, <1>9

\* A finite set and one more element: at most one larger, and one larger when the
\* element is new.
LEMMA AddOne ==
    ASSUME NEW S, IsFiniteSet(S), NEW x
    PROVE  /\ IsFiniteSet(S \cup {x})
           /\ Cardinality(S \cup {x}) <= Cardinality(S) + 1
           /\ x \notin S => Cardinality(S \cup {x}) = Cardinality(S) + 1
<1>1. Cardinality(S) \in Nat
  BY FS_CardinalityType
<1>2. /\ IsFiniteSet(S \cup {x})
      /\ Cardinality(S \cup {x}) = IF x \in S THEN Cardinality(S) ELSE Cardinality(S) + 1
  BY FS_AddElement
<1> QED BY <1>1, <1>2

\* A kill leaves the hole of the rename that was next.
LEMMA CrashKeepsRecent == IInv /\ RecentInv /\ CrashRolling => RecentInv'
<1> SUFFICES ASSUME IInv, RecentInv, CrashRolling PROVE RecentInv'
  OBVIOUS
<1>1. /\ whole' = whole /\ data' = data /\ maxBackupIndex' = maxBackupIndex
      /\ roll' = AtRest /\ cuts \in Nat
      /\ cuts' = IF roll.at = "rename" /\ roll.i < maxBackupIndex THEN cuts + 1 ELSE cuts
  BY DEF CrashRolling, Crash, RecentInv
<1>2. \A n : Full(n)' = Full(n) /\ Backup(n)' = Backup(n)
  BY <1>1 DEF Full, Backup
<1>3. \A k : Short(k)' = {j \in 1 .. k - 1 : ~Full(Backup(j))'}
  BY <1>1 DEF Short, AtRest
<1>4. \A j : Full(Backup(j))' = Full(Backup(j))
  BY <1>1 DEF Full, Backup
<1>5. ASSUME whole, NEW k \in 1 .. maxBackupIndex, data[Backup(k)] # {}
      PROVE  Cardinality(Short(k)') <= cuts'
  <2>1. /\ Cardinality(Short(k)) <= cuts /\ IsFiniteSet(Short(k)) /\ Cardinality(Short(k)) \in Nat
        /\ k \in Nat /\ maxBackupIndex \in Nat
    BY <1>5, ShortIsFinite, WholeFacts DEF RecentInv
  <2>2. CASE roll.at = "rename" /\ roll.i < maxBackupIndex
    <3>1. Short(k)' \in SUBSET (Short(k) \cup {roll.i})
      BY <1>3, <1>4 DEF Short
    <3>2. IsFiniteSet(Short(k) \cup {roll.i}) /\ Cardinality(Short(k) \cup {roll.i}) <= Cardinality(Short(k)) + 1
      BY <2>1, AddOne
    <3>3. Cardinality(Short(k)') <= Cardinality(Short(k) \cup {roll.i})
      BY <3>1, <3>2, FS_Subset
    <3>4. Cardinality(Short(k)') \in Nat /\ Cardinality(Short(k) \cup {roll.i}) \in Nat
      BY <3>1, <3>2, FS_Subset, FS_CardinalityType
    <3> QED BY <1>1, <2>1, <2>2, <3>2, <3>3, <3>4
  <2>3. CASE ~(roll.at = "rename" /\ roll.i < maxBackupIndex)
    <3>1. Short(k)' = Short(k)
      <4>1. ASSUME NEW j \in 1 .. k - 1, roll.at = "rename" PROVE j # roll.i
        <5>1. roll.i \in Nat /\ roll.i >= maxBackupIndex /\ j < maxBackupIndex
          BY <2>1, <2>3, <4>1 DEF IInv, RollInv
        <5> QED BY <2>1, <4>1, <5>1
      <4>2. Short(k) = {j \in 1 .. k - 1 : ~Full(Backup(j))}
        BY <4>1 DEF Short
      <4> QED BY <1>3, <1>4, <4>2
    <3> QED BY <1>1, <2>1, <2>3, <3>1
  <2> QED BY <2>2, <2>3
<1>6. cuts' \in Nat
  BY <1>1
<1> QED BY <1>1, <1>2, <1>5, <1>6 DEF RecentInv, AtRest

\* A rename fills the hole and makes one below, until the file itself is moved.
LEMMA RenameKeepsRecent == IInv /\ RecentInv /\ RenameNext => RecentInv'
<1> SUFFICES ASSUME IInv, RecentInv, RenameNext, whole'
             PROVE  /\ roll'.at \in {"remove", "rename"} => Full(FileName)'
                    /\ \A k \in 1 .. maxBackupIndex' :
                         data'[Backup(k)'] # {} => Cardinality(Short(k)') <= cuts'
  BY DEF RecentInv, RenameNext
<1>1. PICK i : i = roll.i
  OBVIOUS
<1>2. /\ roll.at = "rename" /\ i \in 1 .. maxBackupIndex /\ maxBackupIndex \in Nat
      /\ maxBackupIndex' = maxBackupIndex /\ cuts' = cuts /\ cuts \in Nat
      /\ roll' = IF i > 1 THEN [roll EXCEPT !.i = i - 1] ELSE Renamed
  BY <1>1, RenameFacts DEF RenameNext, RecentInv
<1>3. /\ Source \in FileNames /\ Source # Backup(i) /\ whole /\ data'[Source] = {}
      /\ \/ data' = data
         \/ /\ data'[Backup(i)] = data[Source]
            /\ \A n \in FileNames \ {Source, Backup(i)} : data'[n] = data[n]
  BY <1>1, RenameFacts
<1>4. /\ Full(FileName) /\ FileName \in FileNames
      /\ \A k \in 1 .. maxBackupIndex : data[Backup(k)] # {} => Cardinality(Short(k)) <= cuts
  BY <1>2, <1>3, FilesAssumption DEF RecentInv
<1>5. /\ \A k \in 1 .. maxBackupIndex : Backup(k) \in FileNames /\ Backup(k) # FileName
      /\ \A j, k \in 1 .. maxBackupIndex : Backup(j) = Backup(k) => j = k
  BY WholeFacts
<1>6. i < maxBackupIndex => data[Backup(i)] = {}
  BY <1>1, <1>2, <1>3 DEF IInv, WholeInv
<1>7. /\ i > 1 => i - 1 \in 1 .. maxBackupIndex /\ Source = Backup(i - 1)
      /\ i = 1 => Source = FileName
  BY <1>1, <1>2 DEF Source
<1>8. /\ \A n \in FileNames : n # Source /\ n # Backup(i) => data'[n] = data[n]
      /\ i < maxBackupIndex => data'[Backup(i)] = data[Source]
      /\ data'[Backup(i)] # {} => data[Backup(i)] # {} \/ data[Source] # {}
  BY <1>3, <1>6
<1>9. \A k : Backup(k)' = Backup(k)
  BY <1>2 DEF Backup
<1>10. \A n : Full(n)' <=> Cardinality(data'[n]) >= MaxFileSize
  BY DEF Full
<1>11. \A n : Full(n) <=> Cardinality(data[n]) >= MaxFileSize
  BY DEF Full
<1>12. \A j : Full(Backup(j))' <=> Cardinality(data'[Backup(j)]) >= MaxFileSize
  BY <1>2 DEF Full, Backup
<1>13. ASSUME NEW j \in 1 .. maxBackupIndex, j # i, i > 1 => j # i - 1
       PROVE  (Full(Backup(j))' <=> Full(Backup(j))) /\ data'[Backup(j)] = data[Backup(j)]
  <2>1. Backup(j) \in FileNames /\ Backup(j) # Backup(i) /\ Backup(j) # Source
    BY <1>2, <1>5, <1>7, <1>13
  <2>2. data'[Backup(j)] = data[Backup(j)]
    BY <1>8, <2>1
  <2> QED BY <1>11, <1>12, <2>2
<1>14. i < maxBackupIndex => (Full(Backup(i))' <=> Full(Source))
  BY <1>8, <1>11, <1>12
<1>15. \A k : Short(k) = {j \in 1 .. k - 1 : j # i /\ ~Full(Backup(j))}
  BY <1>1, <1>2 DEF Short
<1>16. CASE i = 1
  <2>1. roll'.at = "open"
    BY <1>2, <1>16 DEF Renamed
  <2>2. \A k : Short(k)' = {j \in 1 .. k - 1 : ~Full(Backup(j))'}
    BY <2>1 DEF Short
  <2>3. ASSUME NEW k \in 1 .. maxBackupIndex, data'[Backup(k)] # {}
        PROVE  Cardinality(Short(k)') <= cuts
    <3>1. CASE k = 1
      <4>1. Short(k)' = {}
        BY <2>2, <3>1
      <4> QED BY <1>2, <4>1, FS_EmptySet
    <3>2. CASE k # 1
      <4>1. Full(Backup(1))'
        BY <1>2, <1>4, <1>7, <1>14, <1>16, <3>2
      <4>2. \A j \in 1 .. k - 1 : ~Full(Backup(j))' <=> (j # i /\ ~Full(Backup(j)))
        BY <1>2, <1>13, <1>16, <4>1
      <4>3. Short(k)' = Short(k)
        BY <1>15, <2>2, <4>2
      <4>4. data'[Backup(k)] = data[Backup(k)]
        BY <1>13, <1>16, <3>2
      <4> QED BY <1>4, <2>3, <4>3, <4>4
    <3> QED BY <3>1, <3>2
  <2> QED BY <1>2, <1>9, <2>1, <2>3
<1>17. CASE i > 1
  <2>1. roll'.at = "rename" /\ roll'.i = i - 1 /\ i - 1 \in 1 .. maxBackupIndex
        /\ Source = Backup(i - 1)
    BY <1>1, <1>2, <1>7, <1>17 DEF IInv, RollInv
  <2>2. \A k : Short(k)' = {j \in 1 .. k - 1 : j # i - 1 /\ ~Full(Backup(j))'}
    BY <2>1 DEF Short
  <2>3. Full(FileName)'
    <3>1. FileName # Source /\ FileName # Backup(i)
      BY <1>2, <1>5, <2>1
    <3>2. data'[FileName] = data[FileName]
      BY <1>4, <1>8, <3>1
    <3> QED BY <1>4, <3>2 DEF Full
  <2>4. ASSUME NEW k \in 1 .. maxBackupIndex, data'[Backup(k)] # {}
        PROVE  Cardinality(Short(k)') <= cuts
    <3>1. k # i - 1
      BY <1>3, <2>1, <2>4
    <3>2. CASE k < i - 1
      <4>1. ASSUME NEW j \in 1 .. k - 1
            PROVE  (j # i - 1 /\ ~Full(Backup(j))') <=> (j # i /\ ~Full(Backup(j)))
        <5>1. j \in 1 .. maxBackupIndex /\ j # i /\ j # i - 1
          BY <1>2, <3>2
        <5> QED BY <1>13, <5>1
      <4>2. Short(k)' = Short(k)
        BY <1>15, <2>2, <4>1
      <4>3. data'[Backup(k)] = data[Backup(k)]
        BY <1>2, <1>13, <3>2
      <4> QED BY <1>4, <2>4, <4>2, <4>3
    <3>3. CASE k = i
      <4>1. Short(i)' \in SUBSET Short(i) /\ Short(i)' \in SUBSET Short(i - 1)
        <5>1. ASSUME NEW j \in 1 .. i - 1, j # i - 1
              PROVE  j \in 1 .. (i - 1) - 1 /\ j # i /\ (Full(Backup(j))' <=> Full(Backup(j)))
          BY <1>2, <1>13, <5>1
        <5> QED BY <1>15, <2>2, <5>1
      <4>2. /\ IsFiniteSet(Short(i)) /\ IsFiniteSet(Short(i - 1))
            /\ Cardinality(Short(i)) \in Nat /\ Cardinality(Short(i - 1)) \in Nat
        BY <1>2, <2>1, ShortIsFinite
      <4>3. /\ Cardinality(Short(i)') <= Cardinality(Short(i))
            /\ Cardinality(Short(i)') <= Cardinality(Short(i - 1))
            /\ Cardinality(Short(i)') \in Nat
        BY <4>1, <4>2, FS_Subset, FS_CardinalityType
      <4>4. Cardinality(Short(i)) <= cuts \/ Cardinality(Short(i - 1)) <= cuts
        BY <1>2, <1>4, <1>8, <2>1, <2>4, <3>3
      <4>5. Cardinality(Short(i)') <= cuts
        BY <1>2, <4>2, <4>3, <4>4
      <4> QED BY <3>3, <4>5
    <3>4. CASE k > i
      <4> DEFINE A == {j \in 1 .. k - 1 : j # i /\ j # i - 1 /\ ~Full(Backup(j))}
      <4>1. i < maxBackupIndex /\ i \in 1 .. k - 1 /\ i - 1 \in 1 .. k - 1 /\ i # i - 1
        BY <1>2, <2>1, <3>4
      <4>2. Short(k) = IF Full(Source) THEN A ELSE A \cup {i - 1}
        <5>1. \A j : j \in Short(k) <=> j \in A \/ (j = i - 1 /\ ~Full(Source))
          BY <1>15, <2>1, <4>1
        <5> QED BY <5>1
      <4>3. Short(k)' = IF Full(Source) THEN A ELSE A \cup {i}
        <5>1. ASSUME NEW j \in 1 .. k - 1, j # i, j # i - 1
              PROVE  Full(Backup(j))' <=> Full(Backup(j))
          <6>1. j \in 1 .. maxBackupIndex
            BY <1>2
          <6> QED BY <1>13, <5>1, <6>1
        <5>2. Full(Backup(i))' <=> Full(Source)
          BY <1>14, <4>1
        <5>3. \A j : j \in Short(k)' <=> j \in A \/ (j = i /\ ~Full(Source))
          BY <2>2, <4>1, <5>1, <5>2
        <5> QED BY <5>3
      <4>4. i \notin A /\ i - 1 \notin A /\ A \in SUBSET (1 .. k - 1) /\ IsFiniteSet(1 .. k - 1)
        BY FS_Interval
      <4> HIDE DEF A
      <4>5. IsFiniteSet(A)
        BY <4>4, FS_Subset
      <4>6. Cardinality(Short(k)') = Cardinality(Short(k))
        <5>1. Cardinality(A \cup {i - 1}) = Cardinality(A) + 1
          BY <4>4, <4>5, AddOne
        <5>2. Cardinality(A \cup {i}) = Cardinality(A) + 1
          BY <4>4, <4>5, AddOne
        <5>3. CASE Full(Source)
          BY <4>2, <4>3, <5>3
        <5>4. CASE ~Full(Source)
          BY <4>2, <4>3, <5>1, <5>2, <5>4
        <5> QED BY <5>3, <5>4
      <4>7. data'[Backup(k)] = data[Backup(k)]
        BY <1>2, <1>13, <3>4
      <4> QED BY <1>4, <2>4, <4>6, <4>7
    <3>5. i \in Nat /\ k \in Nat
      BY <1>2
    <3> QED BY <3>1, <3>2, <3>3, <3>4, <3>5
  <2> QED BY <1>2, <1>9, <2>1, <2>3, <2>4
<1> QED BY <1>2, <1>16, <1>17

\* Nothing is kept at the start.
LEMMA InitRecent == RollingInit => RecentInv
<1> SUFFICES ASSUME RollingInit PROVE RecentInv
  OBVIOUS
<1>1. roll.at = "no" /\ cuts = 0 /\ \A n \in FileNames : data[n] = {}
  BY DEF RollingInit, FileInit, AtRest
<1>2. \A k \in 1 .. maxBackupIndex : Backup(k) \in FileNames
  BY RollingInitInv, WholeFacts
<1> QED BY <1>1, <1>2 DEF RecentInv

\* No step leaves a hole that no kill explains.
LEMMA NextRecent == IInv /\ SizeInv /\ RecentInv /\ [RollingNext]_allVars => RecentInv'
<1> SUFFICES ASSUME IInv, SizeInv, RecentInv, [RollingNext]_allVars PROVE RecentInv'
  OBVIOUS
<1>1. CASE ConstructRolling
  <2>1. cuts' = cuts /\ roll' = roll /\ append' \in BOOLEAN
    BY <1>1 DEF ConstructRolling, Construct
  <2>2. whole' => whole /\ data' = data
    <3>1. CASE Open(append') /\ whole' = (whole /\ Spares(append'))
      BY <2>1, <3>1, OpenFacts DEF IInv
    <3> QED BY <1>1, <3>1 DEF ConstructRolling, Construct
  <2>3. whole' => maxBackupIndex' = maxBackupIndex
    BY <1>1, <2>2 DEF IInv, WholeInv, ConstructRolling
  <2> QED BY <2>1, <2>2, <2>3, RecentStays
<1>2. CASE setMaxBackupIndex \/ setMaximumFileSize
  <2>1. cuts' = cuts /\ roll' = roll /\ whole' = FALSE
    BY <1>2 DEF setMaxBackupIndex, setMaximumFileSize
  <2> QED BY <2>1, RecentStays
<1>3. CASE OpenNext
  <2>1. /\ cuts' = cuts /\ maxBackupIndex' = maxBackupIndex /\ append \in BOOLEAN
        /\ roll.at # "rename" /\ roll'.at \notin {"remove", "rename"}
    BY <1>3 DEF OpenNext, IInv, TypeInv, AtRest
  <2>2. whole' => whole /\ data' = data
    <3>1. CASE Open(append) /\ whole' = (whole /\ Spares(append))
      BY <2>1, <3>1, OpenFacts DEF IInv
    <3> QED BY <1>3, <3>1 DEF OpenNext
  <2> QED BY <2>1, <2>2, RecentStays
<1>4. CASE CallRolling
  <2>1. /\ cuts' = cuts /\ maxBackupIndex' = maxBackupIndex /\ append \in BOOLEAN
        /\ roll' = roll
    BY <1>4 DEF CallRolling, rollVars, IInv, TypeInv
  <2>2. whole' => whole /\ data' = data
    <3>1. CASE Open(append) /\ whole' = (whole /\ Spares(append))
      BY <2>1, <3>1, OpenFacts DEF IInv
    <3> QED BY <1>4, <3>1 DEF CallRolling, close, reopen, setAppend
  <2> QED BY <2>1, <2>2, RecentStays
<1>5. CASE UNCHANGED allVars
  BY <1>5, RecentStays DEF allVars, fileVars, rollVars
<1> QED BY <1>1, <1>2, <1>3, <1>4, <1>5, AppendKeepsRecent, RemoveKeepsRecent,
           RenameKeepsRecent, CrashKeepsRecent DEF RollingNext

\* As long as nothing failed, the backups below one that holds events are full
\* files, but for the one a rename is about to fill and one for each kill that
\* cut a rollOver() short.
THEOREM RecentInvariance == RollingSpec => [](IInv /\ RecentInv)
<1>1. RollingInit => SizeInv
  BY DEF RollingInit, SizeInv
<1> QED BY <1>1, RollingInitInv, RollingNextInv, InitRecent, SizeInvariance, NextRecent, PTL
        DEF RollingSpec, allVars

\* Fewer files short of an event, no fewer events.
LEMMA FewerShort ==
  ASSUME NEW m \in Nat, NEW c \in Nat, NEW d \in Nat, NEW M \in Nat, c <= d
  PROVE  (m - c) * M >= (m - d) * M
<1> DEFINE a == m - d
           b == d - c
<1>1. a \in Int /\ b \in Nat /\ m - c = a + b
  OBVIOUS
<1> HIDE DEF a, b
<1>2. (a + b) * M = a * M + b * M
  BY <1>1
<1>3. b * M \in Nat /\ a * M \in Int
  BY <1>1
<1>4. (a + b) * M >= a * M
  BY <1>2, <1>3
<1> QED BY <1>1, <1>4 DEF a

\* When the last backup holds events that are given up, the file and the backups
\* below the last are full files, but for those a kill cost.
LEMMA ManyKept ==
  ASSUME IInv, RecentInv, whole, roll.at \in {"remove", "rename"},
         roll.at = "rename" => roll.i = maxBackupIndex,
         data[Backup(maxBackupIndex)] # {},
         NEW K, IsFiniteSet(K), data[FileName] \subseteq K,
         \A j \in 1 .. maxBackupIndex - 1 : data[Backup(j)] \subseteq K
  PROVE  Cardinality(K) >= (maxBackupIndex - cuts) * MaxFileSize
<1> DEFINE m == maxBackupIndex
           D == [j \in 1 .. m |-> IF j < m THEN data[Backup(j)] ELSE data[FileName]]
           U == UNION {D[j] : j \in 1 .. m}
           short == {j \in 1 .. m : ~(Cardinality(D[j]) >= MaxFileSize)}
<1>1. m \in Nat /\ m > 0 /\ MaxFileSize \in Nat /\ cuts \in Nat /\ logged \in Nat
  BY WholeFacts DEF RecentInv
<1>2. Full(FileName) /\ Cardinality(Short(m)) <= cuts
  BY <1>1 DEF RecentInv
<1>3. D \in [1 .. m -> SUBSET (1 .. logged)]
  BY WholeFacts, FilesAssumption
<1>4. ASSUME NEW i \in 1 .. m, NEW j \in 1 .. m, i < j PROVE D[i] \cap D[j] = {}
  <2>1. D[i] = data[Backup(i)] /\ Backup(i) \in BackupNames /\ D[i] \subseteq 1 .. logged
    BY <1>1, <1>3, <1>4, WholeFacts
  <2>2. CASE j = m
    <3>1. D[j] = data[FileName]
      BY <2>2
    <3>2. \A x \in D[i], y \in D[j] : x < y
      BY <2>1, <3>1 DEF IInv, BackupsInOrder
    <3> QED BY <1>1, <1>3, <2>1, <3>2
  <2>3. CASE j < m
    <3>1. D[j] = data[Backup(j)] /\ Backup(j) \in BackupNames
      BY <2>3, WholeFacts
    <3>2. Backup(i)[1] = Backup(j)[1] /\ Backup(j)[2] > Backup(i)[2]
      BY <1>4 DEF Backup
    <3>3. \A x \in D[j], y \in D[i] : x < y
      BY <2>1, <3>1, <3>2 DEF IInv, BackupsInOrder
    <3> QED BY <1>1, <1>3, <2>1, <3>3
  <2> QED BY <1>1, <2>2, <2>3
<1>5. \A i, j \in 1 .. m : i # j => D[i] \cap D[j] = {}
  <2>1. ASSUME NEW i \in 1 .. m, NEW j \in 1 .. m, i # j PROVE D[i] \cap D[j] = {}
    <3>1. i < j \/ j < i
      BY <1>1, <2>1
    <3> HIDE DEF D
    <3> QED BY <1>4, <3>1
  <2> QED BY <2>1
<1>6. short = Short(m)
  <2>1. Short(m) = {j \in 1 .. m - 1 : ~Full(Backup(j))}
    <3>1. \A j \in 1 .. m - 1 : roll.at = "rename" => j # roll.i
      BY <1>1
    <3> QED BY <3>1 DEF Short
  <2>2. \A j \in 1 .. m - 1 : j \in 1 .. m /\ D[j] = data[Backup(j)]
    BY <1>1
  <2>3. m \in 1 .. m /\ D[m] = data[FileName] /\ \A j \in 1 .. m : j # m => j \in 1 .. m - 1
    BY <1>1
  <2>4. ~(m \in 1 .. m - 1)
    BY <1>1
  <2> HIDE DEF D, m
  <2>5. \A j : j \in short <=> j \in Short(m)
    BY <1>2, <2>1, <2>2, <2>3, <2>4 DEF Full
  <2> HIDE DEF short
  <2> QED BY <2>1, <2>5
<1>7. IsFiniteSet(1 .. logged)
  BY <1>1, FS_Interval
<1>8. U \subseteq K
  <2>1. \A j \in 1 .. m : D[j] \subseteq K
    <3> TAKE j \in 1 .. m
    <3>1. CASE j < m
      <4>1. j \in 1 .. m - 1 /\ D[j] = data[Backup(j)]
        BY <1>1, <3>1
      <4> HIDE DEF D
      <4> QED BY <4>1
    <3>2. CASE ~(j < m)
      BY <3>2
    <3> QED BY <3>1, <3>2
  <2> QED BY <2>1
<1> HIDE DEF m, D, U, short
<1>9. /\ Cardinality(short) \in Nat
      /\ Cardinality(U) >= (m - Cardinality(short)) * MaxFileSize
  <2>1. m \in Nat /\ MaxFileSize \in Nat
    BY <1>1
  <2>2. Apart(m, D, 1 .. logged)
    BY <1>3, <1>5, <1>7 DEF Apart
  <2>3. U = AllOf(m, D) /\ short = FewIn(m, D, MaxFileSize)
    BY DEF U, AllOf, short, FewIn
  <2> QED BY <2>1, <2>2, <2>3, ManyEvents
<1>10. /\ Cardinality(U) <= Cardinality(K) /\ Cardinality(U) \in Nat /\ Cardinality(K) \in Nat
  BY <1>8, FS_Subset, FS_CardinalityType
<1>11. (m - Cardinality(short)) * MaxFileSize >= (m - cuts) * MaxFileSize
  BY <1>1, <1>2, <1>6, <1>9, FewerShort
<1>12. (m - Cardinality(short)) * MaxFileSize \in Int /\ (m - cuts) * MaxFileSize \in Int
  BY <1>1, <1>9
<1>13. Cardinality(K) >= (m - cuts) * MaxFileSize
  BY <1>9, <1>10, <1>11, <1>12
<1> QED BY <1>13 DEF m

\* What a step of rollOver() gives up, it gives up for full files.
LEMMA StepKeepsRecent ==
  ASSUME IInv, RecentInv, [RollingNext]_allVars,
         roll # AtRest, whole', ~(Kept \subseteq Kept')
  PROVE  Cardinality(Kept') >= (maxBackupIndex - cuts) * MaxFileSize
<1>1. data' # data
  BY DEF Kept
<1>2. IsFiniteSet(Kept') /\ \A n \in FileNames : data'[n] \subseteq Kept'
  <2>1. data' \in [FileNames -> SUBSET (1 .. logged')] /\ logged' \in Nat
    BY RollingNextInv DEF IInv, TypeInv
  <2>2. Kept' \in SUBSET (1 .. logged') /\ \A n \in FileNames : data'[n] \subseteq Kept'
    BY <2>1 DEF Kept
  <2>3. IsFiniteSet(1 .. logged')
    BY <2>1, FS_Interval
  <2> QED BY <2>2, <2>3, FS_Subset
<1>3. /\ FileName \in FileNames /\ maxBackupIndex \in Nat
      /\ \A j \in 1 .. maxBackupIndex : Backup(j) \in FileNames /\ Backup(j) # FileName
      /\ \A i, j \in 1 .. maxBackupIndex : Backup(i) = Backup(j) => i = j
  BY WholeFacts, FilesAssumption
<1>4. CASE RemoveLast
  <2>1. whole /\ roll.at = "remove" /\ maxBackupIndex \in 1 .. maxBackupIndex
    <3>1. whole /\ roll.at = "remove"
      BY <1>4 DEF RemoveLast
    <3> QED BY <1>3, <3>1, WholeFacts
  <2>2. Remove(Backup(maxBackupIndex))
    BY <1>1, <1>4 DEF RemoveLast
  <2>3. \A n \in FileNames : n # Backup(maxBackupIndex) => data'[n] = data[n]
    BY <2>2, WholeFacts DEF Remove
  <2>4. data[Backup(maxBackupIndex)] # {}
    <3>1. SUFFICES ASSUME data[Backup(maxBackupIndex)] = {} PROVE FALSE
      OBVIOUS
    <3>2. data' = [data EXCEPT ![Backup(maxBackupIndex)] = {}]
      BY <2>2 DEF Remove
    <3>3. data' = data
      BY <1>3, <2>1, <3>1, <3>2, WholeFacts
    <3> QED BY <1>1, <3>3
  <2>5. \A j \in 1 .. maxBackupIndex - 1 : data[Backup(j)] \subseteq Kept'
    <3> TAKE j \in 1 .. maxBackupIndex - 1
    <3>1. j \in 1 .. maxBackupIndex /\ j # maxBackupIndex
      BY <1>3
    <3>2. Backup(j) \in FileNames /\ Backup(j) # Backup(maxBackupIndex)
      BY <1>3, <2>1, <3>1
    <3> QED BY <1>2, <2>3, <3>2
  <2>6. data[FileName] \subseteq Kept'
    BY <1>2, <1>3, <2>1, <2>3
  <2> QED BY <1>2, <2>1, <2>4, <2>5, <2>6, ManyKept
<1>5. CASE RenameNext
  <2>1. PICK i : i = roll.i
    OBVIOUS
  <2>2. /\ roll.at = "rename" /\ i \in 1 .. maxBackupIndex /\ whole
        /\ Source \in FileNames /\ Backup(i) \in FileNames
    BY <1>5, <2>1, RenameFacts DEF RenameNext
  <2>3. /\ data'[Backup(i)] = data[Source]
        /\ \A n \in FileNames \ {Source, Backup(i)} : data'[n] = data[n]
    BY <1>1, <1>5, <2>1, RenameFacts
  <2>4. \A n \in FileNames : n # Backup(i) => data[n] \subseteq Kept'
    BY <1>2, <2>2, <2>3
  <2>5. data[Backup(i)] # {}
    <3>1. SUFFICES ASSUME data[Backup(i)] = {} PROVE FALSE
      OBVIOUS
    <3>2. \A n \in FileNames : data[n] \subseteq Kept'
      BY <2>4, <3>1
    <3> QED BY <3>2 DEF Kept
  <2>6. i = maxBackupIndex
    BY <1>3, <2>1, <2>2, <2>5 DEF IInv, WholeInv
  <2>7. \A j \in 1 .. maxBackupIndex - 1 : data[Backup(j)] \subseteq Kept'
    <3> TAKE j \in 1 .. maxBackupIndex - 1
    <3>1. j \in 1 .. maxBackupIndex /\ j # maxBackupIndex
      BY <1>3
    <3>2. Backup(j) \in FileNames /\ Backup(j) # Backup(i)
      BY <1>3, <2>2, <2>6, <3>1
    <3> QED BY <2>4, <3>2
  <2>8. data[FileName] \subseteq Kept'
    BY <1>3, <2>2, <2>4
  <2> QED BY <1>2, <2>1, <2>2, <2>5, <2>6, <2>7, <2>8, ManyKept
<1>6. CASE OpenNext
  <2>1. append \in BOOLEAN
    BY DEF IInv, TypeInv
  <2>2. CASE Open(append) /\ whole' = (whole /\ Spares(append))
    BY <1>1, <2>1, <2>2, OpenFacts DEF IInv
  <2> QED BY <1>1, <1>6, <2>2 DEF OpenNext
<1>7. CASE CrashRolling
  BY <1>1, <1>7 DEF CrashRolling, Crash
<1>8. ~UNCHANGED allVars
  BY <1>1 DEF allVars, fileVars
<1>9. ~ConstructRolling
  BY DEF ConstructRolling, Construct, IInv, RollInv
<1>10. ~setMaxBackupIndex /\ ~setMaximumFileSize /\ ~AppendRolling /\ ~CallRolling
  BY DEF setMaxBackupIndex, setMaximumFileSize, AppendRolling, CallRolling
<1> QED BY <1>4, <1>5, <1>6, <1>7, <1>8, <1>9, <1>10 DEF RollingNext

\* As long as nothing failed and no setting was changed, rollOver() gives an event
\* up only for maxBackupIndex full files of others, less one for each kill that cut
\* a rollOver() short: for every number of backups, every size, and any number of
\* events, kills and restarts.
THEOREM RecentEventsKept == RollingSpec => KeepsRecent
<1>1. IInv /\ RecentInv /\ [RollingNext]_allVars =>
        [roll # AtRest /\ whole' /\ ~(Kept \subseteq Kept') =>
           Cardinality(Kept') >= (maxBackupIndex - cuts) * MaxFileSize]_<<fileVars, rollVars>>
  BY StepKeepsRecent
<1> QED BY <1>1, RecentInvariance, PTL DEF RollingSpec, KeepsRecent, allVars
=============================================================================
