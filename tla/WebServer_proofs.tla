--------------------------- MODULE WebServer_proofs ---------------------------
(***************************************************************************)
(* Proofs about WebServer, for any number of clients and descriptors, any  *)
(* texts and any bounds.                                                   *)
(***************************************************************************)
EXTENDS WebServer, SequenceTheorems, WellFoundedInduction, TLAPS

\* What the latest of some submissions gave for a field, 0 if there is none.
Latest(forms, value) ==
  IF forms = {} THEN 0 ELSE value[CHOOSE i \in forms : \A j \in forms : j <= i]

\* The requests of a history that gave a name, or an age, and which they gave.
HasName(data) ==
  /\ data[1] \in Commit
  /\ NameAt(data) # 0
  /\ data[NameAt(data)] \notin BlankName
HasAge(data) ==
  /\ data[1] \in Commit
  /\ AgeAt(data) # 0
  /\ data[AgeAt(data)] \notin BlankAge
NameOf(rd, k) == Latest({i \in 1 .. k : HasName(rd[i])}, [i \in 1 .. k |-> rd[i][NameAt(rd[i])]])
AgeOf(rd, k) == Latest({i \in 1 .. k : HasAge(rd[i])}, [i \in 1 .. k |-> rd[i][AgeAt(rd[i])]])

\* The page that answers the k-th request of a history.
AnswerTo(rd, k) ==
  IF rd[k][1] \in Commit THEN [handler |-> "commit", name |-> NameOf(rd, k), age |-> AgeOf(rd, k)]
  ELSE [handler |-> "welcome", name |-> 0, age |-> 0]

\* A registered descriptor is open, and epoll holds the address of the
\* ConnectStat that stands for its connection.
Registered(fd) == fd \in ConnFds /\ interest[fd] # {}

Bound(fd) ==
  /\ sock[fd] # NoConn => net[sock[fd]].phase = "open"
  /\ interest[fd] # {} =>
       /\ sock[fd] # NoConn /\ ptr[fd] = sock[fd]
       /\ ptr[fd] \in heap /\ stat[ptr[fd]].fd = fd
       /\ interest[fd] \in {{"IN"}, {"OUT"}}

\* A connection is in at most one place: in the queue or behind a descriptor.
OnePlace ==
  /\ \A i \in 1 .. Len(acceptq) : net[acceptq[i]].phase = "queued"
  /\ \A i, j \in 1 .. Len(acceptq) : acceptq[i] = acceptq[j] => i = j
  /\ \A f, g \in ConnFds : sock[f] # NoConn /\ sock[f] = sock[g] => f = g

TablesOK ==
  /\ \A fd \in ConnFds : Bound(fd)
  /\ OnePlace
  /\ interest[ListenFd] = {"IN"} /\ ptr[ListenFd] = NoConn
  /\ proc = "running" => heap = {c \in Conns : net[c].phase = "open"}

\* An event that is not handled yet still says the truth about its connection.
Pends(e) ==
  IF e.stat = NoConn THEN acceptq # <<>>
  ELSE LET fd == stat[e.stat].fd  n == net[e.stat] IN
    /\ Registered(fd) /\ sock[fd] = e.stat
    /\ "IN" \in e.ev <=> interest[fd] = {"IN"}
    /\ interest[fd] = {"OUT"} => n.rst \/ n.unread < SndCap

EventsOK ==
  /\ \A e \in events : Pends(e)
  /\ \A e, d \in events : e.stat = d.stat => e = d

\* What was read from a connection in state n and sent to it belongs together.
History(n) ==
  /\ n.phase \in {"new", "queued"} => n.rd = <<>> /\ n.wr = <<>>
  /\ \A k \in 1 .. Len(n.rd) : n.rd[k] # <<>>
  /\ \A k \in 1 .. Len(n.wr) : n.wr[k] = AnswerTo(n.rd, k)
  /\ Len(n.wr) <= Len(n.rd)
  /\ ~n.rst => Len(n.rd) <= Len(n.wr) + 1

\* What the ConnectStat s of a connection with history rd holds.
Remembers(s, rd) ==
  /\ s.handler = IF rd = <<>> THEN "NULL"
                 ELSE IF rd[Len(rd)][1] \in Commit THEN "commit" ELSE "welcome"
  /\ s.name = NameOf(rd, Len(rd)) /\ s.age = AgeOf(rd, Len(rd))

\* A connection that waits for a request has no page to get, one that waits for
\* room to send has one.
Turn(n, s, ev) ==
  ev # {} =>
    /\ Remembers(s, n.rd)
    /\ ev = {"IN"} => n.rst \/ Len(n.rd) = Len(n.wr)
    /\ ev = {"OUT"} => Len(n.wr) < Len(n.rd)

Talk ==
  /\ \A c \in Conns : History(net[c])
  /\ proc = "running" => \A fd \in ConnFds : Turn(net[sock[fd]], stat[sock[fd]], interest[fd])
  /\ EndsOnlyIf

IInv == TypeOK /\ TablesOK /\ EventsOK /\ Talk

-----------------------------------------------------------------------------
(* Searching in a text. *)

Net == NetOf(Page)

\* A nonempty set of naturals has a smallest member.
LEMMA SmallestExists ==
  ASSUME NEW S \in SUBSET Nat, S # {}
  PROVE  \E i \in S : \A j \in S : i <= j
<1> DEFINE less == {ss \in Nat \X Nat : ss[1] < ss[2]}
<1>1. IsWellFoundedOn(less, Nat)
  BY NatLessThanWellFounded DEF OpToRel
<1> HIDE DEF less
<1>2. PICK i \in S : \A j \in S : ~(<<j, i>> \in less)
  BY <1>1, WFMin
<1> USE DEF less
<1>3. \A j \in S : i <= j
  <2>1. ASSUME NEW j \in S, j < i PROVE FALSE
    <3>1. <<j, i>> \in less
      BY <2>1
    <3>2. QED
      BY <1>2, <3>1
  <2>2. QED
    BY <2>1
<1>4. QED
  BY <1>3

\* What strstr() finds lies in the text, not before the place it starts from.
LEMMA StrstrType ==
  ASSUME NEW data \in Seq(Chunks), NEW start \in Nat \ {0}, NEW chunks
  PROVE  strstr(data, start, chunks) = 0
         \/ strstr(data, start, chunks) \in start .. Len(data)
<1> DEFINE hits == {i \in start .. Len(data) : data[i] \in chunks}
<1>1. CASE hits = {}
  BY <1>1 DEF strstr
<1>2. CASE hits # {}
  <2>1. Len(data) \in Nat /\ hits \subseteq Nat
    BY LenProperties
  <2>2. \E i \in hits : \A j \in hits : i <= j
    <3> HIDE DEF hits
    <3>1. QED
      BY <1>2, <2>1, SmallestExists
  <2>3. strstr(data, start, chunks) = CHOOSE i \in hits : \A j \in hits : i <= j
    BY <1>2 DEF strstr
  <2>4. strstr(data, start, chunks) \in hits
    <3> HIDE DEF hits
    <3>1. QED
      BY <2>2, <2>3
  <2>5. QED
    BY <2>4
<1>3. QED
  BY <1>1, <1>2

\* When the header's end is in the text, both fields are searched for in it.
LEMMA FieldsType ==
  ASSUME NEW data \in Seq(Chunks), BodyOf(data) # 0
  PROVE  /\ NameAt(data) = 0 \/ NameAt(data) \in 1 .. Len(data)
         /\ AgeAt(data) = 0 \/ AgeAt(data) \in 1 .. Len(data)
<1>0. Len(data) \in Nat
  BY LenProperties
<1>1. BodyOf(data) \in 1 .. Len(data)
  BY StrstrType DEF BodyOf
<1>2. NameAt(data) = 0 \/ NameAt(data) \in BodyOf(data) .. Len(data)
  <2>1. BodyOf(data) \in Nat \ {0}
    BY <1>1
  <2>2. QED
    BY <2>1, StrstrType DEF NameAt
<1>3. NameAt(data) = 0 \/ NameAt(data) \in 1 .. Len(data)
  BY <1>0, <1>1, <1>2
<1> DEFINE from == IF NameAt(data) = 0 THEN BodyOf(data) ELSE NameAt(data)
<1>4. from \in 1 .. Len(data)
  BY <1>1, <1>3
<1>5. AgeAt(data) = 0 \/ AgeAt(data) \in from .. Len(data)
  <2>1. from \in Nat \ {0}
    BY <1>4
  <2>2. AgeAt(data) = strstr(data, from, AgeField)
    BY DEF AgeAt
  <2> HIDE DEF from
  <2>3. QED
    BY <2>1, <2>2, StrstrType
<1> HIDE DEF from
<1>6. QED
  BY <1>0, <1>3, <1>4, <1>5

\* Parsing a request that is read without a fault gives a ConnectStat.
LEMMA ParseType ==
  ASSUME NEW s \in ConnectStat, NEW data \in Seq(Chunks), data # <<>>, ~SearchesNull(data)
  PROVE  Parse(s, data) \in ConnectStat /\ Parse(s, data).fd = s.fd
<1>1. CASE data[1] \notin Commit
  BY <1>1 DEF Parse, ConnectStat
<1>2. CASE data[1] \in Commit
  <2>1. /\ NameAt(data) = 0 \/ NameAt(data) \in 1 .. Len(data)
        /\ AgeAt(data) = 0 \/ AgeAt(data) \in 1 .. Len(data)
    BY <1>2, FieldsType DEF SearchesNull
  <2>2. \A i \in 1 .. Len(data) : data[i] \in Chunks
    BY ElementOfSeq
  <2>3. /\ Fill(s.name, data, NameAt(data), BlankName) \in Values
        /\ Fill(s.age, data, AgeAt(data), BlankAge) \in Values
    BY <2>1, <2>2 DEF Fill, Values, ConnectStat
  <2>4. QED
    BY <1>2, <2>3 DEF Parse, ConnectStat
<1>3. QED
  BY <1>1, <1>2

-----------------------------------------------------------------------------
(* What a connection has submitted. *)

\* A set of positions up to k has a last one.
LEMMA LastExists ==
  ASSUME NEW k \in Nat, NEW S \in SUBSET (1 .. k), S # {}
  PROVE  \E i \in S : \A j \in S : j <= i
<1> DEFINE M == {k - i : i \in S}
<1>1. M \subseteq Nat /\ M # {}
  <2>1. \A i \in S : k - i \in Nat
    OBVIOUS
  <2>2. QED
    BY <2>1
<1>2. PICK m \in M : \A n \in M : m <= n
  <2> HIDE DEF M
  <2>1. QED
    BY <1>1, SmallestExists
<1>3. PICK i \in S : m = k - i
  BY <1>2
<1>4. \A j \in S : j <= i
  <2>1. ASSUME NEW j \in S PROVE j <= i
    <3>1. k - j \in M
      OBVIOUS
    <3>2. k - i <= k - j
      BY <1>2, <1>3, <3>1
    <3>3. i \in Int /\ j \in Int
      OBVIOUS
    <3> HIDE DEF M
    <3>4. QED
      BY <3>2, <3>3
  <2>2. QED
    BY <2>1
<1>5. QED
  BY <1>4

\* Only what the submissions gave matters.
LEMMA LatestSame ==
  ASSUME NEW k \in Nat, NEW S \in SUBSET (1 .. k), NEW v, NEW w,
         \A i \in S : v[i] = w[i]
  PROVE  Latest(S, v) = Latest(S, w)
<1>1. CASE S = {}
  BY <1>1 DEF Latest
<1>2. CASE S # {}
  <2> DEFINE last == CHOOSE i \in S : \A j \in S : j <= i
  <2>1. last \in S
    BY <1>2, LastExists
  <2>2. Latest(S, v) = v[last] /\ Latest(S, w) = w[last]
    BY <1>2 DEF Latest
  <2> HIDE DEF last
  <2>3. QED
    BY <2>1, <2>2
<1>3. QED
  BY <1>1, <1>2

\* A submission at the end of the history decides.
LEMMA LatestLast ==
  ASSUME NEW k \in Nat, NEW S \in SUBSET (1 .. k), NEW v, k \in S
  PROVE  Latest(S, v) = v[k]
<1> DEFINE last == CHOOSE i \in S : \A j \in S : j <= i
<1>1. last \in S /\ \A j \in S : j <= last
  BY LastExists
<1>2. Latest(S, v) = v[last]
  BY DEF Latest
<1> HIDE DEF last
<1>3. last = k
  BY <1>1
<1>4. QED
  BY <1>2, <1>3

\* A sequence that has grown ends with what was appended.
LEMMA AppendLast ==
  ASSUME NEW rd \in Seq(Seq(Chunks)), NEW data \in Seq(Chunks)
  PROVE  /\ Append(rd, data) # <<>> /\ Len(Append(rd, data)) = Len(rd) + 1
         /\ Append(rd, data)[Len(rd) + 1] = data
  BY AppendProperties

\* A further request leaves what was submitted before it as it was.
LEMMA EarlierKept ==
  ASSUME NEW rd \in Seq(Seq(Chunks)), NEW data, NEW k \in 0 .. Len(rd)
  PROVE  /\ NameOf(Append(rd, data), k) = NameOf(rd, k)
         /\ AgeOf(Append(rd, data), k) = AgeOf(rd, k)
         /\ k > 0 => AnswerTo(Append(rd, data), k) = AnswerTo(rd, k)
<1> DEFINE rd2 == Append(rd, data)
<1>1. \A i \in 1 .. k : rd2[i] = rd[i]
  <2>1. Len(rd) \in Nat
    BY LenProperties
  <2>2. QED
    BY <2>1, AppendProperties
<1> HIDE DEF rd2
<1>2. /\ {i \in 1 .. k : HasName(rd2[i])} = {i \in 1 .. k : HasName(rd[i])}
      /\ {i \in 1 .. k : HasAge(rd2[i])} = {i \in 1 .. k : HasAge(rd[i])}
  BY <1>1
<1>3. /\ [i \in 1 .. k |-> rd2[i][NameAt(rd2[i])]] = [i \in 1 .. k |-> rd[i][NameAt(rd[i])]]
      /\ [i \in 1 .. k |-> rd2[i][AgeAt(rd2[i])]] = [i \in 1 .. k |-> rd[i][AgeAt(rd[i])]]
  BY <1>1
<1>4. NameOf(rd2, k) = NameOf(rd, k) /\ AgeOf(rd2, k) = AgeOf(rd, k)
  BY <1>2, <1>3 DEF NameOf, AgeOf
<1>5. k > 0 => AnswerTo(rd2, k) = AnswerTo(rd, k)
  BY <1>1, <1>4 DEF AnswerTo
<1>6. QED
  BY <1>4, <1>5 DEF rd2

\* A request that gives no value leaves the field, one that does sets it.
LEMMA NewestDecides ==
  ASSUME NEW rd \in Seq(Seq(Chunks)), NEW data
  PROVE  LET n == Len(rd) + 1  rd2 == Append(rd, data) IN
         /\ NameOf(rd2, n) = IF HasName(data) THEN data[NameAt(data)] ELSE NameOf(rd, Len(rd))
         /\ AgeOf(rd2, n) = IF HasAge(data) THEN data[AgeAt(data)] ELSE AgeOf(rd, Len(rd))
<1> DEFINE k == Len(rd)
           n == k + 1
           rd2 == Append(rd, data)
<1>1. k \in Nat /\ n \in Nat /\ (\A i \in 1 .. k : rd2[i] = rd[i]) /\ rd2[n] = data
  BY LenProperties, AppendProperties
<1>2. 1 .. n = (1 .. k) \cup {n} /\ n \notin 1 .. k
  BY <1>1
<1> DEFINE S == {i \in 1 .. n : HasName(rd2[i])}
           v == [i \in 1 .. n |-> rd2[i][NameAt(rd2[i])]]
           T == {i \in 1 .. k : HasName(rd[i])}
           w == [i \in 1 .. k |-> rd[i][NameAt(rd[i])]]
<1>3. NameOf(rd2, n) = IF HasName(data) THEN data[NameAt(data)] ELSE NameOf(rd, k)
  <2>1. NameOf(rd2, n) = Latest(S, v) /\ NameOf(rd, k) = Latest(T, w)
    BY DEF NameOf
  <2> HIDE DEF k, n, rd2
  <2>2. CASE HasName(data)
    <3>1. n \in S /\ v[n] = data[NameAt(data)]
      BY <1>1, <1>2, <2>2
    <3>2. S \in SUBSET (1 .. n)
      OBVIOUS
    <3> HIDE DEF S, v
    <3>3. QED
      BY <1>1, <2>1, <2>2, <3>1, <3>2, LatestLast
  <2>3. CASE ~HasName(data)
    <3>1. S = T
      BY <1>1, <1>2, <2>3
    <3>2. \A i \in T : v[i] = w[i]
      BY <1>1, <1>2
    <3>3. T \in SUBSET (1 .. k)
      OBVIOUS
    <3> HIDE DEF S, T, v, w
    <3>4. Latest(T, v) = Latest(T, w)
      BY <1>1, <3>2, <3>3, LatestSame
    <3>5. QED
      BY <2>1, <2>3, <3>1, <3>4
  <2>4. QED
    BY <2>2, <2>3
<1> DEFINE A == {i \in 1 .. n : HasAge(rd2[i])}
           x == [i \in 1 .. n |-> rd2[i][AgeAt(rd2[i])]]
           B == {i \in 1 .. k : HasAge(rd[i])}
           y == [i \in 1 .. k |-> rd[i][AgeAt(rd[i])]]
<1>4. AgeOf(rd2, n) = IF HasAge(data) THEN data[AgeAt(data)] ELSE AgeOf(rd, k)
  <2>1. AgeOf(rd2, n) = Latest(A, x) /\ AgeOf(rd, k) = Latest(B, y)
    BY DEF AgeOf
  <2> HIDE DEF k, n, rd2
  <2>2. CASE HasAge(data)
    <3>1. n \in A /\ x[n] = data[AgeAt(data)]
      BY <1>1, <1>2, <2>2
    <3>2. A \in SUBSET (1 .. n)
      OBVIOUS
    <3> HIDE DEF A, x
    <3>3. QED
      BY <1>1, <2>1, <2>2, <3>1, <3>2, LatestLast
  <2>3. CASE ~HasAge(data)
    <3>1. A = B
      BY <1>1, <1>2, <2>3
    <3>2. \A i \in B : x[i] = y[i]
      BY <1>1, <1>2
    <3>3. B \in SUBSET (1 .. k)
      OBVIOUS
    <3> HIDE DEF A, B, x, y
    <3>4. Latest(B, x) = Latest(B, y)
      BY <1>1, <3>2, <3>3, LatestSame
    <3>5. QED
      BY <2>1, <2>3, <3>1, <3>4
  <2>4. QED
    BY <2>2, <2>3
<1>5. QED
  BY <1>3, <1>4

\* Parsing keeps the ConnectStat in step with the history.
LEMMA ParseRemembers ==
  ASSUME NEW rd \in Seq(Seq(Chunks)), NEW s \in ConnectStat, Remembers(s, rd),
         NEW data \in Seq(Chunks)
  PROVE  Remembers(Parse(s, data), Append(rd, data))
<1> DEFINE rd2 == Append(rd, data)
<1>0. SUFFICES Remembers(Parse(s, data), rd2)
  OBVIOUS
<1>1. /\ rd2 # <<>> /\ Len(rd2) = Len(rd) + 1 /\ rd2[Len(rd2)] = data
  BY AppendProperties
<1>2. /\ NameOf(rd2, Len(rd2)) = IF HasName(data) THEN data[NameAt(data)] ELSE s.name
      /\ AgeOf(rd2, Len(rd2)) = IF HasAge(data) THEN data[AgeAt(data)] ELSE s.age
  BY <1>1, NewestDecides DEF Remembers
<1> HIDE DEF rd2
<1>3. CASE data[1] \notin Commit
  <2>1. Parse(s, data) = [s EXCEPT !.handler = "welcome"]
    BY <1>3 DEF Parse
  <2>2. ~HasName(data) /\ ~HasAge(data)
    BY <1>3 DEF HasName, HasAge
  <2>3. QED
    BY <1>1, <1>2, <1>3, <2>1, <2>2 DEF Remembers, ConnectStat
<1>4. CASE data[1] \in Commit
  <2> DEFINE nm == Fill(s.name, data, NameAt(data), BlankName)
             ag == Fill(s.age, data, AgeAt(data), BlankAge)
  <2>1. Parse(s, data) = [s EXCEPT !.handler = "commit", !.name = nm, !.age = ag]
    BY <1>4 DEF Parse
  <2>2. nm = NameOf(rd2, Len(rd2)) /\ ag = AgeOf(rd2, Len(rd2))
    BY <1>2, <1>4 DEF HasName, HasAge, Fill
  <2> HIDE DEF nm, ag
  <2>3. QED
    BY <1>1, <1>4, <2>1, <2>2 DEF Remembers, ConnectStat
<1>5. QED
  BY <1>3, <1>4

\* A new ConnectStat remembers an empty history.
LEMMA InitRemembers ==
  ASSUME NEW fd \in Fds
  PROVE  stat_init(fd) \in ConnectStat /\ Remembers(stat_init(fd), <<>>)
<1>1. Len(<<>>) = 0 /\ 1 .. 0 = {}
  OBVIOUS
<1>2. \A rd : NameOf(rd, 0) = 0 /\ AgeOf(rd, 0) = 0
  BY <1>1 DEF NameOf, AgeOf, Latest
<1>3. QED
  BY <1>1, <1>2 DEF Remembers, stat_init, ConnectStat, Values

-----------------------------------------------------------------------------
(* What a step does to one connection. *)

Written(n, page) == [n EXCEPT !.unread = @ + 1, !.wr = Append(@, page)]
Consumed(n, data) == [n EXCEPT !.rcvq = SubSeq(@, Len(data) + 1, Len(@)), !.rd = Append(@, data)]

\* A step of the client, or an error report, that leaves the conversation alone.
Quiet(n, m) ==
  /\ m \in Net /\ m.phase = n.phase /\ m.rd = n.rd /\ m.wr = n.wr
  /\ n.rst => m.rst
  /\ m.unread <= n.unread

\* What each step of a client does to the state of its connection.
LEMMA ClientEffect ==
  ASSUME TypeOK, NEW c \in Conns, Client(c)
  PROVE  \/ /\ net[c].phase = "new"
            /\ net' = [net EXCEPT ![c].phase = "queued"]
            /\ acceptq' = Append(acceptq, c) /\ UNCHANGED sock
         \/ /\ \E m : Quiet(net[c], m) /\ net' = [net EXCEPT ![c] = m]
            /\ UNCHANGED <<acceptq, sock>>
<1> DEFINE n == net[c]
<1>0. n \in Net
  BY DEF TypeOK, Net
<1> HIDE DEF n
<1>1. CASE Connect(c)
  BY <1>1 DEF Connect
<1>2. CASE Send(c)
  <2> DEFINE m == [n EXCEPT !.sent = @ + 1, !.rcvq = Append(@, n.sent + 1)]
  <2>1. n.sent \in Nat /\ n.sent + 1 \in Nat /\ n.sent + 1 \in Chunks
    <3>1. n.sent \in Nat
      BY <1>0 DEF Net, NetOf
    <3>2. n.sent < MaxMsgs
      BY <1>2 DEF Send, n
    <3>3. QED
      BY <3>1, <3>2, SocketsAssumption DEF Chunks
  <2>2. Append(n.rcvq, n.sent + 1) \in Seq(Chunks)
    BY <1>0, <2>1, AppendProperties DEF Net, NetOf
  <2>3. n.unread <= n.unread
    BY <1>0 DEF Net, NetOf
  <2>4. Quiet(n, m)
    BY <1>0, <2>1, <2>2, <2>3 DEF Net, NetOf, Quiet
  <2>5. net' = [net EXCEPT ![c] = m] /\ UNCHANGED <<acceptq, sock>>
    BY <1>2 DEF Send, n
  <2> HIDE DEF m
  <2>6. QED
    BY <2>4, <2>5 DEF n
<1>3. CASE Receive(c)
  <2> DEFINE m == [n EXCEPT !.unread = @ - 1]
  <2>1. n.unread - 1 \in Nat /\ n.unread - 1 <= n.unread
    BY <1>0, <1>3 DEF Receive, Net, NetOf, n
  <2>2. Quiet(n, m)
    BY <1>0, <2>1 DEF Net, NetOf, Quiet
  <2>3. net' = [net EXCEPT ![c] = m] /\ UNCHANGED <<acceptq, sock>>
    BY <1>3 DEF Receive, n
  <2> HIDE DEF m
  <2>4. QED
    BY <2>2, <2>3 DEF n
<1>4. CASE Fin(c)
  <2> DEFINE m == [n EXCEPT !.fin = TRUE]
  <2>1. n.unread <= n.unread
    BY <1>0 DEF Net, NetOf
  <2>2. Quiet(n, m)
    BY <1>0, <2>1 DEF Net, NetOf, Quiet
  <2>3. net' = [net EXCEPT ![c] = m] /\ UNCHANGED <<acceptq, sock>>
    BY <1>4 DEF Fin, n
  <2> HIDE DEF m
  <2>4. QED
    BY <2>2, <2>3 DEF n
<1>5. CASE Reset(c)
  <2> DEFINE e == IF n.fin THEN "EPIPE" ELSE "ECONNRESET"
             m == [n EXCEPT !.rst = TRUE, !.err = e]
  <2>1. n.unread <= n.unread /\ e \in {"EPIPE", "ECONNRESET"}
    BY <1>0 DEF Net, NetOf
  <2> HIDE DEF e
  <2>2. Quiet(n, m)
    BY <1>0, <2>1 DEF Net, NetOf, Quiet
  <2>3. net' = [net EXCEPT ![c] = m] /\ UNCHANGED <<acceptq, sock>>
    BY <1>5 DEF Reset, n, e
  <2> HIDE DEF m
  <2>4. QED
    BY <2>2, <2>3 DEF n
<1>6. QED
  BY <1>1, <1>2, <1>3, <1>4, <1>5 DEF Client

\* An error report is such a step.
LEMMA ErrorEffect ==
  ASSUME TypeOK, NEW c \in Conns, ReadError(c) \/ WriteError(c)
  PROVE  /\ \E m : Quiet(net[c], m) /\ net' = [net EXCEPT ![c] = m]
         /\ UNCHANGED <<acceptq, sock>>
<1> DEFINE n == net[c]
           m == [n EXCEPT !.err = "none"]
<1>0. n \in Net
  BY DEF TypeOK, Net
<1>1. net' = [net EXCEPT ![c] = m] /\ UNCHANGED <<acceptq, sock>>
  BY DEF ReadError, WriteError
<1> HIDE DEF n
<1>2. n.unread <= n.unread
  BY <1>0 DEF Net, NetOf
<1>3. Quiet(n, m)
  BY <1>0, <1>2 DEF Net, NetOf, Quiet
<1> HIDE DEF m
<1>4. QED
  BY <1>1, <1>3 DEF n

\* What a read() takes, and what is left of the connection's state.
LEMMA ConsumedType ==
  ASSUME NEW n \in Net, NEW data \in {SubSeq(n.rcvq, 1, k) : k \in 1 .. Len(n.rcvq)}
  PROVE  /\ data \in Seq(Chunks) /\ data # <<>>
         /\ Consumed(n, data) \in Net
         /\ Consumed(n, data).phase = n.phase /\ Consumed(n, data).rst = n.rst
         /\ Consumed(n, data).wr = n.wr /\ Consumed(n, data).rd = Append(n.rd, data)
         /\ Consumed(n, data).unread = n.unread
<1>1. n.rcvq \in Seq(Chunks) /\ Len(n.rcvq) \in Nat /\ n.rd \in Seq(Seq(Chunks))
  BY LenProperties DEF Net, NetOf
<1>2. \A i \in 1 .. Len(n.rcvq) : n.rcvq[i] \in Chunks
  BY <1>1, ElementOfSeq
<1>k. PICK k \in 1 .. Len(n.rcvq) : data = SubSeq(n.rcvq, 1, k)
  OBVIOUS
<1>3. data \in Seq(Chunks) /\ Len(data) = k
  BY <1>1, <1>2, <1>k, SubSeqProperties
<1>4. data # <<>>
  BY <1>3
<1>5. SubSeq(n.rcvq, Len(data) + 1, Len(n.rcvq)) \in Seq(Chunks)
  BY <1>1, <1>2, <1>3, SubSeqProperties
<1>6. Append(n.rd, data) \in Seq(Seq(Chunks))
  BY <1>1, <1>3, AppendProperties
<1>7. QED
  BY <1>3, <1>4, <1>5, <1>6 DEF Consumed, Net, NetOf

\* A page that is sent joins those sent before.
LEMMA WrittenType ==
  ASSUME NEW n \in Net, NEW page \in Page
  PROVE  /\ Written(n, page) \in Net
         /\ Written(n, page).phase = n.phase /\ Written(n, page).rst = n.rst
         /\ Written(n, page).rd = n.rd /\ Written(n, page).wr = Append(n.wr, page)
<1>1. Append(n.wr, page) \in Seq(Page) /\ n.unread + 1 \in Nat
  BY AppendProperties DEF Net, NetOf
<1>2. QED
  BY <1>1 DEF Written, Net, NetOf

\* Reading a request when no page is owed, or the client is gone, keeps the
\* histories matched.
LEMMA ReadHistory ==
  ASSUME NEW n \in Net, History(n), n.phase = "open", n.rst \/ Len(n.rd) = Len(n.wr),
         NEW m \in Net, NEW data \in Seq(Chunks), data # <<>>,
         m.phase = n.phase, m.rst = n.rst, m.wr = n.wr, m.rd = Append(n.rd, data)
  PROVE  History(m) /\ Len(m.wr) < Len(m.rd)
<1>1. /\ n.rd \in Seq(Seq(Chunks)) /\ n.wr \in Seq(Page)
      /\ Len(n.rd) \in Nat /\ Len(n.wr) \in Nat /\ Len(n.wr) <= Len(n.rd)
  BY LenProperties DEF Net, NetOf, History
<1>2. /\ Len(m.rd) = Len(n.rd) + 1 /\ m.rd[Len(n.rd) + 1] = data
      /\ \A k \in 1 .. Len(n.rd) : m.rd[k] = n.rd[k]
  BY <1>1, AppendProperties
<1>3. \A k \in 1 .. Len(m.rd) : m.rd[k] # <<>>
  <2>1. \A k \in 1 .. Len(n.rd) : n.rd[k] # <<>>
    BY DEF History
  <2>2. 1 .. Len(m.rd) = (1 .. Len(n.rd)) \cup {Len(n.rd) + 1}
    BY <1>1, <1>2
  <2>3. QED
    BY <1>2, <2>1, <2>2
<1>4. ASSUME NEW k \in 1 .. Len(m.wr) PROVE m.wr[k] = AnswerTo(m.rd, k)
  <2>1. k \in 0 .. Len(n.rd) /\ k > 0
    BY <1>1
  <2>2. AnswerTo(m.rd, k) = AnswerTo(n.rd, k)
    BY <1>1, <2>1, EarlierKept
  <2>3. QED
    BY <2>2 DEF History
<1>5. Len(m.wr) < Len(m.rd) /\ (~m.rst => Len(m.rd) <= Len(m.wr) + 1)
  BY <1>1, <1>2
<1>6. QED
  BY <1>1, <1>2, <1>3, <1>4, <1>5 DEF History

\* Sending the page that is owed keeps them matched.
LEMMA WriteHistory ==
  ASSUME NEW n \in Net, History(n), n.phase = "open", ~n.rst, Len(n.wr) < Len(n.rd),
         NEW s \in ConnectStat, Remembers(s, n.rd),
         NEW m \in Net, m.phase = n.phase, m.rst = n.rst, m.rd = n.rd,
         m.wr = Append(n.wr, PageOf(s))
  PROVE  History(m) /\ Len(m.rd) = Len(m.wr)
<1>1. /\ n.rd \in Seq(Seq(Chunks)) /\ n.wr \in Seq(Page)
      /\ Len(n.rd) \in Nat /\ Len(n.wr) \in Nat /\ Len(n.rd) = Len(n.wr) + 1
  BY LenProperties DEF Net, NetOf, History
<1>2. /\ Len(m.wr) = Len(n.wr) + 1 /\ m.wr[Len(n.wr) + 1] = PageOf(s)
      /\ \A k \in 1 .. Len(n.wr) : m.wr[k] = n.wr[k]
  BY <1>1, AppendProperties
<1>3. PageOf(s) = AnswerTo(n.rd, Len(n.rd))
  <2>1. n.rd # <<>>
    BY <1>1
  <2>2. QED
    BY <2>1 DEF Remembers, PageOf, AnswerTo
<1>4. \A k \in 1 .. Len(m.wr) : m.wr[k] = AnswerTo(m.rd, k)
  <2>1. 1 .. Len(m.wr) = (1 .. Len(n.wr)) \cup {Len(n.rd)}
    BY <1>1, <1>2
  <2>2. \A k \in 1 .. Len(n.wr) : n.wr[k] = AnswerTo(n.rd, k)
    BY DEF History
  <2>3. QED
    BY <1>1, <1>2, <1>3, <2>1, <2>2
<1>5. QED
  BY <1>1, <1>2, <1>4 DEF History

\* A quiet step keeps what was said about a connection.
LEMMA QuietKeeps ==
  ASSUME NEW n \in Net, NEW m, Quiet(n, m)
  PROVE  /\ History(n) => History(m)
         /\ \A s, ev : Turn(n, s, ev) => Turn(m, s, ev)
         /\ n.rst \/ n.unread < SndCap => m.rst \/ m.unread < SndCap
<1>1. History(n) => History(m)
  BY DEF Quiet, History
<1>2. \A s, ev : Turn(n, s, ev) => Turn(m, s, ev)
  BY DEF Quiet, Turn
<1>3. n.rst \/ n.unread < SndCap => m.rst \/ m.unread < SndCap
  BY SocketsAssumption DEF Quiet, Net, NetOf
<1>4. QED
  BY <1>1, <1>2, <1>3

-----------------------------------------------------------------------------
(* The steps. *)

\* Where an event of a connection leads: to a ConnectStat that is allocated, and
\* a descriptor that is open and registered for one event.
LEMMA EventPlace ==
  ASSUME IInv, proc = "running", NEW e \in events, e.stat # NoConn,
         NEW c, c = e.stat, NEW fd, fd = stat[c].fd
  PROVE  /\ c \in Conns /\ fd \in ConnFds /\ fd \in Fds /\ fd # ListenFd
         /\ sock[fd] = c /\ ptr[fd] = c /\ c \in heap
         /\ net[c] \in Net /\ stat[c] \in ConnectStat /\ net[c].phase = "open"
         /\ interest[fd] = IF "IN" \in e.ev THEN {"IN"} ELSE {"OUT"}
         /\ Turn(net[c], stat[c], interest[fd]) /\ History(net[c])
<1>1. c \in Conns
  BY DEF IInv, TypeOK, Event
<1>2. Pends(e)
  BY DEF IInv, EventsOK
<1>3. fd \in ConnFds /\ interest[fd] # {} /\ sock[fd] = c /\ ("IN" \in e.ev <=> interest[fd] = {"IN"})
  BY <1>2 DEF Pends, Registered
<1>4. Bound(fd)
  BY <1>3 DEF IInv, TablesOK
<1>5. fd \in Fds /\ fd # ListenFd
  BY <1>3, SocketsAssumption DEF Fds
<1>6. net[c] \in Net /\ stat[c] \in ConnectStat
  BY <1>1 DEF IInv, TypeOK, Net
<1>7. Turn(net[c], stat[c], interest[fd]) /\ History(net[c])
  BY <1>1, <1>3 DEF IInv, Talk
<1>8. QED
  BY <1>1, <1>3, <1>4, <1>5, <1>6, <1>7 DEF Bound

\* EPOLL_CTL_MOD on a registered descriptor, with the address it already has.
LEMMA RearmEffect ==
  ASSUME TypeOK, NEW c \in Conns, NEW fd \in ConnFds, fd = stat[c].fd, NEW ev,
         interest[fd] # {}, ptr[fd] = c, Rearm(c, ev)
  PROVE  interest' = [interest EXCEPT ![fd] = ev] /\ ptr' = ptr
<1>1. fd \in Fds
  BY DEF Fds
<1>2. interest' = [interest EXCEPT ![fd] = ev]
  BY DEF Rearm, epoll_ctl, CtlDone, CtlRefused, CtlLegal
<1>3. ptr' = ptr
  BY <1>1 DEF Rearm, TypeOK
<1>4. QED
  BY <1>2, <1>3

\* The server handles an event of a connection: its state becomes m, its
\* ConnectStat s, and it waits for ev next.
LEMMA ServeStep ==
  ASSUME IInv, proc = "running", NEW e \in events, e.stat # NoConn,
         NEW c, c = e.stat, NEW fd, fd = stat[c].fd,
         NEW m \in Net, m.phase = "open", History(m),
         NEW s \in ConnectStat, s.fd = fd,
         NEW ev \in {{"IN"}, {"OUT"}},
         net' = [net EXCEPT ![c] = m],
         stat' = [stat EXCEPT ![c] = s],
         interest' = [interest EXCEPT ![fd] = ev],
         UNCHANGED <<now, acceptq, sock, heap, ptr>>,
         events' = events \ {e},
         pc' \in {"epoll_wait", "dispatch"},
         proc' \in {"running", "SIGSEGV", "SIGPIPE"},
         proc' = "running" => Turn(m, s, ev),
         EndsOnlyIf'
  PROVE  IInv'
<1>0. /\ c \in Conns /\ fd \in ConnFds /\ fd \in Fds /\ fd # ListenFd
      /\ sock[fd] = c /\ ptr[fd] = c /\ c \in heap /\ net[c].phase = "open"
      /\ interest[fd] # {}
  BY EventPlace
<1>t. TypeOK /\ TablesOK /\ EventsOK /\ Talk
  BY DEF IInv
<1>a. /\ net' \in [Conns -> Net] /\ net'[c] = m /\ \A d \in Conns \ {c} : net'[d] = net[d]
      /\ \A d \in Conns : net'[d].phase = net[d].phase
  BY <1>0, <1>t DEF TypeOK, Net
<1>b. /\ stat' \in [Conns -> ConnectStat] /\ stat'[c] = s /\ \A d \in Conns \ {c} : stat'[d] = stat[d]
      /\ \A d \in Conns : stat'[d].fd = stat[d].fd
  BY <1>0, <1>t DEF TypeOK
<1>c. /\ interest' \in [Fds -> Interest] /\ interest'[fd] = ev
      /\ \A f \in Fds \ {fd} : interest'[f] = interest[f]
  BY <1>0, <1>t DEF TypeOK, Interest
<1>1. TypeOK'
  BY <1>t, <1>a, <1>b, <1>c DEF TypeOK, Net
<1>2. TablesOK'
  <2>1. ASSUME NEW f \in ConnFds PROVE Bound(f)'
    <3>1. Bound(f) /\ f \in Fds /\ sock[f] \in Conns \cup {NoConn}
      BY <1>t DEF TablesOK, TypeOK, Fds
    <3>2. interest[f] # {} => ptr[f] \in Conns
      BY <3>1 DEF Bound
    <3>3. QED
      BY <1>0, <1>a, <1>b, <1>c, <3>1, <3>2 DEF Bound
  <2>2. OnePlace'
    <3>1. \A i \in 1 .. Len(acceptq) : acceptq[i] \in Conns
      BY <1>t, ElementOfSeq DEF TypeOK
    <3>2. OnePlace
      BY <1>t DEF TablesOK
    <3>3. QED
      BY <1>a, <3>1, <3>2 DEF OnePlace
  <2>3. interest'[ListenFd] = {"IN"} /\ ptr'[ListenFd] = NoConn
    BY <1>0, <1>t, <1>c DEF TablesOK, Fds
  <2>4. heap' = {d \in Conns : net'[d].phase = "open"}
    BY <1>t, <1>a DEF TablesOK
  <2>5. QED
    BY <2>1, <2>2, <2>3, <2>4 DEF TablesOK
<1>3. EventsOK'
  <2>1. ASSUME NEW d \in events, d # e PROVE Pends(d)'
    <3>1. Pends(d) /\ d.stat # c
      BY <1>t, <2>1 DEF EventsOK
    <3>2. CASE d.stat = NoConn
      BY <3>1, <3>2 DEF Pends
    <3>3. CASE d.stat # NoConn
      <4> DEFINE b == d.stat
                 g == stat[b].fd
      <4>1. b \in Conns /\ b # c /\ g \in ConnFds /\ sock[g] = b
        BY <1>t, <3>1, <3>3 DEF TypeOK, Event, Pends, Registered
      <4>2. g # fd /\ g \in Fds
        BY <1>0, <4>1 DEF Fds
      <4>3. stat'[b] = stat[b] /\ net'[b] = net[b] /\ interest'[g] = interest[g]
        BY <1>a, <1>b, <1>c, <4>1, <4>2
      <4>4. QED
        BY <3>1, <3>3, <4>3 DEF Pends, Registered
    <3>4. QED
      BY <3>2, <3>3
  <2>2. \A d, g \in events' : d.stat = g.stat => d = g
    BY <1>t DEF EventsOK
  <2>3. QED
    BY <2>1, <2>2 DEF EventsOK
<1>4. Talk'
  <2>1. \A d \in Conns : History(net'[d])
    BY <1>t, <1>a DEF Talk
  <2>2. ASSUME proc' = "running", NEW f \in ConnFds
        PROVE  Turn(net'[sock[f]], stat'[sock[f]], interest'[f])
    <3>1. CASE f = fd
      BY <1>0, <1>a, <1>b, <1>c, <2>2, <3>1
    <3>2. CASE f # fd
      <4>1. f \in Fds /\ interest'[f] = interest[f]
        BY <1>c, <3>2 DEF Fds
      <4>2. CASE interest[f] = {}
        BY <4>1, <4>2 DEF Turn
      <4>3. CASE interest[f] # {}
        <5>1. sock[f] \in Conns /\ sock[f] # c
          BY <1>0, <1>t, <3>2, <4>3 DEF TypeOK, TablesOK, Bound, OnePlace
        <5>2. Turn(net[sock[f]], stat[sock[f]], interest[f])
          BY <1>t DEF Talk
        <5>3. QED
          BY <1>a, <1>b, <4>1, <5>1, <5>2
      <4>4. QED
        BY <4>2, <4>3
    <3>3. QED
      BY <3>1, <3>2
  <2>3. QED
    BY <2>1, <2>2 DEF Talk
<1>5. QED
  BY <1>1, <1>2, <1>3, <1>4 DEF IInv

\* The end of a stream: the descriptor is closed and the ConnectStat freed.
LEMMA EndStep ==
  ASSUME IInv, proc = "running", NEW e \in events, e.stat # NoConn,
         NEW c, c = e.stat, EndOfStream(c),
         events' = events \ {e},
         pc' \in {"epoll_wait", "dispatch"},
         UNCHANGED <<now, proc>>
  PROVE  IInv'
<1> DEFINE fd == stat[c].fd
<1>0. /\ c \in Conns /\ fd \in ConnFds /\ fd \in Fds /\ fd # ListenFd
      /\ sock[fd] = c /\ ptr[fd] = c /\ c \in heap /\ net[c].phase = "open"
      /\ net[c] \in Net /\ History(net[c])
  BY EventPlace
<1>t. TypeOK /\ TablesOK /\ EventsOK /\ Talk
  BY DEF IInv
<1> DEFINE m == [net[c] EXCEPT !.phase = "closed"]
<1>e. /\ sock' = [sock EXCEPT ![fd] = NoConn]
      /\ net' = [net EXCEPT ![c] = m]
      /\ interest' = [interest EXCEPT ![fd] = {}]
      /\ heap' = heap \ {c}
      /\ UNCHANGED <<acceptq, stat, ptr>>
  BY <1>0 DEF EndOfStream, Close
<1> HIDE DEF fd
<1>m. /\ m \in Net /\ m.phase = "closed" /\ m.rd = net[c].rd /\ m.wr = net[c].wr
      /\ m.rst = net[c].rst
  BY <1>0 DEF Net, NetOf
<1> HIDE DEF m
<1>a. /\ net' \in [Conns -> Net] /\ net'[c] = m /\ \A d \in Conns \ {c} : net'[d] = net[d]
  BY <1>0, <1>t, <1>e, <1>m DEF TypeOK, Net
<1>b. /\ sock' \in [ConnFds -> Conns \cup {NoConn}] /\ sock'[fd] = NoConn
      /\ \A f \in ConnFds \ {fd} : sock'[f] = sock[f]
  BY <1>0, <1>t, <1>e DEF TypeOK
<1>c. /\ interest' \in [Fds -> Interest] /\ interest'[fd] = {}
      /\ \A f \in Fds \ {fd} : interest'[f] = interest[f]
  BY <1>0, <1>t, <1>e DEF TypeOK, Interest
<1>d. \A f \in ConnFds \ {fd} : f \in Fds /\ (sock[f] # NoConn => sock[f] \in Conns \ {c})
  BY <1>0, <1>t DEF TypeOK, TablesOK, OnePlace, Fds
<1>1. TypeOK'
  BY <1>t, <1>a, <1>b, <1>c, <1>e DEF TypeOK, Net
<1>2. TablesOK'
  <2>1. ASSUME NEW f \in ConnFds PROVE Bound(f)'
    <3>1. CASE f = fd
      BY <1>b, <1>c, <3>1 DEF Bound
    <3>2. CASE f # fd
      <4>1. Bound(f)
        BY <1>t DEF TablesOK
      <4>2. sock'[f] = sock[f] /\ interest'[f] = interest[f]
        BY <1>b, <1>c, <1>d, <3>2
      <4>3. QED
        BY <1>a, <1>d, <1>e, <3>2, <4>1, <4>2 DEF Bound
    <3>3. QED
      BY <3>1, <3>2
  <2>2. OnePlace'
    <3>1. \A i \in 1 .. Len(acceptq) : acceptq[i] \in Conns /\ acceptq[i] # c
      BY <1>0, <1>t, ElementOfSeq DEF TypeOK, TablesOK, OnePlace
    <3>2. OnePlace
      BY <1>t DEF TablesOK
    <3>3. QED
      BY <1>a, <1>b, <1>e, <3>1, <3>2 DEF OnePlace
  <2>3. interest'[ListenFd] = {"IN"} /\ ptr'[ListenFd] = NoConn
    BY <1>0, <1>t, <1>c, <1>e DEF TablesOK, Fds
  <2>4. heap' = {d \in Conns : net'[d].phase = "open"}
    BY <1>t, <1>a, <1>e, <1>m DEF TablesOK
  <2>5. QED
    BY <2>1, <2>2, <2>3, <2>4 DEF TablesOK
<1>3. EventsOK'
  <2>1. ASSUME NEW d \in events, d # e PROVE Pends(d)'
    <3>1. Pends(d) /\ d.stat # c
      BY <1>t, <2>1 DEF EventsOK
    <3>2. CASE d.stat = NoConn
      BY <1>e, <3>1, <3>2 DEF Pends
    <3>3. CASE d.stat # NoConn
      <4> DEFINE b == d.stat
                 g == stat[b].fd
      <4>1. b \in Conns /\ b # c /\ g \in ConnFds /\ sock[g] = b
        BY <1>t, <3>1, <3>3 DEF TypeOK, Event, Pends, Registered
      <4>2. g # fd /\ g \in Fds
        BY <1>0, <4>1 DEF Fds
      <4>3. net'[b] = net[b] /\ interest'[g] = interest[g] /\ sock'[g] = sock[g] /\ stat'[b] = stat[b]
        BY <1>a, <1>b, <1>c, <1>e, <4>1, <4>2
      <4>4. QED
        BY <3>1, <3>3, <4>3 DEF Pends, Registered
    <3>4. QED
      BY <3>2, <3>3
  <2>2. \A d, g \in events' : d.stat = g.stat => d = g
    BY <1>t DEF EventsOK
  <2>3. QED
    BY <2>1, <2>2 DEF EventsOK
<1>4. Talk'
  <2>1. History(m)
    BY <1>0, <1>m DEF History
  <2>2. \A d \in Conns : History(net'[d])
    BY <1>t, <1>a, <2>1 DEF Talk
  <2>3. ASSUME NEW f \in ConnFds
        PROVE  Turn(net'[sock'[f]], stat'[sock'[f]], interest'[f])
    <3>1. CASE f = fd
      BY <1>c, <3>1 DEF Turn
    <3>2. CASE f # fd
      <4>1. f \in Fds /\ interest'[f] = interest[f] /\ sock'[f] = sock[f]
        BY <1>b, <1>c, <1>d, <3>2
      <4>2. CASE interest[f] = {}
        BY <4>1, <4>2 DEF Turn
      <4>3. CASE interest[f] # {}
        <5>1. sock[f] \in Conns \ {c}
          BY <1>d, <1>t, <3>2, <4>3 DEF TablesOK, Bound
        <5>2. Turn(net[sock[f]], stat[sock[f]], interest[f])
          BY <1>t DEF Talk
        <5>3. QED
          BY <1>a, <1>e, <4>1, <5>1, <5>2
      <4>4. QED
        BY <4>2, <4>3
    <3>3. QED
      BY <3>1, <3>2
  <2>4. EndsOnlyIf'
    BY DEF EndsOnlyIf
  <2>5. QED
    BY <2>2, <2>3, <2>4 DEF Talk
<1>5. QED
  BY <1>1, <1>2, <1>3, <1>4 DEF IInv

\* Handling an event leaves the loop at one of its two places.
AfterEvent(e) ==
  /\ events' = events \ {e}
  /\ pc' \in {"epoll_wait", "dispatch"}
  /\ UNCHANGED now

\* A request is read, or the stream ends, or there was nothing to read.
LEMMA RequestStep ==
  ASSUME IInv, proc = "running", NEW e \in events, e.stat # NoConn,
         NEW c, c = e.stat, "IN" \in e.ev,
         do_http_request(c), AfterEvent(e)
  PROVE  IInv'
<1> DEFINE fd == stat[c].fd
           n == net[c]
<1>0. /\ c \in Conns /\ fd \in ConnFds /\ fd \in Fds /\ sock[fd] = c /\ ptr[fd] = c
      /\ n \in Net /\ stat[c] \in ConnectStat /\ n.phase = "open"
      /\ interest[fd] = {"IN"} /\ Turn(n, stat[c], {"IN"}) /\ History(n)
  BY EventPlace
<1>t. TypeOK
  BY DEF IInv
<1>k. /\ stat = [stat EXCEPT ![c] = stat[c]]
      /\ interest = [interest EXCEPT ![fd] = {"IN"}]
  BY <1>0, <1>t DEF TypeOK
<1>s. Remembers(stat[c], n.rd) /\ (n.rst \/ Len(n.rd) = Len(n.wr))
  BY <1>0 DEF Turn
<1>e. /\ events' = events \ {e} /\ pc' \in {"epoll_wait", "dispatch"} /\ now' = now
  BY DEF AfterEvent
<1>1. ASSUME NEW data \in Readable(c), ReadSome(c, data),
             IF SearchesNull(data)
             THEN proc' = "SIGSEGV" /\ UNCHANGED <<statVars, interest>>
             ELSE /\ stat' = [stat EXCEPT ![c] = Parse(@, data)]
                  /\ Rearm(c, {"OUT"})
                  /\ UNCHANGED <<heap, proc>>
      PROVE  IInv'
  <2> DEFINE m == Consumed(n, data)
  <2>1. data \in {SubSeq(n.rcvq, 1, k) : k \in 1 .. Len(n.rcvq)}
    BY <1>1 DEF Readable
  <2>2. net' = [net EXCEPT ![c] = m] /\ UNCHANGED <<acceptq, sock>>
    BY <1>1 DEF ReadSome, Consumed
  <2> HIDE DEF n
  <2>3. /\ data \in Seq(Chunks) /\ data # <<>> /\ m \in Net
        /\ m.phase = "open" /\ m.rst = n.rst
        /\ m.wr = n.wr /\ m.rd = Append(n.rd, data)
    <3>1. /\ data \in Seq(Chunks) /\ data # <<>>
          /\ Consumed(n, data) \in Net
          /\ Consumed(n, data).phase = n.phase /\ Consumed(n, data).rst = n.rst
          /\ Consumed(n, data).wr = n.wr /\ Consumed(n, data).rd = Append(n.rd, data)
      <4> HIDE DEF m, fd
      <4>1. n \in Net
        BY <1>0
      <4>2. QED
        BY <2>1, <4>1, ConsumedType
    <3>2. QED
      BY <1>0, <3>1
  <2> HIDE DEF m
  <2>4. History(m) /\ Len(m.wr) < Len(m.rd)
    BY <1>0, <1>s, <2>3, ReadHistory
  <2>5. CASE SearchesNull(data)
    <3>1. /\ proc' = "SIGSEGV" /\ stat' = [stat EXCEPT ![c] = stat[c]]
          /\ interest' = [interest EXCEPT ![fd] = {"IN"}] /\ UNCHANGED <<heap, ptr>>
      BY <1>1, <1>k, <2>5 DEF statVars
    <3>2. m.rd # <<>> /\ m.rd[Len(m.rd)] = data
      <4>1. n.rd \in Seq(Seq(Chunks))
        BY <1>0 DEF Net, NetOf
      <4>2. /\ Append(n.rd, data) # <<>> /\ Len(Append(n.rd, data)) = Len(n.rd) + 1
            /\ Append(n.rd, data)[Len(n.rd) + 1] = data
        BY <2>3, <4>1, AppendLast
      <4>3. QED
        BY <2>3, <4>2
    <3>3. net'[c] = m
      BY <1>0, <1>t, <2>2 DEF TypeOK
    <3>4. EndsOnlyIf'
      <4>1. SearchesNull(net'[c].rd[Len(net'[c].rd)]) /\ net'[c].rd # <<>>
        BY <2>5, <3>2, <3>3
      <4>2. QED
        BY <1>0, <3>1, <4>1 DEF EndsOnlyIf
    <3> HIDE DEF fd
    <3>5. stat[c].fd = fd
      BY DEF fd
    <3>6. QED
      BY <1>0, <1>e, <2>2, <2>3, <2>4, <3>1, <3>4, <3>5, ServeStep
  <2>6. CASE ~SearchesNull(data)
    <3> DEFINE s == Parse(stat[c], data)
    <3>1. /\ stat' = [stat EXCEPT ![c] = s] /\ UNCHANGED <<heap, proc>>
          /\ Rearm(c, {"OUT"})
      BY <1>1, <2>6
    <3>2. /\ interest' = [interest EXCEPT ![fd] = {"OUT"}] /\ ptr' = ptr
      BY <1>0, <1>t, <3>1, RearmEffect
    <3>3. s \in ConnectStat /\ s.fd = fd
      BY <1>0, <2>3, <2>6, ParseType
    <3>4. Remembers(s, m.rd)
      <4>1. n.rd \in Seq(Seq(Chunks))
        BY <1>0 DEF Net, NetOf
      <4>2. QED
        BY <1>0, <1>s, <2>3, <4>1, ParseRemembers
    <3> HIDE DEF s
    <3>5. Turn(m, s, {"OUT"})
      BY <2>4, <3>4 DEF Turn
    <3>6. EndsOnlyIf'
      BY <3>1 DEF EndsOnlyIf
    <3>7. stat[c].fd = fd
      OBVIOUS
    <3> HIDE DEF fd
    <3>8. QED
      BY <1>0, <1>e, <2>2, <2>3, <2>4, <3>1, <3>2, <3>3, <3>5, <3>6, <3>7, ServeStep
  <2>7. QED
    BY <2>5, <2>6
<1>2. CASE ReadEnd(c) /\ EndOfStream(c) /\ UNCHANGED proc
  BY <1>2, <1>e, EndStep
<1>3. CASE ReadError(c) /\ UNCHANGED <<statVars, interest, proc>>
  <2>1. /\ \E m : Quiet(net[c], m) /\ net' = [net EXCEPT ![c] = m]
        /\ UNCHANGED <<acceptq, sock>>
    BY <1>0, <1>3, <1>t, ErrorEffect
  <2>2. PICK m : Quiet(n, m) /\ net' = [net EXCEPT ![c] = m]
    BY <2>1
  <2>3. m \in Net /\ m.phase = "open" /\ History(m) /\ Turn(m, stat[c], {"IN"})
    BY <1>0, <2>2, QuietKeeps DEF Quiet
  <2>4. EndsOnlyIf'
    BY <1>3 DEF EndsOnlyIf
  <2>5. stat' = [stat EXCEPT ![c] = stat[c]] /\ interest' = [interest EXCEPT ![fd] = {"IN"}]
        /\ UNCHANGED <<heap, ptr, proc>>
    BY <1>3, <1>k DEF statVars
  <2>6. stat[c].fd = fd
    OBVIOUS
  <2> HIDE DEF fd, n
  <2>7. QED
    BY <1>0, <1>e, <2>1, <2>2, <2>3, <2>4, <2>5, <2>6, ServeStep
<1>4. QED
  BY <1>0, <1>1, <1>2, <1>3 DEF do_http_request

\* A page is sent, or cannot be, or the client's reset ends the process.
LEMMA ResponseStep ==
  ASSUME IInv, proc = "running", NEW e \in events, e.stat # NoConn,
         NEW c, c = e.stat, "IN" \notin e.ev,
         do_http_respone(c), AfterEvent(e)
  PROVE  IInv'
<1> DEFINE fd == stat[c].fd
           n == net[c]
<1>0. /\ c \in Conns /\ fd \in ConnFds /\ fd \in Fds /\ sock[fd] = c /\ ptr[fd] = c
      /\ n \in Net /\ stat[c] \in ConnectStat /\ n.phase = "open"
      /\ interest[fd] = {"OUT"} /\ Turn(n, stat[c], {"OUT"}) /\ History(n)
  BY EventPlace
<1>t. TypeOK
  BY DEF IInv
<1>k. /\ stat = [stat EXCEPT ![c] = stat[c]]
      /\ interest = [interest EXCEPT ![fd] = {"OUT"}]
      /\ net = [net EXCEPT ![c] = n]
  BY <1>0, <1>t DEF TypeOK
<1>s. /\ Remembers(stat[c], n.rd) /\ Len(n.wr) < Len(n.rd)
      /\ stat[c].handler # "NULL" /\ (n.rst \/ n.unread < SndCap)
  <2>1. Remembers(stat[c], n.rd) /\ Len(n.wr) < Len(n.rd)
    BY <1>0 DEF Turn
  <2>2. n.rd # <<>>
    <3>1. n.rd = <<>> => Len(n.rd) = 0
      OBVIOUS
    <3>2. Len(n.wr) \in Nat /\ Len(n.rd) \in Nat
      BY <1>0, LenProperties DEF Net, NetOf
    <3>3. QED
      BY <2>1, <3>1, <3>2
  <2>3. Pends(e)
    BY DEF IInv, EventsOK
  <2>4. QED
    BY <1>0, <2>1, <2>2, <2>3 DEF Pends, Remembers
<1>e. /\ events' = events \ {e} /\ pc' \in {"epoll_wait", "dispatch"} /\ now' = now
  BY DEF AfterEvent
<1>5. stat[c].fd = fd
  OBVIOUS
<1>1. CASE /\ WriteAll(c, PageOf(stat[c])) \/ WriteError(c)
           /\ Rearm(c, {"IN"})
           /\ UNCHANGED <<stat, heap, proc>>
  <2>1. interest' = [interest EXCEPT ![fd] = {"IN"}] /\ ptr' = ptr
    BY <1>0, <1>1, <1>t, RearmEffect
  <2>2. stat' = [stat EXCEPT ![c] = stat[c]] /\ UNCHANGED <<heap, proc>>
    BY <1>1, <1>k
  <2>3. EndsOnlyIf'
    BY <1>1 DEF EndsOnlyIf
  <2>4. CASE WriteAll(c, PageOf(stat[c]))
    <3> DEFINE p == PageOf(stat[c])
               m == Written(n, p)
    <3>1. p \in Page
      BY <1>0, <1>s DEF PageOf, ConnectStat, Page, Values
    <3>2. net' = [net EXCEPT ![c] = m] /\ UNCHANGED <<acceptq, sock>> /\ ~n.rst
      BY <2>4 DEF WriteAll, Written
    <3> HIDE DEF n
    <3>3. m \in Net /\ m.phase = "open" /\ m.rst = n.rst /\ m.rd = n.rd /\ m.wr = Append(n.wr, p)
      <4> HIDE DEF p
      <4>1. QED
        BY <1>0, <3>1, WrittenType
    <3> HIDE DEF m
    <3>4. History(m) /\ Len(m.rd) = Len(m.wr)
      BY <1>0, <1>s, <3>2, <3>3, WriteHistory
    <3>5. Turn(m, stat[c], {"IN"})
      BY <1>s, <3>3, <3>4 DEF Turn
    <3> HIDE DEF fd
    <3>6. QED
      BY <1>0, <1>e, <1>5, <2>1, <2>2, <2>3, <3>2, <3>3, <3>4, <3>5, ServeStep
  <2>5. CASE WriteError(c)
    <3>1. /\ \E m : Quiet(net[c], m) /\ net' = [net EXCEPT ![c] = m]
          /\ UNCHANGED <<acceptq, sock>>
      BY <1>0, <1>t, <2>5, ErrorEffect
    <3>2. PICK m : Quiet(n, m) /\ net' = [net EXCEPT ![c] = m]
      BY <3>1
    <3>3. m \in Net /\ m.phase = "open" /\ History(m) /\ Turn(m, stat[c], {"OUT"})
      BY <1>0, <3>2, QuietKeeps DEF Quiet
    <3>4. n.rst
      BY <1>0, <1>s, <2>5, SocketsAssumption DEF WriteError, Net, NetOf
    <3>5. Turn(m, stat[c], {"IN"})
      BY <3>2, <3>3, <3>4 DEF Turn, Quiet
    <3> HIDE DEF fd, n
    <3>6. QED
      BY <1>0, <1>e, <1>5, <2>1, <2>2, <2>3, <3>1, <3>2, <3>3, <3>5, ServeStep
  <2>6. QED
    BY <1>1, <2>4, <2>5
<1>2. CASE WriteBroken(c) /\ proc' = "SIGPIPE" /\ UNCHANGED serverVars
  <2>1. /\ net' = [net EXCEPT ![c] = n] /\ stat' = [stat EXCEPT ![c] = stat[c]]
        /\ interest' = [interest EXCEPT ![fd] = {"OUT"}]
        /\ UNCHANGED <<acceptq, sock, heap, ptr>>
    BY <1>2, <1>k DEF serverVars, statVars, netVars
  <2>2. EndsOnlyIf'
    <3>1. net'[c].rst /\ Len(net'[c].wr) < Len(net'[c].rd)
      BY <1>2, <1>s DEF WriteBroken, serverVars, netVars
    <3>2. QED
      BY <1>0, <1>2, <3>1 DEF EndsOnlyIf
  <2>3. proc' = "SIGPIPE"
    BY <1>2
  <2> HIDE DEF fd, n
  <2>4. QED
    BY <1>0, <1>e, <1>5, <2>1, <2>2, <2>3, ServeStep
<1>3. QED
  BY <1>0, <1>1, <1>2, <1>s DEF do_http_respone

\* accept() returns a connection, for which a ConnectStat is made unless there
\* is no memory, and registered unless epoll is at its limit.
LEMMA OpenStep ==
  ASSUME IInv, proc = "running", NEW e \in events, e.stat = NoConn,
         NEW fd \in FreeFds, Accept(fd),
         \/ connect_handle(Head(acceptq), fd) /\ UNCHANGED proc
         \/ AllocFails /\ proc' = "SIGSEGV" /\ UNCHANGED <<statVars, interest>>,
         AfterEvent(e)
  PROVE  IInv'
<1> DEFINE c == Head(acceptq)
           m == [net[c] EXCEPT !.phase = "open"]
<1>t. TypeOK /\ TablesOK /\ EventsOK /\ Talk
  BY DEF IInv
<1>0. /\ fd \in ConnFds /\ fd \in Fds /\ fd # ListenFd /\ sock[fd] = NoConn
      /\ interest[fd] = {} /\ acceptq # <<>>
  <2>1. Pends(e)
    BY <1>t DEF EventsOK
  <2>2. fd \in ConnFds /\ sock[fd] = NoConn
    BY DEF FreeFds
  <2>3. QED
    BY <1>t, <2>1, <2>2, SocketsAssumption DEF TablesOK, Bound, Fds, Pends
<1>e. /\ sock' = [sock EXCEPT ![fd] = c]
      /\ net' = [net EXCEPT ![c] = m]
      /\ acceptq' = Tail(acceptq)
      /\ events' = events \ {e} /\ pc' \in {"epoll_wait", "dispatch"} /\ now' = now
  BY DEF Accept, AfterEvent
<1>q. /\ \A i \in 1 .. Len(acceptq) : acceptq[i] \in Conns
      /\ c = acceptq[1] /\ Len(acceptq) \in Nat \ {0}
      /\ acceptq' \in Seq(Conns) /\ Len(acceptq') = Len(acceptq) - 1
      /\ \A i \in 1 .. Len(acceptq') : acceptq'[i] = acceptq[i + 1]
  BY <1>0, <1>t, <1>e, ElementOfSeq, HeadTailProperties, EmptySeq DEF TypeOK
<1> HIDE DEF c
<1>1. /\ c \in Conns /\ net[c].phase = "queued" /\ net[c] \in Net /\ History(net[c])
      /\ \A i \in 1 .. Len(acceptq') : acceptq'[i] # c
  <2>1. \A i \in 1 .. Len(acceptq') : i + 1 \in 1 .. Len(acceptq) /\ i + 1 # 1 /\ 1 \in 1 .. Len(acceptq)
    BY <1>q
  <2>2. 1 \in 1 .. Len(acceptq)
    BY <1>q
  <2>3. OnePlace
    BY <1>t DEF TablesOK
  <2>4. \A i \in 1 .. Len(acceptq') : acceptq'[i] # c
    BY <1>q, <2>1, <2>2, <2>3 DEF OnePlace
  <2>5. c \in Conns /\ net[c].phase = "queued"
    BY <1>q, <2>2, <2>3 DEF OnePlace
  <2>6. QED
    BY <1>t, <2>4, <2>5 DEF TypeOK, Net, Talk
<1>m. m \in Net /\ m.phase = "open" /\ m.rd = <<>> /\ m.wr = <<>> /\ History(m)
  <2>1. net[c].rd = <<>> /\ net[c].wr = <<>>
    BY <1>1 DEF History
  <2>2. m \in Net /\ m.phase = "open" /\ m.rd = net[c].rd /\ m.wr = net[c].wr /\ m.rst = net[c].rst
    BY <1>1 DEF Net, NetOf
  <2> HIDE DEF m
  <2>3. QED
    BY <1>1, <2>1, <2>2 DEF History
<1> HIDE DEF m
<1>2. \A f \in ConnFds : /\ f \in Fds
                         /\ sock[f] # NoConn => sock[f] \in Conns \ {c} /\ f # fd
  BY <1>0, <1>1, <1>t DEF TypeOK, TablesOK, Bound, Fds
<1>a. /\ net' \in [Conns -> Net] /\ net'[c] = m /\ \A d \in Conns \ {c} : net'[d] = net[d]
  BY <1>1, <1>t, <1>e, <1>m DEF TypeOK, Net
<1>b. /\ sock' \in [ConnFds -> Conns \cup {NoConn}] /\ sock'[fd] = c
      /\ \A f \in ConnFds \ {fd} : sock'[f] = sock[f]
  BY <1>0, <1>1, <1>t, <1>e DEF TypeOK
<1>c. CASE AllocFails /\ proc' = "SIGSEGV" /\ UNCHANGED <<statVars, interest>>
  <2>0. UNCHANGED <<stat, heap, ptr, interest>> /\ proc' = "SIGSEGV"
    BY <1>c DEF statVars
  <2>1. TypeOK'
    BY <1>t, <1>a, <1>b, <1>e, <1>q, <2>0 DEF TypeOK, Net
  <2>2. TablesOK'
    <3>1. ASSUME NEW f \in ConnFds PROVE Bound(f)'
      <4>1. CASE f = fd
        BY <1>0, <1>a, <1>b, <1>m, <2>0, <4>1 DEF Bound
      <4>2. CASE f # fd
        <5>1. Bound(f)
          BY <1>t DEF TablesOK
        <5>2. QED
          BY <1>2, <1>a, <1>b, <2>0, <4>2, <5>1 DEF Bound
      <4>3. QED
        BY <4>1, <4>2
    <3>2. OnePlace'
      <4>1. \A i \in 1 .. Len(acceptq') : i + 1 \in 1 .. Len(acceptq)
        BY <1>q
      <4>2. OnePlace
        BY <1>t DEF TablesOK
      <4>3. \A i \in 1 .. Len(acceptq') : net'[acceptq'[i]].phase = "queued"
        BY <1>1, <1>a, <1>q, <4>1, <4>2 DEF OnePlace
      <4>4. \A i, j \in 1 .. Len(acceptq') : acceptq'[i] = acceptq'[j] => i = j
        <5> SUFFICES ASSUME NEW i \in 1 .. Len(acceptq'), NEW j \in 1 .. Len(acceptq'),
                            acceptq'[i] = acceptq'[j]
                     PROVE  i = j
          OBVIOUS
        <5>1. acceptq[i + 1] = acceptq[j + 1] /\ i + 1 \in 1 .. Len(acceptq) /\ j + 1 \in 1 .. Len(acceptq)
          BY <1>q, <4>1
        <5>2. i + 1 = j + 1
          BY <4>2, <5>1 DEF OnePlace
        <5>3. QED
          BY <5>2
      <4>5. \A f, g \in ConnFds : sock'[f] # NoConn /\ sock'[f] = sock'[g] => f = g
        BY <1>2, <1>b, <4>2 DEF OnePlace
      <4>6. QED
        BY <4>3, <4>4, <4>5 DEF OnePlace
    <3>3. QED
      BY <1>t, <2>0, <3>1, <3>2 DEF TablesOK
  <2>3. EventsOK'
    <3>1. ASSUME NEW d \in events, d # e PROVE Pends(d)'
      <4>1. Pends(d) /\ d.stat # NoConn
        BY <1>t, <3>1 DEF EventsOK
      <4>2. d.stat \in Conns /\ stat[d.stat].fd \in ConnFds /\ sock[stat[d.stat].fd] = d.stat
        BY <1>t, <4>1 DEF TypeOK, Event, Pends, Registered
      <4>3. d.stat # c /\ stat[d.stat].fd # fd
        BY <1>2, <4>1, <4>2, SocketsAssumption
      <4>4. QED
        BY <1>a, <1>b, <2>0, <4>1, <4>2, <4>3 DEF Pends, Registered
    <3>2. QED
      BY <1>t, <1>e, <3>1 DEF EventsOK
  <2>4. Talk'
    <3>1. EndsOnlyIf'
      BY <1>c, <2>0 DEF EndsOnlyIf
    <3>2. QED
      BY <1>t, <1>a, <1>m, <2>0, <3>1 DEF Talk
  <2>5. QED
    BY <2>1, <2>2, <2>3, <2>4 DEF IInv
<1>d. CASE connect_handle(c, fd) /\ UNCHANGED proc
  <2>0. /\ stat' = [stat EXCEPT ![c] = stat_init(fd)] /\ heap' = heap \cup {c}
        /\ ptr' = [ptr EXCEPT ![fd] = c] /\ proc' = proc
    BY <1>d DEF connect_handle
  <2>a. /\ interest' \in [Fds -> Interest]
        /\ interest'[fd] \in {{}, {"IN"}}
        /\ \A f \in Fds \ {fd} : interest'[f] = interest[f]
    <3>1. epoll_ctl("ADD", fd, {"IN"})
      BY <1>d DEF connect_handle
    <3>2. QED
      BY <1>0, <1>t, <3>1 DEF epoll_ctl, CtlDone, CtlRefused, CtlLegal, TypeOK, Interest
  <2>b. /\ stat_init(fd) \in ConnectStat /\ Remembers(stat_init(fd), <<>>)
        /\ stat_init(fd).fd = fd
    BY <1>0, InitRemembers DEF stat_init
  <2>c. /\ stat' \in [Conns -> ConnectStat] /\ stat'[c] = stat_init(fd)
        /\ \A d \in Conns \ {c} : stat'[d] = stat[d]
    BY <1>1, <1>t, <2>0, <2>b DEF TypeOK
  <2>d. /\ ptr' \in [Fds -> Conns \cup {NoConn}] /\ ptr'[fd] = c
        /\ \A f \in Fds \ {fd} : ptr'[f] = ptr[f]
    BY <1>0, <1>1, <1>t, <2>0 DEF TypeOK
  <2>1. TypeOK'
    BY <1>1, <1>t, <1>a, <1>b, <1>e, <1>q, <2>0, <2>a, <2>c, <2>d DEF TypeOK, Net
  <2>2. TablesOK'
    <3>1. ASSUME NEW f \in ConnFds PROVE Bound(f)'
      <4>1. CASE f = fd
        BY <1>1, <1>a, <1>b, <1>m, <2>0, <2>a, <2>b, <2>c, <2>d, <4>1, SocketsAssumption DEF Bound
      <4>2. CASE f # fd
        <5>1. Bound(f)
          BY <1>t DEF TablesOK
        <5>2. /\ sock'[f] = sock[f] /\ interest'[f] = interest[f] /\ ptr'[f] = ptr[f]
          BY <1>2, <1>b, <2>a, <2>d, <4>2
        <5>3. QED
          BY <1>2, <1>a, <2>0, <2>c, <5>1, <5>2 DEF Bound
      <4>3. QED
        BY <4>1, <4>2
    <3>2. OnePlace'
      <4>1. \A i \in 1 .. Len(acceptq') : i + 1 \in 1 .. Len(acceptq)
        BY <1>q
      <4>2. OnePlace
        BY <1>t DEF TablesOK
      <4>3. \A i \in 1 .. Len(acceptq') : net'[acceptq'[i]].phase = "queued"
        BY <1>1, <1>a, <1>q, <4>1, <4>2 DEF OnePlace
      <4>4. \A i, j \in 1 .. Len(acceptq') : acceptq'[i] = acceptq'[j] => i = j
        <5> SUFFICES ASSUME NEW i \in 1 .. Len(acceptq'), NEW j \in 1 .. Len(acceptq'),
                            acceptq'[i] = acceptq'[j]
                     PROVE  i = j
          OBVIOUS
        <5>1. acceptq[i + 1] = acceptq[j + 1] /\ i + 1 \in 1 .. Len(acceptq) /\ j + 1 \in 1 .. Len(acceptq)
          BY <1>q, <4>1
        <5>2. i + 1 = j + 1
          BY <4>2, <5>1 DEF OnePlace
        <5>3. QED
          BY <5>2
      <4>5. \A f, g \in ConnFds : sock'[f] # NoConn /\ sock'[f] = sock'[g] => f = g
        BY <1>2, <1>b, <4>2 DEF OnePlace
      <4>6. QED
        BY <4>3, <4>4, <4>5 DEF OnePlace
    <3>3. interest'[ListenFd] = {"IN"} /\ ptr'[ListenFd] = NoConn
      BY <1>0, <1>t, <2>a, <2>d DEF TablesOK, Fds
    <3>4. proc' = "running" => heap' = {d \in Conns : net'[d].phase = "open"}
      BY <1>1, <1>t, <1>a, <1>m, <2>0 DEF TablesOK
    <3>5. QED
      BY <3>1, <3>2, <3>3, <3>4 DEF TablesOK
  <2>3. EventsOK'
    <3>1. ASSUME NEW d \in events, d # e PROVE Pends(d)'
      <4>1. Pends(d) /\ d.stat # NoConn
        BY <1>t, <3>1 DEF EventsOK
      <4>2. d.stat \in Conns /\ stat[d.stat].fd \in ConnFds /\ sock[stat[d.stat].fd] = d.stat
        BY <1>t, <4>1 DEF TypeOK, Event, Pends, Registered
      <4>3. d.stat # c /\ stat[d.stat].fd # fd /\ stat[d.stat].fd \in Fds
        BY <1>2, <4>1, <4>2, SocketsAssumption
      <4>4. stat'[d.stat] = stat[d.stat] /\ interest'[stat[d.stat].fd] = interest[stat[d.stat].fd]
            /\ net'[d.stat] = net[d.stat] /\ sock'[stat[d.stat].fd] = sock[stat[d.stat].fd]
        BY <1>a, <1>b, <2>a, <2>c, <4>2, <4>3
      <4>5. QED
        BY <4>1, <4>4 DEF Pends, Registered
    <3>2. QED
      BY <1>t, <1>e, <3>1 DEF EventsOK
  <2>4. Talk'
    <3>1. EndsOnlyIf'
      BY <2>0 DEF EndsOnlyIf
    <3>2. \A d \in Conns : History(net'[d])
      BY <1>t, <1>a, <1>m DEF Talk
    <3>3. ASSUME NEW f \in ConnFds
          PROVE  Turn(net'[sock'[f]], stat'[sock'[f]], interest'[f])
      <4>1. CASE f = fd
        <5>1. Turn(m, stat_init(fd), interest'[fd])
          BY <1>m, <2>a, <2>b DEF Turn
        <5>2. QED
          BY <1>a, <1>b, <2>c, <4>1, <5>1
      <4>2. CASE f # fd
        <5>1. sock'[f] = sock[f] /\ interest'[f] = interest[f]
          BY <1>2, <1>b, <2>a, <4>2
        <5>2. CASE interest[f] = {}
          BY <5>1, <5>2 DEF Turn
        <5>3. CASE interest[f] # {}
          <6>1. sock[f] \in Conns \ {c}
            BY <1>2, <1>t, <5>3 DEF TablesOK, Bound
          <6>2. Turn(net[sock[f]], stat[sock[f]], interest[f])
            BY <1>t DEF Talk
          <6>3. QED
            BY <1>a, <2>c, <5>1, <6>1, <6>2
        <5>4. QED
          BY <5>2, <5>3
      <4>3. QED
        BY <4>1, <4>2
    <3>4. QED
      BY <3>1, <3>2, <3>3 DEF Talk
  <2>5. QED
    BY <2>1, <2>2, <2>3, <2>4 DEF IInv
<1>5. QED
  BY <1>c, <1>d DEF c

\* Taking an event away from those that wait, and nothing else.
LEMMA IgnoreStep ==
  ASSUME IInv, NEW e \in events, UNCHANGED <<serverVars, proc>>, AfterEvent(e)
  PROVE  IInv'
<1>0. /\ UNCHANGED <<now, acceptq, sock, net, interest, stat, heap, ptr, proc>>
      /\ events' = events \ {e} /\ pc' \in {"epoll_wait", "dispatch"}
  BY DEF serverVars, statVars, netVars, AfterEvent
<1>1. TypeOK'
  BY <1>0 DEF IInv, TypeOK
<1>2. TablesOK'
  BY <1>0 DEF IInv, TablesOK, Bound, OnePlace
<1>3. EventsOK'
  BY <1>0 DEF IInv, EventsOK, Pends, Registered
<1>4. Talk'
  BY <1>0 DEF IInv, Talk, EndsOnlyIf
<1>5. QED
  BY <1>1, <1>2, <1>3, <1>4 DEF IInv

\* epoll_wait() reports what is true, and each descriptor once.
LEMMA EpollWaitStep ==
  ASSUME IInv, EpollWait, UNCHANGED now
  PROVE  IInv'
<1>t. TypeOK /\ TablesOK /\ EventsOK /\ Talk
  BY DEF IInv
<1>1. PICK batch \in epoll_wait(MaxEvents) :
        events' = {[stat |-> ptr[fd], ev |-> Reported(fd)] : fd \in batch}
  BY DEF EpollWait
<1>2. batch \subseteq ReadyFds
  BY DEF epoll_wait
<1>0. /\ UNCHANGED <<now, acceptq, sock, net, interest, stat, heap, ptr, proc>>
      /\ pc' = "dispatch"
  BY DEF EpollWait, serverVars, statVars, netVars
<1>3. \A fd \in Fds : Reported(fd) \in SUBSET {"IN", "OUT", "HUP"}
  BY DEF Reported, Pending
<1>4. TypeOK'
  <2>1. events' \subseteq Event
    BY <1>1, <1>2, <1>3, <1>t DEF TypeOK, Event, ReadyFds
  <2>2. QED
    BY <1>0, <1>t, <2>1 DEF TypeOK
<1>5. TablesOK'
  BY <1>0, <1>t DEF TablesOK, Bound, OnePlace
<1>6. Talk'
  BY <1>0, <1>t DEF Talk, EndsOnlyIf
<1>7. ASSUME NEW fd \in batch
      PROVE  /\ IF ptr[fd] = NoConn THEN fd = ListenFd /\ acceptq # <<>>
                ELSE LET n == net[ptr[fd]] IN
                  /\ stat[ptr[fd]].fd = fd /\ fd \in ConnFds /\ interest[fd] # {}
                  /\ sock[fd] = ptr[fd]
                  /\ "IN" \in Reported(fd) <=> interest[fd] = {"IN"}
                  /\ interest[fd] = {"OUT"} => n.rst \/ n.unread < SndCap
  <2>1. fd \in Fds /\ interest[fd] # {} /\ Reported(fd) # {}
    BY <1>2 DEF ReadyFds
  <2>2. CASE fd = ListenFd
    <3>1. acceptq # <<>>
      BY <2>1, <2>2 DEF Reported, Pending
    <3>2. QED
      BY <1>t, <2>2, <3>1 DEF TablesOK
  <2>3. CASE fd # ListenFd
    <3>1. fd \in ConnFds /\ sock[fd] \in Conns
      BY <1>t, <2>1, <2>3 DEF TypeOK, TablesOK, Bound, Fds
    <3>2. ptr[fd] = sock[fd] /\ stat[ptr[fd]].fd = fd /\ interest[fd] \in {{"IN"}, {"OUT"}}
      BY <1>t, <2>1, <3>1 DEF TablesOK, Bound
    <3> DEFINE n == net[sock[fd]]
    <3>3. Pending(fd) = (IF n.rcvq # <<>> \/ n.fin \/ n.rst THEN {"IN"} ELSE {})
                        \cup (IF n.unread < SndCap \/ n.rst THEN {"OUT"} ELSE {})
                        \cup (IF n.rst THEN {"HUP"} ELSE {})
      BY <2>3 DEF Pending
    <3> HIDE DEF n
    <3>4. /\ "IN" \in Reported(fd) <=> interest[fd] = {"IN"}
          /\ interest[fd] = {"OUT"} => n.rst \/ n.unread < SndCap
      <4>1. CASE interest[fd] = {"IN"}
        BY <2>1, <3>3, <4>1 DEF Reported
      <4>2. CASE interest[fd] = {"OUT"}
        BY <2>1, <3>3, <4>2 DEF Reported
      <4>3. QED
        BY <3>2, <4>1, <4>2
    <3>5. ptr[fd] # NoConn
      BY <3>1, <3>2, SocketsAssumption
    <3>6. QED
      BY <2>1, <3>1, <3>2, <3>4, <3>5 DEF n
  <2>4. QED
    BY <2>2, <2>3
<1>8. EventsOK'
  <2>1. ASSUME NEW e \in events' PROVE Pends(e)'
    <3>1. PICK fd \in batch : e = [stat |-> ptr[fd], ev |-> Reported(fd)]
      BY <1>1
    <3>2. e.stat = ptr[fd] /\ e.ev = Reported(fd)
      BY <3>1
    <3>3. QED
      BY <1>0, <1>7, <3>2 DEF Pends, Registered
  <2>2. ASSUME NEW e \in events', NEW d \in events', e.stat = d.stat PROVE e = d
    <3>1. PICK f \in batch : e = [stat |-> ptr[f], ev |-> Reported(f)]
      BY <1>1
    <3>2. PICK g \in batch : d = [stat |-> ptr[g], ev |-> Reported(g)]
      BY <1>1
    <3>3. ptr[f] = ptr[g]
      BY <2>2, <3>1, <3>2
    <3>4. f = g
      BY <1>7, <3>3
    <3>5. QED
      BY <3>1, <3>2, <3>4
  <2>3. QED
    BY <2>1, <2>2 DEF EventsOK
<1>9. QED
  BY <1>4, <1>5, <1>6, <1>8 DEF IInv

\* A step of a client takes nothing away from what an event has reported.
LEMMA ClientStep ==
  ASSUME IInv, Clients
  PROVE  IInv'
<1>t. TypeOK /\ TablesOK /\ EventsOK /\ Talk
  BY DEF IInv
<1>0. /\ UNCHANGED <<now, interest, stat, heap, ptr, events, pc, proc>> /\ proc = "running"
  BY DEF Clients, statVars
<1>1. PICK c \in Conns : Client(c)
  BY DEF Clients
<1>e. EndsOnlyIf'
  BY <1>0 DEF EndsOnlyIf
<1>o. OnePlace
  BY <1>t DEF TablesOK
<1>i. \A i \in 1 .. Len(acceptq) : acceptq[i] \in Conns
  BY <1>t, ElementOfSeq DEF TypeOK
<1>2. CASE /\ net[c].phase = "new"
           /\ net' = [net EXCEPT ![c].phase = "queued"]
           /\ acceptq' = Append(acceptq, c) /\ UNCHANGED sock
  <2> DEFINE m == [net[c] EXCEPT !.phase = "queued"]
  <2>1. /\ m \in Net /\ m.phase = "queued" /\ m.rd = net[c].rd /\ m.wr = net[c].wr
        /\ m.rst = net[c].rst /\ net' = [net EXCEPT ![c] = m]
    BY <1>2, <1>t DEF TypeOK, Net, NetOf
  <2> HIDE DEF m
  <2>2. /\ net' \in [Conns -> Net] /\ net'[c] = m /\ \A d \in Conns \ {c} : net'[d] = net[d]
    BY <1>t, <2>1 DEF TypeOK, Net
  <2>3. /\ acceptq' \in Seq(Conns) /\ Len(acceptq') = Len(acceptq) + 1 /\ Len(acceptq) \in Nat
        /\ acceptq'[Len(acceptq) + 1] = c /\ acceptq' # <<>>
        /\ \A i \in 1 .. Len(acceptq) : acceptq'[i] = acceptq[i] /\ acceptq[i] # c
    BY <1>2, <1>i, <1>o, <1>t, AppendProperties, LenProperties DEF TypeOK, OnePlace
  <2>4. History(m) /\ m.phase = "queued"
    BY <1>2, <1>t, <2>1 DEF Talk, History
  <2>5. \A f \in ConnFds : sock[f] # NoConn => sock[f] \in Conns \ {c}
    BY <1>2, <1>t DEF TypeOK, TablesOK, Bound
  <2>6. TypeOK'
    BY <1>0, <1>2, <1>t, <2>2, <2>3 DEF TypeOK, Net
  <2>7. TablesOK'
    <3>1. ASSUME NEW f \in ConnFds PROVE Bound(f)'
      BY <1>0, <1>2, <1>t, <2>2, <2>5 DEF TablesOK, Bound
    <3>2. OnePlace'
      <4>1. 1 .. Len(acceptq') = (1 .. Len(acceptq)) \cup {Len(acceptq) + 1}
        BY <2>3
      <4>2. \A i \in 1 .. Len(acceptq') : net'[acceptq'[i]].phase = "queued"
        BY <1>i, <1>o, <2>2, <2>3, <2>4, <4>1 DEF OnePlace
      <4>3. \A i, j \in 1 .. Len(acceptq') : acceptq'[i] = acceptq'[j] => i = j
        BY <1>o, <2>3, <4>1 DEF OnePlace
      <4>4. QED
        BY <1>2, <1>o, <4>2, <4>3 DEF OnePlace
    <3>3. heap' = {d \in Conns : net'[d].phase = "open"}
      BY <1>0, <1>2, <1>t, <2>2, <2>4 DEF TablesOK
    <3>4. QED
      BY <1>0, <1>t, <3>1, <3>2, <3>3 DEF TablesOK
  <2>8. EventsOK'
    <3>1. ASSUME NEW e \in events PROVE Pends(e)'
      <4>1. Pends(e)
        BY <1>t DEF EventsOK
      <4>2. CASE e.stat = NoConn
        BY <2>3, <4>2 DEF Pends
      <4>3. CASE e.stat # NoConn
        <5>1. e.stat \in Conns \ {c}
          BY <1>t, <2>5, <4>1, <4>3 DEF TypeOK, Event, Pends, Registered
        <5>2. net'[e.stat] = net[e.stat]
          BY <2>2, <5>1
        <5>3. QED
          BY <1>0, <1>2, <4>1, <4>3, <5>2 DEF Pends, Registered
      <4>4. QED
        BY <4>2, <4>3
    <3>2. QED
      BY <1>0, <1>t, <3>1 DEF EventsOK
  <2>9. Talk'
    <3>1. \A d \in Conns : History(net'[d])
      BY <1>t, <2>2, <2>4 DEF Talk
    <3>2. ASSUME NEW f \in ConnFds PROVE Turn(net[sock[f]], stat[sock[f]], interest[f])'
      <4>1. CASE interest[f] = {}
        BY <1>0, <4>1 DEF Turn
      <4>2. CASE interest[f] # {}
        <5>1. sock[f] \in Conns \ {c}
          BY <1>t, <2>5, <4>2 DEF TablesOK, Bound
        <5>2. Turn(net[sock[f]], stat[sock[f]], interest[f])
          BY <1>0, <1>t DEF Talk
        <5>3. net'[sock[f]] = net[sock[f]]
          BY <2>2, <5>1
        <5>4. QED
          BY <1>0, <1>2, <5>2, <5>3
      <4>3. QED
        BY <4>1, <4>2
    <3>3. QED
      BY <1>e, <3>1, <3>2 DEF Talk
  <2>10. QED
    BY <2>6, <2>7, <2>8, <2>9 DEF IInv
<1>3. CASE /\ \E m : Quiet(net[c], m) /\ net' = [net EXCEPT ![c] = m]
           /\ UNCHANGED <<acceptq, sock>>
  <2>1. PICK m : Quiet(net[c], m) /\ net' = [net EXCEPT ![c] = m]
    BY <1>3
  <2>2. m \in Net /\ net[c] \in Net /\ m.phase = net[c].phase
    BY <1>t, <2>1 DEF Quiet, TypeOK, Net
  <2>3. /\ net' \in [Conns -> Net] /\ net'[c] = m /\ \A d \in Conns \ {c} : net'[d] = net[d]
        /\ \A d \in Conns : net'[d].phase = net[d].phase
    BY <1>t, <2>1, <2>2 DEF TypeOK, Net
  <2>4. /\ History(net[c]) => History(m)
        /\ \A s, ev : Turn(net[c], s, ev) => Turn(m, s, ev)
        /\ net[c].rst \/ net[c].unread < SndCap => m.rst \/ m.unread < SndCap
    BY <2>1, <2>2, QuietKeeps
  <2>6. TypeOK'
    BY <1>0, <1>3, <1>t, <2>3 DEF TypeOK, Net
  <2>7. TablesOK'
    <3>1. ASSUME NEW f \in ConnFds PROVE Bound(f)'
      <4>1. Bound(f) /\ sock[f] \in Conns \cup {NoConn}
        BY <1>t DEF TablesOK, TypeOK
      <4>2. QED
        BY <1>0, <1>3, <2>3, <4>1 DEF Bound
    <3>2. OnePlace'
      BY <1>3, <1>i, <1>o, <2>3 DEF OnePlace
    <3>3. heap' = {d \in Conns : net'[d].phase = "open"}
      BY <1>0, <1>t, <2>3 DEF TablesOK
    <3>4. QED
      BY <1>0, <1>t, <3>1, <3>2, <3>3 DEF TablesOK
  <2>8. EventsOK'
    <3>1. ASSUME NEW e \in events PROVE Pends(e)'
      <4>1. Pends(e)
        BY <1>t DEF EventsOK
      <4>2. CASE e.stat = NoConn
        BY <1>3, <4>1, <4>2 DEF Pends
      <4>3. CASE e.stat # NoConn
        <5>1. e.stat \in Conns
          BY <1>t, <4>3 DEF TypeOK, Event
        <5>2. \/ net'[e.stat] = net[e.stat]
              \/ e.stat = c /\ net'[e.stat] = m
          BY <2>3, <5>1
        <5>3. net[e.stat].rst \/ net[e.stat].unread < SndCap
                => net'[e.stat].rst \/ net'[e.stat].unread < SndCap
          BY <2>4, <5>2
        <5>4. QED
          BY <1>0, <1>3, <4>1, <4>3, <5>3 DEF Pends, Registered
      <4>4. QED
        BY <4>2, <4>3
    <3>2. QED
      BY <1>0, <1>t, <3>1 DEF EventsOK
  <2>9. Talk'
    <3>1. \A d \in Conns : History(net'[d])
      BY <1>t, <2>3, <2>4 DEF Talk
    <3>2. ASSUME NEW f \in ConnFds PROVE Turn(net[sock[f]], stat[sock[f]], interest[f])'
      <4>1. CASE interest[f] = {}
        BY <1>0, <4>1 DEF Turn
      <4>2. CASE interest[f] # {}
        <5>1. sock[f] \in Conns
          BY <1>t, <4>2 DEF TypeOK, TablesOK, Bound
        <5>2. Turn(net[sock[f]], stat[sock[f]], interest[f])
          BY <1>0, <1>t DEF Talk
        <5>3. Turn(net'[sock[f]], stat[sock[f]], interest[f])
          BY <2>3, <2>4, <5>1, <5>2
        <5>4. QED
          BY <1>0, <1>3, <5>3
      <4>3. QED
        BY <4>1, <4>2
    <3>3. QED
      BY <1>e, <3>1, <3>2 DEF Talk
  <2>10. QED
    BY <2>6, <2>7, <2>8, <2>9 DEF IInv
<1>4. QED
  BY <1>1, <1>2, <1>3, <1>t, ClientEffect

\* The initial state.
LEMMA InitIInv == Init => IInv
<1> SUFFICES ASSUME Init PROVE IInv
  OBVIOUS
<1>0. /\ now = StartTime /\ acceptq = <<>> /\ sock = [fd \in ConnFds |-> NoConn]
      /\ net = [c \in Conns |-> NewNet]
      /\ interest = [fd \in Fds |-> IF fd = ListenFd THEN {"IN"} ELSE {}]
      /\ ptr = [fd \in Fds |-> NoConn] /\ stat = [c \in Conns |-> stat_init(ListenFd)]
      /\ heap = {} /\ events = {} /\ pc = "epoll_wait" /\ proc = "running"
  BY DEF Init, SocketsInit
<1>1. /\ NewNet \in Net /\ NewNet.phase = "new" /\ NewNet.rd = <<>> /\ NewNet.wr = <<>>
  <2>1. <<>> \in Seq(Chunks) /\ <<>> \in Seq(Seq(Chunks)) /\ <<>> \in Seq(Page)
    BY EmptySeq
  <2>2. QED
    BY <2>1 DEF NewNet, Net, NetOf
<1>2. ListenFd \in Fds /\ \A fd \in ConnFds : fd \in Fds /\ fd # ListenFd
  BY SocketsAssumption DEF Fds
<1>3. TypeOK
  <2>1. stat_init(ListenFd) \in ConnectStat
    BY <1>2, InitRemembers
  <2>2. net \in [Conns -> NetOf(Page)]
    BY <1>0, <1>1 DEF Net
  <2>3. acceptq \in Seq(Conns)
    BY <1>0, EmptySeq
  <2>4. QED
    BY <1>0, <2>1, <2>2, <2>3, SocketsAssumption DEF TypeOK, Interest
<1>4. TablesOK
  <2>1. \A fd \in ConnFds : Bound(fd)
    BY <1>0, <1>2 DEF Bound
  <2>2. OnePlace
    BY <1>0 DEF OnePlace
  <2>3. heap = {c \in Conns : net[c].phase = "open"}
    BY <1>0, <1>1
  <2>4. QED
    BY <1>0, <1>2, <2>1, <2>2, <2>3 DEF TablesOK
<1>5. EventsOK
  BY <1>0 DEF EventsOK
<1>6. Talk
  <2>1. \A c \in Conns : History(net[c])
    <3>1. History(NewNet)
      BY <1>1 DEF History
    <3>2. QED
      BY <1>0, <3>1
  <2>2. \A fd \in ConnFds : Turn(net[sock[fd]], stat[sock[fd]], interest[fd])
    BY <1>0, <1>2 DEF Turn
  <2>3. EndsOnlyIf
    BY <1>0 DEF EndsOnlyIf
  <2>4. QED
    BY <2>1, <2>2, <2>3 DEF Talk
<1>7. QED
  BY <1>3, <1>4, <1>5, <1>6 DEF IInv

\* The invariant is inductive: each branch of the loop, and each client, keeps it.
LEMMA NextIInv == IInv /\ [Next]_vars => IInv'
<1> SUFFICES ASSUME IInv, [Next]_vars PROVE IInv'
  OBVIOUS
<1>1. CASE EpollWait /\ UNCHANGED now
  BY <1>1, EpollWaitStep
<1>2. ASSUME NEW e \in events, Dispatch(e), UNCHANGED now PROVE IInv'
  <2>1. proc = "running" /\ AfterEvent(e)
    BY <1>2 DEF Dispatch, At, AfterEvent
  <2>2. CASE e.stat = NoConn
    <3>1. AcceptClient
      BY <1>2, <2>2 DEF Dispatch
    <3>2. CASE UNCHANGED <<serverVars, proc>>
      BY <2>1, <3>2, IgnoreStep
    <3>3. ASSUME NEW fd \in FreeFds, Accept(fd),
                 \/ connect_handle(Head(acceptq), fd) /\ UNCHANGED proc
                 \/ AllocFails /\ proc' = "SIGSEGV" /\ UNCHANGED <<statVars, interest>>
          PROVE  IInv'
      BY <2>1, <2>2, <3>3, OpenStep
    <3>4. QED
      BY <3>1, <3>2, <3>3 DEF AcceptClient
  <2>3. CASE e.stat # NoConn /\ "IN" \in e.ev
    <3>1. do_http_request(e.stat)
      BY <1>2, <2>3 DEF Dispatch
    <3>2. QED
      BY <2>1, <2>3, <3>1, RequestStep
  <2>4. CASE e.stat # NoConn /\ "IN" \notin e.ev
    <3>1. do_http_respone(e.stat)
      BY <1>2, <2>4 DEF Dispatch
    <3>2. QED
      BY <2>1, <2>4, <3>1, ResponseStep
  <2>5. QED
    BY <2>2, <2>3, <2>4
<1>3. CASE Clients
  BY <1>3, ClientStep
<1>4. CASE UNCHANGED vars
  <2>1. UNCHANGED <<now, acceptq, sock, net, interest, stat, heap, ptr, events, pc, proc>>
    BY <1>4 DEF vars, serverVars, statVars, netVars
  <2>2. TypeOK'
    BY <2>1 DEF IInv, TypeOK
  <2>3. TablesOK'
    BY <2>1 DEF IInv, TablesOK, Bound, OnePlace
  <2>4. EventsOK'
    BY <2>1 DEF IInv, EventsOK, Pends, Registered
  <2>5. Talk'
    BY <2>1 DEF IInv, Talk, EndsOnlyIf
  <2>6. QED
    BY <2>2, <2>3, <2>4, <2>5 DEF IInv
<1>5. QED
  BY <1>1, <1>2, <1>3, <1>4 DEF Next, Server

-----------------------------------------------------------------------------

\* The types, the registrations, the waiting events and the conversations fit
\* together in every state the server can reach.
THEOREM Invariance == Spec => []IInv
<1>1. QED
  BY InitIInv, NextIInv, PTL DEF Spec

\* Every variable of the server has its type.
THEOREM TypeCorrect == Spec => []TypeOK
<1>1. IInv => TypeOK
  BY DEF IInv
<1>2. QED
  BY <1>1, Invariance, PTL

\* An address epoll hands back leads to a ConnectStat that is allocated and
\* stands for the connection the event is about (main trusts data.ptr).
THEOREM PointersStayValid == Spec => []PointersValid
<1>1. IInv => PointersValid
  <2> SUFFICES ASSUME IInv PROVE PointersValid
    OBVIOUS
  <2>t. TypeOK /\ TablesOK /\ EventsOK
    BY DEF IInv
  <2>1. \A fd \in ConnFds : interest[fd] # {} => Valid(ptr[fd]) /\ stat[ptr[fd]].fd = fd
    BY <2>t DEF TablesOK, Bound, Valid
  <2>2. ASSUME NEW e \in events, e.stat # NoConn PROVE Valid(e.stat)
    <3> DEFINE fd == stat[e.stat].fd
    <3>1. fd \in ConnFds /\ interest[fd] # {} /\ sock[fd] = e.stat
      BY <2>t, <2>2 DEF EventsOK, Pends, Registered
    <3>2. Bound(fd)
      BY <2>t, <3>1 DEF TablesOK
    <3>3. e.stat \in heap
      BY <3>1, <3>2 DEF Bound
    <3>4. QED
      BY <3>1, <3>3 DEF Valid
  <2>3. proc = "running" => heap = {c \in Conns : net[c].phase = "open"}
    BY <2>t DEF TablesOK
  <2>4. QED
    BY <2>1, <2>2, <2>3 DEF PointersValid
<1>2. QED
  BY <1>1, Invariance, PTL

\* The k-th page a client gets answers its k-th request and shows what this
\* connection has submitted up to then (do_http_request, do_http_respone).
THEOREM PagesAreAnswers == Spec => []PagesMatchRequests
<1>1. IInv => PagesMatchRequests
  <2> SUFFICES ASSUME IInv, NEW c \in Conns
               PROVE  LET n == net[c] IN
                      /\ \A k \in 1 .. Len(n.wr) :
                           IF n.rd[k][1] \in Commit
                           THEN n.wr[k] = [handler |-> "commit",
                                           name |-> Submitted(c, k, NameAt, BlankName),
                                           age |-> Submitted(c, k, AgeAt, BlankAge)]
                           ELSE n.wr[k].handler = "welcome"
                      /\ Len(n.wr) <= Len(n.rd)
                      /\ ~n.rst => Len(n.rd) <= Len(n.wr) + 1
    BY DEF PagesMatchRequests
  <2>1. History(net[c])
    BY DEF IInv, Talk
  <2>2. ASSUME NEW k \in 1 .. Len(net[c].wr)
        PROVE  /\ Submitted(c, k, NameAt, BlankName) = NameOf(net[c].rd, k)
               /\ Submitted(c, k, AgeAt, BlankAge) = AgeOf(net[c].rd, k)
    <3> DEFINE rd == net[c].rd
    <3>0. k \in Nat
      OBVIOUS
    <3>1. Submitted(c, k, NameAt, BlankName) = NameOf(rd, k)
      <4> DEFINE forms == {i \in 1 .. k : HasName(rd[i])}
                 value == [i \in 1 .. k |-> rd[i][NameAt(rd[i])]]
                 last == CHOOSE i \in forms : \A j \in forms : j <= i
      <4>2. Submitted(c, k, NameAt, BlankName)
              = IF forms = {} THEN 0 ELSE rd[last][NameAt(rd[last])]
        BY Zenon DEF Submitted, HasName
      <4>3. NameOf(rd, k) = IF forms = {} THEN 0 ELSE value[last]
        BY DEF NameOf, Latest
      <4>4. forms # {} => last \in forms
        <5>1. forms \in SUBSET (1 .. k)
          OBVIOUS
        <5> HIDE DEF forms
        <5>2. QED
          BY <5>1, <3>0, LastExists
      <4>5. forms # {} => value[last] = rd[last][NameAt(rd[last])]
        <5> HIDE DEF last
        <5>1. QED
          BY <4>4
      <4> HIDE DEF forms, value, last
      <4>6. QED
        BY <4>2, <4>3, <4>5
    <3>2. Submitted(c, k, AgeAt, BlankAge) = AgeOf(rd, k)
      <4> DEFINE forms == {i \in 1 .. k : HasAge(rd[i])}
                 value == [i \in 1 .. k |-> rd[i][AgeAt(rd[i])]]
                 last == CHOOSE i \in forms : \A j \in forms : j <= i
      <4>2. Submitted(c, k, AgeAt, BlankAge)
              = IF forms = {} THEN 0 ELSE rd[last][AgeAt(rd[last])]
        BY Zenon DEF Submitted, HasAge
      <4>3. AgeOf(rd, k) = IF forms = {} THEN 0 ELSE value[last]
        BY DEF AgeOf, Latest
      <4>4. forms # {} => last \in forms
        <5>1. forms \in SUBSET (1 .. k)
          OBVIOUS
        <5> HIDE DEF forms
        <5>2. QED
          BY <5>1, <3>0, LastExists
      <4>5. forms # {} => value[last] = rd[last][AgeAt(rd[last])]
        <5> HIDE DEF last
        <5>1. QED
          BY <4>4
      <4> HIDE DEF forms, value, last
      <4>6. QED
        BY <4>2, <4>3, <4>5
    <3>3. QED
      BY <3>1, <3>2
  <2>3. QED
    BY <2>1, <2>2 DEF History, AnswerTo
<1>2. QED
  BY <1>1, Invariance, PTL

\* What can end the process is a form in pieces, a failed malloc() or a client
\* that has reset its connection, and nothing else.
THEOREM OnlyTheseEndIt == Spec => []EndsOnlyIf
<1>1. IInv => EndsOnlyIf
  BY DEF IInv, Talk
<1>2. QED
  BY <1>1, Invariance, PTL
===============================================================================
