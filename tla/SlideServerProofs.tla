-------------------------- MODULE SlideServerProofs --------------------------
(***************************************************************************)
(* The slideshow server for any number of devices, connections, texts and  *)
(* files: every client is kept, a device has one client however it drops   *)
(* and returns, and what is meant for it goes to it.                       *)
(***************************************************************************)
EXTENDS SlideServer, SlideClientProofs, FiniteSetTheorems

(* A device reports its name, or, over one connection again, its alias. *)
Names(d) == {Name[d], Alias[d]}

KeysOf(d) == {Key(Ip[d], n) : n \in Names(d)}

Keys == {Key(Ip[d], n) : d \in Device, n \in UNION {Names(e) : e \in Device}}

(* An address and a name tell the devices apart. *)
Distinct == \A d, e \in Device : KeysOf(d) \cap KeysOf(e) # {} => d = e

(* The type invariant, and what is known of a connection from its number. *)
Typed ==
    /\ opened \in 0 .. NConn
    /\ accepting \in BOOLEAN /\ crashed \in BOOLEAN /\ garbled \in BOOLEAN
    /\ device \in [Conn -> Device \cup {None}]
    /\ \A c \in 1 .. opened : device[c] \in Device /\ m_client[c] # None
    /\ reading \subseteq 1 .. opened
    /\ m_client \in [Conn -> (1 .. opened) \cup {None}]
    /\ m_sessions \subseteq 1 .. opened
    /\ m_clients \in Seq(1 .. opened)
    /\ key \in [Conn -> Keys \cup {None}]
    /\ logins \in [Conn -> Nat]
    /\ writing \in [Conn -> Seq(Frame)]
    /\ owed \in [Conn -> Seq(0 .. MaxId)]
    /\ latest \in [Conn -> (1 .. opened) \cup {None}]
    /\ asked \subseteq Texts \cup Files /\ IsFiniteSet(asked)

(* The records of the clients; those no connection has made are new. *)
Records ==
    /\ clients \in [Conn -> Client(1 .. opened)]
    /\ \A x \in Conn : Good(1 .. opened, clients[x])
    /\ \A x \in Conn \ (1 .. opened) : clients[x] = NewClient /\ writing[x] = <<>>

Kept == 1 .. opened \subseteq m_sessions \cup ToSet(m_clients)

(* Before the first login of a connection its session and its client have  *)
(* only each other, and nobody writes.                                     *)
Alone(c) ==
    /\ m_client[c] = c /\ clients[c].session \in {c, None}
    /\ writing[c] = <<>>
    /\ c \notin ToSet(m_clients)
    /\ \A k \in Conn \ {c} : m_client[k] # c /\ clients[k].session # c
    /\ c \in reading /\ ~garbled => clients[c].session = c

Newcomers == \A c \in 1 .. opened : logins[c] = 0 => Alone(c)

(* A body is meant for d, or no body was assigned yet. *)
For(body, d) == body.of # None => Dest[body.of] = d

FrameFor(d) == {f \in Frame : For(f.body, d)}

PacketFor(d) ==
    {p \in Packet : For(p.body, d) /\ (Sent(p) => For(p.frame.body, d))}

FileFor(d) == {f \in File : Dest[f.file] = d}

Meant(c, d) == c.packets \in Seq(PacketFor(d)) /\ c.files \in Seq(FileFor(d))

(* A client, its sessions, its key and what it sends belong to one device. *)
OneDevice ==
    /\ \A c \in 1 .. opened : device[m_client[c]] = device[c]
    /\ \A x \in 1 .. opened : clients[x].session # None => device[clients[x].session] = device[x]
    /\ \A x \in ToSet(m_clients) : key[x] \in KeysOf(device[x])
    /\ \A x \in Conn : Meant(clients[x], device[x])
    /\ \A c \in Conn : writing[c] \in Seq(FrameFor(device[c]))

-----------------------------------------------------------------------------
(* Sequences. *)

LEMMA EmptySet == ASSUME NEW S PROVE ToSet(<<>>) = {} /\ <<>> \in Seq(S)
BY EmptySeq DEF ToSet

LEMMA Appended ==
    ASSUME NEW S, NEW s \in Seq(S), NEW x \in S
    PROVE  /\ Append(s, x) \in Seq(S)
           /\ Len(s) \in Nat /\ DOMAIN s = 1 .. Len(s)
           /\ Len(Append(s, x)) = Len(s) + 1
           /\ DOMAIN Append(s, x) = 1 .. Len(s) + 1
           /\ \A i \in 1 .. Len(s) : Append(s, x)[i] = s[i]
           /\ Append(s, x)[Len(s) + 1] = x
           /\ ToSet(Append(s, x)) = ToSet(s) \cup {x}
<1> DEFINE q == Append(s, x)
<1>1. /\ q \in Seq(S) /\ Len(s) \in Nat /\ DOMAIN s = 1 .. Len(s)
      /\ Len(q) = Len(s) + 1 /\ DOMAIN q = 1 .. Len(s) + 1
      /\ \A i \in 1 .. Len(s) : q[i] = s[i]
      /\ q[Len(s) + 1] = x
  BY LenProperties, AppendProperties
<1> HIDE DEF q
<1>2. ToSet(q) = ToSet(s) \cup {x}
  <2>1. ASSUME NEW y \in ToSet(q) PROVE y \in ToSet(s) \cup {x}
    <3>1. PICK i \in 1 .. Len(s) + 1 : q[i] = y
      BY <1>1 DEF ToSet
    <3>2. i \in 1 .. Len(s) \/ i = Len(s) + 1
      BY <1>1
    <3> QED  BY <1>1, <3>1, <3>2 DEF ToSet
  <2>2. ASSUME NEW y \in ToSet(s) \cup {x} PROVE y \in ToSet(q)
    <3>1. CASE y = x
      <4>1. Len(s) + 1 \in DOMAIN q
        BY <1>1
      <4> QED  BY <1>1, <3>1, <4>1 DEF ToSet
    <3>2. CASE y \in ToSet(s)
      <4>1. PICK i \in 1 .. Len(s) : s[i] = y
        BY <1>1, <3>2 DEF ToSet
      <4>2. i \in DOMAIN q
        BY <1>1
      <4> QED  BY <1>1, <4>1, <4>2 DEF ToSet
    <3> QED  BY <2>2, <3>1, <3>2
  <2> QED  BY <2>1, <2>2
<1> QED  BY <1>1, <1>2 DEF q

LEMMA Members ==
    ASSUME NEW S, NEW s \in Seq(S)
    PROVE  ToSet(s) \subseteq S /\ \A i \in DOMAIN s : s[i] \in ToSet(s)
<1>1. DOMAIN s = 1 .. Len(s) /\ \A i \in 1 .. Len(s) : s[i] \in S
  BY LenProperties, ElementOfSeq
<1> QED  BY <1>1 DEF ToSet

LEMMA SeqMore ==
    ASSUME NEW S, NEW T, S \subseteq T, NEW s \in Seq(S)
    PROVE  s \in Seq(T)
<1>1. Len(s) \in Nat /\ DOMAIN s = 1 .. Len(s) /\ \A i \in 1 .. Len(s) : s[i] \in T
  BY LenProperties, ElementOfSeq
<1>2. s = [i \in 1 .. Len(s) |-> s[i]]
  BY <1>1, LenProperties
<1>3. s \in [1 .. Len(s) -> T]
  BY <1>1, <1>2
<1> QED  BY <1>1, <1>3

LEMMA Tails ==
    ASSUME NEW S, NEW s \in Seq(S), s # <<>>
    PROVE  Head(s) \in S /\ Tail(s) \in Seq(S)
BY HeadTailProperties

-----------------------------------------------------------------------------
(* What is meant for a device stays meant for it. *)

LEMMA MeantBuff ==
    ASSUME NEW d, NEW p \in PacketFor(d)
    PROVE  Buff(p) \in PacketFor(d) /\ Buff(p).frame \in FrameFor(d)
<1>1. p \in Packet /\ For(p.body, d) /\ (Sent(p) => For(p.frame.body, d))
  BY DEF PacketFor
<1>2. Buff(p) \in Packet /\ Buff(p).frame \in Frame
  BY <1>1, BuffType
<1>3. Buff(p).body = p.body
  BY <1>1 DEF Buff, Packet
<1>4. For(Buff(p).frame.body, d)
  <2>1. CASE Sent(p)
    BY <1>1, <2>1 DEF Buff
  <2>2. CASE ~Sent(p)
    <3>1. Buff(p).frame = [id |-> p.id, body |-> p.body]
      BY <1>1, <2>2 DEF Buff, Packet
    <3> QED  BY <1>1, <3>1
  <2> QED  BY <2>1, <2>2
<1> QED  BY <1>1, <1>2, <1>3, <1>4 DEF PacketFor, FrameFor

LEMMA MeantWritten ==
    ASSUME NEW S, NEW c, Good(S, c), NEW d, Meant(c, d), NEW i \in 1 .. Len(c.packets)
    PROVE  Meant(Written(c, i).client, d) /\ Written(c, i).frame \in FrameFor(d)
<1> DEFINE q == BuffAt(c.packets, i)
           p == c.packets[i]
<1>1. c.packets \in Seq(PacketFor(d)) /\ c.files \in Seq(FileFor(d))
  BY DEF Meant
<1>2. p \in PacketFor(d)
  BY <1>1, ElementOfSeq
<1>3. Buff(p) \in PacketFor(d) /\ Buff(p).frame \in FrameFor(d)
  BY <1>2, MeantBuff
<1>4. q \in Seq(PacketFor(d)) /\ q[i] = Buff(p)
  BY <1>1, <1>3, ExceptSeq DEF BuffAt
<1> HIDE DEF q
<1>5. Written(c, i) = [client |-> [c EXCEPT !.packets = q], frame |-> q[i].frame]
  BY DEF Written, q
<1>6. c \in Client(S)
  BY DEF Good
<1> QED  BY <1>1, <1>3, <1>4, <1>5, <1>6 DEF Meant, Client

LEMMA MeantPushed ==
    ASSUME NEW S, NEW c, Good(S, c), NEW d, Meant(c, d), NEW id,
           NEW pid \in 0 .. MaxId, NEW body \in Body, For(body, d),
           NEW files \in Seq(FileFor(d))
    PROVE  Meant(WithPacket(c, id, pid, body, files), d)
<1> DEFINE p == NewPacket(pid, body)
           q == Append(c.packets, p)
<1>1. p \in PacketFor(d)
  BY DEF NewPacket, PacketFor, Packet, Sent
<1> HIDE DEF p
<1>2. q \in Seq(PacketFor(d))
  BY <1>1 DEF Meant
<1> HIDE DEF q
<1>3. WithPacket(c, id, pid, body, files) = [c EXCEPT !.id = id, !.packets = q, !.files = files]
  BY GoodFields DEF WithPacket, q, p
<1>4. c \in Client(S)
  BY DEF Good
<1> QED  BY <1>2, <1>3, <1>4 DEF Meant, Client

LEMMA MeantFiles ==
    ASSUME NEW S, NEW c, Good(S, c), c.files # <<>>, NEW d, Meant(c, d)
    PROVE  /\ For(ChunkOf(Head(c.files)), d)
           /\ Tail(c.files) \in Seq(FileFor(d))
           /\ <<Advanced(Head(c.files))>> \in Seq(FileFor(d))
           /\ <<Advanced(Head(c.files))>> \o Tail(c.files) \in Seq(FileFor(d))
<1> DEFINE f == Head(c.files)
           g == Advanced(f)
           t == Tail(c.files)
<1>1. f \in FileFor(d) /\ t \in Seq(FileFor(d))
  BY Tails DEF Meant
<1> HIDE DEF f, t
<1>2. f \in File /\ Dest[f.file] = d
  BY <1>1 DEF FileFor
<1>3. For(ChunkOf(f), d)
  BY <1>2 DEF For, ChunkOf
<1>4. <<Advanced(f)>> \in Seq(File)
  BY HeadFile DEF f
<1>5. g \in File
  <2>1. <<g>>[1] = g /\ Len(<<g>>) = 1
    OBVIOUS
  <2> QED  BY <1>4, <2>1, ElementOfSeq
<1>6. g.file = f.file
  BY <1>2 DEF Advanced, File
<1>7. g \in FileFor(d)
  BY <1>2, <1>5, <1>6 DEF FileFor
<1> HIDE DEF g
<1>8. <<g>> \in Seq(FileFor(d))
  BY <1>7
<1>9. <<g>> \o t \in Seq(FileFor(d))
  BY <1>1, <1>8, ConcatProperties
<1> QED  BY <1>1, <1>3, <1>8, <1>9 DEF f, g, t

LEMMA MeantHandleWrite ==
    ASSUME NEW S, NEW c, Good(S, c), NEW d, Meant(c, d)
    PROVE  /\ Meant(HandleWrite(c).client, d)
           /\ HandleWrite(c).frame # None => HandleWrite(c).frame \in FrameFor(d)
<1>1. Len(c.packets) \in Nat /\ DOMAIN c.packets = 1 .. Len(c.packets)
  BY GoodFields, LenProperties
<1>2. CASE HandleWrite(c) = Nothing(c)
  BY <1>2 DEF Nothing
<1>3. CASE c.session # None /\ Unsent(c.packets) # {}
  <2> DEFINE i == FirstOf(Unsent(c.packets))
  <2>1. Unsent(c.packets) \in SUBSET Nat
    BY <1>1 DEF Unsent
  <2>2. i \in Unsent(c.packets)
    BY <1>3, <2>1, FirstExists
  <2> HIDE DEF i
  <2>3. i \in 1 .. Len(c.packets)
    BY <1>1, <2>2 DEF Unsent
  <2>4. HandleWrite(c) = Written(c, i)
    BY <1>3 DEF HandleWrite, i
  <2> QED  BY <2>3, <2>4, MeantWritten
<1>4. CASE c.session # None /\ Unsent(c.packets) = {} /\ c.files # <<>>
  <2> DEFINE f == Head(c.files)
             id == NextId(c.id)
             files == IF AtEof(f) THEN Tail(c.files) ELSE <<Advanced(f)>> \o Tail(c.files)
             e == NextChunk(c)
  <2>1. HandleWrite(c) = Written(e, 1)
    BY <1>4 DEF HandleWrite
  <2>2. Good(S, e) /\ Len(e.packets) = Len(c.packets) + 1
    BY <1>4, NextChunkKeeps
  <2>3. 1 \in 1 .. Len(e.packets)
    BY <1>1, <2>2
  <2>4. files \in Seq(FileFor(d)) /\ For(ChunkOf(f), d)
    BY <1>4, MeantFiles
  <2>5. id \in 0 .. MaxId /\ ChunkOf(f) \in Body
    BY <1>4, GoodFields, NextIdType, HeadFile
  <2>6. e = WithPacket(c, id, id, ChunkOf(f), files)
    BY GoodFields DEF NextChunk, WithPacket
  <2> HIDE DEF e, id, files, f
  <2>7. Meant(e, d)
    BY <2>4, <2>5, <2>6, MeantPushed
  <2> QED  BY <2>1, <2>2, <2>3, <2>7, MeantWritten
<1> QED  BY <1>2, <1>3, <1>4 DEF HandleWrite

(* As long as a packet was not sent, the pump writes. *)
LEMMA WritesUnsent ==
    ASSUME NEW S, NEW c, Good(S, c), c.session # None, Unsent(c.packets) # {}
    PROVE  HandleWrite(c).frame # None
<1> DEFINE i == FirstOf(Unsent(c.packets))
<1>1. /\ Len(c.packets) \in Nat /\ DOMAIN c.packets = 1 .. Len(c.packets)
      /\ c.packets \in Seq(Packet)
  BY GoodFields, LenProperties
<1>2. Unsent(c.packets) \in SUBSET Nat
  BY <1>1 DEF Unsent
<1>3. i \in Unsent(c.packets)
  BY <1>2, FirstExists
<1>4. HandleWrite(c) = Written(c, i)
  BY DEF HandleWrite
<1> HIDE DEF i
<1>5. i \in 1 .. Len(c.packets)
  BY <1>1, <1>3 DEF Unsent
<1>6. c.packets[i] \in Packet /\ Buff(c.packets[i]).frame \in Frame
  BY <1>1, <1>5, ElementOfSeq, BuffType
<1>7. Written(c, i).frame = Buff(c.packets[i]).frame
  BY <1>1, <1>5 DEF Written, BuffAt
<1> QED  BY <1>4, <1>6, <1>7, NoneAssumption

LEMMA MeantReset ==
    ASSUME NEW d, NEW packets \in Seq(PacketFor(d))
    PROVE  ResetAll(packets) \in Seq(PacketFor(d))
<1> DEFINE n == Len(packets)
           q == ResetAll(packets)
<1>1. n \in Nat /\ DOMAIN packets = 1 .. n
  BY LenProperties
<1>2. ASSUME NEW i \in 1 .. n PROVE [packets[i] EXCEPT !.frame = None] \in PacketFor(d)
  <2>1. packets[i] \in PacketFor(d)
    BY <1>2, ElementOfSeq
  <2> QED  BY <2>1 DEF PacketFor, Packet, Sent
<1>3. q = [i \in 1 .. n |-> [packets[i] EXCEPT !.frame = None]]
  BY <1>1 DEF ResetAll
<1> HIDE DEF q, n
<1>4. q \in [1 .. n -> PacketFor(d)]
  BY <1>2, <1>3
<1>5. q \in Seq(PacketFor(d))
  BY <1>1, <1>4
<1> QED  BY <1>5 DEF q

LEMMA MeantAcknowledged ==
    ASSUME NEW d, NEW packets \in Seq(PacketFor(d)), packets \in Seq(Packet), NEW id
    PROVE  Acknowledged(packets, id) \in Seq(PacketFor(d))
BY AcknowledgedOne, RemovedAt

LEMMA Moved ==
    ASSUME NEW S, NEW c, Good(S, c), NEW s \in S \cup {None}
    PROVE  LET e == [c EXCEPT !.session = s]
           IN  /\ Good(S, e) /\ e.session = s /\ e.packets = c.packets
               /\ \A d : Meant(c, d) => Meant(e, d)
BY DEF Good, Client, Meant

LEMMA Repacked ==
    ASSUME NEW S, NEW c, Good(S, c), NEW q \in Seq(Packet), Ordered(q)
    PROVE  LET e == [c EXCEPT !.packets = q]
           IN  /\ Good(S, e) /\ e.session = c.session /\ e.packets = q
               /\ \A d : Meant(c, d) /\ q \in Seq(PacketFor(d)) => Meant(e, d)
BY DEF Good, Client, Meant

LEMMA GoodMore ==
    ASSUME NEW S, NEW T, S \subseteq T, NEW c, Good(S, c)
    PROVE  Good(T, c)
BY DEF Good, Client

LEMMA Reset ==
    ASSUME NEW S, NEW c, Good(S, c)
    PROVE  LET e == [c EXCEPT !.packets = ResetAll(@)]
           IN  /\ Good(S, e) /\ e.session = c.session
               /\ \A d : Meant(c, d) => Meant(e, d)
<1> DEFINE q == ResetAll(c.packets)
<1>1. q \in Seq(Packet) /\ Ordered(q)
  BY GoodFields, ResetKeeps
<1>2. \A d : Meant(c, d) => q \in Seq(PacketFor(d))
  BY MeantReset DEF Meant
<1>3. [c EXCEPT !.packets = ResetAll(@)] = [c EXCEPT !.packets = q]
  OBVIOUS
<1> HIDE DEF q
<1> QED  BY <1>1, <1>2, <1>3, Repacked

LEMMA Acked ==
    ASSUME NEW S, NEW c, Good(S, c), NEW id
    PROVE  LET e == [c EXCEPT !.packets = Acknowledged(@, id)]
           IN  /\ Good(S, e) /\ e.session = c.session
               /\ \A d : Meant(c, d) => Meant(e, d)
<1> DEFINE q == Acknowledged(c.packets, id)
<1>1. q \in Seq(Packet) /\ Ordered(q)
  BY GoodFields, AcknowledgedKeeps
<1>2. \A d : Meant(c, d) => q \in Seq(PacketFor(d))
  BY GoodFields, MeantAcknowledged DEF Meant
<1>3. [c EXCEPT !.packets = Acknowledged(@, id)] = [c EXCEPT !.packets = q]
  OBVIOUS
<1> HIDE DEF q
<1> QED  BY <1>1, <1>2, <1>3, Repacked

-----------------------------------------------------------------------------
(* What each operation does to the records and to the writes in flight. *)

WellRecorded ==
    /\ clients' \in [Conn -> Client(1 .. opened)]
    /\ \A y \in Conn : Good(1 .. opened, clients'[y])

NothingForeign == \A y \in Conn : \A d : Meant(clients[y], d) => Meant(clients'[y], d)

LEMMA InConn == ASSUME Typed, NEW c \in 1 .. opened PROVE c \in Conn /\ c # None
<1>1. opened \in 0 .. NConn /\ NConn \in Nat \ {0} /\ None \notin 1 .. NConn
  BY SlideServerAssumption DEF Typed
<1>2. c \in 1 .. NConn
  BY <1>1
<1> QED  BY <1>1, <1>2 DEF Conn

LEMMA OneRecord ==
    ASSUME Records, NEW x \in Conn, NEW v, Good(1 .. opened, v),
           clients' = [clients EXCEPT ![x] = v]
    PROVE  /\ WellRecorded
           /\ clients'[x] = v /\ \A y \in Conn \ {x} : clients'[y] = clients[y]
           /\ (\A d : Meant(clients[x], d) => Meant(v, d)) => NothingForeign
<1>1. clients \in [Conn -> Client(1 .. opened)] /\ v \in Client(1 .. opened)
  BY DEF Records, Good
<1>2. clients'[x] = v /\ \A y \in Conn \ {x} : clients'[y] = clients[y]
  BY <1>1
<1>3. \A y \in Conn : Good(1 .. opened, clients[y])
  BY DEF Records
<1>4. \A y \in Conn : Good(1 .. opened, clients'[y])
  BY <1>2, <1>3
<1> QED  BY <1>1, <1>2, <1>4 DEF WellRecorded, NothingForeign

LEMMA CloseEffect ==
    ASSUME Typed, Records, NEW c \in 1 .. opened, Close(c)
    PROVE  LET x == m_client[c]
           IN  /\ x \in 1 .. opened
               /\ WellRecorded /\ NothingForeign
               /\ clients'[x].session = None
               /\ \A y \in Conn \ {x} : clients'[y] = clients[y]
               /\ failed' = IF clients[x].session = c THEN failed \cup {c} ELSE failed
               /\ stale' = IF clients[x].session \notin {c, None} THEN stale \cup {x} ELSE stale
<1> DEFINE x == m_client[c]
           v == [clients[x] EXCEPT !.session = None]
<1>1. x \in 1 .. opened /\ x \in Conn
  BY InConn DEF Typed
<1>2. Good(1 .. opened, clients[x])
  BY <1>1 DEF Records
<1>3. Good(1 .. opened, v) /\ v.session = None /\ \A d : Meant(clients[x], d) => Meant(v, d)
  BY <1>2, Moved
<1>4. clients' = [clients EXCEPT ![x] = v]
  BY DEF Close
<1> HIDE DEF v
<1> QED  BY <1>1, <1>3, <1>4, OneRecord DEF Close

LEMMA AckEffect ==
    ASSUME Typed, Records, NEW c \in Conn, RecvAck(c)
    PROVE  LET x == m_client[c]
           IN  /\ c \in 1 .. opened /\ x \in 1 .. opened
               /\ WellRecorded /\ NothingForeign
               /\ \A y \in Conn : clients'[y].session = clients[y].session
               /\ \A y \in Conn \ {x} : clients'[y] = clients[y]
<1> DEFINE x == m_client[c]
           v == [clients[x] EXCEPT !.packets = Acknowledged(@, Head(owed[c]))]
<1>1. c \in 1 .. opened /\ x \in 1 .. opened /\ x \in Conn
  BY InConn DEF Typed, RecvAck
<1>2. Good(1 .. opened, clients[x])
  BY <1>1 DEF Records
<1>3. /\ Good(1 .. opened, v) /\ v.session = clients[x].session
      /\ \A d : Meant(clients[x], d) => Meant(v, d)
  BY <1>2, Acked
<1>4. clients' = [clients EXCEPT ![x] = v]
  BY DEF RecvAck
<1> HIDE DEF v
<1> QED  BY <1>1, <1>3, <1>4, OneRecord

(* The writes in flight after from: the same, or one more for x's session. *)
Sends(from, x) ==
    \/ writing' = from
    \/ \E f \in Frame :
          /\ clients[x].session # None
          /\ writing' = [from EXCEPT ![clients[x].session] = Append(@, f)]
          /\ \A d : Meant(clients[x], d) => f \in FrameFor(d)

LEMMA WriteDoneEffect ==
    ASSUME Typed, Records, NEW c \in Conn, WriteDone(c)
    PROVE  LET x == m_client[c]
           IN  /\ c \in 1 .. opened /\ x \in 1 .. opened
               /\ WellRecorded /\ NothingForeign
               /\ \A y \in Conn : clients'[y].session = clients[y].session
               /\ \A y \in Conn \ {x} : clients'[y] = clients[y]
               /\ Sends(Completed(c), x)
<1> DEFINE x == m_client[c]
           w == HandleWrite(clients[x])
<1>1. c \in 1 .. opened
  BY DEF WriteDone, Records
<1>2. x \in 1 .. opened /\ x \in Conn
  BY <1>1, InConn DEF Typed
<1>3. Good(1 .. opened, clients[x])
  BY <1>2 DEF Records
<1>4. /\ Good(1 .. opened, w.client) /\ w.client.session = clients[x].session
      /\ w.frame \in Frame \cup {None} /\ (w.frame # None => clients[x].session # None)
  BY <1>3, HandleWriteKeeps
<1>5. \A d : Meant(clients[x], d) =>
          Meant(w.client, d) /\ (w.frame # None => w.frame \in FrameFor(d))
  BY <1>3, MeantHandleWrite
<1>6. \/ /\ clients' = [clients EXCEPT ![x] = w.client]
         /\ writing' = IF w.frame = None THEN Completed(c)
                       ELSE [Completed(c) EXCEPT ![clients[x].session] = Append(@, w.frame)]
      \/ writing' = Completed(c) /\ UNCHANGED clients
  BY DEF WriteDone
<1> HIDE DEF w
<1>7. CASE UNCHANGED clients
  BY <1>1, <1>2, <1>6, <1>7, <1>4, <1>5 DEF WellRecorded, NothingForeign, Records, Sends
<1>8. CASE clients' = [clients EXCEPT ![x] = w.client]
  <2>1. /\ WellRecorded /\ NothingForeign
        /\ clients'[x] = w.client /\ \A y \in Conn \ {x} : clients'[y] = clients[y]
    BY <1>2, <1>4, <1>5, <1>8, OneRecord
  <2>2. \A y \in Conn : clients'[y].session = clients[y].session
    BY <1>4, <2>1
  <2>3. Sends(Completed(c), x)
    BY <1>4, <1>5, <1>6 DEF Sends
  <2> QED  BY <1>1, <1>2, <2>1, <2>2, <2>3
<1> QED  BY <1>6, <1>7, <1>8

(* send: the client afterwards and the frame that goes out, if one does. *)
LEMMA TextSent ==
    ASSUME NEW S, NEW c, Good(S, c), NEW t \in Texts
    PROVE  LET id == NextId(c.id)
               pushed == [c EXCEPT !.id = id, !.packets = Append(@, NewPacket(id, Text(t)))]
               w == IF Len(pushed.packets) = 1 THEN Written(pushed, 1) ELSE Nothing(pushed)
           IN  /\ Good(S, w.client) /\ w.client.session = c.session
               /\ w.frame \in Frame \cup {None}
               /\ Meant(c, Dest[t]) =>
                     Meant(w.client, Dest[t]) /\ (w.frame # None => w.frame \in FrameFor(Dest[t]))
<1> DEFINE d == Dest[t]
           id == NextId(c.id)
           pushed == [c EXCEPT !.id = id, !.packets = Append(@, NewPacket(id, Text(t)))]
           w == IF Len(pushed.packets) = 1 THEN Written(pushed, 1) ELSE Nothing(pushed)
<1>1. id \in 0 .. MaxId
  BY GoodFields, NextIdType
<1>2. Text(t) \in Body /\ For(Text(t), d)
  BY DEF Text, Body, For
<1>3. pushed = WithPacket(c, id, id, Text(t), c.files)
  BY GoodFields DEF WithPacket
<1> HIDE DEF id, d
<1>4. Good(S, pushed) /\ pushed.session = c.session
  BY <1>1, <1>2, <1>3, GoodFields, WithPacketKeeps
<1>5. Meant(c, d) => Meant(pushed, d)
  <2>1. ASSUME Meant(c, d) PROVE Meant(pushed, d)
    <3>1. c.files \in Seq(FileFor(d))
      BY <2>1 DEF Meant
    <3> QED  BY <1>1, <1>2, <1>3, <2>1, <3>1, MeantPushed
  <2> QED  BY <2>1
<1> HIDE DEF pushed
<1>6. CASE Len(pushed.packets) = 1
  <2>1. 1 \in 1 .. Len(pushed.packets) /\ \A j \in 1 .. 1 - 1 : Sent(pushed.packets[j])
    BY <1>6
  <2>2. w = Written(pushed, 1)
    BY <1>6
  <2>3. Meant(c, d) => Meant(w.client, d) /\ (w.frame # None => w.frame \in FrameFor(d))
    BY <1>4, <1>5, <2>1, <2>2, MeantWritten
  <2>4. Good(S, w.client) /\ w.client.session = c.session /\ w.frame \in Frame \cup {None}
    BY <1>4, <2>1, <2>2, WrittenKeeps
  <2> HIDE DEF w
  <2> QED  BY <2>3, <2>4 DEF d, w, pushed, id
<1>7. CASE Len(pushed.packets) # 1
  <2>1. w = Nothing(pushed)
    BY <1>7
  <2>2. w.client = pushed /\ w.frame = None
    BY <2>1 DEF Nothing
  <2>3. Meant(c, d) => Meant(w.client, d) /\ (w.frame # None => w.frame \in FrameFor(d))
    BY <1>5, <2>2
  <2>4. Good(S, w.client) /\ w.client.session = c.session /\ w.frame \in Frame \cup {None}
    BY <1>4, <2>2
  <2> HIDE DEF w
  <2> QED  BY <2>3, <2>4 DEF d, w, pushed, id
<1> QED  BY <1>6, <1>7

LEMMA FileQueued ==
    ASSUME NEW S, NEW c, Good(S, c), NEW f \in Files
    PROVE  LET queued == [c EXCEPT !.files = Append(@, [file |-> f, pos |-> 0])]
           IN  /\ Good(S, queued) /\ queued.session = c.session
               /\ queued.files # <<>>
               /\ Meant(c, Dest[f]) => Meant(queued, Dest[f])
<1> DEFINE g == [file |-> f, pos |-> 0]
           q == Append(c.files, g)
           queued == [c EXCEPT !.files = q]
<1>1. g \in File /\ g.pos <= FileSize[g.file] /\ g \in FileFor(Dest[f])
  BY SlideClientAssumption DEF File, FileFor
<1>2. c \in Client(S) /\ c.files \in Seq(File) /\ FilesInside(c.files)
  BY GoodFields DEF Good
<1> HIDE DEF g
<1>3. /\ q \in Seq(File) /\ Len(c.files) \in Nat /\ DOMAIN c.files = 1 .. Len(c.files)
      /\ DOMAIN q = 1 .. Len(c.files) + 1
      /\ \A i \in 1 .. Len(c.files) : q[i] = c.files[i]
      /\ q[Len(c.files) + 1] = g
  BY <1>1, <1>2, Appended
<1>4. c.files \in Seq(FileFor(Dest[f])) => q \in Seq(FileFor(Dest[f]))
  BY <1>1, Appended
<1> HIDE DEF q
<1>5. FilesInside(q)
  <2>1. ASSUME NEW i \in 1 .. Len(c.files) + 1 PROVE q[i].pos <= FileSize[q[i].file]
    <3>1. CASE i = Len(c.files) + 1
      BY <1>1, <1>3, <3>1
    <3>2. CASE i # Len(c.files) + 1
      <4>1. i \in 1 .. Len(c.files)
        BY <1>3, <3>2
      <4> QED  BY <1>2, <1>3, <4>1 DEF FilesInside
    <3> QED  BY <3>1, <3>2
  <2> QED  BY <1>3, <2>1 DEF FilesInside
<1>6. q # <<>>
  <2>1. 1 \in DOMAIN q
    BY <1>3
  <2> QED  BY <2>1, EmptySeq
<1>7. [c EXCEPT !.files = Append(@, [file |-> f, pos |-> 0])] = queued
  BY DEF q, g
<1>8. /\ Good(S, queued) /\ queued.session = c.session /\ queued.files = q
      /\ queued.packets = c.packets
  BY <1>2, <1>3, <1>5 DEF Good, Client
<1> HIDE DEF queued
<1> QED  BY <1>4, <1>6, <1>7, <1>8 DEF Meant

LEMMA MeantFirstChunk ==
    ASSUME NEW S, NEW c, Good(S, c), c.files # <<>>, NEW d, Meant(c, d)
    PROVE  Meant(FirstChunk(c), d)
<1> DEFINE f == Head(c.files)
           id == NextId(c.id)
           files == <<Advanced(f)>>
<1>1. files \in Seq(FileFor(d)) /\ For(ChunkOf(f), d)
  BY MeantFiles
<1>2. id \in 0 .. MaxId /\ ChunkOf(f) \in Body
  BY GoodFields, NextIdType, HeadFile
<1>3. FirstChunk(c) = WithPacket(c, id, id, ChunkOf(f), files)
  BY GoodFields DEF FirstChunk, WithPacket
<1> HIDE DEF id, files, f
<1> QED  BY <1>1, <1>2, <1>3, MeantPushed

LEMMA FileSent ==
    ASSUME NEW S, NEW c, Good(S, c), NEW f \in Files
    PROVE  LET queued == [c EXCEPT !.files = Append(@, [file |-> f, pos |-> 0])]
               first == Len(queued.files) = 1 /\ queued.packets = <<>>
               w == IF first THEN IF f \in Oversize THEN Nothing(c)
                                                    ELSE Written(FirstChunk(queued), 1)
                             ELSE Nothing(queued)
           IN  /\ Good(S, w.client) /\ w.client.session = c.session
               /\ w.frame \in Frame \cup {None}
               /\ Meant(c, Dest[f]) =>
                     Meant(w.client, Dest[f]) /\ (w.frame # None => w.frame \in FrameFor(Dest[f]))
<1> DEFINE d == Dest[f]
           queued == [c EXCEPT !.files = Append(@, [file |-> f, pos |-> 0])]
           first == Len(queued.files) = 1 /\ queued.packets = <<>>
           w == IF first THEN IF f \in Oversize THEN Nothing(c)
                                                ELSE Written(FirstChunk(queued), 1)
                         ELSE Nothing(queued)
           e == FirstChunk(queued)
<1>1. /\ Good(S, queued) /\ queued.session = c.session /\ queued.files # <<>>
      /\ Meant(c, d) => Meant(queued, d)
  BY FileQueued
<1> HIDE DEF queued, d
<1>2. /\ Good(S, e) /\ e.session = c.session /\ Len(e.packets) = Len(queued.packets) + 1
      /\ Meant(c, d) => Meant(e, d)
  BY <1>1, FirstChunkKeeps, MeantFirstChunk
<1>3. Len(queued.packets) \in Nat
  BY <1>1, GoodFields, LenProperties
<1> HIDE DEF e
<1>4. 1 \in 1 .. Len(e.packets) /\ \A j \in 1 .. 1 - 1 : Sent(e.packets[j])
  BY <1>2, <1>3
<1>5. /\ Good(S, Written(e, 1).client) /\ Written(e, 1).frame \in Frame
      /\ Written(e, 1).client.session = c.session
  BY <1>2, <1>4, WrittenKeeps
<1>6. Meant(c, d) => Meant(Written(e, 1).client, d) /\ Written(e, 1).frame \in FrameFor(d)
  BY <1>2, <1>4, MeantWritten
<1>7. w = Nothing(c) \/ w = Nothing(queued) \/ w = Written(e, 1)
  BY DEF e
<1>8. /\ Good(S, w.client) /\ w.client.session = c.session
      /\ w.frame \in Frame \cup {None}
      /\ Meant(c, d) => Meant(w.client, d) /\ (w.frame # None => w.frame \in FrameFor(d))
  <2>1. CASE w = Nothing(c) \/ w = Nothing(queued)
    <3>1. (w.client = c \/ w.client = queued) /\ w.frame = None
      BY <2>1 DEF Nothing
    <3> HIDE DEF w
    <3> QED  BY <1>1, <3>1
  <2>2. CASE w = Written(e, 1)
    <3> HIDE DEF w
    <3> QED  BY <1>5, <1>6, <2>2
  <2> QED  BY <1>7, <2>1, <2>2
<1> HIDE DEF w
<1> QED  BY <1>8 DEF w, first, queued, d, e

LEMMA HostSendEffect ==
    ASSUME Typed, Records, NEW x \in Conn, NEW what \in Texts \cup Files, HostSend(x, what)
    PROVE  /\ x \in 1 .. opened /\ x \in ToSet(m_clients)
           /\ WellRecorded
           /\ clients'[x].session = clients[x].session
           /\ \A y \in Conn \ {x} : clients'[y] = clients[y]
           /\ Meant(clients[x], Dest[what]) => Meant(clients'[x], Dest[what])
           /\ \/ UNCHANGED writing
              \/ \E f \in Frame :
                    /\ clients[x].session # None
                    /\ writing' = [writing EXCEPT ![clients[x].session] = Append(@, f)]
                    /\ Meant(clients[x], Dest[what]) => f \in FrameFor(Dest[what])
<1> DEFINE Effect ==
             /\ WellRecorded
             /\ clients'[x].session = clients[x].session
             /\ \A y \in Conn \ {x} : clients'[y] = clients[y]
             /\ Meant(clients[x], Dest[what]) => Meant(clients'[x], Dest[what])
             /\ \/ UNCHANGED writing
                \/ \E f \in Frame :
                      /\ clients[x].session # None
                      /\ writing' = [writing EXCEPT ![clients[x].session] = Append(@, f)]
                      /\ Meant(clients[x], Dest[what]) => f \in FrameFor(Dest[what])
<1>1. x \in ToSet(m_clients) /\ x \in 1 .. opened
  BY Members DEF HostSend, Typed
<1>2. Good(1 .. opened, clients[x])
  BY DEF Records
<1>3. ASSUME clients[x].session = None PROVE Effect
  BY <1>1, <1>3 DEF HostSend, WellRecorded, Records
<1>4. ASSUME clients[x].session # None, what \in Texts PROVE Effect
  <2>1. SendText(x, what)
    BY <1>4 DEF HostSend
  <2> DEFINE id == NextId(clients[x].id)
             pushed == [clients[x] EXCEPT !.id = id, !.packets = Append(@, NewPacket(id, Text(what)))]
             w == IF Len(pushed.packets) = 1 THEN Written(pushed, 1) ELSE Nothing(pushed)
  <2>2. clients' = [clients EXCEPT ![x] = w.client] /\ writing' = Flying(w, clients[x].session)
    BY <2>1 DEF SendText
  <2>3. /\ Good(1 .. opened, w.client) /\ w.client.session = clients[x].session
        /\ w.frame \in Frame \cup {None}
        /\ Meant(clients[x], Dest[what]) =>
              Meant(w.client, Dest[what]) /\ (w.frame # None => w.frame \in FrameFor(Dest[what]))
    BY <1>2, <1>4, TextSent
  <2> HIDE DEF w
  <2>4. /\ WellRecorded /\ clients'[x] = w.client
        /\ \A y \in Conn \ {x} : clients'[y] = clients[y]
    BY <2>2, <2>3, OneRecord
  <2>5. CASE w.frame = None
    <3>1. UNCHANGED writing
      BY <2>2, <2>5 DEF Flying
    <3> QED  BY <2>3, <2>4, <3>1
  <2>6. CASE w.frame # None
    <3>1. w.frame \in Frame /\ clients[x].session # None
      BY <1>4, <2>3, <2>6
    <3>2. writing' = [writing EXCEPT ![clients[x].session] = Append(@, w.frame)]
      BY <2>2, <2>6 DEF Flying
    <3>3. Meant(clients[x], Dest[what]) => w.frame \in FrameFor(Dest[what])
      BY <2>3, <2>6
    <3> QED  BY <2>3, <2>4, <3>1, <3>2, <3>3
  <2> QED  BY <2>5, <2>6
<1>5. ASSUME clients[x].session # None, what \notin Texts PROVE Effect
  <2>1. SendFile(x, what) /\ what \in Files
    BY <1>5 DEF HostSend
  <2> DEFINE queued == [clients[x] EXCEPT !.files = Append(@, [file |-> what, pos |-> 0])]
             first == Len(queued.files) = 1 /\ queued.packets = <<>>
             w == IF first THEN IF what \in Oversize THEN Nothing(clients[x])
                                                     ELSE Written(FirstChunk(queued), 1)
                           ELSE Nothing(queued)
  <2>2. clients' = [clients EXCEPT ![x] = w.client] /\ writing' = Flying(w, clients[x].session)
    BY <2>1 DEF SendFile
  <2>3. /\ Good(1 .. opened, w.client) /\ w.client.session = clients[x].session
        /\ w.frame \in Frame \cup {None}
        /\ Meant(clients[x], Dest[what]) =>
              Meant(w.client, Dest[what]) /\ (w.frame # None => w.frame \in FrameFor(Dest[what]))
    BY <1>2, <2>1, FileSent
  <2> HIDE DEF w
  <2>4. /\ WellRecorded /\ clients'[x] = w.client
        /\ \A y \in Conn \ {x} : clients'[y] = clients[y]
    BY <2>2, <2>3, OneRecord
  <2>5. CASE w.frame = None
    <3>1. UNCHANGED writing
      BY <2>2, <2>5 DEF Flying
    <3> QED  BY <2>3, <2>4, <3>1
  <2>6. CASE w.frame # None
    <3>1. w.frame \in Frame /\ clients[x].session # None
      BY <1>5, <2>3, <2>6
    <3>2. writing' = [writing EXCEPT ![clients[x].session] = Append(@, w.frame)]
      BY <2>2, <2>6 DEF Flying
    <3>3. Meant(clients[x], Dest[what]) => w.frame \in FrameFor(Dest[what])
      BY <2>3, <2>6
    <3> QED  BY <2>3, <2>4, <3>1, <3>2, <3>3
  <2> QED  BY <2>5, <2>6
<1>6. Effect
  BY <1>3, <1>4, <1>5
<1> QED  BY <1>1, <1>6

(* A login that moves the session of k to x. *)
LEMMA RebindEffect ==
    ASSUME Typed, Records, NEW k \in 1 .. opened, NEW x \in 1 .. opened,
           Rebind(k, x), clients[k].session # None
    PROVE  LET s == clients[k].session
           IN  /\ s \in 1 .. opened
               /\ WellRecorded /\ NothingForeign
               /\ clients'[x].session = s /\ clients'[k].session = s
               /\ \A y \in Conn \ {k, x} : clients'[y] = clients[y]
               /\ \/ UNCHANGED writing /\ (k = x \/ Unsent(clients[x].packets) = {})
                  \/ \E f \in Frame :
                        /\ writing' = [writing EXCEPT ![s] = Append(@, f)]
                        /\ \A d : Meant(clients[x], d) => f \in FrameFor(d)
               /\ m_client' = [m_client EXCEPT ![s] = x]
               /\ m_sessions' = m_sessions \ {x}
               /\ latest' = [latest EXCEPT ![x] = s]
               /\ stale' = stale \ {x}
               /\ UNCHANGED <<crashed, key, m_clients>>
<1> DEFINE s == clients[k].session
           e == [clients[k] EXCEPT !.packets = ResetAll(@)]
           reset == [clients EXCEPT ![k].packets = ResetAll(@)]
           a == [reset[x] EXCEPT !.session = s]
           w == HandleWrite(a)
<1>1. k \in Conn /\ x \in Conn
  BY InConn
<1>2. /\ Good(1 .. opened, clients[k]) /\ Good(1 .. opened, clients[x])
      /\ clients \in [Conn -> Client(1 .. opened)]
  BY <1>1 DEF Records
<1>3. s \in 1 .. opened
  BY <1>2, GoodFields
<1>4. Good(1 .. opened, e) /\ e.session = s /\ \A d : Meant(clients[k], d) => Meant(e, d)
  BY <1>2, Reset
<1>5. e \in Client(1 .. opened)
  BY <1>4 DEF Good
<1>6. reset = [clients EXCEPT ![k] = e]
  OBVIOUS
<1>7. reset[x] = (IF x = k THEN e ELSE clients[x]) /\ reset \in [Conn -> Client(1 .. opened)]
  <2> HIDE DEF e
  <2> QED  BY <1>1, <1>2, <1>5, <1>6
<1> HIDE DEF e
<1>8. Good(1 .. opened, reset[x]) /\ \A d : Meant(clients[x], d) => Meant(reset[x], d)
  BY <1>2, <1>4, <1>7
<1>9. /\ Good(1 .. opened, a) /\ a.session = s /\ a.packets = reset[x].packets
      /\ \A d : Meant(clients[x], d) => Meant(a, d)
  <2> DEFINE r == reset[x]
  <2>1. Good(1 .. opened, r) /\ s \in (1 .. opened) \cup {None}
    BY <1>3, <1>8
  <2> HIDE DEF r, s
  <2>2. LET b == [r EXCEPT !.session = s]
        IN  /\ Good(1 .. opened, b) /\ b.session = s /\ b.packets = r.packets
            /\ \A d : Meant(r, d) => Meant(b, d)
    BY <2>1, Moved
  <2>3. a = [r EXCEPT !.session = s]
    BY DEF r, s
  <2>4. \A d : Meant(clients[x], d) => Meant(r, d)
    BY <1>8 DEF r
  <2> HIDE DEF a
  <2>5. Good(1 .. opened, a) /\ a.session = s /\ a.packets = r.packets
    BY <2>2, <2>3
  <2>6. \A d : Meant(r, d) => Meant(a, d)
    BY <2>2, <2>3
  <2> QED  BY <2>4, <2>5, <2>6 DEF r
<1> HIDE DEF a
<1>10. /\ Good(1 .. opened, w.client) /\ w.client.session = s
       /\ w.frame \in Frame \cup {None}
       /\ \A d : Meant(clients[x], d) =>
              Meant(w.client, d) /\ (w.frame # None => w.frame \in FrameFor(d))
  BY <1>9, HandleWriteKeeps, MeantHandleWrite
<1>11. w.frame # None \/ k = x \/ Unsent(clients[x].packets) = {}
  <2>1. ASSUME k # x, Unsent(clients[x].packets) # {} PROVE w.frame # None
    BY <1>3, <1>7, <1>9, <2>1, WritesUnsent, InConn
  <2> QED  BY <2>1
<1>12. /\ clients' = [reset EXCEPT ![x] = w.client] /\ writing' = Flying(w, s)
       /\ m_client' = [m_client EXCEPT ![s] = x]
       /\ m_sessions' = m_sessions \ {x}
       /\ latest' = [latest EXCEPT ![x] = s]
       /\ stale' = stale \ {x}
       /\ UNCHANGED <<crashed, key, m_clients>>
  BY DEF Rebind, a
<1> HIDE DEF w
<1>13. w.client \in Client(1 .. opened)
  BY <1>10 DEF Good
<1>14. /\ clients' \in [Conn -> Client(1 .. opened)] /\ clients'[x] = w.client
       /\ k # x => clients'[k] = e
       /\ \A y \in Conn \ {k, x} : clients'[y] = clients[y]
  BY <1>1, <1>2, <1>5, <1>6, <1>7, <1>12, <1>13
<1> HIDE DEF reset, s
<1>15. WellRecorded
  <2>1. ASSUME NEW y \in Conn PROVE Good(1 .. opened, clients'[y])
    BY <1>4, <1>10, <1>14 DEF Records
  <2> QED  BY <1>14, <2>1 DEF WellRecorded
<1>16. NothingForeign
  <2>1. ASSUME NEW y \in Conn, NEW d, Meant(clients[y], d) PROVE Meant(clients'[y], d)
    BY <1>4, <1>10, <1>14, <2>1
  <2> QED  BY <2>1 DEF NothingForeign
<1>17. clients'[x].session = s /\ clients'[k].session = s
  BY <1>4, <1>10, <1>14
<1>18. \/ UNCHANGED writing /\ (k = x \/ Unsent(clients[x].packets) = {})
       \/ \E f \in Frame :
             /\ writing' = [writing EXCEPT ![s] = Append(@, f)]
             /\ \A d : Meant(clients[x], d) => f \in FrameFor(d)
  BY <1>10, <1>11, <1>12 DEF Flying
<1> QED  BY <1>3, <1>12, <1>14, <1>15, <1>16, <1>17, <1>18 DEF s

(* A login that names the client k and appends it to the registry. *)
LEMMA RegisterEffect ==
    ASSUME Typed, Records, NEW k \in 1 .. opened, NEW name, Register(k, name)
    PROVE  /\ WellRecorded /\ NothingForeign
           /\ \A y \in Conn : clients'[y].session = clients[y].session
           /\ \A y \in Conn \ {k} : clients'[y] = clients[y]
           /\ m_clients' \in Seq(1 .. opened)
           /\ ToSet(m_clients') = ToSet(m_clients) \cup {k}
<1> DEFINE v == [clients[k] EXCEPT !.packets = ResetAll(@)]
<1>1. k \in Conn
  BY InConn
<1>2. Good(1 .. opened, clients[k])
  BY <1>1 DEF Records
<1>3. Good(1 .. opened, v) /\ v.session = clients[k].session /\ \A d : Meant(clients[k], d) => Meant(v, d)
  BY <1>2, Reset
<1>4. clients' = [clients EXCEPT ![k] = v]
  BY DEF Register
<1> HIDE DEF v
<1>5. /\ WellRecorded /\ NothingForeign /\ clients'[k] = v
      /\ \A y \in Conn \ {k} : clients'[y] = clients[y]
  BY <1>1, <1>3, <1>4, OneRecord
<1>6. m_clients' \in Seq(1 .. opened) /\ ToSet(m_clients') = ToSet(m_clients) \cup {k}
  <2> DEFINE S == 1 .. opened
  <2>1. m_clients \in Seq(S) /\ m_clients' = Append(m_clients, k) /\ k \in S
    BY DEF Typed, Register
  <2> HIDE DEF S
  <2>2. m_clients' \in Seq(S) /\ ToSet(m_clients') = ToSet(m_clients) \cup {k}
    BY <2>1, Appended
  <2> QED  BY <2>2 DEF S
<1> QED  BY <1>1, <1>3, <1>5, <1>6

LEMMA LoginCases ==
    ASSUME Typed, Records, NEW c \in Conn, Login(c)
    PROVE  LET k == m_client[c]
           IN  /\ c \in 1 .. opened /\ k \in 1 .. opened /\ c \in reading
               /\ logins' = [logins EXCEPT ![c] = @ + 1]
               /\ UNCHANGED <<opened, accepting, device, reading, owed, asked, garbled, failed>>
               /\ \E n \in Names(device[c]) : \E name \in Keys :
                     /\ name = Key(Ip[device[k]], n)
                     /\ \/ \E x \in ToSet(m_clients) :
                              x \in 1 .. opened /\ key[x] = name /\ Rebind(k, x)
                        \/ (\A x \in ToSet(m_clients) : key[x] # name) /\ Register(k, name)
<1> DEFINE k == m_client[c]
<1>1. c \in 1 .. opened /\ k \in 1 .. opened /\ c \in reading
  BY DEF Login, Typed
<1>2. device[c] \in Device /\ device[k] \in Device
  BY <1>1 DEF Typed
<1>3. PICK n \in Names(device[c]) :
          IF Registered(Key(Ip[device[k]], n)) # {}
            THEN Rebind(k, m_clients[FirstOf(Registered(Key(Ip[device[k]], n)))])
            ELSE Register(k, Key(Ip[device[k]], n))
  BY DEF Login, Names
<1> DEFINE name == Key(Ip[device[k]], n)
<1>4. name \in Keys
  BY <1>2 DEF Keys
<1>5. ToSet(m_clients) \subseteq 1 .. opened /\ \A i \in DOMAIN m_clients : m_clients[i] \in ToSet(m_clients)
  BY Members DEF Typed
<1>6. \/ \E x \in ToSet(m_clients) : x \in 1 .. opened /\ key[x] = name /\ Rebind(k, x)
      \/ (\A x \in ToSet(m_clients) : key[x] # name) /\ Register(k, name)
  <2> HIDE DEF k, name
  <2>1. CASE Registered(name) # {}
    <3> DEFINE i == FirstOf(Registered(name))
    <3>1. Registered(name) \in SUBSET Nat
      <4>1. DOMAIN m_clients \in SUBSET Nat
        BY LenProperties DEF Typed
      <4> QED  BY <4>1 DEF Registered
    <3>2. i \in Registered(name)
      BY <2>1, <3>1, FirstExists
    <3> HIDE DEF i
    <3>3. m_clients[i] \in ToSet(m_clients) /\ key[m_clients[i]] = name
      BY <1>5, <3>2 DEF Registered
    <3>4. Rebind(k, m_clients[i])
      BY <1>3, <2>1 DEF i, k, name
    <3> QED  BY <1>5, <3>3, <3>4
  <2>2. CASE Registered(name) = {}
    <3>1. \A x \in ToSet(m_clients) : key[x] # name
      BY <2>2 DEF Registered, ToSet
    <3>2. Register(k, name)
      BY <1>3, <2>2 DEF k, name
    <3> QED  BY <3>1, <3>2
  <2> QED  BY <2>1, <2>2
<1>7. /\ logins' = [logins EXCEPT ![c] = @ + 1]
      /\ UNCHANGED <<opened, accepting, device, reading, owed, asked, garbled, failed>>
  BY DEF Login
<1> QED  BY <1>1, <1>4, <1>6, <1>7

LEMMA RoomLeft == ASSUME Typed, Room PROVE opened + 1 \in Conn
<1>1. NConn \in Nat /\ opened \in Nat
  BY SlideServerAssumption DEF Typed
<1>2. Cardinality(Again) \in Nat
  <2>1. IsFiniteSet(Conn) /\ IsFiniteSet(2 .. NConn)
    BY <1>1, FS_Interval DEF Conn
  <2>2. IsFiniteSet(Conn \X (2 .. NConn))
    BY <2>1, FS_Product
  <2> QED  BY <2>2, FS_Subset, FS_CardinalityType DEF Again
<1>3. Cardinality(asked \cap Files) \in Nat
  BY FS_Subset, FS_CardinalityType DEF Typed
<1> QED  BY <1>1, <1>2, <1>3 DEF Room, Conn

(* The records in flight, typed. *)
LEMMA Flown ==
    ASSUME Typed, NEW from \in [Conn -> Seq(Frame)], NEW s \in 1 .. opened, NEW f \in Frame,
           writing' = [from EXCEPT ![s] = Append(@, f)]
    PROVE  /\ writing' \in [Conn -> Seq(Frame)]
           /\ writing'[s] = Append(from[s], f)
           /\ \A c \in Conn \ {s} : writing'[c] = from[c]
<1>1. s \in Conn
  BY InConn
<1>2. Append(from[s], f) \in Seq(Frame)
  BY <1>1
<1>3. writing' = [from EXCEPT ![s] = Append(from[s], f)]
  OBVIOUS
<1> DEFINE q == Append(from[s], f)
<1> HIDE DEF q
<1>4. writing' = [from EXCEPT ![s] = q] /\ q \in Seq(Frame)
  BY <1>2, <1>3 DEF q
<1>5. /\ writing' \in [Conn -> Seq(Frame)] /\ writing'[s] = q
      /\ \A c \in Conn \ {s} : writing'[c] = from[c]
  BY <1>1, <1>4
<1> QED  BY <1>5 DEF q

LEMMA OneDone ==
    ASSUME Typed, Records, NEW c \in Conn, writing[c] # <<>>
    PROVE  /\ Completed(c) \in [Conn -> Seq(Frame)]
           /\ Completed(c)[c] = Tail(writing[c])
           /\ \A y \in Conn \ {c} : Completed(c)[y] = writing[y]
<1>1. Tail(writing[c]) \in Seq(Frame) /\ Head(writing[c]) \in Frame
  BY Tails DEF Typed
<1> QED  BY <1>1 DEF Completed, Typed

-----------------------------------------------------------------------------
(* The types. *)

LEMMA AcceptTyped == ASSUME Typed, Records, NEW d \in Device, Accept(d) PROVE Typed' /\ Records'
<1> DEFINE c == opened + 1
           v == [clients[c] EXCEPT !.session = c]
<1>1. c \in Conn /\ opened \in Nat /\ c \in Nat
  BY RoomLeft DEF Accept, Typed
<1>2. opened' = c /\ 1 .. opened' = (1 .. opened) \cup {c}
  BY <1>1 DEF Accept
<1>3. c # None /\ c \in Conn \ (1 .. opened) /\ 1 .. opened \subseteq Conn
  BY <1>1, SlideServerAssumption DEF Conn
<1>4. Typed'
  <2>1. opened' \in 0 .. NConn
    BY <1>1, <1>2 DEF Conn
  <2>2. /\ device' \in [Conn -> Device \cup {None}]
        /\ m_client' \in [Conn -> (1 .. opened') \cup {None}]
        /\ device'[c] = d /\ m_client'[c] = c
        /\ \A y \in Conn \ {c} : device'[y] = device[y] /\ m_client'[y] = m_client[y]
    BY <1>1, <1>2 DEF Typed, Accept
  <2>3. \A y \in 1 .. opened' : device'[y] \in Device /\ m_client'[y] # None
    BY <1>2, <1>3, <2>2 DEF Typed
  <2>4. m_clients \in Seq(1 .. opened')
    <3> DEFINE S == 1 .. opened
               T == 1 .. opened'
    <3>1. S \subseteq T /\ m_clients \in Seq(S)
      BY <1>2 DEF Typed
    <3> HIDE DEF S, T
    <3>2. m_clients \in Seq(T)
      BY <3>1, SeqMore
    <3> QED  BY <3>2 DEF T
  <2>5. reading' \subseteq 1 .. opened' /\ m_sessions' \subseteq 1 .. opened'
    BY <1>2 DEF Typed, Accept
  <2>6. /\ UNCHANGED <<accepting, key, m_clients, logins, writing, owed, asked,
                       crashed, garbled, latest>>
    BY DEF Accept
  <2>7. latest \in [Conn -> (1 .. opened') \cup {None}]
    BY <1>2 DEF Typed
  <2> QED  BY <2>1, <2>2, <2>3, <2>4, <2>5, <2>6, <2>7 DEF Typed
<1>5. Records'
  <2>1. clients[c] = NewClient /\ writing[c] = <<>>
    BY <1>3 DEF Records
  <2>2. v = [session |-> c, id |-> 0, packets |-> <<>>, files |-> <<>>]
    BY <2>1 DEF NewClient
  <2>3. Good(1 .. opened', v)
    <3>1. <<>> \in Seq(Packet) /\ <<>> \in Seq(File) /\ DOMAIN <<>> = {}
      BY EmptySeq
    <3>2. 0 \in 0 .. MaxId
      BY SlideClientAssumption
    <3>3. v \in Client(1 .. opened')
      BY <1>2, <2>2, <3>1, <3>2 DEF Client
    <3> QED  BY <2>2, <3>1, <3>3 DEF Good, Ordered, FilesInside
  <2>4. clients' = [clients EXCEPT ![c] = v] /\ UNCHANGED writing
    BY DEF Accept
  <2> HIDE DEF v
  <2>5. ASSUME NEW y \in Conn \ {c} PROVE Good(1 .. opened', clients[y])
    BY <1>2, GoodMore DEF Records
  <2>6. v \in Client(1 .. opened') /\ \A y \in Conn \ {c} : clients[y] \in Client(1 .. opened')
    BY <2>3, <2>5 DEF Good
  <2>7. clients'[c] = v /\ \A y \in Conn \ {c} : clients'[y] = clients[y]
    BY <1>1, <2>4 DEF Records
  <2>8. clients' \in [Conn -> Client(1 .. opened')]
    BY <2>4, <2>6 DEF Records
  <2>9. \A y \in Conn : Good(1 .. opened', clients'[y])
    BY <2>3, <2>5, <2>7
  <2>10. \A y \in Conn \ (1 .. opened') : clients'[y] = NewClient /\ writing'[y] = <<>>
    BY <1>2, <2>4, <2>7 DEF Records
  <2> QED  BY <2>8, <2>9, <2>10 DEF Records
<1> QED  BY <1>4, <1>5

(* The variables apart from the records of the clients and from writing. *)
Rest ==
    /\ opened' = opened /\ device' = device
    /\ accepting' \in BOOLEAN /\ crashed' \in BOOLEAN /\ garbled' \in BOOLEAN
    /\ reading' \subseteq reading
    /\ m_client' \in [Conn -> (1 .. opened) \cup {None}]
    /\ \A c \in 1 .. opened : m_client'[c] # None
    /\ m_sessions' \subseteq m_sessions
    /\ m_clients' \in Seq(1 .. opened)
    /\ key' \in [Conn -> Keys \cup {None}]
    /\ logins' \in [Conn -> Nat]
    /\ owed' \in [Conn -> Seq(0 .. MaxId)]
    /\ latest' \in [Conn -> (1 .. opened) \cup {None}]
    /\ asked' \subseteq Texts \cup Files /\ IsFiniteSet(asked')

LEMMA RestTyped ==
    ASSUME Typed, Records, Rest, WellRecorded,
           writing' \in [Conn -> Seq(Frame)],
           \A y \in Conn \ (1 .. opened) : clients'[y] = clients[y] /\ writing'[y] = writing[y]
    PROVE  Typed' /\ Records'
<1>1. Typed'
  BY DEF Typed, Rest
<1>2. Records'
  BY DEF Records, WellRecorded, Rest
<1> QED  BY <1>1, <1>2

LEMMA LoginTyped == ASSUME Typed, Records, NEW c \in Conn, Login(c) PROVE Typed' /\ Records'
<1> DEFINE k == m_client[c]
<1>1. /\ c \in 1 .. opened /\ k \in 1 .. opened /\ c \in reading
      /\ logins' = [logins EXCEPT ![c] = @ + 1]
      /\ UNCHANGED <<opened, accepting, device, reading, owed, asked, garbled, failed>>
  BY LoginCases
<1>2. PICK n \in Names(device[c]), name \in Keys :
          \/ \E x \in ToSet(m_clients) : x \in 1 .. opened /\ key[x] = name /\ Rebind(k, x)
          \/ (\A x \in ToSet(m_clients) : key[x] # name) /\ Register(k, name)
  BY LoginCases
<1>3. logins' \in [Conn -> Nat]
  BY <1>1 DEF Typed
<1>4. k \in Conn
  BY <1>1, InConn
<1>5. ASSUME NEW x \in 1 .. opened, Rebind(k, x), clients[k].session = None
      PROVE  Typed' /\ Records'
  <2>1. /\ crashed' = TRUE
        /\ UNCHANGED <<clients, m_client, m_sessions, writing, latest, stale, key, m_clients>>
    BY <1>5 DEF Rebind
  <2>2. WellRecorded
    BY <2>1 DEF WellRecorded, Records
  <2>3. Rest
    BY <1>1, <1>3, <2>1 DEF Rest, Typed
  <2> QED  BY <2>1, <2>2, <2>3, RestTyped DEF Typed
<1>6. ASSUME NEW x \in 1 .. opened, Rebind(k, x), clients[k].session # None
      PROVE  Typed' /\ Records'
  <2> DEFINE s == clients[k].session
  <2>1. /\ s \in 1 .. opened /\ WellRecorded
        /\ \A y \in Conn \ {k, x} : clients'[y] = clients[y]
        /\ UNCHANGED writing \/ \E f \in Frame : writing' = [writing EXCEPT ![s] = Append(@, f)]
        /\ m_client' = [m_client EXCEPT ![s] = x] /\ m_sessions' = m_sessions \ {x}
        /\ latest' = [latest EXCEPT ![x] = s]
        /\ UNCHANGED <<crashed, key, m_clients>>
    BY <1>1, <1>6, RebindEffect, SMTT(30)
  <2> HIDE DEF s
  <2>2. s \in Conn /\ x \in Conn /\ x # None
    BY <1>6, <2>1, InConn
  <2>3. Rest
    <3>1. /\ m_client' \in [Conn -> (1 .. opened) \cup {None}]
          /\ \A y \in 1 .. opened : m_client'[y] # None
          /\ latest' \in [Conn -> (1 .. opened) \cup {None}]
      BY <1>6, <2>1, <2>2, InConn DEF Typed
    <3>2. /\ m_sessions' \subseteq m_sessions
          /\ UNCHANGED <<crashed, key, m_clients>>
      BY <2>1
    <3> QED  BY <1>1, <1>3, <3>1, <3>2 DEF Rest, Typed
  <2>4. /\ writing' \in [Conn -> Seq(Frame)]
        /\ \A y \in Conn \ {s} : writing'[y] = writing[y]
    <3>1. CASE UNCHANGED writing
      BY <3>1 DEF Typed
    <3>2. CASE \E f \in Frame : writing' = [writing EXCEPT ![s] = Append(@, f)]
      <4>1. PICK f \in Frame : writing' = [writing EXCEPT ![s] = Append(@, f)]
        BY <3>2
      <4>2. writing \in [Conn -> Seq(Frame)]
        BY DEF Typed
      <4> QED  BY <2>1, <4>1, <4>2, Flown
    <3> QED  BY <2>1, <3>1, <3>2
  <2> QED  BY <1>1, <1>6, <2>1, <2>3, <2>4, RestTyped
<1>7. ASSUME Register(k, name) PROVE Typed' /\ Records'
  <2>1. /\ WellRecorded /\ m_clients' \in Seq(1 .. opened)
        /\ \A y \in Conn \ {k} : clients'[y] = clients[y]
    BY <1>1, <1>7, RegisterEffect
  <2>2. /\ key' = [key EXCEPT ![k] = name] /\ latest' = [latest EXCEPT ![k] = clients[k].session]
        /\ UNCHANGED <<m_client, m_sessions, writing, crashed>>
    BY <1>7 DEF Register
  <2>3. clients[k].session \in (1 .. opened) \cup {None}
    BY <1>4, GoodFields DEF Records
  <2>4. Rest
    BY <1>1, <1>2, <1>3, <1>4, <2>1, <2>2, <2>3 DEF Rest, Typed
  <2> QED  BY <1>1, <2>1, <2>2, <2>4, RestTyped DEF Typed
<1> QED  BY <1>1, <1>2, <1>5, <1>6, <1>7

LEMMA WriteFailAt == ASSUME Records, NEW c \in Conn, writing[c] # <<>> PROVE c \in 1 .. opened
BY DEF Records

(* The close of a client by a read, by bad bytes or by a write that fails. *)
Closing(c) == ReadFail(c) \/ BadFrame(c) \/ (WriteFail(c) /\ Close(c))

LEMMA ClosingEffect ==
    ASSUME Typed, Records, NEW c \in Conn, Closing(c)
    PROVE  LET x == m_client[c]
           IN  /\ c \in 1 .. opened /\ x \in 1 .. opened
               /\ WellRecorded /\ NothingForeign
               /\ clients'[x].session = None
               /\ \A y \in Conn \ {x} : clients'[y] = clients[y]
               /\ failed' = IF clients[x].session = c THEN failed \cup {c} ELSE failed
               /\ stale' = IF clients[x].session \notin {c, None} THEN stale \cup {x} ELSE stale
               /\ UNCHANGED writing \/ (writing[c] # <<>> /\ writing' = Completed(c))
               /\ reading' \subseteq reading
               /\ UNCHANGED <<opened, accepting, device, m_client, key, m_sessions, m_clients,
                              logins, owed, asked, crashed, latest>>
<1>1. Close(c)
  BY DEF Closing, ReadFail, BadFrame
<1>2. c \in 1 .. opened
  BY WriteFailAt DEF Closing, ReadFail, BadFrame, WriteFail, Typed
<1>3. /\ UNCHANGED writing \/ (writing[c] # <<>> /\ writing' = Completed(c))
      /\ reading' \subseteq reading
      /\ UNCHANGED <<opened, accepting, device, m_client, key, m_sessions, m_clients,
                     logins, owed, asked, crashed, latest>>
  BY DEF Closing, ReadFail, BadFrame, WriteFail
<1> QED  BY <1>1, <1>2, <1>3, CloseEffect

LEMMA ClosingTyped == ASSUME Typed, Records, NEW c \in Conn, Closing(c) PROVE Typed' /\ Records'
<1>1. /\ c \in 1 .. opened /\ m_client[c] \in 1 .. opened /\ WellRecorded
      /\ \A y \in Conn \ {m_client[c]} : clients'[y] = clients[y]
      /\ UNCHANGED writing \/ (writing[c] # <<>> /\ writing' = Completed(c))
      /\ reading' \subseteq reading
      /\ UNCHANGED <<opened, accepting, device, m_client, key, m_sessions, m_clients,
                     logins, owed, asked, crashed, latest>>
  BY ClosingEffect
<1>2. garbled' \in BOOLEAN
  BY DEF Closing, ReadFail, BadFrame, WriteFail, Typed
<1>3. Rest
  BY <1>1, <1>2 DEF Rest, Typed
<1>4. writing' \in [Conn -> Seq(Frame)] /\ \A y \in Conn \ {c} : writing'[y] = writing[y]
  <2>1. CASE UNCHANGED writing
    BY <2>1 DEF Typed
  <2>2. CASE writing[c] # <<>> /\ writing' = Completed(c)
    BY <2>2, OneDone
  <2> QED  BY <1>1, <2>1, <2>2
<1> QED  BY <1>1, <1>3, <1>4, RestTyped

LEMMA WriteFailApart ==
    ASSUME Typed, Records, NEW c \in Conn, WriteFail(c), ~Close(c)
    PROVE  /\ Completed(c) \in [Conn -> Seq(Frame)] /\ writing' = Completed(c) /\ writing[c] # <<>>
           /\ UNCHANGED <<opened, accepting, device, reading, m_client, clients, key, m_sessions,
                          m_clients, logins, owed, asked, crashed, garbled, failed, latest, stale>>
BY OneDone DEF WriteFail

LEMMA OwedTyped ==
    ASSUME Typed, NEW c \in Conn, writing[c] # <<>>,
           owed' = [owed EXCEPT ![c] = Append(@, Head(writing[c]).id)]
    PROVE  owed' \in [Conn -> Seq(0 .. MaxId)]
<1> DEFINE q == Append(owed[c], Head(writing[c]).id)
           I == 0 .. MaxId
<1>1. Head(writing[c]).id \in I
  <2>1. writing[c] \in Seq(Frame)
    BY DEF Typed
  <2>2. Head(writing[c]) \in Frame
    BY <2>1, Tails
  <2> QED  BY <2>2 DEF Frame
<1>2. owed[c] \in Seq(I) /\ owed \in [Conn -> Seq(I)]
  BY DEF Typed
<1> HIDE DEF I
<1>3. q \in Seq(I)
  BY <1>1, <1>2, AppendProperties
<1>4. owed' = [owed EXCEPT ![c] = q]
  OBVIOUS
<1> HIDE DEF q
<1>5. owed' \in [Conn -> Seq(I)]
  BY <1>2, <1>3, <1>4
<1> QED  BY <1>5 DEF I

(* A step of the server that changes what is in flight by x's writing.     *)
LEMMA SendsTyped ==
    ASSUME Typed, Records, NEW from \in [Conn -> Seq(Frame)], NEW x \in Conn, Sends(from, x)
    PROVE  /\ writing' \in [Conn -> Seq(Frame)]
           /\ \A y \in Conn : clients[x].session # y => writing'[y] = from[y]
           /\ \A y \in Conn \ (1 .. opened) : writing'[y] = from[y]
<1>1. CASE writing' = from
  BY <1>1
<1>2. ASSUME NEW f \in Frame, clients[x].session # None,
             writing' = [from EXCEPT ![clients[x].session] = Append(@, f)]
      PROVE  /\ writing' \in [Conn -> Seq(Frame)]
             /\ \A y \in Conn : clients[x].session # y => writing'[y] = from[y]
             /\ \A y \in Conn \ (1 .. opened) : writing'[y] = from[y]
  <2>1. clients[x].session \in 1 .. opened
    BY <1>2, GoodFields DEF Records
  <2> QED  BY <1>2, <2>1, Flown
<1> QED  BY <1>1, <1>2 DEF Sends

LEMMA WriteDoneTyped == ASSUME Typed, Records, NEW c \in Conn, WriteDone(c) PROVE Typed' /\ Records'
<1>1. /\ c \in 1 .. opened /\ m_client[c] \in 1 .. opened /\ WellRecorded
      /\ \A y \in Conn \ {m_client[c]} : clients'[y] = clients[y]
      /\ Sends(Completed(c), m_client[c])
  BY WriteDoneEffect
<1>2. /\ writing[c] # <<>> /\ owed' = [owed EXCEPT ![c] = Append(@, Head(writing[c]).id)]
      /\ UNCHANGED <<opened, accepting, device, reading, m_client, key, m_sessions,
                   m_clients, logins, asked, crashed, garbled, failed, latest, stale>>
  BY DEF WriteDone
<1>3. owed' \in [Conn -> Seq(0 .. MaxId)]
  BY <1>2, OwedTyped
<1>4. Rest
  BY <1>2, <1>3 DEF Rest, Typed
<1>5. m_client[c] \in Conn
  BY <1>1, InConn
<1>6. /\ Completed(c) \in [Conn -> Seq(Frame)]
      /\ \A y \in Conn \ {c} : Completed(c)[y] = writing[y]
  BY <1>2, OneDone
<1>7. /\ writing' \in [Conn -> Seq(Frame)]
      /\ \A y \in Conn \ (1 .. opened) : writing'[y] = writing[y]
  BY <1>1, <1>5, <1>6, SendsTyped
<1> QED  BY <1>1, <1>4, <1>7, RestTyped

LEMMA AckTyped == ASSUME Typed, Records, NEW c \in Conn, RecvAck(c) PROVE Typed' /\ Records'
<1>1. /\ WellRecorded /\ m_client[c] \in 1 .. opened
      /\ \A y \in Conn \ {m_client[c]} : clients'[y] = clients[y]
  BY AckEffect
<1>2. /\ owed[c] # <<>> /\ owed' = [owed EXCEPT ![c] = Tail(@)]
      /\ UNCHANGED <<opened, accepting, device, reading, m_client, key, m_sessions,
                   m_clients, logins, writing, asked, crashed, garbled, failed, latest, stale>>
  BY DEF RecvAck
<1>3. owed' \in [Conn -> Seq(0 .. MaxId)]
  BY <1>2, Tails DEF Typed
<1>4. Rest
  BY <1>2, <1>3 DEF Rest, Typed
<1> QED  BY <1>1, <1>2, <1>4, RestTyped DEF Typed

LEMMA HostSendTyped ==
    ASSUME Typed, Records, NEW x \in Conn, NEW what \in Texts \cup Files, HostSend(x, what)
    PROVE  Typed' /\ Records'
<1>1. /\ x \in 1 .. opened /\ WellRecorded
      /\ \A y \in Conn \ {x} : clients'[y] = clients[y]
      /\ \/ UNCHANGED writing
         \/ \E f \in Frame :
               /\ clients[x].session # None
               /\ writing' = [writing EXCEPT ![clients[x].session] = Append(@, f)]
  BY HostSendEffect
<1>2. /\ asked' = asked \cup {what}
      /\ UNCHANGED <<opened, accepting, device, reading, m_client, key, m_sessions,
                   m_clients, logins, owed, crashed, garbled, failed, latest, stale>>
  BY DEF HostSend
<1>3. asked' \subseteq Texts \cup Files /\ IsFiniteSet(asked')
  BY <1>2, FS_AddElement DEF Typed
<1>4. Rest
  BY <1>2, <1>3 DEF Rest, Typed
<1>5. /\ writing' \in [Conn -> Seq(Frame)]
      /\ \A y \in Conn \ (1 .. opened) : writing'[y] = writing[y]
  <2>1. CASE UNCHANGED writing
    BY <2>1 DEF Typed
  <2>2. ASSUME NEW f \in Frame, clients[x].session # None,
               writing' = [writing EXCEPT ![clients[x].session] = Append(@, f)]
        PROVE  /\ writing' \in [Conn -> Seq(Frame)]
               /\ \A y \in Conn \ (1 .. opened) : writing'[y] = writing[y]
    <3>1. clients[x].session \in 1 .. opened
      BY <2>2, GoodFields DEF Records
    <3>2. writing \in [Conn -> Seq(Frame)]
      BY DEF Typed
    <3> QED  BY <2>2, <3>1, <3>2, Flown
  <2> QED  BY <1>1, <2>1, <2>2
<1> QED  BY <1>1, <1>4, <1>5, RestTyped

LEMMA NextTyped == ASSUME Typed, Records, [Next]_vars PROVE Typed' /\ Records'
<1>1. CASE AcceptFail
  BY <1>1 DEF AcceptFail, Typed, Records
<1>2. CASE UNCHANGED vars
  BY <1>2 DEF vars, Typed, Records
<1>3. ASSUME NEW c \in Conn, WriteFail(c), ~Close(c) PROVE Typed' /\ Records'
  <2>1. /\ Completed(c) \in [Conn -> Seq(Frame)] /\ writing' = Completed(c) /\ writing[c] # <<>>
        /\ UNCHANGED <<opened, accepting, device, reading, m_client, clients, key, m_sessions,
                       m_clients, logins, owed, asked, crashed, garbled, failed, latest, stale>>
    BY <1>3, WriteFailApart
  <2>2. Rest /\ WellRecorded
    BY <2>1 DEF Rest, WellRecorded, Typed, Records
  <2>3. c \in 1 .. opened /\ \A y \in Conn \ {c} : writing'[y] = writing[y]
    BY <2>1, OneDone, WriteFailAt
  <2> QED  BY <2>1, <2>2, <2>3, RestTyped
<1> QED  BY <1>1, <1>2, <1>3, AcceptTyped, LoginTyped, ClosingTyped, AckTyped, WriteDoneTyped,
            HostSendTyped DEF Next, Closing

-----------------------------------------------------------------------------
(* Every client is kept. *)

LEMMA NextKept == ASSUME Typed, Records, Kept, [Next]_vars PROVE Kept'
<1>1. ASSUME NEW d \in Device, Accept(d) PROVE Kept'
  <2>1. 1 .. opened' = (1 .. opened) \cup {opened + 1}
    BY <1>1 DEF Accept, Typed
  <2> QED  BY <1>1, <2>1 DEF Accept, Kept
<1>2. ASSUME NEW c \in Conn, Login(c) PROVE Kept'
  <2> DEFINE k == m_client[c]
  <2>1. k \in 1 .. opened /\ UNCHANGED opened
    BY <1>2, LoginCases
  <2>2. PICK n \in Names(device[c]), name \in Keys :
            \/ \E x \in ToSet(m_clients) : x \in 1 .. opened /\ key[x] = name /\ Rebind(k, x)
            \/ (\A x \in ToSet(m_clients) : key[x] # name) /\ Register(k, name)
    BY <1>2, LoginCases
  <2>3. ASSUME NEW x \in ToSet(m_clients), Rebind(k, x) PROVE Kept'
    <3>1. m_sessions \ {x} \subseteq m_sessions' /\ UNCHANGED m_clients
      BY <2>3 DEF Rebind
    <3> QED  BY <2>1, <2>3, <3>1 DEF Kept
  <2>4. ASSUME Register(k, name) PROVE Kept'
    <3>1. ToSet(m_clients') = ToSet(m_clients) \cup {k} /\ UNCHANGED m_sessions
      BY <2>1, <2>4, RegisterEffect DEF Register
    <3> QED  BY <2>1, <3>1 DEF Kept
  <2> QED  BY <2>2, <2>3, <2>4
<1>3. CASE AcceptFail \/ UNCHANGED vars
  BY <1>3 DEF AcceptFail, vars, Kept
<1>4. ASSUME NEW c \in Conn, ReadFail(c) \/ BadFrame(c) \/ RecvAck(c) \/ WriteDone(c) \/ WriteFail(c)
      PROVE  Kept'
  BY <1>4 DEF ReadFail, BadFrame, RecvAck, WriteDone, WriteFail, Kept
<1>5. ASSUME NEW x \in Conn, NEW what \in Texts \cup Files, HostSend(x, what) PROVE Kept'
  BY <1>5 DEF HostSend, Kept
<1> QED  BY <1>1, <1>2, <1>3, <1>4, <1>5 DEF Next

-----------------------------------------------------------------------------
(* A connection before its first login. *)

LEMMA AcceptNewcomers ==
    ASSUME Typed, Records, Newcomers, NEW d \in Device, Accept(d)
    PROVE  Newcomers'
<1> PICK c \in Conn : c = opened + 1
  BY RoomLeft DEF Accept
<1>1. c \in Conn \ (1 .. opened) /\ 1 .. opened \subseteq Conn /\ c # None
      /\ 1 .. opened' = (1 .. opened) \cup {c}
  <2>1. opened \in Nat /\ NConn \in Nat /\ None \notin 1 .. NConn /\ c \in 1 .. NConn
    BY SlideServerAssumption DEF Conn, Typed
  <2>2. opened' = c
    BY DEF Accept
  <2>3. 1 .. opened \subseteq 1 .. NConn /\ c \notin 1 .. opened /\ 1 .. c = (1 .. opened) \cup {c}
    BY <2>1
  <2> QED  BY <2>1, <2>2, <2>3 DEF Conn
<1>2. /\ clients' = [clients EXCEPT ![c].session = c] /\ m_client' = [m_client EXCEPT ![c] = c]
      /\ reading' = reading \cup {c}
      /\ UNCHANGED <<m_clients, logins, writing, garbled>>
  BY DEF Accept
<1>3. /\ clients[c] \in Client(1 .. opened)
      /\ \A y \in Conn : clients[y].session \in (1 .. opened) \cup {None}
  BY <1>1, GoodFields DEF Records
<1>4. clients'[c].session = c /\ \A y \in Conn \ {c} : clients'[y] = clients[y]
  BY <1>1, <1>2, <1>3 DEF Records, Client
<1>5. m_client'[c] = c /\ \A y \in Conn \ {c} : m_client'[y] = m_client[y]
  BY <1>1, <1>2 DEF Typed
<1>6. ToSet(m_clients) \subseteq 1 .. opened
  BY Members DEF Typed
<1>7. Alone(c)'
  <2>1. \A y \in Conn \ {c} : m_client[y] # c /\ clients[y].session # c
    BY <1>1, <1>3, ZenonT(30) DEF Typed
  <2>2. writing[c] = <<>>
    BY <1>1 DEF Records
  <2> QED  BY <1>1, <1>2, <1>4, <1>5, <1>6, <2>1, <2>2 DEF Alone
<1>8. ASSUME NEW y \in 1 .. opened, Alone(y) PROVE Alone(y)'
  BY <1>1, <1>2, <1>4, <1>5, <1>8 DEF Alone
<1> QED  BY <1>1, <1>2, <1>7, <1>8 DEF Newcomers

(* A connection no step is about stays alone. *)
LEMMA StaysAlone ==
    ASSUME NEW y \in 1 .. opened, Typed, Alone(y),
           m_client'[y] = y, clients'[y].session = clients[y].session,
           writing'[y] = <<>>, y \notin ToSet(m_clients'),
           \A k \in Conn \ {y} : m_client'[k] # y /\ clients'[k].session # y,
           reading' \subseteq reading, garbled => garbled'
    PROVE  Alone(y)'
BY DEF Alone, Typed

LEMMA LoginNewcomers ==
    ASSUME Typed, Records, Newcomers, NEW c \in Conn, Login(c)
    PROVE  Newcomers'
<1> DEFINE k == m_client[c]
<1>1. /\ c \in 1 .. opened /\ k \in 1 .. opened
      /\ logins' = [logins EXCEPT ![c] = @ + 1]
      /\ UNCHANGED <<opened, reading, garbled>>
  BY LoginCases
<1>2. PICK n \in Names(device[c]), name \in Keys :
          \/ \E x \in ToSet(m_clients) : x \in 1 .. opened /\ key[x] = name /\ Rebind(k, x)
          \/ (\A x \in ToSet(m_clients) : key[x] # name) /\ Register(k, name)
  BY LoginCases
<1>3. SUFFICES ASSUME NEW y \in 1 .. opened, logins'[y] = 0 PROVE Alone(y)'
  BY <1>1 DEF Newcomers
<1>4. y \in Conn /\ y # c /\ logins[y] = 0
  <2>1. y \in Conn /\ logins \in [Conn -> Nat]
    BY InConn DEF Typed
  <2>2. logins'[c] = logins[c] + 1 /\ (y # c => logins'[y] = logins[y])
    BY <1>1, <2>1
  <2> QED  BY <1>3, <2>1, <2>2
<1>5. /\ Alone(y) /\ k # y /\ k \in Conn /\ m_client[y] = y /\ writing[y] = <<>>
      /\ y \notin ToSet(m_clients)
      /\ \A j \in Conn \ {y} : m_client[j] # y /\ clients[j].session # y
  BY <1>1, <1>4, InConn DEF Newcomers, Alone
<1>6. ASSUME NEW x \in ToSet(m_clients), x \in 1 .. opened, Rebind(k, x), clients[k].session = None
      PROVE  Alone(y)'
  <2>1. UNCHANGED <<clients, m_client, writing, m_clients>>
    BY <1>6 DEF Rebind
  <2> QED  BY <1>1, <1>5, <2>1 DEF Alone
<1>7. ASSUME NEW x \in ToSet(m_clients), x \in 1 .. opened, Rebind(k, x), clients[k].session # None
      PROVE  Alone(y)'
  <2> DEFINE s == clients[k].session
  <2>1. /\ s \in 1 .. opened
        /\ clients'[x].session = s /\ clients'[k].session = s
        /\ \A j \in Conn \ {k, x} : clients'[j] = clients[j]
        /\ UNCHANGED writing \/ \E f \in Frame : writing' = [writing EXCEPT ![s] = Append(@, f)]
        /\ m_client' = [m_client EXCEPT ![s] = x] /\ UNCHANGED m_clients
    BY <1>1, <1>7, RebindEffect, SMTT(30)
  <2>2. s # y /\ x # y /\ s \in Conn
    BY <1>5, <1>7, <2>1, InConn
  <2> HIDE DEF s
  <2>3. writing'[y] = <<>>
    BY <1>4, <1>5, <2>1, <2>2 DEF Typed
  <2>4. m_client'[y] = y /\ \A j \in Conn \ {y} : m_client'[j] # y
    BY <1>4, <1>5, <2>1, <2>2 DEF Typed
  <2>5. \A j \in Conn \ {y} : clients'[j].session # y
    BY <1>5, <2>1, <2>2
  <2>6. clients'[y].session = clients[y].session
    BY <1>4, <1>5, <2>1, <2>2
  <2> QED  BY <1>1, <1>5, <2>1, <2>3, <2>4, <2>5, <2>6, StaysAlone
<1>8. ASSUME Register(k, name) PROVE Alone(y)'
  <2>1. /\ \A j \in Conn : clients'[j].session = clients[j].session
        /\ ToSet(m_clients') = ToSet(m_clients) \cup {k}
    BY <1>1, <1>8, RegisterEffect
  <2>2. UNCHANGED <<m_client, writing>>
    BY <1>8 DEF Register
  <2> QED  BY <1>1, <1>4, <1>5, <2>1, <2>2, StaysAlone
<1> QED  BY <1>2, <1>6, <1>7, <1>8

LEMMA ClosingNewcomers ==
    ASSUME Typed, Records, Newcomers, NEW c \in Conn, Closing(c)
    PROVE  Newcomers'
<1> DEFINE x == m_client[c]
<1>1. /\ c \in 1 .. opened /\ x \in 1 .. opened
      /\ clients'[x].session = None
      /\ \A y \in Conn \ {x} : clients'[y] = clients[y]
      /\ UNCHANGED writing \/ (writing[c] # <<>> /\ writing' = Completed(c))
      /\ reading' \subseteq reading
      /\ UNCHANGED <<opened, m_client, m_clients, logins>>
  BY ClosingEffect
<1>2. garbled => garbled'
  BY DEF Closing, ReadFail, BadFrame, WriteFail
<1>3. SUFFICES ASSUME NEW y \in 1 .. opened, logins[y] = 0 PROVE Alone(y)'
  BY <1>1 DEF Newcomers
<1>4. /\ Alone(y) /\ m_client[y] = y /\ writing[y] = <<>> /\ y \in Conn /\ y # None
      /\ y \notin ToSet(m_clients)
      /\ \A j \in Conn \ {y} : m_client[j] # y /\ clients[j].session # y
  BY <1>3, InConn DEF Newcomers, Alone
<1>5. writing'[y] = <<>>
  BY <1>1, <1>4, OneDone
<1>6. \A j \in Conn \ {y} : clients'[j].session # y
  BY <1>1, <1>4
<1>7. CASE x # y
  <2>1. clients'[y].session = clients[y].session
    BY <1>1, <1>4, <1>7
  <2> QED  BY <1>1, <1>2, <1>4, <1>5, <1>6, <2>1, StaysAlone
<1>8. CASE x = y
  <2>1. c = y
    BY <1>4, <1>8
  <2>2. c \notin reading' \/ garbled'
    BY <1>4, <2>1 DEF Closing, ReadFail, BadFrame, WriteFail
  <2> QED  BY <1>1, <1>4, <1>5, <1>6, <1>8, <2>1, <2>2 DEF Alone
<1> QED  BY <1>7, <1>8

LEMMA NextNewcomers == ASSUME Typed, Records, Newcomers, [Next]_vars PROVE Newcomers'
<1>1. CASE AcceptFail \/ UNCHANGED vars
  BY <1>1 DEF AcceptFail, vars, Newcomers, Alone
<1>2. ASSUME NEW c \in Conn, WriteFail(c), ~Close(c) PROVE Newcomers'
  <2>1. /\ writing' = Completed(c) /\ writing[c] # <<>>
        /\ UNCHANGED <<opened, reading, m_client, clients, m_clients, logins, garbled>>
    BY <1>2, WriteFailApart
  <2>2. \A y \in 1 .. opened : writing[y] = <<>> => writing'[y] = <<>>
    BY <2>1, OneDone, InConn
  <2> QED  BY <2>1, <2>2 DEF Newcomers, Alone
<1>3. ASSUME NEW c \in Conn, RecvAck(c) PROVE Newcomers'
  <2>1. \A y \in Conn : clients'[y].session = clients[y].session
    BY <1>3, AckEffect
  <2>2. UNCHANGED <<opened, reading, m_client, m_clients, logins, writing, garbled>>
    BY <1>3 DEF RecvAck
  <2>3. 1 .. opened \subseteq Conn
    BY InConn
  <2> QED  BY <2>1, <2>2, <2>3 DEF Newcomers, Alone
<1>4. ASSUME NEW c \in Conn, WriteDone(c) PROVE Newcomers'
  <2> DEFINE x == m_client[c]
  <2>1. /\ c \in 1 .. opened /\ x \in 1 .. opened
        /\ \A y \in Conn : clients'[y].session = clients[y].session
        /\ Sends(Completed(c), x)
    BY <1>4, WriteDoneEffect
  <2>2. /\ writing[c] # <<>>
        /\ UNCHANGED <<opened, reading, m_client, m_clients, logins, garbled>>
    BY <1>4 DEF WriteDone
  <2>3. 1 .. opened \subseteq Conn /\ x \in Conn
    BY <2>1, InConn
  <2>4. ASSUME NEW y \in 1 .. opened, Alone(y) PROVE writing'[y] = <<>>
    <3>1. y # c /\ y \in Conn /\ writing[y] = <<>>
      BY <2>2, <2>3, <2>4 DEF Alone
    <3>2. x # y /\ clients[x].session # y
      BY <2>3, <2>4, <3>1 DEF Alone
    <3> QED  BY <2>1, <2>2, <2>3, <3>1, <3>2, OneDone, SendsTyped
  <2> QED  BY <2>1, <2>2, <2>3, <2>4 DEF Newcomers, Alone
<1>5. ASSUME NEW x \in Conn, NEW what \in Texts \cup Files, HostSend(x, what) PROVE Newcomers'
  <2>1. /\ x \in 1 .. opened /\ x \in ToSet(m_clients)
        /\ clients'[x].session = clients[x].session
        /\ \A y \in Conn \ {x} : clients'[y] = clients[y]
        /\ \/ UNCHANGED writing
           \/ \E f \in Frame :
                 /\ clients[x].session # None
                 /\ writing' = [writing EXCEPT ![clients[x].session] = Append(@, f)]
    BY <1>5, HostSendEffect
  <2>2. UNCHANGED <<opened, reading, m_client, m_clients, logins, garbled>>
    BY <1>5 DEF HostSend
  <2>3. 1 .. opened \subseteq Conn
    BY InConn
  <2>4. ASSUME NEW y \in 1 .. opened, Alone(y) PROVE writing'[y] = <<>>
    <3>1. x # y /\ clients[x].session # y /\ writing[y] = <<>> /\ y \in Conn
      BY <2>1, <2>3, <2>4 DEF Alone
    <3> QED  BY <2>1, <3>1 DEF Typed
  <2>5. \A y \in Conn : clients'[y].session = clients[y].session
    BY <2>1
  <2> QED  BY <2>2, <2>3, <2>4, <2>5 DEF Newcomers, Alone
<1> QED  BY <1>1, <1>2, <1>3, <1>4, <1>5, AcceptNewcomers, LoginNewcomers, ClosingNewcomers
        DEF Next, Closing

-----------------------------------------------------------------------------
(* Nothing null is dereferenced while devices behave. *)

LEMMA NextCrash == ASSUME Typed, Records, Newcomers, CrashNeedsBadInput, [Next]_vars
                   PROVE  CrashNeedsBadInput'
<1>1. ASSUME NEW c \in Conn, Login(c) PROVE CrashNeedsBadInput'
  <2> DEFINE k == m_client[c]
  <2>1. /\ c \in 1 .. opened /\ k \in 1 .. opened /\ c \in reading
        /\ logins' = [logins EXCEPT ![c] = @ + 1] /\ UNCHANGED garbled
    BY <1>1, LoginCases
  <2>2. logins \in [Conn -> Nat]
    BY DEF Typed
  <2>3. (\E y \in Conn : logins[y] > 1) => \E y \in Conn : logins'[y] > 1
    BY <2>1, <2>2
  <2>4. CASE UNCHANGED crashed
    BY <2>1, <2>3, <2>4 DEF CrashNeedsBadInput
  <2>5. CASE crashed' # crashed
    <3>1. clients[k].session = None
      BY <1>1, <2>5, LoginCases DEF Rebind, Register
    <3>2. CASE logins[c] = 0 /\ ~garbled
      <4>1. clients[c].session = c /\ k = c /\ c # None
        BY <2>1, <3>2, InConn DEF Newcomers, Alone
      <4> QED  BY <3>1, <4>1
    <3>3. CASE garbled
      BY <2>1, <3>3 DEF CrashNeedsBadInput
    <3>4. CASE logins[c] # 0
      <4>1. logins'[c] > 1
        BY <2>1, <2>2, <3>4
      <4> QED  BY <4>1 DEF CrashNeedsBadInput
    <3> QED  BY <3>2, <3>3, <3>4
  <2> QED  BY <2>4, <2>5
<1>2. ASSUME NEW d \in Device, Accept(d) PROVE CrashNeedsBadInput'
  BY <1>2 DEF Accept, CrashNeedsBadInput
<1>3. CASE AcceptFail \/ UNCHANGED vars
  BY <1>3 DEF AcceptFail, vars, CrashNeedsBadInput
<1>4. ASSUME NEW c \in Conn, ReadFail(c) \/ BadFrame(c) \/ RecvAck(c) \/ WriteDone(c) \/ WriteFail(c)
      PROVE  CrashNeedsBadInput'
  BY <1>4 DEF ReadFail, BadFrame, RecvAck, WriteDone, WriteFail, CrashNeedsBadInput
<1>5. ASSUME NEW x \in Conn, NEW what \in Texts \cup Files, HostSend(x, what)
      PROVE  CrashNeedsBadInput'
  BY <1>5 DEF HostSend, CrashNeedsBadInput
<1> QED  BY <1>1, <1>2, <1>3, <1>4, <1>5 DEF Next

-----------------------------------------------------------------------------
(* One entry of the registry per address and name. *)

LEMMA NextUnique == ASSUME Typed, Records, Newcomers, RegistryUnique, [Next]_vars
                    PROVE  RegistryUnique'
<1>1. ASSUME NEW c \in Conn, Login(c) PROVE RegistryUnique'
  <2> DEFINE k == m_client[c]
  <2>1. /\ c \in 1 .. opened /\ k \in 1 .. opened
        /\ logins' = [logins EXCEPT ![c] = @ + 1]
    BY <1>1, LoginCases
  <2>2. PICK n \in Names(device[c]), name \in Keys :
            \/ \E x \in ToSet(m_clients) : x \in 1 .. opened /\ key[x] = name /\ Rebind(k, x)
            \/ (\A x \in ToSet(m_clients) : key[x] # name) /\ Register(k, name)
    BY <1>1, LoginCases
  <2>3. logins \in [Conn -> Nat]
    BY DEF Typed
  <2> SUFFICES ASSUME \A y \in Conn : logins'[y] <= 1
               PROVE  \A i, j \in DOMAIN m_clients' :
                          i # j => key'[m_clients'[i]] # key'[m_clients'[j]]
    BY DEF RegistryUnique
  <2>4. logins[c] = 0 /\ \A y \in Conn : logins[y] <= 1
    <3>1. logins'[c] = logins[c] + 1 /\ \A y \in Conn \ {c} : logins'[y] = logins[y]
      BY <2>1, <2>3
    <3> QED  BY <2>3, <3>1
  <2>5. \A i, j \in DOMAIN m_clients : i # j => key[m_clients[i]] # key[m_clients[j]]
    BY <2>4 DEF RegistryUnique
  <2>6. k = c /\ c \notin ToSet(m_clients)
    BY <2>1, <2>4 DEF Newcomers, Alone
  <2>7. CASE \E x \in ToSet(m_clients) : x \in 1 .. opened /\ key[x] = name /\ Rebind(k, x)
    <3>1. UNCHANGED <<key, m_clients>>
      BY <2>7 DEF Rebind
    <3> QED  BY <2>5, <3>1
  <2>8. CASE (\A x \in ToSet(m_clients) : key[x] # name) /\ Register(k, name)
    <3> DEFINE len == Len(m_clients)
               q == Append(m_clients, c)
               S == 1 .. opened
    <3>1. m_clients' = q /\ key' = [key EXCEPT ![c] = name]
      BY <2>6, <2>8 DEF Register
    <3>2. m_clients \in Seq(S) /\ c \in S
      BY <2>1 DEF Typed
    <3> HIDE DEF S
    <3>3. /\ len \in Nat /\ DOMAIN m_clients = 1 .. len /\ DOMAIN q = 1 .. len + 1
          /\ \A i \in 1 .. len : q[i] = m_clients[i]
          /\ q[len + 1] = c
      BY <3>2, Appended
    <3>4. \A i \in 1 .. len : m_clients[i] \in ToSet(m_clients)
      BY <3>3 DEF ToSet
    <3>5. key'[c] = name /\ \A x \in Conn : x # c => key'[x] = key[x]
      BY <3>1 DEF Typed
    <3>6. ToSet(m_clients) \subseteq Conn
      BY <3>2, Members, InConn DEF S
    <3> HIDE DEF q, len
    <3>7. \A i \in 1 .. len : key'[q[i]] = key[m_clients[i]] /\ key[m_clients[i]] # name
      BY <2>6, <2>8, <3>3, <3>4, <3>5, <3>6
    <3>8. ASSUME NEW i \in 1 .. len + 1, NEW j \in 1 .. len + 1, i # j
          PROVE  key'[q[i]] # key'[q[j]]
      <4>1. (i \in 1 .. len \/ i = len + 1) /\ (j \in 1 .. len \/ j = len + 1)
        BY <3>3
      <4> QED  BY <2>5, <3>3, <3>5, <3>7, <3>8, <4>1
    <3> QED  BY <3>1, <3>3, <3>8
  <2> QED  BY <2>2, <2>7, <2>8
<1>2. ASSUME NEW d \in Device, Accept(d) PROVE RegistryUnique'
  BY <1>2 DEF Accept, RegistryUnique
<1>3. CASE AcceptFail \/ UNCHANGED vars
  BY <1>3 DEF AcceptFail, vars, RegistryUnique
<1>4. ASSUME NEW c \in Conn, ReadFail(c) \/ BadFrame(c) \/ RecvAck(c) \/ WriteDone(c) \/ WriteFail(c)
      PROVE  RegistryUnique'
  BY <1>4 DEF ReadFail, BadFrame, RecvAck, WriteDone, WriteFail, RegistryUnique
<1>5. ASSUME NEW x \in Conn, NEW what \in Texts \cup Files, HostSend(x, what)
      PROVE  RegistryUnique'
  BY <1>5 DEF HostSend, RegistryUnique
<1> QED  BY <1>1, <1>2, <1>3, <1>4, <1>5 DEF Next

-----------------------------------------------------------------------------
(* A client is on the session of its latest login. *)

OnLatest(x) ==
    \/ clients[x].session = latest[x]
    \/ clients[x].session = None /\ (latest[x] \in failed \/ x \in stale)

AllOnLatest == \A x \in ToSet(m_clients) : OnLatest(x)

LEMMA EachOnLatest == OnLatestSession <=> AllOnLatest
BY DEF OnLatestSession, AllOnLatest, OnLatest, ToSet

LEMMA NextLatest == ASSUME Typed, Records, OnLatestSession, [Next]_vars PROVE OnLatestSession'
<1>1. AllOnLatest /\ ToSet(m_clients) \subseteq 1 .. opened /\ 1 .. opened \subseteq Conn
  BY EachOnLatest, Members, InConn DEF Typed
<1>2. ASSUME NEW d \in Device, Accept(d) PROVE AllOnLatest'
  <2>1. UNCHANGED <<m_clients, latest, failed, stale>>
    BY <1>2 DEF Accept
  <2>2. ASSUME NEW y \in 1 .. opened PROVE clients'[y] = clients[y]
    BY <1>1, <1>2, <2>2 DEF Accept, Records, Typed
  <2> QED  BY <1>1, <2>1, <2>2 DEF AllOnLatest, OnLatest
<1>3. ASSUME NEW c \in Conn, Login(c) PROVE AllOnLatest'
  <2> DEFINE k == m_client[c]
  <2>1. c \in 1 .. opened /\ k \in 1 .. opened /\ UNCHANGED failed
    BY <1>3, LoginCases
  <2>2. PICK n \in Names(device[c]), name \in Keys :
            \/ \E x \in ToSet(m_clients) : x \in 1 .. opened /\ key[x] = name /\ Rebind(k, x)
            \/ (\A x \in ToSet(m_clients) : key[x] # name) /\ Register(k, name)
    BY <1>3, LoginCases
  <2>3. ASSUME NEW x \in 1 .. opened, Rebind(k, x), clients[k].session = None PROVE AllOnLatest'
    <3>1. UNCHANGED <<m_clients, clients, latest, stale>>
      BY <2>3 DEF Rebind
    <3> QED  BY <1>1, <2>1, <3>1 DEF AllOnLatest, OnLatest
  <2>4. ASSUME NEW x \in 1 .. opened, Rebind(k, x), clients[k].session # None PROVE AllOnLatest'
    <3>1. /\ clients'[x].session = clients[k].session /\ clients'[k].session = clients[k].session
          /\ \A y \in Conn \ {k, x} : clients'[y] = clients[y]
          /\ latest' = [latest EXCEPT ![x] = clients[k].session]
          /\ stale' = stale \ {x} /\ UNCHANGED m_clients
      BY <2>1, <2>4, RebindEffect
    <3>2. latest'[x] = clients[k].session /\ \A y \in Conn \ {x} : latest'[y] = latest[y]
      BY <1>1, <3>1 DEF Typed
    <3>3. ASSUME NEW y \in ToSet(m_clients) PROVE OnLatest(y)'
      <4>1. CASE y = x
        BY <3>1, <3>2, <4>1 DEF AllOnLatest, OnLatest
      <4>2. CASE y # x
        <5>1. clients'[y].session = clients[y].session /\ latest'[y] = latest[y]
          BY <1>1, <3>1, <3>2, <4>2
        <5> QED  BY <1>1, <2>1, <3>1, <4>2, <5>1 DEF AllOnLatest, OnLatest
      <4> QED  BY <4>1, <4>2
    <3> QED  BY <3>1, <3>3 DEF AllOnLatest
  <2>5. ASSUME Register(k, name) PROVE AllOnLatest'
    <3>1. /\ \A y \in Conn : clients'[y].session = clients[y].session
          /\ ToSet(m_clients') = ToSet(m_clients) \cup {k}
      BY <2>1, <2>5, RegisterEffect
    <3>2. /\ latest' = [latest EXCEPT ![k] = clients[k].session]
          /\ stale' = stale \ {k}
      BY <2>5 DEF Register
    <3>3. latest'[k] = clients[k].session /\ \A y \in Conn \ {k} : latest'[y] = latest[y]
      BY <1>1, <2>1, <3>2 DEF Typed
    <3>4. ASSUME NEW y \in ToSet(m_clients') PROVE OnLatest(y)'
      <4>1. CASE y = k
        BY <1>1, <2>1, <3>1, <3>3, <4>1 DEF AllOnLatest, OnLatest
      <4>2. CASE y # k
        BY <1>1, <2>1, <3>1, <3>2, <3>3, <4>2 DEF AllOnLatest, OnLatest
      <4> QED  BY <4>1, <4>2
    <3> QED  BY <3>4 DEF AllOnLatest
  <2> QED  BY <2>2, <2>3, <2>4, <2>5
<1>4. ASSUME NEW c \in Conn, Closing(c) PROVE AllOnLatest'
  <2> DEFINE x == m_client[c]
  <2>1. /\ c \in 1 .. opened /\ x \in 1 .. opened
        /\ clients'[x].session = None
        /\ \A y \in Conn \ {x} : clients'[y] = clients[y]
        /\ failed' = IF clients[x].session = c THEN failed \cup {c} ELSE failed
        /\ stale' = IF clients[x].session \notin {c, None} THEN stale \cup {x} ELSE stale
        /\ UNCHANGED <<m_clients, latest>>
    BY <1>4, ClosingEffect
  <2> HIDE DEF x
  <2>2. failed \subseteq failed' /\ stale \subseteq stale'
    BY <2>1
  <2>3. ASSUME NEW y \in ToSet(m_clients) PROVE OnLatest(y)'
    <3>1. CASE y # x
      <4>1. clients'[y] = clients[y]
        BY <1>1, <2>1, <3>1
      <4> QED  BY <1>1, <2>1, <2>2, <4>1 DEF AllOnLatest, OnLatest
    <3>2. CASE y = x
      BY <1>1, <2>1, <3>2 DEF AllOnLatest, OnLatest
    <3> QED  BY <3>1, <3>2
  <2> QED  BY <2>1, <2>3 DEF AllOnLatest
<1>5. ASSUME \A y \in Conn : clients'[y].session = clients[y].session,
             UNCHANGED <<m_clients, latest, failed, stale>>
      PROVE  AllOnLatest'
  BY <1>1, <1>5 DEF AllOnLatest, OnLatest
<1>6. ASSUME AcceptFail \/ UNCHANGED vars PROVE AllOnLatest'
  <2>1. UNCHANGED <<m_clients, latest, failed, stale>>
    BY <1>6 DEF AcceptFail, vars
  <2>2. \A y \in Conn : clients'[y].session = clients[y].session
    BY <1>6 DEF AcceptFail, vars
  <2> QED  BY <1>5, <2>1, <2>2
<1>7. ASSUME NEW c \in Conn, WriteFail(c), ~Close(c) PROVE AllOnLatest'
  BY <1>5, <1>7, WriteFailApart
<1>8. ASSUME NEW c \in Conn, RecvAck(c) \/ WriteDone(c) PROVE AllOnLatest'
  <2>1. UNCHANGED <<m_clients, latest, failed, stale>>
    BY <1>8 DEF RecvAck, WriteDone
  <2> QED  BY <1>5, <1>8, <2>1, AckEffect, WriteDoneEffect
<1>9. ASSUME NEW x \in Conn, NEW what \in Texts \cup Files, HostSend(x, what) PROVE AllOnLatest'
  <2>1. UNCHANGED <<m_clients, latest, failed, stale>>
    BY <1>9 DEF HostSend
  <2>2. \A y \in Conn : clients'[y].session = clients[y].session
    BY <1>9, HostSendEffect
  <2> QED  BY <1>5, <2>1, <2>2
<1>10. AllOnLatest'
  BY <1>2, <1>3, <1>4, <1>6, <1>7, <1>8, <1>9 DEF Next, Closing
<1> QED  BY <1>10 DEF OnLatestSession, AllOnLatest, OnLatest, ToSet

-----------------------------------------------------------------------------
(* What a client sends is for the device on its session. *)

(* One more frame for d on a session of d.                                 *)
LEMMA ForTheDevice ==
    ASSUME Typed, NEW from \in [Conn -> Seq(Frame)], NEW s \in 1 .. opened, NEW f \in Frame,
           \A y \in Conn : from[y] \in Seq(FrameFor(device[y])),
           f \in FrameFor(device[s]),
           writing' = [from EXCEPT ![s] = Append(@, f)]
    PROVE  \A y \in Conn : writing'[y] \in Seq(FrameFor(device[y]))
<1>1. s \in Conn
  BY InConn
<1>2. writing'[s] = Append(from[s], f) /\ \A y \in Conn \ {s} : writing'[y] = from[y]
  BY <1>1
<1>3. Append(from[s], f) \in Seq(FrameFor(device[s]))
  BY <1>1, AppendProperties
<1> QED  BY <1>1, <1>2, <1>3

LEMMA DoneForTheDevice ==
    ASSUME Typed, Records, OneDevice, NEW c \in Conn, writing[c] # <<>>
    PROVE  \A y \in Conn : Completed(c)[y] \in Seq(FrameFor(device[y]))
<1>1. Completed(c)[c] = Tail(writing[c]) /\ \A y \in Conn \ {c} : Completed(c)[y] = writing[y]
  BY OneDone
<1>2. Tail(writing[c]) \in Seq(FrameFor(device[c]))
  BY Tails DEF OneDevice
<1> QED  BY <1>1, <1>2 DEF OneDevice

LEMMA SendsForTheDevice ==
    ASSUME Typed, Records, OneDevice, NEW from \in [Conn -> Seq(Frame)], NEW x \in 1 .. opened,
           \A y \in Conn : from[y] \in Seq(FrameFor(device[y])), Sends(from, x)
    PROVE  \A y \in Conn : writing'[y] \in Seq(FrameFor(device[y]))
<1>1. CASE writing' = from
  BY <1>1
<1>2. ASSUME NEW f \in Frame, clients[x].session # None,
             writing' = [from EXCEPT ![clients[x].session] = Append(@, f)],
             \A d : Meant(clients[x], d) => f \in FrameFor(d)
      PROVE  \A y \in Conn : writing'[y] \in Seq(FrameFor(device[y]))
  <2>1. x \in Conn
    BY InConn
  <2>2. clients[x].session \in 1 .. opened
    BY <1>2, <2>1, GoodFields DEF Records
  <2>3. device[clients[x].session] = device[x] /\ Meant(clients[x], device[x])
    BY <1>2, <2>1 DEF OneDevice
  <2> QED  BY <1>2, <2>2, <2>3, ForTheDevice
<1> QED  BY <1>1, <1>2 DEF Sends

(* A step that leaves devices, keys and the m_client pointers alone.       *)
LEMMA StillOneDevice ==
    ASSUME Typed, OneDevice,
           \A y \in Conn : clients'[y].session \in {clients[y].session, None},
           UNCHANGED <<opened, device, m_client, key, m_clients>>,
           \A y \in Conn : Meant(clients'[y], device[y]),
           \A y \in Conn : writing'[y] \in Seq(FrameFor(device[y]))
    PROVE  OneDevice'
<1>1. 1 .. opened \subseteq Conn
  BY InConn
<1>2. \A x \in 1 .. opened : clients'[x].session # None => device[clients'[x].session] = device[x]
  BY <1>1 DEF OneDevice
<1> QED  BY <1>2 DEF OneDevice

LEMMA AcceptOneDevice ==
    ASSUME Typed, Records, OneDevice, NEW d \in Device, Accept(d)
    PROVE  OneDevice'
<1> PICK c \in Conn : c = opened + 1
  BY RoomLeft DEF Accept
<1>1. opened \in Nat /\ opened' = c /\ c \notin 1 .. opened /\ 1 .. opened' = (1 .. opened) \cup {c}
  BY DEF Accept, Typed
<1>2. /\ device' = [device EXCEPT ![c] = d]
      /\ clients' = [clients EXCEPT ![c].session = c]
      /\ m_client' = [m_client EXCEPT ![c] = c]
      /\ UNCHANGED <<key, m_clients, writing>>
  BY DEF Accept
<1>3. 1 .. opened \subseteq Conn /\ ToSet(m_clients) \subseteq 1 .. opened
  BY InConn, Members DEF Typed
<1>4. /\ device'[c] = d /\ m_client'[c] = c
      /\ \A y \in Conn \ {c} : device'[y] = device[y] /\ m_client'[y] = m_client[y]
      /\ \A y \in 1 .. opened : m_client[y] \in 1 .. opened
  BY <1>2, <1>3 DEF Typed
<1>5. clients[c] = NewClient /\ writing[c] = <<>> /\ clients \in [Conn -> Client(1 .. opened)]
  BY <1>1 DEF Records
<1>6. /\ clients'[c] = [session |-> c, id |-> 0, packets |-> <<>>, files |-> <<>>]
      /\ \A y \in Conn \ {c} : clients'[y] = clients[y]
  BY <1>2, <1>5 DEF NewClient
<1>7. \A x \in 1 .. opened' : device'[m_client'[x]] = device'[x]
  <2>1. device'[m_client'[c]] = device'[c]
    BY <1>4
  <2>2. ASSUME NEW x \in 1 .. opened
        PROVE  device'[m_client'[x]] = device'[x]
    <3>1. x \in Conn \ {c} /\ m_client[x] \in Conn \ {c}
      BY <1>1, <1>3, <1>4
    <3> QED  BY <1>4, <3>1 DEF OneDevice
  <2> QED  BY <1>1, <2>1, <2>2
<1>8. \A x \in 1 .. opened' : clients'[x].session # None => device'[clients'[x].session] = device'[x]
  <2>1. \A x \in 1 .. opened : clients[x].session \in (1 .. opened) \cup {None}
    BY <1>3, GoodFields DEF Records
  <2>2. clients'[c].session = c
    BY <1>6
  <2>3. ASSUME NEW x \in 1 .. opened, clients'[x].session # None
        PROVE  device'[clients'[x].session] = device'[x]
    <3>1. x \in Conn \ {c} /\ clients'[x] = clients[x]
      BY <1>1, <1>3, <1>6
    <3>2. clients[x].session \in Conn \ {c}
      BY <1>1, <1>3, <2>1, <2>3, <3>1
    <3>3. clients[x].session # None /\ device[clients[x].session] = device[x]
      BY <2>3, <3>1 DEF OneDevice
    <3> QED  BY <1>4, <3>1, <3>2, <3>3
  <2> QED  BY <1>1, <1>4, <2>2, <2>3
<1>9. \A x \in ToSet(m_clients') : key'[x] \in KeysOf(device'[x])
  BY <1>1, <1>2, <1>3, <1>4 DEF OneDevice
<1>10. \A x \in Conn : Meant(clients'[x], device'[x])
  <2>1. <<>> \in Seq(PacketFor(d)) /\ <<>> \in Seq(FileFor(d))
    BY EmptySet
  <2>2. Meant(clients'[c], d)
    BY <1>6, <2>1 DEF Meant
  <2> QED  BY <1>4, <1>6, <2>2 DEF OneDevice
<1>11. \A x \in Conn : writing'[x] \in Seq(FrameFor(device'[x]))
  <2>1. <<>> \in Seq(FrameFor(d))
    BY EmptySet
  <2> QED  BY <1>2, <1>4, <1>5, <2>1 DEF OneDevice
<1> QED  BY <1>7, <1>8, <1>9, <1>10, <1>11 DEF OneDevice

LEMMA LoginOneDevice ==
    ASSUME Distinct, Typed, Records, OneDevice, NEW c \in Conn, Login(c)
    PROVE  OneDevice'
<1> DEFINE k == m_client[c]
           o == device[k]
<1>1. c \in 1 .. opened /\ k \in 1 .. opened /\ UNCHANGED <<opened, device>>
  BY LoginCases
<1>2. PICK n \in Names(device[c]), name \in Keys :
          /\ name = Key(Ip[device[k]], n)
          /\ \/ \E x \in ToSet(m_clients) : x \in 1 .. opened /\ key[x] = name /\ Rebind(k, x)
             \/ (\A x \in ToSet(m_clients) : key[x] # name) /\ Register(k, name)
  BY LoginCases
<1>3. o \in Device /\ device[c] = o /\ 1 .. opened \subseteq Conn
  BY <1>1, InConn DEF Typed, OneDevice
<1>4. name \in KeysOf(o)
  BY <1>2, <1>3 DEF KeysOf
<1>5. \A y \in Conn : Meant(clients[y], device[y])
  BY DEF OneDevice
<1>6. ASSUME NEW x \in ToSet(m_clients), Rebind(k, x), clients[k].session = None
      PROVE  OneDevice'
  <2>1. UNCHANGED <<clients, m_client, writing, key, m_clients>>
    BY <1>6 DEF Rebind
  <2> QED  BY <1>1, <2>1 DEF OneDevice
<1>7. ASSUME NEW x \in ToSet(m_clients), x \in 1 .. opened, key[x] = name, Rebind(k, x),
             clients[k].session # None
      PROVE  OneDevice'
  <2> PICK s \in 1 .. opened : s = clients[k].session
    BY <1>1, <1>7, RebindEffect
  <2>1. /\ WellRecorded /\ NothingForeign
        /\ clients'[x].session = s /\ clients'[k].session = s
        /\ \A y \in Conn \ {k, x} : clients'[y] = clients[y]
        /\ \/ UNCHANGED writing
           \/ \E f \in Frame :
                 /\ writing' = [writing EXCEPT ![s] = Append(@, f)]
                 /\ \A d : Meant(clients[x], d) => f \in FrameFor(d)
        /\ m_client' = [m_client EXCEPT ![s] = x]
        /\ UNCHANGED <<key, m_clients>>
    BY <1>1, <1>7, RebindEffect, SMTT(30)
  <2>2. device[x] \in Device /\ name \in KeysOf(device[x])
    BY <1>7 DEF Typed, OneDevice
  <2>3. device[x] = o
    BY <1>3, <1>4, <2>2 DEF Distinct
  <2>4. device[s] = o
    BY <1>1, <1>7 DEF OneDevice
  <2>5. \A y \in 1 .. opened : device[m_client'[y]] = device[y]
    <3>1. m_client'[s] = x /\ \A y \in Conn \ {s} : m_client'[y] = m_client[y]
      BY <1>3, <2>1 DEF Typed
    <3> QED  BY <1>3, <2>3, <2>4, <3>1 DEF OneDevice
  <2>6. \A y \in 1 .. opened : clients'[y].session # None => device[clients'[y].session] = device[y]
    BY <1>3, <2>1, <2>3, <2>4 DEF OneDevice
  <2>7. \A y \in Conn : Meant(clients'[y], device[y])
    BY <1>5, <2>1 DEF NothingForeign
  <2>8. \A y \in Conn : writing'[y] \in Seq(FrameFor(device[y]))
    <3>1. CASE UNCHANGED writing
      BY <3>1 DEF OneDevice
    <3>2. ASSUME NEW f \in Frame, writing' = [writing EXCEPT ![s] = Append(@, f)],
                 \A d : Meant(clients[x], d) => f \in FrameFor(d)
          PROVE  \A y \in Conn : writing'[y] \in Seq(FrameFor(device[y]))
      <4>1. f \in FrameFor(device[s])
        BY <1>3, <1>5, <1>7, <2>3, <2>4, <3>2
      <4>2. writing \in [Conn -> Seq(Frame)] /\ \A y \in Conn : writing[y] \in Seq(FrameFor(device[y]))
        BY DEF Typed, OneDevice
      <4> QED  BY <3>2, <4>1, <4>2, ForTheDevice
    <3> QED  BY <2>1, <3>1, <3>2
  <2> QED  BY <1>1, <2>1, <2>5, <2>6, <2>7, <2>8 DEF OneDevice
<1>8. ASSUME Register(k, name) PROVE OneDevice'
  <2>1. /\ NothingForeign
        /\ \A y \in Conn : clients'[y].session = clients[y].session
        /\ ToSet(m_clients') = ToSet(m_clients) \cup {k}
    BY <1>1, <1>8, RegisterEffect
  <2>2. key' = [key EXCEPT ![k] = name] /\ UNCHANGED <<m_client, writing>>
    BY <1>8 DEF Register
  <2>3. key'[k] = name /\ \A y \in Conn \ {k} : key'[y] = key[y]
    BY <1>1, <1>3, <2>2 DEF Typed
  <2>4. ToSet(m_clients) \subseteq Conn
    BY <1>3, Members DEF Typed
  <2>5. \A x \in ToSet(m_clients') : key'[x] \in KeysOf(device[x])
    BY <1>4, <2>1, <2>3, <2>4 DEF OneDevice
  <2>6. \A x \in 1 .. opened : clients'[x].session # None => device[clients'[x].session] = device[x]
    BY <1>3, <2>1 DEF OneDevice
  <2>7. \A y \in Conn : Meant(clients'[y], device[y])
    BY <1>5, <2>1 DEF NothingForeign
  <2> QED  BY <1>1, <2>2, <2>5, <2>6, <2>7 DEF OneDevice
<1> QED  BY <1>2, <1>6, <1>7, <1>8

LEMMA NextOneDevice ==
    ASSUME Distinct, Typed, Records, OneDevice, [Next]_vars
    PROVE  OneDevice'
<1>1. CASE AcceptFail \/ UNCHANGED vars
  BY <1>1 DEF AcceptFail, vars, OneDevice
<1>2. ASSUME NEW c \in Conn, Closing(c) PROVE OneDevice'
  <2> DEFINE x == m_client[c]
  <2>1. /\ x \in 1 .. opened /\ NothingForeign
        /\ clients'[x].session = None
        /\ \A y \in Conn \ {x} : clients'[y] = clients[y]
        /\ UNCHANGED writing \/ (writing[c] # <<>> /\ writing' = Completed(c))
        /\ UNCHANGED <<opened, device, m_client, key, m_clients>>
    BY <1>2, ClosingEffect
  <2>2. \A y \in Conn : writing'[y] \in Seq(FrameFor(device[y]))
    BY <2>1, DoneForTheDevice DEF OneDevice
  <2>3. \A y \in Conn : Meant(clients'[y], device[y])
    BY <2>1 DEF NothingForeign, OneDevice
  <2>4. \A y \in Conn : clients'[y].session \in {clients[y].session, None}
    BY <2>1
  <2> QED  BY <2>1, <2>2, <2>3, <2>4, StillOneDevice
<1>3. ASSUME NEW c \in Conn, WriteFail(c), ~Close(c) PROVE OneDevice'
  <2>1. /\ writing' = Completed(c) /\ writing[c] # <<>>
        /\ UNCHANGED <<opened, device, m_client, clients, key, m_clients>>
    BY <1>3, WriteFailApart
  <2> QED  BY <2>1, DoneForTheDevice DEF OneDevice
<1>4. ASSUME NEW c \in Conn, RecvAck(c) PROVE OneDevice'
  <2>1. NothingForeign /\ \A y \in Conn : clients'[y].session = clients[y].session
    BY <1>4, AckEffect
  <2>2. UNCHANGED <<opened, device, m_client, key, m_clients, writing>>
    BY <1>4 DEF RecvAck
  <2>3. \A y \in Conn : Meant(clients'[y], device[y]) /\ writing'[y] \in Seq(FrameFor(device[y]))
    BY <2>1, <2>2 DEF NothingForeign, OneDevice
  <2> QED  BY <2>1, <2>2, <2>3, StillOneDevice
<1>5. ASSUME NEW c \in Conn, WriteDone(c) PROVE OneDevice'
  <2>1. /\ m_client[c] \in 1 .. opened /\ NothingForeign
        /\ \A y \in Conn : clients'[y].session = clients[y].session
        /\ Sends(Completed(c), m_client[c])
    BY <1>5, WriteDoneEffect
  <2>2. writing[c] # <<>> /\ UNCHANGED <<opened, device, m_client, key, m_clients>>
    BY <1>5 DEF WriteDone
  <2>3. /\ Completed(c) \in [Conn -> Seq(Frame)]
        /\ \A y \in Conn : Completed(c)[y] \in Seq(FrameFor(device[y]))
    BY <2>2, OneDone, DoneForTheDevice
  <2>4. \A y \in Conn : writing'[y] \in Seq(FrameFor(device[y]))
    BY <2>1, <2>3, SendsForTheDevice
  <2>5. \A y \in Conn : Meant(clients'[y], device[y])
    BY <2>1 DEF NothingForeign, OneDevice
  <2> QED  BY <2>1, <2>2, <2>4, <2>5, StillOneDevice
<1>6. ASSUME NEW x \in Conn, NEW what \in Texts \cup Files, HostSend(x, what) PROVE OneDevice'
  <2>1. /\ x \in 1 .. opened /\ x \in ToSet(m_clients)
        /\ clients'[x].session = clients[x].session
        /\ \A y \in Conn \ {x} : clients'[y] = clients[y]
        /\ Meant(clients[x], Dest[what]) => Meant(clients'[x], Dest[what])
        /\ \/ UNCHANGED writing
           \/ \E f \in Frame :
                 /\ clients[x].session # None
                 /\ writing' = [writing EXCEPT ![clients[x].session] = Append(@, f)]
                 /\ Meant(clients[x], Dest[what]) => f \in FrameFor(Dest[what])
    BY <1>6, HostSendEffect
  <2>2. /\ key[x] = Key(Ip[Dest[what]], Name[Dest[what]])
        /\ UNCHANGED <<opened, device, m_client, key, m_clients>>
    BY <1>6 DEF HostSend
  <2>3. Dest[what] \in Device /\ device[x] \in Device
    BY <2>1, SlideServerAssumption DEF Typed
  <2>4. key[x] \in KeysOf(Dest[what]) /\ key[x] \in KeysOf(device[x])
    BY <2>1, <2>2 DEF KeysOf, Names, OneDevice
  <2>5. device[x] = Dest[what]
    BY <2>3, <2>4 DEF Distinct
  <2>6. \A y \in Conn : Meant(clients'[y], device[y])
    BY <2>1, <2>5 DEF OneDevice
  <2>7. \A y \in Conn : writing'[y] \in Seq(FrameFor(device[y]))
    <3>1. CASE UNCHANGED writing
      BY <3>1 DEF OneDevice
    <3>2. ASSUME NEW f \in Frame, clients[x].session # None,
                 writing' = [writing EXCEPT ![clients[x].session] = Append(@, f)],
                 Meant(clients[x], Dest[what]) => f \in FrameFor(Dest[what])
          PROVE  \A y \in Conn : writing'[y] \in Seq(FrameFor(device[y]))
      <4>1. clients[x].session \in 1 .. opened
        BY <3>2, GoodFields DEF Records
      <4>2. f \in FrameFor(device[clients[x].session])
        BY <2>1, <2>5, <3>2 DEF OneDevice
      <4>3. writing \in [Conn -> Seq(Frame)] /\ \A y \in Conn : writing[y] \in Seq(FrameFor(device[y]))
        BY DEF Typed, OneDevice
      <4> QED  BY <3>2, <4>1, <4>2, <4>3, ForTheDevice
    <3> QED  BY <2>1, <3>1, <3>2
  <2> QED  BY <2>1, <2>2, <2>6, <2>7, StillOneDevice
<1> QED  BY <1>1, <1>2, <1>3, <1>4, <1>5, <1>6, AcceptOneDevice, LoginOneDevice
        DEF Next, Closing

-----------------------------------------------------------------------------
IInv ==
    /\ Typed /\ Records /\ Kept /\ Newcomers
    /\ CrashNeedsBadInput /\ RegistryUnique /\ OnLatestSession

LEMMA InitIInv == Init => IInv /\ OneDevice
<1> SUFFICES ASSUME Init PROVE IInv /\ OneDevice
  OBVIOUS
<1> USE DEF Init
<1>1. NConn \in Nat \ {0} /\ 1 .. 0 = {} /\ 0 \in 0 .. MaxId
  BY SlideServerAssumption, SlideClientAssumption
<1>2. \A S : <<>> \in Seq(S) /\ ToSet(<<>>) = {} /\ DOMAIN <<>> = {}
  BY EmptySet, EmptySeq
<1>3. Typed
  <2>1. m_clients \in Seq(1 .. opened) /\ 1 .. opened = {} /\ opened \in 0 .. NConn
    BY <1>1, <1>2
  <2>2. /\ writing \in [Conn -> Seq(Frame)] /\ owed \in [Conn -> Seq(0 .. MaxId)]
        /\ logins \in [Conn -> Nat]
    BY <1>2
  <2>3. IsFiniteSet(asked)
    BY FS_EmptySet
  <2>4. /\ device \in [Conn -> Device \cup {None}]
        /\ m_client \in [Conn -> (1 .. opened) \cup {None}]
        /\ key \in [Conn -> Keys \cup {None}]
        /\ latest \in [Conn -> (1 .. opened) \cup {None}]
    OBVIOUS
  <2>5. /\ reading \subseteq 1 .. opened /\ m_sessions \subseteq 1 .. opened
        /\ asked \subseteq Texts \cup Files
        /\ accepting \in BOOLEAN /\ crashed \in BOOLEAN /\ garbled \in BOOLEAN
    OBVIOUS
  <2>6. \A c \in 1 .. opened : device[c] \in Device /\ m_client[c] # None
    BY <2>1
  <2> QED  BY ONLY <2>1, <2>2, <2>3, <2>4, <2>5, <2>6 DEF Typed
<1>4. Good({}, NewClient)
  BY <1>1, <1>2 DEF Good, Client, NewClient, Ordered, FilesInside
<1>5. Records
  BY <1>1, <1>4 DEF Records, Good
<1>6. Kept /\ Newcomers /\ CrashNeedsBadInput
  BY <1>1 DEF Kept, Newcomers, CrashNeedsBadInput
<1>7. RegistryUnique /\ OnLatestSession
  BY <1>2 DEF RegistryUnique, OnLatestSession
<1>8. OneDevice
  <2>1. \A x \in Conn : Meant(clients[x], device[x])
    BY <1>2 DEF Meant, NewClient
  <2> QED  BY <1>1, <1>2, <2>1 DEF OneDevice
<1> QED  BY <1>3, <1>5, <1>6, <1>7, <1>8 DEF IInv

LEMMA NextIInv == IInv /\ [Next]_vars => IInv'
BY NextTyped, NextKept, NextNewcomers, NextCrash, NextUnique, NextLatest DEF IInv

(* The types of the whole state, as the run checks them on a small         *)
(* instance.                                                               *)
THEOREM TypeCorrect == Spec => []TypeOK
<1>1. IInv => TypeOK
  <2> SUFFICES ASSUME IInv PROVE TypeOK
    OBVIOUS
  <2>1. 1 .. opened \subseteq Conn
    BY InConn DEF IInv
  <2>2. clients \in [Conn -> Client(Conn)]
    BY <2>1 DEF IInv, Records, Client
  <2> QED  BY <2>1, <2>2 DEF IInv, Typed, TypeOK
<1> QED  BY <1>1, InitIInv, NextIInv, PTL DEF Spec

(* However connections are accepted, dropped and logged in, no client is   *)
(* ever released while a session points to it.                             *)
THEOREM ClientsKept == Spec => []EveryClientKept
<1>1. IInv => EveryClientKept
  BY InConn DEF IInv, Typed, Kept, EveryClientKept
<1> QED  BY <1>1, InitIInv, NextIInv, PTL DEF Spec

(* For any number of devices that drop and come back, each has one entry   *)
(* of the registry, as long as no connection logs in twice.                *)
THEOREM OneEntryEach == Spec => []RegistryUnique
<1>1. IInv => RegistryUnique
  BY DEF IInv
<1> QED  BY <1>1, InitIInv, NextIInv, PTL DEF Spec

(* A registered client is on the session of its latest login, unless that  *)
(* session failed or an older session ended after it.                      *)
THEOREM LatestSession == Spec => []OnLatestSession
<1>1. IInv => OnLatestSession
  BY DEF IInv
<1> QED  BY <1>1, InitIInv, NextIInv, PTL DEF Spec

(* No order of accepts, logins, failures and completions makes the server  *)
(* dereference a null session while frames are whole and logins are not    *)
(* repeated.                                                               *)
THEOREM CrashIsBadInput == Spec => []CrashNeedsBadInput
<1>1. IInv => CrashNeedsBadInput
  BY DEF IInv
<1> QED  BY <1>1, InitIInv, NextIInv, PTL DEF Spec

(* If addresses and names tell the devices apart, what the host means for  *)
(* one of them never goes out on a connection of another.                  *)
THEOREM RightDevice == Distinct => (Spec => []ReachesItsDevice)
<1> SUFFICES ASSUME Distinct PROVE Spec => []ReachesItsDevice
  OBVIOUS
<1>1. IInv /\ OneDevice => ReachesItsDevice
  <2> SUFFICES ASSUME OneDevice, NEW c \in Conn, NEW i \in DOMAIN writing[c],
                      writing[c][i].body.of # None
               PROVE  device[c] = Dest[writing[c][i].body.of]
    BY DEF ReachesItsDevice
  <2>1. writing[c] \in Seq(FrameFor(device[c]))
    BY DEF OneDevice
  <2>2. writing[c][i] \in FrameFor(device[c])
    BY <2>1, ElementOfSeq
  <2> QED  BY <2>2 DEF FrameFor, For
<1>2. IInv /\ OneDevice /\ [Next]_vars => (IInv /\ OneDevice)'
  BY NextIInv, NextOneDevice DEF IInv
<1> QED  BY <1>1, <1>2, InitIInv, PTL DEF Spec

(* A device that comes back gets what waits for it: the login puts the     *)
(* first packet that was not sent in flight on the new session.            *)
THEOREM ReloginPutsInFlight == Spec => ReloginResumes
<1> DEFINE A == \A i \in DOMAIN m_clients :
                   LET x == m_clients[i]
                       s == clients'[x].session
                   IN  /\ s \notin {clients[x].session, None}
                       /\ Unsent(clients[x].packets) # {}
                       => Len(writing'[s]) > Len(writing[s])
<1>1. IInv /\ [Next]_vars => [A]_vars
  <2> SUFFICES ASSUME Typed, Records, [Next]_vars, NEW x \in ToSet(m_clients),
                      clients'[x].session \notin {clients[x].session, None},
                      Unsent(clients[x].packets) # {}
               PROVE  Len(writing'[clients'[x].session]) > Len(writing[clients'[x].session])
    BY Members DEF IInv, Typed
  <2>1. x \in 1 .. opened /\ x \in Conn
    BY Members, InConn DEF Typed
  <2>2. ASSUME NEW c \in Conn, Login(c)
        PROVE  Len(writing'[clients'[x].session]) > Len(writing[clients'[x].session])
    <3> DEFINE k == m_client[c]
    <3>1. k \in 1 .. opened
      BY <2>2, LoginCases
    <3>2. PICK name : \/ \E e \in ToSet(m_clients) : e \in 1 .. opened /\ Rebind(k, e)
                      \/ Register(k, name)
      BY <2>2, LoginCases
    <3>3. ~Register(k, name)
      BY <2>1, <3>1, RegisterEffect
    <3>4. PICK e \in 1 .. opened : Rebind(k, e)
      BY <3>2, <3>3
    <3>5. clients[k].session # None
      BY <3>4 DEF Rebind
    <3> DEFINE s == clients[k].session
    <3>6. /\ s \in 1 .. opened
          /\ clients'[e].session = s /\ clients'[k].session = s
          /\ \A y \in Conn \ {k, e} : clients'[y] = clients[y]
          /\ UNCHANGED writing \/ \E f \in Frame : writing' = [writing EXCEPT ![s] = Append(@, f)]
      BY <3>1, <3>4, <3>5, RebindEffect, SMTT(30)
    <3>7. (k = e \/ Unsent(clients[e].packets) = {})
            \/ \E f \in Frame : writing' = [writing EXCEPT ![s] = Append(@, f)]
      <4>1. \/ UNCHANGED writing /\ (k = e \/ Unsent(clients[e].packets) = {})
            \/ \E f \in Frame :
                  /\ writing' = [writing EXCEPT ![s] = Append(@, f)]
                  /\ \A d : Meant(clients[e], d) => f \in FrameFor(d)
        BY <3>1, <3>4, <3>5, RebindEffect
      <4> QED  BY <4>1
    <3>8. x = e /\ x # k
      BY <2>1, <3>6
    <3> HIDE DEF s
    <3>9. PICK f \in Frame : writing' = [writing EXCEPT ![s] = Append(@, f)]
      BY <3>7, <3>8
    <3>10. writing \in [Conn -> Seq(Frame)] /\ s \in Conn
      BY <3>6, InConn DEF Typed
    <3>11. writing'[s] = Append(writing[s], f) /\ writing[s] \in Seq(Frame)
      BY <3>9, <3>10
    <3>12. Len(writing'[s]) = Len(writing[s]) + 1 /\ Len(writing[s]) \in Nat
      BY <3>11, Appended
    <3> QED  BY <3>6, <3>8, <3>12
  <2>3. ASSUME NEW d \in Device, Accept(d) PROVE clients'[x].session = clients[x].session
    BY <2>1, <2>3 DEF Accept, Records, Typed
  <2>4. ASSUME NEW c \in Conn, Closing(c) PROVE clients'[x].session \in {clients[x].session, None}
    BY <2>1, <2>4, ClosingEffect
  <2>5. ASSUME NEW c \in Conn, WriteFail(c), ~Close(c) PROVE clients'[x].session = clients[x].session
    BY <2>5, WriteFailApart
  <2>6. ASSUME NEW c \in Conn, RecvAck(c) \/ WriteDone(c) PROVE clients'[x].session = clients[x].session
    BY <2>1, <2>6, AckEffect, WriteDoneEffect
  <2>7. ASSUME NEW y \in Conn, NEW what \in Texts \cup Files, HostSend(y, what)
        PROVE  clients'[x].session = clients[x].session
    BY <2>1, <2>7, HostSendEffect
  <2>8. CASE AcceptFail \/ UNCHANGED vars
    BY <2>8 DEF AcceptFail, vars
  <2> QED  BY <2>2, <2>3, <2>4, <2>5, <2>6, <2>7, <2>8 DEF Next, Closing
<1> QED  BY <1>1, InitIInv, NextIInv, PTL DEF Spec, ReloginResumes
=============================================================================
