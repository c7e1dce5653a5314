------------------------- MODULE SlideClientProofs --------------------------
(***************************************************************************)
(* What the operators of SlideClient preserve, whatever the packets and    *)
(* files of a client are: its type, and that the packets that were sent    *)
(* come first in its list.                                                 *)
(***************************************************************************)
EXTENDS SlideClient, SequenceTheorems, WellFoundedInduction, TLAPS

(* The packets that were sent come first. *)
Ordered(packets) ==
    \A i, j \in DOMAIN packets :
        i < j /\ Sent(packets[j]) => Sent(packets[i])

(* A file is never read past its end. *)
FilesInside(files) == \A i \in DOMAIN files : files[i].pos <= FileSize[files[i].file]

Good(Sessions, c) ==
    c \in Client(Sessions) /\ Ordered(c.packets) /\ FilesInside(c.files)

-----------------------------------------------------------------------------
LEMMA FirstExists ==
    ASSUME NEW S \in SUBSET Nat, S # {}
    PROVE  FirstOf(S) \in S /\ \A j \in S : FirstOf(S) <= j
<1>1. \E i \in S : \A j \in S : <<j, i>> \notin OpToRel(<, Nat)
  BY NatLessThanWellFounded, WFMin
<1>2. PICK i \in S : \A j \in S : <<j, i>> \notin OpToRel(<, Nat)
  BY <1>1
<1>3. \A j \in S : i <= j
  <2>1. TAKE j \in S
  <2>2. ~(j < i)
    BY <1>2 DEF OpToRel
  <2> QED  BY <2>2
<1> QED  BY <1>3 DEF FirstOf

LEMMA NextIdType ==
    ASSUME NEW id \in 0 .. MaxId
    PROVE  NextId(id) \in 0 .. MaxId
BY SlideClientAssumption DEF NextId

(* A piece read from a file is a body, and the file stays inside itself. *)
LEMMA ChunkType ==
    ASSUME NEW f \in File, f.pos <= FileSize[f.file]
    PROVE  /\ ChunkOf(f) \in Body
           /\ Advanced(f) \in File
           /\ Advanced(f).pos <= FileSize[Advanced(f).file]
<1> DEFINE left == FileSize[f.file] - f.pos
<1>1. f.file \in Files /\ f.pos \in Nat /\ FileSize[f.file] \in Nat
  BY SlideClientAssumption DEF File
<1>2. left \in Nat /\ Chunk \in Nat
  BY <1>1, SlideClientAssumption
<1>3. ChunkOf(f) = [of |-> f.file, off |-> f.pos,
                    len |-> IF left < Chunk THEN left ELSE Chunk]
  BY DEF ChunkOf
<1>4. ChunkOf(f).len \in Nat /\ f.pos + ChunkOf(f).len <= FileSize[f.file]
  BY <1>1, <1>2, <1>3
<1>5. ChunkOf(f) \in Body
  BY <1>1, <1>2, <1>3 DEF Body
<1>6. Advanced(f) = [file |-> f.file, pos |-> f.pos + ChunkOf(f).len]
  BY DEF Advanced, File
<1> QED  BY <1>1, <1>4, <1>5, <1>6 DEF File

LEMMA BuffType ==
    ASSUME NEW p \in Packet
    PROVE  Buff(p) \in Packet /\ Buff(p).frame \in Frame /\ Sent(Buff(p))
<1>1. p.id \in 0 .. MaxId /\ p.body \in Body /\ p.frame \in Frame \cup {None}
  BY DEF Packet
<1>2. CASE Sent(p)
  BY <1>1, <1>2 DEF Buff, Sent
<1>3. CASE ~Sent(p)
  <2>1. Buff(p) = [id |-> p.id, body |-> p.body, frame |-> [id |-> p.id, body |-> p.body]]
    BY <1>3 DEF Buff, Packet
  <2>2. [id |-> p.id, body |-> p.body] \in Frame
    BY <1>1 DEF Frame
  <2> QED  BY <1>1, <2>1, <2>2, NoneAssumption DEF Packet, Sent
<1> QED  BY <1>2, <1>3

(* Sending a packet before which every one was sent. *)
LEMMA BuffAtKeeps ==
    ASSUME NEW packets \in Seq(Packet), Ordered(packets),
           NEW i \in 1 .. Len(packets),
           \A j \in 1 .. i - 1 : Sent(packets[j])
    PROVE  /\ BuffAt(packets, i) \in Seq(Packet)
           /\ Ordered(BuffAt(packets, i))
           /\ BuffAt(packets, i)[i].frame \in Frame
<1> DEFINE q == BuffAt(packets, i)
<1>1. packets[i] \in Packet
  BY ElementOfSeq
<1>2. Buff(packets[i]) \in Packet /\ Buff(packets[i]).frame \in Frame /\ Sent(Buff(packets[i]))
  BY <1>1, BuffType
<1>3. /\ q \in Seq(Packet)
      /\ Len(q) = Len(packets)
      /\ \A j \in 1 .. Len(packets) : q[j] = IF j = i THEN Buff(packets[i]) ELSE packets[j]
  BY <1>2, ExceptSeq DEF BuffAt
<1>4. DOMAIN q = 1 .. Len(packets) /\ DOMAIN packets = 1 .. Len(packets) /\ Len(packets) \in Nat
  BY <1>3, LenProperties
<1> HIDE DEF q
<1>5. ASSUME NEW a \in 1 .. Len(packets), NEW b \in 1 .. Len(packets), a < b, Sent(q[b])
      PROVE  Sent(q[a])
  <2>1. CASE a = i
    BY <1>2, <1>3, <2>1
  <2>2. CASE a # i /\ b = i
    BY <1>3, <1>4, <1>5, <2>2
  <2>3. CASE a # i /\ b # i
    BY <1>3, <1>4, <1>5, <2>3 DEF Ordered
  <2> QED  BY <2>1, <2>2, <2>3
<1>6. Ordered(q)
  BY <1>4, <1>5 DEF Ordered
<1>7. q[i].frame \in Frame
  BY <1>2, <1>3
<1> QED  BY <1>3, <1>6, <1>7 DEF q

(* A new packet goes behind all others, and was not sent. *)
LEMMA AppendKeeps ==
    ASSUME NEW packets \in Seq(Packet), Ordered(packets),
           NEW id \in 0 .. MaxId, NEW body \in Body
    PROVE  /\ Append(packets, NewPacket(id, body)) \in Seq(Packet)
           /\ Ordered(Append(packets, NewPacket(id, body)))
           /\ Len(Append(packets, NewPacket(id, body))) = Len(packets) + 1
<1> DEFINE p == NewPacket(id, body)
           q == Append(packets, p)
<1>1. p \in Packet /\ ~Sent(p)
  BY DEF NewPacket, Packet, Sent
<1> HIDE DEF p
<1>2. /\ q \in Seq(Packet)
      /\ Len(q) = Len(packets) + 1
      /\ \A j \in 1 .. Len(packets) : q[j] = packets[j]
      /\ q[Len(packets) + 1] = p
  BY <1>1
<1>3. /\ DOMAIN q = 1 .. Len(packets) + 1
      /\ DOMAIN packets = 1 .. Len(packets)
      /\ Len(packets) \in Nat
  BY <1>2, LenProperties
<1> HIDE DEF q
<1>4. Ordered(q)
  <2>1. ASSUME NEW a \in DOMAIN q, NEW b \in DOMAIN q, a < b, Sent(q[b])
        PROVE  Sent(q[a])
    <3>1. b # Len(packets) + 1
      BY <1>1, <1>2, <2>1
    <3>2. a \in 1 .. Len(packets) /\ b \in 1 .. Len(packets)
      BY <1>3, <2>1, <3>1
    <3> QED  BY <1>2, <1>3, <2>1, <3>2 DEF Ordered
  <2> QED  BY <2>1 DEF Ordered
<1> QED  BY <1>2, <1>4 DEF q, p

LEMMA ResetKeeps ==
    ASSUME NEW packets \in Seq(Packet)
    PROVE  ResetAll(packets) \in Seq(Packet) /\ Ordered(ResetAll(packets))
<1> DEFINE q == ResetAll(packets)
<1>1. Len(packets) \in Nat /\ DOMAIN packets = 1 .. Len(packets)
  BY LenProperties
<1>2. \A j \in 1 .. Len(packets) : packets[j] \in Packet
  BY ElementOfSeq
<1>3. \A j \in 1 .. Len(packets) :
          q[j] = [packets[j] EXCEPT !.frame = None]
  BY <1>1 DEF ResetAll
<1>4. \A j \in 1 .. Len(packets) : q[j] \in Packet /\ ~Sent(q[j])
  BY <1>2, <1>3 DEF Packet, Sent
<1>5. DOMAIN q = 1 .. Len(packets)
  BY <1>1 DEF ResetAll
<1>6. q = [j \in 1 .. Len(packets) |-> q[j]]
  BY <1>1 DEF ResetAll
<1> HIDE DEF q
<1>7. q \in [1 .. Len(packets) -> Packet]
  BY <1>4, <1>6
<1>8. q \in Seq(Packet)
  BY <1>1, <1>7
<1> QED  BY <1>4, <1>5, <1>8 DEF Ordered, q

(* erase(): what is behind the removed element moves up. *)
LEMMA RemovedAt ==
    ASSUME NEW S, NEW s \in Seq(S), NEW i \in 1 .. Len(s)
    PROVE  /\ RemoveAt(s, i) \in Seq(S)
           /\ Len(RemoveAt(s, i)) = Len(s) - 1
           /\ \A j \in 1 .. Len(s) - 1 :
                  RemoveAt(s, i)[j] = IF j < i THEN s[j] ELSE s[j + 1]
<1> DEFINE n == Len(s)
           before == SubSeq(s, 1, i - 1)
           after  == SubSeq(s, i + 1, n)
           q == RemoveAt(s, i)
<1>1. n \in Nat /\ \A j \in 1 .. n : s[j] \in S
  BY LenProperties, ElementOfSeq
<1> HIDE DEF n
<1>2. i \in 1 .. n
  BY DEF n
<1>3. /\ before \in Seq(S) /\ Len(before) = i - 1
      /\ \A j \in 1 .. i - 1 : before[j] = s[j]
  <2>1. 1 \in Int /\ i - 1 \in Int /\ \A j \in 1 .. i - 1 : s[j] \in S
    BY <1>1, <1>2
  <2>2. /\ before \in Seq(S) /\ Len(before) = IF 1 <= i - 1 THEN i - 1 - 1 + 1 ELSE 0
        /\ \A j \in 1 .. i - 1 - 1 + 1 : before[j] = s[1 + j - 1]
    BY <2>1, SubSeqProperties
  <2> HIDE DEF before
  <2> QED  BY <1>1, <1>2, <2>2
<1>4. /\ after \in Seq(S) /\ Len(after) = n - i
      /\ \A j \in 1 .. n - i : after[j] = s[i + j]
  <2>1. i + 1 \in Int /\ n \in Int /\ \A j \in i + 1 .. n : s[j] \in S
    BY <1>1, <1>2
  <2>2. /\ after \in Seq(S)
        /\ Len(after) = IF i + 1 <= n THEN n - (i + 1) + 1 ELSE 0
        /\ \A j \in 1 .. n - (i + 1) + 1 : after[j] = s[i + 1 + j - 1]
    BY <2>1, SubSeqProperties
  <2> HIDE DEF after
  <2> QED  BY <1>1, <1>2, <2>2
<1>5. q = before \o after
  BY DEF RemoveAt, n
<1> HIDE DEF before, after, q
<1>6. /\ q \in Seq(S) /\ Len(q) = (i - 1) + (n - i)
      /\ \A j \in 1 .. (i - 1) + (n - i) :
             q[j] = IF j <= i - 1 THEN before[j] ELSE after[j - (i - 1)]
  BY <1>3, <1>4, <1>5, ConcatProperties
<1>7. ASSUME NEW j \in 1 .. n - 1
      PROVE  q[j] = IF j < i THEN s[j] ELSE s[j + 1]
  <2>1. CASE j < i
    BY <1>1, <1>2, <1>3, <1>6, <2>1
  <2>2. CASE ~(j < i)
    <3>1. q[j] = after[j - (i - 1)] /\ j - (i - 1) \in 1 .. n - i
      BY <1>1, <1>2, <1>6, <2>2
    <3>2. i + (j - (i - 1)) = j + 1
      BY <1>1, <1>2
    <3> QED  BY <1>4, <2>2, <3>1, <3>2
  <2> QED  BY <2>1, <2>2
<1>8. q \in Seq(S) /\ Len(q) = n - 1
  BY <1>1, <1>2, <1>6
<1> QED  BY <1>7, <1>8 DEF q, n

(* What an acknowledgement removes is the first packet with its identifier. *)
LEMMA AcknowledgedOne ==
    ASSUME NEW packets \in Seq(Packet), NEW id
    PROVE  \/ Matching(packets, id) = {} /\ Acknowledged(packets, id) = packets
           \/ \E i \in 1 .. Len(packets) :
                 /\ i \in Matching(packets, id)
                 /\ \A j \in Matching(packets, id) : i <= j
                 /\ Acknowledged(packets, id) = RemoveAt(packets, i)
<1> DEFINE i == FirstOf(Matching(packets, id))
<1>1. Len(packets) \in Nat /\ DOMAIN packets = 1 .. Len(packets)
  BY LenProperties
<1>2. CASE Matching(packets, id) # {}
  <2>1. Matching(packets, id) \in SUBSET Nat
    BY <1>1 DEF Matching
  <2>2. i \in Matching(packets, id) /\ \A j \in Matching(packets, id) : i <= j
    BY <1>2, <2>1, FirstExists
  <2>3. i \in 1 .. Len(packets)
    BY <1>1, <2>2 DEF Matching
  <2> QED  BY <1>2, <2>2, <2>3 DEF Acknowledged
<1> QED  BY <1>2 DEF Acknowledged

LEMMA AcknowledgedKeeps ==
    ASSUME NEW packets \in Seq(Packet), Ordered(packets), NEW id
    PROVE  Acknowledged(packets, id) \in Seq(Packet) /\ Ordered(Acknowledged(packets, id))
<1> DEFINE n == Len(packets)
           q == Acknowledged(packets, id)
<1>1. n \in Nat /\ DOMAIN packets = 1 .. n
  BY LenProperties
<1>2. CASE q = packets
  BY <1>2
<1>3. ASSUME NEW i \in 1 .. n, q = RemoveAt(packets, i)
      PROVE  q \in Seq(Packet) /\ Ordered(q)
  <2>1. /\ q \in Seq(Packet) /\ Len(q) = n - 1
        /\ \A j \in 1 .. n - 1 : q[j] = IF j < i THEN packets[j] ELSE packets[j + 1]
    BY <1>3, RemovedAt
  <2> HIDE DEF q, n
  <2>2. DOMAIN q = 1 .. n - 1
    BY <2>1, LenProperties
  <2>3. ASSUME NEW a \in 1 .. n - 1, NEW b \in 1 .. n - 1, a < b, Sent(q[b])
        PROVE  Sent(q[a])
    <3> DEFINE up(k) == IF k < i THEN k ELSE k + 1
    <3>1. /\ q[a] = packets[up(a)] /\ q[b] = packets[up(b)]
          /\ up(a) \in 1 .. n /\ up(b) \in 1 .. n /\ up(a) < up(b)
      BY <1>1, <2>1, <2>3
    <3> HIDE DEF up
    <3> QED  BY <1>1, <2>3, <3>1 DEF Ordered
  <2> QED  BY <2>1, <2>2, <2>3 DEF Ordered
<1> QED  BY <1>2, <1>3, AcknowledgedOne

-----------------------------------------------------------------------------
LEMMA GoodFields ==
    ASSUME NEW S, NEW c, Good(S, c)
    PROVE  /\ c.session \in S \cup {None} /\ c.id \in 0 .. MaxId
           /\ c.packets \in Seq(Packet) /\ Ordered(c.packets)
           /\ c.files \in Seq(File) /\ FilesInside(c.files)
           /\ c = [session |-> c.session, id |-> c.id, packets |-> c.packets, files |-> c.files]
BY DEF Good, Client

LEMMA WrittenKeeps ==
    ASSUME NEW S, NEW c, Good(S, c),
           NEW i \in 1 .. Len(c.packets),
           \A j \in 1 .. i - 1 : Sent(c.packets[j])
    PROVE  /\ Good(S, Written(c, i).client)
           /\ Written(c, i).frame \in Frame
           /\ Written(c, i).client.session = c.session
<1> DEFINE q == BuffAt(c.packets, i)
<1>1. q \in Seq(Packet) /\ Ordered(q) /\ q[i].frame \in Frame
  BY GoodFields, BuffAtKeeps
<1> HIDE DEF q
<1>2. Written(c, i) = [client |-> [c EXCEPT !.packets = q], frame |-> q[i].frame]
  BY DEF Written, q
<1> QED  BY <1>1, <1>2 DEF Good, Client

(* A packet is appended to the list of a client. *)
WithPacket(c, id, pid, body, files) ==
    [c EXCEPT !.id = id, !.packets = Append(@, NewPacket(pid, body)), !.files = files]

LEMMA WithPacketKeeps ==
    ASSUME NEW S, NEW c, Good(S, c),
           NEW id \in 0 .. MaxId, NEW pid \in 0 .. MaxId, NEW body \in Body,
           NEW files \in Seq(File), FilesInside(files)
    PROVE  LET d == WithPacket(c, id, pid, body, files)
           IN  /\ Good(S, d)
               /\ d.session = c.session
               /\ d.packets = Append(c.packets, NewPacket(pid, body))
               /\ Len(d.packets) = Len(c.packets) + 1
<1> DEFINE q == Append(c.packets, NewPacket(pid, body))
<1>1. q \in Seq(Packet) /\ Ordered(q) /\ Len(q) = Len(c.packets) + 1
  BY GoodFields, AppendKeeps
<1> HIDE DEF q
<1>2. WithPacket(c, id, pid, body, files)
        = [session |-> c.session, id |-> id, packets |-> q, files |-> files]
  <2>1. c \in Client(S)
    BY DEF Good
  <2>2. WithPacket(c, id, pid, body, files) = [c EXCEPT !.id = id, !.packets = q, !.files = files]
    BY DEF WithPacket, q
  <2> QED  BY <2>1, <2>2 DEF Client
<1>3. c.session \in S \cup {None}
  BY GoodFields
<1> QED  BY <1>1, <1>2, <1>3 DEF Good, Client, q

LEMMA HeadFile ==
    ASSUME NEW S, NEW c, Good(S, c), c.files # <<>>
    PROVE  /\ ChunkOf(Head(c.files)) \in Body
           /\ Tail(c.files) \in Seq(File) /\ FilesInside(Tail(c.files))
           /\ <<Advanced(Head(c.files))>> \o Tail(c.files) \in Seq(File)
           /\ FilesInside(<<Advanced(Head(c.files))>> \o Tail(c.files))
           /\ <<Advanced(Head(c.files))>> \in Seq(File)
           /\ FilesInside(<<Advanced(Head(c.files))>>)
<1> DEFINE f == Head(c.files)
           g == Advanced(f)
           t == Tail(c.files)
<1>1. c.files \in Seq(File) /\ FilesInside(c.files)
  BY GoodFields
<1>2. /\ f \in File /\ t \in Seq(File)
      /\ Len(t) = Len(c.files) - 1 /\ \A i \in 1 .. Len(t) : t[i] = c.files[i + 1]
  BY <1>1, HeadTailProperties
<1>3. Len(c.files) \in Nat \ {0} /\ DOMAIN c.files = 1 .. Len(c.files) /\ DOMAIN t = 1 .. Len(t)
  BY <1>1, <1>2, EmptySeq, LenProperties
<1>4. f = c.files[1]
  BY <1>1, <1>3
<1>5. f.pos <= FileSize[f.file]
  BY <1>1, <1>3, <1>4 DEF FilesInside
<1> HIDE DEF f, t
<1>6. ChunkOf(f) \in Body /\ g \in File /\ g.pos <= FileSize[g.file]
  BY <1>2, <1>5, ChunkType
<1> HIDE DEF g
<1>7. FilesInside(t)
  <2>1. ASSUME NEW i \in 1 .. Len(t)
        PROVE  t[i].pos <= FileSize[t[i].file]
    <3>1. i + 1 \in DOMAIN c.files /\ t[i] = c.files[i + 1]
      BY <1>2, <1>3
    <3> QED  BY <1>1, <3>1 DEF FilesInside
  <2> QED  BY <1>3, <2>1 DEF FilesInside
<1>8. <<g>> \in Seq(File) /\ Len(<<g>>) = 1 /\ <<g>>[1] = g
  BY <1>6
<1>9. FilesInside(<<g>>)
  BY <1>6, <1>8 DEF FilesInside
<1>10. <<g>> \o t \in Seq(File) /\ FilesInside(<<g>> \o t)
  <2> DEFINE q == <<g>> \o t
  <2>1. /\ q \in Seq(File) /\ Len(q) = 1 + Len(t)
        /\ \A i \in 1 .. 1 + Len(t) : q[i] = IF i <= 1 THEN <<g>>[i] ELSE t[i - 1]
    BY <1>2, <1>8, ConcatProperties
  <2>2. DOMAIN q = 1 .. 1 + Len(t) /\ Len(t) \in Nat
    BY <1>2, <2>1, LenProperties
  <2> HIDE DEF q
  <2>3. ASSUME NEW i \in 1 .. 1 + Len(t)
        PROVE  q[i].pos <= FileSize[q[i].file]
    <3>1. CASE i = 1
      BY <1>6, <1>8, <2>1, <3>1
    <3>2. CASE i # 1
      <4>1. i - 1 \in DOMAIN t /\ q[i] = t[i - 1]
        BY <1>3, <2>1, <2>2, <3>2
      <4> QED  BY <1>7, <4>1 DEF FilesInside
    <3> QED  BY <3>1, <3>2
  <2> QED  BY <2>1, <2>2, <2>3 DEF FilesInside, q
<1> QED  BY <1>2, <1>6, <1>7, <1>8, <1>9, <1>10 DEF f, g, t

LEMMA NextChunkKeeps ==
    ASSUME NEW S, NEW c, Good(S, c), c.files # <<>>
    PROVE  /\ Good(S, NextChunk(c)) /\ NextChunk(c).session = c.session
           /\ Len(NextChunk(c).packets) = Len(c.packets) + 1
<1> DEFINE f == Head(c.files)
           id == NextId(c.id)
           files == IF AtEof(f) THEN Tail(c.files) ELSE <<Advanced(f)>> \o Tail(c.files)
<1>1. files \in Seq(File) /\ FilesInside(files) /\ ChunkOf(f) \in Body
  BY HeadFile
<1>2. id \in 0 .. MaxId
  BY GoodFields, NextIdType
<1>3. NextChunk(c) = WithPacket(c, id, id, ChunkOf(f), files)
  BY GoodFields DEF NextChunk, WithPacket
<1> HIDE DEF id, files, f
<1> QED  BY <1>1, <1>2, <1>3, WithPacketKeeps

LEMMA FirstChunkKeeps ==
    ASSUME NEW S, NEW c, Good(S, c), c.files # <<>>
    PROVE  /\ Good(S, FirstChunk(c)) /\ FirstChunk(c).session = c.session
           /\ Len(FirstChunk(c).packets) = Len(c.packets) + 1
<1> DEFINE f == Head(c.files)
           id == NextId(c.id)
           files == <<Advanced(f)>>
<1>1. files \in Seq(File) /\ FilesInside(files) /\ ChunkOf(f) \in Body
  BY HeadFile
<1>2. id \in 0 .. MaxId
  BY GoodFields, NextIdType
<1>3. FirstChunk(c) = WithPacket(c, id, id, ChunkOf(f), files)
  BY GoodFields DEF FirstChunk, WithPacket
<1> HIDE DEF id, files, f
<1> QED  BY <1>1, <1>2, <1>3, WithPacketKeeps

(* The pump never sends a packet that is behind one that was not sent. *)
LEMMA HandleWriteKeeps ==
    ASSUME NEW S, NEW c, Good(S, c)
    PROVE  /\ Good(S, HandleWrite(c).client)
           /\ HandleWrite(c).frame \in Frame \cup {None}
           /\ HandleWrite(c).client.session = c.session
           /\ HandleWrite(c).frame # None => c.session # None
<1>1. /\ Len(c.packets) \in Nat /\ DOMAIN c.packets = 1 .. Len(c.packets)
  BY GoodFields, LenProperties
<1>2. CASE HandleWrite(c) = Nothing(c)
  BY <1>2 DEF Nothing
<1>3. CASE c.session # None /\ Unsent(c.packets) # {}
  <2> DEFINE i == FirstOf(Unsent(c.packets))
  <2>1. Unsent(c.packets) \in SUBSET Nat
    BY <1>1 DEF Unsent
  <2>2. i \in Unsent(c.packets) /\ \A j \in Unsent(c.packets) : i <= j
    BY <1>3, <2>1, FirstExists
  <2> HIDE DEF i
  <2>3. i \in 1 .. Len(c.packets)
    BY <1>1, <2>2 DEF Unsent
  <2>4. \A j \in 1 .. i - 1 : Sent(c.packets[j])
    BY <1>1, <2>2, <2>3 DEF Unsent
  <2>5. HandleWrite(c) = Written(c, i)
    BY <1>3 DEF HandleWrite, i
  <2> QED  BY <1>3, <2>3, <2>4, <2>5, WrittenKeeps
<1>4. CASE c.session # None /\ Unsent(c.packets) = {} /\ c.files # <<>>
  <2>1. HandleWrite(c) = Written(NextChunk(c), 1)
    BY <1>4 DEF HandleWrite
  <2>2. /\ Good(S, NextChunk(c)) /\ NextChunk(c).session = c.session
        /\ Len(NextChunk(c).packets) = Len(c.packets) + 1
    BY <1>4, NextChunkKeeps
  <2>3. 1 \in 1 .. Len(NextChunk(c).packets)
    BY <1>1, <2>2
  <2>4. \A j \in 1 .. 1 - 1 : Sent(NextChunk(c).packets[j])
    OBVIOUS
  <2> QED  BY <1>4, <2>1, <2>2, <2>3, <2>4, WrittenKeeps
<1> QED  BY <1>2, <1>3, <1>4 DEF HandleWrite
-----------------------------------------------------------------------------
(* The packets by their identifiers: no two have the same, the frame of    *)
(* one that was sent is its own, a frame f in flight and a delivered frame *)
(* whose acknowledgement is owed are those of the packet with their        *)
(* identifier, if it is still there.  D are the bodies delivered.          *)
Identified(packets, W, O, D) ==
    /\ \A i, j \in DOMAIN packets : packets[i].id = packets[j].id => i = j
    /\ \A i \in DOMAIN packets :
          Sent(packets[i]) => packets[i].frame = [id |-> packets[i].id, body |-> packets[i].body]
    /\ \A f \in W :
          f.id # 0 /\ \A i \in DOMAIN packets : packets[i].id = f.id => packets[i].body = f.body
    /\ \A h \in O :
          h # 0 /\ \A i \in DOMAIN packets : packets[i].id = h => packets[i].body \in D

Numbered(packets) == \A i \in DOMAIN packets : packets[i].id # 0

Bodies(packets) == {packets[i].body : i \in DOMAIN packets}

(* No acknowledgement and no packet has the identifier. *)
Unused(id, packets, W, O) ==
    /\ \A i \in DOMAIN packets : packets[i].id # id
    /\ \A f \in W : f.id # id
    /\ id \notin O

LEMMA IdentifiedLess ==
    ASSUME NEW packets, NEW W, NEW O, NEW D, Identified(packets, W, O, D),
           NEW V \in SUBSET W, NEW N \in SUBSET O, NEW E, D \subseteq E
    PROVE  Identified(packets, V, N, E)
BY DEF Identified

(* A write of W completes: its frame is delivered, its acknowledgement     *)
(* owed.                                                                   *)
LEMMA IdentifiedDelivered ==
    ASSUME NEW packets, NEW W, NEW O, NEW D, Identified(packets, W, O, D), NEW f \in W
    PROVE  Identified(packets, W, O \cup {f.id}, D \cup {f.body})
BY DEF Identified

LEMMA IdentifiedAppend ==
    ASSUME NEW packets \in Seq(Packet), NEW W, NEW O, NEW D, Identified(packets, W, O, D),
           NEW id \in 0 .. MaxId, NEW body \in Body, Unused(id, packets, W, O)
    PROVE  LET q == Append(packets, NewPacket(id, body))
           IN  /\ Identified(q, W, O, D)
               /\ Bodies(q) = Bodies(packets) \cup {body}
               /\ id # 0 /\ Numbered(packets) => Numbered(q)
<1> DEFINE p == NewPacket(id, body)
           q == Append(packets, p)
           n == Len(packets)
<1>1. p \in Packet /\ ~Sent(p) /\ p.id = id /\ p.body = body
  BY DEF NewPacket, Packet, Sent
<1> HIDE DEF p
<1>2. /\ n \in Nat /\ DOMAIN packets = 1 .. n /\ DOMAIN q = 1 .. n + 1
      /\ \A j \in 1 .. n : q[j] = packets[j]
      /\ q[n + 1] = p
  <2>1. q \in Seq(Packet) /\ Len(q) = n + 1
    BY <1>1
  <2> QED  BY <1>1, <2>1, LenProperties
<1> HIDE DEF q, n
<1>3. \A j \in 1 .. n + 1 : j \in 1 .. n \/ j = n + 1
  BY <1>2
<1>4. Identified(q, W, O, D)
  BY <1>1, <1>2, <1>3 DEF Identified, Unused
<1>5. Bodies(q) = Bodies(packets) \cup {body}
  BY <1>1, <1>2, <1>3 DEF Bodies
<1>6. id # 0 /\ Numbered(packets) => Numbered(q)
  BY <1>1, <1>2, <1>3 DEF Numbered
<1> QED  BY <1>4, <1>5, <1>6 DEF p, q

(* What sending a packet changes. *)
LEMMA BuffAtChanges ==
    ASSUME NEW packets \in Seq(Packet), NEW i \in 1 .. Len(packets)
    PROVE  LET q == BuffAt(packets, i)
           IN  /\ q \in Seq(Packet) /\ DOMAIN q = DOMAIN packets
               /\ \A j \in DOMAIN packets \ {i} : q[j] = packets[j]
               /\ q[i].id = packets[i].id /\ q[i].body = packets[i].body /\ Sent(q[i])
               /\ q[i].frame = IF Sent(packets[i]) THEN packets[i].frame
                               ELSE [id |-> packets[i].id, body |-> packets[i].body]
<1> DEFINE q == BuffAt(packets, i)
           p == packets[i]
<1>1. p \in Packet
  BY ElementOfSeq
<1>2. Buff(p) \in Packet /\ Sent(Buff(p))
  BY <1>1, BuffType
<1>3. q \in Seq(Packet) /\ Len(q) = Len(packets)
      /\ \A j \in 1 .. Len(packets) : q[j] = IF j = i THEN Buff(p) ELSE packets[j]
  BY <1>2, ExceptSeq DEF BuffAt
<1>4. DOMAIN q = 1 .. Len(packets) /\ DOMAIN packets = 1 .. Len(packets)
  BY <1>3, LenProperties
<1>5. /\ Buff(p).id = p.id /\ Buff(p).body = p.body
      /\ Buff(p).frame = IF Sent(p) THEN p.frame ELSE [id |-> p.id, body |-> p.body]
  BY <1>1 DEF Buff, Packet
<1> HIDE DEF q, p
<1>6. q[i] = Buff(p) /\ \A j \in DOMAIN packets \ {i} : q[j] = packets[j]
  BY <1>3, <1>4
<1> QED  BY <1>2, <1>3, <1>4, <1>5, <1>6 DEF q, p

LEMMA IdentifiedBuffAt ==
    ASSUME NEW packets \in Seq(Packet), NEW W, NEW O, NEW D, Identified(packets, W, O, D),
           NEW i \in 1 .. Len(packets), packets[i].id # 0
    PROVE  LET q == BuffAt(packets, i)
           IN  /\ Identified(q, W \cup {q[i].frame}, O, D)
               /\ Bodies(q) = Bodies(packets)
               /\ Numbered(packets) => Numbered(q)
               /\ q[i].frame = [id |-> packets[i].id, body |-> packets[i].body]
<1> DEFINE q == BuffAt(packets, i)
<1>1. /\ DOMAIN q = DOMAIN packets
      /\ \A j \in DOMAIN packets \ {i} : q[j] = packets[j]
      /\ q[i].id = packets[i].id /\ q[i].body = packets[i].body /\ Sent(q[i])
      /\ q[i].frame = IF Sent(packets[i]) THEN packets[i].frame
                      ELSE [id |-> packets[i].id, body |-> packets[i].body]
  BY BuffAtChanges
<1>2. i \in DOMAIN packets
  BY LenProperties
<1> HIDE DEF q
<1>3. q[i].frame = [id |-> packets[i].id, body |-> packets[i].body]
  BY <1>1, <1>2 DEF Identified
<1>4. \A j \in DOMAIN packets : q[j].id = packets[j].id /\ q[j].body = packets[j].body
  BY <1>1
<1>5. q[i].frame.id = packets[i].id /\ q[i].frame.body = packets[i].body
  BY <1>3
<1>6. \A j \in DOMAIN q : Sent(q[j]) => q[j].frame = [id |-> q[j].id, body |-> q[j].body]
  <2>1. ASSUME NEW j \in DOMAIN q, j # i, Sent(q[j])
        PROVE  q[j].frame = [id |-> q[j].id, body |-> q[j].body]
    <3>1. q[j] = packets[j] /\ j \in DOMAIN packets
      BY <1>1, <2>1
    <3> QED  BY <2>1, <3>1 DEF Identified
  <2> QED  BY <1>1, <1>3, <2>1
<1>7. \A f \in W \cup {q[i].frame} :
          f.id # 0 /\ \A j \in DOMAIN q : q[j].id = f.id => q[j].body = f.body
  BY <1>1, <1>2, <1>4, <1>5 DEF Identified
<1>8. /\ \A j, k \in DOMAIN q : q[j].id = q[k].id => j = k
      /\ \A h \in O : h # 0 /\ \A j \in DOMAIN q : q[j].id = h => q[j].body \in D
  BY <1>1, <1>4 DEF Identified
<1>9. Bodies(q) = Bodies(packets) /\ (Numbered(packets) => Numbered(q))
  BY <1>1, <1>4 DEF Bodies, Numbered
<1> QED  BY <1>3, <1>6, <1>7, <1>8, <1>9 DEF Identified, q

LEMMA IdentifiedReset ==
    ASSUME NEW packets \in Seq(Packet), NEW W, NEW O, NEW D, Identified(packets, W, O, D)
    PROVE  /\ Identified(ResetAll(packets), W, O, D)
           /\ Bodies(ResetAll(packets)) = Bodies(packets)
           /\ Numbered(packets) => Numbered(ResetAll(packets))
<1> DEFINE q == ResetAll(packets)
<1>1. \A j \in DOMAIN packets : packets[j] \in Packet
  BY ElementOfSeq, LenProperties
<1>2. DOMAIN q = DOMAIN packets
  BY DEF ResetAll
<1>3. \A j \in DOMAIN packets : q[j] = [packets[j] EXCEPT !.frame = None]
  BY DEF ResetAll
<1>4. \A j \in DOMAIN packets :
          q[j].id = packets[j].id /\ q[j].body = packets[j].body /\ ~Sent(q[j])
  BY <1>1, <1>3 DEF Packet, Sent
<1> HIDE DEF q
<1>5. Identified(q, W, O, D)
  BY <1>2, <1>4 DEF Identified
<1> QED  BY <1>2, <1>4, <1>5 DEF Bodies, Numbered, q

(* What an acknowledgement removes was delivered. *)
LEMMA IdentifiedAcknowledged ==
    ASSUME NEW packets \in Seq(Packet), NEW W, NEW O, NEW D, Identified(packets, W, O, D),
           NEW h \in O
    PROVE  LET q == Acknowledged(packets, h)
           IN  /\ Identified(q, W, O, D)
               /\ Bodies(packets) \subseteq Bodies(q) \cup D
               /\ \A j \in DOMAIN q : \E k \in DOMAIN packets : q[j] = packets[k]
               /\ \A k \in DOMAIN packets :
                     packets[k].id # h => \E j \in DOMAIN q : q[j] = packets[k]
               /\ packets # <<>> /\ packets[Len(packets)].id # h
                     => q # <<>> /\ q[Len(q)] = packets[Len(packets)]
<1> DEFINE q == Acknowledged(packets, h)
           n == Len(packets)
           P == /\ Identified(q, W, O, D)
                /\ Bodies(packets) \subseteq Bodies(q) \cup D
                /\ \A j \in DOMAIN q : \E k \in DOMAIN packets : q[j] = packets[k]
                /\ \A k \in DOMAIN packets :
                      packets[k].id # h => \E j \in DOMAIN q : q[j] = packets[k]
                /\ packets # <<>> /\ packets[Len(packets)].id # h
                      => q # <<>> /\ q[Len(q)] = packets[Len(packets)]
<1>1. n \in Nat /\ DOMAIN packets = 1 .. n
  BY LenProperties
<1>2. CASE q = packets
  BY <1>2 DEF Bodies
<1>3. ASSUME NEW i \in 1 .. n, packets[i].id = h, q = RemoveAt(packets, i)
      PROVE  P
  <2>1. /\ q \in Seq(Packet) /\ Len(q) = n - 1
        /\ \A j \in 1 .. n - 1 : q[j] = IF j < i THEN packets[j] ELSE packets[j + 1]
    BY <1>3, RemovedAt
  <2> HIDE DEF q
  <2>2. DOMAIN q = 1 .. n - 1
    BY <2>1, LenProperties
  <2> HIDE DEF n
  <2> DEFINE up(j) == IF j < i THEN j ELSE j + 1
  <2>3. /\ \A j \in 1 .. n - 1 : q[j] = packets[up(j)] /\ up(j) \in 1 .. n
        /\ \A j, k \in 1 .. n - 1 : up(j) = up(k) => j = k
    BY <1>1, <1>3, <2>1
  <2>4. \A k \in 1 .. n : k # i => \E j \in 1 .. n - 1 : up(j) = k
    <3>1. ASSUME NEW k \in 1 .. n, k # i PROVE \E j \in 1 .. n - 1 : up(j) = k
      <4>1. CASE k < i
        <5>1. k \in 1 .. n - 1 /\ up(k) = k
          BY <1>1, <1>3, <4>1
        <5> QED  BY <5>1
      <4>2. CASE k > i
        <5>1. k - 1 \in 1 .. n - 1 /\ up(k - 1) = k
          BY <1>1, <1>3, <4>2
        <5> QED  BY <5>1
      <4> QED  BY <1>1, <1>3, <3>1, <4>1, <4>2
    <3> QED  BY <3>1
  <2>5. packets # <<>> /\ packets[Len(packets)].id # h
            => q # <<>> /\ q[Len(q)] = packets[Len(packets)]
    <3> SUFFICES ASSUME packets[n].id # h PROVE q # <<>> /\ q[n - 1] = packets[n]
      BY <2>1 DEF n
    <3>1. i < n
      BY <1>1, <1>3
    <3>2. n - 1 \in 1 .. n - 1 /\ up(n - 1) = n
      BY <1>1, <1>3, <3>1
    <3>3. q # <<>>
      BY <2>2, <3>2, EmptySeq
    <3> QED  BY <2>3, <3>2, <3>3
  <2> HIDE DEF up
  <2>6. Identified(q, W, O, D)
    BY <1>1, <2>2, <2>3 DEF Identified
  <2>7. packets[i].body \in D
    BY <1>1, <1>3 DEF Identified
  <2>8. \A k \in 1 .. n : k # i => \E j \in 1 .. n - 1 : q[j] = packets[k]
    BY <2>3, <2>4
  <2>9. Bodies(packets) \subseteq Bodies(q) \cup D
    BY <1>1, <2>2, <2>7, <2>8 DEF Bodies
  <2> QED  BY <1>1, <1>3, <2>2, <2>3, <2>5, <2>6, <2>8, <2>9, ZenonT(30)
<1>4. q = packets \/ \E i \in 1 .. n : packets[i].id = h /\ q = RemoveAt(packets, i)
  BY <1>1, AcknowledgedOne DEF Matching
<1> QED  BY <1>2, <1>3, <1>4

-----------------------------------------------------------------------------
LEMMA NextIdMoves ==
    ASSUME NEW id \in 0 .. MaxId
    PROVE  NextId(id) # id /\ NextId(id) # 0
BY SlideClientAssumption DEF NextId

LEMMA WrittenFields ==
    ASSUME NEW S, NEW c, Good(S, c), NEW i
    PROVE  /\ Written(c, i).client.session = c.session /\ Written(c, i).client.id = c.id
           /\ Written(c, i).client.packets = BuffAt(c.packets, i)
           /\ Written(c, i).client.files = c.files
           /\ Written(c, i).frame = BuffAt(c.packets, i)[i].frame
<1>1. \A y : LET d == [c EXCEPT !.packets = y]
             IN  d.session = c.session /\ d.id = c.id /\ d.packets = y /\ d.files = c.files
  BY DEF Good, Client
<1> QED  BY <1>1, Zenon DEF Written

-----------------------------------------------------------------------------
(* The first n bytes of a file are in pieces of K. *)
Covered(file, n, K) ==
    \A o \in 0 .. n - 1 : \E b \in K : b.of = file /\ b.off <= o /\ o < b.off + b.len

(* What was read of the files of A, all of those that left the list, is in *)
(* pieces of K.                                                            *)
CoveredAll(files, A, K) ==
    \A x \in A :
        /\ \A i \in DOMAIN files : files[i].file = x => Covered(x, files[i].pos, K)
        /\ (\A i \in DOMAIN files : files[i].file # x) => Covered(x, FileSize[x], K)

Once(files) == \A i, j \in DOMAIN files : files[i].file = files[j].file => i = j

(* No file is added to the list, and the last stays the last. *)
Remaining(files, q) ==
    /\ Once(files) => Once(q)
    /\ \A i \in DOMAIN q : \E j \in DOMAIN files : q[i].file = files[j].file
    /\ q # <<>> => files # <<>> /\ q[Len(q)].file = files[Len(files)].file

LEMMA CoveredMore ==
    ASSUME NEW files, NEW A \in SUBSET Files, NEW K, NEW L,
           \A b \in K : b \in L \/ b = Blank,
           CoveredAll(files, A, K)
    PROVE  CoveredAll(files, A, L)
<1>1. ASSUME NEW x \in A, NEW n, Covered(x, n, K) PROVE Covered(x, n, L)
  BY <1>1, SlideClientAssumption DEF Covered, Blank
<1> QED  BY <1>1 DEF CoveredAll

LEMMA PieceCovers ==
    ASSUME NEW f \in File, f.pos <= FileSize[f.file], NEW K, ChunkOf(f) \in K,
           Covered(f.file, f.pos, K)
    PROVE  /\ Advanced(f).file = f.file
           /\ Covered(f.file, Advanced(f).pos, K)
           /\ AtEof(f) => Covered(f.file, FileSize[f.file], K)
<1> DEFINE left == FileSize[f.file] - f.pos
           len == IF left < Chunk THEN left ELSE Chunk
<1>1. f.pos \in Nat /\ FileSize[f.file] \in Nat /\ Chunk \in Nat \ {0} /\ left \in Nat
  BY SlideClientAssumption DEF File
<1>2. ChunkOf(f) = [of |-> f.file, off |-> f.pos, len |-> len]
  BY DEF ChunkOf
<1>3. Advanced(f).file = f.file /\ Advanced(f).pos = f.pos + len
  BY <1>2 DEF Advanced, File
<1>4. len \in Nat
  BY <1>1
<1>5. ChunkOf(f).of = f.file /\ ChunkOf(f).off = f.pos /\ ChunkOf(f).len = len
  BY <1>2
<1>6. AtEof(f) => f.pos + len = FileSize[f.file]
  BY <1>1, <1>5 DEF AtEof
<1> HIDE DEF len, left
<1>7. Covered(f.file, f.pos + len, K)
  <2>1. ASSUME NEW o \in 0 .. (f.pos + len) - 1
        PROVE  \E b \in K : b.of = f.file /\ b.off <= o /\ o < b.off + b.len
    <3>1. CASE o < f.pos
      BY <1>1, <2>1, <3>1 DEF Covered
    <3>2. CASE o >= f.pos
      BY <1>1, <1>4, <1>5, <2>1, <3>2
    <3> QED  BY <1>1, <3>1, <3>2
  <2> QED  BY <2>1 DEF Covered
<1> QED  BY <1>3, <1>6, <1>7

(* A piece of the first file was read. *)
LEMMA PieceRead ==
    ASSUME NEW files \in Seq(File), FilesInside(files), files # <<>>, Once(files),
           NEW q,
           \/ q = <<Advanced(Head(files))>> \o Tail(files)
           \/ AtEof(Head(files)) /\ q = Tail(files)
    PROVE  /\ Remaining(files, q)
           /\ \A A, K : ChunkOf(Head(files)) \in K /\ CoveredAll(files, A, K)
                          => CoveredAll(q, A, K)
<1> DEFINE f == Head(files)
           g == Advanced(f)
           t == Tail(files)
           n == Len(files)
<1>1. /\ f \in File /\ t \in Seq(File)
      /\ Len(t) = n - 1 /\ \A i \in 1 .. n - 1 : t[i] = files[i + 1]
  BY HeadTailProperties
<1>2. n \in Nat \ {0} /\ DOMAIN files = 1 .. n /\ DOMAIN t = 1 .. n - 1 /\ f = files[1]
  BY <1>1, EmptySeq, LenProperties
<1>3. f.pos <= FileSize[f.file]
  BY <1>2 DEF FilesInside
<1> HIDE DEF f
<1>4. g \in File /\ g.file = f.file
  BY <1>1, <1>3, ChunkType, SlideClientAssumption DEF Advanced, File
<1>5. \A i, j \in 1 .. n : files[i].file = files[j].file => i = j
  BY <1>2 DEF Once
<1>6. CASE q = <<g>> \o t
  <2> HIDE DEF g, t
  <2>1. <<g>> \in Seq(File) /\ Len(<<g>>) = 1 /\ <<g>>[1] = g
    BY <1>4
  <2>2. /\ q \in Seq(File) /\ Len(q) = 1 + (n - 1)
        /\ \A i \in 1 .. 1 + (n - 1) : q[i] = IF i <= 1 THEN <<g>>[i] ELSE t[i - 1]
    BY <1>1, <1>6, <2>1, ConcatProperties
  <2> HIDE DEF n
  <2>3. Len(q) = n /\ DOMAIN q = 1 .. n
    BY <1>2, <2>2, LenProperties
  <2>4. q[1] = g /\ \A i \in 2 .. n : q[i] = files[i]
    BY <1>1, <1>2, <2>1, <2>2
  <2>5. \A i \in 1 .. n : q[i].file = files[i].file
    BY <1>2, <1>4, <2>4
  <2>6. Remaining(files, q)
    <3>1. Once(q)
      BY <1>5, <2>3, <2>5 DEF Once
    <3>2. q[n].file = files[n].file
      BY <1>2, <2>5
    <3> QED  BY <1>2, <2>3, <2>5, <3>1, <3>2 DEF Remaining, n
  <2>7. ASSUME NEW A, NEW K, ChunkOf(f) \in K, CoveredAll(files, A, K), NEW x \in A
        PROVE  /\ \A i \in DOMAIN q : q[i].file = x => Covered(x, q[i].pos, K)
               /\ (\A i \in DOMAIN q : q[i].file # x) => Covered(x, FileSize[x], K)
    <3>1. CASE f.file = x
      <4>1. Covered(x, f.pos, K)
        BY <1>2, <2>7, <3>1 DEF CoveredAll
      <4>2. Covered(x, g.pos, K)
        BY <1>1, <1>3, <2>7, <3>1, <4>1, PieceCovers DEF g
      <4>3. \A i \in 1 .. n : q[i].file = x => i = 1
        BY <1>2, <1>5, <2>5, <3>1
      <4> QED  BY <1>2, <1>4, <2>3, <2>4, <3>1, <4>2, <4>3
    <3>2. CASE f.file # x
      <4>1. \A i \in 1 .. n : q[i].file = x => i \in 2 .. n
        BY <1>2, <1>4, <2>4, <3>2
      <4> QED  BY <1>2, <2>3, <2>4, <2>5, <2>7, <4>1 DEF CoveredAll
    <3> QED  BY <3>1, <3>2
  <2> QED  BY <2>6, <2>7 DEF CoveredAll, f
<1>7. CASE AtEof(f) /\ q = t
  <2> HIDE DEF t, n
  <2>1. \A i \in 1 .. n - 1 : i + 1 \in 2 .. n /\ q[i] = files[i + 1]
    BY <1>1, <1>2, <1>7
  <2>2. Remaining(files, q)
    <3>1. Once(q) /\ \A i \in DOMAIN q : \E j \in DOMAIN files : q[i].file = files[j].file
      <4>1. DOMAIN q = 1 .. n - 1
        BY <1>2, <1>7
      <4>2. ASSUME NEW i \in 1 .. n - 1, NEW j \in 1 .. n - 1, q[i].file = q[j].file PROVE i = j
        <5>1. i + 1 \in 1 .. n /\ j + 1 \in 1 .. n /\ files[i + 1].file = files[j + 1].file
          BY <1>2, <2>1, <4>2
        <5>2. i + 1 = j + 1
          BY <1>5, <5>1
        <5> QED  BY <1>2, <5>2
      <4>3. \A i \in 1 .. n - 1 : \E j \in 1 .. n : q[i].file = files[j].file
        BY <1>2, <2>1
      <4> QED  BY <1>2, <4>1, <4>2, <4>3 DEF Once
    <3>2. q # <<>> => q[n - 1] = files[n]
      <4>1. ASSUME n = 1 PROVE q = <<>>
        <5>1. Len(q) = 0
          BY <1>1, <1>7, <4>1
        <5> QED  BY <1>1, <1>7, <5>1, EmptySeq
      <4>2. n # 1 => n - 1 \in 1 .. n - 1
        BY <1>2
      <4> QED  BY <1>2, <2>1, <4>1, <4>2
    <3>3. Len(q) = n - 1
      BY <1>1, <1>7
    <3> QED  BY <1>2, <3>1, <3>2, <3>3 DEF Remaining, n
  <2>3. ASSUME NEW A, NEW K, ChunkOf(f) \in K, CoveredAll(files, A, K), NEW x \in A
        PROVE  /\ \A i \in DOMAIN q : q[i].file = x => Covered(x, q[i].pos, K)
               /\ (\A i \in DOMAIN q : q[i].file # x) => Covered(x, FileSize[x], K)
    <3>1. \A i \in DOMAIN q : q[i].file = x => Covered(x, q[i].pos, K)
      BY <1>2, <1>7, <2>1, <2>3 DEF CoveredAll
    <3>2. ASSUME \A i \in DOMAIN q : q[i].file # x PROVE Covered(x, FileSize[x], K)
      <4>1. CASE f.file = x
        <5>1. Covered(x, f.pos, K)
          BY <1>2, <2>3, <4>1 DEF CoveredAll
        <5> QED  BY <1>1, <1>3, <1>7, <2>3, <4>1, <5>1, PieceCovers
      <4>2. CASE f.file # x
        <5>1. ASSUME NEW i \in 2 .. n PROVE files[i].file # x
          <6>1. i - 1 \in 1 .. n - 1 /\ q[i - 1] = files[i]
            BY <1>2, <2>1
          <6> QED  BY <1>2, <1>7, <3>2, <6>1
        <5>2. \A i \in 1 .. n : files[i].file # x
          BY <1>2, <4>2, <5>1
        <5> QED  BY <1>2, <2>3, <5>2 DEF CoveredAll
      <4> QED  BY <4>1, <4>2
    <3> QED  BY <3>1, <3>2
  <2> QED  BY <2>2, <2>3 DEF CoveredAll, f
<1> QED  BY <1>6, <1>7 DEF f

-----------------------------------------------------------------------------
LEMMA BodiesChanged ==
    ASSUME NEW packets \in Seq(Packet)
    PROVE  /\ \A p \in Packet : Bodies(Append(packets, p)) = Bodies(packets) \cup {p.body}
           /\ \A i \in 1 .. Len(packets) : Bodies(BuffAt(packets, i)) = Bodies(packets)
<1>1. ASSUME NEW p \in Packet
      PROVE  Bodies(Append(packets, p)) = Bodies(packets) \cup {p.body}
  <2> DEFINE q == Append(packets, p)
             n == Len(packets)
  <2>1. /\ n \in Nat /\ DOMAIN packets = 1 .. n /\ q[n + 1] = p
        /\ \A j \in 1 .. n : q[j] = packets[j]
    BY LenProperties
  <2>2. DOMAIN q = 1 .. n + 1
    BY LenProperties
  <2> HIDE DEF q, n
  <2>3. 1 .. n + 1 = (1 .. n) \cup {n + 1}
    BY <2>1
  <2> QED  BY <2>1, <2>2, <2>3 DEF Bodies, q
<1>2. ASSUME NEW i \in 1 .. Len(packets)
      PROVE  Bodies(BuffAt(packets, i)) = Bodies(packets)
  <2> DEFINE q == BuffAt(packets, i)
  <2>1. DOMAIN q = DOMAIN packets /\ \A j \in DOMAIN packets : q[j].body = packets[j].body
    <3>1. /\ DOMAIN q = DOMAIN packets
          /\ \A j \in DOMAIN packets \ {i} : q[j] = packets[j]
          /\ q[i].id = packets[i].id /\ q[i].body = packets[i].body /\ Sent(q[i])
          /\ q[i].frame = IF Sent(packets[i]) THEN packets[i].frame
                          ELSE [id |-> packets[i].id, body |-> packets[i].body]
      BY BuffAtChanges
    <3> HIDE DEF q
    <3> QED  BY <3>1
  <2> HIDE DEF q
  <2> QED  BY <2>1 DEF Bodies, q
<1> QED  BY <1>1, <1>2

(* A piece of the first file, appended and with what is sent after it.     *)
LEMMA ChunkRead ==
    ASSUME NEW S, NEW c, Good(S, c), c.files # <<>>
    PROVE  /\ ChunkOf(Head(c.files)) \in Body
           /\ NewPacket(NextId(c.id), ChunkOf(Head(c.files))) \in Packet
           /\ NextId(c.id) \in 0 .. MaxId /\ NextId(c.id) # c.id /\ NextId(c.id) # 0
<1>1. ChunkOf(Head(c.files)) \in Body /\ c.id \in 0 .. MaxId
  BY HeadFile, GoodFields
<1>2. NextId(c.id) \in 0 .. MaxId /\ NextId(c.id) # c.id /\ NextId(c.id) # 0
  BY <1>1, NextIdType, NextIdMoves
<1> QED  BY <1>1, <1>2 DEF NewPacket, Packet

=============================================================================
