-------------------------- MODULE ClientPumpProofs --------------------------
(***************************************************************************)
(* Type correctness of ClientPump, the order in which its pump sends, what *)
(* it resends and what waits for a login, for any texts, files, calls,     *)
(* logins and identifiers, and for every interleaving of the statements of *)
(* the two threads.                                                        *)
(*                                                                         *)
(* SentPrefix is not inductive by itself: what handle_write and send() do  *)
(* to the list depends on its being a list of packets, on the identifiers  *)
(* and files being what they should, and on no file being read past its    *)
(* end.  IInv adds these.                                                  *)
(***************************************************************************)
EXTENDS ClientPump, SlideClientProofs

ThreadsOK ==
    /\ {ui, io} \subseteq [pc : Statements, body : Body]
    /\ ui.pc # "idle" => ui.body.of \in Texts \cup Files
    /\ ui.pc \in {"queue", "alone", "tell", "read"} => ui.body.of \in Files
    /\ io.pc \in {"read", "push", "id", "data", "send"} => io.body.of \in Files
    /\ ui.pc = "read" => ui.body.off <= FileSize[ui.body.of]
    /\ io.pc = "read" => io.body.off <= FileSize[io.body.of]

WritesOK == writing \in [Conn -> Seq(Frame)]

DeviceOK ==
    /\ owed \in [Conn -> Seq(0 .. MaxId)]
    /\ reading \subseteq 1 .. made
    /\ made \in Conn
    /\ again \in Nat

IInv == Good(Conn, client) /\ ThreadsOK /\ WritesOK /\ DeviceOK

LEMMA IInvImplies == IInv => TypeOK /\ SentPrefix
BY DEF IInv, Good, ThreadsOK, WritesOK, DeviceOK, TypeOK, SentPrefix, Ordered

LEMMA IdleThread == Idle \in [pc : Statements, body : Body] /\ Blank \in Body
BY SlideClientAssumption DEF Idle, At, Statements, Blank, Body

LEMMA InitIInv == Init => IInv
<1> SUFFICES ASSUME Init PROVE IInv
  OBVIOUS
<1> USE DEF Init
<1>1. Good(Conn, client)
  <2>1. 1 \in Conn
    BY ClientPumpAssumption DEF Conn
  <2>2. <<>> \in Seq(Packet) /\ <<>> \in Seq(File) /\ DOMAIN <<>> = {}
    BY EmptySeq
  <2>3. Ordered(<<>>) /\ FilesInside(<<>>)
    BY <2>2 DEF Ordered, FilesInside
  <2> QED  BY <2>1, <2>2, <2>3, SlideClientAssumption DEF Good, Client
<1>2. ThreadsOK
  BY IdleThread DEF ThreadsOK, Idle, At
<1>3. WritesOK
  BY EmptySeq DEF WritesOK
<1>4. DeviceOK
  BY ClientPumpAssumption, EmptySeq DEF DeviceOK, Conn
<1> QED  BY <1>1, <1>2, <1>3, <1>4 DEF IInv

-----------------------------------------------------------------------------
(* What the statements do to a client.                                     *)
LEMMA Fields ==
    ASSUME NEW S, NEW c, Good(S, c), NEW x, NEW y
    PROVE  /\ LET d == [c EXCEPT !.packets = x]
              IN  d.packets = x /\ d.files = c.files /\ d.id = c.id /\ d.session = c.session
           /\ LET d == [c EXCEPT !.id = y]
              IN  d.packets = c.packets /\ d.files = c.files /\ d.id = y /\ d.session = c.session
           /\ LET d == [c EXCEPT !.session = x]
              IN  d.packets = c.packets /\ d.files = c.files /\ d.id = c.id /\ d.session = x
           /\ LET d == [c EXCEPT !.files = x]
              IN  d.packets = c.packets /\ d.files = x /\ d.id = c.id /\ d.session = c.session
BY DEF Good, Client

(* Only the packets, the session, the identifier or the files change. *)
LEMMA GoodChanged ==
    ASSUME NEW S, NEW c, Good(S, c)
    PROVE  /\ \A q \in Seq(Packet) : Ordered(q) => Good(S, [c EXCEPT !.packets = q])
           /\ \A s \in S \cup {None} : Good(S, [c EXCEPT !.session = s])
           /\ \A i \in 0 .. MaxId : Good(S, [c EXCEPT !.id = i])
           /\ \A fs \in Seq(File) : FilesInside(fs) => Good(S, [c EXCEPT !.files = fs])
BY DEF Good, Client

(* The new packet is the last, without an identifier, not sent. *)
PushedPacket(b) == [id |-> 0, body |-> [of |-> None, off |-> b.off, len |-> 0], frame |-> None]

LEMMA PushedIs ==
    ASSUME NEW S, NEW c, Good(S, c), NEW b \in Body
    PROVE  LET d == Pushed(c, b)
               n == Len(c.packets)
           IN  /\ Good(S, d)
               /\ d.session = c.session /\ d.id = c.id /\ d.files = c.files
               /\ n \in Nat /\ Len(d.packets) = n + 1
               /\ \A j \in 1 .. n : d.packets[j] = c.packets[j]
               /\ d.packets[n + 1] = PushedPacket(b)
<1> DEFINE body == [Blank EXCEPT !.off = b.off]
           p == NewPacket(0, body)
           q == Append(c.packets, p)
           n == Len(c.packets)
<1>1. body = [of |-> None, off |-> b.off, len |-> 0] /\ body \in Body
  BY DEF Blank, Body
<1>2. p = PushedPacket(b) /\ p \in Packet
  BY <1>1, SlideClientAssumption DEF NewPacket, PushedPacket, Packet
<1>3. 0 \in 0 .. MaxId
  BY SlideClientAssumption
<1> HIDE DEF body
<1>4. c.packets \in Seq(Packet) /\ Ordered(c.packets)
  BY GoodFields
<1>5. q \in Seq(Packet) /\ Ordered(q) /\ Len(q) = n + 1
  BY <1>1, <1>3, <1>4, AppendKeeps
<1> HIDE DEF p
<1>6. n \in Nat /\ q[n + 1] = p /\ \A j \in 1 .. n : q[j] = c.packets[j]
  BY <1>2, <1>4, LenProperties
<1>7. Pushed(c, b) = [c EXCEPT !.packets = q]
  BY DEF Pushed, q, p, body
<1> HIDE DEF q
<1> QED  BY <1>2, <1>5, <1>6, <1>7, Fields, GoodChanged

(* The last packet is replaced by one that was sent if it was. *)
LEMMA BackIs ==
    ASSUME NEW S, NEW c, Good(S, c), c.packets # <<>>,
           NEW p \in Packet, p.frame = c.packets[Len(c.packets)].frame
    PROVE  LET d == Back(c, p)
               n == Len(c.packets)
           IN  /\ Good(S, d)
               /\ d.session = c.session /\ d.id = c.id /\ d.files = c.files
               /\ Len(d.packets) = n
               /\ \A j \in 1 .. n : d.packets[j] = IF j = n THEN p ELSE c.packets[j]
<1> DEFINE n == Len(c.packets)
           q == [c.packets EXCEPT ![n] = p]
<1>1. c.packets \in Seq(Packet) /\ Ordered(c.packets)
  BY GoodFields
<1>2. n \in Nat \ {0} /\ DOMAIN c.packets = 1 .. n
  BY <1>1, EmptySeq, LenProperties
<1>3. /\ q \in Seq(Packet)
      /\ Len(q) = n
      /\ \A j \in 1 .. n : q[j] = IF j = n THEN p ELSE c.packets[j]
  BY <1>1, <1>2, ExceptSeq
<1>4. DOMAIN q = 1 .. n
  BY <1>3, LenProperties
<1>5. Back(c, p) = [c EXCEPT !.packets = q]
  BY DEF Back
<1> HIDE DEF q
<1>6. \A j \in 1 .. n : Sent(q[j]) <=> Sent(c.packets[j])
  BY <1>3 DEF Sent
<1>7. Ordered(q)
  <2> HIDE DEF n
  <2> QED  BY <1>1, <1>2, <1>4, <1>6 DEF Ordered
<1> QED  BY <1>3, <1>5, <1>7, Fields, GoodChanged

LEMMA LastIs ==
    ASSUME NEW S, NEW c, Good(S, c), c.packets # <<>>
    PROVE  /\ Len(c.packets) \in Nat \ {0} /\ DOMAIN c.packets = 1 .. Len(c.packets)
           /\ Last(c.packets) = c.packets[Len(c.packets)]
           /\ Last(c.packets) \in Packet
<1>1. c.packets \in Seq(Packet)
  BY GoodFields
<1>2. Len(c.packets) \in Nat \ {0} /\ DOMAIN c.packets = 1 .. Len(c.packets)
  BY <1>1, EmptySeq, LenProperties
<1> QED  BY <1>1, <1>2, ElementOfSeq DEF Last

(* The packet p with another identifier, or with the body b at its offset. *)
WithId(p, i) == [id |-> i, body |-> p.body, frame |-> p.frame]
WithBody(p, b) ==
    [id |-> p.id, body |-> [of |-> b.of, off |-> p.body.off, len |-> b.len], frame |-> p.frame]

LEMMA NamedIs ==
    ASSUME NEW S, NEW c, Good(S, c)
    PROVE  LET d == Named(c)
               n == Len(c.packets)
           IN  /\ Good(S, d)
               /\ d.session = c.session /\ d.id = NextId(c.id) /\ d.files = c.files
               /\ Len(d.packets) = n
               /\ \A j \in 1 .. n :
                     d.packets[j] = IF j = n THEN WithId(c.packets[n], NextId(c.id))
                                    ELSE c.packets[j]
<1> DEFINE n == Len(c.packets)
           i == NextId(c.id)
           e == [c EXCEPT !.id = i]
           p == [Last(c.packets) EXCEPT !.id = i]
<1>1. i \in 0 .. MaxId
  BY GoodFields, NextIdType
<1>2. /\ Good(S, e) /\ e.session = c.session /\ e.id = i
      /\ e.files = c.files /\ e.packets = c.packets
  <2> HIDE DEF i
  <2> QED  BY <1>1, GoodChanged, Fields
<1>3. Named(c) = Back(e, p)
  BY DEF Named
<1>4. CASE c.packets = <<>>
  <2> HIDE DEF e
  <2>1. Named(c) = e /\ 1 .. n = {}
    BY <1>2, <1>3, <1>4, EmptySeq DEF Back
  <2> QED  BY <1>2, <1>4, <2>1, EmptySeq
<1>5. CASE c.packets # <<>>
  <2>1. Last(c.packets) = c.packets[n] /\ c.packets[n] \in Packet
    BY <1>5, LastIs
  <2>2. p = WithId(c.packets[n], i) /\ p \in Packet /\ p.frame = c.packets[n].frame
    <3> HIDE DEF i, n
    <3> QED  BY <1>1, <2>1 DEF WithId, Packet
  <2> HIDE DEF e, p, i
  <2>3. e.packets # <<>> /\ p.frame = e.packets[Len(e.packets)].frame
    BY <1>2, <1>5, <2>2
  <2>4. LET d == Back(e, p)
        IN  /\ Good(S, d)
            /\ d.session = e.session /\ d.id = e.id /\ d.files = e.files
            /\ Len(d.packets) = Len(e.packets)
            /\ \A j \in 1 .. Len(e.packets) :
                  d.packets[j] = IF j = Len(e.packets) THEN p ELSE e.packets[j]
    BY <1>2, <2>2, <2>3, BackIs
  <2> QED  BY <1>2, <1>3, <2>2, <2>4 DEF i
<1> QED  BY <1>4, <1>5

LEMMA BodyChanged ==
    ASSUME NEW x \in Body, NEW y \in Texts \cup Files \cup {None}, NEW z \in Nat
    PROVE  [x EXCEPT !.of = y, !.len = z] = [of |-> y, off |-> x.off, len |-> z]
<1>1. /\ [x EXCEPT !.of = y] = [of |-> y, off |-> x.off, len |-> x.len]
      /\ [x EXCEPT !.of = y] \in Body
  BY DEF Body
<1>2. \A v \in Body : [v EXCEPT !.len = z] = [of |-> v.of, off |-> v.off, len |-> z]
  BY DEF Body
<1>3. [[x EXCEPT !.of = y] EXCEPT !.len = z] = [of |-> y, off |-> x.off, len |-> z]
  BY <1>1, <1>2
<1> QED  BY <1>3

LEMMA FilledIs ==
    ASSUME NEW S, NEW c, Good(S, c), NEW b \in Body
    PROVE  LET d == Filled(c, b)
               n == Len(c.packets)
           IN  /\ Good(S, d)
               /\ d.session = c.session /\ d.id = c.id /\ d.files = c.files
               /\ Len(d.packets) = n
               /\ \A j \in 1 .. n :
                     d.packets[j] = IF j = n THEN WithBody(c.packets[n], b) ELSE c.packets[j]
<1> DEFINE n == Len(c.packets)
           p == [Last(c.packets) EXCEPT !.body.of = b.of, !.body.len = b.len]
<1>1. Filled(c, b) = Back(c, p)
  BY DEF Filled
<1>2. CASE c.packets = <<>>
  <2>1. Filled(c, b) = c /\ 1 .. n = {}
    BY <1>1, <1>2, EmptySeq DEF Back
  <2> QED  BY <1>2, <2>1, EmptySeq
<1>3. CASE c.packets # <<>>
  <2>1. Last(c.packets) = c.packets[n] /\ c.packets[n] \in Packet
    BY <1>3, LastIs
  <2>2. p = WithBody(c.packets[n], b) /\ p \in Packet /\ p.frame = c.packets[n].frame
    <3> HIDE DEF n
    <3>1. PICK r \in Packet : r = Last(c.packets) /\ r = c.packets[n]
      BY <2>1
    <3>2. r.id \in 0 .. MaxId /\ r.body \in Body /\ r.frame \in Frame \cup {None}
      BY DEF Packet
    <3>3. [r.body EXCEPT !.of = b.of, !.len = b.len]
            = [of |-> b.of, off |-> r.body.off, len |-> b.len]
      BY <3>2, BodyChanged DEF Body
    <3>4. [of |-> b.of, off |-> r.body.off, len |-> b.len] \in Body
      BY <3>2 DEF Body
    <3>5. p = [r EXCEPT !.body = [@ EXCEPT !.of = b.of, !.len = b.len]]
      BY <3>1, <3>2 DEF Packet, Body
    <3>6. p = WithBody(r, b)
      BY <3>3, <3>5 DEF WithBody, Packet
    <3>7. WithBody(r, b) \in Packet /\ WithBody(r, b).frame = r.frame
      BY <3>2, <3>4 DEF WithBody, Packet
    <3> QED  BY <3>1, <3>6, <3>7
  <2> HIDE DEF p
  <2> QED  BY <1>1, <1>3, <2>2, BackIs
<1> QED  BY <1>2, <1>3

LEMMA FilesIs ==
    ASSUME NEW S, NEW c, Good(S, c)
    PROVE  /\ c.files \in Seq(File) /\ FilesInside(c.files)
           /\ Len(c.files) \in Nat /\ DOMAIN c.files = 1 .. Len(c.files)
           /\ \A i \in 1 .. Len(c.files) :
                 /\ c.files[i] \in File
                 /\ c.files[i].pos <= FileSize[c.files[i].file]
<1>1. c.files \in Seq(File) /\ FilesInside(c.files)
  BY GoodFields
<1>2. Len(c.files) \in Nat /\ DOMAIN c.files = 1 .. Len(c.files)
  BY <1>1, LenProperties
<1> QED  BY <1>1, <1>2, ElementOfSeq DEF FilesInside

LEMMA PlacesIs ==
    ASSUME NEW S, NEW c, Good(S, c), NEW f \in Files
    PROVE  /\ Places(c, f) # {} =>
                /\ FirstOf(Places(c, f)) \in 1 .. Len(c.files)
                /\ c.files[FirstOf(Places(c, f))].file = f
                /\ Position(c, f) = c.files[FirstOf(Places(c, f))].pos
           /\ Position(c, f) \in Nat /\ Position(c, f) <= FileSize[f]
<1>1. CASE Places(c, f) = {}
  BY <1>1, SlideClientAssumption DEF Position
<1>2. CASE Places(c, f) # {}
  <2>1. Places(c, f) \in SUBSET Nat
    BY FilesIs DEF Places
  <2>2. FirstOf(Places(c, f)) \in Places(c, f)
    BY <1>2, <2>1, FirstExists
  <2>3. PICK i \in 1 .. Len(c.files) : i = FirstOf(Places(c, f)) /\ c.files[i].file = f
    BY <2>2, FilesIs DEF Places
  <2>4. c.files[i] \in File /\ c.files[i].pos <= FileSize[c.files[i].file]
    BY <2>3, FilesIs
  <2> QED  BY <1>2, <2>3, <2>4 DEF Position, File
<1> QED  BY <1>1, <1>2

(* fl->read adds what it read to the body, at the offset it was told. *)
LEMMA ReadIntoIs ==
    ASSUME NEW S, NEW c, Good(S, c), NEW b \in Body, b.of \in Files, b.off <= FileSize[b.of]
    PROVE  LET f == Opened(c, b)
           IN  /\ f \in File /\ f.pos <= FileSize[f.file] /\ f.file = b.of
               /\ ReadInto(c, b) = [of |-> b.of, off |-> b.off, len |-> ChunkOf(f).len]
               /\ ReadInto(c, b) \in Body
<1> DEFINE f == Opened(c, b)
<1>1. b.off \in Nat
  BY DEF Body
<1>2. f.file = b.of /\ f.pos \in Nat /\ f.pos <= FileSize[b.of] /\ f \in File
  <2>1. Position(c, b.of) \in Nat /\ Position(c, b.of) <= FileSize[b.of]
    BY PlacesIs
  <2> QED  BY <1>1, <2>1 DEF Opened, File
<1> HIDE DEF f
<1>3. ChunkOf(f).len \in Nat
  BY <1>2, ChunkType DEF Body
<1>4. ReadInto(c, b) = [b EXCEPT !.len = ChunkOf(f).len]
  BY DEF ReadInto, f
<1>5. ReadInto(c, b) = [of |-> b.of, off |-> b.off, len |-> ChunkOf(f).len]
  BY <1>4 DEF Body
<1> QED  BY <1>1, <1>2, <1>3, <1>5 DEF Body, f

LEMMA AfterReadIs ==
    ASSUME NEW S, NEW c, Good(S, c), NEW f \in Files
    PROVE  LET d == AfterRead(c, f)
               i == FirstOf(Places(c, f))
           IN  /\ Good(S, d)
               /\ d.session = c.session /\ d.id = c.id /\ d.packets = c.packets
               /\ Places(c, f) = {} => d = c
               /\ Places(c, f) # {} =>
                    /\ Len(d.files) = Len(c.files)
                    /\ \A j \in 1 .. Len(c.files) :
                          d.files[j] = IF j = i THEN Advanced(c.files[i]) ELSE c.files[j]
<1>1. CASE Places(c, f) = {}
  BY <1>1 DEF AfterRead
<1>2. CASE Places(c, f) # {}
  <2>1. PICK i \in 1 .. Len(c.files) : i = FirstOf(Places(c, f))
    BY <1>2, PlacesIs
  <2> DEFINE g == Advanced(c.files[i])
             q == [c.files EXCEPT ![i] = g]
             n == Len(c.files)
  <2>2. c.files \in Seq(File) /\ c.files[i] \in File /\ c.files[i].pos <= FileSize[c.files[i].file]
    BY FilesIs
  <2>3. g \in File /\ g.pos <= FileSize[g.file]
    BY <2>2, ChunkType
  <2>4. AfterRead(c, f) = [c EXCEPT !.files = q]
    BY <1>2, <2>1 DEF AfterRead
  <2> HIDE DEF g
  <2>5. /\ q \in Seq(File) /\ Len(q) = n
        /\ \A j \in 1 .. n : q[j] = IF j = i THEN g ELSE c.files[j]
    BY <2>2, <2>3, ExceptSeq
  <2> HIDE DEF q, n
  <2>6. FilesInside(q)
    <3>1. DOMAIN q = 1 .. n
      BY <2>5, LenProperties
    <3>2. \A j \in 1 .. n : c.files[j].pos <= FileSize[c.files[j].file]
      BY FilesIs DEF n
    <3> QED  BY <2>3, <2>5, <3>1, <3>2 DEF FilesInside
  <2> QED  BY <1>2, <2>1, <2>4, <2>5, <2>6, Fields, GoodChanged DEF g, n
<1> QED  BY <1>1, <1>2

(* What a send of the i-th packet does. *)
Grown(w, s, x) == [w EXCEPT ![s] = Append(@, x)]
Shrunk(w, s) == [w EXCEPT ![s] = Tail(@)]

LEMMA SendIs ==
    ASSUME NEW i, Send(i)
    PROVE  \/ /\ UNCHANGED <<client, writing>>
              /\ client.session = None \/ client.packets = <<>>
              /\ crashed' = TRUE \/ (client.packets = <<>> /\ UNCHANGED crashed)
           \/ /\ client.session # None /\ client.packets # <<>> /\ UNCHANGED crashed
              /\ client' = Written(client, i).client
              /\ writing' = Grown(writing, client.session, Written(client, i).frame)
BY DEF Send, Grown

LEMMA WrittenIs ==
    ASSUME NEW S, NEW c, Good(S, c), NEW i \in 1 .. Len(c.packets),
           \A j \in 1 .. i - 1 : Sent(c.packets[j])
    PROVE  LET d == Written(c, i).client
               f == Written(c, i).frame
           IN  /\ Good(S, d) /\ f \in Frame
               /\ d.session = c.session /\ d.id = c.id /\ d.files = c.files
               /\ d.packets = BuffAt(c.packets, i)
               /\ DOMAIN d.packets = DOMAIN c.packets
               /\ \A j \in DOMAIN c.packets \ {i} : d.packets[j] = c.packets[j]
               /\ d.packets[i].id = c.packets[i].id /\ d.packets[i].body = c.packets[i].body
               /\ d.packets[i].frame = f
               /\ f = IF Sent(c.packets[i]) THEN c.packets[i].frame
                      ELSE [id |-> c.packets[i].id, body |-> c.packets[i].body]
BY WrittenKeeps, WrittenFields, GoodFields, BuffAtChanges

LEMMA WriteAdded ==
    ASSUME NEW w0 \in [Conn -> Seq(Frame)], NEW s \in Conn, NEW f \in Frame
    PROVE  Grown(w0, s, f) \in [Conn -> Seq(Frame)]
<1>1. w0[s] \in Seq(Frame)
  OBVIOUS
<1>2. Append(w0[s], f) \in Seq(Frame)
  BY <1>1
<1> QED  BY <1>2 DEF Grown

LEMMA SendKeeps ==
    ASSUME IInv, NEW i, Send(i),
           client.packets # <<>> =>
             i \in 1 .. Len(client.packets) /\ \A j \in 1 .. i - 1 : Sent(client.packets[j])
    PROVE  Good(Conn, client)' /\ WritesOK'
<1>1. CASE UNCHANGED <<client, writing>>
  BY <1>1 DEF IInv, WritesOK
<1>2. CASE /\ client.session # None /\ client.packets # <<>>
           /\ client' = Written(client, i).client
           /\ writing' = Grown(writing, client.session, Written(client, i).frame)
  <2>1. PICK s, f, d :
            /\ s \in Conn /\ f \in Frame /\ s = client.session /\ f = Written(client, i).frame
            /\ d = Written(client, i).client /\ Good(Conn, d)
    <3>1. client.session \in Conn /\ Good(Conn, client)
      BY <1>2, GoodFields DEF IInv
    <3>2. Written(client, i).frame \in Frame /\ Good(Conn, Written(client, i).client)
      BY <1>2, <3>1, WrittenIs
    <3> QED  BY <3>1, <3>2
  <2>2. client' = d /\ writing' = Grown(writing, s, f)
    BY <1>2, <2>1
  <2> QED  BY <2>1, <2>2, WriteAdded DEF IInv, WritesOK
<1> QED  BY <1>1, <1>2, SendIs

-----------------------------------------------------------------------------
Thread == [pc : Statements, body : Body]

LEMMA ThreadIs ==
    /\ \A t \in Thread : \A pc \in Statements :
          /\ [t EXCEPT !.pc = pc] \in Thread
          /\ [t EXCEPT !.pc = pc].pc = pc /\ [t EXCEPT !.pc = pc].body = t.body
    /\ \A pc \in Statements : \A b \in Body :
          At(pc, b) \in Thread /\ At(pc, b).pc = pc /\ At(pc, b).body = b
    /\ Idle \in Thread /\ Idle.pc = "idle" /\ Idle.body = Blank
BY IdleThread DEF Thread, At, Idle

LEMMA PcIs ==
    /\ {"idle", "scan", "files", "queue", "alone", "tell"} \subseteq Statements
    /\ {"read", "push", "id", "data", "test", "send"} \subseteq Statements
BY DEF Statements

LEMMA BodyIs ==
    /\ \A t \in Texts : Text(t) \in Body /\ Text(t).of = t
    /\ \A f \in Files : LET b == [Blank EXCEPT !.of = f] IN b \in Body /\ b.of = f
    /\ \A b \in Body, n \in Nat :
          LET d == [b EXCEPT !.off = n] IN d \in Body /\ d.of = b.of /\ d.off = n /\ d.len = b.len
BY SlideClientAssumption DEF Text, Blank, Body

(* Where the host's thread goes from a statement, and with which body.     *)
UiGoes(pc, b) == ui' \in Thread /\ ui'.pc = pc /\ ui'.body = b

(* Both threads keep their types when one goes on. *)
LEMMA ThreadsKept ==
    ASSUME ThreadsOK,
           \/ /\ UNCHANGED io /\ ui' \in Thread
              /\ ui'.pc # "idle" => ui'.body.of \in Texts \cup Files
              /\ ui'.pc \in {"queue", "alone", "tell", "read"} => ui'.body.of \in Files
              /\ ui'.pc = "read" => ui'.body.off <= FileSize[ui'.body.of]
           \/ /\ UNCHANGED ui /\ io' \in Thread
              /\ io'.pc \in {"read", "push", "id", "data", "send"} => io'.body.of \in Files
              /\ io'.pc = "read" => io'.body.off <= FileSize[io'.body.of]
    PROVE  ThreadsOK'
BY DEF ThreadsOK, Thread

LEMMA ThreadsAre ==
    ASSUME ThreadsOK
    PROVE  /\ ui \in Thread /\ io \in Thread
           /\ ui.pc \in Statements /\ ui.body \in Body /\ io.pc \in Statements /\ io.body \in Body
BY DEF ThreadsOK, Thread

(* What a statement of the host's thread does to it. *)
LEMMA HostGoes ==
    ASSUME IInv, HostStep
    PROVE  /\ UNCHANGED <<io, asked, reading, owed, made, again, delivered>>
           /\ ui \in Thread /\ ui.pc # "idle"
           /\ \/ FileQueue /\ ui.pc = "queue" /\ UiGoes("alone", ui.body)
              \/ FileAlone /\ ui.pc = "alone" /\ (UiGoes("tell", ui.body) \/ ui' = Idle)
              \/ /\ FileTell /\ ui.pc = "tell"
                 /\ \/ ui' = Idle
                    \/ /\ UiGoes("read", [ui.body EXCEPT !.off = Position(client, ui.body.of)])
                       /\ ui.body.of \notin Oversize
              \/ FileRead /\ ui.pc = "read" /\ UiGoes("push", ReadInto(client, ui.body))
              \/ HostPush /\ ui.pc = "push" /\ UiGoes("id", ui.body)
              \/ HostId /\ ui.pc = "id" /\ UiGoes("data", ui.body)
              \/ HostData /\ ui.pc = "data" /\ ui.body.of \in Texts /\ UiGoes("test", ui.body)
              \/ HostData /\ ui.pc = "data" /\ ui.body.of \notin Texts /\ UiGoes("send", ui.body)
              \/ TextTest /\ ui.pc = "test" /\ (UiGoes("send", ui.body) \/ ui' = Idle)
              \/ HostSend /\ ui.pc = "send" /\ ui' = Idle
<1>1. ui \in Thread /\ ThreadsOK /\ Good(Conn, client) /\ ui.body \in Body
  BY ThreadsAre DEF IInv
<1>2. \A pc \in Statements : Goes(pc) => UiGoes(pc, ui.body)
  BY <1>1, ThreadIs DEF Goes, UiGoes
<1>3. CASE FileQueue
  BY <1>1, <1>2, <1>3, PcIs DEF FileQueue, HostAt
<1>4. CASE FileAlone
  BY <1>1, <1>2, <1>4, PcIs DEF FileAlone, HostAt
<1>5. CASE FileTell
  <2>1. ui.pc = "tell" /\ ui.body.of \in Files
    BY <1>1, <1>5 DEF FileTell, HostAt, ThreadsOK
  <2>2. [ui.body EXCEPT !.off = Position(client, ui.body.of)] \in Body
    BY <1>1, <2>1, PlacesIs, BodyIs
  <2>3. \/ ui' = Idle
        \/ /\ UiGoes("read", [ui.body EXCEPT !.off = Position(client, ui.body.of)])
           /\ ui.body.of \notin Oversize
    BY <1>5, <2>2, PcIs, ThreadIs DEF FileTell, UiGoes
  <2> QED  BY <1>1, <1>5, <2>1, <2>3 DEF FileTell, HostAt
<1>6. CASE FileRead
  <2>1. ui.pc = "read" /\ ui.body.of \in Files /\ ui.body.off <= FileSize[ui.body.of]
    BY <1>1, <1>6 DEF FileRead, HostAt, ThreadsOK
  <2>2. ReadInto(client, ui.body) \in Body
    BY <1>1, <2>1, ReadIntoIs
  <2>3. UiGoes("push", ReadInto(client, ui.body))
    BY <1>6, <2>2, PcIs, ThreadIs DEF FileRead, UiGoes
  <2> QED  BY <1>1, <1>6, <2>1, <2>3 DEF FileRead, HostAt
<1>7. CASE HostPush \/ HostId \/ HostData
  BY <1>1, <1>2, <1>7, PcIs DEF HostPush, HostId, HostData, HostAt
<1>8. CASE TextTest \/ HostSend
  BY <1>1, <1>2, <1>8, PcIs DEF TextTest, HostSend, HostAt
<1> QED  BY <1>3, <1>4, <1>5, <1>6, <1>7, <1>8 DEF HostStep

LEMMA HostThreads ==
    ASSUME IInv, HostStep
    PROVE  ThreadsOK'
<1>1. ui \in Thread /\ ThreadsOK /\ Good(Conn, client) /\ ui.body \in Body
  BY ThreadsAre DEF IInv
<1>2. UNCHANGED io /\ ui.pc # "idle"
  BY HostGoes
<1>3. ui.body.of \in Texts \cup Files /\ (ui.pc \in {"queue", "alone", "tell", "read"} => ui.body.of \in Files)
  BY <1>1, <1>2 DEF ThreadsOK
<1>4. CASE ui' = Idle
  BY <1>1, <1>2, <1>4, ThreadIs, ThreadsKept
<1>5. ASSUME NEW pc \in {"alone", "tell", "push", "id", "data", "test", "send"}, UiGoes(pc, ui.body),
             pc \in {"alone", "tell"} => ui.body.of \in Files
      PROVE  ThreadsOK'
  BY <1>1, <1>2, <1>3, <1>5, ThreadsKept DEF UiGoes
<1>6. CASE ui.pc = "tell" /\ UiGoes("read", [ui.body EXCEPT !.off = Position(client, ui.body.of)])
  <2>1. PICK n \in Nat : n = Position(client, ui.body.of) /\ n <= FileSize[ui.body.of]
    BY <1>1, <1>3, <1>6, PlacesIs
  <2>2. ui'.pc = "read" /\ ui'.body.of = ui.body.of /\ ui'.body.off = n /\ ui' \in Thread
    BY <1>1, <1>6, <2>1, BodyIs DEF UiGoes
  <2> QED  BY <1>1, <1>2, <1>3, <1>6, <2>1, <2>2, ThreadsKept
<1>7. CASE ui.pc = "read" /\ UiGoes("push", ReadInto(client, ui.body))
  <2>1. ui.body.off <= FileSize[ui.body.of]
    BY <1>1, <1>7 DEF ThreadsOK
  <2>2. ReadInto(client, ui.body).of = ui.body.of
    BY <1>1, <1>3, <1>7, <2>1, ReadIntoIs
  <2> QED  BY <1>1, <1>2, <1>3, <1>7, <2>2, ThreadsKept DEF UiGoes
<1> QED  BY <1>3, <1>4, <1>5, <1>6, <1>7, HostGoes

(* push_back of a file, pop_back and pop_front. *)
LEMMA QueuedIs ==
    ASSUME NEW S, NEW c, Good(S, c), NEW f \in Files
    PROVE  LET g == [file |-> f, pos |-> 0]
               d == [c EXCEPT !.files = Append(@, g)]
               n == Len(c.files)
           IN  /\ Good(S, d)
               /\ d.session = c.session /\ d.id = c.id /\ d.packets = c.packets
               /\ Len(d.files) = n + 1 /\ n \in Nat
               /\ \A i \in 1 .. n : d.files[i] = c.files[i]
               /\ d.files[n + 1] = g
<1> DEFINE g == [file |-> f, pos |-> 0]
           q == Append(c.files, g)
           n == Len(c.files)
<1>1. g \in File /\ g.pos <= FileSize[g.file]
  BY SlideClientAssumption DEF File
<1> HIDE DEF g
<1>2. /\ c.files \in Seq(File) /\ n \in Nat
      /\ \A i \in 1 .. n : c.files[i].pos <= FileSize[c.files[i].file]
  BY FilesIs
<1>3. /\ q \in Seq(File) /\ Len(q) = n + 1
      /\ \A i \in 1 .. n : q[i] = c.files[i]
      /\ q[n + 1] = g
  BY <1>1, <1>2
<1>4. DOMAIN q = 1 .. n + 1
  BY <1>3, LenProperties
<1> HIDE DEF q, n
<1>5. FilesInside(q)
  <2>1. \A i \in 1 .. n + 1 : i \in 1 .. n \/ i = n + 1
    BY <1>2
  <2> QED  BY <1>1, <1>2, <1>3, <1>4, <2>1 DEF FilesInside
<1>6. [c EXCEPT !.files = Append(@, g)] = [c EXCEPT !.files = q]
  BY DEF q
<1>7. LET d == [c EXCEPT !.files = q]
      IN  /\ Good(S, d)
          /\ d.session = c.session /\ d.id = c.id /\ d.packets = c.packets
          /\ d.files = q
  BY <1>3, <1>5, Fields, GoodChanged
<1> QED  BY <1>2, <1>3, <1>6, <1>7 DEF g, n

LEMMA FewerFiles ==
    ASSUME NEW S, NEW c, Good(S, c), c.files # <<>>
    PROVE  /\ Good(S, [c EXCEPT !.files = Front(@)])
           /\ Good(S, [c EXCEPT !.files = Tail(@)])
           /\ Len(Front(c.files)) = Len(c.files) - 1
           /\ \A i \in 1 .. Len(c.files) - 1 : Front(c.files)[i] = c.files[i]
           /\ Len(Tail(c.files)) = Len(c.files) - 1
           /\ \A i \in 1 .. Len(c.files) - 1 : Tail(c.files)[i] = c.files[i + 1]
           /\ Len(c.files) \in Nat \ {0} /\ Head(c.files) = c.files[1]
<1> DEFINE n == Len(c.files)
           front == Front(c.files)
           tail == Tail(c.files)
<1>1. /\ c.files \in Seq(File) /\ n \in Nat \ {0}
      /\ \A i \in 1 .. n : c.files[i] \in File /\ c.files[i].pos <= FileSize[c.files[i].file]
  BY FilesIs, EmptySeq
<1>2. /\ tail \in Seq(File) /\ Len(tail) = n - 1 /\ Head(c.files) = c.files[1]
      /\ \A i \in 1 .. n - 1 : tail[i] = c.files[i + 1]
  BY <1>1, HeadTailProperties
<1>3. /\ front \in Seq(File) /\ Len(front) = n - 1
      /\ \A i \in 1 .. n - 1 : front[i] = c.files[i]
  <2>1. /\ 1 \in Int /\ n - 1 \in Int /\ \A i \in 1 .. n - 1 : c.files[i] \in File
    BY <1>1
  <2>2. /\ SubSeq(c.files, 1, n - 1) \in Seq(File)
        /\ Len(SubSeq(c.files, 1, n - 1)) = IF 1 <= n - 1 THEN n - 1 - 1 + 1 ELSE 0
        /\ \A i \in 1 .. n - 1 - 1 + 1 : SubSeq(c.files, 1, n - 1)[i] = c.files[1 + i - 1]
    BY <2>1, SubSeqProperties
  <2>3. front = SubSeq(c.files, 1, n - 1)
    BY DEF Front
  <2> HIDE DEF front
  <2> QED  BY <1>1, <2>2, <2>3
<1> HIDE DEF n, front, tail
<1>4. DOMAIN tail = 1 .. n - 1 /\ DOMAIN front = 1 .. n - 1
  BY <1>2, <1>3, LenProperties
<1>5. FilesInside(tail) /\ FilesInside(front)
  <2>1. \A i \in 1 .. n - 1 : i \in 1 .. n /\ i + 1 \in 1 .. n
    BY <1>1
  <2> QED  BY <1>1, <1>2, <1>3, <1>4, <2>1 DEF FilesInside
<1>6. Good(S, [c EXCEPT !.files = front]) /\ Good(S, [c EXCEPT !.files = tail])
  BY <1>2, <1>3, <1>5, GoodChanged
<1> QED  BY <1>1, <1>2, <1>3, <1>6 DEF n, front, tail

LEMMA HostKeeps ==
    ASSUME IInv, HostStep
    PROVE  IInv'
<1>1. /\ Good(Conn, client) /\ ThreadsOK /\ WritesOK /\ DeviceOK
      /\ ui.body \in Body
  BY ThreadsAre DEF IInv
<1>2. UNCHANGED <<reading, owed, made, again>>
  BY HostGoes
<1>3. DeviceOK'
  BY <1>1, <1>2 DEF DeviceOK
<1>4. Good(Conn, client)' /\ WritesOK'
  <2>1. CASE UNCHANGED <<client, writing>>
    BY <1>1, <2>1 DEF WritesOK
  <2>2. ASSUME NEW d, Good(Conn, d), client' = d, UNCHANGED writing
        PROVE  Good(Conn, client)' /\ WritesOK'
    BY <1>1, <2>2 DEF WritesOK
  <2>3. CASE FileQueue
    <3>1. ui.body.of \in Files
      BY <1>1, <2>3 DEF FileQueue, HostAt, ThreadsOK
    <3> DEFINE d == [client EXCEPT !.files = Append(@, [file |-> ui.body.of, pos |-> 0])]
    <3>2. Good(Conn, d)
      BY <1>1, <3>1, QueuedIs
    <3>3. client' = d /\ UNCHANGED writing
      BY <2>3 DEF FileQueue, NothingSent
    <3> HIDE DEF d
    <3> QED  BY <2>2, <3>2, <3>3
  <2>4. CASE FileTell
    <3>1. CASE client' = client
      BY <2>1, <2>4, <3>1 DEF FileTell, NothingSent
    <3>2. CASE client' = [client EXCEPT !.files = IF @ = <<>> THEN @ ELSE Front(@)]
      <4>1. CASE client.files = <<>>
        <5>1. client' = [client EXCEPT !.files = client.files]
          BY <3>2, <4>1
        <5>2. Good(Conn, [client EXCEPT !.files = client.files])
          BY <1>1, FilesIs, GoodChanged
        <5> QED  BY <2>2, <2>4, <5>1, <5>2 DEF FileTell, NothingSent
      <4>2. CASE client.files # <<>>
        <5>1. client' = [client EXCEPT !.files = Front(@)]
          BY <3>2, <4>2
        <5>2. Good(Conn, [client EXCEPT !.files = Front(@)])
          BY <1>1, <4>2, FewerFiles
        <5> QED  BY <2>2, <2>4, <5>1, <5>2 DEF FileTell, NothingSent
      <4> QED  BY <4>1, <4>2
    <3> QED  BY <2>4, <3>1, <3>2 DEF FileTell
  <2>5. CASE FileRead
    <3>1. ui.body.of \in Files
      BY <1>1, <2>5 DEF FileRead, HostAt, ThreadsOK
    <3> QED  BY <1>1, <2>2, <2>5, <3>1, AfterReadIs DEF FileRead, NothingSent
  <2>6. CASE HostPush
    BY <1>1, <2>2, <2>6, PushedIs DEF HostPush, NothingSent
  <2>7. CASE HostId
    BY <1>1, <2>2, <2>7, NamedIs DEF HostId, NothingSent
  <2>8. CASE HostData
    BY <1>1, <2>2, <2>8, FilledIs DEF HostData, NothingSent
  <2>9. CASE HostSend
    <3>1. Send(1)
      BY <2>9 DEF HostSend
    <3>2. client.packets # <<>> => 1 \in 1 .. Len(client.packets) /\ \A j \in 1 .. 1 - 1 : Sent(client.packets[j])
      BY <1>1, LastIs
    <3> QED  BY <3>1, <3>2, SendKeeps
  <2>10. CASE FileAlone \/ TextTest
    BY <2>1, <2>10 DEF FileAlone, TextTest, NothingSent
  <2> QED  BY <2>3, <2>4, <2>5, <2>6, <2>7, <2>8, <2>9, <2>10 DEF HostStep
<1> QED  BY <1>3, <1>4, HostThreads DEF IInv

(* A call only starts send(). *)
LEMMA CallIs ==
    ASSUME NEW x, (x \in Texts /\ CallText(x)) \/ (x \in Files /\ CallFile(x))
    PROVE  /\ UNCHANGED <<client, io, writing, reading, owed, made, again, crashed, delivered>>
           /\ ui = Idle /\ HostTurn /\ x \notin asked /\ asked' = asked \cup {x}
           /\ client.session # None
           /\ \/ x \in Texts /\ UiGoes("push", Text(x)) /\ accepted' = accepted \cup {x}
              \/ /\ x \in Files /\ UNCHANGED accepted
                 /\ UiGoes("queue", [Blank EXCEPT !.of = x])
<1>1. CASE x \in Texts /\ CallText(x)
  BY <1>1, BodyIs, PcIs, ThreadIs DEF CallText, Call, UiGoes
<1>2. CASE x \in Files /\ CallFile(x)
  BY <1>2, BodyIs, PcIs, ThreadIs DEF CallFile, Call, UiGoes
<1> QED  BY <1>1, <1>2

LEMMA CallKeeps ==
    ASSUME IInv, NEW x, (x \in Texts /\ CallText(x)) \/ (x \in Files /\ CallFile(x))
    PROVE  IInv'
<1>1. UNCHANGED <<client, io, writing, reading, owed, made, again>>
  BY CallIs
<1>2. ThreadsOK'
  <2>1. \/ x \in Texts /\ UiGoes("push", Text(x))
        \/ x \in Files /\ UiGoes("queue", [Blank EXCEPT !.of = x])
    BY CallIs
  <2>2. /\ ui' \in Thread /\ ui'.pc \in {"push", "queue"} /\ ui'.body.of \in Texts \cup Files
        /\ ui'.pc = "queue" => ui'.body.of \in Files
    BY <2>1, BodyIs DEF UiGoes
  <2> QED  BY <1>1, <2>2, ThreadsKept DEF IInv
<1> QED  BY <1>1, <1>2 DEF IInv, WritesOK, DeviceOK

-----------------------------------------------------------------------------
(* Where the io_service's thread goes from a statement of handle_write.    *)
IoNow(pc, b) == io' \in Thread /\ io'.pc = pc /\ io'.body = b

FrontPiece == [of |-> Head(client.files).file, off |-> Head(client.files).pos, len |-> 0]

LEMMA FrontPieceIs ==
    ASSUME NEW S, Good(S, client), client.files # <<>>
    PROVE  /\ FrontPiece \in Body /\ FrontPiece.of \in Files
           /\ FrontPiece.off <= FileSize[FrontPiece.of]
<1>1. Len(client.files) \in Nat \ {0}
  BY FilesIs, EmptySeq
<1>2. client.files[1] \in File /\ client.files[1].pos <= FileSize[client.files[1].file]
  BY <1>1, FilesIs
<1> QED  BY <1>1, <1>2, FilesIs DEF FrontPiece, File, Body

LEMMA IoIs ==
    ASSUME IInv, IoStep
    PROVE  /\ UNCHANGED <<ui, asked, reading, owed, made, again, accepted, delivered>>
           /\ io \in Thread /\ io.pc # "idle"
           /\ \/ /\ IoScan /\ io.pc = "scan"
                 /\ \/ IoNow("files", io.body) /\ Unsent(client.packets) = {} /\ UNCHANGED <<client, writing, crashed>>
                    \/ io' = Idle /\ Unsent(client.packets) # {} /\ Send(FirstOf(Unsent(client.packets)))
              \/ /\ IoFiles /\ io.pc = "files" /\ UNCHANGED <<client, writing, crashed>>
                 /\ IF client.files = <<>> THEN io' = Idle ELSE IoNow("tell", io.body)
              \/ /\ IoTell /\ io.pc = "tell" /\ UNCHANGED <<client, writing>>
                 /\ IF client.files = <<>> THEN crashed' = TRUE /\ UNCHANGED io
                    ELSE UNCHANGED crashed /\ IoNow("read", FrontPiece)
              \/ /\ IoRead /\ io.pc = "read" /\ UNCHANGED <<writing, crashed>>
                 /\ IoNow("push", ReadInto(client, io.body))
              \/ /\ IoPush /\ io.pc = "push" /\ UNCHANGED <<writing, crashed>> /\ IoNow("id", io.body)
                 /\ client' = Pushed(client, io.body)
              \/ /\ IoId /\ io.pc = "id" /\ UNCHANGED <<writing, crashed>> /\ IoNow("data", io.body)
                 /\ client' = Named(client)
              \/ /\ IoData /\ io.pc = "data" /\ UNCHANGED <<writing, crashed>> /\ IoNow("send", io.body)
                 /\ client' = Filled(client, io.body)
              \/ IoSend /\ io.pc = "send" /\ io' = Idle /\ Send(1)
<1>1. io \in Thread /\ ThreadsOK /\ Good(Conn, client) /\ io.body \in Body
  BY ThreadsAre DEF IInv
<1>2. \A pc \in Statements : IoGoes(pc) => IoNow(pc, io.body)
  BY <1>1, ThreadIs DEF IoGoes, IoNow
<1>3. CASE IoScan
  BY <1>1, <1>2, <1>3, PcIs DEF IoScan, IoAt, NothingSent
<1>4. CASE IoFiles
  BY <1>1, <1>2, <1>4, PcIs DEF IoFiles, IoAt, NothingSent
<1>5. CASE IoTell
  <2>1. CASE client.files = <<>>
    BY <1>1, <1>5, <2>1 DEF IoTell, IoAt
  <2>2. CASE client.files # <<>>
    <3>1. io' = At("read", FrontPiece) /\ UNCHANGED <<crashed, client, writing>> /\ io.pc = "tell"
      BY <1>5, <2>2 DEF IoTell, IoAt, FrontPiece
    <3>2. IoNow("read", FrontPiece)
      BY <1>1, <2>2, <3>1, FrontPieceIs, ThreadIs, PcIs DEF IoNow
    <3> QED  BY <1>1, <1>5, <2>2, <3>1, <3>2 DEF IoTell, IoAt
  <2> QED  BY <2>1, <2>2
<1>6. CASE IoRead
  <2>1. io.pc = "read" /\ io.body.of \in Files /\ io.body.off <= FileSize[io.body.of]
    BY <1>1, <1>6 DEF IoRead, IoAt, ThreadsOK
  <2>2. ReadInto(client, io.body) \in Body
    BY <1>1, <2>1, ReadIntoIs
  <2>3. IoNow("push", ReadInto(client, io.body))
    BY <1>6, <2>2, PcIs, ThreadIs DEF IoRead, IoNow
  <2> QED  BY <1>1, <1>6, <2>1, <2>3 DEF IoRead, IoAt, NothingSent
<1>7. CASE IoPush \/ IoId \/ IoData
  BY <1>1, <1>2, <1>7, PcIs DEF IoPush, IoId, IoData, IoAt, NothingSent
<1>8. CASE IoSend
  BY <1>1, <1>2, <1>8, PcIs DEF IoSend, IoAt
<1> QED  BY <1>3, <1>4, <1>5, <1>6, <1>7, <1>8 DEF IoStep

LEMMA IoThreads ==
    ASSUME IInv, IoStep
    PROVE  ThreadsOK'
<1>1. io \in Thread /\ ThreadsOK /\ Good(Conn, client) /\ io.body \in Body
  BY ThreadsAre DEF IInv
<1>2. UNCHANGED ui
  BY IoIs
<1>3. CASE io' = Idle
  BY <1>1, <1>2, <1>3, ThreadIs, ThreadsKept
<1>4. CASE UNCHANGED io
  BY <1>1, <1>2, <1>4 DEF ThreadsOK
<1>5. ASSUME NEW pc \in {"files", "tell", "id", "data", "send"}, IoNow(pc, io.body),
             io.pc \in {"push", "id", "data"} \/ pc \in {"files", "tell"}
      PROVE  ThreadsOK'
  <2>1. pc \in {"id", "data", "send"} => io.body.of \in Files
    BY <1>1, <1>5 DEF ThreadsOK
  <2> QED  BY <1>1, <1>2, <1>5, <2>1, ThreadsKept DEF IoNow
<1>6. CASE client.files # <<>> /\ IoNow("read", FrontPiece)
  BY <1>1, <1>2, <1>6, FrontPieceIs, ThreadsKept DEF IoNow
<1>7. CASE io.pc = "read" /\ IoNow("push", ReadInto(client, io.body))
  <2>1. io.body.of \in Files /\ io.body.off <= FileSize[io.body.of]
    BY <1>1, <1>7 DEF ThreadsOK
  <2>2. ReadInto(client, io.body).of = io.body.of
    BY <1>1, <2>1, ReadIntoIs
  <2> QED  BY <1>1, <1>2, <1>7, <2>1, <2>2, ThreadsKept DEF IoNow
<1> QED  BY <1>3, <1>4, <1>5, <1>6, <1>7, IoIs

(* The first packet that was not sent: every packet before it was. *)
LEMMA FirstUnsent ==
    ASSUME NEW S, NEW c, Good(S, c), Unsent(c.packets) # {}
    PROVE  LET i == FirstOf(Unsent(c.packets))
           IN  /\ i \in 1 .. Len(c.packets) /\ i \in Unsent(c.packets) /\ c.packets # <<>>
               /\ \A j \in 1 .. i - 1 : Sent(c.packets[j])
<1>1. c.packets \in Seq(Packet) /\ DOMAIN c.packets = 1 .. Len(c.packets) /\ Len(c.packets) \in Nat
  BY GoodFields, LenProperties
<1>2. Unsent(c.packets) \in SUBSET Nat
  BY <1>1 DEF Unsent
<1>3. PICK i : i = FirstOf(Unsent(c.packets)) /\ i \in Unsent(c.packets)
             /\ \A j \in Unsent(c.packets) : i <= j
  BY <1>2, FirstExists
<1>4. i \in 1 .. Len(c.packets)
  BY <1>1, <1>3 DEF Unsent
<1>6. \A j \in 1 .. i - 1 : j \in 1 .. Len(c.packets) /\ ~(i <= j)
  BY <1>1, <1>4
<1>5. c.packets # <<>>
  BY <1>1, <1>4, EmptySeq
<1> QED  BY <1>1, <1>3, <1>4, <1>5, <1>6 DEF Unsent

LEMMA IoKeeps ==
    ASSUME IInv, IoStep
    PROVE  IInv'
<1>1. /\ Good(Conn, client) /\ ThreadsOK /\ WritesOK /\ DeviceOK
      /\ io.body \in Body
  BY ThreadsAre DEF IInv
<1>2. UNCHANGED <<reading, owed, made, again>>
  BY IoIs
<1>3. DeviceOK'
  BY <1>1, <1>2 DEF DeviceOK
<1>4. Good(Conn, client)' /\ WritesOK'
  <2>1. CASE UNCHANGED <<client, writing>>
    BY <1>1, <2>1 DEF WritesOK
  <2>2. ASSUME NEW d, Good(Conn, d), client' = d, UNCHANGED writing
        PROVE  Good(Conn, client)' /\ WritesOK'
    BY <1>1, <2>2 DEF WritesOK
  <2>3. CASE Unsent(client.packets) # {} /\ Send(FirstOf(Unsent(client.packets)))
    BY <1>1, <2>3, FirstUnsent, SendKeeps
  <2>4. CASE IoRead
    <3>1. io.body.of \in Files /\ UNCHANGED writing
      BY <1>1, <2>4 DEF IoRead, IoAt, ThreadsOK, NothingSent
    <3>2. \/ client.files # <<>> /\ client' = [client EXCEPT !.files = Tail(@)]
          \/ client' = AfterRead(client, io.body.of)
      BY <2>4 DEF IoRead
    <3>3. CASE client.files # <<>> /\ client' = [client EXCEPT !.files = Tail(@)]
      BY <1>1, <2>2, <3>1, <3>3, FewerFiles
    <3>4. CASE client' = AfterRead(client, io.body.of)
      BY <1>1, <2>2, <3>1, <3>4, AfterReadIs
    <3> QED  BY <3>2, <3>3, <3>4
  <2>5. CASE UNCHANGED writing /\ client' = Pushed(client, io.body)
    BY <1>1, <2>2, <2>5, PushedIs
  <2>6. CASE UNCHANGED writing /\ client' = Named(client)
    BY <1>1, <2>2, <2>6, NamedIs
  <2>7. CASE UNCHANGED writing /\ client' = Filled(client, io.body)
    BY <1>1, <2>2, <2>7, FilledIs
  <2>8. CASE Send(1)
    <3>1. client.packets # <<>> => 1 \in 1 .. Len(client.packets) /\ \A j \in 1 .. 1 - 1 : Sent(client.packets[j])
      BY <1>1, LastIs
    <3> QED  BY <2>8, <3>1, SendKeeps
  <2> QED  BY <2>1, <2>3, <2>4, <2>5, <2>6, <2>7, <2>8, IoIs
<1> QED  BY <1>3, <1>4, IoThreads DEF IInv

-----------------------------------------------------------------------------
(* The handlers. *)
LEMMA WriteRemoved ==
    ASSUME IInv, NEW c \in Conn, writing[c] # <<>>
    PROVE  /\ [writing EXCEPT ![c] = Tail(@)] \in [Conn -> Seq(Frame)]
           /\ Head(writing[c]) \in Frame
<1>1. writing[c] \in Seq(Frame) /\ writing \in [Conn -> Seq(Frame)]
  BY DEF IInv, WritesOK
<1>2. Tail(writing[c]) \in Seq(Frame) /\ Head(writing[c]) \in Frame
  BY <1>1, HeadTailProperties
<1> QED  BY <1>1, <1>2

(* What the handlers of the connection c leave alone. *)
LEMMA HandlerIs ==
    ASSUME NEW c \in Conn,
           \/ WriteDone(c) \/ WriteFail(c) \/ ReadFail(c) \/ BadFrame(c)
           \/ RecvAck(c) \/ Relogin(c) \/ LoginAgain(c)
    PROVE  /\ UNCHANGED <<ui, asked, accepted>> /\ io = Idle /\ ~crashed
           /\ io' = Idle \/ io' = At("scan", Blank)
BY DEF WriteDone, WriteFail, ReadFail, BadFrame, RecvAck, Relogin, LoginAgain, IoTurn, HandleWrites

LEMMA HandlerKeeps ==
    ASSUME IInv, Handler
    PROVE  IInv'
<1>1. Good(Conn, client) /\ ThreadsOK /\ WritesOK /\ DeviceOK
  BY DEF IInv
<1>2. PICK c \in Conn :
          \/ WriteDone(c) \/ WriteFail(c) \/ ReadFail(c) \/ BadFrame(c)
          \/ RecvAck(c) \/ Relogin(c) \/ LoginAgain(c)
  BY DEF Handler
<1>3. ThreadsOK'
  <2>1. UNCHANGED ui /\ io' \in Thread /\ io'.pc \in {"idle", "scan"}
    BY <1>2, HandlerIs, ThreadIs, PcIs, IdleThread
  <2> QED  BY <1>1, <2>1, ThreadsKept
<1>4. \A s \in Conn \cup {None} : Good(Conn, [client EXCEPT !.session = s])
  BY <1>1, GoodChanged
<1>5. CASE WriteDone(c)
  <2>1. [writing EXCEPT ![c] = Tail(@)] \in [Conn -> Seq(Frame)] /\ Head(writing[c]) \in Frame
    BY <1>5, WriteRemoved DEF WriteDone
  <2>2. owed[c] \in Seq(0 .. MaxId) /\ Head(writing[c]).id \in 0 .. MaxId
    BY <1>1, <2>1 DEF DeviceOK, Frame
  <2>3. Append(owed[c], Head(writing[c]).id) \in Seq(0 .. MaxId)
    BY <2>2
  <2>4. owed' \in [Conn -> Seq(0 .. MaxId)]
    BY <1>1, <1>5, <2>3 DEF WriteDone, DeviceOK
  <2> QED  BY <1>1, <1>3, <1>5, <2>1, <2>4 DEF IInv, WriteDone, Completed, WritesOK, DeviceOK
<1>6. CASE WriteFail(c)
  <2>1. [writing EXCEPT ![c] = Tail(@)] \in [Conn -> Seq(Frame)]
    BY <1>6, WriteRemoved DEF WriteFail
  <2>2. Good(Conn, client)'
    BY <1>1, <1>4, <1>6 DEF WriteFail, Closed
  <2> QED  BY <1>1, <1>3, <1>6, <2>1, <2>2 DEF IInv, WriteFail, Completed, WritesOK, DeviceOK
<1>7. CASE ReadFail(c) \/ BadFrame(c)
  <2>1. Good(Conn, client)'
    BY <1>1, <1>4, <1>7 DEF ReadFail, BadFrame, Closed
  <2>2. owed' \in [Conn -> Seq(0 .. MaxId)]
    BY <1>1, <1>7, EmptySeq DEF ReadFail, BadFrame, DeviceOK
  <2>3. reading' \subseteq reading /\ UNCHANGED <<writing, made, again>>
    BY <1>7 DEF ReadFail, BadFrame
  <2> QED  BY <1>1, <1>3, <2>1, <2>2, <2>3 DEF IInv, WritesOK, DeviceOK
<1>8. CASE RecvAck(c)
  <2>1. Good(Conn, client)'
    <3> DEFINE q == Acknowledged(client.packets, Head(owed[c]))
    <3>1. q \in Seq(Packet) /\ Ordered(q)
      BY <1>1, GoodFields, AcknowledgedKeeps
    <3>2. client' = [client EXCEPT !.packets = q]
      BY <1>8 DEF RecvAck
    <3> HIDE DEF q
    <3> QED  BY <1>1, <3>1, <3>2, GoodChanged
  <2>2. owed' \in [Conn -> Seq(0 .. MaxId)]
    <3>1. owed[c] \in Seq(0 .. MaxId) /\ owed[c] # <<>>
      BY <1>1, <1>8 DEF RecvAck, DeviceOK
    <3>2. Tail(owed[c]) \in Seq(0 .. MaxId)
      BY <3>1, HeadTailProperties
    <3> QED  BY <1>1, <1>8, <3>2 DEF RecvAck, DeviceOK
  <2> QED  BY <1>1, <1>3, <1>8, <2>1, <2>2 DEF IInv, RecvAck, WritesOK, DeviceOK
<1>9. CASE Relogin(c)
  <2>1. Good(Conn, client)'
    BY <1>1, <1>4, <1>9 DEF Relogin
  <2>2. DeviceOK'
    BY <1>1, <1>9, ClientPumpAssumption DEF Relogin, DeviceOK, Conn
  <2> QED  BY <1>1, <1>3, <1>9, <2>1, <2>2 DEF IInv, Relogin, WritesOK
<1>10. CASE LoginAgain(c)
  <2> DEFINE q == ResetAll(client.packets)
  <2>1. q \in Seq(Packet) /\ Ordered(q)
    BY <1>1, GoodFields, ResetKeeps
  <2>2. client' = [client EXCEPT !.packets = q]
    BY <1>10 DEF LoginAgain
  <2> HIDE DEF q
  <2>3. Good(Conn, client)'
    BY <1>1, <2>1, <2>2, GoodChanged
  <2>4. DeviceOK' /\ WritesOK'
    BY <1>1, <1>10 DEF LoginAgain, DeviceOK, WritesOK
  <2> QED  BY <1>3, <2>3, <2>4 DEF IInv
<1> QED  BY <1>2, <1>5, <1>6, <1>7, <1>8, <1>9, <1>10

LEMMA HostNextKeeps == ASSUME IInv, Host PROVE IInv'
BY HostKeeps, CallKeeps DEF Host

LEMMA NextIInv == IInv /\ [Next]_vars => IInv'
<1> SUFFICES ASSUME IInv, [Next]_vars PROVE IInv'
  OBVIOUS
<1>1. CASE Host \/ IoStep \/ Handler
  BY <1>1, HostNextKeeps, IoKeeps, HandlerKeeps
<1>2. CASE UNCHANGED vars
  BY <1>2 DEF vars, IInv, ThreadsOK, WritesOK, DeviceOK
<1> QED  BY <1>1, <1>2 DEF Next

-----------------------------------------------------------------------------
(* The client, the two threads, the writes in flight and what the device   *)
(* owes have their types in every state of the two threads.                *)
THEOREM TypeCorrect == Spec => []TypeOK
<1>1. IInv => TypeOK
  BY IInvImplies
<1> QED  BY <1>1, InitIInv, NextIInv, PTL DEF Spec

(* For any number of packets, connections, logins and identifiers, and     *)
(* however the threads interleave, handle_write never overtakes a packet:  *)
(* those that were sent come first in m_packets.                           *)
THEOREM PumpInOrder == Spec => []SentPrefix
<1>1. IInv => SentPrefix
  BY IInvImplies
<1> QED  BY <1>1, InitIInv, NextIInv, PTL DEF Spec

-----------------------------------------------------------------------------
(* The statements of the host's thread while something is stranded. *)
LEMMA StrandedStays ==
    ASSUME Stranded, ThreadsOK, ThreadsOK', UNCHANGED <<io, writing>>,
           client'.packets = client.packets,
           ui'.pc \in {"idle", "push", "queue", "alone"},
           ui'.body.of \in Files => ui'.pc \in {"queue", "alone"}
    PROVE  Quiet' /\ Stranded'
BY DEF Stranded, Quiet, Unsent

LEMMA StrandedHost ==
    ASSUME IInv, IInv', Stranded, HostStep
    PROVE  Quiet' /\ Stranded'
<1>1. /\ Good(Conn, client) /\ ThreadsOK /\ ThreadsOK' /\ ui.body \in Body
  BY ThreadsAre DEF IInv
<1>2. UNCHANGED io /\ ui.pc \notin {"tell", "read", "send", "idle"}
      /\ (ui.body.of \in Files => ui.pc \in {"queue", "alone"})
  BY HostGoes DEF Stranded, Quiet
<1>3. PICK i \in Unsent(client.packets) : ui.pc \in {"id", "data", "test"} => i < Len(client.packets)
  BY DEF Stranded
<1>4. /\ client.packets \in Seq(Packet) /\ Len(client.packets) \in Nat \ {0}
      /\ i \in 1 .. Len(client.packets) /\ ~Sent(client.packets[i]) /\ client.packets # <<>>
  <2>1. client.packets \in Seq(Packet)
    BY <1>1, GoodFields
  <2>2. i \in DOMAIN client.packets /\ ~Sent(client.packets[i])
    BY <1>3 DEF Unsent
  <2> QED  BY <2>1, <2>2, LenProperties, EmptySeq
<1>5. Idle.pc = "idle" /\ Idle.body.of \notin Files
  BY ThreadIs, SlideClientAssumption DEF Blank
<1>6. CASE FileQueue
  <2>1. UNCHANGED writing /\ client'.packets = client.packets
    BY <1>1, <1>6, Fields DEF FileQueue, NothingSent
  <2>2. UiGoes("alone", ui.body)
    BY <1>6, HostGoes DEF FileQueue, FileAlone, FileTell, FileRead, HostPush, HostId, HostData, TextTest, HostSend, HostAt
  <2> QED  BY <1>1, <1>2, <2>1, <2>2, StrandedStays DEF UiGoes
<1>7. CASE FileAlone
  <2>1. UNCHANGED <<client, writing>> /\ ui' = Idle
    BY <1>4, <1>7 DEF FileAlone, NothingSent
  <2> QED  BY <1>1, <1>2, <1>5, <2>1, StrandedStays
<1>8. CASE TextTest
  <2>1. i < Len(client.packets)
    BY <1>3, <1>8 DEF TextTest, HostAt
  <2>2. \A n \in Nat : i \in 1 .. n /\ i < n => n # 1
    OBVIOUS
  <2>4. Len(client.packets) # 1
    BY <1>4, <2>1, <2>2
  <2>3. UNCHANGED <<client, writing>> /\ ui' = Idle
    BY <1>8, <2>4 DEF TextTest, NothingSent
  <2> QED  BY <1>1, <1>2, <1>5, <2>3, StrandedStays
<1>9. ASSUME NEW d, client' = d, UNCHANGED writing,
             ui'.pc \in {"id", "data", "test"}, ui'.body = ui.body, ui.pc \notin {"queue", "alone"},
             d.packets \in Seq(Packet),
             i < Len(d.packets), d.packets[i] = client.packets[i]
      PROVE  Quiet' /\ Stranded'
  <2>1. ui'.body.of \notin Files
    BY <1>2, <1>9
  <2>2. Quiet'
    BY <1>2, <1>9, <2>1 DEF Stranded, Quiet
  <2>3. i \in Unsent(client'.packets) /\ i < Len(client'.packets)
    <3>1. Len(d.packets) \in Nat /\ DOMAIN d.packets = 1 .. Len(d.packets)
      BY <1>9, LenProperties
    <3> QED  BY <1>4, <1>9, <3>1 DEF Unsent, Sent
  <2> QED  BY <2>2, <2>3 DEF Stranded
<1>10. CASE HostPush
  <2> DEFINE d == Pushed(client, ui.body)
  <2>1. Good(Conn, d) /\ Len(d.packets) = Len(client.packets) + 1 /\ d.packets[i] = client.packets[i]
    BY <1>1, <1>4, PushedIs
  <2>2. d.packets \in Seq(Packet) /\ i < Len(d.packets)
    BY <1>4, <2>1, GoodFields
  <2>3. client' = d /\ UNCHANGED writing /\ ui.pc = "push" /\ ui'.pc = "id" /\ ui'.body = ui.body
    BY <1>1, <1>10, ThreadsAre, ThreadIs, PcIs DEF HostPush, HostAt, NothingSent, Goes
  <2> HIDE DEF d
  <2> QED  BY <1>9, <2>1, <2>2, <2>3
<1>11. CASE HostId
  <2> DEFINE d == Named(client)
  <2>1. ui.pc = "id" /\ i < Len(client.packets)
    BY <1>3, <1>11 DEF HostId, HostAt
  <2>5. i # Len(client.packets)
    BY <1>4, <2>1
  <2>2. Good(Conn, d) /\ Len(d.packets) = Len(client.packets) /\ d.packets[i] = client.packets[i]
    BY <1>1, <1>4, <2>5, NamedIs
  <2>3. d.packets \in Seq(Packet) /\ i < Len(d.packets)
    BY <2>1, <2>2, GoodFields
  <2>4. client' = d /\ UNCHANGED writing /\ ui'.pc = "data" /\ ui'.body = ui.body
    BY <1>1, <1>11, ThreadsAre, ThreadIs, PcIs DEF HostId, HostAt, NothingSent, Goes
  <2> HIDE DEF d
  <2> QED  BY <1>9, <2>1, <2>2, <2>3, <2>4
<1>12. CASE HostData
  <2> DEFINE d == Filled(client, ui.body)
  <2>1. ui.pc = "data" /\ i < Len(client.packets)
    BY <1>3, <1>12 DEF HostData, HostAt
  <2>6. i # Len(client.packets)
    BY <1>4, <2>1
  <2>2. Good(Conn, d) /\ Len(d.packets) = Len(client.packets) /\ d.packets[i] = client.packets[i]
    BY <1>1, <1>4, <2>6, FilledIs
  <2>3. d.packets \in Seq(Packet) /\ i < Len(d.packets)
    BY <2>1, <2>2, GoodFields
  <2>4. ui.body.of \in Texts
    BY <1>1, <1>2, <2>1 DEF ThreadsOK
  <2>5. client' = d /\ UNCHANGED writing /\ ui'.pc = "test" /\ ui'.body = ui.body
    BY <1>1, <1>12, <2>4, ThreadsAre, ThreadIs, PcIs DEF HostData, HostAt, NothingSent, Goes
  <2> HIDE DEF d
  <2> QED  BY <1>9, <2>1, <2>2, <2>3, <2>5
<1>13. ui.pc \notin {"tell", "read", "send"} => ~FileTell /\ ~FileRead /\ ~HostSend
  BY DEF FileTell, FileRead, HostSend, HostAt
<1> QED  BY <1>2, <1>6, <1>7, <1>8, <1>10, <1>11, <1>12, <1>13 DEF HostStep

LEMMA StrandedStep ==
    ASSUME IInv, IInv', Stranded, [Next]_vars
    PROVE  \/ made' # made \/ again' # again
           \/ Quiet' /\ (Stranded' \/ owed' # owed)
<1>1. Good(Conn, client) /\ ThreadsOK /\ ThreadsOK' /\ DeviceOK
  BY DEF IInv
<1>2. CASE UNCHANGED vars
  BY <1>2 DEF vars, Stranded, Quiet, Unsent
<1>3. CASE HostStep
  BY <1>3, StrandedHost
<1>4. ASSUME NEW x, (x \in Texts /\ CallText(x)) \/ (x \in Files /\ CallFile(x))
      PROVE  Quiet' /\ Stranded'
  <2>1. UNCHANGED <<client, io, writing>>
    BY <1>4, CallIs
  <2>2. \/ x \in Texts /\ UiGoes("push", Text(x))
        \/ x \in Files /\ UiGoes("queue", [Blank EXCEPT !.of = x])
    BY <1>4, CallIs
  <2>3. ui'.pc \in {"push", "queue"} /\ (ui'.body.of \in Files => ui'.pc = "queue")
    BY <2>2, BodyIs, SlideClientAssumption DEF UiGoes
  <2> QED  BY <1>1, <2>1, <2>3, StrandedStays
<1>5. CASE IoStep
  <2>1. io = Idle /\ io.pc # "idle"
    BY <1>5, IoIs DEF Stranded, Quiet
  <2> QED  BY <2>1, ThreadIs
<1>6. CASE Handler
  <2>1. PICK c \in Conn :
            \/ WriteDone(c) \/ WriteFail(c) \/ ReadFail(c) \/ BadFrame(c)
            \/ RecvAck(c) \/ Relogin(c) \/ LoginAgain(c)
    BY <1>6 DEF Handler
  <2>2. writing[c] = <<>>
    BY DEF Stranded, Quiet
  <2>3. CASE ReadFail(c) \/ BadFrame(c)
    <3>1. UNCHANGED <<ui, io, writing>> /\ client' = [client EXCEPT !.session = None]
      BY <2>3 DEF ReadFail, BadFrame, Closed, IoTurn
    <3>2. client'.packets = client.packets
      BY <1>1, <3>1, Fields
    <3> QED  BY <3>1, <3>2 DEF Stranded, Quiet, Unsent
  <2>4. CASE RecvAck(c)
    <3>1. owed[c] \in Seq(0 .. MaxId) /\ owed[c] # <<>> /\ owed \in [Conn -> Seq(0 .. MaxId)]
      BY <1>1, <2>4 DEF RecvAck, DeviceOK
    <3>2. Len(Tail(owed[c])) = Len(owed[c]) - 1 /\ Len(owed[c]) \in Nat
      BY <3>1, HeadTailProperties, LenProperties
    <3>3. owed'[c] = Tail(owed[c])
      BY <2>4, <3>1 DEF RecvAck
    <3>4. \A n \in Nat : n - 1 # n
      OBVIOUS
    <3>6. owed' # owed
      BY <3>2, <3>3, <3>4
    <3>5. UNCHANGED <<ui, io, writing>>
      BY <2>4 DEF RecvAck, IoTurn
    <3> QED  BY <3>5, <3>6 DEF Stranded, Quiet
  <2>5. CASE Relogin(c)
    BY <1>1, <2>5, ClientPumpAssumption DEF Relogin, DeviceOK, Conn
  <2>6. CASE LoginAgain(c)
    BY <1>1, <2>6 DEF LoginAgain, DeviceOK
  <2> QED  BY <2>1, <2>2, <2>3, <2>4, <2>5, <2>6 DEF WriteDone, WriteFail
<1> QED  BY <1>2, <1>3, <1>4, <1>5, <1>6 DEF Next, Host

(* A packet that was left unsent with no write in flight stays so until    *)
(* the device logs in: neither another send(), statement by statement, nor *)
(* an acknowledgement of the packets before it starts a write.             *)
THEOREM StrandedUntilLogin == Spec => StrandedNeedsLogin
<1>1. /\ IInv /\ IInv' /\ [Next]_vars
      => [Stranded => \/ made' # made \/ again' # again
                      \/ Quiet' /\ (Stranded' \/ owed' # owed)]_vars
  BY StrandedStep
<1> QED  BY <1>1, InitIInv, NextIInv, PTL DEF Spec, StrandedNeedsLogin

-----------------------------------------------------------------------------
(* What the steps put in flight. *)
LEMMA NotStarted ==
    ASSUME NEW c, writing[c] \in Seq(Frame),
           writing'[c] = writing[c] \/ (writing[c] # <<>> /\ writing'[c] = Tail(writing[c]))
    PROVE  Started(c) = {}
<1> DEFINE n == Len(writing[c])
<1>1. n \in Nat
  BY LenProperties
<1>2. Len(writing'[c]) \in {n, n - 1}
  BY HeadTailProperties
<1> HIDE DEF n
<1>3. \A m \in {n, n - 1} : n + 1 .. m = {}
  BY <1>1
<1>4. n + 1 .. Len(writing'[c]) = {}
  BY <1>2, <1>3
<1> QED  BY <1>4 DEF Started, n

LEMMA StartedOne ==
    ASSUME NEW c, writing[c] \in Seq(Frame), NEW x, writing'[c] = Append(writing[c], x)
    PROVE  Started(c) = {x} /\ Len(writing'[c]) > Len(writing[c])
<1> DEFINE n == Len(writing[c])
<1>1. n \in Nat
  BY LenProperties
<1>2. Len(writing'[c]) = n + 1 /\ writing'[c][n + 1] = x
  BY <1>1
<1> HIDE DEF n
<1>3. n + 1 .. n + 1 = {n + 1} /\ n + 1 > n
  BY <1>1
<1> QED  BY <1>2, <1>3 DEF Started, n

LEMMA SendStarts ==
    ASSUME IInv, NEW i, Send(i),
           client.packets # <<>> =>
             i \in 1 .. Len(client.packets) /\ \A j \in 1 .. i - 1 : Sent(client.packets[j])
    PROVE  \/ UNCHANGED client /\ \A c \in Conn : Started(c) = {}
           \/ /\ \E c \in Conn : Len(writing'[c]) > Len(writing[c])
              /\ \A c \in Conn : Started(c) # {} => Started(c) = {client'.packets[i].frame}
<1>1. writing \in [Conn -> Seq(Frame)] /\ Good(Conn, client)
  BY DEF IInv, WritesOK
<1>2. CASE UNCHANGED <<client, writing>>
  BY <1>1, <1>2, NotStarted
<1>3. CASE /\ client.session # None /\ client.packets # <<>>
           /\ client' = Written(client, i).client
           /\ writing' = Grown(writing, client.session, Written(client, i).frame)
  <2>1. PICK s, f : s \in Conn /\ s = client.session /\ f = Written(client, i).frame
    BY <1>1, <1>3, GoodFields
  <2>2. writing' = Grown(writing, s, f)
    BY <1>3, <2>1
  <2>3. writing'[s] = Append(writing[s], f) /\ \A c \in Conn \ {s} : writing'[c] = writing[c]
    BY <1>1, <2>1, <2>2 DEF Grown
  <2>4. Started(s) = {f} /\ Len(writing'[s]) > Len(writing[s])
    BY <1>1, <2>1, <2>3, StartedOne
  <2>5. \A c \in Conn \ {s} : Started(c) = {}
    BY <1>1, <2>1, <2>3, NotStarted
  <2>6. f = client'.packets[i].frame
    BY <1>1, <1>3, <2>1, WrittenIs
  <2> QED  BY <2>1, <2>4, <2>5, <2>6
<1> QED  BY <1>2, <1>3, SendIs

-----------------------------------------------------------------------------
(* What has not been sent when send() sends the front: all of the list     *)
(* for a file, and for a text the last packet, which it finds alone.       *)
AllNew(packets) == \A i \in DOMAIN packets : ~Sent(packets[i])
LastNew(packets) == packets # <<>> /\ ~Sent(packets[Len(packets)])

FrontNew ==
    ~overtaken =>
      /\ ui.pc \in {"id", "data", "test"} => LastNew(client.packets)
      /\ \/ ui.pc \in {"tell", "read", "send"}
         \/ ui.pc \in {"push", "id", "data"} /\ ui.body.of \in Files
         => AllNew(client.packets)

LEMMA NewPushed ==
    ASSUME NEW S, NEW c, Good(S, c), NEW b \in Body
    PROVE  /\ LastNew(Pushed(c, b).packets)
           /\ AllNew(c.packets) => AllNew(Pushed(c, b).packets)
<1> DEFINE d == Pushed(c, b)
           n == Len(c.packets)
<1>1. /\ Good(S, d) /\ n \in Nat /\ Len(d.packets) = n + 1
      /\ \A j \in 1 .. n : d.packets[j] = c.packets[j]
      /\ d.packets[n + 1] = PushedPacket(b)
  BY PushedIs
<1>2. ~Sent(PushedPacket(b))
  BY DEF PushedPacket, Sent
<1>3. d.packets \in Seq(Packet) /\ c.packets \in Seq(Packet)
  BY <1>1, GoodFields
<1>4. DOMAIN d.packets = 1 .. n + 1 /\ DOMAIN c.packets = 1 .. n
  BY <1>1, <1>3, LenProperties
<1> HIDE DEF d, n
<1>5. d.packets # <<>>
  BY <1>1, <1>4, EmptySeq
<1>6. \A j \in 1 .. n + 1 : j \in 1 .. n \/ j = n + 1
  BY <1>1
<1> QED  BY <1>1, <1>2, <1>4, <1>5, <1>6 DEF LastNew, AllNew, d

LEMMA NewSame ==
    ASSUME NEW p \in Seq(Packet), NEW q \in Seq(Packet), Len(q) = Len(p),
           \A j \in 1 .. Len(p) : q[j].frame = p[j].frame
    PROVE  (LastNew(p) => LastNew(q)) /\ (AllNew(p) => AllNew(q))
<1>1. DOMAIN p = 1 .. Len(p) /\ DOMAIN q = 1 .. Len(p) /\ Len(p) \in Nat
  BY LenProperties
<1>2. p # <<>> => q # <<>> /\ Len(p) \in 1 .. Len(p)
  BY <1>1, EmptySeq
<1> QED  BY <1>1, <1>2 DEF LastNew, AllNew, Sent

LEMMA NewNamed ==
    ASSUME NEW S, NEW c, Good(S, c), NEW b \in Body,
           NEW d, d = Named(c) \/ d = Filled(c, b)
    PROVE  (LastNew(c.packets) => LastNew(d.packets)) /\ (AllNew(c.packets) => AllNew(d.packets))
<1> DEFINE n == Len(c.packets)
<1>1. CASE d = Named(c)
  <2>1. /\ Good(S, d) /\ Len(d.packets) = n
        /\ \A j \in 1 .. n :
              d.packets[j] = IF j = n THEN WithId(c.packets[n], NextId(c.id)) ELSE c.packets[j]
    BY <1>1, NamedIs
  <2>2. \A j \in 1 .. n : d.packets[j].frame = c.packets[j].frame
    BY <2>1 DEF WithId
  <2> QED  BY <2>1, <2>2, GoodFields, NewSame
<1>2. CASE d = Filled(c, b)
  <2>1. /\ Good(S, d) /\ Len(d.packets) = n
        /\ \A j \in 1 .. n :
              d.packets[j] = IF j = n THEN WithBody(c.packets[n], b) ELSE c.packets[j]
    BY <1>2, FilledIs
  <2>2. \A j \in 1 .. n : d.packets[j].frame = c.packets[j].frame
    BY <2>1 DEF WithBody
  <2> QED  BY <2>1, <2>2, GoodFields, NewSame
<1> QED  BY <1>1, <1>2

LEMMA NewReset ==
    ASSUME NEW p \in Seq(Packet), Ordered(p)
    PROVE  AllNew(ResetAll(p)) /\ (p # <<>> => LastNew(ResetAll(p)))
<1> DEFINE q == ResetAll(p)
<1>1. q \in Seq(Packet)
  BY ResetKeeps
<1>2. DOMAIN q = DOMAIN p /\ \A i \in DOMAIN p : q[i].frame = None
  <2>1. \A i \in DOMAIN p : p[i] \in Packet
    BY LenProperties, ElementOfSeq
  <2> QED  BY <2>1 DEF ResetAll, Packet
<1>3. DOMAIN p = 1 .. Len(p) /\ DOMAIN q = 1 .. Len(q) /\ Len(p) \in Nat /\ Len(q) \in Nat
  BY <1>1, LenProperties
<1> HIDE DEF q
<1>4. p # <<>> => q # <<>> /\ Len(q) \in DOMAIN q
  BY <1>1, <1>2, <1>3, EmptySeq
<1> QED  BY <1>2, <1>4 DEF AllNew, LastNew, Sent, q

LEMMA NewRemoved ==
    ASSUME NEW p \in Seq(Packet), NEW i \in 1 .. Len(p), Sent(p[i])
    PROVE  /\ LastNew(p) => LastNew(RemoveAt(p, i))
           /\ ~AllNew(p)
<1> DEFINE q == RemoveAt(p, i)
           n == Len(p)
<1>1. n \in Nat /\ DOMAIN p = 1 .. n
  BY LenProperties
<1>2. /\ q \in Seq(Packet) /\ Len(q) = n - 1
      /\ \A j \in 1 .. n - 1 : q[j] = IF j < i THEN p[j] ELSE p[j + 1]
  BY RemovedAt
<1> HIDE DEF q
<1>3. ASSUME LastNew(p) PROVE LastNew(q)
  <2>1. ~Sent(p[n]) /\ i # n
    BY <1>3 DEF LastNew
  <2> HIDE DEF n
  <2>2. n - 1 \in 1 .. n - 1 /\ ~(n - 1 < i) /\ n - 1 + 1 = n
    <3>1. i \in 1 .. n
      BY DEF n
    <3> QED  BY <1>1, <2>1, <3>1
  <2>3. q[n - 1] = p[n]
    BY <1>2, <2>2
  <2>4. q # <<>>
    BY <1>2, <2>2, EmptySeq
  <2> QED  BY <1>2, <2>1, <2>3, <2>4 DEF LastNew
<1> QED  BY <1>1, <1>3 DEF AllNew, q

(* What Noted says of overtaken. *)
LEMMA OvertakenIs ==
    ASSUME Noted, ui' # Idle, ~overtaken'
    PROVE  /\ ~overtaken
           /\ io' # io => ~(\E c \in Conn : Len(writing'[c]) > Len(writing[c]))
           /\ \A i \in Unsent(client.packets) : client'.packets # RemoveAt(client.packets, i)
BY Zenon DEF Noted

LEMMA FrontNewHost ==
    ASSUME IInv, FrontNew, HostStep, Noted
    PROVE  FrontNew'
<1>1. /\ Good(Conn, client) /\ ThreadsOK /\ ui.body \in Body /\ Idle.pc = "idle"
  BY ThreadsAre, ThreadIs DEF IInv
<1>2. CASE ui' = Idle
  BY <1>1, <1>2 DEF FrontNew
<1>3. CASE overtaken'
  BY <1>3, Zenon DEF FrontNew
<1>4. ASSUME ui' # Idle, ~overtaken' PROVE FrontNew'
  <2>1. ~overtaken
    BY <1>4, OvertakenIs
  <2>2. /\ ui.pc \in {"id", "data", "test"} => LastNew(client.packets)
        /\ \/ ui.pc \in {"tell", "read", "send"}
           \/ ui.pc \in {"push", "id", "data"} /\ ui.body.of \in Files
           => AllNew(client.packets)
    BY <2>1, Zenon DEF FrontNew
  <2>3. SUFFICES /\ ui'.pc \in {"id", "data", "test"} => LastNew(client'.packets)
                 /\ \/ ui'.pc \in {"tell", "read", "send"}
                    \/ ui'.pc \in {"push", "id", "data"} /\ ui'.body.of \in Files
                    => AllNew(client'.packets)
    BY Zenon DEF FrontNew
  <2>4. CASE FileQueue /\ UiGoes("alone", ui.body)
    BY <2>4 DEF UiGoes
  <2>5. CASE FileAlone /\ UiGoes("tell", ui.body)
    <3>1. client.packets = <<>> /\ UNCHANGED client
      BY <1>4, <2>5 DEF FileAlone
    <3> QED  BY <2>5, <3>1, EmptySeq DEF UiGoes, AllNew
  <2>6. CASE FileTell /\ ui.pc = "tell" /\ UiGoes("read", [ui.body EXCEPT !.off = Position(client, ui.body.of)])
    <3>1. UNCHANGED client
      BY <1>4, <2>6 DEF FileTell
    <3> QED  BY <2>2, <2>6, <3>1 DEF UiGoes
  <2>7. CASE FileRead /\ ui.pc = "read" /\ UiGoes("push", ReadInto(client, ui.body))
    <3>1. client'.packets = client.packets
      <4>1. ui.body.of \in Files /\ client' = AfterRead(client, ui.body.of)
        BY <1>1, <2>7 DEF FileRead, ThreadsOK
      <4> QED  BY <1>1, <4>1, AfterReadIs
    <3> QED  BY <2>2, <2>7, <3>1 DEF UiGoes
  <2>8. CASE HostPush /\ ui.pc = "push" /\ UiGoes("id", ui.body)
    <3>1. client' = Pushed(client, ui.body)
      BY <2>8 DEF HostPush
    <3> QED  BY <1>1, <2>2, <2>8, <3>1, NewPushed DEF UiGoes
  <2>9. CASE HostId /\ ui.pc = "id" /\ UiGoes("data", ui.body)
    <3>1. client' = Named(client)
      BY <2>9 DEF HostId
    <3>2. (LastNew(client.packets) => LastNew(client'.packets)) /\ (AllNew(client.packets) => AllNew(client'.packets))
      BY <1>1, <3>1, NewNamed
    <3> QED  BY <2>2, <2>9, <3>2 DEF UiGoes
  <2>10. CASE HostData /\ ui.pc = "data" /\ (UiGoes("test", ui.body) \/ (ui.body.of \notin Texts /\ UiGoes("send", ui.body)))
    <3>1. client' = Filled(client, ui.body)
      BY <2>10 DEF HostData
    <3>2. (LastNew(client.packets) => LastNew(client'.packets)) /\ (AllNew(client.packets) => AllNew(client'.packets))
      BY <1>1, <3>1, NewNamed
    <3>3. ui.body.of \in Texts \cup Files
      BY <1>1, <2>10 DEF ThreadsOK
    <3> QED  BY <2>2, <2>10, <3>2, <3>3 DEF UiGoes
  <2>11. CASE TextTest /\ ui.pc = "test" /\ UiGoes("send", ui.body)
    <3>1. Len(client.packets) = 1 /\ UNCHANGED client
      BY <1>4, <2>11 DEF TextTest
    <3>2. client.packets \in Seq(Packet) /\ LastNew(client.packets)
      BY <1>1, <2>2, <2>11, GoodFields
    <3>3. DOMAIN client.packets = {1}
      BY <3>1, <3>2, LenProperties
    <3>4. AllNew(client.packets)
      BY <3>1, <3>2, <3>3 DEF AllNew, LastNew
    <3> QED  BY <2>11, <3>1, <3>4 DEF UiGoes
  <2> QED  BY <1>4, <2>4, <2>5, <2>6, <2>7, <2>8, <2>9, <2>10, <2>11, HostGoes
<1> QED  BY <1>2, <1>3, <1>4

(* The other thread, which leaves send() where it is. *)
LEMMA FrontNewStays ==
    ASSUME FrontNew, UNCHANGED ui, Noted,
           \/ UNCHANGED client
           \/ /\ LastNew(client.packets) => LastNew(client'.packets)
              /\ AllNew(client.packets) => AllNew(client'.packets)
           \/ overtaken' \/ ui' = Idle
    PROVE  FrontNew'
<1>1. CASE ui' = Idle
  BY <1>1, ThreadIs DEF FrontNew
<1>2. CASE overtaken'
  BY <1>2, Zenon DEF FrontNew
<1>3. ASSUME ui' # Idle, ~overtaken' PROVE FrontNew'
  <2>1. ~overtaken
    BY <1>3, OvertakenIs
  <2>2. /\ ui.pc \in {"id", "data", "test"} => LastNew(client.packets)
        /\ \/ ui.pc \in {"tell", "read", "send"}
           \/ ui.pc \in {"push", "id", "data"} /\ ui.body.of \in Files
           => AllNew(client.packets)
    BY <2>1, Zenon DEF FrontNew
  <2>3. SUFFICES /\ ui'.pc \in {"id", "data", "test"} => LastNew(client'.packets)
                 /\ \/ ui'.pc \in {"tell", "read", "send"}
                    \/ ui'.pc \in {"push", "id", "data"} /\ ui'.body.of \in Files
                    => AllNew(client'.packets)
    BY Zenon DEF FrontNew
  <2>4. /\ LastNew(client.packets) => LastNew(client'.packets)
        /\ AllNew(client.packets) => AllNew(client'.packets)
    BY <1>3
  <2> QED  BY <2>2, <2>4
<1> QED  BY <1>1, <1>2, <1>3

LEMMA FrontNewIo ==
    ASSUME IInv, FrontNew, IoStep, Noted
    PROVE  FrontNew'
<1>1. Good(Conn, client) /\ ThreadsOK /\ io.body \in Body /\ UNCHANGED ui /\ io.pc # "idle"
  BY ThreadsAre, IoIs DEF IInv
<1>2. CASE UNCHANGED client
  BY <1>1, <1>2, FrontNewStays
<1>3. ASSUME NEW i, Send(i), io' = Idle,
             client.packets # <<>> =>
               i \in 1 .. Len(client.packets) /\ \A j \in 1 .. i - 1 : Sent(client.packets[j])
      PROVE  FrontNew'
  <2>1. UNCHANGED client \/ \E c \in Conn : Len(writing'[c]) > Len(writing[c])
    BY <1>3, SendStarts
  <2>2. io' # io
    BY <1>1, <1>3, ThreadIs
  <2>3. UNCHANGED client \/ overtaken' \/ ui' = Idle
    BY <2>1, <2>2, OvertakenIs
  <2> QED  BY <1>1, <2>3, FrontNewStays
<1>4. CASE Unsent(client.packets) # {} /\ io' = Idle /\ Send(FirstOf(Unsent(client.packets)))
  BY <1>1, <1>3, <1>4, FirstUnsent
<1>5. CASE io' = Idle /\ Send(1)
  <2>1. client.packets # <<>> => 1 \in 1 .. Len(client.packets) /\ \A j \in 1 .. 1 - 1 : Sent(client.packets[j])
    BY <1>1, LastIs
  <2> QED  BY <1>3, <1>5, <2>1
<1>6. CASE IoRead
  <2>1. io.body.of \in Files
    BY <1>1, <1>6 DEF IoRead, IoAt, ThreadsOK
  <2>2. \/ client' = [client EXCEPT !.files = Tail(@)]
        \/ client' = AfterRead(client, io.body.of)
    BY <1>6 DEF IoRead
  <2>4. [client EXCEPT !.files = Tail(@)].packets = client.packets
    BY <1>1, Fields
  <2>5. AfterRead(client, io.body.of).packets = client.packets
    BY <1>1, <2>1, AfterReadIs
  <2>3. client'.packets = client.packets
    BY <2>2, <2>4, <2>5
  <2> QED  BY <1>1, <2>3, FrontNewStays
<1>7. CASE client' = Pushed(client, io.body)
  BY <1>1, <1>7, NewPushed, FrontNewStays
<1>8. CASE client' = Named(client) \/ client' = Filled(client, io.body)
  <2>1. (LastNew(client.packets) => LastNew(client'.packets)) /\ (AllNew(client.packets) => AllNew(client'.packets))
    BY <1>1, <1>8, NewNamed
  <2> QED  BY <1>1, <2>1, FrontNewStays
<1> QED  BY <1>2, <1>4, <1>5, <1>6, <1>7, <1>8, IoIs

LEMMA FrontNewHandler ==
    ASSUME IInv, FrontNew, Handler, Noted
    PROVE  FrontNew'
<1>1. Good(Conn, client)
  BY DEF IInv
<1>2. PICK c \in Conn :
          \/ WriteDone(c) \/ WriteFail(c) \/ ReadFail(c) \/ BadFrame(c)
          \/ RecvAck(c) \/ Relogin(c) \/ LoginAgain(c)
  BY DEF Handler
<1>3. UNCHANGED ui
  BY <1>2, HandlerIs
<1>4. CASE client'.packets = client.packets
  BY <1>3, <1>4, FrontNewStays
<1>5. CASE RecvAck(c)
  <2>1. client'.packets = Acknowledged(client.packets, Head(owed[c])) /\ client.packets \in Seq(Packet)
    BY <1>1, <1>5, Fields, GoodFields DEF RecvAck
  <2>2. CASE client'.packets = client.packets
    BY <1>4, <2>2
  <2>3. ASSUME NEW i \in 1 .. Len(client.packets), client'.packets = RemoveAt(client.packets, i)
        PROVE  FrontNew'
    <3>1. CASE Sent(client.packets[i])
      BY <1>3, <2>1, <2>3, <3>1, NewRemoved, FrontNewStays
    <3>2. CASE ~Sent(client.packets[i])
      <4>1. i \in Unsent(client.packets)
        BY <2>1, <3>2, LenProperties DEF Unsent
      <4>2. overtaken' \/ ui' = Idle
        BY <2>3, <4>1, OvertakenIs
      <4> QED  BY <1>3, <4>2, FrontNewStays
    <3> QED  BY <3>1, <3>2
  <2> QED  BY <2>1, <2>2, <2>3, AcknowledgedOne
<1>6. CASE LoginAgain(c)
  <2>1. client'.packets = ResetAll(client.packets)
    BY <1>1, <1>6, Fields DEF LoginAgain
  <2>2. client.packets \in Seq(Packet) /\ Ordered(client.packets)
    BY <1>1, GoodFields
  <2>3. LastNew(client.packets) => client.packets # <<>>
    BY DEF LastNew
  <2> QED  BY <1>3, <2>1, <2>2, <2>3, NewReset, FrontNewStays
<1>7. CASE WriteDone(c) \/ WriteFail(c) \/ ReadFail(c) \/ BadFrame(c) \/ Relogin(c)
  <2>1. \E s : client' = client \/ client' = [client EXCEPT !.session = s]
    BY <1>7 DEF WriteDone, WriteFail, ReadFail, BadFrame, Relogin, Closed
  <2>2. \A s : [client EXCEPT !.session = s].packets = client.packets
    BY <1>1, Fields
  <2>3. client'.packets = client.packets
    BY <2>1, <2>2
  <2> QED  BY <1>4, <2>3
<1> QED  BY <1>2, <1>5, <1>6, <1>7

LEMMA NextFrontNew == IInv /\ FrontNew /\ [Next]_vars => FrontNew'
<1> SUFFICES ASSUME IInv, FrontNew, [Next]_vars PROVE FrontNew'
  OBVIOUS
<1>1. CASE UNCHANGED vars
  BY <1>1 DEF vars, FrontNew
<1>2. ASSUME NEW x, (x \in Texts /\ CallText(x)) \/ (x \in Files /\ CallFile(x))
      PROVE  FrontNew'
  <2>1. \/ x \in Texts /\ UiGoes("push", Text(x))
        \/ x \in Files /\ UiGoes("queue", [Blank EXCEPT !.of = x])
    BY <1>2, CallIs
  <2> QED  BY <2>1, BodyIs, SlideClientAssumption DEF UiGoes, FrontNew
<1> QED  BY <1>1, <1>2, FrontNewHost, FrontNewIo, FrontNewHandler DEF Next, Host

LEMMA StartsOnlyNew ==
    ASSUME IInv, FrontNew, Next, NEW c \in Conn, Started(c) # {}
    PROVE  \/ \E i \in Unsent(client.packets) : Started(c) = {client'.packets[i].frame}
           \/ /\ io.pc = "send" \/ (ui.pc = "send" /\ overtaken)
              /\ Started(c) = {client'.packets[1].frame}
<1>1. Good(Conn, client) /\ writing \in [Conn -> Seq(Frame)]
  BY DEF IInv, WritesOK
<1>2. writing # writing'
  BY <1>1, NotStarted
<1>3. client.packets # <<>> => 1 \in 1 .. Len(client.packets) /\ \A j \in 1 .. 1 - 1 : Sent(client.packets[j])
  BY <1>1, LastIs
<1>4. CASE Host
  <2>1. HostSend
    <3>1. ASSUME NEW x, (x \in Texts /\ CallText(x)) \/ (x \in Files /\ CallFile(x))
          PROVE  FALSE
      BY <1>2, <3>1, CallIs
    <3>2. CASE HostStep /\ ~HostSend
      BY <1>2, <3>2 DEF HostStep, FileQueue, FileAlone, FileTell, FileRead, HostPush, HostId,
                        HostData, TextTest, NothingSent
    <3> QED  BY <1>4, <3>1, <3>2 DEF Host
  <2>2. Send(1) /\ ui.pc = "send"
    BY <2>1 DEF HostSend, HostAt
  <2>3. Started(c) = {client'.packets[1].frame}
    BY <1>3, <2>2, SendStarts
  <2>4. CASE overtaken
    BY <2>2, <2>3, <2>4
  <2>5. CASE ~overtaken
    <3>1. AllNew(client.packets)
      BY <2>2, <2>5, Zenon DEF FrontNew
    <3>2. client.packets # <<>>
      BY <1>2, <2>2 DEF Send
    <3>3. 1 \in Unsent(client.packets)
      BY <1>1, <1>3, <3>1, <3>2, LastIs DEF Unsent, AllNew
    <3> QED  BY <2>3, <3>3
  <2> QED  BY <2>4, <2>5
<1>5. CASE IoStep
  <2>1. \/ Unsent(client.packets) # {} /\ Send(FirstOf(Unsent(client.packets)))
        \/ io.pc = "send" /\ Send(1)
    BY <1>2, <1>5, IoIs DEF IoRead, NothingSent
  <2>2. CASE io.pc = "send" /\ Send(1)
    BY <1>3, <2>2, SendStarts
  <2>3. CASE Unsent(client.packets) # {} /\ Send(FirstOf(Unsent(client.packets)))
    <3>1. PICK i : i = FirstOf(Unsent(client.packets)) /\ i \in Unsent(client.packets)
                 /\ i \in 1 .. Len(client.packets) /\ \A j \in 1 .. i - 1 : Sent(client.packets[j])
      BY <1>1, <2>3, FirstUnsent
    <3> QED  BY <2>3, <3>1, SendStarts
  <2> QED  BY <2>1, <2>2, <2>3
<1>6. CASE Handler
  <2>1. PICK e \in Conn :
            \/ WriteDone(e) \/ WriteFail(e) \/ ReadFail(e) \/ BadFrame(e)
            \/ RecvAck(e) \/ Relogin(e) \/ LoginAgain(e)
    BY <1>6 DEF Handler
  <2>2. writing[e] # <<>> /\ writing' = [writing EXCEPT ![e] = Tail(@)]
    BY <1>2, <2>1 DEF WriteDone, WriteFail, ReadFail, BadFrame, RecvAck, Relogin, LoginAgain, Completed
  <2>3. writing'[c] = writing[c] \/ (writing[c] # <<>> /\ writing'[c] = Tail(writing[c]))
    BY <1>1, <2>2
  <2> QED  BY <1>1, <2>3, NotStarted
<1> QED  BY <1>4, <1>5, <1>6 DEF Next

(* What goes out a second time is the front, when a piece of a file was    *)
(* read or send() was overtaken by the other thread; anything else was     *)
(* reset by a login over the same connection.                              *)
THEOREM OnlyFrontResent == Spec => ResendsOnlyFront
<1> DEFINE A == \A c \in Conn : Started(c) # {} =>
                   \/ \E i \in Unsent(client.packets) : Started(c) = {client'.packets[i].frame}
                   \/ /\ io.pc = "send" \/ (ui.pc = "send" /\ overtaken)
                      /\ Started(c) = {client'.packets[1].frame}
<1>1. IInv /\ FrontNew /\ [Next]_vars => [A]_vars
  BY StartsOnlyNew
<1>2. Init => FrontNew
  BY ThreadIs DEF Init, FrontNew
<1> HIDE DEF A
<1>3. Spec => [][A]_vars
  BY <1>1, <1>2, InitIInv, NextIInv, NextFrontNew, PTL DEF Spec
<1> QED  BY <1>3 DEF ResendsOnlyFront, A

-----------------------------------------------------------------------------
(* Called on the io_service's thread, send() and handle_write have a       *)
(* session and what they use of the lists from their tests to their end:   *)
(* the other thread's work waits.                                          *)
Held ==
    locked /\ again = 0 =>
      /\ ~crashed
      /\ ui = Idle \/ io = Idle
      /\ ui # Idle \/ io # Idle => client.session # None
      /\ ui.pc \in {"id", "data", "test", "send"} => client.packets # <<>>
      /\ io.pc \in {"id", "data", "send"} => client.packets # <<>>
      /\ io.pc = "tell" => client.files # <<>>

LEMMA SendHeld ==
    ASSUME NEW i, Send(i), client.session # None, client.packets # <<>>
    PROVE  UNCHANGED crashed
BY DEF Send

(* The session of a client that goes on, and that it has packets. *)
LEMMA GrownClient ==
    ASSUME NEW S, NEW c, Good(S, c), NEW b \in Body, NEW d,
           \/ d = Pushed(c, b)
           \/ d = Named(c) /\ c.packets # <<>>
           \/ d = Filled(c, b) /\ c.packets # <<>>
    PROVE  d.session = c.session /\ d.packets # <<>>
<1>1. c.packets \in Seq(Packet) /\ Len(c.packets) \in Nat
  BY GoodFields, LenProperties
<1>2. CASE d = Pushed(c, b)
  <2>1. Good(S, d) /\ d.session = c.session /\ Len(d.packets) = Len(c.packets) + 1
    BY <1>2, PushedIs
  <2> QED  BY <1>1, <2>1, EmptySeq
<1>3. CASE (d = Named(c) \/ d = Filled(c, b)) /\ c.packets # <<>>
  <2>1. Good(S, d) /\ d.session = c.session /\ Len(d.packets) = Len(c.packets)
    <3>1. CASE d = Named(c)
      BY <3>1, NamedIs
    <3>2. CASE d = Filled(c, b)
      BY <3>2, FilledIs
    <3> QED  BY <1>3, <3>1, <3>2
  <2> QED  BY <1>1, <1>3, <2>1, EmptySeq
<1> QED  BY <1>2, <1>3

LEMMA HeldHost ==
    ASSUME IInv, Held, HostStep, locked, again = 0
    PROVE  /\ ~crashed' /\ io' = Idle
           /\ ui' # Idle => client'.session # None
           /\ ui'.pc \in {"id", "data", "test", "send"} => client'.packets # <<>>
<1>1. /\ Good(Conn, client) /\ ThreadsOK /\ ui.body \in Body /\ Idle.pc = "idle"
      /\ ui.pc # "idle" /\ UNCHANGED io
  BY ThreadsAre, ThreadIs, HostGoes DEF IInv
<1>2. /\ ~crashed /\ client.session # None
      /\ ui.pc \in {"id", "data", "test", "send"} => client.packets # <<>>
  BY <1>1, Zenon DEF Held
<1>3. io = Idle
  <2>1. HostTurn
    BY DEF HostStep, FileQueue, FileAlone, FileTell, FileRead, HostPush, HostId, HostData,
           TextTest, HostSend, HostAt
  <2> QED  BY <2>1, Zenon DEF HostTurn
<1>4. CASE HostSend
  <2>1. ui.pc = "send" /\ Send(1) /\ ui' = Idle
    BY <1>4 DEF HostSend, HostAt
  <2>2. UNCHANGED crashed
    BY <1>2, <2>1, SendHeld
  <2>3. ~crashed'
    BY <1>2, <2>2, Zenon
  <2> QED  BY <1>1, <1>3, <2>1, <2>3
<1>5. CASE ~HostSend
  <2>1. UNCHANGED crashed
    BY <1>5 DEF HostStep, FileQueue, FileAlone, FileTell, FileRead, HostPush, HostId, HostData,
                TextTest, NothingSent
  <2>2. ~crashed'
    BY <1>2, <2>1, Zenon
  <2>3. \A x : [client EXCEPT !.files = x].session = client.session
    BY <1>1, Fields
  <2>4. CASE FileQueue
    <3>1. client' = [client EXCEPT !.files = Append(@, [file |-> ui.body.of, pos |-> 0])]
      BY <2>4 DEF FileQueue
    <3>2. client'.session = client.session
      BY <2>3, <3>1
    <3>3. ui'.pc = "alone"
      BY <1>1, <2>4, ThreadIs, ThreadsAre, PcIs DEF FileQueue, Goes
    <3> QED  BY <1>1, <1>2, <1>3, <2>2, <3>2, <3>3
  <2>9. CASE FileTell
    <3>1. \/ client' = [client EXCEPT !.files = IF @ = <<>> THEN @ ELSE Front(@)]
          \/ UNCHANGED client
      BY <2>9 DEF FileTell
    <3>2. client'.session = client.session
      BY <2>3, <3>1
    <3>3. ui'.pc \in {"idle", "read"}
      BY <1>1, <2>9 DEF FileTell, At
    <3> QED  BY <1>1, <1>2, <1>3, <2>2, <3>2, <3>3
  <2>5. CASE FileAlone
    <3>2. UNCHANGED client /\ (Goes("tell") \/ ui' = Idle)
      BY <2>5 DEF FileAlone
    <3>3. Goes("tell") => ui'.pc = "tell"
      BY <1>1, ThreadIs, ThreadsAre, PcIs DEF Goes
    <3>1. UNCHANGED client /\ ui'.pc \in {"tell", "idle"}
      BY <1>1, <3>2, <3>3
    <3> QED  BY <1>1, <1>2, <1>3, <2>2, <3>1
  <2>6. CASE FileRead
    <3>1. client' = AfterRead(client, ui.body.of) /\ ui.body.of \in Files
      BY <1>1, <2>6 DEF FileRead, HostAt, ThreadsOK
    <3>2. client'.session = client.session
      BY <1>1, <3>1, AfterReadIs
    <3>3. ui' = At("push", ReadInto(client, ui.body))
      BY <2>6 DEF FileRead
    <3>4. ui'.pc = "push"
      BY <3>3 DEF At
    <3> QED  BY <1>1, <1>2, <1>3, <2>2, <3>2, <3>4
  <2>7. CASE HostPush \/ HostId \/ HostData
    <3>1. \/ client' = Pushed(client, ui.body)
          \/ client' = Named(client) /\ client.packets # <<>>
          \/ client' = Filled(client, ui.body) /\ client.packets # <<>>
      BY <1>2, <2>7 DEF HostPush, HostId, HostData, HostAt
    <3>2. client'.session = client.session /\ client'.packets # <<>>
      BY <1>1, <3>1, GrownClient
    <3> QED  BY <1>1, <1>2, <1>3, <2>2, <3>2
  <2>8. CASE TextTest
    <3>1. UNCHANGED client /\ client.packets # <<>>
      BY <1>2, <2>8 DEF TextTest, HostAt
    <3> QED  BY <1>1, <1>2, <1>3, <2>2, <3>1
  <2> QED  BY <1>5, <2>4, <2>5, <2>6, <2>7, <2>8, <2>9 DEF HostStep
<1> QED  BY <1>4, <1>5

LEMMA HeldIo ==
    ASSUME IInv, Held, IoStep, locked, again = 0
    PROVE  /\ ~crashed' /\ ui' = Idle
           /\ io' # Idle => client'.session # None
           /\ io'.pc \in {"id", "data", "send"} => client'.packets # <<>>
           /\ io'.pc = "tell" => client'.files # <<>>
<1>1. /\ Good(Conn, client) /\ ThreadsOK /\ io.body \in Body /\ Idle.pc = "idle"
      /\ io.pc # "idle" /\ UNCHANGED ui
  BY ThreadsAre, ThreadIs, IoIs DEF IInv
<1>2. /\ ~crashed /\ client.session # None
      /\ io.pc \in {"id", "data", "send"} => client.packets # <<>>
      /\ io.pc = "tell" => client.files # <<>>
  BY <1>1, Zenon DEF Held
<1>3. ui = Idle
  <2>1. \E pc : IoAt(pc)
    BY DEF IoStep, IoScan, IoFiles, IoTell, IoRead, IoPush, IoId, IoData, IoSend
  <2> QED  BY <2>1, Zenon DEF IoAt
<1>4. ASSUME NEW i, Send(i), client.packets # <<>>, io' = Idle
      PROVE  /\ ~crashed' /\ ui' = Idle
             /\ io' # Idle => client'.session # None
             /\ io'.pc \in {"id", "data", "send"} => client'.packets # <<>>
             /\ io'.pc = "tell" => client'.files # <<>>
  <2>1. UNCHANGED crashed
    BY <1>2, <1>4, SendHeld
  <2>2. ~crashed'
    BY <1>2, <2>1, Zenon
  <2> QED  BY <1>1, <1>3, <1>4, <2>2
<1>5. CASE Unsent(client.packets) # {} /\ Send(FirstOf(Unsent(client.packets))) /\ io' = Idle
  BY <1>1, <1>4, <1>5, FirstUnsent
<1>6. CASE io.pc = "send" /\ Send(1) /\ io' = Idle
  BY <1>2, <1>4, <1>6
<1>7. ASSUME UNCHANGED crashed, client'.session = client.session, ui' = Idle,
             io'.pc \in {"id", "data", "send"} => client'.packets # <<>>,
             io'.pc = "tell" => client'.files # <<>>
      PROVE  /\ ~crashed' /\ ui' = Idle
             /\ io' # Idle => client'.session # None
             /\ io'.pc \in {"id", "data", "send"} => client'.packets # <<>>
             /\ io'.pc = "tell" => client'.files # <<>>
  <2>1. ~crashed'
    BY <1>2, <1>7, Zenon
  <2> QED  BY <1>2, <1>7, <2>1
<1>8. CASE IoNow("files", io.body) /\ UNCHANGED <<client, crashed>>
  BY <1>1, <1>3, <1>7, <1>8 DEF IoNow
<1>9. CASE IoFiles
  <2>1. /\ UNCHANGED <<client, crashed>>
        /\ IF client.files = <<>> THEN io' = Idle ELSE IoNow("tell", io.body)
    BY <1>9, IoIs DEF IoFiles, IoScan, IoTell, IoRead, IoPush, IoId, IoData, IoSend, IoAt
  <2> QED  BY <1>1, <1>3, <1>7, <2>1 DEF IoNow
<1>10. CASE IoTell
  <2>1. io.pc = "tell" /\ UNCHANGED <<client, writing>> /\ client.files # <<>>
    BY <1>2, <1>10 DEF IoTell, IoAt
  <2>2. UNCHANGED crashed /\ io' = At("read", [of |-> Head(client.files).file,
                                   off |-> Head(client.files).pos, len |-> 0])
    BY <1>10, <2>1 DEF IoTell
  <2>3. io'.pc = "read"
    BY <2>2 DEF At
  <2> QED  BY <1>1, <1>3, <1>7, <2>1, <2>2, <2>3
<1>11. CASE IoRead
  <2>1. io.body.of \in Files /\ UNCHANGED crashed
    BY <1>1, <1>11 DEF IoRead, IoAt, ThreadsOK, NothingSent
  <2>2. \A x : [client EXCEPT !.files = x].session = client.session
    BY <1>1, Fields
  <2>3. AfterRead(client, io.body.of).session = client.session
    BY <1>1, <2>1, AfterReadIs
  <2>4. client'.session = client.session
    BY <1>11, <2>2, <2>3 DEF IoRead
  <2>5. io' = At("push", ReadInto(client, io.body))
    BY <1>11 DEF IoRead
  <2>6. io'.pc = "push"
    BY <2>5 DEF At
  <2> QED  BY <1>1, <1>3, <1>7, <2>1, <2>4, <2>6
<1>12. CASE IoPush \/ IoId \/ IoData
  <2>1. \/ client' = Pushed(client, io.body)
        \/ client' = Named(client) /\ client.packets # <<>>
        \/ client' = Filled(client, io.body) /\ client.packets # <<>>
    BY <1>2, <1>12 DEF IoPush, IoId, IoData, IoAt
  <2>2. client'.session = client.session /\ client'.packets # <<>>
    BY <1>1, <2>1, GrownClient
  <2>3. UNCHANGED crashed
    BY <1>12 DEF IoPush, IoId, IoData, NothingSent
  <2>4. io'.pc \in {"id", "data", "send"}
    <3>1. \E pc \in {"id", "data", "send"} : io' = [io EXCEPT !.pc = pc]
      BY <1>12 DEF IoPush, IoId, IoData, IoGoes
    <3>2. io \in Thread
      BY <1>1, ThreadsAre
    <3> QED  BY <3>1, <3>2, ThreadIs, PcIs
  <2> QED  BY <1>1, <1>3, <1>7, <2>2, <2>3, <2>4
<1> QED  BY <1>5, <1>6, <1>8, <1>9, <1>10, <1>11, <1>12, IoIs

LEMMA NextHeld == IInv /\ Held /\ [Next]_vars => Held'
<1> SUFFICES ASSUME IInv, Held, [Next]_vars, locked', again' = 0
             PROVE  /\ ~crashed'
                    /\ ui' = Idle \/ io' = Idle
                    /\ ui' # Idle \/ io' # Idle => client'.session # None
                    /\ ui'.pc \in {"id", "data", "test", "send"} => client'.packets # <<>>
                    /\ io'.pc \in {"id", "data", "send"} => client'.packets # <<>>
                    /\ io'.pc = "tell" => client'.files # <<>>
  BY Zenon DEF Held
<1>1. CASE UNCHANGED vars
  <2>1. locked /\ again = 0
    BY <1>1, Zenon DEF vars
  <2>2. /\ ~crashed
        /\ ui = Idle \/ io = Idle
        /\ ui # Idle \/ io # Idle => client.session # None
        /\ ui.pc \in {"id", "data", "test", "send"} => client.packets # <<>>
        /\ io.pc \in {"id", "data", "send"} => client.packets # <<>>
        /\ io.pc = "tell" => client.files # <<>>
    BY <2>1, Zenon DEF Held
  <2>3. UNCHANGED <<crashed, ui, io, client>>
    BY <1>1 DEF vars
  <2>4. ~crashed'
    BY <2>2, <2>3, Zenon
  <2> QED  BY <2>2, <2>3, <2>4
<1>2. CASE Next
  <2>1. locked
    BY <1>2, Zenon DEF Next, Noted
  <2>2. Idle.pc = "idle" /\ again \in Nat
    BY ThreadIs DEF IInv, DeviceOK
  <2>3. CASE HostStep
    <3>1. again = 0
      BY <2>3, HostGoes
    <3>2. /\ ~crashed' /\ io' = Idle
          /\ ui' # Idle => client'.session # None
          /\ ui'.pc \in {"id", "data", "test", "send"} => client'.packets # <<>>
      BY <2>1, <2>3, <3>1, HeldHost
    <3> QED  BY <2>2, <3>2
  <2>4. CASE IoStep
    <3>1. again = 0
      BY <2>4, IoIs
    <3>2. /\ ~crashed' /\ ui' = Idle
          /\ io' # Idle => client'.session # None
          /\ io'.pc \in {"id", "data", "send"} => client'.packets # <<>>
          /\ io'.pc = "tell" => client'.files # <<>>
      BY <2>1, <2>4, <3>1, HeldIo
    <3> QED  BY <2>2, <3>2
  <2>5. ASSUME NEW x, (x \in Texts /\ CallText(x)) \/ (x \in Files /\ CallFile(x))
        PROVE  /\ ~crashed' /\ io' = Idle /\ client'.session # None
               /\ ui'.pc \in {"push", "queue"}
    <3>1. UNCHANGED <<client, io, crashed>> /\ HostTurn /\ client.session # None
      BY <2>5, CallIs
    <3>2. ~crashed /\ io = Idle
      BY <2>1, <3>1, Zenon DEF HostTurn
    <3>3. ~crashed'
      BY <3>1, <3>2, Zenon
    <3>4. ui'.pc \in {"push", "queue"}
      BY <2>5, CallIs DEF UiGoes
    <3> QED  BY <3>1, <3>2, <3>3, <3>4
  <2>6. CASE Handler
    <3>1. PICK c \in Conn :
              \/ WriteDone(c) \/ WriteFail(c) \/ ReadFail(c) \/ BadFrame(c)
              \/ RecvAck(c) \/ Relogin(c) \/ LoginAgain(c)
      BY <2>6 DEF Handler
    <3>2. IoTurn
      BY <3>1 DEF WriteDone, WriteFail, ReadFail, BadFrame, RecvAck, Relogin, LoginAgain
    <3>3. ~crashed /\ ui = Idle /\ io = Idle /\ ui' = Idle
      BY <2>1, <3>2, Zenon DEF IoTurn
    <3>4. ~LoginAgain(c)
      BY <2>2 DEF LoginAgain
    <3>5. UNCHANGED crashed
      BY <3>1, <3>4 DEF WriteDone, WriteFail, ReadFail, BadFrame, RecvAck, Relogin
    <3>6. ~crashed'
      BY <3>3, <3>5, Zenon
    <3>7. io' = Idle \/ (io' = At("scan", Blank) /\ client'.session # None)
      BY <3>1, <3>3, <3>4 DEF WriteDone, WriteFail, ReadFail, BadFrame, RecvAck, Relogin, HandleWrites
    <3> QED  BY <2>2, <3>3, <3>6, <3>7 DEF At
  <2> QED  BY <1>2, <2>2, <2>3, <2>4, <2>5, <2>6 DEF Next, Host
<1> QED  BY <1>1, <1>2

(* On the io_service's thread send() never dereferences a session that was *)
(* lost, for any texts, files, connections and identifiers.                *)
THEOREM SessionNotNull == Spec => []NullNeverUsed
<1>1. Init => Held
  <2>1. Idle.pc = "idle"
    BY ThreadIs
  <2> QED  BY <2>1, Zenon DEF Init, Held
<1>2. Held => NullNeverUsed
  BY Zenon DEF Held, NullNeverUsed
<1> QED  BY <1>1, <1>2, InitIInv, NextIInv, NextHeld, PTL DEF Spec

-----------------------------------------------------------------------------
(* What is in the sequences of all connections. *)
Elems(w) == UNION {{w[c][i] : i \in DOMAIN w[c]} : c \in Conn}

LEMMA InElems ==
    ASSUME NEW w, NEW x
    PROVE  x \in Elems(w) <=> \E c \in Conn : \E i \in DOMAIN w[c] : x = w[c][i]
BY DEF Elems

LEMMA ElemsAdded ==
    ASSUME NEW w, NEW v, NEW s \in Conn, NEW n \in Nat, NEW m, m = n + 1,
           DOMAIN w[s] = 1 .. n, DOMAIN v[s] = 1 .. m, \A i \in 1 .. n : v[s][i] = w[s][i],
           \A c \in Conn \ {s} : v[c] = w[c]
    PROVE  Elems(v) = Elems(w) \cup {v[s][m]}
<1>1. 1 .. m = (1 .. n) \cup {m}
  OBVIOUS
<1>2. ASSUME NEW y, y \in Elems(v) PROVE y \in Elems(w) \cup {v[s][m]}
  <2>1. PICK c \in Conn : \E i \in DOMAIN v[c] : y = v[c][i]
    BY <1>2, InElems
  <2>2. CASE c = s
    <3>1. PICK i \in 1 .. m : y = v[s][i]
      BY <2>1, <2>2
    <3>2. i \in 1 .. n => y \in Elems(w)
      BY <3>1, InElems
    <3> QED  BY <1>1, <3>1, <3>2
  <2>3. CASE c # s
    BY <2>1, <2>3, InElems
  <2> QED  BY <2>2, <2>3
<1>3. ASSUME NEW y PROVE y \in Elems(w) => y \in Elems(v)
  <2>1. SUFFICES ASSUME NEW c \in Conn, NEW i \in DOMAIN w[c], y = w[c][i]
                 PROVE  \E j \in DOMAIN v[c] : y = v[c][j]
    BY InElems
  <2> QED  BY <1>1, <2>1
<1>4. v[s][m] \in Elems(v)
  <2>1. m \in DOMAIN v[s]
    BY <1>1
  <2> QED  BY <2>1, InElems
<1> QED  BY <1>2, <1>3, <1>4

(* The first element of one of them is taken. *)
LEMMA ElemsRemoved ==
    ASSUME NEW w, NEW v, NEW s \in Conn, NEW n \in Nat,
           DOMAIN w[s] = 1 .. n, DOMAIN v[s] = 1 .. n - 1,
           \A i \in 1 .. n - 1 : v[s][i] = w[s][i + 1],
           \A c \in Conn \ {s} : v[c] = w[c]
    PROVE  Elems(v) \subseteq Elems(w)
<1>1. \A i \in 1 .. n - 1 : i + 1 \in 1 .. n
  OBVIOUS
<1>2. ASSUME NEW y, y \in Elems(v) PROVE y \in Elems(w)
  <2>1. PICK c \in Conn : \E i \in DOMAIN v[c] : y = v[c][i]
    BY <1>2, InElems
  <2>2. \E i \in DOMAIN w[c] : y = w[c][i]
    BY <1>1, <2>1
  <2> QED  BY <2>2, InElems
<1> QED  BY <1>2

(* A write of the frame x is started. *)
LEMMA FrameAdded ==
    ASSUME NEW w \in [Conn -> Seq(Frame)], NEW s \in Conn, NEW x \in Frame
    PROVE  Elems(Grown(w, s, x)) = Elems(w) \cup {x}
<1> DEFINE n == Len(w[s])
           m == n + 1
           v == Grown(w, s, x)
<1>1. /\ w[s] \in Seq(Frame) /\ v[s] = Append(w[s], x)
      /\ \A c \in Conn \ {s} : v[c] = w[c]
  BY DEF Grown
<1>2. v[s] \in Seq(Frame) /\ Len(v[s]) = m
  BY <1>1
<1>3. /\ n \in Nat /\ DOMAIN w[s] = 1 .. n /\ DOMAIN v[s] = 1 .. m
      /\ v[s][m] = x /\ \A i \in 1 .. n : v[s][i] = w[s][i]
  BY <1>1, <1>2, LenProperties
<1> HIDE DEF n, v
<1>4. Elems(v) = Elems(w) \cup {v[s][m]}
  BY <1>1, <1>3, ElemsAdded, SMTT(30)
<1> QED  BY <1>3, <1>4 DEF v

(* The first write completes. *)
LEMMA FrameRemoved ==
    ASSUME NEW w \in [Conn -> Seq(Frame)], NEW s \in Conn, w[s] # <<>>
    PROVE  /\ Elems(Shrunk(w, s)) \subseteq Elems(w)
           /\ Head(w[s]) \in Elems(w) /\ Head(w[s]) \in Frame
<1> DEFINE n == Len(w[s])
           v == Shrunk(w, s)
           q == w[s]
<1>1. /\ q \in Seq(Frame) /\ q # <<>> /\ v[s] = Tail(q)
      /\ \A c \in Conn \ {s} : v[c] = w[c]
  BY DEF Shrunk
<1> HIDE DEF q, v
<1>2. /\ Head(q) \in Frame /\ Tail(q) \in Seq(Frame) /\ Len(Tail(q)) = Len(q) - 1
      /\ \A i \in 1 .. Len(q) - 1 : Tail(q)[i] = q[i + 1]
  BY <1>1, HeadTailProperties
<1>3. /\ Len(q) \in Nat \ {0} /\ DOMAIN q = 1 .. Len(q) /\ Head(q) = q[1]
      /\ DOMAIN v[s] = 1 .. Len(q) - 1
  BY <1>1, <1>2, EmptySeq, LenProperties
<1>4. /\ n \in Nat \ {0} /\ DOMAIN w[s] = 1 .. n /\ DOMAIN v[s] = 1 .. n - 1
      /\ \A i \in 1 .. n - 1 : v[s][i] = w[s][i + 1]
  BY <1>1, <1>2, <1>3 DEF q
<1> HIDE DEF n
<1>5. Elems(v) \subseteq Elems(w)
  BY <1>1, <1>4, ElemsRemoved
<1>6. 1 \in DOMAIN w[s]
  BY <1>4
<1> QED  BY <1>2, <1>3, <1>5, <1>6, InElems DEF q, v

Ids == 0 .. MaxId

(* An acknowledgement is owed for the identifier x. *)
LEMMA OwedAdded ==
    ASSUME NEW w \in [Conn -> Seq(Ids)], NEW s \in Conn, NEW x \in Ids
    PROVE  Elems(Grown(w, s, x)) = Elems(w) \cup {x}
<1> DEFINE n == Len(w[s])
           m == n + 1
           v == Grown(w, s, x)
<1>1. /\ w[s] \in Seq(Ids) /\ v[s] = Append(w[s], x)
      /\ \A c \in Conn \ {s} : v[c] = w[c]
  BY DEF Grown
<1>2. v[s] \in Seq(Ids) /\ Len(v[s]) = m
  BY <1>1
<1>3. /\ n \in Nat /\ DOMAIN w[s] = 1 .. n /\ DOMAIN v[s] = 1 .. m
      /\ v[s][m] = x /\ \A i \in 1 .. n : v[s][i] = w[s][i]
  BY <1>1, <1>2, LenProperties
<1> HIDE DEF n, v
<1>4. Elems(v) = Elems(w) \cup {v[s][m]}
  BY <1>1, <1>3, ElemsAdded
<1> QED  BY <1>3, <1>4 DEF v

(* The first acknowledgement comes. *)
LEMMA OwedRemoved ==
    ASSUME NEW w \in [Conn -> Seq(Ids)], NEW s \in Conn, w[s] # <<>>
    PROVE  /\ Elems(Shrunk(w, s)) \subseteq Elems(w)
           /\ Head(w[s]) \in Elems(w) /\ Head(w[s]) \in Ids
<1> DEFINE n == Len(w[s])
           v == Shrunk(w, s)
           q == w[s]
<1>1. /\ q \in Seq(Ids) /\ q # <<>> /\ v[s] = Tail(q)
      /\ \A c \in Conn \ {s} : v[c] = w[c]
  BY DEF Shrunk
<1> HIDE DEF q, v
<1>2. /\ Head(q) \in Ids /\ Tail(q) \in Seq(Ids) /\ Len(Tail(q)) = Len(q) - 1
      /\ \A i \in 1 .. Len(q) - 1 : Tail(q)[i] = q[i + 1]
  BY <1>1, HeadTailProperties
<1>3. /\ Len(q) \in Nat \ {0} /\ DOMAIN q = 1 .. Len(q) /\ Head(q) = q[1]
      /\ DOMAIN v[s] = 1 .. Len(q) - 1
  BY <1>1, <1>2, EmptySeq, LenProperties
<1>4. /\ n \in Nat \ {0} /\ DOMAIN w[s] = 1 .. n /\ DOMAIN v[s] = 1 .. n - 1
      /\ \A i \in 1 .. n - 1 : v[s][i] = w[s][i + 1]
  BY <1>1, <1>2, <1>3 DEF q
<1> HIDE DEF n
<1>5. Elems(v) \subseteq Elems(w)
  BY <1>1, <1>4, ElemsRemoved
<1>6. 1 \in DOMAIN w[s]
  BY <1>4
<1> QED  BY <1>2, <1>3, <1>5, <1>6, InElems DEF q, v

-----------------------------------------------------------------------------
(* The packet the thread t has pushed and not filled in yet is the last,   *)
(* was not sent, and stands where the body of t starts; no frame and no    *)
(* acknowledgement has its identifier.  W and O as for Identified.         *)
Unfilled(packets, t, W, O) ==
    /\ packets # <<>>
    /\ \A k \in DOMAIN packets : packets[k].id = 0 => t.pc = "id" /\ k = Len(packets)
    /\ ~Sent(packets[Len(packets)])
    /\ packets[Len(packets)].body = [of |-> None, off |-> t.body.off, len |-> 0]
    /\ t.pc = "id" => packets[Len(packets)].id = 0
    /\ \A f \in W : f.id # packets[Len(packets)].id
    /\ packets[Len(packets)].id \notin O

LEMMA LastOne ==
    ASSUME NEW p \in Seq(Packet), p # <<>>
    PROVE  /\ Len(p) \in Nat \ {0} /\ DOMAIN p = 1 .. Len(p) /\ Len(p) \in DOMAIN p
           /\ p[Len(p)] \in Packet
<1>1. Len(p) \in Nat /\ DOMAIN p = 1 .. Len(p)
  BY LenProperties
<1>2. Len(p) # 0
  BY EmptySeq
<1>3. Len(p) \in 1 .. Len(p)
  BY <1>1, <1>2
<1> QED  BY <1>1, <1>2, <1>3, ElementOfSeq

LEMMA UnfilledPushed ==
    ASSUME NEW p \in Seq(Packet), NEW W, NEW O, NEW D, Identified(p, W, O, D), Numbered(p),
           NEW t \in Thread, t.pc = "id",
           NEW q \in Seq(Packet), Len(q) = Len(p) + 1,
           \A j \in 1 .. Len(p) : q[j] = p[j], q[Len(p) + 1] = PushedPacket(t.body)
    PROVE  /\ Identified(q, W, O, D) /\ Unfilled(q, t, W, O)
           /\ \A b : b \in Bodies(p) => b \in Bodies(q)
<1> DEFINE n == Len(p)
           r == PushedPacket(t.body)
<1>1. n \in Nat /\ DOMAIN p = 1 .. n /\ DOMAIN q = 1 .. n + 1
  BY LenProperties
<1>2. r.id = 0 /\ ~Sent(r) /\ r.body = [of |-> None, off |-> t.body.off, len |-> 0]
  BY DEF PushedPacket, Sent
<1> HIDE DEF r, n
<1>3. Len(q) = n + 1 /\ q[n + 1] = r /\ \A j \in 1 .. n : q[j] = p[j]
  BY DEF r, n
<1>4. \A j \in 1 .. n + 1 : j \in 1 .. n \/ j = n + 1
  BY <1>1
<1>5. Identified(q, W, O, D)
  BY <1>1, <1>2, <1>3, <1>4 DEF Identified, Numbered
<1>6. Unfilled(q, t, W, O)
  <2>1. q # <<>>
    BY <1>1, <1>3, EmptySeq
  <2> QED  BY <1>1, <1>2, <1>3, <1>4, <2>1 DEF Unfilled, Identified, Numbered
<1>7. \A b : b \in Bodies(p) => b \in Bodies(q)
  BY <1>1, <1>3, <1>4 DEF Bodies
<1> QED  BY <1>5, <1>6, <1>7

LEMMA UnfilledNamed ==
    ASSUME NEW p \in Seq(Packet), NEW W, NEW O, NEW D, Identified(p, W, O, D),
           NEW t \in Thread, Unfilled(p, t, W, O),
           NEW id, id # 0, Unused(id, p, W, O),
           NEW u \in Thread, u.pc = "data", u.body = t.body,
           NEW q \in Seq(Packet), Len(q) = Len(p),
           \A j \in 1 .. Len(p) : q[j] = IF j = Len(p) THEN WithId(p[Len(p)], id) ELSE p[j]
    PROVE  /\ Identified(q, W, O, D) /\ Unfilled(q, u, W, O)
           /\ \A b : b \in Bodies(p) => b \in Bodies(q)
<1> DEFINE n == Len(p)
           r == WithId(p[n], id)
<1>1. n \in Nat \ {0} /\ DOMAIN p = 1 .. n /\ DOMAIN q = 1 .. n /\ n \in 1 .. n
  BY LastOne, LenProperties DEF Unfilled
<1>2. r.id = id /\ (Sent(r) <=> Sent(p[n])) /\ r.body = p[n].body
  BY DEF WithId, Sent
<1> HIDE DEF r
<1>3. q[n] = r /\ \A j \in 1 .. n : j # n => q[j] = p[j]
  BY <1>1 DEF r
<1> HIDE DEF n
<1>4. ~Sent(p[n]) /\ p[n].body = [of |-> None, off |-> t.body.off, len |-> 0]
      /\ \A k \in 1 .. n : k # n => p[k].id # 0
  BY <1>1 DEF Unfilled, n
<1>5. \A j \in 1 .. n : p[j].id # id
  BY <1>1 DEF Unused
<1>6. Identified(q, W, O, D)
  <2>1. \A i, j \in 1 .. n : q[i].id = q[j].id => i = j
    BY <1>1, <1>2, <1>3, <1>5 DEF Identified
  <2>2. \A i \in 1 .. n : Sent(q[i]) => q[i].frame = [id |-> q[i].id, body |-> q[i].body]
    BY <1>1, <1>2, <1>3, <1>4 DEF Identified
  <2>3. \A f \in W : f.id # 0 /\ \A i \in 1 .. n : q[i].id = f.id => q[i].body = f.body
    BY <1>1, <1>2, <1>3 DEF Identified, Unused
  <2>4. \A h \in O : h # 0 /\ \A i \in 1 .. n : q[i].id = h => q[i].body \in D
    BY <1>1, <1>2, <1>3 DEF Identified, Unused
  <2> QED  BY <1>1, <2>1, <2>2, <2>3, <2>4 DEF Identified
<1>7. Unfilled(q, u, W, O)
  <2>1. q # <<>>
    BY <1>1, EmptySeq
  <2>2. Len(q) = n
    BY DEF n
  <2>3. \A k \in 1 .. n : q[k].id # 0
    BY <1>2, <1>3, <1>4
  <2> QED  BY <1>1, <1>2, <1>3, <1>4, <2>1, <2>2, <2>3 DEF Unfilled, Unused
<1>8. \A b : b \in Bodies(p) => b \in Bodies(q)
  BY <1>1, <1>2, <1>3 DEF Bodies
<1> QED  BY <1>6, <1>7, <1>8

LEMMA UnfilledFilled ==
    ASSUME NEW p \in Seq(Packet), NEW W, NEW O, NEW D, Identified(p, W, O, D),
           NEW t \in Thread, Unfilled(p, t, W, O), t.pc = "data",
           NEW q \in Seq(Packet), Len(q) = Len(p),
           \A j \in 1 .. Len(p) : q[j] = IF j = Len(p) THEN WithBody(p[Len(p)], t.body) ELSE p[j]
    PROVE  /\ Identified(q, W, O, D) /\ Numbered(q)
           /\ t.body \in Bodies(q)
           /\ \A b : b \in Bodies(p) => b \in Bodies(q) \/ b.of = None
<1> DEFINE n == Len(p)
           r == WithBody(p[n], t.body)
<1>1. n \in Nat \ {0} /\ DOMAIN p = 1 .. n /\ DOMAIN q = 1 .. n /\ n \in 1 .. n
  BY LastOne, LenProperties DEF Unfilled
<1>2. ~Sent(p[n]) /\ p[n].body = [of |-> None, off |-> t.body.off, len |-> 0]
      /\ \A k \in 1 .. n : p[k].id # 0
  BY <1>1 DEF Unfilled
<1>3. r.id = p[n].id /\ ~Sent(r) /\ r.body = t.body
  <2>1. t.body = [of |-> t.body.of, off |-> t.body.off, len |-> t.body.len]
    BY DEF Thread, Body
  <2> HIDE DEF n
  <2>2. p[n].body.off = t.body.off
    BY <1>2
  <2> QED  BY <1>2, <2>1, <2>2 DEF WithBody, Sent
<1> HIDE DEF r
<1>4. q[n] = r /\ \A j \in 1 .. n : j # n => q[j] = p[j]
  BY <1>1 DEF r
<1>5. \A f \in W : f.id # p[n].id
  BY DEF Unfilled
<1>6. p[n].id \notin O
  BY DEF Unfilled
<1> HIDE DEF n
<1>7. Identified(q, W, O, D)
  <2>1. \A i \in 1 .. n : q[i].id = p[i].id
    BY <1>3, <1>4
  <2>2. \A i \in 1 .. n : Sent(q[i]) => q[i].frame = [id |-> q[i].id, body |-> q[i].body]
    BY <1>1, <1>3, <1>4 DEF Identified
  <2>3. \A f \in W : f.id # 0 /\ \A i \in 1 .. n : q[i].id = f.id => q[i].body = f.body
    BY <1>1, <1>3, <1>4, <1>5 DEF Identified
  <2>4. \A h \in O : h # 0 /\ \A i \in 1 .. n : q[i].id = h => q[i].body \in D
    BY <1>1, <1>3, <1>4, <1>6 DEF Identified
  <2>5. \A i, j \in 1 .. n : q[i].id = q[j].id => i = j
    BY <1>1, <2>1 DEF Identified
  <2> QED  BY <1>1, <2>2, <2>3, <2>4, <2>5 DEF Identified
<1>8. Numbered(q)
  BY <1>1, <1>2, <1>3, <1>4 DEF Numbered
<1>9. t.body \in Bodies(q)
  BY <1>1, <1>3, <1>4 DEF Bodies
<1>10. \A b : b \in Bodies(p) => b \in Bodies(q) \/ b.of = None
  BY <1>1, <1>2, <1>4 DEF Bodies
<1> QED  BY <1>7, <1>8, <1>9, <1>10

LEMMA SameLength ==
    ASSUME NEW p \in Seq(Packet), NEW q \in Seq(Packet), DOMAIN q = DOMAIN p
    PROVE  Len(q) = Len(p)
<1>1. PICK m \in Nat, n \in Nat : m = Len(p) /\ n = Len(q) /\ 1 .. m = 1 .. n
  BY LenProperties
<1>2. (m < n => n \in 1 .. n) /\ (n < m => m \in 1 .. m)
  BY <1>1
<1>3. m = n
  BY <1>1, <1>2
<1> QED  BY <1>1, <1>3

(* It stays what it is when another packet is sent, when an                *)
(* acknowledgement comes, when a login resets the list and when a write    *)
(* completes.                                                              *)
LEMMA UnfilledSent ==
    ASSUME NEW p \in Seq(Packet), NEW W, NEW O, NEW D, Identified(p, W, O, D),
           NEW t, Unfilled(p, t, W, O), NEW i \in 1 .. Len(p), i # Len(p)
    PROVE  Unfilled(BuffAt(p, i), t, W \cup {BuffAt(p, i)[i].frame}, O)
<1> DEFINE n == Len(p)
           q == BuffAt(p, i)
<1>1. n \in Nat \ {0} /\ DOMAIN p = 1 .. n /\ n \in 1 .. n
  BY LastOne DEF Unfilled
<1>2. /\ q \in Seq(Packet) /\ DOMAIN q = DOMAIN p
      /\ \A j \in DOMAIN p \ {i} : q[j] = p[j]
      /\ q[i].id = p[i].id /\ q[i].body = p[i].body /\ Sent(q[i])
      /\ q[i].frame = IF Sent(p[i]) THEN p[i].frame ELSE [id |-> p[i].id, body |-> p[i].body]
  BY BuffAtChanges
<1>3. q[i].frame = [id |-> p[i].id, body |-> p[i].body]
  <2>1. p[i].id # 0
    BY <1>1 DEF Unfilled
  <2> QED  BY <2>1, IdentifiedBuffAt
<1>4. Len(q) = n /\ q # <<>>
  <2> HIDE DEF q
  <2>2. Len(q) = n
    BY <1>2, SameLength
  <2> QED  BY <1>1, <2>2, EmptySeq
<1> HIDE DEF q
<1>5. q[n] = p[n] /\ i # n
  BY <1>1, <1>2
<1>6. q[i].frame.id = p[i].id /\ p[i].id # p[n].id
  <2>1. p[i].id # p[n].id
    BY <1>1, <1>5 DEF Identified
  <2> QED  BY <1>3, <2>1
<1> HIDE DEF n
<1>7. \A k \in DOMAIN q : q[k].id = p[k].id
  BY <1>2
<1> QED  BY <1>1, <1>2, <1>4, <1>5, <1>6, <1>7 DEF Unfilled, n, q

LEMMA UnfilledAcknowledged ==
    ASSUME NEW p \in Seq(Packet), Ordered(p), NEW W, NEW O, NEW D, Identified(p, W, O, D),
           NEW t, Unfilled(p, t, W, O), NEW h \in O
    PROVE  Unfilled(Acknowledged(p, h), t, W, O)
<1> DEFINE n == Len(p)
           q == Acknowledged(p, h)
<1>1. n \in DOMAIN p /\ p[n].id # h
  BY LastOne DEF Unfilled
<1>2. /\ Identified(q, W, O, D)
      /\ \A j \in DOMAIN q : \E k \in DOMAIN p : q[j] = p[k]
      /\ q # <<>> /\ q[Len(q)] = p[n]
  BY <1>1, IdentifiedAcknowledged DEF Unfilled
<1>3. q \in Seq(Packet)
  BY AcknowledgedKeeps
<1> HIDE DEF q
<1>4. Len(q) \in DOMAIN q
  BY <1>2, <1>3, LastOne
<1>5. ASSUME NEW k \in DOMAIN q, q[k].id = 0 PROVE t.pc = "id" /\ k = Len(q)
  <2>1. PICK j \in DOMAIN p : q[k] = p[j]
    BY <1>2
  <2>2. t.pc = "id" /\ j = n
    BY <1>5, <2>1 DEF Unfilled
  <2>3. q[k].id = q[Len(q)].id
    BY <1>2, <2>1, <2>2
  <2> QED  BY <1>2, <1>4, <2>2, <2>3 DEF Identified
<1> QED  BY <1>2, <1>5 DEF Unfilled, q

LEMMA UnfilledReset ==
    ASSUME NEW p \in Seq(Packet), Ordered(p), NEW W, NEW O, NEW t, Unfilled(p, t, W, O)
    PROVE  Unfilled(ResetAll(p), t, W, O)
<1> DEFINE n == Len(p)
           q == ResetAll(p)
<1>1. n \in Nat \ {0} /\ DOMAIN p = 1 .. n /\ n \in DOMAIN p
  BY LastOne DEF Unfilled
<1>2. \A j \in DOMAIN p : p[j] \in Packet
  BY ElementOfSeq, LenProperties
<1>3. q \in Seq(Packet)
  BY ResetKeeps
<1>4. DOMAIN q = DOMAIN p /\ \A j \in DOMAIN p : q[j] = [p[j] EXCEPT !.frame = None]
  BY DEF ResetAll
<1>5. \A j \in DOMAIN p : q[j].id = p[j].id /\ q[j].body = p[j].body /\ ~Sent(q[j])
  BY <1>2, <1>4 DEF Packet, Sent
<1> HIDE DEF q
<1>6. Len(q) = n
  BY <1>1, <1>3, <1>4, LenProperties
<1>7. q # <<>>
  BY <1>1, <1>6, EmptySeq
<1> QED  BY <1>1, <1>4, <1>5, <1>6, <1>7 DEF Unfilled, q

LEMMA UnfilledLess ==
    ASSUME NEW p, NEW W, NEW O, NEW t, Unfilled(p, t, W, O), NEW V, NEW N,
           \A f \in V : f \in W, \A h \in N : h \in O \/ \E f \in W : h = f.id
    PROVE  Unfilled(p, t, V, N)
BY DEF Unfilled

LEMMA NumberedOthers ==
    ASSUME NEW p \in Seq(Packet), Numbered(p), NEW W, NEW O, NEW D, Identified(p, W, O, D)
    PROVE  \A h \in O : Numbered(Acknowledged(p, h))
<1>1. ASSUME NEW h \in O PROVE Numbered(Acknowledged(p, h))
  <2>1. \A j \in DOMAIN Acknowledged(p, h) : \E k \in DOMAIN p : Acknowledged(p, h)[j] = p[k]
    BY IdentifiedAcknowledged
  <2> QED  BY <2>1 DEF Numbered
<1> QED  BY <1>1

-----------------------------------------------------------------------------
(* What send() is called with: a file is listed once, not before send()    *)
(* pushes it, and is the last until send() has read from it.               *)
Calling ==
    /\ accepted \subseteq asked /\ asked \subseteq Texts \cup Files
    /\ Once(client.files)
    /\ \A i \in DOMAIN client.files : client.files[i].file \in accepted
    /\ ui.pc = "queue" => ui.body.of \in asked /\ ui.body.of \notin accepted
    /\ ui.pc \in {"alone", "tell", "read"} /\ client.files # <<>>
          => client.files[Len(client.files)].file = ui.body.of

LEMMA SameFiles ==
    ASSUME NEW S, NEW c, Good(S, c), NEW d, Good(S, d), Len(d.files) = Len(c.files),
           \A i \in 1 .. Len(c.files) : d.files[i].file = c.files[i].file
    PROVE  Remaining(c.files, d.files)
<1> DEFINE n == Len(c.files)
<1>1. n \in Nat /\ DOMAIN c.files = 1 .. n /\ DOMAIN d.files = 1 .. n /\ d.files \in Seq(File)
      /\ c.files \in Seq(File)
  BY FilesIs, LenProperties
<1>2. d.files # <<>> => c.files # <<>> /\ n \in 1 .. n
  BY <1>1, EmptySeq
<1> QED  BY <1>1, <1>2 DEF Remaining, Once

LEMMA AfterReadRemains ==
    ASSUME NEW S, NEW c, Good(S, c), NEW f \in Files
    PROVE  Remaining(c.files, AfterRead(c, f).files)
<1> DEFINE d == AfterRead(c, f)
<1>1. CASE Places(c, f) = {}
  <2>1. d = c
    BY <1>1, AfterReadIs
  <2> QED  BY <2>1 DEF Remaining
<1>2. CASE Places(c, f) # {}
  <2>1. PICK i \in 1 .. Len(c.files) : i = FirstOf(Places(c, f))
    BY <1>2, PlacesIs
  <2>2. /\ Good(S, d) /\ Len(d.files) = Len(c.files)
        /\ \A j \in 1 .. Len(c.files) :
              d.files[j] = IF j = i THEN Advanced(c.files[i]) ELSE c.files[j]
    BY <1>2, <2>1, AfterReadIs
  <2>3. Advanced(c.files[i]).file = c.files[i].file
    BY FilesIs, ChunkType DEF Advanced, File
  <2> HIDE DEF d
  <2>4. \A j \in 1 .. Len(c.files) : d.files[j].file = c.files[j].file
    BY <2>2, <2>3
  <2> QED  BY <2>2, <2>4, SameFiles DEF d
<1> QED  BY <1>1, <1>2

LEMMA TailRemains ==
    ASSUME NEW S, NEW c, Good(S, c), c.files # <<>>
    PROVE  Remaining(c.files, Tail(c.files))
<1> DEFINE n == Len(c.files)
           q == Tail(c.files)
<1>1. /\ n \in Nat \ {0} /\ Len(q) = n - 1
      /\ \A i \in 1 .. n - 1 : q[i] = c.files[i + 1]
  BY FewerFiles
<1>2. DOMAIN c.files = 1 .. n /\ DOMAIN q = 1 .. n - 1 /\ q \in Seq(File)
  BY <1>1, FilesIs, HeadTailProperties, LenProperties
<1> HIDE DEF q, n
<1>3. Once(c.files) => Once(q)
  <2>1. ASSUME Once(c.files), NEW i \in 1 .. n - 1, NEW j \in 1 .. n - 1, q[i].file = q[j].file
        PROVE  i = j
    <3>1. i + 1 \in 1 .. n /\ j + 1 \in 1 .. n /\ c.files[i + 1].file = c.files[j + 1].file
      BY <1>1, <2>1
    <3>2. i + 1 = j + 1
      BY <1>2, <2>1, <3>1 DEF Once
    <3> QED  BY <1>1, <3>2
  <2> QED  BY <1>2, <2>1 DEF Once
<1>4. \A i \in 1 .. n - 1 : i + 1 \in 1 .. n
  BY <1>1
<1>5. ASSUME q # <<>> PROVE q[Len(q)].file = c.files[n].file
  <2>1. Len(q) # 0
    BY <1>2, <1>5, EmptySeq
  <2>2. n - 1 \in 1 .. n - 1 /\ n - 1 + 1 = n
    BY <1>1, <2>1
  <2> QED  BY <1>1, <2>2
<1> QED  BY <1>1, <1>2, <1>3, <1>4, <1>5 DEF Remaining, n, q

(* No step but push_back adds a file, and none but pop_back takes the last. *)
LEMMA CallingRemains ==
    ASSUME Calling, UNCHANGED <<asked, accepted>>, Remaining(client.files, client'.files),
           ui'.pc = "queue" => UNCHANGED ui,
           ui'.pc \in {"alone", "tell", "read"} =>
              ui.pc \in {"alone", "tell", "read"} /\ ui'.body.of = ui.body.of
    PROVE  Calling'
BY DEF Calling, Remaining

LEMMA FileQueueCalling ==
    ASSUME IInv, Calling, FileQueue
    PROVE  Calling'
<1>1. Good(Conn, client) /\ ThreadsOK /\ ui.pc = "queue" /\ ui.body.of \in Files
  BY DEF IInv, FileQueue, HostAt, ThreadsOK
<1> DEFINE g == [file |-> ui.body.of, pos |-> 0]
           d == [client EXCEPT !.files = Append(@, g)]
           n == Len(client.files)
<1>2. /\ Good(Conn, d) /\ Len(d.files) = n + 1 /\ n \in Nat
      /\ \A i \in 1 .. n : d.files[i] = client.files[i]
      /\ d.files[n + 1] = g
  BY <1>1, QueuedIs
<1>3. client' = d /\ ui'.pc = "alone" /\ ui'.body = ui.body
      /\ accepted' = accepted \cup {ui.body.of} /\ asked' = asked
  BY <1>1, ThreadsAre, ThreadIs, PcIs DEF FileQueue, HostAt, Goes
<1>4. DOMAIN d.files = 1 .. n + 1 /\ DOMAIN client.files = 1 .. n
  BY <1>1, <1>2, FilesIs
<1>5. g.file = ui.body.of
  OBVIOUS
<1> HIDE DEF d, g, n
<1>6. \A i \in 1 .. n + 1 : i \in 1 .. n \/ i = n + 1
  BY <1>2
<1>7. Once(d.files)
  <2>1. \A i \in 1 .. n : d.files[i].file # ui.body.of
    BY <1>1, <1>2, <1>4 DEF Calling
  <2> QED  BY <1>2, <1>4, <1>5, <1>6, <2>1 DEF Once, Calling
<1> QED  BY <1>1, <1>2, <1>3, <1>4, <1>5, <1>6, <1>7 DEF Calling

LEMMA FileTellCalling ==
    ASSUME IInv, Calling, FileTell
    PROVE  Calling'
<1>1. Good(Conn, client) /\ ThreadsOK /\ ui.pc = "tell" /\ UNCHANGED <<asked, accepted>>
  BY DEF IInv, FileTell, HostAt
<1>2. CASE UNCHANGED client
  <2>1. Remaining(client.files, client'.files)
    BY <1>2 DEF Remaining
  <2>2. ui' = Idle \/ UiGoes("read", [ui.body EXCEPT !.off = Position(client, ui.body.of)])
    BY HostGoes DEF HostStep, FileTell, FileAlone, FileQueue, FileRead, HostPush, HostId, HostData, TextTest, HostSend, HostAt
  <2>3. ui'.pc # "queue" /\ (ui'.pc = "read" => ui'.body.of = ui.body.of) /\ ui'.pc \notin {"alone", "tell"}
    <3>1. ui.body \in Body
      BY <1>1, ThreadsAre
    <3>2. [ui.body EXCEPT !.off = Position(client, ui.body.of)].of = ui.body.of
      BY <3>1 DEF Body
    <3> QED  BY <2>2, <3>2, ThreadIs DEF UiGoes
  <2> QED  BY <1>1, <2>1, <2>3, CallingRemains
<1>3. CASE /\ ui' = Idle
           /\ client' = [client EXCEPT !.files = IF @ = <<>> THEN @ ELSE Front(@)]
  <2>1. CASE client.files = <<>>
    <3>1. client' = [client EXCEPT !.files = client.files]
      BY <1>3, <2>1
    <3>2. client'.files = client.files
      BY <1>1, <3>1, Fields
    <3> QED  BY <1>1, <1>3, <3>2, CallingRemains, ThreadIs DEF Remaining
  <2>2. CASE client.files # <<>>
    <3>1. client'.files = Front(client.files)
      BY <1>1, <1>3, <2>2, Fields
    <3> DEFINE q == Front(client.files)
               n == Len(client.files)
    <3>2. /\ Good(Conn, [client EXCEPT !.files = q])
          /\ Len(q) = n - 1 /\ n \in Nat \ {0} /\ \A i \in 1 .. n - 1 : q[i] = client.files[i]
      BY <1>1, <2>2, FewerFiles
    <3> HIDE DEF q
    <3>3. [client EXCEPT !.files = q].files = q
      BY <1>1, Fields
    <3>4. DOMAIN q = 1 .. n - 1 /\ DOMAIN client.files = 1 .. n
      BY <1>1, <3>2, <3>3, FilesIs
    <3> HIDE DEF n
    <3>5. \A i \in 1 .. n - 1 : i \in 1 .. n
      BY <3>2
    <3>6. Once(q)
      BY <3>2, <3>4, <3>5 DEF Calling, Once
    <3>7. \A i \in 1 .. n - 1 : q[i].file \in accepted
      BY <3>2, <3>4, <3>5 DEF Calling
    <3>8. client'.files = q /\ DOMAIN client'.files = 1 .. n - 1 /\ ui'.pc = "idle"
      BY <1>3, <3>1, <3>4, ThreadIs DEF q
    <3> QED  BY <1>1, <3>6, <3>7, <3>8 DEF Calling
  <2> QED  BY <2>1, <2>2
<1> QED  BY <1>2, <1>3 DEF FileTell

LEMMA HostCalling ==
    ASSUME IInv, Calling, HostStep
    PROVE  Calling'
<1>1. Good(Conn, client) /\ ThreadsOK /\ UNCHANGED asked /\ ui.body \in Body
  BY HostGoes, ThreadsAre DEF IInv
<1>2. CASE FileQueue
  BY <1>2, FileQueueCalling
<1>3. CASE FileTell
  BY <1>3, FileTellCalling
<1>4. CASE HostStep /\ ~FileQueue /\ ~FileTell
  <2>1. UNCHANGED accepted
    BY <1>4 DEF HostStep, FileAlone, FileRead, HostPush, HostId, HostData, TextTest, HostSend
  <2>2. ui'.pc \notin {"queue", "alone", "read"}
        /\ (ui'.pc = "tell" => ui.pc = "alone" /\ ui'.body = ui.body)
    BY <1>4, HostGoes, ThreadIs DEF UiGoes
  <2>3. Remaining(client.files, client'.files)
    <3>1. CASE client'.files = client.files
      BY <3>1 DEF Remaining
    <3>2. CASE FileRead
      <4>1. ui.body.of \in Files /\ client' = AfterRead(client, ui.body.of)
        BY <1>1, <3>2 DEF FileRead, HostAt, ThreadsOK
      <4> QED  BY <1>1, <4>1, AfterReadRemains
    <3>3. CASE FileAlone \/ TextTest
      BY <3>1, <3>3 DEF FileAlone, TextTest
    <3>4. CASE HostPush
      BY <1>1, <3>1, <3>4, PushedIs DEF HostPush
    <3>5. CASE HostId
      BY <1>1, <3>1, <3>5, NamedIs DEF HostId
    <3>6. CASE HostData
      BY <1>1, <3>1, <3>6, FilledIs DEF HostData
    <3>7. CASE HostSend
      <4>1. Send(1)
        BY <3>7 DEF HostSend
      <4>2. client' = client \/ client' = Written(client, 1).client
        BY <4>1, SendIs
      <4>3. Written(client, 1).client.files = client.files
        BY <1>1, WrittenFields
      <4> QED  BY <3>1, <4>2, <4>3
    <3> QED  BY <1>4, <3>2, <3>3, <3>4, <3>5, <3>6, <3>7 DEF HostStep
  <2> QED  BY <1>1, <2>1, <2>2, <2>3, CallingRemains
<1> QED  BY <1>2, <1>3, <1>4

LEMMA IoFilesRemain ==
    ASSUME IInv, IoStep
    PROVE  Remaining(client.files, client'.files)
<1>1. Good(Conn, client) /\ ThreadsOK /\ io.body \in Body
  BY ThreadsAre DEF IInv
<1>2. CASE client'.files = client.files
  BY <1>2 DEF Remaining
<1>3. ASSUME NEW i, Send(i) PROVE client'.files = client.files
  <2>1. client' = client \/ client' = Written(client, i).client
    BY <1>3, SendIs
  <2>2. Written(client, i).client.files = client.files
    BY <1>1, WrittenFields
  <2> QED  BY <2>1, <2>2
<1>4. CASE IoRead
  <2>1. io.body.of \in Files
    BY <1>1, <1>4 DEF IoRead, IoAt, ThreadsOK
  <2>2. CASE client.files # <<>> /\ client' = [client EXCEPT !.files = Tail(@)]
    <3>1. client'.files = Tail(client.files)
      BY <1>1, <2>2, Fields
    <3> QED  BY <1>1, <2>2, <3>1, TailRemains
  <2>3. CASE client' = AfterRead(client, io.body.of)
    BY <1>1, <2>1, <2>3, AfterReadRemains
  <2> QED  BY <1>4, <2>2, <2>3 DEF IoRead
<1>5. CASE client' = Pushed(client, io.body)
  BY <1>1, <1>2, <1>5, PushedIs
<1>6. CASE client' = Named(client)
  BY <1>1, <1>2, <1>6, NamedIs
<1>7. CASE client' = Filled(client, io.body)
  BY <1>1, <1>2, <1>7, FilledIs
<1> QED  BY <1>2, <1>3, <1>4, <1>5, <1>6, <1>7, IoIs

LEMMA HandlerFiles ==
    ASSUME IInv, Handler
    PROVE  client'.files = client.files
<1>1. Good(Conn, client)
  BY DEF IInv
<1>2. PICK c \in Conn :
          \/ WriteDone(c) \/ WriteFail(c) \/ ReadFail(c) \/ BadFrame(c)
          \/ RecvAck(c) \/ Relogin(c) \/ LoginAgain(c)
  BY DEF Handler
<1>3. \A x : /\ [client EXCEPT !.session = x].files = client.files
             /\ [client EXCEPT !.packets = x].files = client.files
  BY <1>1, Fields
<1>4. CASE RecvAck(c) \/ LoginAgain(c)
  <2>1. \E x : client' = [client EXCEPT !.packets = x]
    BY <1>4 DEF RecvAck, LoginAgain
  <2> QED  BY <1>3, <2>1
<1>5. CASE WriteDone(c) \/ WriteFail(c) \/ ReadFail(c) \/ BadFrame(c) \/ Relogin(c)
  <2>1. \E s : client' = client \/ client' = [client EXCEPT !.session = s]
    BY <1>5 DEF WriteDone, WriteFail, ReadFail, BadFrame, Relogin, Closed
  <2> QED  BY <1>3, <2>1
<1> QED  BY <1>2, <1>4, <1>5

LEMMA NextCalling == IInv /\ Calling /\ [Next]_vars => Calling'
<1> SUFFICES ASSUME IInv, Calling, [Next]_vars PROVE Calling'
  OBVIOUS
<1>1. CASE UNCHANGED vars
  BY <1>1 DEF vars, Calling
<1>2. ASSUME NEW x, (x \in Texts /\ CallText(x)) \/ (x \in Files /\ CallFile(x))
      PROVE  Calling'
  <2>1. UNCHANGED client /\ x \notin asked /\ asked' = asked \cup {x}
    BY <1>2, CallIs
  <2>2. \/ x \in Texts /\ UiGoes("push", Text(x)) /\ accepted' = accepted \cup {x}
        \/ /\ x \in Files /\ UNCHANGED accepted
           /\ UiGoes("queue", [Blank EXCEPT !.of = x])
    BY <1>2, CallIs
  <2>3. CASE x \in Texts /\ UiGoes("push", Text(x)) /\ accepted' = accepted \cup {x}
    BY <2>1, <2>3 DEF Calling, UiGoes
  <2>4. CASE x \in Files /\ UNCHANGED accepted /\ UiGoes("queue", [Blank EXCEPT !.of = x])
    <3>1. ui'.pc = "queue" /\ ui'.body.of = x
      BY <2>4, BodyIs DEF UiGoes
    <3> QED  BY <2>1, <2>4, <3>1 DEF Calling
  <2> QED  BY <2>2, <2>3, <2>4
<1>3. CASE IoStep
  <2>1. UNCHANGED <<ui, asked, accepted>>
    BY <1>3, IoIs
  <2> QED  BY <1>3, <2>1, IoFilesRemain, CallingRemains
<1>4. CASE Handler
  <2>1. UNCHANGED <<ui, asked, accepted>>
    BY <1>4, HandlerIs DEF Handler
  <2> QED  BY <1>4, <2>1, HandlerFiles, CallingRemains DEF Remaining
<1> QED  BY <1>1, <1>2, <1>3, <1>4, HostCalling DEF Next, Host
=============================================================================
