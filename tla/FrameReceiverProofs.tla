------------------------ MODULE FrameReceiverProofs ------------------------
(***************************************************************************)
(* For any frames of any lengths, any size of the queue and of the reads,  *)
(* and any number of connections: the receiver cuts the stream where the   *)
(* peer put its frames together.                                           *)
(*                                                                         *)
(* Wired says what the stream is made of: behind the end of every frame    *)
(* there are the mark, the length and the payload of the next.  So a queue *)
(* that begins at the end of a frame (Cut) shows the next one (NextFrame), *)
(* and taking it out leaves a queue that begins at its end (Takes).        *)
(***************************************************************************)
EXTENDS FrameReceiver, SequenceTheorems, TLAPS


Typed ==
    /\ receiver \in Receivers
    /\ sent \in Seq(Frames) /\ Len(sent) <= MaxFrames
    /\ wire \in Seq(Nat) /\ ends \in Seq(Nat) /\ pos \in 0 .. Len(wire)
    /\ queue \in Seq(Nat) /\ Len(queue) < Size
    /\ dispatched \in Seq(Seq(Nat))
    /\ fresh \in BOOLEAN /\ registered \in BOOLEAN /\ kept \in Seq(Nat) /\ Len(kept) < Size
    /\ refused \in BOOLEAN /\ overflowed \in BOOLEAN /\ spliced \in BOOLEAN /\ merged \in BOOLEAN
    /\ conn \in 1 .. MaxConn

\* The frame f begins behind the e-th byte of w.
Holds(w, e, f) ==
    /\ w[e + 1] = Mark /\ w[e + 2] = Len(f)
    /\ \A k \in 1 .. Len(f) : w[e + 2 + k] = f[k]

\* The stream is the frames that were sent, one behind the other.
Wired ==
    /\ Len(ends) = Len(sent)
    /\ End(Len(sent)) = Len(wire)
    /\ \A i \in 1 .. Len(sent) :
          /\ End(i) = End(i - 1) + Header + Len(sent[i])
          /\ End(i) <= Len(wire)
          /\ Holds(wire, End(i - 1), sent[i])

\* The queue begins where the last frame that was taken out ends, and its first byte is
\* the mark; unless a read merged frames, it holds no whole one.
Cut ==
    /\ Len(dispatched) <= Len(sent)
    /\ \A i \in 1 .. Len(dispatched) : dispatched[i] = sent[i]
    /\ End(Len(dispatched)) <= pos
    /\ queue = SubSeq(wire, End(Len(dispatched)) + 1, pos)

Behind == ~merged => (Len(dispatched) < Len(sent) => pos < End(Len(dispatched) + 1))

IInv == Typed /\ Wired /\ (Clean => (Cut /\ Behind)) /\ NeverRefusesClean

-----------------------------------------------------------------------------
LEMMA FramesTyped == \A f \in Frames : f \in Seq(Nat) /\ Len(f) \in Nat
BY FrameReceiverAssumption

\* A frame written behind w.
LEMMA AppendsFrame ==
    ASSUME NEW w \in Seq(Nat), NEW f \in Seq(Nat)
    PROVE  /\ Len(w \o Bytes(f)) = Len(w) + Header + Len(f)
           /\ \A i \in 1 .. Len(w) : (w \o Bytes(f))[i] = w[i]
           /\ Holds(w \o Bytes(f), Len(w), f)
<1>1. PICK n \in Nat : n = Len(f)
  OBVIOUS
<1>2. PICK l \in Nat : l = Len(w)
  OBVIOUS
<1>3. PICK b \in Seq(Nat) : b = Bytes(f)
  <2>1. <<Mark, Len(f)>> \in Seq(Nat)
    BY <1>1, FrameReceiverAssumption
  <2> QED  BY <2>1, ConcatProperties DEF Bytes
<1>4. /\ Len(b) = 2 + n /\ b[1] = Mark /\ b[2] = n
      /\ \A k \in 1 .. n : b[2 + k] = f[k]
  BY <1>1, <1>3 DEF Bytes
<1>5. /\ Len(w \o b) = l + Len(b)
      /\ \A i \in 1 .. (l + Len(b)) : (w \o b)[i] = IF i <= l THEN w[i] ELSE b[i - l]
  BY <1>2, ConcatProperties
<1>6. \A j \in 1 .. (2 + n) : (w \o b)[l + j] = b[j]
  <2> TAKE j \in 1 .. (2 + n)
  <2>1. l + j \in 1 .. (l + Len(b)) /\ ~(l + j <= l) /\ (l + j) - l = j
    BY <1>4
  <2> QED  BY <1>5, <2>1
<1>7. \A i \in 1 .. l : i \in 1 .. (l + Len(b)) /\ i <= l
  BY <1>4
<1>8. Holds(w \o b, l, f)
  <2>1. (w \o b)[l + 1] = Mark /\ (w \o b)[l + 2] = n
    <3>1. 1 \in 1 .. (2 + n) /\ 2 \in 1 .. (2 + n)
      OBVIOUS
    <3> QED  BY <1>4, <1>6, <3>1
  <2>2. ASSUME NEW k \in 1 .. n
        PROVE  (w \o b)[l + 2 + k] = f[k]
    <3>1. 2 + k \in 1 .. (2 + n) /\ l + (2 + k) = l + 2 + k
      OBVIOUS
    <3> QED  BY <1>4, <1>6, <3>1
  <2> QED  BY <1>1, <2>1, <2>2 DEF Holds
<1>9. Len(w \o b) = l + Header + n
  BY <1>4, <1>5 DEF Header
<1> QED  BY <1>1, <1>2, <1>3, <1>5, <1>7, <1>8, <1>9

\* What was written does not change.
LEMMA HoldsOn ==
    ASSUME NEW w, NEW v, NEW l \in Nat, \A i \in 1 .. l : v[i] = w[i],
           NEW e \in Nat, NEW f \in Seq(Nat), Holds(w, e, f), e + 2 + Len(f) <= l
    PROVE  Holds(v, e, f)
<1>1. PICK n \in Nat : n = Len(f)
  OBVIOUS
<1>2. e + 1 \in 1 .. l /\ e + 2 \in 1 .. l /\ \A k \in 1 .. n : e + 2 + k \in 1 .. l
  BY <1>1, SMT
<1> QED  BY <1>1, <1>2 DEF Holds

LEMMA EndTyped ==
    ASSUME ends \in Seq(Nat), NEW k \in 0 .. Len(ends)
    PROVE  End(k) \in Nat
BY DEF End

LEMMA DecodeTyped ==
    ASSUME NEW n \in Nat
    PROVE  Decode(n) \in Nat
<1>1. \A m \in Nat : (m % Base) \in Nat /\ (m \div Base) \in Nat
  BY FrameReceiverAssumption
<1>2. (n % Base) + (n \div Base) \in Nat
  BY <1>1
<1>3. ((n % Base) + (n \div Base)) % Base \in Nat
  BY <1>1, <1>2
<1>4. \A m \in Nat : m * Base \in Nat
  BY FrameReceiverAssumption
<1> QED  BY <1>3, <1>4 DEF Decode

LEMMA Slice ==
    ASSUME NEW s \in Seq(Nat), NEW a \in Nat, NEW b \in Nat, a <= b, b <= Len(s)
    PROVE  /\ SubSeq(s, a + 1, b) \in Seq(Nat)
           /\ Len(SubSeq(s, a + 1, b)) = b - a
           /\ \A i \in 1 .. (b - a) : SubSeq(s, a + 1, b)[i] = s[a + i]
BY SMT

LEMMA Middle ==
    ASSUME NEW s \in Seq(Nat), NEW n \in Nat, 2 + n <= Len(s)
    PROVE  /\ SubSeq(s, 2 + 1, 2 + n) \in Seq(Nat)
           /\ Len(SubSeq(s, 2 + 1, 2 + n)) = n
           /\ \A i \in 1 .. n : SubSeq(s, 2 + 1, 2 + n)[i] = s[2 + i]
BY SMTT(30)

\* A part of the stream, without its first m bytes.
LEMMA SliceOfSlice ==
    ASSUME NEW s \in Seq(Nat), NEW a \in Nat, NEW b \in Nat, NEW m \in Nat,
           a <= b, b <= Len(s), a + m <= b
    PROVE  LET q == SubSeq(s, a + 1, b) IN SubSeq(q, m + 1, Len(q)) = SubSeq(s, a + m + 1, b)
<1> DEFINE q == SubSeq(s, a + 1, b)
           l == SubSeq(q, m + 1, Len(q))
           r == SubSeq(s, (a + m) + 1, b)
<1>1. q \in Seq(Nat) /\ Len(q) = b - a /\ \A i \in 1 .. (b - a) : q[i] = s[a + i]
  BY Slice
<1>2. r \in Seq(Nat) /\ Len(r) = b - (a + m) /\ \A i \in 1 .. (b - (a + m)) : r[i] = s[(a + m) + i]
  BY Slice
<1> HIDE DEF q
<1>3. l \in Seq(Nat) /\ Len(l) = Len(q) - m /\ \A i \in 1 .. (Len(q) - m) : l[i] = q[m + i]
  <2>1. PICK n \in Nat : n = Len(q)
    BY <1>1
  <2>2. q \in Seq(Nat) /\ m <= n /\ n <= Len(q)
    BY <1>1, <2>1
  <2>3. /\ SubSeq(q, m + 1, n) \in Seq(Nat) /\ Len(SubSeq(q, m + 1, n)) = n - m
        /\ \A i \in 1 .. (n - m) : SubSeq(q, m + 1, n)[i] = q[m + i]
    BY <2>2, Slice
  <2> QED  BY <2>1, <2>3
<1> HIDE DEF l, r
<1>4. Len(l) = Len(r)
  BY <1>1, <1>2, <1>3
<1>5. \A i \in 1 .. Len(l) : l[i] = r[i]
  <2> TAKE i \in 1 .. Len(l)
  <2>1. /\ i \in 1 .. (Len(q) - m) /\ m + i \in 1 .. (b - a) /\ i \in 1 .. (b - (a + m))
        /\ a + (m + i) = (a + m) + i
    BY <1>1, <1>3
  <2> QED  BY <1>1, <1>2, <1>3, <2>1
<1>6. l = r
  BY <1>2, <1>3, <1>4, <1>5, SeqEqual
<1> QED  BY <1>6 DEF l, r, q

\* A part of what both sequences have.
LEMMA SameSlice ==
    ASSUME NEW s \in Seq(Nat), NEW t \in Seq(Nat), NEW a \in Nat, NEW b \in Nat,
           a <= b, b <= Len(s), Len(s) <= Len(t), \A i \in 1 .. Len(s) : t[i] = s[i]
    PROVE  SubSeq(t, a + 1, b) = SubSeq(s, a + 1, b)
<1> DEFINE l == SubSeq(t, a + 1, b)
           r == SubSeq(s, a + 1, b)
<1>1. b <= Len(t)
  BY SMT
<1>2. l \in Seq(Nat) /\ Len(l) = b - a /\ \A i \in 1 .. (b - a) : l[i] = t[a + i]
  BY <1>1, Slice
<1>3. r \in Seq(Nat) /\ Len(r) = b - a /\ \A i \in 1 .. (b - a) : r[i] = s[a + i]
  BY Slice
<1> HIDE DEF l, r
<1>4. \A i \in 1 .. (b - a) : a + i \in 1 .. Len(s)
  <2>1. PICK m \in Nat : m = Len(s)
    OBVIOUS
  <2>2. ASSUME NEW i \in 1 .. (b - a)
        PROVE  a + i \in 1 .. m
    BY <2>1, SMTT(30)
  <2> QED  BY <2>1, <2>2
<1>5. l = r
  BY <1>2, <1>3, <1>4, SeqEqual
<1> QED  BY <1>5 DEF l, r

\* Two parts that meet.
LEMMA SlicesMeet ==
    ASSUME NEW s \in Seq(Nat), NEW a \in Nat, NEW b \in Nat, NEW c \in Nat,
           a <= b, b <= c, c <= Len(s)
    PROVE  SubSeq(s, a + 1, b) \o SubSeq(s, b + 1, c) = SubSeq(s, a + 1, c)
<1> DEFINE l == SubSeq(s, a + 1, b)
           r == SubSeq(s, b + 1, c)
           w == SubSeq(s, a + 1, c)
<1>0. b <= Len(s)
  BY SMT
<1>1. l \in Seq(Nat) /\ Len(l) = b - a /\ \A i \in 1 .. Len(l) : l[i] = s[a + i]
  BY <1>0, Slice
<1>2. r \in Seq(Nat) /\ Len(r) = c - b /\ \A i \in 1 .. Len(r) : r[i] = s[b + i]
  BY Slice
<1>3. w \in Seq(Nat) /\ Len(w) = c - a /\ \A i \in 1 .. Len(w) : w[i] = s[a + i]
  <2>1. a <= c
    BY SMT
  <2> QED  BY <2>1, Slice
<1> HIDE DEF l, r, w
<1>4. l \o r \in Seq(Nat) /\ Len(l \o r) = Len(l) + Len(r)
  BY <1>1, <1>2, ConcatProperties
<1>5. \A i \in 1 .. (Len(l) + Len(r)) :
          (l \o r)[i] = IF i <= Len(l) THEN l[i] ELSE r[i - Len(l)]
  BY <1>1, <1>2, ConcatProperties
<1>6. Len(l \o r) = Len(w) /\ Len(l) + Len(r) = Len(w)
  <2>1. Len(l) = b - a /\ Len(r) = c - b /\ Len(w) = c - a /\ Len(l \o r) = Len(l) + Len(r)
    BY <1>1, <1>2, <1>3, <1>4
  <2>2. (b - a) + (c - b) = c - a
    OBVIOUS
  <2> QED  BY <2>1, <2>2
<1>7. \A i \in 1 .. Len(w) : (l \o r)[i] = w[i]
  <2> TAKE i \in 1 .. Len(w)
  <2>1. CASE i <= Len(l)
    <3>1. i \in 1 .. Len(l) /\ i \in 1 .. (Len(l) + Len(r))
      BY <1>1, <1>3, <1>6, <2>1
    <3>2. (l \o r)[i] = l[i]
      BY <1>5, <2>1, <3>1
    <3> QED  BY <1>1, <1>3, <3>1, <3>2
  <2>2. CASE ~(i <= Len(l))
    <3>1. i - Len(l) \in 1 .. Len(r) /\ b + (i - Len(l)) = a + i
      BY <1>1, <1>2, <1>6, <2>2
    <3> QED  BY <1>2, <1>3, <1>5, <1>6, <2>2, <3>1
  <2> QED  BY <2>1, <2>2
<1>8. l \o r = w
  BY <1>3, <1>4, <1>6, <1>7, SeqEqual
<1> QED  BY <1>8 DEF l, r, w

LEMMA SamePrefix ==
    ASSUME NEW s \in Seq(Seq(Nat)), NEW t \in Seq(Seq(Nat)), Len(s) <= Len(t),
           \A i \in 1 .. Len(s) : s[i] = t[i]
    PROVE  SubSeq(s, 1, Len(s)) = SubSeq(t, 1, Len(s))
<1>1. /\ SubSeq(s, 1, Len(s)) \in Seq(Seq(Nat)) /\ Len(SubSeq(s, 1, Len(s))) = Len(s)
      /\ \A i \in 1 .. Len(s) : SubSeq(s, 1, Len(s))[i] = s[i]
  BY SMT
<1>2. /\ SubSeq(t, 1, Len(s)) \in Seq(Seq(Nat)) /\ Len(SubSeq(t, 1, Len(s))) = Len(s)
      /\ \A i \in 1 .. Len(s) : SubSeq(t, 1, Len(s))[i] = t[i]
  BY SMT
<1> QED  BY <1>1, <1>2, SeqEqual

LEMMA ElementsIn ==
    ASSUME NEW s \in Seq(Nat), NEW l \in Nat, \A i \in 1 .. Len(s) : s[i] \in 0 .. l
    PROVE  s \in Seq(0 .. l)
<1>1. s \in [1 .. Len(s) -> 0 .. l]
  BY SMT
<1> QED  BY <1>1, SeqDef

-----------------------------------------------------------------------------
LEMMA InitIInv == Init => IInv
<1> SUFFICES ASSUME Init PROVE IInv
  OBVIOUS
<1>1. Typed
  <2>1. 0 < Size /\ 1 \in 1 .. MaxConn
    BY FrameReceiverAssumption
  <2>2. \A S : <<>> \in Seq(S)
    OBVIOUS
  <2>3. 0 \in 0 .. Len(<<>>) /\ Len(<<>>) < Size /\ Len(<<>>) <= MaxFrames
    BY <2>1, FrameReceiverAssumption
  <2> QED  BY <2>1, <2>2, <2>3 DEF Init, Typed
<1>2. Wired
  BY DEF Init, Wired, End
<1>3. Cut
  BY DEF Init, Cut, End
<1>4. Behind
  BY DEF Init, Behind
<1>5. NeverRefusesClean
  BY DEF Init, NeverRefusesClean
<1> QED  BY <1>1, <1>2, <1>3, <1>4, <1>5 DEF IInv

-----------------------------------------------------------------------------
(* What the bytes of w between e and p show when a frame begins at e.      *)
LEMMA FrameAt ==
    ASSUME NEW w \in Seq(Nat), NEW e \in Nat, NEW p \in Nat, e < p, p <= Len(w),
           NEW f \in Seq(Nat), Holds(w, e, f), Decode(Len(f)) = Len(f)
    PROVE  LET q == SubSeq(w, e + 1, p)
           IN  /\ q \in Seq(Nat) /\ q # <<>> /\ q[1] = Mark
               /\ Complete(q) <=> e + Header + Len(f) <= p
               /\ Complete(q) => /\ Payload(q) = f
                                 /\ After(q) = SubSeq(w, e + Header + Len(f) + 1, p)
<1> DEFINE q == SubSeq(w, e + 1, p)
<1>1. PICK n \in Nat : n = Len(f)
  OBVIOUS
<1>2. w[e + 1] = Mark /\ w[e + 2] = n /\ \A k \in 1 .. n : w[e + 2 + k] = f[k]
  BY <1>1 DEF Holds
<1>3. q \in Seq(Nat) /\ Len(q) = p - e /\ \A i \in 1 .. (p - e) : q[i] = w[e + i]
  BY Slice
<1> HIDE DEF q
<1>4. q # <<>> /\ q[1] = Mark
  <2>1. 1 \in 1 .. (p - e) /\ p - e # 0
    OBVIOUS
  <2> QED  BY <1>2, <1>3, <2>1
<1>5. Len(q) >= 2 => q[2] = n
  <2>1. Len(q) >= 2 => 2 \in 1 .. (p - e)
    BY <1>3
  <2> QED  BY <1>2, <1>3, <2>1
<1>6. Complete(q) <=> Len(q) >= 2 + n
  <2>1. Len(q) >= 2 + n => Len(q) >= 2
    BY <1>3
  <2> QED  BY <1>1, <1>5, <2>1 DEF Complete, Header
<1>7. ASSUME Complete(q)
      PROVE  Payload(q) = f /\ After(q) = SubSeq(w, e + (2 + n) + 1, p)
  <2>1. q[2] = n /\ 2 + n <= Len(q)
    BY <1>3, <1>5, <1>6, <1>7
  <2>2. Payload(q) = SubSeq(q, 2 + 1, 2 + n) /\ After(q) = SubSeq(q, (2 + n) + 1, Len(q))
    BY <1>1, <2>1 DEF Payload, After, Header
  <2>3. /\ Payload(q) \in Seq(Nat) /\ Len(Payload(q)) = n
        /\ \A i \in 1 .. n : Payload(q)[i] = q[2 + i]
    <3>1. q \in Seq(Nat) /\ 2 + n <= Len(q)
      BY <1>3, <2>1
    <3>2. /\ SubSeq(q, 2 + 1, 2 + n) \in Seq(Nat)
          /\ Len(SubSeq(q, 2 + 1, 2 + n)) = n
          /\ \A i \in 1 .. n : SubSeq(q, 2 + 1, 2 + n)[i] = q[2 + i]
      BY <3>1, Middle
    <3> QED  BY <2>2, <3>2
  <2>4. ASSUME NEW i \in 1 .. n
        PROVE  Payload(q)[i] = f[i]
    <3>1. 2 + i \in 1 .. (p - e) /\ e + (2 + i) = e + 2 + i
      BY <1>3, <2>1, SMT
    <3> QED  BY <1>2, <1>3, <2>3, <3>1
  <2>5. Payload(q) = f
    BY <1>1, <2>3, <2>4, SeqEqual
  <2>6. 2 + n \in Nat /\ e + (2 + n) <= p /\ e <= p
    BY <1>3, <2>1
  <2>7. SubSeq(q, (2 + n) + 1, Len(q)) = SubSeq(w, e + (2 + n) + 1, p)
    BY <2>6, SliceOfSlice DEF q
  <2> QED  BY <2>2, <2>5, <2>7
<1>8. Len(q) >= 2 + n <=> e + 2 + n <= p
  BY <1>3
<1>9. e + (2 + n) + 1 = e + Header + Len(f) + 1 /\ e + 2 + n = e + Header + Len(f)
  BY <1>1 DEF Header
<1> QED  BY <1>3, <1>4, <1>6, <1>7, <1>8, <1>9 DEF q

(* What the queue shows: it begins where the d-th frame ends, and goes to  *)
(* p.                                                                      *)
LEMMA NextFrame ==
    ASSUME Typed, Wired, Decodable, NEW d \in 0 .. Len(sent), NEW p \in Nat,
           End(d) < p, p <= Len(wire)
    PROVE  LET q == SubSeq(wire, End(d) + 1, p)
           IN  /\ d < Len(sent)
               /\ q \in Seq(Nat) /\ q # <<>> /\ q[1] = Mark
               /\ Complete(q) <=> End(d + 1) <= p
               /\ Complete(q) => /\ Payload(q) = sent[d + 1]
                                 /\ After(q) = SubSeq(wire, End(d + 1) + 1, p)
<1>1. d < Len(sent)
  BY DEF Wired, Typed
<1>2. d + 1 \in 1 .. Len(sent) /\ (d + 1) - 1 = d
  BY <1>1
<1>3. PICK f \in Seq(Nat) : f = sent[d + 1]
  BY <1>2, FramesTyped DEF Typed
<1>4. PICK e \in Nat : e = End(d)
  BY EndTyped DEF Typed, Wired
<1>5. PICK w \in Seq(Nat) : w = wire
  BY DEF Typed
<1>6. End(d + 1) = e + Header + Len(f) /\ Holds(w, e, f)
  BY <1>2, <1>3, <1>4, <1>5 DEF Wired
<1>7. Decode(Len(f)) = Len(f)
  <2>1. sent \in Seq(Frames)
    BY DEF Typed
  <2>2. d + 1 \in DOMAIN sent
    BY <1>2, <2>1
  <2> QED  BY <1>3, <2>2, Zenon DEF Decodable
<1>8. LET q == SubSeq(w, e + 1, p)
      IN  /\ q \in Seq(Nat) /\ q # <<>> /\ q[1] = Mark
          /\ Complete(q) <=> e + Header + Len(f) <= p
          /\ Complete(q) => /\ Payload(q) = f
                            /\ After(q) = SubSeq(w, e + Header + Len(f) + 1, p)
  <2>1. e < p /\ p <= Len(w)
    BY <1>4, <1>5
  <2> QED  BY <1>6, <1>7, <2>1, FrameAt, ZenonT(30)
<1> QED  BY <1>1, <1>3, <1>4, <1>5, <1>6, <1>8

-----------------------------------------------------------------------------
(* Types, whatever the queue holds.                                        *)
LEMMA AfterTyped ==
    ASSUME NEW b \in Seq(Nat), Complete(b)
    PROVE  Payload(b) \in Seq(Nat) /\ After(b) \in Seq(Nat) /\ Len(After(b)) <= Len(b)
<1>1. b[2] \in Nat
  BY DEF Complete, Header
<1>2. PICK m \in Nat : m = Decode(b[2])
  BY <1>1, DecodeTyped
<1>3. 2 + m <= Len(b) /\ 2 + m \in Nat /\ Len(b) \in Nat
  BY <1>2 DEF Complete, Header
<1>4. SubSeq(b, 2 + 1, 2 + m) \in Seq(Nat)
  BY <1>3, Middle
<1>5. SubSeq(b, (2 + m) + 1, Len(b)) \in Seq(Nat) /\ Len(SubSeq(b, (2 + m) + 1, Len(b))) <= Len(b)
  BY <1>3, Slice
<1> QED  BY <1>2, <1>4, <1>5 DEF Payload, After, Header

\* What a read leaves, when a frame was taken out and when none was.
LEMMA DispatchTyped ==
    ASSUME Typed, NEW f \in Seq(Nat), NEW rest \in Seq(Nat), Len(rest) < Size,
           Dispatch(f, rest)
    PROVE  /\ queue' \in Seq(Nat) /\ Len(queue') < Size
           /\ dispatched' \in Seq(Seq(Nat)) /\ spliced' \in BOOLEAN
           /\ fresh' \in BOOLEAN /\ registered' \in BOOLEAN /\ kept' \in Seq(Nat) /\ Len(kept') < Size
<1>1. 0 < Size /\ <<>> \in Seq(Nat) /\ Len(<<>>) = 0
  BY FrameReceiverAssumption
<1>2. dispatched' \in Seq(Seq(Nat))
  BY DEF Dispatch, Typed
<1>3. spliced' \in BOOLEAN
  BY Zenon DEF Dispatch, Typed
<1>4. queue' \in Seq(Nat) /\ Len(queue') < Size
  BY DEF Dispatch, Typed
<1>5. fresh' = FALSE /\ registered' = TRUE /\ kept' = <<>>
  BY DEF Dispatch
<1> QED  BY <1>1, <1>2, <1>3, <1>4, <1>5

LEMMA WaitTyped ==
    ASSUME Typed, NEW rest \in Seq(Nat), Len(rest) < Size, Wait(rest)
    PROVE  /\ queue' \in Seq(Nat) /\ Len(queue') < Size
           /\ dispatched' \in Seq(Seq(Nat)) /\ spliced' \in BOOLEAN
           /\ fresh' \in BOOLEAN /\ registered' \in BOOLEAN /\ kept' \in Seq(Nat) /\ Len(kept') < Size
BY DEF Wait, login, Typed

LEMMA QueueTyped ==
    ASSUME Typed, NEW n \in 1 .. MaxRead, Recv(n)
    PROVE  /\ queue' \in Seq(Nat) /\ Len(queue') < Size
           /\ dispatched' \in Seq(Seq(Nat))
           /\ refused' \in BOOLEAN /\ spliced' \in BOOLEAN
           /\ fresh' \in BOOLEAN /\ registered' \in BOOLEAN /\ kept' \in Seq(Nat) /\ Len(kept') < Size
<1> DEFINE data == SubSeq(wire, pos + 1, pos + n)
           q == Pipe!Appended(queue, data)
<1>1. n \in Nat /\ pos \in Nat /\ pos <= pos + n /\ pos + n <= Len(wire) /\ (pos + n) - pos = n
  BY FrameReceiverAssumption DEF Typed, Recv
<1>2. data \in Seq(Nat) /\ Len(data) = n
  BY <1>1, Slice DEF Typed
<1>3. IF queue = <<>> THEN RecvEmpty(data) ELSE RecvQueued(data)
  BY DEF Recv
<1> HIDE DEF data
<1>4. n < Size
  BY FrameReceiverAssumption
<1>5. \A d \in Seq(Nat) : Len(d) <= n =>
         Pipe!Appended(queue, d) \in Seq(Nat) /\ Len(Pipe!Appended(queue, d)) < Size
  BY <1>4, FrameReceiverAssumption DEF Pipe!Appended, Typed
<1>6. \A b \in Seq(Nat) : Complete(b) =>
         Payload(b) \in Seq(Nat) /\ After(b) \in Seq(Nat) /\ Len(After(b)) <= Len(b)
  BY AfterTyped
<1>7. CASE queue = <<>>
  <2>1. CASE Complete(data)
    <3>1. After(data) \in Seq(Nat) /\ Len(After(data)) <= n /\ Payload(data) \in Seq(Nat)
      BY <1>2, <1>6, <2>1
    <3>2. refused' = refused /\ Dispatch(Payload(data), Pipe!Appended(queue, After(data)))
      BY <1>3, <1>7, <2>1 DEF RecvEmpty
    <3>3. PICK r \in Seq(Nat) : r = Pipe!Appended(queue, After(data)) /\ Len(r) < Size
      BY <1>5, <3>1
    <3>4. Dispatch(Payload(data), r) /\ refused' \in BOOLEAN
      BY <3>2, <3>3 DEF Typed
    <3> QED  BY <3>1, <3>3, <3>4, DispatchTyped
  <2>2. CASE ~Complete(data)
    <3>1. Wait(Pipe!Appended(queue, data)) /\ refused' = refused
      BY <1>3, <1>7, <2>2 DEF RecvEmpty
    <3>2. PICK r \in Seq(Nat) : r = Pipe!Appended(queue, data) /\ Len(r) < Size
      BY <1>2, <1>5
    <3>3. Wait(r) /\ refused' \in BOOLEAN
      BY <3>1, <3>2 DEF Typed
    <3> QED  BY <3>2, <3>3, WaitTyped
  <2> QED  BY <2>1, <2>2
<1>8. CASE queue # <<>>
  <2>1. q \in Seq(Nat) /\ Len(q) < Size
    BY <1>2, <1>5
  <2> HIDE DEF q
  <2>2. /\ refused' \in BOOLEAN
        /\ \/ Wait(q)
           \/ Complete(q) /\ Dispatch(Payload(q), After(q))
    BY <1>3, <1>8 DEF RecvQueued, q, Typed
  <2>3. Complete(q) => Payload(q) \in Seq(Nat) /\ After(q) \in Seq(Nat) /\ Len(After(q)) < Size
    BY <1>6, <2>1, FrameReceiverAssumption
  <2>4. CASE Wait(q)
    BY <2>1, <2>2, <2>4, WaitTyped
  <2>5. CASE Complete(q) /\ Dispatch(Payload(q), After(q))
    BY <2>2, <2>3, <2>5, DispatchTyped
  <2> QED  BY <2>2, <2>4, <2>5
<1> QED  BY <1>7, <1>8

LEMMA NextTyped == Typed /\ [Next]_vars => Typed'
<1> SUFFICES ASSUME Typed, [Next]_vars PROVE Typed'
  OBVIOUS
<1>1. CASE PeerSends
  <2>1. PICK f \in Frames : /\ sent' = Append(sent, f) /\ wire' = wire \o Bytes(f)
                            /\ ends' = Append(ends, Len(wire) + Header + Len(f))
    BY <1>1 DEF PeerSends
  <2>2. f \in Seq(Nat) /\ Len(f) \in Nat
    BY FramesTyped
  <2>3. Bytes(f) \in Seq(Nat)
    BY <2>2, FrameReceiverAssumption DEF Bytes
  <2>4. wire' \in Seq(Nat) /\ Len(wire') = Len(wire) + Len(Bytes(f)) /\ Len(Bytes(f)) \in Nat
    BY <2>1, <2>3, ConcatProperties DEF Typed
  <2>5. sent' \in Seq(Frames) /\ Len(sent') <= MaxFrames
    BY <1>1, <2>1, FrameReceiverAssumption DEF Typed, PeerSends
  <2>6. ends' \in Seq(Nat)
    BY <2>1, <2>2 DEF Typed, Header
  <2>7. pos' \in 0 .. Len(wire')
    BY <1>1, <2>4 DEF PeerSends, Typed
  <2> QED  BY <1>1, <2>4, <2>5, <2>6, <2>7 DEF PeerSends, login, Typed
<1>2. ASSUME NEW n \in 1 .. MaxRead, Recv(n)
      PROVE  Typed'
  <2>1. pos' \in 0 .. Len(wire)
    BY <1>2, FrameReceiverAssumption DEF Recv, Typed
  <2>2. overflowed' \in BOOLEAN /\ merged' \in BOOLEAN
    BY <1>2, Zenon DEF Recv, Typed
  <2>3. UNCHANGED <<receiver, sent, wire, ends, conn>>
    BY <1>2 DEF Recv
  <2> QED  BY <1>2, <2>1, <2>2, <2>3, QueueTyped DEF Typed
<1>3. CASE Reconnect
  <2>1. conn' \in 1 .. MaxConn
    BY <1>3, FrameReceiverAssumption DEF Reconnect, Typed
  <2>2. \A S : <<>> \in Seq(S)
    OBVIOUS
  <2>3. 0 \in 0 .. Len(<<>>) /\ Len(<<>>) <= MaxFrames
    BY FrameReceiverAssumption
  <2>4. spliced' \in BOOLEAN /\ fresh' \in BOOLEAN
    BY <1>3, Zenon DEF Reconnect, Typed
  <2>5. 0 < Size /\ Len(<<>>) = 0
    BY FrameReceiverAssumption
  <2>6. queue' \in Seq(Nat) /\ Len(queue') < Size /\ kept' \in Seq(Nat) /\ Len(kept') < Size
    BY <1>3, <2>2, <2>5 DEF Reconnect, Typed
  <2> QED  BY <1>3, <2>1, <2>2, <2>3, <2>4, <2>6 DEF Reconnect, Typed
<1>4. CASE UNCHANGED vars
  BY <1>4 DEF vars, login, Typed
<1> QED  BY <1>1, <1>2, <1>3, <1>4 DEF Next

-----------------------------------------------------------------------------
(* The stream grows by whole frames.                                       *)
LEMMA NextWired == Typed /\ Wired /\ [Next]_vars => Wired'
<1> SUFFICES ASSUME Typed, Wired, [Next]_vars PROVE Wired'
  OBVIOUS
<1>1. CASE PeerSends
  <2>1. PICK f \in Frames : /\ sent' = Append(sent, f) /\ wire' = wire \o Bytes(f)
                            /\ ends' = Append(ends, Len(wire) + Header + Len(f))
    BY <1>1 DEF PeerSends
  <2>2. f \in Seq(Nat) /\ Len(f) \in Nat
    BY FramesTyped
  <2>3. PICK n \in Nat : n = Len(sent)
    BY DEF Typed
  <2>4. PICK l \in Nat : l = Len(wire)
    BY DEF Typed
  <2>5. /\ Len(sent') = n + 1 /\ sent'[n + 1] = f /\ Len(ends') = n + 1
        /\ \A i \in 1 .. n : sent'[i] = sent[i]
    BY <2>1, <2>3 DEF Typed, Wired
  <2>6. /\ End(n + 1)' = l + Header + Len(f)
        /\ \A i \in 0 .. n : End(i)' = End(i)
    BY <2>1, <2>2, <2>3, <2>4 DEF End, Typed, Wired
  <2>7. End(n) = l
    BY <2>3, <2>4 DEF Wired
  <2>8. /\ Len(wire') = l + Header + Len(f)
        /\ \A i \in 1 .. l : wire'[i] = wire[i]
        /\ Holds(wire', l, f)
    BY <2>1, <2>2, <2>4, AppendsFrame DEF Typed
  <2>9. ASSUME NEW i \in 1 .. n
        PROVE  /\ End(i)' = End(i - 1)' + Header + Len(sent'[i])
               /\ End(i)' <= Len(wire')
               /\ Holds(wire', End(i - 1)', sent'[i])
    <3>1. i - 1 \in 0 .. n /\ i \in 0 .. n
      OBVIOUS
    <3>2. /\ End(i) = End(i - 1) + Header + Len(sent[i])
          /\ End(i) <= l
          /\ Holds(wire, End(i - 1), sent[i])
      BY <2>3, <2>4 DEF Wired
    <3>3. End(i)' = End(i) /\ End(i - 1)' = End(i - 1) /\ sent'[i] = sent[i]
      BY <2>5, <2>6, <3>1
    <3>4. sent[i] \in Seq(Nat) /\ Len(sent[i]) \in Nat
      BY <2>3, FramesTyped DEF Typed
    <3>5. End(i - 1) \in Nat /\ End(i) \in Nat
      BY <2>3, <3>1, EndTyped DEF Typed, Wired
    <3>6. Holds(wire', End(i - 1), sent[i])
      <4>1. PICK e \in Nat : e = End(i - 1)
        BY <3>5
      <4>2. PICK g \in Seq(Nat) : g = sent[i]
        BY <3>4
      <4>3. e + 2 + Len(g) <= l
        BY <3>2, <4>1, <4>2 DEF Header
      <4>4. PICK w, v : w = wire /\ v = wire'
        OBVIOUS
      <4>5. (\A j \in 1 .. l : v[j] = w[j]) /\ Holds(w, e, g)
        BY <2>8, <3>2, <4>1, <4>2, <4>4
      <4>6. Holds(v, e, g)
        BY <4>3, <4>5, HoldsOn
      <4> QED  BY <4>1, <4>2, <4>4, <4>6
    <3>7. End(i) <= Len(wire')
      BY <2>2, <2>8, <3>2, <3>5 DEF Header
    <3> QED  BY <3>2, <3>3, <3>6, <3>7
  <2>10. /\ End(n + 1)' = End(n)' + Header + Len(sent'[n + 1])
         /\ End(n + 1)' <= Len(wire')
         /\ Holds(wire', End(n)', sent'[n + 1])
    <3>1. End(n)' = l
      BY <2>6, <2>7
    <3>2. l + Header + Len(f) <= l + Header + Len(f)
      BY <2>2 DEF Header
    <3> QED  BY <2>5, <2>6, <2>8, <3>1, <3>2
  <2>11. \A i \in 1 .. Len(sent') : i \in 1 .. n \/ i = n + 1
    BY <2>5
  <2>12. (n + 1) - 1 = n
    OBVIOUS
  <2> QED  BY <2>5, <2>6, <2>8, <2>9, <2>10, <2>11, <2>12 DEF Wired
<1>2. ASSUME NEW n \in 1 .. MaxRead, Recv(n)
      PROVE  Wired'
  BY <1>2 DEF Recv, Wired, End
<1>3. CASE Reconnect
  BY <1>3 DEF Reconnect, Wired, End
<1>4. CASE UNCHANGED vars
  BY <1>4 DEF vars, Wired, End
<1> QED  BY <1>1, <1>2, <1>3, <1>4 DEF Next

-----------------------------------------------------------------------------
(* A read of a clean stream: the queue and the read are together what lies *)
(* between the last frame and the new position, and a frame that is whole  *)
(* is taken out.                                                           *)
LEMMA RecvTakes ==
    ASSUME Typed, Wired, Decodable, Cut, NEW n \in 1 .. MaxRead, Recv(n), ~overflowed', ~spliced',
           NEW d \in Nat, d = Len(dispatched)
    PROVE  /\ d < Len(sent) /\ refused' = refused
           /\ \/ /\ End(d + 1) <= pos + n
                 /\ dispatched' = Append(dispatched, sent[d + 1])
                 /\ queue' = SubSeq(wire, End(d + 1) + 1, pos + n)
              \/ /\ pos + n < End(d + 1)
                 /\ dispatched' = dispatched
                 /\ queue' = SubSeq(wire, End(d) + 1, pos + n)
<1> DEFINE data == SubSeq(wire, pos + 1, pos + n)
           q == SubSeq(wire, End(d) + 1, pos + n)
<1>1. n \in Nat \ {0} /\ pos \in Nat /\ pos + n \in Nat /\ pos + n <= Len(wire) /\ n < Size
  BY FrameReceiverAssumption DEF Typed, Recv
<1>2. d \in 0 .. Len(sent) /\ End(d) \in Nat /\ End(d) <= pos /\ queue = SubSeq(wire, End(d) + 1, pos)
  BY EndTyped DEF Cut, Typed, Wired
<1>3. /\ d < Len(sent)
      /\ q \in Seq(Nat) /\ q # <<>> /\ q[1] = Mark
      /\ Complete(q) <=> End(d + 1) <= pos + n
      /\ Complete(q) => /\ Payload(q) = sent[d + 1]
                        /\ After(q) = SubSeq(wire, End(d + 1) + 1, pos + n)
  <2>1. End(d) < pos + n
    BY <1>1, <1>2
  <2> QED  BY <1>1, <1>2, <2>1, NextFrame
<1>4. End(d + 1) \in Nat
  <2>1. d + 1 \in 0 .. Len(sent)
    <3>1. d < Len(sent)
      BY <1>3
    <3>2. Len(sent) \in Nat
      BY DEF Typed
    <3> QED  BY <3>1, <3>2
  <2>2. Len(ends) = Len(sent)
    BY DEF Wired
  <2> QED  BY <2>1, <2>2, EndTyped DEF Typed
<1>5. queue \o data = q
  <2>1. PICK w \in Seq(Nat) : w = wire
    BY DEF Typed
  <2>2. PICK e \in Nat : e = End(d)
    BY <1>2
  <2>3. PICK m \in Nat : m = pos
    BY <1>1
  <2>4. e <= m /\ m <= m + n /\ m + n <= Len(w) /\ m + n \in Nat
    BY <1>1, <1>2, <2>1, <2>2, <2>3
  <2>5. SubSeq(w, e + 1, m) \o SubSeq(w, m + 1, m + n) = SubSeq(w, e + 1, m + n)
    BY <2>4, SlicesMeet
  <2> QED  BY <1>2, <2>1, <2>2, <2>3, <2>5
<1>6. IF queue = <<>> THEN RecvEmpty(data) ELSE RecvQueued(data)
  BY DEF Recv
<1>7. data \in Seq(Nat) /\ Len(data) = n
  <2>1. pos <= pos + n /\ (pos + n) - pos = n
    BY <1>1
  <2> QED  BY <1>1, <2>1, Slice DEF Typed
<1>8. queue # <<>> => Len(queue) + n < Size
  BY DEF Recv
<1> HIDE DEF data, q
<1>9. queue # <<>> => Pipe!Appended(queue, data) = q
  <2>1. queue # <<>> => ~(Len(queue) + Len(data) >= Size)
    BY <1>7, <1>8, FrameReceiverAssumption DEF Typed
  <2> QED  BY <1>5, <2>1 DEF Pipe!Appended
<1>10. \/ Complete(q) /\ Dispatch(Payload(q), After(q))
       \/ ~Complete(q) /\ Wait(q)
  <2>1. CASE queue = <<>>
    <3>1. data = q
      BY <1>5, <1>7, <2>1, ConcatEmptySeq
    <3>2. \A b \in Seq(Nat) : Len(b) <= n => Pipe!Appended(queue, b) = b
      BY <1>1, <2>1, ConcatEmptySeq DEF Pipe!Appended
    <3>3. Complete(q) => After(q) \in Seq(Nat) /\ Len(After(q)) <= n
      BY <1>7, <3>1, AfterTyped
    <3>4. Pipe!Appended(queue, q) = q /\ (Complete(q) => Pipe!Appended(queue, After(q)) = After(q))
      BY <1>7, <3>1, <3>2, <3>3
    <3> QED  BY <1>6, <2>1, <3>1, <3>4 DEF RecvEmpty
  <2>2. CASE queue # <<>>
    <3>1. q[1] = Mark /\ Pipe!Appended(queue, data) = q /\ RecvQueued(data)
      BY <1>3, <1>9, <1>6, <2>2
    <3> QED  BY <3>1 DEF RecvQueued
  <2> QED  BY <2>1, <2>2
<1>11. refused' = refused
  <2>1. CASE queue = <<>>
    BY <1>6, <2>1 DEF RecvEmpty
  <2>2. CASE queue # <<>>
    BY <1>3, <1>9, <1>6, <2>2 DEF RecvQueued
  <2> QED  BY <2>1, <2>2
<1>12. ~Complete(q) => pos + n < End(d + 1)
  BY <1>1, <1>3, <1>4
<1>13. CASE Complete(q) /\ Dispatch(Payload(q), After(q))
  <2>1. dispatched' = Append(dispatched, sent[d + 1])
    BY <1>3, <1>13 DEF Dispatch
  <2>2. queue' = After(q)
    <3>1. ~spliced'
      OBVIOUS
    <3> QED  BY <1>13, <3>1 DEF Dispatch
  <2> QED  BY <1>3, <1>11, <1>13, <2>1, <2>2
<1>14. CASE ~Complete(q) /\ Wait(q)
  BY <1>3, <1>11, <1>12, <1>14 DEF Wait, q
<1> QED  BY <1>10, <1>13, <1>14

LEMMA RecvCut ==
    ASSUME Typed, Wired, Clean, Cut, Behind, NEW n \in 1 .. MaxRead, Recv(n), ~overflowed', ~spliced'
    PROVE  Cut' /\ Behind' /\ refused' = refused
<1>1. PICK d \in Nat : d = Len(dispatched)
  BY DEF Typed
<1>2. d < Len(sent) /\ refused' = refused
  BY <1>1, RecvTakes DEF Clean
<1>3. /\ UNCHANGED <<sent, wire, ends>> /\ pos' = pos + n
      /\ (~merged' => (~merged /\ ~Merges(n)))
      /\ \A k : End(k)' = End(k)
  BY DEF Recv, End
<1>4. /\ d <= Len(sent) /\ End(d) <= pos
      /\ \A i \in 1 .. d : dispatched[i] = sent[i]
  BY <1>1 DEF Cut
<1>5. n \in Nat /\ pos \in Nat /\ dispatched \in Seq(Seq(Nat)) /\ Len(sent) \in Nat
  BY FrameReceiverAssumption DEF Typed
<1>6. End(d) \in Nat /\ End(d + 1) \in Nat
  <2>1. d \in 0 .. Len(ends) /\ d + 1 \in 0 .. Len(ends)
    BY <1>2, <1>5 DEF Wired
  <2> QED  BY <2>1, EndTyped DEF Typed
<1>7. CASE /\ End(d + 1) <= pos + n
           /\ dispatched' = Append(dispatched, sent[d + 1])
           /\ queue' = SubSeq(wire, End(d + 1) + 1, pos + n)
  <2>1. /\ Len(dispatched') = d + 1 /\ dispatched'[d + 1] = sent[d + 1]
        /\ \A i \in 1 .. d : dispatched'[i] = sent[i]
    BY <1>1, <1>4, <1>5, <1>7
  <2>2. \A i \in 1 .. (d + 1) : dispatched'[i] = sent[i]
    BY <2>1
  <2>3. Cut'
    <3>1. d + 1 <= Len(sent) /\ Len(dispatched') = d + 1 /\ End(d + 1)' = End(d + 1)
      BY <1>2, <1>3, <1>5, <2>1
    <3>2. End(Len(dispatched))' = End(d + 1)
      BY <1>3, <2>1 DEF End
    <3> QED  BY <1>3, <1>7, <2>2, <3>1, <3>2 DEF Cut
  <2>4. Behind'
    <3> SUFFICES ASSUME ~merged', d + 1 < Len(sent) PROVE pos + n < End(d + 1 + 1)
      BY <1>3, <2>1 DEF Behind
    <3>1. pos < End(d + 1) /\ ~Merges(n)
      BY <1>1, <1>2, <1>3 DEF Behind
    <3>2. d + 1 \in DOMAIN ends /\ d + 1 + 1 \in DOMAIN ends /\ d + 1 + 1 \in 1 .. Len(sent)
      BY <1>5, SMTT(30) DEF Typed, Wired
    <3>3. ends[d + 1] = End(d + 1) /\ ends[d + 1 + 1] = End(d + 1 + 1) /\ End(d + 1 + 1) \in Nat
      <4>1. d + 1 # 0 /\ d + 1 + 1 # 0
        OBVIOUS
      <4>2. ends[d + 1 + 1] \in Nat
        <5>1. ends \in Seq(Nat)
          BY DEF Typed
        <5> QED  BY <3>2, <5>1
      <4> QED  BY <4>1, <4>2 DEF End
    <3>4. End(d + 1) < End(d + 1 + 1)
      <4>1. PICK k \in 1 .. Len(sent) : k = d + 1 + 1
        BY <3>2
      <4>2. sent[k] \in Seq(Nat)
        BY FramesTyped DEF Typed
      <4>3. Len(sent[k]) \in Nat /\ k - 1 = d + 1
        BY <4>1, <4>2
      <4>4. End(k) = End(k - 1) + Header + Len(sent[k])
        BY DEF Wired
      <4> QED  BY <1>6, <3>3, <4>1, <4>3, <4>4 DEF Header
    <3>5. ~(End(d + 1 + 1) <= pos + n)
      BY <3>1, <3>2, <3>3, <3>4 DEF Merges
    <3> QED  BY <1>5, <3>3, <3>5
  <2> QED  BY <1>2, <2>3, <2>4
<1>8. CASE /\ pos + n < End(d + 1)
           /\ dispatched' = dispatched
           /\ queue' = SubSeq(wire, End(d) + 1, pos + n)
  <2>1. Cut'
    <3>1. End(Len(dispatched))' = End(d) /\ Len(dispatched') = d
      BY <1>1, <1>3, <1>8 DEF End
    <3>2. End(d) <= pos + n
      BY <1>4, <1>5, <1>6
    <3> QED  BY <1>3, <1>4, <1>8, <3>1, <3>2 DEF Cut
  <2>2. Behind'
    BY <1>1, <1>3, <1>8 DEF Behind
  <2> QED  BY <1>2, <2>1, <2>2
<1> QED  BY <1>1, <1>7, <1>8, RecvTakes DEF Clean

(* The stream grows behind what the receiver has cut.                      *)
LEMMA SendCut ==
    ASSUME Typed, Wired, Typed', Wired', PeerSends, Cut, Behind
    PROVE  Cut' /\ Behind'
<1>1. PICK f \in Frames : /\ sent' = Append(sent, f) /\ wire' = wire \o Bytes(f)
                          /\ ends' = Append(ends, Len(wire) + Header + Len(f))
  BY DEF PeerSends
<1>2. UNCHANGED <<pos, queue, dispatched, merged>>
  BY DEF PeerSends
<1>3. f \in Seq(Nat) /\ Len(f) \in Nat
  BY FramesTyped
<1>4. PICK d \in Nat : d = Len(dispatched)
  BY DEF Typed
<1>5. /\ Len(sent') = Len(sent) + 1 /\ Len(sent) \in Nat
      /\ \A i \in 1 .. Len(sent) : sent'[i] = sent[i]
  BY <1>1 DEF Typed
<1>6. \A k \in 0 .. Len(sent) : End(k)' = End(k)
  <2>1. \A k \in 1 .. Len(ends) : ends'[k] = ends[k]
    BY <1>1, <1>3 DEF Typed
  <2>2. Len(ends) = Len(sent)
    BY DEF Wired
  <2> QED  BY <1>5, <2>1, <2>2 DEF End
<1>7. ends'[Len(sent) + 1] = Len(wire) + Header + Len(f)
  <2>1. Len(ends) = Len(sent)
    BY DEF Wired
  <2>2. ends'[Len(ends) + 1] = Len(wire) + Header + Len(f)
    <3>1. ends \in Seq(Nat) /\ ends' = Append(ends, Len(wire) + Header + Len(f))
      BY <1>1 DEF Typed
    <3> QED  BY <3>1
  <2> QED  BY <2>1, <2>2
<1>8. d \in 0 .. Len(sent) /\ End(d) \in Nat /\ End(d) <= pos /\ pos \in Nat /\ pos <= Len(wire)
  BY <1>4, <1>5, EndTyped DEF Cut, Typed, Wired
<1>9. SubSeq(wire', End(d) + 1, pos) = SubSeq(wire, End(d) + 1, pos)
  <2>1. PICK w \in Seq(Nat), v \in Seq(Nat) : w = wire /\ v = wire'
    BY DEF Typed
  <2>2. Len(w) <= Len(v) /\ \A i \in 1 .. Len(w) : v[i] = w[i]
    BY <1>1, <1>3, <2>1, AppendsFrame DEF Header
  <2> QED  BY <1>8, <2>1, <2>2, SameSlice, ZenonT(30)
<1>10. Cut'
  BY <1>2, <1>4, <1>5, <1>6, <1>8, <1>9, SMTT(30) DEF Cut
<1>11. Behind'
  <2>1. CASE d < Len(sent)
    BY <1>2, <1>4, <1>5, <1>6, <2>1 DEF Behind
  <2>2. CASE d = Len(sent)
    <3>1. Len(dispatched') = d /\ d + 1 # 0 /\ pos' = pos
      BY <1>2, <1>4
    <3>2. pos < Len(wire) + Header + Len(f)
      BY <1>3, <1>8 DEF Header
    <3>3. End(Len(dispatched) + 1)' = Len(wire) + Header + Len(f)
      BY <1>7, <2>2, <3>1 DEF End
    <3> QED  BY <3>1, <3>2, <3>3 DEF Behind
  <2> QED  BY <1>8, <2>1, <2>2
<1> QED  BY <1>10, <1>11

-----------------------------------------------------------------------------
(* No step but a reconnection makes Clean true.                            *)
LEMMA CleanBefore ==
    ASSUME Typed, Clean', PeerSends \/ \E n \in 1 .. MaxRead : Recv(n)
    PROVE  Clean
<1>1. ~overflowed /\ ~spliced
  <2>1. ~overflowed' /\ ~spliced'
    BY DEF Clean
  <2>2. overflowed => overflowed'
    BY Zenon DEF PeerSends, Recv
  <2>3. spliced => spliced'
    <3>1. ASSUME NEW f, NEW rest, Dispatch(f, rest) \/ Wait(rest)
          PROVE  spliced => spliced'
      BY <3>1, Zenon DEF Dispatch, Wait
    <3> QED  BY <3>1, Zenon DEF PeerSends, Recv, RecvEmpty, RecvQueued
  <2> QED  BY <2>1, <2>2, <2>3
<1>2. receiver' = receiver
  BY DEF PeerSends, Recv
<1>3. CASE PeerSends
  <2>1. PICK f \in Frames : sent' = Append(sent, f)
    BY <1>3 DEF PeerSends
  <2>2. \A i \in DOMAIN sent : i \in DOMAIN sent' /\ sent'[i] = sent[i]
    BY <2>1 DEF Typed
  <2>3. Decodable'
    BY DEF Clean
  <2>4. ASSUME NEW i \in DOMAIN sent
        PROVE  Decode(Len(sent[i])) = Len(sent[i])
    BY <1>2, <2>2, <2>3 DEF Decodable, Decode
  <2> QED  BY <1>1, <2>4 DEF Clean, Decodable
<1>4. CASE \E n \in 1 .. MaxRead : Recv(n)
  BY <1>1, <1>2, <1>4 DEF Recv, Clean, Decodable, Decode
<1> QED  BY <1>3, <1>4

LEMMA NextIInv == IInv /\ [Next]_vars => IInv'
<1> SUFFICES ASSUME IInv, [Next]_vars PROVE IInv'
  OBVIOUS
<1>1. Typed /\ Wired /\ Typed' /\ Wired'
  BY NextTyped, NextWired DEF IInv
<1>2. (Clean => (Cut /\ Behind)) /\ (Clean /\ conn = 1 => ~refused)
  BY DEF IInv, NeverRefusesClean
<1>3. CASE PeerSends
  <2>1. UNCHANGED <<refused, conn>>
    BY <1>3 DEF PeerSends
  <2>2. Clean' => Clean
    BY <1>1, <1>3, CleanBefore
  <2>3. Clean' => (Cut' /\ Behind')
    BY <1>1, <1>2, <1>3, <2>2, SendCut
  <2>4. NeverRefusesClean'
    BY <1>2, <2>1, <2>2, Zenon DEF NeverRefusesClean
  <2> QED  BY <1>1, <2>3, <2>4, Zenon DEF IInv
<1>4. ASSUME NEW n \in 1 .. MaxRead, Recv(n)
      PROVE  IInv'
  <2>1. conn' = conn
    BY <1>4 DEF Recv
  <2>2. Clean' => Clean
    BY <1>1, <1>4, CleanBefore
  <2>3. Clean' => (Cut' /\ Behind' /\ refused' = refused)
    <3>1. Clean' => ~overflowed' /\ ~spliced'
      BY DEF Clean
    <3> QED  BY <1>1, <1>2, <1>4, <2>2, <3>1, RecvCut
  <2>4. NeverRefusesClean'
    BY <1>2, <2>1, <2>2, <2>3, Zenon DEF NeverRefusesClean
  <2> QED  BY <1>1, <2>3, <2>4, Zenon DEF IInv
<1>5. CASE Reconnect
  <2>1. conn' # 1
    <3>1. conn \in Nat \ {0} /\ conn' = conn + 1
      BY <1>1, <1>5, FrameReceiverAssumption DEF Typed, Reconnect
    <3> QED  BY <3>1
  <2>2. ASSUME Clean'
        PROVE  Cut' /\ Behind'
    <3>1. queue' = <<>>
      <4>1. ~spliced'
        BY <2>2 DEF Clean
      <4> QED  BY <1>5, <4>1, Zenon DEF Reconnect
    <3>2. /\ sent' = <<>> /\ wire' = <<>> /\ dispatched' = <<>> /\ pos' = 0
          /\ queue' = <<>>
      BY <1>5, <3>1 DEF Reconnect
    <3>3. End(Len(dispatched))' = 0
      BY <3>2 DEF End
    <3>4. SubSeq(<<>>, 0 + 1, 0) = <<>>
      OBVIOUS
    <3>5. Cut'
      BY <3>2, <3>3, <3>4 DEF Cut
    <3>6. Behind'
      BY <3>2 DEF Behind
    <3> QED  BY <3>5, <3>6
  <2> QED  BY <1>1, <2>1, <2>2, Zenon DEF IInv, NeverRefusesClean
<1>6. CASE UNCHANGED vars
  <2>1. Clean' <=> Clean
    BY <1>6 DEF vars, Clean, Decodable, Decode
  <2>2. Cut' <=> Cut
    BY <1>6 DEF vars, Cut, End
  <2>3. Behind' <=> Behind
    BY <1>6 DEF vars, Behind, End
  <2>4. conn' = conn /\ refused' = refused
    BY <1>6 DEF vars
  <2> QED  BY <1>1, <1>2, <2>1, <2>2, <2>3, <2>4, Zenon DEF IInv, NeverRefusesClean
<1> QED  BY <1>3, <1>4, <1>5, <1>6 DEF Next

-----------------------------------------------------------------------------
(* The types of the whole state; the queue never holds more than it has    *)
(* room for.                                                               *)
THEOREM TypeCorrect == Spec => []TypeOK
<1>1. IInv => TypeOK
  <2> SUFFICES ASSUME IInv PROVE TypeOK
    OBVIOUS
  <2>1. Typed /\ Wired
    BY DEF IInv
  <2>2. ends \in Seq(0 .. Len(wire))
    <3>1. PICK l \in Nat : l = Len(wire)
      BY <2>1 DEF Typed
    <3>3. ends \in Seq(Nat)
      BY <2>1 DEF Typed
    <3>2. ASSUME NEW i \in 1 .. Len(ends)
          PROVE  ends[i] \in 0 .. l
      <4>1. ends[i] \in Nat /\ i # 0 /\ i \in 1 .. Len(sent)
        BY <2>1, <3>3 DEF Wired
      <4>2. End(i) <= Len(wire)
        BY <2>1, <4>1 DEF Wired
      <4> QED  BY <3>1, <4>1, <4>2 DEF End
    <3> QED  BY <3>1, <3>2, <3>3, ElementsIn
  <2> QED  BY <2>1, <2>2 DEF Typed, TypeOK
<1> QED  BY <1>1, InitIInv, NextIInv, PTL DEF Spec

(* However the stream of a clean connection is cut into reads, and for any *)
(* lengths of frames and sizes of the queue, the bytes read are in whole   *)
(* frames that were taken out in order, or wait in the queue.              *)
THEOREM StreamAligned == Spec => []Aligned
<1>1. IInv => Aligned
  <2> SUFFICES ASSUME IInv, Clean PROVE IsPrefix(dispatched, sent) /\ Cut
    BY DEF Aligned, Cut
  <2>1. Typed /\ Wired /\ Cut
    BY DEF IInv
  <2>2. Len(dispatched) <= Len(sent)
    BY <2>1 DEF Cut
  <2>3. sent \in Seq(Seq(Nat))
    BY <2>1, FrameReceiverAssumption DEF Typed
  <2>4. SubSeq(dispatched, 1, Len(dispatched)) = SubSeq(sent, 1, Len(dispatched))
    BY <2>1, <2>2, <2>3, SamePrefix DEF Typed, Cut
  <2> QED  BY <2>1, <2>2, <2>4 DEF IsPrefix
<1> QED  BY <1>1, InitIInv, NextIInv, PTL DEF Spec

(* The first byte of what waits is a mark the peer wrote, so a device's    *)
(* first connection is never closed for what its payloads contain.         *)
THEOREM CleanIsAccepted == Spec => []NeverRefusesClean
<1>1. IInv => NeverRefusesClean
  BY DEF IInv
<1> QED  BY <1>1, InitIInv, NextIInv, PTL DEF Spec

(* As long as no read completes two frames, none is left in the queue.     *)
THEOREM MergedReadsDelay == Spec => []WaitsOnlyIfMerged
<1>1. IInv => WaitsOnlyIfMerged
  <2> SUFFICES ASSUME IInv, Clean, ~merged PROVE ~Complete(queue)
    BY DEF WaitsOnlyIfMerged
  <2>1. Typed /\ Wired /\ Cut /\ Behind /\ Decodable
    BY DEF IInv, Clean
  <2>2. PICK d \in Nat : d = Len(dispatched)
    BY <2>1 DEF Typed
  <2>3. d \in 0 .. Len(sent) /\ pos \in Nat /\ pos <= Len(wire)
    BY <2>1, <2>2 DEF Typed, Cut
  <2>4. End(d) \in Nat /\ End(d) <= pos /\ queue = SubSeq(wire, End(d) + 1, pos)
    BY <2>1, <2>2, <2>3, EndTyped DEF Typed, Wired, Cut
  <2>5. CASE End(d) = pos
    <3>1. Len(queue) = 0
      BY <2>1, <2>3, <2>4, <2>5, Slice DEF Typed
    <3> QED  BY <3>1 DEF Complete, Header
  <2>6. CASE End(d) < pos
    <3>1. d < Len(sent) /\ (Complete(queue) <=> End(d + 1) <= pos)
      BY <2>1, <2>3, <2>4, <2>6, NextFrame
    <3>2. End(d + 1) \in Nat
      <4>1. d + 1 \in 0 .. Len(ends)
        BY <2>1, <2>2, <2>3, <3>1 DEF Typed, Wired
      <4> QED  BY <2>1, <4>1, EndTyped DEF Typed
    <3>3. pos < End(d + 1)
      BY <2>1, <2>2, <3>1 DEF Behind
    <3> QED  BY <2>3, <3>1, <3>2, <3>3
  <2> QED  BY <2>3, <2>4, <2>5, <2>6
<1> QED  BY <1>1, InitIInv, NextIInv, PTL DEF Spec
=============================================================================
