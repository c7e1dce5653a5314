-------------------------- MODULE CircleQueueProofs --------------------------
(* The array of CircleQueue implements the byte pipe for every size of the *)
(* array and every longest write below it.                                 *)
EXTENDS CircleQueue, SequenceTheorems, TLAPS

(* Index arithmetic never goes beyond one turn of the array. *)
LEMMA ModSize ==
    ASSUME NEW a \in Nat, a < 2 * Size
    PROVE  a % Size = IF a < Size THEN a ELSE a - Size
BY SizeAssumption, SMTT(30)

LEMMA Difference ==
    ASSUME NEW f \in Index, NEW r \in Index
    PROVE  (r - f + Size) % Size = IF f <= r THEN r - f ELSE (r - f) + Size
<1> DEFINE a == r - f + Size
<1>1. a \in Nat /\ a < 2 * Size
  BY SizeAssumption DEF Index
<1>2. a % Size = IF a < Size THEN a ELSE a - Size
  <2> HIDE DEF a
  <2> QED  BY <1>1, ModSize, SizeAssumption
<1>3. (IF a < Size THEN a ELSE a - Size) = IF f <= r THEN r - f ELSE (r - f) + Size
  BY SizeAssumption DEF Index
<1> QED  BY <1>2, <1>3

LEMMA LengthValue ==
    ASSUME m_front \in Index, m_rear \in Index
    PROVE  /\ Length = IF m_front <= m_rear THEN m_rear - m_front
                                             ELSE (m_rear - m_front) + Size
           /\ Length \in 0 .. Size - 1
           /\ Length = 0 <=> Empty
<1>1. Length = IF m_front <= m_rear THEN m_rear - m_front ELSE (m_rear - m_front) + Size
  BY Difference DEF Length
<1> QED  BY <1>1, SizeAssumption DEF Index, Empty

LEMMA ChunkType ==
    ASSUME NEW d \in Chunks
    PROVE  /\ d \in Seq(Byte)
           /\ Len(d) \in Nat
           /\ Len(d) <= MaxLen
           /\ \A k \in 1 .. Len(d) : d[k] \in Byte
<1>1. PICK n \in 0 .. MaxLen : d \in [1 .. n -> Byte]
  BY DEF Chunks
<1>2. n \in Nat
  BY MaxLenAssumption
<1>3. d \in Seq(Byte) /\ Len(d) = n
  BY <1>1, <1>2
<1> QED  BY <1>1, <1>2, <1>3, MaxLenAssumption

(* What Stored leaves in each cell: d from rear on, wrapped, and the old   *)
(* byte everywhere else.                                                   *)
LEMMA StoredCells ==
    ASSUME NEW data \in [Index -> Byte], NEW rear \in Index, NEW d \in Chunks
    PROVE  /\ Stored(data, rear, d) \in [Index -> Byte]
           /\ \A k \in 1 .. Len(d) : Stored(data, rear, d)[(rear + k - 1) % Size] = d[k]
           /\ \A i \in Index :
                (\A k \in 1 .. Len(d) : i # (rear + k - 1) % Size)
                    => Stored(data, rear, d)[i] = data[i]
<1> DEFINE left == (rear + Len(d)) - Size
           count == IF left > 0 THEN Size - rear ELSE Len(d)
<1>1. Len(d) \in Nat /\ Len(d) < Size /\ \A k \in 1 .. Len(d) : d[k] \in Byte
  BY ChunkType, MaxLenAssumption, SizeAssumption
<1>2. count \in Nat /\ count <= Len(d) /\ rear + count <= Size
  BY <1>1, SizeAssumption DEF Index
<1>3. \A i \in Index : Stored(data, rear, d)[i] =
        IF rear <= i /\ i < rear + count THEN d[i - rear + 1]
        ELSE IF i < Len(d) - count THEN d[count + i + 1]
        ELSE data[i]
  BY DEF Stored
<1>4. Stored(data, rear, d) \in [Index -> Byte]
  <2>1. ASSUME NEW i \in Index PROVE Stored(data, rear, d)[i] \in Byte
    <3>1. CASE rear <= i /\ i < rear + count
      <4>1. i - rear + 1 \in 1 .. Len(d)
        BY <3>1, <1>1, <1>2, SizeAssumption DEF Index
      <4> QED  BY <4>1, <3>1, <1>3, <1>1
    <3>2. CASE ~(rear <= i /\ i < rear + count) /\ i < Len(d) - count
      <4>1. count + i + 1 \in 1 .. Len(d)
        BY <3>2, <1>1, <1>2, SizeAssumption DEF Index
      <4> QED  BY <4>1, <3>2, <1>3, <1>1
    <3>3. CASE ~(rear <= i /\ i < rear + count) /\ ~(i < Len(d) - count)
      BY <3>3, <1>3
    <3> QED  BY <3>1, <3>2, <3>3
  <2> QED  BY <2>1 DEF Stored
<1>5. ASSUME NEW k \in 1 .. Len(d)
      PROVE  Stored(data, rear, d)[(rear + k - 1) % Size] = d[k]
  <2> DEFINE c == rear + k - 1
  <2>1. c \in Nat /\ c < 2 * Size /\ k \in Nat
    BY <1>1, SizeAssumption DEF Index
  <2>2. c % Size = IF c < Size THEN c ELSE c - Size
    BY <2>1, ModSize
  <2>3. CASE c < Size
    <3>1. c \in Index /\ rear <= c /\ c < rear + count /\ c - rear + 1 = k
      BY <2>1, <2>3, <1>1, SizeAssumption DEF Index
    <3> HIDE DEF c, count
    <3> QED  BY <3>1, <2>2, <2>3, <1>3, SMTT(30)
  <2>4. CASE ~(c < Size)
    <3>0. left > 0 /\ count = Size - rear
      BY <2>1, <2>4, <1>1, SizeAssumption DEF Index
    <3>1. /\ c - Size \in Index
          /\ ~(rear <= c - Size /\ c - Size < rear + count)
          /\ c - Size < Len(d) - count
          /\ count + (c - Size) + 1 = k
      <4> HIDE DEF count, left
      <4> QED  BY <3>0, <2>1, <2>4, <1>1, SizeAssumption DEF Index
    <3>2. c \in Nat /\ count \in Nat
      BY <2>1, <1>2
    <3> HIDE DEF c, count
    <3>3. Stored(data, rear, d)[c - Size] = d[count + (c - Size) + 1]
      BY <3>1, <1>3
    <3>4. c % Size = c - Size
      BY <2>2, <2>4, <3>2, SizeAssumption
    <3>5. Stored(data, rear, d)[c % Size] = d[k]
      BY <3>1, <3>3, <3>4
    <3> QED  BY <3>5 DEF c
  <2> QED  BY <2>3, <2>4
<1>6. ASSUME NEW i \in Index, \A k \in 1 .. Len(d) : i # (rear + k - 1) % Size
      PROVE  Stored(data, rear, d)[i] = data[i]
  <2>1. ~(rear <= i /\ i < rear + count)
    <3> SUFFICES ASSUME rear <= i, i < rear + count PROVE FALSE
      OBVIOUS
    <3>1. /\ i - rear + 1 \in 1 .. Len(d)
          /\ rear + (i - rear + 1) - 1 = i
          /\ i \in Nat /\ i < Size
      BY <1>1, <1>2, SizeAssumption DEF Index
    <3>2. i % Size = i
      BY <3>1, ModSize, SizeAssumption
    <3> QED  BY <3>1, <3>2, <1>6
  <2>2. ~(i < Len(d) - count)
    <3> SUFFICES ASSUME i < Len(d) - count PROVE FALSE
      OBVIOUS
    <3> DEFINE k == count + i + 1
               a == rear + k - 1
    <3>1. k \in 1 .. Len(d) /\ a = i + Size
      BY <1>1, <1>2, SizeAssumption DEF Index
    <3>2. a % Size = i
      <4> HIDE DEF a
      <4>1. a \in Nat /\ a < 2 * Size /\ ~(a < Size) /\ a - Size = i
        BY <3>1, SizeAssumption DEF Index
      <4> QED  BY <4>1, ModSize
    <3>3. i = (rear + k - 1) % Size
      BY <3>2
    <3> HIDE DEF k
    <3> QED  BY <3>1, <3>3, <1>6
  <2> QED  BY <2>1, <2>2, <1>3
<1> QED  BY <1>4, <1>5, <1>6

(* The block get() and pop() return: the oldest n unread bytes. *)
LEMMA LoadedBytes ==
    ASSUME TypeOK, NEW n \in 0 .. Length
    PROVE  /\ Loaded(n) \in [1 .. n -> Byte]
           /\ \A i \in 1 .. n : Loaded(n)[i] = Contents[i]
           /\ \A i \in 1 .. Length : Contents[i] \in Byte
<1> DEFINE left == (m_front + n) - Size
           count == IF left > 0 THEN Size - m_front ELSE n
<1>1. Length \in 0 .. Size - 1 /\ n \in Nat /\ n <= Length
  BY LengthValue, SizeAssumption DEF TypeOK
<1>2. count \in Nat /\ count <= n /\ m_front + count <= Size
  BY <1>1, SizeAssumption DEF TypeOK, Index
<1>3. ASSUME NEW i \in 1 .. Length
      PROVE  /\ (m_front + i - 1) % Size \in Index
             /\ Contents[i] = m_data[(m_front + i - 1) % Size]
             /\ Contents[i] \in Byte
  <2> DEFINE c == m_front + i - 1
  <2>1. c \in Nat /\ c < 2 * Size
    BY <1>1, SizeAssumption DEF TypeOK, Index
  <2>2. c % Size \in Index
    <3> HIDE DEF c
    <3> QED  BY <2>1, ModSize, SizeAssumption DEF Index
  <2>3. Contents[i] = m_data[c % Size]
    BY DEF Contents
  <2> QED  BY <2>2, <2>3 DEF TypeOK
<1>4. ASSUME NEW i \in 1 .. n PROVE Loaded(n)[i] = Contents[i]
  <2> DEFINE c == m_front + i - 1
  <2>1. c \in Nat /\ c < 2 * Size /\ i \in 1 .. Length
    BY <1>1, SizeAssumption DEF TypeOK, Index
  <2>2. Contents[i] = m_data[c % Size]
    BY <1>3, <2>1
  <2>3. Loaded(n)[i] = IF i <= count THEN m_data[c] ELSE m_data[i - count - 1]
    BY DEF Loaded
  <2>4. CASE i <= count
    <3>1. c < Size
      BY <2>4, <2>1, <1>2, SizeAssumption DEF TypeOK, Index
    <3>2. c % Size = c
      <4> HIDE DEF c
      <4> QED  BY <3>1, <2>1, ModSize
    <3> QED  BY <2>2, <2>3, <2>4, <3>2
  <2>5. CASE ~(i <= count)
    <3>1. left > 0 /\ count = Size - m_front
      BY <2>5
    <3>2. ~(c < Size) /\ c - Size = i - count - 1
      <4> HIDE DEF left, count
      <4> QED  BY <3>1, <2>5, <2>1, <1>1, <1>2, SizeAssumption DEF TypeOK, Index
    <3>3. c % Size = i - count - 1
      <4> HIDE DEF c, count
      <4> QED  BY <3>2, <2>1, ModSize
    <3> QED  BY <2>2, <2>3, <2>5, <3>3
  <2> QED  BY <2>4, <2>5
<1>5. Loaded(n) \in [1 .. n -> Byte]
  <2>1. \A i \in 1 .. n : Loaded(n)[i] \in Byte
    BY <1>1, <1>3, <1>4
  <2> QED  BY <2>1 DEF Loaded
<1> QED  BY <1>3, <1>4, <1>5

(* The contents are a sequence of bytes, and advancing m_front drops its   *)
(* first n bytes.                                                          *)
LEMMA ContentsSeq ==
    ASSUME TypeOK
    PROVE  /\ Contents \in Seq(Byte)
           /\ Len(Contents) = Length
           /\ Contents = <<>> <=> Empty
<1>1. Length \in Nat /\ (Length = 0 <=> Empty)
  BY LengthValue, SizeAssumption DEF TypeOK
<1>2. \A i \in 1 .. Length : Contents[i] \in Byte
  BY LoadedBytes, <1>1
<1>3. Contents \in [1 .. Length -> Byte]
  BY <1>2 DEF Contents
<1>4. Contents \in Seq(Byte) /\ Len(Contents) = Length
  BY <1>1, <1>3
<1> QED  BY <1>1, <1>4

LEMMA FrontAdvanced ==
    ASSUME TypeOK, NEW n \in 0 .. Length,
           m_front' = (m_front + n) % Size, m_rear' = m_rear, m_data' = m_data
    PROVE  /\ TypeOK'
           /\ Contents' = SubSeq(Contents, n + 1, Len(Contents))
<1>1. Length \in 0 .. Size - 1 /\ n \in Nat /\ n <= Length
  BY LengthValue, SizeAssumption DEF TypeOK
<1>2. m_front' = IF m_front + n < Size THEN m_front + n ELSE (m_front + n) - Size
  <2> DEFINE a == m_front + n
  <2>1. a \in Nat /\ a < 2 * Size
    BY <1>1, SizeAssumption DEF TypeOK, Index
  <2>2. a % Size = IF a < Size THEN a ELSE a - Size
    <3> HIDE DEF a
    <3> QED  BY <2>1, ModSize, SizeAssumption
  <2> QED  BY <2>2
<1>3. TypeOK'
  BY <1>1, <1>2, SizeAssumption DEF TypeOK, Index
<1>4. Length' = Length - n
  <2>1. m_rear' \in Index /\ m_front' \in Index
    BY <1>3 DEF TypeOK
  <2>2. Length' = IF m_front' <= m_rear THEN m_rear - m_front' ELSE (m_rear - m_front') + Size
    BY <2>1, Difference DEF Length
  <2> QED  BY <2>2, <1>1, <1>2, LengthValue, SizeAssumption DEF TypeOK, Index
<1>5. ASSUME NEW i \in 1 .. Length - n
      PROVE  (m_front' + i - 1) % Size = (m_front + (i + n) - 1) % Size
  <2> DEFINE a == m_front' + i - 1
             b == m_front + (i + n) - 1
  <2>1. /\ a \in Nat /\ a < 2 * Size
        /\ b \in Nat /\ b < 2 * Size
        /\ a = b \/ (a = b - Size /\ ~(b < Size) /\ a < Size)
    BY <1>1, <1>2, SizeAssumption DEF TypeOK, Index
  <2>2. a % Size = b % Size
    <3> HIDE DEF a, b
    <3> QED  BY <2>1, ModSize
  <2> QED  BY <2>2
<1>6. Contents' = [i \in 1 .. Length - n |-> Contents[i + n]]
  <2>1. Contents' = [i \in 1 .. Length' |-> m_data[(m_front' + i - 1) % Size]]
    BY DEF Contents
  <2>2. ASSUME NEW i \in 1 .. Length - n
        PROVE  m_data[(m_front' + i - 1) % Size] = Contents[i + n]
    <3>1. i + n \in 1 .. Length
      BY <1>1
    <3>2. Contents[i + n] = m_data[(m_front + (i + n) - 1) % Size]
      BY <3>1 DEF Contents
    <3> QED  BY <3>2, <1>5
  <2> QED  BY <2>1, <2>2, <1>4
<1>7. SubSeq(Contents, n + 1, Len(Contents)) = [i \in 1 .. Length - n |-> Contents[i + n]]
  <2>1. Contents \in Seq(Byte) /\ Len(Contents) = Length
    BY ContentsSeq
  <2> QED  BY <2>1, <1>1
<1> QED  BY <1>3, <1>6, <1>7

(* A push writes behind the contents, or replaces them when it would fill  *)
(* the array.  front and rear are the indices after the reset, if any.     *)
LEMMA PushEffect ==
    ASSUME TypeOK, NEW d \in Chunks, Push(d)
    PROVE  /\ TypeOK'
           /\ Contents' = Pipe!Appended(Contents, d)
<1> DEFINE front == IF Full(Len(d)) THEN 0 ELSE m_front
           rear  == IF Full(Len(d)) THEN 0 ELSE m_rear
           old   == IF Full(Len(d)) THEN 0 ELSE Length
<1>1. /\ Len(d) \in Nat /\ Len(d) < Size
      /\ \A k \in 1 .. Len(d) : d[k] \in Byte
      /\ d \in Seq(Byte)
  BY ChunkType, MaxLenAssumption, SizeAssumption
<1>2. /\ front \in Index /\ rear \in Index /\ old \in Nat
      /\ old + Len(d) < Size
      /\ rear = IF front + old < Size THEN front + old ELSE (front + old) - Size
  BY <1>1, LengthValue, SizeAssumption DEF TypeOK, Index, Full
<1>3. /\ m_front' = front
      /\ m_data' = Stored(m_data, rear, d)
      /\ m_rear' = (rear + Len(d)) % Size
  BY DEF Push
<1> HIDE DEF front, rear, old
<1>4. m_rear' = IF rear + Len(d) < Size THEN rear + Len(d) ELSE (rear + Len(d)) - Size
  <2> DEFINE a == rear + Len(d)
  <2>1. a \in Nat /\ a < 2 * Size
    BY <1>1, <1>2, SizeAssumption DEF Index
  <2>2. a % Size = IF a < Size THEN a ELSE a - Size
    <3> HIDE DEF a
    <3> QED  BY <2>1, ModSize, SizeAssumption
  <2> QED  BY <2>2, <1>3
<1>5. TypeOK'
  <2>1. m_rear' \in Index
    BY <1>1, <1>2, <1>4, SizeAssumption DEF Index
  <2>2. m_data' \in [Index -> Byte]
    BY <1>2, <1>3, StoredCells DEF TypeOK
  <2> QED  BY <2>1, <2>2, <1>2, <1>3 DEF TypeOK
<1>6. Length' = old + Len(d)
  <2>1. m_rear' \in Index /\ m_front' \in Index
    BY <1>5 DEF TypeOK
  <2>2. Length' = IF m_front' <= m_rear' THEN m_rear' - m_front' ELSE (m_rear' - m_front') + Size
    BY <2>1, Difference DEF Length
  <2>3. front \in Nat /\ front < Size /\ Size \in Nat
    BY <1>2, SizeAssumption DEF Index
  <2>4. m_rear' = IF rear + Len(d) < Size THEN rear + Len(d) ELSE (rear + Len(d)) - Size
    BY <1>4
  <2>5. CASE front + old < Size
    <3>1. rear = front + old
      BY <2>5, <1>2
    <3> QED  BY <3>1, <2>2, <2>3, <2>4, <1>1, <1>2, <1>3
  <2>6. CASE ~(front + old < Size)
    <3>1. rear = (front + old) - Size
      BY <2>6, <1>2
    <3> QED  BY <3>1, <2>6, <2>2, <2>3, <2>4, <1>1, <1>2, <1>3
  <2> QED  BY <2>5, <2>6
(* The byte behind the i-th of the new contents. *)
<1>7. ASSUME NEW i \in 1 .. old + Len(d)
      PROVE  Contents'[i] = IF i <= old THEN Contents[i] ELSE d[i - old]
  <2> DEFINE c == front + i - 1
  <2>1. Contents'[i] = Stored(m_data, rear, d)[c % Size]
    BY <1>3, <1>6 DEF Contents
  <2>2. c \in Nat /\ c < 2 * Size
    BY <1>1, <1>2, SizeAssumption DEF Index
  <2>3. c % Size = IF c < Size THEN c ELSE c - Size
    <3> HIDE DEF c
    <3> QED  BY <2>2, ModSize, SizeAssumption
  <2>4. CASE i <= old
    <3>1. ~Full(Len(d)) /\ old = Length /\ front = m_front /\ i \in 1 .. Length
      BY <2>4, <1>1 DEF front, old
    <3>2. Contents[i] = m_data[c % Size]
      BY <3>1 DEF Contents
    <3>3. c % Size \in Index
      <4> HIDE DEF c
      <4> QED  BY <2>2, <2>3, SizeAssumption DEF Index
    <3>4. ASSUME NEW k \in 1 .. Len(d) PROVE c % Size # (rear + k - 1) % Size
      <4> DEFINE b == rear + k - 1
      <4>1. b \in Nat /\ b < 2 * Size
        BY <1>1, <1>2, SizeAssumption DEF Index
      <4>2. b % Size = IF b < Size THEN b ELSE b - Size
        <5> HIDE DEF b
        <5> QED  BY <4>1, ModSize, SizeAssumption
      <4>3. (IF c < Size THEN c ELSE c - Size) # (IF b < Size THEN b ELSE b - Size)
        BY <2>4, <1>1, <1>2, SizeAssumption DEF Index
      <4> QED  BY <4>2, <4>3, <2>3
    <3>5. Stored(m_data, rear, d)[c % Size] = m_data[c % Size]
      <4> HIDE DEF c
      <4> QED  BY <3>3, <3>4, <1>2, StoredCells DEF TypeOK
    <3> QED  BY <2>1, <2>4, <3>2, <3>5
  <2>5. CASE ~(i <= old)
    <3> DEFINE k == i - old
               b == rear + k - 1
    <3>1. k \in 1 .. Len(d)
      <4> QED  BY <2>5, <1>1, <1>2
    <3>2. /\ b \in Nat /\ b < 2 * Size
          /\ (b = c /\ b < Size) \/ (b = c - Size /\ b < Size /\ ~(c < Size)) \/ (b = c /\ ~(c < Size))
      <4> QED  BY <2>5, <1>1, <1>2, SizeAssumption DEF Index
    <3>3. b % Size = IF b < Size THEN b ELSE b - Size
      <4> HIDE DEF b
      <4> QED  BY <3>2, ModSize, SizeAssumption
    <3>4. c % Size = b % Size
      <4> HIDE DEF b, c
      <4> QED  BY <2>2, <2>3, <3>2, <3>3, SizeAssumption
    <3>5. Stored(m_data, rear, d)[b % Size] = d[k]
      <4>1. m_data \in [Index -> Byte] /\ rear \in Index
        BY <1>2 DEF TypeOK
      <4>2. \A kk \in 1 .. Len(d) : Stored(m_data, rear, d)[(rear + kk - 1) % Size] = d[kk]
        BY <4>1, StoredCells
      <4> HIDE DEF k
      <4> QED  BY <3>1, <4>2
    <3> QED  BY <2>1, <2>5, <3>4, <3>5
  <2> QED  BY <2>4, <2>5
<1>8. Contents \in Seq(Byte) /\ Len(Contents) = Length
  BY ContentsSeq
<1>9. Contents' = [i \in 1 .. old + Len(d) |-> IF i <= old THEN Contents[i] ELSE d[i - old]]
  BY <1>6, <1>7 DEF Contents
<1>10. CASE Full(Len(d))
  <2>1. Contents' = [i \in 1 .. Len(d) |-> d[i]]
    BY <1>1, <1>9, <1>10 DEF old
  <2>2. Contents' = d
    BY <2>1, <1>1
  <2> QED  BY <2>2, <1>5, <1>8, <1>10 DEF Full, Pipe!Appended
<1>11. CASE ~Full(Len(d))
  <2>1. Contents' = [i \in 1 .. Len(Contents) + Len(d) |->
                        IF i <= Len(Contents) THEN Contents[i] ELSE d[i - Len(Contents)]]
    BY <1>8, <1>9, <1>11 DEF old
  <2>2. Contents' = Contents \o d
    <3> DEFINE q == Contents
    <3>1. q \in Seq(Byte) /\ d \in Seq(Byte)
      BY <1>1, <1>8
    <3> HIDE DEF q
    <3> DEFINE n == Len(q) + Len(d)
               e == [i \in 1 .. n |-> IF i <= Len(q) THEN q[i] ELSE d[i - Len(q)]]
    <3>2. /\ q \o d \in Seq(Byte)
          /\ Len(q \o d) = n
          /\ \A i \in 1 .. n : (q \o d)[i] = e[i]
      BY <3>1, ConcatProperties
    <3>3. e \in Seq(Byte) /\ Len(e) = n
      <4>1. n \in Nat
        BY <3>1
      <4>2. \A i \in 1 .. n : e[i] \in Byte
        BY <3>1
      <4>3. e \in [1 .. n -> Byte]
        BY <4>2
      <4> HIDE DEF e, n
      <4> QED  BY <4>1, <4>3
    <3>4. q \o d = e
      <4> HIDE DEF e, n
      <4> QED  BY <3>2, <3>3, SeqEqual
    <3> QED  BY <2>1, <3>4 DEF q
  <2> QED  BY <2>2, <1>5, <1>8, <1>11 DEF Full, Pipe!Appended
<1> QED  BY <1>10, <1>11

LEMMA InitEffect ==
    ASSUME Init
    PROVE  TypeOK /\ Contents = <<>>
<1>1. TypeOK
  BY SizeAssumption, ZeroAssumption DEF Init, TypeOK, Index
<1>2. Empty
  BY DEF Init, Empty
<1> QED  BY <1>1, <1>2, ContentsSeq

(* What pop and get(byte[]) copy out is the pipe's prefix. *)
LEMMA LoadedPrefix ==
    ASSUME TypeOK, NEW n \in 0 .. Size
    PROVE  /\ AtMostLength(n) = Pipe!AtMost(n, Contents)
           /\ AtMostLength(n) \in 0 .. Length
           /\ Loaded(AtMostLength(n)) = SubSeq(Contents, 1, AtMostLength(n))
           /\ Loaded(AtMostLength(n)) \in [1 .. AtMostLength(n) -> Byte]
<1> DEFINE k == AtMostLength(n)
<1>1. Length \in 0 .. Size - 1
  BY LengthValue DEF TypeOK
<1>2. k \in 0 .. Length
  BY <1>1, SizeAssumption DEF AtMostLength
<1>3. Contents \in Seq(Byte) /\ Len(Contents) = Length
  BY ContentsSeq
<1>4. k = Pipe!AtMost(n, Contents)
  BY <1>3 DEF AtMostLength, Pipe!AtMost
<1> HIDE DEF k
<1>5. Loaded(k) \in [1 .. k -> Byte] /\ \A i \in 1 .. k : Loaded(k)[i] = Contents[i]
  BY <1>2, LoadedBytes
<1>6. SubSeq(Contents, 1, k) = [i \in 1 .. k |-> Contents[i]]
  BY <1>1, <1>2, <1>3, SizeAssumption
<1>7. Loaded(k) = [i \in 1 .. k |-> Contents[i]]
  BY <1>5
<1> QED  BY <1>2, <1>4, <1>5, <1>6, <1>7 DEF k

(* Every step of the array is a step of the pipe. *)
LEMMA StepSimulation ==
    ASSUME TypeOK, [Next]_vars
    PROVE  TypeOK' /\ [Pipe!Next]_(Pipe!vars)
<1>1. ASSUME NEW d \in Chunks, Push(d)
      PROVE  TypeOK' /\ Pipe!Next
  <2>1. TypeOK' /\ Contents' = Pipe!Appended(Contents, d)
    BY <1>1, PushEffect
  <2>2. Pipe!Push(d)
    BY <1>1, <2>1 DEF Push, Pipe!Push
  <2>3. d \in Pipe!Chunks
    BY DEF Chunks, Pipe!Chunks
  <2> QED  BY <2>1, <2>2, <2>3 DEF Pipe!Next
<1>2. ASSUME NEW n \in 0 .. Size, Pop(n)
      PROVE  TypeOK' /\ Pipe!Next
  <2>1. CASE Empty
    <3>1. /\ m_front' = m_front /\ m_rear' = m_rear /\ m_data' = m_data /\ out' = Null
          /\ call' = <<"pop", n>>
      BY <1>2, <2>1 DEF Pop
    <3>2. TypeOK' /\ Contents' = Contents
      BY <3>1 DEF TypeOK, Contents, Length
    <3>3. Contents = <<>>
      BY <2>1, ContentsSeq
    <3>4. Pipe!Pop(n)
      BY <3>1, <3>2, <3>3 DEF Pipe!Pop
    <3> QED  BY <3>2, <3>4 DEF Pipe!Next
  <2>2. CASE ~Empty
    <3> DEFINE k == AtMostLength(n)
    <3>1. /\ out' = Loaded(k) /\ m_front' = (m_front + k) % Size
          /\ m_rear' = m_rear /\ m_data' = m_data /\ call' = <<"pop", n>>
      BY <1>2, <2>2 DEF Pop
    <3>2. k \in 0 .. Length /\ k = Pipe!AtMost(n, Contents) /\ Loaded(k) = SubSeq(Contents, 1, k)
      BY LoadedPrefix
    <3>3. TypeOK' /\ Contents' = SubSeq(Contents, k + 1, Len(Contents))
      <4> HIDE DEF k
      <4> QED  BY <3>1, <3>2, FrontAdvanced
    <3>4. Contents # <<>>
      BY <2>2, ContentsSeq
    <3>5. Pipe!Pop(n)
      <4> HIDE DEF k
      <4> QED  BY <3>1, <3>2, <3>3, <3>4 DEF Pipe!Pop
    <3> QED  BY <3>3, <3>5 DEF Pipe!Next
  <2> QED  BY <2>1, <2>2
<1>3. ASSUME NEW n \in 0 .. Size, Skip(n)
      PROVE  TypeOK' /\ Pipe!Next
  <2> DEFINE k == AtMostLength(n)
  <2>1. k \in 0 .. Length /\ k = Pipe!AtMost(n, Contents)
    BY LoadedPrefix
  <2>2. /\ m_front' = IF Empty THEN m_front ELSE (m_front + k) % Size
        /\ out' = Null /\ m_rear' = m_rear /\ m_data' = m_data
        /\ call' = <<"skip", n>>
    BY <1>3 DEF Skip
  <2>3. m_front' = (m_front + k) % Size
    <3>1. CASE Empty
      <4>1. k = 0
        BY <3>1, <2>1, LengthValue DEF TypeOK
      <4>2. m_front \in Nat /\ m_front < 2 * Size /\ m_front < Size
        BY SizeAssumption DEF TypeOK, Index
      <4>3. m_front % Size = m_front
        BY <4>2, ModSize
      <4> HIDE DEF k
      <4>4. m_front + k = m_front
        BY <4>1, <4>2
      <4> QED  BY <2>2, <3>1, <4>3, <4>4
    <3>2. CASE ~Empty
      BY <2>2, <3>2
    <3> QED  BY <3>1, <3>2
  <2>4. TypeOK' /\ Contents' = SubSeq(Contents, k + 1, Len(Contents))
    <3> HIDE DEF k
    <3> QED  BY <2>1, <2>2, <2>3, FrontAdvanced
  <2>5. Pipe!Skip(n)
    <3> HIDE DEF k
    <3> QED  BY <2>1, <2>2, <2>4 DEF Pipe!Skip
  <2> QED  BY <2>4, <2>5 DEF Pipe!Next
<1>4. ASSUME NEW n \in 0 .. Size, GetBlock(n)
      PROVE  TypeOK' /\ Pipe!Next
  <2>1. m_front' = m_front /\ m_rear' = m_rear /\ m_data' = m_data
    BY <1>4 DEF GetBlock
  <2>2. TypeOK' /\ Contents' = Contents
    BY <2>1 DEF TypeOK, Contents, Length
  <2>3. /\ out' = IF Contents = <<>> THEN Null
                                     ELSE SubSeq(Contents, 1, Pipe!AtMost(n, Contents))
        /\ call' = <<"get", n>>
    BY <1>4, LoadedPrefix, ContentsSeq DEF GetBlock
  <2>4. Pipe!Peek(n)
    BY <2>2, <2>3 DEF Pipe!Peek
  <2> QED  BY <2>2, <2>4 DEF Pipe!Next
<1>5. ASSUME GetFront
      PROVE  TypeOK' /\ Pipe!Next
  <2>1. m_front' = m_front /\ m_rear' = m_rear /\ m_data' = m_data
    BY <1>5 DEF GetFront
  <2>2. TypeOK' /\ Contents' = Contents
    BY <2>1 DEF TypeOK, Contents, Length
  <2>3. ASSUME ~Empty PROVE Contents[1] = m_data[m_front]
    <3>1. 1 \in 1 .. Length
      BY <2>3, LengthValue, SizeAssumption DEF TypeOK
    <3>2. Contents[1] = m_data[(m_front + 1 - 1) % Size]
      BY <3>1 DEF Contents
    <3>3. m_front \in Nat /\ m_front < 2 * Size /\ m_front < Size
      BY SizeAssumption DEF TypeOK, Index
    <3>4. m_front % Size = m_front /\ m_front + 1 - 1 = m_front
      BY <3>3, ModSize
    <3> QED  BY <3>2, <3>4
  <2>4. /\ out' = <<IF Contents = <<>> THEN Zero ELSE Contents[1]>>
        /\ call' = <<"front">>
    BY <1>5, <2>3, ContentsSeq DEF GetFront
  <2>5. Pipe!First
    BY <2>2, <2>4 DEF Pipe!First
  <2> QED  BY <2>2, <2>5 DEF Pipe!Next
<1>6. ASSUME UNCHANGED vars
      PROVE  TypeOK' /\ UNCHANGED Pipe!vars
  BY <1>6 DEF vars, TypeOK, Contents, Length, Pipe!vars
<1> QED  BY <1>1, <1>2, <1>3, <1>4, <1>5, <1>6 DEF Next

-----------------------------------------------------------------------------
(* For every array size and every longest write below it, both indices     *)
(* stay inside the array and its cells hold bytes: circle_queue never      *)
(* copies outside m_data.                                                  *)
THEOREM IndicesInside == Spec => []TypeOK
<1>1. Init => TypeOK
  BY InitEffect
<1>2. TypeOK /\ [Next]_vars => TypeOK'
  BY StepSimulation
<1> QED  BY <1>1, <1>2, PTL DEF Spec

(* circle_queue implements the byte pipe: whatever the size, the order of  *)
(* calls and the lengths of the writes, its users see a sequence of bytes  *)
(* that is lost only when a write does not fit.                            *)
THEOREM Implementation == Spec => ImplementsPipe
<1>1. Init => Pipe!Init
  BY InitEffect DEF Init, Pipe!Init
<1>2. TypeOK /\ [Next]_vars => [Pipe!Next]_(Pipe!vars)
  BY StepSimulation
<1> QED  BY <1>1, <1>2, IndicesInside, PTL DEF Spec, ImplementsPipe, Pipe!Spec
=============================================================================
