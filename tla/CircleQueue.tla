---------------------------- MODULE CircleQueue -----------------------------
(***************************************************************************)
(* circle_queue of MainActivity.java: the array in which a client keeps    *)
(* the bytes it received and has not parsed yet.  One action per method    *)
(* its user calls (push, pop, skip, get of a byte, get of a block), each   *)
(* with the index arithmetic and the one or two block copies of the code.  *)
(* The C++ side has the same container from a library that is not in the   *)
(* repository (gtl::circle_queue) and is used through the same calls.      *)
(***************************************************************************)
EXTENDS Integers, Sequences

CONSTANTS
    Size,       \* m_size: 16 * 1024 in the app
    Byte,
    Zero,
    MaxLen,     \* longest push: the 8192 bytes of one socket read
    Null        \* the null reference

ASSUME SizeAssumption == Size \in Nat /\ Size > 1
ASSUME MaxLenAssumption == MaxLen \in Nat /\ MaxLen < Size
ASSUME ZeroAssumption == Zero \in Byte

VARIABLES
    m_front, m_rear, m_data,
    call,       \* the latest call and its argument
    out         \* what it returned

vars == <<m_front, m_rear, m_data, call, out>>

Index == 0 .. Size - 1

Chunks == UNION {[1 .. n -> Byte] : n \in 0 .. MaxLen}

Length == (m_rear - m_front + Size) % Size

Empty == m_front = m_rear

(* Mutated form: the test lets the writer fill the last cell, and a full   *)
(* array then looks empty.                                                 *)
FullLastCell(count) == Length + count > Size

Full(count) == Length + count >= Size

AtMostLength(n) == IF n > Length THEN Length ELSE n

-----------------------------------------------------------------------------
(* Mutated form: the part that does not fit is dropped, not wrapped. *)
StoredNoWrap(data, rear, d) ==
    [i \in Index |-> IF rear <= i /\ i < rear + Len(d) THEN d[i - rear + 1] ELSE data[i]]

(* memcpy, once or twice: the cells of data after d is copied to rear, the *)
(* part that does not fit before the end of the array going to its head.   *)
Stored(data, rear, d) ==
    LET left  == (rear + Len(d)) - Size
        count == IF left > 0 THEN Size - rear ELSE Len(d)
    IN  [i \in Index |->
            IF rear <= i /\ i < rear + count THEN d[i - rear + 1]
            ELSE IF i < Len(d) - count THEN d[count + i + 1]
            ELSE data[i]]

(* memcpy, once or twice, out of the array: n bytes from m_front. *)
Loaded(n) ==
    LET left  == (m_front + n) - Size
        count == IF left > 0 THEN Size - m_front ELSE n
    IN  [i \in 1 .. n |-> IF i <= count THEN m_data[m_front + i - 1]
                                        ELSE m_data[i - count - 1]]

Init ==
    /\ m_front = 0
    /\ m_rear = 0
    /\ m_data = [i \in Index |-> Zero]
    /\ call = Null
    /\ out = Null

Push(d) ==
    LET front == IF Full(Len(d)) THEN 0 ELSE m_front
        rear  == IF Full(Len(d)) THEN 0 ELSE m_rear
    IN  /\ m_front' = front
        /\ m_data' = Stored(m_data, rear, d)
        /\ m_rear' = (rear + Len(d)) % Size
        /\ call' = <<"push", d>>
        /\ out' = Null

Pop(n) ==
    /\ call' = <<"pop", n>>
    /\ IF Empty
         THEN out' = Null /\ UNCHANGED m_front
         ELSE /\ out' = Loaded(AtMostLength(n))
              /\ m_front' = (m_front + AtMostLength(n)) % Size
    /\ UNCHANGED <<m_rear, m_data>>

(* Mutated form: the new index is not brought back into the array. *)
SkipNoModulo(n) ==
    /\ call' = <<"skip", n>>
    /\ m_front' = IF Empty THEN m_front ELSE m_front + AtMostLength(n)
    /\ out' = Null
    /\ UNCHANGED <<m_rear, m_data>>

Skip(n) ==
    /\ call' = <<"skip", n>>
    /\ m_front' = IF Empty THEN m_front
                           ELSE (m_front + AtMostLength(n)) % Size
    /\ out' = Null
    /\ UNCHANGED <<m_rear, m_data>>

(* get(byte[]): copies, moves nothing. *)
GetBlock(n) ==
    /\ call' = <<"get", n>>
    /\ out' = IF Empty THEN Null ELSE Loaded(AtMostLength(n))
    /\ UNCHANGED <<m_front, m_rear, m_data>>

(* get(front()), the only index the code ever asks for. *)
GetFront ==
    /\ call' = <<"front">>
    /\ out' = <<IF Empty THEN Zero ELSE m_data[m_front]>>
    /\ UNCHANGED <<m_front, m_rear, m_data>>

Next ==
    \/ \E d \in Chunks : Push(d)
    \/ \E n \in 0 .. Size : Pop(n) \/ Skip(n) \/ GetBlock(n)
    \/ GetFront

Spec == Init /\ [][Next]_vars

-----------------------------------------------------------------------------
(* Both indices stay inside the array and every cell is a byte: no copy    *)
(* ever throws ArrayIndexOutOfBounds.                                      *)
TypeOK ==
    /\ m_front \in Index
    /\ m_rear \in Index
    /\ m_data \in [Index -> Byte]

(* The unread bytes, oldest first, wherever they lie in the array. *)
Contents == [i \in 1 .. Length |-> m_data[(m_front + i - 1) % Size]]

Pipe == INSTANCE BytePipe WITH unread <- Contents

(* push, pop, skip and both get()s of the array do exactly what the byte   *)
(* pipe promises: bytes come out once, in the order they went in, across   *)
(* the end of the array, and only a push that does not fit loses any.      *)
ImplementsPipe == Pipe!Spec
=============================================================================
