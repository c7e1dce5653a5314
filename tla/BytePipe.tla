------------------------------ MODULE BytePipe ------------------------------
(***************************************************************************)
(* What the receive buffer of a connection promises its user: a sequence   *)
(* of bytes that is written at one end and read at the other, of which at  *)
(* most Size - 1 are held.  It is not a lossless pipe: a write that does   *)
(* not fit throws away everything unread and starts again with the bytes   *)
(* of that write (MainActivity.java, circle_queue.push: "when the queue is *)
(* full, reset it").  CircleQueue shows that the array implements this     *)
(* specification; FrameReceiver shows what the promise means to the framed *)
(* protocol that is parsed out of it.                                      *)
(***************************************************************************)
EXTENDS Naturals, Sequences

CONSTANTS
    Size,       \* bytes of storage; one of them is never used
    Byte,       \* what a byte may be
    Zero,       \* the byte a fresh array holds, and get(index) of no element
    MaxLen,     \* the longest write: what one socket read may return
    Null        \* the null reference pop() returns

VARIABLES
    unread,     \* the bytes written and not read yet
    call,       \* the latest operation and its argument
    out         \* what it returned

vars == <<unread, call, out>>

Chunks == UNION {[1 .. n -> Byte] : n \in 0 .. MaxLen}

AtMost(n, s) == IF n > Len(s) THEN Len(s) ELSE n

(* The contents after d is written behind q. *)
Appended(q, d) == IF Len(q) + Len(d) >= Size THEN d ELSE q \o d

Init == unread = <<>> /\ call = Null /\ out = Null

Push(d) ==
    /\ call' = <<"push", d>>
    /\ unread' = Appended(unread, d)
    /\ out' = Null

(* The next n bytes, fewer when fewer are there, and null when none are. *)
Pop(n) ==
    /\ call' = <<"pop", n>>
    /\ IF unread = <<>>
         THEN out' = Null /\ UNCHANGED unread
         ELSE LET k == AtMost(n, unread) IN
              /\ out' = SubSeq(unread, 1, k)
              /\ unread' = SubSeq(unread, k + 1, Len(unread))

Skip(n) ==
    /\ call' = <<"skip", n>>
    /\ unread' = SubSeq(unread, AtMost(n, unread) + 1, Len(unread))
    /\ out' = Null

(* The next n bytes, left in the pipe; Null when there is none. *)
Peek(n) ==
    /\ call' = <<"get", n>>
    /\ out' = IF unread = <<>> THEN Null
                               ELSE SubSeq(unread, 1, AtMost(n, unread))
    /\ UNCHANGED unread

(* get(front()): the next byte, left in the pipe. *)
First ==
    /\ call' = <<"front">>
    /\ out' = <<IF unread = <<>> THEN Zero ELSE unread[1]>>
    /\ UNCHANGED unread

Next ==
    \/ \E d \in Chunks : Push(d)
    \/ \E n \in 0 .. Size : Pop(n) \/ Skip(n) \/ Peek(n)
    \/ First

Spec == Init /\ [][Next]_vars
=============================================================================
