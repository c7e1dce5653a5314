---------------------------- MODULE FrameReceiver ----------------------------
(***************************************************************************)
(* handle_recv, the same algorithm in client.h and in MainActivity.java:   *)
(* cut the byte stream of a connection into frames.  The peer writes       *)
(* frames to the stream, a read delivers the next bytes of it, any number  *)
(* of them, and at most one frame is taken out per read.  What is left     *)
(* waits in m_recv_queue, whose promise is BytePipe's: bytes in order, all *)
(* thrown away when more arrive than fit.                                  *)
(*                                                                         *)
(* The queue belongs to the client, so the app's survives a reconnection.  *)
(* On the server a connection starts with a client of its own, and its     *)
(* first frame is the login.  The device's first login registers that      *)
(* client; a later one moves the session to the registered client, whose   *)
(* queue the stream goes on in.  The connection before is taken to have    *)
(* been read, as far as it is read at all, when the new one begins.        *)
(*                                                                         *)
(* A frame is abstracted to a mark, its length and its payload; a header   *)
(* of two bytes stands for one of 55, its length field for two bytes of    *)
(* base Base.                                                              *)
(***************************************************************************)
EXTENDS Naturals, Sequences, SequencesExt

CONSTANTS
    Size,       \* bytes of m_recv_queue, one of them unused
    MaxRead,    \* bytes one read may deliver
    Mark,       \* the identify byte, 0xFF; payloads may contain it
    Frames,     \* the frames the peer may send
    MaxFrames,  \* bound: frames per connection
    MaxConn,    \* bound: connections
    Base,       \* values of a byte of the length field, 256
    Receivers,  \* whose handle_recv to consider: "client.h", "MainActivity"
    Zero, Null  \* of BytePipe; not used here

ASSUME FrameReceiverAssumption ==
    /\ Size \in Nat /\ MaxRead \in Nat /\ MaxRead < Size
    /\ MaxFrames \in Nat /\ MaxConn \in Nat \ {0} /\ Base \in Nat \ {0}
    /\ Mark \in Nat /\ Frames \subseteq Seq(Nat)
    /\ Receivers \subseteq {"client.h", "MainActivity"}

VARIABLES
    receiver,   \* which of the two programs this is
    sent,       \* the frames the peer has sent on this connection
    wire,       \* their bytes
    ends,       \* where in wire each of them ends
    pos,        \* bytes of wire the receiver has read
    queue,      \* m_recv_queue
    dispatched, \* what it took for frames on this connection
    refused,    \* it saw a queue that does not start with the mark
    conn,       \* connections so far
    fresh,      \* the reads go to a client made for this connection, whose
                \* queue is queue, and its login has not come yet
    registered, \* the receiver has the client of the device already
    kept,       \* m_recv_queue of the registered client while fresh
    overflowed, \* history: unread bytes were thrown away
    spliced,    \* history: a stream did not go on in the queue where it was,
                \* or in one that held the rest of another
    merged      \* history: one read completed more than one frame

login == <<fresh, registered, kept>>
vars == <<receiver, sent, wire, ends, pos, queue, dispatched, refused, conn, login,
          overflowed, spliced, merged>>

Header == 2

Pipe == INSTANCE BytePipe WITH unread <- queue, call <- Null, out <- Null,
            Byte <- {}, MaxLen <- MaxRead

(* A frame as packet::buff lays it out. *)
Bytes(f) == <<Mark, Len(f)>> \o f

Init ==
    /\ receiver \in Receivers
    /\ sent = <<>> /\ wire = <<>> /\ ends = <<>>
    /\ pos = 0
    /\ queue = <<>>
    /\ dispatched = <<>>
    /\ refused = FALSE
    /\ conn = 1
    /\ fresh = (receiver = "client.h") /\ registered = (receiver # "client.h") /\ kept = <<>>
    /\ overflowed = FALSE
    /\ spliced = FALSE
    /\ merged = FALSE

-----------------------------------------------------------------------------
(* packet.set of the app writes data[13] + (int)data[14] << 8, which shifts *)
(* the sum of the two bytes; the server reads a uint16.                    *)
Decode(n) ==
    IF receiver = "client.h" THEN n ELSE (((n % Base) + (n \div Base)) % Base) * Base

(* A whole frame is at the front of b. *)
Complete(b) == Len(b) >= Header /\ Len(b) >= Header + Decode(b[2])

Payload(b) == SubSeq(b, Header + 1, Header + Decode(b[2]))

(* Mutated form: the last byte of the frame is left in the queue. *)
AfterShort(b) == SubSeq(b, Header + Decode(b[2]), Len(b))

After(b) == SubSeq(b, Header + Decode(b[2]) + 1, Len(b))

(* A frame is taken out and rest is left behind it.  If it is the login of *)
(* a device that is registered, the session gets the registered client,    *)
(* and rest stays with the other one.                                      *)
Dispatch(f, rest) ==
    /\ dispatched' = Append(dispatched, f)
    /\ IF fresh /\ registered
         THEN queue' = kept /\ spliced' = (spliced \/ kept # <<>> \/ rest # <<>>)
         ELSE queue' = rest /\ UNCHANGED spliced
    /\ fresh' = FALSE /\ registered' = TRUE /\ kept' = <<>>

(* No whole frame yet. *)
Wait(rest) == queue' = rest /\ UNCHANGED <<dispatched, spliced, login>>

(* Mutated form: what follows the frame in the same read is dropped. *)
RecvEmptyDropping(data) ==
    /\ UNCHANGED refused
    /\ IF Complete(data) THEN Dispatch(Payload(data), <<>>) ELSE Wait(data)

(* Nothing waits: the frame is taken from the read itself, what follows it *)
(* is queued; the mark is not looked at.                                   *)
RecvEmpty(data) ==
    /\ UNCHANGED refused
    /\ IF Complete(data)
         THEN Dispatch(Payload(data), Pipe!Appended(queue, After(data)))
         ELSE Wait(Pipe!Appended(queue, data))

(* Mutated form: the frame stays in the queue's front until more arrives   *)
(* than it needs.                                                          *)
RecvQueuedLate(data) ==
    LET q == Pipe!Appended(queue, data)
    IN  /\ refused' = (q[1] # Mark)
        /\ IF q[1] = Mark /\ Complete(q) /\ Len(q) > Header + Decode(q[2])
             THEN Dispatch(Payload(q), After(q))
             ELSE Wait(q)

(* Something waits: the read is queued behind it, and the front of the     *)
(* queue is looked at.                                                     *)
RecvQueued(data) ==
    LET q == Pipe!Appended(queue, data)
    IN  IF q[1] # Mark
          THEN refused' = TRUE /\ Wait(q)
          ELSE /\ UNCHANGED refused
               /\ IF Complete(q) THEN Dispatch(Payload(q), After(q)) ELSE Wait(q)

(* The peer sends a frame; the socket delivers it in pieces, or with other *)
(* frames.                                                                 *)
PeerSends ==
    /\ Len(sent) < MaxFrames
    /\ \E f \in Frames :
          /\ sent' = Append(sent, f)
          /\ wire' = wire \o Bytes(f)
          /\ ends' = Append(ends, Len(wire) + Header + Len(f))
    /\ UNCHANGED <<receiver, pos, queue, dispatched, refused, conn, login,
                   overflowed, spliced, merged>>

(* The next n bytes complete more than one frame. *)
Merges(n) ==
    \E i, j \in DOMAIN ends : pos < ends[i] /\ ends[i] < ends[j] /\ ends[j] <= pos + n

Recv(n) ==
    LET data == SubSeq(wire, pos + 1, pos + n)
        room == Len(queue) + n < Size
    IN  /\ pos + n <= Len(wire)
        /\ IF queue = <<>> THEN RecvEmpty(data) ELSE RecvQueued(data)
        /\ pos' = pos + n
        /\ overflowed' = (overflowed \/ (queue # <<>> /\ ~room))
        /\ merged' = (merged \/ Merges(n))
        /\ UNCHANGED <<receiver, sent, wire, ends, conn>>

(* A new stream.  The app reads it into the queue it has; the server makes *)
(* a client for it, and keeps the registered one until the login.          *)
Reconnect ==
    /\ conn < MaxConn
    /\ conn' = conn + 1
    /\ sent' = <<>> /\ wire' = <<>> /\ ends' = <<>>
    /\ pos' = 0
    /\ dispatched' = <<>>
    /\ IF receiver = "client.h"
         THEN /\ queue' = <<>> /\ fresh' = TRUE
              /\ kept' = IF fresh THEN kept ELSE queue
              /\ UNCHANGED spliced
         ELSE /\ spliced' = (spliced \/ queue # <<>>)
              /\ UNCHANGED <<queue, fresh, kept>>
    /\ UNCHANGED <<receiver, refused, registered, overflowed, merged>>

Next == PeerSends \/ (\E n \in 1 .. MaxRead : Recv(n)) \/ Reconnect

Spec == Init /\ [][Next]_vars

-----------------------------------------------------------------------------
TypeOK ==
    /\ receiver \in Receivers
    /\ sent \in Seq(Frames) /\ Len(sent) <= MaxFrames
    /\ wire \in Seq(Nat) /\ ends \in Seq(0 .. Len(wire)) /\ pos \in 0 .. Len(wire)
    /\ queue \in Seq(Nat) /\ Len(queue) < Size
    /\ dispatched \in Seq(Seq(Nat))
    /\ fresh \in BOOLEAN /\ registered \in BOOLEAN /\ kept \in Seq(Nat) /\ Len(kept) < Size
    /\ refused \in BOOLEAN /\ overflowed \in BOOLEAN /\ spliced \in BOOLEAN /\ merged \in BOOLEAN
    /\ conn \in 1 .. MaxConn

(* The receiver makes the right length of every frame sent here. *)
Decodable == \A i \in DOMAIN sent : Decode(Len(sent[i])) = Len(sent[i])

Clean == ~overflowed /\ ~spliced /\ Decodable

(* Where the k-th frame of the stream ends. *)
End(k) == IF k = 0 THEN 0 ELSE ends[k]

(* However the stream is cut into reads, every byte read is either in a    *)
(* frame that was taken out, whole and in order, or waits in the queue the *)
(* next read goes to: unless the queue overflowed, or a length is misread, *)
(* or a reconnection spliced streams: the queue it went on in held the     *)
(* rest of another one, or what was read behind the login of a device that *)
(* had been there before stayed in the queue of the client made for it.    *)
Aligned ==
    Clean => /\ IsPrefix(dispatched, sent)
             /\ queue = SubSeq(wire, End(Len(dispatched)) + 1, pos)

(* A receiver that lost no bytes never takes its own stream for garbage    *)
(* and closes a healthy connection, though payloads may contain the mark   *)
(* or look like headers.                                                   *)
NeverRefusesClean == Clean /\ conn = 1 => ~refused

(* A whole frame is left waiting for the next read only if some read       *)
(* completed two frames at once.  Since a read takes out one, the receiver *)
(* stays behind from then on.                                              *)
WaitsOnlyIfMerged == Clean /\ ~merged => ~Complete(queue)
=============================================================================
