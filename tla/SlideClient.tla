----------------------------- MODULE SlideClient -----------------------------
(***************************************************************************)
(* detail::client of client.h, the server's side of one device: the list   *)
(* of packets it has to send or has sent without an acknowledgement, the   *)
(* list of files it still has to cut into packets, the last packet         *)
(* identifier and the session it is on.  This module holds the pure part,  *)
(* operators on the client record; ClientPump runs one client between the  *)
(* thread that sends and the thread that serves the sockets, SlideServer   *)
(* runs many clients under the server.                                     *)
(*                                                                         *)
(* A packet's payload is abstracted to what it is: a text, or a piece      *)
(* [off, off + len) of a file.                                             *)
(***************************************************************************)
EXTENDS Naturals, Sequences, SequencesExt

CONSTANTS
    Texts,      \* what cmd_text packets carry
    Files,      \* what cmd_image and cmd_video packets carry
    FileSize,   \* [Files -> Nat], in the unit of Chunk
    Oversize,   \* the files whose size or offset is negative as an int
    Chunk,      \* bytes read per packet: 4096
    MaxId,      \* largest packet identifier: 2^16 - 1
    EagerEof,   \* does gtl::file::eof() hold as soon as all bytes are read,
                \* or only once a read asked for more than were left?
    None        \* a null pointer, and the frame of a packet without one

ASSUME SlideClientAssumption ==
    /\ Texts \cap Files = {}
    /\ FileSize \in [Files -> Nat]
    /\ Oversize \subseteq Files
    /\ Chunk \in Nat \ {0}
    /\ MaxId \in Nat \ {0, 1}
    /\ EagerEof \in BOOLEAN
    /\ None \notin Texts \cup Files

Body == [of : Texts \cup Files \cup {None}, off : Nat, len : Nat]

(* What packet(cmd) leaves in id and data until they are assigned. *)
Blank == [of |-> None, off |-> 0, len |-> 0]

Text(t) == [of |-> t, off |-> 0, len |-> 0]

(* The bytes of m_buff once buff() filled it.  It is filled once: what is  *)
(* assigned to the packet afterwards is not sent.                          *)
Frame == [id : 0 .. MaxId, body : Body]

(* A pointer is null or to bytes. *)
ASSUME NoneAssumption == None \notin Frame

Packet == [id : 0 .. MaxId, body : Body, frame : Frame \cup {None}]

NewPacket(id, body) == [id |-> id, body |-> body, frame |-> None]

File == [file : Files, pos : Nat]

Client(Sessions) ==
    [session : Sessions \cup {None}, id : 0 .. MaxId, packets : Seq(Packet), files : Seq(File)]

(* Mutated form: the identifier does not wrap. *)
NextIdNoWrap(id) == id + 1

(* get_id: a uint16 that skips 0. *)
NextId(id) == IF id = MaxId THEN 1 ELSE id + 1

Sent(p) == p.frame # None

Unsent(packets) == {i \in DOMAIN packets : ~Sent(packets[i])}

(* packet::buff *)
Buff(p) == IF Sent(p) THEN p ELSE [p EXCEPT !.frame = [id |-> p.id, body |-> p.body]]

BuffAt(packets, i) == [packets EXCEPT ![i] = Buff(@)]

(* packet::reset of every packet, as handle_login does. *)
ResetAll(packets) == [i \in DOMAIN packets |-> [packets[i] EXCEPT !.frame = None]]

(* The packet an acknowledgement removes: the first with its identifier. *)
Matching(packets, id) == {i \in DOMAIN packets : packets[i].id = id}

FirstOf(S) == CHOOSE i \in S : \A j \in S : i <= j

(* Mutated form: whatever is acknowledged, the front goes. *)
AcknowledgedFront(packets, id) ==
    IF Matching(packets, id) = {} THEN packets ELSE Tail(packets)

Acknowledged(packets, id) ==
    IF Matching(packets, id) = {} THEN packets
    ELSE RemoveAt(packets, FirstOf(Matching(packets, id)))

-----------------------------------------------------------------------------
(* One read of a file: the body it gives, and the file afterwards. *)
ChunkOf(f) ==
    LET left == FileSize[f.file] - f.pos
    IN  [of |-> f.file, off |-> f.pos, len |-> IF left < Chunk THEN left ELSE Chunk]

Advanced(f) == [f EXCEPT !.pos = @ + ChunkOf(f).len]

AtEof(f) ==
    IF EagerEof THEN f.pos + ChunkOf(f).len = FileSize[f.file]
                ELSE f.pos + Chunk > FileSize[f.file]

(* handle_write when every packet has been sent: read a piece of the first *)
(* file, which leaves the list with its end, append it as a packet.        *)
NextChunk(c) ==
    LET f == Head(c.files)
    IN  [c EXCEPT !.id = NextId(@),
                  !.packets = Append(@, NewPacket(NextId(c.id), ChunkOf(f))),
                  !.files = IF AtEof(f) THEN Tail(@) ELSE <<Advanced(f)>> \o Tail(@)]

(* send, the file case: the same for the only file, never at its end. *)
FirstChunk(c) ==
    LET f == Head(c.files)
    IN  [c EXCEPT !.id = NextId(@),
                  !.packets = Append(@, NewPacket(NextId(c.id), ChunkOf(f))),
                  !.files = <<Advanced(f)>>]

(* m_session->send(pkt.buff()) for the i-th packet: the client afterwards, *)
(* and the frame handed to the session.                                    *)
Written(c, i) ==
    LET packets == BuffAt(c.packets, i)
    IN  [client |-> [c EXCEPT !.packets = packets], frame |-> packets[i].frame]

Nothing(c) == [client |-> c, frame |-> None]

(* handle_write: the first packet that was not sent; when there is none, a *)
(* piece of the first file is appended, and what is sent is the FRONT of   *)
(* the list, whether it was sent before or not.                            *)
HandleWrite(c) ==
    IF c.session = None THEN Nothing(c)
    ELSE IF Unsent(c.packets) # {} THEN Written(c, FirstOf(Unsent(c.packets)))
    ELSE IF c.files = <<>> THEN Nothing(c)
    ELSE Written(NextChunk(c), 1)
=============================================================================
