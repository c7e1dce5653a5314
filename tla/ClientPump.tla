----------------------------- MODULE ClientPump ------------------------------
(***************************************************************************)
(* One client between two threads.  The host's thread calls send(); the    *)
(* io_service thread runs the completions of the writes and reads of the   *)
(* sessions the device has had, the logins that move the client to a new   *)
(* session, and handle_write for each of them.  Nothing locks the client:  *)
(* send() and handle_write are a step per statement here, and the threads  *)
(* take them in any order.  What two threads make of a list in the midst   *)
(* of one statement is left out.                                           *)
(***************************************************************************)
EXTENDS SlideClient

CONSTANTS
    MaxLogins,  \* bound: logins after the first, over the same or the next connection
    Calls,      \* what the host sends, the cases to consider
    Locking     \* whether it calls send() on the io_service's thread, the same

ASSUME ClientPumpAssumption ==
    MaxLogins \in Nat /\ Calls \subseteq SUBSET (Texts \cup Files) /\ Locking \subseteq BOOLEAN

Conn == 1 .. MaxLogins + 1

VARIABLES
    locked,     \* the host calls send() on the io_service's thread
    client,     \* the client record
    ui, io,     \* the next statement of the host's thread and of the other,
                \* and the body of the packet it makes
    asked,      \* texts and files the host has called send() with, on a session,
                \* or never will
    writing,    \* per connection: frames of the writes in flight
    reading,    \* connections whose read is armed (it keeps the session alive)
    owed,       \* per connection that is read: ids of frames the device has
                \* and has not acknowledged
    made,       \* connections made so far
    again,      \* repeated logins over a connection so far
    crashed,    \* a null m_session or the front of an empty list was used
    accepted,   \* history: texts and files that send() took
    delivered,  \* history: bodies of the frames whose write completed
    raced,      \* history: a packet was sent while it was filled in, both threads
                \* filled one in, both read a file, or one was taken off the
                \* list while it was read
    overtaken,  \* history: since send() was called the other thread started a
                \* write, or an acknowledgement removed an unsent packet
    reused      \* history: get_id returned the identifier of a packet that
                \* was not acknowledged yet

vars == <<locked, client, ui, io, asked, writing, reading, owed, made, again, crashed,
          accepted, delivered, raced, overtaken, reused>>

At(pc, body) == [pc |-> pc, body |-> body]
Idle == At("idle", Blank)

(* A device has connected and logged in. *)
Init ==
    /\ locked \in Locking
    /\ client = [session |-> 1, id |-> 0, packets |-> <<>>, files |-> <<>>]
    /\ ui = Idle /\ io = Idle
    /\ \E calls \in Calls : asked = (Texts \cup Files) \ calls
    /\ writing = [c \in Conn |-> <<>>]
    /\ reading = {1}
    /\ owed = [c \in Conn |-> <<>>]
    /\ made = 1
    /\ again = 0
    /\ crashed = FALSE
    /\ accepted = {}
    /\ delivered = {}
    /\ raced = FALSE /\ overtaken = FALSE /\ reused = FALSE

-----------------------------------------------------------------------------
(* The statements both threads have, each with the body of its packet.     *)
(* back() of an empty list is modelled as a packet nobody sees.            *)

(* m_packets.push_back(packet(cmd, size, offset)) *)
Pushed(c, b) ==
    [c EXCEPT !.packets = Append(@, NewPacket(0, [Blank EXCEPT !.off = b.off]))]

Back(c, p) == IF c.packets = <<>> THEN c ELSE [c EXCEPT !.packets[Len(c.packets)] = p]

(* m_packets.back().id = get_id() *)
Named(c) ==
    LET id == NextId(c.id)
    IN  Back([c EXCEPT !.id = id], [Last(c.packets) EXCEPT !.id = id])

(* m_packets.back().set_data(data, len): the offset stays. *)
Filled(c, b) == Back(c, [Last(c.packets) EXCEPT !.body.of = b.of, !.body.len = b.len])

(* A file that has left the list was read to its end. *)
Places(c, f) == {i \in DOMAIN c.files : c.files[i].file = f}

Position(c, f) ==
    IF Places(c, f) = {} THEN FileSize[f] ELSE c.files[FirstOf(Places(c, f))].pos

(* A file too large that send() took off the list is where it was told.    *)
Opened(c, b) ==
    [file |-> b.of,
     pos |-> IF Places(c, b.of) = {} /\ b.of \in Oversize THEN b.off ELSE Position(c, b.of)]

(* fl->read(data): the offset was told before. *)
ReadInto(c, b) == [b EXCEPT !.len = ChunkOf(Opened(c, b)).len]

AfterRead(c, f) ==
    IF Places(c, f) = {} THEN c
    ELSE [c EXCEPT !.files[FirstOf(Places(c, f))] = Advanced(@)]

(* m_session->send(buff()) for the i-th packet: one more write in flight,  *)
(* or a null pointer dereferenced.  front() of an empty list may be used   *)
(* without notice.                                                         *)
Send(i) ==
    IF client.session = None \/ client.packets = <<>>
      THEN /\ \/ crashed' = TRUE
              \/ client.packets = <<>> /\ UNCHANGED crashed
           /\ UNCHANGED <<client, writing>>
      ELSE LET w == Written(client, i)
           IN  /\ client' = w.client
               /\ writing' = [writing EXCEPT ![client.session] = Append(@, w.frame)]
               /\ UNCHANGED crashed

NothingSent == UNCHANGED <<writing, crashed>>

-----------------------------------------------------------------------------
(* The host's thread: send(). *)

HostTurn == ~crashed /\ (locked => io = Idle)

(* Without a session, or when the file does not open, it changes nothing. *)
Call(x) ==
    /\ HostTurn /\ ui = Idle /\ x \notin asked
    /\ asked' = asked \cup {x}
    /\ UNCHANGED <<client, io, writing, reading, owed, made, again, crashed, delivered>>

(* Mutated form: without the test of m_session. *)
CallTextUnchecked(t) ==
    /\ Call(t)
    /\ ui' = At("push", Text(t))
    /\ accepted' = accepted \cup {t}

CallText(t) ==
    /\ Call(t)
    /\ client.session # None
    /\ ui' = At("push", Text(t))
    /\ accepted' = accepted \cup {t}

CallFile(f) ==
    /\ Call(f)
    /\ client.session # None
    /\ ui' = At("queue", [Blank EXCEPT !.of = f])
    /\ UNCHANGED accepted

HostAt(pc) ==
    /\ HostTurn /\ ui.pc = pc
    /\ UNCHANGED <<io, asked, reading, owed, made, again, delivered>>

Goes(pc) == ui' = [ui EXCEPT !.pc = pc]

FileQueue ==
    /\ HostAt("queue") /\ Goes("alone")
    /\ client' = [client EXCEPT !.files = Append(@, [file |-> ui.body.of, pos |-> 0])]
    /\ accepted' = accepted \cup {ui.body.of}
    /\ NothingSent

FileAlone ==
    /\ HostAt("alone")
    /\ IF Len(client.files) = 1 /\ client.packets = <<>> THEN Goes("tell") ELSE ui' = Idle
    /\ UNCHANGED <<client, accepted>> /\ NothingSent

(* A size that is negative as an int: the last file leaves the list. *)
FileTell ==
    /\ HostAt("tell")
    /\ IF ui.body.of \in Oversize
         THEN /\ ui' = Idle
              /\ client' = [client EXCEPT !.files = IF @ = <<>> THEN @ ELSE Front(@)]
         ELSE /\ ui' = At("read", [ui.body EXCEPT !.off = Position(client, ui.body.of)])
              /\ UNCHANGED client
    /\ UNCHANGED accepted /\ NothingSent

FileRead ==
    /\ HostAt("read")
    /\ ui' = At("push", ReadInto(client, ui.body))
    /\ client' = AfterRead(client, ui.body.of)
    /\ UNCHANGED accepted /\ NothingSent

HostPush ==
    /\ HostAt("push") /\ Goes("id")
    /\ client' = Pushed(client, ui.body)
    /\ UNCHANGED accepted /\ NothingSent

HostId ==
    /\ HostAt("id") /\ Goes("data")
    /\ client' = Named(client)
    /\ UNCHANGED accepted /\ NothingSent

HostData ==
    /\ HostAt("data") /\ Goes(IF ui.body.of \in Texts THEN "test" ELSE "send")
    /\ client' = Filled(client, ui.body)
    /\ UNCHANGED accepted /\ NothingSent

(* Mutated form: the packet is sent whatever waits before it. *)
TextTestAlways ==
    /\ HostAt("test")
    /\ IF client.packets # <<>> THEN Goes("send") ELSE ui' = Idle
    /\ UNCHANGED <<client, accepted>> /\ NothingSent

TextTest ==
    /\ HostAt("test")
    /\ IF Len(client.packets) = 1 THEN Goes("send") ELSE ui' = Idle
    /\ UNCHANGED <<client, accepted>> /\ NothingSent

HostSend ==
    /\ HostAt("send")
    /\ ui' = Idle
    /\ Send(1)
    /\ UNCHANGED accepted

HostStep ==
    \/ FileQueue \/ FileAlone \/ FileTell \/ FileRead
    \/ HostPush \/ HostId \/ HostData \/ TextTest \/ HostSend

-----------------------------------------------------------------------------
(* The io_service's thread: handle_write, after its test of m_session. *)

IoAt(pc) ==
    /\ ~crashed /\ io.pc = pc /\ (locked => ui = Idle)
    /\ UNCHANGED <<ui, asked, reading, owed, made, again, accepted, delivered>>

IoGoes(pc) == io' = [io EXCEPT !.pc = pc]

(* Mutated forms: it takes the last packet that was not sent; it always    *)
(* takes the front; it sends nothing.                                      *)
IoScanLast ==
    /\ IoAt("scan")
    /\ IF Unsent(client.packets) = {} THEN IoGoes("files") /\ UNCHANGED client /\ NothingSent
       ELSE /\ io' = Idle
            /\ Send(CHOOSE i \in Unsent(client.packets) : \A j \in Unsent(client.packets) : i >= j)

IoScanFront ==
    /\ IoAt("scan")
    /\ IF Unsent(client.packets) = {} THEN IoGoes("files") /\ UNCHANGED client /\ NothingSent
       ELSE io' = Idle /\ Send(1)

IoScanNothing == IoAt("scan") /\ io' = Idle /\ UNCHANGED client /\ NothingSent

(* The first packet that was not sent. *)
IoScan ==
    /\ IoAt("scan")
    /\ IF Unsent(client.packets) = {} THEN IoGoes("files") /\ UNCHANGED client /\ NothingSent
       ELSE io' = Idle /\ Send(FirstOf(Unsent(client.packets)))

IoFiles ==
    /\ IoAt("files")
    /\ IF client.files = <<>> THEN io' = Idle ELSE IoGoes("tell")
    /\ UNCHANGED client /\ NothingSent

(* m_send_files.front(), which send() may have removed since. *)
IoTell ==
    /\ IoAt("tell")
    /\ IF client.files = <<>>
         THEN crashed' = TRUE /\ UNCHANGED io
         ELSE /\ io' = At("read", [of |-> Head(client.files).file,
                                   off |-> Head(client.files).pos, len |-> 0])
              /\ UNCHANGED crashed
    /\ UNCHANGED <<client, writing>>

(* A piece; at the end of the file pop_front(), of whatever is the front.  *)
(* On an empty list it is modelled as doing nothing.                       *)
IoRead ==
    /\ IoAt("read")
    /\ io' = At("push", ReadInto(client, io.body))
    /\ client' = IF AtEof(Opened(client, io.body)) /\ client.files # <<>>
                   THEN [client EXCEPT !.files = Tail(@)]
                   ELSE AfterRead(client, io.body.of)
    /\ NothingSent

IoPush == IoAt("push") /\ IoGoes("id") /\ client' = Pushed(client, io.body) /\ NothingSent

IoId == IoAt("id") /\ IoGoes("data") /\ client' = Named(client) /\ NothingSent

IoData == IoAt("data") /\ IoGoes("send") /\ client' = Filled(client, io.body) /\ NothingSent

(* The FRONT of the list, whether it was sent before or not. *)
IoSend == IoAt("send") /\ io' = Idle /\ Send(1)

IoStep ==
    \/ IoScan \/ IoFiles \/ IoTell \/ IoRead
    \/ IoPush \/ IoId \/ IoData \/ IoSend

-----------------------------------------------------------------------------
(* The io_service's thread: the handlers. *)

IoTurn ==
    /\ ~crashed /\ io = Idle /\ (locked => ui = Idle)
    /\ UNCHANGED <<ui, asked, accepted>>

(* handle_write of the client c *)
HandleWrites(c) == io' = IF c.session = None THEN Idle ELSE At("scan", Blank)

Completed(c) == writing' = [writing EXCEPT ![c] = Tail(@)]

(* The first session is freed once it no longer reads and the client is on *)
(* another; a later one is kept by the client that was made for it and     *)
(* stays with the server (SlideServer).                                    *)
Freed(c) == c = 1 /\ c \notin reading /\ client.session # c

(* A write completed.  On a freed session the handler may still find the   *)
(* client in the freed memory, or not.                                     *)
WriteDone(c) ==
    /\ IoTurn /\ writing[c] # <<>>
    /\ Completed(c)
    /\ delivered' = delivered \cup {Head(writing[c]).body}
    /\ owed' = [owed EXCEPT ![c] = IF c \in reading THEN Append(@, Head(writing[c]).id) ELSE @]
    /\ \/ HandleWrites(client)
       \/ Freed(c) /\ UNCHANGED io
    /\ UNCHANGED <<client, reading, made, again, crashed>>

(* handle_close, whichever session the client is on by now. *)
Closed == client' = [client EXCEPT !.session = None]

WriteFail(c) ==
    /\ IoTurn /\ writing[c] # <<>>
    /\ Completed(c)
    /\ \/ Closed
       \/ Freed(c) /\ UNCHANGED client
    /\ UNCHANGED <<io, reading, owed, made, again, crashed, delivered>>

ReadFail(c) ==
    /\ IoTurn /\ c \in reading
    /\ Closed
    /\ reading' = reading \ {c}
    /\ owed' = [owed EXCEPT ![c] = <<>>]
    /\ UNCHANGED <<io, writing, made, again, crashed, delivered>>

(* handle_recv finds that what is buffered does not start with 0xFF; the   *)
(* session goes on reading.                                                *)
BadFrame(c) ==
    /\ IoTurn /\ c \in reading /\ client.session # None
    /\ Closed
    /\ UNCHANGED <<io, writing, reading, owed, made, again, crashed, delivered>>

(* handle_recv of a packet with flag_ack. *)
RecvAck(c) ==
    /\ IoTurn /\ owed[c] # <<>>
    /\ client' = [client EXCEPT !.packets = Acknowledged(@, Head(owed[c]))]
    /\ owed' = [owed EXCEPT ![c] = Tail(@)]
    /\ UNCHANGED <<io, writing, reading, made, again, crashed, delivered>>

MoreLogins == made + again <= MaxLogins

(* The device logs in over its next connection.  The packets that          *)
(* client::handle_login resets are those of the client that was made for   *)
(* that connection, and it has none: this client's keep their frames.      *)
Relogin(c) ==
    /\ IoTurn /\ c = made + 1 /\ MoreLogins
    /\ made' = c
    /\ reading' = reading \cup {c}
    /\ client' = [client EXCEPT !.session = c]
    /\ HandleWrites(client')
    /\ UNCHANGED <<writing, owed, again, crashed, delivered>>

(* A second login over a connection that already serves this client: it is *)
(* this client's packets that are reset, and its own session, which may be *)
(* gone, that it is given again.                                           *)
LoginAgain(c) ==
    /\ IoTurn /\ c \in reading /\ MoreLogins
    /\ again' = again + 1
    /\ client' = [client EXCEPT !.packets = ResetAll(@)]
    /\ crashed' = (client.session = None)
    /\ HandleWrites(client)
    /\ UNCHANGED <<writing, reading, owed, made, delivered>>

-----------------------------------------------------------------------------
Host ==
    \/ \E t \in Texts : CallText(t)
    \/ \E f \in Files : CallFile(f)
    \/ HostStep

Handler ==
    \E c \in Conn :
        \/ WriteDone(c) \/ WriteFail(c)
        \/ ReadFail(c) \/ BadFrame(c) \/ RecvAck(c)
        \/ Relogin(c) \/ LoginAgain(c)

(* The identifiers an acknowledgement may still come for. *)
Outstanding ==
    {client.packets[i].id : i \in DOMAIN client.packets}
        \cup (UNION {{owed[c][i] : i \in DOMAIN owed[c]} : c \in Conn})
        \cup (UNION {{writing[c][i].id : i \in DOMAIN writing[c]} : c \in Conn})

Filling(thread) == thread.pc \in {"id", "data"}

Noted ==
    /\ raced' = \/ raced
                \/ Filling(ui) /\ io.pc = "scan" /\ io' # io
                \/ Filling(io) /\ ui.pc = "send" /\ ui' # ui
                \/ (Filling(ui) /\ Filling(io))'
                \/ (ui.pc = "read" /\ io.pc = "read")'
                \/ ui.pc = "tell" /\ io.pc = "read" /\ client' # client
    /\ overtaken' = /\ ui' # Idle
                    /\ \/ overtaken
                       \/ io' # io /\ \E c \in Conn : Len(writing'[c]) > Len(writing[c])
                       \/ \E i \in Unsent(client.packets) :
                             client'.packets = RemoveAt(client.packets, i)
    /\ reused' = (reused \/ (client'.id # client.id /\ client'.id \in Outstanding))
    /\ UNCHANGED locked

Next == (Host \/ IoStep \/ Handler) /\ Noted

(* A write that was started ends, well or badly, and both threads go on    *)
(* with what they have begun; nothing else has to happen: the host may     *)
(* send nothing more, the device may never acknowledge, fail or come back. *)
Fairness ==
    /\ \A c \in Conn : WF_vars((WriteDone(c) \/ WriteFail(c)) /\ Noted)
    /\ WF_vars(HostStep /\ Noted)
    /\ WF_vars(IoStep /\ Noted)

Spec == Init /\ [][Next]_vars /\ Fairness

-----------------------------------------------------------------------------
Statements ==
    {"idle", "scan", "files", "queue", "alone", "tell", "read", "push", "id", "data", "test", "send"}

TypeOK ==
    /\ client \in Client(Conn)
    /\ {ui, io} \subseteq [pc : Statements, body : Body]
    /\ writing \in [Conn -> Seq(Frame)]
    /\ owed \in [Conn -> Seq(0 .. MaxId)]
    /\ reading \subseteq 1 .. made
    /\ made \in Conn

(* The packets that were sent come first in the list: the pump of          *)
(* handle_write never overtakes a packet, whatever the two threads, the    *)
(* acknowledgements, the resets and the logins do to the list.             *)
SentPrefix ==
    \A i, j \in DOMAIN client.packets :
        i < j /\ Sent(client.packets[j]) => Sent(client.packets[i])

(* The bodies in the list, carried by a write or still in a thread's hands. *)
Kept ==
    {client.packets[i].body : i \in DOMAIN client.packets} \cup delivered \cup {ui.body, io.body}

(* Nothing send() accepted gets lost, and the pieces of a file leave no    *)
(* gap, on every interleaving and over every reconnection, but for two     *)
(* cases: the threads met in a packet or in a file they read (raced); the   *)
(* 16 bits of the identifier wrapped to that of a packet that still waited *)
(* for its acknowledgement.  Files too large for an int are exempt.        *)
NothingLost ==
    raced \/ reused \/ \A x \in accepted \ Oversize :
        IF x \in Texts
          THEN Text(x) \in Kept
          ELSE \A o \in 0 .. Position(client, x) - 1 :
                 \E b \in Kept : b.of = x /\ b.off <= o /\ o < b.off + b.len

(* No write is in flight and none is about to be started. *)
Quiet ==
    /\ \A c \in Conn : writing[c] = <<>>
    /\ io = Idle
    /\ ui.pc \notin {"tell", "read", "send"}
    /\ ui.body.of \in Files => ui.pc \in {"queue", "alone"}

(* Something is not sent, and not what send() may still find alone. *)
Stranded ==
    Quiet /\ \E i \in Unsent(client.packets) :
                ui.pc \in {"id", "data", "test"} => i < Len(client.packets)

(* A stranded packet waits for a login: neither another send() nor the     *)
(* acknowledgement that empties the list before it starts a write.  But    *)
(* an acknowledgement may remove it.                                       *)
StrandedNeedsLogin ==
    [][Stranded => \/ made' # made \/ again' # again
                   \/ Quiet' /\ (Stranded' \/ owed' # owed)]_vars

(* What a step puts in flight on a connection. *)
Started(c) == {writing'[c][i] : i \in Len(writing[c]) + 1 .. Len(writing'[c])}

(* What goes out was not sent before, or was reset by a login over the     *)
(* same connection, but for two cases: handle_write has read a piece of a  *)
(* file and sends the front of the list in its place; and send() was       *)
(* overtaken by the other thread.  So a packet whose connection died is    *)
(* not sent again when the device is back.                                 *)
ResendsOnlyFront ==
    [][\A c \in Conn : Started(c) # {} =>
            \/ \E i \in Unsent(client.packets) : Started(c) = {client'.packets[i].frame}
            \/ /\ io.pc = "send" \/ (ui.pc = "send" /\ overtaken)
               /\ Started(c) = {client'.packets[1].frame}]_vars

(* Called on the io_service's thread, as long as the device keeps its      *)
(* first connection and logs in once, send() keeps the rule async_write    *)
(* has, one write at a time on a socket, unless an identifier is reused:   *)
(* the packet that is alone in the list when it is pushed has no other in  *)
(* flight before it.                                                       *)
OneWrite ==
    locked /\ made = 1 /\ again = 0 /\ ~reused => \A c \in Conn : Len(writing[c]) <= 1

(* Called on the io_service's thread, send() never uses the session after  *)
(* it is lost: handle_close cannot come between the test of m_session and  *)
(* its use.                                                                *)
NullNeverUsed == locked /\ again = 0 => ~crashed

(* While a write is in flight on a session that lives, the pump runs until *)
(* every packet was sent and every file read, or the session is lost.      *)
PumpDrains ==
    (client.session # None /\ (\E c \in reading : writing[c] # <<>>))
        ~> (client.session = None \/ crashed
              \/ (Unsent(client.packets) = {} /\ client.files = <<>>))
=============================================================================
