----------------------------- MODULE SlideServer -----------------------------
(***************************************************************************)
(* server.h and session.h: the sessions of all connections, the clients    *)
(* made for them, and the registry in which a device that comes back finds *)
(* the client it had.  Every handler runs on the io_service's thread and   *)
(* is one action; send() is called on the same thread here (ClientPump is  *)
(* about what happens when it is not).                                     *)
(*                                                                         *)
(* The c-th connection that is accepted gives the session c and the client *)
(* c.  A session points to the client that gets its events (m_client, a    *)
(* raw pointer), a client to the session it sends on (m_session), and a    *)
(* login moves these pointers.                                             *)
(***************************************************************************)
EXTENDS SlideClient, FiniteSets

CONSTANTS
    Device,     \* the devices that connect
    Ip,         \* [Device -> addresses]
    Name,       \* [Device -> the name it reports]
    Alias,      \* [Device -> a name it may report in a later login]
    Key(_, _),  \* ip + name: the concatenation the registry compares
    Dest,       \* [Texts \cup Files -> Device]: whom the host means it for
    NConn       \* bound: connections accepted, logins repeated over one (the
                \* app repeats none) and files sent, together

ASSUME SlideServerAssumption ==
    /\ NConn \in Nat \ {0}
    /\ None \notin 1 .. NConn
    /\ Dest \in [Texts \cup Files -> Device]

Conn == 1 .. NConn

VARIABLES
    opened,     \* connections accepted so far
    accepting,  \* an accept is pending
    device,     \* [Conn -> Device or None]: who is at the other end
    reading,    \* sessions with an armed read
    m_client,   \* per session: the client its events go to
    clients,    \* per client: its record (SlideClient)
    key,        \* per client: ip + name, None before a login names it
    m_sessions, \* clients the server keeps since they were accepted
    m_clients,  \* the registry, in order of first login
    logins,     \* per session: logins received
    writing,    \* per session: frames of the writes in flight
    owed,       \* per session: ids of delivered frames not acknowledged
    asked,      \* texts and files the host has sent
    crashed,    \* a null m_session was dereferenced
    garbled,    \* history: a session received bytes that are no frame
    failed,     \* history: sessions whose own failure detached their client
    latest,     \* history, per client: the session of its latest login
    stale       \* history: clients of which an older session ended later

vars == <<opened, accepting, device, reading, m_client, clients, key, m_sessions,
          m_clients, logins, writing, owed, asked, crashed, garbled, failed, latest, stale>>

NewClient == [session |-> None, id |-> 0, packets |-> <<>>, files |-> <<>>]

Init ==
    /\ opened = 0
    /\ accepting = TRUE
    /\ device = [c \in Conn |-> None]
    /\ reading = {}
    /\ m_client = [c \in Conn |-> None]
    /\ clients = [c \in Conn |-> NewClient]
    /\ key = [c \in Conn |-> None]
    /\ m_sessions = {}
    /\ m_clients = <<>>
    /\ logins = [c \in Conn |-> 0]
    /\ writing = [c \in Conn |-> <<>>]
    /\ owed = [c \in Conn |-> <<>>]
    /\ asked = {}
    /\ crashed = FALSE
    /\ garbled = FALSE
    /\ failed = {}
    /\ latest = [c \in Conn |-> None]
    /\ stale = {}

(* What counts against the bound. *)
Again == {again \in Conn \X (2 .. NConn) : again[2] <= logins[again[1]]}
Room == opened + Cardinality(Again) + Cardinality(asked \cap Files) < NConn

-----------------------------------------------------------------------------
(* server::handle_accept *)
Accept(d) ==
    /\ ~crashed /\ accepting /\ Room
    /\ LET c == opened + 1 IN
       /\ opened' = c
       /\ device' = [device EXCEPT ![c] = d]
       /\ reading' = reading \cup {c}
       /\ clients' = [clients EXCEPT ![c].session = c]
       /\ m_client' = [m_client EXCEPT ![c] = c]
       /\ m_sessions' = m_sessions \cup {c}
    /\ UNCHANGED <<accepting, key, m_clients, logins, writing, owed, asked,
                   crashed, garbled, failed, latest, stale>>

(* An accept that fails is not followed by another. *)
AcceptFail ==
    /\ ~crashed /\ accepting
    /\ accepting' = FALSE
    /\ UNCHANGED <<opened, device, reading, m_client, clients, key, m_sessions,
                   m_clients, logins, writing, owed, asked, crashed, garbled,
                   failed, latest, stale>>

(* Mutated forms: only the client that registered last is looked at; only  *)
(* the address is compared.                                                *)
RegisteredLast(k) == {i \in DOMAIN m_clients : key[m_clients[i]] = k /\ i = Len(m_clients)}

RegisteredByIp(k) ==
    {i \in DOMAIN m_clients : \E d \in Device : k = Key(Ip[device[m_clients[i]]], Name[d])}

(* The client whose ip + name is k, the first in the registry. *)
Registered(k) == {i \in DOMAIN m_clients : key[m_clients[i]] = k}

(* What w, a result of HandleWrite for x, puts in flight on session s. *)
Flying(w, s) ==
    IF w.frame = None THEN writing ELSE [writing EXCEPT ![s] = Append(@, w.frame)]

(* Mutated forms of Rebind: the client made for the connection is removed  *)
(* and the session is left to it; the session is not handed to x; nothing  *)
(* is sent on the new session.                                             *)
RebindReleasing(k, x) ==
    LET s == clients[k].session IN
    /\ clients' = [clients EXCEPT ![x].session = s]
    /\ m_sessions' = m_sessions \ {k}
    /\ UNCHANGED <<key, m_clients, m_client, crashed, writing, latest, stale>>

RebindKeeping(k, x) ==
    /\ m_client' = [m_client EXCEPT ![clients[k].session] = x]
    /\ m_sessions' = m_sessions \ {x}
    /\ latest' = [latest EXCEPT ![x] = clients[k].session]
    /\ stale' = stale \ {x}
    /\ UNCHANGED <<key, m_clients, clients, crashed, writing>>

RebindSilent(k, x) ==
    /\ clients[k].session # None
    /\ clients' = [clients EXCEPT ![x].session = clients[k].session]
    /\ m_client' = [m_client EXCEPT ![clients[k].session] = x]
    /\ m_sessions' = m_sessions \ {x}
    /\ latest' = [latest EXCEPT ![x] = clients[k].session]
    /\ stale' = stale \ {x}
    /\ UNCHANGED <<key, m_clients, crashed, writing>>

(* A login of the client k under a key the registry has: that client, x,   *)
(* takes the session over and sends on it.  k stays in m_sessions: what    *)
(* remove_session takes off that list is x.                                *)
Rebind(k, x) ==
    LET s == clients[k].session IN
    /\ IF s = None
         THEN /\ crashed' = TRUE
              /\ UNCHANGED <<clients, m_client, m_sessions, writing, latest, stale>>
         ELSE LET reset == [clients EXCEPT ![k].packets = ResetAll(@)]
                  w == HandleWrite([reset[x] EXCEPT !.session = s])
              IN  /\ clients' = [reset EXCEPT ![x] = w.client]
                  /\ m_client' = [m_client EXCEPT ![s] = x]
                  /\ m_sessions' = m_sessions \ {x}
                  /\ writing' = Flying(w, s)
                  /\ latest' = [latest EXCEPT ![x] = s]
                  /\ stale' = stale \ {x}
                  /\ UNCHANGED crashed
    /\ UNCHANGED <<key, m_clients>>

(* A login under a key the registry has not: the client k is named and     *)
(* appended, even when it is in the registry already under another name.   *)
Register(k, name) ==
    /\ key' = [key EXCEPT ![k] = name]
    /\ m_clients' = Append(m_clients, k)
    /\ clients' = [clients EXCEPT ![k].packets = ResetAll(@)]
    /\ latest' = [latest EXCEPT ![k] = clients[k].session]
    /\ stale' = stale \ {k}
    /\ UNCHANGED <<m_client, m_sessions, writing, crashed>>

(* handle_recv of a cmd_report_name packet: client::handle_login, then     *)
(* server::handle_login.                                                   *)
Login(c) ==
    /\ ~crashed /\ c \in reading
    /\ logins[c] = 0 \/ Room
    /\ logins' = [logins EXCEPT ![c] = @ + 1]
    /\ \E n \in IF logins[c] = 0 THEN {Name[device[c]]}
                                 ELSE {Name[device[c]], Alias[device[c]]} :
          LET k == m_client[c]
              name == Key(Ip[device[k]], n)
          IN  IF Registered(name) # {}
                THEN Rebind(k, m_clients[FirstOf(Registered(name))])
                ELSE Register(k, name)
    /\ UNCHANGED <<opened, accepting, device, reading, owed, asked, garbled, failed>>

-----------------------------------------------------------------------------
(* client::handle_close, of the client the session c points to. *)
Close(c) ==
    LET x == m_client[c] IN
    /\ clients' = [clients EXCEPT ![x].session = None]
    /\ failed' = IF clients[x].session = c THEN failed \cup {c} ELSE failed
    /\ stale' = IF clients[x].session \notin {c, None} THEN stale \cup {x} ELSE stale

(* Mutated form: the read is armed again. *)
ReadFailRearmed(c) ==
    /\ ~crashed /\ c \in reading
    /\ Close(c)
    /\ UNCHANGED <<opened, accepting, device, reading, m_client, key, m_sessions, m_clients,
                   logins, writing, owed, asked, crashed, garbled, latest>>

(* handle_read with an error: the read is not armed again. *)
ReadFail(c) ==
    /\ ~crashed /\ c \in reading
    /\ Close(c)
    /\ reading' = reading \ {c}
    /\ UNCHANGED <<opened, accepting, device, m_client, key, m_sessions, m_clients,
                   logins, writing, owed, asked, crashed, garbled, latest>>

(* handle_recv of bytes that do not start a frame; the read is armed again. *)
BadFrame(c) ==
    /\ ~crashed /\ c \in reading
    /\ Close(c)
    /\ garbled' = TRUE
    /\ UNCHANGED <<opened, accepting, device, reading, m_client, key, m_sessions,
                   m_clients, logins, writing, owed, asked, crashed, latest>>

(* handle_recv of a packet with flag_ack. *)
RecvAck(c) ==
    /\ ~crashed /\ c \in reading /\ owed[c] # <<>>
    /\ clients' = [clients EXCEPT ![m_client[c]].packets = Acknowledged(@, Head(owed[c]))]
    /\ owed' = [owed EXCEPT ![c] = Tail(@)]
    /\ UNCHANGED <<opened, accepting, device, reading, m_client, key, m_sessions,
                   m_clients, logins, writing, asked, crashed, garbled, failed, latest, stale>>

Completed(c) == [writing EXCEPT ![c] = Tail(@)]

(* Nothing refers to the session any more.  (The clients that stay behind  *)
(* in m_sessions still refer to theirs.)                                   *)
Freed(c) == c \notin reading /\ \A k \in Conn : clients[k].session # c

(* session::handle_write without an error.  The write holds a raw pointer: *)
(* on a session that was freed the handler may still find the client in    *)
(* the freed memory, or not.                                               *)
WriteDone(c) ==
    /\ ~crashed /\ writing[c] # <<>>
    /\ owed' = [owed EXCEPT ![c] = Append(@, Head(writing[c]).id)]
    /\ LET x == m_client[c]
           w == HandleWrite(clients[x])
       IN  \/ /\ clients' = [clients EXCEPT ![x] = w.client]
              /\ writing' = IF w.frame = None THEN Completed(c)
                            ELSE [Completed(c) EXCEPT ![clients[x].session] = Append(@, w.frame)]
           \/ /\ Freed(c)
              /\ writing' = Completed(c)
              /\ UNCHANGED clients
    /\ UNCHANGED <<opened, accepting, device, reading, m_client, key, m_sessions,
                   m_clients, logins, asked, crashed, garbled, failed, latest, stale>>

(* session::handle_write with an error. *)
WriteFail(c) ==
    /\ ~crashed /\ writing[c] # <<>>
    /\ writing' = Completed(c)
    /\ \/ Close(c)
       \/ Freed(c) /\ UNCHANGED <<clients, failed, stale>>
    /\ UNCHANGED <<opened, accepting, device, reading, m_client, key, m_sessions,
                   m_clients, logins, owed, asked, crashed, garbled, latest>>

-----------------------------------------------------------------------------
(* client::send of a text or of a file, to the registered client x. *)
SendText(x, t) ==
    LET id == NextId(clients[x].id)
        pushed == [clients[x] EXCEPT !.id = id,
                     !.packets = Append(@, NewPacket(id, Text(t)))]
        w == IF Len(pushed.packets) = 1 THEN Written(pushed, 1) ELSE Nothing(pushed)
    IN  /\ clients' = [clients EXCEPT ![x] = w.client]
        /\ writing' = Flying(w, clients[x].session)

SendFile(x, f) ==
    LET queued == [clients[x] EXCEPT !.files = Append(@, [file |-> f, pos |-> 0])]
        first == Len(queued.files) = 1 /\ queued.packets = <<>>
        w == IF first THEN IF f \in Oversize THEN Nothing(clients[x])
                                             ELSE Written(FirstChunk(queued), 1)
                      ELSE Nothing(queued)
    IN  /\ clients' = [clients EXCEPT ![x] = w.client]
        /\ writing' = Flying(w, clients[x].session)

(* The host picks the client by the address and name it shows. *)
HostSend(x, what) ==
    /\ ~crashed /\ what \notin asked /\ (what \in Texts \/ Room)
    /\ x \in ToSet(m_clients)
    /\ key[x] = Key(Ip[Dest[what]], Name[Dest[what]])
    /\ asked' = asked \cup {what}
    /\ IF clients[x].session = None THEN UNCHANGED <<clients, writing>>
       ELSE IF what \in Texts THEN SendText(x, what)
       ELSE SendFile(x, what)
    /\ UNCHANGED <<opened, accepting, device, reading, m_client, key, m_sessions,
                   m_clients, logins, owed, crashed, garbled, failed, latest, stale>>

-----------------------------------------------------------------------------
Next ==
    \/ \E d \in Device : Accept(d)
    \/ AcceptFail
    \/ \E c \in Conn :
          \/ Login(c) \/ ReadFail(c) \/ BadFrame(c) \/ RecvAck(c)
          \/ WriteDone(c) \/ WriteFail(c)
    \/ \E x \in Conn, what \in Texts \cup Files : HostSend(x, what)

Spec == Init /\ [][Next]_vars

-----------------------------------------------------------------------------
TypeOK ==
    /\ opened \in 0 .. NConn
    /\ accepting \in BOOLEAN /\ crashed \in BOOLEAN /\ garbled \in BOOLEAN
    /\ device \in [Conn -> Device \cup {None}]
    /\ reading \subseteq 1 .. opened
    /\ m_client \in [Conn -> Conn \cup {None}]
    /\ m_sessions \subseteq 1 .. opened
    /\ m_clients \in Seq(1 .. opened)
    /\ clients \in [Conn -> Client(Conn)]
    /\ writing \in [Conn -> Seq(Frame)]
    /\ owed \in [Conn -> Seq(0 .. MaxId)]

(* No client is ever released: each stays in m_sessions or in the          *)
(* registry.  So the raw pointer of a session never dangles; and so the    *)
(* client made for every reconnection is kept, with its session, for good. *)
EveryClientKept ==
    /\ 1 .. opened \subseteq m_sessions \cup ToSet(m_clients)
    /\ \A c \in 1 .. opened : m_client[c] \in m_sessions \cup ToSet(m_clients)

(* As long as no connection logs in twice, an address and name is in the   *)
(* registry once: however devices drop and return, the host sees each of   *)
(* them as one client.                                                     *)
RegistryUnique ==
    (\A c \in Conn : logins[c] <= 1) =>
        \A i, j \in DOMAIN m_clients : i # j => key[m_clients[i]] # key[m_clients[j]]

(* A registered client is on the session of its latest login, or on none   *)
(* because that session failed, or, the case nobody wants, because an      *)
(* older session of the device ended after the device had come back.       *)
OnLatestSession ==
    \A i \in DOMAIN m_clients :
        LET x == m_clients[i] IN
        \/ clients[x].session = latest[x]
        \/ clients[x].session = None /\ (latest[x] \in failed \/ x \in stale)

(* What the host means for a device goes out on a connection of that       *)
(* device, even when devices share an address and when the frame is put in *)
(* flight by the completion of another connection's write.                 *)
ReachesItsDevice ==
    \A c \in Conn : \A i \in DOMAIN writing[c] :
        writing[c][i].body.of # None => device[c] = Dest[writing[c][i].body.of]

(* The server dereferences no null session, in any order of failures,      *)
(* completions and reconnections, while devices send well-formed frames    *)
(* and log in once per connection.                                         *)
CrashNeedsBadInput == crashed => garbled \/ \E c \in Conn : logins[c] > 1

(* A login that finds the device's client puts its first packet that was   *)
(* not sent in flight on the new session.                                  *)
ReloginResumes ==
    [][\A i \in DOMAIN m_clients :
          LET x == m_clients[i]
              s == clients'[x].session
          IN  /\ s \notin {clients[x].session, None}
              /\ Unsent(clients[x].packets) # {}
              => Len(writing'[s]) > Len(writing[s])]_vars
=============================================================================
