--------------------------- MODULE UdpServiceProofs ---------------------------
(***************************************************************************)
(* The service of the remote control for any number of datagrams,          *)
(* terminals, starts and workers, and for every interleaving of the UI     *)
(* thread with the workers.                                                *)
(***************************************************************************)
EXTENDS UdpService, SequenceTheorems, TLAPS

Item == [d : Datagram \union {None}, known : BOOLEAN, seen : Seq(Datagram)]

Handling == {"judge", "load", "store", "act"}

\* The type invariant, with the workers' items as functions.
Typed ==
    /\ ui \in {"idle", "stopping", "reading", "saving", "clearing", "filling", "gone"}
    /\ after \in {"idle", "start", "gone"}
    /\ m_start \in BOOLEAN /\ m_udp \in {"open", "closed"}
    /\ m_termina \subseteq Terminal /\ config \subseteq Terminal
    /\ m_strLog \in Seq(Datagram) /\ box \in Seq(Datagram)
    /\ m_bSaveLog \in BOOLEAN /\ tick \in BOOLEAN
    /\ inbox \subseteq Datagram
    /\ posted \in Seq([d : Datagram, run : BOOLEAN, by : Worker])
    /\ pc \in [Worker -> {"new", "hello", "top", "recv", "judge", "load", "store",
                          "act", "wait", "dead"}]
    /\ item \in [Worker -> Item]
    /\ \A w \in Worker : item[w].d # None <=> pc[w] \in Handling
    /\ lastFile \subseteq Datagram /\ files \subseteq Datagram /\ replaced \subseteq Datagram
    /\ received \in Seq(Datagram) /\ ran \in Seq(Datagram)
    /\ replied \in [Datagram -> Nat]
    /\ shown \subseteq Datagram /\ fresh \subseteq Datagram
    /\ overlapped \in BOOLEAN /\ edited \in BOOLEAN /\ late \in BOOLEAN
    /\ notice \in [Terminal -> {"none", "online", "offline"}]

Saved == FirstConfig \union UNION Configs

\* Where a received datagram is: with one worker, or in one queued call, or done with.
\* It is answered when it leaves, and it arrives no second time.
Ledger ==
    /\ inbox \intersect Range(received) = {}
    /\ \A d \in Datagram : replied[d] <= 1 /\ (replied[d] # 0 => d \in Range(received))
    /\ \A w \in Worker : item[w].d # None =>
          item[w].d \in Range(received) /\ replied[item[w].d] = 0
    /\ \A w, v \in Worker : item[w].d # None /\ item[w].d = item[v].d => w = v
    /\ \A i \in DOMAIN posted :
          /\ posted[i].d \in Range(received) /\ replied[posted[i].d] = 0
          /\ \A w \in Worker : item[w].d # posted[i].d
          /\ \A j \in DOMAIN posted : posted[i].d = posted[j].d => i = j

\* Only a saved terminal is taken for known, whatever the list looks like.
Senders ==
    /\ m_termina \subseteq Saved /\ config \subseteq Saved
    /\ \A w \in Worker :
          /\ pc[w] \notin {"load", "store", "act"} => ~item[w].known
          /\ item[w].known => From[item[w].d] \in Saved
    /\ \A i \in DOMAIN posted : posted[i].run => From[posted[i].d] \in Saved
    /\ \A d \in Datagram : replied[d] # 0 => From[d] \in Saved

\* No two workers have been alive at once.
Single == \A w, v \in Worker : Alive(w) /\ Alive(v) => w = v

\* What ran, what is queued and what the worker has come in the order of receipt.
Queued ==
    /\ Range(ran) \subseteq Range(received)
    /\ \A d, e \in Datagram : Before(ran, d, e) => Before(received, d, e)
    /\ \A i \in DOMAIN posted :
          /\ \A d \in Range(ran) : Before(received, d, posted[i].d)
          /\ \A j \in DOMAIN posted : i < j => Before(received, posted[i].d, posted[j].d)
    /\ \A w \in Worker : item[w].d # None =>
          /\ \A d \in Range(ran) : Before(received, d, item[w].d)
          /\ \A i \in DOMAIN posted : Before(received, posted[i].d, item[w].d)

\* What is on the screen is in m_strLog, and in what a worker is about to add to.
Filed == files \union lastFile \union replaced

Screen ==
    /\ shown \subseteq Range(box) \union Filed
    /\ Range(box) \subseteq Range(m_strLog)
    /\ \A w \in Worker : pc[w] = "store" => Range(m_strLog) \subseteq Range(item[w].seen)
    /\ ui = "clearing" => Range(box) \subseteq Filed

Logged == m_start => fresh \subseteq Range(m_strLog)

\* m_start and the socket; between handlers the terminals are those of the configuration.
Served ==
    /\ m_udp = "open" => m_start
    /\ m_start => ui \in {"idle", "stopping", "filling"}
    /\ ui = "filling" /\ after # "idle" => ~m_start

Told ==
    ~edited =>
        /\ m_start => ui # "filling"
        /\ ui # "filling" => m_termina = config
        /\ m_termina \subseteq config
        /\ ~late =>
             /\ m_udp = "closed" \/ ui = "stopping" => \A t \in config : notice[t] # "online"
             /\ m_udp = "open" /\ ui = "idle" /\ (\A w \in Worker : pc[w] # "hello") =>
                    \A t \in config : notice[t] = "online"

Calm == ~overlapped => Single /\ Queued /\ Screen /\ Logged

IInv == Typed /\ Ledger /\ Senders /\ Calm /\ Served /\ Told

-------------------------------------------------------------------------------
(* Sequences. *)

LEMMA Appended ==
    ASSUME NEW S, NEW s \in Seq(S), NEW x \in S
    PROVE  /\ Append(s, x) \in Seq(S)
           /\ Len(s) \in Nat /\ DOMAIN s = 1 .. Len(s)
           /\ DOMAIN Append(s, x) = 1 .. Len(s) + 1
           /\ \A i \in 1 .. Len(s) : Append(s, x)[i] = s[i]
           /\ Append(s, x)[Len(s) + 1] = x
           /\ Range(Append(s, x)) = Range(s) \union {x}
<1>1. /\ Append(s, x) \in Seq(S) /\ Len(s) \in Nat /\ DOMAIN s = 1 .. Len(s)
      /\ DOMAIN Append(s, x) = 1 .. Len(s) + 1
      /\ \A i \in 1 .. Len(s) : Append(s, x)[i] = s[i]
      /\ Append(s, x)[Len(s) + 1] = x
  BY LenProperties, AppendProperties
<1> DEFINE q == Append(s, x)
<1> HIDE DEF q
<1>2. Range(q) = Range(s) \union {x}
  <2>1. ASSUME NEW y \in Range(q) PROVE y \in Range(s) \union {x}
    <3>1. PICK i \in 1 .. Len(s) + 1 : q[i] = y
      BY <1>1 DEF Range, q
    <3>2. i \in 1 .. Len(s) \/ i = Len(s) + 1
      BY <1>1
    <3> QED BY <1>1, <3>1, <3>2 DEF Range, q
  <2>2. ASSUME NEW y \in Range(s) \union {x} PROVE y \in Range(q)
    <3>1. CASE y = x
      <4>1. Len(s) + 1 \in 1 .. Len(s) + 1
        BY <1>1
      <4> QED BY <1>1, <3>1, <4>1 DEF Range, q
    <3>2. CASE y \in Range(s)
      <4>1. PICK i \in 1 .. Len(s) : s[i] = y
        BY <1>1, <3>2 DEF Range
      <4>2. i \in 1 .. Len(s) + 1
        BY <1>1
      <4> QED BY <1>1, <4>1, <4>2 DEF Range, q
    <3> QED BY <2>2, <3>1, <3>2
  <2> QED BY <2>1, <2>2
<1> QED BY <1>1, <1>2 DEF q

LEMMA Tailed ==
    ASSUME NEW S, NEW s \in Seq(S), s # <<>>
    PROVE  /\ Head(s) \in S /\ Head(s) = s[1] /\ 1 \in DOMAIN s
           /\ Tail(s) \in Seq(S)
           /\ Len(s) \in Nat /\ DOMAIN s = 1 .. Len(s) /\ DOMAIN Tail(s) = 1 .. Len(s) - 1
           /\ \A i \in 1 .. Len(s) - 1 : Tail(s)[i] = s[i + 1] /\ i + 1 \in DOMAIN s
<1>1. /\ Head(s) \in S /\ Tail(s) \in Seq(S) /\ Len(Tail(s)) = Len(s) - 1
      /\ \A i \in 1 .. Len(Tail(s)) : Tail(s)[i] = s[i + 1]
  BY HeadTailProperties
<1>2. Len(s) \in Nat /\ DOMAIN s = 1 .. Len(s) /\ DOMAIN Tail(s) = 1 .. Len(s) - 1
  BY <1>1, LenProperties
<1>3. Len(s) # 0 /\ Head(s) = s[1]
  BY EmptySeq
<1> QED BY <1>1, <1>2, <1>3

LEMMA EmptyRange == ASSUME NEW S PROVE <<>> \in Seq(S) /\ Range(<<>>) = {} /\ DOMAIN <<>> = {}
BY EmptySeq DEF Range

\* A sequence that grows keeps its order and what it had comes before what is new.
LEMMA BeforeGrows ==
    ASSUME NEW S, NEW s \in Seq(S), NEW x \in S, NEW d, NEW e
    PROVE  /\ Before(s, d, e) => Before(Append(s, x), d, e)
           /\ d \in Range(s) => Before(Append(s, x), d, x)
           /\ Before(Append(s, x), d, e) => Before(s, d, e) \/ (d \in Range(s) /\ e = x)
<1> DEFINE q == Append(s, x)
<1>1. /\ Len(s) \in Nat /\ DOMAIN s = 1 .. Len(s) /\ DOMAIN q = 1 .. Len(s) + 1
      /\ \A i \in 1 .. Len(s) : q[i] = s[i]
      /\ q[Len(s) + 1] = x
  BY Appended
<1> HIDE DEF q
<1>2. ASSUME Before(s, d, e) PROVE Before(q, d, e)
  <2>1. PICK i, j \in 1 .. Len(s) : i < j /\ s[i] = d /\ s[j] = e
    BY <1>1, <1>2 DEF Before
  <2>2. i \in 1 .. Len(s) + 1 /\ j \in 1 .. Len(s) + 1
    BY <1>1
  <2> QED BY <1>1, <2>1, <2>2 DEF Before
<1>3. ASSUME d \in Range(s) PROVE Before(q, d, x)
  <2>1. PICK i \in 1 .. Len(s) : s[i] = d
    BY <1>1, <1>3 DEF Range
  <2>2. i \in 1 .. Len(s) + 1 /\ Len(s) + 1 \in 1 .. Len(s) + 1 /\ i < Len(s) + 1
    BY <1>1
  <2> QED BY <1>1, <2>1, <2>2 DEF Before
<1>4. ASSUME Before(q, d, e) PROVE Before(s, d, e) \/ (d \in Range(s) /\ e = x)
  <2>1. PICK i, j \in 1 .. Len(s) + 1 : i < j /\ q[i] = d /\ q[j] = e
    BY <1>1, <1>4 DEF Before
  <2>2. i \in 1 .. Len(s) /\ s[i] = d
    BY <1>1, <2>1
  <2>3. CASE j = Len(s) + 1
    BY <1>1, <2>1, <2>2, <2>3 DEF Range
  <2>4. CASE j # Len(s) + 1
    <3>1. j \in 1 .. Len(s) /\ s[j] = e /\ i \in DOMAIN s /\ j \in DOMAIN s /\ i < j
      BY <1>1, <2>1, <2>2, <2>4
    <3> QED BY <2>2, <3>1 DEF Before
  <2> QED BY <2>3, <2>4
<1> QED BY <1>2, <1>3, <1>4 DEF q

-------------------------------------------------------------------------------
(* Types. *)

LEMMA InitTyped == Init => Typed
<1> SUFFICES ASSUME Init PROVE Typed
  OBVIOUS
<1> USE DEF Init
<1>1. /\ m_strLog \in Seq(Datagram) /\ box \in Seq(Datagram) /\ received \in Seq(Datagram)
      /\ ran \in Seq(Datagram) /\ posted \in Seq([d : Datagram, run : BOOLEAN, by : Worker])
  BY EmptySeq
<1>2. NoItem \in Item /\ NoItem.d = None
  BY EmptySeq DEF NoItem, Item
<1>3. item \in [Worker -> Item] /\ \A w \in Worker : item[w].d # None <=> pc[w] \in Handling
  BY <1>2 DEF Handling
<1> QED BY <1>1, <1>3, ServiceAssumption DEF Typed

LEMMA UiTyped ==
    ASSUME Typed, User \/ Handler
    PROVE  Typed'
<1> USE DEF Typed, members, controls, disk, history
<1>1. CASE ClickStop \/ Exit
  BY <1>1 DEF ClickStop, Exit, BeginStop, Notify
<1>2. CASE ClickStart
  BY <1>2 DEF ClickStart, UpdateDataTrue, ClearTerminals
<1>3. CASE ClickTick
  BY <1>3 DEF ClickTick
<1>4. ASSUME NEW c \in Configs, EditTerminals(c) PROVE Typed'
  <2>1. c \subseteq Terminal
    BY ServiceAssumption
  <2> QED BY <1>4, <2>1 DEF EditTerminals, ClearTerminals
<1>5. CASE CloseSocket
  BY <1>5 DEF CloseSocket, ClearTerminals
<1>6. CASE ReadControls
  BY <1>6 DEF ReadControls, UpdateDataTrue
<1>7. CASE SaveLog
  <2>1. Range(m_strLog) \subseteq Datagram
    BY ElementOfSeq, LenProperties DEF Range
  <2> QED BY <1>7, <2>1 DEF SaveLog
<1>8. CASE SkipSaving
  BY <1>8 DEF SkipSaving
<1>9. CASE ClearLog
  BY <1>9, EmptySeq DEF ClearLog
<1>10. CASE PushTerminal
  BY <1>10 DEF PushTerminal
<1>11. CASE SettingSaved
  BY <1>11 DEF SettingSaved
<1>12. CASE Start
  BY <1>12 DEF Start, Handling
<1> QED BY <1>1, <1>2, <1>3, <1>4, <1>5, <1>6, <1>7, <1>8, <1>9, <1>10, <1>11, <1>12
        DEF User, Handler

LEMMA RunCallTyped == ASSUME Typed, RunCall PROVE Typed'
<1> DEFINE call == Head(posted)
<1>1. /\ call \in [d : Datagram, run : BOOLEAN, by : Worker]
      /\ Tail(posted) \in Seq([d : Datagram, run : BOOLEAN, by : Worker])
  BY Tailed DEF RunCall, Typed
<1>2. Append(ran, call.d) \in Seq(Datagram)
  BY <1>1, Appended DEF Typed
<1>3. Range(m_strLog) \subseteq Datagram
  BY ElementOfSeq, LenProperties DEF Range, Typed
<1> HIDE DEF call
<1>4. /\ posted' = Tail(posted)
      /\ ran' = IF call.run THEN Append(ran, call.d) ELSE ran
      /\ replied' = [replied EXCEPT ![call.d] = IF call.run /\ m_udp = "open" THEN @ + 1 ELSE @]
      /\ pc' = [pc EXCEPT ![call.by] = IF @ = "wait" THEN "top" ELSE @]
      /\ box' = m_strLog /\ tick' = m_bSaveLog /\ shown' = shown \union Range(m_strLog)
      /\ UNCHANGED <<ui, after, members, config, inbox, item, disk, received, fresh,
                     overlapped, edited, late, notice>>
  BY DEF RunCall, UpdateDataFalse, call
<1>5. /\ pc' \in [Worker -> {"new", "hello", "top", "recv", "judge", "load", "store", "act",
                             "wait", "dead"}]
      /\ \A w \in Worker : pc'[w] \in Handling <=> pc[w] \in Handling
  BY <1>1, <1>4 DEF Typed, Handling
<1>6. replied' \in [Datagram -> Nat]
  BY <1>1, <1>4 DEF Typed
<1>7. ran' \in Seq(Datagram)
  BY <1>2, <1>4 DEF Typed
<1> QED BY <1>1, <1>3, <1>4, <1>5, <1>6, <1>7, SMTT(30) DEF Typed, members, disk

LEMMA Counted ==
    ASSUME Typed, NEW d \in Datagram
    PROVE  [replied EXCEPT ![d] = IF m_udp = "open" THEN @ + 1 ELSE @] \in [Datagram -> Nat]
<1>1. replied \in [Datagram -> Nat]
  BY DEF Typed
<1>2. replied[d] \in Nat /\ replied[d] + 1 \in Nat
  BY <1>1
<1>3. (IF m_udp = "open" THEN replied[d] + 1 ELSE replied[d]) \in Nat
  BY <1>2
<1> QED BY <1>1, <1>3

LEMMA WorkerTyped == ASSUME Typed, NEW w \in Worker, WorkerStep(w) PROVE Typed'
<1> USE DEF Typed, members, controls, disk, history, At, Goto, Handling
<1>1. CASE Hello(w)
  BY <1>1, ZenonT(30) DEF Hello, Notify
<1>2. CASE Check(w)
  BY <1>2 DEF Check
<1>3. CASE Fail(w)
  BY <1>3 DEF Fail
<1>4. CASE Receive(w)
  <2>1. PICK d \in inbox : /\ inbox' = inbox \ {d}
                           /\ item' = [item EXCEPT ![w].d = d]
                           /\ received' = Append(received, d)
    BY <1>4 DEF Receive
  <2>2. received' \in Seq(Datagram)
    BY <2>1, Appended
  <2>3. item' \in [Worker -> Item] /\ item'[w].d = d /\ \A v \in Worker \ {w} : item'[v] = item[v]
    BY <2>1 DEF Item
  <2>4. d # None
    BY ServiceAssumption
  <2> QED BY <1>4, <2>1, <2>2, <2>3, <2>4 DEF Receive
<1>5. CASE Judge(w)
  <2> DEFINE known == From[item[w].d] \in m_termina
  <2>1. known \in BOOLEAN /\ item' = [item EXCEPT ![w].known = known]
    BY <1>5 DEF Judge
  <2> HIDE DEF known
  <2>2. item' \in [Worker -> Item] /\ \A v \in Worker : item'[v].d = item[v].d
    BY <2>1 DEF Item
  <2> QED BY <1>5, <2>2 DEF Judge
<1>6. CASE Load(w)
  <2>1. item' \in [Worker -> Item] /\ \A v \in Worker : item'[v].d = item[v].d
    BY <1>6, ZenonT(30) DEF Load, Item
  <2> QED BY <1>6, <2>1 DEF Load
<1>7. CASE Store(w)
  <2>1. <<>> \in Seq(Datagram)
    BY EmptySeq
  <2>2. item' \in [Worker -> Item] /\ \A v \in Worker : item'[v].d = item[v].d
    BY <1>7, <2>1, ZenonT(30) DEF Store, Item
  <2>3. item[w].d \in Datagram /\ item[w].seen \in Seq(Datagram)
    BY <1>7 DEF Store, Item
  <2>4. m_strLog' \in Seq(Datagram)
    BY <1>7, <2>3, Appended DEF Store
  <2> QED BY <1>7, <2>2, <2>3, <2>4 DEF Store
<1>8. CASE Act(w)
  <2>1. NoItem \in Item /\ NoItem.d = None
    BY EmptySeq DEF NoItem, Item
  <2>2. item' \in [Worker -> Item] /\ item'[w].d = None
        /\ \A v \in Worker \ {w} : item'[v].d = item[v].d
    BY <1>8, <2>1 DEF Act
  <2>3. item[w].d \in Datagram
    BY <1>8 DEF Act, Item
  <2>4. \A b \in BOOLEAN : Append(posted, [d |-> item[w].d, run |-> b, by |-> w])
                              \in Seq([d : Datagram, run : BOOLEAN, by : Worker])
    BY <2>3, Appended
  <2>5. posted' \in Seq([d : Datagram, run : BOOLEAN, by : Worker])
    BY <1>8, <2>4 DEF Act, Call
  <2>6. replied' \in [Datagram -> Nat]
    <3>1. \/ replied' = replied
          \/ replied' = [replied EXCEPT ![item[w].d] = IF m_udp = "open" THEN @ + 1 ELSE @]
      BY <1>8 DEF Act
    <3>2. [replied EXCEPT ![item[w].d] = IF m_udp = "open" THEN @ + 1 ELSE @]
            \in [Datagram -> Nat]
      BY <2>3, Counted
    <3>3. replied \in [Datagram -> Nat]
      OBVIOUS
    <3> QED BY <3>1, <3>2, <3>3, Zenon
  <2>7. \E p \in {"wait", "top"} : pc' = [pc EXCEPT ![w] = p]
    BY <1>8 DEF Act, Call
  <2> QED BY <1>8, <2>2, <2>5, <2>6, <2>7 DEF Act
<1> QED BY <1>1, <1>2, <1>3, <1>4, <1>5, <1>6, <1>7, <1>8 DEF WorkerStep

LEMMA NextTyped == ASSUME Typed, [Next]_vars PROVE Typed'
<1>1. ASSUME NEW d \in Datagram, Arrive(d) PROVE Typed'
  BY <1>1 DEF Arrive, Typed, members, controls, disk, history
<1>2. CASE UNCHANGED vars
  BY <1>2 DEF Typed, vars, members, controls, disk, history
<1> QED BY <1>1, <1>2, UiTyped, RunCallTyped, WorkerTyped DEF Next

-------------------------------------------------------------------------------
(* What the steps leave alone. *)

\* The UI thread's handlers do not touch what the workers have.
LEMMA UiApart ==
    ASSUME User \/ Handler
    PROVE  /\ UNCHANGED <<posted, item, received, ran, replied>>
           /\ inbox' \in {inbox, {}}
           /\ UNCHANGED pc \/ Start
BY DEF User, Handler, ClickStop, Exit, BeginStop, ClickStart, ClickTick, EditTerminals, CloseSocket,
       ReadControls, SaveLog, SkipSaving, ClearLog, PushTerminal, SettingSaved, Start, disk, history,
       members, controls

\* A worker's steps between two datagrams and while it looks at one.
Looks(w) == Hello(w) \/ Check(w) \/ Fail(w) \/ Judge(w) \/ Load(w) \/ Store(w)

LEMMA LooksApart ==
    ASSUME Typed, NEW w \in Worker, Looks(w)
    PROVE  /\ UNCHANGED <<inbox, posted, received, ran, replied>>
           /\ \A v \in Worker : item'[v].d = item[v].d
           /\ \A v \in Worker \ {w} : item'[v] = item[v] /\ pc'[v] = pc[v]
<1>1. UNCHANGED <<inbox, posted, received, ran, replied>>
  BY DEF Looks, Hello, Check, Fail, Judge, Load, Store, history
<1>2. item \in [Worker -> Item] /\ pc \in [Worker -> {"new", "hello", "top", "recv", "judge",
                                                      "load", "store", "act", "wait", "dead"}]
  BY DEF Typed
<1>3. \E p : pc' = [pc EXCEPT ![w] = p]
  BY DEF Looks, Hello, Check, Fail, Judge, Load, Store, Goto
<1>4. \/ item' = item
      \/ \E k : item' = [item EXCEPT ![w].known = k]
      \/ \E q : item' = [item EXCEPT ![w].seen = q]
  BY DEF Looks, Hello, Check, Fail, Judge, Load, Store
<1>5. /\ \A v \in Worker : item'[v].d = item[v].d
      /\ \A v \in Worker \ {w} : item'[v] = item[v]
  <2>1. CASE item' = item
    BY <2>1
  <2>2. ASSUME NEW k, item' = [item EXCEPT ![w].known = k] PROVE (\A v \in Worker : item'[v].d = item[v].d) /\ \A v \in Worker \ {w} : item'[v] = item[v]
    BY <1>2, <2>2 DEF Item
  <2>3. ASSUME NEW q, item' = [item EXCEPT ![w].seen = q] PROVE (\A v \in Worker : item'[v].d = item[v].d) /\ \A v \in Worker \ {w} : item'[v] = item[v]
    BY <1>2, <2>3 DEF Item
  <2> QED BY <1>4, <2>1, <2>2, <2>3
<1> QED BY <1>1, <1>2, <1>3, <1>5

\* The fields of a queued call.
LEMMA CallFields ==
    ASSUME Typed
    PROVE  \A i \in DOMAIN posted :
               posted[i].d \in Datagram /\ posted[i].run \in BOOLEAN /\ posted[i].by \in Worker
<1>1. posted \in Seq([d : Datagram, run : BOOLEAN, by : Worker])
  BY DEF Typed
<1>2. \A i \in DOMAIN posted : posted[i] \in [d : Datagram, run : BOOLEAN, by : Worker]
  BY <1>1, ElementOfSeq, LenProperties
<1> QED BY <1>2

\* A call is queued, or none.
LEMMA ActEffect ==
    ASSUME Typed, NEW w \in Worker, Act(w)
    PROVE  /\ item[w].d \in Datagram /\ item[w].d # None
           /\ item' = [item EXCEPT ![w] = NoItem] /\ NoItem.d = None /\ ~NoItem.known
           /\ UNCHANGED <<inbox, received, ran, overlapped>>
           /\ \E p \in {"wait", "top"} : pc' = [pc EXCEPT ![w] = p]
           /\ \/ /\ posted' = posted /\ item[w].known
                 /\ replied' = [replied EXCEPT ![item[w].d] = IF m_udp = "open" THEN @ + 1 ELSE @]
              \/ /\ replied' = replied
                 /\ \E b \in BOOLEAN : /\ posted' = Append(posted, [d |-> item[w].d, run |-> b, by |-> w])
                                       /\ b => item[w].known
<1>1. item[w].d \in Datagram /\ item[w].d # None
  BY DEF Act, At, Typed, Handling, Item
<1>2. \E p \in {"wait", "top"} : pc' = [pc EXCEPT ![w] = p]
  BY DEF Act, Call, Goto
<1>3. NoItem.d = None /\ ~NoItem.known
  BY DEF NoItem
<1>4. \/ /\ posted' = posted /\ item[w].known
         /\ replied' = [replied EXCEPT ![item[w].d] = IF m_udp = "open" THEN @ + 1 ELSE @]
      \/ /\ replied' = replied
         /\ \E b \in BOOLEAN : /\ posted' = Append(posted, [d |-> item[w].d, run |-> b, by |-> w])
                               /\ b => item[w].known
  BY DEF Act, Call
<1> QED BY <1>1, <1>2, <1>3, <1>4 DEF Act

LEMMA RunCallEffect ==
    ASSUME Typed, RunCall
    PROVE  LET call == posted[1] IN
           /\ 1 \in DOMAIN posted
           /\ posted' = Tail(posted)
           /\ \A i \in DOMAIN posted' : i \in Nat /\ i + 1 \in DOMAIN posted /\ posted'[i] = posted[i + 1]
           /\ ran' = IF call.run THEN Append(ran, call.d) ELSE ran
           /\ replied' = [replied EXCEPT ![call.d] = IF call.run /\ m_udp = "open" THEN @ + 1 ELSE @]
           /\ \A w \in Worker : pc'[w] = pc[w] \/ (pc[w] = "wait" /\ pc'[w] = "top")
           /\ box' = m_strLog /\ shown' = shown \union Range(m_strLog)
           /\ UNCHANGED <<ui, after, members, config, inbox, item, disk, received, fresh, overlapped,
                          edited, late, notice>>
<1>1. posted \in Seq([d : Datagram, run : BOOLEAN, by : Worker]) /\ posted # <<>>
  BY DEF Typed, RunCall
<1>2. /\ Head(posted) = posted[1] /\ 1 \in DOMAIN posted
      /\ Len(posted) \in Nat /\ DOMAIN posted = 1 .. Len(posted)
      /\ DOMAIN Tail(posted) = 1 .. Len(posted) - 1
      /\ \A i \in 1 .. Len(posted) - 1 : Tail(posted)[i] = posted[i + 1] /\ i + 1 \in DOMAIN posted
  BY <1>1, Tailed
<1>3. \A w \in Worker : pc'[w] = pc[w] \/ (pc[w] = "wait" /\ pc'[w] = "top")
  <2>1. pc' = [pc EXCEPT ![Head(posted).by] = IF @ = "wait" THEN "top" ELSE @]
    BY DEF RunCall
  <2> QED BY <2>1 DEF Typed
<1>4. posted' = Tail(posted)
  BY DEF RunCall
<1>5. \A i \in DOMAIN posted' : i \in Nat /\ i + 1 \in DOMAIN posted /\ posted'[i] = posted[i + 1]
  BY <1>2, <1>4
<1> QED BY <1>2, <1>3, <1>4, <1>5 DEF RunCall, UpdateDataFalse

-------------------------------------------------------------------------------
(* Every datagram is in one place. *)

LEMMA ReceiveEffect ==
    ASSUME Typed, NEW w \in Worker, Receive(w)
    PROVE  /\ \E d \in inbox : /\ inbox' = inbox \ {d}
                               /\ item' = [item EXCEPT ![w].d = d]
                               /\ received' = Append(received, d)
                               /\ Range(received') = Range(received) \union {d}
                               /\ d \in Datagram /\ d # None
           /\ pc[w] = "recv" /\ pc' = [pc EXCEPT ![w] = "judge"] /\ item[w].d = None
           /\ UNCHANGED <<posted, ran, replied, overlapped>>
<1>1. PICK d \in inbox : /\ inbox' = inbox \ {d}
                         /\ item' = [item EXCEPT ![w].d = d]
                         /\ received' = Append(received, d)
  BY DEF Receive
<1>2. d \in Datagram /\ d # None
  BY ServiceAssumption DEF Typed
<1>3. Range(received') = Range(received) \union {d}
  BY <1>1, <1>2, Appended DEF Typed
<1>4. item[w].d = None
  BY DEF Receive, At, Typed, Handling
<1> QED BY <1>1, <1>2, <1>3, <1>4 DEF Receive, At, Goto

LEMMA ReceiveLedger == ASSUME Typed, Ledger, NEW w \in Worker, Receive(w) PROVE Ledger'
<1>1. PICK d \in Datagram : /\ d \in inbox /\ d # None /\ inbox' = inbox \ {d}
                            /\ item' = [item EXCEPT ![w].d = d]
                            /\ Range(received') = Range(received) \union {d}
  BY ReceiveEffect
<1>2. UNCHANGED <<posted, replied>>
  BY ReceiveEffect
<1>3. item'[w].d = d /\ \A v \in Worker \ {w} : item'[v].d = item[v].d
  BY <1>1 DEF Typed, Item
<1>4. d \notin Range(received) /\ replied[d] = 0
  BY <1>1 DEF Ledger, Typed
<1>5. \A v \in Worker : item[v].d # d
  BY <1>1, <1>4 DEF Ledger
<1>6. \A i \in DOMAIN posted : posted[i].d # d
  BY <1>4 DEF Ledger
<1> QED BY <1>1, <1>2, <1>3, <1>4, <1>5, <1>6 DEF Ledger

LEMMA ActLedger == ASSUME Typed, Ledger, NEW w \in Worker, Act(w) PROVE Ledger'
<1> DEFINE d == item[w].d
<1>1. /\ d \in Datagram /\ d # None /\ UNCHANGED <<inbox, received>>
      /\ item' = [item EXCEPT ![w] = NoItem] /\ NoItem.d = None
  BY ActEffect
<1>2. item'[w].d = None /\ \A v \in Worker \ {w} : item'[v] = item[v]
  BY <1>1 DEF Typed
<1>3. /\ d \in Range(received) /\ replied[d] = 0
      /\ \A v \in Worker \ {w} : item[v].d # d
      /\ \A i \in DOMAIN posted : posted[i].d # d
  BY <1>1 DEF Ledger
<1> HIDE DEF d
<1>4. CASE posted' = posted /\ replied' = [replied EXCEPT ![d] = IF m_udp = "open" THEN @ + 1 ELSE @]
  <2>1. replied'[d] \in {0, 1} /\ \A e \in Datagram \ {d} : replied'[e] = replied[e]
    BY <1>1, <1>3, <1>4 DEF Typed
  <2>2. \A v \in Worker : item[v].d # None => item[v].d \in Datagram
    BY DEF Typed, Item
  <2>3. \A e \in Datagram : replied'[e] <= 1 /\ (replied'[e] # 0 => e \in Range(received))
    BY <1>3, <2>1 DEF Ledger
  <2>4. \A v \in Worker : item'[v].d # None => item'[v].d \in Range(received) /\ replied'[item'[v].d] = 0
    BY <1>2, <1>3, <2>1, <2>2 DEF Ledger
  <2>5. \A v, u \in Worker : item'[v].d # None /\ item'[v].d = item'[u].d => v = u
    BY <1>2 DEF Ledger
  <2>6. \A i \in DOMAIN posted : posted[i].d \in Range(received) /\ replied'[posted[i].d] = 0
    BY <1>3, <2>1, CallFields DEF Ledger
  <2>7. \A i \in DOMAIN posted : \A v \in Worker : item'[v].d # posted[i].d
    <3>1. \A i \in DOMAIN posted : posted[i].d # None
      BY CallFields, ServiceAssumption
    <3> QED BY <1>2, <3>1 DEF Ledger
  <2> QED BY <1>1, <1>4, <2>3, <2>4, <2>5, <2>6, <2>7 DEF Ledger
<1>5. ASSUME NEW b \in BOOLEAN, posted' = Append(posted, [d |-> d, run |-> b, by |-> w]), replied' = replied
      PROVE  Ledger'
  <2> DEFINE c == [d |-> d, run |-> b, by |-> w]
  <2>1. c \in [d : Datagram, run : BOOLEAN, by : Worker] /\ c.d = d
    BY <1>1
  <2>2. posted \in Seq([d : Datagram, run : BOOLEAN, by : Worker])
    BY DEF Typed
  <2> HIDE DEF c
  <2>3. /\ Len(posted) \in Nat /\ DOMAIN posted = 1 .. Len(posted)
        /\ DOMAIN Append(posted, c) = 1 .. Len(posted) + 1
        /\ \A i \in 1 .. Len(posted) : Append(posted, c)[i] = posted[i]
        /\ Append(posted, c)[Len(posted) + 1] = c
    BY <2>1, <2>2, Appended
  <2>4. posted' = Append(posted, c)
    BY <1>5 DEF c
  <2>5. \A i \in DOMAIN posted' : \/ i \in DOMAIN posted /\ posted'[i] = posted[i]
                                  \/ i = Len(posted) + 1 /\ posted'[i].d = d
    BY <2>1, <2>3, <2>4
  <2>6. \A v \in Worker : item'[v].d # None => item'[v].d \in Range(received) /\ replied[item'[v].d] = 0
    BY <1>2 DEF Ledger
  <2>7. \A v, u \in Worker : item'[v].d # None /\ item'[v].d = item'[u].d => v = u
    BY <1>2 DEF Ledger
  <2>8. \A v \in Worker : item'[v].d # d
    BY <1>1, <1>2, <1>3
  <2>9. \A i \in DOMAIN posted : \A v \in Worker : item'[v].d # posted[i].d
    <3>1. \A i \in DOMAIN posted : posted[i].d # None
      BY CallFields, ServiceAssumption
    <3> QED BY <1>2, <3>1 DEF Ledger
  <2>10. \A i \in DOMAIN posted' : /\ posted'[i].d \in Range(received) /\ replied[posted'[i].d] = 0
                                   /\ \A v \in Worker : item'[v].d # posted'[i].d
    BY <1>3, <2>5, <2>8, <2>9 DEF Ledger
  <2>11. \A i, j \in DOMAIN posted' : posted'[i].d = posted'[j].d => i = j
    BY <1>3, <2>5 DEF Ledger
  <2> QED BY <1>1, <1>5, <2>6, <2>7, <2>10, <2>11 DEF Ledger
<1> QED BY <1>4, <1>5, ActEffect DEF d

LEMMA RunCallLedger == ASSUME Typed, Ledger, RunCall PROVE Ledger'
<1> DEFINE d == posted[1].d
<1>1. /\ 1 \in DOMAIN posted /\ d \in Datagram
      /\ \A i \in DOMAIN posted' : i \in Nat /\ i + 1 \in DOMAIN posted /\ posted'[i] = posted[i + 1]
      /\ UNCHANGED <<inbox, item, received>>
  BY RunCallEffect, CallFields
<1>2. replied' = [replied EXCEPT ![d] = IF posted[1].run /\ m_udp = "open" THEN @ + 1 ELSE @]
  BY RunCallEffect
<1>3. /\ d \in Range(received) /\ replied[d] = 0
      /\ \A w \in Worker : item[w].d # d
      /\ \A i \in DOMAIN posted : posted[i].d = d => i = 1
  BY <1>1 DEF Ledger
<1> HIDE DEF d
<1>4. replied'[d] \in {0, 1} /\ \A e \in Datagram \ {d} : replied'[e] = replied[e]
  BY <1>1, <1>2, <1>3 DEF Typed
<1>5. \A i \in DOMAIN posted' : posted'[i].d # d /\ posted'[i].d \in Datagram
  <2> SUFFICES ASSUME NEW i \in DOMAIN posted' PROVE posted'[i].d # d /\ posted'[i].d \in Datagram
    OBVIOUS
  <2>1. i + 1 # 1 \/ i = 0
    BY <1>1
  <2>2. i # 0
    BY RunCallTyped, LenProperties DEF Typed
  <2> QED BY <1>1, <1>3, <2>1, <2>2, CallFields
<1>6. \A i, j \in DOMAIN posted' : posted'[i].d = posted'[j].d => i = j
  <2> SUFFICES ASSUME NEW i \in DOMAIN posted', NEW j \in DOMAIN posted', posted'[i].d = posted'[j].d
               PROVE i = j
    OBVIOUS
  <2>1. i + 1 = j + 1
    BY <1>1 DEF Ledger
  <2> QED BY <1>1, <2>1
<1>7. \A i \in DOMAIN posted' : posted'[i].d \in Range(received') /\ replied'[posted'[i].d] = 0
                                /\ \A w \in Worker : item'[w].d # posted'[i].d
  BY <1>1, <1>4, <1>5 DEF Ledger
<1>8. \A w \in Worker : item[w].d # None => item[w].d \in Datagram
  BY DEF Typed, Item
<1> QED BY <1>1, <1>3, <1>4, <1>6, <1>7, <1>8 DEF Ledger

LEMMA NextLedger == ASSUME Typed, Ledger, [Next]_vars PROVE Ledger'
<1>1. CASE User \/ Handler
  BY <1>1, UiApart DEF Ledger
<1>2. ASSUME NEW w \in Worker, Looks(w) PROVE Ledger'
  BY <1>2, LooksApart DEF Ledger
<1>3. ASSUME NEW d \in Datagram, Arrive(d) PROVE Ledger'
  BY <1>3 DEF Arrive, Ledger, history
<1>4. CASE UNCHANGED vars
  BY <1>4 DEF vars, history, Ledger
<1> QED BY <1>1, <1>2, <1>3, <1>4, ReceiveLedger, ActLedger, RunCallLedger DEF Next, WorkerStep, Looks

-------------------------------------------------------------------------------
(* Who is answered. *)

LEMMA UiSenders == ASSUME Typed, Senders, User \/ Handler PROVE Senders'
<1>1. m_termina' \subseteq Saved /\ config' \subseteq Saved
  <2>1. CASE ClickStop \/ ClickStart \/ ClickTick \/ Exit
    BY <2>1 DEF ClickStop, ClickStart, ClickTick, Exit, BeginStop, ClearTerminals, Senders, members
  <2>2. ASSUME NEW c \in Configs, EditTerminals(c) PROVE m_termina' \subseteq Saved /\ config' \subseteq Saved
    BY <2>2 DEF EditTerminals, ClearTerminals, Saved
  <2>3. CASE CloseSocket \/ ReadControls \/ SaveLog \/ SkipSaving \/ ClearLog \/ SettingSaved \/ Start
    BY <2>3 DEF CloseSocket, ClearTerminals, ReadControls, SaveLog, SkipSaving, ClearLog,
                SettingSaved, Start, Senders, members
  <2>4. CASE PushTerminal
    BY <2>4 DEF PushTerminal, Senders
  <2> QED BY <2>1, <2>2, <2>3, <2>4 DEF User, Handler
<1>2. \A w \in Worker : pc'[w] \notin {"load", "store", "act"} => pc[w] \notin {"load", "store", "act"}
  <2>1. CASE Start
    BY <2>1 DEF Start, Typed
  <2> QED BY <2>1, UiApart
<1> QED BY <1>1, <1>2, UiApart DEF Senders

LEMMA LooksSenders == ASSUME Typed, Senders, NEW w \in Worker, Looks(w) PROVE Senders'
<1>1. /\ UNCHANGED <<posted, replied>>
      /\ \A v \in Worker : item'[v].d = item[v].d
      /\ \A v \in Worker \ {w} : item'[v] = item[v] /\ pc'[v] = pc[v]
  BY LooksApart
<1>2. UNCHANGED <<m_termina, config>>
  BY DEF Looks, Hello, Check, Fail, Judge, Load, Store, members
<1>3. /\ pc'[w] \notin {"load", "store", "act"} => ~item'[w].known
      /\ item'[w].known => From[item'[w].d] \in Saved
  <2>1. CASE Hello(w) \/ Check(w) \/ Fail(w)
    <3>1. item' = item /\ pc[w] \in {"hello", "top", "recv"}
      BY <2>1 DEF Hello, Check, Fail, At
    <3> QED BY <3>1 DEF Senders
  <2>2. CASE Judge(w)
    <3> DEFINE known == From[item[w].d] \in m_termina
    <3>1. item' = [item EXCEPT ![w].known = known] /\ pc' = [pc EXCEPT ![w] = "load"]
      BY <2>2 DEF Judge, Goto
    <3>2. known => From[item[w].d] \in Saved
      BY DEF Senders
    <3> HIDE DEF known
    <3>3. item'[w].known = known /\ pc'[w] = "load"
      BY <3>1 DEF Typed, Item
    <3> QED BY <1>1, <3>2, <3>3
  <2>3. CASE Load(w) \/ Store(w)
    <3>1. \E q : item' = [item EXCEPT ![w].seen = q]
      BY <2>3 DEF Load, Store
    <3>2. item'[w].known = item[w].known
      BY <3>1 DEF Typed, Item
    <3>3. pc'[w] \in {"store", "act"}
      BY <2>3 DEF Load, Store, Goto, Typed
    <3> QED BY <1>1, <3>2, <3>3 DEF Senders
  <2> QED BY <2>1, <2>2, <2>3 DEF Looks
<1> QED BY <1>1, <1>2, <1>3 DEF Senders

LEMMA ReceiveSenders == ASSUME Typed, Senders, NEW w \in Worker, Receive(w) PROVE Senders'
<1>1. PICK d \in Datagram : item' = [item EXCEPT ![w].d = d]
  BY ReceiveEffect
<1>2. pc[w] = "recv" /\ pc' = [pc EXCEPT ![w] = "judge"] /\ UNCHANGED <<posted, replied>>
  BY ReceiveEffect
<1>3. item'[w].known = item[w].known /\ \A v \in Worker \ {w} : item'[v] = item[v] /\ pc'[v] = pc[v]
  BY <1>1, <1>2 DEF Typed, Item
<1>4. ~item[w].known
  BY <1>2 DEF Senders
<1>5. UNCHANGED <<m_termina, config>>
  BY DEF Receive, members
<1> QED BY <1>2, <1>3, <1>4, <1>5 DEF Senders

LEMMA ActSenders == ASSUME Typed, Senders, NEW w \in Worker, Act(w) PROVE Senders'
<1> DEFINE d == item[w].d
<1>1. d \in Datagram /\ item' = [item EXCEPT ![w] = NoItem] /\ ~NoItem.known
  BY ActEffect
<1>2. ~item'[w].known /\ \A v \in Worker \ {w} : item'[v] = item[v] /\ pc'[v] = pc[v]
  <2>1. \E p : pc' = [pc EXCEPT ![w] = p]
    BY ActEffect
  <2> QED BY <1>1, <2>1 DEF Typed
<1>3. UNCHANGED <<m_termina, config>>
  BY DEF Act, members
<1>4. item[w].known => From[d] \in Saved
  BY DEF Senders
<1> HIDE DEF d
<1>5. \A i \in DOMAIN posted' : posted'[i].run => From[posted'[i].d] \in Saved
  <2>1. CASE posted' = posted
    BY <2>1 DEF Senders
  <2>2. ASSUME NEW b \in BOOLEAN, posted' = Append(posted, [d |-> d, run |-> b, by |-> w]), b => item[w].known
        PROVE  \A i \in DOMAIN posted' : posted'[i].run => From[posted'[i].d] \in Saved
    <3> DEFINE c == [d |-> d, run |-> b, by |-> w]
    <3>1. c \in [d : Datagram, run : BOOLEAN, by : Worker] /\ c.d = d /\ c.run = b
      BY <1>1
    <3> HIDE DEF c
    <3>2. posted \in Seq([d : Datagram, run : BOOLEAN, by : Worker])
      BY DEF Typed
    <3>3. posted' = Append(posted, c)
      BY <2>2 DEF c
    <3>4. \A i \in DOMAIN posted' : (i \in DOMAIN posted /\ posted'[i] = posted[i]) \/ posted'[i] = c
      <4>1. /\ Len(posted) \in Nat /\ DOMAIN posted = 1 .. Len(posted)
            /\ DOMAIN posted' = 1 .. Len(posted) + 1
            /\ \A i \in 1 .. Len(posted) : posted'[i] = posted[i]
            /\ posted'[Len(posted) + 1] = c
        BY <3>1, <3>2, <3>3, Appended
      <4> QED BY <4>1
    <3> QED BY <1>4, <2>2, <3>1, <3>4 DEF Senders
  <2> QED BY <2>1, <2>2, ActEffect DEF d
<1>6. \A e \in Datagram : replied'[e] # 0 => From[e] \in Saved
  <2>1. CASE replied' = replied
    BY <2>1 DEF Senders
  <2>2. CASE replied' = [replied EXCEPT ![d] = IF m_udp = "open" THEN @ + 1 ELSE @] /\ item[w].known
    BY <1>1, <1>4, <2>2 DEF Senders, Typed
  <2> QED BY <2>1, <2>2, ActEffect DEF d
<1> QED BY <1>2, <1>3, <1>5, <1>6 DEF Senders

LEMMA RunCallSenders == ASSUME Typed, Senders, RunCall PROVE Senders'
<1> DEFINE call == posted[1]
<1>1. /\ 1 \in DOMAIN posted /\ call.d \in Datagram /\ (call.run => From[call.d] \in Saved)
      /\ \A i \in DOMAIN posted' : i + 1 \in DOMAIN posted /\ posted'[i] = posted[i + 1]
      /\ replied' = [replied EXCEPT ![call.d] = IF call.run /\ m_udp = "open" THEN @ + 1 ELSE @]
      /\ \A w \in Worker : pc'[w] = pc[w] \/ (pc[w] = "wait" /\ pc'[w] = "top")
      /\ UNCHANGED <<item, config, members>>
  BY RunCallEffect, CallFields DEF Senders
<1> HIDE DEF call
<1>2. \A d \in Datagram : replied'[d] # 0 => From[d] \in Saved
  BY <1>1 DEF Senders, Typed
<1>3. \A w \in Worker : /\ pc'[w] \notin {"load", "store", "act"} => ~item'[w].known
                        /\ item'[w].known => From[item'[w].d] \in Saved
  BY <1>1 DEF Senders
<1> QED BY <1>1, <1>2, <1>3 DEF Senders, members

LEMMA NextSenders == ASSUME Typed, Senders, [Next]_vars PROVE Senders'
<1>1. ASSUME NEW d \in Datagram, Arrive(d) PROVE Senders'
  BY <1>1 DEF Arrive, Senders, history, members
<1>2. CASE UNCHANGED vars
  BY <1>2 DEF vars, history, members, Senders
<1> QED BY <1>1, <1>2, UiSenders, LooksSenders, ReceiveSenders, ActSenders, RunCallSenders
        DEF Next, WorkerStep, Looks

-------------------------------------------------------------------------------
(* As long as no start found an earlier worker alive. *)

LEMMA OverlapStays == ASSUME Typed, [Next]_vars, ~overlapped' PROVE ~overlapped
<1>1. CASE User \/ (Handler /\ ~Start)
  BY <1>1 DEF User, Handler, ClickStop, Exit, BeginStop, ClickStart, ClickTick, EditTerminals,
              CloseSocket, ReadControls, SaveLog, SkipSaving, ClearLog, PushTerminal, SettingSaved,
              history
<1>2. CASE Start
  BY <1>2 DEF Start
<1>3. CASE RunCall \/ UNCHANGED vars
  BY <1>3 DEF RunCall, vars, history
<1>4. ASSUME NEW w \in Worker, WorkerStep(w) PROVE UNCHANGED overlapped
  BY <1>4 DEF WorkerStep, Hello, Check, Receive, Fail, Judge, Load, Store, Act, history
<1>5. ASSUME NEW d \in Datagram, Arrive(d) PROVE UNCHANGED overlapped
  BY <1>5 DEF Arrive, history
<1> QED BY <1>1, <1>2, <1>3, <1>4, <1>5 DEF Next

LEMMA NextSingle == ASSUME Typed, Single, [Next]_vars, ~overlapped' PROVE Single'
<1>1. CASE (User \/ Handler) /\ ~Start
  BY <1>1, UiApart DEF Single, Alive
<1>2. CASE Start
  <2>1. \A w \in Worker : ~Alive(w)
    BY <1>2 DEF Start
  <2>2. PICK w \in Worker : pc' = [pc EXCEPT ![w] = "hello"]
    BY <1>2 DEF Start
  <2> QED BY <2>1, <2>2 DEF Single, Alive, Typed
<1>3. CASE RunCall
  <2>1. \A w \in Worker : Alive(w)' => Alive(w)
    BY <1>3, RunCallEffect DEF Alive
  <2> QED BY <2>1 DEF Single
<1>4. ASSUME NEW w \in Worker, WorkerStep(w) PROVE Single'
  <2>1. Alive(w) /\ \E p : pc' = [pc EXCEPT ![w] = p]
    BY <1>4 DEF WorkerStep, Hello, Check, Receive, Fail, Judge, Load, Store, Act, Call, At, Goto, Alive
  <2>2. \A v \in Worker : Alive(v)' => Alive(v)
    BY <2>1 DEF Alive, Typed
  <2> QED BY <2>2 DEF Single
<1>5. ASSUME NEW d \in Datagram, Arrive(d) PROVE Single'
  BY <1>5 DEF Arrive, Single, Alive
<1>6. CASE UNCHANGED vars
  BY <1>6 DEF vars, Single, Alive
<1> QED BY <1>1, <1>2, <1>3, <1>4, <1>5, <1>6 DEF Next

LEMMA Alone ==
    ASSUME Typed, Single, NEW w \in Worker, Alive(w), NEW v \in Worker, v # w
    PROVE  item[v].d = None /\ pc[v] # "store"
BY DEF Single, Alive, Typed, Handling

LEMMA ReceiveQueued ==
    ASSUME Typed, Ledger, Single, Queued, NEW w \in Worker, Receive(w)
    PROVE  Queued'
<1>1. PICK d \in Datagram : /\ d \in inbox /\ d # None
                            /\ item' = [item EXCEPT ![w].d = d]
                            /\ received' = Append(received, d)
                            /\ Range(received') = Range(received) \union {d}
  BY ReceiveEffect
<1>2. UNCHANGED <<posted, ran>> /\ Alive(w)
  BY ReceiveEffect DEF Alive
<1>3. item'[w].d = d /\ \A v \in Worker \ {w} : item'[v].d = None
  <2>1. item'[w].d = d /\ \A v \in Worker \ {w} : item'[v] = item[v]
    BY <1>1 DEF Typed, Item
  <2> QED BY <1>2, <2>1, Alone
<1>4. /\ \A x, y : Before(received, x, y) => Before(received', x, y)
      /\ \A x \in Range(received) : Before(received', x, d)
  <2>1. received \in Seq(Datagram)
    BY DEF Typed
  <2> QED BY <1>1, <2>1, BeforeGrows
<1>5. /\ Range(ran) \subseteq Range(received)
      /\ \A i \in DOMAIN posted : posted[i].d \in Range(received)
  BY DEF Queued, Ledger
<1> QED BY <1>1, <1>2, <1>3, <1>4, <1>5 DEF Queued

LEMMA ActQueued == ASSUME Typed, Single, Queued, NEW w \in Worker, Act(w) PROVE Queued'
<1> DEFINE d == item[w].d
<1>1. /\ d \in Datagram /\ d # None /\ UNCHANGED <<received, ran>>
      /\ item' = [item EXCEPT ![w] = NoItem] /\ NoItem.d = None
  BY ActEffect
<1>2. item'[w].d = None /\ \A v \in Worker \ {w} : item'[v] = item[v]
  BY <1>1 DEF Typed
<1>3. /\ \A x \in Range(ran) : Before(received, x, d)
      /\ \A i \in DOMAIN posted : Before(received, posted[i].d, d)
  BY <1>1 DEF Queued
<1>4. CASE posted' = posted
  BY <1>1, <1>2, <1>4 DEF Queued
<1>5. ASSUME NEW b \in BOOLEAN, posted' = Append(posted, [d |-> d, run |-> b, by |-> w])
      PROVE  Queued'
  <2> DEFINE c == [d |-> d, run |-> b, by |-> w]
  <2>1. c \in [d : Datagram, run : BOOLEAN, by : Worker] /\ c.d = d
    BY <1>1
  <2> HIDE DEF c
  <2>2. posted \in Seq([d : Datagram, run : BOOLEAN, by : Worker]) /\ posted' = Append(posted, c)
    BY <1>5 DEF Typed, c
  <2> HIDE DEF d
  <2>3. /\ Len(posted) \in Nat /\ DOMAIN posted = 1 .. Len(posted)
        /\ DOMAIN posted' = 1 .. Len(posted) + 1
        /\ \A i \in 1 .. Len(posted) : posted'[i] = posted[i]
        /\ posted'[Len(posted) + 1] = c
    BY <2>1, <2>2, Appended
  <2>4. \A i \in DOMAIN posted' : \/ i \in DOMAIN posted /\ posted'[i] = posted[i]
                                  \/ i = Len(posted) + 1 /\ posted'[i].d = d
    BY <2>1, <2>3
  <2>5. \A i \in DOMAIN posted' : \A x \in Range(ran) : Before(received, x, posted'[i].d)
    BY <1>3, <2>4 DEF Queued
  <2>6. ASSUME NEW i \in DOMAIN posted', NEW j \in DOMAIN posted', i < j
        PROVE  Before(received, posted'[i].d, posted'[j].d)
    <3>1. i \in DOMAIN posted /\ posted'[i] = posted[i]
      BY <2>3, <2>6
    <3> QED BY <1>3, <2>4, <2>6, <3>1 DEF Queued
  <2>7. ASSUME NEW v \in Worker, item'[v].d # None
        PROVE  /\ \A x \in Range(ran) : Before(received, x, item'[v].d)
               /\ \A i \in DOMAIN posted' : Before(received, posted'[i].d, item'[v].d)
    <3>1. v # w /\ item'[v] = item[v] /\ item[v].d # None
      BY <1>2, <2>7
    <3>2. Alive(w)
      BY DEF Act, At, Alive
    <3> QED BY <3>1, <3>2, Alone
  <2> QED BY <1>1, <2>5, <2>6, <2>7 DEF Queued
<1> QED BY <1>4, <1>5, ActEffect DEF d

LEMMA RunCallQueued == ASSUME Typed, Ledger, Queued, RunCall PROVE Queued'
<1> DEFINE d == posted[1].d
<1>1. /\ 1 \in DOMAIN posted /\ d \in Datagram
      /\ \A i \in DOMAIN posted' : i \in Nat /\ i + 1 \in DOMAIN posted /\ posted'[i] = posted[i + 1]
      /\ ran' = (IF posted[1].run THEN Append(ran, d) ELSE ran)
      /\ UNCHANGED <<item, received>>
  BY RunCallEffect, CallFields
<1>2. \A i \in DOMAIN posted' : 1 < i + 1
  <2>1. \A i \in DOMAIN posted' : i # 0
    BY RunCallTyped, LenProperties DEF Typed
  <2> QED BY <1>1, <2>1
<1>3. ran \in Seq(Datagram)
  BY DEF Typed
<1>4. /\ Range(ran') \subseteq Range(ran) \union {d}
      /\ \A x, y : Before(ran', x, y) => Before(ran, x, y) \/ (x \in Range(ran) /\ y = d)
  BY <1>1, <1>3, Appended, BeforeGrows
<1>5. /\ d \in Range(received)
      /\ \A x \in Range(ran) : Before(received, x, d)
      /\ \A i \in DOMAIN posted' : Before(received, d, posted'[i].d)
      /\ \A w \in Worker : item[w].d # None => Before(received, d, item[w].d)
  BY <1>1, <1>2 DEF Queued, Ledger
<1> HIDE DEF d
<1>6. Range(ran') \subseteq Range(received') /\ \A x, y \in Datagram : Before(ran', x, y) => Before(received', x, y)
  BY <1>1, <1>4, <1>5 DEF Queued
<1>7. ASSUME NEW i \in DOMAIN posted'
      PROVE  /\ \A x \in Range(ran') : Before(received', x, posted'[i].d)
             /\ \A j \in DOMAIN posted' : i < j => Before(received', posted'[i].d, posted'[j].d)
  <2>1. \A x \in Range(ran') : Before(received', x, posted'[i].d)
    BY <1>1, <1>4, <1>5 DEF Queued
  <2>2. ASSUME NEW j \in DOMAIN posted', i < j
        PROVE  Before(received', posted'[i].d, posted'[j].d)
    <3>1. i + 1 < j + 1 /\ i + 1 \in DOMAIN posted /\ j + 1 \in DOMAIN posted
      BY <1>1, <2>2
    <3>2. Before(received, posted[i + 1].d, posted[j + 1].d)
      BY <3>1 DEF Queued
    <3> QED BY <1>1, <3>2
  <2> QED BY <2>1, <2>2
<1>8. ASSUME NEW w \in Worker, item'[w].d # None
      PROVE  /\ \A x \in Range(ran') : Before(received', x, item'[w].d)
             /\ \A i \in DOMAIN posted' : Before(received', posted'[i].d, item'[w].d)
  BY <1>1, <1>4, <1>5, <1>8 DEF Queued
<1> QED BY <1>6, <1>7, <1>8 DEF Queued

LEMMA NextQueued ==
    ASSUME Typed, Ledger, Single, Queued, [Next]_vars
    PROVE  Queued'
<1>1. CASE User \/ Handler
  BY <1>1, UiApart DEF Queued
<1>2. ASSUME NEW w \in Worker, Looks(w) PROVE Queued'
  BY <1>2, LooksApart DEF Queued
<1>3. ASSUME NEW d \in Datagram, Arrive(d) PROVE Queued'
  BY <1>3 DEF Arrive, Queued, history
<1>4. CASE UNCHANGED vars
  BY <1>4 DEF vars, history, Queued
<1> QED BY <1>1, <1>2, <1>3, <1>4, ReceiveQueued, ActQueued, RunCallQueued DEF Next, WorkerStep, Looks

-------------------------------------------------------------------------------
(* The log. *)

LEMMA UiScreen ==
    ASSUME Typed, Screen, User \/ Handler
    PROVE  Screen'
<1>1. UNCHANGED item /\ \A w \in Worker : pc'[w] = "store" => pc[w] = "store"
  <2>1. CASE Start
    BY <2>1, UiApart DEF Start, Typed
  <2> QED BY <2>1, UiApart
<1>2. CASE ClickStop \/ Exit \/ ClickTick \/ CloseSocket \/ SkipSaving \/ PushTerminal \/ SettingSaved \/ Start
           \/ \E c \in Configs : EditTerminals(c)
  <2>1. UNCHANGED <<box, shown, m_strLog, disk>>
    BY <1>2 DEF ClickStop, Exit, BeginStop, ClickTick, CloseSocket, SkipSaving, PushTerminal, SettingSaved,
                Start, EditTerminals, ClearTerminals, members, controls
  <2>2. ui' # "clearing"
    BY <1>2 DEF ClickStop, Exit, BeginStop, ClickTick, CloseSocket, SkipSaving, PushTerminal, SettingSaved,
                Start, EditTerminals, ClearTerminals, Typed
  <2> QED BY <1>1, <2>1, <2>2 DEF Screen, disk, Filed
<1>3. CASE ClickStart \/ ReadControls
  <2>1. m_strLog' = box /\ UNCHANGED <<box, shown, disk>> /\ ui' # "clearing"
    BY <1>3 DEF ClickStart, ReadControls, UpdateDataTrue, ClearTerminals, controls
  <2> QED BY <1>1, <2>1 DEF Screen, disk, Filed
<1>4. CASE SaveLog
  <2>1. /\ Filed \subseteq Filed' /\ Range(m_strLog) \subseteq Filed'
        /\ UNCHANGED <<box, shown, m_strLog>>
    BY <1>4 DEF SaveLog, Filed, controls, members
  <2> HIDE DEF Filed
  <2> QED BY <1>1, <2>1 DEF Screen
<1>5. CASE ClearLog
  <2>1. Range(box) \subseteq Filed /\ Range(<<>>) = {}
    BY <1>5, EmptyRange DEF ClearLog, Screen
  <2>2. m_strLog' = <<>> /\ box' = <<>> /\ UNCHANGED <<shown, disk>> /\ ui' = "idle"
    BY <1>5 DEF ClearLog
  <2> QED BY <1>1, <2>1, <2>2 DEF Screen, disk, Filed
<1> QED BY <1>2, <1>3, <1>4, <1>5 DEF User, Handler

LEMMA WorkerScreen ==
    ASSUME Typed, Single, Screen, NEW w \in Worker, WorkerStep(w)
    PROVE  Screen'
<1>1. UNCHANGED <<ui, box, shown, disk>>
  BY DEF WorkerStep, Hello, Check, Receive, Fail, Judge, Load, Store, Act, controls
<1>2. CASE Load(w)
  <2>1. item' = [item EXCEPT ![w].seen = m_strLog] /\ UNCHANGED m_strLog
    BY <1>2 DEF Load, members
  <2>2. item'[w].seen = m_strLog /\ \A v \in Worker \ {w} : item'[v] = item[v]
    BY <2>1 DEF Typed, Item
  <2>3. \A v \in Worker \ {w} : pc'[v] = pc[v]
    BY <1>2 DEF Load, Goto, Typed
  <2> QED BY <1>1, <2>1, <2>2, <2>3 DEF Screen, disk, Filed
<1>3. CASE Store(w)
  <2>1. /\ pc[w] = "store" /\ pc' = [pc EXCEPT ![w] = "act"]
        /\ m_strLog' = Append(item[w].seen, item[w].d)
    BY <1>3 DEF Store, At, Goto
  <2>2. item[w].seen \in Seq(Datagram) /\ item[w].d \in Datagram
    BY <2>1 DEF Typed, Item, Handling
  <2>3. Range(m_strLog) \subseteq Range(m_strLog')
    BY <2>1, <2>2, Appended DEF Screen
  <2>4. Alive(w)
    BY <2>1 DEF Alive
  <2>5. \A v \in Worker : pc'[v] # "store"
    BY <2>1, <2>4, Alone DEF Typed
  <2> QED BY <1>1, <2>3, <2>5 DEF Screen, disk, Filed
<1>4. CASE Hello(w) \/ Check(w) \/ Receive(w) \/ Fail(w) \/ Judge(w) \/ Act(w)
  <2>1. UNCHANGED m_strLog
    BY <1>4 DEF Hello, Check, Receive, Fail, Judge, Act, members
  <2>2. \A v \in Worker : pc'[v] = "store" => v # w /\ pc[v] = "store"
    BY <1>4 DEF Hello, Check, Receive, Fail, Judge, Act, Call, Goto, Typed
  <2>3. \A v \in Worker \ {w} : item'[v] = item[v]
    <3>1. CASE Hello(w) \/ Check(w) \/ Fail(w) \/ Judge(w)
      BY <3>1, LooksApart DEF Looks
    <3>2. CASE Receive(w)
      BY <3>2, ReceiveEffect DEF Typed
    <3>3. CASE Act(w)
      BY <3>3, ActEffect DEF Typed
    <3> QED BY <1>4, <3>1, <3>2, <3>3
  <2> QED BY <1>1, <2>1, <2>2, <2>3 DEF Screen, disk, Filed
<1> QED BY <1>2, <1>3, <1>4 DEF WorkerStep

LEMMA NextScreen == ASSUME Typed, Single, Screen, [Next]_vars PROVE Screen'
<1>1. CASE RunCall
  <2>1. /\ box' = m_strLog /\ shown' = shown \union Range(m_strLog) /\ ui = "idle"
        /\ UNCHANGED <<ui, item, disk, m_strLog>>
        /\ \A w \in Worker : pc'[w] = "store" => pc[w] = "store"
    BY <1>1, RunCallEffect DEF members, RunCall
  <2> QED BY <2>1 DEF Screen, disk, Filed
<1>2. ASSUME NEW d \in Datagram, Arrive(d) PROVE Screen'
  BY <1>2 DEF Arrive, Screen, controls, disk, members, Filed
<1>3. CASE UNCHANGED vars
  BY <1>3 DEF vars, Screen, controls, disk, members, Filed
<1> QED BY <1>1, <1>2, <1>3, UiScreen, WorkerScreen DEF Next

LEMMA NextServed == ASSUME Typed, Served, [Next]_vars PROVE Served'
<1> USE DEF Typed, Served
<1>1. CASE ClickStop \/ Exit
  BY <1>1 DEF ClickStop, Exit, BeginStop, members
<1>2. CASE ClickStart
  BY <1>2 DEF ClickStart, UpdateDataTrue, ClearTerminals
<1>3. CASE ClickTick \/ SkipSaving \/ SettingSaved
  BY <1>3 DEF ClickTick, SkipSaving, SettingSaved, members
<1>4. ASSUME NEW c \in Configs, EditTerminals(c) PROVE Served'
  BY <1>4 DEF EditTerminals, ClearTerminals
<1>5. CASE CloseSocket
  BY <1>5 DEF CloseSocket
<1>6. CASE ReadControls \/ SaveLog \/ ClearLog
  BY <1>6 DEF ReadControls, SaveLog, ClearLog, members
<1>7. CASE PushTerminal
  BY <1>7 DEF PushTerminal
<1>8. CASE Start
  BY <1>8 DEF Start
<1>9. CASE RunCall
  BY <1>9 DEF RunCall, members
<1>10. ASSUME NEW w \in Worker, WorkerStep(w) PROVE Served'
  <2>1. UNCHANGED <<ui, after, m_start, m_udp>>
    BY <1>10 DEF WorkerStep, Hello, Check, Receive, Fail, Judge, Load, Store, Act, members
  <2> QED BY <2>1
<1>11. ASSUME NEW d \in Datagram, Arrive(d) PROVE Served'
  BY <1>11 DEF Arrive, members
<1>12. CASE UNCHANGED vars
  BY <1>12 DEF vars, members
<1> QED BY <1>1, <1>2, <1>3, <1>4, <1>5, <1>6, <1>7, <1>8, <1>9, <1>10, <1>11, <1>12
        DEF Next, User, Handler

LEMMA NextLogged == ASSUME Typed, Screen, Served, Logged, [Next]_vars PROVE Logged'
<1>1. CASE ClickStop \/ Exit \/ ClickTick \/ SkipSaving \/ SettingSaved \/ SaveLog \/ PushTerminal
           \/ RunCall \/ UNCHANGED vars
  BY <1>1 DEF ClickStop, Exit, BeginStop, ClickTick, SkipSaving, SettingSaved, SaveLog, PushTerminal,
              RunCall, vars, members, history, Logged
<1>2. CASE ClickStart \/ CloseSocket \/ ReadControls \/ ClearLog
  <2>1. ~m_start'
    BY <1>2 DEF ClickStart, CloseSocket, ReadControls, ClearLog, Served
  <2> QED BY <2>1 DEF Logged
<1>3. CASE Start
  BY <1>3 DEF Start, Logged
<1>4. ASSUME NEW c \in Configs, EditTerminals(c) PROVE Logged'
  BY <1>4 DEF EditTerminals, Logged
<1>5. ASSUME NEW w \in Worker, Store(w) PROVE Logged'
  <2>1. /\ m_strLog' = Append(item[w].seen, item[w].d) /\ fresh' = fresh \union {item[w].d}
        /\ UNCHANGED m_start /\ pc[w] = "store"
    BY <1>5 DEF Store, At
  <2>2. item[w].seen \in Seq(Datagram) /\ item[w].d \in Datagram
    BY <2>1 DEF Typed, Item, Handling
  <2>3. Range(m_strLog) \subseteq Range(item[w].seen)
    BY <2>1 DEF Screen
  <2>4. Range(m_strLog') = Range(item[w].seen) \union {item[w].d}
    BY <2>1, <2>2, Appended
  <2> QED BY <2>1, <2>3, <2>4 DEF Logged
<1>6. ASSUME NEW w \in Worker, Hello(w) \/ Check(w) \/ Receive(w) \/ Fail(w) \/ Judge(w) \/ Load(w) \/ Act(w)
      PROVE  Logged'
  BY <1>6 DEF Hello, Check, Receive, Fail, Judge, Load, Act, members, history, Logged
<1>7. ASSUME NEW d \in Datagram, Arrive(d) PROVE Logged'
  BY <1>7 DEF Arrive, members, history, Logged
<1> QED BY <1>1, <1>2, <1>3, <1>4, <1>5, <1>6, <1>7 DEF Next, User, Handler, WorkerStep

-------------------------------------------------------------------------------
(* What the terminals were told. *)

LEMMA NextTold == ASSUME Typed, Served, Told, [Next]_vars PROVE Told'
<1>1. CASE ClickStop \/ Exit
  <2>1. /\ ui = "idle" /\ ui' = "stopping" /\ Notify("offline")
        /\ UNCHANGED <<members, config, edited, late, pc>>
    BY <1>1 DEF ClickStop, Exit, BeginStop
  <2>2. ~edited => m_termina = config
    BY <2>1 DEF Told
  <2>3. ASSUME ~edited, ~late PROVE \A t \in config : notice'[t] # "online"
    BY <2>1, <2>2, <2>3 DEF Told, Notify, Typed
  <2> QED BY <2>1, <2>2, <2>3 DEF Told, members
<1>2. CASE ClickStart
  BY <1>2 DEF ClickStart, ClearTerminals, Told, Served, history, Typed
<1>3. CASE ClickTick \/ SaveLog \/ SkipSaving \/ ClearLog \/ ReadControls
  <2>1. /\ UNCHANGED <<m_start, m_udp, m_termina, config, pc, edited, late, notice>>
        /\ ui \notin {"filling", "stopping"} /\ ui' \notin {"filling", "stopping"}
        /\ ui' # ui => m_udp # "open"
    BY <1>3 DEF ClickTick, SaveLog, SkipSaving, ClearLog, ReadControls, members, history, Served
  <2> QED BY <2>1 DEF Told
<1>4. ASSUME NEW c \in Configs, EditTerminals(c) PROVE Told'
  BY <1>4 DEF EditTerminals, Told
<1>5. CASE CloseSocket
  <2>1. /\ UNCHANGED <<config, edited, late, notice>> /\ ui = "stopping" /\ m_start' = FALSE
        /\ m_udp' = "closed"
        /\ \/ m_termina' = {} /\ ui' = "filling"
           \/ m_termina' = m_termina /\ ui' = "reading"
    BY <1>5 DEF CloseSocket, ClearTerminals, history
  <2> QED BY <2>1 DEF Told
<1>6. CASE PushTerminal
  BY <1>6 DEF PushTerminal, Told, history
<1>7. CASE SettingSaved
  <2>1. /\ UNCHANGED <<members, config, edited, late, notice, pc>> /\ ui = "filling" /\ m_termina = config
        /\ ui' \in {"idle", "start", "gone"}
    BY <1>7 DEF SettingSaved, history, Typed
  <2>2. ~edited => m_udp # "open"
    BY <2>1 DEF Told, Served
  <2> QED BY <2>1, <2>2 DEF Told, members
<1>8. CASE Start
  <2>1. /\ ui = "filling" /\ after = "start" /\ m_termina = config /\ ui' = "idle"
        /\ UNCHANGED <<m_termina, config, edited, late, notice>>
        /\ \E w \in Worker : pc'[w] = "hello"
    BY <1>8 DEF Start, Typed
  <2>2. m_udp = "closed"
    BY <2>1 DEF Served, Typed
  <2> QED BY <2>1, <2>2 DEF Told
<1>9. CASE RunCall
  <2>1. /\ UNCHANGED <<ui, members, config, edited, late, notice>>
        /\ \A w \in Worker : pc'[w] # "hello" => pc[w] # "hello"
    BY <1>9, RunCallEffect
  <2> QED BY <2>1 DEF Told, members
<1>10. ASSUME NEW w \in Worker, Hello(w) PROVE Told'
  <2>1. /\ Notify("online") /\ late' = (late \/ ui # "idle")
        /\ UNCHANGED <<ui, members, config, edited>>
    BY <1>10 DEF Hello
  <2>2. ASSUME ~edited, ~late', m_udp = "open" PROVE \A t \in config : notice'[t] = "online"
    BY <2>1, <2>2 DEF Told, Notify, Typed
  <2>3. ASSUME m_udp = "closed" PROVE notice' = notice
    BY <2>1, <2>3 DEF Notify, Typed
  <2>4. m_udp \in {"open", "closed"}
    BY DEF Typed
  <2> QED BY <2>1, <2>2, <2>3, <2>4 DEF Told, members
<1>11. ASSUME NEW w \in Worker, WorkerStep(w), ~Hello(w) PROVE Told'
  <2>1. UNCHANGED <<ui, m_start, m_udp, m_termina, config, edited, late, notice>>
    BY <1>11 DEF WorkerStep, Check, Receive, Fail, Judge, Load, Store, Act, members, history
  <2>2. pc[w] # "hello" /\ \E p : pc' = [pc EXCEPT ![w] = p]
    BY <1>11 DEF WorkerStep, Check, Receive, Fail, Judge, Load, Store, Act, Call, At, Goto
  <2>3. \A v \in Worker : pc'[v] # "hello" => pc[v] # "hello"
    BY <2>2 DEF Typed
  <2> QED BY <2>1, <2>3 DEF Told
<1>12. ASSUME NEW d \in Datagram, Arrive(d) PROVE Told'
  BY <1>12 DEF Arrive, Told, members, history
<1>13. CASE UNCHANGED vars
  BY <1>13 DEF vars, Told, members, history
<1> QED BY <1>1, <1>2, <1>3, <1>4, <1>5, <1>6, <1>7, <1>8, <1>9, <1>10, <1>11, <1>12, <1>13
        DEF Next, User, Handler

-------------------------------------------------------------------------------
LEMMA InitIInv == Init => IInv
<1> SUFFICES ASSUME Init PROVE IInv
  OBVIOUS
<1> USE DEF Init
<1>1. Range(received) = {} /\ Range(ran) = {} /\ Range(m_strLog) = {} /\ Range(box) = {} /\ DOMAIN posted = {}
  BY EmptyRange
<1>2. \A w \in Worker : pc[w] = "new" /\ item[w].d = None /\ ~item[w].known
  BY DEF NoItem
<1>3. Ledger
  BY <1>1, <1>2 DEF Ledger
<1>4. Senders
  BY <1>1, <1>2 DEF Senders, Saved
<1>5. Single /\ Logged
  BY <1>2 DEF Single, Alive, Logged
<1>6. Queued
  <2>1. \A d, e : ~Before(ran, d, e)
    BY EmptyRange DEF Before
  <2> QED BY <1>1, <1>2, <2>1 DEF Queued
<1>7. Screen
  BY <1>1, <1>2 DEF Screen
<1>8. Served /\ Told
  BY ServiceAssumption DEF Served, Told
<1> QED BY <1>3, <1>4, <1>5, <1>6, <1>7, <1>8, InitTyped DEF IInv, Calm

LEMMA NextIInv == IInv /\ [Next]_vars => IInv'
<1> SUFFICES ASSUME IInv, [Next]_vars PROVE IInv'
  OBVIOUS
<1>1. Typed' /\ Ledger' /\ Senders' /\ Served' /\ Told'
  BY NextTyped, NextLedger, NextSenders, NextServed, NextTold DEF IInv
<1>2. Calm'
  <2> SUFFICES ASSUME ~overlapped' PROVE Single' /\ Queued' /\ Screen' /\ Logged'
    BY DEF Calm
  <2>1. Typed /\ Ledger /\ Served /\ Single /\ Queued /\ Screen /\ Logged
    BY OverlapStays DEF IInv, Calm
  <2> QED BY <2>1, NextSingle, NextQueued, NextScreen, NextLogged
<1> QED BY <1>1, <1>2 DEF IInv

\* For any numbers of datagrams, workers and restarts, commands run in the order in which
\* their datagrams came, as long as no start found an earlier worker alive.
THEOREM CommandsInOrder == Spec => []RunsInOrder
<1>1. IInv => RunsInOrder
  BY DEF IInv, Calm, Queued, RunsInOrder
<1> QED BY <1>1, InitIInv, NextIInv, PTL DEF Spec

\* Whatever the list of terminals looks like while the UI thread rebuilds it and a worker
\* reads it, a datagram is answered once at most, and none of a terminal never saved is.
THEOREM AnswersJustified == Spec => []AnsweredOnce
<1>1. IInv => AnsweredOnce
  BY DEF IInv, Typed, Ledger, Senders, Saved, AnsweredOnce
<1> QED BY <1>1, InitIInv, NextIInv, PTL DEF Spec

\* However stops, restarts and queued calls interleave, a line that was on the screen is
\* still there or was written to a file.
THEOREM LinesKept == Spec => []ShownKept
<1>1. IInv => ShownKept
  BY DEF IInv, Calm, Screen, Filed, ShownKept
<1> QED BY <1>1, InitIInv, NextIInv, PTL DEF Spec

\* While the service runs no line a worker has logged since the start is missing.
THEOREM LogIsComplete == Spec => []LogComplete
<1>1. IInv => LogComplete
  BY DEF IInv, Calm, Logged, LogComplete
<1> QED BY <1>1, InitIInv, NextIInv, PTL DEF Spec

\* The last notice a terminal got agrees with what the service does.
THEOREM NoticesTrue == Spec => []NoticeTrue
<1>1. IInv => NoticeTrue
  BY DEF IInv, Typed, Served, Told, NoticeTrue
<1> QED BY <1>1, InitIInv, NextIInv, PTL DEF Spec

\* The types of the whole state, as the runs check them on small instances.
THEOREM TypeCorrect == Spec => []TypeOK
<1>1. IInv => TypeOK
  BY DEF IInv, Typed, Item, Ledger, TypeOK
<1> QED BY <1>1, InitIInv, NextIInv, PTL DEF Spec
===============================================================================
