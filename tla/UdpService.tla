------------------------------ MODULE UdpService ------------------------------
(***************************************************************************)
(* The UDP remote control (UDPControlDlg.cpp): a dialog whose UI thread    *)
(* starts and stops the service, and the worker threads that receive       *)
(* datagrams, log them and hand commands to the UI thread.                 *)
(*                                                                         *)
(* The two sides share m_start, m_udp, m_termina and m_strLog without a    *)
(* lock, and Stop() does not join the worker: every step of a handler that *)
(* a worker can interleave with is an action of its own.  The two accesses *)
(* of m_strLog += log are separate steps (CString is not atomic).          *)
(*                                                                         *)
(* gtl::thread::start, gtl::callback::call, the sockets and MFC are not in *)
(* the repository: start() runs the function on one more thread, call()    *)
(* queues the function for the UI thread and, if SyncCall, waits for it.   *)
(***************************************************************************)
EXTENDS Naturals, Sequences, SequencesExt, FiniteSets

CONSTANTS
    Datagram,       \* the datagrams that may arrive, each at most once
    Terminal,       \* the ip addresses they come from
    Worker,         \* the threads m_thread.start may create: bounds the starts
    From,           \* From[d]: the sender of d
    Dispatchable,   \* the datagrams for which find_cmd finds a function
    Configs,        \* the lists of terminals the user may save
    FirstConfig,    \* the list the configuration file holds at launch
    SyncCall,       \* whether gtl::callback::call waits for the UI thread
    None            \* no datagram

ASSUME ServiceAssumption ==
    /\ From \in [Datagram -> Terminal]
    /\ Dispatchable \subseteq Datagram
    /\ FirstConfig \subseteq Terminal /\ Configs \subseteq SUBSET Terminal
    /\ SyncCall \in BOOLEAN
    /\ None \notin Datagram

VARIABLES
    ui,         \* where the UI thread is in the handler it runs
    after,      \* where it goes when SaveSetting has returned
    m_start, m_udp, m_termina, m_strLog, m_bSaveLog,    \* members of the dialog
    config,     \* the valid terminals in m_xml
    box,        \* the text of IDC_TxtLog
    tick,       \* the state of IDC_ChkSaveLog
    inbox,      \* the datagrams the open socket holds
    posted,     \* the calls queued for the UI thread
    pc,         \* pc[w]: where worker w is
    item,       \* item[w]: the datagram w handles and what it read about it
    lastFile, files,    \* the lines in the newest log file, and in the others
    replaced,   \* the lines of files that were overwritten
    received, ran,      \* history: datagrams received and commands run, in order
    replied,            \* history: replied[d], the number of replies to d
    shown,              \* history: the lines that were ever on the screen
    fresh,              \* history: the lines logged since the last start
    overlapped,         \* history: a start found an earlier worker alive
    edited,             \* history: the user saved a list of terminals
    late,               \* history: a worker said "online" during a handler
    notice              \* history: notice[t], the last notice sent to t

members == <<m_start, m_udp, m_termina, m_strLog, m_bSaveLog>>
controls == <<box, tick, shown>>
disk == <<lastFile, files, replaced>>
history == <<received, ran, replied, fresh, overlapped, edited, late, notice>>
vars == <<ui, after, members, config, controls, inbox, posted, pc, item, disk, history>>

TypeOK ==
    /\ ui \in {"idle", "stopping", "reading", "saving", "clearing", "filling", "gone"}
    /\ after \in {"idle", "start", "gone"}
    /\ m_start \in BOOLEAN /\ m_udp \in {"open", "closed"}
    /\ m_termina \subseteq Terminal /\ config \subseteq Terminal
    /\ m_strLog \in Seq(Datagram) /\ box \in Seq(Datagram)
    /\ m_bSaveLog \in BOOLEAN /\ tick \in BOOLEAN
    /\ inbox \subseteq Datagram
    /\ posted \in Seq([d : Datagram, run : BOOLEAN, by : Worker])
    /\ pc \in [Worker -> {"new", "hello", "top", "recv", "judge", "load", "store",
                          "act", "wait", "dead"}]
    /\ \A w \in Worker : /\ item[w].d \in Datagram \union {None}
                         /\ item[w].known \in BOOLEAN
                         /\ item[w].seen \in Seq(Datagram)
    /\ {lastFile, files, replaced} \subseteq SUBSET Datagram
    /\ received \in Seq(Datagram) /\ ran \in Seq(Datagram)
    /\ replied \in [Datagram -> 0 .. 2]
    /\ shown \subseteq Datagram /\ fresh \subseteq Datagram
    /\ {overlapped, edited, late} \subseteq BOOLEAN
    /\ notice \in [Terminal -> {"none", "online", "offline"}]

Alive(w) == pc[w] \notin {"new", "dead"}
NoItem == [d |-> None, known |-> FALSE, seen |-> <<>>]

(***************************************************************************)
(* UpdateData: DDX_Text moves text between m_strLog and the box, DDX_Check *)
(* between m_bSaveLog and the tick.  UpdateData(TRUE) reads the controls,  *)
(* UpdateData(FALSE) overwrites them.                                      *)
(***************************************************************************)
UpdateDataTrue == m_strLog' = box /\ m_bSaveLog' = tick

UpdateDataFalse ==
    /\ box' = m_strLog /\ tick' = m_bSaveLog
    /\ shown' = shown \union Range(m_strLog)

\* Stop() before m_start: the "offline" notices; "online" is the worker's.
Notify(word) ==
    notice' = [t \in Terminal |-> IF t \in m_termina /\ m_udp = "open"
                                  THEN word ELSE notice[t]]

\* After launch, before the first click.
Init ==
    /\ ui = "idle" /\ after = "idle"
    /\ m_start = FALSE /\ m_udp = "closed"
    /\ config = FirstConfig /\ m_termina = FirstConfig
    /\ m_strLog = <<>> /\ box = <<>> /\ shown = {}
    /\ m_bSaveLog \in BOOLEAN /\ tick = m_bSaveLog
    /\ inbox = {} /\ posted = <<>>
    /\ pc = [w \in Worker |-> "new"] /\ item = [w \in Worker |-> NoItem]
    /\ lastFile = {} /\ files = {} /\ replaced = {}
    /\ received = <<>> /\ ran = <<>> /\ replied = [d \in Datagram |-> 0]
    /\ fresh = {} /\ overlapped = FALSE /\ edited = FALSE /\ late = FALSE
    /\ notice = [t \in Terminal |-> "none"]

------------------------------------------------------------------------------
(* The UI thread: the Start/Stop button. *)

\* MUTANT: the terminals are not told.
BeginStopSilent(then) ==
    /\ ui = "idle"
    /\ ui' = "stopping" /\ after' = then
    /\ UNCHANGED <<members, config, controls, inbox, posted, pc, item, disk, history>>

\* OnBnClickedBtnstart while started, or the destructor: Stop() sends "offline".
BeginStop(then) ==
    /\ ui = "idle"
    /\ Notify("offline")
    /\ ui' = "stopping" /\ after' = then
    /\ UNCHANGED <<members, config, controls, inbox, posted, pc, item, disk, received,
                   ran, replied, fresh, overlapped, edited, late>>

ClickStop == m_start /\ BeginStop("idle")

\* ID_Exit, or the trial is over: the dialog is destroyed.
Exit == BeginStop("gone")

\* GetRemoteIPs, called by SaveSetting: clear(), then one push_back per terminal.
ClearTerminals == m_termina' = {} /\ ui' = "filling"

\* MUTANT: Stop() joins the worker before it closes the socket.
CloseSocketJoined ==
    /\ ui = "stopping"
    /\ \A w \in Worker : ~Alive(w)
    /\ m_start' = FALSE
    /\ m_udp' = "closed" /\ inbox' = {}
    /\ \/ after = "gone" /\ ClearTerminals
       \/ after # "gone" /\ ui' = "reading" /\ UNCHANGED m_termina
    /\ UNCHANGED <<after, m_strLog, m_bSaveLog, config, controls, posted, pc, item, disk,
                   history>>

\* The flag and closesocket: what the socket still held is gone, a blocked recvfrom
\* fails.  The destructor goes on with SaveSetting.
CloseSocket ==
    /\ ui = "stopping"
    /\ m_start' = FALSE
    /\ m_udp' = "closed" /\ inbox' = {}
    /\ \/ after = "gone" /\ ClearTerminals
       \/ after # "gone" /\ ui' = "reading" /\ UNCHANGED m_termina
    /\ UNCHANGED <<after, m_strLog, m_bSaveLog, config, controls, posted, pc, item, disk,
                   history>>

ReadControls ==
    /\ ui = "reading"
    /\ UpdateDataTrue
    /\ ui' = "saving"
    /\ UNCHANGED <<after, m_start, m_udp, m_termina, config, controls, inbox, posted, pc,
                   item, disk, history>>

\* MUTANT: the log is cleared although no file was written.
SaveLogUnwritten ==
    /\ ui = "saving" /\ m_bSaveLog /\ m_strLog # <<>>
    /\ ui' = "clearing"
    /\ UNCHANGED <<after, members, config, controls, inbox, posted, pc, item, disk, history>>

\* The file is named after the minute and opened for writing: a second stop in
\* the same minute replaces what the first one saved.
SaveLog ==
    /\ ui = "saving" /\ m_bSaveLog /\ m_strLog # <<>>
    /\ lastFile' = Range(m_strLog)
    /\ \/ files' = files \union lastFile /\ UNCHANGED replaced
       \/ replaced' = replaced \union lastFile /\ UNCHANGED files
    /\ ui' = "clearing"
    /\ UNCHANGED <<after, members, config, controls, inbox, posted, pc, item, history>>

\* Saving is off, the log is empty, or the file cannot be opened: nothing is cleared.
SkipSaving ==
    /\ ui = "saving"
    /\ ui' = "idle"
    /\ UNCHANGED <<after, members, config, controls, inbox, posted, pc, item, disk, history>>

ClearLog ==
    /\ ui = "clearing"
    /\ m_strLog' = <<>> /\ box' = <<>> /\ tick' = m_bSaveLog
    /\ ui' = "idle"
    /\ UNCHANGED <<after, m_start, m_udp, m_termina, m_bSaveLog, config, shown, inbox,
                   posted, pc, item, disk, history>>

\* OnBnClickedBtnstart while stopped; the port may be refused.
ClickStart ==
    /\ ui = "idle" /\ ~m_start
    /\ \E w \in Worker : pc[w] = "new"              \* bound: one worker per start
    /\ UpdateDataTrue
    /\ \/ ClearTerminals /\ after' = "start"
       \/ UNCHANGED <<ui, after, m_termina>>
    /\ UNCHANGED <<m_start, m_udp, config, controls, inbox, posted, pc, item,
                   disk, history>>

\* Start(): the flag, the socket (which may fail to open) and one more thread.
Start ==
    /\ ui = "filling" /\ m_termina = config /\ after = "start"
    /\ m_start' = TRUE
    /\ m_udp' \in {"open", "closed"} /\ inbox' = {}
    /\ \E w \in Worker : pc[w] = "new" /\ pc' = [pc EXCEPT ![w] = "hello"]
    /\ fresh' = {}
    /\ overlapped' = (overlapped \/ \E w \in Worker : Alive(w))
    /\ ui' = "idle"
    /\ UNCHANGED <<after, m_termina, m_strLog, m_bSaveLog, config, controls, posted, item,
                   disk, received, ran, replied, edited, late, notice>>

------------------------------------------------------------------------------
(* The UI thread: the settings, the tick and the queued calls. *)

\* OK in the dialog of the remote terminals, which may be open while the service
\* runs: the list goes into m_xml, then SaveSetting rebuilds m_termina from it.
EditTerminals(c) ==
    /\ ui = "idle"
    /\ config' = c
    /\ ClearTerminals /\ after' = "idle"
    /\ edited' = TRUE
    /\ UNCHANGED <<m_start, m_udp, m_strLog, m_bSaveLog, controls, inbox, posted, pc, item, disk, received, ran,
                   replied, fresh, overlapped, late, notice>>

PushTerminal ==
    /\ ui = "filling"
    /\ \E t \in config \ m_termina : m_termina' = m_termina \union {t}
    /\ UNCHANGED <<ui, after, m_start, m_udp, m_strLog, m_bSaveLog, config, controls, inbox,
                   posted, pc, item, disk, history>>

SettingSaved ==
    /\ ui = "filling" /\ m_termina = config /\ after # "start"
    /\ ui' = after
    /\ UNCHANGED <<after, members, config, controls, inbox, posted, pc, item, disk, history>>

\* The user clicks IDC_ChkSaveLog: its handler does nothing.
ClickTick ==
    /\ ui = "idle"
    /\ tick' = ~tick
    /\ UNCHANGED <<ui, after, members, config, box, shown, inbox, posted, pc, item, disk,
                   history>>

\* MUTANT: the newest call runs first.
RunCallLast ==
    /\ ui = "idle" /\ posted # <<>>
    /\ LET call == Last(posted) IN
       /\ posted' = Front(posted)
       /\ ran' = IF call.run THEN Append(ran, call.d) ELSE ran
       /\ pc' = [pc EXCEPT ![call.by] = IF @ = "wait" THEN "top" ELSE @]
    /\ UpdateDataFalse
    /\ UNCHANGED <<ui, after, members, config, inbox, item, disk, received, replied, fresh,
                   overlapped, edited, late, notice>>

\* The oldest queued call runs: the command, its reply (lost when the socket is
\* closed by now), and UpdateData(FALSE).
RunCall ==
    /\ ui = "idle" /\ posted # <<>>
    /\ LET call == Head(posted) IN
       /\ posted' = Tail(posted)
       /\ ran' = IF call.run THEN Append(ran, call.d) ELSE ran
       /\ replied' = [replied EXCEPT ![call.d] =
                        IF call.run /\ m_udp = "open" THEN @ + 1 ELSE @]
       /\ pc' = [pc EXCEPT ![call.by] = IF @ = "wait" THEN "top" ELSE @]
    /\ UpdateDataFalse
    /\ UNCHANGED <<ui, after, members, config, inbox, item, disk, received, fresh,
                   overlapped, edited, late, notice>>

------------------------------------------------------------------------------
(* A worker thread: the function Start() gives to m_thread. *)

At(w, place) == ui # "gone" /\ pc[w] = place

Goto(w, place) == pc' = [pc EXCEPT ![w] = place]

Hello(w) ==
    /\ At(w, "hello") /\ Goto(w, "top")
    /\ Notify("online")
    /\ late' = (late \/ ui # "idle")
    /\ UNCHANGED <<ui, after, members, config, controls, inbox, posted, item, disk,
                   received, ran, replied, fresh, overlapped, edited>>

\* while(this->m_start)
Check(w) ==
    /\ At(w, "top") /\ Goto(w, IF m_start THEN "recv" ELSE "dead")
    /\ UNCHANGED <<ui, after, members, config, controls, inbox, posted, item, disk, history>>

\* recvfrom returns a datagram
Receive(w) ==
    /\ At(w, "recv") /\ Goto(w, "judge")
    /\ \E d \in inbox :
         /\ inbox' = inbox \ {d}
         /\ item' = [item EXCEPT ![w].d = d]
         /\ received' = Append(received, d)
    /\ UNCHANGED <<ui, after, members, config, controls, posted, disk, ran, replied, fresh,
                   overlapped, edited, late, notice>>

\* MUTANT: a failed recvfrom is retried without looking at m_start.
FailRetried(w) ==
    /\ At(w, "recv") /\ m_udp = "closed" /\ Goto(w, "recv")
    /\ UNCHANGED <<ui, after, members, config, controls, inbox, posted, item, disk, history>>

\* recvfrom fails on a closed socket: continue
Fail(w) ==
    /\ At(w, "recv") /\ m_udp = "closed" /\ Goto(w, "top")
    /\ UNCHANGED <<ui, after, members, config, controls, inbox, posted, item, disk, history>>

\* is_valid_termina: reads m_termina while the UI thread may be rebuilding it
Judge(w) ==
    /\ At(w, "judge") /\ Goto(w, "load")
    /\ item' = [item EXCEPT ![w].known = From[item[w].d] \in m_termina]
    /\ UNCHANGED <<ui, after, members, config, controls, inbox, posted, disk, history>>

\* m_strLog += log: read, then write
Load(w) ==
    /\ At(w, "load") /\ Goto(w, "store")
    /\ item' = [item EXCEPT ![w].seen = m_strLog]
    /\ UNCHANGED <<ui, after, members, config, controls, inbox, posted, disk, history>>

\* MUTANT: "=" for "+=".
StoreOver(w) ==
    /\ At(w, "store") /\ Goto(w, "act")
    /\ m_strLog' = <<item[w].d>>
    /\ item' = [item EXCEPT ![w].seen = <<>>]
    /\ fresh' = fresh \union {item[w].d}
    /\ UNCHANGED <<ui, after, m_start, m_udp, m_termina, m_bSaveLog, config, controls, inbox,
                   posted, disk, received, ran, replied, overlapped, edited, late, notice>>

Store(w) ==
    /\ At(w, "store") /\ Goto(w, "act")
    /\ m_strLog' = Append(item[w].seen, item[w].d)
    /\ item' = [item EXCEPT ![w].seen = <<>>]
    /\ fresh' = fresh \union {item[w].d}
    /\ UNCHANGED <<ui, after, m_start, m_udp, m_termina, m_bSaveLog, config, controls, inbox,
                   posted, disk, received, ran, replied, overlapped, edited, late, notice>>

\* m_callback.call
Call(w, run) ==
    /\ posted' = Append(posted, [d |-> item[w].d, run |-> run, by |-> w])
    /\ Goto(w, IF SyncCall THEN "wait" ELSE "top")

\* MUTANT: no "continue" after an unknown terminal.
ActUnchecked(w) ==
    /\ At(w, "act")
    /\ \/ /\ item[w].d \notin Dispatchable
          /\ replied' = [replied EXCEPT ![item[w].d] = IF m_udp = "open" THEN @ + 1 ELSE @]
          /\ Goto(w, "top")
          /\ UNCHANGED posted
       \/ /\ item[w].d \in Dispatchable
          /\ Call(w, TRUE)
          /\ UNCHANGED replied
    /\ item' = [item EXCEPT ![w] = NoItem]
    /\ UNCHANGED <<ui, after, members, config, controls, inbox, disk, received, ran, fresh,
                   overlapped, edited, late, notice>>

\* The datagram is dispatched: an unknown terminal only refreshes the screen, an
\* unknown command is answered by the worker itself, a command goes to the UI thread.
Act(w) ==
    /\ At(w, "act")
    /\ \/ /\ ~item[w].known
          /\ Call(w, FALSE)
          /\ UNCHANGED replied
       \/ /\ item[w].known /\ item[w].d \notin Dispatchable
          /\ replied' = [replied EXCEPT ![item[w].d] = IF m_udp = "open" THEN @ + 1 ELSE @]
          /\ Goto(w, "top")
          /\ UNCHANGED posted
       \/ /\ item[w].known /\ item[w].d \in Dispatchable
          /\ Call(w, TRUE)
          /\ UNCHANGED replied
    /\ item' = [item EXCEPT ![w] = NoItem]
    /\ UNCHANGED <<ui, after, members, config, controls, inbox, disk, received, ran, fresh,
                   overlapped, edited, late, notice>>

WorkerStep(w) ==
    \/ Hello(w) \/ Check(w) \/ Receive(w) \/ Fail(w)
    \/ Judge(w) \/ Load(w) \/ Store(w) \/ Act(w)

\* A datagram reaches the socket.  One that was lost with it may be sent again.
Arrive(d) ==
    /\ m_udp = "open" /\ ui # "gone"
    /\ d \notin inbox \union Range(received)
    /\ inbox' = inbox \union {d}
    /\ UNCHANGED <<ui, after, members, config, controls, posted, pc, item, disk, history>>

------------------------------------------------------------------------------
\* The steps with which the UI thread finishes a handler it is in.
Handler ==
    \/ CloseSocket \/ ReadControls \/ SaveLog \/ SkipSaving \/ ClearLog
    \/ PushTerminal \/ SettingSaved \/ Start

User ==
    \/ ClickStop \/ ClickStart \/ ClickTick \/ Exit
    \/ \E c \in Configs : EditTerminals(c)

Next ==
    \/ User \/ Handler \/ RunCall
    \/ \E w \in Worker : WorkerStep(w)
    \/ \E d \in Datagram : Arrive(d)

\* The scheduler runs every thread; GetMessage returns queued calls before input,
\* so a call is not put off by the user's clicks.
Fairness ==
    /\ WF_vars(Handler)
    /\ SF_vars(RunCall)
    /\ \A w \in Worker : WF_vars(WorkerStep(w))

Spec == Init /\ [][Next]_vars /\ Fairness

------------------------------------------------------------------------------
Before(s, d, e) == \E i, j \in DOMAIN s : i < j /\ s[i] = d /\ s[j] = e

\* As long as no start found an earlier worker alive, commands run in the order in
\* which their datagrams were received, and none twice, even across restarts that
\* leave calls in the queue.
RunsInOrder ==
    ~overlapped => \A d, e \in Datagram : Before(ran, d, e) => Before(received, d, e)

\* A datagram is answered at most once, and never when its sender has not been a
\* saved terminal: whatever the list looks like while it is rebuilt.
AnsweredOnce ==
    \A d \in Datagram :
        /\ replied[d] <= 1
        /\ replied[d] = 1 => From[d] \in FirstConfig \union UNION Configs

\* A line that was on the screen stays on it or is in a log file.  The exceptions
\* are two workers (their += lose updates) and a file overwritten in its minute.
ShownKept ==
    ~overlapped => shown \subseteq Range(box) \union files \union lastFile \union replaced

\* While the service runs, the log has every line logged since it was started:
\* the dialogs and the calls the UI thread runs meanwhile drop none.
LogComplete == ui = "idle" /\ m_start /\ ~overlapped => fresh \subseteq Range(m_strLog)

\* Between handlers the terminals' last notice tells the truth: "online" once the
\* workers have said hello, not "online" when stopped or gone.  The exceptions are a
\* list that was edited and a hello that fell into the handler which stops.
NoticeTrue ==
    ~edited /\ ~late =>
        \A t \in m_termina :
            /\ ui = "idle" /\ m_udp = "open" /\ (\A w \in Worker : pc[w] # "hello")
                   => notice[t] = "online"
            /\ ui \in {"idle", "gone"} /\ ~m_start => notice[t] # "online"

\* Every datagram a worker received is disposed of: its command has run, or it was
\* refused; the threads never wait for each other in a circle.
Pending(d) ==
    \/ \E w \in Worker : item[w].d = d
    \/ \E i \in DOMAIN posted : posted[i].d = d

EveryOneHandled == \A d \in Datagram : Pending(d) ~> (~Pending(d) \/ ui = "gone")

\* Without a join: if the service stays stopped, every worker ends.
WorkersEnd ==
    <>[](~m_start) => <>[](ui = "gone" \/ \A w \in Worker : ~Alive(w))
==============================================================================
