# A verification project for rxplorer

rxplorer is distributed as a Windows shell (RExplorer, binaries only) with the
sources of the programs and skins around it. The sources hold two programs with
threads and network peers of their own, both under
`src/tools/Explorer+/Skins/svr`, and scripts that run inside the shell and answer its
events, the largest being the skin of the Explorer+ window:

| part | files | state it keeps | operations |
|---|---|---|---|
| slideshow server | `server.h`, `session.h` | acceptor; `m_sessions`, the clients made for connections; `m_clients`, the registry by ip + name; per session a raw pointer to its client | accept, login, close, write completion, `clients()` for the host |
| slideshow client | `client.h` | list of packets to send or to be acknowledged, list of files still to be cut, last identifier, `m_session` | `send` (host's thread), `handle_recv`, `handle_write`, `handle_login`, `handle_close` (io thread) |
| packet framing | `client.h`, `MainActivity.java` | `m_recv_queue`, which belongs to the client | `handle_recv` of one read |
| receive buffer | `MainActivity.java` (`circle_queue`) | array, `front`, `rear` | push, pop, skip, get |
| device app | `MainActivity.java` | open image files by hash, socket | show a text, collect an image, packet codec |
| UDP remote control, service | `UDPControl/UDPControlDlg.cpp`, `DialogRemoteIPSetting.cpp` | `m_start`, socket, `m_termina`, `m_strLog`, controls, log files | start, stop, save settings, worker's receive/judge/log/dispatch, queued calls, exit |
| UDP remote control, commands | `UDPControlDlg.cpp`, `Volume.h` | two shutdown timers, volume, what was launched | the command table and its functions, timers |
| UDP remote control, quick starts | `DialogStartupSetting.cpp` | the dialog's members and boxes, the command lines in `config.xml` | open, type, browse, OK, cancel; `cmd:` while it is open |
| UDP remote control, settings | `UDPControlDlg.cpp` and its dialogs | `config.xml`, its copy in memory, members, controls, trial timer | launch, type, start, stop, OK in a dialog, register, exit, kill |
| Explorer+ tabs and panes | `skin.js`, `init.js` | tabs of two panes, their views, the current tab of the window and of each pane, two session files and `setting.json` | make, click, duplicate, close; events `open` and `active`; gestures; show and hide the second pane; copy and move; save and restore |
| Explorer+ dialogs | `options.js`, `about.js`, `update.js` | options | edit, register, update |
| players, direct UI explorer, build script | `dui/Skins/*/*.js`, `AutoIncVer.py` | play list position; counters; the resource file | play, pause; add frame; increment |

How they interact: the host calls `client::send` on its own thread; boost's
`io_service` calls the handlers of sessions and acceptor on another, and nothing
locks a client. A login moves a session from the client made for the connection
to the one in the registry. The device runs the same `handle_recv` over a
circular array. In the remote control a worker thread receives datagrams,
writes the dialog's log string and queues calls for the UI thread, which starts
and stops workers, saves the log and rebuilds the list of terminals the worker
searches; again without a lock, and without a join at a stop. A modal dialog of the remote
control pumps messages, so queued commands run while it is edited. The scripts of the
skin run to completion for each click and each event, but the native program reports
what a click caused later, possibly after the next one.

What is hard, and hard to test: `send` between completions; reconnections while
old sessions still have events; acknowledgements that empty a list nobody pumps;
16-bit identifiers that wrap; one frame taken out per read; two workers after a
quick restart; lines logged while a stop saves and clears; calls that outlive
the service they were queued by; timers replaced and cancelled; a kill at any
moment between settings changed and settings saved, or while a session file is
rewritten; a folder that opens when another tab has become the current one. `hazards` in `PROJECT.json`
lists these at their lines, each with the properties that watch it.

## Modules

| module | models | role |
|---|---|---|
| `BytePipe` | what the protocol code expects of the buffer | abstract specification |
| `CircleQueue` | the array, its index arithmetic, the copies in two parts | implements `BytePipe` |
| `FrameReceiver` | `handle_recv`, C++ and Java | instance of `BytePipe` for its queue |
| `SlideClient` | operators on one client: packets, files, identifiers | used by the next two |
| `ClientPump` | one client between the host's thread and the io thread | state machine |
| `SlideServer` | acceptor, sessions, registry, many clients | state machine |
| `UdpService` | UI thread, worker threads, queued calls, log | state machine |
| `Volume` | `CVolume`: what a reading may be and what is set of it | operators of the next |
| `UdpCommands` | table, command functions, timers, volume | state machine |
| `QuickStarts` | the dialog of the command lines and their file, composed with `UdpCommands` | state machine |
| `UdpSettings` | configuration across launches, exits and kills | state machine |
| `ExplorerTabs` | tabs, panes and sessions of the Explorer+ window | state machine |
| `CircleQueueProofs`, `FrameReceiverProofs`, `SlideClientProofs`, `ClientPumpProofs`, `SlideServerProofs`, `UdpServiceProofs`, `UdpControlProofs` (commands, quick starts and settings), `ExplorerTabsProofs` | theorems | |
| `MC*` | constants of the instances TLC checks | |

Composition: `ClientPump` and `SlideServer` share `SlideClient`, so the pump that
is proved about is the one the server runs. `FrameReceiver` uses `BytePipe`'s
`Appended`, so it holds for any buffer that implements `BytePipe`, and
`CircleQueueProofs` shows that the array does. `QuickStarts` extends `UdpCommands`: a
step is one of the dialog or one of the commands, and both use the same `cmdline`. The
three `Udp` modules cut the remote control along data that is not shared: what a
command does never looks at the log or the list of terminals, and the settings never
look at timers. `UdpSettings` and `QuickStarts` have no name in common, so that
`UdpControlProofs` can extend both; each theorem there is about the specification of one.

### How state and actions correspond to the code

Every action carries the name of its handler or says which lines it is in its
comment; `map` in `PROJECT.json` gives the lines of each definition. In short:

- **ClientPump.** `ui` is the statement of `client::send` the host's thread is at, `io`
  the statement of `client::handle_write` the io thread is at, each with the body of the packet it
  makes. Between any two statements the other thread may take its own: `HostPush`, `HostId`,
  `HostData` are lines 182 to 184 for a text and 212 to 215 for a file, `IoPush`, `IoId`, `IoData`
  lines 343 to 346; both threads push and then fill through `back()`, which may be the
  other's packet by then. `TextTest` finds a packet alone and `HostSend` sends the front later;
  `FileAlone` finds a file alone, `FileTell` and `FileRead` read from it later, which `IoTell` and
  `IoRead` may do as well. A handler of the io thread is one action up to its call of
  `handle_write`, which goes on from `scan`: a handler uses a list in one statement
  only (`RecvAck` erases, `LoginAgain` resets). The loop of `IoScan` that looks for the first packet not
  sent and sends it is one step, as the packets before that one are not changed
  by `send`. What two threads make of a `std::list` in the midst of one statement, a data race, is
  not modelled. With `locked` the host runs on the io thread and waits its turn.
  `writing[c]` holds the frames of the writes in flight on connection `c`;
  `owed[c]` what the device may still acknowledge. A packet's `frame` is its
  `m_buff`: filled once, at the first send, and never refilled, which is why
  what is assigned later is not transmitted. `m_packets.back()` of an empty
  list is taken to assign to no packet.
- **SlideServer.** The c-th accepted connection makes session `c` and client `c`;
  `m_client` and `clients[k].session` are the two pointers a login moves. `Login`
  is `client::handle_login` and then `server::handle_login` in one action. A write
  is bound to a raw session pointer, so on a session nothing refers to any more
  (`Freed`) the handler may or may not still find its client.
- **FrameReceiver.** A read takes any number of the next bytes. `receiver` is the
  program the run is about: they differ in `Decode`, because `packet.set` of the
  app shifts the sum of the two bytes of the length. `Dispatch` hands a frame on: on the
  server a connection begins with a client of its own (`fresh`), whose first frame is the login; the first
  login registers that client, a later one moves the session to the registered client and
  with it the reads to its queue (`kept`), while what was read behind the login stays
  in the queue of the client made for the connection. The app has one client and one queue.
- **UdpService.** `ui` is where the UI thread is inside a handler the worker can
  interleave with: stopping (notices sent, socket open), reading (socket closed,
  controls not read), saving, clearing, filling (`GetRemoteIPs` rebuilding the
  list). A worker's `pc` follows its loop; `Load` and `Store` are the two halves
  of `m_strLog += log`. `posted` is the queue of `gtl::callback`.
- **UdpCommands.** One `Execute` per text that reaches a known terminal's
  dispatch; time is counted in ticks, `Second` of them for 1000 ms and `Word`
  values to an unsigned int, so the 32-bit product of `SetTimer` is computed with
  its wrap. `WindowEnds` is every end of the program, by the trial's timer, the user or a kill,
  and takes the timers with it.
  `FindCmd` searches the table of the source in its order, with the 88 keys as one entry.
  `TurnVolume` reads, computes and sets as the code does; each of the three may fail, and
  the level it reads is cut to a percentage and cut again when it is set (`Volume`); the sum it
  sets is an int of `Wide` values, and wraps (`Wrapped`).
- **QuickStarts.** `m_strCmd` and `box` are the dialog's members and its controls, which
  `UpdateData` moves one to the other; `dialog` says whether it is open and which box a
  file is browsed for. `Ends` is an exit, which saves, or a kill, which does not, and
  `Starts` the launch after it.
- **ExplorerTabs.** `ui` is the record of the script's globals and of the views the native
  program holds; a function of `skin.js` is an operator on it (`ClickTab`, `NewTabs`,
  `NewTabView`, `CloseTab`, `LoadSession`), a handler of `init.js` is `OnOpen` or
  `OnActive`, and a click is an action of `User`. `ui.events` are the reports the native
  program still owes. `left` holds the files `on_close` has still to write, so a kill can
  come between two of them, or inside one (`CutOff`). Every file may fail to open, without a word: for
  reading it is then taken for an empty one (`Sessions`), for writing it stays as it was
  (`Written`).
- **UdpSettings.** `xml` is the file on the disk, `m_xml` its copy, the members and the
  controls are apart because `UpdateData` moves one to the other.

Code that is not in the repository is modelled from its use and marked external
in the map: `gtl::file::eof` (both readings of it, `EagerEof`), `gtl::callback`
(both, `SyncCall`: the call may or may not wait for the UI thread), `SetTimer`,
the network and the operating system. Of the native program `ExplorerTabs` assumes
what the handlers rely on: it reports in the order in which things happen, "open" when
a view has gone to another folder and "active" when one has become the active one,
possibly after the next click; a gesture comes after all events before it; a tab that
is not in a pane has the index -1 there and `visible()` of a removed tab is false.

## Runs

All bounds are in the `.cfg` files. They are the smallest at which the cases named
here occur; each property's mutant in `PROJECT.json` shows that the bound is
large enough for it to fail.

| run | instance | what it shows |
|---|---|---|
| CircleQueue | 4 cells, writes of up to 3 bytes, two byte values | every call and result of the array is one of `BytePipe`'s; wrap-around, overflow and the unused cell occur at this size |
| Pump | a text and a file of one piece, a file of two, two texts, or a text and a file too large for an int; a login more, over the same or a second connection, ids up to 2; `send` on either thread | `NothingLost` up to the two exceptions it names; sent packets come first (`SentPrefix`) and what is sent twice (`ResendsOnlyFront`); `StrandedNeedsLogin`; the pump drains (`PumpDrains`); with `send` on the io thread also `OneWrite` and `NullNeverUsed`, neither of which holds otherwise |
| Server | two devices behind one address, two texts and a file; connections, repeated logins (under either name) and files sent are at most three together | no client is released, a device is in the registry once, a client is on its latest session or on none, frames reach the device they are for, no null session is used by well-formed input, a login resumes sending |
| Frames | streams of up to three frames, payloads with the mark, reads of 1 to 6 bytes, three connections, both programs | a peer that sends frames while reads are under way: bytes are in frames or in the queue; a clean stream is never refused; a frame waits only after a read that completed two |
| UdpThreads | two commands, two terminals, two starts | commands run in the order received, shown lines are kept, the log is complete, terminals are told the truth, each up to the exceptions in its statement |
| UdpLive | a command, a text that is none, a stranger; terminals edited while the service runs; calls that wait | `AnsweredOnce`; every datagram is disposed of; the worker ends after a stop |
| Shutdown | every word of the table but the quick starts and the volume; 1, 9 and 22 seconds, the last of which wraps; times are small, 3 ticks a second and 64 values to an unsigned int | the machine goes down only when asked and not before; a request that stands is carried out unless the program ends before; a refused text changes nothing |
| Commands | quick starts 8 and 9, one command line; `cmd:`, `cmdname:`, `volume+`, `volume-` with 8, 1020 or nothing, 1023 being the greatest int; a mixer of 8 levels, and an endpoint | the volume moves in the direction asked though it is cut twice, unless a reading failed or the sum wrapped; what was last put into a box is saved; `cmd:` starts what was accepted, also after an exit or a kill |
| Settings | two ports, one at the edge of the range and refused, a trial of 3 seconds | the port survives every way the program ends, the next launch starts with it, a registration is not lost, a trial ends |
| Tabs | two folders; at first no session, two tabs in each pane with one pane shown, settings cut off, or a session cut off; the user acts up to four times, with any number of events outstanding | every tab that was shown has its view and no view is left over; a tab's path is its view's folder once its events have come; copying goes across the panes; a session outlives saves, ends and starts |
| AutoStart | one port | violated: see below |
| WinKey | as Shutdown, without the 22 | violated: see below |

`CHECK_DEADLOCK FALSE` is set where the system may stop: nothing more to send,
the dialog gone, the machine off.

In Tabs the user acts up to four times (`MaxActs`), in one run or over several, and no guard looks at the
events outstanding: a tab may be clicked, closed and another made before the first event
has come. He saves or ends the program after at most two acts (`MaxSaved`), or may be killed at any time;
from then on only the program acts, which is started, restores what was left, may be saved, ended and
killed again. Four acts are enough to make a tab, navigate in it, click another and close it before
"open" comes. In Pump the four cases of `Calls` are those in which the host's thread passes each of its
statements while the io thread has something of its own to do; two identifiers are the fewest, and
wrap with the third packet. In Frames the third connection is the first on which the server's stream goes
on in a queue that was left by a second one. In Commands slot 8 has a name and slot 9 has none.

Two workers are interchangeable and are a symmetry set in UdpThreads, which checks
safety only. In Server one budget, `NConn`, covers connections, repeated logins
and files (`Room`), because each of them alone is interesting and all of them
together are too many states; every mix that adds up to three is explored, such as
two connections of a device and a file, or one connection with two repeated logins.

### Exceptions the properties name

A property that holds only up to an exception says which, with a history variable
that records it. They are the results a reader should know:

- `NothingLost`: `raced`, the threads met in a packet or in a file: a packet was sent while it was
  filled in, so it went out empty; both filled one in, so one has the other's contents; both read
  a file, or one was taken off the list while it was read, so a piece is skipped. `reused`, the 16-bit
  identifier came round to a packet still unacknowledged, and its acknowledgement
  erases another packet. The app in the repository never acknowledges, so lists do grow. Files
  too large for an int are exempt: `send` takes them off the list again.
- `StrandedNeedsLogin`: a packet that waits when no write is in flight and none is about to be
  started (`Quiet`) waits for a login, because neither `send` nor an acknowledgement starts the pump
  again. While `send` of a file is between its test and its `send` of the front, a write is
  about to be started.
- `ResendsOnlyFront`: the front is sent again by `handle_write` after it has read a piece, and by a `send`
  that was overtaken: after it found its packet or file alone the other thread started a write, or an
  acknowledgement removed an unsent packet before it. What was in flight when a connection died is not
  sent again after the return: `client::handle_login` resets the packets of the client made
  for the new connection, which has none.
- `Aligned`, `WaitsOnlyIfMerged`: not when the queue overflowed, when the app misreads a length, or when
  streams were spliced: the queue the new stream goes on in held the rest of an old
  one, or bytes were read behind the login of a device that returns.
- `OnLatestSession`: an old session that ends after the device has returned detaches
  the client from its new session (`stale`).
- `EveryClientKept`: no pointer dangles because nothing is ever released; each
  reconnection leaves one client and one session in memory.
- `RunsInOrder`, `LogComplete`, `ShownKept`: not when a start found an earlier worker
  alive (`overlapped`): a stop does not join, two workers then race. `LogComplete` and
  `ShownKept` say no more than that lines on the screen are kept: a line logged and not
  yet shown is overwritten when a stop reads the box back.
- `ShownKept`: nor for a log file overwritten by a second stop in the same minute, the
  file's name having no seconds (`replaced`).
- `NotBeforeTime`: not for a delay that does not fit a timer (`Granted`): 2147484 seconds
  and more are cut to 2^31 - 1 ms, and the product wraps from 4294968 seconds on, to 704 ms
  for that one.
- `ShutdownHappens`: not when the program ends before, which an unregistered copy does after 600
  seconds: `poweroff:900` is then never carried out.
- `VolumeDirection`: not when the sum wraps: `volume+2147483647` at 1 % or more makes a negative
  number of it, which is set as 0. Nor when a reading failed. `GetVolume` then says 0, so `volume+` may set
  the level to the step alone; or, when the mixer's control is not read, a number of 100 or
  more, so `volume-` may set it to full.
- `EnteredIsSaved`: not for a box typed into before a file was browsed for another one:
  `SelectFile` shows its answer with `UpdateData(FALSE)` and did not read the boxes first.
- `SessionSurvives`: not when the program is killed, since files are written over; nor when a file does
  not open, which is then not written, or restored as if it were empty and saved over; nor for the
  second pane until its session has been loaded, by the first "active" event: what is
  saved or closed before that saves it empty. A `setting.json` that was cut off makes
  `load_setting` throw at the next launch before either session is loaded, and the close
  after that saves both empty.
- `OneViewPerTab`, `CopyGoesAcross`: tabs restored and never clicked have no view; a tab can
  be current though its pane is hidden, and then nothing is copied.
- `PortRemembered`: not after a typed port was refused, or a launch without a network.

### Disagreements with the documents

- *AutoStart.* `问题.txt:2` asks that the program start the service by itself once the
  port is set. When the own ip is not found at a launch, `OnInitDialog` returns before
  it reads the settings, the destructor saves the port 0 the constructor set, and the
  next launch does not start.
- *WinKey.* The manual lists `win+` and a key among the combinations. `find_cmd` matches the
  entries 0 to 10 as prefixes and `win+` is entry 11, so the text is answered with an error.

Met while reading the manual beside the code, not made into runs: `cancel poweroff`
cancels its own timer only, where example 5 says it calls off restarts too;
`cmdname:` refuses 9 to 16; stopping does not clear the log when saving is off, and
exiting saves none of it.

Met while modelling, where no document says what is meant: with a mixer of 65535 levels
`volume+1` (and `volume+` alone) sticks where one per cent is cut twice, first at 1 %,
although the manual offers steps from 1 to 100; a mixer whose control is not found is not
closed (`Volume.h:77`); the current tab may be in a second pane that is hidden, and a new
tab is then opened there, where nobody sees it (`skin.js:659`, `723`); a restored tab that
is clicked is opened without its saved view mode (`skin.js:300`).

## Fairness

- ClientPump: a write that was started ends, well or badly (`asio` always calls the
  handler), and the scheduler lets both threads go on with the `send` or `handle_write` they are in. Nothing makes the host send, the
  device acknowledge, fail or come back.
- UdpService: the scheduler runs every thread, so handlers that were entered are
  finished and workers step; `GetMessage` returns queued messages before input, so a
  queued call is not put off for ever by clicks (strong fairness of `RunCall`, since a
  handler in progress disables it). Datagrams need not arrive and users need not act.
- UdpCommands: time passes, and a timer that is due is delivered, while the program runs. That it
  runs on is not assumed: `WindowEnds` disables both, and `ShutdownHappens` names it.
- UdpSettings: the trial timer ticks.

CircleQueue, FrameReceiver, SlideServer, QuickStarts and ExplorerTabs are checked for
safety only.

## Proofs

Checked by TLAPS for every value of the constants under the named assumptions of
each module: sizes are naturals, a null pointer is no packet and no connection, a text is
no file, there are at least two identifiers, a byte is a natural, `null` is no folder, number or
boolean, a file that was cut off is neither a list nor a boolean. Each safety property and each action property
of the runs but two is stated by a theorem.

- `CircleQueueProofs!IndicesInside`, `Implementation`: for any array size and any
  longest write below it, indices stay inside and the array implements `BytePipe`.
  The type invariant is inductive as it stands. The step lemma maps the cells between
  `m_front` and `m_rear` to the pipe's sequence; what needs proof is the arithmetic
  modulo the size (`Difference`, `LengthValue`) and that a copy in two parts stores
  and loads the bytes of a copy in one (`StoredCells`, `LoadedBytes`).
- `FrameReceiverProofs!StreamAligned`, `CleanIsAccepted`, `MergedReadsDelay`: for frames of any
  length, a queue and reads of any size and any number of connections. `Wired` says what
  the stream is made of: behind the end of each frame lie the mark, the length and the
  payload of the next. `Cut` says that the queue, unless streams were spliced, begins where the last frame
  taken out ends, so its front shows the next frame (`NextFrame`), and a read takes it out exactly when
  its last byte has come (`RecvTakes`). `Behind` adds that without merged reads the last frame
  in the queue is not whole. The peer's stream is a variable that grows by frames,
  and not a function of the frames: what flattening a sequence of sequences gives would
  need induction.
- `ClientPumpProofs!TypeCorrect`, `PumpInOrder`: the packets that were sent come first
  in the list. That alone is not inductive: `handle_write` appends a packet with an
  identifier and a piece of a file, so `IInv` adds that the list holds packets, that
  identifiers are in range, that no file is read past its end, and what each thread has in its
  hands at each of its statements (`ThreadsOK`). The lemmas prove once for each statement that it
  keeps this (`Good`), whatever the other thread is at.
- `ClientPumpProofs!StrandedUntilLogin`, `OnlyFrontResent`: about single steps. The first follows from
  where the threads are in a `Quiet` state: none of the steps they can take from there starts a write.
  The second needs `FrontNew`: as long as a `send` was not overtaken, the packet it pushed, or for
  a file all of the list, has not been sent.
- `ClientPumpProofs!SessionNotNull`: with `send` on the io thread no null session is used.
  `Held` says that the session tested by `send`, or by `handle_write`, is still there at every later
  statement of it, and that a `send` which is to send has a packet in the list.
- `SlideServerProofs`: for any numbers of devices, connections, texts and files.
  `ClientsKept` (a session's raw pointer is to a client that some list holds), `OneEntryEach` (the
  keys of the registry differ), `LatestSession`, `CrashIsBadInput` (a client that can still
  log in has its own session: `Newcomers`), `ReloginPutsInFlight`. `RightDevice` assumes
  `Distinct`: no two devices have an address and a name that concatenate to the same key. The
  code assumes it too (`server.h:69`) and the instance of the run satisfies it; without it two devices are
  one to the server. What is proved from it is that packets, files, frames in flight and the
  client behind a session all belong to the device of the connection (`OneDevice`).
- `UdpServiceProofs`: for any numbers of datagrams, terminals, starts and workers.
  `AnswersJustified` rests on `Ledger`, which says where a received datagram is (with one worker, in
  one queued call, or done), and on `Senders`, that the list of terminals never holds one
  that was not saved, though it is empty or half filled while it is rebuilt.
  `CommandsInOrder`, `LinesKept` and `LogIsComplete` hold while no two workers were alive:
  `Calm` says where the one worker's datagram stands between those that ran and those
  that wait, and what of the log is on the screen, in the file or still in the worker's
  hands. `NoticesTrue`: the last notice is that of the last start or stop.
- `UdpControlProofs!SettingsTyped`, `PortIsRemembered`, `ServiceStartsAgain`:
  `SettingsIInv` strengthens `PortRemembered` with what the members and the copy in memory hold when
  the last start was accepted, since the file is written from them by every dialog and
  by the destructor. `RegistrationStays` rests on `Licensed`: the license in memory is
  that of the file while the program runs, and the trial's timer is set for an unlicensed
  program only.
- `UdpControlProofs!VolumeTurnsRight`: for any `lMaximum` up to 21474836 (above, the
  product of a percentage and the greatest level wraps as an int), with `LevelOK`, the level in its range, as invariant.
  The arithmetic is in `MixerUp` and `MixerDown`: a percentage above the one read is set to
  no lower a level, though both are cut; `Wrapped` sums come from numbers within 100 of the greatest int. `ShutdownInTime`: a timer that is set never has
  fewer ticks left than were granted and are not over (`TimersOK`), for any length of a
  second and any width of an int. `RefusalIsClean` needs no invariant.
- `UdpControlProofs!StartsAccepted`, `BoxesAreSaved`: `Agree`, the command lines in memory, in
  the file and accepted last are the same; `BoxesOK`, a box that was not set back shows
  what was last entered.

- `ExplorerTabsProofs!ViewsOfTabs`, `PathsFollowViews`, `CopyTargetIsOther`, `SessionsSurvive`:
  for any folders, any sessions at first and any number of acts of the user, and with any number of events
  outstanding. None of the
  invariants is inductive: each speaks of moments without outstanding events, or of tabs
  in their pane, so the invariant (`IInv`, `Good` for the record `ui`) says what the
  events to come will do.
  - `Placed`: a tab is in its own pane, once; the current tab and every tab an event is
    about have been clicked; `pane1_curr_tab` and `pane2_curr_tab` may name closed tabs,
    but only tabs of their pane. `Viewed`: a tab has a view if it is in its pane and was
    clicked.
  - `Followed`: the path of a tab and then those of the events about it, read in order,
    change at "open" only and end where the view is. A late "active" therefore repeats
    a path that an earlier "open" has brought, and undoes none.
  - `PaneOK`: the button that is down in a pane has a view, and is the pane's current tab
    once the last "active" for a tab of the pane that still has its view has been handled.
    `CurrentOK`: the current tab is its pane's, or an "active" for it is to come. Both
    hold as long as settings were read; without them the handler throws.
  - `SessionsOK`, `DiskOK`: the second session is loaded only after settings and first
    event; of the files `on_close` writes, those that are done have what the program has.

  For each function of the script a lemma says what it does to the fields of the record
  (`ClickTabIs`, `ExplorerNewIs`, ...) and others that it keeps each part of `Good`; an
  action is then two or three of these. `LoadSession` restores all tabs of a file at once
  (`NewTabs`), which is what the loop of `load_session` leaves, because nothing else of
  the script runs in between. TLC checked the invariant on the instance of Tabs before
  it was proved.

Only model-checked: liveness (`PumpDrains`, `EveryOneHandled`, `WorkersEnd`,
`ShutdownHappens`, `TrialEnds`), which is out of the prover's reach; and of the pump `NothingLost` and
`OneWrite`, whose invariants have to say what every packet is at every pair of statements. Every other
property of the passing runs is stated by a theorem.

## Not modelled

- Bytes of packets other than mark and length; texts longer than 65535 bytes, whose
  length `set_data` truncates; the memory of a buffer that `reset` clears while a write
  reads from it. Frames are values here.
- `server::run` and `stop`; the host's iteration over `clients()` while the io thread
  appends to it.
- A data race inside one statement: two threads that push to, erase from or walk the same `std::list` at
  once. The steps of `ClientPump` are statements, which the threads take in any order.
- A `WM_TIMER` that is already in the queue when `KillTimer` runs.
- The saves of `config.xml` are atomic and succeed.
- The 200 ms the destructor waits for a worker: it has no counterpart without time.
- Keys, screen saver and slides: the commands' answers are modelled, their effects are
  the operating system's.
- Five of the six devices `GetVolume` and `SetVolume` take; the program always asks for
  the speakers.
- The device app beyond its buffer and segmentation. `MainActivity.java` is a draft that
  does not compile (`FilStrm`, an undeclared `path`, a value returned by a `void` method), so
  what it does with a text or the pieces of an image is not settled; of its codec only the
  decoding of the length is modelled, and it never acknowledges.
- In the Explorer+ skin the list of folders, tool tips, filters, history, favourites and
  drives, which show or run something, the titles, icons and view modes of tabs, and the
  options, about and update dialogs. `setting.json` is reduced to the one setting the
  panes depend on.
- The players, the direct UI explorer and the build script: planned below. Layouts,
  language tables, vendored tools and binaries: nothing to model.

## Plan

What is left, in order of weight:

1. *Player and direct UI explorer.* Two small modules: the position remembered per file, and
   the two counters ids are made from.
2. *Version increment.* A function over the lines of the resource file, checked against
   a reference definition.
