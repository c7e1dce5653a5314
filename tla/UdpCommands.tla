----------------------------- MODULE UdpCommands -----------------------------
(***************************************************************************)
(* What the commands of the UDP remote control do (UDPControlDlg.cpp): the *)
(* table find_cmd searches, the command functions, which run on the UI     *)
(* thread one after the other, and the two shutdown timers they set.       *)
(*                                                                         *)
(* A text is [word, tail]: an entry of the table (or a word that is none)  *)
(* and what follows it, a number, None or Junk (no number, or too many     *)
(* parts: split and cast<int> make 0 or a wrong count of it).  Time passes *)
(* in ticks; Second ticks stand for 1000 ms, Word for 2^32.  Word may be   *)
(* smaller than Wide, so that ticks are few and percentages are not.       *)
(*                                                                         *)
(* The program may end at any time: at the end of the trial (Timer_Trial   *)
(* posts the quit message), by the user or killed.  Its timers end with it.*)
(***************************************************************************)
EXTENDS Volume, Sequences, FiniteSetsExt

CONSTANTS
    None, Junk,
    Number,     \* the numbers that may follow a word
    Words,      \* the words of the texts that arrive
    Slots,      \* the quick starts considered, of 1 .. 16
    Lines,      \* the command lines they may have
    Keys,       \* the texts gtl::keyboard::press accepts
    Second,     \* ticks in a second
    Word        \* the number of values of an unsigned int

ASSUME CommandsAssumption ==
    /\ Number \subseteq 1 .. Word \div 2 - 1
    /\ Slots \subseteq 1 .. 16
    /\ Second \in Nat \ {0} /\ Word \in Nat \ {0} /\ Word <= Wide
    /\ {None, Junk} \intersect Number = {} /\ None \notin Lines \union Nat

VARIABLES
    timer,      \* timer[k]: ticks left of Timer_Poweroff and Timer_Reboot, or None
    endpoint,   \* m_pIAudioEndpointVolume was found when the program started
    level,      \* the volume the system keeps
    cmdline,    \* the command lines in m_xml, None where there is none
    launched,   \* the command line ShellExecute was last called with
    machine,    \* "up", or what ExitWindowsEx did
    alive,      \* the program's window is there
    reply,      \* the last answer
    asked,      \* history: asked[k], the ticks the sender still grants, or None
    tried       \* history: tried[k], ExitWindowsEx was called since the last request

config == <<endpoint, cmdline>>
effects == <<timer, level, launched, machine>>
history == <<asked, tried>>
vars == <<config, effects, alive, reply, history>>

Up == machine = "up" /\ alive

Shutdown == {"poweroff", "reboot"}

\* The table, in order; its 88 keys from "enter" on are one entry.
cmds == <<"poweroff:", "reboot:", "cmd:", "cmdname:", "ppt:", "src", "volume+", "volume-",
          "ctrl+", "shift+", "alt+", "win+", "test", "cancel poweroff", "cancel reboot", "key">>

ASSUME NoEntryIsNone == \A i \in DOMAIN cmds : cmds[i] # None

\* find_cmd: the first 11 entries match as prefixes, the others as whole texts.
Matches(m, i) == m.word = cmds[i] /\ (i - 1 <= 10 \/ m.tail = None)

TextsOf(words) == [word : Words \intersect words, tail : Number \union {None, Junk}]
Texts == TextsOf(Words)

FindCmd[m \in Texts] ==
    LET found == {i \in DOMAIN cmds : Matches(m, i)} IN
    IF found = {} THEN None ELSE cmds[Min(found)]

TypeOK ==
    /\ timer \in [Shutdown -> 0 .. Word \div 2 \union {None}]
    /\ endpoint \in BOOLEAN
    /\ level \in 0 .. Scale(endpoint)
    /\ cmdline \in [Slots -> Lines \union {None}]
    /\ launched \in Lines \union {None}
    /\ machine \in {"up", "off", "restarted"} /\ alive \in BOOLEAN
    /\ reply \in {"ack", "error", "name", "none"}
    /\ asked \in [Shutdown -> Nat \union {None}]
    /\ tried \in [Shutdown -> BOOLEAN]

Init ==
    /\ timer = [k \in Shutdown |-> None]
    /\ endpoint \in BOOLEAN
    /\ level \in {0, Scale(endpoint) \div 2, Scale(endpoint)}
    /\ cmdline \in [Slots -> Lines \union {None}]
    /\ launched = None /\ machine = "up" /\ alive = TRUE
    /\ reply = "none"
    /\ asked = [k \in Shutdown |-> None]
    /\ tried = [k \in Shutdown |-> FALSE]

------------------------------------------------------------------------------
\* The part after the colon as Poweroff, Reboot, Cmd, CmdName and JumpPPT take it.
HasNumber(m) == m.tail \in Number

\* SetTimer(n * 1000): the product wraps, SetTimer keeps to its least and its
\* greatest interval (10 ms and 2^31 - 1 ms).
Elapse(n) == LET ms == (n * Second) % Word IN
             IF ms < 1 THEN 1 ELSE IF ms > Word \div 2 - 1 THEN Word \div 2 - 1 ELSE ms

\* The ticks a sender of n may count on: none if they are more than SetTimer's greatest
\* interval, which makes them less, or more than the product holds.
Granted(n) == IF n * Second < Word \div 2 THEN n * Second ELSE 0

Answer(r) == reply' = r

Refuse == Answer("error") /\ UNCHANGED <<effects, history>>

\* MUTANT: the timer is set before the number is looked at.
SetShutdownFirst(m, k) ==
    /\ timer' = [timer EXCEPT ![k] = IF HasNumber(m) THEN Elapse(m.tail) ELSE 1]
    /\ IF HasNumber(m)
       THEN /\ Answer("ack")
            /\ asked' = [asked EXCEPT ![k] = Granted(m.tail)]
            /\ tried' = [tried EXCEPT ![k] = FALSE]
       ELSE Answer("error") /\ UNCHANGED <<asked, tried>>
    /\ UNCHANGED <<level, launched, machine>>

\* Poweroff, Reboot: SetTimer replaces the timer of that kind.
SetShutdown(m, k) ==
    \/ /\ HasNumber(m)
       /\ Answer("ack")
       /\ timer' = [timer EXCEPT ![k] = Elapse(m.tail)]
       /\ asked' = [asked EXCEPT ![k] = Granted(m.tail)]
       /\ tried' = [tried EXCEPT ![k] = FALSE]
       /\ UNCHANGED <<level, launched, machine>>
    \/ ~HasNumber(m) /\ Refuse

\* MUTANT: the timer is not killed.
CancelNothing(k) ==
    /\ Answer("ack")
    /\ asked' = [asked EXCEPT ![k] = None]
    /\ UNCHANGED <<effects, tried>>

\* CancelPoweroff, CancelReboot: each kills its own timer.
CancelShutdown(k) ==
    /\ Answer("ack")
    /\ timer' = [timer EXCEPT ![k] = None]
    /\ asked' = [asked EXCEPT ![k] = None]
    /\ UNCHANGED <<level, launched, machine, tried>>

HasLine(m, last) ==
    /\ HasNumber(m) /\ m.tail <= last
    /\ m.tail \in Slots /\ cmdline[m.tail] # None

\* Cmd: starts a quick start that has a command line.
Launch(m) ==
    \/ /\ HasLine(m, 16)
       /\ Answer("ack")
       /\ launched' = cmdline[m.tail]
       /\ UNCHANGED <<timer, level, machine, history>>
    \/ ~HasLine(m, 16) /\ Refuse

\* CmdName: the file name of a quick start, for the first eight only.
CmdName(m) ==
    \/ /\ HasLine(m, 8)
       /\ Answer("name")
       /\ UNCHANGED <<effects, history>>
    \/ ~HasLine(m, 8) /\ Refuse

\* JumpPPT presses the digits and enter; Test does nothing; ScreenSaver sets a time-out
\* and puts it back, if a screen saver is active.
JumpPPT(m) == IF HasNumber(m) THEN Answer("ack") /\ UNCHANGED <<effects, history>>
                              ELSE Refuse
Test == Answer("ack") /\ UNCHANGED <<effects, history>>
ScreenSaver == Test \/ Refuse
Shortcut(m) == IF m \in Keys THEN Answer("ack") /\ UNCHANGED <<effects, history>>
                             ELSE Refuse

Delta(m) == IF HasNumber(m) THEN m.tail ELSE 1

\* TurnTheVolumeUp, TurnTheVolumeDown: nothing is set at the end of the range; the sum is
\* an int.
TurnVolume(m, sign) ==
    /\ Answer("ack")
    /\ \E read \in GetVolume(endpoint, level) :
         IF (sign = 1 /\ read >= 100) \/ (sign = -1 /\ read <= 0)
         THEN UNCHANGED level
         ELSE level' \in SetVolume(endpoint, level, Wrapped(read + sign * Delta(m)))
    /\ UNCHANGED <<timer, launched, machine, history>>

\* A text from a known terminal: the worker looks the function up and answers "err"
\* when there is none, the UI thread runs it and answers.
Execute(m) ==
    /\ Up
    /\ UNCHANGED <<config, alive>>
    /\ LET fn == FindCmd[m] IN
       \/ fn = None /\ Refuse
       \/ fn = "poweroff:" /\ SetShutdown(m, "poweroff")
       \/ fn = "reboot:" /\ SetShutdown(m, "reboot")
       \/ fn = "cmd:" /\ Launch(m)
       \/ fn = "cmdname:" /\ CmdName(m)
       \/ fn = "ppt:" /\ JumpPPT(m)
       \/ fn = "src" /\ ScreenSaver
       \/ fn = "volume+" /\ TurnVolume(m, 1)
       \/ fn = "volume-" /\ TurnVolume(m, -1)
       \/ fn \in {"ctrl+", "shift+", "alt+", "win+", "key"} /\ Shortcut(m)
       \/ fn = "test" /\ Test
       \/ fn = "cancel poweroff" /\ CancelShutdown("poweroff")
       \/ fn = "cancel reboot" /\ CancelShutdown("reboot")

\* MUTANT: both branches test for Timer_Poweroff.
OnTimerPoweroff(k) ==
    /\ Up /\ k = "poweroff" /\ timer[k] = 0
    /\ timer' = [timer EXCEPT ![k] = None]
    /\ machine' \in {"up", "off"}
    /\ tried' = [tried EXCEPT ![k] = TRUE]
    /\ UNCHANGED <<config, level, launched, alive, reply, asked>>

\* SysPoweroff, SysReboot: the token, the privilege and ExitWindowsEx may each fail.
SysExit(k) == machine' \in {"up", IF k = "poweroff" THEN "off" ELSE "restarted"}

\* OnTimer: the timer is killed, then SysPoweroff or SysReboot is tried once.
OnTimer(k) ==
    /\ Up /\ timer[k] = 0
    /\ timer' = [timer EXCEPT ![k] = None]
    /\ SysExit(k)
    /\ tried' = [tried EXCEPT ![k] = TRUE]
    /\ UNCHANGED <<config, level, launched, alive, reply, asked>>

\* Time passes while a timer runs; a timer that is due waits for the UI thread.
Tick ==
    /\ Up
    /\ \E k \in Shutdown : timer[k] \notin {None, 0}
    /\ LET Down(t) == IF t \in {None, 0} THEN t ELSE t - 1 IN
       /\ timer' = [k \in Shutdown |-> Down(timer[k])]
       /\ asked' = [k \in Shutdown |-> Down(asked[k])]
    /\ UNCHANGED <<config, level, launched, machine, alive, reply, tried>>

\* The program ends, and with the window its timers.
WindowEnds ==
    /\ Up /\ alive' = FALSE
    /\ timer' = [k \in Shutdown |-> None]
    /\ UNCHANGED <<config, level, launched, machine, reply, history>>

Commands ==
    \/ \E m \in Texts : Execute(m)
    \/ \E k \in Shutdown : OnTimer(k)
    \/ Tick

Next == Commands \/ WindowEnds

\* Time passes, and a timer that is due is delivered, while the program runs.
Spec ==
    /\ Init /\ [][Next]_vars
    /\ WF_vars(Tick) /\ \A k \in Shutdown : WF_vars(OnTimer(k))

------------------------------------------------------------------------------
\* The machine goes down only for a request that was not called off, and never before
\* the seconds it named are over, whatever was set, replaced and cancelled in between, unless
\* they were more than a timer holds.
NotBeforeTime ==
    /\ machine = "off" => asked["poweroff"] = 0
    /\ machine = "restarted" => asked["reboot"] = 0

\* A text that is answered "error" has changed nothing.
ErrorChangesNothing ==
    [][reply' = "error" /\ effects' # effects => \A m \in Texts : ~Execute(m)]_vars

\* "volume+" never makes it softer and "volume-" never louder, though the percentage is cut
\* when it is read and again when it is set, but for two cases.  The volume could not be
\* read: GetVolume says 0 then, or 100 or more, and what is made of that may be set.  And the
\* sum with a number within 100 of the greatest int wraps, which makes it silent.
VolumeDirection ==
    [][/\ level' < level => \A m \in TextsOf({"volume+"}) :
            Execute(m) => \/ level' = LevelOf(endpoint, Delta(m))
                          \/ level' = 0 /\ Delta(m) > IntMax - 100
       /\ level' > level => \A m \in TextsOf({"volume-"}) :
            Execute(m) => ~endpoint /\ level' = LevelOf(endpoint, Unreadable - Delta(m))]_vars

\* A request that is neither repeated nor cancelled reaches ExitWindowsEx, unless the
\* program ends before: an unregistered copy does so after 600 seconds.
Requested(k) == asked[k] # None /\ ~tried[k]
NewRequest == \E m \in Texts : m.word \in {"poweroff:", "reboot:"} /\ Execute(m)

ShutdownHappens ==
    <>[][~NewRequest]_vars =>
        \A k \in Shutdown :
            Requested(k) ~> (tried[k] \/ asked[k] = None \/ ~Up)

\* The manual: win+key is a combination like ctrl+key.
WinPlusKey ==
    [][\A m \in Texts : Execute(m) /\ m.word = "win+" /\ m \in Keys
                            => reply' # "error"]_vars
==============================================================================
