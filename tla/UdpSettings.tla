----------------------------- MODULE UdpSettings -----------------------------
(***************************************************************************)
(* The settings of the UDP remote control across launches                  *)
(* (UDPControlDlg.cpp and its dialogs): config.xml on the disk, its copy   *)
(* m_xml in memory, the members UpdateData fills from the controls, the    *)
(* automatic start at launch, registration and the trial.                  *)
(*                                                                         *)
(* A port is a number, 0 where the file has none; the list of terminals    *)
(* and the command lines are saved with the rest and told apart by nothing *)
(* here.  UpdateData(FALSE) of a received datagram is Refresh.             *)
(***************************************************************************)
EXTENDS Integers

CONSTANTS
    Typed,      \* the ports a user may type
    Trial,      \* the seconds a trial lasts
    IpMayFail   \* whether get_local_ip may fail

ASSUME SettingsAssumption ==
    Typed \subseteq Nat /\ Trial \in Nat \ {0} /\ IpMayFail \in BOOLEAN

VARIABLES
    xml,        \* config.xml: [port, save, license]
    m_xml,      \* the same in memory
    running,    \* the program runs
    ip,         \* get_local_ip succeeded in this launch
    m_nLocalPort, m_bSaveLog, m_start, m_nTrialTimes,   \* members of the dialog
    served,     \* the service was started in this launch
    edit, tick, \* IDC_TxtLocalPort and IDC_ChkSaveLog
    started,    \* history: the port of the last start, 0 before the first
    refused     \* history: since then a typed port was refused or an ip not found

settings == <<xml, m_xml, running, ip, m_nLocalPort, m_bSaveLog, m_start, m_nTrialTimes,
              served, edit, tick, started, refused>>
controls == <<edit, tick>>
starts == <<started, refused>>

DefaultPort == 11257
Port == Typed \union {0, DefaultPort}
InRange(p) == p > 1024 /\ p <= 60000
Config == [port : Port, save : BOOLEAN, license : BOOLEAN]
NoConfig == [port |-> 0, save |-> FALSE, license |-> FALSE]
Off == 0        \* Timer_Trial is not set

SettingsType ==
    /\ xml \in Config /\ m_xml \in Config
    /\ running \in BOOLEAN /\ ip \in BOOLEAN /\ m_start \in BOOLEAN /\ served \in BOOLEAN
    /\ m_nLocalPort \in Port /\ edit \in Port
    /\ m_bSaveLog \in BOOLEAN /\ tick \in BOOLEAN
    /\ m_nTrialTimes \in 0 .. Trial
    /\ started \in Port /\ refused \in BOOLEAN

SettingsInit ==
    /\ xml = NoConfig /\ m_xml = NoConfig
    /\ running = FALSE /\ ip = FALSE /\ m_start = FALSE /\ served = FALSE
    /\ m_nLocalPort = 0 /\ edit = 0 /\ m_bSaveLog = FALSE /\ tick = FALSE
    /\ m_nTrialTimes = Off
    /\ started = 0 /\ refused = FALSE

------------------------------------------------------------------------------
\* SaveSetting of a port, a flag and a license: into m_xml, and m_xml to the disk.
SaveSetting(port, save, license) ==
    /\ m_xml' = [port |-> port, save |-> save, license |-> license]
    /\ xml' = m_xml'

\* The start half of OnBnClickedBtnstart: UpdateData, the range, SaveSetting, Start.
StartWith(port, save, license) ==
    /\ m_nLocalPort' = port /\ m_bSaveLog' = save
    /\ \/ /\ InRange(port)
          /\ SaveSetting(port, save, license)
          /\ m_start' = TRUE /\ served' = TRUE
          /\ started' = port /\ refused' = FALSE
       \/ /\ ~InRange(port)
          /\ m_start' = FALSE /\ served' = (served /\ running)
          /\ refused' = TRUE
          /\ UNCHANGED <<xml, started>>

\* MUTANT: no automatic start.
LaunchManual ==
    /\ ip' = TRUE
    /\ tick' = xml.save /\ m_bSaveLog' = xml.save
    /\ m_nTrialTimes' = IF xml.license THEN Off ELSE Trial - 1
    /\ edit' = (IF xml.port > 0 THEN xml.port ELSE DefaultPort) /\ m_nLocalPort' = edit'
    /\ m_xml' = xml /\ m_start' = FALSE /\ served' = FALSE
    /\ UNCHANGED <<xml, starts>>

\* OnInitDialog when the own ip is found: the file's values, or the default port and no
\* automatic start; the trial, whose first second is taken at once, if not licensed.
LaunchReady ==
    /\ ip' = TRUE
    /\ tick' = xml.save
    /\ m_nTrialTimes' = IF xml.license THEN Off ELSE Trial - 1
    /\ \/ /\ xml.port > 0
          /\ edit' = xml.port
          /\ StartWith(xml.port, xml.save, xml.license)
          /\ ~InRange(xml.port) => m_xml' = xml
       \/ /\ xml.port <= 0
          /\ edit' = DefaultPort /\ m_nLocalPort' = DefaultPort /\ m_bSaveLog' = xml.save
          /\ m_xml' = xml /\ m_start' = FALSE /\ served' = FALSE
          /\ UNCHANGED <<xml, starts>>

\* OnInitDialog when the own ip is not found: it returns before it reads the settings.
LaunchBlind ==
    /\ IpMayFail
    /\ ip' = FALSE
    /\ m_xml' = xml
    /\ m_nLocalPort' = 0 /\ m_bSaveLog' = FALSE
    /\ m_start' = FALSE /\ served' = FALSE
    /\ edit' = 0 /\ tick' = FALSE
    /\ m_nTrialTimes' = Off
    /\ refused' = TRUE
    /\ UNCHANGED <<xml, started>>

\* OnInitDialog, at the launch of the program.
OnInitDialog == ~running /\ running' = TRUE /\ (LaunchReady \/ LaunchBlind)

\* The user types a port; the box is disabled while the service runs.
TypePort(p) ==
    /\ running /\ ~m_start
    /\ edit' = p
    /\ UNCHANGED <<xml, m_xml, running, ip, m_nLocalPort, m_bSaveLog, m_start,
                   m_nTrialTimes, served, tick, starts>>

ClickTick ==
    /\ running
    /\ tick' = ~tick
    /\ UNCHANGED <<xml, m_xml, running, ip, m_nLocalPort, m_bSaveLog, m_start,
                   m_nTrialTimes, served, edit, starts>>

\* MUTANT: the settings are saved at the end of the program only.
ClickStartUnsaved ==
    /\ running /\ ip /\ ~m_start
    /\ m_nLocalPort' = edit /\ m_bSaveLog' = tick
    /\ m_start' = InRange(edit) /\ served' = (served \/ InRange(edit))
    /\ started' = IF InRange(edit) THEN edit ELSE started
    /\ refused' = ~InRange(edit)
    /\ UNCHANGED <<xml, m_xml, running, ip, m_nTrialTimes, controls>>

\* OnBnClickedBtnstart; the button is disabled when the ip was not found.
ClickStart ==
    /\ running /\ ip /\ ~m_start
    /\ StartWith(edit, tick, m_xml.license)
    /\ ~InRange(edit) => m_xml' = m_xml
    /\ UNCHANGED <<running, ip, m_nTrialTimes, controls>>

ClickStop ==
    /\ running /\ m_start
    /\ m_start' = FALSE
    /\ m_nLocalPort' = edit /\ m_bSaveLog' = tick
    /\ UNCHANGED <<xml, m_xml, running, ip, m_nTrialTimes, served, controls, starts>>

\* A call of the worker runs: UpdateData(FALSE) overwrites the controls.
Refresh ==
    /\ running /\ ip
    /\ served
    /\ edit' = m_nLocalPort /\ tick' = m_bSaveLog
    /\ UNCHANGED <<xml, m_xml, running, ip, m_nLocalPort, m_bSaveLog, m_start,
                   m_nTrialTimes, served, starts>>

\* OK in the dialogs of the quick starts and of the terminals.
DialogOk ==
    /\ running
    /\ SaveSetting(m_nLocalPort, m_bSaveLog, m_xml.license)
    /\ UNCHANGED <<running, ip, m_nLocalPort, m_bSaveLog, m_start, m_nTrialTimes,
                   served, controls, starts>>

\* MUTANT: the trial timer is left to run.
RegisterTimed ==
    /\ running
    /\ SaveSetting(m_nLocalPort, m_bSaveLog, TRUE)
    /\ UNCHANGED <<running, ip, m_nLocalPort, m_bSaveLog, m_start, m_nTrialTimes, served,
                   controls, starts>>

\* CDialogRegister::OnBnClickedOk with a valid code: saved, and the trial timer killed.
Register ==
    /\ running
    /\ SaveSetting(m_nLocalPort, m_bSaveLog, TRUE)
    /\ m_nTrialTimes' = Off
    /\ UNCHANGED <<running, ip, m_nLocalPort, m_bSaveLog, m_start, served, controls,
                   starts>>

\* The destructor: Stop() and SaveSetting().
Quit ==
    /\ running' = FALSE /\ m_start' = FALSE /\ m_nTrialTimes' = Off
    /\ SaveSetting(m_nLocalPort, m_bSaveLog, m_xml.license)
    /\ UNCHANGED <<ip, m_nLocalPort, m_bSaveLog, served, controls, starts>>

Exit == running /\ Quit

\* MUTANT: "< 0" for "<= 0".
TrialSecondLess ==
    /\ running /\ m_nTrialTimes # Off
    /\ m_nTrialTimes' = m_nTrialTimes - 1
    /\ UNCHANGED <<xml, m_xml, running, ip, m_nLocalPort, m_bSaveLog, m_start,
                   served, controls, starts>>

\* OnTimer(Timer_Trial): at zero the program ends.
TrialSecond ==
    /\ running /\ m_nTrialTimes # Off
    /\ \/ m_nTrialTimes = 1 /\ Quit
       \/ /\ m_nTrialTimes > 1
          /\ m_nTrialTimes' = m_nTrialTimes - 1
          /\ UNCHANGED <<xml, m_xml, running, ip, m_nLocalPort, m_bSaveLog, m_start,
                         served, controls, starts>>

\* The process is ended from outside, or the machine goes down: nothing is saved.
Kill ==
    /\ running
    /\ running' = FALSE /\ m_start' = FALSE /\ m_nTrialTimes' = Off
    /\ UNCHANGED <<xml, m_xml, ip, m_nLocalPort, m_bSaveLog, served, controls, starts>>

SettingsNext ==
    \/ OnInitDialog \/ ClickTick \/ ClickStart \/ ClickStop \/ Refresh
    \/ DialogOk \/ Register \/ Exit \/ TrialSecond \/ Kill
    \/ \E p \in Typed : TypePort(p)

SettingsSpec == SettingsInit /\ [][SettingsNext]_settings /\ WF_settings(TrialSecond)

------------------------------------------------------------------------------
\* The port with which the service was last started is the one in the file, however
\* the program ended and whatever was typed, saved and refreshed since, unless a port was
\* refused or the ip not found: then what UpdateData or the constructor left is saved.
PortRemembered == started # 0 /\ ~refused => xml.port = started

\* With such a file the next launch starts the service at once.
StartsAgain ==
    [][OnInitDialog /\ ip' /\ ~refused /\ started # 0 =>
         m_start' /\ m_nLocalPort' = started]_settings

\* A registration is never lost, whichever copy of the settings is saved over the file and
\* however the program ends, and the trial, if its timer was set before the user registered,
\* does not end a registered program.
StaysRegistered ==
    [][/\ xml.license => xml'.license
       /\ TrialSecond => ~xml.license]_settings

\* A program that is not registered ends, or it is registered, if it read its settings.
TrialEnds == (running /\ ip /\ ~xml.license) ~> (~running \/ xml.license)

\* The list of problems to solve: once a port is set up the program starts the service
\* when it is opened.
StartsByItself == [][OnInitDialog /\ ip' /\ started # 0 => m_start']_settings
==============================================================================
