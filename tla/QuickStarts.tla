------------------------------ MODULE QuickStarts ------------------------------
(***************************************************************************)
(* The quick starts of the UDP remote control: the dialog that sets them   *)
(* (DialogStartupSetting.cpp) and the configuration file, composed with    *)
(* the commands that use them.  A modal dialog pumps messages, so commands *)
(* go on being executed while it is open, and while the file dialog it     *)
(* opens is.  The program may end at any time, and is started again.       *)
(***************************************************************************)
EXTENDS UdpCommands

VARIABLES
    file,           \* the command lines in config.xml
    dialog,         \* NoDialog, Boxes, or the slot a file is being browsed for
    m_strCmd,       \* the dialog's members
    box,            \* and its controls
    entered,        \* history: what the user last put into each box, or found there
    overwritten,    \* history: boxes typed in and then set back by a browse
    accepted        \* history: the command lines when OK was last pressed

edits == <<m_strCmd, box, entered, overwritten>>
dialogVars == <<file, dialog, edits, accepted>>

NoDialog == 0 - 1
Boxes == 0
Line == Lines \union {None}

NoLines == [s \in Slots |-> None]

QuickInit ==
    /\ Init /\ cmdline = NoLines
    /\ file = NoLines /\ accepted = NoLines
    /\ dialog = NoDialog
    /\ m_strCmd = NoLines /\ box = NoLines /\ entered = NoLines
    /\ overwritten = {}

\* The dialog's object is gone.
Closed ==
    /\ dialog' = NoDialog
    /\ m_strCmd' = NoLines /\ box' = NoLines /\ entered' = NoLines
    /\ overwritten' = {}

CommandsUnchanged == UNCHANGED <<effects, alive, reply, history>>

\* OnSetting and OnInitDialog: the members from m_xml, the boxes from the members.
OpenDialog ==
    /\ Up /\ dialog = NoDialog
    /\ dialog' = Boxes
    /\ m_strCmd' = cmdline /\ box' = cmdline /\ entered' = cmdline
    /\ UNCHANGED <<config, file, overwritten, accepted>> /\ CommandsUnchanged

Type(s, line) ==
    /\ Up /\ dialog = Boxes
    /\ box' = [box EXCEPT ![s] = line]
    /\ entered' = [entered EXCEPT ![s] = line]
    /\ overwritten' = overwritten \ {s}
    /\ UNCHANGED <<config, file, dialog, m_strCmd, accepted>> /\ CommandsUnchanged

\* OnBnClickedBtnbrowse1 to 16: the file dialog opens.
Browse(s) ==
    /\ Up /\ dialog = Boxes
    /\ dialog' = s
    /\ UNCHANGED <<config, file, edits, accepted>> /\ CommandsUnchanged

\* MUTANT: the box is not told.
SelectFileUnshown(s, line) ==
    /\ Up /\ dialog = s /\ dialog' = Boxes
    /\ m_strCmd' = [m_strCmd EXCEPT ![s] = line]
    /\ entered' = [entered EXCEPT ![s] = line]
    /\ UNCHANGED <<config, file, box, overwritten, accepted>> /\ CommandsUnchanged

\* SelectFile when a file was chosen: UpdateData(FALSE) sets every box from its member, and
\* the members do not know yet what was typed.
SelectFile(s, line) ==
    /\ Up /\ dialog = s /\ dialog' = Boxes
    /\ m_strCmd' = [m_strCmd EXCEPT ![s] = line]
    /\ box' = m_strCmd'
    /\ entered' = [entered EXCEPT ![s] = line]
    /\ overwritten' = (overwritten \union {o \in Slots : box[o] # m_strCmd[o]}) \ {s}
    /\ UNCHANGED <<config, file, accepted>> /\ CommandsUnchanged

SelectNone(s) ==
    /\ Up /\ dialog = s /\ dialog' = Boxes
    /\ UNCHANGED <<config, file, edits, accepted>> /\ CommandsUnchanged

\* MUTANT: the file is left to the next SaveSetting.
OkUnsaved ==
    /\ Up /\ dialog = Boxes /\ Closed
    /\ cmdline' = box /\ accepted' = box
    /\ UNCHANGED <<endpoint, file>> /\ CommandsUnchanged

\* OnBnClickedOk: UpdateData, all members into m_xml, SaveSetting.
Ok ==
    /\ Up /\ dialog = Boxes /\ Closed
    /\ cmdline' = box /\ file' = cmdline' /\ accepted' = box
    /\ UNCHANGED endpoint /\ CommandsUnchanged

Cancel ==
    /\ Up /\ dialog = Boxes /\ Closed
    /\ UNCHANGED <<config, file, accepted>> /\ CommandsUnchanged

\* The program ends: closed, ~CUDPControlDlg saves m_xml, killed, nobody does.
Ends ==
    /\ WindowEnds /\ Closed
    /\ file' \in {cmdline, file}
    /\ UNCHANGED accepted

\* It is started again: OnInitDialog loads the file.
Starts ==
    /\ machine = "up" /\ ~alive /\ alive' = TRUE
    /\ cmdline' = file
    /\ asked' = [k \in Shutdown |-> None]
    /\ UNCHANGED <<endpoint, effects, reply, tried, dialogVars>>

DialogNext ==
    \/ OpenDialog \/ Ok \/ Cancel \/ Ends \/ Starts
    \/ \E s \in Slots : Browse(s) \/ SelectNone(s)
    \/ \E s \in Slots, line \in Line : Type(s, line)
    \/ \E s \in Slots, line \in Lines : SelectFile(s, line)

QuickNext == DialogNext \/ (Commands /\ UNCHANGED dialogVars)

QuickSpec == QuickInit /\ [][QuickNext]_<<vars, dialogVars>>

------------------------------------------------------------------------------
\* What the user last put into a box, by typing or by browsing, is what OK saves, and what
\* nobody touched stays as it was, but for the boxes a later browse for another slot has
\* set back.
EnteredIsSaved ==
    [][Ok => \A s \in Slots \ overwritten : file'[s] = entered[s]]_<<vars, dialogVars>>

\* "cmd:" starts the command line that was in the slot when OK was last pressed, however far
\* the editing of another one has come, and however the program has ended since.
StartsWhatWasAccepted ==
    [][reply' = "ack" => \A m \in TextsOf({"cmd:"}) : Execute(m) =>
            m.tail \in Slots /\ launched' = accepted[m.tail]]_<<vars, dialogVars>>
==============================================================================
