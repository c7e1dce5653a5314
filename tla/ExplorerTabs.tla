---------------------------- MODULE ExplorerTabs ----------------------------
(***************************************************************************)
(* The two panes of the Explorer+ window and their tabs: skin.js, the      *)
(* handlers of init.js and the bindings of skin.xml and tabmenu.xml.  The  *)
(* script runs to completion for every click of the user and every event   *)
(* of the native program, which is outside src: it holds a folder view for *)
(* a tab, reports "open" when the view has gone to another folder and      *)
(* "active" when it has become the active one, in that order, and possibly *)
(* after the next click.                                                   *)
(*                                                                         *)
(* Tabs are numbered by folder_index; a folder is a model value, titles,   *)
(* icons and view modes are left out, so is the rest of setting.json.      *)
(***************************************************************************)
EXTENDS Naturals, Sequences, SequencesExt

CONSTANTS
    Folders, Computer,  \* folders; the one a new tab opens
    Saved,              \* what the files on the disk may have at first
    MaxActs,            \* bound: what the user does before he stops
    MaxSaved,           \* bound: what he has done when he saves or ends the program
    Null, Broken        \* null; a file that was cut off while written

Panes == {"xplorer", "xplorer2"}
Other(x) == CHOOSE y \in Panes : y # x
SessionFile == [x \in Panes |-> IF x = "xplorer" THEN "session.json" ELSE "session2.json"]
Files == {"session.json", "session2.json", "setting.json"}

ASSUME ExplorerTabsAssumption ==
    /\ Computer \in Folders /\ Null \notin Folders \cup Nat \cup BOOLEAN
    /\ Broken \notin Seq(Folders) \cup BOOLEAN
    /\ \A d \in Saved : /\ DOMAIN d = Files
                       /\ \A x \in Panes : d[SessionFile[x]] \in Seq(Folders) \cup {Broken}
                       /\ d["setting.json"] \in BOOLEAN \cup {Broken}
    /\ MaxActs \in Nat /\ MaxSaved \in Nat

VARIABLES
    phase,  \* of the program: "off", "on", "saving" (Ctrl+S), "ending"
    acts,   \* of the user, counted; MaxActs + 1 when a run was saved, has ended or died
    left,   \* files on_close has still to write
    disk,   \* session.json, session2.json; setting.json: setting.explorer.dual
    shut,   \* history: panes whose file did not open when last read or written
    ui      \* the globals of the script, and the views

vars == <<phase, acts, left, disk, shut, ui>>

(* Nothing is open; setting is {}. *)
Blank ==
    [tabs |-> [x \in Panes |-> <<>>],           \* buttons of the pane, left to right
     checked |-> [x \in Panes |-> Null],        \* the one that is down
     pane |-> <<>>, path |-> <<>>,              \* of every tab made in this run
     uninit |-> {},                             \* restored, never clicked
     views |-> <<>>,                            \* folder of its view, or Null
     curr_tab |-> Null,
     pane_curr_tab |-> [x \in Panes |-> Null],  \* pane1_, pane2_curr_tab
     clicked_tab |-> FALSE,
     session2_open |-> FALSE,
     loaded |-> {},                             \* history: panes load_session restored
     dual |-> Null,                             \* setting.explorer.dual
     visible2 |-> TRUE,                         \* xplorer2.visible()
     events |-> <<>>]                           \* of the native program, to come

Init ==
    /\ phase = "off"
    /\ acts = 0
    /\ left = <<>>
    /\ shut = {}
    /\ disk \in Saved
    /\ ui = Blank

-----------------------------------------------------------------------------
(* The native program. *)
Report(s, kind, t) ==
    [s EXCEPT !.events = Append(@, [kind |-> kind, tab |-> t, path |-> s.views[t]])]

(* sys.explorer.new *)
ExplorerNew(s, t) == Report([s EXCEPT !.views[t] = s.path[t]], "active", t)

-----------------------------------------------------------------------------
(* click_tab: the view of a restored tab is made at its first click. *)
ClickTab(s, x, t) ==
    LET c == [s EXCEPT !.curr_tab = t, !.checked[x] = t]
    IN  IF t \in s.uninit
          THEN ExplorerNew([c EXCEPT !.uninit = @ \ {t}], t)
          ELSE [c EXCEPT !.clicked_tab = TRUE]

(* tab.click(), or the user's: a view that was there is shown. *)
Press(s, x, t) ==
    LET c == ClickTab(s, x, t)
    IN  IF s.views[t] = Null THEN c ELSE Report(c, "active", t)

(* The tabs made from n on for as many folders as ps has. *)
Made(n, ps) == [i \in 1 .. Len(ps) |-> n + i]

Repeated(v, ps) == [i \in 1 .. Len(ps) |-> v]

Inserted(s, x, ps) ==
    [s EXCEPT !.tabs[x] = @ \o Made(Len(s.path), ps), !.path = @ \o ps,
              !.pane = @ \o Repeated(x, ps), !.views = @ \o Repeated(Null, ps)]

(* new_tab, for one folder after the other: tabs whose views wait for a    *)
(* click.                                                                  *)
NewTabs(s, x, ps) == [Inserted(s, x, ps) EXCEPT !.uninit = @ \cup Range(Made(Len(s.path), ps))]

(* new_tab_view: a tab and its view, which becomes the current one. *)
NewTabView(s, x, p) ==
    LET n == Len(s.path) + 1 IN ExplorerNew(Press(Inserted(s, x, <<p>>), x, n), n)

(* get_index, from 1; 0 for a tab that is not in the pane. *)
Place(q, t) == IF t \in Range(q) THEN CHOOSE i \in DOMAIN q : q[i] = t ELSE 0

(* Mutated form: the view of the closed tab is kept. *)
CloseTabOnly(s, x, t) ==
    LET was == Place(s.tabs[x], t)
        c == [s EXCEPT !.tabs[x] = RemoveAt(@, was)]
        rest == c.tabs[x]
    IN  IF s.tabs[x] = <<>> \/ t = Null THEN s
        ELSE IF rest = <<>> THEN c
        ELSE Press(c, x, rest[IF was > 2 THEN was - 1 ELSE 1])

(* close_tab: the tab left of the closed one is clicked.  Without tabs it  *)
(* returns; on null it throws before it does anything.                     *)
CloseTab(s, x, t) ==
    LET was == Place(s.tabs[x], t)
        c == [s EXCEPT !.views[t] = Null, !.tabs[x] = RemoveAt(@, was)]
        rest == c.tabs[x]
    IN  IF s.tabs[x] = <<>> \/ t = Null THEN s
        ELSE IF rest = <<>> THEN c
        ELSE Press(c, x, rest[IF was > 2 THEN was - 1 ELSE 1])

(* get_curr_xplorer *)
CurrXplorer(s) ==
    IF s.curr_tab # Null /\ s.pane_curr_tab["xplorer2"] = s.curr_tab THEN "xplorer2" ELSE "xplorer"

(* json_from_file: the session of a pane, or [] if its file does not open. *)
Sessions(x) == {disk[SessionFile[x]], <<>>}

Tried(x, opened) == IF opened THEN shut \ {x} ELSE shut \cup {x}

(* load_session: the first tab of the file at once, the others when        *)
(* clicked; eval throws on a file that was cut off.                        *)
LoadSession(s, x, sess) ==
    LET l == [s EXCEPT !.loaded = @ \cup {x}]
    IN  IF sess = Broken THEN l
        ELSE IF sess = <<>> THEN NewTabView(l, x, Computer)
        ELSE NewTabs(NewTabView(l, x, sess[1]), x, Tail(sess))

-----------------------------------------------------------------------------
(* Mutated form: open sets the current tab, as the lines commented out in  *)
(* init.js 76-82 did.                                                      *)
OnOpenCurrent(s, e) ==
    IF s.views[e.tab] = Null THEN s ELSE [s EXCEPT !.path[s.curr_tab] = e.path]

(* open: the tab of the view, whichever is current.  It throws when the    *)
(* view has been removed.                                                  *)
OnOpen(s, e) ==
    IF s.views[e.tab] = Null THEN s ELSE [s EXCEPT !.path[e.tab] = e.path]

(* Mutated form: a pane learns of its tab only when it was not clicked. *)
OnActiveUnclicked(s, e, sess) ==
    LET t == e.tab
        a == [s EXCEPT !.curr_tab = t, !.clicked_tab = FALSE,
                       !.path[t] = IF s.clicked_tab THEN e.path ELSE @,
                       !.pane_curr_tab[s.pane[t]] = IF s.clicked_tab THEN @ ELSE t,
                       !.session2_open = TRUE]
    IN  IF s.dual = Null \/ s.views[t] = Null THEN s
        ELSE IF ~s.session2_open THEN LoadSession(a, "xplorer2", sess)
        ELSE [a EXCEPT !.visible2 = @ /\ s.dual]

(* active: the tab becomes the current one, of the window and of its pane. *)
(* The first time the tabs of the second pane are restored, later it is    *)
(* hidden if it should be.  It throws without settings, and when the view  *)
(* has been removed.                                                       *)
OnActive(s, e, sess) ==
    LET t == e.tab
        a == [s EXCEPT !.curr_tab = t, !.clicked_tab = FALSE,
                       !.path[t] = IF s.clicked_tab THEN e.path ELSE @,
                       !.pane_curr_tab[s.pane[t]] = t,
                       !.session2_open = TRUE]
    IN  IF s.dual = Null \/ s.views[t] = Null THEN s
        ELSE IF ~s.session2_open THEN LoadSession(a, "xplorer2", sess)
        ELSE [a EXCEPT !.visible2 = @ /\ s.dual]

Event ==
    /\ phase = "on"
    /\ ui.events # <<>>
    /\ LET e == Head(ui.events)
           s == [ui EXCEPT !.events = Tail(@)]
       IN  \E sess \in Sessions("xplorer2") :
              /\ ui' = IF e.kind = "open" THEN OnOpen(s, e) ELSE OnActive(s, e, sess)
              /\ shut' = IF ui'.loaded = ui.loaded THEN shut
                         ELSE Tried("xplorer2", sess = disk["session2.json"])
    /\ UNCHANGED <<phase, acts, left, disk>>

-----------------------------------------------------------------------------
PaneVisible(x) == x = "xplorer" \/ ui.visible2

(* The user does something in a pane, whatever events are outstanding. *)
UserIn(x) ==
    /\ phase = "on"
    /\ PaneVisible(x)
    /\ acts < MaxActs /\ acts' = acts + 1
    /\ UNCHANGED <<phase, left, disk, shut>>

(* A click on a tab, in the window or in the list of folders. *)
UserClicksTab(x) == UserIn(x) /\ \E t \in Range(ui.tabs[x]) : ui' = Press(ui, x, t)

(* The view that is shown goes to another folder, or is clicked. *)
UserInView(x) ==
    LET t == ui.checked[x]
    IN  /\ UserIn(x)
        /\ t \in Range(ui.tabs[x]) /\ ui.views[t] # Null
        /\ \/ ui' = Report(ui, "active", t)
           \/ \E p \in Folders \ {ui.views[t]} : ui' = Report([ui EXCEPT !.views[t] = p], "open", t)

(* A double click beside the tabs, and the first item of the tab menu. *)
UserMakesTab(x) == UserIn(x) /\ ui' = NewTabView(ui, x, Computer)

(* Ctrl+T, the tool bar and the menu. *)
UserMakesCurrentTab ==
    UserIn("xplorer") /\ ui' = NewTabView(ui, CurrXplorer(ui), Computer)

(* duplicate_tab *)
UserDuplicatesTab(x) ==
    /\ UserIn(x)
    /\ \E t \in Range(ui.tabs[x]) : ui' = NewTabView(ui, x, ui.path[t])

(* A double click on a tab, and the last item of the tab menu. *)
UserClosesTab(x) == UserIn(x) /\ \E t \in Range(ui.tabs[x]) : ui' = CloseTab(ui, x, t)

(* The close button of the pane. *)
UserClosesPaneTab(x) == UserIn(x) /\ ui' = CloseTab(ui, x, ui.pane_curr_tab[x])

(* The mouse gestures "DR" and "RD" in a view: they come after all other   *)
(* events, the last of which makes the view the active one.                *)
UserGesture(x) ==
    LET t == ui.checked[x]
        s == OnActive(ui, [tab |-> t, path |-> ui.views[t]], <<>>)
    IN  /\ UserIn(x)
        /\ ui.session2_open /\ ui.events = <<>>
        /\ t \in Range(ui.tabs[x]) /\ ui.views[t] # Null
        /\ \/ ui' = CloseTab(s, x, s.curr_tab)
           \/ ui' = NewTabView(s, CurrXplorer(s), Computer)

(* show_dual_pane(!xplorer2.visible()): it throws without settings, before *)
(* or after it has shown or hidden the pane.                               *)
UserShowsPanes ==
    /\ UserIn("xplorer")
    /\ ui' = [ui EXCEPT !.visible2 = ~@, !.dual = IF @ = Null THEN @ ELSE ~ui.visible2]

User ==
    \/ \E x \in Panes :
          \/ UserClicksTab(x) \/ UserInView(x) \/ UserMakesTab(x) \/ UserDuplicatesTab(x)
          \/ UserClosesTab(x) \/ UserClosesPaneTab(x) \/ UserGesture(x)
    \/ UserMakesCurrentTab \/ UserShowsPanes

-----------------------------------------------------------------------------
(* The script of init.js: load_setting, then the first pane.  A setting.json *)
(* that does not open is {}.  eval throws on one that was cut off, and      *)
(* nothing more of the script runs.                                        *)
Start ==
    /\ phase = "off"
    /\ phase' = "on"
    /\ \E d \in {disk["setting.json"], TRUE}, sess \in Sessions("xplorer") :
          \/ d = Broken /\ ui' = Blank /\ shut' = {}
          \/ /\ d # Broken
             /\ ui' = LoadSession([Blank EXCEPT !.dual = d], "xplorer", sess)
             /\ shut' = IF sess = disk["session.json"] THEN {} ELSE {"xplorer"}
    /\ UNCHANGED <<acts, left, disk>>

(* on_close, for the window's close and for "save session". *)
OnClose ==
    /\ phase = "on"
    /\ acts \in 0 .. MaxSaved \cup {MaxActs + 1}
    /\ phase' \in {"saving", "ending"}
    /\ acts' = MaxActs + 1
    /\ left' = <<"session.json", "session2.json", "setting.json">>
    /\ UNCHANGED <<disk, shut, ui>>

PathsOf(x) == [i \in DOMAIN ui.tabs[x] |-> ui.path[ui.tabs[x][i]]]

(* What save2file writes: the tabs of a pane, or the settings.  load_setting *)
(* takes {} and an empty file for dual panes.                              *)
Content(f) ==
    CASE f = "session.json" -> PathsOf("xplorer")
      [] f = "session2.json" -> PathsOf("xplorer2")
      [] f = "setting.json" -> (ui.dual # FALSE)

Written(f, c) ==
    \/ disk' = [disk EXCEPT ![f] = c] /\ shut' = {x \in shut : SessionFile[x] # f}
    \/ UNCHANGED disk /\ shut' = shut \cup {x \in Panes : SessionFile[x] = f}

(* Mutated form: the file of the second pane gets the tabs of the current. *)
SaveFileOfCurrent ==
    /\ phase \in {"saving", "ending"} /\ left # <<>>
    /\ Written(Head(left), IF Head(left) = "session2.json" THEN PathsOf(CurrXplorer(ui))
                                                           ELSE Content(Head(left)))
    /\ left' = Tail(left)
    /\ UNCHANGED <<phase, acts, ui>>

(* save2file: a file that does not open is left as it is. *)
SaveFile ==
    /\ phase \in {"saving", "ending"} /\ left # <<>>
    /\ Written(Head(left), Content(Head(left)))
    /\ left' = Tail(left)
    /\ UNCHANGED <<phase, acts, ui>>

SaveEnds ==
    /\ left = <<>>
    /\ \/ phase = "saving" /\ phase' = "on" /\ UNCHANGED ui
       \/ phase = "ending" /\ phase' = "off" /\ ui' = Blank
    /\ UNCHANGED <<acts, left, disk, shut>>

(* What a file has when the program dies between open, which empties it,   *)
(* and close.                                                              *)
CutOff(f) == {disk[f], Broken, IF f = "setting.json" THEN TRUE ELSE <<>>}

(* The program is killed, or the power fails. *)
Kill ==
    /\ phase # "off"
    /\ phase' = "off"
    /\ left' = <<>>
    /\ ui' = Blank
    /\ acts' = MaxActs + 1
    /\ UNCHANGED shut
    /\ IF left = <<>> THEN UNCHANGED disk
       ELSE \E c \in CutOff(Head(left)) : disk' = [disk EXCEPT ![Head(left)] = c]

Next == Event \/ User \/ Start \/ OnClose \/ SaveFile \/ SaveEnds \/ Kill

Spec == Init /\ [][Next]_vars

-----------------------------------------------------------------------------
Tabs == UNION {Range(ui.tabs[x]) : x \in Panes}

(* Every tab that was ever shown has its view and no view is left behind   *)
(* by a closed tab, whatever is clicked while events are outstanding.      *)
OneViewPerTab == \A t \in DOMAIN ui.views : ui.views[t] # Null <=> t \in Tabs \ ui.uninit

(* When no event of a tab is outstanding its path is the folder its view   *)
(* shows: a folder that opens late is noted for its own tab, though        *)
(* another has become the current one (init.js, open).                     *)
TabsFollowViews ==
    \A t \in Tabs \ ui.uninit :
        (\A i \in DOMAIN ui.events : ui.events[i].tab # t) => ui.path[t] = ui.views[t]

(* Where copy_file and move_file put the selected files. *)
Visible(t) == t \in Tabs /\ PaneVisible(ui.pane[t])

CopyTarget ==
    LET one == ui.pane_curr_tab["xplorer"]
        two == ui.pane_curr_tab["xplorer2"]
    IN  IF one = Null \/ two = Null THEN Null
        ELSE IF ~Visible(one) \/ ~Visible(two) THEN Null
        ELSE IF one = ui.curr_tab THEN ui.path[two]
        ELSE IF two = ui.curr_tab THEN ui.path[one]
        ELSE Null

(* With both panes open and no event outstanding, files are copied and     *)
(* moved from the pane of the current tab to the folder the other pane     *)
(* shows, whatever tabs were closed, restored or clicked before; with one  *)
(* pane they are not copied.                                               *)
CopyGoesAcross ==
    (phase = "on" /\ ui.events = <<>> /\ ui.dual # Null /\ ui.curr_tab \in Tabs) =>
        LET other == Other(ui.pane[ui.curr_tab])
        IN  CopyTarget = IF ui.visible2 /\ ui.tabs[other] # <<>>
                           THEN ui.views[ui.checked[other]] ELSE Null

(* The tabs a pane has, or will have once its session is loaded. *)
Desk(x) ==
    LET file == disk[SessionFile[x]]
    IN  PathsOf(x) \o (IF x \in ui.loaded \/ file = Broken THEN <<>>
                       ELSE IF file = <<>> THEN <<Computer>> ELSE file)

Killed == phase' = "off" /\ (phase # "ending" \/ left # <<>>)

(* A program that is started, saves or ends leaves every pane the tabs it  *)
(* had, for this run or the next.  The exceptions are the program's: it is *)
(* killed; a file does not open, and is taken for an empty one or not      *)
(* written, without a word; a pane without tabs gets one next time; and a  *)
(* pane whose session has not been loaded yet is saved as if it had none.  *)
SessionSurvives ==
    [][\A x \in Panes :
          \/ Killed \/ x \in shut'
          \/ phase' = phase /\ left' = left /\ ui'.loaded = ui.loaded
          \/ phase \in {"saving", "ending"} /\ (x \notin ui.loaded \/ ui.tabs[x] = <<>>)
          \/ Desk(x)' = Desk(x)]_vars
=============================================================================
