------------------------- MODULE ExplorerTabsProofs -------------------------
(***************************************************************************)
(* For any folders, any number of tabs, of events outstanding and of runs: *)
(* the tabs of the Explorer+ window have their views, their paths are the  *)
(* folders the views show, files are copied across the panes, and a        *)
(* session outlives the program.                                           *)
(*                                                                         *)
(* The functions of the script are operators on a record; for each of them *)
(* a lemma says what it does to Good, of which the invariant is made.      *)
(***************************************************************************)
EXTENDS ExplorerTabs, SequenceTheorems, TLAPS

-----------------------------------------------------------------------------
\* The globals of the script, as functions on records: the lemmas below are about any
\* record s that has these fields.
Names == {"tabs", "checked", "pane", "path", "uninit", "views", "curr_tab", "pane_curr_tab",
          "clicked_tab", "session2_open", "loaded", "dual", "visible2", "events"}

Known(s) == 1 .. Len(s.path)        \* the tabs made in this run
Shown(s, x) == Range(s.tabs[x])     \* those of a pane
Alive(s, t) == s.views[t] # Null

Somewhere == Folders \cup {Null}
Ref == Nat \cup {Null}
Reports == [kind : {"open", "active"}, tab : Nat, path : Folders]

Typed(s) ==
    /\ DOMAIN s = Names
    /\ s.tabs \in [Panes -> Seq(Nat)]
    /\ s.path \in Seq(Folders) /\ s.pane \in Seq(Panes) /\ s.views \in Seq(Somewhere)
    /\ Len(s.pane) = Len(s.path) /\ Len(s.views) = Len(s.path)
    /\ s.checked \in [Panes -> Ref]
    /\ s.pane_curr_tab \in [Panes -> Ref]
    /\ s.events \in Seq(Reports)

\* A tab is in its own pane, once; a reference is to a tab of this run, the current tab
\* was clicked, and so was every tab an event is about.
Placed(s) ==
    /\ s.uninit \subseteq Known(s)
    /\ s.curr_tab = Null \/ s.curr_tab \in Known(s) \ s.uninit
    /\ \A i \in 1 .. Len(s.events) : s.events[i].tab \in Known(s) \ s.uninit
    /\ \A x \in Panes :
          /\ \A t \in Shown(s, x) : t \in Known(s) /\ s.pane[t] = x
          /\ IsInjective(s.tabs[x])
          /\ s.pane_curr_tab[x] = Null \/ (s.pane_curr_tab[x] \in Known(s) /\ s.pane[s.pane_curr_tab[x]] = x)

\* OneViewPerTab.
Viewed(s) == \A t \in Known(s) : Alive(s, t) <=> t \in Shown(s, s.pane[t]) \ s.uninit

\* What becomes of the path of t: it is s.path[t], and then that of each event about t.
\* An "active" event repeats the one before it, and the last is where the view is.
Stop(s, t, i) == i = 0 \/ s.events[i].tab = t
PathAt(s, t, i) == IF i = 0 THEN s.path[t] ELSE s.events[i].path
Quiet(s, t, i, j) == \A k \in i + 1 .. j - 1 : s.events[k].tab # t

Followed(s) ==
    \A t \in Known(s) : Alive(s, t) =>
        \A i \in 0 .. Len(s.events) : Stop(s, t, i) =>
            /\ Quiet(s, t, i, Len(s.events) + 1) => PathAt(s, t, i) = s.views[t]
            /\ \A j \in i + 1 .. Len(s.events) :
                  (s.events[j].tab = t /\ s.events[j].kind = "active" /\ Quiet(s, t, i, j))
                      => s.events[j].path = PathAt(s, t, i)

\* The event i will make its tab the current one of pane x.
Turns(s, x, i) ==
    s.events[i].kind = "active" /\ s.pane[s.events[i].tab] = x /\ Alive(s, s.events[i].tab)

\* The tab that is down in a pane has a view, and is the pane's current one or will be.
PaneOK(s, x) ==
    (s.dual # Null /\ s.tabs[x] # <<>>) =>
        /\ s.checked[x] \in Shown(s, x) /\ Alive(s, s.checked[x])
        /\ \A i \in 1 .. Len(s.events) :
              (Turns(s, x, i) /\ \A j \in i + 1 .. Len(s.events) : ~Turns(s, x, j))
                  => s.events[i].tab = s.checked[x]
        /\ (\A i \in 1 .. Len(s.events) : ~Turns(s, x, i)) => s.pane_curr_tab[x] = s.checked[x]

\* The current tab is that of its pane, or will be.
CurrentOK(s) ==
    (s.dual # Null /\ s.curr_tab # Null /\ s.curr_tab \in Shown(s, s.pane[s.curr_tab])) =>
        \/ s.pane_curr_tab[s.pane[s.curr_tab]] = s.curr_tab
        \/ \E i \in 1 .. Len(s.events) :
              s.events[i].kind = "active" /\ s.events[i].tab = s.curr_tab

SessionsOK(s) ==
    /\ s.session2_open => s.dual # Null
    /\ "xplorer2" \in s.loaded => s.session2_open

Good(s) ==
    /\ Typed(s) /\ Placed(s) /\ Viewed(s) /\ Followed(s)
    /\ \A x \in Panes : PaneOK(s, x)
    /\ CurrentOK(s) /\ SessionsOK(s)

\* What on_close may have still to write.
Queues == {<<"session.json", "session2.json", "setting.json">>,
           <<"session2.json", "setting.json">>, <<"setting.json">>, <<>>}

\* While the files are written, the sessions that are done have what the program has,
\* but for a file that did not open.
DiskOK ==
    /\ DOMAIN disk = Files
    /\ \A x \in Panes : disk[SessionFile[x]] \in Seq(Folders) \cup {Broken}
    /\ IF phase \in {"saving", "ending"}
         THEN /\ left \in Queues
              /\ \A x \in Panes : \/ SessionFile[x] \in Range(left) \/ x \in shut
                                 \/ disk[SessionFile[x]] = [i \in DOMAIN ui.tabs[x] |-> ui.path[ui.tabs[x][i]]]
         ELSE left = <<>>

IInv ==
    /\ phase \in {"off", "on", "saving", "ending"}
    /\ phase = "off" => ui = Blank
    /\ Good(ui) /\ DiskOK
-----------------------------------------------------------------------------
\* Sequences.
LEMMA InRange ==
    ASSUME NEW S, NEW q \in Seq(S)
    PROVE  /\ Len(q) \in Nat /\ DOMAIN q = 1 .. Len(q)
           /\ \A u : u \in Range(q) <=> \E i \in 1 .. Len(q) : q[i] = u
BY DEF Range

LEMMA Injective ==
    ASSUME NEW S, NEW q \in Seq(S)
    PROVE  IsInjective(q) <=> \A i, j \in 1 .. Len(q) : q[i] = q[j] => i = j
<1>1. DOMAIN q = 1 .. Len(q)
  OBVIOUS
<1> QED BY <1>1, Zenon DEF IsInjective

LEMMA MadeIs ==
    ASSUME NEW n \in Nat, NEW ps \in Seq(Folders)
    PROVE  /\ Made(n, ps) \in Seq(Nat) /\ Len(Made(n, ps)) = Len(ps)
           /\ Range(Made(n, ps)) = (n + 1) .. (n + Len(ps))
           /\ IsInjective(Made(n, ps))
<1>1. Len(ps) \in Nat
  OBVIOUS
<1>2. Made(n, ps) \in Seq(Nat) /\ Len(Made(n, ps)) = Len(ps) /\ DOMAIN Made(n, ps) = 1 .. Len(ps)
  BY <1>1 DEF Made
<1>3. \A i \in 1 .. Len(ps) : Made(n, ps)[i] = n + i
  BY <1>1 DEF Made
<1>4. \A k \in (n + 1) .. (n + Len(ps)) : k - n \in 1 .. Len(ps) /\ Made(n, ps)[k - n] = k
  BY <1>1, <1>3
<1>5. Range(Made(n, ps)) = (n + 1) .. (n + Len(ps))
  <2>1. \A u : u \in Range(Made(n, ps)) <=> \E i \in 1 .. Len(ps) : Made(n, ps)[i] = u
    BY <1>2, InRange
  <2>2. \A u \in Range(Made(n, ps)) : u \in (n + 1) .. (n + Len(ps))
    BY <1>1, <1>3, <2>1
  <2>3. \A u \in (n + 1) .. (n + Len(ps)) : u \in Range(Made(n, ps))
    BY <1>4, <2>1
  <2> QED BY <2>2, <2>3
<1>6. \A i, j \in 1 .. Len(ps) : Made(n, ps)[i] = Made(n, ps)[j] => i = j
  BY <1>1, <1>3
<1> QED BY <1>2, <1>5, <1>6, Injective

LEMMA RangeJoined ==
    ASSUME NEW S, NEW a \in Seq(S), NEW b \in Seq(S)
    PROVE  Range(a \o b) = Range(a) \cup Range(b)
BY RangeConcatenation

LEMMA InjectiveJoined ==
    ASSUME NEW a \in Seq(Nat), NEW b \in Seq(Nat), IsInjective(a), IsInjective(b),
           Range(a) \cap Range(b) = {}
    PROVE  IsInjective(a \o b)
<1>1. /\ a \o b \in Seq(Nat) /\ Len(a \o b) = Len(a) + Len(b) /\ Len(a) \in Nat /\ Len(b) \in Nat
      /\ \A i \in 1 .. Len(a) + Len(b) :
            (a \o b)[i] = IF i <= Len(a) THEN a[i] ELSE b[i - Len(a)]
  OBVIOUS
<1>2. DOMAIN (a \o b) = 1 .. Len(a) + Len(b) /\ DOMAIN a = 1 .. Len(a) /\ DOMAIN b = 1 .. Len(b)
  BY <1>1
<1>3. \A i \in 1 .. Len(a), j \in 1 .. Len(b) : a[i] # b[j]
  BY InRange
<1>8. /\ \A i, j \in 1 .. Len(a) : a[i] = a[j] => i = j
      /\ \A i, j \in 1 .. Len(b) : b[i] = b[j] => i = j
  BY Injective
<1> SUFFICES ASSUME NEW i \in 1 .. Len(a) + Len(b), NEW j \in 1 .. Len(a) + Len(b),
                    (a \o b)[i] = (a \o b)[j]
             PROVE  i = j
  BY <1>1, Injective
<1>4. CASE i <= Len(a) /\ j <= Len(a)
  BY <1>1, <1>4, <1>8
<1>5. CASE i > Len(a) /\ j > Len(a)
  <2>1. i - Len(a) \in 1 .. Len(b) /\ j - Len(a) \in 1 .. Len(b)
        /\ b[i - Len(a)] = b[j - Len(a)]
    BY <1>1, <1>5
  <2>2. i - Len(a) = j - Len(a)
    BY <2>1, <1>8
  <2> QED BY <2>2, <1>1
<1>6. CASE i <= Len(a) /\ j > Len(a)
  BY <1>1, <1>3, <1>6
<1>7. CASE i > Len(a) /\ j <= Len(a)
  BY <1>1, <1>3, <1>7
<1> QED BY <1>1, <1>4, <1>5, <1>6, <1>7

LEMMA CutOut ==
    ASSUME NEW q \in Seq(Nat), NEW p \in 1 .. Len(q)
    PROVE  LET r == SubSeq(q, 1, p - 1) \o SubSeq(q, p + 1, Len(q)) IN
           /\ r \in Seq(Nat) /\ Len(r) = Len(q) - 1
           /\ \A i \in 1 .. Len(q) - 1 : r[i] = IF i < p THEN q[i] ELSE q[i + 1]
<1> DEFINE a == SubSeq(q, 1, p - 1)
           b == SubSeq(q, p + 1, Len(q))
<1>1. Len(q) \in Nat /\ p \in Nat /\ p >= 1 /\ p <= Len(q) /\ \A i \in 1 .. Len(q) : q[i] \in Nat
  OBVIOUS
<1>2. a \in Seq(Nat) /\ Len(a) = p - 1 /\ \A i \in 1 .. p - 1 : a[i] = q[i]
  <2>1. \A i \in 1 .. p - 1 : q[i] \in Nat
    BY <1>1
  <2>2. a \in Seq(Nat) /\ Len(a) = (IF 1 <= p - 1 THEN (p - 1) - 1 + 1 ELSE 0)
        /\ \A i \in 1 .. (p - 1) - 1 + 1 : a[i] = q[1 + i - 1]
    BY <1>1, <2>1, 1 \in Int, p - 1 \in Int, SubSeqProperties
  <2> HIDE DEF a
  <2> QED BY <1>1, <2>2
<1>3. b \in Seq(Nat) /\ Len(b) = Len(q) - p /\ \A i \in 1 .. Len(q) - p : b[i] = q[p + i]
  <2>1. \A i \in p + 1 .. Len(q) : q[i] \in Nat
    BY <1>1
  <2>2. b \in Seq(Nat) /\ Len(b) = (IF p + 1 <= Len(q) THEN Len(q) - (p + 1) + 1 ELSE 0)
        /\ \A i \in 1 .. Len(q) - (p + 1) + 1 : b[i] = q[(p + 1) + i - 1]
    BY <1>1, <2>1, p + 1 \in Int, Len(q) \in Int, SubSeqProperties
  <2> HIDE DEF b
  <2> QED BY <1>1, <2>2
<1> HIDE DEF a, b
<1>4. /\ a \o b \in Seq(Nat) /\ Len(a \o b) = Len(q) - 1
      /\ \A i \in 1 .. Len(q) - 1 : (a \o b)[i] = IF i <= p - 1 THEN a[i] ELSE b[i - (p - 1)]
  <2>1. /\ a \o b \in Seq(Nat) /\ Len(a \o b) = Len(a) + Len(b)
        /\ \A i \in 1 .. Len(a) + Len(b) : (a \o b)[i] = IF i <= Len(a) THEN a[i] ELSE b[i - Len(a)]
    BY <1>2, <1>3, ConcatProperties
  <2>2. Len(a) = p - 1 /\ Len(a) + Len(b) = Len(q) - 1
    BY <1>1, <1>2, <1>3
  <2> QED BY <2>1, <2>2
<1>5. ASSUME NEW i \in 1 .. Len(q) - 1
      PROVE  (a \o b)[i] = IF i < p THEN q[i] ELSE q[i + 1]
  <2>1. CASE i < p
    BY <1>1, <1>2, <1>4, <2>1
  <2>2. CASE i >= p
    <3> DEFINE k == i - (p - 1)
    <3>1. k \in 1 .. Len(q) - p /\ p + k = i + 1 /\ ~(i <= p - 1) /\ ~(i < p)
      BY <1>1, <2>2
    <3>2. (a \o b)[i] = b[k]
      BY <1>4, <3>1
    <3> HIDE DEF k
    <3>3. b[k] = q[p + k]
      BY <1>3, <3>1
    <3> QED BY <3>1, <3>2, <3>3
  <2>3. i < p \/ i >= p
    BY <1>1
  <2> QED BY <2>1, <2>2, <2>3
<1> QED BY <1>4, <1>5 DEF a, b

\* A tab is taken out of its pane, or a tab that is not in it is not.
LEMMA Removed ==
    ASSUME NEW q \in Seq(Nat), IsInjective(q), NEW t,
           NEW r, r = RemoveAt(q, Place(q, t))
    PROVE  /\ r \in Seq(Nat) /\ IsInjective(r) /\ Range(r) = Range(q) \ {t}
           /\ Place(q, t) \in Nat
           /\ r # <<>> => r[IF Place(q, t) > 2 THEN Place(q, t) - 1 ELSE 1] \in Range(r)
<1>0. Len(q) \in Nat /\ DOMAIN q = 1 .. Len(q)
  OBVIOUS
<1>3. \A u : u \in Range(q) <=> \E i \in 1 .. Len(q) : q[i] = u
  BY InRange
<1>4. \A i, j \in 1 .. Len(q) : q[i] = q[j] => i = j
  BY Injective
<1>1. CASE t \notin Range(q)
  <2>1. Place(q, t) = 0
    BY <1>1 DEF Place
  <2>2. r = SubSeq(q, 1, 0 - 1) \o SubSeq(q, 0 + 1, Len(q))
    BY <2>1 DEF RemoveAt
  <2>3. SubSeq(q, 1, 0 - 1) = <<>> /\ SubSeq(q, 0 + 1, Len(q)) = q
    <3>1. SubSeq(q, 1, 0 - 1) = <<>>
      BY SubSeqEmpty
    <3>2. SubSeq(q, 1, Len(q)) = q
      BY SubSeqFull
    <3> QED BY <3>1, <3>2
  <2>4. r = q
    BY <2>2, <2>3
  <2>5. q # <<>> => 1 \in 1 .. Len(q)
    BY <1>0
  <2> QED BY <1>0, <1>1, <2>1, <2>4, <2>5 DEF Range
<1>2. CASE t \in Range(q)
  <2> DEFINE p == Place(q, t)
  <2>1. p \in 1 .. Len(q) /\ q[p] = t
    <3>1. \E i \in DOMAIN q : q[i] = t
      BY <1>2 DEF Range
    <3> QED BY <1>0, <1>2, <3>1 DEF Place
  <2> HIDE DEF p
  <2>2. r = SubSeq(q, 1, p - 1) \o SubSeq(q, p + 1, Len(q))
    BY DEF RemoveAt, p
  <2>5. /\ r \in Seq(Nat) /\ Len(r) = Len(q) - 1
        /\ \A i \in 1 .. Len(q) - 1 : r[i] = IF i < p THEN q[i] ELSE q[i + 1]
    BY <2>1, <2>2, CutOut
  <2>6. IsInjective(r)
    <3>1. ASSUME NEW i \in 1 .. Len(r), NEW j \in 1 .. Len(r), r[i] = r[j] PROVE i = j
      <4> DEFINE I == IF i < p THEN i ELSE i + 1
                 J == IF j < p THEN j ELSE j + 1
      <4>1. I \in 1 .. Len(q) /\ J \in 1 .. Len(q)
        BY <1>0, <2>1, <2>5
      <4>3. q[I] = r[i] /\ q[J] = r[j]
        BY <2>5
      <4>2. I = J
        BY <4>1, <4>3, <3>1, <1>4
      <4>4. i \in Nat /\ j \in Nat /\ p \in Nat
        BY <1>0, <2>1, <2>5
      <4> QED BY <4>2, <4>4
    <3> QED BY <2>5, <3>1, Injective
  <2>7. Range(r) = Range(q) \ {t}
    <3>0. \A u : u \in Range(r) <=> \E i \in 1 .. Len(q) - 1 : r[i] = u
      <4>1. r \in Seq(Nat) /\ Len(r) = Len(q) - 1
        BY <2>5
      <4> QED BY <4>1, InRange
    <3>1. ASSUME NEW u \in Range(r) PROVE u \in Range(q) /\ u # t
      <4>1. PICK i \in 1 .. Len(q) - 1 : r[i] = u
        BY <3>0
      <4> DEFINE I == IF i < p THEN i ELSE i + 1
      <4>3. I \in 1 .. Len(q) /\ I # p
        BY <1>0, <2>1
      <4>2. q[I] = u
        BY <2>5, <4>1
      <4> HIDE DEF I
      <4> QED BY <2>1, <4>2, <4>3, <1>3, <1>4
    <3>2. ASSUME NEW u \in Range(q), u # t PROVE u \in Range(r)
      <4>1. PICK i \in 1 .. Len(q) : q[i] = u
        BY <1>3
      <4>2. CASE i < p
        <5>1. i \in 1 .. Len(q) - 1
          BY <1>0, <2>1, <4>2
        <5>2. r[i] = q[i]
          BY <5>1, <2>5, <4>2
        <5> QED BY <5>1, <5>2, <3>0, <4>1
      <4>3. CASE i > p
        <5>1. i - 1 \in 1 .. Len(q) - 1 /\ r[i - 1] = q[i]
          <6>1. i - 1 \in 1 .. Len(q) - 1 /\ ~(i - 1 < p) /\ (i - 1) + 1 = i
            BY <1>0, <2>1, <4>1, <4>3
          <6> QED BY <2>5, <6>1
        <5> QED BY <5>1, <3>0, <4>1
      <4> QED BY <1>0, <2>1, <4>1, <4>2, <4>3, <3>2
    <3> QED BY <3>1, <3>2
  <2>8. r # <<>> => (IF p > 2 THEN p - 1 ELSE 1) \in 1 .. Len(q) - 1
    BY <1>0, <2>1, <2>5
  <2>9. \A i \in 1 .. Len(q) - 1 : r[i] \in Range(r)
    BY <2>5 DEF Range
  <2>10. p \in Nat /\ (r # <<>> => r[IF p > 2 THEN p - 1 ELSE 1] \in Range(r))
    BY <1>0, <2>1, <2>8, <2>9
  <2> QED BY <2>5, <2>6, <2>7, <2>10 DEF p
<1> QED BY <1>1, <1>2

-----------------------------------------------------------------------------
\* What the functions of the script do to the fields.

\* The tab t of pane x was clicked in s.
Clicked(s, r, x, t) ==
    /\ DOMAIN r = Names
    /\ r.tabs = s.tabs /\ r.pane = s.pane /\ r.path = s.path /\ r.pane_curr_tab = s.pane_curr_tab
    /\ r.session2_open = s.session2_open /\ r.loaded = s.loaded /\ r.dual = s.dual
    /\ r.checked = [s.checked EXCEPT ![x] = t] /\ r.curr_tab = t
    /\ r.uninit = s.uninit \ {t}
    /\ r.views = [s.views EXCEPT ![t] = IF t \in s.uninit THEN s.path[t] ELSE @]
    /\ r.events = Append(s.events, [kind |-> "active", tab |-> t, path |-> r.views[t]])

LEMMA ReportIs ==
    ASSUME NEW s, DOMAIN s = Names, NEW kind, NEW t, NEW r, r = Report(s, kind, t)
    PROVE  /\ DOMAIN r = Names
           /\ r.tabs = s.tabs /\ r.pane = s.pane /\ r.path = s.path
           /\ r.checked = s.checked /\ r.pane_curr_tab = s.pane_curr_tab
           /\ r.session2_open = s.session2_open /\ r.loaded = s.loaded /\ r.dual = s.dual
           /\ r.curr_tab = s.curr_tab /\ r.uninit = s.uninit /\ r.views = s.views
           /\ r.clicked_tab = s.clicked_tab /\ r.visible2 = s.visible2
           /\ r.events = Append(s.events, [kind |-> kind, tab |-> t, path |-> s.views[t]])
BY DEF Report, Names

LEMMA ExplorerNewIs ==
    ASSUME NEW s, DOMAIN s = Names, NEW t \in DOMAIN s.views, NEW r, r = ExplorerNew(s, t)
    PROVE  /\ DOMAIN r = Names
           /\ r.tabs = s.tabs /\ r.pane = s.pane /\ r.path = s.path
           /\ r.checked = s.checked /\ r.pane_curr_tab = s.pane_curr_tab
           /\ r.session2_open = s.session2_open /\ r.loaded = s.loaded /\ r.dual = s.dual
           /\ r.curr_tab = s.curr_tab /\ r.uninit = s.uninit
           /\ r.views = [s.views EXCEPT ![t] = s.path[t]]
           /\ r.clicked_tab = s.clicked_tab /\ r.visible2 = s.visible2
           /\ r.events = Append(s.events, [kind |-> "active", tab |-> t, path |-> s.path[t]])
<1> DEFINE c == [s EXCEPT !.views[t] = s.path[t]]
<1>1. /\ DOMAIN c = Names
      /\ c.tabs = s.tabs /\ c.pane = s.pane /\ c.path = s.path
      /\ c.checked = s.checked /\ c.pane_curr_tab = s.pane_curr_tab
      /\ c.session2_open = s.session2_open /\ c.loaded = s.loaded /\ c.dual = s.dual
      /\ c.curr_tab = s.curr_tab /\ c.uninit = s.uninit /\ c.events = s.events
      /\ c.clicked_tab = s.clicked_tab /\ c.visible2 = s.visible2
      /\ c.views = [s.views EXCEPT ![t] = s.path[t]]
  BY DEF Names
<1>2. c.views[t] = s.path[t]
  BY <1>1
<1>3. r = Report(c, "active", t)
  BY DEF ExplorerNew
<1> HIDE DEF c
<1> QED BY <1>1, <1>2, <1>3, ReportIs

LEMMA ClickTabIs ==
    ASSUME NEW s, DOMAIN s = Names, NEW x \in DOMAIN s.checked, NEW t \in DOMAIN s.views,
           NEW r, r = ClickTab(s, x, t)
    PROVE  /\ DOMAIN r = Names
           /\ r.tabs = s.tabs /\ r.pane = s.pane /\ r.path = s.path
           /\ r.pane_curr_tab = s.pane_curr_tab
           /\ r.session2_open = s.session2_open /\ r.loaded = s.loaded /\ r.dual = s.dual
           /\ r.checked = [s.checked EXCEPT ![x] = t] /\ r.curr_tab = t
           /\ t \in s.uninit =>
                /\ r.uninit = s.uninit \ {t} /\ r.views = [s.views EXCEPT ![t] = s.path[t]]
                /\ r.events = Append(s.events, [kind |-> "active", tab |-> t, path |-> s.path[t]])
           /\ t \notin s.uninit =>
                /\ r.uninit = s.uninit /\ r.views = s.views /\ r.events = s.events
<1> DEFINE c == [s EXCEPT !.curr_tab = t, !.checked[x] = t]
           d == [c EXCEPT !.uninit = @ \ {t}]
<1>1. /\ DOMAIN c = Names
      /\ c.tabs = s.tabs /\ c.pane = s.pane /\ c.path = s.path
      /\ c.pane_curr_tab = s.pane_curr_tab
      /\ c.session2_open = s.session2_open /\ c.loaded = s.loaded /\ c.dual = s.dual
      /\ c.checked = [s.checked EXCEPT ![x] = t] /\ c.curr_tab = t
      /\ c.uninit = s.uninit /\ c.views = s.views /\ c.events = s.events
  BY DEF Names
<1>2. r = IF t \in s.uninit THEN ExplorerNew(d, t) ELSE [c EXCEPT !.clicked_tab = TRUE]
  BY DEF ClickTab
<1> HIDE DEF c
<1>3. CASE t \in s.uninit
  <2>1. /\ DOMAIN d = Names
        /\ d.tabs = c.tabs /\ d.pane = c.pane /\ d.path = c.path
        /\ d.pane_curr_tab = c.pane_curr_tab
        /\ d.session2_open = c.session2_open /\ d.loaded = c.loaded /\ d.dual = c.dual
        /\ d.checked = c.checked /\ d.curr_tab = c.curr_tab
        /\ d.uninit = c.uninit \ {t} /\ d.views = c.views /\ d.events = c.events
    BY <1>1 DEF Names
  <2>2. r = ExplorerNew(d, t)
    BY <1>2, <1>3
  <2> HIDE DEF d
  <2>3. t \in DOMAIN d.views
    BY <1>1, <2>1
  <2>4. /\ DOMAIN r = Names
        /\ r.tabs = d.tabs /\ r.pane = d.pane /\ r.path = d.path
        /\ r.checked = d.checked /\ r.pane_curr_tab = d.pane_curr_tab
        /\ r.session2_open = d.session2_open /\ r.loaded = d.loaded /\ r.dual = d.dual
        /\ r.curr_tab = d.curr_tab /\ r.uninit = d.uninit
        /\ r.views = [d.views EXCEPT ![t] = d.path[t]]
        /\ r.events = Append(d.events, [kind |-> "active", tab |-> t, path |-> d.path[t]])
    BY <2>1, <2>2, <2>3, ExplorerNewIs
  <2>5. d.path = s.path /\ d.views = s.views /\ d.events = s.events /\ d.uninit = s.uninit \ {t}
    BY <1>1, <2>1
  <2> QED BY <1>1, <1>3, <2>1, <2>4, <2>5
<1>4. CASE t \notin s.uninit
  <2>1. r = [c EXCEPT !.clicked_tab = TRUE]
    BY <1>2, <1>4
  <2> QED BY <1>1, <1>4, <2>1 DEF Names
<1> QED BY <1>3, <1>4

LEMMA PressIs ==
    ASSUME NEW s, Typed(s), Placed(s), Viewed(s), NEW x \in Panes, NEW t \in Shown(s, x),
           NEW r, r = Press(s, x, t)
    PROVE  Clicked(s, r, x, t)
<1> DEFINE c == ClickTab(s, x, t)
<1>1. DOMAIN s = Names /\ t \in Known(s) /\ s.views \in Seq(Somewhere) /\ t \in DOMAIN s.views /\ x \in DOMAIN s.checked
  BY DEF Typed, Placed, Known
<1>2. s.views[t] = Null <=> t \in s.uninit
  BY <1>1 DEF Viewed, Alive, Placed
<1>3. r = IF s.views[t] = Null THEN c ELSE Report(c, "active", t)
  BY DEF Press
<1> HIDE DEF c
<1>4. /\ DOMAIN c = Names
      /\ c.tabs = s.tabs /\ c.pane = s.pane /\ c.path = s.path
      /\ c.pane_curr_tab = s.pane_curr_tab
      /\ c.session2_open = s.session2_open /\ c.loaded = s.loaded /\ c.dual = s.dual
      /\ c.checked = [s.checked EXCEPT ![x] = t] /\ c.curr_tab = t
      /\ t \in s.uninit =>
           /\ c.uninit = s.uninit \ {t} /\ c.views = [s.views EXCEPT ![t] = s.path[t]]
           /\ c.events = Append(s.events, [kind |-> "active", tab |-> t, path |-> s.path[t]])
      /\ t \notin s.uninit =>
           /\ c.uninit = s.uninit /\ c.views = s.views /\ c.events = s.events
  BY <1>1, ClickTabIs DEF c
<1>5. CASE t \in s.uninit
  <2>1. r = c /\ r.views[t] = s.path[t]
    BY <1>1, <1>2, <1>3, <1>4, <1>5
  <2> QED BY <1>4, <1>5, <2>1 DEF Clicked
<1>6. CASE t \notin s.uninit
  <2>1. r = Report(c, "active", t)
    BY <1>2, <1>3, <1>6
  <2>2. s.uninit \ {t} = s.uninit /\ [s.views EXCEPT ![t] = s.views[t]] = s.views
    BY <1>1, <1>6
  <2>3. /\ DOMAIN r = Names
        /\ r.tabs = c.tabs /\ r.pane = c.pane /\ r.path = c.path
        /\ r.checked = c.checked /\ r.pane_curr_tab = c.pane_curr_tab
        /\ r.session2_open = c.session2_open /\ r.loaded = c.loaded /\ r.dual = c.dual
        /\ r.curr_tab = c.curr_tab /\ r.uninit = c.uninit /\ r.views = c.views
        /\ r.events = Append(c.events, [kind |-> "active", tab |-> t, path |-> c.views[t]])
    BY <1>4, <2>1, ReportIs
  <2>4. r.views = [s.views EXCEPT ![t] = IF t \in s.uninit THEN s.path[t] ELSE @]
    BY <1>4, <1>6, <2>2, <2>3
  <2> QED BY <1>4, <1>6, <2>2, <2>3, <2>4 DEF Clicked
<1> QED BY <1>5, <1>6

LEMMA NewTabsIs ==
    ASSUME NEW s, DOMAIN s = Names, NEW x \in DOMAIN s.tabs, NEW ps, NEW r, r = NewTabs(s, x, ps)
    PROVE  /\ DOMAIN r = Names
           /\ r.tabs = [s.tabs EXCEPT ![x] = @ \o Made(Len(s.path), ps)]
           /\ r.path = s.path \o ps
           /\ r.pane = s.pane \o Repeated(x, ps)
           /\ r.views = s.views \o Repeated(Null, ps)
           /\ r.checked = s.checked /\ r.pane_curr_tab = s.pane_curr_tab
           /\ r.session2_open = s.session2_open /\ r.loaded = s.loaded /\ r.dual = s.dual
           /\ r.curr_tab = s.curr_tab /\ r.uninit = s.uninit \cup Range(Made(Len(s.path), ps))
           /\ r.events = s.events
BY DEF NewTabs, Inserted, Names

\* r is q and then a, as many times as ps is long.
Grown(S, r, q, a, ps) ==
    /\ r \in Seq(S) /\ Len(r) = Len(q) + Len(ps)
    /\ \A i \in 1 .. Len(q) : r[i] = q[i]
    /\ \A i \in Len(q) + 1 .. Len(q) + Len(ps) : r[i] = a

LEMMA Joined ==
    ASSUME NEW S, NEW q \in Seq(S), NEW a \in S, NEW ps, Len(ps) \in Nat
    PROVE  Grown(S, q \o Repeated(a, ps), q, a, ps)
<1> DEFINE b == Repeated(a, ps)
           k == Len(ps)
<1>1. b \in Seq(S) /\ Len(b) = k /\ \A i \in 1 .. k : b[i] = a
  BY DEF Repeated
<1> HIDE DEF b, k
<1>2. /\ q \o b \in Seq(S) /\ Len(q \o b) = Len(q) + Len(b)
      /\ \A i \in 1 .. Len(q) + Len(b) : (q \o b)[i] = IF i <= Len(q) THEN q[i] ELSE b[i - Len(q)]
  BY <1>1, ConcatProperties
<1>3. Len(q) \in Nat /\ k \in Nat
  BY DEF k
<1>4. \A i \in 1 .. Len(q) : (q \o b)[i] = q[i]
  BY <1>1, <1>2, <1>3
<1>5. ASSUME NEW i \in Len(q) + 1 .. Len(q) + k PROVE (q \o b)[i] = a
  <2>1. i - Len(q) \in 1 .. k /\ ~(i <= Len(q)) /\ i \in 1 .. Len(q) + k
    BY <1>3
  <2>2. (q \o b)[i] = b[i - Len(q)]
    BY <1>1, <1>2, <2>1
  <2> QED BY <1>1, <2>1, <2>2
<1> QED BY <1>1, <1>2, <1>4, <1>5 DEF b, k, Grown

\* new_tab_view is new_tab and a click on the tab it made.
LEMMA NewTabViewIs ==
    ASSUME NEW s, Typed(s), Placed(s), NEW x \in Panes, NEW p \in Folders,
           NEW r, r = NewTabView(s, x, p)
    PROVE  Clicked(NewTabs(s, x, <<p>>), r, x, Len(s.path) + 1)
<1>0. PICK n, ps, i, c, q :
            /\ n = Len(s.path) + 1 /\ ps = <<p>>
            /\ i = Inserted(s, x, ps) /\ c = ClickTab(i, x, n) /\ q = NewTabs(s, x, ps)
  OBVIOUS
<1>1. DOMAIN s = Names /\ x \in DOMAIN s.tabs /\ x \in DOMAIN s.checked /\ Len(s.path) \in Nat /\ n \notin s.uninit
      /\ ps \in Seq(Folders) /\ Len(ps) = 1 /\ n = Len(s.path) + 1
  BY <1>0 DEF Typed, Placed, Known
<1>2. Range(Made(Len(s.path), ps)) = {n}
  <2>1. Range(Made(Len(s.path), ps)) = (Len(s.path) + 1) .. (Len(s.path) + Len(ps))
    BY <1>1, MadeIs
  <2> QED BY <1>1, <2>1
<1>3. /\ DOMAIN i = Names
      /\ i.checked = s.checked /\ i.pane_curr_tab = s.pane_curr_tab
      /\ i.session2_open = s.session2_open /\ i.loaded = s.loaded /\ i.dual = s.dual
      /\ i.curr_tab = s.curr_tab /\ i.uninit = s.uninit /\ i.events = s.events
      /\ i.tabs = [s.tabs EXCEPT ![x] = @ \o Made(Len(s.path), ps)]
      /\ i.path = s.path \o ps /\ i.pane = s.pane \o Repeated(x, ps)
      /\ i.views = s.views \o Repeated(Null, ps)
  BY <1>0, <1>1 DEF Inserted, Names
<1>4. /\ DOMAIN q = Names
      /\ q.tabs = i.tabs /\ q.path = i.path /\ q.pane = i.pane /\ q.views = i.views
      /\ q.checked = s.checked /\ q.pane_curr_tab = s.pane_curr_tab
      /\ q.session2_open = s.session2_open /\ q.loaded = s.loaded /\ q.dual = s.dual
      /\ q.curr_tab = s.curr_tab /\ q.uninit = s.uninit \cup {n} /\ q.events = s.events
  <2>1. /\ DOMAIN q = Names
        /\ q.tabs = [s.tabs EXCEPT ![x] = @ \o Made(Len(s.path), ps)]
        /\ q.path = s.path \o ps /\ q.pane = s.pane \o Repeated(x, ps)
        /\ q.views = s.views \o Repeated(Null, ps)
        /\ q.checked = s.checked /\ q.pane_curr_tab = s.pane_curr_tab
        /\ q.session2_open = s.session2_open /\ q.loaded = s.loaded /\ q.dual = s.dual
        /\ q.curr_tab = s.curr_tab /\ q.uninit = s.uninit \cup Range(Made(Len(s.path), ps))
        /\ q.events = s.events
    BY <1>0, <1>1 DEF NewTabs, Inserted, Names
  <2> QED BY <1>2, <1>3, <2>1
<1>5. i.views \in Seq(Somewhere) /\ n \in DOMAIN i.views /\ i.views[n] = Null
  <2>1. s.views \in Seq(Somewhere) /\ Len(s.views) = Len(s.path)
    BY DEF Typed
  <2>5. s.views \in Seq(Somewhere) /\ Null \in Somewhere /\ Len(ps) \in Nat
    BY <1>1, <2>1 DEF Somewhere
  <2>6. Grown(Somewhere, s.views \o Repeated(Null, ps), s.views, Null, ps)
    BY <2>5, Joined
  <2>2. /\ i.views \in Seq(Somewhere) /\ Len(i.views) = Len(s.views) + Len(ps)
        /\ \A k \in Len(s.views) + 1 .. Len(s.views) + Len(ps) : i.views[k] = Null
    BY <1>3, <2>6 DEF Grown
  <2>3. n \in 1 .. Len(i.views) /\ n \in Len(s.views) + 1 .. Len(s.views) + Len(ps)
    BY <1>1, <2>1, <2>2
  <2> QED BY <2>2, <2>3
<1>6. r = ExplorerNew(c, n)
  <2>1. r = ExplorerNew(Press(i, x, n), n)
    BY <1>0 DEF NewTabView
  <2>2. Press(i, x, n) = c
    BY <1>0, <1>5 DEF Press
  <2> QED BY <2>1, <2>2
<1>7. /\ DOMAIN c = Names
      /\ c.tabs = i.tabs /\ c.pane = i.pane /\ c.path = i.path
      /\ c.pane_curr_tab = i.pane_curr_tab
      /\ c.session2_open = i.session2_open /\ c.loaded = i.loaded /\ c.dual = i.dual
      /\ c.checked = [i.checked EXCEPT ![x] = n] /\ c.curr_tab = n
      /\ c.uninit = i.uninit /\ c.views = i.views /\ c.events = i.events
  <2>1. x \in DOMAIN i.checked /\ n \notin i.uninit
    BY <1>1, <1>3
  <2>2. c = [[i EXCEPT !.curr_tab = n, !.checked[x] = n] EXCEPT !.clicked_tab = TRUE]
    BY <1>0, <2>1 DEF ClickTab
  <2> QED BY <1>3, <2>1, <2>2 DEF Names
<1>8. /\ DOMAIN r = Names
      /\ r.tabs = c.tabs /\ r.pane = c.pane /\ r.path = c.path
      /\ r.checked = c.checked /\ r.pane_curr_tab = c.pane_curr_tab
      /\ r.session2_open = c.session2_open /\ r.loaded = c.loaded /\ r.dual = c.dual
      /\ r.curr_tab = c.curr_tab /\ r.uninit = c.uninit
      /\ r.views = [c.views EXCEPT ![n] = c.path[n]]
      /\ r.events = Append(c.events, [kind |-> "active", tab |-> n, path |-> c.path[n]])
  BY <1>5, <1>6, <1>7, ExplorerNewIs
<1>9. r.uninit = q.uninit \ {n} /\ n \in q.uninit
  BY <1>1, <1>3, <1>4, <1>7, <1>8
<1>10. r.views = [q.views EXCEPT ![n] = q.path[n]] /\ r.views[n] = q.path[n]
  BY <1>4, <1>5, <1>7, <1>8
<1>11. Clicked(q, r, x, n)
  <2>1. r.views = [q.views EXCEPT ![n] = IF n \in q.uninit THEN q.path[n] ELSE @]
    BY <1>9, <1>10
  <2>2. r.events = Append(q.events, [kind |-> "active", tab |-> n, path |-> r.views[n]])
    <3>1. c.path = q.path /\ c.events = q.events
      BY <1>3, <1>4, <1>7
    <3>2. r.events = Append(c.events, [kind |-> "active", tab |-> n, path |-> c.path[n]])
      BY <1>8
    <3> QED BY <1>10, <3>1, <3>2
  <2>3. /\ r.tabs = q.tabs /\ r.pane = q.pane /\ r.path = q.path /\ r.pane_curr_tab = q.pane_curr_tab
        /\ r.session2_open = q.session2_open /\ r.loaded = q.loaded /\ r.dual = q.dual
        /\ r.curr_tab = n /\ DOMAIN r = Names
    BY <1>3, <1>4, <1>7, <1>8
  <2>4. r.checked = [q.checked EXCEPT ![x] = n]
    BY <1>3, <1>4, <1>7, <1>8
  <2> QED BY <1>9, <2>1, <2>2, <2>3, <2>4 DEF Clicked
<1> QED BY <1>0, <1>11

\* k tabs were made behind the n there were, in pane x, and wait for a click.
More(s, r, x, n, k) ==
    /\ n \in Nat /\ k \in Nat /\ Len(s.path) = n /\ Len(r.path) = n + k
    /\ \A t \in 1 .. n : r.path[t] = s.path[t] /\ r.pane[t] = s.pane[t] /\ r.views[t] = s.views[t]
    /\ \A t \in n + 1 .. n + k : r.pane[t] = x /\ r.views[t] = Null
    /\ r.uninit = s.uninit \cup (n + 1 .. n + k)
    /\ Shown(r, x) = Shown(s, x) \cup (n + 1 .. n + k)
    /\ \A y \in Panes \ {x} : r.tabs[y] = s.tabs[y]
    /\ r.checked = s.checked /\ r.pane_curr_tab = s.pane_curr_tab /\ r.curr_tab = s.curr_tab
    /\ r.session2_open = s.session2_open /\ r.loaded = s.loaded /\ r.dual = s.dual
    /\ r.events = s.events

LEMMA NewTabsMore ==
    ASSUME NEW s, Typed(s), Placed(s), NEW x \in Panes, NEW ps \in Seq(Folders),
           NEW r, r = NewTabs(s, x, ps)
    PROVE  /\ Typed(r) /\ More(s, r, x, Len(s.path), Len(ps))
           /\ IsInjective(r.tabs[x])
           /\ r.path = s.path \o ps
           /\ r.tabs[x] = s.tabs[x] \o Made(Len(s.path), ps)
<1>1. PICK n, k, made : n = Len(s.path) /\ k = Len(ps) /\ made = Made(n, ps)
  OBVIOUS
<1>2. /\ DOMAIN s = Names /\ s.tabs \in [Panes -> Seq(Nat)] /\ s.tabs[x] \in Seq(Nat)
      /\ s.path \in Seq(Folders) /\ s.pane \in Seq(Panes) /\ s.views \in Seq(Somewhere)
      /\ n \in Nat /\ k \in Nat /\ Len(s.pane) = n /\ Len(s.views) = n
      /\ s.checked \in [Panes -> Ref] /\ s.pane_curr_tab \in [Panes -> Ref]
      /\ s.events \in Seq(Reports)
  BY <1>1 DEF Typed
<1>3. /\ DOMAIN r = Names
      /\ r.tabs = [s.tabs EXCEPT ![x] = @ \o made]
      /\ r.path = s.path \o ps
      /\ r.pane = s.pane \o Repeated(x, ps)
      /\ r.views = s.views \o Repeated(Null, ps)
      /\ r.checked = s.checked /\ r.pane_curr_tab = s.pane_curr_tab
      /\ r.session2_open = s.session2_open /\ r.loaded = s.loaded /\ r.dual = s.dual
      /\ r.curr_tab = s.curr_tab /\ r.uninit = s.uninit \cup Range(made)
      /\ r.events = s.events
  BY <1>1, <1>2 DEF NewTabs, Inserted, Names
<1>4. made \in Seq(Nat) /\ Range(made) = n + 1 .. n + k /\ IsInjective(made)
  BY <1>1, <1>2, MadeIs
<1>5. Grown(Panes, r.pane, s.pane, x, ps)
  BY <1>1, <1>2, <1>3, Joined
<1>6. Grown(Somewhere, r.views, s.views, Null, ps)
  <2>1. Null \in Somewhere
    BY DEF Somewhere
  <2>2. Grown(Somewhere, s.views \o Repeated(Null, ps), s.views, Null, ps)
    BY <1>1, <1>2, <2>1, Joined
  <2> QED BY <1>3, <2>2
<1>7. r.path \in Seq(Folders) /\ Len(r.path) = n + k /\ \A t \in 1 .. n : r.path[t] = s.path[t]
  <2>1. /\ s.path \o ps \in Seq(Folders) /\ Len(s.path \o ps) = Len(s.path) + Len(ps)
        /\ \A i \in 1 .. Len(s.path) + Len(ps) :
              (s.path \o ps)[i] = IF i <= Len(s.path) THEN s.path[i] ELSE ps[i - Len(s.path)]
    BY <1>2, ConcatProperties
  <2>2. \A t \in 1 .. n : t \in 1 .. n + k /\ t <= n
    BY <1>2
  <2> QED BY <1>1, <1>3, <2>1, <2>2
<1>8. r.tabs[x] = s.tabs[x] \o made /\ \A y \in Panes \ {x} : r.tabs[y] = s.tabs[y]
  BY <1>2, <1>3
<1>9. r.tabs[x] \in Seq(Nat) /\ r.tabs \in [Panes -> Seq(Nat)]
  BY <1>2, <1>3, <1>4, <1>8
<1>10. Range(r.tabs[x]) = Range(s.tabs[x]) \cup (n + 1 .. n + k)
  BY <1>2, <1>4, <1>8, RangeJoined
<1>11. IsInjective(r.tabs[x])
  <2>1. IsInjective(s.tabs[x]) /\ Range(s.tabs[x]) \subseteq 1 .. n
    BY <1>1 DEF Placed, Known, Shown
  <2>2. Range(s.tabs[x]) \cap Range(made) = {}
    BY <1>2, <1>4, <2>1
  <2> QED BY <1>2, <1>4, <1>8, <2>1, <2>2, InjectiveJoined
<1>12. Typed(r)
  BY <1>1, <1>2, <1>3, <1>5, <1>6, <1>7, <1>9 DEF Typed, Grown
<1>13. More(s, r, x, n, k)
  BY <1>1, <1>2, <1>3, <1>4, <1>5, <1>6, <1>7, <1>8, <1>10 DEF More, Grown, Shown
<1> QED BY <1>1, <1>3, <1>8, <1>11, <1>12, <1>13

LEMMA NewTabsKeeps ==
    ASSUME NEW s, Typed(s), Placed(s), Viewed(s), Followed(s),
           NEW x \in Panes, NEW ps \in Seq(Folders), NEW r, r = NewTabs(s, x, ps)
    PROVE  Placed(r) /\ Viewed(r) /\ Followed(r)
<1>1. PICK n, k : n = Len(s.path) /\ k = Len(ps)
  OBVIOUS
<1>2. Typed(r) /\ More(s, r, x, n, k) /\ IsInjective(r.tabs[x])
  BY <1>1, NewTabsMore
<1>3. /\ n \in Nat /\ k \in Nat /\ Known(s) = 1 .. n /\ Known(r) = 1 .. n + k
      /\ \A t \in Known(s) : t \in Known(r)
      /\ \A t \in Known(r) : t \in Known(s) \/ t \in n + 1 .. n + k
      /\ \A t \in Known(s) : t \notin n + 1 .. n + k
  BY <1>2 DEF More, Known
<1>4. Placed(r)
  <2>1. /\ r.uninit \subseteq Known(r)
        /\ r.curr_tab = Null \/ r.curr_tab \in Known(r) \ r.uninit
        /\ \A i \in 1 .. Len(r.events) : r.events[i].tab \in Known(r) \ r.uninit
    BY <1>2, <1>3 DEF More, Placed
  <2>2. ASSUME NEW y \in Panes
        PROVE  /\ \A t \in Shown(r, y) : t \in Known(r) /\ r.pane[t] = y
               /\ IsInjective(r.tabs[y])
               /\ r.pane_curr_tab[y] = Null
                  \/ (r.pane_curr_tab[y] \in Known(r) /\ r.pane[r.pane_curr_tab[y]] = y)
    <3>1. \A t \in Shown(r, y) : t \in Shown(s, y) \/ (y = x /\ t \in n + 1 .. n + k)
      BY <1>2 DEF More, Shown
    <3>2. \A t \in Shown(r, y) : t \in Known(r) /\ r.pane[t] = y
      BY <1>2, <1>3, <3>1 DEF More, Placed
    <3>3. IsInjective(r.tabs[y])
      BY <1>2 DEF More, Placed
    <3>4. r.pane_curr_tab[y] = Null
          \/ (r.pane_curr_tab[y] \in Known(r) /\ r.pane[r.pane_curr_tab[y]] = y)
      BY <1>2, <1>3 DEF More, Placed
    <3> QED BY <3>2, <3>3, <3>4
  <2> QED BY <2>1, <2>2 DEF Placed
<1>5. Viewed(r)
  <2> SUFFICES ASSUME NEW t \in Known(r) PROVE Alive(r, t) <=> t \in Shown(r, r.pane[t]) \ r.uninit
    BY DEF Viewed
  <2>1. CASE t \in Known(s)
    <3>1. r.pane[t] = s.pane[t] /\ (Alive(r, t) <=> Alive(s, t)) /\ s.pane[t] \in Panes
      <4>1. r.pane[t] = s.pane[t] /\ r.views[t] = s.views[t]
        BY <1>2, <1>3, <2>1 DEF More
      <4>2. s.pane \in Seq(Panes) /\ Len(s.pane) = n
        BY <1>1 DEF Typed
      <4> QED BY <1>3, <2>1, <4>1, <4>2 DEF Alive
    <3>2. t \in Shown(r, r.pane[t]) <=> t \in Shown(s, s.pane[t])
      BY <1>2, <1>3, <2>1, <3>1 DEF More, Shown
    <3>3. t \in r.uninit <=> t \in s.uninit
      BY <1>2, <1>3, <2>1 DEF More
    <3> QED BY <2>1, <3>1, <3>2, <3>3 DEF Viewed
  <2>2. CASE t \in n + 1 .. n + k
    BY <1>2, <2>2 DEF More, Alive
  <2> QED BY <1>3, <2>1, <2>2
<1>6. Followed(r)
  <2> SUFFICES ASSUME NEW t \in Known(r), Alive(r, t), NEW i \in 0 .. Len(r.events), Stop(r, t, i)
               PROVE  /\ Quiet(r, t, i, Len(r.events) + 1) => PathAt(r, t, i) = r.views[t]
                      /\ \A j \in i + 1 .. Len(r.events) :
                            (r.events[j].tab = t /\ r.events[j].kind = "active" /\ Quiet(r, t, i, j))
                                => r.events[j].path = PathAt(r, t, i)
    BY DEF Followed
  <2>1. t \in Known(s) /\ Alive(s, t) /\ r.views[t] = s.views[t] /\ r.path[t] = s.path[t] /\ r.events = s.events
    BY <1>2, <1>3 DEF More, Alive
  <2>2. Stop(s, t, i) /\ PathAt(r, t, i) = PathAt(s, t, i)
        /\ \A j : Quiet(r, t, i, j) <=> Quiet(s, t, i, j)
    BY <2>1 DEF Stop, PathAt, Quiet
  <2> QED BY <2>1, <2>2 DEF Followed
<1> QED BY <1>4, <1>5, <1>6

\* The panes that had a tab down have it still.
LEMMA NewTabsPane ==
    ASSUME NEW s, Typed(s), Placed(s), NEW x \in Panes, NEW ps \in Seq(Folders),
           NEW r, r = NewTabs(s, x, ps),
           NEW y \in Panes, PaneOK(s, y), y # x \/ s.tabs[x] # <<>>
    PROVE  PaneOK(r, y)
<1>1. PICK n, k : n = Len(s.path) /\ k = Len(ps)
  OBVIOUS
<1>2. More(s, r, x, n, k)
  BY <1>1, NewTabsMore
<1>3. n \in Nat /\ k \in Nat /\ Known(s) = 1 .. n
  BY <1>2 DEF More, Known
<1>4. s.tabs[y] # <<>> => Shown(s, y) \subseteq Shown(r, y)
  BY <1>2 DEF More, Shown
<1>5. \A i \in 1 .. Len(s.events) : Turns(r, y, i) <=> Turns(s, y, i)
  <2> SUFFICES ASSUME NEW i \in 1 .. Len(s.events) PROVE Turns(r, y, i) <=> Turns(s, y, i)
    OBVIOUS
  <2>1. s.events[i].tab \in 1 .. n
    BY <1>3 DEF Placed
  <2>2. r.pane[s.events[i].tab] = s.pane[s.events[i].tab]
        /\ r.views[s.events[i].tab] = s.views[s.events[i].tab] /\ r.events = s.events
    BY <1>2, <2>1 DEF More
  <2> QED BY <2>2 DEF Turns, Alive
<1>6. r.tabs[y] # <<>> => s.tabs[y] # <<>>
  BY <1>2 DEF More
<1>7. /\ r.events = s.events /\ r.dual = s.dual /\ r.checked = s.checked
      /\ r.pane_curr_tab = s.pane_curr_tab
  BY <1>2 DEF More
<1>8. s.checked[y] \in Shown(s, y) /\ Alive(s, s.checked[y]) => Alive(r, s.checked[y])
  BY <1>2, <1>3 DEF More, Placed, Alive
<1> SUFFICES ASSUME r.dual # Null, r.tabs[y] # <<>>
    PROVE /\ r.checked[y] \in Shown(r, y) /\ Alive(r, r.checked[y])
          /\ \A i \in 1 .. Len(r.events) :
              (Turns(r, y, i) /\ \A j \in i + 1 .. Len(r.events) : ~Turns(r, y, j))
                  => r.events[i].tab = r.checked[y]
          /\ (\A i \in 1 .. Len(r.events) : ~Turns(r, y, i)) => r.pane_curr_tab[y] = r.checked[y]
  BY DEF PaneOK
<1>9. /\ s.checked[y] \in Shown(s, y) /\ Alive(s, s.checked[y])
      /\ \A i \in 1 .. Len(s.events) :
          (Turns(s, y, i) /\ \A j \in i + 1 .. Len(s.events) : ~Turns(s, y, j))
              => s.events[i].tab = s.checked[y]
      /\ (\A i \in 1 .. Len(s.events) : ~Turns(s, y, i)) => s.pane_curr_tab[y] = s.checked[y]
  BY <1>6, <1>7 DEF PaneOK
<1>10. \A i \in 1 .. Len(s.events) : \A j \in i + 1 .. Len(s.events) : j \in 1 .. Len(s.events)
  BY DEF Typed
<1> QED BY <1>4, <1>5, <1>6, <1>7, <1>8, <1>9, <1>10

LEMMA NewTabsCurrent ==
    ASSUME NEW s, Typed(s), Placed(s), NEW x \in Panes, NEW ps \in Seq(Folders),
           NEW r, r = NewTabs(s, x, ps), CurrentOK(s)
    PROVE  CurrentOK(r)
<1>1. PICK n, k : n = Len(s.path) /\ k = Len(ps)
  OBVIOUS
<1>2. More(s, r, x, n, k)
  BY <1>1, NewTabsMore
<1>3. n \in Nat /\ k \in Nat /\ Known(s) = 1 .. n
  BY <1>2 DEF More, Known
<1>4. CASE s.curr_tab = Null
  BY <1>2, <1>4 DEF More, CurrentOK
<1>5. CASE s.curr_tab # Null
  <2>1. s.curr_tab \in 1 .. n /\ s.curr_tab \notin n + 1 .. n + k
    BY <1>3, <1>5 DEF Placed
  <2>0. s.pane[s.curr_tab] \in Panes
    BY <1>1, <2>1 DEF Typed
  <2>2. r.curr_tab = s.curr_tab /\ r.pane[s.curr_tab] = s.pane[s.curr_tab] /\ s.pane[s.curr_tab] \in Panes
    BY <1>2, <2>1, <2>0 DEF More
  <2>3. s.curr_tab \in Shown(r, s.pane[s.curr_tab]) => s.curr_tab \in Shown(s, s.pane[s.curr_tab])
    BY <1>2, <2>1, <2>2 DEF More, Shown
  <2>4. r.events = s.events /\ r.dual = s.dual /\ r.pane_curr_tab = s.pane_curr_tab
    BY <1>2 DEF More
  <2> QED BY <2>2, <2>3, <2>4 DEF CurrentOK
<1> QED BY <1>4, <1>5

-----------------------------------------------------------------------------
\* An event is reported.
LEMMA Appended ==
    ASSUME NEW S, NEW q \in Seq(S), NEW e \in S
    PROVE  /\ Append(q, e) \in Seq(S) /\ Len(q) \in Nat /\ Len(Append(q, e)) = Len(q) + 1
           /\ \A i \in 1 .. Len(q) : Append(q, e)[i] = q[i]
           /\ Append(q, e)[Len(q) + 1] = e
OBVIOUS

LEMMA FollowedOn ==
    ASSUME NEW s, Typed(s), Followed(s), NEW r, NEW e \in Reports, e.tab \in Known(s),
           r.events = Append(s.events, e), r.path = s.path,
           \A u \in Known(s) : u # e.tab => r.views[u] = s.views[u],
           r.views[e.tab] = e.path,
           \/ Alive(s, e.tab) /\ (e.kind = "active" => e.path = s.views[e.tab])
           \/ e.path = s.path[e.tab] /\ \A i \in 1 .. Len(s.events) : s.events[i].tab # e.tab
    PROVE  Followed(r)
<1>1. PICK m : m = Len(s.events)
  OBVIOUS
<1>2. /\ m \in Nat /\ Len(r.events) = m + 1 /\ r.events[m + 1] = e
      /\ \A i \in 1 .. m : r.events[i] = s.events[i]
  BY <1>1, Appended DEF Typed
<1> SUFFICES ASSUME NEW t \in Known(s), Alive(r, t), NEW i \in 0 .. m + 1, Stop(r, t, i)
             PROVE  /\ Quiet(r, t, i, m + 2) => PathAt(r, t, i) = r.views[t]
                    /\ \A j \in i + 1 .. m + 1 :
                          (r.events[j].tab = t /\ r.events[j].kind = "active" /\ Quiet(r, t, i, j))
                              => r.events[j].path = PathAt(r, t, i)
  <2>1. Known(r) = Known(s) /\ (m + 1) + 1 = m + 2
    BY <1>2 DEF Known
  <2> QED BY <1>2, <2>1 DEF Followed
<1>3. i <= m => (Stop(s, t, i) /\ PathAt(r, t, i) = PathAt(s, t, i))
  BY <1>2 DEF Stop, PathAt
<1>4. \A j \in 0 .. m + 1 : Quiet(r, t, i, j) <=> Quiet(s, t, i, j)
  <2> SUFFICES ASSUME NEW j \in 0 .. m + 1
               PROVE  Quiet(r, t, i, j) <=> Quiet(s, t, i, j)
    OBVIOUS
  <2>1. \A k \in i + 1 .. j - 1 : k \in 1 .. m
    BY <1>2
  <2> QED BY <1>2, <2>1 DEF Quiet
<1>5. CASE t # e.tab
  <2>1. i <= m
    BY <1>2, <1>5 DEF Stop
  <2>2. r.views[t] = s.views[t] /\ Alive(s, t)
    BY <1>5 DEF Alive
  <2>3. Quiet(r, t, i, m + 2) => PathAt(r, t, i) = r.views[t]
    <3>1. Quiet(r, t, i, m + 2) => Quiet(r, t, i, m + 1)
      BY <1>2 DEF Quiet
    <3>2. i \in 0 .. m /\ m + 1 \in 0 .. m + 1
      BY <1>2, <2>1
    <3>3. Quiet(s, t, i, m + 1) => PathAt(s, t, i) = s.views[t]
      BY <1>1, <1>3, <2>1, <2>2, <3>2 DEF Followed
    <3> QED BY <1>3, <1>4, <2>1, <2>2, <3>1, <3>2, <3>3
  <2>4. ASSUME NEW j \in i + 1 .. m + 1, r.events[j].tab = t, r.events[j].kind = "active", Quiet(r, t, i, j)
        PROVE  r.events[j].path = PathAt(r, t, i)
    <3>1. j \in i + 1 .. m /\ i \in 0 .. m /\ j \in 1 .. m /\ j \in 0 .. m + 1
      BY <1>2, <1>5, <2>1, <2>4
    <3>2. r.events[j] = s.events[j] /\ Quiet(s, t, i, j)
      BY <1>2, <1>4, <2>4, <3>1
    <3> QED BY <1>1, <1>3, <2>1, <2>2, <2>4, <3>1, <3>2 DEF Followed
  <2> QED BY <2>3, <2>4
<1>6. CASE t = e.tab
  <2>1. CASE i = m + 1
    <3>1. PathAt(r, t, i) = e.path
      BY <1>2, <2>1 DEF PathAt
    <3>2. i + 1 .. m + 1 = {}
      BY <1>2, <2>1
    <3> QED BY <1>6, <3>1, <3>2
  <2>2. CASE i <= m
    <3>0. i \in 0 .. m /\ m + 1 \in 0 .. m + 1
      BY <1>2, <2>2
    <3>1. ~Quiet(r, t, i, m + 2)
      <4>1. m + 1 \in i + 1 .. (m + 2) - 1
        BY <1>2, <2>2
      <4> QED BY <1>2, <1>6, <4>1 DEF Quiet
    <3>2. ASSUME NEW j \in i + 1 .. m, r.events[j].tab = t, r.events[j].kind = "active", Quiet(r, t, i, j)
          PROVE  r.events[j].path = PathAt(r, t, i)
      <4>1. j \in 1 .. m /\ j \in 0 .. m + 1
        BY <1>2
      <4>2. r.events[j] = s.events[j] /\ Quiet(s, t, i, j)
        BY <1>2, <1>4, <3>2, <4>1
      <4>3. Alive(s, t)
        BY <1>1, <1>6, <3>2, <4>1, <4>2
      <4> QED BY <1>1, <1>3, <2>2, <3>0, <3>2, <4>2, <4>3 DEF Followed
    <3>3. ASSUME e.kind = "active", Quiet(r, t, i, m + 1)
          PROVE  e.path = PathAt(r, t, i)
      <4>1. Quiet(s, t, i, m + 1)
        BY <1>4, <3>0, <3>3
      <4>2. CASE Alive(s, t) /\ e.path = s.views[t]
        BY <1>1, <1>3, <2>2, <3>0, <4>1, <4>2 DEF Followed
      <4>3. CASE e.path = s.path[t] /\ \A k \in 1 .. m : s.events[k].tab # t
        <5>1. i = 0
          BY <1>2, <1>3, <2>2, <4>3 DEF Stop
        <5> QED BY <1>3, <2>2, <4>3, <5>1 DEF PathAt
      <4> QED BY <1>1, <1>6, <3>3, <4>2, <4>3
    <3>4. \A j \in i + 1 .. m + 1 : j \in i + 1 .. m \/ j = m + 1
      BY <1>2
    <3> QED BY <1>2, <3>1, <3>2, <3>3, <3>4
  <2> QED BY <1>2, <2>1, <2>2
<1> QED BY <1>5, <1>6

\* The pane of the tab that was clicked, and the other one.
LEMMA PaneTurned ==
    ASSUME NEW s, Typed(s), NEW r, NEW e \in Reports, r.events = Append(s.events, e),
           NEW x \in Panes, e.kind = "active", r.pane[e.tab] = x, Alive(r, e.tab),
           r.checked[x] = e.tab, e.tab \in Shown(r, x)
    PROVE  PaneOK(r, x)
<1>1. PICK m : m = Len(s.events)
  OBVIOUS
<1>2. m \in Nat /\ Len(r.events) = m + 1 /\ r.events[m + 1] = e
  BY <1>1, Appended DEF Typed
<1>3. Turns(r, x, m + 1)
  BY <1>2 DEF Turns
<1>4. \A i \in 1 .. m + 1 : i # m + 1 => m + 1 \in i + 1 .. m + 1
  BY <1>2
<1>5. m + 1 \in 1 .. m + 1
  BY <1>2
<1> QED BY <1>2, <1>3, <1>4, <1>5 DEF PaneOK

Untouched(s, r, e, y) ==
    /\ r.events = Append(s.events, e) /\ r.dual = s.dual
    /\ r.tabs[y] = s.tabs[y] /\ r.checked[y] = s.checked[y]
    /\ r.pane_curr_tab[y] = s.pane_curr_tab[y]
    /\ e.kind = "active" => r.pane[e.tab] # y
    /\ Alive(s, s.checked[y]) => Alive(r, s.checked[y])
    /\ \A i \in 1 .. Len(s.events) :
          /\ r.pane[s.events[i].tab] = s.pane[s.events[i].tab]
          /\ s.pane[s.events[i].tab] = y => (Alive(r, s.events[i].tab) <=> Alive(s, s.events[i].tab))

LEMMA PaneLeft ==
    ASSUME NEW s, Typed(s), NEW r, NEW e \in Reports, NEW y \in Panes, PaneOK(s, y),
           Untouched(s, r, e, y)
    PROVE  PaneOK(r, y)
<1>0. /\ r.events = Append(s.events, e) /\ r.dual = s.dual
      /\ r.tabs[y] = s.tabs[y] /\ r.checked[y] = s.checked[y]
      /\ r.pane_curr_tab[y] = s.pane_curr_tab[y]
      /\ e.kind = "active" => r.pane[e.tab] # y
      /\ Alive(s, s.checked[y]) => Alive(r, s.checked[y])
      /\ \A i \in 1 .. Len(s.events) :
            /\ r.pane[s.events[i].tab] = s.pane[s.events[i].tab]
            /\ s.pane[s.events[i].tab] = y => (Alive(r, s.events[i].tab) <=> Alive(s, s.events[i].tab))
  BY DEF Untouched
<1>1. PICK m : m = Len(s.events)
  OBVIOUS
<1>2. /\ m \in Nat /\ Len(r.events) = m + 1 /\ r.events[m + 1] = e
      /\ \A i \in 1 .. m : r.events[i] = s.events[i]
  <2>1. s.events \in Seq(Reports) /\ r.events = Append(s.events, e)
    BY <1>0 DEF Typed
  <2> QED BY <1>1, <2>1, Appended
<1>3. ~Turns(r, y, m + 1)
  BY <1>0, <1>2 DEF Turns
<1>4. \A i \in 1 .. m : Turns(r, y, i) <=> Turns(s, y, i)
  BY <1>0, <1>1, <1>2 DEF Turns
<1>5. \A i \in 1 .. m + 1 : i \in 1 .. m \/ i = m + 1
  BY <1>2
<1>6. \A i \in 1 .. m : i \in 1 .. m + 1 /\ (\A j \in i + 1 .. m + 1 : j \in i + 1 .. m \/ j = m + 1)
                        /\ (\A j \in i + 1 .. m : j \in i + 1 .. m + 1 /\ j \in 1 .. m)
  BY <1>2
<1> SUFFICES ASSUME r.dual # Null, r.tabs[y] # <<>>
    PROVE /\ r.checked[y] \in Shown(r, y) /\ Alive(r, r.checked[y])
          /\ \A i \in 1 .. m + 1 :
              (Turns(r, y, i) /\ \A j \in i + 1 .. m + 1 : ~Turns(r, y, j))
                  => r.events[i].tab = r.checked[y]
          /\ (\A i \in 1 .. m + 1 : ~Turns(r, y, i)) => r.pane_curr_tab[y] = r.checked[y]
  BY <1>2 DEF PaneOK
<1>7. /\ s.checked[y] \in Shown(s, y) /\ Alive(s, s.checked[y])
      /\ \A i \in 1 .. m :
          (Turns(s, y, i) /\ \A j \in i + 1 .. m : ~Turns(s, y, j))
              => s.events[i].tab = s.checked[y]
      /\ (\A i \in 1 .. m : ~Turns(s, y, i)) => s.pane_curr_tab[y] = s.checked[y]
  BY <1>0, <1>1 DEF PaneOK
<1>8. r.checked[y] \in Shown(r, y) /\ Alive(r, r.checked[y])
  BY <1>0, <1>7 DEF Shown
<1>9. ASSUME NEW i \in 1 .. m + 1, Turns(r, y, i), \A j \in i + 1 .. m + 1 : ~Turns(r, y, j)
      PROVE  r.events[i].tab = r.checked[y]
  <2>1. i \in 1 .. m
    BY <1>3, <1>5, <1>9
  <2>2. \A j \in i + 1 .. m : ~Turns(s, y, j)
    BY <1>4, <1>6, <1>9, <2>1
  <2> QED BY <1>0, <1>2, <1>4, <1>7, <1>9, <2>1, <2>2
<1>10. (\A i \in 1 .. m + 1 : ~Turns(r, y, i)) => r.pane_curr_tab[y] = r.checked[y]
  BY <1>0, <1>4, <1>6, <1>7
<1> QED BY <1>8, <1>9, <1>10

LEMMA OtherPane ==
    ASSUME NEW x \in Panes
    PROVE  Other(x) \in Panes /\ Other(x) # x /\ \A y \in Panes : y = x \/ y = Other(x)
BY DEF Panes, Other

LEMMA ClickedGood ==
    ASSUME NEW s, Typed(s), Placed(s), Viewed(s), Followed(s), SessionsOK(s),
           NEW x \in Panes, NEW t \in Shown(s, x), PaneOK(s, Other(x)),
           NEW r, Clicked(s, r, x, t)
    PROVE  Good(r)
<1>1. PICK n, m, v, e : /\ n = Len(s.path) /\ m = Len(s.events) /\ v = r.views[t]
                        /\ e = [kind |-> "active", tab |-> t, path |-> v]
  OBVIOUS
<1>2. /\ DOMAIN s = Names /\ s.tabs \in [Panes -> Seq(Nat)]
      /\ s.path \in Seq(Folders) /\ s.pane \in Seq(Panes) /\ s.views \in Seq(Somewhere)
      /\ n \in Nat /\ Len(s.pane) = n /\ Len(s.views) = n /\ Len(s.path) = n
      /\ s.checked \in [Panes -> Ref] /\ s.pane_curr_tab \in [Panes -> Ref]
      /\ s.events \in Seq(Reports) /\ Known(s) = 1 .. n
  BY <1>1 DEF Typed, Known
<1>3. /\ DOMAIN r = Names
      /\ r.tabs = s.tabs /\ r.pane = s.pane /\ r.path = s.path /\ r.pane_curr_tab = s.pane_curr_tab
      /\ r.session2_open = s.session2_open /\ r.loaded = s.loaded /\ r.dual = s.dual
      /\ r.checked = [s.checked EXCEPT ![x] = t] /\ r.curr_tab = t
      /\ r.uninit = s.uninit \ {t}
      /\ r.views = [s.views EXCEPT ![t] = IF t \in s.uninit THEN s.path[t] ELSE @]
      /\ r.events = Append(s.events, e)
  BY <1>1 DEF Clicked
<1>4. t \in 1 .. n /\ s.pane[t] = x /\ t \in Nat
  BY <1>2 DEF Placed
<1>5. (t \in s.uninit => v = s.path[t]) /\ (t \notin s.uninit => v = s.views[t])
  BY <1>1, <1>2, <1>3, <1>4
<1>6. t \in s.uninit <=> ~Alive(s, t)
  BY <1>2, <1>4 DEF Viewed
<1>7. v \in Folders /\ s.path[t] \in Folders
  <2>1. s.path[t] \in Folders /\ s.views[t] \in Somewhere
    BY <1>2, <1>4
  <2> QED BY <1>5, <1>6, <2>1 DEF Alive, Somewhere
<1>8. e \in Reports /\ e.tab = t /\ e.path = v /\ e.kind = "active"
  BY <1>1, <1>4, <1>7 DEF Reports
<1>9. /\ r.views \in Seq(Somewhere) /\ Len(r.views) = n /\ r.views[t] = v
      /\ \A u \in 1 .. n : u # t => r.views[u] = s.views[u]
  <2>1. v \in Somewhere /\ r.views = [s.views EXCEPT ![t] = v]
    BY <1>2, <1>3, <1>4, <1>5, <1>7 DEF Somewhere
  <2> QED BY <1>2, <1>4, <2>1, ExceptSeq
<1>10. /\ r.events \in Seq(Reports) /\ m \in Nat /\ Len(r.events) = m + 1 /\ r.events[m + 1] = e
       /\ \A i \in 1 .. m : r.events[i] = s.events[i]
  <2>1. s.events \in Seq(Reports) /\ e \in Reports /\ r.events = Append(s.events, e)
    BY <1>2, <1>3, <1>8
  <2> QED BY <1>1, <2>1, Appended
<1>11. Typed(r)
  <2>1. r.checked \in [Panes -> Ref]
    BY <1>2, <1>3, <1>4 DEF Ref
  <2> QED BY <1>2, <1>3, <1>9, <1>10, <2>1 DEF Typed
<1>12. Known(r) = 1 .. n /\ Alive(r, t) /\ \A u \in 1 .. n : u # t => (Alive(r, u) <=> Alive(s, u))
  BY <1>2, <1>3, <1>7, <1>9, ExplorerTabsAssumption DEF Known, Alive
<1>13. Placed(r)
  <2>1. r.uninit \subseteq Known(r) /\ r.curr_tab \in Known(r) \ r.uninit
    BY <1>2, <1>3, <1>4, <1>12 DEF Placed
  <2>2. \A i \in 1 .. Len(r.events) : r.events[i].tab \in Known(r) \ r.uninit
    <3>1. \A i \in 1 .. m + 1 : i \in 1 .. m \/ i = m + 1
      BY <1>10
    <3>2. \A i \in 1 .. m : s.events[i].tab \in Known(s) \ s.uninit
      BY <1>1 DEF Placed
    <3> QED BY <1>2, <1>3, <1>4, <1>8, <1>10, <1>12, <3>1, <3>2
  <2> QED BY <1>2, <1>3, <1>12, <2>1, <2>2 DEF Placed, Shown
<1>14. Viewed(r)
  <2> SUFFICES ASSUME NEW u \in 1 .. n
               PROVE  Alive(r, u) <=> u \in Shown(r, r.pane[u]) \ r.uninit
    BY <1>12 DEF Viewed
  <2>1. Alive(s, u) <=> u \in Shown(s, s.pane[u]) \ s.uninit
    BY <1>2 DEF Viewed
  <2> QED BY <1>3, <1>4, <1>12, <2>1 DEF Shown
<1>15. Followed(r)
  <2>1. t \in s.uninit => \A i \in 1 .. m : s.events[i].tab # t
    BY <1>1 DEF Placed
  <2>2. e \in Reports /\ e.tab \in Known(s) /\ r.events = Append(s.events, e) /\ r.path = s.path
    BY <1>2, <1>3, <1>4, <1>8
  <2>3. (\A u \in Known(s) : u # e.tab => r.views[u] = s.views[u]) /\ r.views[e.tab] = e.path
    BY <1>2, <1>8, <1>9
  <2>4. \/ Alive(s, e.tab) /\ (e.kind = "active" => e.path = s.views[e.tab])
        \/ e.path = s.path[e.tab] /\ \A i \in 1 .. Len(s.events) : s.events[i].tab # e.tab
    BY <1>1, <1>5, <1>6, <1>8, <2>1
  <2> QED BY <2>2, <2>3, <2>4, FollowedOn
<1>16. PaneOK(r, x)
  <2>1. r.checked[x] = t
    BY <1>2, <1>3
  <2>2. t \in Shown(r, x)
    BY <1>3 DEF Shown
  <2>3. /\ e \in Reports /\ r.events = Append(s.events, e) /\ e.kind = "active"
        /\ r.pane[e.tab] = x /\ Alive(r, e.tab) /\ r.checked[x] = e.tab /\ e.tab \in Shown(r, x)
    BY <1>3, <1>4, <1>8, <1>12, <2>1, <2>2
  <2> QED BY <2>3, PaneTurned
<1>17. PaneOK(r, Other(x))
  <2>1. PICK y : y = Other(x) /\ y \in Panes /\ y # x
    BY OtherPane
  <2>2. r.checked[y] = s.checked[y]
    BY <1>2, <1>3, <2>1
  <2>3. ASSUME NEW i \in 1 .. Len(s.events)
        PROVE  /\ r.pane[s.events[i].tab] = s.pane[s.events[i].tab]
               /\ s.pane[s.events[i].tab] = y
                    => (Alive(r, s.events[i].tab) <=> Alive(s, s.events[i].tab))
    <3>1. s.events[i].tab \in 1 .. n
      BY <1>2 DEF Placed
    <3> QED BY <1>3, <1>4, <1>12, <2>1, <3>1
  <2>4. Alive(s, s.checked[y]) => Alive(r, s.checked[y])
    <3>1. CASE s.checked[y] = t
      BY <1>12, <3>1
    <3>2. CASE s.checked[y] # t
      BY <1>2, <1>3, <1>5, <1>7, <3>2 DEF Alive
    <3> QED BY <3>1, <3>2
  <2>5. /\ e \in Reports /\ r.events = Append(s.events, e) /\ PaneOK(s, y)
        /\ r.dual = s.dual /\ r.tabs[y] = s.tabs[y]
        /\ r.pane_curr_tab[y] = s.pane_curr_tab[y] /\ (e.kind = "active" => r.pane[e.tab] # y)
    BY <1>3, <1>4, <1>8, <2>1
  <2>6. PaneOK(r, y)
    <3>1. Untouched(s, r, e, y)
      BY <2>2, <2>3, <2>4, <2>5 DEF Untouched
    <3> QED BY <2>1, <2>5, <3>1, PaneLeft
  <2> QED BY <2>1, <2>6
<1>18. CurrentOK(r)
  <2>1. m + 1 \in 1 .. Len(r.events)
    BY <1>10
  <2> QED BY <1>3, <1>8, <1>10, <2>1 DEF CurrentOK
<1>19. SessionsOK(r)
  BY <1>3 DEF SessionsOK
<1> QED BY <1>11, <1>13, <1>14, <1>15, <1>16, <1>17, <1>18, <1>19, OtherPane DEF Good


-----------------------------------------------------------------------------
\* The functions of the script keep Good.
LEMMA PressGood ==
    ASSUME NEW s, Typed(s), Placed(s), Viewed(s), Followed(s), SessionsOK(s),
           NEW x \in Panes, NEW t \in Shown(s, x), PaneOK(s, Other(x)),
           NEW r, r = Press(s, x, t)
    PROVE  Good(r) /\ Clicked(s, r, x, t)
<1>1. Clicked(s, r, x, t)
  BY PressIs
<1> QED BY <1>1, ClickedGood

\* Tabs are added behind those of pane x.
Added(s, r, x, ps) ==
    r.path = s.path \o ps /\ r.tabs = [s.tabs EXCEPT ![x] = @ \o Made(Len(s.path), ps)]

LEMMA NewTabViewGood ==
    ASSUME NEW s, Typed(s), Placed(s), Viewed(s), Followed(s), SessionsOK(s),
           NEW x \in Panes, NEW p \in Folders, PaneOK(s, Other(x)),
           NEW r, r = NewTabView(s, x, p)
    PROVE  /\ Good(r) /\ Added(s, r, x, <<p>>)
           /\ r.loaded = s.loaded /\ r.session2_open = s.session2_open /\ r.dual = s.dual
<1>0. PICK ps, n, y : ps = <<p>> /\ n = Len(s.path) + 1 /\ y = Other(x)
  OBVIOUS
<1>1. PICK q : q = NewTabs(s, x, ps) /\ ps = <<p>> /\ n = Len(s.path) + 1 /\ y = Other(x)
  BY <1>0
<1>2. y \in Panes /\ y # x /\ PaneOK(s, y)
  BY <1>1, OtherPane
<1> ps \in Seq(Folders) /\ q = NewTabs(s, x, ps)
  BY <1>1
<1>3. Typed(q) /\ More(s, q, x, Len(s.path), Len(ps)) /\ q.path = s.path \o ps
      /\ q.tabs[x] = s.tabs[x] \o Made(Len(s.path), ps)
  BY NewTabsMore
<1>4. Placed(q) /\ Viewed(q) /\ Followed(q)
  BY NewTabsKeeps
<1>5. PaneOK(q, y)
  BY <1>2, NewTabsPane
<1>6. SessionsOK(q)
  BY <1>3 DEF More, SessionsOK
<1>7. n \in Shown(q, x)
  BY <1>1, <1>3 DEF More
<1>8. Clicked(q, r, x, n)
  BY <1>1, NewTabViewIs
<1>9. Good(r)
  BY <1>1, <1>3, <1>4, <1>5, <1>6, <1>7, <1>8, ClickedGood
<1>10. q.tabs = [s.tabs EXCEPT ![x] = @ \o Made(Len(s.path), ps)]
  <2>1. DOMAIN s = Names /\ x \in DOMAIN s.tabs
    BY DEF Typed
  <2> QED BY <1>1, <2>1 DEF NewTabs, Inserted, Names
<1>11. r.path = q.path /\ r.tabs = q.tabs /\ r.loaded = q.loaded
       /\ r.session2_open = q.session2_open /\ r.dual = q.dual
  BY <1>8 DEF Clicked
<1>12. q.loaded = s.loaded /\ q.session2_open = s.session2_open /\ q.dual = s.dual
  BY <1>3 DEF More
<1>13. Added(s, r, x, ps)
  BY <1>3, <1>10, <1>11 DEF Added
<1> QED BY <1>1, <1>9, <1>11, <1>12, <1>13

LEMMA NewTabsGood ==
    ASSUME NEW s, Good(s), NEW x \in Panes, NEW ps \in Seq(Folders), s.tabs[x] # <<>>,
           NEW r, r = NewTabs(s, x, ps)
    PROVE  Good(r)
<1>1. Typed(s) /\ Placed(s) /\ Viewed(s) /\ Followed(s) /\ CurrentOK(s) /\ SessionsOK(s)
      /\ \A y \in Panes : PaneOK(s, y)
  BY DEF Good
<1>2. Typed(r) /\ More(s, r, x, Len(s.path), Len(ps))
  BY <1>1, NewTabsMore
<1>3. Placed(r) /\ Viewed(r) /\ Followed(r)
  BY <1>1, NewTabsKeeps
<1>4. \A y \in Panes : PaneOK(r, y)
  BY <1>1, NewTabsPane
<1>5. CurrentOK(r)
  BY <1>1, NewTabsCurrent
<1>6. SessionsOK(r)
  BY <1>1, <1>2 DEF More, SessionsOK
<1> QED BY <1>2, <1>3, <1>4, <1>5, <1>6 DEF Good

\* The tab t of pane x was closed, and no other was clicked yet.
Cut(s, c, x, t) ==
    /\ DOMAIN c = Names
    /\ c.tabs = [s.tabs EXCEPT ![x] = RemoveAt(@, Place(@, t))]
    /\ c.views = [s.views EXCEPT ![t] = Null]
    /\ c.pane = s.pane /\ c.path = s.path /\ c.uninit = s.uninit /\ c.curr_tab = s.curr_tab
    /\ c.checked = s.checked /\ c.pane_curr_tab = s.pane_curr_tab
    /\ c.session2_open = s.session2_open /\ c.loaded = s.loaded /\ c.dual = s.dual
    /\ c.events = s.events

LEMMA CutKeeps ==
    ASSUME NEW s, Good(s), NEW x \in Panes, NEW t \in Known(s), s.pane[t] = x,
           NEW c, Cut(s, c, x, t)
    PROVE  /\ Typed(c) /\ Placed(c) /\ Viewed(c) /\ Followed(c) /\ CurrentOK(c) /\ SessionsOK(c)
           /\ PaneOK(c, Other(x))
           /\ c.tabs[x] = RemoveAt(s.tabs[x], Place(s.tabs[x], t))
           /\ Shown(c, x) = Shown(s, x) \ {t}
<1>1. PICK n, q, d : n = Len(s.path) /\ q = s.tabs[x] /\ d = c.tabs[x]
  OBVIOUS
<1>2. /\ DOMAIN s = Names /\ s.tabs \in [Panes -> Seq(Nat)]
      /\ s.path \in Seq(Folders) /\ s.pane \in Seq(Panes) /\ s.views \in Seq(Somewhere)
      /\ n \in Nat /\ Len(s.pane) = n /\ Len(s.views) = n /\ Len(s.path) = n
      /\ s.checked \in [Panes -> Ref] /\ s.pane_curr_tab \in [Panes -> Ref]
      /\ s.events \in Seq(Reports) /\ Known(s) = 1 .. n
  BY <1>1 DEF Typed, Known, Good
<1>3. Placed(s) /\ Viewed(s) /\ Followed(s) /\ CurrentOK(s) /\ SessionsOK(s) /\ Typed(s)
      /\ \A y \in Panes : PaneOK(s, y)
  BY DEF Good
<1>4. /\ DOMAIN c = Names
      /\ c.tabs = [s.tabs EXCEPT ![x] = RemoveAt(@, Place(@, t))]
      /\ c.views = [s.views EXCEPT ![t] = Null]
      /\ c.pane = s.pane /\ c.path = s.path /\ c.uninit = s.uninit /\ c.curr_tab = s.curr_tab
      /\ c.checked = s.checked /\ c.pane_curr_tab = s.pane_curr_tab
      /\ c.session2_open = s.session2_open /\ c.loaded = s.loaded /\ c.dual = s.dual
      /\ c.events = s.events
  BY DEF Cut
<1>5. /\ d = RemoveAt(q, Place(q, t)) /\ \A y \in Panes \ {x} : c.tabs[y] = s.tabs[y]
      /\ q \in Seq(Nat) /\ IsInjective(q)
  BY <1>1, <1>2, <1>3, <1>4 DEF Placed
<1>6. d \in Seq(Nat) /\ IsInjective(d) /\ Range(d) = Range(q) \ {t}
  BY <1>5, Removed
<1>7. c.tabs \in [Panes -> Seq(Nat)]
  BY <1>1, <1>2, <1>4, <1>5, <1>6
<1>8. /\ Shown(c, x) = Shown(s, x) \ {t} /\ \A y \in Panes \ {x} : Shown(c, y) = Shown(s, y)
  BY <1>1, <1>5, <1>6 DEF Shown
<1>9. /\ c.views \in Seq(Somewhere) /\ Len(c.views) = n /\ c.views[t] = Null
      /\ \A u \in 1 .. n : u # t => c.views[u] = s.views[u]
  <2>1. Null \in Somewhere
    BY DEF Somewhere
  <2> QED BY <1>2, <1>4, <2>1, ExceptSeq
<1>10. Typed(c)
  BY <1>2, <1>4, <1>7, <1>9 DEF Typed
<1>11. Known(c) = 1 .. n /\ ~Alive(c, t) /\ \A u \in 1 .. n : u # t => (Alive(c, u) <=> Alive(s, u))
  BY <1>1, <1>4, <1>9 DEF Known, Alive
<1>12. Placed(c)
  <2>1. /\ c.uninit \subseteq Known(c)
        /\ c.curr_tab = Null \/ c.curr_tab \in Known(c) \ c.uninit
        /\ \A i \in 1 .. Len(c.events) : c.events[i].tab \in Known(c) \ c.uninit
    BY <1>2, <1>3, <1>4, <1>11 DEF Placed
  <2>2. ASSUME NEW y \in Panes
        PROVE  /\ \A u \in Shown(c, y) : u \in Known(c) /\ c.pane[u] = y
               /\ IsInjective(c.tabs[y])
               /\ c.pane_curr_tab[y] = Null
                  \/ (c.pane_curr_tab[y] \in Known(c) /\ c.pane[c.pane_curr_tab[y]] = y)
    <3>1. \A u \in Shown(c, y) : u \in Shown(s, y)
      BY <1>8
    <3>2. IsInjective(c.tabs[y])
      <4>1. IsInjective(s.tabs[y]) /\ (y = x => c.tabs[y] = d) /\ (y # x => c.tabs[y] = s.tabs[y])
        BY <1>1, <1>3, <1>5 DEF Placed
      <4> QED BY <1>6, <4>1
    <3>3. \A u \in Shown(c, y) : u \in Known(c) /\ c.pane[u] = y
      BY <1>2, <1>3, <1>4, <1>11, <3>1 DEF Placed
    <3>4. c.pane_curr_tab[y] = Null
          \/ (c.pane_curr_tab[y] \in Known(c) /\ c.pane[c.pane_curr_tab[y]] = y)
      BY <1>2, <1>3, <1>4, <1>11 DEF Placed
    <3> QED BY <3>2, <3>3, <3>4
  <2> QED BY <2>1, <2>2 DEF Placed
<1>13. Viewed(c)
  <2> SUFFICES ASSUME NEW u \in 1 .. n
               PROVE  Alive(c, u) <=> u \in Shown(c, c.pane[u]) \ c.uninit
    BY <1>11 DEF Viewed
  <2>0. u \in Known(s) /\ s.pane[u] \in Panes
    BY <1>2
  <2>1. (Alive(s, u) <=> u \in Shown(s, s.pane[u]) \ s.uninit) /\ s.pane[u] \in Panes
    BY <1>3, <2>0 DEF Viewed
  <2>2. CASE u = t
    BY <1>4, <1>8, <1>11, <2>2
  <2>3. CASE u # t
    BY <1>4, <1>8, <1>11, <2>1, <2>3
  <2> QED BY <2>2, <2>3
<1>14. Followed(c)
  <2> SUFFICES ASSUME NEW u \in Known(c), Alive(c, u), NEW i \in 0 .. Len(c.events), Stop(c, u, i)
               PROVE  /\ Quiet(c, u, i, Len(c.events) + 1) => PathAt(c, u, i) = c.views[u]
                      /\ \A j \in i + 1 .. Len(c.events) :
                            (c.events[j].tab = u /\ c.events[j].kind = "active" /\ Quiet(c, u, i, j))
                                => c.events[j].path = PathAt(c, u, i)
    BY DEF Followed
  <2>1. u \in Known(s) /\ u # t /\ Alive(s, u) /\ c.views[u] = s.views[u]
    BY <1>2, <1>9, <1>11
  <2>2. /\ Stop(s, u, i) /\ PathAt(c, u, i) = PathAt(s, u, i)
        /\ \A j : Quiet(c, u, i, j) <=> Quiet(s, u, i, j)
    BY <1>4 DEF Stop, PathAt, Quiet
  <2> QED BY <1>3, <1>4, <2>1, <2>2 DEF Followed
<1>15. PaneOK(c, Other(x))
  <2>1. PICK y : y = Other(x) /\ y \in Panes /\ y # x
    BY OtherPane
  <2>2. \A i \in 1 .. Len(s.events) : Turns(c, y, i) <=> Turns(s, y, i)
    <3>1. \A i \in 1 .. Len(s.events) : s.events[i].tab \in 1 .. n
      BY <1>2, <1>3 DEF Placed
    <3> QED BY <1>4, <1>11, <2>1, <3>1 DEF Turns
  <2>3. s.checked[y] \in Shown(s, y) =>
            s.checked[y] \in 1 .. n /\ s.checked[y] # t
    BY <1>2, <1>3, <2>1 DEF Placed
  <2>4. \A i \in 1 .. Len(s.events) : \A j \in i + 1 .. Len(s.events) : j \in 1 .. Len(s.events)
    BY <1>2
  <2>5. Shown(c, y) = Shown(s, y) /\ c.tabs[y] = s.tabs[y]
    BY <1>5, <1>8, <2>1
  <2>6. PaneOK(c, y)
    <3> SUFFICES ASSUME c.dual # Null, c.tabs[y] # <<>>
        PROVE /\ c.checked[y] \in Shown(c, y) /\ Alive(c, c.checked[y])
              /\ \A i \in 1 .. Len(c.events) :
                  (Turns(c, y, i) /\ \A j \in i + 1 .. Len(c.events) : ~Turns(c, y, j))
                      => c.events[i].tab = c.checked[y]
              /\ (\A i \in 1 .. Len(c.events) : ~Turns(c, y, i)) => c.pane_curr_tab[y] = c.checked[y]
      BY DEF PaneOK
    <3>1. /\ s.checked[y] \in Shown(s, y) /\ Alive(s, s.checked[y])
          /\ \A i \in 1 .. Len(s.events) :
              (Turns(s, y, i) /\ \A j \in i + 1 .. Len(s.events) : ~Turns(s, y, j))
                  => s.events[i].tab = s.checked[y]
          /\ (\A i \in 1 .. Len(s.events) : ~Turns(s, y, i)) => s.pane_curr_tab[y] = s.checked[y]
      BY <1>3, <1>4, <2>1, <2>5 DEF PaneOK
    <3> QED BY <1>4, <1>11, <2>2, <2>3, <2>4, <2>5, <3>1
  <2> QED BY <2>1, <2>6
<1>16. CurrentOK(c)
  <2>1. CASE c.curr_tab = Null
    BY <2>1 DEF CurrentOK
  <2>2. CASE c.curr_tab # Null
    <3>1. s.pane[s.curr_tab] \in Panes
      BY <1>2, <1>3, <1>4, <2>2 DEF Placed
    <3>2. s.curr_tab \in Shown(c, s.pane[s.curr_tab]) => s.curr_tab \in Shown(s, s.pane[s.curr_tab])
      BY <1>8, <3>1
    <3> QED BY <1>3, <1>4, <3>2 DEF CurrentOK
  <2> QED BY <2>1, <2>2
<1>17. SessionsOK(c)
  BY <1>3, <1>4 DEF SessionsOK
<1> QED BY <1>1, <1>5, <1>8, <1>10, <1>12, <1>13, <1>14, <1>15, <1>16, <1>17

LEMMA CloseTabGood ==
    ASSUME NEW s, Good(s), NEW x \in Panes, NEW t, t = Null \/ (t \in Known(s) /\ s.pane[t] = x),
           NEW r, r = CloseTab(s, x, t)
    PROVE  Good(r) /\ r.loaded = s.loaded
<1>1. CASE s.tabs[x] = <<>> \/ t = Null
  BY <1>1 DEF CloseTab
<1>2. CASE ~(s.tabs[x] = <<>> \/ t = Null)
  <2>1. PICK was : was = Place(s.tabs[x], t)
    OBVIOUS
  <2>2. PICK c : c = [s EXCEPT !.views[t] = Null, !.tabs[x] = RemoveAt(@, was)]
    OBVIOUS
  <2>3. PICK rest : rest = c.tabs[x]
    OBVIOUS
  <2>4. PICK u : u = rest[IF was > 2 THEN was - 1 ELSE 1]
    OBVIOUS
  <2>5. r = IF rest = <<>> THEN c ELSE Press(c, x, u)
    BY <1>2, <2>1, <2>2, <2>3, <2>4 DEF CloseTab
  <2>6. t \in Known(s) /\ s.pane[t] = x
    BY <1>2
  <2>7. DOMAIN s = Names /\ s.tabs[x] \in Seq(Nat) /\ IsInjective(s.tabs[x])
    BY DEF Good, Typed, Placed
  <2>8. Cut(s, c, x, t)
    BY <2>1, <2>2, <2>7 DEF Cut, Names
  <2>9. /\ Typed(c) /\ Placed(c) /\ Viewed(c) /\ Followed(c) /\ CurrentOK(c) /\ SessionsOK(c)
        /\ PaneOK(c, Other(x))
        /\ c.tabs[x] = RemoveAt(s.tabs[x], Place(s.tabs[x], t))
    BY <2>6, <2>8, CutKeeps
  <2>10. CASE rest = <<>>
    <3>1. PaneOK(c, x)
      BY <2>3, <2>10 DEF PaneOK
    <3> QED BY <2>5, <2>8, <2>9, <2>10, <3>1, OtherPane DEF Good, Cut
  <2>11. CASE rest # <<>>
    <3>1. u \in Range(rest)
      BY <2>1, <2>3, <2>4, <2>7, <2>9, <2>11, Removed
    <3>2. u \in Shown(c, x) /\ r = Press(c, x, u)
      BY <2>3, <2>5, <2>11, <3>1 DEF Shown
    <3>3. Good(r) /\ Clicked(c, r, x, u)
      BY <2>9, <3>2, PressGood
    <3> QED BY <2>8, <3>3 DEF Clicked, Cut
  <2> QED BY <2>10, <2>11
<1> QED BY <1>1, <1>2

\* r differs from s in nothing the invariant is about, but the panes loaded.
Alike(s, r) ==
    /\ DOMAIN r = Names
    /\ r.tabs = s.tabs /\ r.pane = s.pane /\ r.path = s.path /\ r.views = s.views
    /\ r.checked = s.checked /\ r.pane_curr_tab = s.pane_curr_tab
    /\ r.uninit = s.uninit /\ r.curr_tab = s.curr_tab /\ r.events = s.events
    /\ r.dual = Null <=> s.dual = Null

LEMMA AlikeKeeps ==
    ASSUME NEW s, NEW r, Alike(s, r)
    PROVE  /\ Typed(s) => Typed(r)
           /\ Placed(s) => Placed(r)
           /\ Viewed(s) => Viewed(r)
           /\ Followed(s) => Followed(r)
           /\ \A y \in Panes : PaneOK(s, y) => PaneOK(r, y)
           /\ CurrentOK(s) => CurrentOK(r)
<1>1. Typed(s) => Typed(r)
  BY DEF Typed, Alike
<1>2. Placed(s) => Placed(r)
  BY DEF Placed, Alike, Known, Shown
<1>3. /\ Known(r) = Known(s) /\ \A t : Alive(r, t) <=> Alive(s, t)
      /\ \A y : Shown(r, y) = Shown(s, y)
  BY DEF Alike, Known, Shown, Alive
<1>4. Viewed(s) => Viewed(r)
  BY <1>3 DEF Viewed, Alike
<1>5. /\ \A t, i : (Stop(r, t, i) <=> Stop(s, t, i)) /\ PathAt(r, t, i) = PathAt(s, t, i)
      /\ \A t, i, j : Quiet(r, t, i, j) <=> Quiet(s, t, i, j)
  BY DEF Alike, Stop, PathAt, Quiet
<1>6. ASSUME Followed(s)
      PROVE  Followed(r)
  <2> SUFFICES ASSUME NEW t \in Known(r), Alive(r, t), NEW i \in 0 .. Len(r.events), Stop(r, t, i)
               PROVE  /\ Quiet(r, t, i, Len(r.events) + 1) => PathAt(r, t, i) = r.views[t]
                      /\ \A j \in i + 1 .. Len(r.events) :
                            (r.events[j].tab = t /\ r.events[j].kind = "active" /\ Quiet(r, t, i, j))
                                => r.events[j].path = PathAt(r, t, i)
    BY DEF Followed
  <2>1. t \in Known(s) /\ Alive(s, t) /\ Stop(s, t, i) /\ r.events = s.events /\ r.views = s.views
    BY <1>3, <1>5 DEF Alike
  <2> QED BY <1>5, <1>6, <2>1 DEF Followed
<1>7. \A y, i : Turns(r, y, i) <=> Turns(s, y, i)
  BY <1>3 DEF Turns, Alike
<1>8. \A y \in Panes : PaneOK(s, y) => PaneOK(r, y)
  BY <1>3, <1>7 DEF PaneOK, Alike
<1>9. CurrentOK(s) => CurrentOK(r)
  BY <1>3 DEF CurrentOK, Alike
<1> QED BY <1>1, <1>2, <1>4, <1>6, <1>8, <1>9

-----------------------------------------------------------------------------
\* The folders of the tabs of a pane, left to right: PathsOf is that of ui.
PathsIn(s, x) == [i \in DOMAIN s.tabs[x] |-> s.path[s.tabs[x][i]]]

LEMMA PathsType ==
    ASSUME NEW s, Typed(s), Placed(s), NEW x \in Panes
    PROVE  /\ PathsIn(s, x) \in Seq(Folders) /\ Len(PathsIn(s, x)) = Len(s.tabs[x])
           /\ \A i \in 1 .. Len(s.tabs[x]) :
                 s.tabs[x][i] \in 1 .. Len(s.path) /\ PathsIn(s, x)[i] = s.path[s.tabs[x][i]]
<1>1. PICK q : q = s.tabs[x]
  OBVIOUS
<1>2. q \in Seq(Nat) /\ s.path \in Seq(Folders) /\ Shown(s, x) = Range(q)
  BY <1>1 DEF Typed, Shown
<1>3. \A i \in 1 .. Len(q) : q[i] \in Range(q)
  BY <1>2, InRange
<1>4. \A i \in 1 .. Len(q) : q[i] \in 1 .. Len(s.path)
  BY <1>2, <1>3 DEF Placed, Known
<1>5. \A i \in 1 .. Len(q) : s.path[q[i]] \in Folders
  BY <1>2, <1>4
<1>6. PathsIn(s, x) = [i \in 1 .. Len(q) |-> s.path[q[i]]]
  BY <1>1, <1>2, InRange DEF PathsIn
<1> QED BY <1>1, <1>2, <1>4, <1>5, <1>6

LEMMA Behind ==
    ASSUME NEW S, NEW a \in Seq(S), NEW b \in Seq(S)
    PROVE  /\ Len(a \o b) = Len(a) + Len(b)
           /\ \A i \in 1 .. Len(a) : (a \o b)[i] = a[i]
           /\ \A i \in 1 .. Len(b) : (a \o b)[Len(a) + i] = b[i]
<1>1. /\ a \o b \in Seq(S) /\ Len(a \o b) = Len(a) + Len(b)
      /\ \A i \in 1 .. Len(a) + Len(b) : (a \o b)[i] = IF i <= Len(a) THEN a[i] ELSE b[i - Len(a)]
  BY ConcatProperties
<1>2. Len(a) \in Nat /\ Len(b) \in Nat
  OBVIOUS
<1>3. \A i \in 1 .. Len(a) : i \in 1 .. Len(a) + Len(b) /\ i <= Len(a)
  BY <1>2
<1>4. \A i \in 1 .. Len(b) :
        Len(a) + i \in 1 .. Len(a) + Len(b) /\ ~(Len(a) + i <= Len(a)) /\ (Len(a) + i) - Len(a) = i
  BY <1>2
<1> QED BY <1>1, <1>2, <1>3, <1>4

\* An index of a sequence that was made of two.
LEMMA EitherPart ==
    ASSUME NEW m \in Nat, NEW k \in Nat, NEW i \in 1 .. m + k
    PROVE  i \in 1 .. m \/ \E j \in 1 .. k : i = m + j
<1>1. i \in 1 .. m \/ (i - m \in 1 .. k /\ i = m + (i - m))
  OBVIOUS
<1> QED BY <1>1

\* Tabs are added behind those of pane x.
LEMMA PathsAdded ==
    ASSUME NEW s, Typed(s), Placed(s), NEW x \in Panes, NEW ps \in Seq(Folders),
           NEW r, Typed(r), Placed(r), Added(s, r, x, ps)
    PROVE  /\ PathsIn(r, x) = PathsIn(s, x) \o ps
           /\ \A y \in Panes \ {x} : PathsIn(r, y) = PathsIn(s, y)
<1>1. PICK n, k, made, q, m : /\ n = Len(s.path) /\ k = Len(ps) /\ made = Made(n, ps)
                              /\ q = s.tabs[x] /\ m = Len(q)
  OBVIOUS
<1>2. /\ n \in Nat /\ k \in Nat /\ s.path \in Seq(Folders) /\ s.tabs \in [Panes -> Seq(Nat)]
      /\ q \in Seq(Nat) /\ m \in Nat
  BY <1>1 DEF Typed
<1>3. made \in Seq(Nat) /\ Len(made) = k
  BY <1>1, <1>2, MadeIs
<1>4. \A i \in 1 .. k : made[i] = n + i
  BY <1>1, <1>2 DEF Made
<1>0. r.path = s.path \o ps /\ r.tabs = [s.tabs EXCEPT ![x] = @ \o made]
  BY <1>1 DEF Added
<1>5. /\ \A i \in 1 .. n : r.path[i] = s.path[i]
      /\ \A i \in 1 .. k : r.path[n + i] = ps[i]
  <2>1. s.path \in Seq(Folders) /\ ps \in Seq(Folders)
    BY <1>2
  <2>2. r.path = s.path \o ps
    BY <1>0
  <2> QED BY <1>1, <2>1, <2>2, Behind
<1>6. r.tabs[x] = q \o made /\ \A y \in Panes \ {x} : r.tabs[y] = s.tabs[y]
  BY <1>0, <1>1, <1>2
<1>7. /\ Len(r.tabs[x]) = m + k
      /\ \A i \in 1 .. m : r.tabs[x][i] = q[i]
      /\ \A i \in 1 .. k : r.tabs[x][m + i] = n + i
  <2>1. /\ Len(q \o made) = m + k
        /\ \A i \in 1 .. m : (q \o made)[i] = q[i]
        /\ \A i \in 1 .. k : (q \o made)[m + i] = made[i]
    <3>1. q \in Seq(Nat) /\ made \in Seq(Nat)
      BY <1>2, <1>3
    <3>2. /\ Len(q \o made) = Len(q) + Len(made)
          /\ \A i \in 1 .. Len(q) : (q \o made)[i] = q[i]
          /\ \A i \in 1 .. Len(made) : (q \o made)[Len(q) + i] = made[i]
      BY <3>1, Behind
    <3> QED BY <1>1, <1>3, <3>2
  <2> QED BY <1>4, <1>6, <2>1
<1>8. PathsIn(r, x) = PathsIn(s, x) \o ps
  <2>1. PICK a, b : a = PathsIn(s, x) /\ b = PathsIn(r, x)
    OBVIOUS
  <2>2. /\ a \in Seq(Folders) /\ Len(a) = m
        /\ \A i \in 1 .. m : q[i] \in 1 .. n /\ a[i] = s.path[q[i]]
    BY <1>1, <2>1, PathsType
  <2>3. /\ b \in Seq(Folders) /\ Len(b) = m + k
        /\ \A i \in 1 .. m + k : b[i] = r.path[r.tabs[x][i]]
    <3>1. /\ b \in Seq(Folders) /\ Len(b) = Len(r.tabs[x])
          /\ \A i \in 1 .. Len(r.tabs[x]) : b[i] = r.path[r.tabs[x][i]]
      <4>1. b = PathsIn(r, x)
        BY <2>1
      <4> QED BY <4>1, PathsType
    <3> QED BY <1>7, <3>1
  <2>4. /\ Len(a \o ps) = m + k
        /\ \A i \in 1 .. m : (a \o ps)[i] = a[i]
        /\ \A i \in 1 .. k : (a \o ps)[m + i] = ps[i]
    <3>1. a \in Seq(Folders) /\ ps \in Seq(Folders)
      BY <2>2
    <3>2. /\ Len(a \o ps) = Len(a) + Len(ps)
          /\ \A i \in 1 .. Len(a) : (a \o ps)[i] = a[i]
          /\ \A i \in 1 .. Len(ps) : (a \o ps)[Len(a) + i] = ps[i]
      BY <3>1, Behind
    <3> QED BY <1>1, <2>2, <3>2
  <2>5. \A i \in 1 .. m : i \in 1 .. m + k
    BY <1>2
  <2>6. \A i \in 1 .. k : m + i \in 1 .. m + k
    BY <1>2
  <2>7. ASSUME NEW i \in 1 .. m
        PROVE  b[i] = (a \o ps)[i]
    <3>1. b[i] = r.path[q[i]]
      BY <1>7, <2>3, <2>5
    <3>2. q[i] \in 1 .. n /\ (a \o ps)[i] = s.path[q[i]]
      BY <2>2, <2>4
    <3> QED BY <1>5, <3>1, <3>2
  <2>8. ASSUME NEW i \in 1 .. k
        PROVE  b[m + i] = (a \o ps)[m + i]
    <3>1. b[m + i] = r.path[n + i]
      BY <1>7, <2>3, <2>6
    <3>2. (a \o ps)[m + i] = ps[i]
      BY <2>4
    <3> QED BY <1>5, <3>1, <3>2
  <2>9. ASSUME NEW i \in 1 .. m + k
        PROVE  b[i] = (a \o ps)[i]
    <3>1. i \in 1 .. m \/ \E j \in 1 .. k : i = m + j
      BY <1>2, EitherPart
    <3> QED BY <2>7, <2>8, <3>1
  <2>10. a \o ps \in Seq(Folders)
    BY <2>2
  <2>11. b = a \o ps
    BY <2>3, <2>4, <2>9, <2>10, SeqEqual
  <2> QED BY <2>1, <2>11
<1>9. ASSUME NEW y \in Panes \ {x}
      PROVE  PathsIn(r, y) = PathsIn(s, y)
  <2>1. PICK a, b, c : a = PathsIn(s, y) /\ b = PathsIn(r, y) /\ c = s.tabs[y]
    OBVIOUS
  <2>2. r.tabs[y] = c
    BY <1>6, <1>9, <2>1
  <2>3. /\ a \in Seq(Folders) /\ Len(a) = Len(c)
        /\ \A i \in 1 .. Len(c) : c[i] \in 1 .. n /\ a[i] = s.path[c[i]]
    BY <1>1, <1>9, <2>1, PathsType
  <2>4. /\ b \in Seq(Folders) /\ Len(b) = Len(c)
        /\ \A i \in 1 .. Len(c) : b[i] = r.path[c[i]]
    <3>1. y \in Panes /\ b = PathsIn(r, y)
      BY <2>1
    <3> QED BY <2>2, <3>1, PathsType
  <2>5. ASSUME NEW i \in 1 .. Len(a)
        PROVE  a[i] = b[i]
    <3>1. c[i] \in 1 .. n /\ a[i] = s.path[c[i]] /\ b[i] = r.path[c[i]]
      BY <2>3, <2>4
    <3> QED BY <1>5, <3>1
  <2>6. a = b
    BY <2>3, <2>4, <2>5, SeqEqual
  <2> QED BY <2>1, <2>6
<1> QED BY <1>8, <1>9

\* What load_session makes of the content of a file.
Restored(sess) == IF sess = Broken THEN <<>> ELSE IF sess = <<>> THEN <<Computer>> ELSE sess

LEMMA LoadSessionGood ==
    ASSUME NEW s, Typed(s), Placed(s), Viewed(s), Followed(s),
           NEW x \in Panes, PaneOK(s, Other(x)),
           s.session2_open => s.dual # Null,
           "xplorer2" \in s.loaded \cup {x} => s.session2_open,
           NEW sess \in Seq(Folders) \cup {Broken}, sess = Broken => PaneOK(s, x) /\ CurrentOK(s),
           NEW r, r = LoadSession(s, x, sess)
    PROVE  /\ Good(r) /\ r.loaded = s.loaded \cup {x}
           /\ PathsIn(r, x) = PathsIn(s, x) \o Restored(sess)
           /\ \A y \in Panes \ {x} : PathsIn(r, y) = PathsIn(s, y)
<1>1. PICK l : l = [s EXCEPT !.loaded = @ \cup {x}]
  OBVIOUS
<1>2. Alike(s, l) /\ l.loaded = s.loaded \cup {x} /\ l.session2_open = s.session2_open /\ l.dual = s.dual
  BY <1>1 DEF Alike, Names, Typed
<1>3. /\ Typed(l) /\ Placed(l) /\ Viewed(l) /\ Followed(l) /\ PaneOK(l, Other(x))
      /\ sess = Broken => PaneOK(l, x) /\ CurrentOK(l)
  BY <1>2, AlikeKeeps, OtherPane
<1>4. SessionsOK(l)
  BY <1>2 DEF SessionsOK
<1>5. \A y \in Panes : PathsIn(l, y) = PathsIn(s, y)
  BY <1>2 DEF PathsIn, Alike
<1>6. CASE sess = Broken
  <2>1. r = l
    BY <1>1, <1>6 DEF LoadSession
  <2>2. Good(r)
    BY <1>3, <1>4, <1>6, <2>1, OtherPane DEF Good
  <2>3. PathsIn(s, x) \o <<>> = PathsIn(s, x)
    <3>1. PathsIn(s, x) \in Seq(Folders)
      BY PathsType
    <3> QED BY <3>1
  <2> QED BY <1>2, <1>5, <1>6, <2>1, <2>2, <2>3 DEF Restored
<1>7. CASE sess = <<>> /\ sess # Broken
  <2>1. r = NewTabView(l, x, Computer) /\ Computer \in Folders
    BY <1>1, <1>7, ExplorerTabsAssumption DEF LoadSession
  <2>3. Typed(l) /\ Placed(l) /\ Viewed(l) /\ Followed(l) /\ SessionsOK(l) /\ PaneOK(l, Other(x))
    BY <1>3, <1>4
  <2>2. Good(r) /\ Added(l, r, x, <<Computer>>) /\ r.loaded = l.loaded
    BY <2>1, <2>3, NewTabViewGood
  <2>4. Typed(r) /\ Placed(r) /\ <<Computer>> \in Seq(Folders)
    BY <2>1, <2>2 DEF Good
  <2>5. /\ PathsIn(r, x) = PathsIn(l, x) \o <<Computer>>
        /\ \A y \in Panes \ {x} : PathsIn(r, y) = PathsIn(l, y)
    <3>1. PICK ps : ps = <<Computer>>
      OBVIOUS
    <3>2. Added(l, r, x, ps) /\ ps \in Seq(Folders)
      BY <2>2, <2>4, <3>1
    <3>3. /\ PathsIn(r, x) = PathsIn(l, x) \o ps
          /\ \A y \in Panes \ {x} : PathsIn(r, y) = PathsIn(l, y)
      BY <2>3, <2>4, <3>2, PathsAdded
    <3> QED BY <3>1, <3>3
  <2> QED BY <1>2, <1>5, <1>7, <2>2, <2>5 DEF Restored
<1>8. CASE sess # <<>> /\ sess # Broken
  <2>1. PICK p, ps : p = sess[1] /\ ps = Tail(sess)
    OBVIOUS
  <2>2. p \in Folders /\ ps \in Seq(Folders) /\ <<p>> \in Seq(Folders) /\ sess \in Seq(Folders)
    BY <1>8, <2>1
  <2>3. sess = <<p>> \o ps
    <3>1. /\ Len(sess) \in Nat /\ Len(sess) >= 1 /\ Len(ps) = Len(sess) - 1
          /\ \A i \in 1 .. Len(ps) : ps[i] = sess[i + 1]
      BY <1>8, <2>1, <2>2, HeadTailProperties
    <3>2. <<p>> \o ps \in Seq(Folders) /\ Len(<<p>>) = 1 /\ <<p>>[1] = p
      BY <2>2
    <3>3. /\ Len(<<p>> \o ps) = Len(<<p>>) + Len(ps)
          /\ \A i \in 1 .. Len(<<p>>) + Len(ps) :
                (<<p>> \o ps)[i] = IF i <= Len(<<p>>) THEN <<p>>[i] ELSE ps[i - Len(<<p>>)]
      BY <2>2, ConcatProperties
    <3>4. ASSUME NEW i \in 1 .. Len(sess)
          PROVE  sess[i] = (<<p>> \o ps)[i]
      <4>1. CASE i = 1
        BY <2>1, <3>1, <3>2, <3>3, <4>1
      <4>2. CASE i # 1
        <5>1. i - 1 \in 1 .. Len(ps) /\ (i - 1) + 1 = i /\ i \in 1 .. 1 + Len(ps) /\ ~(i <= 1)
          BY <3>1, <4>2
        <5>2. (<<p>> \o ps)[i] = ps[i - 1]
          BY <3>2, <3>3, <5>1
        <5> QED BY <3>1, <5>1, <5>2
      <4> QED BY <4>1, <4>2
    <3>5. Len(sess) = Len(<<p>> \o ps)
      BY <3>1, <3>2, <3>3
    <3> QED BY <2>2, <3>2, <3>4, <3>5, SeqEqual
  <2>4. PICK v : v = NewTabView(l, x, p)
    OBVIOUS
  <2>5. r = NewTabs(v, x, ps)
    BY <1>1, <1>8, <2>1, <2>4 DEF LoadSession
  <2>6. Good(v) /\ Added(l, v, x, <<p>>) /\ v.loaded = l.loaded
    <3>1. Typed(l) /\ Placed(l) /\ Viewed(l) /\ Followed(l) /\ SessionsOK(l) /\ PaneOK(l, Other(x))
          /\ p \in Folders
      BY <1>3, <1>4, <2>2
    <3> QED BY <2>4, <3>1, NewTabViewGood
  <2>7. Added(l, v, x, <<p>>) /\ Typed(v) /\ Placed(v) /\ Typed(l) /\ Placed(l) /\ <<p>> \in Seq(Folders)
    BY <1>3, <2>2, <2>6 DEF Good
  <2>8. /\ PathsIn(v, x) = PathsIn(l, x) \o <<p>>
        /\ \A y \in Panes \ {x} : PathsIn(v, y) = PathsIn(l, y)
    <3>1. PICK q : q = <<p>>
      OBVIOUS
    <3>2. Added(l, v, x, q) /\ q \in Seq(Folders) /\ Typed(v) /\ Placed(v) /\ Typed(l) /\ Placed(l)
      BY <2>7, <3>1
    <3>3. /\ PathsIn(v, x) = PathsIn(l, x) \o q
          /\ \A y \in Panes \ {x} : PathsIn(v, y) = PathsIn(l, y)
      BY <3>2, PathsAdded
    <3> QED BY <3>1, <3>3
  <2>9. v.tabs[x] # <<>>
    <3>1. Len(PathsIn(v, x)) = Len(v.tabs[x])
      BY <2>7, PathsType
    <3>2. PathsIn(l, x) \in Seq(Folders)
      BY <1>3, PathsType
    <3>3. Len(PathsIn(l, x) \o <<p>>) # 0
      BY <2>2, <3>2
    <3> QED BY <2>8, <3>1, <3>3
  <2>10. Good(r)
    BY <2>2, <2>5, <2>6, <2>9, NewTabsGood
  <2>11. DOMAIN v = Names /\ x \in DOMAIN v.tabs
    BY <2>7 DEF Typed
  <2>12. Added(v, r, x, ps) /\ r.loaded = v.loaded
    BY <2>5, <2>11 DEF Added, NewTabs, Inserted, Names
  <2>13. Typed(r) /\ Placed(r)
    BY <2>10 DEF Good
  <2>14. /\ PathsIn(r, x) = PathsIn(v, x) \o ps
         /\ \A y \in Panes \ {x} : PathsIn(r, y) = PathsIn(v, y)
    <3>1. ps \in Seq(Folders)
      BY <2>2
    <3> QED BY <2>7, <2>12, <2>13, <3>1, PathsAdded
  <2>15. (PathsIn(s, x) \o <<p>>) \o ps = PathsIn(s, x) \o (<<p>> \o ps)
    <3>1. PathsIn(s, x) \in Seq(Folders)
      BY PathsType
    <3> QED BY <2>2, <3>1, ConcatAssociative
  <2>16. PathsIn(r, x) = PathsIn(s, x) \o sess
    BY <1>5, <2>3, <2>8, <2>14, <2>15
  <2>17. \A y \in Panes \ {x} : PathsIn(r, y) = PathsIn(s, y)
    BY <1>5, <2>8, <2>14
  <2> QED BY <1>2, <1>8, <2>6, <2>10, <2>12, <2>16, <2>17 DEF Restored
<1> QED BY <1>6, <1>7, <1>8

-----------------------------------------------------------------------------
\* The handlers: a is s without its first event e, which is about tab e.tab.
Taken(s, a, e) ==
    /\ DOMAIN a = Names
    /\ s.events # <<>> /\ e = s.events[1] /\ a.events = Tail(s.events)
    /\ a.tabs = s.tabs /\ a.pane = s.pane /\ a.views = s.views /\ a.uninit = s.uninit
    /\ a.checked = s.checked /\ a.dual = s.dual /\ a.loaded = s.loaded
    /\ a.path \in Seq(Folders) /\ Len(a.path) = Len(s.path)
    /\ \A u \in Known(s) \ {e.tab} : a.path[u] = s.path[u]
    /\ Alive(s, e.tab) => a.path[e.tab] = e.path

\* It has made its tab the current one, or was about something else.
Turned(s, a, e) ==
    /\ s.dual # Null /\ Alive(s, e.tab) /\ e.kind = "active"
    /\ a.curr_tab = e.tab /\ a.session2_open = TRUE
    /\ a.pane_curr_tab = [s.pane_curr_tab EXCEPT ![s.pane[e.tab]] = e.tab]

Passed(s, a, e) ==
    /\ s.dual = Null \/ ~Alive(s, e.tab) \/ e.kind = "open"
    /\ a.curr_tab = s.curr_tab /\ a.session2_open = s.session2_open
    /\ a.pane_curr_tab = s.pane_curr_tab

LEMMA TailIs ==
    ASSUME NEW S, NEW q \in Seq(S), q # <<>>
    PROVE  /\ q[1] \in S /\ Tail(q) \in Seq(S)
           /\ Len(q) \in Nat /\ Len(q) >= 1 /\ Len(Tail(q)) = Len(q) - 1
           /\ \A i \in 1 .. Len(q) - 1 : Tail(q)[i] = q[i + 1]
OBVIOUS

LEMMA TakenFollowed ==
    ASSUME NEW s, Typed(s), Followed(s), NEW a, NEW e, Taken(s, a, e)
    PROVE  Followed(a)
<1>1. PICK m : m = Len(s.events)
  OBVIOUS
<1>2. /\ m \in Nat /\ m >= 1 /\ Len(a.events) = m - 1 /\ e = s.events[1]
      /\ \A i \in 1 .. m - 1 : a.events[i] = s.events[i + 1]
  <2>1. s.events \in Seq(Reports) /\ s.events # <<>> /\ e = s.events[1] /\ a.events = Tail(s.events)
    BY DEF Typed, Taken
  <2> QED BY <1>1, <2>1, TailIs
<1>3. /\ Len(a.path) = Len(s.path) /\ a.views = s.views
      /\ \A u \in Known(s) \ {e.tab} : a.path[u] = s.path[u]
      /\ Alive(s, e.tab) => a.path[e.tab] = e.path
  BY DEF Taken
<1> SUFFICES ASSUME NEW t \in Known(a), Alive(a, t), NEW i \in 0 .. Len(a.events), Stop(a, t, i)
             PROVE  /\ Quiet(a, t, i, Len(a.events) + 1) => PathAt(a, t, i) = a.views[t]
                    /\ \A j \in i + 1 .. Len(a.events) :
                          (a.events[j].tab = t /\ a.events[j].kind = "active" /\ Quiet(a, t, i, j))
                              => a.events[j].path = PathAt(a, t, i)
  BY DEF Followed
<1>4. t \in Known(s) /\ Alive(s, t)
  BY <1>3 DEF Known, Alive
<1>5. PICK h : h = IF i = 0 /\ e.tab # t THEN 0 ELSE i + 1
  OBVIOUS
<1>6. h \in 0 .. m /\ (h = 0 <=> i = 0 /\ e.tab # t) /\ (h # 0 => h = i + 1) /\ i \in 0 .. m - 1
  BY <1>2, <1>5
<1>7. Stop(s, t, h) /\ PathAt(a, t, i) = PathAt(s, t, h)
  <2>1. CASE i = 0 /\ e.tab # t
    BY <1>3, <1>4, <1>6, <2>1 DEF Stop, PathAt
  <2>2. CASE i = 0 /\ e.tab = t
    <3>1. h = 1
      BY <1>6, <2>2
    <3> QED BY <1>2, <1>3, <1>4, <2>2, <3>1 DEF Stop, PathAt
  <2>3. CASE i # 0
    <3>1. h = i + 1 /\ h # 0 /\ i \in 1 .. m - 1
      BY <1>2, <1>6, <2>3
    <3> QED BY <1>2, <2>3, <3>1 DEF Stop, PathAt
  <2> QED BY <2>1, <2>2, <2>3
<1>8. ASSUME NEW j \in i + 1 .. m, Quiet(a, t, i, j)
      PROVE  Quiet(s, t, h, j + 1)
  <2> SUFFICES ASSUME NEW k \in h + 1 .. j
               PROVE  s.events[k].tab # t
    <3>1. (j + 1) - 1 = j
      BY <1>2, <1>6
    <3> QED BY <3>1 DEF Quiet
  <2>1. CASE k = 1
    <3>1. h = 0
      BY <1>6, <2>1
    <3> QED BY <1>2, <1>6, <2>1, <3>1
  <2>2. CASE k # 1
    <3>1. k - 1 \in i + 1 .. j - 1 /\ k - 1 \in 1 .. m - 1 /\ (k - 1) + 1 = k
      BY <1>2, <1>6, <2>2
    <3>2. a.events[k - 1].tab # t
      BY <1>8, <3>1 DEF Quiet
    <3> QED BY <1>2, <3>1, <3>2
  <2> QED BY <2>1, <2>2
<1>9. /\ Quiet(s, t, h, m + 1) => PathAt(s, t, h) = s.views[t]
      /\ \A j \in h + 1 .. m :
            (s.events[j].tab = t /\ s.events[j].kind = "active" /\ Quiet(s, t, h, j))
                => s.events[j].path = PathAt(s, t, h)
  BY <1>1, <1>4, <1>6, <1>7 DEF Followed
<1>10. ASSUME Quiet(a, t, i, m)
       PROVE  PathAt(a, t, i) = a.views[t]
  <2>1. m \in i + 1 .. m
    BY <1>2, <1>6
  <2> QED BY <1>3, <1>7, <1>8, <1>9, <1>10, <2>1
<1>11. ASSUME NEW j \in i + 1 .. m - 1,
              a.events[j].tab = t, a.events[j].kind = "active", Quiet(a, t, i, j)
       PROVE  a.events[j].path = PathAt(a, t, i)
  <2>1. j + 1 \in h + 1 .. m /\ j \in i + 1 .. m /\ j \in 1 .. m - 1
    BY <1>2, <1>6
  <2>2. Quiet(s, t, h, j + 1)
    BY <1>8, <1>11, <2>1
  <2> QED BY <1>2, <1>7, <1>9, <1>11, <2>1, <2>2
<1>12. (m - 1) + 1 = m
  BY <1>2
<1> QED BY <1>2, <1>10, <1>11, <1>12

LEMMA TakenPane ==
    ASSUME NEW s, Typed(s), NEW y \in Panes, PaneOK(s, y), NEW a, NEW e, Taken(s, a, e),
           s.dual # Null =>
               a.pane_curr_tab[y] = IF Turns(s, y, 1) THEN e.tab ELSE s.pane_curr_tab[y]
    PROVE  PaneOK(a, y)
<1>1. PICK m : m = Len(s.events)
  OBVIOUS
<1>2. /\ m \in Nat /\ m >= 1 /\ Len(a.events) = m - 1 /\ e = s.events[1]
      /\ \A i \in 1 .. m - 1 : a.events[i] = s.events[i + 1]
  <2>1. s.events \in Seq(Reports) /\ s.events # <<>> /\ e = s.events[1] /\ a.events = Tail(s.events)
    BY DEF Typed, Taken
  <2> QED BY <1>1, <2>1, TailIs
<1>3. a.tabs = s.tabs /\ a.pane = s.pane /\ a.views = s.views /\ a.checked = s.checked /\ a.dual = s.dual
  BY DEF Taken
<1>4. \A i \in 1 .. m - 1 : Turns(a, y, i) <=> Turns(s, y, i + 1)
  BY <1>2, <1>3 DEF Turns, Alive
<1> SUFFICES ASSUME a.dual # Null, a.tabs[y] # <<>>
    PROVE /\ a.checked[y] \in Shown(a, y) /\ Alive(a, a.checked[y])
          /\ \A i \in 1 .. Len(a.events) :
              (Turns(a, y, i) /\ \A j \in i + 1 .. Len(a.events) : ~Turns(a, y, j))
                  => a.events[i].tab = a.checked[y]
          /\ (\A i \in 1 .. Len(a.events) : ~Turns(a, y, i)) => a.pane_curr_tab[y] = a.checked[y]
  BY DEF PaneOK
<1>5. /\ s.checked[y] \in Shown(s, y) /\ Alive(s, s.checked[y])
      /\ \A i \in 1 .. m :
          (Turns(s, y, i) /\ \A j \in i + 1 .. m : ~Turns(s, y, j))
              => s.events[i].tab = s.checked[y]
      /\ (\A i \in 1 .. m : ~Turns(s, y, i)) => s.pane_curr_tab[y] = s.checked[y]
  BY <1>1, <1>3 DEF PaneOK
<1>6. a.checked[y] \in Shown(a, y) /\ Alive(a, a.checked[y])
  BY <1>3, <1>5 DEF Shown, Alive
<1>7. ASSUME NEW i \in 1 .. m, \A j \in i .. m - 1 : ~Turns(a, y, j)
      PROVE  \A j \in i + 1 .. m : ~Turns(s, y, j)
  <2> SUFFICES ASSUME NEW j \in i + 1 .. m
               PROVE  ~Turns(s, y, j)
    OBVIOUS
  <2>1. j - 1 \in i .. m - 1 /\ j - 1 \in 1 .. m - 1 /\ (j - 1) + 1 = j
    BY <1>2
  <2> QED BY <1>4, <1>7, <2>1
<1>8. ASSUME NEW i \in 1 .. m - 1, Turns(a, y, i), \A j \in i + 1 .. m - 1 : ~Turns(a, y, j)
      PROVE  a.events[i].tab = a.checked[y]
  <2>1. i + 1 \in 1 .. m
    BY <1>2
  <2>2. Turns(s, y, i + 1) /\ \A j \in (i + 1) + 1 .. m : ~Turns(s, y, j)
    BY <1>4, <1>7, <1>8, <2>1
  <2> QED BY <1>2, <1>3, <1>5, <2>1, <2>2
<1>9. ASSUME \A i \in 1 .. m - 1 : ~Turns(a, y, i)
      PROVE  a.pane_curr_tab[y] = a.checked[y]
  <2>1. 1 \in 1 .. m /\ \A i \in 1 .. m : i = 1 \/ i \in 1 + 1 .. m
    BY <1>2
  <2>2. \A j \in 1 + 1 .. m : ~Turns(s, y, j)
    BY <1>7, <1>9, <2>1
  <2>3. CASE Turns(s, y, 1)
    BY <1>2, <1>3, <1>5, <2>1, <2>2, <2>3
  <2>4. CASE ~Turns(s, y, 1)
    BY <1>3, <1>5, <2>1, <2>2, <2>4
  <2> QED BY <2>3, <2>4
<1> QED BY <1>2, <1>6, <1>8, <1>9

LEMMA TakenGood ==
    ASSUME NEW s, Good(s), NEW a, NEW e, Taken(s, a, e), Turned(s, a, e) \/ Passed(s, a, e)
    PROVE  /\ Typed(a) /\ Placed(a) /\ Viewed(a) /\ Followed(a) /\ CurrentOK(a)
           /\ \A y \in Panes : PaneOK(a, y)
           /\ a.session2_open => a.dual # Null
<1>1. PICK m, n, t : m = Len(s.events) /\ n = Len(s.path) /\ t = e.tab
  OBVIOUS
<1>2. Typed(s) /\ Placed(s) /\ Viewed(s) /\ Followed(s) /\ CurrentOK(s) /\ SessionsOK(s)
      /\ \A y \in Panes : PaneOK(s, y)
  BY DEF Good
<1>3. /\ DOMAIN a = Names /\ s.events # <<>> /\ e = s.events[1] /\ a.events = Tail(s.events)
      /\ a.tabs = s.tabs /\ a.pane = s.pane /\ a.views = s.views /\ a.uninit = s.uninit
      /\ a.checked = s.checked /\ a.dual = s.dual /\ a.loaded = s.loaded
      /\ a.path \in Seq(Folders) /\ Len(a.path) = Len(s.path)
  BY DEF Taken
<1>4. /\ s.events \in Seq(Reports) /\ n \in Nat /\ s.pane_curr_tab \in [Panes -> Ref]
      /\ s.pane \in Seq(Panes) /\ Len(s.pane) = n /\ Known(s) = 1 .. n /\ Known(a) = 1 .. n
      /\ s.curr_tab = Null \/ s.curr_tab \in Known(s) \ s.uninit
  BY <1>1, <1>2, <1>3 DEF Typed, Placed, Known
<1>5. /\ m \in Nat /\ m >= 1 /\ Len(a.events) = m - 1 /\ e \in Reports
      /\ \A i \in 1 .. m - 1 : a.events[i] = s.events[i + 1]
      /\ a.events \in Seq(Reports)
  BY <1>1, <1>3, <1>4, TailIs
<1>6. \A i \in 1 .. m : s.events[i].tab \in 1 .. n /\ s.events[i].tab \notin s.uninit
  BY <1>1, <1>2, <1>4 DEF Placed
<1>7. t \in 1 .. n /\ t \notin s.uninit /\ t \in Nat /\ s.pane[t] \in Panes
  <2>1. 1 \in 1 .. m
    BY <1>5
  <2>2. t \in 1 .. n /\ t \notin s.uninit
    BY <1>1, <1>3, <1>6, <2>1
  <2> QED BY <1>4, <2>2
<1>8. /\ a.pane_curr_tab \in [Panes -> Ref]
      /\ \A y \in Panes : \/ a.pane_curr_tab[y] = s.pane_curr_tab[y]
                          \/ a.pane_curr_tab[y] = t /\ s.pane[t] = y
      /\ a.curr_tab = s.curr_tab \/ a.curr_tab = t
  <2>1. CASE Turned(s, a, e)
    BY <1>1, <1>4, <1>7, <2>1 DEF Turned, Ref
  <2>2. CASE Passed(s, a, e)
    BY <1>1, <1>4, <2>2 DEF Passed
  <2> QED BY <2>1, <2>2
<1>9. Typed(a)
  BY <1>2, <1>3, <1>5, <1>8 DEF Typed
<1>10. Placed(a)
  <2>1. \A i \in 1 .. Len(a.events) : a.events[i].tab \in Known(a) \ a.uninit
    <3>1. \A i \in 1 .. m - 1 : i + 1 \in 1 .. m
      BY <1>5
    <3> QED BY <1>3, <1>4, <1>5, <1>6, <3>1
  <2>2. a.curr_tab = Null \/ a.curr_tab \in Known(a) \ a.uninit
    BY <1>3, <1>4, <1>7, <1>8
  <2>3. ASSUME NEW y \in Panes
        PROVE  /\ \A u \in Shown(a, y) : u \in Known(a) /\ a.pane[u] = y
               /\ IsInjective(a.tabs[y])
               /\ a.pane_curr_tab[y] = Null
                  \/ (a.pane_curr_tab[y] \in Known(a) /\ a.pane[a.pane_curr_tab[y]] = y)
    <3>1. /\ \A u \in Shown(s, y) : u \in Known(s) /\ s.pane[u] = y
          /\ IsInjective(s.tabs[y])
          /\ s.pane_curr_tab[y] = Null
             \/ (s.pane_curr_tab[y] \in Known(s) /\ s.pane[s.pane_curr_tab[y]] = y)
      BY <1>2 DEF Placed
    <3>2. Shown(a, y) = Shown(s, y)
      BY <1>3 DEF Shown
    <3> QED BY <1>3, <1>4, <1>7, <1>8, <3>1, <3>2
  <2>4. a.uninit \subseteq Known(a)
    BY <1>2, <1>3, <1>4 DEF Placed
  <2> QED BY <2>1, <2>2, <2>3, <2>4 DEF Placed
<1>11. Viewed(a)
  BY <1>2, <1>3, <1>4 DEF Viewed, Alive, Shown
<1>12. Followed(a)
  BY <1>2, TakenFollowed
<1>13. ASSUME NEW y \in Panes
       PROVE  PaneOK(a, y)
  <2>1. s.dual # Null =>
            a.pane_curr_tab[y] = IF Turns(s, y, 1) THEN e.tab ELSE s.pane_curr_tab[y]
    <3>1. CASE Turned(s, a, e)
      BY <1>1, <1>3, <1>4, <1>7, <3>1 DEF Turned, Turns
    <3>2. CASE Passed(s, a, e)
      BY <1>3, <3>2 DEF Passed, Turns
    <3> QED BY <3>1, <3>2
  <2> QED BY <1>2, <2>1, TakenPane
<1>14. CurrentOK(a)
  <2>1. CASE Turned(s, a, e)
    BY <1>1, <1>3, <1>4, <1>7, <2>1 DEF Turned, CurrentOK
  <2>2. CASE Passed(s, a, e)
    <3> SUFFICES ASSUME a.dual # Null, a.curr_tab # Null, a.curr_tab \in Shown(a, a.pane[a.curr_tab])
        PROVE \/ a.pane_curr_tab[a.pane[a.curr_tab]] = a.curr_tab
              \/ \E i \in 1 .. Len(a.events) :
                    a.events[i].kind = "active" /\ a.events[i].tab = a.curr_tab
      BY DEF CurrentOK
    <3>1. PICK c : c = s.curr_tab
      OBVIOUS
    <3>2. /\ s.dual # Null /\ c # Null /\ c \in Shown(s, s.pane[c])
          /\ a.curr_tab = c /\ a.pane_curr_tab = s.pane_curr_tab
          /\ ~Alive(s, e.tab) \/ e.kind = "open"
      BY <1>3, <2>2, <3>1 DEF Passed, Shown
    <3>3. Alive(s, c)
      BY <1>2, <1>4, <3>1, <3>2 DEF Viewed
    <3>4. CASE s.pane_curr_tab[s.pane[c]] = c
      BY <1>3, <3>2, <3>4
    <3>5. CASE \E i \in 1 .. m : s.events[i].kind = "active" /\ s.events[i].tab = c
      <4>1. PICK i \in 1 .. m : s.events[i].kind = "active" /\ s.events[i].tab = c
        BY <3>5
      <4>2. i # 1
        BY <1>3, <3>2, <3>3, <4>1
      <4>3. i - 1 \in 1 .. m - 1 /\ (i - 1) + 1 = i
        BY <1>5, <4>2
      <4>4. a.events[i - 1] = s.events[i]
        BY <1>5, <4>3
      <4> QED BY <1>5, <3>2, <4>1, <4>3, <4>4
    <3> QED BY <1>1, <1>2, <3>1, <3>2, <3>4, <3>5 DEF CurrentOK
  <2> QED BY <2>1, <2>2
<1>15. a.session2_open => a.dual # Null
  BY <1>2, <1>3 DEF SessionsOK, Turned, Passed
<1> QED BY <1>9, <1>10, <1>11, <1>12, <1>13, <1>14, <1>15

\* w is s without its first event.
Rest(s, w) ==
    /\ DOMAIN w = Names
    /\ w.events = Tail(s.events)
    /\ w.tabs = s.tabs /\ w.pane = s.pane /\ w.path = s.path /\ w.views = s.views
    /\ w.uninit = s.uninit /\ w.checked = s.checked /\ w.dual = s.dual /\ w.loaded = s.loaded
    /\ w.curr_tab = s.curr_tab /\ w.pane_curr_tab = s.pane_curr_tab
    /\ w.session2_open = s.session2_open

\* An event is about a tab of this run; what an "active" event says is known.
LEMMA FirstEvent ==
    ASSUME NEW s, Good(s), s.events # <<>>, NEW e, e = s.events[1]
    PROVE  /\ e \in Reports /\ e.tab \in Known(s)
           /\ (e.kind = "active" /\ Alive(s, e.tab)) => e.path = s.path[e.tab]
<1>1. Typed(s) /\ Placed(s) /\ Followed(s) /\ s.events \in Seq(Reports)
  BY DEF Good, Typed
<1>2. e \in Reports /\ Len(s.events) \in Nat /\ 1 \in 1 .. Len(s.events)
  BY <1>1, TailIs
<1>3. e.tab \in Known(s)
  BY <1>1, <1>2 DEF Placed
<1>4. ASSUME e.kind = "active", Alive(s, e.tab)
      PROVE  e.path = s.path[e.tab]
  <2>1. 0 \in 0 .. Len(s.events) /\ 1 \in 0 + 1 .. Len(s.events) /\ Stop(s, e.tab, 0)
    BY <1>2 DEF Stop
  <2>2. Quiet(s, e.tab, 0, 1)
    BY DEF Quiet
  <2>3. s.events[1].path = PathAt(s, e.tab, 0)
    BY <1>1, <1>3, <1>4, <2>1, <2>2 DEF Followed
  <2> QED BY <2>3 DEF PathAt
<1> QED BY <1>2, <1>3, <1>4

LEMMA OnOpenGood ==
    ASSUME NEW s, Good(s), s.events # <<>>, NEW e, e = s.events[1], e.kind = "open",
           NEW w, Rest(s, w), NEW r, r = OnOpen(w, e)
    PROVE  Good(r) /\ r.loaded = s.loaded
<1>1. e \in Reports /\ e.tab \in Known(s) /\ e.path \in Folders
  BY FirstEvent DEF Reports
<1>2. s.path \in Seq(Folders) /\ Known(s) = 1 .. Len(s.path) /\ SessionsOK(s)
  BY DEF Good, Typed, Known
<1>3. Taken(s, r, e) /\ Passed(s, r, e) /\ r.loaded = s.loaded
  <2>1. CASE w.views[e.tab] = Null
    <3>1. r = w /\ ~Alive(s, e.tab)
      BY <2>1 DEF OnOpen, Rest, Alive
    <3> QED BY <1>2, <3>1 DEF Rest, Taken, Passed
  <2>2. CASE w.views[e.tab] # Null
    <3>1. r = [w EXCEPT !.path[e.tab] = e.path]
      BY <2>2 DEF OnOpen
    <3>2. r.path = [s.path EXCEPT ![e.tab] = e.path]
      BY <3>1 DEF Rest, Names
    <3>3. /\ DOMAIN r = Names
          /\ r.events = Tail(s.events)
          /\ r.tabs = s.tabs /\ r.pane = s.pane /\ r.views = s.views
          /\ r.uninit = s.uninit /\ r.checked = s.checked /\ r.dual = s.dual /\ r.loaded = s.loaded
          /\ r.curr_tab = s.curr_tab /\ r.pane_curr_tab = s.pane_curr_tab
          /\ r.session2_open = s.session2_open
      BY <3>1 DEF Rest, Names
    <3>4. r.path \in Seq(Folders) /\ Len(r.path) = Len(s.path) /\ r.path[e.tab] = e.path
          /\ \A u \in Known(s) \ {e.tab} : r.path[u] = s.path[u]
      BY <1>1, <1>2, <3>2, ExceptSeq
    <3> QED BY <3>3, <3>4 DEF Taken, Passed
  <2> QED BY <2>1, <2>2
<1>4. SessionsOK(r)
  <2>1. r.session2_open => r.dual # Null
    BY <1>3, TakenGood
  <2> QED BY <1>2, <1>3, <2>1 DEF SessionsOK, Passed
<1> QED BY <1>3, <1>4, TakenGood DEF Good

\* Whether the handler restores the second pane, or only takes note of the tab.
Activated(r, w, e, sess) == r = OnActive(w, e, sess)

\* The second pane has been loaded from sess, or nothing has.
Took(s, r, sess) ==
    \/ r.loaded = s.loaded
    \/ /\ ~s.session2_open
       /\ r.loaded = s.loaded \cup {"xplorer2"}
       /\ PathsIn(r, "xplorer2") = PathsIn(s, "xplorer2") \o Restored(sess)
       /\ PathsIn(r, "xplorer") = PathsIn(s, "xplorer")

LEMMA OnActiveGood ==
    ASSUME NEW s, Good(s), s.events # <<>>, NEW e, e = s.events[1], e.kind = "active",
           NEW w, Rest(s, w), NEW sess \in Seq(Folders) \cup {Broken},
           NEW r, Activated(r, w, e, sess)
    PROVE  /\ Good(r)
           /\ Took(s, r, sess)
           /\ (s.session2_open /\ Alive(s, e.tab)) =>
                 /\ r.curr_tab = e.tab /\ r.pane = s.pane /\ r.path = s.path
                 /\ r.loaded = s.loaded
<1>1. PICK t : t = e.tab
  OBVIOUS
<1>2. /\ e \in Reports /\ t \in Known(s) /\ e.path \in Folders
      /\ Alive(s, t) => e.path = s.path[t]
  BY <1>1, FirstEvent DEF Reports
<1>3. /\ s.path \in Seq(Folders) /\ Known(s) = 1 .. Len(s.path) /\ SessionsOK(s)
      /\ s.pane \in Seq(Panes) /\ Len(s.pane) = Len(s.path)
      /\ s.pane_curr_tab \in [Panes -> Ref]
  BY DEF Good, Typed, Known
<1>4. CASE s.dual = Null \/ ~Alive(s, t)
  <2>1. r = w
    BY <1>1, <1>4 DEF Activated, OnActive, Rest, Alive
  <2>2. Taken(s, r, e) /\ Passed(s, r, e) /\ r.loaded = s.loaded
    BY <1>1, <1>2, <1>3, <1>4, <2>1 DEF Rest, Taken, Passed
  <2>3. SessionsOK(r)
    <3>1. r.session2_open => r.dual # Null
      BY <2>2, TakenGood
    <3> QED BY <1>3, <2>2, <3>1 DEF SessionsOK, Passed
  <2>4. Good(r)
    BY <2>2, <2>3, TakenGood DEF Good
  <2> QED BY <1>1, <1>3, <1>4, <2>2, <2>4 DEF SessionsOK, Took
<1>5. CASE s.dual # Null /\ Alive(s, t)
  <2>1. PICK a : a = [w EXCEPT !.curr_tab = t, !.clicked_tab = FALSE,
                               !.path[t] = IF w.clicked_tab THEN e.path ELSE @,
                               !.pane_curr_tab[w.pane[t]] = t,
                               !.session2_open = TRUE]
    OBVIOUS
  <2>2. r = IF ~s.session2_open THEN LoadSession(a, "xplorer2", sess)
            ELSE [a EXCEPT !.visible2 = @ /\ s.dual]
    <3>1. w.dual = s.dual /\ w.views = s.views /\ w.session2_open = s.session2_open
      BY DEF Rest
    <3>2. ~(w.dual = Null \/ w.views[t] = Null)
      BY <1>5, <3>1 DEF Alive
    <3> QED BY <1>1, <2>1, <3>1, <3>2 DEF Activated, OnActive
  <2>3. a.path = s.path
    <3>1. a.path = [s.path EXCEPT ![t] = IF w.clicked_tab THEN e.path ELSE @]
      BY <2>1 DEF Rest, Names
    <3> QED BY <1>2, <1>3, <1>5, <3>1
  <2>4. /\ DOMAIN a = Names
        /\ a.events = Tail(s.events)
        /\ a.tabs = s.tabs /\ a.pane = s.pane /\ a.views = s.views
        /\ a.uninit = s.uninit /\ a.checked = s.checked /\ a.dual = s.dual /\ a.loaded = s.loaded
        /\ a.curr_tab = t /\ a.pane_curr_tab = [s.pane_curr_tab EXCEPT ![s.pane[t]] = t]
        /\ a.session2_open = TRUE
    BY <2>1 DEF Rest, Names
  <2>5. Taken(s, a, e) /\ Turned(s, a, e)
    BY <1>1, <1>2, <1>3, <1>5, <2>3, <2>4 DEF Taken, Turned
  <2>6. /\ Typed(a) /\ Placed(a) /\ Viewed(a) /\ Followed(a) /\ CurrentOK(a)
        /\ \A y \in Panes : PaneOK(a, y)
        /\ a.session2_open => a.dual # Null
    BY <2>5, TakenGood
  <2>7. \A y \in Panes : PathsIn(a, y) = PathsIn(s, y)
    BY <2>3, <2>4 DEF PathsIn
  <2>8. "xplorer2" \in Panes /\ "xplorer" \in Panes \ {"xplorer2"}
    BY DEF Panes
  <2>9. CASE ~s.session2_open
    <3>1. r = LoadSession(a, "xplorer2", sess)
      BY <2>2, <2>9
    <3>2. PaneOK(a, Other("xplorer2")) /\ PaneOK(a, "xplorer2")
      BY <2>6, <2>8, OtherPane
    <3>3. /\ Good(r) /\ r.loaded = a.loaded \cup {"xplorer2"}
          /\ PathsIn(r, "xplorer2") = PathsIn(a, "xplorer2") \o Restored(sess)
          /\ \A y \in Panes \ {"xplorer2"} : PathsIn(r, y) = PathsIn(a, y)
      <4>1. /\ Typed(a) /\ Placed(a) /\ Viewed(a) /\ Followed(a)
            /\ "xplorer2" \in Panes /\ PaneOK(a, Other("xplorer2"))
            /\ a.session2_open => a.dual # Null
            /\ "xplorer2" \in a.loaded \cup {"xplorer2"} => a.session2_open
            /\ sess = Broken => PaneOK(a, "xplorer2") /\ CurrentOK(a)
        BY <2>4, <2>6, <2>8, <3>2
      <4> QED BY <3>1, <4>1, LoadSessionGood
    <3> QED BY <2>4, <2>7, <2>8, <2>9, <3>3 DEF Took
  <2>10. CASE s.session2_open
    <3>1. Alike(a, r) /\ r.session2_open = a.session2_open /\ r.loaded = a.loaded /\ r.dual = a.dual
      <4>1. r = [a EXCEPT !.visible2 = @ /\ s.dual]
        BY <2>2, <2>10
      <4> QED BY <2>4, <4>1 DEF Alike, Names
    <3>2. SessionsOK(r)
      BY <2>4, <2>6, <3>1 DEF SessionsOK
    <3>3. Good(r)
      BY <2>6, <3>1, <3>2, AlikeKeeps DEF Good
    <3> QED BY <1>1, <2>3, <2>4, <3>1, <3>3 DEF Alike, Took
  <2> QED BY <2>9, <2>10
<1> QED BY <1>4, <1>5

\* The view of the tab that is down: it goes to another folder, or is clicked.
Went(s, c, t, p) ==
    /\ DOMAIN c = Names /\ c.views = [s.views EXCEPT ![t] = p]
    /\ c.tabs = s.tabs /\ c.pane = s.pane /\ c.path = s.path
    /\ c.checked = s.checked /\ c.pane_curr_tab = s.pane_curr_tab
    /\ c.session2_open = s.session2_open /\ c.loaded = s.loaded /\ c.dual = s.dual
    /\ c.curr_tab = s.curr_tab /\ c.uninit = s.uninit /\ c.events = s.events

LEMMA ReportGood ==
    ASSUME NEW s, Good(s), NEW x \in Panes, NEW t, t = s.checked[x], t \in Shown(s, x), Alive(s, t),
           NEW p \in Folders, NEW kind \in {"open", "active"}, kind = "active" => p = s.views[t],
           NEW c, Went(s, c, t, p), NEW r, r = Report(c, kind, t)
    PROVE  Good(r) /\ r.loaded = s.loaded
<1>1. PICK n, m, e : n = Len(s.path) /\ m = Len(s.events) /\ e = [kind |-> kind, tab |-> t, path |-> p]
  OBVIOUS
<1>2. Typed(s) /\ Placed(s) /\ Viewed(s) /\ Followed(s) /\ CurrentOK(s) /\ SessionsOK(s)
      /\ \A y \in Panes : PaneOK(s, y)
  BY DEF Good
<1>3. /\ DOMAIN s = Names
      /\ n \in Nat /\ Len(s.views) = n /\ s.views \in Seq(Somewhere) /\ Known(s) = 1 .. n
      /\ s.events \in Seq(Reports) /\ s.pane \in Seq(Panes) /\ Len(s.pane) = n
  BY <1>1, <1>2 DEF Typed, Known
<1>4. t \in 1 .. n /\ t \in Nat /\ s.pane[t] = x /\ t \notin s.uninit
  BY <1>2, <1>3 DEF Placed, Viewed
<1>5. PICK v : v = [s.views EXCEPT ![t] = p]
  OBVIOUS
<1>6. v \in Seq(Somewhere) /\ Len(v) = n /\ v[t] = p /\ \A u \in 1 .. n : u # t => v[u] = s.views[u]
  <2>1. p \in Somewhere
    BY DEF Somewhere
  <2> QED BY <1>3, <1>4, <1>5, <2>1, ExceptSeq
<1>8. /\ DOMAIN c = Names /\ c.views = v
      /\ c.tabs = s.tabs /\ c.pane = s.pane /\ c.path = s.path
      /\ c.checked = s.checked /\ c.pane_curr_tab = s.pane_curr_tab
      /\ c.session2_open = s.session2_open /\ c.loaded = s.loaded /\ c.dual = s.dual
      /\ c.curr_tab = s.curr_tab /\ c.uninit = s.uninit /\ c.events = s.events
  BY <1>5 DEF Went
<1>9. /\ DOMAIN r = Names /\ r.views = v
      /\ r.tabs = s.tabs /\ r.pane = s.pane /\ r.path = s.path
      /\ r.checked = s.checked /\ r.pane_curr_tab = s.pane_curr_tab
      /\ r.session2_open = s.session2_open /\ r.loaded = s.loaded /\ r.dual = s.dual
      /\ r.curr_tab = s.curr_tab /\ r.uninit = s.uninit
      /\ r.events = Append(s.events, e)
  <2>2. /\ DOMAIN r = Names
        /\ r.tabs = c.tabs /\ r.pane = c.pane /\ r.path = c.path
        /\ r.checked = c.checked /\ r.pane_curr_tab = c.pane_curr_tab
        /\ r.session2_open = c.session2_open /\ r.loaded = c.loaded /\ r.dual = c.dual
        /\ r.curr_tab = c.curr_tab /\ r.uninit = c.uninit /\ r.views = c.views
        /\ r.events = Append(c.events, [kind |-> kind, tab |-> t, path |-> c.views[t]])
    <3>1. DOMAIN c = Names
      BY <1>8
    <3> QED BY <3>1 DEF Report, Names
  <2> QED BY <1>1, <1>6, <1>8, <2>2
<1>10. e \in Reports /\ e.tab = t /\ e.path = p /\ e.kind = kind
  BY <1>1, <1>4 DEF Reports
<1>11. /\ r.events \in Seq(Reports) /\ m \in Nat /\ Len(r.events) = m + 1 /\ r.events[m + 1] = e
       /\ \A i \in 1 .. m : r.events[i] = s.events[i]
  <2>1. s.events \in Seq(Reports) /\ e \in Reports /\ r.events = Append(s.events, e)
    BY <1>3, <1>9, <1>10
  <2> QED BY <1>1, <2>1, Appended
<1>12. Typed(r)
  BY <1>1, <1>2, <1>6, <1>9, <1>11 DEF Typed
<1>13. Known(r) = 1 .. n /\ \A u \in 1 .. n : Alive(r, u) <=> Alive(s, u)
  <2>1. p # Null
    BY ExplorerTabsAssumption
  <2> QED BY <1>1, <1>6, <1>9, <2>1 DEF Known, Alive
<1>14. \A i \in 1 .. m : s.events[i].tab \in Known(s) \ s.uninit
  BY <1>1, <1>2 DEF Placed
<1>15. Placed(r)
  <2>1. \A i \in 1 .. Len(r.events) : r.events[i].tab \in Known(r) \ r.uninit
    <3>1. \A i \in 1 .. m + 1 : i \in 1 .. m \/ i = m + 1
      BY <1>11
    <3>2. \A i \in 1 .. m : s.events[i].tab \in 1 .. n /\ s.events[i].tab \notin s.uninit
      BY <1>3, <1>14
    <3> QED BY <1>4, <1>9, <1>10, <1>11, <1>13, <3>1, <3>2
  <2>2. r.uninit \subseteq Known(r) /\ (r.curr_tab = Null \/ r.curr_tab \in Known(r) \ r.uninit)
    BY <1>2, <1>3, <1>9, <1>13 DEF Placed
  <2>3. ASSUME NEW y \in Panes
        PROVE  /\ \A u \in Shown(r, y) : u \in Known(r) /\ r.pane[u] = y
               /\ IsInjective(r.tabs[y])
               /\ r.pane_curr_tab[y] = Null
                  \/ (r.pane_curr_tab[y] \in Known(r) /\ r.pane[r.pane_curr_tab[y]] = y)
    <3>1. Shown(r, y) = Shown(s, y)
      BY <1>9 DEF Shown
    <3> QED BY <1>2, <1>3, <1>9, <1>13, <3>1 DEF Placed
  <2> QED BY <2>1, <2>2, <2>3 DEF Placed
<1>16. Viewed(r)
  BY <1>2, <1>3, <1>9, <1>13 DEF Viewed, Shown
<1>17. Followed(r)
  <2>1. /\ e \in Reports /\ e.tab \in Known(s) /\ r.events = Append(s.events, e) /\ r.path = s.path
        /\ r.views[e.tab] = e.path /\ \A u \in Known(s) : u # e.tab => r.views[u] = s.views[u]
        /\ Alive(s, e.tab) /\ (e.kind = "active" => e.path = s.views[e.tab])
    BY <1>3, <1>4, <1>6, <1>9, <1>10
  <2> QED BY <1>2, <2>1, FollowedOn
<1>18. ASSUME NEW y \in Panes
       PROVE  PaneOK(r, y)
  <2>1. CASE kind = "active" /\ y = x
    <3>1. /\ e \in Reports /\ r.events = Append(s.events, e) /\ e.kind = "active"
          /\ r.pane[e.tab] = x /\ Alive(r, e.tab) /\ r.checked[x] = e.tab /\ e.tab \in Shown(r, x)
      BY <1>4, <1>9, <1>10, <1>13, <2>1 DEF Shown
    <3> QED BY <1>2, <2>1, <3>1, PaneTurned
  <2>2. CASE ~(kind = "active" /\ y = x)
    <3>1. Alive(s, s.checked[y]) => Alive(r, s.checked[y])
      <4>1. CASE s.checked[y] = t
        BY <1>4, <1>13, <4>1
      <4>2. CASE s.checked[y] # t
        <5>1. r.views[s.checked[y]] = s.views[s.checked[y]]
          BY <1>3, <1>5, <1>9, <4>2
        <5> QED BY <5>1 DEF Alive
      <4> QED BY <4>1, <4>2
    <3>2. ASSUME NEW i \in 1 .. Len(s.events)
          PROVE  /\ r.pane[s.events[i].tab] = s.pane[s.events[i].tab]
                 /\ s.pane[s.events[i].tab] = y
                      => (Alive(r, s.events[i].tab) <=> Alive(s, s.events[i].tab))
      BY <1>1, <1>3, <1>9, <1>13, <1>14
    <3>3. /\ Typed(s) /\ e \in Reports /\ r.events = Append(s.events, e) /\ PaneOK(s, y)
          /\ r.dual = s.dual /\ r.tabs[y] = s.tabs[y] /\ r.checked[y] = s.checked[y]
          /\ r.pane_curr_tab[y] = s.pane_curr_tab[y] /\ (e.kind = "active" => r.pane[e.tab] # y)
      BY <1>2, <1>4, <1>9, <1>10, <2>2
    <3>4. Untouched(s, r, e, y)
      BY <3>1, <3>2, <3>3 DEF Untouched
    <3> QED BY <3>3, <3>4, PaneLeft
  <2> QED BY <2>1, <2>2
<1>19. CurrentOK(r)
  <2>1. \A i \in 1 .. m : i \in 1 .. m + 1
    BY <1>11
  <2>2. \A y : Shown(r, y) = Shown(s, y)
    BY <1>9 DEF Shown
  <2>3. CurrentOK(s) /\ r.dual = s.dual /\ r.curr_tab = s.curr_tab /\ r.pane = s.pane
        /\ r.pane_curr_tab = s.pane_curr_tab
    BY <1>2, <1>9
  <2> QED BY <1>1, <1>11, <2>1, <2>2, <2>3 DEF CurrentOK
<1>20. SessionsOK(r)
  BY <1>2, <1>9 DEF SessionsOK
<1> QED BY <1>9, <1>12, <1>15, <1>16, <1>17, <1>18, <1>19, <1>20 DEF Good

-----------------------------------------------------------------------------
\* The actions.
LEMMA BlankIs ==
    ASSUME NEW s, DOMAIN s = Names,
           s.tabs = [x \in Panes |-> <<>>], s.checked = [x \in Panes |-> Null],
           s.pane = <<>>, s.path = <<>>, s.uninit = {}, s.views = <<>>, s.curr_tab = Null,
           s.pane_curr_tab = [x \in Panes |-> Null], s.session2_open = FALSE,
           s.loaded = {}, s.events = <<>>
    PROVE  Good(s) /\ \A x \in Panes : PathsIn(s, x) = <<>>
<1>1. Known(s) = {} /\ Len(s.events) = 0 /\ \A x \in Panes : s.tabs[x] = <<>> /\ Shown(s, x) = {}
  BY DEF Known, Shown, Range
<1>2. Typed(s)
  BY DEF Typed, Ref
<1>3. \A x \in Panes : IsInjective(s.tabs[x]) /\ s.pane_curr_tab[x] = Null
  BY <1>1 DEF IsInjective
<1>4. Placed(s)
  BY <1>1, <1>3 DEF Placed
<1>5. Viewed(s) /\ Followed(s)
  BY <1>1 DEF Viewed, Followed
<1>6. (\A x \in Panes : PaneOK(s, x)) /\ CurrentOK(s) /\ SessionsOK(s)
  BY <1>1 DEF PaneOK, CurrentOK, SessionsOK
<1>7. \A x \in Panes : PathsIn(s, x) = <<>>
  BY <1>1 DEF PathsIn
<1> QED BY <1>2, <1>4, <1>5, <1>6, <1>7 DEF Good

LEMMA BlankGood == Good(Blank) /\ (\A x \in Panes : PathsIn(Blank, x) = <<>>) /\ Blank.loaded = {}
<1>1. PICK b : b = Blank
  OBVIOUS
<1>2. /\ DOMAIN b = Names
      /\ b.tabs = [x \in Panes |-> <<>>] /\ b.checked = [x \in Panes |-> Null]
      /\ b.pane = <<>> /\ b.path = <<>> /\ b.uninit = {} /\ b.views = <<>> /\ b.curr_tab = Null
      /\ b.pane_curr_tab = [x \in Panes |-> Null] /\ b.session2_open = FALSE
      /\ b.loaded = {} /\ b.events = <<>>
  BY <1>1 DEF Blank, Names
<1>3. Good(b) /\ \A x \in Panes : PathsIn(b, x) = <<>>
  BY <1>2, BlankIs
<1> QED BY <1>1, <1>2, <1>3

LEMMA FilesIs ==
    /\ Panes = {"xplorer", "xplorer2"}
    /\ SessionFile["xplorer"] = "session.json" /\ SessionFile["xplorer2"] = "session2.json"
BY DEF Panes, SessionFile

LEMMA QueueIs ==
    ASSUME NEW q \in Queues, q # <<>>
    PROVE  /\ Head(q) \in Files /\ Tail(q) \in Queues /\ Range(q) = {Head(q)} \cup Range(Tail(q))
           /\ Range(q) \subseteq Files
<1>1. CASE q = <<"session.json", "session2.json", "setting.json">>
  <2>1. Head(q) = "session.json" /\ Tail(q) = <<"session2.json", "setting.json">>
    BY <1>1
  <2>2. Range(q) = {"session.json", "session2.json", "setting.json"}
    BY <1>1 DEF Range
  <2>3. Range(<<"session2.json", "setting.json">>) = {"session2.json", "setting.json"}
    BY DEF Range
  <2> QED BY <2>1, <2>2, <2>3 DEF Files, Queues
<1>2. CASE q = <<"session2.json", "setting.json">>
  <2>1. Head(q) = "session2.json" /\ Tail(q) = <<"setting.json">>
    BY <1>2
  <2>2. Range(q) = {"session2.json", "setting.json"}
    BY <1>2 DEF Range
  <2>3. Range(<<"setting.json">>) = {"setting.json"}
    BY DEF Range
  <2> QED BY <2>1, <2>2, <2>3 DEF Files, Queues
<1>3. CASE q = <<"setting.json">>
  <2>1. Head(q) = "setting.json" /\ Tail(q) = <<>>
    BY <1>3
  <2>2. Range(q) = {"setting.json"} /\ Range(<<>>) = {}
    BY <1>3 DEF Range
  <2> QED BY <2>1, <2>2 DEF Files, Queues
<1> QED BY <1>1, <1>2, <1>3 DEF Queues

LEMMA ClickedInView ==
    ASSUME NEW s, Good(s), NEW x \in Panes, NEW t, t = s.checked[x], t \in Shown(s, x), Alive(s, t),
           NEW r, r = Report(s, "active", t)
    PROVE  Good(r) /\ r.loaded = s.loaded
<1>1. Typed(s) /\ Placed(s)
  BY DEF Good
<1>2. PICK p : p = s.views[t] /\ p \in Folders
  <2>1. t \in 1 .. Len(s.path) /\ s.views \in Seq(Somewhere) /\ Len(s.views) = Len(s.path)
    BY <1>1 DEF Typed, Placed, Known
  <2> QED BY <2>1 DEF Alive, Somewhere
<1>3. s.views = [s.views EXCEPT ![t] = p]
  <2>1. s.views \in Seq(Somewhere)
    BY <1>1 DEF Typed
  <2>2. s.views \in [1 .. Len(s.views) -> Somewhere]
    BY <2>1
  <2> QED BY <1>2, <2>2
<1>4. Went(s, s, t, p)
  BY <1>1, <1>3 DEF Went, Typed
<1>5. PICK kind, c : kind = "active" /\ c = s
  OBVIOUS
<1>6. /\ p \in Folders /\ kind \in {"open", "active"} /\ (kind = "active" => p = s.views[t])
      /\ Went(s, c, t, p) /\ r = Report(c, kind, t)
  BY <1>2, <1>4, <1>5
<1> QED BY <1>6, ReportGood

\* The user, whatever is done: the panes stay loaded.
LEMMA UserGood ==
    ASSUME IInv, User
    PROVE  /\ Good(ui') /\ ui'.loaded = ui.loaded
           /\ phase = "on" /\ UNCHANGED <<phase, left, disk, shut>>
<1>1. PICK s, r : s = ui /\ r = ui'
  OBVIOUS
<1>2. PICK sess : sess = <<>>
  OBVIOUS
<1>3. Good(s) /\ sess \in Seq(Folders) \cup {Broken}
  BY <1>1, <1>2 DEF IInv
<1>4. /\ Typed(s) /\ Placed(s) /\ Viewed(s) /\ Followed(s) /\ SessionsOK(s)
      /\ \A y \in Panes : PaneOK(s, y) /\ PaneOK(s, Other(y))
  BY <1>3, OtherPane DEF Good
<1>5. phase = "on" /\ UNCHANGED <<phase, left, disk, shut>>
  BY DEF User, UserClicksTab, UserInView, UserMakesTab, UserDuplicatesTab, UserClosesTab,
         UserClosesPaneTab, UserGesture, UserMakesCurrentTab, UserShowsPanes, UserIn
<1>6. ASSUME NEW x \in Panes, NEW t \in Shown(s, x), r = Press(s, x, t)
      PROVE  Good(r) /\ r.loaded = s.loaded
  <2>1. PaneOK(s, Other(x))
    BY <1>4
  <2>2. Good(r) /\ Clicked(s, r, x, t)
    BY <1>4, <1>6, <2>1, PressGood
  <2> QED BY <2>2 DEF Clicked
<1>7. ASSUME NEW x \in Panes, NEW p \in Folders, r = NewTabView(s, x, p)
      PROVE  Good(r) /\ r.loaded = s.loaded
  <2>1. PaneOK(s, Other(x))
    BY <1>4
  <2> QED BY <1>4, <1>7, <2>1, NewTabViewGood
<1>8. \A y : CurrXplorer(y) \in Panes
  BY DEF CurrXplorer, Panes
<1>9. ASSUME NEW x \in Panes, UserClicksTab(x)
      PROVE  Good(r) /\ r.loaded = s.loaded
  BY <1>1, <1>6, <1>9 DEF UserClicksTab, Shown
<1>10. ASSUME NEW x \in Panes, UserInView(x)
       PROVE  Good(r) /\ r.loaded = s.loaded
  <2>1. PICK t : t = s.checked[x]
    OBVIOUS
  <2>2. t \in Shown(s, x) /\ Alive(s, t)
    BY <1>1, <1>10, <2>1 DEF UserInView, Shown, Alive
  <2>4. CASE r = Report(s, "active", t)
    <3>1. Good(s) /\ t = s.checked[x] /\ t \in Shown(s, x) /\ Alive(s, t)
      BY <1>3, <2>1, <2>2
    <3> QED BY <2>4, <3>1, ClickedInView
  <2>5. ASSUME NEW p \in Folders, r = Report([s EXCEPT !.views[t] = p], "open", t)
        PROVE  Good(r) /\ r.loaded = s.loaded
    <3>1. PICK c : c = [s EXCEPT !.views[t] = p]
      OBVIOUS
    <3>2. Went(s, c, t, p) /\ r = Report(c, "open", t)
      BY <1>4, <2>5, <3>1 DEF Went, Typed, Names
    <3>3. Good(s) /\ t = s.checked[x] /\ t \in Shown(s, x) /\ Alive(s, t)
          /\ "open" \in {"open", "active"} /\ "open" # "active"
      BY <1>3, <2>1, <2>2
    <3> QED BY <3>2, <3>3, ReportGood
  <2> QED BY <1>1, <1>10, <2>1, <2>4, <2>5 DEF UserInView
<1>11. ASSUME NEW x \in Panes, UserMakesTab(x)
       PROVE  Good(r) /\ r.loaded = s.loaded
  BY <1>1, <1>7, <1>11, ExplorerTabsAssumption DEF UserMakesTab
<1>12. ASSUME UserMakesCurrentTab
       PROVE  Good(r) /\ r.loaded = s.loaded
  BY <1>1, <1>7, <1>8, <1>12, ExplorerTabsAssumption DEF UserMakesCurrentTab
<1>13. ASSUME NEW x \in Panes, UserDuplicatesTab(x)
       PROVE  Good(r) /\ r.loaded = s.loaded
  <2>1. PICK t \in Shown(s, x) : r = NewTabView(s, x, s.path[t])
    BY <1>1, <1>13 DEF UserDuplicatesTab, Shown
  <2>2. t \in 1 .. Len(s.path) /\ s.path \in Seq(Folders)
    BY <1>4, <2>1 DEF Typed, Placed, Known
  <2>3. s.path[t] \in Folders
    BY <2>2
  <2> QED BY <1>7, <2>1, <2>3
<1>14. ASSUME NEW x \in Panes, NEW t, t = Null \/ (t \in Known(s) /\ s.pane[t] = x),
              r = CloseTab(s, x, t)
       PROVE  Good(r) /\ r.loaded = s.loaded
  BY <1>3, <1>14, CloseTabGood
<1>15. ASSUME NEW x \in Panes, UserClosesTab(x)
       PROVE  Good(r) /\ r.loaded = s.loaded
  <2>1. PICK t \in Shown(s, x) : r = CloseTab(s, x, t)
    BY <1>1, <1>15 DEF UserClosesTab, Shown
  <2>2. t \in Known(s) /\ s.pane[t] = x
    BY <1>4, <2>1 DEF Placed
  <2> QED BY <1>14, <2>1, <2>2
<1>16. ASSUME NEW x \in Panes, UserClosesPaneTab(x)
       PROVE  Good(r) /\ r.loaded = s.loaded
  <2>1. PICK t : t = s.pane_curr_tab[x] /\ r = CloseTab(s, x, t)
    BY <1>1, <1>16 DEF UserClosesPaneTab
  <2>2. t = Null \/ (t \in Known(s) /\ s.pane[t] = x)
    BY <1>4, <2>1 DEF Placed
  <2> QED BY <1>14, <2>1, <2>2
<1>17. ASSUME NEW x \in Panes, UserGesture(x)
       PROVE  Good(r) /\ r.loaded = s.loaded
  <2>1. PICK t : t = s.checked[x]
    OBVIOUS
  <2>2. PICK a : a = OnActive(s, [tab |-> t, path |-> s.views[t]], sess)
    OBVIOUS
  <2>3. /\ t \in Shown(s, x) /\ Alive(s, t) /\ s.session2_open /\ s.events = <<>>
        /\ r = CloseTab(a, x, a.curr_tab) \/ r = NewTabView(a, CurrXplorer(a), Computer)
    BY <1>1, <1>2, <1>17, <2>1, <2>2 DEF UserGesture, Shown, Alive
  <2>4. PICK b : b = Report(s, "active", t)
    OBVIOUS
  <2>5. Good(b) /\ b.loaded = s.loaded
    BY <1>3, <2>1, <2>3, <2>4, ClickedInView
  <2>6. PICK e : e = [kind |-> "active", tab |-> t, path |-> s.views[t]]
    OBVIOUS
  <2>7. /\ DOMAIN b = Names /\ b.events = <<e>>
        /\ b.tabs = s.tabs /\ b.pane = s.pane /\ b.path = s.path /\ b.views = s.views
        /\ b.uninit = s.uninit /\ b.checked = s.checked /\ b.dual = s.dual /\ b.loaded = s.loaded
        /\ b.curr_tab = s.curr_tab /\ b.pane_curr_tab = s.pane_curr_tab
        /\ b.session2_open = s.session2_open
    <3>1. DOMAIN s = Names
      BY <1>4 DEF Typed
    <3>2. b.events = Append(<<>>, e)
      BY <2>3, <2>4, <2>6, <3>1, ReportIs
    <3>3. b.events = <<e>>
      BY <3>2
    <3> QED BY <2>4, <3>1, <3>3 DEF Report, Names
  <2>8. Rest(b, s)
    <3>1. Tail(<<e>>) = <<>>
      OBVIOUS
    <3> QED BY <1>4, <2>3, <2>7, <3>1 DEF Rest, Typed
  <2>9. a = OnActive(s, e, sess)
    BY <2>2, <2>6 DEF OnActive
  <2>10. e = b.events[1] /\ e.kind = "active" /\ e.tab = t /\ b.events # <<>>
    BY <2>6, <2>7
  <2>11. /\ Good(a)
         /\ (b.session2_open /\ Alive(b, e.tab)) =>
               /\ a.curr_tab = e.tab /\ a.pane = b.pane /\ a.path = b.path
               /\ a.loaded = b.loaded
    <3>1. /\ Good(b) /\ b.events # <<>> /\ e = b.events[1] /\ e.kind = "active" /\ Rest(b, s)
          /\ sess \in Seq(Folders) \cup {Broken}
      BY <1>3, <2>5, <2>8, <2>10
    <3>2. Activated(a, s, e, sess)
      BY <2>9 DEF Activated
    <3> QED BY <3>1, <3>2, OnActiveGood
  <2>12. a.curr_tab = t /\ a.pane = s.pane /\ a.path = s.path /\ a.loaded = s.loaded
    BY <2>3, <2>7, <2>10, <2>11 DEF Alive
  <2>13. CASE r = CloseTab(a, x, a.curr_tab)
    <3>1. t \in Known(a) /\ a.pane[t] = x
      BY <1>4, <2>3, <2>12 DEF Placed, Known
    <3> QED BY <2>11, <2>12, <2>13, <3>1, CloseTabGood
  <2>14. CASE r = NewTabView(a, CurrXplorer(a), Computer)
    <3>1. PICK y \in Panes : r = NewTabView(a, y, Computer)
      BY <1>8, <2>14
    <3>2. Typed(a) /\ Placed(a) /\ Viewed(a) /\ Followed(a) /\ SessionsOK(a)
          /\ PaneOK(a, Other(y)) /\ Computer \in Folders
      BY <2>11, OtherPane, ExplorerTabsAssumption DEF Good
    <3>3. Good(r) /\ r.loaded = a.loaded
      BY <3>1, <3>2, NewTabViewGood
    <3> QED BY <2>12, <3>3
  <2> QED BY <2>3, <2>13, <2>14
<1>18. ASSUME UserShowsPanes
       PROVE  Good(r) /\ r.loaded = s.loaded
  <2>1. r = [s EXCEPT !.visible2 = ~@, !.dual = IF @ = Null THEN @ ELSE ~s.visible2]
    BY <1>1, <1>18 DEF UserShowsPanes
  <2>2. r.dual = IF s.dual = Null THEN s.dual ELSE ~s.visible2
    BY <1>4, <2>1 DEF Typed, Names
  <2>3. r.dual = Null <=> s.dual = Null
    <3>1. (~s.visible2) # Null
      BY ExplorerTabsAssumption
    <3> QED BY <2>2, <3>1
  <2>4. Alike(s, r) /\ r.loaded = s.loaded /\ r.session2_open = s.session2_open
    BY <1>4, <2>1, <2>3 DEF Alike, Typed, Names
  <2>5. SessionsOK(r)
    BY <1>4, <2>4 DEF SessionsOK, Alike
  <2> QED BY <1>3, <2>4, <2>5, AlikeKeeps DEF Good
<1>19. Good(r) /\ r.loaded = s.loaded
  BY <1>9, <1>10, <1>11, <1>12, <1>13, <1>15, <1>16, <1>17, <1>18 DEF User
<1> QED BY <1>1, <1>5, <1>19

\* An event, in terms of a state without it.
LEMMA EventGood ==
    ASSUME IInv, Event
    PROVE  /\ Good(ui') /\ phase = "on" /\ UNCHANGED <<phase, left, disk>>
           /\ ui'.loaded # ui.loaded => \A x \in Panes : x \in shut' \/ Desk(x)' = Desk(x)
<1>0. PICK sess \in Sessions("xplorer2") :
        /\ ui' = IF Head(ui.events).kind = "open"
                   THEN OnOpen([ui EXCEPT !.events = Tail(@)], Head(ui.events))
                   ELSE OnActive([ui EXCEPT !.events = Tail(@)], Head(ui.events), sess)
        /\ shut' = IF ui'.loaded = ui.loaded THEN shut
                   ELSE Tried("xplorer2", sess = disk["session2.json"])
  BY DEF Event
<1>1. PICK s, r : s = ui /\ r = ui'
  OBVIOUS
<1>2. Good(s) /\ sess \in Seq(Folders) \cup {Broken} /\ s.events \in Seq(Reports) /\ DOMAIN s = Names
  <2>1. Good(s) /\ s.events \in Seq(Reports) /\ DOMAIN s = Names
    BY <1>1 DEF IInv, Good, Typed
  <2>2. disk["session2.json"] \in Seq(Folders) \cup {Broken} /\ <<>> \in Seq(Folders)
    BY FilesIs DEF IInv, DiskOK
  <2> QED BY <1>0, <2>1, <2>2, FilesIs DEF Sessions
<1>3. phase = "on" /\ s.events # <<>> /\ UNCHANGED <<phase, left, disk>>
  BY <1>1 DEF Event
<1>4. PICK e, w : e = s.events[1] /\ w = [s EXCEPT !.events = Tail(@)]
  OBVIOUS
<1>5. Head(s.events) = e
  BY <1>2, <1>3, <1>4
<1>6. Rest(s, w)
  BY <1>2, <1>4 DEF Rest, Names
<1>7. /\ r = IF e.kind = "open" THEN OnOpen(w, e) ELSE OnActive(w, e, sess)
      /\ shut' = IF r.loaded = s.loaded THEN shut ELSE Tried("xplorer2", sess = disk["session2.json"])
  BY <1>0, <1>1, <1>4, <1>5
<1>8. e.kind = "open" \/ e.kind = "active"
  <2>1. Good(s) /\ s.events # <<>> /\ e = s.events[1]
    BY <1>2, <1>3, <1>4
  <2>2. e \in Reports
    BY <2>1, FirstEvent
  <2> QED BY <2>2 DEF Reports
<1>9. CASE e.kind = "open"
  <2>1. r = OnOpen(w, e)
    BY <1>7, <1>9
  <2>2. Good(r) /\ r.loaded = s.loaded
    BY <1>2, <1>3, <1>4, <1>6, <1>9, <2>1, OnOpenGood
  <2> QED BY <1>1, <1>3, <2>2
<1>10. CASE e.kind = "active"
  <2>1. r = OnActive(w, e, sess)
    BY <1>7, <1>10
  <2>2. /\ Good(r)
        /\ Took(s, r, sess)
    <3>1. /\ Good(s) /\ s.events # <<>> /\ e = s.events[1] /\ e.kind = "active" /\ Rest(s, w)
          /\ sess \in Seq(Folders) \cup {Broken}
      BY <1>1, <1>2, <1>3, <1>4, <1>6, <1>10
    <3>2. Activated(r, w, e, sess)
      BY <2>1 DEF Activated
    <3> QED BY <3>1, <3>2, OnActiveGood
  <2>3. ASSUME r.loaded # s.loaded, NEW x \in Panes, x \notin shut'
        PROVE  Desk(x)' = Desk(x)
    <3>1. /\ r.loaded = s.loaded \cup {"xplorer2"}
          /\ PathsIn(r, "xplorer2") = PathsIn(s, "xplorer2") \o Restored(sess)
          /\ PathsIn(r, "xplorer") = PathsIn(s, "xplorer")
          /\ "xplorer2" \notin s.loaded
      BY <2>2, <2>3 DEF Took
    <3>2. PICK file : file = disk[SessionFile[x]]
      OBVIOUS
    <3>3. Desk(x) = PathsIn(s, x) \o (IF x \in s.loaded THEN <<>> ELSE Restored(file))
      BY <1>1, <3>2 DEF Desk, PathsOf, PathsIn, Restored
    <3>4. Desk(x)' = PathsIn(r, x) \o (IF x \in r.loaded THEN <<>> ELSE Restored(file))
      BY <1>1, <1>3, <3>2 DEF Desk, PathsOf, PathsIn, Restored
    <3>5. CASE x = "xplorer2"
      <4>1. PathsIn(r, x) \in Seq(Folders)
        BY <2>2, PathsType DEF Good
      <4>2. file = sess
        <5>1. sess = disk["session2.json"]
          BY <1>7, <2>3, <3>5 DEF Tried
        <5> QED BY <3>2, <3>5, <5>1, FilesIs
      <4>3. PathsIn(r, x) \o <<>> = PathsIn(r, x)
        BY <4>1, ConcatEmptySeq
      <4> QED BY <3>1, <3>3, <3>4, <3>5, <4>2, <4>3
    <3>6. CASE x = "xplorer"
      BY <3>1, <3>3, <3>4, <3>6
    <3> QED BY <3>5, <3>6, FilesIs
  <2> QED BY <1>1, <1>3, <2>2, <2>3
<1> QED BY <1>8, <1>9, <1>10

LEMMA OnStep ==
    ASSUME IInv, phase = "on", UNCHANGED <<phase, left, disk>>, Good(ui')
    PROVE  IInv'
<1>1. DiskOK'
  BY DEF IInv, DiskOK
<1> QED BY <1>1 DEF IInv

LEMMA StartGood ==
    ASSUME IInv, Start
    PROVE  IInv' /\ \A x \in Panes : x \in shut' \/ Desk(x)' = Desk(x)
<1>0. PICK d \in {disk["setting.json"], TRUE}, sess \in Sessions("xplorer") :
        \/ d = Broken /\ ui' = Blank
        \/ /\ ui' = LoadSession([Blank EXCEPT !.dual = d], "xplorer", sess)
           /\ shut' = IF sess = disk["session.json"] THEN {} ELSE {"xplorer"}
  BY DEF Start
<1>1. PICK b, r : b = Blank /\ r = ui'
  OBVIOUS
<1>2. /\ phase = "off" /\ phase' = "on" /\ left' = left /\ disk' = disk /\ ui = b
      /\ sess \in Seq(Folders) \cup {Broken} /\ left = <<>> /\ Good(b)
      /\ (\A x \in Panes : PathsIn(b, x) = <<>>) /\ b.loaded = {}
  <2>1. disk["session.json"] \in Seq(Folders) \cup {Broken} /\ <<>> \in Seq(Folders)
    BY FilesIs DEF IInv, DiskOK
  <2>2. sess \in Seq(Folders) \cup {Broken}
    BY <1>0, <2>1, FilesIs DEF Sessions
  <2>3. phase = "off" /\ phase' = "on" /\ left' = left /\ disk' = disk /\ ui = b /\ left = <<>>
    BY <1>1 DEF IInv, DiskOK, Start
  <2> QED BY <1>1, <2>2, <2>3, BlankGood
<1>3. \/ r = b
      \/ /\ Good(r) /\ r.loaded = {"xplorer"}
         /\ PathsIn(r, "xplorer") = Restored(sess) /\ PathsIn(r, "xplorer2") = <<>>
         /\ shut' = IF sess = disk["session.json"] THEN {} ELSE {"xplorer"}
  <2>1. CASE ui' = Blank
    BY <1>1, <2>1
  <2>2. CASE /\ ui' = LoadSession([Blank EXCEPT !.dual = d], "xplorer", sess)
             /\ shut' = IF sess = disk["session.json"] THEN {} ELSE {"xplorer"}
    <3>2. PICK s : s = [Blank EXCEPT !.dual = d]
      OBVIOUS
    <3>3. r = LoadSession(s, "xplorer", sess)
      BY <1>1, <2>2, <3>2
    <3>4. /\ DOMAIN s = Names
          /\ s.tabs = [x \in Panes |-> <<>>] /\ s.checked = [x \in Panes |-> Null]
          /\ s.pane = <<>> /\ s.path = <<>> /\ s.uninit = {} /\ s.views = <<>> /\ s.curr_tab = Null
          /\ s.pane_curr_tab = [x \in Panes |-> Null] /\ s.session2_open = FALSE
          /\ s.loaded = {} /\ s.events = <<>>
      BY <3>2 DEF Blank, Names
    <3>5. Good(s) /\ \A x \in Panes : PathsIn(s, x) = <<>>
      BY <3>4, BlankIs
    <3>6. "xplorer" \in Panes /\ "xplorer2" \in Panes \ {"xplorer"}
      BY DEF Panes
    <3>7. /\ Typed(s) /\ Placed(s) /\ Viewed(s) /\ Followed(s) /\ PaneOK(s, Other("xplorer"))
          /\ s.session2_open => s.dual # Null
          /\ "xplorer2" \in s.loaded \cup {"xplorer"} => s.session2_open
          /\ sess = Broken => PaneOK(s, "xplorer") /\ CurrentOK(s)
      BY <3>4, <3>5, <3>6, OtherPane DEF Good
    <3>8. /\ Good(r) /\ r.loaded = s.loaded \cup {"xplorer"}
          /\ PathsIn(r, "xplorer") = PathsIn(s, "xplorer") \o Restored(sess)
          /\ \A y \in Panes \ {"xplorer"} : PathsIn(r, y) = PathsIn(s, y)
      BY <1>2, <3>3, <3>6, <3>7, LoadSessionGood
    <3>9. Restored(sess) \in Seq(Folders)
      BY <1>2, ExplorerTabsAssumption DEF Restored
    <3>10. <<>> \o Restored(sess) = Restored(sess)
      BY <3>9, ConcatEmptySeq
    <3> QED BY <2>2, <3>4, <3>5, <3>6, <3>8, <3>10
  <2> QED BY <1>0, <2>1, <2>2
<1>4. IInv'
  <2>1. Good(r)
    BY <1>2, <1>3
  <2>2. DiskOK'
    BY <1>2 DEF IInv, DiskOK
  <2> QED BY <1>1, <1>2, <2>1, <2>2 DEF IInv
<1>5. ASSUME NEW x \in Panes, x \notin shut'
      PROVE  Desk(x)' = Desk(x)
  <2>1. PICK file : file = disk[SessionFile[x]]
    OBVIOUS
  <2>2. Desk(x) = PathsIn(b, x) \o (IF x \in b.loaded THEN <<>> ELSE Restored(file))
    BY <1>2, <2>1 DEF Desk, PathsOf, PathsIn, Restored
  <2>3. Desk(x)' = PathsIn(r, x) \o (IF x \in r.loaded THEN <<>> ELSE Restored(file))
    BY <1>1, <1>2, <2>1 DEF Desk, PathsOf, PathsIn, Restored
  <2>4. CASE r = b
    BY <2>2, <2>3, <2>4
  <2>5. CASE r # b
    <3>1. /\ Good(r) /\ r.loaded = {"xplorer"}
          /\ PathsIn(r, "xplorer") = Restored(sess) /\ PathsIn(r, "xplorer2") = <<>>
          /\ shut' = IF sess = disk["session.json"] THEN {} ELSE {"xplorer"}
      BY <1>3, <2>5
    <3>2. CASE x = "xplorer"
      <4>1. Restored(sess) \in Seq(Folders) /\ file = sess
        <5>1. sess = disk["session.json"]
          BY <1>5, <3>1, <3>2
        <5> QED BY <1>2, <2>1, <3>2, <5>1, FilesIs, ExplorerTabsAssumption DEF Restored
      <4>2. Restored(sess) \o <<>> = Restored(sess) /\ <<>> \o Restored(sess) = Restored(sess)
        BY <4>1, ConcatEmptySeq
      <4> QED BY <1>2, <2>2, <2>3, <3>1, <3>2, <4>1, <4>2
    <3>3. CASE x = "xplorer2"
      BY <1>2, <2>2, <2>3, <3>1, <3>3
    <3> QED BY <3>2, <3>3, FilesIs
  <2> QED BY <2>4, <2>5
<1> QED BY <1>4, <1>5

LEMMA OnCloseGood ==
    ASSUME IInv, OnClose
    PROVE  IInv'
<1>1. PICK q : q = <<"session.json", "session2.json", "setting.json">>
  OBVIOUS
<1>2. phase' \in {"saving", "ending"} /\ left' = q /\ UNCHANGED <<disk, ui>>
  BY <1>1 DEF OnClose
<1>3. q \in Queues /\ \A x \in Panes : SessionFile[x] \in Range(q)
  <2>1. q \in Queues /\ Range(q) = Files
    BY <1>1 DEF Queues, Range, Files
  <2> QED BY <2>1, FilesIs DEF Files
<1>4. DiskOK'
  BY <1>2, <1>3 DEF IInv, DiskOK
<1> QED BY <1>2, <1>4 DEF IInv

\* While on_close writes, a pane that is loaded has on the desk what it has.
LEMMA SaveFileGood ==
    ASSUME IInv, SaveFile
    PROVE  /\ IInv' /\ phase \in {"saving", "ending"}
           /\ \A x \in Panes : x \in ui.loaded => Desk(x)' = Desk(x)
<1>1. PICK q, f, c : q = left /\ f = Head(left) /\ c = Content(Head(left))
  OBVIOUS
<1>2. /\ phase \in {"saving", "ending"} /\ q # <<>> /\ UNCHANGED <<phase, ui>>
      /\ \/ disk' = [disk EXCEPT ![f] = c] /\ shut' = {x \in shut : SessionFile[x] # f}
         \/ disk' = disk /\ shut' = shut \cup {x \in Panes : SessionFile[x] = f}
      /\ left' = Tail(q)
  BY <1>1 DEF SaveFile, Written
<1>3. q \in Queues /\ DOMAIN disk = Files
  BY <1>1, <1>2 DEF IInv, DiskOK
<1>4. f \in Files /\ left' \in Queues /\ Range(q) = {f} \cup Range(left')
  BY <1>1, <1>2, <1>3, QueueIs
<1>5. DOMAIN disk' = Files /\ \A g \in Files \ {f} : disk'[g] = disk[g]
  BY <1>2, <1>3, <1>4
<1>6. ASSUME NEW x \in Panes
      PROVE  /\ disk'[SessionFile[x]] \in Seq(Folders) \cup {Broken}
             /\ \/ SessionFile[x] \in Range(left') \/ x \in shut'
                \/ disk'[SessionFile[x]] = PathsIn(ui, x)
  <2>1. SessionFile[x] \in Files /\ Content(SessionFile[x]) = PathsIn(ui, x)
    BY FilesIs DEF Content, PathsOf, PathsIn, Files
  <2>2. PathsIn(ui, x) \in Seq(Folders)
    BY PathsType DEF IInv, Good
  <2>3. /\ disk[SessionFile[x]] \in Seq(Folders) \cup {Broken}
        /\ \/ SessionFile[x] \in Range(q) \/ x \in shut
           \/ disk[SessionFile[x]] = PathsIn(ui, x)
    BY <1>1, <1>2 DEF IInv, DiskOK, PathsIn
  <2>4. CASE f # SessionFile[x]
    <3>1. x \in shut => x \in shut'
      BY <1>2, <2>4
    <3> QED BY <1>4, <1>5, <2>1, <2>3, <2>4, <3>1
  <2>5. CASE f = SessionFile[x]
    <3>1. CASE disk' = [disk EXCEPT ![f] = c]
      BY <1>1, <1>3, <1>4, <2>1, <2>2, <2>5, <3>1
    <3>2. CASE disk' = disk /\ shut' = shut \cup {y \in Panes : SessionFile[y] = f}
      BY <2>3, <2>5, <3>2
    <3> QED BY <1>2, <3>1, <3>2
  <2> QED BY <2>4, <2>5
<1>7. DiskOK'
  <2>1. \A x \in Panes : PathsIn(ui, x) = [i \in DOMAIN ui'.tabs[x] |-> ui'.path[ui'.tabs[x][i]]]
    BY <1>2 DEF PathsIn
  <2>2. phase' \in {"saving", "ending"}
    BY <1>2
  <2> QED BY <1>4, <1>5, <1>6, <2>1, <2>2 DEF DiskOK
<1>8. IInv'
  BY <1>2, <1>7 DEF IInv
<1>9. ASSUME NEW x \in Panes, x \in ui.loaded
      PROVE  Desk(x)' = Desk(x)
  BY <1>2, <1>9 DEF Desk, PathsOf
<1> QED BY <1>2, <1>8, <1>9

\* The program ends once on_close has written everything: what a loaded pane with tabs had
\* is in its file, if that opened.
LEMMA Ended ==
    ASSUME IInv, phase = "ending", left = <<>>, ui' = Blank, disk' = disk,
           NEW x \in Panes, x \in ui.loaded, ui.tabs[x] # <<>>, x \notin shut
    PROVE  Desk(x)' = Desk(x)
<1>1. PICK a, b, file : a = PathsIn(ui, x) /\ b = Blank /\ file = disk[SessionFile[x]]
  OBVIOUS
<1>2. a \in Seq(Folders) /\ Len(a) = Len(ui.tabs[x]) /\ ui.tabs[x] \in Seq(Nat)
  BY <1>1, PathsType DEF IInv, Good, Typed
<1>3. a # <<>>
  BY <1>2
<1>4. file = a
  <2>1. Range(left) = {}
    BY DEF Range
  <2> QED BY <1>1, <2>1 DEF IInv, DiskOK, PathsIn
<1>5. Restored(file) = a
  BY <1>2, <1>3, <1>4, ExplorerTabsAssumption DEF Restored
<1>6. Desk(x) = a \o <<>>
  BY <1>1 DEF Desk, PathsOf, PathsIn
<1>7. Desk(x)' = PathsIn(b, x) \o Restored(file)
  <2>1. x \notin b.loaded
    BY <1>1, BlankGood
  <2> QED BY <1>1, <2>1 DEF Desk, PathsOf, PathsIn, Restored
<1>8. PathsIn(b, x) = <<>>
  BY <1>1, BlankGood
<1>9. a \o <<>> = a /\ <<>> \o a = a
  BY <1>2, ConcatEmptySeq
<1> QED BY <1>5, <1>6, <1>7, <1>8, <1>9

LEMMA SaveEndsGood ==
    ASSUME IInv, SaveEnds
    PROVE  /\ IInv' /\ phase \in {"saving", "ending"}
           /\ \A x \in Panes :
                 (x \in ui.loaded /\ ui.tabs[x] # <<>>) => x \in shut' \/ Desk(x)' = Desk(x)
<1>1. left = <<>> /\ left' = left /\ disk' = disk /\ shut' = shut
  BY DEF SaveEnds
<1>2. CASE phase = "saving" /\ phase' = "on" /\ ui' = ui
  <2>1. DiskOK'
    BY <1>1, <1>2 DEF IInv, DiskOK
  <2>2. \A x \in Panes : Desk(x)' = Desk(x)
    BY <1>1, <1>2 DEF Desk, PathsOf
  <2> QED BY <1>2, <2>1, <2>2 DEF IInv
<1>3. CASE phase = "ending" /\ phase' = "off" /\ ui' = Blank
  <2>1. DiskOK'
    BY <1>1, <1>3 DEF IInv, DiskOK
  <2>2. PICK b : b = Blank /\ Good(b)
    BY BlankGood
  <2>3. IInv'
    BY <1>3, <2>1, <2>2 DEF IInv
  <2> QED BY <1>1, <1>3, <2>3, Ended
<1> QED BY <1>2, <1>3 DEF SaveEnds

LEMMA KillGood ==
    ASSUME IInv, Kill
    PROVE  /\ IInv'
           /\ \/ Killed
              \/ /\ phase = "ending"
                 /\ \A x \in Panes :
                       (x \in ui.loaded /\ ui.tabs[x] # <<>>) => x \in shut' \/ Desk(x)' = Desk(x)
<1>1. phase' = "off" /\ left' = <<>> /\ ui' = Blank /\ shut' = shut
  BY DEF Kill
<1>2. PICK b : b = Blank /\ Good(b)
  BY BlankGood
<1>3. DOMAIN disk' = Files /\ \A x \in Panes : disk'[SessionFile[x]] \in Seq(Folders) \cup {Broken}
  <2>1. CASE left = <<>>
    BY <2>1 DEF Kill, IInv, DiskOK
  <2>2. CASE left # <<>>
    <3>1. PICK f, c : f = Head(left) /\ c \in CutOff(f) /\ disk' = [disk EXCEPT ![f] = c]
      BY <2>2 DEF Kill
    <3>2. left \in Queues /\ DOMAIN disk = Files
      BY <2>2 DEF IInv, DiskOK
    <3>3. f \in Files
      BY <2>2, <3>1, <3>2, QueueIs
    <3>4. DOMAIN disk' = Files /\ disk'[f] = c /\ \A g \in Files \ {f} : disk'[g] = disk[g]
      BY <3>1, <3>2, <3>3
    <3>5. ASSUME NEW x \in Panes
          PROVE  disk'[SessionFile[x]] \in Seq(Folders) \cup {Broken}
      <4>1. SessionFile[x] \in Files /\ SessionFile[x] # "setting.json"
        BY FilesIs DEF Files
      <4>2. disk[SessionFile[x]] \in Seq(Folders) \cup {Broken}
        BY DEF IInv, DiskOK
      <4>3. CASE f = SessionFile[x]
        <5>1. c \in {disk[f], Broken, <<>>}
          BY <3>1, <4>1, <4>3 DEF CutOff
        <5>2. <<>> \in Seq(Folders)
          OBVIOUS
        <5> QED BY <3>4, <4>2, <4>3, <5>1, <5>2
      <4>4. CASE f # SessionFile[x]
        BY <3>4, <4>1, <4>2, <4>4
      <4> QED BY <4>3, <4>4
    <3> QED BY <3>4, <3>5
  <2> QED BY <2>1, <2>2
<1>4. DiskOK'
  BY <1>1, <1>3 DEF DiskOK
<1>5. IInv'
  BY <1>1, <1>2, <1>4 DEF IInv
<1>6. CASE phase = "ending" /\ left = <<>>
  <2>1. disk' = disk
    BY <1>6 DEF Kill
  <2> QED BY <1>1, <1>5, <1>6, <2>1, Ended
<1>7. CASE ~(phase = "ending" /\ left = <<>>)
  BY <1>1, <1>5, <1>7 DEF Killed
<1> QED BY <1>6, <1>7

-----------------------------------------------------------------------------
\* The invariant, and the properties.
LEMMA InitHolds == Init => IInv
<1> SUFFICES ASSUME Init
             PROVE  IInv
  OBVIOUS
<1>1. phase = "off" /\ left = <<>> /\ ui = Blank
  BY DEF Init
<1>2. DOMAIN disk = Files /\ \A x \in Panes : disk[SessionFile[x]] \in Seq(Folders) \cup {Broken}
  BY ExplorerTabsAssumption DEF Init
<1>5. DiskOK
  BY <1>1, <1>2 DEF DiskOK
<1> QED BY <1>1, <1>5, BlankGood DEF IInv

LEMMA NextHolds == IInv /\ [Next]_vars => IInv'
<1> SUFFICES ASSUME IInv, [Next]_vars
             PROVE  IInv'
  OBVIOUS
<1>1. CASE Event
  BY <1>1, EventGood, OnStep
<1>2. CASE User
  BY <1>2, UserGood, OnStep
<1>3. CASE Start
  BY <1>3, StartGood
<1>4. CASE OnClose
  BY <1>4, OnCloseGood
<1>5. CASE SaveFile
  BY <1>5, SaveFileGood
<1>6. CASE SaveEnds
  BY <1>6, SaveEndsGood
<1>7. CASE Kill
  BY <1>7, KillGood
<1>8. CASE UNCHANGED vars
  <2>1. DiskOK'
    BY <1>8 DEF vars, IInv, DiskOK
  <2> QED BY <1>8, <2>1 DEF vars, IInv
<1> QED BY <1>1, <1>2, <1>3, <1>4, <1>5, <1>6, <1>7, <1>8 DEF Next

LEMMA Invariant == Spec => []IInv
<1> QED BY InitHolds, NextHolds, PTL DEF Spec

LEMMA TabsIs ==
    ASSUME IInv, NEW t
    PROVE  t \in Tabs <=> \E x \in Panes : t \in Shown(ui, x)
BY DEF Tabs, Shown

\* Every tab that was ever shown has its view, and no view is left behind by a tab that was
\* closed (click_tab, new_tab_view and close_tab of skin.js), for any folders, any number
\* of tabs and whatever is clicked before the native program reports.
THEOREM ViewsOfTabs == Spec => []OneViewPerTab
<1>1. IInv => OneViewPerTab
  <2> SUFFICES ASSUME IInv, NEW t \in DOMAIN ui.views
               PROVE  ui.views[t] # Null <=> t \in Tabs \ ui.uninit
    BY DEF OneViewPerTab
  <2>1. Placed(ui) /\ Viewed(ui) /\ Typed(ui)
    BY DEF IInv, Good
  <2>2. t \in Known(ui) /\ ui.pane[t] \in Panes
    <3>1. /\ ui.views \in Seq(Somewhere) /\ ui.pane \in Seq(Panes)
          /\ Len(ui.views) = Len(ui.path) /\ Len(ui.pane) = Len(ui.path)
      BY <2>1 DEF Typed
    <3> QED BY <3>1 DEF Known
  <2>3. Alive(ui, t) <=> t \in Shown(ui, ui.pane[t]) \ ui.uninit
    BY <2>1, <2>2 DEF Viewed
  <2>4. t \in Tabs <=> t \in Shown(ui, ui.pane[t])
    BY <2>1, <2>2, TabsIs DEF Placed
  <2> QED BY <2>3, <2>4 DEF Alive
<1> QED BY <1>1, Invariant, PTL

\* When no event about a tab is outstanding, its path is the folder its view shows (the
\* handlers open and active of init.js): a late "open" is noted for its own tab, and no
\* "active" undoes it.
THEOREM PathsFollowViews == Spec => []TabsFollowViews
<1>1. IInv => TabsFollowViews
  <2> SUFFICES ASSUME IInv, NEW t \in Tabs \ ui.uninit,
                      \A i \in DOMAIN ui.events : ui.events[i].tab # t
               PROVE  ui.path[t] = ui.views[t]
    BY DEF TabsFollowViews
  <2>1. Placed(ui) /\ Viewed(ui) /\ Typed(ui) /\ Followed(ui)
    BY DEF IInv, Good
  <2>2. PICK x \in Panes : t \in Shown(ui, x)
    BY TabsIs
  <2>3. t \in Known(ui) /\ Alive(ui, t)
    BY <2>1, <2>2 DEF Placed, Viewed
  <2>4. PICK m : m = Len(ui.events) /\ m \in Nat /\ DOMAIN ui.events = 1 .. m
    <3>1. ui.events \in Seq(Reports)
      BY <2>1 DEF Typed
    <3>2. Len(ui.events) \in Nat /\ DOMAIN ui.events = 1 .. Len(ui.events)
      BY <3>1
    <3> QED BY <3>2
  <2>5. Quiet(ui, t, 0, m + 1)
    <3>1. \A k \in 0 + 1 .. (m + 1) - 1 : k \in 1 .. m
      BY <2>4
    <3> QED BY <2>4, <3>1 DEF Quiet
  <2>6. 0 \in 0 .. m /\ Stop(ui, t, 0)
    BY <2>4 DEF Stop
  <2>7. PathAt(ui, t, 0) = ui.views[t]
    BY <2>1, <2>3, <2>4, <2>5, <2>6 DEF Followed
  <2> QED BY <2>7 DEF PathAt
<1> QED BY <1>1, Invariant, PTL

\* With both panes open and no event outstanding, copy_file and move_file of skin.js take the
\* folder the other pane shows, whatever was closed, restored or clicked before; with one
\* pane they take none.
THEOREM CopyTargetIsOther == Spec => []CopyGoesAcross
<1>1. IInv => CopyGoesAcross
  <2> SUFFICES ASSUME IInv, phase = "on", ui.events = <<>>, ui.dual # Null, ui.curr_tab \in Tabs
               PROVE  LET other == Other(ui.pane[ui.curr_tab])
                      IN  CopyTarget = IF ui.visible2 /\ ui.tabs[other] # <<>>
                                         THEN ui.views[ui.checked[other]] ELSE Null
    BY DEF CopyGoesAcross
  <2>1. /\ Placed(ui) /\ Viewed(ui) /\ Typed(ui) /\ Followed(ui) /\ CurrentOK(ui)
        /\ \A x \in Panes : PaneOK(ui, x)
    BY DEF IInv, Good
  <2>2. PICK c, x, y : c = ui.curr_tab /\ x \in Panes /\ c \in Shown(ui, x) /\ y = Other(x)
    BY TabsIs
  <2>3. c \in Known(ui) /\ ui.pane[c] = x /\ y \in Panes /\ y # x /\ c # Null
    <3>1. c \in Known(ui) /\ ui.pane[c] = x
      BY <2>1, <2>2 DEF Placed
    <3>2. c # Null
      BY <2>1, <3>1, ExplorerTabsAssumption DEF Known, Typed
    <3> QED BY <2>2, <3>1, <3>2, OtherPane
  <2>4. Len(ui.events) = 0
    OBVIOUS
  <2>5. ui.pane_curr_tab[x] = c
    BY <2>1, <2>2, <2>3, <2>4 DEF CurrentOK
  <2>6. \A t : t \in Tabs <=> \E z \in Panes : t \in Shown(ui, z)
    BY TabsIs
  <2>7. \A z \in Panes : \A t \in Shown(ui, z) : t \in Known(ui) /\ ui.pane[t] = z /\ t # Null
    BY <2>1, ExplorerTabsAssumption DEF Placed, Known, Typed
  <2>8. CASE ui.tabs[y] = <<>>
    <3>1. Shown(ui, y) = {}
      BY <2>8 DEF Shown, Range
    <3>2. PICK d : d = ui.pane_curr_tab[y] /\ (d = Null \/ ui.pane[d] = y)
      BY <2>1, <2>3 DEF Placed
    <3>3. d \notin Tabs
      BY <2>6, <2>7, <3>1, <3>2, OtherPane
    <3>4. CopyTarget = Null
      BY <2>3, <3>2, <3>3, FilesIs DEF CopyTarget, Visible
    <3> QED BY <2>2, <2>3, <2>8, <3>4
  <2>9. CASE ui.tabs[y] # <<>>
    <3>1. PICK d : d = ui.checked[y]
      OBVIOUS
    <3>2. d \in Shown(ui, y) /\ Alive(ui, d) /\ ui.pane_curr_tab[y] = d
      BY <2>1, <2>3, <2>4, <2>9, <3>1 DEF PaneOK
    <3>3. d \in Known(ui) /\ ui.pane[d] = y /\ d # Null /\ d \in Tabs /\ d # c
      BY <2>2, <2>3, <2>6, <2>7, <3>2
    <3>4. ui.path[d] = ui.views[d]
      <4>1. Quiet(ui, d, 0, 0 + 1) /\ Stop(ui, d, 0) /\ 0 \in 0 .. 0
        BY DEF Quiet, Stop
      <4>2. PathAt(ui, d, 0) = ui.views[d]
        BY <2>1, <2>4, <3>2, <3>3, <4>1 DEF Followed
      <4> QED BY <4>2 DEF PathAt
    <3>5. CopyTarget = IF ui.visible2 THEN ui.path[d] ELSE Null
      <4>1. CASE x = "xplorer" /\ y = "xplorer2"
        BY <2>2, <2>3, <2>5, <3>2, <3>3, <4>1 DEF CopyTarget, Visible, PaneVisible
      <4>2. CASE x = "xplorer2" /\ y = "xplorer"
        BY <2>2, <2>3, <2>5, <3>2, <3>3, <4>2 DEF CopyTarget, Visible, PaneVisible
      <4> QED BY <2>2, <2>3, <4>1, <4>2, FilesIs
    <3> QED BY <2>2, <2>3, <2>9, <3>1, <3>4, <3>5
  <2> QED BY <2>8, <2>9
<1> QED BY <1>1, Invariant, PTL

\* Starting, saving and ending the program leave every pane the tabs it had, for this run or
\* the next (load_session, save2file and on_close of skin.js), unless it is killed, the
\* file does not open, the pane has no tabs or its session was not loaded yet.
THEOREM SessionsSurvive == Spec => SessionSurvives
<1>1. IInv /\ [Next]_vars =>
        [\A x \in Panes :
            \/ Killed \/ x \in shut'
            \/ phase' = phase /\ left' = left /\ ui'.loaded = ui.loaded
            \/ phase \in {"saving", "ending"} /\ (x \notin ui.loaded \/ ui.tabs[x] = <<>>)
            \/ Desk(x)' = Desk(x)]_vars
  <2> SUFFICES ASSUME IInv, Next, NEW x \in Panes
               PROVE  \/ Killed \/ x \in shut'
                      \/ phase' = phase /\ left' = left /\ ui'.loaded = ui.loaded
                      \/ phase \in {"saving", "ending"} /\ (x \notin ui.loaded \/ ui.tabs[x] = <<>>)
                      \/ Desk(x)' = Desk(x)
    BY DEF vars
  <2>1. CASE Event
    BY <2>1, EventGood
  <2>2. CASE User
    BY <2>2, UserGood
  <2>3. CASE Start
    BY <2>3, StartGood
  <2>4. CASE OnClose
    BY <2>4 DEF OnClose, Desk, PathsOf
  <2>5. CASE SaveFile
    BY <2>5, SaveFileGood
  <2>6. CASE SaveEnds
    BY <2>6, SaveEndsGood
  <2>7. CASE Kill
    BY <2>7, KillGood
  <2> QED BY <2>1, <2>2, <2>3, <2>4, <2>5, <2>6, <2>7 DEF Next
<1> QED BY <1>1, Invariant, PTL DEF Spec, SessionSurvives
=============================================================================
