--------------------------- MODULE MCExplorerTabs ---------------------------
(* Two folders.  At first no session; two tabs in each pane of which the   *)
(* second waits to be clicked, with one pane shown; settings that were cut *)
(* off; a session that was.                                                *)
EXTENDS ExplorerTabs

CONSTANT Music

Disk(one, two, dual) ==
    [f \in Files |-> CASE f = "session.json" -> one
                      [] f = "session2.json" -> two
                      [] f = "setting.json" -> dual]

MCSaved == {Disk(<<>>, <<>>, TRUE), Disk(<<Computer, Music>>, <<Computer, Music>>, FALSE),
            Disk(<<Computer, Music>>, <<>>, Broken), Disk(Broken, <<Computer, Music>>, TRUE)}
=============================================================================
