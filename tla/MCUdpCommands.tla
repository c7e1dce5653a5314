---- MODULE MCUdpCommands ----
(* A small instance of UdpCommands: every word of the table but those of               *)
(* MCQuickStarts, and one that is in none; the key 1 is known.                         *)
EXTENDS UdpCommands

TableWords == {cmds[i] : i \in DOMAIN cmds} \ {"cmd:", "cmdname:", "volume+", "volume-"}
MCWords == TableWords \union {"gibberish"}
MCKeys == [word : {"ctrl+", "shift+", "alt+", "win+"}, tail : {1}] \union
          [word : {"key"}, tail : {None}]
====
