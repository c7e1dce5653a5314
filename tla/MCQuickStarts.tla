---- MODULE MCQuickStarts ----
(* Quick starts 8 and 9, one command line each, and the words that start them or turn *)
(* the volume; the other words of the table are in MCShutdown.cfg.                    *)
EXTENDS QuickStarts

QuickWords == {"cmd:", "cmdname:", "volume+", "volume-"}
====
