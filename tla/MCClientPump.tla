---------------------------- MODULE MCClientPump -----------------------------
(* ClientPump with a text and a file of one piece, a file of two, two      *)
(* texts, and a text and a file too large; and one login after the first.  *)
EXTENDS ClientPump

CONSTANTS t1, t2, short, long, large

MCFileSize == [f \in Files |-> IF f = short THEN 2 ELSE 3]

MCCalls == {{t1, short}, {long}, {t1, t2}, {t1, large}}
=============================================================================
