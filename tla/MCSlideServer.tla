---------------------------- MODULE MCSlideServer ----------------------------
(* SlideServer with two devices behind one address, so that only the name  *)
(* tells them apart, and three connections: one device can come back       *)
(* twice, or each once with the other in between.  What is sent is meant   *)
(* for d1; two texts, so that the second waits behind the first.           *)
EXTENDS SlideServer

CONSTANTS d1, d2

MCIp == [d \in Device |-> 1]
MCName == (d1 :> "a") @@ (d2 :> "b")
MCAlias == (d1 :> "c") @@ (d2 :> "b")
MCKey(ip, name) == <<ip, name>>
MCDest == [t \in Texts \cup Files |-> d1]
MCFileSize == [f \in Files |-> 1]
=============================================================================
