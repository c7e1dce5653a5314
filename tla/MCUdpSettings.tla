---- MODULE MCUdpSettings ----
(* A small instance of UdpSettings: a port that is too low and one that fits. *)
EXTENDS UdpSettings
====
