---- MODULE MCUdpService ----
(* Small instances of UdpService: two commands, a text that is none, a stranger. *)
EXTENDS UdpService

CONSTANTS command, other, noise, alien, phone, tablet, stranger

TwoDatagrams == {command, other}
MixedDatagrams == {command, noise, alien}
OneCommand == {command}
MCFrom == [d \in Datagram |-> CASE d = alien -> stranger [] d = other -> tablet
                                [] OTHER -> phone]
NoEdits == {}
OneConfig == {{phone}}
Both == {phone, tablet}
Workers == Permutations(Worker)
====
