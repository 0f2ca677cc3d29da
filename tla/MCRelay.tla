------------------------------ MODULE MCRelay ------------------------------
(* An instance of Relay for TLC: the author's server, and two servers that   *)
(* relay to each other, one of them to the author's server too.              *)
EXTENDS Relay

CONSTANTS s1, s2, s3, c1, c2

MCRelays == [s \in Server |-> CASE s = s1 -> {}
                                [] s = s2 -> {s3}
                                [] s = s3 -> {s1, s2}]
MCCovers == [s \in Server |-> {s}]
MCHomeOf == [c \in Client |-> IF c = c1 THEN s2 ELSE s3]
=============================================================================
