----------------------------- MODULE MCRTSession -----------------------------
(* RTSession for TLC.                                                      *)
EXTENDS RTSession

(* Two packets over UDP are enough to swap or repeat; another over TCP     *)
(* comes between them.                                                     *)
MCMaxPackets == [tcp |-> 1, udp |-> 2]

(* One action waiting when the next is provoked.                           *)
MCMaxQueue == 2

(* The first connection and one that replaces it.                          *)
MCMaxConnects == 2
=============================================================================
