----------------------------- MODULE MCRTDelivery -----------------------------
(* The instance of RTDelivery TLC checks.                                  *)
EXTENDS RTDelivery

(* The second packet of the first session has no payload, and the payload  *)
(* of the first packet of the second reads as fields.                      *)
MCEmpty == {<<1, 1>>}
MCFields == {<<2, 0>>}
=============================================================================
