----------------------------- MODULE MCClipboard -----------------------------
EXTENDS Clipboard

(* Wine renders UTF-8; the other one only knows the format asked for last. *)
OffersMC == [w \in Windows |-> IF w = "game" THEN {"utf8", "plain", "string"} ELSE {"string"}]
=============================================================================
