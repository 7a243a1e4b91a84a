------------------------------ MODULE MCExchange ------------------------------
(* The inputs are those of MCNormalizers and MCToolResultEnvelope, and every  *)
(* history of at most MaxEntries entries about two calls.                     *)
EXTENDS Exchange, MCNormalizers, MCToolResultEnvelope
=============================================================================
