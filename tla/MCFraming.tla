----------------------------- MODULE MCFraming ------------------------------
(* A small message, one of the largest size allowed and one beyond it.     *)
EXTENDS Framing, TLC

CONSTANTS small, large, huge

MCPayloadSize == small :> 1 @@ large :> 3 @@ huge :> 4
=============================================================================
