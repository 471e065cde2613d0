--------------------------- MODULE MCOcrPipeline ----------------------------
(***************************************************************************)
(* Instances of OcrPipeline for TLC.  With two receipts the older one has  *)
(* a total and the newer one a text that is no number.                     *)
(***************************************************************************)
EXTENDS OcrPipeline

CONSTANTS a1

MCReading == [r \in Receipts |-> IF r = 1 THEN a1 ELSE Unparsed]

=============================================================================
