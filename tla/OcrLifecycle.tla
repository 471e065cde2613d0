---------------------------- MODULE OcrLifecycle ----------------------------
(***************************************************************************)
(* What the receipts table promises about ocr_status, seen from outside: a *)
(* photo receipt is inserted pending, is taken up once, and ends done or   *)
(* failed; a manual-entry or evidence receipt is skipped from the start.   *)
(* OcrPipeline implements this with a single worker.                       *)
(***************************************************************************)
CONSTANT Receipts

VARIABLE ocr_status

OCRStatus == {"pending", "processing", "done", "failed", "skipped"}
NotCreated == "absent"

OInit == ocr_status = [r \in Receipts |-> NotCreated]

Becomes(r, s) == ocr_status' = [ocr_status EXCEPT ![r] = s]

Insert(r) ==
    /\ ocr_status[r] = NotCreated
    /\ Becomes(r, "pending") \/ Becomes(r, "skipped")

Take(r) == ocr_status[r] = "pending" /\ Becomes(r, "processing")

Settle(r) ==
    /\ ocr_status[r] = "processing"
    /\ Becomes(r, "done") \/ Becomes(r, "failed")

ONext == \E r \in Receipts : Insert(r) \/ Take(r) \/ Settle(r)

OSpec == OInit /\ [][ONext]_ocr_status

=============================================================================
