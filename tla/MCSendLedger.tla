---------------------------- MODULE MCSendLedger ----------------------------
(* SendLedger for model checking: request r has 1 or 2 bytes.                *)
EXTENDS SendLedger

MCBytes == [r \in Ids |-> 1 + (r % 2)]
=============================================================================
