------------------------------ MODULE MCIngestJob ------------------------------
(* A small instance of IngestJob: two requests next to the bootstrap and the  *)
(* shutdown, a worker with as many runs as they can start, two files.         *)
EXTENDS IngestJob

CONSTANTS q1, q2, r1, r2, r3
=================================================================================
