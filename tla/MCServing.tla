----------------------------- MODULE MCServing -----------------------------
(* One cached aggregate, two callers and the warm-up; one API key with a     *)
(* limit of two requests a minute; two search indexes, two servers.          *)
EXTENDS Serving
=============================================================================
