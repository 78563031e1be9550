------------------------------ MODULE MCEvents -------------------------------
(* EventStream on small instances.  Connections are not interchangeable: a   *)
(* new one takes the first identity that is free.                           *)
EXTENDS EventStream
==============================================================================
