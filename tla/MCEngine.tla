------------------------------ MODULE MCEngine ------------------------------
(* Small instances of Engine: two payloads, a handful of seqnos.             *)
EXTENDS Engine
=============================================================================
