---------------------------- MODULE MCServerLoop ----------------------------
(* The instances of MCItemStore, driven by the event loop. *)
EXTENDS MCItemStore, ServerLoop
=============================================================================
