---------------------------- MODULE EventCursorMC ----------------------------
(* EventCursor on small instances. *)
EXTENDS EventCursor

CONSTANTS j1, t1
=============================================================================
