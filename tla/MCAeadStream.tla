---------------------------- MODULE MCAeadStream ----------------------------
(* Bounds for TLC: see the configurations. *)
EXTENDS AeadStream
=============================================================================
