----------------------------- MODULE MCMailbox -----------------------------
(* Model-checking instance of Mailbox; the constants are given in         *)
(* MCMailbox.cfg.  Symmetry is not used because a liveness property is    *)
(* checked.                                                                *)
EXTENDS Mailbox
=============================================================================
