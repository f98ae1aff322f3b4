----------------------------- MODULE MCDrmQueue -----------------------------
(* Small instances of DrmQueue for TLC. *)
EXTENDS DrmQueue
=============================================================================
