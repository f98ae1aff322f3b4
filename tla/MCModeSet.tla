----------------------------- MODULE MCModeSet -----------------------------
(* TLC instance of ModeSet: the first CRTC has two modes to choose from *)
EXTENDS ModeSet
MCModes == <<{1, 2}, {1}>>
=============================================================================
