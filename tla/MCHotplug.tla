----------------------------- MODULE MCHotplug -----------------------------
(* TLC instance of Hotplug *)
EXTENDS Hotplug
=============================================================================
