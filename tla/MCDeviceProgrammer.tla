-------------------------- MODULE MCDeviceProgrammer --------------------------
(* Times in units of 125 ms: a boot takes four, the Programmer waits eight. *)
EXTENDS DeviceProgrammer
=============================================================================
