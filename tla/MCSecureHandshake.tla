-------------------------- MODULE MCSecureHandshake -------------------------
(* Two devices and a server with room for one session: timestamps 0 (which *)
(* the code takes for "none") and 1, one save, one reboot, restart or        *)
(* clean-up.                                                                 *)
EXTENDS SecureHandshake
=============================================================================
