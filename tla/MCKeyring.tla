------------------------------ MODULE MCKeyring ------------------------------
(* The installer started by hand while pacman-init.service is at work.     *)
EXTENDS Keyring
=============================================================================
