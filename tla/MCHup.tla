-------------------------------- MODULE MCHup --------------------------------
(* Hup on a small instance: bytes of two bits, the constants in the .cfg.  *)
EXTENDS Hup
=============================================================================
