------------------------------ MODULE MCRxStats ------------------------------
(* Model-checking instance of RxStats; every constant is set in the .cfg.  *)
EXTENDS RxStats
=============================================================================
