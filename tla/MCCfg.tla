-------------------------------- MODULE MCCfg --------------------------------
(* Cfg for TLC.                                                            *)
EXTENDS Cfg
=============================================================================
