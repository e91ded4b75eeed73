---------------------------- MODULE MCLspServer -----------------------------
(* LspServer for TLC.                                                      *)
EXTENDS LspServer
=============================================================================
