--------------------------- MODULE MCPreseedServer --------------------------
(* The installer and the operator's browser as clients of PreseedServer.   *)
EXTENDS PreseedServer
=============================================================================
