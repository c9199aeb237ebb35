------------------------------ MODULE MCService ------------------------------
(* A server with a few clients: see MCService.cfg.                          *)
EXTENDS Service
=============================================================================
