---------------------------- MODULE MCAppServer ----------------------------
(* Two requests, and timeouts with the proportions of the defaults.          *)
EXTENDS AppServer
=============================================================================
