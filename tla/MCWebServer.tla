---------------------------- MODULE MCWebServer -----------------------------
(* WebServer with two names for programs and one for configurations. *)
EXTENDS WebServer
=============================================================================
