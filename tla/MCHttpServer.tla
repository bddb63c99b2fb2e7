---------------------------- MODULE MCHttpServer ----------------------------
(* Instances of HttpServer for TLC. *)
EXTENDS HttpServer

CONSTANTS run, stop

TwoCallers == {run, stop}
=============================================================================
