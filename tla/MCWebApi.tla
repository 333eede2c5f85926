------------------------------ MODULE MCWebApi ------------------------------
(* An instance of WebApi: two clients that get objects, one that listens. *)
EXTENDS WebApi

CONSTANTS c1, c2, c3
=============================================================================
