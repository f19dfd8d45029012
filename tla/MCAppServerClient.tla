------------------------- MODULE MCAppServerClient ---------------------------
(* AppServerClient with two calls and channels of capacity one. *)
EXTENDS AppServerClient
=============================================================================
