----------------------------- MODULE MCResolver -----------------------------
(* The two servers of the code. *)
EXTENDS Resolver
MCServers == <<"1.1.1.1", "1.0.0.1">>
=============================================================================
