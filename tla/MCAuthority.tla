---------------------------- MODULE MCAuthority ----------------------------
(* Authority on the databases and calls of MCLlmio. *)
EXTENDS Authority, MCLlmio
=============================================================================
