------------------------------- MODULE MCServer -------------------------------
(* Three clients: one in the list, one closed beside it, one being added.    *)
EXTENDS Server

MCClients == 1 .. 3
=============================================================================
