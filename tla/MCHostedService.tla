-------------------------- MODULE MCHostedService ---------------------------
(* HostedService on a small instance: one scanner, and a host whose calls  *)
(* may hang.                                                               *)
EXTENDS HostedService

CONSTANTS w1, w2
=============================================================================
