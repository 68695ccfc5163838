------------------------------ MODULE MCClient ------------------------------
(* A small instance of OpenStackClient for TLC. *)
EXTENDS OpenStackClient

CONSTANTS config, bundle
=============================================================================
