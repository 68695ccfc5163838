--------------------------- MODULE MCAuthorities ---------------------------
(* Two roles, of which one is watched and one is not, and an issuer of the user for both. *)
EXTENDS CertificateAuthorities

TwoRoles == <<Internal, Libvirt>>
=============================================================================
