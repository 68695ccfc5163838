---------------------------- MODULE MCInstaller ----------------------------
(* A small cluster for Installer: builds 1 and 2 share a release, build 0 is of the one before. *)
(* Build 1 drops a webhook of build 0, build 2 adds one.                                        *)
EXTENDS Installer, TLC

MCRelease == (0 :> 10) @@ (1 :> 20) @@ (2 :> 20)

MCTemplate == (0 :> {"vkept", "vold"}) @@ (1 :> {"vkept"}) @@ (2 :> {"vkept", "vnew"})
=============================================================================
