--------------------------- MODULE MCCertLifecycle ---------------------------
(* TLC instances of CertLifecycle; the .cfg files give the bounds. *)
EXTENDS CertLifecycle
=============================================================================
