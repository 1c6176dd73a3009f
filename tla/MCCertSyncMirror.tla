-------------------------- MODULE MCCertSyncMirror --------------------------
(***************************************************************************)
(* The instance on which TLC checks that CertSync implements VaultMirror.   *)
(* It takes its constants from MCCertSync.                                  *)
(***************************************************************************)
EXTENDS MCCertSync, CertSyncMirror

=============================================================================
