--------------------------- MODULE MCInstallLock ---------------------------
(* Two installers of two names.  At most one file per name is on disk and  *)
(* at most one more per process is open after its name was deleted.        *)
EXTENDS InstallLock, TLC

=============================================================================
