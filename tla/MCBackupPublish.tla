--------------------------- MODULE MCBackupPublish ---------------------------
(* Model-checking instance of BackupPublish: five file objects suffice for the *)
(* base image, one staged image, one competing file and stale identities.      *)
EXTENDS BackupPublish
CONSTANTS f1, f2, f3, f4, f5
MCFileIds == {f1, f2, f3, f4, f5}
=============================================================================
