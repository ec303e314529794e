-------------------------------- MODULE Stores --------------------------------
(* The stores on the local disk that calls of several processes share: the   *)
(* backups, Archives, and the templates, Templates.                          *)
EXTENDS Archives, Templates

\* Of the two stores: a backup is what it says and a good one stays; and a
\* template that was there is never silently replaced.
StoresKeep == ArchivesHold /\ TemplatesStay
=============================================================================
