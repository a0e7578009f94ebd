---------------------------- MODULE MCSystemUpdate ----------------------------
(* SystemUpdate for TLC: one page and one caller beside the watcher, which is   *)
(* two of everything that can write the status file or the compose file.        *)
EXTENDS SystemUpdate
============================================================================
