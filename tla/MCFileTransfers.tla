-------------------------- MODULE MCFileTransfers --------------------------
(***************************************************************************)
(* FileTransfers for TLC: two descriptors and two connections, either of   *)
(* two clients at a time or of one after the other on one descriptor, that *)
(* make two uploads or two downloads of one or two files each.             *)
(***************************************************************************)
EXTENDS FileTransfers

CONSTANTS f1, f2

MCFds == {f1, f2}
MCWorkloads == {[uploads |-> 2, fetches |-> 0], [uploads |-> 0, fetches |-> 2]}

=============================================================================
