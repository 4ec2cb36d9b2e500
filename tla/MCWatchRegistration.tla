------------------------ MODULE MCWatchRegistration ------------------------
(***************************************************************************)
(* Three local folders and a remote one, of which a workspace may have any *)
(* number: none that is local, some, or one more than the limit.           *)
(***************************************************************************)
EXTENDS WatchRegistration

CONSTANTS home, notes, work, remote

=============================================================================
