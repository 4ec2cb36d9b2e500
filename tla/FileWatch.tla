------------------------------ MODULE FileWatch ------------------------------
(***************************************************************************)
(* What the server's file revisions may rely on, whatever requests, late   *)
(* acknowledgments and withdrawals pass between it and the client: from    *)
(* the moment at which the client accepts a watch of the workspace's       *)
(* folders, until the folders change, it watches all of them; and the      *)
(* server trusts file events only after such an acceptance.  What else the *)
(* client watches, and when it starts and stops, is left open.             *)
(*                                                                         *)
(* WatchRegistration implements it; FileCatalog is built on its actions.   *)
(***************************************************************************)

CONSTANT Roots  \* the folders a client may watch

VARIABLES
  folders,   \* the folders of the workspace, now
  watched,   \* what the client reports about
  accepted,  \* the client has accepted to watch `folders'; the server will hear
  trusted    \* the server trusts file events

vars == <<folders, watched, accepted, trusted>>

Init ==
  /\ folders \in SUBSET Roots
  /\ watched = {}
  /\ accepted = FALSE /\ trusted = FALSE

\* The client watches something else from now on, perhaps with a promise.
Watch(roots) ==
  /\ watched' = roots
  /\ accepted' \in BOOLEAN
  /\ accepted => accepted'
  /\ accepted' /\ ~accepted => ~trusted /\ folders # {}
  /\ accepted' \/ trusted => folders \subseteq roots
  /\ UNCHANGED <<folders, trusted>>

\* The workspace changes, and every promise is void.
ChangeFolders(roots) ==
  /\ folders' = roots
  /\ accepted' = FALSE /\ trusted' = FALSE
  /\ UNCHANGED watched

\* The server hears of the promise.
Trust ==
  /\ accepted
  /\ accepted' = FALSE /\ trusted' = TRUE
  /\ UNCHANGED <<folders, watched>>

Next ==
  \/ \E roots \in SUBSET Roots : Watch(roots) \/ ChangeFolders(roots)
  \/ Trust

Spec == Init /\ [][Next]_vars

=============================================================================
