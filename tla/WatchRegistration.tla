-------------------------- MODULE WatchRegistration --------------------------
(***************************************************************************)
(* How the server gets the client to watch the workspace (server.rs).      *)
(*                                                                         *)
(* What the workers keep about closed files may be used again only while   *)
(* the client reports what happens to them (FileCatalog).  The server asks *)
(* it to: a dynamic registration for the local roots, one request at a     *)
(* time, withdrawn and made again whenever the folders of the workspace    *)
(* change.  The client answers late, in any order, and may refuse; the     *)
(* folders may have changed in the meantime.                               *)
(*                                                                         *)
(* The server writes its requests before it reads the next message, so     *)
(* they are under way as soon as they are made.  file_revision is reduced  *)
(* to whether there is one (trusted); FileCatalog models its value.        *)
(***************************************************************************)
EXTENDS Integers, FiniteSets

CONSTANTS
  Folders,       \* the folders a workspace may have
  Local,         \* those that are local directories (file_uri_path, blocked_path)
  MaxRoots,      \* MAX_WORKSPACE_ROOTS
  None,          \* Rust's None
  MaxGeneration  \* bound: changes of the folders

ASSUME FoldersAssumption == IsFiniteSet(Folders) /\ Local \subseteq Folders
ASSUME LimitsAssumption == MaxRoots \in Nat /\ MaxGeneration \in Nat
ASSUME NoneAssumption == None \notin Nat /\ None \notin [id : Nat, generation : Nat]

VARIABLES
  running,      \* state = State::Running, until the shutdown
  initialized,  \* watch_initialized
  supported,    \* watches_supported
  folders,      \* query.workspace
  generation,   \* watch_generation
  serial,       \* watch_serial
  pending,      \* pending_watch: the request, and the generation it is for
  active,       \* active_watch: the registration that was acknowledged
  trusted,      \* query.file_revision is Some
  requests,     \* under way to the client
  responses,    \* under way to the server
  watches       \* client: the registrations in force

serverVars == <<running, initialized, supported, folders, generation, serial,
                pending, active, trusted>>
vars == <<serverVars, requests, responses, watches>>

-----------------------------------------------------------------------------

\* Workspace::watch_roots
WatchRoots(present) == present \cap Local

Register(id, roots) == [type |-> "register", id |-> id, roots |-> roots]

Unregister(id, watch) == [type |-> "unregister", id |-> id, watch |-> watch]

Response(id, accepted) == [id |-> id, accepted |-> accepted]

\* Registrations that the server has asked the client to give up.
Withdrawn == {r.watch : r \in {q \in requests : q.type = "unregister"}}

-----------------------------------------------------------------------------
(* The server                                                              *)

Unrequested(waiting, held, trust) ==
  /\ pending' = waiting /\ active' = held /\ trusted' = trust
  /\ UNCHANGED <<requests, serial>>

\* request_file_watches, from the state the caller leaves: `waiting' is the
\* request it waits for, `held' the registration in force, `trust' whether
\* events are trusted.
RequestFileWatches(ready, waiting, held, trust, current, present) ==
  LET first     == IF held = None THEN serial ELSE serial + 1
      withdrawn == IF held = None THEN {} ELSE {Unregister(first, held)}
      roots     == WatchRoots(present)
  IN IF ~ready \/ ~supported \/ waiting # None
     THEN Unrequested(waiting, held, trust)
     ELSE /\ trusted' = FALSE /\ active' = None
          /\ IF roots = {} \/ Cardinality(roots) > MaxRoots
             THEN /\ serial' = first
                  /\ pending' = None
                  /\ requests' = requests \cup withdrawn
             ELSE /\ serial' = first + 1
                  /\ pending' = [id |-> first + 1, generation |-> current]
                  /\ requests' = requests \cup withdrawn
                                          \cup {Register(first + 1, roots)}

\* initialized; the notification counts once.
Initialized ==
  /\ running /\ ~initialized
  /\ initialized' = TRUE
  /\ RequestFileWatches(TRUE, pending, active, trusted, generation, folders)
  /\ UNCHANGED <<running, supported, folders, generation, responses, watches>>

\* workspace/didChangeWorkspaceFolders
DidChangeWorkspaceFolders(present) ==
  /\ running /\ generation < MaxGeneration
  /\ folders' = present
  /\ generation' = generation + 1
  /\ RequestFileWatches(initialized, pending, active, FALSE, generation + 1, present)
  /\ UNCHANGED <<running, initialized, supported, responses, watches>>

\* A bug: whatever is acknowledged is taken for the watch that is needed.
AnyAcknowledgment(response) ==
  /\ response \in responses
  /\ responses' = responses \ {response}
  /\ IF ~running \/ pending = None \/ pending.id # response.id
     THEN UNCHANGED <<supported, serial, pending, active, trusted, requests>>
     ELSE /\ pending' = None /\ supported' = response.accepted
          /\ trusted' = response.accepted
          /\ active' = IF response.accepted THEN response.id ELSE active
          /\ UNCHANGED <<serial, requests>>
  /\ UNCHANGED <<running, initialized, folders, generation, watches>>

\* A bug: an acknowledgment that comes too late is dropped, and not withdrawn.
LateIsDropped(response) ==
  /\ response \in responses
  /\ responses' = responses \ {response}
  /\ IF ~running \/ pending = None \/ pending.id # response.id
     THEN UNCHANGED <<supported, serial, pending, active, trusted, requests>>
     ELSE IF ~response.accepted
     THEN /\ supported' = FALSE
          /\ Unrequested(None, active, FALSE)
     ELSE IF pending.generation = generation
     THEN /\ Unrequested(None, response.id, TRUE)
          /\ UNCHANGED supported
     ELSE /\ RequestFileWatches(initialized, None, None, trusted, generation, folders)
          /\ UNCHANGED supported
  /\ UNCHANGED <<running, initialized, folders, generation, watches>>

\* A bug: nothing is requested when the acknowledgment comes too late.
LateIsKept(response) ==
  /\ response \in responses
  /\ responses' = responses \ {response}
  /\ IF ~running \/ pending = None \/ pending.id # response.id
     THEN UNCHANGED <<supported, serial, pending, active, trusted, requests>>
     ELSE /\ supported' = response.accepted
          /\ IF response.accepted
             THEN Unrequested(None, response.id, pending.generation = generation)
             ELSE Unrequested(None, active, FALSE)
  /\ UNCHANGED <<running, initialized, folders, generation, watches>>

\* watch_response; any other response is ignored.
WatchResponse(response) ==
  /\ response \in responses
  /\ responses' = responses \ {response}
  /\ IF ~running \/ pending = None \/ pending.id # response.id
     THEN UNCHANGED <<supported, serial, pending, active, trusted, requests>>
     ELSE IF ~response.accepted
     THEN /\ supported' = FALSE
          /\ Unrequested(None, active, FALSE)
     ELSE IF pending.generation = generation
     THEN /\ Unrequested(None, response.id, TRUE)
          /\ UNCHANGED supported
     ELSE /\ RequestFileWatches(initialized, None, response.id, trusted, generation, folders)
          /\ UNCHANGED supported
  /\ UNCHANGED <<running, initialized, folders, generation, watches>>

Shutdown ==
  /\ running
  /\ running' = FALSE
  /\ UNCHANGED <<initialized, supported, folders, generation, serial, pending, active,
                 trusted, requests, responses, watches>>

-----------------------------------------------------------------------------
(* The client.  It handles requests in any order, and watches before it    *)
(* says so.                                                                *)

ClientRegisters(request, accepted) ==
  /\ request \in requests /\ request.type = "register"
  /\ requests' = requests \ {request}
  /\ watches' = IF accepted
                THEN watches \cup {[id |-> request.id, roots |-> request.roots]}
                ELSE watches
  /\ responses' = responses \cup {Response(request.id, accepted)}
  /\ UNCHANGED serverVars

ClientUnregisters(request) ==
  /\ request \in requests /\ request.type = "unregister"
  /\ requests' = requests \ {request}
  /\ watches' = {w \in watches : w.id # request.watch}
  /\ responses' = responses \cup {Response(request.id, TRUE)}
  /\ UNCHANGED serverVars

-----------------------------------------------------------------------------

Init ==
  /\ running = TRUE
  /\ initialized = FALSE
  /\ supported \in BOOLEAN
  /\ folders \in SUBSET Folders
  /\ generation = 0 /\ serial = 0
  /\ pending = None /\ active = None /\ trusted = FALSE
  /\ requests = {} /\ responses = {} /\ watches = {}

Receive == \E response \in responses : WatchResponse(response)

Answer == \E request \in requests :
  \/ \E accepted \in BOOLEAN : ClientRegisters(request, accepted)
  \/ ClientUnregisters(request)

Next ==
  \/ Initialized
  \/ \E present \in SUBSET Folders : DidChangeWorkspaceFolders(present)
  \/ Receive
  \/ Answer
  \/ Shutdown

Spec == Init /\ [][Next]_vars

\* The server reads what the client sends, and a client answers every request
\* (JSON-RPC requires it to).
FairSpec == Spec /\ WF_vars(Receive) /\ WF_vars(Answer)

-----------------------------------------------------------------------------

\* What may be under way or in force when n numbers are used.
Requests(n) == [type : {"register"}, id : 1..n, roots : SUBSET Local]
               \cup [type : {"unregister"}, id : 1..n, watch : 1..n]

TypeOK ==
  /\ {running, initialized, supported, trusted} \subseteq BOOLEAN
  /\ folders \subseteq Folders
  /\ generation \in Nat /\ serial \in Nat
  /\ pending \in [id : 1..serial, generation : 0..generation] \cup {None}
  /\ active \in 1..serial \cup {None}
  /\ requests \subseteq Requests(serial)
  /\ responses \subseteq [id : 1..serial, accepted : BOOLEAN]
  /\ watches \subseteq [id : 1..serial, roots : SUBSET Local]

\* Events are trusted only while the client watches, under the registration
\* that was acknowledged, every local root of the workspace as it is now
\* (watch_response compares generations; request_file_watches resets).
TrustNeedsWatch ==
  trusted => \E w \in watches : /\ w.id = active
                                /\ w.roots = WatchRoots(folders)
                                /\ w.id \notin Withdrawn

\* A registration in force in the client is the one in use, or is about to be
\* acknowledged, or is being withdrawn: none is forgotten, however late its
\* acknowledgment comes (active_watch, pending_watch).
NoWatchIsLost ==
  running => \A w \in watches : \/ w.id = active
                                \/ pending # None /\ pending.id = w.id
                                \/ w.id \in Withdrawn

Watchable == /\ running /\ initialized /\ supported
             /\ Cardinality(WatchRoots(folders)) \in 1..MaxRoots

\* What FileCatalog is built on.  A promise is given when the client watches
\* what the request that is awaited asked for, unless it is out of date.
Watches == INSTANCE FileWatch WITH
  Roots    <- Local,
  folders  <- WatchRoots(folders),
  watched  <- UNION {w.roots : w \in watches},
  accepted <- /\ pending # None /\ pending.generation = generation
              /\ \E w \in watches : w.id = pending.id

\* The negotiation keeps the promise that files are cached on: from an
\* acceptance on, and as long as events are trusted, all local roots of the
\* present workspace are watched, while other watches come and go.
ImplementsFileWatch == Watches!Spec

\* A workspace that can be watched will be, unless the client refuses: a
\* request made for folders that are gone is made again for the present ones
\* (the recursion in watch_response).
WatchesSettle ==
  \A g \in 0..MaxGeneration :
    Watchable /\ generation = g ~> trusted \/ ~supported \/ generation # g \/ ~running

=============================================================================
