---------------------------- MODULE FileCatalog ----------------------------
(***************************************************************************)
(* Files that are not open are read by the workers, and what was read is   *)
(* kept (files.rs, workspace_index.rs, reference_index.rs,                 *)
(* heading_references.rs).  While the client watches the workspace's roots *)
(* a worker uses what it kept without reading again, as long as no file    *)
(* event says otherwise.                                                   *)
(*                                                                         *)
(* Four parties meet here: the disk, which anyone may change; the client,  *)
(* which watches it and sends events, late but in order; the server, which *)
(* counts revisions and keeps a bounded journal of events; and a worker,   *)
(* with a catalog of the directories and summaries of the files.           *)
(*                                                                         *)
(* Abstractions.  One worker: the cache of two workers have nothing in    *)
(* common, and a task of another one changes nothing here.  Workspace      *)
(* symbols and references to headings have a cache each, used the same     *)
(* way, and share the catalog: the module follows the cache of one of      *)
(* them, and the other kind of query uses nothing but the catalog.  A      *)
(* file's content is the number of changes made to it so far.  Files lie in*)
(* subdirectories of the roots, so that a new file does not show in the    *)
(* metadata of a root.  Links, aliases and excluded directories are not    *)
(* modelled, and reading one file or walking the directories is one step.  *)
(* Of the negotiation between server and client about what is watched      *)
(* (request_file_watches) only what it promises is modelled, by the        *)
(* actions of FileWatch, which WatchRegistration implements.               *)
(***************************************************************************)
EXTENDS Integers, Sequences, FiniteSets, Functions

CONSTANTS
  Paths,      \* the files; numbers, since a scan visits them in order
  Roots,      \* local directories a workspace may have
  RootOf,     \* the root each file lies under
  None,       \* Rust's None
  Subjects,   \* what queries are about: closed files, or None
  Capacity,   \* how many paths the journal remembers (256 in files.rs)
  MaxChanges, \* bound: changes made to the disk
  MaxEpoch,   \* bound: revisions of the files
  MaxInbox    \* bound: events under way to the server

ASSUME PathsAssumption == Paths \subseteq Nat /\ IsFiniteSet(Paths)
ASSUME RootsAssumption == RootOf \in [Paths -> Roots]
ASSUME LimitsAssumption == {Capacity, MaxChanges, MaxEpoch, MaxInbox} \subseteq Nat
ASSUME NoneAssumption == None \notin Nat
ASSUME SubjectsAssumption == Subjects \subseteq Paths \cup {None}

VARIABLES
  disk,     \* disk[p]: whether p existed, after each change made to it
  watched,  \* client: the roots it watches
  inbox,    \* what the client has sent and the server has not yet read
  epoch,    \* scope_epoch: counts what may have changed any file
  journal,  \* query.file_events
  revision, \* query.file_revision: None unless events are trusted
  folders,  \* query.workspace: the roots
  open,     \* the files that are open buffers
  task,     \* the workspace query the worker executes, or None
  catalog,  \* the worker's inventory, or None
  cache     \* the worker's summaries of the files it read, see EmptyCache

clientVars == <<disk, watched, inbox>>
serverVars == <<epoch, journal, revision, folders, open>>
workerVars == <<task, catalog, cache>>
vars == <<clientVars, serverVars, workerVars>>

-----------------------------------------------------------------------------
(* FileEvents: the bounded journal (files.rs) *)

\* A map by path, with `value' inserted for each path of S.
Insert(map, S, value) ==
  [p \in S \cup DOMAIN map |-> IF p \in S THEN value ELSE map[p]]

NoPaths == [p \in {} |-> 0]

\* What the journal is after a reset: nothing is known of the time before `now'.
Reset(now) == [floor |-> now, latest |-> now, paths |-> NoPaths]

\* FileEvents::record.  `changes' is None when anything may have changed;
\* otherwise a sequence of events.  Only changes of content are remembered;
\* a creation or a deletion, or too many paths, forget everything.
Record(events, now, changes) ==
  IF changes = None THEN Reset(now)
  ELSE LET changed == {changes[i].path : i \in DOMAIN changes}
       IN IF /\ now > events.latest
             /\ \A i \in DOMAIN changes : changes[i].kind = "changed"
             /\ Cardinality(changed \cup DOMAIN events.paths) <= Capacity
          THEN [events EXCEPT !.latest = now,
                              !.paths = Insert(@, changed, now)]
          ELSE Reset(now)

\* A bug: what was forgotten is taken for what did not happen.
AnyHistory(events, before, after) == before <= after /\ after = events.latest

\* FileEvents::changed_paths: whether the journal can tell what changed
\* between two revisions, and what did.
Knows(events, before, after) ==
  before >= events.floor /\ before <= after /\ after = events.latest

ChangedPaths(events, before) == {p \in DOMAIN events.paths : events.paths[p] > before}

\* A bug: only whether the journal can tell is asked, not what it tells.
JournalSuffices(events, p, before, after) ==
  /\ before # None /\ after # None
  /\ before = after \/ Knows(events, before, after)

\* FileEvents::contents_unchanged, and Catalog::contents_unchanged around it.
ContentsUnchanged(events, p, before, after) ==
  /\ before # None /\ after # None
  /\ \/ before = after
     \/ /\ before # after
        /\ Knows(events, before, after)
        /\ p \notin ChangedPaths(events, before)

-----------------------------------------------------------------------------
(* The disk and the client.  They are no part of the program; what it      *)
(* assumes of them is written down here: a watch is in force before it is  *)
(* acknowledged, and whatever happens under it is reported, in order.      *)

Exists(p) == disk[p][Len(disk[p])]

Content(p) == Len(disk[p])

IsEvent(message) == message.type = "event"

\* A file event; `at' is not sent, it is the content the event announces.
Event(p, kind, at) == [type |-> "event", path |-> p, kind |-> kind, at |-> at]

\* What the client answers to a request to watch, and that answer once the
\* folders are no longer those it is about (watch_generation).
Accepted == [type |-> "accepted"]
Obsolete == [type |-> "obsolete"]

UnderWay(p) == {i \in DOMAIN inbox : IsEvent(inbox[i]) /\ inbox[i].path = p}

\* The oldest content of p that an answer may still be about: the one before
\* the first change whose event is under way.
Due(p) ==
  IF UnderWay(p) = {} THEN Content(p)
  ELSE inbox[CHOOSE i \in UnderWay(p) : \A j \in UnderWay(p) : i <= j].at - 1

\* Room for one more revision.
Budget == epoch + Cardinality({i \in DOMAIN inbox : IsEvent(inbox[i])}) < MaxEpoch

ChangesMade == FoldFunction(+, 0, [q \in Paths |-> Content(q) - 1])

\* Someone creates, changes or deletes a file.
ChangeFile(p, exists) ==
  /\ Exists(p) \/ exists
  /\ ChangesMade < MaxChanges
  /\ disk' = [disk EXCEPT ![p] = Append(@, exists)]
  /\ IF RootOf[p] \in watched
     THEN /\ Budget /\ Len(inbox) < MaxInbox
          /\ inbox' = Append(inbox, Event(p, IF ~exists THEN "deleted"
                                             ELSE IF Exists(p) THEN "changed"
                                             ELSE "created", Content(p) + 1))
     ELSE UNCHANGED inbox
  /\ UNCHANGED <<watched, serverVars, workerVars>>

\* What server and client negotiate about watches.
Watches == INSTANCE FileWatch WITH
  accepted <- \E i \in DOMAIN inbox : inbox[i] = Accepted,
  trusted  <- revision # None

\* The client changes what it watches, and may say that this is what the
\* server waits for.
Watch(roots) ==
  /\ \/ UNCHANGED inbox
     \/ /\ \A i \in DOMAIN inbox : inbox[i] # Accepted
        /\ inbox' = Append(inbox, Accepted)
  /\ UNCHANGED <<disk, serverVars, workerVars>>
  /\ Watches!Watch(roots)

-----------------------------------------------------------------------------
(* The server: revisions (server.rs) *)

\* advance_file_revision
AdvanceFileRevision(changes) ==
  /\ epoch' = epoch + 1
  /\ journal' = Record(journal, epoch + 1, changes)
  /\ revision' = IF revision = None THEN None ELSE epoch + 1

\* textDocument/didOpen and didClose: what was a file becomes a buffer, and back.
DidOpenOrClose(p) ==
  /\ Budget
  /\ open' = IF p \in open THEN open \ {p} ELSE open \cup {p}
  /\ AdvanceFileRevision(None)
  /\ UNCHANGED <<clientVars, folders, workerVars>>

\* workspace/didRenameFiles
DidRenameFiles ==
  /\ Budget
  /\ AdvanceFileRevision(None)
  /\ UNCHANGED <<clientVars, folders, open, workerVars>>

\* workspace/didChangeWorkspaceFolders.  An acceptance under way is obsolete then.
DidChangeWorkspaceFolders(roots) ==
  /\ Budget
  /\ folders' = roots
  /\ epoch' = epoch + 1
  /\ journal' = Record(journal, epoch + 1, None)
  /\ revision' = None
  /\ inbox' = [i \in DOMAIN inbox |-> IF inbox[i] = Accepted THEN Obsolete ELSE inbox[i]]
  /\ UNCHANGED <<disk, watched, open, workerVars>>

\* workspace/didChangeWatchedFiles: the first n messages are one notification.
DidChangeWatchedFiles(n) ==
  /\ \A i \in 1..n : IsEvent(inbox[i])
  /\ AdvanceFileRevision(SubSeq(inbox, 1, n))
  /\ inbox' = SubSeq(inbox, n + 1, Len(inbox))
  /\ UNCHANGED <<disk, watched, folders, open, workerVars>>

\* watch_response: events are trusted from the acceptance on, if it is about the
\* folders as they are.  (After another one the server asks again.)
WatchResponse ==
  /\ inbox # <<>> /\ ~IsEvent(Head(inbox))
  /\ revision' = IF Head(inbox) = Accepted THEN epoch ELSE revision
  /\ inbox' = Tail(inbox)
  /\ UNCHANGED <<disk, watched, epoch, journal, folders, open, workerVars>>

-----------------------------------------------------------------------------
(* The worker: a query begins (worker.rs, query.rs) *)

NoEntries == [p \in {} |-> None]

\* Index: the revision of the last complete scan, or None, and for each file
\* the content that was summarized.  (References also keep what the links of
\* a text point to, guarded by more of the same.)
EmptyCache == [revision |-> None, entries |-> NoEntries]

\* Start of a workspace query, on the snapshot start_work makes.  `subject' is
\* the closed file whose heading is looked for; it is None in a query for
\* symbols and for references to a heading of a buffer.  due is history.
StartTask(subject, other) ==
  /\ task = None
  /\ task' = [other    |-> other,  \* a query of the other kind
              subject  |-> subject,
              phase    |-> IF subject = None THEN "catalog" ELSE "resolve",
              revision |-> revision, events |-> journal,
              folders  |-> folders, open |-> open,
              due      |-> [p \in Paths |-> Due(p)],
              read     |-> 0,      \* the subject's content, once it is read
              files    |-> {},     \* the inventory, once it is known
              todo     |-> {},     \* files still to be visited
              reuse    |-> FALSE,  \* reuse_contents
              previous |-> None,   \* previous_revision
              found    |-> NoEntries]  \* the content the answer is about
  /\ UNCHANGED <<clientVars, serverVars, catalog, cache>>

\* heading_references::Context::resolve for a closed target: it is read
\* whether or not it is in the cache.
ResolveSubject ==
  /\ task # None /\ task.phase = "resolve"
  /\ task' = IF /\ RootOf[task.subject] \in task.folders
                /\ task.subject \notin task.open
                /\ Exists(task.subject)
             THEN [task EXCEPT !.phase = "catalog", !.read = Content(task.subject)]
             ELSE None
  /\ UNCHANGED <<clientVars, serverVars, catalog, cache>>

-----------------------------------------------------------------------------
(* Catalog::sources (files.rs) *)

\* Whether the inventory of an earlier query is still the right one.
SameInventory ==
  /\ catalog # None /\ task.revision # None
  /\ \/ catalog.revision = task.revision
     \/ /\ Knows(task.events, catalog.revision, task.revision)
        /\ \A p \in ChangedPaths(task.events, catalog.revision) :
             /\ p \in catalog.files \cup catalog.open
             /\ RootOf[p] \in task.folders
             /\ Exists(p)
  /\ catalog.folders = task.folders
  /\ catalog.open = task.open

\* FileScope::sources: the closed files under the roots.
Discovered == {p \in Paths \ task.open : RootOf[p] \in task.folders /\ Exists(p)}

\* The cache names the generation of the catalog its revision was stored
\* with, and a revision stored with an older one is never used again.
NewGeneration == [cache EXCEPT !.revision = None]

\* The scan begins, with the inventory `files': the cache gives up its
\* revision until the scan is complete and, unless its contents may be
\* reused, whatever is not in the inventory.
BeginScan(files, reused, known) ==
  LET reuse == reused /\ task.revision # None /\ known.revision # None
      paths == files \cup ({task.subject} \cap Paths)
  IN IF task.other THEN task' = None /\ cache' = known
     ELSE /\ task' = [task EXCEPT !.phase = "scan", !.files = files, !.todo = paths,
                                  !.previous = known.revision, !.reuse = reuse]
          /\ cache' = [revision |-> None,
                       entries |-> IF reuse THEN known.entries
                                   ELSE Restrict(known.entries, DOMAIN known.entries \cap paths)]

\* The inventory is that of an earlier query.
ReuseCatalog ==
  /\ task # None /\ task.phase = "catalog" /\ SameInventory
  /\ catalog' = [catalog EXCEPT !.revision = task.revision]
  /\ BeginScan(catalog.files, TRUE, cache)
  /\ UNCHANGED <<clientVars, serverVars>>

\* The directories are walked again.
Discover ==
  /\ task # None /\ task.phase = "catalog" /\ ~SameInventory
  /\ catalog' = IF task.revision = None THEN None
                ELSE [revision |-> task.revision, folders |-> task.folders,
                      open |-> task.open, files |-> Discovered]
  /\ BeginScan(Discovered, FALSE, NewGeneration)
  /\ UNCHANGED <<clientVars, serverVars>>

\* The walk meets a limit, or the task was cancelled: no catalog is left.
DiscoveryFails ==
  /\ task # None /\ task.phase = "catalog" /\ ~SameInventory
  /\ task' = None /\ catalog' = None /\ cache' = NewGeneration
  /\ UNCHANGED <<clientVars, serverVars>>

-----------------------------------------------------------------------------
(* The scan: one file after the other (workspace_index.rs,                 *)
(* heading_references.rs)                                                  *)

\* Files are visited in order; this is the next one.
Visited == CHOOSE p \in task.todo : \A q \in task.todo : p <= q

Entries == cache.entries

SetEntries(entries) == cache' = [cache EXCEPT !.entries = entries]

Answer(p, content) ==
  task' = [task EXCEPT !.todo = @ \ {p}, !.found = Insert(@, {p}, content)]

\* Whether the summary of p may be used although p is not read.
Reusable(p) ==
  /\ task.reuse /\ p # task.subject
  /\ ContentsUnchanged(task.events, p, task.previous, task.revision)
  /\ p \in DOMAIN Entries

\* The summary of an earlier scan is used.
UseSummary(p) ==
  /\ Reusable(p)
  /\ Answer(p, Entries[p])
  /\ UNCHANGED cache

\* The file is read, and summarized unless its text is the known one.  The
\* cache is bounded (cache_file, Index::resources): the summary may be too
\* large for it, or everything else may have to go.
ReadFile(p) ==
  /\ ~Reusable(p) /\ p # task.subject /\ Exists(p)
  /\ Answer(p, Content(p))
  /\ \/ SetEntries(Insert(Entries, {p}, Content(p)))
     \/ SetEntries(Insert(NoEntries, {p}, Content(p)))
     \/ SetEntries(Restrict(Entries, DOMAIN Entries \ {p}))

\* The file is gone, and its summary with it.
FileIsGone(p) ==
  /\ ~Reusable(p) /\ p # task.subject /\ ~Exists(p)
  /\ task' = [task EXCEPT !.todo = @ \ {p}]
  /\ SetEntries(Restrict(Entries, DOMAIN Entries \ {p}))

\* The closed target of the query was read when the query began.
VisitSubject(p) ==
  /\ p = task.subject
  /\ Answer(p, task.read)
  /\ UNCHANGED cache

Visit ==
  /\ task # None /\ task.phase = "scan" /\ task.todo # {}
  /\ \/ UseSummary(Visited)
     \/ ReadFile(Visited)
     \/ FileIsGone(Visited)
     \/ VisitSubject(Visited)
  /\ UNCHANGED <<clientVars, serverVars, catalog>>

\* The scan is complete, and what is in the cache is of its revision.
FinishTask ==
  /\ task # None /\ task.phase = "scan" /\ task.todo = {}
  /\ task' = None
  /\ cache' = [cache EXCEPT !.revision = task.revision]
  /\ UNCHANGED <<clientVars, serverVars, catalog>>

\* A limit is exceeded, or the task was cancelled.
GiveUp ==
  /\ task # None
  /\ task' = None
  /\ UNCHANGED <<clientVars, serverVars, catalog, cache>>

\* References to a heading of a buffer outside the roots are looked for in
\* that buffer alone; the cache is emptied all the same.
SearchOneBuffer ==
  /\ task # None /\ task.phase = "catalog"
  /\ task.subject = None /\ ~task.other
  /\ task' = None
  /\ cache' = [revision |-> task.revision, entries |-> NoEntries]
  /\ UNCHANGED <<clientVars, serverVars, catalog>>

-----------------------------------------------------------------------------

Init ==
  /\ disk \in [Paths -> {<<TRUE>>, <<FALSE>>}]
  /\ watched = {} /\ inbox = <<>>
  /\ epoch = 0
  /\ journal = Reset(0)
  /\ revision = None
  /\ folders \in SUBSET Roots
  /\ open = {}
  /\ task = None /\ catalog = None
  /\ cache = EmptyCache

Environment ==
  \/ \E p \in Paths, exists \in BOOLEAN : ChangeFile(p, exists)
  \/ \E roots \in SUBSET Roots : Watch(roots)

Server ==
  \/ \E p \in Paths : DidOpenOrClose(p)
  \/ DidRenameFiles
  \/ \E roots \in SUBSET Roots : DidChangeWorkspaceFolders(roots)
  \/ \E n \in DOMAIN inbox : DidChangeWatchedFiles(n)
  \/ WatchResponse

Worker ==
  \/ \E subject \in Subjects : StartTask(subject, FALSE)
  \/ StartTask(None, TRUE)
  \/ ResolveSubject
  \/ ReuseCatalog
  \/ Discover
  \/ DiscoveryFails
  \/ Visit
  \/ FinishTask
  \/ GiveUp
  \/ SearchOneBuffer

Next == Environment \/ Server \/ Worker

Spec == Init /\ [][Next]_vars

-----------------------------------------------------------------------------
(* Properties *)

\* A scan's inventory is no older than what the client had reported when the
\* query began: for every file there is an instant, not before the last event
\* the server had seen of it, at which it was there, or was not there.
InventoryIsCurrent ==
  task # None /\ task.phase = "scan" =>
    \A p \in Paths \ task.open : RootOf[p] \in task.folders =>
      \E i \in task.due[p]..Content(p) : disk[p][i] = (p \in task.files)

\* An answer is about contents no older than what the client had reported when
\* the query began, although most summaries are not made anew: an event that
\* has not arrived is the only excuse.  This is about files no query has as
\* its subject, all of them for Index::symbols.
SummariesAreCurrent ==
  task # None => \A p \in DOMAIN task.found \ Subjects : task.found[p] >= task.due[p]

\* The same of every file: "Callers validate file-event revisions or current
\* bytes before reusing reference bindings and source ranges"
\* (reference_index.rs).
ReferencesAreCurrent ==
  task # None => \A p \in DOMAIN task.found : task.found[p] >= task.due[p]

=============================================================================
