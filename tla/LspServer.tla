------------------------------ MODULE LspServer ------------------------------
(***************************************************************************)
(* The server thread of crates/lsp/src/server.rs with its two analysis     *)
(* workers (worker.rs) and the cancellation flags between them.            *)
(*                                                                         *)
(* One turn of the loop in run_with_workers is: receive an event (a client *)
(* message, a finished task or a deadline), handle it, drain "outgoing",   *)
(* write the handler's own response, answer cached outlines, drain again,  *)
(* and start work until none can start.  Workers run between any two of    *)
(* these steps on a snapshot of the documents.                             *)
(*                                                                         *)
(* A document is its revision: DocumentStore shows that version and text   *)
(* address identify one.  Instants are only ever compared, so deadlines    *)
(* are the order in which they pass ("earlier").                           *)
(***************************************************************************)
EXTENDS Integers, FiniteSets

CONSTANTS
    Uris,        \* the document URIs a client opens
    Ids,         \* request ids; a client uses each of them once
    Kinds,       \* the classes of queries the client sends
    Workers,     \* the slots of "running", one per worker thread
    MaxPending,  \* MAX_PENDING_QUERIES
    MaxBytes,    \* MAX_PENDING_QUERY_BYTES
    Size,        \* bound: the retained_bytes of a query, by its kind
    MaxRev,      \* bound: document revisions in one behaviour
    MaxEpoch,    \* bound: scope epochs in one behaviour
    None,        \* nothing of the kind expected
    Empty        \* an empty diagnostic list

AllKinds == {"document", "links", "references", "workspace"}
Revs     == 1..MaxRev
Epochs   == 1..MaxEpoch

ASSUME BoundsAssumption ==
    /\ MaxRev \in Nat /\ MaxEpoch \in Nat \ {0} /\ MaxPending \in Nat
    /\ Kinds \subseteq AllKinds
    /\ MaxBytes \in Nat /\ Size \in [AllKinds -> Nat \ {0}]

(* What a query kind reads: "document" is every request answered from its  *)
(* own document (outline, hover, folding, ...), "links" are definition,    *)
(* completion and documentLink, "references" are references and rename,    *)
(* "workspace" are workspace/symbol and willRenameFiles.                   *)
HasSource(k)      == k # "workspace"
UsesWorkspace(k)  == k \in {"references", "workspace"}
ReadsTargets(k)   == k # "document"

Document     == [rev : Revs, synchronized : BOOLEAN, outline : BOOLEAN]
Documents    == [Uris -> Document \cup {None}]
Request      == [kind : AllKinds, uri : Uris \cup {None}]
Answers      == {"ok", "changed", "cancelled", "failed", "busy", "refused"}
Reply        == [id : Ids, answer : Answers] \cup [id : {None}, answer : {"null"}]
Dependencies == [targets : SUBSET Uris, files : BOOLEAN]

(* What a published list was computed from: the source's revision, those   *)
(* of the targets it read (0: not read) and the epoch (0: no file read).   *)
Basis == [rev : Revs, used : [Uris -> 0..MaxRev], epoch : 0..MaxEpoch]

RunningWork == [uri : Uris \cup {None}, workspace : BOOLEAN,
                reply : Ids \cup {"diagnostics", None},
                epoch : Epochs, cancelled : BOOLEAN]

Task == [docs : Documents, kind : AllKinds \cup {"diagnostics"},
         result : {"computing", "ok", "failed", "cancelled"},
         targets : SUBSET Uris, files : BOOLEAN]

ASSUME NullsAssumption ==
    /\ None \notin Uris \cup Ids \cup Document \cup Request \cup Answers \cup Reply
                   \cup Dependencies \cup Basis \cup RunningWork \cup Task
                   \cup {"diagnostics", "armed", "expired", Empty}
    /\ Empty \notin Basis
    /\ "diagnostics" \notin Ids \cup AllKinds
    /\ Ids \cap Uris = {}
    /\ Workers \cap {"pending", "outgoing", "response", "answered"} = {}

VARIABLES
    pc,            \* the step of the loop's turn
    state,         \* Server::state
    documents,     \* query.documents
    nextRev,       \* the revision the next write makes
    scopeEpoch,    \* scope_epoch
    pending,       \* the ids in pending_queries
    pendingBytes,  \* pending_query_bytes
    due,           \* diagnostics_due: None, "armed", or "expired"
    earlier,       \* <<x, y>>: x's deadline passed before y's
    dependencies,  \* diagnostic_dependencies
    running,       \* the slots of running work
    tasks,         \* what each worker computes on its snapshot
    responses,     \* outgoing: the response waiting for each id
    publications,  \* outgoing: the list waiting for each document
    reply,         \* the response handle_message writes after draining
    asked,         \* history: the query each id was used for
    answers,       \* the client: what it was answered
    shown          \* the client: the diagnostics it shows

server == <<documents, nextRev, scopeEpoch, dependencies>>
queues == <<pending, pendingBytes, due, earlier>>
output == <<responses, publications, reply>>
client == <<asked, answers, shown>>
vars   == <<pc, state, server, queues, running, tasks, output, client>>

-----------------------------------------------------------------------------
(* Helpers.                                                                *)

Synchronized(docs) == {u \in Uris : docs[u] # None /\ docs[u].synchronized}

Working == {w \in Workers : running[w] # None}

Owed == pending \cup ({running[w].reply : w \in Working} \cap Ids)

(* Everything whose deadline has passed.                                   *)
Queued == pending \cup {u \in Uris : due[u] = "expired"}

SameRevision(t, docs) ==
    documents[t] # None /\ docs[t] # None /\ documents[t].rev = docs[t].rev

(* A bug: only the queries on u itself are told of its change.             *)
ConcernsSourceOnly(id, u) == asked[id].uri = u

Concerns(id, u) == UsesWorkspace(asked[id].kind) \/ asked[id].uri = u

(* The queries a change of document u, or of any file, invalidates.        *)
QueriesOn(u)     == {id \in Owed : Concerns(id, u)}
WorkspaceQueries == {id \in Owed : UsesWorkspace(asked[id].kind)}

(* Bugs: referrers that are not looked for, or are not synchronized.       *)
NoReferrers(t, docs) == {}
AnyFileReferrers(docs) ==
    {s \in Uris : dependencies[s] # None /\ dependencies[s].files}

(* refresh_link_diagnostics: the sources to diagnose again.                *)
LinkReferrers(t, docs) ==
    {s \in Synchronized(docs) \ {t} :
        dependencies[s] # None /\ t \in dependencies[s].targets}
FileReferrers(docs) ==
    {s \in Synchronized(docs) : dependencies[s] # None /\ dependencies[s].files}

(* A bug: the flag is set but the reply stays with the task.               *)
OnlyCancelled(work) == [work EXCEPT !.cancelled = TRUE]

Retired(work) == [work EXCEPT !.reply = None, !.cancelled = TRUE]

(* Live work that answers a query in ids, reads a document in sources, or  *)
(* diagnoses one in refreshed loses its reply and is cancelled.            *)
Retire(ids, sources, refreshed) ==
    [w \in Workers |->
        IF running[w] # None
           /\ \/ running[w].reply \in ids
              \/ running[w].uri \in sources
              \/ running[w].reply = "diagnostics" /\ running[w].uri \in refreshed
        THEN Retired(running[w]) ELSE running[w]]

Rearm(timers, refreshed) ==
    [u \in Uris |-> IF u \in refreshed THEN "armed" ELSE timers[u]]

Respond(ids, answer) ==
    [id \in Ids |-> IF id \in ids THEN answer ELSE responses[id]]

(* What these queries retain together.                                     *)
BytesOf(ids, kind) == Size[kind] * Cardinality({id \in ids : asked[id].kind = kind})
Bytes(ids) == BytesOf(ids, "document") + BytesOf(ids, "links")
              + BytesOf(ids, "references") + BytesOf(ids, "workspace")

(* A bug: what runs gives its bytes back a second time.                    *)
WithoutOwed(ids) ==
    /\ pending' = pending \ ids
    /\ pendingBytes' = pendingBytes - Bytes(ids)

(* The queue without these queries, each of which gives its bytes back.    *)
Without(ids) ==
    /\ pending' = pending \ ids
    /\ pendingBytes' = pendingBytes - Bytes(ids \cap pending)

(* reject_queries, invalidate_queries and refresh_link_diagnostics of one  *)
(* notification, and what they leave of the queues.                        *)
Invalidate(ids, answer, sources, timers, refreshed) ==
    /\ Without(ids)
    /\ running' = Retire(ids, sources, refreshed)
    /\ due' = Rearm(timers, refreshed)
    /\ earlier' = earlier \cap (Queued' \X Queued')
    /\ responses' = Respond(ids, answer)

-----------------------------------------------------------------------------
(* Client messages.                                                        *)

Receive(answer) ==
    /\ pc = "receive"
    /\ pc' = "drain"
    /\ reply' = answer
    /\ UNCHANGED <<tasks, answers, shown>>

Notification ==
    /\ state = "Running"
    /\ Receive(None)
    /\ UNCHANGED <<state, asked>>

Initialize ==
    /\ state = "Uninitialized"
    /\ Receive(None)
    /\ state' = "Running"
    /\ UNCHANGED <<server, queues, running, responses, publications, asked>>

QueueFull == Cardinality(pending) >= MaxPending

(* handle_message and queue_query: a query is refused unless the server is *)
(* running and its document open, and turned away when the queue, or its    *)
(* budget of bytes, is full.                                               *)
Query(id, request) ==
    LET accepted == /\ state = "Running"
                    /\ HasSource(request.kind) => documents[request.uri] # None
        busy     == QueueFull \/ Size[request.kind] > MaxBytes - pendingBytes
    IN
    /\ asked[id] = None
    /\ asked' = [asked EXCEPT ![id] = request]
    /\ Receive(CASE ~accepted        -> [id |-> id, answer |-> "refused"]
                 [] accepted /\ busy -> [id |-> id, answer |-> "busy"]
                 [] OTHER            -> None)
    /\ IF accepted /\ ~busy
       THEN /\ pending' = pending \cup {id}
            /\ pendingBytes' = pendingBytes + Size[request.kind]
            /\ earlier' = earlier \cup (Queued \X {id})
       ELSE UNCHANGED <<pending, pendingBytes, earlier>>
    /\ UNCHANGED <<state, server, due, running, responses, publications>>

NewDocument(synchronized) ==
    [rev |-> nextRev, synchronized |-> synchronized, outline |-> FALSE]

Write(u, document) ==
    /\ nextRev \in Revs
    /\ documents' = [documents EXCEPT ![u] = document]
    /\ nextRev' = nextRev + 1

AdvanceEpoch == scopeEpoch < MaxEpoch /\ scopeEpoch' = scopeEpoch + 1

DidOpen(u) ==
    /\ Notification
    /\ Write(u, NewDocument(TRUE))
    /\ AdvanceEpoch
    /\ Invalidate(QueriesOn(u), "changed", {u}, [due EXCEPT ![u] = "armed"],
                  FileReferrers(documents'))
    /\ UNCHANGED <<dependencies, publications>>

(* A newer version that applies.  A version that is not newer leaves the   *)
(* document as it is and invalidates nothing.                              *)
DidChange(u) ==
    /\ Notification
    /\ documents[u] # None
    /\ Write(u, NewDocument(TRUE))
    /\ Invalidate(QueriesOn(u), "changed", {u}, [due EXCEPT ![u] = "armed"],
                  LinkReferrers(u, documents'))
    /\ UNCHANGED <<scopeEpoch, dependencies, publications>>

(* A newer version that does not: the document is out of sync and what the *)
(* client shows of it is retracted.                                        *)
DidChangeBadly(u) ==
    /\ Notification
    /\ documents[u] # None
    /\ Write(u, NewDocument(FALSE))
    /\ Invalidate(QueriesOn(u), "changed", {u}, [due EXCEPT ![u] = None],
                  LinkReferrers(u, documents'))
    /\ publications' = [publications EXCEPT ![u] = Empty]
    /\ UNCHANGED <<scopeEpoch, dependencies>>

DidClose(u) ==
    /\ Notification
    /\ documents[u] # None
    /\ documents' = [documents EXCEPT ![u] = None]
    /\ AdvanceEpoch
    /\ dependencies' = [dependencies EXCEPT ![u] = None]
    /\ Invalidate(QueriesOn(u), "changed", {u}, [due EXCEPT ![u] = None],
                  FileReferrers(documents'))
    /\ publications' = [publications EXCEPT ![u] = Empty]
    /\ UNCHANGED nextRev

(* didRenameFiles, didChangeWatchedFiles and didChangeWorkspaceFolders.    *)
FilesChanged ==
    /\ Notification
    /\ AdvanceEpoch
    /\ Invalidate(WorkspaceQueries, "changed", {}, due, FileReferrers(documents))
    /\ UNCHANGED <<documents, nextRev, dependencies, publications>>

CancelRequest(id) ==
    /\ Notification
    /\ id \in Owed
    /\ Invalidate({id}, "cancelled", {}, due, {})
    /\ UNCHANGED <<server, publications>>

(* The response to shutdown itself is written after "outgoing".            *)
Shutdown ==
    /\ state = "Running"
    /\ Receive([id |-> None, answer |-> "null"])
    /\ state' = "Shutdown"
    /\ documents' = [u \in Uris |-> None]
    /\ dependencies' = [u \in Uris |-> None]
    /\ pending' = {}
    /\ pendingBytes' = pendingBytes - Bytes(pending)
    /\ due' = [u \in Uris |-> None]
    /\ earlier' = {}
    /\ running' = [w \in Workers |-> IF running[w] = None THEN None ELSE Retired(running[w])]
    /\ responses' = [id \in Ids |-> IF id \in Owed THEN "cancelled" ELSE None]
    /\ publications' = [u \in Uris |-> None]
    /\ UNCHANGED <<nextRev, scopeEpoch, asked>>

-----------------------------------------------------------------------------
(* The rest of a turn.                                                     *)

Deliver(rs, ps) ==
    /\ answers' = [id \in Ids |-> IF rs[id] # None THEN rs[id] ELSE answers[id]]
    /\ shown' = [u \in Uris |-> IF ps[u] # None THEN ps[u] ELSE shown[u]]
    /\ responses' = [id \in Ids |-> None]
    /\ publications' = [u \in Uris |-> None]
    /\ UNCHANGED asked

(* A bug: the response overtakes the messages already in "outgoing".       *)
DrainAfterResponse ==
    /\ pc = "drain"
    /\ pc' = IF reply = None THEN "complete" ELSE "respond"
    /\ UNCHANGED <<state, server, queues, running, tasks, output, client>>

Drain ==
    /\ pc = "drain"
    /\ pc' = IF reply = None THEN "complete" ELSE "respond"
    /\ Deliver(responses, publications)
    /\ UNCHANGED <<state, server, queues, running, tasks, reply>>

WriteResponse ==
    /\ pc = "respond"
    /\ pc' = "complete"
    /\ reply' = None
    /\ answers' = [id \in Ids |-> IF reply.id = id THEN reply.answer ELSE answers[id]]
    /\ UNCHANGED <<state, server, queues, running, tasks,
                   responses, publications, asked, shown>>

(* complete_cached_queries, then the second drain.  A query of the kind    *)
(* "document" is answered here if it asks for the outline and the cap on   *)
(* one turn's cached answers is not reached.                               *)
Cached == {id \in pending :
    /\ asked[id].kind = "document"
    /\ documents[asked[id].uri] # None
    /\ documents[asked[id].uri].outline}

CompleteCached ==
    /\ pc = "complete"
    /\ pc' = "start"
    /\ UNCHANGED <<state, server, due, running, tasks, reply>>
    /\ \E ids \in SUBSET Cached :
         /\ Without(ids)
         /\ earlier' = earlier \cap (Queued' \X Queued')
         /\ Deliver(Respond(ids, "ok"), publications)

(* A bug: only workspace work reserves a slot.                             *)
BusyWorkspace(uri, workspace) ==
    workspace /\ \E w \in Working : running[w].workspace

Busy(uri, workspace) ==
    \E w \in Working :
        \/ uri # None /\ running[w].uri = uri
        \/ workspace /\ running[w].workspace

EligibleQueries ==
    {id \in pending : ~Busy(asked[id].uri, UsesWorkspace(asked[id].kind))}
EligibleDiagnostics == {u \in Uris : due[u] = "expired" /\ ~Busy(u, FALSE)}
Eligible == EligibleQueries \cup EligibleDiagnostics

First(x) == x \in Eligible /\ \A y \in Eligible : <<y, x>> \notin earlier

CanStart == Working # Workers /\ Eligible # {}

Start(w, uri, workspace, live, kind) ==
    /\ pc = "start"
    /\ state = "Running"
    /\ running[w] = None
    /\ running' = [running EXCEPT ![w] =
           [uri |-> uri, workspace |-> workspace, reply |-> live,
            epoch |-> scopeEpoch, cancelled |-> FALSE]]
    /\ tasks' = [tasks EXCEPT ![w] =
           [docs |-> documents, kind |-> kind, result |-> "computing",
            targets |-> {}, files |-> FALSE]]
    /\ earlier' = earlier \cap (Queued' \X Queued')
    /\ UNCHANGED <<pc, state, server, output, client>>

StartQuery(w, id) ==
    /\ id \in pending
    /\ First(id)
    /\ Without({id})
    /\ due' = due
    /\ Start(w, asked[id].uri, UsesWorkspace(asked[id].kind), id, asked[id].kind)

StartDiagnostics(w, u) ==
    /\ First(u)
    /\ UNCHANGED <<pending, pendingBytes>>
    /\ due' = [due EXCEPT ![u] = None]
    /\ Start(w, u, FALSE, "diagnostics", "diagnostics")

StopStarting ==
    /\ pc = "start"
    /\ ~(state = "Running" /\ CanStart)
    /\ pc' = "receive"
    /\ UNCHANGED <<state, server, queues, running, tasks, output, client>>

(* A bug: the loop waits for messages and finished tasks only.             *)
NeverWake == FALSE

(* recv_timeout: next_deadline has passed.                                 *)
Wake ==
    /\ pc = "receive"
    /\ CanStart
    /\ pc' = "complete"
    /\ UNCHANGED <<state, server, queues, running, tasks, output, client>>

(* DIAGNOSTICS_DELAY elapses.  When it does so in mid-turn nothing differs *)
(* from its doing so at the end: what the turn queued has earlier deadlines.*)
Deadline(u) ==
    /\ pc = "receive"
    /\ due[u] = "armed"
    /\ due' = [due EXCEPT ![u] = "expired"]
    /\ earlier' = earlier \cup (Queued \X {u})
    /\ UNCHANGED <<pc, state, server, pending, pendingBytes, running, tasks, output, client>>

-----------------------------------------------------------------------------
(* Workers.                                                                *)

Analyzed(w, targets, files, result, caches) ==
    [docs |-> [u \in Uris |->
         IF caches /\ u = running[w].uri
         THEN [tasks[w].docs[u] EXCEPT !.outline = TRUE] ELSE tasks[w].docs[u]],
     kind |-> tasks[w].kind, result |-> result, targets |-> targets, files |-> files]

(* execute: what the task reads beside its source (a target is recorded    *)
(* before it is opened, and only after "files" is set) and how it ends.    *)
(* Nothing computes from a source that is out of sync, and a task stops    *)
(* early only when its flag is set.                                        *)
Analyze(w) ==
    /\ tasks[w] # None
    /\ tasks[w].result = "computing"
    /\ \E targets \in SUBSET ({u \in Uris : tasks[w].docs[u] # None} \ {running[w].uri}),
          files \in BOOLEAN, result \in {"ok", "failed", "cancelled"}, caches \in BOOLEAN :
         /\ targets # {} => files
         /\ files => ReadsTargets(tasks[w].kind)
         /\ tasks[w].kind = "workspace" /\ result = "ok" => files
         /\ result = "ok" /\ running[w].uri # None
                => running[w].uri \in Synchronized(tasks[w].docs)
         /\ result = "cancelled" => running[w].cancelled
         /\ caches => tasks[w].kind = "document" /\ result = "ok"
         /\ tasks' = [tasks EXCEPT ![w] = Analyzed(w, targets, files, result, caches)]
    /\ UNCHANGED <<pc, state, server, queues, running, output, client>>

(* finish_work: is what the task used still what the server has?           *)
Current(w) ==
    /\ running[w].uri # None =>
         /\ running[w].uri \in Synchronized(documents)
         /\ SameRevision(running[w].uri, tasks[w].docs)
    /\ \A t \in tasks[w].targets : SameRevision(t, tasks[w].docs)
    /\ tasks[w].files => running[w].epoch = scopeEpoch

Adopted(w) ==
    [u \in Uris |->
        IF u \in Synchronized(documents) /\ SameRevision(u, tasks[w].docs)
        THEN [documents[u] EXCEPT !.outline = @ \/ tasks[w].docs[u].outline]
        ELSE documents[u]]

BasisOf(w) ==
    [rev   |-> tasks[w].docs[running[w].uri].rev,
     used  |-> [t \in Uris |-> IF t \in tasks[w].targets
                               THEN tasks[w].docs[t].rev ELSE 0],
     epoch |-> IF tasks[w].files THEN running[w].epoch ELSE 0]

Finish(w) ==
    /\ pc = "receive"
    /\ running[w] # None
    /\ tasks[w].result # "computing"
    /\ pc' = "complete"
    /\ documents' = Adopted(w)
    /\ running' = [running EXCEPT ![w] = None]
    /\ tasks' = [tasks EXCEPT ![w] = None]
    /\ UNCHANGED <<state, nextRev, scopeEpoch, pending, pendingBytes, earlier, reply, client>>

FinishQuery(w) ==
    /\ Finish(w)
    /\ running[w].reply \in Ids
    /\ responses' = Respond({running[w].reply},
                           IF Current(w) THEN tasks[w].result ELSE "changed")
    /\ UNCHANGED <<due, dependencies, publications>>

(* Analysis that fails publishes an empty list, computed from the same.    *)
FinishDiagnostics(w) ==
    /\ Finish(w)
    /\ running[w].reply = "diagnostics"
    /\ Current(w)
    /\ dependencies' = [dependencies EXCEPT ![running[w].uri] =
           [targets |-> tasks[w].targets, files |-> tasks[w].files]]
    /\ publications' = [publications EXCEPT ![running[w].uri] = BasisOf(w)]
    /\ UNCHANGED <<due, responses>>

(* A bug: a stale diagnosis is dropped like a retired one.                 *)
DropStale(w) ==
    /\ Finish(w)
    /\ running[w].reply = "diagnostics"
    /\ ~Current(w)
    /\ UNCHANGED <<due, dependencies, responses, publications>>

Reschedule(w) ==
    /\ Finish(w)
    /\ running[w].reply = "diagnostics"
    /\ ~Current(w)
    /\ due' = [u \in Uris |->
           IF u = running[w].uri /\ u \in Synchronized(documents) /\ due[u] = None
           THEN "armed" ELSE due[u]]
    /\ UNCHANGED <<dependencies, responses, publications>>

(* A bug: a worker that was cancelled never reports.                       *)
NeverReported(w) == FALSE

FinishRetired(w) ==
    /\ Finish(w)
    /\ running[w].reply = None
    /\ UNCHANGED <<due, dependencies, responses, publications>>

-----------------------------------------------------------------------------
Init ==
    /\ pc = "receive"
    /\ state = "Uninitialized"
    /\ documents = [u \in Uris |-> None]
    /\ nextRev = 1
    /\ scopeEpoch = 1
    /\ pending = {}
    /\ pendingBytes = 0
    /\ due = [u \in Uris |-> None]
    /\ earlier = {}
    /\ dependencies = [u \in Uris |-> None]
    /\ running = [w \in Workers |-> None]
    /\ tasks = [w \in Workers |-> None]
    /\ responses = [id \in Ids |-> None]
    /\ publications = [u \in Uris |-> None]
    /\ reply = None
    /\ asked = [id \in Ids |-> None]
    /\ answers = [id \in Ids |-> None]
    /\ shown = [u \in Uris |-> Empty]

Requests == {r \in [kind : Kinds, uri : Uris \cup {None}] :
                HasSource(r.kind) <=> r.uri # None}

ClientStep ==
    \/ Initialize \/ Shutdown \/ FilesChanged
    \/ \E u \in Uris : DidOpen(u) \/ DidChange(u) \/ DidChangeBadly(u) \/ DidClose(u)
    \/ \E id \in Ids : CancelRequest(id) \/ \E r \in Requests : Query(id, r)

FinishWork(w) == FinishQuery(w) \/ FinishDiagnostics(w) \/ Reschedule(w) \/ FinishRetired(w)

StartWork == \E w \in Workers :
    \/ \E id \in Ids : StartQuery(w, id)
    \/ \E u \in Uris : StartDiagnostics(w, u)

ServerStep == Drain \/ WriteResponse \/ CompleteCached \/ StartWork \/ StopStarting \/ Wake

Next ==
    \/ ClientStep
    \/ ServerStep
    \/ \E u \in Uris : Deadline(u)
    \/ \E w \in Workers : Analyze(w) \/ FinishWork(w)

Spec == Init /\ [][Next]_vars
(* The server thread, its workers and its timers never stop; the client    *)
(* owes nothing.                                                           *)
Fairness ==
    /\ WF_vars(ServerStep)
    /\ \A u \in Uris : WF_vars(Deadline(u))
    /\ \A w \in Workers : WF_vars(Analyze(w)) /\ WF_vars(FinishWork(w))

FairSpec == Spec /\ Fairness

-----------------------------------------------------------------------------
(* Properties.                                                             *)

(* TypeOK: the shape of the state; the queue keeps its bound.              *)
TypeOK ==
    /\ pc \in {"receive", "drain", "respond", "complete", "start"}
    /\ state \in {"Uninitialized", "Running", "Shutdown"}
    /\ documents \in Documents
    /\ nextRev \in 1..(MaxRev + 1)
    /\ scopeEpoch \in Epochs
    /\ pending \subseteq Ids
    /\ IsFiniteSet(pending) /\ Cardinality(pending) <= MaxPending
    /\ due \in [Uris -> {None, "armed", "expired"}]
    /\ earlier \subseteq (Queued \X Queued)
    /\ dependencies \in [Uris -> Dependencies \cup {None}]
    /\ running \in [Workers -> RunningWork \cup {None}]
    /\ tasks \in [Workers -> Task \cup {None}]
    /\ responses \in [Ids -> Answers \cup {None}]
    /\ publications \in [Uris -> Basis \cup {None, Empty}]
    /\ reply \in Reply \cup {None}
    /\ asked \in [Ids -> Request \cup {None}]
    /\ answers \in [Ids -> Answers \cup {None}]
    /\ shown \in [Uris -> Basis \cup {Empty}]

(* AnsweredOnce: from the moment it is sent, a query is in exactly one     *)
(* place: the queue, one worker's slot, "outgoing", the handler's response *)
(* or the client's hands.  None is lost and none is answered twice,        *)
(* whatever cancels, edits, closes or shuts down while it runs.            *)
Whereabouts(id) ==
    {w \in Working : running[w].reply = id}
    \cup {p \in {"pending"}  : id \in pending}
    \cup {p \in {"outgoing"} : responses[id] # None}
    \cup {p \in {"response"} : reply # None /\ reply.id = id}
    \cup {p \in {"answered"} : answers[id] # None}

AnsweredOnce == \A id \in Ids :
    IF asked[id] = None THEN Whereabouts(id) = {}
    ELSE \E place \in Workers \cup {"pending", "outgoing", "response", "answered"} :
            Whereabouts(id) = {place}

(* BudgetIsExact: the budget is what the queued queries retain, whichever  *)
(* way they leave the queue, so that the subtraction that asks for room    *)
(* never wraps.                                                            *)
BudgetIsExact == pendingBytes = Bytes(pending) /\ pendingBytes <= MaxBytes

(* OneTaskPerScope: "One task per source, and at most one workspace scan"  *)
(* (server.rs:466), counting tasks whose reply was already retired.        *)
OneTaskPerScope == \A v, w \in Working : v # w =>
    /\ running[v].uri # None => running[v].uri # running[w].uri
    /\ ~(running[v].workspace /\ running[w].workspace)

(* LiveWorkIsCurrent: a task whose reply is still wanted was not told to   *)
(* stop, and its source, or for workspace work every document and the      *)
(* files, are what they were when it started; a task that gave up has no   *)
(* reply left to spoil.                                                    *)
SameDocument(u, docs) == (documents[u] = None /\ docs[u] = None) \/ SameRevision(u, docs)

LiveWorkIsCurrent == \A w \in Working :
    /\ running[w].cancelled <=> running[w].reply = None
    /\ tasks[w].result = "cancelled" => running[w].reply = None
    /\ running[w].reply # None =>
         /\ state = "Running"
         /\ running[w].uri # None => SameRevision(running[w].uri, tasks[w].docs)
         /\ running[w].workspace =>
              /\ running[w].epoch = scopeEpoch
              /\ \A u \in Uris : SameDocument(u, tasks[w].docs)

(* DiagnosticsCovered: the list shown for a synchronized document was      *)
(* computed from its present revision and from the present revisions of    *)
(* the targets and the epoch it used, or a computation is due, or one is   *)
(* running whose answer will be taken.  Exactly one of the last two.       *)
Showing(u) == IF publications[u] # None THEN publications[u] ELSE shown[u]

UpToDate(u, list) ==
    /\ list # Empty
    /\ list.rev = documents[u].rev
    /\ \A t \in Uris : list.used[t] # 0 =>
            documents[t] # None /\ documents[t].rev = list.used[t]
    /\ list.epoch \in {0, scopeEpoch}

Diagnosing(u) ==
    \E w \in Working : running[w].uri = u /\ running[w].reply = "diagnostics"

DiagnosticsCovered == \A u \in Synchronized(documents) :
    /\ due[u] # None \/ Diagnosing(u) \/ UpToDate(u, Showing(u))
    /\ ~(due[u] # None /\ Diagnosing(u))

(* ClosedIsRetracted: while the server runs, a closed or unsynchronized    *)
(* document shows nothing, and nothing is due or running that would.       *)
ClosedIsRetracted == state = "Running" =>
    \A u \in Uris \ Synchronized(documents) :
        Showing(u) = Empty /\ due[u] = None /\ ~Diagnosing(u)

(* SilentAfterShutdown: "Shutdown replies to all pending and running       *)
(* queries ... before its own response" (README.md:502), though some of    *)
(* those answers wait in "outgoing"; from then on the server shows nothing *)
(* more and no query succeeds, though tasks still finish.                  *)
SilentAfterShutdown == [][state = "Shutdown" =>
    /\ shown' = shown
    /\ \A id \in Ids : answers'[id] = "ok" => answers[id] = "ok"
    /\ pc = "respond" /\ reply.id = None
         => \A id \in Ids : asked[id] # None => answers[id] # None]_vars

(* EveryQueryAnswered: no accepted query waits forever.                    *)
EveryQueryAnswered == \A id \in Ids : asked[id] # None ~> answers[id] # None

(* DiagnosticsConverge: when the client stops editing, what it shows of    *)
(* every synchronized document becomes and stays up to date.               *)
DiagnosticsConverge == <>[](state = "Running" =>
    \A u \in Synchronized(documents) : due[u] = None /\ UpToDate(u, shown[u]))
(* ImplementsAtomicService: queues, deadlines, snapshots, workers, epochs  *)
(* and cancellation add up to a service that answers and publishes in one  *)
(* instant, from the documents and files of that instant.                  *)
AnswerTo(id) ==
    IF responses[id] # None THEN responses[id]
    ELSE IF reply # None /\ reply.id = id THEN reply.answer
    ELSE answers[id]

(* The service knows no outlines.                                          *)
ASSUME ServiceAssumption == None \notin [rev : Revs, synchronized : BOOLEAN]

Service == INSTANCE AtomicService WITH
    docs <- [u \in Uris |-> IF documents[u] = None THEN None
                ELSE [rev |-> documents[u].rev,
                      synchronized |-> documents[u].synchronized]],
    epoch <- scopeEpoch,
    answers <- [id \in Ids |-> AnswerTo(id)],
    shown <- [u \in Uris |-> Showing(u)],
    shutdown <- state = "Shutdown"

ImplementsAtomicService == Service!Spec
=============================================================================
