---------------------------- MODULE DocumentStore ----------------------------
(***************************************************************************)
(* Open documents of the language server (crates/lsp/src/document.rs), the *)
(* snapshots that analysis tasks clone from them (server.rs, start_work)   *)
(* and the buffer summaries a worker keeps (workspace_index.rs).           *)
(*                                                                         *)
(* Live text is an Arc<String> that is edited IN PLACE when nobody shares  *)
(* it and copied otherwise, and a worker's parse is handed back to the     *)
(* live document when the version and the ADDRESS of the text agree.  The  *)
(* heap is therefore explicit: an address names one cell, is reused once   *)
(* the last reference is dropped, and its content changes under whoever    *)
(* still holds it if an edit in place is ever wrong about sharing.         *)
(*                                                                         *)
(* A parse, an outline and a line index are modelled by the text they were *)
(* computed from: the parser is a function of the text.                    *)
(***************************************************************************)
EXTENDS Naturals

CONSTANTS
    Uris,        \* the document URIs a client opens
    Texts,       \* the contents a document can have
    Addrs,       \* heap addresses an Arc<String> can be given
    Workers,     \* the analysis workers
    MaxVersion,  \* bound: versions a client sends are 0..MaxVersion
    MaxRev,      \* bound: how many document revisions one behaviour makes
    NoDoc,       \* no document is open under a URI
    NoTask,      \* the worker holds no snapshot
    NoEntry,     \* the worker's index has no summary of a buffer
    None,        \* an empty AST or symbol cache
    Free         \* the content of an unallocated cell

ASSUME BoundsAssumption == MaxVersion \in Nat /\ MaxRev \in Nat

Versions == 0..MaxVersion
Revs     == 1..MaxRev

(* "rev" and "content" are history: the serial number of the write that    *)
(* made this revision, and the text the client meant it to have.           *)
Document == [version : Versions, text : Addrs, lines : Texts,
             synchronized : BOOLEAN,
             ast : Texts \cup {None}, symbols : Texts \cup {None},
             rev : Revs, content : Texts]

(* A buffer summary, with the Arc that gives it its identity.              *)
Summary == [text : Addrs, headings : Texts]

(* What is left of a record when versions and addresses are forgotten.     *)
AbstractDocument == [rev : Revs, text : Texts, synchronized : BOOLEAN,
                     ast : Texts \cup {None}, symbols : Texts \cup {None}]

Documents == [Uris -> Document \cup {NoDoc}]
Index     == [Uris -> Summary \cup {NoEntry}]

ASSUME NullsAssumption ==
    /\ NoDoc \notin Document \cup AbstractDocument
    /\ NoTask \notin Documents \cup [Uris -> AbstractDocument \cup {NoDoc}]
    /\ NoEntry \notin Summary
    /\ None \notin Texts
    /\ Free \notin Texts

VARIABLES
    heap,       \* the text cell at each address
    documents,  \* query.documents: the live documents, written by the server
    tasks,      \* the document map cloned into each worker's running task
    index,      \* the buffers map of each worker's workspace index
    nextRev     \* history: the next revision's serial number

vars == <<heap, documents, tasks, index, nextRev>>

-----------------------------------------------------------------------------
(* References.  Arc::strong_count is never read, but make_mut tests it and *)
(* the allocator reuses a cell when it reaches zero.                       *)

Open(docs) == {u \in Uris : docs[u] # NoDoc}

LiveTexts(docs) == {docs[u].text : u \in Open(docs)}

TaskTexts(tsks) ==
    UNION {LiveTexts(tsks[w]) : w \in {x \in Workers : tsks[x] # NoTask}}

IndexTexts(idx) ==
    UNION {{idx[w][u].text : u \in {v \in Uris : idx[w][v] # NoEntry}} : w \in Workers}

Held(docs, tsks, idx) == LiveTexts(docs) \cup TaskTexts(tsks) \cup IndexTexts(idx)

(* Cells whose last reference is gone are returned to the allocator.       *)
Collect(h, docs, tsks, idx) ==
    [a \in Addrs |-> IF a \in Held(docs, tsks, idx) THEN h[a] ELSE Free]

(* Bugs: an edit in place that overlooks the snapshots, or the summaries.  *)
SoleAmongBuffers(u) ==
    documents[u].text \notin
        (LiveTexts([documents EXCEPT ![u] = NoDoc]) \cup IndexTexts(index))

SoleAmongSnapshots(u) ==
    documents[u].text \notin
        (LiveTexts([documents EXCEPT ![u] = NoDoc]) \cup TaskTexts(tasks))

(* Arc::make_mut edits in place only when this is the sole reference.      *)
SoleReference(u) ==
    documents[u].text \notin
        (LiveTexts([documents EXCEPT ![u] = NoDoc]) \cup TaskTexts(tasks)
                                                   \cup IndexTexts(index))

(* Arc::new: the new cell exists before the replaced Arc is dropped.       *)
FreshAddrs == Addrs \ Held(documents, tasks, index)

-----------------------------------------------------------------------------
(* Identity of a revision.                                                 *)

(* A bug: trusting version numbers, which a reopened document repeats.     *)
SameVersionOnly(live, snapshot) ==
    /\ live.synchronized = snapshot.synchronized
    /\ live.version = snapshot.version

SameRevision(live, snapshot) ==
    /\ live.synchronized = snapshot.synchronized
    /\ live.version = snapshot.version
    /\ live.text = snapshot.text

Matches(live, snapshot) ==
    /\ live.synchronized
    /\ snapshot.synchronized
    /\ SameRevision(live, snapshot)

(* What adoption does; a bug if done without comparing revisions.          *)
AdoptAlways(live, snapshot) ==
    [live EXCEPT !.ast = IF live.ast = None THEN snapshot.ast ELSE @,
                 !.symbols = IF live.symbols = None THEN snapshot.symbols ELSE @]

AdoptAst(live, snapshot) ==
    IF Matches(live, snapshot) THEN AdoptAlways(live, snapshot) ELSE live

-----------------------------------------------------------------------------
(* Notifications.                                                          *)

(* What an accepted notification makes of a document's record.             *)
Revision(u, version, addr, text, lines, sync) ==
    [version |-> version, text |-> addr, lines |-> lines, synchronized |-> sync,
     ast |-> None, symbols |-> None, rev |-> nextRev, content |-> text]

Write(u, doc, cells) ==
    /\ documents' = [documents EXCEPT ![u] = doc]
    /\ heap' = Collect(cells, documents', tasks, index)
    /\ nextRev' = nextRev + 1
    /\ UNCHANGED <<tasks, index>>

DidOpen(u) ==
    /\ nextRev \in Revs
    /\ \E v \in Versions, t \in Texts, a \in FreshAddrs :
         Write(u, Revision(u, v, a, t, t, TRUE), [heap EXCEPT ![a] = t])

(* check_version comes first: a version that does not increase changes     *)
(* nothing.                                                                *)
NewerVersions(u) == {v \in Versions : v > documents[u].version}

Changeable(u) == nextRev \in Revs /\ documents[u] # NoDoc

(* A full replacement, alone or first in a batch, or any other batch of a  *)
(* synchronized document: the text is rebuilt and gets a cell of its own.  *)
ReplaceText(u) ==
    /\ Changeable(u)
    /\ \E v \in NewerVersions(u), t \in Texts, a \in FreshAddrs :
         Write(u, Revision(u, v, a, t, t, TRUE), [heap EXCEPT ![a] = t])

(* One ranged edit of a synchronized document: Arc::make_mut.              *)
EditInPlace(u) ==
    /\ Changeable(u)
    /\ documents[u].synchronized
    /\ SoleReference(u)
    /\ \E v \in NewerVersions(u), t \in Texts :
         LET a == documents[u].text IN
         Write(u, Revision(u, v, a, t, t, TRUE), [heap EXCEPT ![a] = t])

EditCopy(u) ==
    /\ Changeable(u)
    /\ documents[u].synchronized
    /\ ~SoleReference(u)
    /\ \E v \in NewerVersions(u), t \in Texts, a \in FreshAddrs :
         Write(u, Revision(u, v, a, t, t, TRUE), [heap EXCEPT ![a] = t])

(* A newer change that cannot be applied (a reversed or unknown range, a   *)
(* ranged edit of an unsynchronized document, a size limit) or decoded     *)
(* (Document::invalidate): the text stays, the document is out of sync.    *)
FailChange(u) ==
    /\ Changeable(u)
    /\ \E v \in NewerVersions(u) :
         LET d == documents[u] IN
         Write(u, Revision(u, v, d.text, d.content, d.lines, FALSE), heap)

DidClose(u) ==
    /\ documents[u] # NoDoc
    /\ documents' = [documents EXCEPT ![u] = NoDoc]
    /\ heap' = Collect(heap, documents', tasks, index)
    /\ UNCHANGED <<tasks, index, nextRev>>

-----------------------------------------------------------------------------
(* Analysis tasks.                                                         *)

(* start_work: Task { state: self.query.clone(), .. }                      *)
StartTask(w) ==
    /\ tasks[w] = NoTask
    /\ tasks' = [tasks EXCEPT ![w] = documents]
    /\ UNCHANGED <<heap, documents, index, nextRev>>

Analyzable(w, u) ==
    /\ tasks[w] # NoTask
    /\ tasks[w][u] # NoDoc
    /\ tasks[w][u].synchronized

(* Document::ast: parse what the snapshot's Arc points at, once.           *)
Parsed(d) == IF d.ast = None THEN [d EXCEPT !.ast = heap[d.text]] ELSE d

ParseSnapshot(w, u) ==
    /\ Analyzable(w, u)
    /\ tasks' = [tasks EXCEPT ![w][u] = Parsed(@)]
    /\ UNCHANGED <<heap, documents, index, nextRev>>

(* textDocument/documentSymbol: an outline under 1 MiB is cached.          *)
CacheSymbols(w, u) ==
    /\ Analyzable(w, u)
    /\ tasks[w][u].symbols = None
    /\ tasks' = [tasks EXCEPT ![w][u] = [Parsed(@) EXCEPT !.symbols = Parsed(tasks[w][u]).ast]]
    /\ UNCHANGED <<heap, documents, index, nextRev>>

SameBuffer(entry, d) == entry # NoEntry /\ entry.text = d.text

(* workspace/symbol over open buffers: summaries of closed buffers are     *)
(* dropped, a summary of this very Arc is reused, and the buffers visited  *)
(* before the scan ends (all, or those before an error) are summarized.    *)
IndexBuffers(w) ==
    /\ tasks[w] # NoTask
    /\ \E visited \in SUBSET {u \in Uris : Analyzable(w, u)} :
         LET stale == {u \in visited : ~SameBuffer(index[w][u], tasks[w][u])} IN
         /\ tasks' = [tasks EXCEPT ![w] =
                [u \in Uris |-> IF u \in stale THEN Parsed(tasks[w][u]) ELSE tasks[w][u]]]
         /\ index' = [index EXCEPT ![w] =
                [u \in Uris |->
                    IF tasks[w][u] = NoDoc THEN NoEntry
                    ELSE IF u \in stale
                         THEN [text |-> tasks[w][u].text,
                               headings |-> Parsed(tasks[w][u]).ast]
                         ELSE index[w][u]]]
    /\ heap' = Collect(heap, documents, tasks', index')
    /\ UNCHANGED <<documents, nextRev>>

(* The cache's byte limit, or a panic's fresh Index: every summary goes.   *)
ClearIndex(w) ==
    /\ index' = [index EXCEPT ![w] = [u \in Uris |-> NoEntry]]
    /\ heap' = Collect(heap, documents, tasks, index')
    /\ UNCHANGED <<documents, tasks, nextRev>>

(* finish_work: every live document may adopt what the task computed, and  *)
(* the task's state is dropped.                                            *)
FinishTask(w) ==
    /\ tasks[w] # NoTask
    /\ documents' = [u \in Uris |->
            IF documents[u] # NoDoc /\ tasks[w][u] # NoDoc
            THEN AdoptAst(documents[u], tasks[w][u])
            ELSE documents[u]]
    /\ tasks' = [tasks EXCEPT ![w] = NoTask]
    /\ heap' = Collect(heap, documents', tasks', index)
    /\ UNCHANGED <<index, nextRev>>

-----------------------------------------------------------------------------
Init ==
    /\ heap = [a \in Addrs |-> Free]
    /\ documents = [u \in Uris |-> NoDoc]
    /\ tasks = [w \in Workers |-> NoTask]
    /\ index = [w \in Workers |-> [u \in Uris |-> NoEntry]]
    /\ nextRev = 1

Next ==
    \/ \E u \in Uris :
         \/ DidOpen(u) \/ DidClose(u)
         \/ ReplaceText(u) \/ EditInPlace(u) \/ EditCopy(u) \/ FailChange(u)
    \/ \E w \in Workers :
         \/ StartTask(w) \/ IndexBuffers(w) \/ ClearIndex(w) \/ FinishTask(w)
         \/ \E u \in Uris : ParseSnapshot(w, u) \/ CacheSymbols(w, u)

Spec == Init /\ [][Next]_vars

-----------------------------------------------------------------------------
(* Properties.                                                             *)

(* TypeOK: the shape of the state; no document, snapshot or summary refers *)
(* to a cell the allocator has taken back.                                 *)
TypeOK ==
    /\ heap \in [Addrs -> Texts \cup {Free}]
    /\ documents \in Documents
    /\ tasks \in [Workers -> Documents \cup {NoTask}]
    /\ index \in [Workers -> Index]
    /\ nextRev \in 1..(MaxRev + 1)
    /\ \A a \in LiveTexts(documents) \cup TaskTexts(tasks) \cup IndexTexts(index) :
            heap[a] # Free

(* TextIsOfRevision: whoever holds a document record, the live store or a  *)
(* task started any number of edits ago, finds in the shared cell the text *)
(* of that record's own revision: editing in place, copying on write and   *)
(* reusing freed cells never change a text under a holder.                 *)
HasItsText(d) == heap[d.text] = d.content

TextIsOfRevision ==
    /\ \A u \in Open(documents) : HasItsText(documents[u])
    /\ \A w \in Workers : tasks[w] # NoTask =>
            \A u \in Open(tasks[w]) : HasItsText(tasks[w][u])

(* OneVersionPerRecord: "Text, line index and AST belong to one version"   *)
(* (document.rs:15), in live documents and in every task's snapshot.       *)
OfOneVersion(d) ==
    /\ d.lines = heap[d.text]
    /\ d.ast \in {None, heap[d.text]}
    /\ d.symbols \in {None, heap[d.text]}
    /\ ~d.synchronized => d.ast = None /\ d.symbols = None

OneVersionPerRecord ==
    /\ \A u \in Open(documents) : OfOneVersion(documents[u])
    /\ \A w \in Workers : tasks[w] # NoTask =>
            \A u \in Open(tasks[w]) : OfOneVersion(tasks[w][u])

(* IdentityIsRevision: the version and address test (same_revision) holds  *)
(* of a live document and a snapshot only if they are the same revision,   *)
(* although clients repeat versions after reopening a document and the     *)
(* allocator repeats addresses.                                            *)
IdentityIsRevision ==
    \A w \in Workers, u \in Uris :
        /\ documents[u] # NoDoc
        /\ tasks[w] # NoTask
        /\ tasks[w][u] # NoDoc
        /\ SameRevision(documents[u], tasks[w][u])
        => documents[u].rev = tasks[w][u].rev

(* SummaryOfItsBuffer: a worker's buffer summary outlives the task that    *)
(* made it, and is reused by address alone (Arc::ptr_eq): the text at that *)
(* address must still be the one summarized.                               *)
SummaryOfItsBuffer ==
    \A w \in Workers, u \in Uris :
        index[w][u] # NoEntry => index[w][u].headings = heap[index[w][u].text]

(* ImplementsRevisionStore: with addresses and versions forgotten, every   *)
(* behaviour is one in which snapshots are immutable values and caches are *)
(* adopted by revision.  The content is read through the heap.             *)
Abstract(d) ==
    [rev |-> d.rev, text |-> heap[d.text], synchronized |-> d.synchronized,
     ast |-> d.ast, symbols |-> d.symbols]

AbstractDocs(docs) ==
    [u \in Uris |-> IF docs[u] = NoDoc THEN NoDoc ELSE Abstract(docs[u])]

Revisions == INSTANCE RevisionStore WITH
    docs <- AbstractDocs(documents),
    snapshots <- [w \in Workers |->
                     IF tasks[w] = NoTask THEN NoTask ELSE AbstractDocs(tasks[w])]

ImplementsRevisionStore == Revisions!Spec
=============================================================================
