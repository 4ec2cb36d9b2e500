# A verification of yozora-rust

yozora-rust is a Markdown parser (a block processor, an inline processor, some
thirty tokenizers), a weaver that turns a tree into Markdown again, and a
language server built on them (`crates/lsp`).  This directory models them in
TLA+, checks the models with TLC on small instances and proves with TLAPS what
matters most for every value of the constants.

Every definition is a translation of the Rust source; the `map` of
`PROJECT.json` names the lines each one stands for.

## Inventory

| component | state | operations | hard behaviour |
|---|---|---|---|
| Document store (`lsp/document.rs`, `workspace_index.rs`) | URI -> version, `Arc<String>` text, line index, cached AST and outline, synchronized flag; per worker: buffer summaries | open, change (full, ranged, batch, failing), close, parse on demand, adoption of a worker's parse | text is edited in place when not shared, copied otherwise; identity is version + address, and both repeat |
| Server loop (`lsp/server.rs`) | queue of queries and its byte budget, diagnostics deadlines, running slots, epoch of the files, dependencies, outgoing messages, life-cycle state | every client message, finished work, deadlines, dispatch | results computed on old snapshots; cancellation; two scopes (document, workspace); shutdown while tasks run |
| Workers, cancellation (`worker.rs`, `cancellation.rs`) | a snapshot per task, a flag, a parser and an index that outlive tasks | execute, report, recover from panic | a flag set at any instant; state left half changed by a panic |
| Transport (`transport.rs`) | three kinds of threads, one one-slot event channel, one one-slot task channel per worker | read, write, end of input | threads blocked on each other's channels; end of input while tasks run |
| Watches (`server.rs`, `files.rs`) | pending and active registration, generation, serial | register, acknowledge, refuse, withdraw, folder changes | an acknowledgment that is late; a registration nobody remembers |
| Files and catalog (`files.rs`, `heading_index.rs`, `reference_index.rs`, `heading_references.rs`) | bounded journal of file events, catalogs of directories, summaries of files, each with the revision they were read at | record, scan, reuse | the journal forgets; a file changes while it is read |
| Analyses (`query.rs`, `analysis.rs`, `rename.rs`, ...) | none | one answer from one snapshot | data only; what they *read* is modelled by the server |
| Block processor (`core-parser/processor/block`) | stack of open blocks, index of the current one; parse frames | consume a line: continue, interrupt, open, continue lazily, roll back, close; parse tokens | a stack that shrinks while it is walked; lines fed again; hooks that ask for nodes of tokens |
| Inline processor (`core-parser/processor/inline`) | per priority: tokens, a common delimiter stack and one per hook; deferred ranges; parse frames | push, pair, cut stale delimiters, insert tokens of higher priority | two views of one stack that must agree; delimiters found earlier and kept |
| Parser, tokenizer registry (`core-parser/parser.rs`, `parser*`) | ordered hooks, index by name, fallback | use, replace, unmount, set the fallback | order by priority and age |
| Tokenizers (`tokenizer-*`, `core-tokenizer`) | tokens of one construct; delimiters a finder kept | eat opener, continuation, lazy continuation, close; find delimiters, pair; parse | resumed through the processors; tabs, positions, lines given back |
| Markup weaver (`markup-weaver`) | the text so far, indentation, ancestors with their escapers | weave each kind of node | escapes, blank lines and indentation that depend on everything around |
| Characters (`character`) | tables | look-up | none |
| AST utilities (`ast-util`), tests, suite | none | traversals | none that a caller can interleave |

Clients talk to the server over one stream.  A reader thread turns it into
messages, workers turn tasks into results, and both arrive at the server thread
over one channel; nothing but the cancellation flags and the `Arc`s of texts and
trees is shared.  A task owns a clone of the whole document map.  A worker's
analysis calls the parser: the block processor matches line by line and asks
each tokenizer's hook; paragraphs, headings, cells and titles go to the inline
processor; the schedulers of the parse phase turn the tokens of both into nodes.

### What makes the parts correct

* *Document store*: a record's text, line index, AST and outline are of one
  version; nobody's text changes under them; a worker's result is adopted
  exactly by the revision it was computed from.
* *Server loop*: every query is answered once; an answer is that of the documents
  and files at one instant between question and answer; the diagnostics shown
  are up to date or on their way; a closed document shows none; one task per
  document and one workspace scan; the byte budget is that of the queue;
  shutdown answers last and is silent after.
* *Transport, workers*: no two threads wait for each other for ever; the server
  ends when the client asks for it or disappears.
* *Watches, files*: whatever is reused without reading was true at the revision
  it claims, every change since is an event that was seen, and events are
  trusted only while the client watches the folders of the present.
* *Processors and tokenizers*: no character is lost, doubled or moved, whatever
  fails and is fed again; nodes nest; constructs bind as the Markdown
  specifications say; containers do not change what is inside them.
* *Registry, parse phase*: hooks are asked in the order of priority and age; a
  parse makes exactly the nodes of the tree of tokens, or fails as a whole.
* *Weaver*: what it writes is parsed to the nodes it was given, as far as it looks
  for what needs a backslash, an indentation or a blank line.

## The modules

| module | what it models | how it relates |
|---|---|---|
| `DocumentStore` | `document.rs`, and what `server.rs` and `workspace_index.rs` do to a document map | implements `RevisionStore` |
| `RevisionStore` | the promise: every write makes a revision, a snapshot is a value | |
| `LspServer` | the server thread, its two workers, cancellation, diagnostics, the queue's limits, shutdown | implements `AtomicService`; takes from `DocumentStore` that a document is its revision |
| `AtomicService` | the promise: answers and lists are those of one instant | |
| `MessageLoop` | the threads and channels under the server: reader, events, task channels, panics, the end | forgets what a message says; refines the interleaving `LspServer` assumes |
| `WatchRegistration` | the negotiation of file watches with the client | implements `FileWatch` |
| `FileWatch` | the promise: from an acceptance on, until the folders change, all of them are watched | `FileCatalog` is built on its actions |
| `FileCatalog` | disk, client, file events and revisions, the workers' catalog and summaries (`files.rs`, `workspace_index.rs`, `heading_references.rs`) | takes from `LspServer` that there is one workspace query at a time |
| `BlockProcessor` | the control of the match phase of the block parser, with every reply a tokenizer can give | `BlockMatcher` is the same control with the replies of the tokenizers there are |
| `Characters` | classes of characters, slices, scans that blocks and inlines share | extended by all below |
| `Tokenizers` | what each tokenizer registers itself as: name, priority, optional hooks; the lists of the three parsers | |
| `RawTokenizers`, `InlineTokenizers` | the match hooks of the inline tokenizers | |
| `InlineMatcher` | the inline processor: groups of one priority, stacks, deferred ranges | |
| `InlineProcessor` | a block of text that grows, and its tokens | the state machine over `InlineMatcher` |
| `InlineNodes` | the parse hooks of the inline tokenizers | |
| `BlockTokenizers`, `LeafTokenizers` | the match hooks of the block tokenizers | |
| `BlockMatcher` | the block processor with those hooks, and the parse hooks of blocks | |
| `Documents` | a whole parse: blocks, then the inlines with the definitions found | joins `BlockMatcher` and `InlineNodes` |
| `MarkupWeaver` | the weaver | extends `Documents` |
| `MarkdownBlocks` | a document that is fed line by line, its tree and its markup | the state machine over all of these |
| `ParseScheduler` | the frames on which parse hooks ask for nodes, of blocks and of inlines | |
| `Parser` | the registry's calls, then a parse | composes `Tokenizers` and `ParseScheduler` |
| `MC...` | symmetry, families of inputs and reference definitions for TLC; instances are in the `.cfg` files | |
| `..._proof` | the theorems, proved with TLAPS | extend the module they are about |

Definitions that a comment calls "a mutant" or "a bug" are not part of any
specification: each is a mutated form of the definition it precedes, and
`PROJECT.json` ("mutants") pairs it with the property that must notice it.

### DocumentStore and RevisionStore

Live text is an `Arc<String>`.  `Arc::make_mut` edits it in place when nobody
shares it and copies it otherwise; a parse is adopted by the live document when
synchronization flag, version and text *address* agree; a buffer summary is
reused when `Arc::ptr_eq` accepts its address.  Versions repeat after a close,
addresses after the last reference is gone.  The module therefore has an
explicit `heap` of cells (`Free` when unreferenced, collected by the same step
that drops the last reference), the live `documents`, one document map per task
(`tasks`: the clone `start_work` makes) and one map of summaries per worker
(`index`).  `rev` and `content` are history variables inside a record: which
write made it, and which text was meant.

Actions: `didOpen`, full and ranged changes, a batch of which a later edit fails,
stale versions, close, the clone for a task, parse and outline on the snapshot,
indexing of the workspace's buffers, adoption, and the end of a task.  An edit
is abstracted to "the text becomes t"; what a range denotes in UTF-16 is data.
`RevisionStore` has no addresses and no versions: the refinement mapping reads
each text through the heap.

### LspServer and AtomicService

`pc` is the step of one turn of `run_with_workers`: receive and handle one event,
drain `outgoing`, write the handler's response, answer cached outlines and drain
again, start work until none can start.  The turn is split there because
shutdown's response must come after what is in `outgoing`.  Each handler is one
action with everything it calls: `DidChange` includes `invalidate_queries` and
`refresh_link_diagnostics`.  Documents are revisions; deadlines are only
compared by the code, so they are the relation `earlier` and the states
`"armed"` and `"expired"`.  A worker analyzes in one step, between any two steps
of the server, on the documents its task was given, and reports which targets
and whether files were read; it can fail, and it stops early only if it was
told to.  `asked`, `answers` and `shown` are the client's view.

The queue has two limits, the number of queries and the sum of their sizes
(`MAX_PENDING_QUERIES`, `pending_query_bytes`).  `pendingBytes` is counted as the
code counts it, at every place a query enters or leaves, and `BudgetIsExact`
compares it with the queue; `Size` gives each query its size, so that a large
one is refused where a small one is taken.

`AtomicService` is what remains when queue, deadlines, workers, epochs and flags
are hidden: an edit answers at once the queries it invalidates, a success
comes from the source document as it stands, a list is published from
documents and files as they stand.

### MessageLoop

The reader thread, the server thread and the workers share a one-slot event
channel, and every worker has a one-slot task channel.  Each blocking call is an
action of its own (`PublishInput`, `Submit`, `PublishResult`), so waiting is a
state, and TLC's deadlock check says that no set of threads waits for itself:
the only state without another step is the one where all have ended (`Ended`).
A panic (`catch_unwind` in `worker.rs`) leaves parser and index `damaged` until
both are replaced.  `TakeLast`, `WriteFails` and `Stop` are the ways the server
ends.

### WatchRegistration

Dynamic registration is a conversation: the server asks for a watch of the local
roots, the client watches and then says so, or refuses, and meanwhile the folders
may have changed.  `pending` is the request under way with the generation of the
folders it is for, `active` the registration in use, `trusted` stands for
`file_revision` being `Some`.  `RequestFileWatches` is the function with its
early returns, called from three handlers; `WatchResponse` withdraws and asks
again when the acknowledgment is for folders that are gone.  The client
(`requests`, `responses`, `watches`) handles requests in any order.

What `FileCatalog` needs of all this is the module `FileWatch`, with three steps:
the client watches something else, perhaps with a promise that it covers the
present folders; the folders change and void the promise; the server hears of
it and trusts events.  What is promised or trusted stays watched until the folders
change; an older registration that is withdrawn meanwhile takes other roots away.
`ImplementsFileWatch` maps the promise to an acceptance by the client of the request
that is awaited, if that is of the present generation.

### BlockProcessor

`consume` is a walk along the stack of open blocks, so the model has one action
per outcome of a hook and a `phase` for where in `consume` the processor is
(walk, matched, open, lazy, fallback, idle).  Tokens are addressed by the path
of child indices, as `MatchBlockState::path` does.  A hook's reply depends on
characters; the model offers every reply the hook's kind of block has, and
seven kinds stand for all block tokenizers with the same replies (the module's
header lists them).  A definition is the one block that gives lines back, in
four ways: failing or losing its title, in continuation or when closed.  What a
nested processor makes of those lines is nondeterministic (`Rollbacks`): closed
blocks and a spine of open ones.  `lines` and `taken` follow the text.

### FileCatalog

A file that is not open is known to the server by what a worker read of it. The
module has the four parties this involves: the `disk` (`disk[p]` is the history
of a file; its content is how often it has changed), the client, which reports
changes under the roots in `watched` through `inbox`, late but in order, and
changes `watched` as `FileWatch!Watch` allows; the server with `epoch`
(`scope_epoch`), `revision` (`file_revision`) and the bounded `journal`
(`FileEvents`); and a worker with its `catalog` and `cache`. A `task` goes
through the phases of a workspace query: read the subject (references to a
heading of a closed file), establish the inventory (`Catalog::sources`: reuse or
walk), visit the files in order (reuse a summary or read), store the revision.
Disk, client and server go on between any two of these steps, and a task can
give up at each. Workspace symbols and references use their caches in the same
way, so the module follows one of them; a query of the other kind (`task.other`)
takes part with its use of the catalog. A generation of the catalog is only
compared with the present one, so a revision that was stored with an older one
is dropped when the generation advances.

`Due` is the yardstick: what the client had reported of a file when the query
began.  While no watch is in force nothing is reported, and then nothing may be
reused at all.

### The Markdown parser

`BlockProcessor` says what the control does whatever the tokenizers answer; the
modules from `Characters` to `MarkdownBlocks` say what it does with the answers
they give.  A text is a sequence of characters of ASCII.  Words of several
characters ("tick", "eol", "t0".."t3" for the four points a tab is stored as)
are the characters TLA+ has no convenient string for.

* `Tokenizers` has one constant per tokenizer with its name, its priority and the
  hooks it has beyond the required ones, and the sequences in which
  `parser-gfm`, `parser-gfm-ex` and `parser-yozora` register them.  `GroupsOf` are
  the runs of equal priority that the inline processor makes of such a list.
* `RawTokenizers` and `InlineTokenizers`: `Find` is where the next delimiter of a
  hook is; `IsPair`, `Pair` and `Single` are the optional hooks: the
  brackets of links, images and references, runs of emphasis and what remains of
  them, code spans, formulas, footnotes, deletions, breaks, raw HTML, autolinks.
* `InlineMatcher` is the processor: `Walk` runs one group over the text between
  the tokens of the groups before it and keeps what each finder found last
  (`Searched`), `Cut` takes stale branches off the common
  stack and off those of the hooks, `PairWith` settles a pair, and what lies
  inside is deferred to the later groups.
* `BlockTokenizers` and `LeafTokenizers` answer per hook: does a line open a block,
  interrupt the one before, continue it or show that it failed.  A line carries
  the columns before each character, so that a container may end inside a tab.
  Link definitions (several lines, several ways to fail), HTML blocks, tables and
  imports are read character by character in `LeafTokenizers`.
* `BlockMatcher` is `consume` and what it calls, one operator per step (`ContinueBlocks`, `InterruptSibling`,
  `OpenBlocks`, `GiveBack`, `Popup`, `LazyBlocks`, `Fallback`), because a
  nested processor runs the whole of it on lines that were given back.  `NodesOf`
  are the parse hooks of blocks: tightness of lists, what a paragraph or a code
  block keeps of its lines.
* `Documents` joins them: identifiers of definitions and footnote definitions are
  collected when their blocks close, the inlines of every paragraph, heading,
  cell and title are matched with them, `InlineNodes` makes the nodes.
* `MarkupWeaver` has an operator per weaver (`ItemMarkup`, `TableMarkup`, ...): a
  node becomes an opener, a content or children, a closer, and the characters its
  subtree must escape; `Weave` writes them with the indentation of the containers
  and the blank lines between blocks.
* `InlineProcessor` and `MarkdownBlocks` are the state machines: `Extend` adds a
  piece to a text, `ConsumeLine` a line to a document.  Their state holds the text
  and what the program makes of it at every step, so every prefix is checked.

These modules were compared with the repository's own tests: of the 724
documents of `src/fixtures` that are of ASCII and have no carriage returns, the
model of the yozora parser gives the recorded tree for 720, and the recorded
markup for 702 of the 703 that have one.  The others are gfm #512, which needs the
entity of a character outside ASCII, and #617, #620 and #621, whose trees are those
of the GFM parser without extended autolinks.

### Parser and ParseScheduler

`Parser` first makes calls and then parses.  A call that panics in the code (a
name that is taken) is not enabled.  `turn` and `placed` are history: which call
registered a name, and whether one was ever put before another.
`ReplaceTokenizer` keeps the place of a tokenizer of equal priority and moves any
other.

`ParseScheduler` is the explicit stack of `parse.rs`, once for blocks and once for
inlines: a frame per list of tokens, in it the generator of the hook at work,
which asks for the nodes of lists of tokens and waits.  `StepTokenList` and
`StepGenerator` are the two halves of the loop.  What a hook does is a constant
(`HookOf`), so that hooks of other authors have their place: `"lenient"` goes on
without the nodes it asked for, `"again"` asks for the token it is parsing,
`"panics"` fails.  `Settle` gives nodes or an error to the frame below; in the
inline phase nothing catches a panic and the parse ends.

## What the runs check

| run | question | instance | distinct states |
|---|---|---|---|
| `documents` | Is identity by version and address sound? Is a snapshot frozen, a summary that of its buffer? Does it all implement `RevisionStore`? | 1 URI, 2 texts, 4 addresses, 2 workers, versions 0..2, 4 revisions | 125 k |
| `server` | Is every query in one place and answered once, the budget that of the queue, one task per scope, live work current, shutdown silent, the service atomic? | 2 documents, one open at a time, 2 queries of 3 kinds, 2 workers, a queue of 2 and 3 bytes, 3 changes | 1.1 M |
| `coverage` | Is a shown list up to date, or its computation due or running, and does it become and stay up to date? | 2 documents, both open, 5 changes, no query | 410 k |
| `liveness` | Is every query answered? | 2 documents, one open at a time, 2 queries for the workspace scope, a queue of 1 and 2 bytes, 3 changes | 336 k |
| `threads` | Is there no deadlock, does the server never wait for a worker, is abandoned work told to stop, does the end of input end everything, do slots come back? | 2 workers, 2 waiting | 104 k |
| `watches` | Does the negotiation keep the promise of `FileWatch`, is no registration forgotten, does it settle? | 4 folders, 3 local, 2 roots, 2 changes of folders | 19 k |
| `files` | Is what a query says of closed files ever older than what the client had reported when it began? | 2 files, a journal of 1 path, 2 changes, 2 revisions, 2 events under way | 2.6 M |
| `references` | The same of files that were the subject of a query: violated, see Findings | 1 change | (stops) |
| `blocks` | Is no text lost or repeated, do closed blocks stay, does every line end, whatever tokenizers answer? | 3 lines, containers opened 3 deep | 120 k |
| `inlines` | Is every character in one token, no link in a link, do code and HTML bind tightest, is emphasis that of the specification? | six families of texts, of 4 to 7 pieces | 140 k |
| `markdown` | Are letters and nodes in place, do containers and tabs keep what is in them, is lazy continuation what it stands for, does the weaver keep nodes? | nine families of documents, of 3 or 4 lines | 23 k |
| `parser` | Are tokenizers asked by priority and age, tokens parsed once, the nodes those of the tree? | any 4 calls of 19; 6 shapes of 3 tokens with 6 block hooks, with 4 inline hooks | 60 k |

Some of these say more than their names:

* `AtomsBindTightest` computes the code spans, tags and autolinks of a text from
  left to right without the processor and expects each among its tokens.
* `EmphasisAsSpecified` compares with the algorithm "process emphasis" of the GFM
  specification, written down as a reference, on texts of stars, letters, blanks
  and punctuation.
* `TextInPlace` reads the letters of every node, including labels, destinations
  and titles, and compares them with the document between the node's two places;
  every letter is that of its line, so a lost, doubled or moved one shows.
* `QuotesKeepBlocks` and `ItemsKeepBlocks` put the document into a block quote or
  a list item and expect the same blocks inside, but for the tightness of lists
  (see Observations); `LazyLines` leaves out the last mark; `TabsCountColumns`
  writes every tab as the spaces it stands for.
* `WeavingKeepsNodes` weaves the tree of the document and parses the markup again.
  It is about trees for which the weavers put back every escape that is needed
  (`IsWeavable`, true of 8.4 k of the documents); see below for what that leaves out.
* `NodesOfTree` compares what a parse ends with and a recursion over the tree of
  tokens, the failures of hooks included.

Why the bounds are enough.  Aliasing in the store needs one live record, the
snapshots of two workers and one freed cell: four addresses, and a version that
repeats after a close.  The scheduler's conflicts are pairwise (one source, one
workspace scope) and two workers are the program's own number.  A change of the
client is a new revision or a new epoch (`Changes`; opening or closing a document is
both), and the constraints `FewChanges` and `ManyChanges` leave three and five of
them.  Three changes open a document, edit it, fail to edit it, report files or close
it while the two queries of `server` and `liveness` are under way.  They do not open
the second document, so in these runs links and diagnostics of one source contend,
and the workspace scope; that a query is never answered from a target that changed
rests, for any number of documents, on the theorems (`Implementation` of
`AtomicService_proof`).  `coverage` has no query and five changes: a source and a
target are open, and the target is edited, closed or desynchronized, or files change,
between start and end of a task, so that a diagnosis ends stale and `Reschedule` has
to find it; or a document is opened again.  The constraints cut off steps of the
client only, to which no fairness applies, and none of the server, so a server that
never gets to rest is still found.  `MaxPending` 1 makes the queue
full, and with `MaxBytes` 3 its bytes run out when its places do not.  In
`threads` one worker can wait for the event channel while the other holds a slot.
A watch can be acknowledged after the folders changed, and after they changed
back.  Two files and a journal of one path let events overflow it, a scan stop
between two files and one file be a query's subject while the other is not; two
revisions are one whole scan and a second that relies on it.  With three lines a
definition can open, start a title on the second line and fail on the third;
titles that begin on the third line and fail on the fourth have a family of four
lines (`TitleLines`).  Each family of `markdown` has the lines of constructs that
meet in one place of the code (containers; leaves; fences and definitions of
footnotes; link definitions; tabs; inlines over lines; imports; escapes), and
each family of `inlines` the delimiters that compete.  Four calls fill a list of
three, replace and remove; three tokens are the least with two lists below one
another, two tokens of one name side by side, and a list that two tokens share.
`MaxRev`, `MaxEpoch`, `MaxVersion`, `MaxQueued`, `MaxChanges`, `MaxInbox`,
`MaxGeneration`, `MaxLines`, `MaxDepth`, `FewChanges`, `ManyChanges`, `Families` and
`Scenarios` bound what the
code does not bound.  Deadlock is not checked where these bounds, or a server
that was shut down and has nothing to do, stop the system; it is checked in
`threads` and `blocks`.

Symmetry is used in safety runs only, over sets no definition looks into.

### Fairness

`LspServer!Fairness` and `MessageLoop!Fairness` are weak fairness of each thread:
the server loop never returns while its input lasts, the operating system
schedules every thread, a timer passes (`recv_timeout`), and an analysis
terminates.  The client owes nothing: no message of it is fair.
`SlotsComeBack` is conditional on a client that pauses, since nothing orders the
senders that wait for one channel: while a client sends without end a result
may wait without end.  `WatchesSettle` is the one property that needs the client:
it answers every request sooner or later, as JSON-RPC requires, but may refuse.
`BlockProcessor` needs that `consume` runs to its end.
References and rename need the document's scope and the workspace's at once, and
younger queries may overtake them for as long as new ones arrive; the code
accepts this (`server.rs`, at `start_work`).  With the finitely many queries of
`liveness` each is answered.

## What is proved

For every value of the constants allowed by the named assumptions
(`BoundsAssumption`, `NullsAssumption`, `ServiceAssumption`, `WorkersAssumption`, `FoldersAssumption`,
`LimitsAssumption`, `NoneAssumption`, `PathsAssumption`, `RootsAssumption`,
`SubjectsAssumption`, `CallsAssumption`, `TreesAssumption`: bounds are naturals, files and
folders are finitely many, every file is in one folder, calls are sequences and priorities
numbers, no token is inside itself and only whole lists of tokens are shared, as an
`Arc` allows, "nothing" is not a value, names of places are not names of threads):

* `DocumentStore_proof`: `Typing`, `SnapshotsAreFrozen`, `RecordsAreConsistent`,
  `AdoptionIsSafe`, `SummariesAreCurrent`, and `Implementation`, the refinement of
  `RevisionStore`.  The inductive invariant `Inv` adds to the properties that
  every reference denotes an allocated cell and that records at one address and
  version, live or copied, are of one revision: sharing is decided by what
  refers to a cell, so a claim about one record needs all of them.
* `LspServer_proof`: `Typing`, `QueriesAnsweredOnce`, `ScopesAreExclusive`,
  `LiveWorkStaysCurrent`, `BudgetStaysExact`.  `IInv` adds that `outgoing` and the response are empty
  outside the steps that fill them (a query would otherwise be in two places),
  that a slot is taken exactly when its worker has a task, that a queued query
  has its document, and that places of one id exclude each other.  The budget is
  exact because each way out of the queue gives back what lay in the queue and
  nothing else, so that its subtraction never wraps.
* `AtomicService_proof`: `ShutdownIsSilent`, `ClosedShowNothing`, `ListsAreCovered`
  and `Implementation`, the refinement of `AtomicService`.  A list is covered only
  because `diagnostic_dependencies` holds everything it was computed from
  (`Recorded`) and a target is only ever looked up in files (`TargetsAreInFiles`),
  so that every change of what a list used finds its document, arms it and
  retires the task that still computes it.  The refinement needs besides that lists
  wait in `outgoing` only until the next drain and that only synchronized
  documents have outlines.
* `MessageLoop_proof`: `Typing`, `SlotsAreTasks`, `ServerNeverWaits`, `WorkersLast`,
  `AbandonedWorkStops`, for any number of workers.  `SubmitNeverWaits` is not
  inductive: `SlotHoldsTask` says where the task of a slot is, and the thread a
  free slot belongs to is then waiting.
* `WatchRegistration_proof`: `TypeCorrect`, `TrustIsEarned`, `NoLeak`, and
  `Implementation`, the refinement of `FileWatch`, for any folders and any
  number of changes. `IInv` follows a registration through the conversation: its
  number is given once, the request is under way, or answered and then in force
  exactly if it was accepted; and what was asked for under the present
  generation is a watch of the present roots. `WatchInv` adds for the refinement
  that the last still holds after the shutdown, when nobody hears of the answer
  (`Asked`), and that nothing is asked for or trusted before the client is ready
  (`Quiet`). `TrustIsEarned` says more of one state than `FileWatch` does (one
  registration, not withdrawn, is of exactly the present roots), the refinement
  more of steps.
* `FileCatalog_proof`: `AnswersAreCurrent` and `InventoryStaysCurrent`, for any
  files and folders, any capacity of the journal, and any number of changes,
  queries and messages under way. The properties speak of the scan at work only;
  what it reuses was kept by earlier ones. `IInv` therefore says at every
  instant what the catalog, the summaries and the query under way may still be
  trusted for: a file the journal does not name since their revision is as they
  have it or its event has not arrived (`CatalogFollows`, `CacheFollows`,
  `TaskFollows`), and a revision from before the watch was lost lies behind the
  floor of the journal for ever (`Lost`). `BeforeScan` and `Scan` carry this
  from the start of a query to the visit of each file. `Watching` is what
  `FileWatch` provides: while events are trusted, or an acceptance that will be
  believed is under way, all present folders are watched. `KeepsToFileWatch`
  says that the module, with its events and revisions, does about watches what
  `FileWatch` allows; its client may do all of that, so that with
  `Implementation` what is proved of the reuse of files holds for the
  negotiation as it is.
* `BlockProcessor_proof`: `TextStays`, `ClosedStay`, `PathsStayValid`,
  `TextFindsItsPlace`, for documents of any length and depth and every reply of
  every hook.  Neither of the first two is inductive, since what is closed or put
  back depends on where the stack points.  `IInv` says that the tokens are a
  tree whose children are numbered without gaps and whose leaves have none
  (`IsTree`), that `state_stack` is the line of last children from the root
  (`IsStack`), that every line of text is in one token (`Holds`), that the line at
  hand is not yet in any (`LineOK`), and that text left over finds a container at
  the cursor (`CursorOK`).  Every operation of the processor (`popup`, `push`,
  `rollback`, `cut_stale_branch`, `interrupt_sibling`) is then shown once to take
  a `Fine` document to a `Fine` one: three small changes of a tree, a new last
  child, a last leaf gone, a token replaced (`Extends`, `Shrinks`, `Changes`), and
  what each does to tree, stack, text and closed blocks.  `GoodInterruptBySetext`
  and its like, one lemma for each action, put these together.
* `Parser_proof`, of the scheduler: `TokensInOneFrame`, for any hooks, calls and
  trees.  The theorem needs no more than that the frames are a sequence:
  `create_frame` refuses active tokens and `settle_frame` takes away exactly those
  of its frame; `TreesAssumption` is not used.
* `Parser_proof`, of the scheduler and a reference: `NodesAreOfTheTree`, for any
  hooks, calls and trees.  The reference is a recursive function over tokens, so it
  is shown first that it has a value for every token: the greatest token without
  one would have its children's (`SolutionExists`, a least counterexample in place
  of an induction), and what the value is for each hook (`NodeFollows`).  The
  inductive invariant `Working` says of every frame on the stack that its nodes
  are those of the tokens before `next`, that the batch at work is of the tokens
  just before `next` and of one hook, that the generator has the nodes of the
  tokens it asked for, that the frame above is for the children of the token asked
  for last, and that a failure it was given is one of the recursion (`Progress`,
  `Joined`).  Two steps need the tree: a list that a hook asks for is never
  refused as "cyclic or shared" unless the hook asked for its own tokens
  (`ChildrenRest`, since tokens ascend along the stack), and an inline failure,
  which throws all frames away, is a failure of the roots (`StackFails`).
* `Parser_proof`, of the registry: `NamesStayUnique` and `PriorityIsKept`, for any
  tokenizers and any calls.  Insertion at any index, removal and replacement in
  place keep the list free of doubles and the index its inverse.  The order is that
  of `turn`, the number of the call that registered a name: an insertion goes
  behind all of its priority and before the first that is lower, and a
  replacement in place keeps its turn.

Only model-checked: the liveness properties, and all of `inlines` and `markdown`, whose
modules are recursive algorithms over data.  Every other invariant and action
property of a passing run is a theorem.

## What is not modelled

* The branch of `Workers::submit` that reports "analysis worker stopped" and the
  one for a full channel: `SubmitNeverWaits` shows the states they are for do not
  occur.
* Header parsing in `transport.rs`, the protocol types and the answers of the
  analyses: input validation and functions of one snapshot.
* Path resolution, links, aliases and excluded directories; the cache of
  refactors, which is kept like that of symbols and compared with the disk before
  edits are published.
* Coordinates of edits (`LineIndex`) and the exact order of deadlines.
* Characters beyond ASCII: Unicode classes, case folding of labels, and most of
  the table of entities, which is a constant here; all are generated tables.
* Preset definitions, parse options and options of tokenizers other than the
  default ones: they add to what `Documents` is given or change a constant.
* The width of numbers: the start of an ordered list is a natural number.
* Serialization and accessors of the AST; the weaver of frontmatter, which no parser
  makes, its option for formulas, and the registration of weavers.
* `ast-util`: single passes over a tree that nobody else has, used by analyses only.
* Character tables, tests and benchmarks: data, or code that is only run by them.

`WeavingKeepsNodes` says nothing of the trees `IsWeavable` excludes, because the code
does not keep them (see Observations): text and words with punctuation that no
weaver puts a backslash before, marks beside marks, nodes without markup of their own,
lists that an indented blank line changes.  It does not tell apart what a document
may say in several ways (`Meant`): how a reference repeats its label, and blanks at the
ends of code, HTML and formulas.  No family has a link in an image in a link within
reach of every order of its brackets, so `NoLinkInLink` is checked for some of
them only.

## Findings

`ReferencesAreCurrent` is what `reference_index.rs` (line 64) says of its callers:
"Callers validate file-event revisions or current bytes before reusing reference
bindings and source ranges."  The run `references` shows a behaviour of
`heading_references.rs` that breaks it:

1. a query reads `b.md` and keeps its summary;
2. `b.md` changes;
3. a query whose subject is a heading of `b.md` (asked for at a link in another
   document) reads it on its own, scans that text, leaves the old summary in the
   index (`if subject.key == Key::File(..)`, line 246) and, complete, stores its
   revision for the index;
4. a query about another heading finds revision and catalog unchanged and takes
   the old summary through `Index::cached` (line 216), without reading `b.md`.

What it reports of `b.md` is wrong until another event names the file.  An event
for step 2 does not help: it is older than the revision stored in step 3.  If
`VisitSubject` drops the file's entry, `ReferencesAreCurrent` holds on the
instance of `files`.

## Observations

Not contradictions of anything the repository states, but worth knowing:

* `interrupt_sibling` asks its hook first and closes what is open below the
  sibling afterwards, then replaces the sibling by what the hook saw.  Text that
  closing would append is lost then; the default priorities (definitions and
  containers have the highest) keep this from happening, and the mutant
  `InterruptAnything` shows what custom priorities would do.
* When lines are given back inside a container and leave nothing open, `consume`
  continues the walk with the container itself, which is asked a second time
  about a line it already took its prefix from.  `> [foo]: /url`, `> "title`,
  `> # heading`, `>`, `> more` ends the blockquote at its blank line in this way.
* An edit of a link's target re-arms the deadline of each referrer, so a client
  that never pauses can postpone their diagnostics; `DiagnosticsConverge` is
  therefore about a client that stops editing.


Of the parser, met while its answers were compared with those of the Markdown
specifications; the models do as the code does:

* In a block quote a blank line between two items does not make a list loose:
  `> - a`, `>`, `> - b` is tight, `- a`, blank, `- b` is loose.  `refresh_position`
  (`processor/block/mod.rs:623`) moves the item's end behind the `>`, so that
  `calc_spread` sees no line between the items.  Blanks in the blank line have the
  same effect.  `QuotesKeepBlocks` and `ItemsKeepBlocks` therefore leave tightness
  out, and block quotes inside a tight list take over its tightness.
  `WeavingKeepsNodes` compares it.
* A line of blanks only, four or more, opens an indented code block.  A block quote
  inside another goes on without its own mark when the outer one has its.
* Lines that begin a definition, an admonition or a footnote definition are
  paragraph continuations after a paragraph, but leave a block quote when they have
  no mark; a line after an unfinished definition is not lazy.  Tables have the
  lazy continuation hook and no other.
* `count_of_precede_spaces` counts the points a tab is stored as, not columns.
* A label that goes over a line ends its definition when the destination is not on
  the line of its colon.
* The digits of an ordered item are accumulated before they are counted: more
  than nineteen overflow, which panics where overflow is checked.
* Rows of a table lose the cells its head has no column for.
* Emphasis: `a *_b*_` pairs the stars; `[a [b] c](u)` is one link; `[foo][bar](baz)`
  without definitions has no link.
* `<ab:c>` is an autolink behind a backslash too; `www.a.b/.` in parentheses keeps
  its dot, since trailing punctuation is cut once.
* Tokenizers registered before a named one can split the run of a priority, and
  put a lower priority ahead of a higher; `PriorityOrder` is about parsers without
  such calls.  A parser whose fallback was replaced by name or unmounted has none.

Of the weaver, found by taking conditions out of `IsWeavable`; all of them change the
nodes when the markup is parsed again:

* `TextWeaver` (`text.rs:20`) doubles backslashes only, and `RootWeaver` escapes marks of
  blocks only (`root.rs:45`), so outside emphasis and links the escapes of inline marks
  are lost: `\*a*` is woven `*a*`, `\[a](b)` a link, an escaped code span a code span.
  `fixtures/gfm` #310 is such a document; it records a tree and no markup.
* Of the marks of blocks, those of ordered items (`1\. a`), lines of `--` or `==`
  below a paragraph, and a list mark on the first line are not escaped
  (`list_marker` looks behind a line ending).
* `EmphasisWeaver` and `StrongWeaver` do not look beside them: `*a*_b_` becomes `*a**b*`,
  `**_a_**` becomes `***a***`.
* `CodeWeaver` makes its fence one longer than the marks its lines begin with: two marks
  when a line begins with one, which is no fence, and it does not see marks behind
  blanks.  `InlineCodeWeaver` writes no blanks around code that begins and ends
  with them.
* A thematic break is written `---`, except in lists of `-`: in another tight list it
  underlines the paragraph before it.  Paragraphs of a quote in a tight list run
  together.  A row whose first cell is empty begins with blanks only.
* The blank lines of a container are written with its indentation, and blanks in a
  blank line make a list tight: `- - a`, blank, `  - b` loses its looseness.
* An empty block quote before another block disappears, an empty formula becomes
  `$$$$`, an admonition inside another ends it, a link without a destination loses
  its title to it.  A full reference whose text is its label becomes a collapsed
  one (the same to a reader).
* Inline HTML in a cell or in the title of an admonition looks for its siblings among the
  wrong nodes (`HtmlWeaver::is_block_level`) and can leave their range.

## Plan

What the modules leave open, in the order of its worth:

1. `Scheduler`: the exact order of `next_deadline` and `start_work`.
2. Coordinates: descending batches of edits and the line index (`document.rs`),
   validation of renames and refactors.
3. `ast-util`: unique identifiers of headings, replacement of footnotes, removal
   during a traversal.
4. Preset definitions and parse options, as inputs of `Documents`.
