------------------------- MODULE DocumentStore_proof -------------------------
(***************************************************************************)
(* Proofs about DocumentStore for any number of documents, workers,        *)
(* addresses and versions: the invariants TLC checks on a small instance,  *)
(* and that the store implements RevisionStore.                            *)
(***************************************************************************)
EXTENDS DocumentStore, TLAPS

USE DEF Versions, Revs

Shape ==
    /\ heap \in [Addrs -> Texts \cup {Free}]
    /\ documents \in Documents
    /\ tasks \in [Workers -> Documents \cup {NoTask}]
    /\ index \in [Workers -> Index]
    /\ nextRev \in 1..(MaxRev + 1)

(* A snapshot of the very cell a document has now is not newer than it:    *)
(* the reason why a version that grew tells the two apart.                 *)
VersionsGrow ==
    \A w \in Workers, u \in Uris :
        /\ documents[u] # NoDoc
        /\ tasks[w] # NoTask
        /\ tasks[w][u] # NoDoc
        /\ documents[u].text = tasks[w][u].text
        => tasks[w][u].version <= documents[u].version

(* Serial numbers are never repeated, so that equal ones name one record.  *)
SerialsArePast ==
    /\ \A u \in Uris : documents[u] # NoDoc => documents[u].rev < nextRev
    /\ \A w \in Workers, u \in Uris : tasks[w] # NoTask /\ tasks[w][u] # NoDoc
            => tasks[w][u].rev < nextRev

SerialIsIdentity ==
    \A w \in Workers, u \in Uris :
        /\ documents[u] # NoDoc
        /\ tasks[w] # NoTask
        /\ tasks[w][u] # NoDoc
        /\ documents[u].rev = tasks[w][u].rev
        => SameRevision(documents[u], tasks[w][u])

Inv ==
    /\ Shape
    /\ TextIsOfRevision
    /\ OneVersionPerRecord
    /\ IdentityIsRevision
    /\ SummaryOfItsBuffer
    /\ VersionsGrow
    /\ SerialsArePast
    /\ SerialIsIdentity

-----------------------------------------------------------------------------
(* References are addresses, and a collected heap keeps every held cell.   *)

(* Whatever a record or an index entry points at is held.                *)
LEMMA HeldRefs ==
    ASSUME NEW docs, NEW tsks, NEW idx
    PROVE  /\ \A u \in Uris : docs[u] # NoDoc => docs[u].text \in Held(docs, tsks, idx)
           /\ \A w \in Workers, u \in Uris :
                tsks[w] # NoTask /\ tsks[w][u] # NoDoc
                    => tsks[w][u].text \in Held(docs, tsks, idx)
           /\ \A w \in Workers, u \in Uris :
                idx[w][u] # NoEntry => idx[w][u].text \in Held(docs, tsks, idx)
<1>1. \A u \in Uris : docs[u] # NoDoc => docs[u].text \in LiveTexts(docs)
  BY DEF LiveTexts, Open
<1>2. \A w \in Workers, u \in Uris :
        tsks[w] # NoTask /\ tsks[w][u] # NoDoc => tsks[w][u].text \in TaskTexts(tsks)
  BY DEF TaskTexts, LiveTexts, Open
<1>3. \A w \in Workers, u \in Uris :
        idx[w][u] # NoEntry => idx[w][u].text \in IndexTexts(idx)
  BY DEF IndexTexts
<1>. QED BY <1>1, <1>2, <1>3 DEF Held

(* Freeing what nothing holds leaves held texts alone.                   *)
LEMMA CollectKeeps ==
    ASSUME NEW h, NEW docs, NEW tsks, NEW idx, NEW a \in Addrs,
           a \in Held(docs, tsks, idx)
    PROVE  Collect(h, docs, tsks, idx)[a] = h[a]
BY DEF Collect

(* The allocator keeps the heap a function from addresses to texts.       *)
LEMMA CollectShape ==
    ASSUME NEW h \in [Addrs -> Texts \cup {Free}], NEW docs, NEW tsks, NEW idx
    PROVE  Collect(h, docs, tsks, idx) \in [Addrs -> Texts \cup {Free}]
BY DEF Collect

-----------------------------------------------------------------------------
(* All five ways to write a document have this in common: nobody else's    *)
(* cell changes, and a task that has the new record's cell has an older    *)
(* version of it.                                                          *)

GoodWrite(u, doc, cells) ==
    /\ nextRev \in Revs
    /\ doc \in Document
    /\ doc.rev = nextRev
    /\ cells \in [Addrs -> Texts \cup {Free}]
    /\ cells[doc.text] = doc.content
    /\ doc.lines = doc.content
    /\ doc.ast = None
    /\ doc.symbols = None
    /\ \A v \in Uris : v # u /\ documents[v] # NoDoc
            => cells[documents[v].text] = heap[documents[v].text]
    /\ \A w \in Workers, v \in Uris : tasks[w] # NoTask /\ tasks[w][v] # NoDoc
            => cells[tasks[w][v].text] = heap[tasks[w][v].text]
    /\ \A w \in Workers, v \in Uris : index[w][v] # NoEntry
            => cells[index[w][v].text] = heap[index[w][v].text]
    /\ \A w \in Workers : /\ tasks[w] # NoTask
                          /\ tasks[w][u] # NoDoc
                          /\ tasks[w][u].text = doc.text
            => tasks[w][u].version < doc.version

(* A write of a fresh or solely owned buffer keeps the invariant.        *)
LEMMA WritePreserves ==
    ASSUME Inv, NEW u \in Uris, NEW doc, NEW cells,
           GoodWrite(u, doc, cells), Write(u, doc, cells)
    PROVE  Inv'
<1>. USE DEF GoodWrite
<1>1. Shape'
  <2>1. documents' \in Documents BY DEF Write, Inv, Shape, Documents
  <2>2. heap' \in [Addrs -> Texts \cup {Free}] BY CollectShape DEF Write
  <2>3. nextRev' \in 1..(MaxRev + 1) BY BoundsAssumption DEF Write
  <2>. QED BY <2>1, <2>2, <2>3 DEF Write, Inv, Shape
<1>2. /\ \A v \in Uris : documents'[v] # NoDoc => heap'[documents'[v].text] = cells[documents'[v].text]
      /\ \A w \in Workers, v \in Uris : tasks'[w] # NoTask /\ tasks'[w][v] # NoDoc
            => heap'[tasks'[w][v].text] = cells[tasks'[w][v].text]
      /\ \A w \in Workers, v \in Uris : index'[w][v] # NoEntry
            => heap'[index'[w][v].text] = cells[index'[w][v].text]
  <2>1. heap' = Collect(cells, documents', tasks', index') BY DEF Write
  <2>2. /\ \A v \in Uris : documents'[v] # NoDoc => documents'[v].text \in Addrs
        /\ \A w \in Workers, v \in Uris : tasks'[w] # NoTask /\ tasks'[w][v] # NoDoc
              => tasks'[w][v].text \in Addrs
        /\ \A w \in Workers, v \in Uris : index'[w][v] # NoEntry => index'[w][v].text \in Addrs
    BY <1>1 DEF Shape, Documents, Document, Index, Summary
  <2>. QED BY <2>1, <2>2, HeldRefs, CollectKeeps
<1>3. documents'[u] = doc /\ \A v \in Uris : v # u => documents'[v] = documents[v]
  BY DEF Write, Inv, Shape, Documents
<1>4. tasks' = tasks /\ index' = index BY DEF Write
<1>5. doc # NoDoc BY NullsAssumption
<1>6. TextIsOfRevision'
  BY <1>2, <1>3, <1>4, <1>5 DEF Inv, TextIsOfRevision, HasItsText, Open
<1>7. OneVersionPerRecord'
  BY <1>2, <1>3, <1>4, <1>5 DEF Inv, OneVersionPerRecord, OfOneVersion, Open
<1>8. SummaryOfItsBuffer' BY <1>2, <1>4 DEF Inv, SummaryOfItsBuffer
<1>9. \A w \in Workers, v \in Uris : tasks[w] # NoTask /\ tasks[w][v] # NoDoc
         => tasks[w][v].version \in Nat
  BY BoundsAssumption DEF Inv, Shape, Documents, Document
<1>10. doc.version \in Nat BY BoundsAssumption DEF Document
<1>11. VersionsGrow'
  BY <1>3, <1>4, <1>9, <1>10 DEF Inv, VersionsGrow
<1>12. IdentityIsRevision'
  BY <1>3, <1>4, <1>9, <1>10 DEF Inv, IdentityIsRevision, SameRevision
<1>13. nextRev' = nextRev + 1 /\ nextRev \in Nat BY DEF Write
<1>14. \A w \in Workers, v \in Uris : tasks[w] # NoTask /\ tasks[w][v] # NoDoc
         => tasks[w][v].rev \in Nat
  BY BoundsAssumption DEF Inv, Shape, Documents, Document
<1>15. \A v \in Uris : documents[v] # NoDoc => documents[v].rev \in Nat
  BY BoundsAssumption DEF Inv, Shape, Documents, Document
<1>16. SerialsArePast'
  BY <1>3, <1>4, <1>5, <1>13, <1>14, <1>15 DEF Inv, SerialsArePast
<1>17. SerialIsIdentity'
  BY <1>3, <1>4, <1>13, <1>14 DEF Inv, SerialIsIdentity, SerialsArePast, SameRevision
<1>. QED BY <1>1, <1>6, <1>7, <1>8, <1>11, <1>12, <1>16, <1>17 DEF Inv

-----------------------------------------------------------------------------
(* The five writes are good ones.                                          *)

(* No record and no index entry points at a fresh address.               *)
LEMMA FreshIsNobodys ==
    ASSUME NEW a \in FreshAddrs
    PROVE  /\ a \in Addrs
           /\ \A u \in Uris : documents[u] # NoDoc => documents[u].text # a
           /\ \A w \in Workers, u \in Uris :
                tasks[w] # NoTask /\ tasks[w][u] # NoDoc => tasks[w][u].text # a
           /\ \A w \in Workers, u \in Uris :
                index[w][u] # NoEntry => index[w][u].text # a
BY HeldRefs DEF FreshAddrs

(* A new cell: an opened document, a replacement, an edit of a shared text.*)
LEMMA NewCellIsGood ==
    ASSUME Inv, nextRev \in Revs, NEW u \in Uris,
           NEW v \in Versions, NEW t \in Texts, NEW a \in FreshAddrs
    PROVE  GoodWrite(u, Revision(u, v, a, t, t, TRUE), [heap EXCEPT ![a] = t])
BY FreshIsNobodys DEF GoodWrite, Revision, Inv, Shape, Documents, Document, Index, Summary

(* An edit in place: make_mut found this to be the only reference.         *)
LEMMA InPlaceIsGood ==
    ASSUME Inv, NEW u \in Uris, Changeable(u), SoleReference(u),
           NEW v \in NewerVersions(u), NEW t \in Texts
    PROVE  GoodWrite(u, Revision(u, v, documents[u].text, t, t, TRUE),
                     [heap EXCEPT ![documents[u].text] = t])
<1>1. documents[u] \in Document BY DEF Inv, Shape, Documents, Changeable
<1>2. \A v1 \in Uris : v1 # u /\ documents[v1] # NoDoc
          => documents[v1].text # documents[u].text
  <2>1. SUFFICES ASSUME NEW v1 \in Uris, v1 # u, documents[v1] # NoDoc
                 PROVE  documents[v1].text \in LiveTexts([documents EXCEPT ![u] = NoDoc])
    BY DEF SoleReference
  <2>2. [documents EXCEPT ![u] = NoDoc][v1] = documents[v1]
    BY <2>1 DEF Inv, Shape, Documents
  <2>. QED BY <2>1, <2>2 DEF LiveTexts, Open
<1>3. \A w \in Workers, v1 \in Uris : tasks[w] # NoTask /\ tasks[w][v1] # NoDoc
          => tasks[w][v1].text # documents[u].text
  BY DEF SoleReference, TaskTexts, LiveTexts, Open
<1>4. \A w \in Workers, v1 \in Uris : index[w][v1] # NoEntry
          => index[w][v1].text # documents[u].text
  BY DEF SoleReference, IndexTexts
<1>. QED BY <1>1, <1>2, <1>3, <1>4
         DEF GoodWrite, Inv, Shape, Documents, Document, Index, Summary, Changeable,
             Revision, NewerVersions

(* A failed change keeps the cell: the newer version tells them apart.     *)
LEMMA FailIsGood ==
    ASSUME Inv, NEW u \in Uris, Changeable(u), NEW v \in NewerVersions(u)
    PROVE  GoodWrite(u, Revision(u, v, documents[u].text, documents[u].content,
                                 documents[u].lines, FALSE), heap)
<1>1. documents[u] \in Document BY DEF Inv, Shape, Documents, Changeable
<1>2. documents[u] # NoDoc BY DEF Changeable
<1>3. /\ heap[documents[u].text] = documents[u].content
      /\ documents[u].lines = documents[u].content
  BY <1>2 DEF Inv, TextIsOfRevision, HasItsText, OneVersionPerRecord, OfOneVersion, Open
<1>4. \A w \in Workers :
        /\ tasks[w] # NoTask
        /\ tasks[w][u] # NoDoc
        /\ tasks[w][u].text = documents[u].text
        => tasks[w][u].version < v
  <2>1. SUFFICES ASSUME NEW w \in Workers, tasks[w] # NoTask, tasks[w][u] # NoDoc,
                        tasks[w][u].text = documents[u].text
                 PROVE  tasks[w][u].version < v
    OBVIOUS
  <2>2. tasks[w][u].version <= documents[u].version
    BY <2>1, <1>2 DEF Inv, VersionsGrow
  <2>3. tasks[w][u].version \in Nat
    BY <2>1, BoundsAssumption DEF Inv, Shape, Documents, Document
  <2>. QED BY <2>2, <2>3, <1>1, BoundsAssumption DEF NewerVersions, Document
<1>. QED BY <1>1, <1>3, <1>4
         DEF GoodWrite, Inv, Shape, Changeable, Revision, NewerVersions, Document

-----------------------------------------------------------------------------
(* Steps that write no text: records stay what they were, except for the   *)
(* caches, which may be filled with what the record's own text gives.      *)

Derives(d, e) ==
    /\ e.version = d.version /\ e.text = d.text /\ e.lines = d.lines
    /\ e.synchronized = d.synchronized /\ e.rev = d.rev /\ e.content = d.content
    /\ e.ast \in {None, heap[d.text]}
    /\ e.symbols \in {None, heap[d.text]}
    /\ ~d.synchronized => e.ast = None /\ e.symbols = None

(* A step that only fills caches keeps the invariant.                    *)
LEMMA DerivePreserves ==
    ASSUME Inv, Shape', nextRev' = nextRev,
           \A u \in Uris : documents'[u] # NoDoc
              => documents[u] # NoDoc /\ Derives(documents[u], documents'[u]),
           \A w \in Workers : tasks'[w] # NoTask
              => /\ tasks[w] # NoTask
                 /\ \A u \in Uris : tasks'[w][u] # NoDoc
                       => tasks[w][u] # NoDoc /\ Derives(tasks[w][u], tasks'[w][u]),
           \A w \in Workers, u \in Uris : index'[w][u] # NoEntry
              => index'[w][u].headings = heap[index'[w][u].text],
           \A a \in Addrs : a \in Held(documents', tasks', index') => heap'[a] = heap[a]
    PROVE  Inv'
<1>1. /\ \A u \in Uris : documents'[u] # NoDoc => heap'[documents'[u].text] = heap[documents'[u].text]
      /\ \A w \in Workers, u \in Uris : tasks'[w] # NoTask /\ tasks'[w][u] # NoDoc
            => heap'[tasks'[w][u].text] = heap[tasks'[w][u].text]
      /\ \A w \in Workers, u \in Uris : index'[w][u] # NoEntry
            => heap'[index'[w][u].text] = heap[index'[w][u].text]
  <2>1. /\ \A u \in Uris : documents'[u] # NoDoc => documents'[u].text \in Addrs
        /\ \A w \in Workers, u \in Uris : tasks'[w] # NoTask /\ tasks'[w][u] # NoDoc
              => tasks'[w][u].text \in Addrs
        /\ \A w \in Workers, u \in Uris : index'[w][u] # NoEntry => index'[w][u].text \in Addrs
    BY DEF Shape, Documents, Document, Index, Summary
  <2>. QED BY <2>1, HeldRefs
<1>2. TextIsOfRevision'
  BY <1>1 DEF Inv, TextIsOfRevision, HasItsText, Open, Derives
<1>3. OneVersionPerRecord'
  BY <1>1 DEF Inv, OneVersionPerRecord, OfOneVersion, Open, Derives
<1>4. SummaryOfItsBuffer' BY <1>1 DEF SummaryOfItsBuffer
<1>5. VersionsGrow' BY DEF Inv, VersionsGrow, Derives
<1>6. IdentityIsRevision' BY DEF Inv, IdentityIsRevision, SameRevision, Derives
<1>7. SerialsArePast' BY DEF Inv, SerialsArePast, Derives
<1>8. SerialIsIdentity' BY DEF Inv, SerialIsIdentity, SameRevision, Derives
<1>. QED BY <1>2, <1>3, <1>4, <1>5, <1>6, <1>7, <1>8 DEF Inv

(* Every record derives itself.                                            *)
LEMMA DerivesItself ==
    ASSUME Inv
    PROVE  /\ \A u \in Uris : documents[u] # NoDoc => Derives(documents[u], documents[u])
           /\ \A w \in Workers, u \in Uris : tasks[w] # NoTask /\ tasks[w][u] # NoDoc
                => Derives(tasks[w][u], tasks[w][u])
BY DEF Inv, OneVersionPerRecord, OfOneVersion, Open, Derives

(* Freeing what nothing holds leaves every held text alone.              *)
LEMMA CollectHeld ==
    ASSUME NEW docs, NEW tsks, NEW idx, heap' = Collect(heap, docs, tsks, idx)
    PROVE  \A a \in Addrs : a \in Held(docs, tsks, idx) => heap'[a] = heap[a]
BY CollectKeeps

(* Closing a document keeps the invariant.                               *)
LEMMA ClosePreserves ==
    ASSUME Inv, NEW u \in Uris, DidClose(u)
    PROVE  Inv'
<1>1. Shape' BY CollectShape DEF DidClose, Inv, Shape, Documents
<1>2. tasks' = tasks /\ index' = index /\ nextRev' = nextRev BY DEF DidClose
<1>3. \A v \in Uris : documents'[v] # NoDoc => documents'[v] = documents[v]
  BY DEF DidClose, Inv, Shape, Documents
<1>4. \A a \in Addrs : a \in Held(documents', tasks', index') => heap'[a] = heap[a]
  BY <1>2, CollectHeld DEF DidClose
<1>5. \A w \in Workers, v \in Uris : index'[w][v] # NoEntry
         => index'[w][v].headings = heap[index'[w][v].text]
  BY <1>2 DEF Inv, SummaryOfItsBuffer
<1>. QED BY <1>1, <1>2, <1>3, <1>4, <1>5, DerivesItself, DerivePreserves

(* What a parse and an outline add to a snapshot's record.                 *)
Outlined(d) == [Parsed(d) EXCEPT !.symbols = Parsed(d).ast]

(* Parsing and outlining a snapshot derive records of its revision.      *)
LEMMA ParsedDerives ==
    ASSUME Inv, NEW w \in Workers, NEW u \in Uris, Analyzable(w, u)
    PROVE  /\ Derives(tasks[w][u], Parsed(tasks[w][u]))
           /\ Derives(tasks[w][u], Outlined(tasks[w][u]))
           /\ Parsed(tasks[w][u]) \in Document
           /\ Outlined(tasks[w][u]) \in Document
           /\ Parsed(tasks[w][u]).ast = heap[tasks[w][u].text]
<1>. DEFINE d == tasks[w][u]
<1>1. d \in Document BY DEF Inv, Shape, Documents, Analyzable
<1>2. Derives(d, d) /\ d.synchronized BY DerivesItself DEF Analyzable
<1>3. heap[d.text] = d.content
  BY DEF Inv, TextIsOfRevision, HasItsText, Open, Analyzable
<1>. HIDE DEF d
<1>4. heap[d.text] \in Texts BY <1>1, <1>3 DEF Document
<1>5. Derives(d, Parsed(d)) /\ Parsed(d) \in Document
  BY <1>1, <1>2, <1>4 DEF Parsed, Derives, Document
<1>6. Parsed(d).ast = heap[d.text]
  BY <1>1, <1>2, <1>4, NullsAssumption DEF Parsed, Derives, Document
<1>. DEFINE p == Parsed(d)
<1>7. p \in Document /\ Derives(d, p) /\ p.ast = heap[d.text] BY <1>5, <1>6
<1>. HIDE DEF p
<1>8. Derives(d, [p EXCEPT !.symbols = p.ast]) /\ [p EXCEPT !.symbols = p.ast] \in Document
  BY <1>2, <1>4, <1>7 DEF Derives, Document
<1>. QED BY <1>5, <1>6, <1>8 DEF d, p, Outlined

(* A worker that parses or outlines keeps the invariant.                 *)
LEMMA AnalyzePreserves ==
    ASSUME Inv, NEW w \in Workers, NEW u \in Uris,
           ParseSnapshot(w, u) \/ CacheSymbols(w, u)
    PROVE  Inv'
<1>1. Analyzable(w, u) BY DEF ParseSnapshot, CacheSymbols
<1>2. PICK e \in Document : /\ Derives(tasks[w][u], e)
                            /\ tasks' = [tasks EXCEPT ![w] = [tasks[w] EXCEPT ![u] = e]]
  <2>1. CASE ParseSnapshot(w, u) BY <2>1, <1>1, ParsedDerives DEF ParseSnapshot
  <2>2. CASE CacheSymbols(w, u)
    <3>1. tasks' = [tasks EXCEPT ![w] = [tasks[w] EXCEPT ![u] = Outlined(tasks[w][u])]]
      BY <2>2 DEF CacheSymbols, Outlined
    <3>. QED BY <3>1, <1>1, ParsedDerives
  <2>. QED BY <2>1, <2>2
<1>3. heap' = heap /\ documents' = documents /\ index' = index /\ nextRev' = nextRev
  BY DEF ParseSnapshot, CacheSymbols
<1>4. tasks[w] \in Documents /\ tasks[w] # NoTask BY <1>1 DEF Inv, Shape, Analyzable
<1>5. [tasks[w] EXCEPT ![u] = e] \in Documents BY <1>4 DEF Documents
<1>6. Shape' BY <1>2, <1>3, <1>5 DEF Inv, Shape
<1>7. /\ \A x \in Workers : x # w => tasks'[x] = tasks[x]
      /\ tasks'[w][u] = e
      /\ \A v \in Uris : v # u => tasks'[w][v] = tasks[w][v]
  BY <1>2, <1>4 DEF Inv, Shape, Documents
<1>8. \A x \in Workers : tasks'[x] # NoTask
        => /\ tasks[x] # NoTask
           /\ \A v \in Uris : tasks'[x][v] # NoDoc
                 => tasks[x][v] # NoDoc /\ Derives(tasks[x][v], tasks'[x][v])
  BY <1>1, <1>2, <1>4, <1>7, DerivesItself DEF Analyzable
<1>. QED BY <1>3, <1>6, <1>8, DerivesItself, DerivePreserves DEF Inv, SummaryOfItsBuffer

(* Handing out a snapshot keeps the invariant.                           *)
LEMMA StartPreserves ==
    ASSUME Inv, NEW w \in Workers, StartTask(w)
    PROVE  Inv'
<1>1. Shape' BY DEF StartTask, Inv, Shape
<1>2. heap' = heap /\ documents' = documents /\ index' = index BY DEF StartTask
<1>3. tasks'[w] = documents /\ \A x \in Workers : x # w => tasks'[x] = tasks[x]
  BY DEF StartTask, Inv, Shape
<1>4. \A u \in Uris : documents[u] # NoDoc => documents[u].version \in Nat
  BY BoundsAssumption DEF Inv, Shape, Documents, Document
<1>5. TextIsOfRevision' BY <1>2, <1>3 DEF Inv, TextIsOfRevision, HasItsText, Open
<1>6. OneVersionPerRecord' BY <1>2, <1>3 DEF Inv, OneVersionPerRecord, OfOneVersion, Open
<1>7. SummaryOfItsBuffer' BY <1>2 DEF Inv, SummaryOfItsBuffer
<1>8. VersionsGrow' BY <1>2, <1>3, <1>4 DEF Inv, VersionsGrow
<1>9. IdentityIsRevision' BY <1>2, <1>3 DEF Inv, IdentityIsRevision, SameRevision
<1>10. SerialsArePast' BY <1>2, <1>3 DEF Inv, SerialsArePast, StartTask
<1>11. SerialIsIdentity' BY <1>2, <1>3 DEF Inv, SerialIsIdentity, SameRevision
<1>. QED BY <1>1, <1>5, <1>6, <1>7, <1>8, <1>9, <1>10, <1>11 DEF Inv

(* Indexing the open buffers keeps the invariant.                        *)
LEMMA IndexPreserves ==
    ASSUME Inv, NEW w \in Workers, IndexBuffers(w)
    PROVE  Inv'
<1>1. PICK visited \in SUBSET {u \in Uris : Analyzable(w, u)} :
        LET stale == {u \in visited : ~SameBuffer(index[w][u], tasks[w][u])} IN
        /\ tasks' = [tasks EXCEPT ![w] =
                [u \in Uris |-> IF u \in stale THEN Parsed(tasks[w][u]) ELSE tasks[w][u]]]
        /\ index' = [index EXCEPT ![w] =
                [u \in Uris |->
                    IF tasks[w][u] = NoDoc THEN NoEntry
                    ELSE IF u \in stale
                         THEN [text |-> tasks[w][u].text,
                               headings |-> Parsed(tasks[w][u]).ast]
                         ELSE index[w][u]]]
  BY DEF IndexBuffers
<1>. DEFINE stale == {u \in visited : ~SameBuffer(index[w][u], tasks[w][u])}
            map == [u \in Uris |-> IF u \in stale THEN Parsed(tasks[w][u]) ELSE tasks[w][u]]
            bufs == [u \in Uris |->
                        IF tasks[w][u] = NoDoc THEN NoEntry
                        ELSE IF u \in stale
                             THEN [text |-> tasks[w][u].text,
                                   headings |-> Parsed(tasks[w][u]).ast]
                             ELSE index[w][u]]
<1>2. /\ tasks' = [tasks EXCEPT ![w] = map]
      /\ index' = [index EXCEPT ![w] = bufs]
      /\ documents' = documents
      /\ nextRev' = nextRev
      /\ heap' = Collect(heap, documents', tasks', index')
  BY <1>1 DEF IndexBuffers
<1>3. tasks[w] # NoTask /\ tasks[w] \in Documents /\ index[w] \in Index
  BY DEF IndexBuffers, Inv, Shape
<1>4. \A u \in stale : /\ u \in Uris
                       /\ tasks[w][u] # NoDoc
                       /\ Derives(tasks[w][u], Parsed(tasks[w][u]))
                       /\ Parsed(tasks[w][u]) \in Document
                       /\ Parsed(tasks[w][u]).ast = heap[tasks[w][u].text]
                       /\ heap[tasks[w][u].text] \in Texts
                       /\ tasks[w][u].text \in Addrs
  <2>1. SUFFICES ASSUME NEW u \in stale
                 PROVE  /\ u \in Uris
                        /\ tasks[w][u] # NoDoc
                        /\ Derives(tasks[w][u], Parsed(tasks[w][u]))
                        /\ Parsed(tasks[w][u]) \in Document
                        /\ Parsed(tasks[w][u]).ast = heap[tasks[w][u].text]
                        /\ heap[tasks[w][u].text] \in Texts
                        /\ tasks[w][u].text \in Addrs
    OBVIOUS
  <2>2. u \in Uris /\ Analyzable(w, u) OBVIOUS
  <2>3. tasks[w][u] \in Document BY <2>2 DEF Analyzable, Inv, Shape, Documents
  <2>4. heap[tasks[w][u].text] = tasks[w][u].content
    BY <2>2 DEF Analyzable, Inv, TextIsOfRevision, HasItsText, Open
  <2>. QED BY <2>2, <2>3, <2>4, ParsedDerives DEF Analyzable, Document
<1>. HIDE DEF stale
<1>5. map \in Documents BY <1>3, <1>4 DEF Documents
<1>6. bufs \in Index BY <1>3, <1>4 DEF Index, Summary
<1>7. \A u \in Uris : bufs[u] # NoEntry => bufs[u].headings = heap[bufs[u].text]
  BY <1>4 DEF Inv, SummaryOfItsBuffer
<1>8. \A u \in Uris : map[u] # NoDoc
        => tasks[w][u] # NoDoc /\ Derives(tasks[w][u], map[u])
  BY <1>3, <1>4, DerivesItself
<1>. HIDE DEF map, bufs
<1>9. Shape' BY <1>2, <1>5, <1>6, CollectShape DEF Inv, Shape
<1>10. /\ tasks'[w] = map /\ \A x \in Workers : x # w => tasks'[x] = tasks[x]
       /\ index'[w] = bufs /\ \A x \in Workers : x # w => index'[x] = index[x]
  BY <1>2 DEF Inv, Shape
<1>11. \A x \in Workers : tasks'[x] # NoTask
        => /\ tasks[x] # NoTask
           /\ \A v \in Uris : tasks'[x][v] # NoDoc
                 => tasks[x][v] # NoDoc /\ Derives(tasks[x][v], tasks'[x][v])
  BY <1>3, <1>8, <1>10, DerivesItself
<1>12. \A x \in Workers, u \in Uris : index'[x][u] # NoEntry
         => index'[x][u].headings = heap[index'[x][u].text]
  BY <1>7, <1>10 DEF Inv, SummaryOfItsBuffer
<1>13. \A a \in Addrs : a \in Held(documents', tasks', index') => heap'[a] = heap[a]
  BY <1>2, CollectHeld
<1>. QED BY <1>2, <1>9, <1>11, <1>12, <1>13, DerivesItself, DerivePreserves

(* Dropping the index keeps the invariant.                               *)
LEMMA ClearPreserves ==
    ASSUME Inv, NEW w \in Workers, ClearIndex(w)
    PROVE  Inv'
<1>1. Shape' BY CollectShape DEF ClearIndex, Inv, Shape, Index
<1>2. documents' = documents /\ tasks' = tasks /\ nextRev' = nextRev BY DEF ClearIndex
<1>3. \A x \in Workers, u \in Uris : index'[x][u] # NoEntry
         => index'[x][u].headings = heap[index'[x][u].text]
  BY DEF ClearIndex, Inv, Shape, SummaryOfItsBuffer
<1>4. \A a \in Addrs : a \in Held(documents', tasks', index') => heap'[a] = heap[a]
  BY <1>2, CollectHeld DEF ClearIndex
<1>. QED BY <1>1, <1>2, <1>3, <1>4, DerivesItself, DerivePreserves

(* Adoption fills a live cache with data of the same cell.                 *)
LEMMA AdoptDerives ==
    ASSUME Inv, NEW w \in Workers, tasks[w] # NoTask, NEW u \in Uris,
           documents[u] # NoDoc, tasks[w][u] # NoDoc
    PROVE  /\ Derives(documents[u], AdoptAst(documents[u], tasks[w][u]))
           /\ AdoptAst(documents[u], tasks[w][u]) \in Document
<1>. DEFINE d == documents[u]
            e == tasks[w][u]
<1>1. d \in Document /\ e \in Document BY DEF Inv, Shape, Documents
<1>2. Derives(d, d) /\ Derives(e, e) BY DerivesItself
<1>. HIDE DEF d, e
<1>3. ASSUME Matches(d, e)
      PROVE  Derives(d, AdoptAst(d, e)) /\ AdoptAst(d, e) \in Document
  <2>1. d.text = e.text /\ d.synchronized BY <1>3 DEF Matches, SameRevision
  <2>2. Derives(d, AdoptAlways(d, e)) /\ AdoptAlways(d, e) \in Document
    BY <1>1, <1>2, <2>1 DEF AdoptAlways, Derives, Document
  <2>. QED BY <1>3, <2>2 DEF AdoptAst
<1>4. ASSUME ~Matches(d, e)
      PROVE  Derives(d, AdoptAst(d, e)) /\ AdoptAst(d, e) \in Document
  BY <1>1, <1>2, <1>4 DEF AdoptAst
<1>. QED BY <1>3, <1>4 DEF d, e

(* Taking back what a worker computed keeps the invariant.               *)
LEMMA FinishPreserves ==
    ASSUME Inv, NEW w \in Workers, FinishTask(w)
    PROVE  Inv'
<1>1. tasks[w] # NoTask BY DEF FinishTask
<1>2. \A u \in Uris : documents'[u] =
         IF documents[u] # NoDoc /\ tasks[w][u] # NoDoc
         THEN AdoptAst(documents[u], tasks[w][u]) ELSE documents[u]
  BY DEF FinishTask
<1>3. documents' \in Documents
  BY <1>1, AdoptDerives DEF FinishTask, Inv, Shape, Documents
<1>4. Shape' BY <1>3, CollectShape DEF FinishTask, Inv, Shape
<1>5. \A u \in Uris : documents'[u] # NoDoc
         => documents[u] # NoDoc /\ Derives(documents[u], documents'[u])
  BY <1>1, <1>2, AdoptDerives, DerivesItself
<1>6. \A x \in Workers : tasks'[x] # NoTask => tasks'[x] = tasks[x]
  BY DEF FinishTask, Inv, Shape
<1>7. /\ index' = index /\ nextRev' = nextRev
      /\ \A a \in Addrs : a \in Held(documents', tasks', index') => heap'[a] = heap[a]
  BY CollectHeld DEF FinishTask
<1>8. \A x \in Workers, u \in Uris : index'[x][u] # NoEntry
         => index'[x][u].headings = heap[index'[x][u].text]
  BY <1>7 DEF Inv, SummaryOfItsBuffer
<1>. QED BY <1>4, <1>5, <1>6, <1>7, <1>8, DerivesItself, DerivePreserves

-----------------------------------------------------------------------------
(* The invariant holds of the empty store.                               *)
LEMMA InitInv == Init => Inv
<1>. SUFFICES ASSUME Init PROVE Inv OBVIOUS
<1>1. Shape BY BoundsAssumption DEF Init, Shape, Documents, Index
<1>. QED BY <1>1, NullsAssumption
         DEF Init, Inv, TextIsOfRevision, OneVersionPerRecord, IdentityIsRevision,
             SummaryOfItsBuffer, VersionsGrow, SerialsArePast, SerialIsIdentity, Open

(* Every step keeps the invariant.                                       *)
LEMMA NextInv == Inv /\ [Next]_vars => Inv'
<1>. SUFFICES ASSUME Inv, [Next]_vars PROVE Inv' OBVIOUS
<1>1. ASSUME NEW u \in Uris, DidOpen(u) PROVE Inv'
  BY <1>1, NewCellIsGood, WritePreserves DEF DidOpen
<1>2. ASSUME NEW u \in Uris, DidClose(u) PROVE Inv'
  BY <1>2, ClosePreserves
<1>3. ASSUME NEW u \in Uris, ReplaceText(u) PROVE Inv'
  BY <1>3, NewCellIsGood, WritePreserves DEF ReplaceText, NewerVersions, Changeable
<1>4. ASSUME NEW u \in Uris, EditInPlace(u) PROVE Inv'
  BY <1>4, InPlaceIsGood, WritePreserves DEF EditInPlace
<1>5. ASSUME NEW u \in Uris, EditCopy(u) PROVE Inv'
  BY <1>5, NewCellIsGood, WritePreserves DEF EditCopy, NewerVersions, Changeable
<1>6. ASSUME NEW u \in Uris, FailChange(u) PROVE Inv'
  BY <1>6, FailIsGood, WritePreserves DEF FailChange
<1>7. ASSUME NEW w \in Workers,
             StartTask(w) \/ IndexBuffers(w) \/ ClearIndex(w) \/ FinishTask(w)
      PROVE Inv'
  BY <1>7, StartPreserves, IndexPreserves, ClearPreserves, FinishPreserves
<1>8. ASSUME NEW w \in Workers, NEW u \in Uris, ParseSnapshot(w, u) \/ CacheSymbols(w, u)
      PROVE Inv'
  BY <1>8, AnalyzePreserves
<1>9. CASE UNCHANGED vars
  BY <1>9 DEF vars, Inv, Shape, TextIsOfRevision, HasItsText, OneVersionPerRecord,
              OfOneVersion, IdentityIsRevision, SummaryOfItsBuffer, VersionsGrow,
              SerialsArePast, SerialIsIdentity, SameRevision, Open
<1>. QED BY <1>1, <1>2, <1>3, <1>4, <1>5, <1>6, <1>7, <1>8, <1>9 DEF Next

(* In every reachable state the inductive invariant holds, whatever the    *)
(* number of documents, workers, addresses and edits.                      *)
THEOREM Invariance == Spec => []Inv
BY InitInv, NextInv, PTL DEF Spec

(* Typing: the state has its shape and nothing refers to a freed cell.     *)
THEOREM Typing == Spec => []TypeOK
<1>1. Inv => TypeOK
  <2>. SUFFICES ASSUME Inv PROVE TypeOK OBVIOUS
  <2>1. \A a \in LiveTexts(documents) : heap[a] # Free
    BY NullsAssumption
       DEF Inv, Shape, TextIsOfRevision, HasItsText, LiveTexts, Open, Documents, Document
  <2>2. \A a \in TaskTexts(tasks) : heap[a] # Free
    <3>1. SUFFICES ASSUME NEW w \in Workers, tasks[w] # NoTask,
                          NEW u \in Uris, tasks[w][u] # NoDoc
                   PROVE  heap[tasks[w][u].text] # Free
      BY DEF TaskTexts, LiveTexts, Open
    <3>2. tasks[w][u] \in Document BY <3>1 DEF Inv, Shape, Documents
    <3>3. heap[tasks[w][u].text] = tasks[w][u].content
      BY <3>1 DEF Inv, TextIsOfRevision, HasItsText, Open
    <3>. QED BY <3>2, <3>3, NullsAssumption DEF Document
  <2>3. \A a \in IndexTexts(index) : heap[a] # Free
    <3>1. SUFFICES ASSUME NEW w \in Workers, NEW u \in Uris, index[w][u] # NoEntry
                   PROVE  heap[index[w][u].text] # Free
      BY DEF IndexTexts
    <3>2. index[w][u] \in Summary BY <3>1 DEF Inv, Shape, Index
    <3>3. heap[index[w][u].text] = index[w][u].headings
      BY <3>1 DEF Inv, SummaryOfItsBuffer
    <3>. QED BY <3>2, <3>3, NullsAssumption DEF Summary
  <2>. QED BY <2>1, <2>2, <2>3 DEF Inv, Shape, TypeOK
<1>. QED BY <1>1, Invariance, PTL

(* No holder of a record ever sees another revision's text.                *)
THEOREM SnapshotsAreFrozen == Spec => []TextIsOfRevision
BY Invariance, PTL DEF Inv

(* Text, line index, AST and outline of a record are of one version.       *)
THEOREM RecordsAreConsistent == Spec => []OneVersionPerRecord
BY Invariance, PTL DEF Inv

(* Version and address identify a revision: adoption is never an ABA.      *)
THEOREM AdoptionIsSafe == Spec => []IdentityIsRevision
BY Invariance, PTL DEF Inv

(* A summary found by the address of its buffer summarizes that buffer.    *)
THEOREM SummariesAreCurrent == Spec => []SummaryOfItsBuffer
BY Invariance, PTL DEF Inv

-----------------------------------------------------------------------------
(* DocumentStore implements RevisionStore.                                 *)

snaps == [w \in Workers |-> IF tasks[w] = NoTask THEN NoTask ELSE AbstractDocs(tasks[w])]

(* The invariant gives the abstract store its shape.                     *)
LEMMA AbstractShape ==
    ASSUME Inv
    PROVE  /\ AbstractDocs(documents) \in [Uris -> AbstractDocument \cup {NoDoc}]
           /\ \A u \in Uris : AbstractDocs(documents)[u] = NoDoc <=> documents[u] = NoDoc
           /\ \A w \in Workers : tasks[w] # NoTask =>
                /\ snaps[w] = AbstractDocs(tasks[w])
                /\ snaps[w] # NoTask
                /\ \A u \in Uris : snaps[w][u] = NoDoc <=> tasks[w][u] = NoDoc
<1>1. \A u \in Uris : documents[u] # NoDoc => Abstract(documents[u]) \in AbstractDocument
  <2>1. SUFFICES ASSUME NEW u \in Uris, documents[u] # NoDoc
                 PROVE  Abstract(documents[u]) \in AbstractDocument
    OBVIOUS
  <2>2. documents[u] \in Document BY <2>1 DEF Inv, Shape, Documents
  <2>3. heap[documents[u].text] = documents[u].content
    BY <2>1 DEF Inv, TextIsOfRevision, HasItsText, Open
  <2>. QED BY <2>2, <2>3 DEF Abstract, AbstractDocument, Document
<1>2. \A w \in Workers, u \in Uris : tasks[w] # NoTask /\ tasks[w][u] # NoDoc
         => Abstract(tasks[w][u]) \in AbstractDocument
  <2>1. SUFFICES ASSUME NEW w \in Workers, NEW u \in Uris, tasks[w] # NoTask, tasks[w][u] # NoDoc
                 PROVE  Abstract(tasks[w][u]) \in AbstractDocument
    OBVIOUS
  <2>2. tasks[w][u] \in Document BY <2>1 DEF Inv, Shape, Documents
  <2>3. heap[tasks[w][u].text] = tasks[w][u].content
    BY <2>1 DEF Inv, TextIsOfRevision, HasItsText, Open
  <2>. QED BY <2>2, <2>3 DEF Abstract, AbstractDocument, Document
<1>3. \A w \in Workers : tasks[w] # NoTask
         => AbstractDocs(tasks[w]) \in [Uris -> AbstractDocument \cup {NoDoc}]
  BY <1>2 DEF AbstractDocs
<1>. QED BY <1>1, <1>2, <1>3, NullsAssumption DEF AbstractDocs, snaps

(* A write maps to an abstract write.                                      *)
LEMMA WriteRefines ==
    ASSUME Inv, NEW u \in Uris, NEW doc, NEW cells,
           GoodWrite(u, doc, cells), Write(u, doc, cells),
           \/ doc.synchronized = TRUE
           \/ /\ doc.synchronized = FALSE
              /\ documents[u] # NoDoc
              /\ doc.content = heap[documents[u].text]
    PROVE  Revisions!Write(u)
<1>. USE DEF GoodWrite
<1>1. Inv' BY WritePreserves
<1>2. documents'[u] = doc /\ \A v \in Uris : v # u => documents'[v] = documents[v]
  BY DEF Write, Inv, Shape, Documents
<1>3. tasks' = tasks BY DEF Write
<1>4. doc # NoDoc BY NullsAssumption
<1>5. heap'[doc.text] = doc.content
  BY <1>1, <1>2, <1>4 DEF Inv, TextIsOfRevision, HasItsText, Open
<1>6. \A v \in Uris : v # u /\ documents[v] # NoDoc
         => heap'[documents[v].text] = heap[documents[v].text]
  BY <1>1, <1>2 DEF Inv, TextIsOfRevision, HasItsText, Open
<1>7. \A w \in Workers, v \in Uris : tasks[w] # NoTask /\ tasks[w][v] # NoDoc
         => heap'[tasks[w][v].text] = heap[tasks[w][v].text]
  BY <1>1, <1>3 DEF Inv, TextIsOfRevision, HasItsText, Open
<1>8. snaps' = snaps
  BY <1>3, <1>7 DEF snaps, AbstractDocs, Abstract
<1>9. Abstract(doc)' = Revisions!Revision(doc.content, doc.synchronized)
  BY <1>5 DEF Abstract, Revisions!Revision
<1>. DEFINE new == Revisions!Revision(doc.content, doc.synchronized)
<1>10. AbstractDocs(documents)' = [AbstractDocs(documents) EXCEPT ![u] = new]
  <2>1. AbstractDocs(documents)'
          = [v \in Uris |-> IF documents'[v] = NoDoc THEN NoDoc
                            ELSE [rev |-> documents'[v].rev, text |-> heap'[documents'[v].text],
                                  synchronized |-> documents'[v].synchronized,
                                  ast |-> documents'[v].ast, symbols |-> documents'[v].symbols]]
    BY DEF AbstractDocs, Abstract
  <2>2. new = [rev |-> doc.rev, text |-> heap'[doc.text], synchronized |-> doc.synchronized,
               ast |-> doc.ast, symbols |-> doc.symbols]
    BY <1>5 DEF Revisions!Revision
  <2>. HIDE DEF new
  <2>. DEFINE f == AbstractDocs(documents)
              g == [v \in Uris |-> IF documents'[v] = NoDoc THEN NoDoc
                            ELSE [rev |-> documents'[v].rev, text |-> heap'[documents'[v].text],
                                  synchronized |-> documents'[v].synchronized,
                                  ast |-> documents'[v].ast, symbols |-> documents'[v].symbols]]
  <2>3. g[u] = new BY <2>2, <1>2, <1>4
  <2>4. \A v \in Uris : v # u => g[v] = f[v] BY <1>2, <1>6 DEF AbstractDocs, Abstract
  <2>5. f = [v \in Uris |-> f[v]] /\ g = [v \in Uris |-> g[v]] BY DEF AbstractDocs
  <2>6. f' = g BY <2>1
  <2>. HIDE DEF f, g
  <2>7. g = [f EXCEPT ![u] = new] BY <2>3, <2>4, <2>5
  <2>. QED BY <2>6, <2>7 DEF f
<1>11. /\ doc.content \in Texts
       /\ doc.synchronized = FALSE => AbstractDocs(documents)[u] # NoDoc
                                      /\ doc.content = AbstractDocs(documents)[u].text
  BY AbstractShape DEF Document, AbstractDocs, Abstract
<1>12. nextRev' = nextRev + 1 BY DEF Write
<1>13. doc.synchronized \in BOOLEAN BY DEF Document
<1>. HIDE DEF GoodWrite
<1>14. CASE doc.synchronized = TRUE
  BY <1>8, <1>10, <1>11, <1>12, <1>14 DEF Revisions!Write, snaps
<1>15. CASE doc.synchronized = FALSE
  BY <1>8, <1>10, <1>11, <1>12, <1>15 DEF Revisions!Write, snaps
<1>. QED BY <1>13, <1>14, <1>15

(* When held cells keep their content, unchanged records keep their        *)
(* abstraction.                                                            *)
KeepsHeap == \A a \in Addrs : a \in Held(documents', tasks', index') => heap'[a] = heap[a]

(* A step that keeps the heap keeps the text of every surviving record.  *)
LEMMA KeptRecords ==
    ASSUME Inv, Inv', KeepsHeap
    PROVE  /\ \A u \in Uris : documents'[u] # NoDoc
                => heap'[documents'[u].text] = heap[documents'[u].text]
           /\ \A w \in Workers, u \in Uris : tasks'[w] # NoTask /\ tasks'[w][u] # NoDoc
                => heap'[tasks'[w][u].text] = heap[tasks'[w][u].text]
<1>1. /\ \A u \in Uris : documents'[u] # NoDoc => documents'[u].text \in Addrs
      /\ \A w \in Workers, u \in Uris : tasks'[w] # NoTask /\ tasks'[w][u] # NoDoc
            => tasks'[w][u].text \in Addrs
  BY DEF Inv, Shape, Documents, Document
<1>. QED BY <1>1, HeldRefs DEF KeepsHeap

(* Unchanged tasks are unchanged abstract snapshots.                     *)
LEMMA SameTasksSameSnaps ==
    ASSUME Inv, Inv', KeepsHeap, tasks' = tasks
    PROVE  snaps' = snaps
BY KeptRecords DEF snaps, AbstractDocs, Abstract

(* Unchanged documents are unchanged abstract documents.                 *)
LEMMA SameDocsSameAbstract ==
    ASSUME Inv, Inv', KeepsHeap, documents' = documents
    PROVE  AbstractDocs(documents)' = AbstractDocs(documents)
BY KeptRecords DEF AbstractDocs, Abstract

(* Closing is an abstract close.                                         *)
LEMMA CloseRefines ==
    ASSUME Inv, Inv', NEW u \in Uris, DidClose(u)
    PROVE  Revisions!Close(u)
<1>1. KeepsHeap BY CollectHeld DEF DidClose, KeepsHeap
<1>2. snaps' = snaps BY <1>1, SameTasksSameSnaps DEF DidClose
<1>3. documents'[u] = NoDoc /\ \A v \in Uris : v # u => documents'[v] = documents[v]
  BY DEF DidClose, Inv, Shape, Documents
<1>4. AbstractDocs(documents)' = [AbstractDocs(documents) EXCEPT ![u] = NoDoc]
  BY <1>1, <1>3, KeptRecords DEF AbstractDocs, Abstract
<1>. QED BY <1>2, <1>4 DEF Revisions!Close, DidClose, snaps

(* Handing out a snapshot is an abstract one.                            *)
LEMMA StartRefines ==
    ASSUME Inv, Inv', NEW w \in Workers, StartTask(w)
    PROVE  Revisions!Take(w)
<1>1. AbstractDocs(documents)' = AbstractDocs(documents)
  BY DEF StartTask, AbstractDocs, Abstract
<1>2. tasks'[w] = documents /\ \A x \in Workers : x # w => tasks'[x] = tasks[x]
  BY DEF StartTask, Inv, Shape
<1>3. documents # NoTask BY NullsAssumption DEF Inv, Shape
<1>4. heap' = heap BY DEF StartTask
<1>5. snaps' = [snaps EXCEPT ![w] = AbstractDocs(documents)]
  BY <1>2, <1>3, <1>4 DEF snaps, AbstractDocs, Abstract
<1>6. snaps[w] = NoTask BY DEF snaps, StartTask
<1>. QED BY <1>1, <1>5, <1>6 DEF Revisions!Take, StartTask, snaps

(* Parsing one record, outlining it, or parsing a set of them.             *)
LEMMA DeriveRefines ==
    ASSUME Inv, Inv', KeepsHeap, NEW w \in Workers, tasks[w] # NoTask,
           documents' = documents, nextRev' = nextRev,
           NEW S \in SUBSET {u \in Uris : Analyzable(w, u)}, NEW outlined \in BOOLEAN,
           tasks' = [tasks EXCEPT ![w] =
                        [u \in Uris |-> IF u \in S
                                        THEN IF outlined THEN Outlined(tasks[w][u])
                                                         ELSE Parsed(tasks[w][u])
                                        ELSE tasks[w][u]]]
    PROVE  Revisions!Derive(w)
<1>1. AbstractDocs(documents)' = AbstractDocs(documents) BY SameDocsSameAbstract
<1>2. \A x \in Workers : x # w => tasks'[x] = tasks[x]
  BY DEF Inv, Shape
<1>3. \A u \in Uris : tasks'[w][u] = IF u \in S
                                     THEN IF outlined THEN Outlined(tasks[w][u])
                                                      ELSE Parsed(tasks[w][u])
                                     ELSE tasks[w][u]
  BY DEF Inv, Shape
<1>4. \A u \in S : u \in Uris /\ tasks[w][u] # NoDoc /\ tasks[w][u] \in Document
  BY DEF Analyzable, Inv, Shape, Documents
<1>5. \A u \in S : snaps[w][u] = Abstract(tasks[w][u])
  BY <1>4, AbstractShape DEF AbstractDocs
<1>6. tasks'[w] # NoTask
  <2>1. tasks'[w] \in Documents \/ tasks'[w] = NoTask BY DEF Inv, Shape
  <2>2. [u \in Uris |-> tasks'[w][u]] \in Documents
    BY <1>3, <1>4, ParsedDerives DEF Documents, Inv, Shape
  <2>3. tasks'[w] = [u \in Uris |-> tasks'[w][u]]
    <3>. DEFINE m == [u \in Uris |-> IF u \in S
                                     THEN IF outlined THEN Outlined(tasks[w][u])
                                                      ELSE Parsed(tasks[w][u])
                                     ELSE tasks[w][u]]
    <3>1. tasks'[w] = m BY DEF Inv, Shape
    <3>2. m = [u \in Uris |-> m[u]] OBVIOUS
    <3>. HIDE DEF m
    <3>. QED BY <3>1, <3>2
  <2>. QED BY <2>2, <2>3, NullsAssumption
<1>7. \A u \in S : /\ tasks'[w][u] # NoDoc
                   /\ Abstract(tasks[w][u])  = [rev |-> tasks[w][u].rev,
                         text |-> heap[tasks[w][u].text],
                         synchronized |-> tasks[w][u].synchronized,
                         ast |-> tasks[w][u].ast, symbols |-> tasks[w][u].symbols]
                   /\ Abstract(tasks'[w][u]) = Revisions!Derived(Abstract(tasks[w][u]), outlined)
                   /\ heap'[tasks'[w][u].text] = heap[tasks'[w][u].text]
  <2>1. SUFFICES ASSUME NEW u \in S
                 PROVE  /\ tasks'[w][u] # NoDoc
                        /\ Abstract(tasks'[w][u])
                             = Revisions!Derived(Abstract(tasks[w][u]), outlined)
                        /\ heap'[tasks'[w][u].text] = heap[tasks'[w][u].text]
    BY DEF Abstract
  <2>2. Analyzable(w, u) /\ u \in Uris OBVIOUS
  <2>3. tasks'[w][u] # NoDoc BY <1>3, <2>2, ParsedDerives, NullsAssumption
  <2>4. heap'[tasks'[w][u].text] = heap[tasks'[w][u].text]
    BY <2>2, <2>3, <1>6, KeptRecords
  <2>. DEFINE d == tasks[w][u]
  <2>5. /\ d \in Document
        /\ Parsed(d) \in Document
        /\ Derives(d, Parsed(d)) /\ Derives(d, Outlined(d))
        /\ Parsed(d).ast = heap[d.text]
    BY <2>2, <1>4, ParsedDerives
  <2>6. tasks'[w][u] = IF outlined THEN Outlined(d) ELSE Parsed(d) BY <2>2, <1>3
  <2>. HIDE DEF d
  <2>7. Parsed(d).symbols = d.symbols
    BY <2>5 DEF Parsed, Document
  <2>8. Outlined(d).ast = heap[d.text] /\ Outlined(d).symbols = heap[d.text]
    <3>. DEFINE p == Parsed(d)
    <3>1. p \in Document /\ p.ast = heap[d.text] BY <2>5
    <3>. HIDE DEF p
    <3>2. [p EXCEPT !.symbols = p.ast].ast = heap[d.text]
          /\ [p EXCEPT !.symbols = p.ast].symbols = heap[d.text]
      BY <3>1 DEF Document
    <3>. QED BY <3>2 DEF p, Outlined
  <2>9. Abstract(IF outlined THEN Outlined(d) ELSE Parsed(d))
          = Revisions!Derived(Abstract(d), outlined)
    <3>1. CASE outlined
      BY <2>5, <2>8, <3>1 DEF Abstract, Revisions!Derived, Derives
    <3>2. CASE ~outlined
      BY <2>5, <2>7, <3>2 DEF Abstract, Revisions!Derived, Derives
    <3>. QED BY <3>1, <3>2
  <2>. QED BY <2>3, <2>4, <2>6, <2>9 DEF d
<1>8. \A u \in Uris : u \notin S /\ tasks[w][u] # NoDoc
         => /\ tasks'[w][u] = tasks[w][u]
            /\ heap'[tasks[w][u].text] = heap[tasks[w][u].text]
  BY <1>3, <1>6, KeptRecords
<1>. DEFINE f == [u \in Uris |-> IF u \in S THEN Revisions!Derived(snaps[w][u], outlined)
                                            ELSE snaps[w][u]]
<1>9. AbstractDocs(tasks[w])' = f
  <2>1. AbstractDocs(tasks[w])'
          = [u \in Uris |-> IF tasks'[w][u] = NoDoc THEN NoDoc
                            ELSE [rev |-> tasks'[w][u].rev, text |-> heap'[tasks'[w][u].text],
                                  synchronized |-> tasks'[w][u].synchronized,
                                  ast |-> tasks'[w][u].ast, symbols |-> tasks'[w][u].symbols]]
    BY DEF AbstractDocs, Abstract
  <2>. DEFINE g == [u \in Uris |-> IF tasks'[w][u] = NoDoc THEN NoDoc
                            ELSE [rev |-> tasks'[w][u].rev, text |-> heap'[tasks'[w][u].text],
                                  synchronized |-> tasks'[w][u].synchronized,
                                  ast |-> tasks'[w][u].ast, symbols |-> tasks'[w][u].symbols]]
  <2>2. \A u \in S : g[u] = f[u]
    <3>1. SUFFICES ASSUME NEW u \in S PROVE g[u] = f[u] OBVIOUS
    <3>2. g[u] = Abstract(tasks'[w][u]) BY <1>7 DEF Abstract
    <3>3. f[u] = Revisions!Derived(Abstract(tasks[w][u]), outlined) BY <1>5
    <3>. HIDE DEF f, g
    <3>. QED BY <3>2, <3>3, <1>7
  <2>3. \A u \in Uris : u \notin S => g[u] = f[u]
    <3>1. SUFFICES ASSUME NEW u \in Uris, u \notin S PROVE g[u] = f[u] OBVIOUS
    <3>2. f[u] = snaps[w][u] BY <3>1
    <3>3. snaps[w][u] = IF tasks[w][u] = NoDoc THEN NoDoc ELSE Abstract(tasks[w][u])
      BY AbstractShape DEF AbstractDocs
    <3>4. tasks'[w][u] = tasks[w][u] BY <3>1, <1>3
    <3>. HIDE DEF f
    <3>. QED BY <3>1, <3>2, <3>3, <3>4, <1>8 DEF Abstract
  <2>4. f = [u \in Uris |-> f[u]] /\ g = [u \in Uris |-> g[u]] OBVIOUS
  <2>5. AbstractDocs(tasks[w])' = g BY <2>1
  <2>. HIDE DEF f, g
  <2>6. f = g BY <2>2, <2>3, <2>4
  <2>. QED BY <2>5, <2>6
<1>. HIDE DEF f
<1>10. \A x \in Workers : x # w => snaps'[x] = snaps[x]
  BY <1>2, KeptRecords DEF snaps, AbstractDocs, Abstract
<1>11. snaps'[w] = f BY <1>6, <1>9 DEF snaps
<1>12. snaps' = [snaps EXCEPT ![w] = f]
  <2>1. snaps = [x \in Workers |-> snaps[x]] BY DEF snaps
  <2>2. snaps' = [x \in Workers |-> snaps'[x]] BY DEF snaps
  <2>. QED BY <1>10, <1>11, <2>1, <2>2
<1>13. snaps[w] # NoTask /\ S \in SUBSET {u \in Uris : snaps[w][u] # NoDoc}
  BY <1>4, AbstractShape
<1>. QED BY <1>1, <1>12, <1>13 DEF Revisions!Derive, snaps, f

(* Parsing and outlining derive from an abstract snapshot.               *)
LEMMA AnalyzeRefines ==
    ASSUME Inv, Inv', NEW w \in Workers, NEW u \in Uris,
           ParseSnapshot(w, u) \/ CacheSymbols(w, u)
    PROVE  Revisions!Derive(w)
<1>1. Analyzable(w, u) /\ tasks[w] # NoTask BY DEF ParseSnapshot, CacheSymbols, Analyzable
<1>2. KeepsHeap /\ documents' = documents /\ nextRev' = nextRev
  BY DEF ParseSnapshot, CacheSymbols, KeepsHeap
<1>3. tasks[w] = [v \in Uris |-> tasks[w][v]] BY <1>1 DEF Inv, Shape, Documents
<1>4. PICK outlined \in BOOLEAN :
        tasks' = [tasks EXCEPT ![w] = [tasks[w] EXCEPT ![u] =
                    IF outlined THEN Outlined(tasks[w][u]) ELSE Parsed(tasks[w][u])]]
  <2>1. CASE ParseSnapshot(w, u) BY <2>1 DEF ParseSnapshot
  <2>2. CASE CacheSymbols(w, u) BY <2>2 DEF CacheSymbols, Outlined
  <2>. QED BY <2>1, <2>2
<1>5. [tasks[w] EXCEPT ![u] = IF outlined THEN Outlined(tasks[w][u]) ELSE Parsed(tasks[w][u])]
        = [v \in Uris |-> IF v \in {u} THEN IF outlined THEN Outlined(tasks[w][v])
                                                        ELSE Parsed(tasks[w][v])
                                       ELSE tasks[w][v]]
  BY <1>3
<1>6. tasks' = [tasks EXCEPT ![w] =
          [v \in Uris |-> IF v \in {u} THEN IF outlined THEN Outlined(tasks[w][v])
                                                        ELSE Parsed(tasks[w][v])
                                       ELSE tasks[w][v]]]
  BY <1>4, <1>5
<1>7. {u} \in SUBSET {v \in Uris : Analyzable(w, v)} BY <1>1
<1>. QED BY <1>1, <1>2, <1>6, <1>7, DeriveRefines

(* Indexing derives from an abstract snapshot.                           *)
LEMMA IndexRefines ==
    ASSUME Inv, Inv', NEW w \in Workers, IndexBuffers(w)
    PROVE  Revisions!Derive(w)
<1>1. PICK S \in SUBSET {u \in Uris : Analyzable(w, u)} :
        tasks' = [tasks EXCEPT ![w] =
                    [u \in Uris |-> IF u \in S THEN Parsed(tasks[w][u]) ELSE tasks[w][u]]]
  <2>1. PICK visited \in SUBSET {u \in Uris : Analyzable(w, u)} :
          LET stale == {u \in visited : ~SameBuffer(index[w][u], tasks[w][u])} IN
          tasks' = [tasks EXCEPT ![w] =
                [u \in Uris |-> IF u \in stale THEN Parsed(tasks[w][u]) ELSE tasks[w][u]]]
    BY DEF IndexBuffers
  <2>2. {u \in visited : ~SameBuffer(index[w][u], tasks[w][u])}
            \in SUBSET {u \in Uris : Analyzable(w, u)}
    OBVIOUS
  <2>. QED BY <2>1, <2>2
<1>2. tasks' = [tasks EXCEPT ![w] =
                  [u \in Uris |-> IF u \in S
                                  THEN IF FALSE THEN Outlined(tasks[w][u])
                                                ELSE Parsed(tasks[w][u])
                                  ELSE tasks[w][u]]]
  BY <1>1
<1>3. /\ KeepsHeap /\ tasks[w] # NoTask
      /\ documents' = documents /\ nextRev' = nextRev
  <2>1. heap' = Collect(heap, documents', tasks', index') BY DEF IndexBuffers
  <2>. QED BY <2>1, CollectHeld DEF IndexBuffers, KeepsHeap
<1>. QED BY <1>2, <1>3, DeriveRefines

(* Dropping the index is invisible.                                      *)
LEMMA ClearRefines ==
    ASSUME Inv, Inv', NEW w \in Workers, ClearIndex(w)
    PROVE  UNCHANGED Revisions!vars
<1>1. KeepsHeap BY CollectHeld DEF ClearIndex, KeepsHeap
<1>2. snaps' = snaps BY <1>1, SameTasksSameSnaps DEF ClearIndex
<1>3. AbstractDocs(documents)' = AbstractDocs(documents)
  BY <1>1, SameDocsSameAbstract DEF ClearIndex
<1>. QED BY <1>2, <1>3 DEF Revisions!vars, ClearIndex, snaps


(* Taking back a result is an abstract return.                           *)
LEMMA FinishRefines ==
    ASSUME Inv, Inv', NEW w \in Workers, FinishTask(w)
    PROVE  Revisions!Return(w)
<1>1. tasks[w] # NoTask BY DEF FinishTask
<1>2. KeepsHeap BY CollectHeld DEF FinishTask, KeepsHeap
<1>3. /\ tasks'[w] = NoTask
      /\ \A x \in Workers : x # w => tasks'[x] = tasks[x]
  BY DEF FinishTask, Inv, Shape
<1>4. snaps' = [snaps EXCEPT ![w] = NoTask]
  <2>1. snaps = [x \in Workers |-> snaps[x]] BY DEF snaps
  <2>2. snaps' = [x \in Workers |-> snaps'[x]] BY DEF snaps
  <2>3. \A x \in Workers : x # w => snaps'[x] = snaps[x]
    BY <1>2, <1>3, KeptRecords DEF snaps, AbstractDocs, Abstract
  <2>4. snaps'[w] = NoTask BY <1>3 DEF snaps
  <2>. QED BY <2>1, <2>2, <2>3, <2>4
<1>5. \A u \in Uris :
        AbstractDocs(documents)'[u]
           = Revisions!Adopt(AbstractDocs(documents)[u], snaps[w][u])
  <2>1. SUFFICES ASSUME NEW u \in Uris
                 PROVE  AbstractDocs(documents)'[u]
                          = Revisions!Adopt(AbstractDocs(documents)[u], snaps[w][u])
    OBVIOUS
  <2>2. AbstractDocs(documents)'[u] =
          IF documents'[u] = NoDoc THEN NoDoc
          ELSE [rev |-> documents'[u].rev, text |-> heap'[documents'[u].text],
                synchronized |-> documents'[u].synchronized,
                ast |-> documents'[u].ast, symbols |-> documents'[u].symbols]
    BY DEF AbstractDocs, Abstract
  <2>3. documents'[u] = IF documents[u] # NoDoc /\ tasks[w][u] # NoDoc
                        THEN AdoptAst(documents[u], tasks[w][u]) ELSE documents[u]
    BY DEF FinishTask
  <2>4. CASE documents[u] = NoDoc
    BY <2>2, <2>3, <2>4 DEF Revisions!Adopt, Revisions!SameRev, AbstractDocs
  <2>5. ASSUME documents[u] # NoDoc, tasks[w][u] = NoDoc
        PROVE  AbstractDocs(documents)'[u]
                 = Revisions!Adopt(AbstractDocs(documents)[u], snaps[w][u])
    <3>1. documents'[u] = documents[u] BY <2>3, <2>5
    <3>2. heap'[documents'[u].text] = heap[documents'[u].text]
      BY <1>2, <3>1, <2>5, KeptRecords
    <3>3. snaps[w][u] = NoDoc BY <1>1, <2>5, AbstractShape
    <3>. QED BY <2>2, <2>5, <3>1, <3>2, <3>3
             DEF Revisions!Adopt, Revisions!SameRev, AbstractDocs, Abstract
  <2>6. ASSUME documents[u] # NoDoc, tasks[w][u] # NoDoc
        PROVE  AbstractDocs(documents)'[u]
                 = Revisions!Adopt(AbstractDocs(documents)[u], snaps[w][u])
    <3>. DEFINE d == documents[u]
                e == tasks[w][u]
    <3>1. d \in Document /\ e \in Document BY <1>1, <2>6 DEF Inv, Shape, Documents
    <3>2. documents'[u] = AdoptAst(d, e) BY <2>3, <2>6
    <3>3. Derives(d, AdoptAst(d, e)) /\ AdoptAst(d, e) \in Document
      BY <1>1, <2>6, AdoptDerives
    <3>4. heap'[d.text] = heap[d.text] /\ documents'[u] # NoDoc
      BY <1>2, <2>6, <3>2, <3>3, NullsAssumption, KeptRecords DEF Derives
    <3>5. AbstractDocs(documents)[u] = Abstract(d) /\ snaps[w][u] = Abstract(e)
      BY <1>1, <2>6, AbstractShape DEF AbstractDocs
    <3>6. AbstractDocs(documents)[u] # NoDoc /\ snaps[w][u] # NoDoc
      BY <1>1, <2>6, AbstractShape
    <3>7. Matches(d, e) <=> (d.rev = e.rev /\ d.synchronized)
      BY <1>1, <2>6 DEF Inv, IdentityIsRevision, SerialIsIdentity, Matches, SameRevision
    <3>8. AbstractDocs(documents)'[u]
            = [rev |-> AdoptAst(d, e).rev, text |-> heap[d.text],
               synchronized |-> AdoptAst(d, e).synchronized,
               ast |-> AdoptAst(d, e).ast, symbols |-> AdoptAst(d, e).symbols]
      BY <2>2, <3>2, <3>3, <3>4 DEF Derives
    <3>. HIDE DEF d, e
    <3>9. CASE Matches(d, e)
      <4>1. /\ AdoptAst(d, e).rev = d.rev
            /\ AdoptAst(d, e).synchronized = d.synchronized
            /\ AdoptAst(d, e).ast = IF d.ast = None THEN e.ast ELSE d.ast
            /\ AdoptAst(d, e).symbols = IF d.symbols = None THEN e.symbols ELSE d.symbols
        BY <3>1, <3>9 DEF AdoptAst, AdoptAlways, Document
      <4>2. Revisions!SameRev(AbstractDocs(documents)[u], snaps[w][u])
        BY <3>5, <3>6, <3>7, <3>9 DEF Revisions!SameRev, Abstract
      <4>3. Revisions!Adopt(AbstractDocs(documents)[u], snaps[w][u])
              = [rev |-> d.rev, text |-> heap[d.text], synchronized |-> d.synchronized,
                 ast |-> IF d.ast = None THEN e.ast ELSE d.ast,
                 symbols |-> IF d.symbols = None THEN e.symbols ELSE d.symbols]
        BY <3>5, <4>2 DEF Revisions!Adopt, Abstract
      <4>. QED BY <3>8, <4>1, <4>3
    <3>10. CASE ~Matches(d, e)
      <4>1. ~Revisions!SameRev(AbstractDocs(documents)[u], snaps[w][u])
        BY <3>5, <3>7, <3>10 DEF Revisions!SameRev, Abstract
      <4>2. AdoptAst(d, e) = d BY <3>10 DEF AdoptAst
      <4>. QED BY <3>5, <3>8, <4>1, <4>2 DEF Revisions!Adopt, Abstract
    <3>. QED BY <3>9, <3>10
  <2>. QED BY <2>4, <2>5, <2>6
<1>6. AbstractDocs(documents)'
        = [u \in Uris |-> Revisions!Adopt(AbstractDocs(documents)[u], snaps[w][u])]
  <2>1. AbstractDocs(documents)' = [u \in Uris |-> AbstractDocs(documents)'[u]]
    BY DEF AbstractDocs
  <2>. QED BY <1>5, <2>1
<1>7. snaps[w] # NoTask BY <1>1, AbstractShape
<1>. QED BY <1>4, <1>6, <1>7 DEF Revisions!Return, FinishTask, snaps

(* The empty store is the empty abstract store.                          *)
LEMMA InitRefines == Init => Revisions!Init
BY DEF Init, Revisions!Init, AbstractDocs

(* Every step is an abstract step or invisible.                          *)
LEMMA NextRefines == Inv /\ Inv' /\ [Next]_vars => [Revisions!Next]_Revisions!vars
<1>. SUFFICES ASSUME Inv, Inv', [Next]_vars PROVE [Revisions!Next]_Revisions!vars OBVIOUS
<1>1. ASSUME NEW u \in Uris, DidOpen(u) \/ ReplaceText(u) \/ EditCopy(u)
      PROVE  Revisions!Write(u)
  <2>1. PICK v \in Versions, t \in Texts, a \in FreshAddrs :
          Write(u, Revision(u, v, a, t, t, TRUE), [heap EXCEPT ![a] = t])
    BY <1>1 DEF DidOpen, ReplaceText, EditCopy, NewerVersions
  <2>2. nextRev \in Revs BY <1>1 DEF DidOpen, ReplaceText, EditCopy, Changeable
  <2>. QED BY <2>1, <2>2, NewCellIsGood, WriteRefines DEF Revision
<1>2. ASSUME NEW u \in Uris, EditInPlace(u) PROVE Revisions!Write(u)
  <2>1. PICK v \in NewerVersions(u), t \in Texts :
          Write(u, Revision(u, v, documents[u].text, t, t, TRUE),
                [heap EXCEPT ![documents[u].text] = t])
    BY <1>2 DEF EditInPlace
  <2>. QED BY <1>2, <2>1, InPlaceIsGood, WriteRefines DEF Revision, EditInPlace
<1>3. ASSUME NEW u \in Uris, FailChange(u) PROVE Revisions!Write(u)
  <2>1. PICK v \in NewerVersions(u) :
          Write(u, Revision(u, v, documents[u].text, documents[u].content,
                            documents[u].lines, FALSE), heap)
    BY <1>3 DEF FailChange
  <2>2. documents[u] # NoDoc /\ Changeable(u) BY <1>3 DEF FailChange, Changeable
  <2>3. documents[u].content = heap[documents[u].text]
    BY <2>2 DEF Inv, TextIsOfRevision, HasItsText, Open
  <2>. QED BY <2>1, <2>2, <2>3, FailIsGood, WriteRefines DEF Revision
<1>4. ASSUME NEW u \in Uris, DidClose(u) PROVE Revisions!Close(u) BY <1>4, CloseRefines
<1>5. ASSUME NEW w \in Workers, StartTask(w) PROVE Revisions!Take(w) BY <1>5, StartRefines
<1>6. ASSUME NEW w \in Workers, IndexBuffers(w) PROVE Revisions!Derive(w) BY <1>6, IndexRefines
<1>7. ASSUME NEW w \in Workers, ClearIndex(w) PROVE UNCHANGED Revisions!vars
  BY <1>7, ClearRefines
<1>8. ASSUME NEW w \in Workers, FinishTask(w) PROVE Revisions!Return(w) BY <1>8, FinishRefines
<1>9. ASSUME NEW w \in Workers, NEW u \in Uris, ParseSnapshot(w, u) \/ CacheSymbols(w, u)
      PROVE  Revisions!Derive(w)
  BY <1>9, AnalyzeRefines
<1>10. CASE UNCHANGED vars
  <2>1. UNCHANGED Revisions!vars BY <1>10 DEF vars, Revisions!vars, AbstractDocs, Abstract
  <2>. QED BY <2>1
<1>. QED BY <1>1, <1>2, <1>3, <1>4, <1>5, <1>6, <1>7, <1>8, <1>9, <1>10
         DEF Next, Revisions!Next

(* Implementation: copy-on-write text, version and address tests implement *)
(* immutable snapshots and adoption by revision.                           *)
THEOREM Implementation == Spec => ImplementsRevisionStore
BY InitRefines, NextRefines, Invariance, PTL DEF Spec, ImplementsRevisionStore, Revisions!Spec
=============================================================================
