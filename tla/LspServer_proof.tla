---------------------------- MODULE LspServer_proof ----------------------------
(***************************************************************************)
(* Proofs about LspServer, for any number of documents, requests, workers, *)
(* revisions and epochs: the state keeps its shape and the queue its       *)
(* bound, a source or the workspace is analysed by one task at a time,     *)
(* every query is in exactly one place until it is answered once, and work *)
(* whose reply is still wanted is about the present documents.             *)
(***************************************************************************)
EXTENDS LspServer, TLAPS, FiniteSetTheorems

-----------------------------------------------------------------------------
(* The inductive invariant.                                                *)

(* Between two events nothing waits to be written, which is what lets      *)
(* shutdown clear "outgoing" without losing an answer.                     *)
OutputFollowsTurn ==
    /\ pc \in {"receive", "complete", "start"} => reply = None
    /\ pc = "respond" => reply # None
    /\ pc \in {"receive", "respond", "start"} => \A id \in Ids : responses[id] = None

(* A slot holds work exactly while its worker holds the task, and the      *)
(* slot's scope is that of the query or the diagnostics it answers.        *)
SlotMatches(w) ==
    /\ running[w] = None <=> tasks[w] = None
    /\ running[w] # None =>
         /\ running[w].reply = "diagnostics" => running[w].uri # None /\ ~running[w].workspace
         /\ running[w].reply \in Ids =>
              /\ asked[running[w].reply] # None
              /\ running[w].uri = asked[running[w].reply].uri
              /\ running[w].workspace <=> UsesWorkspace(asked[running[w].reply].kind)

SlotsMatchTasks == \A w \in Workers : SlotMatches(w)

(* What waits for a worker is about documents that are open.               *)
QueuedIsOpen ==
    /\ \A id \in pending :
         /\ asked[id] # None
         /\ asked[id].uri # None => documents[asked[id].uri] # None
    /\ \A u \in Uris : due[u] # None => u \in Synchronized(documents)

OnWorker(id, w) == running[w] # None /\ running[w].reply = id
Replying(id)    == reply # None /\ reply.id = id

(* AnsweredOnce without sets: a query is nowhere before it is sent,        *)
(* somewhere after, and never in two places.                               *)
InOnePlace(id) ==
    /\ asked[id] = None =>
         /\ id \notin pending /\ responses[id] = None /\ ~Replying(id) /\ answers[id] = None
         /\ \A w \in Workers : ~OnWorker(id, w)
    /\ asked[id] # None =>
         \/ id \in pending \/ responses[id] # None \/ Replying(id) \/ answers[id] # None
         \/ \E w \in Workers : OnWorker(id, w)
    /\ id \in pending => responses[id] = None /\ ~Replying(id) /\ answers[id] = None
    /\ responses[id] # None => ~Replying(id) /\ answers[id] = None
    /\ Replying(id) => answers[id] = None
    /\ \A w \in Workers : OnWorker(id, w) =>
         /\ id \notin pending /\ responses[id] = None /\ ~Replying(id) /\ answers[id] = None
         /\ \A v \in Workers : OnWorker(id, v) => v = w

Places == \A id \in Ids : InOnePlace(id)

IInv ==
    /\ TypeOK
    /\ OutputFollowsTurn
    /\ SlotsMatchTasks
    /\ QueuedIsOpen
    /\ Places
    /\ OneTaskPerScope
    /\ LiveWorkIsCurrent

(* The pointwise form says what AnsweredOnce says of the set of places.     *)
LEMMA PlacesAreOne == TypeOK /\ Places => AnsweredOnce
<1>. SUFFICES ASSUME TypeOK, Places, NEW id \in Ids
              PROVE  IF asked[id] = None THEN Whereabouts(id) = {}
                     ELSE \E place \in Workers \cup {"pending", "outgoing", "response", "answered"} :
                             Whereabouts(id) = {place}
  BY DEF AnsweredOnce
<1>1. InOnePlace(id) BY DEF Places
<1>2. /\ \A w \in Workers : w \in Whereabouts(id) <=> OnWorker(id, w)
      /\ "pending"  \in Whereabouts(id) <=> id \in pending
      /\ "outgoing" \in Whereabouts(id) <=> responses[id] # None
      /\ "response" \in Whereabouts(id) <=> Replying(id)
      /\ "answered" \in Whereabouts(id) <=> answers[id] # None
      /\ \A p \in Whereabouts(id) :
            p \in Workers \cup {"pending", "outgoing", "response", "answered"}
  BY NullsAssumption DEF Whereabouts, Working, OnWorker, Replying
<1>3. CASE asked[id] = None
  BY <1>1, <1>2, <1>3 DEF InOnePlace
<1>4. CASE asked[id] # None
  <2>1. CASE \E w \in Workers : OnWorker(id, w)
    <3>1. PICK w \in Workers : OnWorker(id, w) BY <2>1
    <3>2. Whereabouts(id) = {w} BY <1>1, <1>2, <3>1, NullsAssumption DEF InOnePlace
    <3>. QED BY <1>4, <3>2
  <2>2. CASE ~\E w \in Workers : OnWorker(id, w)
    <3>1. CASE id \in pending
      <4>1. Whereabouts(id) = {"pending"} BY <1>1, <1>2, <2>2, <3>1 DEF InOnePlace
      <4>. QED BY <1>4, <4>1
    <3>2. CASE responses[id] # None
      <4>1. Whereabouts(id) = {"outgoing"} BY <1>1, <1>2, <2>2, <3>2 DEF InOnePlace
      <4>. QED BY <1>4, <4>1
    <3>3. CASE Replying(id)
      <4>1. Whereabouts(id) = {"response"} BY <1>1, <1>2, <2>2, <3>3 DEF InOnePlace
      <4>. QED BY <1>4, <4>1
    <3>4. CASE answers[id] # None
      <4>1. Whereabouts(id) = {"answered"} BY <1>1, <1>2, <2>2, <3>4 DEF InOnePlace
      <4>. QED BY <1>4, <4>1
    <3>. QED BY <1>1, <1>4, <2>2, <3>1, <3>2, <3>3, <3>4 DEF InOnePlace
  <2>. QED BY <2>1, <2>2
<1>. QED BY <1>3, <1>4

(* The invariant holds when the process starts.                             *)
LEMMA InitOK == Init => IInv
<1>. SUFFICES ASSUME Init PROVE IInv OBVIOUS
<1>1. TypeOK
  <2>1. IsFiniteSet(pending) /\ Cardinality(pending) <= MaxPending
    BY FS_EmptySet, BoundsAssumption DEF Init
  <2>. QED BY <2>1, BoundsAssumption DEF Init, TypeOK, Documents, Epochs
<1>2. OutputFollowsTurn /\ SlotsMatchTasks /\ QueuedIsOpen
  BY DEF Init, OutputFollowsTurn, SlotsMatchTasks, SlotMatches, QueuedIsOpen
<1>3. Places BY DEF Init, Places, InOnePlace, OnWorker, Replying
<1>4. OneTaskPerScope /\ LiveWorkIsCurrent
  BY DEF Init, OneTaskPerScope, LiveWorkIsCurrent, Working
<1>. QED BY <1>1, <1>2, <1>3, <1>4 DEF IInv
-----------------------------------------------------------------------------
(* What a notification that invalidates does to the queues and the slots.  *)

Timers == [Uris -> {None, "armed", "expired"}]

(* Every set of rejected queries is a set of queries without an answer.     *)
LEMMA OwedAreIds ==
  ASSUME TypeOK
  PROVE  /\ Owed \subseteq Ids /\ WorkspaceQueries \subseteq Owed
         /\ \A u \in Uris : QueriesOn(u) \subseteq Owed
BY DEF TypeOK, Owed, QueriesOn, WorkspaceQueries

(* Retiring work takes its reply and leaves its scope.                      *)
LEMMA RetiredType ==
  ASSUME NEW work \in RunningWork
  PROVE  /\ Retired(work) \in RunningWork
         /\ Retired(work).uri = work.uri /\ Retired(work).workspace = work.workspace
         /\ Retired(work).epoch = work.epoch
         /\ Retired(work).reply = None /\ Retired(work).cancelled
BY DEF Retired, RunningWork

(* A free slot is told from one that holds work.                            *)
LEMMA NoneIsNoWork == None \notin RunningWork /\ None \notin Task
BY NullsAssumption

(* A slot after Retire: still the same task's, with its reply or without.  *)
LEMMA RetireSlot ==
  ASSUME TypeOK, NEW ids, NEW sources, NEW refreshed, NEW w \in Workers,
         running' = Retire(ids, sources, refreshed)
  PROVE  /\ running'[w] \in RunningWork \cup {None}
         /\ running'[w] = None <=> running[w] = None
         /\ running[w] # None =>
              /\ running'[w].uri = running[w].uri
              /\ running'[w].workspace = running[w].workspace
              /\ running'[w].epoch = running[w].epoch
              /\ \/ running'[w] = running[w]
                    /\ running[w].reply \notin ids /\ running[w].uri \notin sources
                    /\ ~(running[w].reply = "diagnostics" /\ running[w].uri \in refreshed)
                 \/ /\ running'[w].reply = None /\ running'[w].cancelled
                    /\ \/ running[w].reply \in ids \/ running[w].uri \in sources
                       \/ running[w].reply = "diagnostics" /\ running[w].uri \in refreshed
<1>1. running[w] \in RunningWork \cup {None} BY DEF TypeOK
<1>2. running'[w] = IF running[w] # None
                       /\ \/ running[w].reply \in ids
                          \/ running[w].uri \in sources
                          \/ running[w].reply = "diagnostics" /\ running[w].uri \in refreshed
                    THEN Retired(running[w]) ELSE running[w]
  BY DEF Retire
<1>3. CASE running[w] = None BY <1>2, <1>3
<1>4. CASE running[w] # None
  BY <1>1, <1>2, <1>4, RetiredType, NoneIsNoWork
<1>. QED BY <1>3, <1>4

(* A notification that invalidates keeps the queues in shape and in bound.  *)
LEMMA InvalidateType ==
  ASSUME TypeOK, NEW ids, NEW answer \in Answers, NEW sources, NEW timers \in Timers,
         NEW refreshed, Invalidate(ids, answer, sources, timers, refreshed)
  PROVE  /\ pending' \subseteq Ids
         /\ IsFiniteSet(pending') /\ Cardinality(pending') <= MaxPending
         /\ due' \in Timers
         /\ earlier' \subseteq (Queued' \X Queued')
         /\ running' \in [Workers -> RunningWork \cup {None}]
         /\ responses' \in [Ids -> Answers \cup {None}]
<1>1. pending' = pending \ ids /\ running' = Retire(ids, sources, refreshed)
  BY DEF Invalidate, Without
<1>2. IsFiniteSet(pending') /\ Cardinality(pending') <= MaxPending
  <2>1. IsFiniteSet(pending) /\ Cardinality(pending) <= MaxPending BY DEF TypeOK
  <2>2. IsFiniteSet(pending') /\ Cardinality(pending') <= Cardinality(pending)
    BY <1>1, <2>1, FS_Subset
  <2>3. Cardinality(pending) \in Nat /\ Cardinality(pending') \in Nat
    BY <2>1, <2>2, FS_CardinalityType
  <2>. QED BY <2>1, <2>2, <2>3, BoundsAssumption
<1>3. due' \in Timers BY DEF Invalidate, Rearm, Timers
<1>4. running' \in [Workers -> RunningWork \cup {None}]
  <2>1. \A w \in Workers : running'[w] \in RunningWork \cup {None} BY <1>1, RetireSlot
  <2>2. running' = [w \in Workers |-> running'[w]] BY <1>1 DEF Retire
  <2>. QED BY <2>1, <2>2
<1>5. responses' \in [Ids -> Answers \cup {None}] BY DEF TypeOK, Invalidate, Respond
<1>6. pending' \subseteq Ids BY <1>1 DEF TypeOK
<1>7. earlier' \subseteq (Queued' \X Queued') BY DEF Invalidate
<1>. QED BY <1>2, <1>3, <1>4, <1>5, <1>6, <1>7
-----------------------------------------------------------------------------
(* TypeOK is preserved.                                                    *)

(* What a notification must establish for the state to keep its shape.      *)
LEMMA NotificationType ==
  ASSUME TypeOK, NEW answer \in Reply \cup {None}, Receive(answer), asked' = asked,
         state' \in {"Uninitialized", "Running", "Shutdown"},
         documents' \in Documents, nextRev' \in 1..(MaxRev + 1), scopeEpoch' \in Epochs,
         dependencies' \in [Uris -> Dependencies \cup {None}],
         publications' \in [Uris -> Basis \cup {None, Empty}],
         pending' \subseteq Ids, IsFiniteSet(pending'), Cardinality(pending') <= MaxPending,
         due' \in Timers, earlier' \subseteq (Queued' \X Queued'),
         running' \in [Workers -> RunningWork \cup {None}],
         responses' \in [Ids -> Answers \cup {None}]
  PROVE  TypeOK'
BY DEF TypeOK, Receive, Timers

(* An edit makes a document of a new revision.                              *)
LEMMA WriteType ==
  ASSUME TypeOK, NEW u \in Uris, NEW sync \in BOOLEAN, Write(u, NewDocument(sync))
  PROVE  documents' \in Documents /\ nextRev' \in 1..(MaxRev + 1)
<1>1. NewDocument(sync) \in Document BY DEF Write, NewDocument, Document, Revs
<1>2. documents' \in Documents BY <1>1 DEF TypeOK, Write, Documents
<1>3. nextRev' \in 1..(MaxRev + 1) BY BoundsAssumption DEF TypeOK, Write, Revs
<1>. QED BY <1>2, <1>3

(* The epoch stays within its bound.                                        *)
LEMMA EpochType == TypeOK /\ AdvanceEpoch => scopeEpoch' \in Epochs
BY BoundsAssumption DEF TypeOK, AdvanceEpoch, Epochs

(* Arming or clearing one timer makes timers.                               *)
LEMMA TimerTypes ==
  ASSUME TypeOK, NEW u \in Uris
  PROVE  /\ due \in Timers /\ [due EXCEPT ![u] = "armed"] \in Timers
         /\ [due EXCEPT ![u] = None] \in Timers
BY DEF TypeOK, Timers

(* A query keeps the shape and enters the queue only below its bound.       *)
LEMMA QueryType ==
  ASSUME TypeOK, NEW id \in Ids, NEW r \in Requests, Query(id, r)
  PROVE  TypeOK'
<1>. DEFINE accepted == /\ state = "Running"
                        /\ HasSource(r.kind) => documents[r.uri] # None
               busy == QueueFull \/ Size[r.kind] > MaxBytes - pendingBytes
<1>1. r \in Request BY BoundsAssumption DEF Requests, Request
<1>2. asked' \in [Ids -> Request \cup {None}] BY <1>1 DEF TypeOK, Query
<1>3. reply' \in Reply \cup {None} BY DEF Query, Receive, Reply, Answers
<1>4. CASE accepted /\ ~busy
  <2>1. pending' = pending \cup {id} /\ earlier' = earlier \cup (Queued \X {id}) /\ due' = due
    BY <1>4 DEF Query
  <2>2. IsFiniteSet(pending) /\ Cardinality(pending) \in Nat BY FS_CardinalityType DEF TypeOK
  <2>3. Cardinality(pending) < MaxPending BY <1>4, <2>2, BoundsAssumption DEF QueueFull
  <2>4. IsFiniteSet(pending') /\ Cardinality(pending') <= MaxPending
    <3>1. /\ IsFiniteSet(pending \cup {id})
          /\ Cardinality(pending \cup {id}) \in {Cardinality(pending), Cardinality(pending) + 1}
      BY <2>2, FS_AddElement
    <3>. QED BY <2>1, <2>2, <2>3, <3>1, BoundsAssumption
  <2>5. Queued' = Queued \cup {id} BY <2>1 DEF Queued
  <2>6. earlier' \subseteq (Queued' \X Queued')
    <3>1. earlier \subseteq (Queued \X Queued) BY DEF TypeOK
    <3>. QED BY <2>1, <2>5, <3>1
  <2>7. pending' \subseteq Ids BY <2>1 DEF TypeOK
  <2>. QED BY <1>2, <1>3, <2>1, <2>4, <2>6, <2>7 DEF TypeOK, Query, Receive, server
<1>5. CASE ~(accepted /\ ~busy)
  <2>1. UNCHANGED <<pending, earlier, due>> BY <1>5 DEF Query
  <2>2. Queued' = Queued BY <2>1 DEF Queued
  <2>. QED BY <1>2, <1>3, <2>1, <2>2 DEF TypeOK, Query, Receive, server
<1>. QED BY <1>4, <1>5

(* Client messages keep the shape.                                          *)
LEMMA ClientType ==
  ASSUME TypeOK, ClientStep
  PROVE  TypeOK'
<1>1. ASSUME Initialize PROVE TypeOK'
  <2>1. Queued' = Queued BY <1>1 DEF Initialize, queues, Queued
  <2>. QED BY <1>1, <2>1 DEF TypeOK, Initialize, Receive, server, queues
<1>2. ASSUME Shutdown PROVE TypeOK'
  <2>1. Receive([id |-> None, answer |-> "null"]) /\ [id |-> None, answer |-> "null"] \in Reply
    BY <1>2 DEF Shutdown, Reply
  <2>2. \A w \in Workers : running'[w] \in RunningWork \cup {None}
    BY <1>2, RetiredType DEF TypeOK, Shutdown
  <2>3. running' \in [Workers -> RunningWork \cup {None}] BY <1>2, <2>2 DEF Shutdown
  <2>4. IsFiniteSet(pending') /\ Cardinality(pending') <= MaxPending /\ pending' \subseteq Ids
    BY <1>2, FS_EmptySet, BoundsAssumption DEF Shutdown
  <2>5. due' \in Timers /\ earlier' \subseteq (Queued' \X Queued')
    BY <1>2 DEF Shutdown, Timers
  <2>6. documents' \in Documents /\ dependencies' \in [Uris -> Dependencies \cup {None}]
    BY <1>2 DEF Shutdown, Documents
  <2>7. publications' \in [Uris -> Basis \cup {None, Empty}]
    BY <1>2 DEF Shutdown
  <2>8. responses' \in [Ids -> Answers \cup {None}]
    BY <1>2 DEF Shutdown, Answers
  <2>9. nextRev' \in 1..(MaxRev + 1) /\ scopeEpoch' \in Epochs /\ asked' = asked
        /\ state' \in {"Uninitialized", "Running", "Shutdown"}
    BY <1>2 DEF Shutdown, TypeOK
  <2>. QED BY <2>1, <2>3, <2>4, <2>5, <2>6, <2>7, <2>8, <2>9, NotificationType
<1>3. ASSUME FilesChanged PROVE TypeOK'
  <2>1. Invalidate(WorkspaceQueries, "changed", {}, due, FileReferrers(documents))
    BY <1>3 DEF FilesChanged
  <2>2. "changed" \in Answers /\ due \in Timers BY DEF Answers, TypeOK, Timers
  <2>3. scopeEpoch' \in Epochs BY <1>3, EpochType DEF FilesChanged
  <2>. HIDE DEF Timers
  <2>4. Receive(None) /\ asked' = asked /\ state' = state
    BY <1>3 DEF FilesChanged, Notification
  <2>. QED BY <1>3, <2>1, <2>2, <2>3, <2>4, InvalidateType, NotificationType
           DEF FilesChanged, TypeOK
<1>4. ASSUME NEW u \in Uris, DidOpen(u) \/ DidChange(u) \/ DidChangeBadly(u) \/ DidClose(u)
      PROVE  TypeOK'
  <2>1. PICK timers \in Timers, refreshed \in SUBSET Uris :
          Invalidate(QueriesOn(u), "changed", {u}, timers, refreshed)
    <3>1. FileReferrers(documents') \subseteq Uris /\ LinkReferrers(u, documents') \subseteq Uris
      BY DEF FileReferrers, LinkReferrers, Synchronized
    <3>2. \/ Invalidate(QueriesOn(u), "changed", {u}, [due EXCEPT ![u] = "armed"], FileReferrers(documents'))
          \/ Invalidate(QueriesOn(u), "changed", {u}, [due EXCEPT ![u] = None], FileReferrers(documents'))
          \/ Invalidate(QueriesOn(u), "changed", {u}, [due EXCEPT ![u] = "armed"], LinkReferrers(u, documents'))
          \/ Invalidate(QueriesOn(u), "changed", {u}, [due EXCEPT ![u] = None], LinkReferrers(u, documents'))
      BY <1>4 DEF DidOpen, DidChange, DidChangeBadly, DidClose
    <3>. QED BY <3>1, <3>2, TimerTypes
  <2>2. "changed" \in Answers BY DEF Answers
  <2>3. Receive(None) /\ asked' = asked /\ state' = state
    BY <1>4 DEF DidOpen, DidChange, DidChangeBadly, DidClose, Notification
  <2>4. documents' \in Documents /\ nextRev' \in 1..(MaxRev + 1)
    <3>1. CASE DidClose(u) BY <3>1 DEF DidClose, TypeOK, Documents
    <3>2. CASE ~DidClose(u)
      BY <1>4, <3>2, WriteType DEF DidOpen, DidChange, DidChangeBadly
    <3>. QED BY <3>1, <3>2
  <2>5. scopeEpoch' \in Epochs
    BY <1>4, EpochType DEF DidOpen, DidChange, DidChangeBadly, DidClose, TypeOK
  <2>6. dependencies' \in [Uris -> Dependencies \cup {None}]
    BY <1>4 DEF DidOpen, DidChange, DidChangeBadly, DidClose, TypeOK
  <2>7. publications' \in [Uris -> Basis \cup {None, Empty}]
    BY <1>4 DEF DidOpen, DidChange, DidChangeBadly, DidClose, TypeOK
  <2>. QED BY <2>1, <2>2, <2>3, <2>4, <2>5, <2>6, <2>7, InvalidateType, NotificationType
           DEF TypeOK
<1>5. ASSUME NEW id \in Ids, CancelRequest(id) PROVE TypeOK'
  <2>1. Invalidate({id}, "cancelled", {}, due, {}) BY <1>5 DEF CancelRequest
  <2>2. "cancelled" \in Answers /\ due \in Timers BY DEF Answers, TypeOK, Timers
  <2>3. Receive(None) /\ asked' = asked /\ state' = state
    BY <1>5 DEF CancelRequest, Notification
  <2>4. UNCHANGED <<documents, nextRev, scopeEpoch, dependencies, publications>>
    BY <1>5 DEF CancelRequest, server
  <2>. QED BY <2>1, <2>2, <2>3, <2>4, InvalidateType, NotificationType DEF TypeOK
<1>6. ASSUME NEW id \in Ids, NEW r \in Requests, Query(id, r) PROVE TypeOK'
  BY <1>6, QueryType
<1>. QED BY <1>1, <1>2, <1>3, <1>4, <1>5, <1>6 DEF ClientStep
(* Writing "outgoing" empties it and keeps the shape.                       *)
LEMMA DeliverType ==
  ASSUME TypeOK, NEW rs \in [Ids -> Answers \cup {None}], Deliver(rs, publications)
  PROVE  /\ answers' \in [Ids -> Answers \cup {None}]
         /\ shown' \in [Uris -> Basis \cup {Empty}]
         /\ responses' \in [Ids -> Answers \cup {None}]
         /\ publications' \in [Uris -> Basis \cup {None, Empty}]
         /\ asked' = asked
BY DEF TypeOK, Deliver

(* Starting work keeps the shape.                                           *)
LEMMA StartType ==
  ASSUME TypeOK, NEW w \in Workers, NEW uri \in Uris \cup {None}, NEW workspace \in BOOLEAN,
         NEW live \in Ids \cup {"diagnostics"}, NEW kind \in AllKinds \cup {"diagnostics"},
         pending' \subseteq pending, due' \in Timers,
         Start(w, uri, workspace, live, kind)
  PROVE  TypeOK'
<1>1. running' \in [Workers -> RunningWork \cup {None}] BY DEF TypeOK, Start, RunningWork
<1>2. tasks' \in [Workers -> Task \cup {None}]
  <2>1. [docs |-> documents, kind |-> kind, result |-> "computing",
         targets |-> {}, files |-> FALSE] \in Task
    BY DEF TypeOK, Task
  <2>. QED BY <2>1 DEF TypeOK, Start
<1>3. IsFiniteSet(pending') /\ Cardinality(pending') <= MaxPending
  <2>1. IsFiniteSet(pending) /\ Cardinality(pending) <= MaxPending BY DEF TypeOK
  <2>2. IsFiniteSet(pending') /\ Cardinality(pending') <= Cardinality(pending)
    BY <2>1, FS_Subset
  <2>3. Cardinality(pending) \in Nat /\ Cardinality(pending') \in Nat
    BY <2>1, <2>2, FS_CardinalityType
  <2>. QED BY <2>1, <2>2, <2>3, BoundsAssumption
<1>4. earlier' \subseteq (Queued' \X Queued') BY DEF Start
<1>. QED BY <1>1, <1>2, <1>3, <1>4 DEF TypeOK, Start, Timers, server, output, client

(* A worker changes its own task only, keeps the revisions it reads, and   *)
(* gives up only when it was told to.                                      *)
LEMMA AnalyzedTask ==
  ASSUME TypeOK, SlotsMatchTasks, NEW w \in Workers, Analyze(w)
  PROVE  /\ tasks'[w] \in Task /\ tasks[w] \in Task /\ running[w] # None
         /\ tasks' \in [Workers -> Task \cup {None}]
         /\ \A v \in Workers \ {w} : tasks'[v] = tasks[v]
         /\ tasks'[w].result = "cancelled" => running[w].cancelled
         /\ \A u \in Uris : /\ tasks'[w].docs[u] = None <=> tasks[w].docs[u] = None
                            /\ tasks[w].docs[u] # None =>
                                  tasks'[w].docs[u].rev = tasks[w].docs[u].rev
<1>1. tasks[w] \in Task /\ running[w] # None
  BY DEF Analyze, TypeOK, SlotsMatchTasks, SlotMatches
<1>2. PICK targets \in SUBSET ({u \in Uris : tasks[w].docs[u] # None} \ {running[w].uri}),
           files \in BOOLEAN, result \in {"ok", "failed", "cancelled"}, caches \in BOOLEAN :
        /\ result = "ok" /\ running[w].uri # None
             => running[w].uri \in Synchronized(tasks[w].docs)
        /\ result = "cancelled" => running[w].cancelled
        /\ caches => tasks[w].kind = "document" /\ result = "ok"
        /\ tasks' = [tasks EXCEPT ![w] = Analyzed(w, targets, files, result, caches)]
  BY DEF Analyze
<1>. DEFINE new == Analyzed(w, targets, files, result, caches)
<1>3. ASSUME NEW u \in Uris
      PROVE  /\ new.docs[u] \in Document \cup {None}
             /\ new.docs[u] = None <=> tasks[w].docs[u] = None
             /\ tasks[w].docs[u] # None => new.docs[u].rev = tasks[w].docs[u].rev
  <2>1. tasks[w].docs[u] \in Document \cup {None} BY <1>1 DEF Task, Documents
  <2>2. caches /\ u = running[w].uri => tasks[w].docs[u] # None
    BY <1>2, NullsAssumption DEF Synchronized
  <2>3. new.docs[u] = IF caches /\ u = running[w].uri
                      THEN [tasks[w].docs[u] EXCEPT !.outline = TRUE] ELSE tasks[w].docs[u]
    BY DEF Analyzed
  <2>4. CASE caches /\ u = running[w].uri
    <3>1. tasks[w].docs[u] \in Document BY <2>1, <2>2, <2>4
    <3>2. /\ [tasks[w].docs[u] EXCEPT !.outline = TRUE] \in Document
          /\ [tasks[w].docs[u] EXCEPT !.outline = TRUE].rev = tasks[w].docs[u].rev
      BY <3>1 DEF Document
    <3>. QED BY <2>2, <2>3, <2>4, <3>2, NullsAssumption
  <2>5. CASE ~(caches /\ u = running[w].uri) BY <2>1, <2>3, <2>5
  <2>. QED BY <2>4, <2>5
<1>4. new \in Task
  <2>1. new.docs \in Documents BY <1>3 DEF Analyzed, Documents
  <2>2. targets \in SUBSET Uris /\ tasks[w].kind \in AllKinds \cup {"diagnostics"}
    BY <1>1 DEF Task
  <2>. QED BY <2>1, <2>2 DEF Task, Analyzed
<1>5. /\ tasks'[w] = new /\ new.result = result
      /\ tasks' \in [Workers -> Task \cup {None}]
      /\ \A v \in Workers \ {w} : tasks'[v] = tasks[v]
  BY <1>2, <1>4 DEF TypeOK, Analyzed
<1>. QED BY <1>1, <1>2, <1>3, <1>4, <1>5

(* A worker that computes keeps the shape.                                  *)
LEMMA AnalyzeType ==
  ASSUME TypeOK, SlotsMatchTasks, NEW w \in Workers, Analyze(w)
  PROVE  TypeOK'
<1>1. tasks' \in [Workers -> Task \cup {None}] BY AnalyzedTask
<1>2. Queued' = Queued BY DEF Analyze, queues, Queued
<1>. QED BY <1>1, <1>2 DEF TypeOK, Analyze, server, queues, output, client

(* Only revisions change hands when a task's documents are adopted.        *)
LEMMA AdoptedType ==
  ASSUME TypeOK, NEW w \in Workers
  PROVE  /\ Adopted(w) \in Documents
         /\ \A u \in Uris : /\ Adopted(w)[u] = None <=> documents[u] = None
                            /\ documents[u] # None =>
                                 /\ Adopted(w)[u].rev = documents[u].rev
                                 /\ Adopted(w)[u].synchronized = documents[u].synchronized
<1>. SUFFICES ASSUME NEW u \in Uris
              PROVE  /\ Adopted(w)[u] \in Document \cup {None}
                     /\ Adopted(w)[u] = None <=> documents[u] = None
                     /\ documents[u] # None =>
                          /\ Adopted(w)[u].rev = documents[u].rev
                          /\ Adopted(w)[u].synchronized = documents[u].synchronized
  BY DEF Adopted, Documents
<1>1. documents[u] \in Document \cup {None} BY DEF TypeOK, Documents
<1>2. CASE u \in Synchronized(documents) /\ SameRevision(u, tasks[w].docs)
  <2>1. documents[u] \in Document BY <1>1, <1>2 DEF Synchronized
  <2>2. Adopted(w)[u] = [documents[u] EXCEPT !.outline = @ \/ tasks[w].docs[u].outline]
    BY <1>2 DEF Adopted
  <2>3. (documents[u].outline \/ tasks[w].docs[u].outline) \in BOOLEAN OBVIOUS
  <2>4. /\ Adopted(w)[u] \in Document /\ Adopted(w)[u].rev = documents[u].rev
        /\ Adopted(w)[u].synchronized = documents[u].synchronized
    BY <2>1, <2>2, <2>3 DEF Document
  <2>. QED BY <2>1, <2>4, NullsAssumption
<1>3. CASE ~(u \in Synchronized(documents) /\ SameRevision(u, tasks[w].docs))
  BY <1>1, <1>3 DEF Adopted
<1>. QED BY <1>2, <1>3

(* What a current task publishes was computed from revisions that exist.    *)
LEMMA BasisType ==
  ASSUME TypeOK, SlotsMatchTasks, NEW w \in Workers, running[w] # None, Current(w),
         running[w].reply = "diagnostics"
  PROVE  BasisOf(w) \in Basis
<1>1. tasks[w] \in Task /\ running[w] \in RunningWork BY DEF TypeOK, SlotsMatchTasks, SlotMatches
<1>2. running[w].uri \in Uris BY <1>1 DEF SlotsMatchTasks, SlotMatches, RunningWork
<1>3. SameRevision(running[w].uri, tasks[w].docs) BY <1>2, NullsAssumption DEF Current
<1>4. \A t \in tasks[w].targets : SameRevision(t, tasks[w].docs) BY DEF Current
<1>5. \A u \in Uris : tasks[w].docs[u] \in Document \cup {None} BY <1>1 DEF Task, Documents
<1>6. tasks[w].docs[running[w].uri].rev \in Revs
  BY <1>2, <1>3, <1>5 DEF SameRevision, Document
<1>7. [t \in Uris |-> IF t \in tasks[w].targets THEN tasks[w].docs[t].rev ELSE 0]
        \in [Uris -> 0..MaxRev]
  <2>. SUFFICES ASSUME NEW t \in Uris, t \in tasks[w].targets
                PROVE  tasks[w].docs[t].rev \in 0..MaxRev
    BY BoundsAssumption
  <2>1. tasks[w].docs[t].rev \in Revs BY <1>4, <1>5 DEF SameRevision, Document
  <2>. QED BY <2>1, BoundsAssumption DEF Revs
<1>8. (IF tasks[w].files THEN running[w].epoch ELSE 0) \in 0..MaxEpoch
  BY <1>1, BoundsAssumption DEF RunningWork, Epochs
<1>. QED BY <1>6, <1>7, <1>8 DEF BasisOf, Basis

(* Finishing work keeps the shape.                                          *)
LEMMA FinishType ==
  ASSUME TypeOK, SlotsMatchTasks, NEW w \in Workers, FinishWork(w)
  PROVE  TypeOK'
<1>1. Finish(w) BY DEF FinishWork, FinishQuery, FinishDiagnostics, Reschedule, FinishRetired
<1>2. documents' \in Documents BY <1>1, AdoptedType DEF Finish
<1>3. /\ running' \in [Workers -> RunningWork \cup {None}]
      /\ tasks' \in [Workers -> Task \cup {None}]
  BY <1>1 DEF Finish, TypeOK
<1>4. tasks[w] \in Task /\ running[w] \in RunningWork
  BY <1>1 DEF Finish, TypeOK, SlotsMatchTasks, SlotMatches
<1>5. responses' \in [Ids -> Answers \cup {None}]
  <2>1. CASE FinishQuery(w)
    <3>1. (IF Current(w) THEN tasks[w].result ELSE "changed") \in Answers
      BY <1>4, <2>1 DEF FinishQuery, Finish, Task, Answers
    <3>. QED BY <2>1, <3>1 DEF FinishQuery, Respond, TypeOK
  <2>2. CASE ~FinishQuery(w)
    BY <2>2 DEF FinishWork, FinishDiagnostics, Reschedule, FinishRetired, TypeOK
  <2>. QED BY <2>1, <2>2
<1>6. /\ dependencies' \in [Uris -> Dependencies \cup {None}]
      /\ publications' \in [Uris -> Basis \cup {None, Empty}]
  <2>1. CASE FinishDiagnostics(w)
    <3>1. BasisOf(w) \in Basis BY <1>1, <2>1, BasisType DEF FinishDiagnostics, Finish
    <3>2. [targets |-> tasks[w].targets, files |-> tasks[w].files] \in Dependencies
      BY <1>4 DEF Task, Dependencies
    <3>. QED BY <2>1, <3>1, <3>2 DEF FinishDiagnostics, TypeOK
  <2>2. CASE ~FinishDiagnostics(w)
    BY <2>2 DEF FinishWork, FinishQuery, Reschedule, FinishRetired, TypeOK
  <2>. QED BY <2>1, <2>2
<1>7. due' \in Timers /\ Queued' = Queued
  <2>1. pending' = pending BY <1>1 DEF Finish
  <2>2. CASE Reschedule(w)
    <3>1. due' = [u \in Uris |->
             IF u = running[w].uri /\ u \in Synchronized(documents) /\ due[u] = None
             THEN "armed" ELSE due[u]]
      BY <2>2 DEF Reschedule
    <3>2. due' \in Timers BY <3>1 DEF TypeOK, Timers
    <3>3. \A u \in Uris : due'[u] = "expired" <=> due[u] = "expired"
      BY <3>1, NullsAssumption
    <3>. QED BY <2>1, <3>2, <3>3 DEF Queued
  <2>3. CASE ~Reschedule(w)
    <3>1. due' = due BY <2>3 DEF FinishWork, FinishQuery, FinishDiagnostics, FinishRetired
    <3>. QED BY <2>1, <3>1 DEF TypeOK, Timers, Queued
  <2>. QED BY <2>2, <2>3
<1>8. earlier' \subseteq (Queued' \X Queued') BY <1>1, <1>7 DEF Finish, TypeOK
<1>. QED BY <1>1, <1>2, <1>3, <1>5, <1>6, <1>7, <1>8 DEF TypeOK, Finish, Timers, client

(* The steps of a turn after its event keep the shape.                      *)
LEMMA ServerType ==
  ASSUME TypeOK, QueuedIsOpen, OutputFollowsTurn, ServerStep
  PROVE  TypeOK'
<1>1. ASSUME Drain PROVE TypeOK'
  <2>1. Queued' = Queued BY <1>1 DEF Drain, queues, Queued
  <2>2. Deliver(responses, publications) BY <1>1 DEF Drain
  <2>3. responses \in [Ids -> Answers \cup {None}] BY DEF TypeOK
  <2>. QED BY <1>1, <2>1, <2>2, <2>3, DeliverType DEF TypeOK, Drain, server, queues
<1>2. ASSUME WriteResponse PROVE TypeOK'
  <2>1. Queued' = Queued BY <1>2 DEF WriteResponse, queues, Queued
  <2>2. answers' \in [Ids -> Answers \cup {None}]
    <3>1. reply \in Reply BY <1>2 DEF TypeOK, OutputFollowsTurn, WriteResponse
    <3>2. \A id \in Ids : reply.id = id => reply.answer \in Answers
      BY <3>1, NullsAssumption DEF Reply
    <3>. QED BY <1>2, <3>2 DEF WriteResponse, TypeOK
  <2>. QED BY <1>2, <2>1, <2>2 DEF TypeOK, WriteResponse, server, queues
<1>3. ASSUME CompleteCached PROVE TypeOK'
  <2>1. PICK ids \in SUBSET Cached :
          /\ pending' = pending \ ids
          /\ earlier' = earlier \cap (Queued' \X Queued')
          /\ Deliver(Respond(ids, "ok"), publications)
    BY <1>3 DEF CompleteCached, Without
  <2>2. Respond(ids, "ok") \in [Ids -> Answers \cup {None}] BY DEF Respond, Answers, TypeOK
  <2>3. IsFiniteSet(pending') /\ Cardinality(pending') <= MaxPending
    <3>1. IsFiniteSet(pending) /\ Cardinality(pending) <= MaxPending BY DEF TypeOK
    <3>2. IsFiniteSet(pending') /\ Cardinality(pending') <= Cardinality(pending)
      BY <2>1, <3>1, FS_Subset
    <3>3. Cardinality(pending) \in Nat /\ Cardinality(pending') \in Nat
      BY <3>1, <3>2, FS_CardinalityType
    <3>. QED BY <3>1, <3>2, <3>3, BoundsAssumption
  <2>4. /\ answers' \in [Ids -> Answers \cup {None}] /\ shown' \in [Uris -> Basis \cup {Empty}]
        /\ responses' \in [Ids -> Answers \cup {None}] /\ asked' = asked
        /\ publications' \in [Uris -> Basis \cup {None, Empty}]
    BY <2>1, <2>2, DeliverType
  <2>5. pending' \subseteq Ids /\ earlier' \subseteq (Queued' \X Queued')
    BY <2>1 DEF TypeOK
  <2>. QED BY <1>3, <2>3, <2>4, <2>5 DEF TypeOK, CompleteCached, server
<1>4. ASSUME NEW w \in Workers, NEW id \in Ids, StartQuery(w, id) PROVE TypeOK'
  <2>1. asked[id] \in Request BY <1>4 DEF StartQuery, QueuedIsOpen, TypeOK
  <2>2. /\ asked[id].uri \in Uris \cup {None} /\ UsesWorkspace(asked[id].kind) \in BOOLEAN
        /\ id \in Ids \cup {"diagnostics"} /\ asked[id].kind \in AllKinds \cup {"diagnostics"}
    BY <2>1 DEF Request, UsesWorkspace
  <2>3. pending' \subseteq pending /\ due' \in Timers
        /\ Start(w, asked[id].uri, UsesWorkspace(asked[id].kind), id, asked[id].kind)
    BY <1>4 DEF StartQuery, Without, TypeOK, Timers
  <2>. QED BY <2>2, <2>3, StartType
<1>5. ASSUME NEW w \in Workers, NEW u \in Uris, StartDiagnostics(w, u) PROVE TypeOK'
  <2>1. /\ Start(w, u, FALSE, "diagnostics", "diagnostics")
        /\ pending' \subseteq pending /\ due' \in Timers
    BY <1>5, TimerTypes DEF StartDiagnostics
  <2>. QED BY <2>1, StartType
<1>6. ASSUME StopStarting \/ Wake PROVE TypeOK'
  <2>1. Queued' = Queued BY <1>6 DEF StopStarting, Wake, queues, Queued
  <2>. QED BY <1>6, <2>1 DEF TypeOK, StopStarting, Wake, server, queues, output, client
<1>. QED BY <1>1, <1>2, <1>3, <1>4, <1>5, <1>6 DEF ServerStep, StartWork

(* A passing deadline keeps the shape.                                      *)
LEMMA DeadlineType ==
  ASSUME TypeOK, NEW u \in Uris, Deadline(u)
  PROVE  TypeOK'
<1>1. due' \in Timers /\ Queued' = Queued \cup {u}
  BY DEF Deadline, TypeOK, Timers, Queued
<1>2. earlier' \subseteq (Queued' \X Queued')
  <2>1. earlier \subseteq (Queued \X Queued) BY DEF TypeOK
  <2>. QED BY <1>1, <2>1 DEF Deadline
<1>. QED BY <1>1, <1>2 DEF TypeOK, Deadline, Timers, server, output, client

(* Every step keeps the shape of the state.                                 *)
LEMMA TypeStep == IInv /\ [Next]_vars => TypeOK'
<1>. SUFFICES ASSUME IInv, [Next]_vars PROVE TypeOK' OBVIOUS
<1>1. TypeOK /\ SlotsMatchTasks /\ QueuedIsOpen /\ OutputFollowsTurn BY DEF IInv
<1>2. CASE UNCHANGED vars
  <2>1. Queued' = Queued BY <1>2 DEF vars, queues, Queued
  <2>. QED BY <1>1, <1>2, <2>1 DEF TypeOK, vars, server, queues, output, client
<1>. QED BY <1>1, <1>2, ClientType, ServerType, DeadlineType, AnalyzeType, FinishType DEF Next
-----------------------------------------------------------------------------
(* The notifications that invalidate queries do it alike.                  *)

Notifies ==
    \/ FilesChanged
    \/ \E u \in Uris : DidOpen(u) \/ DidChange(u) \/ DidChangeBadly(u) \/ DidClose(u)
    \/ \E id \in Ids : CancelRequest(id)

Retires(ids, sources, refreshed) ==
    /\ pending' = pending \ ids
    /\ running' = Retire(ids, sources, refreshed)
    /\ \E answer \in Answers : responses' = Respond(ids, answer)

(* What the invalidating notifications have in common.                      *)
LEMMA NotifiesAlike ==
  ASSUME TypeOK, Notifies
  PROVE  /\ pc = "receive" /\ pc' = "drain" /\ state = "Running" /\ reply' = None
         /\ UNCHANGED <<state, tasks, asked, answers, shown>>
         /\ \E ids \in SUBSET Owed, sources \in SUBSET Uris, refreshed \in SUBSET Uris :
               Retires(ids, sources, refreshed)
<1>1. \A docs : FileReferrers(docs) \subseteq Uris
                /\ \A u \in Uris : LinkReferrers(u, docs) \subseteq Uris
  BY DEF FileReferrers, LinkReferrers, Synchronized
<1>2. "changed" \in Answers /\ "cancelled" \in Answers BY DEF Answers
<1>3. ASSUME FilesChanged
      PROVE  \E ids \in SUBSET Owed, sources \in SUBSET Uris, refreshed \in SUBSET Uris :
               Retires(ids, sources, refreshed)
  <2>1. Retires(WorkspaceQueries, {}, FileReferrers(documents))
    BY <1>2, <1>3 DEF FilesChanged, Invalidate, Without, Retires
  <2>2. WorkspaceQueries \in SUBSET Owed BY OwedAreIds
  <2>. QED BY <1>1, <2>1, <2>2
<1>4. ASSUME NEW u \in Uris, DidOpen(u) \/ DidClose(u)
      PROVE  \E ids \in SUBSET Owed, sources \in SUBSET Uris, refreshed \in SUBSET Uris :
               Retires(ids, sources, refreshed)
  <2>1. Retires(QueriesOn(u), {u}, FileReferrers(documents'))
    BY <1>2, <1>4 DEF DidOpen, DidClose, Invalidate, Without, Retires
  <2>2. QueriesOn(u) \in SUBSET Owed /\ {u} \in SUBSET Uris BY OwedAreIds
  <2>. QED BY <1>1, <2>1, <2>2
<1>5. ASSUME NEW u \in Uris, DidChange(u) \/ DidChangeBadly(u)
      PROVE  \E ids \in SUBSET Owed, sources \in SUBSET Uris, refreshed \in SUBSET Uris :
               Retires(ids, sources, refreshed)
  <2>1. Retires(QueriesOn(u), {u}, LinkReferrers(u, documents'))
    BY <1>2, <1>5 DEF DidChange, DidChangeBadly, Invalidate, Without, Retires
  <2>2. QueriesOn(u) \in SUBSET Owed /\ {u} \in SUBSET Uris BY OwedAreIds
  <2>. QED BY <1>1, <2>1, <2>2
<1>6. ASSUME NEW id \in Ids, CancelRequest(id)
      PROVE  \E ids \in SUBSET Owed, sources \in SUBSET Uris, refreshed \in SUBSET Uris :
               Retires(ids, sources, refreshed)
  <2>1. Retires({id}, {}, {}) BY <1>2, <1>6 DEF CancelRequest, Invalidate, Without, Retires
  <2>2. {id} \in SUBSET Owed BY <1>6 DEF CancelRequest
  <2>. QED BY <2>1, <2>2
<1>7. Notification /\ UNCHANGED <<tasks, answers, shown>>
  BY DEF Notifies, FilesChanged, DidOpen, DidChange, DidChangeBadly, DidClose, CancelRequest,
         Notification, Receive
<1>. QED BY <1>3, <1>4, <1>5, <1>6, <1>7 DEF Notifies, Notification, Receive

(* A client message is one of four sorts.                                   *)
LEMMA ClientCases ==
  ClientStep => \/ Initialize \/ Shutdown \/ Notifies
                \/ \E id \in Ids, r \in Requests : Query(id, r)
BY DEF ClientStep, Notifies

(* "outgoing" and the handler's response follow the turn.                  *)
LEMMA OutputStep == IInv /\ [Next]_vars => OutputFollowsTurn'
<1>. SUFFICES ASSUME IInv, [Next]_vars PROVE OutputFollowsTurn' OBVIOUS
<1>. USE DEF OutputFollowsTurn
<1>1. TypeOK /\ OutputFollowsTurn BY DEF IInv
<1>2. ASSUME ClientStep PROVE OutputFollowsTurn'
  <2>1. CASE Notifies BY <1>1, <2>1, NotifiesAlike
  <2>2. CASE ~Notifies
    BY <1>2, <2>2, ClientCases DEF Initialize, Shutdown, Query, Receive
  <2>. QED BY <2>1, <2>2
<1>3. ASSUME ServerStep PROVE OutputFollowsTurn'
  <2>1. CASE Drain BY <1>1, <2>1 DEF Drain, Deliver
  <2>2. CASE WriteResponse BY <1>1, <2>2 DEF WriteResponse
  <2>3. CASE CompleteCached BY <1>1, <2>3 DEF CompleteCached, Deliver
  <2>4. CASE StartWork
    BY <1>1, <2>4 DEF StartWork, StartQuery, StartDiagnostics, Start, output
  <2>5. CASE StopStarting \/ Wake BY <1>1, <2>5 DEF StopStarting, Wake, output
  <2>. QED BY <1>3, <2>1, <2>2, <2>3, <2>4, <2>5 DEF ServerStep
<1>4. ASSUME NEW u \in Uris, Deadline(u) PROVE OutputFollowsTurn'
  BY <1>1, <1>4 DEF Deadline, output
<1>5. ASSUME NEW w \in Workers, Analyze(w) PROVE OutputFollowsTurn'
  BY <1>1, <1>5 DEF Analyze, output
<1>6. ASSUME NEW w \in Workers, FinishWork(w) PROVE OutputFollowsTurn'
  <2>1. Finish(w)
    BY <1>6 DEF FinishWork, FinishQuery, FinishDiagnostics, Reschedule, FinishRetired
  <2>. QED BY <1>1, <2>1 DEF Finish
<1>7. CASE UNCHANGED vars BY <1>1, <1>7 DEF vars, output
<1>. QED BY <1>2, <1>3, <1>4, <1>5, <1>6, <1>7 DEF Next
-----------------------------------------------------------------------------
(* Which steps touch the slots.                                            *)

Quiet == UNCHANGED <<running, tasks, asked, documents, scopeEpoch>>

(* A step is one of eight sorts, by what it does to the slots.              *)
LEMMA StepCases ==
  [Next]_vars =>
    \/ Notifies \/ Shutdown
    \/ \E id \in Ids, r \in Requests : Query(id, r)
    \/ \E w \in Workers, id \in Ids : StartQuery(w, id)
    \/ \E w \in Workers, u \in Uris : StartDiagnostics(w, u)
    \/ \E w \in Workers : Analyze(w) \/ FinishWork(w)
    \/ Quiet /\ (state' = state \/ Initialize)
<1>1. Initialize => Quiet BY DEF Initialize, Receive, Quiet, server
<1>2. ServerStep => \/ StartWork
                    \/ Quiet /\ state' = state
  BY DEF ServerStep, Drain, WriteResponse, CompleteCached, StopStarting, Wake, Deliver,
         Quiet, server, client
<1>3. \A u \in Uris : Deadline(u) => Quiet /\ state' = state
  BY DEF Deadline, Quiet, server, client
<1>4. UNCHANGED vars => Quiet /\ state' = state BY DEF vars, Quiet, server, client
<1>. QED BY <1>1, <1>2, <1>3, <1>4, ClientCases DEF Next, StartWork

(* Starting fills one free slot with uncancelled work of the present epoch *)
(* on the present documents.                                               *)
LEMMA StartedSlot ==
  ASSUME TypeOK, NEW w \in Workers, NEW uri \in Uris \cup {None}, NEW workspace \in BOOLEAN,
         NEW live \in Ids \cup {"diagnostics"}, NEW kind \in AllKinds \cup {"diagnostics"},
         Start(w, uri, workspace, live, kind), NEW v \in Workers
  PROVE  /\ v # w => running'[v] = running[v] /\ tasks'[v] = tasks[v]
         /\ running'[w].uri = uri /\ running'[w].reply = live
         /\ running'[w].workspace <=> workspace
         /\ running'[w].epoch = scopeEpoch /\ ~running'[w].cancelled
         /\ tasks'[w].docs = documents /\ tasks'[w].result = "computing"
         /\ running[w] = None /\ running'[w] # None /\ tasks'[w] # None
<1>1. /\ running'[w] = [uri |-> uri, workspace |-> workspace, reply |-> live,
                        epoch |-> scopeEpoch, cancelled |-> FALSE]
      /\ tasks'[w] = [docs |-> documents, kind |-> kind, result |-> "computing",
                      targets |-> {}, files |-> FALSE]
      /\ v # w => running'[v] = running[v] /\ tasks'[v] = tasks[v]
      /\ running[w] = None
  BY DEF Start, TypeOK
<1>2. running'[w] \in RunningWork /\ tasks'[w] \in Task
  BY <1>1 DEF TypeOK, RunningWork, Task
<1>3. /\ running'[w].uri = uri /\ running'[w].reply = live /\ ~running'[w].cancelled
      /\ running'[w].epoch = scopeEpoch
      /\ tasks'[w].docs = documents /\ tasks'[w].result = "computing"
  BY <1>1
<1>4. running'[w].workspace <=> workspace BY <1>1
<1>5. running'[w] # None /\ tasks'[w] # None BY <1>2, NoneIsNoWork
<1>. QED BY <1>1, <1>3, <1>4, <1>5

(* The same for diagnostics, which never reserve the workspace.             *)
LEMMA StartedDiagnostics ==
  ASSUME TypeOK, NEW w \in Workers, NEW u \in Uris, StartDiagnostics(w, u), NEW v \in Workers
  PROVE  /\ v # w => running'[v] = running[v] /\ tasks'[v] = tasks[v]
         /\ running'[w].uri = u /\ running'[w].reply = "diagnostics"
         /\ ~running'[w].workspace
         /\ running'[w].epoch = scopeEpoch /\ ~running'[w].cancelled
         /\ tasks'[w].docs = documents /\ tasks'[w].result = "computing"
         /\ running[w] = None /\ running'[w] # None /\ tasks'[w] # None
<1>1. Start(w, u, FALSE, "diagnostics", "diagnostics") BY DEF StartDiagnostics
<1>2. PICK workspace \in BOOLEAN :
        ~workspace /\ Start(w, u, workspace, "diagnostics", "diagnostics")
  BY <1>1
<1>. QED BY <1>2, StartedSlot

(* What a queued query gives the slot it starts in.                        *)
LEMMA QueuedScope ==
  ASSUME TypeOK, QueuedIsOpen, NEW id \in pending
  PROVE  /\ id \in Ids /\ asked[id] # None /\ asked[id] \in Request
         /\ asked[id].uri \in Uris \cup {None} /\ UsesWorkspace(asked[id].kind) \in BOOLEAN
         /\ asked[id].kind \in AllKinds \cup {"diagnostics"}
<1>1. id \in Ids /\ asked[id] # None /\ asked[id] \in Request BY DEF TypeOK, QueuedIsOpen
<1>. QED BY <1>1 DEF Request, UsesWorkspace

(* A slot holds work exactly while its worker holds the task it is for.    *)
LEMMA SlotsStep == IInv /\ [Next]_vars => SlotsMatchTasks'
<1>. SUFFICES ASSUME IInv, [Next]_vars, NEW v \in Workers PROVE SlotMatches(v)'
  BY DEF SlotsMatchTasks
<1>1. TypeOK /\ QueuedIsOpen /\ SlotsMatchTasks /\ SlotMatches(v) BY DEF IInv, SlotsMatchTasks
<1>2. running[v] # None => running[v] \in RunningWork BY <1>1 DEF TypeOK
<1>3. CASE Notifies
  <2>1. PICK ids, sources, refreshed :
          running' = Retire(ids, sources, refreshed) /\ tasks' = tasks /\ asked' = asked
    BY <1>1, <1>3, NotifiesAlike DEF Retires
  <2>2. /\ running'[v] = None <=> running[v] = None
        /\ running[v] # None =>
             \/ running'[v] = running[v]
             \/ running'[v].reply = None
    BY <1>1, <2>1, RetireSlot
  <2>. QED BY <1>1, <2>1, <2>2, NullsAssumption DEF SlotMatches
<1>4. CASE Shutdown
  <2>1. /\ tasks' = tasks /\ asked' = asked
        /\ running'[v] = IF running[v] = None THEN None ELSE Retired(running[v])
    BY <1>4 DEF Shutdown, Receive
  <2>. QED BY <1>1, <1>2, <2>1, RetiredType, NoneIsNoWork, NullsAssumption DEF SlotMatches
<1>5. ASSUME NEW id \in Ids, NEW r \in Requests, Query(id, r) PROVE SlotMatches(v)'
  <2>1. asked[id] = None /\ asked' = [asked EXCEPT ![id] = r] /\ UNCHANGED <<running, tasks>>
    BY <1>5 DEF Query, Receive
  <2>2. running[v] # None /\ running[v].reply \in Ids
          => asked'[running[v].reply] = asked[running[v].reply]
    BY <1>1, <2>1 DEF SlotMatches, TypeOK
  <2>. QED BY <1>1, <2>1, <2>2 DEF SlotMatches
<1>6. ASSUME NEW w \in Workers, NEW id \in Ids, StartQuery(w, id) PROVE SlotMatches(v)'
  <2>1. /\ Start(w, asked[id].uri, UsesWorkspace(asked[id].kind), id, asked[id].kind)
        /\ asked' = asked /\ id \in pending
    BY <1>6 DEF StartQuery, Start, client
  <2>2. /\ v # w => running'[v] = running[v] /\ tasks'[v] = tasks[v]
        /\ running'[w].uri = asked[id].uri /\ running'[w].reply = id
        /\ running'[w].workspace <=> UsesWorkspace(asked[id].kind)
        /\ running'[w] # None /\ tasks'[w] # None /\ asked[id] # None
    BY <1>1, <2>1, QueuedScope, StartedSlot
  <2>. QED BY <1>1, <2>1, <2>2, NullsAssumption DEF SlotMatches
<1>7. ASSUME NEW w \in Workers, NEW u \in Uris, StartDiagnostics(w, u) PROVE SlotMatches(v)'
  <2>1. asked' = asked /\ u # None BY <1>7, NullsAssumption DEF StartDiagnostics, Start, client
  <2>2. /\ v # w => running'[v] = running[v] /\ tasks'[v] = tasks[v]
        /\ running'[w].uri = u /\ running'[w].reply = "diagnostics"
        /\ ~running'[w].workspace
        /\ running'[w] # None /\ tasks'[w] # None
    BY <1>1, <1>7, StartedDiagnostics
  <2>. QED BY <1>1, <2>1, <2>2, NullsAssumption DEF SlotMatches
<1>8. ASSUME NEW w \in Workers, Analyze(w) PROVE SlotMatches(v)'
  <2>1. running' = running /\ asked' = asked /\ tasks[w] # None
    BY <1>8 DEF Analyze, client
  <2>2. tasks'[w] # None /\ (v # w => tasks'[v] = tasks[v])
    BY <1>1, <1>8, AnalyzedTask, NoneIsNoWork
  <2>. QED BY <1>1, <2>1, <2>2 DEF SlotMatches
<1>9. ASSUME NEW w \in Workers, FinishWork(w) PROVE SlotMatches(v)'
  <2>1. Finish(w)
    BY <1>9 DEF FinishWork, FinishQuery, FinishDiagnostics, Reschedule, FinishRetired
  <2>. QED BY <1>1, <2>1 DEF Finish, SlotMatches, TypeOK, client
<1>10. CASE Quiet BY <1>1, <1>10 DEF Quiet, SlotMatches
<1>. QED BY <1>3, <1>4, <1>5, <1>6, <1>7, <1>8, <1>9, <1>10, StepCases
(* Writing or closing a document leaves the others as they are, and a      *)
(* written one is synchronized or not as it was written.                   *)
LEMMA EditedDocuments ==
  ASSUME TypeOK, NEW u \in Uris, DidOpen(u) \/ DidChange(u) \/ DidChangeBadly(u) \/ DidClose(u)
  PROVE  /\ \A v \in Uris \ {u} : documents'[v] = documents[v]
         /\ DidOpen(u) \/ DidChange(u) => documents'[u] # None /\ documents'[u].synchronized
         /\ DidChangeBadly(u) => documents'[u] # None
         /\ asked' = asked /\ state = "Running" /\ state' = state
         /\ pending' = pending \ QueriesOn(u)
         /\ \E timers \in Timers, refreshed \in SUBSET Synchronized(documents') :
              /\ due' = Rearm(timers, refreshed)
              /\ \A v \in Uris \ {u} : timers[v] = due[v]
              /\ DidChangeBadly(u) \/ DidClose(u) => timers[u] = None
<1>1. NewDocument(TRUE) \in Document \/ nextRev \notin Revs
  BY DEF NewDocument, Document
<1>2. DidOpen(u) \/ DidChange(u) => Write(u, NewDocument(TRUE))
  BY DEF DidOpen, DidChange
<1>3. DidChangeBadly(u) => Write(u, NewDocument(FALSE)) BY DEF DidChangeBadly
<1>4. /\ \A v \in Uris \ {u} : documents'[v] = documents[v]
      /\ DidOpen(u) \/ DidChange(u) => documents'[u] # None /\ documents'[u].synchronized
      /\ DidChangeBadly(u) => documents'[u] # None
  <2>1. ASSUME NEW sync \in BOOLEAN, Write(u, NewDocument(sync))
        PROVE  /\ \A v \in Uris \ {u} : documents'[v] = documents[v]
               /\ documents'[u] # None /\ (documents'[u].synchronized <=> sync)
    <3>1. NewDocument(sync) \in Document BY <2>1 DEF Write, NewDocument, Document
    <3>2. documents' = [documents EXCEPT ![u] = NewDocument(sync)] BY <2>1 DEF Write
    <3>3. documents'[u] = NewDocument(sync) BY <3>2 DEF TypeOK, Documents
    <3>4. NewDocument(sync).synchronized <=> sync BY DEF NewDocument
    <3>. QED BY <3>1, <3>2, <3>3, <3>4, NullsAssumption DEF TypeOK, Documents
  <2>2. DidClose(u) => \A v \in Uris \ {u} : documents'[v] = documents[v]
    BY DEF DidClose, TypeOK, Documents
  <2>. QED BY <1>2, <1>3, <2>1, <2>2
<1>5. asked' = asked /\ state = "Running" /\ state' = state /\ pending' = pending \ QueriesOn(u)
  BY DEF DidOpen, DidChange, DidChangeBadly, DidClose, Notification, Invalidate, Without
<1>6. \A docs : /\ FileReferrers(docs) \in SUBSET Synchronized(docs)
                /\ LinkReferrers(u, docs) \in SUBSET Synchronized(docs)
  BY DEF FileReferrers, LinkReferrers
<1>7. DidOpen(u) \/ DidChange(u) =>
        \E timers \in Timers, refreshed \in SUBSET Synchronized(documents') :
              /\ due' = Rearm(timers, refreshed)
              /\ \A v \in Uris \ {u} : timers[v] = due[v]
  <2>1. /\ [due EXCEPT ![u] = "armed"] \in Timers
        /\ \A v \in Uris \ {u} : [due EXCEPT ![u] = "armed"][v] = due[v]
    BY DEF TypeOK, Timers
  <2>. QED BY <1>6, <2>1 DEF DidOpen, DidChange, Invalidate
<1>8. DidChangeBadly(u) \/ DidClose(u) =>
        \E timers \in Timers, refreshed \in SUBSET Synchronized(documents') :
              /\ due' = Rearm(timers, refreshed)
              /\ \A v \in Uris \ {u} : timers[v] = due[v]
              /\ timers[u] = None
  <2>1. /\ [due EXCEPT ![u] = None] \in Timers
        /\ \A v \in Uris \ {u} : [due EXCEPT ![u] = None][v] = due[v]
        /\ [due EXCEPT ![u] = None][u] = None
    BY DEF TypeOK, Timers
  <2>. QED BY <1>6, <2>1 DEF DidChangeBadly, DidClose, Invalidate
<1>9. \E timers \in Timers, refreshed \in SUBSET Synchronized(documents') :
              /\ due' = Rearm(timers, refreshed)
              /\ \A v \in Uris \ {u} : timers[v] = due[v]
              /\ DidChangeBadly(u) \/ DidClose(u) => timers[u] = None
  BY <1>7, <1>8
<1>. QED BY <1>4, <1>5, <1>9

(* What waits for a worker stays about open, synchronized documents.       *)
LEMMA QueuedStep == IInv /\ [Next]_vars => QueuedIsOpen'
<1>. SUFFICES ASSUME IInv, [Next]_vars PROVE QueuedIsOpen' OBVIOUS
<1>1. TypeOK /\ QueuedIsOpen /\ SlotsMatchTasks BY DEF IInv
<1>2. ASSUME NEW u \in Uris, DidOpen(u) \/ DidChange(u) \/ DidChangeBadly(u) \/ DidClose(u)
      PROVE  QueuedIsOpen'
  <2>1. PICK timers \in Timers, refreshed \in SUBSET Synchronized(documents') :
          /\ due' = Rearm(timers, refreshed)
          /\ \A v \in Uris \ {u} : timers[v] = due[v]
          /\ DidChangeBadly(u) \/ DidClose(u) => timers[u] = None
    BY <1>1, <1>2, EditedDocuments
  <2>2. ASSUME NEW id \in pending'
        PROVE  asked'[id] # None /\ (asked'[id].uri # None => documents'[asked'[id].uri] # None)
    <3>1. asked' = asked /\ id \in pending /\ id \notin QueriesOn(u)
      BY <1>1, <1>2, <2>2, EditedDocuments
    <3>2. asked[id] \in Request /\ asked[id] # None BY <1>1, <3>1, QueuedScope
    <3>3. asked[id].uri # u BY <3>1 DEF QueriesOn, Owed, Concerns
    <3>4. asked[id].uri # None => asked[id].uri \in Uris \ {u} BY <3>2, <3>3 DEF Request
    <3>. QED BY <1>1, <1>2, <3>1, <3>2, <3>4, EditedDocuments DEF QueuedIsOpen
  <2>3. ASSUME NEW v \in Uris, due'[v] # None PROVE v \in Synchronized(documents')
    <3>1. CASE v \in refreshed BY <3>1
    <3>2. CASE v \notin refreshed /\ v # u
      <4>1. due[v] # None BY <2>1, <2>3, <3>2 DEF Rearm
      <4>. QED BY <1>1, <1>2, <3>2, <4>1, EditedDocuments DEF QueuedIsOpen, Synchronized
    <3>3. CASE v \notin refreshed /\ v = u
      <4>1. DidOpen(u) \/ DidChange(u) BY <1>2, <2>1, <2>3, <3>3 DEF Rearm
      <4>. QED BY <1>1, <3>3, <4>1, EditedDocuments DEF Synchronized
    <3>. QED BY <3>1, <3>2, <3>3
  <2>. QED BY <2>2, <2>3 DEF QueuedIsOpen
<1>3. ASSUME FilesChanged \/ \E id \in Ids : CancelRequest(id) PROVE QueuedIsOpen'
  <2>1. PICK refreshed \in SUBSET Synchronized(documents) : due' = Rearm(due, refreshed)
    <3>1. FileReferrers(documents) \in SUBSET Synchronized(documents) BY DEF FileReferrers
    <3>. QED BY <1>3, <3>1 DEF FilesChanged, CancelRequest, Invalidate
  <2>2. documents' = documents /\ asked' = asked /\ pending' \subseteq pending
    BY <1>3 DEF FilesChanged, CancelRequest, Invalidate, Without, Notification, server
  <2>3. \A v \in Uris : due'[v] # None => v \in refreshed \/ due[v] # None
    BY <2>1 DEF Rearm
  <2>. QED BY <1>1, <2>2, <2>3 DEF QueuedIsOpen, Synchronized
<1>4. CASE Shutdown BY <1>4 DEF Shutdown, QueuedIsOpen
<1>5. ASSUME NEW id \in Ids, NEW r \in Requests, Query(id, r) PROVE QueuedIsOpen'
  <2>1. /\ asked[id] = None /\ asked' = [asked EXCEPT ![id] = r]
        /\ documents' = documents /\ due' = due
        /\ \/ pending' = pending
           \/ /\ pending' = pending \cup {id}
              /\ HasSource(r.kind) => documents[r.uri] # None
    BY <1>5 DEF Query, server
  <2>2. r \in Request /\ (HasSource(r.kind) <=> r.uri # None)
    BY BoundsAssumption DEF Requests, Request
  <2>3. asked'[id] = r /\ r # None BY <1>1, <2>1, <2>2, NullsAssumption DEF TypeOK
  <2>4. id \notin pending /\ \A x \in pending : asked'[x] = asked[x]
    BY <1>1, <2>1 DEF TypeOK, QueuedIsOpen
  <2>. QED BY <1>1, <2>1, <2>2, <2>3, <2>4 DEF QueuedIsOpen, Synchronized
<1>6. ASSUME ServerStep PROVE QueuedIsOpen'
  <2>1. documents' = documents /\ asked' = asked /\ pending' \subseteq pending
        /\ \A v \in Uris : due'[v] # None => due[v] # None
    <3>1. CASE StartWork
      BY <1>1, <3>1 DEF StartWork, StartQuery, Without, StartDiagnostics, Start, server, client, TypeOK
    <3>2. CASE ~StartWork
      BY <1>6, <3>2 DEF ServerStep, Drain, WriteResponse, CompleteCached, Without, StopStarting, Wake,
         Deliver, server, client, queues
    <3>. QED BY <3>1, <3>2
  <2>. QED BY <1>1, <2>1 DEF QueuedIsOpen, Synchronized
<1>7. ASSUME NEW u \in Uris, Deadline(u) PROVE QueuedIsOpen'
  <2>1. /\ documents' = documents /\ asked' = asked /\ pending' = pending /\ due[u] # None
        /\ \A v \in Uris : due'[v] # None => due[v] # None
    BY <1>1, <1>7, NullsAssumption DEF Deadline, server, client, TypeOK
  <2>. QED BY <1>1, <2>1 DEF QueuedIsOpen, Synchronized
<1>8. ASSUME NEW w \in Workers, FinishWork(w) PROVE QueuedIsOpen'
  <2>1. Finish(w)
    BY <1>8 DEF FinishWork, FinishQuery, FinishDiagnostics, Reschedule, FinishRetired
  <2>2. documents' = Adopted(w) /\ asked' = asked /\ pending' = pending
    BY <2>1 DEF Finish, client
  <2>3. \A v \in Uris : due'[v] # None => due[v] # None \/ v \in Synchronized(documents)
    BY <1>8 DEF FinishWork, FinishQuery, FinishDiagnostics, Reschedule, FinishRetired
  <2>4. Synchronized(documents') = Synchronized(documents)
    BY <1>1, <2>2, AdoptedType DEF Synchronized
  <2>5. \A id \in pending : asked[id].uri # None => asked[id].uri \in Uris
    BY <1>1, QueuedScope
  <2>. QED BY <1>1, <2>2, <2>3, <2>4, <2>5, AdoptedType DEF QueuedIsOpen
<1>9. CASE UNCHANGED vars \/ Initialize \/ \E w \in Workers : Analyze(w)
  <2>1. UNCHANGED <<documents, asked, pending, due>>
    BY <1>9 DEF vars, Initialize, Receive, Analyze, server, client, queues
  <2>. QED BY <1>1, <2>1 DEF QueuedIsOpen, Synchronized
<1>. QED BY <1>2, <1>3, <1>4, <1>5, <1>6, <1>7, <1>8, <1>9 DEF Next, ClientStep
(* A notification takes a query from a worker only to answer it: the tasks *)
(* it stops because of their source are those of the queries it rejects.   *)
LEMMA RejectedOnly ==
  ASSUME TypeOK, SlotsMatchTasks, Notifies
  PROVE  \E ids \in SUBSET Owed, answer \in Answers :
           /\ pending' = pending \ ids /\ responses' = Respond(ids, answer)
           /\ \A w \in Workers, x \in Ids : OnWorker(x, w)' <=> OnWorker(x, w) /\ x \notin ids
<1>1. "changed" \in Answers /\ "cancelled" \in Answers BY DEF Answers
<1>2. ASSUME NEW ids \in SUBSET Owed, NEW answer \in Answers, NEW sources, NEW timers,
             NEW refreshed, Invalidate(ids, answer, sources, timers, refreshed),
             \A w \in Workers : running[w] # None /\ running[w].uri \in sources
                                /\ running[w].reply \in Ids => running[w].reply \in ids
      PROVE  \E is \in SUBSET Owed, a \in Answers :
           /\ pending' = pending \ is /\ responses' = Respond(is, a)
           /\ \A w \in Workers, x \in Ids : OnWorker(x, w)' <=> OnWorker(x, w) /\ x \notin is
  <2>1. /\ pending' = pending \ ids /\ responses' = Respond(ids, answer)
        /\ running' = Retire(ids, sources, refreshed)
    BY <1>2 DEF Invalidate, Without
  <2>2. ASSUME NEW w \in Workers, NEW x \in Ids
        PROVE  OnWorker(x, w)' <=> OnWorker(x, w) /\ x \notin ids
    <3>1. /\ running'[w] = None <=> running[w] = None
          /\ running[w] # None =>
              \/ running'[w] = running[w]
                    /\ running[w].reply \notin ids
              \/ /\ running'[w].reply = None
                 /\ \/ running[w].reply \in ids \/ running[w].uri \in sources
                    \/ running[w].reply = "diagnostics" /\ running[w].uri \in refreshed
      <4>1. TypeOK /\ running' = Retire(ids, sources, refreshed) BY <2>1
      <4>. QED BY <4>1, RetireSlot, SMTT(30)
    <3>2. x # None /\ x # "diagnostics" BY NullsAssumption
    <3>. QED BY <1>2, <3>1, <3>2 DEF OnWorker
  <2>. QED BY <2>1, <2>2
<1>3. ASSUME NEW u \in Uris, NEW w \in Workers, running[w] # None, running[w].uri = u,
             running[w].reply \in Ids
      PROVE  running[w].reply \in QueriesOn(u)
  BY <1>3 DEF SlotsMatchTasks, SlotMatches, QueriesOn, Concerns, Owed, Working
<1>4. ASSUME NEW u \in Uris, DidOpen(u) \/ DidChange(u) \/ DidChangeBadly(u) \/ DidClose(u)
      PROVE  \E timers, refreshed :
               Invalidate(QueriesOn(u), "changed", {u}, timers, refreshed)
  BY <1>4 DEF DidOpen, DidChange, DidChangeBadly, DidClose
<1>5. FilesChanged => Invalidate(WorkspaceQueries, "changed", {}, due, FileReferrers(documents))
  BY DEF FilesChanged
<1>6. \A id \in Ids : CancelRequest(id) =>
        {id} \in SUBSET Owed /\ Invalidate({id}, "cancelled", {}, due, {})
  BY DEF CancelRequest
<1>7. CASE FilesChanged BY <1>1, <1>2, <1>5, <1>7, OwedAreIds
<1>8. CASE \E id \in Ids : CancelRequest(id)
  <2>1. PICK id \in Ids : CancelRequest(id) BY <1>8
  <2>2. {id} \in SUBSET Owed /\ Invalidate({id}, "cancelled", {}, due, {}) BY <1>6, <2>1
  <2>3. \A w \in Workers : running[w] # None /\ running[w].uri \in {}
                           /\ running[w].reply \in Ids => running[w].reply \in {id}
    OBVIOUS
  <2>4. "cancelled" \in Answers BY <1>1
  <2>. QED BY <1>2, <2>2, <2>3, <2>4, SMTT(60)
<1>9. ASSUME NEW u \in Uris, DidOpen(u) \/ DidChange(u) \/ DidChangeBadly(u) \/ DidClose(u)
      PROVE  \E is \in SUBSET Owed, a \in Answers :
           /\ pending' = pending \ is /\ responses' = Respond(is, a)
           /\ \A w \in Workers, x \in Ids : OnWorker(x, w)' <=> OnWorker(x, w) /\ x \notin is
  <2>1. PICK timers, refreshed : Invalidate(QueriesOn(u), "changed", {u}, timers, refreshed)
    BY <1>4, <1>9
  <2>2. \A w \in Workers : running[w] # None /\ running[w].uri \in {u}
                           /\ running[w].reply \in Ids => running[w].reply \in QueriesOn(u)
    BY <1>3
  <2>. QED BY <1>1, <1>2, <2>1, <2>2, OwedAreIds
<1>. QED BY <1>7, <1>8, <1>9 DEF Notifies

(* A query moves from one place to one place.                              *)
LEMMA PlacesStep == IInv /\ [Next]_vars => Places'
<1>. SUFFICES ASSUME IInv, [Next]_vars, NEW x \in Ids PROVE InOnePlace(x)'
  BY DEF Places
<1>1. TypeOK /\ QueuedIsOpen /\ SlotsMatchTasks /\ OutputFollowsTurn /\ InOnePlace(x)
  BY DEF IInv, Places
<1>2. pc = "receive" => responses[x] = None /\ ~Replying(x)
  BY <1>1 DEF OutputFollowsTurn, Replying
<1>3. ASSUME UNCHANGED <<asked, answers, responses, pending>>, Replying(x)' <=> Replying(x),
             \A w \in Workers : OnWorker(x, w)' <=> OnWorker(x, w)
      PROVE  InOnePlace(x)'
  BY <1>1, <1>3 DEF InOnePlace
<1>4. CASE Notifies
  <2>1. PICK ids \in SUBSET Owed, answer \in Answers :
           /\ pending' = pending \ ids /\ responses' = Respond(ids, answer)
           /\ \A w \in Workers, y \in Ids : OnWorker(y, w)' <=> OnWorker(y, w) /\ y \notin ids
    BY <1>1, <1>4, RejectedOnly
  <2>2. pc = "receive" /\ reply' = None /\ UNCHANGED <<asked, answers>>
    BY <1>1, <1>4, NotifiesAlike
  <2>3. responses'[x] = IF x \in ids THEN answer ELSE None
    BY <1>2, <2>1, <2>2 DEF Respond
  <2>4. x \in ids => x \in pending \/ \E w \in Workers : OnWorker(x, w)
    BY DEF Owed, Working, OnWorker
  <2>5. ~Replying(x)' /\ answer # None BY <2>2, NullsAssumption DEF Replying
  <2>. QED BY <1>1, <1>2, <2>1, <2>2, <2>3, <2>4, <2>5 DEF InOnePlace
<1>5. CASE Shutdown
  <2>1. /\ pc = "receive" /\ UNCHANGED <<asked, answers>> /\ x \notin pending'
        /\ responses'[x] = IF x \in Owed THEN "cancelled" ELSE None
    BY <1>5 DEF Shutdown, Receive
  <2>2. ~Replying(x)'
    BY <1>5, NullsAssumption DEF Shutdown, Receive, Replying
  <2>3. \A w \in Workers : ~OnWorker(x, w)'
    <3>1. SUFFICES ASSUME NEW w \in Workers, running'[w] # None PROVE running'[w].reply # x
      BY DEF OnWorker
    <3>2. running'[w] = Retired(running[w]) /\ running[w] # None
      BY <1>5, <3>1 DEF Shutdown
    <3>. QED BY <1>1, <3>2, RetiredType, NullsAssumption DEF TypeOK
  <2>4. "cancelled" # None BY NullsAssumption DEF Answers
  <2>5. x \in Owed <=> x \in pending \/ \E w \in Workers : OnWorker(x, w)
    BY DEF Owed, Working, OnWorker
  <2>. QED BY <1>1, <1>2, <2>1, <2>2, <2>3, <2>4, <2>5 DEF InOnePlace
<1>6. ASSUME NEW id \in Ids, NEW r \in Requests, Query(id, r) PROVE InOnePlace(x)'
  <2>1. /\ pc = "receive" /\ UNCHANGED <<responses, running, answers>>
        /\ asked[id] = None /\ asked' = [asked EXCEPT ![id] = r]
        /\ \/ pending' = pending \cup {id} /\ reply' = None
           \/ pending' = pending /\ reply' # None /\ reply'.id = id
    <3>1. [id |-> id, answer |-> "refused"] # None /\ [id |-> id, answer |-> "busy"] # None
      BY NullsAssumption DEF Reply, Answers
    <3>. QED BY <1>6, <3>1 DEF Query, Receive
  <2>2. \A w \in Workers : OnWorker(x, w)' <=> OnWorker(x, w) BY <2>1 DEF OnWorker
  <2>3. CASE x = id
    <3>1. r # None BY NullsAssumption, BoundsAssumption DEF Requests, Request
    <3>2. asked'[x] # None BY <1>1, <2>1, <2>3, <3>1 DEF TypeOK
    <3>. QED BY <1>1, <1>2, <2>1, <2>2, <2>3, <3>2 DEF InOnePlace, Replying
  <2>4. CASE x # id
    <3>1. asked'[x] = asked[x] BY <2>1, <2>4
    <3>2. ~Replying(x)' /\ (x \in pending' <=> x \in pending)
      BY <2>1, <2>4 DEF Replying
    <3>. QED BY <1>1, <1>2, <2>1, <2>2, <3>1, <3>2 DEF InOnePlace
  <2>. QED BY <2>3, <2>4
<1>7. CASE Drain
  <2>1. /\ UNCHANGED <<asked, pending, reply, running>> /\ responses'[x] = None
        /\ answers'[x] = IF responses[x] # None THEN responses[x] ELSE answers[x]
    BY <1>7 DEF Drain, Deliver, queues
  <2>. QED BY <1>1, <2>1 DEF InOnePlace, OnWorker, Replying
<1>8. CASE WriteResponse
  <2>1. /\ UNCHANGED <<asked, pending, responses, running>> /\ reply' = None
        /\ answers'[x] = IF reply.id = x THEN reply.answer ELSE answers[x]
    BY <1>8 DEF WriteResponse, queues
  <2>2. reply \in Reply /\ reply # None BY <1>1, <1>8 DEF TypeOK, OutputFollowsTurn, WriteResponse
  <2>3. reply.id = x => reply.answer # None BY <2>2, NullsAssumption DEF Reply
  <2>. QED BY <1>1, <2>1, <2>2, <2>3 DEF InOnePlace, OnWorker, Replying
<1>9. CASE CompleteCached
  <2>1. PICK ids \in SUBSET Cached :
          pending' = pending \ ids /\ Deliver(Respond(ids, "ok"), publications)
    BY <1>9 DEF CompleteCached, Without
  <2>2. /\ UNCHANGED <<asked, running, reply>> /\ responses'[x] = None
        /\ answers'[x] = IF x \in ids THEN "ok"
                         ELSE IF responses[x] # None THEN responses[x] ELSE answers[x]
    <3>1. Respond(ids, "ok")[x] = IF x \in ids THEN "ok" ELSE responses[x] BY DEF Respond
    <3>2. "ok" # None BY NullsAssumption DEF Answers
    <3>. QED BY <1>9, <2>1, <3>1, <3>2 DEF CompleteCached, Deliver
  <2>3. x \in ids => x \in pending BY DEF Cached
  <2>4. "ok" # None BY NullsAssumption DEF Answers
  <2>. QED BY <1>1, <2>1, <2>2, <2>3, <2>4 DEF InOnePlace, OnWorker, Replying
<1>10. ASSUME NEW w \in Workers, NEW id \in Ids, StartQuery(w, id) PROVE InOnePlace(x)'
  <2>1. /\ Start(w, asked[id].uri, UsesWorkspace(asked[id].kind), id, asked[id].kind)
        /\ UNCHANGED <<asked, responses, reply, answers>>
        /\ id \in pending /\ pending' = pending \ {id}
    BY <1>10 DEF StartQuery, Without, Start, client, output
  <2>2. \A v \in Workers : /\ v # w => running'[v] = running[v]
                           /\ running[w] = None /\ running'[w] # None /\ running'[w].reply = id
    BY <1>1, <2>1, QueuedScope, StartedSlot
  <2>. QED BY <1>1, <2>1, <2>2 DEF InOnePlace, OnWorker, Replying
<1>11. ASSUME NEW w \in Workers, NEW u \in Uris, StartDiagnostics(w, u) PROVE InOnePlace(x)'
  <2>1. UNCHANGED <<asked, responses, reply, answers, pending>>
    BY <1>11 DEF StartDiagnostics, Start, client, output
  <2>2. \A v \in Workers : /\ v # w => running'[v] = running[v]
                           /\ running[w] = None /\ running'[w].reply = "diagnostics"
    BY <1>1, <1>11, StartedDiagnostics
  <2>. QED BY <1>3, <2>1, <2>2, NullsAssumption DEF OnWorker, Replying
<1>12. ASSUME NEW w \in Workers, FinishWork(w) PROVE InOnePlace(x)'
  <2>1. Finish(w)
    BY <1>12 DEF FinishWork, FinishQuery, FinishDiagnostics, Reschedule, FinishRetired
  <2>2. /\ pc = "receive" /\ UNCHANGED <<asked, pending, reply, answers>> /\ running[w] # None
        /\ \A v \in Workers : running'[v] = IF v = w THEN None ELSE running[v]
    BY <1>1, <2>1 DEF Finish, client, TypeOK
  <2>3. \A v \in Workers : OnWorker(x, v)' <=> v # w /\ OnWorker(x, v)
    BY <2>2 DEF OnWorker
  <2>4. CASE FinishQuery(w) /\ running[w].reply = x
    <3>1. responses'[x] = IF Current(w) THEN tasks[w].result ELSE "changed"
      BY <2>4 DEF FinishQuery, Respond
    <3>2. tasks[w] \in Task BY <1>1, <2>2 DEF TypeOK, SlotsMatchTasks, SlotMatches
    <3>3. tasks[w].result \in Answers BY <2>1, <3>2 DEF Finish, Task, Answers
    <3>4. responses'[x] # None BY <3>1, <3>3, NullsAssumption DEF Answers
    <3>5. OnWorker(x, w) BY <2>2, <2>4 DEF OnWorker
    <3>. QED BY <1>1, <2>2, <2>3, <3>4, <3>5 DEF InOnePlace, Replying
  <2>5. CASE ~(FinishQuery(w) /\ running[w].reply = x)
    <3>1. responses'[x] = responses[x]
      BY <1>12, <2>5 DEF FinishWork, FinishQuery, FinishDiagnostics, Reschedule, FinishRetired,
                         Respond
    <3>2. ~OnWorker(x, w)
      BY <1>12, <2>5, NullsAssumption
         DEF FinishWork, FinishQuery, FinishDiagnostics, Reschedule, FinishRetired, OnWorker
    <3>. QED BY <1>1, <2>2, <2>3, <3>1, <3>2 DEF InOnePlace, Replying
  <2>. QED BY <2>4, <2>5
<1>13. CASE \/ UNCHANGED vars \/ Initialize \/ StopStarting \/ Wake
            \/ \E u \in Uris : Deadline(u)
            \/ \E w \in Workers : Analyze(w)
  <2>1. UNCHANGED <<asked, answers, responses, pending, running>> /\ (Replying(x)' <=> Replying(x))
    BY <1>2, <1>13 DEF vars, Initialize, Receive, StopStarting, Wake, Deadline, Analyze,
       server, client, queues, output, Replying
  <2>. QED BY <1>3, <2>1 DEF OnWorker
<1>. QED BY <1>4, <1>5, <1>6, <1>7, <1>8, <1>9, <1>10, <1>11, <1>12, <1>13, ClientCases
     DEF Next, ServerStep, StartWork
(* No step puts a second task on a source or on the workspace.             *)
LEMMA ScopeStep == IInv /\ [Next]_vars => OneTaskPerScope'
<1>. SUFFICES ASSUME IInv, [Next]_vars PROVE OneTaskPerScope' OBVIOUS
<1>1. TypeOK /\ QueuedIsOpen /\ OneTaskPerScope BY DEF IInv
<1>2. ASSUME \A v \in Workers : running'[v] # None =>
               /\ running[v] # None /\ running'[v].uri = running[v].uri
               /\ running'[v].workspace <=> running[v].workspace
      PROVE  OneTaskPerScope'
  BY <1>1, <1>2 DEF OneTaskPerScope, Working
<1>3. ASSUME NEW w \in Workers, running'[w] # None,
             \A v \in Workers : v # w => running'[v] = running[v],
             ~Busy(running'[w].uri, running'[w].workspace)
      PROVE  OneTaskPerScope'
  BY <1>1, <1>3 DEF OneTaskPerScope, Working, Busy
<1>4. CASE Notifies
  <2>1. PICK ids, sources, refreshed : running' = Retire(ids, sources, refreshed)
    BY <1>1, <1>4, NotifiesAlike DEF Retires
  <2>. QED BY <1>1, <1>2, <2>1, RetireSlot
<1>5. CASE Shutdown
  <2>1. ASSUME NEW v \in Workers, running'[v] # None
        PROVE  /\ running[v] # None /\ running'[v].uri = running[v].uri
               /\ running'[v].workspace <=> running[v].workspace
    <3>1. running'[v] = Retired(running[v]) /\ running[v] # None
      BY <1>5, <2>1 DEF Shutdown
    <3>. QED BY <1>1, <3>1, RetiredType DEF TypeOK
  <2>. QED BY <1>2, <2>1
<1>6. ASSUME NEW w \in Workers, NEW id \in Ids, StartQuery(w, id) PROVE OneTaskPerScope'
  <2>1. id \in pending /\ ~Busy(asked[id].uri, UsesWorkspace(asked[id].kind))
    BY <1>6, NullsAssumption DEF StartQuery, First, Eligible, EligibleQueries, EligibleDiagnostics
  <2>2. Start(w, asked[id].uri, UsesWorkspace(asked[id].kind), id, asked[id].kind)
    BY <1>6 DEF StartQuery
  <2>3. /\ \A v \in Workers : v # w => running'[v] = running[v]
        /\ running'[w].uri = asked[id].uri /\ running'[w] # None
        /\ running'[w].workspace <=> UsesWorkspace(asked[id].kind)
    BY <1>1, <2>1, <2>2, QueuedScope, StartedSlot
  <2>4. ~Busy(running'[w].uri, running'[w].workspace) BY <2>1, <2>3 DEF Busy
  <2>. QED BY <1>3, <2>3, <2>4
<1>7. ASSUME NEW w \in Workers, NEW u \in Uris, StartDiagnostics(w, u) PROVE OneTaskPerScope'
  <2>1. ~Busy(u, FALSE)
    <3>1. u \notin pending BY <1>1, NullsAssumption DEF TypeOK
    <3>. QED BY <1>7, <3>1 DEF StartDiagnostics, First, Eligible, EligibleQueries,
                               EligibleDiagnostics
  <2>2. /\ \A v \in Workers : v # w => running'[v] = running[v]
        /\ running'[w].uri = u /\ running'[w] # None /\ ~running'[w].workspace
    BY <1>1, <1>7, StartedDiagnostics
  <2>3. ~Busy(running'[w].uri, running'[w].workspace) BY <2>1, <2>2 DEF Busy
  <2>. QED BY <1>3, <2>2, <2>3
<1>8. ASSUME NEW w \in Workers, FinishWork(w) PROVE OneTaskPerScope'
  <2>1. Finish(w)
    BY <1>8 DEF FinishWork, FinishQuery, FinishDiagnostics, Reschedule, FinishRetired
  <2>2. \A v \in Workers : running'[v] = IF v = w THEN None ELSE running[v]
    BY <1>1, <2>1 DEF Finish, TypeOK
  <2>. QED BY <1>2, <2>2
<1>9. CASE \/ Quiet \/ \E w \in Workers : Analyze(w)
           \/ \E id \in Ids, r \in Requests : Query(id, r)
  <2>1. running' = running BY <1>9 DEF Quiet, Analyze, Query
  <2>. QED BY <1>2, <2>1
<1>. QED BY <1>4, <1>5, <1>6, <1>7, <1>8, <1>9, StepCases

-----------------------------------------------------------------------------
(* LiveWorkIsCurrent is preserved.                                         *)

LiveIsCurrent(w) == running[w] # None =>
    /\ running[w].cancelled <=> running[w].reply = None
    /\ tasks[w].result = "cancelled" => running[w].reply = None
    /\ running[w].reply # None =>
         /\ state = "Running"
         /\ running[w].uri # None => SameRevision(running[w].uri, tasks[w].docs)
         /\ running[w].workspace =>
              /\ running[w].epoch = scopeEpoch
              /\ \A u \in Uris : SameDocument(u, tasks[w].docs)

(* LiveWorkIsCurrent, one slot at a time.                                   *)
LEMMA LiveIsCurrentAll ==
  /\ LiveWorkIsCurrent <=> \A w \in Workers : LiveIsCurrent(w)
  /\ LiveWorkIsCurrent' <=> \A w \in Workers : LiveIsCurrent(w)'
BY DEF LiveWorkIsCurrent, LiveIsCurrent, Working

(* A task that survives a notification did not read what it changed.       *)
LEMMA LiveNotified ==
  ASSUME IInv, Notifies, NEW w \in Workers
  PROVE  LiveIsCurrent(w)'
<1>1. TypeOK /\ SlotsMatchTasks /\ SlotMatches(w) /\ LiveIsCurrent(w)
  BY LiveIsCurrentAll DEF IInv, SlotsMatchTasks
<1>2. running[w] # None => running[w] \in RunningWork BY <1>1 DEF TypeOK
<1>3. state' = "Running" /\ tasks' = tasks BY <1>1, NotifiesAlike
<1>4. ASSUME NEW ids, NEW sources, NEW refreshed, running' = Retire(ids, sources, refreshed),
             running[w] # None =>
               \/ running[w].reply \in ids \cup {None} \/ running[w].uri \in sources
               \/ /\ running[w].workspace => UNCHANGED <<documents, scopeEpoch>>
                  /\ running[w].uri # None => documents'[running[w].uri] = documents[running[w].uri]
      PROVE  LiveIsCurrent(w)'
  <2>1. /\ running'[w] = None <=> running[w] = None
        /\ running[w] # None =>
              /\ \/ running'[w] = running[w]
                    /\ running[w].reply \notin ids /\ running[w].uri \notin sources
                 \/ running'[w].reply = None /\ running'[w].cancelled
    <3>1. TypeOK /\ running' = Retire(ids, sources, refreshed) BY <1>1, <1>4
    <3>2. running'[w] = None <=> running[w] = None BY <3>1, RetireSlot
    <3>3. running[w] # None =>
            \/ running'[w] = running[w]
                    /\ running[w].reply \notin ids /\ running[w].uri \notin sources
            \/ running'[w].reply = None /\ running'[w].cancelled
      BY <3>1, RetireSlot
    <3>. QED BY <3>2, <3>3
  <2>2. CASE running[w] = None BY <2>1, <2>2 DEF LiveIsCurrent
  <2>3. CASE running[w] # None /\ running'[w].reply = None /\ running'[w].cancelled
    BY <2>3 DEF LiveIsCurrent
  <2>4. CASE /\ running[w] # None /\ running'[w] = running[w] /\ running[w].reply # None
             /\ running[w].reply \notin ids /\ running[w].uri \notin sources
    <3>1. /\ running[w].workspace => UNCHANGED <<documents, scopeEpoch>>
          /\ running[w].uri # None => documents'[running[w].uri] = documents[running[w].uri]
      BY <1>4, <2>4
    <3>. QED BY <1>1, <1>3, <2>4, <3>1 DEF LiveIsCurrent, SameRevision, SameDocument
  <2>5. CASE running[w] # None /\ running'[w] = running[w] /\ running[w].reply = None
    BY <1>1, <1>3, <2>5 DEF LiveIsCurrent
  <2>. QED BY <2>1, <2>2, <2>3, <2>4, <2>5
<1>5. ASSUME running[w] # None, running[w].workspace, running[w].reply # None
      PROVE  /\ running[w].reply \in Owed
             /\ UsesWorkspace(asked[running[w].reply].kind)
  <2>1. running[w].reply \in Ids BY <1>1, <1>2, <1>5 DEF RunningWork, SlotMatches
  <2>. QED BY <1>1, <1>5, <2>1 DEF SlotMatches, Owed, Working
<1>6. ASSUME NEW u \in Uris, DidOpen(u) \/ DidChange(u) \/ DidChangeBadly(u) \/ DidClose(u)
      PROVE  LiveIsCurrent(w)'
  <2>1. PICK refreshed : running' = Retire(QueriesOn(u), {u}, refreshed)
    BY <1>6 DEF DidOpen, DidChange, DidChangeBadly, DidClose, Invalidate
  <2>2. ASSUME running[w] # None, running[w].workspace, running[w].reply # None
        PROVE  running[w].reply \in QueriesOn(u)
    BY <1>5, <2>2 DEF QueriesOn, Concerns
  <2>3. running[w] # None => running[w].uri \in Uris \cup {None} BY <1>2 DEF RunningWork
  <2>4. \A v \in Uris \ {u} : documents'[v] = documents[v] BY <1>1, <1>6, EditedDocuments
  <2>. QED BY <1>4, <2>1, <2>2, <2>3, <2>4
<1>7. CASE FilesChanged
  <2>1. /\ running' = Retire(WorkspaceQueries, {}, FileReferrers(documents))
        /\ documents' = documents
    BY <1>7 DEF FilesChanged, Invalidate
  <2>2. ASSUME running[w] # None, running[w].workspace, running[w].reply # None
        PROVE  running[w].reply \in WorkspaceQueries
    BY <1>5, <2>2 DEF WorkspaceQueries
  <2>. QED BY <1>4, <2>1, <2>2
<1>8. ASSUME NEW id \in Ids, CancelRequest(id) PROVE LiveIsCurrent(w)'
  <2>1. running' = Retire({id}, {}, {}) /\ UNCHANGED <<documents, scopeEpoch>>
    BY <1>8 DEF CancelRequest, Invalidate, server
  <2>. QED BY <1>4, <2>1
<1>. QED BY <1>6, <1>7, <1>8 DEF Notifies

(* Every step keeps live work current.                                      *)
LEMMA LiveStep == IInv /\ [Next]_vars => LiveWorkIsCurrent'
<1>. SUFFICES ASSUME IInv, [Next]_vars, NEW v \in Workers PROVE LiveIsCurrent(v)'
  BY LiveIsCurrentAll
<1>1. TypeOK /\ QueuedIsOpen /\ SlotsMatchTasks /\ SlotMatches(v) /\ LiveIsCurrent(v)
  BY LiveIsCurrentAll DEF IInv, SlotsMatchTasks
<1>2. running[v] # None => /\ running[v] \in RunningWork /\ running[v].uri \in Uris \cup {None}
                           /\ tasks[v] \in Task
  BY <1>1 DEF TypeOK, SlotMatches, RunningWork
<1>3. CASE Notifies BY <1>3, LiveNotified
<1>4. CASE Shutdown
  <2>1. running'[v] # None => running'[v].reply = None /\ running'[v].cancelled
    BY <1>2, <1>4, RetiredType DEF Shutdown
  <2>. QED BY <2>1 DEF LiveIsCurrent
<1>5. ASSUME NEW w \in Workers, NEW id \in Ids, StartQuery(w, id) PROVE LiveIsCurrent(v)'
  <2>1. /\ Start(w, asked[id].uri, UsesWorkspace(asked[id].kind), id, asked[id].kind)
        /\ id \in pending /\ state = "Running"
        /\ UNCHANGED <<documents, scopeEpoch, state>>
    BY <1>5 DEF StartQuery, Start, server
  <2>2. /\ v # w => running'[v] = running[v] /\ tasks'[v] = tasks[v]
        /\ running'[w].uri = asked[id].uri /\ running'[w].reply = id
        /\ running'[w].epoch = scopeEpoch /\ ~running'[w].cancelled
        /\ tasks'[w].docs = documents /\ tasks'[w].result = "computing"
    BY <1>1, <2>1, QueuedScope, StartedSlot
  <2>3. asked[id].uri # None => documents[asked[id].uri] # None
    BY <1>1, <2>1 DEF QueuedIsOpen
  <2>4. CASE v = w BY <2>1, <2>2, <2>3, <2>4, NullsAssumption
                      DEF LiveIsCurrent, SameRevision, SameDocument
  <2>5. CASE v # w BY <1>1, <2>1, <2>2, <2>5 DEF LiveIsCurrent, SameRevision, SameDocument
  <2>. QED BY <2>4, <2>5
<1>6. ASSUME NEW w \in Workers, NEW u \in Uris, StartDiagnostics(w, u) PROVE LiveIsCurrent(v)'
  <2>1. state = "Running" /\ UNCHANGED <<documents, scopeEpoch, state>>
    BY <1>6 DEF StartDiagnostics, Start, server
  <2>2. /\ v # w => running'[v] = running[v] /\ tasks'[v] = tasks[v]
        /\ running'[w].uri = u /\ running'[w].reply = "diagnostics" /\ ~running'[w].workspace
        /\ ~running'[w].cancelled
        /\ tasks'[w].docs = documents /\ tasks'[w].result = "computing"
    BY <1>1, <1>6, StartedDiagnostics
  <2>3. documents[u] # None
    <3>1. u \notin pending BY <1>1, NullsAssumption DEF TypeOK
    <3>2. due[u] # None
      BY <1>6, <3>1, NullsAssumption DEF StartDiagnostics, First, Eligible, EligibleQueries,
                                         EligibleDiagnostics
    <3>. QED BY <1>1, <3>2 DEF QueuedIsOpen, Synchronized
  <2>4. CASE v = w BY <2>1, <2>2, <2>3, <2>4, NullsAssumption DEF LiveIsCurrent, SameRevision
  <2>5. CASE v # w BY <1>1, <2>1, <2>2, <2>5 DEF LiveIsCurrent, SameRevision, SameDocument
  <2>. QED BY <2>4, <2>5
<1>7. ASSUME NEW w \in Workers, Analyze(w) PROVE LiveIsCurrent(v)'
  <2>1. UNCHANGED <<running, documents, scopeEpoch, state>> BY <1>7 DEF Analyze, server
  <2>2. CASE v = w
    <3>1. /\ tasks'[v].result = "cancelled" => running[v].cancelled
          /\ \A u \in Uris : /\ tasks'[v].docs[u] = None <=> tasks[v].docs[u] = None
                             /\ tasks[v].docs[u] # None =>
                                   tasks'[v].docs[u].rev = tasks[v].docs[u].rev
      BY <1>1, <1>7, <2>2, AnalyzedTask
    <3>. QED BY <1>1, <1>2, <2>1, <3>1 DEF LiveIsCurrent, SameRevision, SameDocument
  <2>3. CASE v # w
    <3>1. tasks'[v] = tasks[v] BY <1>1, <1>7, <2>3, AnalyzedTask
    <3>. QED BY <1>1, <2>1, <3>1 DEF LiveIsCurrent, SameRevision, SameDocument
  <2>. QED BY <2>2, <2>3
<1>8. ASSUME NEW w \in Workers, FinishWork(w) PROVE LiveIsCurrent(v)'
  <2>1. Finish(w)
    BY <1>8 DEF FinishWork, FinishQuery, FinishDiagnostics, Reschedule, FinishRetired
  <2>2. /\ running'[v] = IF v = w THEN None ELSE running[v]
        /\ v # w => tasks'[v] = tasks[v]
        /\ documents' = Adopted(w) /\ UNCHANGED <<state, scopeEpoch>>
    BY <1>1, <2>1 DEF Finish, TypeOK
  <2>3. \A u \in Uris : /\ documents'[u] = None <=> documents[u] = None
                        /\ documents[u] # None => documents'[u].rev = documents[u].rev
    BY <1>1, <2>2, AdoptedType
  <2>. QED BY <1>1, <1>2, <2>2, <2>3 DEF LiveIsCurrent, SameRevision, SameDocument
<1>9. CASE \/ Quiet /\ (state' = state \/ Initialize)
           \/ \E id \in Ids, r \in Requests : Query(id, r)
  <2>1. UNCHANGED <<running, tasks, documents, scopeEpoch>> /\ (state' = state \/ state' = "Running")
    BY <1>9 DEF Quiet, Query, Initialize, Receive, server
  <2>. QED BY <1>1, <2>1 DEF LiveIsCurrent, SameRevision, SameDocument
<1>. QED BY <1>3, <1>4, <1>5, <1>6, <1>7, <1>8, <1>9, StepCases

-----------------------------------------------------------------------------
(* The budget of bytes.                                                    *)

(* Queries of one kind that leave a set take their share with them.        *)
LEMMA ShareTaken ==
  ASSUME NEW ids, IsFiniteSet(ids), NEW S, NEW kind \in AllKinds
  PROVE  /\ BytesOf(ids, kind) \in Nat /\ BytesOf(S \cap ids, kind) \in Nat
         /\ BytesOf(ids \ S, kind) = BytesOf(ids, kind) - BytesOf(S \cap ids, kind)
<1>. DEFINE Those(T) == {id \in T : asked[id].kind = kind}
            all == Cardinality(Those(ids))
            taken == Cardinality(Those(S \cap ids))
            left == Cardinality(Those(ids \ S))
<1>1. IsFiniteSet(Those(ids)) BY FS_Subset
<1>2. Those(ids \ S) = Those(ids) \ S /\ Those(S \cap ids) = Those(ids) \cap S OBVIOUS
<1>3. IsFiniteSet(Those(ids) \cap S) BY <1>1, FS_Intersection
<1>4. all \in Nat /\ taken \in Nat BY <1>1, <1>2, <1>3, FS_CardinalityType
<1>5. left = all - taken BY <1>1, <1>2, FS_Difference
<1>6. Size[kind] \in Nat BY BoundsAssumption
<1>7. \A s, a, t \in Nat : s * a \in Nat /\ s * t \in Nat /\ s * (a - t) = s * a - s * t
  OBVIOUS
<1>8. BytesOf(ids, kind) = Size[kind] * all /\ BytesOf(S \cap ids, kind) = Size[kind] * taken
      /\ BytesOf(ids \ S, kind) = Size[kind] * left
  BY DEF BytesOf
<1>. HIDE DEF all, taken, left
<1>. QED BY <1>4, <1>5, <1>6, <1>7, <1>8

(* So do queries of any kind.                                              *)
LEMMA BytesTaken ==
  ASSUME NEW ids, IsFiniteSet(ids), NEW S
  PROVE  /\ Bytes(ids) \in Nat /\ Bytes(S \cap ids) \in Nat
         /\ Bytes(ids \ S) = Bytes(ids) - Bytes(S \cap ids)
<1>1. \A kind \in AllKinds :
         /\ BytesOf(ids, kind) \in Nat /\ BytesOf(S \cap ids, kind) \in Nat
         /\ BytesOf(ids \ S, kind) = BytesOf(ids, kind) - BytesOf(S \cap ids, kind)
  BY ShareTaken
<1>. QED BY <1>1 DEF Bytes, AllKinds

(* Nothing retains nothing.                                                *)
LEMMA NoBytes == Bytes({}) = 0 /\ Bytes({})' = 0
<1>1. ASSUME NEW kind \in AllKinds PROVE BytesOf({}, kind) = 0 /\ BytesOf({}, kind)' = 0
  <2>1. {id \in {} : asked[id].kind = kind} = {} /\ {id \in {} : asked'[id].kind = kind} = {}
    OBVIOUS
  <2>2. Size[kind] * 0 = 0 BY BoundsAssumption
  <2>. QED BY <2>1, <2>2, FS_EmptySet DEF BytesOf
<1>. QED BY <1>1 DEF Bytes, AllKinds

(* A query that joins the queue brings its share of its own kind.          *)
LEMMA ShareAdded ==
  ASSUME TypeOK, QueuedIsOpen, NEW id \in Ids, NEW r \in Requests, asked[id] = None,
         asked' = [asked EXCEPT ![id] = r], pending' = pending \cup {id},
         NEW kind \in AllKinds
  PROVE  BytesOf(pending, kind)' = BytesOf(pending, kind)
                                   + (IF r.kind = kind THEN Size[kind] ELSE 0)
<1>. DEFINE Before == {x \in pending : asked[x].kind = kind}
            After  == {x \in pending' : asked'[x].kind = kind}
            count  == Cardinality(Before)
<1>1. IsFiniteSet(pending) /\ id \notin pending /\ asked'[id] = r
      /\ \A x \in pending : asked'[x] = asked[x]
  BY DEF TypeOK, QueuedIsOpen
<1>2. IsFiniteSet(Before) /\ id \notin Before BY <1>1, FS_Subset
<1>3. After = IF r.kind = kind THEN Before \cup {id} ELSE Before BY <1>1
<1>4. count \in Nat BY <1>2, FS_CardinalityType
<1>5. Cardinality(After) = IF r.kind = kind THEN count + 1 ELSE count
  BY <1>2, <1>3, FS_AddElement
<1>6. Size[kind] \in Nat BY BoundsAssumption
<1>7. BytesOf(pending, kind) = Size[kind] * count
      /\ BytesOf(pending, kind)' = Size[kind] * Cardinality(After)
  BY DEF BytesOf
<1>8. \A s, n \in Nat : s * n \in Nat /\ s * (n + 1) = s * n + s OBVIOUS
<1>. HIDE DEF count, After
<1>. QED BY <1>4, <1>5, <1>6, <1>7, <1>8

(* The queue's bytes grow by what the query itself retains.                *)
LEMMA BytesAdded ==
  ASSUME TypeOK, QueuedIsOpen, NEW id \in Ids, NEW r \in Requests, asked[id] = None,
         asked' = [asked EXCEPT ![id] = r], pending' = pending \cup {id}
  PROVE  Bytes(pending)' = Bytes(pending) + Size[r.kind]
<1>1. \A kind \in AllKinds :
        /\ BytesOf(pending, kind) \in Nat
        /\ BytesOf(pending, kind)' = BytesOf(pending, kind)
                                     + (IF r.kind = kind THEN Size[kind] ELSE 0)
  BY ShareAdded, ShareTaken DEF TypeOK
<1>2. r.kind \in AllKinds /\ Size[r.kind] \in Nat BY BoundsAssumption DEF Requests
<1>. QED BY <1>1, <1>2 DEF Bytes, AllKinds

(* A query that does not join it leaves them as they are.                  *)
LEMMA BytesKept ==
  ASSUME \A id \in pending : asked'[id] = asked[id], pending' = pending
  PROVE  Bytes(pending)' = Bytes(pending)
<1>1. ASSUME NEW kind PROVE BytesOf(pending, kind)' = BytesOf(pending, kind)
  <2>1. {id \in pending' : asked'[id].kind = kind} = {id \in pending : asked[id].kind = kind}
    OBVIOUS
  <2>. QED BY <2>1 DEF BytesOf
<1>. QED BY <1>1 DEF Bytes

(* Whichever queries leave the queue, the budget stays exact.              *)
LEMMA BudgetWithout ==
  ASSUME TypeOK, BudgetIsExact, NEW ids, Without(ids), asked' = asked
  PROVE  BudgetIsExact'
<1>1. IsFiniteSet(pending) BY DEF TypeOK
<1>2. Bytes(pending) \in Nat /\ Bytes(ids \cap pending) \in Nat
      /\ Bytes(pending \ ids) = Bytes(pending) - Bytes(ids \cap pending)
  BY <1>1, BytesTaken
<1>3. Bytes(pending)' = Bytes(pending \ ids) BY DEF Without, Bytes, BytesOf
<1>4. pendingBytes' = pendingBytes - Bytes(ids \cap pending) BY DEF Without
<1>. QED BY <1>2, <1>3, <1>4, BoundsAssumption DEF BudgetIsExact

(* Every step keeps the budget exact: a query is charged once, when it is  *)
(* queued, and given back once, when it leaves.                            *)
LEMMA BudgetStep == IInv /\ BudgetIsExact /\ [Next]_vars => BudgetIsExact'
<1>. SUFFICES ASSUME IInv, BudgetIsExact, [Next]_vars PROVE BudgetIsExact' OBVIOUS
<1>1. TypeOK /\ QueuedIsOpen BY DEF IInv
<1>2. ASSUME Notifies PROVE BudgetIsExact'
  <2>1. \E ids : Without(ids)
    BY <1>2 DEF Notifies, FilesChanged, DidOpen, DidChange, DidChangeBadly, DidClose,
       CancelRequest, Invalidate
  <2>. QED BY <1>1, <1>2, <2>1, NotifiesAlike, BudgetWithout
<1>3. ASSUME Shutdown PROVE BudgetIsExact'
  <2>1. pending' = {} /\ pendingBytes' = pendingBytes - Bytes(pending) BY <1>3 DEF Shutdown
  <2>2. Bytes(pending)' = 0
    BY <2>1, NoBytes DEF Bytes, BytesOf
  <2>3. Bytes(pending) \in Nat BY <1>1, BytesTaken DEF TypeOK
  <2>. QED BY <2>1, <2>2, <2>3, BoundsAssumption DEF BudgetIsExact
<1>4. ASSUME NEW id \in Ids, NEW r \in Requests, Query(id, r) PROVE BudgetIsExact'
  <2>1. asked[id] = None /\ asked' = [asked EXCEPT ![id] = r] BY <1>4 DEF Query
  <2>2. Bytes(pending) \in Nat BY <1>1, BytesTaken DEF TypeOK
  <2>3. Size[r.kind] \in Nat BY BoundsAssumption DEF Requests
  <2>4. CASE /\ pending' = pending \cup {id} /\ pendingBytes' = pendingBytes + Size[r.kind]
             /\ ~(Size[r.kind] > MaxBytes - pendingBytes)
    <3>1. Bytes(pending)' = Bytes(pending) + Size[r.kind] BY <1>1, <2>1, <2>4, BytesAdded
    <3>. QED BY <2>2, <2>3, <2>4, <3>1, BoundsAssumption DEF BudgetIsExact
  <2>5. CASE pending' = pending /\ pendingBytes' = pendingBytes
    <3>1. \A x \in pending : asked'[x] = asked[x] BY <1>1, <2>1 DEF TypeOK, QueuedIsOpen
    <3>. QED BY <2>5, <3>1, BytesKept DEF BudgetIsExact
  <2>. QED BY <1>4, <2>4, <2>5 DEF Query
<1>5. ASSUME NEW w \in Workers, NEW id \in Ids, StartQuery(w, id) PROVE BudgetIsExact'
  <2>1. Without({id}) /\ asked' = asked BY <1>5 DEF StartQuery, Start, client
  <2>. QED BY <1>1, <2>1, BudgetWithout
<1>6. ASSUME CompleteCached PROVE BudgetIsExact'
  <2>1. (\E ids : Without(ids)) /\ asked' = asked BY <1>6 DEF CompleteCached, Deliver
  <2>. QED BY <1>1, <2>1, BudgetWithout
<1>7. ASSUME UNCHANGED <<pending, pendingBytes, asked>> PROVE BudgetIsExact'
  BY <1>7, BytesKept DEF BudgetIsExact
<1>8. \/ Notifies \/ Shutdown
      \/ \E id \in Ids, r \in Requests : Query(id, r)
      \/ CompleteCached \/ \E w \in Workers, id \in Ids : StartQuery(w, id)
      \/ UNCHANGED <<pending, pendingBytes, asked>>
  <2>1. Initialize => UNCHANGED <<pending, pendingBytes, asked>> BY DEF Initialize, queues
  <2>2. ServerStep => \/ CompleteCached \/ \E w \in Workers, id \in Ids : StartQuery(w, id)
                      \/ UNCHANGED <<pending, pendingBytes, asked>>
    <3>1. \A w \in Workers, u \in Uris :
            StartDiagnostics(w, u) => UNCHANGED <<pending, pendingBytes, asked>>
      BY DEF StartDiagnostics, Start, client
    <3>2. Drain \/ WriteResponse \/ StopStarting \/ Wake
            => UNCHANGED <<pending, pendingBytes, asked>>
      BY DEF Drain, WriteResponse, StopStarting, Wake, Deliver, queues, client
    <3>. QED BY <3>1, <3>2 DEF ServerStep, StartWork
  <2>3. \A u \in Uris : Deadline(u) => UNCHANGED <<pending, pendingBytes, asked>>
    BY DEF Deadline, client
  <2>4. \A w \in Workers : Analyze(w) \/ FinishWork(w)
                            => UNCHANGED <<pending, pendingBytes, asked>>
    BY DEF Analyze, FinishWork, FinishQuery, FinishDiagnostics, Reschedule, FinishRetired, Finish,
       queues, client
  <2>5. UNCHANGED vars => UNCHANGED <<pending, pendingBytes, asked>> BY DEF vars, queues, client
  <2>. QED BY <2>1, <2>2, <2>3, <2>4, <2>5, ClientCases DEF Next
<1>. QED BY <1>2, <1>3, <1>4, <1>5, <1>6, <1>7, <1>8

-----------------------------------------------------------------------------
(* The theorems.                                                           *)

(* The invariant holds of every reachable state of the server.             *)
THEOREM Invariance == Spec => []IInv
<1>1. IInv /\ [Next]_vars => IInv'
  BY TypeStep, OutputStep, SlotsStep, QueuedStep, PlacesStep, ScopeStep, LiveStep DEF IInv
<1>. QED BY InitOK, <1>1, PTL DEF Spec

(* The state keeps its shape, and pending_queries never outgrows           *)
(* MAX_PENDING_QUERIES.                                                    *)
THEOREM Typing == Spec => []TypeOK
<1>1. IInv => TypeOK BY DEF IInv
<1>. QED BY Invariance, <1>1, PTL

(* A query is in one place until it is answered, and answered once,        *)
(* whatever edits, cancellations, closes and shutdowns meet it on the way. *)
THEOREM QueriesAnsweredOnce == Spec => []AnsweredOnce
<1>1. IInv => AnsweredOnce BY PlacesAreOne DEF IInv
<1>. QED BY Invariance, <1>1, PTL

(* "One task per source, and at most one workspace scan" (server.rs:466),  *)
(* for any number of workers, counting the tasks that were cancelled and   *)
(* still run.                                                              *)
THEOREM ScopesAreExclusive == Spec => []OneTaskPerScope
<1>1. IInv => OneTaskPerScope BY DEF IInv
<1>. QED BY Invariance, <1>1, PTL

(* Work whose reply is still wanted is about the documents and files the   *)
(* server has: invalidate_queries and refresh_link_diagnostics retire      *)
(* everything else.                                                        *)
THEOREM LiveWorkStaysCurrent == Spec => []LiveWorkIsCurrent
<1>1. IInv => LiveWorkIsCurrent BY DEF IInv
<1>. QED BY Invariance, <1>1, PTL

(* The budget of MAX_PENDING_QUERY_BYTES is what the queued queries retain,*)
(* however they leave the queue, and never overrun: the subtraction that   *)
(* asks for room cannot wrap.                                              *)
THEOREM BudgetStaysExact == Spec => []BudgetIsExact
<1>1. Init => BudgetIsExact BY NoBytes, BoundsAssumption DEF Init, BudgetIsExact
<1>. QED BY <1>1, BudgetStep, Invariance, PTL DEF Spec
=============================================================================
