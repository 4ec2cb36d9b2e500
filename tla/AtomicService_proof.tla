------------------------- MODULE AtomicService_proof -------------------------
(***************************************************************************)
(* Proofs about what the client of LspServer sees, for any number of       *)
(* documents, edits, queries and workers: after shutdown nothing new, of a *)
(* closed document nothing, of a synchronized one what is up to date,      *)
(* unless its computation is due or running; and all in all a service      *)
(* without queues and snapshots, AtomicService.                            *)
(***************************************************************************)
EXTENDS LspServer_proof

-----------------------------------------------------------------------------
(* After shutdown.                                                         *)

(* Nothing is left that could be shown or succeed.                         *)
Silenced == state = "Shutdown" =>
    /\ \A u \in Uris : publications[u] = None
    /\ \A id \in Ids : responses[id] # "ok"
    /\ pending = {}
    /\ reply # None => reply.answer # "ok"

(* No task has a reply left after shutdown.                                *)
LEMMA NoReplies ==
  ASSUME IInv, state = "Shutdown", NEW w \in Workers, running[w] # None
  PROVE  running[w].reply = None
BY LiveIsCurrentAll DEF IInv, LiveIsCurrent

(* "Shutdown" is the last state: only queries, all refused, and the work   *)
(* that is still running end in it.                                        *)
LEMMA SilencedStep == IInv /\ Silenced /\ [Next]_vars => Silenced'
<1>. SUFFICES ASSUME IInv, Silenced, [Next]_vars, state' = "Shutdown"
              PROVE  /\ \A u \in Uris : publications'[u] = None
                     /\ \A id \in Ids : responses'[id] # "ok"
                     /\ pending' = {}
                     /\ reply' # None => reply'.answer # "ok"
  BY DEF Silenced
<1>1. TypeOK /\ None # "ok" BY NullsAssumption DEF IInv, Answers
<1>2. CASE Shutdown BY <1>1, <1>2 DEF Shutdown, Receive
<1>3. ASSUME state = "Shutdown", NEW id \in Ids, NEW r \in Requests, Query(id, r)
      PROVE  /\ UNCHANGED <<pending, responses, publications>>
             /\ reply'.answer = "refused"
  BY <1>3 DEF Query, Receive
<1>4. ASSUME state = "Shutdown", ServerStep
      PROVE  /\ pending' = pending
             /\ \A u \in Uris : publications'[u] = None
             /\ \A id \in Ids : responses'[id] # "ok"
             /\ reply' \in {reply, None}
  <2>1. CASE Drain
    BY <1>1, <1>4, <2>1 DEF Silenced, Drain, Deliver, queues
  <2>2. CASE WriteResponse BY <1>4, <2>2 DEF Silenced, WriteResponse, queues
  <2>3. CASE CompleteCached
    <3>1. PICK ids \in SUBSET Cached : Without(ids) /\ Deliver(Respond(ids, "ok"), publications)
      BY <2>3 DEF CompleteCached
    <3>2. pending' = pending BY <1>4, <3>1 DEF Silenced, Without
    <3>. QED BY <1>1, <2>3, <3>1, <3>2 DEF CompleteCached, Deliver
  <2>4. CASE StopStarting \/ Wake
    BY <1>4, <2>4 DEF Silenced, StopStarting, Wake, queues, output
  <2>5. ~StartWork BY <1>4 DEF StartWork, StartQuery, StartDiagnostics, Start
  <2>. QED BY <1>4, <2>1, <2>2, <2>3, <2>4, <2>5 DEF ServerStep
<1>5. ASSUME state = "Shutdown", NEW w \in Workers, FinishWork(w)
      PROVE  UNCHANGED <<pending, responses, publications, reply>>
  <2>1. Finish(w) /\ running[w] # None
    BY <1>5 DEF FinishWork, FinishQuery, FinishDiagnostics, Reschedule, FinishRetired, Finish
  <2>2. running[w].reply = None BY <1>5, <2>1, NoReplies
  <2>3. FinishRetired(w)
    BY <1>5, <2>2, NullsAssumption DEF FinishWork, FinishQuery, FinishDiagnostics, Reschedule
  <2>. QED BY <2>1, <2>3 DEF FinishRetired, Finish
<1>6. CASE \/ UNCHANGED vars
           \/ \E u \in Uris : Deadline(u)
           \/ \E w \in Workers : Analyze(w)
  <2>1. UNCHANGED <<state, pending, responses, publications, reply>>
    BY <1>6 DEF vars, Deadline, Analyze, queues, output
  <2>. QED BY <2>1 DEF Silenced
<1>7. ~Initialize /\ ~Notifies
  BY <1>1, NotifiesAlike DEF Initialize
<1>8. ASSUME NEW id \in Ids, NEW r \in Requests, Query(id, r) PROVE state = "Shutdown"
  BY <1>8 DEF Query
<1>9. ServerStep => state = "Shutdown"
  BY DEF ServerStep, Drain, WriteResponse, CompleteCached, StopStarting, Wake, StartWork,
         StartQuery, StartDiagnostics, Start
<1>10. ASSUME NEW w \in Workers, FinishWork(w) PROVE state = "Shutdown"
  BY <1>10 DEF FinishWork, FinishQuery, FinishDiagnostics, Reschedule, FinishRetired, Finish
<1>11. CASE \E id \in Ids, r \in Requests : Query(id, r)
  BY <1>3, <1>8, <1>11 DEF Silenced
<1>12. CASE ServerStep BY <1>4, <1>9, <1>12 DEF Silenced
<1>13. CASE \E w \in Workers : FinishWork(w) BY <1>5, <1>10, <1>13 DEF Silenced
<1>. QED BY <1>2, <1>6, <1>7, <1>11, <1>12, <1>13, ClientCases DEF Next

(* What SilentAfterShutdown says of one step.                              *)
Silence == state = "Shutdown" =>
    /\ shown' = shown
    /\ \A id \in Ids : answers'[id] = "ok" => answers[id] = "ok"
    /\ pc = "respond" /\ reply.id = None
         => \A id \in Ids : asked[id] # None => answers[id] # None

(* In that silence a step shows nothing and lets no query succeed.         *)
LEMMA SilenceKept == IInv /\ Silenced /\ [Next]_vars => Silence
<1>. SUFFICES ASSUME IInv, Silenced, [Next]_vars, state = "Shutdown"
              PROVE  /\ shown' = shown
                     /\ \A id \in Ids : answers'[id] = "ok" => answers[id] = "ok"
                     /\ pc = "respond" /\ reply.id = None
                          => \A id \in Ids : asked[id] # None => answers[id] # None
  BY DEF Silence
<1>1. TypeOK /\ OutputFollowsTurn /\ Places BY DEF IInv
<1>2. ASSUME pc = "respond", reply.id = None, NEW id \in Ids, asked[id] # None
      PROVE  answers[id] # None
  <2>1. InOnePlace(id) /\ responses[id] = None /\ id \notin pending
    BY <1>1, <1>2 DEF Places, OutputFollowsTurn, Silenced
  <2>2. ~Replying(id) BY <1>2, NullsAssumption DEF Replying
  <2>3. \A w \in Workers : ~OnWorker(id, w) BY NoReplies, NullsAssumption DEF OnWorker
  <2>. QED BY <1>2, <2>1, <2>2, <2>3 DEF InOnePlace
<1>3. ASSUME NEW rs, NEW ids \in SUBSET pending, rs = responses \/ rs = Respond(ids, "ok"),
             Deliver(rs, publications)
      PROVE  /\ shown' = shown
             /\ \A id \in Ids : answers'[id] = "ok" => answers[id] = "ok"
  <2>1. \A id \in Ids : rs[id] # "ok" BY <1>3 DEF Silenced, Respond
  <2>2. shown' = [u \in Uris |-> shown[u]] BY <1>3 DEF Deliver, Silenced
  <2>3. shown' = shown BY <1>1, <2>2 DEF TypeOK
  <2>. QED BY <1>3, <2>1, <2>3 DEF Deliver
<1>4. CASE ServerStep
  <2>1. CASE Drain
    <3>1. Deliver(responses, publications) /\ {} \in SUBSET pending BY <2>1 DEF Drain
    <3>. QED BY <1>2, <1>3, <3>1
  <2>2. CASE WriteResponse
    <3>1. reply # None BY <1>1, <2>2 DEF OutputFollowsTurn, WriteResponse
    <3>. QED BY <1>2, <2>2, <3>1 DEF WriteResponse, Silenced
  <2>3. CASE CompleteCached
    <3>1. PICK ids \in SUBSET pending : Deliver(Respond(ids, "ok"), publications)
      BY <2>3 DEF CompleteCached, Cached
    <3>. QED BY <1>2, <1>3, <3>1
  <2>4. CASE StartWork \/ StopStarting \/ Wake
    BY <1>2, <2>4 DEF StartWork, StartQuery, StartDiagnostics, Start, StopStarting, Wake, client
  <2>. QED BY <1>4, <2>1, <2>2, <2>3, <2>4 DEF ServerStep
<1>5. CASE ~ServerStep
  <2>1. UNCHANGED <<answers, shown>>
    BY <1>1, <1>5, ClientCases, NotifiesAlike
       DEF Next, vars, client, Initialize, Shutdown, Query, Receive, Deadline, Analyze,
           FinishWork, FinishQuery, FinishDiagnostics, Reschedule, FinishRetired, Finish
  <2>. QED BY <1>2, <2>1
<1>. QED BY <1>4, <1>5

(* After shutdown the client sees no new list and no query succeed, and    *)
(* when shutdown itself is answered every query has been (README.md:502).  *)
THEOREM ShutdownIsSilent == Spec => SilentAfterShutdown
<1>1. Init => Silenced BY DEF Init, Silenced
<1>2. IInv /\ IInv' /\ Silenced /\ [Next]_vars => Silenced' BY SilencedStep
<1>3. Spec => []Silenced BY Invariance, <1>1, <1>2, PTL DEF Spec
<1>4. IInv /\ Silenced /\ [Next]_vars => [Silence]_vars BY SilenceKept
<1>5. Spec => [][Silence]_vars BY Invariance, <1>3, <1>4, PTL DEF Spec
<1>. QED BY <1>5 DEF SilentAfterShutdown, Silence

-----------------------------------------------------------------------------
(* Closed documents.                                                       *)

(* What is shown, or waits to be, of a document without synchronization.   *)
Retracted == state # "Shutdown" =>
    \A u \in Uris \ Synchronized(documents) : Showing(u) = Empty

(* Writing "outgoing" changes nothing of what is shown or waits to be.     *)
LEMMA DeliverShows ==
  ASSUME TypeOK, NEW rs, Deliver(rs, publications), NEW u \in Uris
  PROVE  Showing(u)' = Showing(u)
BY DEF Deliver, Showing, TypeOK

(* Steps that neither edit documents nor finish diagnostics.               *)
LEMMA ShowsTheSame ==
  ASSUME TypeOK, NEW u \in Uris,
         \/ ServerStep \/ Initialize \/ UNCHANGED vars \/ FilesChanged
         \/ \E id \in Ids : CancelRequest(id) \/ \E r \in Requests : Query(id, r)
         \/ \E v \in Uris : Deadline(v)
         \/ \E w \in Workers : Analyze(w)
  PROVE  Showing(u)' = Showing(u) /\ documents' = documents /\ dependencies' = dependencies
<1>1. CASE Drain BY <1>1, DeliverShows DEF Drain, server
<1>2. CASE CompleteCached
  <2>1. PICK ids \in SUBSET Cached : Deliver(Respond(ids, "ok"), publications)
    BY <1>2 DEF CompleteCached
  <2>. QED BY <1>2, <2>1, DeliverShows DEF CompleteCached, server
<1>3. CASE ~Drain /\ ~CompleteCached
  <2>1. UNCHANGED <<publications, shown, documents, dependencies>>
    BY <1>3 DEF ServerStep, WriteResponse, StartWork, StartQuery, StartDiagnostics, Start,
         StopStarting, Wake, Initialize, Receive, FilesChanged, CancelRequest, Query,
         Notification, Deadline, Analyze, vars, server, output, client
  <2>. QED BY <2>1 DEF Showing
<1>. QED BY <1>1, <1>2, <1>3

(* What an edit does to the lists: that of the document is retracted if it *)
(* loses its synchronization, no other changes.                            *)
LEMMA EditShows ==
  ASSUME TypeOK, NEW u \in Uris, DidOpen(u) \/ DidChange(u) \/ DidChangeBadly(u) \/ DidClose(u)
  PROVE  /\ \A v \in Uris \ {u} : Showing(v)' = Showing(v)
         /\ u \notin Synchronized(documents') => Showing(u)' = Empty
<1>1. /\ shown' = shown
      /\ \/ publications' = publications
         \/ publications' = [publications EXCEPT ![u] = Empty]
  BY DEF DidOpen, DidChange, DidChangeBadly, DidClose, Notification, Receive
<1>2. \A v \in Uris \ {u} : publications'[v] = publications[v] BY <1>1 DEF TypeOK
<1>3. u \notin Synchronized(documents') => publications'[u] = Empty
  <2>1. DidOpen(u) \/ DidChange(u) => u \in Synchronized(documents')
    BY EditedDocuments DEF Synchronized
  <2>. QED BY <2>1 DEF DidChangeBadly, DidClose, TypeOK
<1>. QED BY <1>1, <1>2, <1>3, NullsAssumption DEF Showing

(* What the end of a task does to the lists: only diagnostics that are     *)
(* current publish one, of their source.                                   *)
LEMMA FinishShows ==
  ASSUME TypeOK, SlotsMatchTasks, NEW w \in Workers, FinishWork(w)
  PROVE  /\ Synchronized(documents') = Synchronized(documents)
         /\ \A u \in Uris : Showing(u)' # Showing(u) =>
              /\ FinishDiagnostics(w) /\ u = running[w].uri
              /\ u \in Synchronized(documents)
<1>1. Finish(w) BY DEF FinishWork, FinishQuery, FinishDiagnostics, Reschedule, FinishRetired
<1>2. Synchronized(documents') = Synchronized(documents)
  BY <1>1, AdoptedType DEF Finish, Synchronized
<1>3. shown' = shown BY <1>1 DEF Finish, client
<1>4. CASE FinishDiagnostics(w)
  <2>1. publications' = [publications EXCEPT ![running[w].uri] = BasisOf(w)]
    BY <1>4 DEF FinishDiagnostics
  <2>2. \A u \in Uris : u # running[w].uri => publications'[u] = publications[u]
    BY <2>1 DEF TypeOK
  <2>3. running[w].uri # None
    BY <1>4 DEF FinishDiagnostics, Finish, SlotsMatchTasks, SlotMatches
  <2>4. running[w].uri \in Synchronized(documents)
    BY <1>4, <2>3 DEF FinishDiagnostics, Current
  <2>. QED BY <1>2, <1>3, <1>4, <2>2, <2>4 DEF Showing
<1>5. CASE ~FinishDiagnostics(w)
  <2>1. publications' = publications
    BY <1>5 DEF FinishWork, FinishQuery, Reschedule, FinishRetired
  <2>. QED BY <1>2, <1>3, <2>1 DEF Showing
<1>. QED BY <1>4, <1>5

(* Only an edit takes the synchronization away, and it retracts the list.  *)
LEMMA RetractedStep == IInv /\ Retracted /\ [Next]_vars => Retracted'
<1>. SUFFICES ASSUME IInv, Retracted, [Next]_vars, state' # "Shutdown",
                     NEW v \in Uris, v \notin Synchronized(documents')
              PROVE  Showing(v)' = Empty
  BY DEF Retracted
<1>1. TypeOK /\ SlotsMatchTasks BY DEF IInv
<1>2. state # "Shutdown"
  BY <1>1, ClientCases, NotifiesAlike
     DEF Next, vars, ServerStep, Drain, WriteResponse, CompleteCached, StopStarting, Wake,
         StartWork, StartQuery, StartDiagnostics, Start, Initialize, Shutdown, Query, Deadline,
         Analyze, FinishWork, FinishQuery, FinishDiagnostics, Reschedule, FinishRetired, Finish
<1>3. ASSUME NEW u \in Uris, DidOpen(u) \/ DidChange(u) \/ DidChangeBadly(u) \/ DidClose(u)
      PROVE  Showing(v)' = Empty
  <2>1. CASE v = u BY <1>1, <1>3, <2>1, EditShows
  <2>2. CASE v # u
    <3>1. v \notin Synchronized(documents)
      BY <1>1, <1>3, <2>2, EditedDocuments DEF Synchronized
    <3>. QED BY <1>1, <1>2, <1>3, <2>2, <3>1, EditShows DEF Retracted
  <2>. QED BY <2>1, <2>2
<1>4. ASSUME NEW w \in Workers, FinishWork(w) PROVE Showing(v)' = Empty
  BY <1>1, <1>2, <1>4, FinishShows DEF Retracted
<1>5. CASE \/ ServerStep \/ Initialize \/ UNCHANGED vars \/ FilesChanged
           \/ \E id \in Ids : CancelRequest(id) \/ \E r \in Requests : Query(id, r)
           \/ \E u \in Uris : Deadline(u)
           \/ \E w \in Workers : Analyze(w)
  BY <1>1, <1>2, <1>5, ShowsTheSame DEF Retracted
<1>6. ~Shutdown BY DEF Shutdown
<1>. QED BY <1>3, <1>4, <1>5, <1>6 DEF Next, ClientStep

(* Only synchronized documents are diagnosed.                              *)
Diagnosed(w) ==
    running[w] # None /\ running[w].reply = "diagnostics"
      => running[w].uri \in Synchronized(documents)
AllDiagnosed == \A w \in Workers : Diagnosed(w)

(* A notification retires the diagnostics of what it edits.                *)
LEMMA NotifiedDiagnosed ==
  ASSUME IInv, NEW w \in Workers, Diagnosed(w), Notifies
  PROVE  Diagnosed(w)'
<1>1. TypeOK BY DEF IInv
<1>2. ASSUME NEW ids, NEW sources, NEW refreshed, running' = Retire(ids, sources, refreshed)
      PROVE  /\ running'[w] = None <=> running[w] = None
             /\ running[w] # None =>
                  \/ running'[w] = running[w] /\ running[w].uri \notin sources
                  \/ running'[w].reply = None
  <2>1. TypeOK /\ running' = Retire(ids, sources, refreshed) BY <1>1, <1>2
  <2>2. running'[w] = None <=> running[w] = None BY <2>1, RetireSlot
  <2>3. running[w] # None => \/ running'[w] = running[w] /\ running[w].uri \notin sources
                             \/ running'[w].reply = None
    BY <2>1, RetireSlot
  <2>. QED BY <2>2, <2>3
<1>3. ASSUME NEW u \in Uris, DidOpen(u) \/ DidChange(u) \/ DidChangeBadly(u) \/ DidClose(u)
      PROVE  Diagnosed(w)'
  <2>1. PICK refreshed : running' = Retire(QueriesOn(u), {u}, refreshed)
    BY <1>3 DEF DidOpen, DidChange, DidChangeBadly, DidClose, Invalidate
  <2>2. \A v \in Uris \ {u} : documents'[v] = documents[v] BY <1>1, <1>3, EditedDocuments
  <2>3. \/ running'[w] = None \/ running'[w].reply = None
        \/ running[w] # None /\ running'[w] = running[w] /\ running[w].uri # u
    BY <1>2, <2>1
  <2>. QED BY <2>2, <2>3, NullsAssumption DEF Diagnosed, Synchronized
<1>4. CASE FilesChanged
  <2>1. /\ running' = Retire(WorkspaceQueries, {}, FileReferrers(documents))
        /\ documents' = documents
    BY <1>4 DEF FilesChanged, Invalidate
  <2>2. \/ running'[w] = None \/ running'[w].reply = None
        \/ running[w] # None /\ running'[w] = running[w]
    BY <1>2, <2>1
  <2>. QED BY <2>1, <2>2, NullsAssumption DEF Diagnosed
<1>5. ASSUME NEW id \in Ids, CancelRequest(id) PROVE Diagnosed(w)'
  <2>1. running' = Retire({id}, {}, {}) /\ documents' = documents
    BY <1>5 DEF CancelRequest, Invalidate, server
  <2>2. \/ running'[w] = None \/ running'[w].reply = None
        \/ running[w] # None /\ running'[w] = running[w]
    BY <1>2, <2>1
  <2>. QED BY <2>1, <2>2, NullsAssumption DEF Diagnosed
<1>. QED BY <1>3, <1>4, <1>5 DEF Notifies

(* Only what is due is diagnosed, and only synchronized documents are due. *)
LEMMA DiagnosedStep == IInv /\ AllDiagnosed /\ [Next]_vars => AllDiagnosed'
<1>. SUFFICES ASSUME IInv, AllDiagnosed, [Next]_vars, NEW v \in Workers PROVE Diagnosed(v)'
  BY DEF AllDiagnosed
<1>1. TypeOK /\ SlotsMatchTasks /\ QueuedIsOpen /\ Diagnosed(v) BY DEF IInv, AllDiagnosed
<1>2. CASE Notifies BY <1>1, <1>2, NotifiedDiagnosed
<1>3. CASE Shutdown
  <2>1. running'[v] = IF running[v] = None THEN None ELSE Retired(running[v])
    BY <1>3 DEF Shutdown
  <2>2. running[v] # None => running[v] \in RunningWork BY <1>1 DEF TypeOK
  <2>3. running'[v] = None \/ running'[v].reply = None BY <2>1, <2>2, RetiredType
  <2>. QED BY <2>3, NullsAssumption DEF Diagnosed
<1>4. ASSUME NEW w \in Workers, NEW id \in Ids, StartQuery(w, id) PROVE Diagnosed(v)'
  <2>1. /\ Start(w, asked[id].uri, UsesWorkspace(asked[id].kind), id, asked[id].kind)
        /\ id \in pending /\ documents' = documents
    BY <1>4 DEF StartQuery, Start, server
  <2>2. (v # w => running'[v] = running[v]) /\ running'[w].reply = id
    BY <1>1, <2>1, QueuedScope, StartedSlot
  <2>. QED BY <1>1, <2>1, <2>2, NullsAssumption DEF Diagnosed
<1>5. ASSUME NEW w \in Workers, NEW u \in Uris, StartDiagnostics(w, u) PROVE Diagnosed(v)'
  <2>1. documents' = documents BY <1>5 DEF StartDiagnostics, Start, server
  <2>2. (v # w => running'[v] = running[v]) /\ running'[w].uri = u
    BY <1>1, <1>5, StartedDiagnostics
  <2>3. u \in Synchronized(documents)
    <3>1. u \notin pending BY <1>1, NullsAssumption DEF TypeOK
    <3>2. due[u] # None
      BY <1>5, <3>1, NullsAssumption DEF StartDiagnostics, First, Eligible, EligibleQueries,
                                         EligibleDiagnostics
    <3>. QED BY <1>1, <3>2 DEF QueuedIsOpen
  <2>. QED BY <1>1, <2>1, <2>2, <2>3 DEF Diagnosed
<1>6. ASSUME NEW w \in Workers, FinishWork(w) PROVE Diagnosed(v)'
  <2>1. Finish(w)
    BY <1>6 DEF FinishWork, FinishQuery, FinishDiagnostics, Reschedule, FinishRetired
  <2>2. running'[v] = IF v = w THEN None ELSE running[v] BY <1>1, <2>1 DEF Finish, TypeOK
  <2>3. Synchronized(documents') = Synchronized(documents) BY <1>1, <1>6, FinishShows
  <2>. QED BY <1>1, <2>2, <2>3 DEF Diagnosed
<1>7. CASE \/ Quiet \/ \E id \in Ids, r \in Requests : Query(id, r)
           \/ \E w \in Workers : Analyze(w)
  <2>1. UNCHANGED <<running, documents>> BY <1>7 DEF Quiet, Query, Analyze, server
  <2>. QED BY <1>1, <2>1 DEF Diagnosed
<1>. QED BY <1>2, <1>3, <1>4, <1>5, <1>6, <1>7, StepCases

(* A closed or unsynchronized document shows nothing, and nothing is due   *)
(* or running that would (notification, server.rs:801).                     *)
THEOREM ClosedShowNothing == Spec => []ClosedIsRetracted
<1>1. Init => Retracted BY DEF Init, Retracted, Showing
<1>2. Spec => []Retracted BY Invariance, <1>1, RetractedStep, PTL DEF Spec
<1>3. ASSUME IInv, Retracted, AllDiagnosed PROVE ClosedIsRetracted
  <2>. SUFFICES ASSUME state = "Running", NEW u \in Uris, u \notin Synchronized(documents)
                PROVE  Showing(u) = Empty /\ due[u] = None /\ ~Diagnosing(u)
    BY DEF ClosedIsRetracted
  <2>1. Showing(u) = Empty BY <1>3 DEF Retracted
  <2>2. due[u] = None BY <1>3 DEF IInv, QueuedIsOpen
  <2>3. ~Diagnosing(u) BY <1>3 DEF AllDiagnosed, Diagnosed, Diagnosing, Working
  <2>. QED BY <2>1, <2>2, <2>3
<1>4. Init => AllDiagnosed BY DEF Init, AllDiagnosed, Diagnosed
<1>5. Spec => []AllDiagnosed BY Invariance, <1>4, DiagnosedStep, PTL DEF Spec
<1>. QED BY Invariance, <1>2, <1>3, <1>5, PTL

-----------------------------------------------------------------------------
(* Synchronized documents.                                                 *)

(* Targets are looked up in files.                                         *)
FilesWithTargets(w) == tasks[w] # None /\ tasks[w].targets # {} => tasks[w].files
TargetsAreInFiles == \A w \in Workers : FilesWithTargets(w)

(* A task reports targets only together with "files".                      *)
LEMMA TargetsStep == IInv /\ TargetsAreInFiles /\ [Next]_vars => TargetsAreInFiles'
<1>. SUFFICES ASSUME IInv, TargetsAreInFiles, [Next]_vars, NEW v \in Workers
              PROVE  FilesWithTargets(v)'
  BY DEF TargetsAreInFiles
<1>1. TypeOK /\ SlotsMatchTasks /\ FilesWithTargets(v) BY DEF IInv, TargetsAreInFiles
<1>2. ASSUME NEW w \in Workers, NEW uri, NEW workspace, NEW live, NEW kind,
             Start(w, uri, workspace, live, kind)
      PROVE  FilesWithTargets(v)'
  <2>1. tasks'[v] = IF v = w THEN [docs |-> documents, kind |-> kind, result |-> "computing",
                                   targets |-> {}, files |-> FALSE]
                    ELSE tasks[v]
    BY <1>1, <1>2 DEF Start, TypeOK
  <2>2. v = w => tasks'[v].targets = {} BY <2>1
  <2>. QED BY <1>1, <2>1, <2>2 DEF FilesWithTargets
<1>3. ASSUME NEW w \in Workers, Analyze(w) PROVE FilesWithTargets(v)'
  <2>1. PICK targets \in SUBSET ({u \in Uris : tasks[w].docs[u] # None} \ {running[w].uri}),
             files \in BOOLEAN, result \in {"ok", "failed", "cancelled"}, caches \in BOOLEAN :
          /\ targets # {} => files
          /\ tasks' = [tasks EXCEPT ![w] = Analyzed(w, targets, files, result, caches)]
    BY <1>3 DEF Analyze
  <2>2. tasks'[v] = IF v = w THEN Analyzed(w, targets, files, result, caches) ELSE tasks[v]
    BY <1>1, <2>1 DEF TypeOK
  <2>3. /\ Analyzed(w, targets, files, result, caches).targets = targets
        /\ Analyzed(w, targets, files, result, caches).files = files
    BY DEF Analyzed
  <2>. QED BY <1>1, <2>1, <2>2, <2>3 DEF FilesWithTargets
<1>4. ASSUME NEW w \in Workers, FinishWork(w) PROVE FilesWithTargets(v)'
  <2>1. Finish(w)
    BY <1>4 DEF FinishWork, FinishQuery, FinishDiagnostics, Reschedule, FinishRetired
  <2>2. tasks'[v] = IF v = w THEN None ELSE tasks[v] BY <1>1, <2>1 DEF Finish, TypeOK
  <2>. QED BY <1>1, <2>2 DEF FilesWithTargets
<1>5. CASE Notifies \/ Shutdown \/ Quiet \/ \E id \in Ids, r \in Requests : Query(id, r)
  <2>1. tasks' = tasks
    BY <1>1, <1>5, NotifiesAlike DEF Shutdown, Receive, Quiet, Query
  <2>. QED BY <1>1, <2>1 DEF FilesWithTargets
<1>. QED BY <1>2, <1>3, <1>4, <1>5, StepCases DEF StartQuery, StartDiagnostics

(* The list shown is up to date, and the dependencies of its document have *)
(* all that it was computed from.                                          *)
Recorded(u) ==
    /\ UpToDate(u, Showing(u))
    /\ dependencies[u] # None
    /\ \A t \in Uris : Showing(u).used[t] # 0 => t \in dependencies[u].targets
    /\ Showing(u).epoch # 0 => dependencies[u].files
    /\ dependencies[u].targets # {} => dependencies[u].files

Covered(u) == u \in Synchronized(documents) =>
    /\ ~(due[u] # None /\ Diagnosing(u))
    /\ due[u] # None \/ Diagnosing(u) \/ Recorded(u)
AllCovered == \A u \in Uris : Covered(u)

(* As long as the documents it was computed from, and the epoch if it used *)
(* files, are the same, a list stays up to date.                           *)
LEMMA StaysRecorded ==
  ASSUME TypeOK, NEW u \in Uris, Recorded(u),
         Showing(u)' = Showing(u), dependencies'[u] = dependencies[u],
         documents'[u].rev = documents[u].rev,
         \A t \in dependencies[u].targets :
           documents[t] # None => documents'[t] # None /\ documents'[t].rev = documents[t].rev,
         dependencies[u].files => scopeEpoch' = scopeEpoch
  PROVE  Recorded(u)'
BY DEF Recorded, UpToDate

(* What a notification leaves of the cover of a document it does not edit: *)
(* it reads the change and is armed, or it does not and stays as it was.   *)
LEMMA NotifiedCover ==
  ASSUME TypeOK, NEW u \in Uris, Covered(u), u \in Synchronized(documents),
         NEW ids \in SUBSET Ids, NEW sources, u \notin sources, NEW timers, timers[u] = due[u],
         NEW refreshed,
         running' = Retire(ids, sources, refreshed), due' = Rearm(timers, refreshed),
         u \in refreshed \/ (Recorded(u) => Recorded(u)')
  PROVE  Covered(u)'
<1>1. ASSUME NEW w \in Workers
      PROVE  /\ running'[w] = None <=> running[w] = None
             /\ running[w] # None =>
                  \/ running'[w] = running[w]
                     /\ ~(running[w].reply = "diagnostics" /\ running[w].uri \in refreshed)
                  \/ /\ running'[w].reply = None
                     /\ \/ running[w].reply \in ids \/ running[w].uri \in sources
                        \/ running[w].reply = "diagnostics" /\ running[w].uri \in refreshed
  <2>1. running'[w] = IF running[w] # None
                         /\ \/ running[w].reply \in ids
                            \/ running[w].uri \in sources
                            \/ running[w].reply = "diagnostics" /\ running[w].uri \in refreshed
                      THEN Retired(running[w]) ELSE running[w]
    BY DEF Retire
  <2>2. running[w] # None => /\ Retired(running[w]) # None
                             /\ Retired(running[w]).reply = None
    BY RetiredType, NoneIsNoWork DEF TypeOK
  <2>. QED BY <2>1, <2>2
<1>2. "diagnostics" \notin ids /\ None # "diagnostics" BY NullsAssumption
<1>3. CASE u \in refreshed
  <2>1. due'[u] = "armed" /\ "armed" # None BY <1>3, NullsAssumption DEF Rearm
  <2>2. ~Diagnosing(u)' BY <1>1, <1>2, <1>3 DEF Diagnosing, Working
  <2>. QED BY <2>1, <2>2 DEF Covered
<1>4. CASE u \notin refreshed
  <2>1. due'[u] = due[u] BY <1>4 DEF Rearm
  <2>2. Diagnosing(u)' <=> Diagnosing(u) BY <1>1, <1>2, <1>4 DEF Diagnosing, Working
  <2>. QED BY <1>4, <2>1, <2>2 DEF Covered
<1>. QED BY <1>3, <1>4

(* An edited document that stays synchronized is armed and nothing runs on *)
(* it; of the others, those that used it are armed.                        *)
LEMMA EditedCover ==
  ASSUME IInv, NEW v \in Uris, DidOpen(v) \/ DidChange(v) \/ DidChangeBadly(v) \/ DidClose(v),
         NEW u \in Uris, Covered(u), u \in Synchronized(documents')
  PROVE  Covered(u)'
<1>1. TypeOK BY DEF IInv
<1>2. PICK timers, refreshed :
        /\ running' = Retire(QueriesOn(v), {v}, refreshed) /\ due' = Rearm(timers, refreshed)
        /\ \A t \in Uris \ {v} : timers[t] = due[t]
        /\ DidOpen(v) \/ DidChange(v) => timers[v] = "armed"
        /\ \/ refreshed = FileReferrers(documents')
           \/ refreshed = LinkReferrers(v, documents') /\ scopeEpoch' = scopeEpoch
  <2>1. /\ [due EXCEPT ![v] = "armed"][v] = "armed"
        /\ \A t \in Uris : t # v => [due EXCEPT ![v] = "armed"][t] = due[t]
        /\ \A t \in Uris : t # v => [due EXCEPT ![v] = None][t] = due[t]
    BY <1>1 DEF TypeOK
  <2>2. CASE DidOpen(v) \/ DidChange(v)
    BY <2>1, <2>2 DEF DidOpen, DidChange, Invalidate
  <2>3. CASE (DidChangeBadly(v) \/ DidClose(v)) /\ ~(DidOpen(v) \/ DidChange(v))
    BY <2>1, <2>3 DEF DidChangeBadly, DidClose, Invalidate
  <2>. QED BY <2>2, <2>3
<1>3. \A t \in Uris \ {v} : documents'[t] = documents[t] BY <1>1, EditedDocuments
<1>4. CASE u = v
  <2>1. DidOpen(v) \/ DidChange(v)
    <3>1. ~DidClose(v) BY <1>1, <1>4 DEF DidClose, Synchronized, TypeOK, Documents
    <3>2. ~DidChangeBadly(v)
      BY <1>1, <1>4 DEF DidChangeBadly, Write, NewDocument, Synchronized, TypeOK, Documents
    <3>. QED BY <3>1, <3>2
  <2>2. due'[u] = "armed" BY <1>2, <1>4, <2>1 DEF Rearm
  <2>3. ASSUME NEW w \in Workers PROVE ~(running'[w] # None /\ running'[w].uri = u
                                         /\ running'[w].reply = "diagnostics")
    <3>1. TypeOK /\ running' = Retire(QueriesOn(v), {v}, refreshed) BY <1>1, <1>2
    <3>2. running'[w] = None \/ running'[w].uri # v \/ running'[w].reply = None
      BY <3>1, RetireSlot, SMTT(30)
    <3>. QED BY <1>4, <3>2, NullsAssumption
  <2>. QED BY <2>2, <2>3, NullsAssumption DEF Covered, Diagnosing, Working
<1>5. CASE u # v
  <2>1. u \in Synchronized(documents) BY <1>3, <1>5 DEF Synchronized
  <2>2. Showing(u)' = Showing(u) BY <1>1, <1>5, EditShows
  <2>3. dependencies'[u] = dependencies[u]
    BY <1>1, <1>5 DEF DidOpen, DidChange, DidChangeBadly, DidClose, TypeOK
  <2>4. ASSUME Recorded(u), u \notin refreshed PROVE Recorded(u)'
    <3>1. /\ v \notin dependencies[u].targets
          /\ dependencies[u].files => scopeEpoch' = scopeEpoch
      BY <1>2, <1>5, <2>4 DEF Recorded, FileReferrers, LinkReferrers
    <3>. QED BY <1>1, <1>3, <1>5, <2>2, <2>3, <2>4, <3>1, StaysRecorded
                DEF TypeOK, Dependencies, Recorded
  <2>5. QueriesOn(v) \in SUBSET Ids BY <1>1, OwedAreIds
  <2>6. u \notin {v} /\ timers[u] = due[u] BY <1>2, <1>5
  <2>. QED BY <1>1, <1>2, <2>1, <2>4, <2>5, <2>6, NotifiedCover
<1>. QED BY <1>4, <1>5

(* Files change for every list that used one; a cancellation is about      *)
(* queries only.                                                           *)
LEMMA FilesCover ==
  ASSUME IInv, FilesChanged \/ \E id \in Ids : CancelRequest(id),
         NEW u \in Uris, Covered(u), u \in Synchronized(documents')
  PROVE  Covered(u)'
<1>1. TypeOK BY DEF IInv
<1>2. Showing(u)' = Showing(u) /\ documents' = documents /\ dependencies' = dependencies
  BY <1>1, ShowsTheSame
<1>3. CASE FilesChanged
  <2>1. /\ running' = Retire(WorkspaceQueries, {}, FileReferrers(documents))
        /\ due' = Rearm(due, FileReferrers(documents))
    BY <1>3 DEF FilesChanged, Invalidate
  <2>2. ASSUME Recorded(u), u \notin FileReferrers(documents) PROVE Recorded(u)'
    <3>1. ~dependencies[u].files BY <1>2, <2>2 DEF Recorded, FileReferrers
    <3>. QED BY <1>1, <1>2, <2>2, <3>1, StaysRecorded
  <2>3. WorkspaceQueries \in SUBSET Ids BY <1>1, OwedAreIds
  <2>. QED BY <1>1, <1>2, <2>1, <2>2, <2>3, NotifiedCover
<1>4. ASSUME NEW id \in Ids, CancelRequest(id) PROVE Covered(u)'
  <2>1. /\ running' = Retire({id}, {}, {}) /\ due' = Rearm(due, {}) /\ scopeEpoch' = scopeEpoch
    BY <1>4 DEF CancelRequest, Invalidate, server
  <2>2. ASSUME Recorded(u) PROVE Recorded(u)'
    BY <1>1, <1>2, <2>1, <2>2, StaysRecorded
  <2>. QED BY <1>1, <1>2, <2>1, <2>2, NotifiedCover
<1>. QED BY <1>3, <1>4

(* What neither edits, shows, arms nor runs anything leaves the cover.     *)
LEMMA CalmCover ==
  ASSUME TypeOK, NEW u \in Uris, Covered(u), u \in Synchronized(documents'),
         Synchronized(documents') = Synchronized(documents),
         \A t \in Uris : documents[t] # None =>
            documents'[t] # None /\ documents'[t].rev = documents[t].rev,
         Showing(u)' = Showing(u), dependencies'[u] = dependencies[u], scopeEpoch' = scopeEpoch,
         due'[u] # None <=> due[u] # None, Diagnosing(u)' <=> Diagnosing(u)
  PROVE  Covered(u)'
<1>1. documents'[u].rev = documents[u].rev BY DEF Synchronized
<1>2. ASSUME Recorded(u) PROVE Recorded(u)'
  <2>1. \A t \in dependencies[u].targets :
           documents[t] # None => documents'[t] # None /\ documents'[t].rev = documents[t].rev
    BY <1>2 DEF TypeOK, Dependencies, Recorded
  <2>. QED BY <1>1, <1>2, <2>1, StaysRecorded
<1>. QED BY <1>2 DEF Covered

(* Work that starts: diagnostics give up their timer, a query is not       *)
(* diagnostics.                                                            *)
LEMMA StartCover ==
  ASSUME IInv, NEW u \in Uris, Covered(u), u \in Synchronized(documents'), NEW w \in Workers,
         \/ \E id \in Ids : StartQuery(w, id)
         \/ \E v \in Uris : StartDiagnostics(w, v)
  PROVE  Covered(u)'
<1>1. TypeOK /\ QueuedIsOpen BY DEF IInv
<1>2. ServerStep BY DEF ServerStep, StartWork
<1>3. Showing(u)' = Showing(u) /\ documents' = documents /\ dependencies' = dependencies
  BY <1>1, <1>2, ShowsTheSame
<1>4. scopeEpoch' = scopeEpoch BY DEF StartQuery, StartDiagnostics, Start, server
<1>5. ASSUME NEW id \in Ids, StartQuery(w, id) PROVE Covered(u)'
  <2>1. /\ Start(w, asked[id].uri, UsesWorkspace(asked[id].kind), id, asked[id].kind)
        /\ id \in pending /\ due' = due
    BY <1>5 DEF StartQuery
  <2>2. ASSUME NEW v \in Workers
        PROVE  /\ v # w => running'[v] = running[v]
               /\ running'[w].reply = id /\ running[w] = None
    BY <1>1, <2>1, QueuedScope, StartedSlot
  <2>3. id # "diagnostics" BY NullsAssumption
  <2>4. Diagnosing(u)' <=> Diagnosing(u) BY <2>2, <2>3 DEF Diagnosing, Working
  <2>. QED BY <1>1, <1>3, <1>4, <2>1, <2>4, CalmCover
<1>6. ASSUME NEW v \in Uris, StartDiagnostics(w, v) PROVE Covered(u)'
  <2>1. ASSUME NEW x \in Workers
        PROVE  /\ x # w => running'[x] = running[x]
               /\ running'[w].uri = v /\ running'[w].reply = "diagnostics"
               /\ running[w] = None /\ running'[w] # None
    BY <1>1, <1>6, StartedDiagnostics
  <2>2. due' = [due EXCEPT ![v] = None] BY <1>6 DEF StartDiagnostics
  <2>3. CASE u = v
    <3>1. due'[u] = None BY <1>1, <2>2, <2>3 DEF TypeOK
    <3>2. Diagnosing(u)' BY <2>1, <2>3 DEF Diagnosing, Working
    <3>. QED BY <3>1, <3>2 DEF Covered
  <2>4. CASE u # v
    <3>1. due'[u] = due[u] BY <1>1, <2>2, <2>4 DEF TypeOK
    <3>2. Diagnosing(u)' <=> Diagnosing(u) BY <2>1, <2>4 DEF Diagnosing, Working
    <3>. QED BY <1>1, <1>3, <1>4, <3>1, <3>2, CalmCover
  <2>. QED BY <2>3, <2>4
<1>. QED BY <1>5, <1>6

(* Work that ends: current diagnostics publish an up-to-date list and      *)
(* record all of what it was computed from, others are armed again.        *)
LEMMA FinishCover ==
  ASSUME IInv, TargetsAreInFiles, NEW u \in Uris, Covered(u), u \in Synchronized(documents'),
         NEW w \in Workers, FinishWork(w)
  PROVE  Covered(u)'
<1>1. TypeOK /\ SlotsMatchTasks /\ OneTaskPerScope /\ FilesWithTargets(w)
  BY DEF IInv, TargetsAreInFiles
<1>2. Finish(w) BY DEF FinishWork, FinishQuery, FinishDiagnostics, Reschedule, FinishRetired
<1>3. /\ running[w] # None /\ tasks[w] # None /\ tasks[w] \in Task
      /\ running[w] \in RunningWork
      /\ running' = [running EXCEPT ![w] = None] /\ scopeEpoch' = scopeEpoch
      /\ documents' = Adopted(w)
  BY <1>1, <1>2 DEF Finish, SlotsMatchTasks, SlotMatches, TypeOK
<1>4. running'[w] = None /\ \A v \in Workers : v # w => running'[v] = running[v]
  BY <1>1, <1>3 DEF TypeOK
<1>5. Synchronized(documents') = Synchronized(documents) BY <1>1, FinishShows
<1>6. \A t \in Uris : /\ documents'[t] = None <=> documents[t] = None
                      /\ documents[t] # None => documents'[t].rev = documents[t].rev
  BY <1>1, <1>3, AdoptedType
<1>7. CASE running[w].reply = "diagnostics" /\ running[w].uri = u
  <2>1. ~Diagnosing(u)'
    <3>1. u # None BY NullsAssumption
    <3>2. \A v \in Workers : v # w /\ running[v] # None => running[v].uri # u
      BY <1>1, <1>3, <1>7, <3>1 DEF Working, OneTaskPerScope
    <3>. QED BY <1>4, <3>2 DEF Diagnosing, Working
  <2>2. due[u] = None BY <1>3, <1>5, <1>7 DEF Covered, Diagnosing, Working
  <2>3. CASE Reschedule(w)
    <3>1. due'[u] = "armed" BY <1>5, <1>7, <2>2, <2>3 DEF Reschedule
    <3>. QED BY <2>1, <3>1, NullsAssumption DEF Covered
  <2>4. CASE FinishDiagnostics(w)
    <3>1. Current(w) BY <2>4 DEF FinishDiagnostics
    <3>2. /\ publications'[u] = BasisOf(w)
          /\ dependencies'[u] = [targets |-> tasks[w].targets, files |-> tasks[w].files]
      BY <1>1, <1>7, <2>4 DEF FinishDiagnostics, TypeOK
    <3>3. BasisOf(w) \in Basis BY <1>1, <1>3, <1>7, <3>1, BasisType
    <3>4. Showing(u)' = BasisOf(w) /\ Showing(u)' # Empty
      BY <3>2, <3>3, NullsAssumption DEF Showing
    <3>5. /\ BasisOf(w).rev = documents'[u].rev
          /\ \A t \in Uris : BasisOf(w).used[t] # 0 =>
               /\ t \in tasks[w].targets
               /\ documents'[t] # None /\ documents'[t].rev = BasisOf(w).used[t]
          /\ BasisOf(w).epoch \in {0, scopeEpoch'}
          /\ BasisOf(w).epoch # 0 => tasks[w].files
      <4>1. u # None BY NullsAssumption
      <4>2. SameRevision(u, tasks[w].docs) BY <1>7, <3>1, <4>1 DEF Current
      <4>3. BasisOf(w).rev = documents'[u].rev
        BY <1>6, <1>7, <4>2 DEF BasisOf, SameRevision
      <4>4. ASSUME NEW t \in Uris, BasisOf(w).used[t] # 0
            PROVE  /\ t \in tasks[w].targets
                   /\ documents'[t] # None /\ documents'[t].rev = BasisOf(w).used[t]
        <5>1. /\ t \in tasks[w].targets
              /\ BasisOf(w).used[t] = tasks[w].docs[t].rev
          BY <4>4 DEF BasisOf
        <5>2. SameRevision(t, tasks[w].docs) BY <3>1, <5>1 DEF Current
        <5>. QED BY <1>6, <5>1, <5>2 DEF SameRevision
      <4>5. /\ BasisOf(w).epoch \in {0, scopeEpoch'}
            /\ BasisOf(w).epoch # 0 => tasks[w].files
        BY <1>3, <3>1 DEF BasisOf, Current
      <4>. QED BY <4>3, <4>4, <4>5
    <3>6. dependencies'[u] # None
      <4>1. dependencies'[u] \in Dependencies BY <1>3, <3>2 DEF Dependencies, Task
      <4>. QED BY <4>1, NullsAssumption
    <3>7. dependencies'[u].targets # {} => dependencies'[u].files
      BY <1>1, <1>3, <3>2 DEF FilesWithTargets
    <3>8. Recorded(u)' BY <3>2, <3>4, <3>5, <3>6, <3>7 DEF Recorded, UpToDate
    <3>. QED BY <2>1, <3>8 DEF Covered
  <2>5. FinishDiagnostics(w) \/ Reschedule(w)
    BY <1>7, NullsAssumption DEF FinishWork, FinishQuery, FinishRetired
  <2>. QED BY <2>3, <2>4, <2>5
<1>8. CASE ~(running[w].reply = "diagnostics" /\ running[w].uri = u)
  <2>1. Diagnosing(u)' <=> Diagnosing(u) BY <1>3, <1>4, <1>8 DEF Diagnosing, Working
  <2>2. Showing(u)' = Showing(u) BY <1>1, <1>8, FinishShows DEF FinishDiagnostics
  <2>3. dependencies'[u] = dependencies[u]
    BY <1>1, <1>8 DEF FinishWork, FinishQuery, FinishDiagnostics, Reschedule, FinishRetired, TypeOK
  <2>4. due'[u] = due[u]
    BY <1>1, <1>8 DEF FinishWork, FinishQuery, FinishDiagnostics, Reschedule, FinishRetired, TypeOK
  <2>. QED BY <1>1, <1>3, <1>5, <1>6, <2>1, <2>2, <2>3, <2>4, CalmCover
<1>. QED BY <1>7, <1>8

(* A query that arrives, a deadline that passes and the rest of the turn   *)
(* concern neither documents nor diagnostics.                              *)
LEMMA QuietCover ==
  ASSUME IInv, NEW u \in Uris, Covered(u), u \in Synchronized(documents'),
         \/ ServerStep /\ ~StartWork
         \/ Initialize \/ UNCHANGED vars
         \/ \E id \in Ids, r \in Requests : Query(id, r)
         \/ \E v \in Uris : Deadline(v)
         \/ \E w \in Workers : Analyze(w)
  PROVE  Covered(u)'
<1>1. TypeOK BY DEF IInv
<1>2. Showing(u)' = Showing(u) /\ documents' = documents /\ dependencies' = dependencies
  BY <1>1, ShowsTheSame
<1>3. running' = running /\ scopeEpoch' = scopeEpoch
  BY DEF ServerStep, Drain, WriteResponse, CompleteCached, StopStarting, Wake, Initialize,
         Query, Deadline, Analyze, vars, server
<1>4. due'[u] # None <=> due[u] # None
  <2>1. ASSUME NEW v \in Uris, Deadline(v) PROVE due'[u] # None <=> due[u] # None
    <3>1. due[v] = "armed" /\ due' = [due EXCEPT ![v] = "expired"] BY <2>1 DEF Deadline
    <3>. QED BY <1>1, <3>1, NullsAssumption DEF TypeOK
  <2>2. CASE ~\E v \in Uris : Deadline(v)
    BY <2>2 DEF ServerStep, Drain, WriteResponse, CompleteCached, StopStarting, Wake,
                Initialize, Query, Analyze, vars, queues
  <2>. QED BY <2>1, <2>2
<1>5. Diagnosing(u)' <=> Diagnosing(u) BY <1>3 DEF Diagnosing, Working
<1>. QED BY <1>1, <1>2, <1>3, <1>4, <1>5, CalmCover

(* Every step keeps every synchronized document covered.                   *)
LEMMA CoveredStep == IInv /\ TargetsAreInFiles /\ AllCovered /\ [Next]_vars => AllCovered'
<1>. SUFFICES ASSUME IInv, TargetsAreInFiles, AllCovered, [Next]_vars,
                     NEW u \in Uris, u \in Synchronized(documents')
              PROVE  Covered(u)'
  BY DEF AllCovered, Covered
<1>1. Covered(u) BY DEF AllCovered
<1>2. CASE \E v \in Uris : DidOpen(v) \/ DidChange(v) \/ DidChangeBadly(v) \/ DidClose(v)
  BY <1>1, <1>2, EditedCover
<1>3. CASE FilesChanged \/ \E id \in Ids : CancelRequest(id)
  BY <1>1, <1>3, FilesCover
<1>4. ~Shutdown BY DEF Shutdown, Synchronized
<1>5. CASE StartWork BY <1>1, <1>5, StartCover DEF StartWork
<1>6. ASSUME NEW w \in Workers, FinishWork(w) PROVE Covered(u)'
  BY <1>1, <1>6, FinishCover
<1>7. CASE \/ ServerStep /\ ~StartWork
           \/ Initialize \/ UNCHANGED vars
           \/ \E id \in Ids, r \in Requests : Query(id, r)
           \/ \E v \in Uris : Deadline(v)
           \/ \E w \in Workers : Analyze(w)
  BY <1>1, <1>7, QuietCover
<1>. QED BY <1>2, <1>3, <1>4, <1>5, <1>6, <1>7 DEF Next, ClientStep

(* The list shown for a synchronized document is up to date, or exactly    *)
(* one computation of it is due or running whose answer will be taken:     *)
(* refresh_link_diagnostics, arm_diagnostics and finish_work miss none.    *)
THEOREM ListsAreCovered == Spec => []DiagnosticsCovered
<1>1. Init => TargetsAreInFiles BY DEF Init, TargetsAreInFiles, FilesWithTargets
<1>2. Spec => []TargetsAreInFiles BY Invariance, <1>1, TargetsStep, PTL DEF Spec
<1>3. Init => AllCovered BY DEF Init, AllCovered, Covered, Synchronized
<1>4. Spec => []AllCovered BY Invariance, <1>2, <1>3, CoveredStep, PTL DEF Spec
<1>5. AllCovered => DiagnosticsCovered
  BY DEF AllCovered, Covered, DiagnosticsCovered, Recorded, Synchronized
<1>. QED BY <1>4, <1>5, PTL

-----------------------------------------------------------------------------
(* The atomic service.                                                     *)

(* The state of the service in that of the server (see Service).           *)
ServiceDocs    == [u \in Uris |-> IF documents[u] = None THEN None
                    ELSE [rev |-> documents[u].rev,
                          synchronized |-> documents[u].synchronized]]
ServiceAnswers == [id \in Ids |-> AnswerTo(id)]
ServiceShown   == [u \in Uris |-> Showing(u)]

(* Lists wait in "outgoing" only between a handler and the next drain.     *)
PublicationsFollowTurn ==
    pc \in {"receive", "respond", "start"} => \A u \in Uris : publications[u] = None

(* Only a synchronized document is parsed, so only one has an outline.     *)
OutlinesAreSynchronized == \A u \in Uris :
    documents[u] # None /\ documents[u].outline => documents[u].synchronized

(* What a handler publishes is drained before the next message.            *)
LEMMA PublicationsStep ==
  IInv /\ PublicationsFollowTurn /\ [Next]_vars => PublicationsFollowTurn'
<1>. SUFFICES ASSUME IInv, PublicationsFollowTurn, [Next]_vars PROVE PublicationsFollowTurn'
  OBVIOUS
<1>1. TypeOK BY DEF IInv
<1>2. CASE ClientStep
  <2>1. pc' = "drain"
    BY <1>1, <1>2, ClientCases, NotifiesAlike DEF Initialize, Shutdown, Query, Receive
  <2>. QED BY <2>1 DEF PublicationsFollowTurn
<1>3. CASE ServerStep
  <2>1. CASE Drain \/ CompleteCached
    BY <2>1 DEF Drain, CompleteCached, Deliver, PublicationsFollowTurn
  <2>2. CASE WriteResponse BY <2>2 DEF WriteResponse, PublicationsFollowTurn
  <2>3. CASE StartWork \/ StopStarting \/ Wake
    BY <2>3 DEF StartWork, StartQuery, StartDiagnostics, Start, StopStarting, Wake, output,
                PublicationsFollowTurn
  <2>. QED BY <1>3, <2>1, <2>2, <2>3 DEF ServerStep
<1>4. CASE \E w \in Workers : FinishWork(w)
  BY <1>4 DEF FinishWork, FinishQuery, FinishDiagnostics, Reschedule, FinishRetired, Finish,
              PublicationsFollowTurn
<1>5. CASE \/ UNCHANGED vars
           \/ \E u \in Uris : Deadline(u)
           \/ \E w \in Workers : Analyze(w)
  BY <1>5 DEF vars, Deadline, Analyze, output, PublicationsFollowTurn
<1>. QED BY <1>2, <1>3, <1>4, <1>5 DEF Next

(* A new revision has no outline; a task's is adopted by the synchronized. *)
LEMMA OutlinesStep ==
  IInv /\ OutlinesAreSynchronized /\ [Next]_vars => OutlinesAreSynchronized'
<1>. SUFFICES ASSUME IInv, OutlinesAreSynchronized, [Next]_vars, NEW u \in Uris,
                     documents'[u] # None, documents'[u].outline
              PROVE  documents'[u].synchronized
  BY DEF OutlinesAreSynchronized
<1>1. TypeOK BY DEF IInv
<1>2. ASSUME NEW v \in Uris, DidOpen(v) \/ DidChange(v) \/ DidChangeBadly(v) \/ DidClose(v)
      PROVE  documents'[u].synchronized
  <2>1. u # v => documents'[u] = documents[u] BY <1>1, <1>2, EditedDocuments
  <2>2. u # v
    <3>1. ASSUME NEW sync, Write(v, NewDocument(sync)), u = v PROVE FALSE
      <4>1. documents'[u] = NewDocument(sync) BY <1>1, <3>1 DEF Write, TypeOK, Documents
      <4>. QED BY <4>1 DEF NewDocument
    <3>2. DidClose(v) => documents'[v] = None BY <1>1 DEF DidClose, TypeOK, Documents
    <3>. QED BY <1>2, <3>1, <3>2 DEF DidOpen, DidChange, DidChangeBadly
  <2>. QED BY <2>1, <2>2 DEF OutlinesAreSynchronized
<1>3. ASSUME NEW w \in Workers, FinishWork(w) PROVE documents'[u].synchronized
  <2>1. documents' = Adopted(w)
    BY <1>3 DEF FinishWork, FinishQuery, FinishDiagnostics, Reschedule, FinishRetired, Finish
  <2>2. documents'[u].synchronized = documents[u].synchronized /\ documents[u] # None
    BY <1>1, <2>1, AdoptedType
  <2>3. CASE u \in Synchronized(documents) BY <2>2, <2>3 DEF Synchronized
  <2>4. CASE u \notin Synchronized(documents)
    <3>1. documents'[u] = documents[u] BY <2>1, <2>4 DEF Adopted
    <3>. QED BY <3>1 DEF OutlinesAreSynchronized
  <2>. QED BY <2>3, <2>4
<1>4. CASE \/ ServerStep \/ Initialize \/ UNCHANGED vars \/ FilesChanged
           \/ \E id \in Ids : CancelRequest(id) \/ \E r \in Requests : Query(id, r)
           \/ \E v \in Uris : Deadline(v)
           \/ \E w \in Workers : Analyze(w)
  BY <1>1, <1>4, ShowsTheSame DEF OutlinesAreSynchronized
<1>5. ~Shutdown BY DEF Shutdown
<1>. QED BY <1>2, <1>3, <1>4, <1>5 DEF Next, ClientStep

(* All that the refinement needs of a state.                               *)
RInv ==
    /\ IInv
    /\ TargetsAreInFiles
    /\ PublicationsFollowTurn
    /\ OutlinesAreSynchronized

-----------------------------------------------------------------------------
(* Answers.                                                                *)

(* What the service owes is what the server has in its queue or slots.     *)
LEMMA OutstandingIsOwed ==
  ASSUME IInv
  PROVE  Service!Outstanding = Owed
<1>1. TypeOK /\ Places /\ SlotsMatchTasks /\ Owed \subseteq Ids
  BY OwedAreIds DEF IInv
<1>2. ASSUME NEW id \in Ids
      PROVE  id \in Owed <=> asked[id] # None /\ AnswerTo(id) = None
  <2>1. InOnePlace(id) BY <1>1 DEF Places
  <2>2. id \in Owed <=> id \in pending \/ \E w \in Workers : OnWorker(id, w)
    BY <1>2 DEF Owed, Working, OnWorker
  <2>3. AnswerTo(id) = None <=>
           responses[id] = None /\ ~Replying(id) /\ answers[id] = None
    <3>1. Replying(id) => reply.answer # None
      <4>1. Replying(id) => reply \in Reply /\ reply.id = id BY <1>1 DEF TypeOK, Replying
      <4>. QED BY <4>1, NullsAssumption DEF Reply
    <3>. QED BY <2>1, <3>1 DEF AnswerTo, Replying, InOnePlace
  <2>. QED BY <2>1, <2>2, <2>3 DEF InOnePlace
<1>3. Service!Outstanding = {id \in Ids : asked[id] # None /\ ServiceAnswers[id] = None}
  BY DEF Service!Outstanding, ServiceAnswers
<1>. QED BY <1>1, <1>2, <1>3 DEF ServiceAnswers

(* Responses pushed to an empty "outgoing" are the service's answers.      *)
LEMMA Responding ==
  ASSUME IInv, pc = "receive", NEW ids \in SUBSET Ids, NEW answer, answer # None,
         responses' = Respond(ids, answer), answers' = answers,
         reply' = None \/ reply'.id = None
  PROVE  ServiceAnswers' = Service!Answered(ids, answer)
<1>1. reply = None /\ \A id \in Ids : responses[id] = None
  BY DEF IInv, OutputFollowsTurn
<1>2. ASSUME NEW id \in Ids
      PROVE  AnswerTo(id)' = IF id \in ids THEN answer ELSE AnswerTo(id)
  <2>1. responses'[id] = IF id \in ids THEN answer ELSE None BY <1>1 DEF Respond
  <2>2. ~(reply' # None /\ reply'.id = id) BY NullsAssumption
  <2>. QED BY <1>1, <2>1, <2>2 DEF AnswerTo
<1>. QED BY <1>2 DEF ServiceAnswers, Service!Answered

(* The bytes and queues of a step do not show: the same documents, answers *)
(* and lists are the same state of the service.                            *)
LEMMA Stutter ==
  ASSUME UNCHANGED <<state, nextRev, scopeEpoch, asked>>,
         \A u \in Uris : /\ documents'[u] = None <=> documents[u] = None
                         /\ documents[u] # None =>
                              /\ documents'[u].rev = documents[u].rev
                              /\ documents'[u].synchronized = documents[u].synchronized,
         \A id \in Ids : AnswerTo(id)' = AnswerTo(id),
         \A u \in Uris : Showing(u)' = Showing(u)
  PROVE  UNCHANGED Service!vars
<1>1. ServiceDocs' = ServiceDocs BY DEF ServiceDocs
<1>2. ServiceAnswers' = ServiceAnswers BY DEF ServiceAnswers
<1>3. ServiceShown' = ServiceShown BY DEF ServiceShown
<1>. QED BY <1>1, <1>2, <1>3 DEF Service!vars, ServiceDocs, ServiceAnswers, ServiceShown

(* The service has the documents that the server has.                      *)
LEMMA ServiceOpen ==
  ASSUME NEW u \in Uris
  PROVE  /\ documents \in Documents => (ServiceDocs[u] = None <=> documents[u] = None)
         /\ documents' \in Documents => (ServiceDocs'[u] = None <=> documents'[u] = None)
<1>1. ASSUME NEW d \in Document PROVE [rev |-> d.rev, synchronized |-> d.synchronized] # None
  BY <1>1, ServiceAssumption DEF Document
<1>. QED BY <1>1 DEF ServiceDocs, Documents

(* The documents of an edit, with a new revision or without the document.  *)
LEMMA EditedService ==
  ASSUME TypeOK, NEW u \in Uris, DidOpen(u) \/ DidChange(u) \/ DidChangeBadly(u) \/ DidClose(u)
  PROVE  \/ /\ nextRev' = nextRev + 1
            /\ \E sync \in BOOLEAN :
                 /\ ServiceDocs' = [ServiceDocs EXCEPT ![u] =
                                      [rev |-> nextRev, synchronized |-> sync]]
                 /\ sync <=> u \in Synchronized(documents')
         \/ /\ nextRev' = nextRev /\ u \notin Synchronized(documents')
            /\ ServiceDocs' = [ServiceDocs EXCEPT ![u] = None]
<1>1. \A v \in Uris \ {u} : documents'[v] = documents[v] BY EditedDocuments
<1>2. ASSUME NEW sync \in BOOLEAN, Write(u, NewDocument(sync))
      PROVE  /\ nextRev' = nextRev + 1
             /\ ServiceDocs' = [ServiceDocs EXCEPT ![u] =
                                   [rev |-> nextRev, synchronized |-> sync]]
             /\ sync <=> u \in Synchronized(documents')
  <2>1. documents'[u] = NewDocument(sync) BY <1>2 DEF Write, TypeOK, Documents
  <2>2. NewDocument(sync) \in Document BY <1>2 DEF Write, NewDocument, Document
  <2>3. documents'[u] # None BY <2>1, <2>2, NullsAssumption
  <2>4. /\ documents'[u].rev = nextRev /\ documents'[u].synchronized = sync
    BY <2>1 DEF NewDocument
  <2>5. ServiceDocs'[u] = [rev |-> nextRev, synchronized |-> sync]
    BY <2>3, <2>4 DEF ServiceDocs
  <2>6. \A v \in Uris \ {u} : ServiceDocs'[v] = ServiceDocs[v] BY <1>1 DEF ServiceDocs
  <2>7. ServiceDocs' = [ServiceDocs EXCEPT ![u] = [rev |-> nextRev, synchronized |-> sync]]
    BY <2>5, <2>6 DEF ServiceDocs
  <2>. QED BY <1>2, <2>3, <2>4, <2>7 DEF Write, Synchronized
<1>3. ASSUME DidClose(u)
      PROVE  /\ nextRev' = nextRev /\ u \notin Synchronized(documents')
             /\ ServiceDocs' = [ServiceDocs EXCEPT ![u] = None]
  <2>1. documents'[u] = None BY <1>3 DEF DidClose, TypeOK, Documents
  <2>2. ServiceDocs'[u] = None BY <2>1 DEF ServiceDocs
  <2>3. \A v \in Uris \ {u} : ServiceDocs'[v] = ServiceDocs[v] BY <1>1 DEF ServiceDocs
  <2>4. ServiceDocs' = [ServiceDocs EXCEPT ![u] = None] BY <2>2, <2>3 DEF ServiceDocs
  <2>. QED BY <1>3, <2>1, <2>4 DEF DidClose, Synchronized
<1>. QED BY <1>2, <1>3 DEF DidOpen, DidChange, DidChangeBadly

(* An edit rejects at once what it makes meaningless.                      *)
LEMMA EditRefines ==
  ASSUME RInv, NEW u \in Uris, DidOpen(u) \/ DidChange(u) \/ DidChangeBadly(u) \/ DidClose(u)
  PROVE  Service!Edit(u)
<1>1. TypeOK /\ IInv BY DEF RInv, IInv
<1>2. /\ pc = "receive" /\ reply' = None /\ answers' = answers /\ asked' = asked
      /\ state = "Running" /\ state' = state /\ responses' = Respond(QueriesOn(u), "changed")
  BY DEF DidOpen, DidChange, DidChangeBadly, DidClose, Notification, Receive, Invalidate
<1>3. QueriesOn(u) = Service!Concerned(u)
  BY <1>1, OutstandingIsOwed
     DEF QueriesOn, Concerns, UsesWorkspace, Service!Concerned, Service!UsesWorkspace
<1>4. ServiceAnswers' = Service!Answered(Service!Concerned(u), "changed")
  <2>1. QueriesOn(u) \in SUBSET Ids BY <1>1, OwedAreIds
  <2>2. "changed" # None BY NullsAssumption DEF Answers
  <2>. QED BY <1>1, <1>2, <1>3, <2>1, <2>2, Responding
<1>5. /\ \A v \in Uris \ {u} : ServiceShown'[v] = ServiceShown[v]
      /\ u \notin Synchronized(documents') => ServiceShown'[u] = Empty
      /\ u \in Synchronized(documents') => ServiceShown'[u] = ServiceShown[u]
  <2>1. ASSUME u \in Synchronized(documents') PROVE Showing(u)' = Showing(u)
    <3>1. ~DidClose(u) BY <1>1, <2>1 DEF DidClose, Synchronized, TypeOK, Documents
    <3>2. ~DidChangeBadly(u)
      BY <1>1, <2>1 DEF DidChangeBadly, Write, NewDocument, Synchronized, TypeOK, Documents
    <3>. QED BY <3>1, <3>2 DEF DidOpen, DidChange, Notification, Receive, Showing
  <2>. QED BY <1>1, <2>1, EditShows DEF ServiceShown
<1>6. /\ u \in Synchronized(documents') => ServiceShown' = ServiceShown
      /\ u \notin Synchronized(documents') =>
            ServiceShown' = [ServiceShown EXCEPT ![u] = Empty]
  BY <1>5 DEF ServiceShown
<1>7. /\ (ServiceDocs[u] = None) # (ServiceDocs'[u] = None) => scopeEpoch' = scopeEpoch + 1
      /\ scopeEpoch' \in {scopeEpoch, scopeEpoch + 1}
  <2>1. CASE DidOpen(u) \/ DidClose(u) BY <2>1 DEF DidOpen, DidClose, AdvanceEpoch
  <2>2. CASE DidChange(u) \/ DidChangeBadly(u)
    <3>1. scopeEpoch' = scopeEpoch /\ documents[u] # None
      BY <2>2 DEF DidChange, DidChangeBadly
    <3>2. documents'[u] # None BY <1>1, <2>2, EditedDocuments
    <3>3. ServiceDocs[u] # None /\ ServiceDocs'[u] # None
      <4>1. documents \in Documents /\ documents' \in Documents
        BY <1>1, ClientType DEF TypeOK, ClientStep
      <4>. QED BY <3>1, <3>2, <4>1, ServiceOpen
    <3>. QED BY <3>1, <3>3
  <2>. QED BY <2>1, <2>2
<1>8. CASE nextRev' = nextRev + 1
  <2>1. PICK sync \in BOOLEAN :
          /\ ServiceDocs' = [ServiceDocs EXCEPT ![u] =
                               [rev |-> nextRev, synchronized |-> sync]]
          /\ sync <=> u \in Synchronized(documents')
    BY <1>1, <1>8, EditedService DEF TypeOK
  <2>. QED BY <1>2, <1>4, <1>6, <1>7, <1>8, <2>1
           DEF Service!Edit, ServiceDocs, ServiceAnswers, ServiceShown
<1>9. CASE nextRev' # nextRev + 1
  <2>1. /\ nextRev' = nextRev /\ u \notin Synchronized(documents')
        /\ ServiceDocs' = [ServiceDocs EXCEPT ![u] = None]
    BY <1>1, <1>9, EditedService
  <2>. QED BY <1>2, <1>4, <1>6, <1>7, <2>1
           DEF Service!Edit, ServiceDocs, ServiceAnswers, ServiceShown
<1>. QED BY <1>8, <1>9

(* Changed files reject the queries on the workspace, a cancellation one.  *)
LEMMA NotifyRefines ==
  ASSUME RInv, FilesChanged \/ \E id \in Ids : CancelRequest(id)
  PROVE  Service!FilesChange \/ \E id \in Ids : Service!Fail(id)
<1>1. TypeOK /\ IInv BY DEF RInv, IInv
<1>2. /\ documents' = documents /\ nextRev' = nextRev /\ asked' = asked
      /\ state = "Running" /\ state' = state /\ pc = "receive" /\ reply' = None
      /\ answers' = answers
  BY DEF FilesChanged, CancelRequest, Notification, Receive, server
<1>3. ServiceDocs' = ServiceDocs BY <1>2 DEF ServiceDocs
<1>4. ServiceShown' = ServiceShown BY <1>1, ShowsTheSame DEF ServiceShown
<1>5. "changed" # None /\ "cancelled" # None BY NullsAssumption DEF Answers
<1>6. CASE FilesChanged
  <2>1. /\ responses' = Respond(WorkspaceQueries, "changed")
        /\ scopeEpoch' = scopeEpoch + 1
    BY <1>6 DEF FilesChanged, Invalidate, AdvanceEpoch
  <2>2. WorkspaceQueries \in SUBSET Ids BY <1>1, OwedAreIds
  <2>3. WorkspaceQueries = {id \in Service!Outstanding : Service!UsesWorkspace(asked[id].kind)}
    BY <1>1, OutstandingIsOwed DEF WorkspaceQueries, UsesWorkspace, Service!UsesWorkspace
  <2>4. ServiceAnswers' = Service!Answered(WorkspaceQueries, "changed")
    BY <1>1, <1>2, <1>5, <2>1, <2>2, Responding
  <2>. QED BY <1>2, <1>3, <1>4, <2>1, <2>3, <2>4
           DEF Service!FilesChange, ServiceDocs, ServiceAnswers, ServiceShown
<1>7. ASSUME NEW id \in Ids, CancelRequest(id) PROVE Service!Fail(id)
  <2>1. /\ responses' = Respond({id}, "cancelled") /\ scopeEpoch' = scopeEpoch /\ id \in Owed
    BY <1>7 DEF CancelRequest, Invalidate, server
  <2>2. id \in Service!Outstanding BY <1>1, <2>1, OutstandingIsOwed
  <2>3. ServiceAnswers' = Service!Answered({id}, "cancelled")
    BY <1>1, <1>2, <1>5, <2>1, Responding
  <2>. QED BY <1>2, <1>3, <1>4, <2>1, <2>2, <2>3
           DEF Service!Fail, ServiceDocs, ServiceAnswers, ServiceShown
<1>. QED BY <1>6, <1>7

(* Shutdown answers all that is owed, and loses nothing that was shown.    *)
LEMMA ShutdownRefines == RInv /\ Shutdown => Service!Shutdown
<1>. SUFFICES ASSUME RInv, Shutdown PROVE Service!Shutdown
  OBVIOUS
<1>1. TypeOK /\ IInv BY DEF RInv, IInv
<1>2. /\ documents' = [u \in Uris |-> None] /\ UNCHANGED <<nextRev, scopeEpoch, asked>>
      /\ state = "Running" /\ state' = "Shutdown" /\ pc = "receive" /\ reply'.id = None
      /\ answers' = answers /\ shown' = shown
      /\ publications' = [u \in Uris |-> None]
      /\ responses' = [id \in Ids |-> IF id \in Owed THEN "cancelled" ELSE None]
  BY DEF Shutdown, Receive
<1>3. ServiceDocs' = [u \in Uris |-> None] BY <1>2 DEF ServiceDocs
<1>4. ServiceShown' = ServiceShown
  BY <1>2 DEF ServiceShown, Showing, RInv, PublicationsFollowTurn
<1>5. ServiceAnswers' = Service!Answered(Owed, "cancelled")
  <2>1. \A id \in Ids : responses[id] = None BY <1>1, <1>2 DEF IInv, OutputFollowsTurn
  <2>2. responses' = Respond(Owed, "cancelled") BY <1>2, <2>1 DEF Respond
  <2>3. Owed \in SUBSET Ids BY <1>1, OwedAreIds
  <2>4. "cancelled" # None BY NullsAssumption DEF Answers
  <2>. QED BY <1>1, <1>2, <2>2, <2>3, <2>4, Responding
<1>6. Owed = Service!Outstanding BY <1>1, OutstandingIsOwed
<1>. QED BY <1>2, <1>3, <1>4, <1>5, <1>6
         DEF Service!Shutdown, ServiceDocs, ServiceAnswers, ServiceShown

(* A query is queued while its document is open, or refused.               *)
LEMMA QueryRefines ==
  ASSUME RInv, NEW id \in Ids, NEW r \in Requests, Query(id, r)
  PROVE  r \in Service!Request /\ Service!Ask(id, r)
<1>. DEFINE accepted == /\ state = "Running"
                        /\ HasSource(r.kind) => documents[r.uri] # None
            busy     == QueueFull \/ Size[r.kind] > MaxBytes - pendingBytes
<1>1. TypeOK /\ IInv BY DEF RInv, IInv
<1>2. /\ UNCHANGED <<state, documents, nextRev, scopeEpoch, responses, publications,
                     answers, shown>>
      /\ pc = "receive" /\ asked[id] = None /\ asked' = [asked EXCEPT ![id] = r]
      /\ reply' = CASE ~accepted        -> [id |-> id, answer |-> "refused"]
                    [] accepted /\ busy -> [id |-> id, answer |-> "busy"]
                    [] OTHER            -> None
  BY DEF Query, Receive, server
<1>3. reply = None /\ \A x \in Ids : responses[x] = None
  BY <1>1, <1>2 DEF IInv, OutputFollowsTurn
<1>4. ServiceDocs' = ServiceDocs /\ ServiceShown' = ServiceShown
  BY <1>2 DEF ServiceDocs, ServiceShown, Showing
<1>5. r \in Service!Request BY DEF Requests, HasSource, Service!Request
<1>6. r.uri # None => r.uri \in Uris /\ HasSource(r.kind) BY DEF Requests
<1>7. CASE accepted /\ ~busy
  <2>1. reply' = None BY <1>2, <1>7
  <2>2. ServiceAnswers' = ServiceAnswers
    BY <1>2, <1>3, <2>1 DEF ServiceAnswers, AnswerTo
  <2>3. state # "Shutdown" /\ (r.uri # None => ServiceDocs[r.uri] # None)
    BY <1>1, <1>6, <1>7, ServiceOpen DEF TypeOK
  <2>. QED BY <1>2, <1>4, <1>5, <2>2, <2>3
           DEF Service!Ask, ServiceDocs, ServiceAnswers, ServiceShown
<1>8. CASE ~(accepted /\ ~busy)
  <2>1. PICK refusal \in {"busy", "refused"} : reply' = [id |-> id, answer |-> refusal]
    BY <1>2, <1>8
  <2>2. reply' # None
    <3>1. reply' \in Reply BY <2>1 DEF Reply, Answers
    <3>. QED BY <3>1, NullsAssumption
  <2>3. ServiceAnswers' = Service!Answered({id}, refusal)
    BY <1>2, <1>3, <2>1, <2>2 DEF ServiceAnswers, AnswerTo, Service!Answered
  <2>. QED BY <1>2, <1>4, <1>5, <2>3
           DEF Service!Ask, ServiceDocs, ServiceAnswers, ServiceShown
<1>. QED BY <1>7, <1>8

(* Draining hands over what the service has answered; cached outlines are  *)
(* answers of the moment.                                                  *)
LEMMA ServerRefines ==
  ASSUME RInv, ServerStep
  PROVE  UNCHANGED Service!vars \/ \E ids \in SUBSET Service!Outstanding : Service!Succeed(ids)
<1>1. TypeOK /\ IInv /\ OutputFollowsTurn /\ Places BY DEF RInv, IInv
<1>2. /\ UNCHANGED <<state, documents, nextRev, scopeEpoch, asked>>
      /\ \A u \in Uris : Showing(u)' = Showing(u)
  BY <1>1, ShowsTheSame
     DEF ServerStep, Drain, WriteResponse, CompleteCached, StartWork, StartQuery,
         StartDiagnostics, Start, StopStarting, Wake, Deliver, server, client
<1>3. ASSUME \A id \in Ids : AnswerTo(id)' = AnswerTo(id) PROVE UNCHANGED Service!vars
  BY <1>2, <1>3, Stutter
<1>4. ASSUME NEW id \in Ids, Drain PROVE AnswerTo(id)' = AnswerTo(id)
  <2>1. InOnePlace(id) BY <1>1 DEF Places
  <2>. QED BY <1>4, <2>1 DEF Drain, Deliver, AnswerTo, InOnePlace, Replying
<1>5. ASSUME NEW id \in Ids, WriteResponse PROVE AnswerTo(id)' = AnswerTo(id)
  <2>1. reply # None /\ responses[id] = None
    BY <1>1, <1>5 DEF OutputFollowsTurn, WriteResponse
  <2>. QED BY <1>5, <2>1 DEF WriteResponse, AnswerTo
<1>6. ASSUME NEW id \in Ids, StartWork \/ StopStarting \/ Wake PROVE AnswerTo(id)' = AnswerTo(id)
  BY <1>6 DEF StartWork, StartQuery, StartDiagnostics, Start, StopStarting, Wake, AnswerTo,
              output, client
<1>7. ASSUME CompleteCached
      PROVE  UNCHANGED Service!vars \/ \E ids \in SUBSET Service!Outstanding : Service!Succeed(ids)
  <2>1. PICK ids \in SUBSET Cached : Deliver(Respond(ids, "ok"), publications)
    BY <1>7 DEF CompleteCached
  <2>2. reply' = reply /\ reply = None BY <1>1, <1>7 DEF CompleteCached, OutputFollowsTurn
  <2>3. ids \subseteq pending /\ pending \subseteq Ids /\ pending \subseteq Owed
    BY <1>1, <2>1 DEF Cached, TypeOK, Owed
  <2>4. ASSUME NEW id \in Ids
        PROVE  AnswerTo(id)' = IF id \in ids THEN "ok" ELSE AnswerTo(id)
    <3>1. InOnePlace(id) BY <1>1 DEF Places
    <3>2. "ok" # None BY NullsAssumption DEF Answers
    <3>3. /\ responses'[id] = None
          /\ answers'[id] = IF Respond(ids, "ok")[id] # None THEN Respond(ids, "ok")[id]
                            ELSE answers[id]
          /\ Respond(ids, "ok")[id] = IF id \in ids THEN "ok" ELSE responses[id]
      BY <2>1 DEF Deliver, Respond
    <3>. QED BY <2>2, <2>3, <3>1, <3>2, <3>3 DEF AnswerTo, InOnePlace, Replying
  <2>5. CASE ids = {} BY <1>3, <2>4, <2>5
  <2>6. CASE ids # {}
    <3>1. ServiceAnswers' = Service!Answered(ids, "ok")
      BY <2>4 DEF ServiceAnswers, Service!Answered
    <3>2. ids \subseteq Service!Outstanding BY <1>1, <2>3, OutstandingIsOwed
    <3>3. ASSUME NEW id \in ids, asked[id].uri # None
          PROVE  ServiceDocs[asked[id].uri] # None /\ ServiceDocs[asked[id].uri].synchronized
      <4>1. id \in pending /\ id \in Ids BY <2>3
      <4>2. asked[id].uri \in Uris BY <1>1, <3>3, <4>1, QueuedScope DEF IInv
      <4>3. documents[asked[id].uri] # None /\ documents[asked[id].uri].outline
        BY <2>1 DEF Cached
      <4>4. documents[asked[id].uri].synchronized
        BY <4>2, <4>3 DEF RInv, OutlinesAreSynchronized
      <4>. QED BY <1>1, <4>2, <4>3, <4>4, ServiceOpen DEF ServiceDocs, TypeOK
    <3>4. ServiceDocs' = ServiceDocs /\ ServiceShown' = ServiceShown
      BY <1>2 DEF ServiceDocs, ServiceShown
    <3>5. Service!Succeed(ids)
      BY <1>2, <2>6, <3>1, <3>3, <3>4
         DEF Service!Succeed, ServiceDocs, ServiceAnswers, ServiceShown
    <3>. QED BY <3>2, <3>5
  <2>. QED BY <2>5, <2>6
<1>. QED BY <1>3, <1>4, <1>5, <1>6, <1>7 DEF ServerStep

(* A task answers, or publishes, only what is current as it is handed in.  *)
LEMMA FinishRefines ==
  ASSUME RInv, NEW w \in Workers, FinishWork(w)
  PROVE  \/ UNCHANGED Service!vars
         \/ \E ids \in SUBSET Service!Outstanding : Service!Succeed(ids)
         \/ \E id \in Ids : Service!Fail(id)
         \/ \E u \in Uris : Service!Publish(u)
<1>1. TypeOK /\ IInv /\ SlotsMatchTasks /\ QueuedIsOpen /\ FilesWithTargets(w)
  BY DEF RInv, IInv, TargetsAreInFiles
<1>2. Finish(w) BY DEF FinishWork, FinishQuery, FinishDiagnostics, Reschedule, FinishRetired
<1>3. /\ running[w] # None /\ tasks[w] # None /\ tasks[w] \in Task /\ running[w] \in RunningWork
      /\ pc = "receive" /\ tasks[w].result # "computing" /\ SlotMatches(w)
      /\ UNCHANGED <<state, nextRev, scopeEpoch, reply, asked, answers, shown>>
  BY <1>1, <1>2 DEF Finish, SlotsMatchTasks, SlotMatches, TypeOK, client
<1>4. /\ \A u \in Uris : /\ documents'[u] = None <=> documents[u] = None
                         /\ documents[u] # None =>
                              /\ documents'[u].rev = documents[u].rev
                              /\ documents'[u].synchronized = documents[u].synchronized
  BY <1>1, <1>2, AdoptedType DEF Finish
<1>5. ServiceDocs' = ServiceDocs BY <1>4 DEF ServiceDocs
<1>6. reply = None /\ \A id \in Ids : responses[id] = None
  BY <1>1, <1>3 DEF IInv, OutputFollowsTurn
<1>7. CASE Reschedule(w) \/ FinishRetired(w)
  <2>1. responses' = responses /\ publications' = publications
    BY <1>7 DEF Reschedule, FinishRetired
  <2>2. \A id \in Ids : AnswerTo(id)' = AnswerTo(id) BY <1>3, <2>1 DEF AnswerTo
  <2>3. \A u \in Uris : Showing(u)' = Showing(u) BY <1>3, <2>1 DEF Showing
  <2>. QED BY <1>3, <1>4, <2>2, <2>3, Stutter
<1>8. CASE FinishQuery(w)
  <2>. DEFINE id     == running[w].reply
              answer == IF Current(w) THEN tasks[w].result ELSE "changed"
  <2>1. /\ id \in Ids /\ responses' = Respond({id}, answer) /\ publications' = publications
    BY <1>8 DEF FinishQuery
  <2>2. answer \in {"ok", "failed", "changed", "cancelled"} BY <1>3 DEF Task
  <2>3. answer # None BY <2>2, NullsAssumption DEF Answers
  <2>4. ServiceAnswers' = Service!Answered({id}, answer)
    BY <1>1, <1>3, <1>6, <2>1, <2>3, Responding
  <2>5. id \in Service!Outstanding
    <3>1. id \in Owed BY <1>3, <2>1 DEF Owed, Working
    <3>. QED BY <1>1, <3>1, OutstandingIsOwed
  <2>6. ServiceShown' = ServiceShown BY <1>3, <2>1 DEF ServiceShown, Showing
  <2>7. CASE answer = "ok"
    <3>1. Current(w)  BY <2>7
    <3>2. asked[id].uri # None => asked[id].uri \in Synchronized(documents)
      BY <1>3, <2>1, <3>1 DEF SlotMatches, Current
    <3>3. asked[id].uri # None =>
            ServiceDocs[asked[id].uri] # None /\ ServiceDocs[asked[id].uri].synchronized
      BY <1>1, <3>2, ServiceOpen DEF Synchronized, ServiceDocs, TypeOK
    <3>4. Service!Succeed({id})
      BY <1>3, <1>5, <2>4, <2>6, <2>7, <3>3
         DEF Service!Succeed, ServiceDocs, ServiceAnswers, ServiceShown
    <3>. QED BY <2>5, <3>4
  <2>8. CASE answer \in {"failed", "changed", "cancelled"}
    <3>1. Service!Fail(id)
      BY <1>3, <1>5, <2>4, <2>5, <2>6, <2>8
         DEF Service!Fail, ServiceDocs, ServiceAnswers, ServiceShown
    <3>. QED BY <2>1, <3>1
  <2>. QED BY <2>2, <2>7, <2>8
<1>9. CASE FinishDiagnostics(w)
  <2>. DEFINE u == running[w].uri
  <2>1. /\ Current(w) /\ responses' = responses
        /\ publications' = [publications EXCEPT ![u] = BasisOf(w)]
        /\ running[w].reply = "diagnostics"
    BY <1>9 DEF FinishDiagnostics
  <2>2. u # None /\ u \in Synchronized(documents) /\ SameRevision(u, tasks[w].docs)
    BY <1>3, <2>1 DEF SlotMatches, Current
  <2>3. u \in Uris /\ documents[u] # None /\ documents[u].synchronized
    BY <2>2 DEF Synchronized
  <2>4. ServiceDocs[u] # None /\ ServiceDocs[u].synchronized /\ ServiceDocs[u].rev = documents[u].rev
    BY <1>1, <2>3, ServiceOpen DEF ServiceDocs, TypeOK
  <2>5. ASSUME NEW t \in tasks[w].targets
        PROVE  /\ t \in Uris /\ ServiceDocs[t] # None
               /\ ServiceDocs[t].rev = tasks[w].docs[t].rev
    <3>1. t \in Uris BY <1>3 DEF Task
    <3>2. SameRevision(t, tasks[w].docs) BY <2>1 DEF Current
    <3>. QED BY <1>1, <3>1, <3>2, ServiceOpen DEF SameRevision, ServiceDocs, TypeOK
  <2>6. tasks[w].files \in BOOLEAN /\ (tasks[w].targets # {} => tasks[w].files)
    BY <1>1, <1>3 DEF Task, FilesWithTargets
  <2>7. tasks[w].targets \in SUBSET {t \in Uris : ServiceDocs[t] # None} BY <2>5
  <2>8. BasisOf(w) = [rev   |-> ServiceDocs[u].rev,
                      used  |-> [t \in Uris |-> IF t \in tasks[w].targets
                                                THEN ServiceDocs[t].rev ELSE 0],
                      epoch |-> IF tasks[w].files THEN scopeEpoch ELSE 0]
    <3>1. tasks[w].docs[u].rev = ServiceDocs[u].rev BY <2>2, <2>4 DEF SameRevision
    <3>2. tasks[w].files => running[w].epoch = scopeEpoch BY <2>1 DEF Current
    <3>. QED BY <2>5, <3>1, <3>2 DEF BasisOf
  <2>9. ServiceShown' = [ServiceShown EXCEPT ![u] = BasisOf(w)]
    <3>1. BasisOf(w) # None
      <4>1. BasisOf(w) \in Basis BY <1>1, <1>3, <2>1, BasisType
      <4>. QED BY <4>1, NullsAssumption
    <3>2. publications'[u] = BasisOf(w) /\ \A t \in Uris \ {u} : publications'[t] = publications[t]
      BY <1>1, <2>1, <2>3 DEF TypeOK
    <3>3. ServiceShown'[u] = BasisOf(w) BY <2>3, <3>1, <3>2 DEF ServiceShown, Showing
    <3>4. \A t \in Uris \ {u} : ServiceShown'[t] = ServiceShown[t]
      BY <1>3, <3>2 DEF ServiceShown, Showing
    <3>. QED BY <3>3, <3>4 DEF ServiceShown
  <2>10. ServiceAnswers' = ServiceAnswers BY <1>3, <2>1 DEF ServiceAnswers, AnswerTo
  <2>11. \E targets \in SUBSET {t \in Uris : ServiceDocs[t] # None}, files \in BOOLEAN :
           /\ targets # {} => files
           /\ ServiceShown' = [ServiceShown EXCEPT ![u] =
                 [rev   |-> ServiceDocs[u].rev,
                  used  |-> [t \in Uris |-> IF t \in targets THEN ServiceDocs[t].rev ELSE 0],
                  epoch |-> IF files THEN scopeEpoch ELSE 0]]
    BY <2>6, <2>7, <2>8, <2>9
  <2>12. (state' = "Shutdown") = (state = "Shutdown") BY <1>3
  <2>13. Service!Publish(u)
    BY <1>3, <1>5, <2>4, <2>10, <2>11, <2>12
       DEF Service!Publish, ServiceDocs, ServiceAnswers, ServiceShown
  <2>. QED BY <2>3, <2>13
<1>. QED BY <1>7, <1>8, <1>9 DEF FinishWork

-----------------------------------------------------------------------------
(* Every step is a step of the service or none.                            *)
LEMMA NextRefines == RInv /\ [Next]_vars => [Service!Next]_(Service!vars)
<1>. SUFFICES ASSUME RInv, [Next]_vars PROVE Service!Next \/ UNCHANGED Service!vars
  OBVIOUS
<1>1. CASE \E u \in Uris : DidOpen(u) \/ DidChange(u) \/ DidChangeBadly(u) \/ DidClose(u)
  BY <1>1, EditRefines DEF Service!Next
<1>2. CASE FilesChanged \/ \E id \in Ids : CancelRequest(id)
  BY <1>2, NotifyRefines DEF Service!Next
<1>3. CASE Shutdown BY <1>3, ShutdownRefines DEF Service!Next
<1>4. CASE \E id \in Ids, r \in Requests : Query(id, r)
  BY <1>4, QueryRefines DEF Service!Next
<1>5. CASE ServerStep BY <1>5, ServerRefines DEF Service!Next
<1>6. CASE \E w \in Workers : FinishWork(w) BY <1>6, FinishRefines DEF Service!Next
<1>7. CASE Initialize
  <2>1. (state = "Shutdown") = (state' = "Shutdown") BY <1>7 DEF Initialize
  <2>2. UNCHANGED <<documents, nextRev, scopeEpoch, asked, responses, publications, answers,
                    shown>>
    BY <1>7 DEF Initialize, Receive, server
  <2>3. reply = None /\ reply' = None
    BY <1>7 DEF Initialize, Receive, RInv, IInv, OutputFollowsTurn
  <2>4. ServiceDocs' = ServiceDocs /\ ServiceShown' = ServiceShown
        /\ ServiceAnswers' = ServiceAnswers
    BY <2>2, <2>3 DEF ServiceDocs, ServiceShown, ServiceAnswers, Showing, AnswerTo
  <2>. QED BY <2>1, <2>2, <2>4 DEF Service!vars, ServiceDocs, ServiceShown, ServiceAnswers
<1>8. CASE \/ UNCHANGED vars
           \/ \E u \in Uris : Deadline(u)
           \/ \E w \in Workers : Analyze(w)
  <2>1. UNCHANGED <<state, documents, nextRev, scopeEpoch, asked, responses, reply, answers,
                    publications, shown>>
    BY <1>8 DEF vars, Deadline, Analyze, server, output, client
  <2>. QED BY <2>1, Stutter DEF AnswerTo, Showing
<1>. QED BY <1>1, <1>2, <1>3, <1>4, <1>5, <1>6, <1>7, <1>8 DEF Next, ClientStep

(* The server is a service that answers and publishes in one instant, from *)
(* the documents and files of that instant (run_with_workers, finish_work, *)
(* invalidate_queries): nothing a client sees tells it that work is queued *)
(* and runs on snapshots.                                                   *)
THEOREM Implementation == Spec => ImplementsAtomicService
<1>1. Init => Service!Init
  <2>. SUFFICES ASSUME Init PROVE Service!Init
    OBVIOUS
  <2>1. ServiceDocs = [u \in Uris |-> None] BY DEF Init, ServiceDocs
  <2>2. ServiceAnswers = [id \in Ids |-> None] BY DEF Init, ServiceAnswers, AnswerTo
  <2>3. ServiceShown = [u \in Uris |-> Empty] BY DEF Init, ServiceShown, Showing
  <2>. QED BY <2>1, <2>2, <2>3
           DEF Init, Service!Init, ServiceDocs, ServiceAnswers, ServiceShown
<1>2. Init => /\ TargetsAreInFiles /\ PublicationsFollowTurn /\ OutlinesAreSynchronized
  BY DEF Init, TargetsAreInFiles, FilesWithTargets, PublicationsFollowTurn,
         OutlinesAreSynchronized
<1>3. Spec => []TargetsAreInFiles BY Invariance, <1>2, TargetsStep, PTL DEF Spec
<1>4. Spec => []PublicationsFollowTurn BY Invariance, <1>2, PublicationsStep, PTL DEF Spec
<1>5. Spec => []OutlinesAreSynchronized BY Invariance, <1>2, OutlinesStep, PTL DEF Spec
<1>6. IInv /\ TargetsAreInFiles /\ PublicationsFollowTurn /\ OutlinesAreSynchronized => RInv
  BY DEF RInv
<1>7. Spec => []RInv BY Invariance, <1>3, <1>4, <1>5, <1>6, PTL
<1>. QED BY <1>1, <1>7, NextRefines, PTL DEF Spec, ImplementsAtomicService, Service!Spec
=============================================================================
