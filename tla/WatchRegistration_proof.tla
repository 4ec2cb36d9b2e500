----------------------- MODULE WatchRegistration_proof -----------------------
(***************************************************************************)
(* Proofs about WatchRegistration, for any folders and any number of       *)
(* changes: trust in file events needs a watch of the present folders, no  *)
(* registration is forgotten in the client, and server and client together *)
(* keep the promise of FileWatch.                                          *)
(***************************************************************************)
EXTENDS WatchRegistration, TLAPS

(* The request the server waits for is either under way, and then nothing  *)
(* bears its number yet, or answered, and then the client watches exactly  *)
(* if it accepted.                                                         *)
Waits(waiting, current, present) ==
    /\ \A q \in requests : q.type = "register" =>
          /\ q.id = waiting.id
          /\ \A r \in responses : r.id # waiting.id
          /\ \A w \in watches : w.id # waiting.id
          /\ waiting.generation = current => q.roots = WatchRoots(present)
    /\ \/ \E q \in requests : q.type = "register"
       \/ \E r \in responses : r.id = waiting.id
    /\ \A r \in responses : r.id = waiting.id =>
          (r.accepted <=> \E w \in watches : w.id = waiting.id)
    /\ waiting.generation = current =>
          \A w \in watches : w.id = waiting.id => w.roots = WatchRoots(present)

(* Numbers mean one thing: there is at most one registration to ask for,   *)
(* and what is withdrawn is neither awaited nor in use.                    *)
Numbered(waiting, held) ==
    /\ \A q \in requests : q.type = "register" => waiting # None /\ q.id = waiting.id
    /\ \A q, r \in requests : q.type = "register" /\ r.type = "register" => q = r
    /\ \A q \in requests : q.type = "unregister" =>
          /\ q.watch # held
          /\ waiting # None => q.id # waiting.id /\ q.watch # waiting.id

(* What the server holds is in force, and what it trusts is what it needs. *)
Holds(waiting, held, trust, present) ==
    /\ held # None => waiting = None /\ \E w \in watches : w.id = held
    /\ trust => held # None /\ \E w \in watches : w.id = held /\ w.roots = WatchRoots(present)

Kept(waiting, held) ==
    \A w \in watches : \/ w.id = held
                       \/ waiting # None /\ waiting.id = w.id
                       \/ \E q \in requests : q.type = "unregister" /\ q.watch = w.id

Sound(waiting, held, trust, current, present) ==
    /\ running /\ waiting # None => Waits(waiting, current, present)
    /\ Numbered(waiting, held)
    /\ Holds(waiting, held, trust, present)
    /\ running => Kept(waiting, held)

IInv == TypeOK /\ Sound(pending, active, trusted, generation, folders)

-----------------------------------------------------------------------------
(* The constants, as the steps below use them.                             *)
LEMMA Constants ==
    /\ \A n \in Nat : n # None
    /\ \A p \in [id : Nat, generation : Nat] : p # None
    /\ \A f \in SUBSET Folders : WatchRoots(f) \in SUBSET Local
  BY NoneAssumption, FoldersAssumption DEF WatchRoots

(* More numbers in use leave everything that has one well formed.          *)
LEMMA Monotone ==
    ASSUME NEW n \in Nat, NEW m \in Nat, n <= m
    PROVE  /\ Requests(n) \subseteq Requests(m)
           /\ 1..n \subseteq 1..m
           /\ \A g, h \in Nat : g <= h => [id : 1..n, generation : 0..g] \subseteq
                                         [id : 1..m, generation : 0..h]
           /\ [id : 1..n, accepted : BOOLEAN] \subseteq [id : 1..m, accepted : BOOLEAN]
           /\ [id : 1..n, roots : SUBSET Local] \subseteq [id : 1..m, roots : SUBSET Local]
<1>1. 1..n \subseteq 1..m
  OBVIOUS
<1>2. \A g, h \in Nat : g <= h => 0..g \subseteq 0..h
  OBVIOUS
<1>3. QED
  BY <1>1, <1>2 DEF Requests

(* A request keeps the types, whoever makes it.                            *)
LEMMA RequestTypes ==
    ASSUME TypeOK,
           NEW ready, NEW waiting \in [id : 1..serial, generation : 0..generation] \cup {None},
           NEW held \in 1..serial \cup {None}, NEW trust \in BOOLEAN,
           NEW current \in Nat, NEW present \in SUBSET Folders, generation <= current,
           RequestFileWatches(ready, waiting, held, trust, current, present)
    PROVE  /\ serial' \in Nat /\ serial <= serial'
           /\ pending' \in [id : 1..serial', generation : 0..current] \cup {None}
           /\ active' \in 1..serial' \cup {None}
           /\ trusted' \in BOOLEAN
           /\ requests' \subseteq Requests(serial')
<1> DEFINE first == IF held = None THEN serial ELSE serial + 1
           withdrawn == IF held = None THEN {} ELSE {Unregister(first, held)}
<1>1. /\ serial \in Nat /\ generation \in Nat /\ requests \subseteq Requests(serial)
  BY DEF TypeOK
<1>2. CASE Unrequested(waiting, held, trust)
  <2>1. waiting \in [id : 1..serial, generation : 0..current] \cup {None}
    BY <1>1, Monotone
  <2>2. QED
    BY <1>1, <1>2, <2>1 DEF Unrequested
<1>3. /\ first \in Nat /\ serial <= first /\ first <= serial + 1
      /\ withdrawn \subseteq Requests(first)
  BY <1>1 DEF Unregister, Requests
<1>4. CASE /\ trusted' = FALSE /\ active' = None
           /\ serial' = first /\ pending' = None /\ requests' = requests \cup withdrawn
  <2>1. Requests(serial) \subseteq Requests(first)
    BY <1>1, <1>3, Monotone
  <2>2. QED
    BY <1>1, <1>3, <1>4, <2>1
<1>5. CASE /\ trusted' = FALSE /\ active' = None
           /\ serial' = first + 1
           /\ pending' = [id |-> first + 1, generation |-> current]
           /\ requests' = requests \cup withdrawn
                                   \cup {Register(first + 1, WatchRoots(present))}
  <2>1. /\ serial' \in Nat /\ serial <= serial' /\ first <= serial' /\ serial' \in 1..serial'
    BY <1>1, <1>3, <1>5
  <2>2. Requests(serial) \subseteq Requests(serial') /\ Requests(first) \subseteq Requests(serial')
    BY <1>1, <1>3, <2>1, Monotone
  <2>3. Register(first + 1, WatchRoots(present)) \in Requests(serial')
    BY <1>5, <2>1, Constants DEF Register, Requests
  <2>4. requests' \subseteq Requests(serial')
    BY <1>1, <1>3, <1>5, <2>2, <2>3
  <2>5. pending' \in [id : 1..serial', generation : 0..current]
    BY <1>5, <2>1
  <2>6. QED
    BY <1>5, <2>1, <2>4, <2>5
<1>6. QED
  BY <1>2, <1>4, <1>5 DEF RequestFileWatches

(* What is not the server's to change stays well formed.                   *)
LEMMA OthersTypes ==
    ASSUME TypeOK, serial' \in Nat, serial <= serial'
    PROVE  /\ responses \subseteq [id : 1..serial', accepted : BOOLEAN]
           /\ watches \subseteq [id : 1..serial', roots : SUBSET Local]
  BY Monotone DEF TypeOK

LEMMA TypeInvariance == TypeOK /\ [Next]_vars => TypeOK'
<1> SUFFICES ASSUME TypeOK, [Next]_vars PROVE TypeOK'
  OBVIOUS
<1>1. CASE Initialized
  <2>1. RequestFileWatches(TRUE, pending, active, trusted, generation, folders)
    BY <1>1 DEF Initialized
  <2>2. /\ generation \in Nat /\ generation <= generation
        /\ folders \in SUBSET Folders /\ trusted \in BOOLEAN
        /\ pending \in [id : 1..serial, generation : 0..generation] \cup {None}
        /\ active \in 1..serial \cup {None}
    BY DEF TypeOK
  <2>3. /\ serial' \in Nat /\ serial <= serial'
        /\ pending' \in [id : 1..serial', generation : 0..generation] \cup {None}
        /\ active' \in 1..serial' \cup {None}
        /\ trusted' \in BOOLEAN
        /\ requests' \subseteq Requests(serial')
    BY <2>1, <2>2, RequestTypes
  <2>4. QED
    BY <1>1, <2>3, OthersTypes DEF Initialized, TypeOK
<1>2. ASSUME NEW present \in SUBSET Folders, DidChangeWorkspaceFolders(present)
      PROVE  TypeOK'
  <2>1. RequestFileWatches(initialized, pending, active, FALSE, generation + 1, present)
    BY <1>2 DEF DidChangeWorkspaceFolders
  <2>2. /\ generation + 1 \in Nat /\ generation <= generation + 1
        /\ pending \in [id : 1..serial, generation : 0..generation] \cup {None}
        /\ active \in 1..serial \cup {None}
    BY DEF TypeOK
  <2>3. /\ serial' \in Nat /\ serial <= serial'
        /\ pending' \in [id : 1..serial', generation : 0..(generation + 1)] \cup {None}
        /\ active' \in 1..serial' \cup {None}
        /\ trusted' \in BOOLEAN
        /\ requests' \subseteq Requests(serial')
    BY <2>1, <2>2, RequestTypes
  <2>4. QED
    BY <1>2, <2>2, <2>3, OthersTypes DEF DidChangeWorkspaceFolders, TypeOK
<1>3. ASSUME NEW response \in responses, WatchResponse(response) PROVE TypeOK'
  <2>1. CASE UNCHANGED <<supported, serial, pending, active, trusted, requests>>
    BY <1>3, <2>1 DEF WatchResponse, TypeOK
  <2>2. CASE supported' = FALSE /\ Unrequested(None, active, FALSE)
    BY <1>3, <2>2 DEF WatchResponse, TypeOK, Unrequested
  <2>3. CASE Unrequested(None, response.id, TRUE) /\ UNCHANGED supported
    BY <1>3, <2>3 DEF WatchResponse, TypeOK, Unrequested
  <2>4. CASE /\ RequestFileWatches(initialized, None, response.id, trusted, generation, folders)
             /\ UNCHANGED supported
    <3>1. /\ response.id \in 1..serial \cup {None}
          /\ generation \in Nat /\ generation <= generation
          /\ folders \in SUBSET Folders /\ trusted \in BOOLEAN
      BY DEF TypeOK
    <3>2. /\ serial' \in Nat /\ serial <= serial'
          /\ pending' \in [id : 1..serial', generation : 0..generation] \cup {None}
          /\ active' \in 1..serial' \cup {None}
          /\ trusted' \in BOOLEAN
          /\ requests' \subseteq Requests(serial')
      BY <2>4, <3>1, RequestTypes
    <3>3. QED
      BY <1>3, <2>4, <3>2, OthersTypes DEF WatchResponse, TypeOK
  <2>5. QED
    BY <1>3, <2>1, <2>2, <2>3, <2>4 DEF WatchResponse
<1>4. ASSUME NEW request \in requests, NEW accepted \in BOOLEAN,
             ClientRegisters(request, accepted)
      PROVE  TypeOK'
  <2>1. request.id \in 1..serial /\ request.roots \in SUBSET Local
    BY <1>4 DEF ClientRegisters, TypeOK, Requests
  <2>2. QED
    BY <1>4, <2>1 DEF ClientRegisters, TypeOK, serverVars, Response
<1>5. ASSUME NEW request \in requests, ClientUnregisters(request) PROVE TypeOK'
  <2>1. request.id \in 1..serial
    BY <1>5 DEF ClientUnregisters, TypeOK, Requests
  <2>2. responses' \subseteq [id : 1..serial, accepted : BOOLEAN]
    <3>1. responses' = responses \cup {[id |-> request.id, accepted |-> TRUE]}
      BY <1>5 DEF ClientUnregisters, Response
    <3>2. responses \subseteq [id : 1..serial, accepted : BOOLEAN]
      BY DEF TypeOK
    <3>3. [id |-> request.id, accepted |-> TRUE] \in [id : 1..serial, accepted : BOOLEAN]
      BY <2>1, Zenon
    <3>4. QED
      BY <3>1, <3>2, <3>3
  <2>3. watches' \subseteq watches /\ requests' \subseteq requests /\ UNCHANGED serverVars
    BY <1>5 DEF ClientUnregisters
  <2>4. QED
    BY <2>2, <2>3 DEF TypeOK, serverVars
<1>6. CASE Shutdown \/ UNCHANGED vars
  BY <1>6 DEF Shutdown, vars, serverVars, TypeOK
<1>7. QED
  BY <1>1, <1>2, <1>3, <1>4, <1>5, <1>6 DEF Next, Receive, Answer

-----------------------------------------------------------------------------
(* A request withdraws what is held, and asks under a number nobody used.  *)
LEMMA RequestIsSound ==
    ASSUME TypeOK,
           NEW ready, NEW waiting \in [id : 1..serial, generation : Nat] \cup {None},
           NEW held \in 1..serial \cup {None}, NEW trust \in BOOLEAN,
           NEW current \in Nat, NEW present \in SUBSET Folders,
           Sound(waiting, held, trust, current, present),
           RequestFileWatches(ready, waiting, held, trust, current, present),
           UNCHANGED <<running, watches>>, responses' \subseteq responses,
           waiting # None => UNCHANGED responses,
           generation' = current, folders' = present
    PROVE  Sound(pending, active, trusted, generation, folders)'
<1> DEFINE first == IF held = None THEN serial ELSE serial + 1
           withdrawn == IF held = None THEN {} ELSE {Unregister(first, held)}
<1>1. /\ serial \in Nat /\ requests \subseteq Requests(serial)
      /\ responses \subseteq [id : 1..serial, accepted : BOOLEAN]
      /\ watches \subseteq [id : 1..serial, roots : SUBSET Local]
  BY DEF TypeOK
<1>2. CASE Unrequested(waiting, held, trust)
  BY <1>2 DEF Sound, Unrequested, Waits, Numbered, Holds, Kept
<1>3. ASSUME waiting = None
      PROVE  \A q \in requests : /\ q.type = "unregister"
                                 /\ q.id \in 1..serial /\ q.watch \in 1..serial /\ q.watch # held
  BY <1>1, <1>3 DEF Sound, Numbered, Requests
<1>4. /\ first \in Nat /\ serial <= first /\ first <= serial + 1
      /\ \A q \in withdrawn : /\ q.type = "unregister" /\ q.id = first /\ q.watch = held
                               /\ q.watch \in 1..serial
  BY <1>1 DEF Unregister
<1>5. ASSUME running, waiting = None
      PROVE  \A w \in watches : \/ \E q \in withdrawn : q.type = "unregister" /\ q.watch = w.id
                                \/ \E q \in requests : q.type = "unregister" /\ q.watch = w.id
  <2>1. \A w \in watches : w.id # None
    BY <1>1, Constants
  <2>2. held # None => Unregister(first, held) \in withdrawn
    OBVIOUS
  <2>3. QED
    BY <1>5, <2>1, <2>2 DEF Sound, Kept, Unregister
<1>6. CASE /\ waiting = None /\ trusted' = FALSE /\ active' = None
           /\ serial' = first /\ pending' = None /\ requests' = requests \cup withdrawn
  <2>1. Numbered(pending, active)'
    BY <1>3, <1>4, <1>6, Constants, <1>1 DEF Numbered
  <2>2. QED
    BY <1>5, <1>6, <2>1 DEF Sound, Holds, Kept
<1>7. CASE /\ waiting = None /\ trusted' = FALSE /\ active' = None
           /\ serial' = first + 1
           /\ pending' = [id |-> first + 1, generation |-> current]
           /\ requests' = requests \cup withdrawn
                                   \cup {Register(first + 1, WatchRoots(present))}
  <2> DEFINE new == Register(first + 1, WatchRoots(present))
  <2>1. /\ new.type = "register" /\ new.id = first + 1 /\ new.roots = WatchRoots(present)
        /\ pending'.id = first + 1 /\ pending'.generation = current
        /\ new \in requests'
    BY <1>7 DEF Register
  <2>2. \A q \in requests' : q.type = "register" => q = new
    BY <1>3, <1>4, <1>7
  <2>3. /\ \A r \in responses' : r.id # first + 1
        /\ \A w \in watches' : w.id # first + 1
    BY <1>1, <1>4
  <2>4. pending' # None
    BY <1>4, <1>7, Constants
  <2>5. Waits(pending, generation, folders)'
    BY <2>1, <2>2, <2>3 DEF Waits
  <2>6. \A q \in requests' : q.type = "unregister" =>
           q.watch \in 1..serial /\ q.id # first + 1 /\ q.watch # first + 1 /\ q.watch # None
    BY <1>1, <1>3, <1>4, <1>7, <2>1, Constants
  <2>7. Numbered(pending, active)'
    BY <1>7, <2>1, <2>2, <2>4, <2>6 DEF Numbered
  <2>8. Kept(pending, active)' \/ ~running
    BY <1>5, <1>7 DEF Kept
  <2>9. QED
    BY <1>7, <2>5, <2>7, <2>8 DEF Sound, Holds
<1>8. QED
  BY <1>2, <1>6, <1>7 DEF RequestFileWatches

-----------------------------------------------------------------------------
LEMMA SoundInvariance == IInv /\ [Next]_vars =>
                           Sound(pending, active, trusted, generation, folders)'
<1> SUFFICES ASSUME IInv, [Next]_vars
             PROVE  Sound(pending, active, trusted, generation, folders)'
  OBVIOUS
<1> USE DEF IInv
<1>0. /\ generation \in Nat /\ serial \in Nat /\ trusted \in BOOLEAN
      /\ folders \in SUBSET Folders
      /\ pending \in [id : 1..serial, generation : Nat] \cup {None}
      /\ pending # None => pending.generation \in 0..generation
      /\ active \in 1..serial \cup {None}
  BY DEF TypeOK
<1>1. CASE Initialized
  <2>1. RequestFileWatches(TRUE, pending, active, trusted, generation, folders)
    BY <1>1 DEF Initialized
  <2>2. UNCHANGED <<running, watches, responses, generation, folders>>
    BY <1>1 DEF Initialized
  <2>3. QED
    BY <1>0, <2>1, <2>2, RequestIsSound
<1>2. ASSUME NEW present \in SUBSET Folders, DidChangeWorkspaceFolders(present)
      PROVE  Sound(pending, active, trusted, generation, folders)'
  <2>1. RequestFileWatches(initialized, pending, active, FALSE, generation + 1, present)
    BY <1>2 DEF DidChangeWorkspaceFolders
  <2>2. UNCHANGED <<running, watches, responses>> /\ generation' = generation + 1 /\ folders' = present
    BY <1>2 DEF DidChangeWorkspaceFolders
  <2>3. pending # None => pending.generation # generation + 1
    BY <1>0
  <2>4. Sound(pending, active, FALSE, generation + 1, present)
    BY <2>3 DEF Sound, Waits, Holds
  <2>5. generation + 1 \in Nat
    BY <1>0
  <2>6. QED
    BY <1>0, <2>1, <2>2, <2>4, <2>5, RequestIsSound
<1>3. ASSUME NEW response \in responses, WatchResponse(response)
      PROVE  Sound(pending, active, trusted, generation, folders)'
  <2>0. /\ responses' = responses \ {response}
        /\ UNCHANGED <<running, initialized, folders, generation, watches>>
    BY <1>3 DEF WatchResponse
  <2>1. CASE /\ ~running \/ pending = None \/ pending.id # response.id
             /\ UNCHANGED <<supported, serial, pending, active, trusted, requests>>
    BY <2>0, <2>1 DEF Sound, Waits, Numbered, Holds, Kept
  <2> DEFINE awaited == running /\ pending # None /\ pending.id = response.id
  <2>2. ASSUME awaited
        PROVE  /\ active = None /\ ~trusted
               /\ \A q \in requests : q.type = "unregister"
               /\ \A q \in requests : q.watch # response.id
               /\ response.accepted <=> \E w \in watches : w.id = response.id
               /\ response.id \in 1..serial
               /\ \A w \in watches : w.id # None
    <3>1. /\ response.id \in 1..serial /\ requests \subseteq Requests(serial)
          /\ \A w \in watches : w.id # None
      BY Constants DEF TypeOK
    <3>2. Waits(pending, generation, folders) /\ Numbered(pending, active)
      BY <2>2 DEF Sound
    <3>3. \A q \in requests : q.type = "unregister"
      BY <2>2, <3>1, <3>2 DEF Waits, Requests
    <3>4. QED
      BY <2>2, <3>1, <3>2, <3>3 DEF Sound, Holds, Numbered, Waits
  <2>3. CASE awaited /\ ~response.accepted /\ Unrequested(None, active, FALSE)
    <3>1. Kept(None, None)
      BY <2>2, <2>3 DEF Sound, Kept
    <3>2. QED
      BY <2>0, <2>2, <2>3, <3>1 DEF Unrequested, Sound, Numbered, Holds, Kept
  <2>4. CASE /\ awaited /\ response.accepted /\ pending.generation = generation
             /\ Unrequested(None, response.id, TRUE)
    <3>1. response.id # None
      BY <2>2, <2>4, Constants
    <3>2. \E w \in watches : w.id = response.id /\ w.roots = WatchRoots(folders)
      BY <2>2, <2>4 DEF Sound, Waits
    <3>3. Numbered(pending, active)'
      BY <2>0, <2>2, <2>4 DEF Unrequested, Numbered
    <3>4. Kept(pending, active)'
      BY <2>0, <2>2, <2>4 DEF Unrequested, Sound, Kept
    <3>5. QED
      BY <2>0, <2>4, <3>1, <3>2, <3>3, <3>4 DEF Unrequested, Sound, Holds
  <2>5. CASE /\ awaited /\ response.accepted
             /\ RequestFileWatches(initialized, None, response.id, trusted, generation, folders)
    <3>1. Sound(None, response.id, trusted, generation, folders)
      <4>1. Numbered(None, response.id)
        BY <2>2, <2>5 DEF Numbered
      <4>2. Kept(None, response.id)
        BY <2>2, <2>5 DEF Sound, Kept
      <4>3. QED
        BY <2>2, <2>5, <4>1, <4>2 DEF Sound, Holds
    <3>2. QED
      BY <1>0, <2>0, <2>2, <2>5, <3>1, RequestIsSound
  <2>6. QED
    BY <1>3, <2>1, <2>3, <2>4, <2>5 DEF WatchResponse
<1>4. ASSUME NEW request \in requests, NEW accepted \in BOOLEAN,
             ClientRegisters(request, accepted)
      PROVE  Sound(pending, active, trusted, generation, folders)'
  <2> DEFINE watch == [id |-> request.id, roots |-> request.roots]
             answer == [id |-> request.id, accepted |-> accepted]
  <2>0. /\ request.type = "register"
        /\ requests' = requests \ {request}
        /\ watches' = IF accepted THEN watches \cup {watch} ELSE watches
        /\ responses' = responses \cup {answer}
        /\ UNCHANGED serverVars
    BY <1>4 DEF ClientRegisters, Response
  <2>1. /\ pending # None /\ request.id = pending.id
        /\ \A q \in requests' : q.type # "register"
    BY <2>0 DEF Sound, Numbered
  <2>2. Numbered(pending, active)'
    BY <2>0, <2>1 DEF Sound, Numbered, serverVars
  <2>3. Holds(pending, active, trusted, folders)'
    BY <2>0, <2>1 DEF Sound, Holds, serverVars
  <2>4. ASSUME running PROVE Waits(pending, generation, folders)' /\ Kept(pending, active)'
    <3>1. Waits(pending, generation, folders) /\ Kept(pending, active)
      BY <2>1, <2>4 DEF Sound
    <3>2. /\ \A r \in responses : r.id # pending.id
          /\ \A w \in watches : w.id # pending.id
          /\ pending.generation = generation => request.roots = WatchRoots(folders)
      BY <2>0, <3>1 DEF Waits
    <3>3. UNCHANGED <<pending, generation, folders, active>>
      BY <2>0 DEF serverVars
    <3>4. Waits(pending, generation, folders)'
      <4>1. answer \in responses' /\ answer.id = pending'.id /\ answer.accepted = accepted
        BY <2>0, <2>1, <3>3
      <4>2. \A r \in responses' : r.id = pending'.id => r = answer
        BY <2>0, <3>2, <3>3
      <4>3. accepted <=> \E w \in watches' : w.id = pending'.id
        <5>1. CASE accepted
          <6>1. watch \in watches' /\ watch.id = request.id
            BY <2>0, <5>1
          <6>2. QED
            BY <2>1, <3>3, <5>1, <6>1
        <5>2. CASE ~accepted
          BY <2>0, <3>2, <3>3, <5>2
        <5>3. QED
          BY <5>1, <5>2
      <4>4. \A w \in watches' : w.id = pending'.id => w.roots = request.roots
        BY <2>0, <3>2, <3>3
      <4>5. QED
        BY <2>1, <3>2, <3>3, <4>1, <4>2, <4>3, <4>4 DEF Waits
    <3>5. \A q \in requests : q.type = "unregister" => q \in requests'
      BY <2>0
    <3>6. Kept(pending, active)'
      BY <2>0, <2>1, <3>1, <3>3, <3>5 DEF Kept
    <3>7. QED
      BY <3>4, <3>6
  <2>5. QED
    BY <2>0, <2>2, <2>3, <2>4 DEF Sound, serverVars
<1>5. ASSUME NEW request \in requests, ClientUnregisters(request)
      PROVE  Sound(pending, active, trusted, generation, folders)'
  <2> DEFINE answer == [id |-> request.id, accepted |-> TRUE]
  <2>0. /\ request.type = "unregister"
        /\ requests' = requests \ {request}
        /\ watches' = {w \in watches : w.id # request.watch}
        /\ responses' = responses \cup {answer}
        /\ UNCHANGED serverVars
    BY <1>5 DEF ClientUnregisters, Response
  <2>1. /\ request.watch # active
        /\ pending # None => request.id # pending.id /\ request.watch # pending.id
    BY <2>0 DEF Sound, Numbered
  <2>2. Numbered(pending, active)'
    BY <2>0 DEF Sound, Numbered, serverVars
  <2>3. Holds(pending, active, trusted, folders)'
    BY <2>0, <2>1 DEF Sound, Holds, serverVars
  <2>4. running /\ pending # None => Waits(pending, generation, folders)'
    BY <2>0, <2>1 DEF Sound, Waits, serverVars
  <2>5. running => Kept(pending, active)'
    BY <2>0 DEF Sound, Kept, serverVars
  <2>6. QED
    BY <2>0, <2>2, <2>3, <2>4, <2>5 DEF Sound, serverVars
<1>6. CASE Shutdown
  BY <1>6 DEF Shutdown, Sound, Waits, Numbered, Holds, Kept
<1>7. CASE UNCHANGED vars
  BY <1>7 DEF vars, serverVars, Sound, Waits, Numbered, Holds, Kept
<1>8. QED
  BY <1>1, <1>2, <1>3, <1>4, <1>5, <1>6, <1>7 DEF Next, Receive, Answer

LEMMA Initially == Init => IInv
<1> SUFFICES ASSUME Init PROVE IInv
  OBVIOUS
<1>1. TypeOK
  BY DEF Init, TypeOK
<1>2. Sound(pending, active, trusted, generation, folders)
  BY DEF Init, Sound, Numbered, Holds, Kept
<1>3. QED
  BY <1>1, <1>2 DEF IInv

LEMMA Inductive == Spec => []IInv
<1>1. IInv /\ [Next]_vars => IInv'
  BY TypeInvariance, SoundInvariance DEF IInv
<1>2. QED
  BY Initially, <1>1, PTL DEF Spec

(* Everything the handshake keeps has the shape it should have.            *)
THEOREM TypeCorrect == Spec => []TypeOK
<1>1. IInv => TypeOK
  BY DEF IInv
<1>2. QED
  BY <1>1, Inductive, PTL

(* Events are trusted only under an acknowledged watch of the local roots  *)
(* of the workspace as it is now (watch_response).                         *)
THEOREM TrustIsEarned == Spec => []TrustNeedsWatch
<1>1. IInv => TrustNeedsWatch
  BY DEF IInv, Sound, Holds, Numbered, TrustNeedsWatch, Withdrawn
<1>2. QED
  BY <1>1, Inductive, PTL

(* The client watches nothing that the server neither uses, nor waits for, *)
(* nor has asked it to give up (active_watch, pending_watch).              *)
THEOREM NoLeak == Spec => []NoWatchIsLost
<1>1. IInv => NoWatchIsLost
  BY DEF IInv, Sound, Kept, NoWatchIsLost, Withdrawn
<1>2. QED
  BY <1>1, Inductive, PTL

-----------------------------------------------------------------------------
(* What FileCatalog is built on                                            *)

(* A request that is not out of date is about the present folders, on its  *)
(* way to the client and after it was accepted, even when the server has   *)
(* shut down and hears of it no more.                                      *)
Asked(waiting, current, present) ==
    waiting # None /\ waiting.generation = current =>
      /\ WatchRoots(present) # {}
      /\ \A q \in requests : q.type = "register" => q.roots = WatchRoots(present)
      /\ \A w \in watches : w.id = waiting.id => w.roots = WatchRoots(present)

(* Nothing is asked for before the client is ready.                        *)
Quiet == ~initialized => pending = None /\ active = None /\ ~trusted

WatchInv == IInv /\ Asked(pending, generation, folders) /\ Quiet

(* A promise is given, and the client watches what it is about.            *)
Promised(waiting, current) ==
    /\ waiting # None /\ waiting.generation = current
    /\ \E w \in watches : w.id = waiting.id

Watched == UNION {w.roots : w \in watches}

(* While nothing is awaited, no watch is being asked for.                  *)
Unasked(waiting) == waiting = None => \A q \in requests : q.type # "register"

(* What a request comes to: what was there stays, or what is asked for is  *)
(* new to the client and about the present folders.                        *)
Renewed(ready, waiting, held, trust, current, present) ==
    \/ pending' = waiting /\ active' = held /\ trusted' = trust /\ requests' = requests
    \/ ready /\ trusted' = FALSE /\ pending' = None
    \/ /\ ready /\ trusted' = FALSE
       /\ pending' # None /\ pending'.generation = current
       /\ \A w \in watches : w.id # pending'.id
       /\ WatchRoots(present) # {}
       /\ \A q \in requests' : q.type = "register" => q.roots = WatchRoots(present)

LEMMA RequestRenews ==
    ASSUME TypeOK, NEW ready, NEW waiting, NEW held \in 1..serial \cup {None}, NEW trust,
           NEW current \in Nat, NEW present, Unasked(waiting),
           RequestFileWatches(ready, waiting, held, trust, current, present)
    PROVE  Renewed(ready, waiting, held, trust, current, present)
<1> DEFINE first == IF held = None THEN serial ELSE serial + 1
           withdrawn == IF held = None THEN {} ELSE {Unregister(first, held)}
<1>1. /\ serial \in Nat /\ watches \subseteq [id : 1..serial, roots : SUBSET Local]
      /\ first \in Nat /\ serial <= first
  BY DEF TypeOK
<1>2. \A q \in withdrawn : q.type = "unregister"
  BY DEF Unregister
<1>3. CASE Unrequested(waiting, held, trust)
  BY <1>3 DEF Unrequested, Renewed
<1>4. CASE ready /\ trusted' = FALSE /\ pending' = None
  BY <1>4 DEF Renewed
<1>5. CASE /\ ready /\ waiting = None /\ trusted' = FALSE
           /\ pending' = [id |-> first + 1, generation |-> current]
           /\ requests' = requests \cup withdrawn
                                   \cup {Register(first + 1, WatchRoots(present))}
           /\ WatchRoots(present) # {}
  <2>1. first + 1 \in Nat /\ \A w \in watches : w.id # first + 1
    BY <1>1
  <2>2. pending' # None /\ pending'.id = first + 1 /\ pending'.generation = current
    BY <1>5, <2>1, Constants
  <2>3. \A q \in requests' : q.type = "register" => q.roots = WatchRoots(present)
    BY <1>2, <1>5 DEF Register, Unasked
  <2> QED  BY <1>5, <2>1, <2>2, <2>3 DEF Renewed
<1> QED  BY <1>3, <1>4, <1>5 DEF RequestFileWatches

(* The next state, as far as the promise goes, for each action.            *)
LEMMA PromiseKept ==
    ASSUME WatchInv, [Next]_vars
    PROVE  /\ Asked(pending, generation, folders)' /\ Quiet'
           /\ [Watches!Next]_Watches!vars
<1> DEFINE before == Promised(pending, generation)
           after == Promised(pending, generation)'
<1>a. /\ TypeOK /\ Sound(pending, active, trusted, generation, folders)
      /\ Asked(pending, generation, folders) /\ Quiet
  BY DEF WatchInv, IInv
<1>b. /\ trusted \in BOOLEAN /\ generation \in Nat
      /\ active \in 1..serial \cup {None}
      /\ pending # None => pending.generation \in 0..generation
      /\ \A q \in requests : q.type = "register" => pending # None /\ q.id = pending.id
      /\ pending # None => active = None
      /\ active = None => ~trusted
      /\ Unasked(pending)
  BY <1>a DEF TypeOK, Sound, Numbered, Holds, Unasked
<1>c. ASSUME UNCHANGED <<folders, watches, trusted>>, after <=> before
      PROVE  [Watches!Next]_Watches!vars
  BY <1>c DEF Watches!vars, Promised, WatchRoots
<1>1. CASE Initialized
  <2>1. /\ RequestFileWatches(TRUE, pending, active, trusted, generation, folders)
        /\ ~initialized /\ UNCHANGED <<folders, watches, generation>>
        /\ initialized'
    BY <1>1 DEF Initialized
  <2>2. pending = None /\ active = None /\ ~trusted
    BY <1>a, <2>1 DEF Quiet
  <2>3. Renewed(TRUE, pending, active, trusted, generation, folders)
    BY <1>a, <1>b, <2>1, RequestRenews
  <2>4. Asked(pending, generation, folders)' /\ trusted' = FALSE /\ ~after
    BY <1>b, <2>1, <2>2, <2>3 DEF Renewed, Asked, Promised
  <2>5. ~before
    BY <2>2 DEF Promised
  <2>6. [Watches!Next]_Watches!vars
    BY <1>b, <1>c, <2>1, <2>2, <2>4, <2>5
  <2>7. Quiet'
    BY <2>1 DEF Quiet
  <2> QED  BY <2>4, <2>6, <2>7
<1>2. ASSUME NEW present \in SUBSET Folders, DidChangeWorkspaceFolders(present)
      PROVE  /\ Asked(pending, generation, folders)' /\ Quiet'
             /\ [Watches!Next]_Watches!vars
  <2>1. /\ RequestFileWatches(initialized, pending, active, FALSE, generation + 1, present)
        /\ folders' = present /\ generation' = generation + 1
        /\ UNCHANGED <<watches, initialized>>
    BY <1>2 DEF DidChangeWorkspaceFolders
  <2>2. generation + 1 \in Nat /\ (pending # None => pending.generation # generation + 1)
    BY <1>b
  <2>a. Renewed(initialized, pending, active, FALSE, generation + 1, present)
    BY <1>a, <1>b, <2>1, <2>2, RequestRenews
  <2>3. /\ Asked(pending, generation, folders)' /\ trusted' = FALSE /\ ~after
        /\ ~initialized => UNCHANGED <<pending, active>>
    BY <2>1, <2>2, <2>a DEF Renewed, Asked, Promised
  <2>4. Quiet'
    BY <1>a, <2>1, <2>3 DEF Quiet
  <2>5. WatchRoots(present) \in SUBSET Local
    BY Constants
  <2>6. Watches!ChangeFolders(WatchRoots(present))
    BY <2>1, <2>3 DEF Watches!ChangeFolders, Promised
  <2> QED  BY <2>3, <2>4, <2>5, <2>6 DEF Watches!Next
<1>3. ASSUME NEW response \in responses, WatchResponse(response)
      PROVE  /\ Asked(pending, generation, folders)' /\ Quiet'
             /\ [Watches!Next]_Watches!vars
  <2>0. UNCHANGED <<running, initialized, folders, generation, watches>>
    BY <1>3 DEF WatchResponse
  <2>1. CASE UNCHANGED <<supported, serial, pending, active, trusted, requests>>
    <3>1. Asked(pending, generation, folders)' /\ Quiet' /\ (after <=> before)
      BY <1>a, <2>0, <2>1 DEF Asked, Quiet, Promised
    <3> QED  BY <1>c, <2>0, <2>1, <3>1
  <2> DEFINE awaited == running /\ pending # None /\ pending.id = response.id
  <2>2. ASSUME awaited
        PROVE  /\ ~trusted /\ initialized
               /\ \A q \in requests : q.type # "register"
               /\ response.accepted <=> \E w \in watches : w.id = pending.id
    <3>1. Waits(pending, generation, folders)
      BY <1>a, <2>2 DEF Sound
    <3> QED  BY <1>a, <1>b, <2>2, <3>1 DEF Waits, Quiet
  <2>3. CASE awaited /\ ~response.accepted /\ Unrequested(None, active, FALSE)
    <3>1. ~before /\ ~after /\ trusted' = trusted /\ pending' = None
      BY <1>b, <2>2, <2>3 DEF Promised, Unrequested
    <3>2. Asked(pending, generation, folders)' /\ Quiet'
      BY <2>0, <2>2, <2>3, <3>1 DEF Asked, Quiet
    <3>3. [Watches!Next]_Watches!vars
      BY <1>c, <2>0, <3>1
    <3> QED  BY <3>2, <3>3
  <2>4. CASE /\ awaited /\ response.accepted /\ pending.generation = generation
             /\ Unrequested(None, response.id, TRUE)
    <3>1. before /\ ~after /\ trusted' = TRUE /\ pending' = None
      BY <2>2, <2>4 DEF Promised, Unrequested
    <3>2. Asked(pending, generation, folders)' /\ Quiet'
      BY <2>0, <2>2, <2>4, <3>1 DEF Asked, Quiet
    <3>3. Watches!Trust
      BY <2>0, <3>1 DEF Watches!Trust, Promised
    <3> QED  BY <3>2, <3>3 DEF Watches!Next
  <2>5. CASE /\ awaited /\ response.accepted /\ pending.generation # generation
             /\ RequestFileWatches(initialized, None, response.id, trusted, generation, folders)
    <3>1. response.id \in 1..serial
      BY <1>a DEF TypeOK
    <3>a. Unasked(None)
      BY <2>2, <2>5 DEF Unasked
    <3>b. Renewed(initialized, None, response.id, trusted, generation, folders)
      BY <1>a, <1>b, <2>5, <3>1, <3>a, RequestRenews
    <3>2. Asked(pending, generation, folders)' /\ trusted' = trusted /\ ~after
      BY <1>b, <2>0, <2>2, <2>5, <3>b DEF Renewed, Asked, Promised
    <3>3. ~before
      BY <2>5 DEF Promised
    <3>4. Quiet'
      BY <2>0, <2>2, <2>5 DEF Quiet
    <3>5. [Watches!Next]_Watches!vars
      BY <1>c, <2>0, <3>2, <3>3
    <3> QED  BY <3>2, <3>4, <3>5
  <2> QED  BY <1>3, <2>1, <2>3, <2>4, <2>5 DEF WatchResponse
<1>4. ASSUME NEW request \in requests, NEW accepted \in BOOLEAN,
             ClientRegisters(request, accepted)
      PROVE  /\ Asked(pending, generation, folders)' /\ Quiet'
             /\ [Watches!Next]_Watches!vars
  <2> DEFINE watch == [id |-> request.id, roots |-> request.roots]
  <2>0. /\ request.type = "register"
        /\ requests' = requests \ {request}
        /\ watches' = IF accepted THEN watches \cup {watch} ELSE watches
        /\ UNCHANGED <<initialized, folders, generation, pending, active, trusted>>
    BY <1>4 DEF ClientRegisters, serverVars
  <2>1. /\ pending # None /\ request.id = pending.id /\ ~trusted
        /\ watch.id = request.id /\ watch.roots = request.roots
    BY <1>b, <2>0
  <2>2. Asked(pending, generation, folders)' /\ Quiet'
    BY <1>a, <2>0, <2>1 DEF Asked, Quiet
  <2>3. CASE ~accepted
    BY <1>c, <2>0, <2>2, <2>3 DEF Promised
  <2>4. CASE accepted
    <3>1. watch \in watches' /\ watches \subseteq watches'
      BY <2>0, <2>4
    <3>2. Watched' \in SUBSET Local
      <4>1. TypeOK'
        BY <1>a, TypeInvariance
      <4> QED  BY <4>1 DEF TypeOK, Watched
    <3>3. before => after
      BY <2>0, <3>1 DEF Promised
    <3>4. after => /\ WatchRoots(folders) # {}
                   /\ WatchRoots(folders) \subseteq Watched'
      <4>1. ASSUME after PROVE pending.generation = generation
        BY <2>0, <4>1 DEF Promised
      <4> QED  BY <1>a, <2>0, <2>1, <3>1, <4>1 DEF Asked, Watched
    <3>5. UNCHANGED <<WatchRoots(folders), trusted>>
      BY <2>0 DEF WatchRoots
    <3>6. ASSUME NEW roots \in SUBSET Local, roots = Watched'  PROVE Watches!Watch(roots)
      BY <2>1, <3>3, <3>4, <3>5, <3>6 DEF Watches!Watch, Promised, Watched
    <3>7. Watches!Next
      BY <3>2, <3>6 DEF Watches!Next
    <3> QED  BY <2>2, <3>7
  <2> QED  BY <2>3, <2>4
<1>5. ASSUME NEW request \in requests, ClientUnregisters(request)
      PROVE  /\ Asked(pending, generation, folders)' /\ Quiet'
             /\ [Watches!Next]_Watches!vars
  <2>0. /\ request.type = "unregister"
        /\ requests' = requests \ {request}
        /\ watches' = {w \in watches : w.id # request.watch}
        /\ UNCHANGED <<initialized, folders, generation, pending, active, trusted>>
    BY <1>5 DEF ClientUnregisters, serverVars
  <2>1. /\ request.watch # active
        /\ pending # None => request.watch # pending.id
    BY <1>a, <2>0 DEF Sound, Numbered
  <2>2. Asked(pending, generation, folders)' /\ Quiet'
    BY <1>a, <2>0 DEF Asked, Quiet
  <2>3. after <=> before
    BY <2>0, <2>1 DEF Promised
  <2>4. trusted => WatchRoots(folders) \subseteq Watched'
    <3>1. trusted => \E w \in watches : w.id = active /\ w.roots = WatchRoots(folders)
      BY <1>a DEF Sound, Holds
    <3> QED  BY <2>0, <2>1, <3>1 DEF Watched
  <2>5. after => WatchRoots(folders) \subseteq Watched'
    BY <1>a, <2>0, <2>1 DEF Promised, Asked, Watched
  <2>6. Watched' \in SUBSET Local
    <3>1. TypeOK'
      BY <1>a, TypeInvariance
    <3> QED  BY <3>1 DEF TypeOK, Watched
  <2>7. UNCHANGED <<WatchRoots(folders), trusted>>
    BY <2>0 DEF WatchRoots
  <2>8. ASSUME NEW roots \in SUBSET Local, roots = Watched'  PROVE Watches!Watch(roots)
    BY <2>3, <2>4, <2>5, <2>7, <2>8 DEF Watches!Watch, Promised, Watched
  <2>9. Watches!Next
    BY <2>6, <2>8 DEF Watches!Next
  <2> QED  BY <2>2, <2>9
<1>6. CASE Shutdown \/ UNCHANGED vars
  <2>1. UNCHANGED <<initialized, folders, generation, pending, active, trusted,
                    requests, watches>>
    BY <1>6 DEF Shutdown, vars, serverVars
  <2>2. Asked(pending, generation, folders)' /\ Quiet' /\ (after <=> before)
    BY <1>a, <2>1 DEF Asked, Quiet, Promised
  <2> QED  BY <1>c, <2>1, <2>2
<1> QED  BY <1>1, <1>2, <1>3, <1>4, <1>5, <1>6 DEF Next, Receive, Answer

LEMMA WatchInductive == Spec => []WatchInv
<1>1. Init => WatchInv
  BY Initially DEF Init, WatchInv, Asked, Quiet
<1>2. WatchInv /\ [Next]_vars => WatchInv'
  BY TypeInvariance, SoundInvariance, PromiseKept DEF WatchInv, IInv
<1> QED  BY <1>1, <1>2, PTL DEF Spec

(* However late requests are answered, and whatever else is withdrawn or   *)
(* refused, server and client keep the promise of FileWatch, on which the  *)
(* reuse of files is built (request_file_watches, watch_response).         *)
THEOREM Implementation == Spec => ImplementsFileWatch
<1>1. Init => Watches!Init
  BY Constants DEF Init, Watches!Init
<1>2. WatchInv /\ [Next]_vars => [Watches!Next]_Watches!vars
  BY PromiseKept
<1> QED  BY <1>1, <1>2, WatchInductive, PTL DEF Spec, Watches!Spec, ImplementsFileWatch

=============================================================================
