--------------------------- MODULE MessageLoop_proof ---------------------------
(***************************************************************************)
(* Proofs about MessageLoop, for any number of workers: the task of a slot *)
(* is in one place, so the server never waits for a worker; a worker ends  *)
(* after the server and never analyzes with what a panic left behind; and  *)
(* the end of the server reaches every task through its flag.              *)
(***************************************************************************)
EXTENDS MessageLoop, TLAPS

-----------------------------------------------------------------------------
(* The inductive invariant, worker by worker.                              *)

Busy(w) == worker[w] \notin {"waiting", "stopped"}

(* OneTaskPerSlot without sets: a slot is taken exactly while its task is  *)
(* somewhere, and the task is never in two places.                         *)
SlotHoldsTask(w) ==
    /\ w \in running <=> server = w \/ w \in inbox \/ Busy(w) \/ events = w
    /\ server = w  => w \notin inbox /\ ~Busy(w) /\ events # w
    /\ w \in inbox => ~Busy(w) /\ events # w
    /\ Busy(w)     => events # w

(* Damage lasts from a panic to the replacement of parser and index.       *)
WorkerIsSound(w) ==
    /\ worker[w] = "stopped" => ~Serving
    /\ worker[w] # "panicked" => w \notin damaged

TaskIsCancelled(w) == w \in inbox \/ worker[w] = "analyzing" => w \in flags

IInv ==
    /\ TypeOK
    /\ Serving => \A w \in Workers : SlotHoldsTask(w)
    /\ \A w \in Workers : WorkerIsSound(w)
    /\ ~Serving => \A w \in Workers : TaskIsCancelled(w)

-----------------------------------------------------------------------------
(* The state keeps its shape: no transition leaves the loop's stages, and  *)
(* only running work is overtaken by a change.                             *)
LEMMA TypeInvariance == TypeOK /\ [Next]_vars => TypeOK'
<1> SUFFICES ASSUME TypeOK, [Next]_vars PROVE TypeOK'
  OBVIOUS
<1> USE WorkersAssumption DEF TypeOK, Messages, Frames, Serving, loop, threads
<1>1. ASSUME NEW m \in Messages, Read(m) PROVE TypeOK'
  BY <1>1 DEF Read
<1>2. CASE ReaderSends
  BY <1>2 DEF ReaderSends, PublishInput, InputRefused
<1>3. CASE TakeLast
  BY <1>3 DEF TakeLast, Take, Stop
<1>4. CASE TakeQuery
  BY <1>4 DEF TakeQuery, Take, More
<1>5. CASE TakeCancel
  <2>1. flags' \subseteq Workers /\ queued' \in 0..MaxQueued
    BY <1>5 DEF TakeCancel
  <2>2. QED
    BY <1>5, <2>1 DEF TakeCancel, Take
<1>6. CASE TakeShutdown
  BY <1>6 DEF TakeShutdown, Take
<1>7. CASE TakeOther \/ Wake \/ EndTurn
  BY <1>7 DEF TakeOther, Take, Wake, EndTurn
<1>8. CASE WriteFails
  BY <1>8 DEF WriteFails, Stop
<1>9. ASSUME NEW w \in Workers, TakeResult(w) \/ StartWork(w) \/ Submit(w)
      PROVE  TypeOK'
  BY <1>9 DEF TakeResult, StartWork, Submit, Take, More
<1>10. ASSUME NEW w \in Workers, WorkerStep(w) PROVE TypeOK'
  BY <1>10 DEF WorkerStep, ReceiveTask, Execute, Panic, Replace, PublishResult, Leave, Move
<1>11. CASE Ended \/ UNCHANGED vars
  BY <1>11 DEF Ended, vars
<1>12. QED
  BY <1>1, <1>2, <1>3, <1>4, <1>5, <1>6, <1>7, <1>8, <1>9, <1>10, <1>11
  DEF Next, ServerStep

(* A slot is given up only by the result of its task, so cancelling,       *)
(* shutting down and panicking leave it taken.                             *)
LEMMA SlotInvariance ==
    ASSUME IInv, [Next]_vars, Serving', NEW x \in Workers
    PROVE  SlotHoldsTask(x)'
<1> USE WorkersAssumption DEF IInv, TypeOK, SlotHoldsTask, Busy, Messages, Frames,
                              Serving, loop, threads
<1>1. ASSUME NEW m \in Messages, Read(m) PROVE SlotHoldsTask(x)'
  BY <1>1 DEF Read
<1>2. CASE ReaderSends
  BY <1>2 DEF ReaderSends, PublishInput, InputRefused
<1>3. CASE TakeLast \/ WriteFails
  BY <1>3 DEF TakeLast, WriteFails, Stop
<1>4. CASE TakeQuery
  BY <1>4 DEF TakeQuery, Take
<1>5. CASE TakeCancel
  BY <1>5 DEF TakeCancel, Take
<1>6. CASE TakeShutdown
  BY <1>6 DEF TakeShutdown, Take
<1>7. CASE TakeOther \/ Wake \/ EndTurn
  BY <1>7 DEF TakeOther, Take, Wake, EndTurn
<1>8. ASSUME NEW w \in Workers, TakeResult(w) PROVE SlotHoldsTask(x)'
  BY <1>8 DEF TakeResult, Take
<1>9. ASSUME NEW w \in Workers, StartWork(w) PROVE SlotHoldsTask(x)'
  BY <1>9 DEF StartWork
<1>10. ASSUME NEW w \in Workers, Submit(w) PROVE SlotHoldsTask(x)'
  BY <1>10 DEF Submit
<1>11. ASSUME NEW w \in Workers, WorkerStep(w) PROVE SlotHoldsTask(x)'
  BY <1>11 DEF WorkerStep, ReceiveTask, Execute, Panic, Replace, PublishResult, Leave, Move
<1>12. CASE Ended \/ UNCHANGED vars
  BY <1>12 DEF Ended, vars
<1>13. QED
  BY <1>1, <1>2, <1>3, <1>4, <1>5, <1>6, <1>7, <1>8, <1>9, <1>10, <1>11, <1>12
  DEF Next, ServerStep

(* What is left when the server is gone was running when it went, and its  *)
(* flag is not taken back.                                                 *)
LEMMA FlagInvariance ==
    ASSUME IInv, [Next]_vars, ~Serving', NEW x \in Workers
    PROVE  TaskIsCancelled(x)'
<1> USE WorkersAssumption DEF IInv, TypeOK, TaskIsCancelled, SlotHoldsTask, Busy,
                              Messages, Frames, Serving, loop, threads
<1>1. ASSUME NEW m \in Messages, Read(m) PROVE TaskIsCancelled(x)'
  BY <1>1 DEF Read
<1>2. CASE ReaderSends
  BY <1>2 DEF ReaderSends, PublishInput, InputRefused
<1>3. CASE TakeLast \/ WriteFails
  BY <1>3 DEF TakeLast, WriteFails, Take, Stop
<1>4. CASE TakeQuery \/ TakeCancel \/ TakeShutdown \/ TakeOther \/ Wake \/ EndTurn
  BY <1>4 DEF TakeQuery, TakeCancel, TakeShutdown, TakeOther, Take, Wake, EndTurn
<1>5. ASSUME NEW w \in Workers, TakeResult(w) \/ StartWork(w) \/ Submit(w)
      PROVE  TaskIsCancelled(x)'
  BY <1>5 DEF TakeResult, Take, StartWork, Submit
<1>6. ASSUME NEW w \in Workers, WorkerStep(w) PROVE TaskIsCancelled(x)'
  BY <1>6 DEF WorkerStep, ReceiveTask, Execute, Panic, Replace, PublishResult, Leave, Move
<1>7. CASE Ended \/ UNCHANGED vars
  BY <1>7 DEF Ended, vars
<1>8. QED
  BY <1>1, <1>2, <1>3, <1>4, <1>5, <1>6, <1>7 DEF Next, ServerStep

(* Workers leave only when the server has, and a panicked worker takes no  *)
(* task before its parser and index are replaced.                          *)
LEMMA WorkerInvariance ==
    ASSUME IInv, [Next]_vars, NEW x \in Workers
    PROVE  WorkerIsSound(x)'
<1> USE WorkersAssumption DEF IInv, TypeOK, WorkerIsSound, Messages, Frames, Serving, loop, threads
<1>1. ASSUME NEW m \in Messages, Read(m) PROVE WorkerIsSound(x)'
  BY <1>1 DEF Read
<1>2. CASE ReaderSends
  BY <1>2 DEF ReaderSends, PublishInput, InputRefused
<1>3. CASE TakeLast \/ WriteFails
  BY <1>3 DEF TakeLast, WriteFails, Take, Stop
<1>4. CASE TakeQuery \/ TakeCancel \/ TakeShutdown \/ TakeOther \/ Wake \/ EndTurn
  BY <1>4 DEF TakeQuery, TakeCancel, TakeShutdown, TakeOther, Take, Wake, EndTurn
<1>5. ASSUME NEW w \in Workers, TakeResult(w) \/ StartWork(w) \/ Submit(w)
      PROVE  WorkerIsSound(x)'
  BY <1>5 DEF TakeResult, Take, StartWork, Submit
<1>6. ASSUME NEW w \in Workers, WorkerStep(w) PROVE WorkerIsSound(x)'
  BY <1>6 DEF WorkerStep, ReceiveTask, Execute, Panic, Replace, PublishResult, Leave, Move
<1>7. CASE Ended \/ UNCHANGED vars
  BY <1>7 DEF Ended, vars
<1>8. QED
  BY <1>1, <1>2, <1>3, <1>4, <1>5, <1>6, <1>7 DEF Next, ServerStep

(* The inductive invariant holds in every reachable state.                 *)
THEOREM Invariance == Spec => []IInv
<1>1. Init => IInv
  BY WorkersAssumption
  DEF Init, IInv, TypeOK, SlotHoldsTask, WorkerIsSound, TaskIsCancelled, Busy, Serving, Messages
<1>2. IInv /\ [Next]_vars => IInv'
  <2> SUFFICES ASSUME IInv, [Next]_vars PROVE IInv'
    OBVIOUS
  <2>1. TypeOK'
    BY TypeInvariance DEF IInv
  <2>2. Serving' => \A w \in Workers : SlotHoldsTask(w)'
    BY SlotInvariance
  <2>3. \A w \in Workers : WorkerIsSound(w)'
    BY WorkerInvariance
  <2>4. ~Serving' => \A w \in Workers : TaskIsCancelled(w)'
    BY FlagInvariance
  <2>5. QED
    BY <2>1, <2>2, <2>3, <2>4 DEF IInv
<1>3. QED
  BY <1>1, <1>2, PTL DEF Spec

-----------------------------------------------------------------------------
(* What follows from it.                                                   *)

(* The loop keeps its shape, however many workers there are.               *)
THEOREM Typing == Spec => []TypeOK
<1>1. IInv => TypeOK
  BY DEF IInv
<1>2. QED
  BY <1>1, Invariance, PTL

(* The task of a taken slot is in exactly one place, nothing of a free     *)
(* slot anywhere, however many workers there are.                          *)
THEOREM SlotsAreTasks == Spec => []OneTaskPerSlot
<1>1. IInv => OneTaskPerSlot
  <2> SUFFICES ASSUME IInv, Serving, NEW w \in Workers
               PROVE  IF w \in running
                      THEN \E p \in {"server", "inbox", "worker", "events"} : Places(w) = {p}
                      ELSE Places(w) = {}
    BY DEF OneTaskPerSlot
  <2>1. SlotHoldsTask(w)
    BY DEF IInv
  <2>2. CASE w \notin running
    BY <2>1, <2>2 DEF SlotHoldsTask, Busy, Places
  <2>3. CASE server = w
    <3>1. Places(w) = {"server"}
      BY <2>1, <2>3 DEF SlotHoldsTask, Busy, Places
    <3>2. QED
      BY <2>1, <2>3, <3>1 DEF SlotHoldsTask
  <2>4. CASE w \in inbox
    <3>1. Places(w) = {"inbox"}
      BY <2>1, <2>4 DEF SlotHoldsTask, Busy, Places
    <3>2. QED
      BY <2>1, <2>4, <3>1 DEF SlotHoldsTask
  <2>5. CASE Busy(w)
    <3>1. Places(w) = {"worker"}
      BY <2>1, <2>5 DEF SlotHoldsTask, Busy, Places
    <3>2. QED
      BY <2>1, <2>5, <3>1 DEF SlotHoldsTask
  <2>6. CASE events = w
    <3>1. Places(w) = {"events"}
      BY <2>1, <2>6 DEF SlotHoldsTask, Busy, Places
    <3>2. QED
      BY <2>1, <2>6, <3>1 DEF SlotHoldsTask
  <2>7. QED
    BY <2>1, <2>2, <2>3, <2>4, <2>5, <2>6 DEF SlotHoldsTask
<1>2. QED
  BY Invariance, <1>1, PTL

(* The server never blocks on the channel of a worker.                     *)
THEOREM ServerNeverWaits == Spec => []SubmitNeverWaits
<1>1. IInv => SubmitNeverWaits
  BY WorkersAssumption
  DEF IInv, TypeOK, SubmitNeverWaits, SlotHoldsTask, WorkerIsSound, Busy, Serving
<1>2. QED
  BY Invariance, <1>1, PTL

(* Workers end after the server and analyze with an intact parser.         *)
THEOREM WorkersLast == Spec => []WorkersOutliveServer
<1>1. IInv => WorkersOutliveServer
  BY DEF IInv, WorkersOutliveServer, WorkerIsSound
<1>2. QED
  BY Invariance, <1>1, PTL

(* The end of the server tells every unfinished task to stop.              *)
THEOREM AbandonedWorkStops == Spec => []AbandonedWorkIsCancelled
<1>1. IInv => AbandonedWorkIsCancelled
  BY DEF IInv, AbandonedWorkIsCancelled, TaskIsCancelled
<1>2. QED
  BY Invariance, <1>1, PTL
=============================================================================
