------------------------------ MODULE MessageLoop ------------------------------
(***************************************************************************)
(* The threads of the language server and the channels between them:       *)
(* transport.rs (read_messages), worker.rs (Workers) and run_with_workers  *)
(* in server.rs.  The reader and the workers share one channel to the      *)
(* server thread, every worker has one from it, and each of them holds one *)
(* value, so all of these threads can wait for one another.                *)
(*                                                                         *)
(* What a message or a task is about is left to LspServer; here it only    *)
(* matters whether it queues work, cancels work or ends the server.        *)
(***************************************************************************)
EXTENDS Naturals, FiniteSets

CONSTANTS
    Workers,    \* the worker threads, and the slots of Server::running
    MaxQueued,  \* bound: queries and diagnostics waiting to start
    None        \* an empty channel

Frames   == {"query", "cancel", "shutdown", "exit", "other"}
Messages == Frames \cup {"end"}     \* "end": end of input, or a read error

ASSUME WorkersAssumption ==
    /\ MaxQueued \in Nat
    /\ None \notin Workers \cup Messages
    /\ Workers \cap (Messages \cup {"receive", "turn", "stopped"}) = {}

VARIABLES
    reader,   \* the input thread: "reading", "stopped" or what it is sending
    events,   \* the channel to the server: a message, or whose task finished
    server,   \* "receive", "turn", "stopped", or the worker it submits to
    state,    \* Server::state, once initialized
    queued,   \* pending queries and diagnostics
    running,  \* Server::running: the workers whose slot is taken
    flags,    \* the workers whose latest task was told to stop
    overtaken,\* the running workers whose snapshot a later change made old
    inbox,    \* the workers whose task channel holds a task
    worker,   \* what each worker thread does
    damaged   \* the workers whose parser and index a panic left half changed

loop    == <<server, state, queued, running, flags, overtaken>>
threads == <<inbox, worker, damaged>>
vars    == <<reader, events, loop, threads>>

Serving == server # "stopped"

-----------------------------------------------------------------------------
(* The reader.                                                             *)

Read(m) ==
    /\ reader = "reading"
    /\ reader' = m
    /\ UNCHANGED <<events, loop, threads>>

(* A bug: the end of the input is not passed on.                           *)
PublishFramesOnly ==
    /\ reader \in Messages
    /\ Serving /\ events = None
    /\ events' = IF reader = "end" THEN None ELSE reader
    /\ reader' = IF reader = "end" THEN "stopped" ELSE "reading"
    /\ UNCHANGED <<loop, threads>>

(* The channel blocks its sender while it is full.                         *)
PublishInput ==
    /\ reader \in Messages
    /\ Serving /\ events = None
    /\ events' = reader
    /\ reader' = IF reader = "end" THEN "stopped" ELSE "reading"
    /\ UNCHANGED <<loop, threads>>

InputRefused ==
    /\ reader \in Messages
    /\ ~Serving
    /\ reader' = "stopped"
    /\ UNCHANGED <<events, loop, threads>>

-----------------------------------------------------------------------------
(* The server thread.                                                      *)

Take(event) ==
    /\ server = "receive"
    /\ events = event
    /\ events' = None
    /\ UNCHANGED <<reader, threads>>

(* A bug: the flags of running work are not set when the server is dropped.*)
StopQuietly ==
    /\ server' = "stopped"
    /\ running' = {}
    /\ overtaken' = {}
    /\ UNCHANGED <<state, queued, flags>>

(* run_with_workers returns: the server goes first, and RunningWork::drop  *)
(* sets every flag; then both ends of the channels.                        *)
Stop ==
    /\ server' = "stopped"
    /\ running' = {}
    /\ overtaken' = {}
    /\ flags' = flags \cup running
    /\ UNCHANGED <<state, queued>>

More == IF state = "Running" /\ queued < MaxQueued THEN queued + 1 ELSE queued

TakeLast ==
    /\ Take("exit") \/ Take("end")
    /\ Stop

(* A query, or a change that makes diagnostics due.                        *)
TakeQuery ==
    /\ Take("query")
    /\ server' = "turn"
    /\ queued' \in {queued, More}
    /\ overtaken' \in {overtaken, running}
    /\ UNCHANGED <<state, running, flags>>

(* A bug: cancelled work gives up its slot before it has ended.            *)
CancelAndFree ==
    /\ Take("cancel")
    /\ server' = "turn"
    /\ \/ \E w \in running : running' = running \ {w} /\ flags' = flags \cup {w} /\ queued' = queued
       \/ queued > 0 /\ queued' = queued - 1 /\ UNCHANGED <<running, flags>>
       \/ UNCHANGED <<queued, running, flags>>
    /\ UNCHANGED <<state, overtaken>>

(* A cancellation or an edit drops work that waits, or sets the flag of    *)
(* work that runs: its slot stays taken until its result arrives.          *)
TakeCancel ==
    /\ Take("cancel")
    /\ server' = "turn"
    /\ \/ \E w \in running : flags' = flags \cup {w} /\ queued' = queued
       \/ queued > 0 /\ queued' = queued - 1 /\ flags' = flags
       \/ UNCHANGED <<queued, flags>>
    /\ UNCHANGED <<state, running, overtaken>>

TakeShutdown ==
    /\ Take("shutdown")
    /\ server' = "turn"
    /\ state' = "Shutdown"
    /\ queued' = 0
    /\ flags' = flags \cup running
    /\ UNCHANGED <<running, overtaken>>

TakeOther ==
    /\ Take("other")
    /\ server' = "turn"
    /\ UNCHANGED <<state, queued, running, flags, overtaken>>

(* finish_work; diagnostics that a change overtook are queued again.       *)
TakeResult(w) ==
    /\ Take(w)
    /\ server' = "turn"
    /\ running' = running \ {w}
    /\ overtaken' = overtaken \ {w}
    /\ queued' \in {queued, IF w \in overtaken \ flags THEN More ELSE queued}
    /\ UNCHANGED <<state, flags>>

(* recv_timeout with nothing to receive.                                   *)
Wake ==
    /\ server = "receive"
    /\ events = None
    /\ queued > 0 /\ running # Workers
    /\ server' = "turn"
    /\ UNCHANGED <<reader, events, state, queued, running, flags, overtaken,
                   threads>>

(* A write to the client fails.                                            *)
WriteFails ==
    /\ server = "turn"
    /\ Stop
    /\ events' = None
    /\ UNCHANGED <<reader, threads>>

(* start_work: the slot is taken and the task gets a flag of its own.      *)
StartWork(w) ==
    /\ server = "turn"
    /\ state = "Running"
    /\ queued > 0
    /\ w \in Workers \ running
    /\ server' = w
    /\ queued' = queued - 1
    /\ running' = running \cup {w}
    /\ flags' = flags \ {w}
    /\ UNCHANGED <<reader, events, state, overtaken, threads>>

(* Workers::submit blocks while the worker's channel is full.              *)
Submit(w) ==
    /\ server = w
    /\ w \notin inbox
    /\ server' = "turn"
    /\ inbox' = inbox \cup {w}
    /\ UNCHANGED <<reader, events, state, queued, running, flags, overtaken,
                   worker, damaged>>

EndTurn ==
    /\ server = "turn"
    /\ server' = "receive"
    /\ UNCHANGED <<reader, events, state, queued, running, flags, overtaken,
                   threads>>

-----------------------------------------------------------------------------
(* The workers.                                                            *)

Move(w, from, to) ==
    /\ worker[w] = from
    /\ worker' = [worker EXCEPT ![w] = to]
    /\ UNCHANGED <<reader, loop>>

ReceiveTask(w) ==
    /\ Move(w, "waiting", "analyzing")
    /\ w \in inbox
    /\ inbox' = inbox \ {w}
    /\ UNCHANGED <<events, damaged>>

Execute(w) ==
    /\ Move(w, "analyzing", "publishing")
    /\ UNCHANGED <<events, inbox, damaged>>

(* catch_unwind: the task ends, parser and index are in an unknown state.  *)
Panic(w) ==
    /\ Move(w, "analyzing", "panicked")
    /\ damaged' = damaged \cup {w}
    /\ UNCHANGED <<events, inbox>>

Replace(w) ==
    /\ Move(w, "panicked", "publishing")
    /\ damaged' = damaged \ {w}
    /\ UNCHANGED <<events, inbox>>

(* A bug: nobody waits for a cancelled task, so it does not report.        *)
PublishLive(w) ==
    /\ w \notin flags
    /\ Move(w, "publishing", "waiting")
    /\ Serving /\ events = None
    /\ events' = w
    /\ UNCHANGED <<inbox, damaged>>

PublishResult(w) ==
    /\ Move(w, "publishing", "waiting")
    /\ Serving /\ events = None
    /\ events' = w
    /\ UNCHANGED <<inbox, damaged>>

(* A bug: only a refused result ends a worker, not a closed channel.       *)
LeaveRefused(w) ==
    /\ ~Serving
    /\ Move(w, "publishing", "stopped")
    /\ UNCHANGED <<events, inbox, damaged>>

(* The server is gone: its channel is closed, or the result is refused.  A *)
(* task that is still in the channel is received first.                    *)
Leave(w) ==
    /\ ~Serving
    /\ Move(w, "publishing", "stopped") \/ (w \notin inbox /\ Move(w, "waiting", "stopped"))
    /\ UNCHANGED <<events, inbox, damaged>>

-----------------------------------------------------------------------------
Init ==
    /\ reader = "reading"
    /\ events = None
    /\ server = "receive"
    /\ state = "Running"
    /\ queued = 0
    /\ running = {}
    /\ flags = {}
    /\ overtaken = {}
    /\ inbox = {}
    /\ worker = [w \in Workers |-> "waiting"]
    /\ damaged = {}

ReaderSends == PublishInput \/ InputRefused

ServerStep ==
    \/ TakeLast \/ TakeQuery \/ TakeCancel \/ TakeShutdown \/ TakeOther
    \/ Wake \/ WriteFails \/ EndTurn
    \/ \E w \in Workers : TakeResult(w) \/ StartWork(w) \/ Submit(w)

WorkerStep(w) ==
    \/ ReceiveTask(w) \/ Execute(w) \/ Panic(w) \/ Replace(w)
    \/ PublishResult(w) \/ Leave(w)

(* Every thread has ended.                                                 *)
Ended ==
    /\ reader = "stopped" /\ ~Serving /\ \A w \in Workers : worker[w] = "stopped"
    /\ UNCHANGED vars

Next ==
    \/ \E m \in Messages : Read(m)
    \/ ReaderSends
    \/ ServerStep
    \/ \E w \in Workers : WorkerStep(w)
    \/ Ended

Spec == Init /\ [][Next]_vars

(* A blocked sender is woken when the channel has room, but nothing says   *)
(* which of several is; an analysis ends; the client owes nothing.         *)
Fairness ==
    /\ WF_vars(ReaderSends)
    /\ WF_vars(ServerStep)
    /\ \A w \in Workers : WF_vars(WorkerStep(w))

FairSpec == Spec /\ Fairness

-----------------------------------------------------------------------------
(* Properties.                                                             *)

(* TypeOK: the shape of the state.                                         *)
TypeOK ==
    /\ reader \in Messages \cup {"reading", "stopped"}
    /\ events \in Messages \cup Workers \cup {None}
    /\ server \in Workers \cup {"receive", "turn", "stopped"}
    /\ state \in {"Running", "Shutdown"}
    /\ queued \in 0..MaxQueued
    /\ running \subseteq Workers
    /\ flags \subseteq Workers
    /\ overtaken \subseteq running
    /\ inbox \subseteq Workers
    /\ worker \in [Workers ->
           {"waiting", "analyzing", "panicked", "publishing", "stopped"}]
    /\ damaged \subseteq Workers

(* OneTaskPerSlot: while the server runs, the task of a taken slot is in   *)
(* exactly one place, the server's hands, the worker's channel, the worker *)
(* or the server's channel, and nothing of a free slot is in any of them,  *)
(* whatever was cancelled or panicked.                                     *)
Places(w) ==
    {p \in {"server"} : server = w}
    \cup {p \in {"inbox"}  : w \in inbox}
    \cup {p \in {"worker"} : worker[w] \notin {"waiting", "stopped"}}
    \cup {p \in {"events"} : events = w}

OneTaskPerSlot == Serving => \A w \in Workers :
    IF w \in running
    THEN \E p \in {"server", "inbox", "worker", "events"} : Places(w) = {p}
    ELSE Places(w) = {}

(* SubmitNeverWaits: when the server hands over a task the worker's channel*)
(* is empty and the worker is there to receive it, so the server never     *)
(* blocks on a worker that may be blocked on the server, and "analysis     *)
(* worker stopped" (worker.rs:118) is never reported.                      *)
SubmitNeverWaits == \A w \in Workers :
    server = w => w \notin inbox /\ worker[w] = "waiting"

(* WorkersOutliveServer: a worker thread ends only after the server has,   *)
(* and no task is ever analyzed by a parser that a panic left behind.      *)
WorkersOutliveServer == \A w \in Workers :
    /\ worker[w] = "stopped" => ~Serving
    /\ worker[w] = "analyzing" => w \notin damaged

(* AbandonedWorkIsCancelled: "EOF, exit and I/O errors also stop the       *)
(* remaining stages of live work" (server.rs:86): when the server is gone  *)
(* every task that waits or is being analyzed has been told to stop.       *)
AbandonedWorkIsCancelled == ~Serving => \A w \in Workers :
    w \in inbox \/ worker[w] = "analyzing" => w \in flags

(* InputEndsWorkers: exit, end of input and read errors end the server,    *)
(* whatever its workers are doing, and after the server every worker.      *)
InputEndsWorkers ==
    reader \in {"exit", "end"} ~> \A w \in Workers : worker[w] = "stopped"

(* SlotsComeBack: when the client pauses, every slot that is taken becomes *)
(* free again.  A client that never pauses can keep the channel occupied:  *)
(* nothing orders the senders that wait for it.                            *)
ClientPauses == <>[](reader \in {"reading", "stopped"})

SlotsComeBack == ClientPauses => \A w \in Workers : w \in running ~> w \notin running
=============================================================================
