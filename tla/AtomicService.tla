---------------------------- MODULE AtomicService ----------------------------
(***************************************************************************)
(* What the language server promises its client, with no queue, worker,    *)
(* deadline or epoch check in sight: an edit answers at once every query   *)
(* it makes meaningless, a query that succeeds is answered from the source *)
(* document as it stands, and a diagnostic list is published from the      *)
(* documents and files as they stand.  LspServer implements it.            *)
(***************************************************************************)
EXTENDS Naturals

CONSTANTS Uris, Ids, Kinds, MaxRev, MaxEpoch, None, Empty

VARIABLES
    docs,       \* the client's documents: revision and synchronization
    nextRev,    \* the next revision
    epoch,      \* how often files or the set of open documents changed
    asked,      \* the query each id was used for
    answers,    \* the answer to each query
    shown,      \* the diagnostics shown for each document
    shutdown    \* whether the client shut the server down

vars == <<docs, nextRev, epoch, asked, answers, shown, shutdown>>

UsesWorkspace(k) == k \in {"references", "workspace"}

Request == {r \in [kind : Kinds, uri : Uris \cup {None}] :
                r.kind = "workspace" <=> r.uri = None}

Outstanding == {id \in Ids : asked[id] # None /\ answers[id] = None}

Answered(ids, answer) ==
    [id \in Ids |-> IF id \in ids THEN answer ELSE answers[id]]

Ask(id, r) ==
    /\ asked[id] = None
    /\ asked' = [asked EXCEPT ![id] = r]
    /\ \/ ~shutdown /\ (r.uri # None => docs[r.uri] # None) /\ answers' = answers
       \/ \E refusal \in {"busy", "refused"} : answers' = Answered({id}, refusal)
    /\ UNCHANGED <<docs, nextRev, epoch, shown, shutdown>>

(* Queries succeed, several outlines of one document perhaps at once.      *)
Succeed(ids) ==
    /\ ids # {}
    /\ \A id \in ids : asked[id].uri # None =>
            docs[asked[id].uri] # None /\ docs[asked[id].uri].synchronized
    /\ answers' = Answered(ids, "ok")
    /\ UNCHANGED <<docs, nextRev, epoch, asked, shown, shutdown>>

(* A query fails, is cancelled, or met a change of something it used.      *)
Fail(id) ==
    /\ id \in Outstanding
    /\ \E failure \in {"failed", "changed", "cancelled"} :
            answers' = Answered({id}, failure)
    /\ UNCHANGED <<docs, nextRev, epoch, asked, shown, shutdown>>

(* A list computed from the present state of everything it depends on.     *)
Publish(u) ==
    /\ docs[u] # None
    /\ docs[u].synchronized
    /\ \E targets \in SUBSET {t \in Uris : docs[t] # None}, files \in BOOLEAN :
         /\ targets # {} => files
         /\ shown' = [shown EXCEPT ![u] =
                [rev   |-> docs[u].rev,
                 used  |-> [t \in Uris |-> IF t \in targets THEN docs[t].rev ELSE 0],
                 epoch |-> IF files THEN epoch ELSE 0]]
    /\ UNCHANGED <<docs, nextRev, epoch, asked, answers, shutdown>>

Concerned(u) ==
    {id \in Outstanding : UsesWorkspace(asked[id].kind) \/ asked[id].uri = u}

(* The client opens, changes or closes u.                                  *)
Edit(u) ==
    /\ ~shutdown
    /\ \/ \E synchronized \in BOOLEAN :
            /\ docs' = [docs EXCEPT ![u] = [rev |-> nextRev, synchronized |-> synchronized]]
            /\ nextRev' = nextRev + 1
            /\ shown' = IF synchronized THEN shown ELSE [shown EXCEPT ![u] = Empty]
       \/ /\ docs' = [docs EXCEPT ![u] = None]
          /\ shown' = [shown EXCEPT ![u] = Empty]
          /\ nextRev' = nextRev
    /\ answers' = Answered(Concerned(u), "changed")
    /\ (docs[u] = None) # (docs'[u] = None) => epoch' = epoch + 1
    /\ epoch' \in {epoch, epoch + 1}
    /\ UNCHANGED <<asked, shutdown>>

FilesChange ==
    /\ ~shutdown
    /\ epoch' = epoch + 1
    /\ answers' = Answered({id \in Outstanding : UsesWorkspace(asked[id].kind)}, "changed")
    /\ UNCHANGED <<docs, nextRev, asked, shown, shutdown>>

Shutdown ==
    /\ ~shutdown
    /\ shutdown' = TRUE
    /\ docs' = [u \in Uris |-> None]
    /\ answers' = Answered(Outstanding, "cancelled")
    /\ UNCHANGED <<nextRev, epoch, asked, shown>>

Init ==
    /\ docs = [u \in Uris |-> None]
    /\ nextRev = 1
    /\ epoch = 1
    /\ asked = [id \in Ids |-> None]
    /\ answers = [id \in Ids |-> None]
    /\ shown = [u \in Uris |-> Empty]
    /\ shutdown = FALSE

Next ==
    \/ \E id \in Ids : Fail(id) \/ \E r \in Request : Ask(id, r)
    \/ \E ids \in SUBSET Outstanding : Succeed(ids)
    \/ \E u \in Uris : Edit(u) \/ Publish(u)
    \/ FilesChange \/ Shutdown

Spec == Init /\ [][Next]_vars
=============================================================================
