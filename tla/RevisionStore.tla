---------------------------- MODULE RevisionStore ----------------------------
(***************************************************************************)
(* What crates/lsp/src/document.rs promises to the rest of the server:     *)
(* every write makes a new revision, a task's snapshot is a VALUE that no  *)
(* later write can reach, and a task's parse comes back to the document    *)
(* only if the document is still at the very revision the task copied.     *)
(* There are no addresses, no versions and no sharing here; DocumentStore  *)
(* implements this specification with them.                                *)
(***************************************************************************)
EXTENDS Naturals

CONSTANTS Uris, Texts, Workers, NoDoc, NoTask, None

VARIABLES docs, snapshots, nextRev

vars == <<docs, snapshots, nextRev>>

Revision(text, sync) ==
    [rev |-> nextRev, text |-> text, synchronized |-> sync,
     ast |-> None, symbols |-> None]

(* A document is opened or changed; a change that fails keeps the text.    *)
Write(u) ==
    /\ \/ \E t \in Texts : docs' = [docs EXCEPT ![u] = Revision(t, TRUE)]
       \/ /\ docs[u] # NoDoc
          /\ docs' = [docs EXCEPT ![u] = Revision(docs[u].text, FALSE)]
    /\ nextRev' = nextRev + 1
    /\ UNCHANGED snapshots

Close(u) ==
    /\ docs' = [docs EXCEPT ![u] = NoDoc]
    /\ UNCHANGED <<snapshots, nextRev>>

Take(w) ==
    /\ snapshots[w] = NoTask
    /\ snapshots' = [snapshots EXCEPT ![w] = docs]
    /\ UNCHANGED <<docs, nextRev>>

Derived(s, withSymbols) ==
    [rev |-> s.rev, text |-> s.text, synchronized |-> s.synchronized,
     ast |-> s.text, symbols |-> IF withSymbols THEN s.text ELSE s.symbols]

(* A task derives data from the text its snapshot has, and from no other.  *)
Derive(w) ==
    /\ snapshots[w] # NoTask
    /\ \E S \in SUBSET {u \in Uris : snapshots[w][u] # NoDoc}, withSymbols \in BOOLEAN :
         snapshots' = [snapshots EXCEPT ![w] =
             [u \in Uris |-> IF u \in S THEN Derived(snapshots[w][u], withSymbols)
                                        ELSE snapshots[w][u]]]
    /\ UNCHANGED <<docs, nextRev>>

SameRev(d, s) == d # NoDoc /\ s # NoDoc /\ d.rev = s.rev /\ d.synchronized

Adopt(d, s) ==
    IF SameRev(d, s)
    THEN [rev |-> d.rev, text |-> d.text, synchronized |-> d.synchronized,
          ast |-> IF d.ast = None THEN s.ast ELSE d.ast,
          symbols |-> IF d.symbols = None THEN s.symbols ELSE d.symbols]
    ELSE d

Return(w) ==
    /\ snapshots[w] # NoTask
    /\ docs' = [u \in Uris |-> Adopt(docs[u], snapshots[w][u])]
    /\ snapshots' = [snapshots EXCEPT ![w] = NoTask]
    /\ UNCHANGED nextRev

Init ==
    /\ docs = [u \in Uris |-> NoDoc]
    /\ snapshots = [w \in Workers |-> NoTask]
    /\ nextRev = 1

Next ==
    \/ \E u \in Uris : Write(u) \/ Close(u)
    \/ \E w \in Workers : Take(w) \/ Derive(w) \/ Return(w)

Spec == Init /\ [][Next]_vars
=============================================================================
