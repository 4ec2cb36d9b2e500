----------------------------- MODULE BlockProcessor -----------------------------
(***************************************************************************)
(* The block phase of the parser (crates/core-parser/src/processor/block/  *)
(* mod.rs, BlockContentProcessor): a tree of tokens, the stack of its open *)
(* blocks and, line after line, the walk along them: continue what is      *)
(* open, interrupt it, open new blocks, continue the last one lazily, cut  *)
(* what is stale and fall back to a paragraph.                             *)
(*                                                                         *)
(* A hook's reply depends on characters; here it may be any reply its kind *)
(* of block gives.  The kinds stand for all block tokenizers with the same *)
(* replies:                                                                *)
(*   "container"  blockquote, list item, admonition, footnote definition   *)
(*   "definition" the one kind that takes lines back                       *)
(*   "fence"      fenced and indented code, math, HTML                     *)
(*   "heading"    heading, thematic break: saturated when opened           *)
(*   "setext"     turns the paragraph before it into a heading             *)
(*   "table"      takes the last line of the paragraph before it           *)
(*   "paragraph"  the fallback                                             *)
(* Priorities are those of core-tokenizer/src/constant.rs.  A position in  *)
(* the stack counts from 1 here: 1 is the root.                            *)
(***************************************************************************)
EXTENDS Integers, Sequences, FiniteSets, SequencesExt

CONSTANTS
    MaxLines,  \* bound: lines of a document
    MaxDepth   \* bound: open blocks below which containers are opened

ASSUME BoundsAssumption == MaxLines \in Nat /\ MaxDepth \in Nat

Lines == 1..MaxLines
Kinds == {"container", "definition", "fence", "heading", "setext", "table", "paragraph"}

Priority(kind) ==
    CASE kind = "table"     -> 2
      [] kind = "paragraph" -> -1
      [] OTHER              -> 10

IsContaining(kind) == kind \in {"root", "container"}

(* How far a definition has come: "label" is everything that is given back *)
(* whole when it fails, "title" an unfinished title on lines of its own.   *)
Stages == {"none", "label", "complete", "title", "titled"}

(* "lines" are the lines whose text the token holds, "tail" those of them  *)
(* that belong to an unfinished title.                                     *)
Token == [kind : Kinds \cup {"root"}, lines : SUBSET Lines,
          stage : Stages, tail : SUBSET Lines]

Leaf(kind, lines) == [kind |-> kind, lines |-> lines, stage |-> "none", tail |-> {}]

VARIABLES
    tree,     \* the tokens under "root", by their paths
    stack,    \* state_stack: the paths of the open blocks
    current,  \* current_stack_index
    phase,    \* the step of consume
    line,     \* the line being consumed
    rest,     \* what is left of it: "text", "blank" or "none"
    taken     \* history: the lines whose text some leaf was given

vars == <<tree, stack, current, phase, line, rest, taken>>

Doc == [tree |-> tree, stack |-> stack]

-----------------------------------------------------------------------------
(* The tree.                                                               *)

ChildrenOf(t, p) == {q \in DOMAIN t : q # <<>> /\ Front(q) = p}

LastChild(t, p) == Append(p, Cardinality(ChildrenOf(t, p)))
NewChild(t, p)  == Append(p, Cardinality(ChildrenOf(t, p)) + 1)

(* children.pop(): the last child goes with all below it.  TLC evaluates an  *)
(* argument at each of its uses; u is evaluated once, here and below.      *)
PopChild(t, p) ==
    CHOOSE v \in {[q \in {r \in DOMAIN u : ~IsPrefix(LastChild(u, p), r)} |-> u[q]] :
                  u \in {t}} : TRUE

(* Tokens become the last children of p.                                   *)
Added(t, p, n, tokens) ==
    [q \in DOMAIN t \cup {Append(p, n + i) : i \in DOMAIN tokens} |->
        IF q \in DOMAIN t THEN t[q] ELSE tokens[Last(q) - n]]

PushChildren(t, p, tokens) ==
    CHOOSE v \in {Added(u, p, Cardinality(ChildrenOf(u, p)), tokens) : u \in {t}} : TRUE

Top(doc)    == doc.stack[Len(doc.stack)]

(* A new open block under the top of the stack.                            *)
OpenOnTop(doc, token) ==
    [tree  |-> PushChildren(doc.tree, Top(doc), <<token>>),
     stack |-> Append(doc.stack, NewChild(doc.tree, Top(doc)))]

-----------------------------------------------------------------------------
(* Rolling back.                                                           *)

(* What a processor without the definition hook makes of the lines that a  *)
(* definition gives back: closed blocks, and then open ones within each    *)
(* other, of which the last may have lines.  How many closed blocks there  *)
(* are, how many containers are open and in which of them the closed ones  *)
(* are makes no difference here.                                           *)
Rollback(closed, within, leaf) == [closed |-> closed, within |-> within, leaf |-> leaf]

Closed(lines) == IF lines = {} THEN <<>> ELSE <<Leaf("paragraph", lines)>>

OpenLeaves(lines) ==
    IF lines = {} THEN {<<>>} ELSE {<<Leaf(k, lines)>> : k \in {"paragraph", "fence"}}

(* A bug: the definition hook is not left out.                             *)
RollbacksWithAllHooks(lines) ==
    {Rollback(<<>>, <<>>, <<[Leaf("definition", lines) EXCEPT !.stage = "label"]>>)}

Containers == {<<>>, <<Leaf("container", {})>>}

RollbacksOf(closed, open) ==
    {Rollback(Closed(closed), within, leaf) : within \in Containers, leaf \in OpenLeaves(open)}

Rollbacks(lines) ==
    IF lines = {} THEN {Rollback(<<>>, <<>>, <<>>)}
    ELSE UNION {RollbacksOf({l \in lines : l < m}, {l \in lines : l >= m}) :
                 m \in lines \cup {MaxLines + 1}}

Opened(doc, tokens) == IF tokens = <<>> THEN doc ELSE OpenOnTop(doc, tokens[1])

(* rollback: the snapshot's blocks become the parent's, open ones open.    *)
Graft(doc, r) ==
    LET closed == [doc EXCEPT !.tree = PushChildren(doc.tree, Top(doc), r.closed)]
    IN  Opened(Opened(closed, r.within), r.leaf)

(* A definition without its unfinished title.                              *)
Untitled(token) ==
    [token EXCEPT !.lines = token.lines \ token.tail, !.stage = "complete", !.tail = {}]

(* A bug: a block that fails when it is closed is kept and its lines are   *)
(* consumed again.                                                         *)
ClosedAndRepeated(doc) ==
    LET top    == doc.tree[Top(doc)]
        parent == Last(Front(doc.stack))
    IN  [stack |-> Front(doc.stack),
         tree  |-> IF top.stage = "label"
                   THEN PushChildren(doc.tree, parent, Closed(top.lines))
                   ELSE doc.tree]

(* popup: the top block is closed.  A definition that is not finished      *)
(* fails, and one with an unfinished title loses that; the lines go to     *)
(* closed blocks after it.                                                 *)
Popped(doc) ==
    LET top    == doc.tree[Top(doc)]
        rest2  == Front(doc.stack)
        parent == Last(rest2)
    IN  [stack |-> rest2,
         tree  |->
            CASE top.stage = "label" ->
                    PushChildren(PopChild(doc.tree, parent), parent, Closed(top.lines))
              [] top.stage = "title" ->
                    PushChildren([doc.tree EXCEPT ![Top(doc)] = Untitled(top)],
                                 parent, Closed(top.tail))
              [] OTHER -> doc.tree]

(* cut_stale_branch: only the top block of a stack can be a definition.    *)
Cut(doc, size) ==
    IF Len(doc.stack) <= size THEN doc
    ELSE LET p == Popped(doc) IN [p EXCEPT !.stack = SubSeq(p.stack, 1, size)]

-----------------------------------------------------------------------------
(* Consuming a line.                                                       *)

(* The singleton makes TLC evaluate doc once.                              *)
Becomes(doc) == \E d \in {doc} : tree' = d.tree /\ stack' = d.stack

(* The text of the line goes to a leaf.                                    *)
Give == taken' = IF rest = "text" THEN taken \cup {line} ELSE taken
Text == IF rest = "text" THEN {line} ELSE {}

(* A container eats its prefix and leaves the rest of the line.            *)
AfterPrefix == IF rest = "text" THEN {"text", "blank", "none"} ELSE {"blank", "none"}

Consume ==
    /\ phase = "idle"
    /\ line < MaxLines
    /\ line' = line + 1
    /\ rest' \in {"text", "blank"}
    /\ current' = 2
    /\ phase' = "walk"
    /\ UNCHANGED <<tree, stack, taken>>

Walking == phase = "walk" /\ rest # "none" /\ current \in 2..Len(stack)

Here == tree[stack[current]]

(* push: the new block closes what is still open below its parent.         *)
Pushed(doc, i, token) ==
    LET d == OpenOnTop(Cut(doc, i), token)
    IN  IF token.kind \in {"heading", "setext"} THEN [d EXCEPT !.stack = Front(@)] ELSE d

(* A bug: the priorities are not compared.                                 *)
InterruptAnything(kind) == TRUE

CanInterrupt(kind) == Priority(kind) > Priority(Here.kind)

(* interrupt_sibling: the block at hand is closed, and what the hook left  *)
(* of it, with the new block after that, takes its place.                  *)
Interrupted(remaining, token) ==
    LET d == Cut(Doc, current - 1)
        t == PushChildren(PopChild(d.tree, Top(d)), Top(d), remaining)
    IN  Pushed([d EXCEPT !.tree = t], current - 1, token)

Interrupt(kind, remaining, token) ==
    /\ Walking /\ rest = "text"
    /\ CanInterrupt(kind)
    /\ Becomes(Interrupted(remaining, token))
    /\ current' = Len(stack')
    /\ phase' = "matched"
    /\ UNCHANGED line

InterruptByContainer ==
    /\ Interrupt("container", <<Here>>, Leaf("container", {}))
    /\ current <= MaxDepth
    /\ rest' \in AfterPrefix
    /\ UNCHANGED taken

InterruptByLeaf(kind) ==
    /\ Interrupt(kind, <<Here>>, Leaf(kind, {line}))
    /\ rest' = "none"
    /\ Give

(* extract_phrasing_lines: only a paragraph has lines to give.             *)
InterruptBySetext ==
    /\ Interrupt("setext", <<>>, Leaf("setext", Here.lines \cup {line}))
    /\ Here.kind = "paragraph"
    /\ rest' = "none"
    /\ Give

InterruptByTable ==
    /\ Interrupt("table",
           IF Cardinality(Here.lines) = 1 THEN <<>>
           ELSE <<Leaf("paragraph", {l \in Here.lines : \E k \in Here.lines : k > l})>>,
           Leaf("table", {l \in Here.lines : \A k \in Here.lines : k <= l} \cup {line}))
    /\ Here.kind = "paragraph"
    /\ rest' = "none"
    /\ Give

(* EatContinuationTextResult::Opening.                                     *)
Continue ==
    /\ Walking
    /\ current' = current + 1
    /\ UNCHANGED <<stack, phase, line>>

ContinueContainer ==
    /\ Continue
    /\ Here.kind = "container"
    /\ rest' \in AfterPrefix
    /\ UNCHANGED <<tree, taken>>

ContinueLeaf ==
    /\ Continue
    /\ Here.kind = "fence" \/ (Here.kind = "paragraph" /\ rest = "text")
    /\ tree' = [tree EXCEPT ![stack[current]].lines = @ \cup Text]
    /\ rest' = "none"
    /\ Give

(* The label or the destination goes on, or the destination is complete,   *)
(* or a title begins or goes on: the definition stays open.                *)
ContinueDefinition ==
    /\ Continue
    /\ Here.kind = "definition" /\ rest = "text"
    /\ \E to \in CASE Here.stage = "label"    -> {"label", "complete"}
                   [] Here.stage = "complete" -> {"title"}
                   [] Here.stage = "title"    -> {"title"}
                   [] OTHER                   -> {} :
         tree' = [tree EXCEPT ![stack[current]] =
             [Here EXCEPT !.lines = @ \cup {line}, !.stage = to,
                          !.tail = IF to = "title" THEN @ \cup {line} ELSE {}]]
    /\ rest' = "none"
    /\ Give

(* Closing: a fence, an admonition or the title of a definition ends.      *)
Close ==
    /\ Walking
    /\ current' = current - 1
    /\ phase' = "matched"
    /\ rest' = "none"
    /\ UNCHANGED <<stack, line>>

CloseContainer ==
    /\ Close
    /\ Here.kind = "container"
    /\ UNCHANGED <<tree, taken>>

CloseLeaf ==
    /\ Close
    /\ rest = "text"
    /\ Here.kind = "fence" \/ Here.stage \in {"label", "complete", "title"}
    /\ tree' = [tree EXCEPT ![stack[current]] =
           [Here EXCEPT !.lines = @ \cup {line}, !.tail = {},
                        !.stage = IF Here.kind = "fence" THEN "none" ELSE "titled"]]
    /\ Give

NotMatched ==
    /\ Walking
    /\ \/ Here.kind \in {"container", "table", "fence"}
       \/ Here.kind = "paragraph" /\ rest = "blank"
       \/ Here.stage = "titled"
    /\ current' = current - 1
    /\ phase' = "matched"
    /\ UNCHANGED <<tree, stack, line, rest, taken>>

(* FailedAndRollback: the definition is removed and its lines are consumed *)
(* again; the walk goes on with whatever they leave open.                  *)
FailAndRollback ==
    /\ Walking
    /\ Here.stage = "label"
    /\ LET parent == stack[current - 1]
           d == [tree |-> PopChild(tree, parent), stack |-> SubSeq(stack, 1, current - 1)]
       IN  \E r \in Rollbacks(Here.lines) : Becomes(Graft(d, r))
    /\ current' = Len(stack')
    /\ UNCHANGED <<phase, line, rest, taken>>

(* ClosingAndRollback: the definition stays without its title.             *)
CloseAndRollback ==
    /\ Walking
    /\ Here.stage \in {"complete", "title"}
    /\ LET t == [tree EXCEPT ![stack[current]] = Untitled(Here)]
           d == Cut([tree |-> t, stack |-> stack], current - 1)
       IN  \E r \in Rollbacks(Here.tail) : Becomes(Graft(d, r))
    /\ current' = Len(stack')
    /\ phase' = IF Here.tail = {} THEN "matched" ELSE "walk"
    /\ UNCHANGED <<line, rest, taken>>

(* The walk is over: nothing is left of the line, or of the stack.         *)
EndWalk ==
    /\ phase \in {"walk", "matched"} /\ ~Walking
    /\ current' = IF rest # "none" /\ current > Len(stack) THEN Len(stack) ELSE current
    /\ \/ phase' = "open"
       \/ /\ rest # "none" /\ current <= Len(stack)
          /\ tree[Top(Doc)].kind = "paragraph"       \* indented by four or more
          /\ phase' = "lazy"
    /\ UNCHANGED <<tree, stack, line, rest, taken>>

Openers == {Leaf("container", {}), Leaf("fence", {line}), Leaf("heading", {line})}
    \cup {[kind |-> "definition", lines |-> {line}, stage |-> s, tail |-> {}] :
            s \in {"label", "complete", "titled"}}

(* consume_new_opener.                                                     *)
Open(token) ==
    /\ Becomes(Pushed(Doc, current, token))
    /\ current' = Len(stack')
    /\ UNCHANGED line

OpenContainer ==
    /\ phase = "open" /\ rest = "text"
    /\ IsContaining(tree[stack[current]].kind)
    /\ current < MaxDepth
    /\ Open(Leaf("container", {}))
    /\ rest' \in AfterPrefix
    /\ UNCHANGED <<phase, taken>>

OpenLeaf(token) ==
    /\ phase = "open" /\ rest = "text"
    /\ IsContaining(tree[stack[current]].kind)
    /\ Open(token)
    /\ rest' = "none"
    /\ phase' = "lazy"
    /\ Give

EndOpen ==
    /\ phase = "open"
    /\ phase' = "lazy"
    /\ UNCHANGED <<tree, stack, current, line, rest, taken>>

(* The last block takes the line although a block around it did not match. *)
LazyParagraph ==
    /\ current < Len(stack) /\ rest = "text"
    /\ tree[Top(Doc)].kind = "paragraph"

LazyContinue ==
    /\ phase = "lazy"
    /\ LazyParagraph \/ (current < Len(stack) /\ rest = "text" /\ tree[Top(Doc)].kind = "table")
    /\ tree' = [tree EXCEPT ![Top(Doc)].lines = @ \cup {line}]
    /\ current' = Len(stack)
    /\ rest' = "none"
    /\ phase' = "fallback"
    /\ Give
    /\ UNCHANGED <<stack, line>>

CutStaleBranch ==
    /\ phase = "lazy"
    /\ ~LazyParagraph
    /\ Becomes(Cut(Doc, current))
    /\ current' = IF current > Len(stack') THEN Len(stack') ELSE current
    /\ phase' = "fallback"
    /\ UNCHANGED <<line, rest, taken>>

FallBack ==
    /\ phase = "fallback"
    /\ IF rest = "text"
       THEN Open(Leaf("paragraph", {line})) /\ rest' = "none" /\ Give
       ELSE UNCHANGED <<tree, stack, current, line, rest, taken>>
    /\ phase' = "idle"

Done ==
    /\ phase = "idle"
    /\ Becomes(Cut(Doc, 1))
    /\ current' = 1
    /\ phase' = "done"
    /\ UNCHANGED <<line, rest, taken>>

-----------------------------------------------------------------------------
Init ==
    /\ tree = [p \in {<<>>} |-> Leaf("root", {})]
    /\ stack = <<<<>>>>
    /\ current = 1
    /\ phase = "idle"
    /\ line = 0
    /\ rest = "none"
    /\ taken = {}

InLine ==
    \/ InterruptByContainer \/ InterruptBySetext \/ InterruptByTable
    \/ \E k \in {"heading", "fence"} : InterruptByLeaf(k)
    \/ ContinueContainer \/ ContinueLeaf \/ ContinueDefinition
    \/ CloseContainer \/ CloseLeaf \/ NotMatched
    \/ FailAndRollback \/ CloseAndRollback
    \/ EndWalk
    \/ OpenContainer \/ EndOpen \/ \E token \in Openers : token.lines # {} /\ OpenLeaf(token)
    \/ LazyContinue \/ CutStaleBranch \/ FallBack

(* The tree was taken; no step follows.                                    *)
Terminated == phase = "done" /\ UNCHANGED vars

Next == Consume \/ InLine \/ Done \/ Terminated

Spec == Init /\ [][Next]_vars

(* consume is a loop that runs until the line is finished.                 *)
FairSpec == Spec /\ WF_vars(InLine)

-----------------------------------------------------------------------------
(* Properties.                                                             *)

(* TextIsKept: the text of every line a block was given is in exactly one  *)
(* block of the tree: taking it back, handing it to an interrupting block  *)
(* and consuming it again neither lose nor repeat it.                      *)
TextIsKept ==
    /\ taken = UNION {tree[p].lines : p \in DOMAIN tree}
    /\ \A p, q \in DOMAIN tree : p # q => tree[p].lines \cap tree[q].lines = {}

(* ClosedBlocksAreFinal: a line changes open blocks only; a closed block   *)
(* keeps its place and its text, and nothing is put into it.               *)
ClosedBlocksAreFinal == [][\A p \in DOMAIN tree \ Range(stack) :
    /\ p \in DOMAIN tree'
    /\ tree'[p] = tree[p]
    /\ ChildrenOf(tree', p) = ChildrenOf(tree, p)]_vars

(* LinesAreFinished: consume returns, though rolled-back lines make it     *)
(* walk again, and returns with "first_non_whitespace_index >=             *)
(* end_index_of_line" (block/mod.rs:403).                                  *)
LinesAreFinished ==
    phase \notin {"idle", "done"} ~> phase = "idle" /\ rest # "text"
=============================================================================
