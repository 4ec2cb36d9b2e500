--------------------------- MODULE ParseScheduler ---------------------------
(* How tokens become nodes: the hooks of the tokenizers are asked on a      *)
(* stack of frames, one for each list of tokens that is being parsed, so    *)
(* that deep documents need no deep calls.  A hook answers with nodes, with *)
(* a generator that asks for the nodes of lists of tokens, or fails.        *)
(*                                                                          *)
(* Blocks and inlines are parsed alike, but for what becomes of a failure:  *)
(* a block hook that fails, even by a panic, fails the hook that asked for  *)
(* its nodes, which may go on; nothing catches the panic of an inline hook. *)
EXTENDS Integers, Sequences, SequencesExt

CONSTANTS
  HookOf,   \* what the hook of each name does: "nodes", "children", "lenient"
            \* (children, or nothing if they fail), "again" (asks for its own
            \* tokens) or "panics"
  NoTree    \* nothing is being parsed

\* Tokens as the match phase leaves them: the children of a token are other
\* tokens than those above it (here they have greater numbers), and if tokens
\* are in two lists, the lists are one that is shared (BlockTokenChildren).
IsTree(t) ==
  /\ t.children \in Seq(Seq(DOMAIN t.children)) /\ t.roots \in Seq(DOMAIN t.children)
  /\ \A x \in DOMAIN t.children : \A y \in Range(t.children[x]) : y > x
  /\ \A a, b \in {t.roots} \cup Range(t.children) : a = b \/ Range(a) \cap Range(b) = {}

VARIABLES
  tree,    \* what is parsed: its phase ("block" or "inline"), its tokens
           \* (roots), their names and their children
  hooks,   \* hook_map: the names that have hooks
  frames,  \* frame_stack
  active,  \* active_token_set
  result   \* what the parse ended with ("running" until then)

scheduler == <<tree, hooks, frames, active, result>>

\* ParseBlockFrame.  The state of its generator is "none" without one; wants
\* are the lists that it asks for, asked how many it has, and made its nodes.
Frame(tokens) ==
  [tokens |-> tokens, next |-> 1, nodes |-> <<>>, state |-> "none", given |-> <<>>,
   batch |-> <<>>, lenient |-> FALSE, wants |-> <<>>, asked |-> 0, made |-> <<>>]

\* A mutant of Batch that takes all that are left.
BatchOfAll(f) == SubSeq(f.tokens, f.next, Len(f.tokens))

\* The next tokens of a frame that are of one tokenizer.
Batch(f) ==
  LET last == CHOOSE e \in f.next..Len(f.tokens) :
                /\ \A k \in f.next..e : tree.names[f.tokens[k]] = tree.names[f.tokens[f.next]]
                /\ e = Len(f.tokens) \/ tree.names[f.tokens[e + 1]] # tree.names[f.tokens[e]]
  IN SubSeq(f.tokens, f.next, last)

Node(token, children) == [token |-> token, children |-> children]

\* A generator that asks for the given lists, one after the other.
Asking(f, batch, wants, lenient) ==
  [f EXCEPT !.next = @ + Len(batch), !.state = "initial", !.batch = batch, !.lenient = lenient,
            !.wants = wants, !.asked = 0, !.made = <<>>]

Top == frames[Len(frames)]
WithTop(f) == [frames EXCEPT ![Len(frames)] = f]

Begin(t, names) ==
  /\ tree = NoTree
  /\ tree' = t /\ hooks' = names
  /\ frames' = <<Frame(t.roots)>> /\ active' = Range(t.roots)
  /\ result' = "running"

\* A mutant of Settle that leaves the tokens of the frame active.
SettleActive(state, nodes) ==
  LET below == SubSeq(frames, 1, Len(frames) - 1)
  IN /\ active' = active
     /\ IF below = <<>> THEN frames' = <<>> /\ result' = <<state, nodes>>
        ELSE /\ frames' = [below EXCEPT ![Len(below)].state = state, ![Len(below)].given = nodes]
             /\ UNCHANGED result

\* settle_frame: the frame is done, and the generator below it goes on.
Settle(state, nodes) ==
  LET below == SubSeq(frames, 1, Len(frames) - 1)
  IN /\ active' = active \ Range(Top.tokens)
     /\ IF below = <<>> THEN frames' = <<>> /\ result' = <<state, nodes>>
        ELSE /\ frames' = [below EXCEPT ![Len(below)].state = state, ![Len(below)].given = nodes]
             /\ UNCHANGED result

\* A block hook fails its frame, an inline hook the parse.
Fail ==
  IF tree.phase = "block" THEN Settle("error", <<>>)
  ELSE frames' = <<>> /\ active' = {} /\ result' = <<"error", <<>>>>

\* step_token_list_frame
StepTokenList ==
  /\ frames # <<>> /\ Top.state = "none"
  /\ \/ Top.next > Len(Top.tokens) /\ Settle("nodes", Top.nodes)
     \/ /\ Top.next <= Len(Top.tokens)
        /\ LET batch == Batch(Top)
               name == tree.names[Top.tokens[Top.next]]
               hook == HookOf[name]
               asking(wants, lenient) ==
                 /\ frames' = WithTop(Asking(Top, batch, wants, lenient))
                 /\ UNCHANGED <<active, result>>
           IN \/ name \notin hooks /\ Fail
              \/ name \in hooks /\ hook = "panics" /\ Fail
              \/ /\ name \in hooks /\ hook = "nodes"
                 /\ frames' = WithTop([Top EXCEPT !.next = @ + Len(batch),
                              !.nodes = @ \o [k \in DOMAIN batch |-> Node(batch[k], <<>>)]])
                 /\ UNCHANGED <<active, result>>
              \/ /\ name \in hooks /\ hook \in {"children", "lenient"}
                 /\ asking([k \in DOMAIN batch |-> tree.children[batch[k]]], hook = "lenient")
              \/ name \in hooks /\ hook = "again" /\ asking(<<batch>>, FALSE)
  /\ UNCHANGED <<tree, hooks>>

\* The generator once it has the nodes that it asked for.
Resumed ==
  IF Top.state = "initial" THEN Top
  ELSE [Top EXCEPT !.made = Append(@, Node(Top.batch[Top.asked], Top.given)), !.given = <<>>]

\* step_hook_execution
StepGenerator ==
  /\ frames # <<>> /\ Top.state \in {"initial", "nodes", "error"}
  /\ LET f == Resumed
         wanted == f.wants[f.asked + 1]
         asked == [f EXCEPT !.asked = @ + 1]
     IN \/ Top.state = "error" /\ ~Top.lenient /\ Fail
        \/ /\ Top.state # "error" \/ Top.lenient
           /\ \/ /\ f.asked = Len(f.wants)  \* Complete
                 /\ frames' = WithTop([f EXCEPT !.state = "none", !.nodes = @ \o f.made])
                 /\ UNCHANGED <<active, result>>
              \/ /\ f.asked < Len(f.wants) /\ wanted = <<>>
                 /\ frames' = WithTop([asked EXCEPT !.state = "nodes"])
                 /\ UNCHANGED <<active, result>>
              \/ /\ f.asked < Len(f.wants) /\ wanted # <<>>
                 /\ Range(wanted) \cap active = {}  \* create_frame
                 /\ frames' = Append(WithTop([asked EXCEPT !.state = "waiting"]), Frame(wanted))
                 /\ active' = active \cup Range(wanted)
                 /\ UNCHANGED result
              \/ /\ f.asked < Len(f.wants) /\ Range(wanted) \cap active # {}
                 /\ IF tree.phase = "block"
                    THEN /\ frames' = WithTop([asked EXCEPT !.state = "error"])
                         /\ UNCHANGED <<active, result>>
                    ELSE Fail
  /\ UNCHANGED <<tree, hooks>>

Step == StepTokenList \/ StepGenerator

-----------------------------------------------------------------------------
(* Properties *)

\* A token is active as long as it is in a frame, and in one only; every
\* frame but the last waits for the nodes of the one above it
\* ("generator is not waiting for a child", parse.rs:145, is never
\* reported).
ActiveTokens ==
  /\ active = UNION {Range(frames[i].tokens) : i \in DOMAIN frames}
  /\ \A i, j \in DOMAIN frames :
       i # j => Range(frames[i].tokens) \cap Range(frames[j].tokens) = {}
  /\ \A i \in DOMAIN frames : frames[i].state = "waiting" <=> i < Len(frames)

\* What the hook of a token does; a name without a hook fails like one that panics.
Does(x) == IF tree.names[x] \in hooks THEN HookOf[tree.names[x]] ELSE "panics"

\* The nodes of a list of tokens, given those of each (a set of one node, or
\* none if it fails), or none if a token has none.
InOrder(each) ==
  IF \E k \in DOMAIN each : each[k] = {} THEN {}
  ELSE {[k \in DOMAIN each |-> CHOOSE n \in each[k] : TRUE]}

\* The node of a token, given those of all others: that of its hook, with the
\* nodes of its children if it asks for them.
NodeFrom(N, x) ==
  LET inner == InOrder([k \in DOMAIN tree.children[x] |-> N[tree.children[x][k]]])
  IN CASE Does(x) = "nodes"                                           -> {Node(x, <<>>)}
       [] Does(x) \in {"children", "lenient"} /\ inner # {}            -> {Node(x, n) : n \in inner}
       [] Does(x) = "lenient" /\ inner = {} /\ tree.phase = "block"    -> {Node(x, <<>>)}
       [] OTHER                                                       -> {}

\* The nodes of all tokens, as a recursion over the tree, and of a list.
NodeOf[x \in DOMAIN tree.children] == NodeFrom(NodeOf, x)
NodesOf(tokens) == InOrder([k \in DOMAIN tokens |-> NodeOf[tokens[k]]])

\* The parse ends with the nodes of all tokens, each with those of its
\* children, or with an error if a hook failed and none above it minded.
NodesOfTree ==
  result # "running" =>
    NodesOf(tree.roots) = (IF result[1] = "error" THEN {} ELSE {result[2]})
=============================================================================
