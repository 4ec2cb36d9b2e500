------------------------------- MODULE Parser -------------------------------
(* The parser: the tokenizers of blocks and of inlines that it has, in the  *)
(* order in which they are asked, and the parse of tokens by their hooks.   *)
(* Calls that panic leave the parser as it was.                             *)
EXTENDS Tokenizers, ParseScheduler

CONSTANT Scenarios  \* bound: of each, the calls that may be made first, second
                    \* ... (calls) and what may be parsed then (trees)

\* A priority is an i32.
ASSUME CallsAssumption ==
  \A s \in DOMAIN Scenarios : LET c == Scenarios[s].calls IN
    /\ Len(c) \in Nat /\ DOMAIN c = 1..Len(c)
    /\ \A k \in DOMAIN c : \A call \in c[k] :
         call.op \in {"use", "replace"} => call.tokenizer.priority \in Int

\* What is parsed are trees of tokens.
ASSUME TreesAssumption ==
  \A s \in DOMAIN Scenarios : \A t \in Scenarios[s].trees : IsTree(t)

VARIABLES
  registry,  \* for each type its tokenizers (list), where they are by name
             \* (index) and the one that takes the rest (fallback, a set)
  scenario,  \* its number
  made,      \* how many calls were made
  turn,      \* history: for each type and name, the call that registered it
  placed     \* whether a tokenizer was ever put before one that was named

calls == <<registry, scenario, made, turn, placed>>
vars == <<registry, scenario, made, turn, placed, tree, hooks, frames, active, result>>

Types == {"block", "inline"}

\* rebuild_block_index, rebuild_inline_index
IndexOf(list) ==
  [n \in {list[k].name : k \in DOMAIN list} |-> CHOOSE k \in DOMAIN list : list[k].name = n]

WithList(r, list) == [r EXCEPT !.list = list, !.index = IndexOf(list)]

Taken(r, name) == name \in DOMAIN r.index \/ \E t \in r.fallback : t.name = name

\* register_block_tokenizer, register_inline_tokenizer
Registered(r, t, before) == WithList(r, Inserted(r.list, t, before))

\* unmount_block_tokenizer, unmount_inline_tokenizer
Unmounted(r, name) ==
  LET s == IF name \in DOMAIN r.index THEN WithList(r, RemoveAt(r.list, r.index[name])) ELSE r
  IN [s EXCEPT !.fallback = {t \in @ : t.name # name}]

NoTokenizers == [list |-> <<>>, index |-> IndexOf(<<>>), fallback |-> {}]

Init ==
  /\ scenario \in DOMAIN Scenarios
  /\ registry = [type \in Types |-> NoTokenizers] /\ made = 0
  /\ turn = [type \in Types |-> [n \in {} |-> made]] /\ placed = FALSE
  /\ tree = NoTree /\ hooks = {} /\ frames = <<>> /\ active = {} /\ result = "running"

\* The name is registered by this call.
Entered(type, name) ==
  turn' = [turn EXCEPT ![type] =
             [n \in DOMAIN @ \cup {name} |-> IF n = name THEN made ELSE @[n]]]

Calling == tree = NoTree /\ made' = made + 1 /\ UNCHANGED <<scenario, scheduler>>

IsPlaced(r, before) == before \in DOMAIN r.index

\* use_tokenizer
UseTokenizer(t, before) ==
  LET r == registry[t.type]
  IN /\ Calling
     /\ ~Taken(r, t.name)
     /\ registry' = [registry EXCEPT ![t.type] = Registered(r, t, before)]
     /\ Entered(t.type, t.name)
     /\ placed' = (placed \/ IsPlaced(r, before))

\* A mutant of IsInPlace that forgets the priority.
IsInPlaceAnyPriority(r, t, before) == before = Anywhere /\ t.name \in DOMAIN r.index

\* Whether a tokenizer takes the place of the one of its name.
IsInPlace(r, t, before) ==
  /\ before = Anywhere /\ t.name \in DOMAIN r.index
  /\ r.list[r.index[t.name]].priority = t.priority

\* replace_tokenizer; once the name is unmounted it can be registered.
ReplaceTokenizer(t, before) ==
  LET r == registry[t.type]
      rest == Unmounted(r, t.name)
  IN /\ Calling
     /\ \/ /\ IsInPlace(r, t, before)
           /\ registry' = [registry EXCEPT ![t.type].list[r.index[t.name]] = t]
           /\ UNCHANGED <<turn, placed>>
        \/ /\ ~IsInPlace(r, t, before)
           /\ registry' = [registry EXCEPT ![t.type] = Registered(rest, t, before)]
           /\ Entered(t.type, t.name)
           /\ placed' = (placed \/ IsPlaced(rest, before))

\* unmount_tokenizer, and of one type only
Unmount(types, name) ==
  /\ Calling
  /\ registry' = [type \in Types |->
                   IF type \in types THEN Unmounted(registry[type], name) ELSE registry[type]]
  /\ UNCHANGED <<turn, placed>>

\* use_fallback_tokenizer
UseFallbackTokenizer(t) ==
  /\ Calling
  /\ t.name \notin DOMAIN registry[t.type].index
  /\ registry' = [registry EXCEPT ![t.type].fallback = {t}]
  /\ UNCHANGED <<turn, placed>>

Call(call) ==
  \/ call.op = "use" /\ UseTokenizer(call.tokenizer, call.before)
  \/ call.op = "replace" /\ ReplaceTokenizer(call.tokenizer, call.before)
  \/ call.op = "unmount" /\ Unmount(call.types, call.name)
  \/ call.op = "fallback" /\ UseFallbackTokenizer(call.tokenizer)

\* The hooks of a parse are those of the tokenizers and the fallback.
HookNames(type) ==
  DOMAIN registry[type].index \cup {t.name : t \in registry[type].fallback}

Parse(t) == Begin(t, HookNames(t.phase)) /\ UNCHANGED calls

Next ==
  \/ /\ made < Len(Scenarios[scenario].calls)
     /\ \E call \in Scenarios[scenario].calls[made + 1] : Call(call)
  \/ \E t \in Scenarios[scenario].trees : Parse(t)
  \/ Step /\ UNCHANGED calls

Spec == Init /\ [][Next]_vars

-----------------------------------------------------------------------------
(* Properties *)

\* No two tokenizers of a type have the same name, the fallback included, and
\* the index says where each is, however they were registered, replaced and
\* unmounted.
NamesOnce ==
  \A type \in Types :
    LET r == registry[type]
    IN /\ DOMAIN r.index = {r.list[k].name : k \in DOMAIN r.list}
       /\ \A k \in DOMAIN r.list : r.index[r.list[k].name] = k
       /\ \A t \in r.fallback : t.name \notin DOMAIN r.index

\* Unless a tokenizer was put before a named one, those of higher priority
\* are asked first, and those of equal priority in the order in which they
\* were registered, replacements in place keeping their turn.
PriorityOrder ==
  ~placed => \A type \in Types :
    LET list == registry[type].list
    IN \A i, j \in DOMAIN list : i < j =>
         \/ list[i].priority > list[j].priority
         \/ /\ list[i].priority = list[j].priority
            /\ turn[type][list[i].name] < turn[type][list[j].name]
=============================================================================
