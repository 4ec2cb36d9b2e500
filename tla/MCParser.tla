------------------------------ MODULE MCParser ------------------------------
EXTENDS Parser

GuardTokenizer(priority) == Tokenizer("block", "guard", priority, {})
EchoTokenizer == Tokenizer("block", "echo", Atomic, {})
FaultyTokenizer == Tokenizer("block", "faulty", Atomic, {})
EchoInlineTokenizer == Tokenizer("inline", "echo", Atomic, {})
FaultyInlineTokenizer == Tokenizer("inline", "faulty", Atomic, {})

MCHookOf == [name \in {"paragraph", "heading", "blockquote", "guard", "echo", "faulty",
                       "text", "emphasis"} |->
  CASE name \in {"blockquote", "emphasis"} -> "children"
    [] name = "guard"                      -> "lenient"
    [] name = "echo"                       -> "again"
    [] name = "faulty"                     -> "panics"
    [] OTHER                               -> "nodes"]

Use(t, before) == [op |-> "use", tokenizer |-> t, before |-> before]
Replace(t, before) == [op |-> "replace", tokenizer |-> t, before |-> before]
Take(types, name) == [op |-> "unmount", types |-> types, name |-> name]
Rest(t) == [op |-> "fallback", tokenizer |-> t]

\* Forests of three tokens, and two tokens that share their child.
Tokens == 1..3
Shapes == {<< <<1, 2, 3>>, <<>>, <<>>, <<>> >>, << <<1, 3>>, <<2>>, <<>>, <<>> >>,
           << <<1, 2>>, <<>>, <<3>>, <<>> >>, << <<1>>, <<2, 3>>, <<>>, <<>> >>,
           << <<1>>, <<2>>, <<3>>, <<>> >>, << <<1, 2>>, <<3>>, <<3>>, <<>> >>}
TreesOf(phase, names) ==
  {[phase |-> phase, roots |-> s[1], children |-> Tail(s), names |-> n] :
     s \in Shapes, n \in [Tokens -> names]}

\* Any calls, and the parse of one quoted paragraph and emphasized text.
AnyCall ==
  {Use(t, b) : t \in {BlockquoteTokenizer, HeadingTokenizer, GuardTokenizer(2)},
               b \in {Anywhere, "guard", "heading"}}
  \cup {Replace(t, b) : t \in {BlockquoteTokenizer, GuardTokenizer(10), ParagraphTokenizer},
                        b \in {Anywhere, "heading"}}
  \cup {Take({"inline", "block"}, n) : n \in {"blockquote", "paragraph"}}
  \cup {Take({"block"}, "heading"), Take({"inline"}, "text"), Take({"inline"}, "emphasis")}
  \cup {Rest(ParagraphTokenizer), Rest(TextTokenizer), Use(EmphasisTokenizer, Anywhere)}
FreeCalls ==
  [calls |-> [k \in 1..4 |-> AnyCall],
   trees |-> {[phase |-> "block", roots |-> <<1, 3>>, children |-> <<<<2>>, <<>>, <<>>>>,
               names |-> <<"blockquote", "paragraph", "paragraph">>]}]

\* All trees, with hooks of all kinds.
AllTrees ==
  [calls |-> <<{Rest(ParagraphTokenizer)}, {Use(BlockquoteTokenizer, Anywhere)},
               {Use(GuardTokenizer(2), Anywhere)}, {Use(EchoTokenizer, Anywhere)},
               {Use(FaultyTokenizer, Anywhere)}>>,
   trees |-> TreesOf("block", {"paragraph", "heading", "blockquote", "guard", "echo", "faulty"})]
InlineTrees ==
  [calls |-> <<{Rest(TextTokenizer)}, {Use(EmphasisTokenizer, Anywhere)},
               {Use(EchoInlineTokenizer, Anywhere)}, {Use(FaultyInlineTokenizer, Anywhere)}>>,
   trees |-> TreesOf("inline", {"text", "emphasis", "echo", "faulty"})]
MCScenarios == <<FreeCalls, AllTrees, InlineTrees>>
=============================================================================
