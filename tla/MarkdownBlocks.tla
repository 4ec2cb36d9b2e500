--------------------------- MODULE MarkdownBlocks ---------------------------
(* A document that is matched line by line with the built-in tokenizers.    *)
(*                                                                          *)
(* Its lines are made of patterns in which "x" stands for the letter of the *)
(* line, so that every letter says which line it is from.                   *)
EXTENDS MarkupWeaver

CONSTANT Families  \* bound: the documents, as records of the line patterns they
                   \* are made of (from) and of how many (most)

VARIABLES
  family,  \* what the document is made of
  text,    \* the lines that were consumed, as patterns
  blocks,  \* the processor
  before,  \* its last open block before the last line
  nodes,   \* its blocks, if the document ends here
  tree     \* and what they are with their inlines

vars == <<family, text, blocks, before, nodes, tree>>

Source(pattern, no) == [k \in DOMAIN pattern |-> IF pattern[k] = "x" THEN Lower[no] ELSE pattern[k]]

\* The lines of a document.
LinesOf(patterns) ==
  LET off(k) == FoldLeft(LAMBDA n, p : n + Len(p) + 1, 0, SubSeq(patterns, 1, k - 1))
  IN [k \in DOMAIN patterns |-> Line(k, off(k), Append(Source(patterns[k], k), "eol"))]

Init == family \in Families /\ text = <<>> /\ blocks = Begun /\ before = Root
        /\ nodes = <<>> /\ tree = <<>>

ConsumeLine(pattern) ==
  /\ Len(text) < family.most
  /\ text' = Append(text, pattern)
  /\ blocks' = Consume(blocks, Last(LinesOf(text')), Hooks)
  /\ before' = Last(blocks.open)
  /\ nodes' = NodesOf(Done(blocks'))
  /\ tree' = Parsed(nodes')
  /\ UNCHANGED family

Next == \E pattern \in family.from : ConsumeLine(pattern)

Spec == Init /\ [][Next]_vars

-----------------------------------------------------------------------------
(* Documents and what is known of their nodes *)

\* The blocks of other lines.
NodesOfLines(patterns) == NodesOf(Blocks(LinesOf(patterns), Hooks))

Flat(seqs) == FoldLeft(LAMBDA all, s : all \o s, <<>>, seqs)
LettersOf(s) == SelectSeq(s, LAMBDA x : x \in Letters)

\* The document of the lines so far.
Document == Flat([k \in DOMAIN text |-> Append(Source(text[k], k), "eol")])

\* Nodes without their places.
RECURSIVE Contents(_)
Contents(ns) ==
  [k \in DOMAIN ns |->
    [type |-> ns[k].type, data |-> ns[k].data,
     text |-> [j \in DOMAIN ns[k].text |-> ns[k].text[j].s],
     children |-> Contents(ns[k].children)]]

\* Nodes without what tells tight lists from loose ones.
RECURSIVE Loosened(_)
Loosened(ns) ==
  [k \in DOMAIN ns |->
    [ns[k] EXCEPT !.type = IF @ = "text" THEN "paragraph" ELSE @,
                     !.data = IF ns[k].type = "list" THEN [@ EXCEPT !.spread = TRUE] ELSE @,
                     !.children = Loosened(@)]]

\* Nodes without their text.
RECURSIVE Shape(_)
Shape(ns) ==
  [k \in DOMAIN ns |-> [ns[k] EXCEPT !.text = Len(@), !.children = Shape(@)]]

Quoted(patterns) == [k \in DOMAIN patterns |-> <<">", " ">> \o patterns[k]]

Begins(pattern, marks) == pattern # <<>> /\ pattern[1] \in marks

HasNoTab == \A k \in DOMAIN text : Range(text[k]) \cap Tab = {}

\* The last line goes on with a paragraph that the line before left open.
IsContinuation ==
  LET last == Last(blocks.open)
  IN /\ before.kind = "paragraph" /\ last.kind = "paragraph" /\ last.at = before.at
     /\ Last(last.lines).no = Len(text)

-----------------------------------------------------------------------------
(* Properties *)

\* The words of an import.
Written(d) ==
  <<"i", "m", "p", "o", "r", "t">> \o d.default
  \o Flat([k \in DOMAIN d.names |->
            d.names[k].src \o (IF d.names[k].alias = <<>> THEN <<>> ELSE <<"a", "s">>)
            \o d.names[k].alias])
  \o (IF d.default \o Flat([k \in DOMAIN d.names |-> d.names[k].src]) = <<>> THEN <<>>
      ELSE <<"f", "r", "o", "m">>)
  \o d.module

\* The letters a node is made of, in the order of the document: those of its
\* mark, its text and its children, and of the label or the destination behind
\* them.
RECURSIVE LettersIn(_)
LettersIn(n) ==
  LET d == n.data
      bracketed == Document[n.from] \in {"[", "!"}
      within(ns) == Flat([k \in DOMAIN ns |-> LettersIn(ns[k])])
      own == CASE n.type \in {"text", "inlineCode", "inlineMath"} -> d.value
               [] n.type = "code"                                -> d.lang \o d.meta
               [] n.type = "footnoteDefinition"                  -> d.label
               [] n.type \in {"image", "imageReference"}         -> d.alt
               [] n.type = "footnoteReference"                   -> d.label
               [] n.type = "admonition"                          -> d.keyword \o within(d.title)
               [] n.type = "ecmaImport"                          -> Written(d)
               [] n.type = "html" /\ n.text = <<>> /\ d # <<>>    -> d.value
               [] OTHER                                          -> <<>>
      behind == CASE n.type \in {"link", "image"} /\ bracketed -> d.url \o d.title
                  [] n.type \in {"linkReference", "imageReference"} /\ d.type = "full" -> d.label
                  [] OTHER -> <<>>
  IN LettersOf(own \o Flat([k \in DOMAIN n.text |-> n.text[k].s]) \o within(n.children) \o behind)

\* No letter of a document is lost, doubled or moved, whatever fails and is
\* matched again, and every node, from blocks to inlines, is made of the
\* letters of the text at its place.
RECURSIVE HasItsText(_)
HasItsText(n) ==
  /\ LettersIn(n) = LettersOf(SubSeq(Document, n.from, n.to - 1))
  /\ \A k \in DOMAIN n.children : HasItsText(n.children[k])

TextInPlace ==
  text # <<>> => HasItsText(Node("root", 1, Len(Document) + 1, <<>>, <<>>, tree))

\* The children of a node are inside it, one behind the other.
RECURSIVE Holds(_, _, _)
Holds(ns, from, to) ==
  /\ \A k \in DOMAIN ns :
       /\ from <= ns[k].from /\ ns[k].from < ns[k].to /\ ns[k].to <= to
       /\ Holds(ns[k].children, ns[k].from, ns[k].to)
  /\ \A k \in 2..Len(ns) : ns[k - 1].to <= ns[k].from

ChildrenInside == text # <<>> => Holds(tree, 1, Len(Document) + 1)

\* The lines of a document without block quotes, each after a block quote
\* mark, are a block quote with the same blocks, up to the tightness of its
\* lists.
QuotesKeepBlocks ==
  (text # <<>> /\ HasNoTab /\ \A k \in DOMAIN text : ~Begins(text[k], {">"})) =>
    \E quote \in {NodesOfLines(Quoted(text))} :
      /\ Len(quote) = 1 /\ quote[1].type = "blockquote"
      /\ Loosened(Contents(quote[1].children)) = Loosened(Contents(nodes))

\* The lines of a document, the first after a list mark and the others
\* indented under it, are one item with the same blocks.
InItem(patterns) ==
  [k \in DOMAIN patterns |->
    IF k = 1 THEN <<"+", " ">> \o patterns[1]
    ELSE IF patterns[k] = <<>> THEN <<>> ELSE <<" ", " ">> \o patterns[k]]

ItemsKeepBlocks ==
  (text # <<>> /\ HasNoTab /\ text[1] # <<>> /\ ~Begins(text[1], Space)) =>
    \E lists \in {NodesOfLines(InItem(text))} :
      /\ Len(lists) = 1 /\ lists[1].type = "list" /\ Len(lists[1].children) = 1
      /\ Loosened(Contents(lists[1].children[1].children)) = Loosened(Contents(nodes))

\* The marks of a block quote may be left out of a line that goes on with
\* its paragraph, if the line would open nothing but a paragraph elsewhere.
LazyLines ==
  (/\ IsContinuation /\ HasNoTab
   /\ Openers([Begun EXCEPT !.l = LinesOf(<<Last(text)>>)[1]], Hooks) = <<>>
   /\ \A k \in DOMAIN text : ~Begins(text[k], {">"})) =>
    LET n == Len(text)
    IN Cardinality({Contents(NodesOfLines(lines)) :
                      lines \in {Quoted(text), Append(Quoted(Front(text)), text[n])}}) = 1

\* A tab is as wide as the spaces to the next tab stop.
Spaced(pattern) ==
  FoldLeft(LAMBDA s, x : CASE x = "t0"    -> s \o [k \in 1..(4 - (Len(s) % 4)) |-> " "]
                           [] x \in Tab   -> s
                           [] OTHER       -> Append(s, x),
           <<>>, pattern)

TabsCountColumns ==
  ~HasNoTab => Shape(Contents(NodesOfLines([k \in DOMAIN text |-> Spaced(text[k])]))) = Shape(Contents(nodes))

\* Nodes without what a document may say in several ways: where blank lines
\* and blanks end a block, and whether a reference repeats its label.
RECURSIVE Meant(_)
Meant(ns) ==
  LET value(n) ==
        CASE n.type = "code"           -> ValueOf(n)
          [] n.type \in {"html", "math"} -> Trimmed(TextOf(n), 1, Len(TextOf(n)) + 1)
          [] OTHER                     -> <<>>
      data(n) == CASE n.type \in {"linkReference", "imageReference"} -> [n.data EXCEPT !.type = "any"]
                   [] n.type = "admonition" -> [n.data EXCEPT !.title = Meant(@)]
                   [] OTHER -> n.data
  IN [k \in DOMAIN ns |-> [type |-> ns[k].type, data |-> data(ns[k]), text |-> value(ns[k]),
                           children |-> Meant(ns[k].children)]]

\* What the weavers keep of the text: no character of it needs a backslash but
\* those that are put back, which are backslashes, what the weaver of a node
\* around escapes, and the marks a line begins or ends with that escape_line
\* escapes.
PutBack(outer) ==
  {"backslash"} \cup UNION {EscapedBy(type) : type \in outer}
  \cup (IF "table" \in outer THEN {"|"} ELSE {})

IsPlain(s, kept) == Range(s) \cap Punctuation \subseteq kept

Unmarked(line, follows) ==
  LET first == SpanEnd(line, 1, Space)
      last == EndRun(line, "#")
      closed == IF last > 1 /\ line[last - 1] \in Space THEN SubSeq(line, 1, last - 1) ELSE line
  IN IF LineMark(line, follows)
     THEN SubSeq(closed, SpanEnd(line, first, {line[first]}), Len(closed)) ELSE closed

IsPlainText(s, follows, kept) ==
  \A lines \in {LinesAt(s)} : \A k \in DOMAIN lines :
    IsPlain(Unmarked(lines[k], follows \/ k > 1), kept)

\* The other words of a node, none of whose escapes is put back.
WordsOf(n) ==
  CASE n.type = "link"           -> n.data.url \o n.data.title
    [] n.type = "image"          -> n.data.url \o n.data.title \o n.data.alt
    [] n.type = "definition"     -> n.data.label \o n.data.url \o n.data.title
    [] n.type \in {"linkReference", "footnoteReference", "footnoteDefinition"} -> n.data.label
    [] n.type = "imageReference" -> n.data.label \o n.data.alt
    [] n.type = "inlineMath"     -> n.data.value
    [] n.type = "code"           -> n.data.lang \o n.data.meta
    [] n.type = "ecmaImport"     -> n.data.module
    [] n.type = "admonition"     -> n.data.keyword
    [] OTHER                     -> <<>>

\* Marks are chosen without a look at what is beside them.
Marked == {"emphasis", "strong", "delete", "inlineCode", "inlineMath"}
Beside(ns, k, end(_)) ==
  k \in DOMAIN ns => /\ ns[k].type \in Inlines => ns[k].type \in {"text", "break"}
                     /\ ns[k].type = "text" => end(ns[k].data.value) \in Blank

StandsApart(ns, k, outer) ==
  ns[k].type \in Marked =>
    /\ Beside(ns, k - 1, Last) /\ Beside(ns, k + 1, Head)
    /\ {k - 1, k + 1} \subseteq DOMAIN ns \/ outer \cap Marked = {}

\* A fence that is one, and that no line of the code is like.
IsFenced(n) ==
  LET markup == CodeMarkup(n).opener[1]
      run(line, i) == RunEnd(line, i, markup[1]) - i
      longest == MaxOf({run(line, SpanEnd(line, 1, Space)) : line \in Range(LinesAt(ValueOf(n)))})
  IN run(markup, 1) > Greater(longest, 2)

\* Nodes with markup that says what they are: quotes and formulas have
\* content, admonitions are in no admonition, whose marks end the outer one,
\* what is in a tight list is not run together, no list goes on with the
\* indented blank line after it, ...
HasMarkup(n, tight, outer) ==
  LET padded(s) == s # <<>> /\ s[1] = " " /\ Last(s) = " "
      trimmed(s) == Trimmed(s, 1, Len(s) + 1)
  IN /\ n.type = "blockquote" => n.children # <<>>
     /\ n.type = "code" => IsFenced(n)
     /\ n.type = "math" => trimmed(TextOf(n)) # <<>> /\ "$" \notin Range(TextOf(n))
     /\ n.type = "admonition" => "admonition" \notin outer
     /\ n.type \in {"blockquote", "admonition", "footnoteDefinition"} => ~tight \/ Len(n.children) <= 1
     /\ n.type = "list" /\ n.data.spread => outer \cap {"listItem", "footnoteDefinition"} = {}
     /\ n.type = "listItem" /\ ~tight =>
          \A k \in 1..(Len(n.children) - 1) : n.children[k].type # "list"
     /\ n.type = "list" /\ n.data.type \in {"a", "A"} => n.data.start + Len(n.children) <= 27
     /\ n.type = "tableCell" => n.children # <<>>
     /\ n.type \in {"link", "image"} /\ n.data.titled => n.data.url # <<>>
     /\ n.type = "inlineCode" => ~padded(n.data.value) /\ "|" \notin Range(n.data.value)
     /\ n.type = "inlineMath" => trimmed(n.data.value) = n.data.value
     /\ n.type = "html" => n.data = <<>>

RECURSIVE IsWeavable(_, _, _)
IsWeavable(ns, tight, outer) ==
  \A k \in DOMAIN ns :
    LET n == ns[k]
        inside == IF n.type = "list" THEN ~n.data.spread ELSE tight
    IN /\ HasMarkup(n, tight, outer)
       /\ IsPlain(WordsOf(n), {})
       /\ n.type = "text" =>
            IsPlainText(n.data.value, k > 1 /\ ns[k - 1].type = "break", PutBack(outer))
       /\ StandsApart(ns, k, outer)
       /\ n.type = "thematicBreak" => k = 1 \/ ns[k - 1].type \notin Inlines
       /\ IsWeavable(n.children, inside, outer \cup {n.type})
       /\ n.type = "admonition" => IsWeavable(n.data.title, inside, outer \cup {n.type})

\* The markup of the nodes of a document is a document of the same nodes, if
\* the escapes their text needs are those that TextWeaver, escape_line and the
\* escapers of the nodes around it put back.
WeavingKeepsNodes ==
  IsWeavable(tree, FALSE, {}) =>
    \E markup \in {Weave(Document, tree)} : Meant(Parse(markup)) = Meant(tree)
=============================================================================
