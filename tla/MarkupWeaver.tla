---------------------------- MODULE MarkupWeaver ----------------------------
(* The markup weaver: a document of the nodes of a tree.  Every node has    *)
(* markup, an opener and a closer around its content or its children; what  *)
(* is optional is a sequence of at most one.  The path of a node is its     *)
(* ancestors, and the root has the text its children were parsed from.      *)
EXTENDS Documents

Repeated(x, n) == [k \in 1..n |-> x]

\* split_lines
LinesAt(s) ==
  FoldLeft(LAMBDA lines, x : IF x = "eol" THEN Append(lines, <<>>)
                             ELSE Append(Front(lines), Append(Last(lines), x)),
           <<<<>>>>, s)

Joined(parts, between) ==
  FoldLeft(LAMBDA all, k : IF k = 1 THEN parts[1] ELSE all \o between \o parts[k],
           <<>>, [k \in DOMAIN parts |-> k])

-----------------------------------------------------------------------------
(* Escaping *)

\* create_character_escaper: a backslash before the characters of xs, unless
\* one is there.
EscapedIn(s, xs) ==
  FoldLeft(LAMBDA w, x :
             [s |-> w.s \o (IF x \in xs /\ ~w.odd THEN <<"backslash">> ELSE <<>>) \o <<x>>,
              odd |-> x = "backslash" /\ ~w.odd],
           [s |-> <<>>, odd |-> FALSE], s).s

\* Whether what a line begins with would open a block: a quote, a heading, or
\* behind the end of a line an item or a break.
LineMark(s, follows) ==
  LET first == SpanEnd(s, 1, Space)
      rest == SubSeq(s, first, Len(s))
      hashes == SpanEnd(rest, 1, {"#"}) - 1
      full == SubSeq(s, first, TrimEnd(s, first, Len(s) + 1) - 1)
      marks == SelectSeq(rest, LAMBDA x : x \notin Space)
  IN \/ rest # <<>> /\ rest[1] = ">"
     \/ hashes \in 1..6 /\ (hashes = Len(rest) \/ rest[hashes + 1] \in Space)
     \/ Len(full) >= 3 /\ Range(full) = {"="}
     \/ /\ follows
        /\ \/ Len(rest) >= 3 /\ rest[1] \in {"-", "*", "+"} /\ rest[2] \in Space
           \/ /\ Len(marks) >= 3 /\ Cardinality(Range(marks)) = 1
              /\ Range(marks) \subseteq {"-", "_", "*"}

\* Where the characters at the end of a text begin that are all x.
EndRun(s, x) == MinOf({p \in 1..(Len(s) + 1) : \A q \in p..Len(s) : s[q] = x})

WithBackslash(s, p) == SubSeq(s, 1, p - 1) \o <<"backslash">> \o SubSeq(s, p, Len(s))

\* escape_line: also before the hashes that would close a heading.
EscapedLine(s, follows) ==
  LET closed(line, p) ==
        IF p \in 2..Len(line) /\ line[p - 1] \in Space THEN WithBackslash(line, p) ELSE line
      opened(line) == closed(line, EndRun(line, "#"))
  IN opened(IF LineMark(s, follows) THEN WithBackslash(s, SpanEnd(s, 1, Space)) ELSE s)

\* A mutant of EscapedLines that takes every line for a first one.
EscapedFirstLines(s) ==
  Joined([k \in DOMAIN LinesAt(s) |-> EscapedLine(LinesAt(s)[k], FALSE)], <<"eol">>)

\* escape_content: a backslash at the end is escaped, too.
EscapedLines(s) ==
  LET ended(whole) ==
        IF (Len(whole) + 1 - EndRun(whole, "backslash")) % 2 = 1
        THEN Append(whole, "backslash") ELSE whole
      joined(lines) ==
        ended(Joined([k \in DOMAIN lines |-> EscapedLine(lines[k], k > 1)], <<"eol">>))
  IN joined(LinesAt(s))

\* escape_content of the weavers that have one
EscapedBy(type) ==
  CASE type \in {"link", "linkReference", "image"} -> {"[", "]", "(", ")", "tick"}
    [] type = "definition" -> {"[", "]", "(", ")"}
    [] type = "emphasis"   -> {"*", "_"}
    [] type = "strong"     -> {"*"}
    [] OTHER               -> {}

\* enqueue and dequeue: the types whose escapers are in use inside a node.
Escaping(types, type) ==
  IF EscapedBy(type) = {} \/ type \in Range(types) THEN types ELSE Append(types, type)

\* escape_content: the escaper of the root is the last.
Escaped(s, types) ==
  EscapedLines(FoldRight(LAMBDA type, w : EscapedIn(w, EscapedBy(type)), types, s))

-----------------------------------------------------------------------------
(* Places *)

LineOf(path, place) ==
  1 + Cardinality({p \in 1..(place - 1) : path[1].text[p] = "eol"})

\* calc_last_source_line; the end of a node is on the line of its last
\* character.
FirstLine(n, path) == LineOf(path, n.from)
LastLine(n, path) == LineOf(path, n.to - 1)

\* HtmlWeaver::is_block_level: in blocks, when nothing else is on its lines.
IsHtmlBlock(n, path, k) ==
  LET siblings == Last(path).children
  IN /\ \A j \in DOMAIN path : path[j].type # "paragraph"
     /\ k > 1 => LastLine(siblings[k - 1], path) # FirstLine(n, path)
     /\ k < Len(siblings) => LastLine(n, path) # FirstLine(siblings[k + 1], path)

Inlines ==
  {"text", "emphasis", "strong", "delete", "break", "link", "linkReference", "image",
   "imageReference", "inlineCode", "inlineMath", "footnote", "footnoteReference"}

IsBlockLevel(n, path, k) ==
  n.type \notin Inlines /\ (n.type = "html" => IsHtmlBlock(n, path, k))

-----------------------------------------------------------------------------
(* The markup of nodes *)

Markup(opener, closer) ==
  [opener |-> opener, closer |-> closer, indent |-> <<>>, content |-> <<>>, spread |-> <<>>]
Wrapped(opener, closer) == Markup(<<opener>>, <<closer>>)
Bare == Markup(<<>>, <<>>)
Verbatim(s) == Markup(<<s>>, <<>>)
Around(opener, s, closer) == [Wrapped(opener, closer) EXCEPT !.content = <<s>>]
Indented(opener, indent) == [Verbatim(opener) EXCEPT !.indent = <<indent>>]

\* find_max_continuous_symbol
LongestRun(s, x) ==
  MaxOf({0} \cup {n \in 1..Len(s) : \E p \in 1..(Len(s) + 1 - n) :
                                       \A q \in p..(p + n - 1) : s[q] = x})

RECURSIVE Numeral(_)
Numeral(n) == IF n < 10 THEN <<Digits[n + 1]>> ELSE Append(Numeral(n \div 10), Digits[(n % 10) + 1])

\* The value of a node of lines; parse hooks end that of code and formulas.
TextOf(n) == FlattenSeq([k \in DOMAIN n.text |-> n.text[k].s])
ValueOf(n) ==
  LET s == TextOf(n) IN IF s # <<>> /\ Last(s) = "eol" THEN s ELSE Append(s, "eol")

CodeMarkup(n) ==
  LET info == n.data.lang \o (IF n.data.lang = <<>> \/ n.data.meta = <<>> THEN <<>>
                              ELSE <<" ">> \o n.data.meta)
      marker == IF "tick" \in Range(info) THEN "~" ELSE "tick"
      longest == MaxOf({RunEnd(line, 1, marker) - 1 : line \in Range(LinesAt(ValueOf(n)))})
      fence == Repeated(marker, IF longest = 0 THEN 3 ELSE longest + 1)
  IN Verbatim(fence \o info \o <<"eol">> \o ValueOf(n) \o fence)

MathMarkup(n) ==
  LET between(value, longest) ==
        IF "eol" \in Range(value) THEN <<"eol">> ELSE IF longest = 0 THEN <<>> ELSE <<" ">>
      fenced(fence, space, value) == Verbatim(fence \o space \o value \o space \o fence)
      marked(value, longest) ==
        fenced(Repeated("$", IF longest = 0 THEN 2 ELSE longest + 1), between(value, longest), value)
      trimmed(value) == marked(value, LongestRun(value, "$"))
  IN trimmed(Trimmed(ValueOf(n), 1, Len(ValueOf(n)) + 1))

\* A heading of several lines is underlined.
HeadingMarkup(n, path) ==
  IF n.data.depth <= 2 /\ FirstLine(n, path) # LastLine(n, path)
  THEN Markup(<<>>, <<<<"eol">> \o Repeated(IF n.data.depth = 1 THEN "=" ELSE "-", 3)>>)
  ELSE Verbatim(Append(Repeated("#", n.data.depth), " "))

TaskMark(status) ==
  CASE status = "todo"  -> <<"[", " ", "]", " ">>
    [] status = "doing" -> <<"[", "-", "]", " ">>
    [] status = "done"  -> <<"[", "x", "]", " ">>
    [] OTHER            -> <<>>

\* The items of an ordered list count on from its start; letters end with z.
ItemMarkup(n, list, k) ==
  LET order == list.start + k - 1
      letter(xs) == <<xs[Lesser(Greater(order, 1), 26)]>>
      value == CASE list.type = "none" -> <<>>
                 [] list.type = "1"    -> Numeral(order)
                 [] list.type = "a"    -> letter(Lower)
                 [] list.type = "A"    -> letter(Upper)
      mark == value \o <<list.mark, " ">>
  IN Indented(mark \o TaskMark(n.data.task), Repeated(" ", Len(mark)))

\* A break between items must not look like another item.
BreakMark(path) ==
  IF /\ Len(path) >= 2 /\ Last(path).type = "listItem"
     /\ path[Len(path) - 1].type = "list" /\ path[Len(path) - 1].data.mark = "-"
  THEN Repeated("*", 4) ELSE Repeated("-", 3)

ImportMarkup(d) ==
  LET name(x) == x.src \o (IF x.alias = <<>> THEN <<>> ELSE <<" ", "a", "s", " ">> \o x.alias)
      named == IF d.names = <<>> THEN <<>>
               ELSE <<<<"{", " ">> \o Joined([k \in DOMAIN d.names |-> name(d.names[k])], <<",", " ">>)
                        \o <<" ", "}">>>>
      imports == Joined((IF d.default = <<>> THEN <<>> ELSE <<d.default>>) \o named, <<",", " ">>)
  IN Verbatim(<<"i", "m", "p", "o", "r", "t", " ">>
              \o (IF imports = <<>> THEN <<>> ELSE imports \o <<" ", "f", "r", "o", "m", " ">>)
              \o <<"quote">> \o d.module \o <<"quote", ";">>)

Titled(d, xs) ==
  IF ~d.titled THEN <<>> ELSE <<" ", "quote">> \o EscapedIn(d.title, xs) \o <<"quote">>

DefinitionMarkup(d) ==
  Around(<<"[">>, d.label,
         <<"]", ":", " ">> \o (IF d.url = <<>> THEN <<"<", ">">> ELSE d.url)
           \o Titled(d, {"quote"}))

Angled(url) == IF Range(url) \cap {"(", ")"} = {} THEN url ELSE <<"<">> \o url \o <<">">>
Resource(url, d) ==
  <<"]", "(">> \o url \o Titled(d, {"quote", "tick"}) \o <<")">>

\* Links whose text is their address: those of protocols are their address,
\* the others keep its parentheses.
LinkMarkup(n) ==
  LET url == n.data.url
      bare == ~n.data.titled /\ Len(n.children) = 1 /\ n.children[1].type = "text"
      value == IF bare THEN n.children[1].data.value ELSE <<>>
      bracketed(x) == IF x = "]" THEN <<"%", "5", "D">> ELSE <<x>>
      guarded(x) == IF x \in {"(", ")"} THEN <<"backslash", x>> ELSE <<x>>
      each(f(_), s) == FlattenSeq([k \in DOMAIN s |-> f(s[k])])
  IN IF bare /\ value = url /\ \E word \in {Inline!Mailto, <<"x", "m", "p", "p", ":">>} : HasAt(url, 1, word)
     THEN Around(<<>>, url, <<>>)
     ELSE Wrapped(<<"[">>, Resource(IF bare /\ each(bracketed, value) = url
                                   THEN each(guarded, url) ELSE Angled(url), n.data))

ImageMarkup(d) == Around(<<"!", "[">>, d.alt, Resource(Angled(d.url), d))
ImageReferenceMarkup(d) ==
  Around(<<"!", "[">>, EscapedIn(d.alt, {"[", "]", "(", ")", "tick"}),
         IF d.alt = d.label THEN <<"]", "[", "]">> ELSE <<"]", "[">> \o d.label \o <<"]">>)
LinkReferenceMarkup(content, d) ==
  Wrapped(<<"[">>, IF content = d.label THEN <<"]", "[", "]">> ELSE <<"]", "[">> \o d.label \o <<"]">>)

\* Emphasis directly inside emphasis has the other mark.
EmphasisMark(path) ==
  LET outside == {j \in DOMAIN path : path[j].type # "emphasis"}
  IN IF (Len(path) - MaxOf({0} \cup outside)) % 2 = 0 THEN "*" ELSE "_"

BreakMarkup(n, path, k) ==
  LET siblings == Last(path).children
      next == IF k < Len(siblings) /\ siblings[k] = n THEN <<siblings[k + 1]>> ELSE <<>>
  IN IF \E x \in Range(next) : x.type = "text" /\ x.data.value # <<>> /\ x.data.value[1] = "eol"
     THEN Verbatim(<<"backslash">>) ELSE Verbatim(<<"backslash", "eol">>)

InlineCodeMarkup(s) ==
  LET longest == LongestRun(s, "tick")
      marks == Repeated("tick", longest + 1)
  IN IF longest = 0 THEN Verbatim(<<"tick">> \o s \o <<"tick">>)
     ELSE Verbatim(marks \o <<" ">> \o s \o <<" ">> \o marks)

\* A backslash that would escape what follows is doubled.
TextMarkup(s) ==
  [Bare EXCEPT !.content =
    <<FlattenSeq([k \in DOMAIN s |->
        IF s[k] = "backslash" /\ (k = Len(s) \/ s[k + 1] \in Punctuation \cup {"eol"})
        THEN <<"backslash", "backslash">> ELSE <<s[k]>>])>>]

\* TableWeaver: the columns are as wide as their cells, and odd.
TableMarkup(rows, columns) ==
  LET count == Len(columns)
      odd(w) == Greater(3, IF w % 2 = 0 THEN w + 1 ELSE w)
      width(c) == odd(MaxOf({Len(rows[r][c]) : r \in DOMAIN rows}))
      padded(s, w) == s \o Repeated(" ", Greater(w - Len(s), 0))
      dashes(c, w) ==
        LET side(is) == IF is THEN <<":">> ELSE <<>>
            ends == side(columns[c].left) \o side(columns[c].right)
        IN side(columns[c].left) \o Repeated("-", Greater(w - Len(ends), 0)) \o side(columns[c].right)
      row(r) == Joined([c \in 1..count |-> IF c = count THEN rows[r][c]
                                           ELSE padded(rows[r][c], width(c))], <<" ", "|", " ">>)
      rule == Joined([c \in 1..count |-> dashes(c, width(c) + (IF c > 1 THEN 1 ELSE 0) + 1)], <<"|">>)
      single(r) == <<"|", " ">> \o padded(rows[r][1], width(1)) \o <<" ", "|">>
      one == count = 1
      lines == <<IF one THEN single(1) ELSE row(1),
                 IF one THEN <<"|">> \o dashes(1, width(1) + 2) \o <<"|">> ELSE rule>>
      body == [r \in 1..(Len(rows) - 1) |-> IF one THEN single(r + 1) ELSE row(r + 1)]
  IN [Verbatim(Joined(lines \o <<Joined(body, <<"eol">>)>>, <<"eol">>)) EXCEPT !.content = <<<<>>>>]

InlineMathMarkup(s) == Verbatim(<<"$">> \o Trimmed(s, 1, Len(s) + 1) \o <<"$">>)

AdmonitionMarkup(keyword, title) ==
  Wrapped(<<":", ":", ":">> \o keyword
            \o (IF title = <<>> THEN <<>> ELSE <<" ">> \o title) \o <<"eol">>,
          <<"eol", ":", ":", ":">>)

FootnoteDefinitionMarkup(d) ==
  Indented(<<"[", "^">> \o d.label \o <<"]", ":", " ">>, Repeated(" ", 4))

RECURSIVE InlineWoven(_, _, _), MarkupOf(_, _, _, _)

\* weave of the node weavers, for the k-th child of the last of a path.
MarkupOf(n, path, k, types) ==
  CASE n.type = "text"       -> TextMarkup(n.data.value)
    [] n.type = "emphasis"   -> Wrapped(<<EmphasisMark(path)>>, <<EmphasisMark(path)>>)
    [] n.type = "strong"     -> Wrapped(<<"*", "*">>, <<"*", "*">>)
    [] n.type = "delete"     -> Wrapped(<<"~", "~">>, <<"~", "~">>)
    [] n.type = "break"      -> BreakMarkup(n, path, k)
    [] n.type = "link"       -> LinkMarkup(n)
    [] n.type = "image"      -> ImageMarkup(n.data)
    [] n.type = "linkReference" -> LinkReferenceMarkup(InlineWoven(n.children, path, types), n.data)
    [] n.type = "imageReference" -> ImageReferenceMarkup(n.data)
    [] n.type = "inlineCode" -> InlineCodeMarkup(n.data.value)
    [] n.type = "inlineMath" -> InlineMathMarkup(n.data.value)
    [] n.type = "footnote"   -> Wrapped(<<"^", "[">>, <<"]">>)
    [] n.type = "footnoteReference" -> Around(<<"[", "^">>, n.data.label, <<"]">>)
    [] n.type = "html"       ->
         Verbatim(IF n.data = <<>> THEN TextOf(n) ELSE n.data.value)
    [] n.type = "paragraph"  -> Bare
    [] n.type = "heading"    -> HeadingMarkup(n, path)
    [] n.type = "thematicBreak" -> Verbatim(BreakMark(path))
    [] n.type = "code"       -> CodeMarkup(n)
    [] n.type = "math"       -> MathMarkup(n)
    [] n.type = "table"      ->
         LET cell(x) == EscapedIn(InlineWoven(x.children, path, types), {"|"})
             cells(x) == [c \in DOMAIN x.children |-> cell(x.children[c])]
         IN TableMarkup([r \in DOMAIN n.children |-> cells(n.children[r])], n.data.columns)
    [] n.type = "definition" -> DefinitionMarkup(n.data)
    [] n.type = "ecmaImport" -> ImportMarkup(n.data)
    [] n.type = "blockquote" -> Indented(<<">", " ">>, <<">", " ">>)
    [] n.type = "admonition" ->
         AdmonitionMarkup(n.data.keyword, InlineWoven(n.data.title, path, types))
    [] n.type = "list"       -> [Bare EXCEPT !.spread = <<n.data.spread>>]
    [] n.type = "listItem"   -> ItemMarkup(n, Last(path).data, k)
    [] n.type = "footnoteDefinition" -> FootnoteDefinitionMarkup(n.data)

\* weave_inline_nodes
InlineWoven(nodes, path, types) ==
  LET written(n, markup, inside) ==
        FlattenSeq(markup.opener)
        \o (IF markup.content # <<>> THEN Escaped(markup.content[1], inside)
            ELSE InlineWoven(n.children, Append(path, n), inside))
        \o FlattenSeq(markup.closer)
      woven(k, inside) == written(nodes[k], MarkupOf(nodes[k], path, k, inside), inside)
  IN FlattenSeq([k \in DOMAIN nodes |-> woven(k, Escaping(types, nodes[k].type))])

-----------------------------------------------------------------------------
(* The output: its lines, and whether it was left at the start of one.      *)

Write(out, s, indent) ==
  LET parts == LinesAt(s)
  IN [lines |-> Front(out.lines) \o <<Last(out.lines) \o parts[1]>>
                \o [k \in 1..(Len(parts) - 1) |-> indent \o parts[k + 1]],
      start |-> Len(parts) > 1 /\ Last(parts) = <<>>]

WriteLine(out, s) == [out EXCEPT !.lines = Append(@, s)]

\* The content of a node; at the start of a line it is escaped as one that
\* follows the end of a line.
WriteContent(out, s, types, indent) ==
  IF out.start /\ Last(out.lines) = indent
  THEN Write(out, Tail(Escaped(<<"eol">> \o s, types)), indent)
  ELSE Write(out, Escaped(s, types), indent)

\* Between blocks: a new line, and a blank one unless the list is tight.
Separate(out, parent, indent) ==
  LET ended == IF Last(out.lines) \in {indent, parent.indent}
               THEN Append(Front(out.lines), parent.indent)
               ELSE Append(out.lines, parent.indent)
  IN [lines |-> IF parent.spread THEN Append(ended, parent.indent) ELSE ended, start |-> FALSE]

RECURSIVE WriteNode(_, _, _)

\* The children of a node, blocks on lines of their own.
WriteChildren(out, inside) ==
  LET block(k) == IsBlockLevel(inside.children[k], inside.path, k)
      apart(w, k) ==
        IF k > 1 /\ block(k) /\ ~block(k - 1) THEN WriteLine(w, inside.indent) ELSE w
  IN FoldLeft(LAMBDA w, k : WriteNode(apart(w, k), inside, k), out,
              [k \in DOMAIN inside.children |-> k])

WriteMarkup(out, markup, inside) ==
  LET write(w, s) == Write(w, s, inside.indent)
      filled(w) == IF markup.content = <<>> THEN WriteChildren(w, inside)
                   ELSE WriteContent(w, markup.content[1], inside.types, inside.indent)
  IN FoldLeft(write, filled(FoldLeft(write, out, markup.opener)), markup.closer)

\* MarkupToken: what the children of a node are written with.
Inside(parent, n, markup, types) ==
  [children |-> n.children, indent |-> parent.indent \o FlattenSeq(markup.indent),
   spread |-> IF markup.spread = <<>> THEN parent.spread ELSE markup.spread[1],
   types |-> types, path |-> Append(parent.path, n)]

\* process_node, for the k-th child of a parent.
WriteNode(out, parent, k) ==
  LET n == parent.children[k]
      ended(w, indent) ==
        IF IsBlockLevel(n, parent.path, k) /\ k < Len(parent.children)
        THEN Separate(w, parent, indent) ELSE w
      written(markup, inside) == ended(WriteMarkup(out, markup, inside), inside.indent)
      marked(markup, types) == written(markup, Inside(parent, n, markup, types))
      woven(types) == marked(MarkupOf(n, parent.path, k, types), types)
  IN woven(Escaping(parent.types, n.type))

\* weave
Weave(t, nodes) ==
  LET root == [type |-> "root", text |-> t, children |-> nodes]
      whole == [children |-> nodes, indent |-> <<>>, types |-> <<>>, spread |-> TRUE,
                path |-> <<root>>]
  IN Joined(FoldLeft(LAMBDA out, k : WriteNode(out, whole, k), [lines |-> <<<<>>>>, start |-> FALSE],
                     [k \in DOMAIN nodes |-> k]).lines, <<"eol">>)
=============================================================================
