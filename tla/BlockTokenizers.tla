-------------------------- MODULE BlockTokenizers --------------------------
(* What the built-in block tokenizers answer the block processor: which    *)
(* lines open a block, interrupt the block before them, continue it, also   *)
(* lazily, or show that it failed.                                          *)
(*                                                                          *)
(* A line has its number (no), the place in the document before it (off),   *)
(* its characters (s) with the columns before each, where what is left of   *)
(* it begins (from) and where that is not blank (first), and the spaces it  *)
(* was once found to have before that (spaces).                             *)
(* A tab is four characters, as in the code, of which those count that      *)
(* reach the next tab stop.                                                 *)
EXTENDS Characters

CONSTANTS
  RawTags,   \* c1.rs: the tags whose content ends with their closing tag
  BlockTags, \* c6.rs: the tags that end with a blank line
  MaxLabel   \* MAX_COLLECTED_LINK_LABEL_LENGTH; footnotes have one less

-----------------------------------------------------------------------------
(* Lines *)

\* A mutant of Columns for which every tab is four columns wide.
ColumnsOfWideTabs(s) == [i \in 1..(Len(s) + 1) |-> i - 1]

\* calc_indent_width: the columns before each character, and after the last.
Columns(s) ==
  LET before(cols, k) == cols[Len(cols) - k]
      width(cols, x) ==
        CASE x = "t1" -> IF before(cols, 1) % 4 <= 1 THEN 1 ELSE 0
          [] x = "t2" -> IF before(cols, 2) % 4 <= 2 THEN 1 ELSE 0
          [] x = "t0" -> IF before(cols, 0) % 4 = 0 THEN 1 ELSE 0
          [] OTHER    -> 1
  IN FoldLeft(LAMBDA cols, x : Append(cols, Last(cols) + width(cols, x)), <<0>>, s)

SkipSpaces(s, i) == SpanEnd(s, i, Space)

\* eat_optional_characters
RunEnd(s, i, x) == MinOf({p \in i..(Len(s) + 1) : p > Len(s) \/ s[p] # x})

\* What is left of a line once the characters before next are eaten; the
\* move_forward of consume keeps everything when nothing was eaten.
Advance(l, next) ==
  LET first == SkipBlanks(l.s, next)
  IN IF next = l.from THEN l
     ELSE [l EXCEPT !.from = next, !.first = first,
                    !.spaces = Cardinality({p \in next..(first - 1) : l.s[p] \in Space})]

Line(no, off, s) ==
  Advance([no |-> no, off |-> off, s |-> s, cols |-> Columns(s), from |-> 0, first |-> 0,
           spaces |-> 0], 1)

End(l) == Len(l.s) + 1
IsBlank(l) == l.first >= End(l)
Rest(l) == SubSeq(l.s, l.first, Len(l.s))

\* A piece of a line: its characters (s) and the place of the first in the
\* document (at).
Piece(l, i, e) == [s |-> SubSeq(l.s, i, e - 1), at |-> l.off + i]

\* A piece without the blanks at both ends.
Stripped(l, i, e) ==
  LET from == Lesser(SkipBlanks(l.s, i), e) IN Piece(l, from, TrimEnd(l.s, from, e))

\* The width of the spaces in <i, j).
Width(l, i, j) ==
  LET spaces == MinOf({p \in i..j : p = j \/ l.s[p] \notin Space}) IN l.cols[spaces] - l.cols[i]

Indent(l) == Width(l, l.from, l.first)

\* eat_indentation of n columns in <i, e): where they end, or nothing.  They
\* end before a tab that follows, also before those of its characters that
\* count nothing: the code looks at what remains before it enters the tab.
Eaten(l, i, e, n) == {p \in i..e : l.cols[p] - l.cols[i] = n}

\* The line after n columns of indentation; its spaces are not counted again.
Outdented(l, e, n) ==
  [l EXCEPT !.from = IF Eaten(l, l.from, e, n) = {} THEN e ELSE MinOf(Eaten(l, l.from, e, n))]

-----------------------------------------------------------------------------
(* Answers.  An opener is an empty sequence or one answer: a token, where   *)
(* what is left of the line begins, and whether the block ends right away.  *)

\* calc_end_point: the place after the last character before next, and the
\* line after that character, which may be the end of the line before l.
EndPoint(l, next) == [place |-> l.off + next, past |-> IF next > 1 THEN l.no + 1 ELSE l.no]

LineEnd(l) == EndPoint(l, End(l))

\* A token of its line up to next: its first line (at), where it begins and
\* ends.
Segment(kind, l, next, data, lines) ==
  [kind |-> kind, at |-> l.no, from |-> l.off + l.from, end |-> EndPoint(l, next),
   data |-> data, lines |-> lines, children |-> <<>>]

\* calc_line_position
Token(kind, l, data, lines) == Segment(kind, l, End(l), data, lines)

Opens(token, next) == <<[token |-> token, next |-> next, saturated |-> FALSE]>>
Fills(token, l) == <<[token |-> token, next |-> End(l), saturated |-> TRUE]>>

\* EatContinuationTextResult
Opening(token, next) == [reply |-> "opening", token |-> token, next |-> next, back |-> <<>>]
Closing(token, next) == [reply |-> "closing", token |-> token, next |-> next, back |-> <<>>]
NotMatched(token) == [reply |-> "notMatched", token |-> token, next |-> 0, back |-> <<>>]
Failed(token) == [reply |-> "failed", token |-> token, next |-> 0, back |-> token.lines]
ClosingAndRollback(token, back) ==
  [reply |-> "rollback", token |-> token, next |-> 0, back |-> back]

\* The end of a token that goes on is set by the processor.
WithLine(token, l) == [token EXCEPT !.lines = Append(@, l)]

-----------------------------------------------------------------------------
(* Blocks of one line *)

ThematicBreak(l) ==
  LET marks == SelectSeq(Rest(l), LAMBDA x : x \notin Blank)
  IN IF Indent(l) < 4 /\ Len(marks) >= 3 /\ \E m \in {"-", "_", "*"} : Range(marks) = {m}
     THEN Fills(Token("thematicBreak", l, <<>>, <<>>), l) ELSE <<>>

Heading(l) ==
  LET i == RunEnd(l.s, l.first, "#")
      depth == i - l.first
  IN IF /\ Indent(l) < 4 /\ depth \in 1..6
        /\ i < End(l) => l.s[i] \in Blank
     THEN Fills(Token("heading", l, depth, <<l>>), l) ELSE <<>>

\* The setext heading interrupts the paragraph that becomes its text.
SetextHeading(l, sibling) ==
  LET marks == Trimmed(l.s, l.first, End(l))
  IN IF /\ Indent(l) < 4 /\ sibling.kind = "paragraph"
        /\ \E m \in {"=", "-"} : marks # <<>> /\ Range(marks) = {m}
     THEN <<[token |-> [Token("setextHeading", sibling.lines[1],
                              IF marks[1] = "=" THEN 1 ELSE 2, sibling.lines)
                          EXCEPT !.end = LineEnd(l)],
             next |-> End(l), saturated |-> TRUE, remaining |-> <<>>]>>
     ELSE <<>>

Paragraph(l) ==
  IF IsBlank(l) THEN <<>> ELSE Opens(Token("paragraph", l, <<>>, <<l>>), End(l))

ContinueParagraph(l, token) ==
  IF IsBlank(l) THEN NotMatched(token) ELSE Opening(WithLine(token, l), End(l))

-----------------------------------------------------------------------------
(* Indented and fenced blocks *)

\* A line of blanks only opens a block as well.
IndentedCode(l) ==
  IF Indent(l) < 4 THEN <<>>
  ELSE Opens(Token("indentedCode", l, <<>>, <<Outdented(l, l.first, 4)>>), End(l))

ContinueIndentedCode(l, token) ==
  IF IsBlank(l)
  THEN Opening(WithLine(token, [l EXCEPT !.from = Lesser(End(l) - 1, l.from + 4)]), End(l))
  ELSE IF Indent(l) < 4 THEN NotMatched(token)
  ELSE Opening(WithLine(token, Outdented(l, l.first, 4)), End(l))

\* FencedBlockTokenData, of the kinds of fences: their marks and how many.
Fence(l, kind, marks, required) ==
  LET s == l.s
      i == RunEnd(s, l.first, s[l.first])
      info == Stripped(l, i, End(l))
  IN IF \/ Indent(l) >= 4 \/ IsBlank(l) \/ s[l.first] \notin marks
        \/ i - l.first < required
        \/ s[l.first] = "tick" /\ "tick" \in Range(info.s)
     THEN <<>>
     ELSE Opens(Token(kind, l, [mark |-> s[l.first], count |-> i - l.first,
                                indent |-> Indent(l), info |-> info], <<>>), End(l))

FencedCode(l) == Fence(l, "fencedCode", {"tick", "~"}, 3)
Admonition(l) == Fence(l, "admonition", {":"}, 3)

\* A formula may be on the line of its fence, between fences of one length.
Math(l) ==
  LET closed(token, info, i) ==
        IF Len(info) + 1 - i # token.data.count THEN <<>>
        ELSE Fills([token EXCEPT !.lines = <<Line(l.no, l.off, SubSeq(info, 1, i - 1))>>,
                                 !.data.info.s = <<>>], l)
      opened(token, info) ==
        closed(token, info,
               MinOf({p \in 1..(Len(info) + 1) : \A q \in p..Len(info) : info[q] = "$"}))
      fenced(fence) ==
        IF fence = <<>> \/ fence[1].token.data.info.s = <<>> THEN fence
        ELSE opened(fence[1].token, fence[1].token.data.info.s)
  IN fenced(Fence(l, "math", {"$"}, 2))

ContinueFence(l, token) ==
  LET i == RunEnd(l.s, l.first, token.data.mark)
      j == SkipSpaces(l.s, i)
  IN IF /\ Indent(l) < 4 /\ ~IsBlank(l)
        /\ i - l.first >= token.data.count
        /\ j >= End(l) \/ l.s[j] = "eol"
     THEN Closing(token, End(l))
     ELSE Opening(WithLine(token, Outdented(l, Lesser(l.first, End(l) - 1), token.data.indent)),
                  End(l))

-----------------------------------------------------------------------------
(* Containers *)

\* A mutant of QuoteMarkEnd that leaves the blank behind the mark.
QuoteMarkOnly(l) == l.first + 1

\* The end of a ">" and of the column after it.
QuoteMarkEnd(l) ==
  LET i == l.first + 1
  IN IF i < End(l) /\ l.s[i] \in Space THEN MinOf(Eaten(l, i, End(l), 1)) ELSE i

IsQuoted(l) == Indent(l) < 4 /\ ~IsBlank(l) /\ l.s[l.first] = ">"

Blockquote(l) ==
  IF IsQuoted(l)
  THEN Opens(Segment("blockquote", l, QuoteMarkEnd(l), <<>>, <<>>), QuoteMarkEnd(l)) ELSE <<>>

\* Inside a blockquote, a blockquote goes on without its mark.
ContinueBlockquote(l, token, parent) ==
  IF IsQuoted(l) THEN Opening(token, QuoteMarkEnd(l))
  ELSE IF parent = "blockquote" THEN Opening(token, l.from) ELSE NotMatched(token)

\* eat_task_status: what a task mark says, and where the blanks after it end.
Task(s, next) ==
  LET k == SkipSpaces(s, next)
      status(x) == CASE x = " " -> "todo" [] x = "-" -> "doing" [] OTHER -> "done"
  IN IF /\ k + 3 <= Len(s) /\ s[k] = "[" /\ s[k + 2] = "]" /\ s[k + 3] \in Blank
        /\ s[k + 1] \in {" ", "-", "x", "X"}
     THEN [status |-> status(s[k + 1]), next |-> SkipBlanks(s, k + 3)]
     ELSE [status |-> "none", next |-> next]

\* The mark of an ordered item: where it ends, or 0.
OrderEnd(l) ==
  LET s == l.s
      c == s[l.first]
      j == IF c \in Range(Digits)
           THEN MinOf({p \in l.first..End(l) : p = End(l) \/ s[p] \notin Range(Digits)})
           ELSE l.first + 1
  IN IF /\ c \in Range(Digits) \cup Letters
        /\ j - l.first <= 9 /\ j < End(l) /\ s[j] \in {".", ")"}
     THEN j + 1 ELSE 0

\* order and order_type of the mark that ends at i.
Order(l, i) ==
  LET c == l.s[l.first]
      place(x, xs) == CHOOSE k \in DOMAIN xs : xs[k] = x
  IN IF c \in Range(Lower) THEN [type |-> "a", value |-> place(c, Lower)]
     ELSE IF c \in Range(Upper) THEN [type |-> "A", value |-> place(c, Upper)]
     ELSE [type |-> "1",
           value |-> FoldLeft(LAMBDA v, x : v * 10 + place(x, Digits) - 1, 0,
                              SubSeq(l.s, l.first, i - 2))]

\* The text of an item whose mark ends at i and whose spaces end at sep:
\* where it begins, whether nothing is on its line and how far it is indented
\* from the mark.
ItemText(l, i, sep) ==
  LET one == MinOf(Eaten(l, i, sep, 1))
      spaced(width) ==
        IF width > 4 THEN [next |-> one, hollow |-> FALSE, width |-> 1]
        ELSE IF sep >= End(l) \/ l.s[sep] # "eol"
        THEN [next |-> sep, hollow |-> FALSE, width |-> width]
        ELSE [next |-> IF sep > i THEN one ELSE sep + 1, hollow |-> TRUE, width |-> 1]
  IN spaced(Width(l, i, sep))

\* parse_list_opener
ListItem(l) ==
  LET s == l.s
      opened(i, order, text, task) ==
        Opens(Segment("listItem", l, task.next,
                [mark |-> s[i - 1], type |-> order.type, order |-> order.value,
                 task |-> task.status, hollow |-> text.hollow,
                 empty |-> SkipBlanks(s, text.next) >= End(l),
                 indent |-> Indent(l) + (i - l.first) + text.width], <<>>),
              task.next)
      begun(i, order, text) == opened(i, order, text, Task(s, text.next))
      marked(i, order, sep) ==
        IF sep = i /\ sep < End(l) /\ s[sep] # "eol" THEN <<>>
        ELSE begun(i, order, ItemText(l, i, sep))
      ordered(i) == marked(i, Order(l, i), SkipSpaces(s, i))
      bullet(i) == marked(i, [type |-> "none", value |-> 0], SkipSpaces(s, i))
      from(i) == IF i # 0 THEN ordered(i)
                 ELSE IF s[l.first] \in {"+", "-", "*"} THEN bullet(l.first + 1) ELSE <<>>
  IN IF Indent(l) >= 4 \/ IsBlank(l) THEN <<>> ELSE from(OrderEnd(l))

\* In a paragraph, only an item that has text and begins a list.
ItemInterrupts(token, sibling) ==
  sibling.kind = "paragraph" =>
    /\ ~token.data.empty
    /\ token.data.type = "none" \/ token.data.order = 1

\* A mutant of ContinueListItem that eats all the indentation.
ContinueFlatItem(l, token) ==
  IF IsBlank(l)
  THEN IF token.data.hollow THEN NotMatched(token)
       ELSE Opening(token,
                    Lesser(l.from + token.data.indent, End(l) - 1))
  ELSE IF Indent(l) < token.data.indent THEN NotMatched(token)
  ELSE Opening([token EXCEPT !.data.hollow = FALSE], l.first)

\* count_of_top_blank_line: an item that begins with a blank line ends with
\* the next one.
ContinueListItem(l, token) ==
  IF IsBlank(l)
  THEN IF token.data.hollow THEN NotMatched(token)
       ELSE Opening(token,
                    Lesser(l.from + token.data.indent, End(l) - 1))
  ELSE IF Indent(l) < token.data.indent THEN NotMatched(token)
  ELSE Opening([token EXCEPT !.data.hollow = FALSE],
               Outdented(l, l.first, token.data.indent).from)

\* eat_footnote_label: where [^label] ends, or 0.
FootnoteLabelEnd(l) ==
  LET s == l.s
      i == l.first + 2
      live == Unescaped(s, i, End(l))
      stops == {p \in live : s[p] \in {"[", "]", "eol"}}
      stop == MinOf(stops)
  IN IF \/ i > Len(s) \/ s[l.first] # "[" \/ s[l.first + 1] # "^"
        \/ stops = {} \/ s[stop] # "]" \/ stop - i >= MaxLabel
        \/ \A p \in i..(stop - 1) : s[p] \in Blank
     THEN 0 ELSE stop + 1

FootnoteDefinition(l) ==
  LET e == FootnoteLabelEnd(l)
  IN IF Indent(l) < 4 /\ e # 0 /\ e < End(l) /\ l.s[e] = ":"
     THEN Opens(Segment("footnoteDefinition", l, e + 1, SubSeq(l.s, l.first + 2, e - 2), <<>>),
                e + 1)
     ELSE <<>>

ContinueFootnoteDefinition(l, token) ==
  IF IsBlank(l) THEN Opening(token, Lesser(End(l) - 1, l.from + 4))
  ELSE IF Indent(l) < 4 THEN NotMatched(token)
  ELSE Opening(token, Outdented(l, l.first, 4).from)
=============================================================================
