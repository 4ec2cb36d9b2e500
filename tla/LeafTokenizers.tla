--------------------------- MODULE LeafTokenizers ---------------------------
(* The block tokenizers whose blocks are read character by character: link  *)
(* definitions, which may take several lines and give them back, HTML       *)
(* blocks, tables and imports.                                              *)
EXTENDS BlockTokenizers

CONSTANT Reserved  \* INVALID_BINDING_IDENTIFIERS: what no import is known as

-----------------------------------------------------------------------------
(* Definitions.  A scan of a line returns where the part ends, 0 when there *)
(* is none, and whether it is complete; a part that is not goes on in the   *)
(* next line, if its kind may.                                              *)

Part(next, full) == [next |-> next, full |-> full]
NoPart == Part(0, FALSE)

\* eat_and_collect_link_label from i on; text says whether the label had any
\* so far, size how long it is.
Label(l, i, text, size) ==
  LET upTo(stop) ==
        IF \/ IsBlank(l)
           \/ size + (IF stop = 0 THEN Len(l.s) ELSE stop) - i > MaxLabel
           \/ /\ stop # 0
              /\ \/ l.s[stop] = "["
                 \/ ~text /\ \A p \in i..(stop - 1) : l.s[p] \in Blank
        THEN NoPart
        ELSE IF stop = 0 THEN Part(End(l), FALSE) ELSE Part(stop + 1, TRUE)
  IN upTo(FirstOf({p \in Unescaped(l.s, i, End(l)) : l.s[p] \in {"[", "]"}}))

\* eat_and_collect_link_destination; i is not blank.
RECURSIVE Plain(_, _, _)
Plain(s, i, depth) ==
  IF i > Len(s) \/ s[i] \in Blank THEN Part(i, depth = 0)
  ELSE IF s[i] = "backslash" /\ i < Len(s) /\ s[i + 1] \notin Blank \cup Letters
  THEN Plain(s, i + 2, depth)
  ELSE IF s[i] = ")" /\ depth = 0 THEN Part(i, FALSE)
  ELSE Plain(s, i + 1, IF s[i] = "(" THEN depth + 1 ELSE IF s[i] = ")" THEN depth - 1 ELSE depth)

Destination(l, i) ==
  LET s == l.s
      escaped == {p \in Unescaped(s, i + 1, End(l)) : s[p] = "backslash"}
      upTo(stop) == IF stop = 0 THEN Part(End(l), FALSE)
                    ELSE IF s[stop] = ">" THEN Part(stop + 1, TRUE) ELSE NoPart
  IN IF s[i] # "<" THEN Plain(s, i, 0)
     ELSE upTo(FirstOf({p \in (i + 1)..Len(s) :
                          s[p] = "eol" \/ (s[p] \in {"<", ">"} /\ p - 1 \notin escaped)}))

\* eat_and_collect_link_title: wrap is the mark a title began with in an
\* earlier line, or "none".
Title(l, i, wrap) ==
  LET s == l.s
      begin == SkipBlanks(s, i)
      upTo(stop) == IF stop = 0 THEN Part(End(l), FALSE)
                    ELSE IF s[stop] = "(" THEN NoPart ELSE Part(stop + 1, TRUE)
      marked(mark, from) ==
        IF mark \notin {"quote", "'", "("} THEN NoPart
        ELSE upTo(FirstOf({p \in Unescaped(s, from, End(l)) :
                             s[p] \in IF mark = "(" THEN {"(", ")"} ELSE {mark}}))
  IN IF begin > Len(s) THEN NoPart
     ELSE IF wrap = "none" THEN marked(s[begin], begin + 1) ELSE marked(wrap, i)

\* The mark a title begins with, once it is known to be one.
TitleMark(l, i, wrap) == IF wrap = "none" THEN l.s[SkipBlanks(l.s, i)] ELSE wrap

\* DefinitionTokenData: how far the label, the destination and the title are
\* ("none", "open" or "full"), and the lines the last two began in.
Parts == [label |-> "none", text |-> FALSE, size |-> 0, destination |-> "none",
          destinationAt |-> 0, title |-> "none", titleAt |-> 0, wrap |-> "none"]

Stage(part) == IF part.full THEN "full" ELSE "open"

\* eat_opener: all parts that are on the line must be sound.
Definition(l) ==
  LET s == l.s
      opens(data) == Opens(Token("definition", l, data, <<l>>), End(l))
      titled(data, j, title) ==
        IF title = NoPart \/ SkipBlanks(s, title.next) <= Len(s) THEN <<>>
        ELSE opens([data EXCEPT !.title = Stage(title), !.titleAt = l.no,
                                !.wrap = TitleMark(l, j, @)])
      aimed(data, end, j) ==
        IF j > Len(s) THEN opens(data)
        ELSE IF j = end THEN <<>> ELSE titled(data, j, Title(l, j, "none"))
      destined(data, destination) ==
        IF destination = NoPart \/ (~destination.full /\ destination.next # End(l)) THEN <<>>
        ELSE aimed([data EXCEPT !.destination = Stage(destination), !.destinationAt = l.no],
                   destination.next, SkipBlanks(s, destination.next))
      named(data, i) == IF i > Len(s) THEN opens(data) ELSE destined(data, Destination(l, i))
      labelled(label, data) ==
        IF label = NoPart THEN <<>>
        ELSE IF ~label.full
        THEN opens([data EXCEPT !.text = \E p \in (l.first + 1)..Len(s) : s[p] \notin Blank])
        ELSE IF label.next >= Len(s) \/ s[label.next] # ":" THEN <<>>
        ELSE named(data, SkipBlanks(s, label.next + 1))
      begun(label) ==
        labelled(label, [Parts EXCEPT !.label = Stage(label), !.text = TRUE,
                                      !.size = End(l) - l.first])
  IN IF Indent(l) >= 4 \/ IsBlank(l) \/ s[l.first] # "[" THEN <<>>
     ELSE begun(Label(l, l.first + 1, FALSE, 1))

\* The title, from i on: a definition whose title fails is given back, and if
\* the title began on a line of its own, only the lines from there are.
WithTitle(l, token, i) ==
  LET failed(d, kept) ==
        IF d.destinationAt = d.titleAt THEN Failed(token)
        ELSE ClosingAndRollback([token EXCEPT !.lines = SubSeq(@, 1, kept),
                                              !.data.title = "none",
                                              !.end = LineEnd(token.lines[kept])],
                                SubSeq(token.lines, kept + 1, Len(token.lines)))
      taken(after, full) ==
        IF full THEN Closing(WithLine(after, l), End(l)) ELSE Opening(WithLine(after, l), End(l))
      titled(d, title) ==
        IF title = NoPart \/ (title.full /\ SkipBlanks(l.s, title.next) <= Len(l.s))
        THEN failed(d, d.titleAt - token.at)
        ELSE taken([token EXCEPT !.data = [d EXCEPT !.title = Stage(title),
                                                    !.wrap = TitleMark(l, i, @)]], title.full)
      begun(d) == titled(d, Title(l, i, d.wrap))
  IN begun([token.data EXCEPT !.titleAt = IF @ = 0 THEN l.no ELSE @])

\* The destination, at i.
WithDestination(l, token, i) ==
  LET after == [token EXCEPT !.data.destination = "full", !.data.destinationAt = l.no]
      titled(answer) == IF answer.reply = "failed" THEN Failed(token) ELSE answer
      aimed(next) ==
        IF next > Len(l.s) THEN Opening(WithLine(after, l), End(l))
        ELSE titled(WithTitle(l, [after EXCEPT !.data.titleAt = l.no], next))
      reached(destination) ==
        IF destination = NoPart \/ ~destination.full THEN Failed(token)
        ELSE aimed(SkipBlanks(l.s, destination.next))
  IN IF i > Len(l.s) THEN Failed(token) ELSE reached(Destination(l, i))

WithLabel(l, token, label) ==
  LET longer == [token EXCEPT !.data.label = Stage(label), !.data.text = TRUE,
                              !.data.size = @ + End(l) - l.first]
  IN IF label = NoPart \/ (label.full /\ (label.next >= Len(l.s) \/ l.s[label.next] # ":"))
     THEN Failed(token)
     ELSE IF ~label.full THEN Opening(WithLine(longer, l), End(l))
     ELSE WithDestination(l, longer, SkipBlanks(l.s, label.next + 1))

ContinueDefinition(l, token) ==
  LET d == token.data
  IN IF d.title = "full" THEN NotMatched(token)
     ELSE IF d.label # "full" THEN WithLabel(l, token, Label(l, l.first, d.text, d.size))
     ELSE IF d.destination = "none" THEN WithDestination(l, token, SkipBlanks(l.s, l.first))
     ELSE WithTitle(l, token, l.first)

\* on_close: the lines given back, and whether all of them are.
GivenBack(token) ==
  LET d == token.data
      kept == d.titleAt - token.at
  IN IF d.label # "full" \/ d.destination # "full" \/ (d.title = "open" /\ kept = 0)
        \/ (d.title = "open" /\ d.destinationAt = d.titleAt)
     THEN [whole |-> TRUE, lines |-> token.lines]
     ELSE [whole |-> FALSE,
           lines |-> IF d.title = "open" THEN SubSeq(token.lines, kept + 1, Len(token.lines))
                     ELSE <<>>]

-----------------------------------------------------------------------------
(* HTML blocks, by the number of the condition that opens them.             *)

TagName(s, i) == LowerCase(SubSeq(s, i, TagEnd(s, i) - 1))

Has(s, i, words) == \E p \in i..Len(s), w \in words : HasAt(s, p, w)

\* eat_start_condition7: a whole tag, alone on its line.
IsWholeTag(s, i, opening) ==
  LET alone(end) == end # 0 /\ SkipBlanks(s, end) > Len(s) IN alone(TagClose(s, i, opening))

\* eat_start_condition, i being after the "<": the condition, or 0.
Condition(s, i) ==
  LET opening == s[i] # "/"
      b == IF opening THEN i ELSE i + 1
      tag(e, name, ends) ==
        IF e = b THEN 0
        ELSE IF opening /\ name \in RawTags /\ ends THEN 1
        ELSE IF name \in BlockTags /\ (ends \/ HasAt(s, e, <<"/", ">">>)) THEN 6
        ELSE IF name \notin RawTags /\ e <= Len(s) /\ IsWholeTag(s, e, opening) THEN 7
        ELSE 0
      named(e) == tag(e, TagName(s, b), e > Len(s) \/ s[e] \in Blank \cup {">"})
  IN IF i > Len(s) THEN 0
     ELSE IF HasAt(s, i, <<"!", "-", "-">>) THEN 2
     ELSE IF s[i] = "?" THEN 3
     ELSE IF i < Len(s) /\ s[i] = "!" /\ s[i + 1] \in Range(Upper) THEN 4
     ELSE IF HasAt(s, i, <<"!", "[", "C", "D", "A", "T", "A", "[">>) THEN 5
     ELSE named(TagEnd(s, b))

\* eat_end_condition from i on, of the conditions that a mark ends.
HasEnd(s, i, condition) ==
  CASE condition = 1 -> \E p \in i..Len(s) : /\ p + 3 <= Len(s) /\ HasAt(s, p, <<"<", "/">>)
                                             /\ TagName(s, p + 2) \in RawTags
                                             /\ HasAt(s, TagEnd(s, p + 2), <<">">>)
    [] condition = 2 -> Has(s, i, {<<"-", "-", ">">>})
    [] condition = 3 -> Has(s, i, {<<"?", ">">>})
    [] condition = 4 -> Has(s, i, {<<">">>})
    [] condition = 5 -> Has(s, i, {<<"]", "]", ">">>})
    [] OTHER         -> FALSE

\* The end of what shows that the block begins.
StartEnd(s, i, condition) ==
  CASE condition = 1 -> Lesser(TagEnd(s, i) + 1, Len(s) + 1)
    [] condition = 2 -> i + 3
    [] condition = 3 -> i + 1
    [] condition = 4 -> i + 2
    [] condition = 5 -> i + 8
    [] OTHER         -> Len(s) + 1

Html(l) ==
  LET i == l.first + 1
      opens(condition, token) ==
        IF condition = 0 THEN <<>>
        ELSE IF HasEnd(l.s, StartEnd(l.s, i, condition), condition) THEN Fills(token, l)
        ELSE Opens(token, End(l))
      begins(condition) == opens(condition, Token("html", l, condition, <<l>>))
  IN IF Indent(l) >= 4 \/ IsBlank(l) \/ l.s[l.first] # "<" THEN <<>>
     ELSE begins(Condition(l.s, i))

ContinueHtml(l, token) ==
  IF IsBlank(l) /\ token.data \in {6, 7} THEN NotMatched(token)
  ELSE IF HasEnd(l.s, l.first, token.data) THEN Closing(WithLine(token, l), End(l))
  ELSE Opening(WithLine(token, l), End(l))

-----------------------------------------------------------------------------
(* Tables.  A row is split at the bars that no backslash precedes.          *)

\* The pieces of <i, e) of a line, as pairs of bounds.
Pieces(s, i, e, bars) ==
  LET cuts == {i - 1, e} \cup {p \in bars : p >= i}
  IN SetToSortSeq({<<p + 1, MinOf({q \in cuts : q > p})>> : p \in cuts \ {e}},
                  LAMBDA a, b : a[1] < b[1])

Bars(s, i) == {p \in Unescaped(s, i, Len(s) + 1) : s[p] = "|"}

PieceText(s, piece) == Trimmed(s, piece[1], piece[2])

\* The start of the first cell: a bar before it does not count.
CellsFrom(l) == IF ~IsBlank(l) /\ l.s[l.first] = "|" THEN l.first + 1 ELSE l.first

\* calc_delimiter_columns: how the columns of a delimiter row are aligned.
Align(text) == [left |-> text[1] = ":", right |-> Last(text) = ":"]

DelimiterColumns(l) ==
  LET i == CellsFrom(l)
      isRule(text, dashes) ==
        dashes # <<>> /\ text \in {a \o dashes \o b : a, b \in {<<>>, <<":">>}}
      rule(text) == isRule(text, SelectSeq(text, LAMBDA x : x = "-"))
      ruled(cells) ==
        IF \A c \in Range(cells) : rule(PieceText(l.s, c))
        THEN [k \in DOMAIN cells |-> Align(PieceText(l.s, cells[k]))] ELSE <<>>
      pieces(all) == ruled(IF PieceText(l.s, Last(all)) = <<>> THEN Front(all) ELSE all)
  IN pieces(Pieces(l.s, i, End(l), {p \in i..Len(l.s) : l.s[p] = "|"}))

\* is_header_cell_count_matched: blanks before the first bar and after the
\* last are no cells.
HeaderColumns(l) ==
  LET count(texts) ==
        Cardinality({k \in DOMAIN texts : ~(texts[k] = <<>> /\ k \in {1, Len(texts)})})
      of(pieces) == count([k \in DOMAIN pieces |-> PieceText(l.s, pieces[k])])
  IN of(Pieces(l.s, l.from, End(l), Bars(l.s, l.from)))

\* The text of a cell; unescape_table_cell_contents drops the backslashes
\* before bars.
CellText(l, i, e) ==
  LET live == Unescaped(l.s, i, e)
      cuts == {i - 1, e} \cup {p \in live : p + 1 < e /\ l.s[p] = "backslash" /\ l.s[p + 1] = "|"}
      piece(from) ==
        LET to == MinOf({q \in cuts : q > from})
        IN [s |-> SubSeq(l.s, from + 1, to - 1), at |-> l.off + from + 1]
      froms == SetToSortSeq(cuts \ {e}, <)
  IN IF i >= e THEN <<>> ELSE [k \in DOMAIN froms |-> piece(froms[k])]

Cell(l, piece) ==
  LET from == Lesser(SkipBlanks(l.s, piece[1]), piece[2])
  IN [from |-> l.off + from, to |-> l.off + piece[2],
      text |-> CellText(l, from, TrimEnd(l.s, from, piece[2]))]

\* calc_table_row: cells that are missing are empty, the others are dropped.
Row(l, columns) ==
  LET missing == [from |-> l.off + End(l), to |-> l.off + End(l), text |-> <<>>]
      cells(pieces) ==
        [k \in 1..columns |-> IF k <= Len(pieces) THEN Cell(l, pieces[k]) ELSE missing]
  IN [from |-> l.off + l.from, to |-> l.off + End(l),
      cells |-> cells(Pieces(l.s, CellsFrom(l), End(l), Bars(l.s, CellsFrom(l))))]

\* The last line of a paragraph becomes the header, the rest stays.
Table(l, sibling) ==
  LET left(rest) == [Token("paragraph", rest[1], <<>>, rest) EXCEPT !.end = LineEnd(Last(rest))]
      table(columns, row) ==
        [Token("table", row, [columns |-> columns, rows |-> <<Row(row, Len(columns))>>], <<>>)
           EXCEPT !.end = LineEnd(l)]
      replaced(header, rest, columns) ==
        IF columns = <<>> \/ HeaderColumns(header) # Len(columns) THEN <<>>
        ELSE <<[token |-> table(columns, header),
                next |-> End(l), saturated |-> FALSE,
                remaining |-> IF rest = <<>> THEN <<>> ELSE <<left(rest)>>]>>
  IN IF Indent(l) >= 4 \/ IsBlank(l) \/ sibling.kind # "paragraph" THEN <<>>
     ELSE replaced(Last(sibling.lines), Front(sibling.lines), DelimiterColumns(l))

ContinueTable(l, token) ==
  IF IsBlank(l) THEN NotMatched(token)
  ELSE Opening([token EXCEPT !.data.rows = Append(@, Row(l, Len(token.data.columns)))], End(l))
-----------------------------------------------------------------------------
(* Imports: import "m", import a from "m" and import a, { b, c as d } from  *)
(* "m", the name before the braces being optional.                          *)

WordCharacters == Alphanumeric \cup {"$", "_"}

\* The words and the marks of a text.
Lexemes(s) ==
  LET starts == {p \in DOMAIN s : /\ s[p] \notin Blank
                                  /\ p = 1 \/ {s[p - 1], s[p]} \cap WordCharacters # {s[p - 1], s[p]}}
      at(p) == SubSeq(s, p, IF s[p] \in WordCharacters THEN SpanEnd(s, p, WordCharacters) - 1 ELSE p)
  IN FoldLeft(LAMBDA ls, p : IF p \in starts THEN Append(ls, at(p)) ELSE ls,
              <<>>, [p \in DOMAIN s |-> p])

IsIdentifier(x) == Range(x) \subseteq WordCharacters /\ x[1] \notin Range(Digits)

\* What the imports are known as; is_binding_identifier.
Bindings(default, names) ==
  (IF default = <<>> THEN {} ELSE {default})
  \cup {IF n.alias = <<>> THEN n.src ELSE n.alias : n \in Range(names)}

\* resolve_name_imports: the items between the braces, a comma behind the
\* last of which does not count.
NamedImports(ls) ==
  LET items == FoldLeft(LAMBDA its, x : IF x = <<",">> THEN Append(its, <<>>)
                                        ELSE Append(Front(its), Append(Last(its), x)),
                        <<<<>>>>, ls)
      named(its) ==
        IF \A it \in Range(its) : \/ Len(it) = 1 /\ IsIdentifier(it[1])
                                 \/ /\ Len(it) = 3 /\ it[2] = <<"a", "s">>
                                    /\ IsIdentifier(it[1]) /\ IsIdentifier(it[3])
        THEN [k \in DOMAIN its |-> [src |-> its[k][1],
                                    alias |-> IF Len(its[k]) = 3 THEN its[k][3] ELSE <<>>]]
        ELSE <<>>
  IN named(IF Len(items) > 1 /\ Last(items) = <<>> THEN Front(items) ELSE items)

\* No reserved word is imported and no name twice.
Imports(l, module, default, names) ==
  IF \/ Bindings(default, names) \cap Reserved # {}
     \/ Cardinality(Bindings(default, names)) # Len(names) + (IF default = <<>> THEN 0 ELSE 1)
  THEN <<>>
  ELSE Fills(Token("ecmaImport", l, [module |-> module, default |-> default, names |-> names], <<>>), l)

NamedFirst(l, module, default, names) ==
  IF names = <<>> THEN <<>> ELSE Imports(l, module, default, names)

\* What is between the braces behind the default name.
Braced(l, module, default, ls) ==
  IF Len(ls) < 3 \/ ls[1] # <<"{">> \/ Last(ls) # <<"}">> THEN <<>>
  ELSE NamedFirst(l, module, default, NamedImports(SubSeq(ls, 2, Len(ls) - 1)))

\* regex1, regex2 and regex3 of the words before the module.
ImportOf(l, module, ls) ==
  LET imported == SubSeq(ls, 2, Len(ls) - 1)
      defaults == Len(imported) > 0 /\ IsIdentifier(imported[1])
  IN IF Len(ls) = 1 THEN Imports(l, module, <<>>, <<>>)
     ELSE IF Len(ls) < 3 \/ Last(ls) # <<"f", "r", "o", "m">> THEN <<>>
     ELSE IF defaults /\ Len(imported) = 1 THEN Imports(l, module, imported[1], <<>>)
     ELSE LET both == defaults /\ imported[2] = <<",">>
          IN Braced(l, module, IF both THEN imported[1] ELSE <<>>,
                    IF both THEN SubSeq(imported, 3, Len(imported)) ELSE imported)

\* A statement is import, words and a module between quotes.
ImportIn(l, t) ==
  LET quotes == {p \in DOMAIN t : t[p] \in {"quote", "'"}}
      open == MinOf(quotes)
  IN IF \/ Cardinality(quotes) # 2 \/ Last(t) # t[open] \/ open + 1 = Len(t)
        \/ t[7] \notin Blank \/ t[open - 1] \notin Blank
     THEN <<>>
     ELSE ImportOf(l, SubSeq(t, open + 1, Len(t) - 1), Lexemes(SubSeq(t, 1, open - 1)))

WithoutSemicolon(t) == IF Last(t) = ";" THEN Trimmed(t, 1, Len(t)) ELSE t

EcmaImport(l) ==
  IF \/ Indent(l) >= 4 \/ l.first + 8 >= End(l)
     \/ ~HasAt(l.s, l.first, <<"i", "m", "p", "o", "r", "t">>)
  THEN <<>> ELSE ImportIn(l, WithoutSemicolon(Trimmed(l.s, l.first, End(l))))
=============================================================================
