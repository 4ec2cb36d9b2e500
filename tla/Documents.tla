----------------------------- MODULE Documents -----------------------------
(* Documents: blocks whose text is parsed as inlines, once all identifiers  *)
(* of the document are known.  The data of an admonition has its title.     *)
EXTENDS BlockMatcher

CONSTANTS
  None,       \* no delimiter
  MaxParens   \* MAX_LINK_DESTINATION_PAREN_DEPTH

Inline == INSTANCE InlineNodes WITH MaxLabel <- MaxLabel

\* register_definition_identifier and register_footnote_definition_identifier,
\* called when a definition is closed.
RECURSIVE Registered(_, _)
Registered(nodes, type) ==
  {nodes[k].data.identifier : k \in {j \in DOMAIN nodes : nodes[j].type = type}}
  \cup UNION {Registered(nodes[k].children, type) : k \in DOMAIN nodes}

CharactersOf(n) == FlattenSeq([k \in DOMAIN n.text |-> n.text[k].s])
PlacesOf(n) ==
  FlattenSeq([k \in DOMAIN n.text |-> [j \in DOMAIN n.text[k].s |-> n.text[k].at + j - 1]])

\* The parse hooks process the inlines of paragraphs, headings, cells and
\* titles of admonitions; the children of a paragraph of a tight list take its place.
RECURSIVE WithInlines(_, _, _)
WithInlines(nodes, defs, notes) ==
  LET parsed(n, inlines) ==
        CASE n.type = "text" -> inlines
          [] n.type \in {"paragraph", "heading", "tableCell"} ->
               <<[n EXCEPT !.text = <<>>, !.children = inlines]>>
          [] n.type = "admonition" ->
               <<[n EXCEPT !.text = <<>>, !.data = [keyword |-> @.keyword, title |-> inlines],
                           !.children = WithInlines(@, defs, notes)]>>
          [] OTHER -> <<[n EXCEPT !.children = WithInlines(@, defs, notes)]>>
  IN FlattenSeq([k \in DOMAIN nodes |->
       parsed(nodes[k],
              Inline!Inlines(CharactersOf(nodes[k]), PlacesOf(nodes[k]), defs, notes))])

\* process
Parsed(nodes) ==
  WithInlines(nodes, Registered(nodes, "definition"), Registered(nodes, "footnoteDefinition"))

\* The lines of a text, each but the last with its end.
LinesOfText(t) ==
  LET starts == {1} \cup {p + 1 : p \in {q \in DOMAIN t : t[q] = "eol"}}
      lines == FoldLeft(LAMBDA ls, p : IF p \in starts THEN Append(ls, <<p, p>>)
                                       ELSE Append(Front(ls), <<Last(ls)[1], p>>),
                        <<>>, [p \in DOMAIN t |-> p])
  IN [k \in DOMAIN lines |-> Line(k, lines[k][1] - 1, SubSeq(t, lines[k][1], lines[k][2]))]

\* parse
Parse(t) == Parsed(NodesOf(Blocks(LinesOfText(t), Hooks)))
=============================================================================
