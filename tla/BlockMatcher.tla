---------------------------- MODULE BlockMatcher ----------------------------
(* The matching of blocks: each line continues or interrupts the blocks     *)
(* that are open, opens new ones, or goes on lazily; and what the tokens    *)
(* become.  A processor b has the open blocks, the root first, each with    *)
(* its closed children, the line that is consumed and the open block that   *)
(* is looked at (cur; current_stack_index + 1).                             *)
EXTENDS LeafTokenizers, Tokenizers

\* The block tokenizers in the order in which they are asked, without that of
\* paragraphs, which takes what no other takes.
Hooks == NamesOf(YozoraBlocks)

\* Lines that a definition gave back are matched without definitions.
HooksAfterFailure == SelectSeq(Hooks, LAMBDA h : h # "definition")

BuiltIn == Range(YozoraBlocks) \cup {ParagraphTokenizer}

\* The kinds of tokens of the tokenizers that have a hook.
Having(hook) == {t.name : t \in {x \in BuiltIn : hook \in x.hooks}}

Containers == {"root"} \cup Having("containing")
Interrupters == Having("interrupts")
Continuers == Having("continues")
LazyKinds == Having("lazy")
Closers == Having("closes")

Priorities == [kind \in {t.name : t \in BuiltIn} |->
                (CHOOSE t \in BuiltIn : t.name = kind).priority]

\* eat_opener
Opener(hook, l) ==
  CASE hook = "indentedCode"       -> IndentedCode(l)
    [] hook = "html"               -> Html(l)
    [] hook = "thematicBreak"      -> ThematicBreak(l)
    [] hook = "blockquote"         -> Blockquote(l)
    [] hook = "listItem"           -> ListItem(l)
    [] hook = "heading"            -> Heading(l)
    [] hook = "fencedCode"         -> FencedCode(l)
    [] hook = "admonition"         -> Admonition(l)
    [] hook = "math"               -> Math(l)
    [] hook = "footnoteDefinition" -> FootnoteDefinition(l)
    [] hook = "definition"         -> Definition(l)
    [] hook = "ecmaImport"         -> EcmaImport(l)
    [] hook = "paragraph"          -> Paragraph(l)
    [] OTHER                       -> <<>>

\* eat_and_interrupt_previous_sibling, of the hooks that leave the sibling as
\* it is.
Ousts(hook, token, sibling) ==
  CASE hook = "listItem" -> ItemInterrupts(token, sibling)
    [] hook = "html"     -> token.data # 7
    [] OTHER             -> TRUE

\* eat_and_interrupt_previous_sibling; remaining is what stays of the sibling.
Interruption(hook, l, sibling) ==
  LET besides(opener) ==
        [k \in DOMAIN opener |->
           [token |-> opener[k].token, next |-> opener[k].next,
            saturated |-> opener[k].saturated, remaining |-> <<sibling>>]]
  IN CASE hook \notin Interrupters -> <<>>
       [] hook = "setextHeading" -> SetextHeading(l, sibling)
       [] hook = "table"         -> Table(l, sibling)
       [] OTHER -> besides(SelectSeq(Opener(hook, l), LAMBDA x : Ousts(hook, x.token, sibling)))

\* eat_continuation_text
Continuation(l, token, parent) ==
  CASE token.kind \notin Continuers        -> NotMatched(token)
    [] token.kind = "paragraph"          -> ContinueParagraph(l, token)
    [] token.kind = "indentedCode"       -> ContinueIndentedCode(l, token)
    [] token.kind \in {"fencedCode", "admonition", "math"} -> ContinueFence(l, token)
    [] token.kind = "blockquote"         -> ContinueBlockquote(l, token, parent)
    [] token.kind = "listItem"           -> ContinueListItem(l, token)
    [] token.kind = "footnoteDefinition" -> ContinueFootnoteDefinition(l, token)
    [] token.kind = "definition"         -> ContinueDefinition(l, token)
    [] token.kind = "html"               -> ContinueHtml(l, token)

\* A mutant of LazyContinuation of tables only.
LazyTables(l, token) == IF token.kind = "table" THEN ContinueTable(l, token) ELSE NotMatched(token)

\* eat_lazy_continuation_text
LazyContinuation(l, token) ==
  CASE token.kind \notin LazyKinds  -> NotMatched(token)
    [] token.kind = "paragraph" -> ContinueParagraph(l, token)
    [] token.kind = "table"     -> ContinueTable(l, token)

-----------------------------------------------------------------------------
(* The processor *)

Root == [kind |-> "root", at |-> 1, from |-> 1, end |-> [place |-> 1, past |-> 1],
         data |-> <<>>, lines |-> <<>>, children |-> <<>>]

NoLine == [no |-> 0, off |-> 0, s |-> <<>>, cols |-> <<0>>, from |-> 1, first |-> 1, spaces |-> 0]
Begun == [open |-> <<Root>>, cur |-> 1, l |-> NoLine]

\* A mutant of RefreshPosition that leaves out the containers.
RefreshLast(b, end) ==
  [b EXCEPT !.open = [k \in DOMAIN @ |-> IF k = b.cur THEN [@[k] EXCEPT !.end = end] ELSE @[k]]]

\* refresh_position: the end of the open blocks up to cur.
RefreshPosition(b, end) ==
  [b EXCEPT !.open = [k \in DOMAIN @ |-> IF k <= b.cur THEN [@[k] EXCEPT !.end = end] ELSE @[k]]]

\* move_forward of a continuation.
MoveForward(b, next) ==
  LET c == IF next = 1 /\ b.l.no = 1 THEN b ELSE RefreshPosition(b, EndPoint(b.l, next))
  IN [c EXCEPT !.l = Advance(@, next)]

RECURSIVE CutStaleBranch(_, _)
RECURSIVE Consume(_, _, _)
RECURSIVE Blocks(_, _)

Matched(lines, hooks) == FoldLeft(LAMBDA b, l : Consume(b, l, hooks), Begun, lines)

\* done
Done(b) == CutStaleBranch(b, 1).open[1].children

Blocks(lines, hooks) == Done(Matched(lines, hooks))

\* A mutant of OnClose that loses the lines a definition gives back.
OnCloseLost(token) ==
  LET whole == token.kind = "definition" /\ GivenBack(token).whole
  IN IF token.kind = "admonition" THEN <<[token EXCEPT !.children = Blocks(token.lines, Hooks)]>>
     ELSE IF whole THEN <<>> ELSE <<token>>

\* on_close: what the parent of a block that closes has in its place.  The
\* lines of an admonition, and those that a definition gives back, are
\* matched as blocks; a footnote definition only registers its identifier.
OnClose(token) ==
  LET given == IF token.kind = "definition" THEN GivenBack(token)
               ELSE [whole |-> FALSE, lines |-> token.lines]
      hooks == IF token.kind = "definition" THEN HooksAfterFailure ELSE Hooks
      closed(blocks) ==
        IF token.kind = "admonition" THEN <<[token EXCEPT !.children = blocks]>>
        ELSE (IF given.whole THEN <<>> ELSE <<token>>) \o blocks
  IN IF token.kind \in Closers \ {"footnoteDefinition"} THEN closed(Blocks(given.lines, hooks))
     ELSE <<token>>

\* popup
Popup(b) ==
  LET size == Len(b.open) - 1
  IN [b EXCEPT !.open = [SubSeq(@, 1, size) EXCEPT ![size].children = @ \o OnClose(Last(b.open))],
               !.cur = Lesser(@, size)]

\* cut_stale_branch
CutStaleBranch(b, size) ==
  IF Len(b.open) <= size THEN b ELSE CutStaleBranch(Popup(b), size)

Opened(b, answer) ==
  [b EXCEPT !.open = Append(@, answer.token), !.cur = @ + 1, !.l = Advance(@, answer.next)]
Settled(b, saturated) == IF saturated THEN Popup(b) ELSE b

\* push
Push(b, answer) ==
  Settled(Opened(RefreshPosition(CutStaleBranch(b, b.cur), answer.token.end), answer),
          answer.saturated)

PushFirst(b, answers) == IF answers = <<>> THEN b ELSE Push(b, answers[1])

\* interrupt_sibling: the answers of the hooks that interrupt the block looked
\* at, the first of which does.
Interruptions(b, hooks) ==
  LET sibling == b.open[b.cur]
  IN FlattenSeq([k \in DOMAIN hooks |->
       IF hooks[k] # sibling.kind /\ Priorities[hooks[k]] > Priorities[sibling.kind]
       THEN Interruption(hooks[k], b.l, sibling) ELSE <<>>])

Without(b, remaining) ==
  [b EXCEPT !.open[b.cur].children = Front(@) \o remaining]
InterruptSibling(b, answer) ==
  Push(Without(CutStaleBranch(b, b.cur - 1), answer.remaining), answer)

\* rollback: the lines of a definition that failed are matched without
\* definitions, and the blocks they leave open stay open.
Rollback(b, lines) ==
  LET below(inner, c) ==
        [b EXCEPT !.open = [c.open EXCEPT ![b.cur].children = @ \o inner[1].children] \o Tail(inner),
                  !.cur = Len(c.open) + Len(inner) - 1]
      rolled(inner) == below(inner, RefreshPosition(b, inner[1].end))
  IN rolled(Matched(lines, HooksAfterFailure).open)

\* consume, step 1: down the open blocks as far as they continue.  A block
\* that fails is forgotten, and one that gives lines back is asked again.
RECURSIVE ContinueBlocks(_, _)
GiveBack(b, lines, hooks) ==
  IF lines = <<>> THEN b ELSE ContinueBlocks(Rollback(b, lines), hooks)

Continued(b, answer, hooks) ==
  LET c == [b EXCEPT !.open[b.cur] = answer.token]
  IN CASE answer.reply = "opening" ->
            ContinueBlocks([MoveForward(c, answer.next) EXCEPT !.cur = @ + 1], hooks)
       [] answer.reply = "closing" -> [MoveForward(c, answer.next) EXCEPT !.cur = @ - 1]
       [] answer.reply = "notMatched" -> [c EXCEPT !.cur = @ - 1]
       [] answer.reply = "failed" ->
            GiveBack([b EXCEPT !.open = SubSeq(@, 1, b.cur - 1), !.cur = @ - 1], answer.back, hooks)
       [] OTHER -> GiveBack(CutStaleBranch(c, b.cur - 1), answer.back, hooks)

Interrupted(b, answers, hooks) ==
  IF answers # <<>> THEN InterruptSibling(b, answers[1])
  ELSE Continued(b, Continuation(b.l, b.open[b.cur], b.open[b.cur - 1].kind), hooks)

ContinueBlocks(b, hooks) ==
  IF b.cur = 1 \/ b.cur > Len(b.open) \/ b.l.from >= End(b.l) THEN b
  ELSE Interrupted(b, Interruptions(b, hooks), hooks)

\* consume_new_opener: the answers of the hooks that open a block.
Openers(b, hooks) == FlattenSeq([k \in DOMAIN hooks |-> Opener(hooks[k], b.l)])

\* Step 2: blocks that open inside the last one that continues.
RECURSIVE OpenBlocks(_, _)
OpenFirst(b, answers, hooks) ==
  IF answers = <<>> THEN b ELSE OpenBlocks(Push(b, answers[1]), hooks)
OpenBlocks(b, hooks) ==
  IF b.l.from >= End(b.l) \/ b.open[b.cur].kind \notin Containers THEN b
  ELSE OpenFirst(b, Openers(b, hooks), hooks)

NewBlocks(b, hooks) ==
  IF \/ b.l.from >= End(b.l)
     \/ b.cur <= Len(b.open) /\ Last(b.open).kind = "paragraph" /\ b.l.spaces >= 4
  THEN b ELSE OpenBlocks([b EXCEPT !.cur = Lesser(@, Len(b.open))], hooks)

\* Step 3: the last open block goes on without its containers, or what did
\* not continue is closed.
LazyBlocks(b) ==
  LET size == Len(b.open)
      lazy == b.l.from < End(b.l) /\ b.cur < size
      answer == LazyContinuation(b.l, Last(b.open))
  IN IF lazy /\ answer.reply = "opening"
     THEN MoveForward([b EXCEPT !.open[size] = answer.token, !.cur = size], answer.next)
     ELSE CutStaleBranch(b, b.cur)

\* What no other block takes is a paragraph.
Fallback(b) == IF b.l.from < End(b.l) THEN PushFirst(b, Paragraph(b.l)) ELSE b

Consume(b, l, hooks) ==
  Fallback(LazyBlocks(NewBlocks(ContinueBlocks([b EXCEPT !.l = l, !.cur = 2], hooks), hooks)))

-----------------------------------------------------------------------------
(* Nodes: what the parse hooks of the tokenizers make of the tokens.  The   *)
(* text of a node is a sequence of pieces of lines.                         *)

Node(type, from, to, data, text, children) ==
  [type |-> type, from |-> from, to |-> to, data |-> data, text |-> text, children |-> children]

NodeOf(type, token, data, text, children) ==
  Node(type, token.from, token.end.place, data, text, children)

\* Where the blocks of the tokens are apart by a blank line.
AreApart(tokens) == \E k \in 2..Len(tokens) : tokens[k - 1].end.past < tokens[k].at

\* calc_spread
IsSpread(items) == AreApart(items) \/ \E k \in DOMAIN items : AreApart(items[k].children)

SameList(a, b) ==
  /\ a.kind = "listItem" /\ b.kind = "listItem"
  /\ a.data.mark = b.data.mark /\ a.data.type = b.data.type

\* collect_list_item_groups: every item goes to the list of the item that
\* began the last list, other blocks are groups of their own.
Groups(tokens) ==
  FoldLeft(LAMBDA groups, token :
             IF groups # <<>> /\ SameList(Last(groups)[1], token)
             THEN Append(Front(groups), Append(Last(groups), token))
             ELSE Append(groups, <<token>>),
           <<>>, tokens)

\* merge_content_lines_faithfully
LineTexts(lines) == [k \in DOMAIN lines |-> Piece(lines[k], lines[k].from, End(lines[k]))]

\* merge_and_strip_content_lines: without the blanks before each line and
\* behind the last.
StrippedLines(lines) ==
  [k \in DOMAIN lines |->
    IF k < Len(lines) THEN Piece(lines[k], lines[k].first, End(lines[k]))
    ELSE Stripped(lines[k], lines[k].first, End(lines[k]))]

RECURSIVE NodesOf(_)

ParagraphNode(token) == NodeOf("paragraph", token, <<>>, StrippedLines(token.lines), <<>>)
SetextHeadingNode(token) ==
  NodeOf("heading", token, [depth |-> token.data], StrippedLines(token.lines), <<>>)
ThematicBreakNode(token) == NodeOf("thematicBreak", token, <<>>, <<>>, <<>>)

\* The text of a heading is between its marks; a closing run of marks counts
\* only behind a blank.
HeadingNode(token) ==
  LET l == token.lines[1]
      from == RunEnd(l.s, l.first, "#")
      e == TrimEnd(l.s, from, End(l))
      marks == MinOf({p \in from..e : \A q \in p..(e - 1) : l.s[q] = "#"})
      to == IF marks = from \/ l.s[marks - 1] \in Blank THEN marks ELSE e
  IN NodeOf("heading", token, [depth |-> token.data], <<Stripped(l, from, to)>>, <<>>)

\* Indented code has no blank lines at both ends.
IndentedCodeNode(token) ==
  LET solid == {k \in DOMAIN token.lines : ~IsBlank(token.lines[k])}
  IN NodeOf("code", token, [lang |-> <<>>, meta |-> <<>>],
            IF solid = {} THEN <<>>
            ELSE LineTexts(SubSeq(token.lines, MinOf(solid), MaxOf(solid))), <<>>)

\* parse_info_string
FencedCodeNode(token) ==
  LET info == token.data.info.s
      word == SpanEnd(info, 1, Range(info) \ Blank)
  IN NodeOf("code", token,
            [lang |-> EscapedString(SubSeq(info, 1, word - 1)),
             meta |-> EscapedString(Trimmed(info, word, Len(info) + 1))],
            LineTexts(token.lines), <<>>)

MathNode(token) == NodeOf("math", token, <<>>, LineTexts(token.lines), <<>>)
HtmlNode(token) == NodeOf("html", token, <<>>, LineTexts(token.lines), <<>>)

TableNode(token) ==
  LET cell(x) == Node("tableCell", x.from, x.to, <<>>, x.text, <<>>)
      row(x) == Node("tableRow", x.from, x.to, <<>>, <<>>, [k \in DOMAIN x.cells |-> cell(x.cells[k])])
      rows == token.data.rows
  IN NodeOf("table", token, [columns |-> token.data.columns], <<>>,
            [k \in DOMAIN rows |-> row(rows[k])])

\* The parts of a definition; its lines were collected without indentation.
DefinitionParts(token) ==
  LET t == FlattenSeq([k \in DOMAIN token.lines |-> Rest(token.lines[k])])
      whole == Len(t) + 1
      bracket == MinOf({p \in Unescaped(t, 2, whole) : t[p] = "]"})
      i == SkipBlanks(t, bracket + 2)
      angle == t[i] = "<"
      e == IF angle THEN MinOf({p \in Unescaped(t, i + 1, whole) : t[p] = ">"}) + 1
           ELSE SpanEnd(t, i, Range(t) \ Blank)
      title == Trimmed(t, e, whole)
  IN [label |-> SubSeq(t, 2, bracket - 1), identifier |-> Identifier(SubSeq(t, 2, bracket - 1)),
      url |-> Encoded(EscapedString(IF angle THEN Trimmed(t, i + 1, e - 1) ELSE SubSeq(t, i, e - 1))),
      titled |-> title # <<>>,
      title |-> IF title = <<>> THEN <<>> ELSE EscapedString(Front(Tail(title)))]

\* calc_effective_position: a title without an end is no part of its
\* definition.
Effective(token) ==
  LET kept == SubSeq(token.lines, 1, token.data.titleAt - token.at)
  IN IF token.data.title # "open" THEN token
     ELSE [token EXCEPT !.lines = kept, !.end = LineEnd(Last(kept))]

DefinitionNode(token) ==
  LET node(whole) ==
        NodeOf("definition", whole, DefinitionParts(whole), LineTexts(whole.lines), <<>>)
  IN node(Effective(token))

EcmaImportNode(token) == NodeOf("ecmaImport", token, token.data, <<>>, <<>>)

BlockquoteNode(token) == NodeOf("blockquote", token, <<>>, <<>>, NodesOf(token.children))

FootnoteDefinitionNode(token) ==
  NodeOf("footnoteDefinition", token,
         [label |-> token.data, identifier |-> Identifier(token.data)], <<>>,
         NodesOf(token.children))

\* The first word behind the mark is the keyword, the others are the title.
AdmonitionNode(token) ==
  LET info == token.data.info
      word == SpanEnd(info.s, 1, Range(info.s) \ Blank)
      title == Lesser(SkipBlanks(info.s, word), Len(info.s) + 1)
  IN NodeOf("admonition", token, [keyword |-> EscapedString(SubSeq(info.s, 1, word - 1))],
            <<[s |-> SubSeq(info.s, title, Len(info.s)), at |-> info.at + title - 1]>>,
            NodesOf(token.children))

\* flatten_paragraph_nodes: what a paragraph of a tight list leaves.
Flattened(nodes) ==
  [k \in DOMAIN nodes |->
    IF nodes[k].type = "paragraph" THEN [nodes[k] EXCEPT !.type = "text"] ELSE nodes[k]]

ItemNode(token, spread) ==
  NodeOf("listItem", token, [task |-> token.data.task], <<>>,
         IF spread THEN NodesOf(token.children) ELSE Flattened(NodesOf(token.children)))

\* resolve_list and calc_list_position
ListNode(items) ==
  Node("list", items[1].from, Last(items).end.place,
       [mark |-> items[1].data.mark, type |-> items[1].data.type,
        start |-> items[1].data.order, spread |-> IsSpread(items)], <<>>,
       [k \in DOMAIN items |-> ItemNode(items[k], IsSpread(items))])

GroupNode(group) ==
  LET token == group[1]
  IN CASE token.kind = "listItem"           -> ListNode(group)
       [] token.kind = "paragraph"          -> ParagraphNode(token)
       [] token.kind = "heading"            -> HeadingNode(token)
       [] token.kind = "setextHeading"      -> SetextHeadingNode(token)
       [] token.kind = "thematicBreak"      -> ThematicBreakNode(token)
       [] token.kind = "indentedCode"       -> IndentedCodeNode(token)
       [] token.kind = "fencedCode"         -> FencedCodeNode(token)
       [] token.kind = "math"               -> MathNode(token)
       [] token.kind = "html"               -> HtmlNode(token)
       [] token.kind = "table"              -> TableNode(token)
       [] token.kind = "definition"         -> DefinitionNode(token)
       [] token.kind = "ecmaImport"         -> EcmaImportNode(token)
       [] token.kind = "blockquote"         -> BlockquoteNode(token)
       [] token.kind = "admonition"         -> AdmonitionNode(token)
       [] token.kind = "footnoteDefinition" -> FootnoteDefinitionNode(token)

NodesOf(tokens) ==
  LET groups == Groups(tokens) IN [k \in DOMAIN groups |-> GroupNode(groups[k])]
=============================================================================
