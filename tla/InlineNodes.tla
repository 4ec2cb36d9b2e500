---------------------------- MODULE InlineNodes ----------------------------
(* What the parse hooks of the inline tokenizers make of the tokens of a    *)
(* block.  A block b has its text and, for each character, its place in the *)
(* document.  A node has its type, its first place (from) and the one after *)
(* its last (to), its data and its children; text is for nodes of lines.    *)
EXTENDS InlineMatcher

\* calc_position
Node(type, b, from, to, data, children) ==
  [type |-> type, from |-> b.places[from], to |-> b.places[to - 1] + 1,
   data |-> data, text |-> <<>>, children |-> children]

NodeOf(type, b, x, data, children) == Node(type, b, x.from, x.to, data, children)

Slice(b, from, to) == SubSeq(b.text, from, to - 1)

-----------------------------------------------------------------------------
(* Text *)

\* normalize_soft_line_break_whitespace: no blanks on either side of the end
\* of a line.
WithoutSpaces(s) == SubSeq(s, 1, MaxOf({0} \cup {k \in DOMAIN s : s[k] \notin Space}))

SoftBreaks(s) ==
  FoldLeft(LAMBDA kept, x :
             IF x = "eol" THEN Append(WithoutSpaces(kept), x)
             ELSE IF kept # <<>> /\ x \in Space /\ Last(kept) = "eol" THEN kept
             ELSE Append(kept, x), <<>>, s)

TextNode(b, x) ==
  NodeOf("text", b, x, [value |-> SoftBreaks(EscapedString(Slice(b, x.from, x.to)))], <<>>)

HtmlNode(b, x) == NodeOf("html", b, x, [value |-> Slice(b, x.from, x.to)], <<>>)
BreakNode(b, x) == NodeOf("break", b, x, <<>>, <<>>)

\* is_code_padding: one blank at each end of a span is dropped, unless the
\* span has nothing else.
Padding == {" ", "eol"}

CodeValue(b, s, e) ==
  LET value(from, to) ==
        [k \in 1..(to - from) |-> IF b.text[from + k - 1] = "eol" THEN " " ELSE b.text[from + k - 1]]
  IN IF /\ s + 2 < e
        /\ b.text[s] \in Padding /\ b.text[e - 1] \in Padding
        /\ \E p \in s..(e - 1) : b.text[p] \notin Padding
     THEN value(s + 1, e - 1) ELSE value(s, e)

InlineCodeNode(b, x) ==
  NodeOf("inlineCode", b, x,
         [value |-> CodeValue(b, x.from + x.data.thick, x.to - x.data.thick)], <<>>)

InlineMathNode(b, x) ==
  NodeOf("inlineMath", b, x,
         [value |-> CodeValue(b, x.from + x.data.thick, x.to - x.data.thick)], <<>>)

-----------------------------------------------------------------------------
(* Links, images and references *)

Mailto == <<"m", "a", "i", "l", "t", "o", ":">>

\* format_url
LinkData(url, title) == [url |-> Encoded(url), titled |-> title # <<>>,
                         title |-> IF title = <<>> THEN <<>> ELSE title[1]]

AutolinkNode(b, x) ==
  LET address == Slice(b, x.from + 1, x.to - 1)
      uri == UriEnd(b.text, x.from + 1, x.to) # 0
  IN NodeOf("link", b, x, LinkData(IF uri THEN address ELSE Mailto \o address, <<>>),
            <<Node("text", b, x.from + 1, x.to - 1, [value |-> address], <<>>)>>)

\* AutolinkExtensionContentType
AddressPrefix(b, x) ==
  LET t == b.text
  IN IF ExtendedUrl(t, x.from, x.to).valid \/ Protocol(t, x.from, x.to) # None THEN <<>>
     ELSE IF HasWww(t, x.from, x.to) /\ Domain(t, x.from + 4, x.to).valid
     THEN <<"h", "t", "t", "p", ":", "/", "/">>
     ELSE Mailto

AutolinkExtensionNode(b, x, children) ==
  NodeOf("link", b, x, LinkData(AddressPrefix(b, x) \o Slice(b, x.from, x.to), <<>>), children)

\* The destination and the title of "](destination title)", whose bracket is
\* at p.
Destined(b, p, e) ==
  LET t == b.text
      start == BlanksEnd(t, p + 2, e)
      end == DestinationEnd(t, start, e)
      begin == BlanksEnd(t, end, e)
      stop == TitleEnd(t, begin, e)
      inner == IF start < end /\ t[start] = "<" THEN 1 ELSE 0
  IN LinkData(EscapedString(Trimmed(t, start + inner, end - inner)),
              IF begin = stop THEN <<>> ELSE <<EscapedString(Slice(b, begin + 1, stop - 1))>>)

LinkNode(b, x, children) == NodeOf("link", b, x, Destined(b, x.data.resource, x.to), children)

\* calc_image_alt
RECURSIVE Alt(_)
Alt(nodes) ==
  FlattenSeq([k \in DOMAIN nodes |->
    CASE nodes[k].type \in {"html", "inlineCode", "inlineMath", "text"} -> nodes[k].data.value
      [] nodes[k].type \in {"image", "imageReference"} -> nodes[k].data.alt
      [] OTHER -> Alt(nodes[k].children)])

ImageNode(b, x, children) ==
  LET link == Destined(b, x.data.resource, x.to)
  IN NodeOf("image", b, x, [url |-> link.url, titled |-> link.titled, title |-> link.title,
                            alt |-> Alt(children)], <<>>)

Labelled(b, x) ==
  LET label == Slice(b, x.data.from, x.data.to)
  IN [label |-> label, identifier |-> Identifier(label), type |-> x.data.type]

LinkReferenceNode(b, x, children) == NodeOf("linkReference", b, x, Labelled(b, x), children)

ImageReferenceNode(b, x, children) ==
  LET named == Labelled(b, x)
  IN NodeOf("imageReference", b, x,
            [label |-> named.label, identifier |-> named.identifier, type |-> named.type,
             alt |-> Alt(children)], <<>>)

FootnoteReferenceNode(b, x) ==
  LET label == Slice(b, x.from + 2, x.to - 1)
  IN NodeOf("footnoteReference", b, x, [label |-> label, identifier |-> Identifier(label)], <<>>)

-----------------------------------------------------------------------------
FootnoteNode(b, x, children) == NodeOf("footnote", b, x, <<>>, children)
DeleteNode(b, x, children) == NodeOf("delete", b, x, <<>>, children)
EmphasisNode(b, x, children) == NodeOf(x.kind, b, x, <<>>, children)

Parsed(b, x, children) ==
  CASE x.kind = "text"              -> TextNode(b, x)
    [] x.kind = "html"              -> HtmlNode(b, x)
    [] x.kind = "break"             -> BreakNode(b, x)
    [] x.kind = "inlineCode"        -> InlineCodeNode(b, x)
    [] x.kind = "inlineMath"        -> InlineMathNode(b, x)
    [] x.kind = "autolink"          -> AutolinkNode(b, x)
    [] x.kind = "autolinkExtension" -> AutolinkExtensionNode(b, x, children)
    [] x.kind = "link"              -> LinkNode(b, x, children)
    [] x.kind = "image"             -> ImageNode(b, x, children)
    [] x.kind = "linkReference"     -> LinkReferenceNode(b, x, children)
    [] x.kind = "imageReference"    -> ImageReferenceNode(b, x, children)
    [] x.kind = "footnoteReference" -> FootnoteReferenceNode(b, x)
    [] x.kind = "footnote"          -> FootnoteNode(b, x, children)
    [] x.kind = "delete"            -> DeleteNode(b, x, children)
    [] x.kind \in {"emphasis", "strong"} -> EmphasisNode(b, x, children)

\* parse_inline_tokens
RECURSIVE NodesOf(_, _)
NodesOf(b, tokens) ==
  [k \in DOMAIN tokens |-> Parsed(b, tokens[k], NodesOf(b, tokens[k].children))]

\* process_inlines
Inlines(text, places, defs, notes) ==
  IF text = <<>> THEN <<>>
  ELSE NodesOf([text |-> text, places |-> places], MatchInlines(text, defs, notes))
=============================================================================
