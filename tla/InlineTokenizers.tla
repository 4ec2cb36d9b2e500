-------------------------- MODULE InlineTokenizers --------------------------
(* What the built-in inline tokenizers answer the inline processor: where   *)
(* the next delimiter of a range is, whether an opener and a closer pair,   *)
(* and which tokens a pair or a single delimiter becomes.                   *)
(*                                                                          *)
(* A text is a sequence of characters, a range is <from, to), a label is    *)
(* known by its identifier.  The context c of a match                       *)
(* has the text, the identifiers of its definitions (defs) and footnote     *)
(* definitions (notes), the range of the block and the group of tokenizers  *)
(* that takes over inside a pair.                                           *)
EXTENDS RawTokenizers, Tokenizers

CONSTANTS
  MaxLabel,   \* uri.rs: the longest link label and its brackets
  MaxParens   \* MAX_LINK_DESTINATION_PAREN_DEPTH

\* The tokenizers whose delimiters come in pairs, and those that have tokens
\* for a delimiter on its own.
Pairing == {t.name : t \in {x \in Range(YozoraInlines) : "pairs" \in x.hooks}}
OnTheirOwn == {t.name : t \in {x \in Range(YozoraInlines) : "singles" \in x.hooks}}

-----------------------------------------------------------------------------
(* Scanning *)

\* eat_optional_characters: the end of the run of x that starts at s.
RunEnd(t, s, e, x) == MinOf({p \in s..e : p = e \/ t[p] # x})

\* eat_optional_whitespaces
BlanksEnd(t, s, e) == MinOf({p \in s..Greater(s, e) : p >= e \/ t[p] \notin Blank})

\* The data of a token is what its parse hook needs: the thickness of its
\* delimiters, where its resource begins, or the type and the label of a
\* reference.
TokenWith(kind, from, to, data, children) ==
  [kind |-> kind, from |-> from, to |-> to, data |-> data, children |-> children, group |-> 0]

Token(kind, from, to, children) == TokenWith(kind, from, to, <<>>, children)

\* resolve_link_label_and_identifier
Label(t, s, e) ==
  LET label == Identifier(SubSeq(t, s, e - 1)) IN IF label = <<>> THEN None ELSE label

\* eat_link_label: the end of the label that starts at s, or 0.
LabelEnd(t, s, e) ==
  LET ended(p) == IF p = 0 \/ t[p] = "[" THEN 0 ELSE p + 1
      limit == Lesser(s + 1 + MaxLabel, e)
  IN ended(FirstOf({p \in Unescaped(t, s + 1, limit) : t[p] \in {"[", "]"}}))

Bracket(t, s, e) ==
  LET bracket(to) == [from |-> s, to |-> to, label |-> Label(t, s + 1, to - 1)]
  IN bracket(LabelEnd(t, s, e))

-----------------------------------------------------------------------------
(* find_delimiter, tokenizer by tokenizer *)

\* Emphasis.  A delimiter at the start of the searched range counts as a
\* closer, one at its end as an opener, whatever is on the other side.
IsOpenerRun(c, s, e, from, to) ==
  /\ to # c.to
  /\ \/ to = e
     \/ /\ c.text[to] \notin Blank
        /\ \/ c.text[to] \notin Punctuation
           \/ from <= s
           \/ c.text[from - 1] \in Blank \cup Punctuation

IsCloserRun(c, s, e, from, to) ==
  /\ from # c.from
  /\ \/ from = s
     \/ /\ c.text[from - 1] \notin Blank
        /\ \/ c.text[from - 1] \notin Punctuation
           \/ to >= e
           \/ c.text[to] \in Blank \cup Punctuation

\* The runs of the characters xs in <s, e), as pairs of bounds.
Runs(t, s, e, xs) ==
  LET seen == Unescaped(t, s, e)
  IN {<<p, RunEnd(t, p, e, t[p])>> :
        p \in {q \in seen : t[q] \in xs /\ ~(q - 1 \in seen /\ t[q - 1] = t[q])}}

\* A run that opens, closes or both; one that does neither is no delimiter.
RunDelimiter(r, opens, closes) ==
  Delimiter(IF opens /\ closes THEN "both" ELSE IF opens THEN "opener" ELSE "closer",
            r[1], IF opens \/ closes THEN r[2] ELSE 0, <<>>)

FindEmphasis(c, s, e) ==
  LET t == c.text
      bar(r, opens, closes) ==
        RunDelimiter(r, opens /\ (closes => r[1] <= s \/ t[r[1] - 1] \in Punctuation),
                        closes /\ (opens => r[2] <= Len(t) /\ t[r[2]] \in Punctuation))
      delimiter(r, opens, closes) ==
        IF t[r[1]] = "_" THEN bar(r, opens, closes) ELSE RunDelimiter(r, opens, closes)
  IN Earliest({delimiter(r, IsOpenerRun(c, s, e, r[1], r[2]), IsCloserRun(c, s, e, r[1], r[2])) :
                 r \in Runs(t, s, e, {"*", "_"})})

FindDelete(c, s, e) ==
  LET t == c.text
  IN Earliest({RunDelimiter(r, r[2] = e \/ t[r[2]] \notin Blank,
                               r[1] = s \/ t[r[1] - 1] \notin Blank) :
                 r \in {x \in Runs(t, s, e, {"~"}) : x[2] - x[1] <= 2}})

\* Inline math without backticks looks at the block, not at the range.
FindMath(c, s, e) ==
  LET t == c.text
      outer(x) == x \in {None} \cup Blank \cup Punctuation
      delimiter(r, left, right) ==
        RunDelimiter(r, r[2] - r[1] > 1 \/ (right # None /\ left # "tick" /\ outer(left)),
                        r[2] - r[1] > 1 \/ (left # None /\ right # "tick" /\ outer(right)))
  IN Earliest({delimiter(r, IF r[1] = c.from THEN None ELSE t[r[1] - 1],
                            IF r[2] = c.to THEN None ELSE t[r[2]]) :
                 r \in {<<x[1], RunEnd(t, x[1], c.to, "$")>> : x \in Runs(t, s, e, {"$"})}})

\* collect_potential_delimiters of inline code: a backslash before a run of
\* backticks keeps the run from opening a span, its first backtick at least.
\* The character after any other backslash is looked at in its own right.
RECURSIVE Backticks(_, _, _)
Backticks(t, i, e) ==
  IF i >= e THEN {}
  ELSE IF t[i] = "backslash" /\ i + 1 < e /\ t[i + 1] = "tick"
  THEN LET j == RunEnd(t, i + 2, e, "tick")
       IN {[from |-> i + 1, to |-> j, opens |-> FALSE, closes |-> TRUE]}
          \cup {[from |-> i + 2, to |-> j, opens |-> TRUE, closes |-> FALSE]  :
                   x \in {y \in {j} : y > i + 2}}
          \cup Backticks(t, j, e)
  ELSE IF t[i] = "tick"
  THEN LET j == RunEnd(t, i + 1, e, "tick")
       IN {[from |-> i, to |-> j, opens |-> TRUE, closes |-> TRUE]} \cup Backticks(t, j, e)
  ELSE Backticks(t, i + 1, e)

\* collect_potential_delimiters of inline math: `$ opens and $` closes.
RECURSIVE Dollars(_, _, _)
Dollars(t, i, e) ==
  IF i >= e THEN {}
  ELSE IF t[i] = "backslash" THEN Dollars(t, i + 2, e)
  ELSE IF t[i] \notin {"tick", "$"} THEN Dollars(t, i + 1, e)
  ELSE LET j == RunEnd(t, i + 1, e, "tick")
           dollar == j < e /\ t[j] = "$"
           here == IF t[i] = "tick" /\ dollar
                   THEN {[from |-> i, to |-> j + 1, opens |-> TRUE, closes |-> FALSE]}
                   ELSE IF t[i] = "$" /\ j > i + 1 /\ ~dollar
                   THEN {[from |-> i, to |-> j, opens |-> FALSE, closes |-> TRUE]}
                   ELSE {}
       IN here \cup Dollars(t, j, e)

\* find_next_delimiter: the first opener at or after s and the first closer
\* after it that is as long.
FindSpan(potential, s) ==
  LET first(ds) == CHOOSE d \in ds : \A x \in ds : d.from <= x.from
      closers(o) == {d \in potential : /\ d.from > o.from /\ d.closes
                                       /\ d.to - d.from = o.to - o.from}
      span(o) == [Delimiter("full", o.from, first(closers(o)).to, <<>>)
                    EXCEPT !.thick = o.to - o.from, !.orig = o.to - o.from]
      opened(openers) == IF openers = {} THEN None ELSE span(first(openers))
  IN opened({o \in potential : o.opens /\ o.from >= s /\ closers(o) # {}})

\* A hard break: the end of a line after two blanks or a backslash.
FindBreak(c, s, e) ==
  LET t == c.text
      before(i) == MinOf({p \in s..(i - 1) : \A q \in p..(i - 1) : t[q] = t[i - 1]})
      marks(i) == IF t[i - 1] = "backslash" THEN (i - before(i)) % 2 = 1
                  ELSE t[i - 1] = " " /\ i - before(i) >= 2
      at(i) == IF i = 0 THEN None
               ELSE Delimiter("full", IF t[i - 1] = "backslash" THEN i - 1 ELSE before(i),
                              i + 1, <<>>)
  IN at(FirstOf({i \in (s + 1)..(e - 1) : t[i] = "eol" /\ marks(i)}))

-----------------------------------------------------------------------------
(* Brackets *)

\* eat_link_destination: where it ends, or 0.
RECURSIVE Destination(_, _, _, _)
Destination(t, i, e, depth) ==
  IF i >= e THEN IF depth = 0 THEN i ELSE 0
  ELSE IF t[i] = "backslash" /\ i + 1 < e /\ t[i + 1] \in Punctuation
  THEN Destination(t, i + 2, e, depth)
  ELSE IF t[i] = "(" THEN IF depth = MaxParens THEN 0 ELSE Destination(t, i + 1, e, depth + 1)
  ELSE IF t[i] = ")" THEN IF depth = 0 THEN i ELSE Destination(t, i + 1, e, depth - 1)
  ELSE IF t[i] \in Blank THEN i
  ELSE Destination(t, i + 1, e, depth)

DestinationEnd(t, s, e) ==
  LET ended(p) == IF p = 0 \/ t[p] # ">" THEN 0 ELSE p + 1
  IN IF s >= e THEN 0
     ELSE IF t[s] # "<" THEN Destination(t, s, e, 0)
     ELSE ended(FirstOf({p \in Unescaped(t, s + 1, e) : t[p] \in {"<", ">", "eol"}}))

\* eat_link_title: where it ends, or 0; no title ends where it starts.
TitleEnd(t, s, e) ==
  LET level(live, p) == Cardinality({q \in live : q <= p /\ t[q] = "("})
                        - Cardinality({q \in live : q <= p /\ t[q] = ")"})
      nested(live) == FirstOf({p + 1 : p \in {q \in live : level(live, q) = 0}})
  IN IF s >= e THEN 0
     ELSE IF t[s] = ")" THEN s
     ELSE IF t[s] \in {"quote", "'"}
     THEN FirstOf({p + 1 : p \in {q \in Unescaped(t, s + 1, e) : t[q] = t[s]}})
     ELSE IF t[s] = "(" THEN nested(Unescaped(t, s, e)) ELSE 0

\* The end of the "](destination title)" whose bracket is at p, or 0.
ResourceEnd(c, p, e) ==
  LET closed(i) == IF i >= c.to \/ c.text[i] # ")" THEN 0 ELSE i + 1
      titled(i) == IF i = 0 THEN 0 ELSE closed(BlanksEnd(c.text, i, c.to))
      leading(i) ==
        IF i = 0 THEN 0 ELSE titled(TitleEnd(c.text, BlanksEnd(c.text, i, c.to), c.to))
  IN IF ~(p + 1 < e /\ c.text[p + 1] = "(") THEN 0
     ELSE leading(DestinationEnd(c.text, BlanksEnd(c.text, p + 2, c.to), c.to))

\* is_escaped_node_points
IsEscaped(t, p, from) ==
  LET slashes == {q \in from..(p - 1) : \A r \in q..(p - 1) : t[r] = "backslash"}
  IN Cardinality(slashes) % 2 = 1

FindLink(c, s, e) ==
  LET t == c.text
      live == Unescaped(t, s, e)
      image(p) == p > c.from /\ t[p - 1] = "!" /\ ~IsEscaped(t, p - 1, c.from)
  IN Earliest({Delimiter("opener", p, p + 1, <<>>) : p \in {q \in live : t[q] = "[" /\ ~image(q)}}
        \cup {Delimiter("closer", p, ResourceEnd(c, p, e), <<>>) : p \in {q \in live : t[q] = "]"}})

ImageOpeners(t, s, e) ==
  {Delimiter("opener", p, p + 2, <<>>) :
     p \in {q \in Unescaped(t, s, e) : t[q] = "!" /\ q + 1 < e /\ t[q + 1] = "["}}

FindImage(c, s, e) ==
  Earliest(ImageOpeners(c.text, s, e)
     \cup {Delimiter("closer", p, ResourceEnd(c, p, e), <<>>) :
             p \in {q \in Unescaped(c.text, s, e) : c.text[q] = "]"}})

FindImageReference(c, s, e) ==
  LET t == c.text
      closer(p, b) == IF b = None \/ b.to = 0 THEN Delimiter("closer", p, p + 1, <<>>)
                      ELSE Delimiter("closer", p, b.to, <<b>>)
  IN Earliest(ImageOpeners(t, s, e)
        \cup {closer(p, IF p + 1 < e /\ t[p + 1] = "[" THEN Bracket(t, p + 1, e) ELSE None) :
                p \in {q \in Unescaped(t, s, e) : t[q] = "]"}})

FindFootnote(c, s, e) ==
  LET t == c.text
      live == Unescaped(t, s, e)
  IN Earliest({Delimiter("opener", p, p + 2, <<>>) :
                 p \in {q \in live : t[q] = "^" /\ q + 1 < e /\ t[q + 1] = "["}}
        \cup {Delimiter("closer", p, p + 1, <<>>) : p \in {q \in live : t[q] = "]"}})

\* eat_footnote_label: [^label], not blank, on one line, without brackets.
FootnoteLabelEnd(t, s, e) ==
  LET ended(p) == IF p = 0 \/ t[p] # "]" \/ Label(t, s + 2, p) = None THEN 0 ELSE p + 1
  IN IF s + 1 >= e \/ t[s + 1] # "^" THEN 0
     ELSE ended(FirstOf({p \in Unescaped(t, s + 2, Lesser(e, s + 3 + MaxLabel)) :
                           t[p] \in {"[", "]", "eol"}}))

FindFootnoteReference(c, s, e) ==
  Earliest({Delimiter("full", p, FootnoteLabelEnd(c.text, p, e), <<>>) :
              p \in {q \in Unescaped(c.text, s, e) : c.text[q] = "["}})

\* Link references: the brackets [a][b]... that follow the one at i.  The
\* last may be empty; one that has no label leaves its "[" to be an opener.
RECURSIVE Chain(_, _, _, _)
Chain(t, i, e, brackets) ==
  LET after(rest) == IF rest.type = None THEN [rest EXCEPT !.type = "full"] ELSE rest
      joined(b) ==
        IF b.to = 0 THEN [type |-> "cut", to |-> i + 1, brackets |-> brackets]
        ELSE IF b.label = None
        THEN [type |-> "full", to |-> b.to, brackets |-> Append(brackets, b)]
        ELSE after(Chain(t, b.to, e, Append(brackets, b)))
  IN IF i >= e \/ t[i] # "[" THEN [type |-> None, to |-> i, brackets |-> brackets]
     ELSE joined(Bracket(t, i, e))

RECURSIVE FindLinkReference(_, _, _)
FindLinkReference(c, i, e) ==
  LET t == c.text
      next(p) == FindLinkReference(c, p, e)
      open == t[i] = "["
      k == IF open THEN i ELSE i + 1
      found(b, rest) ==
        IF b.to = 0 THEN Delimiter("opener", k, k + 1, <<>>)
        ELSE IF b.label = None THEN next(b.to)
        ELSE IF rest.type = None
        THEN Delimiter(IF open THEN "opener" ELSE "closer", i, IF open THEN i + 1 ELSE b.to, <<b>>)
        ELSE Delimiter(IF rest.type = "full" THEN "full" ELSE IF open THEN "opener" ELSE "both",
                       i, rest.to, rest.brackets)
      at(b) == found(b, Chain(t, b.to, e, <<b>>))
  IN IF i >= e THEN None
     ELSE IF t[i] = "backslash" THEN next(i + 2)
     ELSE IF open \/ (t[i] = "]" /\ i + 1 < e /\ t[i + 1] = "[") THEN at(Bracket(t, k, e))
     ELSE next(i + 1)

Find(h, c, s, e) ==
  CASE h = "html"               -> FindHtml(c.text, s, e)
    [] h = "autolink"           -> FindAutolink(c.text, s, e)
    [] h = "autolinkExtension"  -> FindExtended(c.text, c.from, s, FALSE, 0, e)
    [] h = "inlineMathBacktick" -> FindSpan(Dollars(c.text, c.from, c.to), s)
    [] h = "inlineCode"         -> FindSpan(Backticks(c.text, c.from, c.to), s)
    [] h = "footnoteReference"  -> FindFootnoteReference(c, s, e)
    [] h = "footnote"           -> FindFootnote(c, s, e)
    [] h = "image"              -> FindImage(c, s, e)
    [] h = "imageReference"     -> FindImageReference(c, s, e)
    [] h = "link"               -> FindLink(c, s, e)
    [] h = "linkReference"      -> FindLinkReference(c, s, e)
    [] h = "inlineMath"         -> FindMath(c, s, e)
    [] h = "emphasis"           -> FindEmphasis(c, s, e)
    [] h = "delete"             -> FindDelete(c, s, e)
    [] h = "break"              -> FindBreak(c, s, e)

-----------------------------------------------------------------------------
(* Brackets and links inside a pair *)

Links == {"link", "linkReference", "autolink", "autolinkExtension"}

\* A mutant of HasToken that misses a token right after the opener.
RECURSIVE HasTokenAfter(_, _, _, _)
HasTokenAfter(tokens, kinds, s, e) ==
  \E i \in DOMAIN tokens :
    /\ tokens[i].from > s /\ tokens[i].from < e
    /\ tokens[i].kind \in kinds \/ HasTokenAfter(tokens[i].children, kinds, s, e)

\* contains_link_token and contains_footnote: a token of the kinds in <s, e),
\* at any depth.
RECURSIVE HasToken(_, _, _, _)
HasToken(tokens, kinds, s, e) ==
  \E i \in DOMAIN tokens :
    /\ tokens[i].to > s /\ tokens[i].from < e
    /\ tokens[i].kind \in kinds \/ HasToken(tokens[i].children, kinds, s, e)

\* check_balanced_brackets_status of <s, e) without what the tokens cover: -1
\* for a bracket closed too early, 1 for one never closed.
BracketStatus(c, s, e, tokens) ==
  LET level(live, p) == Cardinality({q \in live : q <= p /\ c.text[q] = "["})
                        - Cardinality({q \in live : q <= p /\ c.text[q] = "]"})
      status(live) == IF \E p \in live : level(live, p) < 0 THEN -1
                      ELSE IF live # {} /\ level(live, MaxOf(live)) > 0 THEN 1 ELSE 0
      gaps(inside, k) == {<<IF i = 1 THEN s ELSE inside[i - 1].to,
                            IF i = k THEN e ELSE inside[i].from>> : i \in 1..k}
      between(inside) ==
        gaps(inside, MinOf({Len(inside) + 1} \cup {i \in DOMAIN inside : inside[i].to > e}))
  IN status(UNION {Unescaped(c.text, g[1], g[2]) :
                     g \in between(SelectSeq(tokens, LAMBDA x : x.from >= s))})

-----------------------------------------------------------------------------
(* is_delimiter_pair: whether the two pair and, when they do not, which of   *)
(* them stays active.                                                        *)

Paired == [paired |-> TRUE, opener |-> FALSE, closer |-> FALSE]
Apart(opener, closer) == [paired |-> FALSE, opener |-> opener, closer |-> closer]

\* A mutant of IsEmphasisPair that applies the rule of three to closers only.
EmphasisPairByCloser(c, o, d) ==
  IF \/ c.text[o.from] # c.text[d.from]
     \/ d.type = "both" /\ (o.orig + d.orig) % 3 = 0 /\ o.orig % 3 # 0
  THEN Apart(TRUE, TRUE) ELSE Paired


IsEmphasisPair(c, o, d) ==
  IF \/ c.text[o.from] # c.text[d.from]
     \/ /\ "both" \in {o.type, d.type}
        /\ (o.orig + d.orig) % 3 = 0 /\ o.orig % 3 # 0
  THEN Apart(TRUE, TRUE) ELSE Paired

IsMathPair(o, d) ==
  IF o.thick = d.thick /\ o.type \in {"opener", "both"} /\ d.type \in {"closer", "both"}
  THEN Paired ELSE Apart(TRUE, TRUE)

IsBracketPair(c, o, d, inner) ==
  LET pair(status) == IF status = 0 THEN Paired ELSE Apart(status = 1, status = -1)
  IN pair(BracketStatus(c, o.to, d.from, inner))

IsFootnotePair(c, o, d, inner) ==
  IF HasToken(inner, {"footnote"}, o.to, d.from) THEN Apart(FALSE, FALSE)
  ELSE IsBracketPair(c, o, d, inner)

IsLinkPair(c, o, d, inner) ==
  IF HasToken(inner, Links, o.to, d.from) THEN Apart(FALSE, FALSE)
  ELSE IsBracketPair(c, o, d, inner)

IsLinkReferencePair(c, o, d, inner) ==
  LET known(pair) ==
        IF pair.paired /\ (d.brackets = <<>> \/ Head(d.brackets).label \notin c.defs)
        THEN Apart(FALSE, FALSE) ELSE pair
  IN known(IsLinkPair(c, o, d, inner))

IsPair(h, c, o, d, inner) ==
  CASE h \notin Pairing -> Paired
    [] h = "emphasis" -> IsEmphasisPair(c, o, d)
    [] h = "delete" -> IF o.thick = d.thick THEN Paired ELSE Apart(TRUE, TRUE)
    [] h = "inlineMath" -> IsMathPair(o, d)
    [] h \in {"image", "imageReference"} -> IsBracketPair(c, o, d, inner)
    [] h = "footnote" -> IsFootnotePair(c, o, d, inner)
    [] h = "link" -> IsLinkPair(c, o, d, inner)
    [] h = "linkReference" -> IsLinkReferencePair(c, o, d, inner)

-----------------------------------------------------------------------------
(* The tokens of delimiters *)

\* resolve_internal_tokens: the range is matched later by the groups that are
\* left, unless the tokens already cover it.
Internal(c, inner, s, e) ==
  LET reach(inRange, i) == MaxOf({s} \cup {inRange[k].to : k \in 1..i})
      covered(inRange) ==
        \E n \in 1..Len(inRange) :
          /\ \A i \in 1..n : inRange[i].from <= reach(inRange, i - 1)
          /\ reach(inRange, n) >= e
  IN IF covered(SelectSeq(inner, LAMBDA x : x.to > s /\ x.from < e)) THEN inner
     ELSE <<[Token("deferred", s, e, inner) EXCEPT !.group = c.group + 1]>>

\* create_reference_token: b is the bracket with the label.
Reference(kind, type, b, from, to, children) ==
  TokenWith(kind, from, to, [type |-> type, from |-> b.from + 1, to |-> b.to - 1], children)

\* process_single_delimiter of link references: what the brackets [a][b]... of
\* a delimiter are without an opener before them.  "last" is the bracket that
\* ended the previous reference.
RECURSIVE BracketReferences(_, _, _, _)
BracketReferences(c, brackets, k, last) ==
  LET rest(i, x) == BracketReferences(c, brackets, i + 1, x)
      from(x, to, type, b) ==
        <<Reference("linkReference", type, b, x.from, to,
                    Internal(c, <<>>, x.from + 1, x.to - 1))>>
      at(i) ==
        IF i = 0 THEN <<>>
        ELSE IF last + 1 < i THEN from(brackets[i - 1], brackets[i].to, "full", brackets[i]) \o rest(i, i)
        ELSE IF i = Len(brackets) THEN from(brackets[i], brackets[i].to, "shortcut", brackets[i])
        ELSE IF brackets[i + 1].label = None 
             THEN from(brackets[i], brackets[i + 1].to, "collapsed", brackets[i])
        ELSE rest(i, last)
  IN at(FirstOf({i \in k..Len(brackets) : brackets[i].label \in c.defs}))

\* process_single_delimiter
Single(h, c, d) ==
  CASE h \notin OnTheirOwn -> <<>>
    [] h \in {"html", "autolink"} -> <<Token(h, d.from, d.to, <<>>)>>
    [] h = "inlineCode" -> <<TokenWith(h, d.from, d.to, [thick |-> d.thick], <<>>)>>
    [] h = "autolinkExtension" ->
         <<Token(h, d.from, d.to, <<Token("text", d.from, d.to, <<>>)>>)>>
    [] h = "inlineMathBacktick" ->
         <<TokenWith("inlineMath", d.from, d.to, [thick |-> d.thick], <<>>)>>
    [] h = "break" -> <<Token("break", d.from, d.to, <<>>)>>
    [] h = "footnoteReference" -> IF Label(c.text, d.from + 2, d.to - 1) \in c.notes
                                  THEN <<Token("footnoteReference", d.from, d.to, <<>>)>>
                                  ELSE <<>>
    [] h = "linkReference" -> BracketReferences(c, d.brackets, 1, 0)

Result(tokens, opener, closer) == [tokens |-> tokens, opener |-> opener, closer |-> closer]

EmphasisPair(c, o, d, inner) ==
  LET k == IF o.thick > 1 /\ d.thick > 1 THEN 2 ELSE 1
      kind == IF k = 2 THEN "strong" ELSE "emphasis"
  IN Result(<<Token(kind, o.to - k, d.from + k, Internal(c, inner, o.to, d.from))>>,
            IF o.thick > k THEN [o EXCEPT !.to = @ - k, !.thick = @ - k] ELSE None,
            IF d.thick > k THEN [d EXCEPT !.from = @ + k, !.thick = @ - k] ELSE None)

LinkReferencePair(c, o, d, inner) ==
  LET b == Head(d.brackets)
      rest == Delimiter(IF d.type = "both" THEN "opener" ELSE "full",
                        b.to, d.to, Tail(d.brackets))
  IN Result(Single("linkReference", c, o)
              \o <<Reference("linkReference", "full", b, o.to - 1, b.to,
                              Internal(c, inner, o.to, d.from))>>, None, rest)

ImageReferencePair(c, o, d, inner) ==
  LET full == d.brackets # <<>> /\ Head(d.brackets).label # None
      own == Bracket(c.text, o.to - 1, d.from + 1)
      reference(type, b) ==
        IF b.label \in c.defs
        THEN <<Reference("imageReference", type, b, o.from, d.to,
                         Internal(c, inner, o.to, d.from))>>
        ELSE inner
      type == IF d.brackets = <<>> THEN "shortcut" ELSE "collapsed"
  IN Result(IF full THEN reference("full", Head(d.brackets))
            ELSE IF own.to = d.from + 1 THEN reference(type, own) ELSE inner,
            None, None)

\* process_delimiter_pair
Pair(h, c, o, d, inner) ==
  CASE h = "emphasis" -> EmphasisPair(c, o, d, inner)
    [] h = "linkReference" -> LinkReferencePair(c, o, d, inner)
    [] h = "imageReference" -> ImageReferencePair(c, o, d, inner)
    [] h = "inlineMath" ->
         Result(<<TokenWith(h, o.from, d.to, [thick |-> o.thick], <<>>)>>, None, None)
    [] h \in {"image", "link"} ->
         Result(<<TokenWith(h, o.from, d.to, [resource |-> d.from],
                            Internal(c, inner, o.to, d.from))>>, None, None)
    [] h \in {"delete", "footnote"} ->
         Result(<<Token(h, o.from, d.to, Internal(c, inner, o.to, d.from))>>, None, None)
=============================================================================
