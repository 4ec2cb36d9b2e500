-------------------------- MODULE InlineProcessor --------------------------
(* A block of text and the tokens it is matched to.  The text grows a piece *)
(* at a time.                                                               *)
EXTENDS InlineMatcher

CONSTANTS
  Families,   \* bound: the texts, as records of the character sequences they are
              \* made of (from) and of how many (most)
  Defs,       \* identifiers of link definitions
  Notes       \* identifiers of footnote definitions

VARIABLES
  family,  \* what the text is made of
  pieces,  \* of how many sequences it is
  text,    \* the text of the block
  tokens   \* what the processor matches it to

vars == <<family, pieces, text, tokens>>

-----------------------------------------------------------------------------
Init ==
  /\ family \in Families
  /\ pieces = 0
  /\ text = <<>>
  /\ tokens = <<>>

Extend(x) ==
  /\ pieces < family.most
  /\ pieces' = pieces + 1
  /\ UNCHANGED family
  /\ text' = text \o x
  /\ tokens' = MatchInlines(text', Defs, Notes)

Next == \E x \in family.from : Extend(x)

Spec == Init /\ [][Next]_vars

-----------------------------------------------------------------------------
(* Properties *)

\* The tokens of a level follow one another without gap or overlap, none is
\* empty, and those inside a token lie within its delimiters: no character of
\* a text is lost or taken twice, however the delimiters interleave.
Tiles(level, s, e) ==
  LET start(i) == IF i = 1 THEN s ELSE level[i - 1].to
  IN IF level = <<>> THEN s = e
     ELSE /\ \A i \in DOMAIN level : level[i].from = start(i) /\ level[i].from < level[i].to
          /\ Last(level).to = e

RECURSIVE TilesInside(_)
TilesInside(level) ==
  \A x \in Range(level) :
    x.children # <<>> =>
      /\ x.kind # "autolinkExtension" =>
           x.from < Head(x.children).from /\ Last(x.children).to < x.to
      /\ Tiles(x.children, Head(x.children).from, Last(x.children).to)
      /\ TilesInside(x.children)

EveryCharacterOnce == Tiles(tokens, 1, Len(text) + 1) /\ TilesInside(tokens)

\* The tokens of a tree, without their children.
RECURSIVE TokensOf(_)
TokensOf(level) ==
  {[kind |-> level[i].kind, from |-> level[i].from, to |-> level[i].to] : i \in DOMAIN level}
  \cup UNION {TokensOf(level[i].children) : i \in DOMAIN level}

\* A link never contains a link, at any depth.
NoLinkInLink ==
  \A x \in TokensOf(tokens), y \in TokensOf(tokens) :
    x.kind \in Links /\ y.kind \in Links /\ x.from <= y.from /\ y.to <= x.to => x = y

\* Code spans, tags and autolinks bind more tightly than any other construct,
\* and among them the one that begins first: the leftmost of them, one after
\* the other, are tokens, but for those in the destination of a link or an
\* image.
Atoms ==
  LET end == Len(text) + 1
      c == [text |-> text, from |-> 1, to |-> end]
      after[s \in 1..end] ==
        LET from(d) == IF d = None THEN {} ELSE {d} \cup after[d.to]
        IN from(Earliest({Find(h, c, s, end) :
                            h \in {"html", "inlineCode", "inlineMathBacktick", "autolink"}} \ {None}))
  IN after[1]

AtomsBindTightest ==
  \A d \in Atoms :
    \/ \E x \in TokensOf(tokens) :
         /\ x.kind \in {"html", "inlineCode", "inlineMath", "autolink"}
         /\ x.from = d.from /\ x.to = d.to
    \/ \E x \in TokensOf(tokens) :
         /\ x.kind \in {"link", "image"}
         /\ \E p \in x.from..d.from : text[p] = "]" /\ text[p + 1] = "("
         /\ d.to <= x.to

\* The reference: the algorithm of the GFM specification, "process emphasis",
\* for the delimiter runs ds from the k-th closer on.
RECURSIVE Emphasis(_, _)
Emphasis(ds, k) ==
  LET d == ds[k]
      mayOpen(i) == /\ ds[i].opens /\ ds[i].from < ds[i].to
                    /\ (ds[i].closes \/ d.opens) => \/ (ds[i].orig + d.orig) % 3 # 0
                                                    \/ ds[i].orig % 3 = 0
      without(i, n) == [j \in DOMAIN ds |-> IF j = i THEN [ds[i] EXCEPT !.to = @ - n]
                                            ELSE IF j = k THEN [d EXCEPT !.from = @ + n]
                                            ELSE [ds[j] EXCEPT !.opens = @ /\ j \notin i..k]]
      pair(i, n) == {[kind |-> IF n = 2 THEN "strong" ELSE "emphasis",
                      from |-> ds[i].to - n, to |-> d.from + n]}
                    \cup Emphasis(without(i, n), IF d.from + n = d.to THEN k + 1 ELSE k)
      opener(i) == IF i = 0 THEN Emphasis(ds, k + 1)
                   ELSE pair(i, IF ds[i].to - ds[i].from > 1 /\ d.to - d.from > 1 THEN 2 ELSE 1)
  IN IF k > Len(ds) THEN {}
     ELSE opener(IF d.closes THEN MaxOf({0} \cup {i \in 1..(k - 1) : mayOpen(i)}) ELSE 0)

\* Left- and right-flanking runs of stars.
StarRuns ==
  LET end == Len(text) + 1
      blank(p) == p \notin 1..Len(text) \/ text[p] \in Blank
      mark(p) == p \in 1..Len(text) /\ text[p] \in Punctuation
      run(r) == [from |-> r[1], to |-> r[2], orig |-> r[2] - r[1],
                 opens |-> /\ ~blank(r[2])
                           /\ mark(r[2]) => blank(r[1] - 1) \/ mark(r[1] - 1),
                 closes |-> /\ ~blank(r[1] - 1)
                            /\ mark(r[1] - 1) => blank(r[2]) \/ mark(r[2])]
      runs == SetToSortSeq(Runs(text, 1, end, {"*"}), LAMBDA r, q : r[1] < q[1])
  IN [i \in DOMAIN runs |-> run(runs[i])]

\* The delimiters of the processor, its stacks and its deferred ranges make
\* emphasis of stars what the specification makes of it.
EmphasisAsSpecified ==
  (\A i \in DOMAIN text : text[i] \in {"*", "b", ".", " "}) =>
    {x \in TokensOf(tokens) : x.kind # "text"} = Emphasis(StarRuns, 1)

=============================================================================
