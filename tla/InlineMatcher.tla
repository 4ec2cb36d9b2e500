--------------------------- MODULE InlineMatcher ---------------------------
(* The inline processor.  Each group of tokenizers of one priority walks    *)
(* the text between the tokens of the groups before it; its delimiters are  *)
(* paired over one stack; what a pair encloses is left to the later groups  *)
(* as a deferred range, and text without a token goes to the fallback.      *)
EXTENDS InlineTokenizers

\* The built-in tokenizers by priority, each group in the order of
\* registration.
Groups == [g \in DOMAIN GroupsOf(YozoraInlines) |-> NamesOf(GroupsOf(YozoraInlines)[g])]

-----------------------------------------------------------------------------
(* SinglePriorityDelimiterProcessor.  hook_delimiter_stacks holds, for each *)
(* tokenizer, the places of its delimiters in the stack.                    *)

\* reset
Fresh(higher) == [higher |-> higher, ht |-> 1, stack |-> <<>>, tokens |-> <<>>]

Push(p, h, d) ==
  [p EXCEPT !.stack =
     Append(@, [hook |-> h, d |-> d, inactive |-> FALSE, at |-> Len(p.tokens)])]

\* A mutant of Cut that removes the opener only.
CutOpener(p, q) ==
  [p EXCEPT !.stack = SubSeq(@, 1, q - 1) \o SubSeq(@, q + 1, Len(@))]

\* cut_stale_branch: the stack below place q and below the inactive
\* delimiters under it.
Cut(p, q) ==
  LET kept == MaxOf({0} \cup {i \in 1..(q - 1) : ~p.stack[i].inactive})
  IN [p EXCEPT !.stack = SubSeq(@, 1, kept)]

\* append_higher_priority_tokens: those before the delimiter d; those it
\* covers are dropped.
HigherBefore(p, d) ==
  SelectSeq(SubSeq(p.higher, p.ht, Len(p.higher)), LAMBDA x : x.from < d.from)

\* A mutant of TakeHigher that drops the token right after a delimiter.
TakeHigherPast(p, d) ==
  LET after == {i \in p.ht..Len(p.higher) : p.higher[i].from > d.to}
  IN [p EXCEPT !.tokens = @ \o HigherBefore(p, d),
               !.ht = MinOf(after \cup {Len(p.higher) + 1})]


TakeHigher(p, d) ==
  LET after == {i \in p.ht..Len(p.higher) : p.higher[i].from >= d.to}
  IN [p EXCEPT !.tokens = @ \o HigherBefore(p, d),
               !.ht = MinOf(after \cup {Len(p.higher) + 1})]

\* The places of the active delimiters of h below q, the nearest last.
ActiveBelow(p, h, q) == {i \in DOMAIN p.stack : i < q /\ p.stack[i].hook = h /\ ~p.stack[i].inactive}

\* find_nearest_paired_delimiter: where the opener starts, or None.
RECURSIVE NearestPaired(_, _, _, _, _)
NearestPaired(p, c, h, d, q) ==
  LET from(i, pair) ==
        IF pair.paired THEN p.stack[i].d.from
        ELSE IF pair.closer THEN NearestPaired(p, c, h, d, i) ELSE None
      at(i) ==
        IF i = 0 THEN None
        ELSE from(i, IsPair(h, c, p.stack[i].d, d,
                            SubSeq(p.tokens, p.stack[i].at + 1, Len(p.tokens)) \o HigherBefore(p, d)))
  IN at(MaxOf({0} \cup ActiveBelow(p, h, q)))

\* The inner loop of consume: the opener o at place q and the closer d until
\* one of them is used up.  "below" bounds the places of the next openers.
RECURSIVE PairUp(_, _, _, _, _, _, _, _)
PairUp(p, c, h, inner, o, d, q, below) ==
  LET done(p1, inner1, d1) == [p |-> p1, inner |-> inner1, d |-> d1, below |-> below]
      apart(pair) ==
        done(IF pair.opener THEN p ELSE [p EXCEPT !.stack[q].inactive = TRUE],
             (IF pair.opener THEN <<>> ELSE Single(h, c, o)) \o inner
               \o (IF pair.closer THEN <<>> ELSE Single(h, c, d)),
             IF pair.closer THEN d ELSE None)
      left(cut, r) ==
        PairUp(IF r.opener = None THEN cut ELSE Push(cut, h, r.opener), c, h,
               r.tokens, r.opener, r.closer, q, Len(cut.stack) + 1)
      judged(pair) == IF pair.paired THEN left(Cut(p, q), Pair(h, c, o, d, inner)) ELSE apart(pair)
  IN IF o = None \/ d = None THEN done(p, inner, d)
     ELSE IF d.type = "opener" THEN done(Push(p, h, d), inner, None)
     ELSE IF d.type = "full" THEN done(p, inner, d)
     ELSE judged(IsPair(h, c, o, d, inner))

\* The outer loop of consume: opener after opener, while the closer is left.
RECURSIVE PairDown(_, _, _, _, _, _)
PairWith(p, c, h, inner, d, q) ==
  LET next(r) == PairDown(r.p, c, h, r.inner, r.d, r.below)
  IN IF q = 0 \/ d = None \/ d.type = "full"
     THEN [p |-> [p EXCEPT !.tokens = @ \o inner], d |-> d]
     ELSE next(PairUp([p EXCEPT !.tokens = SubSeq(@, 1, p.stack[q].at)], c, h,
                      SubSeq(p.tokens, p.stack[q].at + 1, Len(p.tokens)) \o inner,
                      p.stack[q].d, d, q, q))

PairDown(p, c, h, inner, d, below) ==
  PairWith(p, c, h, inner, d, MaxOf({0} \cup ActiveBelow(p, h, below)))

\* consume, and the push of what is left of a delimiter of type "both".
Consume(p, c, h, d) ==
  LET left(r) ==
        IF r.d = None THEN r.p
        ELSE IF r.d.type \in {"full", "closer"} THEN [r.p EXCEPT !.tokens = @ \o Single(h, c, r.d)]
        ELSE IF d.type = "both" THEN Push(r.p, h, r.d) ELSE r.p
  IN IF p.stack # <<>> THEN left(PairDown(p, c, h, <<>>, d, Len(p.stack) + 1))
     ELSE IF d.type = "both" THEN Push(p, h, d) ELSE p

\* process, once the tokens before the delimiter are taken.
Process(p, c, h, d) ==
  CASE d.type = "opener" -> Push(p, h, d)
    [] d.type \in {"both", "closer"} -> Consume(p, c, h, d)
    [] d.type = "full" -> [p EXCEPT !.tokens = @ \o Single(h, c, d)]

\* merge_sorted_token_stack
RECURSIVE Merge(_, _)
Merge(s, t) ==
  IF s = <<>> THEN t ELSE IF t = <<>> THEN s
  ELSE IF Head(s).from < Head(t).from THEN <<Head(s)>> \o Merge(Tail(s), t)
  ELSE <<Head(t)>> \o Merge(s, Tail(t))

\* done: the delimiters left alone, and the tokens not reached.
Done(p, c) ==
  LET left == FlattenSeq([i \in DOMAIN p.stack |->
                IF p.stack[i].inactive THEN <<>> ELSE Single(p.stack[i].hook, c, p.stack[i].d)])
  IN Merge(p.tokens, left) \o SubSeq(p.higher, p.ht, Len(p.higher))

-----------------------------------------------------------------------------
(* match_inline_tokens *)

\* A sequence, evaluated once rather than at each use.
Evaluated(seq) == seq \o <<>>

\* FindDelimiterGeneratorBy: what a tokenizer found last serves again until
\* the range ends elsewhere or starts after it.
NotSearched == [end |-> 0, found |-> None]

Searched(last, h, c, s, e) ==
  IF last.end = e /\ (last.found = None \/ last.found.from >= s) THEN last
  ELSE [end |-> e, found |-> Find(h, c, s, e)]

\* find_nearest_delimiters, among what the tokenizers of the group have found:
\* the delimiters, with their tokenizers, to be processed at the nearest place.
Nearest(p, c, group, caches) ==
  LET found(k) == caches[k].found
      ranked(closers) ==
        {r \in {[k |-> k, at |-> NearestPaired(p, c, group[k], found(k), Len(p.stack) + 1)] :
                  k \in closers} : r.at # None}
      best(nearest, ranks) ==
        IF ranks = {} THEN {k \in nearest : found(k).type # "closer"}
        ELSE {MinOf({r.k : r \in {x \in ranks : \A y \in ranks : x.at >= y.at}})}
      chosen(nearest, full, closers) ==
        IF Cardinality(nearest) = 1 THEN nearest
        ELSE IF full # {} THEN {MinOf(full)}
        ELSE IF Cardinality(closers) < 2 THEN nearest
        ELSE best(nearest, ranked(closers))
      item(k) == [hook |-> group[k], d |-> found(k)]
      items(ks) == [i \in 1..Cardinality(ks) |->
                      item(CHOOSE k \in ks : Cardinality({y \in ks : y < k}) = i - 1)]
      answer(nearest) ==
        [at |-> nearest,
         items |-> Evaluated(items(chosen(nearest,
                     {k \in nearest : found(k).type = "full"},
                     {k \in nearest : found(k).type \in {"both", "closer"}})))]
      among(hits) == answer({k \in hits : \A j \in hits : found(k).from <= found(j).from})
  IN among({k \in DOMAIN group : found(k) # None})

\* The first token that ends after i, from the k-th on, and where the text
\* that it leaves begins.
RECURSIVE NextGap(_, _, _)
NextGap(higher, k, i) ==
  IF k > Len(higher) \/ i < higher[k].from THEN [k |-> k, i |-> i]
  ELSE NextGap(higher, k + 1, Greater(i, higher[k].to))

\* One group over <gap.i, e) between the tokens of the groups before it, of
\* which gap.k is the next.
RECURSIVE Walk(_, _, _, _, _, _, _)
EndOfGap(higher, e, gap) == IF gap.k > Len(higher) THEN e ELSE higher[gap.k].from

WalkFrom(p, c, group, higher, e, gap, found, near) ==
  LET next == IF near.items # <<>>
              THEN MaxOf({gap.i + 1} \cup {near.items[x].d.to : x \in DOMAIN near.items})
              ELSE IF near.at = {} THEN EndOfGap(higher, e, gap)
              ELSE found[MinOf(near.at)].found.from + 1
  IN Walk(FoldLeft(LAMBDA q, x : Process(TakeHigher(q, x.d), c, x.hook, x.d), p, near.items),
          c, group, higher, e, NextGap(higher, gap.k, next), found)

WalkTo(p, c, group, higher, e, gap, found) ==
  WalkFrom(p, c, group, higher, e, gap, found, Nearest(p, c, group, found))

Walk(p, c, group, higher, e, gap, caches) ==
  IF gap.i >= e THEN Done(p, c)
  ELSE WalkTo(p, c, group, higher, e, gap,
              Evaluated([x \in DOMAIN group |->
                           Searched(caches[x], group[x], c, gap.i, EndOfGap(higher, e, gap))]))

\* match_inline_tokens_from_index: the groups from g on over <s, e) of a block.
RECURSIVE Match(_, _, _, _, _)
Match(block, higher, s, e, g) ==
  IF g > Len(Groups) THEN higher
  ELSE Match(block, Walk(Fresh(higher),
                     [text |-> block.text, defs |-> block.defs, notes |-> block.notes,
                      from |-> s, to |-> e, group |-> g],
                     Groups[g], higher, e, NextGap(higher, 1, s),
                     [x \in DOMAIN Groups[g] |-> NotSearched]),
             s, e, g + 1)

\* resolve_fallback_tokens_with_api: text in the gaps.
RECURSIVE Fallback(_, _, _)
Fallback(found, i, e) ==
  LET gap(to) == IF i < to THEN <<Token("text", i, to, <<>>)>> ELSE <<>>
  IN IF found = <<>> THEN gap(e)
     ELSE gap(Head(found).from) \o <<Head(found)>> \o Fallback(Tail(found), Head(found).to, e)

RECURSIVE Resolve(_, _)
Resolve(block, found) ==
  IF found = <<>> THEN <<>>
  ELSE IF Head(found).kind # "deferred"
  THEN <<[Head(found) EXCEPT !.children = Resolve(block, @)]>> \o Resolve(block, Tail(found))
  ELSE LET x == Head(found)
       IN Resolve(block, Fallback(Match(block, x.children, x.from, x.to, x.group), x.from, x.to)
                     \o Tail(found))

\* match_inline_tokens_with_context: the tokens of a text among the identifiers
\* of definitions and footnote definitions.
MatchInlines(t, defs, notes) ==
  Resolve([text |-> t, defs |-> defs, notes |-> notes],
          <<[Token("deferred", 1, Len(t) + 1, <<>>) EXCEPT !.group = 1]>>)
=============================================================================
