--------------------------- MODULE RawTokenizers ----------------------------
(* The inline tokenizers whose tokens have no structure of their own: raw   *)
(* HTML, autolinks between angle brackets and the autolinks of GFM, which   *)
(* have no brackets.  A text is a sequence of characters, a range is        *)
(* <from, to).                                                              *)
EXTENDS Characters

CONSTANTS
  None        \* no delimiter

Delimiter(type, from, to, brackets) ==
  [type |-> type, from |-> from, to |-> to, thick |-> to - from, orig |-> to - from,
   brackets |-> brackets]

\* The first of the given delimiters, without those that end nowhere.
Earliest(ds) ==
  LET first(found) ==
        IF found = {} THEN None ELSE CHOOSE d \in found : \A x \in found : d.from <= x.from
  IN first({d \in ds : d.to # 0})

\* eat_optional_characters of the characters xs in <s, e).
EndIn(t, s, e, xs) == MinOf({p \in s..e : p = e \/ t[p] \notin xs})

\* ResultOfRequiredEater: where a scan ended, and whether it found something.
Eaten(valid, next) == [valid |-> valid, next |-> next]

-----------------------------------------------------------------------------
(* Raw HTML.  s is the text up to the end of the range, its "<" is at i;    *)
(* each is the end of the tag, or 0.                                        *)

\* The end of the first word from i on.
WordEnd(s, i, word) == FirstOf({p + Len(word) : p \in {q \in i..Len(s) : HasAt(s, q, word)}})

OpenTagEnd(s, i) ==
  LET named(name) == IF name = i + 1 THEN 0 ELSE TagClose(s, name, TRUE)
  IN IF i + 2 > Len(s) THEN 0 ELSE named(TagEnd(s, i + 1))

ClosingTagEnd(s, i) ==
  LET named(name) == IF name = i + 2 THEN 0 ELSE TagClose(s, name, FALSE)
  IN IF i + 3 > Len(s) \/ s[i + 1] # "/" THEN 0 ELSE named(TagEnd(s, i + 2))

\* The first two hyphens of a comment end it.
CommentEnd(s, i) ==
  LET closed(hyphens) ==
        IF hyphens = 0 \/ ~HasAt(s, hyphens, <<">">>) THEN 0 ELSE hyphens + 1
  IN IF \/ i + 6 > Len(s) \/ ~HasAt(s, i + 1, <<"!", "-", "-">>)
        \/ s[i + 4] = ">" \/ HasAt(s, i + 4, <<"-", ">">>)
     THEN 0 ELSE closed(WordEnd(s, i + 4, <<"-", "-">>))

InstructionEnd(s, i) ==
  IF i + 3 > Len(s) \/ s[i + 1] # "?" THEN 0 ELSE WordEnd(s, i + 2, <<"?", ">">>)

DeclarationEnd(s, i) ==
  LET named(name) ==
        IF name = i + 2 \/ name + 1 > Len(s) \/ s[name] \notin Blank
        THEN 0 ELSE WordEnd(s, name + 1, <<">">>)
  IN IF i + 4 > Len(s) \/ s[i + 1] # "!" THEN 0 ELSE named(SpanEnd(s, i + 2, Range(Upper)))

CDataEnd(s, i) ==
  IF i + 11 > Len(s) \/ ~HasAt(s, i + 1, <<"!", "[", "C", "D", "A", "T", "A", "[">>)
  THEN 0 ELSE WordEnd(s, i + 9, <<"]", "]", ">">>)

\* try_to_eat_delimiter.  What may_have_closer remembers saves scans that
\* find nothing.
HtmlEnd(s, i) ==
  MaxOf({OpenTagEnd(s, i), ClosingTagEnd(s, i), CommentEnd(s, i), InstructionEnd(s, i),
         DeclarationEnd(s, i), CDataEnd(s, i)})

FindHtml(t, s, e) ==
  Earliest({Delimiter("full", p, HtmlEnd(SubSeq(t, 1, e - 1), p), <<>>) :
              p \in {q \in Unescaped(t, s, e) : t[q] = "<"}})

-----------------------------------------------------------------------------
(* Autolinks *)

\* eat_autolink_schema
Schema(t, s, e) ==
  LET run == EndIn(t, s, e, Alphanumeric \cup {"+", ".", "-"})
  IN IF s >= e THEN Eaten(FALSE, s)
     ELSE IF t[s] \notin Letters THEN Eaten(FALSE, s + 1)
     ELSE IF run - s \in 2..32 THEN Eaten(TRUE, run) ELSE Eaten(FALSE, run + 1)

\* eat_absolute_uri: where it ends, or 0.
UriEnd(t, s, e) ==
  LET ended(schema) ==
        IF ~schema.valid \/ schema.next >= e \/ t[schema.next] # ":" THEN 0
        ELSE MinOf({p \in (schema.next + 1)..e : p = e \/ t[p] \in Blank \cup {"<", ">"}})
  IN ended(Schema(t, s, e))

LocalPart == Alphanumeric \cup {".", "!", "#", "$", "%", "&", "'", "*", "+", "/", "=", "?", "^",
                                "_", "tick", "{", "|", "}", "~", "-"}

\* eat_address_part0: a label of at most 63 characters whose first is before
\* i; it does not end with a hyphen.
LabelPartEnd(t, i, e) ==
  LET run == EndIn(t, i, Lesser(e, i + 62), Alphanumeric \cup {"-"})
  IN MaxOf({i} \cup {p \in (i + 1)..run : t[p - 1] # "-"})

RECURSIVE AddressEnd(_, _, _)
AddressEnd(t, i, e) ==
  IF i + 1 < e /\ t[i] = "." /\ t[i + 1] \in Alphanumeric
  THEN AddressEnd(t, LabelPartEnd(t, i + 2, e), e) ELSE i

\* eat_email_address: where it ends, or 0.
EmailEnd(t, s, e) ==
  LET at == EndIn(t, s, e, LocalPart)
  IN IF at = s \/ at + 1 >= e \/ t[at] # "@" \/ t[at + 1] \notin Alphanumeric THEN 0
     ELSE AddressEnd(t, LabelPartEnd(t, at + 2, e), e)

\* The end of the autolink whose "<" is at p, or 0.
AutolinkEnd(t, p, e) ==
  LET closed(content) ==
        IF content = 0 \/ content >= e \/ t[content] # ">" THEN 0 ELSE content + 1
      content(uri) == IF uri # 0 THEN uri ELSE EmailEnd(t, p + 1, e)
  IN IF p + 1 >= e THEN 0 ELSE closed(content(UriEnd(t, p + 1, e)))

FindAutolink(t, s, e) ==
  Earliest({Delimiter("full", p, AutolinkEnd(t, p, e), <<>>) : p \in {q \in s..(e - 1) : t[q] = "<"}})

-----------------------------------------------------------------------------
(* Extended autolinks.  What the code remembers of the local parts and      *)
(* domains it tried saves scans that fail again.                            *)

DomainCharacters == Alphanumeric \cup {"-", "_"}

\* eat_domain_segment, again after each full stop: the bounds of the segments.
RECURSIVE Segments(_, _, _)
Segments(t, s, e) ==
  LET p == EndIn(t, s, e, DomainCharacters)
  IN IF s >= e \/ p = s THEN <<>>
     ELSE <<<<s, p>>>> \o (IF p < e /\ t[p] = "." THEN Segments(t, p + 1, e) ELSE <<>>)

\* eat_valid_domain
Domain(t, s, e) ==
  LET plain(segment) == \A p \in segment[1]..(segment[2] - 1) : t[p] # "_"
      judged(segments, n) ==
        Eaten(n >= 2 /\ plain(segments[n]) /\ plain(segments[n - 1]),
              IF n = 0 THEN s ELSE segments[n][2])
      all(segments) == judged(segments, Len(segments))
  IN all(Segments(t, s, e))

\* eat_optional_domain_follows: up to a blank or a "<", but for punctuation
\* at the end, closing parentheses without an opening one and an entity.
FollowsEnd(t, s, e) ==
  LET count(x, kept) == Cardinality({p \in s..(kept - 1) : t[p] = x})
      entity(end, amp) ==
        IF end > s /\ t[end - 1] = ";" /\ amp > s /\ t[amp - 1] = "&" THEN amp - 1 ELSE end
      trimmed(end) ==
        entity(end, MaxOf({s} \cup {p \in (s + 1)..(end - 1) : t[p - 1] \notin Alphanumeric}))
      balanced(kept) ==
        trimmed(MinOf({p \in s..kept :
                  /\ kept - p <= Greater(0, count(")", kept) - count("(", kept))
                  /\ \A q \in p..(kept - 1) : t[q] = ")"}))
      kept(all) ==
        balanced(MaxOf({s} \cup {p \in (s + 1)..all :
                   t[p - 1] \notin {"?", "!", ".", ",", ":", "*", "_", "~"}}))
  IN kept(MinOf({p \in s..e : p = e \/ t[p] \in Blank \cup {"<"}}))

WithFollows(domain, t, e) ==
  IF domain.valid THEN Eaten(TRUE, FollowsEnd(t, domain.next, e)) ELSE domain

\* eat_extended_url
ExtendedUrl(t, s, e) ==
  LET url(schema) ==
        IF ~schema.valid \/ schema.next + 3 >= e \/ ~HasAt(t, schema.next, <<":", "/", "/">>)
        THEN Eaten(FALSE, schema.next + 1)
        ELSE WithFollows(Domain(t, schema.next + 3, e), t, e)
  IN url(Schema(t, s, e))

HasWww(t, s, e) == s + 3 < e /\ \A k \in 0..2 : t[s + k] \in {"w", "W"} /\ t[s + 3] = "."

\* eat_extend_email_address
ExtendedEmail(t, s, e) ==
  LET judged(at, stop, end) ==
        Eaten(t[stop - 1] \notin {"-", "_"} /\ \E p \in (at + 2)..(end - 1) : t[p] = ".", end)
      host(at, stop) == judged(at, stop, IF t[stop - 1] = "." THEN stop - 1 ELSE stop)
      local(at) ==
        IF at = s \/ at + 2 >= e \/ t[at] # "@" \/ t[at + 1] \notin Alphanumeric
        THEN Eaten(FALSE, at + 1)
        ELSE host(at, MinOf({p \in (at + 2)..e :
                     p = e \/ t[p] \notin Alphanumeric \cup {".", "-", "_"}
                     \/ (t[p - 1] = "." /\ t[p] = ".")}))
  IN local(EndIn(t, s, e, Alphanumeric \cup {".", "-", "_", "+"}))

\* eat_extended_protocol_autolink: mailto: and, with a resource, xmpp:.
Protocol(t, s, e) ==
  LET reached(slash, resource) == IF resource > slash + 1 THEN resource ELSE slash
      addressed(prefix, email) ==
        IF ~email.valid THEN Eaten(FALSE, Lesser(Greater(email.next, s + Len(prefix)), e))
        ELSE Eaten(TRUE,
               IF prefix[1] = "x" /\ email.next < e /\ t[email.next] = "/"
               THEN reached(email.next, EndIn(t, email.next + 1, e, Alphanumeric \cup {"@", "."}))
               ELSE email.next)
      after(prefix) ==
        IF prefix = <<>> \/ s + Len(prefix) > e THEN None
        ELSE addressed(prefix, ExtendedEmail(t, s + Len(prefix), e))
      mailto == <<"m", "a", "i", "l", "t", "o", ":">>
      xmpp == <<"x", "m", "p", "p", ":">>
  IN after(IF HasAt(t, s, mailto) THEN mailto ELSE IF HasAt(t, s, xmpp) THEN xmpp ELSE <<>>)

\* What begins at j: a URL, a www. domain or an email address, or where the
\* search goes on.
Candidate(t, j, e) ==
  LET local == EndIn(t, j, e, Alphanumeric \cup {".", "-", "_", "+"})
      tried(url, www, email) ==
        IF url.valid THEN url
        ELSE IF www.valid THEN www
        ELSE IF email.valid THEN email
        ELSE Eaten(FALSE, Greater(j + 1, MinOf({e, url.next, www.next, local})))
  IN tried(ExtendedUrl(t, j, e),
           IF HasWww(t, j, e) THEN WithFollows(Domain(t, j + 4, e), t, e)
           ELSE Eaten(FALSE, EndIn(t, j, e, DomainCharacters)),
           ExtendedEmail(t, j, e))

\* find_delimiter_entry: a link begins where the block does (at start) or
\* after a blank or one of * _ ~ ( (then "after" holds); underscores right
\* before it, from mail on, may belong to an email address.
RECURSIVE FindExtended(_, _, _, _, _, _)
FindExtended(t, start, j, after, mail, e) ==
  LET linked(p, answer) ==
        IF answer.valid THEN Delimiter("full", p, answer.next, <<>>)
        ELSE FindExtended(t, start, Greater(j + 1, answer.next), FALSE, 0, e)
      mailed(email) ==
        IF email.valid THEN linked(mail, email)
        ELSE linked(j, IF after \/ j = start THEN Candidate(t, j, e) ELSE Eaten(FALSE, j + 1))
      begun(protocol) ==
        IF protocol # None THEN linked(j, protocol)
        ELSE IF t[j] \in Blank \cup {"*", "_", "~", "("}
        THEN FindExtended(t, start, j + 1, TRUE,
                          IF t[j] # "_" THEN 0 ELSE IF mail = 0 THEN j ELSE mail, e)
        ELSE mailed(IF mail = 0 THEN Eaten(FALSE, j) ELSE ExtendedEmail(t, mail, e))
  IN IF j >= e THEN None
     ELSE begun(IF after \/ j = start THEN Protocol(t, j, e) ELSE None)
=============================================================================
