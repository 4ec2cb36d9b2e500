----------------------------- MODULE Characters -----------------------------
(* The characters the tokenizers tell apart, and the scans over them that   *)
(* block and inline tokenizers share.  A character is the string of it, or  *)
(* its name; a tab is four characters, as the code stores it.               *)
EXTENDS Integers, Sequences, FiniteSets, SequencesExt

CONSTANT Entities  \* ENTITY_REFERENCES: the characters that names, which end with ";", stand for

Tab == {"t0", "t1", "t2", "t3"}
Space == {" "} \cup Tab
Blank == Space \cup {"eol"}
Digits == <<"0", "1", "2", "3", "4", "5", "6", "7", "8", "9">>
Lower == <<"a", "b", "c", "d", "e", "f", "g", "h", "i", "j", "k", "l", "m",
           "n", "o", "p", "q", "r", "s", "t", "u", "v", "w", "x", "y", "z">>
Upper == <<"A", "B", "C", "D", "E", "F", "G", "H", "I", "J", "K", "L", "M",
           "N", "O", "P", "Q", "R", "S", "T", "U", "V", "W", "X", "Y", "Z">>
Letters == Range(Lower) \cup Range(Upper)
Alphanumeric == Letters \cup Range(Digits)
Punctuation ==
  {"*", "_", "~", "tick", "$", "[", "]", "(", ")", "<", ">", "!", "^", "backslash",
   ".", ",", ":", ";", "?", "'", "quote", "#", "%", "&", "+", "-", "/", "=", "@",
   "{", "|", "}"}

MinOf(S) == CHOOSE x \in S : \A y \in S : x <= y
MaxOf(S) == CHOOSE x \in S : \A y \in S : x >= y
Lesser(a, b) == IF a < b THEN a ELSE b
Greater(a, b) == IF a < b THEN b ELSE a

-----------------------------------------------------------------------------
(* Scanning *)

\* The end of the characters of xs from i on.
SpanEnd(s, i, xs) == MinOf({p \in i..(Len(s) + 1) : p > Len(s) \/ s[p] \notin xs})

\* eat_optional_whitespaces
SkipBlanks(s, i) == SpanEnd(s, i, Blank)

\* Where the text <i, e) ends without the blanks at its end.
TrimEnd(s, i, e) == MaxOf({i} \cup {p \in (i + 1)..e : s[p - 1] \notin Blank})

Trimmed(s, i, e) ==
  LET from == Lesser(SkipBlanks(s, i), e) IN SubSeq(s, from, TrimEnd(s, from, e) - 1)

\* The positions of <i, e) a scan stops at: a backslash takes the next
\* character with it.
RECURSIVE Unescaped(_, _, _)
Unescaped(s, i, e) ==
  IF i >= e THEN {}
  ELSE {i} \cup Unescaped(s, IF s[i] = "backslash" THEN i + 2 ELSE i + 1, e)

HasAt(s, i, word) == i + Len(word) <= Len(s) + 1 /\ SubSeq(s, i, i + Len(word) - 1) = word

\* The printable ASCII characters, in their order.
Ascii ==
  <<" ", "!", "quote", "#", "$", "%", "&", "'", "(", ")", "*", "+", ",", "-", ".", "/">>
  \o Digits \o <<":", ";", "<", "=", ">", "?", "@">>
  \o Upper \o <<"[", "backslash", "]", "^", "_", "tick">>
  \o Lower \o <<"{", "|", "}", "~">>
HexDigits == Digits \o <<"A", "B", "C", "D", "E", "F">>

IndexIn(xs, x) == CHOOSE k \in DOMAIN xs : xs[k] = x

\* The character of a number that is none for NUL, surrogates and what is
\* beyond Unicode.
CharacterOf(n) ==
  CASE n \in 32..126 -> <<Ascii[n - 31]>>
    [] n = 9         -> <<"t0", "t1", "t2", "t3">>
    [] n = 10        -> <<"eol">>
    [] n \in {0} \cup 55296..57343 \/ n > 1114111 -> <<"replacement">>
    [] OTHER         -> <<"other">>

Uppercase(x) == IF x \in Range(Lower) THEN Upper[IndexIn(Lower, x)] ELSE x

\* parse_numeric_entity: "#" and up to seven digits, or "#x" and up to six.
NumericEntity(s, i) ==
  LET number(from, to, radix) ==
        FoldLeft(LAMBDA n, x : n * radix + IndexIn(HexDigits, Uppercase(x)) - 1, 0,
                 SubSeq(s, from, to - 1))
      of(from, to, radix) ==
        IF to <= from \/ to > Len(s) \/ s[to] # ";" THEN <<>>
        ELSE <<[to |-> to + 1, value |-> CharacterOf(number(from, to, radix))]>>
      digits(from, most, radix) ==
        of(from, Lesser(from + most, SpanEnd(s, from, {x \in Range(s) :
                          Uppercase(x) \in {HexDigits[k] : k \in 1..radix}})), radix)
  IN IF s[i] # "#" THEN <<>>
     ELSE IF i < Len(s) /\ s[i + 1] \in {"x", "X"} THEN digits(i + 2, 6, 16)
     ELSE digits(i + 1, 7, 10)

\* eat_entity_reference, behind an ampersand.
Entity(s, i) ==
  LET ends == {p \in i..Len(s) : s[p] = ";"}
      named(end) ==
        IF SubSeq(s, i, end) \notin DOMAIN Entities THEN NumericEntity(s, i)
        ELSE <<[to |-> end + 1, value |-> Entities[SubSeq(s, i, end)]]>>
  IN IF ends = {} THEN <<>> ELSE named(MinOf(ends))

\* calc_escaped_string_from_node_points: a backslash before punctuation is
\* dropped, and entities are replaced.
EscapedString(s) ==
  LET live == Unescaped(s, 1, Len(s) + 1)
      escapes(p) == p < Len(s) /\ s[p] = "backslash" /\ s[p + 1] \in Punctuation
      within(p, entity) ==
        \E q \in DOMAIN entity : entity[q] # <<>> /\ q < p /\ p < entity[q][1].to
      of(p, entity) == IF p \in DOMAIN entity /\ entity[p] # <<>> THEN entity[p][1].value ELSE <<s[p]>>
      kept(entity) ==
        FlattenSeq([p \in DOMAIN s |->
          IF (p \in live /\ escapes(p)) \/ within(p, entity) THEN <<>> ELSE of(p, entity)])
  IN kept([p \in {q \in live : s[q] = "&"} |-> Entity(s, p + 1)])

\* encode_link_destination
Uri == (Alphanumeric \cup Punctuation)
       \ {"quote", "backslash", "[", "]", "|", "^", "tick", "<", ">", "{", "}"}

Encoded(url) ==
  LET percent(n) == <<"%", HexDigits[(n \div 16) + 1], HexDigits[(n % 16) + 1]>>
      of(x) == CASE x \in Uri         -> <<x>>
                 [] x = "t0"          -> percent(9)
                 [] x \in Tab         -> <<>>
                 [] x = "eol"         -> percent(10)
                 [] x \in Range(Ascii) -> percent(IndexIn(Ascii, x) + 31)
                 [] OTHER             -> <<"%", x>>
  IN FlattenSeq([k \in DOMAIN url |-> of(url[k])])

LowerCase(name) ==
  [k \in DOMAIN name |->
     IF name[k] \in Range(Upper) THEN Lower[IndexIn(Upper, name[k])]
     ELSE name[k]]

\* resolve_label_to_identifier: the words of a label, whatever their case.
Identifier(label) ==
  LET spaced(s, x) ==
        IF x \notin Blank THEN Append(s, x)
        ELSE IF s = <<>> \/ Last(s) = " " THEN s ELSE Append(s, " ")
      joined(s) == IF s # <<>> /\ Last(s) = " " THEN Front(s) ELSE s
  IN LowerCase(joined(FoldLeft(spaced, <<>>, label)))

-----------------------------------------------------------------------------
(* HTML tags *)

\* eat_html_tag_name: where the name ends, i if there is none.
TagEnd(s, i) ==
  IF i > Len(s) \/ s[i] \notin Letters THEN i ELSE SpanEnd(s, i, Alphanumeric \cup {"-"})

\* The first place, or 0.
FirstOf(places) == IF places = {} THEN 0 ELSE MinOf(places)

\* The end of an attribute value that begins at i, or 0.
ValueEnd(s, i) ==
  LET quoted == {q \in (i + 1)..Len(s) : s[q] = s[i]}
      bare == SpanEnd(s, i, Range(s) \ (Blank \cup {"quote", "'", "=", "<", ">", "tick"}))
  IN IF i > Len(s) THEN 0
     ELSE IF s[i] \in {"quote", "'"} THEN FirstOf({q + 1 : q \in quoted})
     ELSE FirstOf({bare} \ {i})

\* eat_html_attribute: where it ends, i if there is none.
AttributeEnd(s, i) ==
  LET given(name, value) == IF value = 0 THEN name ELSE value
      assigned(name, equals) ==
        IF equals > Len(s) \/ s[equals] # "=" THEN name
        ELSE given(name, ValueEnd(s, SkipBlanks(s, equals + 1)))
      ended(name) == assigned(name, SkipBlanks(s, name))
      begun(b) ==
        IF b = i \/ b > Len(s) \/ s[b] \notin Letters \cup {"_", ":"} THEN i
        ELSE ended(SpanEnd(s, b + 1, Alphanumeric \cup {"_", ".", ":", "-"}))
  IN begun(SkipBlanks(s, i))

RECURSIVE AttributesEnd(_, _)
AttributesEnd(s, i) ==
  LET next(j) == IF j = i THEN i ELSE AttributesEnd(s, j) IN next(AttributeEnd(s, i))

\* The end of the tag whose name ends at i, or 0.
TagClose(s, i, opening) ==
  LET slash(j) == IF opening /\ j <= Len(s) /\ s[j] = "/" THEN j + 1 ELSE j
      close(j) == IF j <= Len(s) /\ s[j] = ">" THEN j + 1 ELSE 0
  IN close(slash(SkipBlanks(s, IF opening THEN AttributesEnd(s, i) ELSE i)))
=============================================================================
