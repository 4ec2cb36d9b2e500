-------------------------- MODULE MCMarkdownBlocks --------------------------
EXTENDS MarkdownBlocks

MCRawTags == {<<"s", "c", "r", "i", "p", "t">>}
MCBlockTags == {<<"d", "i", "v">>}

MCEntities == <<>>

MCTab == <<"t0", "t1", "t2", "t3">>

ContainerLines ==
  [from |-> {<<>>, <<"x">>, <<" ", " ", " ", "x">>, <<"-", " ", "x">>, <<"-">>,
             <<" ", " ", "-", " ", "x">>, <<"1", ".", " ", "x">>, <<">", " ", "x">>, <<">">>}, most |-> 4]
LeafLines ==
  [from |-> {<<>>, <<"x">>, <<" ", " ", " ", " ", "x">>, <<"=", "=">>, <<"-", "-", "-">>,
             <<"#", " ", "x">>, <<"tick", "tick", "tick">>, <<"|", "x", "|">>,
             <<"|", "-", "|">>, <<"<", "d", "i", "v", ">">>}, most |-> 3]
FenceLines ==
  [from |-> {<<>>, <<"x">>, <<" ", " ", "x">>, <<"$", "$">>, <<"$", "$", "x", "$", "$">>,
             <<":", ":", ":", "x">>, <<":", ":", ":">>, <<"~", "~", "~", "~", "x">>, <<"~", "~", "~">>,
             <<"<", "!", "-", "-", "x">>, <<"x", "-", "-", ">">>, <<"[", "^", "x", "]", ":", " ", "x">>,
             <<"-", " ", "x">>}, most |-> 3]
DefinitionLines ==
  [from |-> {<<>>, <<"x">>, <<"[", "x">>, <<"x", "]", ":", " ", "x">>,
             <<"[", "x", "]", ":", " ", "x">>, <<"[", "x", "]", ":">>,
             <<"'", "x">>, <<"x", "'">>, <<"x", "'", "x">>}, most |-> 3]
TitleLines ==
  [from |-> {<<>>, <<"x">>, <<"[", "x", "]", ":", " ", "x">>, <<"[", "x", "]", ":">>,
             <<"'", "x">>, <<"x", "'">>, <<"x", "'", "x">>}, most |-> 4]
TabLines ==
  [from |-> {<<>>, MCTab \o <<"x">>, <<" ">> \o MCTab \o <<"x">>, <<"-">> \o MCTab \o <<"x">>,
             <<"-", " ", "x">>, <<"-">> \o MCTab \o MCTab \o <<"x">>, <<">">> \o MCTab \o <<"x">>,
             <<">", " ">> \o MCTab \o <<"x">>, <<">">> \o MCTab \o <<"-", " ", "x">>,
             <<" ">> \o MCTab \o <<"#", " ", "x">>, <<"tick", "tick", "tick">>}, most |-> 3]
InlineLines ==
  [from |-> {<<>>, <<"*", "x">>, <<"x", "*">>, <<">", " ", "x", "*">>, <<"[", "a", "]", ":", " ", "x">>,
             <<"[", "x", "]", "[", "a", "]">>, <<"!", "[", "x">>, <<"]", "(", "x", ")">>,
             <<"tick", "x">>, <<"-", " ", "tick", "x">>, <<"x", " ", " ">>, <<"[", "^", "a", "]">>,
             <<"[", "^", "a", "]", ":", " ", "x">>}, most |-> 3]
ImportLines ==
  LET import(words) ==
        FoldLeft(LAMBDA line, word : line \o <<" ">> \o word,
                 <<"i", "m", "p", "o", "r", "t">>, words)
      from == <<"f", "r", "o", "m">>
      module == <<"'", "m", "'">>
  IN [from |-> {<<>>, <<"x">>, <<"-", " ", "x">>, import(<<module>>), import(<<<<"x">>, from, module>>),
                <<">", " ">> \o import(<<<<"x", ",", "{", "y", "}">>, from, module \o <<";">>>>),
                import(<<<<"{", "x">>, <<"a", "s">>, <<"y", ",", "a", ",", "}">>, from, module>>),
                import(<<<<"i", "f">>, from, module>>)}, most |-> 3]
EscapeLines ==
  [from |-> {<<>>, <<"backslash", "*", "x">>, <<"x", "*">>, <<"*", "x", "*">>,
             <<"*", "x", "backslash", "*", "x", "*">>, <<"_", "x">>, <<"x", "_">>,
             <<"x", "backslash">>, <<"x", " ", " ">>, <<"backslash", ">", " ", "x">>,
             <<"x", " ", "backslash", "#">>, <<"backslash", "=", "=", "=">>,
             <<"backslash", "-", " ", "x">>, <<"backslash", "*", "*", "*">>,
             <<"[", "x", "backslash", "]", "]", "(", "x", ")">>}, most |-> 3]
MCReserved == {<<"i", "f">>}
MCFamilies ==
  {ContainerLines, LeafLines, FenceLines, DefinitionLines, TitleLines, TabLines, InlineLines,
   ImportLines, EscapeLines}

=============================================================================
