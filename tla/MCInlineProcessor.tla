------------------------- MODULE MCInlineProcessor -------------------------
EXTENDS InlineProcessor

MCEntities == <<>>
MCDefs == {<<"b">>}
MCNotes == {<<"b">>}

Resource == <<"]", "(", "u", ")">>

BracketText == [from |-> {<<"[">>, <<"]">>, <<"!", "[">>, <<"^", "[">>, Resource,
                          <<"]", "[", "b", "]">>, <<"*">>, <<"backslash">>}, most |-> 5]
CodeText == [from |-> {<<"tick">>, <<"[">>, Resource, <<"*">>, <<"backslash">>}, most |-> 6]
StarText == [from |-> {<<"*">>, <<"b">>, <<" ">>, <<".">>}, most |-> 7]
MarkText == [from |-> {<<"*">>, <<"~">>, <<"$">>, <<"b">>, <<" ">>, <<"eol">>, <<"[", "^", "b", "]">>},
             most |-> 5]

AngleText == [from |-> {<<"<">>, <<">">>, <<"a", "b">>, <<":">>, <<"/">>, <<" ">>, <<"tick">>,
                        <<"!", "-", "-">>, <<"-", "-">>, <<"@", "a">>, <<"[">>, Resource,
                        <<"backslash">>}, most |-> 4]
AddressText == [from |-> {<<"w", "w", "w", ".", "a", ".", "b">>, <<"a", "b", ":", "/", "/">>,
                          <<"a", "@", "b", ".", "c">>, <<"*">>, <<"_">>, <<"(">>, <<")">>, <<"[">>,
                          Resource, <<" ">>}, most |-> 4]

MCFamilies == {BracketText, CodeText, StarText, MarkText, AngleText, AddressText}

=============================================================================
