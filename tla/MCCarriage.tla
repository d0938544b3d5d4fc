------------------------------ MODULE MCCarriage -------------------------------
(* Carriage on a small instance: texts of up to MaxCharacters characters, and *)
(* numbers in base two, so that their digits grow within such texts.          *)
EXTENDS Carriage

CONSTANT MaxCharacters

Utf8 == [plain |-> <<"plain">>, markup |-> <<"markup">>, wide |-> <<"wide1", "wide2", "wide3">>]

MCBlocks ==
    {FlattenSeq([i \in DOMAIN chars |-> Utf8[chars[i]]]) :
        chars \in BoundedSeq(DOMAIN Utf8, MaxCharacters) \ {<<>>}}

MCEdits == {Utf8.plain \o Utf8.markup \o Utf8.plain, Utf8.wide \o Utf8.plain}

MCEvents == BoundedSeq(Characters, MaxCharacters)

\* Events as a serializer writes them: a separator stands inside a string, between
\* two other characters of it or its quotation marks.
StringEvents ==
    {text \in MCEvents : \A i \in DOMAIN text : text[i] = "separator" =>
        i \in 2..Len(text) - 1 /\ {text[i - 1], text[i + 1]} = {"other"}}

Binary == [n \in 0..3 * MaxCharacters |-> 1 + Cardinality({k \in 1..4 : 2 ^ k <= n})]
================================================================================
