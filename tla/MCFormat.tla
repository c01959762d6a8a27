------------------------------ MODULE MCFormat ------------------------------
(* A small instance of Format for TLC: long has 8 bits, int has 4.         *)
EXTENDS Format

Chars == {"%", "l", "d", "p", "q"}
Text  == <<"t", "newline">>

Call(f, a) == [fmt |-> f, args |-> a]

(* Every number with every conversion.                                     *)
Numbers ==
    {Call(f, <<x>>) : x \in 0..(2 ^ LongBits - 1),
                      f \in {<<"%", "d">>, <<"%", "u">>, <<"%", "x">>,
                             <<"%", "p">>, <<"%", "l", "d">>,
                             <<"%", "l", "u">>, <<"%", "l", "x">>}}

(* Every short format, with numbers as arguments.                          *)
Shapes == {Call(f, <<128, 7>>) : f \in {g \in SeqOf(Chars, 4) :
                                           ~IsSuffix(<<"%", "l">>, g)}}

Strings == {Call(<<"%", "s", "%", "c">>, <<s, "!">>) : s \in {Text, NULL}}

AllCases == Numbers \union Shapes \union Strings
=============================================================================
