----------------------------- MODULE MCNumbers -----------------------------
(* Bytes of two bits, so that an int has 8 bits and a long long 16; decimal *)
(* digits, of which two fit an int.                                         *)
EXTENDS Moves

Bin(u, n, dg, sc, s, w, t) ==
  [usage |-> u, size |-> n, digits |-> dg, scale |-> sc, signed |-> s, swap |-> w, truncate |-> t]
Dec(u, dg, sc, s, t) ==
  [usage |-> u, size |-> dg, digits |-> dg, scale |-> sc, signed |-> s, swap |-> FALSE, truncate |-> t]

\* digits of a binary field of n bytes of two bits
DigitsIn(n) == IF n <= 3 THEN 1 ELSE IF n = 4 THEN 2 ELSE IF n <= 6 THEN 3 ELSE 4

MCFields ==
     {Bin("comp5", n, DigitsIn(n), 0, s, w, FALSE) : n \in {1, 2, 3, 4, 6, 8}, s \in BOOLEAN, w \in BOOLEAN}
  \union {Bin("binary", n, DigitsIn(n), sc, TRUE, TRUE, TRUE) : n \in {3, 4, 8}, sc \in {0, 1}}
  \union {Bin("comp5", n, DigitsIn(n), 0, s, FALSE, TRUE) : n \in {4, 8}, s \in BOOLEAN}
  \union {Bin("binary", 3, 1, 1, FALSE, TRUE, FALSE)}
  \union {Dec(u, dg, sc, s, t) :
            u \in {"packed", "display"}, dg \in 1..3, sc \in {0, 1}, s \in BOOLEAN, t \in BOOLEAN}

MCStarts(f) ==
  IF Binary(f)
  THEN [d : IF f.size <= 3 THEN [1..f.size -> 0..ByteBase - 1]
            ELSE {[i \in 1..f.size |-> IF i <= k THEN a ELSE b] :
                    k \in {1, 2, f.size - 1}, a, b \in 0..ByteBase - 1},
        sign : {"none"}]
  ELSE [d : {Numeral(c, Radix, Pad(f)) \o d :
               c \in IF f.truncate THEN {0} ELSE 0..Pad(f),
               d \in IF f.digits = 1 THEN [1..1 -> 0..Radix - 1]
                     ELSE IF f.digits = 2 THEN [1..2 -> {0, 1, 9}]
                     ELSE { <<0, 0, 0>>, <<0, 0, 1>>, <<0, 1, 9>>, <<0, 9, 9>>, <<1, 0, 0>>, <<9, 0, 9>>, <<9, 9, 1>>, <<9, 9, 9>> }},
        sign : IF f.signed THEN {"plus", "minus"} ELSE {"none"}]

MCOperands ==
  [value : {-128, -19, 0, 12, 127}, scale : {0}]
  \union [value : {-15, 25}, scale : {1}] \union [value : {300}, scale : {0}]

-----------------------------------------------------------------------------
(* MOVE: four digits where the code has 18 *)

Item(pic, usage) == [pic |-> pic, usage |-> usage, bytes |-> 0, just |-> FALSE, blank |-> FALSE]
Num(pic) == FieldOf(Item(pic, "display"))
Packed(pic) == FieldOf(Item(pic, "packed"))
Comp(pic, n) == FieldOf([Item(pic, "binary") EXCEPT !.bytes = n])

From(f, m, kind) == [f |-> f, m |-> m, kind |-> kind]

MCContents == { <<0, 0, 0>>, <<0, 0, 7>>, <<0, 7, 0>>, <<7, 0, 1>>, <<1, 7, 5>> }

MCNumericSources ==
  {From(f, [d |-> d, sign |-> s], k) :
     f \in {Num(<<"S", "9", "9", "V", "9">>), Packed(<<"S", "9", "V", "9", "9">>)},
     d \in MCContents, s \in {"plus", "minus"}, k \in {"field"}}
  \union {From(Num(<<"9", "9", "V", "9">>), [d |-> d, sign |-> "none"], "field") : d \in {<<0, 0, 5>>, <<5, 5, 0>>}}
  \union {From(Num(<<"S", "9", "9", "9">>), [d |-> d, sign |-> s], "literal") :
     d \in {<<0, 0, 7>>, <<0, 7, 0>>, <<7, 0, 7>>}, s \in {"plus", "minus"}}
  \union {From(Num(<<"S", "9", "9">>), [d |-> <<x, y>>, sign |-> s], "literal") :
     x \in {0, 7}, y \in {0, 5}, s \in {"plus", "minus"}}
  \union {From(Num(<<"S", "9", "V", "9">>), [d |-> <<x, y>>, sign |-> s], "literal") :
     x \in {0, 7}, y \in {0, 5}, s \in {"plus", "minus"}}
  \union {From(f, [d |-> <<x, y>>, sign |-> s], "field") :
     f \in {Num(<<"S", "9", "9", "P">>), Num(<<"S", "V", "P", "9", "9">>)},
     x \in {0, 7}, y \in {0, 5}, s \in {"plus", "minus"}}
  \union {LET f == Comp(<<"S", "9", "9", "V", "9">>, 6)
          IN  From(f, WithBytes(f, v), "field") : v \in {0, 1, -1, 70, -705, 999, -999}}
  \union {From(TextField(1), [d |-> <<c>>, sign |-> "none"], "figurative") : c \in {"0", " "}}
  \union {From(TextField(1), [d |-> <<c>>, sign |-> "none"], "all") : c \in {"0", "7"}}
  \union {From(TextField(2), [d |-> <<"1", "2">>, sign |-> "none"], "all")}

MCTexts ==
  { <<"1", "2">>, <<" ", "7">>, <<"-", "7", ".", "5">>, <<"1", "7", "0", "5">>, <<" ", "+", "1", ".", "2">>,
    <<".", "5">>, <<"A", "1">>, <<"1", "A">>, <<"1", ".", ".">>, <<" ", " ">>, <<"1", ",", "5", "0", "1">>, <<"5", "-">> }

MCSources ==
  MCNumericSources
  \union {From(TextField(Len(d)), [d |-> d, sign |-> "none"], k) : d \in MCTexts, k \in {"field"}}
  \union {From(TextField(Len(d)), [d |-> d, sign |-> "none"], "literal") : d \in {<<"A", "1">>, <<"A">>}}

MCPictures ==
  { <<"Z", "Z", "9">>, <<"Z", "9", ".", "9">>, <<"Z", "Z", ".", "Z", "Z">>, <<"$", "$", "$", "9", ".", "9", "9">>,
    <<"$", "$", ",", "$", "$", "9", ".", "9">>, <<"*", "*", "9", ".", "9">>, <<"*", ",", "*", "*", "*">>,
    <<"*", "*", ".", "*", "*">>,
    <<"+", "+", "+", "9">>, <<"-", "9", ".", "9", "9">>, <<"9", "9", "9", "+">>, <<"Z", "9", "CR">>,
    <<"Z", "Z", ".", "9", "DB">>, <<"9", "B", "9", "/", "9">>, <<"Z", ",", "Z", "Z", "9", ".", "9", "-">>,
    <<"$", "9", ".", "9">>, <<"+", "+", ".", "+", "+">>, <<"Z", "V", "9">>, <<"Z", "9", "P">>,
    <<"-", "-", ",", "-", "-", "9">>, <<"+", "*", "*", ".", "9">>, <<"9", "0", "9">>,
    <<"+", "Z", "Z", "9">>, <<"Z", "0", "9">>, <<"$", "Z", "9">>, <<"$", "$", ".", "$", "$", "CR">>,
    <<"Z", "B", "Z", "9">>, <<"*", "B", "*", ".", "9", "9", "CR">> }

MCEdited ==
  {FieldOf(Item(p, "display")) : p \in MCPictures}
  \union {FieldOf([Item(p, "display") EXCEPT !.blank = TRUE]) :
            p \in {<<"9", "9", ".", "9">>, <<"Z", "9">>, <<"9", "9">>}}

MCReceivers ==
  MCEdited
  \union {Num(p) : p \in { <<"S", "9", "9">>, <<"9", "V", "9">>, <<"S", "9", "9", "9", "V", "9", "9">>,
                           <<"9", "P">>, <<"S", "P", "9", "9">>, <<"S", "9", "9", "V", "9">> }}
  \union {Packed(p) : p \in {<<"S", "9", "9", "9">>, <<"9", "9", "V", "9">>, <<"S", "9", "9">>}}
  \union {Comp(<<"S", "9", "9", "V", "9">>, 6), Comp(<<"S", "9">>, 4), Comp(<<"9", "9">>, 4)}
  \union {TextField(2), TextField(3), TextField(5)}
  \union {[TextField(n) EXCEPT !.just = TRUE] : n \in {3, 6}}
  \union {FieldOf(Item(<<"X", "X", "/", "X", "B", "9", "0">>, "display"))}

MCSeconds ==
  {Num(<<"S", "9", "9", "9", "V", "9">>), Packed(<<"9", "V", "9", "9">>), Comp(<<"S", "9", "9", "V", "9">>, 6),
   TextField(4), FieldOf(Item(<<"+", "+", "9", ".", "9">>, "display"))}
=============================================================================
