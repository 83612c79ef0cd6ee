------------------------------- MODULE Moves -------------------------------
(***************************************************************************)
(* MOVE between fields of every category but floating point, and numbers   *)
(* stored into edited fields: cob_move and the conversions below it        *)
(* (libcob/move.c), the pictures that govern them (cb_build_picture) and   *)
(* the code that cobc emits where it need not call cob_move (typeck.c).    *)
(*                                                                         *)
(* A picture is the sequence of its symbols, repetitions written out; CR   *)
(* and DB are one symbol.  The content of a numeric field is that of       *)
(* module Numbers; any other field holds a sequence of characters.         *)
(***************************************************************************)
EXTENDS Numbers

CONSTANTS
  MaxDigits,  \* digits of an ALL literal moved to a number (18 in the code)
  Sources,    \* what is moved first: [f, m, kind], a "field", a "literal", a
              \* "figurative" constant or "all"
  Receivers,  \* the fields it is moved to
  Seconds     \* the fields that what is no number is moved on to

VARIABLE trail   \* the fields of one value, each moved to the next: [f, m, kind]

Digits == {"0", "1", "2", "3", "4", "5", "6", "7", "8", "9"}
Char(n) == <<"0", "1", "2", "3", "4", "5", "6", "7", "8", "9">>[n + 1]
Digit(c) == CHOOSE n \in 0..9 : Char(n) = c
Spaces(n) == [i \in 1..n |-> " "]

\* the positions of the symbols S
At(s, S) == {i \in DOMAIN s : s[i] \in S}
Count(s, S) == Cardinality(At(s, S))
FirstAt(s, S) == Min({Len(s) + 1} \union At(s, S))
Drop(s, n) == SubSeq(s, n + 1, Len(s))
Atleast(x, y) == Max({x, y})

-----------------------------------------------------------------------------
(* Pictures *)

Point == {"V", "."}
LeftP(p) == FirstAt(p, {"P"}) < FirstAt(p, {"9", "Z", "*", "+", "-", "$"})

\* the places behind the point: those of + and of the currency sign do not count
PictureScale(p) ==
  IF LeftP(p) THEN Count(p, {"P", "9", "Z", "*"})
  ELSE Count(Drop(p, FirstAt(p, Point)), {"9", "Z", "*"}) - Count(p, {"P"})

PictureDigits(p) ==
  Count(p, {"9", "Z", "*", "P"}) + Atleast(0, Count(p, {"+", "-"}) - 1)
    + Atleast(0, Count(p, {"$"}) - 1)

PictureSize(p) == Count(p, {"CR", "DB"}) + Len(p) - Count(p, {"S", "V", "P"})

\* the bits that the symbols set: letters, numbers, editing
Bits(c) ==
  CASE c = "A" -> {"letter"} [] c = "X" -> {"letter", "number"}
    [] c \in {"9", "S", "V", "P"} -> {"number"}
    [] c \in {"0", "B", "/"} -> {"edited"}
    [] OTHER -> {"number", "edited"}

PictureCategory(p) ==
  LET bits == UNION {Bits(p[i]) : i \in DOMAIN p}
  IN  CASE bits = {"number"} -> "numeric"
        [] bits = {"number", "edited"} -> "edited"
        [] bits \subseteq {"letter", "number"} -> "text"
        [] OTHER -> "edited text"

\* the attributes of an item; BLANK WHEN ZERO makes it an edited one
FieldOf(x) ==
  [usage |-> x.usage, category |-> IF x.blank THEN "edited" ELSE PictureCategory(x.pic), pic |-> x.pic,
   size |-> IF x.usage = "display" THEN PictureSize(x.pic) ELSE x.bytes,
   digits |-> PictureDigits(x.pic), scale |-> PictureScale(x.pic),
   signed |-> At(x.pic, {"S"}) # {}, swap |-> x.usage = "binary",
   truncate |-> TRUE, just |-> x.just, blank |-> x.blank]

\* the temporary fields of the library
Temp(size, scale) ==
  [usage |-> "display", category |-> "numeric", pic |-> <<>>, size |-> size, digits |-> size,
   scale |-> scale, signed |-> TRUE, swap |-> FALSE, truncate |-> TRUE,
   just |-> FALSE, blank |-> FALSE]

-----------------------------------------------------------------------------
(* Anything to DISPLAY *)

\* digits that the data and the field both have a place for; other places get 0
CommonRegion(data, scale, f) ==
  [i \in 1..f.size |->
     LET j == i + (Len(data) - scale) - (f.size - f.scale)
     IN  IF j \in DOMAIN data THEN data[j] ELSE 0]

Stored(data, scale, negative, f) ==
  [d |-> CommonRegion(data, scale, f), sign |-> SignFor(f, IF negative THEN -1 ELSE 1)]

DisplayToDisplay(f1, m1, f) == Stored(m1.d, f1.scale, Negative(m1), f)

PackedToDisplay(f1, m1, f) == Stored(DigitsOf(f1, m1), f1.scale, Negative(m1), f)

\* the digits of a number, none for 0
Figures(n) ==
  Numeral(n, Radix, Cardinality({k \in 0..LongSize : Radix^k <= n}))

BinaryToDisplay(f1, m1, f) ==
  LET v == BinaryValue(f1, m1) IN Stored(Figures(Abs(v)), f1.scale, v < 0, f)

\* leading spaces, a sign, digits with one point; spaces and commas between
\* them are skipped, anything else that is met before the field is full makes 0
TextToDisplay(m1, f) ==
  LET skip  == FirstAt(m1.d, {c \in Range(m1.d) : c # " "}) - 1
      text  == Drop(m1.d, skip)
      sign  == text # <<>> /\ text[1] \in {"+", "-"}
      body  == IF sign THEN Tail(text) ELSE text
      whole == Count(SubSeq(body, 1, FirstAt(body, {"."}) - 1), Digits)
      room  == f.size - f.scale
      lost  == Atleast(0, whole - room)
      rest  == Drop(body, IF lost = 0 THEN 0
                          ELSE CHOOSE i \in At(body, Digits) :
                                 Count(SubSeq(body, 1, i), Digits) = lost)
      Take(r, c) ==
        IF r.bad \/ Len(r.out) = f.size THEN r
        ELSE CASE c \in Digits -> [r EXCEPT !.out = Append(@, Digit(c))]
               [] c = "." -> [r EXCEPT !.points = @ + 1, !.bad = r.points > 0]
               [] OTHER -> [r EXCEPT !.bad = c \notin {" ", ","}]
      r     == FoldLeft(Take, [out |-> [i \in 1..Max({0, Min({f.size, room - whole})}) |-> 0],
                               points |-> 0, bad |-> FALSE], rest)
  IN  IF r.bad THEN Stored(<<>>, 0, FALSE, f)
      ELSE [d |-> r.out \o [i \in 1..(f.size - Len(r.out)) |-> 0],
            sign |-> SignFor(f, IF sign /\ text[1] = "-" THEN -1 ELSE 1)]

\* mutant: V is not looked for
DecimalsShown_OnlyPoint(p, d) == Count(Drop(d, FirstAt(d, {"."})), Digits)

\* the places behind the point of an edited content: counted in it, or else in
\* the picture (an edited one has no P in front)
DecimalsShown(p, d) ==
  LET seen   == Count(Drop(d, FirstAt(d, {"."})), Digits)
      placed == {"9", "0", "Z", "*"}
      behind == Drop(p, FirstAt(p, {"V"}))
  IN  CASE seen > 0 -> seen
        [] seen = 0 /\ At(d, {"."}) # {} -> Count(p, placed)
        [] OTHER -> Count(behind, placed) - Count(p, {"P"})

\* DB does not count as a sign
EditedToDisplay(f1, m1, f) ==
  LET shown == SelectSeq(m1.d, LAMBDA c : c \in Digits)
  IN  Stored([i \in DOMAIN shown |-> Digit(shown[i])], DecimalsShown(f1.pic, m1.d),
             At(m1.d, {"-", "C"}) # {}, f)

ToDisplay(f1, m1, f) ==
  CASE f1.category = "edited" -> EditedToDisplay(f1, m1, f)
    [] f1.category \in {"text", "edited text"} -> TextToDisplay(m1, f)
    [] f1.usage = "packed" -> PackedToDisplay(f1, m1, f)
    [] f1.usage = "display" -> DisplayToDisplay(f1, m1, f)
    [] OTHER -> BinaryToDisplay(f1, m1, f)

-----------------------------------------------------------------------------
(* DISPLAY to anything *)

DisplayToPacked(f1, m1, f) ==
  [d |-> Numeral(0, Radix, Pad(f)) \o CommonRegion(m1.d, f1.scale, [f EXCEPT !.size = f.digits]),
   sign |-> SignFor(f, IF Negative(m1) THEN -1 ELSE 1)]

DisplayToBinary(f1, m1, f) ==
  LET len == Len(m1.d) - f1.scale + f.scale
      d   == [i \in 1..len |-> IF i <= Len(m1.d) THEN m1.d[i] ELSE 0]
      v   == Signed(FoldLeft(LAMBDA n, x : Unsigned(n * Radix + x, LongSize), 0, d), LongSize)
      w   == IF Negative(m1) /\ f.signed THEN -v ELSE v
  IN  WithBytes(f, IF f.truncate /\ f.usage # "comp5" THEN Remainder(w, Radix^f.digits) ELSE w)

\* left-justified; a scale below 0 fills in zeros
DisplayToText(f1, m1, f) ==
  LET zeros == [i \in 1..Atleast(0, -f1.scale) |-> "0"]
      text  == [i \in DOMAIN m1.d |-> Char(m1.d[i])] \o zeros
  IN  [d |-> SubSeq(text \o Spaces(f.size), 1, f.size), sign |-> "none"]

TextToText(m1, f) ==
  LET n == Len(m1.d)
  IN  [d |-> IF f.just THEN Drop(Spaces(f.size) \o m1.d, n)
             ELSE SubSeq(m1.d \o Spaces(f.size), 1, f.size),
       sign |-> "none"]

TextToEdited(text, f) ==
  LET taken(i) == Count(SubSeq(f.pic, 1, i), {"A", "X", "9"})
  IN  [d |-> [i \in DOMAIN f.pic |->
                CASE f.pic[i] \in {"A", "X", "9"} -> IF taken(i) <= Len(text) THEN text[taken(i)] ELSE " "
                  [] f.pic[i] = "B" -> " "
                  [] OTHER -> f.pic[i]],
       sign |-> "none"]

-----------------------------------------------------------------------------
(* Editing (cob_move_display_to_edited) *)

Plain == {"9", "Z", "*"}

\* how many places stand in front of the point; a sign or currency sign counts
\* while no other place has been seen
PlacesBefore(p) ==
  LET front == SubSeq(p, 1, FirstAt(p, Point) - 1)
      lead  == FirstAt(front, Plain \union {"P"}) - 1
  IN  IF LeftP(p) THEN 0
      ELSE Count(front, Plain \union {"P"}) + Count(SubSeq(front, 1, lead), {"+", "-", "$"})

\* One symbol.  out: the characters so far; src: the next digit; zero: only
\* zeros so far; sup: they are suppressed; trail: digits have been seen, a sign
\* is a trailing one; float: the sign and the currency sign that are to be put
\* in front of the number, ahead: the sign comes first; point: the characters
\* in front of the first decimal; tail: the characters of trailing signs.
EditSymbol(e, c, data, neg) ==
  LET x    == IF e.src \in DOMAIN data THEN Char(data[e.src]) ELSE "0"
      sup  == e.sup /\ x = "0"
      next == [e EXCEPT !.src = @ + 1, !.zero = @ /\ x = "0", !.sup = sup]
      mark == IF neg THEN "-" ELSE IF c = "+" THEN "+" ELSE " "
  IN  CASE c \in {"0", "/"} -> [e EXCEPT !.out = Append(@, c)]
        [] c = "B" -> [e EXCEPT !.out = Append(@, IF e.sup THEN e.pad ELSE "B")]
        [] c = "P" -> [e EXCEPT !.src = @ + e.skip]
        [] c = "V" -> [e EXCEPT !.point = Len(e.out)]
        [] c = "." -> [e EXCEPT !.out = Append(@, "."), !.point = Len(e.out) + 1]
        [] c = "," -> [e EXCEPT !.out = Append(@, IF e.sup THEN e.pad ELSE ",")]
        [] c \in {"CR", "DB"} ->
             [e EXCEPT !.tail = 2,
                       !.out = @ \o IF ~neg THEN <<" ", " ">>
                                    ELSE IF c = "CR" THEN <<"C", "R">> ELSE <<"D", "B">>]
        [] c = "9" -> [next EXCEPT !.out = Append(@, x), !.sup = FALSE, !.trail = TRUE]
        [] c \in {"Z", "*"} ->
             LET pad == IF c = "*" THEN "*" ELSE " "
             IN  [next EXCEPT !.pad = pad, !.out = Append(@, IF sup THEN pad ELSE x), !.trail = TRUE]
        [] c \in {"+", "-"} ->
             IF e.trail THEN [next EXCEPT !.out = Append(@, mark), !.tail = @ + 1]
             ELSE IF e.out = <<>> \/ sup
             THEN [next EXCEPT !.out = Append(@, e.pad), !.sign = mark,
                               !.ahead = @ \/ e.currency = ""]
             ELSE [next EXCEPT !.out = Append(@, x)]
        [] c = "$" ->
             IF e.trail THEN [next EXCEPT !.out = Append(@, "$"), !.tail = @ + 1]
             ELSE IF e.out = <<>> \/ sup
             THEN [next EXCEPT !.out = Append(@, e.pad), !.currency = "$"]
             ELSE [next EXCEPT !.out = Append(@, x)]

\* mutant: suppressed decimals stay suppressed
ZerosBehindPoint_Kept(e, end) == e.out

\* digits behind the point are never suppressed when something is shown
ZerosBehindPoint(e, end) ==
  [i \in DOMAIN e.out |->
     IF e.point >= 0 /\ i > e.point /\ i <= end
        /\ e.out[i] \notin Digits \union {",", "+", "-", "/", "B"}
     THEN "0" ELSE e.out[i]]

\* the signs go to the last space, or to the front
WithSigns(s, e, end) ==
  LET spaces == {i \in At(s, {" "}) : i <= end}
      i      == IF spaces = {} THEN 1 ELSE Max(spaces)
      marks  == CASE e.sign # "" /\ e.currency # "" ->
                       IF e.ahead THEN <<e.sign, e.currency>> ELSE <<e.currency, e.sign>>
                  [] e.sign # "" -> <<e.sign>>
                  [] e.currency # "" -> <<e.currency>>
                  [] OTHER -> <<>>
  IN  [k \in DOMAIN s |->
         LET j == k - i + Len(marks) IN IF j \in DOMAIN marks THEN marks[j] ELSE s[k]]

DisplayToEdited(f1, m1, f) ==
  LET start == Len(m1.d) - f1.scale - PlacesBefore(f.pic) + 1
      neg   == Negative(m1)
      Step(e, c) == EditSymbol(e, c, m1.d, neg)
      blank == [out |-> <<>>, src |-> start, zero |-> TRUE, sup |-> TRUE, pad |-> " ",
                skip |-> IF LeftP(f.pic) THEN 1 ELSE 0, trail |-> FALSE, sign |-> "",
                currency |-> "", ahead |-> FALSE, point |-> -1, tail |-> 0]
      e     == FoldLeft(Step, blank, f.pic)
      end   == Len(e.out) - e.tail
      s     == WithSigns(ZerosBehindPoint(e, end), e, end)
      lead  == FirstAt(s, Range(s) \ {"B"})
  IN  [d |-> CASE e.sup \/ (e.zero /\ f.blank) ->
                    IF e.pad = " " \/ f.blank THEN Spaces(f.size)
                    ELSE [i \in DOMAIN e.out |-> IF e.out[i] = "." THEN "." ELSE e.pad]
               [] OTHER ->
                    [i \in DOMAIN s |-> IF s[i] = "B" /\ i <= end
                                        THEN IF i < lead THEN e.pad ELSE " "
                                        ELSE s[i]],
       sign |-> "none"]

-----------------------------------------------------------------------------
(* cob_move, and what the compiler makes of a MOVE *)

FromDisplay(f1, m1, f) ==
  CASE f.category = "edited" -> DisplayToEdited(f1, m1, f)
    [] f.category = "text" -> DisplayToText(f1, m1, f)
    [] f.category = "numeric" /\ f.usage = "display" -> DisplayToDisplay(f1, m1, f)
    [] f.category = "numeric" /\ f.usage = "packed" -> DisplayToPacked(f1, m1, f)
    [] f.category = "numeric" /\ Binary(f) -> DisplayToBinary(f1, m1, f)
    [] f.category = "edited text" ->
         IF f1.scale < 0 \/ f1.scale > f1.digits
         THEN LET t == Temp(Atleast(f1.digits, f1.scale), Atleast(0, f1.scale))
                  m == DisplayToDisplay(f1, m1, t)
              IN  TextToEdited([i \in DOMAIN m.d |-> Char(m.d[i])], f)
         ELSE TextToEdited([i \in DOMAIN m1.d |-> Char(m1.d[i])], f)

\* the temporary field between two others (indirect_move)
Between(f1, f) ==
  CASE f1.category # "numeric" -> Temp(2 * MaxDigits, MaxDigits)
    [] Binary(f1) /\ f.category \in {"numeric", "edited"} -> Temp(MaxDigits + 2, f1.scale)
    [] OTHER -> Temp(f1.digits, f1.scale)

\* text is moved as text, and so is an edited number to text
ByText(f1, f) == f1.category # "numeric" /\ f.category \in {"text", "edited text"}

CobMove(f1, m1, f) ==
  CASE ByText(f1, f) -> IF f.category = "text" THEN TextToText(m1, f) ELSE TextToEdited(m1.d, f)
    [] f1.category = "numeric" /\ f1.usage = "display" -> FromDisplay(f1, m1, f)
    [] f.category = "numeric" /\ f.usage = "display" -> ToDisplay(f1, m1, f)
    [] OTHER -> LET t == Between(f1, f) IN FromDisplay(t, ToDisplay(f1, m1, t), f)

TextField(n) ==
  [usage |-> "display", category |-> "text", pic |-> [i \in 1..n |-> "X"], size |-> n,
   digits |-> 0, scale |-> 0, signed |-> FALSE, swap |-> FALSE, truncate |-> FALSE,
   just |-> FALSE, blank |-> FALSE]

\* ALL "..." and the figurative constants: repeated to the size of the
\* receiver, or for a number to MaxDigits digits
MoveAll(m1, f) ==
  LET Repeated(n) == [i \in 1..n |-> m1.d[((i - 1) % Len(m1.d)) + 1]]
  IN  IF f.category = "numeric"
      THEN CobMove([Temp(MaxDigits, 0) EXCEPT !.signed = FALSE],
                   [d |-> [i \in 1..MaxDigits |-> Digit(Repeated(MaxDigits)[i])], sign |-> "none"], f)
      ELSE CobMove(TextField(f.size), [d |-> Repeated(f.size), sign |-> "none"], f)

Called(s, f) == IF s.kind \in {"all", "figurative"} THEN MoveAll(s.m, f) ELSE CobMove(s.f, s.m, f)

\* cb_build_move_literal puts the characters of a literal into the program
LiteralFits(s, f) ==
  /\ s.kind = "literal"
  /\ \/ /\ s.f.category = "numeric" /\ s.f.scale = f.scale
        /\ f.category = "numeric" /\ f.usage = "display"
     \/ f.category = "text" /\ f.size < s.f.size + 16

\* and the value of an integer where it fits an int
ValueFits(s, f) ==
  /\ s.kind = "literal" /\ s.f.category = "numeric" /\ s.f.scale = 0
  /\ s.f.size + f.scale < IntDigits /\ f.category = "numeric"
  /\ f.usage # "display" /\ (Binary(f) \/ f.scale >= 0)

ValueOf(s, f) ==
  LET v == Shift(DecimalOf(s.f, s.m), f.scale).value
  IN  IF Binary(f) THEN WithBytes(f, v) ELSE WithDigits(f, v, SignFor(f, v))

\* ALL literals: whatever is no number gets the characters as they are
AllFits(s, f) == s.kind = "all" /\ f.category \notin {"numeric", "edited"}
AllBytes(s, f) ==
  [d |-> [i \in 1..f.size |-> s.m.d[((i - 1) % Len(s.m.d)) + 1]], sign |-> "none"]

LiteralBytes(s, f) ==
  LET n   == Len(s.m.d)
      pad == [i \in 1..f.size |-> IF f.category = "numeric" THEN 0 ELSE " "]
      d   == IF s.f.category = "numeric" /\ f.category = "text"
             THEN [i \in 1..n |-> Char(s.m.d[i])] ELSE s.m.d
  IN  [d |-> IF f.category = "numeric" \/ f.just THEN Drop(pad \o d, n)
             ELSE SubSeq(d \o pad, 1, f.size),
       sign |-> IF f.category = "numeric" THEN SignFor(f, IF Negative(s.m) THEN -1 ELSE 1)
                ELSE "none"]

\* cb_build_move_field copies what needs no conversion
SameFormat(f1, f) ==
  [f1 EXCEPT !.pic = <<>>, !.just = FALSE, !.blank = FALSE]
    = [f EXCEPT !.pic = <<>>, !.just = FALSE, !.blank = FALSE]
CopyFits(s, f) ==
  /\ s.kind = "field" /\ s.f.size >= f.size
  /\ \/ s.f.category = "text" /\ f.category = "text" /\ ~f.just
     \/ s.f.category = "numeric" /\ SameFormat(s.f, f)
     \/ s.f.category = "numeric" /\ s.f.usage = "display" /\ ~s.f.signed /\ f.category = "text"

Copied(s, f) ==
  IF s.f.category = f.category /\ f.category = "numeric" THEN s.m
  ELSE [d |-> [i \in 1..f.size |-> IF s.f.category = "text" THEN s.m.d[i] ELSE Char(s.m.d[i])],
        sign |-> "none"]

\* figurative constants fill the field (cb_build_move_zero, _space and others)
FillFits(s, f) ==
  /\ s.kind = "figurative"
  /\ \/ f.category = "text"
     \/ f.category = "numeric" /\ s.m.d = <<"0">>

Filled(s, f) ==
  CASE f.category = "text" -> [d |-> [i \in 1..f.size |-> s.m.d[1]], sign |-> "none"]
    [] Binary(f) -> WithBytes(f, 0)
    [] OTHER -> [d |-> [i \in 1..(IF f.usage = "packed" THEN f.digits + Pad(f) ELSE f.size) |-> 0],
                 sign |-> SignFor(f, 1)]

\* cb_build_move
Moved(s, f) ==
  CASE FillFits(s, f) -> Filled(s, f)
    [] AllFits(s, f) -> AllBytes(s, f)
    [] LiteralFits(s, f) -> LiteralBytes(s, f)
    [] ValueFits(s, f) -> ValueOf(s, f)
    [] CopyFits(s, f) -> Copied(s, f)
    [] OTHER -> Called(s, f)

\* validate_move: what the compiler refuses
Refused(s, f) ==
  \/ s.kind = "figurative" /\ s.m.d = <<" ">> /\ f.category \in {"numeric", "edited"}
  \/ /\ s.kind = "literal" /\ s.f.category = "numeric" /\ s.f.scale # 0
     /\ f.category \in {"text", "edited text"}
  \/ s.f.category = "edited text" /\ f.category \in {"numeric", "edited"}

\* What reads memory outside of the fields is left out: P in a number moved to
\* PACKED-DECIMAL, text moved where all places are behind the point, and a
\* number whose places are all cut off by a binary field; so is a text literal
\* moved to a number, which the compiler warns of.
Outside(s, f) ==
  \/ s.kind = "literal" /\ s.f.category = "text" /\ f.category \in {"numeric", "edited"}
  \/ Binary(f) /\ s.f.usage = "display" /\ s.f.category = "numeric" /\ s.f.size + f.scale < s.f.scale
  \/ s.f.category = "numeric" /\ f.usage = "packed" /\ At(s.f.pic, {"P"}) # {}
  \/ s.f.category = "text" /\ f.category = "numeric" /\ LeftP(f.pic)

MoveTo(f) ==
  LET s == trail[Len(trail)]
  IN  /\ ~Refused(s, f) /\ ~Outside(s, f)
      /\ trail' = Append(trail, [f |-> f, m |-> Moved(s, f), kind |-> "field"])

\* COMPUTE, or GIVING, of a value into an edited field, over a temporary field
\* of the digits and scale of its picture
StoreInto(f) ==
  LET s == trail[1]
      r == GetField(DecimalOf(s.f, s.m), Temp(f.digits, f.scale), Idle, {"keep"})
  IN  /\ f.category = "edited" /\ s.f.category = "numeric" /\ s.kind = "field"
      /\ ~r.exc
      /\ trail' = Append(trail, [f |-> f, m |-> FromDisplay(Temp(f.digits, f.scale), r.m, f),
                                 kind |-> "result"])

MoveInit == trail \in {<<s>> : s \in Sources}

MoveNext ==
  \/ Len(trail) = 1 /\ \E f \in Receivers : MoveTo(f) \/ StoreInto(f)
  \/ Len(trail) = 2 /\ trail[2].f.category # "numeric" /\ \E f \in Seconds : MoveTo(f)

\* One statement of module Numbers, or one value that is moved on.
Still ==
  /\ fld = (CHOOSE f \in Fields : TRUE)
  /\ mem = (CHOOSE c \in Starts(fld) : TRUE)
  /\ done = [Idle EXCEPT !.verb = "moves"]

StatementInit == (Init /\ trail = <<>>) \/ (Still /\ MoveInit)
StatementNext == (Next /\ UNCHANGED trail) \/ (MoveNext /\ UNCHANGED vars)
StatementSpec == StatementInit /\ [][StatementNext]_<<trail, vars>>

-----------------------------------------------------------------------------
(* What a MOVE promises.  An editing picture by the rules of COBOL: D are  *)
(* the places for digits, all but the first of the symbols that float; a   *)
(* place is shown from the first digit that is not suppressed on.          *)

PointAt(p) == FirstAt(p, Point)
Floating(p) ==
  IF \E c \in {"+", "-", "$"} : Count(p, {c}) > 1
  THEN {CHOOSE c \in {"+", "-", "$"} : Count(p, {c}) > 1} ELSE {}

DigitPlaces(p) == At(p, Plain) \union (At(p, Floating(p)) \ {FirstAt(p, Floating(p))})

\* the power of ten a place stands for
Power(p, i) ==
  IF i < PointAt(p)
  THEN Cardinality({j \in DigitPlaces(p) : i < j /\ j < PointAt(p)}) + Count(p, {"P"})
  ELSE -Cardinality({j \in DigitPlaces(p) : PointAt(p) < j /\ j <= i})

DigitAt(v, i) ==
  LET k == i + v.scale IN IF k < 0 THEN 0 ELSE (Abs(v.value) \div Radix^k) % Radix

\* digits are shown from here on
FirstShown(p, v) ==
  Min({PointAt(p)} \union At(p, {"9"})
          \union {i \in DigitPlaces(p) : DigitAt(v, Power(p, i)) # 0})

Mark(c, neg) == IF c = "$" THEN "$" ELSE IF neg THEN "-" ELSE IF c = "+" THEN "+" ELSE " "

\* symbols that are shown in their place: CR and DB by two characters, V and P
\* by none
Fixed(p) == {"V", "P", "CR", "DB", ".", "+", "-", "$"} \ Floating(p)
FixedText(c, neg) ==
  CASE c \in {"V", "P"} -> <<>>
    [] c = "CR" -> IF neg THEN <<"C", "R">> ELSE <<" ", " ">>
    [] c = "DB" -> IF neg THEN <<"D", "B">> ELSE <<" ", " ">>
    [] OTHER -> <<IF c = "." THEN c ELSE Mark(c, neg)>>

\* the characters at place i
Edited(p, v, neg, i) ==
  LET first == FirstShown(p, v)
  IN  CASE p[i] \in Fixed(p) -> FixedText(p[i], neg)
        [] p[i] \notin Fixed(p) /\ i < first ->
             <<IF Floating(p) # {} /\ i = first - 1 THEN Mark(CHOOSE c \in Floating(p) : TRUE, neg)
               ELSE IF At(p, {"*"}) # {} THEN "*" ELSE " ">>
        [] p[i] \notin Fixed(p) /\ i >= first /\ i \in DigitPlaces(p) ->
             <<Char(DigitAt(v, Power(p, i)))>>
        [] OTHER -> <<IF p[i] = "B" THEN " " ELSE p[i]>>

\* a number that is not shown
Hidden(f) ==
  IF At(f.pic, {"*"}) = {} \/ f.blank THEN Spaces(f.size)
  ELSE [i \in 1..f.size |-> IF i \in At(f.pic, {"."}) THEN "." ELSE "*"]

IsZero(p, v) == \A i \in DigitPlaces(p) : DigitAt(v, Power(p, i)) = 0

EditedText(f, v, neg) ==
  IF IsZero(f.pic, v) /\ (At(f.pic, {"9"}) = {} \/ f.blank) THEN Hidden(f)
  ELSE FlattenSeq([i \in DOMAIN f.pic |-> Edited(f.pic, v, neg, i)])

\* Pictures that the library edits otherwise: 0 and / among suppressed places
\* are shown, and a single sign or currency sign in front of Z, or of floating
\* ones, moves along with the number.
Regular(p) ==
  LET marks == At(p, {"+", "-", "$"} \ Floating(p))
  IN  /\ \A i \in At(p, {"0", "/"}) : i > FirstAt(p, {"9"})
      /\ \A i \in marks : \/ i = Len(p)
                          \/ i = 1 /\ Floating(p) = {} /\ p[2] \in {"9", "*"}

\* The scale of a picture leaves these out; a result loses them.
FloatingDecimals(p) == \E i \in At(p, Floating(p)) : i > PointAt(p)

\* A digit that there is no place for ends the suppression if it meets the sign
\* or currency sign in front.
Overrun(p, v) == p[1] \in {"+", "-", "$"} /\ DigitAt(v, Power(p, 1)) # 0

\* The number that a text shows, if it does.
Figured(d) == SelectSeq(d, LAMBDA c : c # " ")
IsFigure(d) ==
  LET s == Figured(d)
  IN  /\ s # <<>> /\ Count(s, {"."}) <= 1 /\ At(s, Digits) # {}
      /\ \A i \in DOMAIN s : s[i] \in Digits \union {"."} \/ (i = 1 /\ s[1] \in {"+", "-"})
Figure(d) ==
  LET s == SelectSeq(d, LAMBDA c : c \in Digits)
      v == Number([i \in DOMAIN s |-> Digit(s[i])], Radix)
  IN  [value |-> IF At(d, {"-"}) # {} THEN -v ELSE v, scale |-> Count(Drop(d, FirstAt(d, {"."})), Digits)]

\* what is moved, as a number with its sign
HasNumber(s) == s.f.category = "numeric" \/ (s.f.category = "text" /\ IsFigure(s.m.d))
NumberOf(s, f) ==
  CASE s.kind \in {"all", "figurative"} ->
         LET n == IF f.category = "numeric" THEN MaxDigits ELSE f.size
         IN  [value |-> Number([i \in 1..n |-> Digit(s.m.d[((i - 1) % Len(s.m.d)) + 1])], Radix),
              scale |-> 0]
    [] s.kind \notin {"all", "figurative"} /\ s.f.category = "numeric" -> DecimalOf(s.f, s.m)
    [] OTHER -> Figure(s.m.d)
HasMinus(s) ==
  CASE s.f.category # "numeric" -> At(s.m.d, {"-"}) # {}
    [] Binary(s.f) -> Value(s.f, s.m) < 0
    [] OTHER -> Negative(s.m)

\* cut at both ends to the places of f
CutTo(v, f) ==
  LET w == Shift(v, f.scale - v.scale).value
      n == Abs(w) % Radix^(IF f.usage = "display" THEN f.size ELSE f.digits)
  IN  IF f.signed THEN SignOf(w) * n ELSE n

\* A literal is stored into a binary field as far as the bytes go, and into an
\* unsigned one with its sign; a number that is too long for a long long when
\* its decimals are counted in comes out wrong.
Uncut(s, f) ==
  LET w == Shift(NumberOf(s, f), f.scale - NumberOf(s, f).scale).value
  IN  /\ Binary(f)
      /\ \/ Abs(w) >= (ByteBase^LongSize) \div 2
         \/ s.kind = "literal" /\ (Abs(w) >= Radix^f.digits \/ (w < 0 /\ ~f.signed))

\* the characters that are not inserted
Own(f, d) ==
  LET own == At(f.pic, {"A", "X", "9"})
  IN  FoldLeft(LAMBDA s, i : IF i \in own THEN Append(s, d[i]) ELSE s, <<>>, [i \in DOMAIN d |-> i])

Characters(s) ==
  IF s.f.category = "numeric" THEN [i \in DOMAIN s.m.d |-> Char(s.m.d[i])] ELSE s.m.d

\* t has what a MOVE from s is to give it
Right(s, t) ==
  CASE t.f.category = "numeric" /\ HasNumber(s) /\ ~Uncut(s, t.f) ->
         Value(t.f, t.m) = CutTo(NumberOf(s, t.f), t.f)
    [] t.f.category = "edited" /\ HasNumber(s) ->
         LET v == NumberOf(s, t.f)
             minus == IF t.kind = "result" THEN Shift(v, t.f.scale - v.scale).value < 0 ELSE HasMinus(s)
         IN  \/ ~Regular(t.f.pic) \/ Overrun(t.f.pic, v)
             \/ t.kind = "result" /\ FloatingDecimals(t.f.pic)
             \/ t.m.d = EditedText(t.f, v, minus)
    [] t.f.category = "edited text" /\ s.kind = "field" /\ s.f.usage = "display" /\ s.f.scale >= 0 ->
         LET own == Own(t.f, t.m.d)
         IN  own = SubSeq(Characters(s) \o Spaces(Len(own)), 1, Len(own))
    [] OTHER -> TRUE

\* Whatever the formats, a number that is moved keeps its value, cut at both
\* ends to the places of the receiver; an editing picture shows it as the rules
\* of COBOL say, zeros suppressed, signs and currency sign floating; a text is
\* read and edited place by place (cob_move and all it calls).
MovesRight == \A n \in 2..Len(trail) : Right(trail[IF trail[n].kind = "result" THEN 1 ELSE n - 1], trail[n])

\* The code that the compiler emits in place of a call of cob_move does what
\* cob_move would do; not so where it leaves out truncation and editing, and
\* for numbers in JUSTIFIED fields (cb_build_move).
ShortcutsAgree ==
  \A n \in 2..Len(trail) :
    LET s == trail[n - 1]
        t == trail[n]
    IN  \/ t.kind = "result" \/ (HasNumber(s) /\ Uncut(s, t.f))
        \/ AllFits(s, t.f) /\ t.f.category = "edited text"
        \/ s.f.category = "numeric" /\ t.f.just
        \/ IF t.f.category = "numeric" THEN Value(t.f, t.m) = Value(t.f, Called(s, t.f))
           ELSE t.m = Called(s, t.f)

\* A MOVE gives the value that the rules of COBOL give, whichever way the compiler
\* takes to it.
MovesSound == MovesRight /\ ShortcutsAgree

\* what an edited field shows of a number
Displayed(p, v) ==
  LET places == {Power(p, i) : i \in DigitPlaces(p)}
  IN  [value |-> MapThenSumSet(LAMBDA k : DigitAt(v, k) * Radix^(k - Min(places)), places), scale |-> -Min(places)]

\* a number, shown in an edited field and read again
ThereAndBack ==
  /\ Len(trail) = 3 /\ HasNumber(trail[1]) /\ ~Uncut(trail[1], trail[3].f)
  /\ trail[2].f.category = "edited" /\ At(trail[2].f.pic, {"0", "DB"}) = {}
  /\ trail[2].kind = "field" /\ trail[3].f.category = "numeric"

\* An edited field moved to a numeric one gives back the number that it shows,
\* with its sign, wherever the picture has its point and however much of it is
\* suppressed; DB is not taken for a sign, and an inserted 0 is for a digit
\* (cob_move_edited_to_display).
EditedBack ==
  ThereAndBack =>
    LET p == trail[2].f.pic
        f == trail[3].f
        v == CutTo(Displayed(p, NumberOf(trail[1], trail[2].f)), [f EXCEPT !.signed = FALSE])
        minus == f.signed /\ HasMinus(trail[1]) /\ At(p, {"+", "-", "CR"}) # {}
    IN  Value(f, trail[3].m) = IF minus THEN -v ELSE v
=============================================================================
