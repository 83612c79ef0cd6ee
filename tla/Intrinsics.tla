----------------------------- MODULE Intrinsics -----------------------------
(***************************************************************************)
(* Intrinsic functions (libcob/intrinsic.c).  A function call is a nested  *)
(* C call (codegen.c); each function leaves its result in the next of      *)
(* Depth fields that are used in turn, whoever may still refer to it.      *)
(*                                                                         *)
(* A field is [f, v, d]: its format, the integer that a numeric field      *)
(* holds and the character codes of any other.  A binary field holds the   *)
(* integers below the limit of its C type; nothing else of its bytes is    *)
(* seen here.  A double holds a decimal of DoubleScale places.  Left out:  *)
(* functions computed with doubles throughout, the clock, EXCEPTION-...,   *)
(* RANDOM, exponentiation, division by zero, and locales other than "C".   *)
(***************************************************************************)
EXTENDS Decimals

CONSTANTS
  Depth,        \* DEPTH_LEVEL: 8
  IntLimit,     \* 2^31: results of expressions below it are ints
  LongLimit,    \* 2^63
  IntDigits,    \* 9, the scale up to which they may be
  LongDigits,   \* 18
  DoubleScale,  \* 9
  MostDigits,   \* 30: NUMVAL reads no further
  LastYear,     \* 9999
  LastDay,      \* 3067671: days from 1601 on to the end of that year
  Today,        \* the year it is
  Families,     \* what is evaluated, by name: [fns, operands, refmods, results, terms], the
                \* functions, fields, (offset:length) and bounds on results and fields
  RightToLeft   \* the order in which C evaluates arguments, left open by the language

ASSUME DepthAssumption == Depth \in Nat \ {0}

VARIABLES
  family,  \* the name of what is evaluated
  ring,    \* calc_field, curr_entry; made counts the results
  terms,   \* the references of the expression: at = Depth for a field of the program;
           \* want is what was returned, born the count then
  used,    \* the number of fields in it so far
  code,    \* cob_exception_code
  last     \* history: the last call, its arguments as they were read, what it returned

functionVars == <<family, ring, terms, used, code, last>>

-----------------------------------------------------------------------------
(* Fields and results *)

Format(usage, size, scale, signed) ==
  [usage |-> usage, size |-> size, scale |-> scale, signed |-> signed]
Word(signed) == Format("int", 4, 0, signed)
Long(scale) == Format("long", 8, scale, TRUE)
UnsignedLong == Format("long", 8, 0, FALSE)
Double == Format("double", 8, DoubleScale, TRUE)

Numeric(x) == x.f.usage \notin {"text", "literal"}
Dec(x) == [value |-> x.v, scale |-> x.f.scale]
Ten(n) == Radix^n

Wrap(v, f) ==
  LET limit == IF f.usage = "int" THEN IntLimit ELSE LongLimit
      u     == v % (2 * limit)
  IN  IF f.signed /\ u >= limit THEN u - 2 * limit ELSE u

Integer(f, n) == [f |-> f, v |-> n, d |-> <<>>]
Text(d) == [f |-> Format("text", Len(d), 0, FALSE), v |-> 0, d |-> d]

\* cob_decimal_get_field, as the functions call it: nothing is refused
Store(d, f) ==
  LET v == Shift(d, f.scale - d.scale).value
      u == IF f.signed THEN v ELSE Abs(v)
  IN  Integer(f, CASE f.usage \in {"int", "long"} -> Wrap(u, f)
                   [] f.usage \in {"display", "packed"} -> Remainder(u, Ten(f.size))
                   [] OTHER -> u)

\* cob_set_int
IntResult(n) == Integer(Word(TRUE), n)
CountResult(n) == Integer(Word(FALSE), n)

\* cob_get_int: of a binary field it takes the integer, whatever the scale
GetInt(x) ==
  IF x.f.usage \in {"int", "long"} THEN x.v ELSE Quotient(x.v, Ten(x.f.scale))

\* cob_move to a binary field of LongDigits digits, place by place
MoveToLong(x, scale) ==
  LET u == Abs(Shift(Dec(x), scale - x.f.scale).value)
  IN  Integer(Long(scale), Remainder(SignOf(x.v) * Wrap(u, Long(scale)), Ten(LongDigits)))

\* cob_cmp: a text goes on with spaces
Space == 32
CharAt(x, i) == IF i \in DOMAIN x.d THEN x.d[i] ELSE Space
Compare(x, y) ==
  IF Numeric(x) THEN DecimalCmp(Dec(x), Dec(y))
  ELSE LET diff == {i \in DOMAIN x.d \union DOMAIN y.d : CharAt(x, i) # CharAt(y, i)}
       IN  IF diff = {} THEN 0
           ELSE LET i == Min(diff) IN SignOf(CharAt(x, i) - CharAt(y, i))

-----------------------------------------------------------------------------
(* Numbers *)

\* cob_intr_binop: the smallest field that takes all of it
Figures(n) == Max({1} \union {k \in 1..10 : n >= Ten(k - 1)})
Binop(op, x, y) ==
  LET r == CASE op = "+" -> DecimalAdd(Dec(x), Dec(y))
             [] op = "-" -> DecimalSub(Dec(x), Dec(y))
             [] op = "*" -> DecimalMul(Dec(x), Dec(y))
             [] op = "/" -> DecimalDiv(Dec(x), Dec(y))
      signed == r.value < 0
      fits(limit) == Abs(r.value) < IF signed THEN limit ELSE 2 * limit
      size   == Max({Figures(Abs(r.value)), r.scale})
  IN  Store(r, CASE fits(IntLimit) /\ r.scale <= IntDigits -> Format("int", 4, r.scale, signed)
                 [] fits(LongLimit) /\ r.scale <= LongDigits
                      /\ ~(fits(IntLimit) /\ r.scale <= IntDigits) -> Format("long", 8, r.scale, signed)
                 [] OTHER -> Format("display", size, r.scale, signed))

\* Below zero the number is cut to one decimal, and one is taken off if that is not 0.
Floor(x) ==
  LET d    == Dec(x)
      cut  == IF d.scale > 1 THEN Shift(d, 1 - d.scale) ELSE d
      unit == IF cut.scale > 0 THEN Radix ELSE 1
  IN  Store(IF d.value >= 0 THEN d
            ELSE IF cut.value % unit # 0 THEN [cut EXCEPT !.value = @ - unit] ELSE cut, Long(0))

Sign(x) == IntResult(SignOf(x.v))
Absolute(x) == Store([Dec(x) EXCEPT !.value = Abs(@)], x.f)

Product[n \in Nat] == IF n = 0 THEN 1 ELSE n * Product[n - 1]
Factorial(n) == Store([value |-> Product[n], scale |-> 0], UnsignedLong)

Zero == [value |-> 0, scale |-> 0]
Two == [value |-> 2, scale |-> 0]
Total(a) == FoldLeft(LAMBDA d, x : DecimalAdd(d, Dec(x)), Zero, a)
TopScale(a) == Max({a[i].f.scale : i \in DOMAIN a} \union {0})

SumOf(a) ==
  LET d == Total(a)
  IN  Store(d, IF Figures(Abs(d.value)) <= LongDigits THEN Long(TopScale(a))
               ELSE Format("display", Max({Figures(Abs(d.value)), d.scale}), TopScale(a), TRUE))

\* the first one that no other is below, or above
Extreme(a, sign) ==
  CHOOSE i \in DOMAIN a :
    /\ \A j \in DOMAIN a : sign * Compare(a[i], a[j]) >= 0
    /\ \A j \in 1..(i - 1) : sign * Compare(a[i], a[j]) > 0
Largest(a) == a[Extreme(a, 1)]
Least(a) == a[Extreme(a, -1)]
Ordinal(a, sign) == CountResult(IF Len(a) = 1 THEN 0 ELSE Extreme(a, sign))

Halfway(x, y) == Store(DecimalDiv(DecimalAdd(Dec(x), Dec(y)), Two), Double)
Midrange(a) == Halfway(Least(a), Largest(a))

\* the places of a list, in order; the one in the middle.  Once it has chosen, MEDIAN
\* reads the two of them again: the list is b by then.
InOrder(a) == SortSeq([i \in DOMAIN a |-> i], LAMBDA i, j : Compare(a[i], a[j]) < 0)
MiddleOf(a) == InOrder(a)[(Len(a) \div 2) + 1]
Median(a, b) == Halfway(b[InOrder(a)[Len(a) \div 2]], b[MiddleOf(a)])

\* what the digits in front of the point leave of LongDigits goes behind it
Spread(d) ==
  LET whole == Store(d, Long(0)).v
      n     == IF whole = 0 THEN 0 ELSE Figures(Abs(whole))
  IN  Store(d, Long(IF n <= LongDigits THEN LongDigits - n ELSE 0))

Count(a) == [value |-> Len(a), scale |-> 0]
MeanOf(a) == DecimalDiv(Total(a), Count(a))
Mean(a) == Spread(MeanOf(a))
Variance(a) ==
  LET Off(x)  == DecimalSub(Dec(x), MeanOf(a))
      squares == FoldLeft(LAMBDA d, x : DecimalAdd(d, DecimalMul(Off(x), Off(x))), Zero, a)
  IN  IF Len(a) = 1 THEN Integer(Long(0), 0) ELSE Spread(DecimalDiv(squares, Count(a)))

\* so does RANGE
RangeOf(a, b) ==
  Store(DecimalSub(Dec(b[Extreme(a, 1)]), Dec(b[Extreme(a, -1)])),
        Long(TopScale(<<Largest(a), Least(a)>>)))

\* x - y * q
Rest(x, y, q) == DecimalSub(Dec(x), DecimalMul(Dec(y), Dec(q)))

-----------------------------------------------------------------------------
(* Numbers from texts *)

IsDigit(c) == c \in 48..57
Upper(c) == IF c \in 97..122 THEN c - 32 ELSE c
Lower(c) == IF c \in 65..90 THEN c + 32 ELSE c
Alike(s, t) == Len(s) = Len(t) /\ \A i \in DOMAIN s : Upper(s[i]) = Upper(t[i])
Piece(d, i, n) == SubSeq(d, i, i + n - 1)
Credit(d) == Alike(d, <<67, 82>>) \/ Alike(d, <<68, 66>>)

\* One step of the loop of NUMVAL and NUMVAL-C, at character i.  A credit mark is
\* looked for as a C string: it counts where the text ends and a zero byte is
\* behind it.  Signs, digits and the point count; the currency string is passed
\* over, and so is anything else.
ScanStep(r, i, d, currency, nul) ==
  LET n == Len(d)
      s == IF d[i] = 45 THEN [r EXCEPT !.minus = TRUE]
           ELSE IF d[i] = 46 THEN [r EXCEPT !.point = TRUE]
           ELSE IF IsDigit(d[i])
           THEN [r EXCEPT !.digits = Append(@, d[i] - 48), !.scale = IF r.point THEN @ + 1 ELSE @]
           ELSE r
  IN  CASE r.stop \/ i <= r.skip -> r
        [] ~(r.stop \/ i <= r.skip) /\ nul /\ i = n - 1 /\ Credit(Piece(d, i, 2)) ->
             [r EXCEPT !.minus = TRUE, !.stop = TRUE]
        [] ~(r.stop \/ i <= r.skip) /\ ~(nul /\ i = n - 1 /\ Credit(Piece(d, i, 2)))
             /\ Len(currency) \in 1..(n - i) /\ Piece(d, i, Len(currency)) = currency ->
             [r EXCEPT !.skip = i + Len(currency) - 1]
        [] OTHER -> [s EXCEPT !.stop = Len(s.digits) > MostDigits]

Numval(d, currency, nul) ==
  LET r == FoldLeft(LAMBDA q, i : ScanStep(q, i, d, currency, nul),
                    [digits |-> <<>>, scale |-> 0, minus |-> FALSE, point |-> FALSE,
                     skip |-> 0, stop |-> FALSE],
                    [i \in DOMAIN d |-> i])
      v == Number(r.digits, Radix)
  IN  Store([value |-> IF r.minus THEN -v ELSE v, scale |-> r.scale],
            IF Len(r.digits) <= LongDigits THEN Long(r.scale) ELSE Double)

-----------------------------------------------------------------------------
(* Texts *)

\* calc_ref_mod: an offset out of range changes nothing
RefMod(d, m) ==
  LET rest == Len(d) - m.offset + 1
  IN  IF m.offset = 0 \/ rest <= 0 THEN d
      ELSE Piece(d, m.offset, IF m.length \in 1..rest THEN m.length ELSE rest)

Trim(d, side, m) ==
  LET own   == {i \in DOMAIN d : d[i] # Space}
      begin == IF side = "trailing" THEN 1 ELSE Min(own)
      end   == IF side = "leading" THEN Len(d) ELSE Max(own)
  IN  IF own = {} THEN <<Space>> ELSE RefMod(SubSeq(d, begin, end), m)

Concatenation(a) == FlattenSeq([i \in DOMAIN a |-> a[i].d])

\* a: the text and the pairs; at each place the first that is found there
Substitution(a, cases) ==
  LET d == a[1].d
      Same(s, t) == IF cases THEN Alike(s, t) ELSE s = t
      Hits(i) == {k \in 1..(Len(a) \div 2) :
                    /\ i + Len(a[2 * k].d) <= Len(d) + 1
                    /\ Same(Piece(d, i, Len(a[2 * k].d)), a[2 * k].d)}
      from[i \in 1..(Len(d) + 1)] ==
        IF i > Len(d) THEN <<>>
        ELSE IF Hits(i) = {} THEN <<d[i]>> \o from[i + 1]
        ELSE LET k == Min(Hits(i)) IN a[2 * k + 1].d \o from[i + Len(a[2 * k].d)]
  IN  from[1]

Char(n) == IF n \in 1..256 THEN <<n - 1>> ELSE <<0>>
StoredLength(d) == Max({0} \union {i \in DOMAIN d : d[i] # Space})

-----------------------------------------------------------------------------
(* Dates *)

FirstYear == 1601

\* mutant: every fourth year
LeapYear_EveryFourth(y) == y % 4 = 0

LeapYear(y) == (y % 4 = 0 /\ y % 100 # 0) \/ y % 400 = 0
YearLength(y) == IF LeapYear(y) THEN 366 ELSE 365
MonthEnds(y) ==
  IF LeapYear(y) THEN <<31, 60, 91, 121, 152, 182, 213, 244, 274, 305, 335, 366>>
  ELSE <<31, 59, 90, 120, 151, 181, 212, 243, 273, 304, 334, 365>>
DaysBefore(y, m) == IF m = 1 THEN 0 ELSE MonthEnds(y)[m - 1]
MonthLength(y, m) == MonthEnds(y)[m] - DaysBefore(y, m)

\* the days of the years before y
YearStart ==
  [y \in FirstYear..LastYear |->
     365 * (y - FirstYear) + Cardinality({k \in FirstYear..(y - 1) : LeapYear(k)})]

DateFault(n) ==
  LET year == Quotient(n, 10000)  month == Remainder(n, 10000) \div 100  day == n % 100
  IN  CASE year \notin FirstYear..LastYear -> 1
        [] year \in FirstYear..LastYear /\ month \notin 1..12 -> 2
        [] year \in FirstYear..LastYear /\ month \in 1..12 /\ day \notin 1..MonthLength(year, month) -> 3
        [] OTHER -> 0

DayFault(n) ==
  LET year == Quotient(n, 1000)
  IN  CASE year \notin FirstYear..LastYear -> 1
        [] year \in FirstYear..LastYear /\ n % 1000 \notin 1..YearLength(year) -> 2
        [] OTHER -> 0

\* what a function returns and the exception code it leaves
Answer(x) == [x |-> x, code |-> code]
Fine(x) == [x |-> x, code |-> "none"]
Wrong(x) == [x |-> x, code |-> "argument"]

Shown(n, size) == Integer(Format("display", size, 0, FALSE), n)

YearOf(n) == Min({y \in FirstYear..LastYear : n - YearStart[y] <= YearLength(y)})

DateOfInteger(n) ==
  LET year == YearOf(n)
      days == n - YearStart[year]
      month == Min({m \in 1..12 : days <= MonthEnds(year)[m]})
  IN  IF n \notin 1..LastDay THEN Wrong(Shown(0, 8))
      ELSE Fine(Shown(10000 * year + 100 * month + days - DaysBefore(year, month), 8))

DayOfInteger(n) ==
  IF n \notin 1..LastDay THEN Wrong(Shown(0, 7))
  ELSE Fine(Shown(1000 * YearOf(n) + n - YearStart[YearOf(n)], 7))

IntegerOfDate(n) ==
  LET year == n \div 10000
  IN  IF DateFault(n) # 0 THEN Wrong(CountResult(0))
      ELSE Fine(CountResult(YearStart[year] + DaysBefore(year, (n % 10000) \div 100) + (n % 100)))

IntegerOfDay(n) ==
  IF DayFault(n) # 0 THEN Wrong(CountResult(0))
  ELSE Fine(CountResult(YearStart[n \div 1000] + (n % 1000)))

CombinedDatetime(days, time) ==
  LET f == Format("display", 12, 5, FALSE)
  IN  IF days \notin 1..LastDay \/ time \notin 1..86400 THEN Wrong(Integer(f, 0))
      ELSE Fine(Integer(f, 100000 * days + time))

\* YEAR-TO-YYYY, DATE-TO-YYYYMMDD, DAY-TO-YYYYDDD: unit is what one year counts;
\* the years end interval years after the year in question.
Windowed(a, unit) ==
  LET n    == GetInt(a[1])
      year == Quotient(n, unit)
      from == IF Len(a) > 2 THEN GetInt(a[3]) ELSE Today
      last1 == from + IF Len(a) > 1 THEN GetInt(a[2]) ELSE 50
      century == (last1 \div 100) - IF last1 % 100 >= year THEN 0 ELSE 1
  IN  IF \/ year \notin 0..(IF unit = 1 THEN 99 ELSE 999999)
         \/ from \notin FirstYear..LastYear \/ last1 \notin 1700..LastYear
      THEN Wrong(CountResult(0))
      ELSE Fine(CountResult((year + 100 * century) * unit + Remainder(n, unit)))

\* the two digits of the value where the format has the mark, -1 if there are none
Marked(format, value, c) ==
  LET places == {i \in 1..(Len(format) - 1) :
                   /\ format[i] = c /\ format[i + 1] = c
                   /\ IsDigit(value[i]) /\ IsDigit(value[i + 1])}
  IN  IF places = {} THEN -1
      ELSE LET i == Min(places) IN 10 * (value[i] - 48) + value[i + 1] - 48

SecondsFromFormatted(format, value) ==
  LET hours   == Marked(format, value, 104)
      minutes == Marked(format, value, 109)
      seconds == Marked(format, value, 115)
  IN  IF Len(value) < Len(format) \/ -1 \in {hours, minutes, seconds} THEN Wrong(CountResult(0))
      ELSE Fine(CountResult(3600 * hours + 60 * minutes + seconds))

\* strftime in the "C" locale
Pair(n) == <<48 + ((n \div 10) % 10), 48 + (n % 10)>>
ShortDate(n) == Pair((n % 10000) \div 100) \o <<47>> \o Pair(n % 100) \o <<47>> \o Pair(n \div 10000)
Clock(n) == Pair(n \div 10000) \o <<58>> \o Pair((n % 10000) \div 100) \o <<58>> \o Pair(n % 100)

NoLocal == Wrong(Text([i \in 1..10 |-> Space]))

\* a number, or a text that begins with as many digits; -1 if it does not
Reading(x, size) ==
  IF Numeric(x) THEN GetInt(x)
  ELSE IF Len(x.d) >= size /\ \A i \in 1..size : IsDigit(x.d[i])
  THEN Number([i \in 1..size |-> x.d[i] - 48], 10) ELSE -1

LocaleDate(x, m) ==
  LET n == Reading(x, 8)
  IN  IF DateFault(n) # 0 THEN NoLocal ELSE Fine(Text(RefMod(ShortDate(n), m)))

LocaleTime(x, m) ==
  LET n == Reading(x, 6)
  IN  IF n < 0 \/ n \div 10000 > 24 \/ (n % 10000) \div 100 > 59 \/ n % 100 > 59 THEN NoLocal
      ELSE Fine(Text(RefMod(Clock(n), m)))

LocaleTimeFromSeconds(x, m) ==
  LET n == GetInt(x)
  IN  IF ~Numeric(x) \/ n > 86400 THEN NoLocal
      ELSE Fine(Text(RefMod(Clock(10000 * (n \div 3600) + 100 * ((n % 3600) \div 60) + (n % 60)), m)))

-----------------------------------------------------------------------------
(* Calls *)

\* make_field_entry
MakeFieldEntry(r, x) ==
  [cell |-> [r.cell EXCEPT ![r.next] = x], next |-> (r.next + 1) % Depth, made |-> r.made + 1]

In(r, t) == IF t.at = Depth THEN t.want ELSE r.cell[t.at]
Read(t) == In(ring, t)

\* as it is read when the result has been made, and cleared, before it
Blank(x) == [x EXCEPT !.v = 0]
Seen(t) == IF t.at = ring.next THEN Blank(Read(t)) ELSE Read(t)

\* Since it was returned fewer than Depth results were made, k more included.
Stands(t, k) == t.at = Depth \/ ring.made + k - t.born < Depth

\* The last n references are the arguments of the call.
Arguments(n) ==
  LET t == SubSeq(terms, Len(terms) - n + 1, Len(terms))
  IN  IF RightToLeft THEN Reverse(t) ELSE t
Lists == {Arguments(n) : n \in DOMAIN terms}
RefMods == Families[family].refmods
Wanted == IF ring.made < Families[family].results THEN Families[family].fns ELSE {}
NoRefMod == [offset |-> 0, length |-> 0]

FunctionInit ==
  /\ family \in DOMAIN Families
  /\ ring = [cell |-> [i \in 0..(Depth - 1) |-> Text(<<>>)], next |-> 0, made |-> 0]
  /\ terms = <<>> /\ used = 0 /\ code = "none"
  /\ last = [fn |-> "none", fresh |-> FALSE]

\* An operand that is a field
Refer(x) ==
  /\ used < Families[family].terms /\ used' = used + 1
  /\ terms' = Append(terms, [at |-> Depth, want |-> x, born |-> 0])
  /\ UNCHANGED <<family, ring, code, last>>

\* fn returns t; k results were made before it read its arguments for the last time
Return(fn, args, m, k, t, c) ==
  /\ terms' = Append(SubSeq(terms, 1, Len(terms) - Len(args)), t)
  /\ code' = c
  /\ last' = [fn |-> fn, args |-> [i \in DOMAIN args |-> args[i].want], m |-> m, x |-> t.want,
              code |-> c, fresh |-> \A i \in DOMAIN args : Stands(args[i], k)]
  /\ UNCHANGED <<family, used>>

\* mutant: a result is written over the one before it
Make_OneEntry(fn, args, m, k, r, x, c) ==
  /\ fn \in Wanted
  /\ ring' = [r EXCEPT !.cell[0] = x, !.made = @ + 1]
  /\ Return(fn, args, m, k, [at |-> 0, want |-> x, born |-> r.made + 1], c)

\* ... x, which it makes last; r is the ring before
Make(fn, args, m, k, r, x, c) ==
  /\ fn \in Wanted
  /\ ring' = MakeFieldEntry(r, x)
  /\ Return(fn, args, m, k, [at |-> r.next, want |-> x, born |-> r.made + 1], c)

Numbers1 == {"INTEGER", "INTEGER-PART", "FRACTION-PART", "SIGN", "ABS"}
OfNumber(fn, x) ==
  CASE fn = "INTEGER"       -> Floor(x)
    [] fn = "INTEGER-PART"  -> MoveToLong(x, 0)
    [] fn = "FRACTION-PART" -> MoveToLong(x, LongDigits)
    [] fn = "SIGN"          -> Sign(x)
    [] fn = "ABS"           -> Absolute(x)
NumberCall ==
  \E fn \in Numbers1 \intersect Wanted, a \in Lists :
    /\ Len(a) = 1 /\ Numeric(Read(a[1]))
    /\ Make(fn, a, NoRefMod, 1, ring, OfNumber(fn, Seen(a[1])), code)

BinopCall ==
  \E op \in {"+", "-", "*", "/"} \intersect Wanted, a \in Lists :
    /\ Len(a) = 2 /\ \A i \in 1..2 : Numeric(Read(a[i]))
    /\ op = "/" => Read(a[2]).v # 0
    /\ Make(op, a, NoRefMod, 0, ring, Binop(op, Read(a[1]), Read(a[2])), code)

\* cob_intr_mod: the result it makes first is left blank; the one it returns is that
\* of INTEGER, where it stores its own.
ModCall ==
  \E a \in Lists :
    /\ "MOD" \in Wanted
    /\ Len(a) = 2 /\ \A i \in 1..2 : Numeric(Read(a[i]))
    /\ LET r == MakeFieldEntry(ring, Integer(Long(0), 0))
           q == Binop("/", In(r, a[1]), In(r, a[2]))
           s == MakeFieldEntry(r, q)
           t == MakeFieldEntry(s, Floor(q))
       IN  /\ In(r, a[2]).v # 0
           /\ Make("MOD", a, NoRefMod, 3, s,
                   Store(Rest(In(t, a[1]), In(t, a[2]), Floor(q)), Long(0)), code)

\* cob_intr_rem
RemCall ==
  \E a \in Lists :
    /\ "REM" \in Wanted
    /\ Len(a) = 2 /\ \A i \in 1..2 : Numeric(Read(a[i]))
    /\ Read(a[2]).v # 0
    /\ LET q == Binop("/", Read(a[1]), Read(a[2]))
           whole == MoveToLong(q, 0)
           s == MakeFieldEntry(MakeFieldEntry(ring, q), whole)
           x == In(s, a[1])
           y == In(s, a[2])
       IN  Make("REM", a, NoRefMod, 2, s,
                Store(Rest(x, y, whole), Long(TopScale(<<x, y>>))), code)

\* functions of any number of numbers: as they are read before the result is made, and after
Early == {"ORD-MIN", "ORD-MAX", "MIDRANGE", "RANGE", "MEDIAN"}
OfNumbers(fn, a, b) ==
  CASE fn = "ORD-MIN"  -> Ordinal(b, -1)
    [] fn = "ORD-MAX"  -> Ordinal(b, 1)
    [] fn = "MIDRANGE" -> Midrange(b)
    [] fn = "RANGE"    -> RangeOf(a, b)
    [] fn = "MEDIAN"   -> Median(a, b)
    [] fn = "SUM"      -> SumOf(a)
    [] fn = "MEAN"     -> Mean(a)
    [] fn = "VARIANCE" -> Variance(a)
ListCall ==
  \E fn \in (Early \union {"SUM", "MEAN", "VARIANCE"}) \intersect Wanted, a \in Lists :
    /\ \A i \in DOMAIN a : Numeric(Read(a[i]))
    /\ fn = "MEDIAN" => Len(a) % 2 = 0
    /\ Make(fn, a, NoRefMod, IF fn \in Early THEN 1 ELSE 0, ring,
            OfNumbers(fn, [i \in DOMAIN a |-> Read(a[i])], [i \in DOMAIN a |-> Seen(a[i])]), code)

\* MAX and MIN return a reference they were given, and so does MEDIAN unless the
\* number of its arguments is even.
Chosen(fn, a) ==
  LET read == [i \in DOMAIN a |-> Read(a[i])]
  IN  CASE fn = "MAX"    -> Extreme(read, 1)
        [] fn = "MIN"    -> Extreme(read, -1)
        [] fn = "MEDIAN" -> MiddleOf(read)
SameKind(a) == \A i, j \in DOMAIN a : Numeric(Read(a[i])) = Numeric(Read(a[j]))
ChoiceCall ==
  \E fn \in {"MAX", "MIN", "MEDIAN"} \intersect Wanted, a \in Lists :
    /\ SameKind(a) /\ (fn = "MEDIAN" => Len(a) % 2 = 1)
    /\ \E i \in DOMAIN a :
         /\ i = Chosen(fn, a)
         /\ Return(fn, a, NoRefMod, 0, [a[i] EXCEPT !.want = Read(a[i])], code)
    /\ UNCHANGED ring

\* Functions that clear the exception code and set it when an argument is wrong; all
\* make their result first.
OfDate(fn, x) ==
  LET n == GetInt(x)
  IN  CASE fn = "DATE-OF-INTEGER" -> DateOfInteger(n)
        [] fn = "DAY-OF-INTEGER"  -> DayOfInteger(n)
        [] fn = "INTEGER-OF-DATE" -> IntegerOfDate(n)
        [] fn = "INTEGER-OF-DAY"  -> IntegerOfDay(n)
        [] fn = "FACTORIAL"       -> IF n < 0 THEN Wrong(Integer(UnsignedLong, 0)) ELSE Fine(Factorial(n))
        [] fn = "TEST-DATE-YYYYMMDD" -> Answer(CountResult(DateFault(n)))
        [] fn = "TEST-DAY-YYYYDDD"   -> Answer(CountResult(DayFault(n)))
DateFunctions == {"DATE-OF-INTEGER", "DAY-OF-INTEGER", "INTEGER-OF-DATE", "INTEGER-OF-DAY",
                  "FACTORIAL", "TEST-DATE-YYYYMMDD", "TEST-DAY-YYYYDDD"}
DateCall ==
  \E fn \in DateFunctions \intersect Wanted, a \in Lists :
    /\ Len(a) = 1 /\ Numeric(Read(a[1]))
    /\ LET r == OfDate(fn, Seen(a[1])) IN Make(fn, a, NoRefMod, 1, ring, r.x, r.code)

DatetimeCall ==
  \E a \in Lists :
    /\ "COMBINED-DATETIME" \in Wanted
    /\ Len(a) = 2 /\ \A i \in 1..2 : Numeric(Read(a[i]))
    /\ LET r == CombinedDatetime(GetInt(Seen(a[1])), GetInt(Seen(a[2])))
       IN  Make("COMBINED-DATETIME", a, NoRefMod, 1, ring, r.x, r.code)

WindowUnit == [fn \in {"YEAR-TO-YYYY", "DATE-TO-YYYYMMDD", "DAY-TO-YYYYDDD"} |->
                 CASE fn = "YEAR-TO-YYYY"     -> 1
                   [] fn = "DATE-TO-YYYYMMDD" -> 10000
                   [] fn = "DAY-TO-YYYYDDD"   -> 1000]
WindowCall ==
  \E fn \in DOMAIN WindowUnit \intersect Wanted, a \in Lists :
    /\ Len(a) <= 3 /\ \A i \in DOMAIN a : Numeric(Read(a[i]))
    /\ LET r == Windowed([i \in DOMAIN a |-> Seen(a[i])], WindowUnit[fn])
       IN  Make(fn, a, NoRefMod, 1, ring, r.x, r.code)

\* A function that reads or returns a text is followed only while the texts stand.
Texts1(a) == \A i \in DOMAIN a : ~Numeric(Read(a[i])) /\ Stands(a[i], 1)
Data(a) == [i \in DOMAIN a |-> Read(a[i])]

LocaleCall ==
  \E fn \in {"LOCALE-DATE", "LOCALE-TIME", "LOCALE-TIME-FROM-SECONDS"} \intersect Wanted,
     a \in Lists, m \in RefMods :
    /\ Len(a) = 1 /\ Stands(a[1], 1)
    /\ LET x == Read(a[1])
           r == CASE fn = "LOCALE-DATE" -> LocaleDate(x, m)
                  [] fn = "LOCALE-TIME" -> LocaleTime(x, m)
                  [] fn = "LOCALE-TIME-FROM-SECONDS" -> LocaleTimeFromSeconds(x, m)
       IN  Make(fn, a, m, 0, ring, r.x, r.code)

FormattedCall ==
  \E a \in Lists :
    /\ "SECONDS-FROM-FORMATTED-TIME" \in Wanted
    /\ Len(a) = 2 /\ Texts1(a)
    /\ LET r == SecondsFromFormatted(Read(a[1]).d, Read(a[2]).d)
       IN  Make("SECONDS-FROM-FORMATTED-TIME", a, NoRefMod, 1, ring, r.x, r.code)

\* A zero byte is behind a literal; behind a field there may be one.
NumvalCall ==
  \E fn \in {"NUMVAL", "NUMVAL-C"} \intersect Wanted, a \in Lists, nul \in BOOLEAN :
    /\ Len(a) \in 1..(IF fn = "NUMVAL" THEN 1 ELSE 2) /\ Texts1(a)
    /\ Read(a[1]).f.usage = "literal" => nul
    /\ Make(fn, a, NoRefMod, 0, ring,
            Numval(Read(a[1]).d, IF Len(a) = 2 THEN Read(a[2]).d ELSE <<>>, nul), code)

CaseOf(fn, d) ==
  CASE fn = "UPPER-CASE" -> [i \in DOMAIN d |-> Upper(d[i])]
    [] fn = "LOWER-CASE" -> [i \in DOMAIN d |-> Lower(d[i])]
    [] fn = "REVERSE"    -> Reverse(d)
CaseCall ==
  \E fn \in {"UPPER-CASE", "LOWER-CASE", "REVERSE"} \intersect Wanted, a \in Lists, m \in RefMods :
    /\ Len(a) = 1 /\ Texts1(a)
    /\ Make(fn, a, m, 1, ring, Text(RefMod(CaseOf(fn, Read(a[1]).d), m)), code)

TrimSide == [fn \in {"TRIM", "TRIM LEADING", "TRIM TRAILING"} |->
               CASE fn = "TRIM" -> "both" [] fn = "TRIM LEADING" -> "leading"
                 [] fn = "TRIM TRAILING" -> "trailing"]
TrimCall ==
  \E fn \in DOMAIN TrimSide \intersect Wanted, a \in Lists, m \in RefMods :
    /\ Len(a) = 1 /\ Texts1(a)
    /\ Make(fn, a, m, 1, ring, Text(Trim(Read(a[1]).d, TrimSide[fn], m)), code)

JoinCall ==
  \E fn \in {"CONCATENATE", "SUBSTITUTE", "SUBSTITUTE-CASE"} \intersect Wanted,
     a \in Lists, m \in RefMods :
    /\ Texts1(a) /\ (fn # "CONCATENATE" => Len(a) >= 3 /\ Len(a) % 2 = 1)
    /\ LET d == IF fn = "CONCATENATE" THEN Concatenation(Data(a))
                ELSE Substitution(Data(a), fn = "SUBSTITUTE-CASE")
       IN  Make(fn, a, m, 1, ring, Text(RefMod(d, m)), code)

SizeCall ==
  \E fn \in {"LENGTH", "ORD", "STORED-CHAR-LENGTH"} \intersect Wanted, a \in Lists :
    /\ Len(a) = 1 /\ Texts1(a)
    /\ LET d == Read(a[1]).d
       IN  Make(fn, a, NoRefMod, 1, ring,
                CountResult(CASE fn = "LENGTH" -> Len(d) [] fn = "ORD" -> d[1] + 1
                              [] fn = "STORED-CHAR-LENGTH" -> StoredLength(d)), code)

CharCall ==
  \E a \in Lists :
    /\ "CHAR" \in Wanted
    /\ Len(a) = 1 /\ Numeric(Read(a[1]))
    /\ Make("CHAR", a, NoRefMod, 1, ring, Text(Char(GetInt(Seen(a[1])))), code)

FunctionNext ==
  \/ \E x \in Families[family].operands : Refer(x)
  \/ NumberCall \/ BinopCall \/ ModCall \/ RemCall \/ ListCall \/ ChoiceCall
  \/ DateCall \/ DatetimeCall \/ WindowCall \/ LocaleCall \/ FormattedCall
  \/ NumvalCall \/ CaseCall \/ TrimCall \/ JoinCall \/ SizeCall \/ CharCall

FunctionSpec == FunctionInit /\ [][FunctionNext]_functionVars

-----------------------------------------------------------------------------
(* What the functions promise *)

X == last.x
A == last.args
Is(fns) == last.fresh /\ last.fn \in fns

\* the integer that stands for x with s decimals
Scaled(x, s) == x.v * Ten(s - x.f.scale)
Most == Max({X.f.scale} \union {A[i].f.scale : i \in DOMAIN A})
Out == Scaled(X, Most)
Arg(i) == Scaled(A[i], Most)
SumTo(f) == FoldLeft(LAMBDA n, i : n + f[i], 0, [i \in DOMAIN A |-> i])

\* |x / y| is cut to z: they have the same sign and less than one unit is missing
CutTo(x, y, z, unit) ==
  /\ Abs(z * y) <= Abs(x) /\ Abs(x) - Abs(z * y) < Abs(y) * unit
  /\ z # 0 => SignOf(z) = SignOf(x) * SignOf(y)

\* INTEGER looks at one decimal below zero: -1.05 is not seen to be below -1.
OneDecimal(x, y) == SignOf(x) * SignOf(y) >= 0 \/ Abs(x) % Abs(y) = 0
                      \/ ((Radix * Abs(x)) \div Abs(y)) % Radix # 0

\* + - * are exact, whatever field the result gets, and / is to DivideScale places.
ArithmeticExact ==
  /\ Is({"+"}) => Out = Arg(1) + Arg(2)
  /\ Is({"-"}) => Out = Arg(1) - Arg(2)
  /\ Is({"*"}) => Out * Ten(Most) = Arg(1) * Arg(2)
  /\ Is({"/"}) => CutTo(A[1].v * Ten(A[2].f.scale + X.f.scale), A[2].v * Ten(A[1].f.scale), X.v, 1)

\* Parts of a number: the greatest integer below it (but see OneDecimal), what is
\* before and behind the point, its sign and its amount.  What is before the point is
\* right for up to LongDigits digits, what is behind it while the number with
\* LongDigits decimals fits the field.
PartsExact ==
  /\ Is({"INTEGER"}) /\ OneDecimal(A[1].v, Ten(A[1].f.scale)) =>
       Out <= Arg(1) /\ Arg(1) < Out + Ten(Most)
  /\ Is({"INTEGER-PART"}) /\ Abs(A[1].v) < Ten(LongDigits + A[1].f.scale) => CutTo(A[1].v, Ten(A[1].f.scale), X.v, 1)
  /\ Is({"FRACTION-PART"}) /\ Abs(Arg(1)) < LongLimit =>
       Out = SignOf(A[1].v) * (Abs(Arg(1)) % Ten(Most))
  /\ Is({"SIGN"}) => X.v = SignOf(A[1].v)
  /\ Is({"ABS"}) => Out = Abs(Arg(1))

\* MOD takes the sign of the divisor, REM that of the number.
RestsExact ==
  /\ Is({"MOD"}) /\ OneDecimal(A[1].v, A[2].v) /\ A[1].f.scale = 0 /\ A[2].f.scale = 0 =>
       /\ Abs(X.v) < Abs(A[2].v) /\ X.v * A[2].v >= 0
       /\ (A[1].v - X.v) % Abs(A[2].v) = 0
  /\ Is({"REM"}) =>
       /\ Abs(Out) < Abs(Arg(2)) /\ Out * Arg(1) >= 0
       /\ Abs(Arg(1) - Out) % Abs(Arg(2)) = 0

\* of a list: SUM exact, MEAN and VARIANCE to as many places as the field has,
\* MIDRANGE and the median of an even number to DoubleScale
ListsExact ==
  LET n       == Len(A)
      total   == SumTo([i \in DOMAIN A |-> Arg(i)])
      spread  == n * SumTo([i \in DOMAIN A |-> Arg(i) * Arg(i)]) - total * total
      below   == {i \in DOMAIN A : Compare(A[i], X) < 0}
      above   == {i \in DOMAIN A : Compare(A[i], X) > 0}
      Lowest  == CHOOSE i \in DOMAIN A : \A j \in DOMAIN A : Arg(i) <= Arg(j)
      Highest == CHOOSE i \in DOMAIN A : \A j \in DOMAIN A : Arg(i) >= Arg(j)
  IN  /\ Is({"SUM"}) => Out = total
      /\ Is({"MEAN"}) => CutTo(total, n, Out, Ten(Most - X.f.scale))
      /\ Is({"VARIANCE"}) => Abs(n * n * X.v * Ten(Most) - spread * Ten(X.f.scale - Most))
                               <= 2 * n * n * Ten(Most)
      /\ Is({"RANGE"}) => Out = Arg(Highest) - Arg(Lowest)
      /\ Is({"MAX"}) => above = {} /\ X \in {A[i] : i \in DOMAIN A}
      /\ Is({"MIN"}) => below = {} /\ X \in {A[i] : i \in DOMAIN A}
      /\ Is({"MEDIAN"}) => 2 * Cardinality(below) <= n /\ 2 * Cardinality(above) <= n
      /\ Is({"MIDRANGE"}) => CutTo(Arg(Highest) + Arg(Lowest), 2, Out, Ten(Most - X.f.scale))
      /\ Is({"ORD-MAX"}) /\ n > 1 => \A j \in DOMAIN A : Compare(A[X.v], A[j]) >= 0
      /\ Is({"ORD-MIN"}) /\ n > 1 => \A j \in DOMAIN A : Compare(A[X.v], A[j]) <= 0

\* The number a text spells: its digits, those behind the point are decimals, minus
\* with a sign or credit mark.  A mark counts only at the end, and a field may lose it.
NumeralsExact ==
  LET d      == A[1].d
      digits == SelectSeq(d, IsDigit)
      points == {i \in DOMAIN d : d[i] = 46}
      places == Cardinality({i \in DOMAIN d : IsDigit(d[i]) /\ \E p \in points : p < i})
      marked == Len(d) > 1 /\ Credit(Piece(d, Len(d) - 1, 2))
      minus  == (\E i \in DOMAIN d : d[i] = 45) \/ marked
      value  == (IF minus THEN -1 ELSE 1) * Number([i \in DOMAIN digits |-> digits[i] - 48], 10)
  IN  Is({"NUMVAL"}) /\ (marked => A[1].f.usage = "literal") /\ Len(digits) <= MostDigits =>
        IF Len(digits) <= LongDigits THEN X.v = value /\ X.f.scale = places
        ELSE CutTo(value * Ten(DoubleScale), Ten(places), X.v, 1)

\* Day 1 is 1 January 1601.  By the calendar alone: a year begins in March.
DayNumber(y, m, d) ==
  LET z == IF m > 2 THEN y ELSE y - 1
      k == IF m > 2 THEN m - 3 ELSE m + 9
  IN  365 * z + z \div 4 - z \div 100 + z \div 400 + (153 * k + 2) \div 5 + d
        - 584694
Dated(n) == DayNumber(n \div 10000, (n % 10000) \div 100, n % 100)
IsDate(n) ==
  LET y == n \div 10000  m == (n % 10000) \div 100
  IN  /\ y \in FirstYear..LastYear /\ m \in 1..12 /\ n % 100 > 0
      /\ Dated(n) < IF m = 12 THEN DayNumber(y + 1, 1, 1) ELSE DayNumber(y, m + 1, 1)
IsDay(n) ==
  LET y == n \div 1000
  IN  /\ y \in FirstYear..LastYear /\ n % 1000 > 0
      /\ DayNumber(y, 1, 1) + (n % 1000) <= DayNumber(y + 1, 1, 1)
Refused == X.v = 0 /\ last.code = "argument"

\* Dates are converted and refused by the calendar, from 1601 to the last year.  A
\* binary argument with decimals is not looked at: it is read as if it had none.
DatesExact ==
  LET n == Quotient(A[1].v, Ten(A[1].f.scale))
      plain == A[1].f.usage \notin {"int", "long"} \/ A[1].f.scale = 0
  IN  /\ Is({"DATE-OF-INTEGER"}) /\ plain =>
           IF n \in 1..LastDay THEN IsDate(X.v) /\ Dated(X.v) = n /\ last.code = "none" ELSE Refused
      /\ Is({"DAY-OF-INTEGER"}) /\ plain =>
           IF n \in 1..LastDay
           THEN /\ IsDay(X.v) /\ last.code = "none"
                /\ DayNumber(X.v \div 1000, 1, 0) + (X.v % 1000) = n
           ELSE Refused
      /\ Is({"INTEGER-OF-DATE"}) /\ plain =>
           IF IsDate(n) THEN X.v = Dated(n) /\ last.code = "none" ELSE Refused
      /\ Is({"INTEGER-OF-DAY"}) /\ plain =>
           IF IsDay(n) THEN X.v = DayNumber(n \div 1000, 1, 0) + (n % 1000) /\ last.code = "none"
           ELSE Refused
      /\ Is({"TEST-DATE-YYYYMMDD"}) /\ plain => (X.v = 0 <=> IsDate(n))
      /\ Is({"TEST-DAY-YYYYDDD"}) /\ plain => (X.v = 0 <=> IsDay(n))
      /\ Is({"FACTORIAL"}) /\ plain =>
           IF n < 0 THEN Refused ELSE n > 0 /\ Product[n] < 2 * LongLimit => X.v = n * Product[n - 1]

\* A year of two digits becomes the one of the hundred years up to interval years
\* from now that ends in them; the rest of the date stays.
WindowExact ==
  LET unit == WindowUnit[last.fn]
      n    == A[1].v
      now  == IF Len(A) > 2 THEN A[3].v ELSE Today
      top  == now + IF Len(A) > 1 THEN A[2].v ELSE 50
  IN  Is(DOMAIN WindowUnit) /\ n >= 0 /\ n \div unit <= 99 =>
        IF now \in FirstYear..LastYear /\ top \in 1700..LastYear
        THEN /\ last.code = "none"
             /\ X.v \div unit \in (top - 99)..top
             /\ (X.v \div unit) % 100 = n \div unit /\ X.v % unit = n % unit
        ELSE Refused

\* TRIM takes away the spaces and nothing else, at least one character stays; a
\* reference modification takes what is left from its offset on, or if the offset is
\* beyond the end nothing happens.
TextsExact ==
  LET d    == A[1].d
      side == TrimSide[last.fn]
      Cut(t) == IF last.m.offset \notin 1..Len(t) THEN t
                ELSE [i \in 1..Min({Len(t) + 1 - last.m.offset}
                                   \union ({last.m.length} \ {0})) |-> t[last.m.offset + i - 1]]
      Bare(t) == /\ side # "trailing" => t[1] # Space
                 /\ side # "leading" => t[Len(t)] # Space
      Kept(t) == SelectSeq(t, LAMBDA c : c # Space)
      One(c) == LET hits == {k \in 1..(Len(A) \div 2) :
                               IF last.fn = "SUBSTITUTE" THEN A[2 * k].d = <<c>> ELSE Alike(A[2 * k].d, <<c>>)}
                IN  IF hits = {} THEN <<c>> ELSE A[2 * Min(hits) + 1].d
  IN  /\ Is(DOMAIN TrimSide) /\ Kept(d) = <<>> => X.d = <<Space>>
      /\ Is(DOMAIN TrimSide) /\ Kept(d) # <<>> =>
           \E i \in DOMAIN d : \E j \in i..Len(d) :
             /\ Bare(SubSeq(d, i, j)) /\ Kept(SubSeq(d, i, j)) = Kept(d)
             /\ side = "trailing" => i = 1
             /\ side = "leading" => j = Len(d)
             /\ X.d = Cut(SubSeq(d, i, j))
      /\ Is({"REVERSE"}) => X.d = Cut([i \in DOMAIN d |-> d[Len(d) + 1 - i]])
      /\ Is({"CONCATENATE"}) => X.d = Cut(FoldLeft(LAMBDA t, x : t \o x.d, <<>>, A))
      /\ Is({"SUBSTITUTE", "SUBSTITUTE-CASE"}) /\ (\A k \in 1..(Len(A) \div 2) : Len(A[2 * k].d) = 1) =>
           X.d = Cut(FlattenSeq([i \in DOMAIN d |-> One(d[i])]))

\* A function computes what it promises from arguments that still stand.
FunctionsExact ==
  last.fresh =>
    /\ ArithmeticExact /\ PartsExact /\ RestsExact /\ ListsExact /\ NumeralsExact
    /\ DatesExact /\ WindowExact /\ TextsExact

\* A result stays as it was returned until Depth more are made: then it is lost, also
\* to an expression that still refers to it.
ResultsStand == \A i \in DOMAIN terms : Stands(terms[i], 0) => Read(terms[i]) = terms[i].want
=============================================================================
