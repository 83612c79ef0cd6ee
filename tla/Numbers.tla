------------------------------ MODULE Numbers ------------------------------
(***************************************************************************)
(* ADD, SUBTRACT, DIVIDE ... REMAINDER, MOVE of an integer and comparisons *)
(* on one numeric field.  The compiler chooses for each statement between  *)
(* the general way over decimals (libcob/numeric.c) and routines made for  *)
(* one storage format, most of them inline functions of libcob/codegen.h;  *)
(* the statement must mean the same whichever is chosen.                   *)
(*                                                                         *)
(* The base of a byte, the radix of a digit and the sizes of the C types   *)
(* are parameters (256, 10, 4 and 8 in the code).  A field is a sequence   *)
(* of bytes in memory order on a little-endian host (binary), or of digits *)
(* with a sign (PACKED-DECIMAL, DISPLAY).                                  *)
(***************************************************************************)
EXTENDS Decimals

CONSTANTS
  ByteBase,     \* values of a byte
  IntSize,      \* bytes of a C int
  LongSize,     \* bytes of a C long long
  IntDigits,    \* a number with fewer digits fits an int
  Fields,       \* the fields tried: usage, size, digits, scale (not below 0), signed,
                \* swap, truncate
  Starts(_),    \* the contents tried for a field
  Operands      \* the operands tried: value, scale

VARIABLES
  fld,   \* attributes of the field
  mem,   \* its content
  done   \* the last statement, what it started from and what it reported

vars == <<fld, mem, done>>

Binary(f) == f.usage \in {"binary", "comp5"}

-----------------------------------------------------------------------------
(* C integers of w bytes *)

Unsigned(v, w) == v % (ByteBase^w)
Signed(v, w) ==
  LET u == Unsigned(v, w) IN IF 2 * u >= ByteBase^w THEN u - ByteBase^w ELSE u
Wrapped(v, w, signed) == IF signed THEN Signed(v, w) ELSE Unsigned(v, w)

\* the operands that a statement can hand over as an int
FitsInt(x) == x.scale = 0 /\ x.value = Signed(x.value, IntSize)

\* mutant: no shift with sign
LoadUnshifted(p, w, signed) == Number(Reverse(p), ByteBase)

\* Bytes p, least significant first, loaded into an integer of w bytes: a
\* signed number goes to the high end and is shifted down with its sign.
Load(p, w, signed) ==
  IF signed
  THEN Signed(Number(Reverse(p), ByteBase) * ByteBase^(w - Len(p)), w)
         \div ByteBase^(w - Len(p))
  ELSE Number(Reverse(p), ByteBase)

\* the low bytes of an integer
Bytes(v, len) == Reverse(Numeral(v, ByteBase, len))

\* char, short and int for the short fields
IntWidth(p) == IF Len(p) <= 2 THEN Len(p) ELSE IntSize

Order(a, b) == IF a < b THEN -1 ELSE IF a > b THEN 1 ELSE 0

-----------------------------------------------------------------------------
(* The inline routines for binary fields: "Int" for fields of up to four   *)
(* bytes, "Long" for longer ones, "Swapped" for the big-endian ones.       *)

\* mutant: the operand compared as an unsigned int
CompareIntUnsigned(p, n, signed) ==
  Order(Load(p, IntWidth(p), signed), IF signed THEN n ELSE Unsigned(n, IntSize))

CompareInt(p, n, signed) ==
  IF ~signed /\ n < 0 THEN 1 ELSE Order(Load(p, IntWidth(p), signed), n)
CompareLong(p, n, signed) ==
  IF ~signed /\ n < 0 THEN 1 ELSE Order(Load(p, LongSize, signed), n)
CompareSwappedInt(p, n, signed) == CompareInt(Reverse(p), n, signed)
CompareSwappedLong(p, n, signed) == CompareLong(Reverse(p), n, signed)

AddInt(p, n, signed) ==
  Bytes(Wrapped(Load(p, IntWidth(p), signed) + n, IntWidth(p), signed), Len(p))
AddLong(p, n, signed) ==
  Bytes(Wrapped(Load(p, LongSize, signed) + n, LongSize, signed), Len(p))
AddSwappedInt(p, n, signed) == Reverse(AddInt(Reverse(p), n, signed))
AddSwappedLong(p, n, signed) == Reverse(AddLong(Reverse(p), n, signed))

SubInt(p, n, signed) ==
  Bytes(Wrapped(Load(p, IntWidth(p), signed) - n, IntWidth(p), signed), Len(p))
SubLong(p, n, signed) ==
  Bytes(Wrapped(Load(p, LongSize, signed) - n, LongSize, signed), Len(p))
SubSwappedInt(p, n, signed) == Reverse(SubInt(Reverse(p), n, signed))
SubSwappedLong(p, n, signed) == Reverse(SubLong(Reverse(p), n, signed))

SetSwappedInt(p, n) == Reverse(Bytes(Unsigned(n, IntSize), Len(p)))
SetSwappedLong(p, n) == Reverse(Bytes(Unsigned(n, LongSize), Len(p)))

\* the tables bin_compare_funcs, bin_add_funcs, bin_sub_funcs, bin_set_funcs
Short(f) == f.size <= IntSize
CompareBinary(f, p, n) ==
  IF f.swap
  THEN IF Short(f) THEN CompareSwappedInt(p, n, f.signed) ELSE CompareSwappedLong(p, n, f.signed)
  ELSE IF Short(f) THEN CompareInt(p, n, f.signed) ELSE CompareLong(p, n, f.signed)
AddBinary(f, p, n) ==
  IF f.swap
  THEN IF Short(f) THEN AddSwappedInt(p, n, f.signed) ELSE AddSwappedLong(p, n, f.signed)
  ELSE IF Short(f) THEN AddInt(p, n, f.signed) ELSE AddLong(p, n, f.signed)
SubBinary(f, p, n) ==
  IF f.swap
  THEN IF Short(f) THEN SubSwappedInt(p, n, f.signed) ELSE SubSwappedLong(p, n, f.signed)
  ELSE IF Short(f) THEN SubInt(p, n, f.signed) ELSE SubLong(p, n, f.signed)

-----------------------------------------------------------------------------
(* What a field holds, and storing a decimal into it *)

\* an even number of packed digits leaves a half byte in front of them
Pad(f) == IF f.usage = "packed" /\ f.digits % 2 = 0 THEN 1 ELSE 0
DigitsOf(f, m) == SubSeq(m.d, Pad(f) + 1, Len(m.d))
Negative(m) == m.sign = "minus"

BinaryValue(f, m) == Load(IF f.swap THEN Reverse(m.d) ELSE m.d, LongSize, f.signed)

DecimalValue(f, m) ==
  LET u == Number(DigitsOf(f, m), Radix) IN IF Negative(m) THEN -u ELSE u

Value(f, m) == IF Binary(f) THEN BinaryValue(f, m) ELSE DecimalValue(f, m)

DecimalOf(f, m) == [value |-> Value(f, m), scale |-> f.scale]

SignFor(f, v) == IF ~f.signed THEN "none" ELSE IF v < 0 THEN "minus" ELSE "plus"

\* the content with the low digits of v
WithDigits(f, v, sign) ==
  [d |-> Numeral(0, Radix, Pad(f)) \o Numeral(Abs(v), Radix, f.digits), sign |-> sign]

WithBytes(f, v) ==
  [d |-> LET p == Bytes(v, f.size) IN IF f.swap THEN Reverse(p) ELSE p, sign |-> "none"]

Result(m, exc) == [m |-> m, exc |-> exc]

\* mutant: the field is overwritten before the option is looked at
GetDigitsAlways(v, f, m, opt) ==
  Result(WithDigits(f, v, SignFor(f, v)), Abs(v) >= Radix^f.digits)

\* cob_decimal_get_display and cob_decimal_get_packed
GetDigits(v, f, m, opt) ==
  LET over == Abs(v) >= Radix^f.digits
  IN  IF over /\ "keep" \in opt THEN Result(m, TRUE)
      ELSE Result(WithDigits(f, v, SignFor(f, v)), over)

\* A number too long for the bytes, or with truncation for the digits, is
\* refused, cut to its digits (the sign is lost on the way: mpz_get_ui), or
\* cut to the bytes.
GetBinary(v, f, m, opt) ==
  LET u     == IF f.signed THEN v ELSE Abs(v)
      bits  == IF f.signed THEN (ByteBase^f.size) \div 2 ELSE ByteBase^f.size
      over  == \/ Abs(u) >= bits
               \/ opt # {} /\ f.truncate /\ Abs(u) >= Radix^f.digits
  IN  IF ~over THEN Result(WithBytes(f, u), FALSE)
      ELSE IF "keep" \in opt THEN Result(m, TRUE)
      ELSE IF "trunc" \in opt THEN Result(WithBytes(f, Abs(u) % Radix^f.digits), TRUE)
      ELSE Result(WithBytes(f, u % ByteBase^f.size), TRUE)

Rounded(d, f, opt) ==
  LET r == Shift(d, f.scale - d.scale + 1)
  IN  IF "round" \in opt /\ f.scale < d.scale /\ d.value # 0
      THEN [r EXCEPT !.value = @ + SignOf(d.value) * (Radix \div 2)]
      ELSE d

GetField(d, f, m, opt) ==
  LET r == Rounded(d, f, opt)
      v == Shift(r, f.scale - r.scale).value
  IN  IF Binary(f) THEN GetBinary(v, f, m, opt) ELSE GetDigits(v, f, m, opt)

-----------------------------------------------------------------------------
(* Adding an integer in place *)

\* display_add_int, display_sub_int: the low digits, and what is left over
AddDigits(d, n) ==
  [d |-> Numeral(Number(d, Radix) + n, Radix, Len(d)),
   over |-> Number(d, Radix) + n >= Radix^Len(d)]
SubDigits(d, n) ==
  [d |-> Numeral((Number(d, Radix) - n) % Radix^Len(d), Radix, Len(d)),
   over |-> n > Number(d, Radix)]
Complement(d) == AddDigits([i \in DOMAIN d |-> Radix - 1 - d[i]], 1).d

DisplayAddInt(f, m, n) ==
  LET neg    == Negative(m)
      scaled == n * Radix^f.scale
      by     == IF neg THEN -scaled ELSE scaled
      sum    == AddDigits(m.d, by)
      diff   == SubDigits(m.d, -by)
  IN  CASE by = 0 -> Result(m, FALSE)
        [] by > 0 -> IF sum.over /\ f.truncate THEN Result(m, TRUE)
                     ELSE Result([m EXCEPT !.d = sum.d], FALSE)
        [] by < 0 /\ ~diff.over -> Result([m EXCEPT !.d = diff.d], FALSE)
        [] by < 0 /\ diff.over ->
             Result([d |-> Complement(diff.d),
                     sign |-> SignFor(f, IF neg THEN 1 ELSE -1)], FALSE)

\* cob_add_packed: a carry out of the first digit is dropped
AddPacked(f, m, n) ==
  LET neg    == Negative(m)
      scaled == n * Radix^f.scale
      val    == IF neg THEN -scaled ELSE scaled
      low    == Abs(val) % Radix^f.digits
      d      == DigitsOf(f, m)
      borrow == val < 0 /\ SubDigits(d, low).over
      r      == IF val < 0 THEN SubDigits(d, low).d ELSE AddDigits(d, low).d
      zero   == Number(r, Radix) = 0
      pad    == SubSeq(m.d, 1, Pad(f))
  IN  [d |-> pad \o (IF borrow THEN Complement(r) ELSE r),
       sign |-> CASE ~f.signed -> "none"
                  [] f.signed /\ zero -> "plus"
                  [] f.signed /\ ~zero /\ borrow -> SignFor(f, IF neg THEN 1 ELSE -1)
                  [] OTHER -> m.sign]

\* cob_add_int, where cob_add_packed_int and the operators below end when they
\* have no better way
AddIntGeneral(f, m, n) ==
  IF n = 0 THEN Result(m, FALSE)
  ELSE CASE f.usage = "display" -> DisplayAddInt(f, m, n)
         [] f.usage = "packed" -> Result(AddPacked(f, m, n), FALSE)
         [] OTHER -> GetField([value |-> Value(f, m) + n * Radix^f.scale, scale |-> f.scale],
                              f, m, {})

\* cob_add_packed_int: over all the half bytes, the one in front included
AddPackedInt(f, m, n) ==
  IF n # 0 /\ (n < 0) # Negative(m) THEN AddIntGeneral(f, m, n)
  ELSE Result([m EXCEPT !.d = AddDigits(m.d, Abs(n)).d], FALSE)

\* cb_build_optim_add and cb_build_optim_sub
OptimAdd(f, m, n) ==
  CASE Binary(f) /\ f.scale = 0 -> Result([m EXCEPT !.d = AddBinary(f, m.d, n)], FALSE)
    [] f.usage = "packed" /\ f.scale = 0 /\ f.digits < IntDigits -> AddPackedInt(f, m, n)
    [] OTHER -> AddIntGeneral(f, m, n)
OptimSub(f, m, n) ==
  IF Binary(f) /\ f.scale = 0 THEN Result([m EXCEPT !.d = SubBinary(f, m.d, n)], FALSE)
  ELSE AddIntGeneral(f, m, -n)

\* build_store_option.  Every arithmetic statement has the handler of its
\* SIZE ERROR phrases, written or not, so that with truncation a field keeps
\* its content; SET UP and DOWN have none.
StoreOption(f, verb, phrase, rounded) ==
  (IF rounded THEN {"round"} ELSE {})
  \union
  IF f.usage = "comp5" \/ ~f.truncate
  THEN IF phrase THEN {"keep"} ELSE {}
  ELSE IF verb = "set" THEN {"trunc"} ELSE {"keep"}

-----------------------------------------------------------------------------
(* Comparing with an integer *)

\* cob_cmp_packed_int reads every half byte
ComparePackedInt(m, n) ==
  LET u == Number(m.d, Radix) IN Order(IF Negative(m) THEN -u ELSE u, n)

\* cob_cmp_packed looks at the signs before the digits
ComparePacked(f, m, n) ==
  LET u == Number(DigitsOf(f, m), Radix)
  IN  CASE ~Negative(m) /\ n < 0 -> 1
        [] Negative(m) /\ n >= 0 -> -1
        [] ~Negative(m) /\ n >= 0 -> Order(u, n)
        [] OTHER -> Order(-n, u)

\* cob_cmp_numdisp, cob_cmp_sign_numdisp
CompareDisplay(m, n) ==
  LET u == Number(m.d, Radix) IN Order(IF Negative(m) THEN -u ELSE u, n)

CompareGeneral(f, m, n) == DecimalCmp(DecimalOf(f, m), [value |-> n, scale |-> 0])

\* cb_build_optim_cond
OptimCond(f, m, n) ==
  CASE f.scale # 0 -> CompareGeneral(f, m, n)
    [] f.scale = 0 /\ f.usage = "packed" ->
         IF f.digits < IntDigits THEN ComparePackedInt(m, n) ELSE ComparePacked(f, m, n)
    [] f.scale = 0 /\ f.usage = "display" -> CompareDisplay(m, n)
    [] OTHER -> CompareBinary(f, m.d, n)

-----------------------------------------------------------------------------
(* The statements *)

Idle == [verb |-> "none", from |-> <<>>, exact |-> <<>>, opt |-> {}, exc |-> FALSE, rest |-> <<>>]

Init ==
  /\ fld \in Fields
  /\ mem \in Starts(fld)
  /\ done = Idle

Report(verb, exact, opt, res) ==
  /\ mem' = res.m
  /\ done' = [verb |-> verb, from |-> mem, exact |-> exact, opt |-> opt,
              exc |-> res.exc, rest |-> <<>>]
  /\ UNCHANGED fld

\* cb_build_add, cb_build_sub
Plus(x, opt) ==
  IF opt = {} /\ FitsInt(x) THEN OptimAdd(fld, mem, x.value)
  ELSE GetField(DecimalAdd(DecimalOf(fld, mem), x), fld, mem, opt)
Minus(x, opt) ==
  IF opt = {} /\ FitsInt(x) THEN OptimSub(fld, mem, x.value)
  ELSE GetField(DecimalSub(DecimalOf(fld, mem), x), fld, mem, opt)

Add(verb, x, phrase, rounded) ==
  LET opt == StoreOption(fld, verb, phrase, rounded)
  IN  Report("add", DecimalAdd(DecimalOf(fld, mem), x), opt, Plus(x, opt))

Subtract(verb, x, phrase, rounded) ==
  LET opt == StoreOption(fld, verb, phrase, rounded)
  IN  Report("subtract", DecimalSub(DecimalOf(fld, mem), x), opt, Minus(x, opt))

\* the BY of PERFORM VARYING: whatever the field, as if no option were set
Vary(x) == Report("vary", DecimalAdd(DecimalOf(fld, mem), x), {}, Plus(x, {}))

\* MOVE of an integer literal (cb_build_move_literal)
Move(x) ==
  LET v == x.value * Radix^fld.scale
  IN  /\ fld.usage # "display"
      /\ x.scale = 0 /\ Abs(v) < Radix^(IntDigits - 1)
      /\ Report("move", x, {},
           Result(IF ~Binary(fld) THEN WithDigits(fld, v, SignFor(fld, v))
                  ELSE [mem EXCEPT !.d =
                          CASE fld.swap /\ fld.size > 1 /\ Short(fld) -> SetSwappedInt(mem.d, v)
                            [] fld.swap /\ ~Short(fld) -> SetSwappedLong(mem.d, v)
                            [] OTHER -> Bytes(v, fld.size)],
                  FALSE))

\* DIVIDE the field BY x GIVING the field REMAINDER another one like it:
\* cob_div_quotient, then cob_div_remainder
Divide(x, phrase, rounded) ==
  LET opt  == StoreOption(fld, "divide", phrase, rounded)
      ropt == StoreOption(fld, "divide", phrase, FALSE)
      a    == DecimalOf(fld, mem)
      q    == DecimalDiv(a, x)
      res  == GetField(q, fld, mem, opt)
      cut  == Shift(q, fld.scale - q.scale)
      r    == DecimalSub(a, DecimalMul(cut, x))
      rest == GetField(r, fld, mem, ropt)
  IN  IF x.value = 0
      THEN Report("divide", x, opt, Result(mem, TRUE))
      ELSE /\ mem' = res.m
           /\ done' = [verb |-> "divide", from |-> mem, exact |-> x, opt |-> opt,
                       exc |-> res.exc \/ rest.exc,
                       rest |-> rest.m]
           /\ UNCHANGED fld

\* A behaviour is one statement: the contents it may start from are given.
Next ==
  /\ done.verb = "none"
  /\ \E x \in Operands :
       \/ \E phrase, rounded \in BOOLEAN :
            \/ Add("add", x, phrase, rounded)
            \/ Subtract("subtract", x, phrase, rounded)
            \/ Divide(x, phrase, rounded)
       \/ Add("set", x, FALSE, FALSE)
       \/ Subtract("set", x, FALSE, FALSE)
       \/ Vary(x)
       \/ Move(x)

Spec == Init /\ [][Next]_vars

-----------------------------------------------------------------------------
(* What the statements promise *)

\* Contents are bytes, or digits with a sign that an unsigned field never has.
TypeOK ==
  /\ fld \in Fields
  /\ IF Binary(fld)
     THEN Len(mem.d) = fld.size /\ Range(mem.d) \subseteq 0..ByteBase - 1 /\ mem.sign = "none"
     ELSE /\ Len(mem.d) = fld.digits + Pad(fld)
          /\ Range(mem.d) \subseteq 0..Radix - 1
          /\ (mem.sign = "none") = ~fld.signed

\* the exact result of the last statement in the places of the field
Wanted ==
  LET k == done.exact.scale - fld.scale
  IN  CASE k <= 0 -> done.exact.value * Radix^(-k)
        [] k > 0 /\ "round" \in done.opt ->
             SignOf(done.exact.value)
               * ((2 * Abs(done.exact.value) + Radix^k) \div (2 * Radix^k))
        [] OTHER -> Quotient(done.exact.value, Radix^k)

Sums == {"add", "subtract", "vary", "move"}

\* an unsigned field takes the absolute value
Landed == IF fld.signed THEN Wanted ELSE Abs(Wanted)

Places == IF Binary(fld) THEN ByteBase^fld.size ELSE Radix^fld.digits

\* the field has room for the number
Room ==
  IF ~Binary(fld) THEN Abs(Wanted) < Places
  ELSE /\ Abs(Wanted) < IF fld.signed THEN Places \div 2 ELSE Places
       /\ fld.truncate => Abs(Wanted) < Radix^fld.digits

\* a routine for unsigned binary fields wraps where the general way takes the
\* absolute value
BelowZero == Binary(fld) /\ ~fld.signed /\ Wanted < 0

\* cob_add_packed drops the digits of the operand that the field has no place
\* for: it is then right in the low places only
Dropped ==
  /\ fld.usage = "packed" /\ done.opt = {} /\ done.verb # "move"
  /\ Abs(Wanted - Value(fld, done.from)) >= Places

\* A number the field has room for is stored exactly, whichever routine the
\* compiler chose, whatever the format, the byte order and the sign, and is
\* no SIZE ERROR (cb_build_add, cb_build_sub and all they call).
ExactWhenRoom ==
  done.verb \in Sums /\ Room /\ ~BelowZero /\ ~Dropped => Value(fld, mem) = Landed /\ ~done.exc

\* A statement that keeps the field on overflow either leaves it as it was,
\* and says so, or has stored the whole number (COB_STORE_KEEP_ON_OVERFLOW).
SizeErrorKeeps ==
  done.verb \in Sums /\ "keep" \in done.opt =>
    IF done.exc THEN mem = done.from ELSE Value(fld, mem) = Landed

\* A number too long loses its high places only: what is stored differs from
\* it, up to the sign, by a multiple of what the field can count to; and a
\* field that was left alone was reported.
LowPlacesKept ==
  done.verb \in Sums =>
    \/ done.exc /\ mem = done.from
    \/ LET m == IF Binary(fld) /\ "trunc" \in done.opt /\ done.exc
                THEN Radix^fld.digits ELSE Places
       IN  \/ (Value(fld, mem) - Wanted) % m = 0
           \/ (Value(fld, mem) + Wanted) % m = 0

\* Divisor times quotient plus remainder is the dividend, and the remainder is
\* smaller than the divisor, both taken in the last place of the quotient,
\* whether or not the quotient was rounded (cob_div_quotient).
RemainderExact ==
  done.verb = "divide" /\ ~done.exc /\ done.exact.scale = 0 =>
    LET a == Value(fld, done.from)
        b == done.exact.value
        r == Value(fld, done.rest)
    IN  /\ Abs(r) < Abs(b)
        /\ r = Abs(Remainder(a, b)) * IF fld.signed THEN SignOf(a) ELSE 1
        /\ "round" \notin done.opt /\ fld.signed => Value(fld, mem) * b + r = a

\* contents that the inline comparisons read otherwise: a half byte in front
\* of the digits that cob_add_packed_int has carried into, and a zero with a
\* minus sign where cob_cmp_packed looks at the sign first
Odd(f, m) ==
  /\ f.usage = "packed" /\ f.scale = 0
  /\ IF f.digits < IntDigits THEN Number(m.d, Radix) >= Radix^f.digits
     ELSE Negative(m) /\ Number(DigitsOf(f, m), Radix) = 0

\* The inline comparison with an integer agrees with the values compared
\* (cb_build_optim_cond).
ComparesRight ==
  ~Odd(fld, mem) =>
    \A x \in Operands :
      FitsInt(x) =>
        OptimCond(fld, mem, x.value)
          = Order(Value(fld, mem), x.value * Radix^fld.scale)

\* What a statement stores is the exact result as far as the field has places.
ResultsExact ==
  TypeOK /\ ExactWhenRoom /\ SizeErrorKeeps /\ LowPlacesKept /\ RemainderExact
=============================================================================
