------------------------------ MODULE MCStrings ------------------------------
(***************************************************************************)
(* Instance of Strings and of Intrinsics: a string statement or an         *)
(* expression of functions.  Fields and operands of statements have up to  *)
(* four characters; every family of functions has fields of its own.       *)
(***************************************************************************)
EXTENDS Strings, Intrinsics

MCTexts    == [1..1 -> {1, 2}] \union {t \in [1..4 -> {1, 2}] : t[1] = 1}
MCPatterns == {<<1>>, <<2>>, <<1, 2>>, <<1, 1>>}

Num(scale, values) == {Integer(Format("display", 4, scale, TRUE), v) : v \in values}
Bin(scale, values) == {Integer(Long(scale), v) : v \in values}
Chars(texts) == {Text(d) : d \in texts}
Literal(d) == [Text(d) EXCEPT !.f.usage = "literal"]

Family(fns, operands, refmods, results, size) ==
  [fns |-> fns, operands |-> operands, refmods |-> refmods, results |-> results, terms |-> size]
NoMods == {NoRefMod}
Mods == {[offset |-> m, length |-> n] : m \in 0..4, n \in 0..2}

Lists10 == {"SUM", "MEAN", "VARIANCE", "RANGE", "MAX", "MIN", "MEDIAN", "MIDRANGE", "ORD-MIN", "ORD-MAX"}

FamilyTable == [
  \* numbers of up to two decimals, near the limits of int and long
  parts |-> Family({"INTEGER", "INTEGER-PART", "FRACTION-PART", "SIGN", "ABS"},
         UNION {Num(s, {-99, -51, -50, -25, -10, -1, 0, 7, 98}) \union Bin(s, {-31, 31, 99}) : s \in 0..2},
         NoMods, 1, 1),
  arithmetic |-> Family({"+", "-", "*", "/"},
         UNION {Num(s, {-31, -16, -3, 0, 2, 15, 31}) : s \in 0..2}, NoMods, 1, 2),
  rests |-> Family({"MOD", "REM"}, Num(0, {-11, -10, -3, 2, 3, 10, 11}) \union Num(1, {-15, 25}), NoMods, 1, 2),
  lists |-> Family(Lists10, Num(0, {1, 3}), NoMods, 1, 4),
  scaled |-> Family(Lists10 \ {"VARIANCE"}, Num(0, {2}) \union Num(1, {-15, 25}), NoMods, 1, 3),
  \* results that are used again
  nested |-> Family({"ABS", "+"}, Num(0, {-1, 2}), NoMods, 5, 2),
  reused |-> Family({"MAX", "MOD", "RANGE", "MIDRANGE"}, Num(0, {2, 3}), NoMods, 3, 3),
  \* 12, -1.2, 123.4, 1CR
  numerals |-> Family({"NUMVAL", "NUMVAL-C"},
         Chars({<<49, 50>>, <<45, 49, 46, 50>>, <<32, 49, 46, 50, 45>>, <<49, 50, 51, 46, 52>>, <<49, 67, 82>>,
                <<36, 49>>, <<36>>, <<49, 50, 51, 52, 53, 54, 55>>})
           \union {Literal(<<49, 67, 82>>), Literal(<<49, 46, 100, 98>>)},
         NoMods, 1, 2),
  dates |-> Family({"DATE-OF-INTEGER", "DAY-OF-INTEGER", "INTEGER-OF-DATE", "INTEGER-OF-DAY", "TEST-DATE-YYYYMMDD",
          "TEST-DAY-YYYYDDD"},
         Num(0, {-1, 0, 1, 59, 60, 365, 366, 1154, 36218, 36219, 145790, 145791, 146097, LastDay, LastDay + 1,
                 16000101, 16010101, 16001301, 17000229, 20000229, 20000230, 20100931, 20101231, 20110101,
                 19991301, 1700366, 2000366, 2010000, 2010365}) \union Bin(1, {3650}), NoMods, 2, 1),
  windows |-> Family({"YEAR-TO-YYYY", "DATE-TO-YYYYMMDD", "DAY-TO-YYYYDDD"},
         Num(0, {-50, 0, 50, 99, 1660, 1900, 500101}), NoMods, 1, 3),
  counts |-> Family({"FACTORIAL"}, Num(0, {-1, 0, 1, 4, 5, 8}) \union Bin(1, {6}), NoMods, 1, 1),
  codes |-> Family({"COMBINED-DATETIME", "CHAR"}, Num(0, {-1, 0, 1, 66, 257, 20000, LastDay + 1}), NoMods, 1, 2),
  trims |-> Family({"TRIM", "TRIM LEADING", "TRIM TRAILING", "UPPER-CASE", "LOWER-CASE", "REVERSE", "LENGTH", "ORD",
          "STORED-CHAR-LENGTH"},
         Chars(UNION {[1..n -> {32, 97, 66}] : n \in {1, 3}}), Mods, 1, 1),
  joins |-> Family({"CONCATENATE", "SUBSTITUTE", "SUBSTITUTE-CASE"},
         Chars({<<97, 66, 97>>, <<97>>, <<98>>, <<97, 66>>, <<32, 32>>}), NoMods, 1, 3),
  \* hhmmss, hh:mm:ss; 123456, 20000229
  times |-> Family({"LOCALE-DATE", "LOCALE-TIME", "LOCALE-TIME-FROM-SECONDS", "SECONDS-FROM-FORMATTED-TIME"},
         Num(0, {0, 86399, 86401, 240000, 256000, 20000229, 20010229})
           \union Chars({<<104, 104, 109, 109, 115, 115>>, <<49, 50, 51, 52, 53, 54>>,
                         <<50, 48, 48, 48, 48, 50, 50, 57>>,
                         <<104, 104, 58, 109, 109, 58, 115, 115>>, <<49, 50, 58, 51, 52, 58, 53, 54>>}),
         {NoRefMod, [offset |-> 4, length |-> 2]}, 1, 2)
]

\* as a function: TLC keeps it, once it is computed
MCFamilies == [name \in DOMAIN FamilyTable |-> FamilyTable[name]]

\* One statement, or one expression, of the run.
MCInit ==
  /\ Init /\ FunctionInit
  /\ family = "counts" \/ text = <<1>>

MCNext ==
  \/ family = "counts" /\ used = 0 /\ Next /\ UNCHANGED functionVars
  \/ pc = "idle" /\ FunctionNext /\ UNCHANGED vars

MCSpec == MCInit /\ [][MCNext]_<<vars, functionVars>>
=============================================================================
