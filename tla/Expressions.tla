----------------------------- MODULE Expressions -----------------------------
(***************************************************************************)
(* How cobc reads expressions and conditions (cobc/typeck.c).  parser.y    *)
(* collects the tokens of an expression as they come; cb_build_expr shifts *)
(* them, one after the other, onto a stack of operators and trees and      *)
(* reduces it by a table of priorities.  Two globals, expr_lh and expr_op, *)
(* hold the subject and the operator of the last relation for those that   *)
(* are abbreviated: A > 1 AND NOT 5 OR < 3.  The trees become calls for    *)
(* decimals in cb_build_cond and decimal_expand.                           *)
(*                                                                         *)
(* A tree is <<name>>, <<op, tree>> or <<op, tree, tree>>; what the code   *)
(* expects of it is checked against the meaning that the rules of COBOL    *)
(* give to the tokens: Meaning.                                            *)
(***************************************************************************)
EXTENDS Integers, Sequences, FiniteSets, SequencesExt

CONSTANTS
  Items,         \* numeric operands
  Names,         \* condition-names (level 88)
  Vocabularies,  \* [words, most]: tokens, as parser.y names them, and the
                 \* bound on the length of an expression of them
  MaxTargets     \* bound on the number of targets of a statement

Zero == <<"zero">>
NoTree == <<"null">>
ErrorNode == <<"error">>

Arithmetic == {"+", "-", "*", "/", "^"}
Relations == {"=", "~", "<", ">", "[", "]"}
Logical == {"&", "|"}

Opposite == [r \in Relations |->
  CASE r = "=" -> "~" [] r = "~" -> "=" [] r = "<" -> "]"
    [] r = "]" -> "<" [] r = ">" -> "[" [] r = "[" -> ">"]

\* cb_tree_class, as far as it matters
RECURSIVE Class(_)
Class(t) ==
  CASE t \in {NoTree, ErrorNode} -> "none"
    [] t[1] = "@" -> Class(t[2])
    [] t[1] \in Relations \union Logical \union {"!", "NUMERIC"} -> "boolean"
    [] Len(t) = 1 /\ t[1] \in Names -> "boolean"
    [] OTHER -> "numeric"

IsName(t) == Len(t) = 1 /\ t[1] \in Names

-----------------------------------------------------------------------------
(* The parser's state: stk, the stack behind its three dummies; op and lh, *)
(* expr_op and expr_lh; told, whether an error has been reported.          *)

Node(token, value) == [token |-> token, value |-> value]
Dummy == Node("end", NoTree)

\* TOKEN and VALUE
Token(s, n) == s.stk[Len(s.stk) + 1 + n].token
Value(s, n) == s.stk[Len(s.stk) + 1 + n].value

\* expr_index -= n, then the new top of the stack
Popped(s, n) == [s EXCEPT !.stk = SubSeq(@, 1, Len(@) - n)]
Put(s, n, x) == [s EXCEPT !.stk = [@ EXCEPT ![Len(@) + 1 + n] = Node("x", x)]]

\* cb_build_binary_op
Wrong(op, x, y) ==
  \/ op \in Arithmetic /\ "boolean" \in {Class(x), Class(y)}
  \/ op \in Logical /\ ~(Class(x) = "boolean" /\ Class(y) = "boolean")
  \/ op = "!" /\ Class(x) # "boolean"

Binary(op, x, y) == IF Wrong(op, x, y) \/ ErrorNode \in {x, y} THEN ErrorNode ELSE <<op, x, y>>
Negation(x) == IF Wrong("!", x, x) THEN ErrorNode ELSE <<"!", x>>

Told(s, x) == [s EXCEPT !.told = @ \/ x = ErrorNode]

Priority(t) ==
  CASE t = "x" -> 0 [] t = "^" -> 1 [] t \in {"*", "/"} -> 2 [] t \in {"+", "-"} -> 3
    [] t \in Relations -> 4 [] t = "!" -> 5 [] t = "&" -> 6 [] t = "|" -> 7
    [] t = ")" -> 8 [] t = "(" -> 9 [] t = "end" -> 10

\* an abbreviated relation completed, if there is a relation to complete it by
Completed(s, x) ==
  IF s.lh # NoTree /\ Class(x) # "boolean" THEN Binary(s.op, s.lh, x) ELSE x

\* mutant: the operator of the last relation is not noted
RelationNoted_OnceOnly(s, op, lh) == [s EXCEPT !.op = IF @ = "none" THEN op ELSE @, !.lh = lh]

RelationNoted(s, op, lh) == [s EXCEPT !.op = op, !.lh = lh]

\* one turn of expr_reduce, which asks for Token(s, -2) to be reduced; the
\* stack as it is says that the turn has given up
Turn(s) ==
  LET op == Token(s, -2)
      x == Value(s, -3)
      y == Value(s, -1)
  IN  CASE op \in {"x", "(", ")", "end"} -> s
        [] op \in Arithmetic ->
             IF Token(s, -1) # "x" \/ Token(s, -3) # "x" THEN s
             ELSE LET t == Binary(op, x, y) IN Told(Put(Popped(s, 2), -1, t), t)
        [] op = "!" ->
             IF Token(s, -1) # "x" THEN s
             ELSE LET t == Negation(Completed(s, y)) IN Told(Put(Popped(s, 1), -1, t), t)
        [] op \in Logical ->
             IF Token(s, -1) # "x" \/ Token(s, -3) # "x" THEN s
             ELSE LET t == Binary(op, Completed(s, x), Completed(s, y))
                  IN  Told(Put(Popped(s, 2), -1, t), t)
        [] op \in Relations ->
             CASE Token(s, -1) # "x" -> s
               [] Token(s, -1) = "x" /\ Token(s, -3) = "x" ->
                    IF ErrorNode \in {x, y} THEN Put(Popped(s, 2), -1, ErrorNode)
                    ELSE IF IsName(x) \/ IsName(y) THEN Put([s EXCEPT !.lh = x], -3, ErrorNode)
                    ELSE Put(Popped(RelationNoted(s, op, x), 2), -1,
                             IF Class(y) = "boolean" THEN y ELSE Binary(op, x, y))
               [] Token(s, -1) = "x" /\ Token(s, -3) \in Logical ->
                    IF y = ErrorNode THEN Put(Popped(s, 1), -1, y)
                    ELSE Put(Popped([s EXCEPT !.op = op], 1), -1,
                             IF Class(y) = "boolean" THEN y ELSE <<op, s.lh, y>>)
               [] OTHER -> s

\* a turn that has given up ends it
RECURSIVE Turns(_, _), TurnAgain(_, _, _)
Turns(s, token) ==
  IF Priority(Token(s, -2)) > Priority(token) THEN s ELSE TurnAgain(s, Turn(s), token)
TurnAgain(before, s, token) == IF Len(s.stk) < Len(before.stk) THEN Turns(s, token) ELSE s

\* the special case: op OR x AND
OrCompleted(r, token) ==
  LET t == IF r.lh = NoTree THEN ErrorNode ELSE <<r.op, r.lh, Value(r, -1)>>
  IN  IF /\ Priority(Token(r, -2)) > Priority(token)
         /\ token = "&" /\ Token(r, -2) = "|" /\ Class(Value(r, -1)) # "boolean"
      THEN Told(Put(r, -1, t), t)
      ELSE r

\* expr_reduce; a turn that gives up leaves the special case out
Reduced(s, token) == OrCompleted(Turns(s, token), token)

-----------------------------------------------------------------------------
(* cb_expr_shift_sign, cb_expr_shift_class and cb_expr_shift: each reduces *)
(* the stack s up to a token and then pushes the token, or puts a test in  *)
(* the place of the operand on top.                                        *)

Push(s, token, value) == [s |-> s, token |-> token, value |-> value, test |-> "none", not |-> FALSE]

Test(s, test) ==
  LET not == Token(s, -1) = "!"
  IN  [s |-> IF not THEN Popped(s, 1) ELSE s, token |-> "=", value |-> NoTree, test |-> test, not |-> not]

Judged(test, x) == IF test = "NUMERIC" THEN <<"NUMERIC", x>> ELSE Binary(test, x, Zero)
OnTop(r, t) == Told(Put(r, -1, t), t)

\* what is done when s has been reduced to r
Shift(r, plan) ==
  CASE plan.test = "none" -> [r EXCEPT !.stk = Append(@, Node(plan.token, plan.value))]
    [] plan.test # "none" /\ Token(r, -1) # "x" -> r
    [] plan.test # "none" /\ Token(r, -1) = "x" /\ ~plan.not -> OnTop(r, Judged(plan.test, Value(r, -1)))
    [] OTHER -> OnTop(r, Negation(Judged(plan.test, Value(r, -1))))

ShiftSign(s, op) == Test(s, op)
ShiftClass(s) == Test(s, "NUMERIC")

Signed(s, v) == Push(Told(Popped(s, 1), v), "x", v)

ShiftValue(s, x) ==
  CASE x = Zero /\ Token(s, -1) \in {"x", "!"} -> ShiftSign(s, "=")
    [] Token(s, -1) \in {"+", "-"} /\ Token(s, -2) # "x" ->
         Signed(s, IF Token(s, -1) = "-" THEN Binary("-", Zero, x) ELSE x)
    [] OTHER -> Push(s, "x", x)

\* 'x' op '(': the objects in parentheses
ShiftOpen(s) ==
  LET r == IF Token(s, -1) \in Relations
           THEN [s EXCEPT !.op = Token(s, -1), !.lh = IF Token(s, -2) = "x" THEN Value(s, -2) ELSE @]
           ELSE s
  IN  Push(r, "(", NoTree)

\* r is the stack reduced up to the parenthesis
ShiftClose(r) ==
  IF Token(r, -2) = "(" THEN ShiftValue(Popped(r, 2), <<"@", Value(r, -1)>>)
  ELSE Push(r, ")", NoTree)

\* '<' '|' '=' is '[', and '!' '=' is '~'
ShiftOperator(s, token) ==
  LET merged == token = "=" /\ Token(s, -1) = "|" /\ Token(s, -2) \in {"<", ">"}
      t == IF ~merged THEN token ELSE IF Token(s, -2) = "<" THEN "[" ELSE "]"
      r == IF merged THEN Popped(s, 2) ELSE s
  IN  IF Token(r, -1) = "!" /\ t \in Relations
      THEN Push(Popped(r, 1), Opposite[t], NoTree)
      ELSE Push(r, t, NoTree)

\* one turn of cb_build_expr
Planned(s, token) ==
  CASE token = "P" -> ShiftSign(s, ">")
    [] token = "N" -> ShiftSign(s, "<")
    [] token = "9" -> ShiftClass(s)
    [] token = "(" -> ShiftOpen(s)
    [] token = ")" -> ShiftClose(Reduced(s, ")"))
    [] token \in Items \union Names \union {"zero"} -> ShiftValue(s, <<token>>)
    [] OTHER -> ShiftOperator(s, token)

Carried(plan) == Shift(Reduced(plan.s, plan.token), plan)
Shifted(s, token) == Carried(Planned(s, token))

\* expr_expand
RECURSIVE Bare(_)
Bare(t) ==
  CASE t[1] = "@" -> Bare(t[2])
    [] t[1] # "@" /\ Len(t) = 2 /\ t[1] # "NUMERIC" -> <<t[1], Bare(t[2])>>
    [] Len(t) = 3 -> <<t[1], Bare(t[2]), Bare(t[3])>>
    [] OTHER -> t

-----------------------------------------------------------------------------
(* cb_build_cond, and decimal_expand with the decimals it allocates: a     *)
(* relation in which one side is computed compares two decimals.  The code *)
(* is run on registers that hold the trees they stand for.                 *)

RECURSIVE Decimals(_, _, _)
Decimals(t, d, free) ==
  IF Len(t) < 3 THEN <<[func |-> "set", d |-> d, of |-> t]>>
  ELSE Decimals(t[2], d, free + 1) \o Decimals(t[3], free, free + 1)
         \o <<[func |-> t[1], d |-> d, of |-> free]>>

MaxDecimals == 3 + CHOOSE n \in {v.most : v \in Vocabularies} : \A v \in Vocabularies : v.most <= n

Run(code) ==
  FoldLeft(LAMBDA regs, c : [regs EXCEPT ![c.d] = IF c.func = "set" THEN c.of
                                                  ELSE <<c.func, @, regs[c.of]>>],
           [d \in 1..MaxDecimals |-> NoTree], code)

\* what the generated condition tests, written as a tree again
RECURSIVE Generated(_)
Generated(t) ==
  CASE t[1] = "!" -> <<"!", Generated(t[2])>>
    [] t[1] \in Logical -> <<t[1], Generated(t[2]), Generated(t[3])>>
    [] t[1] \in Relations /\ (Len(t[2]) = 3 \/ Len(t[3]) = 3) ->
         LET regs == Run(Decimals(t[2], 1, 3) \o Decimals(t[3], 2, 3))
         IN  <<t[1], regs[1], regs[2]>>
    [] Class(t) = "numeric" -> Run(Decimals(t, 1, 2))[1]
    [] OTHER -> t

-----------------------------------------------------------------------------
(* cb_emit_arithmetic: ADD, SUBTRACT, MULTIPLY, DIVIDE and COMPUTE of the  *)
(* tree val to the fields vars; op is "" where val is the new value.  The  *)
(* code is run on fields that hold trees over the values they had before.  *)

Stored(mem, d, t) == [mem EXCEPT ![d] = t]

\* what a tree is worth when the fields hold mem
RECURSIVE Worth(_, _)
Worth(t, mem) ==
  CASE Len(t) = 3 -> <<t[1], Worth(t[2], mem), Worth(t[3], mem)>>
    [] Len(t) = 1 /\ t[1] \in DOMAIN mem -> mem[t[1]]
    [] OTHER -> t

\* mutant: the value is computed anew for every target
Emitted_Anew(vars, op, val, mem) ==
  FoldLeft(LAMBDA m, v : Stored(m, v, IF op = "" THEN Worth(val, m) ELSE <<op, m[v], Worth(val, m)>>),
           mem, vars)

\* cb_build_add and cb_build_sub take a value that is not computed as it is
\* at that moment; build_decimal_assign computes the value once
Emitted(vars, op, val, mem) ==
  LET now == Worth(Run(Decimals(val, 1, 2))[1], mem)
      Taken(m) == IF Len(val) = 1 /\ op \in {"+", "-"} THEN Worth(val, m) ELSE now
  IN  FoldLeft(LAMBDA m, v : Stored(m, v, IF op = "" THEN Taken(m) ELSE <<op, m[v], Taken(m)>>),
               mem, vars)

-----------------------------------------------------------------------------
VARIABLES
  vocabulary,  \* the words to choose from
  tokens,      \* the tokens shifted
  parser,      \* the parser's state
  result,      \* what cb_build_expr returns, NoTree before
  statement,   \* the statement the result is used in, [vars, op]
  fields       \* what the fields hold, as trees over their first values

vars == <<vocabulary, tokens, parser, result, statement, fields>>

NoStatement == [vars |-> <<>>, op |-> ""]

Init ==
  /\ vocabulary \in Vocabularies
  /\ tokens = <<>>
  /\ parser = [stk |-> <<Dummy, Dummy, Dummy>>, op |-> "none", lh |-> NoTree, told |-> FALSE]
  /\ result = NoTree
  /\ statement = NoStatement
  /\ fields = [i \in Items |-> <<i>>]

Ends == Items \union Names \union {")", "zero", "P", "N", "9"}

\* What may follow: two operands or two operators in a row are not looked
\* into further, nor a parenthesis that closes none.
Depth(s, i) ==
  Cardinality({j \in 1..i : s[j] = "("}) - Cardinality({j \in 1..i : s[j] = ")"})

Previous == IF tokens = <<>> THEN "none" ELSE Last(tokens)

\* NOT ZERO is a sign condition wherever it stands: a comparison that begins
\* with it loses its NOT, or is refused, and is left out here.

\* what a class or sign condition tests, and what stands before that
Tests == IF Previous = "!" THEN Len(tokens) - 1 ELSE Len(tokens)
ZeroTested == Tests > 0 /\ tokens[Tests] = "zero"
OperandTested == Tests > 0 /\ tokens[Tests] \in Ends

Testable ==
  /\ Tests > 0 /\ tokens[Tests] \in Items
  /\ Tests > 1 => tokens[Tests - 1] \notin Arithmetic

Follows(token) ==
  LET after == Previous \in Ends
  IN  CASE token \in Items \union Names \union {"("} -> ~after
        [] token = "zero" -> ~ZeroTested /\ (Previous = "!" => OperandTested)
        [] token \in {"P", "N"} -> ~ZeroTested /\ OperandTested
        [] token = "9" -> Testable
        [] token = ")" -> after /\ Depth(tokens, Len(tokens)) > 0
        [] token = "-" -> Previous # "-"
        [] token \in Arithmetic \ {"-"} -> after
        [] token \in Relations -> Previous \in Ends \union Logical \union {"!"}
        [] token \in Logical -> after \/ (token = "|" /\ Previous \in {"<", ">"})
        [] token = "!" -> Previous # "!"

Take(token) ==
  /\ result = NoTree /\ Len(tokens) < vocabulary.most /\ Follows(token)
  /\ tokens' = Append(tokens, token)
  /\ parser' = Shifted(parser, token)
  /\ UNCHANGED <<vocabulary, result, statement, fields>>

\* cb_expr_finish
Finish ==
  /\ result = NoTree /\ tokens # <<>>
  /\ LET r == Reduced(parser, "end")
     IN  /\ result' = IF r.told \/ Len(r.stk) # 4 \/ r.stk[4].token # "x" THEN ErrorNode
                      ELSE Bare(r.stk[4].value)
         /\ parser' = [r EXCEPT !.told = @ \/ Len(r.stk) # 4 \/ r.stk[4].token # "x"]
  /\ UNCHANGED <<vocabulary, tokens, statement, fields>>

\* cb_build_binary_list: the operands of ADD and SUBTRACT
RECURSIVE IsSum(_)
IsSum(t) == Len(t) = 1 \/ (Len(t) = 3 /\ t[1] = "+" /\ IsSum(t[2]) /\ Len(t[3]) = 1)

\* what add_body, subtract_body, multiply_body, divide_body and compute_body
\* make of their operands
Emits(op, val) ==
  \/ op = ""
  \/ op \in {"+", "-"} /\ IsSum(val)
  \/ op \in {"*", "/"} /\ Len(val) = 1

\* cb_emit_arithmetic, and the statement executed
Compute(targets, op) ==
  /\ statement = NoStatement /\ result # NoTree
  /\ result # ErrorNode /\ Class(result) = "numeric" /\ Emits(op, result)
  /\ statement' = [vars |-> targets, op |-> op]
  /\ fields' = Emitted(targets, op, result, fields)
  /\ UNCHANGED <<vocabulary, tokens, parser, result>>

Next ==
  \/ \E t \in vocabulary.words : Take(t)
  \/ Finish
  \/ \E n \in 1..MaxTargets, op \in {"", "+", "-", "*", "/"} :
       \E targets \in [1..n -> Items] : Compute(targets, op)

Spec == Init /\ [][Next]_vars

-----------------------------------------------------------------------------
(* The meaning of an expression by the rules of COBOL: first abbreviated   *)
(* relations are written out, then the operator that binds least and       *)
(* stands last splits the expression.                                      *)

At(s, ops) == {i \in DOMAIN s : s[i] \in ops /\ Depth(s, i) = 0}
Before(s, i) == SubSeq(s, 1, i - 1)
Behind(s, i) == SubSeq(s, i + 1, Len(s))
Inside(s) == SubSeq(s, 2, Len(s) - 1)
Wrapped(s) == /\ Len(s) > 2 /\ s[1] = "(" /\ Last(s) = ")"
              /\ \A i \in 1..(Len(s) - 1) : Depth(s, i) > 0

\* an operator between operands, not the sign of one
Infix(s, ops) == {i \in At(s, ops) : i > 1 /\ s[i - 1] \in Ends}

Checked(t) ==
  CASE Len(t) = 1 -> t
    [] t[1] = "NUMERIC" -> IF Class(t[2]) = "numeric" THEN t ELSE ErrorNode
    [] t[1] \in Relations -> IF Class(t[2]) = "numeric" /\ Class(t[3]) = "numeric" THEN t ELSE ErrorNode
    [] Len(t) = 2 -> Negation(t[2])
    [] OTHER -> Binary(t[1], t[2], t[3])

\* the rule that applies to s: an operator and the texts of its operands
\* ("(" for parentheses), s itself for an operand, <<>> if there is none
AroundOp(s, i) == <<s[i], Before(s, i), Behind(s, i)>>
AroundRelation(s, i) ==
  IF i > 1 /\ s[i - 1] = "!" THEN <<Opposite[s[i]], Before(s, i - 1), Behind(s, i)>> ELSE AroundOp(s, i)

NextToLast(s) == IF Len(s) > 1 THEN s[Len(s) - 1] ELSE "none"
EndsInTest(s) == Last(s) \in {"P", "N", "9"} \/ (Last(s) = "zero" /\ NextToLast(s) \in Ends \union {"!"})
TestRule(s) ==
  CASE NextToLast(s) = "!" -> <<"!", Append(SubSeq(s, 1, Len(s) - 2), Last(s))>>
    [] NextToLast(s) # "!" /\ Last(s) = "9" -> <<"NUMERIC", Front(s)>>
    [] OTHER -> <<CASE Last(s) = "P" -> ">" [] Last(s) = "N" -> "<" [] OTHER -> "=", Front(s), Zero>>

\* the operators by how they bind
Levels == <<{"+", "-"}, {"*", "/"}, {"^"}>>

NumberRule(s) ==
  CASE Infix(s, Arithmetic) # {} ->
         AroundOp(s, Max(Infix(s, Levels[Min({n \in 1..3 : Infix(s, Levels[n]) # {}})])))
    [] Infix(s, Arithmetic) = {} /\ s[1] = "-" -> <<"-", Zero, Tail(s)>>
    [] Infix(s, Arithmetic) = {} /\ s[1] # "-" /\ Wrapped(s) -> <<"(", Inside(s)>>
    [] OTHER -> IF s[1] \in Items \union Names \union {"zero"} /\ Len(s) = 1 THEN s ELSE <<>>

Rule(s) ==
  CASE s = <<>> -> <<>>
    [] At(s, {"|"}) # {} -> AroundOp(s, Max(At(s, {"|"})))
    [] At(s, {"|"}) = {} /\ At(s, {"&"}) # {} -> AroundOp(s, Max(At(s, {"&"})))
    [] At(s, Logical) = {} /\ s[1] = "!" -> <<"!", Tail(s)>>
    [] At(s, Logical) = {} /\ s[1] # "!" /\ At(s, Relations) # {} ->
         AroundRelation(s, Min(At(s, Relations)))
    [] OTHER -> IF EndsInTest(s) THEN TestRule(s) ELSE NumberRule(s)

RECURSIVE Split(_), Built(_)
Split(s) == Built(Rule(s))
Built(rule) ==
  CASE rule = <<>> -> ErrorNode
    [] Len(rule) = 1 -> rule
    [] Len(rule) > 1 /\ rule[1] = "(" -> Split(rule[2])
    [] OTHER -> Checked(<<rule[1]>> \o [i \in 1..(Len(rule) - 1) |-> Split(rule[i + 1])])

IsNumber(s) == Class(Split(s)) = "numeric"

\* The pieces between AND and OR: NOT, and the relation, with a NOT in front
\* of the operator as part of it; left, sign and right are empty if there is
\* none.
Cut(s) == IF At(s, Logical) = {} THEN Len(s) + 1 ELSE Min(At(s, Logical))

Parts(nots, body, rel) ==
  LET neg == IF rel > 1 /\ body[rel - 1] = "!" THEN 1 ELSE 0
  IN  [nots |-> nots, body |-> body,
       left |-> Before(body, rel - neg), sign |-> SubSeq(body, rel - neg, rel), right |-> Behind(body, rel)]

Unnegated(nots, body) ==
  IF At(body, Relations) # {} THEN Parts(nots, body, Min(At(body, Relations)))
  ELSE [nots |-> nots, body |-> body, left |-> <<>>, sign |-> <<>>, right |-> <<>>]

PartsOf(piece) ==
  IF piece # <<>> /\ piece[1] = "!" THEN Unnegated(<<"!">>, Tail(piece)) ELSE Unnegated(<<>>, piece)

\* objects in parentheses share subject and operator
HasObjects(p) == Wrapped(p.right) /\ At(Inside(p.right), Logical) # {} /\ IsNumber(p.left)
Enclosed(text) == <<"(">> \o text \o <<")">>

\* A piece written out, with the subject and the operator that it leaves to
\* the next.
Left(text, subject, op) == [text |-> text, subject |-> subject, op |-> op]

RECURSIVE Written(_, _, _), WrittenPiece(_, _, _), Joined(_, _, _)
Written(s, subject, op) == Joined(s, Cut(s), WrittenPiece(PartsOf(Before(s, Cut(s))), subject, op))

WrittenPiece(p, subject, op) ==
  CASE p.sign # <<>> /\ p.left # <<>> ->
         Left(IF ~HasObjects(p) THEN p.nots \o p.body
              ELSE IF \A i \in DOMAIN p.right : p.right[i] \notin Relations
              THEN p.nots \o Enclosed(Written(Inside(p.right), p.left, p.sign))
              ELSE <<>>,
              p.left, p.sign)
    [] p.sign # <<>> /\ p.left = <<>> -> Left(subject \o p.nots \o p.body, subject, p.nots \o p.sign)
    [] p.sign = <<>> /\ IsNumber(p.body) -> Left(p.nots \o subject \o op \o p.body, subject, op)
    [] OTHER ->
         Left(p.nots \o IF Wrapped(p.body) THEN Enclosed(Written(Inside(p.body), <<>>, <<>>)) ELSE p.body,
              <<>>, <<>>)

Joined(s, cut, piece) ==
  IF cut > Len(s) THEN piece.text
  ELSE piece.text \o <<s[cut]>> \o Written(Behind(s, cut), piece.subject, piece.op)

\* LESS OR EQUAL is one operator
RECURSIVE Merged(_)
Merged(s) ==
  IF Len(s) < 3 THEN s
  ELSE IF s[1] \in {"<", ">"} /\ s[2] = "|" /\ s[3] = "="
       THEN <<IF s[1] = "<" THEN "[" ELSE "]">> \o Merged(SubSeq(s, 4, Len(s)))
       ELSE <<s[1]>> \o Merged(Tail(s))

Meaning(s) == Split(Written(Merged(s), <<>>, <<>>))

\* A numeric expression is not to be completed.
MeaningOf(s) == IF Class(Split(s)) = "numeric" THEN Split(s) ELSE Meaning(s)

\* Some expressions with NOT are refused, whatever they mean: the compiler
\* takes NOT LESS for GREATER OR EQUAL before it sees OR EQUAL, and the NOT behind an operand
\* for the end of what the NOT before it stands for.
Unusual(s) ==
  \E i \in DOMAIN s :
        /\ s[i] = "!"
        /\ \/ i + 3 <= Len(s) /\ s[i + 1] \in {"<", ">"} /\ s[i + 2] = "|" /\ s[i + 3] = "="
           \/ \E j \in i + 2..Len(s) : s[j] = "!" /\ s[j - 1] \in Ends
                /\ \A k \in i + 1..j - 1 : s[k] \notin Logical \union Relations

\* whether cb_build_cond and decimal_expand know what to do with a tree
RECURSIVE Compiles(_)
Compiles(t) ==
  CASE t = ErrorNode -> FALSE
    [] t[1] = "NUMERIC" -> Len(t[2]) = 1
    [] t[1] \in Relations -> Class(t[2]) = "numeric" /\ Class(t[3]) = "numeric"
    [] t[1] \in Logical -> Compiles(t[2]) /\ Compiles(t[3])
    [] t[1] = "!" -> Compiles(t[2])
    [] OTHER -> TRUE

\* The code generated for an expression tests or computes just what the
\* expression means: through priorities, signs, NOT, parentheses and relations
\* that are abbreviated by what stands several conditions before; what has a
\* meaning is refused only if it is unusual (cb_build_expr, cb_build_cond,
\* decimal_expand).
MeansWhatItSays ==
  result # NoTree /\ MeaningOf(tokens) # ErrorNode =>
    IF Compiles(result) THEN Generated(result) = MeaningOf(tokens) ELSE Unusual(tokens)

\* The statement by the rules of COBOL: the value first, then target after
\* target.
RECURSIVE InTurn(_, _, _, _)
InTurn(targets, op, val, mem) ==
  IF targets = <<>> THEN mem
  ELSE LET v == Head(targets)
       IN  InTurn(Tail(targets), op, val,
                  [mem EXCEPT ![v] = IF op = "" THEN val ELSE <<op, @, val>>])

\* ADD and SUBTRACT of a single field use it as the targets before have left it.
SelfChanged ==
  /\ Len(result) = 1 /\ statement.op \in {"+", "-"}
  /\ \E i \in DOMAIN statement.vars :
       i < Len(statement.vars) /\ statement.vars[i] = result[1]

\* Every target of an arithmetic statement gets the value that the operands had
\* before the statement, also those that are operands and targets at once or
\* are named twice, as long as the value is computed or is no target itself
\* (cb_emit_arithmetic, build_decimal_assign).
TargetsTogether ==
  statement # NoStatement =>
    \/ fields = InTurn(statement.vars, statement.op, result, [i \in Items |-> <<i>>])
    \/ SelfChanged
=============================================================================
