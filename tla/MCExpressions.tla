---------------------------- MODULE MCExpressions ----------------------------
(***************************************************************************)
(* Instance of Expressions: all relations, sign and class conditions in    *)
(* short expressions; parentheses and condition-names, abbreviated         *)
(* relations, and arithmetic in longer ones.                               *)
(***************************************************************************)
EXTENDS Expressions

MCVocabularies ==
  { [words |-> {"a", "b", "p", "zero", "P", "N", "9", "=", "<", ">", "~", "&", "|", "!",
                "(", ")", "-", "*", "^"}, most |-> 4],
    [words |-> {"a", "zero", "P", "9", "=", "<", "|", "!", "-", "^"}, most |-> 6],
    [words |-> {"a", "p", "=", "<", "&", "|", "!", "(", ")"}, most |-> 7],
    [words |-> {"a", "b", "=", "<", "&", "|", "!"}, most |-> 8],
    [words |-> {"a", "=", "<", "&", "|"}, most |-> 11],
    [words |-> {"a", "b", "+", "-", "*", "^", "(", ")"}, most |-> 6] }
=============================================================================
