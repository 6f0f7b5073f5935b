------------------------------ MODULE Expressions ------------------------------
(***************************************************************************)
(* Expressions as reference/separan/parser.py parses them.  An author has  *)
(* a tree in mind, which grows, and writes it with the parentheses that    *)
(* the precedence table of the language requires; the parser is to find    *)
(* the same tree, or to refuse it if it chains comparisons.                *)
(*                                                                         *)
(* "x" is any operand, "-" stands for the unary operators, "*" and "+" for *)
(* those of their level, "<" for the order comparisons, "==" for both      *)
(* equalities; "[" is an index and "call" a call with two arguments.       *)
(* An operator named X_Mistake is X with one mistake in it; no action uses *)
(* it, it shows which property would notice.                               *)
(***************************************************************************)
EXTENDS Naturals, Sequences, FiniteSets, SequencesExt

CONSTANT MaxOperators  \* bound: operators of an expression

ASSUME ExpressionsAssumption == MaxOperators \in Nat

VARIABLE tree  \* what the author means

expressionVars == <<tree>>

Node(op, kids) == [op |-> op, kids |-> kids]
X == Node("x", <<>>)
Wrong == Node("wrong", <<>>)

----------------------------------------------------------------------------
(* The parser: one operator for each of its levels, from ?? up to the      *)
(* operands.  It gives the tree and the place behind it.                   *)

Token(t, i) == IF i \in DOMAIN t THEN t[i] ELSE "end"
Found(node, at) == [node |-> node, at |-> at]
Failed == Found(Wrong, 0)
Joined(op, left, right) == IF right = Failed THEN Failed ELSE Found(Node(op, <<left.node, right.node>>), right.at)
Comparisons == {"<", "in"}
StateTests == {"is"}

RECURSIVE Parsing(_, _, _)  \* what the method of a level returns

Coalesce(t, i) ==
  LET left == Parsing("||", t, i)
  IN  IF left # Failed /\ Token(t, left.at) = "??" THEN Joined("??", left, Parsing("??", t, left.at + 1)) ELSE left

\* _binary: a chain of operators of one level, grouped from the left.
RECURSIVE More(_, _, _, _)
More(t, left, op, below) ==
  IF left = Failed \/ Token(t, left.at) # op THEN left
  ELSE More(t, Joined(op, left, Parsing(below, t, left.at + 1)), op, below)
LeftToRight(t, i, op, below) == More(t, Parsing(below, t, i), op, below)

\* _equality, _comparison and _empty_test: none of them twice in a row.
ChainsLeft_SameOnly(node) == node.op = "=="
ChainsLeft(node) == node.op \in {"=="} \cup Comparisons \cup StateTests
ChainsRight(node) == node.op \in Comparisons \cup StateTests
Equality(t, i) ==
  LET left == Parsing("is", t, i)
      right == Parsing("is", t, left.at + 1)
      whole == IF left = Failed \/ Token(t, left.at) # "==" THEN left
               ELSE IF ChainsLeft(left.node) \/ ChainsRight(right.node) THEN Failed ELSE Joined("==", left, right)
  IN  IF whole # Failed /\ Token(t, whole.at) \in {"=="} \cup Comparisons THEN Failed ELSE whole
EmptyTest(t, i) ==
  LET operand == Parsing("<", t, i)
      whole   == IF operand = Failed \/ Token(t, operand.at) # "is" THEN operand
                 ELSE Found(Node("is", <<operand.node>>), operand.at + 1)
  IN  IF whole # Failed /\ Token(t, whole.at) = "is" THEN Failed ELSE whole
Comparison(t, i) ==
  LET left  == Parsing("+", t, i)
      op    == Token(t, left.at)
      whole == IF left = Failed \/ op \notin Comparisons THEN left ELSE Joined(op, left, Parsing("+", t, left.at + 1))
  IN  IF whole # Failed /\ whole # left /\ Token(t, whole.at) \in Comparisons THEN Failed ELSE whole

\* _unary and _power: -a ** b is -(a ** b), a ** -b is a ** (-b).
Exponent_Postfix(t, i) == Parsing("operand", t, i)
Exponent(t, i) == Parsing("-", t, i)
Power(t, i) ==
  LET base == Parsing("operand", t, i)
  IN  IF base # Failed /\ Token(t, base.at) = "**" THEN Joined("**", base, Exponent(t, base.at + 1)) ELSE base
Unary(t, i) ==
  IF Token(t, i) # "-" THEN Power(t, i)
  ELSE LET operand == Parsing("-", t, i + 1)
       IN  IF operand = Failed THEN Failed ELSE Found(Node("-", <<operand.node>>), operand.at)

\* _primary: operands, calls and groups.
Grouped(t, inner) ==
  IF inner = Failed \/ Token(t, inner.at) # ")" THEN Failed ELSE Found(Node("group", <<inner.node>>), inner.at + 1)
Called(t, first) ==
  LET second == IF first # Failed /\ Token(t, first.at) = "," THEN Parsing("??", t, first.at + 1) ELSE Failed
  IN  IF second = Failed \/ Token(t, second.at) # ")" THEN Failed
      ELSE Found(Node("call", <<first.node, second.node>>), second.at + 1)
Primary(t, i) ==
  CASE Token(t, i) = "x"    -> Found(X, i + 1)
    [] Token(t, i) = "call" -> Called(t, Parsing("??", t, i + 1))
    [] Token(t, i) = "("    -> Grouped(t, Parsing("??", t, i + 1))
    [] OTHER               -> Failed

\* _postfix: indexes, each closed.
RECURSIVE Indexed(_, _)
Indexed(t, left) ==
  IF left = Failed \/ Token(t, left.at) # "[" THEN left
  ELSE LET index == Parsing("??", t, left.at + 1)
       IN  IF index = Failed \/ Token(t, index.at) # "]" THEN Failed
           ELSE Indexed(t, Found(Node("[", <<left.node, index.node>>), index.at + 1))
Postfix(t, i) == Indexed(t, Primary(t, i))

Parsing(level, t, i) ==
  CASE level = "??"      -> Coalesce(t, i)
    [] level = "||"      -> LeftToRight(t, i, "||", "&&")
    [] level = "&&"      -> LeftToRight(t, i, "&&", "==")
    [] level = "=="      -> Equality(t, i)
    [] level = "is"      -> EmptyTest(t, i)
    [] level = "<"       -> Comparison(t, i)
    [] level = "+"       -> LeftToRight(t, i, "+", "*")
    [] level = "*"       -> LeftToRight(t, i, "*", "-")
    [] level = "-"       -> Unary(t, i)
    [] level = "operand" -> Postfix(t, i)

RECURSIVE Ungrouped(_)
Ungrouped(node) ==
  IF node.op = "group" THEN Ungrouped(node.kids[1])
  ELSE Node(node.op, [k \in DOMAIN node.kids |-> Ungrouped(node.kids[k])])
\* _expression and _line_end: all of the line.
Parsed(t) == LET whole == Parsing("??", t, 1) IN IF whole # Failed /\ whole.at = Len(t) + 1 THEN Ungrouped(whole.node) ELSE Wrong

----------------------------------------------------------------------------
(* The author: precedence as the language reference has it.                *)

Binary == {"??", "||", "&&", "==", "in", "<", "+", "*", "**", "[", "call"}
Strength(op) ==
  CASE op = "??" -> 1 [] op = "||" -> 2 [] op = "&&" -> 3 [] op = "==" -> 4 [] op = "is" -> 5
    [] op \in {"<", "in"} -> 6 [] op = "+" -> 7 [] op = "*" -> 8 [] op = "-" -> 9 [] op = "**" -> 10
    [] op = "[" -> 11 [] OTHER -> 12
\* What an operand has to bind like to stand there bare.  Comparisons of one level
\* are written bare, which chains them.
Least(op, k) ==
  CASE op = "??" /\ k = 1 -> 2
    [] op \in {"||", "&&", "+", "*"} /\ k = 2 -> Strength(op) + 1
    [] op = "**" -> IF k = 1 THEN 11 ELSE 9
    [] op = "[" /\ k = 2 -> 1
    [] op = "call" -> 1
    [] OTHER -> Strength(op)
Bare(op, k, kid) == Strength(kid.op) >= Least(op, k)

RECURSIVE Written(_), Chained(_)
Written(node) ==
  LET kid(k) == IF Bare(node.op, k, node.kids[k]) THEN Written(node.kids[k]) ELSE <<"(">> \o Written(node.kids[k]) \o <<")">>
  IN  CASE node.op = "x"    -> <<"x">>
        [] node.op = "-"    -> <<"-">> \o kid(1)
        [] node.op = "is"   -> kid(1) \o <<"is">>
        [] node.op = "["    -> kid(1) \o <<"[">> \o kid(2) \o <<"]">>
        [] node.op = "call" -> <<"call">> \o kid(1) \o <<",">> \o kid(2) \o <<")">>
        [] OTHER            -> kid(1) \o <<node.op>> \o kid(2)
\* A comparison, equality or state test whose operand is one, without parentheses
\* around it; a state test of a comparison is none.
Chained(node) ==
  \/ \E k \in DOMAIN node.kids :
       \/ Chained(node.kids[k])
       \/ node.op \in {"==", "<", "in", "is"} /\ node.kids[k].op \in {"==", "<", "in", "is"}
          /\ Bare(node.op, k, node.kids[k]) /\ ~(node.op = "is" /\ node.kids[k].op \in Comparisons)

\* A leaf becomes an operator.
Shapes == {Node(op, <<X, X>>) : op \in Binary} \cup {Node(op, <<X>>) : op \in {"-", "is"}}
RECURSIVE Grown(_), Size(_)
Grown(node) ==
  IF node = X THEN Shapes
  ELSE UNION {{Node(node.op, [node.kids EXCEPT ![k] = kid]) : kid \in Grown(node.kids[k])} : k \in DOMAIN node.kids}
Size(node) ==
  IF node = X THEN 0 ELSE 1 + Size(node.kids[1]) + (IF Len(node.kids) = 2 THEN Size(node.kids[2]) ELSE 0)

ExpressionsInit == tree = X
ExpressionsNext == Size(tree) < MaxOperators /\ tree' \in Grown(tree)

----------------------------------------------------------------------------
\* An expression means what the precedence table says.
ParsedAsMeant == ~Chained(tree) => Parsed(Written(tree)) = tree

\* "Comparison operators cannot be chained": neither one kind nor two, in any
\* position of an expression, is parsed as anything else.
ChainsRefused == Chained(tree) => Parsed(Written(tree)) = Wrong

\* Both: every tree is read back, or refused where the language has no meaning for it.
ExpressionsKept == ParsedAsMeant /\ ChainsRefused
=============================================================================
