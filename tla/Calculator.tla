----------------------------- MODULE Calculator -----------------------------
(***************************************************************************)
(* The calculator (projects/calculator/src/calculator.c): a finite state   *)
(* machine with a stack of values and a stack of operators that reads an   *)
(* expression character by character.  The text is read as it is written:  *)
(* a step takes any next character.  A value is the tree of operations it  *)
(* was computed by; whether an operand is zero is left open, so that a     *)
(* division or a power may be an error of arithmetic.                      *)
(***************************************************************************)
EXTENDS Integers, Sequences, SequencesExt, FiniteSetsExt

CONSTANTS
  Chars,     \* characters that occur, "n" for a number and "?" for any other
  MaxText,   \* characters before the end of a text
  LongChars, \* those of longer texts
  MaxLong    \* characters before the end of a text of LongChars only

VARIABLES
  calc,   \* state of the machine, stacks, unary sign, finish and status
  text    \* the characters read

calcVars == <<calc, text>>

Opening == {"(", "[", "{"}
Closing == {")", "]", "}"}
OpenOf(ch) == CASE ch = ")" -> "(" [] ch = "]" -> "[" [] ch = "}" -> "{"

-----------------------------------------------------------------------------
(* The tables of InitTablesOnce.                                            *)

g_op_precedence_LUT(op) ==
  IF op \in {"+", "-"} THEN 1 ELSE IF op \in {"*", "/"} THEN 2 ELSE IF op = "^" THEN 3 ELSE 0
IsRightAssociative(op) == op = "^"
HasFunc(op) == op \in {"+", "-", "*", "/", "^"}

\* The state after a character and the action it calls.
g_trans_LUT(state, ch) ==
  IF ch = " " THEN [next |-> state, act |-> "Space"]
  ELSE IF state = "WAITING_FOR_NUM"
       THEN CASE ch \in {"+", "-"} -> [next |-> state, act |-> "Unary"]
              [] ch = "n" -> [next |-> "WAITING_FOR_OP", act |-> "PushNumber"]
              [] ch \in Opening -> [next |-> state, act |-> "Open"]
              [] OTHER -> [next |-> state, act |-> "Error"]
       ELSE CASE HasFunc(ch) -> [next |-> "WAITING_FOR_NUM", act |-> "PushBinaryOp"]
              [] ch \in Closing -> [next |-> state, act |-> "Close"]
              [] ch = "END" -> [next |-> state, act |-> "End"]
              [] OTHER -> [next |-> state, act |-> "Error"]

-----------------------------------------------------------------------------
(* The functions on a context c; the tops of the stacks are their last      *)
(* elements.                                                                *)

Fails(c, status) == [c EXCEPT !.status = status]

\* ApplyTopOperator: mathError is the choice of an error of arithmetic.
ApplyTopOperator(c, mathError) ==
  LET op == Last(c.ops)
      n == Len(c.values)
      rest == SubSeq(c.values, 1, n - 2)
  IN  IF mathError /\ op \in {"/", "^"}
      THEN [c EXCEPT !.ops = Front(@), !.values = rest, !.status = "MATH_ERROR"]
      ELSE [c EXCEPT !.ops = Front(@), !.values = Append(rest, <<op, c.values[n - 1], c.values[n]>>)]

\* Mutant: every operator is left associative.
MutStops(top, op) == g_op_precedence_LUT(top) = 0 \/ g_op_precedence_LUT(top) < g_op_precedence_LUT(op)

\* The operator on the stack has to wait for the one that was read.
Stops(top, op) ==
  \/ g_op_precedence_LUT(top) = 0
  \/ g_op_precedence_LUT(top) < g_op_precedence_LUT(op)
  \/ g_op_precedence_LUT(top) = g_op_precedence_LUT(op) /\ IsRightAssociative(op)

RECURSIVE ReduceOperators(_, _, _)
ReduceOperators(c, op, mathError) ==
  IF c.status # "SUCCESS" THEN c
  ELSE IF c.ops = << >> THEN c
  ELSE IF Stops(Last(c.ops), op) THEN IF op = "END" THEN Fails(c, "SYNTAX_ERROR") ELSE c
  ELSE ReduceOperators(ApplyTopOperator(c, mathError), op, mathError)

\* Mutant: the operators inside of the bracket stay on the stack.
MutReduceUntilOpen(c, open, mathError) ==
  LET at == {i \in DOMAIN c.ops : c.ops[i] = open} IN
  IF at = {} THEN Fails(c, "SYNTAX_ERROR") ELSE [c EXCEPT !.ops = RemoveAt(@, Max(at))]

RECURSIVE ReduceUntilOpen(_, _, _)
ReduceUntilOpen(c, open, mathError) ==
  IF c.status # "SUCCESS" THEN c
  ELSE IF c.ops = << >> THEN Fails(c, "SYNTAX_ERROR")
  ELSE IF Last(c.ops) = open THEN [c EXCEPT !.ops = Front(@)]
  ELSE IF Last(c.ops) \in Opening THEN Fails(c, "SYNTAX_ERROR")
  ELSE ReduceUntilOpen(ApplyTopOperator(c, mathError), open, mathError)

\* The sign stays until the next number, also over an opening bracket.
ActUnary(c, ch) == IF ch = "-" THEN [c EXCEPT !.sign = -@] ELSE c

\* The number is named after its place in the text.
ActPushNumber(c, place) == [c EXCEPT !.values = Append(@, <<c.sign, place>>), !.sign = 1]

\* The operator is pushed even if what was before it failed.
ActPushBinaryOp(c, op, mathError) ==
  LET r == ReduceOperators(c, op, mathError) IN [r EXCEPT !.ops = Append(@, op)]

ActEnd(c, mathError) ==
  LET r == ReduceOperators(c, "END", mathError) IN
  IF r.status # "SUCCESS" THEN r
  ELSE IF Len(r.values) # 1 \/ r.ops # << >> THEN Fails(r, "SYNTAX_ERROR")
  ELSE [r EXCEPT !.out = r.values[1], !.finish = TRUE]

-----------------------------------------------------------------------------
NoValue == << >>

\* InitStacks may fail; the machine starts in WAITING_FOR_NUM.
CalcInit ==
  /\ \E status \in {"SUCCESS", "ALLOC_ERROR"} :
       calc = [state |-> "WAITING_FOR_NUM", values |-> << >>, ops |-> << >>, sign |-> 1,
               finish |-> FALSE, status |-> status, out |-> NoValue]
  /\ text = << >>

\* The bounds on the text.
MayFollow(ch) ==
  \/ ch = "END" \/ Len(text) < MaxText
  \/ Len(text) < MaxLong /\ ToSet(text) \union {ch} \subseteq LongChars

\* One round of the loop of Calculate.
FsmStep(ch, mathError) ==
  LET tr == g_trans_LUT(calc.state, ch)
      c == [calc EXCEPT !.state = tr.next]
  IN  /\ ~calc.finish /\ calc.status = "SUCCESS"
      /\ MayFollow(ch)
      /\ text' = Append(text, ch)
      /\ calc' = CASE tr.act = "Space" -> c
                   [] tr.act = "Unary" -> ActUnary(c, ch)
                   [] tr.act = "PushNumber" -> ActPushNumber(c, Len(text'))
                   [] tr.act = "Open" -> [c EXCEPT !.ops = Append(@, ch)]
                   [] tr.act = "Close" -> ReduceUntilOpen(c, OpenOf(ch), mathError)
                   [] tr.act = "PushBinaryOp" -> ActPushBinaryOp(c, ch, mathError)
                   [] tr.act = "End" -> ActEnd(c, mathError)
                   [] tr.act = "Error" -> Fails(c, "SYNTAX_ERROR")

\* strtod takes all digits that follow: a number is never next to another.
CalcNext ==
  \E ch \in Chars \union {"END"}, mathError \in BOOLEAN :
    /\ ~(ch = "n" /\ Len(text) \in DOMAIN text /\ text[Len(text)] = "n")
    /\ FsmStep(ch, mathError)

-----------------------------------------------------------------------------
(* What an expression means: the text is split at the operator that binds   *)
(* least, the last of the left associative ones, the first power.           *)

IsSign(i) == text[i] \in {"+", "-"} /\ ~\E j \in 1 .. i - 1 :
               text[j] # " " /\ text[j] \notin Opening /\ ~HasFunc(text[j]) /\ \A k \in j + 1 .. i - 1 : text[k] = " "
Nesting(a, i) == Cardinality({j \in a .. i - 1 : text[j] \in Opening}) - Cardinality({j \in a .. i - 1 : text[j] \in Closing})
SignOf(a, i) == IF Cardinality({j \in a .. i - 1 : text[j] = "-"}) % 2 = 1 THEN -1 ELSE 1

RECURSIVE Meaning(_, _)
Meaning(a, b) ==
  LET ops == {i \in a .. b : HasFunc(text[i]) /\ ~IsSign(i) /\ Nesting(a, i) = 0}
      least == {i \in ops : \A j \in ops : g_op_precedence_LUT(text[i]) <= g_op_precedence_LUT(text[j])}
      at == IF text[Min(least)] = "^" THEN Min(least) ELSE Max(least)
      inner == {i \in a .. b : text[i] \notin {" ", "+", "-"}}
  IN  IF ops # {} THEN <<text[at], Meaning(a, at - 1), Meaning(at + 1, b)>>
      ELSE IF text[Min(inner)] = "n" THEN <<SignOf(a, Min(inner)), Min(inner)>>
      ELSE Meaning(Min(inner) + 1, Max(inner) - 1)

SignBeforeBracket == \E i, j \in DOMAIN text :
  i < j /\ IsSign(i) /\ text[j] \in Opening /\ \A k \in i + 1 .. j - 1 : text[k] \in {" ", "+", "-"} \union Opening

\* The value of an expression is that of its grammar: operators by precedence
\* and associativity, brackets first, a sign with its number (a sign before a
\* bracket aside); brackets match; the stacks never hold more than they were
\* made for, and never run dry.
ExpressionMeans ==
  /\ Len(calc.values) <= Len(text) + 1 /\ Len(calc.ops) <= Len(text) + 1
  /\ calc.status = "SUCCESS" /\ ~calc.finish =>
       Len(calc.values) = 1 + Cardinality({i \in DOMAIN calc.ops : HasFunc(calc.ops[i])})
                            - (IF calc.state = "WAITING_FOR_NUM" THEN 1 ELSE 0)
  /\ calc.finish /\ ~SignBeforeBracket => calc.out = Meaning(1, Len(text) - 1)
  /\ calc.finish => \A b \in Opening :
       Cardinality({i \in DOMAIN text : text[i] = b}) = Cardinality({i \in DOMAIN text : text[i] \in Closing /\ OpenOf(text[i]) = b})

=============================================================================
