---------------------------- MODULE FilterParser ----------------------------
(***************************************************************************)
(* The parser of filters (filter/literal.go, expression.go, ast.go,        *)
(* filter.go): the lexems of a text become statements.                     *)
(***************************************************************************)
EXTENDS FilterExpr

CONSTANTS
  Programs,     \* sequences of statements to write and read back
  Layouts,      \* ways to write a program: see ProgramText
  Comparisons   \* sequences of comparisons [a, op, b] that "or" joins

ParserInput ==
  input \in [text : Texts] \/ input \in [program : Programs] \/ input \in [comparisons : Comparisons]

-----------------------------------------------------------------------------
(* The parser: each operator takes the lexems that are left and gives what *)
(* it read with the lexems that it left, or Fail.                          *)

Fail == [ok |-> FALSE]
Read(x, ts) == [ok |-> TRUE, val |-> x, ts |-> ts]
Then(r, More(_)) == IF r.ok THEN More(r) ELSE Fail    \* an error is returned at once
Peek(ts) == IF ts = <<>> THEN [k |-> nil, v |-> <<>>] ELSE ts[1]
SkipSep(ts) == IF Peek(ts).k = "separator" THEN Tail(ts) ELSE ts
IsHardSep(lexem) == lexem.k = "separator" /\ "\n" \in Range(lexem.v)
Begins(ts, kinds) == Len(ts) >= Len(kinds) /\ \A i \in DOMAIN kinds : ts[i].k = kinds[i]

Literal(v) == [kind |-> "literal", value |-> v]
Variable(name) == [kind |-> "variable", name |-> name]
OperatorExpression(op, a, b) == [kind |-> "operator", op |-> op, a |-> a, b |-> b]
Field(name, of) == [kind |-> "field", name |-> name, of |-> of]
MethodCall(name, of, params) == [kind |-> "method", name |-> name, of |-> of, params |-> params]

\* parseNumber; the numbers of the texts are whole
parseNumber(ts) ==
  LET v == ts[1].v
      digits == SelectSeq(v, LAMBDA d : d # "-")
      n == FoldLeft(LAMBDA acc, d : 10 * acc + Digits[d], 0, digits)
  IN Read(newNumber(IF v[1] = "-" THEN -n ELSE n), Tail(ts))

\* parseString: the values of the lexems up to the closing quote
parseString(ts) ==
  LET ends == {i \in 2..Len(ts) : ts[i].k = "string_del"}
      end == CHOOSE i \in ends : \A j \in ends : i <= j
  IN IF ends = {} THEN Fail
     ELSE Read(FlattenSeq([i \in 1..(end - 2) |-> ts[i + 1].v]), SubSeq(ts, end + 1, Len(ts)))

RECURSIVE ParseOperator(_, _)
parseExpression(ts) == ParseOperator("operator_high", ts)

RECURSIVE ParamsLoop(_, _)
ParamsLoop(params, ts) ==
  IF Peek(ts).k = "identifier_param_end" THEN Read(params, Tail(ts))
  ELSE Then(parseExpression(ts), LAMBDA r :
         LET after == SkipSep(r.ts) IN
         CASE Peek(after).k = "identifier_param_end" -> ParamsLoop(Append(params, r.val), after)
           [] Peek(after).k = "identifier_param_sep" ->
                ParamsLoop(Append(params, r.val), SkipSep(Tail(after)))
           [] OTHER -> Fail)

parseParams(ts) == ParamsLoop(<<>>, SkipSep(ts))

\* The loop of parseEval, after what was read before
RECURSIVE EvalLoop(_, _)
EvalLoop(before, ts) ==
  CASE Peek(ts).k = "identifier_compose" ->
         IF Begins(ts, <<"identifier_compose", "identifier">>)
         THEN EvalLoop(Field(ts[2].v, before), SubSeq(ts, 3, Len(ts))) ELSE Fail
    [] Peek(ts).k = "identifier_execute" ->
         IF Begins(ts, <<"identifier_execute", "identifier", "identifier_param_beg">>)
         THEN Then(parseParams(SubSeq(ts, 4, Len(ts))), LAMBDA ps :
                EvalLoop(MethodCall(ts[2].v, before, ps.val), ps.ts))
         ELSE Fail
    [] OTHER -> Read(before, ts)

parseEval(ts) == EvalLoop(Variable(ts[1].v), Tail(ts))

parseExpressionLiteral(ts) ==
  CASE Peek(ts).k = "identifier_param_beg" ->
         Then(parseExpression(SkipSep(Tail(ts))), LAMBDA r :
           IF Peek(SkipSep(r.ts)).k = "identifier_param_end"
           THEN Read(r.val, Tail(SkipSep(r.ts))) ELSE Fail)
    [] Peek(ts).k = "identifier" -> parseEval(ts)
    [] Peek(ts).k = "number" -> Then(parseNumber(ts), LAMBDA r : Read(Literal(r.val), r.ts))
    [] Peek(ts).k = "string_del" ->
         Then(parseString(ts), LAMBDA r : Read(Literal(newString(r.val)), r.ts))
    [] OTHER -> Fail

\* What parseExpressionHigh and parseExpressionLow give parseOperator to read
\* the operands with
Operand(kind, ts) ==
  IF kind = "operator_high" THEN ParseOperator("operator_low", ts) ELSE parseExpressionLiteral(ts)

RECURSIVE OperatorLoop(_, _, _)

OperatorLoopLine(kind, left, ts) ==    \* mutant: the line may not end after an operator
  IF ts = <<>> \/ IsHardSep(Peek(ts)) \/ Peek(SkipSep(ts)).k # kind
  THEN Read(left, IF ts = <<>> \/ IsHardSep(Peek(ts)) THEN ts ELSE SkipSep(ts))
  ELSE LET op == Peek(SkipSep(ts))
           after == Tail(SkipSep(ts))
       IN IF IsHardSep(Peek(after)) THEN Fail
          ELSE Then(Operand(kind, SkipSep(after)), LAMBDA right :
                 OperatorLoop(kind, OperatorExpression(IF op.k = "operator_high" THEN "or" ELSE Ops[op.v],
                                                       left, right.val), right.ts))

\* The loop of parseOperator.  It ends before a separator with a newline, but
\* after one without.
OperatorLoop(kind, left, ts) ==
  IF ts = <<>> \/ IsHardSep(Peek(ts)) THEN Read(left, ts)
  ELSE LET here == SkipSep(ts)
           op == Peek(here)
       IN IF op.k # kind THEN Read(left, here)
          ELSE Then(Operand(kind, SkipSep(Tail(here))), LAMBDA right :
                 OperatorLoop(kind, OperatorExpression(IF kind = "operator_high" THEN "or" ELSE Ops[op.v],
                                                       left, right.val), right.ts))

ParseOperator(kind, ts) ==
  Then(Operand(kind, ts), LAMBDA left : OperatorLoop(kind, left.val, left.ts))

-----------------------------------------------------------------------------
(* Statements. *)

Condition(expr) == [kind |-> "condition", expr |-> expr]
Do(name, params) == [kind |-> "do", name |-> name, params |-> params]
Let(name, expr) == [kind |-> "let", name |-> name, value |-> expr]
SubFilter(name, content) == [kind |-> "filter", name |-> name, content |-> content]

\* The line of a condition ends with it.
parseExprStatement(ts) ==
  Then(parseExpression(ts), LAMBDA r :
    IF r.ts = <<>> THEN Read(Condition(r.val), <<>>)
    ELSE IF IsHardSep(Peek(r.ts)) THEN Read(Condition(r.val), Tail(r.ts)) ELSE Fail)

parseActionStatement(ts) ==
  LET here == SkipSep(ts) IN
  IF Begins(here, <<"identifier", "identifier_param_beg">>)
  THEN Then(parseParams(SubSeq(here, 3, Len(here))), LAMBDA ps : Read(Do(here[1].v, ps.val), ps.ts))
  ELSE Fail

parseLetStatement(ts) ==
  LET here == SkipSep(ts)
      eq == SkipSep(Tail(here))
  IN IF Begins(here, <<"identifier">>) /\ Peek(eq).k = "operator_low" /\ Peek(eq).v = <<"=">>
     THEN Then(parseExpression(SkipSep(Tail(eq))), LAMBDA r : Read(Let(here[1].v, r.val), r.ts))
     ELSE Fail

\* ParseStatements gives also whether "end" ended the statements.
RECURSIVE ParseStatements(_, _)

\* parseFilter after the name
parseBlock(name, ts) ==
  IF Begins(ts, <<"block_beg">>)
  THEN Then(ParseStatements(<<>>, SkipSep(Tail(ts))), LAMBDA r :
         IF r.ended THEN Read(SubFilter(name, r.val), SkipSep(r.ts)) ELSE Fail)
  ELSE Fail

parseFilter(ts) ==
  LET here == SkipSep(ts) IN
  IF Peek(here).k = "string_del"
  THEN Then(parseString(here), LAMBDA name : parseBlock(name.val, SkipSep(name.ts)))
  ELSE parseBlock(<<>>, here)

parseStatement(ts) ==
  CASE Peek(ts).k \in {"identifier", "number", "string_del"} -> parseExprStatement(ts)
    [] Peek(ts).k = "filter" -> parseFilter(Tail(ts))
    [] Peek(ts).k = "block_beg" -> parseActionStatement(Tail(ts))
    [] Peek(ts).k = "let" -> parseLetStatement(Tail(ts))
    [] OTHER -> Fail

ParseStatements(stmts, ts) ==
  IF ts = <<>> THEN [ended |-> FALSE] @@ Read(stmts, ts)
  ELSE IF Peek(ts).k = "block_end" THEN [ended |-> TRUE] @@ Read(stmts, Tail(ts))
  ELSE Then(parseStatement(ts), LAMBDA r : ParseStatements(Append(stmts, r.val), SkipSep(r.ts)))

\* Parse: the statements, or Fail
Parse(text) ==
  Then(ParseStatements(<<>>, Lex[text]), LAMBDA r :
    IF r.ended THEN Fail ELSE [ok |-> TRUE, val |-> r.val])

-----------------------------------------------------------------------------
(* Writing a program as grammar.abnf has it.  A layout says what stands    *)
(* before a comparison operator (before), after an operator (after), in    *)
(* parentheses (inside), and between statements (line).                    *)

NumberText(n) ==
  LET digit(d) == CHOOSE t \in DOMAIN Digits : Digits[t] = d
  IN IF n < 0 THEN <<"-", digit(-n)>> ELSE <<digit(n)>>
OpText(op) == IF op = "or" THEN <<"or">> ELSE CHOOSE t \in DOMAIN Ops : Ops[t] = op
Quoted(s) == <<"\"">> \o s \o <<"\"">>

\* Parentheses are written where the place does not take the operator: 0 takes
\* any, 1 (beside "or") comparisons, 2 (right of a comparison) none.
RECURSIVE ExprText(_, _, _)
ParamsText(params, l) ==
  LET rest == Tail(params) IN
  <<"(">> \o l.inside
    \o (IF params = <<>> THEN <<>>
        ELSE ExprText(params[1], 0, l) \o
             FlattenSeq([i \in DOMAIN rest |-> l.inside \o <<",">> \o l.inside \o ExprText(rest[i], 0, l)]))
    \o l.inside \o <<")">>
ExprText(e, place, l) ==
  CASE e.kind = "literal" -> IF TypeOf(e.value) = "num" THEN NumberText(e.value.num) ELSE Quoted(e.value.str)
    [] e.kind = "variable" -> e.name
    [] e.kind = "field" -> ExprText(e.of, 2, l) \o <<".">> \o e.name
    [] e.kind = "method" -> ExprText(e.of, 2, l) \o <<":">> \o e.name \o ParamsText(e.params, l)
    [] e.kind = "operator" ->
         LET own == IF e.op = "or" THEN 0 ELSE 1
             text == ExprText(e.a, own, l)
                       \o (IF e.op = "or" THEN <<" ">> ELSE l.before) \o OpText(e.op) \o l.after
                       \o ExprText(e.b, own + 1, l)
         IN IF place <= own THEN text ELSE <<"(">> \o l.inside \o text \o l.inside \o <<")">>

RECURSIVE StatementText(_, _)
StatementText(st, l) ==
  CASE st.kind = "condition" -> ExprText(st.expr, 0, l)
    [] st.kind = "do" -> <<"do", " ">> \o st.name \o ParamsText(st.params, l)
    [] st.kind = "let" -> <<"let", " ">> \o st.name \o l.before \o <<"=">> \o l.after \o ExprText(st.value, 0, l)
    [] st.kind = "filter" ->
         <<"filter", " ">> \o (IF st.name = <<>> THEN <<>> ELSE Quoted(st.name) \o <<" ">>) \o <<"do">>
           \o FlattenSeq([i \in DOMAIN st.content |-> l.line \o StatementText(st.content[i], l)])
           \o l.line \o <<"end">>

ProgramText(program, l) ==
  FlattenSeq([i \in DOMAIN program |->
    (IF i = 1 THEN <<>> ELSE l.line) \o StatementText(program[i], l)])

-----------------------------------------------------------------------------
\* A string as Next gives it
Recoded(s) == FlattenSeq([i \in DOMAIN s |-> WriteRune(s[i])])

\* Parse reads what the grammar lets one write, in each layout, as it was meant:
\* precedence, grouping to the left, parentheses, calls, nested filters and
\* lines that end inside of an expression; and any text in quotes, but that it
\* has each byte above 127 as two.  (Two things that grammar.abnf allows are not
\* among the inputs: a condition that begins with a parenthesis, which
\* ParseStatements refuses, and a # in quotes, which Next takes for a comment.)
ParsesBack ==
  /\ "program" \in DOMAIN input =>
       \A l \in Layouts :
         Parse(ProgramText(input.program, l)) = [ok |-> TRUE, val |-> input.program]
  /\ "text" \in DOMAIN input /\ Range(input.text) \cap {"\"", "#"} = {} =>
       Parse(<<"let", " ", "a", "=">> \o Quoted(input.text)) =
         [ok |-> TRUE, val |-> <<Let(<<"a">>, Literal(newString(Recoded(input.text))))>>]

\* The variables under their names in a text
Named(vars) == [name \in {<<x>> : x \in DOMAIN vars} |-> vars[name[1]]]

\* A condition of comparisons joined with "or" (filter/README.md: "Because each
\* condition must be true, there is no "and" operator") lets the filter go on if
\* one of them holds and each compares values of one type that are there: its
\* text, read by Parse and evaluated by ExpressionStatement.Eval.  (Collections,
\* whose comparison panics, are not among the values.)
Compares(c, vars) ==
  LET a == Eval(c.a, vars)
      b == Eval(c.b, vars)
  IN /\ TypeOf(a) = TypeOf(b) /\ TypeOf(a) # "err"
     /\ c.op \notin {"=", "!="} => TypeOf(a) = "num"
Holds(c, vars) ==
  LET a == Eval(c.a, vars)
      b == Eval(c.b, vars)
  IN IF TypeOf(a) # "num" THEN (a.str = b.str) <=> (c.op = "=")
     ELSE c.op \in CASE a.num = b.num -> {"=", ">=", "<="}
                     [] a.num > b.num -> {"!=", ">=", ">"}
                     [] a.num < b.num -> {"!=", "<=", "<"}
ConditionMet ==
  "comparisons" \in DOMAIN input =>
    \A l \in Layouts, m \in {[mail EXCEPT !.vars = Named(@)] : mail \in Mails} :
      LET cs == input.comparisons
          one(c) == OperatorExpression(c.op, c.a, c.b)
          all == FoldLeft(LAMBDA e, c : OperatorExpression("or", e, one(c)), one(cs[1]), Tail(cs))
          tree == Parse(ProgramText(<<Condition(all)>>, l))
      IN tree.ok /\ ( EvalTree(tree.val, m, FALSE).ok <=>
                        /\ \A i \in DOMAIN cs : Compares(cs[i], m.vars)
                        /\ \E i \in DOMAIN cs : Holds(cs[i], m.vars) )
=============================================================================
