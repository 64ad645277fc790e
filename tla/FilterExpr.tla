----------------------------- MODULE FilterExpr -----------------------------
(***************************************************************************)
(* Expressions (filter/expression.go, eval_std.go): what the Eval of       *)
(* FilterEval is.                                                          *)
(*                                                                         *)
(* A value is a record whose one field among "str", "num", "bool" and      *)
(* "coll" is its type; "methods" and "fields" are there when the value has *)
(* some.  A string is the sequence of its pieces.                          *)
(***************************************************************************)
EXTENDS FilterEval, SequencesExt, FiniteSets

Err == [err |-> TRUE]

\* The methods of a value, with the types of their parameters.
newString(s) ==
  [str |-> s, methods |-> [len |-> <<>>, contains |-> <<"str">>, sub |-> <<"num", "num">>]]
newNumber(n) == [num |-> n]
newBool(b) == [bool |-> b, methods |-> [not |-> <<>>]]
newCollection(f) ==
  [coll |-> f, methods |-> [len |-> <<>>, get |-> <<"str">>, has_key |-> <<"str">>]]

rcptVariable(name, domain) ==
  [fields |-> [user |-> newString(name), domain |-> newString(domain)]] @@
  newString(name \o <<"@">> \o domain)

\* InitEvalulationContext; the body is a string without methods.
Context(fromRcpt, toRcpt, header, body) ==
  NewContext([true |-> newBool(TRUE), false |-> newBool(FALSE), from |-> fromRcpt, to |-> toRcpt,
              header |-> newCollection(header), body |-> [str |-> body]])

\* The run-time panic of a filter, after which there is no answer.
Panic == Assert(FALSE, "panic")

OperateAbove(op, a, b) ==    \* mutant: ">=" as ">"
  LET t == TypeOf(a) IN
  CASE t = "err" \/ TypeOf(b) # t -> Err
    [] op \in {"=", "!="} /\ t = "coll" -> Panic
    [] op = "=" -> newBool(a[t] = b[t])
    [] op = "!=" -> newBool(a[t] # b[t])
    [] op = "or" -> IF t = "bool" THEN newBool(a.bool \/ b.bool) ELSE Err
    [] t # "num" -> Err
    [] op = "<=" -> newBool(a.num <= b.num)
    [] op \in {">", ">="} -> newBool(a.num > b.num)
    [] op = "<" -> newBool(a.num < b.num)

\* OperatorExpression.Eval: both sides are evaluated, whatever the first says.
\* Two collections are maps in an interface, whose comparison panics.
Operate(op, a, b) ==
  LET t == TypeOf(a) IN
  CASE t = "err" \/ TypeOf(b) # t -> Err
    [] op \in {"=", "!="} /\ t = "coll" -> Panic
    [] op = "=" -> newBool(a[t] = b[t])
    [] op = "!=" -> newBool(a[t] # b[t])
    [] op = "or" -> IF t = "bool" THEN newBool(a.bool \/ b.bool) ELSE Err
    [] t # "num" -> Err
    [] op = ">=" -> newBool(a.num >= b.num)
    [] op = "<=" -> newBool(a.num <= b.num)
    [] op = ">" -> newBool(a.num > b.num)
    [] op = "<" -> newBool(a.num < b.num)

\* The methods of stringMethods, newBool and collectionMethods.
Method(v, name, ps) ==
  CASE name = "not" -> newBool(~v.bool)
    [] name = "len" -> newNumber(IF TypeOf(v) = "str" THEN Len(v.str) ELSE Cardinality(DOMAIN v.coll))
    [] name = "contains" -> newBool(\E i, j \in 0..Len(v.str) : SubSeq(v.str, i + 1, j) = ps[1].str)
    [] name = "sub" ->
         IF ps[1].num < 0 \/ ps[1].num > ps[2].num THEN Err
         ELSE newString(SubSeq(v.str, ps[1].num + 1, IF ps[2].num < Len(v.str) THEN ps[2].num ELSE Len(v.str)))
    [] name = "get" -> IF ps[1].str \in DOMAIN v.coll THEN v.coll[ps[1].str] ELSE Err
    [] name = "has_key" -> newBool(ps[1].str \in DOMAIN v.coll)

\* Method.Eval and EvaluationMethod.Eval: a method that the value has, called
\* with as many parameters as it has and of their types.
Call(v, name, ps) ==
  IF /\ "methods" \in DOMAIN v /\ name \in DOMAIN v.methods
     /\ [i \in DOMAIN ps |-> TypeOf(ps[i])] = v.methods[name]
  THEN Method(v, name, ps)
  ELSE Err

RECURSIVE EvalExpression(_, _)
EvalExpression(e, vars) ==
  CASE e.kind = "literal" -> e.value
    [] e.kind = "variable" -> IF e.name \in DOMAIN vars THEN vars[e.name] ELSE Err
    [] e.kind = "operator" -> Operate(e.op, EvalExpression(e.a, vars), EvalExpression(e.b, vars))
    [] e.kind = "field" ->
         LET v == EvalExpression(e.of, vars) IN
         IF "fields" \in DOMAIN v /\ e.name \in DOMAIN v.fields THEN v.fields[e.name] ELSE Err
    [] e.kind = "method" ->
         Call(EvalExpression(e.of, vars), e.name, [i \in DOMAIN e.params |-> EvalExpression(e.params[i], vars)])
=============================================================================
