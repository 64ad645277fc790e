------------------------------ MODULE MCFilter ------------------------------
(***************************************************************************)
(* Small filters: the texts, programs and emails over which the reading    *)
(* and the evaluation of filters are checked, and the files of a server    *)
(* whose answers MCSmtpSession hands to the session.                       *)
(***************************************************************************)
EXTENDS FilterParser

SeqsUpTo(S, n) == UNION {[1..k -> S] : k \in 0..n}

-----------------------------------------------------------------------------
(* For the lexer and the parser. *)

MCPieces == STRING
MCByte == "x82" :> 130 @@ "x83" :> 131 @@ "xA9" :> 169 @@ "xC2" :> 194 @@ "xC3" :> 195
MCTexts ==
  SeqsUpTo({"a", "xC3", "xA9", "do", "1", "-", ".", "=", "!", " ", "\n", "#", "\"", "("}, 3)
    \union [1..5 -> {"a", "1", "-", "=", "\n", "#"}]

A == Variable(<<"a">>)
B == Variable(<<"b", "-", "1">>)
Minus == Literal(newNumber(-2))
Text == Literal(newString(<<"a", ".", " ", "-", "1">>))
Exprs1 ==
  {A, Minus, Text, Field(<<"b">>, A), MethodCall(<<"b">>, Field(<<"c">>, A), <<>>)}
    \union {OperatorExpression(op, x, y) : op \in {"=", "<=", "or"}, x \in {A, Minus}, y \in {B}}
Exprs2 ==
  Exprs1
    \union {OperatorExpression(op, x, y) : op \in {"!=", "or"}, x, y \in Exprs1}
    \union {MethodCall(<<"b">>, B, ps) : ps \in SeqsUpTo(Exprs1, 2)}

\* whether its text begins with a parenthesis
RECURSIVE Opens(_)
Opens(e) ==
  /\ e.kind = "operator"
  /\ Opens(e.a) \/ (e.op # "or" /\ e.a.kind = "operator" /\ e.a.op = "or")

Simple ==
  {Condition(A), Condition(OperatorExpression("or", A, Text)), Do(<<"a">>, <<>>),
   Do(<<"b">>, <<A, Text>>), Let(<<"a">>, OperatorExpression("=", Minus, A))}
Nested == {SubFilter(name, content) : name \in {<<>>, <<"a", " ">>}, content \in SeqsUpTo(Simple, 2)}
MCPrograms ==
  {<<Condition(e)>> : e \in {x \in Exprs2 : ~Opens(x)}}
    \union {<<Let(<<"a">>, e), Do(<<"a">>, <<e>>)>> : e \in Exprs2}
    \union SeqsUpTo(Simple, 2)
    \union {<<f, st>> : f \in Nested, st \in Simple}
    \union {<<SubFilter(<<"b">>, <<st, f>>)>> : f \in Nested, st \in Simple}

Layout(before, after, inside, line) ==
  [before |-> before, after |-> after, inside |-> inside, line |-> line]
MCLayouts ==
  {Layout(<<" ">>, <<" ">>, <<>>, <<"\n">>),
   Layout(<<>>, <<"\n", " ">>, <<" ">>, <<" ", "\n", "\n", " ">>),
   Layout(<<" ">>, <<" ">>, <<"\n">>, <<"\n", " ", "#", "a", "\n">>)}

MCComparisons ==
  LET c(a, op, b) == [a |-> a, op |-> op, b |-> b]
      fromVar == Variable(<<"from">>)
      n(k) == Literal(newNumber(k))
      Every == {c(a, op, b) : a \in {n(1), fromVar, A}, op \in Range(Ops), b \in {n(1), n(2), fromVar, Variable(<<"body">>)}}
      Some == {c(n(1), "<", n(2)), c(n(1), "=", n(2)), c(fromVar, "=", fromVar), c(A, "=", n(1))}
  IN {<<x>> : x \in Every} \union {<<x, y>> : x \in Every, y \in Some} \union [1..3 -> Some]

-----------------------------------------------------------------------------
(* For the evaluation.  The names of variables are those of the context.   *)

Str(s) == Literal(newString(<<s>>))
True == Condition(Variable("true"))
False == Condition(Variable("false"))
Atoms == {True, False, Let("false", Variable("true")), Do("forward", <<Str("ann")>>),
          Do("mailbox", <<Str("AI")>>), Do("set_header", <<Str("X"), Str("y")>>),
          Do("reject", <<>>), Do("spam", <<>>)}
Few == {True, False, Do("forward", <<Str("bob")>>), Do("accept", <<>>)}
Inner == {SubFilter(<<>>, content) : content \in SeqsUpTo(Atoms, 2)}
Outer == {SubFilter(<<>>, <<a, f, b>>) : a, b \in Few, f \in Inner}
MCScripts ==
  {<<a, f, b>> : a, b \in Few, f \in Inner \union Outer} \union SeqsUpTo(Atoms, 3)

\* The files of a server: example.filter and filter/README.md in small.
FromAway == Condition(OperatorExpression("=", Field("domain", Variable("from")), Str("away")))
Says(word) ==
  Condition(MethodCall("contains", MethodCall("get", Variable("header"), <<Str("Subject")>>), <<Str(word)>>))
ForwardFile == <<FromAway, Do("forward", <<Str("ann")>>)>>
WordsFile ==
  <<SubFilter(<<>>, <<Says("AI"), Do("mailbox", <<Str("AI")>>), Do("quarantine", <<>>)>>),
    SubFilter(<<>>, <<Says("FREE"), Do("forward", <<Str("ann")>>), Do("mailbox", <<Str("AI")>>),
                      Do("discard", <<>>)>>),
    SubFilter(<<>>, <<Says("hello"), Do("accept", <<>>)>>),
    SubFilter(<<>>, <<FromAway, Says("offer"), Do("forward", <<Str("eve")>>), Do("reject", <<>>)>>)>>
MCFiles == {ForwardFile, WordsFile, <<False>>, <<Do("forward", <<Str("eve")>>), False>>,
            <<Let("x", Variable("true")), Condition(Variable("y"))>>,
            <<Do("accept", <<Str("eve")>>)>>}
MCStatements ==
  Atoms \union Few \union Inner \union Outer \union UNION {Range(file) : file \in MCFiles}
    \union UNION {Range(f.content) : f \in Range(WordsFile)}

\* EvalNested is EvalStatement.  (TLC's coverage follows the operators that a
\* configuration names without end where they are recursive, but for a LET.)
MCEvalNested(st, c, documented) == LET answer == EvalStatement(st, c, documented) IN answer

Subjects == {{}, {"AI"}, {"FREE"}, {"hello"}, {"offer"}}
MCMails ==
  {Context(rcptVariable(<<"ann">>, <<domain>>), rcptVariable(<<"bob">>, <<"home">>),
           [k \in {<<"Subject">> : w \in words} |-> newString(SetToSeq(words))], <<"text">>) :
     domain \in {"away", "home"}, words \in Subjects}

\* What the files ForwardFile and WordsFile answer, in either order.
Answers ==
  {CheckFilters(files, m).res : files \in {<<ForwardFile, WordsFile>>, <<WordsFile, ForwardFile>>}, m \in MCMails}
=============================================================================
