----------------------------- MODULE FilterEval -----------------------------
(***************************************************************************)
(* The statements of a filter (filter/ast.go, filter.go, eval.go,          *)
(* eval_actions.go) and the filters of the server (relay/filter.go:        *)
(* checkFilters).                                                          *)
(*                                                                         *)
(* A context has the variables, the result, and the header changes apart:  *)
(* Clone copies the first two, while all copies share the map of the       *)
(* third.                                                                  *)
(***************************************************************************)
EXTENDS FilterLexer

CONSTANTS
  Statements,            \* those of Scripts and Files, at any depth
  Scripts,               \* sequences of statements: what a file may contain
  Files,                 \* the scripts of which a server may have two
  Mails,                 \* contexts: what an email and a recipient look like to a filter
  Eval(_, _),            \* the value of an expression, given the variables: see FilterExpr
  EvalNested(_, _, _)    \* EvalStatement, for the statements of a sub-filter

FilterInput == input \in [script : Scripts] \/ input \in [files : Files \X Files]

ASSUME StatementsAssumption ==
  LET all == Statements
  IN /\ \A st \in all : /\ st.kind \in {"condition", "do", "let", "filter"}
                        /\ st.kind = "filter" => st.content \in Seq(all)
     /\ \A script \in Scripts \cup Files : script \in Seq(all)

-----------------------------------------------------------------------------
(* Values and contexts. *)

TypeOf(v) == CHOOSE t \in {"err", "str", "num", "bool", "coll"} : t \in DOMAIN v

NoResult == [action |-> "continue", forward |-> <<>>, mailbox |-> <<>>, spam |-> FALSE]

\* What InitEvalulationContext makes of the variables
NewContext(vars) == [vars |-> vars, res |-> NoResult, hdr |-> <<>>]

ASSUME MailsAssumption == \A c \in Mails : c = NewContext(c.vars)

-----------------------------------------------------------------------------
(* Actions and statements: whether the evaluation goes on, and the context. *)

\* The actions that setResultAction makes, the terminal ones with "spam".
Terminal ==
  [reject |-> "reject", accept |-> "accept", temp_reject |-> "tempfail",
   discard |-> "discard", quarantine |-> "quarantine"]

Go(c) == [ok |-> TRUE, ctx |-> c]
Stop(c) == [ok |-> FALSE, ctx |-> c]

Strings(ps, n) == Len(ps) = n /\ \A i \in DOMAIN ps : TypeOf(ps[i]) = "str"

\* The map "actions".
Perform(name, ps, c) ==
  CASE name \in DOMAIN Terminal -> Go([c EXCEPT !.res.action = Terminal[name]])
    [] name = "spam" ->
         Go([c EXCEPT !.res.mailbox = <<"Junk">>, !.res.action = "quarantine", !.res.spam = TRUE])
    [] name = "forward" /\ Strings(ps, 1) -> Go([c EXCEPT !.res.forward = Append(@, ps[1].str)])
    [] name = "mailbox" /\ Strings(ps, 1) -> Go([c EXCEPT !.res.mailbox = ps[1].str])
    [] name = "set_header" /\ Strings(ps, 2) -> Go([c EXCEPT !.hdr = (ps[1].str :> ps[2].str) @@ @])
    [] OTHER -> Stop(c)

\* ActionStatement.Eval
EvalAction(a, c) ==
  LET ps == [i \in DOMAIN a.params |-> Eval(a.params[i], c.vars)] IN
  IF \E i \in DOMAIN ps : TypeOf(ps[i]) = "err" THEN Stop(c) ELSE Perform(a.name, ps, c)

\* ExpressionStatement.Eval
EvalCondition(st, c) ==
  LET v == Eval(st.expr, c.vars) IN
  IF TypeOf(v) = "bool" /\ v.bool THEN Go(c) ELSE Stop(c)

\* LetStatement.Eval
EvalLet(l, c) ==
  LET v == Eval(l.value, c.vars) IN
  IF TypeOf(v) = "err" THEN Stop(c) ELSE Go([c EXCEPT !.vars = (l.name :> v) @@ @])

\* One turn of a loop over statements: the next one is evaluated unless one has
\* failed or, in a loop that breaks there, an action was terminal.  Tree.Eval
\* breaks; Filter.Eval does not, while filter/README.md says of sub-filters that
\* they do.  With documented they are taken to: see TerminalStops.
Turn(acc, st, breaks, documented) ==
  IF acc.ok /\ (breaks => acc.ctx.res.action = "continue")
  THEN EvalNested(st, acc.ctx, documented) ELSE acc

\* The loop, from the context at its start to the one after each statement
After(content, c, breaks, documented) ==
  LET after[i \in 0..Len(content)] ==
        IF i = 0 THEN Go(c) ELSE Turn(after[i - 1], content[i], breaks, documented)
  IN after

\* The loop of Filter.Eval
EvalContent(content, c, documented) ==
  After(content, c, documented, documented)[Len(content)]

\* Filter.Eval: in a copy of the context, whose result replaces the parent's
\* when every statement succeeded.
EvalFilter(f, parent, documented) ==
  LET r == EvalContent(f.content, parent, documented) IN
  Go([parent EXCEPT !.res = IF r.ok THEN r.ctx.res ELSE @, !.hdr = r.ctx.hdr])

EvalStatement(st, c, documented) ==
  CASE st.kind = "condition" -> EvalCondition(st, c)
    [] st.kind = "do" -> EvalAction(st, c)
    [] st.kind = "let" -> EvalLet(st, c)
    [] st.kind = "filter" -> EvalFilter(st, c, documented)

EvalTreeOn(script, c, documented) ==    \* mutant: a terminal action does not stop the file
  EvalContent(script, c, documented)

\* Tree.Eval
EvalTree(script, c, documented) ==
  After(script, c, TRUE, documented)[Len(script)]

\* What a file that is tried after others adds to them
Try(acc, script, c) ==
  IF acc.ok THEN acc
  ELSE LET r == EvalTree(script, [c EXCEPT !.hdr = acc.ctx.hdr], FALSE)
       IN IF r.ok THEN r ELSE Stop([c EXCEPT !.hdr = r.ctx.hdr])

CheckFiltersShared(files, c) ==    \* mutant: all files work on one context
  LET tried[i \in 0..Len(files)] ==
        IF i = 0 THEN Stop(c)
        ELSE IF tried[i - 1].ok THEN tried[i - 1] ELSE EvalTree(files[i], tried[i - 1].ctx, FALSE)
      last == tried[Len(files)]
  IN IF last.ok THEN [res |-> last.ctx.res, hdr |-> last.ctx.hdr]
     ELSE [res |-> NoResult, hdr |-> <<>>]

\* checkFilters: the files in the order in which the map gives them, each in a
\* copy of the context; the first whose statements succeed decides.
Tried(files, c) ==
  LET tried[i \in 0..Len(files)] == IF i = 0 THEN Stop(c) ELSE Try(tried[i - 1], files[i], c)
  IN tried
CheckFilters(files, c) ==
  LET last == Tried(files, c)[Len(files)]
  IN IF last.ok THEN [res |-> last.ctx.res, hdr |-> last.ctx.hdr]
     ELSE [res |-> NoResult, hdr |-> <<>>]

-----------------------------------------------------------------------------
(* What filter/README.md says of terminal actions and of sub-filters. *)

\* A terminal action, and a sub-filter that may perform one, comes last in the
\* sub-filter it is in; in the file itself it may be anywhere.
MayEnd[st \in Statements] ==
  \/ st.kind = "do" /\ st.name \in DOMAIN Terminal \cup {"spam"}
  \/ st.kind = "filter" /\ \E i \in DOMAIN st.content : MayEnd[st.content[i]]
EndsLast[st \in Statements] ==
  st.kind = "filter" =>
    \A i \in DOMAIN st.content :
      EndsLast[st.content[i]] /\ (MayEnd[st.content[i]] => i = Len(st.content))

\* "If the filter executes a terminal action, other statements (including those
\* outside) are not executed" (filter/README.md:145): Tree.Eval, which looks at
\* the result only between the statements of the file, keeps it for every file
\* whose sub-filters have their terminal actions last: they might as well look
\* at the result between their own.  (For others it does not hold: Filter.Eval
\* goes on after a terminal action.)
TerminalStops ==
  "script" \in DOMAIN input /\ (\A i \in DOMAIN input.script : EndsLast[input.script[i]]) =>
    \A c \in Mails : EvalTree(input.script, c, FALSE) = EvalTree(input.script, c, TRUE)

\* A sub-filter or a file whose conditions are not met leaves nothing in the
\* result, whatever it had done before the condition (but header changes, whose
\* map Clone shares): the file answers as it would without the sub-filter, and
\* of two files of which one is not met the other decides in either order.
FailureLeavesNothing ==
  /\ "script" \in DOMAIN input =>
       \A c \in Mails : \A i \in DOMAIN input.script :
         LET script == input.script
             before == EvalTree(SubSeq(script, 1, i - 1), c, FALSE)
             all == EvalTree(script, c, FALSE)
             without == EvalTree(SubSeq(script, 1, i - 1) \o SubSeq(script, i + 1, Len(script)), c, FALSE)
         IN (/\ script[i].kind = "filter"
             /\ before.ok /\ before.ctx.res.action = "continue"
             /\ ~EvalContent(script[i].content, before.ctx, FALSE).ok)
              => all.ok = without.ok /\ all.ctx.res = without.ctx.res
  /\ "files" \in DOMAIN input =>
       \A c \in Mails :
         LET f == input.files[1]
             g == input.files[2]
             alone == CheckFilters(<<f>>, c).res
         IN ~EvalTree(g, c, FALSE).ok =>
              CheckFilters(<<f, g>>, c).res = alone /\ CheckFilters(<<g, f>>, c).res = alone
=============================================================================
