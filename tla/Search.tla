------------------------------- MODULE Search -------------------------------
(***************************************************************************)
(* SEARCH (storage/search.go): the criteria of a client become the WHERE   *)
(* of a query over all emails of the user, to which the condition that the *)
(* email is in the mailbox is added with AND, and a function that checks   *)
(* the rows once more.                                                     *)
(*                                                                         *)
(* The text of the query is kept as far as the precedence of SQL goes: a   *)
(* sequence of terms that OR joins, each the set of the conditions that    *)
(* AND joins.  A text in parentheses is named by the criteria it is        *)
(* written for.  A row has the flags and the date of an email, its id, and *)
(* whether it is in the mailbox.                                           *)
(***************************************************************************)
EXTENDS Integers, Sequences

CONSTANTS
  Criteria,   \* records with the fields of imap.SearchCriteria, and those inside of them
  Rows,       \* records [id, flags, date, inside]
  Apostrophes \* the flags with an apostrophe in their name

VARIABLE search   \* the criteria of a client, which SearchFinds looks at, or NoSearch

NoSearch == [session |-> TRUE]

Unset == -1    \* the zero value of a date or a size

\* Criteria without any condition.
Plain ==
  [ids |-> <<>>, before |-> Unset, since |-> Unset, larger |-> Unset, smaller |-> Unset,
   flag |-> <<>>, notFlag |-> <<>>, not |-> <<>>, or |-> <<>>]

ASSUME CriteriaAssumption ==
  LET all == Criteria
  IN all \subseteq [ids : Seq(Int), before : Int, since : Int, larger : Int, smaller : Int,
                    flag : Seq(STRING), notFlag : Seq(STRING),
                    not : Seq(all), or : Seq(all \X all)]

ASSUME RowsAssumption == \A row \in Rows : row.date \in Int /\ row.inside \in BOOLEAN

-----------------------------------------------------------------------------
(* A condition is its kind and its argument. *)

Given(value, kind) == IF value = Unset THEN {} ELSE {<<kind, value>>}
Each(seq, kind) == {<<kind, seq[i]>> : i \in DOMAIN seq}

\* The name of a flag is written between apostrophes, its own as \'.  SQLite knows
\* no such escape: the string ends there, and what is left of it is no SQL.
Flags(seq, kind) ==
  {<<IF seq[i] \in Apostrophes THEN "malformed" ELSE kind, seq[i]>> : i \in DOMAIN seq}

\* The conditions that parseCriteria joins with AND.  A list of ids is written
\* after its closing parenthesis.
Base(c) ==
  (IF c.ids = <<>> THEN {} ELSE {<<"malformed", c.ids>>})
    \cup Given(c.before, "before") \cup Given(c.since, "since")
    \cup Given(c.larger, "larger") \cup Given(c.smaller, "smaller")
    \cup Flags(c.flag, "flag") \cup Flags(c.notFlag, "notFlag") \cup Each(c.not, "not")

parseCriteriaBoth(c) ==    \* mutant: the alternatives of OR are joined with AND
  IF Base(c) = {} /\ c.or = <<>> THEN <<>>
  ELSE <<Base(c) \cup {<<"or", c.or[i][k]>> : i \in DOMAIN c.or, k \in 1..2}>>

\* parseCriteria.  OR is not in parentheses of its own: the first alternative is
\* joined with AND to what is there, the second begins the next term.
parseCriteria(c) ==
  IF Base(c) = {} /\ c.or = <<>> THEN <<>>
  ELSE [i \in 1..(Len(c.or) + 1) |->
         (IF i = 1 THEN Base(c) ELSE {<<"or", c.or[i - 1][2]>>})
           \cup (IF i > Len(c.or) THEN {} ELSE {<<"or", c.or[i][1]>>})]

\* The function that parseCriteria returns: of a criterion in NOT it asks the
\* same function, which knows nothing of dates and flags.
Check[c \in Criteria] ==
  /\ \A i \in DOMAIN c.not : ~Check[c.not[i]]
  /\ \A i \in DOMAIN c.or : Check[c.or[i][1]] \/ Check[c.or[i][2]]

-----------------------------------------------------------------------------
(* SQLite. *)

\* Whether it can parse the text of the criteria
WellFormed[c \in Criteria] ==
  LET where == parseCriteria(c) IN
  /\ where # <<>>
  /\ \A i \in DOMAIN where : \A cond \in where[i] :
       /\ cond[1] # "malformed"
       /\ cond[1] \in {"not", "or"} => WellFormed[cond[2]]

\* Whether a condition holds for the row; inside are the terms that hold of the
\* text in its parentheses.
Holds(row, cond, inside) ==
  CASE cond[1] = "before" -> row.date < cond[2]
    [] cond[1] = "since" -> row.date > cond[2]
    [] cond[1] = "larger" -> row.id > cond[2]
    [] cond[1] = "smaller" -> row.id < cond[2]
    [] cond[1] = "flag" -> cond[2] \in row.flags
    [] cond[1] = "notFlag" -> cond[2] \notin row.flags
    [] cond[1] = "not" -> inside = {}
    [] cond[1] = "or" -> inside # {}

\* The terms of the text of the criteria that hold for the row
Selects[c \in Criteria] == [row \in Rows |->
  LET where == parseCriteria(c) IN
  {i \in DOMAIN where : \A cond \in where[i] : Holds(row, cond, Selects[cond[2]][row])}]

\* Search: whether the row is in the answer, or an error.  The condition on the
\* mailbox is joined with AND to the last term.
Found(c, row) ==
  LET where == parseCriteria(c)
      selected == IF where = <<>> THEN row.inside
                  ELSE \E i \in Selects[c][row] : i = Len(where) => row.inside
  IN IF where # <<>> /\ ~WellFormed[c] THEN "error"
     ELSE IF selected /\ Check[c] THEN "yes" ELSE "no"

-----------------------------------------------------------------------------
\* Criteria of dates and of flags without apostrophes, however OR is nested: none
\* in an OR is empty, for which the text would be "()".
DatesAndFlags[c \in Criteria] ==
  /\ c.ids = <<>> /\ c.larger = Unset /\ c.smaller = Unset /\ c.not = <<>>
  /\ \A i \in DOMAIN c.flag : c.flag[i] \notin Apostrophes
  /\ \A i \in DOMAIN c.notFlag : c.notFlag[i] \notin Apostrophes
  /\ \A i \in DOMAIN c.or : \A k \in 1..2 : c.or[i][k] # Plain /\ DatesAndFlags[c.or[i][k]]

\* What such criteria mean to the code: SINCE is later than its date (to IMAP an
\* email of the very second of the date matches too, and the code leaves it out).
Matches[c \in Criteria] == [row \in Rows |->
  /\ c.before # Unset => row.date < c.before
  /\ c.since # Unset => row.date > c.since
  /\ \A i \in DOMAIN c.flag : c.flag[i] \in row.flags
  /\ \A i \in DOMAIN c.notFlag : c.notFlag[i] \notin row.flags
  /\ \A i \in DOMAIN c.or : Matches[c.or[i][1]][row] \/ Matches[c.or[i][2]][row]]

\* SEARCH by dates and flags finds every email of the mailbox that matches,
\* however OR is nested, although the query has OR without parentheses among
\* conditions that AND joins.  Without OR it finds nothing else; and whatever
\* the criteria without OR, it finds none of another mailbox.  (With OR it may:
\* "a AND (b) OR (c) AND in the mailbox".)  This says nothing of emails of the
\* very second of a SINCE, which the code takes as not matching, and of flags
\* with an apostrophe, for which the query is an error.
SearchFinds ==
  search # NoSearch => \A row \in Rows :
    /\ DatesAndFlags[search] /\ row.inside /\ Matches[search][row] => Found(search, row) = "yes"
    /\ search.or = <<>> /\ Found(search, row) = "yes" =>
         row.inside /\ (DatesAndFlags[search] => Matches[search][row])
=============================================================================
