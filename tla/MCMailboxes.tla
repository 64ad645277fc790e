---------------------------- MODULE MCMailboxes ----------------------------
(* Small instances of Mailboxes, and of Search over single emails. *)
EXTENDS Mailboxes, Search, TLC

MCMaxCommands == [orderly |-> 6, folders |-> 6, free |-> 6]
MCMaxEmails == [orderly |-> 2, folders |-> 2, free |-> 1]

Symmetric == Permutations(Sessions) \cup Permutations(Msgs)

\* Conditions on two flags and the date, alone or in pairs, with up to two ORs,
\* of which the first may have an OR in an alternative; and some that the query
\* does not take or that find nothing.
Seen == [Plain EXCEPT !.flag = <<"Seen">>]
Early == [Plain EXCEPT !.before = 1, !.notFlag = <<"Flagged">>]
Basics ==
  {Seen, Early, [Plain EXCEPT !.notFlag = <<"Seen">>],
   [Plain EXCEPT !.flag = <<"Flagged", "Seen">>], [Plain EXCEPT !.since = 1]}
Own == [Plain EXCEPT !.flag = <<"Seen", "Ann's">>]
Pairs == Basics \X Basics
Nested == {[b EXCEPT !.or = <<p>>] : b \in Basics \cup {Plain}, p \in Pairs}
Others ==
  {[b EXCEPT !.ids = <<1>>] : b \in Basics} \cup {[b EXCEPT !.larger = 0] : b \in Basics}
    \cup {[b EXCEPT !.not = <<c>>] : b, c \in Basics \cup {Own}}
    \cup {[b EXCEPT !.or = <<<<Own, c>>>>] : b, c \in Basics \cup {Own}}
MCCriteria ==
  Basics \cup {Own} \cup Nested \cup {Plain} \cup Others
    \cup {[b EXCEPT !.or = <<p, q>>] : b \in Basics \cup {Plain}, p, q \in Pairs}
    \cup {[b EXCEPT !.or = <<<<n, c>>>>] : b, c \in Basics, n \in Nested}
MCRows ==
  [id : {1}, flags : SUBSET {"Seen", "Flagged"}, date : 0..2, inside : BOOLEAN]

\* The sessions at work, or one SEARCH while they rest.
MCInit ==
  /\ Init
  /\ \/ search = NoSearch
     \/ regime = "orderly" /\ search \in Criteria
MCNext == search = NoSearch /\ Next /\ UNCHANGED search
MCSpec == MCInit /\ [][MCNext]_<<vars, search>>
=============================================================================
