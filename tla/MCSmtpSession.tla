--------------------------- MODULE MCSmtpSession ---------------------------
(***************************************************************************)
(* A local domain with the users "bob" and "eve", bob's subaddress         *)
(* "bob+x" and the group "all", and a domain of Den with the user "dan"    *)
(* and the group "inner": all has dan and inner as members, inner has      *)
(* "ann", who is in a remote domain.  The results of the filters are what  *)
(* the files of MCFilter answer.                                           *)
(***************************************************************************)
EXTENDS SmtpSession, MCFilter

MCAddrs == {"bob", "bob+x", "eve", "all", "inner", "dan", "nobody", "ann"}
MCDomain ==
  [a \in MCAddrs |-> CASE a = "ann" -> "away"
                       [] a \in {"inner", "dan", "nobody"} -> "den"
                       [] OTHER -> "home"]
MCUsers == {"bob", "bob+x", "eve", "dan"}
MCUserOf ==
  [u \in MCUsers |-> CASE u = "bob+x" -> "bob" [] u = "dan" -> "nobody" [] OTHER -> u]
MCFolderOf == [u \in MCUsers |-> IF u = "bob+x" THEN <<"x">> ELSE <<>>]
MCGroups == {"all", "inner"}
MCMembers == [g \in MCGroups |-> IF g = "all" THEN <<"dan", "inner">> ELSE <<"ann">>]
MCSenders == [g \in MCGroups |-> IF g = "inner" THEN {"eve"} ELSE {}]
MCMaxRcpts == <<2, 1>>

\* A Result as applyResult reads it: an address and a folder are one piece, and
\* "spam" stands for the quarantine with Result.Spam.
MCResults ==
  {[action |-> IF res.spam /\ res.action = "quarantine" THEN "spam" ELSE res.action,
    forward |-> [i \in DOMAIN res.forward |-> res.forward[i][1]],
    mailbox |-> IF res.mailbox = <<>> THEN None ELSE res.mailbox] : res \in Answers}

\* One connection, or one input of a filter while the connection rests.
MCInit ==
  /\ Init
  /\ \/ input = [session |-> TRUE]
     \/ ~patient /\ (FilterInput \/ ParserInput)

\* Bounds: the second email overtakes the first and has nothing of its own to
\* show, MAIL comes again once the first has a recipient, a marked email is
\* forwarded to nobody, and one copy cannot be rendered.
MCFewer ==
  /\ task'[2] # task[2] => given'[2] = Nothing /\ ~task'[2].spam
  /\ named'[2] \subseteq {"bob+x"}
  /\ phase = "mail" /\ sender' # sender /\ email' = email => email = 1 /\ to.n = 1
  /\ task'[1].spam => given'[1].rcpts = {}
  /\ Cardinality({c \in out' : c.kind = "logged"}) < 2

MCNext == "session" \in DOMAIN input /\ Next /\ MCFewer /\ UNCHANGED input
MCSpec == MCInit /\ [][MCNext]_<<vars, input>> /\ WF_vars(\E e \in Emails : Run(e))
=============================================================================
