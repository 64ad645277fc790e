------------------------------ MODULE MailStore ------------------------------
(***************************************************************************)
(* What the storage of a user's emails promises to the rest of atmail: a   *)
(* collection of emails named by ids.  An email is delivered once, keeps   *)
(* its id and its content until it is deleted, and never comes back.       *)
(***************************************************************************)
CONSTANT Msgs

VARIABLES
  box,        \* the content of each listed email, by id
  delivered   \* the emails that were listed at some time

Init ==
  /\ box = [i \in {} |-> {}]
  /\ delivered = {}

\* StoreEmail, seen from its callers: the email appears under a free id.
Deliver(m) ==
  /\ m \notin delivered
  /\ delivered' = delivered \cup {m}
  /\ \E id \in DOMAIN box' :
       /\ id \notin DOMAIN box
       /\ box' = [i \in DOMAIN box \cup {id} |-> IF i = id THEN m ELSE box[i]]

\* DeleteEmail, EXPUNGE, the deletion of a mailbox: some emails disappear.
Delete ==
  /\ DOMAIN box' \subseteq DOMAIN box
  /\ box' = [i \in DOMAIN box' |-> box[i]]
  /\ UNCHANGED delivered

Next == (\E m \in Msgs : Deliver(m)) \/ Delete

Spec == Init /\ [][Next]_<<box, delivered>>
=============================================================================
