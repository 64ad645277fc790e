--------------------------- MODULE MailOrderProofs ---------------------------
(***************************************************************************)
(* What the orderly regime gives, for any number of sessions, emails and   *)
(* commands: clients work in the mailbox they name, and no email is lost.  *)
(*                                                                         *)
(* RightMailbox.  Order says that names are unique, that one command is    *)
(* under way and that all sessions share one Boxes, whose views point to   *)
(* the mailboxes with their names.                                         *)
(*                                                                         *)
(* NothingLost.  Safe says that what is flagged or in no mailbox somebody  *)
(* asked to delete, and WorkInv what each step of a command knows of the   *)
(* emails it works on, most of all that those which a MOVE takes out of    *)
(* the selected mailbox are in another one.                                *)
(***************************************************************************)
EXTENDS MailboxesProofs

-----------------------------------------------------------------------------
\* The mailbox with the name n has the given id.
Points(n, id) == id \in DOMAIN box /\ box[id] = n

\* In an orderly regime names are unique, one command is under way, everybody
\* shares the views of the backend, and these point to the right mailboxes, but
\* for the one that is being deleted.
Order ==
  /\ \A i, j \in DOMAIN box : box[i] = box[j] => i = j
  /\ \A s, t \in Sessions : pc[s] # "idle" /\ pc[t] # "idle" => s = t
  /\ \A s \in Sessions : mine[s] \in {None, boxes}
  /\ \A m \in Msgs : arrival[m].folder = NoName
  /\ \A s \in Sessions : pc[s] = "boxes" =>
       boxes = None /\ \A n \in DOMAIN views[s] : Points(n, views[s][n])
  /\ \A s \in Sessions : pc[s] = "cache" => Points(loc[s].name, loc[s].id)
  /\ boxes # None => \A n \in DOMAIN views[boxes] \ {NoName} :
       \/ Points(n, views[boxes][n])
       \/ \E s \in Sessions : pc[s] = "uncache" /\ loc[s].name = n

OrderInv == regime = "orderly" => Order

\* A step of the session s leaves the commands of the others alone.
Moves(s) == \A t \in Sessions : t # s => pc'[t] = pc[t] /\ loc'[t] = loc[t]

\* A command is under way that has to do with emails, not with views.
ViewSteps == {"boxes", "cache", "uncache"}
Works(s) ==
  /\ Moves(s) /\ pc[s] # "idle" /\ pc[s] \notin ViewSteps /\ pc'[s] \notin ViewSteps
  /\ UNCHANGED <<box, boxes, views, arrival, regime>>
  /\ \A t \in Sessions : mine'[t] \in {None, mine[t]}

\* Mailboxes may be added, sessions closed.
LEMMA OrderRest ==
  ASSUME Order, UNCHANGED <<pc, loc, boxes, views>>,
         \A i \in DOMAIN box : i \in DOMAIN box' /\ box'[i] = box[i],
         \A i, j \in DOMAIN box' : box'[i] = box'[j] => i = j,
         \A t \in Sessions : mine'[t] \in {None, mine[t]},
         \A m \in Msgs : arrival'[m].folder = NoName
  PROVE  Order'
<1>1. \A n, id : Points(n, id) => Points(n, id)'
  BY DEF Points
<1>2. QED
  BY <1>1 DEF Order

\* A command on emails begins or goes on.
LEMMA OrderMoves ==
  ASSUME Order, NEW s \in Sessions, Moves(s), pc[s] # "idle" \/ \A t \in Sessions : pc[t] = "idle",
         pc[s] # "uncache", pc'[s] \notin ViewSteps, UNCHANGED <<box, boxes, views, arrival>>,
         \A t \in Sessions : mine'[t] \in {None, mine[t]}
  PROVE  Order'
<1>1. \A n, id : Points(n, id) => Points(n, id)'
  BY DEF Points
<1>2. \A t \in Sessions : t # s => pc[t] = "idle" /\ pc'[t] = "idle"
  BY DEF Order, Moves
<1>3. \A t, u \in Sessions : pc'[t] # "idle" /\ pc'[u] # "idle" => t = u
  BY <1>2
<1>4. \A t \in Sessions : pc[t] # "uncache" /\ pc'[t] \notin ViewSteps
  BY <1>2 DEF ViewSteps
<1>5. QED
  BY <1>1, <1>3, <1>4 DEF Order, ViewSteps

\* What the steps of the commands on emails have in common.
LEMMA ReturnMoves ==
  ASSUME MailInv, NEW s \in Sessions, Return(s)
  PROVE  Moves(s) /\ pc'[s] = "idle"
  BY DEF MailInv, Jobs, Return, Goto, Moves

\* A command goes on.
LEMMA GotoMoves ==
  ASSUME MailInv, NEW s \in Sessions, NEW l, Goto(s, l),
         \A t \in Sessions : t # s => loc'[t] = loc[t]
  PROVE  Moves(s) /\ pc'[s] = l
  BY DEF MailInv, Jobs, Goto, Moves

\* A handler panics.
LEMMA PanicMoves ==
  ASSUME MailInv, NEW s \in Sessions, Panic(s)
  PROVE  /\ Moves(s) /\ pc'[s] = "idle" /\ UNCHANGED <<box, boxes, views>>
         /\ \A t \in Sessions : mine'[t] \in {None, mine[t]}
  BY ReturnMoves DEF Panic, dbVars, viewVars, MailInv, Conns

\* STORE goes on to the next email.
LEMMA NextEmailMoves ==
  ASSUME MailInv, NEW s \in Sessions, NEW e, NextEmail(s, e)
  PROVE  /\ Moves(s) /\ pc'[s] \in {"idle", "flag"}
         /\ \A t \in Sessions : mine'[t] \in {None, mine[t]}
<1>1. CASE Return(s)
  BY <1>1, ReturnMoves DEF NextEmail, sessVars, MailInv, Conns
<1>2. CASE ~Return(s)
  <2>1. Goto(s, "flag") /\ \A t \in Sessions : t # s => loc'[t] = loc[t]
    BY <1>2 DEF NextEmail, MailInv, Jobs
  <2>2. UNCHANGED mine
    BY <1>2 DEF NextEmail, sessVars
  <2>3. QED
    BY <2>1, <2>2, GotoMoves
<1>3. QED
  BY <1>1, <1>2

\* All the steps of the commands on emails.
LEMMA RemovalWorks ==
  ASSUME MailInv, NEW s \in Sessions,
         \/ AddMailboxEmails(s) \/ MoveGetIds(s) \/ RemoveMailboxEmails(s)
         \/ ListEmailsNoMailbox(s) \/ Purge(s) \/ DeleteFlagged(s) \/ RemoveEmailsWithFlag(s)
         \/ FlagEmail(s) \/ AddEmailFlags(s) \/ StepFails(s)
  PROVE  Works(s)
<1> USE DEF ViewSteps
<1>1. CASE AddMailboxEmails(s)
  <2>1. Moves(s) /\ pc'[s] \in {"idle", "getids"}
    BY <1>1, ReturnMoves, GotoMoves DEF AddMailboxEmails, Leak
  <2>2. QED
    BY <1>1, <2>1 DEF AddMailboxEmails, Leak, viewVars, sessVars, Works
<1>2. CASE MoveGetIds(s)
  <2>1. CASE Panic(s)
    BY <1>2, <2>1, PanicMoves DEF MoveGetIds, Works
  <2>2. CASE ~Panic(s)
    <3>1. Goto(s, "remove") /\ \A t \in Sessions : t # s => loc'[t] = loc[t]
      BY <1>2, <2>2 DEF MoveGetIds, MailInv, Jobs
    <3>2. Moves(s) /\ pc'[s] = "remove"
      BY <3>1, GotoMoves
    <3>3. QED
      BY <1>2, <2>2, <3>2 DEF MoveGetIds, dbVars, viewVars, sessVars, Works
  <2>3. QED
    BY <2>1, <2>2
<1>3. CASE RemoveMailboxEmails(s)
  BY <1>3, GotoMoves DEF RemoveMailboxEmails, viewVars, sessVars, Works
<1>4. CASE ListEmailsNoMailbox(s)
  <2>1. CASE Return(s)
    BY <1>4, <2>1, ReturnMoves DEF ListEmailsNoMailbox, dbVars, viewVars, sessVars, Works
  <2>2. CASE ~Return(s)
    <3>1. Goto(s, "purge") /\ \A t \in Sessions : t # s => loc'[t] = loc[t]
      BY <1>4, <2>2 DEF ListEmailsNoMailbox, MailInv, Jobs
    <3>2. QED
      BY <1>4, <3>1, GotoMoves DEF ListEmailsNoMailbox, dbVars, viewVars, sessVars, Works
  <2>3. QED
    BY <2>1, <2>2
<1>5. CASE Purge(s)
  <2>1. Moves(s) /\ pc'[s] \in {"idle", "purge"}
    <3>1. CASE Return(s)
      BY <3>1, ReturnMoves
    <3>2. CASE ~Return(s)
      <4>1. PICK x : loc' = [loc EXCEPT ![s].ids = x] /\ UNCHANGED pc
        BY <1>5, <3>2 DEF Purge
      <4>2. QED
        BY <1>5, <4>1 DEF Purge, Moves, MailInv, Jobs
    <3>3. QED
      BY <3>1, <3>2
  <2>2. QED
    BY <1>5, <2>1 DEF Purge, viewVars, sessVars, Works
<1>6. CASE DeleteFlagged(s)
  <2>1. PICK x : loc' = [loc EXCEPT ![s].ids = x] /\ (Goto(s, "rest") \/ UNCHANGED pc)
    BY <1>6, Zenon DEF DeleteFlagged
  <2>2. Moves(s) /\ pc'[s] \in {"drop", "rest"}
    BY <1>6, <2>1 DEF DeleteFlagged, Goto, Moves, MailInv, Jobs
  <2>3. QED
    BY <1>6, <2>2 DEF DeleteFlagged, viewVars, sessVars, Works
<1>7. CASE RemoveEmailsWithFlag(s)
  BY <1>7, ReturnMoves DEF RemoveEmailsWithFlag, viewVars, Works
<1>8. CASE FlagEmail(s)
  <2>1. CASE Fail(s)
    BY <1>8, <2>1, ReturnMoves DEF FlagEmail, Fail, dbVars, viewVars, sessVars, Works
  <2>2. ASSUME NEW e, loc' = [loc EXCEPT ![s].id = e], Goto(s, "reflag"),
               UNCHANGED <<box, viewVars, sessVars>>
        PROVE  Works(s)
    <3>1. Moves(s) /\ pc'[s] = "reflag"
      BY <2>2, GotoMoves DEF MailInv, Jobs
    <3>2. QED
      BY <1>8, <2>2, <3>1 DEF FlagEmail, viewVars, sessVars, Works
  <2>3. ASSUME NEW e, NextEmail(s, e), UNCHANGED <<box, viewVars>>
        PROVE  Works(s)
    BY <1>8, <2>3, NextEmailMoves DEF FlagEmail, viewVars, Works
  <2>4. QED
    BY <1>8, <2>1, <2>2, <2>3 DEF FlagEmail
<1>9. CASE AddEmailFlags(s)
  <2>1. CASE Leak(s)
    BY <1>9, <2>1, ReturnMoves DEF AddEmailFlags, Leak, viewVars, sessVars, Works
  <2>2. ASSUME NEW e, NextEmail(s, e), UNCHANGED <<box, viewVars>>
        PROVE  Works(s)
    BY <1>9, <2>2, NextEmailMoves DEF AddEmailFlags, viewVars, Works
  <2>3. QED
    BY <1>9, <2>1, <2>2 DEF AddEmailFlags
<1>10. CASE StepFails(s)
  BY <1>10, ReturnMoves DEF StepFails, Fail, dbVars, viewVars, sessVars, Works
<1>11. QED
  BY <1>1, <1>2, <1>3, <1>4, <1>5, <1>6, <1>7, <1>8, <1>9, <1>10

\* A command on emails begins.
LEMMA BeginMoves ==
  ASSUME MailInv, NEW s \in Sessions, NEW cmd, NEW set, NEW n,
         \/ Copy(s, cmd, set, n) \/ UidExpunge(s, set) \/ Store(s, cmd, set)
         \/ ExpungeFlagged(s, cmd)
  PROVE  /\ Moves(s) /\ pc'[s] \notin ViewSteps /\ UNCHANGED <<box, boxes, views, arrival, regime>>
         /\ Allowed(s) /\ \A t \in Sessions : mine'[t] \in {None, mine[t]}
<1> USE DEF ViewSteps
<1>1. ASSUME NEW target, NEW next \in {"copy", "flag"}, Listed(s, cmd, set, target, next)
      PROVE  /\ Moves(s) /\ pc'[s] \notin ViewSteps /\ UNCHANGED <<box, boxes, views>>
             /\ \A t \in Sessions : mine'[t] \in {None, mine[t]}
  <2>1. CASE Panic(s)
    BY <2>1, PanicMoves
  <2>2. CASE ~Panic(s)
    <3>1. Goto(s, next) /\ \A t \in Sessions : t # s => loc'[t] = loc[t]
      BY <1>1, <2>2 DEF Listed, MailInv, Jobs
    <3>2. QED
      BY <1>1, <2>2, <3>1, GotoMoves DEF Listed, dbVars, viewVars, sessVars
  <2>3. QED
    BY <2>1, <2>2
<1>2. CASE Copy(s, cmd, set, n)
  BY <1>1, <1>2 DEF Copy, OnSet
<1>3. CASE UidExpunge(s, set)
  <2>1. Goto(s, "remove") /\ \A t \in Sessions : t # s => loc'[t] = loc[t]
    BY <1>3 DEF UidExpunge, MailInv, Jobs
  <2>2. Moves(s) /\ pc'[s] = "remove"
    BY <2>1, GotoMoves
  <2>3. QED
    BY <1>3, <2>2 DEF UidExpunge, OnSet, dbVars, viewVars, sessVars
<1>4. CASE Store(s, cmd, set)
  BY <1>1, <1>4 DEF Store, OnSet
<1>5. CASE ExpungeFlagged(s, cmd)
  <2>1. PICK l \in {"rest", "drop"} : Goto(s, l)
    BY <1>5 DEF ExpungeFlagged
  <2>2. \A t \in Sessions : t # s => loc'[t] = loc[t]
    BY <1>5 DEF ExpungeFlagged, MailInv, Jobs
  <2>3. Moves(s) /\ pc'[s] = l
    BY <2>1, <2>2, GotoMoves
  <2>4. QED
    BY <1>5, <2>3 DEF ExpungeFlagged, dbVars, viewVars, sessVars
<1>6. QED
  BY <1>2, <1>3, <1>4, <1>5

\* A new mailbox.
LEMMA NewBox ==
  ASSUME MailInv, Order, NEW n, n \notin Range(box), NewMailbox(n)
  PROVE  /\ \A i \in DOMAIN box : i \in DOMAIN box' /\ box'[i] = box[i]
         /\ \A i, j \in DOMAIN box' : box'[i] = box'[j] => i = j
         /\ NextId(box) \in DOMAIN box' /\ box'[NextId(box)] = n
<1> DEFINE id == NextId(box)
<1>1. id \notin DOMAIN box
  BY HereIsCounted DEF MailInv
<1> HIDE DEF id
<1>2. /\ DOMAIN box' = DOMAIN box \cup {id} /\ box'[id] = n
      /\ \A i \in DOMAIN box : box'[i] = box[i]
  BY <1>1 DEF NewMailbox, Extend, id
<1>3. \A i \in DOMAIN box : box[i] # n
  BY DEF Range
<1>4. QED
  BY <1>2, <1>3 DEF Order, id

\* A mailbox that is there, or made.
LEMMA GetBox ==
  ASSUME MailInv, Order, NEW n, GetOrCreateMailbox(n)
  PROVE  /\ \A i \in DOMAIN box : i \in DOMAIN box' /\ box'[i] = box[i]
         /\ \A i, j \in DOMAIN box' : box'[i] = box'[j] => i = j
<1>1. CASE UNCHANGED box
  BY <1>1 DEF Order
<1>2. CASE ~UNCHANGED box
  BY <1>2, NewBox DEF GetOrCreateMailbox
<1>3. QED
  BY <1>1, <1>2

\* The commands on mailboxes.
LEMMA BoxOrder ==
  ASSUME MailInv, Order, regime = "orderly", NEW s \in Sessions, NEW n,
         Select(s, n) \/ Status(s, n) \/ Create(s, n) \/ Delete(s, n)
  PROVE  Order'
<1>1. Allowed(s) /\ mine[s] = boxes /\ boxes # None /\ \A t \in Sessions : pc[t] = "idle"
  BY DEF Select, Status, Create, Delete, Allowed, Orderly, Order
<1>2. UNCHANGED <<boxes, views, arrival, mine>>
  BY DEF Select, Status, Create, Delete, viewVars, sessVars
<1>3. \A m \in DOMAIN views[boxes] \ {NoName} : Points(m, views[boxes][m])
  BY <1>1 DEF Order
<1>4. CASE Select(s, n) \/ Status(s, n)
  <2>1. GetOrCreateMailbox(n) /\ UNCHANGED <<pc, loc>>
    BY <1>4 DEF Select, Status, callVars
  <2>2. /\ \A i \in DOMAIN box : i \in DOMAIN box' /\ box'[i] = box[i]
        /\ \A i, j \in DOMAIN box' : box'[i] = box'[j] => i = j
    BY <2>1, GetBox
  <2>3. QED
    BY <1>2, <2>1, <2>2, OrderRest DEF Order
<1>5. CASE Create(s, n)
  <2>1. /\ \A i \in DOMAIN box : i \in DOMAIN box' /\ box'[i] = box[i]
        /\ \A i, j \in DOMAIN box' : box'[i] = box'[j] => i = j
        /\ NextId(box) \in DOMAIN box' /\ box'[NextId(box)] = n
    BY <1>5, NewBox DEF Create
  <2>2. /\ pc'[s] = "cache" /\ loc'[s].name = n /\ loc'[s].id = NextId(box)
        /\ \A t \in Sessions : t # s => pc'[t] = "idle"
    BY <1>1, <1>5 DEF Create, Goto, MailInv, Jobs
  <2>3. \A m \in DOMAIN views'[boxes'] \ {NoName} : Points(m, views[boxes][m])'
    BY <1>2, <1>3, <2>1 DEF Points
  <2>4. \A t \in Sessions : pc'[t] = "cache" => Points(loc[t].name, loc[t].id)'
    BY <2>1, <2>2 DEF Points
  <2>5. QED
    BY <1>1, <1>2, <2>1, <2>2, <2>3, <2>4 DEF Order
<1>6. CASE Delete(s, n)
  <2> DEFINE b == views[boxes][n]
  <2>1. n # NoName /\ n \in DOMAIN views[boxes] /\ box' = [i \in DOMAIN box \ {b} |-> box[i]]
    BY <1>1, <1>6 DEF Delete, Orderly, Has, ViewOf
  <2>2. box[b] = n
    BY <1>3, <2>1 DEF Points
  <2>3. /\ pc'[s] = "uncache" /\ loc'[s].name = n
        /\ \A t \in Sessions : t # s => pc'[t] = "idle"
    BY <1>1, <1>6 DEF Delete, Goto, MailInv, Jobs
  <2>4. \A m \in DOMAIN views'[boxes'] \ {NoName} : m = n \/ Points(m, views[boxes][m])'
    BY <1>2, <1>3, <2>1, <2>2 DEF Points
  <2>5. \A i, j \in DOMAIN box' : box'[i] = box'[j] => i = j
    BY <2>1 DEF Order
  <2>6. QED
    BY <1>1, <1>2, <2>3, <2>4, <2>5 DEF Order
<1>7. QED
  BY <1>4, <1>5, <1>6

\* The first step of a command.
LEMMA CommandOrder ==
  ASSUME MailInv, Order, regime = "orderly", NEW s \in Sessions, Command(s)
  PROVE  Order'
<1>1. ASSUME NEW cmd, NEW set, NEW n,
             \/ Copy(s, cmd, set, n) \/ UidExpunge(s, set) \/ Store(s, cmd, set)
             \/ ExpungeFlagged(s, cmd)
      PROVE  Order'
  <2>1. /\ Moves(s) /\ pc'[s] \notin ViewSteps /\ UNCHANGED <<box, boxes, views, arrival, regime>>
        /\ Allowed(s) /\ \A t \in Sessions : mine'[t] \in {None, mine[t]}
    BY <1>1, BeginMoves, Zenon
  <2>2. pc[s] # "uncache" /\ \A t \in Sessions : pc[t] = "idle"
    BY <2>1 DEF Allowed, Orderly
  <2>3. QED
    BY <2>1, <2>2, OrderMoves
<1>2. ASSUME NEW n, NEW m \in Msgs, AppendEmail(s, m, n)
      PROVE  Order'
  <2>1. UNCHANGED <<pc, loc, boxes, views, mine, box>>
    BY <1>2 DEF AppendEmail, callVars, viewVars, sessVars
  <2>2. \A k \in Msgs : arrival'[k].folder = NoName
    BY <1>2 DEF AppendEmail, Order, Arrived, MailInv, Rows
  <2>3. QED
    BY <2>1, <2>2, OrderRest DEF Order
<1>3. CASE Unselect(s)
  BY <1>3, OrderRest DEF Unselect, Order, callVars, viewVars, dbVars
<1>4. ASSUME NEW n, NEW new, Rename(s, n, new)
      PROVE  FALSE
  BY <1>4 DEF Rename, Orderly
<1>5. QED
  BY <1>1, <1>2, <1>3, <1>4, BoxOrder DEF Command

\* Sessions come and go, views are made and taken away.
LEMMA LoginOrder ==
  ASSUME MailInv, Order, regime = "orderly", NEW s \in Sessions, Login(s)
  PROVE  Order'
<1>1. UNCHANGED <<box, boxes, loc, arrival>> /\ \A t \in Sessions : pc[t] = "idle"
  BY DEF Login, dbVars, Orderly
<1>2. \A n, id : Points(n, id)' <=> Points(n, id)
  BY <1>1 DEF Points
<1>3. CASE boxes # None /\ mine' = [mine EXCEPT ![s] = boxes] /\ UNCHANGED <<views, pc>>
  BY <1>1, <1>2, <1>3 DEF Order, MailInv, Conns
<1>4. CASE /\ boxes = None /\ UNCHANGED mine /\ Goto(s, "boxes")
           /\ views' = [views EXCEPT ![s] = [n \in Range(box) |-> IdOf(n)]]
  <2>1. pc'[s] = "boxes" /\ \A t \in Sessions : t # s => pc'[t] = "idle"
    BY <1>1, <1>4 DEF Goto, MailInv, Jobs
  <2>2. views'[s] = [n \in Range(box) |-> IdOf(n)]
    BY <1>4 DEF MailInv, Conns
  <2>3. \A n \in Range(box) : Points(n, IdOf(n))
    <3> SUFFICES ASSUME NEW n \in Range(box) PROVE Points(n, IdOf(n))
      OBVIOUS
    <3>1. \E b \in DOMAIN box : box[b] = n
      BY DEF Range
    <3>2. QED
      BY <3>1, Zenon DEF IdOf, Points
  <2>4. \A n \in DOMAIN views'[s] : Points(n, views[s][n])'
    BY <1>1, <2>2, <2>3 DEF Points
  <2>5. \A t \in Sessions : pc'[t] = "boxes" => t = s
    BY <2>1
  <2>6. QED
    BY <1>1, <1>4, <2>1, <2>4, <2>5 DEF Order
<1>5. QED
  BY <1>3, <1>4 DEF Login

\* The views are made, added to, and taken from.
LEMMA ViewOrder ==
  ASSUME MailInv, Order, NEW s \in Sessions, SetUserBoxes(s) \/ AddView(s) \/ DeleteView(s)
  PROVE  Order'
<1>1. UNCHANGED <<box, arrival>> /\ pc[s] # "idle"
  BY DEF SetUserBoxes, AddView, DeleteView, dbVars
<1>2. \A n, id : Points(n, id)' <=> Points(n, id)
  BY <1>1 DEF Points
<1>3. \A t \in Sessions : pc'[t] = "idle"
  BY <1>1 DEF SetUserBoxes, AddView, DeleteView, Return, Goto, Order, MailInv, Jobs
<1>4. CASE SetUserBoxes(s)
  <2>1. boxes = None /\ boxes' = s /\ \A n \in DOMAIN views[s] : Points(n, views[s][n])
    BY <1>4 DEF SetUserBoxes, Order
  <2>2. UNCHANGED views /\ \A t \in Sessions : mine'[t] \in {None, boxes'}
    BY <1>4, <2>1 DEF SetUserBoxes, Order, MailInv, Conns
  <2>3. QED
    BY <1>1, <1>2, <1>3, <2>1, <2>2 DEF Order
<1>5. CASE AddView(s)
  <2>1. /\ views' = [views EXCEPT ![mine[s]] = Extend(@, loc[s].name, loc[s].id)]
        /\ UNCHANGED <<boxes, mine>> /\ pc[s] = "cache" /\ Points(loc[s].name, loc[s].id)
    BY <1>5 DEF AddView, Order, sessVars
  <2>2. \A t \in Sessions : pc[t] # "uncache"
    BY <2>1 DEF Order
  <2>3. boxes # None => \A n \in DOMAIN views[boxes] \ {NoName} : Points(n, views[boxes][n])
    BY <2>2 DEF Order
  <2>4. boxes # None => views'[boxes] \in {views[boxes], Extend(views[boxes], loc[s].name, loc[s].id)}
    BY <2>1 DEF MailInv, Conns
  <2>5. boxes # None => \A n \in DOMAIN views'[boxes] \ {NoName} : Points(n, views'[boxes][n])
    BY <2>1, <2>3, <2>4 DEF Extend
  <2>6. QED
    BY <1>1, <1>2, <1>3, <2>1, <2>5 DEF Order
<1>6. CASE DeleteView(s)
  <2>1. /\ views' = [views EXCEPT ![boxes] = Restrict(@, DOMAIN @ \ {loc[s].name})]
        /\ UNCHANGED <<boxes, mine>> /\ pc[s] = "uncache"
    BY <1>6 DEF DeleteView, sessVars
  <2>2. \A t \in Sessions : pc[t] = "uncache" => t = s
    BY <2>1 DEF Order
  <2>3. boxes # None => \A n \in DOMAIN views[boxes] \ {NoName} :
                          n = loc[s].name \/ Points(n, views[boxes][n])
    BY <2>2 DEF Order
  <2>4. boxes # None => views'[boxes] = Restrict(views[boxes], DOMAIN views[boxes] \ {loc[s].name})
    BY <2>1, Zenon DEF MailInv, Conns
  <2>5. boxes # None => \A n \in DOMAIN views'[boxes] \ {NoName} : Points(n, views'[boxes][n])
    BY <2>3, <2>4 DEF Restrict
  <2>6. QED
    BY <1>1, <1>2, <1>3, <2>1, <2>5, Zenon DEF Order
<1>7. QED
  BY <1>4, <1>5, <1>6

\* Emails arrive, for no folder.
LEMMA ArriveOrder ==
  ASSUME MailInv, Order, regime = "orderly", Arrive
  PROVE  Order'
<1>1. ASSUME NEW m \in Msgs, NEW folder, NEW spam, Deliver(m, folder, spam)
      PROVE  Order'
  <2>1. folder = NoName /\ UNCHANGED <<box, pc, loc, boxes, views, mine>>
    BY <1>1 DEF Deliver, callVars, viewVars, sessVars
  <2>2. \A k \in Msgs : arrival'[k].folder = NoName
    BY <1>1, <2>1 DEF Deliver, Arrived, Order, MailInv, Rows
  <2>3. QED
    BY <2>1, <2>2, OrderRest DEF Order
<1>2. ASSUME NEW m \in Msgs, OnReceive(m)
      PROVE  Order'
  <2>1. UNCHANGED <<box, pc, loc, boxes, mine>>
    BY <1>2 DEF OnReceive, dbVars, callVars, sessVars
  <2>2. \A n, id : Points(n, id)' <=> Points(n, id)
    BY <2>1 DEF Points
  <2>3. \A k \in Msgs : arrival'[k].folder = NoName
    BY <1>2 DEF OnReceive, Arrived, Order, MailInv, Rows
  <2>4. arrival[m].folder = NoName
    BY DEF Order
  <2>5. CASE boxes = None
    BY <1>2, <2>1, <2>2, <2>3, <2>5 DEF OnReceive, Order
  <2>6. CASE boxes # None
    <3>1. /\ \A n \in DOMAIN views'[boxes] \ {NoName} :
               n \in DOMAIN views[boxes] /\ views'[boxes][n] = views[boxes][n]
      BY <1>2, <2>4, <2>6 DEF OnReceive, Extend, MailInv, Conns
    <3>2. QED
      BY <2>1, <2>2, <2>3, <2>6, <3>1 DEF Order
  <2>7. QED
    BY <2>5, <2>6
<1>3. QED
  BY <1>1, <1>2 DEF Arrive

\* After a restart nobody has a view.
LEMMA RestartOrder ==
  ASSUME MailInv, Order, Restart
  PROVE  Order'
<1> DEFINE missing == {i \in {InboxMailbox, JunkMailbox} : i \notin DOMAIN box}
           name(i) == IF i = InboxMailbox THEN INBOX ELSE Junk
<1>1. /\ \A i \in missing : name(i) \notin Range(box)
      /\ box' = [i \in DOMAIN box \cup missing |-> IF i \in missing THEN name(i) ELSE box[i]]
  BY DEF Restart
<1>2. \A i, j \in missing : name(i) = name(j) => i = j
  BY DEF INBOX, Junk, InboxMailbox, JunkMailbox
<1>3. \A i \in missing, j \in DOMAIN box : i # j /\ name(i) # box[j]
  BY <1>1 DEF Range
<1> HIDE DEF missing, name
<1>4. \A i, j \in DOMAIN box' : box'[i] = box'[j] => i = j
  BY <1>1, <1>2, <1>3 DEF Order
<1>5. \A m \in Msgs : arrival'[m].folder = NoName
  BY DEF Restart, Arrived, Order
<1>6. /\ boxes' = None /\ \A s \in Sessions : pc'[s] = "idle" /\ mine'[s] = None
  BY DEF Restart
<1>7. QED
  BY <1>4, <1>5, <1>6 DEF Order

\* The regime of a behaviour stays what it is.
LEMMA SameRegime == [Next]_vars => UNCHANGED regime
<1>1. CASE \E s \in Sessions : Command(s)
  BY <1>1, Zenon DEF Command, Select, Status, Delete, Create, Rename, AppendEmail, Copy, UidExpunge,
              Store, ExpungeFlagged, Unselect
<1>2. CASE \E s \in Sessions : Continue(s)
  BY <1>2 DEF Continue, SetUserBoxes, AddView, DeleteView, AddMailboxEmails, MoveGetIds,
              RemoveMailboxEmails, ListEmailsNoMailbox, Purge, DeleteFlagged,
              RemoveEmailsWithFlag, FlagEmail, AddEmailFlags, StepFails
<1>3. CASE (\E s \in Sessions : Login(s) \/ Logout(s)) \/ Arrive \/ Restart \/ UNCHANGED vars
  BY <1>3 DEF Login, Logout, Arrive, Deliver, OnReceive, Restart, vars
<1>4. QED
  BY <1>1, <1>2, <1>3 DEF Next

\* Every step keeps the order.
LEMMA OrderStep == MailInv /\ OrderInv /\ [Next]_vars => OrderInv'
<1> SUFFICES ASSUME MailInv, OrderInv, [Next]_vars, regime' = "orderly" PROVE Order'
  BY DEF OrderInv
<1>1. UNCHANGED regime
  BY SameRegime
<1>2. regime = "orderly" /\ Order
  BY <1>1 DEF OrderInv
<1>3. ASSUME NEW s \in Sessions, Continue(s) PROVE Order'
  <2>1. ASSUME Works(s) PROVE Order'
    BY <1>2, <2>1, OrderMoves DEF Works, ViewSteps
  <2>2. QED
    BY <1>2, <1>3, <2>1, RemovalWorks, ViewOrder DEF Continue
<1>4. ASSUME NEW s \in Sessions, Logout(s) PROVE Order'
  <2>1. UNCHANGED <<pc, loc, boxes, views, box, arrival>> /\ \A t \in Sessions : mine'[t] \in {None, mine[t]}
    BY <1>4 DEF Logout, callVars, viewVars, dbVars, MailInv, Conns
  <2>2. QED
    BY <1>2, <2>1, OrderRest DEF Order
<1>5. CASE UNCHANGED vars
  BY <1>2, <1>5, OrderRest DEF Order, vars, callVars, viewVars, dbVars, sessVars
<1>6. QED
  BY <1>2, <1>3, <1>4, <1>5, CommandOrder, LoginOrder, ArriveOrder, RestartOrder DEF Next

\* It holds at the start.
LEMMA OrderStarts == Init => OrderInv
  BY DEF Init, OrderInv, Order, Arrived, INBOX, Junk, InboxMailbox, JunkMailbox

\* Both invariants hold always.
LEMMA OrderInvariant == Spec => [](MailInv /\ OrderInv)
<1>1. Init => MailInv /\ OrderInv
  BY MailStarts, OrderStarts
<1>2. MailInv /\ OrderInv /\ [Next]_vars => (MailInv /\ OrderInv)'
  BY MailStep, OrderStep
<1>3. QED
  BY <1>1, <1>2, PTL DEF Spec

\* In an orderly regime a view has the ID of the mailbox with its name, however
\* many sessions share the views (display: Select, Delete, Append, all by ID).
THEOREM MailboxIsRight == Spec => []RightMailbox
<1>1. OrderInv => RightMailbox
  BY DEF OrderInv, Order, RightMailbox, Points
<1>2. QED
  BY <1>1, OrderInvariant, PTL

-----------------------------------------------------------------------------
\* An email that was stored and may have been deleted since.
Came(m) == arrival[m].at \in {"stored", "done"}

\* The tables of an orderly regime: an email has one row, and what is flagged or
\* in no mailbox somebody asked to delete.
Safe ==
  /\ \A e, f \in DOMAIN emails : emails[e] = emails[f] => e = f
  /\ \A e \in DOMAIN emails : Came(emails[e])
  /\ \A e \in Strays \cup flagged : emails[e] \in asked
  /\ \A m \in Msgs : Came(m) /\ m \notin Range(emails) => m \in asked

\* What a command of an orderly regime knows of its emails: those it is about to
\* copy or flag are in the selected mailbox, those it is about to take out of
\* there for a MOVE are in another one too, and those it is about to delete
\* somebody asked to delete.
WorkInv(s) ==
  /\ pc[s] \in {"copy", "flag", "reflag"} => loc[s].ids \subseteq In(selected[s].id)
  /\ pc[s] = "getids" \/ (pc[s] = "copy" /\ loc[s].cmd # "copy") =>
       loc[s].set = <<"uid", loc[s].ids>>
  /\ pc[s] = "getids" \/ (pc[s] = "remove" /\ loc[s].cmd = "move") =>
       \A e \in loc[s].ids : \E c \in DOMAIN box : c # selected[s].id /\ <<c, e>> \in member
  /\ pc[s] \in {"drop", "purge"} =>
       loc[s].ids \subseteq DOMAIN emails /\ \A e \in loc[s].ids : emails[e] \in asked

LostInv == regime = "orderly" => Safe /\ \A s \in Sessions : WorkInv(s)

\* Emails come and stay, mailboxes and memberships are added.
LEMMA SafeGrows ==
  ASSUME Safe, UNCHANGED emails, asked \subseteq asked', flagged' \subseteq flagged,
         member \subseteq member', DOMAIN box \subseteq DOMAIN box',
         \A m \in Msgs : Came(m)' <=> Came(m), Range(emails) \subseteq Msgs
  PROVE  Safe'
<1>1. Strays' \subseteq Strays
  BY DEF Strays
<1>2. \A e \in DOMAIN emails : Came(emails[e])'
  BY DEF Safe, Range
<1>3. QED
  BY <1>1, <1>2 DEF Safe

\* No email, membership or flag changes.
LEMMA SafeSame ==
  ASSUME Safe, MailInv, UNCHANGED <<emails, asked, flagged, member, arrival>>,
         DOMAIN box \subseteq DOMAIN box'
  PROVE  Safe'
  BY SafeGrows DEF Came, MailInv, Rows

\* An email is stored that was not there.
LEMMA SafeStore ==
  ASSUME MailInv, Safe, NEW m \in Msgs, ~Came(m), Came(m)',
         \A k \in Msgs : k # m => (Came(k)' <=> Came(k)),
         NEW b \in DOMAIN box', StoreIn(m, b),
         UNCHANGED <<flagged, asked>>, DOMAIN box \subseteq DOMAIN box'
  PROVE  /\ Safe' /\ member \subseteq member'
         /\ \A e \in DOMAIN emails : e \in DOMAIN emails' /\ emails'[e] = emails[e]
<1> DEFINE id == NextId(emails)
<1>1. id \notin DOMAIN emails
  BY HereIsCounted DEF MailInv
<1> HIDE DEF id
<1>2. /\ DOMAIN emails' = DOMAIN emails \cup {id} /\ emails'[id] = m
      /\ \A e \in DOMAIN emails : emails'[e] = emails[e]
      /\ member' = member \cup {<<b, id>>}
  BY <1>1 DEF StoreIn, Extend, id
<1>3. \A e \in DOMAIN emails : emails[e] # m /\ emails[e] \in Msgs
  BY DEF Safe, MailInv, Rows, Range
<1>4. Came(m)' /\ \A k \in Msgs : k # m => (Came(k)' <=> Came(k))
  OBVIOUS
<1>5. \A e, f \in DOMAIN emails' : emails'[e] = emails'[f] => e = f
  BY <1>2, <1>3 DEF Safe
<1>6. \A e \in DOMAIN emails' : Came(emails[e])'
  <2> SUFFICES ASSUME NEW e \in DOMAIN emails' PROVE Came(emails[e])'
    OBVIOUS
  <2>1. CASE e = id
    BY <1>2, <1>4, <2>1 DEF Came
  <2>2. CASE e \in DOMAIN emails
    BY <1>2, <1>3, <1>4, <2>2 DEF Safe, Came
  <2>3. QED
    BY <1>2, <2>1, <2>2
<1>7. Strays' \subseteq Strays
  BY <1>2, Zenon DEF Strays
<1>8. \A e \in Strays' \cup flagged' : emails'[e] \in asked'
  <2>1. \A e \in Strays \cup flagged : e \in DOMAIN emails
    BY DEF Strays, MailInv, Rows
  <2>2. QED
    BY <1>2, <1>7, <2>1 DEF Safe
<1>9. Range(emails') = Range(emails) \cup {m}
  BY <1>2 DEF Range
<1>10. \A k \in Msgs : Came(k)' /\ k \notin Range(emails') => k \in asked'
  BY <1>4, <1>9 DEF Safe
<1>11. Safe'
  BY <1>5, <1>6, <1>8, <1>10 DEF Safe
<1>12. QED
  BY <1>2, <1>11

\* Emails are deleted that were asked for.
LEMMA SafeDrop ==
  ASSUME MailInv, Safe, NEW ids, Drop(ids), UNCHANGED <<box, asked, arrival>>,
         \A e \in ids \cap DOMAIN emails : emails[e] \in asked
  PROVE  Safe'
<1>1. /\ DOMAIN emails' = DOMAIN emails \ ids /\ \A e \in DOMAIN emails' : emails'[e] = emails[e]
      /\ member' = {p \in member : p[2] \notin ids} /\ flagged' \subseteq flagged \ ids
  BY DEF Drop
<1>2. Strays' \subseteq Strays
  BY <1>1 DEF Strays
<1>3. \A e \in Strays' \cup flagged' : e \in DOMAIN emails'
  BY <1>1 DEF Strays, MailInv, Rows
<1>4. \A e \in Strays' \cup flagged' : emails'[e] \in asked'
  BY <1>1, <1>2, <1>3 DEF Safe
<1>5. \A m \in Msgs : Came(m)' <=> Came(m)
  BY DEF Came
<1>6. \A m \in Range(emails) \ Range(emails') : m \in asked
  BY <1>1 DEF Range
<1>7. \A m \in Msgs : Came(m)' /\ m \notin Range(emails') => m \in asked'
  BY <1>5, <1>6 DEF Safe
<1>8. \A e \in DOMAIN emails' : Came(emails[e])'
  BY <1>1 DEF Safe, Came
<1>9. QED
  BY <1>1, <1>4, <1>7, <1>8 DEF Safe

\* The flags: to take one away is to withdraw the wish, of an email that is in a
\* mailbox.
LEMMA SafeFlag ==
  ASSUME MailInv, Safe, UNCHANGED <<emails, box, member, arrival>>, NEW e \in DOMAIN emails,
         \/ UNCHANGED <<flagged, asked>>
         \/ SetFlag(e)
         \/ ClearFlag(e) /\ e \notin Strays
  PROVE  Safe'
<1>1. Strays' = Strays /\ \A m \in Msgs : Came(m)' <=> Came(m)
  BY DEF Strays, Came
<1>2. \A f \in Strays \cup flagged : f \in DOMAIN emails
  BY DEF Strays, MailInv, Rows
<1>3. emails[e] \in Range(emails) /\ \A f \in DOMAIN emails : f # e => emails[f] # emails[e]
  BY DEF Safe, Range
<1>4. \A f \in DOMAIN emails' : Came(emails[f])'
  BY DEF Safe, Came
<1>5. CASE UNCHANGED <<flagged, asked>>
  BY <1>1, <1>4, <1>5 DEF Safe
<1>6. CASE SetFlag(e)
  <2>1. flagged' = flagged \cup {e} /\ asked' = asked \cup {emails[e]}
    BY <1>6 DEF SetFlag
  <2>2. QED
    BY <1>1, <1>4, <2>1 DEF Safe
<1>7. CASE ClearFlag(e) /\ e \notin Strays
  <2>1. flagged' = flagged \ {e} /\ asked \ {emails[e]} \subseteq asked'
    BY <1>7 DEF ClearFlag
  <2>2. \A f \in Strays' \cup flagged' : emails'[f] \in asked'
    BY <1>1, <1>2, <1>3, <1>7, <2>1 DEF Safe
  <2>3. \A m \in Msgs : Came(m)' /\ m \notin Range(emails') => m \in asked'
    BY <1>1, <1>3, <2>1 DEF Safe
  <2>4. QED
    BY <1>4, <2>2, <2>3 DEF Safe
<1>8. QED
  BY <1>5, <1>6, <1>7

\* The commands: the others are idle.
LEMMA IdleWork ==
  ASSUME NEW s, pc'[s] \in {"idle", "boxes", "cache", "uncache", "orphans", "rest"}
  PROVE  WorkInv(s)'
  BY DEF WorkInv

\* The session that moves is the only one at work.
LEMMA OneWorks ==
  ASSUME Order, NEW s \in Sessions, Moves(s),
         pc[s] # "idle" \/ \A t \in Sessions : pc[t] = "idle", WorkInv(s)'
  PROVE  \A t \in Sessions : WorkInv(t)'
<1>1. ASSUME NEW t \in Sessions, t # s PROVE WorkInv(t)'
  <2>1. pc'[t] = "idle"
    BY <1>1 DEF Order, Moves
  <2>2. QED
    BY <2>1, IdleWork
<1>2. QED
  BY <1>1

\* A command goes on as it was while the tables grow.
LEMMA WorkKept ==
  ASSUME NEW t, WorkInv(t), UNCHANGED <<pc, loc>>, selected'[t] = selected[t],
         member \subseteq member', DOMAIN box \subseteq DOMAIN box', asked \subseteq asked',
         \A e \in DOMAIN emails : e \in DOMAIN emails' /\ emails'[e] = emails[e]
  PROVE  WorkInv(t)'
<1>1. \A b : In(b) \subseteq In(b)'
  BY DEF In
<1>2. In(selected[t].id)' = {e \in DOMAIN emails' : <<selected[t].id, e>> \in member'}
  BY DEF In
<1>3. In(selected[t].id) \subseteq In(selected[t].id)'
  BY <1>2 DEF In
<1>4. QED
  BY <1>3, Zenon DEF WorkInv

\* A command on emails begins.
LEMMA BeginWork ==
  ASSUME MailInv, Order, Safe, regime = "orderly", NEW s \in Sessions,
         NEW cmd, NEW set, NEW n,
         \/ set \in Sets /\ cmd \in {"copy", "move"} /\ Copy(s, cmd, set, n)
         \/ set \in Sets /\ Store(s, cmd, set)
         \/ UidExpunge(s, set) \/ ExpungeFlagged(s, cmd)
  PROVE  Safe' /\ \A t \in Sessions : WorkInv(t)'
<1>1. /\ Moves(s) /\ UNCHANGED <<box, arrival>> /\ \A t \in Sessions : pc[t] = "idle"
  BY BeginMoves DEF Allowed, Orderly
<1>2. UNCHANGED <<emails, member, flagged, asked>>
  BY DEF Copy, UidExpunge, Store, ExpungeFlagged, Listed, Panic, dbVars
<1>3. Safe'
  BY <1>1, <1>2, SafeSame
<1>4. ASSUME OnSet(s, set), set \in Sets
      PROVE  set = <<"uid", set[2]>> /\ set[2] \subseteq In(selected[s].id)
  BY <1>4 DEF OnSet, Orderly, Sets
<1>5. ASSUME OnSet(s, set), set \in Sets, NEW target, NEW next \in {"copy", "flag"},
             Listed(s, cmd, set, target, next), cmd = "copy" \/ cmd = "move" \/ next = "flag"
      PROVE  WorkInv(s)'
  <2>1. CASE Panic(s)
    BY <2>1, PanicMoves, IdleWork
  <2>2. CASE ~Panic(s)
    <3>1. ListMailboxEmails(selected[s].id, set) = set[2]
      BY <1>4, <1>5 DEF ListMailboxEmails, Dynamic, GetIds
    <3>2. /\ loc'[s].ids = set[2] /\ loc'[s].cmd = cmd /\ pc'[s] = next
          /\ loc'[s].set = IF cmd = "move" THEN set ELSE NoLoc.set
      BY <1>5, <2>2, <3>1 DEF Listed, Goto, MailInv, Jobs
    <3>3. In(selected[s].id)' = In(selected[s].id)
      BY <1>2, <1>5, <2>2 DEF Listed, In, sessVars
    <3>4. QED
      BY <1>4, <1>5, <3>2, <3>3 DEF WorkInv
  <2>3. QED
    BY <2>1, <2>2
<1>6. CASE set \in Sets /\ cmd \in {"copy", "move"} /\ Copy(s, cmd, set, n)
  BY <1>1, <1>3, <1>5, <1>6, OneWorks DEF Copy
<1>7. CASE set \in Sets /\ Store(s, cmd, set)
  BY <1>1, <1>3, <1>5, <1>7, OneWorks DEF Store
<1>8. CASE UidExpunge(s, set)
  <2>1. loc'[s].cmd = "expunge" /\ pc'[s] = "remove"
    BY <1>8 DEF UidExpunge, Goto, MailInv, Jobs
  <2>2. WorkInv(s)'
    BY <2>1 DEF WorkInv
  <2>3. QED
    BY <1>1, <1>3, <2>2, OneWorks
<1>9. CASE ExpungeFlagged(s, cmd)
  <2>1. loc'[s].ids = flagged /\ pc'[s] \in {"rest", "drop"}
    BY <1>9 DEF ExpungeFlagged, Goto, MailInv, Jobs
  <2>2. flagged \subseteq DOMAIN emails /\ \A e \in flagged : emails[e] \in asked
    BY DEF Safe, MailInv, Rows
  <2>3. WorkInv(s)'
    BY <1>2, <2>1, <2>2 DEF WorkInv
  <2>4. QED
    BY <1>1, <1>3, <2>3, OneWorks
<1>10. QED
  BY <1>6, <1>7, <1>8, <1>9

\* DELETE: what it deletes is in the mailbox that the client named, or was in
\* none before.
LEMMA DeleteWork ==
  ASSUME MailInv, Order, Safe, regime = "orderly", NEW s \in Sessions, NEW n, Delete(s, n)
  PROVE  Safe' /\ \A t \in Sessions : WorkInv(t)'
<1> DEFINE b == views[boxes][n]
           rest == {p \in member : p[1] # b}
           kept == {e \in DOMAIN emails : \E p \in rest : p[2] = e}
<1>1. mine[s] = boxes /\ boxes # None /\ \A t \in Sessions : pc[t] = "idle"
  BY DEF Delete, Allowed, Orderly, Order
<1>2. n # NoName /\ n \in DOMAIN views[boxes]
  BY <1>1 DEF Delete, Orderly, Has
<1>3. b \in DOMAIN box /\ box[b] = n
  BY <1>1, <1>2 DEF Order, Points
<1>4. /\ box' = [i \in DOMAIN box \ {b} |-> box[i]] /\ emails' = [e \in kept |-> emails[e]]
      /\ member' = rest /\ flagged' = flagged \cap kept /\ UNCHANGED arrival
  BY <1>1 DEF Delete, ViewOf
<1>5. \A e \in In(b) : emails[e] \in asked'
  BY <1>3 DEF Delete
<1>6. asked \subseteq asked'
  BY DEF Delete
<1>7. \A p \in member : p[1] \in DOMAIN box /\ p[2] \in DOMAIN emails /\ p = <<p[1], p[2]>>
  BY DEF MailInv, Rows, Keys
<1>8. kept \subseteq DOMAIN emails /\ \A e \in DOMAIN emails \ kept : e \in Strays \/ e \in In(b)
  <2> SUFFICES ASSUME NEW e \in DOMAIN emails \ kept, e \notin Strays PROVE e \in In(b)
    OBVIOUS
  <2>1. PICK c \in DOMAIN box : <<c, e>> \in member
    BY DEF Strays
  <2>2. c = b
    BY <2>1
  <2>3. QED
    BY <2>1, <2>2 DEF In
<1>9. \A e \in DOMAIN emails \ kept : emails[e] \in asked'
  BY <1>5, <1>6, <1>8 DEF Safe
<1>10. Strays' = {}
  <2> SUFFICES ASSUME NEW e \in Strays' PROVE FALSE
    OBVIOUS
  <2>1. e \in kept
    BY <1>4 DEF Strays
  <2>2. PICK p \in rest : p[2] = e
    BY <2>1
  <2>3. p[1] \in DOMAIN box' /\ <<p[1], e>> \in member'
    BY <1>4, <1>7, <2>2
  <2>4. QED
    BY <2>3 DEF Strays
<1> HIDE DEF b, rest, kept
<1>11. DOMAIN emails' = kept /\ \A e \in kept : emails'[e] = emails[e] /\ e \in DOMAIN emails
  BY <1>4, <1>8
<1>12. \A e \in Strays' \cup flagged' : emails'[e] \in asked'
  BY <1>4, <1>6, <1>10, <1>11 DEF Safe
<1>13. \A m \in Msgs : Came(m)' <=> Came(m)
  BY <1>4 DEF Came
<1>14. \A m \in Range(emails) \ Range(emails') : m \in asked'
  BY <1>9, <1>11 DEF Range
<1>15. \A m \in Msgs : Came(m)' /\ m \notin Range(emails') => m \in asked'
  BY <1>6, <1>13, <1>14 DEF Safe
<1>16. \A e \in DOMAIN emails' : Came(emails[e])'
  BY <1>4, <1>11 DEF Safe, Came
<1>17. Safe'
  BY <1>11, <1>12, <1>15, <1>16 DEF Safe
<1>18. \A t \in Sessions : pc'[t] \in {"idle", "uncache"}
  BY <1>1 DEF Delete, Goto, MailInv, Jobs
<1>19. QED
  BY <1>17, <1>18, IdleWork

\* The other commands.
LEMMA CommandLost ==
  ASSUME MailInv, Order, Safe, regime = "orderly", NEW s \in Sessions, Command(s)
  PROVE  Safe' /\ \A t \in Sessions : WorkInv(t)'
<1>1. ASSUME NEW n, Select(s, n) \/ Status(s, n) \/ Create(s, n)
      PROVE  Safe' /\ \A t \in Sessions : WorkInv(t)'
  <2>1. \A t \in Sessions : pc[t] = "idle"
    BY <1>1 DEF Select, Status, Create, Allowed, Orderly
  <2>2. DOMAIN box \subseteq DOMAIN box'
    BY <1>1, GetBox, NewBox DEF Select, Status, Create
  <2>3. UNCHANGED <<emails, asked, flagged, member, arrival>>
    BY <1>1 DEF Select, Status, Create
  <2>4. \A t \in Sessions : pc'[t] \in {"idle", "cache"}
    BY <1>1, <2>1 DEF Select, Status, Create, Goto, callVars, MailInv, Jobs
  <2>5. QED
    BY <2>2, <2>3, <2>4, SafeSame, IdleWork
<1>2. ASSUME NEW n, NEW m \in Msgs, AppendEmail(s, m, n)
      PROVE  Safe' /\ \A t \in Sessions : WorkInv(t)'
  <2>1. \A t \in Sessions : pc'[t] = "idle"
    BY <1>2 DEF AppendEmail, Allowed, Orderly, callVars
  <2>2. UNCHANGED <<box, flagged, asked>>
    BY <1>2 DEF AppendEmail
  <2>3. CASE UNCHANGED <<emails, member, arrival>>
    BY <2>1, <2>2, <2>3, SafeSame, IdleWork
  <2>4. CASE ~UNCHANGED <<emails, member, arrival>>
    <3>1. PICK b \in DOMAIN box' : StoreIn(m, b)
      BY <1>2, <2>2, <2>4 DEF AppendEmail
    <3>2. ~Came(m) /\ Came(m)' /\ \A k \in Msgs : k # m => (Came(k)' <=> Came(k))
      BY <1>2, <2>4 DEF AppendEmail, CanArrive, Came, Arrived, MailInv, Rows
    <3>3. Safe'
      BY <2>2, <3>1, <3>2, SafeStore
    <3>4. QED
      BY <2>1, <3>3, IdleWork
  <2>5. QED
    BY <2>3, <2>4
<1>3. CASE Unselect(s)
  <2>1. \A t \in Sessions : pc'[t] = "idle"
    BY <1>3 DEF Unselect, Allowed, Orderly, callVars
  <2>2. Safe'
    BY <1>3, SafeSame DEF Unselect, dbVars
  <2>3. QED
    BY <2>1, <2>2, IdleWork
<1>4. ASSUME NEW n, NEW new, Rename(s, n, new)
      PROVE  FALSE
  BY <1>4 DEF Rename, Orderly
<1>5. ASSUME NEW cmd \in {"expunge", "close"}, ExpungeFlagged(s, cmd)
      PROVE  Safe' /\ \A t \in Sessions : WorkInv(t)'
  BY <1>5, BeginWork
<1>6. QED
  BY <1>1, <1>2, <1>3, <1>4, <1>5, BeginWork, DeleteWork DEF Command

\* COPY and MOVE.  The insert is refused when an email is in the mailbox already,
\* so the emails of a MOVE are now in another mailbox than the selected one.
LEMMA CopyLost ==
  ASSUME MailInv, Safe, NEW s \in Sessions, WorkInv(s), AddMailboxEmails(s)
  PROVE  Safe' /\ WorkInv(s)'
<1> DEFINE new == {loc[s].id} \X loc[s].ids
<1>1. UNCHANGED <<emails, box, flagged, asked, arrival>> /\ member \subseteq member'
  BY DEF AddMailboxEmails, Leak
<1>2. Safe'
  BY <1>1, SafeGrows DEF Came, MailInv, Rows
<1>3. CASE Return(s)
  BY <1>2, <1>3, ReturnMoves, IdleWork
<1>4. CASE ~Return(s)
  <2>1. /\ new \subseteq ((DOMAIN box) \X (DOMAIN emails)) \ member
        /\ member' = member \cup new /\ loc[s].cmd # "copy" /\ Goto(s, "getids")
        /\ UNCHANGED <<loc, selected>>
    BY <1>4 DEF AddMailboxEmails, Leak, sessVars
  <2>2. pc[s] = "copy" /\ pc'[s] = "getids"
    BY <2>1 DEF AddMailboxEmails, Goto, MailInv, Jobs
  <2>3. loc[s].ids \subseteq In(selected[s].id) /\ loc[s].set = <<"uid", loc[s].ids>>
    BY <2>1, <2>2 DEF WorkInv
  <2>4. ASSUME NEW e \in loc[s].ids
        PROVE  loc[s].id \in DOMAIN box /\ loc[s].id # selected[s].id /\ <<loc[s].id, e>> \in member'
    <3>1. <<loc[s].id, e>> \in new
      OBVIOUS
    <3>2. <<selected[s].id, e>> \in member
      BY <2>3 DEF In
    <3>3. QED
      BY <2>1, <3>1, <3>2
  <2> HIDE DEF new
  <2>5. QED
    BY <1>1, <1>2, <2>1, <2>2, <2>3, <2>4, Zenon DEF WorkInv
<1>5. QED
  BY <1>3, <1>4

\* MOVE reads its set again: the same emails.
LEMMA MoveLost ==
  ASSUME MailInv, Safe, NEW s \in Sessions, WorkInv(s), MoveGetIds(s)
  PROVE  Safe' /\ WorkInv(s)'
<1>1. UNCHANGED <<emails, box, member, flagged, asked, arrival>>
  BY DEF MoveGetIds, Panic, dbVars
<1>2. Safe'
  BY <1>1, SafeSame
<1>3. CASE Panic(s)
  BY <1>2, <1>3, PanicMoves, IdleWork
<1>4. CASE ~Panic(s)
  <2>1. loc[s].set = <<"uid", loc[s].ids>>
    BY DEF WorkInv, MoveGetIds
  <2>2. GetIds(selected[s].id, loc[s].set) = loc[s].ids
    BY <2>1 DEF GetIds
  <2>3. /\ pc[s] = "getids" /\ pc'[s] = "remove" /\ loc'[s].ids = loc[s].ids
        /\ UNCHANGED selected
    BY <1>4, <2>2 DEF MoveGetIds, Goto, MailInv, Jobs, sessVars
  <2>4. QED
    BY <1>1, <1>2, <2>3 DEF WorkInv
<1>5. QED
  BY <1>3, <1>4

\* What leaves the selected mailbox is in another one, or was to be deleted.
LEMMA RemoveLost ==
  ASSUME MailInv, Safe, NEW s \in Sessions, WorkInv(s), RemoveMailboxEmails(s)
  PROVE  Safe' /\ WorkInv(s)'
<1> DEFINE b == selected[s].id
<1>1. /\ UNCHANGED <<emails, box, flagged, arrival>> /\ asked \subseteq asked'
      /\ member' = member \ ({b} \X loc[s].ids)
  BY DEF RemoveMailboxEmails
<1>2. \A m \in Msgs : Came(m)' <=> Came(m)
  BY <1>1 DEF Came
<1>3. ASSUME NEW e \in Strays' PROVE emails[e] \in asked'
  <2>1. CASE e \in Strays
    BY <1>1, <2>1 DEF Safe
  <2>2. CASE e \notin Strays
    <3>1. e \in DOMAIN emails /\ \A c \in DOMAIN box : <<c, e>> \notin member'
      BY <1>1 DEF Strays
    <3>2. PICK c \in DOMAIN box : <<c, e>> \in member
      BY <2>2, <3>1 DEF Strays
    <3>3. c = b /\ e \in loc[s].ids
      BY <1>1, <3>1, <3>2
    <3>4. loc[s].cmd # "move"
      <4> SUFFICES ASSUME loc[s].cmd = "move" PROVE FALSE
        OBVIOUS
      <4>1. PICK d \in DOMAIN box : d # b /\ <<d, e>> \in member
        BY <3>3 DEF WorkInv, RemoveMailboxEmails
      <4>2. QED
        BY <1>1, <3>1, <4>1
    <3>5. e \in loc[s].ids \cap In(b)
      BY <3>1, <3>2, <3>3 DEF In
    <3>6. QED
      BY <3>4, <3>5 DEF RemoveMailboxEmails
  <2>3. QED
    BY <2>1, <2>2
<1> HIDE DEF b
<1>4. \A e \in DOMAIN emails' : Came(emails[e])'
  BY <1>1 DEF Safe, Came
<1>5. Safe'
  BY <1>1, <1>2, <1>3, <1>4 DEF Safe
<1>6. pc'[s] = "orphans"
  BY DEF RemoveMailboxEmails, Goto, MailInv, Jobs
<1>7. QED
  BY <1>5, <1>6, IdleWork

\* The deletions, one after the other.
LEMMA PurgeLost ==
  ASSUME MailInv, Safe, NEW s \in Sessions, WorkInv(s),
         ListEmailsNoMailbox(s) \/ Purge(s) \/ DeleteFlagged(s) \/ RemoveEmailsWithFlag(s)
  PROVE  Safe' /\ WorkInv(s)'
<1>1. CASE ListEmailsNoMailbox(s)
  <2>1. UNCHANGED <<emails, box, member, flagged, asked, arrival>>
    BY <1>1 DEF ListEmailsNoMailbox, dbVars
  <2>2. Safe'
    BY <2>1, SafeSame
  <2>3. CASE Return(s)
    BY <2>2, <2>3, ReturnMoves, IdleWork
  <2>4. CASE ~Return(s)
    <3>1. pc'[s] = "purge" /\ loc'[s].ids = Strays
      BY <1>1, <2>4 DEF ListEmailsNoMailbox, Goto, MailInv, Jobs
    <3>2. Strays \subseteq DOMAIN emails /\ \A e \in Strays : emails[e] \in asked
      BY DEF Safe, Strays
    <3>3. QED
      BY <2>1, <2>2, <3>1, <3>2 DEF WorkInv
  <2>5. QED
    BY <2>3, <2>4
<1>2. ASSUME NEW e \in loc[s].ids, Drop({e}), pc[s] \in {"drop", "purge"},
             UNCHANGED <<box, asked, arrival>>,
             \/ pc'[s] \in {"idle", "rest"}
             \/ pc'[s] = pc[s] /\ loc'[s].ids = loc[s].ids \ {e}
      PROVE  Safe' /\ WorkInv(s)'
  <2>1. loc[s].ids \subseteq DOMAIN emails /\ \A f \in loc[s].ids : emails[f] \in asked
    BY <1>2 DEF WorkInv
  <2>2. Safe'
    BY <1>2, <2>1, SafeDrop
  <2>3. CASE pc'[s] \in {"idle", "rest"}
    BY <2>2, <2>3, IdleWork
  <2>4. CASE pc'[s] = pc[s] /\ loc'[s].ids = loc[s].ids \ {e}
    <3>1. DOMAIN emails' = DOMAIN emails \ {e} /\ \A f \in DOMAIN emails' : emails'[f] = emails[f]
      BY <1>2 DEF Drop
    <3>2. loc'[s].ids \subseteq DOMAIN emails' /\ \A f \in loc'[s].ids : emails'[f] \in asked'
      BY <1>2, <2>1, <2>4, <3>1
    <3>3. QED
      BY <1>2, <2>2, <2>4, <3>2 DEF WorkInv
  <2>5. QED
    BY <1>2, <2>3, <2>4
<1>3. CASE Purge(s)
  <2>1. PICK e \in loc[s].ids :
          /\ Drop({e})
          /\ IF loc[s].ids = {e} THEN Return(s)
             ELSE loc' = [loc EXCEPT ![s].ids = @ \ {e}] /\ UNCHANGED pc
    BY <1>3 DEF Purge
  <2>2. \/ pc'[s] = "idle"
        \/ pc'[s] = pc[s] /\ loc'[s].ids = loc[s].ids \ {e}
    BY <2>1, ReturnMoves DEF MailInv, Jobs
  <2>3. QED
    BY <1>2, <1>3, <2>1, <2>2 DEF Purge
<1>4. CASE DeleteFlagged(s)
  <2>1. PICK e \in loc[s].ids :
          /\ Drop({e}) /\ loc' = [loc EXCEPT ![s].ids = @ \ {e}]
          /\ IF loc[s].ids = {e} THEN Goto(s, "rest") ELSE UNCHANGED pc
    BY <1>4, Zenon DEF DeleteFlagged
  <2>2. \/ pc'[s] = "rest"
        \/ pc'[s] = pc[s] /\ loc'[s].ids = loc[s].ids \ {e}
    BY <2>1 DEF MailInv, Jobs, Goto
  <2>3. QED
    BY <1>2, <1>4, <2>1, <2>2 DEF DeleteFlagged
<1>5. CASE RemoveEmailsWithFlag(s)
  <2>1. Safe'
    BY <1>5, SafeDrop DEF RemoveEmailsWithFlag, Safe
  <2>2. QED
    BY <1>5, <2>1, ReturnMoves, IdleWork DEF RemoveEmailsWithFlag
<1>6. QED
  BY <1>1, <1>3, <1>4, <1>5

\* STORE takes a flag away only from an email of the selected mailbox.
LEMMA FlagLost ==
  ASSUME MailInv, Safe, NEW s \in Sessions, WorkInv(s), FlagEmail(s) \/ AddEmailFlags(s)
  PROVE  Safe' /\ WorkInv(s)'
<1>1. pc[s] \in {"flag", "reflag"} /\ loc[s].ids \subseteq In(selected[s].id)
  BY DEF FlagEmail, AddEmailFlags, WorkInv
<1>2. UNCHANGED <<emails, box, member, arrival>>
  BY DEF FlagEmail, AddEmailFlags, Fail, Leak, dbVars
<1>3. \A b : In(b) \subseteq DOMAIN emails /\ \A e \in In(b) : e \notin Strays
  BY DEF In, Strays, MailInv, Rows, Keys
<1>4. ASSUME NEW e, NextEmail(s, e) PROVE WorkInv(s)'
  <2>1. CASE Return(s)
    BY <2>1, ReturnMoves, IdleWork
  <2>2. CASE ~Return(s)
    <3>1. loc'[s].ids \subseteq loc[s].ids /\ UNCHANGED selected /\ pc'[s] = "flag"
      BY <1>4, <2>2 DEF NextEmail, Goto, MailInv, Jobs, sessVars
    <3>2. In(selected[s].id)' = In(selected[s].id)
      BY <1>2, <3>1 DEF In
    <3>3. QED
      BY <1>1, <3>1, <3>2 DEF WorkInv
  <2>3. QED
    BY <2>1, <2>2
<1>5. CASE FlagEmail(s)
  <2>1. CASE Fail(s)
    <3>1. Safe'
      BY <1>2, <2>1, SafeSame DEF Fail, dbVars
    <3>2. QED
      BY <2>1, <3>1, ReturnMoves, IdleWork DEF Fail
  <2>2. ASSUME NEW e \in loc[s].ids, loc' = [loc EXCEPT ![s].id = e], Goto(s, "reflag"),
               UNCHANGED <<flagged, asked>> \/ ClearFlag(e), UNCHANGED selected
        PROVE  Safe' /\ WorkInv(s)'
    <3>1. e \in DOMAIN emails /\ e \notin Strays
      BY <1>1, <1>3
    <3>2. Safe'
      BY <1>2, <2>2, <3>1, SafeFlag
    <3>3. pc'[s] = "reflag" /\ loc'[s].ids = loc[s].ids
      BY <2>2 DEF Goto, MailInv, Jobs
    <3>4. In(selected[s].id)' = In(selected[s].id)
      BY <1>2, <2>2 DEF In
    <3>5. QED
      BY <1>1, <3>2, <3>3, <3>4 DEF WorkInv
  <2>3. ASSUME NEW e \in loc[s].ids, ClearFlag(e), NextEmail(s, e)
        PROVE  Safe' /\ WorkInv(s)'
    <3>1. e \in DOMAIN emails /\ e \notin Strays
      BY <1>1, <1>3
    <3>2. Safe'
      BY <1>2, <2>3, <3>1, SafeFlag
    <3>3. QED
      BY <1>4, <2>3, <3>2
  <2>4. QED
    BY <1>5, <2>1, <2>2, <2>3 DEF FlagEmail, sessVars
<1>6. CASE AddEmailFlags(s)
  <2>1. CASE Leak(s)
    <3>1. Safe'
      BY <1>2, <2>1, SafeSame DEF Leak
    <3>2. QED
      BY <2>1, <3>1, ReturnMoves, IdleWork DEF Leak
  <2>2. CASE ~Leak(s)
    <3>1. /\ NextEmail(s, loc[s].id)
          /\ \/ UNCHANGED <<flagged, asked>>
             \/ loc[s].id \in DOMAIN emails /\ SetFlag(loc[s].id)
      BY <1>6, <2>2 DEF AddEmailFlags
    <3>2. CASE UNCHANGED <<flagged, asked>>
      BY <1>2, <1>4, <3>1, <3>2, SafeSame
    <3>3. CASE loc[s].id \in DOMAIN emails /\ SetFlag(loc[s].id)
      <4>1. PICK e \in DOMAIN emails : SetFlag(e)
        BY <3>3
      <4>2. Safe'
        BY <1>2, <4>1, SafeFlag
      <4>3. QED
        BY <1>4, <3>1, <4>2
    <3>4. QED
      BY <3>1, <3>2, <3>3
  <2>3. QED
    BY <2>1, <2>2
<1>7. QED
  BY <1>5, <1>6

\* The steps of a command after its first.
LEMMA ContinueLost ==
  ASSUME MailInv, Order, Safe, NEW s \in Sessions, WorkInv(s), Continue(s)
  PROVE  Safe' /\ \A t \in Sessions : WorkInv(t)'
<1>1. CASE SetUserBoxes(s) \/ AddView(s) \/ DeleteView(s)
  <2>1. \A t \in Sessions : pc'[t] = "idle"
    BY <1>1 DEF SetUserBoxes, AddView, DeleteView, Return, Goto, Order, MailInv, Jobs
  <2>2. UNCHANGED <<emails, box, member, flagged, asked, arrival>>
    BY <1>1 DEF SetUserBoxes, AddView, DeleteView, dbVars
  <2>3. QED
    BY <2>1, <2>2, SafeSame, IdleWork
<1>2. CASE ~(SetUserBoxes(s) \/ AddView(s) \/ DeleteView(s))
  <2>1. Works(s)
    BY <1>2, RemovalWorks DEF Continue
  <2>2. Safe' /\ WorkInv(s)'
    <3>1. CASE StepFails(s)
      <4>1. Return(s) /\ UNCHANGED <<emails, box, member, flagged, asked, arrival>>
        BY <3>1 DEF StepFails, Fail, dbVars
      <4>2. QED
        BY <4>1, SafeSame, ReturnMoves, IdleWork
    <3>2. QED
      BY <1>2, <3>1, CopyLost, MoveLost, RemoveLost, PurgeLost, FlagLost DEF Continue
  <2>3. QED
    BY <2>1, <2>2, OneWorks DEF Works
<1>3. QED
  BY <1>1, <1>2

\* Emails arrive while a command is under way.
LEMMA ArriveLost ==
  ASSUME MailInv, Order, Safe, \A s \in Sessions : WorkInv(s), regime = "orderly", Arrive
  PROVE  Safe' /\ \A t \in Sessions : WorkInv(t)'
<1>1. ASSUME NEW m \in Msgs, NEW folder, NEW spam, Deliver(m, folder, spam)
      PROVE  Safe' /\ \A t \in Sessions : WorkInv(t)'
  <2>1. UNCHANGED <<box, flagged, asked, pc, loc, selected>> /\ CanArrive(m)
    BY <1>1 DEF Deliver, callVars, sessVars
  <2>2. CASE arrival' = [arrival EXCEPT ![m] = Arrived("lost")] /\ UNCHANGED <<emails, member>>
    <3>1. ~Came(m)' /\ ~Came(m) /\ \A k \in Msgs : k # m => (Came(k)' <=> Came(k))
      BY <2>1, <2>2 DEF Came, CanArrive, Arrived, MailInv, Rows
    <3>2. Safe'
      BY <2>1, <2>2, <3>1, SafeGrows DEF MailInv, Rows
    <3>3. QED
      BY <2>1, <2>2, <3>2, WorkKept
  <2>3. CASE ~(arrival' = [arrival EXCEPT ![m] = Arrived("lost")] /\ UNCHANGED <<emails, member>>)
    <3>1. PICK b \in DOMAIN box' : StoreIn(m, b)
      BY <1>1, <2>3, Zenon DEF Deliver
    <3>2. PICK a : a.at = "stored" /\ arrival' = [arrival EXCEPT ![m] = a]
      BY <1>1, <2>3, Zenon DEF Deliver
    <3>3. ~Came(m) /\ Came(m)' /\ \A k \in Msgs : k # m => (Came(k)' <=> Came(k))
      BY <2>1, <3>2 DEF CanArrive, Came, MailInv, Rows
    <3>4. /\ Safe' /\ member \subseteq member'
          /\ \A e \in DOMAIN emails : e \in DOMAIN emails' /\ emails'[e] = emails[e]
      BY <2>1, <3>1, <3>3, SafeStore
    <3>5. QED
      BY <2>1, <3>4, WorkKept
  <2>4. QED
    BY <2>2, <2>3
<1>2. ASSUME NEW m \in Msgs, OnReceive(m)
      PROVE  Safe' /\ \A t \in Sessions : WorkInv(t)'
  <2>1. UNCHANGED <<emails, member, box, flagged, asked, pc, loc, selected>>
    BY <1>2 DEF OnReceive, dbVars, callVars, sessVars
  <2>2. \A k \in Msgs : Came(k)' <=> Came(k)
    BY <1>2 DEF OnReceive, Came, Arrived, MailInv, Rows
  <2>3. Safe'
    BY <2>1, <2>2, SafeGrows DEF MailInv, Rows
  <2>4. QED
    BY <2>1, <2>3, WorkKept
<1>3. QED
  BY <1>1, <1>2 DEF Arrive

\* Every step keeps the third invariant.
LEMMA LostStep == MailInv /\ OrderInv /\ LostInv /\ [Next]_vars => LostInv'
<1> SUFFICES ASSUME MailInv, OrderInv, LostInv, [Next]_vars, regime' = "orderly"
             PROVE  Safe' /\ \A t \in Sessions : WorkInv(t)'
  BY DEF LostInv
<1>1. regime = "orderly" /\ Order /\ Safe /\ \A s \in Sessions : WorkInv(s)
  BY SameRegime DEF OrderInv, LostInv
<1>2. ASSUME NEW s \in Sessions, Login(s)
      PROVE  Safe' /\ \A t \in Sessions : WorkInv(t)'
  <2>1. UNCHANGED <<emails, box, member, flagged, asked, arrival>>
    BY <1>2 DEF Login, dbVars
  <2>2. \A t \in Sessions : pc'[t] \in {"idle", "boxes"}
    BY <1>1, <1>2 DEF Login, Orderly, Goto, MailInv, Jobs
  <2>3. QED
    BY <1>1, <2>1, <2>2, SafeSame, IdleWork
<1>3. ASSUME NEW s \in Sessions, Logout(s)
      PROVE  Safe' /\ \A t \in Sessions : WorkInv(t)'
  <2>1. UNCHANGED <<emails, box, member, flagged, asked, arrival, pc, loc>>
    BY <1>3 DEF Logout, dbVars, callVars
  <2>2. pc'[s] = "idle" /\ \A t \in Sessions : t # s => selected'[t] = selected[t]
    BY <1>3 DEF Logout, callVars, MailInv, Conns
  <2>3. \A t \in Sessions : t # s => WorkInv(t)'
    BY <1>1, <2>1, <2>2, WorkKept
  <2>4. QED
    BY <1>1, <2>1, <2>2, <2>3, SafeSame, IdleWork
<1>4. CASE Restart
  <2>1. UNCHANGED <<emails, member, flagged, asked>> /\ DOMAIN box \subseteq DOMAIN box'
    BY <1>4 DEF Restart
  <2>2. \A k \in Msgs : Came(k)' <=> Came(k)
    BY <1>4 DEF Restart, Came, Arrived
  <2>3. \A t \in Sessions : pc'[t] = "idle"
    BY <1>4 DEF Restart
  <2>4. QED
    BY <1>1, <2>1, <2>2, <2>3, SafeGrows, IdleWork DEF MailInv, Rows
<1>5. CASE UNCHANGED vars
  <2>1. UNCHANGED <<emails, box, member, flagged, asked, arrival, pc, loc, selected>>
    BY <1>5 DEF vars, dbVars, sessVars, callVars
  <2>2. QED
    BY <1>1, <2>1, SafeSame, WorkKept
<1>6. QED
  BY <1>1, <1>2, <1>3, <1>4, <1>5, CommandLost, ContinueLost, ArriveLost DEF Next

\* In an orderly regime no email disappears that no client asked to delete, for
\* any number of sessions, emails, commands, failing steps and restarts.
THEOREM NothingIsLost == Spec => []NothingLost
<1>1. Init => LostInv
  BY DEF Init, LostInv, Safe, Came, WorkInv, Strays, Range, Arrived
<1>2. LostInv => NothingLost
  BY DEF LostInv, Safe, Came, NothingLost, Stored
<1>3. QED
  BY <1>1, <1>2, LostStep, OrderInvariant, PTL DEF Spec
=============================================================================
