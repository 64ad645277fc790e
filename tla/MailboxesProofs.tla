--------------------------- MODULE MailboxesProofs ---------------------------
(***************************************************************************)
(* NoStray and TypeOK for any number of sessions, emails and commands, in  *)
(* every regime.                                                           *)
(*                                                                         *)
(* NoStray.  An email becomes a stray in two ways only.                    *)
(* A removal takes it out of its last mailbox; the session then stands     *)
(* before ListEmailsNoMailbox, which lists every stray, whoever made it.   *)
(* Or its mailbox is deleted; then the same transaction deletes the emails *)
(* that are in no other, and the foreign keys say that these others exist. *)
(*                                                                         *)
(* TypeOK.  MailInv adds to it that no id of an email is                   *)
(* larger than the number of emails that came, because the database gives  *)
(* an id again once the row that had the largest one is deleted.           *)
(***************************************************************************)
EXTENDS Mailboxes, FiniteSetTheorems, WellFoundedInduction, TLAPS

\* The foreign keys of mailbox_emails.
Keys == \A p \in member : \E b \in DOMAIN box, e \in DOMAIN emails : p = <<b, e>>

\* Every session has a command, whose variables include a list of ids.
Calls ==
  /\ DOMAIN pc = Sessions /\ DOMAIN loc = Sessions
  /\ \A s \in Sessions : "ids" \in DOMAIN loc[s]

\* The inductive invariant.
StrayInv == Keys /\ Calls /\ NoStray

-----------------------------------------------------------------------------
\* A step of the session s leaves the commands of the others alone.
OnlyOf(s) ==
  /\ DOMAIN pc' = Sessions /\ DOMAIN loc' = Sessions
  /\ "ids" \in DOMAIN loc'[s]
  /\ \A t \in Sessions \ {s} : pc'[t] = pc[t] /\ loc'[t] = loc[t]

\* A step of a session that is not at work on strays makes none.
LEMMA SessionStep ==
  ASSUME StrayInv, NEW s \in Sessions, pc[s] \notin {"orphans", "purge"},
         OnlyOf(s), Keys', Strays' \subseteq Strays, cut => cut'
  PROVE  StrayInv'
<1>1. Calls'
  BY DEF StrayInv, Calls, OnlyOf
<1>2. NoStray'
  <2> SUFFICES ASSUME ~cut', NEW e \in Strays'
               PROVE  \E t \in Sessions : pc'[t] = "orphans" \/ (pc'[t] = "purge" /\ e \in loc'[t].ids)
    BY DEF NoStray
  <2>1. PICK t \in Sessions : pc[t] = "orphans" \/ (pc[t] = "purge" /\ e \in loc[t].ids)
    BY DEF StrayInv, NoStray
  <2>2. t # s
    BY <2>1
  <2>3. QED
    BY <2>1, <2>2 DEF OnlyOf
<1>3. QED
  BY <1>1, <1>2 DEF StrayInv

\* The same for a step of no session.
LEMMA OtherStep ==
  ASSUME StrayInv, UNCHANGED <<pc, loc, cut>>, Keys', Strays' \subseteq Strays
  PROVE  StrayInv'
  BY DEF StrayInv, Calls, NoStray

\* Tables that stay as they are.
LEMMA SameTables ==
  ASSUME StrayInv, UNCHANGED <<emails, box, member>>
  PROVE  Keys' /\ Strays' \subseteq Strays
  BY DEF StrayInv, Keys, Strays

\* Mailboxes may be added or renamed.
LEMMA MoreBoxes ==
  ASSUME StrayInv, UNCHANGED <<emails, member>>, DOMAIN box \subseteq DOMAIN box'
  PROVE  Keys' /\ Strays' \subseteq Strays
  BY DEF StrayInv, Keys, Strays

\* A mailbox is made: the others stay.
LEMMA NewMailboxGrows ==
  ASSUME NEW n, NewMailbox(n) \/ GetOrCreateMailbox(n)
  PROVE  DOMAIN box \subseteq DOMAIN box'
  BY DEF NewMailbox, GetOrCreateMailbox, Extend

\* An email that is stored is in its mailbox.
LEMMA StoreKeeps ==
  ASSUME StrayInv, NEW m, NEW b \in DOMAIN box', StoreIn(m, b),
         DOMAIN box \subseteq DOMAIN box'
  PROVE  Keys' /\ Strays' \subseteq Strays
<1> DEFINE id == NextId(emails)
<1> HIDE DEF id
<1>1. /\ DOMAIN emails' = DOMAIN emails \cup {id}
      /\ member' = member \cup {<<b, id>>}
  BY DEF StoreIn, Extend, id
<1>2. Keys'
  BY <1>1 DEF StrayInv, Keys
<1>3. Strays' \subseteq Strays
  BY <1>1, Zenon DEF Strays
<1>4. QED
  BY <1>2, <1>3

\* Emails that are deleted take their rows with them.
LEMMA DropKeeps ==
  ASSUME StrayInv, NEW ids, Drop(ids), UNCHANGED box
  PROVE  Keys' /\ Strays' \subseteq Strays \ ids
<1>1. /\ DOMAIN emails' = DOMAIN emails \ ids
      /\ member' = {p \in member : p[2] \notin ids}
  BY DEF Drop
<1>2. Keys'
  BY <1>1 DEF StrayInv, Keys
<1>3. Strays' \subseteq Strays \ ids
  BY <1>1 DEF Strays
<1>4. QED
  BY <1>2, <1>3

-----------------------------------------------------------------------------
\* No table has an email at first.
LEMMA StrayStarts == Init => StrayInv
  BY DEF Init, StrayInv, Keys, Calls, NoStray, Strays, NoLoc

\* The forms in which commands change their variables.
LEMMA ReturnOnly ==
  ASSUME StrayInv, NEW s \in Sessions, Return(s)
  PROVE  OnlyOf(s)
  BY DEF StrayInv, Calls, Return, Goto, OnlyOf, NoLoc

\* A command goes on.
LEMMA GotoOnly ==
  ASSUME StrayInv, NEW s \in Sessions, NEW l, Goto(s, l), UNCHANGED loc
  PROVE  OnlyOf(s)
  BY DEF StrayInv, Calls, Goto, OnlyOf

\* No command moves.
LEMMA UnchangedOnly ==
  ASSUME StrayInv, NEW s \in Sessions, UNCHANGED <<pc, loc>>
  PROVE  OnlyOf(s)
  BY DEF StrayInv, Calls, OnlyOf

\* A command panics.
LEMMA PanicKeeps ==
  ASSUME StrayInv, NEW s \in Sessions, pc[s] \notin {"orphans", "purge"}, Panic(s)
  PROVE  StrayInv'
<1>1. OnlyOf(s)
  BY ReturnOnly DEF Panic
<1>2. Keys' /\ Strays' \subseteq Strays
  BY SameTables DEF Panic, dbVars
<1>3. QED
  BY <1>1, <1>2, SessionStep DEF Panic

\* A command lists its emails.
LEMMA ListedKeeps ==
  ASSUME StrayInv, NEW s \in Sessions, pc[s] \notin {"orphans", "purge"},
         NEW cmd, NEW set, NEW target, NEW next, Listed(s, cmd, set, target, next)
  PROVE  StrayInv'
<1>1. CASE Panic(s)
  BY <1>1, PanicKeeps
<1>2. CASE ~Panic(s)
  <2>1. OnlyOf(s)
    BY <1>2 DEF Listed, Goto, OnlyOf, StrayInv, Calls
  <2>2. Keys' /\ Strays' \subseteq Strays
    BY <1>2, SameTables DEF Listed, dbVars
  <2>3. QED
    BY <1>2, <2>1, <2>2, SessionStep DEF Listed
<1>3. QED
  BY <1>1, <1>2

\* A command that starts.
LEMMA CommandKeeps ==
  ASSUME StrayInv, NEW s \in Sessions, Command(s)
  PROVE  StrayInv'
<1>1. ASSUME NEW n, Select(s, n) \/ Status(s, n)
      PROVE  StrayInv'
  <2>1. Keys' /\ Strays' \subseteq Strays
    <3>1. GetOrCreateMailbox(n) /\ UNCHANGED <<emails, member>>
      BY <1>1 DEF Select, Status
    <3>2. QED
      BY <3>1, NewMailboxGrows, MoreBoxes
  <2>2. UNCHANGED <<pc, loc, cut>>
    BY <1>1 DEF Select, Status, callVars
  <2>3. QED
    BY <2>1, <2>2, OtherStep
<1>2. ASSUME NEW n, Delete(s, n)
      PROVE  StrayInv'
  <2> DEFINE b == ViewOf(s, n)
             rest == {p \in member : p[1] # b}
             kept == {e \in DOMAIN emails : \E p \in rest : p[2] = e}
  <2>1. /\ DOMAIN box' = DOMAIN box \ {b}
        /\ DOMAIN emails' = kept
        /\ member' = rest
    BY <1>2 DEF Delete
  <2> HIDE DEF b
  <2>2. Keys'
    <3> SUFFICES ASSUME NEW p \in rest
                 PROVE  \E c \in DOMAIN box', e \in DOMAIN emails' : p = <<c, e>>
      BY <2>1 DEF Keys
    <3>1. PICK c \in DOMAIN box, e \in DOMAIN emails : p = <<c, e>>
      BY DEF StrayInv, Keys
    <3>2. QED
      BY <2>1, <3>1
  <2>3. Strays' = {}
    <3> SUFFICES ASSUME NEW e \in kept
                 PROVE  \E c \in DOMAIN box' : <<c, e>> \in rest
      BY <2>1, Zenon DEF Strays
    <3>1. PICK p \in rest : p[2] = e
      OBVIOUS
    <3>2. PICK c \in DOMAIN box, f \in DOMAIN emails : p = <<c, f>>
      BY DEF StrayInv, Keys
    <3>3. QED
      BY <2>1, <3>1, <3>2
  <2>4. OnlyOf(s) /\ pc[s] = "idle" /\ UNCHANGED cut
    BY <1>2 DEF Delete, Allowed, Goto, OnlyOf, StrayInv, Calls
  <2>5. QED
    BY <2>2, <2>3, <2>4, SessionStep
<1>3. ASSUME NEW n, Create(s, n)
      PROVE  StrayInv'
  <2>1. Keys' /\ Strays' \subseteq Strays
    BY <1>3, NewMailboxGrows, MoreBoxes DEF Create
  <2>2. OnlyOf(s) /\ pc[s] = "idle" /\ UNCHANGED cut
    BY <1>3 DEF Create, Allowed, Goto, OnlyOf, StrayInv, Calls
  <2>3. QED
    BY <2>1, <2>2, SessionStep
<1>4. ASSUME NEW n, NEW new, Rename(s, n, new)
      PROVE  StrayInv'
  <2>1. Keys' /\ Strays' \subseteq Strays
    BY <1>4, MoreBoxes DEF Rename
  <2>2. QED
    BY <1>4, <2>1, OtherStep DEF Rename, callVars
<1>5. ASSUME NEW n, NEW m, AppendEmail(s, m, n)
      PROVE  StrayInv'
  <2>1. Keys' /\ Strays' \subseteq Strays
    <3>1. CASE ViewOf(s, n) \in DOMAIN box
      BY <1>5, <3>1, StoreKeeps DEF AppendEmail
    <3>2. CASE ViewOf(s, n) \notin DOMAIN box
      BY <1>5, <3>2, SameTables DEF AppendEmail
    <3>3. QED
      BY <3>1, <3>2
  <2>2. QED
    BY <1>5, <2>1, OtherStep DEF AppendEmail, callVars
<1>6. ASSUME NEW set, NEW n, NEW cmd, Copy(s, cmd, set, n)
      PROVE  StrayInv'
  BY <1>6, ListedKeeps DEF Copy, OnSet, Allowed
<1>7. ASSUME NEW set, UidExpunge(s, set)
      PROVE  StrayInv'
  <2>1. Keys' /\ Strays' \subseteq Strays
    BY <1>7, SameTables DEF UidExpunge, dbVars
  <2>2. OnlyOf(s) /\ pc[s] = "idle" /\ UNCHANGED cut
    BY <1>7 DEF UidExpunge, OnSet, Allowed, Goto, OnlyOf, StrayInv, Calls
  <2>3. QED
    BY <2>1, <2>2, SessionStep
<1>8. ASSUME NEW set, NEW op, Store(s, op, set)
      PROVE  StrayInv'
  BY <1>8, ListedKeeps DEF Store, OnSet, Allowed
<1>9. ASSUME NEW cmd, ExpungeFlagged(s, cmd)
      PROVE  StrayInv'
  <2>1. Keys' /\ Strays' \subseteq Strays
    BY <1>9, SameTables DEF ExpungeFlagged, dbVars
  <2>2. OnlyOf(s) /\ pc[s] = "idle" /\ UNCHANGED cut
    BY <1>9 DEF ExpungeFlagged, Allowed, Goto, OnlyOf, StrayInv, Calls
  <2>3. QED
    BY <2>1, <2>2, SessionStep
<1>10. ASSUME Unselect(s)
       PROVE  StrayInv'
  BY <1>10, SameTables, OtherStep DEF Unselect, dbVars, callVars
<1>11. QED
  BY <1>1, <1>2, <1>3, <1>4, <1>5, <1>6, <1>7, <1>8, <1>9, <1>10 DEF Command

\* An email is flagged: the tables that matter here stay as they are.
LEMMA NextEmailOnly ==
  ASSUME StrayInv, NEW s \in Sessions, NEW e, NextEmail(s, e)
  PROVE  OnlyOf(s)
<1>1. CASE Return(s)
  BY <1>1, ReturnOnly
<1>2. CASE ~Return(s)
  BY <1>2 DEF NextEmail, Goto, OnlyOf, StrayInv, Calls
<1>3. QED
  BY <1>1, <1>2

\* The steps of STORE make no stray.
LEMMA FlagsKeep ==
  ASSUME StrayInv, NEW s \in Sessions, FlagEmail(s) \/ AddEmailFlags(s)
  PROVE  StrayInv'
<1>1. UNCHANGED <<emails, box, member, cut>> /\ pc[s] \in {"flag", "reflag"}
  BY DEF FlagEmail, AddEmailFlags, Fail, Leak, dbVars
<1>2. OnlyOf(s)
  <2>1. CASE Return(s)
    BY <2>1, ReturnOnly
  <2>2. CASE \E e : NextEmail(s, e)
    BY <2>2, NextEmailOnly
  <2>3. CASE \E e : loc' = [loc EXCEPT ![s].id = e] /\ Goto(s, "reflag")
    BY <2>3 DEF Goto, OnlyOf, StrayInv, Calls
  <2>4. QED
    BY <2>1, <2>2, <2>3 DEF FlagEmail, AddEmailFlags, Fail, Leak
<1>3. QED
  BY <1>1, <1>2, SameTables, SessionStep

\* A removal: its strays are the concern of the session that made them.
LEMMA RemovalKeeps ==
  ASSUME StrayInv, NEW s \in Sessions,
         RemoveMailboxEmails(s) \/ ListEmailsNoMailbox(s) \/ Purge(s)
  PROVE  StrayInv'
<1>1. CASE RemoveMailboxEmails(s)
  <2>1. Calls' /\ pc'[s] = "orphans"
    BY <1>1 DEF RemoveMailboxEmails, Goto, StrayInv, Calls
  <2>2. Keys'
    BY <1>1 DEF RemoveMailboxEmails, StrayInv, Keys
  <2>3. QED
    BY <2>1, <2>2 DEF StrayInv, NoStray
<1>2. CASE ListEmailsNoMailbox(s)
  <2>1. Keys' /\ Strays' = Strays
    BY <1>2 DEF ListEmailsNoMailbox, dbVars, StrayInv, Keys, Strays
  <2>2. CASE Strays = {}
    <3>1. Return(s)
      BY <1>2, <2>2 DEF ListEmailsNoMailbox
    <3>2. Calls'
      BY <3>1 DEF Return, Goto, NoLoc, StrayInv, Calls
    <3>3. QED
      BY <2>1, <2>2, <3>2 DEF StrayInv, NoStray
  <2>3. CASE Strays # {}
    <3>1. loc' = [loc EXCEPT ![s].ids = Strays] /\ Goto(s, "purge")
      BY <1>2, <2>3 DEF ListEmailsNoMailbox
    <3>2. Calls' /\ pc'[s] = "purge" /\ loc'[s].ids = Strays
      BY <3>1 DEF Goto, StrayInv, Calls
    <3>3. QED
      BY <2>1, <3>2 DEF StrayInv, NoStray
  <2>4. QED
    BY <2>2, <2>3
<1>3. CASE Purge(s)
  <2>1. PICK e \in loc[s].ids :
          /\ Drop({e})
          /\ IF loc[s].ids = {e} THEN Return(s)
             ELSE loc' = [loc EXCEPT ![s].ids = @ \ {e}] /\ UNCHANGED pc
    BY <1>3 DEF Purge
  <2>2. Keys' /\ Strays' \subseteq Strays \ {e}
    BY <1>3, <2>1, DropKeeps DEF Purge
  <2>3. OnlyOf(s) /\ Calls'
    <3>1. CASE Return(s)
      BY <3>1, ReturnOnly DEF StrayInv, Calls, OnlyOf
    <3>2. CASE ~Return(s)
      BY <2>1, <3>2 DEF StrayInv, Calls, OnlyOf
    <3>3. QED
      BY <3>1, <3>2
  <2>4. NoStray'
    <3> SUFFICES ASSUME ~cut, NEW f \in Strays'
                 PROVE  \E t \in Sessions : pc'[t] = "orphans" \/ (pc'[t] = "purge" /\ f \in loc'[t].ids)
      BY <1>3 DEF NoStray, Purge
    <3>1. f \in Strays /\ f # e
      BY <2>2
    <3>2. PICK t \in Sessions : pc[t] = "orphans" \/ (pc[t] = "purge" /\ f \in loc[t].ids)
      BY <3>1 DEF StrayInv, NoStray
    <3>3. CASE t # s
      BY <2>3, <3>2, <3>3 DEF OnlyOf
    <3>4. CASE t = s
      <4>1. pc[s] = "purge" /\ f \in loc[s].ids
        BY <1>3, <3>2, <3>4 DEF Purge
      <4>2. loc' = [loc EXCEPT ![s].ids = @ \ {e}] /\ UNCHANGED pc
        BY <2>1, <3>1, <4>1
      <4>3. QED
        BY <3>1, <4>1, <4>2 DEF StrayInv, Calls
    <3>5. QED
      BY <3>3, <3>4
  <2>5. QED
    BY <2>2, <2>3, <2>4 DEF StrayInv
<1>4. QED
  BY <1>1, <1>2, <1>3

\* A command that goes on.
LEMMA ContinueKeeps ==
  ASSUME StrayInv, NEW s \in Sessions, Continue(s)
  PROVE  StrayInv'
<1>1. CASE SetUserBoxes(s)
  BY <1>1, SameTables, GotoOnly, SessionStep DEF SetUserBoxes, dbVars
<1>2. CASE AddView(s) \/ DeleteView(s)
  BY <1>2, SameTables, ReturnOnly, SessionStep DEF AddView, DeleteView, dbVars
<1>3. CASE AddMailboxEmails(s)
  <2> DEFINE new == {loc[s].id} \X loc[s].ids
  <2>1. OnlyOf(s)
    BY <1>3, ReturnOnly, GotoOnly DEF AddMailboxEmails, Leak
  <2>2. Keys' /\ Strays' \subseteq Strays
    <3>1. CASE Leak(s)
      BY <3>1, SameTables DEF Leak
    <3>2. CASE ~Leak(s)
      <4>1. /\ new \subseteq ((DOMAIN box) \X (DOMAIN emails)) \ member
            /\ member' = member \cup new
            /\ UNCHANGED <<emails, box>>
        BY <1>3, <3>2 DEF AddMailboxEmails
      <4>2. Keys'
        BY <4>1 DEF Keys, StrayInv
      <4>3. Strays' \subseteq Strays
        BY <4>1 DEF Strays
      <4>4. QED
        BY <4>2, <4>3
    <3>3. QED
      BY <3>1, <3>2
  <2>3. QED
    BY <1>3, <2>1, <2>2, SessionStep DEF AddMailboxEmails
<1>4. CASE MoveGetIds(s)
  <2>1. CASE Panic(s)
    BY <1>4, <2>1, PanicKeeps DEF MoveGetIds
  <2>2. CASE ~Panic(s)
    <3>1. OnlyOf(s)
      BY <1>4, <2>2 DEF MoveGetIds, Goto, OnlyOf, StrayInv, Calls
    <3>2. QED
      BY <1>4, <2>2, <3>1, SameTables, SessionStep DEF MoveGetIds, dbVars
  <2>3. QED
    BY <2>1, <2>2
<1>5. CASE RemoveMailboxEmails(s) \/ ListEmailsNoMailbox(s) \/ Purge(s)
  BY <1>5, RemovalKeeps
<1>6. CASE DeleteFlagged(s)
  <2>1. PICK e \in loc[s].ids :
          /\ Drop({e})
          /\ loc' = [loc EXCEPT ![s].ids = @ \ {e}]
          /\ Goto(s, "rest") \/ UNCHANGED pc
    BY <1>6, Zenon DEF DeleteFlagged
  <2>2. OnlyOf(s)
    BY <2>1 DEF Goto, OnlyOf, StrayInv, Calls
  <2>3. Keys' /\ Strays' \subseteq Strays
    BY <1>6, <2>1, DropKeeps DEF DeleteFlagged
  <2>4. QED
    BY <1>6, <2>2, <2>3, SessionStep DEF DeleteFlagged
<1>7. CASE RemoveEmailsWithFlag(s)
  <2>1. Keys' /\ Strays' \subseteq Strays
    BY <1>7, DropKeeps DEF RemoveEmailsWithFlag
  <2>2. QED
    BY <1>7, <2>1, ReturnOnly, SessionStep DEF RemoveEmailsWithFlag
<1>8. CASE FlagEmail(s) \/ AddEmailFlags(s)
  BY <1>8, FlagsKeep
<1>9. CASE StepFails(s)
  <2>1. OnlyOf(s) /\ Calls'
    BY <1>9, ReturnOnly DEF StepFails, Fail, OnlyOf, StrayInv, Calls
  <2>2. Keys' /\ Strays' \subseteq Strays
    BY <1>9, SameTables DEF StepFails, Fail, dbVars
  <2>3. CASE pc[s] \in {"orphans", "purge"}
    BY <1>9, <2>1, <2>2, <2>3, Zenon DEF StepFails, StrayInv, NoStray
  <2>4. CASE pc[s] \notin {"orphans", "purge"}
    BY <1>9, <2>1, <2>2, <2>4, SessionStep, Zenon DEF StepFails
  <2>5. QED
    BY <2>3, <2>4
<1>10. QED
  BY <1>1, <1>2, <1>3, <1>4, <1>5, <1>6, <1>7, <1>8, <1>9 DEF Continue

\* An email arrives; a folder that has no mailbox gets one in the same step.
LEMMA ArriveKeeps ==
  ASSUME StrayInv, Arrive
  PROVE  StrayInv'
<1>1. ASSUME NEW m, NEW folder, NEW spam, Deliver(m, folder, spam)
      PROVE  StrayInv'
  <2>1. Keys' /\ Strays' \subseteq Strays
    <3>1. CASE UNCHANGED <<emails, box, member>>
      BY <3>1, SameTables
    <3>2. CASE ~UNCHANGED <<emails, box, member>>
      <4>1. PICK b \in DOMAIN box' : StoreIn(m, b)
        BY <1>1, <3>2 DEF Deliver
      <4>2. UNCHANGED box \/ GetOrCreateMailbox(folder)
        BY <1>1, <3>2 DEF Deliver
      <4>3. DOMAIN box \subseteq DOMAIN box'
        BY <4>2, NewMailboxGrows
      <4>4. QED
        BY <4>1, <4>3, StoreKeeps
    <3>3. QED
      BY <3>1, <3>2
  <2>2. QED
    BY <1>1, <2>1, OtherStep DEF Deliver, callVars
<1>2. ASSUME NEW m, OnReceive(m)
      PROVE  StrayInv'
  BY <1>2, SameTables, OtherStep DEF OnReceive, dbVars, callVars
<1>3. QED
  BY <1>1, <1>2 DEF Arrive

-----------------------------------------------------------------------------
\* Every step keeps the invariant.
LEMMA StrayStep == StrayInv /\ [Next]_vars => StrayInv'
<1> SUFFICES ASSUME StrayInv, [Next]_vars
             PROVE  StrayInv'
  OBVIOUS
<1>1. ASSUME NEW s \in Sessions, Command(s)
      PROVE  StrayInv'
  BY <1>1, CommandKeeps
<1>2. ASSUME NEW s \in Sessions, Login(s)
      PROVE  StrayInv'
  <2>1. Keys' /\ Strays' \subseteq Strays
    BY <1>2, SameTables DEF Login, dbVars
  <2>2. OnlyOf(s)
    BY <1>2, GotoOnly, UnchangedOnly DEF Login
  <2>3. QED
    BY <1>2, <2>1, <2>2, SessionStep DEF Login
<1>3. ASSUME NEW s \in Sessions, Logout(s)
      PROVE  StrayInv'
  BY <1>3, SameTables, OtherStep DEF Logout, dbVars, callVars
<1>4. ASSUME NEW s \in Sessions, Continue(s)
      PROVE  StrayInv'
  BY <1>4, ContinueKeeps
<1>5. CASE Arrive
  BY <1>5, ArriveKeeps
<1>6. CASE Restart
  <2>1. Keys' /\ Strays' \subseteq Strays
    BY <1>6, MoreBoxes DEF Restart
  <2>2. Calls'
    BY <1>6 DEF Restart, Calls, NoLoc
  <2>3. NoStray'
    <3> SUFFICES ASSUME ~cut'
                 PROVE  Strays' = {}
      BY DEF NoStray
    <3>1. ~cut /\ ~\E s \in Sessions : pc[s] \in {"orphans", "purge"}
      BY <1>6, Zenon DEF Restart
    <3>2. Strays = {}
      BY <3>1 DEF StrayInv, NoStray
    <3>3. QED
      BY <2>1, <3>2
  <2>4. QED
    BY <2>1, <2>2, <2>3 DEF StrayInv
<1>7. CASE UNCHANGED vars
  BY <1>7, SameTables, OtherStep DEF vars, dbVars, callVars
<1>8. QED
  BY <1>1, <1>2, <1>3, <1>4, <1>5, <1>6, <1>7 DEF Next

\* For any number of sessions, emails and mailboxes, and in the free regime
\* too: an email that is in no mailbox is about to be deleted by a removal
\* (RemoveMailboxEmails), unless a removal was cut short by an error or a stop.
THEOREM NeverStray == Spec => []NoStray
<1>1. StrayInv => NoStray
  BY DEF StrayInv
<1>2. QED
  BY <1>1, StrayStarts, StrayStep, PTL DEF Spec

-----------------------------------------------------------------------------
\* A set of natural numbers has a least element.
LEMMA Least ==
  ASSUME NEW T \in SUBSET Nat, T # {}
  PROVE  \E n \in T : \A k \in T : n <= k
<1>1. PICK n \in T : \A k \in T : ~(<<k, n>> \in OpToRel(<, Nat))
  BY NatLessThanWellFounded, WFMin, Zenon
<1>2. \A k \in T : ~(k < n)
  BY <1>1 DEF OpToRel
<1>3. QED
  BY <1>2

\* A bounded one has a largest.
LEMMA Largest ==
  ASSUME NEW n \in Nat, NEW S \in SUBSET (1..n), S # {}
  PROVE  Max(S) \in S /\ \A y \in S : y <= Max(S)
<1> DEFINE T == {n - y : y \in S}
<1>1. T \in SUBSET Nat /\ T # {}
  OBVIOUS
<1> HIDE DEF T
<1>2. PICK k \in T : \A j \in T : k <= j
  BY <1>1, Least
<1>3. PICK x \in S : k = n - x
  BY <1>2 DEF T
<1>4. \A y \in S : n - x <= n - y
  BY <1>2, <1>3, Zenon DEF T
<1>5. \A y \in S : x >= y
  BY <1>4
<1>6. \E z \in S : \A y \in S : z >= y
  BY <1>5
<1>7. Max(S) \in S /\ \A y \in S : Max(S) >= y
  BY <1>6, Zenon DEF Max
<1>8. QED
  BY <1>7

\* The id of a new row is not in use, and one more than the number of rows that
\* there ever were is enough.
LEMMA NextIdIsNew ==
  ASSUME NEW f, NEW n \in Nat, DOMAIN f \subseteq 1..n
  PROVE  NextId(f) \in 1..n+1 /\ NextId(f) \notin DOMAIN f
<1>1. CASE DOMAIN f = {}
  BY <1>1 DEF NextId
<1>2. CASE DOMAIN f # {}
  <2>1. DOMAIN f \in SUBSET (1..n)
    OBVIOUS
  <2>2. Max(DOMAIN f) \in DOMAIN f /\ \A y \in DOMAIN f : y <= Max(DOMAIN f)
    BY <1>2, <2>1, Largest, Zenon
  <2>3. NextId(f) = Max(DOMAIN f) + 1
    BY <1>2 DEF NextId
  <2>4. QED
    BY <2>2, <2>3
<1>3. QED
  BY <1>1, <1>2

-----------------------------------------------------------------------------
\* The emails that have come.  Their number bounds the ids: ids are used again,
\* but one is never larger than the number of emails that came.
Here == {n \in Msgs : arrival[n].at # "away"}

Rows ==
  /\ regime \in Regimes
  /\ IsFiniteSet(Here) /\ Cardinality(Here) <= MaxEmails[regime]
  /\ DOMAIN emails \subseteq 1..Cardinality(Here) /\ Range(emails) \subseteq Msgs
  /\ DOMAIN box \subseteq 1..MaxBox /\ Range(box) \subseteq Names
  /\ Keys /\ flagged \subseteq DOMAIN emails
  /\ asked \subseteq Msgs
  /\ DOMAIN arrival = Msgs

Conns ==
  /\ leaked \in BOOLEAN /\ cut \in BOOLEAN
  /\ boxes \in Sessions \cup {None}
  /\ mine \in [Sessions -> Sessions \cup {None}]
  /\ DOMAIN views = Sessions /\ DOMAIN selected = Sessions
  /\ \A s \in Sessions :
       /\ DOMAIN views[s] \subseteq Names \cup {NoName}
       /\ selected[s] # None => mine[s] # None
       /\ mine[s] # None => boxes # None
  /\ \A m \in Msgs : arrival[m].folder \in {NoName, Folder}

Jobs ==
  /\ pc \in [Sessions -> Steps] /\ DOMAIN loc = Sessions
  /\ \A s \in Sessions :
       /\ {"cmd", "set", "ids", "name", "id"} \subseteq DOMAIN loc[s]
       /\ loc[s].cmd \in Commands \cup {"none"}
       /\ loc[s].name \in Names \cup {NoName}

MailInv == Rows /\ Conns /\ Jobs

\* The ids that are given next are new and within their bounds.
LEMMA HereIsCounted ==
  ASSUME Rows
  PROVE  /\ Cardinality(Here) \in Nat /\ MaxEmails[regime] \in Nat
         /\ NextId(emails) \in 1..Cardinality(Here) + 1 /\ NextId(emails) \notin DOMAIN emails
         /\ NextId(box) \in 1..MaxBox + 1 /\ NextId(box) \notin DOMAIN box
<1>1. Cardinality(Here) \in Nat
  BY FS_CardinalityType DEF Rows
<1>2. NextId(emails) \in 1..Cardinality(Here) + 1 /\ NextId(emails) \notin DOMAIN emails
  BY <1>1, NextIdIsNew DEF Rows
<1>3. NextId(box) \in 1..MaxBox + 1 /\ NextId(box) \notin DOMAIN box
  BY MailboxesAreBounded, NextIdIsNew DEF Rows
<1>4. QED
  BY <1>1, <1>2, <1>3, EmailsAreBounded DEF Rows

\* The invariant implies the types.
LEMMA MailIsTyped == MailInv => TypeOK
<1> SUFFICES ASSUME MailInv PROVE TypeOK
  OBVIOUS
<1>1. DOMAIN emails \subseteq Ids
  BY HereIsCounted DEF MailInv, Rows, Ids
<1>2. member \subseteq (DOMAIN box) \X (DOMAIN emails)
  BY DEF MailInv, Rows, Keys
<1>3. QED
  BY <1>1, <1>2 DEF MailInv, Rows, Conns, Jobs, TypeOK

\* It holds at the start.
LEMMA MailStarts == Init => MailInv
<1> SUFFICES ASSUME Init PROVE MailInv
  OBVIOUS
<1>1. Here = {} /\ IsFiniteSet(Here) /\ Cardinality(Here) = 0
  BY FS_EmptySet, Zenon DEF Init, Here, Arrived
<1>2. DOMAIN emails = {} /\ Range(emails) = {}
  BY DEF Init, Range
<1>3. DOMAIN box \subseteq 1..MaxBox /\ Range(box) \subseteq Names
  BY MailboxesAreBounded DEF Init, Range, Names, InboxMailbox, JunkMailbox
<1>4. Rows
  <2>1. /\ regime \in Regimes /\ member = {} /\ flagged = {} /\ asked = {}
        /\ DOMAIN arrival = Msgs
    BY DEF Init
  <2>2. QED
    BY <1>1, <1>2, <1>3, <2>1, EmailsAreBounded DEF Rows, Keys
<1>5. Conns
  BY Zenon DEF Init, Conns, Arrived
<1>6. Jobs
  BY DEF Init, Jobs, NoLoc, Steps
<1>7. QED
  BY <1>4, <1>5, <1>6 DEF MailInv

-----------------------------------------------------------------------------
\* The tables, by what a step does to them.
LEMMA RowsSame ==
  ASSUME Rows, UNCHANGED <<emails, box, member, regime>>,
         flagged' \subseteq DOMAIN emails, asked' \subseteq Msgs,
         DOMAIN arrival' = Msgs, \A m \in Msgs : arrival'[m].at = "away" <=> arrival[m].at = "away"
  PROVE  Rows'
<1>1. Here' = Here
  BY DEF Here
<1>2. QED
  BY <1>1 DEF Rows, Keys

\* A step that leaves the tables alone.
LEMMA RowsRest ==
  ASSUME Rows, UNCHANGED <<emails, box, member, flagged, asked, arrival, regime>>
  PROVE  Rows'
  BY RowsSame DEF Rows

\* A new mailbox.
LEMMA RowsNew ==
  ASSUME Rows, NEW n \in Names, NewMailbox(n)
  PROVE  DOMAIN box' \subseteq 1..MaxBox /\ Range(box') \subseteq Names
<1>1. NextId(box) \in 1..MaxBox /\ box' = Extend(box, NextId(box), n)
  BY HereIsCounted, MailboxesAreBounded DEF NewMailbox
<1>2. QED
  BY <1>1 DEF Rows, Extend, Range

\* A mailbox that is there, or made.
LEMMA RowsGet ==
  ASSUME Rows, NEW n \in Names \cup {NoName}, GetOrCreateMailbox(n)
  PROVE  DOMAIN box' \subseteq 1..MaxBox /\ Range(box') \subseteq Names
<1>1. CASE UNCHANGED box
  BY <1>1 DEF Rows
<1>2. CASE n \in Names /\ NewMailbox(n)
  BY <1>2, RowsNew
<1>3. QED
  BY <1>1, <1>2 DEF GetOrCreateMailbox

\* The commands that look up a mailbox.
LEMMA RowsBox ==
  ASSUME Rows, NEW n \in Names \cup {NoName},
         (n \in Names /\ NewMailbox(n)) \/ GetOrCreateMailbox(n),
         UNCHANGED <<emails, member, flagged, asked, arrival, regime>>
  PROVE  Rows'
<1>1. Here' = Here
  BY DEF Here
<1>2. DOMAIN box' \subseteq 1..MaxBox /\ Range(box') \subseteq Names
  BY RowsNew, RowsGet
<1>3. DOMAIN box \subseteq DOMAIN box'
  BY NewMailboxGrows
<1>4. QED
  BY <1>1, <1>2, <1>3 DEF Rows, Keys

\* An email comes.
LEMMA HereGrows ==
  ASSUME Rows, NEW m \in Msgs, CanArrive(m), NEW a, a.at # "away",
         arrival' = [arrival EXCEPT ![m] = a], UNCHANGED regime
  PROVE  /\ IsFiniteSet(Here') /\ Cardinality(Here') = Cardinality(Here) + 1
         /\ Cardinality(Here') <= MaxEmails[regime] /\ DOMAIN arrival' = Msgs
<1>1. Here' = Here \cup {m} /\ m \notin Here /\ DOMAIN arrival' = Msgs
  BY DEF Here, CanArrive, Rows
<1>2. IsFiniteSet(Here') /\ Cardinality(Here') = Cardinality(Here) + 1
  BY <1>1, FS_AddElement DEF Rows
<1>3. Cardinality(Here) < MaxEmails[regime]
  BY DEF CanArrive, Here
<1>4. QED
  BY <1>1, <1>2, <1>3, HereIsCounted

\* An email is stored with its membership.
LEMMA RowsStore ==
  ASSUME Rows, NEW m \in Msgs, CanArrive(m), NEW a, a.at # "away",
         arrival' = [arrival EXCEPT ![m] = a],
         NEW b \in DOMAIN box', StoreIn(m, b), DOMAIN box \subseteq DOMAIN box',
         DOMAIN box' \subseteq 1..MaxBox, Range(box') \subseteq Names,
         UNCHANGED <<flagged, asked, regime>>
  PROVE  Rows'
<1> DEFINE id == NextId(emails)
<1>1. /\ id \in 1..Cardinality(Here) + 1 /\ id \notin DOMAIN emails /\ Cardinality(Here) \in Nat
  BY HereIsCounted
<1>2. /\ IsFiniteSet(Here') /\ Cardinality(Here') = Cardinality(Here) + 1
      /\ Cardinality(Here') <= MaxEmails[regime] /\ DOMAIN arrival' = Msgs
  BY HereGrows, Zenon
<1> HIDE DEF id
<1>3. /\ DOMAIN emails' = DOMAIN emails \cup {id} /\ Range(emails') \subseteq Range(emails) \cup {m}
      /\ member' = member \cup {<<b, id>>}
  BY DEF StoreIn, Extend, Range, id
<1>4. DOMAIN emails' \subseteq 1..Cardinality(Here')
  BY <1>1, <1>2, <1>3 DEF Rows
<1>5. Keys'
  BY <1>3 DEF Rows, Keys
<1>6. QED
  BY <1>2, <1>3, <1>4, <1>5 DEF Rows

\* An email that was not stored.
LEMMA RowsLost ==
  ASSUME Rows, NEW m \in Msgs, CanArrive(m), NEW a, a.at # "away",
         arrival' = [arrival EXCEPT ![m] = a],
         UNCHANGED <<emails, box, member, flagged, asked, regime>>
  PROVE  Rows'
<1>1. /\ IsFiniteSet(Here') /\ Cardinality(Here') = Cardinality(Here) + 1
      /\ Cardinality(Here') <= MaxEmails[regime] /\ DOMAIN arrival' = Msgs
  BY HereGrows, Zenon
<1>2. DOMAIN emails \subseteq 1..Cardinality(Here')
  BY <1>1, HereIsCounted DEF Rows
<1>3. QED
  BY <1>1, <1>2 DEF Rows, Keys

\* Emails are deleted, with their memberships and flags.
LEMMA RowsDrop ==
  ASSUME Rows, NEW ids, Drop(ids), UNCHANGED <<box, asked, arrival, regime>>
  PROVE  Rows'
<1>1. Here' = Here
  BY DEF Here
<1>2. DOMAIN emails' = DOMAIN emails \ ids /\ Range(emails') \subseteq Range(emails)
  BY DEF Drop, Range
<1>3. Keys'
  BY <1>2 DEF Drop, Rows, Keys
<1>4. flagged' \subseteq DOMAIN emails'
  BY <1>2 DEF Drop, Rows
<1>5. QED
  BY <1>1, <1>2, <1>3, <1>4 DEF Rows

\* Memberships of what is there are added, or taken away.
LEMMA RowsMember ==
  ASSUME Rows, Keys', asked' \subseteq Msgs, UNCHANGED <<emails, box, flagged, arrival, regime>>
  PROVE  Rows'
<1>1. Here' = Here
  BY DEF Here
<1>2. QED
  BY <1>1 DEF Rows

-----------------------------------------------------------------------------
\* The commands: one session moves on.
LEMMA JobsStep ==
  ASSUME Jobs, NEW s \in Sessions, NEW l \in Steps, Goto(s, l),
         DOMAIN loc' = Sessions, \A t \in Sessions : t # s => loc'[t] = loc[t],
         {"cmd", "set", "ids", "name", "id"} \subseteq DOMAIN loc'[s],
         loc'[s].cmd \in Commands \cup {"none"}, loc'[s].name \in Names \cup {NoName}
  PROVE  Jobs'
<1>1. pc' \in [Sessions -> Steps]
  BY DEF Jobs, Goto
<1>2. ASSUME NEW t \in Sessions
      PROVE  /\ {"cmd", "set", "ids", "name", "id"} \subseteq DOMAIN loc'[t]
             /\ loc'[t].cmd \in Commands \cup {"none"} /\ loc'[t].name \in Names \cup {NoName}
  BY DEF Jobs
<1>3. QED
  BY <1>1, <1>2 DEF Jobs

\* A command ends.
LEMMA JobsReturn ==
  ASSUME Jobs, NEW s \in Sessions, Return(s)
  PROVE  Jobs'
<1>1. Goto(s, "idle") /\ "idle" \in Steps
  BY DEF Return, Steps
<1>2. /\ DOMAIN loc' = Sessions /\ loc'[s] = NoLoc
      /\ \A t \in Sessions : t # s => loc'[t] = loc[t]
  BY DEF Jobs, Return
<1>3. QED
  BY <1>1, <1>2, JobsStep DEF NoLoc

\* A command goes on with the variables it has.
LEMMA JobsGoto ==
  ASSUME Jobs, NEW s \in Sessions, NEW l \in Steps, Goto(s, l), UNCHANGED loc
  PROVE  Jobs'
  BY JobsStep DEF Jobs

\* No command moves.
LEMMA JobsRest ==
  ASSUME Jobs, UNCHANGED <<pc, loc>>
  PROVE  Jobs'
  BY DEF Jobs

\* A field of the variables changes.
LEMMA JobsIds ==
  ASSUME Jobs, NEW s \in Sessions, NEW l \in Steps, Goto(s, l),
         NEW x, loc' = [loc EXCEPT ![s].ids = x]
  PROVE  Jobs'
<1>1. /\ DOMAIN loc' = Sessions /\ loc'[s] = [loc[s] EXCEPT !.ids = x]
      /\ \A t \in Sessions : t # s => loc'[t] = loc[t]
  BY DEF Jobs
<1>2. QED
  BY <1>1, JobsStep DEF Jobs

\* The sessions and their views, by what a step does to them.
LEMMA ConnsRest ==
  ASSUME Conns, UNCHANGED <<boxes, views, mine, selected>>,
         leaked' \in BOOLEAN, cut' \in BOOLEAN,
         \A m \in Msgs : arrival'[m].folder \in {NoName, Folder}
  PROVE  Conns'
  BY DEF Conns

\* A session selects a mailbox, or none.
LEMMA ConnsSelect ==
  ASSUME Conns, NEW s \in Sessions, NEW x, x = None \/ mine[s] # None,
         selected' = [selected EXCEPT ![s] = x], UNCHANGED <<boxes, views, mine, leaked, cut, arrival>>
  PROVE  Conns'
<1>1. DOMAIN selected' = Sessions /\ \A t \in Sessions : selected'[t] # None => mine[t] # None
  BY DEF Conns
<1>2. QED
  BY <1>1 DEF Conns

\* A session ends.
LEMMA ConnsClose ==
  ASSUME Conns, NEW s \in Sessions,
         mine' = [mine EXCEPT ![s] = None], selected' = [selected EXCEPT ![s] = None],
         UNCHANGED <<boxes, views, leaked, cut, arrival>>
  PROVE  Conns'
<1>1. /\ DOMAIN selected' = Sessions /\ mine' \in [Sessions -> Sessions \cup {None}]
      /\ \A t \in Sessions : /\ selected'[t] # None => mine'[t] # None
                             /\ mine'[t] # None => mine[t] # None
  BY DEF Conns
<1>2. QED
  BY <1>1 DEF Conns

\* Views are added or taken away.
LEMMA ConnsViews ==
  ASSUME Conns, DOMAIN views' = Sessions,
         \A t \in Sessions : DOMAIN views'[t] \subseteq Names \cup {NoName},
         \A m \in Msgs : arrival'[m].folder \in {NoName, Folder},
         UNCHANGED <<boxes, mine, selected, leaked, cut>>
  PROVE  Conns'
  BY DEF Conns

-----------------------------------------------------------------------------
\* A handler panics.
LEMMA PanicTypes ==
  ASSUME MailInv, NEW s \in Sessions, Panic(s), UNCHANGED <<arrival, regime>>
  PROVE  MailInv'
<1>1. Rows'
  BY RowsRest DEF MailInv, Panic, dbVars
<1>2. Conns'
  BY ConnsClose, Zenon DEF MailInv, Panic, dbVars, viewVars
<1>3. Jobs'
  BY JobsReturn DEF MailInv, Panic
<1>4. QED
  BY <1>1, <1>2, <1>3 DEF MailInv

\* Only the command of a session changes.
LEMMA JobTypes ==
  ASSUME MailInv, UNCHANGED <<dbVars, viewVars, sessVars, arrival, asked, regime>>,
         cut' \in BOOLEAN, Jobs'
  PROVE  MailInv'
<1>1. Rows'
  BY RowsRest DEF MailInv, dbVars
<1>2. Conns'
  BY ConnsRest DEF MailInv, dbVars, viewVars, sessVars, Conns
<1>3. QED
  BY <1>1, <1>2 DEF MailInv

\* The emails of a set are listed.
LEMMA ListedTypes ==
  ASSUME MailInv, NEW s \in Sessions, NEW cmd \in Commands, NEW set, NEW target, NEW next \in Steps,
         Listed(s, cmd, set, target, next), UNCHANGED <<arrival, regime>>
  PROVE  MailInv'
<1>1. CASE Panic(s)
  BY <1>1, PanicTypes
<1>2. CASE ~Panic(s)
  <2> DEFINE new == [cmd |-> cmd, name |-> NoName, id |-> target,
                     set |-> IF cmd = "move" THEN set ELSE NoLoc.set,
                     ids |-> ListMailboxEmails(selected[s].id, set)]
  <2>1. /\ loc' = [loc EXCEPT ![s] = new] /\ Goto(s, next)
        /\ UNCHANGED <<dbVars, viewVars, sessVars, asked, cut>>
    BY <1>2 DEF Listed
  <2>2. /\ {"cmd", "set", "ids", "name", "id"} \subseteq DOMAIN new
        /\ new.cmd \in Commands /\ new.name = NoName
    OBVIOUS
  <2> HIDE DEF new
  <2>3. /\ DOMAIN loc' = Sessions /\ loc'[s] = new
        /\ \A t \in Sessions : t # s => loc'[t] = loc[t]
    BY <2>1 DEF MailInv, Jobs
  <2>4. Jobs'
    BY <2>1, <2>2, <2>3, JobsStep DEF MailInv
  <2>5. cut' \in BOOLEAN
    BY <2>1 DEF MailInv, Conns
  <2>6. QED
    BY <2>1, <2>4, <2>5, JobTypes
<1>3. QED
  BY <1>1, <1>2

\* Commands that make, take away or rename a mailbox.
LEMMA BoxTypes ==
  ASSUME MailInv, NEW s \in Sessions, NEW n \in Names \cup {NoName}, NEW new \in Names,
         Select(s, n) \/ Status(s, n) \/ Create(s, new) \/ Delete(s, n) \/ Rename(s, n, new)
  PROVE  MailInv'
<1>1. CASE Select(s, n)
  <2>1. Rows'
    BY <1>1, RowsBox DEF Select, MailInv
  <2>2. Conns'
    BY <1>1, ConnsSelect, Zenon DEF Select, Allowed, MailInv, viewVars
  <2>3. Jobs'
    BY <1>1, JobsRest DEF Select, MailInv, callVars
  <2>4. QED
    BY <2>1, <2>2, <2>3 DEF MailInv
<1>2. CASE Status(s, n)
  <2>1. Rows'
    BY <1>2, RowsBox DEF Status, MailInv
  <2>2. Conns'
    BY <1>2, ConnsRest DEF Status, MailInv, viewVars, sessVars, Conns
  <2>3. Jobs'
    BY <1>2, JobsRest DEF Status, MailInv, callVars
  <2>4. QED
    BY <2>1, <2>2, <2>3 DEF MailInv
<1>3. CASE Create(s, new)
  <2>1. Rows'
    BY <1>3, RowsBox DEF Create, MailInv
  <2>2. Conns'
    BY <1>3, ConnsRest DEF Create, MailInv, viewVars, sessVars, Conns
  <2>3. /\ DOMAIN loc' = Sessions /\ \A t \in Sessions : t # s => loc'[t] = loc[t]
        /\ DOMAIN loc'[s] = DOMAIN loc[s] /\ loc'[s].cmd = loc[s].cmd /\ loc'[s].name = new
        /\ Goto(s, "cache") /\ "cache" \in Steps
    BY <1>3 DEF Create, MailInv, Jobs, Steps
  <2>4. Jobs'
    <3>1. /\ {"cmd", "set", "ids", "name", "id"} \subseteq DOMAIN loc'[s]
          /\ loc'[s].cmd \in Commands \cup {"none"}
      BY <2>3 DEF MailInv, Jobs
    <3>2. QED
      BY <2>3, <3>1, JobsStep DEF MailInv
  <2>5. QED
    BY <2>1, <2>2, <2>4 DEF MailInv
<1>4. CASE Delete(s, n)
  <2> DEFINE b == ViewOf(s, n)
             rest == {p \in member : p[1] # b}
             kept == {e \in DOMAIN emails : \E p \in rest : p[2] = e}
  <2>1. /\ box' = [i \in DOMAIN box \ {b} |-> box[i]] /\ emails' = [e \in kept |-> emails[e]]
        /\ member' = rest /\ flagged' = flagged \cap kept
        /\ UNCHANGED <<leaked, viewVars, sessVars, arrival, cut, regime>>
    BY <1>4 DEF Delete
  <2>2. asked' \subseteq Msgs
    BY <1>4, Zenon DEF Delete, MailInv, Rows, In, Range
  <2> HIDE DEF b
  <2>3. /\ DOMAIN box' \subseteq DOMAIN box /\ Range(box') \subseteq Range(box)
        /\ DOMAIN emails' = kept /\ Range(emails') \subseteq Range(emails)
    BY <2>1 DEF Range
  <2>4. Keys'
    <3> SUFFICES ASSUME NEW p \in rest
                 PROVE  \E c \in DOMAIN box', e \in DOMAIN emails' : p = <<c, e>>
      BY <2>1 DEF Keys
    <3>1. PICK c \in DOMAIN box, e \in DOMAIN emails : p = <<c, e>>
      BY DEF MailInv, Rows, Keys
    <3>2. QED
      BY <2>1, <3>1
  <2>5. Here' = Here
    BY <2>1 DEF Here
  <2>6. Rows'
    BY <2>1, <2>2, <2>3, <2>4, <2>5, Zenon DEF MailInv, Rows
  <2>7. Conns'
    BY <2>1, ConnsRest DEF MailInv, viewVars, sessVars, Conns
  <2>8. /\ DOMAIN loc' = Sessions /\ \A t \in Sessions : t # s => loc'[t] = loc[t]
        /\ DOMAIN loc'[s] = DOMAIN loc[s] /\ loc'[s].cmd = loc[s].cmd /\ loc'[s].name = n
        /\ Goto(s, "uncache") /\ "uncache" \in Steps
    BY <1>4 DEF Delete, MailInv, Jobs, Steps
  <2>9. Jobs'
    <3>1. /\ {"cmd", "set", "ids", "name", "id"} \subseteq DOMAIN loc'[s]
          /\ loc'[s].cmd \in Commands \cup {"none"}
      BY <2>8 DEF MailInv, Jobs
    <3>2. QED
      BY <2>8, <3>1, JobsStep DEF MailInv
  <2>10. QED
    BY <2>6, <2>7, <2>9 DEF MailInv
<1>5. CASE Rename(s, n, new)
  <2>1. /\ DOMAIN box' = DOMAIN box /\ Range(box') \subseteq Range(box) \cup {new}
        /\ UNCHANGED <<emails, member, flagged, asked, arrival, regime>>
    BY <1>5 DEF Rename, Range
  <2>2. Here' = Here
    BY <2>1 DEF Here
  <2>3. Rows'
    BY <2>1, <2>2 DEF MailInv, Rows, Keys
  <2>4. Conns'
    BY <1>5, ConnsRest DEF Rename, MailInv, viewVars, sessVars, Conns
  <2>5. Jobs'
    BY <1>5, JobsRest DEF Rename, MailInv, callVars
  <2>6. QED
    BY <2>3, <2>4, <2>5 DEF MailInv
<1>6. QED
  BY <1>1, <1>2, <1>3, <1>4, <1>5

\* The other commands.
LEMMA CommandTypes ==
  ASSUME MailInv, NEW s \in Sessions, Command(s)
  PROVE  MailInv'
<1> USE DEF Steps
<1>1. ASSUME NEW n \in Names \cup {NoName}, Select(s, n) \/ Status(s, n) \/ Delete(s, n)
      PROVE  MailInv'
  <2>1. INBOX \in Names
    BY DEF Names
  <2>2. QED
    BY <1>1, <2>1, BoxTypes
<1>2. ASSUME NEW n \in Names, Create(s, n)
      PROVE  MailInv'
  BY <1>2, BoxTypes
<1>3. ASSUME NEW n \in Names \cup {NoName}, NEW new \in Names, Rename(s, n, new)
      PROVE  MailInv'
  BY <1>3, BoxTypes
<1>4. ASSUME NEW n \in Names \cup {NoName}, NEW m \in Msgs, AppendEmail(s, m, n)
      PROVE  MailInv'
  <2>1. Rows'
    <3>1. CASE ViewOf(s, n) \in DOMAIN box
      <4>1. /\ StoreIn(m, ViewOf(s, n)) /\ CanArrive(m)
            /\ arrival' = [arrival EXCEPT ![m] = Arrived("done")]
            /\ UNCHANGED <<box, flagged, asked, regime>>
        BY <1>4, <3>1 DEF AppendEmail
      <4>2. Arrived("done").at # "away"
        BY DEF Arrived
      <4>3. Rows /\ DOMAIN box \subseteq 1..MaxBox /\ Range(box) \subseteq Names
        BY DEF MailInv, Rows
      <4>4. PICK b \in DOMAIN box' : StoreIn(m, b)
        BY <3>1, <4>1
      <4>5. QED
        BY <4>1, <4>2, <4>3, <4>4, RowsStore, Zenon
    <3>2. CASE ViewOf(s, n) \notin DOMAIN box
      BY <1>4, <3>2, RowsRest DEF AppendEmail, MailInv
    <3>3. QED
      BY <3>1, <3>2
  <2>2. \A k \in Msgs : arrival'[k].folder \in {NoName, Folder}
    BY <1>4 DEF AppendEmail, Arrived, MailInv, Conns, Rows
  <2>3. leaked' \in BOOLEAN /\ cut' \in BOOLEAN
    BY <1>4, Zenon DEF AppendEmail, MailInv, Conns
  <2>4. Conns'
    BY <1>4, <2>2, <2>3, ConnsRest DEF AppendEmail, MailInv, viewVars, sessVars
  <2>5. Jobs'
    BY <1>4, JobsRest DEF AppendEmail, MailInv, callVars
  <2>6. QED
    BY <2>1, <2>4, <2>5 DEF MailInv
<1>5. ASSUME NEW set, NEW n, NEW cmd \in {"copy", "move"}, Copy(s, cmd, set, n)
      PROVE  MailInv'
  BY <1>5, ListedTypes DEF Copy, Commands
<1>6. ASSUME NEW set, UidExpunge(s, set)
      PROVE  MailInv'
  <2>1. PICK x : loc' = [loc EXCEPT ![s].cmd = "expunge", ![s].ids = x]
    BY <1>6, Zenon DEF UidExpunge
  <2>2. /\ DOMAIN loc' = Sessions /\ \A t \in Sessions : t # s => loc'[t] = loc[t]
        /\ DOMAIN loc'[s] = DOMAIN loc[s] /\ loc'[s].cmd = "expunge" /\ loc'[s].name = loc[s].name
    BY <2>1 DEF MailInv, Jobs
  <2>3. Jobs'
    BY <1>6, <2>2, JobsStep DEF UidExpunge, MailInv, Jobs, Commands
  <2>4. QED
    BY <1>6, <2>3, JobTypes DEF UidExpunge, MailInv, Conns
<1>7. ASSUME NEW set, NEW op \in {"add", "del", "set", "clear"}, Store(s, op, set)
      PROVE  MailInv'
  BY <1>7, ListedTypes DEF Store, Commands
<1>8. ASSUME NEW cmd \in {"expunge", "close"}, ExpungeFlagged(s, cmd)
      PROVE  MailInv'
  <2>1. /\ DOMAIN loc' = Sessions /\ \A t \in Sessions : t # s => loc'[t] = loc[t]
        /\ DOMAIN loc'[s] = DOMAIN loc[s] /\ loc'[s].cmd = cmd /\ loc'[s].name = loc[s].name
    BY <1>8 DEF ExpungeFlagged, MailInv, Jobs
  <2>2. PICK l \in Steps : Goto(s, l)
    BY <1>8 DEF ExpungeFlagged
  <2>3. Jobs'
    BY <2>1, <2>2, JobsStep DEF MailInv, Jobs, Commands
  <2>4. QED
    BY <1>8, <2>3, JobTypes DEF ExpungeFlagged, MailInv, Conns
<1>9. ASSUME Unselect(s)
      PROVE  MailInv'
  <2>1. Rows'
    BY <1>9, RowsRest DEF Unselect, MailInv, dbVars
  <2>2. Conns'
    BY <1>9, ConnsSelect, Zenon DEF Unselect, MailInv, dbVars, viewVars
  <2>3. Jobs'
    BY <1>9, JobsRest DEF Unselect, MailInv, callVars
  <2>4. QED
    BY <2>1, <2>2, <2>3 DEF MailInv
<1>10. QED
  BY <1>1, <1>2, <1>3, <1>4, <1>5, <1>6, <1>7, <1>8, <1>9 DEF Command

\* Sessions come and go.
LEMMA LoginTypes ==
  ASSUME MailInv, NEW s \in Sessions, Login(s) \/ Logout(s) \/ SetUserBoxes(s)
  PROVE  MailInv'
<1>1. Rows'
  BY RowsRest DEF Login, Logout, SetUserBoxes, MailInv, dbVars
<1>2. CASE Login(s)
  <2>1. Jobs'
    BY <1>2, JobsRest, JobsGoto DEF Login, MailInv, Steps
  <2>2. CASE boxes # None /\ mine' = [mine EXCEPT ![s] = boxes] /\ UNCHANGED <<views, pc>>
    <3>1. mine' \in [Sessions -> Sessions \cup {None}]
      BY <2>2 DEF MailInv, Conns
    <3>2. /\ \A t \in Sessions : selected[t] # None => mine'[t] # None
          /\ UNCHANGED <<leaked, cut, boxes, selected, arrival, views>>
      BY <1>2, <2>2 DEF MailInv, Conns, Login, dbVars
    <3>3. Conns'
      BY <2>2, <3>1, <3>2 DEF MailInv, Conns
    <3>4. QED
      BY <1>1, <2>1, <3>3 DEF MailInv
  <2>3. CASE views' = [views EXCEPT ![s] = [n \in Range(box) |-> IdOf(n)]] /\ UNCHANGED mine
    <3>1. DOMAIN views' = Sessions /\ \A t \in Sessions : DOMAIN views'[t] \subseteq Names \cup {NoName}
      BY <2>3 DEF MailInv, Conns, Rows
    <3>2. Conns'
      BY <1>2, <2>3, <3>1, ConnsViews DEF Login, MailInv, Conns, dbVars
    <3>3. QED
      BY <1>1, <2>1, <3>2 DEF MailInv
  <2>4. QED
    BY <1>2, <2>2, <2>3 DEF Login
<1>3. CASE Logout(s)
  <2>1. Conns'
    BY <1>3, ConnsClose, Zenon DEF Logout, MailInv, dbVars, viewVars
  <2>2. Jobs'
    BY <1>3, JobsRest DEF Logout, MailInv, callVars
  <2>3. QED
    BY <1>1, <2>1, <2>2 DEF MailInv
<1>4. CASE SetUserBoxes(s)
  <2>1. mine' \in [Sessions -> Sessions \cup {None}] /\ boxes' = s /\ s # None
    BY <1>4, NoneIsNoSession DEF SetUserBoxes, MailInv, Conns
  <2>2. /\ \A t \in Sessions : selected[t] # None => mine'[t] # None
        /\ UNCHANGED <<leaked, cut, selected, arrival, views>>
    BY <1>4, <2>1 DEF MailInv, Conns, SetUserBoxes, dbVars
  <2>3. Conns'
    BY <2>1, <2>2 DEF MailInv, Conns
  <2>4. Jobs'
    BY <1>4, JobsGoto DEF SetUserBoxes, MailInv, Steps
  <2>5. QED
    BY <1>1, <2>3, <2>4 DEF MailInv
<1>5. QED
  BY <1>2, <1>3, <1>4

\* The views of the backend.
LEMMA ViewTypes ==
  ASSUME MailInv, NEW s \in Sessions, AddView(s) \/ DeleteView(s)
  PROVE  MailInv'
<1>1. Rows'
  BY RowsRest DEF AddView, DeleteView, MailInv, dbVars
<1>2. Jobs'
  BY JobsReturn DEF AddView, DeleteView, MailInv
<1>3. DOMAIN views' = Sessions /\ \A t \in Sessions : DOMAIN views'[t] \subseteq Names \cup {NoName}
  <2>1. CASE AddView(s)
    <3>1. views' = [views EXCEPT ![mine[s]] = Extend(@, loc[s].name, loc[s].id)]
      BY <2>1 DEF AddView
    <3>2. loc[s].name \in Names \cup {NoName}
      BY DEF MailInv, Jobs
    <3>3. QED
      BY <3>1, <3>2 DEF MailInv, Conns, Extend
  <2>2. CASE DeleteView(s)
    BY <2>2 DEF DeleteView, MailInv, Conns, Restrict
  <2>3. QED
    BY <2>1, <2>2
<1>4. Conns'
  BY <1>3, ConnsViews DEF AddView, DeleteView, MailInv, Conns, dbVars, sessVars
<1>5. QED
  BY <1>1, <1>2, <1>4 DEF MailInv

\* COPY, and the first step of MOVE.
LEMMA CopyTypes ==
  ASSUME MailInv, NEW s \in Sessions, AddMailboxEmails(s)
  PROVE  MailInv'
<1> USE DEF Steps
<1> DEFINE new == {loc[s].id} \X loc[s].ids
<1>1. CASE Leak(s)
  <2>1. Rows'
    BY <1>1, RowsRest DEF AddMailboxEmails, Leak, MailInv
  <2>2. Conns'
    BY <1>1, ConnsRest DEF AddMailboxEmails, Leak, MailInv, viewVars, sessVars, Conns
  <2>3. Jobs'
    BY <1>1, JobsReturn DEF Leak, MailInv
  <2>4. QED
    BY <2>1, <2>2, <2>3 DEF MailInv
<1>2. CASE ~Leak(s)
  <2>1. /\ new \subseteq ((DOMAIN box) \X (DOMAIN emails)) \ member
        /\ member' = member \cup new
        /\ UNCHANGED <<emails, box, flagged, leaked, viewVars, sessVars, asked, arrival, cut, regime>>
        /\ Return(s) \/ (Goto(s, "getids") /\ UNCHANGED loc)
    BY <1>2 DEF AddMailboxEmails
  <2>2. Keys'
    BY <2>1 DEF Keys, MailInv, Rows
  <2>3. Rows'
    BY <2>1, <2>2, RowsMember DEF MailInv, Rows
  <2>4. Conns'
    BY <2>1, ConnsRest DEF MailInv, viewVars, sessVars, Conns
  <2>5. Jobs'
    BY <2>1, JobsReturn, JobsGoto DEF MailInv
  <2>6. QED
    BY <2>3, <2>4, <2>5 DEF MailInv
<1>3. QED
  BY <1>1, <1>2

\* MOVE reads its set again.
LEMMA MoveTypes ==
  ASSUME MailInv, NEW s \in Sessions, MoveGetIds(s)
  PROVE  MailInv'
<1> USE DEF Steps
<1>1. CASE Panic(s)
  BY <1>1, PanicTypes DEF MoveGetIds
<1>2. CASE ~Panic(s)
  <2>1. PICK x : /\ loc' = [loc EXCEPT ![s].ids = x, ![s].set = NoLoc.set, ![s].id = 0]
                 /\ Goto(s, "remove")
                 /\ UNCHANGED <<dbVars, viewVars, sessVars, asked, cut>>
    BY <1>2, Zenon DEF MoveGetIds
  <2>2. /\ DOMAIN loc' = Sessions /\ \A t \in Sessions : t # s => loc'[t] = loc[t]
        /\ DOMAIN loc'[s] = DOMAIN loc[s] /\ loc'[s].cmd = loc[s].cmd /\ loc'[s].name = loc[s].name
    BY <2>1 DEF MailInv, Jobs
  <2>3. Jobs'
    BY <2>1, <2>2, JobsStep, Zenon DEF MailInv, Jobs
  <2>4. QED
    BY <2>1, <2>3, JobTypes DEF MoveGetIds, MailInv, Conns
<1>3. QED
  BY <1>1, <1>2

\* The emails leave the mailbox.
LEMMA RemoveTypes ==
  ASSUME MailInv, NEW s \in Sessions, RemoveMailboxEmails(s)
  PROVE  MailInv'
<1> USE DEF Steps
<1>1. Keys'
  BY DEF RemoveMailboxEmails, MailInv, Rows, Keys
<1>2. asked' \subseteq Msgs
  BY Zenon DEF RemoveMailboxEmails, MailInv, Rows, In, Range
<1>3. Rows'
  BY <1>1, <1>2, RowsMember DEF RemoveMailboxEmails, MailInv
<1>4. Conns'
  BY ConnsRest DEF RemoveMailboxEmails, MailInv, viewVars, sessVars, Conns
<1>5. Jobs'
  BY JobsGoto DEF RemoveMailboxEmails, MailInv
<1>6. QED
  BY <1>3, <1>4, <1>5 DEF MailInv

\* The strays are listed.
LEMMA ListStraysTypes ==
  ASSUME MailInv, NEW s \in Sessions, ListEmailsNoMailbox(s)
  PROVE  MailInv'
<1> USE DEF Steps
<1>1. Jobs'
  BY JobsReturn, JobsIds DEF ListEmailsNoMailbox, MailInv
<1>2. QED
  BY <1>1, JobTypes DEF ListEmailsNoMailbox, MailInv, Conns

\* A stray is deleted.
LEMMA PurgeTypes ==
  ASSUME MailInv, NEW s \in Sessions, Purge(s)
  PROVE  MailInv'
<1> USE DEF Steps
<1>1. PICK e : /\ Drop({e})
               /\ Return(s) \/ (loc' = [loc EXCEPT ![s].ids = @ \ {e}] /\ UNCHANGED pc)
  BY Zenon DEF Purge
<1>2. Rows'
  BY <1>1, RowsDrop DEF Purge, MailInv
<1>3. Conns'
  BY ConnsRest DEF Purge, MailInv, viewVars, sessVars, Conns
<1>4. Jobs'
  <2>1. CASE Return(s)
    BY <2>1, JobsReturn DEF MailInv
  <2>2. CASE loc' = [loc EXCEPT ![s].ids = @ \ {e}] /\ UNCHANGED pc
    <3>1. Goto(s, pc[s]) /\ pc[s] \in Steps
      BY <2>2 DEF Goto, MailInv, Jobs
    <3>2. QED
      BY <2>2, <3>1, JobsIds, Zenon DEF MailInv
  <2>3. QED
    BY <1>1, <2>1, <2>2
<1>5. QED
  BY <1>2, <1>3, <1>4 DEF MailInv

\* A flagged email is deleted.
LEMMA DropTypes ==
  ASSUME MailInv, NEW s \in Sessions, DeleteFlagged(s)
  PROVE  MailInv'
<1> USE DEF Steps
<1>1. PICK e : /\ Drop({e}) /\ loc' = [loc EXCEPT ![s].ids = @ \ {e}]
               /\ Goto(s, "rest") \/ UNCHANGED pc
  BY Zenon DEF DeleteFlagged
<1>2. Rows'
  BY <1>1, RowsDrop DEF DeleteFlagged, MailInv
<1>3. Conns'
  BY ConnsRest DEF DeleteFlagged, MailInv, viewVars, sessVars, Conns
<1>4. PICK l \in Steps : Goto(s, l)
  BY <1>1 DEF Goto, MailInv, Jobs
<1>5. Jobs'
  BY <1>1, <1>4, JobsIds, Zenon DEF MailInv
<1>6. QED
  BY <1>2, <1>3, <1>5 DEF MailInv

\* The emails that were flagged meanwhile are deleted.
LEMMA RestTypes ==
  ASSUME MailInv, NEW s \in Sessions, RemoveEmailsWithFlag(s)
  PROVE  MailInv'
<1> USE DEF Steps
<1>1. Rows'
  BY RowsDrop DEF RemoveEmailsWithFlag, MailInv
<1>2. Conns'
  <2>1. CASE UNCHANGED selected
    BY <2>1, ConnsRest DEF RemoveEmailsWithFlag, MailInv, viewVars, Conns
  <2>2. CASE selected' = [selected EXCEPT ![s] = None]
    BY <2>2, ConnsSelect, Zenon DEF RemoveEmailsWithFlag, MailInv, viewVars
  <2>3. QED
    BY <2>1, <2>2 DEF RemoveEmailsWithFlag
<1>3. Jobs'
  BY JobsReturn DEF RemoveEmailsWithFlag, MailInv
<1>4. QED
  BY <1>1, <1>2, <1>3 DEF MailInv

\* STORE
LEMMA NextEmailTypes ==
  ASSUME MailInv, NEW s \in Sessions, NEW e, NextEmail(s, e), UNCHANGED <<viewVars, leaked, cut, arrival>>
  PROVE  Conns' /\ Jobs'
<1>1. CASE mine' = [mine EXCEPT ![s] = None] /\ selected' = [selected EXCEPT ![s] = None] /\ Return(s)
  BY <1>1, ConnsClose, JobsReturn, Zenon DEF MailInv, viewVars
<1>2. CASE UNCHANGED sessVars /\ Return(s)
  BY <1>2, ConnsRest, JobsReturn DEF MailInv, viewVars, sessVars, Conns
<1>3. CASE UNCHANGED sessVars /\ loc' = [loc EXCEPT ![s].ids = @ \ {e}, ![s].id = 0] /\ Goto(s, "flag")
  <2>1. /\ DOMAIN loc' = Sessions /\ \A t \in Sessions : t # s => loc'[t] = loc[t]
        /\ DOMAIN loc'[s] = DOMAIN loc[s] /\ loc'[s].cmd = loc[s].cmd /\ loc'[s].name = loc[s].name
    BY <1>3 DEF MailInv, Jobs
  <2>2. Jobs'
    BY <1>3, <2>1, JobsStep, Zenon DEF MailInv, Jobs, Steps
  <2>3. Conns'
    BY <1>3, ConnsRest DEF MailInv, viewVars, sessVars, Conns
  <2>4. QED
    BY <2>2, <2>3
<1>4. QED
  BY <1>1, <1>2, <1>3 DEF NextEmail

\* A flag is set or cleared.
LEMMA FlagRows ==
  ASSUME Rows, UNCHANGED <<emails, box, member, arrival, regime>>, NEW e,
         \/ UNCHANGED <<flagged, asked>>
         \/ ClearFlag(e)
         \/ e \in DOMAIN emails /\ SetFlag(e)
  PROVE  Rows'
<1>1. flagged' \subseteq DOMAIN emails /\ asked' \subseteq Msgs
  BY DEF Rows, ClearFlag, SetFlag, Range
<1>2. QED
  BY <1>1, RowsSame DEF Rows

\* The steps of STORE.
LEMMA FlagTypes ==
  ASSUME MailInv, NEW s \in Sessions, FlagEmail(s) \/ AddEmailFlags(s)
  PROVE  MailInv'
<1>1. CASE Fail(s)
  <2>1. Jobs'
    BY <1>1, JobsReturn DEF Fail, MailInv
  <2>2. QED
    BY <1>1, <2>1, JobTypes DEF Fail, FlagEmail, AddEmailFlags, MailInv, Conns
<1>2. CASE Leak(s)
  <2>1. Rows'
    BY <1>2, RowsRest, Zenon DEF FlagEmail, AddEmailFlags, Leak, MailInv
  <2>2. Conns'
    BY <1>2, ConnsRest, Zenon DEF FlagEmail, AddEmailFlags, Leak, MailInv, viewVars, sessVars, Conns
  <2>3. Jobs'
    BY <1>2, JobsReturn DEF Leak, MailInv
  <2>4. QED
    BY <2>1, <2>2, <2>3 DEF MailInv
<1>3. ASSUME NEW e, UNCHANGED <<flagged, asked>> \/ ClearFlag(e),
             loc' = [loc EXCEPT ![s].id = e], Goto(s, "reflag"),
             UNCHANGED <<emails, box, member, leaked, viewVars, sessVars, arrival, cut, regime>>
      PROVE  MailInv'
  <2>1. Rows'
    BY <1>3, FlagRows DEF MailInv
  <2>2. Conns'
    BY <1>3, ConnsRest DEF MailInv, viewVars, sessVars, Conns
  <2>3. /\ DOMAIN loc' = Sessions /\ \A t \in Sessions : t # s => loc'[t] = loc[t]
        /\ DOMAIN loc'[s] = DOMAIN loc[s] /\ loc'[s].cmd = loc[s].cmd /\ loc'[s].name = loc[s].name
    BY <1>3 DEF MailInv, Jobs
  <2>4. Jobs'
    BY <1>3, <2>3, JobsStep DEF MailInv, Jobs, Steps
  <2>5. QED
    BY <2>1, <2>2, <2>4 DEF MailInv
<1>4. ASSUME NEW e, NextEmail(s, e),
             \/ UNCHANGED <<flagged, asked>> \/ ClearFlag(e)
             \/ e \in DOMAIN emails /\ SetFlag(e),
             UNCHANGED <<emails, box, member, leaked, viewVars, arrival, cut, regime>>
      PROVE  MailInv'
  <2>1. Rows'
    BY <1>4, FlagRows DEF MailInv
  <2>2. QED
    BY <1>4, <2>1, NextEmailTypes DEF MailInv
<1>5. CASE FlagEmail(s)
  BY <1>1, <1>3, <1>4, <1>5 DEF FlagEmail
<1>6. CASE AddEmailFlags(s)
  BY <1>2, <1>4, <1>6 DEF AddEmailFlags
<1>7. QED
  BY <1>5, <1>6

\* The steps of a command after its first.
LEMMA ContinueTypes ==
  ASSUME MailInv, NEW s \in Sessions, Continue(s)
  PROVE  MailInv'
<1>1. CASE StepFails(s)
  <2>1. Jobs' /\ cut' \in BOOLEAN
    BY <1>1, JobsReturn DEF StepFails, Fail, MailInv
  <2>2. QED
    BY <1>1, <2>1, JobTypes DEF StepFails, Fail
<1>2. QED
  BY <1>1, LoginTypes, ViewTypes, CopyTypes, MoveTypes, RemoveTypes, ListStraysTypes, PurgeTypes, DropTypes, RestTypes, FlagTypes DEF Continue

\* An email arrives, and the view of its folder is told.
LEMMA ArriveTypes ==
  ASSUME MailInv, Arrive
  PROVE  MailInv'
<1>1. ASSUME NEW m \in Msgs, NEW folder \in {NoName, Folder}, NEW spam, Deliver(m, folder, spam)
      PROVE  MailInv'
  <2>1. Rows /\ DOMAIN box \subseteq 1..MaxBox /\ Range(box) \subseteq Names /\ CanArrive(m)
    BY <1>1 DEF MailInv, Rows, Deliver
  <2>2. PICK a : /\ a.at # "away" /\ a.folder \in {NoName, Folder}
                 /\ arrival' = [arrival EXCEPT ![m] = a]
    BY <1>1, Zenon DEF Deliver, Arrived
  <2>3. Rows'
    <3>1. CASE UNCHANGED <<emails, box, member>>
      BY <1>1, <2>1, <2>2, <3>1, RowsLost, Zenon DEF Deliver
    <3>2. CASE ~UNCHANGED <<emails, box, member>>
      <4>1. PICK b \in DOMAIN box' : StoreIn(m, b)
        BY <1>1, <3>2 DEF Deliver
      <4>2. UNCHANGED box \/ GetOrCreateMailbox(folder)
        BY <1>1, <3>2 DEF Deliver
      <4>3. DOMAIN box \subseteq DOMAIN box'
        BY <4>2, NewMailboxGrows
      <4>4. DOMAIN box' \subseteq 1..MaxBox /\ Range(box') \subseteq Names
        BY <2>1, <4>2, RowsGet DEF Names
      <4>5. UNCHANGED <<flagged, asked, regime>>
        BY <1>1 DEF Deliver
      <4>6. QED
        BY <2>1, <2>2, <4>1, <4>3, <4>4, <4>5, RowsStore, Zenon
    <3>3. QED
      BY <3>1, <3>2
  <2>4. \A k \in Msgs : arrival'[k].folder \in {NoName, Folder}
    BY <2>2 DEF MailInv, Conns, Rows
  <2>5. leaked' \in BOOLEAN /\ cut' \in BOOLEAN
    BY <1>1, Zenon DEF Deliver, MailInv, Conns
  <2>6. Conns'
    BY <1>1, <2>4, <2>5, ConnsRest DEF Deliver, MailInv, viewVars, sessVars
  <2>7. Jobs'
    BY <1>1, JobsRest DEF Deliver, MailInv, callVars
  <2>8. QED
    BY <2>3, <2>6, <2>7 DEF MailInv
<1>2. ASSUME NEW m \in Msgs, OnReceive(m)
      PROVE  MailInv'
  <2>1. /\ DOMAIN arrival' = Msgs
        /\ \A k \in Msgs : /\ arrival'[k].at = "away" <=> arrival[k].at = "away"
                           /\ arrival'[k].folder \in {NoName, Folder}
    BY <1>2 DEF OnReceive, Arrived, MailInv, Rows, Conns
  <2>2. Rows'
    BY <1>2, <2>1, RowsSame DEF OnReceive, dbVars, MailInv, Rows
  <2>3. DOMAIN views' = Sessions /\ \A t \in Sessions : DOMAIN views'[t] \subseteq Names \cup {NoName}
    <3>1. CASE UNCHANGED views
      BY <3>1 DEF MailInv, Conns
    <3>2. CASE ~UNCHANGED views
      <4>1. views' = [views EXCEPT ![boxes] = Extend(@, arrival[m].folder, arrival[m].id)]
        BY <1>2, <3>2 DEF OnReceive
      <4>2. arrival[m].folder \in Names \cup {NoName}
        BY DEF MailInv, Conns, Names
      <4>3. QED
        BY <4>1, <4>2 DEF MailInv, Conns, Extend
    <3>3. QED
      BY <3>1, <3>2
  <2>4. Conns'
    BY <1>2, <2>1, <2>3, ConnsViews DEF OnReceive, MailInv, Conns, dbVars, sessVars
  <2>5. Jobs'
    BY <1>2, JobsRest DEF OnReceive, MailInv, callVars
  <2>6. QED
    BY <2>2, <2>4, <2>5 DEF MailInv
<1>3. QED
  BY <1>1, <1>2 DEF Arrive

\* The daemon stops and starts.
LEMMA RestartTypes ==
  ASSUME MailInv, Restart
  PROVE  MailInv'
<1>1. DOMAIN arrival' = Msgs /\ \A k \in Msgs : arrival'[k].at = "away" <=> arrival[k].at = "away"
  BY DEF Restart, Arrived
<1>2. Here' = Here
  BY <1>1 DEF Here
<1>3. /\ DOMAIN box' \subseteq 1..MaxBox /\ Range(box') \subseteq Names
      /\ DOMAIN box \subseteq DOMAIN box'
  <2>1. 1 \in 1..MaxBox /\ 2 \in 1..MaxBox
    BY MailboxesAreBounded
  <2>2. DOMAIN box' \subseteq DOMAIN box \cup {1, 2} /\ DOMAIN box \subseteq DOMAIN box'
    BY DEF Restart, InboxMailbox, JunkMailbox
  <2>3. \A i \in DOMAIN box' : box'[i] \in {INBOX, Junk} \cup Range(box)
    BY DEF Restart, Range
  <2>4. QED
    BY <2>1, <2>2, <2>3 DEF MailInv, Rows, Range, Names
<1>4. Rows'
  BY <1>1, <1>2, <1>3 DEF Restart, MailInv, Rows, Keys
<1>5. Conns'
  <2>1. \A k \in Msgs : arrival'[k].folder \in {NoName, Folder}
    BY DEF Restart, Arrived, MailInv, Conns
  <2>2. cut' \in BOOLEAN
    BY DEF Restart, MailInv, Conns
  <2>3. QED
    BY <2>1, <2>2, Zenon DEF Restart, Conns
<1>6. Jobs'
  BY DEF Restart, Jobs, Steps, NoLoc
<1>7. QED
  BY <1>4, <1>5, <1>6 DEF MailInv

\* Every step keeps the invariant.
LEMMA MailStep == MailInv /\ [Next]_vars => MailInv'
<1> SUFFICES ASSUME MailInv, [Next]_vars PROVE MailInv'
  OBVIOUS
<1>1. CASE UNCHANGED vars
  <2>1. Jobs' /\ cut' \in BOOLEAN
    BY <1>1, JobsRest DEF vars, callVars, MailInv, Conns
  <2>2. QED
    BY <1>1, <2>1, JobTypes DEF vars
<1>2. QED
  BY <1>1, CommandTypes, LoginTypes, ContinueTypes, ArriveTypes, RestartTypes DEF Next

\* For any number of sessions, emails and mailboxes: no row of mailbox_emails or
\* of emails_flags names a row that is not there, an id of an email is never
\* larger than the number of emails that came, and a session that has selected
\* a mailbox has views (storage/mailbox.go, storage/flags.go, display/).
THEOREM MailTypes == Spec => []TypeOK
  BY MailIsTyped, MailStarts, MailStep, PTL DEF Spec
=============================================================================
