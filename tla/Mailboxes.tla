------------------------------ MODULE Mailboxes ------------------------------
(***************************************************************************)
(* The mailboxes of one user: the tables mailbox, mailbox_emails, emails   *)
(* and emails_flags (storage/mailbox.go, storage/flags.go), the IMAP       *)
(* sessions that work on them (display/), the views of the mailboxes that  *)
(* the sessions share, and the emails that arrive meanwhile                *)
(* (storage.StoreEmailInbox, storage.StoreSpam and OnReceive).             *)
(*                                                                         *)
(* A command of a session is cut at its transactions: the statements of    *)
(* one transaction, and the queries that make one list, are one step.      *)
(* StoreEmail is one step, its transaction: EmailStore has the others.  Of *)
(* the flags only \Deleted is kept, which is the one the storage acts on;  *)
(* a View is its name and its ID, the count of its messages is left out.   *)
(***************************************************************************)
EXTENDS Integers, FiniteSets, FiniteSetsExt, Functions

CONSTANTS
  Sessions,   \* IMAP connections of the user
  Msgs,       \* the emails that may arrive or be appended, each at most once
  Folder,     \* the name of a mailbox that is not there at first
  None,       \* no view, no boxes
  MaxBox,     \* bound: the largest id of a mailbox
  MaxCommands,  \* bound: all commands, logins and restarts, per regime
  MaxEmails,  \* bound: the emails that arrive or are appended, per regime
  Regimes     \* how the user is taken to behave: see Allowed

ASSUME NoneIsNoSession == None \notin Sessions
ASSUME MailboxesAreBounded == MaxBox \in Nat /\ MaxBox >= 2
ASSUME EmailsAreBounded == \A r \in Regimes : MaxEmails[r] \in Nat

VARIABLES
  emails,     \* the table emails: which email has an id
  box,        \* the table mailbox: the name of an id
  member,     \* the table mailbox_emails: pairs <<mailbox id, email id>>
  flagged,    \* the table emails_flags: the ids flagged \Deleted
  leaked,     \* a transaction was left open and holds the write lock
  boxes,      \* Backend.mailboxes[user]: a Boxes, named after who made it
  views,      \* Boxes.mp of each Boxes: the ID of the View of a name
  mine,       \* Session.mailboxes
  selected,   \* Session.selected
  pc, loc,    \* the command of each session, and its variables
  arrival,    \* where each email stands
  asked,      \* history: the emails that a client asked to delete
  cut,        \* history: the removal of emails was cut short
  regime,     \* the regime of this behaviour
  left        \* how many commands, logins and restarts may still come

dbVars == <<emails, box, member, flagged, leaked>>
viewVars == <<boxes, views>>
sessVars == <<mine, selected>>
callVars == <<pc, loc>>
vars == <<dbVars, viewVars, sessVars, callVars, arrival, asked, cut, regime, left>>

INBOX == "INBOX"
Junk == "Junk"
NoName == ""
Names == {INBOX, Junk, Folder}
InboxMailbox == 1
JunkMailbox == 2

Ids == 1..MaxEmails[regime]
Commands == {"copy", "move", "expunge", "close", "add", "del", "set", "clear"}
Steps == {"idle", "boxes", "cache", "uncache", "copy", "getids", "remove", "orphans",
          "purge", "flag", "reflag", "drop", "rest"}
NoLoc == [cmd |-> "none", set |-> <<"uid", {}>>, ids |-> {}, name |-> NoName, id |-> 0]

Arrived(at) == [at |-> at, folder |-> NoName, id |-> 0]

CanArrive(m) ==
  /\ arrival[m].at = "away"
  /\ Cardinality({n \in Msgs : arrival[n].at # "away"}) < MaxEmails[regime]

Stored(m) == m \in Range(emails)
In(b) == {e \in DOMAIN emails : <<b, e>> \in member}
Strays == {e \in DOMAIN emails : \A b \in DOMAIN box : <<b, e>> \notin member}

\* INTEGER PRIMARY KEY: one more than the largest id in use.
NextId(f) == IF DOMAIN f = {} THEN 1 ELSE Max(DOMAIN f) + 1
Extend(f, id, v) == [i \in DOMAIN f \cup {id} |-> IF i = id THEN v ELSE f[i]]
IdOf(n) == CHOOSE b \in DOMAIN box : box[b] = n

Init ==
  /\ emails = [i \in {} |-> None]
  /\ box = [i \in {InboxMailbox, JunkMailbox} |-> IF i = InboxMailbox THEN INBOX ELSE Junk]
  /\ member = {} /\ flagged = {} /\ leaked = FALSE
  /\ boxes = None
  /\ views = [s \in Sessions |-> [n \in {} |-> 0]]
  /\ mine = [s \in Sessions |-> None]
  /\ selected = [s \in Sessions |-> None]
  /\ pc = [s \in Sessions |-> "idle"]
  /\ loc = [s \in Sessions |-> NoLoc]
  /\ arrival = [m \in Msgs |-> Arrived("away")]
  /\ asked = {} /\ cut = FALSE
  /\ regime \in Regimes
  /\ left = MaxCommands[regime]

-----------------------------------------------------------------------------
\* In an orderly regime the commands of the user come one after the other, by
\* UIDs that are in the selected mailbox, no mailbox is renamed, and no client
\* sends DELETE with the empty name: there may be a view of it, which OnReceive
\* made for INBOX with the ID of an email, and DELETE would take the mailbox
\* that has this ID.  In the regime "orderly" no email arrives for a folder.
Orderly == regime # "free"

Allowed(s) ==
  /\ pc[s] = "idle" /\ mine[s] # None
  /\ Orderly => \A t \in Sessions : pc[t] = "idle"

Goto(s, l) == pc' = [pc EXCEPT ![s] = l]
Return(s) == Goto(s, "idle") /\ loc' = [loc EXCEPT ![s] = NoLoc]

\* A command fails: the database is busy, or locked for good.
Fail(s) == Return(s) /\ UNCHANGED <<dbVars, viewVars, sessVars, asked>>

\* execTx and StoreEmail return on an error without Rollback.
Leak(s) ==
  /\ leaked' = TRUE
  /\ Return(s)
  /\ UNCHANGED <<emails, box, member, flagged, viewVars, sessVars, asked>>

\* A handler panics; the connection is closed.
Panic(s) ==
  /\ Return(s)
  /\ mine' = [mine EXCEPT ![s] = None]
  /\ selected' = [selected EXCEPT ![s] = None]
  /\ UNCHANGED <<dbVars, viewVars, asked, cut>>

DropRowOnly(ids) ==    \* mutant: foreign_keys is off
  /\ emails' = [e \in DOMAIN emails \ ids |-> emails[e]]
  /\ UNCHANGED <<member, flagged>>

\* DELETE FROM emails; the foreign keys cascade.
Drop(ids) ==
  /\ emails' = [e \in DOMAIN emails \ ids |-> emails[e]]
  /\ member' = {p \in member : p[2] \notin ids}
  /\ flagged' = flagged \ ids

NewMailbox(n) ==
  /\ NextId(box) <= MaxBox
  /\ box' = Extend(box, NextId(box), n)

\* INSERT INTO mailbox ... ON CONFLICT DO UPDATE SET name = name
GetOrCreateMailbox(n) ==
  /\ ~leaked /\ n # NoName
  /\ IF n \in Range(box) THEN UNCHANGED box ELSE NewMailbox(n)

-----------------------------------------------------------------------------
\* An email is stored in a mailbox, in one transaction with its row.
StoreIn(m, b) ==
  /\ emails' = Extend(emails, NextId(emails), m)
  /\ member' = member \cup {<<b, NextId(emails)>>}

\* StoreSpam or StoreEmailInbox.  Storing in a mailbox whose id is not there
\* breaks the foreign key, and the transaction stays open.
Deliver(m, folder, spam) ==
  LET b == IF spam THEN JunkMailbox
           ELSE IF folder = NoName THEN InboxMailbox
           ELSE IF folder \in Range(box) THEN IdOf(folder) ELSE NextId(box)
  IN
  /\ CanArrive(m)
  /\ regime = "orderly" => folder = NoName
  /\ \/ /\ IF spam \/ folder = NoName THEN UNCHANGED box ELSE GetOrCreateMailbox(folder)
        /\ ~leaked /\ b \in DOMAIN box'
        /\ StoreIn(m, b)
        /\ arrival' = [arrival EXCEPT ![m] =
                         [at |-> "stored", folder |-> folder, id |-> NextId(emails)]]
        /\ UNCHANGED leaked
     \/ /\ ~leaked /\ (spam \/ folder = NoName) /\ b \notin DOMAIN box
        /\ leaked' = TRUE
        /\ arrival' = [arrival EXCEPT ![m] = Arrived("lost")]
        /\ UNCHANGED <<emails, box, member>>
     \/ /\ leaked
        /\ arrival' = [arrival EXCEPT ![m] = Arrived("lost")]
        /\ UNCHANGED <<emails, box, member, leaked>>
  /\ UNCHANGED <<flagged, viewVars, sessVars, callVars, asked, cut, regime>>

\* OnReceive tells the view of the folder; a folder without a view gets one,
\* whose ID is that of the email.  The folder of INBOX is the empty name.
OnReceive(m) ==
  LET n == arrival[m].folder IN
  /\ arrival[m].at = "stored"
  /\ arrival' = [arrival EXCEPT ![m] = Arrived("done")]
  /\ views' = IF boxes = None \/ n \in DOMAIN views[boxes] THEN views
              ELSE [views EXCEPT ![boxes] = Extend(@, n, arrival[m].id)]
  /\ UNCHANGED <<dbVars, boxes, sessVars, callVars, asked, cut, regime>>

-----------------------------------------------------------------------------
\* Login: the boxes of the user, or new ones with a view of each mailbox ...
Login(s) ==
  /\ pc[s] = "idle" /\ mine[s] = None
  /\ Orderly => \A t \in Sessions : pc[t] = "idle"
  /\ \/ /\ boxes # None
        /\ mine' = [mine EXCEPT ![s] = boxes]
        /\ UNCHANGED <<views, pc>>
     \/ /\ boxes = None
        /\ views' = [views EXCEPT ![s] = [n \in Range(box) |-> IdOf(n)]]
        /\ Goto(s, "boxes")
        /\ UNCHANGED mine
  /\ UNCHANGED <<dbVars, boxes, selected, loc, arrival, asked, cut, regime>>

\* ... which the next sessions share.
SetUserBoxes(s) ==
  /\ pc[s] = "boxes"
  /\ mine' = [mine EXCEPT ![s] = s]
  /\ boxes' = s
  /\ Goto(s, "idle")
  /\ UNCHANGED <<dbVars, views, selected, loc, arrival, asked, cut, regime>>

Logout(s) ==
  /\ pc[s] = "idle" /\ mine[s] # None
  /\ mine' = [mine EXCEPT ![s] = None]
  /\ selected' = [selected EXCEPT ![s] = None]
  /\ UNCHANGED <<dbVars, viewVars, callVars, arrival, asked, cut, regime>>

\* Boxes.Get
Has(s, n) == n \in DOMAIN views[mine[s]]
ViewOf(s, n) == views[mine[s]][n]

\* SELECT; the mailbox is made if it is gone, but the view stays what it was.
Select(s, n) ==
  /\ Allowed(s) /\ Has(s, n)
  /\ GetOrCreateMailbox(n)
  /\ selected' = [selected EXCEPT ![s] = [name |-> n, id |-> ViewOf(s, n)]]
  /\ UNCHANGED <<emails, member, flagged, leaked, viewVars, mine, callVars, arrival,
                 asked, cut, regime>>

Unselect(s) ==
  /\ Allowed(s) /\ selected[s] # None
  /\ selected' = [selected EXCEPT ![s] = None]
  /\ UNCHANGED <<dbVars, viewVars, mine, callVars, arrival, asked, cut, regime>>

\* STATUS, and LIST for each mailbox.
Status(s, n) ==
  /\ Allowed(s) /\ Has(s, n)
  /\ GetOrCreateMailbox(n)
  /\ UNCHANGED <<emails, member, flagged, leaked, viewVars, sessVars, callVars, arrival,
                 asked, cut, regime>>

\* CREATE: the row, then the view.
Create(s, n) ==
  /\ Allowed(s) /\ ~Has(s, n)
  /\ ~leaked /\ n \notin Range(box)
  /\ NewMailbox(n)
  /\ loc' = [loc EXCEPT ![s].name = n, ![s].id = NextId(box)]
  /\ Goto(s, "cache")
  /\ UNCHANGED <<emails, member, flagged, leaked, viewVars, sessVars, arrival, asked, cut, regime>>

AddView(s) ==
  /\ pc[s] = "cache"
  /\ views' = [views EXCEPT ![mine[s]] = Extend(@, loc[s].name, loc[s].id)]
  /\ Return(s)
  /\ UNCHANGED <<dbVars, boxes, sessVars, arrival, asked, cut, regime>>

\* DELETE: the mailbox with the ID of the view and the emails in no other one,
\* then the view, in the boxes of the backend.
Delete(s, n) ==
  /\ Allowed(s) /\ Has(s, n) /\ (Orderly => n # NoName)
  /\ ~leaked
  /\ LET b == ViewOf(s, n)
         rest == {p \in member : p[1] # b}
         kept == {e \in DOMAIN emails : \E p \in rest : p[2] = e}
     IN /\ box' = [i \in DOMAIN box \ {b} |-> box[i]]
        /\ emails' = [e \in kept |-> emails[e]]
        /\ member' = rest
        /\ flagged' = flagged \cap kept
  /\ asked' = asked \cup {emails[e] : e \in UNION {In(b) : b \in {i \in DOMAIN box : box[i] = n}}}
  /\ loc' = [loc EXCEPT ![s].name = n]
  /\ Goto(s, "uncache")
  /\ UNCHANGED <<leaked, viewVars, sessVars, arrival, cut, regime>>

DeleteViewForgotten(s) ==    \* mutant: the view is not deleted
  /\ pc[s] = "uncache"
  /\ Return(s)
  /\ UNCHANGED <<dbVars, viewVars, sessVars, arrival, asked, cut, regime>>

DeleteView(s) ==
  /\ pc[s] = "uncache"
  /\ views' = [views EXCEPT ![boxes] = Restrict(@, DOMAIN @ \ {loc[s].name})]
  /\ Return(s)
  /\ UNCHANGED <<dbVars, boxes, sessVars, arrival, asked, cut, regime>>

\* RENAME changes the row and no view.
Rename(s, n, new) ==
  /\ Allowed(s) /\ Has(s, n) /\ ~Orderly
  /\ ~leaked /\ new \notin Range(box)
  /\ box' = [i \in DOMAIN box |-> IF i = ViewOf(s, n) THEN new ELSE box[i]]
  /\ UNCHANGED <<emails, member, flagged, leaked, viewVars, sessVars, callVars, arrival,
                 asked, cut, regime>>

\* APPEND stores an email in the mailbox with the ID of the view.
AppendEmail(s, m, n) ==
  /\ Allowed(s) /\ Has(s, n)
  /\ CanArrive(m) /\ ~leaked
  /\ IF ViewOf(s, n) \in DOMAIN box
     THEN /\ StoreIn(m, ViewOf(s, n))
          /\ arrival' = [arrival EXCEPT ![m] = Arrived("done")]
          /\ UNCHANGED leaked
     ELSE /\ leaked' = TRUE
          /\ UNCHANGED <<emails, member, arrival>>
  /\ UNCHANGED <<box, flagged, viewVars, sessVars, callVars, asked, cut, regime>>

-----------------------------------------------------------------------------
\* GetSequence counts from the oldest email, FromSequence from the newest.
ToSequence(b, e) == Cardinality({x \in In(b) : x <= e})
FromSequence(b, k) == CHOOSE e \in In(b) : Cardinality({x \in In(b) : x >= e}) = k

\* The sets of a command: numbers, or all from a number on ("*", Dynamic).
Sets == ({"uid", "seq"} \X (SUBSET Ids \ {{}})) \cup ({"uid*", "seq*"} \X {{k} : k \in Ids})
Dynamic(set) == set[1] \in {"uid*", "seq*"}
OutOfRange(b, set) == set[1] = "seq" /\ \E k \in set[2] : k > Cardinality(In(b))

GetIds(b, set) == IF set[1] = "uid" THEN set[2] ELSE {FromSequence(b, k) : k \in set[2]}

ListMailboxEmails(b, set) ==
  IF ~Dynamic(set) THEN In(b) \cap GetIds(b, set)
  ELSE {e \in In(b) : \E k \in set[2] : k <= IF set[1] = "uid*" THEN e ELSE ToSequence(b, e)}

\* A session with a mailbox selected begins a command on a set.
OnSet(s, set) ==
  /\ Allowed(s) /\ selected[s] # None
  /\ Orderly => set[1] = "uid" /\ set[2] \subseteq In(selected[s].id)

\* The emails are listed; FromSequence panics on a number out of range.
Listed(s, cmd, set, target, next) ==
  \/ /\ OutOfRange(selected[s].id, set)
     /\ Panic(s)
  \/ /\ ~OutOfRange(selected[s].id, set)
     /\ loc' = [loc EXCEPT ![s] = [cmd |-> cmd, name |-> NoName, id |-> target,
                                   set |-> IF cmd = "move" THEN set ELSE NoLoc.set,
                                   ids |-> ListMailboxEmails(selected[s].id, set)]]
     /\ Goto(s, next)
     /\ UNCHANGED <<dbVars, viewVars, sessVars, asked, cut>>

\* COPY and MOVE
Copy(s, cmd, set, dest) ==
  /\ OnSet(s, set)
  /\ Has(s, dest) /\ dest # selected[s].name
  /\ Listed(s, cmd, set, ViewOf(s, dest), "copy")
  /\ UNCHANGED <<arrival, regime>>

\* INSERT INTO mailbox_emails, of all in one transaction; one that is there
\* already, or that has no mailbox or no email, is an error.
AddMailboxEmails(s) ==
  LET new == {loc[s].id} \X loc[s].ids
      accepted == new \subseteq ((DOMAIN box) \X (DOMAIN emails)) \ member
  IN
  /\ pc[s] = "copy" /\ ~leaked
  /\ \/ /\ accepted
        /\ member' = member \cup new
        /\ IF loc[s].cmd = "copy" THEN Return(s) ELSE Goto(s, "getids") /\ UNCHANGED loc
        /\ UNCHANGED <<emails, box, flagged, leaked, viewVars, sessVars, asked>>
     \/ ~accepted /\ Leak(s)
  /\ UNCHANGED <<arrival, cut, regime>>

\* MOVE reads its set again before it removes.
MoveGetIds(s) ==
  LET b == selected[s].id
      set == loc[s].set
  IN
  /\ pc[s] = "getids"
  /\ \/ /\ Dynamic(set) \/ OutOfRange(b, set)
        /\ Panic(s)
     \/ /\ ~Dynamic(set) /\ ~OutOfRange(b, set)
        /\ loc' = [loc EXCEPT ![s].ids = GetIds(b, set), ![s].set = NoLoc.set, ![s].id = 0]
        /\ Goto(s, "remove")
        /\ UNCHANGED <<dbVars, viewVars, sessVars, asked, cut>>
  /\ UNCHANGED <<arrival, regime>>

\* UID EXPUNGE; Nums of a dynamic set is empty.
UidExpunge(s, set) ==
  /\ OnSet(s, set) /\ set[1] \in {"uid", "uid*"}
  /\ loc' = [loc EXCEPT ![s].cmd = "expunge", ![s].ids = IF Dynamic(set) THEN {} ELSE set[2]]
  /\ Goto(s, "remove")
  /\ UNCHANGED <<dbVars, viewVars, sessVars, arrival, asked, cut, regime>>

\* RemoveMailboxEmails: the emails leave the mailbox, in one transaction ...
RemoveMailboxEmails(s) ==
  LET b == selected[s].id IN
  /\ pc[s] = "remove" /\ ~leaked
  /\ member' = member \ ({b} \X loc[s].ids)
  /\ asked' = IF loc[s].cmd = "move" THEN asked
              ELSE asked \cup {emails[e] : e \in loc[s].ids \cap In(b)}
  /\ Goto(s, "orphans")
  /\ UNCHANGED <<emails, box, flagged, leaked, viewVars, sessVars, loc, arrival, cut, regime>>

ListRemoved(s) ==    \* mutant: all that left the mailbox are deleted
  /\ pc[s] = "orphans"
  /\ IF loc[s].ids = {} THEN Return(s) ELSE Goto(s, "purge") /\ UNCHANGED loc
  /\ UNCHANGED <<dbVars, viewVars, sessVars, arrival, asked, cut, regime>>

\* ... then those in no mailbox are listed ...
ListEmailsNoMailbox(s) ==
  /\ pc[s] = "orphans"
  /\ IF Strays = {} THEN Return(s)
     ELSE loc' = [loc EXCEPT ![s].ids = Strays] /\ Goto(s, "purge")
  /\ UNCHANGED <<dbVars, viewVars, sessVars, arrival, asked, cut, regime>>

PurgeOne(s) ==    \* mutant: only the first of the list is deleted
  /\ pc[s] = "purge" /\ ~leaked
  /\ \E e \in loc[s].ids : Drop({e})
  /\ Return(s)
  /\ UNCHANGED <<box, leaked, viewVars, sessVars, arrival, asked, cut, regime>>

\* ... and deleted one after the other.
Purge(s) ==
  /\ pc[s] = "purge" /\ ~leaked
  /\ \E e \in loc[s].ids :
       /\ Drop({e})
       /\ IF loc[s].ids = {e} THEN Return(s)
          ELSE loc' = [loc EXCEPT ![s].ids = @ \ {e}] /\ UNCHANGED pc
  /\ UNCHANGED <<box, leaked, viewVars, sessVars, arrival, asked, cut, regime>>

\* EXPUNGE and CLOSE: DeleteEmailsWithFlag lists the flagged emails, of every
\* mailbox, deletes each, then those that were flagged meanwhile.
ExpungeFlagged(s, cmd) ==
  /\ Allowed(s) /\ selected[s] # None
  /\ loc' = [loc EXCEPT ![s].cmd = cmd, ![s].ids = flagged]
  /\ Goto(s, IF flagged = {} THEN "rest" ELSE "drop")
  /\ UNCHANGED <<dbVars, viewVars, sessVars, arrival, asked, cut, regime>>

DeleteFlagged(s) ==
  /\ pc[s] = "drop" /\ ~leaked
  /\ \E e \in loc[s].ids :
       /\ Drop({e})
       /\ loc' = [loc EXCEPT ![s].ids = @ \ {e}]
       /\ IF loc[s].ids = {e} THEN Goto(s, "rest") ELSE UNCHANGED pc
  /\ UNCHANGED <<box, leaked, viewVars, sessVars, arrival, asked, cut, regime>>

RemoveEmailsWithFlag(s) ==
  /\ pc[s] = "rest" /\ ~leaked
  /\ Drop(flagged)
  /\ selected' = IF loc[s].cmd = "close" THEN [selected EXCEPT ![s] = None] ELSE selected
  /\ Return(s)
  /\ UNCHANGED <<box, leaked, viewVars, mine, arrival, asked, cut, regime>>

\* STORE: +FLAGS and -FLAGS of \Deleted, FLAGS with it and without it.
Store(s, op, set) ==
  /\ OnSet(s, set)
  /\ Listed(s, op, set, 0, "flag")
  /\ UNCHANGED <<arrival, regime>>

\* The next email of the list; telling a view that is gone panics.
NextEmail(s, e) ==
  \/ /\ ~Has(s, selected[s].name)
     /\ Return(s)
     /\ mine' = [mine EXCEPT ![s] = None]
     /\ selected' = [selected EXCEPT ![s] = None]
  \/ /\ Has(s, selected[s].name)
     /\ IF loc[s].ids = {e} THEN Return(s)
        ELSE loc' = [loc EXCEPT ![s].ids = @ \ {e}, ![s].id = 0] /\ Goto(s, "flag")
     /\ UNCHANGED sessVars

SetFlag(e) == flagged' = flagged \cup {e} /\ asked' = asked \cup {emails[e]}
ClearFlag(e) ==
  /\ flagged' = flagged \ {e}
  /\ asked' = IF e \in flagged THEN asked \ {emails[e]} ELSE asked

\* RemoveEmailAllFlags, RemoveEmailFlags, or on to AddEmailFlags
FlagEmail(s) ==
  /\ pc[s] = "flag" /\ ~leaked
  /\ \/ loc[s].ids = {} /\ Fail(s)
     \/ \E e \in loc[s].ids :
          /\ loc[s].cmd # "del"
          /\ IF loc[s].cmd = "add" THEN UNCHANGED <<flagged, asked>> ELSE ClearFlag(e)
          /\ loc' = [loc EXCEPT ![s].id = e]
          /\ Goto(s, "reflag")
          /\ UNCHANGED <<emails, box, member, leaked, viewVars, sessVars>>
     \/ \E e \in loc[s].ids :
          /\ loc[s].cmd = "del"
          /\ ClearFlag(e)
          /\ NextEmail(s, e)
          /\ UNCHANGED <<emails, box, member, leaked, viewVars>>
  /\ UNCHANGED <<arrival, cut, regime>>

\* AddEmailFlags; a flag of an email that is gone breaks the foreign key, but
\* the flags without \Deleted may be none.
AddEmailFlags(s) ==
  LET e == loc[s].id IN
  /\ pc[s] = "reflag" /\ ~leaked
  /\ \/ e \notin DOMAIN emails /\ Leak(s)
     \/ /\ e \in DOMAIN emails \/ loc[s].cmd = "clear"
        /\ IF loc[s].cmd = "clear" THEN UNCHANGED <<flagged, asked>> ELSE SetFlag(e)
        /\ NextEmail(s, e)
        /\ UNCHANGED <<emails, box, member, leaked, viewVars>>
  /\ UNCHANGED <<arrival, cut, regime>>

-----------------------------------------------------------------------------
\* A step returns an error of the database, or of the file of an email.
StepFails(s) ==
  /\ pc[s] \in {"copy", "remove", "orphans", "purge", "drop", "rest", "flag", "reflag"}
  /\ Fail(s)
  /\ cut' = (cut \/ pc[s] \in {"orphans", "purge"})
  /\ UNCHANGED <<arrival, regime>>

\* The daemon stops and starts.  The migrations make the mailboxes 1 and 2
\* again; without them (a new mailbox took the name) the storage of the user
\* does not open any more.
Restart ==
  LET missing == {i \in {InboxMailbox, JunkMailbox} : i \notin DOMAIN box}
      name(i) == IF i = InboxMailbox THEN INBOX ELSE Junk
  IN
  /\ \A i \in missing : name(i) \notin Range(box)
  /\ box' = [i \in DOMAIN box \cup missing |-> IF i \in missing THEN name(i) ELSE box[i]]
  /\ leaked' = FALSE
  /\ boxes' = None
  /\ views' = [s \in Sessions |-> [n \in {} |-> 0]]
  /\ mine' = [s \in Sessions |-> None]
  /\ selected' = [s \in Sessions |-> None]
  /\ pc' = [s \in Sessions |-> "idle"]
  /\ loc' = [s \in Sessions |-> NoLoc]
  /\ arrival' = [m \in Msgs |-> IF arrival[m].at = "stored"
                                THEN Arrived("done") ELSE arrival[m]]
  /\ cut' = (cut \/ \E s \in Sessions : pc[s] \in {"orphans", "purge"})
  /\ UNCHANGED <<emails, member, flagged, asked, regime>>

Command(s) ==
  \/ \E n \in Names \cup {NoName} : Select(s, n) \/ Status(s, n) \/ Delete(s, n)
  \/ \E n \in Names : Create(s, n)
  \/ \E n \in Names \cup {NoName}, new \in Names : Rename(s, n, new)
  \/ \E n \in Names \cup {NoName}, m \in Msgs : AppendEmail(s, m, n)
  \/ \E set \in Sets, n \in Names \cup {NoName}, cmd \in {"copy", "move"} : Copy(s, cmd, set, n)
  \/ \E set \in Sets : UidExpunge(s, set)
  \/ \E set \in Sets, op \in {"add", "del", "set", "clear"} : Store(s, op, set)
  \/ \E cmd \in {"expunge", "close"} : ExpungeFlagged(s, cmd)
  \/ Unselect(s)

Continue(s) ==
  \/ SetUserBoxes(s) \/ AddView(s) \/ DeleteView(s)
  \/ AddMailboxEmails(s) \/ MoveGetIds(s) \/ RemoveMailboxEmails(s)
  \/ ListEmailsNoMailbox(s) \/ Purge(s)
  \/ DeleteFlagged(s) \/ RemoveEmailsWithFlag(s)
  \/ FlagEmail(s) \/ AddEmailFlags(s)
  \/ StepFails(s)

Arrive ==
  \/ \E m \in Msgs, folder \in {NoName, Folder}, spam \in BOOLEAN : Deliver(m, folder, spam)
  \/ \E m \in Msgs : OnReceive(m)

Next ==
  \/ /\ left > 0 /\ left' = left - 1
     /\ (\E s \in Sessions : Command(s) \/ Login(s)) \/ Restart
  \/ \E s \in Sessions : (Logout(s) \/ Continue(s)) /\ UNCHANGED left
  \/ Arrive /\ UNCHANGED left

Spec == Init /\ [][Next]_vars

-----------------------------------------------------------------------------
\* Every variable has its type, and no row of mailbox_emails or emails_flags
\* names a row that is not there (the foreign keys of schema/mailbox.sql).
TypeOK ==
  /\ DOMAIN emails \subseteq Ids /\ Range(emails) \subseteq Msgs
  /\ DOMAIN box \subseteq 1..MaxBox /\ Range(box) \subseteq Names
  /\ member \subseteq (DOMAIN box) \X (DOMAIN emails)
  /\ flagged \subseteq DOMAIN emails
  /\ leaked \in BOOLEAN /\ cut \in BOOLEAN /\ regime \in Regimes
  /\ boxes \in Sessions \cup {None}
  /\ mine \in [Sessions -> Sessions \cup {None}]
  /\ \A s \in Sessions :
       /\ DOMAIN views[s] \subseteq Names \cup {NoName}
       /\ selected[s] # None => mine[s] # None
       /\ mine[s] # None => boxes # None
       /\ loc[s].cmd \in Commands \cup {"none"}
  /\ pc \in [Sessions -> Steps]
  /\ asked \subseteq Msgs

\* An email that is in no mailbox is about to be deleted by the removal that
\* took it out (RemoveMailboxEmails), unless a removal was cut short by an
\* error or a stop: whatever the sessions do, none is left where no client
\* can see it.
NoStray ==
  ~cut => \A e \in Strays :
            \E s \in Sessions : pc[s] = "orphans" \/ (pc[s] = "purge" /\ e \in loc[s].ids)

\* In an orderly regime no email disappears that no client asked to delete, by
\* its flag, by its UID or with its mailbox: COPY and MOVE lose none, and a
\* failing command, a restart or an email that arrives changes nothing in that.
\* (DELETE with the empty name, which is not orderly, may take INBOX.)
NothingLost ==
  regime = "orderly" =>
    \A m \in Msgs : arrival[m].at \in {"stored", "done"} /\ ~Stored(m) => m \in asked

\* In an orderly regime the view of a name that a mailbox may have has the ID of
\* the mailbox with that name, so that what a client does in a mailbox (Fetch,
\* Store, Append, Delete, all by View.ID) it does in the mailbox it named.  (The
\* view of the empty name, which OnReceive makes, has the ID of an email.)
RightMailbox ==
  regime = "orderly" /\ boxes # None =>
    \A n \in DOMAIN views[boxes] \ {NoName} :
      \/ views[boxes][n] \in DOMAIN box /\ box[views[boxes][n]] = n
      \/ \E s \in Sessions : pc[s] = "uncache" /\ loc[s].name = n

\* RightMailbox also when emails arrive for a folder ("an email to
\* foo+bar@example.org will be placed in INBOX/bar", README.md): clients find
\* the emails of the folder in the mailbox of that name.
FolderIsThere ==
  Orderly /\ boxes # None =>
    \A n \in DOMAIN views[boxes] \ {NoName} :
      \/ views[boxes][n] \in DOMAIN box /\ box[views[boxes][n]] = n
      \/ \E s \in Sessions : pc[s] = "uncache" /\ loc[s].name = n
=============================================================================
