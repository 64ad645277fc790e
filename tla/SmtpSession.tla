----------------------------- MODULE SmtpSession -----------------------------
(***************************************************************************)
(* One SMTP connection (relay/session.go): AUTH, MAIL, RCPT, DATA and RSET *)
(* on a Session, the results of the filters (relay/filter.go), and the     *)
(* goroutines that DATA starts.  Each of them splits the recipients of its *)
(* email between the storage and the queue, and expands groups             *)
(* (relay/relay.go: send, relayInside), while the connection goes on with  *)
(* the next email and changes the Session that they still read.            *)
(*                                                                         *)
(* What happens to a copy afterwards is in EmailStore, Mailboxes and       *)
(* RelayQueue; what a filter, rspamd or the storage answers is an input.   *)
(***************************************************************************)
EXTENDS Integers, Sequences, FiniteSets, Functions

CONSTANTS
  Addrs,         \* addresses
  Domain,        \* [Addrs -> domains]
  LocalDomains,  \* Backend.Domains
  DenDomains,    \* those of them whose users a Den server knows
  Users,         \* the local addresses that belong to a user
  UserOf,        \* [Users -> Addrs]: without the subaddress; the administrator
  FolderOf,      \* [Users -> paths]: the folder that Exists gives
  Groups,        \* the local addresses that are groups
  Members,       \* [Groups -> Seq(Addrs)]
  Senders,       \* [Groups -> SUBSET Addrs]: Group.AuthorizedSenders
  Client,        \* the address as which the client may log in
  Froms, Tos,    \* the addresses that the client names in MAIL and in RCPT
  Results,       \* what the filters may answer for a recipient
  Rspamd,        \* whether rspamd is configured
  None,
  MaxEmails,     \* bound: the emails of the connection
  MaxRcpts       \* bound: the recipients that RCPT names for each of them

ASSUME EmailsAreBounded == MaxEmails \in Nat
ASSUME RcptsAreBounded == MaxRcpts \in [1..MaxEmails -> Nat]
ASSUME AddressesAreNamed == Froms \cup Tos \subseteq Addrs /\ None \notin Addrs
ASSUME GroupsAreLocal == \A g \in Groups : Domain[g] \in LocalDomains

\* Exists leaves the name of a user of Den empty: they all have the address of
\* their domain that has no user.
ASSUME UsersAreLocal ==
  /\ DenDomains \subseteq LocalDomains
  /\ \A u \in Users : /\ Domain[u] \in LocalDomains
                       /\ UserOf[u] \in Addrs /\ Domain[UserOf[u]] = Domain[u]
  /\ \A u, v \in Users :
       Domain[u] = Domain[v] /\ Domain[u] \in DenDomains => UserOf[u] = UserOf[v]

\* Exists looks for a group only when there is no such user.
ASSUME GroupsAreNoUsers ==
  /\ Users \cup Groups \subseteq Addrs /\ Users \cap Groups = {}
  /\ \A g \in Groups : Members[g] \in Seq(Addrs)

\* filter.Result: the action, the recipients to add, and a mailbox
ASSUME ResultsAreResults ==
  \A r \in Results :
    /\ r.action \in {"continue", "accept", "discard", "quarantine", "spam",
                     "reject", "tempfail"}
    /\ r.forward \in Seq(Addrs)
    /\ DOMAIN r = {"action", "forward", "mailbox"}

VARIABLES
  user,      \* Session.username
  from,      \* Session.From
  to,        \* Session.To: a slice of n elements of the array arr
  arrays,    \* the arrays behind the slices, one per email
  phase,     \* where go-smtp is: "open", "mail" (MAIL accepted) or "closed"
  email,     \* history: the number of the email that comes next
  patient,   \* whether the client waits for an email to be sent
  named,     \* history: the recipients that were accepted for each email
  given,     \* history: the paths and recipients that filters gave it
  sender,    \* history: its sender
  task,      \* the goroutine of each email
  out        \* the copies that were handed to the storage or to the queue

vars == <<user, from, to, arrays, phase, email, patient, named, given, sender, task, out>>
histVars == <<patient, named, given, sender>>

Emails == 1..MaxEmails
NoPath == <<>>
Nothing == [paths |-> {}, rcpts |-> {}]
Junk == <<"Junk">>
Idle == [st |-> "none", from |-> None, arr |-> 0, n |-> 0, spam |-> FALSE, work |-> {}]

Init ==
  /\ user = None /\ from = None
  /\ to = [arr |-> 1, n |-> 0]
  /\ arrays = [e \in Emails |-> <<>>]
  /\ phase = "open" /\ email = 1
  /\ named = [e \in Emails |-> {}]
  /\ given = [e \in Emails |-> Nothing]
  /\ patient \in BOOLEAN
  /\ sender = [e \in Emails |-> None]
  /\ task = [e \in Emails |-> Idle]
  /\ out = {}

-----------------------------------------------------------------------------
IsLocal(a) == Domain[a] \in LocalDomains

\* Config.Exists: users, and groups.  The authorized senders of a group are the
\* only ones for whom a group of a Den domain is there, and the only ones for
\* whom another group is not.
Exists(f, a) ==
  a \in Users \/ (a \in Groups /\ (f \in Senders[a] <=> Domain[a] \in DenDomains))

\* Session.rcpt: what an address is for the sender f, if it is accepted.
Accepts(f, a) == IF IsLocal(a) THEN Exists(f, a) ELSE IsLocal(f)

Resolve(a) ==
  [addr |-> IF a \in Users THEN UserOf[a] ELSE a,
   folder |-> IF a \in Users THEN FolderOf[a] ELSE NoPath,
   local |-> IsLocal(a),
   group |-> a \in Groups,
   named |-> a]

\* s.To, and the array after the slice s became its beginning
SessionTo == SubSeq(arrays[to.arr], 1, to.n)
Written(array, s) == s \o SubSeq(array, Len(s) + 1, Len(array))

\* The users whom Exists does not find when Den does not answer
DenUsers == {u \in Users : Domain[u] \in DenDomains}

\* What VerifyUser answers, and what rspamd does.  A marked email has the header
\* of spam when it is sent: rspamd added it, or a filter, or it came with it and
\* rspamd is not configured or skipped it.
VerifyUser == BOOLEAN
Analyze == {"pass", "mark", "refuse"}

-----------------------------------------------------------------------------
\* AUTH succeeds or fails; the rate limiter may close the connection.
Auth(ok) ==
  /\ phase # "closed"
  /\ \/ ok /\ user' = Client /\ UNCHANGED phase
     \/ /\ ~ok /\ user = None
        /\ phase' \in {phase, "closed"}
        /\ UNCHANGED user
  /\ UNCHANGED <<from, to, arrays, email, histVars, task, out>>

\* MAIL sets From even when it is refused; go-smtp lets it come again before
\* DATA, and what it accepted before stays.
Mail(f) ==
  /\ phase # "closed" /\ email <= MaxEmails
  /\ patient => \A e \in Emails : task[e].st \in {"none", "done"}
  /\ from' = f
  /\ sender' = [sender EXCEPT ![email] = f]
  /\ phase' = IF IsLocal(f) /\ user # f THEN phase ELSE "mail"
  /\ UNCHANGED <<user, to, arrays, email, patient, named, given, task, out>>

Rcpt(a) ==
  /\ phase = "mail" /\ to.n < MaxRcpts[email]
  /\ Accepts(from, a)
  /\ arrays' = [arrays EXCEPT ![to.arr] = Written(@, Append(SessionTo, Resolve(a)))]
  /\ to' = [to EXCEPT !.n = @ + 1]
  /\ named' = [named EXCEPT ![email] = @ \cup {a}]
  /\ UNCHANGED <<user, from, phase, email, patient, given, sender, task, out>>

ResetNothing ==    \* mutant: Reset does nothing
  /\ email' = email + 1
  /\ UNCHANGED to

\* Reset: s.To = nil; the next email has an array of its own.
Reset ==
  /\ to' = [arr |-> email + 1, n |-> 0]
  /\ email' = email + 1

\* RSET or a new EHLO
Rset ==
  /\ phase = "mail" /\ email < MaxEmails
  /\ Reset
  /\ phase' = "open"
  /\ named' = [named EXCEPT ![email] = {}]
  /\ sender' = [sender EXCEPT ![email] = None]
  /\ UNCHANGED <<user, from, arrays, patient, given, task, out>>

-----------------------------------------------------------------------------
\* A recipient that a filter adds is not marked local and is not looked up.
Forwarded(a) ==
  [addr |-> a, folder |-> NoPath, local |-> FALSE, group |-> FALSE, named |-> a]

\* applyResult: the recipients after a result, or an error; learning, of ham or
\* spam, panics without rspamd.  No filter sets RemoveRecipient.
Apply(acc, res) ==
  CASE acc.end # "go" \/ res.action = "discard" -> acc
    [] acc.end = "go" /\ res.action \in {"reject", "tempfail"} -> [acc EXCEPT !.end = "refused"]
    [] acc.end = "go" /\ res.action \in {"accept", "spam"} /\ ~Rspamd -> [acc EXCEPT !.end = "panic"]
    [] OTHER ->
         LET all == acc.to \o [i \in DOMAIN res.forward |-> Forwarded(res.forward[i])]
         IN [acc EXCEPT !.to = [i \in DOMAIN all |->
               IF res.mailbox = None THEN all[i] ELSE [all[i] EXCEPT !.folder = res.mailbox]]]

FilterBare(acc, i, rcpt, res) ==    \* mutant: without the prefix
  Apply(acc, res)

\* The body of the loop of Data: the folder of the recipient i is put below
\* INBOX, in s.To as the earlier results left it, then its filters apply.
Filter(acc, i, rcpt, res) ==
  Apply(IF acc.end # "go" \/ rcpt.folder = NoPath THEN acc
        ELSE [acc EXCEPT !.to[i] = [rcpt EXCEPT !.folder = <<"INBOX">> \o @]], res)

Filtered(results) ==
  LET acc[i \in 0..to.n] ==
        IF i = 0 THEN [to |-> SessionTo, end |-> "go"]
        ELSE Filter(acc[i - 1], i, SessionTo[i], results[i])
  IN acc[to.n]

Given(results) ==
  LET used == {r \in Range(results) : r.action # "discard"}
  IN [paths |-> {r.mailbox : r \in used} \ {None}, rcpts |-> UNION {Range(r.forward) : r \in used}]

DataRefusedSent(results, spam) ==    \* mutant: no return after the error of rspamd
  LET f == Filtered(results) IN
  /\ phase = "mail" /\ to.n > 0
  /\ DOMAIN results = 1..to.n
  /\ f.end = "go"
  /\ Reset
  /\ phase' = "open"
  /\ arrays' = [arrays EXCEPT ![to.arr] = Written(@, f.to)]
  /\ given' = [given EXCEPT ![email] = Given(results)]
  /\ named' = [named EXCEPT ![email] = IF spam = "refuse" THEN {} ELSE @]
  /\ task' = [task EXCEPT ![email] =
                 [st |-> "ready", from |-> from, arr |-> to.arr, n |-> Len(f.to),
                  spam |-> spam = "mark", work |-> {}]]
  /\ UNCHANGED <<user, from, patient, sender, out>>

\* DATA.  An error of reading, of rspamd (analyzing or learning) or of a filter
\* refuses the email, and go-smtp resets the session in every case.
Data(results, spam) ==
  LET f == Filtered(results) IN
  /\ phase = "mail" /\ to.n > 0
  /\ DOMAIN results = 1..to.n
  /\ Reset
  /\ IF spam = "refuse" \/ f.end # "go"
     THEN /\ phase' = IF spam # "refuse" /\ f.end = "panic" THEN "closed" ELSE "open"
          /\ named' = [named EXCEPT ![email] = {}]
          /\ UNCHANGED <<arrays, given, task>>
     ELSE /\ phase' = "open"
          /\ arrays' = [arrays EXCEPT ![to.arr] = Written(@, f.to)]
          /\ given' = [given EXCEPT ![email] = Given(results)]
          /\ UNCHANGED named
          /\ task' = [task EXCEPT ![email] =
                        [st |-> "ready", from |-> from, arr |-> to.arr, n |-> Len(f.to),
                         spam |-> spam = "mark", work |-> {}]]
  /\ UNCHANGED <<user, from, patient, sender, out>>

-----------------------------------------------------------------------------
\* send: the recipients of a domain are stored if the first of them is local,
\* and queued otherwise.  Items are taken in any order, as maps are.
Items(rcpts, path, root, f) ==
  LET first(i) == CHOOSE j \in DOMAIN rcpts :
                    /\ Domain[rcpts[j].addr] = Domain[rcpts[i].addr]
                    /\ \A k \in DOMAIN rcpts : Domain[rcpts[k].addr] = Domain[rcpts[i].addr] => j <= k
  IN {[path |-> Append(path, i), rcpt |-> rcpts[i], from |-> f,
       root |-> IF root = None THEN rcpts[i].named ELSE root,
       inside |-> rcpts[first(i)].local] : i \in DOMAIN rcpts}

Copy(e, item, kind, folder, f) ==
  [email |-> e, root |-> item.root, kind |-> kind,
   addr |-> item.rcpt.addr, folder |-> folder, from |-> f]

Work(e, w) ==
  task' = [task EXCEPT ![e].work = w, ![e].st = IF w = {} THEN "done" ELSE "running"]

\* The goroutine of Data wakes up and reads its slice.
Start(e) ==
  /\ task[e].st = "ready"
  /\ Work(e, Items(SubSeq(arrays[task[e].arr], 1, task[e].n), <<>>, None, task[e].from))
  /\ UNCHANGED <<user, from, to, arrays, phase, email, histVars, out>>

SendFirstDomain(e, item) ==    \* mutant: return after the first domain queued
  /\ task[e].st = "running" /\ item \in task[e].work
  /\ ~item.inside
  /\ out' = out \cup {Copy(e, item, "queued", item.rcpt.folder, item.from)}
  /\ Work(e, {})
  /\ UNCHANGED <<user, from, to, arrays, phase, email, histVars>>

\* Queue.Enqueue
SendOutside(e, item) ==
  /\ task[e].st = "running" /\ item \in task[e].work
  /\ ~item.inside
  /\ out' = out \cup {Copy(e, item, "queued", item.rcpt.folder, item.from)}
  /\ Work(e, task[e].work \ {item})
  /\ UNCHANGED <<user, from, to, arrays, phase, email, histVars>>

SendGroupAgain(e, item) ==    \* mutant: the group is sent to itself
  /\ task[e].st = "running" /\ item \in task[e].work
  /\ item.inside /\ item.rcpt.group
  /\ Work(e, task[e].work)
  /\ UNCHANGED <<user, from, to, arrays, phase, email, histVars, out>>

\* relayInside of a group: the members that s.rcpt accepts, for the sender that
\* the session has now, are sent to on behalf of the group.  Members of whom Den
\* does not answer are lost.
SendGroup(e, item) ==
  /\ task[e].st = "running" /\ item \in task[e].work
  /\ item.inside /\ item.rcpt.group
  /\ \E lost \in SUBSET DenUsers :
       LET members == SelectSeq(Members[item.rcpt.addr], LAMBDA m : m \notin lost /\ Accepts(from, m))
           rcpts == [i \in DOMAIN members |-> Resolve(members[i])]
       IN Work(e, (task[e].work \ {item}) \cup Items(rcpts, item.path, item.root, item.rcpt.addr))
  /\ UNCHANGED <<user, from, to, arrays, phase, email, histVars, out>>

SendInsideFrom(e, item) ==    \* mutant: stored with the sender that send was given
  /\ task[e].st = "running" /\ item \in task[e].work
  /\ item.inside /\ ~item.rcpt.group
  /\ out' = out \cup {Copy(e, item, "stored", item.rcpt.folder, item.from)}
  /\ Work(e, task[e].work \ {item})
  /\ UNCHANGED <<user, from, to, arrays, phase, email, histVars>>

\* relayInside: handed to the storage, with the sender that the session has now;
\* StoreSpam puts a marked email in Junk and knows of no folder.  An email that
\* cannot be rendered is logged, and that is all.
SendInside(e, item) ==
  /\ task[e].st = "running" /\ item \in task[e].work
  /\ item.inside /\ ~item.rcpt.group
  /\ LET folder == IF task[e].spam THEN Junk ELSE item.rcpt.folder
     IN \E kind \in {"stored", "logged"} : out' = out \cup {Copy(e, item, kind, folder, from)}
  /\ Work(e, task[e].work \ {item})
  /\ UNCHANGED <<user, from, to, arrays, phase, email, histVars>>

Run(e) ==
  \/ Start(e)
  \/ \E item \in task[e].work : SendOutside(e, item) \/ SendGroup(e, item) \/ SendInside(e, item)

Talk ==
  \/ \E ok \in VerifyUser : Auth(ok)
  \/ \E f \in Froms : Mail(f)
  \/ \E a \in Tos : Rcpt(a)
  \/ Rset
  \/ \E results \in [1..to.n -> Results], spam \in Analyze : Data(results, spam)

Next == Talk \/ \E e \in Emails : Run(e)

\* Goroutines that can run are run; nothing forces the client, which may do
\* nothing more at any time.
Spec == Init /\ [][Next]_vars /\ WF_vars(\E e \in Emails : Run(e))

-----------------------------------------------------------------------------
\* Every variable has its type.
TypeOK ==
  /\ user \in {None, Client} /\ from \in Froms \cup {None}
  /\ phase \in {"open", "mail", "closed"}
  /\ email \in 1..MaxEmails + 1
  /\ email \in Emails => to.n \in 0..MaxRcpts[email]
  /\ \A e \in Emails :
       /\ task[e].st \in {"none", "ready", "running", "done"}
       /\ named[e] \subseteq Tos

\* A copy goes to a recipient of its own email: one that RCPT accepted for it,
\* or a filter added.  The goroutines hold slices of the session that has gone
\* on (session.go: Data, Reset), and a refused email is sent to nobody.
OwnRecipients ==
  \A c \in out : c.root \in named[c.email] \cup given[c.email].rcpts

\* When the goroutine of an email is done every recipient that RCPT accepted was
\* handed to the storage or to the queue (relay.go: send), or the log says that
\* the email could not be rendered; groups apart, whose members may all be
\* refused.
EveryoneServed ==
  \A e \in Emails : task[e].st = "done" =>
    \A a \in named[e] \ Groups : \E c \in out : c.email = e /\ c.root = a

\* With a client that waits, an email is stored with the sender of its own last
\* MAIL, also for the members of groups (relay.go: relayInside reads s.From).
SenderKept ==
  patient => \A c \in out : c.kind = "stored" => c.from = sender[c.email]

\* An email to a subaddress is stored below INBOX, in the folder of the
\* subaddress, or where a filter put it (session.go: Data), whatever the other
\* recipients and the results of their filters are; in Junk when it is marked as
\* spam, and only then (relay.go: relayInside).
FolderKept ==
  \A c \in out :
    LET inbox == IF FolderOf[c.root] = NoPath THEN NoPath ELSE <<"INBOX">> \o FolderOf[c.root]
    IN c.kind = "stored" /\ c.root \in (Users \cap named[c.email]) \ given[c.email].rcpts =>
         c.folder \in IF task[c.email].spam THEN {Junk} ELSE {inbox} \cup given[c.email].paths

\* Again and again every email that DATA accepted has been sent, however the
\* connection goes on (session.go: the goroutine of Data).
AcceptedIsSent == []<>(\A e \in Emails : task[e].st \in {"none", "done"})
=============================================================================
