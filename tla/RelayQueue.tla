----------------------------- MODULE RelayQueue -----------------------------
(***************************************************************************)
(* The relaying of outgoing emails: Session.send splits the recipients of  *)
(* an email by domain and enqueues one emailEnqueued for each remote       *)
(* domain (relay/relay.go); Queue hands them to a bounded number of        *)
(* concurrent senders and retries what failed for a while                  *)
(* (relay/queue.go).                                                       *)
(*                                                                         *)
(* A group stands for the recipients of one email in one remote domain, or *)
(* for one local recipient; the groups that send makes of the members of a *)
(* local mailing group are groups of the same email.  All of them share    *)
(* its *message.Entity, whose Body is a buffer that rendering the email    *)
(* drains.  The cache of relays is left out: it is read and deleted from   *)
(* but never filled.  So is encryption, which rewrites the shared entity.  *)
(***************************************************************************)
EXTENDS Integers, Sequences, FiniteSets

CONSTANTS
  Groups,       \* one for each call of Enqueue or relayInside by send
  Local,        \* the local recipients among them
  Entity,       \* the email of a group
  Concurrent,   \* concurrent_sender of the configuration
  MaxDuration,  \* what MustWait may reach before the email is given up
  MaxHosts      \* bound: relays that relaysOf yields for a domain

Emails == {Entity[g] : g \in Groups}

ASSUME QueueAssumption ==
  /\ IsFiniteSet(Groups)
  /\ Local \subseteq Groups
  /\ Entity \in [Groups -> Emails]
  /\ Concurrent \in Nat
  /\ MaxDuration \in Nat
  /\ MaxHosts \in Nat \ {0}

VARIABLES
  st,         \* where each group stands
  mustWait,   \* emailEnqueued.MustWait, in seconds
  sender,     \* the channel Queue.sender
  ok,         \* the number of tokens in the channel Queue.ok
  loop,       \* Queue.Loop: waits for a token, holds one, or has returned
  sending,    \* the local group that send is busy with, for each email
  body,       \* whether the current buffer of Entity.Body holds the body
  readers,    \* the groups that are draining the current buffer
  buf,        \* what relayOutside has to write: the full email, or less
  hosts,      \* the number of relays tried in this attempt
  accErr,     \* the class of the errors of this attempt
  full        \* history: the complete copies that relays accepted

queueVars == <<sender, ok, loop>>
entityVars == <<sending, body, readers>>
attemptVars == <<buf, hosts, accErr>>
vars == <<st, mustWait, full, queueVars, entityVars, attemptVars>>

\* No local recipient is being served.
Nobody == "nobody"
Stages == {"new", "pushing", "queued", "render", "drain", "lookup", "relay",
           "sleeping", "sent", "dropped", "stored"}
Attempt == {"render", "drain", "lookup", "relay"}
Settled == {"sent", "dropped", "stored"}

\* What errors.AsType finds in an error.  A DNS error can say that the name
\* does not exist, an SMTP error is permanent from code 500 on.
DnsErrors == {"nxdomain", "dns"}
SmtpErrors == {"perm", "temp"}
Errors == DnsErrors \cup SmtpErrors \cup {"other"}

\* errors.Join: AsType finds the first DNS error, else the first SMTP error.
Join(acc, err) ==
  IF \/ acc = "nil"
     \/ err \in DnsErrors /\ acc \notin DnsErrors
     \/ err \in SmtpErrors /\ acc = "other"
  THEN err ELSE acc

\* The switch of Queue.send: what is tried again.
Retries(err) == err \in {"dns", "temp"}

Max3(n) == IF n > 3 THEN n ELSE 3
NextWaitNoFloor(n) == n + n \div 2    \* mutant: without the max
NextWait(n) == Max3(n) + Max3(n) \div 2

Init ==
  /\ st = [g \in Groups |-> "new"]
  /\ mustWait = [g \in Groups |-> 0]
  /\ sender = << >>
  /\ ok = Concurrent
  /\ loop = "waits"
  /\ sending = [e \in Emails |-> Nobody]
  /\ body = [e \in Emails |-> "empty"]
  /\ readers = [e \in Emails |-> {}]
  /\ buf = [g \in Groups |-> "rest"]
  /\ hosts = [g \in Groups |-> 0]
  /\ accErr = [g \in Groups |-> "nil"]
  /\ full = [g \in Groups |-> 0]

-----------------------------------------------------------------------------
\* send has read the body and gives the email a new buffer for each group ...
NewBody(e, rs) ==
  /\ body' = [body EXCEPT ![e] = "full"]
  /\ readers' = [readers EXCEPT ![e] = rs]

\* ... then starts a goroutine that pushes the group to the queue, ...
Enqueue(g) ==
  /\ st[g] = "new" /\ g \notin Local
  /\ sending[Entity[g]] = Nobody
  /\ NewBody(Entity[g], {})
  /\ st' = [st EXCEPT ![g] = "pushing"]
  /\ UNCHANGED <<mustWait, full, queueVars, sending, attemptVars>>

\* ... or delivers it itself, draining the buffer.
RelayInside(g) ==
  /\ st[g] = "new" /\ g \in Local
  /\ sending[Entity[g]] = Nobody
  /\ NewBody(Entity[g], {g})
  /\ sending' = [sending EXCEPT ![Entity[g]] = g]
  /\ st' = [st EXCEPT ![g] = "drain"]
  /\ UNCHANGED <<mustWait, full, queueVars, attemptVars>>

\* The end of Entity.WriteTo: the buffer that was read is empty.  It may no
\* longer be the buffer of the email.
Drained(g) ==
  LET e == Entity[g] IN
  /\ body' = [body EXCEPT ![e] = IF g \in readers[e] THEN "empty" ELSE @]
  /\ readers' = [readers EXCEPT ![e] = @ \ {g}]

\* The email is saved, or expanded to the members of the group, or lost to an
\* error that is only logged; rendering may fail before it drains the buffer.
StoreInside(g) ==
  /\ st[g] = "drain" /\ g \in Local
  /\ \/ Drained(g)
     \/ UNCHANGED body /\ readers' = [readers EXCEPT ![Entity[g]] = @ \ {g}]
  /\ sending' = [sending EXCEPT ![Entity[g]] = Nobody]
  /\ st' = [st EXCEPT ![g] = "stored"]
  /\ UNCHANGED <<mustWait, full, queueVars, attemptVars>>

-----------------------------------------------------------------------------
\* q.sender <- email, in the goroutine of Enqueue or of a retry.
Push(g) ==
  /\ st[g] = "pushing"
  /\ Len(sender) < 2
  /\ sender' = Append(sender, g)
  /\ st' = [st EXCEPT ![g] = "queued"]
  /\ UNCHANGED <<mustWait, full, ok, loop, entityVars, attemptVars>>

\* Loop takes a token, then an email for which it starts send.
TakeTokenUnchecked ==    \* mutant: does not wait for a token
  /\ loop = "waits"
  /\ ok' = ok - 1
  /\ loop' = "holds"
  /\ UNCHANGED <<st, mustWait, full, sender, entityVars, attemptVars>>

TakeToken ==
  /\ loop = "waits" /\ ok > 0
  /\ ok' = ok - 1
  /\ loop' = "holds"
  /\ UNCHANGED <<st, mustWait, full, sender, entityVars, attemptVars>>

TakeEmail ==
  /\ loop = "holds" /\ sender # << >>
  /\ sender' = Tail(sender)
  /\ st' = [st EXCEPT ![Head(sender)] = "render"]
  /\ loop' = "waits"
  /\ UNCHANGED <<mustWait, full, ok, entityVars, attemptVars>>

\* ctx is done: Loop returns, with the token it may hold.
Stop ==
  /\ loop # "returned"
  /\ loop' = "returned"
  /\ UNCHANGED <<st, mustWait, full, sender, ok, entityVars, attemptVars>>

-----------------------------------------------------------------------------
ReturnWithToken(g, err) ==    \* mutant: an email given up keeps its token
  /\ ok < Concurrent
  /\ LET again == Retries(err) /\ mustWait[g] <= MaxDuration IN
     /\ st' = [st EXCEPT ![g] = CASE err = "nil" -> "sent"
                                  [] again -> "sleeping"
                                  [] OTHER -> "dropped"]
     /\ mustWait' = [mustWait EXCEPT ![g] = IF again THEN NextWait(@) ELSE @]
  /\ ok' = IF st'[g] = "dropped" THEN ok ELSE ok + 1
  /\ buf' = [buf EXCEPT ![g] = "rest"]
  /\ hosts' = [hosts EXCEPT ![g] = 0]
  /\ accErr' = [accErr EXCEPT ![g] = "nil"]
  /\ UNCHANGED <<full, sender, loop, entityVars>>

ReturnForever(g, err) ==    \* mutant: MaxDuration is not looked at
  /\ ok < Concurrent
  /\ ok' = ok + 1
  /\ st' = [st EXCEPT ![g] = CASE err = "nil" -> "sent"
                               [] Retries(err) -> "sleeping"
                               [] OTHER -> "dropped"]
  /\ mustWait' = [mustWait EXCEPT ![g] = IF Retries(err) THEN NextWait(@) ELSE @]
  /\ buf' = [buf EXCEPT ![g] = "rest"]
  /\ hosts' = [hosts EXCEPT ![g] = 0]
  /\ accErr' = [accErr EXCEPT ![g] = "nil"]
  /\ UNCHANGED <<full, sender, loop, entityVars>>

\* send: relayOutside returned err.  The deferred function gives the token
\* back; what can be tried again sleeps first, unless it has waited enough.
Return(g, err) ==
  /\ ok < Concurrent
  /\ ok' = ok + 1
  /\ LET again == Retries(err) /\ mustWait[g] <= MaxDuration IN
     /\ st' = [st EXCEPT ![g] = CASE err = "nil" -> "sent"
                                  [] again -> "sleeping"
                                  [] OTHER -> "dropped"]
     /\ mustWait' = [mustWait EXCEPT ![g] = IF again THEN NextWait(@) ELSE @]
  /\ buf' = [buf EXCEPT ![g] = "rest"]
  /\ hosts' = [hosts EXCEPT ![g] = 0]
  /\ accErr' = [accErr EXCEPT ![g] = "nil"]
  /\ UNCHANGED <<full, sender, loop, entityVars>>

\* relayOutside renders the email: the header and what the body still holds.
\* An email that cannot be rendered is given up.
RenderBegin(g) ==
  LET e == Entity[g] IN
  /\ st[g] = "render"
  /\ \/ /\ buf' = [buf EXCEPT ![g] = IF body[e] = "full" THEN "full" ELSE "rest"]
        /\ readers' = [readers EXCEPT ![e] = @ \cup {g}]
        /\ st' = [st EXCEPT ![g] = "drain"]
        /\ UNCHANGED <<mustWait, full, queueVars, sending, body, hosts, accErr>>
     \/ Return(g, "other")

RenderEnd(g) ==
  /\ st[g] = "drain" /\ g \notin Local
  /\ Drained(g)
  /\ st' = [st EXCEPT ![g] = "lookup"]
  /\ UNCHANGED <<mustWait, full, queueVars, sending, attemptVars>>

\* relaysOf: the lookup of the domain's MX records.
LookupMX(g) ==
  /\ st[g] = "lookup"
  /\ \/ /\ st' = [st EXCEPT ![g] = "relay"]
        /\ UNCHANGED <<mustWait, full, queueVars, entityVars, attemptVars>>
     \/ \E err \in DnsErrors : Return(g, err)

SendMailRewinds(g) ==    \* mutant: every relay gets the whole buffer
  /\ st[g] = "relay" /\ hosts[g] < MaxHosts
  /\ hosts' = [hosts EXCEPT ![g] = @ + 1]
  /\ \/ /\ full' = [full EXCEPT ![g] = IF buf[g] = "full" THEN @ + 1 ELSE @]
        /\ UNCHANGED accErr
     \/ /\ \E err \in Errors : accErr' = [accErr EXCEPT ![g] = Join(@, err)]
        /\ UNCHANGED full
  /\ UNCHANGED <<st, mustWait, buf, queueVars, entityVars>>

\* One relay: the email is accepted, or an error is noted; either way the next
\* relay is tried.  A relay that fails after DATA has also drained buf.
SendMail(g) ==
  /\ st[g] = "relay" /\ hosts[g] < MaxHosts
  /\ hosts' = [hosts EXCEPT ![g] = @ + 1]
  /\ \/ /\ full' = [full EXCEPT ![g] = IF buf[g] = "full" THEN @ + 1 ELSE @]
        /\ buf' = [buf EXCEPT ![g] = "rest"]
        /\ UNCHANGED accErr
     \/ /\ \E err \in Errors : accErr' = [accErr EXCEPT ![g] = Join(@, err)]
        /\ buf' \in {buf, [buf EXCEPT ![g] = "rest"]}
        /\ UNCHANGED full
  /\ UNCHANGED <<st, mustWait, queueVars, entityVars>>

\* The relays are exhausted; there was at least one.
RelayEnd(g) ==
  /\ st[g] = "relay" /\ hosts[g] > 0
  /\ Return(g, accErr[g])

\* The sleep before a retry is over.
WakeUp(g) ==
  /\ st[g] = "sleeping"
  /\ st' = [st EXCEPT ![g] = "pushing"]
  /\ UNCHANGED <<mustWait, full, queueVars, entityVars, attemptVars>>

-----------------------------------------------------------------------------
Work(g) ==
  \/ StoreInside(g)
  \/ RenderBegin(g)
  \/ RenderEnd(g)
  \/ LookupMX(g)
  \/ SendMail(g)
  \/ RelayEnd(g)
  \/ WakeUp(g)

Next ==
  \/ \E g \in Groups : Enqueue(g) \/ RelayInside(g) \/ Push(g) \/ Work(g)
  \/ TakeToken
  \/ TakeEmail
  \/ Stop

Spec == Init /\ [][Next]_vars

\* Goroutines that can run are run, and a goroutine that waits on a channel is
\* served: Go queues them.  Nothing forces a new email, or the daemon to stop.
Fairness ==
  /\ WF_vars(TakeToken)
  /\ WF_vars(TakeEmail)
  /\ \A g \in Groups : WF_vars(Push(g)) /\ WF_vars(Work(g))

FairSpec == Spec /\ Fairness

-----------------------------------------------------------------------------
\* Types; the number of tokens stays within the capacity of Queue.ok.
TypeOK ==
  /\ st \in [Groups -> Stages]
  /\ mustWait \in [Groups -> Nat]
  /\ sender \in Seq(Groups)
  /\ ok \in 0..Concurrent
  /\ loop \in {"waits", "holds", "returned"}
  /\ sending \in [Emails -> Local \cup {Nobody}]
  /\ body \in [Emails -> {"full", "empty"}]
  /\ readers \in [Emails -> SUBSET Groups]
  /\ buf \in [Groups -> {"rest", "full"}]
  /\ hosts \in [Groups -> 0..MaxHosts]
  /\ accErr \in [Groups -> Errors \cup {"nil"}]
  /\ full \in [Groups -> Nat]

\* The groups a goroutine of Queue.send works for.
Relaying == {g \in Groups \ Local : st[g] \in Attempt}

\* No token is lost or made up while Loop runs: a token is in the channel, held
\* by Loop, or used by a send.  So the deferred "q.ok <- struct{}{}" of a send
\* never blocks, and at most concurrent_sender emails are relayed at a time
\* ("number of concurrent thread to relay email outside").
Tokens ==
  LET used == ok + Cardinality(Relaying) + (IF loop = "holds" THEN 1 ELSE 0)
  IN /\ used <= Concurrent
     /\ loop # "returned" => used = Concurrent

\* The groups that send has given a buffer for.
Begun(e) == {h \in Groups : Entity[h] = e /\ st[h] # "new"}

\* However many relays a domain has and however often an email is retried, its
\* group gets at most one complete copy for each buffer that send made for the
\* email: rendering drains Body and the first DATA drains buf.  An email to a
\* single domain is never delivered twice in full.
CompleteCopies ==
  \A g \in Groups : full[g] <= Cardinality(Begun(Entity[g]))

\* Every group that was enqueued is relayed or given up in the end, unless the
\* daemon stops: the retries of a group are finitely many.
Settles ==
  \A g \in Groups : st[g] # "new" ~> st[g] \in Settled \/ loop = "returned"

\* A retry waits longer than the one before it, although the growth by half
\* rounds down and starts from 0, and never longer than MaxDuration and a half.
BackoffGrows ==
  [][\A g \in Groups : mustWait'[g] # mustWait[g] =>
       mustWait'[g] > mustWait[g] /\ mustWait'[g] <= NextWait(MaxDuration)]_vars
=============================================================================
