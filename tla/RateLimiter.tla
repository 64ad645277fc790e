----------------------------- MODULE RateLimiter -----------------------------
(***************************************************************************)
(* The limiter of connections (auth/ratelimit.go): what it remembers of    *)
(* one address.  Sessions report failed and successful logins (Limit,      *)
(* Accept), the listeners of SMTP and IMAP ask whether to drop a           *)
(* connection (IsLimited), and every offence starts a goroutine, increase, *)
(* that waits for the penalty to end.  The goroutines share a Limited that *)
(* no lock protects.  Addresses do not affect each other, so one is the    *)
(* whole system.                                                           *)
(*                                                                         *)
(* A channel is named after the goroutine that made it.  Time counts in    *)
(* units, Soon for "5 minutes" and Later for "1 hour".  A timer may fire    *)
(* late by any time, which stands for the random bonus drawn from acc too. *)
(***************************************************************************)
EXTENDS Integers, FiniteSets

CONSTANTS
  Tasks,       \* the goroutines of increase; bound on the offences
  Objs,        \* the Limited structures; bound on the entries made
  Listeners,   \* the LimiterListeners
  None,        \* no structure, no channel
  Soon, Later, \* the two waits of increase
  MaxTime,     \* bound: the last instant of the clock
  Regimes      \* whether handlers are taken to be prompt: see Quiet

ASSUME LimiterAssumption ==
  /\ None \notin Tasks \cup Objs
  /\ Soon \in Nat \ {0} /\ Later \in Nat \ {0}
  /\ MaxTime \in Nat
  /\ Regimes \subseteq BOOLEAN

VARIABLES
  entry,      \* RateLimiter.limited[ip]
  limited,    \* Limited.limited, of each structure
  cancel,     \* Limited.cancel
  made,       \* the structures allocated so far
  closed,     \* the channels that are closed
  pc, obj,    \* each goroutine: where it stands, its receiver,
  chan, due,  \* the channel and the deadline it selects on
  seen,       \* what IsLimited returned to each listener
  now,        \* the clock
  alive,      \* FALSE once a goroutine has panicked: the daemon is dead
  panicked,   \* history: a close of a nil or closed channel
  fails,      \* history: failed logins since the address was last forgotten
  last,       \* history: the time of the last offence
  prompt      \* the regime of this behaviour

objVars == <<limited, cancel, made, closed>>
taskVars == <<pc, obj, chan, due>>
histVars == <<panicked, fails, last>>
vars == <<entry, objVars, taskVars, histVars, seen, now, alive, prompt>>

Running == {"close", "make", "select", "reselect", "delete"}
Waiting == {"wait", "keep"}

\* Every handler and goroutine has run to its next wait.  In the prompt regime
\* nothing new begins before: what a caller expects who takes the handlers to
\* be atomic.
Quiet ==
  /\ \A t \in Tasks : /\ pc[t] \notin Running
                      /\ pc[t] \in Waiting => chan[t] \notin closed
  /\ \A l \in Listeners : seen[l] = None

MayBegin == alive /\ (prompt => Quiet)

Init ==
  /\ entry = None
  /\ limited = [o \in Objs |-> FALSE]
  /\ cancel = [o \in Objs |-> None]
  /\ made = {} /\ closed = {}
  /\ pc = [t \in Tasks |-> "new"]
  /\ obj = [t \in Tasks |-> None]
  /\ chan = [t \in Tasks |-> None]
  /\ due = [t \in Tasks |-> 0]
  /\ seen = [l \in Listeners |-> None]
  /\ now = 0 /\ alive = TRUE
  /\ panicked = FALSE /\ fails = 0 /\ last = 0
  /\ prompt \in Regimes

-----------------------------------------------------------------------------
GoNil(t, o) ==    \* mutant: the receiver is not the structure of the map
  /\ pc[t] = "new"
  /\ pc' = [pc EXCEPT ![t] = "close"]
  /\ UNCHANGED <<obj, chan, due>>

\* go v.increase(...)
Go(t, o) ==
  /\ pc[t] = "new"
  /\ pc' = [pc EXCEPT ![t] = "close"]
  /\ obj' = [obj EXCEPT ![t] = o]
  /\ UNCHANGED <<chan, due>>

LimitAtOnce(t) ==    \* mutant: the first failed login is punished
  /\ MayBegin
  /\ \E o \in IF entry = None THEN Objs \ made ELSE {entry} :
       /\ entry' = o
       /\ made' = made \cup {o}
       /\ limited' = [limited EXCEPT ![o] = TRUE]
       /\ Go(t, o)
  /\ fails' = fails + 1 /\ last' = now
  /\ UNCHANGED <<cancel, closed, seen, now, alive, panicked, prompt>>

\* A login failed.  The first failure is only noted.
Limit(t) ==
  /\ MayBegin
  /\ \E o \in IF entry = None THEN Objs \ made ELSE {entry} :
       /\ entry' = o
       /\ made' = made \cup {o}
       /\ limited' = [limited EXCEPT ![o] = (entry # None)]
       /\ Go(t, o)
  /\ fails' = fails + 1 /\ last' = now
  /\ UNCHANGED <<cancel, closed, seen, now, alive, panicked, prompt>>

\* A login succeeded: the address is forgotten.  Closing a channel that is nil,
\* since increase has not run yet, or that is closed panics in the session; its
\* entry stays then.
Accept ==
  /\ MayBegin /\ entry # None
  /\ LET ch == cancel[entry] IN
     IF ch = None \/ ch \in closed
     THEN panicked' = TRUE /\ UNCHANGED <<entry, closed, fails>>
     ELSE closed' = closed \cup {ch} /\ entry' = None /\ fails' = 0 /\ UNCHANGED panicked
  /\ UNCHANGED <<limited, cancel, made, taskVars, seen, now, alive, last, prompt>>

\* LimiterListener.Accept: a connection comes, IsLimited finds its address ...
IsLimited(l) ==
  /\ MayBegin
  /\ seen[l] = None /\ entry # None /\ limited[entry]
  /\ seen' = [seen EXCEPT ![l] = entry]
  /\ UNCHANGED <<entry, objVars, taskVars, histVars, now, alive, prompt>>

\* ... and the connection is dropped, without the lock of the limiter.
Drop(l, t) ==
  /\ alive /\ seen[l] # None
  /\ limited' = [limited EXCEPT ![seen[l]] = TRUE]
  /\ Go(t, seen[l])
  /\ seen' = [seen EXCEPT ![l] = None]
  /\ last' = now
  /\ UNCHANGED <<entry, cancel, made, closed, now, alive, panicked, fails, prompt>>

-----------------------------------------------------------------------------
Step(t, from, to) ==
  /\ alive /\ pc[t] = from
  /\ pc' = [pc EXCEPT ![t] = to]

CloseAlways(t) ==    \* mutant: the channel may still be nil
  LET ch == cancel[obj[t]] IN
  /\ Step(t, "close", "make")
  /\ IF ch = None \/ ch \in closed
     THEN alive' = FALSE /\ panicked' = TRUE /\ UNCHANGED closed
     ELSE closed' = closed \cup {ch} /\ UNCHANGED <<alive, panicked>>
  /\ UNCHANGED <<entry, limited, cancel, made, obj, chan, due, seen, now, fails, last, prompt>>

CloseNothing(t) ==    \* mutant: earlier goroutines are not told
  /\ Step(t, "close", "make")
  /\ UNCHANGED <<entry, limited, cancel, made, closed, obj, chan, due, seen, now,
                 alive, panicked, fails, last, prompt>>

\* increase: tell the goroutine of the offence before, if its channel is made, ...
Close(t) ==
  LET ch == cancel[obj[t]] IN
  /\ Step(t, "close", "make")
  /\ \/ ch = None /\ UNCHANGED <<closed, alive, panicked>>
     \/ ch \in Tasks \ closed /\ closed' = closed \cup {ch} /\ UNCHANGED <<alive, panicked>>
     \/ ch \in closed /\ alive' = FALSE /\ panicked' = TRUE /\ UNCHANGED closed
  /\ UNCHANGED <<entry, limited, cancel, made, obj, chan, due, seen, now, fails, last, prompt>>

\* ... make a channel for the next one, ...
Make(t) ==
  /\ Step(t, "make", "select")
  /\ cancel' = [cancel EXCEPT ![obj[t]] = t]
  /\ UNCHANGED <<entry, limited, made, closed, obj, chan, due, histVars,
                 seen, now, alive, prompt>>

\* ... wait on the channel found there now, or for the penalty to end.
Select(t, wait, from, to) ==
  /\ Step(t, from, to)
  /\ chan' = [chan EXCEPT ![t] = cancel[obj[t]]]
  /\ due' = [due EXCEPT ![t] = now + wait]
  /\ UNCHANGED <<entry, objVars, obj, histVars, seen, now, alive, prompt>>

\* The goroutine returns; its variables are gone.
End(t, from) ==
  /\ Step(t, from, "done")
  /\ obj' = [obj EXCEPT ![t] = None]
  /\ chan' = [chan EXCEPT ![t] = None]
  /\ due' = [due EXCEPT ![t] = 0]

Cancelled(t) ==
  /\ pc[t] \in Waiting /\ chan[t] \in closed
  /\ End(t, pc[t])
  /\ UNCHANGED <<entry, objVars, histVars, seen, now, alive, prompt>>

\* time.After fires at its deadline or later.
Expire(t) ==
  /\ MayBegin /\ due[t] <= now
  /\ Step(t, "wait", "reselect")
  /\ limited' = [limited EXCEPT ![obj[t]] = FALSE]
  /\ UNCHANGED <<entry, cancel, made, closed, obj, chan, due, histVars,
                 seen, now, alive, prompt>>

\* The second wait is over; the goroutine still has to get the lock ...
Elapse(t) ==
  /\ MayBegin /\ due[t] <= now
  /\ Step(t, "keep", "delete")
  /\ UNCHANGED <<entry, objVars, obj, chan, due, histVars, seen, now, alive, prompt>>

\* ... and deletes whatever is known of the address by then.
Delete(t) ==
  /\ End(t, "delete")
  /\ entry' = None /\ fails' = 0
  /\ UNCHANGED <<objVars, panicked, last, seen, now, alive, prompt>>

Tick ==
  /\ MayBegin /\ now < MaxTime
  /\ now' = now + 1
  /\ UNCHANGED <<entry, objVars, taskVars, histVars, seen, alive, prompt>>

Increase(t) ==
  \/ Close(t)
  \/ Make(t)
  \/ Select(t, Soon, "select", "wait")
  \/ Select(t, Later, "reselect", "keep")
  \/ Cancelled(t)
  \/ Expire(t)
  \/ Elapse(t)
  \/ Delete(t)

Next ==
  \/ \E t \in Tasks : Limit(t) \/ Increase(t)
  \/ \E l \in Listeners : IsLimited(l) \/ \E t \in Tasks : Drop(l, t)
  \/ Accept
  \/ Tick

Spec == Init /\ [][Next]_vars

-----------------------------------------------------------------------------
\* Types; the map, the listeners and the goroutines know only structures that
\* were allocated, and a goroutine that runs has one.
TypeOK ==
  /\ entry \in made \cup {None} /\ made \subseteq Objs
  /\ limited \in [Objs -> BOOLEAN]
  /\ cancel \in [Objs -> Tasks \cup {None}]
  /\ closed \subseteq Tasks
  /\ pc \in [Tasks -> Running \cup Waiting \cup {"new", "done"}]
  /\ obj \in [Tasks -> made \cup {None}]
  /\ \A t \in Tasks : pc[t] \in Running \cup Waiting => obj[t] # None
  /\ seen \in [Listeners -> made \cup {None}]
  /\ fails \in Nat
  /\ chan \in [Tasks -> Tasks \cup {None}]

\* Connections of an address are dropped only after two failed logins since it
\* was last forgotten, whatever goroutines of earlier penalties are about: what
\* a listener marks late is a structure that is no longer in the map.
SecondOffence ==
  entry # None /\ limited[entry] => fails >= 2

\* When every handler runs to its next wait before the next one begins, no
\* channel is closed twice, nor before it is made.
NoPanic == prompt => ~ panicked

\* Likewise, a penalty is lifted only when the address has been quiet for 5
\* minutes: each offence calls off the timers of those before it.
PenaltyLasts ==
  [][\A t \in Tasks : prompt /\ Expire(t) /\ obj[t] = entry => now >= last + Soon]_vars

\* An address is forgotten only an hour or more after its last offence, unless
\* a login succeeds: "save it for a certain time (at least 1h) to catch slow
\* scanners".
Remembers(t) == Delete(t) /\ entry # None => now >= last + Later
Remembered == [][\A t \in Tasks : Remembers(t)]_vars

\* The same, when every handler runs to its next wait before the next begins:
\* then no timer is left over that forgets the address early.
PromptRemembered == [][prompt => \A t \in Tasks : Remembers(t)]_vars
=============================================================================
