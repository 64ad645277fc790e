------------------------------- MODULE Views -------------------------------
(***************************************************************************)
(* A View of a mailbox and the clients that wait on it with IDLE           *)
(* (mailbox/view.go).  Idle registers the writer of its client under the   *)
(* lock, waits until it is told to stop or the writer fails, and takes the *)
(* writer out again.  WriteNewMessages, WriteExpunge, WriteMailboxFlags    *)
(* and WriteMessageFlags run the same loop: under the read lock they write *)
(* to one registered writer after the other, in the order of the map, and  *)
(* give up at the first that fails, after handing the error to its Idle    *)
(* through a channel of one place.                                         *)
(*                                                                         *)
(* The lock is a sync.RWMutex: a goroutine that calls Lock shuts new       *)
(* readers out at once and then waits for the readers that are in; when it *)
(* unlocks, every reader that waited comes in.                             *)
(*                                                                         *)
(* What is written is left out, and with it View.Count.                    *)
(***************************************************************************)
EXTENDS Naturals, FiniteSets

CONSTANTS
  Clients,     \* sessions that may IDLE on the view
  Notifiers,   \* calls of the Write functions
  MaxIdles     \* bound: the IDLE commands of a client

ASSUME ViewsAssumption ==
  /\ IsFiniteSet(Clients) /\ IsFiniteSet(Notifiers)
  /\ MaxIdles \in Nat

VARIABLES
  writers,   \* View.writers, the clients that are registered
  errc,      \* the clients whose channel errc holds an error
  idle,      \* where the Idle of each client stands
  idles,     \* the IDLE commands a client may still send
  broken,    \* the clients whose connection fails
  readers,   \* View.mu: the calls that hold the read lock,
  rwait,     \*   those that wait for it,
  locker,    \*   and the client that has called Lock
  call,      \* where each call of a Write function stands
  todo,      \* the writers its loop has yet to reach
  present,   \* history: clients that wait in select since the call began
  heard,     \* history: the clients a call has written to
  fails      \* history: errors met by the writer of the current Idle

lockVars == <<readers, rwait, locker>>
clientVars == <<writers, errc, idle, idles, broken>>
callVars == <<call, todo, present, heard, fails>>
viewVars == <<lockVars, clientVars, callVars>>

Nobody == "nobody"    \* neither a client nor a call

ViewInit ==
  /\ writers = {} /\ errc = {} /\ broken = {}
  /\ idle = [c \in Clients |-> "out"]
  /\ idles \in [Clients -> 0..MaxIdles]
  /\ readers = {} /\ rwait = {} /\ locker = Nobody
  /\ call = [n \in Notifiers |-> "new"]
  /\ todo = [n \in Notifiers |-> {}]
  /\ present = [n \in Notifiers |-> {}]
  /\ heard = [n \in Notifiers |-> {}]
  /\ fails = [c \in Clients |-> 0]

-----------------------------------------------------------------------------
\* The end of Lock ... Unlock: the calls that waited start their loops.
Unlock ==
  /\ locker' = Nobody
  /\ readers' = rwait
  /\ rwait' = {}
  /\ call' = [n \in Notifiers |-> IF n \in rwait THEN "loop" ELSE call[n]]
  /\ todo' = [n \in Notifiers |-> IF n \in rwait THEN writers' ELSE todo[n]]

\* v.mu.Lock at the start of Idle, and in the function that it defers.
Enter(c) ==
  /\ idle[c] = "out" /\ idles[c] > 0 /\ locker = Nobody
  /\ locker' = c
  /\ idles' = [idles EXCEPT ![c] = @ - 1]
  /\ UNCHANGED <<readers, rwait, writers, errc, idle, broken, callVars>>

Leave(c) ==
  /\ idle[c] = "leave" /\ locker = Nobody
  /\ locker' = c
  /\ UNCHANGED <<readers, rwait, clientVars, callVars>>

\* The readers are out.  The channel errc is new.
Register(c) ==
  /\ idle[c] = "out" /\ locker = c /\ readers = {}
  /\ writers' = writers \cup {c}
  /\ errc' = errc \ {c}
  /\ idle' = [idle EXCEPT ![c] = "select"]
  /\ fails' = [fails EXCEPT ![c] = 0]
  /\ Unlock
  /\ UNCHANGED <<idles, broken, present, heard>>

Unregister(c) ==
  /\ idle[c] = "leave" /\ locker = c /\ readers = {}
  /\ writers' = writers \ {c}
  /\ idle' = [idle EXCEPT ![c] = "out"]
  /\ Unlock
  /\ UNCHANGED <<errc, idles, broken, present, heard, fails>>

\* The select of Idle: ctx is done or the client stops, ...
StopIdle(c) ==
  /\ idle[c] = "select"
  /\ idle' = [idle EXCEPT ![c] = "leave"]
  /\ present' = [n \in Notifiers |-> present[n] \ {c}]
  /\ UNCHANGED <<writers, errc, idles, broken, lockVars, call, todo, heard, fails>>

\* ... or a call found that its writer fails.
TakeError(c) ==
  /\ idle[c] = "select" /\ c \in errc
  /\ errc' = errc \ {c}
  /\ idle' = [idle EXCEPT ![c] = "leave"]
  /\ present' = [n \in Notifiers |-> present[n] \ {c}]
  /\ UNCHANGED <<writers, idles, broken, lockVars, call, todo, heard, fails>>

\* From now on writing to the client fails; before it registers nobody tries.
Break(c) ==
  /\ c \in writers \ broken
  /\ broken' = broken \cup {c}
  /\ UNCHANGED <<writers, errc, idle, idles, lockVars, callVars>>

-----------------------------------------------------------------------------
\* v.mu.RLock.
RLock(n) ==
  /\ call[n] = "new"
  /\ present' = [present EXCEPT ![n] = {c \in Clients : idle[c] = "select"}]
  /\ \/ /\ locker = Nobody
        /\ readers' = readers \cup {n}
        /\ call' = [call EXCEPT ![n] = "loop"]
        /\ todo' = [todo EXCEPT ![n] = writers]
        /\ UNCHANGED rwait
     \/ /\ locker # Nobody
        /\ rwait' = rwait \cup {n}
        /\ call' = [call EXCEPT ![n] = "rlock"]
        /\ UNCHANGED <<readers, todo>>
  /\ UNCHANGED <<locker, clientVars, heard, fails>>

WriteOneOnly(n, c) ==    \* mutant: returns after the first writer
  /\ call[n] = "loop" /\ c \in todo[n] /\ c \notin broken
  /\ heard' = [heard EXCEPT ![n] = @ \cup {c}]
  /\ todo' = [todo EXCEPT ![n] = {}]
  /\ UNCHANGED <<lockVars, clientVars, call, present, fails>>

\* One turn of the loop: the write succeeds ...
Write(n, c) ==
  /\ call[n] = "loop" /\ c \in todo[n] /\ c \notin broken
  /\ heard' = [heard EXCEPT ![n] = @ \cup {c}]
  /\ todo' = [todo EXCEPT ![n] = @ \ {c}]
  /\ UNCHANGED <<lockVars, clientVars, call, present, fails>>

\* ... or fails, and errc <- err is next; the read lock is held meanwhile.
WriteFails(n, c) ==
  /\ call[n] = "loop" /\ c \in todo[n] /\ c \in broken
  /\ call' = [call EXCEPT ![n] = "send"]
  /\ todo' = [todo EXCEPT ![n] = {c}]
  /\ fails' = [fails EXCEPT ![c] = @ + 1]
  /\ UNCHANGED <<lockVars, clientVars, present, heard>>

SendErrorNoBuffer(n, c) ==    \* mutant: errc has no place
  /\ call[n] = "send" /\ c \in todo[n]
  /\ idle[c] = "select"
  /\ idle' = [idle EXCEPT ![c] = "leave"]
  /\ present' = [m \in Notifiers |-> present[m] \ {c}]
  /\ readers' = readers \ {n}
  /\ call' = [call EXCEPT ![n] = "gaveup"]
  /\ UNCHANGED <<rwait, locker, writers, errc, idles, broken, todo, heard, fails>>

\* The channel has room; the call returns.
SendError(n, c) ==
  /\ call[n] = "send" /\ c \in todo[n]
  /\ c \notin errc
  /\ errc' = errc \cup {c}
  /\ readers' = readers \ {n}
  /\ call' = [call EXCEPT ![n] = "gaveup"]
  /\ UNCHANGED <<rwait, locker, writers, idle, idles, broken, todo, present, heard, fails>>

\* Every writer was reached; the call returns.
RUnlock(n) ==
  /\ call[n] = "loop" /\ todo[n] = {}
  /\ readers' = readers \ {n}
  /\ call' = [call EXCEPT ![n] = "done"]
  /\ UNCHANGED <<rwait, locker, clientVars, todo, present, heard, fails>>

-----------------------------------------------------------------------------
ClientStep(c) == Leave(c) \/ Register(c) \/ Unregister(c) \/ TakeError(c)

CallStep(n) ==
  \/ \E c \in Clients : Write(n, c) \/ WriteFails(n, c) \/ SendError(n, c)
  \/ RUnlock(n)

ViewNext ==
  \/ \E c \in Clients : Enter(c) \/ StopIdle(c) \/ Break(c) \/ ClientStep(c)
  \/ \E n \in Notifiers : RLock(n) \/ CallStep(n)

ViewSpec == ViewInit /\ [][ViewNext]_viewVars

-----------------------------------------------------------------------------
\* Types; each client has at most one goroutine in Idle.
ViewTypeOK ==
  /\ writers \subseteq Clients /\ errc \subseteq Clients /\ broken \subseteq Clients
  /\ idle \in [Clients -> {"out", "select", "leave"}]
  /\ idles \in [Clients -> 0..MaxIdles]
  /\ readers \subseteq Notifiers /\ rwait \subseteq Notifiers
  /\ locker \in Clients \cup {Nobody}
  /\ call \in [Notifiers -> {"new", "rlock", "loop", "send", "done", "gaveup"}]
  /\ todo \in [Notifiers -> SUBSET Clients]
  /\ present \in [Notifiers -> SUBSET Clients]
  /\ heard \in [Notifiers -> SUBSET Clients]
  /\ fails \in [Clients -> Nat]

\* A client that waits in the select of Idle from before an update is written
\* until the call of it returns is told of the update, whoever registers,
\* leaves or waits for the lock meanwhile; only a call that met a connection
\* that fails may leave clients out.  (Of deliveries to INBOX no call tells the
\* view of INBOX: see Notify in Daemon.)
HearsEverything ==
  \A n \in Notifiers : call[n] = "done" => present[n] \subseteq heard[n]
=============================================================================
