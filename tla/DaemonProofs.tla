---------------------------- MODULE DaemonProofs ----------------------------
(***************************************************************************)
(* What holds of the daemon for any number of clients and of updates, and  *)
(* however often its files change and it is told to reload: clients hear   *)
(* of what they waited for, and the position saved on a stop lacks only    *)
(* the stores that were under way.                                         *)
(*                                                                         *)
(* The invariant of the views follows an update through the lock.  While   *)
(* it waits for the read lock, the clients that were present still select, *)
(* so they are registered and its loop will find them.  While it holds the *)
(* lock nobody registers or leaves the map, and a client that was present  *)
(* is still to be written to or was written to.                            *)
(*                                                                         *)
(* What holds of the filters that it loads, for any statements nested to   *)
(* any depth, any emails and any value of the expressions: a sub-filter or *)
(* a file that fails leaves nothing in the result, and a terminal action   *)
(* stops a file whose sub-filters have theirs last.  A statement reads     *)
(* nothing of the header changes, so it answers alike in contexts that     *)
(* differ in these only; that and what follows is shown by induction along *)
(* the nesting and, for each level, along the loop over the statements.    *)
(***************************************************************************)
EXTENDS Daemon, FilterEval,
        FiniteSetTheorems, WellFoundedInduction, SequenceTheorems, TLAPS

\* Who holds the read lock or waits for it, in the words of the calls.
LockInv ==
  /\ \A n \in Notifiers : n \in readers <=> call[n] \in {"loop", "send"}
  /\ \A n \in Notifiers : n \in rwait <=> call[n] = "rlock"

\* A client in select is registered.
SelectInv == \A c \in Clients : idle[c] = "select" => c \in writers

\* Where the clients that an update owes something stand.
PresentInv ==
  \A n \in Notifiers :
    /\ call[n] = "rlock" => \A c \in present[n] : idle[c] = "select"
    /\ call[n] = "loop" => present[n] \subseteq todo[n] \cup heard[n]
    /\ call[n] = "done" => present[n] \subseteq heard[n]

ViewInv == ViewTypeOK /\ LockInv /\ SelectInv /\ PresentInv

\* The invariant holds at the start: no call of a Write function has begun.
LEMMA ViewStarts == ViewInit => ViewInv
  BY DEF ViewInit, ViewInv, ViewTypeOK, LockInv, SelectInv, PresentInv

-----------------------------------------------------------------------------
\* The end of a critical section of Idle preserves what the invariant says of
\* the calls, if what it does to the map and to its client is in order: the
\* clients in select stay there, and they are in the map.
LEMMA UnlockInv ==
  ASSUME ViewInv, Unlock, readers = {},
         writers' \in SUBSET Clients,
         idle' \in [Clients -> {"out", "select", "leave"}],
         \A c \in Clients : idle[c] = "select" => idle'[c] = "select",
         \A c \in Clients : idle'[c] = "select" => c \in writers',
         UNCHANGED <<present, heard>>
  PROVE  LockInv' /\ PresentInv'
             /\ call' \in [Notifiers -> {"new", "rlock", "loop", "send", "done", "gaveup"}]
             /\ todo' \in [Notifiers -> SUBSET Clients]
<1>1. \A n \in Notifiers :
        /\ call'[n] = IF n \in rwait THEN "loop" ELSE call[n]
        /\ todo'[n] = IF n \in rwait THEN writers' ELSE todo[n]
  BY DEF Unlock
<1>2. readers' = rwait /\ rwait' = {}
  BY DEF Unlock
<1>3. \A n \in Notifiers : call[n] \notin {"loop", "send"}
  BY DEF ViewInv, LockInv
<1>4. LockInv'
  BY <1>1, <1>2, <1>3 DEF ViewInv, LockInv
<1>5. PresentInv'
  <2> SUFFICES ASSUME NEW n \in Notifiers
               PROVE  /\ call'[n] = "rlock" => \A c \in present[n] : idle'[c] = "select"
                      /\ call'[n] = "loop" => present[n] \subseteq todo'[n] \cup heard[n]
                      /\ call'[n] = "done" => present[n] \subseteq heard[n]
    BY DEF PresentInv
  <2>1. present[n] \subseteq Clients
    BY DEF ViewInv, ViewTypeOK
  <2>2. CASE n \in rwait
    <3>1. \A c \in present[n] : c \in writers'
      BY <2>1, <2>2 DEF ViewInv, LockInv, PresentInv
    <3>2. QED
      BY <1>1, <2>2, <3>1
  <2>3. CASE n \notin rwait
    BY <1>1, <1>3, <2>3 DEF ViewInv, LockInv, PresentInv
  <2>4. QED
    BY <2>2, <2>3
<1>6. QED
  BY <1>4, <1>5, <1>1 DEF Unlock, ViewInv, ViewTypeOK

\* Leaving the select forgets the client in every update that is under way.
LEMMA LeavesSelect ==
  ASSUME ViewInv, NEW c \in Clients,
         idle' = [idle EXCEPT ![c] = "leave"],
         present' = [n \in Notifiers |-> present[n] \ {c}],
         UNCHANGED <<writers, lockVars, call, todo, heard>>
  PROVE  LockInv' /\ SelectInv' /\ PresentInv'
<1>1. LockInv'
  BY DEF ViewInv, LockInv, lockVars
<1>2. SelectInv'
  BY DEF ViewInv, ViewTypeOK, SelectInv
<1>3. PresentInv'
  <2> SUFFICES ASSUME NEW n \in Notifiers
               PROVE  /\ call[n] = "rlock" => \A d \in present'[n] : idle'[d] = "select"
                      /\ call[n] = "loop" => present'[n] \subseteq todo[n] \cup heard[n]
                      /\ call[n] = "done" => present'[n] \subseteq heard[n]
    BY DEF PresentInv
  <2>1. present'[n] = present[n] \ {c} /\ present[n] \subseteq Clients
    BY DEF ViewInv, ViewTypeOK
  <2>2. \A d \in Clients : d # c => idle'[d] = idle[d]
    BY DEF ViewInv, ViewTypeOK
  <2>3. QED
    BY <2>1, <2>2 DEF ViewInv, PresentInv
<1>4. QED
  BY <1>1, <1>2, <1>3

-----------------------------------------------------------------------------
\* Every step of the clients, the updates and the lock preserves the invariant.
LEMMA ViewStep == ViewInv /\ [ViewNext]_viewVars => ViewInv'
<1> SUFFICES ASSUME ViewInv, [ViewNext]_viewVars
             PROVE  ViewInv'
  OBVIOUS
<1> USE DEF ViewInv, ViewTypeOK
<1>1. ASSUME NEW c \in Clients, Enter(c)
      PROVE  ViewInv'
  <2>1. idles' \in [Clients -> 0..MaxIdles]
    <3>1. idles[c] \in 0..MaxIdles /\ idles[c] > 0
      BY <1>1 DEF Enter
    <3>2. idles[c] - 1 \in 0..MaxIdles
      BY <3>1, ViewsAssumption
    <3>3. QED
      BY <1>1, <3>2 DEF Enter
  <2>2. QED
    BY <1>1, <2>1 DEF Enter, callVars, LockInv, SelectInv, PresentInv
<1>2. ASSUME NEW c \in Clients, Leave(c)
      PROVE  ViewInv'
  BY <1>2 DEF Leave, clientVars, callVars, LockInv, SelectInv, PresentInv
<1>3. ASSUME NEW c \in Clients, Register(c)
      PROVE  ViewInv'
  <2>1. writers' \in SUBSET Clients /\ idle' \in [Clients -> {"out", "select", "leave"}]
    BY <1>3 DEF Register
  <2>2. \A d \in Clients : idle[d] = "select" => idle'[d] = "select"
    BY <1>3 DEF Register
  <2>3. \A d \in Clients : idle'[d] = "select" => d \in writers'
    BY <1>3 DEF Register, SelectInv
  <2>4. /\ LockInv' /\ PresentInv'
        /\ call' \in [Notifiers -> {"new", "rlock", "loop", "send", "done", "gaveup"}]
        /\ todo' \in [Notifiers -> SUBSET Clients]
    BY <1>3, <2>1, <2>2, <2>3, UnlockInv DEF Register
  <2>5. SelectInv'
    BY <2>3 DEF SelectInv
  <2>6. QED
    BY <1>3, <2>1, <2>4, <2>5 DEF Register, Unlock
<1>4. ASSUME NEW c \in Clients, Unregister(c)
      PROVE  ViewInv'
  <2>1. writers' \in SUBSET Clients /\ idle' \in [Clients -> {"out", "select", "leave"}]
    BY <1>4 DEF Unregister
  <2>2. \A d \in Clients : idle[d] = "select" => idle'[d] = "select"
    BY <1>4 DEF Unregister
  <2>3. \A d \in Clients : idle'[d] = "select" => d \in writers'
    BY <1>4 DEF Unregister, SelectInv
  <2>4. /\ LockInv' /\ PresentInv'
        /\ call' \in [Notifiers -> {"new", "rlock", "loop", "send", "done", "gaveup"}]
        /\ todo' \in [Notifiers -> SUBSET Clients]
    BY <1>4, <2>1, <2>2, <2>3, UnlockInv DEF Unregister
  <2>5. SelectInv'
    BY <2>3 DEF SelectInv
  <2>6. QED
    BY <1>4, <2>1, <2>4, <2>5 DEF Unregister, Unlock
<1>5. ASSUME NEW c \in Clients, StopIdle(c)
      PROVE  ViewInv'
  <2>1. LockInv' /\ SelectInv' /\ PresentInv'
    BY <1>5, LeavesSelect, Zenon DEF StopIdle
  <2>2. QED
    BY <1>5, <2>1 DEF StopIdle, lockVars
<1>6. ASSUME NEW c \in Clients, TakeError(c)
      PROVE  ViewInv'
  <2>1. LockInv' /\ SelectInv' /\ PresentInv'
    BY <1>6, LeavesSelect, Zenon DEF TakeError
  <2>2. QED
    BY <1>6, <2>1 DEF TakeError, lockVars
<1>7. ASSUME NEW c \in Clients, Break(c)
      PROVE  ViewInv'
  BY <1>7 DEF Break, lockVars, callVars, LockInv, SelectInv, PresentInv
<1>8. ASSUME NEW n \in Notifiers, RLock(n)
      PROVE  ViewInv'
  <2>1. present'[n] = {c \in Clients : idle[c] = "select"}
    BY <1>8 DEF RLock
  <2>2. \A m \in Notifiers : m # n => /\ call'[m] = call[m]
                                      /\ todo'[m] = todo[m]
                                      /\ present'[m] = present[m]
    BY <1>8 DEF RLock
  <2>3. UNCHANGED <<idle, writers, heard>>
    BY <1>8 DEF RLock, clientVars
  <2>4. LockInv'
    BY <1>8, <2>2 DEF RLock, LockInv
  <2>5. SelectInv'
    BY <2>3 DEF SelectInv
  <2>6. PresentInv'
    BY <1>8, <2>1, <2>2, <2>3 DEF RLock, PresentInv, SelectInv
  <2>7. QED
    BY <1>8, <2>4, <2>5, <2>6 DEF RLock, clientVars
<1>9. ASSUME NEW n \in Notifiers, NEW c \in Clients, Write(n, c)
      PROVE  ViewInv'
  BY <1>9 DEF Write, lockVars, clientVars, LockInv, SelectInv, PresentInv
<1>10. ASSUME NEW n \in Notifiers, NEW c \in Clients, WriteFails(n, c)
       PROVE  ViewInv'
  BY <1>10 DEF WriteFails, lockVars, clientVars, LockInv, SelectInv, PresentInv
<1>11. ASSUME NEW n \in Notifiers, NEW c \in Clients, SendError(n, c)
       PROVE  ViewInv'
  BY <1>11 DEF SendError, LockInv, SelectInv, PresentInv
<1>12. ASSUME NEW n \in Notifiers, RUnlock(n)
       PROVE  ViewInv'
  BY <1>12 DEF RUnlock, clientVars, LockInv, SelectInv, PresentInv
<1>13. CASE UNCHANGED viewVars
  BY <1>13 DEF viewVars, lockVars, clientVars, callVars, LockInv, SelectInv, PresentInv
<1>14. QED
  BY <1>1, <1>2, <1>3, <1>4, <1>5, <1>6, <1>7, <1>8, <1>9, <1>10, <1>11, <1>12, <1>13
  DEF ViewNext, ClientStep, CallStep

\* For any number of clients and updates, a client that waits in the select of
\* Idle throughout a call of a Write function is written to, unless the call
\* met a connection that fails.
THEOREM ViewsHear == ViewSpec => []HearsEverything
<1>1. ViewInv => HearsEverything
  BY DEF ViewInv, PresentInv, HearsEverything
<1>2. QED
  BY ViewStarts, ViewStep, <1>1, PTL DEF ViewSpec

-----------------------------------------------------------------------------
\* A step of the daemon is a step of the view or leaves it alone.
LEMMA DaemonIsView == [Next]_vars => [ViewNext]_viewVars
<1> SUFFICES ASSUME [Next]_vars
             PROVE  ViewNext \/ UNCHANGED viewVars
  OBVIOUS
<1>1. ASSUME NEW n \in Notifiers, GetDB(n) \/ Commit(n)
      PROVE  UNCHANGED viewVars
  BY <1>1 DEF GetDB, Commit
<1>2. ASSUME NEW n \in Notifiers, Notify(n)
      PROVE  ViewNext
  BY <1>2 DEF Notify, ViewNext
<1>3. ASSUME View
      PROVE  ViewNext
  BY <1>3 DEF View, ViewNext
<1>4. ASSUME \/ SaveTimer \/ Signal \/ MainStops \/ ServerFails \/ CacheClose \/ Exit
             \/ Edit \/ Hup \/ TakeHup \/ ParseConfig \/ ParseFilters \/ Install
      PROVE  UNCHANGED viewVars
  BY <1>4 DEF SaveTimer, Signal, MainStops, ServerFails, CacheClose, Exit,
              Edit, Hup, TakeHup, ParseConfig, ParseFilters, Install
<1>5. CASE UNCHANGED vars
  BY <1>5 DEF vars
<1>6. QED
  BY <1>1, <1>2, <1>3, <1>4, <1>5 DEF Next

\* In the daemon, too, a client that waits in the select of Idle throughout the
\* call of a Write function is written to, while emails are stored, the
\* configuration is reloaded and the daemon stops.
THEOREM DaemonHears == Spec => []HearsEverything
<1>1. Init => ViewInv
  BY ViewStarts DEF Init
<1>2. ViewInv /\ [Next]_vars => ViewInv'
  BY DaemonIsView, ViewStep
<1>3. ViewInv => HearsEverything
  BY DEF ViewInv, PresentInv, HearsEverything
<1>4. QED
  BY <1>1, <1>2, <1>3, PTL DEF Spec

-----------------------------------------------------------------------------
\* The stores that were under way when Cache.Close ran and ended after it.
LateStored == {n \in late : update[n] = "stored"}

StopTypes ==
  /\ main \in {"serving", "stopping", "closed", "exited"}
  /\ update \in [Notifiers -> {"new", "has", "stored", "failed"}]
  /\ pos \in Nat /\ saved \in Nat
  /\ late \subseteq Deliveries
  /\ badSave \in BOOLEAN

\* Once the cache is closed, a delivery that has the database had it before:
\* it counts among the late ones, and every step of the position after the
\* Save of Close is the store of a late delivery.
StopInv ==
  /\ StopTypes
  /\ main = "closed" => \A n \in Deliveries : update[n] = "has" => n \in late
  /\ main \in {"closed", "exited"} /\ ~badSave => pos - saved <= Cardinality(LateStored)

\* The invariant holds at the start, before anything is stored.
LEMMA StopStarts == Init => StopInv
<1> SUFFICES ASSUME Init
             PROVE  StopInv
  OBVIOUS
<1>1. main = "serving" /\ pos = 0 /\ saved = 0 /\ late = {} /\ badSave = FALSE
  BY DEF Init
<1>2. update \in [Notifiers -> {"new", "has", "stored", "failed"}]
  BY DEF Init
<1>3. QED
  BY <1>1, <1>2, Zenon DEF StopInv, StopTypes

\* A finite number of stores is late.
LEMMA LateFinite ==
  ASSUME StopTypes
  PROVE  IsFiniteSet(LateStored) /\ Cardinality(LateStored) \in Nat
<1>1. IsFiniteSet(Notifiers) /\ LateStored \subseteq Notifiers
  BY ViewsAssumption, DaemonAssumption DEF StopTypes, LateStored
<1>2. QED
  BY <1>1, FS_Subset, FS_CardinalityType

\* Steps that leave the storage alone and main where it is preserve the
\* invariant.
LEMMA StopSame ==
  ASSUME StopInv, UNCHANGED <<main, storeVars>>
  PROVE  StopInv'
  BY DEF StopInv, StopTypes, storeVars, LateStored

\* Every step of the daemon preserves the invariant.
LEMMA StopStep == StopInv /\ [Next]_vars => StopInv'
<1> SUFFICES ASSUME StopInv, [Next]_vars
             PROVE  StopInv'
  OBVIOUS
<1> USE DEF StopInv, StopTypes
<1>1. ASSUME NEW n \in Notifiers, GetDB(n)
      PROVE  StopInv'
  <2>1. main \in {"serving", "stopping"} /\ main' = main
    BY <1>1 DEF GetDB, Running, mainVars
  <2>2. QED
    BY <1>1, <2>1 DEF GetDB
<1>2. ASSUME NEW n \in Notifiers, Commit(n)
      PROVE  StopInv'
  <2>1. main' = main /\ saved' = saved /\ late' = late /\ badSave' = badSave
    BY <1>2 DEF Commit, mainVars
  <2>2. update[n] = "has" /\ main # "exited"
    BY <1>2 DEF Commit, Running
  <2>3. CASE update' = [update EXCEPT ![n] = "failed"] /\ pos' = pos
    <3>1. LateStored' = LateStored
      BY <2>1, <2>2, <2>3, DaemonAssumption DEF LateStored
    <3>2. QED
      BY <2>1, <2>3, <3>1
  <2>4. CASE /\ update' = [update EXCEPT ![n] = "stored"]
             /\ pos' = IF n \in Deliveries THEN pos + 1 ELSE pos
    <3>1. CASE n \in Deliveries /\ main = "closed"
      <4>1. n \in late /\ n \notin LateStored
        BY <2>2, <3>1 DEF LateStored
      <4>2. LateStored' = LateStored \cup {n}
        BY <2>1, <2>4, <4>1, DaemonAssumption DEF LateStored
      <4>3. Cardinality(LateStored') = Cardinality(LateStored) + 1
        BY <4>1, <4>2, LateFinite, FS_AddElement, Zenon
      <4>4. Cardinality(LateStored) \in Nat
        BY LateFinite
      <4>5. pos' = pos + 1
        BY <2>4, <3>1
      <4>6. ~badSave' => pos' - saved' <= Cardinality(LateStored')
        BY <2>1, <3>1, <4>3, <4>4, <4>5
      <4>7. \A m \in Deliveries : update'[m] = "has" => m \in late'
        BY <2>1, <2>4, <3>1, DaemonAssumption
      <4>8. StopTypes'
        BY <2>1, <2>4, <4>5
      <4>9. QED
        BY <4>6, <4>7, <4>8
    <3>2. CASE n \notin Deliveries
      <4>1. LateStored' = LateStored
        BY <2>1, <2>4, <3>2, DaemonAssumption DEF LateStored
      <4>2. QED
        BY <2>1, <2>4, <3>2, <4>1, DaemonAssumption
    <3>3. CASE main \in {"serving", "stopping"}
      BY <2>1, <2>4, <3>3
    <3>4. QED
      BY <2>2, <3>1, <3>2, <3>3
  <2>5. QED
    BY <1>2, <2>3, <2>4 DEF Commit
<1>3. ASSUME NEW n \in Notifiers, Notify(n)
      PROVE  StopInv'
  BY <1>3, StopSame DEF Notify, mainVars
<1>4. CASE View
  BY <1>4, StopSame DEF View, mainVars
<1>5. CASE SaveTimer
  <2>1. LateStored' = LateStored /\ Cardinality(LateStored) \in Nat
    BY <1>5, LateFinite DEF SaveTimer, LateStored
  <2>2. QED
    BY <1>5, <2>1 DEF SaveTimer, mainVars
<1>6. CASE Signal
  BY <1>6, StopSame DEF Signal
<1>7. CASE MainStops
  BY <1>7 DEF MainStops, storeVars
<1>8. CASE ServerFails
  BY <1>8 DEF ServerFails
<1>9. CASE CacheClose
  <2>1. StopTypes' /\ main' = "closed"
    BY <1>9, Zenon DEF CacheClose
  <2>2. \A n \in Deliveries : update'[n] = "has" => n \in late'
    BY <1>9 DEF CacheClose
  <2>3. Cardinality(LateStored)' \in Nat
    BY <2>1, ViewsAssumption, DaemonAssumption, FS_Subset, FS_CardinalityType DEF LateStored
  <2>4. ~badSave' => pos' - saved' <= Cardinality(LateStored')
    BY <1>9, <2>1, <2>3 DEF CacheClose
  <2>5. QED
    BY <2>1, <2>2, <2>4
<1>10. CASE Exit
  BY <1>10 DEF Exit, storeVars, LateStored
<1>11. CASE Edit \/ Hup \/ TakeHup \/ ParseFilters \/ Install
  BY <1>11, StopSame DEF Edit, Hup, TakeHup, ParseFilters, Install, mainVars
<1>12. CASE ParseConfig
  <2>1. CASE UNCHANGED <<main, badSave>>
    BY <1>12, <2>1, StopSame DEF ParseConfig, storeVars
  <2>2. CASE main' = "exited" /\ badSave' = TRUE
    BY <1>12, <2>2 DEF ParseConfig
  <2>3. QED
    BY <1>12, <2>1, <2>2, Zenon DEF ParseConfig
<1>13. CASE UNCHANGED vars
  BY <1>13, StopSame DEF vars, mainVars
<1>14. QED
  BY <1>1, <1>2, <1>3, <1>4, <1>5, <1>6, <1>7, <1>8, <1>9, <1>10, <1>11, <1>12, <1>13 DEF Next

\* For any number of deliveries, the position that a stop by a signal leaves in
\* the database lacks at most the stores that Cache.Close overtook.
THEOREM StopSaves == Spec => []SavedOnStop
<1>1. StopInv => SavedOnStop
  BY DEF StopInv, SavedOnStop, LateStored
<1>2. QED
  BY StopStarts, StopStep, <1>1, PTL DEF Spec

-----------------------------------------------------------------------------
\* The position counts the deliveries that are stored.
Stored == {n \in Deliveries : update[n] = "stored"}

CountInv == pos = Cardinality(Stored)

\* The parts of TypeOK that steps disturb one at a time.
MainOK == main \in {"serving", "stopping", "closed", "exited"} /\ ctxDone \in BOOLEAN

StoreOK ==
  /\ update \in [Notifiers -> {"new", "has", "stored", "failed"}]
  /\ pos \in 0..Cardinality(Deliveries) /\ saved \in 0..pos
  /\ late \subseteq Deliveries /\ badSave \in BOOLEAN

LeftOK == left \in [idles : 0..MaxIdles, updates : Nat, edits : Nat, hups : Nat, ends : Nat]

ReloadOK ==
  /\ file \in Nat /\ hup \in BOOLEAN
  /\ reload \in {"waits", "parse", "filters", "loaded", "returned"}
  /\ loaded \in 0..file /\ filters \in 0..file /\ asked \in 0..file
  /\ failed \subseteq 0..file

PartsOK == MainOK /\ StoreOK /\ LeftOK /\ ReloadOK /\ CountInv

\* What the outside may still do stays a number when some of it is done.
LEMMA SpendTypes ==
  ASSUME LeftOK, NEW event \in {"updates", "edits", "hups", "ends"}, Spend(event)
  PROVE  LeftOK'
<1>1. left[event] \in Nat \ {0}
  BY DEF Spend, LeftOK
<1>2. left[event] - 1 \in Nat
  BY <1>1
<1>3. left' = [left EXCEPT ![event] = left[event] - 1]
  BY DEF Spend
<1>4. QED
  BY <1>2, <1>3 DEF LeftOK

\* A finite number of emails is stored.
LEMMA StoredFinite ==
  ASSUME NEW S \in SUBSET Deliveries
  PROVE  IsFiniteSet(S) /\ Cardinality(S) \in 0..Cardinality(Deliveries)
<1>1. IsFiniteSet(Deliveries)
  BY ViewsAssumption, DaemonAssumption, FS_Subset
<1>2. QED
  BY <1>1, FS_Subset, FS_CardinalityType

\* A commit moves the position by the email it stores, if it is of a delivery.
LEMMA CommitCounts ==
  ASSUME StoreOK, CountInv, NEW n \in Notifiers, Commit(n)
  PROVE  CountInv' /\ pos' \in 0..Cardinality(Deliveries) /\ saved \in 0..pos'
<1>1. CASE update' = [update EXCEPT ![n] = "failed"] /\ pos' = pos
  <2>1. Stored' = Stored
    BY <1>1, DaemonAssumption DEF Commit, Stored, StoreOK
  <2>2. QED
    BY <1>1, <2>1 DEF CountInv, StoreOK
<1>2. CASE /\ update' = [update EXCEPT ![n] = "stored"]
           /\ pos' = IF n \in Deliveries THEN pos + 1 ELSE pos
  <2>1. CASE n \in Deliveries
    <3>1. n \notin Stored /\ Stored' = Stored \cup {n}
      BY <1>2, <2>1, DaemonAssumption DEF Commit, Stored, StoreOK
    <3>2. Cardinality(Stored') = Cardinality(Stored) + 1
      <4>1. Stored \subseteq Deliveries
        BY DEF Stored
      <4>2. IsFiniteSet(Stored)
        BY <4>1, StoredFinite
      <4>3. QED
        BY <3>1, <4>2, FS_AddElement, Zenon
    <3>3. Cardinality(Stored') \in 0..Cardinality(Deliveries)
      <4>1. Stored' \subseteq Deliveries
        BY DEF Stored
      <4>2. QED
        BY <4>1, StoredFinite, Zenon
    <3>4. QED
      BY <1>2, <2>1, <3>2, <3>3 DEF CountInv, StoreOK
  <2>2. CASE n \notin Deliveries
    <3>1. Stored' = Stored
      BY <1>2, <2>2, DaemonAssumption DEF Stored, StoreOK
    <3>2. QED
      BY <1>2, <2>2, <3>1 DEF CountInv, StoreOK
  <2>3. QED
    BY <2>1, <2>2
<1>3. QED
  BY <1>1, <1>2 DEF Commit

\* Every step of the daemon keeps the types, and the position counts.
LEMMA DaemonTypesStep == PartsOK /\ [Next]_vars => PartsOK'
<1> SUFFICES ASSUME PartsOK, [Next]_vars
             PROVE  PartsOK'
  OBVIOUS
<1> USE DEF PartsOK
<1>1. ASSUME UNCHANGED mainVars
      PROVE  MainOK'
  BY <1>1 DEF MainOK, mainVars
<1>2. ASSUME UNCHANGED storeVars
      PROVE  StoreOK' /\ CountInv'
  BY <1>2 DEF StoreOK, CountInv, Stored, storeVars
<1>3. ASSUME UNCHANGED <<file, hup, reload, loaded, filters, asked, failed>>
      PROVE  ReloadOK'
  BY <1>3 DEF ReloadOK
<1>4. ASSUME UNCHANGED left
      PROVE  LeftOK'
  BY <1>4 DEF LeftOK
<1>5. ASSUME NEW n \in Notifiers, GetDB(n)
      PROVE  PartsOK'
  <2>1. Stored' = Stored
    BY <1>5, DaemonAssumption DEF GetDB, Stored, StoreOK
  <2>2. StoreOK' /\ CountInv'
    BY <1>5, <2>1 DEF GetDB, StoreOK, CountInv
  <2>3. LeftOK'
    BY <1>5, SpendTypes DEF GetDB
  <2>4. QED
    BY <1>1, <1>3, <1>5, <2>2, <2>3 DEF GetDB
<1>6. ASSUME NEW n \in Notifiers, Commit(n)
      PROVE  PartsOK'
  <2>1. StoreOK' /\ CountInv'
    BY <1>6, CommitCounts DEF Commit, StoreOK
  <2>2. QED
    BY <1>1, <1>3, <1>4, <1>6, <2>1 DEF Commit, reloadVars
<1>7. CASE SaveTimer
  BY <1>1, <1>3, <1>4, <1>7 DEF SaveTimer, StoreOK, CountInv, Stored, reloadVars
<1>8. CASE MainStops \/ Exit
  BY <1>2, <1>3, <1>4, <1>8 DEF MainStops, Exit, MainOK, reloadVars
<1>9. CASE CacheClose
  <2>1. StoreOK' /\ CountInv'
    <3>1. late' \subseteq Deliveries /\ update' = update /\ pos' = pos
      BY <1>9 DEF CacheClose
    <3>2. saved' \in {saved, pos} /\ badSave' \in BOOLEAN
      BY <1>9, Zenon DEF CacheClose, StoreOK
    <3>3. QED
      BY <3>1, <3>2 DEF StoreOK, CountInv, Stored
  <2>2. MainOK'
    BY <1>9 DEF CacheClose, MainOK
  <2>3. QED
    BY <1>3, <1>4, <1>9, <2>1, <2>2 DEF CacheClose, reloadVars
<1>10. CASE Signal
  <2>1. MainOK' /\ LeftOK'
    BY <1>10, SpendTypes DEF Signal, MainOK
  <2>2. QED
    BY <1>2, <1>3, <1>10, <2>1 DEF Signal
<1>11. CASE ServerFails
  <2>1. MainOK' /\ LeftOK'
    BY <1>11, SpendTypes DEF ServerFails, MainOK
  <2>2. StoreOK' /\ CountInv'
    BY <1>11 DEF ServerFails, StoreOK, CountInv, Stored
  <2>3. QED
    BY <1>3, <1>11, <2>1, <2>2 DEF ServerFails
<1>12. CASE Edit
  <2>1. ReloadOK'
    BY <1>12 DEF Edit, ReloadOK
  <2>2. LeftOK'
    BY <1>12, SpendTypes DEF Edit
  <2>3. QED
    BY <1>1, <1>2, <1>12, <2>1, <2>2 DEF Edit
<1>13. CASE Hup
  <2>1. ReloadOK'
    BY <1>13 DEF Hup, ReloadOK
  <2>2. LeftOK'
    BY <1>13, SpendTypes DEF Hup
  <2>3. QED
    BY <1>1, <1>2, <1>13, <2>1, <2>2 DEF Hup
<1>14. CASE TakeHup \/ ParseFilters \/ Install
  <2>1. /\ hup' \in BOOLEAN
        /\ reload' \in {"waits", "parse", "filters", "loaded", "returned"}
        /\ loaded' \in {loaded, file} /\ filters' \in {filters, loaded}
        /\ failed' \in {failed, failed \cup {file}}
        /\ UNCHANGED <<file, asked>>
    BY <1>14, Zenon DEF TakeHup, ParseFilters, Install, ReloadOK
  <2>2. ReloadOK'
    BY <2>1 DEF ReloadOK
  <2>3. QED
    BY <1>1, <1>2, <1>4, <1>14, <2>2 DEF TakeHup, ParseFilters, Install
<1>15. CASE ParseConfig
  <2>1. /\ reload' \in {"waits", "filters", reload} /\ failed' \in {failed, failed \cup {file}}
        /\ main' \in {main, "exited"} /\ badSave' \in BOOLEAN
        /\ UNCHANGED <<ctxDone, update, pos, saved, late, file, hup, loaded, filters, asked>>
    BY <1>15, Zenon DEF ParseConfig, StoreOK
  <2>2. MainOK' /\ StoreOK' /\ ReloadOK' /\ CountInv'
    BY <2>1 DEF MainOK, StoreOK, ReloadOK, CountInv, Stored
  <2>3. QED
    BY <1>4, <1>15, <2>2 DEF ParseConfig
<1>16. ASSUME UNCHANGED <<mainVars, storeVars, reloadVars>>
       PROVE  PartsOK'
  BY <1>1, <1>2, <1>3, <1>4, <1>16 DEF reloadVars
<1>17. QED
  BY <1>5, <1>6, <1>7, <1>8, <1>9, <1>10, <1>11, <1>12, <1>13, <1>14, <1>15, <1>16
  DEF Next, Notify, View, vars

\* Every reachable state of the daemon is well typed.  The position in memory is
\* never beyond the number of deliveries, since each moves it once and only when
\* it is stored, and the one in the database is never ahead of it.
THEOREM DaemonTypes == Spec => []TypeOK
<1>1. Init => PartsOK
  <2> SUFFICES ASSUME Init
               PROVE  PartsOK
    OBVIOUS
  <2>1. Stored = {}
    BY DaemonAssumption DEF Init, Stored
  <2>2. CountInv
    BY <2>1, FS_EmptySet DEF Init, CountInv
  <2>3. 0 \in 0..Cardinality(Deliveries)
    BY StoredFinite
  <2>4. StoreOK
    <3>1. /\ update = [n \in Notifiers |-> "new"]
          /\ pos = 0 /\ saved = 0 /\ late = {} /\ badSave \in BOOLEAN
      BY Zenon DEF Init
    <3>2. QED
      BY <2>3, <3>1 DEF StoreOK
  <2>5. MainOK /\ ReloadOK
    <3>1. /\ main = "serving" /\ ctxDone \in BOOLEAN /\ hup \in BOOLEAN /\ reload = "waits"
          /\ file = 0 /\ loaded = 0 /\ filters = 0 /\ asked = 0 /\ failed = {}
      BY Zenon DEF Init
    <3>2. QED
      BY <3>1 DEF MainOK, ReloadOK
  <2>6. LeftOK
    BY DaemonAssumption DEF Init, LeftOK
  <2>7. QED
    BY <2>2, <2>4, <2>5, <2>6 DEF PartsOK
<1>2. ViewInv /\ [Next]_vars => ViewInv'
  BY DaemonIsView, ViewStep
<1>3. ViewInv /\ PartsOK => TypeOK
  BY DEF ViewInv, PartsOK, TypeOK, MainOK, StoreOK, LeftOK, ReloadOK
<1>4. Init => ViewInv
  BY ViewStarts DEF Init
<1>5. QED
  BY <1>1, <1>2, <1>3, <1>4, DaemonTypesStep, PTL DEF Spec

-----------------------------------------------------------------------------
(* Filters: induction, and the loop over the statements. *)

\* A set of numbers that is not empty has a least one.
LEMMA Least ==
  ASSUME NEW T \in SUBSET Nat, T # {}
  PROVE  \E n \in T : \A k \in T : n <= k
<1>1. PICK n \in T : \A k \in T : ~(<<k, n>> \in OpToRel(<, Nat))
  BY NatLessThanWellFounded, WFMin, Zenon
<1>2. \A k \in T : ~(k < n)
  BY <1>1, Zenon DEF OpToRel
<1>3. QED
  BY <1>2

\* Induction over the numbers, for a set
LEMMA Everywhere ==
  ASSUME NEW P, 0 \in P, \A n \in Nat : n \in P => n + 1 \in P
  PROVE  Nat \subseteq P
<1> SUFFICES ASSUME Nat \ P # {} PROVE FALSE
  OBVIOUS
<1>0. Nat \ P \in SUBSET Nat
  OBVIOUS
<1>1. PICK n \in Nat \ P : \A k \in Nat \ P : n <= k
  BY <1>0, Least, Zenon
<1>2. n # 0 /\ n - 1 \in Nat /\ n - 1 \in P
  BY <1>1
<1>3. QED
  BY <1>2

\* A loop over statements, turn by turn
IsLoop(after, content, c, breaks, documented) ==
  /\ after[0] = Go(c)
  /\ \A i \in 1..Len(content) : after[i] = Turn(after[i - 1], content[i], breaks, documented)

\* The recursive definition of the loop has a value.
LEMMA AfterIs ==
  ASSUME NEW content, Len(content) \in Nat, NEW c, NEW breaks, NEW documented
  PROVE  IsLoop(After(content, c, breaks, documented), content, c, breaks, documented)
<1> DEFINE Rec(f, n) == f = [i \in 0..n |-> IF i = 0 THEN Go(c)
                                   ELSE Turn(f[i - 1], content[i], breaks, documented)]
           P == {n \in Nat : \E f : Rec(f, n)}
<1>1. 0 \in P
  <2>1. Rec([i \in 0..0 |-> Go(c)], 0)
    OBVIOUS
  <2>2. QED
    BY <2>1, Zenon
<1>2. ASSUME NEW n \in Nat, n \in P PROVE n + 1 \in P
  <2>1. PICK f : Rec(f, n)
    BY <1>2
  <2> DEFINE g == [i \in 0..(n + 1) |-> IF i = n + 1 THEN Turn(f[n], content[i], breaks, documented) ELSE f[i]]
  <2>2. Rec(g, n + 1)
    <3>1. ASSUME NEW i \in 0..(n + 1)
          PROVE g[i] = IF i = 0 THEN Go(c) ELSE Turn(g[i - 1], content[i], breaks, documented)
      <4>1. CASE i = n + 1
        <5>1. i # 0 /\ i - 1 = n /\ n \in 0..(n + 1) /\ n # n + 1
          BY <4>1
        <5>2. g[i - 1] = f[n] /\ g[i] = Turn(f[n], content[i], breaks, documented)
          BY <4>1, <5>1
        <5>3. QED
          BY <5>1, <5>2, Zenon
      <4>2. CASE i # n + 1
        <5>1. i \in 0..n /\ (i # 0 => i - 1 \in 0..(n + 1) /\ i - 1 # n + 1)
          BY <4>2
        <5>2. g[i] = f[i] /\ (i # 0 => g[i - 1] = f[i - 1])
          BY <4>2, <5>1, Zenon
        <5>3. f[i] = IF i = 0 THEN Go(c) ELSE Turn(f[i - 1], content[i], breaks, documented)
          BY <2>1, <5>1, Zenon
        <5>4. QED
          BY <5>2, <5>3, Zenon
      <4>3. QED
        BY <4>1, <4>2, Zenon
    <3>2. QED
      BY <3>1, Zenon
  <2>3. n + 1 \in Nat /\ \E f2 : Rec(f2, n + 1)
    <3> HIDE DEF Rec, g
    <3> QED BY <2>2
  <2>4. QED
    BY <2>3, Zenon
<1>3. Nat \subseteq P
  <2> HIDE DEF P
  <2> QED BY <1>1, <1>2, Everywhere, Zenon
<1>4. \E f : Rec(f, Len(content))
  BY <1>3, Zenon
<1> DEFINE after == After(content, c, breaks, documented)
<1>5. after = CHOOSE f : Rec(f, Len(content))
  BY Zenon DEF After
<1>6. Rec(after, Len(content))
  <2> HIDE DEF Rec, after
  <2> QED BY <1>4, <1>5, Zenon
<1>7. 0 \in 0..Len(content) /\ \A i \in 1..Len(content) : i \in 0..Len(content) /\ i # 0
  OBVIOUS
<1>8. \A i \in 0..Len(content) :
        after[i] = IF i = 0 THEN Go(c) ELSE Turn(after[i - 1], content[i], breaks, documented)
  <2> HIDE DEF after
  <2> QED BY <1>6, Zenon
<1>9. QED
  BY <1>7, <1>8, Zenon DEF IsLoop

-----------------------------------------------------------------------------
(* Contexts. *)

\* A context with the given parts
With(v, res, hdr) == [vars |-> v, res |-> res, hdr |-> hdr]
IsContext(c) == c = With(c.vars, c.res, c.hdr)

\* The result and the header changes that an action leaves
NewResult(name, ps, res) ==
  CASE name \in DOMAIN Terminal -> [res EXCEPT !.action = Terminal[name]]
    [] name = "spam" -> [res EXCEPT !.mailbox = <<"Junk">>, !.action = "quarantine", !.spam = TRUE]
    [] name = "forward" -> [res EXCEPT !.forward = Append(@, ps[1].str)]
    [] name = "mailbox" -> [res EXCEPT !.mailbox = ps[1].str]
    [] OTHER -> res
NewHeader(name, ps, hdr) == IF name = "set_header" THEN (ps[1].str :> ps[2].str) @@ hdr ELSE hdr

\* The actions of the map "actions", with parameters that they take
Known(name, ps) ==
  \/ name \in DOMAIN Terminal \/ name = "spam"
  \/ name \in {"forward", "mailbox"} /\ Strings(ps, 1)
  \/ name = "set_header" /\ Strings(ps, 2)

\* The parts of a context
LEMMA WithParts ==
  ASSUME NEW v, NEW r, NEW h
  PROVE  /\ With(v, r, h).vars = v /\ With(v, r, h).res = r /\ With(v, r, h).hdr = h
         /\ IsContext(With(v, r, h))
<1>1. With(v, r, h).vars = v /\ With(v, r, h).res = r /\ With(v, r, h).hdr = h
  BY DEF With
<1>2. QED
  BY <1>1, Zenon DEF IsContext

\* What an action makes of a context
LEMMA PerformIs ==
  ASSUME NEW c, IsContext(c), NEW name, NEW ps
  PROVE  Perform(name, ps, c) =
           IF Known(name, ps)
           THEN Go(With(c.vars, NewResult(name, ps, c.res), NewHeader(name, ps, c.hdr)))
           ELSE Stop(c)
<1>1. \A n \in {"spam", "forward", "mailbox", "set_header"} : n \notin DOMAIN Terminal
  BY DEF Terminal
<1>2. c = [vars |-> c.vars, res |-> c.res, hdr |-> c.hdr]
  BY DEF IsContext, With
<1>3. ASSUME name \in DOMAIN Terminal
      PROVE  Perform(name, ps, c) =
               Go(With(c.vars, NewResult(name, ps, c.res), NewHeader(name, ps, c.hdr)))
  <2>0. name # "spam" /\ name # "forward" /\ name # "mailbox" /\ name # "set_header"
    BY <1>1, <1>3
  <2>1. Perform(name, ps, c) = Go([c EXCEPT !.res.action = Terminal[name]])
    BY <1>3, <2>0 DEF Perform
  <2>2. NewResult(name, ps, c.res) = [c.res EXCEPT !.action = Terminal[name]]
    BY <1>3, <2>0 DEF NewResult
  <2>3. NewHeader(name, ps, c.hdr) = c.hdr
    BY <2>0 DEF NewHeader
  <2>4. [c EXCEPT !.res.action = Terminal[name]] =
          With(c.vars, [c.res EXCEPT !.action = Terminal[name]], c.hdr)
    BY <1>2 DEF With
  <2>5. QED
    BY <2>1, <2>2, <2>3, <2>4, Zenon
<1>4. ASSUME name = "spam"
      PROVE  Perform(name, ps, c) =
               Go(With(c.vars, NewResult(name, ps, c.res), NewHeader(name, ps, c.hdr)))
  <2> DEFINE j == <<"Junk">>  q == "quarantine"  t == TRUE
  <2>1. Perform(name, ps, c) = Go([c EXCEPT !.res.mailbox = j, !.res.action = q, !.res.spam = t])
    BY <1>1, <1>4 DEF Perform
  <2>2. NewResult(name, ps, c.res) = [c.res EXCEPT !.mailbox = j, !.action = q, !.spam = t]
    BY <1>1, <1>4 DEF NewResult
  <2>3. NewHeader(name, ps, c.hdr) = c.hdr
    BY <1>4 DEF NewHeader
  <2>4. [c EXCEPT !.res.mailbox = j, !.res.action = q, !.res.spam = t]
          = With(c.vars, [c.res EXCEPT !.mailbox = j, !.action = q, !.spam = t], c.hdr)
    <3> HIDE DEF j, q, t
    <3> DEFINE r1 == [c.res EXCEPT !.mailbox = j]
               r2 == [r1 EXCEPT !.action = q]
               r3 == [r2 EXCEPT !.spam = t]
    <3>1. [c EXCEPT !.res.mailbox = j] = With(c.vars, r1, c.hdr)
      BY <1>2 DEF With
    <3>2. [With(c.vars, r1, c.hdr) EXCEPT !.res.action = q] = With(c.vars, r2, c.hdr)
      <4> HIDE DEF r1
      <4> QED BY DEF With
    <3>3. [With(c.vars, r2, c.hdr) EXCEPT !.res.spam = t] = With(c.vars, r3, c.hdr)
      <4> HIDE DEF r2
      <4> QED BY DEF With
    <3>4. [c EXCEPT !.res.mailbox = j, !.res.action = q, !.res.spam = t]
            = [[[c EXCEPT !.res.mailbox = j] EXCEPT !.res.action = q] EXCEPT !.res.spam = t]
      BY Zenon
    <3>5. [c.res EXCEPT !.mailbox = j, !.action = q, !.spam = t] = r3
      BY Zenon
    <3>6. QED
      <4> HIDE DEF r1, r2, r3
      <4> QED BY <3>1, <3>2, <3>3, <3>4, <3>5, Zenon
  <2>5. QED
    BY <2>1, <2>2, <2>3, <2>4, Zenon
<1>5. ASSUME name = "forward", Strings(ps, 1)
      PROVE  Perform(name, ps, c) =
               Go(With(c.vars, NewResult(name, ps, c.res), NewHeader(name, ps, c.hdr)))
  <2>1. Perform(name, ps, c) = Go([c EXCEPT !.res.forward = Append(@, ps[1].str)])
    BY <1>1, <1>5 DEF Perform
  <2>2. NewResult(name, ps, c.res) = [c.res EXCEPT !.forward = Append(@, ps[1].str)]
    BY <1>1, <1>5 DEF NewResult
  <2>3. NewHeader(name, ps, c.hdr) = c.hdr
    BY <1>5 DEF NewHeader
  <2> DEFINE y == Append(c.res.forward, ps[1].str)
  <2>4. [c EXCEPT !.res.forward = y] = With(c.vars, [c.res EXCEPT !.forward = y], c.hdr)
    <3> HIDE DEF y
    <3> QED BY <1>2 DEF With
  <2>5. /\ [c EXCEPT !.res.forward = Append(@, ps[1].str)] = [c EXCEPT !.res.forward = y]
        /\ [c.res EXCEPT !.forward = Append(@, ps[1].str)] = [c.res EXCEPT !.forward = y]
    BY Zenon
  <2>6. QED
    BY <2>1, <2>2, <2>3, <2>4, <2>5, Zenon
<1>6. ASSUME name = "mailbox", Strings(ps, 1)
      PROVE  Perform(name, ps, c) =
               Go(With(c.vars, NewResult(name, ps, c.res), NewHeader(name, ps, c.hdr)))
  <2>1. Perform(name, ps, c) = Go([c EXCEPT !.res.mailbox = ps[1].str])
    BY <1>1, <1>6 DEF Perform
  <2>2. NewResult(name, ps, c.res) = [c.res EXCEPT !.mailbox = ps[1].str]
    BY <1>1, <1>6 DEF NewResult
  <2>3. NewHeader(name, ps, c.hdr) = c.hdr
    BY <1>6 DEF NewHeader
  <2>4. [c EXCEPT !.res.mailbox = ps[1].str] = With(c.vars, [c.res EXCEPT !.mailbox = ps[1].str], c.hdr)
    BY <1>2 DEF With
  <2>5. QED
    BY <2>1, <2>2, <2>3, <2>4, Zenon
<1>7. ASSUME name = "set_header", Strings(ps, 2)
      PROVE  Perform(name, ps, c) =
               Go(With(c.vars, NewResult(name, ps, c.res), NewHeader(name, ps, c.hdr)))
  <2> DEFINE x == ps[1].str :> ps[2].str
  <2>1. Perform(name, ps, c) = Go([c EXCEPT !.hdr = x @@ @])
    <3> HIDE DEF x
    <3> QED BY <1>1, <1>7 DEF Perform, x
  <2>2. NewResult(name, ps, c.res) = c.res
    BY <1>1, <1>7 DEF NewResult
  <2>3. NewHeader(name, ps, c.hdr) = x @@ c.hdr
    BY <1>7, Zenon DEF NewHeader
  <2>4. [c EXCEPT !.hdr = x @@ @] = With(c.vars, c.res, x @@ c.hdr)
    <3> HIDE DEF x
    <3> QED BY <1>2 DEF With
  <2>5. QED
    BY <2>1, <2>2, <2>3, <2>4, Zenon
<1>8. ASSUME ~Known(name, ps) PROVE Perform(name, ps, c) = Stop(c)
  BY <1>8 DEF Perform, Known
<1>9. QED
  <2>1. CASE Known(name, ps)
    BY <1>3, <1>4, <1>5, <1>6, <1>7, <2>1, Zenon DEF Known
  <2>2. CASE ~Known(name, ps)
    BY <1>8, <2>2, Zenon
  <2>3. QED
    BY <2>1, <2>2, Zenon

-----------------------------------------------------------------------------
(* Nothing but the header changes depends on the header changes. *)

\* The same but for the header changes
Alike(c, d) == IsContext(c) /\ IsContext(d) /\ c.vars = d.vars /\ c.res = d.res

\* What an evaluation answers
IsAnswer(r) == r.ok \in BOOLEAN /\ r = [ok |-> r.ok, ctx |-> r.ctx]
AlikeAnswers(r, q) == IsAnswer(r) /\ IsAnswer(q) /\ r.ok = q.ok /\ Alike(r.ctx, q.ctx)

\* A statement that reads nothing of the header changes
Blind(st) ==
  \A documented \in BOOLEAN : \A c, d :
    Alike(c, d) => AlikeAnswers(EvalNested(st, c, documented), EvalNested(st, d, documented))

\* Contexts that differ in the header changes only
LEMMA WithAlike ==
  ASSUME NEW v, NEW r, NEW h, NEW k
  PROVE  Alike(With(v, r, h), With(v, r, k))
<1>1. /\ With(v, r, h).vars = v /\ With(v, r, h).res = r /\ IsContext(With(v, r, h))
      /\ With(v, r, k).vars = v /\ With(v, r, k).res = r /\ IsContext(With(v, r, k))
  BY WithParts
<1>2. QED
  BY <1>1, Zenon DEF Alike

\* The parts of an answer
LEMMA AnswerParts ==
  ASSUME NEW c
  PROVE  /\ Go(c).ok = TRUE /\ Go(c).ctx = c /\ IsAnswer(Go(c))
         /\ Stop(c).ok = FALSE /\ Stop(c).ctx = c /\ IsAnswer(Stop(c))
  BY DEF Go, Stop, IsAnswer

\* Answers with contexts that are alike
LEMMA GoStop ==
  ASSUME NEW c, NEW d, Alike(c, d)
  PROVE  AlikeAnswers(Go(c), Go(d)) /\ AlikeAnswers(Stop(c), Stop(d))
  BY AnswerParts, Zenon DEF AlikeAnswers

\* Statements but sub-filters read nothing of the header changes.
LEMMA SimpleAlike ==
  ASSUME NEW c, NEW d, Alike(c, d), NEW st
  PROVE  /\ AlikeAnswers(EvalCondition(st, c), EvalCondition(st, d))
         /\ AlikeAnswers(EvalAction(st, c), EvalAction(st, d))
         /\ AlikeAnswers(EvalLet(st, c), EvalLet(st, d))
<1>1. c.vars = d.vars /\ c.res = d.res /\ IsContext(c) /\ IsContext(d)
  BY Zenon DEF Alike
<1>2. AlikeAnswers(EvalCondition(st, c), EvalCondition(st, d))
  BY <1>1, GoStop, Zenon DEF EvalCondition
<1>3. AlikeAnswers(EvalAction(st, c), EvalAction(st, d))
  <2>1. ASSUME NEW name, NEW ps PROVE AlikeAnswers(Perform(name, ps, c), Perform(name, ps, d))
    <3>1. CASE Known(name, ps)
      <4> DEFINE r == NewResult(name, ps, c.res)
                 x == With(c.vars, r, NewHeader(name, ps, c.hdr))
                 y == With(c.vars, r, NewHeader(name, ps, d.hdr))
      <4>1. Perform(name, ps, c) = Go(x) /\ Perform(name, ps, d) = Go(y)
        BY <1>1, <3>1, PerformIs, Zenon
      <4>2. Alike(x, y)
        BY WithAlike, Zenon
      <4>3. QED
        BY <4>1, <4>2, GoStop, Zenon
    <3>2. CASE ~Known(name, ps)
      BY <1>1, <3>2, PerformIs, GoStop, Zenon
    <3>3. QED
      BY <3>1, <3>2, Zenon
  <2>2. QED
    BY <1>1, <2>1, GoStop, Zenon DEF EvalAction
<1>4. AlikeAnswers(EvalLet(st, c), EvalLet(st, d))
  <2>1. ASSUME NEW x
        PROVE  Alike([c EXCEPT !.vars = x @@ @], [d EXCEPT !.vars = x @@ @])
    <3> DEFINE cx == [c EXCEPT !.vars = x @@ @]
               dx == [d EXCEPT !.vars = x @@ @]
    <3>1. cx = With(x @@ c.vars, c.res, c.hdr) /\ dx = With(x @@ d.vars, d.res, d.hdr)
      BY <1>1 DEF IsContext, With
    <3>2. Alike(cx, dx)
      <4> HIDE DEF cx, dx
      <4> QED BY <1>1, <3>1, WithAlike, Zenon
    <3>3. QED
      BY <3>2
  <2>2. QED
    BY <1>1, <2>1, GoStop, Zenon DEF EvalLet
<1>5. QED
  BY <1>2, <1>3, <1>4

\* Nor does a loop over such statements.
LEMMA LoopAlike ==
  ASSUME NEW content, Len(content) \in Nat, \A i \in 1..Len(content) : Blind(content[i]),
         NEW breaks \in BOOLEAN, NEW documented \in BOOLEAN, NEW c, NEW d, Alike(c, d)
  PROVE  \A i \in 0..Len(content) :
           AlikeAnswers(After(content, c, breaks, documented)[i], After(content, d, breaks, documented)[i])
<1> DEFINE A == After(content, c, breaks, documented)
           B == After(content, d, breaks, documented)
           P == {n \in Nat : n \in 0..Len(content) => AlikeAnswers(A[n], B[n])}
<1>1. IsLoop(A, content, c, breaks, documented)
  BY AfterIs, Zenon
<1>0. IsLoop(B, content, d, breaks, documented)
  BY AfterIs, Zenon
<1>2. 0 \in P
  BY <1>0, <1>1, GoStop, Zenon DEF IsLoop
<1>3. ASSUME NEW n \in Nat, n \in P PROVE n + 1 \in P
  <2> SUFFICES ASSUME n + 1 \in 0..Len(content) PROVE AlikeAnswers(A[n + 1], B[n + 1])
    OBVIOUS
  <2>1. n + 1 \in 1..Len(content) /\ (n + 1) - 1 = n /\ n \in 0..Len(content)
    OBVIOUS
  <2>2. AlikeAnswers(A[n], B[n])
    BY <1>3, <2>1, Zenon
  <2>3. /\ A[n + 1] = Turn(A[n], content[n + 1], breaks, documented)
        /\ B[n + 1] = Turn(B[n], content[n + 1], breaks, documented)
    <3> HIDE DEF A, B
    <3> QED BY <1>0, <1>1, <2>1 DEF IsLoop
  <2>4. A[n].ok = B[n].ok /\ Alike(A[n].ctx, B[n].ctx) /\ A[n].ctx.res = B[n].ctx.res
    BY <2>2, Zenon DEF AlikeAnswers, Alike
  <2>5. Blind(content[n + 1])
    BY <2>1, Zenon
  <2>6. QED
    <3> HIDE DEF A, B
    <3> QED BY <2>2, <2>3, <2>4, <2>5, Zenon DEF Turn, Blind
<1>4. Nat \subseteq P
  <2> HIDE DEF P
  <2> QED BY <1>2, <1>3, Everywhere, Zenon
<1>5. \A i \in 0..Len(content) : i \in Nat
  OBVIOUS
<1>6. QED
  BY <1>4, <1>5, Zenon

-----------------------------------------------------------------------------
(* Statements inside of statements. *)

\* EvalNested is EvalStatement, by which the statements inside of a filter are
\* evaluated as well.
Recurs ==
  \A st \in Statements : \A documented \in BOOLEAN : \A c :
    EvalNested(st, c, documented) = EvalStatement(st, c, documented)

\* Filters are trees: depth counts the levels below.
Nests(depth) ==
  /\ depth \in [Statements -> Nat]
  /\ \A st \in Statements : st.kind = "filter" =>
       \A i \in DOMAIN st.content : depth[st.content[i]] < depth[st]

\* What a sub-filter makes of a context
LEMMA FilterIs ==
  ASSUME NEW c, IsContext(c), NEW f, NEW documented
  PROVE  LET r == EvalContent(f.content, c, documented) IN
         EvalFilter(f, c, documented) =
           Go(With(c.vars, IF r.ok THEN r.ctx.res ELSE c.res, r.ctx.hdr))
<1> DEFINE r == EvalContent(f.content, c, documented)
           res == IF r.ok THEN r.ctx.res ELSE c.res
           hdr == r.ctx.hdr
<1>1. EvalFilter(f, c, documented) = Go([c EXCEPT !.res = res, !.hdr = hdr])
  BY Zenon DEF EvalFilter
<1>2. [c EXCEPT !.res = res, !.hdr = hdr] = With(c.vars, res, hdr)
  <2> HIDE DEF res, hdr
  <2>1. c = [vars |-> c.vars, res |-> c.res, hdr |-> c.hdr]
    BY Zenon DEF IsContext, With
  <2>2. [c EXCEPT !.res = res] = With(c.vars, res, c.hdr)
    BY <2>1 DEF With
  <2>3. [With(c.vars, res, c.hdr) EXCEPT !.hdr = hdr] = With(c.vars, res, hdr)
    BY DEF With
  <2>4. [c EXCEPT !.res = res, !.hdr = hdr] = [[c EXCEPT !.res = res] EXCEPT !.hdr = hdr]
    BY Zenon
  <2>5. QED
    BY <2>2, <2>3, <2>4, Zenon
<1>3. QED
  BY <1>1, <1>2, Zenon

\* The statements of a filter
LEMMA ContentIs ==
  ASSUME NEW st \in Statements, st.kind = "filter"
  PROVE  /\ Len(st.content) \in Nat /\ DOMAIN st.content = 1..Len(st.content)
         /\ \A i \in 1..Len(st.content) : st.content[i] \in Statements
<1>1. st.content \in Seq(Statements)
  BY StatementsAssumption, Zenon
<1>2. QED
  BY <1>1

\* A sub-filter of statements that read nothing of the header changes reads
\* nothing of them.
LEMMA FilterAlike ==
  ASSUME NEW st \in Statements, st.kind = "filter",
         \A i \in 1..Len(st.content) : Blind(st.content[i]),
         NEW documented \in BOOLEAN, NEW c, NEW d, Alike(c, d)
  PROVE  AlikeAnswers(EvalFilter(st, c, documented), EvalFilter(st, d, documented))
<1> DEFINE n == Len(st.content)
           r == EvalContent(st.content, c, documented)
           q == EvalContent(st.content, d, documented)
<1>1. n \in Nat /\ n \in 0..n
  BY ContentIs
<1>2. AlikeAnswers(r, q)
  BY <1>1, LoopAlike, Zenon DEF EvalContent
<1>3. r.ok = q.ok /\ r.ctx.res = q.ctx.res /\ c.vars = d.vars /\ c.res = d.res
  BY <1>2, Zenon DEF AlikeAnswers, Alike
<1>4. IsContext(c) /\ IsContext(d)
  BY Zenon DEF Alike
<1> DEFINE res == IF r.ok THEN r.ctx.res ELSE c.res
<1>5. /\ EvalFilter(st, c, documented) = Go(With(c.vars, res, r.ctx.hdr))
      /\ EvalFilter(st, d, documented) = Go(With(c.vars, res, q.ctx.hdr))
  <2>1. /\ EvalFilter(st, c, documented) = Go(With(c.vars, res, r.ctx.hdr))
        /\ EvalFilter(st, d, documented) = Go(With(d.vars, IF q.ok THEN q.ctx.res ELSE d.res, q.ctx.hdr))
    BY <1>4, FilterIs, Zenon
  <2>2. QED
    <3> HIDE DEF r, q
    <3> QED BY <1>3, <2>1
<1>6. QED
  <2> HIDE DEF r, q, res
  <2> QED BY <1>5, WithAlike, GoStop, Zenon

\* Induction along the nesting of sub-filters
LEMMA Nesting ==
  ASSUME NEW depth, Nests(depth), NEW Q,
         \A st \in Statements :
           (st.kind = "filter" => \A i \in 1..Len(st.content) : st.content[i] \in Q) => st \in Q
  PROVE  Statements \subseteq Q
<1> DEFINE P == {n \in Nat : \A st \in Statements : depth[st] < n => st \in Q}
<1>1. depth \in [Statements -> Nat]
  BY DEF Nests
<1>2. 0 \in P
  BY <1>1
<1>3. ASSUME NEW n \in Nat, n \in P PROVE n + 1 \in P
  <2> SUFFICES ASSUME NEW st \in Statements, depth[st] < n + 1 PROVE st \in Q
    OBVIOUS
  <2>1. ASSUME st.kind = "filter", NEW i \in 1..Len(st.content) PROVE st.content[i] \in Q
    <3>1. i \in DOMAIN st.content /\ st.content[i] \in Statements
      BY <2>1, ContentIs, Zenon
    <3>2. depth[st.content[i]] < depth[st]
      BY <2>1, <3>1, Zenon DEF Nests
    <3>3. depth[st.content[i]] < n
      BY <1>1, <3>1, <3>2
    <3>4. QED
      BY <1>3, <3>1, <3>3, Zenon
  <2>2. QED
    BY <2>1, Zenon
<1>4. Nat \subseteq P
  <2> HIDE DEF P
  <2> QED BY <1>2, <1>3, Everywhere, Zenon
<1> SUFFICES ASSUME NEW st \in Statements PROVE st \in Q
  BY Zenon
<1>5. depth[st] + 1 \in P /\ depth[st] < depth[st] + 1
  BY <1>1, <1>4
<1>6. QED
  BY <1>5, Zenon

\* The statements by their kind
LEMMA ByKind ==
  ASSUME NEW st \in Statements
  PROVE  \A c, documented :
           /\ st.kind = "condition" => EvalStatement(st, c, documented) = EvalCondition(st, c)
           /\ st.kind = "do" => EvalStatement(st, c, documented) = EvalAction(st, c)
           /\ st.kind = "let" => EvalStatement(st, c, documented) = EvalLet(st, c)
           /\ st.kind = "filter" => EvalStatement(st, c, documented) = EvalFilter(st, c, documented)
           /\ st.kind = "condition" \/ st.kind = "do" \/ st.kind = "let" \/ st.kind = "filter"
<1>1. st.kind = "condition" \/ st.kind = "do" \/ st.kind = "let" \/ st.kind = "filter"
  BY StatementsAssumption
<1> SUFFICES ASSUME NEW c, NEW documented
             PROVE  /\ st.kind = "condition" => EvalStatement(st, c, documented) = EvalCondition(st, c)
                    /\ st.kind = "do" => EvalStatement(st, c, documented) = EvalAction(st, c)
                    /\ st.kind = "let" => EvalStatement(st, c, documented) = EvalLet(st, c)
                    /\ st.kind = "filter" => EvalStatement(st, c, documented) = EvalFilter(st, c, documented)
  BY <1>1, Zenon
<1>2. QED
  BY DEF EvalStatement

\* No statement reads anything of the header changes.
LEMMA AllBlind ==
  ASSUME NEW depth, Nests(depth), Recurs
  PROVE  \A st \in Statements : Blind(st)
<1> DEFINE Q == {st \in Statements : Blind(st)}
<1>1. ASSUME NEW st \in Statements,
             st.kind = "filter" => \A i \in 1..Len(st.content) : st.content[i] \in Q
      PROVE  Blind(st)
  <2>1. ASSUME NEW documented \in BOOLEAN, NEW c, NEW d, Alike(c, d)
        PROVE  AlikeAnswers(EvalStatement(st, c, documented), EvalStatement(st, d, documented))
    <3>1. CASE st.kind = "filter"
      <4>1. \A i \in 1..Len(st.content) : Blind(st.content[i])
        BY <1>1, <3>1, Zenon
      <4>2. AlikeAnswers(EvalFilter(st, c, documented), EvalFilter(st, d, documented))
        BY <2>1, <3>1, <4>1, FilterAlike, Zenon
      <4>3. QED
        BY <3>1, <4>2, ByKind, Zenon
    <3>2. CASE st.kind # "filter"
      <4>1. /\ AlikeAnswers(EvalCondition(st, c), EvalCondition(st, d))
            /\ AlikeAnswers(EvalAction(st, c), EvalAction(st, d))
            /\ AlikeAnswers(EvalLet(st, c), EvalLet(st, d))
        BY <2>1, SimpleAlike, Zenon
      <4>2. QED
        BY <3>2, <4>1, ByKind, Zenon
    <3>3. QED
      BY <3>1, <3>2, Zenon
  <2>2. QED
    BY <2>1, Zenon DEF Blind, Recurs
<1>2. Statements \subseteq Q
  <2>1. \A st \in Statements :
          (st.kind = "filter" => \A i \in 1..Len(st.content) : st.content[i] \in Q) => st \in Q
    BY <1>1, Zenon
  <2> HIDE DEF Q
  <2>2. QED
    BY <2>1, Nesting, Zenon
<1>3. QED
  BY <1>2, Zenon

-----------------------------------------------------------------------------
(* A sub-filter that fails. *)

\* Loops over a and b give the same after k turns.
Agree(a, b, k, c) == After(a, c, TRUE, FALSE)[k] = After(b, c, TRUE, FALSE)[k]

\* They do when the first k statements are the same.
LEMMA SameTurns ==
  ASSUME NEW a, NEW b, Len(a) \in Nat, Len(b) \in Nat,
         NEW k \in Nat, k <= Len(a), k <= Len(b), \A j \in 1..k : a[j] = b[j], NEW c
  PROVE  Agree(a, b, k, c)
<1> DEFINE A == After(a, c, TRUE, FALSE)
           B == After(b, c, TRUE, FALSE)
           P == {n \in Nat : n <= k => A[n] = B[n]}
<1>1. IsLoop(A, a, c, TRUE, FALSE) /\ IsLoop(B, b, c, TRUE, FALSE)
  BY AfterIs, Zenon
<1>2. 0 \in P
  <2>1. A[0] = B[0]
    BY <1>1, Zenon DEF IsLoop
  <2>2. QED
    BY <2>1, Zenon
<1> HIDE DEF A, B
<1>3. ASSUME NEW n \in Nat, n \in P PROVE n + 1 \in P
  <2> SUFFICES ASSUME n + 1 <= k PROVE A[n + 1] = B[n + 1]
    OBVIOUS
  <2>1. /\ n + 1 \in 1..k /\ n + 1 \in 1..Len(a) /\ n + 1 \in 1..Len(b) /\ (n + 1) - 1 = n
        /\ n <= k
    OBVIOUS
  <2>2. A[n] = B[n] /\ a[n + 1] = b[n + 1]
    BY <1>3, <2>1, Zenon
  <2>3. A[n + 1] = Turn(A[n], a[n + 1], TRUE, FALSE) /\ B[n + 1] = Turn(B[n], b[n + 1], TRUE, FALSE)
    BY <1>1, <2>1, Zenon DEF IsLoop
  <2>4. QED
    BY <2>2, <2>3, Zenon
<1>4. Nat \subseteq P
  <2> HIDE DEF P
  <2> QED BY <1>2, <1>3, Everywhere, Zenon
<1>5. k <= k
  OBVIOUS
<1>6. QED
  BY <1>4, <1>5, Zenon DEF A, B, Agree

\* Loops over statements of which those after the i-th are the same, when they
\* are alike at that point
LEMMA LaterTurns ==
  ASSUME NEW a, NEW b, Len(b) \in Nat, Len(a) = Len(b) + 1, NEW i \in 1..Len(a),
         \A j \in (i + 1)..Len(a) : a[j] = b[j - 1] /\ Blind(a[j]),
         NEW c, AlikeAnswers(After(a, c, TRUE, FALSE)[i], After(b, c, TRUE, FALSE)[i - 1])
  PROVE  AlikeAnswers(After(a, c, TRUE, FALSE)[Len(a)], After(b, c, TRUE, FALSE)[Len(b)])
<1> DEFINE A == After(a, c, TRUE, FALSE)
           B == After(b, c, TRUE, FALSE)
           P == {n \in Nat : i + n <= Len(a) => AlikeAnswers(A[i + n], B[i + n - 1])}
<1>0. Len(a) \in Nat
  OBVIOUS
<1>1. IsLoop(A, a, c, TRUE, FALSE) /\ IsLoop(B, b, c, TRUE, FALSE)
  BY <1>0, AfterIs, Zenon
<1>2. 0 \in P
  <2>1. i + 0 = i /\ i + 0 - 1 = i - 1
    OBVIOUS
  <2>2. AlikeAnswers(A[i + 0], B[i + 0 - 1])
    BY <2>1, Zenon
  <2>3. QED
    BY <2>2, Zenon
<1> HIDE DEF A, B
<1>3. ASSUME NEW n \in Nat, n \in P PROVE n + 1 \in P
  <2> DEFINE m == i + n
  <2> SUFFICES ASSUME i + (n + 1) <= Len(a) PROVE AlikeAnswers(A[i + (n + 1)], B[i + (n + 1) - 1])
    OBVIOUS
  <2>1. /\ m \in 1..Len(b) /\ m + 1 \in 1..Len(a) /\ (m + 1) - 1 = m /\ m <= Len(a)
        /\ i + (n + 1) = m + 1 /\ i + (n + 1) - 1 = m /\ m + 1 \in (i + 1)..Len(a)
    OBVIOUS
  <2>2. AlikeAnswers(A[m], B[m - 1]) /\ a[m + 1] = b[m] /\ Blind(a[m + 1])
    <3>1. AlikeAnswers(A[m], B[m - 1])
      BY <1>3, <2>1
    <3>2. a[m + 1] = b[(m + 1) - 1] /\ Blind(a[m + 1])
      BY <2>1, Zenon
    <3>3. QED
      BY <2>1, <3>1, <3>2, Zenon
  <2> HIDE DEF m
  <2>3. A[m + 1] = Turn(A[m], a[m + 1], TRUE, FALSE) /\ B[m] = Turn(B[m - 1], b[m], TRUE, FALSE)
    BY <1>1, <2>1, Zenon DEF IsLoop
  <2>4. /\ A[m].ok = B[m - 1].ok /\ Alike(A[m].ctx, B[m - 1].ctx)
        /\ A[m].ctx.res = B[m - 1].ctx.res
    BY <2>2, Zenon DEF AlikeAnswers, Alike
  <2>5. AlikeAnswers(A[m + 1], B[m])
    BY <2>2, <2>3, <2>4, Zenon DEF Turn, Blind
  <2>6. QED
    BY <2>1, <2>5, Zenon
<1>4. Nat \subseteq P
  <2> HIDE DEF P
  <2> QED BY <1>2, <1>3, Everywhere, Zenon
<1> DEFINE n == Len(a) - i
<1>5. n \in Nat /\ i + n = Len(a) /\ i + n - 1 = Len(b) /\ i + n <= Len(a)
  OBVIOUS
<1>6. AlikeAnswers(A[i + n], B[i + n - 1])
  <2> HIDE DEF n
  <2> QED BY <1>4, <1>5, Zenon
<1>7. QED
  BY <1>5, <1>6, Zenon DEF A, B

\* A context of Mails
LEMMA MailIs ==
  ASSUME NEW c \in Mails
  PROVE  c = With(c.vars, NoResult, <<>>) /\ IsContext(c) /\ c.res = NoResult
<1>1. c = With(c.vars, NoResult, <<>>)
  BY MailsAssumption, Zenon DEF NewContext, With
<1>2. QED
  <2> DEFINE v == c.vars  r == NoResult  h == <<>>  d == With(v, r, h)
  <2>1. d.res = r /\ IsContext(d)
    <3> HIDE DEF v, r, h
    <3> QED BY WithParts
  <2>2. c = d
    BY <1>1
  <2> HIDE DEF d, r
  <2>3. c.res = r /\ IsContext(c)
    BY <2>1, <2>2, Zenon
  <2>4. QED
    BY <1>1, <2>3, Zenon DEF r

\* Answers of loops from a context
LEMMA LoopAnswers ==
  ASSUME NEW content \in Seq(Statements), \A st \in Statements : Blind(st),
         NEW c, IsContext(c), NEW documented \in BOOLEAN
  PROVE  \A i \in 0..Len(content) :
           LET r == After(content, c, TRUE, documented)[i]
           IN IsAnswer(r) /\ IsContext(r.ctx) /\ AlikeAnswers(r, r)
<1>1. /\ Len(content) \in Nat /\ \A i \in 1..Len(content) : content[i] \in Statements
  OBVIOUS
<1>2. Alike(c, c)
  BY Zenon DEF Alike
<1>3. \A i \in 0..Len(content) :
        AlikeAnswers(After(content, c, TRUE, documented)[i], After(content, c, TRUE, documented)[i])
  BY <1>1, <1>2, LoopAlike, Zenon
<1>4. QED
  BY <1>3, Zenon DEF AlikeAnswers, Alike

\* A sub-filter that fails leaves nothing but header changes.
LEMMA FailedFilter ==
  ASSUME Recurs, NEW st \in Statements, st.kind = "filter",
         NEW r, IsAnswer(r), r.ok, IsContext(r.ctx), r.ctx.res.action = "continue",
         ~EvalContent(st.content, r.ctx, FALSE).ok
  PROVE  AlikeAnswers(Turn(r, st, TRUE, FALSE), r)
<1> DEFINE c == r.ctx
           q == EvalContent(st.content, c, FALSE)
<1>1. Turn(r, st, TRUE, FALSE) = EvalFilter(st, c, FALSE)
  <2>1. EvalStatement(st, c, FALSE) = EvalFilter(st, c, FALSE)
    BY DEF EvalStatement
  <2>2. EvalNested(st, c, FALSE) = EvalStatement(st, c, FALSE)
    BY Zenon DEF Recurs
  <2>3. QED
    BY <2>1, <2>2, Zenon DEF Turn
<1>2. EvalFilter(st, c, FALSE) = Go(With(c.vars, c.res, q.ctx.hdr))
  BY FilterIs, Zenon
<1>3. r = Go(With(c.vars, c.res, c.hdr))
  <2>1. r = Go(c)
    BY DEF IsAnswer, Go
  <2>2. QED
    BY <2>1, Zenon DEF IsContext
<1>4. Alike(With(c.vars, c.res, q.ctx.hdr), With(c.vars, c.res, c.hdr))
  BY WithAlike, Zenon
<1>5. QED
  BY <1>1, <1>2, <1>3, <1>4, GoStop, Zenon

\* A file, and the file without its i-th statement
LEMMA Without ==
  ASSUME NEW script \in Seq(Statements), NEW i \in DOMAIN script
  PROVE  LET before == SubSeq(script, 1, i - 1)
             rest == before \o SubSeq(script, i + 1, Len(script))
         IN /\ Len(before) = i - 1 /\ \A j \in 1..(i - 1) : before[j] = script[j] /\ rest[j] = script[j]
            /\ Len(rest) \in Nat /\ Len(script) = Len(rest) + 1
            /\ \A j \in (i + 1)..Len(script) : script[j] = rest[j - 1]
<1> DEFINE n == Len(script)
           before == SubSeq(script, 1, i - 1)
           after == SubSeq(script, i + 1, n)
           rest == before \o after
<1>1. n \in Nat /\ i \in 1..n
  OBVIOUS
<1>2. /\ before \in Seq(Statements) /\ Len(before) = i - 1
      /\ \A j \in 1..(i - 1) : before[j] = script[j]
  BY <1>1
<1>3. /\ after \in Seq(Statements) /\ Len(after) = n - i
      /\ \A j \in 1..(n - i) : after[j] = script[i + j]
  BY <1>1
<1> HIDE DEF n, before, after
<1>4. /\ Len(rest) = Len(before) + Len(after)
      /\ \A j \in 1..(Len(before) + Len(after)) :
           rest[j] = IF j <= Len(before) THEN before[j] ELSE after[j - Len(before)]
  BY <1>2, <1>3, ConcatProperties, Zenon
<1> HIDE DEF rest
<1>5. ASSUME NEW j \in 1..(i - 1) PROVE rest[j] = script[j]
  <2>1. j \in 1..(Len(before) + Len(after)) /\ j <= Len(before)
    BY <1>1, <1>2, <1>3
  <2>2. QED
    BY <1>2, <1>4, <2>1, Zenon
<1>6. ASSUME NEW j \in (i + 1)..n PROVE script[j] = rest[j - 1]
  <2> DEFINE k == j - 1
             l == k - Len(before)
  <2>1. /\ k \in 1..(Len(before) + Len(after)) /\ ~(k <= Len(before))
        /\ l \in 1..(n - i) /\ i + l = j
    BY <1>1, <1>2, <1>3
  <2>2. rest[k] = after[l]
    <3> HIDE DEF k
    <3> QED BY <1>4, <2>1
  <2>3. QED
    <3> HIDE DEF k, l
    <3>1. after[l] = script[i + l]
      BY <1>3, <2>1
    <3>2. rest[k] = script[j]
      BY <2>1, <2>2, <3>1
    <3>3. QED
      BY <3>2 DEF k
<1>7. Len(rest) \in Nat /\ n = Len(rest) + 1
  BY <1>1, <1>2, <1>3, <1>4
<1>8. QED
  BY <1>2, <1>5, <1>6, <1>7, Zenon DEF n, before, after, rest

\* A file without a sub-filter that fails answers the same.
LEMMA FailedFilterLeavesNothing ==
  ASSUME Recurs, \A st \in Statements : Blind(st),
         NEW script \in Seq(Statements), NEW c \in Mails, NEW i \in DOMAIN script,
         script[i].kind = "filter",
         EvalTree(SubSeq(script, 1, i - 1), c, FALSE).ok,
         EvalTree(SubSeq(script, 1, i - 1), c, FALSE).ctx.res.action = "continue",
         ~EvalContent(script[i].content, EvalTree(SubSeq(script, 1, i - 1), c, FALSE).ctx, FALSE).ok
  PROVE  AlikeAnswers(
           EvalTree(script, c, FALSE),
           EvalTree(SubSeq(script, 1, i - 1) \o SubSeq(script, i + 1, Len(script)), c, FALSE))
<1> DEFINE prefix == SubSeq(script, 1, i - 1)
           rest == prefix \o SubSeq(script, i + 1, Len(script))
           A == After(script, c, TRUE, FALSE)
           B == After(rest, c, TRUE, FALSE)
           k == i - 1
           r == After(prefix, c, TRUE, FALSE)[Len(prefix)]
<1>1. /\ Len(prefix) = k /\ \A j \in 1..k : prefix[j] = script[j] /\ rest[j] = script[j]
      /\ Len(rest) \in Nat /\ Len(script) = Len(rest) + 1
      /\ \A j \in (i + 1)..Len(script) : script[j] = rest[j - 1]
  BY Without, Zenon
<1>2. /\ r.ok /\ r.ctx.res.action = "continue" /\ ~EvalContent(script[i].content, r.ctx, FALSE).ok
  BY Zenon DEF EvalTree
<1>3. /\ Len(script) \in Nat /\ i \in 1..Len(script) /\ script[i] \in Statements /\ k \in Nat
      /\ \A j \in (i + 1)..Len(script) : script[j] \in Statements
  OBVIOUS
<1> HIDE DEF prefix, rest
<1>4. k <= Len(script) /\ k <= Len(rest) /\ k <= Len(prefix) /\ Len(prefix) \in Nat /\ k \in 0..Len(script)
  BY <1>1, <1>3
<1> HIDE DEF k
<1>5. r = A[k] /\ r = B[k]
  <2>0. (\A j \in 1..k : prefix[j] = script[j]) /\ (\A j \in 1..k : rest[j] = script[j])
    BY <1>1, Zenon
  <2>1. Agree(prefix, script, k, c)
    BY <1>3, <1>4, <2>0, SameTurns, Zenon
  <2>2. Agree(rest, script, k, c)
    BY <1>1, <1>3, <1>4, <2>0, SameTurns, Zenon
  <2>3. QED
    BY <1>1, <2>1, <2>2, Zenon DEF Agree
<1>6. IsAnswer(r) /\ IsContext(r.ctx)
  <2>1. IsContext(c)
    BY MailIs, Zenon
  <2>2. IsAnswer(A[k]) /\ IsContext(A[k].ctx)
    BY <1>4, <2>1, LoopAnswers, Zenon
  <2>3. QED
    BY <1>5, <2>2, Zenon
<1>7. AlikeAnswers(Turn(r, script[i], TRUE, FALSE), r)
  <2> HIDE DEF r
  <2> QED BY <1>2, <1>3, <1>6, FailedFilter, Zenon
<1>8. A[i] = Turn(A[k], script[i], TRUE, FALSE)
  <2>1. IsLoop(A, script, c, TRUE, FALSE)
    BY <1>3, AfterIs, Zenon
  <2>2. QED
    BY <1>3, <2>1, Zenon DEF IsLoop, k
<1>9. AlikeAnswers(A[i], B[i - 1])
  <2> HIDE DEF A, B, r
  <2> QED BY <1>5, <1>7, <1>8, Zenon DEF k
<1>10. \A j \in (i + 1)..Len(script) : script[j] = rest[j - 1] /\ Blind(script[j])
  BY <1>1, <1>3, Zenon
<1>11. AlikeAnswers(A[Len(script)], B[Len(rest)])
  BY <1>1, <1>3, <1>9, <1>10, LaterTurns, Zenon
<1>12. QED
  BY <1>11, Zenon DEF EvalTree, prefix, rest

-----------------------------------------------------------------------------
(* A file that fails. *)

\* The files that are tried, one by one
AreTried(tried, files, c) ==
  /\ tried[0] = Stop(c)
  /\ \A i \in 1..Len(files) : tried[i] = Try(tried[i - 1], files[i], c)

\* The recursive definition of Tried has a value.
LEMMA TriedIs ==
  ASSUME NEW files, Len(files) \in Nat, NEW c
  PROVE  AreTried(Tried(files, c), files, c)
<1> DEFINE Rec(f, n) == f = [i \in 0..n |-> IF i = 0 THEN Stop(c)
                                   ELSE Try(f[i - 1], files[i], c)]
           P == {n \in Nat : \E f : Rec(f, n)}
<1>1. 0 \in P
  <2>1. Rec([i \in 0..0 |-> Stop(c)], 0)
    OBVIOUS
  <2>2. QED
    BY <2>1, Zenon
<1>2. ASSUME NEW n \in Nat, n \in P PROVE n + 1 \in P
  <2>1. PICK f : Rec(f, n)
    BY <1>2
  <2> DEFINE g == [i \in 0..(n + 1) |-> IF i = n + 1 THEN Try(f[n], files[i], c) ELSE f[i]]
  <2>2. Rec(g, n + 1)
    <3>1. ASSUME NEW i \in 0..(n + 1)
          PROVE g[i] = IF i = 0 THEN Stop(c) ELSE Try(g[i - 1], files[i], c)
      <4>1. CASE i = n + 1
        <5>1. i # 0 /\ i - 1 = n /\ n \in 0..(n + 1) /\ n # n + 1
          BY <4>1
        <5>2. g[i - 1] = f[n] /\ g[i] = Try(f[n], files[i], c)
          BY <4>1, <5>1
        <5>3. QED
          BY <5>1, <5>2, Zenon
      <4>2. CASE i # n + 1
        <5>1. i \in 0..n /\ (i # 0 => i - 1 \in 0..(n + 1) /\ i - 1 # n + 1)
          BY <4>2
        <5>2. g[i] = f[i] /\ (i # 0 => g[i - 1] = f[i - 1])
          BY <4>2, <5>1, Zenon
        <5>3. f[i] = IF i = 0 THEN Stop(c) ELSE Try(f[i - 1], files[i], c)
          BY <2>1, <5>1, Zenon
        <5>4. QED
          BY <5>2, <5>3, Zenon
      <4>3. QED
        BY <4>1, <4>2, Zenon
    <3>2. QED
      BY <3>1, Zenon
  <2>3. n + 1 \in Nat /\ \E f2 : Rec(f2, n + 1)
    <3> HIDE DEF Rec, g
    <3> QED BY <2>2
  <2>4. QED
    BY <2>3, Zenon
<1>3. Nat \subseteq P
  <2> HIDE DEF P
  <2> QED BY <1>1, <1>2, Everywhere, Zenon
<1>4. \E f : Rec(f, Len(files))
  BY <1>3, Zenon
<1> DEFINE tried == Tried(files, c)
<1>5. tried = CHOOSE f : Rec(f, Len(files))
  BY Zenon DEF Tried
<1>6. Rec(tried, Len(files))
  <2> HIDE DEF Rec, tried
  <2> QED BY <1>4, <1>5, Zenon
<1>7. 0 \in 0..Len(files) /\ \A i \in 1..Len(files) : i \in 0..Len(files) /\ i # 0
  OBVIOUS
<1>8. \A i \in 0..Len(files) :
        tried[i] = IF i = 0 THEN Stop(c) ELSE Try(tried[i - 1], files[i], c)
  <2> HIDE DEF tried
  <2> QED BY <1>6, Zenon
<1>9. QED
  BY <1>7, <1>8, Zenon DEF AreTried

\* After files that failed, a file answers what it answers alone.
LEMMA TryIs ==
  ASSUME \A st \in Statements : Blind(st), NEW c \in Mails, NEW script \in Files,
         NEW acc, acc.ok = FALSE
  PROVE  LET alone == EvalTree(script, c, FALSE)
             r == Try(acc, script, c)
         IN r.ok = alone.ok /\ alone.ok \in BOOLEAN /\ (alone.ok => r.ctx.res = alone.ctx.res)
<1> DEFINE h == acc.ctx.hdr
           d == [c EXCEPT !.hdr = h]
           alone == EvalTree(script, c, FALSE)
           r == EvalTree(script, d, FALSE)
<1>1. IsContext(c) /\ script \in Seq(Statements)
  BY MailIs, StatementsAssumption, Zenon
<1>2. d = With(c.vars, c.res, h)
  <2> HIDE DEF h
  <2>1. c = [vars |-> c.vars, res |-> c.res, hdr |-> c.hdr]
    BY <1>1, Zenon DEF IsContext, With
  <2>2. QED
    BY <2>1 DEF With
<1>3. Alike(c, d)
  <2>1. c = With(c.vars, c.res, c.hdr)
    BY <1>1, Zenon DEF IsContext
  <2>2. Alike(With(c.vars, c.res, c.hdr), With(c.vars, c.res, h))
    BY WithAlike, Zenon
  <2> HIDE DEF d, h
  <2>3. QED
    BY <1>2, <2>1, <2>2, Zenon
<1> HIDE DEF d
<1>4. AlikeAnswers(alone, r)
  <2>1. /\ Len(script) \in Nat /\ Len(script) \in 0..Len(script)
        /\ \A i \in 1..Len(script) : script[i] \in Statements
    BY <1>1
  <2>2. QED
    BY <1>3, <2>1, LoopAlike, Zenon DEF EvalTree
<1>5. alone.ok \in BOOLEAN /\ r.ok = alone.ok /\ r.ctx.res = alone.ctx.res
  BY <1>4, Zenon DEF AlikeAnswers, IsAnswer, Alike
<1>6. Try(acc, script, c) = IF r.ok THEN r ELSE Stop([c EXCEPT !.hdr = r.ctx.hdr])
  BY Zenon DEF Try, d
<1> HIDE DEF r, alone
<1>7. QED
  <2>1. CASE r.ok
    BY <1>5, <1>6, <2>1, Zenon DEF alone
  <2>2. CASE ~r.ok
    <3> DEFINE x == [c EXCEPT !.hdr = r.ctx.hdr]
    <3>1. Try(acc, script, c) = Stop(x)
      BY <1>6, <2>2, Zenon
    <3>2. Stop(x).ok = FALSE
      BY AnswerParts, Zenon
    <3> HIDE DEF x
    <3>3. alone.ok = FALSE /\ Try(acc, script, c).ok = FALSE
      BY <1>5, <2>2, <3>1, <3>2
    <3>4. QED
      BY <3>3, Zenon DEF alone
  <2>3. QED
    BY <2>1, <2>2, Zenon

\* What checkFilters answers for one file, and for two of which one fails
LEMMA FilesAnswer ==
  ASSUME \A st \in Statements : Blind(st), NEW c \in Mails, NEW f \in Files, NEW g \in Files,
         ~EvalTree(g, c, FALSE).ok
  PROVE  LET alone == EvalTree(f, c, FALSE)
             res == IF alone.ok THEN alone.ctx.res ELSE NoResult
         IN /\ CheckFilters(<<f>>, c).res = res
            /\ CheckFilters(<<f, g>>, c).res = res /\ CheckFilters(<<g, f>>, c).res = res
<1> DEFINE alone == EvalTree(f, c, FALSE)
           res == IF alone.ok THEN alone.ctx.res ELSE NoResult
           Same(r) == r.ok = alone.ok /\ (alone.ok => r.ctx.res = alone.ctx.res)
<1>1. ASSUME NEW files, Len(files) \in Nat, Same(Tried(files, c)[Len(files)])
      PROVE  CheckFilters(files, c).res = res
  <2> DEFINE last == Tried(files, c)[Len(files)]
             h == last.ctx.hdr
             lastres == last.ctx.res
  <2>1. CheckFilters(files, c) =
          IF last.ok THEN [res |-> lastres, hdr |-> h] ELSE [res |-> NoResult, hdr |-> <<>>]
    BY Zenon DEF CheckFilters
  <2>2. last.ok = alone.ok /\ (alone.ok => lastres = alone.ctx.res)
    BY <1>1, Zenon
  <2> HIDE DEF last, h, lastres, alone
  <2>3. QED
    BY <2>1, <2>2
<1>2. Stop(c).ok = FALSE
  BY AnswerParts, Zenon
<1>3. ASSUME NEW acc, acc.ok = FALSE
      PROVE  Same(Try(acc, f, c)) /\ Try(acc, g, c).ok = FALSE /\ alone.ok \in BOOLEAN
  BY <1>3, TryIs, Zenon
<1>0. alone.ok \in BOOLEAN
  BY <1>2, <1>3, Zenon
<1>4. ASSUME NEW acc, Same(acc) PROVE Same(Try(acc, g, c))
  <2>1. CASE acc.ok
    BY <1>4, <2>1, Zenon DEF Try
  <2>2. CASE ~acc.ok
    <3>1. Try(acc, g, c).ok = FALSE /\ alone.ok = FALSE
      BY <1>0, <1>3, <1>4, <2>2, Zenon
    <3>2. QED
      BY <3>1, Zenon
  <2>3. QED
    BY <2>1, <2>2, Zenon
<1> HIDE DEF Same
<1>5. CheckFilters(<<f>>, c).res = res
  <2> DEFINE t == Tried(<<f>>, c)
  <2>1. AreTried(t, <<f>>, c)
    BY TriedIs
  <2>2. t[0] = Stop(c) /\ t[1] = Try(t[0], f, c)
    <3> HIDE DEF t
    <3> QED BY <2>1 DEF AreTried
  <2>3. Same(t[1])
    BY <1>2, <1>3, <2>2, Zenon
  <2>4. Len(<<f>>) = 1
    OBVIOUS
  <2>5. QED
    BY <1>1, <2>3, <2>4, Zenon
<1>6. CheckFilters(<<f, g>>, c).res = res
  <2> DEFINE t == Tried(<<f, g>>, c)
  <2>1. AreTried(t, <<f, g>>, c)
    BY TriedIs
  <2>2. t[0] = Stop(c) /\ t[1] = Try(t[0], f, c) /\ t[2] = Try(t[1], g, c)
    <3> HIDE DEF t
    <3> QED BY <2>1 DEF AreTried
  <2>3. Same(t[1])
    BY <1>2, <1>3, <2>2, Zenon
  <2>4. Same(t[2])
    BY <1>4, <2>2, <2>3, Zenon
  <2>5. Len(<<f, g>>) = 2
    OBVIOUS
  <2>6. QED
    BY <1>1, <2>4, <2>5, Zenon
<1>7. CheckFilters(<<g, f>>, c).res = res
  <2> DEFINE t == Tried(<<g, f>>, c)
  <2>1. AreTried(t, <<g, f>>, c)
    BY TriedIs
  <2>2. t[0] = Stop(c) /\ t[1] = Try(t[0], g, c) /\ t[2] = Try(t[1], f, c)
    <3> HIDE DEF t
    <3> QED BY <2>1 DEF AreTried
  <2>3. t[1].ok = FALSE
    BY <1>2, <1>3, <2>2, Zenon
  <2>4. Same(t[2])
    BY <1>3, <2>2, <2>3, Zenon
  <2>5. Len(<<g, f>>) = 2
    OBVIOUS
  <2>6. QED
    BY <1>1, <2>4, <2>5, Zenon
<1>8. QED
  BY <1>5, <1>6, <1>7, Zenon

\* A sub-filter (Filter.Eval) or a file (checkFilters) that fails leaves nothing
\* in the result: for any scripts and files of nested statements, FailureLeavesNothing.
THEOREM FailedFiltersLeaveNothing ==
  ASSUME NEW depth, Nests(depth), Recurs
  PROVE  FilterInput => FailureLeavesNothing
<1> SUFFICES ASSUME FilterInput PROVE FailureLeavesNothing
  OBVIOUS
<1>1. \A st \in Statements : Blind(st)
  BY AllBlind, Zenon
<1>2. ASSUME "script" \in DOMAIN input PROVE input.script \in Seq(Statements)
  <2>1. input.script \in Scripts
    BY <1>2 DEF FilterInput
  <2>2. QED
    BY <2>1, StatementsAssumption, Zenon
<1>3. ASSUME "files" \in DOMAIN input PROVE input.files[1] \in Files /\ input.files[2] \in Files
  BY <1>3 DEF FilterInput
<1>4. ASSUME "script" \in DOMAIN input, NEW c \in Mails, NEW i \in DOMAIN input.script
      PROVE  LET script == input.script
                 before == EvalTree(SubSeq(script, 1, i - 1), c, FALSE)
                 all == EvalTree(script, c, FALSE)
                 without == EvalTree(SubSeq(script, 1, i - 1) \o SubSeq(script, i + 1, Len(script)), c, FALSE)
             IN (/\ script[i].kind = "filter"
                 /\ before.ok /\ before.ctx.res.action = "continue"
                 /\ ~EvalContent(script[i].content, before.ctx, FALSE).ok)
                  => all.ok = without.ok /\ all.ctx.res = without.ctx.res
  <2> DEFINE script == input.script
             before == EvalTree(SubSeq(script, 1, i - 1), c, FALSE)
             all == EvalTree(script, c, FALSE)
             without == EvalTree(SubSeq(script, 1, i - 1) \o SubSeq(script, i + 1, Len(script)), c, FALSE)
  <2> SUFFICES ASSUME script[i].kind = "filter", before.ok, before.ctx.res.action = "continue",
                      ~EvalContent(script[i].content, before.ctx, FALSE).ok
               PROVE  all.ok = without.ok /\ all.ctx.res = without.ctx.res
    BY Zenon
  <2>1. AlikeAnswers(all, without)
    BY <1>1, <1>2, <1>4, FailedFilterLeavesNothing, Zenon
  <2>2. QED
    BY <2>1, Zenon DEF AlikeAnswers, Alike
<1>5. ASSUME "files" \in DOMAIN input, NEW c \in Mails
      PROVE  LET f == input.files[1]
                 g == input.files[2]
                 alone == CheckFilters(<<f>>, c).res
             IN ~EvalTree(g, c, FALSE).ok =>
                  CheckFilters(<<f, g>>, c).res = alone /\ CheckFilters(<<g, f>>, c).res = alone
  <2> DEFINE f == input.files[1]
             g == input.files[2]
  <2>1. f \in Files /\ g \in Files
    BY <1>3, <1>5, Zenon
  <2> HIDE DEF f, g
  <2> DEFINE alone == EvalTree(f, c, FALSE)
             res == IF alone.ok THEN alone.ctx.res ELSE NoResult
  <2>2. ~EvalTree(g, c, FALSE).ok =>
          /\ CheckFilters(<<f>>, c).res = res
          /\ CheckFilters(<<f, g>>, c).res = res /\ CheckFilters(<<g, f>>, c).res = res
    BY <1>1, <2>1, FilesAnswer, Zenon
  <2> HIDE DEF res
  <2>3. QED
    BY <2>2, Zenon DEF f, g
<1>6. QED
  BY <1>4, <1>5, Zenon DEF FailureLeavesNothing

-----------------------------------------------------------------------------
(* Terminal actions. *)

\* MayEnd is what its definition says: the least set of statements that meets
\* it makes a function that does, so the one that CHOOSE takes does.
LEMMA MayEndIs ==
  \A st \in Statements :
    MayEnd[st] <=> \/ st.kind = "do" /\ st.name \in DOMAIN Terminal \cup {"spam"}
                   \/ st.kind = "filter" /\ \E i \in DOMAIN st.content : MayEnd[st.content[i]]
<1> DEFINE do(st) == st.kind = "do" /\ st.name \in DOMAIN Terminal \cup {"spam"}
           is(st, S) == do(st) \/ (st.kind = "filter" /\ \E i \in DOMAIN st.content : st.content[i] \in S)
           Closed(S) == \A st \in Statements : is(st, S) => st \in S
           E == {st \in Statements : \A S \in SUBSET Statements : Closed(S) => st \in S}
           D == {st \in Statements : is(st, E)}
<1> HIDE DEF do
<1>1. Closed(E)
  <2> SUFFICES ASSUME NEW st \in Statements, is(st, E), NEW S \in SUBSET Statements, Closed(S)
               PROVE  st \in S
    BY Zenon
  <2>1. \A x \in E : x \in S
    BY Zenon
  <2> HIDE DEF E
  <2>2. is(st, S)
    BY <2>1, Zenon
  <2>3. QED
    BY <2>2, Zenon
<1>2. E \subseteq D
  <2>1. D \subseteq E
    <3> HIDE DEF E
    <3> QED BY <1>1, Zenon
  <2>2. Closed(D)
    <3> SUFFICES ASSUME NEW st \in Statements, is(st, D) PROVE is(st, E)
      BY Zenon
    <3> HIDE DEF D, E
    <3>1. QED
      BY <2>1, Zenon
  <2>3. D \in SUBSET Statements
    <3> HIDE DEF is
    <3> QED BY Zenon
  <2>4. QED
    <3> HIDE DEF Closed, D
    <3> QED BY <2>2, <2>3, Zenon
<1>3. \A st \in Statements : st \in E <=> is(st, E)
  <2> HIDE DEF E
  <2> QED BY <1>1, <1>2, Zenon
<1> HIDE DEF E
<1> DEFINE Is(g) == g = [st \in Statements |->
                           do(st) \/ (st.kind = "filter" /\ \E i \in DOMAIN st.content : g[st.content[i]])]
           f == [st \in Statements |-> st \in E]
<1>4. Is(f)
  <2>1. ASSUME NEW st \in Statements
        PROVE  (st \in E) = (do(st) \/ (st.kind = "filter" /\ \E i \in DOMAIN st.content : f[st.content[i]]))
    <3>1. st.kind = "filter" => \A i \in DOMAIN st.content : f[st.content[i]] <=> st.content[i] \in E
      BY ContentIs, Zenon
    <3> HIDE DEF f
    <3>2. st \in E <=> (do(st) \/ (st.kind = "filter" /\ \E i \in DOMAIN st.content : f[st.content[i]]))
      BY <1>3, <3>1
    <3>3. QED
      BY <3>2
  <2>2. f = [st \in Statements |->
               do(st) \/ (st.kind = "filter" /\ \E i \in DOMAIN st.content : f[st.content[i]])]
    <3> DEFINE g(st) == do(st) \/ (st.kind = "filter" /\ \E i \in DOMAIN st.content : f[st.content[i]])
    <3>1. \A st \in Statements : (st \in E) = g(st)
      BY <2>1, Zenon
    <3>2. f = [st \in Statements |-> g(st)]
      <4> HIDE DEF g
      <4> QED BY <3>1
    <3>3. QED
      BY <3>2, Zenon
  <2>3. QED
    BY <2>2, Zenon
<1>5. MayEnd = CHOOSE g : Is(g)
  BY Zenon DEF MayEnd, do
<1>6. Is(MayEnd)
  <2> HIDE DEF Is
  <2> QED BY <1>4, <1>5, Zenon
<1>7. QED
  BY <1>6, Zenon DEF do

\* EndsLast is what its definition says, as the largest set of statements that
\* meets it makes a function that does.
LEMMA EndsLastIs ==
  \A st \in Statements :
    EndsLast[st] <=>
      (st.kind = "filter" =>
        \A i \in DOMAIN st.content :
          EndsLast[st.content[i]] /\ (MayEnd[st.content[i]] => i = Len(st.content)))
<1> DEFINE ends(st, i) == MayEnd[st.content[i]] => i = Len(st.content)
           is(st, S) == st.kind = "filter" => \A i \in DOMAIN st.content : st.content[i] \in S /\ ends(st, i)
           Open(S) == \A st \in S : is(st, S)
           E == {st \in Statements : \E S \in SUBSET Statements : Open(S) /\ st \in S}
           D == {st \in Statements : is(st, E)}
<1> HIDE DEF ends
<1>1. Open(E)
  <2> SUFFICES ASSUME NEW st \in Statements, NEW S \in SUBSET Statements, Open(S), st \in S
               PROVE  is(st, E)
    BY Zenon
  <2>1. \A x \in S : x \in E
    BY Zenon
  <2>2. is(st, S)
    BY Zenon
  <2> HIDE DEF E
  <2>3. QED
    BY <2>1, <2>2, Zenon
<1>2. D \subseteq E
  <2>1. E \subseteq D
    <3>1. E \subseteq Statements
      <4> HIDE DEF Open
      <4> QED BY Zenon
    <3> HIDE DEF E
    <3>2. QED
      BY <1>1, <3>1, Zenon
  <2>2. Open(D)
    <3> SUFFICES ASSUME NEW st \in Statements, is(st, E) PROVE is(st, D)
      BY Zenon
    <3> HIDE DEF D, E
    <3>1. QED
      BY <2>1, Zenon
  <2>3. D \in SUBSET Statements
    <3> HIDE DEF is
    <3> QED BY Zenon
  <2>4. QED
    <3> HIDE DEF Open, D
    <3> QED BY <2>2, <2>3, Zenon
<1>3. \A st \in Statements : st \in E <=> is(st, E)
  <2> HIDE DEF E
  <2> QED BY <1>1, <1>2, Zenon
<1> HIDE DEF E
<1> DEFINE Is(g) == g = [st \in Statements |->
                           st.kind = "filter" =>
                             \A i \in DOMAIN st.content :
                               g[st.content[i]] /\ (MayEnd[st.content[i]] => i = Len(st.content))]
           f == [st \in Statements |-> st \in E]
<1>4. Is(f)
  <2>1. ASSUME NEW st \in Statements
        PROVE  (st \in E) = (st.kind = "filter" => \A i \in DOMAIN st.content : f[st.content[i]] /\ ends(st, i))
    <3>1. st.kind = "filter" => \A i \in DOMAIN st.content : f[st.content[i]] <=> st.content[i] \in E
      BY ContentIs, Zenon
    <3> HIDE DEF f
    <3>2. st \in E <=> (st.kind = "filter" => \A i \in DOMAIN st.content : f[st.content[i]] /\ ends(st, i))
      BY <1>3, <3>1, Zenon
    <3>3. QED
      BY <3>2
  <2>2. f = [st \in Statements |->
               st.kind = "filter" => \A i \in DOMAIN st.content : f[st.content[i]] /\ ends(st, i)]
    <3> DEFINE g(st) == st.kind = "filter" => \A i \in DOMAIN st.content : f[st.content[i]] /\ ends(st, i)
    <3>1. \A st \in Statements : (st \in E) = g(st)
      BY <2>1, Zenon
    <3>2. f = [st \in Statements |-> g(st)]
      <4> HIDE DEF g
      <4> QED BY <3>1
    <3>3. QED
      BY <3>2, Zenon
  <2>3. QED
    <3> HIDE DEF f
    <3> QED BY <2>2, Zenon DEF ends
<1>5. EndsLast = CHOOSE g : Is(g)
  BY Zenon DEF EndsLast
<1>6. Is(EndsLast)
  <2> HIDE DEF Is
  <2> QED BY <1>4, <1>5, Zenon
<1>7. QED
  BY <1>6, Zenon

-----------------------------------------------------------------------------
(* What is left of a context, and of its result. *)

\* A context with all of a result
Result(action, forward, mailbox, spam) ==
  [action |-> action, forward |-> forward, mailbox |-> mailbox, spam |-> spam]
IsResult(res) ==
  res = Result(res.action, res.forward, res.mailbox, res.spam)
Whole(c) == IsContext(c) /\ IsResult(c.res)

\* What a statement leaves of a context: one without a terminal action goes on.
Keeps(r, may, c) ==
  /\ IsAnswer(r) /\ Whole(r.ctx)
  /\ ~may /\ c.res.action = "continue" => r.ctx.res.action = "continue"

\* A context that an answer leaves as it was
LEMMA KeepsGoStop ==
  ASSUME NEW may, NEW c, Whole(c)
  PROVE  Keeps(Go(c), may, c) /\ Keeps(Stop(c), may, c)
  BY AnswerParts, Zenon DEF Keeps

\* What an action leaves of a result
LEMMA ResultKept ==
  ASSUME NEW res, IsResult(res), NEW name, NEW ps
  PROVE  /\ IsResult(NewResult(name, ps, res))
         /\ name \notin DOMAIN Terminal \cup {"spam"} => NewResult(name, ps, res).action = res.action
<1>0. \A n \in {"spam", "forward", "mailbox"} : n \notin DOMAIN Terminal
  BY DEF Terminal
<1>r. res = [action |-> res.action, forward |-> res.forward, mailbox |-> res.mailbox, spam |-> res.spam]
  BY DEF IsResult, Result
<1>1. CASE name \in DOMAIN Terminal
  <2> DEFINE t == Terminal[name]
  <2>1. NewResult(name, ps, res) = [res EXCEPT !.action = t]
    BY <1>0, <1>1 DEF NewResult
  <2> HIDE DEF t
  <2>2. IsResult([res EXCEPT !.action = t])
    BY <1>r DEF IsResult, Result
  <2>3. QED
    BY <1>1, <2>1, <2>2, Zenon
<1>2. CASE name = "spam"
  <2> DEFINE j == <<"Junk">>  q == "quarantine"  t == TRUE
  <2>1. NewResult(name, ps, res) = [res EXCEPT !.mailbox = j, !.action = q, !.spam = t]
    BY <1>0, <1>2, Zenon DEF NewResult
  <2> HIDE DEF j, q, t
  <2>2. IsResult([res EXCEPT !.mailbox = j, !.action = q, !.spam = t])
    <3> DEFINE a == res.action  f == res.forward  s == res.spam
    <3>1. [res EXCEPT !.mailbox = j] = Result(a, f, j, s)
      BY <1>r DEF Result
    <3> HIDE DEF a, f, s
    <3>2. [Result(a, f, j, s) EXCEPT !.action = q] = Result(q, f, j, s)
      BY DEF Result
    <3>3. [Result(q, f, j, s) EXCEPT !.spam = t] = Result(q, f, j, t)
      BY DEF Result
    <3>4. [res EXCEPT !.mailbox = j, !.action = q, !.spam = t] = Result(q, f, j, t)
      BY <3>1, <3>2, <3>3, Zenon
    <3>5. IsResult(Result(q, f, j, t))
      BY DEF Result, IsResult
    <3>6. QED
      BY <3>4, <3>5, Zenon
  <2>3. QED
    BY <1>2, <2>1, <2>2, Zenon
<1>3. CASE name = "forward"
  <2> DEFINE t == Append(res.forward, ps[1].str)
  <2>1. NewResult(name, ps, res) = [res EXCEPT !.forward = t]
    BY <1>0, <1>3, Zenon DEF NewResult
  <2> HIDE DEF t
  <2>2. IsResult([res EXCEPT !.forward = t]) /\ [res EXCEPT !.forward = t].action = res.action
    BY <1>r DEF IsResult, Result
  <2>3. QED
    BY <2>1, <2>2, Zenon
<1>4. CASE name = "mailbox"
  <2> DEFINE t == ps[1].str
  <2>1. NewResult(name, ps, res) = [res EXCEPT !.mailbox = t]
    BY <1>0, <1>4, Zenon DEF NewResult
  <2> HIDE DEF t
  <2>2. IsResult([res EXCEPT !.mailbox = t]) /\ [res EXCEPT !.mailbox = t].action = res.action
    BY <1>r DEF IsResult, Result
  <2>3. QED
    BY <2>1, <2>2, Zenon
<1>5. CASE name \notin DOMAIN Terminal /\ name \notin {"spam", "forward", "mailbox"}
  BY <1>5 DEF NewResult
<1>6. QED
  BY <1>1, <1>2, <1>3, <1>4, <1>5

\* A context that has been changed
LEMMA KeepsChanged ==
  ASSUME NEW may, NEW c, NEW d, Whole(d), ~may => d.res.action = c.res.action
  PROVE  Keeps(Go(d), may, c)
  BY AnswerParts, Zenon DEF Keeps

\* A context with a result is whole.
LEMMA WholeWith ==
  ASSUME NEW v, NEW r, NEW h, IsResult(r)
  PROVE  Whole(With(v, r, h)) /\ With(v, r, h).res = r
<1>1. With(v, r, h).res = r /\ IsContext(With(v, r, h))
  BY WithParts
<1>2. QED
  BY <1>1, Zenon DEF Whole

\* What statements but sub-filters leave of a context
LEMMA SimpleKept ==
  ASSUME NEW c, Whole(c), NEW st, NEW may
  PROVE  /\ Keeps(EvalCondition(st, c), may, c)
         /\ (~may => st.name \notin DOMAIN Terminal \cup {"spam"}) => Keeps(EvalAction(st, c), may, c)
         /\ Keeps(EvalLet(st, c), may, c)
<1>1. IsContext(c) /\ IsResult(c.res)
  BY Zenon DEF Whole
<1>2. Keeps(EvalCondition(st, c), may, c)
  BY KeepsGoStop, Zenon DEF EvalCondition
<1>3. ASSUME ~may => st.name \notin DOMAIN Terminal \cup {"spam"}
      PROVE  Keeps(EvalAction(st, c), may, c)
  <2>1. ASSUME NEW ps PROVE Keeps(Perform(st.name, ps, c), may, c)
    <3> DEFINE r == NewResult(st.name, ps, c.res)
               h == NewHeader(st.name, ps, c.hdr)
               d == With(c.vars, r, h)
    <3>1. IsResult(r) /\ (~may => r.action = c.res.action)
      BY <1>1, <1>3, ResultKept, Zenon
    <3>2. CASE Known(st.name, ps)
      <4>1. Perform(st.name, ps, c) = Go(d)
        BY <1>1, <3>2, PerformIs, Zenon
      <4> HIDE DEF r, h
      <4>2. Whole(d) /\ d.res = r
        BY <3>1, WholeWith, Zenon
      <4> HIDE DEF d
      <4>3. ~may => d.res.action = c.res.action
        BY <3>1, <4>2, Zenon
      <4>4. QED
        BY <4>1, <4>2, <4>3, KeepsChanged, Zenon
    <3>3. CASE ~Known(st.name, ps)
      <4>1. Perform(st.name, ps, c) = Stop(c)
        BY <1>1, <3>3, PerformIs, Zenon
      <4>2. QED
        BY <4>1, KeepsGoStop, Zenon
    <3>4. QED
      BY <3>2, <3>3, Zenon
  <2>2. QED
    BY <2>1, KeepsGoStop, Zenon DEF EvalAction
<1>4. Keeps(EvalLet(st, c), may, c)
  <2>1. ASSUME NEW x PROVE Keeps(Go([c EXCEPT !.vars = x @@ @]), may, c)
    <3> DEFINE v == x @@ c.vars
               d == With(v, c.res, c.hdr)
    <3>1. [c EXCEPT !.vars = x @@ @] = d
      BY <1>1 DEF IsContext, With
    <3> HIDE DEF v
    <3>2. Whole(d) /\ d.res = c.res
      BY <1>1, WholeWith, Zenon
    <3> HIDE DEF d
    <3>3. Keeps(Go(d), may, c)
      BY <3>2, KeepsChanged, Zenon
    <3>4. QED
      BY <3>1, <3>3
  <2>2. QED
    BY <2>1, KeepsGoStop, Zenon DEF EvalLet
<1>5. QED
  BY <1>2, <1>3, <1>4

\* What a statement, of a sub-filter or of a file, leaves of a context
Careful(st) ==
  \A documented \in BOOLEAN : \A c :
    Whole(c) => Keeps(EvalNested(st, c, documented), MayEnd[st], c)

\* What the first i statements leave of a context
Kept(r, content, i, c) ==
  /\ IsAnswer(r) /\ Whole(r.ctx)
  /\ c.res.action = "continue" /\ (\A j \in 1..i : ~MayEnd[content[j]]) => r.ctx.res.action = "continue"

\* A loop leaves of a context what its statements leave.
LEMMA LoopKept ==
  ASSUME NEW content, Len(content) \in Nat, \A i \in 1..Len(content) : Careful(content[i]),
         NEW breaks, NEW documented \in BOOLEAN, NEW c, Whole(c)
  PROVE  \A i \in 0..Len(content) : Kept(After(content, c, breaks, documented)[i], content, i, c)
<1> DEFINE A == After(content, c, breaks, documented)
           P == {n \in Nat : n \in 0..Len(content) => Kept(A[n], content, n, c)}
<1>1. IsLoop(A, content, c, breaks, documented)
  BY AfterIs, Zenon
<1> HIDE DEF A
<1>2. 0 \in P
  <2>1. A[0] = Go(c)
    BY <1>1, Zenon DEF IsLoop
  <2>2. IsAnswer(A[0]) /\ A[0].ctx = c
    BY <2>1, AnswerParts, Zenon
  <2>3. QED
    BY <2>2, Zenon DEF Kept
<1>3. ASSUME NEW n \in Nat, n \in P PROVE n + 1 \in P
  <2> SUFFICES ASSUME n + 1 \in 0..Len(content) PROVE Kept(A[n + 1], content, n + 1, c)
    OBVIOUS
  <2>1. n + 1 \in 1..Len(content) /\ (n + 1) - 1 = n /\ n \in 0..Len(content)
    OBVIOUS
  <2>2. Kept(A[n], content, n, c)
    BY <1>3, <2>1, Zenon
  <2>3. A[n + 1] = Turn(A[n], content[n + 1], breaks, documented)
    BY <1>1, <2>1 DEF IsLoop
  <2>4. A[n + 1] = A[n] \/ A[n + 1] = EvalNested(content[n + 1], A[n].ctx, documented)
    BY <2>3, Zenon DEF Turn
  <2>5. IsAnswer(A[n]) /\ Whole(A[n].ctx)
    BY <2>2, Zenon DEF Kept
  <2>6. Keeps(A[n + 1], MayEnd[content[n + 1]], A[n].ctx)
    <3>1. CASE A[n + 1] = A[n]
      BY <2>5, <3>1, Zenon DEF Keeps
    <3>2. CASE A[n + 1] = EvalNested(content[n + 1], A[n].ctx, documented)
      BY <2>1, <2>5, <3>2, Zenon DEF Careful
    <3>3. QED
      BY <2>4, <3>1, <3>2, Zenon
  <2>7. n + 1 \in 1..(n + 1) /\ \A j \in 1..n : j \in 1..(n + 1)
    OBVIOUS
  <2>8. QED
    BY <2>2, <2>6, <2>7, Zenon DEF Kept, Keeps
<1>4. Nat \subseteq P
  <2> HIDE DEF P
  <2> QED BY <1>2, <1>3, Everywhere, Zenon
<1>5. \A i \in 0..Len(content) : i \in Nat
  OBVIOUS
<1>6. QED
  BY <1>4, <1>5, Zenon DEF A

\* What a sub-filter leaves of a context
LEMMA FilterKept ==
  ASSUME NEW st \in Statements, st.kind = "filter",
         \A i \in 1..Len(st.content) : Careful(st.content[i]),
         NEW documented \in BOOLEAN, NEW c, Whole(c)
  PROVE  Keeps(EvalFilter(st, c, documented), MayEnd[st], c)
<1> DEFINE n == Len(st.content)
           r == EvalContent(st.content, c, documented)
           res == IF r.ok THEN r.ctx.res ELSE c.res
           d == With(c.vars, res, r.ctx.hdr)
<1>1. n \in Nat /\ n \in 0..n
  BY ContentIs
<1>2. Kept(r, st.content, n, c)
  BY <1>1, LoopKept, Zenon DEF EvalContent
<1>3. ~MayEnd[st] => \A j \in 1..n : ~MayEnd[st.content[j]]
  <2>1. DOMAIN st.content = 1..n
    BY ContentIs, Zenon
  <2>2. MayEnd[st] <=> \/ st.kind = "do" /\ st.name \in DOMAIN Terminal \cup {"spam"}
                       \/ st.kind = "filter" /\ \E i \in DOMAIN st.content : MayEnd[st.content[i]]
    BY MayEndIs, Zenon
  <2>3. QED
    BY <2>1, <2>2, Zenon
<1>4. EvalFilter(st, c, documented) = Go(d)
  BY FilterIs, Zenon DEF Whole
<1> HIDE DEF r, n
<1>5. IsResult(res) /\ (~MayEnd[st] /\ c.res.action = "continue" => res.action = "continue")
  <2>1. CASE r.ok
    BY <1>2, <1>3, <2>1, Zenon DEF Kept, Whole
  <2>2. CASE ~r.ok
    BY <2>2, Zenon DEF Whole
  <2>3. QED
    BY <2>1, <2>2, Zenon
<1> HIDE DEF res
<1>6. Whole(d) /\ d.res = res
  <2> DEFINE v == c.vars  h == r.ctx.hdr
  <2> HIDE DEF v, h
  <2>1. Whole(With(v, res, h)) /\ With(v, res, h).res = res
    BY <1>5, WholeWith, Zenon
  <2>2. QED
    BY <2>1 DEF v, h
<1> HIDE DEF d
<1>7. IsAnswer(Go(d)) /\ Go(d).ctx = d
  BY AnswerParts, Zenon
<1>8. Keeps(Go(d), MayEnd[st], c)
  BY <1>5, <1>6, <1>7, Zenon DEF Keeps
<1>9. QED
  BY <1>4, <1>8, Zenon

\* What every statement leaves of a context
LEMMA AllCareful ==
  ASSUME NEW depth, Nests(depth), Recurs
  PROVE  \A st \in Statements : Careful(st)
<1> DEFINE Q == {st \in Statements : Careful(st)}
<1>1. ASSUME NEW st \in Statements,
             st.kind = "filter" => \A i \in 1..Len(st.content) : st.content[i] \in Q
      PROVE  Careful(st)
  <2>1. ASSUME NEW documented \in BOOLEAN, NEW c, Whole(c)
        PROVE  Keeps(EvalStatement(st, c, documented), MayEnd[st], c)
    <3>1. CASE st.kind = "filter"
      <4>1. \A i \in 1..Len(st.content) : Careful(st.content[i])
        BY <1>1, <3>1, Zenon
      <4>2. Keeps(EvalFilter(st, c, documented), MayEnd[st], c)
        BY <2>1, <3>1, <4>1, FilterKept, Zenon
      <4>3. QED
        BY <3>1, <4>2, ByKind, Zenon
    <3>2. CASE st.kind = "do"
      <4>1. ~MayEnd[st] => st.name \notin DOMAIN Terminal \cup {"spam"}
        BY <3>2, MayEndIs, Zenon
      <4>2. Keeps(EvalAction(st, c), MayEnd[st], c)
        BY <2>1, <4>1, SimpleKept, Zenon
      <4>3. QED
        BY <3>2, <4>2, ByKind, Zenon
    <3>3. CASE st.kind # "filter" /\ st.kind # "do"
      <4>1. Keeps(EvalCondition(st, c), MayEnd[st], c) /\ Keeps(EvalLet(st, c), MayEnd[st], c)
        BY <2>1, SimpleKept, Zenon
      <4>2. QED
        BY <3>3, <4>1, ByKind, Zenon
    <3>4. QED
      BY <3>1, <3>2, <3>3, Zenon
  <2>2. QED
    BY <2>1, Zenon DEF Careful, Recurs
<1>2. Statements \subseteq Q
  <2>1. \A st \in Statements :
          (st.kind = "filter" => \A i \in 1..Len(st.content) : st.content[i] \in Q) => st \in Q
    BY <1>1, Zenon
  <2> HIDE DEF Q
  <2>2. QED
    BY <2>1, Nesting, Zenon
<1>3. QED
  BY <1>2, Zenon

-----------------------------------------------------------------------------
(* Sub-filters that look at the result between their statements *)

\* It makes no difference to the statement whether sub-filters do.
Same(st) ==
  \A c : Whole(c) /\ c.res.action = "continue" => EvalNested(st, c, FALSE) = EvalNested(st, c, TRUE)

\* Nor to a loop over such statements that looks, or has nothing to look at
LEMMA SameLoops ==
  ASSUME NEW content, Len(content) \in Nat,
         \A i \in 1..Len(content) : Careful(content[i]) /\ Same(content[i]),
         NEW breaks \in BOOLEAN,
         ~breaks => \A i \in 1..Len(content) : MayEnd[content[i]] => i = Len(content),
         NEW c, Whole(c), c.res.action = "continue"
  PROVE  After(content, c, breaks, FALSE)[Len(content)] = After(content, c, TRUE, TRUE)[Len(content)]
<1> DEFINE l == Len(content)
           A == After(content, c, breaks, FALSE)
           B == After(content, c, TRUE, TRUE)
           P == {n \in Nat : n \in 0..l => A[n] = B[n]}
<1>1. IsLoop(A, content, c, breaks, FALSE) /\ IsLoop(B, content, c, TRUE, TRUE)
  BY AfterIs, Zenon
<1>2. \A i \in 0..l : Kept(A[i], content, i, c)
  BY LoopKept, Zenon
<1> HIDE DEF A, B
<1>3. 0 \in P
  <2>1. A[0] = B[0]
    BY <1>1, Zenon DEF IsLoop
  <2>2. QED
    BY <2>1, Zenon
<1>4. ASSUME NEW n \in Nat, n \in P PROVE n + 1 \in P
  <2> SUFFICES ASSUME n + 1 \in 0..l PROVE A[n + 1] = B[n + 1]
    OBVIOUS
  <2>1. n + 1 \in 1..l /\ (n + 1) - 1 = n /\ n \in 0..l
    OBVIOUS
  <2>2. A[n] = B[n]
    BY <1>4, <2>1, Zenon
  <2>3. /\ A[n + 1] = Turn(A[n], content[n + 1], breaks, FALSE)
        /\ B[n + 1] = Turn(A[n], content[n + 1], TRUE, TRUE)
    <3>1. /\ A[n + 1] = Turn(A[n], content[n + 1], breaks, FALSE)
          /\ B[n + 1] = Turn(B[n], content[n + 1], TRUE, TRUE)
      BY <1>1, <2>1, Zenon DEF IsLoop
    <3>2. QED
      BY <2>2, <3>1, Zenon
  <2>4. Whole(A[n].ctx) /\ (~breaks => A[n].ctx.res.action = "continue")
    <3>1. Kept(A[n], content, n, c)
      BY <1>2, <2>1, Zenon
    <3>2. ASSUME ~breaks PROVE \A j \in 1..n : ~MayEnd[content[j]]
      <4>1. \A j \in 1..n : j \in 1..l /\ j # l
        BY <2>1
      <4>2. QED
        BY <3>2, <4>1, Zenon
    <3>3. QED
      BY <3>1, <3>2, Zenon DEF Kept
  <2>5. Same(content[n + 1])
    BY <2>1, Zenon
  <2>6. CASE A[n].ctx.res.action = "continue"
    <3>1. EvalNested(content[n + 1], A[n].ctx, FALSE) = EvalNested(content[n + 1], A[n].ctx, TRUE)
      BY <2>4, <2>5, <2>6, Zenon DEF Same
    <3>2. QED
      BY <2>3, <2>6, <3>1, Zenon DEF Turn
  <2>7. CASE A[n].ctx.res.action # "continue"
    <3>1. breaks
      BY <2>4, <2>7, Zenon
    <3>2. QED
      BY <2>3, <2>7, <3>1, Zenon DEF Turn
  <2>8. QED
    BY <2>6, <2>7, Zenon
<1>5. Nat \subseteq P
  <2> HIDE DEF P
  <2> QED BY <1>3, <1>4, Everywhere, Zenon
<1>6. l \in Nat /\ l \in 0..l
  OBVIOUS
<1>7. A[l] = B[l]
  BY <1>5, <1>6, Zenon
<1>8. QED
  BY <1>7, Zenon DEF A, B

\* A statement whose sub-filters have their terminal actions last
LEMMA AllSame ==
  ASSUME NEW depth, Nests(depth), Recurs
  PROVE  \A st \in Statements : EndsLast[st] => Same(st)
<1> DEFINE Q == {st \in Statements : EndsLast[st] => Same(st)}
<1>0. \A st \in Statements : Careful(st)
  BY AllCareful, Zenon
<1>1. ASSUME NEW st \in Statements,
             st.kind = "filter" => \A i \in 1..Len(st.content) : st.content[i] \in Q,
             EndsLast[st], NEW c, Whole(c), c.res.action = "continue"
      PROVE  EvalStatement(st, c, FALSE) = EvalStatement(st, c, TRUE)
  <2>1. CASE st.kind = "filter"
    <3> DEFINE l == Len(st.content)
    <3>1. l \in Nat /\ DOMAIN st.content = 1..l /\ \A i \in 1..l : st.content[i] \in Statements
      BY <2>1, ContentIs, Zenon
    <3>2. \A i \in DOMAIN st.content : EndsLast[st.content[i]] /\ (MayEnd[st.content[i]] => i = Len(st.content))
      BY <1>1, <2>1, EndsLastIs, Zenon
    <3>3. /\ \A i \in 1..l : Careful(st.content[i]) /\ Same(st.content[i])
          /\ \A i \in 1..l : MayEnd[st.content[i]] => i = l
      BY <1>0, <1>1, <2>1, <3>1, <3>2, Zenon
    <3>4. After(st.content, c, FALSE, FALSE)[l] = After(st.content, c, TRUE, TRUE)[l]
      BY <1>1, <3>1, <3>3, SameLoops, Zenon
    <3>5. EvalFilter(st, c, FALSE) = EvalFilter(st, c, TRUE)
      BY <3>4, Zenon DEF EvalFilter, EvalContent
    <3>6. QED
      BY <2>1, <3>5, ByKind, Zenon
  <2>2. CASE st.kind # "filter"
    BY <2>2, ByKind, Zenon
  <2>3. QED
    BY <2>1, <2>2, Zenon
<1>2. Statements \subseteq Q
  <2>1. \A st \in Statements :
          (st.kind = "filter" => \A i \in 1..Len(st.content) : st.content[i] \in Q) => st \in Q
    <3> SUFFICES ASSUME NEW st \in Statements,
                        st.kind = "filter" => \A i \in 1..Len(st.content) : st.content[i] \in Q,
                        EndsLast[st], NEW c, Whole(c), c.res.action = "continue"
                 PROVE  EvalNested(st, c, FALSE) = EvalNested(st, c, TRUE)
      BY Zenon DEF Same
    <3>1. EvalStatement(st, c, FALSE) = EvalStatement(st, c, TRUE)
      BY <1>1, Zenon
    <3>2. QED
      BY <3>1, Zenon DEF Recurs
  <2> HIDE DEF Q
  <2>2. QED
    BY <2>1, Nesting, Zenon
<1>3. QED
  BY <1>2, Zenon

\* A file whose sub-filters have their terminal actions last answers as if these
\* looked at the result between their statements, as filter/README.md has it:
\* for any scripts of nested statements, TerminalStops.
THEOREM TerminalActionsStop ==
  ASSUME NEW depth, Nests(depth), Recurs
  PROVE  FilterInput => TerminalStops
<1> SUFFICES ASSUME FilterInput PROVE TerminalStops
  OBVIOUS
<1> SUFFICES ASSUME "script" \in DOMAIN input, \A i \in DOMAIN input.script : EndsLast[input.script[i]],
                    NEW c \in Mails
             PROVE  EvalTree(input.script, c, FALSE) = EvalTree(input.script, c, TRUE)
  BY Zenon DEF TerminalStops
<1> DEFINE script == input.script
           l == Len(script)
<1>1. script \in Seq(Statements)
  <2>1. script \in Scripts
    BY DEF FilterInput
  <2>2. QED
    BY <2>1, StatementsAssumption, Zenon
<1>2. l \in Nat /\ DOMAIN script = 1..l /\ \A i \in 1..l : script[i] \in Statements
  <2> HIDE DEF script
  <2> QED BY <1>1
<1>3. Whole(c) /\ c.res.action = "continue"
  <2>1. IsResult(NoResult) /\ NoResult.action = "continue"
    BY DEF IsResult, NoResult, Result
  <2>2. QED
    BY <2>1, MailIs, Zenon DEF Whole
<1>4. \A i \in 1..l : Careful(script[i]) /\ Same(script[i])
  BY <1>2, AllCareful, AllSame, Zenon
<1>5. After(script, c, TRUE, FALSE)[l] = After(script, c, TRUE, TRUE)[l]
  <2> HIDE DEF script
  <2> QED BY <1>2, <1>3, <1>4, SameLoops, Zenon
<1>6. QED
  BY <1>5, Zenon DEF EvalTree
=============================================================================
