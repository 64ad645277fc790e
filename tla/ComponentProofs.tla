-------------------------- MODULE ComponentProofs --------------------------
(***************************************************************************)
(* Proofs about three components that stand alone, the rate limiter,       *)
(* SEARCH and the lexer of filters.                                        *)
(*                                                                         *)
(* RateLimiter, for any number of goroutines, listeners and structures.    *)
(* SecondOffence holds whenever handlers run.  NoPanic, PenaltyLasts and   *)
(* PromptRemembered are about prompt handlers: one goroutine or listener   *)
(* runs at a time and works on the structure in the map, so the only timer *)
(* on an open channel is the one of the last offence.                      *)
(*                                                                         *)
(* Search, for any criteria nested to any depth and any emails: the query  *)
(* that parseCriteria builds selects the emails that the criteria ask for. *)
(* The functions of Search are recursive along the depth of the criteria,  *)
(* so they are first shown to satisfy their definitions, with a general    *)
(* lemma about recursion along a rank.                                     *)
(*                                                                         *)
(* FilterLexer, for any text: the lexems have what is written in it.  Its  *)
(* functions are recursive along the length of the text.                   *)
(***************************************************************************)
EXTENDS RateLimiter, Search, FilterLexer, WellFoundedInduction, SequenceTheorems, TLAPS

\* NewRateLimiter knows nothing of the address.
LEMMA TypeInit == Init => TypeOK
  BY LimiterAssumption DEF Init, TypeOK, Running, Waiting

\* Every step of a session, a listener or increase keeps the types.
LEMMA TypeStep == TypeOK /\ [Next]_vars => TypeOK'
  <1> SUFFICES ASSUME TypeOK, [Next]_vars PROVE TypeOK'
    OBVIOUS
  <1> USE LimiterAssumption
  <1>1. ASSUME NEW t \in Tasks, Limit(t) PROVE TypeOK'
    <2>1. PICK o \in Objs : /\ entry' = o /\ made' = made \cup {o}
                            /\ limited' = [limited EXCEPT ![o] = (entry # None)]
                            /\ Go(t, o)
      BY <1>1, Zenon DEF Limit, TypeOK
    <2>2. /\ obj' \in [Tasks -> made' \cup {None}]
          /\ \A u \in Tasks : pc'[u] \in Running \cup Waiting => obj'[u] # None
      BY <2>1 DEF Go, TypeOK, Running, Waiting
    <2>3. pc' \in [Tasks -> Running \cup Waiting \cup {"new", "done"}]
      BY <2>1 DEF Go, TypeOK, Running
    <2>4. limited' \in [Objs -> BOOLEAN]
      BY <2>1 DEF TypeOK
    <2>5. /\ entry' \in made' \cup {None} /\ made' \subseteq Objs
          /\ seen' \in [Listeners -> made' \cup {None}]
          /\ UNCHANGED <<cancel, closed, chan>> /\ fails' \in Nat
      BY <1>1, <2>1 DEF Limit, Go, TypeOK
    <2> QED  BY <2>2, <2>3, <2>4, <2>5 DEF TypeOK
  <1>2. CASE Accept
    BY <1>2 DEF Accept, TypeOK, taskVars
  <1>3. ASSUME NEW l \in Listeners, IsLimited(l) PROVE TypeOK'
    BY <1>3 DEF IsLimited, TypeOK, objVars, taskVars, histVars
  <1>4. ASSUME NEW l \in Listeners, NEW t \in Tasks, Drop(l, t) PROVE TypeOK'
    <2>1. seen[l] \in made
      BY <1>4 DEF Drop, TypeOK
    <2>2. /\ obj' \in [Tasks -> made \cup {None}]
          /\ \A u \in Tasks : pc'[u] \in Running \cup Waiting => obj'[u] # None
      BY <1>4, <2>1 DEF Drop, Go, TypeOK, Running, Waiting
    <2>3. pc' \in [Tasks -> Running \cup Waiting \cup {"new", "done"}]
      BY <1>4 DEF Drop, Go, TypeOK, Running
    <2>4. limited' \in [Objs -> BOOLEAN] /\ seen' \in [Listeners -> made \cup {None}]
      BY <1>4, <2>1 DEF Drop, TypeOK
    <2> QED  BY <1>4, <2>2, <2>3, <2>4 DEF Drop, Go, TypeOK
  <1>5. ASSUME NEW t \in Tasks, Close(t) PROVE TypeOK'
    BY <1>5, Zenon DEF Close, Step, TypeOK, Running, Waiting
  <1>6. ASSUME NEW t \in Tasks, Make(t) PROVE TypeOK'
    BY <1>6 DEF Make, Step, TypeOK, Running, Waiting, histVars
  <1>7. ASSUME NEW t \in Tasks, NEW w, NEW from \in Running, NEW to \in Waiting,
               Select(t, w, from, to)
        PROVE  TypeOK'
    <2>1. obj[t] \in Objs
      BY <1>7 DEF Select, Step, TypeOK
    <2>2. chan' \in [Tasks -> Tasks \cup {None}]
      BY <1>7, <2>1 DEF Select, TypeOK
    <2>3. pc' \in [Tasks -> Running \cup Waiting \cup {"new", "done"}]
      BY <1>7 DEF Select, Step, TypeOK
    <2>4. \A u \in Tasks : pc'[u] \in Running \cup Waiting => obj'[u] # None
      BY <1>7 DEF Select, Step, TypeOK
    <2> QED  BY <1>7, <2>2, <2>3, <2>4 DEF Select, TypeOK, objVars, histVars
  <1>8. ASSUME NEW t \in Tasks, Cancelled(t) \/ Delete(t) PROVE TypeOK'
    <2>1. /\ pc' = [pc EXCEPT ![t] = "done"] /\ obj' = [obj EXCEPT ![t] = None]
          /\ chan' = [chan EXCEPT ![t] = None]
          /\ UNCHANGED <<objVars, seen>> /\ entry' \in {entry, None} /\ fails' \in {fails, 0}
      BY <1>8 DEF Cancelled, Delete, End, Step, histVars
    <2>2. \A u \in Tasks : pc'[u] \in Running \cup Waiting => obj'[u] # None
      BY <2>1 DEF TypeOK, Running, Waiting
    <2> QED  BY <2>1, <2>2 DEF TypeOK, objVars
  <1>9. ASSUME NEW t \in Tasks, Expire(t) PROVE TypeOK'
    BY <1>9 DEF Expire, Step, TypeOK, Running, Waiting, histVars
  <1>10. ASSUME NEW t \in Tasks, Elapse(t) PROVE TypeOK'
    BY <1>10 DEF Elapse, Step, TypeOK, Running, Waiting, objVars, histVars
  <1>11. CASE Tick
    BY <1>11 DEF Tick, TypeOK, objVars, taskVars, histVars
  <1>12. CASE UNCHANGED vars
    BY <1>12 DEF vars, TypeOK, objVars, taskVars, histVars
  <1>13. ASSUME NEW t \in Tasks, Increase(t) PROVE TypeOK'
    BY <1>13, <1>5, <1>6, <1>7, <1>8, <1>9, <1>10 DEF Increase, Running, Waiting
  <1> QED  BY <1>1, <1>2, <1>3, <1>4, <1>11, <1>12, <1>13 DEF Next

\* Every reachable state of the limiter is well typed.
THEOREM LimiterTypes == Spec => []TypeOK
  BY TypeInit, TypeStep, PTL DEF Spec

-----------------------------------------------------------------------------
\* SecondOffence made inductive.  A listener may set limited of the structure
\* it has seen, late; if that one is still in the map, the address has failed
\* twice, and once it is not it never is again.
OffenceInv ==
  entry # None =>
    /\ fails >= 1
    /\ limited[entry] => fails >= 2
    /\ \A l \in Listeners : seen[l] = entry => fails >= 2

\* Every step keeps it: only Limit puts a structure in the map, a fresh one.
LEMMA OffenceStep == TypeOK /\ OffenceInv /\ [Next]_vars => OffenceInv'
  <1> SUFFICES ASSUME TypeOK, OffenceInv, [Next]_vars PROVE OffenceInv'
    OBVIOUS
  <1>1. ASSUME NEW t \in Tasks, Limit(t) PROVE OffenceInv'
    <2>1. PICK o \in (IF entry = None THEN Objs \ made ELSE {entry}) :
            /\ entry' = o
            /\ limited' = [limited EXCEPT ![o] = (entry # None)]
      BY <1>1, Zenon DEF Limit
    <2>2. fails' = fails + 1 /\ seen' = seen /\ fails \in Nat
      BY <1>1 DEF Limit, TypeOK
    <2>3. CASE entry = None
      <3>1. o \in Objs \ made /\ limited'[o] = FALSE
        BY <2>1, <2>3, Zenon DEF TypeOK
      <3>2. \A l \in Listeners : seen'[l] # o
        BY <2>2, <3>1, LimiterAssumption DEF TypeOK
      <3> QED  BY <2>1, <2>2, <3>1, <3>2 DEF OffenceInv
    <2>4. CASE entry # None
      BY <2>1, <2>2, <2>4 DEF OffenceInv
    <2> QED  BY <2>3, <2>4
  <1>2. CASE Accept
    BY <1>2 DEF Accept, OffenceInv
  <1>3. ASSUME NEW l \in Listeners, IsLimited(l) PROVE OffenceInv'
    BY <1>3 DEF IsLimited, OffenceInv, TypeOK, objVars, histVars
  <1>4. ASSUME NEW l \in Listeners, NEW t \in Tasks, Drop(l, t) PROVE OffenceInv'
    BY <1>4 DEF Drop, OffenceInv, TypeOK
  <1>5. ASSUME NEW t \in Tasks, Increase(t) PROVE OffenceInv'
    <2>1. CASE Delete(t)
      BY <2>1 DEF Delete, OffenceInv
    <2>2. CASE Expire(t)
      BY <2>2 DEF Expire, OffenceInv, TypeOK, histVars
    <2>3. CASE ~ Delete(t) /\ ~ Expire(t)
      <3>1. UNCHANGED <<entry, limited, fails, seen>>
        BY <1>5, <2>3 DEF Increase, Close, Make, Select, Cancelled, Elapse, objVars, histVars
      <3> QED  BY <3>1 DEF OffenceInv
    <2> QED  BY <2>1, <2>2, <2>3
  <1>6. CASE Tick
    BY <1>6 DEF Tick, OffenceInv, objVars, histVars
  <1>7. CASE UNCHANGED vars
    BY <1>7 DEF vars, OffenceInv, objVars, histVars
  <1> QED  BY <1>1, <1>2, <1>3, <1>4, <1>5, <1>6, <1>7 DEF Next

\* Connections of an address are dropped only after two failed logins since it
\* was last forgotten, however sessions, listeners and goroutines interleave.
THEOREM NeedsTwoOffences == Spec => []SecondOffence
  <1>1. Init => OffenceInv
    BY DEF Init, OffenceInv
  <1>2. OffenceInv => SecondOffence
    BY DEF OffenceInv, SecondOffence
  <1> QED  BY <1>1, <1>2, OffenceStep, LimiterTypes, PTL DEF Spec

-----------------------------------------------------------------------------
\* Prompt handlers.  A goroutine is busy until it waits or is done.
Busy(t) == pc[t] \in Running

\* Clocks.  The last offence is past, and so is the deadline of a goroutine that
\* is about to delete the entry.
ClockInv ==
  /\ now \in Nat /\ last \in Nat /\ last <= now
  /\ due \in [Tasks -> Nat]
  /\ \A t \in Tasks : pc[t] = "delete" => due[t] <= now

\* One at a time runs, a goroutine or a listener, and for the structure that
\* is in the map.
OneRuns ==
  /\ \A t \in Tasks : Busy(t) =>
       /\ entry # None /\ obj[t] = entry
       /\ \A u \in Tasks : Busy(u) => u = t
       /\ \A l \in Listeners : seen[l] = None
  /\ \A l \in Listeners : seen[l] # None =>
       /\ seen[l] = entry
       /\ \A k \in Listeners : seen[k] # None => k = l

\* A goroutine waits on its own channel; unless this is closed, it is the last
\* one of the structure in the map.
OwnChannel ==
  \A t \in Tasks : pc[t] \in Waiting =>
    /\ chan[t] = t
    /\ t \notin closed => entry # None /\ obj[t] = entry /\ cancel[entry] = t

\* A channel is in no structure and not closed before it is made.
NotYetMade ==
  /\ \A t \in Tasks : pc[t] \in {"new", "close", "make"} =>
       t \notin closed /\ \A o \in Objs : cancel[o] # t
  /\ \A o \in Objs \ made : cancel[o] = None

\* The channel of the structure in the map, by what is being done to it.
ChannelState ==
  /\ \A t \in Tasks :
       /\ pc[t] = "close" => cancel[entry] \notin closed
       /\ pc[t] = "make" => cancel[entry] \in closed \cup {None}
       /\ pc[t] \in {"select", "reselect", "delete"} => cancel[entry] = t /\ t \notin closed
  /\ entry # None /\ (\A t \in Tasks : ~ Busy(t)) => cancel[entry] \in Tasks \ closed

\* The timer that counts runs from the last offence, or from later.
TimerCounts ==
  (\A t \in Tasks : pc[t] # "close") =>
    \A t \in Tasks \ closed :
      /\ pc[t] = "wait" => due[t] >= last + Soon
      /\ pc[t] \in {"keep", "delete"} => due[t] >= last + Later

PromptCore == ~ panicked /\ OneRuns /\ OwnChannel /\ NotYetMade /\ ChannelState /\ TimerCounts

PromptInv == prompt => PromptCore

\* A step leaves the clocks in order.
LEMMA ClockStep == TypeOK /\ ClockInv /\ [Next]_vars => ClockInv'
<1> SUFFICES ASSUME TypeOK, ClockInv, [Next]_vars
             PROVE  ClockInv'
  OBVIOUS
<1> USE LimiterAssumption DEF ClockInv, TypeOK
<1>1. ASSUME NEW t \in Tasks, Limit(t)
      PROVE  ClockInv'
  BY <1>1 DEF Limit, Go
<1>2. ASSUME NEW l \in Listeners, NEW t \in Tasks, Drop(l, t)
      PROVE  ClockInv'
  BY <1>2 DEF Drop, Go
<1>3. ASSUME NEW t \in Tasks, NEW w \in Nat, NEW from, NEW to \in Waiting,
             Select(t, w, from, to)
      PROVE  ClockInv'
  BY <1>3 DEF Select, Step, histVars, Waiting
<1>4. ASSUME NEW t \in Tasks, Close(t) \/ Make(t) \/ Expire(t) \/ Elapse(t)
      PROVE  ClockInv'
  BY <1>4 DEF Close, Make, Expire, Elapse, Step, histVars
<1>5. ASSUME NEW t \in Tasks, Cancelled(t) \/ Delete(t)
      PROVE  ClockInv'
  BY <1>5 DEF Cancelled, Delete, End, Step, histVars
<1>6. CASE Tick
  BY <1>6 DEF Tick, taskVars, histVars
<1>7. CASE Accept \/ UNCHANGED vars \/ \E l \in Listeners : IsLimited(l)
  BY <1>7 DEF Accept, IsLimited, vars, taskVars, histVars
<1>8. ASSUME NEW t \in Tasks, Increase(t)
      PROVE  ClockInv'
  BY <1>3, <1>4, <1>5, <1>8 DEF Increase, Waiting
<1>9. QED
  BY <1>1, <1>2, <1>6, <1>7, <1>8 DEF Next

\* A failed login, in the prompt regime: the structure is new, or its channel is
\* open since nobody runs.
LEMMA PromptLimit ==
  ASSUME TypeOK, ClockInv, PromptCore, prompt, NEW t \in Tasks, Limit(t)
  PROVE  PromptCore'
<1> USE LimiterAssumption DEF PromptCore, OneRuns, OwnChannel, NotYetMade,
                              ChannelState, TimerCounts, Busy, Running, Waiting
<1>1. ~ panicked'
  BY DEF Limit, Go, MayBegin, Quiet, TypeOK, ClockInv
<1>2. OneRuns'
  BY DEF Limit, Go, MayBegin, Quiet, TypeOK, ClockInv
<1>3. OwnChannel'
  BY DEF Limit, Go, MayBegin, Quiet, TypeOK, ClockInv
<1>4. NotYetMade'
  BY DEF Limit, Go, MayBegin, Quiet, TypeOK, ClockInv
<1>5. ChannelState'
  BY DEF Limit, Go, MayBegin, Quiet, TypeOK, ClockInv
<1>6. TimerCounts'
  BY DEF Limit, Go, MayBegin, Quiet, TypeOK, ClockInv
<1>7. QED
  BY <1>1, <1>2, <1>3, <1>4, <1>5, <1>6

\* A successful login closes an open channel: the goroutine that waits on it is
\* the last one of the structure it forgets.
LEMMA PromptAccept ==
  ASSUME TypeOK, ClockInv, PromptCore, prompt, Accept
  PROVE  PromptCore'
<1> USE LimiterAssumption DEF PromptCore, OneRuns, OwnChannel, NotYetMade,
                              ChannelState, TimerCounts, Busy, Running, Waiting
<1>1. ~ panicked'
  BY DEF Accept, MayBegin, Quiet, taskVars, TypeOK, ClockInv
<1>2. OneRuns'
  BY DEF Accept, MayBegin, Quiet, taskVars, TypeOK, ClockInv
<1>3. OwnChannel'
  BY DEF Accept, MayBegin, Quiet, taskVars, TypeOK, ClockInv
<1>4. NotYetMade'
  BY DEF Accept, MayBegin, Quiet, taskVars, TypeOK, ClockInv
<1>5. ChannelState'
  BY DEF Accept, MayBegin, Quiet, taskVars, TypeOK, ClockInv
<1>6. TimerCounts'
  BY DEF Accept, MayBegin, Quiet, taskVars, TypeOK, ClockInv
<1>7. QED
  BY <1>1, <1>2, <1>3, <1>4, <1>5, <1>6

\* A listener finds the address while nobody runs.
LEMMA PromptIsLimited ==
  ASSUME TypeOK, ClockInv, PromptCore, prompt, NEW l \in Listeners, IsLimited(l)
  PROVE  PromptCore'
<1> USE LimiterAssumption DEF PromptCore, OneRuns, OwnChannel, NotYetMade,
                              ChannelState, TimerCounts, Busy, Running, Waiting
<1>1. ~ panicked'
  BY DEF IsLimited, MayBegin, Quiet, objVars, taskVars, histVars, TypeOK, ClockInv
<1>2. OneRuns'
  BY DEF IsLimited, MayBegin, Quiet, objVars, taskVars, histVars, TypeOK, ClockInv
<1>3. OwnChannel'
  BY DEF IsLimited, MayBegin, Quiet, objVars, taskVars, histVars, TypeOK, ClockInv
<1>4. NotYetMade'
  BY DEF IsLimited, MayBegin, Quiet, objVars, taskVars, histVars, TypeOK, ClockInv
<1>5. ChannelState'
  BY DEF IsLimited, MayBegin, Quiet, objVars, taskVars, histVars, TypeOK, ClockInv
<1>6. TimerCounts'
  BY DEF IsLimited, MayBegin, Quiet, objVars, taskVars, histVars, TypeOK, ClockInv
<1>7. QED
  BY <1>1, <1>2, <1>3, <1>4, <1>5, <1>6

\* The structure a listener has seen is still the one of the map.
LEMMA PromptDrop ==
  ASSUME TypeOK, ClockInv, PromptCore, prompt, NEW l \in Listeners, NEW t \in Tasks, Drop(l, t)
  PROVE  PromptCore'
<1> USE LimiterAssumption DEF PromptCore, OneRuns, OwnChannel, NotYetMade,
                              ChannelState, TimerCounts, Busy, Running, Waiting
<1>1. ~ panicked'
  BY DEF Drop, Go, TypeOK, ClockInv
<1>2. OneRuns'
  BY DEF Drop, Go, TypeOK, ClockInv
<1>3. OwnChannel'
  BY DEF Drop, Go, TypeOK, ClockInv
<1>4. NotYetMade'
  BY DEF Drop, Go, TypeOK, ClockInv
<1>5. ChannelState'
  BY DEF Drop, Go, TypeOK, ClockInv
<1>6. TimerCounts'
  BY DEF Drop, Go, TypeOK, ClockInv
<1>7. QED
  BY <1>1, <1>2, <1>3, <1>4, <1>5, <1>6

\* The channel of the offence before is closed once, and then every goroutine
\* that waits has been told.
LEMMA PromptClose ==
  ASSUME TypeOK, PromptCore, NEW t \in Tasks, Close(t)
  PROVE  PromptCore'
<1> USE LimiterAssumption DEF PromptCore, Busy, Running, Waiting
<1>1. /\ entry # None /\ obj[t] = entry /\ entry \in Objs
      /\ pc[t] = "close" /\ cancel[entry] \notin closed
      /\ cancel[entry] = None \/ cancel[entry] \in Tasks
  BY DEF Close, Step, TypeOK, OneRuns, ChannelState
<1>2. /\ closed' = closed \cup ({cancel[entry]} \ {None})
      /\ pc' = [pc EXCEPT ![t] = "make"]
      /\ UNCHANGED <<panicked, entry, cancel, obj, chan, seen, made, due, last>>
  BY <1>1, Zenon DEF Close, Step, TypeOK
<1>3. \A u \in Tasks : u # t => pc'[u] = pc[u] /\ ~ Busy(u)
  BY <1>1, <1>2 DEF OneRuns, TypeOK
<1>4. pc'[t] = "make"
  BY <1>2 DEF TypeOK
<1>5. OneRuns'
  BY <1>1, <1>2, <1>3, <1>4 DEF OneRuns
<1>6. OwnChannel' /\ \A u \in Tasks : pc'[u] \in Waiting => u \in closed'
  BY <1>1, <1>2, <1>3, <1>4 DEF OwnChannel
<1>7. NotYetMade'
  BY <1>1, <1>2, <1>3, <1>4 DEF NotYetMade, TypeOK
<1>8. ChannelState'
  BY <1>1, <1>2, <1>3, <1>4 DEF ChannelState
<1>9. TimerCounts'
  BY <1>3, <1>4, <1>6 DEF TimerCounts
<1>10. QED
  BY <1>2, <1>5, <1>6, <1>7, <1>8, <1>9

\* The new channel is the one of the goroutine, and it is open.
LEMMA PromptMake ==
  ASSUME TypeOK, ClockInv, PromptCore, prompt, NEW t \in Tasks, Make(t)
  PROVE  PromptCore'
<1> USE LimiterAssumption DEF PromptCore, OneRuns, OwnChannel, NotYetMade,
                              ChannelState, TimerCounts, Busy, Running, Waiting
<1>1. ~ panicked'
  BY DEF Make, Step, histVars, TypeOK, ClockInv
<1>2. OneRuns'
  BY DEF Make, Step, histVars, TypeOK, ClockInv
<1>3. OwnChannel'
  BY DEF Make, Step, histVars, TypeOK, ClockInv
<1>4. NotYetMade'
  BY DEF Make, Step, histVars, TypeOK, ClockInv
<1>5. ChannelState'
  BY DEF Make, Step, histVars, TypeOK, ClockInv
<1>6. TimerCounts'
  BY DEF Make, Step, histVars, TypeOK, ClockInv
<1>7. QED
  BY <1>1, <1>2, <1>3, <1>4, <1>5, <1>6

\* The goroutine waits on the channel it made; its timer runs from now.
LEMMA PromptWait ==
  ASSUME TypeOK, ClockInv, PromptCore, prompt, NEW t \in Tasks, Select(t, Soon, "select", "wait")
  PROVE  PromptCore'
<1> USE LimiterAssumption DEF PromptCore, OneRuns, OwnChannel, NotYetMade,
                              ChannelState, TimerCounts, Busy, Running, Waiting
<1>1. ~ panicked'
  BY DEF Select, Step, objVars, histVars, TypeOK, ClockInv
<1>2. OneRuns'
  BY DEF Select, Step, objVars, histVars, TypeOK, ClockInv
<1>3. OwnChannel'
  BY DEF Select, Step, objVars, histVars, TypeOK, ClockInv
<1>4. NotYetMade'
  BY DEF Select, Step, objVars, histVars, TypeOK, ClockInv
<1>5. ChannelState'
  BY DEF Select, Step, objVars, histVars, TypeOK, ClockInv
<1>6. TimerCounts'
  BY DEF Select, Step, objVars, histVars, TypeOK, ClockInv
<1>7. QED
  BY <1>1, <1>2, <1>3, <1>4, <1>5, <1>6

\* The second wait, likewise.
LEMMA PromptKeep ==
  ASSUME TypeOK, ClockInv, PromptCore, prompt, NEW t \in Tasks, Select(t, Later, "reselect", "keep")
  PROVE  PromptCore'
<1> USE LimiterAssumption DEF PromptCore, OneRuns, OwnChannel, NotYetMade,
                              ChannelState, TimerCounts, Busy, Running, Waiting
<1>1. ~ panicked'
  BY DEF Select, Step, objVars, histVars, TypeOK, ClockInv
<1>2. OneRuns'
  BY DEF Select, Step, objVars, histVars, TypeOK, ClockInv
<1>3. OwnChannel'
  BY DEF Select, Step, objVars, histVars, TypeOK, ClockInv
<1>4. NotYetMade'
  BY DEF Select, Step, objVars, histVars, TypeOK, ClockInv
<1>5. ChannelState'
  BY DEF Select, Step, objVars, histVars, TypeOK, ClockInv
<1>6. TimerCounts'
  BY DEF Select, Step, objVars, histVars, TypeOK, ClockInv
<1>7. QED
  BY <1>1, <1>2, <1>3, <1>4, <1>5, <1>6

\* A goroutine that was told leaves; no open channel is its own.
LEMMA PromptCancelled ==
  ASSUME TypeOK, ClockInv, PromptCore, prompt, NEW t \in Tasks, Cancelled(t)
  PROVE  PromptCore'
<1> USE LimiterAssumption DEF PromptCore, OneRuns, OwnChannel, NotYetMade,
                              ChannelState, TimerCounts, Busy, Running, Waiting
<1>1. ~ panicked'
  BY DEF Cancelled, End, Step, objVars, histVars, TypeOK, ClockInv
<1>2. OneRuns'
  BY DEF Cancelled, End, Step, objVars, histVars, TypeOK, ClockInv
<1>3. OwnChannel'
  BY DEF Cancelled, End, Step, objVars, histVars, TypeOK, ClockInv
<1>4. NotYetMade'
  BY DEF Cancelled, End, Step, objVars, histVars, TypeOK, ClockInv
<1>5. ChannelState'
  BY DEF Cancelled, End, Step, objVars, histVars, TypeOK, ClockInv
<1>6. TimerCounts'
  BY DEF Cancelled, End, Step, objVars, histVars, TypeOK, ClockInv
<1>7. QED
  BY <1>1, <1>2, <1>3, <1>4, <1>5, <1>6

\* Only the timer of the last offence fires.
LEMMA PromptExpire ==
  ASSUME TypeOK, ClockInv, PromptCore, prompt, NEW t \in Tasks, Expire(t)
  PROVE  PromptCore'
<1> USE LimiterAssumption DEF PromptCore, OneRuns, OwnChannel, NotYetMade,
                              ChannelState, TimerCounts, Busy, Running, Waiting
<1>1. ~ panicked'
  BY DEF Expire, Step, MayBegin, Quiet, histVars, TypeOK, ClockInv
<1>2. OneRuns'
  BY DEF Expire, Step, MayBegin, Quiet, histVars, TypeOK, ClockInv
<1>3. OwnChannel'
  BY DEF Expire, Step, MayBegin, Quiet, histVars, TypeOK, ClockInv
<1>4. NotYetMade'
  BY DEF Expire, Step, MayBegin, Quiet, histVars, TypeOK, ClockInv
<1>5. ChannelState'
  BY DEF Expire, Step, MayBegin, Quiet, histVars, TypeOK, ClockInv
<1>6. TimerCounts'
  BY DEF Expire, Step, MayBegin, Quiet, histVars, TypeOK, ClockInv
<1>7. QED
  BY <1>1, <1>2, <1>3, <1>4, <1>5, <1>6

\* Likewise the timer of the second wait.
LEMMA PromptElapse ==
  ASSUME TypeOK, ClockInv, PromptCore, prompt, NEW t \in Tasks, Elapse(t)
  PROVE  PromptCore'
<1> USE LimiterAssumption DEF PromptCore, OneRuns, OwnChannel, NotYetMade,
                              ChannelState, TimerCounts, Busy, Running, Waiting
<1>1. ~ panicked'
  BY DEF Elapse, Step, MayBegin, Quiet, objVars, histVars, TypeOK, ClockInv
<1>2. OneRuns'
  BY DEF Elapse, Step, MayBegin, Quiet, objVars, histVars, TypeOK, ClockInv
<1>3. OwnChannel'
  BY DEF Elapse, Step, MayBegin, Quiet, objVars, histVars, TypeOK, ClockInv
<1>4. NotYetMade'
  BY DEF Elapse, Step, MayBegin, Quiet, objVars, histVars, TypeOK, ClockInv
<1>5. ChannelState'
  BY DEF Elapse, Step, MayBegin, Quiet, objVars, histVars, TypeOK, ClockInv
<1>6. TimerCounts'
  BY DEF Elapse, Step, MayBegin, Quiet, objVars, histVars, TypeOK, ClockInv
<1>7. QED
  BY <1>1, <1>2, <1>3, <1>4, <1>5, <1>6

\* The entry goes, and no goroutine is left that waits on an open channel.
LEMMA PromptDelete ==
  ASSUME TypeOK, ClockInv, PromptCore, prompt, NEW t \in Tasks, Delete(t)
  PROVE  PromptCore'
<1> USE LimiterAssumption DEF PromptCore, OneRuns, OwnChannel, NotYetMade,
                              ChannelState, TimerCounts, Busy, Running, Waiting
<1>1. ~ panicked'
  BY DEF Delete, End, Step, objVars, TypeOK, ClockInv
<1>2. OneRuns'
  BY DEF Delete, End, Step, objVars, TypeOK, ClockInv
<1>3. OwnChannel'
  BY DEF Delete, End, Step, objVars, TypeOK, ClockInv
<1>4. NotYetMade'
  BY DEF Delete, End, Step, objVars, TypeOK, ClockInv
<1>5. ChannelState'
  BY DEF Delete, End, Step, objVars, TypeOK, ClockInv
<1>6. TimerCounts'
  BY DEF Delete, End, Step, objVars, TypeOK, ClockInv
<1>7. QED
  BY <1>1, <1>2, <1>3, <1>4, <1>5, <1>6

\* Every step of the prompt regime keeps PromptCore, and the regime stays.
LEMMA PromptStep == TypeOK /\ ClockInv /\ PromptInv /\ [Next]_vars => PromptInv'
<1> SUFFICES ASSUME TypeOK, ClockInv, PromptInv, [Next]_vars, prompt'
             PROVE  PromptCore'
  BY DEF PromptInv
<1>1. prompt
  BY Zenon DEF Next, Limit, IsLimited, Drop, Accept, Tick, Increase, Close, Make, Select,
               Cancelled, Expire, Elapse, Delete, vars
<1>2. PromptCore
  BY <1>1 DEF PromptInv
<1>3. ASSUME NEW t \in Tasks, Increase(t)
      PROVE  PromptCore'
  BY <1>1, <1>2, <1>3, PromptClose, PromptMake, PromptWait, PromptKeep, PromptCancelled,
     PromptExpire, PromptElapse, PromptDelete DEF Increase
<1>4. CASE Tick \/ UNCHANGED vars
  <2>1. UNCHANGED <<entry, cancel, made, closed, pc, obj, chan, due, seen, panicked, last>>
    BY <1>4, Zenon DEF Tick, vars, objVars, taskVars, histVars
  <2>2. QED
    BY <1>2, <2>1 DEF PromptCore, OneRuns, OwnChannel, NotYetMade, ChannelState,
       TimerCounts, Busy
<1>5. QED
  BY <1>1, <1>2, <1>3, <1>4, PromptLimit, PromptAccept, PromptIsLimited, PromptDrop DEF Next

\* The clocks and the prompt regime, from the start.
LEMMA PromptInvariant == Spec => [](TypeOK /\ ClockInv /\ PromptInv)
<1>1. Init => ClockInv /\ PromptInv
  BY LimiterAssumption DEF Init, ClockInv, PromptInv, PromptCore, OneRuns, OwnChannel,
     NotYetMade, ChannelState, TimerCounts, Busy, Running, Waiting
<1>2. QED
  BY <1>1, TypeInit, TypeStep, ClockStep, PromptStep, PTL DEF Spec

\* With prompt handlers no session and no goroutine closes a channel that is nil
\* or closed.
THEOREM PromptNeverPanics == Spec => []NoPanic
<1>1. PromptInv => NoPanic
  BY DEF PromptInv, PromptCore, NoPanic
<1>2. QED
  BY <1>1, PromptInvariant, PTL

\* With prompt handlers a penalty ends only when the address has been quiet for
\* 5 minutes: Expire finds the channel of its goroutine open, so it is the last.
THEOREM PenaltiesLast == Spec => PenaltyLasts
<1> DEFINE Quietly == \A t \in Tasks : prompt /\ Expire(t) /\ obj[t] = entry => now >= last + Soon
<1>1. ASSUME TypeOK, ClockInv, PromptInv
      PROVE  Quietly
  <2> SUFFICES ASSUME NEW t \in Tasks, prompt, Expire(t)
               PROVE  now >= last + Soon
    OBVIOUS
  <2>1. PromptCore /\ Quiet /\ pc[t] = "wait" /\ due[t] <= now
    BY <1>1 DEF PromptInv, Expire, MayBegin, Step
  <2>2. t \notin closed /\ \A u \in Tasks : pc[u] # "close"
    BY <2>1 DEF Quiet, PromptCore, OwnChannel, Running, Waiting
  <2>3. due[t] >= last + Soon
    BY <2>1, <2>2 DEF PromptCore, TimerCounts
  <2>4. QED
    BY <1>1, <2>1, <2>3, LimiterAssumption DEF ClockInv
<1>2. QED
  BY <1>1, PromptInvariant, PTL DEF PenaltyLasts

\* With prompt handlers an address is forgotten an hour or more after its last
\* offence, unless a login succeeds.
THEOREM PromptlyRemembers == Spec => PromptRemembered
<1>1. ASSUME TypeOK, ClockInv, PromptInv
      PROVE  prompt => \A t \in Tasks : Remembers(t)
  <2> SUFFICES ASSUME NEW t \in Tasks, prompt, Delete(t)
               PROVE  now >= last + Later
    BY DEF Remembers
  <2>1. PromptCore /\ pc[t] = "delete" /\ due[t] <= now
    BY <1>1 DEF PromptInv, Delete, End, Step, ClockInv
  <2>2. t \notin closed /\ \A u \in Tasks : pc[u] # "close"
    BY <2>1 DEF PromptCore, OneRuns, ChannelState, Busy, Running
  <2>3. due[t] >= last + Later
    BY <2>1, <2>2 DEF PromptCore, TimerCounts
  <2>4. QED
    BY <1>1, <2>1, <2>3, LimiterAssumption DEF ClockInv
<1>2. QED
  BY <1>1, PromptInvariant, PTL DEF PromptRemembered

-----------------------------------------------------------------------------
(* SEARCH. *)

\* A set of natural numbers has a least element.
LEMMA Least ==
  ASSUME NEW T \in SUBSET Nat, T # {}
  PROVE  \E n \in T : \A k \in T : n <= k
<1>1. PICK n \in T : \A k \in T : ~(<<k, n>> \in OpToRel(<, Nat))
  BY NatLessThanWellFounded, WFMin, Zenon
<1>2. \A k \in T : ~(k < n)
  BY <1>1, Zenon DEF OpToRel
<1>3. QED
  BY <1>2

\* Induction over the natural numbers.
LEMMA Everywhere ==
  ASSUME NEW P, 0 \in P, \A n \in Nat : n \in P => n + 1 \in P
  PROVE  Nat \subseteq P
<1> SUFFICES ASSUME Nat \ P # {} PROVE FALSE
  OBVIOUS
<1>0. Nat \ P \in SUBSET Nat
  OBVIOUS
<1>1. PICK n \in Nat \ P : \A k \in Nat \ P : n <= k
  BY <1>0, Least, Zenon
<1>2. n # 0 /\ n - 1 \in Nat /\ n - 1 \in P
  BY <1>1
<1>3. QED
  BY <1>2

-----------------------------------------------------------------------------
(* Recursion along a rank.  step[x][g] is what the definition gives for x  *)
(* when g stands for the function that is defined.                         *)

\* What step gives for x depends on what is below x only.
Local(S, T, rank, step) ==
  \A x \in S : \A g, h \in [S -> T] :
    (\A y \in S : rank[y] < rank[x] => g[y] = h[y]) => step[x][g] = step[x][h]

\* The function g satisfies the definition below n.
Solves(g, n, S, rank, step) == \A x \in S : rank[x] < n => g[x] = step[x][g]

\* A definition that recursion along the rank makes sense of
Defines(S, T, rank, step) ==
  /\ T # {} /\ rank \in [S -> Nat] /\ step \in [S -> [[S -> T] -> T]]
  /\ Local(S, T, rank, step)

\* There is a function that satisfies it.
Defined(S, T, step) == \E f \in [S -> T] : \A x \in S : f[x] = step[x][f]

\* Two functions that satisfy a definition below n agree there.
LEMMA SolvedOnce ==
  ASSUME NEW S, NEW T, NEW rank \in [S -> Nat], NEW step, Local(S, T, rank, step)
  PROVE  \A g, h \in [S -> T], n \in Nat :
           Solves(g, n, S, rank, step) /\ Solves(h, n, S, rank, step) =>
             \A x \in S : rank[x] < n => g[x] = h[x]
<1> SUFFICES ASSUME NEW g \in [S -> T], NEW h \in [S -> T], NEW n \in Nat,
                    Solves(g, n, S, rank, step), Solves(h, n, S, rank, step)
             PROVE  \A x \in S : rank[x] < n => g[x] = h[x]
  OBVIOUS
<1> DEFINE Bad == {rank[x] : x \in {y \in S : rank[y] < n /\ g[y] # h[y]}}
<1> SUFFICES ASSUME NEW z \in S, rank[z] < n, g[z] # h[z] PROVE FALSE
  OBVIOUS
<1>0. Bad \in SUBSET Nat /\ rank[z] \in Bad
  OBVIOUS
<1>1. PICK k \in Bad : \A j \in Bad : k <= j
  <2> HIDE DEF Bad
  <2> QED BY <1>0, Least, Zenon
<1>2. PICK x \in S : rank[x] < n /\ g[x] # h[x] /\ k = rank[x]
  OBVIOUS
<1>3. \A y \in S : rank[y] < rank[x] => g[y] = h[y]
  <2> SUFFICES ASSUME NEW y \in S, rank[y] < rank[x], g[y] # h[y] PROVE FALSE
    OBVIOUS
  <2>1. rank[y] \in Nat /\ rank[x] \in Nat /\ rank[y] < n
    BY <1>2
  <2>2. rank[y] \in Bad
    BY <2>1
  <2> HIDE DEF Bad
  <2>3. QED
    BY <1>1, <1>2, <2>1, <2>2
<1>4. step[x][g] = step[x][h]
  BY <1>3, Zenon DEF Local
<1>5. QED
  BY <1>2, <1>4 DEF Solves

\* A definition by recursion along a rank is satisfied by some function.
LEMMA Recursion ==
  ASSUME NEW S, NEW T, NEW rank, NEW step, Defines(S, T, rank, step)
  PROVE  Defined(S, T, step)
<1> PICK t : t \in T
  BY Zenon DEF Defines
<1> rank \in [S -> Nat] /\ step \in [S -> [[S -> T] -> T]] /\ Local(S, T, rank, step)
  BY Zenon DEF Defines
<1>0. \A g, h \in [S -> T], n \in Nat :
        Solves(g, n, S, rank, step) /\ Solves(h, n, S, rank, step) =>
          \A x \in S : rank[x] < n => g[x] = h[x]
  BY SolvedOnce
<1> DEFINE P == {n \in Nat : \E g \in [S -> T] : Solves(g, n, S, rank, step)}
<1>1. 0 \in P
  <2>1. [x \in S |-> t] \in [S -> T] /\ Solves([x \in S |-> t], 0, S, rank, step)
    BY DEF Solves
  <2>2. QED
    BY <2>1
<1>2. \A n \in Nat : n \in P => n + 1 \in P
  <2> SUFFICES ASSUME NEW n \in Nat, n \in P PROVE n + 1 \in P
    OBVIOUS
  <2>1. PICK g \in [S -> T] : Solves(g, n, S, rank, step)
    OBVIOUS
  <2> DEFINE h == [x \in S |-> step[x][g]]
  <2>2. h \in [S -> T]
    OBVIOUS
  <2>3. ASSUME NEW x \in S, rank[x] < n + 1 PROVE h[x] = step[x][h]
    <3>1. \A y \in S : rank[y] < rank[x] => g[y] = h[y]
      BY <2>1, <2>3 DEF Solves
    <3>2. step[x][g] = step[x][h]
      <4> HIDE DEF h
      <4> QED BY <2>2, <3>1, Zenon DEF Local
    <3>3. QED
      BY <3>2
  <2>4. Solves(h, n + 1, S, rank, step)
    <3> HIDE DEF h
    <3> QED BY <2>3 DEF Solves
  <2>5. QED
    BY <2>2, <2>4
<1>3. Nat \subseteq P
  <2> HIDE DEF P
  <2> QED BY <1>1, <1>2, Everywhere, Zenon
<1> DEFINE level(n) == CHOOSE g \in [S -> T] : Solves(g, n, S, rank, step)
<1>4. ASSUME NEW n \in Nat PROVE level(n) \in [S -> T] /\ Solves(level(n), n, S, rank, step)
  <2>1. \E g \in [S -> T] : Solves(g, n, S, rank, step)
    BY <1>3
  <2>2. QED
    BY <2>1, Zenon
<1> HIDE DEF level
<1> DEFINE f == [x \in S |-> level(rank[x] + 1)[x]]
<1>5. f \in [S -> T]
  <2>1. ASSUME NEW x \in S PROVE level(rank[x] + 1)[x] \in T
    <3>1. rank[x] + 1 \in Nat
      OBVIOUS
    <3>2. level(rank[x] + 1) \in [S -> T]
      BY <1>4, <3>1
    <3>3. QED
      BY <3>2
  <2>2. QED
    BY <2>1
<1>6. ASSUME NEW x \in S PROVE f[x] = step[x][f]
  <2> DEFINE n == rank[x] + 1
  <2>1. n \in Nat /\ rank[x] < n
    OBVIOUS
  <2>2. level(n) \in [S -> T] /\ Solves(level(n), n, S, rank, step)
    BY <2>1, <1>4
  <2>3. ASSUME NEW y \in S, rank[y] < rank[x] PROVE level(n)[y] = f[y]
    <3> DEFINE m == rank[y] + 1
    <3>1. m \in Nat /\ rank[y] < m /\ m <= n
      BY <2>3
    <3>2. level(m) \in [S -> T] /\ Solves(level(m), m, S, rank, step)
      BY <3>1, <1>4
    <3>3. Solves(level(n), m, S, rank, step)
      <4> HIDE DEF m, n
      <4> QED BY <2>1, <2>2, <3>1 DEF Solves
    <3>4. level(n)[y] = level(m)[y]
      <4> HIDE DEF m, n
      <4> DEFINE a == level(n)
                 b == level(m)
      <4>1. /\ a \in [S -> T] /\ Solves(a, m, S, rank, step)
            /\ b \in [S -> T] /\ Solves(b, m, S, rank, step)
        BY <2>2, <3>2, <3>3
      <4> HIDE DEF a, b
      <4>2. \A z \in S : rank[z] < m => a[z] = b[z]
        BY <1>0, <3>1, <4>1, Zenon
      <4> QED BY <3>1, <4>2 DEF a, b
    <3>5. QED
      BY <3>4
  <2>4. step[x][level(n)] = step[x][f]
    <3> HIDE DEF n, f
    <3> DEFINE l == level(n)
    <3>1. l \in [S -> T] /\ \A y \in S : rank[y] < rank[x] => l[y] = f[y]
      BY <2>2, <2>3
    <3> HIDE DEF l
    <3>2. step[x][l] = step[x][f]
      BY <1>5, <3>1, Zenon DEF Local
    <3> QED BY <3>2 DEF l
  <2>5. level(n)[x] = step[x][level(n)]
    <3> HIDE DEF n
    <3> QED BY <2>1, <2>2 DEF Solves
  <2>6. QED
    BY <2>4, <2>5
<1>7. QED
  <2> HIDE DEF f
  <2> QED BY <1>5, <1>6, Zenon DEF Defined

\* Induction along a rank.
LEMMA Along ==
  ASSUME NEW S, NEW rank \in [S -> Nat], NEW P,
         \A x \in S : (\A y \in S : rank[y] < rank[x] => y \in P) => x \in P
  PROVE  S \subseteq P
<1> SUFFICES ASSUME NEW z \in S, z \notin P PROVE FALSE
  OBVIOUS
<1> DEFINE Bad == {rank[x] : x \in S \ P}
<1>1. Bad \in SUBSET Nat /\ Bad # {}
  OBVIOUS
<1>2. PICK k \in Bad : \A j \in Bad : k <= j
  <2> HIDE DEF Bad
  <2> QED BY <1>1, Least, Zenon
<1>3. PICK x \in S \ P : k = rank[x]
  OBVIOUS
<1>4. ASSUME NEW y \in S, rank[y] < rank[x] PROVE y \in P
  BY <1>2, <1>3, <1>4, SMTT(20)
<1>5. QED
  BY <1>3, <1>4

-----------------------------------------------------------------------------
(* The functions of Search, by their equations. *)

\* The criteria in the NOTs and ORs of others.
Inside(c) ==
  {c.not[i] : i \in DOMAIN c.not} \cup {c.or[i][1] : i \in DOMAIN c.or} \cup {c.or[i][2] : i \in DOMAIN c.or}

\* Criteria are trees: depth counts the levels below.
Trees(depth) ==
  /\ depth \in [Criteria -> Nat]
  /\ \A c \in Criteria : \A d \in Inside(c) : depth[d] < depth[c]

\* What is inside of criteria are criteria.
LEMMA Parts ==
  ASSUME NEW c \in Criteria
  PROVE  /\ c.or \in Seq(Criteria \X Criteria) /\ c.not \in Seq(Criteria)
         /\ \A i \in DOMAIN c.not : c.not[i] \in Inside(c) /\ c.not[i] \in Criteria
         /\ \A i \in DOMAIN c.or : /\ c.or[i][1] \in Inside(c) /\ c.or[i][1] \in Criteria
                                   /\ c.or[i][2] \in Inside(c) /\ c.or[i][2] \in Criteria
<1>1. c.or \in Seq(Criteria \X Criteria) /\ c.not \in Seq(Criteria)
  BY CriteriaAssumption
<1>2. QED
  BY <1>1 DEF Inside

\* The function that parseCriteria returns is what its definition says.
LEMMA CheckIs ==
  ASSUME NEW depth, Trees(depth)
  PROVE  \A c \in Criteria :
           /\ Check[c] \in BOOLEAN
           /\ Check[c] <=> /\ \A i \in DOMAIN c.not : ~Check[c.not[i]]
                          /\ \A i \in DOMAIN c.or : Check[c.or[i][1]] \/ Check[c.or[i][2]]
<1> DEFINE B == BOOLEAN
           F == [Criteria -> B]
           is(c, g) == /\ \A i \in DOMAIN c.not : ~g[c.not[i]]
                       /\ \A i \in DOMAIN c.or : g[c.or[i][1]] \/ g[c.or[i][2]]
           step == [c \in Criteria |-> [g \in F |-> is(c, g)]]
<1>1. step \in [Criteria -> [F -> B]]
  OBVIOUS
<1>2. ASSUME NEW c \in Criteria, NEW g \in F, NEW h \in F,
             \A d \in Criteria : depth[d] < depth[c] => g[d] = h[d]
      PROVE  is(c, g) = is(c, h)
  <2>1. \A d \in Inside(c) : d \in Criteria => g[d] = h[d]
    BY <1>2 DEF Trees
  <2>2. /\ \A i \in DOMAIN c.not : g[c.not[i]] = h[c.not[i]]
        /\ \A i \in DOMAIN c.or : g[c.or[i][1]] = h[c.or[i][1]] /\ g[c.or[i][2]] = h[c.or[i][2]]
    BY <2>1, Parts
  <2>3. QED
    BY <2>2
<1>3. Defines(Criteria, B, depth, step)
  <2>1. Local(Criteria, B, depth, step)
    BY <1>2 DEF Local
  <2>2. B # {}
    BY Zenon
  <2> HIDE DEF B, step
  <2> QED BY <1>1, <2>1, <2>2, Zenon DEF Trees, Defines
<1>4. PICK f \in F : \A c \in Criteria : f[c] = step[c][f]
  <2> HIDE DEF B, step
  <2>1. Defined(Criteria, B, step)
    BY <1>3, Recursion, Zenon
  <2> QED BY <2>1, Zenon DEF Defined
<1> DEFINE Is(g) == g = [c \in Criteria |-> is(c, g)]
<1>5. Is(f)
  BY <1>4, Zenon
<1>6. Check = CHOOSE g : Is(g)
  BY Zenon DEF Check
<1>7. Is(Check)
  <2> HIDE DEF Is
  <2> QED BY <1>5, <1>6, Zenon
<1>8. QED
  BY <1>7, Zenon

\* The texts in parentheses are those of criteria inside.
LEMMA TextsInside ==
  ASSUME NEW c \in Criteria
  PROVE  /\ DOMAIN parseCriteria(c) \subseteq Nat
         /\ \A i \in DOMAIN parseCriteria(c) : \A cond \in parseCriteria(c)[i] :
              cond[1] \in {"not", "or"} => cond[2] \in Inside(c) /\ cond[2] \in Criteria
<1>1. ASSUME NEW cond \in Base(c), cond[1] \in {"not", "or"}
      PROVE  cond[2] \in Inside(c) /\ cond[2] \in Criteria
  <2>1. cond \in Each(c.not, "not")
    BY <1>1 DEF Base, Given, Each, Flags
  <2>2. QED
    BY <2>1, Parts DEF Each
<1>2. CASE Base(c) = {} /\ c.or = <<>>
  BY <1>2 DEF parseCriteria
<1>3. CASE ~(Base(c) = {} /\ c.or = <<>>)
  <2>1. Len(c.or) \in Nat /\ DOMAIN c.or = 1..Len(c.or)
    BY Parts
  <2>2. /\ DOMAIN parseCriteria(c) = 1..(Len(c.or) + 1)
        /\ \A i \in 1..(Len(c.or) + 1) :
             parseCriteria(c)[i] =
               (IF i = 1 THEN Base(c) ELSE {<<"or", c.or[i - 1][2]>>})
                 \cup (IF i > Len(c.or) THEN {} ELSE {<<"or", c.or[i][1]>>})
    BY <1>3, Zenon DEF parseCriteria
  <2>3. ASSUME NEW i \in 1..(Len(c.or) + 1), NEW cond \in parseCriteria(c)[i],
               cond[1] \in {"not", "or"}
        PROVE  cond[2] \in Inside(c) /\ cond[2] \in Criteria
    <3>1. CASE cond \in Base(c)
      BY <1>1, <2>3, <3>1, Zenon
    <3>2. CASE i # 1 /\ cond = <<"or", c.or[i - 1][2]>>
      <4>1. i - 1 \in DOMAIN c.or
        BY <2>1, <3>2
      <4>2. QED
        BY <3>2, <4>1, Parts
    <3>3. CASE i <= Len(c.or) /\ cond = <<"or", c.or[i][1]>>
      <4>1. i \in DOMAIN c.or
        BY <2>1, <3>3
      <4>2. QED
        BY <3>3, <4>1, Parts
    <3>4. QED
      BY <2>1, <2>2, <2>3, <3>1, <3>2, <3>3
  <2>4. QED
    BY <2>1, <2>2, <2>3
<1>4. QED
  BY <1>2, <1>3, Zenon

\* SQLite parses a text if it parses the texts in its parentheses.
LEMMA WellFormedIs ==
  ASSUME NEW depth, Trees(depth)
  PROVE  \A c \in Criteria :
           /\ WellFormed[c] \in BOOLEAN
           /\ WellFormed[c] <=>
                /\ parseCriteria(c) # <<>>
                /\ \A i \in DOMAIN parseCriteria(c) : \A cond \in parseCriteria(c)[i] :
                     /\ cond[1] # "malformed"
                     /\ cond[1] \in {"not", "or"} => WellFormed[cond[2]]
<1> DEFINE B == BOOLEAN
           F == [Criteria -> B]
           is(c, g) == /\ parseCriteria(c) # <<>>
                       /\ \A i \in DOMAIN parseCriteria(c) : \A cond \in parseCriteria(c)[i] :
                            /\ cond[1] # "malformed"
                            /\ cond[1] \in {"not", "or"} => g[cond[2]]
           step == [c \in Criteria |-> [g \in F |-> is(c, g)]]
<1>0. \A c \in Criteria, g \in F : is(c, g) \in B
  BY Zenon
<1>1. step \in [Criteria -> [F -> B]]
  <2> HIDE DEF B, is
  <2> QED BY <1>0
<1>2. ASSUME NEW c \in Criteria, NEW g \in F, NEW h \in F,
             \A d \in Criteria : depth[d] < depth[c] => g[d] = h[d]
      PROVE  is(c, g) = is(c, h)
  <2>1. \A d \in Inside(c) : d \in Criteria => g[d] = h[d]
    BY <1>2 DEF Trees
  <2>2. QED
    BY <2>1, TextsInside
<1>3. Defines(Criteria, B, depth, step)
  <2>1. Local(Criteria, B, depth, step)
    <3> HIDE DEF B, is
    <3> QED BY <1>2 DEF Local
  <2>2. B # {}
    BY Zenon
  <2> HIDE DEF B, step
  <2> QED BY <1>1, <2>1, <2>2, Zenon DEF Trees, Defines
<1>4. PICK f \in F : \A c \in Criteria : f[c] = step[c][f]
  <2> HIDE DEF B, step
  <2>1. Defined(Criteria, B, step)
    BY <1>3, Recursion, Zenon
  <2> QED BY <2>1, Zenon DEF Defined
<1> DEFINE Is(g) == g = [c \in Criteria |-> is(c, g)]
<1>5. Is(f)
  <2> HIDE DEF B, is
  <2> QED BY <1>4, Zenon
<1>6. WellFormed = CHOOSE g : Is(g)
  BY Zenon DEF WellFormed
<1>7. Is(WellFormed) /\ WellFormed \in F
  <2>1. Is(WellFormed)
    <3> HIDE DEF Is
    <3> QED BY <1>5, <1>6, Zenon
  <2> QED BY <2>1
<1>8. QED
  BY <1>7, Zenon

\* Only a condition with parentheses looks at the text inside of them.
LEMMA HoldsAlike ==
  ASSUME NEW row, NEW cond, NEW x, NEW y, cond[1] \in {"not", "or"} => x = y
  PROVE  Holds(row, cond, x) <=> Holds(row, cond, y)
  BY DEF Holds

\* A term of a text holds if its conditions do.
LEMMA SelectsIs ==
  ASSUME NEW depth, Trees(depth)
  PROVE  \A c \in Criteria :
           /\ Selects[c] \in [Rows -> SUBSET Nat]
           /\ Selects[c] = [row \in Rows |->
                {i \in DOMAIN parseCriteria(c) :
                   \A cond \in parseCriteria(c)[i] : Holds(row, cond, Selects[cond[2]][row])}]
<1> DEFINE B == [Rows -> SUBSET Nat]
           F == [Criteria -> B]
           is(c, g) == [row \in Rows |->
             {i \in DOMAIN parseCriteria(c) :
                \A cond \in parseCriteria(c)[i] : Holds(row, cond, g[cond[2]][row])}]
           step == [c \in Criteria |-> [g \in F |-> is(c, g)]]
<1>0. \A c \in Criteria : \A g : is(c, g) \in B
  BY TextsInside
<1>1. step \in [Criteria -> [F -> B]]
  <2> HIDE DEF B, is
  <2> QED BY <1>0
<1>2. ASSUME NEW c \in Criteria, NEW g \in F, NEW h \in F,
             \A d \in Criteria : depth[d] < depth[c] => g[d] = h[d]
      PROVE  is(c, g) = is(c, h)
  <2>1. \A d \in Inside(c) : d \in Criteria => g[d] = h[d]
    BY <1>2 DEF Trees
  <2>2. \A i \in DOMAIN parseCriteria(c) : \A cond \in parseCriteria(c)[i] :
          cond[1] \in {"not", "or"} => g[cond[2]] = h[cond[2]]
    BY <2>1, TextsInside
  <2>3. \A row \in Rows, i \in DOMAIN parseCriteria(c) : \A cond \in parseCriteria(c)[i] :
          Holds(row, cond, g[cond[2]][row]) <=> Holds(row, cond, h[cond[2]][row])
    BY <2>2, HoldsAlike, Zenon
  <2>4. QED
    BY <2>3
<1>3. Defines(Criteria, B, depth, step)
  <2>1. Local(Criteria, B, depth, step)
    <3> HIDE DEF B, is
    <3> QED BY <1>2 DEF Local
  <2>2. B # {}
    BY [row \in Rows |-> {}] \in B, Zenon
  <2> HIDE DEF B, step
  <2> QED BY <1>1, <2>1, <2>2, Zenon DEF Trees, Defines
<1>4. PICK f \in F : \A c \in Criteria : f[c] = step[c][f]
  <2> HIDE DEF B, step
  <2>1. Defined(Criteria, B, step)
    BY <1>3, Recursion, Zenon
  <2> QED BY <2>1, Zenon DEF Defined
<1> DEFINE Is(g) == g = [c \in Criteria |-> is(c, g)]
<1>5. Is(f)
  <2> HIDE DEF B, is
  <2> QED BY <1>4, Zenon
<1>6. Selects = CHOOSE g : Is(g)
  BY Zenon DEF Selects
<1>7. Is(Selects) /\ Selects \in F
  <2>1. Is(Selects)
    <3> HIDE DEF Is
    <3> QED BY <1>5, <1>6, Zenon
  <2>2. Selects \in F
    <3> HIDE DEF B, is
    <3> QED BY <1>0, <2>1
  <2> QED BY <2>1, <2>2, Zenon
<1>8. QED
  BY <1>7, Zenon

\* Criteria of dates and flags, one level at a time
LEMMA DatesAndFlagsIs ==
  ASSUME NEW depth, Trees(depth)
  PROVE  \A c \in Criteria :
           /\ DatesAndFlags[c] \in BOOLEAN
           /\ DatesAndFlags[c] <=>
                /\ c.ids = <<>> /\ c.larger = Unset /\ c.smaller = Unset /\ c.not = <<>>
                /\ \A i \in DOMAIN c.flag : c.flag[i] \notin Apostrophes
                /\ \A i \in DOMAIN c.notFlag : c.notFlag[i] \notin Apostrophes
                /\ \A i \in DOMAIN c.or : \A k \in 1..2 :
                     c.or[i][k] # Plain /\ DatesAndFlags[c.or[i][k]]
<1> DEFINE B == BOOLEAN
           F == [Criteria -> B]
           is(c, g) == /\ c.ids = <<>> /\ c.larger = Unset /\ c.smaller = Unset /\ c.not = <<>>
                       /\ \A i \in DOMAIN c.flag : c.flag[i] \notin Apostrophes
                       /\ \A i \in DOMAIN c.notFlag : c.notFlag[i] \notin Apostrophes
                       /\ \A i \in DOMAIN c.or : \A k \in 1..2 : c.or[i][k] # Plain /\ g[c.or[i][k]]
           step == [c \in Criteria |-> [g \in F |-> is(c, g)]]
<1>0. \A c \in Criteria : \A g : is(c, g) \in B
  BY Zenon
<1>1. step \in [Criteria -> [F -> B]]
  <2> HIDE DEF B, is
  <2> QED BY <1>0
<1>2. ASSUME NEW c \in Criteria, NEW g \in F, NEW h \in F,
             \A d \in Criteria : depth[d] < depth[c] => g[d] = h[d]
      PROVE  is(c, g) = is(c, h)
  <2>1. \A d \in Inside(c) : d \in Criteria => g[d] = h[d]
    BY <1>2 DEF Trees
  <2>2. \A i \in DOMAIN c.or : \A k \in 1..2 : g[c.or[i][k]] = h[c.or[i][k]]
    BY <2>1, Parts
  <2>3. QED
    BY <2>2
<1>3. Defines(Criteria, B, depth, step)
  <2>1. Local(Criteria, B, depth, step)
    <3> HIDE DEF B, is
    <3> QED BY <1>2 DEF Local
  <2>2. B # {}
    BY Zenon
  <2> HIDE DEF B, step
  <2> QED BY <1>1, <2>1, <2>2, Zenon DEF Trees, Defines
<1>4. PICK f \in F : \A c \in Criteria : f[c] = step[c][f]
  <2> HIDE DEF B, step
  <2>1. Defined(Criteria, B, step)
    BY <1>3, Recursion, Zenon
  <2> QED BY <2>1, Zenon DEF Defined
<1> DEFINE Is(g) == g = [c \in Criteria |-> is(c, g)]
<1>5. Is(f)
  <2> HIDE DEF B, is
  <2> QED BY <1>4, Zenon
<1>6. DatesAndFlags = CHOOSE g : Is(g)
  BY Zenon DEF DatesAndFlags
<1>7. Is(DatesAndFlags) /\ DatesAndFlags \in F
  <2>1. Is(DatesAndFlags)
    <3> HIDE DEF Is
    <3> QED BY <1>5, <1>6, Zenon
  <2>2. DatesAndFlags \in F
    <3> HIDE DEF B, is
    <3> QED BY <1>0, <2>1
  <2> QED BY <2>1, <2>2, Zenon
<1>8. QED
  BY <1>7, Zenon

\* What criteria mean, one level at a time
LEMMA MatchesIs ==
  ASSUME NEW depth, Trees(depth)
  PROVE  \A c \in Criteria :
           \A row \in Rows :
             Matches[c][row] <=>
               /\ c.before # Unset => row.date < c.before
               /\ c.since # Unset => row.date > c.since
               /\ \A i \in DOMAIN c.flag : c.flag[i] \in row.flags
               /\ \A i \in DOMAIN c.notFlag : c.notFlag[i] \notin row.flags
               /\ \A i \in DOMAIN c.or : Matches[c.or[i][1]][row] \/ Matches[c.or[i][2]][row]
<1> DEFINE B == [Rows -> BOOLEAN]
           F == [Criteria -> B]
           is(c, g) == [row \in Rows |->
             /\ c.before # Unset => row.date < c.before
             /\ c.since # Unset => row.date > c.since
             /\ \A i \in DOMAIN c.flag : c.flag[i] \in row.flags
             /\ \A i \in DOMAIN c.notFlag : c.notFlag[i] \notin row.flags
             /\ \A i \in DOMAIN c.or : g[c.or[i][1]][row] \/ g[c.or[i][2]][row]]
           step == [c \in Criteria |-> [g \in F |-> is(c, g)]]
<1>0. \A c \in Criteria : \A g : is(c, g) \in B
  BY Zenon
<1>1. step \in [Criteria -> [F -> B]]
  <2> HIDE DEF B, is
  <2> QED BY <1>0
<1>2. ASSUME NEW c \in Criteria, NEW g \in F, NEW h \in F,
             \A d \in Criteria : depth[d] < depth[c] => g[d] = h[d]
      PROVE  is(c, g) = is(c, h)
  <2>1. \A d \in Inside(c) : d \in Criteria => g[d] = h[d]
    BY <1>2 DEF Trees
  <2>2. \A i \in DOMAIN c.or : g[c.or[i][1]] = h[c.or[i][1]] /\ g[c.or[i][2]] = h[c.or[i][2]]
    BY <2>1, Parts
  <2>3. \A row \in Rows, i \in DOMAIN c.or :
          g[c.or[i][1]][row] = h[c.or[i][1]][row] /\ g[c.or[i][2]][row] = h[c.or[i][2]][row]
    BY <2>2, Zenon
  <2>4. QED
    BY <2>3, Zenon
<1>3. Defines(Criteria, B, depth, step)
  <2>1. Local(Criteria, B, depth, step)
    <3> HIDE DEF B, is
    <3> QED BY <1>2 DEF Local
  <2>2. B # {}
    BY [row \in Rows |-> TRUE] \in B, Zenon
  <2> HIDE DEF B, step
  <2> QED BY <1>1, <2>1, <2>2, Zenon DEF Trees, Defines
<1>4. PICK f \in F : \A c \in Criteria : f[c] = step[c][f]
  <2> HIDE DEF B, step
  <2>1. Defined(Criteria, B, step)
    BY <1>3, Recursion, Zenon
  <2> QED BY <2>1, Zenon DEF Defined
<1> DEFINE Is(g) == g = [c \in Criteria |-> is(c, g)]
<1>5. Is(f)
  <2> HIDE DEF B, is
  <2> QED BY <1>4, Zenon
<1>6. Matches = CHOOSE g : Is(g)
  BY Zenon DEF Matches
<1>7. Is(Matches) /\ Matches \in F
  <2>1. Is(Matches)
    <3> HIDE DEF Is
    <3> QED BY <1>5, <1>6, Zenon
  <2>2. Matches \in F
    <3> HIDE DEF B, is
    <3> QED BY <1>0, <2>1
  <2> QED BY <2>1, <2>2, Zenon
<1>8. QED
  BY <1>7, Zenon

-----------------------------------------------------------------------------
\* A set of numbers up to n has a greatest element.
LEMMA Greatest ==
  ASSUME NEW n \in Nat, NEW K \in SUBSET (1..n), K # {}
  PROVE  \E k \in K : \A j \in K : j <= k
<1> DEFINE above == {m \in Nat : \A j \in K : j <= m}
<1>1. above \in SUBSET Nat /\ n \in above
  OBVIOUS
<1>2. PICK m \in above : \A a \in above : m <= a
  <2> HIDE DEF above
  <2> QED BY <1>1, Least, Zenon
<1>3. m \in K
  <2> SUFFICES ASSUME m \notin K PROVE FALSE
    OBVIOUS
  <2>1. m \in Nat /\ m # 0
    <3>1. PICK j \in K : TRUE
      BY Zenon
    <3>2. j \in Nat /\ j # 0 /\ j <= m /\ m \in Nat
      BY <1>2
    <3> HIDE DEF above
    <3> QED BY <3>2
  <2>0. \A j \in K : j <= m - 1
    <3> SUFFICES ASSUME NEW j \in K PROVE j <= m - 1
      OBVIOUS
    <3>1. j \in Nat /\ j <= m /\ j # m
      BY <1>2
    <3> HIDE DEF above
    <3> QED BY <3>1, <2>1
  <2>2. m - 1 \in above
    BY <2>0, <2>1
  <2>3. QED
    BY <1>2, <2>1, <2>2
<1>4. QED
  BY <1>2, <1>3

\* The text of the criteria, term by term.
LEMMA Terms ==
  ASSUME NEW c \in Criteria, c.or # <<>> \/ Base(c) # {}
  PROVE  /\ parseCriteria(c) # <<>>
         /\ DOMAIN parseCriteria(c) = 1..(Len(c.or) + 1) /\ Len(parseCriteria(c)) = Len(c.or) + 1
         /\ Len(c.or) \in Nat /\ DOMAIN c.or = 1..Len(c.or)
         /\ \A i \in 1..(Len(c.or) + 1) :
              parseCriteria(c)[i] =
                (IF i = 1 THEN Base(c) ELSE {<<"or", c.or[i - 1][2]>>})
                  \cup (IF i > Len(c.or) THEN {} ELSE {<<"or", c.or[i][1]>>})
<1>1. Len(c.or) \in Nat /\ DOMAIN c.or = 1..Len(c.or)
  BY Parts
<1>2. parseCriteria(c) =
        [i \in 1..(Len(c.or) + 1) |->
           (IF i = 1 THEN Base(c) ELSE {<<"or", c.or[i - 1][2]>>})
             \cup (IF i > Len(c.or) THEN {} ELSE {<<"or", c.or[i][1]>>})]
  BY Zenon DEF parseCriteria
<1>3. 1 \in 1..(Len(c.or) + 1)
  BY <1>1
<1>4. QED
  BY <1>1, <1>2, <1>3

\* Of criteria of dates and flags only the plain ones have an empty text.
LEMMA TextIsThere ==
  ASSUME NEW depth, Trees(depth), NEW c \in Criteria, DatesAndFlags[c], c # Plain
  PROVE  c.or # <<>> \/ Base(c) # {}
<1> SUFFICES ASSUME c.or = <<>>, Base(c) = {} PROVE FALSE
  OBVIOUS
<1>1. c.ids = <<>> /\ c.larger = Unset /\ c.smaller = Unset /\ c.not = <<>>
  BY DatesAndFlagsIs
<1>2. c.before = Unset /\ c.since = Unset
  <2>1. Given(c.before, "before") = {} /\ Given(c.since, "since") = {}
    BY Zenon DEF Base
  <2>2. QED
    BY <2>1, Zenon DEF Given
<1>3. c.flag \in Seq(STRING) /\ c.notFlag \in Seq(STRING)
  BY CriteriaAssumption
<1>4. c.flag = <<>> /\ c.notFlag = <<>>
  <2>1. Flags(c.flag, "flag") = {} /\ Flags(c.notFlag, "notFlag") = {}
    BY Zenon DEF Base
  <2>2. DOMAIN c.flag = {} /\ DOMAIN c.notFlag = {}
    BY <2>1, Zenon DEF Flags
  <2>3. ASSUME NEW q \in Seq(STRING), DOMAIN q = {} PROVE q = <<>>
    <3>1. Len(q) \in Nat /\ DOMAIN q = 1..Len(q)
      OBVIOUS
    <3>2. Len(q) = 0
      BY <2>3, <3>1
    <3> QED BY <3>2, EmptySeq
  <2>4. QED
    BY <1>3, <2>2, <2>3, Zenon
<1>5. QED
  BY <1>1, <1>2, <1>4, CriteriaAssumption DEF Plain

\* The conditions of dates and flags of a row that matches hold, whatever is in
\* the parentheses.
LEMMA BaseHolds ==
  ASSUME NEW depth, Trees(depth), NEW c \in Criteria, DatesAndFlags[c], NEW row \in Rows,
         Matches[c][row], NEW cond \in Base(c), NEW inside
  PROVE  Holds(row, cond, inside) /\ cond[1] \notin {"malformed", "not", "or"}
<1>1. /\ c.ids = <<>> /\ c.larger = Unset /\ c.smaller = Unset /\ c.not = <<>>
      /\ \A i \in DOMAIN c.flag : c.flag[i] \notin Apostrophes
      /\ \A i \in DOMAIN c.notFlag : c.notFlag[i] \notin Apostrophes
  BY DatesAndFlagsIs, Zenon
<1>2. /\ c.before # Unset => row.date < c.before
      /\ c.since # Unset => row.date > c.since
      /\ \A i \in DOMAIN c.flag : c.flag[i] \in row.flags
      /\ \A i \in DOMAIN c.notFlag : c.notFlag[i] \notin row.flags
  BY MatchesIs, Zenon
<1>3. row.date \in Int /\ c.since \in Int
  BY CriteriaAssumption, RowsAssumption
<1>4. Each(c.not, "not") = {}
  BY <1>1 DEF Each
<1>5. \/ c.before # Unset /\ cond = <<"before", c.before>>
      \/ c.since # Unset /\ cond = <<"since", c.since>>
      \/ \E i \in DOMAIN c.flag : cond = <<"flag", c.flag[i]>>
      \/ \E i \in DOMAIN c.notFlag : cond = <<"notFlag", c.notFlag[i]>>
  BY <1>1, <1>4 DEF Base, Given, Flags
<1>6. CASE c.before # Unset /\ cond = <<"before", c.before>>
  BY <1>2, <1>6 DEF Holds
<1>7. CASE c.since # Unset /\ cond = <<"since", c.since>>
  BY <1>2, <1>3, <1>7 DEF Holds
<1>8. CASE \E i \in DOMAIN c.flag : cond = <<"flag", c.flag[i]>>
  BY <1>2, <1>8 DEF Holds
<1>9. CASE \E i \in DOMAIN c.notFlag : cond = <<"notFlag", c.notFlag[i]>>
  BY <1>2, <1>9 DEF Holds
<1>10. QED
  BY <1>5, <1>6, <1>7, <1>8, <1>9

\* Criteria whose answer is right as far as a row that matches goes.
Answers(c) ==
  DatesAndFlags[c] =>
    /\ Check[c]
    /\ c # Plain => /\ WellFormed[c]
                    /\ \A row \in Rows : Matches[c][row] => Selects[c][row] # {}

\* The alternatives of criteria of dates and flags.
LEMMA Alternatives ==
  ASSUME NEW depth, Trees(depth), NEW c \in Criteria, DatesAndFlags[c],
         \A d \in Inside(c) : Answers(d)
  PROVE  \A i \in DOMAIN c.or : \A k \in 1..2 :
           LET d == c.or[i][k] IN
           /\ d \in Criteria /\ d # Plain /\ DatesAndFlags[d] /\ Check[d] /\ WellFormed[d]
           /\ \A row \in Rows : Matches[d][row] => Selects[d][row] # {}
<1> SUFFICES ASSUME NEW i \in DOMAIN c.or, NEW k \in 1..2
             PROVE  LET d == c.or[i][k] IN
                    /\ d \in Criteria /\ d # Plain /\ DatesAndFlags[d] /\ Check[d] /\ WellFormed[d]
                    /\ \A row \in Rows : Matches[d][row] => Selects[d][row] # {}
  BY Zenon
<1>1. c.or[i][k] # Plain /\ DatesAndFlags[c.or[i][k]]
  BY DatesAndFlagsIs, Zenon
<1>2. c.or[i][k] \in Inside(c) /\ c.or[i][k] \in Criteria
  BY Parts DEF Inside
<1>3. QED
  BY <1>1, <1>2, Zenon DEF Answers

\* A row that matches is selected by a term: the one that the last alternative
\* that is selected as the second of its OR begins, or else the first one.
LEMMA TermSelected ==
  ASSUME NEW depth, Trees(depth), NEW c \in Criteria, DatesAndFlags[c], c # Plain,
         \A d \in Inside(c) : Answers(d), NEW row \in Rows, Matches[c][row]
  PROVE  Selects[c][row] # {}
<1> DEFINE n == Len(c.or)
           terms == parseCriteria(c)
           S(i, k) == Selects[c.or[i][k]][row] # {}
           K == {i \in 1..n : S(i, 2)}
<1>1. /\ DOMAIN terms = 1..(n + 1) /\ n \in Nat /\ DOMAIN c.or = 1..n
      /\ \A i \in 1..(n + 1) :
           terms[i] = (IF i = 1 THEN Base(c) ELSE {<<"or", c.or[i - 1][2]>>})
                        \cup (IF i > n THEN {} ELSE {<<"or", c.or[i][1]>>})
  BY TextIsThere, Terms, Zenon
<1>2. Selects[c][row] = {i \in DOMAIN terms :
                           \A cond \in terms[i] : Holds(row, cond, Selects[cond[2]][row])}
  BY SelectsIs, Zenon
<1>3. \A i \in 1..n : S(i, 1) \/ S(i, 2)
  <2> SUFFICES ASSUME NEW i \in 1..n PROVE S(i, 1) \/ S(i, 2)
    BY Zenon
  <2>1. i \in DOMAIN c.or
    BY <1>1, Zenon
  <2>2. Matches[c.or[i][1]][row] \/ Matches[c.or[i][2]][row]
    BY <2>1, MatchesIs, Zenon
  <2>3. 1 \in 1..2 /\ 2 \in 1..2
    OBVIOUS
  <2>4. QED
    BY <2>1, <2>2, <2>3, Alternatives, Zenon
<1>4. ASSUME NEW i, NEW k, S(i, k), NEW cond, cond = <<"or", c.or[i][k]>>
      PROVE  Holds(row, cond, Selects[cond[2]][row])
  BY <1>4 DEF Holds
<1>5. \E i \in 1..(n + 1) : (i > 1 => S(i - 1, 2)) /\ (i <= n => S(i, 1))
                              
  <2>1. CASE K = {}
    <3>1. 1 \in 1..(n + 1) /\ (1 <= n => 1 \in 1..n) /\ ~(1 > 1)
      BY <1>1
    <3>2. 1 <= n => S(1, 1)
      BY <1>3, <2>1, <3>1, Zenon
    <3>3. QED
      BY <3>1, <3>2, Zenon
  <2>2. CASE K # {}
    <3>1. PICK m \in K : \A j \in K : j <= m
      <4>1. K \in SUBSET (1..n)
        OBVIOUS
      <4>2. QED
        <5> HIDE DEF K, n
        <5> QED BY <1>1, <2>2, <4>1, Greatest, Zenon
    <3>2. m \in 1..n /\ S(m, 2)
      OBVIOUS
    <3>3. m + 1 \in 1..(n + 1) /\ (m + 1) - 1 = m /\ (m + 1 <= n => m + 1 \in 1..n) /\ ~(m + 1 <= m)
      BY <1>1, <3>2
    <3>4. m + 1 \notin K
      BY <3>1, <3>3, Zenon
    <3>5. m + 1 <= n => S(m + 1, 1)
      BY <1>3, <3>3, <3>4, Zenon
    <3>6. S((m + 1) - 1, 2)
      BY <3>2, <3>3, Zenon
    <3>7. QED
      BY <3>3, <3>5, <3>6, Zenon
  <2>3. QED
    BY <2>1, <2>2, Zenon
<1>6. PICK i \in 1..(n + 1) : (i > 1 => S(i - 1, 2)) /\ (i <= n => S(i, 1))
  BY <1>5, Zenon
<1>7. \A cond \in terms[i] : Holds(row, cond, Selects[cond[2]][row])
  <2> SUFFICES ASSUME NEW cond \in terms[i] PROVE Holds(row, cond, Selects[cond[2]][row])
    OBVIOUS
  <2>1. \/ i = 1 /\ cond \in Base(c)
        \/ i # 1 /\ cond = <<"or", c.or[i - 1][2]>>
        \/ ~(i > n) /\ cond = <<"or", c.or[i][1]>>
    <3>1. terms[i] = (IF i = 1 THEN Base(c) ELSE {<<"or", c.or[i - 1][2]>>})
                       \cup (IF i > n THEN {} ELSE {<<"or", c.or[i][1]>>})
      BY <1>1, Zenon
    <3> HIDE DEF n, terms
    <3> QED BY <3>1
  <2>2. CASE i = 1 /\ cond \in Base(c)
    BY <2>2, BaseHolds, Zenon
  <2>3. CASE i # 1 /\ cond = <<"or", c.or[i - 1][2]>>
    <3>1. i > 1
      BY <1>1, <2>3
    <3>2. QED
      BY <1>4, <1>6, <2>3, <3>1, Zenon
  <2>4. CASE ~(i > n) /\ cond = <<"or", c.or[i][1]>>
    <3>1. i <= n
      BY <1>1, <2>4
    <3>2. QED
      BY <1>4, <1>6, <2>4, <3>1, Zenon
  <2>5. QED
    BY <2>1, <2>2, <2>3, <2>4, Zenon
<1>8. i \in Selects[c][row]
  BY <1>1, <1>2, <1>7, Zenon
<1>9. QED
  BY <1>8, Zenon

\* Nothing in the text of such criteria is malformed.
LEMMA TextIsWellFormed ==
  ASSUME NEW depth, Trees(depth), NEW c \in Criteria, DatesAndFlags[c], c # Plain,
         \A d \in Inside(c) : Answers(d)
  PROVE  WellFormed[c]
<1> DEFINE n == Len(c.or)
           terms == parseCriteria(c)
<1>1. /\ DOMAIN terms = 1..(n + 1) /\ n \in Nat /\ DOMAIN c.or = 1..n /\ terms # <<>>
      /\ \A i \in 1..(n + 1) :
           terms[i] = (IF i = 1 THEN Base(c) ELSE {<<"or", c.or[i - 1][2]>>})
                        \cup (IF i > n THEN {} ELSE {<<"or", c.or[i][1]>>})
  BY TextIsThere, Terms, Zenon
<1> SUFFICES ASSUME NEW i \in DOMAIN terms, NEW cond \in terms[i]
             PROVE  cond[1] # "malformed" /\ (cond[1] \in {"not", "or"} => WellFormed[cond[2]])
  BY <1>1, WellFormedIs, Zenon
<1>2. \/ cond \in Base(c)
      \/ i # 1 /\ cond = <<"or", c.or[i - 1][2]>>
      \/ ~(i > n) /\ cond = <<"or", c.or[i][1]>>
  <2>1. terms[i] = (IF i = 1 THEN Base(c) ELSE {<<"or", c.or[i - 1][2]>>})
                     \cup (IF i > n THEN {} ELSE {<<"or", c.or[i][1]>>})
    BY <1>1, Zenon
  <2> HIDE DEF n, terms
  <2> QED BY <2>1
<1>3. CASE cond \in Base(c)
  <2>1. /\ c.ids = <<>> /\ c.larger = Unset /\ c.smaller = Unset /\ c.not = <<>>
        /\ \A j \in DOMAIN c.flag : c.flag[j] \notin Apostrophes
        /\ \A j \in DOMAIN c.notFlag : c.notFlag[j] \notin Apostrophes
    BY DatesAndFlagsIs, Zenon
  <2>2. QED
    BY <1>3, <2>1 DEF Base, Given, Each, Flags
<1>4. CASE i # 1 /\ cond = <<"or", c.or[i - 1][2]>>
  <2>1. i - 1 \in DOMAIN c.or /\ 2 \in 1..2
    BY <1>1, <1>4
  <2>2. WellFormed[c.or[i - 1][2]]
    BY <2>1, Alternatives, Zenon
  <2>3. cond[1] = "or" /\ cond[2] = c.or[i - 1][2]
    BY <1>4
  <2>4. QED
    BY <2>2, <2>3
<1>5. CASE ~(i > n) /\ cond = <<"or", c.or[i][1]>>
  <2>1. i \in DOMAIN c.or /\ 1 \in 1..2
    BY <1>1, <1>5
  <2>2. WellFormed[c.or[i][1]]
    BY <2>1, Alternatives, Zenon
  <2>3. cond[1] = "or" /\ cond[2] = c.or[i][1]
    BY <1>5
  <2>4. QED
    BY <2>2, <2>3
<1>6. QED
  BY <1>2, <1>3, <1>4, <1>5, Zenon

\* A row for which the conditions of criteria without OR hold matches.
LEMMA BaseSays ==
  ASSUME NEW depth, Trees(depth), NEW c \in Criteria, c.or = <<>>, DatesAndFlags[c],
         NEW row \in Rows, \A cond \in Base(c) : \E x : Holds(row, cond, x)
  PROVE  Matches[c][row]
<1>0. /\ \A i \in DOMAIN c.flag : c.flag[i] \notin Apostrophes
      /\ \A i \in DOMAIN c.notFlag : c.notFlag[i] \notin Apostrophes
  BY DatesAndFlagsIs, Zenon
<1>1. row.date \in Int /\ c.since \in Int
  BY CriteriaAssumption, RowsAssumption
<1>2. ASSUME c.before # Unset PROVE row.date < c.before
  <2>1. <<"before", c.before>> \in Base(c)
    BY <1>2, Zenon DEF Base, Given
  <2>2. PICK x : Holds(row, <<"before", c.before>>, x)
    BY <2>1, Zenon
  <2>3. QED
    BY <2>2 DEF Holds
<1>3. ASSUME c.since # Unset PROVE row.date > c.since
  <2>1. <<"since", c.since>> \in Base(c)
    BY <1>3, Zenon DEF Base, Given
  <2>2. PICK x : Holds(row, <<"since", c.since>>, x)
    BY <2>1, Zenon
  <2>3. QED
    BY <1>1, <2>2 DEF Holds
<1>4. ASSUME NEW i \in DOMAIN c.flag PROVE c.flag[i] \in row.flags
  <2>1. <<"flag", c.flag[i]>> \in Base(c)
    BY <1>0 DEF Base, Flags
  <2>2. PICK x : Holds(row, <<"flag", c.flag[i]>>, x)
    BY <2>1, Zenon
  <2>3. QED
    BY <2>2 DEF Holds
<1>5. ASSUME NEW i \in DOMAIN c.notFlag PROVE c.notFlag[i] \notin row.flags
  <2>1. <<"notFlag", c.notFlag[i]>> \in Base(c)
    BY <1>0 DEF Base, Flags
  <2>2. PICK x : Holds(row, <<"notFlag", c.notFlag[i]>>, x)
    BY <2>1, Zenon
  <2>3. QED
    BY <2>2 DEF Holds
<1>6. \A i \in DOMAIN c.or : FALSE
  OBVIOUS
<1>7. QED
  BY <1>2, <1>3, <1>4, <1>5, <1>6, MatchesIs, Zenon

\* Every criterion is answered: by induction along the depth.
LEMMA EveryOneAnswers ==
  ASSUME NEW depth, Trees(depth)
  PROVE  \A c \in Criteria : Answers(c)
<1> DEFINE P == {n \in Nat : \A c \in Criteria : depth[c] < n => Answers(c)}
<1>1. depth \in [Criteria -> Nat]
  BY DEF Trees
<1>2. 0 \in P
  BY <1>1
<1>3. ASSUME NEW n \in Nat, n \in P PROVE n + 1 \in P
  <2> SUFFICES ASSUME NEW c \in Criteria, depth[c] < n + 1 PROVE Answers(c)
    OBVIOUS
  <2>1. \A d \in Inside(c) : d \in Criteria
    BY Parts DEF Inside
  <2>2. \A d \in Inside(c) : Answers(d)
    <3> SUFFICES ASSUME NEW d \in Inside(c) PROVE Answers(d)
      BY Zenon
    <3>1. d \in Criteria /\ depth[d] < depth[c]
      BY <2>1 DEF Trees
    <3>2. depth[d] < n
      BY <1>1, <3>1
    <3>3. QED
      BY <1>3, <3>1, <3>2
  <2>3. ASSUME DatesAndFlags[c] PROVE Check[c]
    <3>1. c.not = <<>>
      BY <2>3, DatesAndFlagsIs
    <3>2. \A i \in DOMAIN c.not : FALSE
      BY <3>1
    <3>3. 1 \in 1..2
      OBVIOUS
    <3>4. \A i \in DOMAIN c.or : Check[c.or[i][1]]
      BY <2>2, <2>3, <3>3, Alternatives, Zenon
    <3>5. QED
      BY <3>2, <3>4, CheckIs, Zenon
  <2>4. ASSUME DatesAndFlags[c], c # Plain PROVE WellFormed[c]
    BY <2>2, <2>4, TextIsWellFormed, Zenon
  <2>5. ASSUME DatesAndFlags[c], c # Plain, NEW row \in Rows, Matches[c][row]
        PROVE  Selects[c][row] # {}
    BY <2>2, <2>5, TermSelected, Zenon
  <2>6. QED
    BY <2>3, <2>4, <2>5, Zenon DEF Answers
<1>4. Nat \subseteq P
  <2> HIDE DEF P
  <2> QED BY <1>2, <1>3, Everywhere, Zenon
<1> SUFFICES ASSUME NEW c \in Criteria PROVE Answers(c)
  BY Zenon
<1>5. depth[c] + 1 \in P /\ depth[c] < depth[c] + 1
  BY <1>1, <1>4
<1>6. QED
  BY <1>5

\* SEARCH answers what its criteria ask for, for criteria of any depth and
\* length and any emails: the text of the query (search.go parseCriteria, Search)
\* keeps every row of the mailbox that matches, and without OR no other.
THEOREM SearchFindsWhatMatches ==
  ASSUME NEW depth, Trees(depth)
  PROVE  search \in Criteria \cup {NoSearch} => SearchFinds
<1> SUFFICES ASSUME search \in Criteria, search # NoSearch, NEW row \in Rows
             PROVE  /\ DatesAndFlags[search] /\ row.inside /\ Matches[search][row]
                         => Found(search, row) = "yes"
                    /\ search.or = <<>> /\ Found(search, row) = "yes" =>
                         row.inside /\ (DatesAndFlags[search] => Matches[search][row])
  BY Zenon DEF SearchFinds
<1> DEFINE c == search
           terms == parseCriteria(c)
<1>1. c \in Criteria
  BY Zenon
<1>2. Answers(c)
  BY <1>1, EveryOneAnswers, Zenon
<1>3. ASSUME DatesAndFlags[c], row.inside, Matches[c][row] PROVE Found(c, row) = "yes"
  <2>1. Check[c]
    BY <1>2, <1>3, Zenon DEF Answers
  <2>2. CASE terms = <<>>
    BY <1>3, <2>1, <2>2, Zenon DEF Found
  <2>3. CASE terms # <<>>
    <3>1. c # Plain
      BY <2>3 DEF parseCriteria, Base, Given, Each, Flags, Plain
    <3>2. WellFormed[c] /\ Selects[c][row] # {}
      BY <1>2, <1>3, <3>1, Zenon DEF Answers
    <3>3. QED
      BY <1>3, <2>1, <2>3, <3>2, Zenon DEF Found
  <2>4. QED
    BY <2>2, <2>3
<1>4. ASSUME c.or = <<>>, Found(c, row) = "yes"
      PROVE  row.inside /\ (DatesAndFlags[c] => Matches[c][row])
  <2>1. IF terms = <<>> THEN row.inside ELSE \E i \in Selects[c][row] : i = Len(terms) => row.inside
    BY <1>4, Zenon DEF Found
  <2>2. Len(c.or) = 0
    BY <1>4
  <2>3. CASE terms = <<>>
    <3>1. Base(c) = {}
      BY <1>1, <2>3, Terms, Zenon
    <3>2. \A cond \in Base(c) : Holds(row, cond, {})
      BY <3>1
    <3>3. DatesAndFlags[c] => Matches[c][row]
      BY <1>1, <1>4, <3>2, BaseSays, Zenon
    <3>4. QED
      BY <2>1, <2>3, <3>3, Zenon
  <2>4. CASE terms # <<>>
    <3>1. c.or # <<>> \/ Base(c) # {}
      BY <2>4, Zenon DEF parseCriteria
    <3>2. /\ Len(terms) = Len(c.or) + 1 /\ DOMAIN terms = 1..(Len(c.or) + 1)
          /\ \A i \in 1..(Len(c.or) + 1) :
               terms[i] = (IF i = 1 THEN Base(c) ELSE {<<"or", c.or[i - 1][2]>>})
                            \cup (IF i > Len(c.or) THEN {} ELSE {<<"or", c.or[i][1]>>})
      BY <1>1, <3>1, Terms, Zenon
    <3>3. Len(terms) = 1 /\ DOMAIN terms = {1} /\ terms[1] = Base(c)
      <4> HIDE DEF terms
      <4> QED BY <2>2, <3>2
    <3>4. PICK i \in Selects[c][row] : i = Len(terms) => row.inside
      BY <2>1, <2>4, Zenon
    <3>5. i \in DOMAIN terms /\ \A cond \in terms[i] : Holds(row, cond, Selects[cond[2]][row])
      <4>1. Selects[c][row] = {j \in DOMAIN terms :
                                \A cond \in terms[j] : Holds(row, cond, Selects[cond[2]][row])}
        BY <1>1, SelectsIs, Zenon
      <4>2. QED
        BY <3>4, <4>1, Zenon
    <3>6. i = 1
      BY <3>3, <3>5, Zenon
    <3>7. \A cond \in Base(c) : Holds(row, cond, Selects[cond[2]][row])
      BY <3>3, <3>5, <3>6, Zenon
    <3>8. DatesAndFlags[c] => Matches[c][row]
      <4>1. ASSUME NEW cond \in Base(c) PROVE \E x : Holds(row, cond, x)
        BY <3>7, Zenon
      <4>2. QED
        BY <1>1, <1>4, <4>1, BaseSays, Zenon
    <3>9. QED
      BY <3>3, <3>4, <3>6, <3>8, Zenon
  <2>5. QED
    BY <2>3, <2>4, Zenon
<1>5. QED
  BY <1>3, <1>4, Zenon

-----------------------------------------------------------------------------
(* The lexer of filters. *)

\* The kinds that kindOf gives are names.
LEMMA KindIsOne ==
  ASSUME NEW before, NEW current, NEW next
  PROVE  kindOf(before, current, next) \in Kinds
<1>1. {"operator_low", "separator", "number", "identifier_execute", "identifier_param_beg",
       "identifier_param_end", "identifier_param_sep", "string_del", "identifier_compose",
       "identifier", "generic"} \subseteq Kinds
  BY Zenon DEF Kinds
<1>2. QED
  BY <1>1, Zenon DEF kindOf

\* What is written for a piece are pieces.
LEMMA Written ==
  ASSUME NEW p \in Pieces
  PROVE  WriteRune(p) \in Seq(Pieces)
<1>1. CASE p \in DOMAIN Byte
  <2> DEFINE high == PieceOf(192 + Byte[p] \div 64)
             low == PieceOf(128 + (Byte[p] % 64))
  <2>1. high \in DOMAIN Byte /\ low \in DOMAIN Byte
    BY <1>1, ByteAssumption, Zenon DEF PieceOf
  <2>2. WriteRune(p) = <<high, low>>
    BY <1>1, Zenon DEF WriteRune
  <2>3. high \in Pieces /\ low \in Pieces
    BY <2>1, ByteAssumption, Zenon
  <2> HIDE DEF high, low
  <2>4. QED
    BY <2>2, <2>3
<1>2. CASE p \notin DOMAIN Byte
  BY <1>2 DEF WriteRune
<1>3. QED
  BY <1>1, <1>2

\* A lexem has its value, and a kind.
LEMMA LexemIs ==
  ASSUME NEW kind \in Kinds \union {nil}, NEW value \in Seq(Pieces)
  PROVE  Lexem(kind, value) \in Lexems /\ Lexem(kind, value).v = value
<1>1. ASSUME NEW word \in DOMAIN Keywords PROVE Keywords[word] \in Kinds
  BY <1>1 DEF Keywords, Kinds
<1>2. "generic" \in Kinds
  BY DEF Kinds
<1> DEFINE kindAt == Lexem(kind, value).k
<1>3. kindAt \in Kinds \union {nil}
  BY <1>1, <1>2, Zenon DEF Lexem
<1>4. Lexem(kind, value) = [k |-> kindAt, v |-> value]
  BY Zenon DEF Lexem
<1>5. QED
  <2> HIDE DEF kindAt
  <2> QED BY <1>3, <1>4 DEF Lexems

\* The end of the first line, of a text that has one
LEMMA FirstLineIs ==
  ASSUME NEW text \in Seq(Pieces), \E i \in DOMAIN text : text[i] = "\n"
  PROVE  /\ FirstLine(text) \in 1..Len(text) /\ text[FirstLine(text)] = "\n"
         /\ \A j \in 1..(FirstLine(text) - 1) : text[j] # "\n"
<1> DEFINE Ends == {i \in DOMAIN text : text[i] = "\n"}
<1>1. Ends \in SUBSET Nat /\ Ends # {}
  OBVIOUS
<1>2. PICK n \in Ends : \A k \in Ends : n <= k
  <2> HIDE DEF Ends
  <2> QED BY <1>1, Least, Zenon
<1>3. n \in DOMAIN text /\ text[n] = "\n" /\ \A j \in 1..(n - 1) : text[j] # "\n"
  BY <1>2
<1>4. \E i \in DOMAIN text : text[i] = "\n" /\ \A j \in 1..(i - 1) : text[j] # "\n"
  BY <1>3, Zenon
<1>5. /\ FirstLine(text) \in DOMAIN text /\ text[FirstLine(text)] = "\n"
      /\ \A j \in 1..(FirstLine(text) - 1) : text[j] # "\n"
  BY <1>4, Zenon DEF FirstLine
<1>6. QED
  BY <1>5

\* Reading a line leaves less.
LEMMA ReadLineIs ==
  ASSUME NEW text \in Seq(Pieces), text # <<>>
  PROVE  ReadLine(text) \in Seq(Pieces) /\ Len(ReadLine(text)) < Len(text)
<1>1. CASE \E i \in DOMAIN text : text[i] = "\n"
  <2>1. FirstLine(text) \in 1..Len(text)
    BY <1>1, FirstLineIs
  <2>2. ReadLine(text) = SubSeq(text, FirstLine(text) + 1, Len(text))
    BY <1>1 DEF ReadLine
  <2>3. QED
    BY <2>1, <2>2
<1>2. CASE ~\E i \in DOMAIN text : text[i] = "\n"
  BY <1>2 DEF ReadLine
<1>3. QED
  BY <1>1, <1>2

\* AfterComments is what its definition says.
LEMMA AfterCommentsIs ==
  \A text \in Seq(Pieces) :
    /\ AfterComments[text] \in Seq(Pieces)
    /\ AfterComments[text] =
         IF text = <<>> \/ text[1] # "#" THEN text ELSE AfterComments[ReadLine(text)]
<1> DEFINE S == Seq(Pieces)
           F == [S -> S]
           rank == [t \in S |-> Len(t)]
           is(t, g) == IF t = <<>> \/ t[1] # "#" THEN t ELSE g[ReadLine(t)]
           step == [t \in S |-> [g \in F |-> is(t, g)]]
<1>0. \A t \in S, g \in F : is(t, g) \in S
  BY ReadLineIs
<1>1. step \in [S -> [F -> S]]
  <2> HIDE DEF S, is
  <2> QED BY <1>0
<1>2. ASSUME NEW t \in S, NEW g \in F, NEW h \in F, \A u \in S : rank[u] < rank[t] => g[u] = h[u]
      PROVE  is(t, g) = is(t, h)
  <2>1. t # <<>> => ReadLine(t) \in S /\ rank[ReadLine(t)] < rank[t]
    BY ReadLineIs
  <2>2. QED
    BY <1>2, <2>1, Zenon
<1>3. Defines(S, S, rank, step)
  <2>1. Local(S, S, rank, step)
    <3> HIDE DEF S, is, rank
    <3> QED BY <1>2 DEF Local
  <2>2. <<>> \in S /\ rank \in [S -> Nat]
    OBVIOUS
  <2> HIDE DEF S, step, rank
  <2> QED BY <1>1, <2>1, <2>2, Zenon DEF Defines
<1>4. PICK f \in F : \A t \in S : f[t] = step[t][f]
  <2> HIDE DEF S, step, rank
  <2>1. Defined(S, S, step)
    BY <1>3, Recursion, Zenon
  <2> QED BY <2>1, Zenon DEF Defined
<1> DEFINE Is(g) == g = [t \in S |-> is(t, g)]
<1>5. Is(f)
  <2> HIDE DEF S, is
  <2> QED BY <1>4, Zenon
<1>6. AfterComments = CHOOSE g : Is(g)
  BY Zenon DEF AfterComments
<1>7. Is(AfterComments)
  <2> HIDE DEF Is
  <2> QED BY <1>5, <1>6, Zenon
<1> DEFINE P == {t \in S : AfterComments[t] \in S}
<1>8. ASSUME NEW t \in S, \A u \in S : rank[u] < rank[t] => u \in P PROVE t \in P
  <2>1. AfterComments[t] = is(t, AfterComments)
    BY <1>7, Zenon
  <2>2. t # <<>> => ReadLine(t) \in S /\ rank[ReadLine(t)] < rank[t]
    BY ReadLineIs
  <2>3. t # <<>> => AfterComments[ReadLine(t)] \in S
    BY <1>8, <2>2
  <2>4. QED
    BY <2>1, <2>3
<1>9. S \subseteq P
  <2>1. rank \in [S -> Nat]
    OBVIOUS
  <2> HIDE DEF P, S, rank
  <2> QED BY <1>8, <2>1, Along, Zenon
<1>10. QED
  BY <1>7, <1>9, Zenon

\* What is left after the comments is no longer than the text.
LEMMA AfterCommentsLess ==
  \A text \in Seq(Pieces) : Len(AfterComments[text]) <= Len(text)
<1> DEFINE S == Seq(Pieces)
           rank == [t \in S |-> Len(t)]
           P == {t \in S : Len(AfterComments[t]) <= Len(t)}
<1>1. ASSUME NEW t \in S, \A u \in S : rank[u] < rank[t] => u \in P PROVE t \in P
  <2>1. CASE t = <<>> \/ t[1] # "#"
    <3>1. AfterComments[t] = t
      BY <2>1, AfterCommentsIs, Zenon
    <3>2. QED
      BY <3>1
  <2>2. CASE t # <<>> /\ t[1] = "#"
    <3>1. AfterComments[t] = AfterComments[ReadLine(t)]
      BY <2>2, AfterCommentsIs, Zenon
    <3>2. ReadLine(t) \in S /\ Len(ReadLine(t)) < Len(t)
      BY <2>2, ReadLineIs
    <3>3. Len(AfterComments[ReadLine(t)]) <= Len(ReadLine(t))
      BY <1>1, <3>2
    <3>4. AfterComments[t] \in S
      BY AfterCommentsIs
    <3>5. QED
      BY <3>1, <3>2, <3>3, <3>4
  <2>3. QED
    BY <2>1, <2>2, Zenon
<1>2. S \subseteq P
  <2>1. rank \in [S -> Nat]
    OBVIOUS
  <2> HIDE DEF P, S, rank
  <2> QED BY <1>1, <2>1, Along, Zenon
<1>3. QED
  BY <1>2

\* What Next leaves
Leftovers == [lexem : Lexems, rest : Seq(Pieces)]

\* The kind of the character after the comments, and what the turn makes of it
KindAt(s) ==
  LET rest == AfterComments[s.text]
  IN kindOf(s.kind, rest[1], IF Len(rest) > 1 THEN rest[2] ELSE nil)
Further(s) ==
  [kind |-> KindAt(s), value |-> s.value \o WriteRune(AfterComments[s.text][1]),
   text |-> Tail(AfterComments[s.text])]

\* A turn of the loop of Next ends it, or goes on with the rest of the text.
Turned(s, answer, more) ==
  LET rest == AfterComments[s.text] IN
  \/ rest = <<>> /\ s.kind = nil /\ answer = Leaves("comment", <<"NUL">>, <<>>)
  \/ rest = <<>> /\ s.kind # nil /\ answer = Leaves(s.kind, s.value, <<>>)
  \/ /\ rest # <<>> /\ (s.kind = nil => s.value # <<>>)
     /\ answer = Leaves(s.kind, s.value, rest)
  \/ Len(rest) = 1 /\ answer = Leaves(Further(s).kind, Further(s).value, <<>>)
  \/ rest # <<>> /\ Len(rest) # 1 /\ answer = more

\* The body of Scan, for any function in place of Scan
TurnOf(s, g) ==
  LET rest == AfterComments[s.text]
      next == IF Len(rest) > 1 THEN rest[2] ELSE nil
      kind == kindOf(s.kind, rest[1], next)
      value == s.value \o WriteRune(rest[1])
  IN CASE rest = <<>> /\ s.kind = nil -> Leaves("comment", <<"NUL">>, <<>>)
       [] rest = <<>> /\ s.kind # nil -> Leaves(s.kind, s.value, <<>>)
       [] rest # <<>> /\ (s.kind \notin {nil, kind} \/ (rest[1] \in Unique /\ s.value # <<>>)) ->
            Leaves(s.kind, s.value, rest)
       [] OTHER -> IF Len(rest) = 1 THEN Leaves(kind, value, <<>>)
                   ELSE g[[kind |-> kind, value |-> value, text |-> Tail(rest)]]

\* The body of Scan is a turn of the loop.
LEMMA TurnIs ==
  ASSUME NEW s \in Scans, NEW g
  PROVE  Turned(s, TurnOf(s, g), g[Further(s)])
<1> DEFINE rest == AfterComments[s.text]
           kind == KindAt(s)
           value == s.value \o WriteRune(rest[1])
           breaks == s.kind \notin {nil, kind} \/ (rest[1] \in Unique /\ s.value # <<>>)
           more == g[Further(s)]
<1>0. TurnOf(s, g) =
        CASE rest = <<>> /\ s.kind = nil -> Leaves("comment", <<"NUL">>, <<>>)
          [] rest = <<>> /\ s.kind # nil -> Leaves(s.kind, s.value, <<>>)
          [] rest # <<>> /\ breaks -> Leaves(s.kind, s.value, rest)
          [] OTHER -> IF Len(rest) = 1 THEN Leaves(kind, value, <<>>) ELSE more
  BY Zenon DEF TurnOf, KindAt, Further
<1>1. Further(s).kind = kind /\ Further(s).value = value
  BY DEF Further
<1>2. rest # <<>> /\ breaks /\ s.kind = nil => s.value # <<>>
  OBVIOUS
<1> HIDE DEF rest, kind, value, breaks, more
<1>3. CASE rest = <<>> /\ s.kind = nil
  BY <1>0, <1>3, Zenon DEF Turned, rest
<1>4. CASE rest = <<>> /\ s.kind # nil
  BY <1>0, <1>4, Zenon DEF Turned, rest
<1>5. CASE rest # <<>> /\ breaks
  BY <1>0, <1>2, <1>5, Zenon DEF Turned, rest
<1>6. CASE rest # <<>> /\ ~breaks
  <2>1. TurnOf(s, g) = IF Len(rest) = 1 THEN Leaves(kind, value, <<>>) ELSE more
    BY <1>0, <1>6, Zenon
  <2>2. QED
    BY <1>1, <1>6, <2>1, Zenon DEF Turned, rest, more
<1>7. QED
  BY <1>3, <1>4, <1>5, <1>6, Zenon

\* A turn goes on with less.
LEMMA TurnLess ==
  ASSUME NEW s \in Scans, AfterComments[s.text] # <<>>
  PROVE  /\ Further(s) \in Scans /\ Len(Further(s).text) < Len(s.text)
         /\ Further(s).kind # nil /\ Further(s).text = Tail(AfterComments[s.text])
         /\ Further(s).value = s.value \o WriteRune(AfterComments[s.text][1])
<1> DEFINE rest == AfterComments[s.text]
<1>1. s.text \in Seq(Pieces) /\ s.value \in Seq(Pieces)
  BY DEF Scans
<1>2. rest \in Seq(Pieces) /\ Len(rest) <= Len(s.text)
  BY <1>1, AfterCommentsIs, AfterCommentsLess
<1>3. KindAt(s) \in Kinds /\ KindAt(s) # nil
  <2>1. KindAt(s) \in Kinds
    BY KindIsOne, Zenon DEF KindAt
  <2>2. nil \notin Kinds
    BY DEF nil, Kinds
  <2>3. QED
    BY <2>1, <2>2
<1> HIDE DEF rest
<1>4. Further(s) = [kind |-> KindAt(s), value |-> s.value \o WriteRune(rest[1]), text |-> Tail(rest)]
  BY Zenon DEF Further, rest
<1>5. rest # <<>>
  BY DEF rest
<1>6. Tail(rest) \in Seq(Pieces) /\ Len(Tail(rest)) < Len(s.text) /\ rest[1] \in Pieces
  BY <1>1, <1>2, <1>5
<1>7. s.value \o WriteRune(rest[1]) \in Seq(Pieces)
  <2>1. \A p, q \in Seq(Pieces) : p \o q \in Seq(Pieces)
    OBVIOUS
  <2>2. QED
    BY <1>1, <1>6, <2>1, Written, Zenon
<1>8. QED
  BY <1>3, <1>4, <1>6, <1>7 DEF Scans, rest

\* What a turn gives is what Next may leave, if the turns after it do.
LEMMA TurnType ==
  ASSUME NEW s \in Scans, NEW answer, NEW more, Turned(s, answer, more),
         AfterComments[s.text] # <<>> => more \in Leftovers
  PROVE  answer \in Leftovers
<1> DEFINE rest == AfterComments[s.text]
<1>0. ASSUME NEW kind \in Kinds \union {nil}, NEW value \in Seq(Pieces), NEW left \in Seq(Pieces)
      PROVE  Leaves(kind, value, left) \in Leftovers
  <2>1. Lexem(kind, value) \in Lexems
    BY LexemIs, Zenon
  <2>2. QED
    BY <2>1 DEF Leaves, Leftovers
<1>1. /\ s.kind \in Kinds \union {nil} /\ s.value \in Seq(Pieces) /\ s.text \in Seq(Pieces)
      /\ "comment" \in Kinds \union {nil} /\ <<"NUL">> \in Seq(Pieces) /\ <<>> \in Seq(Pieces)
  BY TextsAssumption DEF Scans, Kinds
<1>2. rest \in Seq(Pieces)
  BY <1>1, AfterCommentsIs, Zenon
<1>3. rest # <<>> => Further(s).kind \in Kinds \union {nil} /\ Further(s).value \in Seq(Pieces)
  BY TurnLess DEF Scans
<1>4. Len(rest) = 1 => rest # <<>>
  <2> HIDE DEF rest
  <2> QED BY <1>2
<1>5. QED
  BY <1>0, <1>1, <1>2, <1>3, <1>4, Zenon DEF Turned

\* The loop of Next is what its definition says.
LEMMA ScanIs ==
  \A s \in Scans : Scan[s] \in Leftovers /\ Turned(s, Scan[s], Scan[Further(s)])
<1> DEFINE F == [Scans -> Leftovers]
           rank == [s \in Scans |-> Len(s.text)]
           step == [s \in Scans |-> [g \in F |-> TurnOf(s, g)]]
<1>a. rank \in [Scans -> Nat] /\ \A s \in Scans : rank[s] = Len(s.text)
  <2>1. \A s \in Scans : s.text \in Seq(Pieces)
    BY DEF Scans
  <2>2. \A s \in Scans : Len(s.text) \in Nat
    BY <2>1
  <2>3. QED
    BY <2>2
<1>0. ASSUME NEW s \in Scans, NEW g \in F PROVE TurnOf(s, g) \in Leftovers
  <2>1. Turned(s, TurnOf(s, g), g[Further(s)])
    BY TurnIs, Zenon
  <2>2. AfterComments[s.text] # <<>> => g[Further(s)] \in Leftovers
    BY TurnLess
  <2>3. QED
    BY <2>1, <2>2, TurnType, Zenon
<1>1. step \in [Scans -> [F -> Leftovers]]
  BY <1>0
<1>2. ASSUME NEW s \in Scans, NEW g \in F, NEW h \in F,
             \A u \in Scans : rank[u] < rank[s] => g[u] = h[u]
      PROVE  TurnOf(s, g) = TurnOf(s, h)
  <2>1. AfterComments[s.text] # <<>> => Further(s) \in Scans /\ rank[Further(s)] < rank[s]
    BY <1>a, TurnLess
  <2>2. AfterComments[s.text] # <<>> => g[Further(s)] = h[Further(s)]
    BY <1>2, <2>1, Zenon
  <2>3. QED
    BY <2>2, Zenon DEF TurnOf, Further, KindAt
<1>3. Defines(Scans, Leftovers, rank, step)
  <2> HIDE DEF rank
  <2>1. Local(Scans, Leftovers, rank, step)
    BY <1>2 DEF Local
  <2>2. Leftovers # {}
    <3>1. "comment" \in Kinds \union {nil} /\ <<>> \in Seq(Pieces)
      BY DEF Kinds
    <3>2. [lexem |-> [k |-> "comment", v |-> <<>>], rest |-> <<>>] \in Leftovers
      BY <3>1 DEF Leftovers, Lexems
    <3>3. QED
      BY <3>2, Zenon
  <2> HIDE DEF step
  <2> QED BY <1>a, <1>1, <2>1, <2>2, Zenon DEF Defines
<1>4. PICK f \in F : \A s \in Scans : f[s] = step[s][f]
  <2> HIDE DEF step, rank
  <2>1. Defined(Scans, Leftovers, step)
    BY <1>3, Recursion, Zenon
  <2> QED BY <2>1, Zenon DEF Defined
<1> DEFINE Is(g) == g = [s \in Scans |-> TurnOf(s, g)]
<1>5. Is(f)
  BY <1>4, Zenon
<1>6. Scan = CHOOSE g : Is(g)
  BY Zenon DEF Scan, TurnOf
<1>7. Is(Scan)
  <2> HIDE DEF Is
  <2> QED BY <1>5, <1>6, Zenon
<1>8. ASSUME NEW s \in Scans PROVE Turned(s, Scan[s], Scan[Further(s)])
  <2>1. Scan[s] = TurnOf(s, Scan)
    BY <1>7, Zenon
  <2>2. QED
    BY <2>1, TurnIs, Zenon
<1> DEFINE P == {s \in Scans : Scan[s] \in Leftovers}
<1>9. ASSUME NEW s \in Scans, \A u \in Scans : rank[u] < rank[s] => u \in P PROVE s \in P
  <2>1. AfterComments[s.text] # <<>> => Further(s) \in Scans /\ rank[Further(s)] < rank[s]
    BY <1>a, TurnLess
  <2>2. AfterComments[s.text] # <<>> => Scan[Further(s)] \in Leftovers
    BY <1>9, <2>1, Zenon
  <2>3. QED
    BY <1>8, <2>2, TurnType, Zenon
<1>10. Scans \subseteq P
  <2> HIDE DEF P, rank
  <2> QED BY <1>a, <1>9, Along, Zenon
<1>11. QED
  BY <1>8, <1>10, Zenon

\* The text without its comments is what its definition says.
LEMMA UncommentedIs ==
  \A text \in Seq(Pieces) :
    /\ Uncommented[text] \in [BOOLEAN -> Seq(Pieces)]
    /\ \A inside \in BOOLEAN :
         Uncommented[text][inside] =
           IF text = <<>> THEN <<>>
           ELSE IF inside \/ text[1] = "#" THEN Uncommented[Tail(text)][text[1] # "\n"]
           ELSE WriteRune(text[1]) \o Uncommented[Tail(text)][FALSE]
<1> DEFINE S == Seq(Pieces)
           T == [BOOLEAN -> S]
           F == [S -> T]
           rank == [t \in S |-> Len(t)]
           at(t, inside, g) == IF t = <<>> THEN <<>>
                               ELSE IF inside \/ t[1] = "#" THEN g[Tail(t)][t[1] # "\n"]
                               ELSE WriteRune(t[1]) \o g[Tail(t)][FALSE]
           is(t, g) == [inside \in BOOLEAN |-> at(t, inside, g)]
           step == [t \in S |-> [g \in F |-> is(t, g)]]
<1>a. ASSUME NEW t \in S, t # <<>> PROVE Tail(t) \in S /\ rank[Tail(t)] < rank[t] /\ WriteRune(t[1]) \in S
  <2>1. Tail(t) \in S /\ rank[Tail(t)] < rank[t] /\ t[1] \in Pieces
    BY <1>a
  <2>2. QED
    BY <2>1, Written, Zenon
<1>b. ASSUME NEW t \in S, NEW inside \in BOOLEAN, NEW g, t # <<>> => g[Tail(t)] \in T
      PROVE  at(t, inside, g) \in S
  <2>1. CASE t = <<>>
    BY <2>1
  <2>2. CASE t # <<>>
    <3>1. (t[1] # "\n") \in BOOLEAN /\ FALSE \in BOOLEAN
      BY Zenon
    <3>2. g[Tail(t)][t[1] # "\n"] \in S /\ g[Tail(t)][FALSE] \in S
      <4> HIDE DEF S
      <4> QED BY <1>b, <2>2, <3>1, Zenon
    <3>3. WriteRune(t[1]) \o g[Tail(t)][FALSE] \in S
      <4>1. \A p, q \in S : p \o q \in S
        OBVIOUS
      <4> HIDE DEF S
      <4>2. QED
        BY <1>a, <2>2, <3>2, <4>1, Zenon
    <3>4. QED
      BY <2>2, <3>2, <3>3, Zenon
  <2>3. QED
    BY <2>1, <2>2
<1>0. \A t \in S, g \in F : is(t, g) \in T
  <2>1. ASSUME NEW t \in S, NEW g \in F, NEW inside \in BOOLEAN PROVE at(t, inside, g) \in S
    <3>1. t # <<>> => g[Tail(t)] \in T
      <4> HIDE DEF T
      <4> QED BY <1>a
    <3>2. QED
      BY <1>b, <3>1, Zenon
  <2> HIDE DEF at, S
  <2> QED BY <2>1
<1>1. step \in [S -> [F -> T]]
  <2> HIDE DEF S, T, is
  <2> QED BY <1>0
<1>2. ASSUME NEW t \in S, NEW g \in F, NEW h \in F, \A u \in S : rank[u] < rank[t] => g[u] = h[u]
      PROVE  is(t, g) = is(t, h)
  <2>1. t # <<>> => g[Tail(t)] = h[Tail(t)]
    <3> HIDE DEF rank
    <3> QED BY <1>a, <1>2, Zenon
  <2>2. QED
    BY <2>1, Zenon
<1>3. Defines(S, T, rank, step)
  <2>1. Local(S, T, rank, step)
    <3> HIDE DEF S, T, is, rank
    <3> QED BY <1>2 DEF Local
  <2>2. [inside \in BOOLEAN |-> <<>>] \in T /\ rank \in [S -> Nat]
    OBVIOUS
  <2> HIDE DEF S, T, step, rank
  <2> QED BY <1>1, <2>1, <2>2, Zenon DEF Defines
<1>4. PICK f \in F : \A t \in S : f[t] = step[t][f]
  <2> HIDE DEF S, T, step, rank
  <2>1. Defined(S, T, step)
    BY <1>3, Recursion, Zenon
  <2> QED BY <2>1, Zenon DEF Defined
<1> DEFINE Is(g) == g = [t \in S |-> is(t, g)]
<1>5. Is(f)
  <2> HIDE DEF S, T, is
  <2> QED BY <1>4, Zenon
<1>6. Uncommented = CHOOSE g : Is(g)
  BY Zenon DEF Uncommented
<1>7. Is(Uncommented)
  <2> HIDE DEF Is
  <2> QED BY <1>5, <1>6, Zenon
<1> DEFINE P == {t \in S : Uncommented[t] \in T}
<1>8. ASSUME NEW t \in S, \A u \in S : rank[u] < rank[t] => u \in P PROVE t \in P
  <2>1. Uncommented[t] = is(t, Uncommented)
    BY <1>7, Zenon
  <2>2. t # <<>> => Uncommented[Tail(t)] \in T
    <3> HIDE DEF S, T, rank
    <3> QED BY <1>a, <1>8, Zenon
  <2>3. \A inside \in BOOLEAN : at(t, inside, Uncommented) \in S
    <3> HIDE DEF at, S, T
    <3> QED BY <1>b, <2>2, Zenon
  <2>4. Uncommented[t] \in T
    <3> HIDE DEF at, S
    <3> QED BY <2>1, <2>3
  <2>5. QED
    BY <2>4, Zenon
<1>9. S \subseteq P
  <2>1. rank \in [S -> Nat]
    OBVIOUS
  <2> HIDE DEF P, S, rank
  <2> QED BY <1>8, <2>1, Along, Zenon
<1>10. \A t \in S : Uncommented[t] = is(t, Uncommented)
  <2> HIDE DEF S, is
  <2> QED BY <1>7, Zenon
<1>11. \A t \in S, inside \in BOOLEAN : Uncommented[t][inside] = at(t, inside, Uncommented)
  <2> HIDE DEF S, at
  <2> QED BY <1>10
<1>12. \A t \in S : Uncommented[t] \in T
  <2> HIDE DEF S, T
  <2> QED BY <1>9, Zenon
<1>13. QED
  BY <1>11, <1>12, Zenon

\* What is written in a text, from its beginning and from inside of a comment
Kept(text) == Uncommented[text][FALSE]
Commented(text) == Uncommented[text][TRUE]

\* A comment lasts from its sign to the end of the line.
LEMMA KeptIs ==
  ASSUME NEW text \in Seq(Pieces)
  PROVE  /\ Kept(text) \in Seq(Pieces) /\ Commented(text) \in Seq(Pieces)
         /\ text = <<>> => Kept(text) = <<>> /\ Commented(text) = <<>>
         /\ text # <<>> /\ text[1] = "#" => Kept(text) = Commented(Tail(text))
         /\ text # <<>> /\ text[1] # "#" => Kept(text) = WriteRune(text[1]) \o Kept(Tail(text))
         /\ text # <<>> /\ text[1] = "\n" => Commented(text) = Kept(Tail(text))
         /\ text # <<>> /\ text[1] # "\n" => Commented(text) = Commented(Tail(text))
<1>1. TRUE \in BOOLEAN /\ FALSE \in BOOLEAN
  BY Zenon
<1>2. Uncommented[text] \in [BOOLEAN -> Seq(Pieces)]
  BY UncommentedIs, Zenon
<1>3. Uncommented[text][FALSE] \in Seq(Pieces) /\ Uncommented[text][TRUE] \in Seq(Pieces)
  BY <1>1, <1>2, Zenon
<1>4. Uncommented[text][FALSE] =
        IF text = <<>> THEN <<>>
        ELSE IF FALSE \/ text[1] = "#" THEN Uncommented[Tail(text)][text[1] # "\n"]
        ELSE WriteRune(text[1]) \o Uncommented[Tail(text)][FALSE]
  BY <1>1, UncommentedIs, Zenon
<1>5. Uncommented[text][TRUE] =
        IF text = <<>> THEN <<>>
        ELSE IF TRUE \/ text[1] = "#" THEN Uncommented[Tail(text)][text[1] # "\n"]
        ELSE WriteRune(text[1]) \o Uncommented[Tail(text)][FALSE]
  BY <1>1, UncommentedIs, Zenon
<1>6. /\ text[1] = "#" => (text[1] # "\n") = TRUE
      /\ text[1] = "\n" => (text[1] # "\n") = FALSE
      /\ text[1] # "\n" => (text[1] # "\n") = TRUE
  OBVIOUS
<1>7. QED
  BY <1>3, <1>4, <1>5, <1>6, Zenon DEF Kept, Commented

\* What ReadLine leaves of a text, in terms of the text after its first piece.
LEMMA ReadLineTurn ==
  ASSUME NEW text \in Seq(Pieces)
  PROVE  /\ text = <<>> => ReadLine(text) = <<>>
         /\ text # <<>> /\ text[1] = "\n" => ReadLine(text) = Tail(text)
         /\ text # <<>> /\ text[1] # "\n" => ReadLine(text) = ReadLine(Tail(text))
<1>1. CASE text = <<>>
  BY <1>1 DEF ReadLine
<1>2. CASE text # <<>> /\ text[1] = "\n"
  <2>1. 1 \in DOMAIN text
    BY <1>2
  <2>2. FirstLine(text) = 1
    <3>1. /\ FirstLine(text) \in 1..Len(text) /\ \A j \in 1..(FirstLine(text) - 1) : text[j] # "\n"
      BY <1>2, <2>1, FirstLineIs
    <3>2. QED
      BY <1>2, <3>1
  <2>3. ReadLine(text) = SubSeq(text, 2, Len(text))
    BY <1>2, <2>1, <2>2 DEF ReadLine
  <2>4. QED
    BY <1>2, <2>3
<1>3. CASE text # <<>> /\ text[1] # "\n"
  <2> DEFINE tail == Tail(text)
  <2>1. /\ tail \in Seq(Pieces) /\ Len(tail) = Len(text) - 1 /\ Len(text) \in Nat
        /\ \A i \in 1..Len(tail) : tail[i] = text[i + 1]
    BY <1>3
  <2>2. CASE ~\E i \in DOMAIN text : text[i] = "\n"
    <3>1. ~\E i \in DOMAIN tail : tail[i] = "\n"
      <4> HIDE DEF tail
      <4> QED BY <2>1, <2>2
    <3>2. QED
      BY <2>2, <3>1 DEF ReadLine
  <2>3. CASE \E i \in DOMAIN text : text[i] = "\n"
    <3> DEFINE at == FirstLine(text)
               there == FirstLine(tail)
    <3>1. at \in 1..Len(text) /\ text[at] = "\n" /\ \A j \in 1..(at - 1) : text[j] # "\n"
      BY <2>3, FirstLineIs
    <3>2. at # 1 /\ at - 1 \in 1..Len(tail) /\ tail[at - 1] = "\n"
      <4> HIDE DEF tail, at
      <4> QED BY <1>3, <2>1, <3>1
    <3>3. \E i \in DOMAIN tail : tail[i] = "\n"
      <4> HIDE DEF tail, at
      <4> QED BY <2>1, <3>2
    <3>4. there \in 1..Len(tail) /\ tail[there] = "\n" /\ \A j \in 1..(there - 1) : tail[j] # "\n"
      <4> HIDE DEF tail
      <4> QED BY <2>1, <3>3, FirstLineIs
    <3>5. there = at - 1
      <4> HIDE DEF tail, at, there
      <4>1. ~(at - 1 < there)
        BY <3>1, <3>2, <3>4, <2>1
      <4>2. ~(there + 1 < at)
        BY <3>1, <3>4, <2>1
      <4>3. QED
        BY <3>1, <3>2, <3>4, <4>1, <4>2, <2>1
    <3>6. ReadLine(text) = SubSeq(text, at + 1, Len(text))
      BY <2>3 DEF ReadLine
    <3>7. ReadLine(tail) = SubSeq(tail, there + 1, Len(tail))
      <4> HIDE DEF tail
      <4> QED BY <3>3 DEF ReadLine
    <3>8. SubSeq(text, at + 1, Len(text)) = SubSeq(tail, at, Len(tail))
      <4> HIDE DEF tail, at
      <4> QED BY <2>1, <3>1, <3>2
    <3>9. QED
      <4> HIDE DEF tail, at, there
      <4>1. there + 1 = at
        BY <3>1, <3>5
      <4>2. ReadLine(text) = ReadLine(tail)
        BY <3>6, <3>7, <3>8, <4>1
      <4>3. QED
        BY <1>3, <4>2, Zenon DEF tail
  <2>4. QED
    BY <2>2, <2>3
<1>4. QED
  BY <1>1, <1>2, <1>3

\* From inside of a comment, what is written is what is after the line.
LEMMA CommentSkipped ==
  \A text \in Seq(Pieces) : Commented(text) = Kept(ReadLine(text))
<1> DEFINE S == Seq(Pieces)
           rank == [t \in S |-> Len(t)]
           P == {t \in S : Commented(t) = Kept(ReadLine(t))}
<1>1. ASSUME NEW t \in S, \A u \in S : rank[u] < rank[t] => u \in P PROVE t \in P
  <2>1. CASE t = <<>>
    BY <2>1, KeptIs, ReadLineTurn, Zenon
  <2>2. CASE t # <<>> /\ t[1] = "\n"
    BY <2>2, KeptIs, ReadLineTurn, Zenon
  <2>3. CASE t # <<>> /\ t[1] # "\n"
    <3>1. Tail(t) \in S /\ rank[Tail(t)] < rank[t]
      BY <2>3
    <3>2. Tail(t) \in P
      <4> HIDE DEF P, S, rank
      <4> QED BY <1>1, <3>1, Zenon
    <3>3. Commented(Tail(t)) = Kept(ReadLine(Tail(t)))
      BY <3>2, Zenon
    <3>4. Commented(t) = Commented(Tail(t)) /\ ReadLine(t) = ReadLine(Tail(t))
      BY <2>3, KeptIs, ReadLineTurn, Zenon
    <3>5. QED
      BY <3>3, <3>4, Zenon
  <2>4. QED
    BY <2>1, <2>2, <2>3, Zenon
<1>2. S \subseteq P
  <2>1. rank \in [S -> Nat]
    OBVIOUS
  <2> HIDE DEF P, S, rank
  <2> QED BY <1>1, <2>1, Along, Zenon
<1>3. QED
  BY <1>2, Zenon

\* The text after the comments at its beginning has what the text has written,
\* and begins with no comment.
LEMMA CommentsSkipped ==
  \A text \in Seq(Pieces) :
    /\ Kept(AfterComments[text]) = Kept(text)
    /\ AfterComments[text] = <<>> \/ AfterComments[text][1] # "#"
<1> DEFINE S == Seq(Pieces)
           rank == [t \in S |-> Len(t)]
           P == {t \in S : /\ Kept(AfterComments[t]) = Kept(t)
                           /\ AfterComments[t] = <<>> \/ AfterComments[t][1] # "#"}
<1>1. ASSUME NEW t \in S, \A u \in S : rank[u] < rank[t] => u \in P PROVE t \in P
  <2>1. CASE t = <<>> \/ t[1] # "#"
    <3>1. AfterComments[t] = t
      BY <2>1, AfterCommentsIs, Zenon
    <3>2. QED
      BY <2>1, <3>1, Zenon
  <2>2. CASE t # <<>> /\ t[1] = "#"
    <3>1. AfterComments[t] = AfterComments[ReadLine(t)]
      BY <2>2, AfterCommentsIs, Zenon
    <3>2. ReadLine(t) \in S /\ rank[ReadLine(t)] < rank[t]
      BY <2>2, ReadLineIs
    <3>3. ReadLine(t) \in P
      <4> HIDE DEF P, S, rank
      <4> QED BY <1>1, <3>2, Zenon
    <3>4. ReadLine(t) = ReadLine(Tail(t)) /\ Tail(t) \in S
      <4>1. t[1] # "\n"
        BY <2>2
      <4>2. Tail(t) \in S
        BY <2>2, SMTT(20)
      <4>3. QED
        BY <2>2, <4>1, <4>2, ReadLineTurn, Zenon
    <3>5. Kept(t) = Kept(ReadLine(t))
      BY <2>2, <3>4, KeptIs, CommentSkipped, Zenon
    <3>6. QED
      BY <3>1, <3>3, <3>5, Zenon
  <2>3. QED
    BY <2>1, <2>2, Zenon
<1>2. S \subseteq P
  <2>1. rank \in [S -> Nat]
    OBVIOUS
  <2> HIDE DEF P, S, rank
  <2> QED BY <1>1, <2>1, Along, Zenon
<1>3. QED
  BY <1>2, Zenon

\* The loop of Next keeps what it has and what is written: the lexem and what
\* is left have it, or the lexem is the zero character of a comment at the end.
Keeps(s, r) ==
  \/ r.lexem.v \o Kept(r.rest) = s.value \o Kept(s.text)
  \/ s.kind = nil /\ r.rest = <<>> /\ r.lexem.v = <<"NUL">> /\ Kept(s.text) = <<>>

\* It leaves no more than it was given, and less where it begins a lexem.
Shrinks(s, r) ==
  /\ Len(r.rest) <= Len(s.text)
  /\ s.kind = nil /\ s.value = <<>> /\ s.text # <<>> => Len(r.rest) < Len(s.text)

\* Sequences of pieces
LEMMA Pasted ==
  /\ \A p, q \in Seq(Pieces) : p \o q \in Seq(Pieces)
  /\ \A p, q, r \in Seq(Pieces) : p \o (q \o r) = (p \o q) \o r
  /\ \A p \in Seq(Pieces) : p \o <<>> = p /\ <<>> \o p = p
<1>1. \A p, q \in Seq(Pieces) : p \o q \in Seq(Pieces)
  OBVIOUS
<1>2. \A p, q, r \in Seq(Pieces) : p \o (q \o r) = (p \o q) \o r
  BY SMTT(20)
<1>3. \A p \in Seq(Pieces) : p \o <<>> = p /\ <<>> \o p = p
  OBVIOUS
<1>4. QED
  BY <1>1, <1>2, <1>3, Zenon

\* A turn of the loop keeps what is written when the turns after it do.
LEMMA TurnKeeps ==
  ASSUME NEW s \in Scans, NEW r, NEW more \in Leftovers, Turned(s, r, more),
         AfterComments[s.text] # <<>> => Keeps(Further(s), more) /\ Shrinks(Further(s), more)
  PROVE  Keeps(s, r) /\ Shrinks(s, r)
<1> DEFINE rest == AfterComments[s.text]
<1>1. /\ s.kind \in Kinds \union {nil} /\ s.value \in Seq(Pieces) /\ s.text \in Seq(Pieces)
      /\ "comment" \in Kinds \union {nil} /\ <<"NUL">> \in Seq(Pieces) /\ <<>> \in Seq(Pieces)
  BY TextsAssumption DEF Scans, Kinds
<1>2. rest \in Seq(Pieces) /\ Len(rest) <= Len(s.text) /\ Kept(rest) = Kept(s.text)
  BY <1>1, AfterCommentsIs, AfterCommentsLess, CommentsSkipped, Zenon
<1>3. Kept(<<>>) = <<>> /\ Kept(s.text) \in Seq(Pieces)
  BY <1>1, KeptIs, Zenon
<1>4. ASSUME NEW kind \in Kinds \union {nil}, NEW value \in Seq(Pieces), NEW left,
             r = Leaves(kind, value, left)
      PROVE  r.lexem.v = value /\ r.rest = left
  <2>1. Lexem(kind, value).v = value
    BY LexemIs, Zenon
  <2>2. QED
    BY <1>4, <2>1 DEF Leaves
<1>5. /\ Len(s.text) \in Nat /\ Len(rest) \in Nat
      /\ s.text # <<>> => 0 < Len(s.text)
      /\ rest # <<>> => Tail(rest) \in Seq(Pieces) /\ Len(Tail(rest)) = Len(rest) - 1 /\ rest[1] \in Pieces
      /\ Len(rest) = 1 => rest # <<>> /\ Tail(rest) = <<>>
  <2>1. \A q \in Seq(Pieces) :
          /\ Len(q) \in Nat /\ (Len(q) = 1 => q # <<>>)
          /\ q # <<>> => /\ Tail(q) \in Seq(Pieces) /\ Len(Tail(q)) = Len(q) - 1
                         /\ q[1] \in Pieces /\ 0 < Len(q)
    OBVIOUS
  <2>2. \A q \in Seq(Pieces) : Len(q) = 0 => q = <<>>
    OBVIOUS
  <2> HIDE DEF rest
  <2>3. Len(rest) = 1 => Tail(rest) \in Seq(Pieces) /\ Len(Tail(rest)) = 0
    BY <1>2, <2>1
  <2>4. QED
    BY <1>1, <1>2, <2>1, <2>2, <2>3, Zenon
<1>6. ASSUME rest # <<>>
      PROVE  /\ Kept(s.text) = WriteRune(rest[1]) \o Kept(Tail(rest)) /\ Kept(Tail(rest)) \in Seq(Pieces)
             /\ Further(s).value \in Seq(Pieces) /\ Further(s).kind \in Kinds /\ Further(s).kind # nil
             /\ Further(s).text = Tail(rest)
             /\ Further(s).value \o Kept(Tail(rest)) = s.value \o Kept(s.text)
  <2>1. rest[1] # "#"
    BY <1>1, <1>6, CommentsSkipped, Zenon
  <2>2. Kept(s.text) = WriteRune(rest[1]) \o Kept(Tail(rest)) /\ Kept(Tail(rest)) \in Seq(Pieces)
    <3> HIDE DEF rest
    <3> QED BY <1>2, <1>5, <1>6, <2>1, KeptIs, Zenon
  <2>3. /\ Further(s) \in Scans /\ Further(s).kind # nil /\ Further(s).text = Tail(rest)
        /\ Further(s).value = s.value \o WriteRune(rest[1])
    BY <1>6, TurnLess, Zenon
  <2>4. Further(s).value \in Seq(Pieces) /\ Further(s).kind \in Kinds
    BY <2>3 DEF Scans
  <2>5. WriteRune(rest[1]) \in Seq(Pieces)
    BY <1>5, <1>6, Written, Zenon
  <2>6. (s.value \o WriteRune(rest[1])) \o Kept(Tail(rest)) = s.value \o (WriteRune(rest[1]) \o Kept(Tail(rest)))
    <3>1. \A p, q, u \in Seq(Pieces) : (p \o q) \o u = p \o (q \o u)
      BY SMTT(20)
    <3>2. /\ s.value \in Seq(Pieces) /\ WriteRune(rest[1]) \in Seq(Pieces)
          /\ Kept(Tail(rest)) \in Seq(Pieces)
      BY <1>1, <2>2, <2>5, Zenon
    <3> DEFINE p == s.value
               q == WriteRune(rest[1])
               u == Kept(Tail(rest))
    <3> HIDE DEF p, q, u
    <3>3. (p \o q) \o u = p \o (q \o u)
      BY <3>1, <3>2, Zenon DEF p, q, u
    <3>4. QED
      BY <3>3, Zenon DEF p, q, u
  <2>7. QED
    BY <2>2, <2>3, <2>4, <2>5, <2>6, Zenon
<1>7. CASE rest = <<>> /\ s.kind = nil /\ r = Leaves("comment", <<"NUL">>, <<>>)
  <2>1. r.lexem.v = <<"NUL">> /\ r.rest = <<>>
    BY <1>1, <1>4, <1>7, Zenon
  <2>2. Keeps(s, r)
    BY <1>2, <1>3, <1>7, <2>1, Zenon DEF Keeps
  <2>3. Shrinks(s, r)
    <3> HIDE DEF rest
    <3> QED BY <1>5, <2>1, SMTT(20) DEF Shrinks
  <2>4. QED
    BY <2>2, <2>3
<1>8. CASE rest = <<>> /\ s.kind # nil /\ r = Leaves(s.kind, s.value, <<>>)
  <2>1. r.lexem.v = s.value /\ r.rest = <<>>
    BY <1>1, <1>4, <1>8, Zenon
  <2>2. Keeps(s, r)
    BY <1>2, <1>3, <1>8, <2>1, Zenon DEF Keeps
  <2>3. Shrinks(s, r)
    <3> HIDE DEF rest
    <3> QED BY <1>5, <1>8, <2>1, SMTT(20) DEF Shrinks
  <2>4. QED
    BY <2>2, <2>3
<1>9. CASE rest # <<>> /\ (s.kind = nil => s.value # <<>>) /\ r = Leaves(s.kind, s.value, rest)
  <2>1. r.lexem.v = s.value /\ r.rest = rest
    BY <1>1, <1>4, <1>9, Zenon
  <2>2. Keeps(s, r)
    BY <1>2, <2>1, Zenon DEF Keeps
  <2>3. Shrinks(s, r)
    <3> HIDE DEF rest
    <3> QED BY <1>2, <1>9, <2>1, SMTT(20) DEF Shrinks
  <2>4. QED
    BY <2>2, <2>3
<1>10. CASE Len(rest) = 1 /\ r = Leaves(Further(s).kind, Further(s).value, <<>>)
  <2>0. rest # <<>> /\ Tail(rest) = <<>>
    BY <1>5, <1>10, Zenon
  <2>1. r.lexem.v = Further(s).value /\ r.rest = <<>>
    BY <1>4, <1>6, <1>10, <2>0, Zenon
  <2>2. Keeps(s, r)
    BY <1>6, <2>0, <2>1, Zenon DEF Keeps
  <2>3. Shrinks(s, r)
    <3> HIDE DEF rest
    <3> QED BY <1>5, <2>1 DEF Shrinks
  <2>4. QED
    BY <2>2, <2>3
<1>11. CASE rest # <<>> /\ Len(rest) # 1 /\ r = more
  <2>1. Keeps(s, r)
    BY <1>6, <1>11, Zenon DEF Keeps
  <2>2. Len(more.rest) <= Len(Tail(rest)) /\ Len(more.rest) \in Nat
    <3>1. Len(more.rest) \in Nat
      <4>1. more.rest \in Seq(Pieces)
        BY DEF Leftovers
      <4>2. QED
        BY <4>1
    <3>2. QED
      BY <1>6, <1>11, <3>1, Zenon DEF Shrinks
  <2>3. Shrinks(s, r)
    <3> HIDE DEF rest
    <3> QED BY <1>2, <1>5, <1>11, <2>2, SMTT(20) DEF Shrinks
  <2>4. QED
    BY <2>1, <2>3
<1>12. QED
  BY <1>7, <1>8, <1>9, <1>10, <1>11, Zenon DEF Turned

\* The loop of Next keeps what is written, and ends.
LEMMA ScanKeeps ==
  \A s \in Scans : Keeps(s, Scan[s]) /\ Shrinks(s, Scan[s])
<1> DEFINE rank == [s \in Scans |-> Len(s.text)]
           P == {s \in Scans : Keeps(s, Scan[s]) /\ Shrinks(s, Scan[s])}
<1>a. rank \in [Scans -> Nat] /\ \A s \in Scans : rank[s] = Len(s.text)
  <2>1. \A s \in Scans : s.text \in Seq(Pieces)
    BY DEF Scans
  <2>2. \A s \in Scans : Len(s.text) \in Nat
    BY <2>1
  <2>3. QED
    BY <2>2
<1>1. ASSUME NEW s \in Scans, \A u \in Scans : rank[u] < rank[s] => u \in P PROVE s \in P
  <2>1. AfterComments[s.text] # <<>> => Further(s) \in Scans /\ rank[Further(s)] < rank[s]
    BY <1>a, TurnLess
  <2>2. CASE AfterComments[s.text] # <<>>
    <3>1. Further(s) \in P /\ Scan[Further(s)] \in Leftovers
      BY <1>1, <2>1, <2>2, ScanIs, Zenon
    <3>2. Keeps(s, Scan[s]) /\ Shrinks(s, Scan[s])
      BY <3>1, ScanIs, TurnKeeps, Zenon
    <3>3. QED
      BY <3>2, Zenon
  <2>3. CASE AfterComments[s.text] = <<>>
    <3>1. Turned(s, Scan[s], Scan[s])
      <4>1. Turned(s, Scan[s], Scan[Further(s)])
        BY ScanIs, Zenon
      <4>2. QED
        BY <2>3, <4>1, Zenon DEF Turned
    <3>2. Scan[s] \in Leftovers
      BY ScanIs, Zenon
    <3>3. Keeps(s, Scan[s]) /\ Shrinks(s, Scan[s])
      BY <2>3, <3>1, <3>2, TurnKeeps, Zenon
    <3>4. QED
      BY <3>3, Zenon
  <2>4. QED
    BY <2>2, <2>3, Zenon
<1>2. Scans \subseteq P
  <2> HIDE DEF P, rank
  <2> QED BY <1>a, <1>1, Along, Zenon
<1>3. QED
  BY <1>2, Zenon

\* Next leaves less than the text.
LEMMA NextLess ==
  ASSUME NEW text \in Seq(Pieces), text # <<>>
  PROVE  /\ NextLexem(text) \in Leftovers /\ Len(NextLexem(text).rest) < Len(text)
         /\ \/ NextLexem(text).lexem.v \o Kept(NextLexem(text).rest) = Kept(text)
            \/ /\ NextLexem(text).rest = <<>> /\ NextLexem(text).lexem.v = <<"NUL">>
               /\ Kept(text) = <<>>
<1> DEFINE s == [kind |-> nil, value |-> <<>>, text |-> text]
<1>1. s \in Scans /\ s.kind = nil /\ s.value = <<>> /\ s.text = text
  BY DEF Scans
<1>2. NextLexem(text) = Scan[s]
  BY Zenon DEF NextLexem
<1>3. <<>> \o Kept(text) = Kept(text)
  BY KeptIs, Pasted, Zenon
<1> HIDE DEF s
<1>4. Scan[s] \in Leftovers /\ Keeps(s, Scan[s]) /\ Shrinks(s, Scan[s])
  BY <1>1, ScanIs, ScanKeeps, Zenon
<1>5. Len(Scan[s].rest) < Len(text)
  BY <1>1, <1>4, Zenon DEF Shrinks
<1>6. \/ Scan[s].lexem.v \o Kept(Scan[s].rest) = Kept(text)
      \/ Scan[s].rest = <<>> /\ Scan[s].lexem.v = <<"NUL">> /\ Kept(text) = <<>>
  BY <1>1, <1>3, <1>4, Zenon DEF Keeps
<1>7. QED
  BY <1>2, <1>4, <1>5, <1>6, Zenon

\* The lexems of a text are what the definition says.
LEMMA LexIs ==
  \A text \in Seq(Pieces) :
    /\ Lex[text] \in Seq(Lexems)
    /\ Lex[text] = IF text = <<>> THEN <<>>
                   ELSE <<NextLexem(text).lexem>> \o Lex[NextLexem(text).rest]
<1> DEFINE S == Seq(Pieces)
           T == Seq(Lexems)
           F == [S -> T]
           rank == [t \in S |-> Len(t)]
           is(t, g) == IF t = <<>> THEN <<>> ELSE <<NextLexem(t).lexem>> \o g[NextLexem(t).rest]
           step == [t \in S |-> [g \in F |-> is(t, g)]]
<1>a. ASSUME NEW t \in S, t # <<>>
      PROVE  /\ NextLexem(t).rest \in S /\ rank[NextLexem(t).rest] < rank[t]
             /\ <<NextLexem(t).lexem>> \in T
  <2>1. NextLexem(t) \in Leftovers /\ Len(NextLexem(t).rest) < Len(t)
    BY <1>a, NextLess, Zenon
  <2>2. NextLexem(t).rest \in S /\ NextLexem(t).lexem \in Lexems
    BY <2>1 DEF Leftovers
  <2>3. QED
    BY <2>1, <2>2
<1>b. <<>> \in T /\ \A p, q \in T : p \o q \in T
  OBVIOUS
<1>0. \A t \in S, g \in F : is(t, g) \in T
  <2> HIDE DEF S, T, rank
  <2> QED BY <1>a, <1>b, SMTT(20)
<1>1. step \in [S -> [F -> T]]
  <2> HIDE DEF S, T, is
  <2> QED BY <1>0
<1>2. ASSUME NEW t \in S, NEW g \in F, NEW h \in F, \A u \in S : rank[u] < rank[t] => g[u] = h[u]
      PROVE  is(t, g) = is(t, h)
  <2> HIDE DEF rank
  <2> QED BY <1>a, <1>2, Zenon
<1>3. Defines(S, T, rank, step)
  <2>1. Local(S, T, rank, step)
    <3> HIDE DEF S, T, is, rank
    <3> QED BY <1>2 DEF Local
  <2>2. rank \in [S -> Nat]
    OBVIOUS
  <2> HIDE DEF S, T, step, rank
  <2> QED BY <1>1, <1>b, <2>1, <2>2, Zenon DEF Defines
<1>4. PICK f \in F : \A t \in S : f[t] = step[t][f]
  <2> HIDE DEF S, T, step, rank
  <2>1. Defined(S, T, step)
    BY <1>3, Recursion, Zenon
  <2> QED BY <2>1, Zenon DEF Defined
<1> DEFINE Is(g) == g = [t \in S |-> is(t, g)]
<1>5. Is(f)
  <2> HIDE DEF S, T, is
  <2> QED BY <1>4, Zenon
<1>6. Lex = CHOOSE g : Is(g)
  BY Zenon DEF Lex
<1>7. Is(Lex)
  <2> HIDE DEF Is
  <2> QED BY <1>5, <1>6, Zenon
<1> DEFINE P == {t \in S : Lex[t] \in T}
<1>8. \A t \in S : Lex[t] = is(t, Lex)
  <2> HIDE DEF S, is
  <2> QED BY <1>7, Zenon
<1>9. ASSUME NEW t \in S, \A u \in S : rank[u] < rank[t] => u \in P PROVE t \in P
  <2>1. t # <<>> => Lex[NextLexem(t).rest] \in T
    <3> HIDE DEF S, T, rank
    <3> QED BY <1>a, <1>9, Zenon
  <2>2. Lex[t] \in T
    <3> HIDE DEF S, T, rank
    <3> QED BY <1>a, <1>b, <1>8, <2>1, Zenon
  <2>3. QED
    BY <2>2, Zenon
<1>10. S \subseteq P
  <2>1. rank \in [S -> Nat]
    OBVIOUS
  <2> HIDE DEF P, S, rank
  <2> QED BY <1>9, <2>1, Along, Zenon
<1>11. QED
  BY <1>8, <1>10, Zenon

\* The values of lexems are what the definition says.
LEMMA ValuesIs ==
  \A lexems \in Seq(Lexems) :
    Values[lexems] = IF lexems = <<>> THEN <<>> ELSE lexems[1].v \o Values[Tail(lexems)]
<1> DEFINE S == Seq(Lexems)
           T == Seq(Pieces)
           F == [S -> T]
           rank == [t \in S |-> Len(t)]
           is(t, g) == IF t = <<>> THEN <<>> ELSE t[1].v \o g[Tail(t)]
           step == [t \in S |-> [g \in F |-> is(t, g)]]
<1>a. ASSUME NEW t \in S, t # <<>> PROVE Tail(t) \in S /\ rank[Tail(t)] < rank[t] /\ t[1].v \in T
  <2>1. t[1] \in Lexems /\ Tail(t) \in S /\ rank[Tail(t)] < rank[t]
    BY <1>a
  <2>2. QED
    BY <2>1 DEF Lexems
<1>b. <<>> \in T /\ \A p, q \in T : p \o q \in T
  OBVIOUS
<1>0. \A t \in S, g \in F : is(t, g) \in T
  <2> HIDE DEF S, T, rank
  <2> QED BY <1>a, <1>b, SMTT(20)
<1>1. step \in [S -> [F -> T]]
  <2> HIDE DEF S, T, is
  <2> QED BY <1>0
<1>2. ASSUME NEW t \in S, NEW g \in F, NEW h \in F, \A u \in S : rank[u] < rank[t] => g[u] = h[u]
      PROVE  is(t, g) = is(t, h)
  <2> HIDE DEF rank
  <2> QED BY <1>a, <1>2, Zenon
<1>3. Defines(S, T, rank, step)
  <2>1. Local(S, T, rank, step)
    <3> HIDE DEF S, T, is, rank
    <3> QED BY <1>2 DEF Local
  <2>2. rank \in [S -> Nat]
    OBVIOUS
  <2> HIDE DEF S, T, step, rank
  <2> QED BY <1>1, <1>b, <2>1, <2>2, Zenon DEF Defines
<1>4. PICK f \in F : \A t \in S : f[t] = step[t][f]
  <2> HIDE DEF S, T, step, rank
  <2>1. Defined(S, T, step)
    BY <1>3, Recursion, Zenon
  <2> QED BY <2>1, Zenon DEF Defined
<1> DEFINE Is(g) == g = [t \in S |-> is(t, g)]
<1>5. Is(f)
  <2> HIDE DEF S, T, is
  <2> QED BY <1>4, Zenon
<1>6. Values = CHOOSE g : Is(g)
  BY Zenon DEF Values
<1>7. Is(Values)
  <2> HIDE DEF Is
  <2> QED BY <1>5, <1>6, Zenon
<1>8. QED
  BY <1>7, Zenon

\* LexLossless, for every text and bytes of any number: every piece of a text is
\* in the value of some lexem as Next writes it, in order, comments apart (also
\* those that a # between quotes begins).
THEOREM LexerLosesNothing ==
  input \in [text : Texts] => LexLossless
<1> DEFINE S == Seq(Pieces)
           zero == <<"NUL">>
           rank == [t \in S |-> Len(t)]
           P == {t \in S : Values[Lex[t]] \in {Kept(t), Kept(t) \o zero}}
<1>1. zero \in Seq(Pieces) /\ <<>> \in Seq(Pieces)
  BY TextsAssumption
<1>2. Lex[<<>>] = <<>> /\ Values[<<>>] = <<>> /\ Kept(<<>>) = <<>>
  <2>1. <<>> \in Seq(Lexems)
    OBVIOUS
  <2>2. QED
    BY <1>1, <2>1, LexIs, ValuesIs, KeptIs, Zenon
<1>3. ASSUME NEW t \in S, \A u \in S : rank[u] < rank[t] => u \in P PROVE t \in P
  <2>1. CASE t = <<>>
    BY <1>2, <2>1, Zenon
  <2>2. CASE t # <<>>
    <3> DEFINE n == NextLexem(t)
               more == Lex[n.rest]
    <3>1. n \in Leftovers /\ Len(n.rest) < Len(t)
      BY <2>2, NextLess, Zenon
    <3>2. n.rest \in Seq(Pieces) /\ n.lexem \in Lexems
      <4> HIDE DEF n
      <4> QED BY <3>1 DEF Leftovers
    <3>3. n.lexem.v \in Seq(Pieces) /\ Kept(n.rest) \in Seq(Pieces)
      <4>1. n.lexem.v \in Seq(Pieces)
        <5> HIDE DEF n
        <5> QED BY <3>2 DEF Lexems
      <4>2. QED
        BY <3>2, <4>1, KeptIs, Zenon
    <3>4. n.rest \in P
      <4>1. rank[n.rest] < rank[t]
        <5> HIDE DEF n
        <5> QED BY <3>1, <3>2
      <4> HIDE DEF P, rank, n
      <4>2. QED
        BY <1>3, <3>2, <4>1, Zenon
    <3>5. Values[more] \in {Kept(n.rest), Kept(n.rest) \o zero}
      <4> HIDE DEF n
      <4> QED BY <3>4, Zenon
    <3>6. Values[Lex[t]] = n.lexem.v \o Values[more]
      <4>1. Lex[t] = <<n.lexem>> \o more /\ more \in Seq(Lexems)
        BY <2>2, <3>2, LexIs, Zenon
      <4> HIDE DEF n, more
      <4>2. ASSUME NEW q \in Seq(Lexems), NEW x \in Lexems
            PROVE  /\ <<x>> \o q \in Seq(Lexems) /\ <<x>> \o q # <<>>
                   /\ (<<x>> \o q)[1] = x /\ Tail(<<x>> \o q) = q
        OBVIOUS
      <4>3. /\ <<n.lexem>> \o more \in Seq(Lexems) /\ <<n.lexem>> \o more # <<>>
            /\ (<<n.lexem>> \o more)[1] = n.lexem /\ Tail(<<n.lexem>> \o more) = more
        BY <3>2, <4>1, <4>2, Zenon
      <4>4. Lex[t] \in Seq(Lexems) /\ Lex[t] # <<>> /\ Lex[t][1] = n.lexem /\ Tail(Lex[t]) = more
        BY <4>1, <4>3, Zenon
      <4>5. Values[Lex[t]] = Lex[t][1].v \o Values[Tail(Lex[t])]
        BY <4>4, ValuesIs, Zenon
      <4>6. QED
        BY <4>4, <4>5, Zenon
    <3>7. CASE n.lexem.v \o Kept(n.rest) = Kept(t)
      <4> HIDE DEF n, more, zero
      <4>1. n.lexem.v \o (Kept(n.rest) \o zero) = (n.lexem.v \o Kept(n.rest)) \o zero
        BY <1>1, <3>3, Pasted, Zenon
      <4>2. QED
        BY <3>5, <3>6, <3>7, <4>1, Zenon
    <3>8. CASE n.rest = <<>> /\ n.lexem.v = <<"NUL">> /\ Kept(t) = <<>>
      <4>1. Values[more] = <<>>
        <5> HIDE DEF n
        <5> QED BY <1>2, <3>8, Zenon
      <4>2. n.lexem.v = zero /\ zero \o <<>> = <<>> \o zero
        BY <1>1, <3>8, Pasted, Zenon
      <4> HIDE DEF n, more, zero
      <4>3. Values[Lex[t]] = Kept(t) \o zero
        BY <3>6, <3>8, <4>1, <4>2, Zenon
      <4>4. QED
        BY <4>3, Zenon
    <3>9. QED
      BY <2>2, <3>7, <3>8, NextLess, Zenon
  <2>3. QED
    BY <2>1, <2>2, Zenon
<1>4. S \subseteq P
  <2>1. rank \in [S -> Nat]
    OBVIOUS
  <2> HIDE DEF P, S, rank
  <2> QED BY <1>3, <2>1, Along, Zenon
<1>5. ASSUME input \in [text : Texts] PROVE LexLossless
  <2>1. input.text \in Seq(Pieces)
    BY <1>5, TextsAssumption
  <2>2. Values[Lex[input.text]] \in {Kept(input.text), Kept(input.text) \o zero}
    BY <1>4, <2>1, Zenon
  <2>3. QED
    BY <2>2, Zenon DEF LexLossless, Kept
<1>6. QED
  BY <1>5
=============================================================================
