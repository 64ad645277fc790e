--------------------------- MODULE RelayQueueProofs ---------------------------
(***************************************************************************)
(* Proofs about RelayQueue, for any number of emails, groups, relays and   *)
(* concurrent senders: types, the conservation of tokens, the bound on     *)
(* complete copies and the growth of the waits.                            *)
(***************************************************************************)
EXTENDS RelayQueue, FiniteSetTheorems, TLAPS

\* What the channel and the local recipients add to the types: the groups in
\* the channel are distinct, remote and wait there, so that the email Loop
\* takes is not one that is being sent.
QueueInv ==
  /\ \A g \in Local : st[g] \in {"new", "drain", "stored"}
  /\ \A i \in 1..Len(sender) : st[sender[i]] = "queued"
  /\ \A i, j \in 1..Len(sender) : sender[i] = sender[j] => i = j

\* The complete copies that a group got, is about to send, and may still read.
InBuf(g) == IF buf[g] = "full" THEN 1 ELSE 0
InBody(g) == IF body[Entity[g]] = "full" /\ g \notin readers[Entity[g]] THEN 1 ELSE 0

\* CompleteCopies made inductive: a buffer gives a group one copy at most.
Counted ==
  \A g \in Groups : full[g] + InBuf(g) + InBody(g) <= Cardinality(Begun(Entity[g]))

\* Only an attempt holds a copy, only a rendering drains a buffer, and local
\* recipients are not relayed to.
Holders ==
  /\ \A g \in Groups : st[g] \notin {"drain", "lookup", "relay"} => buf[g] = "rest"
  /\ \A g \in Groups : st[g] # "drain" => g \notin readers[Entity[g]]
  /\ \A g \in Local : full[g] = 0 /\ buf[g] = "rest"

-----------------------------------------------------------------------------
\* Half of a number rounds down: the wait grows from any value of MustWait, by
\* at most what it grows from MaxDuration.
LEMMA NextWaitGrows ==
  ASSUME NEW n \in Nat
  PROVE  NextWait(n) \in Nat /\ NextWait(n) > n
  BY DEF NextWait, Max3

\* A longer wait is followed by a longer one.
LEMMA NextWaitMonotone ==
  ASSUME NEW m \in Nat, NEW n \in Nat, m <= n
  PROVE  NextWait(m) <= NextWait(n)
  BY DEF NextWait, Max3

\* errors.Join of the errors of two relays is one of the two.
LEMMA JoinType ==
  ASSUME NEW acc \in Errors \cup {"nil"}, NEW err \in Errors
  PROVE  Join(acc, err) \in Errors
  BY DEF Join, Errors, DnsErrors, SmtpErrors

\* The entity of a group is an email.
LEMMA EntityType == \A g \in Groups : Entity[g] \in Emails
  BY DEF Emails

\* The queue starts empty, with every token in place.
LEMMA TypeInit == Init => TypeOK
  BY QueueAssumption DEF Init, TypeOK, Stages

\* A return of send keeps the types.
LEMMA TypeReturn ==
  ASSUME TypeOK, NEW g \in Groups, NEW err, Return(g, err)
  PROVE  TypeOK'
  <1>1. st' \in [Groups -> Stages]
    BY DEF Return, TypeOK, Stages
  <1>2. mustWait' \in [Groups -> Nat]
    BY NextWaitGrows DEF Return, TypeOK
  <1>3. ok' \in 0..Concurrent
    BY QueueAssumption DEF Return, TypeOK
  <1>4. /\ buf' \in [Groups -> {"rest", "full"}]
        /\ hosts' \in [Groups -> 0..MaxHosts]
        /\ accErr' \in [Groups -> Errors \cup {"nil"}]
    BY QueueAssumption DEF Return, TypeOK
  <1> QED  BY <1>1, <1>2, <1>3, <1>4 DEF Return, TypeOK, entityVars

\* Every step of the queue, of send and of relayOutside keeps the types.
LEMMA TypeStep == TypeOK /\ [Next]_vars => TypeOK'
  <1> SUFFICES ASSUME TypeOK, [Next]_vars PROVE TypeOK'
    OBVIOUS
  <1> USE QueueAssumption, EntityType
  <1>1. ASSUME NEW g \in Groups, Enqueue(g) PROVE TypeOK'
    BY <1>1 DEF Enqueue, NewBody, TypeOK, Stages, queueVars, attemptVars
  <1>2. ASSUME NEW g \in Groups, RelayInside(g) PROVE TypeOK'
    BY <1>2 DEF RelayInside, NewBody, TypeOK, Stages, queueVars, attemptVars
  <1>3. ASSUME NEW g \in Groups, Push(g) PROVE TypeOK'
    BY <1>3 DEF Push, TypeOK, Stages, entityVars, attemptVars
  <1>4. ASSUME NEW g \in Groups, StoreInside(g) PROVE TypeOK'
    BY <1>4, Zenon DEF StoreInside, Drained, TypeOK, Stages, queueVars, attemptVars
  <1>5. ASSUME NEW g \in Groups, RenderBegin(g) PROVE TypeOK'
    <2>1. CASE Return(g, "other")
      BY <2>1, TypeReturn
    <2>2. CASE ~ Return(g, "other")
      <3>1. /\ st' = [st EXCEPT ![g] = "drain"]
            /\ buf' = [buf EXCEPT ![g] = IF body[Entity[g]] = "full" THEN "full" ELSE "rest"]
            /\ readers' = [readers EXCEPT ![Entity[g]] = @ \cup {g}]
            /\ UNCHANGED <<mustWait, full, queueVars, sending, body, hosts, accErr>>
        BY <1>5, <2>2 DEF RenderBegin
      <3>2. buf' \in [Groups -> {"rest", "full"}]
        BY <3>1 DEF TypeOK
      <3>3. readers' \in [Emails -> SUBSET Groups]
        BY <3>1 DEF TypeOK
      <3>4. st' \in [Groups -> Stages]
        BY <3>1 DEF TypeOK, Stages
      <3> QED  BY <3>1, <3>2, <3>3, <3>4 DEF TypeOK, queueVars
    <2> QED  BY <2>1, <2>2
  <1>6. ASSUME NEW g \in Groups, RenderEnd(g) PROVE TypeOK'
    BY <1>6 DEF RenderEnd, Drained, TypeOK, Stages, queueVars, attemptVars
  <1>7. ASSUME NEW g \in Groups, LookupMX(g) PROVE TypeOK'
    <2>1. CASE \E err \in DnsErrors : Return(g, err)
      BY <2>1, TypeReturn
    <2>2. CASE ~ \E err \in DnsErrors : Return(g, err)
      BY <1>7, <2>2, Zenon DEF LookupMX, TypeOK, Stages, queueVars, entityVars, attemptVars
    <2> QED  BY <2>1, <2>2
  <1>8. ASSUME NEW g \in Groups, SendMail(g) PROVE TypeOK'
    <2>1. hosts' \in [Groups -> 0..MaxHosts]
      BY <1>8 DEF SendMail, TypeOK
    <2>2. full' \in [Groups -> Nat]
      <3>1. \/ full' = full
            \/ full' = [full EXCEPT ![g] = full[g] + 1]
            \/ full' = [full EXCEPT ![g] = full[g]]
        BY <1>8 DEF SendMail
      <3> QED  BY <3>1 DEF TypeOK
    <2>3. buf' \in [Groups -> {"rest", "full"}]
      <3>1. buf' = buf \/ buf' = [buf EXCEPT ![g] = "rest"]
        BY <1>8 DEF SendMail
      <3> QED  BY <3>1, Zenon DEF TypeOK
    <2>4. accErr' \in [Groups -> Errors \cup {"nil"}]
      <3>1. CASE accErr' = accErr
        BY <3>1 DEF TypeOK
      <3>2. CASE accErr' # accErr
        <4>1. PICK err \in Errors : accErr' = [accErr EXCEPT ![g] = Join(accErr[g], err)]
          BY <1>8, <3>2 DEF SendMail
        <4>2. Join(accErr[g], err) \in Errors
          BY JoinType, Zenon DEF TypeOK
        <4> QED  BY <4>1, <4>2 DEF TypeOK
      <3> QED  BY <3>1, <3>2
    <2> QED  BY <1>8, <2>1, <2>2, <2>3, <2>4 DEF SendMail, TypeOK, queueVars, entityVars
  <1>9. ASSUME NEW g \in Groups, RelayEnd(g) PROVE TypeOK'
    BY <1>9, TypeReturn DEF RelayEnd
  <1>10. ASSUME NEW g \in Groups, WakeUp(g) PROVE TypeOK'
    BY <1>10 DEF WakeUp, TypeOK, Stages, queueVars, entityVars, attemptVars
  <1>11. CASE TakeToken
    BY <1>11 DEF TakeToken, TypeOK, entityVars, attemptVars
  <1>12. CASE TakeEmail
    BY <1>12 DEF TakeEmail, TypeOK, Stages, entityVars, attemptVars
  <1>13. CASE Stop
    BY <1>13 DEF Stop, TypeOK, entityVars, attemptVars
  <1>14. CASE UNCHANGED vars
    BY <1>14 DEF vars, TypeOK, queueVars, entityVars, attemptVars
  <1> QED  BY <1>1, <1>2, <1>3, <1>4, <1>5, <1>6, <1>7, <1>8, <1>9, <1>10,
              <1>11, <1>12, <1>13, <1>14 DEF Next, Work

\* Every reachable state of the relay queue is well typed; in particular, the
\* number of tokens in Queue.ok stays within the channel's capacity.
THEOREM QueueTypes == Spec => []TypeOK
  BY TypeInit, TypeStep, PTL DEF Spec

-----------------------------------------------------------------------------
TokensInv == TypeOK /\ QueueInv /\ Tokens

\* A finite number of groups is being relayed.
LEMMA RelayingFinite == IsFiniteSet(Relaying) /\ Cardinality(Relaying) \in Nat
  BY QueueAssumption, FS_Subset, FS_CardinalityType DEF Relaying

\* All tokens are in the channel at the start.
LEMMA TokensInit == Init => TokensInv
  <1> SUFFICES ASSUME Init PROVE TokensInv
    OBVIOUS
  <1>1. Relaying = {}
    BY DEF Init, Relaying, Attempt
  <1>2. Tokens
    BY <1>1, FS_EmptySet, QueueAssumption DEF Init, Tokens
  <1>3. QueueInv
    BY QueueAssumption DEF Init, QueueInv
  <1> QED  BY <1>2, <1>3, TypeInit DEF TokensInv

\* A step that moves a group that is not in the channel, neither into nor out
\* of an attempt, and leaves the channels alone.
LEMMA TokensMoves ==
  ASSUME TokensInv, NEW g \in Groups, NEW x,
         st' = [st EXCEPT ![g] = x], UNCHANGED queueVars,
         st[g] # "queued",
         g \in Local => x \in {"new", "drain", "stored"},
         g \notin Local => (st[g] \in Attempt <=> x \in Attempt)
  PROVE  QueueInv' /\ Tokens'
  <1>1. Relaying' = Relaying
    BY DEF Relaying, TokensInv, TypeOK
  <1>2. Tokens'
    BY <1>1 DEF Tokens, TokensInv, queueVars
  <1>3. QueueInv'
    BY QueueAssumption DEF QueueInv, TokensInv, TypeOK, queueVars
  <1> QED  BY <1>2, <1>3

\* The return of send: the group leaves its attempt and its token comes back.
LEMMA TokensReturn ==
  ASSUME TokensInv, NEW g \in Groups \ Local, NEW err, Return(g, err),
         st[g] \in Attempt
  PROVE  QueueInv' /\ Tokens'
  <1>1. PICK x \in {"sent", "sleeping", "dropped"} : st' = [st EXCEPT ![g] = x]
    <2> DEFINE again == Retries(err) /\ mustWait[g] <= MaxDuration
    <2>1. CASE err = "nil"
      BY <2>1 DEF Return, Retries
    <2>2. CASE err # "nil" /\ again
      BY <2>2, Zenon DEF Return
    <2>3. CASE err # "nil" /\ ~ again
      BY <2>3, Zenon DEF Return
    <2> QED  BY <2>1, <2>2, <2>3
  <1>7. ok' = ok + 1 /\ UNCHANGED <<sender, loop>>
    BY DEF Return
  <1>2. g \in Relaying /\ Relaying' = Relaying \ {g}
    BY <1>1 DEF Relaying, Attempt, TokensInv, TypeOK
  <1>3. Cardinality(Relaying') = Cardinality(Relaying) - 1
    BY <1>2, RelayingFinite, FS_RemoveElement, Zenon
  <1>4. Tokens'
    <2>1. ok \in Nat /\ Concurrent \in Nat /\ Tokens
      BY QueueAssumption DEF TokensInv, TypeOK
    <2> QED  BY <2>1, <1>7, <1>3, RelayingFinite DEF Tokens
  <1>5. st[g] # "queued"
    BY DEF Attempt
  <1>6. QueueInv'
    <2>1. QueueInv /\ st \in [Groups -> Stages] /\ sender \in Seq(Groups)
      BY DEF TokensInv, TypeOK
    <2>2. \A h \in Groups : h # g => st'[h] = st[h]
      BY <1>1, <2>1
    <2>3. \A i \in 1..Len(sender) : sender[i] \in Groups /\ sender[i] # g
      BY <1>5, <2>1 DEF QueueInv
    <2> QED  BY <1>7, <2>1, <2>2, <2>3, QueueAssumption DEF QueueInv
  <1> QED  BY <1>4, <1>6

\* Loop starts send for the email at the head of the channel.
LEMMA TokensTakeEmail ==
  ASSUME TokensInv, TakeEmail
  PROVE  QueueInv' /\ Tokens'
  <1> DEFINE g == sender[1]
  <1>1. /\ Len(sender) \in Nat \ {0} /\ g \in Groups
        /\ st[g] = "queued"
        /\ st' = [st EXCEPT ![g] = "render"]
        /\ sender' = Tail(sender) /\ loop = "holds" /\ loop' = "waits" /\ ok' = ok
    BY DEF TakeEmail, TokensInv, TypeOK, QueueInv
  <1>2. g \notin Local
    BY <1>1 DEF TokensInv, QueueInv
  <1>3. g \notin Relaying /\ Relaying' = Relaying \cup {g}
    BY <1>1, <1>2 DEF Relaying, Attempt, TokensInv, TypeOK
  <1>4. Cardinality(Relaying') = Cardinality(Relaying) + 1
    BY <1>3, RelayingFinite, FS_AddElement
  <1>5. Tokens'
    <2>1. ok \in Nat /\ Concurrent \in Nat /\ Tokens
      BY QueueAssumption DEF TokensInv, TypeOK
    <2>2. loop = "holds" /\ loop' = "waits" /\ ok' = ok
      BY <1>1
    <2>3. Cardinality(Relaying) \in Nat
      BY RelayingFinite, FS_CardinalityType
    <2> HIDE DEF g
    <2> QED  BY <2>1, <2>2, <2>3, <1>4 DEF Tokens
  <1>6. /\ Len(sender') = Len(sender) - 1
        /\ \A i \in 1..Len(sender') : sender'[i] = sender[i + 1] /\ i + 1 \in 1..Len(sender)
    BY <1>1 DEF TokensInv, TypeOK
  <1>7. \A i \in 1..Len(sender') : st'[sender'[i]] = "queued"
    <2> SUFFICES ASSUME NEW i \in 1..Len(sender') PROVE st'[sender'[i]] = "queued"
      OBVIOUS
    <2>1. sender[i + 1] # g
      BY <1>1, <1>6 DEF TokensInv, QueueInv
    <2> QED  BY <2>1, <1>1, <1>6 DEF TokensInv, QueueInv, TypeOK
  <1>8. \A i, j \in 1..Len(sender') : sender'[i] = sender'[j] => i = j
    BY <1>1, <1>6 DEF TokensInv, QueueInv
  <1>9. \A h \in Local : st'[h] \in {"new", "drain", "stored"}
    BY <1>1, <1>2, QueueAssumption DEF TokensInv, QueueInv, TypeOK
  <1> QED  BY <1>5, <1>7, <1>8, <1>9 DEF QueueInv

\* A group that enters the channel of the sender takes no token yet.
LEMMA TokensPush ==
  ASSUME TokensInv, NEW g \in Groups, Push(g)
  PROVE  QueueInv' /\ Tokens'
  <1>1. /\ st[g] = "pushing" /\ st' = [st EXCEPT ![g] = "queued"]
        /\ sender' = Append(sender, g) /\ UNCHANGED <<ok, loop>>
    BY DEF Push
  <1>2. g \notin Local
    BY <1>1 DEF TokensInv, QueueInv
  <1>3. Relaying' = Relaying
    BY <1>1 DEF Relaying, Attempt, TokensInv, TypeOK
  <1>4. /\ Len(sender') = Len(sender) + 1 /\ Len(sender) \in Nat
        /\ sender'[Len(sender')] = g
        /\ \A i \in 1..Len(sender) : sender'[i] = sender[i] /\ sender[i] # g
    BY <1>1 DEF TokensInv, TypeOK, QueueInv
  <1>5. \A i \in 1..Len(sender') : i \in 1..Len(sender) \/ i = Len(sender')
    BY <1>4
  <1>6. QueueInv'
    <2>1. \A i \in 1..Len(sender') : st'[sender'[i]] = "queued"
      BY <1>1, <1>4, <1>5 DEF TokensInv, TypeOK, QueueInv
    <2>2. \A i, j \in 1..Len(sender') : sender'[i] = sender'[j] => i = j
      BY <1>4, <1>5 DEF TokensInv, QueueInv
    <2>3. \A h \in Local : st'[h] \in {"new", "drain", "stored"}
      BY <1>1, <1>2, QueueAssumption DEF TokensInv, QueueInv, TypeOK
    <2> QED  BY <2>1, <2>2, <2>3 DEF QueueInv
  <1> QED  BY <1>1, <1>3, <1>6 DEF TokensInv, Tokens

\* Every step of the queue conserves the tokens.
LEMMA TokensStep == TokensInv /\ [Next]_vars => TokensInv'
  <1> SUFFICES ASSUME TokensInv, [Next]_vars PROVE QueueInv' /\ Tokens'
    BY TypeStep DEF TokensInv
  <1>0. \A g \in Groups : g \in Local => st[g] \in {"new", "drain", "stored"}
    BY DEF TokensInv, QueueInv
  <1>1. ASSUME NEW g \in Groups, Enqueue(g) PROVE QueueInv' /\ Tokens'
    <2>1. /\ UNCHANGED queueVars /\ g \notin Local
          /\ st[g] = "new" /\ st' = [st EXCEPT ![g] = "pushing"]
      BY <1>1 DEF Enqueue
    <2> QED  BY <2>1, TokensMoves, Zenon DEF Attempt
  <1>2. ASSUME NEW g \in Groups, RelayInside(g) PROVE QueueInv' /\ Tokens'
    <2>1. /\ UNCHANGED queueVars /\ g \in Local
          /\ st[g] = "new" /\ st' = [st EXCEPT ![g] = "drain"]
      BY <1>2 DEF RelayInside
    <2> QED  BY <2>1, TokensMoves, Zenon DEF Attempt
  <1>3. ASSUME NEW g \in Groups, StoreInside(g) PROVE QueueInv' /\ Tokens'
    <2>1. /\ UNCHANGED queueVars /\ g \in Local
          /\ st[g] = "drain" /\ st' = [st EXCEPT ![g] = "stored"]
      BY <1>3 DEF StoreInside
    <2> QED  BY <2>1, TokensMoves, Zenon DEF Attempt
  <1>4. ASSUME NEW g \in Groups, RenderBegin(g) PROVE QueueInv' /\ Tokens'
    <2>1. g \notin Local /\ st[g] \in Attempt
      BY <1>0, <1>4 DEF RenderBegin, Attempt
    <2>2. CASE Return(g, "other")
      BY <2>1, <2>2, TokensReturn
    <2>3. CASE ~ Return(g, "other")
      <3>1. /\ UNCHANGED queueVars /\ g \notin Local
            /\ st[g] = "render" /\ st' = [st EXCEPT ![g] = "drain"]
        BY <1>4, <2>1, <2>3 DEF RenderBegin
      <3> QED  BY <3>1, TokensMoves, Zenon DEF Attempt
    <2> QED  BY <2>2, <2>3
  <1>5. ASSUME NEW g \in Groups, RenderEnd(g) PROVE QueueInv' /\ Tokens'
    <2>1. /\ UNCHANGED queueVars /\ g \notin Local
          /\ st[g] = "drain" /\ st' = [st EXCEPT ![g] = "lookup"]
      BY <1>5 DEF RenderEnd
    <2> QED  BY <2>1, TokensMoves, Zenon DEF Attempt
  <1>6. ASSUME NEW g \in Groups, LookupMX(g) PROVE QueueInv' /\ Tokens'
    <2>1. g \notin Local /\ st[g] \in Attempt
      BY <1>0, <1>6 DEF LookupMX, Attempt
    <2>2. CASE \E err \in DnsErrors : Return(g, err)
      BY <2>1, <2>2, TokensReturn
    <2>3. CASE ~ \E err \in DnsErrors : Return(g, err)
      <3>1. /\ UNCHANGED queueVars /\ g \notin Local
            /\ st[g] = "lookup" /\ st' = [st EXCEPT ![g] = "relay"]
        BY <1>6, <2>1, <2>3 DEF LookupMX
      <3> QED  BY <3>1, TokensMoves, Zenon DEF Attempt
    <2> QED  BY <2>2, <2>3
  <1>7. ASSUME NEW g \in Groups, SendMail(g) PROVE QueueInv' /\ Tokens'
    BY <1>7 DEF SendMail, TokensInv, QueueInv, Tokens, Relaying, queueVars
  <1>8. ASSUME NEW g \in Groups, RelayEnd(g) PROVE QueueInv' /\ Tokens'
    BY <1>0, <1>8, TokensReturn DEF RelayEnd, Attempt
  <1>9. ASSUME NEW g \in Groups, WakeUp(g) PROVE QueueInv' /\ Tokens'
    <2>1. /\ UNCHANGED queueVars /\ g \notin Local
          /\ st[g] = "sleeping" /\ st' = [st EXCEPT ![g] = "pushing"]
      BY <1>0, <1>9 DEF WakeUp
    <2> QED  BY <2>1, TokensMoves, Zenon DEF Attempt
  <1>10. CASE TakeToken
    <2>1. Relaying' = Relaying
      BY <1>10 DEF TakeToken, Relaying
    <2>2. QueueInv'
      BY <1>10 DEF TakeToken, TokensInv, QueueInv
    <2> QED  BY <1>10, <2>1, <2>2, RelayingFinite, QueueAssumption
             DEF TakeToken, TokensInv, TypeOK, Tokens
  <1>11. CASE Stop
    <2>1. Relaying' = Relaying
      BY <1>11 DEF Stop, Relaying
    <2>2. QueueInv'
      BY <1>11 DEF Stop, TokensInv, QueueInv
    <2> QED  BY <1>11, <2>1, <2>2, RelayingFinite, QueueAssumption
             DEF Stop, TokensInv, TypeOK, Tokens
  <1>12. CASE UNCHANGED vars
    BY <1>12 DEF vars, queueVars, TokensInv, QueueInv, Tokens, Relaying
  <1> QED  BY <1>1, <1>2, <1>3, <1>4, <1>5, <1>6, <1>7, <1>8, <1>9, <1>10,
              <1>11, <1>12, TokensPush, TokensTakeEmail DEF Next, Work

\* Tokens are conserved by every send, whatever makes it return, so that no
\* more than concurrent_sender emails are ever relayed at a time.
THEOREM TokensConserved == Spec => []Tokens
  <1>1. TokensInv => Tokens
    BY DEF TokensInv
  <1> QED  BY <1>1, TokensInit, TokensStep, PTL DEF Spec

\* The wait before a retry grows with every retry and stays below the wait
\* that follows MaxDuration, so that an email is retried finitely often.
THEOREM RetriesBackOff == Spec => BackoffGrows
  <1> DEFINE A == \A g \in Groups : mustWait'[g] # mustWait[g] =>
                    (mustWait'[g] > mustWait[g] /\ mustWait'[g] <= NextWait(MaxDuration))
  <1>1. TypeOK /\ [Next]_vars => [A]_vars
    <2> SUFFICES ASSUME TypeOK, [Next]_vars, mustWait' # mustWait PROVE A
      BY DEF vars
    <2>1. PICK g \in Groups, err \in Errors \cup {"nil"} : Return(g, err)
      <3>1. \E g \in Groups : RenderBegin(g) \/ LookupMX(g) \/ RelayEnd(g)
        BY Zenon DEF Next, Work, vars, Enqueue, RelayInside, Push, StoreInside, RenderEnd,
               SendMail, WakeUp, TakeToken, TakeEmail, Stop
      <3> QED  BY <3>1, Zenon DEF RenderBegin, LookupMX, RelayEnd, TypeOK, Errors, DnsErrors, SmtpErrors
    <2>2. mustWait[g] <= MaxDuration /\ mustWait' = [mustWait EXCEPT ![g] = NextWait(mustWait[g])]
      BY <2>1, Zenon DEF Return, TypeOK
    <2>3. mustWait[g] \in Nat /\ MaxDuration \in Nat
      BY QueueAssumption DEF TypeOK
    <2>4. NextWait(mustWait[g]) > mustWait[g] /\ NextWait(mustWait[g]) <= NextWait(MaxDuration)
      BY <2>2, <2>3, NextWaitGrows, NextWaitMonotone
    <2> QED  BY <2>2, <2>4 DEF TypeOK
  <1>2. Spec => [][A]_vars
    BY <1>1, QueueTypes, PTL DEF Spec
  <1> QED  BY <1>2 DEF BackoffGrows

-----------------------------------------------------------------------------
CopiesInv == TokensInv /\ Counted /\ Holders

\* A finite number of copies of an email was begun.
LEMMA BegunFinite ==
  \A e : IsFiniteSet(Begun(e)) /\ Cardinality(Begun(e)) \in Nat
  BY QueueAssumption, FS_Subset, FS_CardinalityType DEF Begun

\* No copy is begun at the start.
LEMMA CopiesInit == Init => CopiesInv
  <1> SUFFICES ASSUME Init PROVE CopiesInv
    OBVIOUS
  <1>1. \A g \in Groups : InBuf(g) = 0 /\ InBody(g) = 0 /\ full[g] = 0
    BY EntityType DEF Init, InBuf, InBody
  <1>2. Counted
    BY <1>1, BegunFinite DEF Counted
  <1>3. Holders
    BY EntityType, QueueAssumption DEF Init, Holders
  <1> QED  BY <1>2, <1>3, TokensInit DEF CopiesInv

\* A group that moves on after send has begun it leaves the bound as it is.
LEMMA BegunKeeps ==
  ASSUME TypeOK, NEW g \in Groups, NEW x, st' = [st EXCEPT ![g] = x],
         st[g] # "new", x # "new"
  PROVE  \A e : Begun(e)' = Begun(e)
  BY DEF Begun, TypeOK

\* The buffer that send makes for a group raises the bound of its email.
LEMMA BegunGrows ==
  ASSUME TypeOK, NEW g \in Groups, NEW x, st' = [st EXCEPT ![g] = x],
         st[g] = "new", x # "new"
  PROVE  /\ \A e : e # Entity[g] => Begun(e)' = Begun(e)
         /\ Cardinality(Begun(Entity[g])') = Cardinality(Begun(Entity[g])) + 1
  <1>1. /\ g \notin Begun(Entity[g])
        /\ Begun(Entity[g])' = Begun(Entity[g]) \cup {g}
    BY DEF Begun, TypeOK
  <1>2. \A e : e # Entity[g] => Begun(e)' = Begun(e)
    BY DEF Begun, TypeOK
  <1> QED  BY <1>1, <1>2, BegunFinite, FS_AddElement

\* send makes a new buffer for a group.
LEMMA CopiesNewBody ==
  ASSUME CopiesInv, NEW g \in Groups, NEW rs \in SUBSET {g}, NEW x \in {"pushing", "drain"},
         NewBody(Entity[g], rs), st[g] = "new", st' = [st EXCEPT ![g] = x],
         x # "drain" => rs = {},
         UNCHANGED <<buf, full>>
  PROVE  Counted' /\ Holders'
  <1>1. TypeOK /\ Counted /\ Holders
    BY DEF CopiesInv, TokensInv
  <1>2. ASSUME NEW h \in Groups
        PROVE  full'[h] + InBuf(h)' + InBody(h)' <= Cardinality(Begun(Entity[h])')
    <2>1. /\ full'[h] = full[h] /\ InBuf(h)' = InBuf(h)
          /\ full[h] \in Nat /\ InBuf(h) \in 0..1 /\ InBody(h) \in 0..1 /\ InBody(h)' \in 0..1
      BY <1>1 DEF InBuf, InBody, TypeOK
    <2>2. full[h] + InBuf(h) + InBody(h) <= Cardinality(Begun(Entity[h]))
      BY <1>1 DEF Counted
    <2>3. CASE Entity[h] = Entity[g]
      <3>1. Cardinality(Begun(Entity[g])') = Cardinality(Begun(Entity[g])) + 1
        BY <1>1, BegunGrows, Zenon
      <3>2. Cardinality(Begun(Entity[h])') = Cardinality(Begun(Entity[h])) + 1
        BY <2>3, <3>1
      <3>3. Cardinality(Begun(Entity[h])) \in Nat
        BY BegunFinite
      <3> QED  BY <2>1, <2>2, <3>2, <3>3
    <2>4. CASE Entity[h] # Entity[g]
      <3>1. InBody(h)' = InBody(h)
        BY <1>1, <2>4, EntityType DEF InBody, NewBody, TypeOK
      <3>2. Begun(Entity[h])' = Begun(Entity[h])
        BY <1>1, <2>4, BegunGrows, Zenon
      <3> QED  BY <2>1, <2>2, <3>1, <3>2
    <2> QED  BY <2>3, <2>4
  <1>3. Counted'
    BY <1>2 DEF Counted
  <1>4. Holders'
    <2>1. \A h \in Groups : st'[h] \notin {"drain", "lookup", "relay"} => buf'[h] = "rest"
      BY <1>1 DEF Holders, TypeOK
    <2>2. \A h \in Groups : st'[h] # "drain" => h \notin readers'[Entity[h]]
      BY <1>1, EntityType DEF Holders, TypeOK, NewBody
    <2> QED  BY <1>1, <2>1, <2>2 DEF Holders
  <1> QED  BY <1>3, <1>4

\* A step of an attempt that leaves the body and its readers alone: the group
\* sends the copy it holds, loses it or keeps it.
LEMMA CopiesAttempt ==
  ASSUME CopiesInv, NEW g \in Groups \ Local, UNCHANGED entityVars,
         st[g] # "new",
         NEW x \in Stages \ {"new"}, st' = [st EXCEPT ![g] = x],
         NEW b \in {"rest", "full"}, buf' = [buf EXCEPT ![g] = b],
         NEW n \in Nat, full' = [full EXCEPT ![g] = n],
         n + (IF b = "full" THEN 1 ELSE 0) <= full[g] + InBuf(g),
         st[g] = "drain" <=> x = "drain",
         x \notin {"drain", "lookup", "relay"} => b = "rest"
  PROVE  Counted' /\ Holders'
  <1>1. TypeOK /\ Counted /\ Holders
    BY DEF CopiesInv, TokensInv
  <1>2. ASSUME NEW h \in Groups
        PROVE  full'[h] + InBuf(h)' + InBody(h)' <= Cardinality(Begun(Entity[h])')
    <2>1. InBody(h)' = InBody(h) /\ InBody(h) \in 0..1
      BY DEF InBody, entityVars
    <2>2. full'[h] + InBuf(h)' <= full[h] + InBuf(h)
      <3>1. CASE h = g
        <4>1. full'[g] = n /\ buf'[g] = b
          BY <1>1 DEF TypeOK
        <4> QED  BY <3>1, <4>1 DEF InBuf
      <3>2. CASE h # g
        <4>1. full'[h] = full[h] /\ buf'[h] = buf[h] /\ full[h] \in Nat
          BY <1>1, <3>2 DEF TypeOK
        <4> QED  BY <4>1 DEF InBuf
      <3> QED  BY <3>1, <3>2
    <2>3. full'[h] \in Nat /\ InBuf(h)' \in 0..1 /\ full[h] \in Nat /\ InBuf(h) \in 0..1
      BY <1>1 DEF InBuf, TypeOK
    <2>4. Begun(Entity[h])' = Begun(Entity[h])
      BY <1>1, BegunKeeps, Zenon
    <2>5. full[h] + InBuf(h) + InBody(h) <= Cardinality(Begun(Entity[h]))
      BY <1>1 DEF Counted
    <2> QED  BY <2>1, <2>2, <2>3, <2>4, <2>5, BegunFinite
  <1>3. Counted'
    BY <1>2 DEF Counted
  <1>4. Holders'
    BY <1>1, QueueAssumption DEF Holders, TypeOK, entityVars
  <1> QED  BY <1>3, <1>4

\* Rendering: the group takes the copy that the buffer holds for it.
LEMMA CopiesRender ==
  ASSUME CopiesInv, NEW g \in Groups \ Local, st[g] = "render",
         st' = [st EXCEPT ![g] = "drain"],
         buf' = [buf EXCEPT ![g] = IF body[Entity[g]] = "full" THEN "full" ELSE "rest"],
         readers' = [readers EXCEPT ![Entity[g]] = @ \cup {g}],
         UNCHANGED <<full, body>>
  PROVE  Counted' /\ Holders'
  <1>1. TypeOK /\ Counted /\ Holders
    BY DEF CopiesInv, TokensInv
  <1>2. buf[g] = "rest" /\ g \notin readers[Entity[g]]
    BY <1>1 DEF Holders
  <1>3. ASSUME NEW h \in Groups
        PROVE  full'[h] + InBuf(h)' + InBody(h)' <= Cardinality(Begun(Entity[h])')
    <2>1. InBuf(h)' + InBody(h)' = InBuf(h) + InBody(h)
      <3>1. CASE h = g
        <4>1. buf'[g] = (IF body[Entity[g]] = "full" THEN "full" ELSE "rest")
          BY <1>1 DEF TypeOK
        <4>2. g \in readers'[Entity[g]]
          BY <1>1, EntityType DEF TypeOK
        <4>3. InBody(g)' = 0
          BY <4>2 DEF InBody
        <4> QED  BY <1>2, <3>1, <4>1, <4>3 DEF InBuf, InBody
      <3>2. CASE h # g
        <4>1. buf'[h] = buf[h] /\ (h \in readers'[Entity[h]] <=> h \in readers[Entity[h]])
          BY <1>1, <3>2, EntityType DEF TypeOK
        <4> QED  BY <4>1 DEF InBuf, InBody
      <3> QED  BY <3>1, <3>2
    <2>2. /\ full[h] \in Nat /\ InBuf(h) \in 0..1 /\ InBody(h) \in 0..1
          /\ InBuf(h)' \in 0..1 /\ InBody(h)' \in 0..1
      BY <1>1 DEF InBuf, InBody, TypeOK
    <2>3. Begun(Entity[h])' = Begun(Entity[h])
      BY <1>1, BegunKeeps, Zenon
    <2>4. full[h] + InBuf(h) + InBody(h) <= Cardinality(Begun(Entity[h]))
      BY <1>1 DEF Counted
    <2> QED  BY <2>1, <2>2, <2>3, <2>4, BegunFinite
  <1>4. Counted'
    BY <1>3 DEF Counted
  <1>5. Holders'
    <2>1. \A h \in Groups : st'[h] \notin {"drain", "lookup", "relay"} => buf'[h] = "rest"
      BY <1>1 DEF Holders, TypeOK
    <2>2. \A h \in Groups : st'[h] # "drain" => h \notin readers'[Entity[h]]
      BY <1>1, EntityType DEF Holders, TypeOK
    <2>3. \A h \in Local : full'[h] = 0 /\ buf'[h] = "rest"
      BY <1>1, QueueAssumption DEF Holders, TypeOK
    <2> QED  BY <2>1, <2>2, <2>3 DEF Holders
  <1> QED  BY <1>4, <1>5

\* The end of a rendering: the buffer it read is empty for everybody.  If a
\* local rendering failed, the recipient, which gets no copy, lets go of it.
LEMMA CopiesDrained ==
  ASSUME CopiesInv, NEW g \in Groups, st[g] = "drain",
         NEW x \in {"lookup", "stored"}, st' = [st EXCEPT ![g] = x],
         g \in Local <=> x = "stored",
         \/ Drained(g)
         \/ /\ g \in Local /\ UNCHANGED body
            /\ readers' = [readers EXCEPT ![Entity[g]] = @ \ {g}],
         UNCHANGED <<full, buf>>
  PROVE  Counted' /\ Holders'
  <1>1. TypeOK /\ Counted /\ Holders
    BY DEF CopiesInv, TokensInv
  <1>2. readers' = [readers EXCEPT ![Entity[g]] = @ \ {g}]
    BY DEF Drained
  <1>3. ASSUME NEW h \in Groups
        PROVE  full'[h] + InBuf(h)' + InBody(h)' <= Cardinality(Begun(Entity[h])')
    <2>1. /\ full'[h] = full[h] /\ InBuf(h)' = InBuf(h)
          /\ full[h] \in Nat /\ InBuf(h) \in 0..1 /\ InBody(h) \in 0..1 /\ InBody(h)' \in 0..1
      BY <1>1 DEF InBuf, InBody, TypeOK
    <2>2. Begun(Entity[h])' = Begun(Entity[h])
      BY <1>1, BegunKeeps, Zenon
    <2>3. full[h] + InBuf(h) + InBody(h) <= Cardinality(Begun(Entity[h]))
      BY <1>1 DEF Counted
    <2>4. CASE h = g /\ g \in Local
      <3>1. full[h] = 0 /\ InBuf(h) = 0
        BY <1>1, <2>4 DEF Holders, InBuf
      <3>2. h \in Begun(Entity[h])
        BY <2>4 DEF Begun
      <3>3. Cardinality(Begun(Entity[h])) >= 1
        BY <3>2, BegunFinite, FS_EmptySet
      <3> QED  BY <2>1, <2>2, <3>1, <3>3, BegunFinite
    <2>5. CASE ~ (h = g /\ g \in Local)
      <3>1. InBody(h)' <= InBody(h)
        <4>1. h # g => (h \in readers'[Entity[h]] <=> h \in readers[Entity[h]])
          BY <1>1, <1>2, EntityType DEF TypeOK
        <4>2. body'[Entity[h]] = "full" => body[Entity[h]] = "full"
          BY <1>1, EntityType DEF Drained, TypeOK
        <4>3. CASE h # g
          BY <4>1, <4>2, <4>3 DEF InBody
        <4>4. CASE h = g /\ g \notin readers[Entity[g]]
          BY <4>2, <4>4 DEF InBody
        <4>5. CASE h = g /\ g \in readers[Entity[g]]
          <5>1. body'[Entity[g]] = "empty"
            BY <1>1, <2>5, <4>5, EntityType DEF Drained, TypeOK
          <5> QED  BY <4>5, <5>1 DEF InBody
        <4> QED  BY <4>3, <4>4, <4>5
      <3> QED  BY <2>1, <2>2, <2>3, <3>1, BegunFinite
    <2> QED  BY <2>4, <2>5
  <1>4. Counted'
    BY <1>3 DEF Counted
  <1>5. Holders'
    <2>1. \A h \in Groups : st'[h] \notin {"drain", "lookup", "relay"} => buf'[h] = "rest"
      BY <1>1 DEF Holders, TypeOK
    <2>2. \A h \in Groups : st'[h] # "drain" => h \notin readers'[Entity[h]]
      BY <1>1, <1>2, EntityType DEF Holders, TypeOK
    <2> QED  BY <1>1, <2>1, <2>2 DEF Holders
  <1> QED  BY <1>4, <1>5

\* The return of send drops the copy that the attempt still holds.
LEMMA CopiesReturn ==
  ASSUME CopiesInv, NEW g \in Groups \ Local, NEW err, Return(g, err),
         st[g] \in Attempt \ {"drain"}
  PROVE  Counted' /\ Holders'
  <1>1. PICK x \in {"sent", "sleeping", "dropped"} : st' = [st EXCEPT ![g] = x]
    <2> DEFINE again == Retries(err) /\ mustWait[g] <= MaxDuration
    <2>1. CASE err = "nil"
      BY <2>1 DEF Return, Retries
    <2>2. CASE err # "nil" /\ again
      BY <2>2, Zenon DEF Return
    <2>3. CASE err # "nil" /\ ~ again
      BY <2>3, Zenon DEF Return
    <2> QED  BY <2>1, <2>2, <2>3
  <1>2. /\ buf' = [buf EXCEPT ![g] = "rest"]
        /\ UNCHANGED <<full, entityVars>>
    BY DEF Return
  <1>3. full[g] \in Nat /\ full \in [Groups -> Nat] /\ InBuf(g) \in 0..1
    BY DEF CopiesInv, TokensInv, TypeOK, InBuf
  <1>4. full' = [full EXCEPT ![g] = full[g]]
    BY <1>2, <1>3
  <1>5. st[g] # "drain" /\ st[g] # "new" /\ x \in Stages \ {"new", "drain"}
    BY <1>1 DEF Attempt, Stages
  <1>6. full[g] + (IF "rest" = "full" THEN 1 ELSE 0) <= full[g] + InBuf(g)
    BY <1>3
  <1> QED  BY <1>1, <1>2, <1>3, <1>4, <1>5, <1>6, CopiesAttempt, Zenon

\* A step of a group that holds no copy, outside a rendering.
LEMMA CopiesMoves ==
  ASSUME CopiesInv, NEW g \in Groups, UNCHANGED <<entityVars, buf, full>>,
         st[g] \notin {"new", "drain"},
         NEW x \in Stages \ {"new", "drain"}, st' = [st EXCEPT ![g] = x],
         st[g] \in {"lookup", "relay"} <=> x \in {"lookup", "relay"}
  PROVE  Counted' /\ Holders'
  <1>1. TypeOK /\ Counted /\ Holders
    BY DEF CopiesInv, TokensInv
  <1>2. \A e : Begun(e)' = Begun(e)
    BY <1>1, BegunKeeps, Zenon
  <1>3. Counted'
    BY <1>1, <1>2 DEF Counted, InBuf, InBody, entityVars
  <1>4. Holders'
    BY <1>1 DEF Holders, TypeOK, entityVars
  <1> QED  BY <1>3, <1>4

\* One relay: the copy that the attempt holds is sent or lost, or kept.
LEMMA CopiesSendMail ==
  ASSUME CopiesInv, NEW g \in Groups \ Local, SendMail(g)
  PROVE  Counted' /\ Holders'
  <1>1. TypeOK
    BY DEF CopiesInv, TokensInv
  <1>2. /\ st[g] = "relay" /\ st' = [st EXCEPT ![g] = "relay"]
        /\ UNCHANGED entityVars /\ "relay" \in Stages \ {"new"}
        /\ full[g] \in Nat
    BY <1>1 DEF SendMail, TypeOK, Stages
  <1>3. CASE full' = [full EXCEPT ![g] = IF buf[g] = "full" THEN full[g] + 1 ELSE full[g]]
             /\ buf' = [buf EXCEPT ![g] = "rest"]
    <2> DEFINE n == IF buf[g] = "full" THEN full[g] + 1 ELSE full[g]
    <2>1. n \in Nat /\ full' = [full EXCEPT ![g] = n]
      BY <1>2, <1>3
    <2>2. n + (IF "rest" = "full" THEN 1 ELSE 0) <= full[g] + InBuf(g)
      BY <1>2 DEF InBuf
    <2> HIDE DEF n
    <2> QED  BY <1>2, <1>3, <2>1, <2>2, CopiesAttempt, Zenon
  <1>4. CASE full' = full /\ buf' = buf
    <2>1. UNCHANGED <<st, full, buf, body, readers>>
      BY <1>4 DEF SendMail, entityVars
    <2> QED  BY <2>1 DEF CopiesInv, Counted, Holders, InBuf, InBody, Begun
  <1>5. CASE full' = full /\ buf' = [buf EXCEPT ![g] = "rest"]
    <2>1. full' = [full EXCEPT ![g] = full[g]]
      BY <1>1, <1>5 DEF TypeOK
    <2>2. full[g] + (IF "rest" = "full" THEN 1 ELSE 0) <= full[g] + InBuf(g)
      BY <1>2 DEF InBuf
    <2> QED  BY <1>2, <1>5, <2>1, <2>2, CopiesAttempt, Zenon
  <1> QED  BY <1>3, <1>4, <1>5 DEF SendMail

\* Every step of the queue keeps the count of the copies.
LEMMA CopiesStep == CopiesInv /\ [Next]_vars => CopiesInv'
  <1> SUFFICES ASSUME CopiesInv, [Next]_vars PROVE Counted' /\ Holders'
    BY TokensStep DEF CopiesInv
  <1>1. TypeOK /\ Counted /\ Holders
    BY DEF CopiesInv, TokensInv
  <1>2. \A g \in Groups : g \in Local => st[g] \in {"new", "drain", "stored"}
    BY DEF CopiesInv, TokensInv, QueueInv
  <1>3. ASSUME NEW g \in Groups, Enqueue(g) PROVE Counted' /\ Holders'
    <2>1. /\ NewBody(Entity[g], {}) /\ st[g] = "new" /\ st' = [st EXCEPT ![g] = "pushing"]
          /\ UNCHANGED <<buf, full>>
      BY <1>3 DEF Enqueue, attemptVars
    <2> QED  BY <2>1, CopiesNewBody, Zenon
  <1>4. ASSUME NEW g \in Groups, RelayInside(g) PROVE Counted' /\ Holders'
    <2>1. /\ NewBody(Entity[g], {g}) /\ st[g] = "new" /\ st' = [st EXCEPT ![g] = "drain"]
          /\ UNCHANGED <<buf, full>>
      BY <1>4 DEF RelayInside, attemptVars
    <2> QED  BY <2>1, CopiesNewBody, Zenon
  <1>5. ASSUME NEW g \in Groups, StoreInside(g) PROVE Counted' /\ Holders'
    <2>1. /\ st[g] = "drain" /\ g \in Local /\ st' = [st EXCEPT ![g] = "stored"]
          /\ \/ Drained(g)
             \/ UNCHANGED body /\ readers' = [readers EXCEPT ![Entity[g]] = @ \ {g}]
          /\ UNCHANGED <<full, buf>>
      BY <1>5 DEF StoreInside, attemptVars
    <2> QED  BY <2>1, CopiesDrained, Zenon
  <1>6. ASSUME NEW g \in Groups, RenderBegin(g) PROVE Counted' /\ Holders'
    <2>1. g \notin Local /\ st[g] = "render"
      BY <1>2, <1>6 DEF RenderBegin
    <2>2. CASE Return(g, "other")
      BY <2>1, <2>2, CopiesReturn DEF Attempt
    <2>3. CASE ~ Return(g, "other")
      <3>1. /\ st' = [st EXCEPT ![g] = "drain"]
            /\ buf' = [buf EXCEPT ![g] = IF body[Entity[g]] = "full" THEN "full" ELSE "rest"]
            /\ readers' = [readers EXCEPT ![Entity[g]] = @ \cup {g}]
            /\ UNCHANGED <<full, body>>
        BY <1>6, <2>3 DEF RenderBegin
      <3> QED  BY <2>1, <3>1, CopiesRender, Zenon
    <2> QED  BY <2>2, <2>3
  <1>7. ASSUME NEW g \in Groups, RenderEnd(g) PROVE Counted' /\ Holders'
    <2>1. /\ st[g] = "drain" /\ g \notin Local /\ st' = [st EXCEPT ![g] = "lookup"]
          /\ Drained(g) /\ UNCHANGED <<full, buf>>
      BY <1>7 DEF RenderEnd, attemptVars
    <2> QED  BY <2>1, CopiesDrained, Zenon
  <1>8. ASSUME NEW g \in Groups, LookupMX(g) PROVE Counted' /\ Holders'
    <2>1. g \notin Local /\ st[g] = "lookup"
      BY <1>2, <1>8 DEF LookupMX
    <2>2. CASE \E err \in DnsErrors : Return(g, err)
      BY <2>1, <2>2, CopiesReturn DEF Attempt
    <2>3. CASE ~ \E err \in DnsErrors : Return(g, err)
      <3>1. /\ UNCHANGED <<entityVars, buf, full>>
            /\ st[g] = "lookup" /\ st' = [st EXCEPT ![g] = "relay"]
        BY <1>8, <2>3 DEF LookupMX, attemptVars
      <3> QED  BY <3>1, CopiesMoves, Zenon DEF Stages
    <2> QED  BY <2>2, <2>3
  <1>9. ASSUME NEW g \in Groups, SendMail(g) PROVE Counted' /\ Holders'
    BY <1>2, <1>9, CopiesSendMail, Zenon DEF SendMail
  <1>10. ASSUME NEW g \in Groups, RelayEnd(g) PROVE Counted' /\ Holders'
    BY <1>2, <1>10, CopiesReturn DEF RelayEnd, Attempt
  <1>11. ASSUME NEW g \in Groups, WakeUp(g) PROVE Counted' /\ Holders'
    <2>1. /\ UNCHANGED <<entityVars, buf, full>>
          /\ st[g] = "sleeping" /\ st' = [st EXCEPT ![g] = "pushing"]
      BY <1>11 DEF WakeUp, attemptVars
    <2> QED  BY <2>1, CopiesMoves, Zenon DEF Stages
  <1>12. ASSUME NEW g \in Groups, Push(g) PROVE Counted' /\ Holders'
    <2>1. /\ UNCHANGED <<entityVars, buf, full>>
          /\ st[g] = "pushing" /\ st' = [st EXCEPT ![g] = "queued"]
      BY <1>12 DEF Push, attemptVars
    <2> QED  BY <2>1, CopiesMoves, Zenon DEF Stages
  <1>13. CASE TakeEmail
    <2>1. sender[1] \in Groups /\ st[sender[1]] = "queued" /\ st' = [st EXCEPT ![sender[1]] = "render"]
      BY <1>13 DEF TakeEmail, CopiesInv, TokensInv, TypeOK, QueueInv
    <2>2. UNCHANGED <<entityVars, buf, full>>
      BY <1>13 DEF TakeEmail, attemptVars
    <2> QED  BY <2>1, <2>2, CopiesMoves, Zenon DEF Stages
  <1>14. CASE TakeToken \/ Stop \/ UNCHANGED vars
    <2>1. UNCHANGED <<st, full, buf, body, readers>>
      BY <1>14 DEF TakeToken, Stop, vars, entityVars, attemptVars
    <2> QED  BY <1>1, <2>1 DEF Counted, Holders, InBuf, InBody, Begun
  <1> QED  BY <1>3, <1>4, <1>5, <1>6, <1>7, <1>8, <1>9, <1>10, <1>11, <1>12,
              <1>13, <1>14 DEF Next, Work

\* However the relays of a domain fail and however often send retries, a group
\* gets at most one complete copy for each buffer made for its email: one, if
\* all the recipients are in one domain.
THEOREM CopiesBounded == Spec => []CompleteCopies
  <1>1. CopiesInv => CompleteCopies
    <2> SUFFICES ASSUME CopiesInv, NEW g \in Groups
                 PROVE  full[g] <= Cardinality(Begun(Entity[g]))
      BY DEF CompleteCopies
    <2>1. full[g] \in Nat /\ InBuf(g) \in 0..1 /\ InBody(g) \in 0..1
      BY DEF CopiesInv, TokensInv, TypeOK, InBuf, InBody
    <2> QED  BY <2>1, BegunFinite DEF CopiesInv, Counted
  <1> QED  BY <1>1, CopiesInit, CopiesStep, PTL DEF Spec
=============================================================================
