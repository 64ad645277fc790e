-------------------------- MODULE EmailStoreProofs --------------------------
(***************************************************************************)
(* Theorems about EmailStore, for every value of its constants.            *)
(***************************************************************************)
EXTENDS EmailStore, TLAPS

\* A daemon that starts with empty files and an empty database.
LEMMA InitTypes == Init => TypeOK
<1> SUFFICES ASSUME Init PROVE TypeOK
  OBVIOUS
<1> USE ConstantsAssumption DEF Init
<1>1. FileTypes
  BY DEF FileTypes, Unit, Hole
<1>2. DbTypes
  BY DEF DbTypes
<1>3. MetaTypes
  BY DEF MetaTypes, Meta, NoMeta, Names, Uint32
<1>4. CallTypes
  BY DEF CallTypes, Loc, NoLoc, Uint32
<1>5. LocalTypes
  BY Zenon DEF LocalTypes, Storing, Deleting, StorePcs, DeletePcs
<1> QED BY <1>1, <1>2, <1>3, <1>4, <1>5 DEF TypeOK

\* The variables of the files change only where an email is written or marked.
LEMMA FileTypesStep == TypeOK /\ [Next]_vars => FileTypes'
<1> SUFFICES ASSUME TypeOK, [Next]_vars PROVE FileTypes'
  OBVIOUS
<1>1. ASSUME UNCHANGED fileVars PROVE FileTypes'
  BY <1>1 DEF TypeOK, FileTypes, fileVars
<1>2. ASSUME NEW f, NEW at \in Uint32, NEW m \in Msgs, NEW lo \in Nat, NEW hi \in Nat,
             Write(f, at, m, lo, hi)
      PROVE  FileTypes'
  <2>1. size' \in [Names -> Nat]
    <3>1. at + hi + 1 \in Nat
      BY ConstantsAssumption DEF Uint32
    <3> QED BY <1>2, <3>1, Zenon DEF Write, TypeOK, FileTypes
  <2>2. ASSUME NEW o \in Offsets, o - at \in lo..hi
        PROVE  [msg |-> m, pos |-> o - at, del |-> FALSE] \in Unit
    BY <1>2, <2>2, ConstantsAssumption DEF Unit, Uint32, Offsets
  <2>3. ASSUME f \in Names
        PROVE  [o \in Offsets |-> IF o - at \in lo..hi
                  THEN [msg |-> m, pos |-> o - at, del |-> FALSE]
                  ELSE disk[f][o]] \in [Offsets -> Unit]
    BY <2>2, <2>3 DEF TypeOK, FileTypes
  <2> QED BY <1>2, <2>1, <2>3 DEF Write, TypeOK, FileTypes
<1>3. ASSUME NEW c \in Calls, WriteHeader(c) PROVE FileTypes'
  <2>1. loc[c].at \in Uint32 /\ loc[c].msg \in Msgs
    BY <1>3 DEF WriteHeader, TypeOK, CallTypes, LocalTypes, Storing, StorePcs, Loc
  <2> QED BY <1>1, <1>2, <1>3, <2>1 DEF WriteHeader
<1>4. ASSUME NEW c \in Calls, WriteBody(c) PROVE FileTypes'
  <2>1. loc[c].at \in Uint32 /\ loc[c].msg \in Msgs
    BY <1>4 DEF WriteBody, TypeOK, CallTypes, LocalTypes, Storing, StorePcs, Loc
  <2>2. Size[loc[c].msg] \in Nat
    BY <2>1, ConstantsAssumption
  <2> QED BY <1>1, <1>2, <1>4, <2>1, <2>2 DEF WriteBody
<1>5. ASSUME NEW c \in Calls, MarkDeleted(c) PROVE FileTypes'
  <2>1. CASE UNCHANGED disk
    BY <1>5, <2>1 DEF MarkDeleted, TypeOK, FileTypes
  <2>2. CASE disk' = [disk EXCEPT ![loc[c].file][loc[c].off].del = TRUE]
    <3>1. disk' \in [Names -> [Offsets -> Unit]]
      <4> DEFINE f == loc[c].file
                 o == loc[c].off
      <4>1. \A u \in Unit : [u EXCEPT !.del = TRUE] \in Unit
        BY Zenon DEF Unit
      <4>2. ASSUME f \in Names
            PROVE  [disk[f] EXCEPT ![o].del = TRUE] \in [Offsets -> Unit]
        BY <4>1, <4>2, Zenon DEF TypeOK, FileTypes
      <4> QED BY <2>2, <4>2, Zenon DEF TypeOK, FileTypes
    <3> QED BY <1>5, <3>1 DEF MarkDeleted, TypeOK, FileTypes
  <2> QED BY <1>5, <2>1, <2>2 DEF MarkDeleted
<1>6. ASSUME NEW c \in Calls, NEW m \in Msgs, BeginStore(c, m) PROVE FileTypes'
  BY <1>1, <1>6 DEF BeginStore
<1>7. ASSUME NEW c \in Calls, StoreStep(c) PROVE FileTypes'
  BY <1>1, <1>3, <1>4, <1>7
     DEF StoreStep, ReadOffset, OpenFile, StatFile, NewEmail, Commit, Update
<1>8. ASSUME NEW c \in Calls, DeleteStep(c) PROVE FileTypes'
  BY <1>1, <1>5, <1>8 DEF DeleteStep, RemoveRow
<1>9. ASSUME NEW c \in Calls, NEW id \in DOMAIN rows, BeginDelete(c, id)
      PROVE  FileTypes'
  BY <1>1, <1>9 DEF BeginDelete
<1> QED
  BY <1>1, <1>6, <1>7, <1>8, <1>9
     DEF Next, vars, CleanEmails, SaveBegin, SaveEnd, Restart, Crash, Tick

\* The rows change where a store commits and where rows are deleted.
LEMMA DbTypesStep == TypeOK /\ [Next]_vars => DbTypes'
<1> SUFFICES ASSUME TypeOK, [Next]_vars PROVE DbTypes'
  OBVIOUS
<1> USE DEF TypeOK, DbTypes
<1>1. ASSUME UNCHANGED dbVars PROVE DbTypes'
  BY <1>1 DEF dbVars
<1>2. ASSUME NEW ids, Drop(ids), lock' \in Calls \cup {Free, Refused, Abandoned} PROVE DbTypes'
  BY <1>2 DEF Drop, Row
<1>3. ASSUME NEW c \in Calls, NewEmail(c) PROVE DbTypes'
  BY <1>3 DEF NewEmail
<1>4. ASSUME NEW c \in Calls, Commit(c) PROVE DbTypes'
  <2>1. loc[c].id \in Nat /\ loc[c].off \in Uint32
    BY <1>4 DEF CallTypes, Loc
  <2>2. loc[c].msg \in Msgs /\ loc[c].file \in Names
    BY <1>4 DEF Commit, LocalTypes, Storing, StorePcs
  <2>3. Slot(c) \in Row
    BY <2>1, <2>2, SMTT(30) DEF Slot, Row
  <2> QED BY <1>4, <2>1, <2>3 DEF Commit
<1>5. ASSUME NEW c \in Calls, StoreStep(c) PROVE DbTypes'
  BY <1>1, <1>3, <1>4, <1>5 DEF StoreStep, ReadOffset, OpenFile, StatFile,
     WriteHeader, WriteBody, Update
<1>6. ASSUME NEW c \in Calls, DeleteStep(c) PROVE DbTypes'
  BY <1>1, <1>2, <1>6 DEF DeleteStep, RemoveRow, MarkDeleted
<1>7. ASSUME NEW ids, CleanEmails(ids) PROVE DbTypes'
  BY <1>2, <1>7 DEF CleanEmails
<1>8. ASSUME Restart \/ Crash PROVE DbTypes'
  BY <1>8 DEF Restart, Crash
<1>9. ASSUME NEW c \in Calls, NEW m \in Msgs, BeginStore(c, m) PROVE DbTypes'
  BY <1>1, <1>9 DEF BeginStore
<1>10. ASSUME NEW c \in Calls, NEW id \in DOMAIN rows, BeginDelete(c, id)
       PROVE  DbTypes'
  BY <1>1, <1>10 DEF BeginDelete
<1> QED
  BY <1>1, <1>5, <1>6, <1>7, <1>8, <1>9, <1>10
     DEF Next, vars, SaveBegin, SaveEnd, Tick

\* The position in memory and the saved one stay a file and a uint32.
LEMMA MetaTypesStep == TypeOK /\ [Next]_vars => MetaTypes'
<1> SUFFICES ASSUME TypeOK, [Next]_vars PROVE MetaTypes'
  OBVIOUS
<1> USE DEF TypeOK, MetaTypes
<1>1. ASSUME UNCHANGED <<metaVars, clock>> PROVE MetaTypes'
  BY <1>1 DEF metaVars
<1>2. ASSUME NEW c \in Calls, Update(c) PROVE MetaTypes'
  <2>1. loc[c].off \in Uint32 /\ loc[c].msg \in Msgs /\ loc[c].file \in Names
    BY <1>2 DEF Update, CallTypes, LocalTypes, Loc, Storing, StorePcs
  <2>2. loc[c].off + 1 + Size[loc[c].msg] \in Nat
    BY <2>1, ConstantsAssumption DEF Uint32
  <2>3. (loc[c].off + 1 + Size[loc[c].msg]) % Wrap \in Uint32
    BY <2>2, ConstantsAssumption DEF Uint32
  <2>4. cache' \in Meta
    BY <1>2, <2>1, <2>3, Zenon DEF Update, Meta
  <2> QED BY <1>2, <2>4 DEF Update
<1>3. ASSUME NEW c \in Calls, StoreStep(c) PROVE MetaTypes'
  BY <1>1, <1>2, <1>3 DEF StoreStep, ReadOffset, OpenFile, StatFile,
     WriteHeader, WriteBody, NewEmail, Commit
<1>4. ASSUME NEW c \in Calls, DeleteStep(c) PROVE MetaTypes'
  BY <1>1, <1>4 DEF DeleteStep, RemoveRow, MarkDeleted
<1>5. ASSUME NEW c \in Calls, NEW m \in Msgs, BeginStore(c, m) PROVE MetaTypes'
  BY <1>1, <1>5 DEF BeginStore
<1>6. ASSUME NEW c \in Calls, NEW id \in DOMAIN rows, BeginDelete(c, id)
      PROVE  MetaTypes'
  BY <1>1, <1>6 DEF BeginDelete
<1>7. ASSUME NEW f \in Names \cup {NoFile}, NEW b \in BOOLEAN,
             saver' = [busy |-> b, file |-> f], cache' \in Meta, saved' \in Meta,
             UNCHANGED clock
      PROVE  MetaTypes'
  BY <1>7
<1>8. ASSUME SaveBegin PROVE MetaTypes'
  BY <1>7, <1>8 DEF SaveBegin, Meta
<1>10. ASSUME SaveEnd PROVE MetaTypes'
  <2>1. saved' \in Meta
    BY <1>10 DEF SaveEnd, Meta
  <2> QED BY <1>7, <1>10, <2>1 DEF SaveEnd
<1>11. ASSUME Restart PROVE MetaTypes'
  BY <1>11 DEF Restart
<1>12. ASSUME Crash PROVE MetaTypes'
  BY <1>7, <1>12 DEF Crash
<1>9. ASSUME Tick PROVE MetaTypes'
  BY <1>9, ConstantsAssumption DEF Tick, Names, metaVars
<1> QED
  BY <1>1, <1>3, <1>4, <1>5, <1>6, <1>8, <1>9, <1>10, <1>11, <1>12
     DEF Next, vars, CleanEmails

\* A call assigns its locals before the code uses them.
LEMMA CallTypesStep == TypeOK /\ [Next]_vars => CallTypes' /\ LocalTypes'
<1> SUFFICES ASSUME TypeOK, [Next]_vars PROVE CallTypes' /\ LocalTypes'
  OBVIOUS
<1> DEFINE Goal == CallTypes' /\ LocalTypes'
           Local(c) == /\ Storing(c) => loc[c].msg \in Msgs
                       /\ pc[c] \in StorePcs \ {"offset", "open"} =>
                            loc[c].file \in Names /\ loc[c].to \in Names
                       /\ Deleting(c) => Slot(c) \in Row
           Pcs == StorePcs \cup DeletePcs \cup {"idle"}
<1> USE DEF TypeOK, CallTypes
<1>0. NoLoc \in Loc
  BY ConstantsAssumption DEF NoLoc, Loc, Uint32
<1>1. ASSUME UNCHANGED callVars PROVE Goal
  BY <1>1 DEF callVars, LocalTypes, Storing, Deleting, Slot
\* A step of one call: its new program counter and locals fit each other.
<1>2. ASSUME NEW c \in Calls, NEW p \in Pcs, NEW l \in Loc,
             pc' = [pc EXCEPT ![c] = p], loc' = [loc EXCEPT ![c] = l],
             p \in StorePcs => l.msg \in Msgs,
             p \in StorePcs \ {"offset", "open"} => l.file \in Names /\ l.to \in Names,
             p \in DeletePcs => [msg |-> l.msg, file |-> l.file, off |-> l.off] \in Row,
             result' \in [Msgs -> {"new", "called", "nil", "error"}]
      PROVE  Goal
  <2>1. CallTypes'
    BY <1>2
  <2>2. ASSUME NEW d \in Calls PROVE Local(d)'
    <3>1. CASE d = c
      BY <1>2, <3>1 DEF Storing, Deleting, Slot
    <3>2. CASE d # c
      BY <1>2, <3>2 DEF Storing, Deleting, Slot, LocalTypes
    <3> QED BY <3>1, <3>2
  <2> QED BY <2>1, <2>2 DEF LocalTypes
<1>3. ASSUME NEW c \in Calls, Return(c),
             result' \in [Msgs -> {"new", "called", "nil", "error"}]
      PROVE  Goal
  BY <1>0, <1>2, <1>3, Zenon DEF Return, Goto, StorePcs, DeletePcs
<1>4. ASSUME NEW c \in Calls, Fail(c) PROVE Goal
  BY <1>3, <1>4, Zenon DEF Fail
<1>5. ASSUME NEW c \in Calls, NEW m \in Msgs, BeginStore(c, m) PROVE Goal
  <2> DEFINE l == [NoLoc EXCEPT !.msg = m, !.file = cache.file]
  <2>1. l \in Loc /\ l.msg = m
    BY <1>0, Zenon DEF MetaTypes, Meta, Loc
  <2>2. "offset" \in StorePcs /\ "offset" \notin DeletePcs
    BY DEF StorePcs, DeletePcs
  <2> QED BY <1>2, <1>5, <2>1, <2>2, Zenon DEF BeginStore, Goto
<1>6. ASSUME NEW c \in Calls, ReadOffset(c) PROVE Goal
  <2> DEFINE l == [loc[c] EXCEPT !.off = cache.off]
  <2>1. l \in Loc /\ l.msg = loc[c].msg
    BY DEF MetaTypes, Meta, Loc
  <2>2. "open" \in StorePcs /\ "open" \notin DeletePcs /\ loc[c].msg \in Msgs
    BY <1>6 DEF StorePcs, DeletePcs, ReadOffset, LocalTypes, Storing
  <2>3. loc' = [loc EXCEPT ![c] = l]
    BY <1>6 DEF ReadOffset
  <2> QED BY <1>2, <1>6, <2>1, <2>2, <2>3, Zenon DEF ReadOffset, Goto
<1>7. ASSUME NEW c \in Calls, OpenFile(c) PROVE Goal
  <2> DEFINE k == loc[c]
             append == k.msg \notin Big /\ k.file # NoFile
             last == IF append /\ size[k.file] >= MaxFileSize THEN clock ELSE k.file
             to == IF append THEN last ELSE clock
             at == IF append THEN k.off ELSE 0
             file == IF last = NoFile THEN to ELSE last
             off == IF last = NoFile THEN at ELSE k.off
             l == [k EXCEPT !.to = to, !.at = at, !.file = file, !.off = off]
  <2>1. k \in Loc /\ k.msg \in Msgs /\ clock \in Names
    BY <1>7 DEF OpenFile, LocalTypes, MetaTypes, Storing, StorePcs
  <2>2. to \in Names /\ file \in Names /\ at \in Uint32 /\ off \in Uint32
    BY <2>1, ConstantsAssumption DEF Loc, Names, NoFile, Uint32
  <2>3. l \in Loc /\ l.msg = k.msg /\ l.file = file /\ l.to = to
    <3> HIDE DEF to, at, file, off
    <3> QED BY <2>1, <2>2, Zenon DEF Loc
  <2>4. loc' = [loc EXCEPT ![c] = l]
    BY <1>7, Zenon DEF OpenFile
  <2>5. pc' = [pc EXCEPT ![c] = "stat"] /\ result' = result
    BY <1>7 DEF OpenFile, Goto
  <2>6. "stat" \in StorePcs /\ "stat" \notin DeletePcs
    BY DEF StorePcs, DeletePcs
  <2> HIDE DEF l, to, at, file, off
  <2> QED BY <1>2, <2>1, <2>2, <2>3, <2>4, <2>5, <2>6, Zenon
\* A call goes on with the locals it has.
<1>8. ASSUME NEW c \in Calls, NEW p \in StorePcs, pc' = [pc EXCEPT ![c] = p],
             pc[c] \in StorePcs \ {"offset", "open"}, UNCHANGED <<loc, result>>
      PROVE  Goal
  <2>1. loc' = [loc EXCEPT ![c] = loc[c]]
    BY <1>8
  <2>2. p \notin DeletePcs
    BY <1>8 DEF StorePcs, DeletePcs
  <2> QED BY <1>2, <1>8, <2>1, <2>2, Zenon DEF LocalTypes, Storing
<1>9. ASSUME NEW c \in Calls, StatFile(c) \/ WriteHeader(c) \/ WriteBody(c) \/ Commit(c)
      PROVE  Goal
  BY <1>4, <1>8, <1>9 DEF StatFile, WriteHeader, WriteBody, Commit, Goto, StorePcs
<1>10. ASSUME NEW c \in Calls, NewEmail(c) PROVE Goal
  <2>1. CASE Fail(c)
    BY <1>4, <2>1
  <2>2. ASSUME NEW id \in {1} \cup {i + 1 : i \in DOMAIN rows},
               loc' = [loc EXCEPT ![c].id = id], Goto(c, "commit"), UNCHANGED result
        PROVE  Goal
    <3>1. id \in Nat
      <4>1. DOMAIN rows \subseteq Nat
        BY DEF DbTypes
      <4> QED BY <4>1
    <3> DEFINE l == [loc[c] EXCEPT !.id = id]
    <3>2. l \in Loc /\ l.msg = loc[c].msg /\ l.file = loc[c].file /\ l.to = loc[c].to
      BY <3>1 DEF Loc
    <3>3. "commit" \in StorePcs \ {"offset", "open"} /\ "commit" \notin DeletePcs
      BY DEF StorePcs, DeletePcs
    <3>4. loc[c].msg \in Msgs /\ loc[c].file \in Names /\ loc[c].to \in Names
      BY <1>10 DEF NewEmail, LocalTypes, Storing, StorePcs
    <3> QED BY <1>2, <2>2, <3>2, <3>3, <3>4, Zenon DEF Goto
  <2> QED BY <1>10, <2>1, <2>2 DEF NewEmail
<1>11. ASSUME NEW c \in Calls, Update(c) PROVE Goal
  BY <1>3, <1>11, Zenon DEF Update
<1>12. ASSUME NEW c \in Calls, NEW id \in DOMAIN rows, BeginDelete(c, id) PROVE Goal
  <2> DEFINE r == rows[id]
             l == [NoLoc EXCEPT !.msg = r.msg, !.file = r.file, !.off = r.off, !.id = id]
  <2>1. r \in Row /\ id \in Nat
    BY DEF DbTypes
  <2>2. l \in Loc /\ [msg |-> l.msg, file |-> l.file, off |-> l.off] \in Row
    BY <1>0, <2>1, Zenon DEF Loc, Row
  <2>3. "remove" \in DeletePcs /\ "remove" \notin StorePcs
    BY DEF StorePcs, DeletePcs
  <2> QED BY <1>2, <1>12, <2>2, <2>3, Zenon DEF BeginDelete, Goto
<1>13. ASSUME NEW c \in Calls, DeleteStep(c) PROVE Goal
  <2>1. CASE pc[c] = "remove" /\ Goto(c, "mark") /\ UNCHANGED <<loc, result>>
    <3>1. loc' = [loc EXCEPT ![c] = loc[c]] /\ loc[c] \in Loc
      BY <2>1
    <3>2. Slot(c) \in Row /\ "mark" \in DeletePcs /\ "mark" \notin StorePcs
      BY <2>1 DEF LocalTypes, Deleting, DeletePcs, StorePcs
    <3> QED BY <1>2, <2>1, <3>1, <3>2, Zenon DEF Goto, Slot
  <2>2. CASE Return(c) /\ UNCHANGED result
    BY <1>3, <2>2
  <2> QED BY <1>13, <2>1, <2>2 DEF DeleteStep, RemoveRow, MarkDeleted
<1>14. ASSUME Crash PROVE Goal
  BY <1>0, <1>14 DEF Crash, LocalTypes, Storing, Deleting, StorePcs, DeletePcs
<1>15. ASSUME NEW c \in Calls, StoreStep(c) PROVE Goal
  BY <1>6, <1>7, <1>9, <1>10, <1>11, <1>15 DEF StoreStep
<1>16. CASE UNCHANGED vars
  BY <1>1, <1>16 DEF vars
<1> QED
  BY <1>1, <1>5, <1>12, <1>13, <1>14, <1>15, <1>16
     DEF Next, CleanEmails, SaveBegin, SaveEnd, Restart, Tick

\* Every variable keeps its type, and the locals of a call are defined where
\* the code uses them.
THEOREM TypeCorrect == Spec => []TypeOK
<1>1. TypeOK /\ [Next]_vars => TypeOK'
  BY FileTypesStep, DbTypesStep, MetaTypesStep, CallTypesStep DEF TypeOK
<1> QED BY InitTypes, <1>1, PTL DEF Spec

-----------------------------------------------------------------------------
\* No email is listed at the start, and none was stored.
LEMMA AtomicInit == Init => AtomicInv
  BY DEF Init, AtomicInv, StoreIsAtomic, IdIsFresh, Seen, Storing, StorePcs

\* Every step keeps it.  A commit is the only step that lists an email, and it
\* holds the lock under which its id was free.
LEMMA AtomicStep == TypeOK /\ TypeOK' /\ AtomicInv /\ [Next]_vars => AtomicInv'
<1> SUFFICES ASSUME TypeOK, TypeOK', AtomicInv, [Next]_vars PROVE AtomicInv'
  OBVIOUS
<1> USE DEF AtomicInv, StoreIsAtomic, IdIsFresh, InFlight, Seen
<1>0. /\ pc \in [Calls -> StorePcs \cup DeletePcs \cup {"idle"}]
      /\ loc \in [Calls -> Loc]
      /\ result \in [Msgs -> {"new", "called", "nil", "error"}]
      /\ \A c \in Calls : Storing(c) => loc[c].msg \in Msgs
      /\ \A c \in Calls : pc[c] = "commit" => Storing(c)
      /\ \A c \in Calls : Deleting(c) => ~Storing(c)
  BY DEF TypeOK, CallTypes, LocalTypes, Storing, StorePcs, Deleting, DeletePcs
<1>1. CASE UNCHANGED <<dbVars, callVars>>
  BY <1>1 DEF dbVars, callVars, Storing
\* A store goes on, its transaction neither begun nor ended.
<1>2. ASSUME NEW c \in Calls, Storing(c), pc[c] # "update",
             NEW p \in StorePcs \ {"update", "commit"}, pc' = [pc EXCEPT ![c] = p],
             loc'[c].msg = loc[c].msg,
             \A d \in Calls \ {c} : loc'[d] = loc[d],
             UNCHANGED <<dbVars, result>>
      PROVE  AtomicInv'
  BY <1>0, <1>2 DEF dbVars, Storing
\* A store fails before its commit; nobody else loses the write lock.
<1>3. ASSUME NEW c \in Calls, Storing(c), pc[c] # "update", Fail(c),
             UNCHANGED <<rows, deleted>>,
             lock' = lock \/ \A d \in Calls \ {c} : pc[d] # "commit"
      PROVE  AtomicInv'
  <2>1. /\ pc' = [pc EXCEPT ![c] = "idle"] /\ loc' = [loc EXCEPT ![c] = NoLoc]
        /\ result' = [result EXCEPT ![loc[c].msg] = "error"]
    BY <1>3 DEF Fail, Return, Goto
  <2>2. "idle" \notin StorePcs /\ "commit" \in StorePcs
    BY DEF StorePcs
  <2> QED BY <1>0, <1>3, <2>1, <2>2 DEF Storing
<1>4. ASSUME NEW c \in Calls, NEW m \in Msgs, BeginStore(c, m) PROVE AtomicInv'
  <2>1. loc'[c].msg = m /\ \A d \in Calls \ {c} : loc'[d] = loc[d]
    BY <1>0, <1>4 DEF BeginStore, NoLoc
  <2>2. "offset" \in StorePcs \ {"update", "commit"} /\ "idle" \notin StorePcs
    BY DEF StorePcs
  <2>3. /\ pc[c] = "idle" /\ pc' = [pc EXCEPT ![c] = "offset"]
        /\ result[m] = "new" /\ result' = [result EXCEPT ![m] = "called"]
        /\ UNCHANGED <<rows, deleted, lock>>
    BY <1>4 DEF BeginStore, Goto, dbVars
  <2>4. \A k : Seen(k)' <=> Seen(k)
    BY <2>3
  <2>5. ~Seen(m) /\ \A d \in Calls : Storing(d) => loc[d].msg # m
    BY <1>0, <2>3
  <2> HIDE DEF Seen
  <2>6. StoreIsAtomic'
    BY <1>0, <2>3, <2>4
  <2>7. ASSUME NEW d \in Calls, Storing(d)' PROVE InFlight(d)'
    <3>1. \A e \in Calls \ {c} : (Storing(e)' <=> Storing(e)) /\ pc'[e] = pc[e]
      BY <1>0, <2>3 DEF Storing
    <3>2. CASE d = c
      BY <1>0, <2>1, <2>2, <2>3, <2>4, <2>5, <3>1, <3>2
    <3>3. CASE d # c
      BY <1>0, <2>1, <2>2, <2>3, <2>4, <2>5, <2>7, <3>1, <3>3
    <3> QED BY <3>2, <3>3
  <2>8. IdIsFresh'
    BY <1>0, <2>1, <2>2, <2>3
  <2> QED BY <2>6, <2>7, <2>8
<1>5. ASSUME NEW c \in Calls, ReadOffset(c) \/ OpenFile(c) PROVE AtomicInv'
  <2>1. loc'[c].msg = loc[c].msg /\ \A d \in Calls \ {c} : loc'[d] = loc[d]
    BY <1>0, <1>5 DEF ReadOffset, OpenFile, Loc
  <2>2. Storing(c) /\ pc[c] # "update" /\ UNCHANGED <<dbVars, result>>
    BY <1>5 DEF ReadOffset, OpenFile, Storing, StorePcs
  <2>3. PICK p \in StorePcs \ {"update", "commit"} : pc' = [pc EXCEPT ![c] = p]
    BY <1>5, Zenon DEF ReadOffset, OpenFile, Goto, StorePcs
  <2> QED BY <1>2, <2>1, <2>2, <2>3, Zenon
<1>6. ASSUME NEW c \in Calls, StatFile(c) \/ WriteHeader(c) \/ WriteBody(c)
      PROVE  AtomicInv'
  <2>1. Storing(c) /\ pc[c] # "update" /\ UNCHANGED dbVars
    BY <1>6 DEF StatFile, WriteHeader, WriteBody, Storing, StorePcs
  <2>2. CASE Fail(c)
    BY <1>3, <2>1, <2>2 DEF dbVars
  <2>3. CASE ~Fail(c)
    BY <1>2, <1>6, <2>1, <2>3 DEF StatFile, WriteHeader, WriteBody, Goto, StorePcs
  <2> QED BY <2>2, <2>3
<1>7. ASSUME NEW c \in Calls, NewEmail(c) PROVE AtomicInv'
  <2>1. Storing(c) /\ pc[c] # "update" /\ UNCHANGED <<rows, deleted>>
    BY <1>7 DEF NewEmail, Storing, StorePcs
  <2>2. CASE Fail(c)
    <3>1. lock = Free => \A d \in Calls : pc[d] # "commit"
      BY <1>0, ConstantsAssumption DEF Free
    <3> QED BY <1>3, <1>7, <2>1, <2>2, <3>1 DEF NewEmail
  <2>3. CASE ~Fail(c)
    <3>1. PICK id : IsNextId(id) /\ loc' = [loc EXCEPT ![c].id = id]
      BY <1>7, <2>3 DEF NewEmail
    <3>2. lock = Free /\ lock' = c /\ pc' = [pc EXCEPT ![c] = "commit"] /\ UNCHANGED result
      BY <1>7, <2>3 DEF NewEmail, Goto
    <3>3. loc'[c].msg = loc[c].msg /\ \A d \in Calls \ {c} : loc'[d] = loc[d]
      BY <1>0, <3>1 DEF Loc
    <3>4. loc'[c].id \notin DOMAIN rows
      <4>1. loc'[c].id = id
        BY <1>0, <3>1 DEF Loc
      <4>2. DOMAIN rows \subseteq Nat
        BY DEF TypeOK, DbTypes
      <4> QED BY <3>1, <4>1, <4>2 DEF IsNextId
    <3>5. \A d \in Calls : pc[d] # "commit"
      BY <1>0, <3>2, ConstantsAssumption DEF Free
    <3>6. "commit" \in StorePcs /\ "commit" # "update"
      BY DEF StorePcs
    <3> QED BY <1>0, <2>1, <3>2, <3>3, <3>4, <3>5, <3>6 DEF Storing
  <2> QED BY <2>2, <2>3
<1>8. ASSUME NEW c \in Calls, Commit(c) PROVE AtomicInv'
  <2>1. Storing(c) /\ pc[c] = "commit" /\ lock = c
    BY <1>0, <1>8 DEF Commit
  <2>2. \A d \in Calls \ {c} : pc[d] # "commit"
    BY <1>0, <2>1
  <2>3. CASE Fail(c) /\ UNCHANGED rows
    BY <1>3, <1>8, <2>1, <2>2, <2>3, SMTT(30) DEF Commit
  <2>4. CASE ~(Fail(c) /\ UNCHANGED rows)
    <3> DEFINE id == loc[c].id
               m == loc[c].msg
    <3>1. /\ rows' = [i \in DOMAIN rows \cup {id} |-> IF i = id THEN Slot(c) ELSE rows[i]]
          /\ pc' = [pc EXCEPT ![c] = "update"]
          /\ UNCHANGED <<loc, result, deleted>>
      BY <1>8, <2>4 DEF Commit, Goto
    <3>2. id \notin DOMAIN rows
      BY <2>1
    <3>3. \A k : Seen(k)' <=> Seen(k) \/ k = m
      <4>1. Slot(c).msg = m
        BY DEF Slot
      <4>2. DOMAIN rows' = DOMAIN rows \cup {id} /\ rows'[id].msg = m
        BY <3>1, <4>1
      <4>3. \A i \in DOMAIN rows : rows'[i] = rows[i]
        BY <3>1, <3>2
      <4> QED BY <3>1, <4>2, <4>3, ZenonT(60)
    <3>4. "update" \in StorePcs /\ "update" # "commit"
      BY DEF StorePcs
    <3>5. m \in Msgs /\ result[m] = "called" /\ \A d \in Calls : Storing(d) /\ loc[d].msg = m => d = c
      BY <1>0, <2>1
    <3> HIDE DEF Seen, m, id
    <3>6. StoreIsAtomic'
      BY <3>1, <3>3, <3>5
    <3>7. IdIsFresh'
      BY <1>0, <2>2, <3>1, <3>4
    <3>8. ASSUME NEW d \in Calls, Storing(d)' PROVE InFlight(d)'
      <4>1. Storing(d) /\ \A e \in Calls : Storing(e)' => Storing(e)
        BY <1>0, <2>1, <3>1, <3>8 DEF Storing
      <4>2. CASE d = c
        BY <1>0, <2>1, <3>1, <3>3, <3>4, <4>1, <4>2 DEF m
      <4>3. CASE d # c
        BY <1>0, <2>1, <2>2, <3>1, <3>3, <3>5, <4>1, <4>3
      <4> QED BY <4>2, <4>3
    <3> QED BY <3>6, <3>7, <3>8
  <2> QED BY <2>3, <2>4
<1>9. ASSUME NEW c \in Calls, Update(c) PROVE AtomicInv'
  <2>1. /\ pc[c] = "update" /\ pc' = [pc EXCEPT ![c] = "idle"]
        /\ loc' = [loc EXCEPT ![c] = NoLoc]
        /\ result' = [result EXCEPT ![loc[c].msg] = "nil"]
        /\ UNCHANGED dbVars
    BY <1>9 DEF Update, Return, Goto
  <2>2. "idle" \notin StorePcs /\ "update" \in StorePcs
    BY DEF StorePcs
  <2> QED BY <1>0, <2>1, <2>2 DEF dbVars, Storing
\* A step of a call that stores nothing, before and after.
<1>10. ASSUME NEW c \in Calls, NEW p \in DeletePcs \cup {"idle"}, ~Storing(c),
              pc' = [pc EXCEPT ![c] = p],
              \A d \in Calls \ {c} : loc'[d] = loc[d],
              UNCHANGED <<dbVars, result>>
       PROVE  AtomicInv'
  <2>1. p \notin StorePcs /\ "commit" \in StorePcs
    BY <1>10, Zenon DEF StorePcs, DeletePcs
  <2> QED BY <1>0, <1>10, <2>1 DEF dbVars, Storing
\* Rows are deleted, by a call or by CleanEmails.
<1>11. ASSUME NEW ids, Drop(ids), lock = Free, UNCHANGED <<loc, result>>,
              \A d \in Calls : \/ pc'[d] = pc[d]
                               \/ ~Storing(d) /\ pc'[d] \in DeletePcs
       PROVE  AtomicInv'
  <2>1. \A d \in Calls : pc[d] # "commit"
    BY <1>0, <1>11, ConstantsAssumption, SMTT(30) DEF Free
  <2>2. DOMAIN rows' = DOMAIN rows \ ids /\ \A i \in DOMAIN rows' : rows'[i] = rows[i]
    BY <1>11 DEF Drop
  <2>3. \A k : Seen(k)' <=> Seen(k)
    BY <1>11, <2>2 DEF Drop
  <2>4. \A d \in Calls : Storing(d)' => Storing(d) /\ pc'[d] = pc[d]
    BY <1>0, <1>11 DEF Storing, StorePcs, DeletePcs
  <2>5. \A d \in Calls : pc'[d] # "commit"
    BY <1>11, <2>1 DEF DeletePcs
  <2> HIDE DEF Seen
  <2> QED BY <1>0, <1>11, <2>3, <2>4, <2>5, SMTT(30)
<1>12. ASSUME NEW c \in Calls, NEW id \in DOMAIN rows, BeginDelete(c, id)
       PROVE  AtomicInv'
  <2>1. ~Storing(c) /\ "remove" \in DeletePcs
    BY <1>12 DEF BeginDelete, Storing, StorePcs, DeletePcs
  <2> QED BY <1>0, <1>10, <1>12, <2>1, Zenon DEF BeginDelete, Goto
<1>13. ASSUME NEW c \in Calls, DeleteStep(c) PROVE AtomicInv'
  <2>1. ~Storing(c)
    BY <1>0, <1>13 DEF DeleteStep, RemoveRow, MarkDeleted, Storing, StorePcs
  <2>2. CASE Return(c) /\ UNCHANGED <<dbVars, result>>
    BY <1>0, <1>10, <2>1, <2>2, Zenon DEF Return, Goto
  <2>3. CASE lock = Free /\ Drop({loc[c].id}) /\ Goto(c, "mark") /\ UNCHANGED <<loc, result>>
    <3>1. "mark" \in DeletePcs
      BY Zenon DEF DeletePcs
    <3> QED BY <1>0, <1>11, <2>1, <2>3, <3>1, SMTT(30) DEF Goto
  <2> QED BY <1>13, <2>2, <2>3 DEF DeleteStep, RemoveRow, MarkDeleted, dbVars
<1>14. ASSUME NEW ids, CleanEmails(ids) PROVE AtomicInv'
  BY <1>11, <1>14 DEF CleanEmails, callVars
<1>15. ASSUME Restart \/ Crash PROVE AtomicInv'
  <2>1. \A c \in Calls : pc'[c] = "idle"
    BY <1>15 DEF Restart, Crash, callVars
  <2> QED BY <1>15, <2>1 DEF Restart, Crash, callVars, Storing, StorePcs
<1>16. ASSUME SaveBegin \/ SaveEnd \/ Tick PROVE AtomicInv'
  BY <1>1, <1>16 DEF SaveBegin, SaveEnd, Tick
<1>17. ASSUME NEW c \in Calls, StoreStep(c) PROVE AtomicInv'
  BY <1>5, <1>6, <1>7, <1>8, <1>9, <1>17, Zenon DEF StoreStep
<1>18. CASE UNCHANGED vars
  BY <1>1, <1>18 DEF vars
<1> QED
  BY <1>4, <1>12, <1>13, <1>14, <1>15, <1>16, <1>17, <1>18, Zenon DEF Next

\* Besides the two properties below: a store that has not returned is the only
\* one of its email, which is listed only once the store committed, and a store
\* about to commit holds the write lock of SQLite, across errors and crashes.
THEOREM AtomicInvariant == Spec => []AtomicInv
<1>1. TypeOK /\ TypeOK' /\ AtomicInv /\ [Next]_vars => AtomicInv'
  BY AtomicStep
<1> QED BY AtomicInit, TypeCorrect, <1>1, PTL DEF Spec

\* Whatever interleaves, fails or crashes, an email that StoreEmail returned
\* nil for is listed until it is deleted, one it returned an error for is not.
THEOREM StoreAtomic == Spec => []StoreIsAtomic
  BY AtomicInvariant, PTL DEF AtomicInv

\* The id that an insertion was given is still free when its store commits.
THEOREM IdFresh == Spec => []IdIsFresh
  BY AtomicInvariant, PTL DEF AtomicInv

-----------------------------------------------------------------------------
\* The fields of a row are numbers, and its offset is a uint32.
LEMMA RowArith ==
  ASSUME NEW r \in Row
  PROVE  /\ r.file \in Nat /\ r.file > 0 /\ r.file \in Names
         /\ r.off \in Nat /\ r.off < Wrap
         /\ r.msg \in Msgs /\ Size[r.msg] \in Nat
         /\ End(r) = r.off + 1 + Size[r.msg] /\ End(r) \in Nat /\ End(r) > r.off
         /\ \A i \in 0..Size[r.msg] : r.off + i \in Offsets
<1>1. r.file \in Nat /\ r.file > 0 /\ r.file \in Names /\ r.off \in Nat /\ r.off < Wrap
  BY ConstantsAssumption DEF Row, Names, Uint32
<1>2. r.msg \in Msgs /\ Size[r.msg] \in Nat /\ Wrap + Size[r.msg] <= MaxOff
  BY ConstantsAssumption DEF Row
<1> QED BY <1>1, <1>2, ConstantsAssumption DEF End, Offsets

\* A place is a row, or was one until its deletion began.
LEMMA PlacesAreRows == TypeOK => Places \subseteq Row
  BY DEF TypeOK, DbTypes, LocalTypes, Places

\* The place of a store, once its file is chosen.
LEMMA SlotIsRow ==
  ASSUME TypeOK, NEW c \in Calls, pc[c] \in StorePcs \ {"offset", "open"}
  PROVE  Slot(c) \in Row
<1>1. loc[c].msg \in Msgs /\ loc[c].file \in Names
  BY DEF TypeOK, LocalTypes, Storing
<1>2. loc[c].off \in Uint32
  BY DEF TypeOK, CallTypes, Loc
<1> QED BY <1>1, <1>2 DEF Slot, Row

\* No write shortens a file, and what is written is within it.
LEMMA WriteGrows ==
  ASSUME TypeOK, NEW f \in Names, NEW at \in Nat, NEW m, NEW lo, NEW hi \in Nat,
         Write(f, at, m, lo, hi)
  PROVE  /\ \A g \in Names : size'[g] >= size[g]
         /\ size'[f] >= at + hi + 1
<1>1. size \in [Names -> Nat]
  BY DEF TypeOK, FileTypes
<1>2. ASSUME NEW g \in Names, g # f PROVE size'[g] = size[g]
  BY <1>1, <1>2 DEF Write
<1>3. size'[f] = IF size[f] < at + hi + 1 THEN at + hi + 1 ELSE size[f]
  BY <1>1 DEF Write
<1>4. \A g \in Names : size[g] \in Nat
  BY <1>1
<1> QED BY <1>2, <1>3, <1>4

\* Writing beyond a place leaves it as it is.
LEMMA WriteKeeps ==
  ASSUME TypeOK, NEW f \in Names, NEW at \in Nat, NEW m,
         NEW lo \in Nat, NEW hi \in Nat, Write(f, at, m, lo, hi),
         NEW r \in Row, Before(r, [file |-> f, off |-> at]), Written(r)
  PROVE  Written(r)'
<1>1. End(r) <= size[r.file] /\ size[r.file] \in Nat /\ size'[r.file] >= size[r.file]
  BY WriteGrows, RowArith, Zenon DEF Written, TypeOK, FileTypes
<1>2. size'[r.file] \in Nat
  <2>1. size \in [Names -> Nat]
    BY DEF TypeOK, FileTypes
  <2>2. size' \in [Names -> Nat]
    BY <2>1 DEF Write
  <2> QED BY <2>2, RowArith
<1>3. ASSUME NEW i \in 0..Size[r.msg] PROVE disk'[r.file][r.off + i] = disk[r.file][r.off + i]
  <2>1. disk \in [Names -> [Offsets -> Unit]] /\ r.off + i \in Offsets
    BY RowArith DEF TypeOK, FileTypes
  <2>2. CASE r.file # f
    BY <2>1, <2>2, RowArith DEF Write
  <2>3. CASE r.file = f
    <3>1. r.off + i < at
      BY <2>3, RowArith DEF Before
    <3>2. r.off + i - at \notin lo..hi
      BY <3>1, RowArith
    <3> QED BY <2>1, <2>3, <3>2, RowArith DEF Write
  <2> QED BY <2>2, <2>3
<1>4. End(r) <= size'[r.file]
  BY <1>1, <1>2, RowArith
<1> QED BY <1>3, <1>4 DEF Written

\* The first write puts the header of r on disk, ...
LEMMA WriteStarts ==
  ASSUME TypeOK, NEW r \in Row, Write(r.file, r.off, r.msg, 0, 0)
  PROVE  disk'[r.file][r.off] = [msg |-> r.msg, pos |-> 0, del |-> FALSE]
<1>1. disk \in [Names -> [Offsets -> Unit]]
  BY DEF TypeOK, FileTypes
<1>2. r.off \in Offsets /\ r.off - r.off \in 0..0 /\ r.off - r.off = 0
  BY RowArith
<1> QED BY <1>1, <1>2, RowArith, Zenon DEF Write

\* ... and the second completes it.
LEMMA WriteCompletes ==
  ASSUME TypeOK, NEW r \in Row, Write(r.file, r.off, r.msg, 1, Size[r.msg]),
         disk[r.file][r.off] = [msg |-> r.msg, pos |-> 0, del |-> FALSE]
  PROVE  Written(r)'
<1>1. disk \in [Names -> [Offsets -> Unit]]
  BY DEF TypeOK, FileTypes
<1>2. ASSUME NEW i \in 0..Size[r.msg]
      PROVE  disk'[r.file][r.off + i] = [msg |-> r.msg, pos |-> i, del |-> FALSE]
  <2>1. r.off + i \in Offsets /\ (r.off + i) - r.off = i
    BY RowArith
  <2>2. CASE i = 0
    BY <1>1, <2>1, <2>2, RowArith DEF Write
  <2>3. CASE i # 0
    <3>1. i \in 1..Size[r.msg]
      BY <2>3, RowArith
    <3> QED BY <1>1, <2>1, <3>1, RowArith, Zenon DEF Write
  <2> QED BY <2>2, <2>3
<1>3. End(r) <= size'[r.file]
  <2>1. size \in [Names -> Nat]
    BY DEF TypeOK, FileTypes
  <2>2. size'[r.file] \in Nat
    BY <2>1, RowArith DEF Write
  <2> QED BY <2>2, WriteGrows, RowArith
<1> QED BY <1>2, <1>3 DEF Written

\* Marking the header of a place apart from r leaves r as it is.
LEMMA MarkKeeps ==
  ASSUME TypeOK, NEW s \in Row, NEW r \in Row, Apart(r, s), Written(r),
         disk' = [disk EXCEPT ![s.file][s.off].del = TRUE], size' = size
  PROVE  Written(r)'
<1>1. ASSUME NEW i \in 0..Size[r.msg] PROVE disk'[r.file][r.off + i] = disk[r.file][r.off + i]
  <2>1. disk \in [Names -> [Offsets -> Unit]] /\ r.off + i \in Offsets
    BY RowArith DEF TypeOK, FileTypes
  <2>2. CASE r.file # s.file
    BY <2>1, <2>2, RowArith
  <2>3. CASE r.file = s.file
    <3>1. r.off + i # s.off
      BY <2>3, RowArith DEF Apart
    <3> QED BY <2>1, <2>3, <3>1, RowArith
  <2> QED BY <2>2, <2>3
<1> QED BY <1>1 DEF Written

\* A row before the place of another is apart from it.
LEMMA BeforeApart ==
  ASSUME NEW r \in Row, NEW s \in Row, Before(r, [file |-> s.file, off |-> s.off])
  PROVE  Apart(r, s) /\ Apart(s, r)
  BY RowArith DEF Before, Apart

\* What lies before a position lies before every later one.
LEMMA BeforeLater ==
  ASSUME NEW r \in Row, NEW f \in Nat, NEW o \in Nat, NEW p \in Nat, o <= p,
         Before(r, [file |-> f, off |-> o])
  PROVE  Before(r, [file |-> f, off |-> p])
  BY RowArith DEF Before
=============================================================================
