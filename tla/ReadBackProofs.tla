--------------------------- MODULE ReadBackProofs ---------------------------
(***************************************************************************)
(* Every listed email reads back, when the stores of a user come one after *)
(* the other, no email is big and the daemon only stops when idle: proofs  *)
(* about EmailStore, for every value of its other constants.               *)
(***************************************************************************)
EXTENDS EmailStoreProofs

\* The hypotheses under which the storage is correct.
Orderly == SerialStores /\ Big = {} /\ Stops # "any"

-----------------------------------------------------------------------------
\* Nothing is stored at the start.
LEMMA StoreInvInit == Init => StoreInv
<1> SUFFICES ASSUME Init PROVE StoreInv
  OBVIOUS
<1>1. DOMAIN rows = {} /\ \A c \in Calls : pc[c] = "idle"
  BY DEF Init
<1>2. Places = {} /\ \A c \in Calls : ~Storing(c) /\ ~Deleting(c)
  BY <1>1 DEF Places, Storing, Deleting, StorePcs, DeletePcs
<1>3. cache.file <= clock
  BY DEF Init, NoMeta, NoFile
<1> QED BY <1>1, <1>2, <1>3 DEF StoreInv, RowsWritten, RowsApart, DeletionsApart,
           OneStore, CacheBeyond, StoreProgress

\* Steps that touch neither the files nor the rows nor the calls.
LEMMA StoreInvIdle ==
  ASSUME TypeOK, TypeOK', StoreInv, UNCHANGED <<fileVars, rows, pc, loc, cache>>,
         clock' >= clock
  PROVE  StoreInv'
<1>1. cache.file \in Nat /\ clock \in Nat /\ clock' \in Nat
  BY ConstantsAssumption DEF TypeOK, MetaTypes, Meta, Names, NoFile
<1>2. \A c \in Calls : Storing(c) => loc[c].to \in Nat
  BY ConstantsAssumption DEF TypeOK, CallTypes, Loc, Names, NoFile
<1>3. Places' = Places
  BY DEF Places, Slot, Deleting
<1>4. RowsWritten' /\ RowsApart' /\ DeletionsApart' /\ OneStore'
  BY DEF StoreInv, RowsWritten, RowsApart, DeletionsApart, OneStore, Written, fileVars,
         Slot, Deleting, Storing
<1>5. CacheBeyond'
  BY <1>1, <1>3 DEF StoreInv, CacheBeyond, BeforeOrFull, fileVars
<1>6. ASSUME NEW c \in Calls PROVE StoreProgress(c)'
  <2>1. StoreProgress(c)
    BY DEF StoreInv
  <2>2. pc[c] \in {"stat", "header", "body", "insert", "commit", "update"} => Storing(c)
    BY DEF Storing, StorePcs
  <2> QED BY <1>1, <1>2, <1>3, <2>1, <2>2
          DEF StoreProgress, BeforeOrFull, fileVars, Written, Slot, Target
<1> QED BY <1>4, <1>5, <1>6 DEF StoreInv

\* Steps after which there are fewer rows and no new place: the deletions.
LEMMA StoreInvShrinks ==
  ASSUME TypeOK, StoreInv, Places' \subseteq Places,
         DOMAIN rows' \subseteq DOMAIN rows,
         \A i \in DOMAIN rows' : rows'[i] = rows[i],
         UNCHANGED <<fileVars, cache, clock>>,
         \A c \in Calls : \/ pc'[c] = pc[c] /\ loc'[c] = loc[c]
                          \/ ~Storing(c) /\ ~Storing(c)',
         DeletionsApart'
  PROVE  StoreInv'
<1>1. \A r : Written(r)' <=> Written(r)
  BY DEF Written, fileVars
<1>2. RowsWritten' /\ RowsApart'
  BY <1>1 DEF StoreInv, RowsWritten, RowsApart
<1>3. \A c \in Calls : Storing(c)' => Storing(c) /\ pc'[c] = pc[c] /\ loc'[c] = loc[c]
  BY DEF Storing
<1>4. OneStore'
  BY <1>3 DEF StoreInv, OneStore
<1>5. \A c \in Calls : pc[c] = "update" => pc'[c] = "update"
  BY DEF Storing, StorePcs
<1>6. CacheBeyond'
  BY <1>5 DEF StoreInv, CacheBeyond, BeforeOrFull, fileVars
<1>7. ASSUME NEW c \in Calls PROVE StoreProgress(c)'
  <2>1. CASE Storing(c)'
    <3>1. StoreProgress(c) /\ pc'[c] = pc[c] /\ loc'[c] = loc[c]
      BY <1>3, <2>1 DEF StoreInv
    <3>2. Slot(c)' = Slot(c) /\ Target(c)' = Target(c)
      BY <3>1 DEF Slot, Target
    <3> QED BY <1>1, <3>1, <3>2 DEF StoreProgress, BeforeOrFull, fileVars
  <2>2. CASE ~Storing(c)'
    BY <2>2 DEF Storing, StorePcs, StoreProgress
  <2> QED BY <2>1, <2>2
<1> QED BY <1>2, <1>4, <1>6, <1>7 DEF StoreInv

\* A deletion marks the place of the row it read, which touches no other.
LEMMA StoreInvDeletes ==
  ASSUME TypeOK, StoreInv, NEW c \in Calls,
         (\E id \in DOMAIN rows : BeginDelete(c, id)) \/ DeleteStep(c)
  PROVE  StoreInv'
<1>1. pc \in [Calls -> StorePcs \cup DeletePcs \cup {"idle"}] /\ loc \in [Calls -> Loc]
  BY DEF TypeOK, CallTypes
<1>2. ~Storing(c) /\ ~Storing(c)'
  BY <1>1, Zenon DEF BeginDelete, DeleteStep, RemoveRow, MarkDeleted, Return, Goto, Storing, StorePcs
<1>3. \A d \in Calls \ {c} : pc'[d] = pc[d] /\ loc'[d] = loc[d]
  BY <1>1, Zenon DEF BeginDelete, DeleteStep, RemoveRow, MarkDeleted, Return, Goto
<1>4. \A d \in Calls \ {c} : (Deleting(d)' <=> Deleting(d)) /\ Slot(d)' = Slot(d)
  BY <1>3 DEF Deleting, Slot
<1>frame. \A d \in Calls :
            (pc'[d] = pc[d] /\ loc'[d] = loc[d]) \/ (~Storing(d) /\ ~Storing(d)')
  BY <1>2, <1>3
<1>5. CASE \E id \in DOMAIN rows : BeginDelete(c, id)
  <2>1. PICK id \in DOMAIN rows : BeginDelete(c, id)
    BY <1>5
  <2>2. rows[id] \in Row
    BY DEF TypeOK, DbTypes
  <2>3. loc'[c].id = id /\ Slot(c)' = rows[id] /\ pc'[c] = "remove"
    <3>1. loc'[c] = [NoLoc EXCEPT !.msg = rows[id].msg, !.file = rows[id].file,
                                  !.off = rows[id].off, !.id = id]
      BY <1>1, <2>1, Zenon DEF BeginDelete
    <3> QED BY <1>1, <2>1, <2>2, <3>1, Zenon DEF BeginDelete, Slot, NoLoc, Row, Goto
  <2>4. UNCHANGED <<fileVars, rows, cache, clock>>
    BY <2>1, Zenon DEF BeginDelete, dbVars, metaVars
  <2>5. Places' \subseteq Places
    BY <1>4, <2>3, <2>4 DEF Places
  <2>6. DeletionsApart'
    BY <1>3, <1>4, <2>3, <2>4 DEF StoreInv, DeletionsApart, RowsApart
  <2> QED BY StoreInvShrinks, <1>frame, <2>4, <2>5, <2>6
<1>6. CASE RemoveRow(c)
  <2>1. CASE Return(c) /\ UNCHANGED <<rows, deleted>>
    <3>1. UNCHANGED <<fileVars, rows, cache, clock>> /\ pc'[c] = "idle"
      BY <1>1, <1>6, <2>1 DEF RemoveRow, Return, Goto, metaVars
    <3>2. ~Deleting(c)'
      BY <3>1 DEF Deleting, DeletePcs
    <3>3. Places' \subseteq Places
      BY <1>4, <3>1, <3>2 DEF Places
    <3>4. DeletionsApart'
      BY <1>3, <1>4, <3>1, <3>2 DEF StoreInv, DeletionsApart
    <3> QED BY StoreInvShrinks, <1>frame, <3>1, <3>3, <3>4
  <2>2. CASE ~(Return(c) /\ UNCHANGED <<rows, deleted>>)
    <3>1. /\ rows' = [i \in DOMAIN rows \ {loc[c].id} |-> rows[i]]
          /\ UNCHANGED <<fileVars, loc, cache, clock>>
          /\ pc[c] = "remove" /\ pc'[c] = "mark"
      BY <1>1, <1>6, <2>2 DEF RemoveRow, Drop, Goto, metaVars
    <3>2. Deleting(c) /\ Deleting(c)' /\ Slot(c)' = Slot(c)
      BY <3>1 DEF Deleting, DeletePcs, Slot
    <3>3. /\ DOMAIN rows' = DOMAIN rows \ {loc[c].id}
          /\ \A i \in DOMAIN rows' : rows'[i] = rows[i]
      BY <3>1
    <3>4. Places' \subseteq Places
      BY <1>4, <3>2, <3>3 DEF Places
    <3>5. DeletionsApart'
      BY <1>3, <1>4, <3>1, <3>2, <3>3 DEF StoreInv, DeletionsApart
    <3> QED BY StoreInvShrinks, <1>frame, <3>1, <3>3, <3>4, <3>5
  <2> QED BY <2>1, <2>2
<1>7. CASE MarkDeleted(c)
  <2>1. UNCHANGED <<size, rows, cache, clock>> /\ pc[c] = "mark" /\ pc'[c] = "idle"
    BY <1>1, <1>7 DEF MarkDeleted, Return, Goto, dbVars, metaVars
  <2>2. Deleting(c) /\ ~Deleting(c)' /\ Slot(c) \in Places /\ Slot(c) \in Row
    BY <2>1 DEF Deleting, DeletePcs, Places, TypeOK, LocalTypes
  <2>3. Places' \subseteq Places
    BY <1>4, <2>1, <2>2 DEF Places
  <2>4. DeletionsApart'
    BY <1>3, <1>4, <2>1, <2>2 DEF StoreInv, DeletionsApart
  <2>5. CASE UNCHANGED disk
    BY StoreInvShrinks, <1>frame, <2>1, <2>3, <2>4, <2>5 DEF fileVars
  <2>6. CASE disk' = [disk EXCEPT ![loc[c].file][loc[c].off].del = TRUE]
    <3>1. ASSUME NEW r \in Row, Apart(r, Slot(c)), Written(r) PROVE Written(r)'
      BY <2>1, <2>2, <2>6, <3>1, MarkKeeps, Zenon DEF Slot
    <3>2. RowsWritten'
      <4>1. ASSUME NEW i \in DOMAIN rows PROVE Apart(rows[i], Slot(c)) /\ rows[i] \in Row
        BY <2>1, <2>2 DEF StoreInv, DeletionsApart, TypeOK, DbTypes
      <4> QED BY <2>1, <3>1, <4>1 DEF StoreInv, RowsWritten
    <3>3. RowsApart' /\ OneStore'
      BY <1>2, <1>3, <2>1 DEF StoreInv, RowsApart, OneStore, Storing
    <3>4. CacheBeyond'
      BY <1>3, <2>1, <2>3 DEF StoreInv, CacheBeyond, BeforeOrFull
    <3>5. ASSUME NEW d \in Calls PROVE StoreProgress(d)'
      <4>1. CASE ~Storing(d)'
        BY <4>1, SMTT(30) DEF StoreProgress, Storing, StorePcs
      <4>2. CASE Storing(d)'
        <5>1. d # c /\ pc'[d] = pc[d] /\ loc'[d] = loc[d] /\ StoreProgress(d)
          BY <1>2, <1>3, <4>2 DEF StoreInv
        <5>2. Slot(d)' = Slot(d) /\ Target(d)' = Target(d)
          BY <5>1 DEF Slot, Target
        <5>3. pc[d] \in {"body", "insert", "commit"} => Slot(d) \in Row
          BY SlotIsRow, SMTT(30) DEF StorePcs
        <5>4. pc[d] \in {"body", "insert", "commit"} =>
                Before(Slot(c), [file |-> Slot(d).file, off |-> Slot(d).off])
          BY <2>2, <5>1 DEF StoreProgress, Target, Slot
        <5>5. pc[d] \in {"insert", "commit"} => Written(Slot(d))'
          BY <2>2, <3>1, <5>1, <5>2, <5>3, <5>4, BeforeApart, Zenon DEF StoreProgress
        <5>6. ASSUME pc[d] = "body"
              PROVE  disk'[loc[d].to][loc[d].at] = disk[loc[d].to][loc[d].at]
          <6>1. loc[d].to = Slot(d).file /\ loc[d].at = Slot(d).off
            BY <5>1, <5>6, SMTT(30) DEF StoreProgress, Slot
          <6>2. Slot(d).file # Slot(c).file \/ Slot(d).off # Slot(c).off
            BY <2>2, <5>3, <5>4, <5>6, RowArith DEF Before
          <6>3. disk \in [Names -> [Offsets -> Unit]]
            BY DEF TypeOK, FileTypes
          <6>4. Slot(d).file \in Names /\ Slot(d).off \in Offsets
            BY <5>3, <5>6, RowArith, ConstantsAssumption DEF Offsets
          <6> QED BY <2>6, <6>1, <6>2, <6>3, <6>4, SMTT(30) DEF Slot
        <5> QED BY <2>1, <2>3, <5>1, <5>2, <5>5, <5>6 DEF StoreProgress, BeforeOrFull
      <4> QED BY <4>1, <4>2
    <3> QED BY <2>4, <3>2, <3>3, <3>4, <3>5 DEF StoreInv
  <2> QED BY <1>7, <2>5, <2>6 DEF MarkDeleted
<1> QED BY <1>5, <1>6, <1>7 DEF DeleteStep

\* A store moves on without writing, or ends; its new progress is to be shown.
LEMMA StoreInvMoves ==
  ASSUME TypeOK, StoreInv, NEW c \in Calls,
         ~Deleting(c), ~Deleting(c)', pc[c] # "update", pc'[c] # "update",
         \A d \in Calls \ {c} : pc'[d] = pc[d] /\ loc'[d] = loc[d],
         UNCHANGED <<fileVars, rows, cache, clock>>,
         Storing(c)' => \A d \in Calls \ {c} : ~Storing(d),
         StoreProgress(c)'
  PROVE  StoreInv'
<1>1. \A d \in Calls : (Deleting(d)' <=> Deleting(d)) /\ (Deleting(d) => Slot(d)' = Slot(d))
  BY DEF Deleting, Slot
<1>2. Places' = Places
  BY <1>1 DEF Places
<1>3. \A r : Written(r)' <=> Written(r)
  BY DEF Written, fileVars
<1>4. RowsWritten' /\ RowsApart'
  BY <1>3 DEF StoreInv, RowsWritten, RowsApart
<1>5. DeletionsApart'
  BY <1>1 DEF StoreInv, DeletionsApart
<1>6. OneStore'
  BY DEF StoreInv, OneStore, Storing
<1>7. CacheBeyond'
  BY <1>2 DEF StoreInv, CacheBeyond, BeforeOrFull, fileVars
<1>8. ASSUME NEW d \in Calls, d # c PROVE StoreProgress(d)'
  <2>1. Slot(d)' = Slot(d) /\ Target(d)' = Target(d) /\ StoreProgress(d)
    BY <1>8, Zenon DEF Slot, Target, StoreInv
  <2> QED BY <1>2, <1>3, <1>8, <2>1, Zenon DEF StoreProgress, BeforeOrFull, fileVars
<1> QED BY <1>4, <1>5, <1>6, <1>7, <1>8 DEF StoreInv

\* A store fails.
LEMMA StoreInvFails ==
  ASSUME TypeOK, StoreInv, NEW c \in Calls, Storing(c), pc[c] # "update", Fail(c),
         UNCHANGED <<fileVars, rows, cache, clock>>
  PROVE  StoreInv'
<1>1. pc \in [Calls -> StorePcs \cup DeletePcs \cup {"idle"}] /\ loc \in [Calls -> Loc]
  BY DEF TypeOK, CallTypes
<1>2. pc'[c] = "idle" /\ \A d \in Calls \ {c} : pc'[d] = pc[d] /\ loc'[d] = loc[d]
  BY <1>1 DEF Fail, Return, Goto
<1>3. ~Deleting(c) /\ ~Deleting(c)' /\ ~Storing(c)' /\ StoreProgress(c)'
  BY <1>2 DEF Deleting, DeletePcs, Storing, StorePcs, StoreProgress
<1> QED BY StoreInvMoves, <1>2, <1>3, Zenon

\* A store that begins, or reads the cache, has it to itself.
LEMMA StoreInvBegins ==
  ASSUME Orderly, TypeOK, StoreInv, NEW c \in Calls,
         (\E m \in Msgs : BeginStore(c, m)) \/ ReadOffset(c)
  PROVE  StoreInv'
<1>1. pc \in [Calls -> StorePcs \cup DeletePcs \cup {"idle"}] /\ loc \in [Calls -> Loc]
  BY DEF TypeOK, CallTypes
<1>2. /\ \A d \in Calls \ {c} : pc'[d] = pc[d] /\ loc'[d] = loc[d]
      /\ UNCHANGED <<fileVars, rows, cache, clock>>
  BY <1>1, Zenon DEF BeginStore, ReadOffset, Goto, dbVars, metaVars
<1>3. CASE \E m \in Msgs : BeginStore(c, m)
  <2>1. pc[c] = "idle" /\ pc'[c] = "offset" /\ loc'[c].file = cache.file
    BY <1>1, <1>3, Zenon DEF BeginStore, Goto, NoLoc
  <2>2. \A d \in Calls : ~Storing(d)
    BY <1>3, Zenon DEF BeginStore, Orderly
  <2>3. StoreProgress(c)' /\ ~Deleting(c) /\ ~Deleting(c)'
    BY <1>2, <2>1, SMTT(30) DEF StoreProgress, Deleting, DeletePcs
  <2> QED BY StoreInvMoves, <1>2, <2>1, <2>2, <2>3
<1>4. CASE ReadOffset(c)
  <2>1. /\ pc[c] = "offset" /\ pc'[c] = "open"
        /\ loc'[c].file = loc[c].file /\ loc'[c].off = cache.off
    BY <1>1, <1>4 DEF ReadOffset, Goto, Loc
  <2>2. \A d \in Calls \ {c} : ~Storing(d)
    BY <2>1 DEF StoreInv, OneStore, Storing, StorePcs
  <2>3. StoreProgress(c)' /\ ~Deleting(c) /\ ~Deleting(c)'
    BY <1>2, <2>1, Zenon DEF StoreInv, StoreProgress, Deleting, DeletePcs
  <2> QED BY StoreInvMoves, <1>2, <2>1, <2>2, <2>3
<1> QED BY <1>3, <1>4

\* The file that is opened: the places in it lie before the cached offset, or
\* it is full; a file with a new name holds no place.
LEMMA StoreInvOpens ==
  ASSUME Orderly, TypeOK, StoreInv, NEW c \in Calls, OpenFile(c)
  PROVE  StoreInv'
<1>1. pc \in [Calls -> StorePcs \cup DeletePcs \cup {"idle"}] /\ loc \in [Calls -> Loc]
  BY DEF TypeOK, CallTypes
<1>2. /\ \A d \in Calls \ {c} : pc'[d] = pc[d] /\ loc'[d] = loc[d]
      /\ UNCHANGED <<fileVars, rows, cache, clock>>
      /\ pc[c] = "open" /\ pc'[c] = "stat"
  BY <1>1 DEF OpenFile, Goto, dbVars, metaVars
<1>3. \A d \in Calls \ {c} : ~Storing(d)
  BY <1>2 DEF StoreInv, OneStore, Storing, StorePcs
<1>4. ~Deleting(c) /\ ~Deleting(c)'
  BY <1>2 DEF Deleting, DeletePcs
<1>5. loc[c].file = cache.file /\ loc[c].off = cache.off
  BY <1>2, Zenon DEF StoreInv, StoreProgress
<1>6. /\ cache.file \in Nat /\ cache.file \in Names \cup {NoFile} /\ cache.off \in Nat
      /\ clock \in Nat /\ clock \in Names /\ cache.file <= clock
  BY ConstantsAssumption DEF TypeOK, MetaTypes, Meta, Names, NoFile, Uint32, StoreInv, CacheBeyond
<1>7. \A r \in Places : BeforeOrFull(r, cache)
  <2>1. \A d \in Calls : pc[d] # "update"
    BY <1>2, <1>3 DEF Storing, StorePcs
  <2> QED BY <2>1 DEF StoreInv, CacheBeyond
<1>8. Places' = Places
  <2>1. \A d \in Calls : (Deleting(d)' <=> Deleting(d)) /\ (Deleting(d) => Slot(d)' = Slot(d))
    BY <1>2, <1>4 DEF Deleting, Slot
  <2> QED BY <1>2, <2>1 DEF Places
<1>9. \A r \in Places : r.file \in Nat /\ r.file > 0 /\ (BeforeOrFull(r, cache) => r.file <= cache.file)
  <2>1. ASSUME NEW r \in Places PROVE r.file \in Nat /\ r.file > 0
    BY PlacesAreRows, RowArith
  <2> QED BY <1>6, <2>1 DEF BeforeOrFull, Before
<1>10. loc[c].msg \notin Big
  BY DEF Orderly
<1>11. CASE cache.file = NoFile
  <2>1. /\ loc'[c].to = clock /\ loc'[c].at = 0
        /\ loc'[c].file = clock /\ loc'[c].off = 0
    BY <1>1, <1>5, <1>10, <1>11 DEF OpenFile, Loc
  <2>2. Places = {}
    BY <1>7, <1>9, <1>11 DEF NoFile
  <2>3. StoreProgress(c)'
    BY <1>2, <1>6, <1>8, <2>1, <2>2 DEF StoreProgress
  <2> QED BY StoreInvMoves, <1>2, <1>3, <1>4, <2>3
<1>12. CASE cache.file # NoFile /\ size[cache.file] < MaxFileSize
  <2>1. /\ loc'[c].to = cache.file /\ loc'[c].at = cache.off
        /\ loc'[c].file = cache.file /\ loc'[c].off = cache.off
    <3>1. ~(size[loc[c].file] >= MaxFileSize)
      BY <1>5, <1>6, <1>12, ConstantsAssumption DEF TypeOK, FileTypes
    <3> QED BY <1>1, <1>5, <1>10, <1>12, <3>1 DEF OpenFile, Loc
  <2>2. \A r \in Places : BeforeOrFull(r, Target(c))'
    BY <1>2, <1>7, <2>1, SMTT(30) DEF Target, BeforeOrFull, Before, fileVars
  <2>3. StoreProgress(c)'
    BY <1>2, <1>6, <1>8, <2>1, <2>2 DEF StoreProgress
  <2> QED BY StoreInvMoves, <1>2, <1>3, <1>4, <2>3
<1>13. CASE cache.file # NoFile /\ size[cache.file] >= MaxFileSize
  <2>1. /\ loc'[c].to = clock /\ loc'[c].at = cache.off
        /\ loc'[c].file = clock /\ loc'[c].off = cache.off
    <3>1. clock # NoFile
      BY <1>6 DEF Names, NoFile
    <3> QED BY <1>1, <1>5, <1>10, <1>13, <3>1 DEF OpenFile, Loc
  <2>2. ASSUME NEW r \in Places
        PROVE  r.file < clock \/ (r.file = clock /\ size[clock] >= MaxFileSize)
    <3>1. r.file \in Nat /\ r.file <= cache.file
      BY <1>7, <1>9
    <3>2. r.file < clock \/ (r.file = clock /\ cache.file = clock)
      BY <1>6, <3>1, SMTT(30)
    <3> QED BY <1>13, <3>2
  <2>3. \A r \in Places : BeforeOrFull(r, Target(c))'
    BY <1>2, <2>1, <2>2 DEF Target, BeforeOrFull, Before, fileVars
  <2>4. StoreProgress(c)'
    BY <1>2, <1>6, <1>8, <2>1, <2>3 DEF StoreProgress
  <2> QED BY StoreInvMoves, <1>2, <1>3, <1>4, <2>4
<1>14. cache.file # NoFile => size[cache.file] \in Nat
  BY <1>6 DEF TypeOK, FileTypes
<1> QED BY <1>11, <1>12, <1>13, <1>14, ConstantsAssumption

\* After Stat the target is not in a full file, so it lies beyond every place.
LEMMA StoreInvStats ==
  ASSUME TypeOK, StoreInv, NEW c \in Calls, StatFile(c)
  PROVE  StoreInv'
<1>1. pc \in [Calls -> StorePcs \cup DeletePcs \cup {"idle"}] /\ loc \in [Calls -> Loc]
  BY DEF TypeOK, CallTypes
<1>2. pc[c] = "stat" /\ Storing(c) /\ UNCHANGED <<fileVars, rows, cache, clock>>
  BY DEF StatFile, dbVars, metaVars, Storing, StorePcs
<1>3. CASE Fail(c)
  BY StoreInvFails, <1>2, <1>3
<1>4. CASE ~Fail(c)
  <2>1. /\ pc' = [pc EXCEPT ![c] = "header"] /\ UNCHANGED loc
        /\ ~(size[loc[c].to] >= MaxFileSize)
    <3>1. loc[c].to \in Names
      BY <1>2 DEF TypeOK, LocalTypes, StorePcs
    <3>2. size[loc[c].to] \in Nat
      BY <3>1 DEF TypeOK, FileTypes
    <3> QED BY <1>4, <3>2, ConstantsAssumption DEF StatFile, Goto
  <2>2. pc'[c] = "header" /\ \A d \in Calls \ {c} : pc'[d] = pc[d] /\ loc'[d] = loc[d]
    BY <1>1, <2>1
  <2>3. ~Deleting(c) /\ ~Deleting(c)' /\ \A d \in Calls \ {c} : ~Storing(d)
    BY <1>2, <2>2 DEF StoreInv, OneStore, Deleting, DeletePcs
  <2>4. StoreProgress(c)
    BY DEF StoreInv
  <2>5. Places' = Places
    <3>1. \A d \in Calls : (Deleting(d)' <=> Deleting(d)) /\ Slot(d)' = Slot(d)
      BY <2>1, <2>2, <2>3, SMTT(30) DEF Deleting, Slot
    <3> QED BY <1>2, <3>1 DEF Places
  <2>6. \A r \in Places : Before(r, Target(c))
    BY <1>2, <2>1, <2>4 DEF StoreProgress, BeforeOrFull, Target
  <2>7. StoreProgress(c)'
    BY <1>2, <2>1, <2>2, <2>4, <2>5, <2>6, Zenon DEF StoreProgress, Target
  <2> QED BY StoreInvMoves, <1>2, <2>2, <2>3, <2>7
<1> QED BY <1>3, <1>4

\* A write beyond every place spoils neither the rows nor the cache.
LEMMA WriteLeaves ==
  ASSUME TypeOK, StoreInv, NEW f \in Names, NEW at \in Nat, NEW m, NEW lo \in Nat,
         NEW hi \in Nat, Write(f, at, m, lo, hi),
         \A r \in Places : Before(r, [file |-> f, off |-> at]),
         Places' = Places, UNCHANGED <<rows, cache, clock>>,
         \A d \in Calls : pc[d] # "update"
  PROVE  RowsWritten' /\ CacheBeyond'
<1>1. Places \subseteq Row
  BY PlacesAreRows
<1>2. RowsWritten'
  <2>1. ASSUME NEW r \in Places, Written(r) PROVE Written(r)'
    BY <1>1, <2>1, WriteKeeps
  <2>2. \A i \in DOMAIN rows : rows[i] \in Places /\ Written(rows[i])
    BY DEF Places, StoreInv, RowsWritten
  <2>3. \A i \in DOMAIN rows : \A r : r = rows[i] => Written(r)'
    BY <2>1, <2>2
  <2> QED BY <2>3 DEF RowsWritten
<1>3. CacheBeyond'
  <2>1. ASSUME NEW r \in Places, BeforeOrFull(r, cache) PROVE BeforeOrFull(r, cache)'
    <3>1. CASE Before(r, cache)
      BY <3>1 DEF BeforeOrFull, Before
    <3>2. CASE r.file = cache.file /\ size[cache.file] >= MaxFileSize
      <4>1. r.file \in Names
        BY <1>1, RowArith
      <4>2. /\ size'[r.file] >= size[r.file] /\ size[r.file] \in Nat
            /\ size'[r.file] \in Nat
        <5>1. size \in [Names -> Nat]
          BY DEF TypeOK, FileTypes
        <5>2. size' \in [Names -> Nat]
          BY <5>1 DEF Write
        <5> QED BY <4>1, <5>1, <5>2, WriteGrows
      <4>3. size'[cache.file] >= MaxFileSize
        BY <3>2, <4>2, ConstantsAssumption
      <4> QED BY <3>2, <4>3 DEF BeforeOrFull
    <3> QED BY <2>1, <3>1, <3>2 DEF BeforeOrFull
  <2> QED BY <2>1, Zenon DEF StoreInv, CacheBeyond
<1> QED BY <1>2, <1>3

\* A write that fails halfway goes beyond every place and leaves no trace but
\* there.
LEMMA StoreInvTorn ==
  ASSUME TypeOK, StoreInv, NEW c \in Calls, pc[c] = "body",
         NEW n \in Nat, Write(loc[c].to, loc[c].at, loc[c].msg, 1, n), Fail(c),
         UNCHANGED <<rows, cache, clock>>
  PROVE  StoreInv'
<1> DEFINE f == loc[c].to
           at == loc[c].at
<1>1. pc \in [Calls -> StorePcs \cup DeletePcs \cup {"idle"}] /\ loc \in [Calls -> Loc]
  BY DEF TypeOK, CallTypes
<1>2. pc'[c] = "idle" /\ \A d \in Calls \ {c} : pc'[d] = pc[d] /\ loc'[d] = loc[d]
  BY <1>1 DEF Fail, Return, Goto
<1>3. Storing(c) /\ ~Deleting(c) /\ ~Deleting(c)' /\ ~Storing(c)'
  BY <1>2 DEF Deleting, DeletePcs, Storing, StorePcs
<1>4. \A d \in Calls : ~Storing(d)'
  BY <1>2, <1>3 DEF StoreInv, OneStore, Storing
<1>5. f \in Names /\ at \in Nat
  <2>1. f \in Names
    BY DEF TypeOK, LocalTypes, StorePcs
  <2>2. at \in Nat
    BY <1>1, ConstantsAssumption DEF Loc, Uint32
  <2> QED BY <2>1, <2>2
<1>6. \A r \in Places : Before(r, [file |-> f, off |-> at])
  BY Zenon DEF StoreInv, StoreProgress, Target
<1>8. \A d \in Calls : /\ Deleting(d)' <=> Deleting(d)
                       /\ Deleting(d) => Slot(d)' = Slot(d) /\ pc'[d] = pc[d] /\ loc'[d] = loc[d]
  BY <1>2, <1>3, SMTT(30) DEF Deleting, Slot
<1>9. Places' = Places /\ Places \subseteq Row
  BY <1>8, PlacesAreRows DEF Places
<1>10. \A d \in Calls : pc[d] # "update"
  BY <1>3, Zenon DEF StoreInv, OneStore, Storing, StorePcs
<1>11. RowsApart' /\ DeletionsApart'
  BY <1>8 DEF StoreInv, RowsApart, DeletionsApart
<1>12. RowsWritten' /\ CacheBeyond'
  BY <1>5, <1>6, <1>9, <1>10, WriteLeaves
<1>13. OneStore' /\ \A d \in Calls : StoreProgress(d)'
  BY <1>4, Zenon DEF OneStore, StoreProgress, Storing, StorePcs
<1> QED BY <1>11, <1>12, <1>13 DEF StoreInv

\* What StoreProgress says of a store that writes ...
LEMMA WritesAhead ==
  ASSUME NEW c \in Calls, StoreProgress(c), pc[c] \in {"header", "body"}
  PROVE  /\ loc[c].to = loc[c].file /\ loc[c].at = loc[c].off
         /\ cache.file <= loc[c].to /\ loc[c].to <= clock
         /\ \A r \in Places : Before(r, [file |-> loc[c].to, off |-> loc[c].at])
BY Zenon DEF StoreProgress, Target

\* ... and of one whose header is written, ...
LEMMA HeaderIsThere ==
  ASSUME NEW c \in Calls, StoreProgress(c), pc[c] = "body"
  PROVE  disk[loc[c].to][loc[c].at] = [msg |-> loc[c].msg, pos |-> 0, del |-> FALSE]
BY SMTT(30) DEF StoreProgress

\* ... and that it says no more.
LEMMA HeaderIsProgress ==
  ASSUME NEW c \in Calls, pc'[c] = "body",
         loc'[c].to = loc'[c].file, loc'[c].at = loc'[c].off,
         cache'.file <= loc'[c].to, loc'[c].to <= clock',
         \A r \in Places' : Before(r, Target(c))',
         disk'[loc'[c].to][loc'[c].at] = [msg |-> loc'[c].msg, pos |-> 0, del |-> FALSE]
  PROVE  StoreProgress(c)'
BY DEF StoreProgress

\* ... nor, once the body is written, more than this.
LEMMA BodyIsProgress ==
  ASSUME NEW c \in Calls, pc'[c] = "insert",
         loc'[c].to = loc'[c].file, loc'[c].at = loc'[c].off,
         cache'.file <= loc'[c].to, loc'[c].to <= clock',
         \A r \in Places' : Before(r, Target(c))', Written(Slot(c))'
  PROVE  StoreProgress(c)'
BY DEF StoreProgress

\* Both writes go beyond every place; the second completes the email.
LEMMA StoreInvWrites ==
  ASSUME TypeOK, TypeOK', StoreInv, NEW c \in Calls, WriteHeader(c) \/ WriteBody(c)
  PROVE  StoreInv'
<1> DEFINE f == loc[c].to
           at == loc[c].at
           m == loc[c].msg
           hi == IF pc[c] = "header" THEN 0 ELSE Size[m]
           lo == IF pc[c] = "header" THEN 0 ELSE 1
<1>1. pc \in [Calls -> StorePcs \cup DeletePcs \cup {"idle"}] /\ loc \in [Calls -> Loc]
  BY DEF TypeOK, CallTypes
<1>2. /\ pc[c] \in {"header", "body"} /\ Storing(c) /\ pc[c] \in StorePcs \ {"offset", "open"}
      /\ UNCHANGED <<rows, cache, clock>>
  BY DEF WriteHeader, WriteBody, dbVars, metaVars, Storing, StorePcs
<1> DEFINE Torn == /\ pc[c] = "body" /\ Fail(c)
                   /\ \E n \in 0..Size[m] : Write(f, at, m, 1, n)
<1>3. CASE Fail(c) /\ UNCHANGED fileVars
  BY StoreInvFails, <1>2, <1>3
<1>5. CASE Torn
  <2>1. Size[m] \in Nat
    BY <1>2, ConstantsAssumption DEF TypeOK, LocalTypes
  <2> QED BY <1>2, <1>5, <2>1, StoreInvTorn, SMTT(30)
<1>4. CASE ~(Fail(c) /\ UNCHANGED fileVars) /\ ~Torn
  <2>1. /\ Write(f, at, m, lo, hi)
        /\ pc' = [pc EXCEPT ![c] = IF pc[c] = "header" THEN "body" ELSE "insert"]
        /\ UNCHANGED loc
    BY <1>4 DEF WriteHeader, WriteBody, Goto
  <2>2. f \in Names /\ at \in Nat /\ m \in Msgs /\ lo \in Nat /\ hi \in Nat
    <3>1. f \in Names /\ m \in Msgs
      BY <1>2 DEF TypeOK, LocalTypes
    <3>2. at \in Nat
      BY <1>1, ConstantsAssumption DEF Loc, Uint32
    <3> QED BY <3>1, <3>2, ConstantsAssumption
  <2>3. StoreProgress(c)
    BY Zenon DEF StoreInv
  <2>4. /\ f = loc[c].file /\ at = loc[c].off /\ cache.file <= f /\ f <= clock
        /\ \A r \in Places : Before(r, [file |-> f, off |-> at])
    BY <1>2, <2>3, WritesAhead, Zenon
  <2>6. \A d \in Calls \ {c} : pc'[d] = pc[d] /\ ~Storing(d) /\ ~Storing(d)'
    BY <1>1, <1>2, <2>1 DEF StoreInv, OneStore, Storing
  <2>7. pc'[c] = IF pc[c] = "header" THEN "body" ELSE "insert"
    BY <1>1, <2>1, SMTT(30)
  <2>8. \A d \in Calls : (Deleting(d)' <=> Deleting(d)) /\ Slot(d)' = Slot(d)
    BY <1>2, <2>1, <2>6, <2>7, SMTT(30) DEF Deleting, DeletePcs, Slot
  <2>9. Places' = Places /\ Places \subseteq Row
    BY <1>2, <2>8, PlacesAreRows DEF Places
  <2>10. \A d \in Calls : pc[d] # "update"
    BY <1>2, <2>6, Zenon DEF Storing, StorePcs
  <2>11. RowsApart' /\ DeletionsApart'
    BY <1>2, <2>1, <2>6, <2>7, <2>8 DEF StoreInv, RowsApart, DeletionsApart, Deleting, DeletePcs
  <2>12. OneStore'
    BY <2>6 DEF OneStore
  <2>13. RowsWritten' /\ CacheBeyond'
    BY <1>2, <2>1, <2>2, <2>4, <2>9, <2>10, WriteLeaves, Zenon
  <2>14. ASSUME NEW d \in Calls, d # c PROVE StoreProgress(d)'
    BY <2>6, <2>14 DEF StoreProgress, Storing, StorePcs
  <2>15. StoreProgress(c)'
    <3>1. /\ loc'[c].to = loc'[c].file /\ loc'[c].at = loc'[c].off
          /\ cache'.file <= loc'[c].to /\ loc'[c].to <= clock'
      BY <1>2, <2>1, <2>4, Zenon
    <3>2. \A r \in Places' : Before(r, Target(c))'
      BY <2>1, <2>4, <2>9 DEF Target, Before
    <3>3. Slot(c) \in Row /\ Slot(c) = [msg |-> m, file |-> f, off |-> at] /\ loc' = loc
      BY <1>2, <2>1, <2>4, SlotIsRow DEF Slot
    <3>4. PICK r \in Row : r = Slot(c) /\ r.msg = m /\ r.file = f /\ r.off = at
      BY <3>3
    <3>5. CASE pc[c] = "header"
      <4>1. Write(r.file, r.off, r.msg, 0, 0)
        BY <2>1, <3>4, <3>5
      <4>2. disk'[f][at] = [msg |-> m, pos |-> 0, del |-> FALSE]
        BY <3>4, <4>1, WriteStarts
      <4>3. pc'[c] = "body"
        BY <2>7, <3>5
      <4>4. disk'[loc'[c].to][loc'[c].at] = [msg |-> loc'[c].msg, pos |-> 0, del |-> FALSE]
        BY <3>3, <4>2
      <4> QED BY <3>1, <3>2, <4>3, <4>4, HeaderIsProgress, Zenon
    <3>6. CASE pc[c] = "body"
      <4>1. Write(r.file, r.off, r.msg, 1, Size[r.msg])
        BY <2>1, <3>4, <3>6, Zenon
      <4>2. disk[r.file][r.off] = [msg |-> r.msg, pos |-> 0, del |-> FALSE]
        BY <2>3, <3>4, <3>6, HeaderIsThere
      <4>3. Written(r)'
        BY <4>1, <4>2, WriteCompletes
      <4>4. Written(Slot(c))' /\ pc'[c] = "insert"
        BY <2>7, <2>8, <3>4, <3>6, <4>3
      <4> QED BY <3>1, <3>2, <4>4, BodyIsProgress, Zenon
    <3> QED BY <1>2, <3>5, <3>6, Zenon
  <2> QED BY <2>11, <2>12, <2>13, <2>14, <2>15 DEF StoreInv
<1> QED BY <1>3, <1>4, <1>5

\* The unique index has nothing to refuse: every row ends before the place.
LEMMA InsertAccepted ==
  ASSUME TypeOK, StoreInv, NEW c \in Calls, pc[c] = "insert", NEW i \in DOMAIN rows
  PROVE  rows[i].file # loc[c].file \/ rows[i].off # loc[c].off
<1>1. rows[i] \in Places /\ rows[i] \in Row
  BY DEF Places, TypeOK, DbTypes
<1>2. Before(rows[i], [file |-> loc[c].file, off |-> loc[c].off])
  BY <1>1, Zenon DEF StoreInv, StoreProgress, Target
<1>3. loc[c].file \in Nat /\ loc[c].off \in Nat
  BY ConstantsAssumption DEF TypeOK, CallTypes, Loc, Names, NoFile, Uint32
<1> QED BY <1>1, <1>2, <1>3, RowArith DEF Before

\* The insertion finds the email on disk, beyond every place.
LEMMA StoreInvInserts ==
  ASSUME TypeOK, StoreInv, NEW c \in Calls, NewEmail(c)
  PROVE  StoreInv'
<1>1. pc \in [Calls -> StorePcs \cup DeletePcs \cup {"idle"}] /\ loc \in [Calls -> Loc]
  BY DEF TypeOK, CallTypes
<1>2. pc[c] = "insert" /\ Storing(c) /\ UNCHANGED <<fileVars, rows, cache, clock>>
  BY DEF NewEmail, metaVars, Storing, StorePcs
<1>3. CASE Fail(c)
  BY StoreInvFails, <1>2, <1>3
<1>4. CASE ~Fail(c)
  <2>1. PICK id : loc' = [loc EXCEPT ![c].id = id] /\ pc' = [pc EXCEPT ![c] = "commit"]
    BY <1>4 DEF NewEmail, Goto
  <2>2. /\ pc'[c] = "commit"
        /\ \A d \in Calls \ {c} : pc'[d] = pc[d] /\ loc'[d] = loc[d]
    BY <1>1, <2>1
  <2>3. /\ loc'[c].msg = loc[c].msg /\ loc'[c].file = loc[c].file /\ loc'[c].off = loc[c].off
        /\ loc'[c].to = loc[c].to /\ loc'[c].at = loc[c].at
    BY <1>1, <2>1 DEF Loc
  <2>4. ~Deleting(c) /\ ~Deleting(c)' /\ \A d \in Calls \ {c} : ~Storing(d)
    BY <1>2, <2>2 DEF StoreInv, OneStore, Deleting, DeletePcs
  <2>5. Slot(c)' = Slot(c) /\ Target(c)' = Target(c)
    BY <2>3 DEF Slot, Target
  <2>6. Places' = Places
    <3>1. \A d \in Calls : (Deleting(d)' <=> Deleting(d)) /\ Slot(d)' = Slot(d)
      BY <2>2, <2>4, <2>5 DEF Deleting, Slot
    <3> QED BY <1>2, <3>1 DEF Places
  <2>7. StoreProgress(c)'
    <3>1. StoreProgress(c)
      BY DEF StoreInv
    <3> QED BY <1>2, <2>2, <2>3, <2>5, <2>6, <3>1, Zenon DEF StoreProgress, Written, fileVars
  <2> QED BY StoreInvMoves, <1>2, <2>2, <2>4, <2>7
<1> QED BY <1>3, <1>4

\* The new row lies beyond every place.
LEMMA StoreInvCommits ==
  ASSUME TypeOK, AtomicInv, StoreInv, NEW c \in Calls, Commit(c)
  PROVE  StoreInv'
<1>1. pc \in [Calls -> StorePcs \cup DeletePcs \cup {"idle"}]
  BY DEF TypeOK, CallTypes
<1>2. /\ pc[c] = "commit" /\ Storing(c) /\ pc[c] \in StorePcs \ {"offset", "open"}
      /\ UNCHANGED <<fileVars, cache, clock>>
  BY DEF Commit, metaVars, Storing, StorePcs
<1>3. CASE Fail(c) /\ UNCHANGED rows
  BY StoreInvFails, <1>2, <1>3
<1>4. CASE ~(Fail(c) /\ UNCHANGED rows)
  <2> DEFINE id == loc[c].id
             s == Slot(c)
  <2>1. /\ rows' = [i \in DOMAIN rows \cup {id} |-> IF i = id THEN s ELSE rows[i]]
        /\ pc' = [pc EXCEPT ![c] = "update"] /\ UNCHANGED loc
    BY <1>4 DEF Commit, Goto
  <2>2. id \notin DOMAIN rows
    BY <1>2 DEF AtomicInv, IdIsFresh
  <2>3. /\ DOMAIN rows' = DOMAIN rows \cup {id} /\ rows'[id] = s
        /\ \A i \in DOMAIN rows : rows'[i] = rows[i]
    BY <2>1, <2>2
  <2>4. pc'[c] = "update" /\ \A d \in Calls \ {c} : pc'[d] = pc[d] /\ ~Storing(d) /\ ~Storing(d)'
    BY <1>1, <1>2, <2>1 DEF StoreInv, OneStore, Storing
  <2>5. \A d \in Calls : (Deleting(d)' <=> Deleting(d)) /\ Slot(d)' = Slot(d)
    BY <1>2, <2>1, <2>4, Zenon DEF Deleting, DeletePcs, Slot
  <2>6. s \in Row /\ Places \subseteq Row
    BY <1>2, SlotIsRow, PlacesAreRows
  <2>7. Places' \subseteq Places \cup {s}
    BY <2>3, <2>5 DEF Places
  <2>8. /\ StoreProgress(c) /\ Written(s)
        /\ s.file = loc[c].to /\ s.off = loc[c].at
        /\ \A r \in Places : Before(r, [file |-> s.file, off |-> s.off])
    BY <1>2, Zenon DEF StoreInv, StoreProgress, Slot, Target
  <2>9. \A r \in Places : Apart(r, s) /\ Apart(s, r)
    BY <2>6, <2>8, BeforeApart
  <2>10. \A i \in DOMAIN rows : rows[i] \in Places
    BY DEF Places
  <2>11. \A r : Written(r)' <=> Written(r)
    BY <1>2, SMTT(30) DEF Written, fileVars
  <2> HIDE DEF s, id
  <2>12. RowsWritten'
    BY <2>3, <2>8, <2>11 DEF StoreInv, RowsWritten
  <2>13. RowsApart'
    BY <2>3, <2>9, <2>10, SMTT(30) DEF StoreInv, RowsApart
  <2>14. DeletionsApart'
    <3>1. ASSUME NEW d \in Calls, Deleting(d)
          PROVE  Slot(d) \in Places /\ pc'[d] = pc[d] /\ loc'[d] = loc[d] /\ Slot(d)' = Slot(d)
      BY <1>2, <2>1, <2>4, <2>5, <3>1, Zenon DEF Places, Deleting, DeletePcs
    <3> QED BY <2>3, <2>5, <2>9, <3>1 DEF StoreInv, DeletionsApart
  <2>15. OneStore' /\ CacheBeyond'
    BY <1>2, <2>4 DEF StoreInv, OneStore, CacheBeyond
  <2>16. ASSUME NEW d \in Calls, d # c PROVE StoreProgress(d)'
    BY <2>4, <2>16, Zenon DEF StoreProgress, Storing, StorePcs
  <2>17. StoreProgress(c)'
    <3>1. End(s) <= size'[loc'[c].to]
      BY <1>2, <2>1, <2>8, Zenon DEF Written, fileVars
    <3>2. ASSUME NEW r \in Places' PROVE Before(r, [file |-> s.file, off |-> End(s)])
      <4>1. CASE r = s
        BY <2>6, <4>1, RowArith, SMTT(30) DEF Before
      <4>2. CASE r \in Places
        <5>1. s.file \in Nat /\ s.off \in Nat /\ End(s) \in Nat /\ s.off <= End(s)
          BY <2>6, RowArith, SMTT(30)
        <5> QED BY <2>6, <2>8, <4>2, <5>1, BeforeLater
      <4> QED BY <2>7, <4>1, <4>2, SMTT(30)
    <3>3. End(Slot(c))' = End(s) /\ loc'[c].to = s.file
      BY <2>1, <2>5, <2>8, SMTT(30) DEF s, End
    <3>4. \A r \in Places' : Before(r, [file |-> loc[c].to, off |-> End(Slot(c))])'
      BY <2>1, <2>8, <3>2, <3>3 DEF Before, End
    <3> QED BY <1>2, <2>1, <2>4, <2>8, <3>1, <3>3, <3>4, Zenon DEF StoreProgress
  <2> QED BY <2>12, <2>13, <2>14, <2>15, <2>16, <2>17 DEF StoreInv
<1> QED BY <1>3, <1>4

\* The cached offset is a uint32.  When it wraps the file is full, and a full
\* file is never appended to.
LEMMA StoreInvUpdates ==
  ASSUME TypeOK, StoreInv, NEW c \in Calls, Update(c)
  PROVE  StoreInv'
<1> DEFINE f == loc[c].file
           e == End(Slot(c))
<1>1. pc \in [Calls -> StorePcs \cup DeletePcs \cup {"idle"}] /\ loc \in [Calls -> Loc]
  BY DEF TypeOK, CallTypes
<1>2. /\ pc[c] = "update" /\ Storing(c) /\ pc[c] \in StorePcs \ {"offset", "open"}
      /\ UNCHANGED <<fileVars, rows, clock>>
  BY DEF Update, dbVars, Storing, StorePcs
<1>3. cache' = [file |-> f, off |-> e % Wrap]
  BY DEF Update, End, Slot
<1>4. Slot(c) \in Row /\ Slot(c).file = f
  BY <1>2, SlotIsRow DEF Slot
<1>5. /\ f = loc[c].to /\ f <= clock /\ e <= size[f]
      /\ \A r \in Places : Before(r, [file |-> f, off |-> e])
  BY <1>2, Zenon DEF StoreInv, StoreProgress
<1>6. e \in Nat /\ f \in Names /\ size[f] \in Nat
  BY <1>4, RowArith DEF TypeOK, FileTypes
<1>7. pc'[c] = "idle" /\ \A d \in Calls \ {c} : pc'[d] = pc[d] /\ loc'[d] = loc[d] /\ ~Storing(d)
  BY <1>1, <1>2, Zenon DEF Update, Return, Goto, StoreInv, OneStore
<1>8. \A d \in Calls : ~Storing(d)'
  BY <1>7 DEF Storing, StorePcs
<1>9. \A d \in Calls : (Deleting(d)' <=> Deleting(d)) /\ (Deleting(d) => d # c)
  BY <1>2, <1>7, SMTT(30) DEF Deleting, DeletePcs
<1>10. \A d \in Calls : Deleting(d) => Slot(d)' = Slot(d) /\ pc'[d] = pc[d] /\ loc'[d] = loc[d]
  BY <1>7, <1>9, Zenon DEF Slot
<1>11. Places' = Places
  BY <1>2, <1>9, <1>10, SMTT(30) DEF Places
<1>12. RowsWritten' /\ RowsApart' /\ OneStore'
  BY <1>2, <1>8 DEF StoreInv, RowsWritten, RowsApart, OneStore, Written, fileVars
<1>13. DeletionsApart'
  BY <1>2, <1>9, <1>10, ZenonT(60) DEF StoreInv, DeletionsApart
<1> HIDE DEF f, e
<1>14. CacheBeyond'
  <2>1. CASE e < Wrap
    <3>1. e % Wrap = e
      BY <1>6, <2>1, ConstantsAssumption
    <3> QED BY <1>2, <1>3, <1>5, <1>11, <3>1 DEF CacheBeyond, BeforeOrFull, Before
  <2>2. CASE e >= Wrap
    <3>1. size[f] >= MaxFileSize
      BY <1>5, <1>6, <2>2, ConstantsAssumption
    <3>2. size'[cache'.file] >= MaxFileSize
      BY <1>2, <1>3, <3>1 DEF fileVars
    <3>3. \A r \in Places : r.file < cache'.file \/ r.file = cache'.file
      BY <1>3, <1>5 DEF Before
    <3>4. \A r \in Places : BeforeOrFull(r, cache)'
      BY <3>2, <3>3 DEF BeforeOrFull, Before
    <3> QED BY <1>2, <1>3, <1>5, <1>11, <3>4 DEF CacheBeyond
  <2> QED BY <1>6, <2>1, <2>2, ConstantsAssumption
<1>15. ASSUME NEW d \in Calls PROVE StoreProgress(d)'
  BY <1>8, Zenon DEF StoreProgress, Storing, StorePcs
<1> QED BY <1>12, <1>13, <1>14, <1>15 DEF StoreInv

\* Every step keeps it, one lemma per step of a call.
LEMMA StoreInvStep ==
  ASSUME Orderly
  PROVE  TypeOK /\ TypeOK' /\ AtomicInv /\ StoreInv /\ [Next]_vars => StoreInv'
<1> SUFFICES ASSUME TypeOK, TypeOK', AtomicInv, StoreInv, [Next]_vars PROVE StoreInv'
  OBVIOUS
<1>1. clock \in Nat
  BY DEF TypeOK, MetaTypes, Names
<1>2. ASSUME NEW c \in Calls, StoreStep(c) PROVE StoreInv'
  BY <1>2, StoreInvBegins, StoreInvOpens, StoreInvStats, StoreInvWrites, StoreInvInserts,
     StoreInvCommits, StoreInvUpdates DEF StoreStep
<1>3. ASSUME NEW ids, CleanEmails(ids) PROVE StoreInv'
  <2>1. /\ rows' = [i \in DOMAIN rows \ ids |-> rows[i]]
        /\ UNCHANGED <<fileVars, cache, clock, pc, loc>>
    BY <1>3 DEF CleanEmails, Drop, metaVars, callVars
  <2>2. /\ DOMAIN rows' \subseteq DOMAIN rows
        /\ \A i \in DOMAIN rows' : rows'[i] = rows[i]
    BY <2>1, SMTT(30)
  <2>3. Places' \subseteq Places
    BY <2>1, <2>2 DEF Places, Deleting, Slot
  <2>4. DeletionsApart'
    BY <2>1, <2>2 DEF StoreInv, DeletionsApart, Deleting, Slot
  <2> QED BY <2>1, <2>2, <2>3, <2>4, StoreInvShrinks
<1>4. ASSUME SaveBegin \/ SaveEnd \/ Restart \/ Tick PROVE StoreInv'
  BY <1>1, <1>4, StoreInvIdle
     DEF SaveBegin, SaveEnd, Restart, Tick, dbVars, metaVars, callVars
<1>5. ~Crash
  BY DEF Orderly, Crash
<1>6. CASE UNCHANGED vars
  BY <1>1, <1>6, StoreInvIdle DEF vars, dbVars, metaVars, callVars
<1> QED
  BY <1>2, <1>3, <1>4, <1>5, <1>6, StoreInvBegins, StoreInvDeletes DEF Next

\* What the places hold is what the rows say.
LEMMA WrittenReads ==
  ASSUME TypeOK, NEW r \in Row, Written(r)
  PROVE  Reader(r) = r.msg
<1>1. r.off < size[r.file] /\ ~(r.off >= size[r.file])
  BY RowArith DEF Written, TypeOK, FileTypes
<1>2. 0 \in 0..Size[r.msg] /\ r.off + 0 = r.off
  BY RowArith
<1>3. disk[r.file][r.off] = [msg |-> r.msg, pos |-> 0, del |-> FALSE]
  BY <1>2 DEF Written
<1>4. ~disk[r.file][r.off].del
  BY <1>3
<1> QED BY <1>1, <1>4 DEF Reader, Written

\* The inductive invariant, in every behaviour of an orderly storage.
THEOREM StoreInvariant == Orderly => (Spec => []StoreInv)
<1> SUFFICES ASSUME Orderly PROVE Spec => []StoreInv
  OBVIOUS
<1>1. TypeOK /\ TypeOK' /\ AtomicInv /\ StoreInv /\ [Next]_vars => StoreInv'
  BY StoreInvStep
<1> QED BY StoreInvInit, TypeCorrect, AtomicInvariant, <1>1, PTL DEF Spec

\* Every listed email reads back as what was stored for it, whatever
\* deletions run while it is stored and however often the daemon is stopped
\* when idle, provided that stores are serial and emails not big.
THEOREM OrderlyReadBack == Orderly => (Spec => []ReadBack)
<1> SUFFICES ASSUME Orderly PROVE Spec => []ReadBack
  OBVIOUS
<1>1. TypeOK /\ StoreInv => ReadBack
  BY WrittenReads DEF StoreInv, RowsWritten, ReadBack, TypeOK, DbTypes
<1> QED BY StoreInvariant, TypeCorrect, <1>1, PTL

\* No insertion is refused by the unique index, so the only transactions left
\* open with the write lock are those of callbacks that fail.
THEOREM OrderlyNeverRefused == Orderly => (Spec => []NeverRefused)
<1> SUFFICES ASSUME Orderly PROVE Spec => []NeverRefused
  OBVIOUS
<1>1. Init => NeverRefused
  BY DEF Init, NeverRefused, Free, Refused, Abandoned
<1>2. TypeOK /\ StoreInv /\ NeverRefused /\ [Next]_vars => NeverRefused'
  <2> SUFFICES ASSUME TypeOK, StoreInv, NeverRefused, [Next]_vars PROVE NeverRefused'
    OBVIOUS
  <2> USE DEF NeverRefused
  <2>1. ASSUME NEW c \in Calls, NewEmail(c) PROVE NeverRefused'
    <3>1. lock' = c \/ UNCHANGED lock
      BY <2>1, InsertAccepted DEF NewEmail
    <3> QED BY <3>1, ConstantsAssumption DEF Refused
  <2>2. ASSUME NEW c \in Calls, Commit(c) PROVE NeverRefused'
    BY <2>2, Zenon DEF Commit, Free, Refused, Abandoned
  <2>3. ASSUME NEW c \in Calls, StoreStep(c) PROVE NeverRefused'
    BY <2>1, <2>2, <2>3 DEF StoreStep, ReadOffset, OpenFile, StatFile, WriteHeader,
       WriteBody, Update, dbVars
  <2>4. ASSUME NEW c \in Calls, DeleteStep(c) PROVE NeverRefused'
    BY <2>4 DEF DeleteStep, RemoveRow, MarkDeleted, dbVars
  <2>5. ASSUME Restart \/ Crash PROVE NeverRefused'
    BY <2>5, SMTT(30) DEF Restart, Crash, Free, Refused, Abandoned
  <2> QED BY <2>3, <2>4, <2>5, Zenon DEF Next, vars, BeginStore, BeginDelete, CleanEmails,
             SaveBegin, SaveEnd, Tick, dbVars
<1> QED BY StoreInvariant, TypeCorrect, <1>1, <1>2, PTL DEF Spec

-----------------------------------------------------------------------------
\* The initial storage is an empty mail store.
LEMMA RefinesInit == Init => Abstract!Init
  BY DEF Init, Abstract!Init

\* Once every row reads back, a step maps to a step of the mail store.
LEMMA RefinesStep ==
  ASSUME TypeOK, TypeOK', AtomicInv, ReadBack, ReadBack', [Next]_vars
  PROVE  [Abstract!Next]_<<[i \in DOMAIN rows |-> Reader(rows[i])],
                           {rows[i].msg : i \in DOMAIN rows} \cup deleted>>
<1> DEFINE box == [i \in DOMAIN rows |-> Reader(rows[i])]
           content == [i \in DOMAIN rows |-> rows[i].msg]
           delivered == {rows[i].msg : i \in DOMAIN rows} \cup deleted
<1>1. box = content /\ box' = content'
  BY DEF ReadBack
<1>2. CASE UNCHANGED <<rows, deleted>>
  BY <1>1, <1>2
<1>3. ASSUME NEW ids, Drop(ids) PROVE Abstract!Next
  <2>1. DOMAIN rows' = DOMAIN rows \ ids /\ \A i \in DOMAIN rows' : rows'[i] = rows[i]
    BY <1>3 DEF Drop
  <2>2. delivered' = delivered
    BY <1>3, <2>1 DEF Drop
  <2>3. DOMAIN box' \subseteq DOMAIN box /\ box' = [i \in DOMAIN box' |-> box[i]]
    BY <1>1, <2>1, SMTT(30)
  <2>4. Abstract!Delete
    BY <2>2, <2>3 DEF Abstract!Delete
  <2> QED BY <2>4 DEF Abstract!Next
<1>4. ASSUME NEW c \in Calls, Commit(c), ~UNCHANGED rows PROVE Abstract!Next
  <2> DEFINE id == loc[c].id
  <2>1. /\ rows' = [i \in DOMAIN rows \cup {id} |-> IF i = id THEN Slot(c) ELSE rows[i]]
        /\ deleted' = deleted /\ pc[c] = "commit"
    BY <1>4 DEF Commit
  <2>2. PICK m \in Msgs : m = loc[c].msg
    BY <2>1, Zenon DEF TypeOK, LocalTypes, Storing, StorePcs
  <2>3. ~Seen(m) /\ id \notin DOMAIN rows /\ Slot(c).msg = m
    BY <2>1, <2>2, Zenon DEF AtomicInv, InFlight, IdIsFresh, Storing, StorePcs, Slot
  <2>4. content' = [i \in DOMAIN content \cup {id} |-> IF i = id THEN m ELSE content[i]]
    BY <2>1, <2>3
  <2>5. m \notin delivered /\ delivered' = delivered \cup {m}
    BY <2>1, <2>3, Zenon DEF Seen
  <2>6. /\ id \in DOMAIN box' /\ id \notin DOMAIN box
        /\ box' = [i \in DOMAIN box \cup {id} |-> IF i = id THEN m ELSE box[i]]
    BY <1>1, <2>3, <2>4, ZenonT(60)
  <2> HIDE DEF id, box, delivered, content
  <2>7. /\ m \notin delivered /\ delivered' = delivered \cup {m}
        /\ \E k \in DOMAIN box' :
             /\ k \notin DOMAIN box
             /\ box' = [i \in DOMAIN box \cup {k} |-> IF i = k THEN m ELSE box[i]]
    BY <2>5, <2>6
  <2>8. Abstract!Deliver(m)
    BY <2>7 DEF Abstract!Deliver, box, delivered
  <2> QED BY <2>2, <2>8 DEF Abstract!Next
<1>5. ASSUME NEW c \in Calls, StoreStep(c) PROVE Abstract!Next \/ UNCHANGED <<rows, deleted>>
  BY <1>4, <1>5 DEF StoreStep, ReadOffset, OpenFile, StatFile, WriteHeader, WriteBody,
     NewEmail, Update, dbVars, Commit
<1>6. ASSUME NEW c \in Calls, DeleteStep(c) PROVE Abstract!Next \/ UNCHANGED <<rows, deleted>>
  BY <1>3, <1>6 DEF DeleteStep, RemoveRow, MarkDeleted, dbVars
<1>7. ASSUME NEW ids, CleanEmails(ids) PROVE Abstract!Next
  BY <1>3, <1>7 DEF CleanEmails
<1>8. Abstract!Next \/ UNCHANGED <<rows, deleted>>
  BY <1>5, <1>6, <1>7, Zenon DEF Next, vars, BeginStore, BeginDelete, SaveBegin, SaveEnd,
     Restart, Crash, Tick, dbVars
<1> QED BY <1>2, <1>8

\* The storage implements the mail store: every step of it delivers one email
\* under a free id, deletes some, or changes nothing that a reader can see.
THEOREM OrderlyImplements == Orderly => (Spec => ImplementsMailStore)
<1> SUFFICES ASSUME Orderly PROVE Spec => ImplementsMailStore
  OBVIOUS
<1>1. TypeOK /\ TypeOK' /\ AtomicInv /\ ReadBack /\ ReadBack' /\ [Next]_vars =>
        [Abstract!Next]_<<[i \in DOMAIN rows |-> Reader(rows[i])],
                          {rows[i].msg : i \in DOMAIN rows} \cup deleted>>
  BY RefinesStep
<1> QED BY RefinesInit, TypeCorrect, AtomicInvariant, OrderlyReadBack, <1>1, PTL
        DEF Spec, ImplementsMailStore, Abstract!Spec
=============================================================================
