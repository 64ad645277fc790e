----------------------------- MODULE EmailStore -----------------------------
(***************************************************************************)
(* The storage of one user's emails (storage/email.go, storage/meta.go,    *)
(* storage/store/): append-only files holding the contents, an SQLite      *)
(* database whose rows say where each email lies, and an in-memory cache   *)
(* of the place where the next email goes.                                 *)
(*                                                                         *)
(* Every user has a directory, a database and a cache of their own, so one *)
(* user is the whole system.  A call is a goroutine running StoreEmail or  *)
(* one of the deletions; the steps of a call are cut where another call,   *)
(* the saver goroutine or a crash can come between two accesses to shared  *)
(* state.  File contents are arrays of units: the header of an email is    *)
(* one unit and its (possibly compressed) content is Size[m] units.        *)
(***************************************************************************)
EXTENDS Integers

CONSTANTS
  Calls,            \* goroutines that can work for this user
  Msgs,             \* the emails to store, each stored at most once
  Size,             \* units of content WriteEmail writes for an email
  Big,              \* emails whose raw length reaches MaxEmailSizeInFile
  NoMsg,            \* content of a place never written
  MaxFileSize,      \* store.MaxFileSize, in units
  Wrap,             \* 2^32 in units: the cached offset is a uint32
  MaxOff,           \* bound: last unit of a file that the model represents
  MaxTime,          \* bound: the last second of the clock
  SerialStores,     \* TRUE: at most one StoreEmail is in flight
  Stops             \* how the daemon stops: "never", "quiescent", "any"

ASSUME ConstantsAssumption ==
  /\ Size \in [Msgs -> Nat]
  /\ Big \subseteq Msgs
  /\ NoMsg \notin Msgs
  /\ MaxFileSize \in Nat \ {0}
  /\ Wrap \in Nat /\ Wrap >= MaxFileSize
  /\ MaxOff \in Nat /\ \A m \in Msgs : Wrap + Size[m] <= MaxOff
  /\ MaxTime \in Nat \ {0}
  /\ SerialStores \in BOOLEAN
  /\ Stops \in {"never", "quiescent", "any"}
  /\ Calls \cap {"free", "refused", "abandoned"} = {}

VARIABLES
  disk,       \* disk[f][o]: the unit at offset o of the file named f
  size,       \* size[f]: length of the file f (0 when it does not exist)
  rows,       \* the committed rows of the table emails, by id
  lock,       \* who holds SQLite's write lock
  cache,      \* meta.lastFile and meta.offset
  saved,      \* the row of the table meta (zero values when there is none)
  saver,      \* the goroutine that saves the cache, between its two reads
  clock,      \* time.Now().Unix()
  pc, loc,    \* where each call stands, and its local variables
  result,     \* history: what became of the StoreEmail of each email
  deleted     \* history: the emails whose row was deleted

fileVars == <<disk, size>>
dbVars == <<rows, lock, deleted>>
metaVars == <<cache, saved, saver>>
callVars == <<pc, loc, result>>
vars == <<fileVars, dbVars, metaVars, callVars, clock>>

-----------------------------------------------------------------------------
\* File names are the second of their creation; 0 is the empty name.
NoFile == 0
Names == 1..MaxTime
Offsets == 0..MaxOff

\* SQLite's write lock when nobody holds it, and when a transaction that
\* StoreEmail left open holds it: one whose insertion was refused, or one
\* whose callback returned an error.
Free == "free"
Refused == "refused"
Abandoned == "abandoned"

Unit == [msg : Msgs \cup {NoMsg}, pos : Nat, del : BOOLEAN]
Hole == [msg |-> NoMsg, pos |-> 0, del |-> FALSE]
Uint32 == 0..Wrap - 1
Row == [msg : Msgs, file : Names, off : Uint32]
Meta == [file : Names \cup {NoFile}, off : Uint32]
NoMeta == [file |-> NoFile, off |-> 0]

\* What a call holds: the email, the variables lastFile and offset of
\* StoreEmail, the file opened and the position sought in it, a row's id.
Loc == [msg : Msgs \cup {NoMsg}, file : Names \cup {NoFile}, off : Uint32,
        to : Names \cup {NoFile}, at : Uint32, id : Nat]
NoLoc == [msg |-> NoMsg, file |-> NoFile, off |-> 0,
          to |-> NoFile, at |-> 0, id |-> 0]

StorePcs == {"offset", "open", "stat", "header", "body", "insert", "commit",
             "update"}
DeletePcs == {"remove", "mark"}

\* Where the units of an email end: one header unit, then its content.
End(r) == r.off + 1 + Size[r.msg]

\* The row a call stores, or the copy of the row it deletes.
Slot(c) == [msg |-> loc[c].msg, file |-> loc[c].file, off |-> loc[c].off]

Storing(c) == pc[c] \in StorePcs
Deleting(c) == pc[c] \in DeletePcs

\* INTEGER PRIMARY KEY without AUTOINCREMENT: one more than the largest id.
IsNextId(id) ==
  /\ \A i \in DOMAIN rows : i < id
  /\ id = 1 \/ id - 1 \in DOMAIN rows

Init ==
  /\ disk = [f \in Names |-> [o \in Offsets |-> Hole]]
  /\ size = [f \in Names |-> 0]
  /\ rows = [i \in {} |-> NoMsg]
  /\ lock = Free
  /\ cache = NoMeta
  /\ saved = NoMeta
  /\ saver = [busy |-> FALSE, file |-> NoFile]
  /\ clock = 1
  /\ pc = [c \in Calls |-> "idle"]
  /\ loc = [c \in Calls |-> NoLoc]
  /\ result = [m \in Msgs |-> "new"]
  /\ deleted = {}

-----------------------------------------------------------------------------
Goto(c, l) == pc' = [pc EXCEPT ![c] = l]

\* A call ends and its locals are gone.
Return(c) == Goto(c, "idle") /\ loc' = [loc EXCEPT ![c] = NoLoc]

\* StoreEmail returns an error.  Nothing that it did before is undone.
Fail(c) == Return(c) /\ result' = [result EXCEPT ![loc[c].msg] = "error"]

\* StoreEmail is called; cache.LastFile() is read.
BeginStore(c, m) ==
  /\ pc[c] = "idle"
  /\ result[m] = "new"
  /\ SerialStores => \A d \in Calls : ~Storing(d)
  /\ result' = [result EXCEPT ![m] = "called"]
  /\ loc' = [loc EXCEPT ![c] = [NoLoc EXCEPT !.msg = m, !.file = cache.file]]
  /\ Goto(c, "offset")
  /\ UNCHANGED <<fileVars, dbVars, metaVars, clock>>

\* cache.Offset() is read, under a lock of its own.
ReadOffset(c) ==
  /\ pc[c] = "offset"
  /\ loc' = [loc EXCEPT ![c].off = cache.off]
  /\ Goto(c, "open")
  /\ UNCHANGED <<fileVars, dbVars, metaVars, result, clock>>

\* The file StoreEmail appends to.  A full file is left for a new one, whose
\* name is the current second; the offset is kept.  Only when there was no
\* last file are lastFile and offset those of the file that is opened.
OpenFile(c) ==
  LET l == loc[c]
      append == l.msg \notin Big /\ l.file # NoFile
      last == IF append /\ size[l.file] >= MaxFileSize THEN clock ELSE l.file
      to == IF append THEN last ELSE clock
      at == IF append THEN l.off ELSE 0
  IN /\ pc[c] = "open"
     /\ loc' = [loc EXCEPT ![c].to = to, ![c].at = at,
                           ![c].file = IF last = NoFile THEN to ELSE last,
                           ![c].off = IF last = NoFile THEN at ELSE l.off]
     /\ Goto(c, "stat")
     /\ UNCHANGED <<fileVars, dbVars, metaVars, result, clock>>

\* Mutant: the size of the file is not checked before writing.
StatFileUnchecked(c) ==
  /\ pc[c] = "stat"
  /\ Goto(c, "header")
  /\ UNCHANGED <<fileVars, dbVars, metaVars, loc, result, clock>>

\* WriteEmail refuses a file that is already full; opening, seeking or looking
\* at the file can fail too.
StatFile(c) ==
  /\ pc[c] = "stat"
  /\ \/ size[loc[c].to] < MaxFileSize /\ Goto(c, "header") /\ UNCHANGED <<loc, result>>
     \/ Fail(c)
  /\ UNCHANGED <<fileVars, dbVars, metaVars, clock>>

\* The units lo..hi of the email m are written to the file f, the header of m
\* being at offset at.
Write(f, at, m, lo, hi) ==
  /\ disk' = [disk EXCEPT ![f] = [o \in Offsets |->
                IF o - at \in lo..hi
                THEN [msg |-> m, pos |-> o - at, del |-> FALSE]
                ELSE disk[f][o]]]
  /\ size' = [size EXCEPT ![f] = IF @ < at + hi + 1 THEN at + hi + 1 ELSE @]

\* The two writes of WriteEmail; each can fail, the second one halfway.
WriteHeader(c) ==
  /\ pc[c] = "header"
  /\ \/ /\ Write(loc[c].to, loc[c].at, loc[c].msg, 0, 0)
        /\ Goto(c, "body")
        /\ UNCHANGED <<loc, result>>
     \/ Fail(c) /\ UNCHANGED fileVars
  /\ UNCHANGED <<dbVars, metaVars, clock>>

WriteBody(c) ==
  /\ pc[c] = "body"
  /\ \/ /\ Write(loc[c].to, loc[c].at, loc[c].msg, 1, Size[loc[c].msg])
        /\ Goto(c, "insert")
        /\ UNCHANGED <<loc, result>>
     \/ /\ \E n \in 0..Size[loc[c].msg] : Write(loc[c].to, loc[c].at, loc[c].msg, 1, n)
        /\ Fail(c)
  /\ UNCHANGED <<dbVars, metaVars, clock>>

\* Mutant: the insertion does not care for other open transactions.
NewEmailUnlocked(c) ==
  /\ pc[c] = "insert"
  /\ lock' = c
  /\ \E id \in {1} \cup {i + 1 : i \in DOMAIN rows} :
       IsNextId(id) /\ loc' = [loc EXCEPT ![c].id = id]
  /\ Goto(c, "commit")
  /\ UNCHANGED <<fileVars, rows, deleted, metaVars, result, clock>>

\* Mutant: without a busy timeout the insertion waits for the lock.
NewEmailWaits(c) ==
  /\ pc[c] = "insert"
  /\ lock = Free
  /\ \/ /\ lock' = c
        /\ \E id \in {1} \cup {i + 1 : i \in DOMAIN rows} :
             IsNextId(id) /\ loc' = [loc EXCEPT ![c].id = id]
        /\ Goto(c, "commit")
        /\ UNCHANGED result
     \/ lock' = Refused /\ Fail(c)
  /\ UNCHANGED <<fileVars, rows, deleted, metaVars, clock>>

\* BeginTx and NewEmail.  The insertion needs SQLite's write lock; it fails when
\* it does not get it within the busy timeout or the context is done.  The unique index on
\* (offset, filename) can refuse the row; the transaction then stays open, and
\* its lock taken, since StoreEmail never rolls back.
NewEmail(c) ==
  /\ pc[c] = "insert"
  /\ \/ /\ lock = Free
        /\ \A i \in DOMAIN rows :
             rows[i].file # loc[c].file \/ rows[i].off # loc[c].off
        /\ lock' = c
        /\ \E id \in {1} \cup {i + 1 : i \in DOMAIN rows} :
             IsNextId(id) /\ loc' = [loc EXCEPT ![c].id = id]
        /\ Goto(c, "commit")
        /\ UNCHANGED result
     \/ /\ lock = Free
        /\ \E i \in DOMAIN rows :
             rows[i].file = loc[c].file /\ rows[i].off = loc[c].off
        /\ lock' = Refused
        /\ Fail(c)
     \/ Fail(c) /\ UNCHANGED lock
  /\ UNCHANGED <<fileVars, rows, deleted, metaVars, clock>>

\* Mutant: the error of Commit is ignored.
CommitUnchecked(c) ==
  /\ pc[c] = "commit"
  /\ \/ rows' = [i \in DOMAIN rows \cup {loc[c].id} |->
                    IF i = loc[c].id THEN Slot(c) ELSE rows[i]]
     \/ UNCHANGED rows
  /\ lock' = Free
  /\ Goto(c, "update")
  /\ UNCHANGED <<fileVars, deleted, metaVars, loc, result, clock>>

\* The callback, then Commit.  An error of the callback (that of StoreSpam
\* fails when the user has deleted Junk) also leaves the transaction open; the
\* driver rolls back a Commit that fails.
Commit(c) ==
  /\ pc[c] = "commit"
  /\ \/ /\ rows' = [i \in DOMAIN rows \cup {loc[c].id} |->
                      IF i = loc[c].id THEN Slot(c) ELSE rows[i]]
        /\ lock' = Free
        /\ Goto(c, "update")
        /\ UNCHANGED <<loc, result>>
     \/ /\ lock' = Abandoned
        /\ Fail(c)
        /\ UNCHANGED rows
     \/ /\ lock' = Free
        /\ Fail(c)
        /\ UNCHANGED rows
  /\ UNCHANGED <<fileVars, deleted, metaVars, clock>>

\* Mutants: the cached offset does not wrap, does not count the header, or is
\* not updated.
UpdateTo(c, off) ==
  /\ pc[c] = "update"
  /\ cache' = [file |-> loc[c].file, off |-> off]
  /\ result' = [result EXCEPT ![loc[c].msg] = "nil"]
  /\ Return(c)
  /\ UNCHANGED <<fileVars, dbVars, saved, saver, clock>>
UpdateUnbounded(c) == UpdateTo(c, loc[c].off + 1 + Size[loc[c].msg])
UpdateNoHeader(c) == UpdateTo(c, (loc[c].off + Size[loc[c].msg]) % Wrap)
UpdateForgotten(c) == UpdateTo(c, loc[c].off)

\* cache.Update(lastFile, uint32(offset)+n), and StoreEmail returns nil.
Update(c) ==
  /\ pc[c] = "update"
  /\ cache' = [file |-> loc[c].file,
               off |-> (loc[c].off + 1 + Size[loc[c].msg]) % Wrap]
  /\ result' = [result EXCEPT ![loc[c].msg] = "nil"]
  /\ Return(c)
  /\ UNCHANGED <<fileVars, dbVars, saved, saver, clock>>

-----------------------------------------------------------------------------
\* DeleteEmail, DeleteEmailsWithFlag and RemoveMailboxEmails read the row ...
BeginDelete(c, id) ==
  /\ pc[c] = "idle"
  /\ id \in DOMAIN rows
  /\ loc' = [loc EXCEPT ![c] = [NoLoc EXCEPT !.msg = rows[id].msg,
                                  !.file = rows[id].file,
                                  !.off = rows[id].off, !.id = id]]
  /\ Goto(c, "remove")
  /\ UNCHANGED <<fileVars, dbVars, metaVars, result, clock>>

\* DELETE FROM emails, for the rows with these ids.
Drop(ids) ==
  /\ rows' = [i \in DOMAIN rows \ ids |-> rows[i]]
  /\ deleted' = deleted \cup {rows[i].msg : i \in DOMAIN rows \cap ids}

\* Mutant: the file is marked even if the row could not be deleted.
RemoveRowUnchecked(c) ==
  /\ pc[c] = "remove"
  /\ \/ lock = Free /\ Drop({loc[c].id})
     \/ lock # Free /\ UNCHANGED <<rows, deleted>>
  /\ Goto(c, "mark")
  /\ UNCHANGED <<fileVars, lock, metaVars, loc, result, clock>>

\* ... deleteEmail removes it by its id, which needs SQLite's write lock or
\* fails ...
RemoveRow(c) ==
  /\ pc[c] = "remove"
  /\ \/ /\ lock = Free
        /\ Drop({loc[c].id})
        /\ Goto(c, "mark")
        /\ UNCHANGED loc
     \/ Return(c) /\ UNCHANGED <<rows, deleted>>
  /\ UNCHANGED <<fileVars, lock, metaVars, result, clock>>

\* ... and DeleteEmailAt marks the header that the row it read pointed to; an
\* error leaves it unmarked.
MarkDeleted(c) ==
  /\ pc[c] = "mark"
  /\ \/ /\ loc[c].off < size[loc[c].file]
        /\ disk' = [disk EXCEPT ![loc[c].file][loc[c].off].del = TRUE]
     \/ UNCHANGED disk
  /\ Return(c)
  /\ UNCHANGED <<size, dbVars, metaVars, result, clock>>

\* DeleteMailbox runs CleanEmails, which deletes the rows left without a
\* mailbox (here: any rows); the files are not marked.
CleanEmails(ids) ==
  /\ lock = Free
  /\ Drop(ids)
  /\ UNCHANGED <<fileVars, lock, metaVars, callVars, clock>>

-----------------------------------------------------------------------------
\* meta.Save takes no lock: it reads lastFile, then offset, and SetMeta writes
\* them, or fails when the database is busy (and is tried again later).
SaveBegin ==
  /\ ~saver.busy
  /\ saver' = [busy |-> TRUE, file |-> cache.file]
  /\ UNCHANGED <<fileVars, dbVars, cache, saved, callVars, clock>>

SaveEnd ==
  /\ saver.busy
  /\ saver' = [busy |-> FALSE, file |-> NoFile]
  /\ saved' = IF lock = Free THEN [file |-> saver.file, off |-> cache.off]
                             ELSE saved
  /\ UNCHANGED <<fileVars, dbVars, cache, callVars, clock>>

\* The daemon is stopped by a signal while nothing is in flight and started
\* again: Meta.Close saves the cache, Sync loads it.  Open transactions end
\* with their context.
Restart ==
  /\ Stops # "never"
  /\ \A c \in Calls : pc[c] = "idle"
  /\ ~saver.busy
  /\ saved' = cache
  /\ lock' = Free
  /\ UNCHANGED <<fileVars, rows, deleted, cache, saver, callVars, clock>>

\* The process dies at any point (os.Exit, a panic, a kill) and is started
\* again: what was written to the files stays, open transactions are rolled
\* back, and Sync loads the cache that was saved last.
Crash ==
  /\ Stops = "any"
  /\ pc' = [c \in Calls |-> "idle"]
  /\ loc' = [c \in Calls |-> NoLoc]
  /\ lock' = Free
  /\ saver' = [busy |-> FALSE, file |-> NoFile]
  /\ cache' = saved
  /\ UNCHANGED <<fileVars, rows, deleted, saved, result, clock>>

Tick ==
  /\ clock < MaxTime
  /\ clock' = clock + 1
  /\ UNCHANGED <<fileVars, dbVars, metaVars, callVars>>

StoreStep(c) ==
  \/ ReadOffset(c)
  \/ OpenFile(c)
  \/ StatFile(c)
  \/ WriteHeader(c)
  \/ WriteBody(c)
  \/ NewEmail(c)
  \/ Commit(c)
  \/ Update(c)

DeleteStep(c) ==
  \/ RemoveRow(c)
  \/ MarkDeleted(c)

Next ==
  \/ \E c \in Calls : \/ \E m \in Msgs : BeginStore(c, m)
                      \/ StoreStep(c)
                      \/ \E id \in DOMAIN rows : BeginDelete(c, id)
                      \/ DeleteStep(c)
  \/ \E ids \in SUBSET DOMAIN rows : ids # {} /\ CleanEmails(ids)
  \/ SaveBegin
  \/ SaveEnd
  \/ Restart
  \/ Crash
  \/ Tick

Spec == Init /\ [][Next]_vars

\* A goroutine that can run is run; nothing forces a call to be made, the
\* clock to advance in the model, the saver to wake up or the daemon to stop.
Fairness == \A c \in Calls : WF_vars(StoreStep(c) \/ DeleteStep(c))

FairSpec == Spec /\ Fairness

-----------------------------------------------------------------------------
\* Reader: what reading the email of a row gives.  A header whose deleted bit
\* is set gives nothing; the content is whatever lies behind the header.
Reader(r) ==
  IF r.off >= size[r.file] THEN "EOF"
  ELSE IF disk[r.file][r.off].del THEN "deleted"
  ELSE IF \A i \in 0..Size[r.msg] :
            disk[r.file][r.off + i] = [msg |-> r.msg, pos |-> i, del |-> FALSE]
  THEN r.msg
  ELSE "other"

FileTypes ==
  /\ disk \in [Names -> [Offsets -> Unit]]
  /\ size \in [Names -> Nat]

DbTypes ==
  /\ DOMAIN rows \subseteq Nat
  /\ \A i \in DOMAIN rows : rows[i] \in Row
  /\ lock \in Calls \cup {Free, Refused, Abandoned}
  /\ deleted \subseteq Msgs

MetaTypes ==
  /\ cache \in Meta
  /\ saved \in Meta
  /\ saver \in [busy : BOOLEAN, file : Names \cup {NoFile}]
  /\ clock \in Names

CallTypes ==
  /\ pc \in [Calls -> StorePcs \cup DeletePcs \cup {"idle"}]
  /\ loc \in [Calls -> Loc]
  /\ result \in [Msgs -> {"new", "called", "nil", "error"}]

\* The locals of a call are defined where the code uses them.
LocalTypes ==
  \A c \in Calls :
    /\ Storing(c) => loc[c].msg \in Msgs
    /\ pc[c] \in StorePcs \ {"offset", "open"} =>
         loc[c].file \in Names /\ loc[c].to \in Names
    /\ Deleting(c) => Slot(c) \in Row

\* The cached offset is a uint32, the ids are numbers, and a call uses none of
\* its locals before the code assigns them.
TypeOK == FileTypes /\ DbTypes /\ MetaTypes /\ CallTypes /\ LocalTypes

\* An email that is listed, or was until it was deleted.
Seen(m) == m \in deleted \/ \E i \in DOMAIN rows : rows[i].msg = m

\* Every listed email reads back as what was stored for it (Reader: "returns
\* an [EmailReader] for the given email").  Holds when the stores of a user
\* come one after the other, no email is big and the daemon only stops when
\* idle, whatever deletions run meanwhile.
ReadBack == \A i \in DOMAIN rows : Reader(rows[i]) = rows[i].msg

\* The unique index on (offset, filename) refuses no email.  StoreEmail returns
\* without Rollback on the error of its insertion as on that of its callback,
\* and the open transaction blocks every later writer of the user.  The second
\* does happen (Abandoned); that a position taken from the cache is that of
\* another row does not, in the regime of ReadBack, whatever was abandoned,
\* failed or deleted before.
NeverRefused == lock # Refused

\* StoreEmail is atomic for its caller, at every interleaving and across
\* crashes: an email it returned nil for is listed until it is deleted, and
\* one it returned an error for is never listed.
StoreIsAtomic ==
  \A m \in Msgs : /\ result[m] = "nil" => Seen(m)
                  /\ result[m] \in {"new", "error"} => ~Seen(m)

\* The id a store is given by its insertion (the UID that APPEND answers and
\* that OnReceive announces) is nobody else's when it commits, although ids
\* are reused and deletions run at the same time.
IdIsFresh == \A c \in Calls : pc[c] = "commit" => loc[c].id \notin DOMAIN rows

InFlight(c) ==
  /\ result[loc[c].msg] = "called"
  /\ \A d \in Calls : Storing(d) /\ loc[d].msg = loc[c].msg => d = c
  /\ pc[c] = "update" <=> Seen(loc[c].msg)
  /\ pc[c] = "commit" => lock = c

\* The strengthening of the two that every step preserves: a store that has
\* not returned is the only one of its email, which is listed only after its
\* commit, and a store that is about to commit holds the write lock.
AtomicInv ==
  /\ StoreIsAtomic
  /\ IdIsFresh
  /\ \A c \in Calls : Storing(c) => InFlight(c)

\* Every call returns, even once a transaction holding the write lock was
\* left open: the busy timeout turns waiting for the lock into an error.
EveryCallReturns == \A c \in Calls : pc[c] # "idle" ~> pc[c] = "idle"

-----------------------------------------------------------------------------
\* The places that hold, or held until their deletion is over, an email.
Places == {rows[i] : i \in DOMAIN rows} \cup {Slot(c) : c \in {d \in Calls : Deleting(d)}}

Apart(r, s) == r.file # s.file \/ End(r) <= s.off \/ End(s) <= r.off

\* A place lies before the position k at which the next email would go.
\* Nothing is ever appended to a full file.
Before(r, k) ==
  \/ r.file < k.file
  \/ r.file = k.file /\ End(r) <= k.off

BeforeOrFull(r, k) ==
  Before(r, k) \/ (r.file = k.file /\ size[k.file] >= MaxFileSize)

Target(c) == [file |-> loc[c].to, off |-> loc[c].at]

\* The units of r are on disk.
Written(r) ==
  /\ End(r) <= size[r.file]
  /\ \A i \in 0..Size[r.msg] :
       disk[r.file][r.off + i] = [msg |-> r.msg, pos |-> i, del |-> FALSE]

\* Where a store stands: until it opened the file its variables are those of
\* the cache; then its target lies beyond every place in use, and after the
\* writes its email is there.
StoreProgress(c) ==
  /\ pc[c] = "offset" => loc[c].file = cache.file
  /\ pc[c] = "open" => loc[c].file = cache.file /\ loc[c].off = cache.off
  /\ pc[c] \in {"stat", "header", "body", "insert", "commit", "update"} =>
       /\ loc[c].to = loc[c].file /\ loc[c].at = loc[c].off
       /\ cache.file <= loc[c].to /\ loc[c].to <= clock
  /\ pc[c] = "stat" => \A r \in Places : BeforeOrFull(r, Target(c))
  /\ pc[c] \in {"header", "body", "insert", "commit"} =>
       \A r \in Places : Before(r, Target(c))
  /\ pc[c] = "body" =>
       disk[loc[c].to][loc[c].at] = [msg |-> loc[c].msg, pos |-> 0, del |-> FALSE]
  /\ pc[c] \in {"insert", "commit"} => Written(Slot(c))
  /\ pc[c] = "update" =>
       /\ End(Slot(c)) <= size[loc[c].to]
       /\ \A r \in Places : Before(r, [file |-> loc[c].to, off |-> End(Slot(c))])

RowsWritten == \A i \in DOMAIN rows : Written(rows[i])

RowsApart == \A i, j \in DOMAIN rows : i # j => Apart(rows[i], rows[j])

\* A deletion marks no place but that of the row it read.
DeletionsApart ==
  \A c \in Calls, i \in DOMAIN rows :
    Deleting(c) => \/ Apart(rows[i], Slot(c))
                   \/ pc[c] = "remove" /\ i = loc[c].id /\ rows[i] = Slot(c)

OneStore == \A c, d \in Calls : Storing(c) /\ Storing(d) => c = d

\* The cache is beyond every place, except between a commit and its Update.
CacheBeyond ==
  /\ (\A c \in Calls : pc[c] # "update") => \A r \in Places : BeforeOrFull(r, cache)
  /\ cache.file <= clock

\* The strengthening of ReadBack that every step preserves when the stores
\* are serial, no email is big and the daemon only stops when idle.
StoreInv ==
  /\ RowsWritten
  /\ RowsApart
  /\ DeletionsApart
  /\ OneStore
  /\ CacheBeyond
  /\ \A c \in Calls : StoreProgress(c)

\* The storage is a mail store: with the content of an email being what
\* Reader returns for its row, every step of the storage delivers one email,
\* deletes some or changes nothing visible.
Abstract == INSTANCE MailStore WITH
  box <- [i \in DOMAIN rows |-> Reader(rows[i])],
  delivered <- {rows[i].msg : i \in DOMAIN rows} \cup deleted

ImplementsMailStore == Abstract!Spec
=============================================================================
