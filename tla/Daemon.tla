------------------------------- MODULE Daemon -------------------------------
(***************************************************************************)
(* The daemon around the storage and the views (cmd/atmaild/main.go): it   *)
(* reloads its configuration on SIGHUP (config.go), tells the clients that *)
(* idle of the emails it stores (OnReceive), and on a signal runs what     *)
(* main has deferred, the last deferred first: the listeners are closed,   *)
(* then the cache of the storage, then the servers.                        *)
(*                                                                         *)
(* An update of the view comes from a delivery, or from a command of       *)
(* another session of the user.  Both ask storage.Cache for the database   *)
(* first and change it next.  A delivery also moves the position at which  *)
(* the next email is written, which Save puts into the database            *)
(* (storage/meta.go).                                                      *)
(*                                                                         *)
(* The configuration is a version of its files.  What a reload does with   *)
(* the connections of Den domains is left out: no code uses them yet.      *)
(***************************************************************************)
EXTENDS Views

CONSTANTS
  Deliveries,   \* the updates that are deliveries of emails, to the mailbox of the view,
  ForInbox,     \* and those of them that name no folder, for which that is INBOX
  Bounds        \* what may happen from outside in one behaviour: the IDLE
                \*   commands of a client, the updates, the changes of the
                \*   files, the SIGHUPs, and the events that end the daemon

ASSUME DaemonAssumption ==
  /\ Deliveries \subseteq Notifiers /\ ForInbox \subseteq Deliveries
  /\ Bounds \subseteq [idles : 0..MaxIdles, updates : Nat, edits : Nat, hups : Nat, ends : Nat]

VARIABLES
  main,       \* where main stands
  ctxDone,    \* SIGINT or SIGTERM has arrived
  update,     \* where each update stands in the storage
  pos,        \* the position in meta, as the number of emails before it
  saved,      \* the position in the database
  late,       \* history: updates that had the database when Close ran
  badSave,    \* history: the Save of Close failed
  file,       \* the version of the files on disk
  left,       \* what may still happen from outside
  hup,        \* the channel sig holds a SIGHUP
  reload,     \* where the goroutine that reloads stands
  loaded,     \* the filters that LoadConfig returns
  filters,    \* Backend.Filters
  asked,      \* history: the version when the last SIGHUP came
  failed      \* history: the versions a load of which failed

mainVars == <<main, ctxDone>>
storeVars == <<update, pos, saved, late, badSave>>
reloadVars == <<file, left, hup, reload, loaded, filters, asked, failed>>
vars == <<viewVars, mainVars, storeVars, reloadVars>>

Init ==
  /\ ViewInit
  /\ main = "serving" /\ ctxDone = FALSE
  /\ update = [n \in Notifiers |-> "new"]
  /\ pos = 0 /\ saved = 0 /\ late = {} /\ badSave = FALSE
  /\ file = 0 /\ loaded = 0 /\ filters = 0 /\ asked = 0 /\ failed = {}
  /\ hup = FALSE /\ reload = "waits"
  /\ left \in Bounds
  /\ idles = [c \in Clients |-> left.idles]

Running == main # "exited"

\* The environment spends one of its events.
Spend(event) ==
  /\ left[event] > 0
  /\ left' = [left EXCEPT ![event] = @ - 1]

-----------------------------------------------------------------------------
GetDBAlways(n) ==    \* mutant: Close unlocks what DB locks
  /\ Running /\ update[n] = "new"
  /\ Spend("updates")
  /\ update' = [update EXCEPT ![n] = "has"]
  /\ UNCHANGED <<viewVars, mainVars, pos, saved, late, badSave,
                 file, hup, reload, loaded, filters, asked, failed>>

\* Cache.DB: takes the mutex that Close never gives back.
GetDB(n) ==
  /\ Running /\ update[n] = "new"
  /\ Spend("updates")
  /\ main # "closed"
  /\ update' = [update EXCEPT ![n] = "has"]
  /\ UNCHANGED <<viewVars, mainVars, pos, saved, late, badSave,
                 file, hup, reload, loaded, filters, asked, failed>>

CommitMoves(n) ==    \* mutant: commands move the position too
  /\ Running /\ update[n] = "has"
  /\ update' = [update EXCEPT ![n] = "stored"]
  /\ pos' = pos + 1
  /\ UNCHANGED <<viewVars, mainVars, saved, late, badSave, reloadVars>>

\* The transaction commits and the position is moved, or it fails.
Commit(n) ==
  /\ Running /\ update[n] = "has"
  /\ \/ /\ update' = [update EXCEPT ![n] = "stored"]
        /\ pos' = IF n \in Deliveries THEN pos + 1 ELSE pos
     \/ /\ update' = [update EXCEPT ![n] = "failed"]
        /\ UNCHANGED pos
  /\ UNCHANGED <<viewVars, mainVars, saved, late, badSave, reloadVars>>

\* OnReceive, and what a command tells the other clients: only what is stored.
\* The view that OnReceive tells is that of the folder of the recipient, which
\* for INBOX is the empty name: nobody can select that view, and the clients
\* that idle in INBOX are not told.
Notify(n) ==
  /\ Running /\ update[n] = "stored" /\ n \notin ForInbox
  /\ RLock(n)
  /\ UNCHANGED <<mainVars, storeVars, reloadVars>>

\* The rest of the view.
View ==
  /\ Running
  /\ \/ \E c \in Clients : Enter(c) \/ StopIdle(c) \/ Break(c) \/ ClientStep(c)
     \/ \E n \in Notifiers : CallStep(n)
  /\ UNCHANGED <<mainVars, storeVars, reloadVars>>

\* The goroutine of DB that saves every three hours.
SaveTimer ==
  /\ Running /\ saved # pos
  /\ saved' = pos
  /\ UNCHANGED <<viewVars, mainVars, update, pos, late, badSave, reloadVars>>

-----------------------------------------------------------------------------
\* The context of signal.NotifyContext.
Signal ==
  /\ Running /\ ~ctxDone
  /\ Spend("ends")
  /\ ctxDone' = TRUE
  /\ UNCHANGED <<viewVars, main, storeVars, file, hup, reload, loaded, filters, asked, failed>>

\* The select at the end of main; the listeners are closed.
MainStops ==
  /\ main = "serving" /\ ctxDone
  /\ main' = "stopping"
  /\ UNCHANGED <<viewVars, ctxDone, storeVars, reloadVars>>

\* A server returned: os.Exit runs nothing of what was deferred.
ServerFails ==
  /\ main = "serving"
  /\ Spend("ends")
  /\ main' = "exited"
  /\ badSave' = TRUE
  /\ UNCHANGED <<viewVars, ctxDone, update, pos, saved, late,
                 file, hup, reload, loaded, filters, asked, failed>>

\* Cache.Close saves the position.  The error of a Save is dropped.
CacheClose ==
  /\ main = "stopping"
  /\ main' = "closed"
  /\ late' = {n \in Deliveries : update[n] = "has"}
  /\ \/ saved' = pos /\ UNCHANGED badSave
     \/ UNCHANGED saved /\ badSave' = TRUE
  /\ UNCHANGED <<viewVars, ctxDone, update, pos, reloadVars>>

\* The servers are closed and main returns.
Exit ==
  /\ main = "closed"
  /\ main' = "exited"
  /\ UNCHANGED <<viewVars, ctxDone, storeVars, reloadVars>>

-----------------------------------------------------------------------------
\* Someone changes the configuration, a domain or a filter.
Edit ==
  /\ Running
  /\ Spend("edits")
  /\ file' = file + 1
  /\ UNCHANGED <<viewVars, mainVars, storeVars, hup, reload, loaded, filters, asked, failed>>

HupUnbuffered ==    \* mutant: a channel without a place
  /\ Running
  /\ Spend("hups")
  /\ hup' = (hup \/ reload = "waits")
  /\ asked' = file
  /\ UNCHANGED <<viewVars, mainVars, storeVars, file, reload, loaded, filters, failed>>

\* SIGHUP: signal.Notify drops it when the channel of one place is full.
Hup ==
  /\ Running
  /\ Spend("hups")
  /\ hup' = TRUE
  /\ asked' = file
  /\ UNCHANGED <<viewVars, mainVars, storeVars, file, reload, loaded, filters, failed>>

\* The goroutine takes it, or returns with the context.
TakeHup ==
  /\ Running /\ reload = "waits"
  /\ \/ /\ hup
        /\ hup' = FALSE
        /\ reload' = "parse"
     \/ /\ ctxDone
        /\ reload' = "returned"
        /\ UNCHANGED hup
  /\ UNCHANGED <<viewVars, mainVars, storeVars, file, left, loaded, filters, asked, failed>>

\* ParseConfig reads the files of the configuration and the domains and checks
\* them.  A file that is missing ends the daemon at once.
ParseConfig ==
  /\ Running /\ reload = "parse"
  /\ \/ reload' = "filters" /\ UNCHANGED <<main, badSave, failed>>
     \/ reload' = "waits" /\ failed' = failed \cup {file} /\ UNCHANGED <<main, badSave>>
     \/ main' = "exited" /\ badSave' = TRUE /\ UNCHANGED <<reload, failed>>
  /\ UNCHANGED <<viewVars, ctxDone, update, pos, saved, late, file, left, hup, loaded, filters, asked>>

\* The rest of LoadConfig reads the files of the filters.
ParseFilters ==
  /\ Running /\ reload = "filters"
  /\ \/ reload' = "loaded" /\ loaded' = file /\ UNCHANGED failed
     \/ reload' = "waits" /\ failed' = failed \cup {file} /\ UNCHANGED loaded
  /\ UNCHANGED <<viewVars, mainVars, storeVars, file, left, hup, filters, asked>>

\* Of what was loaded the servers get the filters, and nothing else.
Install ==
  /\ Running /\ reload = "loaded"
  /\ filters' = loaded
  /\ reload' = "waits"
  /\ UNCHANGED <<viewVars, mainVars, storeVars, file, left, hup, loaded, asked, failed>>

-----------------------------------------------------------------------------
Next ==
  \/ \E n \in Notifiers : GetDB(n) \/ Commit(n) \/ Notify(n)
  \/ View
  \/ SaveTimer
  \/ Signal \/ MainStops \/ ServerFails \/ CacheClose \/ Exit
  \/ Edit \/ Hup \/ TakeHup \/ ParseConfig \/ ParseFilters \/ Install

\* Goroutines that can run are run: those in Idle, those in a Write function,
\* and the one that reloads.  No client has to stop and no signal has to come.
Fairness ==
  /\ \A c \in Clients : WF_vars(Running /\ ClientStep(c) /\ UNCHANGED <<mainVars, storeVars, reloadVars>>)
  /\ \A n \in Notifiers : WF_vars(Running /\ CallStep(n) /\ UNCHANGED <<mainVars, storeVars, reloadVars>>)
  /\ WF_vars(TakeHup) /\ WF_vars(ParseConfig) /\ WF_vars(ParseFilters) /\ WF_vars(Install)

Spec == Init /\ [][Next]_vars /\ Fairness

-----------------------------------------------------------------------------
\* Types; the position in the database is never ahead of the one in memory.
TypeOK ==
  /\ ViewTypeOK
  /\ main \in {"serving", "stopping", "closed", "exited"}
  /\ ctxDone \in BOOLEAN
  /\ update \in [Notifiers -> {"new", "has", "stored", "failed"}]
  /\ pos \in 0..Cardinality(Deliveries) /\ saved \in 0..pos
  /\ late \subseteq Deliveries /\ badSave \in BOOLEAN
  /\ file \in Nat /\ hup \in BOOLEAN
  /\ left \in [idles : 0..MaxIdles, updates : Nat, edits : Nat, hups : Nat, ends : Nat]
  /\ reload \in {"waits", "parse", "filters", "loaded", "returned"}
  /\ loaded \in 0..file /\ filters \in 0..file /\ asked \in 0..file
  /\ failed \subseteq 0..file

\* When main has returned after a signal, the position in the database covers
\* every email but those of the stores that were under way when Cache.Close
\* ran: a store that begins later waits for the mutex that Close keeps, though
\* the servers are closed after the cache.
SavedOnStop ==
  main = "exited" /\ ~badSave =>
    pos - saved <= Cardinality({n \in late : update[n] = "stored"})

MaxVersion == CHOOSE e \in {b.edits : b \in Bounds} : \A b \in Bounds : b.edits <= e

\* The last SIGHUP counts: the filters become those of the files as they were
\* when it came, unless they change again, cannot be loaded or the daemon
\* stops, although SIGHUPs that come while one is waiting are dropped.
LastHupCounts ==
  \A v \in 0..MaxVersion :
    asked = v ~> filters = v \/ file # v \/ v \in failed \/ ctxDone \/ ~Running

\* The writer of an Idle has failed twice: one error fills the channel, and
\* the goroutine with the other waits for room with the read lock held.
TwoErrors == \E c \in Clients : fails[c] >= 2

\* An update of the view returns and a client that stops gets out of Idle, so
\* deliveries go on, unless the writer of one Idle fails twice.
NobodyStuck ==
  /\ \A n \in Notifiers :
       call[n] # "new" ~> call[n] \in {"done", "gaveup"} \/ TwoErrors \/ ~Running
  /\ \A c \in Clients :
       idle[c] = "leave" ~> idle[c] = "out" \/ TwoErrors \/ ~Running
=============================================================================
