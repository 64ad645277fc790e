# A TLA+ verification of atmail

atmail is a mail server in Go: `atmaild` receives emails by SMTP, stores those of
its own users, relays the others, and shows the stored ones by IMAP; `atmail` is a
command line for the same storage. This directory holds models of its parts, the
TLC configurations that check them on small instances, and theorems that TLAPS
proves for every value of the constants. `PROJECT.json` maps every definition to
the lines it models.

## The system

| part | state | operations |
|---|---|---|
| email storage (`storage/email.go`, `meta.go`, `store/`) | append-only files, the table `emails`, the cached position of the next email, its saved copy | `StoreEmail`, the deletions, `CleanEmails`, the saver, `EditEmail`, start and stop |
| outgoing queue (`relay/queue.go`, `relay.go`) | channel of emails, channel of tokens, sleeping retries, the shared `message.Entity` | `send`, `Enqueue`, `Loop`, `Queue.send`, `relayOutside` |
| rate limiter (`auth/ratelimit.go`) | a map of `Limited` per address, the goroutines of `increase` and their channels | `Limit`, `Accept`, `IsLimited`, `LimiterListener.Accept`, timers |
| SMTP session (`relay/session.go`, `server.go`, `filter.go`) | sender, recipients, authenticated user | `Auth`, `Mail`, `Rcpt`, `Data`, `Reset` |
| mailboxes and flags (`storage/mailbox.go`, `flags.go`) | tables of mailboxes, memberships, flags | create, rename, delete, add, remove, flags, sequence numbers |
| IMAP session and views (`display/`, `mailbox/view.go`) | the boxes of each user, counts, idle writers | login, select, append, store, expunge, copy, move, idle |
| filters (`filter/`) | statements, variables, a result | parse, evaluate |
| the rest | domains, groups and passwords (`auth/`), configuration and reload (`config.go`, `cmd/atmaild`), listeners (`utils/listen.go`), search, migrations, rspamd, OpenPGP, the command line | |

A delivered email crosses most of them: an SMTP session hands it to filters, then a
goroutine of its own splits the recipients by domain, stores local copies and
enqueues the others; the storage commits a row, and `OnReceive` tells the views of
connected IMAP clients. What makes this hard:

* a store is a sequence of steps on three things (cache, file, database) that no
  lock or transaction covers together, and the cache reaches the database every
  three hours only;
* the groups of one email share one buffer, which is drained by whoever renders
  it first, while retries come back at any time;
* the limiter's goroutines share a structure without a lock, and their timers race
  with the offences that should call them off;
* sessions, views and boxes are shared by goroutines of several connections.

## Modules

| module | models | checked by |
|---|---|---|
| `EmailStore` | the storage of one user | `store_*` runs |
| `MailStore` | what the storage promises: emails named by ids that keep their content until deleted | refined by `EmailStore` in `store_serial` |
| `RelayQueue` | an email's way from `Session.send` through the queue | `queue`, `queue_live` |
| `RateLimiter` | what the limiter knows of one address | `ratelimit`, `ratelimit_forgets` |
| `Mailboxes` | the mailboxes of one user, the IMAP sessions that work on them and the emails that arrive | `mailboxes`, `mailboxes_folder` |
| `Search` | the queries of SEARCH | `mailboxes` |
| `SmtpSession` | one SMTP connection and the goroutines that send its emails | `smtp` |
| `FilterLexer`, `FilterEval`, `FilterExpr`, `FilterParser` | filters: the lexer; the statements and the files of a server; expressions; the parser | `smtp` |
| `Views` | one view of a mailbox, its lock and the clients that idle on it | in `Daemon` |
| `Daemon` | `Views` with the storage's cache, SIGHUP and the stop of the daemon | `daemon` |
| `*Proofs` | theorems | TLAPS |
| `MC*` | constants and symmetry for TLC | |

**EmailStore.** Users have separate directories, databases and caches, so one user
is the whole system. A call (`pc`, `loc`) is a goroutine in `StoreEmail` or in a
deletion, cut where another goroutine or a crash can come between two accesses to
shared state: `BeginStore` (reads `LastFile`), `ReadOffset`, `OpenFile`, `StatFile`,
`WriteHeader`, `WriteBody`, `NewEmail`, `Commit`, `Update`; `BeginDelete`,
`RemoveRow`, `MarkDeleted`. Every step can fail where the code can return an error,
and as in the code nothing done before is undone. Files are arrays of units, one
for the header and `Size[m]` for the content; `uint32` wraps at `Wrap`. `lock` is
SQLite's write lock. `StoreEmail` returns without a rollback when its insertion or its
callback fails: `Refused` and `Abandoned` are the transactions it left open, which block
every later writer until the daemon is started again.
`SaveBegin`/`SaveEnd` are the saver, whose two reads take no lock. `Restart` is a
stop that saved the cache, `Crash` is any other. `SerialStores`, `Big` and `Stops`
select the regime.

**RelayQueue.** A group is the recipients of an email in one remote domain, or one
local recipient. `sender` and `ok` are the two channels, `loop` is `Queue.Loop`,
`st` where each group's goroutine stands. `body` and `readers` are the buffer in
`Entity.Body` and who is draining it; `buf` is what an attempt has to write.
Errors are kept as the classes that the switch of `Queue.send` tells apart.

**RateLimiter.** One address. A channel is named after the goroutine that made it.
The handlers that hold `r.mu` are one action; `increase` is cut at every access to
the shared `Limited`. Timers fire at their deadline or later, which also covers
the random bonus. `prompt` is the regime in which a handler or goroutine runs to
its next wait before another begins; without it every interleaving is allowed.

**Mailboxes.** One user. `emails`, `box`, `member` and `flagged` are the tables, with
the cascades of their foreign keys and the reuse of ids after a deletion; of the flags
only `\Deleted` is kept. `views` are the maps of a `Boxes`, `boxes` the one that the
backend shares, `mine` the one a session has (two logins at once make two). A command
is cut at its transactions: `Copy` lists, `AddMailboxEmails` inserts, `MoveGetIds` reads
the set again, `RemoveMailboxEmails`, `ListEmailsNoMailbox` and `Purge` are the three
parts of a removal. Queries that make one list are one step. A transaction that fails
in `execTx` stays open (`leaked`), and panics close the connection. `StoreEmail` is its
transaction: `EmailStore` has the rest. Sent and Trash, which differ from a folder only
in being there at first, are left out. In the regime `orderly` commands come one after
the other, name UIDs of the selected mailbox and rename nothing, no email comes for a
folder, and nobody sends DELETE with the empty name. The last is needed: a delivery to
INBOX makes a view of the empty name with the id of the email (`main.go:157`), and DELETE
would take the mailbox that has this id, with its emails. `folders` adds deliveries to a
folder; `free` allows everything.

**SmtpSession.** One connection. `to` and `arrays` are the slice `Session.To` and the
arrays behind it, so that a goroutine that holds a slice sees later writes to the same
array. `Data` is the whole handler: results of filters are applied one recipient after
the other, to the recipients as the earlier results left them, and a result may add
recipients or put all of them in a mailbox. `task` is the goroutine that `Data` starts;
`Items` is `GroupBy`, and a domain goes where its first recipient says. `SendGroup`
and `SendInside` read the sender from the session, as `relayInside` does, which may
have gone on to another `MAIL`, also one that was refused. An email that is marked as spam
goes to Junk, whatever its folder; one that cannot be rendered is `logged` and not stored.
`Exists` has static domains and those of Den, whose groups are there for other senders and
whose users may not be found when Den does not answer. A filter that discards an email
does not keep it from its recipients: `applyResult` returns, and `Data` goes on.
`patient` is the regime in which the client waits.

**FilterLexer, FilterEval, FilterExpr, FilterParser.** Pure operators. A text is a sequence
of pieces, a piece a run of letters or one other byte. The lexer takes a byte for the
character of that number and writes it in UTF-8 (`WriteRune`): a byte above 127 becomes
two. It also takes a `#` between quotes for a comment. `Scan` is the loop of
`Lexer.Next`, a recursive function so that it can be reasoned about, and each parsing
operator takes the lexems that are left and gives what it read with those it left, as the
methods of the lexer do by side effect. A value is a record that has its type as a field;
comparing two collections panics, as it does in Go.
`EvalFilter` and `CheckFilters` copy the context but for the header changes, whose map all
copies share. `After` is the loop over statements, of `Tree.Eval`, which breaks after a
terminal action, and of `Filter.Eval`, which does not; with `documented` set, sub-filters
break too, as `filter/README.md` says they do, and `TerminalStops` compares the two.
`FilterEval` takes the evaluation of expressions and that of the statements of a sub-filter
as constants, `Eval` and `EvalNested`, which `smtp.cfg` gives as `EvalExpression` of
`FilterExpr` and as `EvalStatement` itself (`MCEvalNested`): so it declares nothing
recursive, and can be reasoned about. `MCSmtpSession` takes the results that `Data` applies
from `CheckFilters`: two files, in both orders of the map.

**Search.** `parseCriteria` as the code writes it: a query is a sequence of terms joined
by OR, each of conditions joined by AND, so that the precedence of SQL is kept. A flag with
an apostrophe is written with an escape that SQLite does not have (`Flags`), and the query
is then malformed. `Matches`, what criteria mean, takes SINCE as the code does: later than
its date, where IMAP has that date too. A text in
parentheses is named by the criteria it is written for; `Selects` and `WellFormed`, what
SQLite makes of a text, and `Check`, the function that looks at the rows again, are
recursive functions over the criteria.

**Views, Daemon.** In `Views` an Idle is cut at `Lock`, at the section under the lock and
at its `select`; a call of a Write function at `RLock` and at each writer. Go's RWMutex
is modelled with its rule that a waiting `Lock` keeps new readers out. `Daemon` adds that
updates come from the storage (those `ForInbox` are not announced: `OnReceive` looks for a
view of the empty name, while the clients idle on that of INBOX), and runs `main`: `GetDB`, `Commit` and `Notify` are an
update, `CacheClose` and `Exit` what `main` defers, `TakeHup`, `ParseConfig`,
`ParseFilters` and `Install` the goroutine that reloads. `os.Exit` on a failing server,
and in `ParseConfig` on a missing file, runs nothing of what was deferred.

## Runs

| run | what it shows |
|---|---|
| `store_serial` | With stores one after the other, no email of 5 MiB or more, and stops when idle only: every listed email reads back (`ReadBack`), the unique index refuses no email (`NeverRefused`), the inductive invariant `StoreInv` holds, and the storage implements `MailStore`. Two calls, three emails, files that fill up, three seconds, failing writes and callbacks, concurrent deletions. |
| `store_concurrent` | In every regime at once: `StoreEmail` is atomic for its caller (`StoreIsAtomic`), ids are fresh (`IdIsFresh`), and calls return (`EveryCallReturns`). |
| `store_overlap`, `store_crash` | Each drops one assumption of `store_serial`, and `ReadBack` fails: see Findings. |
| `queue` | Two remote domains and a local recipient, two senders, two relays each: tokens are conserved (`Tokens`), complete copies are bounded (`CompleteCopies`). |
| `queue_live` | Three groups, one sender, a channel of two: every group is settled (`Settles`); waits grow and are bounded (`BackoffGrows`). |
| `ratelimit` | Three offences, two structures, one listener: connections are dropped only after two failed logins (`SecondOffence`); with prompt handlers nothing panics (`NoPanic`), penalties last (`PenaltyLasts`) and addresses are remembered (`PromptRemembered`). |
| `ratelimit_forgets` | Without promptness an address is forgotten early (`Remembered`): see Findings. |
| `mailboxes` | Two sessions, two emails, three mailboxes, in the regimes `orderly` and `free`: an email in no mailbox is always about to be deleted unless a removal was cut short (`NoStray`, in every interleaving); in order, no email disappears that no client asked to delete (`NothingLost`) and the view of every name but the empty one has the ID of the mailbox with that name (`RightMailbox`). Over thousands of criteria: SEARCH by dates and by flags without apostrophes finds every email of the mailbox that matches, and without OR nothing else (`SearchFinds`). |
| `mailboxes_folder` | With deliveries to a folder a view gets the wrong ID (`FolderIsThere`): see Findings. |
| `smtp` | Two emails to a subaddress and to nested groups, with results of filters that add, move, refuse or panic: copies go to recipients of their own email (`OwnRecipients`), nobody is left out but where rendering failed (`EveryoneServed`), what is stored for a subaddress is in its folder, or in Junk when it is marked as spam (`FolderKept`), a patient client's emails keep their sender (`SenderKept`), and every accepted email is sent (`AcceptedIsSent`). Over all small files: the rule on terminal actions holds where sub-filters have theirs last (`TerminalStops`), a filter whose condition is not met leaves nothing (`FailureLeavesNothing`). Over small texts and programs: the lexer loses nothing from one lexem to the next (`LexLossless`), programs in three layouts, and strings without `#` and with bytes up to 127, are read as they were meant (`ParsesBack`), and conditions on numbers, strings and booleans are met exactly when one of their comparisons holds (`ConditionMet`). |
| `daemon` | Two clients, two deliveries and a command of another session; or a stop during three updates; or two changes of the files and three SIGHUPs: who waits in IDLE hears of every update that is announced to the view (`HearsEverything`), updates and clients get out of the lock unless one writer fails twice (`NobodyStuck`), the last SIGHUP counts (`LastHupCounts`), and the saved position covers what was stored but for stores that Close overtook (`SavedOnStop`). |

Bounds. `MaxFileSize = 3` and `Wrap = 5` units with emails of 1, 2 and 3 units make
files fill up, and make an offset wrap, with two emails; `MaxOff` is where the last
unit can lie. `MaxTime` of `EmailStore` bounds the names of files: three seconds give
a file, its successor, and one more. Two calls suffice for every pairwise race.
`MaxDuration = 4` leaves two retries of each group (waits 0, 4, 6; the code's 900
leaves 14), `MaxHosts` bounds the relays of a domain. In `RateLimiter`, `Tasks`
bounds the offences, `Objs` the structures allocated and `MaxTime` the clock; `Soon`
and `Later` keep their order, and four units let both waits pass and one more begin.
In `Mailboxes`, `MaxCommands` and `MaxEmails` are given per regime: six commands, logins
and restarts are two sessions that each select a mailbox and then flag, copy, move or
remove at once, or one session with five commands; `MaxBox` leaves room for one folder beside INBOX and Junk. In `SmtpSession` the second email has one
recipient, enough to overtake the goroutine of the first, which has two; `MCFewer` keeps
to one what would only multiply: a MAIL that comes again and a copy that is not rendered.
`Bounds` of `Daemon` gives three instances, one per question, since together they would
only multiply. `Scripts` are the files of up to three statements of every kind, and
those with a sub-filter of up to two, or with such a one inside of another, between two
statements. `Programs` has every nesting of two operators, calls, fields and filters, and
`Texts` every text of up to three of fourteen pieces, two of them bytes above 127, and of
five of six. The operators of
filters and of SEARCH have no state: in `smtp` and `mailboxes` each of their inputs is an
initial state (the variables `input` and `search`) in which the sessions rest, beside the
one from which the sessions run. The theorems need none of these bounds.

Fairness. `store_concurrent`: a goroutine in a call is run on; nothing forces a call,
the saver or the clock. `queue_live`: senders, `Loop` and goroutines blocked on a
channel are run when they can be; Go's channels serve waiting goroutines in order,
so weak fairness is less than what the code has. Nothing forces an email to be sent
or the daemon to stop. `daemon`: goroutines in Idle and in a Write function that can go
on, and the one that reloads, are run; no client has to stop, no file has to change and no
signal has to come. `smtp`: a goroutine that can go on is run on; nothing forces the
client. `queue`, `queue_live`, `ratelimit`, `mailboxes`, `smtp` and `daemon` do not check
deadlock: a queue with nothing to do, a limiter without offences, connections whose
client is silent and a daemon that has stopped rest.

## Findings

* `store_overlap`: two deliveries to one user read the same cached position, and one
  row then reads the content of the other.
* `store_crash`: a crash brings back a position up to three hours old; later stores
  overwrite listed emails.
* `ratelimit_forgets`: a goroutine whose last timer fired, and that waits for the
  mutex while a new offence is recorded, forgets the offence at once, although the
  code says "at least 1h".
* `mailboxes_folder`: the view that `OnReceive` adds for a new folder has the id of the
  email in place of the id of the mailbox, so that connected clients do not find the
  email in `INBOX/bar`, where `README.md` says it is placed.

Met while modelling, as the modules have it, without a run of their own:

* an email of 5 MiB or more is written to a file of its own while its row names the last
  file (`storage/store/email.go:58`; `OpenFile` of `EmailStore`);
* a terminal action in a sub-filter does not stop the rest of it, against
  `filter/README.md:145`; `body` has no methods, though the documentation calls
  `body:contains`; a condition that begins with a parenthesis is refused; a comment after a
  condition on its line takes the newline with it, and a file that begins with a blank
  line is refused; header changes of a file that failed stay; `discard` delivers the email
  all the same, though `filter/eval.go:141` calls the actions those of the milter protocol;
* strings of filters have each byte above 127 as two and end at a `#`, while
  `filter/grammar.abnf:3` allows every octet; comparing two collections panics;
* a callback of `StoreEmail` that fails, as that of `StoreSpam` does for a user who has
  deleted Junk, leaves its transaction open, and nothing more is stored for the user;
* the row of a deletion is removed by an id that may be that of a newer email by then;
* every delivery to INBOX makes a view of the empty name with the id of the email, which
  DELETE of that name takes for the id of a mailbox; clients that idle on INBOX are not
  told of the email;
* a marked email is stored in Junk and announced for the folder of its recipient;
* the groups of a static domain are there for everyone but their authorized senders, those
  of a Den domain for these only; a user of a Den domain has an empty name;
* a SEARCH with NOT finds nothing, with a set of ids or an apostrophe in a flag it is a
  syntax error, with OR it may find emails of other mailboxes, SINCE leaves out an email of
  that very second, and LARGER and SMALLER compare the id;
* SIGHUP replaces the filters only, while `README.md:30` says that it reloads the domains,
  and it closes the connections to Den that the servers go on using;
  a second failure of one writer blocks its view; a view's count grows once for each
  client that idles.

## Proofs

The theorems hold for every value of the constants that satisfies the named `ASSUME`s
of the modules, which TLC evaluates on each run. Each safety property rests on an
invariant that every step keeps.

`EmailStoreProofs`: `TypeCorrect`, `AtomicInvariant`, `StoreAtomic` and `IdFresh` hold in
every regime. The last two need `AtomicInv`: a store in flight is the only one of its
email, its email is listed exactly from commit on, and it commits holding the lock.

`ReadBackProofs`: with `Orderly` (serial stores, no big email, stops only when idle)
`StoreInv` is inductive: rows are written and apart, deletions in flight touch no
other row, and the cache lies beyond every place in use, except between a commit and
its `Update`, where the store's own target does. `OrderlyReadBack` follows, as do
`OrderlyNeverRefused` (the unique index cannot refuse a fresh position, whatever
transactions failing callbacks left open before) and `OrderlyImplements`, the refinement
of `MailStore`.

`RelayQueueProofs`: `QueueTypes`, `TokensConserved`, `CopiesBounded` and
`RetriesBackOff`. Tokens need that the queue holds each group at most once and only
while it is queued, so that taking an email starts exactly one sender. Copies need
a count of what may still be complete: the body while it is full and each reader's
buffer.

`ComponentProofs` has the rate limiter, the search and the lexer. Of the limiter: `LimiterTypes`, `NeedsTwoOffences`, `PromptNeverPanics`,
`PenaltiesLast` and `PromptlyRemembers`. `OffenceInv` says that the structure in the map is
limited only if two logins failed since the address was last forgotten; what listeners and
goroutines still hold of older structures is no longer in the map. The last three are about
prompt handlers. `PromptInv` says that one goroutine or listener runs at a time and on the
structure in the map (`OneRuns`), that a goroutine waits on the channel it made, and is the
last one of that structure unless its channel is closed (`OwnChannel`), that a channel is
nowhere before it is made (`NotYetMade`), whether the channel of the structure is open at
each step of `increase` (`ChannelState`), and that the timer on an open channel runs from
the last offence or later (`TimerCounts`).

`SearchFindsWhatMatches` states `SearchFinds` for all criteria and all emails. Its
hypothesis `Trees(depth)` says that criteria are finite trees: those inside of others have
a smaller depth. That makes the recursive functions of `Search` what their definitions say,
each by induction on the depth. The theorem then needs that every criterion of dates and
flags (without apostrophes) can be parsed and passes `Check`, and that a row that matches satisfies some term
(`TermSelected`): the one that begins with the second alternative of the last OR of which it
matches that, or the first one. No alternative is empty, since criteria other than `Plain`
write something.

`LexerLosesNothing` states `LexLossless` for every text over any pieces and bytes.
`Uncommented`, what a text has apart from its comments, as `WriteRune` writes it, is read piece by piece, with one bit for being inside of
a comment; the lexer skips whole lines instead and may do so in the middle of a lexem. Both
agree on what is left after comments (`CommentSkipped`, `CommentsSkipped`). The loop of
`Next` keeps its value together with what is written in the rest of the text (`Keeps`), but
for the zero byte of a comment at the end, and leaves less text than it was given when
it begins a lexem (`Shrinks`). All functions are recursive along the length of the text; the
lemma `Recursion` makes them what their definitions say and `Along` is the induction.

`DaemonProofs`: `ViewsHear`, `DaemonHears`, `StopSaves` and `DaemonTypes`. `ViewInv` follows
an update through the lock: while it waits, the clients it owes something still select and
so are registered; while it reads, each of them is still to be written to or was. The
steps of `Daemon` are steps of `Views` or leave it alone. `StopInv` counts the deliveries
that had the database when `Close` ran: only these can move the position afterwards. The
bound that `TypeOK` puts on the position needs that it is the number of deliveries stored.

The second part of `DaemonProofs` is about filters. `FailedFiltersLeaveNothing` and
`TerminalActionsStop` state `FailureLeavesNothing` and `TerminalStops` for scripts of any
length, with sub-filters of any depth, any emails and any evaluation of expressions: `Eval`
stays a constant. `Recurs` says that `EvalNested` is `EvalStatement`, as `smtp.cfg` has it,
and `Nests(depth)` that sub-filters are finite trees, by which the inductions go. The first
theorem needs that statements are blind to the header changes, the one thing a failed filter
leaves: what they answer and do to the rest does not depend on them (`Blind`, by induction
on the depth, and `LoopAlike` for the loops). Then the loop after a failed sub-filter is the
loop without it, and a file tried after one that failed answers as if it were alone. The
second needs that a statement that cannot end the evaluation keeps the action of the result
(`Keeps`, `LoopKept`), so that a loop over such statements, with or without a last one that
may, never meets its `break` before its end (`SameLoops`). `MayEnd` and `EndsLast`, which
are recursive functions, are shown to exist as a least and a greatest fixed point.

`MailboxesProofs`: `NeverStray` and `MailTypes`, in every regime. `StrayInv` adds the
foreign keys of `mailbox_emails` to `NoStray`. An email becomes a stray when a removal takes
it out of its last mailbox, and then its session is still to list every stray, whoever made
it; or when its mailbox is deleted, and then the same transaction deletes it, because the
keys say that the other mailboxes it keeps its row for exist. `MailInv` adds to `TypeOK`
that no id of an email is larger than the number of emails that came, since SQLite gives the
largest id again once its row is deleted.

`MailOrderProofs`: `MailboxIsRight` and `NothingIsLost`, about orderly sessions. `Order` says
that names are unique, that one command is under way and that all sessions share one
`Boxes`, whose views, that of the empty name apart, point to the mailboxes with their names. `Safe` says that whatever is
flagged `\Deleted` or in no mailbox somebody asked to delete, and `WorkInv` what each step
of a command knows of the emails it works on: above all, what a MOVE takes out of the
selected mailbox is in another one, so that the removal, which deletes every stray it
finds, finds none of these.

`SmtpProofs`: `SenderIsKept`, `RecipientsAreOwn`, `EveryoneIsServed`, `FolderIsKept` and
`SessionTypes`. The goroutines read `From` of the session, which only MAIL changes.
`SenderInv` says that with a client that waits it is the sender of every email being sent,
and that emails accepted earlier have smaller numbers than the one whose sender MAIL or RSET
may still change. The other properties are about the array of recipients, and hold for any
answers of the filters: RCPT and the loop of DATA write to the array of the email that comes
next and to no other (`SessionInv`); the loop leaves the recipients it finds in their places
and appends those of the filters (`LoopInv`); and for everyone who was named the goroutine
has handed over a copy or still has the item, groups being replaced by their members
(`TaskInv`, `CopyInv`). What the loop computes is a recursive function; `LoopInv` is proved
by induction, as the absence of a least index at which it fails.

Only model-checked are:

* liveness under fairness (`EveryCallReturns`, `Settles`, `AcceptedIsSent`, `NobodyStuck`,
  `LastHupCounts`), which is beyond the prover;
* `ParsesBack` and `ConditionMet`, which goes through the parser too: its operators call each
  other recursively, which the prover does not expand, and what they read from every text
  would need induction over the grammar;
* the properties that a run shows to be violated, which are no theorems.

## Not modelled

* Password hashing, OpenPGP, MIME, DNS, TOML and HTTP are libraries: their results are
  inputs. Encryption for a local recipient is left out with them.
* `EditEmail` and the command line work on the storage from a second process with a cache
  of its own. That alone breaks the order that `ReadBack` needs (`store_overlap`), so a
  model of them would show nothing more.
* What clients are told: the numbers in FETCH, EXPUNGE and the counts of views. They are
  answers, and change no state that another part reads.
* Subscriptions, mailbox attributes and the flags other than `\Deleted` are rows that only
  LIST and FETCH read.
* `MultiListener` hands over what its listeners accept; the relay cache has no user in the
  code yet. What a Den server answers is an input, also when its connection is closed.
* Of filters, the methods get, split and number of strings, and set and has_value of
  collections, numbers with a point, and the lines in messages of errors.
* The random bonus of the limiter: a timer may fire late at any time.
