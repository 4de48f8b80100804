# icr in TLA+

icr finds Idle Champions promotion codes (Discord, public lists, newsletter
mailboxes, manual entry) and redeems them for several game accounts. Its
database is "both the source of truth and the work queue": sources insert
codes, and one worker drains the outstanding (account x code) matrix against the
game server. This directory holds TLA+ specifications of that program, their TLC
configurations, and TLAPS proofs. Paths below are relative to `src/src/icr/`.

## The system

| part | state | operations | talks to |
| --- | --- | --- | --- |
| ledger and work queue (`db/repo.py`, `db/migrations/`) | tables accounts, codes, redemptions, mailboxes, kv | one SQLite transaction (`BEGIN IMMEDIATE`) per operation | everything |
| redeemer (`redeemer.py`) | work list, current batch and account, all local | one run: list the work, submit each pair, record each outcome | ledger, game session |
| service (`service.py`) | one `asyncio.Lock`, the scheduled job | cycle = poll, look at the queue, redeem | redeemer, sources, web pages |
| web application (`web/app.py`) | none of its own | /redeem, /poll, /codes, /accounts, /chests | service, ledger |
| command line (`cli.py`) | none; a process of its own, without the lock | redeem, poll, account, code, source and mailbox commands | ledger, redeemer, sources |
| game session (`game/session.py`) | play server (cached in kv), instance id (account row) | a call with up to three tries | game api |
| game api (`game/api.py`) | time of the last request | paced requests, classification of answers | game server |
| chests (`chests.py`) | a batch list | open, buy, blacksmith | game session |
| source framework (`sources/base.py`) | none | poll every source, store what it found | sources, ledger |
| discord, public lists, email (`sources/`) | cursors in kv (message id, ETag, UID per folder) | read cursor, fetch, save cursor | ledger, Discord, web, IMAP |
| imap scan (`mail/imap.py`) | UID positions per folder | read each folder past its position | IMAP server |
| oauth (`mail/oauth.py`) | refresh token in the mailbox row | device-code wait, token exchange | Microsoft |
| migrations (`db/__init__.py`) | schema_migrations | apply what is missing | SQLite |

What is hard here: handlers interleave at every `await`; commands are other
processes that share only the database; the process may die between any two
steps; a request can fail after the server acted on it; snapshots (work list,
account object, cursor, ETag, token) are used long after they were read; and the
sources save how far they have read before what they read is stored.
`PROJECT.json` lists these hazards line by line.

What makes each part correct:

* *ledger, redeemer, service*: one submission at a time; only pairs the ledger
  still allows; each attempt counted once; no more attempts than allowed; a
  closed pair stays closed; every outstanding pair eventually leaves the queue.
* *sources*: every posted code is eventually stored; a cursor never passes mail
  or messages whose codes are not stored; one source's failure stays its own.
* *imap scan*: every matching message is delivered at least once and, once
  positioned, only once; a backlog beyond the cap is caught up with.
* *game session*: a call survives a server switch followed by a stale instance
  id, and nothing else is repeated.
* *chests*: never more spent than asked for.
* *migrations*: the schema is never between two levels, nobody works on one too
  old for it, and who loses a race for a migration finds its way.
* *oauth and mailboxes*: the stored refresh token is one that still works, a
  mailbox has its own token and position, the wait for approval ends.

## Modules

| module | what it is |
| --- | --- |
| `Repo` | the tables accounts, codes and redemptions, and the statements of `db/repo.py` on them as actions |
| `RedemptionQueue` | abstract specification: what the ledger promises whoever works on it |
| `Redeemer` | composition: `Repo` with the runners of redeem runs, the service's lock, the game server's answers, crashes and the operator |
| `MCRedeemer` | model values and symmetry for TLC |
| `RedeemerProofs` | theorems about `Redeemer` |
| `Sources` | polls of the code sources: positions and the codes on their way to `Repo`, service and command side by side |
| `MCSources`, `SourcesProofs` | an instance for TLC; theorems about `Sources` |
| `ImapScan` | one scan of a mailbox folder by folder, against a mailbox that changes meanwhile |
| `MCImapScan`, `ImapScanProofs` | an instance for TLC; theorems about `ImapScan` |
| `GameSession` | authenticated calls to the game server with their recoveries, and the batches of `chests.py` |
| `Errand` | abstract specification: what the callers of a game session rely on |
| `MCGameSession`, `GameSessionProofs` | an instance for TLC; theorems about `GameSession` |
| `Migrations` | opening the database: several processes, possibly of different releases, migrate one schema |
| `SchemaUpgrade` | abstract specification: what `migrate` promises, whoever runs it |
| `MCMigrations`, `MigrationsProofs` | an instance for TLC; theorems about `Migrations` |
| `Mailboxes` | mailboxes with their refresh tokens and positions: polls, tests, the device code flow, and the commands that change rows |
| `MCMailboxes`, `MailboxesProofs` | an instance for TLC; theorems about `Mailboxes` |

### Repo

`accounts`, `codes` and `redemptions` are functions from account ids, codes and
pairs to rows, with `NoAccount`, `Absent` and `NoRow` where the table has none.
Each operation is one transaction, hence one action, whichever process runs it.
An account id is SQLite's row id: a new account gets the largest id in use plus
one, so the id of a removed last account comes back (`IsNewRowId`). Removing an
account cascades as the foreign keys say. `OutstandingWork` is the query of
`outstanding_work`: enabled accounts with good credentials, codes in their
scope, no row or a retryable one below the ceiling.

Abstractions: a code is identified with its row (codes are only removed with
their account, so the reuse of a *code* id is not modelled); the five terminal
statuses are two, `success` and `refused`, as no part of the program tells the
others apart except in wording; the order of the work list is left open.

### Redeemer

A runner is something that performs redeem runs: the scheduled cycle, a web
handler, a command. Its local variables are those of `Redeemer.run` and
`_run_account`, and `pc` says before which `await` it is:

| pc | where in the code |
| --- | --- |
| idle | nothing to do; the cycle waits for its next tick |
| polling | inside `poll_sources` (or a chest action), holding the lock |
| checking | `_redeem_if_work`, before its look at the queue |
| waiting | before `async with self.lock` in `ServiceState.redeem` |
| listed | in `Redeemer.run`, between accounts |
| batch | in `_run_account`, between items |
| sent | in the `await` of `_attempt` |
| answered | the `await` returned, nothing recorded yet |

Code between two awaits runs without interruption by the other handlers of the
service, but other processes can get in between two transactions; the steps are
therefore cut at transactions, and every lock acquisition is a step of its own
with the statement that follows it (`StartRun` reads the list under the lock it
just got, and no other runner of the service can act in between; a command or the
operator may act just before, which gives the same list).

`Answer` is the game server: it grants a code to a set of credentials once
(`settled`), rejects credentials that are not good, and may fail a request it
acted on. `doubtful` is a history of what is settled and the ledger may not know:
the request failed, its outcome was lost with a crash or a failed foreign key, or
an operation took the account, its credentials or its row away. The recovery loop of `GameSession` is inside that one await.
`Crash` empties the local variables of a process and frees the lock with it.
`Operate` is every operation of the web pages and of the other commands on the
database, the sources' `add_code` included, at any time and without the lock.
Only the cycle acts unasked: web requests, runs of commands and operations all
count as demands against one bound, `MaxAdmin`.

### Sources

A feed is whatever is read with one saved position: the channel
(`discord_follow.py`), a mailbox (`email_inbox.py`), a page (`web.py`). Its
items are numbered in the order they appear; `Content` says which codes each
one announces. `position` is the cursor in table kv, 0 for none: newest message,
highest UID, or the version of the page whose ETag was saved.

| pc | where in the code |
| --- | --- |
| idle | no poll |
| reading | in `fetch` of a source, between two feeds |
| asked | the cursor is looked up, the request is out |
| answered | the answer is parsed, the cursor not saved yet (`from` is the one looked up) |
| storing | `poll_source` has its list and puts the codes on file one by one |

`Answer` depends on the kind of feed: without a cursor a channel shows its
newest `Limit` messages, with one the oldest after it; a mailbox the oldest in
any case; a page everything, or a 304. `found` are the codes in memory. A request
may always fail; to the feeds in `down`, any of those in `Unreliable`, no answer
ever comes, so they fail at every poll.
`StoreRaises` is `add_code` on an account that is gone: it is outside the `try`
of `poll_source`, so it ends the poll of every source. `Crash`, `Remove`
(`icr account remove`), `Reset` (`icr source reset`) and polls by commands come
at any time, up to `MaxUpsets` of them together.
`passedOver` and `dropped` are histories: messages older than a read without
cursor could show, and codes that went with a dead poll or a removed account.

Abstractions: all folders of a mailbox count as one position (`ImapScan` has
them one by one); a page is one version, read whole; a page without any code
counts as a failed read, which only its log message tells apart; mailboxes go
only with their account; the first-scan date window is off, as by default.

### ImapScan

The state has two sides. The mailbox: `uid`, `uidnext` and `uidvalidity` of its
folders and messages; mail arrives, is expunged, and a folder is recreated, which
renumbers it. The reader: `todo`, its own map `cursors` and the messages `read`
are the locals of `scan_mailbox`; `cursor` is what `_poll_one` saves in kv. Each
folder takes three requests, and anything can happen between two of them:

| pc | where in the code |
| --- | --- |
| idle | no scan |
| between | in the loop over folders |
| status | after `_folder_status`, with what it said |
| listed | the search has answered, the fetch is out |

`Wanted` is the search `_criteria` builds for the window of `_window_for`:
everything, or UIDs past the position (which always includes the newest
message), or the rescan window once a position is void. The search may be cut
off at `Limit`. `Claims` and `Advanced` are `_advance`. UIDVALIDITY 0 stands
for a server that does not say; a STATUS without UIDNEXT counts as 1.
`Fault` bounds refused requests and broken connections, except that STATUS is
always refused for the folders in `silent`, whichever these are. A folder that is selected
is not recreated. `mishaps` is a history of what befell a folder.

### GameSession

Clients are the service, which by its lock does one thing at a time, and
commands. `server` is the session's `_server` and the local variable of `call`
(they are equal whenever a request is sent), `id` the instance id of the account
object in use; `play_server` and `instance_id` are their copies in the
database. A job is one of three kinds: "open" sends the instance id (opening,
contracts, redeeming a code), "buy" does not, and "details" is
`fetch_inventory`.

| pc | where in the code |
| --- | --- |
| idle, done, failed, gaveUp | no job; how the last one ended |
| start | before `server()` |
| resolving | in `get_play_server` |
| sent | the request of `operation` is out |
| redirected, outdated, executed | its answer is on the way, by kind |
| refreshing | in `refresh_instance_id`, `getuserdetails` is out |
| detailsRedirected, detailed | its answer is on the way |

The answer is a step of its own, so that an operation can be executed and the
answer lost (`Fail` from "executed"). The account may `Move` to another server or
get a new instance id (`Renew`: somebody plays the game) at any time. `surprises` is a
history: how many facts were out of date when the call began or changed during
it. Rejected credentials are one of the failures. Left out: the gap between
requests, and getuserdetails itself answering with a stale instance id or other
failures than those of any request. In `Redeemer` a whole call is one await.

`Errand` is a session as its callers see it, without servers, ids and tries: asked
for so many things, a client makes them batch by batch and learns of each batch
before it tries the next; an errand that failed leaves at most the last batch in
doubt, one that gave up leaves none. `ImplementsErrand` maps every end in `AtRest`
to itself and everything between to "busy". The await of `Redeemer` is such an
errand for one thing: `Answer` may settle the code and still reply "error".

### Migrations

`schema` is the set of SQL statements whose effect is in the database file, each
named by its migration and its place in the script; the last one of a script is
the insert that records its version. A process has `done`, the set
`applied_versions` returned before the loop, and the position of its loop and of
its script (`next`, `step`). `draft` is its open transaction and `lock` SQLite's
write lock: a script starts with a plain `BEGIN`, so it gets the lock with its
first statement only, after having looked the versions up outside any
transaction. `Commit` publishes the draft at once.

| pc | where in the code |
| --- | --- |
| closed | no connection |
| migrating | in `migrate`, between two scripts (`step` = 0) or inside one |
| working | `open_db` has returned; transactions of `transaction()` |

A statement whose effect is there already fails ("table already exists",
"duplicate column name"), so the loser of a race ends (`Refused`); the service is
started again by its supervisor (`restart: unless-stopped` in
`docker-compose.yml`), and `Open` then reads what the winner recorded. `Fault` is a
crash, a statement that fails, or a wait for the lock that outlasts
`busy_timeout`. Scripts have at least one statement. The backup is left out.

`SchemaUpgrade` is what all this is for: the recorded versions are the first so
many, one more at a time and never one less, and a process enters when those of
its release are there. `ImplementsUpgrade` maps `Commit` to `Apply`, `Finish` to
`Enter`, every close to `Quit` and the rest to stutters.

### Mailboxes

`mailboxes` is the table, a function from row ids to rows; `cursor` is the saved
position under `email:mailbox:<id>`, represented by whose mail it counts. A client
reads all the rows it needs once, secrets included (`todo`, `box`), and writes by
row id after the awaits (`StoreToken`, `Scan`), whatever has become of the row.

| pc | where in the code |
| --- | --- |
| idle | nothing to do |
| polling | in `EmailSource.poll`, between two mailboxes |
| resolving | in `resolve_credentials`, the token exchange is out |
| received | a new token arrived (also of `authorize`), not stored yet |
| scanning | `scan_mailbox` is under way; `ImapScan` has what it does |
| signing, asking | `poll_device_code`: before its sleep, and while it asks |

A refresh token is a number, in the order Microsoft issues them. A trade may issue
a successor; the old token is accepted for a while (`Invalidate` ends that), and
`LoseAnswer` is a trade whose answer never arrives. `waited` and `pace` are the
variables `waited` and `interval` of the wait for approval, in seconds.
`traded`, `lost`, `used` and `reused` are histories, and `origin` says for which
row and account a token was issued. `Remove` is also the removal of the account,
which cascades.

Abstractions: the order in which a poll reads mailboxes is left open; whoever
approves a device code signs in to the account the mailbox is named for;
`last_polled_at`, `last_error` and timestamps are only displayed and left out; a
password is always the right one, and a scan that fails is `Fail`.

## Runs

| run | instance | question |
| --- | --- | --- |
| `redeem_safety` | 2 accounts, 2 codes, 2 credentials (one good), 1 attempt, cycle and one web handler, 1 crash, 2 requests or operator actions | are runs serialised, do work lists stay open, does the ledger implement `RedemptionQueue`, does every step of a run bring it closer to its end, is a settled code submitted again without one of the reasons in `doubtful`? |
| `redeem_liveness` | 2 accounts, 1 code, 2 attempts, cycle, one web handler and one command, 1 crash, 1 request, command or operator action | does every outstanding pair leave the queue? is the retry ceiling kept, with one attempt more per command beside the service? |
| `sources` | channel, mailbox and page, up to 3 items each, limit 1, channel, mailbox or both possibly down for good, service and command, 1 upset | does a position ever cover codes that are not on file or on their way? are scopes only widened? is every item of a feed that is not down collected, whatever is down? does every step of a poll bring it closer to its end? |
| `imap_scan` | 1 folder, with STATUS or without, 3 messages (2 matching), limit 1, 1 fault, 1 recreation | are messages stranded, read twice, or never read? |
| `game_session` | 1 account, 2 servers, 3 tries, batches of 2, jobs of up to 3, 2 new instance ids | is anything spent twice, does a call give up too early, do jobs end, after a number of requests known at their start, do callers see an `Errand`? |
| `migrations` | service, a command of its release and one of the release before, scripts of 6 and 4 statements, 2 faults | is the schema ever between two levels? does anybody work on one too old? is it one upgrade after the other (`SchemaUpgrade`)? does the service get to work? |
| `mailboxes` | a Microsoft and a password mailbox, 2 row ids, service and command, 2 new tokens, 2 commands, 1 crash or lost answer, deadline 10 s, interval 5 s | is a rotated token dropped, does anything go to the wrong mailbox, does the wait for approval end, does every mailbox keep its turn? |
| `crash_resubmits` | 1 account, 1 code, 1 crash | violated: a code is submitted twice |
| `command_overlaps` | 1 account, 1 code, cycle and one command | violated: a terminal row is overwritten |
| `stale_credentials` | 1 account, 2 credentials, 1 operator action | violated: good credentials are flagged |
| `lost_codes` | as `sources`, service alone | violated: a mailbox position covers codes lost in a crash |
| `lost_reset` | as `sources`, service alone | violated: a poll under way undoes a reset |

Bounds. In `Redeemer` `MaxCrashes` and `MaxAdmin` count crashes and demands over a
whole behaviour; one or two of each, at every possible point, meet every step of a
run once. Two accounts give two batches, so what one account does to the next
one is seen; two runners of the service are enough for every conflict over the
lock; two attempts are needed for a retry to be counted. With one attempt, as in
`redeem_safety`, a code whose request failed comes back when its account was
removed and added again, and one whose answer died with the process by itself. Initial states range
over every scope of the codes and over missing accounts. In `Sources` a limit of
1 with two items or three gives a backlog; service and command give overlapping
polls of one feed; the feeds that may be down come before others in the
registry, alone and together, and two mailboxes of one source are in `Mailboxes`
(`AllTried`); `MaxUpsets` is one crash, command, removal or reset at any point. In `ImapScan` the same limit gives capped reads, and the third message,
which does not match, moves UIDNEXT past the matching ones; `MaxFaults` and
`MaxRenumberings` are one each; one folder is enough as folders share only the
map that is saved, and the theorem holds for any number. In `GameSession` a job
of 3 is a full and a partial batch; `MaxRenewals` gives more new ids than the one
a call survives twice, and moves are not bounded. One client is enough there
because a client reads what others write only when it starts, and the initial
states and `Begin` cover every stale combination; the theorems hold for any
number of them. In `Migrations` the scripts have the statements of the two
`.sql` files, three processes give a race won by either release, and two faults
let both the service and whoever it lost to fail; initial schemas are all levels.
In `Mailboxes` two commands reach a row that is removed and added again under its
id while a poll holds the old row, or two authorizations beside a poll; two new
tokens are a trade under one that is already superseded; and the deadline of two
intervals, with a slow-down of one, is overshot or met exactly, by the number of
slow-downs. The theorems cover all values.
Symmetry is used for codes and for credentials of equal standing, never for
account ids (SQLite orders them) and never in a liveness run. Deadlock is checked
in every run; nothing here ever ends.

Fairness. `Redeemer`: the scheduler has one interval job with `max_instances=1`
that fires for as long as the process lives, so the cycle starts again and
again; requests end by timeout, so every started run takes its steps;
`asyncio.Lock` wakes its waiters first come, first served, so a waiter for whom
the lock is free again and again gets it (strong fairness of `StartRun` and of
the cycle's `StartPoll`). `Sources`: the service polls again and again, a poll
takes its steps, and a server that is not down answers some day if it is asked over
and over (strong fairness of `Answer`). Of one that is down nothing is assumed:
its feed fails at every poll, and `Collected` says that all others are collected
nevertheless. Commands need not come. `ImapScan`: a scan takes
its steps, and faults are bounded, as a mailbox that never answers is never
read. `GameSession`: only that requests end; the server may redirect for ever.
`Migrations`: whoever is in `migrate` or in a transaction takes its steps, the
service is started again whenever it ends, and as transactions are short and the
wait for the lock is 30 s, the service gets it between those of others (strong
fairness of its statements); it is not stopped for good. `Mailboxes`: the service
polls again and again, sleeps and requests end; nobody needs to approve anything.
Nothing is assumed of operators, web requests that have not arrived, or which
answer a server gives.

What the violations say. All five are disagreements between what a document or
comment promises and what the code does; PROJECT.json quotes each. In short: the
ledger protects a code once its outcome is on file, not across a crash in
between (the game server then answers "already redeemed", so the price is a
wrong entry in the ledger); the lock protects runs of the service from each
other, not from `icr redeem`; a rejection is stored by account id after the
await, so it can hit credentials that were replaced meanwhile; positions are
saved before the codes they cover, so a crash in between loses codes until the
source is reset; and a reset does not reach a poll that has looked its position
up.

`NothingSkipped`, `NothingStranded` and `Collected` leave room for exactly these
losses and name them (`dropped`, `passedOver`, `Excused`): they say that nothing
*else* is lost.

## Proofs

Every theorem says of a specification, for every value of the constants that
satisfies the named assumptions of its module, that all its behaviours have a
property; some are about the behaviours in which something else never happens, and
say so in their hypothesis, `Spec /\ []Condition => ...`. A promise of the
documents that a run refutes is proved in this form where that is possible: the
theorem says that what the run shows is the only way to break it.

| refuted by | theorem | holds as long as |
| --- | --- | --- |
| `command_overlaps` | `TerminalKept` | no `icr redeem` runs while another run is under way (`CommandsAlone`) |
| `crash_resubmits` | `NeverTwice` | `CommandsAlone`, and no request fails, no outcome is lost, nothing is taken away from the ledger (`doubtful = {}`) |
| `stale_credentials` | `FlaggedJustly` | no account gets other credentials while its batch is worked through (`CredentialsKept`) |
| `lost_codes` | `ExtractedUnlessDropped` | no poll ends with codes in hand, no account is removed with codes of its own (`dropped = {}`) |
| `lost_reset` | `ResetsHold` | polls do not overlap, and resets come between them (`PollsAlone`, `ResetsBetweenPolls`) |
| (no run, see the end) | `CappedReadsClaimTheirs` | no message goes between search and fetch (`"short"` is no mishap) |

The conditions are about what happens, not about the constants: crashes, web
requests, operators and other processes are all there, and `CommandsAlone` is met
by installations that use `icr redeem` while the service is idle.

`RedeemerProofs` (`RepoAssumption`, `RedeemerAssumption`): in general, commands
included, `TypeCorrect`, `Serialised`, `RetryCeiling` and `RunsGetDone`; under
`CommandsAlone` `WorkListStaysOpen`, `TerminalKept`, `NoNeedlessResubmission`,
`NeverTwice` and `LedgerIsQueue`, the last being `Queue!QSpec`; and `FlaggedJustly`
under `CredentialsKept`.

The argument. `TypeOK` is not inductive by itself; `Shape` says for each program
point which local variables are set (`TypeStep`). `LockHeld` says that the lock's
holder is exactly the runner of the service that is inside a poll or a run (`LockStep`),
and two submissions at once would be two holders. With `CommandsAlone` the same
holds of all runners: a record step can close a pair only in a run, and then no
other runner has a work list; an operator can only forget rows, which opens pairs
(`AdministerRows`); an open row has attempts below the ceiling, so a recorded one
is at most at it (`OpenRowFacts`). `RetryCeiling` counts differently, to
allow for commands: attempts on file and submissions under way that may still be
added to a pair together stay within the bound (`AttemptsInStore`). For the
refinement `QueueStep` maps each action: `Submit` to `Begin`, `Record` to
`Finish`, rejections, failed foreign keys and crashes to `Abandon` or a stutter,
removals to `Forget`, everything else to a stutter; `Alone` provides that
`Begin` finds nothing in flight.

`NoNeedlessResubmission` needs `CouponInv`, as the ledger is kept by account and
the game server by credentials: what is settled is on file for the account that
has these credentials, or about to be put there, or doubtful (`SettledKnown`); a
batch whose account got other credentials meanwhile makes everything settled under
the old ones doubtful (`StaleDoubtful`); and no two accounts have the same
(`UniqueCreds`). A submission then finds its coupon settled only if doubtful,
because an open row is not on file and nobody else is about to record.
`FlaggedJustly` needs that a rejection under way was of bad credentials, and
that these are still the account's. `RunsGetDone` has no invariant but `Shape`.

`SourcesProofs` (`SourcesAssumption`, `RepoAssumption`): `TypeCorrect`,
`NoItemSkipped`, `ScopesOnlyWiden`, `ExtractedUnlessDropped`, `ResetsHold` and `PollsGetDone`.
`NothingSkipped` is not inductive: it says
nothing of a position that is about to be saved. The invariant adds
`InFlightCovered` (what an answered poll's position covers is accounted for
already) and `PositionsInRange`; then a save only moves a claim from the poll to
the table, and every way to lose a code is one that writes it in `dropped`.

`ImapScanProofs` (`ImapAssumption`): `TypeCorrect`, `NoMailStranded`,
`NoMailTwice` (`FetchedOnce`) and `CappedReadsClaimTheirs`, for which
`FirstNumbering` adds that where a folder still has its first UIDVALIDITY it was
never recreated. Besides
types the invariant says that UIDs are distinct, ascend with UIDNEXT and that
positions stay below it (`UidsAscend`, `PositionsInRange`), that a scan's
own positions pass only what it or an earlier one has read (`ScanCovered`), and
that what a search listed is complete up to its largest UID, or complete
altogether if fewer than `Limit` (`ListingComplete`). For `NoMailTwice`,
`ReadPassed` adds that with a single reader every message returned or read so far
in a clean folder (`Clean`: neither recreated nor refused) is gone for good or
behind the position, so that what a fetch keeps, which is past it, is new
(`FetchPasses`).

`GameSessionProofs` (`GameAssumption`): `TypeCorrect`, `NothingSpentTwice`
(`SpentAsAsked`), `SurvivesSurprises` (`GivesUpForGoodReason`) and
`CallsAreErrands` (`Caller!ESpec`, from `Tally` by `OwnErrand`) and `JobsAdvance`. `Tally` relates
spent and known amounts at each program point. `Reason` is a
potential: tries so far, plus what is out of date now, never exceed what the call
could not know, for the tries of a call and for those of a refresh.

`MigrationsProofs` (`MigrationsAssumption`): `TypeCorrect`, `AlwaysAtOneLevel`,
`AlwaysServed` and `MigratesInOrder` (`Upgrade!USpec`), for any number of
processes, releases, migrations and statements.
`PassedRecorded` says that what a loop has passed is recorded, and `ScriptState`
that a draft is exactly the statements of one migration executed so far, that
whoever has one holds the lock, and that the migration was not in the schema when
its first statement got through. The
step that carries the proof is `Commit` (`CommitLevel`): the migrations before
the one committed are recorded because they were passed, and it is not itself, as
the draft says, so the level is exactly one below, whatever was read before the
lock was taken.

`MailboxesProofs` (`MailboxesAssumption`): `TypeCorrect`, `AlwaysTokenSurvives`,
`AlwaysOwnState` and `AlwaysWaitBounded`, for any clients, mailboxes, tokens and
times. `Records` are the rows on file and the copies clients made of them; two
clients can hold one token there. `Genuine` says that a recorded token was issued
for the id it is recorded under, `Fresh` that a token received and not stored yet
is one client's alone, on no record and without successor, `Kept` strengthens
`TokenSurvives` (the token on file has no successor, so it cannot become
invalid, unless its successor is in hands or lost), and `Owned` says what ids
belong to whom: nothing is recorded under an id never given out, and everything
under an id given out once is one mailbox's, even after that is removed.

Only model-checked: liveness (`Drained`, `Collected`, `EventuallyDelivered`,
`JobsEnd`, `BackAtWork`, `AuthorizeEnds`, `AllTried`) and anything about `ENABLED`,
which are out of the prover's reach. What can be proved of it is the half that
needs no fairness: `RunsGetDone`, `PollsGetDone` and `JobsAdvance` say that every
step of a run, a poll or a job lowers a variant (a set that only shrinks, then
the distance to its next loss; for jobs a tuple of numbers), so it takes a bounded
number of steps, of which every one is a request that ends by timeout or a
transaction. That the variant is well-founded, and hence that it ends, is the
argument left to the reader. Every invariant, action property and refinement of
the passing runs is a theorem.

## Not modelled

For good: configuration, logging and redaction, HTML, the support URL, the code
pattern, page parsing, backup (one call to SQLite): there is nothing in them
that steps of several actors could get wrong. The gap between requests
(`api.py` 73-90) is not modelled, as nothing else depends on the time between
two requests; see the end of the list below for what it does not do.

The seams. One await of `Redeemer` is a whole call of `GameSession`, one answer of
`Sources` a whole scan of `ImapScan`, one `Scan` of `Mailboxes` too. They are the
same code lines (the `await` in `_attempt`, `scan_mailbox` in `_poll_one`). For the
first, `Errand` states what is relied on, and `GameSession` is shown to implement
it; that a scan implements the coarse step is not checked. Nor is a game
server that is down for good and no longer redirects.

Visible in the models without a run that shows it:

* `_advance` (`imap.py` 343) says "A capped read only claims what it actually
  read, so the remainder is picked up rather than skipped." Whether a read was
  capped is judged by what the fetch returned, so a message that goes between
  search and fetch hides a backlog (`RemainderPickedUp`; mishap "short").
* `docs/email-source.md` 199 says that a folder beyond the limit "continues from
  there on the next poll", and `_window_for` that to distrust a position "costs a
  re-read rather than a miss" (`imap.py` 156). A folder whose STATUS is refused gets
  no position, so it is read from the start for ever and all but its oldest mail
  is missed (`InReach` in `EventuallyDelivered`).
* `docs/email-source.md` 197 says "The first poll of a new mailbox reads
  **everything**", but `remove_mailbox` leaves the position behind, and a mailbox
  added under the same row id starts from it (the exception of `OwnState`).
* A token that is on its way when its mailbox is removed and another one gets the
  row id is written to the other one (the same exception).
* `icr mailbox test` announces itself as "changing nothing" (`cli.py` 581) and
  stores the token it traded, as it must.
* `poll_device_code` "Blocks for up to `prompt.expires_in` seconds" (`oauth.py`
  121): by less than one interval more (`WaitBounded`), the requests not counted.
* `sources/web.py` 8-11 says "Every code is returned on every poll rather than only
  the ones that look new", so that a database restored from a backup heals. With a
  saved ETag the next poll is answered 304 and returns nothing, so codes that were
  lost after the ETag was saved stay lost until the page changes (`New` for pages;
  `dropped` in `NothingSkipped`).

And one that is not in the models: the gap between requests is "deliberately
process-wide" (`game/api.py` 68-70) and "applied globally" (`docker-compose.yml`
41). Every run builds an `IdleChampionsApi` of its own, whose last request time
starts at zero (`service.py` 58-64), as commands do in their processes, so the gap
holds within a run and not from one run to the next.

Next would be the refinement of the coarse scan by `ImapScan`, with the folders of
a mailbox folded into one position.
