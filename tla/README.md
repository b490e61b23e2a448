# TLA+ models of ronzz-nextcloud

The repository holds the programs around a small Nextcloud and mail
installation. The largest is **mailwatch** (`mailwatch/`), a Python daemon that
watches IMAP mailboxes, moves suspected spam to Junk, learns from what the user
does with it, blocks repeat offenders with Sieve, and redirects mail between
accounts. Beside it stand a Nextcloud app that copies password changes to the
mail host, two OIDC side-cars, a dashboard launcher, and patches of third-party
programs.

This directory contains specifications of the parts whose correctness depends
on the order of events, TLC configurations that check them on small instances,
and TLAPS proofs for every value of the constants. `PROJECT.json` lists the
components, the runs with their properties, the mutants each property is tested
against, the source lines of every definition, the hazards of the code, the
disagreements between code and documentation the runs show, and the theorems.

## 1. Inventory

| Part | State it keeps | Operations | What makes it hard | Correct when |
|---|---|---|---|---|
| Pipeline (`pipeline.py`) | `daemon_moves`, `block_candidates` rows; the mailbox itself | scan UNSEEN of INBOX, classify, record, move to Junk, push a Sieve block | several remote calls per message, each may fail; mail clients act between them | no mail lost; every own move is recorded before it happens |
| Training idler (`training.py`) | `folder_state.known_uids`, `spam_feedback`, token file | reconcile Junk and INBOX with the last snapshot, train spam and ham | two listings taken at different times, snapshot saved at the end | never learns from the daemon's own moves, misses nothing, learns each signal once |
| Token store (`spam_detect.py`) | `user_tokens.json`, one for all accounts | load, count, replace | threads of several accounts, a process beside the daemon, crashes | the file is whole and holds every report |
| Redirector (`redirector.py`) | the source folder, the target mailbox | list, fetch, append, delete or archive | lost replies, half-failed removals, two callers | a message leaves the source only once the target has it |
| Auto-block (`sieve_block.py`, `pipeline.py`) | `block_candidates` | register a hit, decide, record a block, generate and put the script | record and push are not atomic; script regenerated concurrently | what is recorded as blocked is in the active script |
| Daemon (`watcher.py`) | stop event, exit code, account locks | start and stop of threads, IDLE callbacks, catch-up, training and feed loops | callbacks and loops compete for the account; stop and exit code race | one scan per account at a time; an authentication failure ends with code 3 |
| IDLE manager (`email/imap/idle.py`) | connection, reconnect counter | IDLE, reconnect, callback | a thread that gives up is gone | a folder is watched as long as the daemon runs |
| Backoff (`backoff.py`) | failures and next attempt per account | success, failure, may I try | check and attempt are apart | attempts of a failing account are spaced |
| Database layer (`db.py`) | SQLite file, write lock, connection per thread | execute, transaction | write lock beside SQLite's own | a failed transaction leaves no lock |
| Supervision (`systemd/`) | unit state, `DOWN_SINCE`, `ALERTED` | restart with delays, `mailwatch-alert`, `mailwatch-watchdog` | two scripts look at a unit that changes under them | an outage is reported, once |
| Password sync (`webmail/nc-migadu-password-sync`) | mailbox captured per request, mailboxes at Migadu | four user events; GET, POST, PUT, DELETE with retry | requests in parallel, answers that are lost, calls that arrive after curl gave up on them | a success that nothing overlapped leaves the mailbox in step with the user |
| OIDC side-cars (`hesk/threads-oidc`, `webmail/webmail-admin-oidc`) | signed state and session cookies | login, callback, auth, logout | two tabs, expiry | a session exists only after a login that was begun |
| Classification (`pipeline.py`, scoring of `spam_detect.py`) | none: it reads the token file and two tables | ask the three detectors in turn | each reads at a moment of its own, while training, feeds and users write | evidence that stands the whole time is never missed, and there is no verdict without any |
| Phishing filter (`phishing.py`) | `phishing_feeds`, `phishing_domains` | refresh of three feeds, report, analyze | a feed or a row may fail in the middle of a round | a round stores what the feeds offer, row by row |
| Similarity filter (`spam_similarity.py`) | `spam_signatures`, `spam_content_hashes` | add, remove, compare, find repetitions | two commits per report, counters that outlive their signatures | a text counts as repeated only if the account reported it |
| Parser, config, keyring, audit log, launcher, patches | none, or append-only | | | not modelled, see section 7 |

How they interact: the IDLE threads call back into the daemon on `EXISTS`; the
callback takes the account's lock and runs a pipeline, training or redirect
scan, as do the catch-up and training loops. Scans talk to the IMAP server and
to the SQLite file, and share the token file across accounts. `mailwatch run
--once` is a second process that does the same without the daemon's locks. A
classification asks the Bayesian, the phishing and the similarity filter one
after the other; the feed loop refreshes the phishing table on its own. The
unit file restarts the daemon after an authentication failure (exit code 3);
the scripts in `systemd/` watch the unit. The password sync runs inside
Nextcloud and talks to the mail host only; the daemon meets it at the mailboxes.

## 2. Modules

| Module | Models | State and actions |
|---|---|---|
| `SpamLoop` | `pipeline.py`, `training.py`, the IMAP calls they make | section 2.1 |
| `Relay` | the promise of `redirector.py`'s docstring: at-least-once delivery | abstract |
| `Redirector` | `redirector.py` | section 2.2; implements `Relay` |
| `WordCounts` | what `user_tokens.json` holds of an account, and what a report adds | no state |
| `TokenStore` | `SpamTrainer.report`, `_load_user_tokens`, `_save_user_tokens` | section 2.3; with one lock implements `AtomicReports` |
| `AtomicReports` | the promise of `_save_user_tokens`: a report is counted at once and once, or given up | abstract |
| `Supervision` | `systemd/` | section 2.4 |
| `Daemon` | `watcher.py`, `email/imap/idle.py`, `backoff.py` | section 2.5 |
| `AutoBlock` | `sieve_block.py`, the transaction of `db.py`, `_maybe_register_offender` | section 2.6 |
| `Mail` | a parsed message, as far as the detectors tell messages apart | no state |
| `PhishingFilter` | `phishing.py`, the feed loop of `watcher.py` | section 2.7 |
| `SimilarityFilter` | `spam_similarity.py` | section 2.7 |
| `Classification` | `_classify` of `pipeline.py`, scoring of `spam_detect.py`; composes `TokenStore`, `PhishingFilter`, `SimilarityFilter` | section 2.7 |
| `MigaduSync` | `webmail/nc-migadu-password-sync` | section 2.8 |
| `MC...` | instances for TLC | constants of the `.cfg` files |
| `...Proofs` | theorems and proofs | section 5 |

Definitions whose comment begins "Mutant of" are variants of the definition
that follows them, with a plausible bug. No specification uses them; each
property is checked to fail when its mutant takes the original's place.

### 2.1 SpamLoop

A folder is the sequence of its arrivals; the position is the UID (ascending,
never reused, as IMAP demands), and `inboxIn`, `junkIn` are the UIDs still
there; `flagged`, `junkFlagged` are the `\Deleted` ones, since MOVE and COPY take
the flag along. `daemonMoves`, `knownUids`, `feedback` are the three tables. Each scan
has a control point `pc` and the locals that live across calls. One action per
IMAP or SQLite call:

* pipeline: `StartInboxScan` (SEARCH UNSEEN), `FetchUnseen`, `Leave` (not spam,
  failed or dry), `RecordMove` (the `daemon_moves` INSERT), `UidMove`, or
  `MoveRefused`, `CopyFallback`, `StoreDeleted` (whose reply nobody looks at),
  `Expunge` (of every `\Deleted` message of INBOX, whoever flagged it),
  `ExpungeFails` (the flags stay);
- training: `ListJunk`, `ListInbox` (with the choice of what is new and what
  was rescued), `SkipDaemonMove`, `SkipUnfetched`, `TrainSpam` then `LogSpam`,
  `SpamDone`, `SkipHam`, `TrainHam` then `LogHam`, `SaveState`;
- `Abort`: an exception leaves the scan, or the process dies;
- the server and the user: delivery to INBOX, gateway delivery to Junk, marking
  as spam, rescuing, reading, deleting, and flagging `\Deleted` without EXPUNGE.

The verdict is a choice (`Leave` or `RecordMove`), because the properties hold
whatever the classifier says; `Classification` says what it says.
`trainer.report` counts in the history variables `spamTrain`, `hamTrain`, which
saturate at two.

### 2.2 Redirector and Relay

Sets of messages stand for the source folder, its `\Deleted` flags and the
archive; `dest` counts copies at the target. Workers are the daemon's two
callers (IDLE callback, catch-up loop), which take the account's lock, and other
processes (`run --once`), which do not. The workers in `Archivers` archive what
they removed; `runs` counts the scans of other processes. Actions are the IMAP
commands of `redirect_account` and `_remove_source`; each has its failure,
including an APPEND whose reply is lost and an EXPUNGE that removes what
somebody else flagged. The instance `RelaySpec` maps `offered` to `source` and
`delivered` to `dest`.

### 2.3 TokenStore

The file system is two names and a set of inodes: a writer that opened the
`.tmp` goes on writing to the inode after somebody renamed it. `Begin` takes
the account's lock as the callers in `watcher.py` do; `Load`, `OpenTmp`
(truncates), `Write`, `Rename` are the steps of `report`; `WriteFails` and
`Crash` may come in between. Contents are the word counts of each account, as
spam and as ham (`WordCounts`), or `Torn` for what `json.load` rejects; a report
brings a `lesson`, a message's words and what the user says of them, and `done`
is what the lessons taught whose file was renamed. A write to an inode that
another wrote since it was opened may leave a tail of the longer text. The
instance `Shared` of `AtomicReports` maps `counted` to `Loaded`, what a reader of
the file finds at that moment, and `reporting` to the workers that are not idle.

### 2.4 Supervision

Time is counted in periods of the watchdog's timer (10 minutes). `Fail` puts the
unit into `activating` (systemd's auto-restart) with the next delay, one tick
more or less because delay and timer are not in step; `Restart` obeys the start
limit, a fixed window as systemd implements it; `StartLimitHit` is the way to
`failed`. The alert script is modelled per caller (`OnFailure=`, the watchdog)
as first look, sleep, second look; the watchdog as its five exits.

### 2.5 Daemon

Workers are the IDLE threads (`Watches`, each with an account and a folder) and
the scheduler threads (`Loops`). Each has a control point; both kinds meet in
`Acquire`, `TimesOut`, `ScanSucceeds`, `ScanRejected`, `ScanDisconnected`,
`ScanFails`, which stand for the callbacks and the bodies of the loops.
`_on_auth_failure` is three steps (look at `_stop`, write `_exit_code`, set
`_stop`), since signals, other workers and the main thread run between them.
`Return` and `Raise` say where an ending handler leaves its worker: an
exception from `record_failure` ends a loop, but is caught in an IDLE thread.
The process exits with all its threads wherever they are; systemd's
`Restart=on-failure` and an operator start it again. What a scan does is left
to `SpamLoop` and `Redirector`: here it deals with what it listed when it got
the lock. `pending` holds an account and folder while the oldest message there
waits; later arrivals only notify. Time is left out: a backoff window and an
interval end some time, a lock attempt may time out whenever the lock is held.
That the start limit may keep systemd from restarting is in `Supervision`; the
feed loop, which takes no account's lock, is in `Classification`.

### 2.6 AutoBlock

One account. A scanner is a process, the daemon or `run --once`: in each the
account's lock lets one scan run at a time (`Daemon!OneScanPerAccount`). The row
of a domain is `spamHits`, `lastSeen` and membership in `blocked`; the script on
the server is the set of domains it rejects, and `active` says whose script is in
force. The transaction of `register_hit` has two locks: the process's
`_write_lock` and SQLite's writer; `BeginFails` leaves the first one taken, as
`__enter__` does. Then come the three decisions, `RecordsBlock`, and the push:
`Generates`, `Puts` (the answer may be lost), `PutIsRefused` (a NO that
`put_script` does not look at), `Activates`. `hitDays` and `stale` are history:
the days of the hits, and the listings that the table or the script outran.

### 2.7 Classification, with Mail, PhishingFilter, SimilarityFilter

`Mail` has what the detectors see of a message: its account, the domain of the
From header and of the address in it (two parsers, two results), the brands the
display name and the text name, the link domains, the text, and the words the
classifier tokenizes it into. Scores are integers, ten-thousandths, rounded as the
code rounds.

The Bayesian score follows `SpamClassifier`: `Known` are the words that the seed
table or the account's file has, `TokenProbability` is each one's probability
(Robinson's correction with spam and ham counts, the seed's fraction, one half, or
their `Blend`), an exact fraction `<<part, whole>>`, and `BayesScore` combines all of them,
or is one half if there are none. How `_chi2_score` combines them (the 15 most
extreme, Fisher's test on both tails, in floating point) is a constant operator,
`Chi2`, of a function from words to fractions. The instance gives it the values
that `_chi2_score` has for the fractions its words can get; the theorems hold for any
operator.

`Classification` composes three modules of state, each with its own
`UNCHANGED` tuple. Its steps are those of `_classify`: `Classify`, `AskBayes`
(the file is read here), `AskWatchList`, `LookUp` per link, `Analyzed`,
`AskSimilarity` with the verdict. Beside it run the training reports of
`TokenStore` (`Training`), the feed loop (`Feeding`: `StartRound`, `Fetch` per
feed, `Store` or `StoreFails` per row), the users (`Reporting`: `ReportFraud`,
`AddSignature` then `CountText`, `RemoveMessage`), and `Restart`. A
classification writes nothing, so one at a time shows all there is to see.

`Evidence` and `Grounds` say what speaks against a message in terms of what was
trained, published and reported, not of how the detectors compute it. The history
variables `held` and `arisen` carry, through a classification, the evidence that
stood at every moment and whether there ever was a ground; `NothingMissed` and
`NoFalseAlarm` compare the verdict with them.

### 2.8 MigaduSync

A request is a web request of Nextcloud in which the listener runs: `pc`, the
`attempt` of the call it is at, and its `task` (user, mailbox, password). The
events are `SetPassword`, `CreateUser`, `BeforeDelete` and, later in the same
request, `UserDeleted` or `DeletionAborted`; `SetAddress` changes what a later
event resolves and has no listener. A call is `Served` (the host does it and
answers), `Refused`, `TimesOut` (done without an answer, or put into `late`), or
`Raises`; a call in `late` `Arrives` or `Vanishes` whenever it likes. `Accepted`
is what the provider takes for a success. An error of the host that has done nothing
(`Refused`) is tried again; among the errors is a 500, and to a DELETE that is a
success: the request then reports one and joins `misled`. History: `alone` (requests with no
other and no late call beside them when they began, and since), `misled`, `removed`.

## 3. Runs

| Run | Constants | Checks | Shows |
|---|---|---|---|
| `MCSpamLoop_faults` | two messages, one without Message-ID; UIDs up to 2; all five kinds of failure | `TypeOK` `RecordedBeforeMoved` `BiasGuard` `NoMailLost` `FeedbackIsTrue` | the guard and the mail survive an abort between any two calls |
| `MCSpamLoop_scans` | the same, only MOVE may be refused; fair | `KnownMeansSettled` `SpamOncePerArrival` `HamMeansRescued` `JunkIsLearned` | what successive scans learn while the user moves messages about |
| `MCRedirector` | two messages, two threads, two scans of `run --once`, which archives, two failures; fair | `TypeOK` `NoMailLost` `RemovedAfterAppend` `DeliveredOnce` `ImplementsRelay` `EventuallyDelivered` | no loss, refinement, retry, the lock's use |
| `MCClassification` | two accounts, four messages, three words, a spam and a ham report, two feeds, two threads that train for one account; two changes | `TypeOK` `FileIsWhole` `NothingForgotten` `DetectorsTypeOK` `RefreshIsComplete` `RepeatedIsReported` `NothingMissed` `NoFalseAlarm` `ImplementsAtomicReports` | what the lock gives to training, and what a verdict rests on while everything it reads changes |
| `MCTokenStore_two` | two accounts, a thread each | `FileIsWhole`, violated | finding 1 |
| `MCSupervision_pages` | delays 1, 2; limit 3 in 6; threshold 2; fair | `TypeOK` `WatchdogPagesOnce` `FailedIsPaged` | what the scripts do report |
| `MCSupervision_outage` | the unit file's numbers in ticks | `SustainedOutagePaged`, violated | finding 2 |
| `MCDaemon_stop` | one account, an IDLE thread on INBOX, both loops; two failures, one reconnect; fair | `TypeOK` `OneScanPerAccount` `ExitCodeTellsWhy` `RejectionIsRetried` `ArrivalIsScanned` | locks, stop and restart, and that no notification is needed |
| `MCDaemon_overflow` | the same with one loop, going on after rejections, float limit 1 | `LoopsSurvive`, violated | finding 4 |
| `MCAutoBlock_push` | two processes, two domains, threshold 2, two hits a domain, two days | `TypeOK` `NoHitLost` `BlockIsEarned` `PushIsComplete` | counting and blocking by two processes, and what a push makes up for |
| `MCAutoBlock_window` | one process, one domain, a window of the same day | `BlockIsRecent`, violated | finding 3 |
| `MCMigaduSync` | two requests, two users, one of them excluded, one mailbox, two passwords, two events, three failures; fair | `TypeOK` `InStep` `DeleteNeedsRemoval` `EveryRequestReturns` | retries and late calls of the password sync |

The longest passing runs are `MCSpamLoop_faults` (1,578,662 distinct states),
`MCMigaduSync` (568,542), `MCSpamLoop_scans` (475,649) and `MCClassification`
(159,096); each ends within three minutes on two cores.

Bounds. Two messages show every interference between messages the tables allow
(one key taken for another's, one EXPUNGE removing another's message), and one
of them has no Message-ID because the code treats it differently. In
`MCSpamLoop_faults` the constraint `Bounded` further lets the user delete one
message only and stops at the second training on one arrival, which no property
of that run tells from a third, and at the third arrival that the daemon moves
or trains on: two moves, a move and a training, or two trainings are followed to
their end. The other run and the proofs have no such limit. Two UIDs per folder
let a message leave and come back, the shortest history with a second arrival.
Failures in `Redirector` are bounded by two, one on each side of a retry, and
`MaxRuns` by two, one scan of `run --once` before and one during a scan of the
daemon. The threads leave the message expunged and `run --once` archives it:
mixed this way each way of removing meets the other, and the run stays short.
Four inodes are enough for two writers: the file, the `.tmp`, and an orphan
each; `MCClassification` has two, which is all that writers under one lock ever
use. The history counters saturate at two, "more than once". `Daemon` has two
failures in `MCDaemon_stop`, so that two workers may be in `_on_auth_failure` at
once and a failure may follow a restart; `MaxReconnects` is 1 for 10 and, in
`MCDaemon_overflow`, `MaxPower` 1 for 1023, which only shortens the way there.
Accounts share the stop event and the exit code only, so the run has one; the
proofs have any number. `AutoBlock` reaches the threshold and one hit beyond it,
on two days with a window of one. `Supervision` is finite by itself.
`MCClassification` scales the numbers of the code down: `MinUserCounts` 2 for 5,
`Threshold` 6500 for 9000, two permutations for 128, `Limit` 2 for 100,
`SameSenderMax` 2 for 3; the blend of seed and counts, a cut list of signatures
and both kinds of repetition are reached with few reports that way. The seed
table gives two words of the offer 0.6 each and lacks the third word. Alone they
combine to 0.64, below the threshold, and no word of the offer is above it
before training; one spam report lifts the pair over it (0.68) though each of
them is at 0.63, a ham report that shares one word with the offer keeps it below
(0.55), and a ham report after the spam report brings it back (0.59). `Offers`
are the states in which the two feeds can be when one is fetched. `MaxChanges` 2
lets any two of a training report, a feed round, a user's report and a removal
fall into one classification. Of the four messages, two are the same offer to
two accounts, one is the offer without a sender, one is sent in a brand's name
with a link. `MCMigaduSync` has the code's `MaxAttempts`, 3, and as many
failures, so that a call may fail for good; the second event starts a second
request, or a second change after the first. The proofs remove these bounds for
the safety properties.

`CHECK_DEADLOCK FALSE` appears in `MCRedirector` and `MCMigaduSync`: there the
user drops each message once, or makes two changes, and when all are delivered or
done the system really has nothing left to do.

Fairness. `SpamLoop!Fairness`: the training loop (`watcher.py:395-421`) starts a
scan every interval for ever, and a running scan goes on; it competes with the
pipeline for the account's lock, hence SF for `ListJunk`; nothing is assumed of
the user, the server or the pipeline's start. `Redirector!Fairness`: the
catch-up loop (`watcher.py:358-393`) and the callback start again and again, and
compete for the lock, hence SF for `Start` and WF for `Progress`; failures are
not fair but finite. `Supervision!FairSpec`: timers fire and scripts run on;
nothing is assumed of the daemon or the operator. `Daemon!Fairness`: threads run
on (`_catch_up_loop` and `_training_loop` have no exit but the stop event),
windows end, systemd restarts, and `LockIsFair`: a worker that times out again
and again on a lock that is free again and again gets it once in a while. The
code gives a loop one second per interval and no queue, so this is an assumption
on load: scans are short against the interval. Nothing is assumed of IDLE
connections, signals or the operator. `MigaduSync!FairSpec`: a web request goes
on (`CURLOPT_TIMEOUT` is ten seconds, and there are three attempts), so a call is
served or fails; nothing is assumed of late calls or of users.
`TokenStore` and `Classification` have no liveness property.

## 4. Findings

1. **The token file is torn when two accounts train at once**
   (`MCTokenStore_two`). The `.tmp` name is shared and only per-account locks
   exist. A torn file loads as `{}`, and the next report replaces all that was
   learned. `spam_detect.py:92` says "Atomically".
2. **A sustained outage pages nobody** (`MCSupervision_outage`). In the wait for
   an automatic restart the unit is `activating`. The watchdog counts that as
   down and calls `mailwatch-alert`, whose guard counts it as up and returns
   silently; the watchdog then touches `ALERTED` and is done with the outage.
   With the unit file's delays the start limit is not reached either. The
   README of mailwatch (lines 211-213) says the watchdog pages in this very case.
3. **The block window has no effect** (`MCAutoBlock_window`). `register_hit`
   sets `last_seen`, and `count_recent_hits` then returns all hits of a row whose
   `last_seen` is inside the window: three hits in three years block a domain.
   `config.py:41` and the docstring at `sieve_block.py:122` count only hits within
   the window.
4. **A long outage ends the scheduler threads** (`MCDaemon_overflow`).
   `record_failure` computes `factor ** (count - 1)` before `min` caps it, and
   `2.0 ** 1024` raises `OverflowError`: with the default delays after about
   three weeks of failures of one account. The call is in an `except` clause of
   the loop, so the thread ends, for all accounts, while the process stays up
   and systemd sees nothing. `config.py:51` and `backoff.py:20-21` promise a
   capped delay.

The comment at `errors.py:21-24` says that the unit sets
`RestartPreventExitStatus`; `mailwatch.service` does not and explains why
(lines 28-31). The model follows the unit; the mutant `RestartsUnlessAuth` is
what the comment describes.

Limits of the code that the models contain: `_train_spam` calls `trainer.report`
before it looks the `spam_feedback` row up, so a message that leaves Junk and
comes back trains twice, although `training.py:15` says it cannot (hence
`SpamOncePerArrival` and not per message); a failed `BEGIN IMMEDIATE` leaves the
process's write lock taken for ever (`AutoBlock!BeginFails`); a refused
PUTSCRIPT counts as pushed, and a failed push is not repeated before the next
domain is blocked (the exceptions of `PushIsComplete`); a message without
Message-ID that the daemon moved gets a new UID in Junk and is trained on as
spam (why `BiasGuard` speaks of messages with a Message-ID); the fallback
comparison of Junk UIDs with recorded INBOX UIDs takes independent arrivals for
own moves, more of them the longer the daemon runs (why `KnownMeansSettled`
accepts what `IsDaemonMove` accepts); a COPY fallback whose EXPUNGE fails leaves
the message in both folders, and deleting the Junk copy then looks like a rescue
(why `HamMeansRescued` is checked without that failure), and leaves the
`\Deleted` flag in INBOX, where the next EXPUNGE of anybody takes the message; a
`\Deleted` flag that a mail client set travels along with MOVE and COPY (why
`SafeCopy` of section 5 asks for a Junk copy without it); a rescue between the
two listings of a scan trains ham twice.

Limits of the filters: no code of the daemon calls `add_spam`, `remove_message`,
`check_repeated` or `report_fraudulent`, so that `spam_signatures` and the watch
list stay empty in production although `mailwatch/README.md:24` speaks of
near-duplicate detection; the model has them as calls of a client of the
library. `check_similarity` stops at the first signature that is 0.7 alike,
which can hide an exact copy further back, and a near duplicate between 0.7 and
the threshold of 0.9 flags nothing (why `Evidence` asks that all of the
account's signatures are copies). `spam_similarity.py:31` says "more than N"
reports where line 382 has `>=`. `_check_watchlist` compares domains, so that a
mail in the name of a reported brand from another domain passes, against
`phishing.py:17-19`. Reporting a message twice counts its text twice, and
`remove_message` leaves the count. Rows of `phishing_feeds` never expire.
`NoFalseAlarm` is about hashes that do not collide within a permutation, as in
the instance.

Limits of the Bayesian score, and of what is said about it. `WordsAgainst` is the
score of all a message's words with the counts the file should hold. So
`NothingMissed` and `NoFalseAlarm` say that a verdict follows from the seed table and the
account's own reports, whichever file the classifier happens to read. They do not say
that the score is a good one: a word of high probability beside hammy ones does
not flag a message, several words below the threshold may together flag it, and
below five observations a report of spam can lower the probability of a strong
seed word. `config.py:385` accepts any threshold in (0, 1], and a message without a known
word scores 0.5, so that a threshold of 0.5 or less flags it (then
`WordsAgainst` holds of it). `classify` takes the words from a set, so that among
equally extreme words the cut after 15 and the order of the floating-point sum depend on
string hashes, which differ from process to process: for one message within one
process `Chi2` is the function it is assumed to be.

Training under one lock is the hypothesis of `FileIsWhole`, `NothingForgotten`,
`ImplementsAtomicReports` and what rests on them. Two things break it in production:
a second account (finding 1), and a `run --once` process, which trains too and has
locks of its own (`watcher.py:584`), so that it breaks the hypothesis even with one
account. Neither is in a passing run.

Limits of the password sync: two overlapping changes of a user may land in
either order, and a DELETE that arrives late may remove the mailbox of a user
created again since (why `InStep` speaks of requests that nothing overlapped); a
POST whose answer was lost is refused as a conflict when it is repeated, and the
mailbox keeps its password though a failure is logged; a user without an address
when created is not synced until the next password change, since no event tells
of the address. A DELETE that the host answers with a real 500, having deleted
nothing, counts as a success: it is not tried again, and the log says "mailbox
deleted" where `src/README.md:270` and `597` lead an operator to look for
"mailbox deletion FAILED". The comment at `MigaduProvider.php:23-25` makes this
choice, because a successful deletion is answered with 500 as well and the two
cannot be told apart by the code; so the model contains the case (`Refused`) and
`InStep` excepts just it (`misled`).

## 5. Proofs

All theorems hold for every value of the constants that satisfies the named
`ASSUME` of the module.

* `SpamLoopProofs`. `TypeCorrect`: `TypeOK` is not inductive, since what a scan
  does next depends on its locals; `LocalsOK` says what they mean at each
  control point. `RecordFirst` and `NoSelfTraining`: `GuardInv`, the two
  invariants together, is inductive, because a UID is only moved at a control
  point that follows its INSERT, and a Junk arrival is only trained on after
  `IsDaemonMove` said no. `MailConserved`: a message with a `\Deleted` flag, or about
  to get one from a STORE, is doomed in INBOX, since any EXPUNGE takes it; so the
  inductive form (`SafeCopy`) asks for an INBOX copy that is not doomed or a Junk
  copy without the flag, which a rescue would carry back. `NothingSlipsIn`: `KnownMeansSettled` when no fetch
  fails; the inductive form speaks of every listing a scan holds: each of its
  UIDs is settled, gone, or still among the work. `FeedbackTold`: who is about to
  write a row has trained on the message in hand (`InHand`), and nothing is
  unlearned. `HamIsTheUsers`, when the daemon never has to copy: the message of a
  delivery still in INBOX has been nowhere else (`Fresh`), so what is listed as
  rescued the user put there. All for any number of
  messages, UIDs and concurrent scanners, with or without the account's lock.
  `OneScannerTrainsOnce`, for a single scanner without failed listings and
  aborts: `Apart` says that the snapshot, or during a scan the listing, holds all
  that was trained on and is still in Junk, and the work none of it; each
  hypothesis is needed, as the limits of section 4 show.
  The module's assumption that no Message-ID reads like a UID keeps
  the two kinds of keys of `spam_feedback` apart.
- `RedirectorProofs`. `TypeCorrect`, `MailConserved` and `AppendFirst` from
  `SafeInv`; `LockDeliversOnce` from `OnceInv`, which follows the message in
  hand through the lock's holder and says that other processes stay idle while
  `runs` is 0; `RelayImplemented`: each action maps to an
  action of `Relay` or leaves its variables alone.
- `TokenStoreProofs`. Under the hypothesis `OneLock` (all training is for one
  account): `IInv` says that the report under way holds the lock, has in memory
  the file and its own message, and writes an inode `user_tokens.json` does not
  name; hence `OneAccountFileIsWhole` and `OneAccountForgetsNothing`, through any
  failed write and any crash, and `OneAccountReportsAreAtomic`: the
  rename is the `Count` of `AtomicReports`, a failed write or a crash its
  `GiveUp`, and no reader sees the steps in between (`AtomicStep`).
  `MCTokenStore_two` shows that the hypothesis is needed. `TypesHold` needs no
  hypothesis. Without the lock `TypeOK` is not inductive, since a count in memory
  is one more than some count in a file; `TypeInv` therefore says of every
  content, in files and in memory, that the reports begun cover it (`Covered`),
  with one to spare while a report of the account has not loaded.
- `SupervisionProofs`. `TypeCorrect`: the inductive form adds that the hour is up
  while the watchdog calls the alert script; it is proved in two halves, the
  numbers and the scripts. `OneAlertPerOutage`: `ALERTED` (or the run about to write
  it) remembers every page of the watchdog until the unit comes up.
- `DaemonProofs`. `TypeCorrect`, `LocksExclude` and `CodeTellsWhy` from one
  inductive invariant: a scan holds its account's lock (`Held`), and who is about
  to stop the daemon saw a rejection and writes the code first (`Codes`).
- `AutoBlockProofs`. `TypeCorrect`, `HitsAreCounted`, `NobodyBlockedEarly` and
  `PushesHeal` from one inductive invariant: in a transaction the row read is the
  row written (`Exclusive`); a scanner past the threshold check has the hits, and
  hits only grow (`Earned`); a listing that nothing outdated holds all of the
  table (`Complete`).

- `ClassificationProofs`, in three layers. Of the tables:
  `RoundsAreComplete` from `FeedInv`, every row on offer is stored, failed, at
  hand, or of a feed still to fetch; `RepetitionIsReported` from `CountInv`, an
  account has at most one report under way, which its counter does not have yet,
  so a counter never exceeds the reports; the hypothesis that there are
  finitely many hosts makes the number of senders a number.

  Of the operators: `ProbabilitiesAreProper`, that every known word's
  probability is a proper fraction, in the unit interval whose logarithms `_chi2_score`
  takes, for any counts, any seed table of proper fractions and any number of observations at
  which the seed is dropped (`BlendIsProper` for the blend); `ScoreReason` and
  `CopyIsFound` what the comparison of signatures can find. The least hash and the
  greatest score exist because inclusion of finite sets is well-founded
  (`LeastExists`, `GreatestExists`).

  Of a verdict: `DetectorsTyped`; then two invariants that follow a
  classification from `AskBayes` to its verdict. `Followed`: a link or a sender
  still in `held` has raised its flag by the time its detector is done, or is
  still to be looked up. `Founded`: whatever has raised a flag so far is in
  `arisen`. Each has one lemma per step of `_classify`, and one for the steps of
  the others, which can only take from `held` and add to `arisen`.
  `ReportsAreFollowed` is the part of `NothingMissed` about links, reported
  senders and copies, and needs no hypothesis. `OneAccountMissesNothing` adds the
  words and has `OneLock` from `TokenStoreProofs`, since a torn or
  forgetful file loses what was learned. `OneAccountNoFalseAlarm` has `OneLock`
  (without it the file may lack a ham report, or hold a report that another account's
  rename brought there, and that then failed itself) and `NoCollision`; section 4
  says why. The two meet in `ScoreFollows`: under one lock the score with the file
  that is read is the score with what was taught, whatever `Chi2` does.
- `MigaduSyncProofs`. `TypeCorrect`; `DeletionFollowsRemoval`, with the late
  calls; `SuccessIsInStep` from `AloneInv`: while a request is alone, its task is
  what Nextcloud has, the late calls are its own and all want what it wants, and only
  a DELETE that a 500 answered is `misled`.

Three theorems are the halves of liveness properties that need no fairness:
`SpamLoopProofs!ScansWearOut`, `RedirectorProofs!ScansWearOut` and
`MigaduSyncProofs!RequestsWearOut`. `Left` counts the steps a scan or a request has
left at most, a natural number; every step of its own, failures too, lowers it,
and no step of anybody else touches it (`Shortens`). Scans end because the code
lists a folder once, requests because `requestWithRetry` counts its attempts; the
mutant `RetryForever` is what they exclude. For the pipeline the inductive
invariant needs that the UID being moved is still among the work (`AtHand`); for the
redirector, whose messages may be infinitely many, that only finitely many
have been there (`FiniteInv`).

Only model-checked: the liveness properties `JunkIsLearned`,
`EventuallyDelivered`, `FailedIsPaged`, `RejectionIsRetried`, `ArrivalIsScanned`
and `EveryRequestReturns`. They rest on fairness and hence on `ENABLED`, which
is beyond the prover. The properties of the four runs that expect a violation
are false and have no theorem, but for `FileIsWhole`, which holds under the
hypothesis `OneLock`. Every invariant, action property and refinement of the
passing runs has a theorem.

## 6. Plan

Done, in this order because mail must not be lost before anything else matters:
`SpamLoop`, `Relay`/`Redirector`, `TokenStore`, `Supervision`, `Daemon`,
`AutoBlock`; then what the verdict rests on, `Classification` with its filters;
then `MigaduSync`; with the proofs above.

Left:

1. What a measure says of the watchdog's outages (`FailedIsPaged`) and of the
   daemon's rejections (`RejectionIsRetried`), short of fairness.
2. `OidcGate`: the login of the two side-cars, with several tabs of a browser.

## 7. Not modelled

- The chi-square combination of the words' probabilities (`_chi2_score`): floating
  point. It is the constant `Chi2`, with the code's values in the instance and
  arbitrary in the proofs. `NothingMissed` and `NoFalseAlarm` are about the
  score it yields; both sides of them use the same `Chi2`, so they depend on what it is
  given and not on its values.
- MIME decoding, configuration, keyring, audit log, launcher page: stateless or
  write-only.
- IMAP connection set-up, folder discovery and remote search: protocol I/O
  without state that outlives the call.
- The daemon's single-instance lock and command line; a
  signal that arrives inside `Event.wait` (see the hazards).
- The retry of `MailwatchDB.execute` and its per-thread connections; a COMMIT that
  fails. A constraint violation inside `add_spam` would leave SQLite's implicit
  transaction open; the calls of one account are serial in the model.
- UIDVALIDITY changes: the code ignores them (listed as a hazard).
- The OIDC side-cars: all state is in signed cookies of one browser. Two login
  tabs share the state cookie (`hesk/threads-oidc/app.py:84`):
  the older tab's callback is refused and the user logs in again.
- The read-only test command of the password sync.
- Patches of third-party programs whose source is not in the repository, and
  the end-to-end test.
