# A verification model of sb-heartbeat

sb-heartbeat is a scheduled command-line program.  A scheduler (GitHub Actions,
systemd, launchd, cron, Cloudflare) starts `sb-heartbeat run`, which reads
the one row of a small table in each configured Supabase project, and ends.
Between two runs nothing lives in memory.  What one run tells the next is in
files that are replaced atomically: the status history and the notification
state.  This directory models the parts of the program whose correctness
depends on order, failure and time, checks them with TLC, and proves the core
with TLAPS.

All source paths below are relative to `src/internal/`.

## Inventory

| Component | Code | State | Operations | What makes it correct |
|---|---|---|---|---|
| Notification state file | `notification/state.go` | per project: episode, consecutive failures, last status, observation time, pending, notified | `Advance`, `MarkDelivered` | one alert per outage, due until told or recovered; episodes never repeat; no sequence of calls produces a file the next read refuses |
| Webhook delivery | `notification/webhook.go` | none | `Deliver` | only a 2xx answer counts as delivered; a lost answer repeats the same project and episode |
| `run`, `doctor` | `cli/app.go` `executeChecks` | the run's results and pending events | preflight, check, history, metrics, advance, per event deliver and mark, print | state is persisted before it is sent; a crash or error anywhere loses no alert; the exit code is truthful |
| Heartbeat runner | `heartbeat/runner.go`, `result.go`, `httpclient/` | channel of indexes, results slice, context | `RunAll`, `Check`, `backoff`, `retryAfter`, `sleepContext` | complete, ordered results; each project checked once; prompt cancellation; bounded duration; returns |
| Cloudflare Worker | `scheduler/cloudflare.go` (generator and the template it emits) | shared counter, results array | `runAll`, `runProject`, `scheduled`, the generator's budget checks | complete summaries; subrequest and wall-time limits; the results the command line would give |
| Status history | `history/history.go` | bounded list of runs | `Append` | bounds hold; old runs leave first; a refused file is left alone |
| Prometheus metrics | `metrics/metrics.go` | none | `WritePrometheus` | replaced whole or not at all |
| Atomic replacement | `fileutil/atomic.go` | target and temporary files | `WriteAtomic`, `CheckTarget` | a reader sees the old or the new file; no overwrite without force |
| GitHub workflow | `scheduler/github.go` | cache entries, run sequence | restore, resolve predecessor, run, save | a run continues its predecessor's state or resets it, never an older one |
| `init`, `install`, `migration --output` | `cli/app.go` | generated files | generate, compare paths, check targets, write | no partial installation is taken for a complete one; no output replaces an input or another output |
| Schedule translation | `scheduler/{launchd,systemd,cron,cloudflare}.go` | none | rendering a cron expression | the same instants on every scheduler, each once |
| Migration, configuration, credentials, URLs, environment files | `migration/`, `config/`, `credentials/`, `security/`, `envfile/` | none | parse, validate, generate | pure functions of one input |

How they interact: `executeChecks` calls the runner, passes its results to
`history.Append`, `metrics.WritePrometheus` and `notification.Advance`, and
passes each event of `Advance` to `Deliver` and, when that succeeds, to
`MarkDelivered`.  All writers go through `fileutil.WriteAtomic`.  Two runs
share only the files.  The generated GitHub workflow carries the notification
state from run to run in the Actions cache; the generated Cloudflare Worker has
no state and reimplements the runner's retry loop in JavaScript.

What is hard: a crash or an error between two file operations; a webhook
that accepts an event while its answer is lost; two runs that read and
replace one file without a lock; acknowledgements that arrive after the entry
has changed; a state file that disappears; goroutines and asynchronous
functions that share a counter, under cancellation; servers that choose the
delays; counters at their limits.  `PROJECT.json` lists each hazard at its line
with the property that would notice it.

## Modules

`NotificationDocument` holds the state document as data: a function from
project to entry, with `Advance` and `MarkDelivered` as functions on it
(`Advanced`, `Acknowledged`, `Matches`) and `validateDocument` as a predicate
(`ValidDocument`).  A project with no entry has the zero state, exactly what
indexing the Go map with a missing key yields.  Sorting, JSON and time
formatting are abstracted.  The two size limits, `MaxProjects` and
`MaxFileBytes`, are one bound on the number of entries.

`NotificationState` makes it an object with one step per call: `Advance`
(written), `AdvanceExhausted` (the episode counter is full), `AdvanceRefused`
(the write is refused), `MarkDelivered` and `MarkStale`.  Any event may be
acknowledged at any time, including ones no longer current.

`Alerts` is the abstract specification: per project an outage number and a
phase, `up`, `quiet`, `due` or `told`.  It knows no threshold, failure count,
file or event.  `AlertsSpec` in `NotificationState` is the refinement mapping.

`RunCommand` is `executeChecks`.  Each slot is a run in progress, with the
program counter of its pipeline:

    idle -> history -> metrics -> read -> advance -> deliver -> output -> idle
                                                    |     ^
                                                    v     |
                                                  ackRead -> ack

`Advance` and `MarkDelivered` are split into the read and the replacement they
consist of (`ReadState`/`WriteState`, `ReadForAck`/`Ack`), because
nothing locks the file in between.  A step can fail (`StepFails`, exit
code 3), the process can die before any of them (`Crash`), the delivery can fail with or without
the receiver having taken the event (`DeliveryFails`), and the file can vanish
between runs (`LoseState`).  The receiver is external: it deduplicates by
project and episode as `docs/notifications.md` advises.  `accepted` and `shown`
record what it has seen and what it showed.  The events on their way (`queue`)
are a set, taken in the order of the configuration (`First`), which is the order
of the results.  `RunCommand` extends
`NotificationState` and shares its variable, `disk`, so `AtomicState`, which is the
atomic object's `FileSpec`, is a property of this module.

`RetryPolicy` holds what the Go runner and the Worker share: the backoff (doubled
at most twice, since the configuration admits three retries), the Retry-After range (parsed twice, in Go and in JavaScript), and two
worst-case durations.  `ConfiguredWorstCase` is the sum both generators start
from.  `CappedWorstCase` is computed nowhere in the code; it is this
specification's bound on what the policy allows.

`Classification` is how a request may end and what is concluded from it: the
Go runner's `classifyTransport` and `classifyResponse` (`RunnerVerdict`) and
their counterparts in the Worker's template (`WorkerVerdict`).  A `Reply` is a
transport failure, before or after the headers, or an HTTP status with a media
type and a body; a body is one of ten kinds, those that either side
distinguishes.  Both tables are written down in full, so they differ where the
code differs: Go decodes keys in any case, takes `null` for an empty list and
refuses a media type with a malformed parameter; the Worker drops a byte order
mark, demands UTF-8 beside an error code, has no status for DNS and TLS
(`Coarsened`) and retries certificate errors.  `Canonical` is the rest.

`HeartbeatRunner` is `RunAll` and `Check`: a rendezvous of the main goroutine
and a worker (`Hand`), the request and its outcome (`Attempt`, `Answer`), the
backoff (`Wake`), the context (`AbortRequest`, `AbortSleep`), the end of the
range loop (`Exit`) and `wg.Wait` (`Return`).  A cancelled context does not stop
the main loop from handing out the remaining indexes, so in the model, too,
every one of them is checked and ends at its first wait.  A project whose
credentials were refused (`credential_rejected`), or that has an index but no
project (`internal_error`), gets its result at once (`Unchecked`).  `delayed` is
a history variable: some server asked for a longer delay than the configured one.

`JobTimeout` is `workflowTimeoutMinutes`: the timeout of the generated job, with
its rounding, its two spare minutes and its limits of 5 and 360 minutes, against
what the job's run takes.  It extends `HeartbeatRunner` by `Advance`, which says
how many alerts are to be delivered, and `Deliver`.  Nothing limits the number of
projects, so a configuration may need more than 360 minutes (70 projects one
after another, with 60 s, 3 retries and 30 s of backoff, need 385); for these the
timeout is cut and covers no worst case.  `WithinJobTimeout` leaves them out by
name.  What a job that is cancelled at its timeout loses is `RunnerLost` of
`GitHubWorkflow`.

`CloudflareWorker` is one scheduled invocation of the generated Worker.
JavaScript runs one continuation at a time, so its steps lie between two
awaits.  `Accepted` is the generator's admission check, an assumption on the
constants: bindings, subrequests and time; `Kill` is the platform's wall-time
limit.  `heard` is a history variable: the replies a check has had, kept in its
result, so that `AgreesWithRunner` can say what the command line would have made
of them.  DNS and TLS failures count as upstream failures there, and an invalid
certificate as one to retry: the Worker retries whatever `fetch` throws, while the
command line never retries a certificate error (`docs/product-spec.md`, the table
of stable codes).

`GitHubWorkflow` is the generated workflow with notifications.  A job walks
through the steps of the template, `resolve`, `restore`, `accept`, `heartbeat`,
`save`, `observe`, `upload`, `propagate`; `Trigger`, `Rerun` and `Begin` are the concurrency group,
which runs one job and keeps one waiting.  The state a job carries is a
`NotificationDocument`, and `Heartbeat` is a whole run of sb-heartbeat on it:
`RunCommand` shows what happens inside.  Run numbers stand for run ids; the
template sorts by number and compares ids.  `streak` and `told` record the
truth the state should reflect: failures observed in a row, and outages the
receiver took.  `lost` says that some state a job observed never reached, or
did not stay in, the cache; `calm` that nothing went wrong up to the saving.
A failed step fails the job (`failed`), also the two that prepare and upload the
result.  Runs of other refs have a concurrency group and a cache scope of their
own and end in the guard job, so there are none here.

`AtomicFile` is `WriteAtomic`: one step per system call, for any number of
processes and paths, with failing calls, kills, other programs at the same path,
and power loss.  `files` is what a directory shows, `durable` what it shows after
a power loss; `WriteBack` moves one to the other, since the code never syncs a
directory.  It has no `Next` of its own: its two callers give it one.

`GenerateFiles` is every command that writes files, by kind: `init`, `install`
(systemd, cloudflare), `launchd`, `single` (install github, migration --output)
and `run` with its history, metrics and state.  `Begin` stands for rendering and
for the comparison of paths; `Preflight` checks every target, then `WriteNext`,
the steps of `AtomicFile` and `Report` alternate.  Several commands run at once.
A target is a name, and `layout` says where names lead: linked directories and
file systems that ignore case, or the form of letters, make two of them one file,
or one of them the configuration.  `targetIdentity` resolves links, so what is
left of a name is how it spells the path (`spelling`); `targetIdentitiesCollide`
(`Recognised`) takes two for one when they are equal, when both lead to an
existing file and `os.SameFile` says so, or, in a build for macOS or Windows
(`foldsCase`), when they differ in case only.  It cannot recognise two names of a
file that is not there yet and that differ in case elsewhere, or in Unicode form
(`FreshAliases`).  `init` compares the text of absolute names only, so that
`init --force` through a linked directory puts its second file in the place of its
first and prints both as created.  `EachInItsPlace` excepts these cases by name
(`TellsApart`) for commands with `--force`; without it the second write is refused,
whatever the names look like.  `run` prints nothing of the files it keeps; all other kinds
print what they created (`Prints`).  After its last file `init`
prints guidance and `run` its results, which may fail with exit code 3 although
everything is in place.  What `run` does between its files is `RunCommand`.

`History` is `history.Append` over `AtomicFile`: the limit, the strict `Read`, the
retention (`Bounded`), the validation before the write (`Encode`) and the write
itself, with two schedulers on one file.  A stored run is a number, a size in
bytes and the flag `backward`, a finish before its start, which is what a clock
step produces.

`Calendar` is the schedule on its way to schedulers with a calendar language of
their own.  An expression gives each field a set of terms; `Parsed` is what
robfig/cron makes of it, the selected values and the star bit, and `Due` what
cron means by it.  `Entries` are launchd's dictionaries (`launchdCalendarEntries`),
`SystemdCalendar` a timer's line, `CloudflareCron` the trigger.  The clock jumps
from instant to instant, and `LaunchdFires`, `SystemdFires` and `CloudflareFires`
say, as their documentation does, when each scheduler starts the program.

The modules whose names end in `Proofs` hold the theorems about the module they
are named after; those whose names begin with `MC` only values for TLC.

Definitions whose names end in a word for a bug (`StreakUnbounded`,
`DeliveryFailureMarked`, ...) are variants of the definition below them.  No
specification uses them.  They are the mutants of `PROJECT.json`: put in the
place of the original, they must break the property they are listed with.

## Runs

| Run | Instance | Shows |
|---|---|---|
| `NotificationState` | 3 projects, 2 failing statuses, 2 instants, thresholds 1 and 2, room for 2 entries, counters up to 2 | `FileTypeOK`, `NoSelfLockout`, `AlertsSpec`: every order of observations and acknowledgements implements `Alerts`, and none leads to a file that cannot be read back |
| `RunSerial` | 2 projects, one slot, runs of both or of either, threshold 2 | `QueuedIsPending`, `ExitCodeIsTruthful`, `NotifiedWasShown`, `AtomicState`, with faults at every step; `EventuallyTold` when they stop |
| `RunOverlap` | 1 project, two slots, one loss of the file | `NotifiedWasAccepted`, `ThresholdIsOwed`: what is left of the guarantees when runs overlap |
| `StateLoss` | as `RunSerial`, one loss of the file | `NotifiedWasShown` is violated (finding 1) |
| `HeartbeatRunner` | `JobTimeout` with 3 projects, 2 workers, 2 retries, backoff 1, cap 3, three replies, deliveries of at most 1, minutes of 2 units | `ResultsComplete`, `CheckedOnce`, `WithinCappedWorstCase`; `CancelIsPrompt`: a cancelled run returns even if no timer fires any more; `Terminates`: every run returns if they do; `WithinJobTimeout`: the timeout of the generated job covers a pool that hands out projects as workers become free, and the deliveries after it, and leaves the rest of the job its reserve, as long as no server asks for a longer delay and 360 minutes suffice |
| `CloudflareWorker` | 3 projects, 2 workers, 1 retry, budget 6 of 7, seven replies | all its properties; `AgreesWithRunner`: for the same replies the command line reports the same |
| `CloudflareBudget` | the same | `NeverKilled` is violated (finding 2) |
| `GitHubWorkflow` | 1 project, 3 runs of up to 2 attempts, threshold 2 | `CalmRunsContinue`: while nothing goes wrong a run starts exactly where the last ended; `RolledBackOnlyByRerunAndLoss`: reruns alone, or losses alone, never bring old state back; `SuccessIsTruthful`: a successful attempt saw every project healthy and saved that, whatever became of the result steps |
| `GitHubRollback` | the same | `NeverRolledBack` is violated (finding 3) |
| `GenerateFiles` | 2 commands (init and install, install and run, launchd and single), up to 2 files, by names that lead to two places, to one, or to the configuration's, spelled alike or not, of files that are there or not, with case folded or not; each with or without `--force`; one interference or power loss | `NeverTorn`, `NeverMixed`, `ReportsWhatItInstalled`, `ReplacesOnlyWithForce`; `EachInItsPlace`: success means that every file is where it was to be and no input was replaced, with `--force` where the command tells its files apart |
| `History` | 2 processes, 3 runs of sizes 1, 3 and 4 in a file of at most 3 bytes and 2 runs, limits 0 to 3, one power loss | `AlwaysReadable`: no self-lockout; `KeepsTheNewest`: with no race and no power loss the file is the newest runs, without a gap; `NeverInvents`: not even a race repeats or reorders |
| `Calendar` | 2 minutes, hours, days and months and 3 weekdays; 216 expressions of stars, values, steps, spelled-out ranges and stars in lists; 4 entries at most | `FiresExactly`: every scheduler fires at exactly the instants of the cron expression; `StartsOnce`: no instant is named twice |

### Bounds

* `MaxInt` and `MaxEpisode` stand for the largest `int` and `uint64`.  They are
  tiny so that the runs reach them: the failure counter saturates as in the
  code, and an opening at `MaxEpisode` is an error.
* `MaxOutages` (in `RunCommand`) keeps outages below the last episode when a
  run starts; overlapping runs can still exhaust it and reach `RefuseState`.
  Two outages are enough to confuse an old acknowledgement with a new outage.
* `Times`: the wall clock gives every run its own instant.  `FreshTime` reuses
  instants that no file, run or snapshot refers to any more.  Only equality of
  instants matters in this code (`MarkDelivered` compares them), and a reused one
  equals nothing that is left, so the reuse is invisible.  `Start` needs a free
  instant; the pools are as large as the number of places that can hold one.
  Two runs with the same nanosecond timestamp are therefore excluded.
* `MaxLosses` bounds `LoseState`.  It is 0 where a property needs the file
  (`RunSerial`), 1 elsewhere.
* `MaxProjects` is 2 of 3 projects in the `NotificationState` run, so that
  `AdvanceRefused` happens.
* `MaxRuns` and `MaxAttempts` of `GitHubWorkflow`: a predecessor, a run between,
  and a rerun are what a rollback needs; three runs also let a waiting one be
  cancelled.  There is one project, since projects do not interact in the
  cache.
* `MaxInterferences` (`GenerateFiles`) and `MaxPowerLosses` (`History`) are 1;
  kills and failing calls are not bounded.  Two files are the fewest that can be
  mixed.
* In `History` the sizes are a run three of which fit, one that fits alone and
  one that never fits; the limits 0 and 3 are the illegal ones at both ends.
* `Calendar` treats fields alike but for the two of days and the names of
  weekdays, so two values per field tell a star, a value, a step and a
  spelled-out range apart; weekdays begin at Sunday, where the numberings
  differ.  `MaxEntries` is 4 instead of 512, so that the bound is exceeded.
  `CalendarProofs` covers the real ranges.
* `Replies` has one reply for each way `Check` can go on in `HeartbeatRunner`, and
  one for each kind of verdict, a certificate error and a retryable status with
  an oversized body among them, in `CloudflareWorker`.  The theorem
  `SameVerdict` covers all of them.
* In `RetryPolicy`'s instances the cap exceeds the configured backoff, the case
  in which the two worst cases differ.

### Fairness

`RunSerial` assumes weak fairness of a slot's `Step`: the scheduler keeps starting
runs and a live process continues.  It assumes strong fairness of `StartAll`, that
some of these runs check every project, as scheduled ones do: `--project` is for
runs by hand, and a project that is never checked is never told about.  And it
assumes strong fairness of `DeliverTo(s, p)`: a receiver that is offered project
`p`'s alert infinitely often takes it infinitely often.  A single weak assumption
would not do, since each run offers the
alert anew and may fail anew; and one that did not name the project would not
do either: events are sent in configuration order and the first failure ends the
run, so a receiver that always refuses the first project's alert starves the
second.  `Fault` steps are not fair; they stop at `Settle`, which is not
fair either: `EventuallyTold` only promises something when the file is steadily
failing after it.

`HeartbeatRunner` assumes weak fairness of each worker and of `Return` (`Fairness`):
the Go scheduler runs what can run.  That time passes and timers fire, weak fairness of
`Tick`, is a premise of `Terminates` alone (`TimersFire`).  `CancelIsPrompt` has to
hold without it: time may stop at the cancellation, and whoever still waits for a
timer, a request without its context or a sleep without its `select`, waits for
ever.  `Cancel` is never required.

## Proofs

The theorems hold for every value of the constants under the assumptions of the
modules, which say no more than the code does: retries between 0 and 3, as
`config.Validate` demands; durations and limits that are numbers; no outage
counted beyond the last episode.  A theorem with further hypotheses states them.
Each rests on an inductive invariant that is stronger than the property, since
the properties speak of what a reader sees and not of what is under way.

### State file

`NotificationStateProofs` begins with the lemmas about one observation and one
acknowledgement.  An entry is good (`GoodEntry`) when it is absent and all zero, or
what `validateDocument` accepts; `Observed` and `Acknowledged` make good
entries of good entries, within the ranges of their types.
(`GitHubWorkflowProofs` repeats the two of them it needs: the workflow has no
variable `disk`.)

From `DocumentInvariant` follow `FileTypeCorrect` (`FileTypeOK`), `NeverLockedOut` (`NoSelfLockout`) and `ImplementsAlerts`
(`AlertsSpec`).  `FileTypeOK` is not inductive: it does not say that an entry with a
failing last status has an episode and a streak, so an acknowledgement or a
further failure could not be shown to yield a valid entry, and it does not connect
`pending` and `notified` to the last status, so the phase of an entry would not
follow from its flags.  `DocumentInv` adds `GoodEntry` and the size bound.  The
refinement follows: per project, `Recovered` is `Recovers`, `Failed` is `Breaks`
or `StaysDown`, `Acknowledged` is `Tell`, and what is refused stutters.

### Run commands

For any number of overlapping runs, and wherever they fail, `RunCommandProofs`
proves `TypeCorrect` (`TypeOK`), `NoSilentLoss` (`NotifiedWasAccepted`) and
`AlertIsOwed` (`ThresholdIsOwed`).  The last two are not inductive, because a
run that overlaps another writes back a copy it read earlier.  `RunInv` therefore
says the same of the file and of every copy (`Sound`), together with `GoodEntry`,
since only a recovery may change the episode of a notified entry; and it says
that a run about to acknowledge holds an event the receiver accepted.  The
argument works for stale copies because the receiver forgets no key and because
soundness of a copy does not depend on the file.

For one slot and a file that is not lost (`Slots = {sole}`, `MaxLosses = 0`), it
proves `SingleWriterIsAtomic` (`AtomicState`), `PersistedBeforeSent`
(`QueuedIsPending`), `ExitCodesAreTruthful` (`ExitCodeIsTruthful`) and
`EpisodesAreGoodKeys` (`NotifiedWasShown`).  The hypotheses are those of the
properties: `RunOverlap` and `StateLoss` are about what fails without them.
`SoleInv` says that the copy a run decides on is the file; `WriteState` is then
`Advance`, `Ack` is `MarkDelivered`, and every other step leaves the file alone.
With `ImplementsAlerts` this gives `SingleWriterKeepsAlerts`: the interleaved,
failing runs keep the promise of `Alerts` (`AlertsSpec`).  `SingleInv` adds what a run's queue and results have
to do with the file (`Recording`): every queued event matches it, and no other
project of the run is pending.  And it adds what the receiver has to do with it
(`Telling`): no accepted key is of an episode beyond the file's, so a new outage
always has a key the receiver does not know.

### Heartbeat runner

`HeartbeatRunnerProofs` proves, for any number of projects and workers, any
replies and a cancellation at any moment, `RunnerTypeCorrect` (`TypeOK`),
`EachCheckedOnce` (`CheckedOnce`) and `ResultsAlwaysComplete` (`ResultsComplete`).
`RunnerInv` says where an index can be: not handed out, with exactly one worker,
or done and in its slot.

`CappedWorstCaseHolds` is the bound on a run's time the retry policy allows
(`WithinCappedWorstCase`), `BatchesCoverTheRun` the one the generators start from
(`WithinConfiguredWorstCase`, the lemma for `JobTimeout`).  The generators count
batches: every worker together, each as slow as can be.  The pool has no
batches.  The invariant (`Pace`) gives each worker the number of indexes it was
handed and the moment it must be ready for another.  An index is handed out
before time passes while a worker is ready, and when the last one is handed out
some worker has had fewer than `Batches` of them; no ready worker is later than
that one.  The argument is the same for both bounds, with the sum of the caps
for one and the sum of the backoffs, as long as no Retry-After exceeded its
backoff (`~delayed`), for the other.

`JobTimeoutHolds` (`WithinJobTimeout`) is about the whole job.  With the ranges of
`JobTypeCorrect`: at most one delivery per project follows the run, and the whole
minutes `workflowTimeoutMinutes` rounds up to hold the run, the deliveries, the
allowance and the spare minutes, for every configuration that 360 minutes are not
too short for.

### Cloudflare Worker

`CloudflareWorkerProofs` proves `SameVerdict`, that the two tables agree on every
failure and every canonical response, and `WorkerAgrees`: if all `Replies` are
canonical, `AgreesWithRunner` holds.  `AgreesWithRunner` speaks of stored results
only; `WorkerInv` adds what the retry loop has established before it stores one:
as many replies heard as attempts made, less the one under way, and every one of
them to be retried.

From a second invariant, `PoolInv`, follow `WorkerTypeCorrect` (`TypeOK`),
`ProjectsTakenOnce` (`TakenOnce`), `SummaryAlwaysComplete` (`SummaryIsComplete`) and
`StaysWithinPlan` (`SubrequestsWithinPlan`).  A counter is not enough for the
last: the invariant says that `requests` is the number of pairs of project and
attempt made so far, a subset of those the generator's check (`Accepted`) counted.

### Files

`GenerateFilesProofs` is about any number of commands on any paths, with every
system call failing and every process killed at any point, under no hypothesis.

* `CommandInv`: a command is in a call for the target it is at, its temporary file
  holds its data before it is synced and is synced before it is put in place, and
  what it reported, if it reports, are the targets before that one.  It gives
  `GenerateTypeCorrect` (`TypeOK`), `FilesNeverTorn` (`NeverTorn`),
  `ReportsAreTruthful` (`ReportsWhatItInstalled`) and, with the fact that a link is
  made only where nothing is, the action property `NothingReplacedWithoutForce`
  (`ReplacesOnlyWithForce`).
* `OneWriter`, for `RacesNeverMix` (`NeverMixed`): while nothing interferes, whoever
  installed anything still holds the first target, and only one can.
* `Placed`, for `EachFileInItsPlace` (`EachInItsPlace`): until a command installs
  something what was there is there (`Given`), so the comparison recognises every
  alias but a fresh one (`ComparedNamesDiffer`), and a command that tells its files
  apart has, once under way, paths that do not coincide (`Separate`).  One without
  `--force` finds nothing at the next path.  Either way what it installs displaces
  neither what it installed before nor what it read (`Kept`).

### Status history

`HistoryProofs` is about any number of writers, runs and power losses, any
limits and sizes, with no hypothesis beyond those in the properties.  It proves
`HistoryTypeCorrect` (`TypeOK`), `HistoryAlwaysReadable` (`AlwaysReadable`),
`NewestAreKept` (`KeepsTheNewest`) and `NothingInvented` (`NeverInvents`).  The
properties speak of the file; `HistoryInv` adds what is about to become the file:

* a writer in `WriteAtomic` carries a document a reader would accept, its own run
  after the newest it read, and its temporary file holds that before it is put in
  place (`Calling`, `Filling`); both copies of the file are therefore complete
  (`Shown`), after a power loss too;
* what a writer has read is a subsequence of the log, as the file is, and its run
  is no other writer's and not in the log yet (`Own`, `Stored`), so that putting
  one after the other invents and repeats nothing;
* without races and power losses the file is the newest part of the log (`Newer`).

The size of a document, a fold over its runs, is opaque: the argument only needs
that retention keeps the largest number of runs that fits, which exists by
the least-number principle, and not how sizes add up.

### GitHub workflow

`GitHubWorkflowProofs` is about any number of runs, reruns and projects, under no
hypothesis.

* `RollbackNeedsRerunAndLoss` (`RolledBackOnlyByRerunAndLoss`) has two halves.
  `Saved`: while nothing is lost, the newest entry is honest, whoever restores it.
  `Serial`: without reruns, jobs run in the order of their numbers; let `h` be the
  last one that observed something, then only the entries saved by `h` are honest
  for sure, and only run `h + 1` accepts those.  An older entry is restored, but
  the comparison of run ids resets it.
* `CalmRunsGoOn` (`CalmRunsContinue`): while all is calm the newest entry is what
  the last observation left, and the next job is the next run or the newest once
  more (`Continued`).
* `SuccessesAreTruthful` (`SuccessIsTruthful`, an action property): a job whose
  heartbeat exited with zero has its observation in the cache when it ends,
  unless that was lost (`Truthful`).
* `WorkflowTypeCorrect` (`TypeOK`).

### Schedules

`CalendarProofs` proves, for any finite ranges of the fields, any accepted
expressions and any bound on the entries, `SchedulesAreExact` (`FiresExactly`),
`EntriesAreDisjoint` (`StartsOnce`) and `CalendarTypeCorrect` (`TypeOK`, with the
bound on the entries).  The invariant says that what was generated is what the
generators make of the configured expression and that they can represent it.  The
argument is that a star selects the whole field, so an entry that leaves the field
out agrees with the same instants, and that every field selects something, so
there is an entry for every due instant.

### Model-checked only

* **Liveness**: `EventuallyTold`, `CancelIsPrompt` and `Terminates`, as the provers do not handle
  `ENABLED`.  What they assume of the scheduler is under Fairness.
* **What recursive data computes**: that `Bytes` of a longer history is larger, or
  what the backoff sums to for a number of retries.  No theorem needs it: the
  configuration admits three retries, and those are told apart one by one.
* The three expected violations, which are findings.

## Findings

1. **A lost state file repeats deduplication keys** (`StateLoss`).
   `docs/notifications.md` tells receivers to deduplicate by project and
   episode, and the product specification says that losing the file safely resets streaks and can
   delay a notification.  But episodes restart at 1.  The alert of a new
   outage then carries the key of an old one, the receiver drops it and answers
   2xx, and the file records it as notified.
2. **The Worker's runtime budget leaves out Retry-After**
   (`CloudflareBudget`).  The generator admits configurations whose worst case
   is within 14 minutes, counting the configured backoff.  A server may ask for
   up to 30 seconds per retry instead; the run then passes 15 minutes and is
   ended without its log.  The timeout of the generated GitHub job starts
   from the same sum.
3. **A rerun can bring old notification state back** (`GitHubRollback`).
   `docs/notifications.md` and the product specification say that older state
   resets and is never rolled back.  A rerun accepts state saved under its own
   run id.  When a later run's state was not saved, or was evicted, that is still
   the newest entry: what the later run saw is forgotten, and an outage may be
   recorded as notified that ended since.

## Not modelled

* **Database migration.**  The generator returns one of two constant texts, which
  PostgreSQL executes in a transaction.  Its guards read the catalogue and its
  statements take the database's locks; a model of them would be a model of
  PostgreSQL.  That the text is written whole is `GenerateFiles`.
* **Credentials, URLs, environment files, and most of the configuration.**
  Functions of one input without state over time, covered by unit tests; a
  refusal is `PreflightFails`, `Begin` or the status `credential_rejected`.
* **Texts.**  JSON decoding (but for the kinds of body `Classification` tells
  apart), sorting, messages, the metrics exposition, the generated files apart
  from schedules and steps, file permissions.
* **Links that change while a command runs.**  `layout` is constant; other programs
  change what is at a path, not where a name leads.  Hard links are two places, and
  replacing one leaves the other alone, as a rename does.
* **Different files that the comparison takes for one**, by case on a volume that
  tells case apart.  The command is refused, as it may be for any reason (`Begin`).
* **The workflow without notifications**, which keeps no state, and the guard job
  for other refs.
* **Time zones, daylight saving and missed instants.**  They belong to the
  schedulers; the generated files hand over the configured expression.  The
  generators for local cron and GitHub copy it verbatim.

## Plan

Modelled and checked are all components with state over time.  Every invariant
and action property of a passing run is a theorem, `AgreesWithRunner` under
the hypothesis that all replies are canonical; the three liveness properties are
out of reach.  Left are theorems that no run states yet:

1. `GenerateFiles` and `History` over one abstract specification of atomic
   replacement, so that `NeverTorn` and the part of `AlwaysReadable` that rests on
   the same argument follow from one invariant of `AtomicFile`.
2. The well-founded argument behind `Terminates` as an action property: every step
   of the worker pool but the passing of time uses up something finite.
