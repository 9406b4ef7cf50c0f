# leartech-gate in TLA+

Models, model checks and proofs of leartech-gate: the command `gate-cli`, which
Tekton runs on promotion pull requests and whose exit code lets Lighthouse merge
them or not, and of the HTTP service in the same repository. Paths below are relative to
the repository.

## 1. The system

`gate-cli` reads a helmfile, asks for every release whether its tests passed in
staging, tells the pull request and the owners of the services, and exits 0 or 1.

| Component | Code | State it keeps | Operations |
|---|---|---|---|
| gate-cli run | `cmd/gate-cli/main.go` `main` | flags, verdicts so far, `allPass`, the 60 s context | set-up, evaluation of each release, comment, walk over the issues, exit |
| post-deploy quill | `main.go` `evaluatePostDeployQuill`, `awaitArrivalFinal`, `pickLatestArrival` | the arrival last seen, the 3 min context, the ticker | list, choose, wait and poll, decide |
| duration quill | `cmd/gate-cli/duration_quill.go` | none | two lookups, two downloads per pack, compare |
| issue lifecycle | `cmd/gate-cli/issues.go` `EnsureBlockingIssue` | none of its own: the issues of the service's repository | find, create, comment, patch, close |
| issue scan | `issues.go` `findOpenIssue` | the page number | one request per page |
| sticky comment | `main.go` `postPRCommentAndCheck` | none of its own: the comments of the pull request | list, then patch or post |
| helmfile parser | `main.go` `parseHelmfile` | the documents read so far | the first document with releases, behind any that have none |
| rendering, paths | `main.go`, `issues.go`, `paths.go` | none | text |
| HTTP server | `cmd/server`, `internal/config`, `internal/db`, `internal/handlers`, `internal/middleware` | the exporter, the pool with its connections, the listener, requests in hand | start, readiness, signal, drain, deferred calls |
| Helm release | `charts/leartech-gate` | Deployment, migration hook | install, upgrade |

Outside the repository: the Kubernetes API with the Arrival resources, which
leartech-arrivals-observer creates and finalizes; the GitHub API with issues and
comments; Tekton, which may kill the step; people. They are modelled from how the
code uses them and marked `external` in the map.

How the parts meet. The run calls the quills with its 60 s context; the wait of the
post-deploy quill makes a context of its own. The merge in `main` copies some fields
of a quill's verdict. Comment and issues are written after the loop, one call after
another, with the 60 s context again, and their errors are only logged. Runs share no
memory; they meet on GitHub: both clusters' gates comment on the same pull requests
and manage issues in the same repositories, and two runs of one cluster may overlap
(two promotions, a retest).

What is hard here:

* two deadlines in one run, one of which goes on while the other is waited on;
* arrivals that change between two polls, several arrivals for one release;
* read, then act on what was read: find and create, list and patch, pages of a list
  that moves;
* pairs of calls of which the second fails or whose answer is lost, and answers that
  read like another (a 404 as "no issue");
* bounds: pages of issues, one page of comments, the two budgets;
* a verdict put together from two lists read at two times, and a baseline that is read
  in a third;
* the nested time-outs of the server's shutdown, and what a start that fails half way
  has already acquired;
* two clusters, and people, at work on the same objects.

What makes each part correct: the exit code stands for all releases and for what the
arrivals said when they were read; a release in flight gets its whole wait and the run
still ends; a run's word and its deeds agree, or it is silent; a cluster has one issue
and one comment, says there what its last verdict was, and touches nothing else; a
scan that answers "none" has read everything, or it is known what it may have
overlooked. A verdict on durations speaks of the packs
that were read. A server that is asked to stop answers what it has in hand, releases
what it holds and does not have to be killed, unless its pool keeps it waiting.

`PROJECT.json` lists every component and every hazard with its line and the
properties that cover it.

## 2. The modules

| Module | Models | Extends / uses |
|---|---|---|
| `Arrivals` | phases, and the choice among arrivals (`pickLatestArrival`) | |
| `GateRun` | one run of gate-cli beside a moving namespace, from the helmfile to the exit code | `Arrivals` |
| `GateRunProofs` | theorems about `GateRun`: its clock, its books, its silence | `GateRun`, TLAPS |
| `GateHistoryProofs` | and its verdicts, against the history of the arrivals | `GateRunProofs` |
| `Durations` | the duration quill behind the post-deploy quill, beside a moving namespace | `Arrivals` |
| `DurationsProofs` | theorems about `Durations` | `Durations`, TLAPS |
| `Pages` | the pages of a list of open issues that moves | |
| `PagesProofs` | lemmas about them | `Pages`, TLAPS |
| `IssueLifecycle` | `EnsureBlockingIssue`, call by call, its scan page by page, of several runs | `Pages`, instance of `BlockingIssue` |
| `BlockingIssue` | the promise: one flag per cluster, and what a look may overlook | |
| `IssueLifecycleProofs` | theorems about `IssueLifecycle`, and that it implements `BlockingIssue` | `IssueLifecycle`, `PagesProofs` |
| `IssueScan` | `findOpenIssue` by itself, among any opening and closing | `Pages` |
| `IssueScanProofs` | theorems about `IssueScan` | `IssueScan`, `PagesProofs` |
| `StickyComment` | `postPRCommentAndCheck` of several runs | |
| `StickyCommentProofs` | theorems about `StickyComment` | `StickyComment`, TLAPS |
| `Server` | one server process, its requests and the kubelet | |
| `ServerProofs` | theorems about `Server` | `Server`, TLAPS |
| `MC...` | the small instances for TLC | |

Operators whose comment begins with "Mutant" are variants of the operator below
them, with a slip one could make in that code. They appear in no specification; each
property is known to fail when its variant takes the place of the real operator.

### GateRun

One variable per variable of the program that outlives a call (`i` is the index of
both loops, `draft` is `merged`, `last` the snapshot of `awaitArrivalFinal`), `pc` for
the place in `main`, and the world: `now`, `arrivals`, `sticky` (what the comment says),
`blocked` (services with an open issue). One action per API call and outcome of it, or
per branch that calls nothing. `LookupDenied`, `LookupFails`, `LookupEmpty`,
`LookupFinal` and `LookupInFlight` are the branches of lines 476-505, the `Poll...` actions and
`WaitDone` those of lines 600-616. Listing and deciding are one action because nothing
but the listed copy is used in between.

Time is counted in polls of 10 s. `Tick` moves the clock before the run, in a wait, and
inside any call if calls may be slow; it never moves past the context of the call, as
client-go and net/http return then. The `select` of line 601 may take the tick or the
deadline when both are there: `PollNothing` and `WaitDone` are both enabled. The
observer deploys, finalizes and removes arrivals at any moment of the run. What the observer
is trusted with: `finalizedAt` is the time of finalizing, in a format that sorts, and is
missing only for skipped arrivals.

`Parse` is `parseHelmfile` over the documents of the file: `Releases` is the list of the
first document that has one, and a document before it that does not decode (`Garbled`)
fails the run. Nothing behind the list is read. A document without releases is `<<>>`,
so that a file without any list is a run over nothing, which passes, as in the code.

Abstracted: the 60 s and 3 min budgets to constants, reasons to a tag (`why`), the
issue lifecycle and the sticky comment to one step each, which the other modules open
up (`IssueEnsured` is the answer of a scan that has overlooked nothing; one that has
leaves the issue as `IssueFails` does, so `OutcomeIsPublished` speaks of runs
without either), the duration quill to its possible outcomes (it annotates and never decides, but
it spends the 60 s of the run; `Durations` has its inside), the
forensics suffix to nothing. Fields `arr`, `from` and `at` of a verdict record what it rests
on; nothing reads them but the properties.

### Pages, IssueLifecycle, BlockingIssue

`Pages` has the list that GitHub serves: a page is a window over the open numbers, newest
first, cut when it is served, and a page with room left is the last one.

`IssueLifecycle` has the issues and pull requests of one repository by number, and for each
run the call it makes next, the page its scan asks for, its verdict and the number it
found. The title prefix is `tag`, the body its marker and its `news`, all that a failing
verdict has to say. `Headline` is the part of the news that `bodyReasonMatches` and the
version check compare: version and reason. Two pieces of news may share a headline and
differ in the tests that failed; the body then stays as it was, and the properties promise
no more than the headline. Each call may fail without effect, or take effect and lose its
answer (`Called`, `CalledLast`); a killed run is a run whose next call fails.

`findOpenIssue` is one step per page: `FetchHit`, `FetchShort`, `FetchFull` and `Exhausted`
are the ways a page can end, `FetchMissing` is the 404 or 422 of line 385, which is read as
"no issue" on any page and whatever is open, and a list that fails or does not parse is
`CallFails`. So a scan may overlook an issue in two ways: its list is refused, or an issue
is closed between two of its pages and moves the rest towards the pages it has read. The
history variable `blind` says that the second may have happened to the scan under way, `stray` which
clusters have an open issue that was overlooked; it is emptied by a scan that finds none
when there is none. The properties except the strays and nothing else, so they show that
nothing else has that effect: not the pages and their bound, failed calls or lost answers.

People open pull requests under any title and issues under their own (`PersonFiles`), file
issues under the gate's title (`PersonTitles`: line 400 knows the gate's issues by it, so this
one is a stray of the cluster), close issues and edit them. They do not retitle
or reopen. A legacy issue may be open at the start.

`BlockingIssue` says what a service owner relies on: a report of a cluster leaves its
flag as the verdict wants it, at its end, and a report that claims success has done so. A
report looks first and may overlook a flag that is up: the cluster is in doubt then, flags may
stand beside the wanted one, and the doubt ends with a look when none is up. The
refinement maps the flags to the headlines of the cluster's open issues and the doubt to
`stray`, so the comments, the half-done pairs of calls and the lost answers must all be
stutters or `GiveUp`, and a scan a `Look` or nothing.

### IssueScan

The same scan by itself, in a repository where anything is opened and closed at any
moment. `born` and `began` remember the start of the scan for the properties. 404 and 422
end it as `missing`, which the caller cannot tell from `none`. It says more about the scan
than the lifecycle does: that what is found is the newest, and when the scan gives up.

### StickyComment

Comments by number, oldest first, with author (the marker) and what they say. Deleted
numbers stay used. `ListGarbled` is the ignored status and the ignored parse error of
lines 386-393; `misread` remembers it for one property.

### Durations

The quill of one release, call by call: `PostDeploy` (the arrival the other quill has just
decided on), `FindCurrent` and `FindPrior` (a list each, in any order, or an error, or the
empty list of a refused call), `FetchCurr` and `FetchPrev` (the two files of a pack),
`Compare`, `Decide`. The loops over lists are folds in the code's order with the code's
comparisons; the properties say the same without an order. The code divides floats; the
model compares the product, which gives the same answer for the natural numbers of
milliseconds that results.json holds. The observer deploys, finalizes and removes arrivals
until the second list has been read, after which nobody looks at them again. The packs of an
arrival are those it is deployed with.

### Server

`pc` is the place in `run` (`cmd/server/main.go`), from `config` to `exit`; `Unwind` is the place
the deferred calls continue at, so that every early return releases what there is.
`Listens` and `ListenFails` belong to the goroutine of line 170, which main does not wait for.
A request is a `handler`, whose time is the write deadline, or a readiness `ping`, which
holds a connection of the pool for at most the 2 s of `health.go`. The pool also builds connections
by itself, to keep `MinConns` of them (`pgx.go:28`), on a context of its own and for at most
the 30 s of `pgx.go:31` (`Connect`, `Connected`, `connecting`). The kubelet asks the process
to stop at any moment (`Stop`, by SIGTERM), because a probe failed (`ProbeFails`) or for reasons of
its own, and kills it when the grace period is over (`Forced`); a SIGTERM before `signal.Notify` also
ends it on the spot.

Time is counted in units of 5 s: 15 s for the drain (3), 5 s for the tracer (1), 30 s
for a connection (6), for a response (6) and for the grace period (6), and 2 s for a ping, rounded up (1).
`Tick` moves it while run waits for something and something can come of it (a request is in
hand, a connection is being built or a SIGTERM is out): steps that wait for nothing take no time. A request that takes longer
than its deadline is ended by it; `net/http` closes its connection at the write deadline, and
the model takes the handler to end with it.

`pool.Close` has no deadline. It finds no ping still out: it is called after a
drain that either saw every request end or lasted 15 s, in which every ping has reached
its own deadline (that needs `PingTimeout < ShutdownBudget`, an assumption of the module). But
a connection under construction it waits for (`ClosePool`), and with a database that does not
answer that may take longer than the 10 s which drain and flush leave of the grace period. So `StopsInTime`
and `EndsWithoutForce` do not say that the kubelet never kills; they say that nothing but that
wait makes it, and how long it has lasted then (`waited`, `Spare`). One connection stands for
those under construction at once: `Connect` restarts its time, as the youngest is the last to
be there.

## 3. The runs

| Run | Instance | Shows |
|---|---|---|
| `gate_quiet` | 2 services, one of them in 2 versions, 2 arrivals, 1 pack, budgets 2 and 3, arrivals may be removed; 2.0M states | the inductive `HistoryInv`, `KnownFailureBlocks`, `GraceIsUsed`, `OutcomeIsPublished` |
| `gate_faults` | 3 documents, the list of a blank entry and a service in the second, the third garbled, 2 arrivals, every fault, budgets 2 and 2; 1.5M states | `TypeOK`, the inductive `GateInv`, `GraceIsHonoured`, `RunIsBounded`, `RedIsEarned`, `ExitSpeaksForAll`, `SoleListIsGated` |
| `gate_flags` | all 16 sets of flags, 1 arrival, slow and failing calls; 64k states | `NoWordAfterDeadline`, and `RunEnds` under fairness |
| `issues_serial` | 2 clusters, 3 pieces of news under 2 headlines, 5 numbers, at most 3 pages of 1, 2 evaluations each, failed calls, lost answers and refused lists; 185k states | `TypeOK`, the inductive `IssueInv`, `OneOpenIssue`, `OutcomeIsTrue`, `KeepsPromise` (the refinement) |
| `issues_people` | 1 cluster, 1 piece of news, 3 numbers, at most 2 pages of 1, 3 evaluations, the same faults, and people who file, also under the gate's title, close and edit; 773k states | `CloseIsExplained`, `OutcomeIsTrue`, `OthersUntouched` |
| `scan_moving` | pages of 2, at most 2 pages, 5 numbers, issues opened and closed; 1.6M states | the inductive `ScanInv` (with `TypeOK`), `NoMiss`, `HitIsNewest`, `GivesUpOnlyWhenFull` |
| `sticky_comments` | 2 clusters, pages of 2, 4 comments, 2 evaluations each, all faults; 1.3M states | `TypeOK`, the inductive `StickyInv`, `OneStickyInView`, `PostedIsShown`, `CommentsApart` |
| `durations_moving` | 3 arrivals of 2 versions, 2 packs, files around the thresholds, failed and refused calls, removed arrivals; 3.4M states | `DurationInv`, `BaselineIsLatest`, `SameDeploymentOrLater`, `TellsWhatItRead`, `FlagsAreReal` |
| `server_drain` | 2 requests, the budgets above, every way to fail; 30.6k states | the inductive `ServerInv` (with `TypeOK`), `RequestsGetTheirTime`, `StopsInTime`, `NothingLeftOpen`, and `EndsWithoutForce` under fairness |

The other three runs (`passed_fails`, `issues_overlap`, `baseline_newer`) end in a violation
and are described under findings.

Why these bounds are enough. In the code the 60 s are 6 polls and the 3 min are 18; what
matters is that a wait can begin before, and end after, the end of the fast context, that
several polls fit in a wait, and that a second release comes after it. Budgets of 2
and 2 or 3 polls and two releases have all of that. Two arrivals are the least for a
choice, in the same or in different releases. For the issues, five numbers leave room for
every issue that four evaluations can create beside a legacy issue, and two evaluations
for create, then update or close. Pages of one issue make every repository with two
a list of several pages, with a border next to every issue; three pages are fewer than the
five issues, so the bound is met too. Among people one cluster is enough, as the others'
issues are what they file, and a third evaluation lets a run meet what was done to the
issue it created and updated. `issues_overlap` has the code's own page size and bound, so that
its trace owes nothing to small pages.
A page of 2 with 2 pages and 5 numbers is the least list that overflows its pages and is cut
in the middle. Three arrivals let a baseline be chosen among two while the current one is
redeployed; the files have tests that meet both thresholds exactly, one of them,
neither, a baseline of zero and a name that occurs twice. In the server the
budgets are to scale, and two requests are a ping and a handler, in hand at once or
one after the other; the theorems have any number. TLC's symmetry is used only
for arrivals, in runs without a liveness property.

`CHECK_DEADLOCK FALSE` is set where the runs use up the evaluations they may begin.

Fairness. `FairSpec` assumes that the gate takes its next step when it can (`WF(Gate)`: one
goroutine, calls bounded by a context) and that the clock runs (`WF(Tick)`). The observer
owes nothing: a run ends even if no arrival is ever finalized. The server's `FairSpec` assumes
that main and the goroutine of the listener run when they can, that the kubelet probes, delivers the
signal and kills when it has said it would, that time passes, and that a request whose
time is over ends (its context, or the write deadline). Clients owe nothing. The listener's
goroutine is a Go routine like main, and the probes are in the chart
(`templates/_probes.tpl`). The other modules have
no liveness property: their runs are finite sequences of calls, and what happens when one
does not return is a matter of the contexts, which `GateRun` has.

## 4. The proofs

`GateRunProofs` proves, for every helmfile, every set of arrivals, packs and flags, all
budgets in `Nat` and all faults, assuming `BudgetAssumption`, `InputAssumption` and
`BeforeAssumption` of `GateRun` (the types of the constants) and nothing else:

* `Invariance`: `Spec => []GateInv`
* `TypeCorrect`: `TypeOK`
* `ExitIsComplete`: `ExitSpeaksForAll`
* `GraceHolds`: `GraceIsHonoured`
* `BoundHolds`: `RunIsBounded`
* `SoleListHolds`: `SoleListIsGated`
* `SilenceHolds`: `NoWordAfterDeadline`

The argument. None of these is inductive alone. `RunIsBounded` bounds `now`, which
grows in a wait, so one must know that every wait began before the end of the fast
context: `Clock`. That a stuck verdict came after a whole wait needs the draft between
the wait and the list of verdicts: `Honest(draft)` in `Deadlines`. That the exit stands for
every release needs the tally of the loop, entry by entry, with `allPass` as the
conjunction of the verdicts: `Tally`, and `ReleaseInHand` for the two places where the
release in hand must be one that is not blank. That a run whose deadline failed a release stays silent
follows because such a verdict, or draft, exists only after the deadline, and
`CommentPosted` and `IssueEnsured` are calls of that context: `Deadlines` again. `GateInv` is the
conjunction; one lemma per conjunct shows that each action keeps it, and TLC checks it in
`gate_faults`. `SoleListHolds` adds the choice among the documents: `ExitIsComplete` speaks of the list
that was taken, and `SoleListIsTaken` shows that a file with one list has it taken. That there is
a first document with releases is the least-element principle of the library (`WFMin`).

`GateHistoryProofs` proves from the same assumptions what a verdict has to do with the arrivals:

* `HistoryInvariance`: `Spec => []HistoryInv`
* `FailureHolds`: `KnownFailureBlocks`
* `RedHolds`: `RedIsEarned`
* `GraceUsedHolds`: `GraceIsUsed`
* `PublishedHolds`: `OutcomeIsPublished`

The argument. A verdict was right when it was given, because `PickLatest` takes the arrival finalized last
(`PickIsLatest`, `DecidedGrounded`), and it stays right, because a final arrival does not change any more and
what is finalized later is finalized at a later time (`ArrivalLaw`, `GroundedStays`); so `Grounded` holds of
the draft and of every verdict in the list. In a wait all the polls so far could have shown is known
(`Waiting`): with an API that answers promptly the clock moves by one between two polls, so an arrival
that is final and not yet seen was finalized at the last poll or after it. What is published follows the walk
over the issues: behind it every service's issue is as the last verdict of the service wants it
(`Walked`, `LastWord`), and within the shared deadline nothing fails (`Published`). `HistoryInv` is the
conjunction with `GateInv`, on which each of its parts rests; TLC checks it in `gate_quiet`, where the API
is prompt and runs are unhindered.

`ServerProofs` proves, for every set of requests and all budgets, from `GraceAssumption` (a ping is
shorter than the drain and no longer than a response; drain and flush together are
shorter than the grace period):

* `ServerInvariance`: `Spec => []ServerInv`
* `ServerTypeCorrect`: `TypeOK`
* `RequestsHold`: `RequestsGetTheirTime`
* `StopsHold`: `StopsInTime`
* `NothingLeftOpenHolds`: `NothingLeftOpen`

The argument. How long a shutdown lasts is a sum of phases: `Budgets` bounds `grace` by what each
phase may take, where `drain` starts with the SIGTERM that `wait` was waiting for, and adds what
`pool.Close` has waited, which was taken from the time of the connection
(`waited + connecting <= ConnectTimeout`). A kill at the end of the grace period then leaves
only one phase to blame. That no
ping is out at `close` needs two things from the drain that timed out: every request in
hand is as old as the drain, because `Door` lets none in behind it, and the drain is longer than a
ping. That a request is cut off only after the whole drain needs `Remainder`, which carries the reason why
requests are still in hand from the drain to the exit. `Holdings` is what is acquired at
each place of `run`. One lemma per group of actions shows that it keeps the conjunction.

`PagesProofs` proves what the pages of a list have in common, for every page size and every finite list.
`Before(list, n)`, the number of entries newer than `n`, decides the page `n` is on, and grows with the
list (`BeforeGrows`). That a short page is the last one (`PageIsFull`), and that a full one has full
pages before it (`PagesAreFull`), are counting arguments: `Before` is one to one on the list
(`NewerIsBefore`) and leaves no value out (`NoGaps`, by the least-element principle), so a page can be
mapped one to one onto an interval of places.

`IssueLifecycleProofs` proves, for every set of clusters, runs, news, numbers and starts, every page size
and number of pages, for all that people may do and all faults, from `RunAssumption`,
`NewsAssumption`, `NoClusterAssumption`, `BoundAssumption` and `PageSizeAssumption` (the types of the constants):

* `IssueInvariance`: `Spec => []IssueInv`
* `IssuesTypeCorrect`: `TypeOK`
* `OneIssueHolds`: `OneOpenIssue`
* `OnePageOneIssue`: `OneIssuePerCluster`, where the repository's issues fit one page, no list is
  answered 404 or 422, nobody files under the gate's title, and runs of a cluster do not overlap
* `CloseHolds`: `CloseIsExplained`
* `OutcomeHolds`: `OutcomeIsTrue`
* `OthersHoldStill`: `OthersUntouched`
* `PromiseKept`: `KeepsPromise`, the refinement of `BlockingIssue`, where runs of a cluster do not
  overlap and people keep to issues and pull requests of their own

The argument. Whether runs overlap or not, a run works on an issue of its own cluster (`Owned`),
which gives `OthersUntouched`. The rest holds where no two runs share a cluster, because then the run in
hand is the only one that touches the cluster's issues. First the scan: while it is not blind, what it has
not read is behind the page it asks for next (`NotMissed`). Opened issues are newer and only push back
what is there, and a close makes the scan blind if it is past its first page (`StepSight`,
`PersonSight`, `StaysBehind`); what is not on the page just read is behind it (`BehindThePage`), and behind a
short page there is nothing (`NothingHidden`, by `PageIsFull`). So a scan that returns nil has overlooked nothing or
leaves its cluster to the strays (`NilScan`). Then the calls: what the run did not find is not
there until it has created it, unless it is a stray, and what it found is closed by nobody but a
person (`Held`); an issue it is about to close has the comment already (`Explained`); and what it has
reported stays so until its next report (`Told`). `OutcomeIsTrue` excepts the issues that people have
edited or closed; `Told` says the same with the edited ones in it, for without them it is not inductive. One
lemma says what each action does to an issue, another that a step leaves the runs of other clusters
alone, and the rest is one lemma per part.

For `PromiseKept`, each call is a step of the promise or a stutter (`StepKeeps`): beginning is `Report`, a page
that shows the issue, or the last one, is a `Look`, the call that creates, patches or closes the issue is
`Succeed`, or `GiveUp` when its answer is lost, a call that fails is `GiveUp`, and pages in between and comments
are stutters. A report that ends with its scan is a `Succeed`, which may look as well. What it needs
of the invariant is that every open issue has news to show and only the gate closes one (`Unmolested`), that
there is at most one but for strays (`OneOpenIssue`), found open (`Held`), and that a run under way has
not reported yet (`Busy`). The assumptions are those of the `issues_serial` run, which checks the same
refinement on a small instance.

`StickyCommentProofs` proves, for every set of runs and clusters, any page size and number of comments,
all that people may do and all faults, from `CommentAssumption`:

* `StickyInvariance`: `Spec => []StickyInv`
* `CommentsTypeCorrect`: `TypeOK`
* `StickyHolds`: `OneStickyInView`
* `PostedHolds`: `PostedIsShown`
* `ApartHolds`: `CommentsApart`

The argument. A run about to patch holds a comment of its cluster (`Owned`), overlap or not. Sticky needs
that what the list did not show stays out of view until the run has posted (`Unseen`): comments are added
behind the page, and while none is deleted none moves up. `PageShrinks` is the lemma about
cardinalities that this rests on. So the comment a run posts is the only one of its cluster in
view, whether it lands on the page or not.

`IssueScanProofs` proves, for every page size, every number of pages and any repository, from
`PageAssumption` and `PageSizeAssumption`:

* `ScanInvariance`: `Spec => []ScanInv`
* `NoMissHolds`: `NoMiss`
* `HitHolds`: `HitIsNewest`
* `FullHolds`: `GivesUpOnlyWhenFull`

The argument. Opening issues only lets `Before` grow, so what has not been read cannot slip in front of
the page to be read next: `NoneSlipped`, the part that makes `NoMiss` inductive. It speaks of runs in which
nothing was closed (`OnlyOpened`), and a close ends those for good (`CloseStep`). The rest is `PagesProofs`.

`DurationsProofs` proves, for any arrivals, packs, thresholds and clocks and whatever the files hold, from
`ThresholdAssumption`, `ArrivalAssumption` and `FileAssumption` (the types of the constants; the
arrivals are finitely many, and the observer assigns terminal phases):

* `DurationInvariance`: `Spec => []DurationInv`
* `BaselineHolds`: `BaselineIsLatest`
* `SameDeploymentHolds`: `SameDeploymentOrLater`
* `TellsHolds`: `TellsWhatItRead`
* `FlagsHold`: `FlagsAreReal`

The argument. The four loops of the quill are folds of the library, whose recursion is a `CHOOSE` of a
function that satisfies an equation. `FoldExists` shows that such a function exists, so the fold is one,
and at the sets `1..m` of positions it is the loop after `m` rounds (`LastCreatedRun`, `LastFinalizedRun`,
`PrevByNameRun`, `CompareRun`). From there an induction over the positions goes through: the induction
theorems of the library take an operator and cannot be used, but for one set at a time the least-element
principle gives the same (`Climb`). So `LastCreatedIsLast`, `LastFinalizedIsLast`, `PrevByNameIs` and
`CompareIs` say without an order what the loops find, `ListsAll` that a list has every arrival (a
one-to-one list as long as a set is onto), and `SlowIsRegressed` that the thresholds of the code are those of
a quotient. The invariant itself needs three things beyond the properties. That the deployment of the other
quill is still comparable needs that an arrival keeps its version and its creation once it was seen
(`SeenIsCreated`). That the verdict counts what was read needs the position of the pack in
hand (`Counted`), and that a return before the first download has read nothing is `Phased`. TLC checks
`DurationInv` in `durations_moving`.

Only model-checked: liveness (`RunEnds`, `EndsWithoutForce`), which is out of the prover's reach.

## 5. Findings

Each is a run that TLC ends with a trace.

* `passed_fails` The 60 s context (`main.go:142`) goes on while a release waits up to 3 min.
  The next release is then looked up with an expired context, and its verdict is
  "k8s list arrivals failed", although its arrival passed long ago. The comment at 571 says
  the wait is independent of the 60 s. The same context posts the comment (236) and the
  issues (250), so such a run also says nothing but its exit code: `NoWordAfterDeadline` is the
  good side of it, that no one is blamed for the gate's own deadline.
* `issues_overlap` Two overlapping runs of one cluster both create an issue, in spite of
  `issues.go:118`. Without overlap a second one needs an issue that was overlooked:
  `OneOpenIssue` and `OnePageOneIssue` are what holds.
* `baseline_newer` The baseline of the duration quill is "the most-recent finalized prior
  arrival" (`duration_quill.go:80`), but any other version counts (303): when a version is
  promoted behind a newer one in staging, it is compared with its successor.
  `BaselineIsLatest` is what holds.

Met on the way, without a run: `main.go:470` says that phases in flight fail at once,
which the wait of line 503 has changed; `issues.go:333` says the scan errs beyond 1000
issues where it errs at exactly 1000 as well; an issue closed between two pages of the
scan can hide another one (the condition `OnlyOpened` of `NoMiss` and the `blind` of
`OneOpenIssue` are needed); `issues.go:385` means a repository that does not exist, but
reads every 404 and 422 so, on a later page too: when GitHub answers one for a repository
with a blocking issue, a pass reports that there was nothing to do and leaves it open, and
a failing verdict opens a second one (`stray`); an issue
from before the cluster tags is never closed by a run that has a tag. `main.go:185-189` does
not copy `FailedPacks`, so that no comment and no issue body has the artifact links that
`main.go:76-79` promise. When the body of an issue cannot be patched after its comment
(`issues.go:190-195`), every run posts the same comment until it can, in spite of
`issues.go:130-131`; and a change in the failed tests alone leaves the body as it was, as
only reason and version are compared (`issues.go:181-184`). The list of comments is read
without a page (`main.go:375`): once the marker is beyond the first page, each run adds a
comment, in spite of `main.go:372`; `OneStickyInView` is what holds. The comment at
`internal/middleware/auth.go:24-28` wants `/health` to explain a refused configuration,
but `run` returns the error and main ends the process before it serves anything. A
listener that fails is only logged (`cmd/server/main.go:171-173`): the process lives
on without serving until a probe has it restarted (`EndsWithoutForce`). The time-outs of the
shutdown are within the grace period one by one, but `pool.Close` (`cmd/server/main.go:102`) has none:
while the pool builds a connection to a database that does not answer, for up to the 30 s of
`internal/db/pgx.go:31`, it waits, and the process may be killed before its traces are
flushed (`StopsInTime`).

## 6. Not modelled, and why

Rendering and URLs are text; what decides something is in the models. Of configuration and bearer
authentication `Server` has what they decide about a start; the check of a token is the
library's. The example, metrics and logging handlers have no state. Pipelines, preview and
end2end scripts are build configuration, `docs/docs.go` and `api/` generated. The Helm release is
declarative: the order of hook and rollout is Helm's, and migrations are disabled by
default (`migrations.enabled`). That its hook runs after the pods have begun to
roll, where the comment says before, is listed under the hazards.

## 7. Plan

Done: what decides about a merge (`Arrivals`, `GateRun`), what others see of it
(`IssueLifecycle` over `BlockingIssue` and `Pages`, `IssueScan`, `StickyComment`), the informational quill
(`Durations`) and the server; and the proofs of every safety and action property the passing runs
check, with the refinement of `BlockingIssue`. What is left:

1. `IssueLifecycle` with overlapping runs: what still holds then beside `OthersUntouched`.
2. `GateRun` with a scan that overlooks an issue as an outcome of `IssueEnsured` of its own.
