------------------------------ MODULE GateRun -------------------------------
(***************************************************************************)
(* One run of cmd/gate-cli against a staging namespace that keeps moving:  *)
(* the observer creates and finalizes Arrivals while the gate evaluates    *)
(* one release after another, publishes a sticky PR comment, walks the     *)
(* blocking issues and exits.                                              *)
(*                                                                         *)
(* Two deadlines shape the run.  Every API call of the run shares one      *)
(* context of FastBudget; the wait for an in-flight arrival has a context  *)
(* of its own, of WaitBudget.  The unit of time is one poll interval.      *)
(***************************************************************************)
EXTENDS Arrivals, Sequences

CONSTANTS
  Documents,    \* the helmfile: the releases of each of its YAML documents
  Garbled,      \* a document that does not decode
  Ids,          \* Arrivals the observer may ever create
  Packs,        \* names of test packs
  Outcomes,     \* terminal phases the observer assigns
  Options,      \* the sets of flags the gate may be started with
  StickyBefore, \* what the sticky comment may say before the run
  BlockedBefore,\* the sets of services that may have an open issue before it
  Faults,       \* what the surroundings may do to the run
  Start,        \* when the run starts
  FastBudget,   \* 60 seconds
  WaitBudget    \* arrivalWaitBudget

ASSUME BudgetAssumption ==
  /\ Start \in Nat \ {0}
  /\ FastBudget \in Nat
  /\ WaitBudget \in Nat

ASSUME InputAssumption ==
  /\ Documents \in Seq(Seq([name : STRING, version : STRING]) \cup {Garbled})
  /\ Options \subseteq SUBSET {"postDeploy", "duration", "dryRun", "issues"}
  /\ Outcomes \subseteq Terminal
  /\ StickyBefore \subseteq {"none", "green", "red"}
  /\ Faults \subseteq {"slow", "error", "denied", "setup", "removal", "kill"}

VARIABLES
  pc,        \* where the gate is
  opts,      \* the flags in force
  client,    \* dynClient # nil
  i,         \* the release, then the verdict, in hand
  draft,     \* merged: the verdict being put together
  verdict,   \* verdicts, by index of the release
  allPass,
  waitFrom,  \* when the current wait began
  due,       \* a tick of the poll ticker is pending
  last,      \* the arrival last seen, as it was when it was read
  now,
  arrivals,
  sticky,    \* what the gate's comment on the pull request says
  blocked,   \* services with an open blocking issue
  exit

gate == <<pc, opts, client, i, draft, verdict, allPass, waitFrom, due, last, exit>>
world == <<now, arrivals, sticky, blocked>>
vars == <<gate, world>>
-----------------------------------------------------------------------------
\* parseHelmfile takes the first document that lists a release, and reads no further;
\* one that does not decode on the way there is an error.
Chosen == {d \in DOMAIN Documents :
             Documents[d] # <<>> /\ \A e \in 1..(d - 1) : Documents[e] = <<>>}
ListDocument == CHOOSE d \in Chosen : TRUE
Undecodable == Chosen # {} /\ Documents[ListDocument] = Garbled

\* Mutant: only the first document is read.
FirstReleases ==
  IF Documents # <<>> /\ Documents[1] # Garbled THEN Documents[1] ELSE <<>>

Releases == IF Chosen # {} /\ ~Undecodable THEN Documents[ListDocument] ELSE <<>>

N == Len(Releases)
Key(k) == <<Releases[k].name, Releases[k].version>>
Blank(k) == Releases[k].name = "" \/ Releases[k].version = ""
Keys == {Key(k) : k \in {j \in 1..N : ~Blank(j)}}
Services == {Releases[k].name : k \in {j \in 1..N : ~Blank(j)}}

ASSUME BeforeAssumption == BlockedBefore \subseteq SUBSET Services

Unused == [of |-> <<"", "">>, phase |-> "Testing", created |-> Unset,
           finalizedAt |-> Unset, bad |-> {}, listed |-> FALSE]

\* The answer to a List with the label selector of release k.
Listed(k) == {a \in Ids : arrivals[a].listed /\ arrivals[a].of = Key(k)}

FastEnd == Start + FastBudget
Expired == now >= FastEnd
\* Mutant: the wait shares the deadline of the fast calls.
SharedWaitEnd == IF FastEnd < waitFrom + WaitBudget THEN FastEnd ELSE waitFrom + WaitBudget

WaitEnd == waitFrom + WaitBudget
WaitOver == now >= WaitEnd

NoVerdict == [pass |-> TRUE, why |-> "none", arr |-> Unused,
              failedTests |-> {}, failedPacks |-> {}, from |-> 0, at |-> 0,
              layer1 |-> "off"]

Verdict(pass, why, arr, from) ==
  [pass |-> pass, why |-> why, arr |-> arr, failedTests |-> {}, failedPacks |-> {},
   from |-> from, at |-> now, layer1 |-> "off"]

\* The phase switch of evaluatePostDeployQuill for the arrival rec, read at a
\* time when the evaluation had begun at from.
Decided(rec, from) ==
  IF Blocking(rec.phase)
  THEN [Verdict(FALSE, rec.phase, rec, from) EXCEPT
          !.failedTests = rec.bad, !.failedPacks = rec.bad]
  ELSE IF InFlight(rec.phase)
  THEN Verdict(FALSE, "NotFinalized", rec, from)
  ELSE Verdict(TRUE, rec.phase, rec, from)

\* What main keeps of the quill's verdict pd: it copies MissingTests and
\* FailedTests of a failing one, and not FailedPacks.
Merged(pd) == [pd EXCEPT !.failedPacks = {}]

Init ==
  /\ pc = "start"
  /\ opts \in Options
  /\ client = FALSE
  /\ i = 1
  /\ draft = NoVerdict
  /\ verdict = [k \in 1..N |-> NoVerdict]
  /\ allPass = TRUE
  /\ waitFrom = 0
  /\ due = FALSE
  /\ last = Unused
  /\ now = 1
  /\ arrivals = [a \in Ids |-> Unused]
  /\ sticky \in StickyBefore
  /\ blocked \in BlockedBefore
  /\ exit = "running"
-----------------------------------------------------------------------------
(* main, up to the loop *)

\* The helmfile is read and the shared context created.
Parse ==
  /\ pc = "start" /\ now = Start /\ ~Undecodable
  /\ pc' = IF "postDeploy" \in opts THEN "client" ELSE "release"
  /\ UNCHANGED <<opts, client, i, draft, verdict, allPass, waitFrom, due, last, exit, world>>

ParseFails ==
  /\ "setup" \in Faults \/ Undecodable
  /\ pc = "start" /\ now = Start
  /\ pc' = "done"
  /\ exit' = "unparsed"
  /\ UNCHANGED <<opts, client, i, draft, verdict, allPass, waitFrom, due, last, world>>

BuildClient ==
  /\ pc = "client"
  /\ client' = TRUE
  /\ pc' = "release"
  /\ UNCHANGED <<opts, i, draft, verdict, allPass, waitFrom, due, last, exit, world>>

\* Best effort: the quill is switched off and the run goes on.
BuildClientFails ==
  /\ "setup" \in Faults
  /\ pc = "client"
  /\ opts' = opts \ {"postDeploy"}
  /\ pc' = "release"
  /\ UNCHANGED <<client, i, draft, verdict, allPass, waitFrom, due, last, exit, world>>
-----------------------------------------------------------------------------
(* the loop over the releases, with evaluatePostDeployQuill *)

Quill == "postDeploy" \in opts /\ client

SkipBlank ==
  /\ pc = "release" /\ i <= N /\ Blank(i)
  /\ i' = i + 1
  /\ UNCHANGED <<pc, opts, client, draft, verdict, allPass, waitFrom, due, last, exit, world>>

Draft(v) ==
  /\ draft' = v
  /\ pc' = "append"
  /\ waitFrom' = 0
  /\ due' = FALSE
  /\ last' = Unused
  /\ UNCHANGED <<opts, client, i, verdict, allPass, exit, world>>

NoQuill ==
  /\ pc = "release" /\ i <= N /\ ~Blank(i) /\ ~Quill
  /\ Draft(Verdict(TRUE, "no quills enabled", Unused, now))

Looking == pc = "release" /\ i <= N /\ ~Blank(i) /\ Quill

\* NotFound and Forbidden pass the release.
LookupDenied ==
  /\ "denied" \in Faults
  /\ Looking /\ ~Expired
  /\ Draft(Merged(Verdict(TRUE, "lookup skipped", Unused, now)))

\* Mutant: a failed lookup goes on to the next release.
LookupFailsSkipping ==
  /\ Looking
  /\ Expired \/ "error" \in Faults
  /\ i' = i + 1
  /\ UNCHANGED <<pc, opts, client, draft, verdict, allPass, waitFrom, due, last, exit, world>>

\* Any other error fails it, the end of the shared context included.
LookupFails ==
  /\ Looking
  /\ Expired \/ "error" \in Faults
  /\ Draft(Merged(Verdict(FALSE, IF Expired THEN "deadline" ELSE "api error", Unused, now)))

LookupEmpty ==
  /\ Looking /\ ~Expired
  /\ Listed(i) = {}
  /\ Draft(Merged(Verdict(TRUE, "no arrival", Unused, now)))

LookupFinal ==
  /\ Looking /\ ~Expired
  /\ \E a \in PickLatest(arrivals, Listed(i)) :
       /\ ~InFlight(arrivals[a].phase)
       /\ Draft(Merged(Decided(arrivals[a], now)))

\* Mutant: the list is read outside the shared context.
LookupInFlightLate ==
  /\ Looking
  /\ \E a \in PickLatest(arrivals, Listed(i)) :
       /\ InFlight(arrivals[a].phase)
       /\ last' = arrivals[a]
  /\ pc' = "await"
  /\ waitFrom' = now
  /\ due' = FALSE
  /\ UNCHANGED <<opts, client, i, draft, verdict, allPass, exit, world>>

\* An in-flight arrival: start to wait, on a context and a ticker of its own.
LookupInFlight ==
  /\ Looking /\ ~Expired
  /\ \E a \in PickLatest(arrivals, Listed(i)) :
       /\ InFlight(arrivals[a].phase)
       /\ last' = arrivals[a]
  /\ pc' = "await"
  /\ waitFrom' = now
  /\ due' = FALSE
  /\ UNCHANGED <<opts, client, i, draft, verdict, allPass, exit, world>>

(* awaitArrivalFinal *)

Polling == pc = "await" /\ due

PollFinal ==
  /\ Polling /\ ~WaitOver
  /\ \E a \in PickLatest(arrivals, Listed(i)) :
       /\ ~InFlight(arrivals[a].phase)
       /\ Draft(Merged(Decided(arrivals[a], waitFrom)))

\* Mutant: every poll starts the budget anew.
PollInFlightRestarting ==
  /\ Polling /\ ~WaitOver
  /\ \E a \in PickLatest(arrivals, Listed(i)) :
       /\ InFlight(arrivals[a].phase)
       /\ last' = arrivals[a]
  /\ due' = FALSE
  /\ waitFrom' = now
  /\ UNCHANGED <<pc, opts, client, i, draft, verdict, allPass, exit, world>>

PollInFlight ==
  /\ Polling /\ ~WaitOver
  /\ \E a \in PickLatest(arrivals, Listed(i)) :
       /\ InFlight(arrivals[a].phase)
       /\ last' = arrivals[a]
  /\ due' = FALSE
  /\ UNCHANGED <<pc, opts, client, i, draft, verdict, allPass, waitFrom, exit, world>>

\* An error or an empty list: continue with what was seen before.
PollNothing ==
  /\ Polling
  /\ WaitOver \/ "error" \in Faults \/ "denied" \in Faults \/ Listed(i) = {}
  /\ due' = FALSE
  /\ UNCHANGED <<pc, opts, client, i, draft, verdict, allPass, waitFrom, last, exit, world>>

\* The budget is spent: decide on the arrival last seen, as it was then.
WaitDone ==
  /\ pc = "await" /\ WaitOver
  /\ Draft(Merged(Decided(last, waitFrom)))
-----------------------------------------------------------------------------
\* evaluateDurationRegressionQuill reads through the shared context, and every
\* error in it passes.
Layer1Outcomes ==
  IF "duration" \notin opts \/ ~client THEN {"off"}
  ELSE IF Expired THEN {"pass"}
  ELSE {"pass", "regressed"}

\* Mutant: the last verdict decides.
AppendLastWins ==
  /\ pc = "append"
  /\ \E l \in Layer1Outcomes :
       verdict' = [verdict EXCEPT ![i] = [draft EXCEPT !.layer1 = l]]
  /\ allPass' = draft.pass
  /\ draft' = NoVerdict
  /\ i' = i + 1
  /\ pc' = "release"
  /\ UNCHANGED <<opts, client, waitFrom, due, last, exit, world>>

\* The end of the loop's body: layer 1 annotates the verdict, which joins the
\* others and allPass.
AppendVerdict ==
  /\ pc = "append"
  /\ \E l \in Layer1Outcomes :
       verdict' = [verdict EXCEPT ![i] = [draft EXCEPT !.layer1 = l]]
  /\ allPass' = (allPass /\ draft.pass)
  /\ draft' = NoVerdict
  /\ i' = i + 1
  /\ pc' = "release"
  /\ UNCHANGED <<opts, client, waitFrom, due, last, exit, world>>

Render ==
  /\ pc = "release" /\ i > N
  /\ pc' = IF "dryRun" \in opts THEN "exit" ELSE "comment"
  /\ UNCHANGED <<opts, client, i, draft, verdict, allPass, waitFrom, due, last, exit, world>>

(* the PR comment and the issues *)

Colour == IF allPass THEN "green" ELSE "red"

AfterComment ==
  /\ pc' = IF "issues" \in opts THEN "issues" ELSE "exit"
  /\ i' = 1

\* Mutant: the comment goes out on a context of its own.
CommentPostedLate ==
  /\ pc = "comment"
  /\ sticky' = Colour
  /\ AfterComment
  /\ UNCHANGED <<opts, client, draft, verdict, allPass, waitFrom, due, last, exit,
                 now, arrivals, blocked>>

CommentPosted ==
  /\ pc = "comment" /\ ~Expired
  /\ sticky' = Colour
  /\ AfterComment
  /\ UNCHANGED <<opts, client, draft, verdict, allPass, waitFrom, due, last, exit,
                 now, arrivals, blocked>>

\* Non-fatal.
CommentFails ==
  /\ pc = "comment"
  /\ Expired \/ "error" \in Faults
  /\ AfterComment
  /\ UNCHANGED <<opts, client, draft, verdict, allPass, waitFrom, due, last, exit, world>>

\* NewIssueClient finds no token.
IssueClientFails ==
  /\ "setup" \in Faults
  /\ pc = "issues" /\ i = 1
  /\ pc' = "exit"
  /\ UNCHANGED <<opts, client, i, draft, verdict, allPass, waitFrom, due, last, exit, world>>

NextIssue ==
  /\ i' = i + 1
  /\ UNCHANGED <<opts, client, draft, verdict, allPass, waitFrom, due, last, exit,
                 now, arrivals, sticky>>

\* Mutant: one failing release blocks every service.
IssueEnsuredForAll ==
  /\ pc = "issues" /\ i <= N /\ ~Blank(i) /\ ~Expired
  /\ blocked' = IF allPass THEN blocked \ {Releases[i].name}
                           ELSE blocked \cup {Releases[i].name}
  /\ pc' = pc
  /\ NextIssue

\* EnsureBlockingIssue: the issue of the service is open iff its verdict fails.
\* A lost answer to a call that took effect is this action too; a scan that overlooks the
\* issue (see IssueLifecycle) leaves blocked as IssueFails does, or sets it as here.
IssueEnsured ==
  /\ pc = "issues" /\ i <= N /\ ~Blank(i) /\ ~Expired
  /\ blocked' = IF verdict[i].pass THEN blocked \ {Releases[i].name}
                                   ELSE blocked \cup {Releases[i].name}
  /\ pc' = pc
  /\ NextIssue

\* Mutant: the walk runs past the last verdict.
IssueFailsPastEnd ==
  /\ pc = "issues" /\ i <= N + 1
  /\ i > N \/ Expired \/ "error" \in Faults
  /\ UNCHANGED <<pc, blocked>>
  /\ NextIssue

\* Mutant: a failed call is tried again.
IssueFailsRetrying ==
  /\ pc = "issues" /\ i <= N
  /\ Blank(i) \/ Expired \/ "error" \in Faults
  /\ i' = IF Blank(i) THEN i + 1 ELSE i
  /\ UNCHANGED <<pc, opts, client, draft, verdict, allPass, waitFrom, due, last, exit, world>>

IssueFails ==
  /\ pc = "issues" /\ i <= N
  /\ Blank(i) \/ Expired \/ "error" \in Faults
  /\ UNCHANGED <<pc, blocked>>
  /\ NextIssue

IssuesDone ==
  /\ pc = "issues" /\ i > N
  /\ pc' = "exit"
  /\ UNCHANGED <<opts, client, i, draft, verdict, allPass, waitFrom, due, last, exit, world>>

Exit ==
  /\ pc = "exit"
  /\ pc' = "done"
  /\ exit' = IF allPass THEN "pass" ELSE "fail"
  /\ UNCHANGED <<opts, client, i, draft, verdict, allPass, waitFrom, due, last, world>>

Killed ==
  /\ "kill" \in Faults
  /\ pc \notin {"start", "done"}
  /\ pc' = "done"
  /\ exit' = "killed"
  /\ UNCHANGED <<opts, client, i, draft, verdict, allPass, waitFrom, due, last, world>>
-----------------------------------------------------------------------------
(* the observer, the namespace and the clock *)

Deploy(a, key) ==
  /\ pc # "done" /\ arrivals[a] = Unused
  /\ arrivals' = [arrivals EXCEPT ![a] =
                    [Unused EXCEPT !.of = key, !.created = now, !.listed = TRUE]]
  /\ UNCHANGED <<gate, now, sticky, blocked>>

\* Only a skipped arrival may go without a finalizedAt; only a failed or
\* timed-out one names packs.
Finalize(a, phase, bad, at) ==
  /\ pc # "done" /\ arrivals[a].listed /\ InFlight(arrivals[a].phase)
  /\ bad = {} \/ Blocking(phase)
  /\ at = now \/ (at = Unset /\ phase = "Skipped")
  /\ arrivals' = [arrivals EXCEPT ![a].phase = phase, ![a].bad = bad,
                                  ![a].finalizedAt = at]
  /\ UNCHANGED <<gate, now, sticky, blocked>>

Remove(a) ==
  /\ "removal" \in Faults
  /\ pc # "done" /\ arrivals[a].listed
  /\ arrivals' = [arrivals EXCEPT ![a].listed = FALSE]
  /\ UNCHANGED <<gate, now, sticky, blocked>>

\* Time passes before the run, in a wait, and in a slow call.  No call outlives
\* its context, and without slow calls a pending tick is served at once.
TimeMayPass ==
  \/ pc = "start" /\ now < Start
  \/ pc = "await" /\ now < WaitEnd /\ (~due \/ "slow" \in Faults)
  \/ pc \in {"client", "release", "append", "comment", "issues"}
       /\ ~Expired /\ "slow" \in Faults

Tick ==
  /\ TimeMayPass
  /\ now' = now + 1
  /\ due' = (pc = "await")
  /\ UNCHANGED <<pc, opts, client, i, draft, verdict, allPass, waitFrom, last, exit,
                 arrivals, sticky, blocked>>

Setup == Parse \/ ParseFails \/ BuildClient \/ BuildClientFails
Evaluate ==
  \/ SkipBlank \/ NoQuill \/ LookupDenied \/ LookupFails \/ LookupEmpty
  \/ LookupFinal \/ LookupInFlight
  \/ PollFinal \/ PollInFlight \/ PollNothing \/ WaitDone \/ AppendVerdict
Publish ==
  \/ Render \/ CommentPosted \/ CommentFails
  \/ IssueClientFails \/ IssueEnsured \/ IssueFails \/ IssuesDone \/ Exit
Gate == Setup \/ Evaluate \/ Publish

Observer ==
  \E a \in Ids :
    \/ \E key \in Keys : Deploy(a, key)
    \/ \E phase \in Outcomes, bad \in SUBSET Packs, at \in {now, Unset} :
         Finalize(a, phase, bad, at)
    \/ Remove(a)

Finished == pc = "done" /\ UNCHANGED vars

Next == Gate \/ Killed \/ Observer \/ Tick \/ Finished

Spec == Init /\ [][Next]_vars

\* The process is scheduled and the clock runs; nothing is asked of the observer.
FairSpec == Spec /\ WF_vars(Gate) /\ WF_vars(Tick)
-----------------------------------------------------------------------------
Evaluated(k) == verdict[k].why # "none"

Arrival == [of : Keys \cup {<<"", "">>}, phase : Phases, created : Nat,
            finalizedAt : Nat, bad : SUBSET Packs, listed : BOOLEAN]

Whys == {"none", "no quills enabled", "lookup skipped", "deadline", "api error",
         "no arrival", "NotFinalized"} \cup Terminal

VerdictType == [pass : BOOLEAN, why : Whys, arr : Arrival,
                failedTests : SUBSET Packs, failedPacks : SUBSET Packs,
                from : Nat, at : Nat, layer1 : {"off", "pass", "regressed"}]

\* The values the state of a run and of its surroundings may take.
TypeOK ==
  /\ pc \in {"start", "client", "release", "await", "append", "comment", "issues",
             "exit", "done"}
  /\ opts \in SUBSET {"postDeploy", "duration", "dryRun", "issues"}
  /\ client \in BOOLEAN
  /\ i \in 1..(N + 1)
  /\ draft \in VerdictType
  /\ verdict \in [1..N -> VerdictType]
  /\ allPass \in BOOLEAN
  /\ waitFrom \in Nat
  /\ due \in BOOLEAN
  /\ last \in Arrival
  /\ now \in Nat
  /\ arrivals \in [Ids -> Arrival]
  /\ sticky \in {"none", "green", "red"}
  /\ blocked \in SUBSET Services
  /\ exit \in {"running", "pass", "fail", "unparsed", "killed"}

\* The exit code that lets Lighthouse merge a promotion speaks for every release
\* of the helmfile that has a name and a version: 0 iff each of them has a verdict
\* and none of the verdicts is a failure.
ExitSpeaksForAll ==
  exit \in {"pass", "fail"} =>
    /\ \A k \in 1..N : ~Blank(k) => Evaluated(k)
    /\ exit = "pass" <=> \A k \in 1..N : verdict[k].pass

\* Every failure of the release on record before v was given has been made good by an
\* arrival that finalized well at that time or later.
FailuresOverruled(v, key) ==
  \A b \in Ids :
    /\ arrivals[b].listed /\ arrivals[b].of = key /\ Blocking(arrivals[b].phase)
    /\ arrivals[b].finalizedAt < v.at
    => \E a \in Ids : /\ arrivals[a].of = key
                      /\ arrivals[a].phase \in {"Passed", "Skipped"}
                      /\ arrivals[a].finalizedAt >= arrivals[b].finalizedAt

\* A failure on record blocks.  If the gate went green although a listed arrival of
\* a release had failed before the gate decided on it, another arrival of the same
\* release had finalized well at that time or later; the quill being off and the
\* gate being refused the list are the exceptions the code makes.
KnownFailureBlocks ==
  exit = "pass" =>
    \A k \in 1..N :
      ~Blank(k) /\ verdict[k].why \notin {"no quills enabled", "lookup skipped"} =>
        FailuresOverruled(verdict[k], Key(k))

Earned(v, key) ==
  \/ v.why \in {"deadline", "api error"}
  \/ v.why = "NotFinalized" /\ InFlight(v.arr.phase)
  \/ /\ Blocking(v.why)
     /\ \E a \in Ids : /\ arrivals[a].of = key
                       /\ arrivals[a].phase = v.why
                       /\ arrivals[a].finalizedAt = v.arr.finalizedAt
     /\ \A a \in Ids :
          arrivals[a].listed /\ arrivals[a].of = key =>
            ~(v.arr.finalizedAt < arrivals[a].finalizedAt
                /\ arrivals[a].finalizedAt < v.at)

\* A red verdict that names a phase rests on an arrival that really ended so, and
\* no newer result of the release was there to be read; one that says "not
\* finalized" rests on an arrival in flight; layer 1 is never a reason.
RedIsEarned == \A k \in 1..N : ~verdict[k].pass => Earned(verdict[k], Key(k))

\* "Not finalized within 3m" is said only after 3m: the shared deadline does not cut
\* the wait of an arrival in flight short.
GraceIsHonoured ==
  \A k \in 1..N :
    verdict[k].why = "NotFinalized" => verdict[k].at >= verdict[k].from + WaitBudget

\* Nothing of the release was there to be read in the poll before v was given.
NoneFinalized(v, key) ==
  ~\E a \in Ids : /\ arrivals[a].listed /\ arrivals[a].of = key
                  /\ arrivals[a].finalizedAt # Unset
                  /\ arrivals[a].finalizedAt + 1 < v.at

Prompt == Faults \cap {"slow", "error", "denied"} = {}

\* The wait is worth its time: with an API that answers promptly, no release is called
\* not finalized while one of its arrivals had finalized before the last poll.
GraceIsUsed ==
  Prompt =>
    \A k \in 1..N : verdict[k].why = "NotFinalized" => NoneFinalized(verdict[k], Key(k))

\* However many releases are in flight, a run takes no longer than the two budgets
\* together: a wait only starts while the shared context lasts.
RunIsBounded == now <= FastEnd + WaitBudget

\* A run that fails a release because its own time was up stays silent about it: it
\* neither comments nor opens or closes an issue from then on.  A dry run never does.
NoWordAfterDeadline ==
  [][(\E k \in 1..N : verdict[k].why = "deadline") \/ "dryRun" \in opts
       => UNCHANGED <<sticky, blocked>>]_vars

\* Among the first n releases the last one of its service, of as many versions as are listed.
LastOfService(k, n) ==
  ~Blank(k) /\ \A j \in (k + 1)..n : Releases[j].name = Releases[k].name => Blank(j)

Walked(n) ==
  \A k \in 1..n :
    LastOfService(k, n) => (Releases[k].name \in blocked <=> ~verdict[k].pass)

Unhindered ==
  now < FastEnd /\ "dryRun" \notin opts /\ Faults \cap {"error", "setup"} = {}

\* A run that ends within the shared deadline, unhindered, leaves its outcome in the
\* sticky comment, and every service with a blocking issue iff its release fails; of a
\* service that is listed twice (main.go walks the verdicts in order), the later release
\* has the last word, although both count for the exit code.
OutcomeIsPublished ==
  exit \in {"pass", "fail"} /\ Unhindered =>
    sticky = Colour /\ ("issues" \in opts => Walked(N))

\* Wherever in the helmfile the one list of releases stands (parseHelmfile: sandbox
\* layout, or behind an environments document), no run goes green past a release of it.
SoleListIsGated ==
  exit = "pass" =>
    \A d \in DOMAIN Documents :
      LET list == Documents[d] IN
      /\ list \notin {<<>>, Garbled}
      /\ \A e \in DOMAIN Documents \ {d} : Documents[e] \in {<<>>, Garbled}
      => \A r \in {list[k] : k \in DOMAIN list} :
           r.name = "" \/ r.version = ""
             \/ \E k \in 1..N : Releases[k] = r /\ Evaluated(k) /\ verdict[k].pass

\* A run that started ends, whatever the observer and the API do.
RunEnds == (pc = "release") ~> (pc = "done")
-----------------------------------------------------------------------------
(* Why the run keeps its bounds and its word: the parts of the inductive invariant *)

\* A release is in hand from its lookup to its verdict.
ReleaseInHand == pc \in {"await", "append"} => i \in 1..N /\ ~Blank(i)

\* A wait starts while the shared context lasts, and all else ends with it.
Clock ==
  /\ pc = "start" => now <= Start
  /\ pc = "await" => waitFrom <= now /\ waitFrom < FastEnd /\ now <= WaitEnd
  /\ RunIsBounded

\* The loop has a verdict for every release behind it, and for no other.
Tally ==
  /\ pc \in {"start", "client", "release", "await", "append"} =>
       \A k \in 1..N : IF k < i /\ ~Blank(k) THEN Evaluated(k) ELSE verdict[k] = NoVerdict
  /\ pc = "append" => draft.why # "none"
  /\ pc \in {"comment", "issues", "exit"} \/ exit \in {"pass", "fail"} =>
       \A k \in 1..N : ~Blank(k) => Evaluated(k)
  /\ allPass <=> \A k \in 1..N : verdict[k].pass
  /\ exit \in {"pass", "fail"} => pc = "done" /\ (exit = "pass" <=> allPass)

\* A verdict that the deadline decided is given after it, and the stuck one after a
\* whole wait; the draft is no different.
Honest(v) ==
  /\ v.why = "deadline" => Expired /\ pc # "start"
  /\ v.why = "NotFinalized" => v.at >= v.from + WaitBudget

Deadlines ==
  /\ Honest(draft)
  /\ \A k \in 1..N : Honest(verdict[k])
  /\ "dryRun" \in opts => pc \notin {"comment", "issues"}

\* The invariant that the proofs go by.
GateInv == TypeOK /\ ReleaseInHand /\ Clock /\ Tally /\ Deadlines
-----------------------------------------------------------------------------
(* Why the verdicts agree with the arrivals, and the surroundings with the verdicts *)

\* An arrival is finalized once, with a time that is not ahead of the clock.
ArrivalLaw ==
  /\ now # Unset
  /\ \A a \in Ids :
       LET r == arrivals[a] IN
       /\ r.finalizedAt <= now
       /\ r.finalizedAt # Unset => ~InFlight(r.phase)
       /\ Blocking(r.phase) => r.finalizedAt # Unset

\* A verdict agrees with the arrivals its release had when it was given; what is finalized
\* later is finalized at a later time.
Grounded(v, key) ==
  /\ v.at <= now
  /\ v.pass /\ v.why \notin {"none", "no quills enabled", "lookup skipped"} =>
       FailuresOverruled(v, key)
  /\ ~v.pass => Earned(v, key)
  /\ Prompt /\ v.why = "NotFinalized" => NoneFinalized(v, key)

Verdicts ==
  /\ pc = "append" => Grounded(draft, Key(i))
  /\ \A k \in 1..N : Grounded(verdict[k], Key(k))

\* A wait has seen an arrival in flight, and all that the polls so far could have shown.
Waiting ==
  pc = "await" =>
    /\ InFlight(last.phase)
    /\ Prompt =>
         \A a \in Ids :
           /\ arrivals[a].listed /\ arrivals[a].of = Key(i)
           /\ arrivals[a].finalizedAt # Unset
           => /\ arrivals[a].finalizedAt + 1 >= now
              /\ due \/ WaitOver \/ arrivals[a].finalizedAt >= now

\* The comment is there before the walk over the issues, and they behind the walk.
Published ==
  Unhindered =>
    /\ pc \in {"issues", "exit"} \/ exit \in {"pass", "fail"} => sticky = Colour
    /\ pc = "issues" => Walked(i - 1)
    /\ (pc = "exit" \/ exit \in {"pass", "fail"}) /\ "issues" \in opts => Walked(N)

\* The whole invariant, with the history of the arrivals.
HistoryInv == GateInv /\ ArrivalLaw /\ Verdicts /\ Waiting /\ Published
-----------------------------------------------------------------------------
(* What comments of the source say, and the code does not do *)

\* "phase=Passed -> pass": a release whose only arrival had passed before the run
\* began is not failed, if every call of the run is answered at once.
PassedMeansPass ==
  Faults = {} =>
    \A k \in 1..N :
      (/\ Evaluated(k)
       /\ \E a \in Ids : /\ arrivals[a].of = Key(k) /\ arrivals[a].phase = "Passed"
                         /\ arrivals[a].finalizedAt < Start
       /\ \A a \in Ids : arrivals[a].of = Key(k) => arrivals[a].phase = "Passed")
      => verdict[k].pass
=============================================================================
