--------------------------- MODULE IssueLifecycle ---------------------------
(***************************************************************************)
(* The blocking issues of one service repository (cmd/gate-cli/issues.go): *)
(* gate runs of several clusters walk EnsureBlockingIssue call by call,    *)
(* findOpenIssue page by page, next to people who file, close and edit     *)
(* issues of the same repository.  Each call to GitHub may fail, or take   *)
(* effect and lose its answer, and a list may be answered 404 or 422; a    *)
(* run that is killed stops at such a call too.                            *)
(*                                                                         *)
(* A verdict is Pass, or the news of a failing one: all its body shows.    *)
(* Its headline, the version and the reason, is what bodies are compared   *)
(* by; the tests that failed and the links are not in it.                  *)
(***************************************************************************)
EXTENDS Pages, Sequences

CONSTANTS
  Clusters,   \* cluster tags, which the title prefix and the body marker carry
  Legacy,     \* the empty tag of runs from before the tags
  Runs,       \* gate runs that may be under way at the same time
  ClusterOf,  \* the cluster of each run
  News,       \* what failing verdicts say
  Headline,   \* the version and the reason of each
  Pass,       \* the passing verdict
  Nothing,    \* no cluster, no news
  MaxPages,   \* maxIssuePages
  MaxNumber,  \* bound: issues and pull requests ever in the repository
  MaxStarts,  \* bound: evaluations by one run
  People,     \* what people do: a subset of {"file", "title", "close", "edit"}, of
              \* which "title" is to file an issue under the gate's own title
  Faults      \* what GitHub does: a subset of {"error", "lost", "missing"}, of
              \* which "missing" is the 404 or 422 for a list of issues

ASSUME RunAssumption ==
  /\ ClusterOf \in [Runs -> Clusters]
  /\ Legacy \in Clusters

ASSUME NewsAssumption ==
  /\ Pass \notin News /\ Nothing \notin News \cup {Pass}
  /\ \A n \in News : Headline[n] # Nothing

ASSUME NoClusterAssumption == Nothing \notin Clusters

ASSUME BoundAssumption ==
  MaxPages \in Nat \ {0} /\ MaxNumber \in Nat \ {0} /\ MaxStarts \in Nat

VARIABLES
  issues,    \* the repository's issues and pull requests, by number
  pc,        \* the call each run makes next
  page,      \* the page its scan asks for next, 1 outside a scan
  verdict,   \* the verdict each run reports
  existing,  \* the number its findOpenIssue returned, 0 for nil
  outcome,   \* what EnsureBlockingIssue last returned to each run
  starts,    \* evaluations each run has begun
  blind,     \* history: an issue was closed when the run's scan was past its first page
  stray      \* history: the clusters with an open issue that a scan overlooked, by a
             \* refused list or blind, or that a person filed under the gate's title

history == <<blind, stray>>
vars == <<issues, pc, page, verdict, existing, outcome, starts, history>>
-----------------------------------------------------------------------------
Numbers == 1..MaxNumber

NoBody == [marker |-> Nothing, news |-> Nothing]
NoIssue == [state |-> "absent", tag |-> Nothing, pr |-> FALSE, body |-> NoBody,
            comments |-> <<>>]

Body(c, n) == [marker |-> c, news |-> n]

\* A new issue or pull request gets the next number.
Free == {n \in Numbers : /\ issues[n].state = "absent"
                         /\ \A m \in 1..(n - 1) : issues[m].state # "absent"}

\* Filing is also what a person does.
Filed(n, tag, pr, body) ==
  issues' = [issues EXCEPT ![n] = [NoIssue EXCEPT !.state = "open", !.tag = tag,
                                                  !.pr = pr, !.body = body]]

\* Mutant: pull requests are not told apart.
MatchingWithPulls(c) == {n \in Numbers : issues[n].state = "open" /\ issues[n].tag = c}

\* Open issues whose title starts with titlePrefixFor of the cluster c.
Matching(c) == {n \in Numbers : /\ issues[n].state = "open"
                                /\ ~issues[n].pr
                                /\ issues[n].tag = c}

\* The list of open issues has the pull requests in it.
Shown == {n \in Numbers : issues[n].state = "open"}

\* Those of its cluster that a run reads on the page it asks for.
Fetched(g) == Matching(ClusterOf[g]) \cap OnPage(Shown, page[g])

\* Mutant: any body of the gate's is up to date.
UpToDateByMarker(body, c, news) == body.marker \in {c, Legacy}

\* The body has the verdict's version and reason: nothing to update.
UpToDate(body, c, news) ==
  body.marker \in {c, Legacy} /\ Headline[body.news] = Headline[news]

\* An issue of a run from before the cluster tags may still be open.
Init ==
  /\ \/ issues = [n \in Numbers |-> NoIssue]
     \/ \E m \in News :
          issues = [n \in Numbers |->
                     IF n = 1 THEN [NoIssue EXCEPT !.state = "open", !.tag = Legacy,
                                                   !.body = Body(Legacy, m)]
                              ELSE NoIssue]
  /\ pc = [g \in Runs |-> "idle"]
  /\ page = [g \in Runs |-> 1]
  /\ verdict = [g \in Runs |-> Pass]
  /\ existing = [g \in Runs |-> 0]
  /\ outcome = [g \in Runs |-> "none"]
  /\ starts = [g \in Runs |-> 0]
  /\ blind = [g \in Runs |-> FALSE]
  /\ stray = {}
-----------------------------------------------------------------------------
Goto(g, l) == pc' = [pc EXCEPT ![g] = l] /\ UNCHANGED outcome

Return(g, o) ==
  /\ pc' = [pc EXCEPT ![g] = "idle"]
  /\ outcome' = [outcome EXCEPT ![g] = o]

Errored(g, fault) == fault \in Faults /\ Return(g, "errored")

Begin(g, v) ==
  /\ pc[g] = "idle" /\ starts[g] < MaxStarts
  /\ starts' = [starts EXCEPT ![g] = @ + 1]
  /\ verdict' = [verdict EXCEPT ![g] = v]
  /\ outcome' = [outcome EXCEPT ![g] = "none"]
  /\ pc' = [pc EXCEPT ![g] = "find"]
  /\ UNCHANGED <<issues, page, existing, history>>

(* findOpenIssue *)

\* The scan is over.
Scanned(g) ==
  /\ page' = [page EXCEPT ![g] = 1]
  /\ blind' = [blind EXCEPT ![g] = FALSE]

\* Closing an issue moves the older ones towards the pages that were read.
Closes(n) ==
  blind' = [g \in Runs |-> blind[g] \/ (issues[n].state = "open" /\ page[g] > 1)]

\* Mutant: the number found is not kept.
FetchHitForgetting(g) ==
  /\ pc[g] = "find"
  /\ \E n \in Newest(Fetched(g)) :
       IF verdict[g] = Pass THEN Goto(g, "comment-on-close")
       ELSE IF UpToDate(issues[n].body, ClusterOf[g], verdict[g]) THEN Return(g, "noop")
       ELSE Goto(g, "update-comment")
  /\ Scanned(g)
  /\ UNCHANGED <<issues, verdict, existing, starts, stray>>

\* Mutant: an issue is closed without a word.
FetchHitClosing(g) ==
  /\ pc[g] = "find"
  /\ \E n \in Newest(Fetched(g)) :
       /\ existing' = [existing EXCEPT ![g] = n]
       /\ IF verdict[g] = Pass THEN Goto(g, "close")
          ELSE IF UpToDate(issues[n].body, ClusterOf[g], verdict[g]) THEN Return(g, "noop")
          ELSE Goto(g, "update-comment")
  /\ Scanned(g)
  /\ UNCHANGED <<issues, verdict, starts, stray>>

\* The first match on the page is the existing issue.
FetchHit(g) ==
  /\ pc[g] = "find"
  /\ \E n \in Newest(Fetched(g)) :
       /\ existing' = [existing EXCEPT ![g] = n]
       /\ IF verdict[g] = Pass THEN Goto(g, "comment-on-close")
          ELSE IF UpToDate(issues[n].body, ClusterOf[g], verdict[g]) THEN Return(g, "noop")
          ELSE Goto(g, "update-comment")
  /\ Scanned(g)
  /\ UNCHANGED <<issues, verdict, starts, stray>>

\* The scan returns nil: there is no issue, or it was overlooked.
NotFound(g, excused) ==
  /\ existing' = [existing EXCEPT ![g] = 0]
  /\ IF verdict[g] = Pass THEN Return(g, "noop") ELSE Goto(g, "create")
  /\ stray' = IF Matching(ClusterOf[g]) = {} THEN stray \ {ClusterOf[g]}
              ELSE IF excused THEN stray \cup {ClusterOf[g]} ELSE stray
  /\ Scanned(g)
  /\ UNCHANGED <<issues, verdict, starts>>

\* Mutant: only one page is read.
FetchOnePage(g) ==
  /\ pc[g] = "find" /\ Fetched(g) = {}
  /\ NotFound(g, blind[g])

\* A short page is the last one.
FetchShort(g) ==
  /\ pc[g] = "find" /\ Fetched(g) = {} /\ Short(Shown, page[g])
  /\ NotFound(g, blind[g])

FetchFull(g) ==
  /\ pc[g] = "find" /\ Fetched(g) = {} /\ ~Short(Shown, page[g])
  /\ page[g] < MaxPages
  /\ page' = [page EXCEPT ![g] = @ + 1]
  /\ UNCHANGED <<issues, pc, verdict, existing, outcome, starts, history>>

\* The bounded scan is used up.
Exhausted(g) ==
  /\ pc[g] = "find" /\ Fetched(g) = {} /\ ~Short(Shown, page[g])
  /\ page[g] = MaxPages
  /\ Return(g, "errored") /\ Scanned(g)
  /\ UNCHANGED <<issues, verdict, existing, starts, stray>>

\* A 404 or a 422, on any page, is read as a repository without the issue.
FetchMissing(g) ==
  /\ pc[g] = "find" /\ "missing" \in Faults
  /\ NotFound(g, TRUE)
-----------------------------------------------------------------------------
(* and what follows from its answer *)

\* A call that takes effect: its answer arrives, or is lost.
Called(g, l) == Goto(g, l) \/ Errored(g, "lost")
CalledLast(g, o) == Return(g, o) \/ Errored(g, "lost")

commentOnIssue(n, text) == issues' = [issues EXCEPT ![n].comments = Append(@, text)]
patchIssueBody(n, body) == issues' = [issues EXCEPT ![n].body = body]

\* Closing what somebody else has closed changes nothing.
closeIssue(n) == issues' = [issues EXCEPT ![n].state = IF @ = "open" THEN "resolved" ELSE @]

CommentOnClose(g) ==
  /\ pc[g] = "comment-on-close"
  /\ commentOnIssue(existing[g], Pass)
  /\ Called(g, "close")
  /\ UNCHANGED <<page, verdict, existing, starts, history>>

CloseIssue(g) ==
  /\ pc[g] = "close"
  /\ closeIssue(existing[g]) /\ Closes(existing[g])
  /\ CalledLast(g, "closed")
  /\ UNCHANGED <<page, verdict, existing, starts, stray>>

createIssue(tag, body) == \E n \in Free : Filed(n, tag, FALSE, body)

CreateIssue(g) ==
  /\ pc[g] = "create"
  /\ createIssue(ClusterOf[g], Body(ClusterOf[g], verdict[g]))
  /\ CalledLast(g, "created")
  /\ UNCHANGED <<page, verdict, existing, starts, history>>

\* Mutant: the comment is taken for the update.
UpdateCommentOnly(g) ==
  /\ pc[g] = "update-comment"
  /\ commentOnIssue(existing[g], verdict[g])
  /\ CalledLast(g, "updated")
  /\ UNCHANGED <<page, verdict, existing, starts, history>>

UpdateComment(g) ==
  /\ pc[g] = "update-comment"
  /\ commentOnIssue(existing[g], verdict[g])
  /\ Called(g, "patch-body")
  /\ UNCHANGED <<page, verdict, existing, starts, history>>

PatchBody(g) ==
  /\ pc[g] = "patch-body"
  /\ patchIssueBody(existing[g], Body(ClusterOf[g], verdict[g]))
  /\ CalledLast(g, "updated")
  /\ UNCHANGED <<page, verdict, existing, starts, history>>

\* Any call may fail, or the run be killed before it.
CallFails(g) ==
  /\ pc[g] # "idle"
  /\ Errored(g, "error") /\ Scanned(g)
  /\ UNCHANGED <<issues, verdict, existing, starts, stray>>
-----------------------------------------------------------------------------

\* People file issues of their own, and pull requests under any title.
PersonFiles(n, tag, pr) ==
  /\ "file" \in People
  /\ pr \/ tag = Nothing
  /\ n \in Free
  /\ Filed(n, tag, pr, NoBody)
  /\ UNCHANGED <<pc, page, verdict, existing, outcome, starts, history>>

\* An issue is known by its title alone, so that this one is the gate's.
PersonTitles(n, c) ==
  /\ "title" \in People
  /\ n \in Free
  /\ Filed(n, c, FALSE, NoBody)
  /\ stray' = stray \cup {c}
  /\ UNCHANGED <<pc, page, verdict, existing, outcome, starts, blind>>

PersonCloses(n) ==
  /\ "close" \in People
  /\ issues[n].state = "open"
  /\ issues' = [issues EXCEPT ![n].state = "closed"]
  /\ Closes(n)
  /\ UNCHANGED <<pc, page, verdict, existing, outcome, starts, stray>>

PersonEdits(n) ==
  /\ "edit" \in People
  /\ issues[n].state = "open" /\ issues[n].body # NoBody
  /\ issues' = [issues EXCEPT ![n].body = NoBody]
  /\ UNCHANGED <<pc, page, verdict, existing, outcome, starts, history>>

Step(g) ==
  \/ \E v \in News \cup {Pass} : Begin(g, v)
  \/ FetchHit(g) \/ FetchShort(g) \/ FetchFull(g) \/ Exhausted(g) \/ FetchMissing(g)
  \/ CommentOnClose(g) \/ CloseIssue(g) \/ CreateIssue(g)
  \/ UpdateComment(g) \/ PatchBody(g) \/ CallFails(g)

Person ==
  \E n \in Numbers :
    \/ \E tag \in Clusters \cup {Nothing}, pr \in BOOLEAN : PersonFiles(n, tag, pr)
    \/ \E c \in Clusters : PersonTitles(n, c)
    \/ PersonCloses(n) \/ PersonEdits(n)

Next == (\E g \in Runs : Step(g)) \/ Person

Spec == Init /\ [][Next]_vars
-----------------------------------------------------------------------------
Issue == [state : {"absent", "open", "resolved", "closed"},
          tag : Clusters \cup {Nothing}, pr : BOOLEAN,
          body : [marker : Clusters \cup {Nothing}, news : News \cup {Nothing}],
          comments : Seq(News \cup {Pass})]

Calls == {"idle", "find", "comment-on-close", "close", "create", "update-comment",
          "patch-body"}

\* The values of the state; a run that works on an existing issue holds its number, and
\* one outside a scan no page.
TypeOK ==
  /\ issues \in [Numbers -> Issue]
  /\ pc \in [Runs -> Calls]
  /\ page \in [Runs -> 1..MaxPages]
  /\ verdict \in [Runs -> News \cup {Pass}]
  /\ existing \in [Runs -> 0..MaxNumber]
  /\ outcome \in [Runs -> {"none", "noop", "created", "updated", "closed", "errored"}]
  /\ starts \in [Runs -> Nat]
  /\ blind \in [Runs -> BOOLEAN] /\ stray \subseteq Clusters
  /\ \A g \in Runs :
       /\ pc[g] # "find" => page[g] = 1 /\ ~blind[g]
       /\ pc[g] \in {"comment-on-close", "close", "update-comment", "patch-body"}
            => existing[g] # 0
       /\ pc[g] \in {"comment-on-close", "close"} => verdict[g] = Pass
       /\ pc[g] \in {"create", "update-comment", "patch-body"} => verdict[g] # Pass

\* Clusters do not share a run, so each manages its issues one run at a time.
OneRunPerCluster == \A g, h \in Runs : ClusterOf[g] = ClusterOf[h] => g = h

\* "One issue per service per repo PER CLUSTER": if the runs of a cluster do not
\* overlap, the repository has two open gate issues of one cluster only after a scan
\* overlooked the first, because its list was answered 404 or 422 or an issue was closed
\* between two of its pages, or after a person filed one.  The pages, the bound, failed
\* calls and lost answers bring about no second one.
OneOpenIssue ==
  OneRunPerCluster =>
    \A c \in Clusters \ stray : \A m, n \in Matching(c) : m = n

\* Nobody but the gate has closed an issue of the cluster, or edited an open one.
LeftAlone(c) ==
  \A n \in Numbers :
    issues[n].tag = c /\ ~issues[n].pr =>
      issues[n].state # "closed" /\ issues[n].body # NoBody

\* What EnsureBlockingIssue reports is so: unless it returned an error, a pass leaves
\* no open issue of its cluster, but for one that a scan has overlooked, and a failure one
\* whose body has its version and reason (not always its tests: a body with the same
\* headline is left as it is), if the cluster's runs do not overlap and people leave its
\* issues alone.
OutcomeIsTrue ==
  OneRunPerCluster =>
    \A g \in Runs :
      LeftAlone(ClusterOf[g]) /\ pc[g] = "idle" /\ outcome[g] \notin {"none", "errored"} =>
        IF verdict[g] = Pass
        THEN ClusterOf[g] \in stray \/ Matching(ClusterOf[g]) = {}
        ELSE \E n \in Matching(ClusterOf[g]) :
               Headline[issues[n].body.news] = Headline[verdict[g]]

\* An issue the gate has closed says why: its last comment, but for those of runs that
\* overlap, names the pass that resolved it.
CloseIsExplained ==
  OneRunPerCluster =>
    \A n \in Numbers :
      issues[n].state = "resolved" =>
        /\ issues[n].comments # <<>>
        /\ issues[n].comments[Len(issues[n].comments)] = Pass

\* A run touches no pull request, no issue under a title of its own and none of another
\* cluster: what it does to an issue other than filing it, it does to one whose title is
\* its cluster's.
OthersUntouched ==
  [][\A g \in Runs : Step(g) =>
       \A n \in Numbers :
         issues[n].state # "absent" /\ issues'[n] # issues[n] =>
           ~issues[n].pr /\ issues[n].tag = ClusterOf[g]]_vars

\* The promise of module BlockingIssue: the flags of a cluster are the headlines of
\* its open issues.
FlagsOf(c) == {Headline[issues[n].body.news] : n \in Matching(c)}

ReportOf(c) ==
  IF \E g \in Runs : ClusterOf[g] = c /\ pc[g] # "idle"
  THEN verdict[CHOOSE g \in Runs : ClusterOf[g] = c /\ pc[g] # "idle"]
  ELSE Nothing

LastOf(c) ==
  IF \E g \in Runs : ClusterOf[g] = c
  THEN verdict[CHOOSE g \in Runs : ClusterOf[g] = c]
  ELSE Pass

ToldOf(c) == \E g \in Runs : ClusterOf[g] = c /\ outcome[g] \notin {"none", "errored"}

Promise == INSTANCE BlockingIssue WITH
  flags <- [c \in Clusters |-> FlagsOf(c)],
  report <- [c \in Clusters |-> ReportOf(c)],
  last <- [c \in Clusters |-> LastOf(c)],
  told <- [c \in Clusters |-> ToldOf(c)],
  doubt <- stray

\* With one run per cluster and people who keep to issues and pull requests of their own,
\* the lifecycle, call by call and page by page, implements the promise, whatever calls
\* fail or lose their answers; the clusters in doubt are those of which a scan has
\* overlooked an issue.
KeepsPromise == Promise!Spec
-----------------------------------------------------------------------------
(* Why: the parts of the inductive invariant *)

AtWork == {"comment-on-close", "close", "update-comment", "patch-body"}

\* A run works on an issue of its cluster.
Owned(g) ==
  pc[g] \in AtWork =>
    LET x == issues[existing[g]] IN x.state # "absent" /\ ~x.pr /\ x.tag = ClusterOf[g]

\* What a scan has not read yet stands behind the page it asks for next, unless it is
\* blind: what else is opened and closed moves no issue of the cluster in front of it.
NotMissed(g) ==
  pc[g] = "find" /\ ~blind[g] /\ ClusterOf[g] \notin stray =>
    \A m \in Matching(ClusterOf[g]) : Before(Shown, m) >= (page[g] - 1) * PageSize

\* It was found open, and nobody but a person has closed it since; and nobody else files
\* the issue that was not found.
Held(g) ==
  /\ pc[g] \in AtWork => issues[existing[g]].state \in {"open", "closed"}
  /\ pc[g] = "create" /\ ClusterOf[g] \notin stray => Matching(ClusterOf[g]) = {}

LastIsPass(n) ==
  issues[n].comments # <<>> /\ issues[n].comments[Len(issues[n].comments)] = Pass

Explained(g) == pc[g] = "close" => LastIsPass(existing[g])

NoneClosed(c) ==
  \A n \in Numbers : issues[n].tag = c /\ ~issues[n].pr => issues[n].state # "closed"

\* What OutcomeIsTrue comes from: an edit by a person only takes the body from it.
Told(g) ==
  NoneClosed(ClusterOf[g]) /\ pc[g] = "idle" /\ outcome[g] \notin {"none", "errored"} =>
    IF verdict[g] = Pass
    THEN ClusterOf[g] \in stray \/ Matching(ClusterOf[g]) = {}
    ELSE \E n \in Matching(ClusterOf[g]) :
           issues[n].body = NoBody \/ Headline[issues[n].body.news] = Headline[verdict[g]]

\* A run under way has not reported yet.
Busy(g) == pc[g] # "idle" => outcome[g] = "none"

\* With people who keep to their own, only the gate closes its issues, and every open one
\* shows its news.
Unmolested ==
  People \subseteq {"file"} =>
    \A n \in Numbers :
      issues[n].tag # Nothing /\ ~issues[n].pr =>
        /\ issues[n].state # "closed"
        /\ issues[n].state = "open" => issues[n].body.news \in News

\* The invariant that the proofs go by.
IssueInv ==
  /\ TypeOK /\ Unmolested /\ \A g \in Runs : Owned(g) /\ Busy(g)
  /\ OneRunPerCluster =>
       /\ \A g \in Runs : NotMissed(g) /\ Held(g) /\ Explained(g) /\ Told(g)
       /\ OneOpenIssue /\ CloseIsExplained
-----------------------------------------------------------------------------
(* What comments of the source say, and the code does not do *)

\* "One issue per service per repo PER CLUSTER", with no word on overlapping runs.
OneIssuePerCluster == \A c \in Clusters : \A m, n \in Matching(c) : m = n
=============================================================================
