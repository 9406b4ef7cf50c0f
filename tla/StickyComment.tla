---------------------------- MODULE StickyComment ---------------------------
(***************************************************************************)
(* The gate's comments on one pull request (postPRCommentAndCheck of       *)
(* cmd/gate-cli/main.go): runs of several clusters look for the comment    *)
(* with their marker and replace it, or add one, while people comment and  *)
(* delete comments.  GitHub lists the oldest first, a page at a time, and  *)
(* the gate reads one page.                                                *)
(***************************************************************************)
EXTENDS Naturals, FiniteSets

CONSTANTS
  Runs,       \* gate runs that may be under way at the same time
  ClusterOf,  \* the cluster of each run, which its marker carries
  Person,     \* the author of comments without a marker
  PageSize,   \* comments on one page
  MaxNumber,  \* bound: comments ever on the pull request
  MaxStarts,  \* bound: comments one run slot sets out to post
  People,     \* what people do: a subset of {"comment", "delete"}
  Faults      \* what GitHub does: a subset of {"error", "lost", "garbled"}

ASSUME CommentAssumption ==
  /\ PageSize \in Nat \ {0} /\ MaxNumber \in Nat /\ MaxStarts \in Nat
  /\ \A g \in Runs : ClusterOf[g] # Person

VARIABLES
  comments,  \* the comments by number: absent, or their author and what they say
  pc,        \* the call each run makes next
  says,      \* the outcome each run has to tell
  existing,  \* existingID of each run, 0 for none
  posted,    \* whether the last call of each run succeeded
  starts,
  misread    \* history: clusters that were given a list they could not read

vars == <<comments, pc, says, existing, posted, starts, misread>>
-----------------------------------------------------------------------------
Numbers == 1..MaxNumber
Outcomes == {"green", "red"}

Absent == [state |-> "absent", by |-> Person, says |-> "none"]
There == {n \in Numbers : comments[n].state = "there"}

Free == {n \in Numbers : /\ comments[n].state = "absent"
                         /\ \A m \in 1..(n - 1) : comments[m].state # "absent"}

Put(n, by, s) ==
  comments' = [comments EXCEPT ![n] = [state |-> "there", by |-> by, says |-> s]]

FirstPage == {n \in There : Cardinality({m \in There : m < n}) < PageSize}

\* Mutant: the marker does not name the cluster.
MarkedAny(S, c) == {n \in S : comments[n].by # Person}

Marked(S, c) == {n \in S : comments[n].by = c}

Init ==
  /\ comments = [n \in Numbers |-> Absent]
  /\ pc = [g \in Runs |-> "idle"]
  /\ says = [g \in Runs |-> "none"]
  /\ existing = [g \in Runs |-> 0]
  /\ posted = [g \in Runs |-> FALSE]
  /\ starts = [g \in Runs |-> 0]
  /\ misread = {}

Begin(g, s) ==
  /\ pc[g] = "idle" /\ starts[g] < MaxStarts
  /\ starts' = [starts EXCEPT ![g] = @ + 1]
  /\ says' = [says EXCEPT ![g] = s]
  /\ posted' = [posted EXCEPT ![g] = FALSE]
  /\ pc' = [pc EXCEPT ![g] = "list"]
  /\ UNCHANGED <<comments, existing, misread>>

\* Mutant: the comment found is not kept.
ListHitForgetting(g) ==
  /\ pc[g] = "list"
  /\ Marked(FirstPage, ClusterOf[g]) # {}
  /\ pc' = [pc EXCEPT ![g] = "patch"]
  /\ UNCHANGED <<comments, says, existing, posted, starts, misread>>

ListHit(g) ==
  /\ pc[g] = "list"
  /\ \E n \in Marked(FirstPage, ClusterOf[g]) :
       /\ \A m \in Marked(FirstPage, ClusterOf[g]) : n <= m
       /\ existing' = [existing EXCEPT ![g] = n]
  /\ pc' = [pc EXCEPT ![g] = "patch"]
  /\ UNCHANGED <<comments, says, posted, starts, misread>>

\* Mutant: a comment is added whether there is one or not.
ListMissAlways(g) ==
  /\ pc[g] = "list"
  /\ existing' = [existing EXCEPT ![g] = 0]
  /\ pc' = [pc EXCEPT ![g] = "post"]
  /\ UNCHANGED <<comments, says, posted, starts, misread>>

\* No marker on the page.
ListMiss(g) ==
  /\ pc[g] = "list"
  /\ Marked(FirstPage, ClusterOf[g]) = {}
  /\ existing' = [existing EXCEPT ![g] = 0]
  /\ pc' = [pc EXCEPT ![g] = "post"]
  /\ UNCHANGED <<comments, says, posted, starts, misread>>

\* An answer with an error status, or one that does not parse, has no comments in it.
ListGarbled(g) ==
  /\ "garbled" \in Faults
  /\ pc[g] = "list"
  /\ existing' = [existing EXCEPT ![g] = 0]
  /\ pc' = [pc EXCEPT ![g] = "post"]
  /\ misread' = misread \cup {ClusterOf[g]}
  /\ UNCHANGED <<comments, says, posted, starts>>

Finish(g, ok) ==
  /\ pc' = [pc EXCEPT ![g] = "idle"]
  /\ posted' = [posted EXCEPT ![g] = ok]
  /\ UNCHANGED <<says, existing, starts, misread>>

\* A call that took effect; its answer may be lost.
Done(g) == \E ok \in {TRUE} \cup {b \in {FALSE} : "lost" \in Faults} : Finish(g, ok)

Patch(g) ==
  /\ pc[g] = "patch" /\ existing[g] \in There
  /\ comments' = [comments EXCEPT ![existing[g]].says = says[g]]
  /\ Done(g)

\* The comment was deleted after the list was read.
PatchGone(g) ==
  /\ pc[g] = "patch" /\ existing[g] \notin There
  /\ UNCHANGED comments
  /\ Finish(g, FALSE)

Post(g) ==
  /\ pc[g] = "post"
  /\ \E n \in Free : Put(n, ClusterOf[g], says[g])
  /\ Done(g)

\* Mutant: the status of the answer is not looked at.
CallFailsUnchecked(g) ==
  /\ "error" \in Faults
  /\ pc[g] # "idle"
  /\ UNCHANGED comments
  /\ Finish(g, TRUE)

CallFails(g) ==
  /\ "error" \in Faults
  /\ pc[g] # "idle"
  /\ UNCHANGED comments
  /\ Finish(g, FALSE)

PersonComments ==
  /\ "comment" \in People
  /\ \E n \in Free : Put(n, Person, "none")
  /\ UNCHANGED <<pc, says, existing, posted, starts, misread>>

PersonDeletes(n) ==
  /\ "delete" \in People
  /\ n \in There
  /\ comments' = [comments EXCEPT ![n].state = "deleted"]
  /\ UNCHANGED <<pc, says, existing, posted, starts, misread>>

Step(g) ==
  \/ \E s \in Outcomes : Begin(g, s)
  \/ ListHit(g) \/ ListMiss(g) \/ ListGarbled(g)
  \/ Patch(g) \/ PatchGone(g) \/ Post(g) \/ CallFails(g)

Next ==
  \/ \E g \in Runs : Step(g)
  \/ PersonComments
  \/ \E n \in Numbers : PersonDeletes(n)

Spec == Init /\ [][Next]_vars
-----------------------------------------------------------------------------
\* The values of the state; a run about to patch holds a comment of its cluster.
TypeOK ==
  /\ comments \in [Numbers -> [state : {"absent", "there", "deleted"},
                               by : {ClusterOf[g] : g \in Runs} \cup {Person},
                               says : Outcomes \cup {"none"}]]
  /\ pc \in [Runs -> {"idle", "list", "patch", "post"}]
  /\ says \in [Runs -> Outcomes \cup {"none"}]
  /\ existing \in [Runs -> 0..MaxNumber]
  /\ posted \in [Runs -> BOOLEAN]
  /\ starts \in [Runs -> 0..MaxStarts]
  /\ misread \subseteq {ClusterOf[g] : g \in Runs}
  /\ \A g \in Runs : pc[g] = "patch" => existing[g] # 0

OneRunPerCluster == \A g, h \in Runs : ClusterOf[g] = ClusterOf[h] => g = h

NoneDeleted == \A n \in Numbers : comments[n].state # "deleted"

\* Clusters keep to their own comment: a run of the gate rewrites no comment of a
\* person or of another cluster, whatever is deleted under its feet.
CommentsApart ==
  [][\A g \in Runs : Step(g) =>
       \A n \in There : comments'[n] # comments[n] => comments[n].by = ClusterOf[g]]_vars

OneInView(g) ==
  NoneDeleted /\ ClusterOf[g] \notin misread =>
    \A m, n \in Marked(FirstPage, ClusterOf[g]) : m = n

Shown(g) ==
  pc[g] = "idle" /\ posted[g] =>
    \E n \in Numbers : /\ comments[n].state # "absent"
                       /\ comments[n].by = ClusterOf[g]
                       /\ comments[n].says = says[g]

\* Sticky: on the page the gate reads there is one comment of a cluster at most, as
\* long as its runs do not overlap and could read their lists and no comment is
\* deleted, however many people write and whatever calls fail or lose their answers.
OneStickyInView == OneRunPerCluster => \A g \in Runs : OneInView(g)

\* A run that reported success has its outcome in a comment of its cluster, unless
\* somebody deletes that one: no other run overwrites it.
PostedIsShown == OneRunPerCluster => \A g \in Runs : Shown(g)
-----------------------------------------------------------------------------
(* Why: the parts of the inductive invariant *)

\* What a run is about to patch is a comment of its cluster.
Owned(g) ==
  pc[g] = "patch" =>
    comments[existing[g]].state # "absent" /\ comments[existing[g]].by = ClusterOf[g]

\* What the list did not show does not come into view before the run has posted: comments
\* are only added behind the page.
Unseen(g) ==
  pc[g] = "post" /\ NoneDeleted /\ ClusterOf[g] \notin misread =>
    Marked(FirstPage, ClusterOf[g]) = {}

\* The invariant that the proofs go by.
StickyInv ==
  /\ TypeOK /\ \A g \in Runs : Owned(g)
  /\ OneRunPerCluster => \A g \in Runs : Unseen(g)
  /\ OneStickyInView /\ PostedIsShown
=============================================================================
