------------------------ MODULE IssueLifecycleProofs -------------------------
(***************************************************************************)
(* Proofs about IssueLifecycle, for any clusters, runs, news, people and   *)
(* faults, and any number of issues and evaluations.                       *)
(***************************************************************************)
EXTENDS IssueLifecycle, PagesProofs, SequenceTheorems

Bodies == [marker : Clusters \cup {Nothing}, news : News \cup {Nothing}]
Typed == issues \in [Numbers -> Issue]

\* An issue that does not exist yet, and an empty body.
LEMMA NoIssueType == NoIssue \in Issue /\ NoBody \in Bodies
  BY DEF NoIssue, NoBody, Issue, Bodies

\* Body makes bodies.
LEMMA BodyType ==
  ASSUME NEW c \in Clusters, NEW m \in News PROVE Body(c, m) \in Bodies
  BY DEF Body, Bodies

\* What changes when an issue or a pull request is filed.
LEMMA FiledEffect ==
  ASSUME Typed, NEW n \in Numbers, NEW tag \in Clusters \cup {Nothing}, NEW pr \in BOOLEAN,
         NEW body \in Bodies, Filed(n, tag, pr, body)
  PROVE  /\ Typed'
         /\ \A m \in Numbers : m # n => issues'[m] = issues[m]
         /\ issues'[n].state = "open" /\ issues'[n].tag = tag /\ issues'[n].pr = pr
         /\ issues'[n].body = body /\ issues'[n].comments = <<>>
  <1> DEFINE new == [NoIssue EXCEPT !.state = "open", !.tag = tag, !.pr = pr, !.body = body]
  <1>1. issues' = [issues EXCEPT ![n] = new]
    BY DEF Filed
  <1>2. \A x \in Issue :
          [x EXCEPT !.state = "open", !.tag = tag, !.pr = pr, !.body = body] \in Issue
    BY DEF Issue, Bodies
  <1>3. new \in Issue
    BY <1>2, NoIssueType
  <1>4. /\ new.state = "open" /\ new.tag = tag /\ new.pr = pr
        /\ new.body = body /\ new.comments = <<>>
    BY DEF NoIssue
  <1> HIDE DEF new
  <1>5. QED
    BY <1>1, <1>3, <1>4 DEF Typed

\* What changes when an issue is commented on: its comments.
LEMMA CommentEffect ==
  ASSUME Typed, NEW n \in Numbers, NEW text \in News \cup {Pass}, commentOnIssue(n, text)
  PROVE  /\ Typed'
         /\ \A m \in Numbers : m # n => issues'[m] = issues[m]
         /\ issues'[n].state = issues[n].state /\ issues'[n].tag = issues[n].tag
         /\ issues'[n].pr = issues[n].pr /\ issues'[n].body = issues[n].body
         /\ issues'[n].comments = Append(issues[n].comments, text)
  <1> DEFINE new == [issues[n] EXCEPT !.comments = Append(@, text)]
  <1>1. issues[n] \in Issue
    BY DEF Typed
  <1>2. new \in Issue
    <2>1. issues[n].comments \in Seq(News \cup {Pass})
      BY <1>1 DEF Issue
    <2>2. PICK s \in Seq(News \cup {Pass}) : s = Append(issues[n].comments, text)
      BY <2>1, AppendProperties
    <2>3. \A x \in Issue : [x EXCEPT !.comments = s] \in Issue
      BY DEF Issue
    <2>4. new = [issues[n] EXCEPT !.comments = s]
      BY <2>2
    <2>5. QED
      BY <1>1, <2>3, <2>4
  <1>3. /\ new.state = issues[n].state /\ new.tag = issues[n].tag
        /\ new.pr = issues[n].pr /\ new.body = issues[n].body
        /\ new.comments = Append(issues[n].comments, text)
    BY <1>1 DEF Issue
  <1>4. issues' = [issues EXCEPT ![n] = new]
    BY DEF commentOnIssue
  <1> HIDE DEF new
  <1>5. QED
    BY <1>2, <1>3, <1>4 DEF Typed

\* When its body is patched: the body.
LEMMA PatchEffect ==
  ASSUME Typed, NEW n \in Numbers, NEW body \in Bodies, patchIssueBody(n, body)
  PROVE  /\ Typed'
         /\ \A m \in Numbers : m # n => issues'[m] = issues[m]
         /\ issues'[n].state = issues[n].state /\ issues'[n].tag = issues[n].tag
         /\ issues'[n].pr = issues[n].pr /\ issues'[n].comments = issues[n].comments
         /\ issues'[n].body = body
  BY DEF Typed, patchIssueBody, Issue, Bodies

\* And when it is closed: its state, if it was open.
LEMMA CloseEffect ==
  ASSUME Typed, NEW n \in Numbers, closeIssue(n)
  PROVE  /\ Typed'
         /\ \A m \in Numbers : m # n => issues'[m] = issues[m]
         /\ issues'[n].tag = issues[n].tag /\ issues'[n].pr = issues[n].pr
         /\ issues'[n].body = issues[n].body /\ issues'[n].comments = issues[n].comments
         /\ issues'[n].state = IF issues[n].state = "open" THEN "resolved" ELSE issues[n].state
  BY DEF Typed, closeIssue, Issue

\* Every initial state is well typed.
LEMMA InitTypeOK == Init => TypeOK
  <1> SUFFICES ASSUME Init PROVE TypeOK
    OBVIOUS
  <1>1. Typed
    <2>1. CASE issues = [n \in Numbers |-> NoIssue]
      BY <2>1, NoIssueType DEF Typed
    <2>2. ASSUME NEW m \in News,
                 issues = [n \in Numbers |->
                     IF n = 1 THEN [NoIssue EXCEPT !.state = "open", !.tag = Legacy,
                                                   !.body = Body(Legacy, m)]
                              ELSE NoIssue]
          PROVE  Typed
      <3>1. ASSUME NEW x \in Issue
            PROVE  [x EXCEPT !.state = "open", !.tag = Legacy, !.body = Body(Legacy, m)] \in Issue
        BY RunAssumption DEF Issue, Body
      <3>2. QED
        BY <2>2, <3>1, NoIssueType DEF Typed
    <2>3. QED
      BY <2>1, <2>2 DEF Init
  <1>2. /\ pc \in [Runs -> Calls] /\ verdict \in [Runs -> News \cup {Pass}]
        /\ outcome \in [Runs -> {"none", "noop", "created", "updated", "closed", "errored"}]
    BY DEF Init, Calls
  <1>3. existing \in [Runs -> 0..MaxNumber] /\ starts \in [Runs -> Nat]
    <2>1. existing = [g \in Runs |-> 0] /\ starts = [g \in Runs |-> 0]
      BY DEF Init
    <2>2. 0 \in 0 .. MaxNumber
      BY BoundAssumption
    <2>3. QED
      BY <2>1, <2>2
  <1>4. \A g \in Runs : pc[g] = "idle" /\ page[g] = 1 /\ ~blind[g]
    BY DEF Init
  <1>5. /\ page \in [Runs -> 1..MaxPages] /\ blind \in [Runs -> BOOLEAN]
        /\ stray \subseteq Clusters
    <2>1. page = [g \in Runs |-> 1] /\ blind = [g \in Runs |-> FALSE] /\ stray = {}
      BY DEF Init
    <2>2. 1 \in 1 .. MaxPages
      BY BoundAssumption
    <2>3. QED
      BY <2>1, <2>2
  <1>6. QED
    BY <1>1, <1>2, <1>3, <1>4, <1>5 DEF TypeOK, Typed

\* The page and the sight of a run that is not at a list.
NoPage == \A g \in Runs : pc[g] # "find" => page[g] = 1 /\ ~blind[g]
PagesTyped ==
  /\ page \in [Runs -> 1..MaxPages] /\ blind \in [Runs -> BOOLEAN]
  /\ stray \subseteq Clusters /\ NoPage

\* Closing an issue blinds only the runs that are past a first page.
LEMMA ClosesEffect ==
  ASSUME PagesTyped, NEW n, Closes(n)
  PROVE  /\ blind' \in [Runs -> BOOLEAN]
         /\ \A h \in Runs : /\ blind[h] => blind'[h]
                            /\ page[h] = 1 => (blind'[h] <=> blind[h])
                            /\ issues[n].state = "open" /\ page[h] # 1 => blind'[h]
  <1>1. blind' \in [Runs -> BOOLEAN]
    BY DEF Closes, PagesTyped
  <1>2. ASSUME NEW h \in Runs
        PROVE  blind'[h] <=> (blind[h] \/ (issues[n].state = "open" /\ page[h] > 1))
    BY DEF Closes
  <1>3. ASSUME NEW h \in Runs PROVE page[h] > 1 <=> page[h] # 1
    BY DEF PagesTyped
  <1>4. QED
    BY <1>1, <1>2, <1>3

\* And leaves the pages in order.
LEMMA ClosesType ==
  ASSUME PagesTyped, NEW n, Closes(n), UNCHANGED <<page, stray>>,
         \A h \in Runs : pc[h] = "find" => pc'[h] = "find"
  PROVE  PagesTyped'
  <1>1. blind' \in [Runs -> BOOLEAN]
    BY ClosesEffect
  <1>2. ASSUME NEW h \in Runs, page[h] = 1, ~blind[h] PROVE ~blind'[h]
    BY <1>2, ClosesEffect
  <1>3. ASSUME NEW h \in Runs, pc'[h] # "find" PROVE page'[h] = 1 /\ ~blind'[h]
    <2>1. page[h] = 1 /\ ~blind[h]
      BY <1>3 DEF PagesTyped, NoPage
    <2>2. QED
      BY <1>2, <2>1
  <1>4. QED
    BY <1>1, <1>3 DEF PagesTyped, NoPage

\* A run that ends its scan, or was not at one.
LEMMA ScannedEffect ==
  ASSUME PagesTyped, NEW g \in Runs, Scanned(g), NEW l, l # "find",
         pc' = [pc EXCEPT ![g] = l], pc \in [Runs -> Calls]
  PROVE  /\ page' \in [Runs -> 1..MaxPages] /\ blind' \in [Runs -> BOOLEAN] /\ NoPage'
         /\ page'[g] = 1 /\ ~blind'[g]
         /\ \A h \in Runs : h # g => page'[h] = page[h] /\ (blind'[h] <=> blind[h])
  <1>1. /\ page' = [page EXCEPT ![g] = 1] /\ blind' = [blind EXCEPT ![g] = FALSE]
        /\ 1 \in 1 .. MaxPages /\ page \in [Runs -> 1..MaxPages]
        /\ blind \in [Runs -> BOOLEAN]
    BY BoundAssumption DEF Scanned, PagesTyped
  <1>2. page' \in [Runs -> 1..MaxPages] /\ blind' \in [Runs -> BOOLEAN]
    BY <1>1
  <1>3. page'[g] = 1 /\ ~blind'[g]
    BY <1>1
  <1>4. \A h \in Runs : h # g => page'[h] = page[h] /\ (blind'[h] <=> blind[h])
    BY <1>1
  <1>5. NoPage'
    BY <1>3, <1>4 DEF NoPage, PagesTyped
  <1>6. QED
    BY <1>2, <1>3, <1>4, <1>5

\* A scan that returns nil.
LEMMA NotFoundEffect ==
  ASSUME TypeOK, NEW g \in Runs, NEW excused, NotFound(g, excused)
  PROVE  /\ UNCHANGED <<issues, verdict, starts>> /\ existing' = [existing EXCEPT ![g] = 0]
         /\ Scanned(g)
         /\ \/ verdict[g] = Pass /\ Return(g, "noop")
            \/ verdict[g] # Pass /\ Goto(g, "create")
         /\ \/ Matching(ClusterOf[g]) = {} /\ stray' = stray \ {ClusterOf[g]}
            \/ Matching(ClusterOf[g]) # {} /\ excused /\ stray' = stray \cup {ClusterOf[g]}
            \/ Matching(ClusterOf[g]) # {} /\ ~excused /\ stray' = stray
  BY DEF NotFound

\* The steps of a run keep the types.
LEMMA StepType ==
  ASSUME TypeOK, NEW g \in Runs, Step(g) PROVE TypeOK'
  <1>a. /\ Typed /\ ClusterOf[g] \in Clusters /\ 0 \in 0 .. MaxNumber /\ PagesTyped
        /\ (\A n \in Numbers : n # 0 /\ n \in 0 .. MaxNumber)
        /\ pc \in [Runs -> Calls]
    BY RunAssumption, BoundAssumption DEF TypeOK, Typed, Numbers, PagesTyped, NoPage
  <1>b. pc[g] \in AtWork => existing[g] \in Numbers
    BY BoundAssumption DEF TypeOK, AtWork, Numbers
  <1>c. UNCHANGED <<page, history>> /\ pc'[g] \in Calls /\ (\A h \in Runs \ {g} : pc'[h] = pc[h])
          /\ pc[g] # "find" => PagesTyped'
    BY <1>a DEF PagesTyped, NoPage, history
  <1> USE NewsAssumption DEF Goto, Return, Errored, Called, CalledLast, Calls
  <1>0. ASSUME Scanned(g), stray' \subseteq Clusters, NEW l, l # "find",
               pc' = [pc EXCEPT ![g] = l]
        PROVE  PagesTyped'
    BY <1>0, <1>a, ScannedEffect DEF PagesTyped
  <1>1. ASSUME NEW v \in News \cup {Pass}, Begin(g, v) PROVE TypeOK'
    <2>1. PagesTyped'
      BY <1>1, <1>a DEF Begin, PagesTyped, NoPage, history
    <2>2. QED
      BY <1>1, <1>a, <2>1 DEF Begin, TypeOK, PagesTyped, NoPage
  <1>2. ASSUME NEW excused, NotFound(g, excused), pc[g] = "find" PROVE TypeOK'
    <2>1. /\ UNCHANGED <<issues, verdict, starts>> /\ existing' = [existing EXCEPT ![g] = 0]
          /\ Scanned(g) /\ stray' \subseteq Clusters
          /\ \/ verdict[g] = Pass /\ Return(g, "noop")
             \/ verdict[g] # Pass /\ Goto(g, "create")
      BY <1>a, <1>2, NotFoundEffect DEF TypeOK
    <2>2. PagesTyped'
      BY <1>0, <2>1
    <2>3. QED
      BY <1>a, <2>1, <2>2 DEF TypeOK, PagesTyped, NoPage
  <1>3. CASE FetchHit(g)
    <2>1. PICK n \in Newest(Fetched(g)) :
            /\ existing' = [existing EXCEPT ![g] = n]
            /\ IF verdict[g] = Pass THEN Goto(g, "comment-on-close")
               ELSE IF UpToDate(issues[n].body, ClusterOf[g], verdict[g]) THEN Return(g, "noop")
               ELSE Goto(g, "update-comment")
      BY <1>3 DEF FetchHit
    <2>2. n \in Numbers
      BY DEF Newest, Fetched, Matching
    <2>3. PagesTyped'
      BY <1>a, <1>0, <1>3, <2>1 DEF FetchHit, PagesTyped
    <2>4. /\ existing' \in [Runs -> 0..MaxNumber] /\ existing'[g] # 0
          /\ \A h \in Runs \ {g} : existing'[h] = existing[h]
      BY <1>a, <2>1, <2>2 DEF TypeOK
    <2>5. \/ verdict[g] = Pass /\ Goto(g, "comment-on-close")
          \/ Return(g, "noop")
          \/ verdict[g] # Pass /\ Goto(g, "update-comment")
      BY <2>1
    <2>6. QED
      BY <1>3, <1>a, <2>3, <2>4, <2>5 DEF FetchHit, TypeOK, PagesTyped, NoPage
  <1>4. CASE FetchFull(g)
    <2>1. page' = [page EXCEPT ![g] = page[g] + 1] /\ page[g] + 1 \in 1 .. MaxPages
      BY <1>4, <1>a, BoundAssumption DEF FetchFull, PagesTyped
    <2>2. PagesTyped'
      BY <1>4, <1>a, <2>1 DEF FetchFull, PagesTyped, NoPage, history
    <2>3. QED
      BY <1>4, <1>a, <2>2 DEF FetchFull, TypeOK, PagesTyped, NoPage
  <1>5. CASE Exhausted(g) \/ CallFails(g)
    <2>1. PagesTyped'
      BY <1>a, <1>0, <1>5 DEF Exhausted, CallFails, PagesTyped
    <2>2. QED
      BY <1>a, <1>5, <2>1 DEF Exhausted, CallFails, TypeOK, PagesTyped, NoPage
  <1>6. CASE CommentOnClose(g)
    <2>1. Typed'
      BY <1>6, <1>a, <1>b, CommentEffect DEF CommentOnClose, AtWork
    <2>2. PagesTyped'
      BY <1>6, <1>a, <1>c DEF CommentOnClose
    <2>3. QED
      BY <1>6, <1>a, <2>1, <2>2 DEF CommentOnClose, TypeOK, Typed, PagesTyped, NoPage
  <1>7. CASE CloseIssue(g)
    <2>1. Typed'
      BY <1>7, <1>a, <1>b, CloseEffect DEF CloseIssue, AtWork
    <2>2. /\ Closes(existing[g]) /\ UNCHANGED <<page, stray>>
          /\ \A h \in Runs : pc[h] = "find" => pc'[h] = "find"
      BY <1>7, <1>a DEF CloseIssue
    <2>3. PagesTyped'
      BY <1>a, <2>2, ClosesType
    <2>4. QED
      BY <1>7, <1>a, <2>1, <2>3 DEF CloseIssue, TypeOK, Typed, PagesTyped, NoPage
  <1>8. CASE CreateIssue(g)
    <2>1. verdict[g] \in News
      BY <1>8 DEF CreateIssue, TypeOK
    <2>2. Typed'
      BY <1>8, <1>a, <2>1, FiledEffect, BodyType DEF CreateIssue, createIssue, Free
    <2>3. PagesTyped'
      BY <1>8, <1>a, <1>c DEF CreateIssue
    <2>4. QED
      BY <1>8, <1>a, <2>2, <2>3 DEF CreateIssue, TypeOK, Typed, PagesTyped, NoPage
  <1>9. CASE UpdateComment(g)
    <2>1. Typed'
      BY <1>9, <1>a, <1>b, CommentEffect DEF UpdateComment, AtWork, TypeOK
    <2>2. PagesTyped'
      BY <1>9, <1>a, <1>c DEF UpdateComment
    <2>3. QED
      BY <1>9, <1>a, <2>1, <2>2 DEF UpdateComment, TypeOK, Typed, PagesTyped, NoPage
  <1>10. CASE PatchBody(g)
    <2>1. verdict[g] \in News
      BY <1>10 DEF PatchBody, TypeOK
    <2>2. Typed'
      BY <1>10, <1>a, <1>b, <2>1, PatchEffect, BodyType DEF PatchBody, AtWork
    <2>3. PagesTyped'
      BY <1>10, <1>a, <1>c DEF PatchBody
    <2>4. QED
      BY <1>10, <1>a, <2>2, <2>3 DEF PatchBody, TypeOK, Typed, PagesTyped, NoPage
  <1>11. QED
    BY <1>1, <1>2, <1>3, <1>4, <1>5, <1>6, <1>7, <1>8, <1>9, <1>10
       DEF Step, FetchShort, FetchMissing

\* So does what people do.
LEMMA PersonType ==
  ASSUME TypeOK, Person PROVE TypeOK'
  <1>1. Typed
    BY DEF TypeOK, Typed
  <1>2. Typed'
    <2>1. ASSUME NEW n \in Numbers, NEW tag \in Clusters \cup {Nothing}, NEW pr \in BOOLEAN,
                 PersonFiles(n, tag, pr)
          PROVE  Typed'
      BY <1>1, <2>1, FiledEffect, NoIssueType DEF PersonFiles
    <2>2. ASSUME NEW n \in Numbers, PersonCloses(n) PROVE Typed'
      <3> DEFINE new == [issues[n] EXCEPT !.state = "closed"]
      <3>1. \A x \in Issue : [x EXCEPT !.state = "closed"] \in Issue
        BY DEF Issue
      <3>2. issues \in [Numbers -> Issue]
        BY <1>1 DEF Typed
      <3>3. new \in Issue
        BY <3>1, <3>2
      <3>4. issues' = [issues EXCEPT ![n] = new]
        BY <2>2 DEF PersonCloses
      <3> HIDE DEF new
      <3>5. QED
        BY <3>2, <3>3, <3>4 DEF Typed
    <2>3. ASSUME NEW n \in Numbers, PersonEdits(n) PROVE Typed'
      BY <1>1, <2>3, NoIssueType, PatchEffect DEF PersonEdits, patchIssueBody
    <2>4. ASSUME NEW n \in Numbers, NEW c \in Clusters, PersonTitles(n, c) PROVE Typed'
      BY <1>1, <2>4, FiledEffect, NoIssueType DEF PersonTitles
    <2>5. QED
      BY <2>1, <2>2, <2>3, <2>4 DEF Person
  <1>3. UNCHANGED <<pc, page, verdict, existing, outcome, starts>> /\ stray' \subseteq Clusters
    BY DEF Person, PersonFiles, PersonTitles, PersonCloses, PersonEdits, TypeOK, history
  <1>4. PagesTyped'
    <2>1. PagesTyped
      BY DEF TypeOK, PagesTyped, NoPage
    <2>2. ASSUME NEW n \in Numbers, PersonCloses(n) PROVE PagesTyped'
      <3>1. /\ Closes(n) /\ UNCHANGED <<page, stray>>
            /\ \A h \in Runs : pc[h] = "find" => pc'[h] = "find"
        BY <2>2 DEF PersonCloses
      <3>2. QED
        BY <2>1, <3>1, ClosesType
    <2>3. ASSUME UNCHANGED blind PROVE PagesTyped'
      BY <1>3, <2>1, <2>3 DEF PagesTyped, NoPage
    <2>4. QED
      BY <2>2, <2>3 DEF Person, PersonFiles, PersonTitles, PersonEdits, history
  <1>5. QED
    BY <1>2, <1>3, <1>4 DEF TypeOK, Typed, PagesTyped, NoPage

\* A step of a run leaves the other runs alone.
LEMMA OtherRuns ==
  ASSUME TypeOK, NEW g \in Runs, Step(g), NEW h \in Runs, h # g
  PROVE  /\ pc'[h] = pc[h] /\ page'[h] = page[h] /\ verdict'[h] = verdict[h]
         /\ existing'[h] = existing[h] /\ outcome'[h] = outcome[h]
  BY DEF TypeOK, Step, Begin, FetchHit, FetchShort, FetchFull, Exhausted, FetchMissing,
     NotFound, CommentOnClose, CloseIssue, CreateIssue, UpdateComment, PatchBody, CallFails,
     Scanned, Goto, Return, Errored, Called, CalledLast

\* What a step of a run does to an issue, it does to the one it works on, or to a new one.
LEMMA StepEffect ==
  ASSUME TypeOK, NEW g \in Runs, Step(g), NEW n \in Numbers, issues'[n] # issues[n]
  PROVE  \/ /\ pc[g] \in AtWork /\ n = existing[g]
            /\ issues'[n].state = "absent" <=> issues[n].state = "absent"
            /\ issues'[n].state \in {issues[n].state, "resolved"}
            /\ issues'[n].state # issues[n].state => pc[g] = "close"
            /\ issues'[n].tag = issues[n].tag /\ issues'[n].pr = issues[n].pr
            /\ issues'[n].body = issues[n].body \/ issues'[n].body.news \in News
         \/ /\ pc[g] = "create" /\ issues[n].state = "absent"
            /\ issues'[n].state = "open" /\ issues'[n].tag = ClusterOf[g] /\ ~issues'[n].pr
            /\ issues'[n].body.news \in News
  <1>1. Typed /\ ClusterOf[g] \in Clusters
    BY RunAssumption DEF TypeOK, Typed
  <1>2. pc[g] \in AtWork => existing[g] \in Numbers
    BY BoundAssumption DEF TypeOK, AtWork, Numbers
  <1>3. pc[g] \in AtWork \cup {"create"} => verdict[g] \in News \cup {Pass}
    BY DEF TypeOK
  <1>4. /\ pc[g] \in {"create", "patch-body"} => verdict[g] \in News
        /\ Body(ClusterOf[g], verdict[g]).news = verdict[g]
    BY DEF TypeOK, Body
  <1>5. CASE CommentOnClose(g)
    BY <1>1, <1>2, <1>5, CommentEffect DEF CommentOnClose, AtWork
  <1>6. CASE CloseIssue(g)
    BY <1>1, <1>2, <1>6, CloseEffect DEF CloseIssue, AtWork
  <1>7. CASE CreateIssue(g)
    <2>1. PICK m \in Free : Filed(m, ClusterOf[g], FALSE, Body(ClusterOf[g], verdict[g]))
      BY <1>7 DEF CreateIssue, createIssue
    <2>2. /\ pc[g] = "create" /\ m \in Numbers /\ issues[m].state = "absent"
          /\ Body(ClusterOf[g], verdict[g]) \in Bodies
      BY <1>1, <1>4, <1>7, BodyType DEF CreateIssue, Free
    <2>3. /\ \A k \in Numbers : k # m => issues'[k] = issues[k]
          /\ issues'[m].state = "open" /\ issues'[m].tag = ClusterOf[g] /\ issues'[m].pr = FALSE
          /\ issues'[m].body = Body(ClusterOf[g], verdict[g])
      <3>1. PICK body \in Bodies : body = Body(ClusterOf[g], verdict[g])
        BY <2>2
      <3>2. PICK tag \in Clusters : tag = ClusterOf[g]
        BY <1>1
      <3>3. Filed(m, tag, FALSE, body)
        BY <2>1, <3>1, <3>2
      <3>4. /\ \A k \in Numbers : k # m => issues'[k] = issues[k]
            /\ issues'[m].state = "open" /\ issues'[m].tag = tag /\ issues'[m].pr = FALSE
            /\ issues'[m].body = body
        BY <1>1, <2>2, <3>3, FiledEffect
      <3>5. QED
        BY <3>1, <3>2, <3>4
    <2>4. QED
      BY <1>4, <2>2, <2>3
  <1>8. CASE UpdateComment(g)
    BY <1>1, <1>2, <1>3, <1>8, CommentEffect DEF UpdateComment, AtWork
  <1>9. CASE PatchBody(g)
    BY <1>1, <1>2, <1>4, <1>9, PatchEffect, BodyType DEF PatchBody, AtWork
  <1>10. QED
    BY <1>5, <1>6, <1>7, <1>8, <1>9
       DEF Step, Begin, FetchHit, FetchShort, FetchFull, Exhausted, FetchMissing, NotFound, CallFails

\* What a person does to an issue: close it, edit it, or file one, under a title of the
\* gate's only as a pull request or as a stray.
LEMMA PersonEffect ==
  ASSUME TypeOK, Person, NEW n \in Numbers, issues'[n] # issues[n]
  PROVE  \/ /\ ~(People \subseteq {"file"})
            /\ issues[n].state = "open" /\ issues'[n].state \in {"open", "closed"}
            /\ issues'[n].tag = issues[n].tag /\ issues'[n].pr = issues[n].pr
            /\ issues'[n].comments = issues[n].comments
            /\ issues'[n].body = issues[n].body \/ issues'[n].body = NoBody
         \/ /\ issues[n].state = "absent" /\ issues'[n].state = "open"
            /\ issues'[n].body = NoBody
            /\ \/ issues'[n].tag = Nothing \/ issues'[n].pr
               \/ issues'[n].tag \in stray' /\ ~(People \subseteq {"file"})
  <1>1. Typed
    BY DEF TypeOK, Typed
  <1>2. ASSUME NEW m \in Numbers, NEW tag \in Clusters \cup {Nothing}, NEW pr \in BOOLEAN,
               m \in Free, Filed(m, tag, pr, NoBody)
        PROVE  /\ issues[m].state = "absent" /\ issues'[m].state = "open"
               /\ issues'[m].tag = tag /\ issues'[m].pr = pr /\ issues'[m].body = NoBody
               /\ n = m
    <2>1. PICK body \in Bodies : body = NoBody
      BY NoIssueType
    <2>2. Filed(m, tag, pr, body) /\ issues[m].state = "absent"
      BY <1>2, <2>1 DEF Free
    <2>3. /\ \A k \in Numbers : k # m => issues'[k] = issues[k]
          /\ issues'[m].state = "open" /\ issues'[m].tag = tag /\ issues'[m].pr = pr
          /\ issues'[m].body = body
      BY <1>1, <2>2, FiledEffect
    <2>4. QED
      BY <2>1, <2>2, <2>3
  <1>3. ASSUME NEW m \in Numbers, PersonCloses(m)
        PROVE  /\ issues[m].state = "open" /\ issues'[m].state = "closed"
               /\ issues'[m].tag = issues[m].tag /\ issues'[m].pr = issues[m].pr
               /\ issues'[m].comments = issues[m].comments /\ issues'[m].body = issues[m].body
               /\ n = m
    BY <1>1, <1>3 DEF PersonCloses, Typed, Issue
  <1>3a. ASSUME NEW m \in Numbers, PersonCloses(m) \/ PersonEdits(m)
         PROVE  ~(People \subseteq {"file"})
    BY <1>3a DEF PersonCloses, PersonEdits
  <1>4. ASSUME NEW m \in Numbers, PersonEdits(m)
        PROVE  /\ issues[m].state = "open" /\ issues'[m].state = "open"
               /\ issues'[m].tag = issues[m].tag /\ issues'[m].pr = issues[m].pr
               /\ issues'[m].comments = issues[m].comments /\ issues'[m].body = NoBody
               /\ n = m
    BY <1>1, <1>4, PatchEffect, NoIssueType DEF PersonEdits, patchIssueBody
  <1>5. ASSUME NEW m \in Numbers, NEW tag \in Clusters \cup {Nothing}, NEW pr \in BOOLEAN,
               PersonFiles(m, tag, pr)
        PROVE  /\ issues[n].state = "absent" /\ issues'[n].state = "open"
               /\ issues'[n].body = NoBody /\ (issues'[n].tag = Nothing \/ issues'[n].pr)
    BY <1>2, <1>5 DEF PersonFiles
  <1>6. ASSUME NEW m \in Numbers, NEW c \in Clusters, PersonTitles(m, c)
        PROVE  /\ issues[n].state = "absent" /\ issues'[n].state = "open"
               /\ issues'[n].body = NoBody /\ issues'[n].tag \in stray'
               /\ ~(People \subseteq {"file"})
    BY <1>2, <1>6 DEF PersonTitles
  <1>7. QED
    BY <1>3, <1>3a, <1>4, <1>5, <1>6 DEF Person

\* A run goes on with the issue it found, in its cluster, and no issue changes hands.
LEMMA StepOwned ==
  ASSUME TypeOK, \A h \in Runs : Owned(h), NEW g \in Runs, Step(g), NEW h \in Runs
  PROVE  Owned(h)'
  <1> SUFFICES ASSUME (pc[h] \in AtWork)'
               PROVE  LET x == issues'[existing'[h]]
                      IN  x.state # "absent" /\ ~x.pr /\ x.tag = ClusterOf[h]
    BY DEF Owned
  <1>1. CASE pc[h] \in AtWork /\ existing'[h] = existing[h]
    <2>1. existing[h] \in Numbers /\ Owned(h)
      BY <1>1, BoundAssumption DEF TypeOK, AtWork, Numbers
    <2>2. QED
      BY <1>1, <2>1, StepEffect DEF Owned
  <1>2. CASE FetchHit(g) /\ h = g
    BY <1>2 DEF FetchHit, Newest, Fetched, Matching, TypeOK
  <1>3. QED
    <2>1. CASE h # g
      BY <1>1, <2>1, OtherRuns
    <2>2. CASE h = g
      BY <1>1, <1>2, <2>2 DEF TypeOK, Step, Begin, FetchShort, FetchFull, Exhausted,
         FetchMissing, NotFound, CommentOnClose, CloseIssue, CreateIssue, UpdateComment,
         PatchBody, CallFails, Goto, Return, Errored, Called, CalledLast, AtWork
    <2>3. QED
      BY <2>1, <2>2

\* A report begins with its run and ends with it, and no step of a run closes an issue as
\* a person does or takes its news away.
LEMMA StepQuiet ==
  ASSUME TypeOK, Unmolested, \A h \in Runs : Busy(h), NEW g \in Runs, Step(g)
  PROVE  Unmolested' /\ \A h \in Runs : Busy(h)'
  <1>1. Unmolested'
    BY StepEffect DEF Unmolested
  <1>2. ASSUME NEW h \in Runs, h # g PROVE Busy(h)'
    BY <1>2, OtherRuns DEF Busy
  <1>3. Busy(g)'
    BY DEF Busy, TypeOK, Step, Begin, FetchHit, FetchShort, FetchFull, Exhausted,
       FetchMissing, NotFound, CommentOnClose, CloseIssue, CreateIssue,
       UpdateComment, PatchBody, CallFails, Goto, Return, Errored, Called, CalledLast
  <1>4. QED
    BY <1>1, <1>2, <1>3

\* A step of a run changes nothing about the issues of another cluster.
LEMMA OtherClusters ==
  ASSUME TypeOK, NEW g \in Runs, Owned(g), Step(g), NEW c \in Clusters, c # ClusterOf[g]
  PROVE  /\ Matching(c)' = Matching(c)
         /\ \A n \in Numbers :
              issues[n].state # "absent" /\ ~issues[n].pr /\ issues[n].tag = c =>
                issues'[n] = issues[n]
         /\ NoneClosed(c)' => NoneClosed(c)
  <1>1. ASSUME NEW n \in Numbers, issues'[n] # issues[n]
        PROVE  /\ issues'[n].tag # c
               /\ issues[n].state = "absent" \/ issues[n].tag # c
    BY <1>1, StepEffect DEF Owned
  <1>2. Matching(c)' = Matching(c)
    BY <1>1 DEF Matching
  <1>3. NoneClosed(c)' => NoneClosed(c)
    BY <1>1 DEF NoneClosed
  <1>4. QED
    BY <1>1, <1>2, <1>3

\* The list of open issues, which the pages are about.
LEMMA ShownIsFinite ==
  /\ IsFiniteSet(Shown) /\ Shown \subseteq Nat
  /\ IsFiniteSet(Shown') /\ Shown' \subseteq Nat
  <1>1. IsFiniteSet(Numbers) /\ Numbers \subseteq Nat
    BY BoundAssumption, FS_Interval DEF Numbers
  <1>2. Shown \subseteq Numbers /\ Shown' \subseteq Numbers
    BY DEF Shown
  <1>3. QED
    BY <1>1, <1>2, FS_Subset

\* Of a run that is not blind, no closed issue has moved anything to the pages it read.
LEMMA StepSight ==
  ASSUME TypeOK, NEW g \in Runs, Step(g), NEW h \in Runs, h # g
  PROVE  /\ blind[h] => blind'[h]
         /\ blind'[h] \/ page[h] = 1 \/ Shown \subseteq Shown'
         /\ \A c \in Clusters \ {ClusterOf[g]} : c \in stray' <=> c \in stray
  <1>1. PagesTyped /\ Typed /\ pc \in [Runs -> Calls]
    BY DEF TypeOK, PagesTyped, NoPage, Typed
  <1>2. \A c \in Clusters \ {ClusterOf[g]} : c \in stray' <=> c \in stray
    BY DEF Step, Begin, FetchHit, FetchShort, FetchFull, Exhausted, FetchMissing, NotFound,
       CommentOnClose, CloseIssue, CreateIssue, UpdateComment, PatchBody, CallFails, history
  <1>3. CASE CloseIssue(g)
    <2>1. existing[g] \in Numbers /\ closeIssue(existing[g]) /\ Closes(existing[g])
      BY <1>3, BoundAssumption DEF CloseIssue, TypeOK, Numbers
    <2>2. blind[h] => blind'[h]
      BY <1>1, <2>1, ClosesEffect
    <2>3. CASE issues[existing[g]].state = "open"
      BY <1>1, <1>2, <2>1, <2>2, <2>3, ClosesEffect
    <2>4. CASE issues[existing[g]].state # "open"
      <3>1. \A m \in Numbers : issues[m].state = "open" => issues'[m].state = "open"
        BY <1>1, <2>1, <2>4, CloseEffect
      <3>2. Shown \subseteq Shown'
        BY <3>1 DEF Shown
      <3>3. QED
        BY <1>2, <2>2, <3>2
    <2>5. QED
      BY <2>3, <2>4
  <1>4. CASE ~CloseIssue(g)
    <2>1. blind'[h] <=> blind[h]
      BY <1>1, <1>4 DEF Step, Begin, FetchHit, FetchShort, FetchFull, Exhausted, FetchMissing,
         NotFound, Scanned, CommentOnClose, CreateIssue, UpdateComment, PatchBody, CallFails,
         history, PagesTyped
    <2>2. pc[g] = "close" => UNCHANGED issues
      BY <1>4 DEF Step, Begin, FetchHit, FetchShort, FetchFull, Exhausted, FetchMissing,
         CommentOnClose, CreateIssue, UpdateComment, PatchBody, CallFails
    <2>3. \A m \in Numbers : issues[m].state = "open" => issues'[m].state = "open"
      BY <2>2, StepEffect
    <2>4. Shown \subseteq Shown'
      BY <2>3 DEF Shown
    <2>5. QED
      BY <1>2, <2>1, <2>4
  <1>5. QED
    BY <1>3, <1>4

\* The same of what a person closes.
LEMMA PersonSight ==
  ASSUME TypeOK, Person, NEW h \in Runs
  PROVE  /\ blind[h] => blind'[h]
         /\ blind'[h] \/ page[h] = 1 \/ Shown \subseteq Shown'
         /\ stray \subseteq stray'
  <1>1. PagesTyped /\ Typed
    BY DEF TypeOK, PagesTyped, NoPage, Typed
  <1>2. stray \subseteq stray'
    BY DEF Person, PersonFiles, PersonTitles, PersonCloses, PersonEdits, history
  <1>3. ASSUME NEW n \in Numbers, PersonCloses(n)
        PROVE  (blind[h] => blind'[h]) /\ (blind'[h] \/ page[h] = 1)
    BY <1>1, <1>3, ClosesEffect DEF PersonCloses
  <1>4. ASSUME NEW n \in Numbers, n \in Free, NEW tag, NEW pr, Filed(n, tag, pr, NoBody)
        PROVE  Shown \subseteq Shown'
    BY <1>1, <1>4 DEF Filed, Free, Shown, Typed
  <1>5. ASSUME NEW n \in Numbers, PersonEdits(n) PROVE Shown \subseteq Shown'
    <2>1. \A m \in Numbers : issues'[m].state = issues[m].state
      BY <1>1, <1>5, PatchEffect, NoIssueType DEF PersonEdits, patchIssueBody
    <2>2. QED
      BY <2>1 DEF Shown
  <1>6. CASE \E n \in Numbers : PersonCloses(n)
    BY <1>2, <1>3, <1>6
  <1>7. CASE ~\E n \in Numbers : PersonCloses(n)
    <2>1. UNCHANGED blind
      BY <1>7 DEF Person, PersonFiles, PersonTitles, PersonEdits, history
    <2>2. Shown \subseteq Shown'
      BY <1>4, <1>5, <1>7 DEF Person, PersonFiles, PersonTitles
    <2>3. QED
      BY <1>2, <2>1, <2>2
  <1>8. QED
    BY <1>6, <1>7

\* What is behind the page that a run asks for next stays behind it.
LEMMA StaysBehind ==
  ASSUME TypeOK, NEW h \in Runs, NotMissed(h), pc'[h] = pc[h], page'[h] = page[h],
         ClusterOf[h] \notin stray' =>
           ClusterOf[h] \notin stray /\ Matching(ClusterOf[h])' \subseteq Matching(ClusterOf[h]),
         blind[h] => blind'[h],
         blind'[h] \/ page[h] = 1 \/ Shown \subseteq Shown'
  PROVE  NotMissed(h)'
  <1> SUFFICES ASSUME pc[h] = "find", ~blind'[h], ClusterOf[h] \notin stray',
                      NEW m \in Matching(ClusterOf[h])'
               PROVE  Before(Shown', m) >= (page[h] - 1) * PageSize
    BY DEF NotMissed, Before
  <1>1. m \in Matching(ClusterOf[h]) /\ ~blind[h] /\ ClusterOf[h] \notin stray
    OBVIOUS
  <1>2. Before(Shown, m) >= (page[h] - 1) * PageSize
    BY <1>1 DEF NotMissed
  <1>3. /\ Before(Shown, m) \in Nat /\ Before(Shown', m) \in Nat
        /\ page[h] \in Nat \ {0}
    <2>1. page[h] \in Nat \ {0}
      BY BoundAssumption DEF TypeOK
    <2>2. Before(Shown, m) \in Nat
      BY ShownIsFinite, BeforeIsNat
    <2>3. Before(Shown', m) \in Nat
      BY ShownIsFinite, BeforeIsNat
    <2>4. QED
      BY <2>1, <2>2, <2>3
  <1>4. (page[h] - 1) * PageSize \in Nat
    BY <1>3, PageEnds
  <1>5. CASE page[h] = 1
    <2>1. (page[h] - 1) * PageSize = 0
      BY <1>5, PageSizeAssumption
    <2>2. QED
      BY <1>3, <2>1
  <1>6. CASE Shown \subseteq Shown'
    <2>1. Before(Shown, m) <= Before(Shown', m)
      BY <1>6, ShownIsFinite, BeforeGrows
    <2>2. QED
      BY <1>2, <1>3, <1>4, <2>1
  <1>7. QED
    BY <1>5, <1>6

\* What a scan has not found on its page is behind it.
LEMMA BehindThePage ==
  ASSUME TypeOK, NEW g \in Runs, NotMissed(g), pc[g] = "find", ~blind[g],
         ClusterOf[g] \notin stray, Fetched(g) = {}, NEW m \in Matching(ClusterOf[g])
  PROVE  m \in Shown /\ Before(Shown, m) >= page[g] * PageSize
  <1>1. m \in Shown /\ Before(Shown, m) >= (page[g] - 1) * PageSize
    BY DEF NotMissed, Matching, Shown
  <1>2. m \notin OnPage(Shown, page[g])
    BY DEF Fetched
  <1>3. /\ Before(Shown, m) \in Nat /\ (page[g] - 1) * PageSize \in Nat
        /\ page[g] * PageSize = (page[g] - 1) * PageSize + PageSize /\ PageSize \in Nat
    <2>1. page[g] \in Nat \ {0}
      BY BoundAssumption DEF TypeOK
    <2>2. QED
      BY <2>1, ShownIsFinite, BeforeIsNat, PageEnds
  <1>4. ~(Before(Shown, m) < page[g] * PageSize)
    <2>1. (page[g] - 1) * PageSize <= Before(Shown, m)
      BY <1>1, <1>3
    <2>2. QED
      BY <1>1, <1>2, <2>1 DEF OnPage
  <1>5. QED
    BY <1>1, <1>3, <1>4

\* Behind a short page there is nothing: the scan that returns nil has overlooked no issue.
LEMMA NothingHidden ==
  ASSUME TypeOK, NEW g \in Runs, NotMissed(g), ~blind[g], ClusterOf[g] \notin stray,
         FetchShort(g)
  PROVE  Matching(ClusterOf[g]) = {}
  <1>1. ASSUME NEW m \in Matching(ClusterOf[g]) PROVE FALSE
    <2>1. m \in Shown /\ Before(Shown, m) >= page[g] * PageSize /\ Short(Shown, page[g])
      BY <1>1, BehindThePage DEF FetchShort
    <2>2. page[g] \in Nat \ {0}
      BY BoundAssumption DEF TypeOK
    <2>3. QED
      BY <2>1, <2>2, ShownIsFinite, PageIsFull
  <1>2. QED
    BY <1>1

\* What holds of a run still holds after a step of another, if no two share a cluster.
LEMMA OthersHold ==
  ASSUME IssueInv, OneRunPerCluster, NEW g \in Runs, Step(g), NEW h \in Runs, h # g
  PROVE  NotMissed(h)' /\ Held(h)' /\ Explained(h)' /\ Told(h)'
  <1> DEFINE c == ClusterOf[h]
  <1>1. /\ TypeOK /\ Owned(g) /\ Owned(h) /\ NotMissed(h) /\ Held(h) /\ Explained(h)
        /\ Told(h)
    BY DEF IssueInv
  <1>2. c \in Clusters /\ c # ClusterOf[g]
    BY RunAssumption DEF OneRunPerCluster
  <1>3. /\ Matching(c)' = Matching(c)
        /\ \A n \in Numbers :
             issues[n].state # "absent" /\ ~issues[n].pr /\ issues[n].tag = c =>
               issues'[n] = issues[n]
        /\ NoneClosed(c)' => NoneClosed(c)
    BY <1>1, <1>2, OtherClusters
  <1>4. /\ pc'[h] = pc[h] /\ page'[h] = page[h] /\ verdict'[h] = verdict[h]
        /\ existing'[h] = existing[h] /\ outcome'[h] = outcome[h]
    BY <1>1, OtherRuns
  <1>4a. /\ blind[h] => blind'[h]
         /\ blind'[h] \/ page[h] = 1 \/ Shown \subseteq Shown'
         /\ c \in stray' <=> c \in stray
    BY <1>1, <1>2, StepSight
  <1>4b. NotMissed(h)'
    BY <1>1, <1>3, <1>4, <1>4a, StaysBehind
  <1>5. pc[h] \in AtWork => existing[h] \in Numbers /\ issues'[existing[h]] = issues[existing[h]]
    BY <1>1, <1>3, BoundAssumption DEF TypeOK, AtWork, Numbers, Owned
  <1>6. Held(h)'
    BY <1>1, <1>3, <1>4, <1>4a, <1>5 DEF Held
  <1>7. Explained(h)'
    BY <1>1, <1>4, <1>5 DEF Explained, LastIsPass, AtWork
  <1>8. Told(h)'
    <2>1. \A n \in Matching(c) : issues'[n] = issues[n]
      BY <1>3 DEF Matching
    <2>2. QED
      BY <1>1, <1>3, <1>4, <1>4a, <2>1 DEF Told
  <1>9. QED
    BY <1>4b, <1>6, <1>7, <1>8

\* A person disturbs none of it.
LEMMA PersonHolds ==
  ASSUME IssueInv, Person PROVE IssueInv'
  <1>1. TypeOK /\ \A h \in Runs : Owned(h) /\ Busy(h)
    BY DEF IssueInv
  <1>2. UNCHANGED <<pc, page, verdict, existing, outcome>> /\ stray \subseteq stray'
    BY DEF Person, PersonFiles, PersonTitles, PersonCloses, PersonEdits, history
  <1>3. \A h \in Runs : pc[h] \in AtWork => existing[h] \in Numbers
    BY <1>1, BoundAssumption DEF TypeOK, AtWork, Numbers
  <1>4. \A h \in Runs : Owned(h)' /\ Busy(h)'
    BY <1>1, <1>2, <1>3, PersonEffect DEF Owned, Busy
  <1>5. ASSUME OneRunPerCluster
        PROVE  /\ \A g \in Runs : NotMissed(g)' /\ Held(g)' /\ Explained(g)' /\ Told(g)'
               /\ OneOpenIssue' /\ CloseIsExplained'
    <2>1. /\ \A g \in Runs : NotMissed(g) /\ Held(g) /\ Explained(g) /\ Told(g)
          /\ OneOpenIssue /\ CloseIsExplained
      BY <1>5 DEF IssueInv
    <2>2. ASSUME NEW c \in Clusters, c \notin stray' PROVE Matching(c)' \subseteq Matching(c)
      BY <1>1, <2>2, PersonEffect, NoClusterAssumption DEF Matching
    <2>3. ASSUME NEW c \in Clusters, NoneClosed(c)'
          PROVE  NoneClosed(c) /\ Matching(c) \subseteq Matching(c)'
      <3>1. NoneClosed(c)
        BY <1>1, <2>3, PersonEffect DEF NoneClosed
      <3>2. Matching(c) \subseteq Matching(c)'
        BY <1>1, <2>3, PersonEffect DEF NoneClosed, Matching
      <3>3. QED
        BY <3>1, <3>2
    <2>4. ASSUME NEW g \in Runs PROVE Held(g)'
      <3>1. pc[g] \in AtWork => issues'[existing[g]].state \in {"open", "closed"}
        BY <1>1, <1>3, <2>1, PersonEffect DEF Held
      <3>2. pc[g] = "create" /\ ClusterOf[g] \notin stray' => Matching(ClusterOf[g])' = {}
        BY <1>2, <2>1, <2>2, RunAssumption DEF Held
      <3>3. QED
        BY <1>2, <3>1, <3>2 DEF Held
    <2>5. ASSUME NEW g \in Runs PROVE Explained(g)'
      BY <1>1, <1>2, <1>3, <2>1, PersonEffect DEF Explained, LastIsPass, AtWork, Owned
    <2>6. ASSUME NEW g \in Runs PROVE Told(g)'
      <3>1. ASSUME NEW n \in Matching(ClusterOf[g])
            PROVE  issues'[n].body = issues[n].body \/ issues'[n].body = NoBody
        BY <1>1, <3>1, PersonEffect DEF Matching
      <3>2. ClusterOf[g] \in Clusters /\ Told(g)
        BY <2>1, RunAssumption
      <3>3. ASSUME NoneClosed(ClusterOf[g])', pc[g] = "idle",
                   outcome[g] \notin {"none", "errored"}
            PROVE  IF verdict[g] = Pass
                   THEN ClusterOf[g] \in stray' \/ Matching(ClusterOf[g])' = {}
                   ELSE \E n \in Matching(ClusterOf[g])' :
                          \/ issues'[n].body = NoBody
                          \/ Headline[issues'[n].body.news] = Headline[verdict[g]]
        <4>1. /\ NoneClosed(ClusterOf[g])
              /\ Matching(ClusterOf[g]) \subseteq Matching(ClusterOf[g])'
          BY <2>3, <3>2, <3>3
        <4>2. CASE verdict[g] = Pass
          BY <1>2, <2>2, <3>2, <3>3, <4>1, <4>2 DEF Told
        <4>3. CASE verdict[g] # Pass
          BY <3>1, <3>2, <3>3, <4>1, <4>3 DEF Told
        <4>4. QED
          BY <4>2, <4>3
      <3>4. QED
        BY <1>2, <3>3 DEF Told
    <2>7. OneOpenIssue'
      BY <1>2, <1>5, <2>1, <2>2 DEF OneOpenIssue
    <2>8. CloseIsExplained'
      BY <1>1, <1>5, <2>1, PersonEffect DEF CloseIsExplained
    <2>9. ASSUME NEW g \in Runs PROVE NotMissed(g)'
      <3>1. /\ blind[g] => blind'[g]
            /\ blind'[g] \/ page[g] = 1 \/ Shown \subseteq Shown'
        BY <1>1, PersonSight
      <3>2. NotMissed(g) /\ ClusterOf[g] \in Clusters
        BY <2>1, RunAssumption
      <3>3. ClusterOf[g] \notin stray' =>
              /\ ClusterOf[g] \notin stray
              /\ Matching(ClusterOf[g])' \subseteq Matching(ClusterOf[g])
        BY <1>2, <2>2, <3>2
      <3>4. QED
        BY <1>1, <1>2, <3>1, <3>2, <3>3, StaysBehind
    <2>10. QED
      BY <2>4, <2>5, <2>6, <2>7, <2>8, <2>9
  <1>6. Unmolested'
    <2>1. ASSUME People \subseteq {"file"}, NEW n \in Numbers, issues'[n] # issues[n]
          PROVE  issues'[n].state = "open" /\ (issues'[n].tag = Nothing \/ issues'[n].pr)
      BY <1>1, <2>1, PersonEffect
    <2>2. QED
      BY <2>1 DEF IssueInv, Unmolested
  <1>7. QED
    BY <1>1, <1>4, <1>5, <1>6, PersonType DEF IssueInv, OneRunPerCluster

\* A scan that returns nil has overlooked no issue, or leaves its cluster to the strays.
LEMMA NilScan ==
  ASSUME IssueInv, OneRunPerCluster, NEW g \in Runs, FetchShort(g) \/ FetchMissing(g)
  PROVE  LET c == ClusterOf[g]
         IN  \E excused \in BOOLEAN :
               /\ UNCHANGED <<issues, verdict, starts>> /\ pc[g] = "find"
               /\ \/ verdict[g] = Pass /\ Return(g, "noop")
                  \/ verdict[g] # Pass /\ Goto(g, "create")
               /\ \/ Matching(c) = {} /\ stray' = stray \ {c}
                  \/ Matching(c) # {} /\ excused /\ stray' = stray \cup {c}
                  \/ Matching(c) # {} /\ ~excused /\ stray' = stray
               /\ c \notin stray' => Matching(c) = {}
  <1> DEFINE c == ClusterOf[g]
  <1>1. TypeOK /\ NotMissed(g)
    BY DEF IssueInv
  <1>2. PICK excused \in BOOLEAN :
          /\ NotFound(g, excused) /\ pc[g] = "find"
          /\ ~excused => FetchShort(g) /\ ~blind[g]
    <2>1. blind[g] \in BOOLEAN
      BY <1>1 DEF TypeOK
    <2>2. QED
      BY <2>1 DEF FetchShort, FetchMissing
  <1>3. /\ UNCHANGED <<issues, verdict, starts>>
        /\ \/ verdict[g] = Pass /\ Return(g, "noop")
           \/ verdict[g] # Pass /\ Goto(g, "create")
        /\ \/ Matching(c) = {} /\ stray' = stray \ {c}
           \/ Matching(c) # {} /\ excused /\ stray' = stray \cup {c}
           \/ Matching(c) # {} /\ ~excused /\ stray' = stray
    BY <1>1, <1>2, NotFoundEffect
  <1>4. c \notin stray' => Matching(c) = {}
    BY <1>1, <1>2, <1>3, NothingHidden
  <1>5. QED
    BY <1>2, <1>3, <1>4

\* What a run does, call by call, if no other run of its cluster is under way.
LEMMA RunHolds ==
  ASSUME IssueInv, OneRunPerCluster, NEW g \in Runs, Step(g)
  PROVE  /\ NotMissed(g)' /\ Held(g)' /\ Explained(g)' /\ Told(g)'
         /\ OneOpenIssue' /\ CloseIsExplained'
  <1> DEFINE c == ClusterOf[g]
             e == existing[g]
             Goal == /\ NotMissed(g)' /\ Held(g)' /\ Explained(g)' /\ Told(g)'
                     /\ OneOpenIssue' /\ CloseIsExplained'
  <1>1. /\ TypeOK /\ Owned(g) /\ NotMissed(g) /\ Held(g) /\ Explained(g)
        /\ OneOpenIssue /\ CloseIsExplained
    BY DEF IssueInv
  <1>2. Typed /\ c \in Clusters
    BY <1>1, RunAssumption DEF TypeOK, Typed
  <1>3. pc[g] \in AtWork => e \in Numbers
    BY <1>1, BoundAssumption DEF TypeOK, AtWork, Numbers
  <1>4. /\ pc \in [Runs -> Calls]
        /\ outcome \in [Runs -> {"none", "noop", "created", "updated", "closed", "errored"}]
        /\ verdict \in [Runs -> News \cup {Pass}] /\ existing \in [Runs -> 0 .. MaxNumber]
    BY <1>1 DEF TypeOK
  <1>5. c \notin stray => \A m, n \in Matching(c) : m = n
    BY <1>1, <1>2 DEF OneOpenIssue
  <1>6. ASSUME c \notin stray' => \A m, n \in Matching(c)' : m = n
        PROVE  OneOpenIssue'
    <2>1. ASSUME NEW d \in Clusters \ {c}, d \notin stray'
          PROVE  \A m, n \in Matching(d)' : m = n
      <3>1. Matching(d)' = Matching(d)
        BY <1>1, OtherClusters
      <3>2. d \notin stray
        BY <2>1 DEF Step, Begin, FetchHit, FetchShort, FetchFull, Exhausted, FetchMissing,
           NotFound, CommentOnClose, CloseIssue, CreateIssue, UpdateComment, PatchBody,
           CallFails, history
      <3>3. QED
        BY <1>1, <3>1, <3>2 DEF OneOpenIssue
    <2>2. QED
      BY <1>6, <2>1 DEF OneOpenIssue
  <1>7. ASSUME UNCHANGED stray, Matching(c)' \subseteq Matching(c) PROVE OneOpenIssue'
    BY <1>5, <1>6, <1>7
  <1>8. ASSUME UNCHANGED issues
        PROVE  /\ CloseIsExplained' /\ Matching(c)' = Matching(c)
               /\ UNCHANGED stray => OneOpenIssue'
    <2>1. CloseIsExplained' /\ Matching(c)' = Matching(c)
      BY <1>1, <1>8 DEF CloseIsExplained, Matching
    <2>2. QED
      BY <1>7, <2>1
  <1>8a. ASSUME pc'[g] # "find" \/ page'[g] = 1 PROVE NotMissed(g)'
    <2>1. ASSUME page'[g] = 1, NEW m PROVE Before(Shown', m) >= (page'[g] - 1) * PageSize
      <3>1. Before(Shown', m) \in Nat
        BY ShownIsFinite, BeforeIsNat
      <3>2. (page'[g] - 1) * PageSize = 0
        BY <2>1, PageSizeAssumption
      <3>3. QED
        BY <3>1, <3>2
    <2>2. QED
      BY <1>8a, <2>1 DEF NotMissed, Before
  <1> USE DEF Goto, Return, Errored, Called, CalledLast
  <1>9. ASSUME NEW v \in News \cup {Pass}, Begin(g, v)
        PROVE  Goal
    <2>1. page'[g] = 1
      BY <1>1, <1>9 DEF Begin, TypeOK
    <2>2. NotMissed(g)'
      BY <1>8a, <2>1
    <2>3. QED
      BY <1>4, <1>8, <1>9, <2>2 DEF Begin, Held, Explained, Told, AtWork, history
  <1>10. ASSUME FetchShort(g) \/ FetchMissing(g) PROVE Goal
    <2>1. PICK excused \in BOOLEAN :
            /\ UNCHANGED <<issues, verdict, starts>> /\ pc[g] = "find"
            /\ \/ verdict[g] = Pass /\ Return(g, "noop")
               \/ verdict[g] # Pass /\ Goto(g, "create")
            /\ c \notin stray' => Matching(c) = {}
      BY <1>10, NilScan
    <2>2. /\ UNCHANGED <<issues, verdict>>
          /\ \/ verdict[g] = Pass /\ Return(g, "noop")
             \/ verdict[g] # Pass /\ Goto(g, "create")
      BY <2>1
    <2>3. c \notin stray' => Matching(c) = {}
      BY <2>1
    <2>4. Matching(c)' = Matching(c) /\ CloseIsExplained'
      BY <1>8, <2>2
    <2>5. OneOpenIssue'
      BY <1>6, <2>3, <2>4
    <2>6. pc'[g] \in {"idle", "create"}
      BY <1>4, <2>2
    <2>7. NotMissed(g)'
      BY <1>8a, <2>6
    <2>8. Held(g)' /\ Explained(g)'
      BY <2>3, <2>4, <2>6 DEF Held, Explained, AtWork
    <2>9. Told(g)'
      <3>1. CASE verdict[g] = Pass
        BY <2>2, <2>3, <2>4, <3>1 DEF Told
      <3>2. CASE verdict[g] # Pass
        BY <1>4, <2>2, <3>2 DEF Told
      <3>3. QED
        BY <3>1, <3>2
    <2>10. QED
      BY <2>4, <2>5, <2>7, <2>8, <2>9
  <1>10a. ASSUME FetchFull(g) PROVE Goal
    <2>1. /\ UNCHANGED <<issues, pc, verdict, existing, outcome, stray>> /\ pc[g] = "find"
          /\ page'[g] = page[g] + 1 /\ (blind'[g] <=> blind[g]) /\ Fetched(g) = {}
      BY <1>1, <1>10a DEF FetchFull, history, TypeOK
    <2>2. OneOpenIssue' /\ CloseIsExplained' /\ Matching(c)' = Matching(c) /\ Shown' = Shown
      BY <1>8, <2>1 DEF Shown
    <2>3. NotMissed(g)'
      <3>1. ASSUME ~blind[g], c \notin stray, NEW m \in Matching(c)
            PROVE  Before(Shown, m) >= page[g] * PageSize
        BY <1>1, <2>1, <3>1, BehindThePage
      <3>2. page'[g] - 1 = page[g]
        BY <1>1, <2>1, BoundAssumption DEF TypeOK
      <3>3. QED
        BY <2>1, <2>2, <3>1, <3>2 DEF NotMissed, Before
    <2>4. Held(g)' /\ Explained(g)' /\ Told(g)'
      BY <2>1 DEF Held, Explained, Told, AtWork
    <2>5. QED
      BY <2>2, <2>3, <2>4
  <1>11. ASSUME FetchHit(g) PROVE Goal
    <2>1. PICK n \in Newest(Fetched(g)) :
            /\ existing' = [existing EXCEPT ![g] = n]
            /\ IF verdict[g] = Pass THEN Goto(g, "comment-on-close")
               ELSE IF UpToDate(issues[n].body, c, verdict[g]) THEN Return(g, "noop")
               ELSE Goto(g, "update-comment")
      BY <1>11 DEF FetchHit
    <2>2. /\ UNCHANGED <<issues, verdict, stray>> /\ n \in Matching(c)
          /\ issues[n].state = "open" /\ existing'[g] = n
      BY <1>4, <1>11, <2>1 DEF FetchHit, Newest, Fetched, Matching
    <2>3. Held(g)' /\ Explained(g)'
      BY <1>4, <2>1, <2>2 DEF Held, Explained, AtWork
    <2>4. Told(g)'
      BY <1>4, <1>8, <2>1, <2>2 DEF Told, UpToDate
    <2>5. NotMissed(g)'
      BY <1>4, <1>8a, <2>1
    <2>6. QED
      BY <1>8, <2>2, <2>3, <2>4, <2>5
  <1>12. ASSUME CommentOnClose(g)
         PROVE  Goal
    <2>1. /\ pc[g] = "comment-on-close" /\ e \in Numbers /\ existing'[g] = e
          /\ issues[e].state \in {"open", "closed"} /\ issues[e].comments \in Seq(News \cup {Pass})
      BY <1>1, <1>2, <1>3, <1>12 DEF CommentOnClose, AtWork, Held, Typed, Issue
    <2>2. /\ \A m \in Numbers : m # e => issues'[m] = issues[m]
          /\ issues'[e].state = issues[e].state /\ issues'[e].tag = issues[e].tag
          /\ issues'[e].pr = issues[e].pr
          /\ issues'[e].comments = Append(issues[e].comments, Pass)
      BY <1>2, <1>12, <2>1, CommentEffect DEF CommentOnClose
    <2>3. /\ issues'[e].comments # <<>>
          /\ issues'[e].comments[Len(issues'[e].comments)] = Pass
      <3>1. ASSUME NEW s \in Seq(News \cup {Pass})
            PROVE  Append(s, Pass) # <<>> /\ Append(s, Pass)[Len(Append(s, Pass))] = Pass
        OBVIOUS
      <3>2. QED
        BY <2>1, <2>2, <3>1
    <2>4. Matching(c)' = Matching(c)
      BY <2>2 DEF Matching
    <2>5. Held(g)' /\ Explained(g)' /\ Told(g)'
      BY <1>4, <1>12, <2>1, <2>2, <2>3 DEF CommentOnClose, Held, Explained, Told, AtWork, LastIsPass
    <2>6. CloseIsExplained'
      BY <1>1, <2>1, <2>2 DEF CloseIsExplained
    <2>7. NotMissed(g)' /\ UNCHANGED stray
      BY <1>4, <1>8a, <1>12 DEF CommentOnClose, history
    <2>8. QED
      BY <1>7, <2>4, <2>5, <2>6, <2>7
  <1>13. ASSUME CloseIssue(g)
         PROVE  Goal
    <2>1. /\ pc[g] = "close" /\ e \in Numbers /\ verdict[g] = Pass /\ LastIsPass(e)
          /\ issues[e].state \in {"open", "closed"} /\ issues[e].tag = c /\ ~issues[e].pr
      BY <1>1, <1>3, <1>13 DEF CloseIssue, AtWork, Held, Explained, Owned, TypeOK
    <2>2. /\ \A m \in Numbers : m # e => issues'[m] = issues[m]
          /\ issues'[e].tag = issues[e].tag /\ issues'[e].pr = issues[e].pr
          /\ issues'[e].comments = issues[e].comments
          /\ issues'[e].state = IF issues[e].state = "open" THEN "resolved" ELSE issues[e].state
      BY <1>2, <1>13, <2>1, CloseEffect DEF CloseIssue
    <2>3. Matching(c)' = Matching(c) \ {e}
      BY <2>1, <2>2 DEF Matching
    <2>4. NoneClosed(c)' => c \in stray \/ Matching(c)' = {}
      <3>1. NoneClosed(c)' => issues[e].state = "open"
        BY <2>1, <2>2 DEF NoneClosed
      <3>2. issues[e].state = "open" => e \in Matching(c)
        BY <2>1 DEF Matching
      <3>3. QED
        BY <1>5, <2>3, <3>1, <3>2
    <2>5. Held(g)' /\ Explained(g)' /\ Told(g)'
      BY <1>4, <1>13, <2>1, <2>4 DEF CloseIssue, Held, Explained, Told, AtWork
    <2>5a. NotMissed(g)' /\ UNCHANGED stray
      BY <1>4, <1>8a, <1>13 DEF CloseIssue
    <2>6. CloseIsExplained'
      BY <1>1, <2>1, <2>2 DEF CloseIsExplained, LastIsPass
    <2>7. QED
      BY <1>7, <2>3, <2>5, <2>5a, <2>6
  <1>14. ASSUME CreateIssue(g)
         PROVE  Goal
    <2>1. /\ pc[g] = "create" /\ verdict[g] \in News /\ verdict[g] # Pass
          /\ c \notin stray => Matching(c) = {}
          /\ Body(c, verdict[g]) \in Bodies
      BY <1>1, <1>2, <1>14, BodyType DEF CreateIssue, Held, TypeOK
    <2>2. PICK n \in Free : Filed(n, c, FALSE, Body(c, verdict[g]))
      BY <1>14 DEF CreateIssue, createIssue
    <2>3. /\ n \in Numbers
          /\ \A m \in Numbers : m # n => issues'[m] = issues[m]
          /\ issues'[n].state = "open" /\ issues'[n].tag = c /\ issues'[n].pr = FALSE
          /\ issues'[n].body = Body(c, verdict[g])
      BY <1>2, <2>1, <2>2, FiledEffect DEF Free
    <2>4. n \in Matching(c)' /\ Matching(c)' \subseteq Matching(c) \cup {n}
      BY <2>1, <2>3 DEF Matching
    <2>4a. NotMissed(g)' /\ UNCHANGED stray
      BY <1>4, <1>8a, <1>14 DEF CreateIssue, history
    <2>4b. OneOpenIssue'
      BY <1>6, <2>1, <2>4, <2>4a
    <2>5. issues'[n].body.news = verdict[g]
      BY <2>3 DEF Body
    <2>6. Told(g)'
      BY <1>4, <1>14, <2>1, <2>4, <2>5 DEF CreateIssue, Told
    <2>7. Held(g)' /\ Explained(g)'
      BY <1>4, <1>14 DEF CreateIssue, Held, Explained, AtWork
    <2>8. CloseIsExplained'
      BY <1>1, <2>3 DEF CloseIsExplained
    <2>9. QED
      BY <2>4a, <2>4b, <2>6, <2>7, <2>8
  <1>15. ASSUME UpdateComment(g)
         PROVE  Goal
    <2>1. /\ pc[g] = "update-comment" /\ e \in Numbers /\ existing'[g] = e
          /\ issues[e].state \in {"open", "closed"} /\ verdict[g] \in News \cup {Pass}
      BY <1>1, <1>3, <1>4, <1>15 DEF UpdateComment, AtWork, Held
    <2>2. /\ \A m \in Numbers : m # e => issues'[m] = issues[m]
          /\ issues'[e].state = issues[e].state /\ issues'[e].tag = issues[e].tag
          /\ issues'[e].pr = issues[e].pr
      BY <1>2, <1>15, <2>1, CommentEffect DEF UpdateComment
    <2>3. Matching(c)' = Matching(c)
      BY <2>2 DEF Matching
    <2>4. Held(g)' /\ Explained(g)' /\ Told(g)'
      BY <1>4, <1>15, <2>1, <2>2 DEF UpdateComment, Held, Explained, Told, AtWork
    <2>5. CloseIsExplained'
      BY <1>1, <2>1, <2>2 DEF CloseIsExplained
    <2>6. NotMissed(g)' /\ UNCHANGED stray
      BY <1>4, <1>8a, <1>15 DEF UpdateComment, history
    <2>7. QED
      BY <1>7, <2>3, <2>4, <2>5, <2>6
  <1>16. ASSUME PatchBody(g)
         PROVE  Goal
    <2>1. /\ pc[g] = "patch-body" /\ e \in Numbers /\ verdict[g] \in News /\ verdict[g] # Pass
          /\ issues[e].state \in {"open", "closed"} /\ issues[e].tag = c /\ ~issues[e].pr
          /\ Body(c, verdict[g]) \in Bodies
      BY <1>1, <1>2, <1>3, <1>16, BodyType DEF PatchBody, AtWork, Held, Owned, TypeOK
    <2>2. /\ \A m \in Numbers : m # e => issues'[m] = issues[m]
          /\ issues'[e].state = issues[e].state /\ issues'[e].tag = issues[e].tag
          /\ issues'[e].pr = issues[e].pr /\ issues'[e].comments = issues[e].comments
          /\ issues'[e].body = Body(c, verdict[g])
      BY <1>2, <1>16, <2>1, PatchEffect DEF PatchBody
    <2>3. Matching(c)' = Matching(c)
      BY <2>2 DEF Matching
    <2>4. issues'[e].body.news = verdict[g]
      BY <2>2 DEF Body
    <2>5. NoneClosed(c)' => e \in Matching(c)'
      BY <2>1, <2>2 DEF NoneClosed, Matching
    <2>6. Told(g)'
      BY <1>4, <1>16, <2>1, <2>4, <2>5 DEF PatchBody, Told
    <2>7. Held(g)' /\ Explained(g)'
      BY <1>4, <1>16 DEF PatchBody, Held, Explained, AtWork
    <2>8. CloseIsExplained'
      BY <1>1, <2>1, <2>2 DEF CloseIsExplained
    <2>9. NotMissed(g)' /\ UNCHANGED stray
      BY <1>4, <1>8a, <1>16 DEF PatchBody, history
    <2>10. QED
      BY <1>7, <2>3, <2>6, <2>7, <2>8, <2>9
  <1>17. ASSUME CallFails(g) \/ Exhausted(g) PROVE Goal
    <2>1. NotMissed(g)'
      BY <1>4, <1>8a, <1>17 DEF CallFails, Exhausted
    <2>2. QED
      BY <1>4, <1>8, <1>17, <2>1 DEF CallFails, Exhausted, Held, Explained, Told, AtWork
  <1>18. QED
    BY <1>9, <1>10, <1>10a, <1>11, <1>12, <1>13, <1>14, <1>15, <1>16, <1>17 DEF Step

\* The invariant holds to begin with: at most one issue is open, of a run from before the
\* cluster tags.
LEMMA InitHolds == Init => IssueInv
  <1> SUFFICES ASSUME Init PROVE IssueInv
    OBVIOUS
  <1>1. TypeOK
    BY InitTypeOK
  <1>2. \A g \in Runs : pc[g] = "idle" /\ outcome[g] = "none"
    BY DEF Init
  <1>3. \A n \in Numbers :
          /\ n = 1 => issues[n].state \in {"absent", "open"}
          /\ n # 1 => issues[n].state = "absent"
          /\ issues[n].state = "open" => issues[n].body.news \in News
    <2>1. CASE issues = [n \in Numbers |-> NoIssue]
      BY <2>1 DEF NoIssue
    <2>2. ASSUME NEW m \in News,
                 issues = [n \in Numbers |->
                     IF n = 1 THEN [NoIssue EXCEPT !.state = "open", !.tag = Legacy,
                                                   !.body = Body(Legacy, m)]
                              ELSE NoIssue]
          PROVE  \A n \in Numbers :
                   /\ n = 1 => issues[n].state \in {"absent", "open"}
                   /\ n # 1 => issues[n].state = "absent"
                   /\ issues[n].state = "open" => issues[n].body.news \in News
      <3> DEFINE old == [NoIssue EXCEPT !.state = "open", !.tag = Legacy, !.body = Body(Legacy, m)]
      <3>1. old.state = "open" /\ old.body.news \in News
        BY DEF NoIssue, Body
      <3>2. NoIssue.state = "absent"
        BY DEF NoIssue
      <3>3. QED
        BY <2>2, <3>1, <3>2
    <2>3. QED
      BY <2>1, <2>2 DEF Init
  <1>4. OneOpenIssue /\ CloseIsExplained
    BY <1>3 DEF OneOpenIssue, CloseIsExplained, Matching
  <1>5. \A g \in Runs :
          Owned(g) /\ Busy(g) /\ NotMissed(g) /\ Held(g) /\ Explained(g) /\ Told(g)
    BY <1>2 DEF Owned, Busy, NotMissed, Held, Explained, Told, AtWork
  <1>6. QED
    BY <1>1, <1>3, <1>4, <1>5 DEF IssueInv, Unmolested

\* The inductive invariant of the issues of a repository.
THEOREM IssueInvariance == Spec => []IssueInv
  <1>1. ASSUME IssueInv, NEW g \in Runs, Step(g) PROVE IssueInv'
    <2>1. TypeOK' /\ Unmolested' /\ \A h \in Runs : Owned(h)' /\ Busy(h)'
      BY <1>1, StepType, StepOwned, StepQuiet DEF IssueInv
    <2>2. ASSUME OneRunPerCluster
          PROVE  /\ \A h \in Runs : NotMissed(h)' /\ Held(h)' /\ Explained(h)' /\ Told(h)'
                 /\ OneOpenIssue' /\ CloseIsExplained'
      BY <1>1, <2>2, RunHolds, OthersHold
    <2>3. QED
      BY <2>1, <2>2 DEF IssueInv, OneRunPerCluster
  <1>2. ASSUME IssueInv, UNCHANGED vars PROVE IssueInv'
    <2>1. TypeOK' /\ Unmolested'
      BY <1>2 DEF vars, history, IssueInv, TypeOK, Unmolested
    <2>2. \A g \in Runs : Owned(g)' /\ Busy(g)'
      BY <1>2 DEF vars, IssueInv, Owned, Busy
    <2>3. \A c : Matching(c)' = Matching(c) /\ NoneClosed(c)' = NoneClosed(c)
      BY <1>2 DEF vars, Matching, NoneClosed
    <2>4. ASSUME OneRunPerCluster, NEW g \in Runs
          PROVE  NotMissed(g)' /\ Held(g)' /\ Explained(g)' /\ Told(g)'
      <3>1. NotMissed(g) /\ Held(g) /\ Explained(g) /\ Told(g)
        BY <1>2, <2>4 DEF IssueInv
      <3>1a. NotMissed(g)'
        BY <1>2, <2>3, <3>1 DEF vars, history, NotMissed, Before, Shown
      <3>2. Held(g)' /\ Explained(g)'
        BY <1>2, <2>3, <3>1 DEF vars, history, Held, Explained, LastIsPass
      <3>3. Told(g)'
        BY <1>2, <2>3, <3>1 DEF vars, history, Told
      <3>4. QED
        BY <3>1a, <3>2, <3>3
    <2>5. OneRunPerCluster => OneOpenIssue' /\ CloseIsExplained'
      BY <1>2, <2>3 DEF vars, history, IssueInv, OneOpenIssue, CloseIsExplained
    <2>6. QED
      BY <2>1, <2>2, <2>4, <2>5 DEF IssueInv, OneRunPerCluster
  <1>3. IssueInv /\ [Next]_vars => IssueInv'
    BY <1>1, <1>2, PersonHolds DEF Next
  <1>4. QED
    BY <1>3, InitHolds, PTL DEF Spec

\* Every reachable state of repository and runs is well typed.
THEOREM IssuesTypeCorrect == Spec => []TypeOK
  BY IssueInvariance, PTL DEF IssueInv

\* As long as the runs of a cluster do not overlap, it has two open issues in a repository
\* only after one was overlooked, because a list was answered 404 or 422 or an issue was
\* closed between two pages of a scan, or after a person filed one under its title: neither
\* the pages and their bound nor calls that fail or lose their answers bring it about.
THEOREM OneIssueHolds == Spec => []OneOpenIssue
  <1>1. IssueInv => OneOpenIssue
    BY DEF IssueInv, OneOpenIssue
  <1>2. QED
    BY <1>1, IssueInvariance, PTL

\* In a repository whose open issues and pull requests fill no page, whose list is never
\* answered 404 or 422, and where nobody files issues under the gate's titles, nothing is
\* overlooked: there "One issue per service per repo PER CLUSTER" holds of every cluster
\* whose runs do not overlap.
THEOREM OnePageOneIssue ==
  ASSUME OneRunPerCluster, MaxNumber < PageSize, "missing" \notin Faults, "title" \notin People
  PROVE  Spec => []OneIssuePerCluster
  <1> DEFINE Small == stray = {} /\ \A g \in Runs : page[g] = 1 /\ ~blind[g]
  <1>1. ASSUME NEW g \in Runs PROVE ~FetchFull(g)
    <2>1. IsFiniteSet(Numbers) /\ Cardinality(Numbers) = MaxNumber /\ MaxNumber \in Nat
      BY BoundAssumption, FS_Interval DEF Numbers
    <2>2. OnPage(Shown, page[g]) \subseteq Numbers
      BY DEF OnPage, Shown
    <2>3. Cardinality(OnPage(Shown, page[g])) <= MaxNumber
      BY <2>1, <2>2, FS_Subset
    <2>4. Cardinality(OnPage(Shown, page[g])) \in Nat
      BY ShownIsFinite, BeforeIsNat
    <2>5. Short(Shown, page[g])
      BY <2>1, <2>3, <2>4, PageSizeAssumption DEF Short
    <2>6. QED
      BY <2>5 DEF FetchFull
  <1>2. Init => Small
    BY DEF Init
  <1>3. ASSUME IssueInv, Small, NEW g \in Runs, Step(g) PROVE Small'
    <2>1. PagesTyped /\ pc \in [Runs -> Calls]
      BY <1>3 DEF IssueInv, TypeOK, PagesTyped, NoPage
    <2>2. stray' = {}
      <3>1. CASE FetchShort(g)
        <4>1. Matching(ClusterOf[g]) # {} => stray' = stray
          BY <1>3, <3>1 DEF FetchShort, NotFound
        <4>2. Matching(ClusterOf[g]) = {} => stray' = stray \ {ClusterOf[g]}
          BY <1>3, <3>1 DEF FetchShort, NotFound
        <4>3. QED
          BY <1>3, <4>1, <4>2
      <3>2. CASE ~FetchShort(g)
        BY <1>3, <3>2 DEF Step, Begin, FetchHit, FetchFull, Exhausted, FetchMissing,
           CommentOnClose, CloseIssue, CreateIssue, UpdateComment, PatchBody, CallFails, history
      <3>3. QED
        BY <3>1, <3>2
    <2>3. ASSUME NEW h \in Runs PROVE page'[h] = 1 /\ ~blind'[h]
      <3>1. page[h] = 1 /\ ~blind[h]
        BY <1>3
      <3>2. CASE CloseIssue(g)
        <4>1. Closes(existing[g]) /\ UNCHANGED page
          BY <3>2 DEF CloseIssue
        <4>2. QED
          BY <2>1, <3>1, <4>1, ClosesEffect
      <3>3. CASE ~CloseIssue(g)
        BY <1>1, <1>3, <2>1, <3>1, <3>3 DEF Step, Begin, FetchHit, FetchShort, Exhausted,
           FetchMissing, NotFound, Scanned, CommentOnClose, CreateIssue, UpdateComment,
           PatchBody, CallFails, history, PagesTyped
      <3>4. QED
        BY <3>2, <3>3
    <2>4. QED
      BY <2>2, <2>3
  <1>4. ASSUME IssueInv, Small, Person PROVE Small'
    <2>1. PagesTyped
      BY <1>4 DEF IssueInv, TypeOK, PagesTyped, NoPage
    <2>2. UNCHANGED <<page, stray>>
      BY <1>4 DEF Person, PersonFiles, PersonTitles, PersonCloses, PersonEdits, history
    <2>3. ASSUME NEW h \in Runs PROVE ~blind'[h]
      <3>1. page[h] = 1 /\ ~blind[h]
        BY <1>4
      <3>2. ASSUME NEW n \in Numbers, PersonCloses(n) PROVE ~blind'[h]
        BY <2>1, <3>1, <3>2, ClosesEffect DEF PersonCloses
      <3>3. QED
        BY <1>4, <3>1, <3>2 DEF Person, PersonFiles, PersonTitles, PersonEdits, history
    <2>4. QED
      BY <1>4, <2>2, <2>3
  <1>5. ASSUME Small, UNCHANGED vars PROVE Small'
    BY <1>5 DEF vars, history
  <1>6. IssueInv /\ Small => OneIssuePerCluster
    BY DEF IssueInv, OneOpenIssue, OneIssuePerCluster
  <1>7. IssueInv /\ Small /\ [Next]_vars => Small'
    BY <1>3, <1>4, <1>5 DEF Next
  <1> HIDE DEF Small
  <1>8. QED
    BY <1>2, <1>6, <1>7, IssueInvariance, PTL DEF Spec

\* An issue that the gate has closed names the pass that resolved it.
THEOREM CloseHolds == Spec => []CloseIsExplained
  <1>1. IssueInv => CloseIsExplained
    BY DEF IssueInv, CloseIsExplained
  <1>2. QED
    BY <1>1, IssueInvariance, PTL

\* What EnsureBlockingIssue reports without an error is so, and stays so until the next
\* report, as long as people leave the issues of the cluster alone; a pass may leave one
\* open only if a scan overlooked it, or a person filed it.
THEOREM OutcomeHolds == Spec => []OutcomeIsTrue
  <1>1. IssueInv => OutcomeIsTrue
    <2> SUFFICES ASSUME IssueInv, OneRunPerCluster, NEW g \in Runs, LeftAlone(ClusterOf[g]),
                        pc[g] = "idle", outcome[g] \notin {"none", "errored"}
                 PROVE  IF verdict[g] = Pass
                        THEN ClusterOf[g] \in stray \/ Matching(ClusterOf[g]) = {}
                        ELSE \E n \in Matching(ClusterOf[g]) :
                               Headline[issues[n].body.news] = Headline[verdict[g]]
      BY DEF OutcomeIsTrue
    <2>1. Told(g) /\ NoneClosed(ClusterOf[g])
      BY DEF IssueInv, LeftAlone, NoneClosed
    <2>2. \A n \in Matching(ClusterOf[g]) : issues[n].body # NoBody
      BY DEF LeftAlone, Matching
    <2>3. QED
      BY <2>1, <2>2 DEF Told
  <1>2. QED
    BY <1>1, IssueInvariance, PTL

\* No step of a run, overlapping or not, touches a pull request, an issue under a title of
\* its own or one of another cluster.
THEOREM OthersHoldStill == Spec => OthersUntouched
  <1>1. ASSUME IssueInv, NEW g \in Runs, Step(g), NEW n \in Numbers,
               issues[n].state # "absent", issues'[n] # issues[n]
        PROVE  ~issues[n].pr /\ issues[n].tag = ClusterOf[g]
    <2>1. TypeOK /\ Owned(g)
      BY <1>1 DEF IssueInv
    <2>2. QED
      BY <1>1, <2>1, StepEffect DEF Owned
  <1>2. IssueInv /\ [Next]_vars =>
          [\A g \in Runs : Step(g) =>
             \A n \in Numbers :
               issues[n].state # "absent" /\ issues'[n] # issues[n] =>
                 ~issues[n].pr /\ issues[n].tag = ClusterOf[g]]_vars
    BY <1>1
  <1>3. QED
    BY <1>2, IssueInvariance, PTL DEF Spec, OthersUntouched

-----------------------------------------------------------------------------
(* IssueLifecycle implements BlockingIssue *)

\* The only run of a cluster, and the only one under way.
LEMMA TheRun ==
  ASSUME OneRunPerCluster, NEW g \in Runs
  PROVE  (CHOOSE h \in Runs : ClusterOf[h] = ClusterOf[g]) = g
  BY DEF OneRunPerCluster

\* The same among those whose place is not "idle".
LEMMA TheBusyRun ==
  ASSUME OneRunPerCluster, NEW g \in Runs, NEW place, place[g] # "idle"
  PROVE  (CHOOSE h \in Runs : ClusterOf[h] = ClusterOf[g] /\ place[h] # "idle") = g
  BY DEF OneRunPerCluster

\* What the promise sees of a cluster with a run, before and after a step.
LEMMA RunView ==
  ASSUME OneRunPerCluster, NEW g \in Runs
  PROVE  LET c == ClusterOf[g]
         IN  /\ ReportOf(c) = IF pc[g] # "idle" THEN verdict[g] ELSE Nothing
             /\ ReportOf(c)' = IF pc'[g] # "idle" THEN verdict'[g] ELSE Nothing
             /\ LastOf(c) = verdict[g] /\ LastOf(c)' = verdict'[g]
             /\ ToldOf(c) <=> outcome[g] \notin {"none", "errored"}
             /\ ToldOf(c)' <=> outcome'[g] \notin {"none", "errored"}
  <1>1. \A h \in Runs : ClusterOf[h] = ClusterOf[g] <=> h = g
    BY DEF OneRunPerCluster
  <1>2. ReportOf(ClusterOf[g]) = IF pc[g] # "idle" THEN verdict[g] ELSE Nothing
    BY <1>1, TheBusyRun DEF ReportOf
  <1>3. ReportOf(ClusterOf[g])' = IF pc'[g] # "idle" THEN verdict'[g] ELSE Nothing
    BY <1>1, TheBusyRun DEF ReportOf
  <1>4. LastOf(ClusterOf[g]) = verdict[g] /\ LastOf(ClusterOf[g])' = verdict'[g]
    BY TheRun DEF LastOf
  <1>5. /\ ToldOf(ClusterOf[g]) <=> outcome[g] \notin {"none", "errored"}
        /\ ToldOf(ClusterOf[g])' <=> outcome'[g] \notin {"none", "errored"}
    BY <1>1 DEF ToldOf
  <1>6. QED
    BY <1>2, <1>3, <1>4, <1>5

\* And of one without.
LEMMA NoRunView ==
  ASSUME NEW c, \A h \in Runs : ClusterOf[h] # c
  PROVE  /\ ReportOf(c) = Nothing /\ ReportOf(c)' = Nothing
         /\ LastOf(c) = Pass /\ LastOf(c)' = Pass
         /\ ToldOf(c) = FALSE /\ ToldOf(c)' = FALSE
  BY DEF ReportOf, LastOf, ToldOf

\* The flags of a cluster whose issues do not change.
LEMMA FlagsStay ==
  ASSUME NEW c, Matching(c)' = Matching(c),
         \A n \in Matching(c) : issues'[n].body.news = issues[n].body.news
  PROVE  FlagsOf(c)' = FlagsOf(c)
  BY DEF FlagsOf

\* A step that leaves a cluster's issues and runs alone leaves its view alone.
LEMMA OtherView ==
  ASSUME OneRunPerCluster, IssueInv, NEW g \in Runs, Step(g),
         NEW c \in Clusters, c # ClusterOf[g]
  PROVE  /\ FlagsOf(c)' = FlagsOf(c) /\ ReportOf(c)' = ReportOf(c)
         /\ LastOf(c)' = LastOf(c) /\ ToldOf(c)' = ToldOf(c)
  <1>1. TypeOK /\ Owned(g)
    BY DEF IssueInv
  <1>2. /\ Matching(c)' = Matching(c)
        /\ \A n \in Matching(c) : issues'[n] = issues[n]
    BY <1>1, OtherClusters DEF Matching
  <1>3. FlagsOf(c)' = FlagsOf(c)
    BY <1>2, FlagsStay
  <1>4. CASE \A h \in Runs : ClusterOf[h] # c
    BY <1>3, <1>4, NoRunView
  <1>5. ASSUME NEW h \in Runs, ClusterOf[h] = c
        PROVE  ReportOf(c)' = ReportOf(c) /\ LastOf(c)' = LastOf(c) /\ ToldOf(c)' = ToldOf(c)
    <2>1. /\ pc'[h] = pc[h] /\ verdict'[h] = verdict[h] /\ outcome'[h] = outcome[h]
      BY <1>1, <1>5, OtherRuns
    <2>2. ToldOf(c)' <=> ToldOf(c)
      BY <1>5, <2>1, RunView
    <2>3. QED
      BY <1>5, <2>1, <2>2, RunView DEF ToldOf
  <1>6. QED
    BY <1>3, <1>4, <1>5

\* How the flags of a cluster may stand at the end of a report.
RaisedFor(c) ==
  /\ Promise!Wanted(ReportOf(c)) \subseteq FlagsOf(c)'
  /\ FlagsOf(c)' \subseteq FlagsOf(c) \cup Promise!Wanted(ReportOf(c))
  /\ c \notin stray' => FlagsOf(c)' = Promise!Wanted(ReportOf(c))

\* What a look may do to the doubts.
LookedFor(c) ==
  \/ stray' = stray
  \/ FlagsOf(c) = {} /\ stray' = stray \ {c}
  \/ FlagsOf(c) # {} /\ stray' = stray \cup {c}

\* A step of which the promise sees nothing, or the begin of a report, its look, its
\* success or its end without one, in one cluster, is a step of the promise.
LEMMA Conclude ==
  ASSUME NEW c \in Clusters,
         \A d \in Clusters \ {c} :
           /\ FlagsOf(d)' = FlagsOf(d) /\ ReportOf(d)' = ReportOf(d)
           /\ LastOf(d)' = LastOf(d) /\ ToldOf(d)' = ToldOf(d),
         \/ /\ FlagsOf(c)' = FlagsOf(c) /\ ReportOf(c)' = ReportOf(c)
            /\ LastOf(c)' = LastOf(c) /\ ToldOf(c)' = ToldOf(c) /\ stray' = stray
         \/ \E v \in News \cup {Pass} :
              /\ FlagsOf(c)' = FlagsOf(c) /\ ReportOf(c) = Nothing /\ ReportOf(c)' = v
              /\ LastOf(c)' = v /\ ToldOf(c)' = FALSE /\ stray' = stray
         \/ /\ FlagsOf(c)' = FlagsOf(c) /\ ReportOf(c) # Nothing
            /\ ReportOf(c)' = ReportOf(c) /\ LookedFor(c)
            /\ LastOf(c)' = LastOf(c) /\ ToldOf(c)' = ToldOf(c)
         \/ /\ LookedFor(c) /\ RaisedFor(c)
            /\ ReportOf(c) # Nothing /\ ReportOf(c)' = Nothing
            /\ LastOf(c)' = LastOf(c) /\ ToldOf(c)' = TRUE
         \/ /\ FlagsOf(c)' = FlagsOf(c) \/ RaisedFor(c)
            /\ stray' = stray /\ ReportOf(c) # Nothing /\ ReportOf(c)' = Nothing
            /\ LastOf(c)' = LastOf(c) /\ ToldOf(c)' = ToldOf(c)
  PROVE  [Promise!Next]_(Promise!vars)
  <1> DEFINE flags == [d \in Clusters |-> FlagsOf(d)]
             report == [d \in Clusters |-> ReportOf(d)]
             last == [d \in Clusters |-> LastOf(d)]
             told == [d \in Clusters |-> ToldOf(d)]
  <1>1. /\ flags' = [flags EXCEPT ![c] = FlagsOf(c)']
        /\ report' = [report EXCEPT ![c] = ReportOf(c)']
        /\ last' = [last EXCEPT ![c] = LastOf(c)'] /\ told' = [told EXCEPT ![c] = ToldOf(c)']
    OBVIOUS
  <1>2. /\ FlagsOf(c)' = FlagsOf(c) => flags' = flags
        /\ ReportOf(c)' = ReportOf(c) => report' = report
        /\ LastOf(c)' = LastOf(c) => last' = last
        /\ ToldOf(c)' = ToldOf(c) => told' = told
    OBVIOUS
  <1>3. report[c] = ReportOf(c) /\ flags[c] = FlagsOf(c)
    OBVIOUS
  <1>3a. LookedFor(c) => Promise!Looked(c)
    BY <1>3 DEF LookedFor, Promise!Looked
  <1>3b. RaisedFor(c) => Promise!Raised(c)
    <2>1. SUFFICES ASSUME RaisedFor(c) PROVE Promise!Raised(c)
      OBVIOUS
    <2> DEFINE up == FlagsOf(c)'
    <2>2. /\ up \in SUBSET (flags[c] \cup Promise!Wanted(report[c]))
          /\ Promise!Wanted(report[c]) \subseteq up
          /\ c \notin stray' => up = Promise!Wanted(report[c])
          /\ flags' = [flags EXCEPT ![c] = up]
      BY <1>1, <1>3, <2>1 DEF RaisedFor
    <2> HIDE DEF up
    <2>3. QED
      BY <2>2 DEF Promise!Raised
  <1>4. CASE /\ FlagsOf(c)' = FlagsOf(c) /\ ReportOf(c)' = ReportOf(c)
             /\ LastOf(c)' = LastOf(c) /\ ToldOf(c)' = ToldOf(c) /\ stray' = stray
    BY <1>2, <1>4 DEF Promise!vars
  <1>5. ASSUME NEW v \in News \cup {Pass},
               /\ FlagsOf(c)' = FlagsOf(c) /\ ReportOf(c) = Nothing /\ ReportOf(c)' = v
               /\ LastOf(c)' = v /\ ToldOf(c)' = FALSE /\ stray' = stray
        PROVE  Promise!Report(c, v)
    BY <1>1, <1>2, <1>3, <1>5 DEF Promise!Report
  <1>6. CASE /\ FlagsOf(c)' = FlagsOf(c) /\ ReportOf(c) # Nothing
             /\ ReportOf(c)' = ReportOf(c) /\ LookedFor(c)
             /\ LastOf(c)' = LastOf(c) /\ ToldOf(c)' = ToldOf(c)
    <2>1. Promise!Look(c)
      BY <1>2, <1>3, <1>3a, <1>6 DEF Promise!Look
    <2>2. QED
      BY <2>1 DEF Promise!Next
  <1>7. CASE /\ LookedFor(c) /\ RaisedFor(c)
             /\ ReportOf(c) # Nothing /\ ReportOf(c)' = Nothing
             /\ LastOf(c)' = LastOf(c) /\ ToldOf(c)' = TRUE
    <2>1. Promise!Succeed(c)
      BY <1>1, <1>2, <1>3, <1>3a, <1>3b, <1>7 DEF Promise!Succeed
    <2>2. QED
      BY <2>1 DEF Promise!Next
  <1>8. CASE /\ FlagsOf(c)' = FlagsOf(c) \/ RaisedFor(c)
             /\ stray' = stray /\ ReportOf(c) # Nothing /\ ReportOf(c)' = Nothing
             /\ LastOf(c)' = LastOf(c) /\ ToldOf(c)' = ToldOf(c)
    <2>1. Promise!GiveUp(c)
      BY <1>1, <1>2, <1>3, <1>3b, <1>8 DEF Promise!GiveUp
    <2>2. QED
      BY <2>1 DEF Promise!Next
  <1>9. QED
    BY <1>4, <1>5, <1>6, <1>7, <1>8 DEF Promise!Next

\* Every call of a run is a step of the promise: the answer of the scan its look, the last
\* call of a report its success, or its end without one, and every other call nothing.
LEMMA StepKeeps ==
  ASSUME OneRunPerCluster, People \subseteq {"file"}, IssueInv, NEW g \in Runs, Step(g)
  PROVE  [Promise!Next]_(Promise!vars)
  <1> DEFINE c == ClusterOf[g]
             e == existing[g]
             wanted == IF verdict[g] = Pass THEN {} ELSE {Headline[verdict[g]]}
             Up == /\ wanted \subseteq FlagsOf(c)' /\ FlagsOf(c)' \subseteq FlagsOf(c) \cup wanted
                   /\ c \notin stray' => FlagsOf(c)' = wanted
             Done == {"noop", "created", "updated", "closed"}
  <1>1. /\ TypeOK /\ Unmolested /\ Owned(g) /\ Busy(g) /\ Held(g) /\ OneOpenIssue
        /\ c \in Clusters
    BY RunAssumption DEF IssueInv
  <1>2. /\ pc \in [Runs -> Calls] /\ verdict \in [Runs -> News \cup {Pass}]
        /\ outcome \in [Runs -> {"none", "noop", "created", "updated", "closed", "errored"}]
        /\ verdict[g] # Nothing /\ Typed
    BY <1>1, NewsAssumption DEF TypeOK, Typed
  <1>3. \A d \in Clusters \ {c} :
          /\ FlagsOf(d)' = FlagsOf(d) /\ ReportOf(d)' = ReportOf(d)
          /\ LastOf(d)' = LastOf(d) /\ ToldOf(d)' = ToldOf(d)
    BY OtherView
  <1>4. /\ ReportOf(c) = IF pc[g] # "idle" THEN verdict[g] ELSE Nothing
        /\ ReportOf(c)' = IF pc'[g] # "idle" THEN verdict'[g] ELSE Nothing
        /\ LastOf(c) = verdict[g] /\ LastOf(c)' = verdict'[g]
        /\ ToldOf(c) <=> outcome[g] \notin {"none", "errored"}
        /\ ToldOf(c)' <=> outcome'[g] \notin {"none", "errored"}
    BY RunView
  <1>5. c \notin stray => \A m, n \in Matching(c) : m = n
    BY <1>1 DEF OneOpenIssue
  <1>6. ASSUME UNCHANGED issues
        PROVE  FlagsOf(c)' = FlagsOf(c)
    BY <1>6 DEF FlagsOf, Matching
  <1>7. pc[g] \in AtWork => e \in Numbers /\ e \in Matching(c)
    <2>1. pc[g] \in AtWork => e \in Numbers
      BY <1>1, BoundAssumption DEF TypeOK, AtWork, Numbers
    <2>2. pc[g] \in AtWork =>
            /\ issues[e].state \in {"open", "closed"} /\ issues[e].tag = c /\ ~issues[e].pr
      BY <1>1 DEF Owned, Held
    <2>3. pc[g] \in AtWork => issues[e].state = "open"
      BY <1>1, <2>1, <2>2, NoClusterAssumption DEF Unmolested
    <2>4. QED
      BY <2>1, <2>2, <2>3 DEF Matching
  <1>8. ASSUME UNCHANGED verdict, pc[g] # "idle"
        PROVE  /\ Promise!Wanted(ReportOf(c)) = wanted /\ ReportOf(c) # Nothing
               /\ LastOf(c)' = LastOf(c) /\ ToldOf(c) = FALSE
               /\ outcome'[g] = outcome[g] \/ outcome'[g] = "errored" => ToldOf(c)' = FALSE
               /\ outcome'[g] \in Done => ToldOf(c)' = TRUE
    <2>1. Promise!Wanted(ReportOf(c)) = wanted /\ ReportOf(c) # Nothing
      BY <1>2, <1>4, <1>8 DEF Promise!Wanted
    <2>2. ToldOf(c) = FALSE
      BY <1>1, <1>4, <1>8 DEF Busy, ToldOf
    <2>3. /\ outcome'[g] = outcome[g] \/ outcome'[g] = "errored" => ToldOf(c)' = FALSE
          /\ outcome'[g] \in Done => ToldOf(c)' = TRUE
      BY <1>1, <1>4, <1>8 DEF Busy, ToldOf
    <2>4. LastOf(c)' = LastOf(c)
      BY <1>4, <1>8
    <2>5. QED
      BY <2>1, <2>2, <2>3, <2>4
  <1>9. ASSUME UNCHANGED verdict, pc[g] # "idle", FlagsOf(c)' = FlagsOf(c), LookedFor(c),
               pc'[g] # "idle", outcome'[g] = outcome[g]
        PROVE  [Promise!Next]_(Promise!vars)
    <2>1. ReportOf(c)' = ReportOf(c)
      BY <1>4, <1>9
    <2>2. QED
      BY <1>1, <1>3, <1>8, <1>9, <2>1, Conclude
  <1>10. ASSUME UNCHANGED verdict, pc[g] # "idle", Up, LookedFor(c),
                pc'[g] = "idle", outcome'[g] \in Done
         PROVE  [Promise!Next]_(Promise!vars)
    <2>1. ReportOf(c)' = Nothing
      BY <1>4, <1>10
    <2>2. RaisedFor(c)
      BY <1>8, <1>10 DEF RaisedFor
    <2>3. QED
      BY <1>1, <1>3, <1>8, <1>10, <2>1, <2>2, Conclude
  <1>11. ASSUME UNCHANGED <<verdict, stray>>, pc[g] # "idle", FlagsOf(c)' = FlagsOf(c) \/ Up,
                pc'[g] = "idle", outcome'[g] = "errored"
         PROVE  [Promise!Next]_(Promise!vars)
    <2>1. ReportOf(c)' = Nothing
      BY <1>4, <1>11
    <2>2. FlagsOf(c)' = FlagsOf(c) \/ RaisedFor(c)
      BY <1>8, <1>11 DEF RaisedFor
    <2>3. QED
      BY <1>1, <1>3, <1>8, <1>11, <2>1, <2>2, Conclude
  <1>12. stray' = stray => LookedFor(c)
    BY DEF LookedFor
  <1>13. ASSUME NEW v \in News \cup {Pass}, Begin(g, v) PROVE [Promise!Next]_(Promise!vars)
    <2>1. ToldOf(c)' = FALSE
      BY <1>2, <1>4, <1>13 DEF Begin, ToldOf
    <2>2. /\ ReportOf(c) = Nothing /\ ReportOf(c)' = v /\ LastOf(c)' = v /\ stray' = stray
          /\ FlagsOf(c)' = FlagsOf(c)
      BY <1>2, <1>4, <1>6, <1>13 DEF Begin, history
    <2>3. QED
      BY <1>1, <1>3, <2>1, <2>2, Conclude
  <1> USE DEF Goto, Return, Errored, Called, CalledLast
  <1>14. CASE FetchShort(g) \/ FetchMissing(g)
    <2>1. PICK excused \in BOOLEAN :
            /\ UNCHANGED <<issues, verdict, starts>> /\ pc[g] = "find"
            /\ \/ verdict[g] = Pass /\ Return(g, "noop")
               \/ verdict[g] # Pass /\ Goto(g, "create")
            /\ \/ Matching(c) = {} /\ stray' = stray \ {c}
               \/ Matching(c) # {} /\ excused /\ stray' = stray \cup {c}
               \/ Matching(c) # {} /\ ~excused /\ stray' = stray
            /\ c \notin stray' => Matching(c) = {}
      BY <1>14, NilScan
    <2>2. FlagsOf(c)' = FlagsOf(c) /\ (FlagsOf(c) = {} <=> Matching(c) = {})
      <3>1. FlagsOf(c)' = FlagsOf(c)
        BY <1>6, <2>1
      <3>2. FlagsOf(c) = {} <=> Matching(c) = {}
        BY DEF FlagsOf
      <3>3. QED
        BY <3>1, <3>2
    <2>3. LookedFor(c)
      BY <2>1, <2>2 DEF LookedFor
    <2>4. CASE verdict[g] = Pass
      BY <1>2, <1>10, <2>1, <2>2, <2>3, <2>4
    <2>5. CASE verdict[g] # Pass
      BY <1>2, <1>9, <2>1, <2>2, <2>3, <2>5
    <2>6. QED
      BY <2>4, <2>5
  <1>15. CASE FetchHit(g)
    <2>1. PICK n \in Newest(Fetched(g)) :
            IF verdict[g] = Pass THEN Goto(g, "comment-on-close")
            ELSE IF UpToDate(issues[n].body, c, verdict[g]) THEN Return(g, "noop")
            ELSE Goto(g, "update-comment")
      BY <1>15 DEF FetchHit
    <2>2. /\ n \in Matching(c) /\ FlagsOf(c)' = FlagsOf(c) /\ pc[g] = "find"
          /\ UNCHANGED <<verdict, stray>>
      BY <1>6, <1>15 DEF FetchHit, Newest, Fetched
    <2>3. CASE verdict[g] # Pass /\ UpToDate(issues[n].body, c, verdict[g])
      <3>1. Headline[issues[n].body.news] = Headline[verdict[g]]
        BY <2>3 DEF UpToDate
      <3>2. wanted \subseteq FlagsOf(c) /\ (c \notin stray => FlagsOf(c) = wanted)
        BY <1>5, <2>2, <2>3, <3>1 DEF FlagsOf
      <3>3. QED
        BY <1>2, <1>10, <1>12, <2>1, <2>2, <2>3, <3>2
    <2>4. CASE ~(verdict[g] # Pass /\ UpToDate(issues[n].body, c, verdict[g]))
      BY <1>2, <1>9, <1>12, <2>1, <2>2, <2>4
    <2>5. QED
      BY <2>3, <2>4
  <1>16. CASE FetchFull(g)
    <2>1. /\ UNCHANGED <<issues, verdict, stray>> /\ pc[g] # "idle" /\ pc'[g] # "idle"
          /\ outcome'[g] = outcome[g]
      BY <1>16 DEF FetchFull, history
    <2>2. FlagsOf(c)' = FlagsOf(c) /\ LookedFor(c)
      BY <1>6, <1>12, <2>1
    <2>3. QED
      BY <1>9, <2>1, <2>2
  <1>17. CASE CallFails(g) \/ Exhausted(g)
    BY <1>2, <1>6, <1>11, <1>17 DEF CallFails, Exhausted
  <1>18. CASE CommentOnClose(g) \/ UpdateComment(g)
    <2>1. e \in Numbers /\ UNCHANGED <<verdict, stray>> /\ pc[g] # "idle"
      BY <1>7, <1>18 DEF CommentOnClose, UpdateComment, AtWork, history
    <2>2. \A m \in Numbers :
            /\ issues'[m].state = issues[m].state /\ issues'[m].tag = issues[m].tag
            /\ issues'[m].pr = issues[m].pr /\ issues'[m].body = issues[m].body
      BY <1>2, <1>18, <2>1, CommentEffect DEF CommentOnClose, UpdateComment
    <2>3. Matching(c)' = Matching(c)
      BY <2>2 DEF Matching
    <2>4. FlagsOf(c)' = FlagsOf(c)
      BY <2>2, <2>3, FlagsStay DEF Matching
    <2>5. QED
      BY <1>2, <1>9, <1>11, <1>12, <1>18, <2>1, <2>4 DEF CommentOnClose, UpdateComment
  <1>19. CASE CloseIssue(g)
    <2>1. /\ e \in Numbers /\ e \in Matching(c) /\ issues[e].state = "open" /\ verdict[g] = Pass
          /\ UNCHANGED <<verdict, stray>> /\ pc[g] # "idle"
      BY <1>1, <1>7, <1>19 DEF CloseIssue, AtWork, Matching, TypeOK
    <2>2. /\ \A m \in Numbers : m # e => issues'[m] = issues[m]
          /\ issues'[e].state = "resolved"
      BY <1>2, <1>19, <2>1, CloseEffect DEF CloseIssue
    <2>3. Matching(c)' = Matching(c) \ {e}
      BY <2>1, <2>2 DEF Matching
    <2>4. FlagsOf(c)' \subseteq FlagsOf(c) /\ (c \notin stray => FlagsOf(c)' = {})
      BY <1>5, <2>1, <2>2, <2>3 DEF FlagsOf, Matching
    <2>5. QED
      BY <1>2, <1>10, <1>11, <1>12, <1>19, <2>1, <2>4 DEF CloseIssue
  <1>20. CASE CreateIssue(g)
    <2>1. /\ pc[g] = "create" /\ verdict[g] \in News /\ verdict[g] # Pass
          /\ c \notin stray => Matching(c) = {}
          /\ Body(c, verdict[g]) \in Bodies /\ Body(c, verdict[g]).news = verdict[g]
          /\ UNCHANGED <<verdict, stray>>
      BY <1>1, <1>20, BodyType DEF CreateIssue, Held, TypeOK, Body, history
    <2>2. PICK n \in Free : Filed(n, c, FALSE, Body(c, verdict[g]))
      BY <1>20 DEF CreateIssue, createIssue
    <2>3. /\ n \in Numbers /\ issues[n].state = "absent"
          /\ \A m \in Numbers : m # n => issues'[m] = issues[m]
          /\ issues'[n].state = "open" /\ issues'[n].tag = c /\ issues'[n].pr = FALSE
          /\ issues'[n].body = Body(c, verdict[g])
      <3>1. PICK body \in Bodies : body = Body(c, verdict[g])
        BY <2>1
      <3>2. n \in Numbers /\ issues[n].state = "absent"
        BY DEF Free
      <3>3. PICK tag \in Clusters : tag = c
        BY RunAssumption
      <3>4. Filed(n, tag, FALSE, body)
        BY <2>2, <3>1, <3>3
      <3>5. /\ \A m \in Numbers : m # n => issues'[m] = issues[m]
            /\ issues'[n].state = "open" /\ issues'[n].tag = tag /\ issues'[n].pr = FALSE
            /\ issues'[n].body = body
        BY <1>2, <3>2, <3>4, FiledEffect
      <3>6. QED
        BY <3>1, <3>2, <3>3, <3>5
    <2>4. /\ Matching(c)' = Matching(c) \cup {n} /\ n \notin Matching(c)
          /\ issues'[n].body.news = verdict[g]
      BY <2>1, <2>3 DEF Matching
    <2>5. FlagsOf(c)' = FlagsOf(c) \cup wanted
      BY <2>1, <2>3, <2>4 DEF FlagsOf, Matching
    <2>6. c \notin stray => FlagsOf(c) = {}
      BY <2>1 DEF FlagsOf
    <2>7. QED
      BY <1>2, <1>10, <1>11, <1>12, <1>20, <2>1, <2>5, <2>6 DEF CreateIssue
  <1>21. CASE PatchBody(g)
    <2>1. /\ e \in Numbers /\ e \in Matching(c) /\ verdict[g] \in News /\ verdict[g] # Pass
          /\ Body(c, verdict[g]) \in Bodies /\ Body(c, verdict[g]).news = verdict[g]
          /\ UNCHANGED <<verdict, stray>> /\ pc[g] # "idle"
      BY <1>1, <1>7, <1>21, BodyType DEF PatchBody, AtWork, TypeOK, Body, history
    <2>2. /\ \A m \in Numbers : m # e => issues'[m] = issues[m]
          /\ issues'[e].state = issues[e].state /\ issues'[e].tag = issues[e].tag
          /\ issues'[e].pr = issues[e].pr /\ issues'[e].body.news = verdict[g]
      BY <1>2, <1>21, <2>1, PatchEffect DEF PatchBody
    <2>3. Matching(c)' = Matching(c)
      BY <2>1, <2>2 DEF Matching
    <2>4. /\ wanted \subseteq FlagsOf(c)' /\ FlagsOf(c)' \subseteq FlagsOf(c) \cup wanted
          /\ c \notin stray => FlagsOf(c)' = wanted
      BY <1>5, <2>1, <2>2, <2>3 DEF FlagsOf, Matching
    <2>5. QED
      BY <1>2, <1>10, <1>11, <1>12, <1>21, <2>1, <2>4 DEF PatchBody
  <1>22. QED
    BY <1>13, <1>14, <1>15, <1>16, <1>17, <1>18, <1>19, <1>20, <1>21 DEF Step

\* People who keep to their own leave every flag as it is.
LEMMA PersonKeeps ==
  ASSUME People \subseteq {"file"}, IssueInv, Person
  PROVE  UNCHANGED Promise!vars
  <1>1. PICK n \in Numbers, tag \in Clusters \cup {Nothing}, pr \in BOOLEAN :
          PersonFiles(n, tag, pr)
    BY DEF Person, PersonTitles, PersonCloses, PersonEdits
  <1>2. UNCHANGED <<pc, verdict, outcome, stray>>
    BY <1>1 DEF PersonFiles, history
  <1>3. ASSUME NEW m \in Numbers, issues'[m] # issues[m]
        PROVE  issues[m].state = "absent" /\ (issues'[m].tag = Nothing \/ issues'[m].pr)
    BY <1>3, PersonEffect DEF IssueInv
  <1>4. ASSUME NEW c \in Clusters
        PROVE  Matching(c)' = Matching(c) /\ \A m \in Matching(c) : issues'[m] = issues[m]
    BY <1>3, NoClusterAssumption DEF Matching
  <1>5. ASSUME NEW c \in Clusters PROVE FlagsOf(c)' = FlagsOf(c)
    BY <1>4, FlagsStay
  <1>6. ASSUME NEW c \in Clusters
        PROVE  ReportOf(c)' = ReportOf(c) /\ LastOf(c)' = LastOf(c) /\ ToldOf(c)' = ToldOf(c)
    BY <1>2 DEF ReportOf, LastOf, ToldOf
  <1>7. QED
    BY <1>2, <1>5, <1>6 DEF Promise!vars

\* The promise starts with its flags down, or one up from before the cluster tags.
LEMMA InitKeeps ==
  ASSUME Init PROVE Promise!Init
  <1>1. \A n \in Numbers : issues[n].state = "open" => n = 1 /\ issues[n].body.news \in News
    <2>1. CASE issues = [n \in Numbers |-> NoIssue]
      BY <2>1 DEF NoIssue
    <2>2. ASSUME NEW m \in News,
                 issues = [n \in Numbers |->
                     IF n = 1 THEN [NoIssue EXCEPT !.state = "open", !.tag = Legacy,
                                                   !.body = Body(Legacy, m)]
                              ELSE NoIssue]
          PROVE  \A n \in Numbers : issues[n].state = "open" => n = 1 /\ issues[n].body.news \in News
      <3> DEFINE old == [NoIssue EXCEPT !.state = "open", !.tag = Legacy, !.body = Body(Legacy, m)]
      <3>1. old.body.news \in News /\ NoIssue.state # "open"
        BY DEF NoIssue, Body
      <3>2. QED
        BY <2>2, <3>1
    <2>3. QED
      BY <2>1, <2>2 DEF Init
  <1>2. ASSUME NEW c \in Clusters
        PROVE  /\ FlagsOf(c) \in {{}} \cup {{Headline[n]} : n \in News}
               /\ ReportOf(c) = Nothing /\ LastOf(c) = Pass /\ ToldOf(c) = FALSE
    <2>1. CASE Matching(c) = {}
      <3>1. FlagsOf(c) = {}
        BY <2>1 DEF FlagsOf
      <3>2. QED
        BY <3>1 DEF Init, ReportOf, LastOf, ToldOf
    <2>2. ASSUME NEW n \in Matching(c) PROVE FlagsOf(c) \in {{Headline[m]} : m \in News}
      <3>1. Matching(c) = {n} /\ issues[n].body.news \in News
        BY <1>1, <2>2 DEF Matching
      <3>2. FlagsOf(c) = {Headline[issues[n].body.news]}
        BY <3>1 DEF FlagsOf
      <3>3. QED
        BY <3>1, <3>2
    <2>3. ReportOf(c) = Nothing /\ ToldOf(c) = FALSE
      BY DEF Init, ReportOf, ToldOf
    <2>4. LastOf(c) = Pass
      BY DEF Init, LastOf
    <2>5. QED
      BY <2>1, <2>2, <2>3, <2>4
  <1>3. stray = {}
    BY DEF Init
  <1>4. QED
    BY <1>2, <1>3 DEF Promise!Init

\* As long as the runs of a cluster do not overlap and people keep to their own issues and
\* pull requests, the calls of EnsureBlockingIssue implement the promise, whatever fails or
\* loses its answer: a cluster whose issue was not overlooked has the one flag its last
\* report without an error wanted.
THEOREM PromiseKept ==
  ASSUME OneRunPerCluster, People \subseteq {"file"} PROVE Spec => KeepsPromise
  <1>1. IssueInv /\ [Next]_vars => [Promise!Next]_(Promise!vars)
    <2>1. ASSUME UNCHANGED vars PROVE UNCHANGED Promise!vars
      BY <2>1 DEF vars, history, Promise!vars, FlagsOf, Matching, ReportOf, LastOf, ToldOf
    <2>2. QED
      BY <2>1, StepKeeps, PersonKeeps DEF Next
  <1>2. QED
    BY <1>1, InitKeeps, IssueInvariance, PTL DEF Spec, KeepsPromise, Promise!Spec
=============================================================================
