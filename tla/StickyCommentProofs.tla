------------------------- MODULE StickyCommentProofs -------------------------
(***************************************************************************)
(* Proofs about StickyComment, for any clusters, runs, people and faults,  *)
(* any page size and any number of comments.                               *)
(***************************************************************************)
EXTENDS StickyComment, FiniteSetTheorems, TLAPS

\* Comments that are added do not bring others onto the page.
LEMMA PageShrinks ==
  ASSUME TypeOK, There \subseteq There'
  PROVE  FirstPage' \cap There \subseteq FirstPage
  <1> SUFFICES ASSUME NEW n \in There, n \in FirstPage'
               PROVE  Cardinality({m \in There : m < n}) < PageSize
    BY DEF FirstPage
  <1> DEFINE S == {m \in There : m < n}
             T == {m \in There' : m < n}
  <1>1. There' \subseteq Numbers /\ IsFiniteSet(Numbers)
    BY CommentAssumption, FS_Interval DEF There, Numbers
  <1>2. IsFiniteSet(T) /\ S \subseteq T
    BY <1>1, FS_Subset
  <1>3. IsFiniteSet(S) /\ Cardinality(S) <= Cardinality(T)
    BY <1>2, FS_Subset
  <1>4. Cardinality(S) \in Nat /\ Cardinality(T) \in Nat
    BY <1>2, <1>3, FS_CardinalityType
  <1>5. Cardinality(T) < PageSize
    BY DEF FirstPage
  <1>6. QED
    BY <1>3, <1>4, <1>5, CommentAssumption

\* What changes when a comment is put under a new number.
LEMMA PutEffect ==
  ASSUME TypeOK, NEW n \in Numbers, NEW by, NEW s, Put(n, by, s)
  PROVE  /\ \A m \in Numbers : m # n => comments'[m] = comments[m]
         /\ comments'[n].state = "there" /\ comments'[n].by = by /\ comments'[n].says = s
  BY DEF TypeOK, Put

\* And when one is patched: what it says.
LEMMA PatchEffect ==
  ASSUME TypeOK, NEW g \in Runs, Patch(g)
  PROVE  /\ existing[g] \in Numbers
         /\ \A m \in Numbers : m # existing[g] => comments'[m] = comments[m]
         /\ comments'[existing[g]].state = comments[existing[g]].state
         /\ comments'[existing[g]].by = comments[existing[g]].by
         /\ comments'[existing[g]].says = says[g]
  BY DEF TypeOK, Patch, There

\* And when a person deletes one: whether it is there.
LEMMA DeleteEffect ==
  ASSUME TypeOK, NEW n \in Numbers, PersonDeletes(n)
  PROVE  /\ \A m \in Numbers : m # n => comments'[m] = comments[m]
         /\ comments'[n].state = "deleted"
         /\ comments'[n].by = comments[n].by /\ comments'[n].says = comments[n].says
  BY DEF TypeOK, PersonDeletes

\* A step of a run leaves the other runs alone, and no cluster's list gets readable.
LEMMA OtherRuns ==
  ASSUME TypeOK, NEW g \in Runs, Step(g)
  PROVE  /\ \A h \in Runs \ {g} : /\ pc'[h] = pc[h] /\ says'[h] = says[h]
                                  /\ existing'[h] = existing[h] /\ posted'[h] = posted[h]
         /\ misread \subseteq misread'
  BY DEF TypeOK, Step, Begin, ListHit, ListMiss, ListGarbled, Patch, PatchGone, Post, CallFails,
     Finish, Done

\* What a step of a run does to a comment, it does to one of its cluster, or to a new one.
LEMMA StepEffect ==
  ASSUME TypeOK, NEW g \in Runs, Owned(g), Step(g), NEW n \in Numbers, comments'[n] # comments[n]
  PROVE  /\ comments'[n].by = ClusterOf[g]
         /\ \/ comments[n].by = ClusterOf[g] /\ comments'[n].state = comments[n].state
               /\ pc[g] = "patch" /\ comments[n].state # "absent"
            \/ comments[n].state = "absent" /\ comments'[n].state = "there" /\ pc[g] = "post"
  <1>1. CASE Patch(g)
    BY <1>1, PatchEffect DEF Patch, Owned
  <1>2. CASE Post(g)
    <2>1. PICK m \in Free : Put(m, ClusterOf[g], says[g])
      BY <1>2 DEF Post
    <2>2. m \in Numbers /\ comments[m].state = "absent" /\ pc[g] = "post"
      BY <1>2 DEF Free, Post
    <2>3. QED
      BY <2>1, <2>2, PutEffect
  <1>3. QED
    BY <1>1, <1>2 DEF Step, Begin, ListHit, ListMiss, ListGarbled, PatchGone, CallFails

\* A person adds a comment of their own or deletes one.
LEMMA PersonEffect ==
  ASSUME TypeOK, PersonComments \/ (\E n \in Numbers : PersonDeletes(n)),
         NEW n \in Numbers, comments'[n] # comments[n]
  PROVE  \/ /\ comments[n].state = "there" /\ comments'[n].state = "deleted"
            /\ comments'[n].by = comments[n].by /\ comments'[n].says = comments[n].says
         \/ /\ comments[n].state = "absent" /\ comments'[n].state = "there"
            /\ comments'[n].by = Person
  <1>1. CASE PersonComments
    <2>1. PICK m \in Free : Put(m, Person, "none")
      BY <1>1 DEF PersonComments
    <2>2. m \in Numbers /\ comments[m].state = "absent"
      BY DEF Free
    <2>3. QED
      BY <2>1, <2>2, PutEffect
  <1>2. CASE \E m \in Numbers : PersonDeletes(m)
    BY <1>2, DeleteEffect DEF PersonDeletes, There
  <1>3. QED
    BY <1>1, <1>2

\* A call that took effect ends the run, with or without its answer.
LEMMA DoneEffect ==
  ASSUME TypeOK, NEW g \in Runs, Done(g)
  PROVE  /\ pc' = [pc EXCEPT ![g] = "idle"] /\ posted' \in [Runs -> BOOLEAN]
         /\ UNCHANGED <<says, existing, starts, misread>>
  <1>1. PICK ok \in BOOLEAN : Finish(g, ok)
    BY DEF Done
  <1>2. posted \in [Runs -> BOOLEAN]
    BY DEF TypeOK
  <1>3. posted' = [posted EXCEPT ![g] = ok]
    BY <1>1 DEF Finish
  <1>4. posted' \in [Runs -> BOOLEAN]
    BY <1>2, <1>3
  <1>5. QED
    BY <1>1, <1>4 DEF Finish

\* Every step keeps the types.
LEMMA StepType ==
  ASSUME TypeOK, NEW g \in Runs, Step(g) PROVE TypeOK'
  <1> DEFINE Comment == [state : {"absent", "there", "deleted"},
                         by : {ClusterOf[h] : h \in Runs} \cup {Person},
                         says : Outcomes \cup {"none"}]
  <1> USE CommentAssumption DEF TypeOK, Finish, Done, Numbers, Outcomes
  <1>1. ASSUME NEW s \in Outcomes, Begin(g, s) PROVE TypeOK'
    BY <1>1 DEF Begin
  <1>2. CASE ListHit(g)
    BY <1>2 DEF ListHit, Marked, FirstPage, There
  <1>3. CASE ListMiss(g)
    BY <1>3 DEF ListMiss
  <1>4. CASE ListGarbled(g)
    BY <1>4 DEF ListGarbled
  <1>5. CASE Patch(g)
    <2>1. existing[g] \in Numbers /\ says[g] \in Outcomes \cup {"none"}
      BY <1>5 DEF Patch, There
    <2>2. comments' \in [Numbers -> Comment]
      <3> DEFINE new == [comments[existing[g]] EXCEPT !.says = says[g]]
      <3>1. new \in Comment
        <4>1. \A x \in Comment : [x EXCEPT !.says = says[g]] \in Comment
          BY <2>1
        <4>2. comments[existing[g]] \in Comment
          BY <2>1
        <4>3. QED
          BY <4>1, <4>2
      <3>2. comments' = [comments EXCEPT ![existing[g]] = new]
        BY <1>5 DEF Patch
      <3>3. comments \in [Numbers -> Comment]
        OBVIOUS
      <3> HIDE DEF new, Comment, TypeOK, Numbers
      <3>4. QED
        BY <2>1, <3>1, <3>2, <3>3
    <2>3. /\ pc' = [pc EXCEPT ![g] = "idle"] /\ posted' \in [Runs -> BOOLEAN]
          /\ UNCHANGED <<says, existing, starts, misread>>
      BY <1>5, DoneEffect DEF Patch
    <2> HIDE DEF Comment
    <2>4. QED
      BY <2>2, <2>3 DEF Comment
  <1>6. CASE PatchGone(g)
    BY <1>6 DEF PatchGone
  <1>7. CASE Post(g)
    <2>1. PICK n \in Free : Put(n, ClusterOf[g], says[g])
      BY <1>7 DEF Post
    <2>2. comments' \in [Numbers -> Comment]
      <3>1. [state |-> "there", by |-> ClusterOf[g], says |-> says[g]] \in Comment
        OBVIOUS
      <3>2. QED
        BY <2>1, <3>1 DEF Put, Free
    <2>3. /\ pc' = [pc EXCEPT ![g] = "idle"] /\ posted' \in [Runs -> BOOLEAN]
          /\ UNCHANGED <<says, existing, starts, misread>>
      BY <1>7, DoneEffect DEF Post
    <2> HIDE DEF Comment
    <2>4. QED
      BY <2>2, <2>3 DEF Comment
  <1>8. CASE CallFails(g)
    BY <1>8 DEF CallFails
  <1>9. QED
    BY <1>1, <1>2, <1>3, <1>4, <1>5, <1>6, <1>7, <1>8 DEF Step

\* Also those of people.
LEMMA PersonType ==
  ASSUME TypeOK, PersonComments \/ (\E n \in Numbers : PersonDeletes(n)) PROVE TypeOK'
  <1>1. CASE PersonComments
    BY <1>1 DEF TypeOK, PersonComments, Put, Free
  <1>2. ASSUME NEW n \in Numbers, PersonDeletes(n) PROVE TypeOK'
    BY <1>2 DEF TypeOK, PersonDeletes
  <1>3. QED
    BY <1>1, <1>2

\* A run that is about to patch has found a comment of its cluster, and no comment changes
\* hands.
LEMMA StepOwned ==
  ASSUME TypeOK, \A h \in Runs : Owned(h), NEW g \in Runs, Step(g), NEW h \in Runs
  PROVE  Owned(h)'
  <1>1. CASE pc[h] = "patch" /\ existing'[h] = existing[h]
    <2>1. existing[h] \in Numbers
      BY <1>1, CommentAssumption DEF TypeOK, Numbers
    <2>2. QED
      BY <1>1, <2>1, StepEffect DEF Owned
  <1>2. CASE ListHit(g) /\ h = g
    BY <1>2 DEF TypeOK, ListHit, Marked, FirstPage, There, Owned
  <1>3. QED
    <2>1. CASE h # g
      BY <1>1, <2>1, OtherRuns DEF Owned
    <2>2. CASE h = g
      BY <1>1, <1>2, <2>2 DEF TypeOK, Owned, Step, Begin, ListMiss, ListGarbled, Patch,
         PatchGone, Post, CallFails, Finish, Done
    <2>3. QED
      BY <2>1, <2>2

\* If comments are only added, a cluster gets new ones into view and no others.
LEMMA ViewGrows ==
  ASSUME TypeOK, NoneDeleted,
         \A n \in Numbers : comments'[n] # comments[n] =>
           \/ comments[n].state = "absent" /\ comments'[n].state = "there"
           \/ comments'[n].state = comments[n].state /\ comments'[n].by = comments[n].by,
         NEW c, NEW n \in Marked(FirstPage, c)'
  PROVE  /\ n \in Numbers /\ comments'[n].by = c
         /\ comments[n].state # "absent" => n \in Marked(FirstPage, c)
  <1>1. There \subseteq There'
    BY DEF There
  <1>2. n \in FirstPage' /\ n \in Numbers /\ comments'[n].by = c
    BY DEF Marked, FirstPage, There
  <1>3. ASSUME comments[n].state # "absent" PROVE n \in There /\ comments[n].by = c
    BY <1>2, <1>3 DEF There, NoneDeleted, TypeOK
  <1>4. QED
    BY <1>1, <1>2, <1>3, PageShrinks DEF Marked

\* Where a step leaves no deleted comment, it has deleted none.
LEMMA StepGrows ==
  ASSUME TypeOK, NEW g \in Runs, Owned(g), Step(g), NoneDeleted'
  PROVE  /\ NoneDeleted
         /\ \A n \in Numbers : comments'[n] # comments[n] =>
              \/ comments[n].state = "absent" /\ comments'[n].state = "there"
              \/ comments'[n].state = comments[n].state /\ comments'[n].by = comments[n].by
  <1>1. ASSUME NEW n \in Numbers, comments'[n] # comments[n]
        PROVE  \/ comments[n].state = "absent" /\ comments'[n].state = "there"
               \/ comments'[n].state = comments[n].state /\ comments'[n].by = comments[n].by
    BY <1>1, StepEffect
  <1>2. NoneDeleted
    BY <1>1 DEF NoneDeleted
  <1>3. QED
    BY <1>1, <1>2

\* A step of a run brings no comment of another cluster into view.
LEMMA StepApart ==
  ASSUME TypeOK, NEW g \in Runs, Owned(g), Step(g), NoneDeleted', NEW c, c # ClusterOf[g]
  PROVE  Marked(FirstPage, c)' \subseteq Marked(FirstPage, c)
  <1> SUFFICES ASSUME NEW n \in Marked(FirstPage, c)' PROVE n \in Marked(FirstPage, c)
    OBVIOUS
  <1>1. /\ n \in Numbers /\ comments'[n].by = c
        /\ comments[n].state # "absent" => n \in Marked(FirstPage, c)
    BY StepGrows, ViewGrows
  <1>2. comments'[n].state = "there"
    BY DEF Marked, FirstPage, There
  <1>3. comments[n].state # "absent"
    BY <1>1, <1>2, StepEffect
  <1>4. QED
    BY <1>1, <1>3

\* Nor do people bring one of a cluster into view by writing.
LEMMA PersonApart ==
  ASSUME TypeOK, PersonComments \/ (\E n \in Numbers : PersonDeletes(n)), NoneDeleted',
         NEW c, c # Person
  PROVE  NoneDeleted /\ Marked(FirstPage, c)' \subseteq Marked(FirstPage, c)
  <1>1. ASSUME NEW n \in Numbers, comments'[n] # comments[n]
        PROVE  /\ comments[n].state = "absent" /\ comments'[n].state = "there"
               /\ comments'[n].by = Person
    BY <1>1, PersonEffect DEF NoneDeleted
  <1>2. NoneDeleted
    BY <1>1 DEF NoneDeleted
  <1>3. ASSUME NEW n \in Marked(FirstPage, c)' PROVE n \in Marked(FirstPage, c)
    <2>1. /\ n \in Numbers /\ comments'[n].by = c
          /\ comments[n].state # "absent" => n \in Marked(FirstPage, c)
      BY <1>1, <1>2, <1>3, ViewGrows
    <2>2. comments[n].state # "absent"
      BY <1>1, <2>1, <1>3 DEF Marked, FirstPage, There
    <2>3. QED
      BY <2>1, <2>2
  <1>4. QED
    BY <1>2, <1>3

\* What a run of another cluster, or a person, leaves alone: what is shown for a run.
LEMMA StillShown ==
  ASSUME TypeOK, NEW h \in Runs, Shown(h), pc'[h] = pc[h], says'[h] = says[h],
         posted'[h] = posted[h],
         \A n \in Numbers :
           comments'[n] # comments[n] /\ comments[n].state # "absent"
               /\ comments[n].by = ClusterOf[h] =>
             /\ comments'[n].state # "absent" /\ comments'[n].by = ClusterOf[h]
             /\ comments'[n].says = comments[n].says
  PROVE  Shown(h)'
  <1> SUFFICES ASSUME pc[h] = "idle", posted[h]
               PROVE  \E n \in Numbers : /\ comments'[n].state # "absent"
                                         /\ comments'[n].by = ClusterOf[h]
                                         /\ comments'[n].says = says[h]
    BY DEF Shown
  <1>1. PICK n \in Numbers : /\ comments[n].state # "absent"
                             /\ comments[n].by = ClusterOf[h]
                             /\ comments[n].says = says[h]
    BY DEF Shown
  <1>2. /\ comments'[n].state # "absent" /\ comments'[n].by = ClusterOf[h]
        /\ comments'[n].says = says[h]
    BY <1>1
  <1>3. QED
    BY <1>2

\* What holds of a run still holds after a step of another, if no two share a cluster.
LEMMA OthersHold ==
  ASSUME StickyInv, OneRunPerCluster, NEW g \in Runs, Step(g), NEW h \in Runs, h # g
  PROVE  Unseen(h)' /\ OneInView(h)' /\ Shown(h)'
  <1>1. TypeOK /\ Owned(g) /\ Unseen(h) /\ OneInView(h) /\ Shown(h)
    BY DEF StickyInv, OneStickyInView, PostedIsShown
  <1>2. ClusterOf[h] # ClusterOf[g]
    BY DEF OneRunPerCluster
  <1>3. /\ pc'[h] = pc[h] /\ says'[h] = says[h] /\ posted'[h] = posted[h]
        /\ misread \subseteq misread'
    BY <1>1, OtherRuns
  <1>4. NoneDeleted' => NoneDeleted
                        /\ Marked(FirstPage, ClusterOf[h])' \subseteq Marked(FirstPage, ClusterOf[h])
    BY <1>1, <1>2, StepGrows, StepApart
  <1>5. Unseen(h)'
    BY <1>1, <1>3, <1>4 DEF Unseen
  <1>6. OneInView(h)'
    BY <1>1, <1>3, <1>4 DEF OneInView
  <1>7. Shown(h)'
    BY <1>1, <1>2, <1>3, StepEffect, StillShown
  <1>8. QED
    BY <1>5, <1>6, <1>7

\* And of the run that takes the step.
LEMMA RunHolds ==
  ASSUME StickyInv, OneRunPerCluster, NEW g \in Runs, Step(g)
  PROVE  Unseen(g)' /\ OneInView(g)' /\ Shown(g)'
  <1> DEFINE c == ClusterOf[g]
  <1>1. TypeOK /\ Owned(g) /\ Unseen(g) /\ OneInView(g) /\ Shown(g)
    BY DEF StickyInv, OneStickyInView, PostedIsShown
  <1>2. misread \subseteq misread'
    BY <1>1, OtherRuns
  <1>3. NoneDeleted' => NoneDeleted
    BY <1>1, StepGrows
  <1>4. CASE Post(g)
    <2>1. PICK n \in Free : Put(n, c, says[g])
      BY <1>4 DEF Post
    <2>2. /\ n \in Numbers /\ comments[n].state = "absent"
          /\ pc[g] = "post" /\ pc'[g] = "idle" /\ says'[g] = says[g]
      BY <1>1, <1>4 DEF Free, Post, Done, Finish, TypeOK
    <2>3. /\ \A m \in Numbers : m # n => comments'[m] = comments[m]
          /\ comments'[n].state = "there" /\ comments'[n].by = c /\ comments'[n].says = says[g]
      BY <1>1, <2>1, <2>2, PutEffect
    <2>4. ASSUME NoneDeleted', c \notin misread', NEW m \in Marked(FirstPage, c)'
          PROVE  m = n
      <3>1. /\ m \in Numbers /\ comments'[m].by = c
            /\ comments[m].state # "absent" => m \in Marked(FirstPage, c)
        BY <1>1, <2>4, StepGrows, ViewGrows
      <3>2. Marked(FirstPage, c) = {}
        BY <1>1, <1>2, <1>3, <2>2, <2>4 DEF Unseen
      <3>3. comments'[m].state = "there"
        BY <2>4 DEF Marked, FirstPage, There
      <3>4. QED
        BY <2>3, <3>1, <3>2, <3>3
    <2>5. OneInView(g)'
      BY <2>4 DEF OneInView
    <2>6. QED
      BY <2>2, <2>3, <2>5 DEF Unseen, Shown
  <1>5. CASE Patch(g)
    <2>1. /\ existing[g] \in Numbers
          /\ \A n \in Numbers : n # existing[g] => comments'[n] = comments[n]
          /\ comments'[existing[g]].state = comments[existing[g]].state
          /\ comments'[existing[g]].by = comments[existing[g]].by
          /\ comments'[existing[g]].says = says[g]
      BY <1>1, <1>5, PatchEffect
    <2>2. /\ pc[g] = "patch" /\ pc'[g] = "idle" /\ says'[g] = says[g]
          /\ comments[existing[g]].state # "absent" /\ comments[existing[g]].by = c
      BY <1>1, <1>5 DEF Patch, Done, Finish, TypeOK, Owned
    <2>3. There' = There /\ \A n \in Numbers : comments'[n].by = comments[n].by
      BY <2>1 DEF There
    <2>4. FirstPage' = FirstPage
      BY <2>3 DEF FirstPage
    <2>5. Marked(FirstPage, c)' = Marked(FirstPage, c)
      BY <2>3, <2>4 DEF Marked, FirstPage, There
    <2>6. QED
      BY <1>1, <1>2, <1>3, <2>1, <2>2, <2>5 DEF Unseen, OneInView, Shown
  <1>6. CASE UNCHANGED comments
    <2>1. Marked(FirstPage, c)' = Marked(FirstPage, c)
      BY <1>6 DEF Marked, FirstPage, There
    <2>2. OneInView(g)'
      BY <1>1, <1>2, <1>3, <2>1 DEF OneInView
    <2>3. Unseen(g)'
      <3>1. CASE ListMiss(g)
        BY <2>1, <3>1 DEF ListMiss, Unseen
      <3>2. CASE ListGarbled(g)
        BY <3>2 DEF ListGarbled, Unseen
      <3>3. CASE ~ListMiss(g) /\ ~ListGarbled(g)
        BY <1>1, <3>3 DEF TypeOK, Unseen, Step, Begin, ListHit, Patch, PatchGone, Post,
           CallFails, Finish, Done
      <3>4. QED
        BY <3>1, <3>2, <3>3
    <2>4. Shown(g)'
      <3>1. CASE Patch(g) \/ Post(g)
        BY <1>4, <1>5, <3>1
      <3>2. CASE ~Patch(g) /\ ~Post(g)
        BY <1>1, <3>2 DEF TypeOK, Shown, Step, Begin, ListHit, ListMiss, ListGarbled, PatchGone,
           CallFails, Finish
      <3>3. QED
        BY <3>1, <3>2
    <2>5. QED
      BY <2>2, <2>3, <2>4
  <1>7. QED
    BY <1>4, <1>5, <1>6 DEF Step, Begin, ListHit, ListMiss, ListGarbled, PatchGone, CallFails

\* A person disturbs none of it.
LEMMA PersonHolds ==
  ASSUME StickyInv, PersonComments \/ (\E n \in Numbers : PersonDeletes(n))
  PROVE  StickyInv'
  <1>1. TypeOK /\ \A h \in Runs : Owned(h)
    BY DEF StickyInv
  <1>2. UNCHANGED <<pc, says, existing, posted, misread>>
    BY DEF PersonComments, PersonDeletes
  <1>3. ASSUME NEW h \in Runs PROVE Owned(h)'
    <2>1. pc[h] = "patch" => existing[h] \in Numbers
      BY <1>1, CommentAssumption DEF TypeOK, Numbers
    <2>2. QED
      BY <1>1, <1>2, <2>1, PersonEffect DEF Owned
  <1>4. ASSUME OneRunPerCluster, NEW h \in Runs
        PROVE  Unseen(h)' /\ OneInView(h)' /\ Shown(h)'
    <2>1. Unseen(h) /\ OneInView(h) /\ Shown(h)
      BY <1>4 DEF StickyInv, OneStickyInView, PostedIsShown
    <2>2. NoneDeleted' => NoneDeleted
                          /\ Marked(FirstPage, ClusterOf[h])' \subseteq Marked(FirstPage, ClusterOf[h])
      BY <1>1, CommentAssumption, PersonApart
    <2>3. Unseen(h)'
      BY <1>2, <2>1, <2>2 DEF Unseen
    <2>4. OneInView(h)'
      BY <1>2, <2>1, <2>2 DEF OneInView
    <2>5. Shown(h)'
      BY <1>1, <1>2, <2>1, PersonEffect, StillShown
    <2>6. QED
      BY <2>3, <2>4, <2>5
  <1>5. TypeOK'
    BY <1>1, PersonType
  <1>6. QED
    BY <1>3, <1>4, <1>5 DEF StickyInv, OneStickyInView, PostedIsShown, OneRunPerCluster

\* It holds at first.
LEMMA InitHolds ==
  ASSUME Init PROVE StickyInv
  <1>1. TypeOK
    BY CommentAssumption DEF Init, TypeOK, Absent
  <1>2. There = {}
    BY DEF Init, There, Absent
  <1>3. \A c : Marked(FirstPage, c) = {}
    BY <1>2 DEF Marked, FirstPage
  <1>4. ASSUME NEW g \in Runs PROVE Owned(g) /\ Unseen(g) /\ OneInView(g) /\ Shown(g)
    BY <1>3, <1>4 DEF Init, Owned, Unseen, OneInView, Shown
  <1>5. QED
    BY <1>1, <1>4 DEF StickyInv, OneStickyInView, PostedIsShown

\* A step of a run keeps it.
LEMMA StepHolds ==
  ASSUME StickyInv, NEW g \in Runs, Step(g) PROVE StickyInv'
  <1>1. TypeOK'
    BY StepType DEF StickyInv
  <1>2. \A h \in Runs : Owned(h)'
    BY StepOwned DEF StickyInv
  <1>3. ASSUME OneRunPerCluster, NEW h \in Runs PROVE Unseen(h)' /\ OneInView(h)' /\ Shown(h)'
    BY <1>3, OthersHold, RunHolds
  <1>4. QED
    BY <1>1, <1>2, <1>3 DEF StickyInv, OneStickyInView, PostedIsShown, OneRunPerCluster

\* The invariant: a run patches a comment of its own cluster, and where the runs of a
\* cluster do not overlap, what a list did not show stays out of view until the run has
\* posted, so that the comment it adds is the only one in view.
THEOREM StickyInvariance == Spec => []StickyInv
  <1>1. Init => StickyInv
    BY InitHolds
  <1>2. StickyInv /\ [Next]_vars => StickyInv'
    <2> SUFFICES ASSUME StickyInv, [Next]_vars PROVE StickyInv'
      OBVIOUS
    <2>1. ASSUME NEW g \in Runs, Step(g) PROVE StickyInv'
      BY <2>1, StepHolds
    <2>2. CASE PersonComments \/ \E n \in Numbers : PersonDeletes(n)
      BY <2>2, PersonHolds
    <2>3. CASE UNCHANGED vars
      <3>1. TypeOK' /\ NoneDeleted' = NoneDeleted
        BY <2>3 DEF vars, StickyInv, TypeOK, NoneDeleted
      <3>2. \A c : Marked(FirstPage, c)' = Marked(FirstPage, c)
        BY <2>3 DEF vars, Marked, FirstPage, There
      <3>3. \A g \in Runs : /\ Owned(g)' = Owned(g) /\ Unseen(g)' = Unseen(g)
                            /\ OneInView(g)' = OneInView(g) /\ Shown(g)' = Shown(g)
        BY <2>3, <3>1, <3>2 DEF vars, Owned, Unseen, OneInView, Shown
      <3>4. QED
        BY <3>1, <3>3 DEF StickyInv, OneStickyInView, PostedIsShown, OneRunPerCluster
    <2>4. QED
      BY <2>1, <2>2, <2>3 DEF Next
  <1>3. QED
    BY <1>1, <1>2, PTL DEF Spec

\* The state keeps to its types in any run of any number of gates.
THEOREM CommentsTypeCorrect == Spec => []TypeOK
  BY StickyInvariance, PTL DEF StickyInv

\* Where runs of a cluster do not overlap, lists are read and nothing is deleted, the page
\* the gate reads shows one comment of each cluster at most.
THEOREM StickyHolds == Spec => []OneStickyInView
  BY StickyInvariance, PTL DEF StickyInv

\* Where runs of a cluster do not overlap, a run that reported success finds its outcome in
\* a comment of its cluster, deleted or not.
THEOREM PostedHolds == Spec => []PostedIsShown
  BY StickyInvariance, PTL DEF StickyInv

\* No run, overlapping or not, rewrites a comment of a person or of another cluster.
THEOREM ApartHolds == Spec => CommentsApart
  <1>1. ASSUME StickyInv, NEW g \in Runs, Step(g), NEW n \in There, comments'[n] # comments[n]
        PROVE  comments[n].by = ClusterOf[g]
    <2>1. TypeOK /\ Owned(g) /\ n \in Numbers /\ comments[n].state # "absent"
      BY <1>1 DEF StickyInv, There
    <2>2. QED
      BY <1>1, <2>1, StepEffect
  <1>2. StickyInv =>
          [\A g \in Runs : Step(g) =>
             \A n \in There : comments'[n] # comments[n] => comments[n].by = ClusterOf[g]]_vars
    BY <1>1
  <1>3. QED
    BY <1>2, StickyInvariance, PTL DEF CommentsApart
=============================================================================
