---------------------------- MODULE GateRunProofs ---------------------------
(***************************************************************************)
(* Proofs about GateRun, for every helmfile, every set of arrivals, packs  *)
(* and flags, every fault and all budgets.                                 *)
(***************************************************************************)
EXTENDS GateRun, WellFoundedInduction, TLAPS

\* A document that decodes, the one taken if there is one, is a list of releases.
LEMMA ReleasesType == Releases \in Seq([name : STRING, version : STRING])
  <1>1. ASSUME Chosen # {}, ~Undecodable
        PROVE  Documents[ListDocument] \in Seq([name : STRING, version : STRING])
    <2>1. ListDocument \in DOMAIN Documents
      BY <1>1 DEF ListDocument, Chosen
    <2>2. Documents[ListDocument] \in Seq([name : STRING, version : STRING]) \cup {Garbled}
      BY <2>1, InputAssumption
    <2>3. QED
      BY <1>1, <2>2 DEF Undecodable
  <1>2. QED
    BY <1>1 DEF Releases

\* The helmfile has a length.
LEMMA LengthIsNat == N \in Nat
  BY ReleasesType DEF N

\* The constants of the data types belong to them.
LEMMA UnusedType == Unused \in Arrival
  BY DEF Unused, Arrival, Phases, Terminal, Unset

LEMMA NoVerdictType == NoVerdict \in VerdictType
  BY UnusedType DEF NoVerdict, VerdictType, Whys

\* A verdict drawn up now, for a reason of the code, is a verdict.
LEMMA VerdictIsVerdict ==
  ASSUME NEW p \in BOOLEAN, NEW w \in Whys, NEW rec \in Arrival, NEW from \in Nat,
         now \in Nat
  PROVE  Verdict(p, w, rec, from) \in VerdictType
  BY DEF Verdict, VerdictType

LEMMA MergedType ==
  ASSUME NEW v \in VerdictType
  PROVE  Merged(v) \in VerdictType
  BY DEF Merged, VerdictType

\* The phase switch makes a verdict of any arrival.
LEMMA DecidedType ==
  ASSUME NEW rec \in Arrival, NEW from \in Nat, now \in Nat
  PROVE  Decided(rec, from) \in VerdictType
  <1>1. rec.phase \in Phases /\ rec.bad \in SUBSET Packs
    BY DEF Arrival
  <1>2. CASE Blocking(rec.phase)
    <2>1. Verdict(FALSE, rec.phase, rec, from) \in VerdictType
      BY <1>2, VerdictIsVerdict DEF Blocking, Whys, Terminal
    <2>2. QED
      BY <1>1, <1>2, <2>1 DEF Decided, VerdictType
  <1>3. CASE ~Blocking(rec.phase) /\ InFlight(rec.phase)
    <2>1. Verdict(FALSE, "NotFinalized", rec, from) \in VerdictType
      BY VerdictIsVerdict DEF Whys
    <2>2. QED
      BY <1>3, <2>1 DEF Decided
  <1>4. CASE ~Blocking(rec.phase) /\ ~InFlight(rec.phase)
    <2>1. Verdict(TRUE, rec.phase, rec, from) \in VerdictType
      BY <1>4, VerdictIsVerdict DEF InFlight, Whys
    <2>2. QED
      BY <1>4, <2>1 DEF Decided
  <1>5. QED
    BY <1>2, <1>3, <1>4

\* What a list returns and pickLatestArrival picks is an arrival.
LEMMA PickIsListed ==
  ASSUME NEW L, NEW a \in PickLatest(arrivals, L)
  PROVE  a \in L
  BY DEF PickLatest, Finalized

-----------------------------------------------------------------------------
(* Type correctness *)

LEMMA InitType == Init => TypeOK
  <1>1. SUFFICES ASSUME Init PROVE TypeOK
    OBVIOUS
  <1>2. i \in 1..(N + 1)
    BY <1>1, LengthIsNat DEF Init
  <1>3. draft \in VerdictType /\ verdict \in [1..N -> VerdictType]
    BY <1>1, NoVerdictType DEF Init
  <1>4. last \in Arrival /\ arrivals \in [Ids -> Arrival]
    BY <1>1, UnusedType DEF Init
  <1>5. opts \in SUBSET {"postDeploy", "duration", "dryRun", "issues"}
    BY <1>1, InputAssumption DEF Init
  <1>6. sticky \in {"none", "green", "red"} /\ blocked \in SUBSET Services
    BY <1>1, InputAssumption, BeforeAssumption DEF Init
  <1>7. QED
    BY <1>1, <1>2, <1>3, <1>4, <1>5, <1>6 DEF Init, TypeOK

\* What Draft leaves behind, whatever verdict it is given.
LEMMA DraftType ==
  ASSUME TypeOK, NEW v \in VerdictType, Draft(v)
  PROVE  TypeOK'
  BY UnusedType, LengthIsNat DEF Draft, TypeOK, world

\* The steps of setting up keep the types.
LEMMA SetupType ==
  ASSUME TypeOK, Setup PROVE TypeOK'
  <1>1. CASE Parse
    BY <1>1 DEF Parse, TypeOK, world
  <1>2. CASE ParseFails
    BY <1>2 DEF ParseFails, TypeOK, world
  <1>3. CASE BuildClient
    BY <1>3 DEF BuildClient, TypeOK, world
  <1>4. CASE BuildClientFails
    BY <1>4 DEF BuildClientFails, TypeOK, world
  <1>5. QED
    BY <1>1, <1>2, <1>3, <1>4 DEF Setup

\* The arrivals a list returns are arrivals.
LEMMA ListedType ==
  ASSUME TypeOK, NEW a \in PickLatest(arrivals, Listed(i))
  PROVE  arrivals[a] \in Arrival /\ a \in Ids /\ arrivals[a].listed /\ arrivals[a].of = Key(i)
  BY PickIsListed DEF TypeOK, Listed

\* The steps of the evaluation keep the types.
LEMMA EvaluateType ==
  ASSUME TypeOK, ReleaseInHand, Evaluate PROVE TypeOK'
  <1>n. now \in Nat /\ waitFrom \in Nat /\ N \in Nat
    BY LengthIsNat DEF TypeOK
  <1>1. CASE SkipBlank
    BY <1>1, <1>n DEF SkipBlank, TypeOK, world
  <1>2. CASE NoQuill
    <2>1. Verdict(TRUE, "no quills enabled", Unused, now) \in VerdictType
      BY <1>n, VerdictIsVerdict, UnusedType DEF Whys
    <2>2. QED
      BY <1>2, <2>1, DraftType DEF NoQuill
  <1>3. CASE LookupDenied
    <2>1. Merged(Verdict(TRUE, "lookup skipped", Unused, now)) \in VerdictType
      BY <1>n, VerdictIsVerdict, UnusedType, MergedType DEF Whys
    <2>2. QED
      BY <1>3, <2>1, DraftType DEF LookupDenied
  <1>4. CASE LookupFails
    <2>1. Merged(Verdict(FALSE, IF Expired THEN "deadline" ELSE "api error", Unused, now))
            \in VerdictType
      BY <1>n, VerdictIsVerdict, UnusedType, MergedType DEF Whys
    <2>2. QED
      BY <1>4, <2>1, DraftType DEF LookupFails
  <1>5. CASE LookupEmpty
    <2>1. Merged(Verdict(TRUE, "no arrival", Unused, now)) \in VerdictType
      BY <1>n, VerdictIsVerdict, UnusedType, MergedType DEF Whys
    <2>2. QED
      BY <1>5, <2>1, DraftType DEF LookupEmpty
  <1>6. CASE LookupFinal
    <2>1. PICK a \in PickLatest(arrivals, Listed(i)) : Draft(Merged(Decided(arrivals[a], now)))
      BY <1>6 DEF LookupFinal
    <2>2. Merged(Decided(arrivals[a], now)) \in VerdictType
      BY <1>n, <2>1, ListedType, DecidedType, MergedType
    <2>3. QED
      BY <2>1, <2>2, DraftType
  <1>7. CASE LookupInFlight
    <2>1. PICK a \in PickLatest(arrivals, Listed(i)) : last' = arrivals[a]
      BY <1>7 DEF LookupInFlight
    <2>2. last' \in Arrival
      BY <2>1, ListedType
    <2>3. QED
      BY <1>7, <1>n, <2>2 DEF LookupInFlight, TypeOK, world
  <1>8. CASE PollFinal
    <2>1. PICK a \in PickLatest(arrivals, Listed(i)) :
            Draft(Merged(Decided(arrivals[a], waitFrom)))
      BY <1>8 DEF PollFinal
    <2>2. Merged(Decided(arrivals[a], waitFrom)) \in VerdictType
      BY <1>n, <2>1, ListedType, DecidedType, MergedType
    <2>3. QED
      BY <2>1, <2>2, DraftType
  <1>9. CASE PollInFlight
    <2>1. PICK a \in PickLatest(arrivals, Listed(i)) : last' = arrivals[a]
      BY <1>9 DEF PollInFlight
    <2>2. last' \in Arrival
      BY <2>1, ListedType
    <2>3. QED
      BY <1>9, <1>n, <2>2 DEF PollInFlight, TypeOK, world
  <1>10. CASE PollNothing
    BY <1>10 DEF PollNothing, TypeOK, world
  <1>11. CASE WaitDone
    <2>1. last \in Arrival
      BY DEF TypeOK
    <2>2. Merged(Decided(last, waitFrom)) \in VerdictType
      BY <1>n, <2>1, DecidedType, MergedType
    <2>3. QED
      BY <1>11, <2>2, DraftType DEF WaitDone
  <1>12. CASE AppendVerdict
    <2>1. PICK l \in Layer1Outcomes : verdict' = [verdict EXCEPT ![i] = [draft EXCEPT !.layer1 = l]]
      BY <1>12 DEF AppendVerdict
    <2>2. [draft EXCEPT !.layer1 = l] \in VerdictType
      BY DEF TypeOK, VerdictType, Layer1Outcomes
    <2>3. verdict' \in [1..N -> VerdictType]
      BY <2>1, <2>2 DEF TypeOK
    <2>4. i' \in 1..(N + 1)
      BY <1>12, <1>n DEF AppendVerdict, TypeOK, ReleaseInHand
    <2>5. allPass' \in BOOLEAN
      BY <1>12 DEF AppendVerdict, TypeOK
    <2>6. QED
      BY <1>12, <2>3, <2>4, <2>5, NoVerdictType DEF AppendVerdict, TypeOK, world
  <1>13. QED
    BY <1>1, <1>2, <1>3, <1>4, <1>5, <1>6, <1>7, <1>8, <1>9, <1>10, <1>11, <1>12 DEF Evaluate

\* The steps of publishing keep the types.
LEMMA PublishType ==
  ASSUME TypeOK, Publish PROVE TypeOK'
  <1>n. N \in Nat
    BY LengthIsNat
  <1>1. CASE Render
    BY <1>1 DEF Render, TypeOK, world
  <1>2. CASE CommentPosted
    BY <1>2, <1>n DEF CommentPosted, AfterComment, Colour, TypeOK
  <1>3. CASE CommentFails
    BY <1>3, <1>n DEF CommentFails, AfterComment, TypeOK, world
  <1>4. CASE IssueClientFails
    BY <1>4 DEF IssueClientFails, TypeOK, world
  <1>5. CASE IssueEnsured
    <2>1. i \in 1..N /\ Releases[i].name \in Services
      BY <1>5, <1>n DEF IssueEnsured, TypeOK, Services
    <2>2. i' \in 1..(N + 1) /\ blocked' \in SUBSET Services
      BY <1>5, <1>n, <2>1 DEF IssueEnsured, NextIssue, TypeOK
    <2>3. QED
      BY <1>5, <2>2 DEF IssueEnsured, NextIssue, TypeOK
  <1>6. CASE IssueFails
    BY <1>6, <1>n DEF IssueFails, NextIssue, TypeOK
  <1>7. CASE IssuesDone
    BY <1>7 DEF IssuesDone, TypeOK, world
  <1>8. CASE Exit
    BY <1>8 DEF Exit, TypeOK, world
  <1>9. QED
    BY <1>1, <1>2, <1>3, <1>4, <1>5, <1>6, <1>7, <1>8 DEF Publish

\* What the observer does to an arrival leaves an arrival.
LEMMA ObserverType ==
  ASSUME TypeOK, Observer PROVE TypeOK'
  <1>1. SUFFICES ASSUME arrivals' \in [Ids -> Arrival], UNCHANGED <<gate, now, sticky, blocked>>
                 PROVE  TypeOK'
    <2>1. PICK a \in Ids :
            \/ \E key \in Keys : Deploy(a, key)
            \/ \E phase \in Outcomes, bad \in SUBSET Packs, at \in {now, Unset} :
                 Finalize(a, phase, bad, at)
            \/ Remove(a)
      BY DEF Observer
    <2>2. CASE \E key \in Keys : Deploy(a, key)
      <3>1. PICK key \in Keys : Deploy(a, key)
        BY <2>2
      <3>2. [Unused EXCEPT !.of = key, !.created = now, !.listed = TRUE] \in Arrival
        BY UnusedType DEF TypeOK, Arrival
      <3>3. arrivals' \in [Ids -> Arrival]
        BY <3>1, <3>2 DEF Deploy, TypeOK
      <3>4. QED
        BY <1>1, <3>1, <3>3 DEF Deploy
    <2>3. CASE \E phase \in Outcomes, bad \in SUBSET Packs, at \in {now, Unset} :
                 Finalize(a, phase, bad, at)
      <3>1. PICK phase \in Outcomes, bad \in SUBSET Packs, at \in {now, Unset} :
              Finalize(a, phase, bad, at)
        BY <2>3
      <3>2. phase \in Phases /\ at \in Nat
        BY InputAssumption DEF Phases, Unset, TypeOK
      <3>3. arrivals' \in [Ids -> Arrival]
        BY <3>1, <3>2 DEF Finalize, TypeOK, Arrival
      <3>4. QED
        BY <1>1, <3>1, <3>3 DEF Finalize
    <2>4. CASE Remove(a)
      <3>1. arrivals' \in [Ids -> Arrival]
        BY <2>4 DEF Remove, TypeOK, Arrival
      <3>2. QED
        BY <1>1, <2>4, <3>1 DEF Remove
    <2>5. QED
      BY <2>1, <2>2, <2>3, <2>4
  <1>2. QED
    BY <1>1 DEF TypeOK, gate

LEMMA TypeStep ==
  ASSUME TypeOK, ReleaseInHand, [Next]_vars PROVE TypeOK'
  <1>1. CASE Gate
    BY <1>1, SetupType, EvaluateType, PublishType DEF Gate
  <1>2. CASE Killed
    BY <1>2 DEF Killed, TypeOK, world
  <1>3. CASE Observer
    BY <1>3, ObserverType
  <1>4. CASE Tick
    BY <1>4 DEF Tick, TypeOK
  <1>5. CASE UNCHANGED vars
    BY <1>5 DEF vars, gate, world, TypeOK
  <1>6. QED
    BY <1>1, <1>2, <1>3, <1>4, <1>5 DEF Next, Finished

-----------------------------------------------------------------------------
(* The other parts of the invariant *)

\* The observer changes nothing but the arrivals.
LEMMA ObserverFrame ==
  ASSUME Observer PROVE UNCHANGED <<gate, now, sticky, blocked>>
  BY DEF Observer, Deploy, Finalize, Remove

LEMMA HandStep ==
  ASSUME TypeOK, ReleaseInHand, [Next]_vars PROVE ReleaseInHand'
  <1>1. CASE Setup
    BY <1>1 DEF Setup, Parse, ParseFails, BuildClient, BuildClientFails, ReleaseInHand
  <1>2. CASE Evaluate
    <2>1. CASE SkipBlank \/ AppendVerdict
      BY <2>1 DEF SkipBlank, AppendVerdict, ReleaseInHand
    <2>2. CASE NoQuill \/ LookupDenied \/ LookupFails \/ LookupEmpty \/ LookupFinal
                \/ LookupInFlight
      <3>0. i <= N /\ ~Blank(i)
        BY <2>2 DEF NoQuill, LookupDenied, LookupFails, LookupEmpty, LookupFinal,
           LookupInFlight, Looking
      <3>1. i \in 1..N /\ ~Blank(i)
        BY <3>0, LengthIsNat DEF TypeOK
      <3>2. UNCHANGED i
        BY <2>2 DEF NoQuill, LookupDenied, LookupFails, LookupEmpty, LookupFinal, LookupInFlight,
           Draft
      <3>3. QED
        BY <3>1, <3>2 DEF ReleaseInHand, Blank, N
    <2>3. CASE PollFinal \/ PollInFlight \/ PollNothing \/ WaitDone
      <3>1. pc = "await" /\ UNCHANGED i
        BY <2>3 DEF PollFinal, PollInFlight, PollNothing, WaitDone, Polling, Draft
      <3>2. QED
        BY <3>1 DEF ReleaseInHand, Blank, N
    <2>4. QED
      BY <1>2, <2>1, <2>2, <2>3 DEF Evaluate
  <1>3. CASE Publish
    BY <1>3 DEF Publish, Render, CommentPosted, CommentFails, AfterComment, IssueClientFails,
       IssueEnsured, IssueFails, NextIssue, IssuesDone, Exit, ReleaseInHand
  <1>4. CASE Killed \/ Tick
    BY <1>4 DEF Killed, Tick, ReleaseInHand, Blank, N
  <1>5. CASE Observer
    BY <1>5, ObserverFrame DEF gate, ReleaseInHand, Blank, N
  <1>6. CASE UNCHANGED vars
    BY <1>6 DEF vars, gate, ReleaseInHand, Blank, N
  <1>7. QED
    BY <1>1, <1>2, <1>3, <1>4, <1>5, <1>6 DEF Next, Gate, Finished

\* The clock: only a wait goes beyond the shared context.
LEMMA ClockStep ==
  ASSUME TypeOK, ReleaseInHand, Clock, [Next]_vars PROVE Clock'
  <1>n. now \in Nat /\ waitFrom \in Nat /\ Start \in Nat /\ FastBudget \in Nat /\ WaitBudget \in Nat
    BY BudgetAssumption DEF TypeOK
  <1>1. CASE Setup
    BY <1>1, <1>n DEF Setup, Parse, ParseFails, BuildClient, BuildClientFails, Clock, RunIsBounded,
       FastEnd, WaitEnd, world
  <1>2. CASE Evaluate
    <2>1. now' = now
      BY <1>2 DEF Evaluate, SkipBlank, NoQuill, LookupDenied, LookupFails, LookupEmpty,
         LookupFinal, LookupInFlight, PollFinal, PollInFlight, PollNothing, WaitDone,
         AppendVerdict, Draft, world
    <2>2. CASE LookupInFlight
      BY <2>1, <2>2, <1>n DEF LookupInFlight, Looking, Expired, Clock, RunIsBounded, FastEnd, WaitEnd
    <2>3. CASE PollInFlight \/ PollNothing
      BY <2>1, <2>3, <1>n DEF PollInFlight, PollNothing, Clock, RunIsBounded, FastEnd, WaitEnd
    <2>4. CASE ~(LookupInFlight \/ PollInFlight \/ PollNothing)
      <3>1. pc' \in {"release", "append"}
        BY <1>2, <2>4 DEF Evaluate, SkipBlank, NoQuill, LookupDenied, LookupFails, LookupEmpty,
           LookupFinal, PollFinal, WaitDone, AppendVerdict, Draft
      <3>2. QED
        BY <2>1, <3>1, <1>n DEF Clock, RunIsBounded, FastEnd
    <2>5. QED
      BY <2>2, <2>3, <2>4
  <1>3. CASE Publish
    <2>1. now' = now /\ pc' \notin {"start", "await"}
      BY <1>3 DEF Publish, Render, CommentPosted, CommentFails, AfterComment, IssueClientFails,
         IssueEnsured, IssueFails, NextIssue, IssuesDone, Exit, world
    <2>2. QED
      BY <2>1, <1>n DEF Clock, RunIsBounded, FastEnd
  <1>4. CASE Killed
    BY <1>4, <1>n DEF Killed, Clock, RunIsBounded, FastEnd, world
  <1>5. CASE Tick
    BY <1>5, <1>n DEF Tick, TimeMayPass, Clock, RunIsBounded, FastEnd, WaitEnd, Expired
  <1>6. CASE Observer
    BY <1>6, ObserverFrame DEF gate, Clock, RunIsBounded, FastEnd, WaitEnd
  <1>7. CASE UNCHANGED vars
    BY <1>7 DEF vars, gate, world, Clock, RunIsBounded, FastEnd, WaitEnd
  <1>8. QED
    BY <1>1, <1>2, <1>3, <1>4, <1>5, <1>6, <1>7 DEF Next, Gate, Finished

\* What the verdict of a phase says and when it was given.
LEMMA DecidedFields ==
  ASSUME NEW rec \in Arrival, NEW from \in Nat
  PROVE  LET v == Merged(Decided(rec, from)) IN
         /\ v.why = IF InFlight(rec.phase) THEN "NotFinalized" ELSE rec.phase
         /\ v.pass <=> rec.phase \in {"Passed", "Skipped"}
         /\ v.at = now /\ v.from = from /\ v.arr = rec
  <1>1. rec.phase \in Phases
    BY DEF Arrival
  <1>2. CASE Blocking(rec.phase)
    <2>1. Decided(rec, from) = [Verdict(FALSE, rec.phase, rec, from) EXCEPT
                                  !.failedTests = rec.bad, !.failedPacks = rec.bad]
      BY <1>2 DEF Decided
    <2>2. QED
      BY <1>1, <1>2, <2>1 DEF Merged, Verdict, InFlight, Blocking, Terminal
  <1>3. CASE ~Blocking(rec.phase) /\ InFlight(rec.phase)
    <2>1. Decided(rec, from) = Verdict(FALSE, "NotFinalized", rec, from)
      BY <1>3 DEF Decided
    <2>2. QED
      BY <1>1, <1>3, <2>1 DEF Merged, Verdict, InFlight, Terminal
  <1>4. CASE ~Blocking(rec.phase) /\ ~InFlight(rec.phase)
    <2>1. Decided(rec, from) = Verdict(TRUE, rec.phase, rec, from)
      BY <1>4 DEF Decided
    <2>2. QED
      BY <1>1, <1>4, <2>1 DEF Merged, Verdict, InFlight, Blocking, Terminal
  <1>5. QED
    BY <1>2, <1>3, <1>4

\* Every step that drafts a verdict drafts an honest one.
LEMMA DraftIsHonest ==
  ASSUME TypeOK, ReleaseInHand, Clock, Evaluate, pc' = "append"
  PROVE  draft'.why # "none" /\ Honest(draft)'
  <1>n. now \in Nat /\ waitFrom \in Nat /\ Start \in Nat /\ FastBudget \in Nat /\ WaitBudget \in Nat
    BY BudgetAssumption DEF TypeOK
  <1>0. now' = now
    BY DEF Evaluate, SkipBlank, NoQuill, LookupDenied, LookupFails, LookupEmpty,
       LookupFinal, LookupInFlight, PollFinal, PollInFlight, PollNothing, WaitDone,
       AppendVerdict, Draft, world
  <1>1. CASE NoQuill
    BY <1>1 DEF NoQuill, Draft, Verdict, Honest
  <1>2. CASE LookupDenied
    BY <1>2 DEF LookupDenied, Draft, Merged, Verdict, Honest
  <1>3. CASE LookupFails
    <2>1. CASE Expired
      BY <1>0, <1>3, <2>1 DEF LookupFails, Draft, Merged, Verdict, Honest, Expired, FastEnd
    <2>2. CASE ~Expired
      BY <1>3, <2>2 DEF LookupFails, Draft, Merged, Verdict, Honest
    <2>3. QED
      BY <2>1, <2>2
  <1>4. CASE LookupEmpty
    BY <1>4 DEF LookupEmpty, Draft, Merged, Verdict, Honest
  <1>5. CASE LookupFinal
    <2>1. PICK a \in PickLatest(arrivals, Listed(i)) :
            ~InFlight(arrivals[a].phase) /\ Draft(Merged(Decided(arrivals[a], now)))
      BY <1>5 DEF LookupFinal
    <2>2. draft'.why \in Terminal
      BY <1>n, <2>1, ListedType, DecidedFields DEF Draft, InFlight
    <2>3. QED
      BY <2>2 DEF Terminal, Honest
  <1>6. CASE PollFinal
    <2>1. PICK a \in PickLatest(arrivals, Listed(i)) :
            ~InFlight(arrivals[a].phase) /\ Draft(Merged(Decided(arrivals[a], waitFrom)))
      BY <1>6 DEF PollFinal
    <2>2. draft'.why \in Terminal
      BY <1>n, <2>1, ListedType, DecidedFields DEF Draft, InFlight
    <2>3. QED
      BY <2>2 DEF Terminal, Honest
  <1>7. CASE WaitDone
    <2>1. last \in Arrival
      BY DEF TypeOK
    <2>2. /\ draft'.why = IF InFlight(last.phase) THEN "NotFinalized" ELSE last.phase
          /\ draft'.at = now /\ draft'.from = waitFrom
      BY <1>7, <1>n, <2>1, DecidedFields DEF WaitDone, Draft
    <2>3. now >= waitFrom + WaitBudget
      BY <1>7 DEF WaitDone, WaitOver, WaitEnd
    <2>4. QED
      BY <2>2, <2>3 DEF Honest, InFlight, Terminal
  <1>8. CASE SkipBlank \/ LookupInFlight \/ PollInFlight \/ PollNothing \/ AppendVerdict
    BY <1>8 DEF SkipBlank, LookupInFlight, PollInFlight, PollNothing, Polling, AppendVerdict
  <1>9. QED
    BY <1>1, <1>2, <1>3, <1>4, <1>5, <1>6, <1>7, <1>8 DEF Evaluate

\* Steps of the evaluation other than drafting and appending.
LEMMA EvaluateFrame ==
  ASSUME Evaluate
  PROVE  /\ UNCHANGED <<opts, exit, world>>
         /\ \/ pc' = "append" /\ pc \in {"release", "await"} /\ UNCHANGED <<i, verdict, allPass>>
            \/ AppendVerdict
            \/ SkipBlank
            \/ pc' = "await" /\ pc \in {"release", "await"} /\ UNCHANGED <<i, draft, verdict, allPass>>
  BY DEF Evaluate, SkipBlank, NoQuill, LookupDenied, LookupFails, LookupEmpty,
     LookupFinal, LookupInFlight, Looking, PollFinal, PollInFlight, PollNothing, Polling,
     WaitDone, AppendVerdict, Draft

\* The steps of setting up and of publishing leave the verdicts alone.
LEMMA OthersFrame ==
  ASSUME Setup \/ Publish \/ Killed \/ Tick \/ Observer
  PROVE  UNCHANGED <<verdict, draft, allPass>>
  <1>1. CASE Setup \/ Publish \/ Killed \/ Tick
    BY <1>1 DEF Setup, Parse, ParseFails, BuildClient, BuildClientFails,
       Publish, Render, CommentPosted, CommentFails, IssueClientFails, IssueEnsured,
       IssueFails, NextIssue, IssuesDone, Exit, Killed, Tick
  <1>2. CASE Observer
    BY <1>2, ObserverFrame DEF gate
  <1>3. QED
    BY <1>1, <1>2

\* Time does not run backwards, and a run does not start twice.
LEMMA NowGrows ==
  ASSUME TypeOK, [Next]_vars
  PROVE  now' >= now /\ now' \in Nat /\ (pc # "start" => pc' # "start")
  <1>n. now \in Nat
    BY DEF TypeOK
  <1>1. CASE Setup
    BY <1>1, <1>n DEF Setup, Parse, ParseFails, BuildClient, BuildClientFails, world
  <1>2. CASE Evaluate
    <2>1. pc' # "start"
      BY <1>2, EvaluateFrame DEF SkipBlank, AppendVerdict
    <2>2. QED
      BY <1>2, <1>n, <2>1, EvaluateFrame DEF world
  <1>3. CASE Publish
    BY <1>3, <1>n DEF Publish, Render, CommentPosted, CommentFails, AfterComment, IssueClientFails,
       IssueEnsured, IssueFails, NextIssue, IssuesDone, Exit, world
  <1>4. CASE Killed \/ Tick
    BY <1>4, <1>n DEF Killed, Tick, world
  <1>5. CASE Observer
    BY <1>5, <1>n, ObserverFrame DEF gate
  <1>6. CASE UNCHANGED vars
    BY <1>6, <1>n DEF vars, gate, world
  <1>7. QED
    BY <1>1, <1>2, <1>3, <1>4, <1>5, <1>6 DEF Next, Gate, Finished

\* Deadlines only pass: an honest verdict stays honest.
LEMMA DeadlinesStep ==
  ASSUME TypeOK, ReleaseInHand, Clock, Deadlines, [Next]_vars PROVE Deadlines'
  <1>n. now \in Nat /\ now' \in Nat /\ now' >= now /\ (pc # "start" => pc' # "start")
        /\ Start \in Nat /\ FastBudget \in Nat /\ WaitBudget \in Nat
    BY NowGrows, BudgetAssumption DEF TypeOK
  <1>k. ASSUME UNCHANGED verdict PROVE (\A k \in 1..N : Honest(verdict[k]))'
    BY <1>n, <1>k DEF Deadlines, Honest, Expired, FastEnd, N
  <1>d. ASSUME UNCHANGED draft PROVE Honest(draft)'
    BY <1>n, <1>d DEF Deadlines, Honest, Expired, FastEnd
  <1>1. (\A k \in 1..N : Honest(verdict[k]))' /\ Honest(draft)'
    <2>1. CASE Setup \/ Publish \/ Killed \/ Tick \/ Observer
      BY <2>1, <1>k, <1>d, OthersFrame
    <2>2. CASE Evaluate
      <3>1. CASE pc' = "append" /\ UNCHANGED verdict
        BY <2>2, <3>1, <1>k, DraftIsHonest
      <3>2. CASE AppendVerdict
        <4>1. PICK l \in Layer1Outcomes :
                verdict' = [verdict EXCEPT ![i] = [draft EXCEPT !.layer1 = l]]
          BY <3>2 DEF AppendVerdict
        <4>2. i \in 1..N /\ verdict \in [1..N -> VerdictType] /\ draft \in VerdictType
          BY <3>2 DEF AppendVerdict, ReleaseInHand, TypeOK
        <4>3. /\ verdict'[i].why = draft.why
              /\ verdict'[i].at = draft.at
              /\ verdict'[i].from = draft.from
          BY <4>1, <4>2 DEF VerdictType
        <4>4. \A k \in 1..N : k # i => verdict'[k] = verdict[k]
          BY <4>1, <4>2
        <4>5. ASSUME NEW k \in 1..N PROVE Honest(verdict[k])'
          BY <1>n, <4>3, <4>4 DEF Deadlines, Honest, Expired, FastEnd
        <4>6. Honest(draft)'
          BY <3>2 DEF AppendVerdict, NoVerdict, Honest
        <4>7. QED
          BY <4>5, <4>6 DEF N
      <3>3. CASE UNCHANGED <<verdict, draft>>
        BY <3>3, <1>k, <1>d
      <3>4. QED
        BY <2>2, <3>1, <3>2, <3>3, EvaluateFrame DEF SkipBlank
    <2>3. CASE UNCHANGED vars
      BY <2>3, <1>k, <1>d DEF vars, gate
    <2>4. QED
      BY <2>1, <2>2, <2>3 DEF Next, Gate, Finished
  <1>2. ("dryRun" \in opts => pc \notin {"comment", "issues"})'
    <2>1. CASE Setup
      BY <2>1 DEF Setup, Parse, ParseFails, BuildClient, BuildClientFails
    <2>2. CASE Evaluate
      BY <2>2, EvaluateFrame DEF Deadlines, SkipBlank, AppendVerdict
    <2>3. CASE Publish
      BY <2>3 DEF Publish, Render, CommentPosted, CommentFails, AfterComment, IssueClientFails,
         IssueEnsured, IssueFails, NextIssue, IssuesDone, Exit, Deadlines
    <2>4. CASE Killed \/ Tick
      BY <2>4 DEF Killed, Tick, Deadlines
    <2>5. CASE Observer
      BY <2>5, ObserverFrame DEF gate, Deadlines
    <2>6. CASE UNCHANGED vars
      BY <2>6 DEF vars, gate, Deadlines
    <2>7. QED
      BY <2>1, <2>2, <2>3, <2>4, <2>5, <2>6 DEF Next, Gate, Finished
  <1>3. QED
    BY <1>1, <1>2 DEF Deadlines

\* The loop keeps its books.
LEMMA TallyStep ==
  ASSUME TypeOK, ReleaseInHand, Clock, Tally, [Next]_vars PROVE Tally'
  <1>n. N \in Nat /\ i \in 1..(N + 1) /\ verdict \in [1..N -> VerdictType] /\ draft \in VerdictType
    BY LengthIsNat DEF TypeOK
  <1>0. N' = N /\ \A k \in 1..N : Blank(k)' = Blank(k)
    BY DEF N, Blank
  <1>1. CASE Setup
    BY <1>0, <1>1 DEF Setup, Parse, ParseFails, BuildClient, BuildClientFails, Tally, Evaluated
  <1>2. CASE Evaluate
    <2>1. CASE /\ UNCHANGED <<i, verdict, allPass, exit>> /\ pc \in {"release", "await"}
               /\ pc' = "append"
      BY <1>0, <1>2, <2>1, DraftIsHonest DEF Tally, Evaluated
    <2>2. CASE UNCHANGED <<i, verdict, allPass, exit>> /\ pc \in {"release", "await"} /\ pc' = "await"
      BY <1>0, <2>2 DEF Tally, Evaluated
    <2>3. CASE SkipBlank
      <3>1. /\ pc = "release" /\ pc' = "release" /\ Blank(i) /\ i' = i + 1
            /\ UNCHANGED <<verdict, allPass, exit>>
        BY <2>3 DEF SkipBlank
      <3>2. ASSUME NEW k \in 1..N
            PROVE  IF k < i' /\ ~Blank(k) THEN Evaluated(k) ELSE verdict[k] = NoVerdict
        BY <1>n, <3>1 DEF Tally
      <3>3. QED
        BY <1>0, <3>1, <3>2 DEF Tally, Evaluated
    <2>4. CASE AppendVerdict
      <3>1. PICK l \in Layer1Outcomes :
              verdict' = [verdict EXCEPT ![i] = [draft EXCEPT !.layer1 = l]]
        BY <2>4 DEF AppendVerdict
      <3>2. /\ pc = "append" /\ pc' = "release" /\ i' = i + 1 /\ exit' = exit
            /\ allPass' = (allPass /\ draft.pass) /\ i \in 1..N /\ ~Blank(i)
        BY <2>4 DEF AppendVerdict, ReleaseInHand
      <3>3. verdict'[i].why = draft.why /\ verdict'[i].pass = draft.pass
        BY <1>n, <3>1, <3>2 DEF VerdictType
      <3>4. \A k \in 1..N : k # i => verdict'[k] = verdict[k]
        BY <1>n, <3>1
      <3>5. verdict[i] = NoVerdict
        BY <1>n, <3>2 DEF Tally
      <3>6. allPass' <=> \A k \in 1..N : verdict'[k].pass
        <4>1. verdict[i].pass
          BY <3>5 DEF NoVerdict
        <4>2. QED
          BY <3>2, <3>3, <3>4, <4>1 DEF Tally
      <3>7. ASSUME NEW k \in 1..N
            PROVE  IF k < i' /\ ~Blank(k) THEN verdict'[k].why # "none" ELSE verdict'[k] = NoVerdict
        <4>1. CASE k = i
          BY <1>n, <3>2, <3>3, <4>1 DEF Tally
        <4>2. CASE k # i
          BY <1>n, <3>2, <3>4, <4>2 DEF Tally, Evaluated
        <4>3. QED
          BY <4>1, <4>2
      <3>8. exit' \notin {"pass", "fail"}
        BY <3>2 DEF Tally
      <3>9. QED
        BY <1>0, <3>2, <3>6, <3>7, <3>8 DEF Tally, Evaluated
    <2>5. QED
      BY <1>2, <2>1, <2>2, <2>3, <2>4, EvaluateFrame
  <1>3. CASE Publish
    <2>0. UNCHANGED <<verdict, draft, allPass>>
      BY <1>3, OthersFrame
    <2>1. CASE Render
      <3>1. /\ pc = "release" /\ i > N /\ pc' \in {"comment", "exit"} /\ exit' = exit
        BY <2>1 DEF Render
      <3>2. \A k \in 1..N : ~Blank(k) => Evaluated(k)
        BY <1>n, <3>1 DEF Tally
      <3>3. QED
        BY <1>0, <2>0, <3>1, <3>2 DEF Tally, Evaluated
    <2>2. CASE Exit
      BY <1>0, <2>0, <2>2 DEF Exit, Tally, Evaluated
    <2>3. CASE CommentPosted \/ CommentFails \/ IssueClientFails \/ IssueEnsured \/ IssueFails
                 \/ IssuesDone
      <3>1. pc \in {"comment", "issues"} /\ pc' \in {"issues", "exit"} /\ exit' = exit
        BY <2>3 DEF CommentPosted, CommentFails, AfterComment, IssueClientFails, IssueEnsured,
           IssueFails, NextIssue, IssuesDone
      <3>2. QED
        BY <1>0, <2>0, <3>1 DEF Tally, Evaluated
    <2>4. QED
      BY <1>3, <2>1, <2>2, <2>3 DEF Publish
  <1>4. CASE Killed
    BY <1>0, <1>4 DEF Killed, Tally, Evaluated
  <1>5. CASE Tick
    BY <1>0, <1>5 DEF Tick, Tally, Evaluated
  <1>6. CASE Observer
    BY <1>0, <1>6, ObserverFrame DEF gate, Tally, Evaluated
  <1>7. CASE UNCHANGED vars
    BY <1>0, <1>7 DEF vars, gate, Tally, Evaluated
  <1>8. QED
    BY <1>1, <1>2, <1>3, <1>4, <1>5, <1>6, <1>7 DEF Next, Gate, Finished

\* Every part of the invariant holds at the start.
LEMMA InitInv == Init => GateInv
  <1>1. SUFFICES ASSUME Init PROVE GateInv
    OBVIOUS
  <1>n. N \in Nat /\ Start \in Nat \ {0} /\ FastBudget \in Nat /\ WaitBudget \in Nat
    BY LengthIsNat, BudgetAssumption
  <1>2. TypeOK
    BY <1>1, InitType
  <1>3. ReleaseInHand
    BY <1>1 DEF Init, ReleaseInHand
  <1>4. Clock
    BY <1>1, <1>n DEF Init, Clock, RunIsBounded, FastEnd
  <1>5. Tally
    BY <1>1, <1>n DEF Init, Tally, Evaluated, NoVerdict
  <1>6. Deadlines
    BY <1>1 DEF Init, Deadlines, Honest, NoVerdict
  <1>7. QED
    BY <1>2, <1>3, <1>4, <1>5, <1>6 DEF GateInv

-----------------------------------------------------------------------------
(* The theorems *)

\* The invariant of the run: its state is well typed, its clock, its books and its
\* verdicts are in order.
THEOREM Invariance == Spec => []GateInv
  <1>1. Init => GateInv
    BY InitInv
  <1>2. GateInv /\ [Next]_vars => GateInv'
    BY TypeStep, HandStep, ClockStep, TallyStep, DeadlinesStep DEF GateInv
  <1>3. QED
    BY <1>1, <1>2, PTL DEF Spec

\* Whatever the surroundings do, the state keeps its types.
THEOREM TypeCorrect == Spec => []TypeOK
  <1>1. GateInv => TypeOK
    BY DEF GateInv
  <1>2. QED
    BY <1>1, Invariance, PTL

\* An exit code of 0 or 1 speaks for every release with a name and a version.
THEOREM ExitIsComplete == Spec => []ExitSpeaksForAll
  <1>1. GateInv => ExitSpeaksForAll
    BY DEF GateInv, Tally, ExitSpeaksForAll
  <1>2. QED
    BY <1>1, Invariance, PTL

\* No run calls an arrival stuck before the whole wait is over.
THEOREM GraceHolds == Spec => []GraceIsHonoured
  <1>1. GateInv => GraceIsHonoured
    BY DEF GateInv, Deadlines, Honest, GraceIsHonoured
  <1>2. QED
    BY <1>1, Invariance, PTL

\* A run of any number of releases ends its work within the sum of the two budgets.
THEOREM BoundHolds == Spec => []RunIsBounded
  <1>1. GateInv => RunIsBounded
    BY DEF GateInv, Clock
  <1>2. QED
    BY <1>1, Invariance, PTL

\* A run that its own deadline failed, and a dry run, leave comment and issues alone.
THEOREM SilenceHolds == Spec => NoWordAfterDeadline
  <1>1. GateInv /\ [Next]_vars =>
          [(\E k \in 1..N : verdict[k].why = "deadline") \/ "dryRun" \in opts
             => UNCHANGED <<sticky, blocked>>]_vars
    <2>1. SUFFICES ASSUME GateInv, [Next]_vars,
                          \/ \E k \in 1..N : verdict[k].why = "deadline"
                          \/ "dryRun" \in opts
                   PROVE  UNCHANGED <<sticky, blocked>>
      OBVIOUS
    <2>2. ~(CommentPosted \/ IssueEnsured)
      <3>1. CASE \E k \in 1..N : verdict[k].why = "deadline"
        <4>1. Expired
          BY <2>1, <3>1 DEF GateInv, Deadlines, Honest
        <4>2. QED
          BY <4>1 DEF CommentPosted, IssueEnsured
      <3>2. CASE "dryRun" \in opts
        BY <2>1, <3>2 DEF GateInv, Deadlines, CommentPosted, IssueEnsured
      <3>3. QED
        BY <2>1, <3>1, <3>2
    <2>3. CASE Setup
      BY <2>3 DEF Setup, Parse, ParseFails, BuildClient, BuildClientFails, world
    <2>4. CASE Evaluate
      BY <2>4, EvaluateFrame DEF world
    <2>5. CASE Publish
      BY <2>2, <2>5 DEF Publish, Render, CommentFails, IssueClientFails, IssueFails, NextIssue,
         IssuesDone, Exit, world
    <2>6. CASE Killed \/ Tick
      BY <2>6 DEF Killed, Tick, world
    <2>7. CASE Observer
      BY <2>7, ObserverFrame
    <2>8. CASE UNCHANGED vars
      BY <2>8 DEF vars, world
    <2>9. QED
      BY <2>1, <2>3, <2>4, <2>5, <2>6, <2>7, <2>8 DEF Next, Gate, Finished
  <1>2. QED
    BY <1>1, Invariance, PTL DEF Spec, NoWordAfterDeadline
-----------------------------------------------------------------------------
(* The helmfile *)

\* A run that cannot decode its helmfile decides nothing.
Unread ==
  Undecodable => \/ pc = "start" /\ exit = "running"
                 \/ pc = "done" /\ exit = "unparsed"

LEMMA UnreadHolds == Spec => []Unread
  <1>1. Init => Unread
    BY DEF Init, Unread
  <1>2. Unread /\ [Next]_vars => Unread'
    <2>1. SUFFICES ASSUME Undecodable, Unread, [Next]_vars PROVE Unread'
      BY DEF Unread
    <2>2. pc \in {"start", "done"}
      BY <2>1 DEF Unread
    <2>3. CASE Setup
      BY <2>1, <2>2, <2>3 DEF Setup, Parse, ParseFails, BuildClient, BuildClientFails, Unread
    <2>4. ~Evaluate
      BY <2>2 DEF Evaluate, SkipBlank, NoQuill, Looking, LookupDenied, LookupFails, LookupEmpty,
         LookupFinal, LookupInFlight, Polling, PollFinal, PollInFlight, PollNothing, WaitDone,
         AppendVerdict
    <2>5. ~Publish
      BY <2>2 DEF Publish, Render, CommentPosted, CommentFails, IssueClientFails, IssueEnsured,
         IssueFails, IssuesDone, Exit
    <2>6. ~Killed
      BY <2>2 DEF Killed
    <2>7. CASE Tick
      BY <2>1, <2>7 DEF Tick, Unread
    <2>8. CASE Observer
      BY <2>1, <2>8, ObserverFrame DEF gate, Unread
    <2>9. CASE UNCHANGED vars
      BY <2>1, <2>9 DEF vars, gate, Unread
    <2>10. QED
      BY <2>1, <2>3, <2>4, <2>5, <2>6, <2>7, <2>8, <2>9 DEF Next, Gate, Finished
  <1>3. QED
    BY <1>1, <1>2, PTL DEF Spec

\* A helmfile that is not empty has a document that counts, and only one.
LEMMA SomeDocumentCounts ==
  ASSUME NEW d \in DOMAIN Documents, Documents[d] # <<>>
  PROVE  ListDocument \in Chosen
  <1> DEFINE S == {e \in DOMAIN Documents : Documents[e] # <<>>}
             Less == OpToRel(<, Nat)
  <1>1. DOMAIN Documents = 1..Len(Documents) /\ Len(Documents) \in Nat
    BY InputAssumption
  <1>2. S \subseteq Nat /\ S # {}
    BY <1>1
  <1>3. IsWellFoundedOn(Less, Nat)
    BY NatLessThanWellFounded
  <1>4. PICK c \in S : \A e \in S : <<e, c>> \notin Less
    <2> HIDE DEF S, Less
    <2>1. QED
      BY <1>2, <1>3, WFMin
  <1>5. \A e \in S : ~(e < c)
    BY <1>2, <1>4 DEF OpToRel
  <1>6. \A e \in 1..(c - 1) : Documents[e] = <<>>
    BY <1>1, <1>5
  <1>7. c \in Chosen
    BY <1>6 DEF Chosen
  <1>8. QED
    BY <1>7 DEF ListDocument

\* The list that is alone in a helmfile that can be read is the one taken.
LEMMA SoleListIsTaken ==
  ASSUME NEW d \in DOMAIN Documents,
         Documents[d] \notin {<<>>, Garbled},
         \A e \in DOMAIN Documents \ {d} : Documents[e] \in {<<>>, Garbled},
         ~Undecodable
  PROVE  Releases = Documents[d]
  <1>1. ListDocument \in Chosen
    BY SomeDocumentCounts
  <1>2. ListDocument \in DOMAIN Documents /\ Documents[ListDocument] # <<>>
    BY <1>1 DEF Chosen
  <1>3. Documents[ListDocument] # Garbled
    BY <1>1 DEF Undecodable
  <1>4. ListDocument = d
    BY <1>2, <1>3
  <1>5. QED
    BY <1>1, <1>4 DEF Releases

\* No run goes green past a release of the one list of its helmfile.
THEOREM SoleListHolds == Spec => []SoleListIsGated
  <1>1. ASSUME Unread, ExitSpeaksForAll, exit = "pass",
               NEW d \in DOMAIN Documents,
               Documents[d] \notin {<<>>, Garbled},
               \A e \in DOMAIN Documents \ {d} : Documents[e] \in {<<>>, Garbled},
               NEW r \in {Documents[d][k] : k \in DOMAIN Documents[d]},
               r.name # "", r.version # ""
        PROVE  \E k \in 1..N : Releases[k] = r /\ Evaluated(k) /\ verdict[k].pass
    <2>1. Releases = Documents[d]
      BY <1>1, SoleListIsTaken DEF Unread
    <2>2. DOMAIN Releases = 1..N
      BY ReleasesType DEF N
    <2>3. PICK k \in 1..N : Releases[k] = r
      BY <1>1, <2>1, <2>2
    <2>4. ~Blank(k)
      BY <1>1, <2>3 DEF Blank
    <2>5. Evaluated(k) /\ verdict[k].pass
      BY <1>1, <2>3, <2>4 DEF ExitSpeaksForAll
    <2>6. QED
      BY <2>3, <2>5
  <1>2. Unread /\ ExitSpeaksForAll => SoleListIsGated
    <2>1. SUFFICES ASSUME Unread, ExitSpeaksForAll, exit = "pass",
                          NEW d \in DOMAIN Documents,
                          Documents[d] \notin {<<>>, Garbled},
                          \A e \in DOMAIN Documents \ {d} : Documents[e] \in {<<>>, Garbled},
                          NEW r \in {Documents[d][k] : k \in DOMAIN Documents[d]}
                   PROVE  r.name = "" \/ r.version = ""
                            \/ \E k \in 1..N : Releases[k] = r /\ Evaluated(k) /\ verdict[k].pass
      BY DEF SoleListIsGated
    <2>2. CASE r.name # "" /\ r.version # ""
      BY <1>1, <2>1, <2>2
    <2>3. QED
      BY <2>2
  <1>3. QED
    BY <1>2, UnreadHolds, ExitIsComplete, PTL
=============================================================================
