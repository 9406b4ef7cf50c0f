-------------------------- MODULE GateHistoryProofs -------------------------
(***************************************************************************)
(* Proofs about GateRun that relate its verdicts to the history of the     *)
(* arrivals, and what it publishes to its verdicts.                        *)
(***************************************************************************)
EXTENDS GateRunProofs

\* What the observer does to one arrival: a final one stays as it is, and one that a list
\* returns is as it was, or finalized just now, or not a failure and without a time.
LEMMA ObserverEffect ==
  ASSUME TypeOK, ArrivalLaw, Observer, NEW b \in Ids
  PROVE  /\ ~InFlight(arrivals[b].phase) =>
              /\ arrivals'[b].of = arrivals[b].of /\ arrivals'[b].phase = arrivals[b].phase
              /\ arrivals'[b].finalizedAt = arrivals[b].finalizedAt
         /\ arrivals'[b].listed =>
              \/ /\ arrivals[b].listed
                 /\ arrivals'[b].of = arrivals[b].of /\ arrivals'[b].phase = arrivals[b].phase
                 /\ arrivals'[b].finalizedAt = arrivals[b].finalizedAt
              \/ arrivals'[b].finalizedAt = now
              \/ arrivals'[b].finalizedAt = Unset /\ ~Blocking(arrivals'[b].phase)
         /\ \/ /\ arrivals'[b].phase = arrivals[b].phase
               /\ arrivals'[b].finalizedAt = arrivals[b].finalizedAt
            \/ arrivals'[b].finalizedAt = now /\ ~InFlight(arrivals'[b].phase)
            \/ arrivals'[b].finalizedAt = Unset /\ ~Blocking(arrivals'[b].phase)
  <1>1. PICK a \in Ids :
          \/ \E key \in Keys : Deploy(a, key)
          \/ \E phase \in Outcomes, bad \in SUBSET Packs, at \in {now, Unset} :
               Finalize(a, phase, bad, at)
          \/ Remove(a)
    BY DEF Observer
  <1>2. arrivals \in [Ids -> Arrival]
    BY DEF TypeOK
  <1>3. ASSUME NEW key \in Keys, Deploy(a, key), b = a
        PROVE  /\ InFlight(arrivals[b].phase)
               /\ arrivals'[b].finalizedAt = Unset /\ ~Blocking(arrivals'[b].phase)
    <2>1. arrivals'[b] = [Unused EXCEPT !.of = key, !.created = now, !.listed = TRUE]
      BY <1>2, <1>3 DEF Deploy
    <2>2. arrivals'[b].phase = "Testing" /\ arrivals'[b].finalizedAt = Unset
      BY <2>1 DEF Unused
    <2>3. arrivals[b].phase = "Testing"
      <3>1. arrivals[b] = Unused
        BY <1>3 DEF Deploy
      <3>2. Unused.phase = "Testing"
        BY DEF Unused
      <3>3. QED
        BY <3>1, <3>2
    <2>4. QED
      BY <2>2, <2>3 DEF InFlight, Terminal, Blocking
  <1>4. ASSUME NEW phase \in Outcomes, NEW bad \in SUBSET Packs, NEW at \in {now, Unset},
               Finalize(a, phase, bad, at), b = a
        PROVE  /\ InFlight(arrivals[b].phase)
               /\ \/ arrivals'[b].finalizedAt = now /\ ~InFlight(arrivals'[b].phase)
                  \/ arrivals'[b].finalizedAt = Unset /\ ~Blocking(arrivals'[b].phase)
    <2>1. arrivals'[b].phase = phase /\ arrivals'[b].finalizedAt = at
      BY <1>2, <1>4 DEF Finalize, Arrival
    <2>2. phase \in Terminal
      BY InputAssumption
    <2>3. QED
      BY <1>4, <2>1, <2>2 DEF Finalize, InFlight, Blocking
  <1>5. ASSUME Remove(a), b = a
        PROVE  /\ arrivals'[b].of = arrivals[b].of /\ arrivals'[b].phase = arrivals[b].phase
               /\ arrivals'[b].finalizedAt = arrivals[b].finalizedAt /\ ~arrivals'[b].listed
    BY <1>2, <1>5 DEF Remove, Arrival
  <1>6. ASSUME b # a PROVE arrivals'[b] = arrivals[b]
    BY <1>1, <1>2, <1>6 DEF Deploy, Finalize, Remove
  <1>7. CASE b # a
    BY <1>6, <1>7
  <1>8. CASE b = a
    BY <1>1, <1>3, <1>4, <1>5, <1>8
  <1>9. QED
    BY <1>7, <1>8

\* The times of the arrivals.
LEMMA Times ==
  ASSUME TypeOK
  PROVE  now \in Nat /\ \A b \in Ids : arrivals[b].finalizedAt \in Nat
  BY DEF TypeOK, Arrival

\* Nobody else touches the arrivals.
LEMMA OnlyObserver ==
  ASSUME [Next]_vars PROVE Observer \/ arrivals' = arrivals
  <1>1. CASE Setup
    BY <1>1 DEF Setup, Parse, ParseFails, BuildClient, BuildClientFails, world
  <1>2. CASE Evaluate
    BY <1>2, EvaluateFrame DEF world
  <1>3. CASE Publish
    BY <1>3 DEF Publish, Render, CommentPosted, CommentFails, IssueClientFails, IssueEnsured,
       IssueFails, NextIssue, IssuesDone, Exit, world
  <1>4. CASE Killed \/ Tick \/ UNCHANGED vars
    BY <1>4 DEF Killed, Tick, vars, world
  <1>5. QED
    BY <1>1, <1>2, <1>3, <1>4 DEF Next, Gate, Finished

\* The observer keeps to the law.
LEMMA LawStep ==
  ASSUME GateInv, ArrivalLaw, [Next]_vars PROVE ArrivalLaw'
  <1>1. TypeOK /\ TypeOK'
    BY TypeStep DEF GateInv
  <1>2. CASE Observer
    <2>1. now' = now
      BY <1>2, ObserverFrame
    <2>2. QED
      BY <1>1, <1>2, <2>1, Times, ObserverEffect DEF ArrivalLaw
  <1>3. CASE arrivals' = arrivals /\ now' >= now
    <2>1. now' # Unset
      BY <1>1, <1>3, Times DEF ArrivalLaw, Unset, TypeOK
    <2>2. ASSUME NEW b \in Ids PROVE arrivals'[b].finalizedAt <= now'
      BY <1>1, <1>3, <2>2, Times DEF ArrivalLaw, TypeOK
    <2>3. QED
      BY <1>3, <2>1, <2>2 DEF ArrivalLaw
  <1>4. QED
    <2>1. now' >= now
      BY <1>1, NowGrows
    <2>2. Observer \/ arrivals' = arrivals
      BY OnlyObserver
    <2>3. QED
      BY <1>2, <1>3, <2>1, <2>2

-----------------------------------------------------------------------------
(* Verdicts *)

\* Time, and what the observer does later, take nothing from a verdict.
LEMMA GroundedStays ==
  ASSUME TypeOK, ArrivalLaw, now' \in Nat, now' >= now, arrivals' = arrivals \/ Observer,
         NEW v \in VerdictType, NEW key, Grounded(v, key)
  PROVE  Grounded(v, key)'
  <1>1. /\ now \in Nat /\ v.at \in Nat /\ v.at <= now /\ v.arr.finalizedAt \in Nat
        /\ v.pass \in BOOLEAN
    BY Times DEF VerdictType, Arrival, Grounded
  <1>2. \A b \in Ids :
          arrivals[b].finalizedAt \in Nat
          /\ (~InFlight(arrivals[b].phase) =>
              /\ arrivals'[b].of = arrivals[b].of /\ arrivals'[b].phase = arrivals[b].phase
              /\ arrivals'[b].finalizedAt = arrivals[b].finalizedAt)
          /\ (arrivals'[b].listed =>
              \/ /\ arrivals[b].listed
                 /\ arrivals'[b].of = arrivals[b].of /\ arrivals'[b].phase = arrivals[b].phase
                 /\ arrivals'[b].finalizedAt = arrivals[b].finalizedAt
              \/ arrivals'[b].finalizedAt = now
              \/ arrivals'[b].finalizedAt = Unset /\ ~Blocking(arrivals'[b].phase))
    BY Times, ObserverEffect
  <1>3. ASSUME FailuresOverruled(v, key) PROVE FailuresOverruled(v, key)'
    <2> SUFFICES ASSUME NEW b \in Ids, arrivals'[b].listed, arrivals'[b].of = key,
                        Blocking(arrivals'[b].phase), arrivals'[b].finalizedAt < v.at
                 PROVE  \E a \in Ids : /\ arrivals'[a].of = key
                                       /\ arrivals'[a].phase \in {"Passed", "Skipped"}
                                       /\ arrivals'[a].finalizedAt >= arrivals'[b].finalizedAt
      BY DEF FailuresOverruled
    <2>1. /\ arrivals[b].listed /\ arrivals[b].of = key /\ Blocking(arrivals[b].phase)
          /\ arrivals'[b].finalizedAt = arrivals[b].finalizedAt
      BY <1>1, <1>2
    <2>2. PICK a \in Ids : /\ arrivals[a].of = key
                           /\ arrivals[a].phase \in {"Passed", "Skipped"}
                           /\ arrivals[a].finalizedAt >= arrivals[b].finalizedAt
      BY <1>3, <2>1 DEF FailuresOverruled
    <2>3. ~InFlight(arrivals[a].phase)
      BY <2>2 DEF InFlight, Terminal
    <2>4. QED
      BY <1>2, <2>1, <2>2, <2>3
  <1>4. ASSUME Earned(v, key) PROVE Earned(v, key)'
    <2>1. CASE /\ Blocking(v.why)
               /\ \E a \in Ids : /\ arrivals[a].of = key
                                 /\ arrivals[a].phase = v.why
                                 /\ arrivals[a].finalizedAt = v.arr.finalizedAt
               /\ \A a \in Ids :
                    arrivals[a].listed /\ arrivals[a].of = key =>
                      ~(v.arr.finalizedAt < arrivals[a].finalizedAt
                          /\ arrivals[a].finalizedAt < v.at)
      <3>1. PICK a \in Ids : /\ arrivals[a].of = key
                             /\ arrivals[a].phase = v.why
                             /\ arrivals[a].finalizedAt = v.arr.finalizedAt
        BY <2>1
      <3>2. ~InFlight(arrivals[a].phase)
        BY <2>1, <3>1 DEF InFlight, Blocking, Terminal
      <3>3. /\ arrivals'[a].of = key /\ arrivals'[a].phase = v.why
            /\ arrivals'[a].finalizedAt = v.arr.finalizedAt
        BY <1>2, <3>1, <3>2
      <3>4. ASSUME NEW b \in Ids, arrivals'[b].listed, arrivals'[b].of = key,
                   v.arr.finalizedAt < arrivals'[b].finalizedAt, arrivals'[b].finalizedAt < v.at
            PROVE  FALSE
        BY <1>1, <1>2, <2>1, <3>4 DEF Unset
      <3>5. QED
        BY <2>1, <3>3, <3>4 DEF Earned
    <2>2. QED
      BY <1>4, <2>1 DEF Earned
  <1>5. ASSUME NoneFinalized(v, key) PROVE NoneFinalized(v, key)'
    <2>1. ASSUME NEW a \in Ids, arrivals'[a].listed, arrivals'[a].of = key,
                 arrivals'[a].finalizedAt # Unset, arrivals'[a].finalizedAt + 1 < v.at
          PROVE  FALSE
      BY <1>1, <1>2, <1>5, <2>1 DEF NoneFinalized
    <2>2. QED
      BY <2>1 DEF NoneFinalized
  <1>6. v.at <= now'
    BY <1>1
  <1>7. QED
    BY <1>3, <1>4, <1>5, <1>6 DEF Grounded

\* What of a verdict its agreement with the arrivals depends on.
LEMMA GroundedFields ==
  ASSUME NEW v, NEW w, NEW key, Grounded(v, key),
         w.pass = v.pass, w.why = v.why, w.at = v.at, w.arr = v.arr
  PROVE  Grounded(w, key)
  BY DEF Grounded, FailuresOverruled, Earned, NoneFinalized

\* The arrival picked is the one finalized last, and a list with a result in it is decided
\* by a result.
LEMMA PickIsLatest ==
  ASSUME NEW a \in PickLatest(arrivals, Listed(i)),
         NEW b \in Ids, arrivals[b].listed, arrivals[b].of = Key(i), arrivals[b].finalizedAt # Unset
  PROVE  arrivals[a].finalizedAt # Unset /\ arrivals[b].finalizedAt <= arrivals[a].finalizedAt
  <1>1. b \in Finalized(arrivals, Listed(i))
    BY DEF Finalized, Listed
  <1>2. QED
    BY <1>1 DEF PickLatest, Finalized

\* A verdict on a final arrival agrees with the list it was picked from.
LEMMA DecidedGrounded ==
  ASSUME TypeOK, ArrivalLaw, NEW a \in PickLatest(arrivals, Listed(i)),
         ~InFlight(arrivals[a].phase), NEW from \in Nat, NEW v,
         v = Merged(Decided(arrivals[a], from))
  PROVE  Grounded(v, Key(i))
  <1>1. /\ arrivals[a] \in Arrival /\ a \in Ids /\ arrivals[a].listed /\ arrivals[a].of = Key(i)
        /\ now \in Nat
    BY ListedType DEF TypeOK
  <1>2. /\ v.why = arrivals[a].phase /\ (v.pass <=> arrivals[a].phase \in {"Passed", "Skipped"})
        /\ v.at = now /\ v.arr = arrivals[a]
    BY <1>1, DecidedFields
  <1>3. arrivals[a].phase \in Terminal
    BY DEF InFlight
  <1>4. FailuresOverruled(v, Key(i)) \/ ~v.pass
    <2> SUFFICES ASSUME v.pass, NEW b \in Ids, arrivals[b].listed, arrivals[b].of = Key(i),
                        Blocking(arrivals[b].phase)
                 PROVE  arrivals[a].finalizedAt >= arrivals[b].finalizedAt
      BY <1>1, <1>2 DEF FailuresOverruled
    <2>1. arrivals[b].finalizedAt # Unset
      BY DEF ArrivalLaw
    <2>2. QED
      BY <1>1, <2>1, PickIsLatest, Times
  <1>5. Earned(v, Key(i)) \/ v.pass
    <2>1. ASSUME ~v.pass PROVE Blocking(v.why) /\ arrivals[a].finalizedAt # Unset
      BY <1>1, <1>2, <1>3, <2>1 DEF Terminal, Blocking, ArrivalLaw
    <2>2. ASSUME NEW b \in Ids, arrivals[b].listed, arrivals[b].of = Key(i),
                 arrivals[a].finalizedAt < arrivals[b].finalizedAt
          PROVE  FALSE
      <3>1. arrivals[b].finalizedAt # Unset
        BY <1>1, <2>2, Times DEF Unset
      <3>2. QED
        BY <1>1, <2>2, <3>1, PickIsLatest, Times
    <2>3. QED
      BY <1>1, <1>2, <2>1, <2>2 DEF Earned
  <1>6. v.why # "NotFinalized" /\ v.at <= now
    BY <1>1, <1>2, <1>3 DEF Terminal
  <1>7. QED
    BY <1>4, <1>5, <1>6 DEF Grounded
\* Every step that drafts a verdict drafts one that agrees with the arrivals.
LEMMA DraftGrounded ==
  ASSUME HistoryInv, Evaluate, pc' = "append"
  PROVE  Grounded(draft, Key(i))'
  <1>0. /\ TypeOK /\ ArrivalLaw /\ Waiting /\ ReleaseInHand /\ Clock
        /\ now \in Nat /\ waitFrom \in Nat /\ last \in Arrival
    BY DEF HistoryInv, GateInv, TypeOK
  <1>1. UNCHANGED <<now, arrivals>>
    BY EvaluateFrame DEF world
  <1>2. ASSUME NEW v, Draft(v), Grounded(v, Key(i)) PROVE Grounded(draft, Key(i))'
    <2>1. draft' = v /\ i' = i
      BY <1>2 DEF Draft
    <2>2. QED
      BY <1>1, <1>2, <2>1 DEF Grounded, FailuresOverruled, Earned, NoneFinalized, Key
  <1>3. CASE NoQuill
    <2>1. PICK v : v = Verdict(TRUE, "no quills enabled", Unused, now) /\ Draft(v)
      BY <1>3 DEF NoQuill
    <2>2. v.pass = TRUE /\ v.why = "no quills enabled"
      BY <2>1 DEF Verdict
    <2>a. v.at <= now
      <3>1. v.at = now
        BY <2>1 DEF Verdict
      <3>2. QED
        BY <1>0, <3>1
    <2>3. Grounded(v, Key(i))
      BY <2>2, <2>a DEF Grounded
    <2>4. QED
      BY <1>2, <2>1, <2>3
  <1>4. CASE LookupDenied
    <2>1. PICK v : v = Merged(Verdict(TRUE, "lookup skipped", Unused, now)) /\ Draft(v)
      BY <1>4 DEF LookupDenied
    <2>2. v.pass = TRUE /\ v.why = "lookup skipped"
      BY <2>1 DEF Verdict, Merged
    <2>a. v.at <= now
      <3>1. v.at = now
        BY <2>1 DEF Verdict, Merged
      <3>2. QED
        BY <1>0, <3>1
    <2>3. Grounded(v, Key(i))
      BY <2>2, <2>a DEF Grounded
    <2>4. QED
      BY <1>2, <2>1, <2>3
  <1>5. CASE LookupFails
    <2>1. PICK v : v = Merged(Verdict(FALSE, IF Expired THEN "deadline" ELSE "api error", Unused, now)) /\ Draft(v)
      BY <1>5 DEF LookupFails
    <2>2. v.pass = FALSE /\ v.why \in {"deadline", "api error"}
      BY <2>1 DEF Verdict, Merged
    <2>a. v.at <= now
      <3>1. v.at = now
        BY <2>1 DEF Verdict, Merged
      <3>2. QED
        BY <1>0, <3>1
    <2>3. Grounded(v, Key(i))
      BY <2>2, <2>a DEF Grounded, Earned
    <2>4. QED
      BY <1>2, <2>1, <2>3
  <1>6. CASE LookupEmpty
    <2>1. PICK v : v = Merged(Verdict(TRUE, "no arrival", Unused, now)) /\ Draft(v)
      BY <1>6 DEF LookupEmpty
    <2>2. v.pass = TRUE /\ v.why = "no arrival"
      BY <2>1 DEF Verdict, Merged
    <2>a. v.at <= now
      <3>1. v.at = now
        BY <2>1 DEF Verdict, Merged
      <3>2. QED
        BY <1>0, <3>1
    <2>3. FailuresOverruled(v, Key(i))
      BY <1>6 DEF LookupEmpty, Listed, FailuresOverruled
    <2>4. Grounded(v, Key(i))
      BY <2>2, <2>3, <2>a DEF Grounded
    <2>5. QED
      BY <1>2, <2>1, <2>4
  <1>7. CASE LookupFinal
    <2>1. PICK a \in PickLatest(arrivals, Listed(i)) :
            ~InFlight(arrivals[a].phase) /\ Draft(Merged(Decided(arrivals[a], now)))
      BY <1>7 DEF LookupFinal
    <2>2. PICK v : v = Merged(Decided(arrivals[a], now))
      OBVIOUS
    <2>3. QED
      BY <1>0, <1>2, <2>1, <2>2, DecidedGrounded
  <1>8. CASE PollFinal
    <2>1. PICK a \in PickLatest(arrivals, Listed(i)) :
            ~InFlight(arrivals[a].phase) /\ Draft(Merged(Decided(arrivals[a], waitFrom)))
      BY <1>8 DEF PollFinal
    <2>2. PICK v : v = Merged(Decided(arrivals[a], waitFrom))
      OBVIOUS
    <2>3. QED
      BY <1>0, <1>2, <2>1, <2>2, DecidedGrounded
  <1>9. CASE WaitDone
    <2>1. PICK v : v = Merged(Decided(last, waitFrom))
      OBVIOUS
    <2>2. pc = "await" /\ InFlight(last.phase)
      BY <1>0, <1>9 DEF WaitDone, Waiting
    <2>3. v.why = "NotFinalized" /\ ~v.pass /\ v.at = now /\ v.arr = last
      BY <1>0, <2>1, <2>2, DecidedFields DEF InFlight, Terminal
    <2>4. ASSUME Prompt PROVE NoneFinalized(v, Key(i))
      <3>1. \A a \in Ids :
              arrivals[a].listed /\ arrivals[a].of = Key(i) /\ arrivals[a].finalizedAt # Unset
              => arrivals[a].finalizedAt + 1 >= now
        BY <1>0, <2>2, <2>4 DEF Waiting
      <3>2. QED
        BY <1>0, <2>3, <3>1, Times DEF NoneFinalized
    <2>5. Grounded(v, Key(i))
      BY <1>0, <2>2, <2>3, <2>4 DEF Grounded, Earned
    <2>6. QED
      BY <1>2, <1>9, <2>1, <2>5 DEF WaitDone
  <1>10. CASE SkipBlank \/ LookupInFlight \/ PollInFlight \/ PollNothing \/ AppendVerdict
    BY <1>10 DEF SkipBlank, LookupInFlight, PollInFlight, PollNothing, Polling, AppendVerdict
  <1>11. QED
    BY <1>3, <1>4, <1>5, <1>6, <1>7, <1>8, <1>9, <1>10 DEF Evaluate

\* Verdicts that no step touches go on agreeing with the arrivals.
LEMMA VerdictsStay ==
  ASSUME HistoryInv, [Next]_vars, NEW k \in 1..N, verdict'[k] = verdict[k]
  PROVE  Grounded(verdict[k], Key(k))'
  <1>0. TypeOK /\ ArrivalLaw /\ Grounded(verdict[k], Key(k)) /\ verdict[k] \in VerdictType
    BY DEF HistoryInv, GateInv, Verdicts, TypeOK
  <1>1. PICK v \in VerdictType : v = verdict[k]
    BY <1>0
  <1>2. Grounded(v, Key(k))
    BY <1>0, <1>1
  <1>3. Grounded(v, Key(k))'
    BY <1>0, <1>2, NowGrows, OnlyObserver, GroundedStays
  <1>4. QED
    BY <1>1, <1>3 DEF Grounded, FailuresOverruled, Earned, NoneFinalized, Key

\* So does one in the making.
LEMMA DraftStays ==
  ASSUME HistoryInv, [Next]_vars, pc = "append", UNCHANGED <<draft, i>>
  PROVE  Grounded(draft, Key(i))'
  <1>0. TypeOK /\ ArrivalLaw /\ Grounded(draft, Key(i)) /\ draft \in VerdictType
    BY DEF HistoryInv, GateInv, Verdicts, TypeOK
  <1>1. PICK v \in VerdictType : v = draft
    BY <1>0
  <1>2. Grounded(v, Key(i))
    BY <1>0, <1>1
  <1>3. PICK key : key = Key(i)
    OBVIOUS
  <1>4. Grounded(v, key)'
    BY <1>0, <1>2, <1>3, NowGrows, OnlyObserver, GroundedStays
  <1>5. QED
    BY <1>1, <1>3, <1>4 DEF Grounded, FailuresOverruled, Earned, NoneFinalized, Key

\* And a verdict that joins the others was one when it was drafted.
LEMMA VerdictsStep ==
  ASSUME HistoryInv, [Next]_vars PROVE Verdicts'
  <1>0. TypeOK /\ ReleaseInHand /\ verdict \in [1..N -> VerdictType] /\ draft \in VerdictType
    BY DEF HistoryInv, GateInv, TypeOK
  <1>1. CASE AppendVerdict
    <2>1. PICK l \in Layer1Outcomes :
            verdict' = [verdict EXCEPT ![i] = [draft EXCEPT !.layer1 = l]]
      BY <1>1 DEF AppendVerdict
    <2>2. i \in 1..N /\ pc = "append" /\ pc' = "release" /\ UNCHANGED <<now, arrivals>>
      BY <1>0, <1>1 DEF AppendVerdict, ReleaseInHand, world
    <2>3. \A k \in 1..N : k # i => verdict'[k] = verdict[k]
      BY <1>0, <2>1
    <2>4. /\ verdict'[i].pass = draft.pass /\ verdict'[i].why = draft.why
          /\ verdict'[i].at = draft.at /\ verdict'[i].arr = draft.arr
      BY <1>0, <2>1, <2>2 DEF VerdictType
    <2>5. PICK w : w = verdict'[i]
      OBVIOUS
    <2>6. Grounded(w, Key(i))
      <3>1. Grounded(draft, Key(i))
        BY <2>2 DEF HistoryInv, Verdicts
      <3>2. QED
        BY <2>4, <2>5, <3>1, GroundedFields
    <2>7. ASSUME NEW k \in 1..N, k = i PROVE Grounded(verdict[k], Key(k))'
      BY <2>2, <2>5, <2>6, <2>7 DEF Grounded, FailuresOverruled, Earned, NoneFinalized, Key
    <2>8. ASSUME NEW k \in 1..N PROVE Grounded(verdict[k], Key(k))'
      BY <2>3, <2>7, <2>8, VerdictsStay
    <2>9. QED
      BY <2>2, <2>8 DEF Verdicts, N
  <1>2. CASE ~AppendVerdict
    <2>1. verdict' = verdict
      BY <1>2, EvaluateFrame, OthersFrame DEF Next, Gate, Finished, SkipBlank, vars, gate
    <2>2. \A k \in 1..N : Grounded(verdict[k], Key(k))'
      BY <2>1, VerdictsStay
    <2>3. ASSUME pc' = "append" PROVE Grounded(draft, Key(i))'
      <3>1. CASE Evaluate
        BY <2>3, <3>1, DraftGrounded
      <3>2. CASE ~Evaluate
        <4>1. pc = "append" /\ UNCHANGED <<draft, i>>
          <5>1. CASE Setup \/ Publish \/ Killed \/ Tick
            BY <2>3, <5>1 DEF Setup, Parse, ParseFails, BuildClient, BuildClientFails,
               Publish, Render, CommentPosted, CommentFails, AfterComment, IssueClientFails,
               IssueEnsured, IssueFails, NextIssue, IssuesDone, Exit, Killed, Tick
          <5>2. CASE Observer \/ UNCHANGED vars
            BY <2>3, <5>2, ObserverFrame DEF gate, vars
          <5>3. QED
            BY <3>2, <5>1, <5>2 DEF Next, Gate, Finished
        <4>2. QED
          BY <4>1, DraftStays
      <3>3. QED
        BY <3>1, <3>2
    <2>4. QED
      BY <2>2, <2>3 DEF Verdicts, N
  <1>3. QED
    BY <1>1, <1>2
-----------------------------------------------------------------------------
(* The wait *)

\* When the pick is in flight, no arrival of the release that is listed has a time.
LEMMA NothingFinal ==
  ASSUME TypeOK, ArrivalLaw, NEW a \in PickLatest(arrivals, Listed(i)), InFlight(arrivals[a].phase),
         NEW b \in Ids, arrivals[b].listed, arrivals[b].of = Key(i)
  PROVE  arrivals[b].finalizedAt = Unset
  <1>1. a \in Ids
    BY ListedType
  <1>2. arrivals[a].finalizedAt = Unset
    BY <1>1 DEF ArrivalLaw
  <1>3. QED
    BY <1>2, PickIsLatest

\* A poll that an API answers promptly misses nothing, and between two polls the clock
\* moves by one.
LEMMA WaitingStep ==
  ASSUME HistoryInv, [Next]_vars PROVE Waiting'
  <1> SUFFICES ASSUME pc' = "await" PROVE Waiting'
    BY DEF Waiting
  <1>0. /\ TypeOK /\ ArrivalLaw /\ Waiting
        /\ now \in Nat /\ waitFrom \in Nat /\ WaitBudget \in Nat
    BY BudgetAssumption DEF HistoryInv, GateInv, TypeOK
  <1> DEFINE Final(b) == /\ arrivals[b].listed /\ arrivals[b].of = Key(i)
                         /\ arrivals[b].finalizedAt # Unset
  <1>1. CASE LookupInFlight \/ PollInFlight
    <2>1. PICK a \in PickLatest(arrivals, Listed(i)) :
            InFlight(arrivals[a].phase) /\ last' = arrivals[a]
      BY <1>1 DEF LookupInFlight, PollInFlight
    <2>2. UNCHANGED <<i, now, arrivals>>
      BY <1>1 DEF LookupInFlight, PollInFlight, world
    <2>3. \A b \in Ids : ~Final(b)
      BY <1>0, <2>1, NothingFinal
    <2>4. \A b \in Ids : ~Final(b)'
      BY <2>2, <2>3 DEF Key
    <2>5. QED
      BY <2>1, <2>4 DEF Waiting
  <1>2. CASE PollNothing
    <2>1. /\ pc = "await" /\ UNCHANGED <<i, now, arrivals, last, waitFrom>>
          /\ WaitOver \/ "error" \in Faults \/ "denied" \in Faults \/ Listed(i) = {}
      BY <1>2 DEF PollNothing, Polling, world
    <2>2. ASSUME Prompt, NEW b \in Ids, Final(b)'
          PROVE  arrivals'[b].finalizedAt + 1 >= now' /\ WaitOver'
      <3>1. Final(b)
        BY <2>1, <2>2 DEF Key
      <3>2. WaitOver
        BY <2>1, <2>2, <3>1 DEF Prompt, Listed
      <3>3. WaitOver'
        BY <2>1, <3>2 DEF WaitOver, WaitEnd
      <3>4. arrivals[b].finalizedAt + 1 >= now
        BY <1>0, <2>1, <2>2, <3>1 DEF Waiting
      <3>5. QED
        BY <2>1, <3>3, <3>4
    <2>3. InFlight(last.phase)'
      BY <1>0, <2>1 DEF Waiting
    <2>4. QED
      BY <2>2, <2>3 DEF Waiting
  <1>3. CASE Tick
    <2>1. /\ pc = "await" /\ now' = now + 1 /\ due' = TRUE /\ now < WaitEnd
          /\ ~due \/ "slow" \in Faults
          /\ UNCHANGED <<i, arrivals, last>>
      BY <1>3 DEF Tick, TimeMayPass
    <2>2. ASSUME Prompt, NEW b \in Ids, Final(b)'
          PROVE  arrivals'[b].finalizedAt + 1 >= now'
      <3>1. Final(b) /\ ~due
        BY <2>1, <2>2 DEF Key, Prompt
      <3>2. ~WaitOver
        BY <1>0, <2>1 DEF WaitOver, WaitEnd
      <3>3. arrivals[b].finalizedAt >= now
        BY <1>0, <2>1, <2>2, <3>1, <3>2 DEF Waiting
      <3>4. QED
        BY <1>0, <2>1, <2>2, <3>3, Times
    <2>3. InFlight(last.phase)'
      BY <1>0, <2>1 DEF Waiting
    <2>4. QED
      BY <2>1, <2>2, <2>3 DEF Waiting
  <1>4. CASE Observer
    <2>1. pc = "await" /\ UNCHANGED <<i, now, last, due, waitFrom>>
      BY <1>4, ObserverFrame DEF gate
    <2>2. ASSUME Prompt, NEW b \in Ids, Final(b)'
          PROVE  /\ arrivals'[b].finalizedAt + 1 >= now'
                 /\ due' \/ WaitOver' \/ arrivals'[b].finalizedAt >= now'
      <3>1. CASE arrivals'[b].finalizedAt = now
        BY <1>0, <2>1, <3>1
      <3>2. CASE arrivals'[b].finalizedAt # now
        <4>1. Final(b) /\ arrivals'[b].finalizedAt = arrivals[b].finalizedAt
          BY <1>0, <1>4, <2>1, <2>2, <3>2, ObserverEffect DEF Key
        <4>2. /\ arrivals[b].finalizedAt + 1 >= now
              /\ due \/ WaitOver \/ arrivals[b].finalizedAt >= now
          BY <1>0, <2>1, <2>2, <4>1 DEF Waiting
        <4>3. WaitOver' <=> WaitOver
          BY <2>1 DEF WaitOver, WaitEnd
        <4>4. QED
          BY <2>1, <4>1, <4>2, <4>3
      <3>3. QED
        BY <3>1, <3>2
    <2>3. InFlight(last.phase)'
      BY <1>0, <2>1 DEF Waiting
    <2>4. QED
      BY <2>2, <2>3 DEF Waiting
  <1>5. CASE UNCHANGED vars
    BY <1>0, <1>5 DEF vars, gate, world, Waiting, WaitOver, WaitEnd, Key
  <1>6. CASE Setup \/ Publish \/ Killed
    BY <1>6 DEF Setup, Parse, ParseFails, BuildClient, BuildClientFails, Publish, Render,
       CommentPosted, CommentFails, AfterComment, IssueClientFails, IssueEnsured, IssueFails,
       NextIssue, IssuesDone, Exit, Killed
  <1>7. CASE Evaluate /\ ~LookupInFlight /\ ~PollInFlight /\ ~PollNothing
    BY <1>7 DEF Evaluate, SkipBlank, NoQuill, LookupDenied, LookupFails, LookupEmpty, LookupFinal,
       PollFinal, WaitDone, AppendVerdict, Draft
  <1>8. QED
    BY <1>1, <1>2, <1>3, <1>4, <1>5, <1>6, <1>7 DEF Next, Gate, Finished

-----------------------------------------------------------------------------
(* What is published *)

\* One more release on the walk takes the last word only from one of the same service.
LEMMA LastWord ==
  ASSUME NEW n \in 1..N, NEW k \in 1..n, LastOfService(k, n), k # n
  PROVE  /\ k \in 1..(n - 1) /\ LastOfService(k, n - 1)
         /\ ~Blank(n) => Releases[n].name # Releases[k].name
  <1>1. N \in Nat
    BY LengthIsNat
  <1>2. k \in 1..(n - 1) /\ n \in (k + 1)..n /\ (k + 1)..(n - 1) \subseteq (k + 1)..n
    BY <1>1
  <1>3. QED
    BY <1>2 DEF LastOfService

\* The walk over the issues leaves the ones behind it as the verdicts want them.
LEMMA WalkStep ==
  ASSUME TypeOK, pc = "issues", Walked(i - 1), IssueEnsured \/ (IssueFails /\ Blank(i))
  PROVE  Walked(i - 1)'
  <1>1. /\ N \in Nat /\ i \in 1..N /\ i' = i + 1 /\ UNCHANGED verdict
    BY LengthIsNat DEF TypeOK, IssueEnsured, IssueFails, NextIssue
  <1>2. ASSUME NEW k \in 1..i, LastOfService(k, i)
        PROVE  Releases[k].name \in blocked' <=> ~verdict[k].pass
    <2>1. CASE k = i
      <3>1. IssueEnsured
        BY <1>2, <2>1 DEF LastOfService
      <3>2. QED
        BY <2>1, <3>1 DEF IssueEnsured
    <2>2. CASE k # i
      <3>1. /\ k \in 1..(i - 1) /\ LastOfService(k, i - 1)
            /\ ~Blank(i) => Releases[i].name # Releases[k].name
        BY <1>1, <1>2, <2>2, LastWord
      <3>2. Releases[k].name \in blocked <=> ~verdict[k].pass
        BY <3>1 DEF Walked
      <3>3. Releases[k].name \in blocked' <=> Releases[k].name \in blocked
        BY <3>1 DEF IssueEnsured, IssueFails
      <3>4. QED
        BY <3>2, <3>3
    <2>3. QED
      BY <2>1, <2>2
  <1>3. i' - 1 = i
    BY <1>1
  <1>4. QED
    BY <1>1, <1>2, <1>3 DEF Walked, LastOfService, Blank

\* What is published stays published, and is when the run ends.
LEMMA PublishedStep ==
  ASSUME HistoryInv, [Next]_vars PROVE Published'
  <1> SUFFICES ASSUME Unhindered' PROVE Published'
    BY DEF Published
  <1>0. /\ TypeOK /\ Tally /\ Published /\ i \in 1..(N + 1) /\ N \in Nat
        /\ now \in Nat /\ now' \in Nat /\ now' >= now /\ FastEnd \in Nat
    BY NowGrows, LengthIsNat, BudgetAssumption DEF HistoryInv, GateInv, TypeOK, FastEnd
  <1>1. /\ now < FastEnd /\ ~Expired /\ Faults \cap {"error", "setup"} = {}
        /\ "dryRun" \notin opts'
    BY <1>0 DEF Unhindered, Expired
  <1>2. exit \in {"pass", "fail"} => pc = "done"
    BY <1>0 DEF Tally
  <1>3. CASE pc' \notin {"issues", "exit"} /\ exit' \notin {"pass", "fail"}
    BY <1>3 DEF Published
  <1>4. ASSUME UNCHANGED <<pc, opts, exit, sticky, blocked, verdict, allPass, i>>
        PROVE  Published'
    <2>1. Unhindered
      BY <1>1, <1>4 DEF Unhindered
    <2>2. \A n \in Nat : Walked(n)' <=> Walked(n)
      BY <1>4 DEF Walked, LastOfService, Blank
    <2>3. Colour' = Colour
      BY <1>4 DEF Colour
    <2>5. pc = "issues" => Walked(i - 1)'
      <3>1. Walked(i - 1)' <=> Walked(i - 1)
        BY <1>4 DEF Walked, LastOfService, Blank
      <3>2. QED
        BY <1>0, <2>1, <3>1 DEF Published
    <2>6. (pc = "exit" \/ exit \in {"pass", "fail"}) /\ "issues" \in opts => Walked(N)'
      BY <1>0, <2>1, <2>2 DEF Published
    <2>7. pc \in {"issues", "exit"} \/ exit \in {"pass", "fail"} => sticky = Colour
      BY <1>0, <2>1 DEF Published
    <2>9. QED
      BY <1>4, <2>3, <2>5, <2>6, <2>7 DEF Published, N
  <1>5. CASE Setup
    BY <1>2, <1>3, <1>5 DEF Setup, Parse, ParseFails, BuildClient, BuildClientFails
  <1>6. CASE Evaluate
    <2>1. pc \in {"release", "await", "append"} /\ exit' = exit /\ pc' \in {"release", "await", "append"}
      BY <1>6, EvaluateFrame DEF SkipBlank, AppendVerdict
    <2>2. QED
      BY <1>2, <1>3, <2>1
  <1>7. CASE Publish
    <2>1. CASE Render
      BY <1>1, <1>2, <1>3, <2>1 DEF Render
    <2>2. CASE CommentPosted
      <3>1. /\ pc = "comment" /\ sticky' = Colour /\ i' = 1
            /\ pc' = IF "issues" \in opts THEN "issues" ELSE "exit"
            /\ UNCHANGED <<opts, exit, allPass>>
        BY <2>2 DEF CommentPosted, AfterComment
      <3>2. Colour' = sticky'
        BY <3>1 DEF Colour
      <3>3. Walked(i - 1)'
        BY <3>1 DEF Walked
      <3>4. exit' \notin {"pass", "fail"}
        BY <1>2, <3>1
      <3>5. QED
        BY <3>1, <3>2, <3>3, <3>4 DEF Published
    <2>3. CASE IssueEnsured \/ IssueFails
      <3>1. /\ pc = "issues" /\ pc' = "issues" /\ UNCHANGED <<opts, exit, sticky, allPass>>
            /\ IssueFails => Blank(i)
        BY <1>1, <2>3 DEF IssueEnsured, IssueFails, NextIssue
      <3>2. Unhindered
        BY <1>1, <3>1 DEF Unhindered
      <3>3. sticky = Colour /\ Walked(i - 1)
        BY <1>0, <3>1, <3>2 DEF Published
      <3>4. Walked(i - 1)'
        BY <1>0, <2>3, <3>1, <3>3, WalkStep
      <3>5. sticky' = Colour' /\ exit' \notin {"pass", "fail"}
        BY <1>2, <3>1, <3>3 DEF Colour
      <3>6. QED
        BY <3>1, <3>4, <3>5 DEF Published
    <2>4. CASE IssuesDone
      <3>1. /\ pc = "issues" /\ pc' = "exit" /\ i - 1 = N
            /\ UNCHANGED <<opts, exit, sticky, blocked, verdict, allPass>>
        BY <1>0, <2>4 DEF IssuesDone, world
      <3>2. Unhindered
        BY <1>1, <3>1 DEF Unhindered
      <3>3. sticky = Colour /\ Walked(N)
        BY <1>0, <3>1, <3>2 DEF Published
      <3>4. sticky' = Colour' /\ Walked(N)' /\ exit' \notin {"pass", "fail"}
        BY <1>2, <3>1, <3>3 DEF Colour, Walked, LastOfService, Blank, N
      <3>5. QED
        BY <3>1, <3>4 DEF Published
    <2>5. CASE Exit
      <3>1. /\ pc = "exit" /\ pc' = "done"
            /\ UNCHANGED <<opts, sticky, blocked, verdict, allPass>>
        BY <2>5 DEF Exit, world
      <3>2. Unhindered
        BY <1>1, <3>1 DEF Unhindered
      <3>3. sticky = Colour /\ ("issues" \in opts => Walked(N))
        BY <1>0, <3>1, <3>2 DEF Published
      <3>4. sticky' = Colour' /\ ("issues" \in opts' => Walked(N)')
        BY <3>1, <3>3 DEF Colour, Walked, LastOfService, Blank, N
      <3>5. QED
        BY <3>1, <3>4 DEF Published
    <2>6. ~CommentFails /\ ~IssueClientFails
      BY <1>1 DEF CommentFails, IssueClientFails
    <2>7. QED
      BY <1>7, <2>1, <2>2, <2>3, <2>4, <2>5, <2>6 DEF Publish
  <1>8. CASE Killed
    BY <1>3, <1>8 DEF Killed
  <1>9. CASE Tick
    BY <1>4, <1>9 DEF Tick
  <1>10. CASE Observer
    BY <1>4, <1>10, ObserverFrame DEF gate
  <1>11. CASE UNCHANGED vars
    BY <1>4, <1>11 DEF vars, gate, world
  <1>12. QED
    BY <1>5, <1>6, <1>7, <1>8, <1>9, <1>10, <1>11 DEF Next, Gate, Finished

\* All of it holds at the start.
LEMMA InitHistory == Init => HistoryInv
  <1> SUFFICES ASSUME Init PROVE HistoryInv
    OBVIOUS
  <1>1. GateInv
    BY InitInv
  <1>2. ArrivalLaw
    <2>1. Unused.phase = "Testing" /\ Unused.finalizedAt = Unset
      BY DEF Unused
    <2>2. now = 1 /\ \A a \in Ids : arrivals[a] = Unused
      BY DEF Init
    <2>3. QED
      BY <2>1, <2>2 DEF ArrivalLaw, Unset, Blocking
  <1>3. ASSUME NEW k \in 1..N PROVE Grounded(verdict[k], Key(k))
    <2>1. verdict[k] = NoVerdict /\ now = 1
      BY DEF Init
    <2>2. PICK v : v = verdict[k]
      OBVIOUS
    <2>3. v.pass = TRUE /\ v.why = "none"
      BY <2>1, <2>2 DEF NoVerdict
    <2>4. v.at <= now
      <3>1. v.at = 0
        BY <2>1, <2>2 DEF NoVerdict
      <3>2. QED
        BY <2>1, <3>1
    <2>5. Grounded(v, Key(k))
      BY <2>3, <2>4 DEF Grounded
    <2>6. QED
      BY <2>2, <2>5
  <1>4. Verdicts /\ Waiting /\ Published
    BY <1>3 DEF Init, Verdicts, Waiting, Published
  <1>5. QED
    BY <1>1, <1>2, <1>4 DEF HistoryInv

-----------------------------------------------------------------------------
(* The theorems *)

\* The whole invariant of a run: verdicts agree with the arrivals, waits with the polls,
\* and what is published with the verdicts.
THEOREM HistoryInvariance == Spec => []HistoryInv
  <1>1. HistoryInv /\ [Next]_vars => HistoryInv'
    <2> SUFFICES ASSUME HistoryInv, [Next]_vars PROVE HistoryInv'
      OBVIOUS
    <2>1. GateInv'
      BY TypeStep, HandStep, ClockStep, TallyStep, DeadlinesStep DEF HistoryInv, GateInv
    <2>2. ArrivalLaw'
      BY LawStep DEF HistoryInv
    <2>3. QED
      BY <2>1, <2>2, VerdictsStep, WaitingStep, PublishedStep DEF HistoryInv
  <1>2. QED
    BY <1>1, InitHistory, PTL DEF Spec

\* No run goes green past a failure on record that nothing has made good.
THEOREM FailureHolds == Spec => []KnownFailureBlocks
  <1>1. HistoryInv => KnownFailureBlocks
    <2> SUFFICES ASSUME HistoryInv, exit = "pass", NEW k \in 1..N, ~Blank(k),
                        verdict[k].why \notin {"no quills enabled", "lookup skipped"}
                 PROVE  FailuresOverruled(verdict[k], Key(k))
      BY DEF KnownFailureBlocks
    <2>1. verdict[k].pass /\ verdict[k].why # "none"
      BY DEF HistoryInv, GateInv, Tally, Evaluated
    <2>2. Grounded(verdict[k], Key(k))
      BY DEF HistoryInv, Verdicts
    <2>3. QED
      BY <2>1, <2>2 DEF Grounded
  <1>2. QED
    BY <1>1, HistoryInvariance, PTL

\* No red verdict is drawn from anything but the arrivals, the deadline or the API.
THEOREM RedHolds == Spec => []RedIsEarned
  <1>1. HistoryInv => RedIsEarned
    BY DEF HistoryInv, Verdicts, Grounded, RedIsEarned
  <1>2. QED
    BY <1>1, HistoryInvariance, PTL

\* With an API that answers promptly, no wait ends on an arrival in flight when another of
\* the release was final one poll earlier.
THEOREM GraceUsedHolds == Spec => []GraceIsUsed
  <1>1. HistoryInv => GraceIsUsed
    BY DEF HistoryInv, Verdicts, Grounded, GraceIsUsed
  <1>2. QED
    BY <1>1, HistoryInvariance, PTL

\* A run that nothing hinders leaves comment and issues as its verdicts want them.
THEOREM PublishedHolds == Spec => []OutcomeIsPublished
  <1>1. HistoryInv => OutcomeIsPublished
    BY DEF HistoryInv, Published, OutcomeIsPublished
  <1>2. QED
    BY <1>1, HistoryInvariance, PTL
=============================================================================
