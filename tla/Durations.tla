------------------------------ MODULE Durations ------------------------------
(***************************************************************************)
(* The duration-regression quill for one release                           *)
(* (evaluateDurationRegressionQuill of cmd/gate-cli/duration_quill.go):    *)
(* which arrival it takes for the current one and which for its baseline,  *)
(* while the observer goes on, and which tests of theirs it flags.  The    *)
(* post-deploy quill has looked at the same release just before.           *)
(*                                                                         *)
(* Durations are naturals.  The ratio of two of them is compared without   *)
(* a division, which gives the same answer as the code's floats.           *)
(***************************************************************************)
EXTENDS Arrivals, SequencesExt

CONSTANTS
  Ids,        \* Arrivals of the service the observer may ever create
  Current,    \* the version of the release
  Others,     \* other versions of the service
  PackLists,  \* the lists of test packs an arrival may carry
  CurrFiles, BaseFiles, \* the results.json the bucket may return
  Ratio,      \* defaultLatencyRegressionRatio
  Delta,      \* defaultLatencyRegressionDelta
  Outcomes,   \* terminal phases the observer assigns
  MaxTime,    \* bound: of the observer's clock
  Faults      \* a subset of {"error", "denied", "removal"}

None == "none"

ASSUME ThresholdAssumption == Ratio \in Nat /\ Delta \in Nat /\ MaxTime \in Nat \ {0}
ASSUME ArrivalAssumption ==
  IsFiniteSet(Ids) /\ None \notin Ids /\ Outcomes \subseteq Terminal
ASSUME FileAssumption ==
  /\ PackLists \subseteq Seq(STRING)
  /\ CurrFiles \cup BaseFiles \subseteq Seq([name : STRING, ms : Nat])

VARIABLES
  pc,
  now,
  arrivals,
  decided,      \* the arrival the post-deploy quill decided on, if any
  current,      \* the arrival the duration quill takes for the current one
  prev,         \* and the one it takes for the baseline
  k,            \* the pack in hand
  files,        \* the files read for it
  regressions,
  packsCompared,
  reason,
  read          \* history: the positions of the packs of which both files were read

world == <<now, arrivals>>
progress == <<k, files, regressions, packsCompared, read>>
vars == <<pc, world, decided, current, prev, progress, reason>>
-----------------------------------------------------------------------------
Versions == {Current} \cup Others
Packs == UNION {Range(list) : list \in PackLists}

Unborn == [version |-> Current, phase |-> "Testing", created |-> Unset,
           finalizedAt |-> Unset, packs |-> <<>>, listed |-> FALSE]

\* What a List with the label selector may return: any order of the arrivals.
Lists(V) == SetToSeqs({a \in Ids : arrivals[a].listed /\ arrivals[a].version \in V})

\* Mutant: the comparison of the creation times turned round.
FirstCreated(list) ==
  FoldLeft(LAMBDA best, a :
             IF best = None \/ arrivals[a].created < arrivals[best].created THEN a ELSE best,
           None, list)

\* findArrivalByLabel: the one created last, the first of them in the list.
LastCreated(list) ==
  FoldLeft(LAMBDA best, a :
             IF best = None \/ arrivals[a].created > arrivals[best].created THEN a ELSE best,
           None, list)

\* findPriorFinalizedArrival: another version, tested to an end, finalized last.
Comparable(a) ==
  /\ arrivals[a].version # Current
  /\ arrivals[a].phase \in Terminal \ {"Skipped"}
  /\ arrivals[a].finalizedAt # Unset

\* Mutant: the finalizedAt of the best one is not kept.
AnyFinalized(list) ==
  FoldLeft(LAMBDA best, a : IF Comparable(a) THEN a ELSE best, None, list)

LastFinalized(list) ==
  FoldLeft(LAMBDA best, a :
             IF Comparable(a) /\ (best = None \/ arrivals[a].finalizedAt > arrivals[best].finalizedAt)
             THEN a ELSE best,
           None, list)

\* prevByName: of several tests of one name the last counts.
PrevByName(file) ==
  FoldLeft(LAMBDA m, t : [n \in DOMAIN m \cup {t.name} |-> IF n = t.name THEN t.ms ELSE m[n]],
           <<>>, file)

\* Mutant: the thresholds themselves do not count.
RegressedBeyond(base, t) ==
  /\ t.name \in DOMAIN base
  /\ base[t.name] > 0
  /\ t.ms > Ratio * base[t.name] /\ t.ms > base[t.name] + Delta

Regressed(base, t) ==
  /\ t.name \in DOMAIN base
  /\ base[t.name] > 0
  /\ t.ms >= Ratio * base[t.name] /\ t.ms >= base[t.name] + Delta

CompareDurations(pack, base, curr) ==
  LET prevByName == PrevByName(base)
  IN  FoldLeft(LAMBDA out, t : IF Regressed(prevByName, t)
                               THEN Append(out, [pack |-> pack, test |-> t]) ELSE out,
               <<>>, curr)

Init ==
  /\ pc = "post-deploy"
  /\ now = 1
  /\ arrivals = [a \in Ids |-> Unborn]
  /\ decided = None /\ current = None /\ prev = None
  /\ k = 1 /\ files = <<>> /\ regressions = <<>> /\ packsCompared = 0 /\ read = {}
  /\ reason = None
-----------------------------------------------------------------------------
\* The post-deploy quill of the same release (pickLatestArrival).
PostDeploy ==
  /\ pc = "post-deploy"
  /\ LET L == {a \in Ids : arrivals[a].listed /\ arrivals[a].version = Current}
     IN  IF L = {} THEN UNCHANGED decided ELSE decided' \in PickLatest(arrivals, L)
  /\ pc' = "current"
  /\ UNCHANGED <<world, current, prev, progress, reason>>

\* Mutant: a return forgotten.
ReturnNot(why) == pc' = "curr" /\ reason' = why

\* Every early return passes: the quill cannot tell.
Return(why) == pc' = "done" /\ reason' = why

\* NotFound and Forbidden read as an empty list, other errors end the quill.
Answered(V, list) == list \in Lists(V) \/ ("denied" \in Faults /\ list = <<>>)

FindCurrent ==
  /\ pc = "current"
  /\ \E list \in Lists({Current}) \cup {<<>>} :
       /\ Answered({Current}, list)
       /\ current' = LastCreated(list)
       /\ IF current' = None THEN Return("no current arrival")
          ELSE IF arrivals[current'].packs = <<>> THEN Return("no tests")
          ELSE pc' = "prior" /\ UNCHANGED reason
  /\ UNCHANGED <<world, decided, prev, progress>>

FindPrior ==
  /\ pc = "prior"
  /\ \E list \in Lists(Versions) \cup {<<>>} :
       /\ Answered(Versions, list)
       /\ prev' = LastFinalized(list)
       /\ IF prev' = None THEN Return("no baseline") ELSE pc' = "curr" /\ UNCHANGED reason
  /\ UNCHANGED <<world, decided, current, progress>>

LookupFails ==
  /\ pc \in {"current", "prior"} /\ "error" \in Faults
  /\ Return("lookup failed")
  /\ UNCHANGED <<world, decided, current, prev, progress>>

PackNames == arrivals[current].packs

\* The loop over the packs: two downloads, then the comparison.
FetchCurr ==
  /\ pc = "curr" /\ k <= Len(PackNames)
  /\ \E f \in CurrFiles : files' = <<f>>
  /\ pc' = "prev"
  /\ UNCHANGED <<world, decided, current, prev, k, regressions, packsCompared, reason, read>>

FetchPrev ==
  /\ pc = "prev"
  /\ \E f \in BaseFiles : files' = <<files[1], f>>
  /\ pc' = "compare"
  /\ read' = read \cup {k}
  /\ UNCHANGED <<world, decided, current, prev, k, regressions, packsCompared, reason>>

\* Mutant: a pack that cannot be read counts as compared.
FetchFailsCounting ==
  /\ pc \in {"curr", "prev"} /\ k <= Len(PackNames) /\ "error" \in Faults
  /\ k' = k + 1 /\ files' = <<>> /\ pc' = "curr"
  /\ packsCompared' = packsCompared + 1
  /\ UNCHANGED <<world, decided, current, prev, regressions, reason, read>>

\* A path that cannot be rendered, a status other than 200, a body that does not
\* parse, the end of the context: the pack is skipped.
FetchFails ==
  /\ pc \in {"curr", "prev"} /\ k <= Len(PackNames) /\ "error" \in Faults
  /\ k' = k + 1 /\ files' = <<>> /\ pc' = "curr"
  /\ UNCHANGED <<world, decided, current, prev, regressions, packsCompared, reason, read>>

Compare ==
  /\ pc = "compare"
  /\ regressions' = regressions \o CompareDurations(PackNames[k], files[2], files[1])
  /\ packsCompared' = packsCompared + 1
  /\ k' = k + 1 /\ files' = <<>> /\ pc' = "curr"
  /\ UNCHANGED <<world, decided, current, prev, reason, read>>

Decide ==
  /\ pc = "curr" /\ k > Len(PackNames)
  /\ Return(IF packsCompared = 0 THEN "no artifacts"
            ELSE IF regressions = <<>> THEN "no regressions" ELSE "regressions")
  /\ UNCHANGED <<world, decided, current, prev, progress>>

Quill ==
  \/ PostDeploy \/ FindCurrent \/ FindPrior \/ LookupFails
  \/ FetchCurr \/ FetchPrev \/ FetchFails \/ Compare \/ Decide
-----------------------------------------------------------------------------
(* the observer; what it does after the second lookup is read by nobody *)

Observing ==
  /\ pc \in {"post-deploy", "current", "prior"}
  /\ UNCHANGED <<pc, decided, current, prev, progress, reason>>

Deploy(a, v, packs) ==
  /\ Observing /\ arrivals[a] = Unborn
  /\ arrivals' = [arrivals EXCEPT ![a] = [Unborn EXCEPT !.version = v, !.created = now,
                                                        !.packs = packs, !.listed = TRUE]]
  /\ UNCHANGED now

Finalize(a, phase, at) ==
  /\ Observing /\ arrivals[a].listed /\ InFlight(arrivals[a].phase)
  /\ at = now \/ (at = Unset /\ phase = "Skipped")
  /\ arrivals' = [arrivals EXCEPT ![a].phase = phase, ![a].finalizedAt = at]
  /\ UNCHANGED now

Withdraw(a) ==
  /\ Observing /\ "removal" \in Faults /\ arrivals[a].listed
  /\ arrivals' = [arrivals EXCEPT ![a].listed = FALSE]
  /\ UNCHANGED now

Tick == Observing /\ now < MaxTime /\ now' = now + 1 /\ UNCHANGED arrivals

Observer ==
  \/ \E a \in Ids :
       \/ \E v \in Versions, packs \in PackLists : Deploy(a, v, packs)
       \/ \E phase \in Outcomes, at \in {now, Unset} : Finalize(a, phase, at)
       \/ Withdraw(a)
  \/ Tick

Finished == pc = "done" /\ UNCHANGED vars

Next == Quill \/ Observer \/ Finished

Spec == Init /\ [][Next]_vars
-----------------------------------------------------------------------------
Tests == UNION {Range(f) : f \in CurrFiles \cup BaseFiles}

TypeOK ==
  /\ pc \in {"post-deploy", "current", "prior", "curr", "prev", "compare", "done"}
  /\ now \in 1..MaxTime
  /\ arrivals \in [Ids -> [version : Versions, phase : Phases, created : 0..MaxTime,
                           finalizedAt : 0..MaxTime, packs : PackLists \cup {<<>>},
                           listed : BOOLEAN]]
  /\ {decided, current, prev} \subseteq Ids \cup {None}
  /\ k \in Nat \ {0} /\ packsCompared \in Nat
  /\ regressions \in Seq([pack : Packs, test : Tests])

\* The durations are compared with those of another version that was tested to an end,
\* and no such arrival of the service was finalized after it.
BaselineIsLatest ==
  prev # None =>
    /\ Comparable(prev)
    /\ \A a \in Ids : arrivals[a].listed /\ Comparable(a) =>
         arrivals[a].finalizedAt <= arrivals[prev].finalizedAt

\* The two quills write one reason.  The duration quill speaks of the deployment the
\* post-deploy quill decided on, as long as that is there, or of a later one.
SameDeploymentOrLater ==
  current # None /\ decided # None /\ arrivals[decided].listed =>
    arrivals[current].created >= arrivals[decided].created

\* The position of a test in the file curr is slow if the last test of its name in the
\* file base took some time, of which it takes Ratio times as much and Delta more.
Slow(base, curr, i) ==
  \E j \in DOMAIN base :
    /\ base[j].name = curr[i].name
    /\ \A l \in (j + 1)..Len(base) : base[l].name # curr[i].name
    /\ base[j].ms # 0
    /\ curr[i].ms \div base[j].ms >= Ratio /\ curr[i].ms - base[j].ms >= Delta

\* A pack adds to the regressions its slow tests, each once, and nothing else.
FlagsAreReal ==
  [][pc = "compare" =>
       LET slow == {i \in DOMAIN files[1] : Slow(files[2], files[1], i)}
           new  == SubSeq(regressions', Len(regressions) + 1, Len(regressions'))
       IN  /\ Len(new) = Cardinality(slow)
           /\ Range(new) = {[pack |-> PackNames[k], test |-> files[1][i]] : i \in slow}]_vars

\* "We can't tell" is not "regression detected", nor "no regression": a verdict on the
\* durations speaks of as many packs as it has read both files of, at least one, and says
\* regression only with a slow test of one of these.
TellsWhatItRead ==
  pc = "done" =>
    /\ packsCompared = Cardinality(read)
    /\ reason \in {"no regressions", "regressions"} <=> read # {}
    /\ reason = "regressions" <=> regressions # <<>>
    /\ \A i \in DOMAIN regressions : regressions[i].pack \in {PackNames[r] : r \in read}
-----------------------------------------------------------------------------
(* Why *)

\* An arrival that was ever seen has been created, and keeps the version it was chosen for.
SeenIsCreated ==
  /\ \A a \in Ids : arrivals[a].listed => arrivals[a].created # Unset
  /\ decided # None => arrivals[decided].version = Current /\ arrivals[decided].created # Unset
  /\ current # None => arrivals[current].created # Unset

\* What is known at which point: the downloads begin with both arrivals found.
Phased ==
  /\ pc = "post-deploy" => decided = None
  /\ pc \in {"post-deploy", "current"} => current = None
  /\ pc \in {"post-deploy", "current", "prior"} => prev = None /\ progress = <<1, <<>>, <<>>, 0, {}>>
  /\ pc \in {"prior", "curr", "prev", "compare"} => current # None
  /\ pc \in {"curr", "prev", "compare"} => prev # None
  /\ pc # "done" => reason = None

\* The files in hand.
InHand ==
  /\ pc = "prev" => \E f \in CurrFiles : files = <<f>>
  /\ pc = "compare" => \E f \in CurrFiles, g \in BaseFiles : files = <<f, g>>
  /\ pc \notin {"prev", "compare"} => files = <<>>

\* The packs of which both files were read lie behind, or in hand; each is counted when
\* its comparison is done, and all regressions are of their tests.
Counted ==
  /\ current # None => k <= Len(PackNames) + 1
  /\ pc \in {"prev", "compare"} => k <= Len(PackNames)
  /\ IF pc = "compare" THEN k \in read /\ read \subseteq 1..k /\ Cardinality(read) = packsCompared + 1
     ELSE read \subseteq 1..(k - 1) /\ Cardinality(read) = packsCompared
  /\ \A i \in DOMAIN regressions : regressions[i].pack \in {PackNames[r] : r \in read}

DurationInv ==
  /\ TypeOK /\ SeenIsCreated /\ Phased /\ InHand /\ Counted
  /\ BaselineIsLatest /\ SameDeploymentOrLater /\ TellsWhatItRead
-----------------------------------------------------------------------------
(* What comments of the source say, and the code does not do *)

\* The baseline is the "most-recent finalized prior arrival": it was deployed before the
\* current one.
BaselineIsPrior ==
  prev # None => arrivals[prev].created <= arrivals[current].created
=============================================================================
