-------------------------- MODULE ReleaseProof --------------------------
(***************************************************************************)
(* What releases rest on.  ReleaseGatesSafe holds in every state: an       *)
(* acceptance run that passed has run every stage, a readiness report that *)
(* passes evaluated every hard gate, and what is published is what its     *)
(* gates and its signing status say; the three machines share no variable, *)
(* so each has its own invariant and a step of one leaves the other two    *)
(* alone.  And what check-workflows.mjs accepts is safe to run, for every  *)
(* workflow with finitely many jobs that are lists of steps, and any       *)
(* number of edits.  The media packs a verified catalogue lists are bound  *)
(* by signed statements, and what passes the size check fits its budgets.  *)
(***************************************************************************)
EXTENDS ReleaseGates, WorkflowPolicy, MediaPacks, SizeBudget, FiniteSetTheorems,
        SequenceTheorems, WellFoundedInduction, TLAPS

----------------------------------------------------------------------------
(* The acceptance run.                                                      *)

(* The numbers from 1 to n are finitely many, and n.                        *)
LEMMA IntervalFromOne ==
  ASSUME NEW n \in Nat
  PROVE  IsFiniteSet(1..n) /\ Cardinality(1..n) = n
<1>1. 1 \in Int /\ n \in Int
  OBVIOUS
<1>2. IsFiniteSet(1..n) /\ Cardinality(1..n) = IF 1 > n THEN 0 ELSE n - 1 + 1
  BY <1>1, FS_Interval, Zenon
<1> QED
  BY <1>2

GateResult == [index : DOMAIN GateStages, ok : BOOLEAN, source : Trees]
Sources == Trees \union {NoEvidence}
Sealings == (UNION {[S -> Nat] : S \in SUBSET DOMAIN GateStages}) \union {NoEvidence}
Stops == 1..(Len(GateStages) + 1)
AcceptType ==
    /\ tree \in Trees
    /\ gate \in [source : Sources, stages : Seq(GateResult),
                 status : {"none", "running", "failed", "passed"},
                 evidence : [DOMAIN GateStages -> Nat],
                 sealed : Sealings, skipped : BOOLEAN]
    /\ runner \in [pc : {"idle", "stage", "ran", "seal"}, next : Stops,
                   source : Sources, kept : Seq(GateResult), ok : BOOLEAN]

(* Results stand in the order of their stages, are about one source, and    *)
(* the look at the working tree passed only for a clean one.                *)
InOrder(results, source) ==
    \A k \in DOMAIN results :
        /\ results[k].index >= k /\ results[k].source = source
        /\ results[k].ok /\ GateStages[results[k].index] = "git-state" => source \notin DirtyTrees
        /\ \A j \in 1..(k - 1) : results[j].index < results[k].index

(* The first n results are those of the first n stages, and they passed.    *)
AllPassed(results, n) ==
    /\ n <= Len(results)
    /\ \A k \in 1..n : results[k].index = k /\ results[k].ok

AcceptGate ==
    /\ InOrder(gate.stages, gate.source)
    /\ gate.status = "passed" /\ ~gate.skipped =>
           Len(gate.stages) = Len(GateStages) /\ AllPassed(gate.stages, Len(GateStages))
AcceptRunner ==
    /\ runner.pc # "idle" => /\ runner.source = gate.source /\ runner.source \in Trees
                             /\ InOrder(runner.kept, runner.source)
    /\ runner.pc = "stage" =>
           /\ gate.stages = runner.kept
           /\ \A k \in DOMAIN runner.kept : runner.kept[k].index < runner.next
           /\ ~gate.skipped => Len(runner.kept) = runner.next - 1
                /\ AllPassed(runner.kept, runner.next - 1)
    /\ runner.pc = "ran" =>
           /\ runner.next \in DOMAIN GateStages
           /\ \A k \in DOMAIN runner.kept : runner.kept[k].index <= runner.next
           /\ ~gate.skipped => /\ Len(runner.kept) = runner.next
                               /\ AllPassed(runner.kept, runner.next - 1)
                               /\ runner.kept[runner.next].index = runner.next
                               /\ runner.kept[runner.next].ok = runner.ok
AcceptInv == AcceptType /\ AcceptGate /\ AcceptRunner

(* Stages are numbered from one.                                            *)
LEMMA StageNumbers ==
    /\ Len(GateStages) \in Nat /\ Len(GateStages) >= 1 /\ DOMAIN GateStages = 1..Len(GateStages)
    /\ DOMAIN GateStages \subseteq Stops /\ \A n \in DOMAIN GateStages : n + 1 \in Stops
    /\ 1 \in Stops /\ NoEvidence \in Sealings /\ <<>> \in Seq(GateResult)
    /\ \A results \in Seq(GateResult) :
           /\ Len(results) \in Nat /\ DOMAIN results = 1..Len(results)
           /\ \A k \in DOMAIN results : results[k] \in GateResult /\ results[k].index \in Nat
                                      /\ results[k].index >= 1
                                      /\ results[k].index <= Len(GateStages)
<1>1. Len(GateStages) \in Nat /\ Len(GateStages) >= 1 /\ DOMAIN GateStages = 1..Len(GateStages)
  BY GateBounds
<1>2. ASSUME NEW results \in Seq(GateResult)
      PROVE  Len(results) \in Nat /\ DOMAIN results = 1..Len(results)
             /\ \A k \in DOMAIN results : results[k] \in GateResult
  OBVIOUS
<1>3. \A r \in GateResult : r.index \in Nat /\ r.index >= 1 /\ r.index <= Len(GateStages)
  BY <1>1 DEF GateResult
<1>4. DOMAIN GateStages \subseteq Stops /\ 1 \in Stops
      /\ \A n \in DOMAIN GateStages : n + 1 \in Stops
  BY <1>1 DEF Stops
<1>5. NoEvidence \in Sealings
  BY DEF Sealings
<1>6. <<>> \in Seq(GateResult)
  OBVIOUS
<1>7. QED BY <1>1, <1>2, <1>3, <1>4, <1>5, <1>6

(* An increasing list of results that holds a passed one of every stage up  *)
(* to n begins with those of the stages 1 to n: the result of stage i is at *)
(* position i, for it is not beyond, and the stages up to i need i places.  *)
LEMMA NoGap ==
    ASSUME NEW results \in Seq(GateResult), NEW source, InOrder(results, source),
           NEW n \in Nat, n <= Len(GateStages),
           \A i \in 1..n : i \in PassedStages(results)
    PROVE  AllPassed(results, n)
<1>1. \A i \in 1..n : \E k \in DOMAIN results : results[k].index = i /\ results[k].ok
  BY DEF PassedStages
<1> DEFINE Place(j) == CHOOSE k \in DOMAIN results : results[k].index = j
<1>2. \A j \in 1..n : Place(j) \in DOMAIN results /\ results[Place(j)].index = j
  BY <1>1
<1>3. \A j, k \in DOMAIN results : results[j].index = results[k].index => j = k
  <2>1. SUFFICES ASSUME NEW j \in DOMAIN results, NEW k \in DOMAIN results, j < k
                 PROVE  results[j].index # results[k].index
    OBVIOUS
  <2>2. results[j].index < results[k].index /\ results[j].index \in Nat /\ results[k].index \in Nat
    <3>1. j \in 1..(k - 1)
      BY <2>1, StageNumbers
    <3>2. QED BY <3>1, StageNumbers DEF InOrder
  <2>3. QED BY <2>2
<1>4. ASSUME NEW i \in 1..n PROVE results[i].index = i /\ results[i].ok /\ i <= Len(results)
  <2>1. PICK p \in DOMAIN results : results[p].index = i /\ results[p].ok
    BY <1>1
  <2>2. p <= i /\ p \in Nat
    BY <2>1 DEF InOrder
  <2> DEFINE h == [j \in 1..i |-> Place(j)]
  <2>3. \A j \in 1..i : h[j] \in 1..p
    <3>1. TAKE j \in 1..i
    <3>2. j \in 1..n /\ Place(j) \in DOMAIN results /\ results[Place(j)].index = j
      BY <1>2
    <3>3. ~(p < Place(j))
      <4>1. SUFFICES ASSUME p < Place(j) PROVE FALSE
        OBVIOUS
      <4>2. results[p].index < results[Place(j)].index
        BY <3>2, <4>1, <2>2 DEF InOrder
      <4>3. QED BY <4>2, <3>2, <2>1
    <3>4. QED BY <3>2, <3>3, <2>2
  <2>4. \A j, k \in 1..i : h[j] = h[k] => j = k
    <3>1. TAKE j, k \in 1..i
    <3>2. results[Place(j)].index = j /\ results[Place(k)].index = k
      BY <1>2
    <3>3. QED BY <3>2
  <2>5. h \in Injection(1..i, 1..p)
    BY <2>3, <2>4 DEF Injection, IsInjective
  <2> HIDE DEF h
  <2>6. IsFiniteSet(1..p) /\ Cardinality(1..p) = p /\ Cardinality(1..i) = i
    <3>1. p \in Int /\ 1 \in Int /\ i \in Int /\ ~(1 > i) /\ (1 > p => p = 0)
      BY <2>2
    <3>2. QED BY <3>1, FS_Interval
  <2>7. i <= p
    BY <2>5, <2>6, FS_Injection
  <2>8. p = i
    BY <2>2, <2>7
  <2>9. QED BY <2>8, <2>1
<1>5. n <= Len(results)
  BY <1>4
<1>6. QED BY <1>4, <1>5 DEF AllPassed

(* The same first results passed in any other list that begins with them.   *)
LEMMA PassedPrefix ==
    ASSUME NEW a, NEW b, NEW n \in Nat, AllPassed(a, n), n <= Len(b), \A k \in 1..n : b[k] = a[k]
    PROVE  AllPassed(b, n)
BY DEF AllPassed

(* What a resumed run keeps (verify-release.mjs:131) is in order, stops     *)
(* before the chosen stage, and is whole when every stage before had passed.*)
LEMMA KeptPrefix ==
    ASSUME NEW results \in Seq(GateResult), NEW source, InOrder(results, source),
           NEW start \in DOMAIN GateStages
    PROVE  LET kept == KeptResults(results, start) IN
           /\ kept \in Seq(GateResult) /\ InOrder(kept, source)
           /\ \A k \in DOMAIN kept : kept[k].index < start
           /\ (\A i \in 1..(start - 1) : i \in PassedStages(results)) =>
                  Len(kept) = start - 1 /\ AllPassed(kept, start - 1)
<1> DEFINE S == {k \in DOMAIN results : results[k].index < start}
           m == Cardinality(S)
           kept == KeptResults(results, start)
<1>0. start \in Nat /\ start >= 1 /\ Len(results) \in Nat /\ DOMAIN results = 1..Len(results)
  BY GateBounds
<1>1. IsFiniteSet(1..Len(results))
  BY <1>0, FS_Interval
<1>2. S \subseteq 1..Len(results)
  BY <1>0
<1>3. IsFiniteSet(S) /\ m \in Nat /\ m <= Len(results)
  <2>1. Cardinality(1..Len(results)) = Len(results)
    <3>1. 1 \in Int /\ Len(results) \in Int /\ (1 > Len(results) => Len(results) = 0)
          /\ (~(1 > Len(results)) => Len(results) - 1 + 1 = Len(results))
      BY <1>0
    <3>2. QED BY <3>1, FS_Interval
  <2> HIDE DEF S
  <2>2. QED BY <1>1, <1>2, <2>1, FS_Subset, FS_CardinalityType
<1>4. /\ kept \in Seq(GateResult) /\ Len(kept) = m
      /\ \A k \in 1..m : kept[k] = results[k]
  <2>1. \A k \in 1..m : results[k] \in GateResult
    BY <1>3, <1>0
  <2>2. kept = SubSeq(results, 1, m)
    BY DEF KeptResults
  <2> HIDE DEF m, kept
  <2>3. /\ SubSeq(results, 1, m) \in Seq(GateResult)
        /\ Len(SubSeq(results, 1, m)) = IF 1 <= m THEN m - 1 + 1 ELSE 0
        /\ \A i \in 1..(m - 1 + 1) : SubSeq(results, 1, m)[i] = results[1 + i - 1]
    BY <2>1, <1>3, SubSeqProperties
  <2>4. QED BY <2>2, <2>3, <1>3
<1>5. \A k \in 1..m : results[k].index < start
  <2>1. SUFFICES ASSUME NEW k \in 1..m, ~(results[k].index < start) PROVE FALSE
    OBVIOUS
  <2>2. S \subseteq 1..(k - 1)
    <3>1. SUFFICES ASSUME NEW j \in S, ~(j < k) PROVE FALSE
      BY <1>0, <1>3
    <3>2. j # k /\ k < j /\ j \in DOMAIN results
      BY <3>1, <2>1, <1>0, <1>3
    <3>3. results[k].index < results[j].index
      BY <3>2, <1>0, <1>3 DEF InOrder
    <3>4. results[k].index \in Nat /\ results[j].index \in Nat
      BY <3>2, <1>0, <1>3, StageNumbers
    <3>5. QED BY <3>3, <3>4, <2>1, <1>0
  <2>3. IsFiniteSet(1..(k - 1)) /\ Cardinality(1..(k - 1)) = k - 1
    <3>1. k - 1 \in Nat
      BY <1>3
    <3>2. QED BY <3>1, IntervalFromOne, Zenon
  <2>4. m <= k - 1
    BY <2>2, <2>3, FS_Subset
  <2>5. QED BY <2>4, <1>3
<1>6. InOrder(kept, source)
  <2> HIDE DEF m, kept
  <2>1. DOMAIN kept = 1..m /\ 1..m \subseteq DOMAIN results
    BY <1>4, <1>3, <1>0
  <2>2. \A k \in 1..m : \A j \in 1..(k - 1) : j \in 1..m
    BY <1>3
  <2>3. QED BY <2>1, <2>2, <1>4 DEF InOrder
<1>7. \A k \in DOMAIN kept : kept[k].index < start
  BY <1>4, <1>5
<1>8. ASSUME \A i \in 1..(start - 1) : i \in PassedStages(results)
      PROVE  Len(kept) = start - 1 /\ AllPassed(kept, start - 1)
  <2>1. start - 1 \in Nat /\ start - 1 <= Len(GateStages)
    BY <1>0, GateBounds
  <2>2. AllPassed(results, start - 1)
    BY <1>8, <2>1, NoGap
  <2>3. S = 1..(start - 1)
    <3>1. ASSUME NEW k \in 1..(start - 1) PROVE k \in S
      BY <2>2, <1>0 DEF AllPassed
    <3>2. ASSUME NEW k \in S PROVE k \in 1..(start - 1)
      <4>1. k \in 1..Len(results) /\ results[k].index >= k /\ results[k].index < start
            /\ results[k].index \in Nat
        BY <1>0, StageNumbers DEF InOrder
      <4>2. QED BY <4>1, <1>0
    <3>3. QED BY <3>1, <3>2
  <2>4. m = start - 1
    <3> DEFINE n == start - 1
    <3>1. n \in Int /\ 1 \in Int /\ (1 > n => n = 0) /\ (~(1 > n) => n - 1 + 1 = n)
      BY <2>1
    <3>2. Cardinality(1..n) = n
      <4> HIDE DEF n
      <4>1. QED BY <3>1, FS_Interval
    <3>3. \A T : T = 1..(start - 1) => Cardinality(T) = start - 1
      BY <3>2
    <3>4. Cardinality(S) = start - 1
      <4> HIDE DEF S
      <4>1. QED BY <2>3, <3>3
    <3>5. QED BY <3>4
  <2> HIDE DEF S, m, kept
  <2>5. Len(kept) = start - 1 /\ \A k \in 1..(start - 1) : kept[k] = results[k]
    BY <2>4, <1>4
  <2>6. QED BY <2>5, <2>2, <2>1, PassedPrefix
<1>9. QED BY <1>4, <1>6, <1>7, <1>8

(* One more result at the end keeps the order when its stage is beyond all  *)
(* of them.                                                                 *)
LEMMA AppendInOrder ==
    ASSUME NEW results \in Seq(GateResult), NEW source, InOrder(results, source),
           NEW r \in GateResult, r.source = source,
           r.ok /\ GateStages[r.index] = "git-state" => source \notin DirtyTrees,
           \A k \in DOMAIN results : results[k].index < r.index
    PROVE  /\ Append(results, r) \in Seq(GateResult) /\ InOrder(Append(results, r), source)
           /\ Len(Append(results, r)) = Len(results) + 1
           /\ \A k \in 1..Len(results) : Append(results, r)[k] = results[k]
           /\ Append(results, r)[Len(results) + 1] = r
<1> DEFINE n == Len(results)
           longer == Append(results, r)
<1>1. n \in Nat /\ DOMAIN results = 1..n /\ r.index \in Nat /\ r.index >= 1
  BY StageNumbers DEF GateResult
<1>2. /\ longer \in Seq(GateResult) /\ Len(longer) = n + 1 /\ DOMAIN longer = 1..(n + 1)
      /\ \A k \in 1..n : longer[k] = results[k]
      /\ longer[n + 1] = r
  BY <1>1
<1>3. r.index >= n + 1
  <2>1. CASE n = 0
    BY <2>1, <1>1
  <2>2. CASE n # 0
    <3>1. n \in DOMAIN results /\ results[n].index >= n /\ results[n].index < r.index
          /\ results[n].index \in Nat
      BY <2>2, <1>1, StageNumbers, SMTT(30) DEF InOrder
    <3>2. QED BY <3>1, <1>1
  <2>3. QED BY <2>1, <2>2
<1>4. InOrder(longer, source)
  <2> HIDE DEF longer, n
  <2>1. SUFFICES ASSUME NEW k \in DOMAIN longer
                 PROVE  /\ longer[k].index >= k /\ longer[k].source = source
                        /\ longer[k].ok /\ GateStages[longer[k].index] = "git-state"
                               => source \notin DirtyTrees
                        /\ \A j \in 1..(k - 1) : longer[j].index < longer[k].index
    BY DEF InOrder
  <2>2. CASE k \in 1..n
    <3>1. longer[k] = results[k] /\ \A j \in 1..(k - 1) : longer[j] = results[j]
      BY <2>2, <1>1, <1>2
    <3>2. QED BY <3>1, <2>2, <1>1 DEF InOrder
  <2>3. CASE k = n + 1
    <3>1. longer[k] = r /\ \A j \in 1..(k - 1) : j \in DOMAIN results /\ longer[j] = results[j]
      BY <2>3, <1>1, <1>2
    <3>2. QED BY <3>1, <2>3, <1>3
  <2>4. QED BY <2>2, <2>3, <1>1, <1>2
<1>5. QED BY <1>2, <1>4

----------------------------------------------------------------------------
(* The steps of an acceptance run.                                          *)
LEMMA AcceptStart == AcceptInit => AcceptInv
<1> SUFFICES ASSUME AcceptInit PROVE AcceptInv
  OBVIOUS
<1>1. gate = NoGate /\ runner = IdleRunner /\ tree \in Trees
  BY DEF AcceptInit
<1>2. <<>> \in Seq(GateResult) /\ 1 \in Stops /\ NoEvidence \in Sealings
      /\ [i \in DOMAIN GateStages |-> 0] \in [DOMAIN GateStages -> Nat]
  BY StageNumbers
<1>3. AcceptType
  BY <1>1, <1>2 DEF AcceptType, NoGate, IdleRunner, Sources
<1>4. AcceptGate /\ AcceptRunner
  BY <1>1 DEF AcceptGate, AcceptRunner, NoGate, IdleRunner, InOrder
<1>5. QED BY <1>3, <1>4 DEF AcceptInv

(* A run starts.                                                            *)
LEMMA StartGateKeeps == AcceptInv /\ StartGate => AcceptInv'
<1> SUFFICES ASSUME AcceptInv, StartGate PROVE AcceptInv'
  OBVIOUS
<1>1. /\ gate' = [source |-> tree, stages |-> <<>>, status |-> "running",
                  evidence |-> [i \in DOMAIN GateStages |-> 0], sealed |-> NoEvidence,
                  skipped |-> FALSE]
      /\ runner' = [pc |-> "stage", next |-> 1, source |-> tree, kept |-> <<>>, ok |-> TRUE]
      /\ tree' = tree /\ tree \in Trees
  BY DEF StartGate, NoGate, IdleRunner, AcceptInv, AcceptType
<1>2. <<>> \in Seq(GateResult) /\ 1 \in Stops /\ NoEvidence \in Sealings /\ Len(<<>>) = 0
      /\ DOMAIN <<>> = {}
      /\ [i \in DOMAIN GateStages |-> 0] \in [DOMAIN GateStages -> Nat]
  BY StageNumbers
<1>3. AcceptType'
  BY <1>1, <1>2 DEF AcceptType, Sources
<1>4. AcceptGate' /\ AcceptRunner'
  BY <1>1, <1>2 DEF AcceptGate, AcceptRunner, InOrder, AllPassed
<1>5. QED BY <1>3, <1>4 DEF AcceptInv

(* A run resumes behind the results it may keep.                            *)
LEMMA ResumeGateKeeps ==
    ASSUME AcceptInv, NEW start \in DOMAIN GateStages, ResumeGate(start)
    PROVE  AcceptInv'
<1> DEFINE kept == KeptResults(gate.stages, start)
           gap == \E i \in 1..(start - 1) : i \notin PassedStages(gate.stages)
<1>1. /\ gate' = [gate EXCEPT !.stages = kept, !.status = "running", !.skipped = gap]
      /\ runner' = [IdleRunner EXCEPT !.pc = "stage", !.next = start, !.source = tree,
                    !.kept = kept]
  BY DEF ResumeGate
<1>2. /\ gate.stages \in Seq(GateResult) /\ InOrder(gate.stages, gate.source) /\ tree \in Trees
      /\ tree' = tree /\ gate.source = tree
  BY DEF ResumeGate, AcceptInv, AcceptType, AcceptGate
<1>3. /\ kept \in Seq(GateResult) /\ InOrder(kept, gate.source)
      /\ \A k \in DOMAIN kept : kept[k].index < start
      /\ ~gap => Len(kept) = start - 1 /\ AllPassed(kept, start - 1)
  BY <1>2, KeptPrefix
<1>4. gap \in BOOLEAN /\ start \in Stops
  BY StageNumbers
<1>5. /\ runner' = [pc |-> "stage", next |-> start, source |-> tree, kept |-> kept, ok |-> TRUE]
      /\ gate' = [source |-> gate.source, stages |-> kept, status |-> "running",
                  evidence |-> gate.evidence,
                  sealed |-> gate.sealed, skipped |-> gap]
  <2> HIDE DEF kept, gap
  <2>1. QED BY <1>1 DEF IdleRunner, AcceptInv, AcceptType
<1>6. PICK results \in Seq(GateResult), skips \in BOOLEAN :
          /\ runner' = [pc |-> "stage", next |-> start, source |-> tree, kept |-> results,
                        ok |-> TRUE]
          /\ gate' = [source |-> gate.source, stages |-> results, status |-> "running",
                      evidence |-> gate.evidence, sealed |-> gate.sealed, skipped |-> skips]
          /\ InOrder(results, gate.source) /\ \A k \in DOMAIN results : results[k].index < start
          /\ ~skips => Len(results) = start - 1 /\ AllPassed(results, start - 1)
  BY <1>3, <1>4, <1>5
<1> HIDE DEF kept, gap
<1>7. AcceptType'
  BY <1>2, <1>4, <1>6 DEF AcceptInv, AcceptType, Sources
<1>8. AcceptGate' /\ AcceptRunner'
  BY <1>2, <1>6 DEF AcceptGate, AcceptRunner
<1>9. QED BY <1>7, <1>8 DEF AcceptInv

(* A stage passes or fails on the source as it is then.                     *)
LEMMA RunStageKeeps == AcceptInv /\ RunStage => AcceptInv'
<1> SUFFICES ASSUME AcceptInv, RunStage PROVE AcceptInv'
  OBVIOUS
<1>1. PICK ok \in BOOLEAN :
          /\ GateStages[runner.next] = "git-state" => ok = (runner.source \notin DirtyTrees)
          /\ runner' = [runner EXCEPT !.pc = "ran", !.ok = ok,
               !.kept = Append(@, [index |-> runner.next, ok |-> ok, source |-> runner.source])]
  BY DEF RunStage
<1> DEFINE r == [index |-> runner.next, ok |-> ok, source |-> runner.source]
           longer == Append(runner.kept, r)
           n == Len(runner.kept)
<1>2. /\ runner.pc = "stage" /\ runner.next \in DOMAIN GateStages /\ tree' = tree
      /\ gate' = [gate EXCEPT !.evidence[runner.next] = @ + 1]
  BY DEF RunStage
<1>3. /\ runner.kept \in Seq(GateResult) /\ InOrder(runner.kept, runner.source)
      /\ runner.source = gate.source /\ gate.stages = runner.kept
      /\ \A k \in DOMAIN runner.kept : runner.kept[k].index < runner.next
      /\ ~gate.skipped => Len(runner.kept) = runner.next - 1
           /\ AllPassed(runner.kept, runner.next - 1)
  BY <1>2 DEF AcceptInv, AcceptType, AcceptRunner
<1>4. gate.evidence \in [DOMAIN GateStages -> Nat] /\ gate.evidence[runner.next] + 1 \in Nat
  BY <1>2 DEF AcceptInv, AcceptType
<1>5. r \in GateResult /\ runner.source \in Trees
  BY <1>2 DEF AcceptInv, AcceptRunner, GateResult
<1>6. /\ longer \in Seq(GateResult) /\ InOrder(longer, runner.source)
      /\ Len(longer) = n + 1 /\ \A k \in 1..n : longer[k] = runner.kept[k]
      /\ longer[n + 1] = r
  BY <1>1, <1>3, <1>5, AppendInOrder
<1>7. \A k \in DOMAIN longer : longer[k].index <= runner.next
  <2>1. \A k \in 1..n : runner.kept[k].index < runner.next /\ runner.kept[k].index \in Nat
    BY <1>3, StageNumbers
  <2>2. runner.next \in Nat /\ n \in Nat /\ DOMAIN longer = 1..(n + 1)
    BY <1>2, <1>3, <1>6, StageNumbers
  <2> HIDE DEF longer, n
  <2>3. QED BY <2>1, <2>2, <1>6
<1>8. ASSUME ~gate.skipped
      PROVE  /\ Len(longer) = runner.next /\ AllPassed(longer, runner.next - 1)
             /\ longer[runner.next] = r
  <2>1. n + 1 = runner.next /\ n \in Nat /\ AllPassed(runner.kept, n) /\ n = runner.next - 1
    BY <1>8, <1>2, <1>3, StageNumbers, SMTT(30)
  <2> HIDE DEF longer, n, r
  <2>2. n <= Len(longer) /\ \A k \in 1..n : longer[k] = runner.kept[k]
    BY <2>1, <1>6
  <2>3. AllPassed(longer, n)
    BY <2>1, <2>2, PassedPrefix
  <2>4. QED BY <2>1, <2>3, <1>6
<1> HIDE DEF longer, n
<1>9. runner' = [pc |-> "ran", next |-> runner.next, source |-> runner.source, kept |-> longer,
                 ok |-> ok]
  BY <1>1 DEF AcceptInv, AcceptType, longer
<1>10. /\ gate'.source = gate.source /\ gate'.stages = gate.stages /\ gate'.status = gate.status
       /\ gate'.skipped = gate.skipped
  BY <1>2 DEF AcceptInv, AcceptType
<1>11. AcceptType'
  <2>1. tree' \in Trees /\ runner.next \in Stops
    BY <1>2 DEF AcceptInv, AcceptType
  <2>2. runner' \in [pc : {"idle", "stage", "ran", "seal"}, next : Stops,
                     source : Sources, kept : Seq(GateResult), ok : BOOLEAN]
    BY <2>1, <1>5, <1>6, <1>9 DEF Sources
  <2>3. gate' \in [source : Sources, stages : Seq(GateResult),
                   status : {"none", "running", "failed", "passed"},
                   evidence : [DOMAIN GateStages -> Nat], sealed : Sealings, skipped : BOOLEAN]
    <3>1. DEFINE e == [gate.evidence EXCEPT ![runner.next] = @ + 1]
    <3>2. e \in [DOMAIN GateStages -> Nat]
      BY <1>2, <1>4
    <3>3. gate' = [gate EXCEPT !.evidence = e]
      BY <1>2
    <3> HIDE DEF e
    <3>4. QED BY <3>2, <3>3 DEF AcceptInv, AcceptType
  <2>4. QED BY <2>1, <2>2, <2>3 DEF AcceptType
<1>12. AcceptGate'
  BY <1>10 DEF AcceptInv, AcceptGate
<1>13. AcceptRunner'
  BY <1>2, <1>3, <1>5, <1>6, <1>7, <1>8, <1>9, <1>10 DEF AcceptRunner
<1>14. QED BY <1>11, <1>12, <1>13 DEF AcceptInv

(* The result of a stage is recorded behind those kept.                     *)
LEMMA RecordStageKeeps == AcceptInv /\ RecordStage => AcceptInv'
<1> SUFFICES ASSUME AcceptInv, RecordStage PROVE AcceptInv'
  OBVIOUS
<1> DEFINE status == IF runner.ok THEN "running" ELSE "failed"
<1>1. /\ runner.pc = "ran" /\ tree' = tree
      /\ gate' = [gate EXCEPT !.stages = runner.kept, !.status = status]
      /\ runner' = IF runner.ok THEN [runner EXCEPT !.pc = "stage", !.next = @ + 1]
                   ELSE [runner EXCEPT !.pc = "seal"]
  BY DEF RecordStage
<1>2. /\ runner.kept \in Seq(GateResult) /\ InOrder(runner.kept, runner.source)
      /\ runner.source = gate.source /\ runner.source \in Trees /\ runner.next \in DOMAIN GateStages
      /\ \A k \in DOMAIN runner.kept : runner.kept[k].index <= runner.next
      /\ ~gate.skipped => /\ Len(runner.kept) = runner.next
                          /\ AllPassed(runner.kept, runner.next - 1)
                          /\ runner.kept[runner.next].index = runner.next
                          /\ runner.kept[runner.next].ok = runner.ok
  BY <1>1 DEF AcceptInv, AcceptType, AcceptRunner
<1>3. status # "passed" /\ status \in {"running", "failed"}
  OBVIOUS
<1> HIDE DEF status
<1>4. /\ gate' = [source |-> gate.source, stages |-> runner.kept, status |-> status,
                  evidence |-> gate.evidence, sealed |-> gate.sealed, skipped |-> gate.skipped]
      /\ gate.skipped \in BOOLEAN
  BY <1>1 DEF AcceptInv, AcceptType
<1>5. AcceptGate'
  BY <1>2, <1>3, <1>4 DEF AcceptGate
<1>6. CASE runner.ok
  <2>1. runner' = [pc |-> "stage", next |-> runner.next + 1, source |-> runner.source,
                   kept |-> runner.kept, ok |-> runner.ok]
    BY <1>1, <1>6 DEF AcceptInv, AcceptType
  <2>2. runner.next + 1 \in Stops /\ runner.next \in Nat
    BY <1>2, StageNumbers
  <2>3. AcceptType'
    BY <1>1, <1>2, <1>3, <1>4, <2>1, <2>2 DEF AcceptInv, AcceptType
  <2>4. \A k \in DOMAIN runner.kept : runner.kept[k].index < runner.next + 1
    <3>1. \A k \in DOMAIN runner.kept : runner.kept[k].index \in Nat
      BY <1>2, StageNumbers
    <3>2. QED BY <3>1, <2>2, <1>2
  <2>5. ASSUME ~gate.skipped
        PROVE  Len(runner.kept) = (runner.next + 1) - 1
              /\ AllPassed(runner.kept, (runner.next + 1) - 1)
    <3>1. \A k \in 1..runner.next : k \in 1..(runner.next - 1) \/ k = runner.next
      BY <2>2
    <3>2. (runner.next + 1) - 1 = runner.next
      BY <2>2
    <3>3. /\ Len(runner.kept) = runner.next
          /\ \A k \in 1..(runner.next - 1) : runner.kept[k].index = k /\ runner.kept[k].ok
          /\ runner.kept[runner.next].index = runner.next /\ runner.kept[runner.next].ok
      BY <2>5, <1>2, <1>6 DEF AllPassed
    <3>4. \A k \in 1..runner.next : runner.kept[k].index = k /\ runner.kept[k].ok
      BY <3>1, <3>3
    <3>5. AllPassed(runner.kept, runner.next)
      BY <3>3, <3>4, <2>2 DEF AllPassed
    <3>6. QED BY <3>2, <3>3, <3>5
  <2>6. AcceptRunner'
    BY <2>1, <2>4, <2>5, <1>2, <1>4 DEF AcceptRunner
  <2>7. QED BY <2>3, <2>6, <1>5 DEF AcceptInv
<1>7. CASE ~runner.ok
  <2>1. runner' = [pc |-> "seal", next |-> runner.next, source |-> runner.source,
                   kept |-> runner.kept, ok |-> runner.ok]
    BY <1>1, <1>7 DEF AcceptInv, AcceptType
  <2>2. AcceptType'
    BY <1>1, <1>2, <1>3, <1>4, <2>1, SMTT(30) DEF AcceptInv, AcceptType
  <2>3. AcceptRunner'
    BY <2>1, <1>2, <1>4 DEF AcceptRunner
  <2>4. QED BY <2>2, <2>3, <1>5 DEF AcceptInv
<1>8. QED BY <1>6, <1>7

(* A run ends behind its last stage.                                        *)
LEMMA PassGateKeeps == AcceptInv /\ PassGate => AcceptInv'
<1> SUFFICES ASSUME AcceptInv, PassGate PROVE AcceptInv'
  OBVIOUS
<1>1. /\ runner.pc = "stage" /\ runner.next \notin DOMAIN GateStages /\ tree' = tree
      /\ gate' = [gate EXCEPT !.status = "passed"] /\ runner' = [runner EXCEPT !.pc = "seal"]
  BY DEF PassGate
<1>2. /\ gate' = [source |-> gate.source, stages |-> gate.stages, status |-> "passed",
                  evidence |-> gate.evidence, sealed |-> gate.sealed, skipped |-> gate.skipped]
      /\ runner' = [pc |-> "seal", next |-> runner.next, source |-> runner.source,
                    kept |-> runner.kept, ok |-> runner.ok]
  BY <1>1 DEF AcceptInv, AcceptType
<1>3. runner.next = Len(GateStages) + 1
  BY <1>1, StageNumbers DEF AcceptInv, AcceptType, Stops
<1>4. AcceptType'
  BY <1>1, <1>2 DEF AcceptInv, AcceptType
<1>5. AcceptGate'
  <2>1. runner.next - 1 = Len(GateStages)
    BY <1>3, StageNumbers
  <2>2. QED BY <1>1, <1>2, <2>1 DEF AcceptInv, AcceptGate, AcceptRunner
<1>6. AcceptRunner'
  BY <1>1, <1>2 DEF AcceptInv, AcceptRunner
<1>7. QED BY <1>4, <1>5, <1>6 DEF AcceptInv

(* A run that passed seals what its stages left.                            *)
LEMMA SealEvidenceKeeps == AcceptInv /\ SealEvidence => AcceptInv'
<1> SUFFICES ASSUME AcceptInv, SealEvidence PROVE AcceptInv'
  OBVIOUS
<1> DEFINE seal == [i \in PassedStages(runner.kept) |-> gate.evidence[i]]
<1>1. gate' = [gate EXCEPT !.sealed = seal] /\ runner' = IdleRunner /\ tree' = tree
  BY DEF SealEvidence
<1>2. seal \in Sealings
  <2>1. PassedStages(runner.kept) \in SUBSET DOMAIN GateStages
    <3>1. \A k \in DOMAIN runner.kept : runner.kept[k].index \in DOMAIN GateStages
      BY StageNumbers DEF AcceptInv, AcceptType, GateResult
    <3>2. QED BY <3>1 DEF PassedStages
  <2>2. seal \in [PassedStages(runner.kept) -> Nat]
    BY <2>1 DEF AcceptInv, AcceptType
  <2> HIDE DEF seal
  <2>3. QED BY <2>1, <2>2 DEF Sealings
<1> HIDE DEF seal
<1>3. gate' = [source |-> gate.source, stages |-> gate.stages, status |-> gate.status,
               evidence |-> gate.evidence, sealed |-> seal, skipped |-> gate.skipped]
  BY <1>1 DEF AcceptInv, AcceptType
<1>4. AcceptType'
  BY <1>1, <1>2, <1>3, StageNumbers DEF AcceptInv, AcceptType, IdleRunner, Sources
<1>5. AcceptGate' /\ AcceptRunner'
  BY <1>1, <1>3 DEF AcceptInv, AcceptGate, AcceptRunner, IdleRunner
<1>6. QED BY <1>4, <1>5 DEF AcceptInv

(* A killed run leaves its report.                                          *)
LEMMA KillGateKeeps == AcceptInv /\ KillGate => AcceptInv'
<1> SUFFICES ASSUME AcceptInv, KillGate PROVE AcceptInv'
  OBVIOUS
<1>1. runner' = IdleRunner /\ gate' = gate /\ tree' = tree
  BY DEF KillGate
<1>2. AcceptType'
  BY <1>1, StageNumbers DEF AcceptInv, AcceptType, IdleRunner, Sources
<1>3. AcceptGate' /\ AcceptRunner'
  BY <1>1 DEF AcceptInv, AcceptGate, AcceptRunner, IdleRunner
<1>4. QED BY <1>2, <1>3 DEF AcceptInv

(* Every step of an acceptance run keeps the invariant.                     *)
LEMMA AcceptSteps == AcceptInv /\ AcceptNext => AcceptInv'
<1> SUFFICES ASSUME AcceptInv, AcceptNext PROVE AcceptInv'
  OBVIOUS
<1>1. CASE EditTree
  <2>1. tree' \in Trees /\ gate' = gate /\ runner' = runner
    BY <1>1 DEF EditTree
  <2>2. QED BY <2>1 DEF AcceptInv, AcceptType, AcceptGate, AcceptRunner
<1>2. CASE \E start \in DOMAIN GateStages : ResumeGate(start)
  BY <1>2, ResumeGateKeeps
<1>3. QED BY <1>1, <1>2, StartGateKeeps, RunStageKeeps, RecordStageKeeps, PassGateKeeps,
            SealEvidenceKeeps, KillGateKeeps DEF AcceptNext

(* Neither a report nor a release touches an acceptance run.                *)
LEMMA AcceptStutters == AcceptInv /\ UNCHANGED acceptVars => AcceptInv'
  BY DEF AcceptInv, AcceptType, AcceptGate, AcceptRunner, acceptVars

(* The invariant says what a passed run is.                                 *)
LEMMA AcceptImplies == AcceptInv => GatePassedWhole
<1> SUFFICES ASSUME AcceptInv, gate.status = "passed", ~gate.skipped
             PROVE  /\ gate.stages = [i \in DOMAIN GateStages |-> [index |-> i, ok |-> TRUE,
                                                                   source |-> gate.source]]
                    /\ gate.source \notin DirtyTrees
  BY DEF GatePassedWhole
<1>1. /\ gate.stages \in Seq(GateResult) /\ InOrder(gate.stages, gate.source)
      /\ Len(gate.stages) = Len(GateStages) /\ AllPassed(gate.stages, Len(GateStages))
  BY DEF AcceptInv, AcceptType, AcceptGate
<1>2. DOMAIN gate.stages = DOMAIN GateStages
  BY <1>1, StageNumbers
<1>3. ASSUME NEW i \in DOMAIN GateStages
      PROVE  gate.stages[i] = [index |-> i, ok |-> TRUE, source |-> gate.source]
  <2>1. gate.stages[i] \in GateResult /\ gate.stages[i].index = i /\ gate.stages[i].ok
        /\ gate.stages[i].source = gate.source
    BY <1>1, <1>2, StageNumbers DEF AllPassed, InOrder
  <2>2. \A r \in GateResult : r.ok => r = [index |-> r.index, ok |-> TRUE, source |-> r.source]
    BY DEF GateResult
  <2>3. QED BY <2>1, <2>2
<1>4. gate.stages = [i \in DOMAIN GateStages |-> gate.stages[i]]
  BY <1>1, <1>2
<1>5. gate.source \notin DirtyTrees
  <2>1. 1 \in DOMAIN GateStages /\ GateStages[1] = "git-state"
    BY GateBounds, StageNumbers
  <2>2. gate.stages[1].ok /\ gate.stages[1].index = 1
    BY <2>1, <1>1, StageNumbers DEF AllPassed
  <2>3. QED BY <2>1, <2>2, <1>1, <1>2 DEF InOrder
<1>6. QED BY <1>3, <1>4, <1>5

----------------------------------------------------------------------------
(* The readiness report.                                                    *)
GateIds == {"root-license", "required-public-files-worktree", "required-public-files-head",
  "worktree-clean-for-public-prepare", "canonical-git-remote", "public-source-preparation-policy",
  "dependabot-inactive", "workflows-manual-only", "legacy-brand-zero", "version-drift",
  "component-license-map-owner-approval", "package-license-metadata", "git-inspection", "gh-cli"}
Outcome == GateIds \X BOOLEAN
Names(gates) == {gates[i][1] : i \in DOMAIN gates}
Blocked(gates) == \E i \in DOMAIN gates : gates[i][1] # "gh-cli" /\ ~gates[i][2]

WorktreeGates == {"root-license", "required-public-files-worktree"}
HeadGates == {"required-public-files-head", "worktree-clean-for-public-prepare",
              "canonical-git-remote"}
PolicyGates == {"public-source-preparation-policy"}
RestGates == {"dependabot-inactive", "workflows-manual-only", "legacy-brand-zero", "version-drift",
  "component-license-map-owner-approval", "package-license-metadata"}

ReadyType ==
    /\ facts \in ReadinessFacts /\ headAt \in {1, 2} /\ headMoves \in Nat
    /\ preflight \in [pc : {"worktree", "head", "list", "policy", "rest", "report", "done"},
                      gates : Seq(Outcome), head : 0..2, listed : 0..2,
                      report : {"none", "error", "pass", "blocked"}]

(* A gate that is passed over is passed over behind a failed inspection.    *)
ReadyGates ==
    /\ preflight.pc \in {"head", "list", "policy", "rest", "report"}
         => WorktreeGates \subseteq Names(preflight.gates)
    /\ preflight.pc \in {"policy", "rest", "report"} =>
           Blocked(preflight.gates) \/ HeadGates \subseteq Names(preflight.gates)
    /\ preflight.pc \in {"rest", "report"} =>
           Blocked(preflight.gates) \/ PolicyGates \subseteq Names(preflight.gates)
    /\ preflight.pc = "report" => RestGates \subseteq Names(preflight.gates)

(* Two commits are looked at only when HEAD moved, and once the policy has  *)
(* asked for the first one only when it moved back or the policy failed.    *)
ReadyHead ==
    /\ preflight.pc = "list" => preflight.head = headAt \/ headMoves >= 1
    /\ preflight.pc = "policy" =>
           \/ Blocked(preflight.gates) \/ preflight.listed = preflight.head \/ headMoves >= 2
           \/ headMoves >= 1 /\ headAt # preflight.head
    /\ preflight.pc \in {"rest", "report"} =>
           Blocked(preflight.gates) \/ preflight.listed = preflight.head \/ headMoves >= 2
ReadyDone ==
    preflight.report = "pass" =>
        /\ preflight.pc = "done" /\ HardGates \subseteq Names(preflight.gates)
        /\ preflight.listed = preflight.head \/ headMoves >= 2
ReadyInv == ReadyType /\ ReadyGates /\ ReadyHead /\ ReadyDone

(* A result names its gate and says whether it passed.                      *)
LEMMA Outcomes == \A id \in GateIds, ok \in BOOLEAN : Result(id, ok) \in Outcome
BY DEF Result, Outcome

(* So what one step pushes is a list of results.                            *)
LEMMA OutcomeLists ==
    ASSUME NEW a \in Outcome, NEW b \in Outcome, NEW c \in Outcome, NEW d \in Outcome,
           NEW e \in Outcome, NEW f \in Outcome, NEW g \in Outcome
    PROVE  /\ <<a>> \in Seq(Outcome) /\ <<a, b>> \in Seq(Outcome) /\ <<a, b, c>> \in Seq(Outcome)
           /\ <<a, b, c, d, e, f, g>> \in Seq(Outcome)
OBVIOUS

(* What is pushed comes on top of what was there.                           *)
LEMMA Pushed ==
    ASSUME NEW gates \in Seq(Outcome), NEW more \in Seq(Outcome)
    PROVE  /\ gates \o more \in Seq(Outcome)
           /\ Names(gates \o more) = Names(gates) \union Names(more)
           /\ Blocked(gates) \/ Blocked(more) => Blocked(gates \o more)
<1> DEFINE all == gates \o more
           n == Len(gates)
           m == Len(more)
<1>1. n \in Nat /\ m \in Nat /\ DOMAIN gates = 1..n /\ DOMAIN more = 1..m
  OBVIOUS
<1>2. /\ all \in Seq(Outcome) /\ Len(all) = n + m
      /\ \A i \in 1..(n + m) : all[i] = IF i <= n THEN gates[i] ELSE more[i - n]
  BY ConcatProperties
<1> HIDE DEF all, n, m
<1>3. DOMAIN all = 1..(n + m)
  BY <1>2, <1>1
<1>4. \A i \in DOMAIN gates : i \in DOMAIN all /\ all[i] = gates[i]
  BY <1>1, <1>2, <1>3
<1>5. \A i \in DOMAIN more : i + n \in DOMAIN all /\ all[i + n] = more[i]
  BY <1>1, <1>2, <1>3
<1>6. \A i \in DOMAIN all : (i \in DOMAIN gates /\ all[i] = gates[i])
                              \/ (i - n \in DOMAIN more /\ all[i] = more[i - n])
  BY <1>1, <1>2, <1>3
<1>7. Names(all) = Names(gates) \union Names(more)
  BY <1>4, <1>5, <1>6 DEF Names
<1>8. Blocked(gates) \/ Blocked(more) => Blocked(all)
  BY <1>4, <1>5 DEF Blocked
<1>9. QED BY <1>2, <1>7, <1>8 DEF all

(* The steps that push gates and change nothing else but the place.         *)
LEMMA PushKeepsType ==
    ASSUME ReadyInv, NEW more \in Seq(Outcome),
           NEW pc \in {"head", "policy", "rest", "report"}, Push(more, pc),
           UNCHANGED <<facts, headAt, headMoves>>
    PROVE  /\ ReadyType' /\ preflight'.pc = pc /\ preflight'.gates = preflight.gates \o more
           /\ preflight'.head = preflight.head /\ preflight'.listed = preflight.listed
           /\ preflight'.report = preflight.report
           /\ Names(preflight'.gates) = Names(preflight.gates) \union Names(more)
           /\ Blocked(preflight.gates) \/ Blocked(more) => Blocked(preflight'.gates)
<1> DEFINE all == preflight.gates \o more
<1>1. preflight.gates \in Seq(Outcome)
  BY DEF ReadyInv, ReadyType
<1>2. /\ all \in Seq(Outcome) /\ Names(all) = Names(preflight.gates) \union Names(more)
      /\ Blocked(preflight.gates) \/ Blocked(more) => Blocked(all)
  BY <1>1, Pushed
<1>3. preflight' = [pc |-> pc, gates |-> all, head |-> preflight.head, listed |-> preflight.listed,
                    report |-> preflight.report]
  BY DEF Push, ReadyInv, ReadyType
<1> HIDE DEF all
<1>4. ReadyType'
  BY <1>2, <1>3 DEF ReadyInv, ReadyType
<1>5. QED BY <1>2, <1>3, <1>4 DEF all

(* No report is there at the start.                                         *)
LEMMA ReadyStart == ReadyInit => ReadyInv
<1> SUFFICES ASSUME ReadyInit PROVE ReadyInv
  OBVIOUS
<1>1. <<>> \in Seq(Outcome)
  OBVIOUS
<1>2. ReadyType
  BY <1>1 DEF ReadyInit, ReadyType
<1>3. ReadyGates /\ ReadyHead /\ ReadyDone
  BY DEF ReadyInit, ReadyGates, ReadyHead, ReadyDone
<1>4. QED BY <1>2, <1>3 DEF ReadyInv

(* The gates about the working tree are the first in the report.            *)
LEMMA CheckWorktreeKeeps == ReadyInv /\ CheckWorktree => ReadyInv'
<1> SUFFICES ASSUME ReadyInv, CheckWorktree PROVE ReadyInv'
  OBVIOUS
<1> DEFINE more == <<Result("root-license", facts.rootPinned),
                     Result("required-public-files-worktree", facts.present)>>
<1>1. facts.rootPinned \in BOOLEAN /\ facts.present \in BOOLEAN
  BY GateBounds DEF ReadyInv, ReadyType, FoundFacts
<1>2. more \in Seq(Outcome) /\ WorktreeGates \subseteq Names(more)
  <2>1. more \in Seq(Outcome)
    <3>1. /\ Result("root-license", facts.rootPinned) \in Outcome
          /\ Result("required-public-files-worktree", facts.present) \in Outcome
      BY <1>1, Outcomes DEF GateIds
    <3>2. QED BY <3>1, OutcomeLists
  <2>2. more[1][1] = "root-license" /\ more[2][1] = "required-public-files-worktree"
        /\ DOMAIN more = {1, 2}
    BY DEF Result
  <2> HIDE DEF more
  <2>3. QED BY <2>1, <2>2 DEF Names, WorktreeGates
<1>3. Push(more, "head") /\ preflight.pc = "worktree" /\ UNCHANGED <<facts, headAt, headMoves>>
  BY DEF CheckWorktree
<1> HIDE DEF more
<1>4. /\ ReadyType' /\ preflight'.pc = "head" /\ preflight'.report = preflight.report
      /\ Names(preflight'.gates) = Names(preflight.gates) \union Names(more)
  BY <1>2, <1>3, PushKeepsType
<1>5. ReadyGates' /\ ReadyHead' /\ ReadyDone'
  BY <1>2, <1>3, <1>4 DEF ReadyInv, ReadyGates, ReadyHead, ReadyDone
<1>6. QED BY <1>4, <1>5 DEF ReadyInv

(* HEAD is read once.                                                       *)
LEMMA ReadHeadKeeps == ReadyInv /\ ReadHead => ReadyInv'
<1> SUFFICES ASSUME ReadyInv, ReadHead PROVE ReadyInv'
  OBVIOUS
<1>1. /\ preflight' = [pc |-> "list", gates |-> preflight.gates, head |-> headAt,
                       listed |-> preflight.listed,
                       report |-> preflight.report]
      /\ preflight.pc = "head"
      /\ UNCHANGED <<facts, headAt, headMoves>>
  BY DEF ReadHead, ReadyInv, ReadyType
<1>2. ReadyType'
  BY <1>1 DEF ReadyInv, ReadyType
<1>3. ReadyGates' /\ ReadyHead' /\ ReadyDone'
  BY <1>1 DEF ReadyInv, ReadyGates, ReadyHead, ReadyDone
<1>4. QED BY <1>2, <1>3 DEF ReadyInv

(* The gates about HEAD follow.                                             *)
LEMMA ListHeadKeeps == ReadyInv /\ ListHead => ReadyInv'
<1> SUFFICES ASSUME ReadyInv, ListHead PROVE ReadyInv'
  OBVIOUS
<1> DEFINE more == <<Result("required-public-files-head", headAt \in facts.complete),
                     Result("worktree-clean-for-public-prepare", facts.clean),
                     Result("canonical-git-remote", facts.origin)>>
           all == preflight.gates \o more
<1>1. facts.clean \in BOOLEAN /\ facts.origin \in BOOLEAN /\ (headAt \in facts.complete) \in BOOLEAN
  BY GateBounds DEF ReadyInv, ReadyType, FoundFacts
<1>2. more \in Seq(Outcome) /\ HeadGates \subseteq Names(more)
  <2>1. more \in Seq(Outcome)
    <3>1. /\ Result("required-public-files-head", headAt \in facts.complete) \in Outcome
          /\ Result("worktree-clean-for-public-prepare", facts.clean) \in Outcome
          /\ Result("canonical-git-remote", facts.origin) \in Outcome
      BY <1>1, Outcomes DEF GateIds
    <3>2. QED BY <3>1, OutcomeLists
  <2>2. /\ more[1][1] = "required-public-files-head"
        /\ more[2][1] = "worktree-clean-for-public-prepare"
        /\ more[3][1] = "canonical-git-remote" /\ DOMAIN more = {1, 2, 3}
    BY DEF Result
  <2> HIDE DEF more
  <2>3. QED BY <2>1, <2>2 DEF Names, HeadGates
<1>3. /\ all \in Seq(Outcome) /\ Names(all) = Names(preflight.gates) \union Names(more)
      /\ Blocked(preflight.gates) => Blocked(all)
  <2>1. preflight.gates \in Seq(Outcome)
    BY DEF ReadyInv, ReadyType
  <2> HIDE DEF more
  <2>2. QED BY <2>1, <1>2, Pushed
<1> HIDE DEF more
<1>4. /\ preflight' = [pc |-> "policy", gates |-> all, head |-> preflight.head, listed |-> headAt,
                       report |-> preflight.report]
      /\ preflight.pc = "list"
      /\ UNCHANGED <<facts, headAt, headMoves>>
  BY DEF ListHead, ReadyInv, ReadyType, more
<1> HIDE DEF all
<1>5. ReadyType'
  BY <1>3, <1>4 DEF ReadyInv, ReadyType
<1>6. ReadyGates' /\ ReadyHead' /\ ReadyDone'
  BY <1>2, <1>3, <1>4 DEF ReadyInv, ReadyGates, ReadyHead, ReadyDone
<1>7. QED BY <1>5, <1>6 DEF ReadyInv

(* Where Git fails, the report ends.                                        *)
LEMMA GitFailsKeeps == ReadyInv /\ GitFails => ReadyInv'
<1> SUFFICES ASSUME ReadyInv, GitFails PROVE ReadyInv'
  OBVIOUS
<1> DEFINE more == <<Result("git-inspection", FALSE)>>
           pc == IF preflight.pc = "head" THEN "rest" ELSE "policy"
<1>1. more \in Seq(Outcome) /\ Blocked(more)
  <2>1. more \in Seq(Outcome)
    <3>1. Result("git-inspection", FALSE) \in Outcome
      BY Outcomes DEF GateIds
    <3>2. QED BY <3>1, OutcomeLists
  <2>2. more[1][1] = "git-inspection" /\ more[1][2] = FALSE /\ 1 \in DOMAIN more
    BY DEF Result
  <2>3. QED BY <2>1, <2>2 DEF Blocked
<1>2. Push(more, pc) /\ preflight.pc \in {"head", "list"} /\ UNCHANGED <<facts, headAt, headMoves>>
      /\ pc \in {"rest", "policy"}
  BY DEF GitFails
<1> HIDE DEF more, pc
<1>3. /\ ReadyType' /\ preflight'.pc = pc /\ preflight'.report = preflight.report
      /\ Names(preflight'.gates) = Names(preflight.gates) \union Names(more)
      /\ Blocked(preflight'.gates)
  BY <1>1, <1>2, PushKeepsType
<1>4. ReadyGates' /\ ReadyHead' /\ ReadyDone'
  BY <1>2, <1>3 DEF ReadyInv, ReadyGates, ReadyHead, ReadyDone
<1>5. QED BY <1>3, <1>4 DEF ReadyInv

(* The gate about the public-source policy follows.                         *)
LEMMA InspectPolicyKeeps == ReadyInv /\ InspectPolicy => ReadyInv'
<1> SUFFICES ASSUME ReadyInv, InspectPolicy PROVE ReadyInv'
  OBVIOUS
<1> DEFINE more == <<Result("public-source-preparation-policy", PolicyHolds)>>
<1>1. PolicyHolds \in BOOLEAN
  BY DEF PolicyHolds
<1>2. /\ more \in Seq(Outcome) /\ PolicyGates \subseteq Names(more)
      /\ ~PolicyHolds => Blocked(more)
  <2>1. more \in Seq(Outcome)
    <3>1. Result("public-source-preparation-policy", PolicyHolds) \in Outcome
      BY <1>1, Outcomes DEF GateIds
    <3>2. QED BY <3>1, OutcomeLists
  <2>2. more[1][1] = "public-source-preparation-policy" /\ more[1][2] = PolicyHolds
        /\ DOMAIN more = {1}
    BY DEF Result
  <2> HIDE DEF more
  <2>3. QED BY <2>1, <2>2, <1>1 DEF Names, Blocked, PolicyGates
<1>3. Push(more, "rest") /\ preflight.pc = "policy" /\ UNCHANGED <<facts, headAt, headMoves>>
  BY DEF InspectPolicy
<1>4. PolicyHolds => headAt = preflight.head
  BY DEF PolicyHolds
<1> HIDE DEF more
<1>5. /\ ReadyType' /\ preflight'.pc = "rest" /\ preflight'.report = preflight.report
      /\ preflight'.head = preflight.head /\ preflight'.listed = preflight.listed
      /\ Names(preflight'.gates) = Names(preflight.gates) \union Names(more)
      /\ Blocked(preflight.gates) \/ Blocked(more) => Blocked(preflight'.gates)
  BY <1>2, <1>3, PushKeepsType
<1>6. ReadyGates'
  BY <1>2, <1>3, <1>5 DEF ReadyInv, ReadyGates
<1>7. ReadyHead' /\ ReadyDone'
  BY <1>2, <1>3, <1>4, <1>5 DEF ReadyInv, ReadyHead, ReadyDone
<1>8. QED BY <1>5, <1>6, <1>7 DEF ReadyInv

(* The other gates follow.                                                  *)
LEMMA CheckRestKeeps == ReadyInv /\ CheckRest => ReadyInv'
<1> SUFFICES ASSUME ReadyInv, CheckRest PROVE ReadyInv'
  OBVIOUS
<1> DEFINE more == <<Result("dependabot-inactive", facts.dependabot),
                     Result("workflows-manual-only", facts.workflows),
               Result("legacy-brand-zero", facts.brand),
               Result("version-drift", NoVersionDrift(facts)),
               Result("component-license-map-owner-approval", MappingComplete(facts)),
               Result("package-license-metadata", PackagesLicensed(facts)),
               Result("gh-cli", facts.gh)>>
<1>1. preflight.pc = "rest" /\ UNCHANGED <<facts, headAt, headMoves>>
  BY DEF CheckRest
<1>2. CASE Push(more, "report")
  <2>1. /\ facts.dependabot \in BOOLEAN /\ facts.workflows \in BOOLEAN /\ facts.brand \in BOOLEAN
        /\ facts.gh \in BOOLEAN
    BY GateBounds DEF ReadyInv, ReadyType, FoundFacts
  <2>2. NoVersionDrift(facts) \in BOOLEAN /\ MappingComplete(facts) \in BOOLEAN
        /\ PackagesLicensed(facts) \in BOOLEAN
    BY DEF NoVersionDrift, MappingComplete, PackagesLicensed
  <2>3. more \in Seq(Outcome)
    <3>1. /\ Result("dependabot-inactive", facts.dependabot) \in Outcome
          /\ Result("workflows-manual-only", facts.workflows) \in Outcome
          /\ Result("legacy-brand-zero", facts.brand) \in Outcome
          /\ Result("version-drift", NoVersionDrift(facts)) \in Outcome
          /\ Result("component-license-map-owner-approval", MappingComplete(facts)) \in Outcome
          /\ Result("package-license-metadata", PackagesLicensed(facts)) \in Outcome
          /\ Result("gh-cli", facts.gh) \in Outcome
      BY <2>1, <2>2, Outcomes DEF GateIds
    <3>2. QED BY <3>1, OutcomeLists
  <2>4. RestGates \subseteq Names(more)
    <3>1. /\ more[1][1] = "dependabot-inactive" /\ more[2][1] = "workflows-manual-only"
          /\ more[3][1] = "legacy-brand-zero" /\ more[4][1] = "version-drift"
          /\ more[5][1] = "component-license-map-owner-approval"
          /\ more[6][1] = "package-license-metadata"
      BY DEF Result
    <3>2. {1, 2, 3, 4, 5, 6} \subseteq DOMAIN more
      OBVIOUS
    <3> HIDE DEF more
    <3>3. QED BY <3>1, <3>2 DEF Names, RestGates
  <2> HIDE DEF more
  <2>5. /\ ReadyType' /\ preflight'.pc = "report" /\ preflight'.report = preflight.report
        /\ preflight'.head = preflight.head /\ preflight'.listed = preflight.listed
        /\ Names(preflight'.gates) = Names(preflight.gates) \union Names(more)
        /\ Blocked(preflight.gates) \/ Blocked(more) => Blocked(preflight'.gates)
    BY <1>1, <1>2, <2>3, PushKeepsType
  <2>6. ReadyGates' /\ ReadyHead' /\ ReadyDone'
    BY <1>1, <2>4, <2>5 DEF ReadyInv, ReadyGates, ReadyHead, ReadyDone
  <2>7. QED BY <2>5, <2>6 DEF ReadyInv
<1>3. CASE preflight' = [preflight EXCEPT !.pc = "done", !.report = "error"]
  <2>1. preflight' = [pc |-> "done", gates |-> preflight.gates, head |-> preflight.head,
                      listed |-> preflight.listed, report |-> "error"]
    BY <1>3 DEF ReadyInv, ReadyType
  <2>2. ReadyType'
    BY <1>1, <2>1 DEF ReadyInv, ReadyType
  <2>3. ReadyGates' /\ ReadyHead' /\ ReadyDone'
    BY <1>1, <2>1 DEF ReadyInv, ReadyGates, ReadyHead, ReadyDone
  <2>4. QED BY <2>2, <2>3 DEF ReadyInv
<1>4. QED BY <1>2, <1>3 DEF CheckRest

(* The report says what its gates say.                                      *)
LEMMA ReportKeeps == ReadyInv /\ Report => ReadyInv'
<1> SUFFICES ASSUME ReadyInv, Report PROVE ReadyInv'
  OBVIOUS
<1> DEFINE passes == \A i \in DOMAIN preflight.gates : preflight.gates[i][1] = "gh-cli"
      \/ preflight.gates[i][2]
           report == IF passes THEN "pass" ELSE "blocked"
<1>1. /\ preflight.pc = "report" /\ UNCHANGED <<facts, headAt, headMoves>>
      /\ preflight' = [preflight EXCEPT !.pc = "done", !.report = report]
  BY DEF Report
<1>2. (report = "pass" => ~Blocked(preflight.gates)) /\ report \in {"pass", "blocked"}
  BY DEF Blocked
<1> HIDE DEF passes, report
<1>3. preflight' = [pc |-> "done", gates |-> preflight.gates, head |-> preflight.head,
                    listed |-> preflight.listed, report |-> report]
  BY <1>1 DEF ReadyInv, ReadyType
<1>4. ReadyType'
  BY <1>1, <1>2, <1>3 DEF ReadyInv, ReadyType
<1>5. ~Blocked(preflight.gates) => HardGates \subseteq Names(preflight.gates)
  BY <1>1 DEF ReadyInv, ReadyGates, HardGates, WorktreeGates, HeadGates, PolicyGates, RestGates
<1>6. ReadyGates' /\ ReadyHead' /\ ReadyDone'
  BY <1>1, <1>2, <1>3, <1>5 DEF ReadyInv, ReadyGates, ReadyHead, ReadyDone
<1>7. QED BY <1>4, <1>6 DEF ReadyInv

(* HEAD moves, and the report keeps the commit it has read.                 *)
LEMMA MoveHeadKeeps == ReadyInv /\ MoveHead => ReadyInv'
<1> SUFFICES ASSUME ReadyInv, MoveHead PROVE ReadyInv'
  OBVIOUS
<1>1. /\ preflight' = preflight /\ facts' = facts /\ headMoves' = headMoves + 1 /\ headMoves \in Nat
      /\ headAt \in {1, 2} /\ headAt' \in {1, 2} \ {headAt} /\ preflight.head \in 0..2
  BY DEF MoveHead, ReadyInv, ReadyType
<1>2. ReadyType' /\ ReadyGates'
  BY <1>1 DEF ReadyInv, ReadyType, ReadyGates
<1>3. ReadyHead' /\ ReadyDone'
  BY <1>1 DEF ReadyInv, ReadyHead, ReadyDone
<1>4. QED BY <1>2, <1>3 DEF ReadyInv

(* Every step of a report keeps the invariant.                              *)
LEMMA ReadySteps == ReadyInv /\ ReadyNext => ReadyInv'
BY CheckWorktreeKeeps, ReadHeadKeeps, ListHeadKeeps, GitFailsKeeps, InspectPolicyKeeps,
    CheckRestKeeps,
   ReportKeeps, MoveHeadKeeps DEF ReadyNext

(* Neither an acceptance run nor a release touches a report.                *)
LEMMA ReadyStutters == ReadyInv /\ UNCHANGED readyVars => ReadyInv'
BY DEF ReadyInv, ReadyType, ReadyGates, ReadyHead, ReadyDone, readyVars

(* The invariant says what a passing report is.                             *)
LEMMA ReadyImplies == ReadyInv => ReportWhole
BY DEF ReadyInv, ReadyType, ReadyDone, ReportWhole, Names
----------------------------------------------------------------------------
(* The release.                                                             *)
Identified == {"gate", "build", "assemble", "assembled", "publish", "published"}
Gated == Identified \ {"gate"}
Built == Gated \ {"build"}
OnItsWay == {"publish", "published"}

(* A release keeps its case, and moves through these places.                *)
ReleaseType ==
    /\ release = [pc |-> release.pc, case |-> release.case, status |-> release.status,
                  metadata |-> release.metadata, manifest |-> release.manifest]
    /\ release.case \in ReleaseCases
    /\ release.pc \in {"identity", "refused"} \union Identified

(* What the gates passed so far say about the case.                         *)
MediaMatches(c) ==
    \A i \in DOMAIN c.lock.components : c.lock.components[i].extracted \in {0, c.binaries[i]}
ReleaseGated ==
    /\ release.pc \in Identified => IdentityHolds(release.case)
    /\ release.pc \in Gated => GateHolds(release.case)
    /\ release.pc \in Built => release.case.scope = "desktop-lite" \/ MediaMatches(release.case)

(* What the metadata say about the signatures.                              *)
SigningSaid(c, metadata) ==
    /\ metadata.latest => c.channel = "stable"
         /\ \A i \in DOMAIN c.receipts : c.receipts[i].status # "unsigned"
    /\ (\E i \in DOMAIN c.receipts : c.receipts[i].status = "unsigned") => metadata.preview
ReleaseSigned ==
    release.pc \in OnItsWay => release.case.publish /\ SigningSaid(release.case, release.metadata)
ReleaseMatched ==
    release.pc = "published" => release.status.files = Listed(ExpectedAssets(release.case.scope),
                                                              assets)
ReleaseInv == ReleaseType /\ ReleaseGated /\ ReleaseSigned /\ ReleaseMatched

(* No platform is listed twice.                                             *)
LEMMA PlatformsDiffer ==
    ASSUME NEW scope
    PROVE  /\ Len(PlatformsOf(scope)) \in Nat
           /\ DOMAIN PlatformsOf(scope) = 1..Len(PlatformsOf(scope))
           /\ \A i, j \in DOMAIN PlatformsOf(scope) :
                  PlatformsOf(scope)[i] = PlatformsOf(scope)[j] => i = j
<1>1. /\ Len(Lite) = 1 /\ DOMAIN Lite = 1..1
      /\ \A i, j \in DOMAIN Lite : Lite[i] = Lite[j] => i = j
  BY DEF Lite
<1>2. Len(Full) = 4 /\ DOMAIN Full = 1..4
  BY DEF Full
<1>3. /\ Full[1] = "windows/x64" /\ Full[2] = "macos/x64" /\ Full[3] = "macos/arm64"
      /\ Full[4] = "linux/x64"
  BY DEF Full
<1>4. \A i, j \in 1..4 : Full[i] = Full[j] => i = j
  <2>1. \A i \in 1..4 : i = 1 \/ i = 2 \/ i = 3 \/ i = 4
    OBVIOUS
  <2>2. QED BY <1>3, <2>1
<1>5. PlatformsOf(scope) = Lite \/ PlatformsOf(scope) = Full
  BY DEF PlatformsOf
<1>6. CASE PlatformsOf(scope) = Lite
  BY <1>1, <1>6
<1>7. CASE PlatformsOf(scope) = Full
  <2>1. /\ Len(Full) \in Nat /\ DOMAIN Full = 1..Len(Full)
        /\ \A i, j \in DOMAIN Full : Full[i] = Full[j] => i = j
    BY <1>2, <1>4
  <2>2. QED BY <2>1, <1>7
<1>8. QED BY <1>5, <1>6, <1>7

(* As many receipts as platforms, for all the platforms: one for each.      *)
LEMMA OneReceiptEach ==
    ASSUME NEW c \in ReleaseCases, ReceiptsHold(c)
    PROVE  \A i, j \in DOMAIN c.receipts : c.receipts[i].platform = c.receipts[j].platform => i = j
<1> DEFINE n == Len(PlatformsOf(c.scope))
           P == {PlatformsOf(c.scope)[i] : i \in DOMAIN PlatformsOf(c.scope)}
           listed == [i \in 1..n |-> PlatformsOf(c.scope)[i]]
           received == [i \in 1..n |-> c.receipts[i].platform]
<1>1. n \in Nat /\ DOMAIN PlatformsOf(c.scope) = 1..n /\ DOMAIN c.receipts = 1..n
  BY PlatformsDiffer, ReleaseCasesSound DEF ReceiptsHold
<1>2. IsFiniteSet(1..n)
  BY <1>1, IntervalFromOne, Zenon
<1>3. listed \in Surjection(1..n, P) /\ listed \in Injection(1..n, P)
  BY <1>1, PlatformsDiffer DEF Surjection, Injection, IsInjective
<1>4. P = {c.receipts[i].platform : i \in DOMAIN c.receipts}
  BY DEF ReceiptsHold
<1>5. received \in Surjection(1..n, P)
  <2>1. \A i \in 1..n : received[i] \in P
    BY <1>1, <1>4
  <2>2. \A p \in P : \E i \in 1..n : received[i] = p
    BY <1>1, <1>4
  <2> HIDE DEF P, n
  <2>3. received \in [1..n -> P]
    BY <2>1
  <2>4. QED BY <2>2, <2>3 DEF Surjection
<1> HIDE DEF P, n, listed
<1>6. Cardinality(1..n) = Cardinality(P)
  BY <1>2, <1>3, FS_Surjection
<1>7. received \in Injection(1..n, P)
  <2> HIDE DEF received
  <2>1. QED BY <1>2, <1>5, <1>6, FS_Surjection
<1>8. QED BY <1>1, <1>7 DEF Injection, IsInjective

(* So an unsigned receipt is seen by the status and said by the metadata.   *)
LEMMA UnsignedSaid ==
    ASSUME NEW c \in ReleaseCases, NEW files, ReceiptsHold(c),
           MetadataOf(c, StatusOf(c, files)) # NoEvidence
    PROVE  SigningSaid(c, MetadataOf(c, StatusOf(c, files)))
<1> DEFINE status == StatusOf(c, files)
           platforms == status.platforms
<1>1. status.signed = AllVerified(platforms)
  BY DEF StatusOf
<1>2. \A j \in DOMAIN PlatformsOf(c.scope) :
         /\ j \in DOMAIN platforms
         /\ platforms[j].receipt =
              c.receipts[CHOOSE i \in DOMAIN c.receipts :
                           c.receipts[i].platform = PlatformsOf(c.scope)[j]]
  BY DEF StatusOf
<1>3. ASSUME NEW i \in DOMAIN c.receipts, c.receipts[i].status = "unsigned"
      PROVE status.signed = FALSE
  <2>1. PICK j \in DOMAIN PlatformsOf(c.scope) : PlatformsOf(c.scope)[j] = c.receipts[i].platform
    BY DEF ReceiptsHold
  <2> DEFINE k == CHOOSE k \in DOMAIN c.receipts : c.receipts[k].platform = PlatformsOf(c.scope)[j]
  <2>2. k \in DOMAIN c.receipts /\ c.receipts[k].platform = c.receipts[i].platform
    BY <2>1
  <2>3. k = i
    BY <2>2, OneReceiptEach
  <2>4. platforms[j].receipt = c.receipts[i] /\ j \in DOMAIN platforms
    BY <1>2, <2>3
  <2>5. c.receipts[i].platform \in SignedPlatforms
    BY <1>3 DEF ReceiptsHold, ReceiptHolds
  <2> HIDE DEF platforms, status
  <2>6. ~AllVerified(platforms)
    BY <1>3, <2>4, <2>5 DEF AllVerified
  <2>7. QED BY <1>1, <2>6
<1>4. status.signed \in BOOLEAN
  BY <1>1 DEF AllVerified
<1> HIDE DEF status
<1>5. /\ ~(c.channel = "stable" /\ ~status.signed)
      /\ MetadataOf(c, status) = [preview |-> ~status.signed /\ c.channel # "stable",
                                  prerelease |-> c.channel # "stable",
                                  latest |-> c.channel = "stable"]
  BY DEF MetadataOf, status
<1> DEFINE metadata == MetadataOf(c, status)
<1>6. metadata.latest = (c.channel = "stable")
      /\ metadata.preview = (~status.signed /\ c.channel # "stable")
  BY <1>5
<1>7. SigningSaid(c, metadata)
  <2> HIDE DEF metadata
  <2>1. CASE \E i \in DOMAIN c.receipts : c.receipts[i].status = "unsigned"
    <3>1. ~status.signed /\ c.channel # "stable"
      BY <1>3, <1>5, <2>1
    <3>2. metadata.latest = FALSE /\ metadata.preview = TRUE
      BY <1>6, <3>1
    <3>3. QED BY <3>2 DEF SigningSaid
  <2>2. CASE ~\E i \in DOMAIN c.receipts : c.receipts[i].status = "unsigned"
    BY <1>6, <2>2 DEF SigningSaid
  <2>3. QED BY <2>1, <2>2
<1>8. QED BY <1>7 DEF status

(* A manifest that holds was built, so its binaries are as locked.          *)
LEMMA ManifestMatches ==
    ASSUME NEW c, ManifestHolds(c, MediaManifest(c))
    PROVE  MediaMatches(c)
BY DEF ManifestHolds, MediaManifest, MediaMatches

(* The full portable archive is only among the files of the full scope.     *)
LEMMA PortableFull ==
    ASSUME NEW scope, "portable-full.zip" \in ExpectedAssets(scope)
    PROVE  scope = "desktop-full"
<1>1. SUFFICES ASSUME scope # "desktop-full" PROVE FALSE
  OBVIOUS
<1>2. "portable-full.zip" \notin Kit
  BY DEF Kit
<1>3. PICK i \in DOMAIN PlatformsOf(scope) : "portable-full.zip" \in FilesOf(PlatformsOf(scope)[i],
                                                                             scope)
  BY <1>2 DEF ExpectedAssets
<1>4. PlatformsOf(scope)[i] \in {"windows/x64", "macos/x64", "macos/arm64", "linux/x64"}
  <2>1. PlatformsOf(scope) = Lite \/ PlatformsOf(scope) = Full
    BY DEF PlatformsOf
  <2>2. \A k \in DOMAIN Lite : Lite[k] = "windows/x64"
    BY DEF Lite
  <2>3. \A k \in DOMAIN Full : Full[k] \in {"windows/x64", "macos/x64", "macos/arm64", "linux/x64"}
    <3>1. /\ DOMAIN Full = 1..4 /\ Full[1] = "windows/x64" /\ Full[2] = "macos/x64"
          /\ Full[3] = "macos/arm64" /\ Full[4] = "linux/x64"
      BY DEF Full
    <3>2. \A k \in 1..4 : k = 1 \/ k = 2 \/ k = 3 \/ k = 4
      OBVIOUS
    <3>3. QED BY <3>1, <3>2
  <2>4. QED BY <2>1, <2>2, <2>3
<1>5. ASSUME NEW p \in {"windows/x64", "macos/x64", "macos/arm64", "linux/x64"}
      PROVE  "portable-full.zip" \notin FilesOf(p, scope)
  BY <1>1 DEF FilesOf
<1>6. QED BY <1>3, <1>4, <1>5

----------------------------------------------------------------------------
(* The steps of a release.                                                  *)

(* A gate lets the release through or refuses it, and leaves the rest.      *)
LEMMA GateMoves ==
    ASSUME ReleaseType, NEW holds, NEW pc, ReleaseGoes(holds, pc)
    PROVE  release' = [pc |-> IF holds THEN pc ELSE "refused", case |-> release.case,
                       status |-> release.status,
                       metadata |-> release.metadata, manifest |-> release.manifest]
BY DEF ReleaseType, ReleaseGoes

(* A refused release promises nothing.                                      *)
LEMMA Refused ==
    ASSUME ReleaseInv, release'.pc = "refused", release'.case = release.case,
           release' = [pc |-> release'.pc, case |-> release'.case, status |-> release'.status,
                       metadata |-> release'.metadata, manifest |-> release'.manifest]
    PROVE  ReleaseInv'
BY DEF ReleaseInv, ReleaseType, ReleaseGated, ReleaseSigned, ReleaseMatched, Identified, Gated,
    Built, OnItsWay

(* A release begins at its identity.                                        *)
LEMMA ReleaseStart == ReleaseInit => ReleaseInv
BY DEF ReleaseInit, ReleaseInv, ReleaseType, ReleaseGated, ReleaseSigned, ReleaseMatched,
    Identified, Gated,
       Built, OnItsWay

(* The identity gate (release-metadata.mjs).                                *)
LEMMA CheckIdentityKeeps == ReleaseInv /\ CheckIdentity => ReleaseInv'
<1> SUFFICES ASSUME ReleaseInv, CheckIdentity PROVE ReleaseInv'
  OBVIOUS
<1> DEFINE c == release.case
<1>1. release' = [pc |-> IF IdentityHolds(c) THEN "gate" ELSE "refused", case |-> c,
                  status |-> release.status, metadata |-> release.metadata,
                  manifest |-> release.manifest]
  BY GateMoves DEF CheckIdentity, ReleaseInv
<1>2. CASE IdentityHolds(c)
  BY <1>1, <1>2 DEF ReleaseInv, ReleaseType, ReleaseGated, ReleaseSigned, ReleaseMatched,
      Identified, Gated,
     Built, OnItsWay
<1>3. CASE ~IdentityHolds(c)
  BY <1>1, <1>3, Refused
<1>4. QED BY <1>2, <1>3

(* The publish gate (release-publish-gate.mjs).                             *)
LEMMA CheckGateKeeps == ReleaseInv /\ CheckGate => ReleaseInv'
<1> SUFFICES ASSUME ReleaseInv, CheckGate PROVE ReleaseInv'
  OBVIOUS
<1> DEFINE c == release.case
<1>1. /\ release.pc = "gate"
      /\ release' = [pc |-> IF GateHolds(c) THEN "build" ELSE "refused", case |-> c,
                  status |-> release.status, metadata |-> release.metadata,
                  manifest |-> release.manifest]
  BY GateMoves DEF CheckGate, ReleaseInv
<1>2. CASE GateHolds(c)
  BY <1>1, <1>2 DEF ReleaseInv, ReleaseType, ReleaseGated, ReleaseSigned, ReleaseMatched,
      Identified, Gated,
     Built, OnItsWay
<1>3. CASE ~GateHolds(c)
  BY <1>1, <1>3, Refused
<1>4. QED BY <1>2, <1>3

(* The media manifest (release-metadata-media.mjs).                         *)
LEMMA BuildManifestKeeps == ReleaseInv /\ BuildManifest => ReleaseInv'
<1> SUFFICES ASSUME ReleaseInv, BuildManifest PROVE ReleaseInv'
  OBVIOUS
<1> DEFINE c == release.case
           manifest == IF c.scope = "desktop-full" THEN MediaManifest(c) ELSE NoEvidence
           pc == IF c.scope = "desktop-lite" \/ ManifestHolds(c, manifest) THEN "assemble"
                 ELSE "refused"
<1>1. /\ release.pc = "build"
      /\ release' = [release EXCEPT !.manifest = manifest, !.pc = pc]
  BY DEF BuildManifest
<1>2. pc = "assemble" => c.scope = "desktop-lite" \/ MediaMatches(c)
  BY ManifestMatches DEF ManifestHolds
<1>3. pc \in {"assemble", "refused"}
  OBVIOUS
<1> HIDE DEF manifest, pc
<1>4. release' = [pc |-> pc, case |-> c, status |-> release.status, metadata |-> release.metadata,
                  manifest |-> manifest]
  BY <1>1 DEF ReleaseInv, ReleaseType
<1>5. CASE pc = "assemble"
  BY <1>1, <1>2, <1>4, <1>5 DEF ReleaseInv, ReleaseType, ReleaseGated, ReleaseSigned,
      ReleaseMatched,
     Identified, Gated, Built, OnItsWay
<1>6. CASE pc = "refused"
  BY <1>4, <1>6, Refused
<1>7. QED BY <1>3, <1>5, <1>6

(* The status is aggregated and the metadata written                        *)
(* (release-signing-status.mjs, release-metadata.mjs).                      *)
LEMMA AssembleKeeps == ReleaseInv /\ Assemble => ReleaseInv'
<1> SUFFICES ASSUME ReleaseInv, Assemble PROVE ReleaseInv'
  OBVIOUS
<1> DEFINE c == release.case
           status == StatusOf(c, assets)
           metadata == MetadataOf(c, status)
           pc == IF metadata = NoEvidence THEN "refused" ELSE IF c.publish THEN "publish"
                 ELSE "assembled"
<1>1. release.pc = "assemble" /\ c \in ReleaseCases
  BY DEF Assemble, ReleaseInv, ReleaseType
<1>2. CASE ReceiptsHold(c) /\ FilesFound(c, assets)
  <2>1. release' = [release EXCEPT !.status = status, !.metadata = metadata, !.pc = pc]
    BY <1>2 DEF Assemble
  <2>2. pc = "publish" => c.publish /\ SigningSaid(c, metadata)
    BY <1>1, <1>2, UnsignedSaid
  <2>3. pc \in {"refused", "publish", "assembled"}
    OBVIOUS
  <2> HIDE DEF status, metadata, pc
  <2>4. release' = [pc |-> pc, case |-> c, status |-> status, metadata |-> metadata,
                    manifest |-> release.manifest]
    BY <2>1 DEF ReleaseInv, ReleaseType
  <2>5. CASE pc = "refused"
    BY <2>4, <2>5, Refused
  <2>6. CASE pc # "refused"
    BY <1>1, <2>2, <2>3, <2>4, <2>6 DEF ReleaseInv, ReleaseType, ReleaseGated, ReleaseSigned,
       ReleaseMatched, Identified, Gated, Built, OnItsWay
  <2>7. QED BY <2>5, <2>6
<1>3. CASE ~(ReceiptsHold(c) /\ FilesFound(c, assets))
  <2>1. ReleaseGoes(FALSE, "publish")
    BY <1>3 DEF Assemble
  <2>2. release' = [pc |-> "refused", case |-> c, status |-> release.status,
                    metadata |-> release.metadata, manifest |-> release.manifest]
    BY <2>1, GateMoves DEF ReleaseInv
  <2>3. QED BY <2>2, Refused
<1>4. QED BY <1>2, <1>3

(* Files and status may change between the two jobs.                        *)
LEMMA MeddleKeeps == ReleaseInv /\ Meddle => ReleaseInv'
<1> SUFFICES ASSUME ReleaseInv, Meddle PROVE ReleaseInv'
  OBVIOUS
<1>1. release.pc = "publish"
  BY DEF Meddle
<1>2. CASE UNCHANGED release
  BY <1>1, <1>2 DEF ReleaseInv, ReleaseType, ReleaseGated, ReleaseSigned, ReleaseMatched
<1>3. CASE \E status \in ForgedStatuses(release.status) :
             release' = [release EXCEPT !.status = status]
  <2>1. PICK status : release' = [release EXCEPT !.status = status]
    BY <1>3
  <2>2. release' = [pc |-> "publish", case |-> release.case, status |-> status,
                    metadata |-> release.metadata, manifest |-> release.manifest]
    BY <1>1, <2>1 DEF ReleaseInv, ReleaseType
  <2>3. QED BY <1>1, <2>2 DEF ReleaseInv, ReleaseType, ReleaseGated, ReleaseSigned, ReleaseMatched
<1>4. QED BY <1>2, <1>3 DEF Meddle

(* The status is validated against the files, whatever happened to them     *)
(* (release-signing-status.mjs).                                            *)
LEMMA PublishReleaseKeeps == ReleaseInv /\ PublishRelease => ReleaseInv'
<1> SUFFICES ASSUME ReleaseInv, PublishRelease PROVE ReleaseInv'
  OBVIOUS
<1> DEFINE c == release.case
           holds == FilesFound(c, assets) /\ StatusHolds(c, release.status, assets)
<1>1. release.pc = "publish" /\ assets' = assets /\ ReleaseGoes(holds, "published")
  BY DEF PublishRelease
<1>2. holds => release.status.files = Listed(ExpectedAssets(c.scope), assets)
  BY DEF StatusHolds
<1> HIDE DEF holds
<1>3. release' = [pc |-> IF holds THEN "published" ELSE "refused", case |-> c,
                  status |-> release.status,
                  metadata |-> release.metadata, manifest |-> release.manifest]
  BY <1>1, GateMoves DEF ReleaseInv
<1>4. CASE holds
  BY <1>1, <1>2, <1>3, <1>4 DEF ReleaseInv, ReleaseType, ReleaseGated, ReleaseSigned,
      ReleaseMatched,
     Identified, Gated, Built, OnItsWay
<1>5. CASE ~holds
  BY <1>3, <1>5, Refused
<1>6. QED BY <1>4, <1>5

(* Every step of a release keeps the invariant.                             *)
LEMMA ReleaseSteps == ReleaseInv /\ ReleaseNext => ReleaseInv'
BY CheckIdentityKeeps, CheckGateKeeps, BuildManifestKeeps, AssembleKeeps, MeddleKeeps,
    PublishReleaseKeeps
   DEF ReleaseNext

(* Neither an acceptance run nor a report touches a release.                *)
LEMMA ReleaseStutters == ReleaseInv /\ UNCHANGED releaseVars => ReleaseInv'
BY DEF ReleaseInv, ReleaseType, ReleaseGated, ReleaseSigned, ReleaseMatched, releaseVars

(* The invariant says what a published release is.                          *)
LEMMA ReleaseImplies == ReleaseInv => PublishedWhole
<1> SUFFICES ASSUME ReleaseInv, release.pc = "published" PROVE PublishedWhole
  BY DEF PublishedWhole
<1> DEFINE c == release.case
<1>1. /\ c \in ReleaseCases /\ IdentityHolds(c) /\ GateHolds(c) /\ c.publish
      /\ SigningSaid(c, release.metadata)
      /\ release.status.files = Listed(ExpectedAssets(c.scope), assets)
      /\ c.scope = "desktop-lite" \/ MediaMatches(c)
  BY DEF ReleaseInv, ReleaseType, ReleaseGated, ReleaseSigned, ReleaseMatched, Identified, Gated,
      Built,
     OnItsWay
<1>2. c.root = "production" /\ c.tag = c.version /\ c.versionChannel = c.channel
  BY <1>1 DEF IdentityHolds, GateHolds, TrustHolds
<1>3. release.metadata.latest => StableProved(c)
      /\ \A i \in DOMAIN c.receipts : c.receipts[i].status # "unsigned"
  BY <1>1 DEF SigningSaid, GateHolds
<1>4. ASSUME "portable-full.zip" \in DOMAIN release.status.files, NEW i \in DOMAIN c.binaries
      PROVE  /\ c.lock.components[i].extracted \in {0, c.binaries[i]}
             /\ \E file \in c.evidence.components[i].files : file.digest = file.committed
                  /\ file.digest # 0
  <2>1. c.scope = "desktop-full"
    <3>1. "portable-full.zip" \in ExpectedAssets(c.scope)
      BY <1>1, <1>4 DEF Listed
    <3>2. QED BY <3>1, PortableFull
  <2>2. i \in DOMAIN c.lock.components
    BY <1>1, ReleaseCasesSound
  <2>3. MediaCompliant(c)
    BY <1>1, <2>1 DEF GateHolds
  <2>4. EvidenceBinds(c, i)
    BY <2>2, <2>3 DEF MediaCompliant
  <2>5. \E file \in c.evidence.components[i].files : Committed(file)
    BY <2>4 DEF EvidenceBinds
  <2>6. QED BY <1>1, <2>1, <2>2, <2>5 DEF MediaMatches, Committed
<1>5. QED BY <1>1, <1>2, <1>3, <1>4 DEF PublishedWhole, SigningSaid

----------------------------------------------------------------------------
(* The three invariants hold in every state: each machine keeps its own,    *)
(* and leaves the variables of the others alone.                            *)
THEOREM ReleaseGatesInvariant == GatesSafetySpec => [](AcceptInv /\ ReadyInv /\ ReleaseInv)
<1>1. AcceptInit /\ ReadyInit /\ ReleaseInit => AcceptInv /\ ReadyInv /\ ReleaseInv
  BY AcceptStart, ReadyStart, ReleaseStart
<1>2. AcceptInv /\ ReadyInv /\ ReleaseInv /\ [GatesNext]_gatesVars => AcceptInv' /\ ReadyInv'
      /\ ReleaseInv'
  <2> SUFFICES ASSUME AcceptInv, ReadyInv, ReleaseInv, [GatesNext]_gatesVars
               PROVE  AcceptInv' /\ ReadyInv' /\ ReleaseInv'
    OBVIOUS
  <2>1. CASE AcceptNext
    <3>1. UNCHANGED readyVars /\ UNCHANGED releaseVars
      BY <2>1 DEF AcceptNext
    <3>2. QED BY <2>1, <3>1, AcceptSteps, ReadyStutters, ReleaseStutters
  <2>2. CASE ReadyNext
    <3>1. UNCHANGED acceptVars /\ UNCHANGED releaseVars
      BY <2>2 DEF ReadyNext
    <3>2. QED BY <2>2, <3>1, AcceptStutters, ReadySteps, ReleaseStutters
  <2>3. CASE ReleaseNext
    <3>1. UNCHANGED acceptVars /\ UNCHANGED readyVars
      BY <2>3 DEF ReleaseNext
    <3>2. QED BY <2>3, <3>1, AcceptStutters, ReadyStutters, ReleaseSteps
  <2>4. CASE UNCHANGED gatesVars
    <3>1. UNCHANGED acceptVars /\ UNCHANGED readyVars /\ UNCHANGED releaseVars
      BY <2>4 DEF gatesVars
    <3>2. QED BY <3>1, AcceptStutters, ReadyStutters, ReleaseStutters
  <2>5. QED BY <2>1, <2>2, <2>3, <2>4 DEF GatesNext
<1>3. QED BY <1>1, <1>2, PTL DEF GatesSafetySpec

(* ReleaseGatesSafe: a passed acceptance run ran every stage once, in       *)
(* order, on one clean source (verify-release.mjs); a passing report        *)
(* evaluated every hard gate about one commit (release-readiness.mjs); and  *)
(* what is published is what its status, its signatures, its evidence and   *)
(* its update trust say (release-publish-gate.mjs,                          *)
(* release-signing-status.mjs).                                             *)
THEOREM ReleaseGatesHold == GatesSafetySpec => []ReleaseGatesSafe
<1>1. AcceptInv /\ ReadyInv /\ ReleaseInv => ReleaseGatesSafe
  BY AcceptImplies, ReadyImplies, ReleaseImplies DEF ReleaseGatesSafe
<1>2. QED BY <1>1, ReleaseGatesInvariant, PTL

----------------------------------------------------------------------------
(* Lists of steps, and the first step of a kind.                            *)

(* Every inhabited set of naturals has a least element, which Min is.       *)
LEMMA MinIsLeast ==
  ASSUME NEW S \in SUBSET Nat, S # {}
  PROVE  Min(S) \in S /\ \A y \in S : Min(S) <= y
<1>1. PICK x \in S : \A y \in S : ~(<<y, x>> \in OpToRel(<, Nat))
  BY WFMin, NatLessThanWellFounded
<1>2. \A y \in S : x <= y
  <2> SUFFICES ASSUME NEW y \in S PROVE x <= y
    OBVIOUS
  <2>1. <<y, x>> \notin OpToRel(<, Nat)
    BY <1>1
  <2> QED
    BY <2>1 DEF OpToRel
<1> QED
  BY <1>1, <1>2 DEF Min

(* A function on 1..n is a list of length n.                                *)
LEMMA LenOfList ==
  ASSUME NEW s, NEW n \in Nat, s = [i \in 1..n |-> s[i]]
  PROVE  IsList(s) /\ Len(s) = n
<1> DEFINE S == {s[i] : i \in 1..n}
<1>1. s \in [1..n -> S]
  OBVIOUS
<1>2. s \in Seq(S)
  BY <1>1, SeqDef
<1>3. Len(s) \in Nat /\ DOMAIN s = 1..Len(s)
  BY <1>2, LenProperties
<1>4. 1..n = 1..Len(s)
  BY <1>1, <1>3
<1>5. n = Len(s)
  BY <1>3, <1>4
<1> QED
  BY <1>5 DEF IsList

(* The places of a list are positive naturals.                              *)
LEMMA PlacesOfList ==
  ASSUME NEW s, IsList(s)
  PROVE  DOMAIN s = 1..Len(s) /\ DOMAIN s \subseteq Nat \ {0}
BY DEF IsList

(* First finds the least place of a set, and 0 stands for none.             *)
LEMMA FirstIsLeast ==
  ASSUME NEW S \in SUBSET (Nat \ {0})
  PROVE  /\ First(S) # 0 => First(S) \in S
         /\ \A y \in S : First(S) # 0 /\ First(S) <= y
<1>1. CASE S = {}
  BY <1>1 DEF First
<1>2. CASE S # {}
  <2>1. Min(S) \in S /\ \A y \in S : Min(S) <= y
    BY <1>2, MinIsLeast
  <2> QED
    BY <1>2, <2>1 DEF First
<1> QED
  BY <1>1, <1>2

(* The first exact step of a role is one, and none comes before it.         *)
LEMMA AtExactFinds ==
  ASSUME NEW steps, IsList(steps), NEW role
  PROVE  /\ AtExact(steps, role) # 0 =>
                AtExact(steps, role) \in DOMAIN steps
                      /\ RunsExact(steps[AtExact(steps, role)], role)
         /\ \A i \in DOMAIN steps : RunsExact(steps[i], role) => AtExact(steps, role) <= i
<1> DEFINE S == {i \in DOMAIN steps : RunsExact(steps[i], role)}
<1>1. S \in SUBSET (Nat \ {0})
  BY PlacesOfList
<1>2. AtExact(steps, role) = First(S)
  BY DEF AtExact
<1> HIDE DEF S
<1>3. /\ First(S) # 0 => First(S) \in S
      /\ \A y \in S : First(S) # 0 /\ First(S) <= y
  BY <1>1, FirstIsLeast
<1> QED
  BY <1>2, <1>3 DEF S

(* The first step of some roles is one, and none comes before it.           *)
LEMMA AtFinds ==
  ASSUME NEW steps, IsList(steps), NEW roles
  PROVE  /\ At(steps, roles) # 0 =>
                At(steps, roles) \in DOMAIN steps /\ steps[At(steps, roles)].is \in roles
         /\ \A i \in DOMAIN steps : steps[i].is \in roles => At(steps, roles) <= i
<1> DEFINE S == {i \in DOMAIN steps : steps[i].is \in roles}
<1>1. S \in SUBSET (Nat \ {0})
  BY PlacesOfList
<1>2. At(steps, roles) = First(S)
  BY DEF At
<1> HIDE DEF S
<1>3. /\ First(S) # 0 => First(S) \in S
      /\ \A y \in S : First(S) # 0 /\ First(S) <= y
  BY <1>1, FirstIsLeast
<1> QED
  BY <1>2, <1>3 DEF S

(* A list has some first step that meets a condition when First says so.    *)
LEMMA FirstOfList ==
  ASSUME NEW steps, IsList(steps), NEW S \in SUBSET DOMAIN steps, First(S) # 0
  PROVE  First(S) \in S /\ First(S) \in DOMAIN steps /\ First(S) \in Nat
<1>1. S \in SUBSET (Nat \ {0})
  BY PlacesOfList
<1>2. First(S) \in S
  BY <1>1, FirstIsLeast
<1> QED
  BY <1>1, <1>2

----------------------------------------------------------------------------
(* Steps before a step that runs.                                           *)

(* Places are ordered.                                                      *)
LEMMA LessIsTransitive == \A a, b, c \in Nat : a < b /\ b < c => a < c
OBVIOUS

(* A chain of places ends before what its last place is at most.            *)
LEMMA OrderedPlaces ==
  \A c, p, n, t, s, d, i \in Nat :
      c < p /\ p < n /\ n < t /\ t < s /\ s < d /\ d <= i => c < i /\ p < i /\ n < i /\ t < i
OBVIOUS

(* A step whose failure counts has run and passed whenever a later step     *)
(* that does not ask to run always is run.                                  *)
LEMMA HardStepPassed ==
  ASSUME NEW steps, IsList(steps), NEW failing \in SUBSET DOMAIN steps,
         NEW k \in DOMAIN steps, NEW u \in DOMAIN steps, k < u,
         steps[k].hard, steps[k].on \in {"", "windows"},
         steps[u].on # "always", Runs(steps, u, failing)
  PROVE  Passed(steps, steps[k].is, u, failing)
<1>1. DOMAIN steps \subseteq Nat
  BY PlacesOfList
<1>2. ~\E m \in failing : m < u /\ steps[m].hard /\ steps[m].on # "never"
  BY DEF Runs
<1>3. steps[k].on # "never"
  OBVIOUS
<1>4. k \notin failing
  BY <1>2, <1>3
<1>5. ~\E m \in failing : m < k /\ steps[m].hard /\ steps[m].on # "never"
  <2> SUFFICES ASSUME NEW m \in failing, m < k, steps[m].hard, steps[m].on # "never"
               PROVE  FALSE
    OBVIOUS
  <2>1. m \in Nat /\ k \in Nat /\ u \in Nat
    BY <1>1
  <2>2. m < u
    BY <2>1, LessIsTransitive, Zenon
  <2> QED
    BY <1>2, <2>2
<1>6. Runs(steps, k, failing)
  BY <1>3, <1>5 DEF Runs
<1> QED
  BY <1>4, <1>6 DEF Passed

(* The steps of every job are a list, and an absent job has none.           *)
LEMMA StepsAreList ==
  ASSUME HasJobs(workflow), NEW j
  PROVE  IsList(StepsOf(j))
<1>1. CASE j \in Jobs
  BY <1>1 DEF HasJobs, Jobs, StepsOf
<1>2. CASE j \notin Jobs
  <2>1. <<>> = [i \in 1..0 |-> <<>>[i]]
    OBVIOUS
  <2>2. IsList(<<>>)
    BY <2>1, LenOfList
  <2> QED
    BY <1>2, <2>2 DEF StepsOf
<1> QED
  BY <1>1, <1>2

----------------------------------------------------------------------------
(* The uploads of a release.                                                *)

(* The places of a workflow are finitely many.                              *)
LEMMA PlacesFinite ==
  ASSUME HasJobs(workflow)
  PROVE  IsFiniteSet(Places)
<1> DEFINE T == {{j} \X DOMAIN StepsOf(j) : j \in Jobs}
           f == [j \in Jobs |-> {j} \X DOMAIN StepsOf(j)]
<1>1. f \in Surjection(Jobs, T)
  BY DEF Surjection
<1>2. IsFiniteSet(Jobs)
  BY DEF HasJobs, Jobs
<1>3. IsFiniteSet(T)
  <2> HIDE DEF T, f
  <2> QED
    BY <1>1, <1>2, FS_Surjection
<1>4. \A j \in Jobs : IsFiniteSet({j} \X DOMAIN StepsOf(j))
  <2> SUFFICES ASSUME NEW j \in Jobs PROVE IsFiniteSet({j} \X DOMAIN StepsOf(j))
    OBVIOUS
  <2>1. IsList(StepsOf(j))
    BY StepsAreList
  <2>2. PICK n \in Nat : DOMAIN StepsOf(j) = 1..n
    BY <2>1, PlacesOfList DEF IsList
  <2>3. IsFiniteSet(1..n)
    BY FS_Interval
  <2>4. IsFiniteSet({j})
    BY FS_Singleton
  <2> QED
    BY <2>2, <2>3, <2>4, FS_Product
<1>5. \A X \in T : IsFiniteSet(X)
  BY <1>4
<1> HIDE DEF T
<1>6. IsFiniteSet(UNION T)
  BY <1>3, <1>5, FS_UNION
<1> QED
  BY <1>6 DEF Places, T

(* Five different things are five.                                          *)
LEMMA FiveThings ==
  ASSUME NEW a, NEW b, NEW c, NEW d, NEW e,
         a # b, a # c, a # d, a # e, b # c, b # d, b # e, c # d, c # e, d # e
  PROVE  IsFiniteSet({a, b, c, d, e}) /\ Cardinality({a, b, c, d, e}) = 5
<1>1. IsFiniteSet({a}) /\ Cardinality({a}) = 1
  BY FS_Singleton
<1>2. IsFiniteSet({a} \cup {b}) /\ Cardinality({a} \cup {b}) = 2
  BY <1>1, FS_AddElement
<1>3. IsFiniteSet({a, b} \cup {c}) /\ Cardinality({a, b} \cup {c}) = 3
  <2>1. {a} \cup {b} = {a, b}
    OBVIOUS
  <2> QED
    BY <1>2, <2>1, FS_AddElement
<1>4. IsFiniteSet({a, b, c} \cup {d}) /\ Cardinality({a, b, c} \cup {d}) = 4
  <2>1. {a, b} \cup {c} = {a, b, c}
    OBVIOUS
  <2> QED
    BY <1>3, <2>1, FS_AddElement
<1>5. IsFiniteSet({a, b, c, d} \cup {e}) /\ Cardinality({a, b, c, d} \cup {e}) = 5
  <2>1. {a, b, c} \cup {d} = {a, b, c, d}
    OBVIOUS
  <2> QED
    BY <1>4, <2>1, FS_AddElement
<1>6. {a, b, c, d} \cup {e} = {a, b, c, d, e}
  OBVIOUS
<1> QED
  BY <1>5, <1>6

(* A release whose uploads are closed has one upload in its build job.      *)
LEMMA OneUploadInBuild ==
  ASSUME HasJobs(workflow), UploadsClosed(ReleaseUploads), "build" \in Jobs,
         NEW i \in DOMAIN StepsOf("build"), StepsOf("build")[i].is \in Uploads,
         NEW k \in DOMAIN StepsOf("build"), StepsOf("build")[k].is \in Uploads
  PROVE  i = k
<1> DEFINE ups == {p \in Places : StepAt(p).is \in Uploads}
           matching(e) == {p \in ups : p[1] = e[1] /\ StepAt(p).is = e[2] /\ StepAt(p).exact}
<1>1. Cardinality(ups) = Cardinality(ReleaseUploads)
  BY DEF UploadsClosed
<1>2. \A e \in ReleaseUploads : Cardinality(matching(e)) = 1
  BY DEF UploadsClosed
<1>3. Cardinality(ReleaseUploads) = 5
  BY FiveThings DEF ReleaseUploads
<1>4. IsFiniteSet(ups)
  <2>1. ups \in SUBSET Places
    OBVIOUS
  <2> QED
    BY <2>1, PlacesFinite, FS_Subset
<1>5. \A e \in ReleaseUploads : \E p \in ups : p[1] = e[1]
  <2> SUFFICES ASSUME NEW e \in ReleaseUploads PROVE \E p \in ups : p[1] = e[1]
    OBVIOUS
  <2>1. matching(e) # {}
    <3>1. Cardinality(matching(e)) = 1
      BY <1>2
    <3> HIDE DEF matching
    <3> QED
      BY <3>1, FS_EmptySet
  <2> QED
    BY <2>1
<1>6. <<"build", i>> \in ups /\ <<"build", k>> \in ups
  BY DEF Places, StepAt
<1> HIDE DEF ups
<1>7. PICK a \in ups : a[1] = "source-agent-kit"
  <2>1. <<"source-agent-kit", "upload">> \in ReleaseUploads
    BY DEF ReleaseUploads
  <2> QED
    BY <1>5, <2>1
<1>8. PICK b \in ups : b[1] = "sbom"
  <2>1. <<"sbom", "upload sbom">> \in ReleaseUploads
    BY DEF ReleaseUploads
  <2> QED
    BY <1>5, <2>1
<1>9. PICK c \in ups : c[1] = "agent-kit"
  <2>1. <<"agent-kit", "upload">> \in ReleaseUploads
    BY DEF ReleaseUploads
  <2> QED
    BY <1>5, <2>1
<1>10. PICK d \in ups : d[1] = "assemble"
  <2>1. <<"assemble", "upload">> \in ReleaseUploads
    BY DEF ReleaseUploads
  <2> QED
    BY <1>5, <2>1
<1>11. SUFFICES ASSUME i # k PROVE FALSE
  OBVIOUS
<1>12. PICK u, v : u = <<"build", i>> /\ v = <<"build", k>>
  OBVIOUS
<1>13. u[1] = "build" /\ v[1] = "build" /\ u # v /\ u \in ups /\ v \in ups
  BY <1>6, <1>11, <1>12
<1>14. /\ IsFiniteSet({a, b, c, d, u}) /\ Cardinality({a, b, c, d, u}) = 5
       /\ v \notin {a, b, c, d, u}
  <2>1. /\ a # b /\ a # c /\ a # d /\ a # u /\ b # c /\ b # d /\ b # u /\ c # d /\ c # u /\ d # u
        /\ v # a /\ v # b /\ v # c /\ v # d /\ v # u
    BY <1>7, <1>8, <1>9, <1>10, <1>13
  <2> QED
    BY <2>1, FiveThings
<1>15. /\ IsFiniteSet({a, b, c, d, u} \cup {v})
       /\ Cardinality({a, b, c, d, u} \cup {v}) = 6
  <2> DEFINE five == {a, b, c, d, u}
  <2>1. IsFiniteSet(five) /\ Cardinality(five) = 5 /\ v \notin five
    BY <1>14
  <2> HIDE DEF five
  <2>2. IsFiniteSet(five \cup {v}) /\ Cardinality(five \cup {v}) = 5 + 1
    BY <2>1, FS_AddElement
  <2> QED
    BY <2>2 DEF five
<1>16. {a, b, c, d, u} \cup {v} \in SUBSET ups
  BY <1>7, <1>8, <1>9, <1>10, <1>13
<1>17. Cardinality({a, b, c, d, u} \cup {v}) <= Cardinality(ups)
  BY <1>4, <1>16, FS_Subset
<1> QED
  BY <1>1, <1>3, <1>15, <1>17

----------------------------------------------------------------------------
(* What is accepted is safe to run.                                         *)

(* The one upload of an accepted build comes after the package and its      *)
(* size budget, whose failure would stop it.                                *)
LEMMA BuildMeasures ==
  ASSUME HasJobs(workflow), "build" \in Jobs, UploadsClosed(ReleaseUploads),
         BuildAccepted(StepsOf("build"))
  PROVE  MeasuredBeforeUpload(StepsOf("build"))
<1>1. PICK steps : steps = StepsOf("build")
  OBVIOUS
<1>2. IsList(steps)
  BY <1>1, StepsAreList
<1> DEFINE packages == {i \in DOMAIN steps : steps[i].is = "package"
                         /\ Runnable(steps[i], "windows")}
           sizes == {i \in DOMAIN steps : steps[i].is = "size"}
           ups == {i \in DOMAIN steps : steps[i].is \in Uploads /\ Runnable(steps[i], "")}
<1>3. /\ Before(First(packages), First(sizes)) /\ Before(First(sizes), First(ups))
      /\ Runnable(steps[First(sizes)], "windows")
  BY <1>1 DEF BuildAccepted, SizeGate
<1>4. First(packages) \in packages /\ First(sizes) \in sizes /\ First(ups) \in ups
  <2>1. First(packages) # 0 /\ First(sizes) # 0 /\ First(ups) # 0
    BY <1>3 DEF Before
  <2>2. /\ packages \in SUBSET DOMAIN steps /\ sizes \in SUBSET DOMAIN steps
        /\ ups \in SUBSET DOMAIN steps
    OBVIOUS
  <2> HIDE DEF packages, sizes, ups
  <2> QED
    BY <1>2, <2>1, <2>2, FirstOfList
<1>5. PICK p, z, u : p = First(packages) /\ z = First(sizes) /\ u = First(ups)
  OBVIOUS
<1>6. /\ p \in DOMAIN steps /\ steps[p].is = "package" /\ steps[p].hard /\ steps[p].on = "windows"
      /\ z \in DOMAIN steps /\ steps[z].is = "size" /\ steps[z].hard /\ steps[z].on = "windows"
      /\ u \in DOMAIN steps /\ steps[u].is \in Uploads /\ steps[u].on = ""
  BY <1>3, <1>4, <1>5 DEF Runnable
<1>7. p < z /\ z < u
  BY <1>3, <1>5 DEF Before
<1>8. p < u
  <2>1. p \in Nat /\ z \in Nat /\ u \in Nat
    BY <1>2, <1>6, PlacesOfList
  <2> QED
    BY <1>7, <2>1, LessIsTransitive, Zenon
<1> SUFFICES ASSUME NEW failing \in {{}} \union {{i} : i \in DOMAIN steps}, NEW i \in DOMAIN steps,
                    steps[i].is \in Uploads, Runs(steps, i, failing)
             PROVE  Passed(steps, "package", i, failing) /\ Passed(steps, "size", i, failing)
  BY <1>1 DEF MeasuredBeforeUpload
<1>9. i = u
  BY <1>1, <1>6, OneUploadInBuild
<1>10. failing \in SUBSET DOMAIN steps
  OBVIOUS
<1>11. Passed(steps, steps[p].is, u, failing)
  BY <1>2, <1>6, <1>8, <1>9, <1>10, HardStepPassed
<1>12. Passed(steps, steps[z].is, u, failing)
  BY <1>2, <1>6, <1>7, <1>9, <1>10, HardStepPassed
<1> QED
  BY <1>6, <1>9, <1>11, <1>12

(* A source publication that is accepted has its dependencies before its    *)
(* first download, and every failure among them stops it.                   *)
LEMMA PublicationInstalls ==
  ASSUME NEW steps, IsList(steps), SourcePublishAccepted(steps)
  PROVE  InstalledBeforeDownload(steps)
<1> DEFINE P == {i \in DOMAIN steps : steps[i].is = "pnpm" /\ Runnable(steps[i], "")
                  /\ steps[i].exact}
           N == {i \in DOMAIN steps : steps[i].is = "node" /\ Runnable(steps[i], "")
                  /\ steps[i].exact}
           C == {i \in DOMAIN steps : steps[i].is = "checkout" /\ Runnable(steps[i], "")}
<1>1. PICK c, p, n, t, s, d :
         /\ c = First(C) /\ p = First(P) /\ n = First(N) /\ t = AtExact(steps, "install")
         /\ s = At(steps, {"source check"}) /\ d = At(steps, {"download"})
  OBVIOUS
<1>2. /\ Before(c, p) /\ Before(p, n) /\ Before(n, t) /\ Before(t, s) /\ Before(s, d)
  BY <1>1 DEF SourcePublishAccepted, SourceCheckFirst, AtRunnable
<1>3. c \in C /\ p \in P /\ n \in N
  <2>1. C \in SUBSET DOMAIN steps /\ P \in SUBSET DOMAIN steps /\ N \in SUBSET DOMAIN steps
    OBVIOUS
  <2>2. First(C) # 0 /\ First(P) # 0 /\ First(N) # 0
    BY <1>1, <1>2 DEF Before
  <2> HIDE DEF C, P, N
  <2> QED
    BY <1>1, <2>1, <2>2, FirstOfList
<1>4. t \in DOMAIN steps /\ RunsExact(steps[t], "install")
  BY <1>1, <1>2, AtExactFinds DEF Before
<1>5. s \in DOMAIN steps /\ d \in DOMAIN steps
  BY <1>1, <1>2, AtFinds DEF Before
<1>6. /\ c \in DOMAIN steps /\ steps[c].is = "checkout" /\ steps[c].hard /\ steps[c].on = ""
      /\ p \in DOMAIN steps /\ steps[p].is = "pnpm" /\ steps[p].hard /\ steps[p].on = ""
      /\ n \in DOMAIN steps /\ steps[n].is = "node" /\ steps[n].hard /\ steps[n].on = ""
      /\ t \in DOMAIN steps /\ steps[t].is = "install" /\ steps[t].hard /\ steps[t].on = ""
  BY <1>3, <1>4 DEF Runnable, RunsExact
<1> HIDE DEF P, N, C
<1> SUFFICES ASSUME NEW failing \in {{}} \union {{i} : i \in DOMAIN steps}, NEW i \in DOMAIN steps,
                    steps[i].is = "download", steps[i].on # "always", Runs(steps, i, failing),
                    NEW role \in {"checkout", "pnpm", "node", "install"}
             PROVE  Passed(steps, role, i, failing)
  BY DEF InstalledBeforeDownload
<1>7. d <= i
  BY <1>1, AtFinds
<1>8. c < i /\ p < i /\ n < i /\ t < i
  <2>1. c \in Nat /\ p \in Nat /\ n \in Nat /\ t \in Nat /\ s \in Nat /\ d \in Nat /\ i \in Nat
    BY <1>5, <1>6, PlacesOfList
  <2>2. c < p /\ p < n /\ n < t /\ t < s /\ s < d
    BY <1>2 DEF Before
  <2> HIDE <1>6
  <2> QED
    BY <1>7, <2>1, <2>2, OrderedPlaces
<1>9. failing \in SUBSET DOMAIN steps
  OBVIOUS
<1>10. \A k \in {c, p, n, t} : Passed(steps, steps[k].is, i, failing)
  BY <1>6, <1>8, <1>9, HardStepPassed
<1> QED
  BY <1>6, <1>10

(* The Rust lint of an accepted CI workflow precedes its tests.             *)
LEMMA LintPrecedesTest ==
  ASSUME NEW steps, IsList(steps), LintAccepted(steps),
         NEW i \in DOMAIN steps, RunsExact(steps[i], "test")
  PROVE  \E k \in 1..i - 1 : RunsExact(steps[k], "clippy")
<1>1. PICK k, t : k = AtExact(steps, "clippy") /\ t = AtExact(steps, "test")
  OBVIOUS
<1>2. k # 0 /\ t # 0 /\ k < t
  BY <1>1 DEF LintAccepted, Before
<1>3. k \in DOMAIN steps /\ RunsExact(steps[k], "clippy") /\ t \in DOMAIN steps /\ t <= i
  BY <1>1, <1>2, AtExactFinds
<1>4. k \in Nat \ {0} /\ t \in Nat /\ i \in Nat
  BY <1>3, PlacesOfList
<1>5. k \in 1..i - 1
  BY <1>2, <1>3, <1>4
<1> QED
  BY <1>3, <1>5

(* What the checker accepts is safe to run.                                 *)
LEMMA AcceptedSafe ==
  ASSUME HasJobs(workflow), Accepted
  PROVE  SafeToRun
<1>1. workflow.triggers = {"workflow_dispatch"}
  BY DEF Accepted, Common, ManualOnly
<1>2. ASSUME workflow.file = "release"
      PROVE  /\ \A j \in {"build", "sbom", "agent-kit", "assemble"} : Gates \subseteq Ancestors(j)
             /\ \A j \in Jobs : Job(j).permissions \in {"write", "write-all"} =>
                    "publish" \in Job(j).when /\ Job(j).environment = "release"
             /\ MeasuredBeforeUpload(StepsOf("build"))
             /\ InstalledBeforeDownload(StepsOf("publish-source-agent-kit"))
  <2>1. ReleaseAccepted
    BY <1>2 DEF Accepted
  <2>2. ASSUME NEW j \in {"build", "sbom", "agent-kit", "assemble"}
        PROVE Gates \subseteq Ancestors(j)
    <3>1. \A k \in {"build", "sbom", "agent-kit"} : Gates \subseteq Job(k).needs
      BY <2>1 DEF ReleaseAccepted, NeedsGates
    <3>2. CASE j = "assemble"
      <4>1. "agent-kit" \in Job(j).needs
        BY <2>1, <3>2 DEF ReleaseAccepted, NeedsGates
      <4> QED
        BY <3>1, <4>1 DEF Ancestors
    <3> QED
      BY <3>1, <3>2 DEF Ancestors
  <2>3. ASSUME NEW j \in Jobs, Job(j).permissions \in {"write", "write-all"}
        PROVE  "publish" \in Job(j).when /\ Job(j).environment = "release"
    <3>1. Job(j).permissions = "write"
      BY <2>3 DEF Accepted, Common, Job
    <3> QED
      BY <2>1, <2>3, <3>1 DEF ReleaseAccepted, ScopesGate
  <2>4. MeasuredBeforeUpload(StepsOf("build"))
    <3>1. "build" \in Jobs
      BY <2>1 DEF ReleaseAccepted, RequiredJobs
    <3> QED
      BY <2>1, <3>1, BuildMeasures DEF ReleaseAccepted
  <2>5. InstalledBeforeDownload(StepsOf("publish-source-agent-kit"))
    BY <2>1, StepsAreList, PublicationInstalls DEF ReleaseAccepted
  <2> QED
    BY <2>2, <2>3, <2>4, <2>5
<1>3. ASSUME workflow.file = "ci", NEW i \in DOMAIN StepsOf("linux-rust-lint"),
             RunsExact(StepsOf("linux-rust-lint")[i], "test")
      PROVE  \E k \in 1..i - 1 : RunsExact(StepsOf("linux-rust-lint")[k], "clippy")
  <2>1. LintAccepted(StepsOf("linux-rust-lint"))
    BY <1>3 DEF Accepted, CiAccepted
  <2> QED
    BY <1>3, <2>1, StepsAreList, LintPrecedesTest
<1> QED
  BY <1>1, <1>2, <1>3 DEF SafeToRun

----------------------------------------------------------------------------
(* Edits keep a workflow one.                                               *)

(* Changing one step of a list leaves a list of the same length.            *)
LEMMA ChangedList ==
  ASSUME NEW s, IsList(s), NEW t, DOMAIN t = DOMAIN s, t = [k \in DOMAIN t |-> t[k]]
  PROVE  IsList(t)
<1>1. Len(s) \in Nat /\ DOMAIN s = 1..Len(s)
  BY DEF IsList
<1>2. t = [k \in 1..Len(s) |-> t[k]]
  BY <1>1
<1> QED
  BY <1>1, <1>2, LenOfList

(* Giving a job another list of steps keeps the rest.                       *)
LEMMA JobGetsSteps ==
  ASSUME NEW w, HasJobs(w), NEW j \in DOMAIN w.jobs, NEW s, IsList(s)
  PROVE  HasJobs([w EXCEPT !.jobs[j].steps = s])
<1>1. PICK v : v = [w EXCEPT !.jobs[j].steps = s]
  OBVIOUS
<1>2. DOMAIN v = DOMAIN w /\ "jobs" \in DOMAIN v
  BY <1>1 DEF HasJobs
<1>3. v.jobs = [w.jobs EXCEPT ![j].steps = s]
  BY <1>1 DEF HasJobs
<1>4. DOMAIN v.jobs = DOMAIN w.jobs
  BY <1>3
<1>5. ASSUME NEW k \in DOMAIN w.jobs PROVE "steps" \in DOMAIN v.jobs[k] /\ IsList(v.jobs[k].steps)
  <2>1. CASE k = j
    <3>1. v.jobs[k] = [w.jobs[j] EXCEPT !.steps = s]
      BY <1>3, <2>1
    <3>2. "steps" \in DOMAIN w.jobs[j]
      BY DEF HasJobs
    <3> QED
      BY <3>1, <3>2
  <2>2. CASE k # j
    <3>1. v.jobs[k] = w.jobs[k]
      BY <1>3, <1>5, <2>2
    <3> QED
      BY <1>5, <3>1 DEF HasJobs
  <2> QED
    BY <2>1, <2>2
<1>6. IsFiniteSet(DOMAIN v.jobs)
  BY <1>4 DEF HasJobs
<1>7. HasJobs(v)
  BY <1>2, <1>4, <1>5, <1>6 DEF HasJobs
<1> QED
  BY <1>1, <1>7

(* Giving a job other needs, conditions or permissions keeps its steps.     *)
LEMMA JobGetsField ==
  ASSUME NEW w, HasJobs(w), NEW j \in DOMAIN w.jobs, NEW x
  PROVE  /\ HasJobs([w EXCEPT !.jobs[j].needs = x])
         /\ HasJobs([w EXCEPT !.jobs[j].when = x])
         /\ HasJobs([w EXCEPT !.jobs[j].permissions = x])
<1>1. ASSUME NEW v, DOMAIN v = DOMAIN w, DOMAIN v.jobs = DOMAIN w.jobs,
             \A k \in DOMAIN w.jobs : /\ DOMAIN v.jobs[k] = DOMAIN w.jobs[k]
                                      /\ v.jobs[k].steps = w.jobs[k].steps
      PROVE  HasJobs(v)
  BY <1>1 DEF HasJobs
<1>2. "jobs" \in DOMAIN w /\ \A k \in DOMAIN w.jobs : "steps" \in DOMAIN w.jobs[k]
  BY DEF HasJobs
<1>3. HasJobs([w EXCEPT !.jobs[j].needs = x])
  <2>1. PICK v : v = [w EXCEPT !.jobs[j].needs = x]
    OBVIOUS
  <2>2. DOMAIN v = DOMAIN w /\ v.jobs = [w.jobs EXCEPT ![j].needs = x]
    BY <1>2, <2>1
  <2>3. DOMAIN v.jobs = DOMAIN w.jobs
    BY <2>2
  <2>4. \A k \in DOMAIN w.jobs : DOMAIN v.jobs[k] = DOMAIN w.jobs[k]
        /\ v.jobs[k].steps = w.jobs[k].steps
    BY <1>2, <2>2
  <2> QED
    BY <1>1, <2>1, <2>2, <2>3, <2>4
<1>4. HasJobs([w EXCEPT !.jobs[j].when = x])
  <2>1. PICK v : v = [w EXCEPT !.jobs[j].when = x]
    OBVIOUS
  <2>2. DOMAIN v = DOMAIN w /\ v.jobs = [w.jobs EXCEPT ![j].when = x]
    BY <1>2, <2>1
  <2>3. DOMAIN v.jobs = DOMAIN w.jobs
    BY <2>2
  <2>4. \A k \in DOMAIN w.jobs : DOMAIN v.jobs[k] = DOMAIN w.jobs[k]
        /\ v.jobs[k].steps = w.jobs[k].steps
    BY <1>2, <2>2
  <2> QED
    BY <1>1, <2>1, <2>2, <2>3, <2>4
<1>5. HasJobs([w EXCEPT !.jobs[j].permissions = x])
  <2>1. PICK v : v = [w EXCEPT !.jobs[j].permissions = x]
    OBVIOUS
  <2>2. DOMAIN v = DOMAIN w /\ v.jobs = [w.jobs EXCEPT ![j].permissions = x]
    BY <1>2, <2>1
  <2>3. DOMAIN v.jobs = DOMAIN w.jobs
    BY <2>2
  <2>4. \A k \in DOMAIN w.jobs : DOMAIN v.jobs[k] = DOMAIN w.jobs[k]
        /\ v.jobs[k].steps = w.jobs[k].steps
    BY <1>2, <2>2
  <2> QED
    BY <1>1, <2>1, <2>2, <2>3, <2>4
<1> QED
  BY <1>3, <1>4, <1>5

(* Every edit of a step leaves a list.                                      *)
LEMMA EditedLists ==
  ASSUME NEW s, IsList(s), NEW i \in DOMAIN s
  PROVE  /\ IsList([k \in 1..Len(s) - 1 |-> IF k < i THEN s[k] ELSE s[k + 1]])
         /\ IsList([s EXCEPT ![i] = s[i + 1], ![i + 1] = s[i]])
         /\ \A x : IsList([s EXCEPT ![i] = x])
<1>1. Len(s) \in Nat /\ DOMAIN s = 1..Len(s)
  BY DEF IsList
<1>2. IsList([k \in 1..Len(s) - 1 |-> IF k < i THEN s[k] ELSE s[k + 1]])
  <2>1. PICK n : n = Len(s) - 1
    OBVIOUS
  <2>2. n \in Nat
    BY <1>1, <2>1
  <2>3. PICK t : t = [k \in 1..n |-> IF k < i THEN s[k] ELSE s[k + 1]]
    OBVIOUS
  <2>4. t = [k \in 1..n |-> t[k]]
    BY <2>3
  <2> QED
    BY <2>1, <2>2, <2>3, <2>4, LenOfList
<1>3. \A x : IsList([s EXCEPT ![i] = x])
  <2> SUFFICES ASSUME NEW x PROVE IsList([s EXCEPT ![i] = x])
    OBVIOUS
  <2>1. PICK t : t = [s EXCEPT ![i] = x]
    OBVIOUS
  <2>2. DOMAIN t = DOMAIN s /\ t = [k \in DOMAIN t |-> t[k]]
    BY <2>1
  <2> QED
    BY <2>1, <2>2, ChangedList
<1>4. IsList([s EXCEPT ![i] = s[i + 1], ![i + 1] = s[i]])
  <2>1. PICK t : t = [s EXCEPT ![i] = s[i + 1], ![i + 1] = s[i]]
    OBVIOUS
  <2>2. DOMAIN t = DOMAIN s /\ t = [k \in DOMAIN t |-> t[k]]
    BY <2>1
  <2> QED
    BY <2>1, <2>2, ChangedList
<1> QED
  BY <1>2, <1>3, <1>4

(* Every edit of a step leaves a workflow.                                  *)
LEMMA EditStepKeeps ==
  ASSUME HasJobs(workflow), NEW j \in Jobs, NEW i \in DOMAIN StepsOf(j), EditStep(j, i)
  PROVE  HasJobs(workflow')
<1>1. PICK s : s = StepsOf(j)
  OBVIOUS
<1>2. IsList(s) /\ i \in DOMAIN s
  BY <1>1, StepsAreList
<1>3. \E t : IsList(t) /\ workflow' = [workflow EXCEPT !.jobs[j].steps = t]
  <2>1. CASE Becomes(j, [k \in 1..Len(s) - 1 |-> IF k < i THEN s[k] ELSE s[k + 1]])
    BY <1>2, <2>1, EditedLists DEF Becomes
  <2>2. CASE Becomes(j, [s EXCEPT ![i] = s[i + 1], ![i + 1] = s[i]])
    BY <1>2, <2>2, EditedLists DEF Becomes
  <2>3. CASE Becomes(j, [s EXCEPT ![i].hard = FALSE])
    BY <1>2, <2>3, EditedLists DEF Becomes
  <2>4. CASE \E c \in {"never", "always", "windows"} : Becomes(j, [s EXCEPT ![i].on = c])
    BY <1>2, <2>4, EditedLists DEF Becomes
  <2>5. CASE Becomes(j, [s EXCEPT ![i].exact = FALSE])
    BY <1>2, <2>5, EditedLists DEF Becomes
  <2>6. CASE Becomes(j, [s EXCEPT ![i].pinned = FALSE])
    BY <1>2, <2>6, EditedLists DEF Becomes
  <2>7. CASE Becomes(j, [s EXCEPT ![i].trusts = ~@])
    BY <1>2, <2>7, EditedLists DEF Becomes
  <2>8. CASE \E p \in s[i].phrases : Becomes(j, [s EXCEPT ![i].phrases = @ \ {p}])
    BY <1>2, <2>8, EditedLists DEF Becomes
  <2> QED
    BY <1>1, <2>1, <2>2, <2>3, <2>4, <2>5, <2>6, <2>7, <2>8 DEF EditStep
<1> QED
  BY <1>3, JobGetsSteps DEF Jobs

(* Every edit of a job leaves a workflow.                                   *)
LEMMA EditJobKeeps ==
  ASSUME HasJobs(workflow), NEW j \in Jobs, EditJob(j)
  PROVE  HasJobs(workflow')
<1>1. CASE \E n \in Job(j).needs : workflow' = [workflow EXCEPT !.jobs[j].needs = @ \ {n}]
  <2>1. PICK x : workflow' = [workflow EXCEPT !.jobs[j].needs = x]
    BY <1>1
  <2>2. HasJobs([workflow EXCEPT !.jobs[j].needs = x])
    BY JobGetsField DEF Jobs
  <2> QED
    BY <2>1, <2>2
<1>2. CASE \E w \in Job(j).when : workflow' = [workflow EXCEPT !.jobs[j].when = @ \ {w}]
  <2>1. PICK x : workflow' = [workflow EXCEPT !.jobs[j].when = x]
    BY <1>2
  <2>2. HasJobs([workflow EXCEPT !.jobs[j].when = x])
    BY JobGetsField DEF Jobs
  <2> QED
    BY <2>1, <2>2
<1>3. CASE \E p \in {"read", "write", "write-all"} :
             workflow' = [workflow EXCEPT !.jobs[j].permissions = p]
  <2>1. PICK x : workflow' = [workflow EXCEPT !.jobs[j].permissions = x]
    BY <1>3
  <2>2. HasJobs([workflow EXCEPT !.jobs[j].permissions = x])
    BY JobGetsField DEF Jobs
  <2> QED
    BY <2>1, <2>2
<1> QED
  BY <1>1, <1>2, <1>3 DEF EditJob

(* Every edit of triggers, inputs or trust leaves a workflow.               *)
LEMMA EditWorkflowKeeps ==
  ASSUME HasJobs(workflow), EditWorkflow
  PROVE  HasJobs(workflow')
<1>1. DOMAIN workflow' = DOMAIN workflow /\ workflow'.jobs = workflow.jobs
  BY DEF EditWorkflow, HasJobs
<1> QED
  BY <1>1 DEF HasJobs

----------------------------------------------------------------------------
(* The invariant: a workflow, safe to run when it is accepted, and its      *)
(* corollary for what a run checks.                                         *)
WorkflowIInv == HasJobs(workflow) /\ AcceptedIsSafe

(* A workflow of the repository has been accepted by nobody yet.            *)
LEMMA WorkflowBegins == WorkflowInit => WorkflowIInv
BY BaseWorkflowsAssumption DEF WorkflowInit, WorkflowIInv, AcceptedIsSafe

(* Only the checker accepts, and it keeps the workflow it looked at.        *)
LEMMA WorkflowSteps == WorkflowIInv /\ [WorkflowNext]_workflowVars => WorkflowIInv'
<1> SUFFICES ASSUME WorkflowIInv, [WorkflowNext]_workflowVars PROVE WorkflowIInv'
  OBVIOUS
<1>1. HasJobs(workflow) /\ AcceptedIsSafe
  BY DEF WorkflowIInv
<1>2. ASSUME workflow' = workflow, SafeToRun PROVE SafeToRun'
  BY <1>2 DEF SafeToRun, Jobs, StepsOf, Job, Ancestors
<1>3. CASE Edit
  <2>1. accepted' # "yes"
    BY <1>3 DEF Edit, EditAmong
  <2>2. HasJobs(workflow')
    BY <1>1, <1>3, EditStepKeeps, EditJobKeeps, EditWorkflowKeeps DEF Edit, EditAmong
  <2> QED
    BY <2>1, <2>2 DEF WorkflowIInv, AcceptedIsSafe
<1>4. CASE CheckWorkflow
  <2>1. workflow' = workflow
    BY <1>4 DEF CheckWorkflow
  <2>2. accepted' = "yes" => Accepted
    BY <1>4 DEF CheckWorkflow
  <2>3. accepted' = "yes" => SafeToRun'
    BY <1>1, <1>2, <2>1, <2>2, AcceptedSafe
  <2> QED
    BY <1>1, <2>1, <2>3 DEF WorkflowIInv, AcceptedIsSafe
<1>5. CASE UNCHANGED workflowVars
  BY <1>1, <1>2, <1>5 DEF WorkflowIInv, AcceptedIsSafe, workflowVars
<1> QED
  BY <1>3, <1>4, <1>5 DEF WorkflowNext

(* Every workflow the checker accepts, whatever was edited before, is safe  *)
(* to run: the rules of inspectReleaseWorkflow and inspectCiWorkflow keep   *)
(* the order of the gates under any failing step.                           *)
THEOREM AcceptedWorkflowsAreSafe == WorkflowSpec => []AcceptedIsSafe
<1>1. WorkflowIInv => AcceptedIsSafe
  BY DEF WorkflowIInv
<1> QED
  BY <1>1, WorkflowBegins, WorkflowSteps, PTL DEF WorkflowSpec

-----------------------------------------------------------------------------
(***************************************************************************)
(* The media packs.  A catalogue that verifies lists, for each pack, bytes *)
(* a statement signed by the owner binds.  What a command has read may be  *)
(* old by the time it is used, so the invariant says what the values it    *)
(* holds are worth: checked against a signed statement always, and equal   *)
(* to the files only while none of them has changed.                       *)
(***************************************************************************)


(* What a command of the packs reads, and the files each pack has.          *)
Kinds == {"lock", "runtime", "digest", "manifest", "archive", "source", "statement", "again"}
Assets == {"archive", "manifest", "statement", "source"}

(* Records have their fields, functions their domains.                      *)
PackShape ==
  /\ packFiles = [lock |-> packFiles.lock, runtime |-> packFiles.runtime,
                  manifest |-> packFiles.manifest,
                  archive |-> packFiles.archive, source |-> packFiles.source,
                  statement |-> packFiles.statement]
  /\ \A k \in Assets : packFiles[k] = [p \in PackIds |-> packFiles[k][p]]
  /\ packing = [pc |-> packing.pc, pack |-> packing.pack, todo |-> packing.todo,
                now |-> packing.now,
                got |-> packing.got, listed |-> packing.listed, verdict |-> packing.verdict]
  /\ packing.listed = [p \in PackIds |-> packing.listed[p]]
  /\ packing.pc \in {"idle", "manifest", "statement", "hash", "validate", "verify", "write",
                     "verified"}
  /\ packing.pc \in {"manifest", "statement", "hash", "validate", "verify"} =>
       packing.got = [k \in Kinds |-> packing.got[k]]

(* A listed pack is what some signed statement binds; it is settled when    *)
(* the statement is the one listed and the manifest fits the lock.          *)
BoundBySigned(listed, p) ==
  \E s \in signedStatements : /\ s.pack = p /\ s.manifest = listed.manifest
                              /\ s.archive = listed.archive /\ s.source = listed.source
Settled(listed, p, lock) ==
  /\ listed.statement \in signedStatements
  /\ listed.statement.archive = listed.archive /\ listed.statement.source = listed.source
  /\ FitsLock(listed.manifest, p, lock, lock)

(* A pack that is listed: bound whatever happened, settled if nothing did.  *)
PackListed(p) ==
  /\ BoundBySigned(packing.listed[p], p)
  /\ calm => Settled(packing.listed[p], p, packFiles.lock)

(* The catalogue under way.  While nothing has changed, what it has read is *)
(* what the files hold.                                                     *)
Cataloguing == packing.pc \in {"hash", "validate", "verify"}
ReadFresh ==
  /\ \A k \in Assets : packing.pc # "hash" \/ k \notin packing.todo
       => packing.got[k] = packFiles[k][packing.pack]
  /\ packing.pc # "hash" =>
       /\ \A k \in {"lock", "digest"} : k \notin packing.todo => packing.got[k] = packFiles.lock
       /\ "again" \notin packing.todo => packing.got.again = packFiles.manifest[packing.pack]
  /\ packing.pc = "validate" => packing.todo \subseteq {"lock", "digest", "again"}
  /\ packing.pc = "verify" =>
       /\ packing.todo = {}
       /\ FitsLock(packing.got.again, packing.pack, packing.got.lock, packing.got.digest)
CatalogueUnderWay ==
  Cataloguing => /\ packing.pack \in PackIds
                 /\ packing.pack = "transcode" => PackListed("preview")
                 /\ calm => ReadFresh

(* A catalogue, in the making, on the disk or signed.                       *)
CatalogBound(c) ==
  \A p \in PackIds : /\ BoundBySigned(c.packs[p], p)
                     /\ c.calm => Settled(c.packs[p], p, c.lock)
CatalogsBound ==
  /\ packing.pc = "write" => \A p \in PackIds : PackListed(p)
  /\ catalogFile # NoPackFile /\ signedCatalogs = {} => CatalogBound(catalogFile)
  /\ \A c \in signedCatalogs : CatalogBound(c)
  /\ packing.verdict # NoPackFile =>
       /\ packing.pc = "verified" /\ packing.verdict \in signedCatalogs
       /\ packing.verdict.expiry > packing.now

(* The invariant of the packs.                                              *)
PacksInv == PackShape /\ CatalogueUnderWay /\ CatalogsBound

(* A step of no catalogue keeps the invariant: what was bound stays bound   *)
(* when statements are added.                                               *)
LEMMA QuietPacking ==
  ASSUME PacksInv, PackShape', signedStatements \subseteq signedStatements',
         packing'.pc \notin {"hash", "validate", "verify", "write"}, packing'.verdict = NoPackFile,
         catalogFile' = catalogFile, signedCatalogs' = signedCatalogs
  PROVE  PacksInv'
<1>1. ASSUME NEW c, CatalogBound(c) PROVE CatalogBound(c)'
  BY <1>1 DEF CatalogBound, BoundBySigned, Settled
<1>2. CatalogueUnderWay'
  BY DEF CatalogueUnderWay, Cataloguing
<1>3. CatalogsBound'
  BY <1>1 DEF PacksInv, CatalogsBound
<1> QED
  BY <1>2, <1>3 DEF PacksInv

(* Before the first command nothing is listed.                              *)
LEMMA PacksStart == PacksInit => PacksInv
<1> SUFFICES ASSUME PacksInit PROVE PacksInv
  OBVIOUS
<1>1. PICK lock \in Locks, bytes \in PackBytes, ready \in SUBSET PackIds, expiry \in PlanExpiries :
        /\ packFiles = [lock |-> lock, runtime |-> lock,
             manifest |-> [p \in PackIds |-> IF p \in ready THEN Manifest(p, lock, lock[p])
                           ELSE NoPackFile],
             archive |-> [p \in PackIds |-> bytes], source |-> [p \in PackIds |-> bytes],
             statement |-> [p \in PackIds |-> IF p \in ready
                              THEN Statement(Manifest(p, lock, lock[p]), bytes, bytes)
                                    ELSE NoPackFile]]
        /\ signedStatements = {Statement(Manifest(p, lock, lock[p]), bytes, bytes) : p \in ready}
        /\ signedCatalogs = {}
        /\ packPlan = [expiry |-> expiry, signature |-> [p \in PackIds |-> IF p \in ready
              THEN Statement(Manifest(p, lock, lock[p]), bytes, bytes) ELSE NoPackFile]]
        /\ catalogFile = NoPackFile /\ packing = PackIdle
        /\ packClock = 0 /\ packRuns = 0 /\ packEdits = 0 /\ calm = TRUE
  BY Zenon DEF PacksInit
<1>2. PackShape
  BY <1>1 DEF PackShape, Assets, PackIdle
<1>3. CatalogueUnderWay /\ CatalogsBound
  BY <1>1 DEF CatalogueUnderWay, CatalogsBound, Cataloguing, PackIdle
<1> QED
  BY <1>2, <1>3 DEF PacksInv

(* NothingRead has a value for each kind.                                   *)
LEMMA AllUnread == NothingRead = [k \in Kinds |-> NothingRead[k]]
  BY DEF NothingRead, Kinds

(* The steps that write the manifest of a pack.                             *)
LEMMA ManifestKept ==
  ASSUME PacksInv,
         (\E p \in PackIds : BeginManifest(p)) \/ ReadForManifest \/ WriteManifest
  PROVE  PacksInv'
<1>1. CASE \E p \in PackIds : BeginManifest(p)
  <2>0. PICK todo, p : packing' = [PackIdle EXCEPT !.pc = "manifest", !.pack = p, !.todo = todo,
                                   !.got = NothingRead]
    BY <1>1 DEF BeginManifest, StartPacking
  <2>00. /\ packing' = [pc |-> packing'.pc, pack |-> packing'.pack, todo |-> packing'.todo,
                        now |-> packing'.now,
                        got |-> packing'.got, listed |-> packing'.listed,
                        verdict |-> packing'.verdict]
         /\ packing'.pc = "manifest" /\ packing'.verdict = NoPackFile /\ packing'.got = NothingRead
         /\ packing'.listed = [q \in PackIds |-> NoPackFile]
    BY <2>0 DEF PackIdle
  <2>1. PackShape'
    <3>1. packFiles' = packFiles
      BY <1>1 DEF BeginManifest
    <3> QED
      BY <2>00, <3>1, AllUnread DEF PackShape, PacksInv
  <2> QED
    BY <1>1, <2>00, <2>1, QuietPacking DEF BeginManifest, packOwner
<1>2. CASE ReadForManifest
  <2>1. packFiles' = packFiles /\ PackShape /\ packing.pc = "manifest"
        /\ packing.verdict = NoPackFile
    BY <1>2 DEF ReadForManifest, PackAt, PacksInv, CatalogsBound
  <2>2. packing' = PackIdle \/ \E field \in Kinds : \E value : packing' = Got(field, value)
    BY <1>2 DEF ReadForManifest, PackStep, PackFails, Kinds
  <2>3. CASE packing' = PackIdle
    <3>1. PackShape' /\ packing'.pc = "idle" /\ packing'.verdict = NoPackFile
      BY <2>1, <2>3 DEF PackShape, PackIdle
    <3> QED
      BY <1>2, <3>1, QuietPacking DEF ReadForManifest, packOwner
  <2>4. ASSUME NEW field \in Kinds, NEW value, packing' = Got(field, value) PROVE PacksInv'
    <3>1. PackShape' /\ packing'.pc = "manifest" /\ packing'.verdict = NoPackFile
      BY <2>1, <2>4 DEF PackShape, Got
    <3> QED
      BY <1>2, <3>1, QuietPacking DEF ReadForManifest, packOwner
  <2> QED
    BY <2>2, <2>3, <2>4
<1>3. CASE WriteManifest
  <2>1. packing' = PackIdle /\ PackShape
    BY <1>3 DEF WriteManifest, PackFails, PackStep, PacksInv
  <2>2. packFiles' = packFiles \/ \E p, v : packFiles' = [packFiles EXCEPT !["manifest"][p] = v]
    BY <1>3 DEF WriteManifest
  <2>3. PackShape'
    BY <2>1, <2>2 DEF PackShape, PackIdle, Assets
  <2> QED
    BY <1>3, <2>1, <2>3, QuietPacking DEF WriteManifest, packOwner, PackIdle
<1> QED
  BY <1>1, <1>2, <1>3

(* The steps that write the statement of a pack, and the owner's signature. *)
LEMMA StatementKept ==
  ASSUME PacksInv,
         (\E p \in PackIds : BeginStatement(p)) \/ ReadForStatement \/ WriteStatement
           \/ (\E p \in PackIds : SignStatement(p))
  PROVE  PacksInv'
<1>1. CASE \E p \in PackIds : BeginStatement(p)
  <2>0. PICK todo, p : packing' = [PackIdle EXCEPT !.pc = "statement", !.pack = p, !.todo = todo,
                                   !.got = NothingRead]
    BY <1>1 DEF BeginStatement, StartPacking
  <2>00. /\ packing' = [pc |-> packing'.pc, pack |-> packing'.pack, todo |-> packing'.todo,
                        now |-> packing'.now,
                        got |-> packing'.got, listed |-> packing'.listed,
                        verdict |-> packing'.verdict]
         /\ packing'.pc = "statement" /\ packing'.verdict = NoPackFile /\ packing'.got = NothingRead
         /\ packing'.listed = [q \in PackIds |-> NoPackFile]
    BY <2>0 DEF PackIdle
  <2>1. PackShape'
    <3>1. packFiles' = packFiles
      BY <1>1 DEF BeginStatement
    <3> QED
      BY <2>00, <3>1, AllUnread DEF PackShape, PacksInv
  <2> QED
    BY <1>1, <2>00, <2>1, QuietPacking DEF BeginStatement, packOwner
<1>2. CASE ReadForStatement
  <2>1. packFiles' = packFiles /\ PackShape /\ packing.pc = "statement"
        /\ packing.verdict = NoPackFile
    BY <1>2 DEF ReadForStatement, PackAt, PacksInv, CatalogsBound
  <2>2. packing' = PackIdle \/ \E field, value : packing' = Got(field, value)
    BY <1>2 DEF ReadForStatement, PackStep, PackFails
  <2>3. CASE packing' = PackIdle
    <3>1. PackShape' /\ packing'.pc = "idle" /\ packing'.verdict = NoPackFile
      BY <2>1, <2>3 DEF PackShape, PackIdle
    <3> QED
      BY <1>2, <3>1, QuietPacking DEF ReadForStatement, packOwner
  <2>4. ASSUME NEW field, NEW value, packing' = Got(field, value) PROVE PacksInv'
    <3>1. PackShape' /\ packing'.pc = "statement" /\ packing'.verdict = NoPackFile
      BY <2>1, <2>4 DEF PackShape, Got
    <3> QED
      BY <1>2, <3>1, QuietPacking DEF ReadForStatement, packOwner
  <2> QED
    BY <2>2, <2>3, <2>4
<1>3. CASE WriteStatement
  <2>1. packing' = PackIdle /\ PackShape
    BY <1>3 DEF WriteStatement, PackFails, PackStep, PacksInv
  <2>2. packFiles' = packFiles \/ \E p, v : packFiles' = [packFiles EXCEPT !["statement"][p] = v]
    BY <1>3 DEF WriteStatement
  <2>3. PackShape'
    BY <2>1, <2>2 DEF PackShape, PackIdle, Assets
  <2> QED
    BY <1>3, <2>1, <2>3, QuietPacking DEF WriteStatement, packOwner, PackIdle
<1>4. CASE \E p \in PackIds : SignStatement(p)
  <2>1. PackShape' /\ packing'.pc = "idle" /\ packing'.verdict = NoPackFile
    BY <1>4 DEF SignStatement, PackAt, PackShape, PacksInv, CatalogsBound
  <2> QED
    BY <1>4, <2>1, QuietPacking DEF SignStatement
<1> QED
  BY <1>1, <1>2, <1>3, <1>4

(* A catalogue that is signed was on the disk, and one that verifies was    *)
(* signed.                                                                  *)
LEMMA VerdictKept ==
  ASSUME PacksInv, SignCatalog \/ VerifyCatalog \/ EndVerify
  PROVE  PacksInv'
<1>1. CASE SignCatalog
  <2>1. UNCHANGED <<packFiles, packing, catalogFile, calm, signedStatements>> /\ packing.pc = "idle"
        /\ catalogFile # NoPackFile /\ signedCatalogs = {} /\ signedCatalogs' = {catalogFile}
    BY <1>1 DEF SignCatalog, PackAt, packWorld
  <2>2. CatalogBound(catalogFile) /\ packing.verdict = NoPackFile
    BY <2>1 DEF PacksInv, CatalogsBound
  <2>3. CatalogBound(catalogFile)'
    BY <2>1, <2>2 DEF CatalogBound, BoundBySigned, Settled
  <2>4. PackShape' /\ CatalogueUnderWay'
    BY <2>1 DEF PacksInv, PackShape, CatalogueUnderWay, Cataloguing
  <2>5. CatalogsBound'
    BY <2>1, <2>2, <2>3 DEF CatalogsBound
  <2> QED
    BY <2>4, <2>5 DEF PacksInv
<1>2. CASE VerifyCatalog
  <2>1. UNCHANGED <<packFiles, catalogFile, calm, signedStatements, signedCatalogs>>
        /\ packing.pc = "idle"
    BY <1>2 DEF VerifyCatalog, StartPacking, PackAt, packWorld, packOwner
  <2>2. PICK verdict : /\ packing' = [PackIdle EXCEPT !.pc = "verified", !.now = packClock,
                                      !.verdict = verdict]
                       /\ verdict = IF /\ InLife(catalogFile.expiry, packClock)
                                       /\ catalogFile \in signedCatalogs
                                    THEN catalogFile ELSE NoPackFile
    BY <1>2 DEF VerifyCatalog, StartPacking
  <2>3. /\ packing' = [pc |-> packing'.pc, pack |-> packing'.pack, todo |-> packing'.todo,
                       now |-> packing'.now,
                       got |-> packing'.got, listed |-> packing'.listed,
                       verdict |-> packing'.verdict]
        /\ packing'.pc = "verified" /\ packing'.verdict = verdict /\ packing'.now = packClock
        /\ packing'.listed = [q \in PackIds |-> NoPackFile]
    BY <2>2 DEF PackIdle
  <2>4. PackShape' /\ CatalogueUnderWay'
    BY <2>1, <2>3 DEF PacksInv, PackShape, CatalogueUnderWay, Cataloguing
  <2>5. \A c : CatalogBound(c) => CatalogBound(c)'
    BY <2>1 DEF CatalogBound, BoundBySigned, Settled
  <2>6. CatalogsBound'
    BY <2>1, <2>2, <2>3, <2>5 DEF PacksInv, CatalogsBound, InLife
  <2> QED
    BY <2>4, <2>6 DEF PacksInv
<1>3. CASE EndVerify
  <2>1. PackShape' /\ packing'.pc = "idle" /\ packing'.verdict = NoPackFile
    BY <1>3 DEF EndVerify, PackFails, PackStep, PackIdle, PackShape, PacksInv
  <2> QED
    BY <1>3, <2>1, QuietPacking DEF EndVerify, packOwner
<1> QED
  BY <1>1, <1>2, <1>3

(* A command that gives up leaves nothing behind.                           *)
LEMMA GivenUp ==
  ASSUME PacksInv, PackFails, UNCHANGED <<packFiles, packOwner, catalogFile, packWorld>>
  PROVE  PacksInv'
<1>1. PackShape' /\ packing'.pc = "idle" /\ packing'.verdict = NoPackFile
  BY DEF PackFails, PackStep, PackIdle, PackShape, PacksInv
<1> QED
  BY <1>1, QuietPacking DEF packOwner

(* A step of the catalogue that changes no file and adds nothing to what is *)
(* listed keeps what is bound.                                              *)
LEMMA CatalogueStep ==
  ASSUME PacksInv, UNCHANGED <<packFiles, packOwner, catalogFile>>,
         Cataloguing, PackShape', CatalogueUnderWay', packing'.verdict = NoPackFile,
         packing'.pc # "write"
  PROVE  PacksInv'
<1>1. \A c : CatalogBound(c) => CatalogBound(c)'
  BY DEF CatalogBound, BoundBySigned, Settled, packOwner
<1>2. CatalogsBound'
  BY <1>1 DEF PacksInv, CatalogsBound, packOwner
<1> QED
  BY <1>2 DEF PacksInv

(* A catalogue begins with the preview pack and nothing read.               *)
LEMMA CatalogueBegins ==
  ASSUME PacksInv, BeginCatalog
  PROVE  PacksInv'
<1>1. UNCHANGED <<packFiles, packOwner, catalogFile>> /\ calm' = TRUE
  BY DEF BeginCatalog
<1>2. PICK now : packing' = [PackIdle EXCEPT !.pc = "hash", !.pack = "preview",
                 !.todo = {"archive", "manifest", "statement", "source"}, !.got = NothingRead,
                 !.now = now]
  BY DEF BeginCatalog, StartPacking
<1>3. /\ packing' = [pc |-> packing'.pc, pack |-> packing'.pack, todo |-> packing'.todo,
                     now |-> packing'.now,
                     got |-> packing'.got, listed |-> packing'.listed, verdict |-> packing'.verdict]
      /\ packing'.pc = "hash" /\ packing'.verdict = NoPackFile /\ packing'.got = NothingRead
      /\ packing'.pack = "preview" /\ packing'.todo = Assets
      /\ packing'.listed = [q \in PackIds |-> NoPackFile]
  BY <1>2 DEF PackIdle, Assets
<1>4. PackShape'
  BY <1>1, <1>3, AllUnread DEF PackShape, PacksInv
<1>5. CatalogueUnderWay'
  BY <1>3 DEF CatalogueUnderWay, ReadFresh, PackIds
<1>6. \A c : CatalogBound(c) => CatalogBound(c)'
  BY <1>1 DEF CatalogBound, BoundBySigned, Settled, packOwner
<1>7. CatalogsBound'
  BY <1>1, <1>3, <1>6 DEF PacksInv, CatalogsBound, packOwner
<1> QED
  BY <1>4, <1>5, <1>7 DEF PacksInv

(* A pack that is listed is bound and settled as before when no file, no    *)
(* signature and not its entry changes.                                     *)
LEMMA ListedStays ==
  ASSUME NEW p, PackListed(p), UNCHANGED <<packFiles, packOwner, calm>>,
         packing'.listed[p] = packing.listed[p]
  PROVE  PackListed(p)'
  BY DEF PackListed, BoundBySigned, Settled, packOwner

(* An asset is hashed: while nothing has changed, what was read is the      *)
(* file.                                                                    *)
LEMMA AssetHashed ==
  ASSUME PacksInv, HashAsset
  PROVE  PacksInv'
<1>1. UNCHANGED <<packFiles, packOwner, catalogFile, packWorld>> /\ packing.pc = "hash"
      /\ Cataloguing /\ packing.verdict = NoPackFile
  BY DEF HashAsset, PackAt, Cataloguing, PacksInv, CatalogsBound
<1>2. CASE PackFails
  BY <1>1, <1>2, GivenUp
<1>3. CASE \E kind \in packing.todo : PackStep([Got(kind, PackFile(kind, packing.pack)) EXCEPT
             !.pc = IF packing.todo = {kind} THEN "validate" ELSE "hash",
             !.todo = IF @ = {} THEN {"lock", "digest", "again"} ELSE @])
  <2>1. PICK kind \in packing.todo : PackStep([Got(kind, PackFile(kind, packing.pack)) EXCEPT
             !.pc = IF packing.todo = {kind} THEN "validate" ELSE "hash",
             !.todo = IF @ = {} THEN {"lock", "digest", "again"} ELSE @])
    BY <1>3
  <2> DEFINE value == packFiles[kind][packing.pack]
  <2>2. packing' = [Got(kind, value) EXCEPT
             !.pc = IF packing.todo = {kind} THEN "validate" ELSE "hash",
             !.todo = IF @ = {} THEN {"lock", "digest", "again"} ELSE @]
    BY <2>1 DEF PackStep, PackFile
  <2>3. PICK g : g = Got(kind, value)
    OBVIOUS
  <2>4. /\ g = [pc |-> g.pc, pack |-> g.pack, todo |-> g.todo, now |-> g.now,
                got |-> g.got, listed |-> g.listed, verdict |-> g.verdict]
        /\ g.pc = "hash" /\ g.verdict = NoPackFile /\ g.listed = packing.listed
        /\ g.pack = packing.pack
        /\ g.todo = packing.todo \ {kind}
        /\ g.got = [k \in Kinds |-> g.got[k]]
        /\ \A k \in Kinds : g.got[k] = IF k = kind THEN value ELSE packing.got[k]
    BY <1>1, <2>3 DEF Got, PacksInv, PackShape
  <2>5. /\ packing' = [pc |-> packing'.pc, pack |-> packing'.pack, todo |-> packing'.todo,
                       now |-> packing'.now,
                       got |-> packing'.got, listed |-> packing'.listed,
                       verdict |-> packing'.verdict]
        /\ packing'.pc = IF packing.todo = {kind} THEN "validate" ELSE "hash"
        /\ packing'.todo = IF g.todo = {} THEN {"lock", "digest", "again"} ELSE g.todo
        /\ packing'.verdict = NoPackFile /\ packing'.got = g.got
        /\ packing'.listed = packing.listed /\ packing'.pack = packing.pack
    BY <2>2, <2>3, <2>4
  <2>6. PackShape'
    BY <1>1, <2>4, <2>5 DEF PacksInv, PackShape
  <2>7. ASSUME calm' PROVE ReadFresh'
    <3>1. ReadFresh /\ UNCHANGED packFiles
      BY <1>1, <2>7 DEF PacksInv, CatalogueUnderWay, packWorld
    <3>2. ASSUME NEW k \in Assets, packing'.pc # "hash" \/ k \notin packing'.todo
          PROVE  packing'.got[k] = packFiles[k][packing.pack]
      <4>1. k = kind \/ k \notin packing.todo
        BY <2>4, <2>5, <3>2
      <4>2. k \in Kinds
        BY DEF Kinds, Assets
      <4> QED
        BY <1>1, <2>4, <2>5, <3>1, <4>1, <4>2 DEF ReadFresh
    <3>3. packing'.pc # "hash" => {"lock", "digest", "again"} = packing'.todo
      BY <2>4, <2>5
    <3>4. packing'.pc # "verify"
      BY <2>5
    <3> QED
      BY <2>5, <3>1, <3>2, <3>3, <3>4 DEF ReadFresh
  <2>8. packing.pack = "transcode" => PackListed("preview")'
    BY <1>1, <2>5, ListedStays DEF PacksInv, CatalogueUnderWay, packWorld
  <2>9. CatalogueUnderWay'
    BY <1>1, <2>5, <2>7, <2>8 DEF PacksInv, CatalogueUnderWay
  <2> QED
    BY <1>1, <2>5, <2>6, <2>9, CatalogueStep
<1> QED
  BY <1>2, <1>3 DEF HashAsset

(* The lock, its digest and the manifest are read once more, in any order.  *)
LEMMA ListedRead ==
  ASSUME PacksInv, ReadForValidation
  PROVE  PacksInv'
<1>1. UNCHANGED <<packFiles, packOwner, catalogFile, packWorld>> /\ packing.pc = "validate"
      /\ Cataloguing /\ packing.verdict = NoPackFile
  BY DEF ReadForValidation, PackAt, Cataloguing, PacksInv, CatalogsBound
<1>2. CASE PackFails
  BY <1>1, <1>2, GivenUp
<1>3. ASSUME NEW kind \in packing.todo, NEW value,
             value = IF kind = "again" THEN packFiles.manifest[packing.pack] ELSE packFiles.lock,
             packing' = Got(kind, value)
      PROVE  PacksInv'
  <2>1. /\ packing' = [pc |-> packing'.pc, pack |-> packing'.pack, todo |-> packing'.todo,
                       now |-> packing'.now,
                       got |-> packing'.got, listed |-> packing'.listed,
                       verdict |-> packing'.verdict]
        /\ packing'.pc = "validate" /\ packing'.verdict = NoPackFile
        /\ packing'.listed = packing.listed /\ packing'.pack = packing.pack
        /\ packing'.todo = packing.todo \ {kind}
        /\ packing'.got = [k \in Kinds |-> packing'.got[k]]
        /\ \A k \in Kinds : packing'.got[k] = IF k = kind THEN value ELSE packing.got[k]
    BY <1>1, <1>3 DEF Got, PacksInv, PackShape
  <2>2. PackShape'
    BY <1>1, <2>1 DEF PacksInv, PackShape
  <2>3. ASSUME calm' PROVE ReadFresh'
    <3>1. ReadFresh /\ UNCHANGED packFiles
      BY <1>1, <2>3 DEF PacksInv, CatalogueUnderWay, packWorld
    <3>2. kind \notin Assets
      BY <1>1, <1>3, <3>1 DEF ReadFresh, Assets
    <3>3. \A k \in Assets : packing'.got[k] = packFiles[k][packing.pack]
      BY <1>1, <2>1, <3>1, <3>2 DEF ReadFresh, Kinds, Assets
    <3>4. ASSUME NEW k \in {"lock", "digest"}, k \notin packing'.todo
          PROVE packing'.got[k] = packFiles.lock
      BY <1>1, <1>3, <2>1, <3>1, <3>4 DEF ReadFresh, Kinds
    <3>5. ASSUME "again" \notin packing'.todo
          PROVE packing'.got.again = packFiles.manifest[packing.pack]
      BY <1>1, <1>3, <2>1, <3>1, <3>5 DEF ReadFresh, Kinds
    <3>6. packing'.todo \subseteq {"lock", "digest", "again"}
      BY <1>1, <2>1, <3>1 DEF ReadFresh
    <3> QED
      BY <2>1, <3>1, <3>3, <3>4, <3>5, <3>6 DEF ReadFresh
  <2>4. packing.pack = "transcode" => PackListed("preview")'
    BY <1>1, <2>1, ListedStays DEF PacksInv, CatalogueUnderWay, packWorld
  <2>5. CatalogueUnderWay'
    BY <1>1, <2>1, <2>3, <2>4 DEF PacksInv, CatalogueUnderWay
  <2> QED
    BY <1>1, <2>1, <2>2, <2>5, CatalogueStep
<1> QED
  BY <1>2, <1>3 DEF ReadForValidation, PackStep

(* The manifest that was read again fits the lock that was read.            *)
LEMMA ListedValidated ==
  ASSUME PacksInv, ValidateListed
  PROVE  PacksInv'
<1>1. UNCHANGED <<packFiles, packOwner, catalogFile, packWorld>> /\ packing.pc = "validate"
      /\ Cataloguing /\ packing.verdict = NoPackFile /\ packing.todo = {}
  BY DEF ValidateListed, PackAt, Cataloguing, PacksInv, CatalogsBound
<1>2. CASE PackFails
  BY <1>1, <1>2, GivenUp
<1>3. CASE /\ FitsLock(packing.got.again, packing.pack, packing.got.lock, packing.got.digest)
           /\ packing' = [packing EXCEPT !.pc = "verify"]
  <2>1. /\ packing' = [pc |-> packing'.pc, pack |-> packing'.pack, todo |-> packing'.todo,
                       now |-> packing'.now,
                       got |-> packing'.got, listed |-> packing'.listed,
                       verdict |-> packing'.verdict]
        /\ packing'.pc = "verify" /\ packing'.verdict = NoPackFile
        /\ packing'.listed = packing.listed /\ packing'.pack = packing.pack
        /\ packing'.todo = packing.todo /\ packing'.got = packing.got
    BY <1>1, <1>3 DEF PacksInv, PackShape
  <2>2. PackShape'
    BY <1>1, <2>1 DEF PacksInv, PackShape
  <2>3. ASSUME calm' PROVE ReadFresh'
    <3>1. ReadFresh /\ UNCHANGED packFiles
      BY <1>1, <2>3 DEF PacksInv, CatalogueUnderWay, packWorld
    <3> QED
      BY <1>1, <1>3, <2>1, <3>1 DEF ReadFresh, FitsLock
  <2>4. packing.pack = "transcode" => PackListed("preview")'
    BY <1>1, <2>1, ListedStays DEF PacksInv, CatalogueUnderWay, packWorld
  <2>5. CatalogueUnderWay'
    BY <1>1, <2>1, <2>3, <2>4 DEF PacksInv, CatalogueUnderWay
  <2> QED
    BY <1>1, <2>1, <2>2, <2>5, CatalogueStep
<1> QED
  BY <1>2, <1>3 DEF ValidateListed, PackStep

(* The transcode pack follows the preview pack and is the last.             *)
LEMMA NextPacks ==
  NextPack("preview") = "transcode" /\ NextPack("transcode") = "none"
  BY DEF NextPack

(* The plan's signature is on the statement, and the statement says what    *)
(* was hashed: the pack is bound, and settled if nothing changed.           *)
LEMMA PackVerified ==
  ASSUME PacksInv, VerifyListed
  PROVE  PacksInv'
<1>1. UNCHANGED <<packFiles, packOwner, catalogFile, packWorld>> /\ packing.pc = "verify"
      /\ Cataloguing /\ packing.verdict = NoPackFile
  BY DEF VerifyListed, PackAt, Cataloguing, PacksInv, CatalogsBound
<1>2. CASE PackFails
  BY <1>1, <1>2, GivenUp
<1> DEFINE s == packFiles.statement[packing.pack]
           entry == [k \in DOMAIN HashOrder |-> packing.got[k]]
           done == [packing EXCEPT !.listed[packing.pack] = entry]
<1>3. CASE /\ StatementVerifies(s, packPlan.signature[packing.pack])
           /\ StatementFits(s, packing.pack, packing.got)
           /\ packing' = IF NextPack(packing.pack) = "none" THEN [done EXCEPT !.pc = "write"]
                         ELSE [done EXCEPT !.pc = "hash", !.pack = NextPack(packing.pack),
                                           !.todo = DOMAIN HashOrder, !.got = NothingRead]
  <2>1. PICK d : d = done
    OBVIOUS
  <2>2. packing.pack \in PackIds /\ (packing.pack = "transcode" => PackListed("preview"))
        /\ (calm => ReadFresh)
    BY <1>1 DEF PacksInv, CatalogueUnderWay
  <2>3. DOMAIN HashOrder = Assets
    BY DEF HashOrder, Assets
  <2>4. PICK e : e = entry
    OBVIOUS
  <2>5. \A k \in Assets : e[k] = packing.got[k]
    BY <2>3, <2>4
  <2>6. /\ d = [pc |-> d.pc, pack |-> d.pack, todo |-> d.todo, now |-> d.now,
                got |-> d.got, listed |-> d.listed, verdict |-> d.verdict]
        /\ d.verdict = NoPackFile /\ d.pack = packing.pack
        /\ d.listed = [q \in PackIds |-> d.listed[q]]
        /\ \A q \in PackIds : d.listed[q] = IF q = packing.pack THEN e ELSE packing.listed[q]
    BY <1>1, <2>1, <2>2, <2>4 DEF PacksInv, PackShape
  <2>7. /\ packing' = [pc |-> packing'.pc, pack |-> packing'.pack, todo |-> packing'.todo,
                       now |-> packing'.now,
                       got |-> packing'.got, listed |-> packing'.listed,
                       verdict |-> packing'.verdict]
        /\ packing'.listed = d.listed /\ packing'.verdict = NoPackFile
        /\ packing.pack = "transcode" => packing'.pc = "write"
        /\ packing.pack = "preview" => /\ packing'.pc = "hash" /\ packing'.pack = "transcode"
                                       /\ packing'.todo = Assets /\ packing'.got = NothingRead
    BY <1>3, <2>1, <2>3, <2>6, NextPacks
  <2>8. packing.pack = "preview" \/ packing.pack = "transcode"
    BY <2>2 DEF PackIds
  <2>9. PackShape'
    BY <1>1, <2>6, <2>7, <2>8, AllUnread DEF PacksInv, PackShape
  <2>10. ASSUME NEW p, p = packing.pack PROVE PackListed(p)'
    <3>1. packing'.listed[packing.pack] = e
      BY <2>2, <2>6, <2>7
    <3>2. /\ s \in signedStatements /\ s.pack = packing.pack /\ s.manifest = packing.got.manifest
          /\ s.archive = packing.got.archive /\ s.source = packing.got.source
      BY <1>3 DEF StatementVerifies, StatementFits
    <3>3. BoundBySigned(e, packing.pack)
      BY <2>5, <3>2 DEF BoundBySigned, Assets
    <3>4. ASSUME calm PROVE Settled(e, packing.pack, packFiles.lock)
      <4>1. ReadFresh
        BY <2>2, <3>4
      <4>2. packing.got.statement = s /\ packing.got.manifest = packing.got.again
            /\ packing.got.lock = packFiles.lock /\ packing.got.digest = packFiles.lock
        BY <1>1, <4>1 DEF ReadFresh, Assets
      <4>3. FitsLock(packing.got.manifest, packing.pack, packFiles.lock, packFiles.lock)
        BY <1>1, <4>1, <4>2 DEF ReadFresh
      <4> QED
        BY <2>5, <3>2, <4>2, <4>3 DEF Settled, Assets
    <3> QED
      BY <1>1, <2>10, <3>1, <3>3, <3>4 DEF PackListed, BoundBySigned, Settled, packOwner, packWorld
  <2>11. \A c : CatalogBound(c) => CatalogBound(c)'
    BY <1>1 DEF CatalogBound, BoundBySigned, Settled, packOwner
  <2>12. CASE packing.pack = "preview"
    <3>1. CatalogueUnderWay'
      BY <2>7, <2>10, <2>12 DEF CatalogueUnderWay, ReadFresh, PackIds
    <3>2. CatalogsBound'
      BY <1>1, <2>7, <2>11, <2>12 DEF PacksInv, CatalogsBound, packOwner
    <3> QED
      BY <2>9, <3>1, <3>2 DEF PacksInv
  <2>13. CASE packing.pack = "transcode"
    <3>1. CatalogueUnderWay'
      BY <2>7, <2>13 DEF CatalogueUnderWay, Cataloguing
    <3>2. packing'.listed["preview"] = packing.listed["preview"]
      BY <2>6, <2>7, <2>13 DEF PackIds
    <3>3. PackListed("preview")'
      BY <1>1, <2>2, <2>13, <3>2, ListedStays DEF packWorld
    <3>4. \A p \in PackIds : PackListed(p)'
      BY <2>10, <2>13, <3>3 DEF PackIds
    <3>5. CatalogsBound'
      BY <1>1, <2>7, <2>11, <3>4 DEF PacksInv, CatalogsBound, packOwner
    <3> QED
      BY <2>9, <3>1, <3>5 DEF PacksInv
  <2> QED
    BY <2>8, <2>12, <2>13
<1> QED
  BY <1>2, <1>3, Zenon DEF VerifyListed, PackStep

(* A catalogue is written when both packs are listed.                       *)
LEMMA CatalogueWritten ==
  ASSUME PacksInv, WritePackCatalog
  PROVE  PacksInv'
<1>1. UNCHANGED <<packFiles, packOwner, packWorld>> /\ packing.pc = "write" /\ packing' = PackIdle
  BY DEF WritePackCatalog, PackAt, PackFails, PackStep
<1>2. PackShape' /\ CatalogueUnderWay'
  BY <1>1 DEF PackIdle, PackShape, PacksInv, CatalogueUnderWay, Cataloguing
<1>3. \A c : CatalogBound(c) => CatalogBound(c)'
  BY <1>1 DEF CatalogBound, BoundBySigned, Settled, packOwner
<1>4. catalogFile' = catalogFile
      \/ catalogFile' = [expiry |-> packPlan.expiry, packs |-> packing.listed,
                         lock |-> packFiles.lock, calm |-> calm]
  BY DEF WritePackCatalog
<1>5. CatalogBound([expiry |-> packPlan.expiry, packs |-> packing.listed, lock |-> packFiles.lock,
                    calm |-> calm])
  BY <1>1 DEF PacksInv, CatalogsBound, CatalogBound, PackListed
<1>6. catalogFile' # NoPackFile /\ signedCatalogs = {} => CatalogBound(catalogFile')
  BY <1>4, <1>5 DEF PacksInv, CatalogsBound
<1>7. CatalogBound(catalogFile') => CatalogBound(catalogFile)'
  BY <1>1 DEF CatalogBound, BoundBySigned, Settled, packOwner
<1>8. CatalogsBound'
  BY <1>1, <1>3, <1>6, <1>7 DEF PacksInv, CatalogsBound, PackIdle, packOwner
<1> QED
  BY <1>2, <1>8 DEF PacksInv

(* A file that changes ends the calm and touches nothing that is listed.    *)
LEMMA PackEdited ==
  ASSUME PacksInv, NEW files, PackEdit(files),
         \/ \E lock : files = [packFiles EXCEPT !.lock = lock]
         \/ \E runtime : files = [packFiles EXCEPT !.runtime = runtime]
         \/ \E kind \in Assets : \E p, value : files = [packFiles EXCEPT ![kind][p] = value]
  PROVE  PacksInv'
<1>2. packFiles' = files /\ calm' = FALSE /\ UNCHANGED <<packOwner, catalogFile, packing>>
  BY DEF PackEdit
<1>3. PackShape'
  <2>1. packing' = packing /\ packFiles' = files /\ PackShape
    BY <1>2 DEF PacksInv
  <2>2. CASE \E lock : files = [packFiles EXCEPT !.lock = lock]
    BY <2>1, <2>2 DEF PackShape, Assets
  <2>3. CASE \E runtime : files = [packFiles EXCEPT !.runtime = runtime]
    BY <2>1, <2>3 DEF PackShape, Assets
  <2>4. ASSUME NEW kind \in Assets, NEW p, NEW value, files = [packFiles EXCEPT ![kind][p] = value]
        PROVE  PackShape'
    <3>1. /\ packFiles' = [packFiles EXCEPT ![kind][p] = value]
          /\ packFiles = [lock |-> packFiles.lock, runtime |-> packFiles.runtime,
                          manifest |-> packFiles.manifest,
                  archive |-> packFiles.archive, source |-> packFiles.source,
                  statement |-> packFiles.statement]
          /\ \A k \in Assets : packFiles[k] = [q \in PackIds |-> packFiles[k][q]]
      BY <2>1, <2>4 DEF PackShape
    <3> HIDE <2>4
    <3>2. /\ packFiles' = [lock |-> packFiles'.lock, runtime |-> packFiles'.runtime,
                  manifest |-> packFiles'.manifest, archive |-> packFiles'.archive,
                  source |-> packFiles'.source, statement |-> packFiles'.statement]
          /\ \A k \in Assets : packFiles'[k] = [q \in PackIds |-> packFiles'[k][q]]
      <4>1. PICK f, g : f = packFiles /\ g = packFiles'
        OBVIOUS
      <4>2. /\ g = [f EXCEPT ![kind][p] = value]
            /\ f = [lock |-> f.lock, runtime |-> f.runtime, manifest |-> f.manifest,
                    archive |-> f.archive, source |-> f.source, statement |-> f.statement]
            /\ \A k \in Assets : f[k] = [q \in PackIds |-> f[k][q]]
        BY <3>1, <4>1
      <4>3. /\ g = [lock |-> g.lock, runtime |-> g.runtime, manifest |-> g.manifest,
                    archive |-> g.archive, source |-> g.source, statement |-> g.statement]
            /\ \A k \in Assets : g[k] = [q \in PackIds |-> g[k][q]]
        BY <4>2 DEF Assets, PackIds
      <4> QED
        BY <4>1, <4>3
    <3> QED
      BY <2>1, <3>2 DEF PackShape
  <2> QED
    BY <2>2, <2>3, <2>4
<1>4. \A p : PackListed(p) => PackListed(p)'
  BY <1>2 DEF PackListed, BoundBySigned, packOwner
<1>5. \A c : CatalogBound(c) => CatalogBound(c)'
  BY <1>2 DEF CatalogBound, BoundBySigned, Settled, packOwner
<1>6. CatalogueUnderWay'
  BY <1>2, <1>4 DEF PacksInv, CatalogueUnderWay, Cataloguing
<1>7. CatalogsBound'
  BY <1>2, <1>4, <1>5 DEF PacksInv, CatalogsBound, packOwner
<1> QED
  BY <1>3, <1>6, <1>7 DEF PacksInv

(* Every change of a file is one of these.                                  *)
LEMMA PackFilesMoved ==
  ASSUME PacksInv, PackFilesChange
  PROVE  PacksInv'
<1>1. ASSUME NEW lock, PackEdit([packFiles EXCEPT !.lock = lock]) PROVE PacksInv'
  <2>1. PICK files : files = [packFiles EXCEPT !.lock = lock]
    OBVIOUS
  <2> QED
    BY <1>1, <2>1, PackEdited
<1>2. ASSUME NEW runtime, PackEdit([packFiles EXCEPT !.runtime = runtime]) PROVE PacksInv'
  <2>1. PICK files : files = [packFiles EXCEPT !.runtime = runtime]
    OBVIOUS
  <2> QED
    BY <1>2, <2>1, PackEdited
<1>3. ASSUME NEW kind \in Assets, NEW p, NEW value, PackEdit([packFiles EXCEPT ![kind][p] = value])
      PROVE  PacksInv'
  <2>1. PICK files : files = [packFiles EXCEPT ![kind][p] = value]
    OBVIOUS
  <2> QED
    BY <1>3, <2>1, PackEdited
<1>4. "archive" \in Assets /\ "source" \in Assets /\ "statement" \in Assets /\ "manifest" \in Assets
  BY DEF Assets
<1> QED
  BY <1>1, <1>2, <1>3, <1>4, Zenon DEF PackFilesChange

(* A tampered catalogue, time, and a step that is none.                     *)
LEMMA BesideThePacks ==
  ASSUME PacksInv, CatalogTampered \/ PackTimePasses \/ UNCHANGED packsVars
  PROVE  PacksInv'
<1>1. UNCHANGED <<packFiles, packing, calm, signedStatements, signedCatalogs>>
      /\ (catalogFile' = catalogFile \/ signedCatalogs # {})
  BY DEF CatalogTampered, PackTimePasses, packsVars, packOwner
<1>2. PackShape'
  BY <1>1 DEF PacksInv, PackShape
<1>3. \A p : PackListed(p) => PackListed(p)'
  BY <1>1 DEF PackListed, BoundBySigned, Settled
<1>4. \A c : CatalogBound(c) => CatalogBound(c)'
  BY <1>1 DEF CatalogBound, BoundBySigned, Settled
<1>5. CatalogueUnderWay'
  BY <1>1, <1>3 DEF PacksInv, CatalogueUnderWay, Cataloguing, ReadFresh
<1>6. CatalogsBound'
  BY <1>1, <1>3, <1>4 DEF PacksInv, CatalogsBound
<1> QED
  BY <1>2, <1>5, <1>6 DEF PacksInv

(* PacksInv is an invariant of the packs, for any contents of the files and *)
(* any number of commands and edits.                                        *)
THEOREM PacksInvariance == PacksSpec => []PacksInv
<1>1. ASSUME PacksInv, [PacksNext]_packsVars PROVE PacksInv'
  <2>1. CASE PacksNext
    BY <1>1, <2>1, ManifestKept, StatementKept, VerdictKept, CatalogueBegins, AssetHashed,
        ListedRead,
       ListedValidated, PackVerified, CatalogueWritten, PackFilesMoved, BesideThePacks,
           Zenon DEF PacksNext
  <2>2. CASE UNCHANGED packsVars
    BY <1>1, <2>2, BesideThePacks
  <2> QED
    BY <1>1, <2>1, <2>2
<1> QED
  BY <1>1, PacksStart, PTL DEF PacksSpec

(* Whatever changes between the steps of media-pack-v2.mjs, media-pack-     *)
(* signing.mjs and media-pack-catalog.mjs, a catalogue that verifies is     *)
(* alive and lists what statements signed by the owner bind (PacksBound).   *)
THEOREM CataloguedPacksAreBound == PacksSpec => []PacksBound
<1>1. ASSUME PacksInv PROVE PacksBound
  <2>1. CASE packing.verdict = NoPackFile
    BY <2>1 DEF PacksBound
  <2>2. CASE packing.verdict # NoPackFile
    <3>1. PICK c : c = packing.verdict
      OBVIOUS
    <3>2. CatalogBound(c) /\ c.expiry > packing.now
      BY <1>1, <2>2, <3>1 DEF PacksInv, CatalogsBound
    <3> QED
      BY <3>1, <3>2 DEF PacksBound, CatalogBound, BoundBySigned, Settled
  <2> QED
    BY <2>1, <2>2
<1> QED
  BY <1>1, PacksInvariance, PTL


-----------------------------------------------------------------------------
(***************************************************************************)
(* The size gate.  The report on the disk, and the one a check holds,      *)
(* describe a dist some build left, by that build's own manifest; a check  *)
(* that says yes has compared that report, the dist and every native file  *)
(* with each other.                                                        *)
(***************************************************************************)

(* Records have their fields, functions their domains.                      *)
SizingShape ==
  /\ sizing = [pc |-> sizing.pc, profile |-> sizing.profile, commit |-> sizing.commit,
               manifest |-> sizing.manifest,
               report |-> sizing.report, left |-> sizing.left, seen |-> sizing.seen,
               seenDist |-> sizing.seenDist,
               verdict |-> sizing.verdict]
  /\ sizing.seen = [a \in ReleaseArtifacts |-> sizing.seen[a]]
  /\ sizing.profile \in Profiles

(* The dist on the disk is one a build left, with its manifest or without.  *)
LeftBy(d, b) == d.files = b.files /\ d.folders = b.folders
DistBuilt ==
  /\ DOMAIN dist = {"files", "folders", "manifest"}
  /\ \E b \in SizeBuilds : LeftBy(dist, b) /\ dist.manifest \in {b.manifest, <<>>}

(* The manifest a capture has taken is the one of the build whose files are *)
(* on the disk, as long as no new manifest is beside them.                  *)
ManifestCaptured ==
  sizing.pc = "analyse" =>
    \E b \in SizeBuilds : b.manifest = sizing.manifest /\ (dist.manifest = <<>> => LeftBy(dist, b))

(* A report describes a build.                                              *)
AgentFile(manifest) == manifest["AgentProfilePanel.vue"].file
InitialFiles(manifest) == {manifest[k].file : k \in InitialChunks(manifest)}
DescribesBuild(r, b) ==
  /\ b.manifest # <<>> /\ Analysable(b.manifest, b)
  /\ r.files = b.files
  /\ r.metrics = FrontendFacts(b.files, InitialFiles(b.manifest), AgentFile(b.manifest))
ReportShape(r) ==
  /\ r = [commit |-> r.commit, entry |-> r.entry, initial |-> r.initial, agent |-> r.agent,
          files |-> r.files, metrics |-> r.metrics, artifacts |-> r.artifacts]
  /\ \A a \in ReleaseArtifacts : r.artifacts[a] # Unmeasured => r.artifacts[a].file # Unmeasured

(* A report is of a build some time on the disk.                            *)
HonestReport(r) == ReportShape(r) /\ \E b \in SizeBuilds : DescribesBuild(r, b)

(* What a check has seen is what its report says, once the file has been    *)
(* read.                                                                    *)
EvidenceSeen ==
  /\ sizing.pc \in {"documents", "dist"} => \A a \in ReleaseArtifacts : sizing.seen[a] = Unmeasured
  /\ sizing.pc \in {"files", "done"} =>
       /\ sizing.seenDist = sizing.report.files
       /\ EvidenceFits(sizing.profile, sizing.report)
       /\ \A a \in ReleaseArtifacts :
            IF sizing.report.artifacts[a] = Unmeasured THEN a \notin sizing.left
                  /\ sizing.seen[a] = Unmeasured
            ELSE a \notin sizing.left => sizing.seen[a] = sizing.report.artifacts[a].file
  /\ sizing.pc = "done" => sizing.left = {}

(* The report on the disk, and the one a command works on.                  *)
ReportsHonest ==
  /\ sizeReport # Unmeasured => HonestReport(sizeReport)
  /\ sizing.pc \in {"write", "dist", "files", "done"} => HonestReport(sizing.report)

(* A check that says yes has weighed its report.                            *)
VerdictWeighed ==
  sizing.verdict = "ok" =>
    sizing.pc = "done" /\ \A m \in Metrics : Weight(sizing.report, m) <= sizeBudgets.limits[m]

(* The invariant of the size gate.                                          *)
SizeInv == SizingShape /\ DistBuilt /\ ManifestCaptured /\ EvidenceSeen /\ ReportsHonest
      /\ VerdictWeighed

(* Nothing is seen when a command begins.                                   *)
NothingSeen == [a \in ReleaseArtifacts |-> Unmeasured]

(* The command at rest has its fields.                                      *)
LEMMA IdleShape ==
  /\ SizeIdle = [pc |-> SizeIdle.pc, profile |-> SizeIdle.profile, commit |-> SizeIdle.commit,
                 manifest |-> SizeIdle.manifest,
                 report |-> SizeIdle.report, left |-> SizeIdle.left, seen |-> SizeIdle.seen,
                 seenDist |-> SizeIdle.seenDist,
                 verdict |-> SizeIdle.verdict]
  /\ SizeIdle.pc = "idle" /\ SizeIdle.profile \in Profiles /\ SizeIdle.verdict = "none"
  /\ SizeIdle.seen = [a \in ReleaseArtifacts |-> SizeIdle.seen[a]]
  /\ SizeIdle.seen = NothingSeen
  BY DEF SizeIdle, Profiles, NothingSeen

(* A command that gives up is at rest.                                      *)
LEMMA SizeGivesUp ==
  ASSUME sizing' = SizeIdle, DistBuilt', sizeReport' # Unmeasured => HonestReport(sizeReport')
  PROVE  SizeInv'
<1>1. sizing'.pc = "idle" /\ sizing'.verdict = "none" /\ SizingShape'
  BY IdleShape DEF SizingShape
<1> QED
  BY <1>1 DEF SizeInv, ManifestCaptured, EvidenceSeen, ReportsHonest, VerdictWeighed

(* Before the first command there is no report.                             *)
LEMMA SizeStarts == SizeInit => SizeInv
<1> SUFFICES ASSUME SizeInit PROVE SizeInv
  OBVIOUS
<1>1. sizing = SizeIdle /\ sizeReport = Unmeasured /\ dist \in SizeBuilds
  BY DEF SizeInit
<1>2. DistBuilt
  BY <1>1, SizeAssumption DEF DistBuilt, LeftBy
<1>3. sizing.pc = "idle" /\ sizing.verdict = "none" /\ SizingShape
  BY <1>1, IdleShape DEF SizingShape
<1> QED
  BY <1>1, <1>2, <1>3 DEF SizeInv, ManifestCaptured, EvidenceSeen, ReportsHonest, VerdictWeighed

(* A command that begins.                                                   *)
LEMMA SizeBegins ==
  ASSUME SizeInv, NEW pc \in {"idle", "manifest", "documents"}, NEW profile \in Profiles,
  NEW commit,
         sizing' = [SizeIdle EXCEPT !.pc = pc, !.profile = profile, !.commit = commit],
         dist' = dist, sizeReport' # Unmeasured => HonestReport(sizeReport')
  PROVE  SizeInv'
<1>1. /\ SizingShape' /\ sizing'.pc = pc /\ sizing'.verdict = "none"
      /\ \A a \in ReleaseArtifacts : sizing'.seen[a] = Unmeasured
  BY IdleShape DEF SizingShape, NothingSeen
<1>2. DistBuilt'
  BY DEF SizeInv, DistBuilt
<1> QED
  BY <1>1, <1>2 DEF SizeInv, ManifestCaptured, EvidenceSeen, ReportsHonest, VerdictWeighed

(* The manifest is taken out of the dist; that dist is a build's.           *)
LEMMA ManifestConsumed ==
  ASSUME SizeInv, ConsumeManifest
  PROVE  SizeInv'
<1>1. sizeReport' = sizeReport /\ sizing.pc = "manifest"
      /\ (sizeReport # Unmeasured => HonestReport(sizeReport))
  BY DEF ConsumeManifest, Working, SizeInv, ReportsHonest
<1>2. CASE sizing' = SizeIdle /\ dist' = dist
  <2>1. DistBuilt'
    BY <1>2 DEF SizeInv, DistBuilt
  <2> QED
    BY <1>1, <1>2, <2>1, SizeGivesUp
<1>3. CASE /\ dist.manifest # <<>>
           /\ sizing' = [sizing EXCEPT !.pc = "analyse", !.manifest = dist.manifest]
           /\ dist' = [dist EXCEPT !.manifest = <<>>]
  <2>1. PICK b \in SizeBuilds : LeftBy(dist, b) /\ dist.manifest = b.manifest
    BY <1>3 DEF SizeInv, DistBuilt
  <2>2. DOMAIN dist' = {"files", "folders", "manifest"} /\ dist'.manifest = <<>> /\ LeftBy(dist', b)
    BY <1>3, <2>1 DEF SizeInv, DistBuilt, LeftBy
  <2>3. DistBuilt'
    BY <2>2 DEF DistBuilt, LeftBy
  <2>4. SizingShape' /\ sizing'.pc = "analyse" /\ sizing'.manifest = b.manifest
        /\ sizing'.verdict = sizing.verdict
    BY <1>3, <2>1 DEF SizeInv, SizingShape
  <2>5. ManifestCaptured'
    BY <2>2, <2>4 DEF ManifestCaptured, LeftBy
  <2>6. EvidenceSeen' /\ ReportsHonest' /\ VerdictWeighed'
    BY <1>1, <2>4 DEF SizeInv, EvidenceSeen, ReportsHonest, VerdictWeighed
  <2> QED
    BY <2>3, <2>4, <2>5, <2>6 DEF SizeInv
<1> QED
  BY <1>2, <1>3 DEF ConsumeManifest, SizeFails, SizeStep

(* To be analysable is a matter of the files and folders alone.             *)
LEMMA SameFilesAnalysable ==
  ASSUME NEW m, NEW d, NEW b, LeftBy(d, b), Analysable(m, d)
  PROVE  Analysable(m, b)
  BY DEF LeftBy, Analysable, ClosedSet

(* A dist that can be analysed with the captured manifest is the one of     *)
(* that build: the report describes it.                                     *)
LEMMA DistAnalysed ==
  ASSUME SizeInv, AnalyseDist
  PROVE  SizeInv'
<1>1. /\ UNCHANGED <<dist, sizeReport>> /\ sizing.pc = "analyse" /\ DistBuilt'
      /\ sizeReport # Unmeasured => HonestReport(sizeReport)
  BY DEF AnalyseDist, Working, SizeInv, ReportsHonest, DistBuilt
<1>2. CASE sizing' = SizeIdle
  BY <1>1, <1>2, SizeGivesUp
<1>3. CASE /\ dist.manifest = <<>> /\ Analysable(sizing.manifest, dist)
           /\ sizing' = [sizing EXCEPT !.pc = "write",
                           !.report = FrontendReport(sizing.manifest, dist.files, sizing.commit)]
  <2>1. PICK b \in SizeBuilds : b.manifest = sizing.manifest /\ LeftBy(dist, b)
    BY <1>1, <1>3 DEF SizeInv, ManifestCaptured
  <2>2. PICK r : r = FrontendReport(sizing.manifest, dist.files, sizing.commit)
    OBVIOUS
  <2>3. r.files = b.files /\ r.metrics = FrontendFacts(b.files, InitialFiles(b.manifest),
                                                       AgentFile(b.manifest))
        /\ r.artifacts = NothingNative /\ ReportShape(r)
    <3>1. r = [commit |-> sizing.commit, entry |-> b.manifest["index.html"].file,
               initial |-> InitialFiles(b.manifest), agent |-> AgentFile(b.manifest),
               files |-> b.files,
               metrics |-> FrontendFacts(b.files, InitialFiles(b.manifest), AgentFile(b.manifest)),
               artifacts |-> NothingNative]
      BY <2>1, <2>2 DEF FrontendReport, InitialFiles, AgentFile, LeftBy
    <3>2. \A a \in ReleaseArtifacts : NothingNative[a] = Unmeasured
      BY DEF NothingNative
    <3> QED
      BY <3>1, <3>2 DEF ReportShape
  <2>4. DescribesBuild(r, b)
    BY <1>3, <2>1, <2>3, SizeAssumption, SameFilesAnalysable DEF DescribesBuild
  <2>5. HonestReport(r)
    BY <2>3, <2>4 DEF HonestReport
  <2>6. SizingShape' /\ sizing'.pc = "write" /\ sizing'.report = r
        /\ sizing'.verdict = sizing.verdict
    BY <1>3, <2>2 DEF SizeInv, SizingShape
  <2>7. ManifestCaptured' /\ EvidenceSeen' /\ ReportsHonest' /\ VerdictWeighed'
    BY <1>1, <2>5, <2>6 DEF SizeInv, ManifestCaptured, EvidenceSeen, ReportsHonest, VerdictWeighed
  <2> QED
    BY <1>1, <2>6, <2>7 DEF SizeInv
<1> QED
  BY <1>2, <1>3 DEF AnalyseDist, SizeFails, SizeStep

(* The report is written as it was made.                                    *)
LEMMA ReportWritten ==
  ASSUME SizeInv, WriteFrontendReport
  PROVE  SizeInv'
<1>1. sizing' = SizeIdle /\ sizeReport' = sizing.report /\ DistBuilt' /\ HonestReport(sizing.report)
  BY DEF WriteFrontendReport, SizeFails, SizeStep, Working, SizeInv, DistBuilt, ReportsHonest
<1> QED
  BY <1>1, SizeGivesUp

(* A measurement adds evidence to a report and keeps what it says of the    *)
(* frontend.                                                                *)
LEMMA NativeMeasured ==
  ASSUME SizeInv, NEW layout, MeasureNative(layout)
  PROVE  SizeInv'
<1>1. sizing' = SizeIdle /\ sizeReport # Unmeasured /\ DistBuilt' /\ HonestReport(sizeReport)
  BY DEF MeasureNative, StartSizing, SizeInv, DistBuilt, ReportsHonest
<1>2. PICK kept : sizeReport' = [sizeReport EXCEPT !.artifacts = [a \in ReleaseArtifacts |->
         IF kept[a] = Unmeasured THEN Unmeasured ELSE [layout |-> layout, file |-> kept[a]]]]
  <2> DEFINE Kept(a) == IF layout = "ci" /\ a \in {"setupLite", "portableFullZip"} THEN Unmeasured
                        ELSE nativeFiles[<<a, layout>>]
  <2>1. PICK kept : kept = [a \in ReleaseArtifacts |-> Kept(a)]
    OBVIOUS
  <2>2. \A a \in ReleaseArtifacts : kept[a] = Kept(a)
    BY <2>1
  <2>3. sizeReport' = [sizeReport EXCEPT !.artifacts = [a \in ReleaseArtifacts |->
         IF Kept(a) = Unmeasured THEN Unmeasured ELSE [layout |-> layout, file |-> Kept(a)]]]
    BY DEF MeasureNative
  <2>4. [a \in ReleaseArtifacts |->
         IF Kept(a) = Unmeasured THEN Unmeasured ELSE [layout |-> layout, file |-> Kept(a)]]
        = [a \in ReleaseArtifacts |->
         IF kept[a] = Unmeasured THEN Unmeasured ELSE [layout |-> layout, file |-> kept[a]]]
    BY <2>2
  <2> QED
    BY <2>3, <2>4
<1>3. PICK b \in SizeBuilds : DescribesBuild(sizeReport, b)
  BY <1>1 DEF HonestReport
<1>4. PICK artifacts : artifacts = [a \in ReleaseArtifacts |->
         IF kept[a] = Unmeasured THEN Unmeasured ELSE [layout |-> layout, file |-> kept[a]]]
  OBVIOUS
<1>5. ASSUME NEW a \in ReleaseArtifacts, artifacts[a] # Unmeasured
      PROVE artifacts[a].file # Unmeasured
  BY <1>4, <1>5
<1>6. PICK r, old : r = sizeReport' /\ old = sizeReport
  OBVIOUS
<1>7. ReportShape(r) /\ r.files = old.files /\ r.metrics = old.metrics
  BY <1>1, <1>2, <1>4, <1>5, <1>6 DEF HonestReport, ReportShape
<1>8. HonestReport(r)
  BY <1>3, <1>6, <1>7 DEF HonestReport, DescribesBuild
<1> QED
  BY <1>1, <1>6, <1>8, SizeGivesUp

(* A capture and a check begin with nothing seen.                           *)
LEMMA CaptureOrCheckBegins ==
  ASSUME SizeInv, BeginCapture \/ (\E profile \in Profiles : BeginCheck(profile, sizeHead))
  PROVE  SizeInv'
<1>1. UNCHANGED <<dist, sizeReport>> /\ (sizeReport # Unmeasured => HonestReport(sizeReport))
  BY DEF BeginCapture, BeginCheck, SizeInv, ReportsHonest
<1>2. ASSUME NEW pc \in {"idle", "manifest", "documents"}, NEW profile \in Profiles, NEW commit,
             sizing' = [SizeIdle EXCEPT !.pc = pc, !.profile = profile, !.commit = commit]
      PROVE  SizeInv'
  BY <1>1, <1>2, SizeBegins
<1>3. CASE BeginCapture
  <2>1. sizing' = [SizeIdle EXCEPT !.pc = "manifest", !.commit = sizeHead]
        /\ SizeIdle.profile \in Profiles
    BY <1>3, IdleShape DEF BeginCapture, StartSizing
  <2>2. sizing' = [SizeIdle EXCEPT !.pc = "manifest", !.profile = SizeIdle.profile,
                   !.commit = sizeHead]
    BY <2>1 DEF SizeIdle
  <2> QED
    BY <1>2, <2>1, <2>2
<1>4. CASE \E profile \in Profiles : BeginCheck(profile, sizeHead)
  BY <1>2, <1>4 DEF BeginCheck, StartSizing
<1> QED
  BY <1>3, <1>4

(* A check works on the report it read.                                     *)
LEMMA DocumentsRead ==
  ASSUME SizeInv, ReadDocuments
  PROVE  SizeInv'
<1>1. /\ UNCHANGED <<dist, sizeReport, sizeBudgets>> /\ sizing.pc = "documents" /\ DistBuilt'
      /\ sizeReport # Unmeasured => HonestReport(sizeReport)
  BY DEF ReadDocuments, Working, SizeInv, ReportsHonest, DistBuilt
<1>2. CASE sizing' = SizeIdle
  BY <1>1, <1>2, SizeGivesUp
<1>3. CASE sizeReport # Unmeasured /\ sizing' = [sizing EXCEPT !.pc = "dist", !.report = sizeReport]
  <2>1. SizingShape' /\ sizing'.pc = "dist" /\ sizing'.report = sizeReport
        /\ sizing'.verdict = sizing.verdict
        /\ sizing'.seen = sizing.seen
    BY <1>3 DEF SizeInv, SizingShape
  <2>2. ManifestCaptured' /\ EvidenceSeen' /\ ReportsHonest' /\ VerdictWeighed'
    BY <1>1, <1>3, <2>1 DEF SizeInv, ManifestCaptured, EvidenceSeen, ReportsHonest, VerdictWeighed
  <2> QED
    BY <1>1, <2>1, <2>2 DEF SizeInv
<1> QED
  BY <1>2, <1>3 DEF ReadDocuments, SizeFails, SizeStep

(* The evidence is what the profile asks for, and the dist is the report's. *)
LEMMA DistChecked ==
  ASSUME SizeInv, CheckDist
  PROVE  SizeInv'
<1>1. /\ UNCHANGED <<dist, sizeReport, sizeBudgets>> /\ sizing.pc = "dist" /\ DistBuilt'
      /\ sizeReport # Unmeasured => HonestReport(sizeReport)
  BY DEF CheckDist, Working, SizeInv, ReportsHonest, DistBuilt
<1>2. CASE sizing' = SizeIdle
  BY <1>1, <1>2, SizeGivesUp
<1>3. CASE /\ SameDist(dist, sizing.report) /\ EvidenceFits(sizing.profile, sizing.report)
           /\ sizing' = [sizing EXCEPT !.pc = "files", !.seenDist = dist.files,
                           !.left = {a \in ReleaseArtifacts :
                                       sizing.report.artifacts[a] # Unmeasured}]
  <2>1. PICK left : left = {a \in ReleaseArtifacts : sizing.report.artifacts[a] # Unmeasured}
    OBVIOUS
  <2>2. /\ SizingShape' /\ sizing'.pc = "files" /\ sizing'.report = sizing.report
        /\ sizing'.verdict = sizing.verdict /\ sizing'.seen = sizing.seen /\ sizing'.left = left
        /\ sizing'.profile = sizing.profile /\ sizing'.seenDist = dist.files
    BY <1>3, <2>1 DEF SizeInv, SizingShape
  <2>3. EvidenceSeen'
    <3>1. dist.files = sizing.report.files
      BY <1>3 DEF SameDist
    <3>2. \A a \in ReleaseArtifacts : sizing.seen[a] = Unmeasured
      BY <1>1 DEF SizeInv, EvidenceSeen
    <3> QED
      BY <1>3, <2>1, <2>2, <3>1, <3>2 DEF EvidenceSeen
  <2>4. ManifestCaptured' /\ ReportsHonest' /\ VerdictWeighed'
    BY <1>1, <2>2 DEF SizeInv, ManifestCaptured, ReportsHonest, VerdictWeighed
  <2> QED
    BY <1>1, <2>2, <2>3, <2>4 DEF SizeInv
<1> QED
  BY <1>2, <1>3 DEF CheckDist, SizeFails, SizeStep

(* A native file is compared with its evidence.                             *)
LEMMA FileChecked ==
  ASSUME SizeInv, CheckFile
  PROVE  SizeInv'
<1>1. /\ UNCHANGED <<dist, sizeReport, sizeBudgets>> /\ sizing.pc = "files" /\ DistBuilt'
      /\ sizeReport # Unmeasured => HonestReport(sizeReport)
  BY DEF CheckFile, Working, SizeInv, ReportsHonest, DistBuilt
<1>2. CASE sizing' = SizeIdle
  BY <1>1, <1>2, SizeGivesUp
<1>3. ASSUME NEW a \in sizing.left,
             sizing' = [sizing EXCEPT !.left = @ \ {a}, !.seen[a] = sizing.report.artifacts[a].file]
      PROVE  SizeInv'
  <2>1. PICK file, seen : file = sizing.report.artifacts[a].file
        /\ seen = [sizing.seen EXCEPT ![a] = file]
    OBVIOUS
  <2>2. seen = [c \in ReleaseArtifacts |-> seen[c]]
        /\ \A c \in ReleaseArtifacts : seen[c] = IF c = a THEN file ELSE sizing.seen[c]
    BY <2>1 DEF SizeInv, SizingShape
  <2>3. /\ SizingShape' /\ sizing'.pc = "files" /\ sizing'.report = sizing.report
        /\ sizing'.verdict = sizing.verdict /\ sizing'.seen = seen
        /\ sizing'.left = sizing.left \ {a}
        /\ sizing'.profile = sizing.profile /\ sizing'.seenDist = sizing.seenDist
    BY <1>1, <1>3, <2>1, <2>2 DEF SizeInv, SizingShape
  <2>4. EvidenceSeen'
    <3>1. /\ sizing.seenDist = sizing.report.files /\ EvidenceFits(sizing.profile, sizing.report)
          /\ \A c \in ReleaseArtifacts :
                IF sizing.report.artifacts[c] = Unmeasured THEN c \notin sizing.left
                      /\ sizing.seen[c] = Unmeasured
                ELSE c \notin sizing.left => sizing.seen[c] = sizing.report.artifacts[c].file
      BY <1>1 DEF SizeInv, EvidenceSeen
    <3>2. sizing.report.artifacts[a] # Unmeasured \/ a \notin ReleaseArtifacts
      BY <1>3, <3>1
    <3> QED
      BY <2>1, <2>2, <2>3, <3>1, <3>2 DEF EvidenceSeen
  <2>5. ManifestCaptured' /\ ReportsHonest' /\ VerdictWeighed'
    BY <1>1, <2>3 DEF SizeInv, ManifestCaptured, ReportsHonest, VerdictWeighed
  <2> QED
    BY <1>1, <2>3, <2>4, <2>5 DEF SizeInv
<1> QED
  BY <1>2, <1>3 DEF CheckFile, SizeFails, SizeStep

(* The verdict, when every file has been compared.                          *)
LEMMA VerdictGiven ==
  ASSUME SizeInv, SizeVerdict
  PROVE  SizeInv'
<1>1. /\ UNCHANGED <<dist, sizeReport, sizeBudgets>> /\ sizing.pc = "files" /\ sizing.left = {}
      /\ DistBuilt'
  BY DEF SizeVerdict, Working, SizeInv, DistBuilt
<1>2. PICK verdict : /\ sizing' = [sizing EXCEPT !.pc = "done", !.verdict = verdict]
                     /\ verdict = "ok" => \A m \in Metrics : Weight(sizing.report,
                                                                    m) <= sizeBudgets.limits[m]
  <2>1. PICK v : v = IF \A m \in Metrics : Weight(sizing.report, m) <= sizeBudgets.limits[m]
        THEN "ok" ELSE "exceeded"
    OBVIOUS
  <2>2. sizing' = [sizing EXCEPT !.pc = "done", !.verdict = v]
    BY <2>1, Zenon DEF SizeVerdict, SizeStep
  <2>3. v = "ok" => \A m \in Metrics : Weight(sizing.report, m) <= sizeBudgets.limits[m]
    <3>1. "exceeded" # "ok"
      OBVIOUS
    <3> QED
      BY <2>1, <3>1, Zenon
  <2> QED
    BY <2>2, <2>3, Zenon
<1>3. /\ SizingShape' /\ sizing'.pc = "done" /\ sizing'.report = sizing.report
      /\ sizing'.verdict = verdict /\ sizing'.seen = sizing.seen /\ sizing'.left = {}
      /\ sizing'.profile = sizing.profile /\ sizing'.seenDist = sizing.seenDist
  BY <1>1, <1>2 DEF SizeInv, SizingShape
<1>4. EvidenceSeen' /\ ManifestCaptured' /\ ReportsHonest'
  BY <1>1, <1>3 DEF SizeInv, EvidenceSeen, ManifestCaptured, ReportsHonest
<1>5. VerdictWeighed'
  BY <1>1, <1>2, <1>3 DEF VerdictWeighed
<1> QED
  BY <1>1, <1>3, <1>4, <1>5 DEF SizeInv

(* A check that ends and a command that is killed.                          *)
LEMMA SizeEnds ==
  ASSUME SizeInv, EndCheck \/ KillSizing
  PROVE  SizeInv'
<1>1. sizing' = SizeIdle /\ DistBuilt'
  BY DEF EndCheck, KillSizing, SizeFails, SizeStep, SizeInv, DistBuilt
<1>2. sizeReport' = sizeReport \/ sizeReport' = Unmeasured
  BY DEF EndCheck, KillSizing
<1> QED
  BY <1>1, <1>2, SizeGivesUp DEF SizeInv, ReportsHonest

(* Builds and commits beside a command.                                     *)
LEMMA BesideTheSizes ==
  ASSUME SizeInv, BuildFrontend \/ BuildNative \/ CommitMoves \/ UNCHANGED sizeVars
  PROVE  SizeInv'
<1>1. UNCHANGED <<sizing, sizeReport, sizeBudgets>> /\ (dist' = dist \/ dist' \in SizeBuilds)
  BY DEF BuildFrontend, BuildNative, CommitMoves, sizeVars
<1>2. CASE dist' = dist
  BY <1>1, <1>2 DEF SizeInv, SizingShape, DistBuilt, ManifestCaptured, EvidenceSeen, ReportsHonest,
      VerdictWeighed
<1>3. CASE dist' \in SizeBuilds
  <2>1. DistBuilt' /\ dist'.manifest # <<>>
    BY <1>3, SizeAssumption DEF DistBuilt, LeftBy
  <2>2. ManifestCaptured'
    BY <1>1, <2>1 DEF SizeInv, ManifestCaptured
  <2> QED
    BY <1>1, <2>1, <2>2 DEF SizeInv, SizingShape, EvidenceSeen, ReportsHonest, VerdictWeighed
<1> QED
  BY <1>1, <1>2, <1>3

(* SizeInv is an invariant of the size gate, for any builds, native files   *)
(* and budgets.                                                             *)
THEOREM SizeInvariance == SizeSpec => []SizeInv
<1>1. ASSUME SizeInv, [SizeNext]_sizeVars PROVE SizeInv'
  <2>1. CASE SizeNext
    BY <1>1, <2>1, CaptureOrCheckBegins, ManifestConsumed, DistAnalysed, ReportWritten,
        NativeMeasured,
       DocumentsRead, DistChecked, FileChecked, VerdictGiven, SizeEnds, BesideTheSizes,
           Zenon DEF SizeNext
  <2>2. CASE UNCHANGED sizeVars
    BY <1>1, <2>2, BesideTheSizes
  <2> QED
    BY <1>1, <2>1, <2>2
<1> QED
  BY <1>1, SizeStarts, PTL DEF SizeSpec

(* What a profile asks for beside the frontend are artifacts of the         *)
(* release.                                                                 *)
LEMMA RequiredArtifacts ==
  ASSUME NEW profile \in Profiles
  PROVE  RequiredBy(profile) \ FrontendMetrics =
           {a \in ReleaseArtifacts : a \in RequiredBy(profile)}
  BY DEF Profiles, RequiredBy, CiRequired, FrontendMetrics, ReleaseArtifacts, Metrics

(* A check of size-budget.mjs that says yes has seen a frontend some build  *)
(* left that fits the budgets by its own manifest, and exactly the native   *)
(* files its profile asks for, each within its limit (CheckedFits).         *)
THEOREM ChecksFit == SizeSpec => []CheckedFits
<1>1. ASSUME SizeInv, sizing.verdict = "ok" PROVE CheckedFits
  <2>1. /\ sizing.pc = "done" /\ sizing.left = {} /\ sizing.profile \in Profiles
        /\ \A m \in Metrics : Weight(sizing.report, m) <= sizeBudgets.limits[m]
        /\ sizing.seenDist = sizing.report.files /\ EvidenceFits(sizing.profile, sizing.report)
        /\ \A a \in ReleaseArtifacts :
              IF sizing.report.artifacts[a] = Unmeasured THEN sizing.seen[a] = Unmeasured
              ELSE sizing.seen[a] = sizing.report.artifacts[a].file
        /\ HonestReport(sizing.report)
    BY <1>1 DEF SizeInv, SizingShape, EvidenceSeen, ReportsHonest, VerdictWeighed
  <2>2. PICK b \in SizeBuilds : DescribesBuild(sizing.report, b)
    BY <2>1 DEF HonestReport
  <2>3. \A m \in FrontendMetrics :
           FrontendFacts(b.files, InitialFiles(b.manifest),
                         AgentFile(b.manifest))[m] <= sizeBudgets.limits[m]
    BY <2>1, <2>2 DEF DescribesBuild, Weight, Metrics
  <2>4. \A a \in ReleaseArtifacts : sizing.seen[a] # Unmeasured <=> a \in RequiredBy(sizing.profile)
    BY <2>1 DEF EvidenceFits, HonestReport, ReportShape
  <2>5. {a \in ReleaseArtifacts : sizing.seen[a] # Unmeasured} =
          RequiredBy(sizing.profile) \ FrontendMetrics
    BY <2>1, <2>4, RequiredArtifacts
  <2>6. ASSUME NEW a \in ReleaseArtifacts, sizing.seen[a] # Unmeasured
        PROVE  sizing.seen[a][1] <= sizeBudgets.limits[a]
    <3>1. a \notin FrontendMetrics /\ a \in Metrics
      BY DEF FrontendMetrics, ReleaseArtifacts, Metrics
    <3> QED
      BY <2>1, <2>6, <3>1 DEF Weight
  <2> QED
    BY <2>1, <2>2, <2>3, <2>5, <2>6 DEF CheckedFits, DescribesBuild, InitialFiles, AgentFile
<1>2. SizeInv => CheckedFits
  BY <1>1 DEF CheckedFits
<1> QED
  BY <1>2, SizeInvariance, PTL

=============================================================================
