------------------------ MODULE DiscoveryCycleProofs ------------------------
(***************************************************************************)
(* Proofs for DiscoveryCycle, for every catalogue size, every number of    *)
(* lanes and every bound: the cut-off leaves nothing out, and only what a  *)
(* whole walk did not confirm is marked as missing.                        *)
(*                                                                         *)
(* CutoffCovers is inductive with what the lanes keep among them (Walk):   *)
(* every unprocessed target is still in the list, awaited by a lane, or    *)
(* beyond the cut-off.  OnlyUnconfirmedMarked needs the way of a confirmed *)
(* listing through seen and the suspects as well (Marking).                *)
(***************************************************************************)
EXTENDS DiscoveryCycle, TLAPS

(* A target that the lanes have dealt with, or must not deal with.         *)
Awaited(p) == \E l \in Lanes : run.busy[l] = p

Beyond(p) ==
    /\ run.cutoff # NoUrl
    /\ Rank(run.from, run.cutoff) <= Rank(run.from, p)

Unstarted ==
    run.pc = "discover" =>
        /\ run.cutoff = NoUrl
        /\ \A p \in Products : run.outcome[p] = "none"
        /\ \A l \in Lanes : run.busy[l] = NoUrl

RestUntouched == \A p \in run.rest : run.outcome[p] = "none" /\ ~Awaited(p)

Covered ==
    run.pc = "extract" =>
        \A p \in run.targets :
            run.outcome[p] = "none" => p \in run.rest \/ Awaited(p) \/ Beyond(p)

RestBeyond ==
    run.pc = "extract" /\ run.cutoff # NoUrl => \A p \in run.rest : Beyond(p)

Stopped ==
    run.pc = "extract" =>
        \A l \in Lanes \ run.looping : run.cutoff # NoUrl /\ run.busy[l] = NoUrl

Walk == Unstarted /\ RestUntouched /\ Covered /\ RestBeyond /\ Stopped /\ CutoffCovers

(* A listing that the run has found on the shop's side.                    *)
Found(p) == run.outcome[p] \in {"ok", "skipped"}

Marking ==
    /\ run.complete => run.targets = FirstUrls(run.offered)
    /\ run.pc # "mark" => run.marked = {}
    /\ run.pc \in {"select", "mark"} => run.complete /\ run.cutoff = NoUrl
    /\ run.pc \in {"extract", "touch", "record"} =>
          \A p \in Active : run.outcome[p] = "ok" => p \in seen
    /\ run.pc = "record" =>
          \A p \in Active : run.outcome[p] = "skipped" => p \in seen
    /\ run.pc = "select" => \A p \in run.suspects \cap Active : ~Found(p)
    /\ run.pc = "mark" => \A p \in run.suspects \cup run.marked : ~Found(p)

IInv == TypeOK /\ Walk /\ Marking

-----------------------------------------------------------------------------
(* The first product is a product, and so is where a walk starts.          *)
LEMMA StartIsProduct ==
    ASSUME NEW T \in SUBSET Products, resume \in Products \cup {NoUrl}
    PROVE  1 \in Products /\ Start(T) \in Products
  BY DiscoveryAssumption DEF Start, Products

(* The record of a run that has not started.                               *)
LEMMA IdleRunType == IdleRun \in RunRecord
  <1>1. 1 \in Products
    BY DiscoveryAssumption DEF Products
  <1> QED
    BY <1>1 DEF IdleRun, RunRecord, Steps

(* The initial state is well-typed.                                        *)
LEMMA TypeInit == Init => TypeOK
  <1> SUFFICES ASSUME Init PROVE TypeOK
    OBVIOUS
  <1>1. run \in RunRecord
    BY IdleRunType DEF Init
  <1>2. changes \in 0..MaxChanges /\ faults \in 0..MaxFaults
    BY DiscoveryAssumption DEF Init
  <1> QED
    BY <1>1, <1>2 DEF Init, TypeOK

(* Persisting and marking keep the two timestamps with active listings.    *)
LEMMA PersistType ==
    ASSUME TypeOK, NEW p \in Products, Persist(p)
    PROVE  /\ listing' \in [Products -> {"none", "active", "missing"}]
           /\ seen' \subseteq Active'
           /\ fresh' \subseteq Active'
           /\ Active' = Active \cup {p}
  BY DEF TypeOK, Persist, Active

(* The same for a listing that is marked as missing.                       *)
LEMMA MarkMissingType ==
    ASSUME TypeOK, NEW p \in Products, MarkMissing(p)
    PROVE  /\ listing' \in [Products -> {"none", "active", "missing"}]
           /\ seen' \subseteq Active'
           /\ fresh' \subseteq Active'
           /\ Active' = Active \ {p}
  BY DEF TypeOK, MarkMissing, Active

(* The walk starts with a well-formed record.                              *)
LEMMA BeginWalkType ==
    ASSUME TypeOK, NEW T \in SUBSET Products, NEW c \in BOOLEAN, BeginWalk(T, c)
    PROVE  run' \in RunRecord
  BY StartIsProduct DEF BeginWalk, TypeOK, RunRecord, Steps

(* Type correctness is inductive on its own.                               *)
LEMMA TypeStep == TypeOK /\ [Next]_vars => TypeOK'
  <1> SUFFICES ASSUME TypeOK, [Next]_vars
               PROVE  TypeOK'
    OBVIOUS
  <1> USE DiscoveryAssumption
  <1>1. CASE StartRun
    BY <1>1, IdleRunType DEF StartRun, TypeOK, Active, RunRecord, Steps
  <1>2. CASE DiscoverAll
    <2>1. FirstUrls(catalogue) \in SUBSET Products
      BY DEF FirstUrls, TypeOK
    <2> QED
      BY <1>2, <2>1, BeginWalkType DEF DiscoverAll, BeginWalk, TypeOK, Active
  <1>3. CASE DiscoverPart
    <2>1. PICK T \in SUBSET catalogue : BeginWalk(T, FALSE)
      BY <1>3 DEF DiscoverPart
    <2>2. T \in SUBSET Products
      BY <2>1 DEF TypeOK
    <2>3. run' \in RunRecord
      BY <2>1, <2>2, BeginWalkType
    <2>4. UNCHANGED <<catalogue, listing, seen, fresh, resume, cycle, changes>>
      BY <2>1 DEF BeginWalk
    <2>5. faults' \in 0..MaxFaults
      BY <1>3 DEF DiscoverPart, TypeOK
    <2> QED
      BY <2>3, <2>4, <2>5 DEF TypeOK, Active
  <1>4. ASSUME NEW l \in Lanes, NEW p \in Products, Skip(l, p)
        PROVE  TypeOK'
    BY <1>4 DEF Skip, TypeOK, Active, RunRecord, Steps
  <1>5. ASSUME NEW l \in Lanes, NEW p \in Products, CutOff(l, p)
        PROVE  TypeOK'
    BY <1>5 DEF CutOff, EarlierCutoff, TypeOK, Active, RunRecord, Steps
  <1>6. ASSUME NEW l \in Lanes, NEW p \in Products, Request(l, p)
        PROVE  TypeOK'
    BY <1>6 DEF Request, TypeOK, Active, RunRecord, Steps
  <1>7. ASSUME NEW l \in Lanes, NEW p \in Products, Extracted(l, p)
        PROVE  TypeOK'
    <2>1. run' \in RunRecord
      BY <1>7 DEF Extracted, TypeOK, RunRecord, Steps
    <2> QED
      BY <1>7, <2>1, PersistType DEF Extracted, TypeOK
  <1>8. ASSUME NEW l \in Lanes, NEW p \in Products, ExtractFails(l, p)
        PROVE  TypeOK'
    BY <1>8 DEF ExtractFails, TypeOK, Active, RunRecord, Steps
  <1>9. CASE TimeOver
    <2>1. run' \in RunRecord
      BY <1>9 DEF TimeOver, TypeOK, RunRecord
    <2>2. faults' \in 0..MaxFaults
      BY <1>9 DEF TimeOver, TypeOK
    <2> QED
      BY <1>9, <2>1, <2>2 DEF TimeOver, TypeOK, Active
  <1>10. CASE AllReturned
    BY <1>10 DEF AllReturned, TypeOK, Active, RunRecord, Steps
  <1>11. CASE Touch
    BY <1>11 DEF Touch, TypeOK, Active, RunRecord, Steps
  <1>12. CASE RecordCycle
    <2>1. run' \in RunRecord
      <3>1. CASE run' = [run EXCEPT !.pc = "gate"]
        BY <3>1 DEF TypeOK, RunRecord, Steps
      <3>2. CASE run' = [run EXCEPT
                       !.pc = IF DetectsMissing THEN "select" ELSE "gate",
                       !.suspects = IF DetectsMissing THEN Products \ seen ELSE {}]
        BY <3>2 DEF TypeOK, RunRecord, Steps
      <3> QED
        BY <1>12, <3>1, <3>2 DEF RecordCycle
    <2>2. resume' \in Products \cup {NoUrl} /\ seen' \subseteq Active
      BY <1>12 DEF RecordCycle, TypeOK, RunRecord
    <2> QED
      BY <1>12, <2>1, <2>2 DEF RecordCycle, TypeOK, Active
  <1>13. CASE SelectMissing
    BY <1>13 DEF SelectMissing, TypeOK, Active, RunRecord, Steps
  <1>14. ASSUME NEW p \in Products, Mark(p)
         PROVE  TypeOK'
    <2>1. run' \in RunRecord
      BY <1>14 DEF Mark, TypeOK, RunRecord, Steps
    <2> QED
      BY <1>14, <2>1, MarkMissingType DEF Mark, TypeOK
  <1>15. CASE Gate
    BY <1>15, IdleRunType DEF Gate, TypeOK, Active, RunRecord, Steps
  <1>16. CASE RunDies
    BY <1>16, IdleRunType DEF RunDies, TypeOK, Active
  <1>17. ASSUME NEW p \in Products, RefreshOk(p)
         PROVE  TypeOK'
    <2>1. run' \in RunRecord
      BY <1>17 DEF RefreshOk, TypeOK, RunRecord
    <2> QED
      BY <1>17, <2>1, PersistType DEF RefreshOk, TypeOK
  <1>18. ASSUME NEW p \in Products, RefreshUnavailable(p)
         PROVE  TypeOK'
    BY <1>18, MarkMissingType DEF RefreshUnavailable, TypeOK
  <1>19. ASSUME NEW p \in Products, Age(p)
         PROVE  TypeOK'
    BY <1>19 DEF Age, TypeOK, Active, RunRecord
  <1>20. ASSUME NEW p \in Products, Change(p)
         PROVE  TypeOK'
    BY <1>20 DEF Change, TypeOK, Active
  <1>21. CASE UNCHANGED vars
    BY <1>21 DEF vars, TypeOK, Active
  <1> QED
    BY <1>1, <1>2, <1>3, <1>4, <1>5, <1>6, <1>7, <1>8, <1>9, <1>10, <1>11, <1>12,
       <1>13, <1>14, <1>15, <1>16, <1>17, <1>18, <1>19, <1>20, <1>21
    DEF Next, RunStep, Lane

(* Type correctness of the discovery cycle.                                *)
THEOREM TypeCorrect == Spec => []TypeOK
  BY TypeInit, TypeStep, PTL DEF Spec

-----------------------------------------------------------------------------
(* The cut-off moves towards the front only, up to the lane's own target.  *)
LEMMA EarlierCutoffBeyond ==
    ASSUME TypeOK, NEW p \in Products
    PROVE  /\ EarlierCutoff(p) \in Products
           /\ Rank(run.from, EarlierCutoff(p)) <= Rank(run.from, p)
           /\ run.cutoff # NoUrl =>
                 Rank(run.from, EarlierCutoff(p)) <= Rank(run.from, run.cutoff)
  <1>1. run.from \in Products /\ run.cutoff \in Products \cup {NoUrl}
    BY DEF TypeOK, RunRecord
  <1>2. \A q \in Products : Rank(run.from, q) \in Int
    BY <1>1, DiscoveryAssumption DEF Rank, Products
  <1> QED
    BY <1>1, <1>2 DEF EarlierCutoff

(* The part of the run that the walk is about.                             *)
WalkPart == <<run.pc, run.targets, run.from, run.rest, run.looping, run.busy,
              run.cutoff, run.outcome>>

(* Walk depends on WalkPart only.                                          *)
LEMMA WalkFrame ==
    ASSUME Walk, UNCHANGED WalkPart
    PROVE  Walk'
  BY DEF WalkPart, Walk, Unstarted, RestUntouched, Covered, RestBeyond, Stopped,
         CutoffCovers, Awaited, Beyond

(* Past the lanes only CutoffCovers and the untouched rest matter, and the *)
(* steps leave what they speak of alone.                                   *)
LEMMA WalkJudged ==
    ASSUME Walk, UNCHANGED <<run.targets, run.from, run.rest, run.busy,
                             run.cutoff, run.outcome>>,
           run.pc \in Judged, run'.pc \in Judged
    PROVE  Walk'
  BY DEF Walk, Unstarted, RestUntouched, Covered, RestBeyond, Stopped,
         CutoffCovers, Awaited, Beyond, Judged

(* A run that has not begun to walk.                                       *)
LEMMA WalkIdle ==
    ASSUME run'.pc \in {"idle", "discover"}, run'.rest = {}, run'.cutoff = NoUrl,
           \A p \in Products : run'.outcome[p] = "none",
           \A l \in Lanes : run'.busy[l] = NoUrl
    PROVE  Walk'
  BY DEF Walk, Unstarted, RestUntouched, Covered, RestBeyond, Stopped,
         CutoffCovers, Judged

(* discover() has returned: every target is in the list, no lane awaits    *)
(* one and nothing is cut off.                                             *)
LEMMA WalkBegins ==
    ASSUME TypeOK, Walk, NEW T \in SUBSET Products, NEW c, BeginWalk(T, c)
    PROVE  Walk'
  <1>1. run.pc = "discover" /\ run \in RunRecord
    BY DEF BeginWalk, TypeOK
  <1>2. /\ run'.pc = "extract" /\ run'.targets = T /\ run'.rest = T
        /\ run'.cutoff = NoUrl /\ run'.looping = Lanes
        /\ run'.outcome = run.outcome /\ run'.busy = run.busy
    BY <1>1 DEF BeginWalk, RunRecord, Walk, Unstarted
  <1>3. \A p \in Products : run.outcome[p] = "none"
    BY <1>1 DEF Walk, Unstarted
  <1>4. \A l \in Lanes : run.busy[l] = NoUrl
    BY <1>1 DEF Walk, Unstarted
  <1>5. \A p \in Products : p # NoUrl
    BY DEF Products, NoUrl
  <1> QED
    BY <1>2, <1>3, <1>4, <1>5
    DEF Walk, Unstarted, RestUntouched, Covered, RestBeyond, Stopped,
        CutoffCovers, Awaited, Beyond, Judged

(* What the lanes keep among them is inductive.                            *)
LEMMA WalkStep == TypeOK /\ TypeOK' /\ Walk /\ [Next]_vars => Walk'
  <1> SUFFICES ASSUME TypeOK, TypeOK', Walk, [Next]_vars
               PROVE  Walk'
    OBVIOUS
  <1> USE DiscoveryAssumption
  <1>t. /\ run \in RunRecord
        /\ \A p \in Products : p # NoUrl
    BY DEF TypeOK, Products, NoUrl
  <1>1. CASE StartRun
    BY <1>1, WalkIdle DEF StartRun, IdleRun
  <1>2. CASE DiscoverAll
    <2>1. FirstUrls(catalogue) \in SUBSET Products
      BY DEF FirstUrls, TypeOK
    <2> QED
      BY <1>2, <2>1, WalkBegins DEF DiscoverAll
  <1>3. CASE DiscoverPart
    <2>1. SUBSET catalogue \subseteq SUBSET Products
      BY DEF TypeOK
    <2> QED
      BY <1>3, <2>1, WalkBegins DEF DiscoverPart
  <1>4. ASSUME NEW l \in Lanes, NEW p \in Products, Skip(l, p)
        PROVE  Walk'
    BY <1>4, <1>t
    DEF Skip, Ready, Next1, RunRecord, Walk, Unstarted, RestUntouched, Covered,
        RestBeyond, Stopped, CutoffCovers, Awaited, Beyond, Judged
  <1>5. ASSUME NEW l \in Lanes, NEW p \in Products, CutOff(l, p)
        PROVE  Walk'
    <2> DEFINE c == EarlierCutoff(p)
    <2>1. /\ run.pc = "extract" /\ run'.pc = "extract"
          /\ run'.targets = run.targets /\ run'.from = run.from
          /\ run'.outcome = run.outcome /\ run'.busy = run.busy
          /\ run'.rest = run.rest \ {p} /\ run'.looping = run.looping \ {l}
          /\ run'.cutoff = c /\ c # NoUrl
          /\ run.busy[l] = NoUrl
      BY <1>5, <1>t, EarlierCutoffBeyond DEF CutOff, Ready, RunRecord
    <2>2. \A q \in Products : Rank(run.from, q) \in Int
      BY <1>t DEF RunRecord, Rank, Products
    <2>3. \A q \in Products : Beyond(q) => Beyond(q)'
      <3>1. SUFFICES ASSUME NEW q \in Products, Beyond(q)
                     PROVE  Rank(run.from, c) <= Rank(run.from, q)
        BY <2>1 DEF Beyond, Rank
      <3>2. run.cutoff \in Products
        BY <3>1, <1>t DEF Beyond, RunRecord
      <3> HIDE DEF c
      <3> QED
        BY <2>2, <3>1, <3>2, EarlierCutoffBeyond DEF Beyond, c
    <2>4. \A q \in run.rest : Beyond(q)'
      <3>1. SUFFICES ASSUME NEW q \in run.rest
                     PROVE  Rank(run.from, c) <= Rank(run.from, q)
        BY <2>1 DEF Beyond, Rank
      <3>2. Rank(run.from, p) <= Rank(run.from, q) /\ q \in Products
        BY <1>5, <1>t DEF CutOff, Next1, RunRecord
      <3> QED
        BY <2>2, <3>2, EarlierCutoffBeyond
    <2> HIDE DEF c
    <2>5. RestUntouched' /\ Unstarted' /\ CutoffCovers'
      BY <2>1 DEF Walk, RestUntouched, Unstarted, CutoffCovers, Judged, Awaited
    <2>6. Covered'
      BY <2>1, <2>3, <2>4, <1>t DEF Walk, Covered, Awaited, RunRecord
    <2>7. RestBeyond'
      BY <2>1, <2>4 DEF RestBeyond
    <2>8. Stopped'
      BY <2>1 DEF Walk, Stopped
    <2> QED
      BY <2>5, <2>6, <2>7, <2>8 DEF Walk
  <1>6. ASSUME NEW l \in Lanes, NEW p \in Products, Request(l, p)
        PROVE  Walk'
    BY <1>6, <1>t
    DEF Request, Ready, Next1, RunRecord, Walk, Unstarted, RestUntouched, Covered,
        RestBeyond, Stopped, CutoffCovers, Awaited, Beyond, Judged
  <1>7. ASSUME NEW l \in Lanes, NEW p \in Products, Extracted(l, p)
        PROVE  Walk'
    BY <1>7, <1>t
    DEF Extracted, RunRecord, Walk, Unstarted, RestUntouched, Covered,
        RestBeyond, Stopped, CutoffCovers, Awaited, Beyond, Judged
  <1>8. ASSUME NEW l \in Lanes, NEW p \in Products, ExtractFails(l, p)
        PROVE  Walk'
    BY <1>8, <1>t
    DEF ExtractFails, RunRecord, Walk, Unstarted, RestUntouched, Covered,
        RestBeyond, Stopped, CutoffCovers, Awaited, Beyond, Judged
  <1>9. CASE TimeOver
    <2>1. UNCHANGED WalkPart
      BY <1>9, <1>t DEF TimeOver, WalkPart, RunRecord
    <2> QED
      BY <2>1, WalkFrame
  <1>10. CASE AllReturned
    BY <1>10, <1>t
    DEF AllReturned, RunRecord, Walk, Unstarted, RestUntouched, Covered,
        RestBeyond, Stopped, CutoffCovers, Awaited, Beyond, Judged
  <1>11. CASE Touch
    BY <1>11, <1>t, WalkJudged DEF Touch, RunRecord, Judged
  <1>12. CASE RecordCycle
    <2>1. CASE run' = [run EXCEPT !.pc = "gate"]
      BY <1>12, <1>t, <2>1, WalkJudged DEF RecordCycle, RunRecord, Judged
    <2>2. CASE run' = [run EXCEPT
                       !.pc = IF DetectsMissing THEN "select" ELSE "gate",
                       !.suspects = IF DetectsMissing THEN Products \ seen ELSE {}]
      BY <1>12, <1>t, <2>2, WalkJudged DEF RecordCycle, RunRecord, Judged
    <2> QED
      BY <1>12, <2>1, <2>2 DEF RecordCycle
  <1>13. CASE SelectMissing
    BY <1>13, <1>t, WalkJudged DEF SelectMissing, RunRecord, Judged
  <1>14. ASSUME NEW p \in Products, Mark(p)
         PROVE  Walk'
    BY <1>14, <1>t, WalkJudged DEF Mark, RunRecord, Judged
  <1>15. CASE Gate
    BY <1>15, WalkIdle DEF Gate, IdleRun
  <1>16. CASE RunDies
    BY <1>16, WalkIdle DEF RunDies, IdleRun
  <1>17. ASSUME NEW p \in Products, RefreshOk(p)
         PROVE  Walk'
    <2>1. UNCHANGED WalkPart
      BY <1>17, <1>t DEF RefreshOk, WalkPart, RunRecord
    <2> QED
      BY <2>1, WalkFrame
  <1>18. ASSUME NEW p \in Products, RefreshUnavailable(p) \/ Change(p)
         PROVE  Walk'
    BY <1>18, WalkFrame DEF RefreshUnavailable, Change, WalkPart
  <1>19. ASSUME NEW p \in Products, Age(p)
         PROVE  Walk'
    <2>1. UNCHANGED WalkPart
      BY <1>19, <1>t DEF Age, WalkPart, RunRecord
    <2> QED
      BY <2>1, WalkFrame
  <1>20. CASE UNCHANGED vars
    BY <1>20, WalkFrame DEF vars, WalkPart
  <1> QED
    BY <1>1, <1>2, <1>3, <1>4, <1>5, <1>6, <1>7, <1>8, <1>9, <1>10, <1>11, <1>12,
       <1>13, <1>14, <1>15, <1>16, <1>17, <1>18, <1>19, <1>20
    DEF Next, RunStep, Lane

(* Before the first run nobody walks.                                      *)
LEMMA WalkInit == Init => Walk
  BY DEF Init, IdleRun, Walk, Unstarted, RestUntouched, Covered, RestBeyond,
         Stopped, CutoffCovers, Judged

(* The cut-off leaves no target out, for any number of lanes and targets.  *)
THEOREM CutoffCoversAlways == Spec => []CutoffCovers
  <1>1. Init => TypeOK /\ Walk
    BY TypeInit, WalkInit
  <1>2. TypeOK /\ Walk /\ [Next]_vars => (TypeOK /\ Walk)'
    BY TypeStep, WalkStep
  <1>3. TypeOK /\ Walk => CutoffCovers
    BY DEF Walk
  <1> QED
    BY <1>1, <1>2, <1>3, PTL DEF Spec

-----------------------------------------------------------------------------
(* ... and nothing is marked.                                              *)
LEMMA MarkingInit == Init => Marking
  BY DEF Init, IdleRun, Marking

(* Without a walk nothing is marked and nothing is known of the listings.  *)
LEMMA MarkingIdle ==
    ASSUME run'.pc \in {"idle", "discover"}, ~run'.complete, run'.marked = {}
    PROVE  Marking'
  BY DEF Marking

(* A confirmed listing is seen, then no suspect, then not marked: every    *)
(* step of the run, of a refresh and of the shop keeps that.               *)
LEMMA MarkingStep == TypeOK /\ TypeOK' /\ Walk /\ Marking /\ [Next]_vars => Marking'
  <1> SUFFICES ASSUME TypeOK, TypeOK', Walk, Marking, [Next]_vars
               PROVE  Marking'
    OBVIOUS
  <1>t. run \in RunRecord /\ run' \in RunRecord
    BY DEF TypeOK
  <1>1. CASE StartRun
    BY <1>1, MarkingIdle DEF StartRun, IdleRun
  <1>2. CASE DiscoverAll
    <2>1. /\ run'.pc = "extract" /\ run'.marked = {} /\ run'.outcome = run.outcome
          /\ run'.targets = FirstUrls(catalogue) /\ run'.offered = catalogue
      BY <1>2, <1>t DEF DiscoverAll, BeginWalk, RunRecord, Marking
    <2>2. \A p \in Products : run.outcome[p] = "none"
      BY <1>2 DEF DiscoverAll, BeginWalk, Walk, Unstarted
    <2> QED
      BY <2>1, <2>2 DEF Marking, Active, FirstUrls
  <1>3. CASE DiscoverPart
    <2>1. PICK T \in SUBSET catalogue : BeginWalk(T, FALSE)
      BY <1>3 DEF DiscoverPart
    <2>2. /\ run'.pc = "extract" /\ run'.marked = {} /\ run'.outcome = run.outcome
          /\ run'.complete = FALSE
      BY <2>1, <1>t DEF BeginWalk, RunRecord, Marking
    <2>3. \A p \in Products : run.outcome[p] = "none"
      BY <2>1 DEF BeginWalk, Walk, Unstarted
    <2> QED
      BY <2>2, <2>3 DEF Marking, Active
  <1>4. ASSUME NEW l \in Lanes, NEW p \in Products, Skip(l, p)
        PROVE  Marking'
    BY <1>4, <1>t DEF Skip, Ready, RunRecord, Marking, Active, FirstUrls
  <1>5. ASSUME NEW l \in Lanes, NEW p \in Products, CutOff(l, p)
        PROVE  Marking'
    BY <1>5, <1>t DEF CutOff, Ready, RunRecord, Marking, Active, FirstUrls
  <1>6. ASSUME NEW l \in Lanes, NEW p \in Products, Request(l, p)
        PROVE  Marking'
    BY <1>6, <1>t DEF Request, Ready, RunRecord, Marking, Active, FirstUrls
  <1>7. ASSUME NEW l \in Lanes, NEW p \in Products, Extracted(l, p)
        PROVE  Marking'
    <2>1. Active' = Active \cup {p} /\ seen' = seen \cup {p}
      BY <1>7, PersistType DEF Extracted, Persist
    <2>2. run.pc = "extract" /\ run' = [run EXCEPT !.busy[l] = NoUrl, !.outcome[p] = "ok"]
      BY <1>7 DEF Extracted
    <2>3. /\ run'.pc = "extract" /\ run'.marked = run.marked
          /\ run'.complete = run.complete /\ run'.targets = run.targets
          /\ run'.offered = run.offered
          /\ \A q \in Products \ {p} : run'.outcome[q] = run.outcome[q]
      BY <1>t, <2>2 DEF RunRecord
    <2>4. Active \subseteq Products
      BY DEF Active
    <2> QED
      BY <2>1, <2>2, <2>3, <2>4 DEF Marking, FirstUrls
  <1>8. ASSUME NEW l \in Lanes, NEW p \in Products, ExtractFails(l, p)
        PROVE  Marking'
    BY <1>8, <1>t DEF ExtractFails, RunRecord, Marking, Active, FirstUrls
  <1>9. CASE TimeOver
    <2>1. /\ run' = [run EXCEPT !.late = TRUE] /\ run.pc = "extract"
          /\ UNCHANGED <<listing, seen>>
      BY <1>9 DEF TimeOver
    <2> QED
      BY <1>t, <2>1 DEF RunRecord, Marking, Active, FirstUrls
  <1>10. CASE AllReturned
    BY <1>10, <1>t DEF AllReturned, RunRecord, Marking, Active, FirstUrls
  <1>11. CASE Touch
    BY <1>11, <1>t DEF Touch, Skipped, RunRecord, Marking, Active, FirstUrls
  <1>12. CASE RecordCycle
    <2>1. CASE run' = [run EXCEPT !.pc = "gate"]
      BY <1>12, <1>t, <2>1 DEF RecordCycle, RunRecord, Marking, Active, FirstUrls
    <2>2. CASE run' = [run EXCEPT
                       !.pc = IF DetectsMissing THEN "select" ELSE "gate",
                       !.suspects = IF DetectsMissing THEN Products \ seen ELSE {}]
      BY <1>12, <1>t, <2>2
      DEF RecordCycle, DetectsMissing, RunRecord, Marking, Found, Active, FirstUrls
    <2> QED
      BY <1>12, <2>1, <2>2 DEF RecordCycle
  <1>13. CASE SelectMissing
    BY <1>13, <1>t DEF SelectMissing, RunRecord, Marking, Found, Active, FirstUrls
  <1>14. ASSUME NEW p \in Products, Mark(p)
         PROVE  Marking'
    BY <1>14, <1>t DEF Mark, RunRecord, Marking, Found, FirstUrls
  <1>15. CASE Gate
    BY <1>15, MarkingIdle DEF Gate, IdleRun
  <1>16. CASE RunDies
    BY <1>16, MarkingIdle DEF RunDies, IdleRun
  <1>17. ASSUME NEW p \in Products, RefreshOk(p)
         PROVE  Marking'
    <2>1. Active' = Active \cup {p} /\ seen' = seen \cup {p}
      BY <1>17, PersistType DEF RefreshOk, Persist
    <2>2. CASE run.pc = "select"
      <3>1. run' = [run EXCEPT !.suspects = @ \ {p}]
        BY <1>17, <2>2 DEF RefreshOk
      <3>2. /\ run'.pc = "select" /\ run'.suspects = run.suspects \ {p}
            /\ run'.marked = run.marked /\ run'.complete = run.complete
            /\ run'.targets = run.targets /\ run'.offered = run.offered
            /\ run'.cutoff = run.cutoff /\ run'.outcome = run.outcome
        BY <1>t, <2>2, <3>1 DEF RunRecord
      <3> QED
        BY <2>1, <2>2, <3>2 DEF Marking, Found, FirstUrls
    <2>3. CASE run.pc # "select"
      <3>1. run' = run
        BY <1>17, <2>3 DEF RefreshOk
      <3> QED
        BY <2>1, <2>3, <3>1 DEF Marking, Found, FirstUrls
    <2> QED
      BY <2>2, <2>3
  <1>18. ASSUME NEW p \in Products, RefreshUnavailable(p)
         PROVE  Marking'
    BY <1>18, <1>t, MarkMissingType
    DEF RefreshUnavailable, MarkMissing, Marking, Found, FirstUrls
  <1>19. ASSUME NEW p \in Products, Age(p)
         PROVE  Marking'
    BY <1>19, <1>t DEF Age, RunRecord, Marking, Found, Active, FirstUrls
  <1>20. ASSUME NEW p \in Products, Change(p)
         PROVE  Marking'
    BY <1>20 DEF Change, Marking, Found, Active, FirstUrls
  <1>21. CASE UNCHANGED vars
    BY <1>21 DEF vars, Marking, Found, Active, FirstUrls
  <1> QED
    BY <1>1, <1>2, <1>3, <1>4, <1>5, <1>6, <1>7, <1>8, <1>9, <1>10, <1>11, <1>12,
       <1>13, <1>14, <1>15, <1>16, <1>17, <1>18, <1>19, <1>20, <1>21
    DEF Next, RunStep, Lane

(* IInv is inductive.                                                      *)
THEOREM CycleInvariant == Spec => []IInv
  <1>1. Init => IInv
    BY TypeInit, WalkInit, MarkingInit DEF IInv
  <1>2. IInv /\ [Next]_vars => IInv'
    BY TypeStep, WalkStep, MarkingStep DEF IInv
  <1> QED
    BY <1>1, <1>2, PTL DEF Spec

(* Only what the closing run did not confirm is marked as missing.         *)
THEOREM OnlyUnconfirmedMarkedAlways == Spec => []OnlyUnconfirmedMarked
  <1>1. IInv => OnlyUnconfirmedMarked
    <2> SUFFICES ASSUME IInv, NEW p \in run.marked, p \in run.targets
                 PROVE  run.outcome[p] = "failed"
      BY DEF OnlyUnconfirmedMarked
    <2>1. run \in RunRecord /\ p \in Products
      BY DEF IInv, TypeOK, RunRecord
    <2>2. run.pc = "mark" /\ ~Found(p) /\ run.cutoff = NoUrl
      BY DEF IInv, Marking
    <2>3. run.outcome[p] # "none"
      BY <2>2 DEF IInv, Walk, CutoffCovers, Judged
    <2> QED
      BY <2>1, <2>2, <2>3 DEF Found, RunRecord
  <1> QED
    BY <1>1, CycleInvariant, PTL

(* Marking follows a walk through a whole, healthy list.                   *)
THEOREM MarksNeedWholeWalkAlways == Spec => []MarksNeedWholeWalk
  <1>1. IInv => MarksNeedWholeWalk
    BY DEF IInv, Marking, Walk, CutoffCovers, Judged, MarksNeedWholeWalk
  <1> QED
    BY <1>1, CycleInvariant, PTL

(* A listing is called missing only by a run that walked through a whole,  *)
(* healthy list and did not confirm it.                                    *)
THEOREM MarkingIsEarnedAlways == Spec => []MarkingIsEarned
  <1>1. OnlyUnconfirmedMarked /\ MarksNeedWholeWalk => MarkingIsEarned
    BY DEF MarkingIsEarned
  <1> QED
    BY <1>1, OnlyUnconfirmedMarkedAlways, MarksNeedWholeWalkAlways, PTL

=============================================================================
