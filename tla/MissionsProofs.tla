-------------------------- MODULE MissionsProofs --------------------------
(***************************************************************************)
(* Proofs about Missions, for any topics, phases, limits, windows and any  *)
(* number of missions and mishaps: the types, that the rows of a mission   *)
(* tell one story after every statement, that waiting and working missions *)
(* are recorded, and the limits on concurrent and on daily missions.       *)
(***************************************************************************)
EXTENDS Missions, FiniteSetTheorems, TLAPS

Steps == 1 .. Last

Statuses == {Working[i] : i \in DOMAIN Working} \cup {"pending", "complete", "failed"}

Mission == [topic: Topics, by: {"anyone", "loop"}, created: Nat,
            status: Statuses, report: BOOLEAN]

PhaseStatuses == {"pending", "running", "complete"}

Places == Caught \cup {"none", "rows", "catch"}

Run == [place: Places, phase: 0 .. Last]

(* The rows of the phases when the first ones, up to done, are complete    *)
(* and the one at the given place is running.                              *)
Rows(p, done, at) ==
  /\ p \in Seq(PhaseStatuses) /\ Len(p) = Last
  /\ \A i \in Steps : p[i] = IF i <= done THEN "complete"
                             ELSE IF i = at THEN "running" ELSE "pending"

(* The status of a mission that has written it last before phase k. *)
Before(k) == IF k = 1 THEN "pending" ELSE Working[k - 1]

(* The row of a mission says what its run has written, but for a cancel. *)
Says(m, status) ==
  /\ missions[m].status \in {status, "failed"}
  /\ m \notin cancelled => missions[m].status = status

(* What the rows are while a run is at its place. *)
Story(m) ==
  LET k == run[m].phase
      p == run[m].place
  IN /\ p = "none" => run[m] = NoRun
     /\ p # "none" => k \in Steps
     /\ p = "rows" => /\ Says(m, "pending")
                      /\ Len(phases[m]) = k - 1
                      /\ \A i \in 1 .. k - 1 : phases[m][i] = "pending"
     /\ p = "status" => Says(m, Before(k)) /\ Rows(phases[m], k - 1, 0)
     /\ p = "start" => Says(m, Working[k]) /\ Rows(phases[m], k - 1, 0)
     /\ p \in {"phase", "complete"} => Says(m, Working[k]) /\ Rows(phases[m], k - 1, k)
     /\ p = "report" => Says(m, Working[Last]) /\ Rows(phases[m], Last, 0)
     /\ p = "journal" => Says(m, "complete") /\ Rows(phases[m], Last, 0)

(* RowsAgree, of one row x and the rows p of its phases. *)
Agree(x, p) ==
  /\ x.status = "pending" => \A i \in 1 .. Len(p) : p[i] = "pending"
  /\ \A k \in Steps : x.status = Working[k] =>
       /\ \A i \in 1 .. k - 1 : i <= Len(p) /\ p[i] = "complete"
       /\ \A i \in 1 .. Len(p) : p[i] # "pending" => i <= k
  /\ x.status = "complete" => Len(p) = Last /\ \A i \in Steps : p[i] = "complete"
  /\ x.report <=> x.status = "complete"

Sound(m) ==
  IF m \in Made
  THEN /\ Story(m)
       /\ Agree(missions[m], phases[m])
       /\ Active(m) => run[m] # NoRun \/ m \in stranded
  ELSE run[m] = NoRun /\ phases[m] = <<>>

IInv == TypeOK /\ (\A m \in Ids : Sound(m)) /\ LimitKept

---------------------------------------------------------------------------
(* The phases, and the rows as they succeed one another. *)

LEMMA PhasesAre ==
  /\ Last \in Nat \ {0} /\ Working \in [Steps -> STRING] /\ DOMAIN Working = Steps
  /\ \A i \in Steps : /\ Working[i] \in Statuses /\ Working[i] # "pending"
                      /\ Working[i] # "complete" /\ Working[i] # "failed"
  /\ \A i, j \in Steps : Working[i] = Working[j] => i = j
<1>1. Working \in Seq(STRING) /\ Working # <<>> BY PhaseAssumption
<1>2. /\ Last \in Nat /\ Last # 0 /\ DOMAIN Working = Steps
      /\ Working \in [Steps -> STRING]
  BY <1>1 DEF Last, Steps
<1>3. \A i \in Steps : /\ Working[i] \notin {"pending", "complete", "failed"}
                       /\ \A j \in Steps : Working[i] = Working[j] => i = j
  BY <1>2, PhaseAssumption
<1>4. \A i \in Steps : Working[i] \in Statuses BY <1>2 DEF Statuses
<1> QED BY <1>2, <1>3, <1>4

LEMMA Types ==
  ASSUME TypeOK
  PROVE  /\ missions \in Seq(Mission) /\ Len(missions) \in Nat
         /\ Len(missions) <= MaxMissions /\ Made \subseteq Ids
         /\ phases \in [Ids -> Seq(PhaseStatuses)]
         /\ run \in [Ids -> Run]
         /\ \A m \in Made : missions[m] \in Mission
<1>1. missions \in Seq(Mission) BY DEF TypeOK, Mission, Statuses
<1>2. Len(missions) <= MaxMissions BY DEF TypeOK
<1>3. Len(missions) \in Nat /\ MaxMissions \in Nat BY <1>1, LimitAssumption
<1>4. Made \subseteq Ids BY <1>2, <1>3 DEF Made, Ids
<1>5. phases \in [Ids -> Seq(PhaseStatuses)] /\ run \in [Ids -> Run]
  BY DEF TypeOK, PhaseStatuses, Run, Places
<1>6. \A m \in Made : missions[m] \in Mission BY <1>1 DEF Made
<1> QED BY <1>1, <1>2, <1>3, <1>4, <1>5, <1>6

(* The row of a mission and those of its phases agree when the last status *)
(* written is of the phase that is done, under way, or about to begin.     *)
LEMMA RowsTell ==
  ASSUME NEW x, NEW p, NEW done \in 0 .. Last, NEW at \in 0 .. Last,
         Rows(p, done, at), x.report <=> x.status = "complete",
         \/ x.status = "failed"
         \/ x.status = "pending" /\ done = 0 /\ at = 0
         \/ done \in Steps /\ at = 0 /\ x.status = Working[done]
         \/ done + 1 \in Steps /\ at \in {0, done + 1} /\ x.status = Working[done + 1]
         \/ x.status = "complete" /\ done = Last /\ at = 0
  PROVE  Agree(x, p)
<1>1. Last \in Nat /\ Len(p) = Last BY PhasesAre DEF Rows
<1>2. \A i \in Steps : p[i] = IF i <= done THEN "complete"
                              ELSE IF i = at THEN "running" ELSE "pending"
  BY DEF Rows
<1>3. \A k \in Steps : Working[k] \notin {"pending", "complete", "failed"} BY PhasesAre
<1>4. \A k, j \in Steps : Working[k] = Working[j] => k = j BY PhasesAre
<1>5. x.status = "pending" => \A i \in 1 .. Len(p) : p[i] = "pending"
  BY <1>1, <1>2, <1>3 DEF Steps
<1>6. ASSUME NEW k \in Steps, x.status = Working[k]
      PROVE  /\ \A i \in 1 .. k - 1 : i <= Len(p) /\ p[i] = "complete"
             /\ \A i \in 1 .. Len(p) : p[i] # "pending" => i <= k
  <2>1. \/ k = done /\ at = 0
        \/ k = done + 1 /\ at \in {0, done + 1}
    BY <1>3, <1>4, <1>6
  <2> QED BY <1>1, <1>2, <2>1 DEF Steps
<1>7. x.status = "complete" => \A i \in Steps : p[i] = "complete"
  BY <1>1, <1>2, <1>3 DEF Steps
<1> QED BY <1>1, <1>5, <1>6, <1>7 DEF Agree

(* A phase begins, and a phase ends. *)
LEMMA RowsBegin ==
  ASSUME NEW p, NEW k \in Steps, Rows(p, k - 1, 0)
  PROVE  Rows([p EXCEPT ![k] = "running"], k - 1, k)
<1>1. Last \in Nat BY PhasesAre
<1> QED BY <1>1 DEF Rows, Steps, PhaseStatuses

LEMMA RowsEnd ==
  ASSUME NEW p, NEW k \in Steps, Rows(p, k - 1, k)
  PROVE  Rows([p EXCEPT ![k] = "complete"], k, 0)
<1>1. Last \in Nat BY PhasesAre
<1> QED BY <1>1 DEF Rows, Steps, PhaseStatuses

(* Writing the status and the report of a mission. *)
LEMMA Rewrite ==
  ASSUME TypeOK, NEW m \in Made, NEW status \in Statuses, NEW report \in BOOLEAN,
         missions' = [missions EXCEPT ![m].status = status, ![m].report = report]
  PROVE  /\ missions' \in Seq(Mission) /\ Len(missions') = Len(missions)
         /\ Made' = Made
         /\ missions'[m].status = status /\ missions'[m].report = report
         /\ missions'[m].by = missions[m].by
         /\ missions'[m].created = missions[m].created
         /\ \A q \in Made : q # m => missions'[q] = missions[q]
<1>1. /\ missions \in Seq(Mission) /\ m \in 1 .. Len(missions)
      /\ missions[m] \in Mission
  BY Types DEF Made
<1> DEFINE row == [missions[m] EXCEPT !.status = status, !.report = report]
<1>2. /\ row \in Mission /\ row.status = status /\ row.report = report
      /\ row.by = missions[m].by /\ row.created = missions[m].created
  BY <1>1 DEF Mission
<1>3. missions' = [missions EXCEPT ![m] = row] OBVIOUS
<1> HIDE DEF row
<1> QED BY <1>1, <1>2, <1>3 DEF Made

(* Writing the status only. *)
LEMMA RewriteStatus ==
  ASSUME TypeOK, NEW m \in Made, NEW status \in Statuses,
         missions' = [missions EXCEPT ![m].status = status]
  PROVE  /\ missions' \in Seq(Mission) /\ Len(missions') = Len(missions)
         /\ Made' = Made
         /\ missions'[m].status = status
         /\ missions'[m].report = missions[m].report
         /\ missions'[m].by = missions[m].by
         /\ missions'[m].created = missions[m].created
         /\ \A q \in Made : q # m => missions'[q] = missions[q]
<1>1. /\ missions \in Seq(Mission) /\ m \in 1 .. Len(missions)
      /\ missions[m] \in Mission
  BY Types DEF Made
<1> DEFINE row == [missions[m] EXCEPT !.status = status]
<1>2. /\ row \in Mission /\ row.status = status /\ row.report = missions[m].report
      /\ row.by = missions[m].by /\ row.created = missions[m].created
  BY <1>1 DEF Mission
<1>3. missions' = [missions EXCEPT ![m] = row] OBVIOUS
<1> HIDE DEF row
<1> QED BY <1>1, <1>2, <1>3 DEF Made

(* A row is inserted for the next phase. *)
LEMMA RowsGrow ==
  ASSUME NEW s \in Seq(PhaseStatuses), NEW k \in Nat, Len(s) = k - 1,
         \A i \in 1 .. k - 1 : s[i] = "pending"
  PROVE  /\ Append(s, "pending") \in Seq(PhaseStatuses) /\ Len(Append(s, "pending")) = k
         /\ \A i \in 1 .. k : Append(s, "pending")[i] = "pending"
<1>1. "pending" \in PhaseStatuses BY DEF PhaseStatuses
<1> HIDE DEF PhaseStatuses
<1>2. Append(s, "pending") \in Seq(PhaseStatuses) /\ Len(Append(s, "pending")) = k
  BY <1>1
<1>3. ASSUME NEW i \in 1 .. k PROVE Append(s, "pending")[i] = "pending"
  <2>1. i \in 1 .. k - 1 \/ i = Len(s) + 1 OBVIOUS
  <2> QED BY <2>1
<1> QED BY <1>2, <1>3

---------------------------------------------------------------------------
(* The limit. *)

Counted == {m \in Made : Active(m) /\ m \notin cancelled}

LEMMA CountedFinite ==
  ASSUME TypeOK
  PROVE  /\ IsFiniteSet(Made) /\ IsFiniteSet(Counted)
         /\ IsFiniteSet({m \in Made : Active(m)})
<1>1. IsFiniteSet(Made) BY Types, FS_Interval DEF Made
<1>2. Counted \subseteq Made /\ {m \in Made : Active(m)} \subseteq Made BY DEF Counted
<1> QED BY <1>1, <1>2, FS_Subset

(* When no mission comes to be counted, the limit still holds. *)
LEMMA FewerCounted ==
  ASSUME TypeOK, LimitKept, Counted' \subseteq Counted
  PROVE  LimitKept'
<1>1. IsFiniteSet(Counted) BY CountedFinite
<1>2. IsFiniteSet(Counted') /\ Cardinality(Counted') <= Cardinality(Counted)
  BY <1>1, FS_Subset
<1>3. Cardinality(Counted) \in Nat /\ Cardinality(Counted') \in Nat
  BY <1>1, <1>2, FS_CardinalityType
<1>4. Cardinality(Counted) <= MaxConcurrent BY DEF LimitKept, Counted
<1>5. Cardinality(Counted') <= MaxConcurrent BY <1>2, <1>3, <1>4, LimitAssumption
<1> QED BY <1>5 DEF LimitKept, Counted

(* One mission more, when fewer than the limit are active. *)
LEMMA OneMoreCounted ==
  ASSUME TypeOK, NEW m, Counted' = Counted \cup {m}, ~Crowded
  PROVE  LimitKept'
<1> DEFINE all == {q \in Made : Active(q)}
<1>1. IsFiniteSet(all) /\ IsFiniteSet(Counted) BY CountedFinite
<1>2. Counted \subseteq all BY DEF Counted
<1>3. Cardinality(Counted) <= Cardinality(all) BY <1>1, <1>2, FS_Subset
<1>4. ~(Cardinality(all) >= MaxConcurrent) BY DEF Crowded
<1> HIDE DEF all
<1>5. Cardinality(all) \in Nat /\ Cardinality(Counted) \in Nat /\ MaxConcurrent \in Nat
  BY <1>1, FS_CardinalityType, LimitAssumption
<1>6. Cardinality(Counted') \in {Cardinality(Counted), Cardinality(Counted) + 1}
  BY <1>1, FS_AddElement
<1>7. Cardinality(Counted') <= MaxConcurrent BY <1>3, <1>4, <1>5, <1>6
<1> QED BY <1>7 DEF LimitKept, Counted

---------------------------------------------------------------------------
(* A step that rewrites one mission, its phases and its run leaves the      *)
(* others as they are: what is left to show is about the one.               *)
LEMMA OneMission ==
  ASSUME IInv, TypeOK', NEW m \in Made, Made' = Made,
         \A q \in Made : q # m => missions'[q] = missions[q],
         \A q \in Ids : q # m => phases'[q] = phases[q] /\ run'[q] = run[q],
         \A q \in Ids : q # m => (q \in cancelled' <=> q \in cancelled),
         stranded \subseteq stranded',
         Sound(m)',
         Active(m)' /\ m \notin cancelled' => Active(m) /\ m \notin cancelled
  PROVE  IInv'
<1>1. Made \subseteq Ids /\ Made' = Made BY Types DEF IInv
<1>2. ASSUME NEW q \in Ids, q # m PROVE Sound(q)'
  <2>1. run'[q] = run[q] /\ phases'[q] = phases[q] BY <1>2
  <2>2. Sound(q) BY DEF IInv
  <2>3. CASE q \notin Made BY <1>1, <2>1, <2>2, <2>3 DEF Sound
  <2>4. CASE q \in Made
    <3>1. missions'[q] = missions[q] /\ (q \in cancelled' <=> q \in cancelled)
      BY <1>2, <2>4
    <3>2. Story(q)' BY <2>1, <2>2, <2>4, <3>1 DEF Sound, Story, Says
    <3>3. Agree(missions[q], phases[q])' BY <2>1, <2>2, <2>4, <3>1 DEF Sound
    <3>4. Active(q)' => run'[q] # NoRun \/ q \in stranded'
      BY <2>1, <2>2, <2>4, <3>1 DEF Sound, Active
    <3> QED BY <1>1, <2>4, <3>2, <3>3, <3>4 DEF Sound
  <2> QED BY <2>3, <2>4
<1>3. \A q \in Ids : Sound(q)' BY <1>2
<1>4. Counted' \subseteq Counted
  <2>1. ASSUME NEW q \in Counted' PROVE q \in Counted
    <3>1. q \in Made /\ Active(q)' /\ q \notin cancelled' BY <1>1, <2>1 DEF Counted
    <3>2. CASE q = m BY <3>1, <3>2 DEF Counted
    <3>3. CASE q # m
      <4>1. missions'[q] = missions[q] /\ q \notin cancelled BY <1>1, <3>1, <3>3
      <4> QED BY <3>1, <4>1 DEF Counted, Active
    <3> QED BY <3>2, <3>3
  <2> QED BY <2>1
<1>5. LimitKept' BY <1>4, FewerCounted DEF IInv
<1> QED BY <1>3, <1>5 DEF IInv

(* What else a step of a run or a cancel has to keep of the types. *)
LEMMA RestTyped ==
  ASSUME TypeOK, missions' \in Seq(Mission), Len(missions') = Len(missions),
         phases' \in [Ids -> Seq(PhaseStatuses)],
         \A m \in Ids : Len(phases'[m]) <= Last,
         run' \in [Ids -> Run],
         UNCHANGED <<now, log, loop>>, launching' \in {NoOne, launching},
         turn' \in {NoOne} \cup Made, mishaps' \in 0 .. MaxMishaps,
         cancelled' \subseteq Made, stranded' \subseteq Made
  PROVE  TypeOK' /\ Made' = Made
<1>1. Made' = Made BY DEF Made
<1>2. Len(missions') <= MaxMissions BY DEF TypeOK
<1> QED BY <1>1, <1>2 DEF TypeOK, Mission, Statuses, PhaseStatuses, Run, Places

LEMMA MishapsTyped ==
  ASSUME TypeOK, MishapHappens
  PROVE  mishaps' \in 0 .. MaxMishaps /\ mishaps' = mishaps + 1
BY LimitAssumption DEF TypeOK, MishapHappens

(* Where a run is, and what follows of the rows. *)
LEMMA RunFacts ==
  ASSUME IInv, NEW m \in Ids, run[m].place # "none"
  PROVE  /\ m \in Made /\ Story(m) /\ Agree(missions[m], phases[m])
         /\ run[m].phase \in Steps /\ run[m] \in Run /\ run[m] # NoRun
<1>1. Sound(m) BY DEF IInv
<1>2. run[m] # NoRun BY DEF NoRun, At
<1>3. m \in Made BY <1>1, <1>2 DEF Sound
<1>4. run[m] \in Run BY Types DEF IInv
<1> QED BY <1>1, <1>2, <1>3, <1>4 DEF Sound, Story

(* A step of a run that leaves both tables as they are. *)
LEMMA RowsStay ==
  ASSUME IInv, NEW m \in Ids, run[m].place # "none",
         NEW r \in Run, run' = [run EXCEPT ![m] = r],
         UNCHANGED <<now, rows, log, loop, cancelled>>,
         launching' \in {NoOne, launching}, turn' \in {NoOne} \cup Made,
         mishaps' \in 0 .. MaxMishaps,
         stranded' \in {stranded, stranded \cup {m}},
         Story(m)', Active(m) => r # NoRun \/ m \in stranded'
  PROVE  IInv'
<1>1. /\ m \in Made /\ Agree(missions[m], phases[m])
      /\ run \in [Ids -> Run] /\ missions' = missions /\ phases' = phases
  BY RunFacts, Types DEF IInv, rows
<1>2. /\ run' \in [Ids -> Run] /\ run'[m] = r
      /\ \A q \in Ids : q # m => run'[q] = run[q]
  BY <1>1
<1>3. cancelled' \subseteq Made /\ stranded' \subseteq Made
  BY <1>1 DEF IInv, TypeOK
<1>4. \A q \in Ids : Len(phases'[q]) <= Last BY <1>1 DEF IInv, TypeOK
<1>5. TypeOK' /\ Made' = Made
  BY <1>1, <1>2, <1>3, <1>4, Types, RestTyped DEF IInv
<1>6. Active(m)' <=> Active(m) BY <1>1, <1>5 DEF Active
<1>7. Sound(m)' BY <1>1, <1>2, <1>5, <1>6 DEF Sound
<1>8. Active(m)' /\ m \notin cancelled' => Active(m) /\ m \notin cancelled
  BY <1>6
<1> QED BY <1>1, <1>2, <1>5, <1>7, <1>8, OneMission

(* A step of a run that writes the row of its mission. *)
LEMMA MissionWritten ==
  ASSUME IInv, NEW m \in Ids, run[m].place # "none",
         NEW r \in Run, run' = [run EXCEPT ![m] = r],
         NEW status \in Statuses, NEW report \in BOOLEAN,
         \/ missions' = [missions EXCEPT ![m].status = status, ![m].report = report]
         \/ /\ missions' = [missions EXCEPT ![m].status = status]
            /\ report = missions[m].report,
         UNCHANGED <<now, phases, auto, mishaps, cancelled, stranded>>,
         turn' \in {NoOne} \cup Made,
         Story(m)', Agree(missions'[m], phases[m]),
         status \notin {"complete", "failed"} =>
           r # NoRun /\ (m \notin cancelled => Active(m))
  PROVE  IInv'
<1>1. m \in Made /\ run \in [Ids -> Run] BY RunFacts, Types DEF IInv
<1>2. /\ missions' \in Seq(Mission) /\ Len(missions') = Len(missions)
      /\ missions'[m].status = status
      /\ \A q \in Made : q # m => missions'[q] = missions[q]
  BY <1>1, Rewrite, RewriteStatus DEF IInv
<1>3. /\ run' \in [Ids -> Run] /\ run'[m] = r
      /\ \A q \in Ids : q # m => run'[q] = run[q]
  BY <1>1
<1>4. cancelled' \subseteq Made /\ stranded' \subseteq Made /\ mishaps' \in 0 .. MaxMishaps
  BY DEF IInv, TypeOK
<1>5. /\ \A q \in Ids : Len(phases'[q]) <= Last
      /\ phases' \in [Ids -> Seq(PhaseStatuses)]
  BY Types DEF IInv, TypeOK
<1>6. TypeOK' /\ Made' = Made
  BY <1>2, <1>3, <1>4, <1>5, RestTyped DEF IInv, auto
<1>7. Active(m)' <=> status \notin {"complete", "failed"} BY <1>1, <1>2, <1>6 DEF Active
<1>8. Sound(m)' BY <1>1, <1>3, <1>6, <1>7 DEF Sound
<1>9. Active(m)' /\ m \notin cancelled' => Active(m) /\ m \notin cancelled
  BY <1>7
<1> QED BY <1>1, <1>2, <1>3, <1>6, <1>8, <1>9, OneMission

(* A step of a run that writes one row of its phases. *)
LEMMA PhaseWritten ==
  ASSUME IInv, NEW m \in Ids, run[m].place # "none",
         NEW r \in Run, run' = [run EXCEPT ![m] = r], r # NoRun,
         NEW p \in Seq(PhaseStatuses), phases' = [phases EXCEPT ![m] = p],
         Len(p) <= Last,
         UNCHANGED <<now, missions, auto, mishaps, cancelled, stranded>>,
         turn' \in {NoOne} \cup Made,
         Story(m)', Agree(missions[m], p)
  PROVE  IInv'
<1>1. /\ m \in Made /\ run \in [Ids -> Run] /\ phases \in [Ids -> Seq(PhaseStatuses)]
  BY RunFacts, Types DEF IInv
<1>2. /\ run' \in [Ids -> Run] /\ run'[m] = r
      /\ \A q \in Ids : q # m => run'[q] = run[q]
  BY <1>1
<1>3. /\ phases' \in [Ids -> Seq(PhaseStatuses)] /\ phases'[m] = p
      /\ \A q \in Ids : q # m => phases'[q] = phases[q]
  BY <1>1
<1>4. cancelled' \subseteq Made /\ stranded' \subseteq Made /\ mishaps' \in 0 .. MaxMishaps
  BY DEF IInv, TypeOK
<1>5. \A q \in Ids : Len(phases'[q]) <= Last BY <1>3 DEF IInv, TypeOK
<1>6. TypeOK' /\ Made' = Made
  BY <1>2, <1>3, <1>4, <1>5, Types, RestTyped DEF IInv, auto
<1>7. Active(m)' <=> Active(m) BY <1>6 DEF Active
<1>8. Sound(m)' BY <1>1, <1>2, <1>3, <1>6 DEF Sound
<1>9. Active(m)' /\ m \notin cancelled' => Active(m) /\ m \notin cancelled
  BY <1>7
<1> QED BY <1>1, <1>2, <1>3, <1>6, <1>8, <1>9, OneMission

---------------------------------------------------------------------------
(* One lemma per action. *)

LEMMA CancelMissionKeeps ==
  ASSUME IInv, NEW m \in Ids, CancelMission(m)
  PROVE  IInv'
<1>1. /\ m \in Made /\ turn = NoOne
      /\ missions[m].status \notin {"complete", "failed"}
      /\ cancelled' = cancelled \cup {m}
      /\ UNCHANGED <<now, phases, run, turn, auto, mishaps, stranded>>
  BY DEF CancelMission, Active, Free
<1>2. /\ missions' \in Seq(Mission) /\ Len(missions') = Len(missions)
      /\ missions'[m].status = "failed" /\ ~missions'[m].report
      /\ \A q \in Made : q # m => missions'[q] = missions[q]
  BY <1>1, Rewrite DEF IInv, CancelMission, Statuses
<1>3. TypeOK' /\ Made' = Made
  <2>1. /\ cancelled' \subseteq Made /\ stranded' \subseteq Made
        /\ mishaps' \in 0 .. MaxMishaps
        /\ \A q \in Ids : Len(phases'[q]) <= Last
    BY <1>1 DEF IInv, TypeOK
  <2> QED BY <1>1, <1>2, <2>1, Types, RestTyped DEF IInv, auto
<1>4. Sound(m) BY DEF IInv
<1>5. Story(m)'
  <2>1. Story(m) BY <1>1, <1>4 DEF Sound
  <2> QED BY <1>1, <1>2, <2>1 DEF Story, Says
<1>6. Agree(missions[m], phases[m])'
  <2>1. \A i \in Steps : Working[i] # "failed" BY PhasesAre
  <2> QED BY <1>2, <2>1 DEF Agree
<1>7. ~Active(m)' BY <1>2 DEF Active
<1>8. Sound(m)' BY <1>1, <1>3, <1>5, <1>6, <1>7 DEF Sound
<1> QED BY <1>1, <1>2, <1>3, <1>7, <1>8, OneMission

LEMMA UpdateStatusKeeps ==
  ASSUME IInv, NEW m \in Ids, UpdateStatus(m)
  PROVE  IInv'
<1> DEFINE k == run[m].phase
           r == At("start", k)
<1>1. /\ m \in Made /\ run[m].place = "status" /\ turn' = m
      /\ UNCHANGED <<now, phases, auto, mishaps, cancelled, stranded>>
      /\ missions' = [missions EXCEPT ![m].status = Working[k]]
  BY DEF UpdateStatus, Proceeds
<1>2. /\ k \in Steps /\ Story(m) /\ Agree(missions[m], phases[m]) /\ run[m] \in Run
  BY <1>1, RunFacts
<1>3. r \in Run /\ r # NoRun /\ run' = [run EXCEPT ![m] = r]
  <2>1. run' = [run EXCEPT ![m].place = "start"] BY DEF UpdateStatus
  <2>2. [run[m] EXCEPT !.place = "start"] = r BY <1>2 DEF Run, At
  <2>3. k \in 0 .. Last BY <1>2, PhasesAre DEF Steps
  <2> QED BY <2>1, <2>2, <2>3 DEF At, NoRun, Run, Places, Caught
<1>4. /\ Says(m, Before(k)) /\ Rows(phases[m], k - 1, 0) BY <1>1, <1>2 DEF Story
<1>5. /\ Working[k] \in Statuses /\ Working[k] \notin {"pending", "complete", "failed"}
      /\ \A j \in Steps : Working[j] \notin {"complete", "failed"}
      /\ Last \in Nat
  BY <1>2, PhasesAre
<1>6. Before(k) \notin {"complete", "failed"} BY <1>2, <1>5 DEF Before, Steps
<1>7. ~missions[m].report BY <1>2, <1>4, <1>6 DEF Agree, Says
<1>8. missions[m].report \in BOOLEAN BY <1>1, Types DEF IInv, Mission
<1>9. /\ missions'[m].status = Working[k] /\ missions'[m].report = missions[m].report
      /\ run'[m] = r
  BY <1>1, <1>3, <1>5, RewriteStatus, Types DEF IInv
<1>10. Agree(missions'[m], phases[m])
  <2>1. k - 1 \in 0 .. Last /\ 0 \in 0 .. Last /\ k - 1 + 1 = k BY <1>2, <1>5 DEF Steps
  <2> QED BY <1>2, <1>4, <1>5, <1>7, <1>9, <2>1, RowsTell
<1>11. Story(m)'
  <2>1. r.place = "start" /\ r.phase = k BY DEF At
  <2> QED BY <1>1, <1>2, <1>4, <1>9, <2>1 DEF Story, Says
<1>12. m \notin cancelled => Active(m) BY <1>1, <1>4, <1>6 DEF Says, Active
<1> QED BY <1>1, <1>3, <1>5, <1>8, <1>10, <1>11, <1>12, MissionWritten

LEMMA StartPhaseKeeps ==
  ASSUME IInv, NEW m \in Ids, NEW waits \in BOOLEAN, StartPhase(m, waits)
  PROVE  IInv'
<1> DEFINE k == run[m].phase
           place == IF waits THEN "phase" ELSE "complete"
           r == At(place, k)
           p == [phases[m] EXCEPT ![k] = "running"]
<1>1. /\ m \in Made /\ run[m].place = "start" /\ turn' \in {NoOne} \cup Made
      /\ UNCHANGED <<now, missions, auto, mishaps, cancelled, stranded>>
      /\ phases' = [phases EXCEPT ![m] = p]
  BY DEF StartPhase, Proceeds
<1>2. /\ k \in Steps /\ Story(m) /\ Agree(missions[m], phases[m]) /\ run[m] \in Run
  BY <1>1, RunFacts
<1>3. r \in Run /\ r # NoRun /\ run' = [run EXCEPT ![m] = r]
  <2>1. run' = [run EXCEPT ![m].place = place] BY DEF StartPhase
  <2>2. [run[m] EXCEPT !.place = place] = r BY <1>2 DEF Run, At
  <2>3. k \in 0 .. Last BY <1>2, PhasesAre DEF Steps
  <2> QED BY <2>1, <2>2, <2>3 DEF At, NoRun, Run, Places, Caught
<1>4. Says(m, Working[k]) /\ Rows(phases[m], k - 1, 0) BY <1>1, <1>2 DEF Story
<1>5. Rows(p, k - 1, k) BY <1>2, <1>4, RowsBegin
<1>6. p \in Seq(PhaseStatuses) /\ Len(p) = Last BY <1>5 DEF Rows
<1>7. /\ Working[k] \notin {"pending", "complete", "failed"} /\ Last \in Nat
  BY <1>2, PhasesAre
<1> HIDE DEF p
<1>8. Agree(missions[m], p)
  <2>1. k - 1 \in 0 .. Last /\ k \in 0 .. Last /\ k - 1 + 1 = k BY <1>2, <1>7 DEF Steps
  <2>2. missions[m].report <=> missions[m].status = "complete" BY <1>2 DEF Agree
  <2> QED BY <1>2, <1>4, <1>5, <1>7, <2>1, <2>2, RowsTell DEF Says
<1>9. run'[m] = r /\ phases'[m] = p BY <1>1, <1>3, Types DEF IInv
<1>10. Story(m)'
  <2>1. r.place \in {"phase", "complete"} /\ r.phase = k BY DEF At
  <2> QED BY <1>1, <1>2, <1>4, <1>5, <1>9, <2>1 DEF Story, Says
<1>11. Len(p) <= Last BY <1>6, <1>7
<1> HIDE DEF r
<1> QED BY <1>1, <1>3, <1>6, <1>8, <1>10, <1>11, PhaseWritten

LEMMA AnsweredKeeps ==
  ASSUME IInv, NEW m \in Ids, Answered(m)
  PROVE  IInv'
<1> DEFINE k == run[m].phase
           r == At("complete", k)
<1>1. /\ m \in Made /\ run[m].place = "phase" /\ turn' = m
      /\ UNCHANGED <<now, rows, auto, mishaps, cancelled, stranded>>
  BY DEF Answered, Proceeds
<1>2. k \in Steps /\ Story(m) /\ run[m] \in Run BY <1>1, RunFacts
<1>3. r \in Run /\ r # NoRun /\ run' = [run EXCEPT ![m] = r]
  <2>1. run' = [run EXCEPT ![m].place = "complete"] BY DEF Answered
  <2>2. [run[m] EXCEPT !.place = "complete"] = r BY <1>2 DEF Run, At
  <2>3. k \in 0 .. Last BY <1>2, PhasesAre DEF Steps
  <2> QED BY <2>1, <2>2, <2>3 DEF At, NoRun, Run, Places, Caught
<1>4. Says(m, Working[k]) /\ Rows(phases[m], k - 1, k) BY <1>1, <1>2 DEF Story
<1>5. run'[m] = r /\ missions' = missions /\ phases' = phases
  BY <1>1, <1>3, Types DEF IInv, rows
<1>6. Story(m)'
  <2>1. r.place = "complete" /\ r.phase = k BY DEF At
  <2> QED BY <1>1, <1>2, <1>4, <1>5, <2>1 DEF Story, Says
<1>7. mishaps' \in 0 .. MaxMishaps BY <1>1 DEF IInv, TypeOK
<1> QED BY <1>1, <1>3, <1>6, <1>7, RowsStay DEF auto

LEMMA CompletePhaseKeeps ==
  ASSUME IInv, NEW m \in Ids, CompletePhase(m)
  PROVE  IInv'
<1> DEFINE k == run[m].phase
           r == IF k < Last THEN At("status", k + 1) ELSE At("report", Last)
           p == [phases[m] EXCEPT ![k] = "complete"]
<1>1. /\ m \in Made /\ run[m].place = "complete" /\ turn' \in {NoOne} \cup Made
      /\ UNCHANGED <<now, missions, auto, mishaps, cancelled, stranded>>
      /\ phases' = [phases EXCEPT ![m] = p] /\ run' = [run EXCEPT ![m] = r]
  BY DEF CompletePhase, Proceeds, PhaseReturns
<1>2. /\ k \in Steps /\ Story(m) /\ Agree(missions[m], phases[m]) /\ run[m] \in Run
  BY <1>1, RunFacts
<1>3. /\ Working[k] \notin {"pending", "complete", "failed"} /\ Last \in Nat
      /\ k \in Nat /\ 1 <= k /\ k <= Last
  BY <1>2, PhasesAre DEF Steps
<1>4. r \in Run /\ r # NoRun
  BY <1>3 DEF At, NoRun, Run, Places, Caught
<1>5. Says(m, Working[k]) /\ Rows(phases[m], k - 1, k) BY <1>1, <1>2 DEF Story
<1>6. Rows(p, k, 0) BY <1>2, <1>5, RowsEnd
<1>7. p \in Seq(PhaseStatuses) /\ Len(p) = Last BY <1>6 DEF Rows
<1> HIDE DEF p
<1>8. Agree(missions[m], p)
  <2>1. missions[m].report <=> missions[m].status = "complete" BY <1>2 DEF Agree
  <2>2. k \in 0 .. Last /\ 0 \in 0 .. Last BY <1>3
  <2> QED BY <1>2, <1>3, <1>5, <1>6, <2>1, <2>2, RowsTell DEF Says
<1>9. run'[m] = r /\ phases'[m] = p BY <1>1, Types DEF IInv
<1>10. \/ r.place = "status" /\ r.phase = k + 1 /\ k < Last
       \/ r.place = "report" /\ r.phase = Last /\ k = Last
  BY <1>3 DEF At
<1> HIDE DEF r
<1>11. Story(m)'
  <2>1. CASE r.place = "status" /\ r.phase = k + 1 /\ k < Last
    <3>1. k + 1 \in Steps /\ Before(k + 1) = Working[k] /\ k + 1 - 1 = k
      BY <1>3, <2>1 DEF Steps, Before
    <3>2. PICK n \in Steps : n = k + 1 BY <3>1
    <3>3. Before(n) = Working[k] /\ n - 1 = k BY <1>3, <3>2 DEF Before
    <3> HIDE DEF k
    <3>4. run'[m].place = "status" /\ run'[m].phase = n BY <1>9, <2>1, <3>2
    <3>5. Says(m, Before(n))' BY <1>1, <1>5, <3>3 DEF Says, Before
    <3>6. Rows(phases'[m], n - 1, 0) BY <1>6, <1>9, <3>3
    <3> QED BY <3>3, <3>4, <3>5, <3>6 DEF Story, Before
  <2>2. CASE r.place = "report" /\ r.phase = Last /\ k = Last
    BY <1>1, <1>2, <1>5, <1>6, <1>9, <2>2 DEF Story, Says
  <2> QED BY <1>10, <2>1, <2>2
<1>12. Len(p) <= Last BY <1>3, <1>7
<1> QED BY <1>1, <1>4, <1>7, <1>8, <1>11, <1>12, PhaseWritten

LEMMA FinishKeeps ==
  ASSUME IInv, NEW m \in Ids, Finish(m)
  PROVE  IInv'
<1> DEFINE r == At("journal", run[m].phase)
<1>1. /\ m \in Made /\ run[m].place = "report" /\ turn' \in {NoOne} \cup Made
      /\ UNCHANGED <<now, phases, auto, mishaps, cancelled, stranded>>
      /\ missions' = [missions EXCEPT ![m].status = "complete", ![m].report = TRUE]
  BY DEF Finish, Proceeds
<1>2. run[m].phase \in Steps /\ Story(m) /\ run[m] \in Run BY <1>1, RunFacts
<1>3. r \in Run /\ run' = [run EXCEPT ![m] = r]
  <2>1. run' = [run EXCEPT ![m].place = "journal"] BY DEF Finish
  <2>2. [run[m] EXCEPT !.place = "journal"] = r BY <1>2 DEF Run, At
  <2>3. run[m].phase \in 0 .. Last BY <1>2, PhasesAre DEF Steps
  <2> QED BY <2>1, <2>2, <2>3 DEF At, Run, Places, Caught
<1>4. Says(m, Working[Last]) /\ Rows(phases[m], Last, 0) BY <1>1, <1>2 DEF Story
<1>5. Last \in 0 .. Last /\ 0 \in 0 .. Last /\ Last \in Steps BY PhasesAre DEF Steps
<1>6. /\ missions'[m].status = "complete" /\ missions'[m].report = TRUE /\ run'[m] = r
  BY <1>1, <1>3, Rewrite, Types DEF IInv, Statuses
<1>7. Agree(missions'[m], phases[m]) BY <1>4, <1>5, <1>6, RowsTell
<1>8. Story(m)'
  <2>1. r.place = "journal" /\ r.phase \in Steps BY <1>2 DEF At
  <2> QED BY <1>1, <1>4, <1>6, <2>1 DEF Story, Says
<1>9. "complete" \in Statuses /\ TRUE \in BOOLEAN BY DEF Statuses
<1> HIDE DEF r
<1> QED BY <1>1, <1>3, <1>7, <1>8, <1>9, MissionWritten

LEMMA FailKeeps ==
  ASSUME IInv, NEW m \in Ids, Fail(m)
  PROVE  IInv'
<1>1. /\ m \in Made /\ run[m].place = "catch" /\ turn' \in {NoOne} \cup Made
      /\ UNCHANGED <<now, phases, auto, mishaps, cancelled, stranded>>
      /\ missions' = [missions EXCEPT ![m].status = "failed", ![m].report = FALSE]
      /\ run' = [run EXCEPT ![m] = NoRun]
  BY DEF Fail, Proceeds
<1>2. NoRun \in Run BY PhasesAre DEF NoRun, At, Run, Places
<1>3. /\ missions'[m].status = "failed" /\ missions'[m].report = FALSE /\ run'[m] = NoRun
  BY <1>1, Rewrite, Types DEF IInv, Statuses
<1>4. \A i \in Steps : Working[i] # "failed" BY PhasesAre
<1>5. Agree(missions'[m], phases[m]) BY <1>3, <1>4 DEF Agree
<1>6. Story(m)' BY <1>3 DEF Story, NoRun, At
<1>7. "failed" \in Statuses /\ FALSE \in BOOLEAN BY DEF Statuses
<1> QED BY <1>1, <1>2, <1>5, <1>6, <1>7, MissionWritten

LEMMA InsertPhaseKeeps ==
  ASSUME IInv, NEW m \in Ids, InsertPhase(m)
  PROVE  IInv'
<1> DEFINE k == run[m].phase
           r == IF k < Last THEN At("rows", k + 1) ELSE At("status", 1)
           p == Append(phases[m], "pending")
<1>1. /\ turn = m /\ run[m].place = "rows" /\ turn' = turn
      /\ UNCHANGED <<now, missions, auto, mishaps, cancelled, stranded>>
      /\ phases' = [phases EXCEPT ![m] = p] /\ run' = [run EXCEPT ![m] = r]
  BY DEF InsertPhase
<1>2. /\ m \in Made /\ k \in Steps /\ Story(m) /\ Agree(missions[m], phases[m])
      /\ phases[m] \in Seq(PhaseStatuses)
  BY <1>1, RunFacts, Types DEF IInv
<1>3. /\ Last \in Nat /\ k \in Nat /\ 1 <= k /\ k <= Last /\ 1 \in Steps
  BY <1>2, PhasesAre DEF Steps
<1>4. r \in Run /\ r # NoRun
  BY <1>3 DEF At, NoRun, Run, Places, Caught
<1>5. /\ Says(m, "pending") /\ Len(phases[m]) = k - 1
      /\ \A i \in 1 .. k - 1 : phases[m][i] = "pending"
  BY <1>1, <1>2 DEF Story
<1>6. /\ p \in Seq(PhaseStatuses) /\ Len(p) = k
      /\ \A i \in 1 .. k : p[i] = "pending"
  BY <1>2, <1>3, <1>5, RowsGrow
<1> HIDE DEF p
<1>7. Agree(missions[m], p)
  <2>1. \A i \in Steps : Working[i] \notin {"pending", "complete", "failed"} BY PhasesAre
  <2>2. missions[m].report <=> missions[m].status = "complete" BY <1>2 DEF Agree
  <2> QED BY <1>5, <1>6, <2>1, <2>2 DEF Agree, Says
<1>8. run'[m] = r /\ phases'[m] = p BY <1>1, <1>2, Types DEF IInv
<1>9. \/ r.place = "rows" /\ r.phase = k + 1 /\ k < Last
      \/ r.place = "status" /\ r.phase = 1 /\ k = Last
  BY <1>3 DEF At
<1> HIDE DEF r
<1>10. Story(m)'
  <2>1. CASE r.place = "rows" /\ r.phase = k + 1 /\ k < Last
    <3>1. k + 1 \in Steps BY <1>3, <2>1 DEF Steps
    <3>2. PICK n \in Steps : n = k + 1 BY <3>1
    <3>3. n - 1 = k BY <1>3, <3>2
    <3> HIDE DEF k
    <3>4. run'[m].place = "rows" /\ run'[m].phase = n BY <1>8, <2>1, <3>2
    <3>5. Len(phases'[m]) = n - 1 /\ \A i \in 1 .. n - 1 : phases'[m][i] = "pending"
      BY <1>6, <1>8, <3>3
    <3> QED BY <1>1, <1>5, <3>4, <3>5 DEF Story, Says
  <2>2. CASE r.place = "status" /\ r.phase = 1 /\ k = Last
    <3>1. Rows(p, 0, 0) BY <1>3, <1>6, <2>2 DEF Rows, Steps
    <3>2. Before(1) = "pending" BY DEF Before
    <3>3. run'[m].place = "status" /\ run'[m].phase = 1 BY <1>8, <2>2
    <3>4. Says(m, Before(1))' BY <1>1, <1>5, <3>2 DEF Says, Before
    <3>5. Rows(phases'[m], 1 - 1, 0) BY <1>8, <3>1
    <3> QED BY <1>3, <3>3, <3>4, <3>5 DEF Story, Before
  <2> QED BY <1>9, <2>1, <2>2
<1>11. Len(p) <= Last BY <1>3, <1>6
<1>12. turn' \in {NoOne} \cup Made BY <1>1, <1>2
<1> QED BY <1>1, <1>4, <1>6, <1>7, <1>10, <1>11, <1>12, PhaseWritten

(* The steps that leave the rows alone and end the run or turn to its catch. *)
LEMMA InsertPhaseThrowsKeeps ==
  ASSUME IInv, NEW m \in Ids, InsertPhaseThrows(m)
  PROVE  IInv'
<1>1. /\ run[m].place = "rows" /\ run' = [run EXCEPT ![m] = NoRun]
      /\ UNCHANGED <<now, rows, log, loop, cancelled>> /\ launching' = NoOne
      /\ turn' = NoOne /\ stranded' = stranded \cup {m}
  BY DEF InsertPhaseThrows
<1>2. mishaps' \in 0 .. MaxMishaps BY MishapsTyped DEF InsertPhaseThrows, IInv
<1>3. NoRun \in Run BY PhasesAre DEF NoRun, At, Run, Places
<1>4. run'[m] = NoRun BY <1>1, Types DEF IInv
<1>5. Story(m)' BY <1>4 DEF Story, NoRun, At
<1> QED BY <1>1, <1>2, <1>3, <1>5, RowsStay

LEMMA FailThrowsKeeps ==
  ASSUME IInv, NEW m \in Ids, FailThrows(m)
  PROVE  IInv'
<1>1. /\ run[m].place = "catch" /\ run' = [run EXCEPT ![m] = NoRun]
      /\ UNCHANGED <<now, rows, auto, cancelled>>
      /\ turn' = NoOne /\ stranded' = stranded \cup {m}
  BY DEF FailThrows, Proceeds
<1>2. mishaps' \in 0 .. MaxMishaps BY MishapsTyped DEF FailThrows, IInv
<1>3. NoRun \in Run BY PhasesAre DEF NoRun, At, Run, Places
<1>4. run'[m] = NoRun BY <1>1, Types DEF IInv
<1>5. Story(m)' BY <1>4 DEF Story, NoRun, At
<1> QED BY <1>1, <1>2, <1>3, <1>5, RowsStay DEF auto

LEMMA RecordDiscoveryKeeps ==
  ASSUME IInv, NEW m \in Ids, RecordDiscovery(m)
  PROVE  IInv'
<1>1. /\ run[m].place = "journal" /\ run' = [run EXCEPT ![m] = NoRun]
      /\ UNCHANGED <<now, rows, auto, mishaps, cancelled, stranded>>
      /\ turn' = NoOne
  BY DEF RecordDiscovery, Proceeds
<1>2. mishaps' \in 0 .. MaxMishaps BY <1>1 DEF IInv, TypeOK
<1>3. NoRun \in Run BY PhasesAre DEF NoRun, At, Run, Places
<1>4. run'[m] = NoRun BY <1>1, Types DEF IInv
<1>5. Story(m)' BY <1>4 DEF Story, NoRun, At
<1>6. ~Active(m)
  <2>1. Story(m) BY <1>1, RunFacts
  <2> QED BY <1>1, <2>1 DEF Story, Says, Active
<1> QED BY <1>1, <1>2, <1>3, <1>5, <1>6, RowsStay DEF auto

LEMMA ThrowsKeeps ==
  ASSUME IInv, NEW m \in Ids, Throws(m)
  PROVE  IInv'
<1> DEFINE r == At("catch", run[m].phase)
<1>1. /\ run[m].place \in Caught /\ m \in Made /\ turn' = m
      /\ UNCHANGED <<now, rows, auto, mishaps, cancelled, stranded>>
  BY DEF Throws, Proceeds
<1>2. run[m].place # "none" BY <1>1 DEF Caught
<1>3. run[m].phase \in Steps /\ run[m] \in Run BY <1>2, RunFacts
<1>4. r \in Run /\ r # NoRun /\ run' = [run EXCEPT ![m] = r]
  <2>1. run' = [run EXCEPT ![m].place = "catch"] BY DEF Throws
  <2>2. [run[m] EXCEPT !.place = "catch"] = r BY <1>3 DEF Run, At
  <2>3. run[m].phase \in 0 .. Last BY <1>3, PhasesAre DEF Steps
  <2> QED BY <2>1, <2>2, <2>3 DEF At, NoRun, Run, Places, Caught
<1>5. run'[m] = r BY <1>4, Types DEF IInv
<1>6. Story(m)' BY <1>3, <1>5 DEF Story, At
<1>7. mishaps' \in 0 .. MaxMishaps BY <1>1 DEF IInv, TypeOK
<1> HIDE DEF r
<1> QED BY <1>1, <1>2, <1>4, <1>6, <1>7, RowsStay DEF auto

LEMMA SeqGrows ==
  ASSUME NEW S, NEW T, S \subseteq T
  PROVE  Seq(S) \subseteq Seq(T)
OBVIOUS

(* A new mission has no phases yet, and is one more to count. *)
LEMMA InsertKeeps ==
  ASSUME IInv, NEW t \in Topics, NEW who \in {"anyone", "loop"}, Accepts(t),
         Insert(t, who), UNCHANGED <<now, phases, log, loop, mishaps, cancelled, stranded>>,
         launching' \in {NoOne, Len(missions) + 1}
  PROVE  IInv'
<1>1. /\ missions \in Seq(Mission) /\ Len(missions) \in Nat
      /\ phases \in [Ids -> Seq(PhaseStatuses)] /\ run \in [Ids -> Run]
      /\ now \in Nat /\ Made \subseteq Ids
  BY Types DEF IInv, TypeOK
<1>2. PICK m \in Nat : m = Len(missions) + 1 BY <1>1
<1> DEFINE row == [topic |-> t, by |-> who, created |-> now, status |-> "pending",
                   report |-> FALSE]
           r == At("rows", 1)
<1>3. Len(missions) < MaxMissions /\ MaxMissions \in Nat BY LimitAssumption DEF Accepts
<1>4. m \in Ids /\ m \notin Made BY <1>1, <1>2, <1>3 DEF Ids, Made
<1>5. row \in Mission /\ row.status = "pending" /\ row.report = FALSE
  BY <1>1 DEF Mission, Statuses
<1>6. /\ missions' = Append(missions, row) /\ run' = [run EXCEPT ![m] = r] /\ turn' = m
  BY <1>2 DEF Insert
<1>7. r \in Run /\ r # NoRun /\ r.place = "rows" /\ r.phase = 1 /\ 1 \in Steps
  BY PhasesAre DEF At, NoRun, Run, Places, Steps
<1> HIDE DEF row, r
<1>8. /\ missions' \in Seq(Mission) /\ Len(missions') = m /\ missions'[m] = row
      /\ \A q \in Made : missions'[q] = missions[q]
  BY <1>1, <1>2, <1>5, <1>6 DEF Made
<1>9. Made' = Made \cup {m} BY <1>1, <1>2, <1>8 DEF Made
<1>10. /\ run' \in [Ids -> Run] /\ run'[m] = r /\ phases'[m] = <<>>
       /\ \A q \in Ids : q # m => run'[q] = run[q]
  <2>1. Sound(m) BY <1>4 DEF IInv
  <2> QED BY <1>1, <1>4, <1>6, <1>7, <2>1 DEF Sound
<1>11. m \notin cancelled BY <1>4 DEF IInv, TypeOK
<1>12. Active(m)' BY <1>5, <1>8, <1>9 DEF Active
<1>13. Sound(m)'
  <2>1. Len(phases'[m]) = 0 BY <1>10
  <2>2. Story(m)' BY <1>5, <1>7, <1>8, <1>10, <1>11, <2>1 DEF Story, Says
  <2>3. Agree(missions[m], phases[m])'
    <3>1. \A i \in Steps : Working[i] # "pending" BY PhasesAre
    <3> QED BY <1>5, <1>8, <2>1, <3>1 DEF Agree
  <2> QED BY <1>7, <1>9, <1>10, <2>2, <2>3 DEF Sound
<1>14. ASSUME NEW q \in Ids, q # m PROVE Sound(q)'
  <2>1. run'[q] = run[q] /\ phases'[q] = phases[q] BY <1>10, <1>14
  <2>2. Sound(q) BY DEF IInv
  <2>3. CASE q \notin Made BY <1>9, <1>14, <2>1, <2>2, <2>3 DEF Sound
  <2>4. CASE q \in Made
    <3>1. missions'[q] = missions[q] BY <1>8, <2>4
    <3>2. Story(q)' BY <2>1, <2>2, <2>4, <3>1 DEF Sound, Story, Says
    <3>3. Agree(missions[q], phases[q])' BY <2>1, <2>2, <2>4, <3>1 DEF Sound
    <3>4. Active(q)' => run'[q] # NoRun \/ q \in stranded'
      BY <2>1, <2>2, <2>4, <3>1 DEF Sound, Active
    <3> QED BY <1>9, <2>4, <3>2, <3>3, <3>4 DEF Sound
  <2> QED BY <2>3, <2>4
<1>15. \A q \in Ids : Sound(q)' BY <1>13, <1>14
<1>16. Counted' = Counted \cup {m}
  <2>1. \A q \in Made : Active(q)' <=> Active(q) BY <1>8, <1>9 DEF Active
  <2> QED BY <1>9, <1>11, <1>12, <2>1 DEF Counted
<1>17. LimitKept' BY <1>16, OneMoreCounted DEF Accepts, IInv
<1>18. TypeOK'
  <2>1. Len(missions') <= MaxMissions BY <1>1, <1>2, <1>3, <1>8
  <2>2. launching' \in {NoOne} \cup Made' /\ turn' \in {NoOne} \cup Made'
    BY <1>2, <1>6, <1>9
  <2>3. log' \in Seq([topic: Topics, mission: Made', at: Nat])
    <3>1. log \in Seq([topic: Topics, mission: Made, at: Nat]) BY DEF IInv, TypeOK
    <3>2. [topic: Topics, mission: Made, at: Nat]
            \subseteq [topic: Topics, mission: Made', at: Nat]
      BY <1>9
    <3>3. Seq([topic: Topics, mission: Made, at: Nat])
            \subseteq Seq([topic: Topics, mission: Made', at: Nat])
      BY <3>2, SeqGrows
    <3> QED BY <3>1, <3>3
  <2>4. cancelled' \subseteq Made' /\ stranded' \subseteq Made' BY <1>9 DEF IInv, TypeOK
  <2>5. missions' \in Seq([topic: Topics, by: {"anyone", "loop"}, created: Nat,
                           status: {Working[i] : i \in DOMAIN Working}
                                   \cup {"pending", "complete", "failed"},
                           report: BOOLEAN])
    BY <1>8 DEF Mission, Statuses
  <2>6. run' \in [Ids -> [place: Caught \cup {"none", "rows", "catch"}, phase: 0 .. Last]]
    BY <1>10 DEF Run, Places
  <2> HIDE DEF Made
  <2> QED BY <2>1, <2>2, <2>3, <2>4, <2>5, <2>6 DEF IInv, TypeOK
<1> QED BY <1>15, <1>17, <1>18 DEF IInv

LEMMA CreateMissionKeeps ==
  ASSUME IInv, NEW t \in Topics, CreateMission(t)
  PROVE  IInv'
<1>1. /\ Accepts(t) /\ Insert(t, "anyone") /\ launching' = NoOne
      /\ UNCHANGED <<now, phases, log, loop, mishaps, cancelled, stranded>>
  BY DEF CreateMission, Free, auto
<1> QED BY <1>1, InsertKeeps

LEMMA CycleLaunchesKeeps ==
  ASSUME IInv, NEW t \in Topics, CycleLaunches(t)
  PROVE  IInv'
<1>1. /\ Accepts(t) /\ Insert(t, "loop") /\ launching' = Len(missions) + 1
      /\ UNCHANGED <<now, phases, log, loop, mishaps, cancelled, stranded>>
  BY DEF CycleLaunches
<1> QED BY <1>1, InsertKeeps

(* Steps that touch no row: runs may end, none begins. *)
LEMMA RowsKept ==
  ASSUME IInv, UNCHANGED <<rows, cancelled>>, \A m \in Ids : run'[m] \in {run[m], NoRun},
         stranded \subseteq stranded',
         \A m \in Ids : run'[m] # run[m] => m \in stranded'
  PROVE  (\A m \in Ids : Sound(m)') /\ LimitKept'
<1>1. Made' = Made /\ missions' = missions /\ phases' = phases /\ cancelled' = cancelled
  BY DEF rows, Made
<1>2. LimitKept' BY <1>1 DEF IInv, LimitKept, Active
<1>3. ASSUME NEW m \in Ids PROVE Sound(m)'
  <2>1. Sound(m) /\ (Active(m)' <=> Active(m)) BY <1>1 DEF IInv, Active
  <2>2. CASE run'[m] = run[m]
    <3>1. Story(m)' <=> Story(m) BY <1>1, <2>2 DEF Story, Says
    <3> QED BY <1>1, <2>1, <2>2, <3>1 DEF Sound
  <2>3. CASE run'[m] = NoRun /\ m \in stranded'
    <3>1. Story(m)' BY <2>3 DEF Story, NoRun, At
    <3> QED BY <1>1, <2>1, <2>3, <3>1 DEF Sound
  <2> QED BY <2>2, <2>3
<1> QED BY <1>2, <1>3

LEMMA LoopKeeps ==
  ASSUME IInv, \/ \E on \in BOOLEAN : Configure(on)
               \/ CycleSkips \/ LogLaunch \/ LogLaunchThrows \/ CooledDown \/ Tick
  PROVE  IInv'
<1>1. UNCHANGED <<rows, run, turn, cancelled, stranded>>
  BY DEF Configure, CycleSkips, LogLaunch, LogLaunchThrows, CooledDown, Tick
<1>2. (\A m \in Ids : Sound(m)') /\ LimitKept' BY <1>1, RowsKept
<1>3. loop \in [enabled: BOOLEAN, cooling: BOOLEAN] BY DEF IInv, TypeOK
<1>4. loop' \in [enabled: BOOLEAN, cooling: BOOLEAN]
  BY <1>3 DEF Configure, CycleSkips, LogLaunch, LogLaunchThrows, CooledDown, Tick
<1>5. now' \in Nat /\ launching' \in {NoOne} \cup Made
  BY DEF Configure, CycleSkips, LogLaunch, LogLaunchThrows, CooledDown, Tick, IInv, TypeOK
<1>6. log' \in Seq([topic: Topics, mission: Made, at: Nat])
  <2>1. log \in Seq([topic: Topics, mission: Made, at: Nat]) /\ now \in Nat
    BY DEF IInv, TypeOK
  <2>2. CASE LogLaunch
    <3>1. launching \in Made BY <2>2 DEF LogLaunch, IInv, TypeOK
    <3>2. missions[launching].topic \in Topics BY <3>1, Types DEF IInv, Mission
    <3>3. [topic |-> missions[launching].topic, mission |-> launching, at |-> now]
            \in [topic: Topics, mission: Made, at: Nat]
      BY <2>1, <3>1, <3>2
    <3> QED BY <2>1, <2>2, <3>3 DEF LogLaunch
  <2>3. CASE ~LogLaunch
    BY <2>1, <2>3 DEF Configure, CycleSkips, LogLaunchThrows, CooledDown, Tick
  <2> QED BY <2>2, <2>3
<1>7. mishaps' \in 0 .. MaxMishaps
  <2>1. CASE LogLaunchThrows BY <2>1, MishapsTyped DEF LogLaunchThrows, IInv
  <2>2. CASE ~LogLaunchThrows
    BY <2>2 DEF Configure, CycleSkips, LogLaunch, CooledDown, Tick, IInv, TypeOK
  <2> QED BY <2>1, <2>2
<1>8. Made' = Made BY <1>1 DEF Made, rows
<1>9. TypeOK' BY <1>1, <1>4, <1>5, <1>6, <1>7, <1>8 DEF IInv, TypeOK, rows
<1> QED BY <1>2, <1>9 DEF IInv

LEMMA CrashKeeps ==
  ASSUME IInv, Crash
  PROVE  IInv'
<1>1. /\ UNCHANGED <<now, rows, log, cancelled>>
      /\ run' = [m \in Ids |-> NoRun]
      /\ stranded' = stranded \cup {m \in Ids : run[m] # NoRun}
      /\ loop' = [enabled |-> FALSE, cooling |-> FALSE]
      /\ turn' = NoOne /\ launching' = NoOne
  BY DEF Crash
<1>2. (\A m \in Ids : Sound(m)') /\ LimitKept' BY <1>1, RowsKept
<1>3. stranded' \subseteq Made
  <2>1. \A m \in Ids : run[m] # NoRun => m \in Made BY DEF IInv, Sound
  <2> QED BY <1>1, <2>1 DEF IInv, TypeOK
<1>4. mishaps' \in 0 .. MaxMishaps BY MishapsTyped DEF Crash, IInv
<1>5. run' \in [Ids -> [place: Caught \cup {"none", "rows", "catch"}, phase: 0 .. Last]]
  BY <1>1, PhasesAre DEF NoRun, At
<1>6. Made' = Made BY <1>1 DEF Made, rows
<1>7. TypeOK' BY <1>1, <1>3, <1>4, <1>5, <1>6 DEF IInv, TypeOK, rows
<1> QED BY <1>2, <1>7 DEF IInv

LEMMA StutterKeeps ==
  ASSUME IInv, UNCHANGED vars
  PROVE  IInv'
<1>1. (\A m \in Ids : Sound(m)') /\ LimitKept' BY RowsKept DEF vars
<1>2. TypeOK' BY DEF IInv, TypeOK, vars, rows, auto, Made
<1> QED BY <1>1, <1>2 DEF IInv

LEMMA NextKeeps ==
  ASSUME IInv, [Next]_vars
  PROVE  IInv'
BY CreateMissionKeeps, CycleLaunchesKeeps, CancelMissionKeeps, InsertPhaseKeeps,
   InsertPhaseThrowsKeeps, UpdateStatusKeeps, StartPhaseKeeps, AnsweredKeeps,
   CompletePhaseKeeps, FinishKeeps, RecordDiscoveryKeeps, ThrowsKeeps, FailKeeps,
   FailThrowsKeeps, LoopKeeps, CrashKeeps, StutterKeeps
DEF Next, RunStep, RunGoesOn

LEMMA InitHolds == Init => IInv
<1> SUFFICES ASSUME Init PROVE IInv OBVIOUS
<1>1. /\ missions = <<>> /\ Made = {} /\ run = [m \in Ids |-> NoRun]
      /\ phases = [m \in Ids |-> <<>>]
  BY DEF Init, Made
<1>2. TypeOK
  BY <1>1, PhasesAre, LimitAssumption DEF Init, TypeOK, NoRun, At
<1>3. \A m \in Ids : Sound(m) BY <1>1 DEF Sound
<1>4. {m \in Made : Active(m) /\ m \notin cancelled} = {} BY <1>1
<1>5. LimitKept BY <1>4, FS_EmptySet, LimitAssumption DEF LimitKept
<1> QED BY <1>2, <1>3, <1>5 DEF IInv

LEMMA Invariant == Spec => []IInv
<1>1. Init => IInv BY InitHolds
<1>2. IInv /\ [Next]_vars => IInv' BY NextKeeps
<1> QED BY <1>1, <1>2, PTL DEF Spec

(* The types; a mission the loop is about to log was made. *)
THEOREM MissionTypes == Spec => []TypeOK
<1>1. IInv => TypeOK BY DEF IInv
<1> QED BY <1>1, Invariant, PTL

(* After every statement the rows of a mission and of its phases tell one   *)
(* story: though any statement may throw or be the last one of the process, *)
(* and a cancel writes the row under a run that goes on.                    *)
THEOREM MissionRowsAgree == Spec => []RowsAgree
<1>1. IInv => RowsAgree
  <2> SUFFICES ASSUME IInv, NEW m \in Made
               PROVE  /\ missions[m].status = "pending" => Begun(m) = {}
                      /\ \A k \in DOMAIN Working :
                           missions[m].status = Working[k] =>
                             1 .. k - 1 \subseteq Ended(m) /\ Begun(m) \subseteq 1 .. k
                      /\ missions[m].status = "complete" => Ended(m) = 1 .. Last
                      /\ missions[m].report <=> missions[m].status = "complete"
    BY DEF RowsAgree
  <2>1. m \in Ids /\ phases[m] \in Seq(PhaseStatuses) BY Types DEF IInv
  <2>2. Agree(missions[m], phases[m]) BY <2>1 DEF IInv, Sound
  <2>3. DOMAIN phases[m] = 1 .. Len(phases[m]) /\ Len(phases[m]) \in Nat BY <2>1
  <2>4. DOMAIN Working = Steps /\ Last \in Nat BY PhasesAre
  <2>5. missions[m].status = "pending" => Begun(m) = {}
    BY <2>2, <2>3 DEF Agree, Begun
  <2>6. ASSUME NEW k \in Steps, missions[m].status = Working[k]
        PROVE  1 .. k - 1 \subseteq Ended(m) /\ Begun(m) \subseteq 1 .. k
    BY <2>2, <2>3, <2>4, <2>6 DEF Agree, Begun, Ended, Steps
  <2>7. missions[m].status = "complete" => Ended(m) = 1 .. Last
    BY <2>2, <2>3 DEF Agree, Ended, Steps
  <2>8. missions[m].report <=> missions[m].status = "complete" BY <2>2 DEF Agree
  <2> QED BY <2>4, <2>5, <2>6, <2>7, <2>8
<1> QED BY <1>1, Invariant, PTL

(* A mission that waits has the row of its phase running, and its own row   *)
(* says so unless it was cancelled; one that works has a run, unless that   *)
(* ended without a word.                                                    *)
THEOREM MissionRunsRecorded == Spec => []RunsAreRecorded
<1>1. IInv => RunsAreRecorded
  <2> SUFFICES ASSUME IInv, NEW m \in Made
               PROVE  /\ Waits(m) => /\ phases[m][run[m].phase] = "running"
                                     /\ \/ m \in cancelled
                                        \/ missions[m].status = Working[run[m].phase]
                      /\ Active(m) => run[m] # NoRun \/ m \in stranded
    BY DEF RunsAreRecorded
  <2>1. m \in Ids BY Types DEF IInv
  <2>2. Story(m) /\ (Active(m) => run[m] # NoRun \/ m \in stranded)
    BY <2>1 DEF IInv, Sound
  <2>3. ASSUME Waits(m)
        PROVE  /\ phases[m][run[m].phase] = "running"
               /\ m \in cancelled \/ missions[m].status = Working[run[m].phase]
    <3>1. run[m].place = "phase" BY <2>3 DEF Waits
    <3>2. /\ run[m].phase \in Steps /\ Says(m, Working[run[m].phase])
          /\ Rows(phases[m], run[m].phase - 1, run[m].phase)
      BY <2>2, <3>1 DEF Story
    <3> QED BY <3>2, PhasesAre DEF Rows, Says, Steps
  <2> QED BY <2>2, <2>3
<1> QED BY <1>1, Invariant, PTL

(* No more missions than maxConcurrentMissions are active, but for those    *)
(* that were cancelled and that their runs brought back.                    *)
THEOREM MissionLimit == Spec => []LimitKept
<1>1. IInv => LimitKept BY DEF IInv
<1> QED BY <1>1, Invariant, PTL

---------------------------------------------------------------------------
(* The missions of the loop in a window of time.                           *)
(*                                                                         *)
(* The loop counts its log, and the log lags behind the missions: by the   *)
(* one that is being launched, and by one for every mishap at that moment. *)

OfLoop(m) == missions[m].by = "loop"

(* What the limit is about: the missions of a window but the unlogged ones. *)
Window(t) ==
  {m \in Made \ Unlogged : OfLoop(m) /\ missions[m].created \in t - Day + 1 .. t}

Dated == \A m \in Made : missions[m].created <= now

LogDated == \A i \in DOMAIN log : missions[log[i].mission].created = log[i].at

LaunchDated == launching # NoOne => missions[launching].created = now

DInv == Dated /\ LogDated /\ LaunchDated /\ DailyLimitKept

(* A step that moves no mission in time. *)
DatesSame ==
  /\ Made' = Made
  /\ \A m \in Made : /\ missions'[m].by = missions[m].by
                     /\ missions'[m].created = missions[m].created

LEMMA DailyLimitIs ==
  DailyLimitKept <=> /\ Cardinality(Unlogged) <= mishaps
                     /\ \A t \in 0 .. now : Cardinality(Window(t)) <= MaxPerDay
BY DEF DailyLimitKept, Window, OfLoop

LEMMA DateTypes ==
  ASSUME IInv
  PROVE  /\ now \in Nat /\ mishaps \in Nat
         /\ Day \in Nat /\ Day > 0 /\ MaxPerDay \in Nat
         /\ launching \in {NoOne} \cup Made /\ NoOne \notin Made
         /\ IsFiniteSet(Made) /\ IsFiniteSet(DOMAIN log)
         /\ \A m \in Made : missions[m].created \in Nat
         /\ \A i \in DOMAIN log : log[i].mission \in Made /\ log[i].at \in Nat
<1> DEFINE Entry == [topic: Topics, mission: Made, at: Nat]
<1>1. log \in Seq(Entry) /\ now \in Nat /\ mishaps \in Nat
  BY LimitAssumption DEF IInv, TypeOK
<1>2. \A e \in Entry : e.at \in Nat /\ e.mission \in Made OBVIOUS
<1>3. \A i \in DOMAIN log : log[i] \in Entry
  <2> HIDE DEF Entry
  <2> QED BY <1>1
<1>4. \A i \in DOMAIN log : log[i].mission \in Made /\ log[i].at \in Nat
  <2> HIDE DEF Entry
  <2> QED BY <1>2, <1>3
<1>5. DOMAIN log = 1 .. Len(log) /\ Len(log) \in Nat
  <2> HIDE DEF Entry
  <2> QED BY <1>1
<1>6. IsFiniteSet(DOMAIN log) BY <1>5, FS_Interval
<1>7. \A m \in Made : missions[m].created \in Nat BY Types DEF IInv, Mission
<1>8. IsFiniteSet(Made) BY CountedFinite DEF IInv
<1>9. Day \in Nat /\ Day > 0 /\ MaxPerDay \in Nat BY LimitAssumption
<1>10. NoOne \notin Made BY Types DEF IInv, Made, NoOne
<1>11. launching \in {NoOne} \cup Made BY DEF IInv, TypeOK
<1> QED BY <1>1, <1>4, <1>6, <1>7, <1>8, <1>9, <1>10, <1>11

LEMMA SetsFinite ==
  ASSUME IInv
  PROVE  /\ IsFiniteSet(Unlogged) /\ Cardinality(Unlogged) \in Nat
         /\ \A t : IsFiniteSet(Window(t)) /\ Cardinality(Window(t)) \in Nat
<1>1. IsFiniteSet(Made) BY DateTypes
<1>2. Unlogged \subseteq Made BY DEF Unlogged
<1>3. IsFiniteSet(Unlogged) /\ Cardinality(Unlogged) \in Nat
  BY <1>1, <1>2, FS_Subset, FS_CardinalityType
<1>4. ASSUME NEW t PROVE IsFiniteSet(Window(t)) /\ Cardinality(Window(t)) \in Nat
  <2>1. Window(t) \subseteq Made BY DEF Window
  <2> QED BY <1>1, <2>1, FS_Subset, FS_CardinalityType
<1> QED BY <1>3, <1>4

(* Fewer missions in every window, and one unlogged more at a mishap. *)
LEMMA LimitFollows ==
  ASSUME IInv, DInv, now' = now, NEW lost, mishaps' \in Nat,
         \/ Unlogged' \subseteq Unlogged /\ mishaps' >= mishaps
         \/ Unlogged' \subseteq Unlogged \cup {lost} /\ mishaps' = mishaps + 1,
         \A t \in 0 .. now : Window(t)' \subseteq Window(t)
  PROVE  DailyLimitKept'
<1>1. /\ Cardinality(Unlogged) <= mishaps
      /\ \A t \in 0 .. now : Cardinality(Window(t)) <= MaxPerDay
  BY DailyLimitIs DEF DInv
<1>2. mishaps \in Nat /\ MaxPerDay \in Nat BY DateTypes
<1>3. Cardinality(Unlogged') <= mishaps'
  <2>1. IsFiniteSet(Unlogged) /\ Cardinality(Unlogged) \in Nat BY SetsFinite
  <2>2. CASE Unlogged' \subseteq Unlogged /\ mishaps' >= mishaps
    <3>1. IsFiniteSet(Unlogged') /\ Cardinality(Unlogged') <= Cardinality(Unlogged)
      BY <2>1, <2>2, FS_Subset
    <3>2. Cardinality(Unlogged') \in Nat BY <3>1, FS_CardinalityType
    <3> QED BY <1>1, <1>2, <2>1, <2>2, <3>1, <3>2
  <2>3. CASE Unlogged' \subseteq Unlogged \cup {lost} /\ mishaps' = mishaps + 1
    <3>1. /\ IsFiniteSet(Unlogged \cup {lost})
          /\ Cardinality(Unlogged \cup {lost}) <= Cardinality(Unlogged) + 1
      BY <2>1, FS_AddElement
    <3>2. /\ IsFiniteSet(Unlogged')
          /\ Cardinality(Unlogged') <= Cardinality(Unlogged \cup {lost})
      BY <2>3, <3>1, FS_Subset
    <3>3. Cardinality(Unlogged') \in Nat /\ Cardinality(Unlogged \cup {lost}) \in Nat
      BY <3>1, <3>2, FS_CardinalityType
    <3> QED BY <1>1, <1>2, <2>1, <2>3, <3>1, <3>2, <3>3
  <2> QED BY <2>2, <2>3
<1>4. ASSUME NEW t \in 0 .. now PROVE Cardinality(Window(t)') <= MaxPerDay
  <2>1. IsFiniteSet(Window(t)) /\ Cardinality(Window(t)) \in Nat BY SetsFinite
  <2>2. IsFiniteSet(Window(t)') /\ Cardinality(Window(t)') <= Cardinality(Window(t))
    BY <1>4, <2>1, FS_Subset
  <2>3. Cardinality(Window(t)') \in Nat BY <2>2, FS_CardinalityType
  <2> QED BY <1>1, <1>2, <1>4, <2>1, <2>2, <2>3
<1> QED BY <1>3, <1>4 DEF DailyLimitKept, Window, OfLoop

(* What every step but an insert does to the missions' dates. *)
LEMMA DatesStay ==
  ASSUME IInv, [Next]_vars, \A t \in Topics : ~CreateMission(t) /\ ~CycleLaunches(t)
  PROVE  DatesSame
<1>1. ASSUME NEW m \in Ids, CancelMission(m) \/ Fail(m) PROVE DatesSame
  <2>1. m \in Made BY <1>1 DEF CancelMission, Fail, Proceeds, Active
  <2>2. missions' = [missions EXCEPT ![m].status = "failed", ![m].report = FALSE]
    BY <1>1 DEF CancelMission, Fail
  <2> QED BY <2>1, <2>2, Rewrite DEF IInv, DatesSame, Statuses
<1>2. ASSUME NEW m \in Ids, Finish(m) PROVE DatesSame
  <2>1. /\ m \in Made
        /\ missions' = [missions EXCEPT ![m].status = "complete", ![m].report = TRUE]
    BY <1>2 DEF Finish, Proceeds
  <2> QED BY <2>1, Rewrite DEF IInv, DatesSame, Statuses
<1>3. ASSUME NEW m \in Ids, UpdateStatus(m) PROVE DatesSame
  <2>1. /\ m \in Made /\ run[m].place # "none"
        /\ missions' = [missions EXCEPT ![m].status = Working[run[m].phase]]
    BY <1>3 DEF UpdateStatus, Proceeds
  <2>2. Working[run[m].phase] \in Statuses BY <2>1, RunFacts, PhasesAre
  <2> QED BY <2>1, <2>2, RewriteStatus DEF IInv, DatesSame
<1>4. ASSUME missions' = missions PROVE DatesSame BY <1>4 DEF DatesSame, Made
<1>5. ASSUME NEW m \in Ids,
             \/ InsertPhase(m) \/ (\E waits \in BOOLEAN : StartPhase(m, waits))
             \/ CompletePhase(m) \/ RecordDiscovery(m) \/ Answered(m)
             \/ InsertPhaseThrows(m) \/ Throws(m) \/ FailThrows(m)
      PROVE  DatesSame
  BY <1>4, <1>5 DEF InsertPhase, StartPhase, CompletePhase, RecordDiscovery, Answered,
     InsertPhaseThrows, Throws, FailThrows, rows
<1>6. CASE \/ \E on \in BOOLEAN : Configure(on)
           \/ CycleSkips \/ LogLaunch \/ LogLaunchThrows \/ CooledDown \/ Tick
           \/ Crash \/ UNCHANGED vars
  BY <1>4, <1>6 DEF Configure, CycleSkips, LogLaunch, LogLaunchThrows, CooledDown, Tick,
     Crash, vars, rows
<1> QED BY <1>1, <1>2, <1>3, <1>5, <1>6 DEF Next, RunStep, RunGoesOn

(* The mission being launched may be lost to the log, at a mishap. *)
LEMMA LaunchLost ==
  ASSUME IInv, DInv, DatesSame, UNCHANGED <<now, log>>,
         \/ launching' = launching /\ mishaps' \in {mishaps, mishaps + 1}
         \/ launching' = NoOne /\ mishaps' = mishaps + 1
  PROVE  DInv'
<1>1. /\ launching \in {NoOne} \cup Made /\ NoOne \notin Made /\ mishaps \in Nat
      /\ \A i \in DOMAIN log : log[i].mission \in Made
  BY DateTypes
<1>2. Dated' BY DEF DInv, Dated, DatesSame
<1>3. LogDated' BY <1>1 DEF DInv, LogDated, DatesSame
<1>4. LaunchDated' BY <1>1 DEF DInv, LaunchDated, DatesSame
<1>5. DailyLimitKept'
  <2>1. mishaps' \in Nat /\ mishaps' >= mishaps BY <1>1
  <2>2. CASE launching' = launching
    <3>1. Unlogged' = Unlogged BY <2>2 DEF Unlogged, DatesSame
    <3>2. \A t : Window(t)' = Window(t) BY <3>1 DEF Window, OfLoop, DatesSame
    <3> QED BY <2>1, <3>1, <3>2, LimitFollows
  <2>3. CASE launching' = NoOne /\ mishaps' = mishaps + 1
    <3>1. Unlogged' \subseteq Unlogged \cup {launching}
      BY <2>3 DEF Unlogged, DatesSame
    <3>2. Unlogged \subseteq Unlogged'
      BY <1>1, <2>3 DEF Unlogged, DatesSame
    <3>3. \A t : Window(t)' \subseteq Window(t) BY <3>2 DEF Window, OfLoop, DatesSame
    <3> QED BY <2>1, <2>3, <3>1, <3>3, LimitFollows
  <2> QED BY <2>2, <2>3
<1> QED BY <1>2, <1>3, <1>4, <1>5 DEF DInv

(* Once logged, a mission is no longer being launched. *)
LEMMA LogLaunchDates ==
  ASSUME IInv, DInv, LogLaunch, DatesSame
  PROVE  DInv'
<1> DEFINE entry == [topic |-> missions[launching].topic, mission |-> launching, at |-> now]
           n == Len(log) + 1
<1>1. /\ launching # NoOne /\ launching' = NoOne /\ log' = Append(log, entry)
      /\ UNCHANGED <<now, mishaps>> /\ entry.at = now /\ entry.mission = launching
  BY DEF LogLaunch
<1>2. log \in Seq([topic: Topics, mission: Made, at: Nat]) BY DEF IInv, TypeOK
<1> HIDE DEF entry
<1>3. /\ DOMAIN log' = DOMAIN log \cup {n} /\ n \notin DOMAIN log
      /\ log'[n] = entry /\ \A i \in DOMAIN log : log'[i] = log[i]
  BY <1>1, <1>2
<1> HIDE DEF n
<1>4. /\ launching \in Made /\ mishaps \in Nat
      /\ \A i \in DOMAIN log : log[i].mission \in Made
  BY <1>1, DateTypes
<1>5. Dated' BY <1>1 DEF DInv, Dated, DatesSame
<1>6. LogDated'
  <2>1. ASSUME NEW i \in DOMAIN log'
        PROVE  missions'[log'[i].mission].created = log'[i].at
    <3>1. CASE i \in DOMAIN log BY <1>3, <1>4, <3>1 DEF DInv, LogDated, DatesSame
    <3>2. CASE i = n BY <1>1, <1>3, <1>4, <3>2 DEF DInv, LaunchDated, DatesSame
    <3> QED BY <1>3, <2>1, <3>1, <3>2
  <2> QED BY <2>1 DEF LogDated
<1>7. LaunchDated' BY <1>1 DEF LaunchDated
<1>8. Unlogged' = Unlogged
  <2>1. ASSUME NEW m \in Made
        PROVE  (\A i \in DOMAIN log' : log'[i].mission # m)
                 <=> m # launching /\ \A i \in DOMAIN log : log[i].mission # m
    BY <1>1, <1>3
  <2>2. NoOne \notin Made BY DateTypes
  <2> QED BY <1>1, <2>1, <2>2 DEF Unlogged, DatesSame
<1>9. \A t : Window(t)' = Window(t) BY <1>8 DEF Window, OfLoop, DatesSame
<1>10. DailyLimitKept' BY <1>1, <1>4, <1>8, <1>9, LimitFollows
<1> QED BY <1>5, <1>6, <1>7, <1>10 DEF DInv

(* The window moves on: nothing was created at the time it comes to. *)
LEMMA TickDates ==
  ASSUME IInv, DInv, Tick, DatesSame
  PROVE  DInv'
<1>1. /\ now' = now + 1 /\ UNCHANGED <<log, mishaps, launching>> /\ launching = NoOne
  BY DEF Tick, Free
<1>2. /\ now \in Nat /\ Day \in Nat /\ Day > 0 /\ MaxPerDay \in Nat
      /\ \A i \in DOMAIN log : log[i].mission \in Made
  BY DateTypes
<1>3. Dated'
  <2>1. ASSUME NEW m \in Made' PROVE missions'[m].created <= now'
    <3>1. m \in Made /\ missions'[m].created = missions[m].created
      BY <2>1 DEF DatesSame
    <3> QED BY <1>1, <1>2, <3>1, DateTypes DEF DInv, Dated
  <2> QED BY <2>1 DEF Dated
<1>4. LogDated' BY <1>1, <1>2 DEF DInv, LogDated, DatesSame
<1>5. LaunchDated' BY <1>1 DEF LaunchDated
<1>6. Unlogged' = Unlogged BY <1>1 DEF Unlogged, DatesSame
<1>7. \A t : Window(t)' = Window(t) BY <1>6 DEF Window, OfLoop, DatesSame
<1>8. /\ Cardinality(Unlogged) <= mishaps
      /\ \A t \in 0 .. now : Cardinality(Window(t)) <= MaxPerDay
  BY DailyLimitIs DEF DInv
<1>9. Cardinality(Window(now + 1)) <= MaxPerDay
  <2>1. Window(now + 1) \subseteq Window(now)
    BY <1>2, DateTypes DEF DInv, Dated, Window
  <2>2. IsFiniteSet(Window(now)) /\ Cardinality(Window(now)) \in Nat BY SetsFinite
  <2>3. Cardinality(Window(now + 1)) <= Cardinality(Window(now))
    BY <2>1, <2>2, FS_Subset
  <2>4. Cardinality(Window(now + 1)) \in Nat BY SetsFinite
  <2>5. now \in 0 .. now BY <1>2
  <2> QED BY <1>2, <1>8, <2>2, <2>3, <2>4, <2>5
<1>10. \A t \in 0 .. now + 1 : t \in 0 .. now \/ t = now + 1 BY <1>2
<1>11. \A t \in 0 .. now' : Cardinality(Window(t)') <= MaxPerDay
  BY <1>1, <1>7, <1>8, <1>9, <1>10
<1>12. DailyLimitKept' BY <1>1, <1>6, <1>8, <1>11 DEF DailyLimitKept, Window, OfLoop
<1> QED BY <1>3, <1>4, <1>5, <1>12 DEF DInv

(* A mission inserted for the loop, or for anyone else. *)
LEMMA InsertDates ==
  ASSUME IInv, NEW t \in Topics, NEW who \in {"anyone", "loop"}, Insert(t, who)
  PROVE  LET m == Len(missions) + 1
         IN /\ m \notin Made /\ Made' = Made \cup {m} /\ m # NoOne
            /\ missions'[m].by = who /\ missions'[m].created = now
            /\ \A q \in Made : missions'[q] = missions[q]
<1> DEFINE row == [topic |-> t, by |-> who, created |-> now, status |-> "pending",
                   report |-> FALSE]
           m == Len(missions) + 1
<1>1. missions \in Seq(Mission) /\ Len(missions) \in Nat /\ now \in Nat
  BY Types DEF IInv, TypeOK
<1>2. missions' = Append(missions, row) BY DEF Insert
<1>3. row.by = who /\ row.created = now /\ row \in Mission
  BY <1>1 DEF Mission, Statuses
<1> HIDE DEF row
<1>4. /\ missions'[m] = row /\ Len(missions') = m
      /\ \A q \in Made : missions'[q] = missions[q]
  BY <1>1, <1>2, <1>3 DEF Made
<1>5. m \notin Made /\ Made' = Made \cup {m} BY <1>1, <1>4 DEF Made
<1>6. m # NoOne BY <1>1 DEF NoOne
<1> QED BY <1>3, <1>4, <1>5, <1>6

LEMMA CreateMissionDates ==
  ASSUME IInv, DInv, NEW t \in Topics, CreateMission(t)
  PROVE  DInv'
<1> DEFINE m == Len(missions) + 1
<1>1. /\ Insert(t, "anyone") /\ launching = NoOne
      /\ UNCHANGED <<now, log, launching, mishaps>>
  BY DEF CreateMission, auto, Free
<1>2. /\ m \notin Made /\ Made' = Made \cup {m}
      /\ missions'[m].by = "anyone" /\ missions'[m].created = now
      /\ \A q \in Made : missions'[q] = missions[q]
  BY <1>1, InsertDates
<1> HIDE DEF m
<1>3. now \in Nat /\ mishaps \in Nat /\ \A i \in DOMAIN log : log[i].mission \in Made
  BY DateTypes
<1>4. Dated' BY <1>1, <1>2, <1>3 DEF DInv, Dated
<1>5. LogDated' BY <1>1, <1>2, <1>3 DEF DInv, LogDated
<1>6. LaunchDated' BY <1>1 DEF LaunchDated
<1>7. Unlogged' = Unlogged BY <1>1, <1>2 DEF Unlogged
<1>8. \A s : Window(s)' = Window(s) BY <1>2, <1>7 DEF Window, OfLoop
<1>9. DailyLimitKept' BY <1>1, <1>3, <1>7, <1>8, LimitFollows
<1> QED BY <1>4, <1>5, <1>6, <1>9 DEF DInv

(* When nothing is being launched, each mission in the window that ends now *)
(* but the unlogged ones has an entry in the log of the last 24 hours.      *)
LEMMA WindowLogged ==
  ASSUME IInv, DInv, launching = NoOne
  PROVE  Cardinality(Window(now)) <= LaunchedToday
<1> DEFINE today == {i \in DOMAIN log : now - log[i].at < Day}
           logged == {log[i].mission : i \in today}
           f == [i \in today |-> log[i].mission]
<1>1. /\ now \in Nat /\ Day \in Nat /\ NoOne \notin Made /\ IsFiniteSet(DOMAIN log)
      /\ \A i \in DOMAIN log : log[i].mission \in Made /\ log[i].at \in Nat
  BY DateTypes
<1>2. Window(now) \subseteq logged
  <2>1. ASSUME NEW m \in Window(now) PROVE m \in logged
    <3>1. /\ m \in Made /\ m \notin Unlogged /\ OfLoop(m)
          /\ missions[m].created \in now - Day + 1 .. now
      BY <2>1 DEF Window
    <3>2. PICK i \in DOMAIN log : log[i].mission = m
      BY <1>1, <3>1 DEF Unlogged, OfLoop
    <3>3. log[i].at = missions[m].created BY <3>2 DEF DInv, LogDated
    <3>4. now - log[i].at < Day BY <1>1, <3>1, <3>3
    <3> QED BY <3>2, <3>4
  <2> QED BY <2>1
<1>3. today \subseteq DOMAIN log OBVIOUS
<1>4. IsFiniteSet(today) BY <1>1, <1>3, FS_Subset
<1>5. f \in Surjection(today, logged) BY DEF Surjection
<1> HIDE DEF f, logged
<1>6. IsFiniteSet(logged) /\ Cardinality(logged) <= Cardinality(today)
  BY <1>4, <1>5, FS_Surjection
<1>7. IsFiniteSet(Window(now)) /\ Cardinality(Window(now)) <= Cardinality(logged)
  BY <1>2, <1>6, FS_Subset
<1>8. /\ Cardinality(Window(now)) \in Nat /\ Cardinality(logged) \in Nat
      /\ Cardinality(today) \in Nat
  BY <1>4, <1>6, <1>7, FS_CardinalityType
<1>9. LaunchedToday = Cardinality(today) BY DEF LaunchedToday
<1> HIDE DEF today
<1> QED BY <1>6, <1>7, <1>8, <1>9

(* The launch of a mission: the log has fewer entries than the limit. *)
LEMMA CycleLaunchesDates ==
  ASSUME IInv, DInv, NEW t \in Topics, CycleLaunches(t)
  PROVE  DInv'
<1> DEFINE m == Len(missions) + 1
<1>1. /\ Insert(t, "loop") /\ LaunchedToday < MaxPerDay
      /\ launching = NoOne /\ launching' = m
      /\ UNCHANGED <<now, log, mishaps>>
  BY DEF CycleLaunches, MayCycle, Free
<1>2. /\ m \notin Made /\ Made' = Made \cup {m} /\ m # NoOne
      /\ missions'[m].by = "loop" /\ missions'[m].created = now
      /\ \A q \in Made : missions'[q] = missions[q]
  BY <1>1, InsertDates
<1> HIDE DEF m
<1>3. /\ now \in Nat /\ mishaps \in Nat /\ MaxPerDay \in Nat /\ NoOne \notin Made
      /\ Day \in Nat /\ Day > 0 /\ IsFiniteSet(DOMAIN log)
      /\ \A i \in DOMAIN log : log[i].mission \in Made
  BY DateTypes
<1>4. Dated' BY <1>1, <1>2, <1>3 DEF DInv, Dated
<1>5. LogDated' BY <1>1, <1>2, <1>3 DEF DInv, LogDated
<1>6. LaunchDated' BY <1>1, <1>2 DEF LaunchDated
<1>7. Unlogged' = Unlogged BY <1>1, <1>2, <1>3 DEF Unlogged
<1>8. /\ Cardinality(Unlogged) <= mishaps
      /\ \A s \in 0 .. now : Cardinality(Window(s)) <= MaxPerDay
  BY DailyLimitIs DEF DInv
<1>9. ASSUME NEW s \in 0 .. now PROVE Cardinality(Window(s)') <= MaxPerDay
  <2>1. CASE s # now
    <3>1. Window(s)' = Window(s) BY <1>2, <1>3, <1>7, <2>1 DEF Window, OfLoop
    <3> QED BY <1>8, <3>1
  <2>2. CASE s = now
    <3>1. Window(s)' \subseteq Window(now) \cup {m}
      BY <1>2, <1>7, <2>2 DEF Window, OfLoop
    <3>2. IsFiniteSet(Window(now)) /\ Cardinality(Window(now)) \in Nat BY SetsFinite
    <3>3. /\ IsFiniteSet(Window(now) \cup {m})
          /\ Cardinality(Window(now) \cup {m}) <= Cardinality(Window(now)) + 1
      BY <3>2, FS_AddElement
    <3>4. /\ IsFiniteSet(Window(s)')
          /\ Cardinality(Window(s)') <= Cardinality(Window(now) \cup {m})
      BY <3>1, <3>3, FS_Subset
    <3>5. /\ Cardinality(Window(s)') \in Nat
          /\ Cardinality(Window(now) \cup {m}) \in Nat
      BY <3>3, <3>4, FS_CardinalityType
    <3>6. Cardinality(Window(now)) <= LaunchedToday BY <1>1, WindowLogged
    <3>7. LaunchedToday \in Nat
      <4>1. {i \in DOMAIN log : now - log[i].at < Day} \subseteq DOMAIN log OBVIOUS
      <4> QED BY <1>3, <4>1, FS_Subset, FS_CardinalityType DEF LaunchedToday
    <3> QED BY <1>1, <1>3, <3>2, <3>3, <3>4, <3>5, <3>6, <3>7
  <2> QED BY <2>1, <2>2
<1>10. DailyLimitKept' BY <1>1, <1>7, <1>8, <1>9 DEF DailyLimitKept, Window, OfLoop
<1> QED BY <1>4, <1>5, <1>6, <1>10 DEF DInv

LEMMA NextDates ==
  ASSUME IInv, DInv, [Next]_vars
  PROVE  DInv'
<1>1. CASE \E t \in Topics : CreateMission(t) \/ CycleLaunches(t)
  BY <1>1, CreateMissionDates, CycleLaunchesDates
<1>2. CASE ~\E t \in Topics : CreateMission(t) \/ CycleLaunches(t)
  <2>1. DatesSame BY <1>2, DatesStay
  <2>2. CASE LogLaunch \/ Tick BY <2>1, <2>2, LogLaunchDates, TickDates
  <2>3. CASE Crash \/ LogLaunchThrows \/ \E m \in Ids : InsertPhaseThrows(m)
    <3>1. /\ UNCHANGED <<now, log>> /\ launching' = NoOne /\ mishaps' = mishaps + 1
      BY <2>3 DEF Crash, LogLaunchThrows, InsertPhaseThrows, MishapHappens
    <3> QED BY <2>1, <3>1, LaunchLost
  <2>4. CASE ~(LogLaunch \/ Tick \/ Crash \/ LogLaunchThrows
               \/ \E m \in Ids : InsertPhaseThrows(m))
    <3>1. UNCHANGED <<now, log, launching>> /\ mishaps' \in {mishaps, mishaps + 1}
      <4>1. ASSUME NEW m \in Ids, RunGoesOn(m) \/ Answered(m) \/ CancelMission(m)
            PROVE  UNCHANGED <<now, log, launching, mishaps>>
        BY <4>1 DEF RunGoesOn, InsertPhase, UpdateStatus, StartPhase, CompletePhase,
           Finish, RecordDiscovery, Fail, Answered, CancelMission, Proceeds, auto
      <4>2. ASSUME NEW m \in Ids, Throws(m) \/ FailThrows(m)
            PROVE  /\ UNCHANGED <<now, log, launching>>
                   /\ mishaps' \in {mishaps, mishaps + 1}
        BY <4>2 DEF Throws, FailThrows, Proceeds, MishapHappens, auto
      <4>3. CASE (\E on \in BOOLEAN : Configure(on)) \/ CycleSkips \/ CooledDown
                 \/ UNCHANGED vars
        BY <4>3 DEF Configure, CycleSkips, CooledDown, auto, vars
      <4> QED BY <1>2, <2>4, <4>1, <4>2, <4>3 DEF Next, RunStep
    <3> QED BY <2>1, <3>1, LaunchLost
  <2> QED BY <2>2, <2>3, <2>4
<1> QED BY <1>1, <1>2

LEMMA InitDates == Init => DInv
<1> SUFFICES ASSUME Init PROVE DInv OBVIOUS
<1>1. Made = {} /\ log = <<>> /\ mishaps = 0 /\ launching = NoOne /\ MaxPerDay \in Nat
  BY LimitAssumption DEF Init, Made
<1>2. Dated /\ LogDated /\ LaunchDated BY <1>1 DEF Dated, LogDated, LaunchDated
<1>3. Unlogged = {} /\ \A t : Window(t) = {} BY <1>1 DEF Window, Unlogged
<1>4. Cardinality(Unlogged) = 0 /\ \A t : Cardinality(Window(t)) = 0
  <2>1. Cardinality({}) = 0 BY FS_EmptySet
  <2> QED BY <1>3, <2>1, Zenon
<1> HIDE <1>3
<1>5. DailyLimitKept
  <2>1. \A t \in 0 .. now : Cardinality(Window(t)) <= MaxPerDay BY <1>1, <1>4
  <2> QED BY <1>1, <1>4, <2>1, DailyLimitIs
<1> QED BY <1>2, <1>5 DEF DInv

(* In no 24 hours does the loop create more missions than                   *)
(* maxMissionsPerDay, but for those it could not log; and these are no more *)
(* than there were ends of the process, and statements that threw out of    *)
(* createMission, the cycle or the catch of a run.                          *)
THEOREM MissionDailyLimit == Spec => []DailyLimitKept
<1>1. Init => DInv BY InitDates
<1>2. IInv /\ DInv /\ [Next]_vars => DInv' BY NextDates
<1>3. DInv => DailyLimitKept BY DEF DInv
<1> QED BY <1>1, <1>2, <1>3, Invariant, PTL DEF Spec
===========================================================================
