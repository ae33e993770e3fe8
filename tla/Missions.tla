----------------------------- MODULE Missions -----------------------------
(***************************************************************************)
(* ResearchMissionEngine (brain-core/src/missions) with its one caller     *)
(* that keeps state of its own, the AutonomousResearchLoop                 *)
(* (brain-core/src/research).                                              *)
(*                                                                         *)
(* A mission runs in the background through five phases, each of which     *)
(* waits for the LLM or the web.  Its rows are all that survives the       *)
(* process; the limit on concurrent missions counts rows, not runs.        *)
(*                                                                         *)
(* Between two awaits the process runs one stretch at a time.  Each        *)
(* statement of the database in it is a step and a commit of its own: it   *)
(* may throw, and the process may end after it.  Questions, sources and    *)
(* texts are left out.                                                     *)
(***************************************************************************)
EXTENDS Integers, Sequences, FiniteSets

CONSTANTS
  Topics,         \* topics a mission may be about
  Similar,        \* topicSimilar: pairs of topics
  Overlapping,    \* the loop's topicOverlap > 0.7: pairs of topics
  Working,        \* the status of a mission in each phase (code: five)
  MaxConcurrent,  \* maxConcurrentMissions (code: 3)
  DedupRows,      \* rows the deduplication looks at (code: 50)
  MaxPerDay,      \* maxMissionsPerDay of the loop (code: 5)
  LogRows,        \* topics the loop compares with (code: 10)
  Day,            \* 24 hours, in ticks of the clock
  MaxMissions,    \* bound: missions created
  MaxNow,         \* bound: the clock
  MaxMishaps      \* bound: ends of the process, and errors nobody handles

ASSUME TopicAssumption ==
  /\ Similar \subseteq Topics \X Topics /\ \A t \in Topics : <<t, t>> \in Similar
  /\ Overlapping \subseteq Topics \X Topics
ASSUME PhaseAssumption ==
  /\ Working \in Seq(STRING) /\ Working # <<>>
  /\ \A i \in DOMAIN Working :
       /\ Working[i] \notin {"pending", "complete", "failed"}
       /\ \A j \in DOMAIN Working : Working[i] = Working[j] => i = j
ASSUME LimitAssumption ==
  /\ {DedupRows, MaxPerDay, LogRows, MaxMissions, MaxNow, MaxMishaps} \subseteq Nat
  /\ {MaxConcurrent, Day} \subseteq Nat \ {0}

Last == Len(Working)

Ids == 1 .. MaxMissions
NoOne == 0

(* The statement a run comes to next, or that it waits in its phase. *)
At(place, k) == [place |-> place, phase |-> k]

NoRun == At("none", 0)

VARIABLES
  now,        \* the clock
  missions,   \* research_missions, in the order of their ids
  phases,     \* mission_phases: of each mission, the status of each phase
  run,        \* of each mission, where createMission or executeMission is
  turn,       \* the mission whose run is in a stretch without await
  log,        \* autonomous_research_log where action = 'mission_launched'
  loop,       \* the loop: enabled, and cooling down since its last cycle
  launching,  \* the mission the loop has created and not yet logged
  mishaps,    \* ends of the process, and errors nobody handles, so far
  cancelled,  \* history: missions somebody has cancelled
  stranded    \* history: missions whose run ended without writing an end

rows == <<missions, phases>>
auto == <<log, loop, launching>>
vars == <<now, rows, run, turn, auto, mishaps, cancelled, stranded>>

Made == 1 .. Len(missions)

Active(m) == m \in Made /\ missions[m].status \notin {"complete", "failed"}

(* Nobody is in a stretch. *)
Free == turn = NoOne /\ launching = NoOne

MishapHappens ==
  /\ mishaps < MaxMishaps
  /\ mishaps' = mishaps + 1

---------------------------------------------------------------------------
(* createMission *)

(* Fault: the limit is compared with the missions not yet begun. *)
CrowdedByPending ==
  Cardinality({m \in Made : missions[m].status = "pending"}) >= MaxConcurrent

Crowded == Cardinality({m \in Made : Active(m)}) >= MaxConcurrent

RecentlySimilar(t) ==
  \E m \in Made : /\ m > Len(missions) - DedupRows
                  /\ now - missions[m].created < Day
                  /\ <<t, missions[m].topic>> \in Similar

Accepts(t) ==
  /\ ~Crowded /\ ~RecentlySimilar(t)
  /\ Len(missions) < MaxMissions

Insert(t, who) ==
  LET m == Len(missions) + 1
  IN /\ missions' = Append(missions, [topic |-> t, by |-> who, created |-> now,
                                      status |-> "pending", report |-> FALSE])
     /\ run' = [run EXCEPT ![m] = At("rows", 1)]
     /\ turn' = m

(* An operator, an action of the ActionBridge or a step of the orchestrator. *)
CreateMission(t) ==
  /\ Free /\ Accepts(t)
  /\ Insert(t, "anyone")
  /\ UNCHANGED <<now, phases, auto, mishaps, cancelled, stranded>>

InsertPhase(m) ==
  /\ turn = m /\ run[m].place = "rows"
  /\ phases' = [phases EXCEPT ![m] = Append(@, "pending")]
  /\ run' = [run EXCEPT ![m] = IF @.phase < Last THEN At("rows", @.phase + 1)
                               ELSE At("status", 1)]
  /\ UNCHANGED <<now, missions, turn, auto, mishaps, cancelled, stranded>>

(* The error goes to the caller; the loop writes nothing then. *)
InsertPhaseThrows(m) ==
  /\ turn = m /\ run[m].place = "rows"
  /\ MishapHappens
  /\ run' = [run EXCEPT ![m] = NoRun]
  /\ turn' = NoOne /\ launching' = NoOne
  /\ stranded' = stranded \cup {m}
  /\ UNCHANGED <<now, rows, log, loop, cancelled>>

(* cancelMission writes the row; the run is not told. *)
CancelMission(m) ==
  /\ Free /\ Active(m)
  /\ missions' = [missions EXCEPT ![m].status = "failed", ![m].report = FALSE]
  /\ cancelled' = cancelled \cup {m}
  /\ UNCHANGED <<now, phases, run, turn, auto, mishaps, stranded>>

---------------------------------------------------------------------------
(* executeMission.  A run takes its turn when what it waited for is there. *)

Proceeds(m, place) ==
  /\ m \in Made /\ run[m].place = place
  /\ turn = m \/ Free
  /\ UNCHANGED <<now, auto, cancelled>>

(* updateMissionStatus, whatever the row of the mission says by now. *)
UpdateStatus(m) ==
  /\ Proceeds(m, "status")
  /\ missions' = [missions EXCEPT ![m].status = Working[run[m].phase]]
  /\ run' = [run EXCEPT ![m].place = "start"]
  /\ turn' = m
  /\ UNCHANGED <<phases, mishaps, stranded>>

(* Fault: the row of the phase is not found, and nobody notices. *)
StartPhaseUnrecorded(m, waits) ==
  /\ Proceeds(m, "start")
  /\ run' = [run EXCEPT ![m].place = IF waits THEN "phase" ELSE "complete"]
  /\ turn' = IF waits THEN NoOne ELSE m
  /\ UNCHANGED <<rows, mishaps, stranded>>

(* startPhase; what follows need not wait, as when there is no LLM. *)
StartPhase(m, waits) ==
  /\ Proceeds(m, "start")
  /\ phases' = [phases EXCEPT ![m][run[m].phase] = "running"]
  /\ run' = [run EXCEPT ![m].place = IF waits THEN "phase" ELSE "complete"]
  /\ turn' = IF waits THEN NoOne ELSE m
  /\ UNCHANGED <<missions, mishaps, stranded>>

(* The LLM or the web has answered. *)
Answered(m) ==
  /\ Proceeds(m, "phase")
  /\ run' = [run EXCEPT ![m].place = "complete"]
  /\ turn' = m
  /\ UNCHANGED <<rows, mishaps, stranded>>

(* The phase returns, and executeMission goes on; a mission of the loop   *)
(* that has not waited yet first returns to the loop.                     *)
PhaseReturns(m) ==
  /\ run' = [run EXCEPT ![m] = IF @.phase < Last THEN At("status", @.phase + 1)
                               ELSE At("report", Last)]
  /\ turn' = IF launching = m THEN NoOne ELSE m

(* Fault: the row of the phase stays as it is. *)
CompletePhaseUnrecorded(m) ==
  /\ Proceeds(m, "complete")
  /\ PhaseReturns(m)
  /\ UNCHANGED <<rows, mishaps, stranded>>

CompletePhase(m) ==
  /\ Proceeds(m, "complete")
  /\ phases' = [phases EXCEPT ![m][run[m].phase] = "complete"]
  /\ PhaseReturns(m)
  /\ UNCHANGED <<missions, mishaps, stranded>>

(* Fault: the end of a mission writes its status only. *)
FinishWithoutReport(m) ==
  /\ Proceeds(m, "report")
  /\ missions' = [missions EXCEPT ![m].status = "complete"]
  /\ run' = [run EXCEPT ![m].place = "journal"]
  /\ turn' = m
  /\ UNCHANGED <<phases, mishaps, stranded>>

Finish(m) ==
  /\ Proceeds(m, "report")
  /\ missions' = [missions EXCEPT ![m].status = "complete", ![m].report = TRUE]
  /\ run' = [run EXCEPT ![m].place = "journal"]
  /\ turn' = m
  /\ UNCHANGED <<phases, mishaps, stranded>>

RecordDiscovery(m) ==
  /\ Proceeds(m, "journal")
  /\ run' = [run EXCEPT ![m] = NoRun]
  /\ turn' = NoOne
  /\ UNCHANGED <<rows, mishaps, stranded>>

Caught == {"status", "start", "phase", "complete", "report", "journal"}

(* Fault: an error ends the run without its catch. *)
ThrowsUnnoticed(m) ==
  /\ \E place \in Caught : Proceeds(m, place)
  /\ run' = [run EXCEPT ![m] = NoRun]
  /\ turn' = NoOne
  /\ UNCHANGED <<rows, mishaps, stranded>>

(* A statement throws, or a phase while it waits: one catch for all, the   *)
(* entry in the journal of a complete mission included.                    *)
Throws(m) ==
  /\ \E place \in Caught : Proceeds(m, place)
  /\ run' = [run EXCEPT ![m].place = "catch"]
  /\ turn' = m
  /\ UNCHANGED <<rows, mishaps, stranded>>

(* Fault: a status that MissionStatus does not know. *)
FailWithError(m) ==
  /\ Proceeds(m, "catch")
  /\ missions' = [missions EXCEPT ![m].status = "error", ![m].report = FALSE]
  /\ run' = [run EXCEPT ![m] = NoRun]
  /\ turn' = NoOne
  /\ UNCHANGED <<phases, mishaps, stranded>>

(* The catch: the rows of the phases stay as they are. *)
Fail(m) ==
  /\ Proceeds(m, "catch")
  /\ missions' = [missions EXCEPT ![m].status = "failed", ![m].report = FALSE]
  /\ run' = [run EXCEPT ![m] = NoRun]
  /\ turn' = NoOne
  /\ UNCHANGED <<phases, mishaps, stranded>>

FailThrows(m) ==
  /\ Proceeds(m, "catch")
  /\ MishapHappens
  /\ run' = [run EXCEPT ![m] = NoRun]
  /\ turn' = NoOne
  /\ stranded' = stranded \cup {m}
  /\ UNCHANGED rows

---------------------------------------------------------------------------
(* The AutonomousResearchLoop: its timer and the route                     *)
(* research.autonomous.cycle call the same cycle at any time.              *)

(* research.autonomous.enable, .disable and .update. *)
Configure(on) ==
  /\ Free /\ loop.enabled # on
  /\ loop' = [loop EXCEPT !.enabled = on]
  /\ UNCHANGED <<now, rows, run, turn, log, launching, mishaps, cancelled, stranded>>

(* Fault: a window that is too short. *)
LaunchedOfLate ==
  Cardinality({i \in DOMAIN log : now - log[i].at < Day - 1})

LaunchedToday ==
  Cardinality({i \in DOMAIN log : now - log[i].at < Day})

MayCycle ==
  /\ Free /\ loop.enabled /\ ~loop.cooling
  /\ LaunchedToday < MaxPerDay

(* The topic overlaps one of the LogRows topics launched last. *)
Researched(t) ==
  \E i \in DOMAIN log :
    LET since == {log[j].topic : j \in i + 1 .. Len(log)}
    IN /\ log[i].topic \notin since /\ Cardinality(since) < LogRows
       /\ <<log[i].topic, t>> \in Overlapping

(* No gap above the threshold, or the best one is of late: a pause.  When *)
(* createMission refuses instead, nothing at all is written.              *)
CycleSkips ==
  /\ MayCycle
  /\ loop' = [loop EXCEPT !.cooling = TRUE]
  /\ UNCHANGED <<now, rows, run, turn, log, launching, mishaps, cancelled, stranded>>

CycleLaunches(t) ==
  /\ MayCycle /\ ~Researched(t) /\ Accepts(t)
  /\ Insert(t, "loop")
  /\ launching' = Len(missions) + 1
  /\ UNCHANGED <<now, phases, log, loop, mishaps, cancelled, stranded>>

(* createMission returns when the run waits, or its first phase has ended. *)
LogLaunch ==
  /\ launching # NoOne /\ turn = NoOne
  /\ log' = Append(log, [topic |-> missions[launching].topic,
                         mission |-> launching, at |-> now])
  /\ loop' = [loop EXCEPT !.cooling = TRUE]
  /\ launching' = NoOne
  /\ UNCHANGED <<now, rows, run, turn, mishaps, cancelled, stranded>>

(* The entry, or getMission before it, throws: no entry, and no pause. *)
LogLaunchThrows ==
  /\ launching # NoOne /\ turn = NoOne
  /\ MishapHappens
  /\ launching' = NoOne
  /\ UNCHANGED <<now, rows, run, turn, log, loop, cancelled, stranded>>

(* Nine tenths of cycleCooldownMs have passed: less than a tick. *)
CooledDown ==
  /\ Free /\ loop.cooling
  /\ loop' = [loop EXCEPT !.cooling = FALSE]
  /\ UNCHANGED <<now, rows, run, turn, log, launching, mishaps, cancelled, stranded>>

---------------------------------------------------------------------------
Tick ==
  /\ Free /\ now < MaxNow
  /\ now' = now + 1
  /\ loop' = [loop EXCEPT !.cooling = FALSE]
  /\ UNCHANGED <<rows, run, turn, log, launching, mishaps, cancelled, stranded>>

(* The process ends and a new one starts: no run is resumed, and the loop *)
(* is off, as constructed.                                                *)
Crash ==
  /\ MishapHappens
  /\ run' = [m \in Ids |-> NoRun]
  /\ stranded' = stranded \cup {m \in Ids : run[m] # NoRun}
  /\ loop' = [enabled |-> FALSE, cooling |-> FALSE]
  /\ turn' = NoOne /\ launching' = NoOne
  /\ UNCHANGED <<now, rows, log, cancelled>>

Init ==
  /\ now = 0
  /\ missions = <<>>
  /\ phases = [m \in Ids |-> <<>>]
  /\ run = [m \in Ids |-> NoRun]
  /\ turn = NoOne
  /\ log = <<>>
  /\ loop = [enabled |-> FALSE, cooling |-> FALSE]
  /\ launching = NoOne
  /\ mishaps = 0
  /\ cancelled = {} /\ stranded = {}

(* What a run does of itself, once it may go on. *)
RunGoesOn(m) ==
  \/ InsertPhase(m) \/ UpdateStatus(m)
  \/ \E waits \in BOOLEAN : StartPhase(m, waits)
  \/ CompletePhase(m) \/ Finish(m) \/ RecordDiscovery(m) \/ Fail(m)

RunStep(m) ==
  \/ RunGoesOn(m) \/ Answered(m)
  \/ InsertPhaseThrows(m) \/ Throws(m) \/ FailThrows(m)

Next ==
  \/ \E t \in Topics : CreateMission(t) \/ CycleLaunches(t)
  \/ \E m \in Ids : RunStep(m) \/ CancelMission(m)
  \/ \E on \in BOOLEAN : Configure(on)
  \/ CycleSkips \/ LogLaunch \/ LogLaunchThrows \/ CooledDown
  \/ Tick \/ Crash

(* The process runs what it can run.  That a run is answered is not       *)
(* assumed: chat and the web have no timeout.                             *)
Fairness ==
  /\ \A m \in Ids : WF_vars(RunGoesOn(m))
  /\ WF_vars(LogLaunch)

Spec == Init /\ [][Next]_vars /\ Fairness

---------------------------------------------------------------------------
(* Properties *)

Waits(m) == run[m].place = "phase"

(* The state is well typed. *)
TypeOK ==
  /\ now \in Nat
  /\ missions \in Seq([topic: Topics, by: {"anyone", "loop"}, created: Nat,
                       status: {Working[i] : i \in DOMAIN Working}
                               \cup {"pending", "complete", "failed"},
                       report: BOOLEAN])
  /\ Len(missions) <= MaxMissions
  /\ phases \in [Ids -> Seq({"pending", "running", "complete"})]
  /\ \A m \in Ids : Len(phases[m]) <= Last
  /\ run \in [Ids -> [place: Caught \cup {"none", "rows", "catch"}, phase: 0 .. Last]]
  /\ turn \in {NoOne} \cup Made
  /\ log \in Seq([topic: Topics, mission: Made, at: Nat])
  /\ loop \in [enabled: BOOLEAN, cooling: BOOLEAN]
  /\ launching \in {NoOne} \cup Made
  /\ mishaps \in 0 .. MaxMishaps
  /\ cancelled \subseteq Made /\ stranded \subseteq Made

(* maxConcurrentMissions holds for the missions nobody cancelled: only a   *)
(* cancelled one, which its run brings back to life, may exceed the limit. *)
LimitKept ==
  Cardinality({m \in Made : Active(m) /\ m \notin cancelled}) <= MaxConcurrent

Begun(m) == {i \in DOMAIN phases[m] : phases[m][i] # "pending"}

Ended(m) == {i \in DOMAIN phases[m] : phases[m][i] = "complete"}

(* The rows of a mission tell one story, after every commit: also when the *)
(* process ends there, a statement throws, or the run of a cancelled       *)
(* mission goes on.  A pending mission has begun no phase; one that works  *)
(* on a phase has ended those before it and begun none after it; a         *)
(* complete one has ended all, and it alone has the report that getReport  *)
(* promises.                                                               *)
RowsAgree ==
  \A m \in Made :
    /\ missions[m].status = "pending" => Begun(m) = {}
    /\ \A k \in DOMAIN Working :
         missions[m].status = Working[k] => 1 .. k - 1 \subseteq Ended(m) /\ Begun(m) \subseteq 1 .. k
    /\ missions[m].status = "complete" => Ended(m) = 1 .. Last
    /\ missions[m].report <=> missions[m].status = "complete"

(* A mission that waits says which phase it waits in, unless it was        *)
(* cancelled; one that works has a run, unless that ended without a word.  *)
RunsAreRecorded ==
  \A m \in Made :
    /\ Waits(m) => /\ phases[m][run[m].phase] = "running"
                   /\ m \in cancelled \/ missions[m].status = Working[run[m].phase]
    /\ Active(m) => run[m] # NoRun \/ m \in stranded

(* Missions of the loop that it could not log. *)
Unlogged ==
  {m \in Made : /\ missions[m].by = "loop" /\ m # launching
                /\ \A i \in DOMAIN log : log[i].mission # m}

(* In no 24 hours does the loop create more missions than maxMissionsPerDay, *)
(* but for those it could not log: one per end of the process, or per        *)
(* statement that throws out of createMission or of the cycle.               *)
DailyLimitKept ==
  /\ Cardinality(Unlogged) <= mishaps
  /\ \A t \in 0 .. now :
       Cardinality({m \in Made \ Unlogged : /\ missions[m].by = "loop"
                                            /\ missions[m].created \in t - Day + 1 .. t})
         <= MaxPerDay

(* A mission whose phases do not wait for ever ends, unless its run ended   *)
(* without writing so: with the process, or by throwing out of              *)
(* createMission or out of the catch.  Such a row stays active, and counts  *)
(* against the limit, until somebody cancels it.                            *)
MissionsEnd ==
  \A m \in Ids :
    []<>~Waits(m) => (Active(m) ~> (m \in stranded \/ ~Active(m)))
===========================================================================
