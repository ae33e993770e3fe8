------------------------- MODULE SupervisionProofs -------------------------
(***************************************************************************)
(* Proofs about Supervision for any number of processes, supervisors,      *)
(* faults, restarts and stops: where a daemon that is up can be found, and *)
(* that nothing is spawned without a cause.                                *)
(***************************************************************************)
EXTENDS Supervision, FiniteSetTheorems, TLAPS

(* The part of the types the argument rests on; a signal waits for, and a  *)
(* restart is due in, a process that has booted and is not dead.           *)
Shape ==
  /\ spawned \in Nat
  /\ phase \in [Procs -> Phases]
  /\ sigterm \in [Procs -> BOOLEAN] /\ rebootDue \in [Procs -> BOOLEAN]
  /\ overlap \in BOOLEAN /\ gaveUp \in BOOLEAN
  /\ \A p \in Procs : p > spawned => phase[p] = "unborn"
  /\ \A p \in Procs :
       sigterm[p] \/ rebootDue[p] => phase[p] \notin {"unborn", "booting", "dead"}

(* Without an overlap no two daemons are alive. *)
OneAlive == ~overlap => \A p, q \in Procs : Alive(p) /\ Alive(q) => p = q

IInv == Shape /\ OneAlive /\ LoneDaemonIsFound

---------------------------------------------------------------------------
(* Steps of which only the shape is asked. *)

LEMMA ShapeOfSpawn ==
  ASSUME Shape, NEW p \in Procs, NEW was \in [Procs -> Phases], Spawn(p, was),
         \A q \in Procs : was[q] = phase[q]
                          \/ (was[q] = "dead" /\ phase[q] = "booting"),
         rebootDue' = rebootDue, gaveUp' = gaveUp,
         sigterm' \in [Procs -> BOOLEAN],
         \A q \in Procs : sigterm'[q] =>
           sigterm[q] \/ phase[q] \notin {"unborn", "booting", "dead"}
  PROVE  Shape'
<1>1. /\ p = spawned + 1 /\ spawned' = p /\ phase' = [was EXCEPT ![p] = "booting"]
      /\ overlap' = (overlap \/ \E q \in Procs : was[q] \notin {"unborn", "dead"})
  BY DEF Spawn
<1>2. phase' \in [Procs -> Phases] BY <1>1 DEF Phases
<1>3. \A q \in Procs : phase'[q] = IF q = p THEN "booting" ELSE was[q] BY <1>1
<1>4. spawned' \in Nat /\ overlap' \in BOOLEAN /\ gaveUp' \in BOOLEAN
  BY <1>1 DEF Shape
<1>5. ASSUME NEW q \in Procs, q > spawned' PROVE phase'[q] = "unborn"
  <2>1. q # p /\ q > spawned BY <1>1, <1>5 DEF Shape, Procs
  <2>2. phase[q] = "unborn" BY <2>1 DEF Shape
  <2> QED BY <1>3, <2>1, <2>2
<1>6. phase[p] = "unborn" BY <1>1 DEF Shape
<1>7. ASSUME NEW q \in Procs, sigterm'[q] \/ rebootDue'[q]
      PROVE  phase'[q] \notin {"unborn", "booting", "dead"}
  <2>1. phase[q] \notin {"unborn", "booting", "dead"} BY <1>7 DEF Shape
  <2> QED BY <1>3, <1>6, <2>1
<1> QED BY <1>2, <1>4, <1>5, <1>7 DEF Shape

LEMMA ShapeOfDie ==
  ASSUME Shape, NEW p \in Procs, NEW c, Die(p, c), phase[p] # "unborn",
         UNCHANGED <<spawned, gaveUp, overlap>>
  PROVE  Shape'
BY DEF Die, Shape, Phases

(* A process that has booted, or boots, goes on to a later phase. *)
LEMMA ShapeOfMove ==
  ASSUME Shape, NEW p \in Procs,
         NEW to \in Phases \ {"unborn", "booting", "dead"}, Alive(p),
         phase' = [phase EXCEPT ![p] = to],
         \/ sigterm' = sigterm
         \/ sigterm' = [sigterm EXCEPT ![p] = FALSE],
         \/ rebootDue' = rebootDue
         \/ \E b \in BOOLEAN : rebootDue' = [rebootDue EXCEPT ![p] = b],
         UNCHANGED <<spawned, gaveUp, overlap>>
  PROVE  Shape'
<1>1. phase' \in [Procs -> Phases] BY DEF Shape
<1>2. sigterm' \in [Procs -> BOOLEAN] /\ rebootDue' \in [Procs -> BOOLEAN] BY DEF Shape
<1>3. \A q \in Procs : phase'[q] = IF q = p THEN to ELSE phase[q] BY DEF Shape
<1>4. \A q \in Procs : q > spawned => phase'[q] = "unborn" BY <1>3 DEF Shape, Alive
<1>5. ASSUME NEW q \in Procs, sigterm'[q] \/ rebootDue'[q], q # p
      PROVE  sigterm[q] \/ rebootDue[q]
  BY <1>5 DEF Shape
<1>6. \A q \in Procs : sigterm'[q] \/ rebootDue'[q] =>
        phase'[q] \notin {"unborn", "booting", "dead"}
  BY <1>3, <1>5 DEF Shape
<1> QED BY <1>1, <1>2, <1>4, <1>6 DEF Shape

---------------------------------------------------------------------------
(* Without an overlap, the daemon that is up is in the PID file. *)

(* A step that spawns nobody: the argument for all of them. *)
LEMMA QuietStep ==
  ASSUME IInv, Shape', UNCHANGED <<spawned, overlap>>,
         \A p \in Procs : Alive(p)' => Alive(p),
         ~overlap /\ ~gaveUp' =>
           \A p \in Procs : phase'[p] = "up" /\ ~sigterm'[p] => pidFile' = p
  PROVE  IInv'
<1>1. OneAlive' BY DEF IInv, OneAlive
<1>2. LoneDaemonIsFound' BY DEF LoneDaemonIsFound
<1> QED BY <1>1, <1>2 DEF IInv

(* A step that touches none of it. *)
LEMMA Aside ==
  ASSUME IInv, UNCHANGED <<spawned, phase, sigterm, rebootDue, pidFile, gaveUp, overlap>>
  PROVE  IInv'
BY DEF IInv, Shape, OneAlive, LoneDaemonIsFound, Alive

(* A supervisor that gives up: from there on nothing is promised. *)
LEMMA GivesUp ==
  ASSUME IInv, UNCHANGED <<spawned, phase, sigterm, rebootDue, overlap>>,
         \/ UNCHANGED <<pidFile, gaveUp>>
         \/ gaveUp' = TRUE
  PROVE  IInv'
BY DEF IInv, Shape, OneAlive, LoneDaemonIsFound, Alive

(* A new daemon, with nobody else alive or from there on an overlap; was:   *)
(* the phases of those spawned before it.                                   *)
LEMMA SpawnKeeps ==
  ASSUME IInv, Shape', NEW p \in Procs, NEW was \in [Procs -> Phases], Spawn(p, was)
  PROVE  IInv'
<1>1. /\ p = spawned + 1 /\ spawned' = p /\ phase' = [was EXCEPT ![p] = "booting"]
      /\ overlap' = (overlap \/ \E q \in Procs : was[q] \notin {"unborn", "dead"})
  BY DEF Spawn
<1>2. \A q \in Procs : phase'[q] = IF q = p THEN "booting" ELSE was[q] BY <1>1
<1>3. CASE overlap' BY <1>3 DEF IInv, OneAlive, LoneDaemonIsFound
<1>4. CASE ~overlap'
  <2>1. \A q \in Procs : was[q] \in {"unborn", "dead"} BY <1>1, <1>4
  <2>2. \A q \in Procs : Alive(q)' => q = p BY <1>2, <2>1 DEF Alive
  <2>3. OneAlive' BY <2>2 DEF OneAlive
  <2>4. LoneDaemonIsFound' BY <1>2, <2>1 DEF LoneDaemonIsFound
  <2> QED BY <2>3, <2>4 DEF IInv
<1> QED BY <1>3, <1>4 DEF Shape

LEMMA DieKeeps ==
  ASSUME IInv, NEW p \in Procs, NEW c, Die(p, c), phase[p] # "unborn",
         UNCHANGED <<spawned, pidFile, gaveUp, overlap>>
  PROVE  IInv'
<1>1. Shape' BY ShapeOfDie DEF IInv
<1>2. /\ phase' = [phase EXCEPT ![p] = "dead"]
      /\ sigterm' = [sigterm EXCEPT ![p] = FALSE]
  BY DEF Die
<1>3. phase \in [Procs -> Phases] /\ sigterm \in [Procs -> BOOLEAN]
  BY DEF IInv, Shape
<1>4. \A q \in Procs : Alive(q)' => Alive(q) BY <1>2, <1>3 DEF Alive
<1>5. ~overlap /\ ~gaveUp' =>
        \A q \in Procs : phase'[q] = "up" /\ ~sigterm'[q] => pidFile' = q
  BY <1>2, <1>3 DEF IInv, LoneDaemonIsFound
<1> QED BY <1>1, <1>4, <1>5, QuietStep

(* A living process goes on to another phase of its life; when it is up, it *)
(* has written the PID file.                                                *)
LEMMA MoveKeeps ==
  ASSUME IInv, NEW p \in Procs,
         NEW to \in Phases \ {"unborn", "booting", "dead"}, Alive(p),
         phase' = [phase EXCEPT ![p] = to],
         \/ sigterm' = sigterm
         \/ sigterm' = [sigterm EXCEPT ![p] = FALSE],
         \/ rebootDue' = rebootDue
         \/ \E b \in BOOLEAN : rebootDue' = [rebootDue EXCEPT ![p] = b],
         UNCHANGED <<spawned, gaveUp, overlap>>,
         to = "up" /\ ~sigterm'[p] => pidFile' = p
  PROVE  IInv'
<1>1. Shape' BY ShapeOfMove DEF IInv
<1>2. \A q \in Procs : phase'[q] = IF q = p THEN to ELSE phase[q] BY DEF IInv, Shape
<1>3. \A q \in Procs : Alive(q)' => Alive(q) BY <1>2 DEF Alive
<1>4. ASSUME ~overlap, ~gaveUp', NEW q \in Procs, phase'[q] = "up", ~sigterm'[q]
      PROVE  pidFile' = q
  <2>1. Alive(q) BY <1>2, <1>4 DEF Alive
  <2>2. q = p BY <1>4, <2>1 DEF IInv, OneAlive
  <2> QED BY <1>2, <1>4, <2>2
<1> QED BY <1>1, <1>3, <1>4, QuietStep

---------------------------------------------------------------------------
(* The daemon. *)

LEMMA BootKeeps ==
  ASSUME IInv, NEW p \in Procs, Boot(p)
  PROVE  IInv'
<1>1. Alive(p) BY DEF Boot, Alive
<1>2. /\ phase' = [phase EXCEPT ![p] = "up"] /\ pidFile' = p
      /\ UNCHANGED <<spawned, sigterm, rebootDue, gaveUp, overlap>>
  BY DEF Boot
<1> QED BY <1>1, <1>2, MoveKeeps DEF Phases

LEMMA HandleSigtermKeeps ==
  ASSUME IInv, NEW p \in Procs, HandleSigterm(p)
  PROVE  IInv'
<1>1. /\ sigterm[p]
      /\ phase' = [phase EXCEPT ![p] = "stopping"]
      /\ sigterm' = [sigterm EXCEPT ![p] = FALSE]
      /\ UNCHANGED <<spawned, rebootDue, gaveUp, overlap>>
  BY DEF HandleSigterm
<1>2. Alive(p) BY <1>1 DEF IInv, Shape, Alive
<1> QED BY <1>1, <1>2, MoveKeeps DEF Phases

LEMMA UncaughtErrorKeeps ==
  ASSUME IInv, NEW p \in Procs, UncaughtError(p)
  PROVE  IInv'
<1>1. Alive(p) /\ phase[p] # "unborn" BY DEF UncaughtError, Alive
<1>2. UNCHANGED <<spawned, pidFile, gaveUp, overlap>> BY DEF UncaughtError
<1>3. CASE Die(p, "crash") BY <1>1, <1>2, <1>3, DieKeeps
<1>4. CASE ~Die(p, "crash")
  <2>1. /\ phase' = [phase EXCEPT ![p] = IF @ = "stopping" THEN @ ELSE "restarting"]
        /\ rebootDue' = [rebootDue EXCEPT ![p] = TRUE]
        /\ sigterm' = sigterm
    BY <1>4 DEF UncaughtError
  <2>2. PICK to \in {"stopping", "restarting"} : phase' = [phase EXCEPT ![p] = to]
    BY <2>1 DEF IInv, Shape
  <2> QED BY <1>1, <1>2, <2>1, <2>2, MoveKeeps DEF Phases
<1> QED BY <1>3, <1>4

(* The process after the timer of restart(), in the phase it may then have. *)
LEMMA RebootKeeps ==
  ASSUME IInv, NEW p \in Procs, NEW to \in {"up", "down"}, rebootDue[p],
         rebootDue' = [rebootDue EXCEPT ![p] = FALSE],
         phase' = [phase EXCEPT ![p] = IF @ = "restarting" THEN to ELSE @],
         UNCHANGED <<spawned, sigterm, gaveUp, overlap>>,
         to = "up" => pidFile' = p,
         to = "down" => pidFile' = pidFile
  PROVE  IInv'
<1>1. phase[p] \in Phases \ {"unborn", "booting", "dead"} BY DEF IInv, Shape
<1>2. Alive(p) BY <1>1 DEF Alive
<1>3. CASE phase[p] = "restarting"
  <2>1. phase' = [phase EXCEPT ![p] = to] BY <1>3
  <2> QED BY <1>2, <2>1, MoveKeeps DEF Phases
<1>4. CASE phase[p] # "restarting"
  <2>1. phase' = [phase EXCEPT ![p] = phase[p]] BY <1>4
  <2>2. phase[p] = "up" /\ ~sigterm[p] /\ pidFile' = pidFile /\ ~overlap /\ ~gaveUp => pidFile' = p
    BY DEF IInv, LoneDaemonIsFound
  <2>3. CASE to = "up"
    <3>1. pidFile' = p BY <2>3
    <3> HIDE DEF Phases
    <3> QED BY <1>1, <1>2, <2>1, <3>1, MoveKeeps
  <2>4. CASE to = "down"
    <3>1. phase' = phase BY <2>1 DEF IInv, Shape
    <3>2. Shape' BY <3>1 DEF IInv, Shape
    <3>3. \A q \in Procs : Alive(q)' => Alive(q) BY <3>1 DEF Alive
    <3> QED BY <2>4, <3>1, <3>2, <3>3, QuietStep DEF IInv, LoneDaemonIsFound
  <2> QED BY <2>3, <2>4
<1> QED BY <1>3, <1>4

(* Every step of the daemon. *)
LEMMA DaemonKeeps ==
  ASSUME IInv, NEW p \in Procs, DaemonStep(p) \/ Misfortune(p)
  PROVE  IInv'
<1>1. CASE Boot(p) BY <1>1, BootKeeps
<1>2. CASE Probe(p) BY <1>2, Aside DEF Probe, files
<1>3. CASE Reclaim(p) BY <1>3, Aside DEF Reclaim
<1>4. CASE HandleSigterm(p) BY <1>4, HandleSigtermKeeps
<1>5. CASE Exit(p)
  <2>1. /\ Die(p, "clean") /\ phase[p] # "unborn"
        /\ UNCHANGED <<spawned, pidFile, gaveUp, overlap>>
    BY <1>5 DEF Exit, files
  <2> QED BY <2>1, DieKeeps
<1>6. CASE Reboot(p)
  <2>1. /\ rebootDue[p] /\ rebootDue' = [rebootDue EXCEPT ![p] = FALSE]
        /\ phase' = [phase EXCEPT ![p] = IF @ = "restarting" THEN "up" ELSE @]
        /\ UNCHANGED <<spawned, sigterm, gaveUp, overlap>> /\ pidFile' = p
    BY <1>6 DEF Reboot
  <2> QED BY <2>1, RebootKeeps
<1>7. CASE BootFails(p)
  <2>1. /\ Die(p, "crash") /\ phase[p] # "unborn"
        /\ UNCHANGED <<spawned, pidFile, gaveUp, overlap>>
    BY <1>7 DEF BootFails, files
  <2> QED BY <2>1, DieKeeps
<1>8. CASE UncaughtError(p) BY <1>8, UncaughtErrorKeeps
<1>9. CASE RebootFails(p)
  <2>1. /\ rebootDue[p] /\ rebootDue' = [rebootDue EXCEPT ![p] = FALSE]
        /\ phase' = [phase EXCEPT ![p] = IF @ = "restarting" THEN "down" ELSE @]
        /\ UNCHANGED <<spawned, sigterm, gaveUp, overlap>> /\ pidFile' = pidFile
    BY <1>9 DEF RebootFails, files
  <2> QED BY <2>1, RebootKeeps
<1>10. CASE Kill(p)
  <2>1. /\ Die(p, "clean") /\ phase[p] # "unborn"
        /\ UNCHANGED <<spawned, pidFile, gaveUp, overlap>>
    BY <1>10 DEF Kill, files, Alive
  <2> QED BY <2>1, DieKeeps
<1> QED BY <1>1, <1>2, <1>3, <1>4, <1>5, <1>6, <1>7, <1>8, <1>9, <1>10
        DEF DaemonStep, Misfortune

---------------------------------------------------------------------------
(* Signals, supervisors and the watchdog. *)

(* What a signal does to phases and pending signals, whomever it names. *)
LEMMA SignalFacts ==
  ASSUME Shape, NEW k, Signal(k)
  PROVE  /\ PhaseAfterSignal(k) \in [Procs -> Phases]
         /\ \A q \in Procs :
              \/ PhaseAfterSignal(k)[q] = phase[q]
              \/ PhaseAfterSignal(k)[q] = "dead" /\ phase[q] = "booting"
         /\ sigterm' \in [Procs -> BOOLEAN] /\ rebootDue' = rebootDue
         /\ \A q \in Procs : sigterm[q] => sigterm'[q]
         /\ \A q \in Procs : sigterm'[q] =>
              sigterm[q] \/ phase[q] \notin {"unborn", "booting", "dead"}
         /\ \A q \in Procs : q = k /\ phase[q] = "up" => sigterm'[q]
<1>1. phase \in [Procs -> Phases] /\ sigterm \in [Procs -> BOOLEAN] BY DEF Shape
<1>2. rebootDue' = rebootDue BY DEF Signal
<1>3. CASE Defenceless(k)
  <2>1. PhaseAfterSignal(k) = [phase EXCEPT ![k] = "dead"] /\ sigterm' = sigterm
    BY <1>3 DEF PhaseAfterSignal, Signal
  <2>2. k \in Procs => phase[k] = "booting" BY <1>3 DEF Defenceless
  <2> QED BY <1>1, <1>2, <2>1, <2>2 DEF Phases
<1>4. CASE ~Defenceless(k) /\ Alive(k)
  <2>1. PhaseAfterSignal(k) = phase /\ sigterm' = [sigterm EXCEPT ![k] = TRUE]
    BY <1>4 DEF PhaseAfterSignal, Signal
  <2>2. k \in Procs /\ phase[k] \notin {"unborn", "booting", "dead"}
    BY <1>4 DEF Alive, Defenceless, None, Procs
  <2> QED BY <1>1, <1>2, <2>1, <2>2
<1>5. CASE ~Defenceless(k) /\ ~Alive(k)
  <2>1. PhaseAfterSignal(k) = phase /\ sigterm' = sigterm
    BY <1>5 DEF PhaseAfterSignal, Signal
  <2>2. \A q \in Procs : q = k => phase[q] # "up" BY <1>5 DEF Alive
  <2> QED BY <1>1, <1>2, <2>1, <2>2
<1> QED BY <1>3, <1>4, <1>5

(* A signal that spawns nobody has this shape. *)
LEMMA ShapeOfSignal ==
  ASSUME Shape, NEW k, Signal(k), phase' = PhaseAfterSignal(k),
         UNCHANGED <<spawned, gaveUp, overlap>>
  PROVE  Shape' /\ \A q \in Procs : Alive(q)' => Alive(q)
<1>1. \A q \in Procs : phase'[q] = phase[q]
                       \/ (phase'[q] = "dead" /\ phase[q] = "booting")
  BY SignalFacts
<1>2. \A q \in Procs : Alive(q)' => Alive(q) BY <1>1 DEF Alive
<1>3. \A q \in Procs : q > spawned => phase'[q] = "unborn" BY <1>1 DEF Shape
<1>4. ASSUME NEW q \in Procs, sigterm'[q] \/ rebootDue'[q]
      PROVE  phase'[q] \notin {"unborn", "booting", "dead"}
  <2>1. phase[q] \notin {"unborn", "booting", "dead"} BY <1>4, SignalFacts DEF Shape
  <2> QED BY <1>1, <2>1
<1>5. /\ phase' \in [Procs -> Phases] /\ sigterm' \in [Procs -> BOOLEAN]
      /\ rebootDue' = rebootDue
  BY SignalFacts
<1>6. Shape' BY <1>3, <1>4, <1>5 DEF Shape
<1> QED BY <1>2, <1>6

LEMMA UserStopKeeps ==
  ASSUME IInv, UserStop
  PROVE  IInv'
<1>1. /\ Signal(pidFile) /\ phase' = PhaseAfterSignal(pidFile)
      /\ UNCHANGED <<spawned, gaveUp, overlap>>
  BY DEF UserStop
<1>2. Shape' /\ \A q \in Procs : Alive(q)' => Alive(q)
  BY <1>1, ShapeOfSignal DEF IInv
<1>3. ASSUME ~overlap, ~gaveUp', NEW q \in Procs, phase'[q] = "up", ~sigterm'[q]
      PROVE  FALSE
  <2>1. phase[q] = "up" /\ ~sigterm[q] BY <1>1, <1>3, SignalFacts DEF IInv
  <2>2. pidFile = q BY <1>1, <1>3, <2>1 DEF IInv, LoneDaemonIsFound
  <2> QED BY <1>1, <1>3, <2>1, <2>2, SignalFacts DEF IInv
<1> QED BY <1>1, <1>2, <1>3, QuietStep

(* launchDaemon, also after a signal. *)
LEMMA LaunchKeeps ==
  ASSUME IInv, NEW v, NEW was \in [Procs -> Phases], LaunchDaemon(v, was),
         \A q \in Procs : was[q] = phase[q]
                          \/ (was[q] = "dead" /\ phase[q] = "booting"),
         rebootDue' = rebootDue, gaveUp' = gaveUp,
         sigterm' \in [Procs -> BOOLEAN],
         \A q \in Procs : sigterm[q] => sigterm'[q],
         \A q \in Procs : sigterm'[q] =>
           sigterm[q] \/ phase[q] \notin {"unborn", "booting", "dead"}
  PROVE  IInv'
<1>1. CASE Alive(pidFile)
  <2>1. phase' = was /\ UNCHANGED <<spawned, pidFile, overlap>>
    BY <1>1 DEF LaunchDaemon
  <2>2. \A q \in Procs : Alive(q)' => Alive(q) BY <2>1 DEF Alive
  <2>3. \A q \in Procs : q > spawned => phase'[q] = "unborn" BY <2>1 DEF IInv, Shape
  <2>4. ASSUME NEW q \in Procs, sigterm'[q] \/ rebootDue'[q]
        PROVE  phase'[q] \notin {"unborn", "booting", "dead"}
    <3>1. phase[q] \notin {"unborn", "booting", "dead"} BY <2>4 DEF IInv, Shape
    <3> QED BY <2>1, <3>1
  <2>5. Shape' BY <2>1, <2>3, <2>4 DEF IInv, Shape
  <2>6. ~overlap /\ ~gaveUp' =>
          \A q \in Procs : phase'[q] = "up" /\ ~sigterm'[q] => pidFile' = q
    BY <2>1 DEF IInv, LoneDaemonIsFound
  <2> QED BY <2>1, <2>2, <2>5, <2>6, QuietStep
<1>2. CASE ~Alive(pidFile)
  <2>1. PICK p \in Procs : Spawn(p, was) BY <1>2 DEF LaunchDaemon
  <2>2. Shape' BY <2>1, ShapeOfSpawn DEF IInv
  <2> QED BY <2>1, <2>2, SpawnKeeps
<1> QED BY <1>1, <1>2

LEMMA RestartDaemonKeeps ==
  ASSUME IInv, RestartDaemon
  PROVE  IInv'
<1>1. /\ Signal(view.pid) /\ gaveUp' = gaveUp
      /\ LaunchDaemon([view EXCEPT !.running = FALSE], PhaseAfterSignal(view.pid))
  BY DEF RestartDaemon
<1>2. Shape BY DEF IInv
<1> QED BY <1>1, <1>2, SignalFacts, LaunchKeeps

LEMMA RelaunchKeeps ==
  ASSUME IInv, Relaunch
  PROVE  IInv'
<1>1. /\ LaunchDaemon([view EXCEPT !.timers = @ - 1], phase)
      /\ UNCHANGED <<sigterm, rebootDue, gaveUp>>
  BY DEF Relaunch
<1> QED BY <1>1, LaunchKeeps DEF IInv, Shape

(* The commands and the supervisor of start. *)
LEMMA StartKeeps ==
  ASSUME IInv, NEW s \in Sups, UserStart(s) \/ SupRelaunches(s)
  PROVE  IInv'
<1>1. PICK p \in Procs : Spawn(p, phase) BY DEF UserStart, SupRelaunches
<1>2. UNCHANGED <<sigterm, rebootDue, gaveUp>> BY DEF UserStart, SupRelaunches
<1>3. Shape' BY <1>1, <1>2, ShapeOfSpawn DEF IInv, Shape
<1> QED BY <1>1, <1>3, SpawnKeeps DEF IInv, Shape

LEMMA SupHearsKeeps ==
  ASSUME IInv, NEW s \in Sups, SupHears(s)
  PROVE  IInv'
<1>1. UNCHANGED <<spawned, phase, sigterm, rebootDue, overlap>>
  BY DEF SupHears, daemon
<1>2. UNCHANGED <<pidFile, gaveUp>> \/ gaveUp' = TRUE BY DEF SupHears
<1> QED BY <1>1, <1>2, GivesUp

LEMMA ChildExitsKeeps ==
  ASSUME IInv, NEW p \in Procs, ChildExits(p)
  PROVE  IInv'
<1>1. UNCHANGED <<spawned, phase, sigterm, rebootDue, overlap>>
  BY DEF ChildExits, daemon
<1>2. UNCHANGED <<pidFile, gaveUp>> \/ gaveUp' = TRUE BY DEF ChildExits
<1> QED BY <1>1, <1>2, GivesUp

---------------------------------------------------------------------------
LEMMA InitHolds == Init => IInv
<1> SUFFICES ASSUME Init PROVE IInv OBVIOUS
<1>1. \A p \in Procs : phase[p] = "unborn" /\ ~sigterm[p] /\ ~rebootDue[p] BY DEF Init
<1>2. Shape BY <1>1 DEF Init, Shape, Phases
<1>3. OneAlive BY <1>1 DEF OneAlive, Alive
<1>4. LoneDaemonIsFound BY <1>1 DEF LoneDaemonIsFound
<1> QED BY <1>2, <1>3, <1>4 DEF IInv

LEMMA NextKeeps == IInv /\ [Next]_vars => IInv'
<1> SUFFICES ASSUME IInv, [Next]_vars PROVE IInv' OBVIOUS
<1>1. CASE \E p \in Procs : DaemonStep(p) \/ Misfortune(p) BY <1>1, DaemonKeeps
<1>2. CASE \E p \in Procs : ChildExits(p) BY <1>2, ChildExitsKeeps
<1>3. CASE \E s \in Sups : UserStart(s) \/ SupRelaunches(s) BY <1>3, StartKeeps
<1>4. CASE \E s \in Sups : SupHears(s) BY <1>4, SupHearsKeeps
<1>5. CASE \E s \in Sups : SupLeaves(s) BY <1>5, Aside DEF SupLeaves, daemon, files
<1>6. CASE UserStop BY <1>6, UserStopKeeps
<1>7. CASE RestartDaemon BY <1>7, RestartDaemonKeeps
<1>8. CASE Relaunch BY <1>8, RelaunchKeeps
<1>9. CASE CheckHealth BY <1>9, Aside DEF CheckHealth, daemon, files
<1>10. CASE PingMeets BY <1>10, Aside DEF PingMeets, daemon, files
<1>11. CASE PingEnds BY <1>11, Aside DEF PingEnds, daemon, files
<1>12. CASE UNCHANGED vars BY <1>12, Aside DEF vars, daemon, files
<1> QED BY <1>1, <1>2, <1>3, <1>4, <1>5, <1>6, <1>7, <1>8, <1>9, <1>10, <1>11,
           <1>12 DEF Next, SupStep

(* As long as no daemon was spawned next to a living one and no supervisor *)
(* has given up, the PID file names the daemon that is up and has not been *)
(* signalled (start, stop and restart of brain.ts, the commands start and  *)
(* stop, WatchdogService).                                                 *)
THEOREM DaemonsAreFound == Spec => []LoneDaemonIsFound
<1>1. IInv => LoneDaemonIsFound BY DEF IInv
<1> QED BY <1>1, InitHolds, NextKeeps, PTL DEF Spec
---------------------------------------------------------------------------
(* Types, and the causes of the processes.                                 *)
(*                                                                         *)
(* A crash has at most one listener: the watchdog, for its own children,   *)
(* or one supervisor.  What a listener has yet to hear is not counted as a *)
(* cause: hearing it pays for the timer it sets.                           *)

Views(n) == [pid : 0 .. n, running : BOOLEAN, healthy : BOOLEAN, crashes : Nat,
             timers : Nat]

Entries(n) == [child : 0 .. n, crashes : Nat, timer : BOOLEAN, run : BOOLEAN]

Timers == {s \in Sups : sup[s].timer}

Runs == {s \in Sups : sup[s].run}

(* The crashes nobody is going to hear of, any more or at all. *)
Heard == {p \in Procs : /\ code[p] = "crash" /\ p \notin kids
                        /\ \A s \in Sups : sup[s].child # p}

Crashes == {p \in Procs : code[p] = "crash"}

OneListener ==
  /\ \A s, r \in Sups : sup[s].child # None /\ sup[s].child = sup[r].child => s = r
  /\ \A s \in Sups : sup[s].child \notin kids

(* Only the dead have an exit code, and only who was born is heard. *)
Codes == \A p \in Procs : phase[p] # "dead" => code[p] = "none"

Quiet == \A p \in Procs : p > spawned => ears[p] = "closed"

Ledger ==
  spawned + view.timers + Cardinality(Timers)
    <= Cardinality(Runs) + asks + Cardinality(Heard)

SInv == TypeOK /\ Codes /\ Quiet /\ OneListener /\ Ledger

(* What the proofs use of the types. *)
DaemonTypes ==
  /\ phase \in [Procs -> Phases]
  /\ code \in [Procs -> {"none", "clean", "crash"}]
  /\ sigterm \in [Procs -> BOOLEAN] /\ rebootDue \in [Procs -> BOOLEAN]
  /\ tries \in [Procs -> 0 .. RestartLimit]
  /\ ears \in [Procs -> {"closed", "probing", "stale", "deaf", "open"}]

OtherTypes ==
  /\ spawned \in 0 .. MaxProcs
  /\ pidFile \in 0 .. spawned /\ pipe \in 0 .. spawned /\ asked \in 0 .. spawned
  /\ view \in Views(spawned)
  /\ kids \subseteq 1 .. spawned
  /\ ping \in {"idle", "asking", "answered", "failed"}
  /\ sup \in [Sups -> Entries(spawned)]
  /\ faults \in Nat /\ asks \in Nat /\ stops \in Nat
  /\ gaveUp \in BOOLEAN /\ overlap \in BOOLEAN

LEMMA TypeIs == TypeOK <=> DaemonTypes /\ OtherTypes
<1>1. {pidFile, pipe, asked} \subseteq 0 .. spawned
      <=> pidFile \in 0 .. spawned /\ pipe \in 0 .. spawned /\ asked \in 0 .. spawned
  OBVIOUS
<1>2. {faults, asks, stops} \subseteq Nat <=> faults \in Nat /\ asks \in Nat /\ stops \in Nat
  OBVIOUS
<1> QED BY <1>1, <1>2, Zenon DEF TypeOK, DaemonTypes, OtherTypes, Views, Entries

Counts ==
  /\ IsFiniteSet(Timers) /\ Cardinality(Timers) \in Nat
  /\ IsFiniteSet(Runs) /\ Cardinality(Runs) \in Nat
  /\ IsFiniteSet(Heard) /\ Cardinality(Heard) \in Nat
  /\ IsFiniteSet(Crashes) /\ Cardinality(Crashes) \in Nat
  /\ spawned \in Nat /\ view.timers \in Nat /\ asks \in Nat

LEMMA CrashCounts == TypeOK => Counts
<1> SUFFICES ASSUME TypeOK PROVE Counts OBVIOUS
<1>0. MaxProcs \in Int /\ 1 \in Int BY BoundAssumption
<1>1. IsFiniteSet(Procs) /\ IsFiniteSet(Sups)
  BY <1>0, FS_Interval, BoundAssumption DEF Procs
<1>2. /\ Timers \subseteq Sups /\ Runs \subseteq Sups
      /\ Heard \subseteq Procs /\ Crashes \subseteq Procs
  BY DEF Timers, Runs, Heard, Crashes
<1>3. /\ IsFiniteSet(Timers) /\ IsFiniteSet(Runs)
      /\ IsFiniteSet(Heard) /\ IsFiniteSet(Crashes)
  BY <1>1, <1>2, FS_Subset
<1>4. spawned \in Nat /\ view.timers \in Nat /\ asks \in Nat
  BY TypeIs, BoundAssumption DEF OtherTypes, Views
<1> QED BY <1>3, <1>4, FS_CardinalityType DEF Counts

LEMMA CrashCountsNext == TypeOK' => Counts'
BY CrashCounts, PTL

LEMMA TypeIsNext == TypeOK' <=> DaemonTypes' /\ OtherTypes'
BY TypeIs, PTL

(* Who is there was spawned. *)
LEMMA Born ==
  ASSUME Shape, SInv, NEW p \in Procs,
         Alive(p) \/ rebootDue[p] \/ ears[p] # "closed" \/ code[p] # "none"
  PROVE  p \in 0 .. spawned /\ p \in 1 .. spawned
<1>1. spawned \in Nat /\ p \in Nat /\ p > 0
  BY BoundAssumption, CrashCounts DEF Procs, SInv, Counts
<1>2. p > spawned => phase[p] = "unborn" /\ ears[p] = "closed" BY DEF Shape, SInv, Quiet
<1>3. ~(p > spawned)
  <2>1. phase[p] = "unborn" => ~Alive(p) /\ ~rebootDue[p] /\ code[p] = "none"
    BY DEF Shape, SInv, Codes, Alive
  <2> QED BY <1>2, <2>1
<1> QED BY <1>1, <1>3

---------------------------------------------------------------------------
(* How the crashes that were heard and the timers may change. *)

LEMMA HeardGrows ==
  ASSUME TypeOK, TypeOK', Heard \subseteq Heard'
  PROVE  Cardinality(Heard) <= Cardinality(Heard')
BY CrashCounts, CrashCountsNext, FS_Subset DEF Counts

LEMMA HeardOneMore ==
  ASSUME TypeOK, TypeOK', NEW p, p \notin Heard, Heard \cup {p} \subseteq Heard'
  PROVE  Cardinality(Heard) + 1 <= Cardinality(Heard')
<1>1. IsFiniteSet(Heard) /\ IsFiniteSet(Heard')
      /\ Cardinality(Heard) \in Nat /\ Cardinality(Heard') \in Nat
  BY CrashCounts, CrashCountsNext DEF Counts
<1>2. IsFiniteSet(Heard \cup {p}) /\ Cardinality(Heard \cup {p}) = Cardinality(Heard) + 1
  BY <1>1, FS_AddElement
<1>3. Cardinality(Heard \cup {p}) <= Cardinality(Heard') BY <1>1, <1>2, FS_Subset
<1> QED BY <1>2, <1>3

(* A step that spawns nobody and sets no timer. *)
LEMMA NothingSpent ==
  ASSUME SInv, TypeOK', UNCHANGED <<spawned, kids, asks>>,
         view'.timers = view.timers,
         \/ sup' = sup
         \/ \E s \in Sups : sup' = [sup EXCEPT ![s].child = None],
         \A p \in Procs : code[p] = "crash" => code'[p] = "crash"
  PROVE  OneListener' /\ Ledger'
<1>0. sup \in [Sups -> Entries(spawned)] /\ None = 0
  BY TypeIs DEF SInv, OtherTypes, None
<1>1. \A s \in Sups : /\ sup'[s].child \in {sup[s].child, None}
                      /\ sup'[s].timer = sup[s].timer /\ sup'[s].run = sup[s].run
  BY <1>0 DEF Entries
<1>2. None \notin kids BY TypeIs DEF SInv, OtherTypes, None
<1>3. OneListener' BY <1>1, <1>2 DEF SInv, OneListener
<1>4. Heard \subseteq Heard'
  <2>1. \A p \in Procs : p # None BY DEF Procs, None
  <2> QED BY <1>1, <2>1 DEF Heard
<1>5. Timers' = Timers /\ Runs' = Runs BY <1>1 DEF Timers, Runs
<1>6. Cardinality(Heard) <= Cardinality(Heard') BY <1>4, HeardGrows DEF SInv
<1>7. Ledger'
  <2>1. /\ Cardinality(Timers) \in Nat /\ Cardinality(Runs) \in Nat
        /\ Cardinality(Heard) \in Nat /\ Cardinality(Heard') \in Nat
        /\ spawned \in Nat /\ view.timers \in Nat /\ asks \in Nat
    BY CrashCounts, CrashCountsNext DEF SInv, Counts
  <2> QED BY <1>5, <1>6, <2>1 DEF SInv, Ledger
<1> QED BY <1>3, <1>7

---------------------------------------------------------------------------
(* The daemon. *)

LEMMA DieTypes ==
  ASSUME DaemonTypes, NEW p \in Procs, NEW c \in {"clean", "crash"}, Die(p, c)
  PROVE  /\ DaemonTypes'
         /\ \A q \in Procs : q # p => phase'[q] = phase[q] /\ code'[q] = code[q]
         /\ phase'[p] = "dead"
         /\ \A q \in Procs : ears[q] = "closed" => ears'[q] = "closed"
BY DEF DaemonTypes, Die, Phases

(* The end of a process that lived: nobody else's exit is touched. *)
LEMMA DieCauses ==
  ASSUME Shape, SInv, NEW p \in Procs, NEW c \in {"clean", "crash"}, Die(p, c), Alive(p),
         UNCHANGED <<spawned, files, watch, sup, asks, stops, asked, gaveUp, overlap>>,
         faults' \in Nat
  PROVE  SInv'
<1>1. DaemonTypes /\ OtherTypes BY TypeIs DEF SInv
<1>2. /\ DaemonTypes' /\ phase'[p] = "dead"
      /\ \A q \in Procs : q # p => phase'[q] = phase[q] /\ code'[q] = code[q]
      /\ \A q \in Procs : ears[q] = "closed" => ears'[q] = "closed"
  BY <1>1, DieTypes
<1>3. OtherTypes' BY <1>1 DEF OtherTypes, files, watch
<1>4. TypeOK' BY <1>2, <1>3, TypeIsNext
<1>5. code[p] = "none" BY DEF Alive, SInv, Codes
<1>6. \A q \in Procs : code[q] = "crash" => code'[q] = "crash" BY <1>2, <1>5
<1>7. OneListener' /\ Ledger' BY <1>4, <1>6, NothingSpent DEF watch
<1>8. Codes' BY <1>2 DEF SInv, Codes
<1>9. Quiet' BY <1>2 DEF SInv, Quiet
<1> QED BY <1>4, <1>7, <1>8, <1>9 DEF SInv

(* A process that goes on living. *)
LEMMA LivesOn ==
  ASSUME Shape, SInv, NEW p \in Procs, p \in 1 .. spawned, phase[p] # "dead",
         NEW to \in Phases \ {"dead"}, phase' = [phase EXCEPT ![p] = to],
         NEW e \in {"closed", "probing", "stale", "deaf", "open"},
         ears' = [ears EXCEPT ![p] = e],
         sigterm' \in [Procs -> BOOLEAN], rebootDue' \in [Procs -> BOOLEAN],
         tries' \in [Procs -> 0 .. RestartLimit], code' = code,
         pipe' \in {pipe, None, p}, pidFile' \in {pidFile, None, p},
         UNCHANGED <<spawned, watch, sup, asks, stops, asked, gaveUp, overlap>>,
         faults' \in Nat
  PROVE  SInv'
<1>1. DaemonTypes /\ OtherTypes BY TypeIs DEF SInv
<1>2. /\ phase' \in [Procs -> Phases]
      /\ ears' \in [Procs -> {"closed", "probing", "stale", "deaf", "open"}]
  BY <1>1 DEF DaemonTypes
<1>3. DaemonTypes' BY <1>1, <1>2 DEF DaemonTypes
<1>4. OtherTypes'
  <2>1. p \in 0 .. spawned /\ None \in 0 .. spawned
    BY <1>1, BoundAssumption DEF OtherTypes, None
  <2> QED BY <1>1, <2>1 DEF OtherTypes, watch
<1>5. TypeOK' BY <1>3, <1>4, TypeIsNext
<1>6. OneListener' /\ Ledger' BY <1>5, NothingSpent DEF watch
<1>7. Codes'
  <2>1. \A q \in Procs : phase'[q] = IF q = p THEN to ELSE phase[q]
    BY <1>1 DEF DaemonTypes
  <2>2. \A q \in Procs : phase'[q] # "dead" => phase[q] # "dead" BY <2>1
  <2> QED BY <2>2 DEF SInv, Codes
<1>8. Quiet'
  <2>1. \A q \in Procs : q # p => ears'[q] = ears[q] BY <1>1 DEF DaemonTypes
  <2>2. ~(p > spawned) BY <1>1, BoundAssumption DEF OtherTypes
  <2> QED BY <2>1, <2>2 DEF SInv, Quiet
<1> QED BY <1>5, <1>6, <1>7, <1>8 DEF SInv

(* What listening and closing do, as LivesOn wants it. *)
LEMMA EarsOf ==
  ASSUME SInv, NEW p \in Procs, Listen(p) \/ Hush(p)
  PROVE  /\ \E e \in {"closed", "probing", "stale", "deaf", "open"} :
              ears' = [ears EXCEPT ![p] = e]
         /\ pipe' \in {pipe, None, p}
BY DEF Listen, Hush

LEMMA Unmoved ==
  ASSUME SInv, NEW p \in Procs
  PROVE  /\ phase = [phase EXCEPT ![p] = phase[p]] /\ phase[p] \in Phases
         /\ ears = [ears EXCEPT ![p] = ears[p]]
         /\ ears[p] \in {"closed", "probing", "stale", "deaf", "open"}
BY TypeIs DEF SInv, DaemonTypes

LEMMA DaemonTypesHold ==
  ASSUME SInv
  PROVE  /\ phase \in [Procs -> Phases] /\ sigterm \in [Procs -> BOOLEAN]
         /\ rebootDue \in [Procs -> BOOLEAN] /\ tries \in [Procs -> 0 .. RestartLimit]
         /\ faults \in Nat
BY TypeIs DEF SInv, DaemonTypes, OtherTypes

LEMMA DaemonCauses ==
  ASSUME Shape, SInv, NEW p \in Procs, DaemonStep(p) \/ Misfortune(p)
  PROVE  SInv'
<1>t. /\ phase \in [Procs -> Phases] /\ sigterm \in [Procs -> BOOLEAN]
      /\ rebootDue \in [Procs -> BOOLEAN] /\ tries \in [Procs -> 0 .. RestartLimit]
      /\ faults \in Nat /\ faults + 1 \in Nat
  BY DaemonTypesHold
<1>u. /\ phase = [phase EXCEPT ![p] = phase[p]] /\ phase[p] \in Phases
      /\ ears = [ears EXCEPT ![p] = ears[p]]
      /\ ears[p] \in {"closed", "probing", "stale", "deaf", "open"}
  BY Unmoved
<1>0. /\ [sigterm EXCEPT ![p] = FALSE] \in [Procs -> BOOLEAN]
      /\ \A b \in BOOLEAN : [rebootDue EXCEPT ![p] = b] \in [Procs -> BOOLEAN]
  BY <1>t
<1>1. CASE Boot(p)
  <2>1. /\ phase[p] # "dead" /\ Alive(p) /\ phase' = [phase EXCEPT ![p] = "up"]
        /\ Listen(p) /\ pidFile' = p
        /\ UNCHANGED <<spawned, code, sigterm, rebootDue, tries, watch, sup, counts,
                       asked, gaveUp, overlap>>
    BY <1>1 DEF Boot, Alive
  <2>2. p \in 1 .. spawned BY <2>1, Born
  <2> QED BY <1>t, <2>1, <2>2, EarsOf, LivesOn DEF Phases, counts
<1>2. CASE Probe(p)
  <2>1. /\ ears[p] = "probing"
        /\ ears' = [ears EXCEPT ![p] = IF Answering THEN "deaf" ELSE "stale"]
        /\ UNCHANGED <<spawned, phase, code, sigterm, rebootDue, tries, files, watch,
                       sup, counts, asked, gaveUp, overlap>>
    BY <1>2 DEF Probe
  <2>2. p \in 1 .. spawned BY <2>1, Born
  <2>3. TypeOK'
    <3>1. DaemonTypes'
      BY <1>t, <2>1, TypeIs DEF SInv, DaemonTypes
    <3>2. OtherTypes' BY <2>1, TypeIs DEF SInv, OtherTypes, files, watch, counts
    <3> QED BY <3>1, <3>2, TypeIsNext
  <2>4. OneListener' /\ Ledger' BY <2>1, <2>3, NothingSpent DEF watch, counts
  <2>5. Codes' BY <2>1 DEF SInv, Codes
  <2>6. Quiet'
    <3>1. \A q \in Procs : q # p => ears'[q] = ears[q]
      BY <2>1, TypeIs DEF SInv, DaemonTypes
    <3>2. ~(p > spawned) BY <2>2, CrashCounts DEF SInv, Counts
    <3> QED BY <2>1, <3>1, <3>2 DEF SInv, Quiet
  <2> QED BY <2>3, <2>4, <2>5, <2>6 DEF SInv
<1>3. CASE Reclaim(p)
  <2>1. /\ ears[p] = "stale" /\ ears' = [ears EXCEPT ![p] = "open"] /\ pipe' = p
        /\ UNCHANGED <<spawned, phase, code, sigterm, rebootDue, tries, pidFile,
                       watch, sup, counts, asked, gaveUp, overlap>>
    BY <1>3 DEF Reclaim
  <2>2. p \in 1 .. spawned BY <2>1, Born
  <2>3. TypeOK'
    <3>1. DaemonTypes' BY <1>t, <2>1, TypeIs DEF SInv, DaemonTypes
    <3>2. p \in 0 .. spawned BY <2>2
    <3>3. OtherTypes' BY <2>1, <3>2, TypeIs DEF SInv, OtherTypes, watch, counts
    <3> QED BY <3>1, <3>3, TypeIsNext
  <2>4. OneListener' /\ Ledger' BY <2>1, <2>3, NothingSpent DEF watch, counts
  <2>5. Codes' BY <2>1 DEF SInv, Codes
  <2>6. Quiet'
    <3>1. \A q \in Procs : q # p => ears'[q] = ears[q]
      BY <2>1, TypeIs DEF SInv, DaemonTypes
    <3>2. ~(p > spawned) BY <2>2, CrashCounts DEF SInv, Counts
    <3> QED BY <2>1, <3>1, <3>2 DEF SInv, Quiet
  <2> QED BY <2>3, <2>4, <2>5, <2>6 DEF SInv
<1>4. CASE HandleSigterm(p)
  <2>1. /\ sigterm[p] /\ sigterm' = [sigterm EXCEPT ![p] = FALSE]
        /\ phase' = [phase EXCEPT ![p] = "stopping"] /\ Hush(p) /\ pidFile' = None
        /\ UNCHANGED <<spawned, code, rebootDue, tries, watch, sup, counts, asked,
                       gaveUp, overlap>>
    BY <1>4 DEF HandleSigterm
  <2>2. Alive(p) /\ phase[p] # "dead" BY <2>1 DEF Shape, Alive
  <2>3. p \in 1 .. spawned BY <2>2, Born
  <2> QED BY <1>t, <1>0, <2>1, <2>2, <2>3, EarsOf, LivesOn DEF Phases, counts
<1>5. CASE Exit(p)
  <2>1. /\ Die(p, "clean") /\ Alive(p)
        /\ UNCHANGED <<spawned, files, watch, sup, counts, asked, gaveUp, overlap>>
    BY <1>5 DEF Exit, Alive
  <2> QED BY <1>t, <2>1, DieCauses DEF counts
<1>6. CASE Reboot(p)
  <2>1. /\ rebootDue[p] /\ rebootDue' = [rebootDue EXCEPT ![p] = FALSE]
        /\ Listen(p) /\ pidFile' = p
        /\ phase' = [phase EXCEPT ![p] = IF @ = "restarting" THEN "up" ELSE @]
        /\ UNCHANGED <<spawned, code, sigterm, tries, watch, sup, counts, asked,
                       gaveUp, overlap>>
    BY <1>6 DEF Reboot
  <2>2. phase[p] # "dead" /\ p \in 1 .. spawned BY <2>1, Born DEF Shape
  <2>3. PICK to \in Phases \ {"dead"} : phase' = [phase EXCEPT ![p] = to]
    BY <1>u, <2>1, <2>2 DEF Phases
  <2> QED BY <1>t, <1>0, <2>1, <2>2, <2>3, EarsOf, LivesOn DEF counts
<1>7. CASE BootFails(p)
  <2>1. /\ Die(p, "crash") /\ Alive(p) /\ faults' = faults + 1
        /\ UNCHANGED <<spawned, files, watch, sup, asks, stops, asked, gaveUp, overlap>>
    BY <1>7 DEF BootFails, Alive
  <2> QED BY <1>t, <2>1, DieCauses
<1>8. CASE UncaughtError(p)
  <2>1. /\ Alive(p) /\ phase[p] # "dead" /\ faults' = faults + 1
        /\ UNCHANGED <<spawned, pidFile, watch, sup, asks, stops, asked, gaveUp, overlap>>
    BY <1>8 DEF UncaughtError, Alive
  <2>2. PICK restartCount \in {1, tries[p] + 1} :
          IF restartCount > RestartLimit
          THEN /\ Die(p, "crash")
               /\ UNCHANGED pipe
          ELSE /\ tries' = [tries EXCEPT ![p] = restartCount]
               /\ Hush(p)
               /\ phase' = [phase EXCEPT ![p] = IF @ = "stopping" THEN @ ELSE "restarting"]
               /\ rebootDue' = [rebootDue EXCEPT ![p] = TRUE]
               /\ UNCHANGED <<code, sigterm>>
    BY <1>8 DEF UncaughtError
  <2>3. CASE restartCount > RestartLimit
    BY <1>t, <2>1, <2>2, <2>3, DieCauses DEF files
  <2>4. CASE ~(restartCount > RestartLimit)
    <3>1. /\ tries' = [tries EXCEPT ![p] = restartCount] /\ Hush(p)
          /\ phase' = [phase EXCEPT ![p] = IF @ = "stopping" THEN @ ELSE "restarting"]
          /\ rebootDue' = [rebootDue EXCEPT ![p] = TRUE]
          /\ UNCHANGED <<code, sigterm>>
      BY <2>2, <2>4
    <3>0. PICK to \in {"stopping", "restarting"} : phase' = [phase EXCEPT ![p] = to]
      BY <1>t, <3>1
    <3>2. tries[p] \in 0 .. RestartLimit /\ RestartLimit \in Nat BY <1>t, BoundAssumption
    <3>3. restartCount \in 0 .. RestartLimit BY <2>4, <3>2
    <3>4. tries' \in [Procs -> 0 .. RestartLimit] BY <1>t, <3>1, <3>3
    <3>5. p \in 1 .. spawned BY <2>1, Born
    <3> QED BY <1>t, <1>0, <2>1, <3>0, <3>1, <3>4, <3>5, EarsOf, LivesOn DEF Phases
  <2> QED BY <2>3, <2>4
<1>9. CASE RebootFails(p)
  <2>1. /\ rebootDue[p] /\ rebootDue' = [rebootDue EXCEPT ![p] = FALSE]
        /\ phase' = [phase EXCEPT ![p] = IF @ = "restarting" THEN "down" ELSE @]
        /\ faults' = faults + 1
        /\ UNCHANGED <<spawned, code, sigterm, tries, ears, files, watch, sup, asks,
                       stops, asked, gaveUp, overlap>>
    BY <1>9 DEF RebootFails
  <2>2. phase[p] # "dead" /\ p \in 1 .. spawned BY <2>1, Born DEF Shape
  <2>3. PICK to \in Phases \ {"dead"} : phase' = [phase EXCEPT ![p] = to]
    BY <1>u, <2>1, <2>2 DEF Phases
  <2>4. PICK e \in {"closed", "probing", "stale", "deaf", "open"} :
          ears' = [ears EXCEPT ![p] = e]
    BY <1>u, <2>1
  <2> QED BY <1>t, <1>0, <2>1, <2>2, <2>3, <2>4, LivesOn DEF files
<1>10. CASE Kill(p)
  <2>1. /\ Die(p, "clean") /\ Alive(p) /\ faults' = faults + 1
        /\ UNCHANGED <<spawned, files, watch, sup, asks, stops, asked, gaveUp, overlap>>
    BY <1>10 DEF Kill
  <2> QED BY <1>t, <2>1, DieCauses
<1> QED BY <1>1, <1>2, <1>3, <1>4, <1>5, <1>6, <1>7, <1>8, <1>9, <1>10
        DEF DaemonStep, Misfortune
---------------------------------------------------------------------------
(* Signals. *)

(* What a signal leaves of the daemons, whomever it names. *)
LEMMA SignalTypes ==
  ASSUME Shape, SInv, NEW k, Signal(k)
  PROVE  /\ PhaseAfterSignal(k) \in [Procs -> Phases]
         /\ code' \in [Procs -> {"none", "clean", "crash"}]
         /\ sigterm' \in [Procs -> BOOLEAN] /\ UNCHANGED <<rebootDue, tries, ears>>
         /\ \A q \in Procs : code[q] = "crash" => code'[q] = "crash"
         /\ \A q \in Procs : PhaseAfterSignal(k)[q] # "dead" => code'[q] = "none"
         /\ \A q \in Procs :
              PhaseAfterSignal(k)[q] = phase[q] \/ phase[q] = "booting"
<1>1. /\ code \in [Procs -> {"none", "clean", "crash"}] /\ phase \in [Procs -> Phases]
      /\ \A q \in Procs : phase[q] # "dead" => code[q] = "none"
  BY TypeIs DEF SInv, DaemonTypes, Codes
<1>2. /\ PhaseAfterSignal(k) \in [Procs -> Phases] /\ sigterm' \in [Procs -> BOOLEAN]
      /\ UNCHANGED <<rebootDue, tries, ears>>
  BY SignalFacts DEF Signal
<1>3. CASE Defenceless(k)
  <2>1. /\ PhaseAfterSignal(k) = [phase EXCEPT ![k] = "dead"]
        /\ code' = [code EXCEPT ![k] = "clean"]
        /\ k \in Procs => phase[k] = "booting" /\ code[k] = "none"
    BY <1>1, <1>3 DEF PhaseAfterSignal, Signal, Defenceless
  <2> QED BY <1>1, <1>2, <2>1
<1>4. CASE ~Defenceless(k)
  <2>1. PhaseAfterSignal(k) = phase /\ code' = code
    BY <1>4 DEF PhaseAfterSignal, Signal
  <2> QED BY <1>1, <1>2, <2>1
<1> QED BY <1>3, <1>4

LEMMA UserStopCauses ==
  ASSUME Shape, SInv, UserStop
  PROVE  SInv'
<1>1. /\ Signal(pidFile) /\ phase' = PhaseAfterSignal(pidFile) /\ pidFile' = None
      /\ stops' = stops + 1
      /\ UNCHANGED <<spawned, pipe, watch, sup, faults, asks, asked, gaveUp, overlap>>
  BY DEF UserStop
<1>2. DaemonTypes /\ OtherTypes BY TypeIs DEF SInv
<1>3. DaemonTypes' BY <1>1, <1>2, SignalTypes DEF DaemonTypes
<1>4. OtherTypes'
  <2>1. None \in 0 .. spawned BY <1>2, BoundAssumption DEF OtherTypes, None
  <2> QED BY <1>1, <1>2, <2>1 DEF OtherTypes, watch
<1>5. TypeOK' BY <1>3, <1>4, TypeIsNext
<1>6. OneListener' /\ Ledger' BY <1>1, <1>5, SignalTypes, NothingSpent DEF watch
<1>7. Codes' BY <1>1, SignalTypes DEF Codes
<1>8. Quiet' BY <1>1, SignalTypes DEF SInv, Quiet
<1> QED BY <1>5, <1>6, <1>7, <1>8 DEF SInv

---------------------------------------------------------------------------
(* Spawning. *)

(* A new process, and what was known of the number it gets. *)
LEMMA SpawnTypes ==
  ASSUME Shape, SInv, NEW p \in Procs, NEW was \in [Procs -> Phases], Spawn(p, was)
  PROVE  /\ p = spawned + 1 /\ spawned' = p /\ spawned' \in 0 .. MaxProcs
         /\ 0 .. spawned \subseteq 0 .. spawned' /\ p \in 0 .. spawned' /\ p \in 1 .. spawned'
         /\ 1 .. spawned \subseteq 1 .. spawned'
         /\ p \notin 0 .. spawned /\ p # None /\ None \in 0 .. spawned
         /\ code[p] = "none" /\ ears[p] = "closed"
         /\ p \notin kids /\ \A s \in Sups : sup[s].child # p
         /\ phase' \in [Procs -> Phases]
         /\ \A q \in Procs : phase'[q] = IF q = p THEN "booting" ELSE was[q]
         /\ overlap' \in BOOLEAN
<1>1. /\ p = spawned + 1 /\ spawned' = p /\ phase' = [was EXCEPT ![p] = "booting"]
      /\ overlap' = (overlap \/ \E q \in Procs : was[q] \notin {"unborn", "dead"})
  BY DEF Spawn
<1>2. /\ spawned \in 0 .. MaxProcs /\ MaxProcs \in Nat /\ overlap \in BOOLEAN
      /\ kids \subseteq 1 .. spawned /\ sup \in [Sups -> Entries(spawned)]
  BY TypeIs, BoundAssumption DEF SInv, OtherTypes
<1>3. /\ spawned' \in 0 .. MaxProcs
      /\ 0 .. spawned \subseteq 0 .. spawned' /\ p \in 0 .. spawned' /\ p \in 1 .. spawned'
      /\ 1 .. spawned \subseteq 1 .. spawned'
      /\ p \notin 0 .. spawned /\ p \notin 1 .. spawned /\ p # None /\ None \in 0 .. spawned
      /\ p > spawned
  BY <1>1, <1>2 DEF Procs, None
<1>4. ears[p] = "closed" /\ phase[p] = "unborn" BY <1>3 DEF SInv, Quiet, Shape
<1>5. code[p] = "none" BY <1>4 DEF SInv, Codes
<1>6. \A s \in Sups : sup[s].child \in 0 .. spawned BY <1>2 DEF Entries
<1>7. p \notin kids /\ \A s \in Sups : sup[s].child # p BY <1>2, <1>3, <1>6
<1>8. phase' \in [Procs -> Phases] BY <1>1 DEF Phases
<1>9. \A q \in Procs : phase'[q] = IF q = p THEN "booting" ELSE was[q] BY <1>1
<1>10. overlap' \in BOOLEAN BY <1>1, <1>2
<1> QED BY <1>1, <1>3, <1>4, <1>5, <1>7, <1>8, <1>9, <1>10

(* A process that somebody spawns and nobody else signals. *)
LEMMA SpawnDaemons ==
  ASSUME Shape, SInv, NEW p \in Procs, Spawn(p, phase),
         UNCHANGED <<code, sigterm, rebootDue, tries, ears>>
  PROVE  DaemonTypes' /\ Codes' /\ Quiet'
<1>1. DaemonTypes BY TypeIs DEF SInv
<1>2. phase \in [Procs -> Phases] BY <1>1 DEF DaemonTypes
<1>3. /\ phase' \in [Procs -> Phases] /\ p = spawned + 1 /\ spawned' = p
      /\ code[p] = "none"
      /\ \A q \in Procs : phase'[q] = IF q = p THEN "booting" ELSE phase[q]
  BY <1>2, SpawnTypes
<1>4. DaemonTypes' BY <1>1, <1>3 DEF DaemonTypes
<1>5. Codes' BY <1>3 DEF SInv, Codes
<1>6. Quiet'
  <2>1. spawned \in Nat BY CrashCounts DEF SInv, Counts
  <2>2. \A q \in Procs : q > spawned' => q > spawned BY <1>3, <2>1 DEF Procs
  <2> QED BY <2>2 DEF SInv, Quiet
<1> QED BY <1>4, <1>5, <1>6

(* The entry of a supervisor gets a new child; its other entries stay. *)
LEMMA NewChild ==
  ASSUME Shape, SInv, NEW p \in Procs, Spawn(p, phase), NEW s \in Sups,
         NEW e \in Entries(p), e.child = p, sup' = [sup EXCEPT ![s] = e],
         UNCHANGED <<code, kids>>
  PROVE  /\ sup' \in [Sups -> Entries(spawned')]
         /\ OneListener' /\ Heard \subseteq Heard'
         /\ Timers' = IF e.timer THEN Timers \cup {s} ELSE Timers \ {s}
         /\ Runs' = IF e.run THEN Runs \cup {s} ELSE Runs \ {s}
<1>1. sup \in [Sups -> Entries(spawned)] /\ phase \in [Procs -> Phases]
  BY TypeIs DEF SInv, OtherTypes, DaemonTypes
<1>2. /\ spawned' = p /\ 0 .. spawned \subseteq 0 .. p /\ p \notin kids /\ p # None
      /\ code[p] = "none" /\ \A r \in Sups : sup[r].child # p
  BY <1>1, SpawnTypes
<1>3. \A r \in Sups : sup'[r] = IF r = s THEN e ELSE sup[r] BY <1>1
<1>4. sup' \in [Sups -> Entries(p)] BY <1>1, <1>2 DEF Entries
<1>5. OneListener' BY <1>2, <1>3 DEF SInv, OneListener
<1>6. Heard \subseteq Heard' BY <1>2, <1>3 DEF Heard
<1>7. Timers' = IF e.timer THEN Timers \cup {s} ELSE Timers \ {s}
  BY <1>3 DEF Timers
<1>8. Runs' = IF e.run THEN Runs \cup {s} ELSE Runs \ {s}
  BY <1>3 DEF Runs
<1> QED BY <1>2, <1>4, <1>5, <1>6, <1>7, <1>8

LEMMA UserStartCauses ==
  ASSUME Shape, SInv, NEW s \in Sups, UserStart(s)
  PROVE  SInv'
<1>1. PICK p \in Procs : /\ Spawn(p, phase)
                         /\ sup' = [sup EXCEPT ![s] =
                                      [NoSup EXCEPT !.child = p, !.run = TRUE]]
  BY DEF UserStart
<1>2. /\ ~sup[s].run /\ pidFile' = None
      /\ UNCHANGED <<code, sigterm, rebootDue, tries, ears, pipe, watch, counts,
                     asked, gaveUp>>
  BY DEF UserStart
<1> DEFINE e == [NoSup EXCEPT !.child = p, !.run = TRUE]
<1>3. DaemonTypes /\ OtherTypes BY TypeIs DEF SInv
<1>4. phase \in [Procs -> Phases] BY <1>3 DEF DaemonTypes
<1>5. /\ spawned' = p /\ p = spawned + 1 /\ spawned' \in 0 .. MaxProcs
      /\ 0 .. spawned \subseteq 0 .. spawned' /\ p \in 0 .. spawned'
      /\ 1 .. spawned \subseteq 1 .. spawned' /\ None \in 0 .. spawned
      /\ overlap' \in BOOLEAN
  BY <1>1, <1>4, SpawnTypes
<1>6. e \in Entries(p) /\ e.child = p /\ ~e.timer /\ e.run
  BY <1>5 DEF NoSup, Entries
<1>7. sup' = [sup EXCEPT ![s] = e] BY <1>1
<1> HIDE DEF e
<1>8. /\ sup' \in [Sups -> Entries(spawned')] /\ OneListener' /\ Heard \subseteq Heard'
      /\ Timers' = Timers \ {s} /\ Runs' = Runs \cup {s}
  BY <1>1, <1>2, <1>6, <1>7, NewChild DEF watch
<1>9. DaemonTypes' /\ Codes' /\ Quiet' BY <1>1, <1>2, SpawnDaemons
<1>10. OtherTypes'
  <2>1. view' \in Views(spawned') BY <1>2, <1>3, <1>5 DEF OtherTypes, Views, watch
  <2> QED BY <1>2, <1>3, <1>5, <1>8, <2>1 DEF OtherTypes, watch, counts
<1>11. TypeOK' BY <1>9, <1>10, TypeIsNext
<1>12. Ledger'
  <2>1. Counts /\ Counts' BY <1>11, CrashCounts, CrashCountsNext DEF SInv
  <2>2. s \notin Runs BY <1>2 DEF Runs
  <2>3. Cardinality(Runs') = Cardinality(Runs) + 1
    BY <1>8, <2>1, <2>2, FS_AddElement DEF Counts
  <2>4. Cardinality(Timers') <= Cardinality(Timers)
    BY <1>8, <2>1, FS_Subset DEF Counts
  <2>5. Cardinality(Heard) <= Cardinality(Heard') BY <1>8, <1>11, HeardGrows DEF SInv
  <2>6. view' = view /\ asks' = asks BY <1>2 DEF watch, counts
  <2> QED BY <1>5, <2>1, <2>3, <2>4, <2>5, <2>6 DEF SInv, Ledger, Counts
<1> QED BY <1>8, <1>9, <1>11, <1>12 DEF SInv

LEMMA SupRelaunchesCauses ==
  ASSUME Shape, SInv, NEW s \in Sups, SupRelaunches(s)
  PROVE  SInv'
<1>1. PICK p \in Procs : /\ Spawn(p, phase)
                         /\ sup' = [sup EXCEPT ![s].child = p, ![s].timer = FALSE]
  BY DEF SupRelaunches
<1>2. /\ sup[s].timer
      /\ UNCHANGED <<code, sigterm, rebootDue, tries, ears, files, watch, counts,
                     asked, gaveUp>>
  BY DEF SupRelaunches
<1> DEFINE e == [sup[s] EXCEPT !.child = p, !.timer = FALSE]
<1>3. DaemonTypes /\ OtherTypes BY TypeIs DEF SInv
<1>4. phase \in [Procs -> Phases] /\ sup[s] \in Entries(spawned)
  BY <1>3 DEF DaemonTypes, OtherTypes
<1>5. /\ spawned' = p /\ p = spawned + 1 /\ spawned' \in 0 .. MaxProcs
      /\ 0 .. spawned \subseteq 0 .. spawned' /\ p \in 0 .. spawned'
      /\ 1 .. spawned \subseteq 1 .. spawned' /\ overlap' \in BOOLEAN
  BY <1>1, <1>4, SpawnTypes
<1>6. e \in Entries(p) /\ e.child = p /\ ~e.timer /\ e.run = sup[s].run
  BY <1>4, <1>5 DEF Entries
<1>7. sup' = [sup EXCEPT ![s] = e] BY <1>1
<1> HIDE DEF e
<1>8. /\ sup' \in [Sups -> Entries(spawned')] /\ OneListener' /\ Heard \subseteq Heard'
      /\ Timers' = Timers \ {s}
      /\ Runs' = IF e.run THEN Runs \cup {s} ELSE Runs \ {s}
  BY <1>1, <1>2, <1>6, <1>7, NewChild DEF watch
<1>9. Runs' = Runs BY <1>6, <1>8 DEF Runs
<1>10. DaemonTypes' /\ Codes' /\ Quiet' BY <1>1, <1>2, SpawnDaemons
<1>11. OtherTypes'
  <2>1. view' \in Views(spawned') BY <1>2, <1>3, <1>5 DEF OtherTypes, Views, watch
  <2> QED BY <1>2, <1>3, <1>5, <1>8, <2>1 DEF OtherTypes, files, watch, counts
<1>12. TypeOK' BY <1>10, <1>11, TypeIsNext
<1>13. Ledger'
  <2>1. Counts /\ Counts' BY <1>12, CrashCounts, CrashCountsNext DEF SInv
  <2>2. s \in Timers BY <1>2 DEF Timers
  <2>3. Cardinality(Timers') = Cardinality(Timers) - 1
    BY <1>8, <2>1, <2>2, FS_RemoveElement DEF Counts
  <2>4. Cardinality(Heard) <= Cardinality(Heard') BY <1>8, <1>12, HeardGrows DEF SInv
  <2>5. view' = view /\ asks' = asks BY <1>2 DEF watch, counts
  <2> QED BY <1>5, <1>9, <2>1, <2>3, <2>4, <2>5 DEF SInv, Ledger, Counts
<1> QED BY <1>8, <1>10, <1>12, <1>13 DEF SInv

---------------------------------------------------------------------------
(* The end of a child is heard. *)

(* A crash that is heard is one more; it may set one timer. *)
LEMMA SupHearsCauses ==
  ASSUME Shape, SInv, NEW s \in Sups, SupHears(s)
  PROVE  SInv'
<1> DEFINE p == sup[s].child
<1>1. /\ p # None /\ code[p] # "none"
      /\ UNCHANGED <<spawned, daemon, pipe, watch, counts, asked, overlap>>
      /\ \/ /\ sup' = [sup EXCEPT ![s].child = None]
            /\ UNCHANGED <<pidFile, gaveUp>>
         \/ /\ code[p] # "clean"
            /\ \E kept \in 0 .. sup[s].crashes :
                 \/ /\ sup' = [sup EXCEPT ![s].child = None, ![s].crashes = kept + 1]
                    /\ pidFile' = None /\ gaveUp' = TRUE
                 \/ /\ sup' = [sup EXCEPT ![s].child = None, ![s].crashes = kept + 1,
                                          ![s].timer = TRUE]
                    /\ UNCHANGED <<pidFile, gaveUp>>
  BY DEF SupHears
<1>2. DaemonTypes /\ OtherTypes BY TypeIs DEF SInv
<1>3. /\ sup \in [Sups -> Entries(spawned)] /\ sup[s] \in Entries(spawned)
      /\ spawned \in Nat /\ None = 0 /\ None \in 0 .. spawned
  BY <1>2, BoundAssumption DEF OtherTypes, None
<1>4. p \in 0 .. spawned /\ sup[s].crashes \in Nat BY <1>3 DEF Entries
<1>5. p \in Procs
  <2>1. spawned \in 0 .. MaxProcs /\ MaxProcs \in Nat
    BY <1>2, BoundAssumption DEF OtherTypes
  <2>2. PICK q \in 0 .. spawned : q = p BY <1>4
  <2>3. q # 0 BY <1>1, <1>3, <2>2
  <2>4. q \in Procs BY <1>3, <2>1, <2>3 DEF Procs
  <2> QED BY <2>2, <2>4
<1>x. PICK x \in Entries(spawned) : x = sup[s] BY <1>3
<1>6. PICK e \in Entries(spawned) :
        /\ sup' = [sup EXCEPT ![s] = e]
        /\ e.child = None /\ e.run = sup[s].run
        /\ e.timer = sup[s].timer \/ code[p] # "clean"
  <2>1. CASE sup' = [sup EXCEPT ![s].child = None]
    <3> DEFINE e == [sup[s] EXCEPT !.child = None]
    <3>1. /\ e \in Entries(spawned) /\ e.child = None /\ e.run = sup[s].run
          /\ e.timer = sup[s].timer
      BY <1>3 DEF Entries
    <3> QED BY <2>1, <3>1
  <2>2. ASSUME NEW kept \in 0 .. sup[s].crashes, code[p] # "clean",
               sup' = [sup EXCEPT ![s].child = None, ![s].crashes = kept + 1]
        PROVE  \E e \in Entries(spawned) :
                 /\ sup' = [sup EXCEPT ![s] = e]
                 /\ e.child = None /\ e.run = sup[s].run
                 /\ e.timer = sup[s].timer \/ code[p] # "clean"
    <3>0. kept + 1 \in Nat BY <1>4
    <3>1. PICK k \in Nat : k = kept + 1 BY <3>0
    <3> DEFINE e == [x EXCEPT !.child = None, !.crashes = k]
    <3>2. e \in Entries(spawned) /\ e.child = None /\ e.run = x.run
      BY <1>3 DEF Entries
    <3>3. sup' = [sup EXCEPT ![s] = e] BY <1>x, <2>2, <3>1
    <3> HIDE DEF e
    <3>4. e \in Entries(spawned) /\ e.child = None /\ e.run = sup[s].run
      BY <1>x, <3>2
    <3> QED BY <2>2, <3>3, <3>4
  <2>3. ASSUME NEW kept \in 0 .. sup[s].crashes, code[p] # "clean",
               sup' = [sup EXCEPT ![s].child = None, ![s].crashes = kept + 1,
                                  ![s].timer = TRUE]
        PROVE  \E e \in Entries(spawned) :
                 /\ sup' = [sup EXCEPT ![s] = e]
                 /\ e.child = None /\ e.run = sup[s].run
                 /\ e.timer = sup[s].timer \/ code[p] # "clean"
    <3>0. kept + 1 \in Nat BY <1>4
    <3>1. PICK k \in Nat : k = kept + 1 BY <3>0
    <3> DEFINE e == [x EXCEPT !.child = None, !.crashes = k, !.timer = TRUE]
    <3>2. e \in Entries(spawned) /\ e.child = None /\ e.run = x.run
      BY <1>3 DEF Entries
    <3>3. sup' = [sup EXCEPT ![s] = e] BY <1>x, <2>3, <3>1
    <3> HIDE DEF e
    <3>4. e \in Entries(spawned) /\ e.child = None /\ e.run = sup[s].run
      BY <1>x, <3>2
    <3> QED BY <2>3, <3>3, <3>4
  <2> QED BY <1>1, <2>1, <2>2, <2>3
<1>7. \A r \in Sups : sup'[r] = IF r = s THEN e ELSE sup[r] BY <1>3, <1>6
<1>8. /\ UNCHANGED <<code, kids, asks, spawned, view>> BY <1>1 DEF daemon, watch, counts
<1>9. DaemonTypes' BY <1>1, <1>2 DEF DaemonTypes, daemon
<1>10. OtherTypes'
  <2>1. sup' \in [Sups -> Entries(spawned)] BY <1>3, <1>6
  <2>2. pidFile' \in 0 .. spawned /\ gaveUp' \in BOOLEAN
    <3>1. pidFile \in 0 .. spawned /\ gaveUp \in BOOLEAN BY <1>2 DEF OtherTypes
    <3>2. \/ UNCHANGED <<pidFile, gaveUp>>
          \/ pidFile' = None /\ gaveUp' = TRUE
      BY <1>1
    <3> QED BY <1>3, <3>1, <3>2
  <2> QED BY <1>1, <1>2, <2>1, <2>2 DEF OtherTypes, watch, counts
<1>11. TypeOK' BY <1>9, <1>10, TypeIsNext
<1>12. \A q \in Procs : q # None BY DEF Procs, None
<1>13. OneListener'
  <2>1. None \notin kids BY <1>2, <1>3 DEF OtherTypes
  <2> QED BY <1>6, <1>7, <1>8, <2>1 DEF SInv, OneListener
<1>14. Heard \subseteq Heard' BY <1>6, <1>7, <1>8, <1>12 DEF Heard
<1>15. Runs' = Runs BY <1>6, <1>7 DEF Runs
<1>16. Ledger'
  <2>1. Counts /\ Counts' BY <1>11, CrashCounts, CrashCountsNext DEF SInv
  <2>2. CASE code[p] = "clean"
    <3>1. Timers' = Timers BY <1>6, <1>7, <2>2 DEF Timers
    <3>2. Cardinality(Heard) <= Cardinality(Heard') BY <1>11, <1>14, HeardGrows DEF SInv
    <3> QED BY <1>8, <1>15, <2>1, <3>1, <3>2 DEF SInv, Ledger, Counts
  <2>3. CASE code[p] # "clean"
    <3>1. code[p] = "crash" BY <1>1, <1>2, <1>5, <2>3 DEF DaemonTypes
    <3>2. p \notin Heard BY DEF Heard
    <3>3. p \in Heard'
      <4>1. p \notin kids BY DEF SInv, OneListener
      <4>2. \A r \in Sups : r # s => sup[r].child # p BY <1>1 DEF SInv, OneListener
      <4> QED BY <1>1, <1>5, <1>6, <1>7, <1>8, <3>1, <4>1, <4>2 DEF Heard
    <3>4. Cardinality(Heard) + 1 <= Cardinality(Heard')
      BY <1>11, <1>14, <3>2, <3>3, HeardOneMore DEF SInv
    <3>5. Timers' \subseteq Timers \cup {s} BY <1>7 DEF Timers
    <3>6. Cardinality(Timers \cup {s}) <= Cardinality(Timers) + 1
          /\ IsFiniteSet(Timers \cup {s}) /\ Cardinality(Timers \cup {s}) \in Nat
      <4>1. /\ IsFiniteSet(Timers \cup {s})
            /\ Cardinality(Timers \cup {s}) \in {Cardinality(Timers), Cardinality(Timers) + 1}
        BY <2>1, FS_AddElement DEF Counts
      <4>2. Cardinality(Timers) \in Nat BY <2>1 DEF Counts
      <4> QED BY <4>1, <4>2
    <3>7. Cardinality(Timers') <= Cardinality(Timers) + 1
      <4>1. Cardinality(Timers') <= Cardinality(Timers \cup {s})
        BY <3>5, <3>6, FS_Subset
      <4> QED BY <2>1, <3>6, <4>1 DEF Counts
    <3> QED BY <1>8, <1>15, <2>1, <3>4, <3>7 DEF SInv, Ledger, Counts
  <2> QED BY <2>2, <2>3
<1>17. Codes' BY <1>1 DEF SInv, Codes, daemon
<1>18. Quiet' BY <1>1 DEF SInv, Quiet, daemon
<1> QED BY <1>11, <1>13, <1>16, <1>17, <1>18 DEF SInv

LEMMA ChildExitsCauses ==
  ASSUME Shape, SInv, NEW p \in Procs, ChildExits(p)
  PROVE  SInv'
<1>1. /\ p \in kids /\ code[p] # "none" /\ kids' = kids \ {p}
      /\ UNCHANGED <<spawned, daemon, pipe, ping, sup, counts, asked, overlap>>
  BY DEF ChildExits
<1>2. DaemonTypes /\ OtherTypes BY TypeIs DEF SInv
<1> DEFINE gone == [view EXCEPT !.running = FALSE, !.healthy = FALSE]
<1>3. PICK kept \in 0 .. view.crashes :
        IF code[p] = "clean"
        THEN view' = gone /\ UNCHANGED <<pidFile, gaveUp>>
        ELSE IF kept + 1 > MaxRestarts
        THEN /\ view' = [gone EXCEPT !.crashes = kept + 1]
             /\ pidFile' = None /\ gaveUp' = TRUE
        ELSE /\ view' = [gone EXCEPT !.crashes = kept + 1, !.timers = @ + 1]
             /\ UNCHANGED <<pidFile, gaveUp>>
  BY DEF ChildExits
<1>4. view \in Views(spawned) BY <1>2 DEF OtherTypes
<1>5. gone \in Views(spawned) /\ gone.timers = view.timers BY <1>4 DEF Views
<1>6. kept + 1 \in Nat /\ view.timers \in Nat /\ None \in 0 .. spawned
  BY <1>2, <1>4, BoundAssumption DEF Views, OtherTypes, None
<1> HIDE DEF gone
<1>7. /\ view' \in Views(spawned) /\ pidFile' \in 0 .. spawned /\ gaveUp' \in BOOLEAN
      /\ \/ view'.timers = view.timers
         \/ code[p] # "clean" /\ view'.timers = view.timers + 1
  <2>0. pidFile \in 0 .. spawned /\ gaveUp \in BOOLEAN BY <1>2 DEF OtherTypes
  <2>1. CASE code[p] = "clean"
    <3>1. view' = gone /\ UNCHANGED <<pidFile, gaveUp>> BY <1>3, <2>1
    <3>2. view' \in Views(spawned) /\ view'.timers = view.timers BY <1>5, <3>1
    <3>3. gaveUp' \in BOOLEAN /\ pidFile' \in 0 .. spawned BY <2>0, <3>1
    <3> QED BY <3>2, <3>3, Zenon
  <2>2. CASE code[p] # "clean" /\ kept + 1 > MaxRestarts
    <3>1. view' = [gone EXCEPT !.crashes = kept + 1] /\ pidFile' = None /\ gaveUp' = TRUE
      BY <1>3, <2>2
    <3>2. view' \in Views(spawned) /\ view'.timers = view.timers
      BY <1>5, <1>6, <3>1 DEF Views
    <3>3. gaveUp' \in BOOLEAN /\ pidFile' \in 0 .. spawned BY <1>6, <3>1
    <3> QED BY <3>2, <3>3, Zenon
  <2>3. CASE code[p] # "clean" /\ ~(kept + 1 > MaxRestarts)
    <3>1. /\ view' = [gone EXCEPT !.crashes = kept + 1, !.timers = @ + 1]
          /\ UNCHANGED <<pidFile, gaveUp>>
      BY <1>3, <2>3
    <3>2. gone.timers + 1 \in Nat BY <1>5, <1>6
    <3>3. view' \in Views(spawned) /\ view'.timers = view.timers + 1
      BY <1>5, <1>6, <3>1, <3>2 DEF Views
    <3> QED BY <1>2, <2>3, <3>1, <3>3 DEF OtherTypes
  <2> QED BY <2>1, <2>2, <2>3
<1>8. TypeOK'
  <2>1. DaemonTypes' BY <1>1, <1>2 DEF DaemonTypes, daemon
  <2>2. OtherTypes' BY <1>1, <1>2, <1>7 DEF OtherTypes, counts
  <2> QED BY <2>1, <2>2, TypeIsNext
<1>9. OneListener' BY <1>1 DEF SInv, OneListener
<1>10. Heard \subseteq Heard' BY <1>1 DEF Heard, daemon
<1>11. Timers' = Timers /\ Runs' = Runs BY <1>1 DEF Timers, Runs
<1>12. Ledger'
  <2>1. Counts /\ Counts' BY <1>8, CrashCounts, CrashCountsNext DEF SInv
  <2>2. spawned' = spawned /\ asks' = asks BY <1>1 DEF counts
  <2>3. CASE view'.timers = view.timers
    <3>1. Cardinality(Heard) <= Cardinality(Heard') BY <1>8, <1>10, HeardGrows DEF SInv
    <3> QED BY <1>11, <2>1, <2>2, <2>3, <3>1 DEF SInv, Ledger, Counts
  <2>4. CASE code[p] # "clean" /\ view'.timers = view.timers + 1
    <3>1. code[p] = "crash" BY <1>1, <1>2, <2>4 DEF DaemonTypes
    <3>2. p \notin Heard BY <1>1 DEF Heard
    <3>3. p \in Heard' BY <1>1, <3>1 DEF Heard, daemon, SInv, OneListener
    <3>4. Cardinality(Heard) + 1 <= Cardinality(Heard')
      BY <1>8, <1>10, <3>2, <3>3, HeardOneMore DEF SInv
    <3> QED BY <1>11, <2>1, <2>2, <2>4, <3>4 DEF SInv, Ledger, Counts
  <2> QED BY <1>7, <2>3, <2>4
<1>13. Codes' /\ Quiet' BY <1>1 DEF SInv, Codes, Quiet, daemon
<1> QED BY <1>8, <1>9, <1>12, <1>13 DEF SInv

---------------------------------------------------------------------------
(* launchDaemon of the watchdog, also after a signal. *)
LEMMA LaunchCauses ==
  ASSUME Shape, SInv, NEW v \in Views(spawned), NEW was \in [Procs -> Phases],
         LaunchDaemon(v, was),
         code' \in [Procs -> {"none", "clean", "crash"}],
         sigterm' \in [Procs -> BOOLEAN], UNCHANGED <<rebootDue, tries, ears>>,
         \A q \in Procs : code[q] = "crash" => code'[q] = "crash",
         \A q \in Procs : was[q] # "dead" => code'[q] = "none",
         \A q \in Procs : was[q] = phase[q] \/ phase[q] = "booting",
         asked' \in 0 .. spawned, asks' \in Nat,
         UNCHANGED <<pipe, ping, sup, faults, stops, gaveUp>>,
         v.timers + asks + 1 = view.timers + asks'
  PROVE  SInv'
<1>1. DaemonTypes /\ OtherTypes BY TypeIs DEF SInv
<1>2. Counts BY CrashCounts DEF SInv
<1>3. CASE Alive(pidFile)
  <2>1. /\ view' = [v EXCEPT !.pid = pidFile, !.running = TRUE] /\ phase' = was
        /\ UNCHANGED <<spawned, pidFile, kids, overlap>>
    BY <1>3 DEF LaunchDaemon
  <2>2. view' \in Views(spawned) /\ view'.timers = v.timers
    BY <1>1, <2>1 DEF OtherTypes, Views
  <2>3. TypeOK'
    <3>1. DaemonTypes' BY <1>1, <2>1 DEF DaemonTypes
    <3>2. OtherTypes' BY <1>1, <2>1, <2>2 DEF OtherTypes
    <3> QED BY <3>1, <3>2, TypeIsNext
  <2>4. OneListener' /\ Heard \subseteq Heard' /\ Timers' = Timers /\ Runs' = Runs
    BY <2>1 DEF SInv, OneListener, Heard, Timers, Runs
  <2>5. Ledger'
    <3>1. Cardinality(Heard) <= Cardinality(Heard') BY <2>3, <2>4, HeardGrows DEF SInv
    <3>2. Counts' BY <2>3, CrashCountsNext
    <3> QED BY <1>2, <2>1, <2>2, <2>4, <3>1, <3>2 DEF SInv, Ledger, Counts
  <2>6. Codes' BY <2>1 DEF Codes
  <2>7. Quiet' BY <2>1 DEF SInv, Quiet
  <2> QED BY <2>3, <2>4, <2>5, <2>6, <2>7 DEF SInv
<1>4. CASE ~Alive(pidFile)
  <2>1. PICK p \in Procs : /\ Spawn(p, was) /\ pidFile' = None /\ kids' = kids \cup {p}
                           /\ view' = [v EXCEPT !.pid = p, !.running = TRUE]
    BY <1>4 DEF LaunchDaemon
  <2>2. /\ p = spawned + 1 /\ spawned' = p /\ spawned' \in 0 .. MaxProcs
        /\ 0 .. spawned \subseteq 0 .. spawned' /\ p \in 0 .. spawned' /\ p \in 1 .. spawned'
        /\ 1 .. spawned \subseteq 1 .. spawned' /\ None \in 0 .. spawned
        /\ code[p] = "none" /\ \A s \in Sups : sup[s].child # p
        /\ phase' \in [Procs -> Phases]
        /\ \A q \in Procs : phase'[q] = IF q = p THEN "booting" ELSE was[q]
        /\ overlap' \in BOOLEAN
    BY <2>1, SpawnTypes
  <2>3. view' \in Views(spawned') /\ view'.timers = v.timers
    BY <2>1, <2>2 DEF Views
  <2>4. TypeOK'
    <3>1. DaemonTypes' BY <1>1, <2>2 DEF DaemonTypes
    <3>2. sup' \in [Sups -> Entries(spawned')] BY <1>1, <2>2 DEF OtherTypes, Entries
    <3>3. OtherTypes' BY <1>1, <2>1, <2>2, <2>3, <3>2 DEF OtherTypes
    <3> QED BY <3>1, <3>3, TypeIsNext
  <2>5. OneListener' BY <2>1, <2>2 DEF SInv, OneListener
  <2>6. Heard \subseteq Heard' BY <2>1, <2>2 DEF Heard
  <2>7. Timers' = Timers /\ Runs' = Runs BY DEF Timers, Runs
  <2>8. Ledger'
    <3>1. Cardinality(Heard) <= Cardinality(Heard') BY <2>4, <2>6, HeardGrows DEF SInv
    <3>2. Counts' BY <2>4, CrashCountsNext
    <3> QED BY <1>2, <2>2, <2>3, <2>7, <3>1, <3>2 DEF SInv, Ledger, Counts
  <2>9. Codes'
    <3>1. phase[p] = "unborn"
      <4>1. p > spawned BY <1>2, <2>2 DEF Counts
      <4> QED BY <4>1 DEF Shape
    <3>2. was[p] # "dead" \/ code'[p] = "none"
      BY <3>1
    <3> QED BY <2>2, <3>2 DEF Codes
  <2>10. Quiet'
    <3>1. \A q \in Procs : q > spawned' => q > spawned BY <1>2, <2>2 DEF Procs, Counts
    <3> QED BY <3>1 DEF SInv, Quiet
  <2> QED BY <2>4, <2>5, <2>8, <2>9, <2>10 DEF SInv
<1> QED BY <1>3, <1>4

LEMMA RestartDaemonCauses ==
  ASSUME Shape, SInv, RestartDaemon
  PROVE  SInv'
<1> DEFINE v == [view EXCEPT !.running = FALSE]
           was == PhaseAfterSignal(view.pid)
<1>1. /\ asks' = asks + 1
      /\ asked' = IF Alive(view.pid) THEN view.pid ELSE asked
      /\ Signal(view.pid) /\ LaunchDaemon(v, was)
      /\ UNCHANGED <<pipe, ping, sup, faults, stops, gaveUp>>
  BY DEF RestartDaemon
<1>2. OtherTypes /\ Counts BY TypeIs, CrashCounts DEF SInv
<1>3. /\ v \in Views(spawned) /\ v.timers = view.timers /\ view.pid \in 0 .. spawned
  BY <1>2 DEF OtherTypes, Views
<1>4. /\ was \in [Procs -> Phases]
      /\ code' \in [Procs -> {"none", "clean", "crash"}]
      /\ sigterm' \in [Procs -> BOOLEAN] /\ UNCHANGED <<rebootDue, tries, ears>>
      /\ \A q \in Procs : code[q] = "crash" => code'[q] = "crash"
      /\ \A q \in Procs : was[q] # "dead" => code'[q] = "none"
      /\ \A q \in Procs : was[q] = phase[q] \/ phase[q] = "booting"
  BY <1>1, SignalTypes
<1>5. asked' \in 0 .. spawned /\ asks' \in Nat BY <1>1, <1>2, <1>3 DEF OtherTypes
<1>6. v.timers + asks + 1 = view.timers + asks' BY <1>1, <1>2, <1>3 DEF Counts
<1> HIDE DEF v, was
<1> QED BY <1>1, <1>3, <1>4, <1>5, <1>6, LaunchCauses

LEMMA RelaunchCauses ==
  ASSUME Shape, SInv, Relaunch
  PROVE  SInv'
<1> DEFINE v == [view EXCEPT !.timers = @ - 1]
<1>1. /\ view.timers > 0 /\ LaunchDaemon(v, phase)
      /\ UNCHANGED <<code, sigterm, rebootDue, tries, ears, pipe, ping, sup, counts,
                     asked, gaveUp>>
  BY DEF Relaunch
<1>2. OtherTypes /\ DaemonTypes /\ Counts BY TypeIs, CrashCounts DEF SInv
<1>3. view.timers - 1 \in Nat BY <1>1, <1>2 DEF Counts
<1>4. v \in Views(spawned) /\ v.timers = view.timers - 1
  BY <1>2, <1>3 DEF OtherTypes, Views
<1>5. v.timers + asks + 1 = view.timers + asks BY <1>2, <1>4 DEF Counts
<1>6. \A q \in Procs : phase[q] # "dead" => code'[q] = "none"
  BY <1>1 DEF SInv, Codes
<1> HIDE DEF v
<1> QED BY <1>1, <1>2, <1>4, <1>5, <1>6, LaunchCauses DEF DaemonTypes, OtherTypes, counts

(* Steps that spawn nobody and touch no daemon. *)
LEMMA WatchCauses ==
  ASSUME Shape, SInv,
         CheckHealth \/ PingMeets \/ PingEnds \/ (\E s \in Sups : SupLeaves(s))
         \/ UNCHANGED vars
  PROVE  SInv'
<1>1. DaemonTypes /\ OtherTypes BY TypeIs DEF SInv
<1>2. UNCHANGED <<spawned, daemon, files, kids, counts, asked, gaveUp, overlap>>
  BY DEF CheckHealth, PingMeets, PingEnds, SupLeaves, vars, watch
<1>3. view \in Views(spawned) /\ pidFile \in 0 .. spawned BY <1>1 DEF OtherTypes
<1>4. view' \in Views(spawned) /\ view'.timers = view.timers
  BY <1>3 DEF CheckHealth, PingMeets, PingEnds, SupLeaves, vars, watch, Views
<1>5. ping' \in {"idle", "asking", "answered", "failed"}
  BY <1>1 DEF OtherTypes, CheckHealth, PingMeets, PingEnds, SupLeaves, vars, watch
<1>6. \/ sup' = sup
      \/ \E s \in Sups : sup' = [sup EXCEPT ![s].child = None]
  BY DEF CheckHealth, PingMeets, PingEnds, SupLeaves, vars
<1>7. sup' \in [Sups -> Entries(spawned)]
  <2>1. sup \in [Sups -> Entries(spawned)] /\ None \in 0 .. spawned
    BY <1>1, BoundAssumption DEF OtherTypes, None
  <2> QED BY <1>6, <2>1 DEF Entries
<1>8. TypeOK'
  <2>1. DaemonTypes' BY <1>1, <1>2 DEF DaemonTypes, daemon
  <2>2. OtherTypes' BY <1>1, <1>2, <1>4, <1>5, <1>7 DEF OtherTypes, files, counts
  <2> QED BY <2>1, <2>2, TypeIsNext
<1>9. OneListener' /\ Ledger'
  BY <1>2, <1>4, <1>6, <1>8, NothingSpent DEF daemon, counts
<1>10. Codes' /\ Quiet' BY <1>2 DEF SInv, Codes, Quiet, daemon
<1> QED BY <1>8, <1>9, <1>10 DEF SInv

LEMMA NextCauses == Shape /\ SInv /\ [Next]_vars => SInv'
<1> SUFFICES ASSUME Shape, SInv, [Next]_vars PROVE SInv' OBVIOUS
<1> QED BY DaemonCauses, ChildExitsCauses, UserStartCauses, SupRelaunchesCauses,
           SupHearsCauses, UserStopCauses, RestartDaemonCauses, RelaunchCauses,
           WatchCauses DEF Next, SupStep

LEMMA InitCauses == Init => SInv
<1> SUFFICES ASSUME Init PROVE SInv OBVIOUS
<1>1. 0 \in 0 .. MaxProcs /\ 0 \in 0 .. RestartLimit BY BoundAssumption
<1>2. DaemonTypes BY <1>1 DEF Init, DaemonTypes, Phases
<1>3. OtherTypes
  <2>1. spawned = 0 /\ 0 \in 0 .. spawned /\ None = 0 BY DEF Init, None
  <2>2. view \in Views(spawned) BY <2>1 DEF Init, Views
  <2>3. NoSup \in Entries(spawned) BY <2>1 DEF NoSup, Entries
  <2>4. sup \in [Sups -> Entries(spawned)] BY <2>3 DEF Init
  <2>5. /\ pidFile \in 0 .. spawned /\ pipe \in 0 .. spawned /\ asked \in 0 .. spawned
        /\ spawned \in 0 .. MaxProcs /\ kids \subseteq 1 .. spawned
    BY <1>1, <2>1 DEF Init
  <2>6. gaveUp \in BOOLEAN /\ overlap \in BOOLEAN BY DEF Init
  <2> QED BY <2>2, <2>4, <2>5, <2>6 DEF Init, OtherTypes
<1>4. TypeOK BY <1>2, <1>3, TypeIs
<1>5. Codes /\ Quiet BY DEF Init, Codes, Quiet
<1>6. \A s \in Sups : sup[s] = NoSup BY DEF Init
<1>7. OneListener BY <1>6 DEF Init, OneListener, NoSup
<1>8. Ledger
  <2>1. Timers = {} BY <1>6 DEF Timers, NoSup
  <2>2. Cardinality({}) = 0 BY FS_EmptySet
  <2>3. Cardinality(Timers) = 0 BY <2>1, <2>2, Zenon
  <2>4. spawned = 0 /\ view.timers = 0 /\ asks = 0 BY DEF Init
  <2>5. Cardinality(Runs) \in Nat /\ Cardinality(Heard) \in Nat
    BY <1>4, CrashCounts DEF Counts
  <2> HIDE <2>1, <2>2
  <2> QED BY <2>3, <2>4, <2>5 DEF Ledger
<1> QED BY <1>4, <1>5, <1>7, <1>8 DEF SInv

LEMMA Causes == Spec => []SInv
<1>1. IInv => Shape BY DEF IInv
<1>2. IInv /\ [Next]_vars => IInv' BY NextKeeps
<1> QED BY <1>1, <1>2, InitHolds, InitCauses, NextCauses, PTL DEF Spec

(* The types. *)
THEOREM SupervisionTypes == Spec => []TypeOK
<1>1. SInv => TypeOK BY DEF SInv
<1> QED BY <1>1, Causes, PTL

(* A crash brings at most one new process, whoever saw it, and nothing but  *)
(* a crash, `brain start` or restartDaemon brings any.                      *)
THEOREM EverySpawnIsCaused == Spec => []EverySpawnHasACause
<1>1. SInv => EverySpawnHasACause
  <2> SUFFICES ASSUME SInv PROVE EverySpawnHasACause OBVIOUS
  <2>1. Counts BY CrashCounts DEF SInv
  <2>2. Heard \subseteq Crashes BY DEF Heard, Crashes
  <2>3. Cardinality(Heard) <= Cardinality(Crashes) BY <2>1, <2>2, FS_Subset DEF Counts
  <2>4. spawned + view.timers + Cardinality(Timers)
          <= Cardinality(Runs) + asks + Cardinality(Crashes)
    BY <2>1, <2>3 DEF SInv, Ledger, Counts
  <2> QED BY <2>4 DEF EverySpawnHasACause, Timers, Runs, Crashes
<1> QED BY <1>1, Causes, PTL
===========================================================================
