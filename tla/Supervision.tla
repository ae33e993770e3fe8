---------------------------- MODULE Supervision ----------------------------
(***************************************************************************)
(* The life of one daemon (brain/src/brain.ts and its init/lifecycle.ts;   *)
(* the other brains share the code) and of those who start, stop and watch *)
(* it: the CLI commands start and stop, the supervisor that `start` leaves *)
(* behind, the WatchdogService of another brain in its monitoring mode and *)
(* the IPC server that claims the pipe.                                    *)
(*                                                                         *)
(* They meet in two files, which nobody locks: the PID file, and the path  *)
(* of the pipe.  A daemon writes the PID file when its boot is over, so a  *)
(* booting daemon is invisible to the others.                              *)
(***************************************************************************)
EXTENDS Integers, FiniteSets

CONSTANTS
  MaxProcs,       \* bound: processes ever spawned
  Sups,           \* runs of `brain start` (each may leave a supervisor)
  RestartLimit,   \* restarts in the process before it exits (code: 3)
  MaxRestarts,    \* crashes of its children a supervisor bears (code: 5)
  MaxFaults,      \* bound: uncaught errors, failed starts, kills
  MaxAsks,        \* bound: calls of restartDaemon
  MaxStops        \* bound: runs of `brain stop`

ASSUME BoundAssumption ==
  /\ {MaxProcs, MaxRestarts, MaxFaults, MaxAsks, MaxStops} \subseteq Nat
  /\ RestartLimit \in Nat \ {0}
  /\ IsFiniteSet(Sups)

Procs == 1 .. MaxProcs
None == 0

Phases == {"unborn", "booting", "up", "restarting", "down", "stopping", "dead"}

VARIABLES
  spawned,    \* processes 1 .. spawned have been spawned
  phase,      \* of each process; "down": its own restart failed
  code,       \* how a process ended: 0 or a signal ("clean"), 1 ("crash")
  sigterm,    \* a SIGTERM no handler has seen yet
  rebootDue,  \* the timer of restart() is set
  tries,      \* restartCount
  ears,       \* the IPC server of each process
  pidFile,    \* the process the PID file names
  pipe,       \* the process that bound the path of the pipe
  view,       \* the WatchdogService's DaemonState
  kids,       \* processes whose exit the WatchdogService handles
  ping,       \* its health check: "idle", "asking" or what it heard
  sup,        \* the supervisor each run of `brain start` leaves
  faults, asks, stops,  \* how often so far
  asked,      \* history: the process restartDaemon last signalled
  gaveUp,     \* history: a supervisor has given up a daemon
  overlap     \* history: a daemon was spawned while another was alive

daemon == <<phase, code, sigterm, rebootDue, tries, ears>>
files == <<pidFile, pipe>>
watch == <<view, kids, ping>>
counts == <<faults, asks, stops>>
vars == <<spawned, daemon, files, watch, sup, counts, asked, gaveUp, overlap>>

Alive(p) == p \in Procs /\ phase[p] \notin {"unborn", "dead"}

(* Somebody answers a connection to the path of the pipe. *)
Answering == Alive(pipe) /\ ears[pipe] = "open"

---------------------------------------------------------------------------
(* Spawning, and the end of a process. *)

(* spawn: the next process, not yet ready for signals; was: the phases at *)
(* the time.                                                              *)
Spawn(p, was) ==
  /\ p = spawned + 1
  /\ spawned' = p
  /\ phase' = [was EXCEPT ![p] = "booting"]
  /\ overlap' = (overlap \/ \E q \in Procs : was[q] \notin {"unborn", "dead"})

(* The process ends as it stands: its files stay where they are. *)
Die(p, c) ==
  /\ phase' = [phase EXCEPT ![p] = "dead"]
  /\ code' = [code EXCEPT ![p] = c]
  /\ sigterm' = [sigterm EXCEPT ![p] = FALSE]
  /\ rebootDue' = [rebootDue EXCEPT ![p] = FALSE]
  /\ ears' = [ears EXCEPT ![p] = "closed"]
  /\ UNCHANGED tries

(* process.kill(p, 'SIGTERM'): a process that has no handler yet dies of it *)
(* at once, another one will find time for it.                             *)
Defenceless(p) == p # None /\ phase[p] = "booting"

PhaseAfterSignal(p) ==
  IF Defenceless(p) THEN [phase EXCEPT ![p] = "dead"] ELSE phase

Signal(p) ==
  /\ code' = IF Defenceless(p) THEN [code EXCEPT ![p] = "clean"] ELSE code
  /\ sigterm' = IF Alive(p) /\ ~Defenceless(p)
                THEN [sigterm EXCEPT ![p] = TRUE]
                ELSE sigterm
  /\ UNCHANGED <<rebootDue, tries, ears>>

---------------------------------------------------------------------------
(* The daemon. *)

(* IpcServer.listen: bind, or find the path in use. *)
Listen(p) ==
  IF pipe = None
  THEN /\ ears' = [ears EXCEPT ![p] = "open"]
       /\ pipe' = p
  ELSE /\ ears' = [ears EXCEPT ![p] = "probing"]
       /\ UNCHANGED pipe

(* IpcServer.stop: closing a server that has bound the path unlinks it. *)
Hush(p) ==
  /\ ears' = [ears EXCEPT ![p] = "closed"]
  /\ pipe' = IF ears[p] = "open" THEN None ELSE pipe

(* Fault: a PID file that is there, stale or not, is left alone. *)
BootKeepingFile(p) ==
  /\ phase[p] = "booting"
  /\ Listen(p)
  /\ pidFile' = IF pidFile = None THEN p ELSE pidFile
  /\ phase' = [phase EXCEPT ![p] = "up"]
  /\ UNCHANGED <<spawned, code, sigterm, rebootDue, tries, watch, sup, counts,
                 asked, gaveUp, overlap>>

(* start: the server listens, the PID file is written, the handlers are set. *)
Boot(p) ==
  /\ phase[p] = "booting"
  /\ Listen(p)
  /\ pidFile' = p
  /\ phase' = [phase EXCEPT ![p] = "up"]
  /\ UNCHANGED <<spawned, code, sigterm, rebootDue, tries, watch, sup, counts,
                 asked, gaveUp, overlap>>

(* start throws before the handlers are set: exit code 1. *)
BootFails(p) ==
  /\ phase[p] = "booting" /\ faults < MaxFaults
  /\ Die(p, "crash")
  /\ faults' = faults + 1
  /\ UNCHANGED <<spawned, files, watch, sup, asks, stops, asked, gaveUp, overlap>>

(* recoverStalePipe: what the probe meets. *)
Probe(p) ==
  /\ ears[p] = "probing"
  /\ ears' = [ears EXCEPT ![p] = IF Answering THEN "deaf" ELSE "stale"]
  /\ UNCHANGED <<spawned, phase, code, sigterm, rebootDue, tries, files, watch,
                 sup, counts, asked, gaveUp, overlap>>

(* The callback of a probe that failed: unlink the path and listen on it, *)
(* whoever has bound it since.                                            *)
Reclaim(p) ==
  /\ ears[p] = "stale"
  /\ ears' = [ears EXCEPT ![p] = "open"]
  /\ pipe' = p
  /\ UNCHANGED <<spawned, phase, code, sigterm, rebootDue, tries, pidFile,
                 watch, sup, counts, asked, gaveUp, overlap>>

(* Fault: a process in the middle of its own restart does not stop. *)
HandleSigtermUnlessRestarting(p) ==
  /\ sigterm[p]
  /\ sigterm' = [sigterm EXCEPT ![p] = FALSE]
  /\ IF phase[p] = "restarting"
     THEN UNCHANGED <<phase, ears, files>>
     ELSE /\ phase' = [phase EXCEPT ![p] = "stopping"]
          /\ Hush(p)
          /\ pidFile' = None
  /\ UNCHANGED <<spawned, code, rebootDue, tries, watch, sup, counts, asked,
                 gaveUp, overlap>>

(* stop: clean up and remove the PID file, whomever it names. *)
HandleSigterm(p) ==
  /\ sigterm[p]
  /\ sigterm' = [sigterm EXCEPT ![p] = FALSE]
  /\ phase' = [phase EXCEPT ![p] = "stopping"]
  /\ Hush(p)
  /\ pidFile' = None
  /\ UNCHANGED <<spawned, code, rebootDue, tries, watch, sup, counts, asked,
                 gaveUp, overlap>>

(* The logger has finished, or its two seconds are over. *)
Exit(p) ==
  /\ phase[p] = "stopping"
  /\ Die(p, "clean")
  /\ UNCHANGED <<spawned, files, watch, sup, counts, asked, gaveUp, overlap>>

(* Fault: one restart more than the limit. *)
UncaughtErrorOnceMore(p) ==
  /\ phase[p] \in {"up", "down", "stopping"} /\ ~rebootDue[p]
  /\ faults < MaxFaults
  /\ faults' = faults + 1
  /\ \E restartCount \in {1, tries[p] + 1} :
       IF restartCount > RestartLimit + 1
       THEN /\ Die(p, "crash")
            /\ UNCHANGED pipe
       ELSE /\ tries' = [tries EXCEPT ![p] = restartCount]
            /\ Hush(p)
            /\ phase' = [phase EXCEPT ![p] = IF @ = "stopping" THEN @ ELSE "restarting"]
            /\ rebootDue' = [rebootDue EXCEPT ![p] = TRUE]
            /\ UNCHANGED <<code, sigterm>>
  /\ UNCHANGED <<spawned, pidFile, watch, sup, asks, stops, asked, gaveUp, overlap>>

(* An uncaught error calls restart: clean up and start again in a second, *)
(* or exit with code 1 after too many restarts within a minute.  It does  *)
(* so in a process that is stopping as well, but not twice at a time.     *)
UncaughtError(p) ==
  /\ phase[p] \in {"up", "down", "stopping"} /\ ~rebootDue[p]
  /\ faults < MaxFaults
  /\ faults' = faults + 1
  /\ \E restartCount \in {1, tries[p] + 1} :
       IF restartCount > RestartLimit
       THEN /\ Die(p, "crash")
            /\ UNCHANGED pipe
       ELSE /\ tries' = [tries EXCEPT ![p] = restartCount]
            /\ Hush(p)
            /\ phase' = [phase EXCEPT ![p] = IF @ = "stopping" THEN @ ELSE "restarting"]
            /\ rebootDue' = [rebootDue EXCEPT ![p] = TRUE]
            /\ UNCHANGED <<code, sigterm>>
  /\ UNCHANGED <<spawned, pidFile, watch, sup, asks, stops, asked, gaveUp, overlap>>

(* The timer of restart() calls start, also in a process that is stopping. *)
Reboot(p) ==
  /\ rebootDue[p]
  /\ rebootDue' = [rebootDue EXCEPT ![p] = FALSE]
  /\ Listen(p)
  /\ pidFile' = p
  /\ phase' = [phase EXCEPT ![p] = IF @ = "restarting" THEN "up" ELSE @]
  /\ UNCHANGED <<spawned, code, sigterm, tries, watch, sup, counts, asked,
                 gaveUp, overlap>>

(* ... and start throws: the process lives on without any service. *)
RebootFails(p) ==
  /\ rebootDue[p] /\ faults < MaxFaults
  /\ faults' = faults + 1
  /\ rebootDue' = [rebootDue EXCEPT ![p] = FALSE]
  /\ phase' = [phase EXCEPT ![p] = IF @ = "restarting" THEN "down" ELSE @]
  /\ UNCHANGED <<spawned, code, sigterm, tries, ears, files, watch, sup, asks,
                 stops, asked, gaveUp, overlap>>

(* The system kills the process. *)
Kill(p) ==
  /\ Alive(p) /\ faults < MaxFaults
  /\ Die(p, "clean")
  /\ faults' = faults + 1
  /\ UNCHANGED <<spawned, files, watch, sup, asks, stops, asked, gaveUp, overlap>>

---------------------------------------------------------------------------
(* The commands start and stop, and the supervisor of start. *)

NoSup == [child |-> None, crashes |-> 0, timer |-> FALSE, run |-> FALSE]

(* startCommand: unless the PID file names a living process. *)
UserStart(s) ==
  /\ ~sup[s].run /\ ~Alive(pidFile)
  /\ pidFile' = None
  /\ \E p \in Procs :
       /\ Spawn(p, phase)
       /\ sup' = [sup EXCEPT ![s] = [NoSup EXCEPT !.child = p, !.run = TRUE]]
  /\ UNCHANGED <<code, sigterm, rebootDue, tries, ears, pipe, watch, counts,
                 asked, gaveUp>>

(* stopCommand: SIGTERM to the process in the PID file, which is removed. *)
UserStop ==
  /\ pidFile # None /\ stops < MaxStops
  /\ Signal(pidFile)
  /\ phase' = PhaseAfterSignal(pidFile)
  /\ pidFile' = None
  /\ stops' = stops + 1
  /\ UNCHANGED <<spawned, pipe, watch, sup, faults, asks, asked, gaveUp, overlap>>

(* Fault: every exit of the child counts as a crash. *)
SupHearsAll(s) ==
  LET p == sup[s].child IN
  /\ p # None /\ code[p] # "none"
  /\ \E kept \in 0 .. sup[s].crashes :
       IF kept + 1 > MaxRestarts
       THEN /\ sup' = [sup EXCEPT ![s].child = None, ![s].crashes = kept + 1]
            /\ pidFile' = None /\ gaveUp' = TRUE
       ELSE /\ sup' = [sup EXCEPT ![s].child = None, ![s].crashes = kept + 1,
                                  ![s].timer = TRUE]
            /\ UNCHANGED <<pidFile, gaveUp>>
  /\ UNCHANGED <<spawned, daemon, pipe, watch, counts, asked, overlap>>

(* The exit handler of startWatchdog; kept: crashes still in the window. *)
SupHears(s) ==
  LET p == sup[s].child IN
  /\ p # None /\ code[p] # "none"
  /\ IF code[p] = "clean"
     THEN /\ sup' = [sup EXCEPT ![s].child = None]
          /\ UNCHANGED <<pidFile, gaveUp>>
     ELSE \E kept \in 0 .. sup[s].crashes :
            IF kept + 1 > MaxRestarts
            THEN /\ sup' = [sup EXCEPT ![s].child = None, ![s].crashes = kept + 1]
                 /\ pidFile' = None /\ gaveUp' = TRUE
            ELSE /\ sup' = [sup EXCEPT ![s].child = None, ![s].crashes = kept + 1,
                                       ![s].timer = TRUE]
                 /\ UNCHANGED <<pidFile, gaveUp>>
  /\ UNCHANGED <<spawned, daemon, pipe, watch, counts, asked, overlap>>

(* Its backoff timer launches without a look at the PID file. *)
SupRelaunches(s) ==
  /\ sup[s].timer
  /\ \E p \in Procs :
       /\ Spawn(p, phase)
       /\ sup' = [sup EXCEPT ![s].child = p, ![s].timer = FALSE]
  /\ UNCHANGED <<code, sigterm, rebootDue, tries, ears, files, watch, counts,
                 asked, gaveUp>>

(* Nothing keeps the command alive once its child is launched (unref): it *)
(* ends, and with it the supervision.                                     *)
SupLeaves(s) ==
  /\ sup[s].child # None
  /\ sup' = [sup EXCEPT ![s].child = None]
  /\ UNCHANGED <<spawned, daemon, files, watch, counts, asked, gaveUp, overlap>>

---------------------------------------------------------------------------
(* The WatchdogService of another brain. *)

(* launchDaemon: adopt the process in the PID file if it lives, or spawn. *)
LaunchDaemon(v, was) ==
  IF Alive(pidFile)
  THEN /\ view' = [v EXCEPT !.pid = pidFile, !.running = TRUE]
       /\ phase' = was
       /\ UNCHANGED <<spawned, pidFile, kids, overlap>>
  ELSE \E p \in Procs :
         /\ Spawn(p, was)
         /\ pidFile' = None
         /\ kids' = kids \cup {p}
         /\ view' = [v EXCEPT !.pid = p, !.running = TRUE]

(* restartDaemon: SIGTERM, and launch at once. *)
RestartDaemon ==
  /\ asks < MaxAsks
  /\ asks' = asks + 1
  /\ asked' = IF Alive(view.pid) THEN view.pid ELSE asked
  /\ Signal(view.pid)
  /\ LaunchDaemon([view EXCEPT !.running = FALSE], PhaseAfterSignal(view.pid))
  /\ UNCHANGED <<pipe, ping, sup, faults, stops, gaveUp>>

(* The exit handler of a child; kept: crashes still in the window. *)
ChildExits(p) ==
  /\ p \in kids /\ code[p] # "none"
  /\ kids' = kids \ {p}
  /\ \E kept \in 0 .. view.crashes :
       LET gone == [view EXCEPT !.running = FALSE, !.healthy = FALSE]
       IN IF code[p] = "clean"
          THEN view' = gone /\ UNCHANGED <<pidFile, gaveUp>>
          ELSE IF kept + 1 > MaxRestarts
          THEN /\ view' = [gone EXCEPT !.crashes = kept + 1]
               /\ pidFile' = None /\ gaveUp' = TRUE
          ELSE /\ view' = [gone EXCEPT !.crashes = kept + 1, !.timers = @ + 1]
               /\ UNCHANGED <<pidFile, gaveUp>>
  /\ UNCHANGED <<spawned, daemon, pipe, ping, sup, counts, asked, overlap>>

(* Its backoff timer. *)
Relaunch ==
  /\ view.timers > 0
  /\ LaunchDaemon([view EXCEPT !.timers = @ - 1], phase)
  /\ UNCHANGED <<code, sigterm, rebootDue, tries, ears, pipe, ping, sup, counts,
                 asked, gaveUp>>

(* Fault: the process is not looked at again. *)
CheckHealthBlindly ==
  /\ ping = "idle"
  /\ \/ /\ view.running
        /\ ping' = "asking"
        /\ UNCHANGED view
     \/ /\ ~view.running /\ Alive(pidFile)
        /\ view' = [view EXCEPT !.pid = pidFile, !.running = TRUE]
        /\ ping' = "asking"
     \/ /\ ~view.running /\ ~Alive(pidFile)
        /\ view' = [view EXCEPT !.healthy = FALSE]
        /\ UNCHANGED ping
  /\ UNCHANGED <<spawned, daemon, files, kids, sup, counts, asked, gaveUp, overlap>>

(* Fault: a daemon that is not known to run is not looked for. *)
CheckHealthOfKnown ==
  /\ ping = "idle"
  /\ \/ /\ view.running /\ Alive(view.pid)
        /\ ping' = "asking"
        /\ UNCHANGED view
     \/ /\ ~(view.running /\ Alive(view.pid))
        /\ view' = [view EXCEPT !.running = FALSE, !.healthy = FALSE]
        /\ UNCHANGED ping
  /\ UNCHANGED <<spawned, daemon, files, kids, sup, counts, asked, gaveUp, overlap>>

(* checkHealth, monitoring: find the daemon by its PID file if it is not   *)
(* known to run, see whether the process lives, and connect to its pipe.   *)
CheckHealth ==
  /\ ping = "idle"
  /\ \/ /\ view.running /\ Alive(view.pid)
        /\ ping' = "asking"
        /\ UNCHANGED view
     \/ /\ view.running /\ ~Alive(view.pid)
        /\ view' = [view EXCEPT !.running = FALSE, !.healthy = FALSE]
        /\ UNCHANGED ping
     \/ /\ ~view.running /\ Alive(pidFile)
        /\ view' = [view EXCEPT !.pid = pidFile, !.running = TRUE]
        /\ ping' = "asking"
     \/ /\ ~view.running /\ ~Alive(pidFile)
        /\ view' = [view EXCEPT !.healthy = FALSE]
        /\ UNCHANGED ping
  /\ UNCHANGED <<spawned, daemon, files, kids, sup, counts, asked, gaveUp, overlap>>

(* The status request is answered, or it fails ... *)
PingMeets ==
  /\ ping = "asking"
  /\ ping' = IF Answering THEN "answered" ELSE "failed"
  /\ UNCHANGED <<spawned, daemon, files, view, kids, sup, counts, asked, gaveUp, overlap>>

(* ... and checkHealth goes on with what it heard. *)
PingEnds ==
  /\ ping \in {"answered", "failed"}
  /\ view' = [view EXCEPT !.healthy = (ping = "answered")]
  /\ ping' = "idle"
  /\ UNCHANGED <<spawned, daemon, files, kids, sup, counts, asked, gaveUp, overlap>>

---------------------------------------------------------------------------
Init ==
  /\ spawned = 0
  /\ phase = [p \in Procs |-> "unborn"]
  /\ code = [p \in Procs |-> "none"]
  /\ sigterm = [p \in Procs |-> FALSE]
  /\ rebootDue = [p \in Procs |-> FALSE]
  /\ tries = [p \in Procs |-> 0]
  /\ ears = [p \in Procs |-> "closed"]
  /\ pidFile = None /\ pipe = None
  /\ view = [pid |-> None, running |-> FALSE, healthy |-> FALSE, crashes |-> 0,
             timers |-> 0]
  /\ kids = {} /\ ping = "idle"
  /\ sup = [s \in Sups |-> NoSup]
  /\ faults = 0 /\ asks = 0 /\ stops = 0
  /\ asked = None /\ gaveUp = FALSE /\ overlap = FALSE

DaemonStep(p) ==
  \/ Boot(p) \/ Probe(p) \/ Reclaim(p) \/ HandleSigterm(p) \/ Exit(p) \/ Reboot(p)

Misfortune(p) == BootFails(p) \/ UncaughtError(p) \/ RebootFails(p) \/ Kill(p)

SupStep(s) == SupHears(s) \/ SupRelaunches(s)

Next ==
  \/ \E p \in Procs : DaemonStep(p) \/ Misfortune(p) \/ ChildExits(p)
  \/ \E s \in Sups : UserStart(s) \/ SupStep(s) \/ SupLeaves(s)
  \/ UserStop \/ RestartDaemon \/ Relaunch
  \/ CheckHealth \/ PingMeets \/ PingEnds

(* What the processes do of themselves goes on; users, faults and the end *)
(* of the command `start` promise nothing.                                *)
Fairness ==
  /\ \A p \in Procs :
       /\ WF_vars(Boot(p)) /\ WF_vars(Probe(p)) /\ WF_vars(Reclaim(p))
       /\ WF_vars(HandleSigterm(p)) /\ WF_vars(Exit(p)) /\ WF_vars(Reboot(p))
       /\ WF_vars(ChildExits(p))
  /\ \A s \in Sups : WF_vars(SupHears(s)) /\ WF_vars(SupRelaunches(s))
  /\ WF_vars(Relaunch) /\ WF_vars(CheckHealth) /\ WF_vars(PingMeets)
  /\ WF_vars(PingEnds)

Spec == Init /\ [][Next]_vars /\ Fairness

---------------------------------------------------------------------------
(* The state has the shape the code gives it. *)
TypeOK ==
  /\ spawned \in 0 .. MaxProcs
  /\ phase \in [Procs -> Phases]
  /\ code \in [Procs -> {"none", "clean", "crash"}]
  /\ sigterm \in [Procs -> BOOLEAN] /\ rebootDue \in [Procs -> BOOLEAN]
  /\ tries \in [Procs -> 0 .. RestartLimit]
  /\ ears \in [Procs -> {"closed", "probing", "stale", "deaf", "open"}]
  /\ {pidFile, pipe, asked} \subseteq 0 .. spawned
  /\ view \in [pid : 0 .. spawned, running : BOOLEAN, healthy : BOOLEAN,
               crashes : Nat, timers : Nat]
  /\ kids \subseteq 1 .. spawned
  /\ ping \in {"idle", "asking", "answered", "failed"}
  /\ sup \in [Sups -> [child : 0 .. spawned, crashes : Nat, timer : BOOLEAN,
                      run : BOOLEAN]]
  /\ {faults, asks, stops} \subseteq Nat
  /\ gaveUp \in BOOLEAN /\ overlap \in BOOLEAN

(* A crash brings at most one new process, whoever saw it, and nothing but *)
(* a crash, `brain start` or restartDaemon brings any: the supervisors and *)
(* the watchdog do not relaunch what was stopped, and do not relaunch      *)
(* twice what both could have seen.                                        *)
EverySpawnHasACause ==
  spawned + view.timers + Cardinality({s \in Sups : sup[s].timer})
    <= Cardinality({s \in Sups : sup[s].run}) + asks
       + Cardinality({p \in Procs : code[p] = "crash"})

(* As long as no daemon was spawned next to a living one, `brain stop` can  *)
(* find the daemon that is up: it is in the PID file, unless somebody has   *)
(* already told it to stop, or a supervisor has given up: that removes the  *)
(* file of the daemon a user may have started before the exit was heard.    *)
LoneDaemonIsFound ==
  \A p \in Procs :
    phase[p] = "up" /\ ~sigterm[p] /\ ~overlap /\ ~gaveUp => pidFile = p

(* A process that got SIGTERM comes to its end, whatever it was doing: also *)
(* in the second between the two halves of its own restart.                 *)
SignalledDaemonsExit == \A p \in Procs : sigterm[p] ~> phase[p] = "dead"

(* When the last daemon is gone for good, the watchdog ends up saying so,   *)
(* although a health check under way may bring a dead daemon's answer.      *)
ViewForgetsTheDead ==
  <>[](\A p \in Procs : ~Alive(p)) => <>[](~view.running /\ ~view.healthy)

(* When a daemon stays up, in the PID file and on the pipe, the watchdog    *)
(* ends up seeing it running and healthy, whoever started it.               *)
ViewFindsTheLiving ==
  \A p \in Procs :
    <>[](phase[p] = "up" /\ ~sigterm[p] /\ pidFile = p /\ pipe = p /\ ears[p] = "open")
      => <>[](view.running /\ view.healthy)

(* "Restart a specific daemon.": the daemon runs again after restartDaemon. *)
RestartedDaemonsRun ==
  asked # None ~> \E p \in Procs : p # asked /\ phase[p] = "up"
=============================================================================
