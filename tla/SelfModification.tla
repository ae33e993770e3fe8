------------------------- MODULE SelfModification -------------------------
(***************************************************************************)
(* The self-modification engine (brain-core/src/self-modification) with    *)
(* its callers: step 40 of the orchestrator, the dashboards, the IPC       *)
(* router and CodeForge.                                                   *)
(*                                                                         *)
(* Two calls wait: generateCode for the API, testModification for the      *)
(* sandbox.  Everything else runs to its end with the event loop blocked   *)
(* (execSync, writeFileSync, better-sqlite3): such a stretch is a section. *)
(* No other call interleaves with a section, but the process can die       *)
(* between any two of its writes, so a section is taken write by write.    *)
(*                                                                         *)
(* The content of a file is the code of a modification or what the file    *)
(* held before any (Original; Empty if that was nothing; Absent if it did  *)
(* not exist).  projectRoot, the API key and the sandbox are configured,   *)
(* as brain.ts does.                                                       *)
(***************************************************************************)
EXTENDS Integers, Sequences, FiniteSets

CONSTANTS
  Mods,        \* modifications that may be proposed
  Files,       \* files of the working tree
  Diff,        \* the file blocks of each modification, in order
  Hollow,      \* blocks without content, as <<modification, file>>
  AtFirst,     \* what the files hold in the beginning
  Original,    \* content: as in the beginning, some text
  Empty,       \* content: as in the beginning, no text
  Absent,      \* content: there is no such file
  NoMod,       \* no modification
  MaxPerHour,  \* successful generations per hour (code: 3)
  MaxTests,    \* bound: tests of one modification that wait at a time
  MaxMishaps   \* bound: crashes and failed reads and writes

Contents == Mods \cup {Original, Empty, Absent}

ASSUME ContentAssumption ==
  /\ {Original, Empty, Absent} \cap Mods = {}
  /\ Original # Empty /\ Original # Absent /\ Empty # Absent
  /\ NoMod \notin Mods
ASSUME DiffAssumption ==
  /\ AtFirst \in [Files -> {Original, Empty, Absent}]
  /\ Hollow \subseteq Mods \X Files
  /\ Diff \in [Mods -> Seq(Files)]
  /\ \A m \in Mods : Diff[m] # <<>>
ASSUME LimitAssumption ==
  /\ MaxPerHour \in Nat
  /\ MaxTests \in Nat
  /\ MaxMishaps \in Nat

VARIABLES
  status,    \* self_modifications.status, "none" before the INSERT
  code,      \* modifications whose generated_diff is not empty
  rollback,  \* self_modifications.rollback_data, <<>> for NULL
  files,     \* the working tree
  gens,      \* calls of generateCode that wait for the API
  tests,     \* per modification, calls of testModification in the sandbox
  recent,    \* recentGenerations that are younger than an hour
  section,   \* the section that blocks the event loop
  mishaps,   \* crashes and failed reads and writes so far
  landed,    \* history: modifications an apply carried through
  torn       \* history: modifications a mishap may have left on disk

vars == <<status, code, rollback, files, gens, tests, recent, section,
          mishaps, landed, torn>>

Statuses == {"none", "proposed", "generating", "testing", "ready", "approved",
             "rejected", "applied", "rolled_back", "failed"}

Entry == [file : Files, old : Contents]

Section == [op      : {"idle", "test", "apply", "rollback", "recover", "down"},
            mod     : Mods \cup {NoMod},
            stage   : {"none", "write", "build", "restore"},
            pos     : Nat,
            saved   : Seq(Entry),
            verdict : Statuses]

(* An op without a modification: idle, down, or recovery between rows. *)
Between(op) == [op |-> op, mod |-> NoMod, stage |-> "none", pos |-> 0,
                saved |-> <<>>, verdict |-> "none"]

Free == section = Between("idle")

Stage(op, s) == section.op \in op /\ section.stage = s

Update(m, s) == status' = [status EXCEPT ![m] = s]

MishapHappens ==
  /\ mishaps < MaxMishaps
  /\ mishaps' = mishaps + 1

(* A file without text: '' when it is read. *)
Void(f, content) == content = Empty \/ <<content, f>> \in Hollow

(* What is saved of a file.  The code saves '' for a file that is not      *)
(* there, and so for one that is empty; going back to '' is to unlink.     *)
Read(f) == IF Void(f, files[f]) THEN Absent ELSE files[f]

---------------------------------------------------------------------------
(* Proposing and generating. *)

Pending == {m \in Mods : status[m] \in {"proposed", "ready"}}

(* selfmod.propose: the row waits for a generateCode that nobody calls. *)
Propose(m) ==
  /\ Free
  /\ status[m] = "none"
  /\ Update(m, "proposed")
  /\ UNCHANGED <<code, rollback, files, gens, tests, recent, section, mishaps, landed, torn>>

(* Step 40: propose when nothing is pending, then generateCode up to its   *)
(* await.  A "generating" row is not pending, and orchestrator.feedback    *)
(* starts a cycle while another one waits.                                 *)
Step40(m) ==
  /\ Free
  /\ status[m] = "none"
  /\ Pending = {}
  /\ IF recent < MaxPerHour
     THEN Update(m, "generating") /\ gens' = gens \cup {m}
     ELSE Update(m, "failed") /\ UNCHANGED gens
  /\ UNCHANGED <<code, rollback, files, tests, recent, section, mishaps, landed, torn>>

(* The answer holds code: status goes back to "proposed", whatever it has  *)
(* become meanwhile, and step 40 goes on in the same turn of the event     *)
(* loop with testModification up to the sandbox.                           *)
GenerateSucceeds(m) ==
  /\ Free
  /\ m \in gens
  /\ gens' = gens \ {m}
  /\ code' = code \cup {m}
  /\ recent' = recent + 1
  /\ Update(m, "testing")
  /\ tests' = [tests EXCEPT ![m] = @ + 1]
  /\ UNCHANGED <<rollback, files, section, mishaps, landed, torn>>

(* No answer, no file block, or too many changed lines; in the last case   *)
(* the diff is stored with the failure.                                    *)
GenerateFails(m, tooLong) ==
  /\ Free
  /\ m \in gens
  /\ gens' = gens \ {m}
  /\ code' = IF tooLong THEN code \cup {m} ELSE code
  /\ Update(m, "failed")
  /\ UNCHANGED <<rollback, files, tests, recent, section, mishaps, landed, torn>>

HourPasses ==
  /\ recent > 0
  /\ recent' = recent - 1
  /\ UNCHANGED <<status, code, rollback, files, gens, tests, section, mishaps, landed, torn>>

---------------------------------------------------------------------------
(* Calls that start from a dashboard or a route. *)

(* testModification up to the sandbox: any status will do. *)
StartTest(m) ==
  /\ Free
  /\ m \in code
  /\ tests[m] < MaxTests
  /\ Update(m, "testing")
  /\ tests' = [tests EXCEPT ![m] = @ + 1]
  /\ UNCHANGED <<code, rollback, files, gens, recent, section, mishaps, landed, torn>>

Reject(m) ==
  /\ Free
  /\ status[m] # "none"
  /\ Update(m, "rejected")
  /\ UNCHANGED <<code, rollback, files, gens, tests, recent, section, mishaps, landed, torn>>

(* An apply reads its originals first; unread: the blocks whose file could *)
(* not be read, which counts as a file that is not there.                  *)
Originals(m, unread) ==
  [i \in DOMAIN Diff[m] |->
     [file |-> Diff[m][i], old |-> IF i \in unread THEN Absent ELSE Read(Diff[m][i])]]

StartApply(m, unread) ==
  /\ section' = [op |-> "apply", mod |-> m, stage |-> "write", pos |-> 1,
                 saved |-> Originals(m, unread), verdict |-> "applied"]
  /\ IF unread = {} THEN UNCHANGED mishaps ELSE MishapHappens

(* approveModification, which applies in the same call. *)
Approve(m, unread) ==
  /\ Free
  /\ status[m] = "ready"
  /\ Update(m, "approved")
  /\ StartApply(m, unread)
  /\ UNCHANGED <<code, rollback, files, gens, tests, recent, landed, torn>>

(* applyModification by itself, as CodeForge.autoApplyProposal calls it. *)
AutoApply(m, unread) ==
  /\ Free
  /\ status[m] \in {"approved", "ready"}
  /\ m \in code
  /\ StartApply(m, unread)
  /\ UNCHANGED <<status, code, rollback, files, gens, tests, recent, landed, torn>>

RestoreSection(op, m, saved, verdict) ==
  [op |-> op, mod |-> m, stage |-> "restore", pos |-> 1, saved |-> saved,
   verdict |-> verdict]

Rollback(m) ==
  /\ Free
  /\ status[m] = "applied"
  /\ rollback[m] # <<>>
  /\ section' = RestoreSection("rollback", m, rollback[m], "rolled_back")
  /\ UNCHANGED <<status, code, rollback, files, gens, tests, recent, mishaps, landed, torn>>

(* The sandbox has answered for every file.  The rest of the call blocks   *)
(* the event loop.                                                         *)
SandboxAccepts(m) ==
  /\ Free
  /\ tests[m] > 0
  /\ tests' = [tests EXCEPT ![m] = @ - 1]
  /\ section' = [op |-> "test", mod |-> m, stage |-> "write", pos |-> 1,
                 saved |-> <<>>, verdict |-> "ready"]
  /\ UNCHANGED <<status, code, rollback, files, gens, recent, mishaps, landed, torn>>

SandboxRejects(m) ==
  /\ Free
  /\ tests[m] > 0
  /\ tests' = [tests EXCEPT ![m] = @ - 1]
  /\ Update(m, "failed")
  /\ UNCHANGED <<code, rollback, files, gens, recent, section, mishaps, landed, torn>>

---------------------------------------------------------------------------
(* The steps of a section. *)

(* Fault: the loop over the diff stops short of its last file. *)
MoreToWriteButOne == section.pos < Len(Diff[section.mod])

(* A section has files to write, in the order of the diff. *)
MoreToWrite == section.pos <= Len(Diff[section.mod])

Target == Diff[section.mod][section.pos]

(* Fault: a file that is not there is saved without saying so. *)
SavingUndefined(content) ==
  IF section.op = "test"
  THEN Append(section.saved,
              [file |-> Target, old |-> IF content = Absent THEN NoMod ELSE content])
  ELSE section.saved

(* A test saves each original just before it overwrites the file. *)
Saving(content) ==
  IF section.op = "test"
  THEN Append(section.saved, [file |-> Target, old |-> content])
  ELSE section.saved

Write(content) ==
  /\ Stage({"test", "apply"}, "write")
  /\ MoreToWrite
  /\ files' = [files EXCEPT ![Target] = section.mod]
  /\ section' = [section EXCEPT !.saved = Saving(content), !.pos = @ + 1]
  /\ UNCHANGED <<status, code, rollback, gens, tests, recent, landed, torn>>

WriteFile == Write(Read(Target)) /\ UNCHANGED mishaps

(* A test takes a file that it could not read for a new one and writes it. *)
WriteUnread == section.op = "test" /\ Write(Absent) /\ MishapHappens

(* The catch of testModification restores what was saved; applyModification *)
(* lets the error out, with the status and the files as they are.           *)
WriteFails ==
  /\ Stage({"test", "apply"}, "write")
  /\ MoreToWrite
  /\ MishapHappens
  /\ IF section.op = "test"
     THEN /\ \E content \in {Read(Target), Absent} :
               section' = RestoreSection("test", section.mod, Saving(content), "failed")
          /\ UNCHANGED torn
     ELSE /\ section' = Between("idle")
          /\ torn' = torn \cup {section.mod}
  /\ UNCHANGED <<status, code, rollback, files, gens, tests, recent, landed>>

AllWritten ==
  /\ Stage({"test", "apply"}, "write")
  /\ ~MoreToWrite
  /\ rollback' = IF section.op = "test"
                 THEN [rollback EXCEPT ![section.mod] = section.saved]
                 ELSE rollback
  /\ section' = [section EXCEPT !.stage = "build"]
  /\ UNCHANGED <<status, code, files, gens, tests, recent, mishaps, landed, torn>>

(* Build and tests pass.  A test takes its files back and waits for the    *)
(* approval; an apply is done.                                             *)
BuildPasses ==
  /\ Stage({"test", "apply"}, "build")
  /\ IF section.op = "test"
     THEN /\ section' = RestoreSection("test", section.mod, section.saved, "ready")
          /\ UNCHANGED <<status, rollback, landed>>
     ELSE /\ Update(section.mod, "applied")
          /\ rollback' = [rollback EXCEPT ![section.mod] = section.saved]
          /\ landed' = landed \cup {section.mod}
          /\ section' = Between("idle")
  /\ UNCHANGED <<code, files, gens, tests, recent, mishaps, torn>>

(* Fault: a failed apply keeps its files. *)
BuildFailsUnreverted ==
  /\ Stage({"test", "apply"}, "build")
  /\ section' = RestoreSection(section.op, section.mod,
                  IF section.op = "test" THEN section.saved ELSE <<>>, "failed")
  /\ UNCHANGED <<status, code, rollback, files, gens, tests, recent, mishaps, landed, torn>>

BuildFails ==
  /\ Stage({"test", "apply"}, "build")
  /\ section' = RestoreSection(section.op, section.mod, section.saved, "failed")
  /\ UNCHANGED <<status, code, rollback, files, gens, tests, recent, mishaps, landed, torn>>

(* restoreFiles, entry by entry; one that was saved as '' is unlinked. *)
RestoreFile ==
  /\ section.stage = "restore"
  /\ section.pos <= Len(section.saved)
  /\ LET entry == section.saved[section.pos]
     IN files' = [files EXCEPT ![entry.file] = entry.old]
  /\ section' = [section EXCEPT !.pos = @ + 1]
  /\ UNCHANGED <<status, code, rollback, gens, tests, recent, mishaps, landed, torn>>

(* restoreFiles logs an error and goes on with the next file. *)
RestoreFails ==
  /\ section.stage = "restore"
  /\ section.pos <= Len(section.saved)
  /\ MishapHappens
  /\ torn' = torn \cup {section.mod}
  /\ section' = [section EXCEPT !.saved = SubSeq(@, 1, section.pos - 1) \o
                                          SubSeq(@, section.pos + 1, Len(@))]
  /\ UNCHANGED <<status, code, rollback, files, gens, tests, recent, landed>>

(* The verdict ends the section; recovery goes on with the next row. *)
Restored ==
  /\ section.stage = "restore"
  /\ section.pos > Len(section.saved)
  /\ Update(section.mod, section.verdict)
  /\ section' = Between(IF section.op = "recover" THEN "recover" ELSE "idle")
  /\ UNCHANGED <<code, rollback, files, gens, tests, recent, mishaps, landed, torn>>

---------------------------------------------------------------------------
(* Crash and restart. *)

(* Waiting calls and recentGenerations live in the process.  Recovery will *)
(* take back no apply, and a test only if its row is still in "testing"    *)
(* (a rejection, or the verdict of an earlier test, overwrites that while  *)
(* the call waits for the sandbox) and holds rollback data.                *)
Unsafe ==
  \/ section.op = "apply"
  \/ /\ section.op = "test"
     /\ status[section.mod] # "testing" \/ rollback[section.mod] = <<>>

Crash ==
  /\ section.op # "down"
  /\ MishapHappens
  /\ torn' = IF Unsafe THEN torn \cup {section.mod} ELSE torn
  /\ section' = Between("down")
  /\ gens' = {}
  /\ tests' = [m \in Mods |-> 0]
  /\ recent' = 0
  /\ UNCHANGED <<status, code, rollback, files, landed>>

Restart ==
  /\ section = Between("down")
  /\ section' = Between("recover")
  /\ UNCHANGED <<status, code, rollback, files, gens, tests, recent, mishaps, landed, torn>>

(* Fault: only rows that have something to restore. *)
StuckWithData(m) == status[m] = "testing" /\ rollback[m] # <<>>

Stuck(m) == status[m] = "testing"

(* recoverFromCrash: one stuck row, then the next. *)
Recover(m) ==
  /\ section = Between("recover")
  /\ Stuck(m)
  /\ section' = RestoreSection("recover", m, rollback[m], "failed")
  /\ UNCHANGED <<status, code, rollback, files, gens, tests, recent, mishaps, landed, torn>>

Recovered ==
  /\ section = Between("recover")
  /\ \A m \in Mods : ~Stuck(m)
  /\ section' = Between("idle")
  /\ UNCHANGED <<status, code, rollback, files, gens, tests, recent, mishaps, landed, torn>>

---------------------------------------------------------------------------
Init ==
  /\ status = [m \in Mods |-> "none"]
  /\ code = {}
  /\ rollback = [m \in Mods |-> <<>>]
  /\ files = AtFirst
  /\ gens = {}
  /\ tests = [m \in Mods |-> 0]
  /\ recent = 0
  /\ section = Between("idle")
  /\ mishaps = 0
  /\ landed = {}
  /\ torn = {}

Answer(m) == SandboxAccepts(m) \/ SandboxRejects(m)

ModStep(m) ==
  \/ Propose(m) \/ Step40(m)
  \/ GenerateSucceeds(m)
  \/ \E tooLong \in BOOLEAN : GenerateFails(m, tooLong)
  \/ StartTest(m) \/ Answer(m)
  \/ Reject(m) \/ Rollback(m)
  \/ \E unread \in SUBSET DOMAIN Diff[m] : Approve(m, unread) \/ AutoApply(m, unread)

SectionStep ==
  \/ WriteFile \/ AllWritten
  \/ BuildPasses \/ BuildFails
  \/ RestoreFile \/ Restored
  \/ \E m \in Mods : Recover(m)
  \/ Recovered

Mishap == WriteUnread \/ WriteFails \/ RestoreFails \/ Crash

Next ==
  \/ \E m \in Mods : ModStep(m)
  \/ SectionStep
  \/ Mishap
  \/ HourPasses
  \/ Restart

(* A section goes on, execSync and the sandbox have timeouts, the event    *)
(* loop serves its callbacks in turn, and a dead daemon is started again.  *)
Fairness ==
  /\ WF_vars(SectionStep)
  /\ WF_vars(Restart)
  /\ \A m \in Mods : SF_vars(Answer(m))

Spec == Init /\ [][Next]_vars /\ Fairness

---------------------------------------------------------------------------
(* The rows, the tree, the waiting calls and the section are those the     *)
(* code can hold.                                                          *)
TypeOK ==
  /\ status \in [Mods -> Statuses]
  /\ code \subseteq Mods
  /\ rollback \in [Mods -> Seq(Entry)]
  /\ files \in [Files -> Contents]
  /\ gens \subseteq Mods
  /\ tests \in [Mods -> Nat]
  /\ recent \in Nat
  /\ section \in Section
  /\ mishaps \in 0..MaxMishaps
  /\ landed \subseteq Mods /\ torn \subseteq Mods

(* A response may hold two blocks for one file; restoreFiles then ends     *)
(* with the first block's code.                                            *)
Repeats(m) == \E i, j \in DOMAIN Diff[m] : i # j /\ Diff[m][i] = Diff[m][j]

Excused == landed \cup torn \cup {m \in Mods : Repeats(m)}

(* Between sections, generated code is on disk only if an apply carried it *)
(* through, or one of the mishaps that nothing repairs put it there: a     *)
(* crash in an apply, a failed write in an apply, a failed restore, or a   *)
(* crash in a test that recovery cannot see (its rollback data not stored  *)
(* yet, or its status overwritten).  Any other crash in a test, and a      *)
(* failed read or write in a test, leave no code.                          *)
CodeOnDiskIsExplained ==
  Free => \A f \in Files : files[f] \in {Original, Empty, Absent} \cup Excused

(* No row is stuck in "testing" while the daemon serves: there is a call   *)
(* that will end it.  Recovery must therefore find every row the crash     *)
(* left, whether or not it got as far as storing rollback data.            *)
TestingHasOwner ==
  \A m \in Mods : status[m] = "testing" =>
    \/ tests[m] > 0
    \/ section.op = "test" /\ section.mod = m
    \/ section.op \in {"down", "recover"}

(* The tree as it will be once the section has put everything back. *)
TreeOf ==
  [f \in Files |->
     LET hits == {i \in DOMAIN section.saved : section.saved[i].file = f}
     IN IF hits = {} THEN files[f] ELSE section.saved[CHOOSE i \in hits : TRUE].old]

BaseOf ==
  [m \in Mods |->
     [f \in {rollback[m][i].file : i \in DOMAIN rollback[m]} |->
        rollback[m][CHOOSE i \in DOMAIN rollback[m] : rollback[m][i].file = f].old]]

Abstract ==
  INSTANCE PatchedTree WITH
    tree <- TreeOf, base <- BaseOf,
    Voids <- {v \in Files \X Contents : Void(v[1], v[2])},
    Touches <- [m \in Mods |-> {Diff[m][i] : i \in DOMAIN Diff[m]}]

(* Seen from outside its sections, the engine patches whole modifications: *)
(* an apply lands all files of a modification at once, a rollback goes     *)
(* back to the last snapshot, and tests and failed applies are invisible,  *)
(* but for files without text, which they delete.                          *)
ImplementsPatchedTree == Abstract!Spec

(* A test ends: not even a crash leaves a modification in "testing".       *)
TestEnds == \A m \in Mods : status[m] = "testing" ~> status[m] # "testing"

(* self-modification-engine.ts:204 says of crash recovery "if any          *)
(* modification is stuck in 'testing', restore rollback": once the daemon  *)
(* is up again, no code is left on disk that was only being tested.        *)
CrashedTestIsUndone ==
  [][section = Between("recover") /\ Free' =>
       \A f \in Files, m \in Mods : files'[f] = m => status'[m] # "failed"]_vars

(* self-modification-engine.ts:695 says "Rollback an applied               *)
(* modification": afterwards its code is gone from its files.              *)
RollbackRemovesCode ==
  [][\A m \in Mods : status[m] = "applied" /\ status'[m] = "rolled_back" =>
       \A i \in DOMAIN Diff[m] : files'[Diff[m][i]] # m]_vars
===========================================================================
