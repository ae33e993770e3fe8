---------------------- MODULE SelfModificationProofs ----------------------
(***************************************************************************)
(* Proofs about SelfModification for every set of modifications and files, *)
(* every diff (repeated blocks included) and every number of crashes and   *)
(* failed reads and writes; and for diffs without repeated blocks, that it *)
(* implements PatchedTree.                                                 *)
(***************************************************************************)
EXTENDS SelfModification, SequenceTheorems, TLAPS

---------------------------------------------------------------------------
(* The strengthening. *)

CodeFiles(m) == {Diff[m][i] : i \in DOMAIN Diff[m]}

Cover(s) == {s[i].file : i \in DOMAIN s}

SafeContents == {Original, Empty, Absent} \cup Excused

SafeSaved(s) == \A i \in DOMAIN s : s[i].old \in SafeContents

(* Which fields of a section go together. *)
SectionShape ==
  \/ section = Between("idle") \/ section = Between("down")
  \/ section = Between("recover")
  \/ /\ section.mod \in Mods
     /\ section.pos >= 1
     /\ section.verdict # "testing"
     /\ \/ section.op \in {"test", "apply"} /\ section.stage \in {"write", "build"}
        \/ section.op \in {"test", "apply", "rollback", "recover"} /\ section.stage = "restore"

(* A snapshot in a row covers the modification and is safe to go back to. *)
SnapshotsWhole ==
  \A m \in Mods : /\ rollback[m] = <<>> \/ Cover(rollback[m]) = CodeFiles(m)
                  /\ SafeSaved(rollback[m])

(* What a section has saved is safe to go back to.  A test saves as it     *)
(* goes, an apply all at once.                                             *)
SavedSoFar ==
  /\ SafeSaved(section.saved)
  /\ section.op = "test" => Cover(section.saved) \subseteq CodeFiles(section.mod)
  /\ section.stage = "build" => Cover(section.saved) = CodeFiles(section.mod)
  /\ section.stage = "write" /\ section.op = "apply" =>
       Cover(section.saved) = CodeFiles(section.mod)
  /\ section.stage = "write" /\ section.op = "test" =>
       /\ Len(section.saved) = section.pos - 1
       /\ Len(section.saved) <= Len(Diff[section.mod])
       /\ \A i \in DOMAIN section.saved : section.saved[i].file = Diff[section.mod][i]

(* A file of the section that restoreFiles has still to come to. *)
StillToRestore(f) ==
  \E i \in DOMAIN section.saved :
    section.saved[i].file = f /\ (section.stage = "restore" => i >= section.pos)

(* A file that holds code which nothing explains yet will be put back, by  *)
(* the section or, after a crash, by recovery.                             *)
WillBeUndone(f) ==
  \/ /\ section.op \in {"test", "apply"}
     /\ files[f] = section.mod
     /\ StillToRestore(f)
  \/ /\ section.op \in {"down", "recover"}
     /\ files[f] \in Mods
     /\ status[files[f]] = "testing"
     /\ f \in Cover(rollback[files[f]])
     /\ files[f] = section.mod => StillToRestore(f)

FilesSafeOrUndone == \A f \in Files : files[f] \in SafeContents \/ WillBeUndone(f)

TreeInv ==
  /\ SectionShape
  /\ SnapshotsWhole
  /\ SavedSoFar
  /\ FilesSafeOrUndone

IInv == TypeOK /\ TestingHasOwner /\ TreeInv

---------------------------------------------------------------------------
(* Sequences of saved files. *)

(* A section between two stretches of work is well formed. *)
LEMMA BetweenType ==
  ASSUME NEW op \in {"idle", "test", "apply", "rollback", "recover", "down"}
  PROVE  Between(op) \in Section
<1>1. <<>> \in Seq(Entry) BY EmptySeq
<1> QED BY <1>1 DEF Between, Section, Statuses

(* The diff of a modification names files. *)
LEMMA DiffType ==
  ASSUME NEW m \in Mods
  PROVE  /\ Diff[m] \in Seq(Files)
         /\ Len(Diff[m]) \in Nat
         /\ DOMAIN Diff[m] = 1..Len(Diff[m])
         /\ \A i \in DOMAIN Diff[m] : Diff[m][i] \in Files
<1>1. Diff[m] \in Seq(Files) BY DiffAssumption
<1> QED BY <1>1, LenProperties, ElementOfSeq

(* A file is saved as it is or as absent, and both are contents. *)
LEMMA ReadType ==
  ASSUME NEW f \in Files, TypeOK
  PROVE  Read(f) \in Contents /\ Absent \in Contents /\ Read(f) \in {files[f], Absent}
BY DEF TypeOK, Read, Contents

(* The originals of an apply are entries, one per block of the diff. *)
LEMMA OriginalsType ==
  ASSUME NEW m \in Mods, NEW unread, TypeOK
  PROVE  /\ Originals(m, unread) \in Seq(Entry)
         /\ Cover(Originals(m, unread)) = CodeFiles(m)
         /\ DOMAIN Originals(m, unread) = DOMAIN Diff[m]
         /\ \A i \in DOMAIN Diff[m] :
              /\ Originals(m, unread)[i].file = Diff[m][i]
              /\ Originals(m, unread)[i].old \in {files[Diff[m][i]], Absent}
              /\ i \notin unread => Originals(m, unread)[i].old = Read(Diff[m][i])
<1> DEFINE old(i) == IF i \in unread THEN Absent ELSE Read(Diff[m][i])
<1>1. /\ Len(Diff[m]) \in Nat
      /\ DOMAIN Diff[m] = 1..Len(Diff[m])
      /\ \A i \in DOMAIN Diff[m] : Diff[m][i] \in Files
  BY DiffType
<1>o. \A i \in DOMAIN Diff[m] :
        old(i) \in Contents /\ old(i) \in {files[Diff[m][i]], Absent}
  BY <1>1, ReadType
<1>5. /\ Originals(m, unread) =
           [i \in DOMAIN Diff[m] |-> [file |-> Diff[m][i], old |-> old(i)]]
      /\ DOMAIN Originals(m, unread) = DOMAIN Diff[m]
      /\ \A i \in DOMAIN Diff[m] : /\ Originals(m, unread)[i].file = Diff[m][i]
                                   /\ Originals(m, unread)[i].old = old(i)
  BY DEF Originals
<1>6. \A i \in DOMAIN Diff[m] : i \notin unread => old(i) = Read(Diff[m][i])
  OBVIOUS
<1> HIDE DEF old
<1>2. \A i \in DOMAIN Diff[m] : [file |-> Diff[m][i], old |-> old(i)] \in Entry
  BY <1>1, <1>o DEF Entry
<1>3. Originals(m, unread) \in [1..Len(Diff[m]) -> Entry]
  BY <1>1, <1>2, <1>5
<1>4. Originals(m, unread) \in Seq(Entry) BY <1>1, <1>3, SeqDef
<1> QED BY <1>4, <1>5, <1>6, <1>o DEF Cover, CodeFiles

(* What RestoreFails leaves is made of the entries that were there, in *)
(* their order, without the p-th.                                      *)
LEMMA WithoutEntry ==
  ASSUME NEW s \in Seq(Entry), NEW p \in Nat, p >= 1, p <= Len(s)
  PROVE  LET t == SubSeq(s, 1, p - 1) \o SubSeq(s, p + 1, Len(s))
         IN  /\ t \in Seq(Entry)
             /\ \A i \in DOMAIN t : \E j \in DOMAIN s : t[i] = s[j]
             /\ DOMAIN t = 1..(Len(s) - 1)
             /\ \A i \in DOMAIN t : t[i] = s[IF i < p THEN i ELSE i + 1]
<1> DEFINE a == SubSeq(s, 1, p - 1)
           b == SubSeq(s, p + 1, Len(s))
           t == a \o b
<1>1. Len(s) \in Nat /\ DOMAIN s = 1..Len(s) BY LenProperties
<1>e. \A i \in 1..Len(s) : s[i] \in Entry BY <1>1, ElementOfSeq
<1>2. /\ a \in Seq(Entry)
      /\ Len(a) = p - 1
      /\ \A i \in 1..(p - 1) : a[i] = s[i]
  <2>1. \A i \in 1..(p - 1) : s[i] \in Entry BY <1>1, <1>e
  <2> QED BY <1>1, <2>1, SubSeqProperties
<1>3. /\ b \in Seq(Entry)
      /\ Len(b) = Len(s) - p
      /\ \A i \in 1..(Len(s) - p) : b[i] = s[p + i]
  <2>1. \A i \in (p + 1)..Len(s) : s[i] \in Entry BY <1>1, <1>e
  <2>2. /\ b \in Seq(Entry)
        /\ Len(b) = IF p + 1 <= Len(s) THEN Len(s) - (p + 1) + 1 ELSE 0
        /\ \A i \in 1..(Len(s) - (p + 1) + 1) : b[i] = s[(p + 1) + i - 1]
    BY <1>1, <2>1, SubSeqProperties
  <2> HIDE DEF b
  <2>3. Len(b) = Len(s) - p
    <3>1. CASE p + 1 <= Len(s) BY <1>1, <2>2, <3>1
    <3>2. CASE ~(p + 1 <= Len(s))
      <4>0. Len(s) \in Nat /\ p \in Nat /\ p <= Len(s) BY <1>1
      <4>1. Len(s) = p BY ONLY <4>0, <3>2
      <4>2. Len(b) = 0 BY <2>2, <3>2
      <4> QED BY <4>1, <4>2
    <3> QED BY <3>1, <3>2
  <2>4. ASSUME NEW i \in 1..(Len(s) - p) PROVE b[i] = s[p + i]
    <3>1. i \in 1..(Len(s) - (p + 1) + 1) BY <1>1
    <3>2. (p + 1) + i - 1 = p + i BY <1>1
    <3> QED BY <2>2, <3>1, <3>2
  <2> QED BY <2>2, <2>3, <2>4
<1>4. /\ t \in Seq(Entry)
      /\ Len(t) = Len(s) - 1
      /\ \A i \in 1..Len(t) : t[i] = IF i <= Len(a) THEN a[i] ELSE b[i - Len(a)]
  <2> HIDE DEF a, b
  <2>1. /\ t \in Seq(Entry)
        /\ Len(t) = Len(a) + Len(b)
        /\ \A i \in 1..(Len(a) + Len(b)) :
              t[i] = IF i <= Len(a) THEN a[i] ELSE b[i - Len(a)]
    BY <1>2, <1>3, ConcatProperties
  <2> HIDE DEF t
  <2> QED BY <1>1, <1>2, <1>3, <2>1
<1>5. DOMAIN t = 1..Len(t) BY <1>4, LenProperties
<1> HIDE DEF a, b, t
<1>6. ASSUME NEW i \in DOMAIN t
      PROVE  /\ t[i] = s[IF i < p THEN i ELSE i + 1]
             /\ \E j \in DOMAIN s : t[i] = s[j]
  <2>1. CASE i < p
    <3>1. t[i] = s[i] /\ i \in DOMAIN s BY <1>1, <1>2, <1>4, <1>5, <2>1
    <3> QED BY <2>1, <3>1
  <2>2. CASE ~(i < p)
    <3>1. i \in 1..(Len(s) - 1) BY <1>4, <1>5
    <3>2. t[i] = b[i - (p - 1)] /\ i - (p - 1) \in 1..(Len(s) - p)
      BY <1>1, <1>2, <1>4, <1>5, <2>2, <3>1
    <3>3. t[i] = s[p + (i - (p - 1))] BY <1>3, <3>2
    <3>4. p + (i - (p - 1)) \in DOMAIN s BY <1>1, <3>2
    <3>5. p + (i - (p - 1)) = i + 1 BY <3>1
    <3> QED BY <2>2, <3>3, <3>4, <3>5
  <2> QED BY <2>1, <2>2
<1>7. DOMAIN t = 1..(Len(s) - 1) BY <1>4, <1>5
<1> QED BY <1>4, <1>6, <1>7 DEF a, b, t

---------------------------------------------------------------------------
(* Types. *)

(* Every action keeps the types, once it is known which fields of a        *)
(* section go together.                                                    *)
LEMMA TypeStep ==
  ASSUME TypeOK, SectionShape, [Next]_vars
  PROVE  TypeOK'
<1> USE DEF TypeOK
<1>b. \A op \in {"idle", "test", "apply", "rollback", "recover", "down"} :
        Between(op) \in Section
  BY BetweenType
<1>n. <<>> \in Seq(Entry) BY EmptySeq
<1>w. ASSUME Stage({"test", "apply"}, "write")
      PROVE  section.mod \in Mods /\ section.pos >= 1
  BY <1>w DEF Stage, SectionShape, Between
<1>u. ASSUME Stage({"test", "apply"}, "build")
      PROVE  section.mod \in Mods
  BY <1>u DEF Stage, SectionShape, Between
<1>r. ASSUME section.stage = "restore"
      PROVE  section.mod \in Mods /\ section.pos >= 1
  BY <1>r DEF SectionShape, Between
<1>s. /\ section.pos \in Nat /\ section.saved \in Seq(Entry)
      /\ section.verdict \in Statuses
  BY DEF Section
<1>l. Len(section.saved) \in Nat /\ DOMAIN section.saved = 1..Len(section.saved)
  BY <1>s, LenProperties
<1>t. ASSUME Stage({"test", "apply"}, "write"), MoreToWrite
      PROVE  Target \in Files
  BY <1>t, <1>w, <1>s, DiffType DEF Target, MoreToWrite
<1>v. ASSUME Stage({"test", "apply"}, "write"), MoreToWrite,
             NEW content \in {Read(Target), Absent}
      PROVE  Saving(content) \in Seq(Entry)
  <2>1. Target \in Files BY <1>t, <1>v
  <2>2. [file |-> Target, old |-> content] \in Entry BY <2>1, ReadType DEF Entry
  <2>3. Append(section.saved, [file |-> Target, old |-> content]) \in Seq(Entry)
    BY <1>s, <2>2, AppendProperties
  <2> QED BY <1>s, <2>3 DEF Saving
<1>h. MishapHappens => mishaps' \in 0..MaxMishaps
  BY LimitAssumption DEF MishapHappens
<1>R. ASSUME NEW op \in {"test", "apply", "rollback", "recover"}, NEW m \in Mods,
             NEW s \in Seq(Entry), NEW v \in Statuses
      PROVE  RestoreSection(op, m, s, v) \in Section
  BY DEF RestoreSection, Section
<1>1. ASSUME NEW m \in Mods, Propose(m) PROVE TypeOK'
  BY <1>1 DEF Propose, Update, Statuses
<1>2. ASSUME NEW m \in Mods, Step40(m) PROVE TypeOK'
  BY <1>2 DEF Step40, Update, Statuses
<1>3. ASSUME NEW m \in Mods, GenerateSucceeds(m) PROVE TypeOK'
  BY <1>3 DEF GenerateSucceeds, Update, Statuses
<1>4. ASSUME NEW m \in Mods, NEW tooLong \in BOOLEAN, GenerateFails(m, tooLong) PROVE TypeOK'
  BY <1>4 DEF GenerateFails, Update, Statuses
<1>5. ASSUME NEW m \in Mods, StartTest(m) PROVE TypeOK'
  BY <1>5 DEF StartTest, Update, Statuses
<1>6. ASSUME NEW m \in Mods, Reject(m) PROVE TypeOK'
  BY <1>6 DEF Reject, Update, Statuses
<1>a. ASSUME NEW m \in Mods, NEW unread, StartApply(m, unread)
      PROVE  section' \in Section /\ mishaps' \in 0..MaxMishaps
  <2>1. Originals(m, unread) \in Seq(Entry) BY OriginalsType
  <2>2. mishaps' \in 0..MaxMishaps BY <1>a, <1>h DEF StartApply
  <2> HIDE DEF TypeOK
  <2> QED BY <1>a, <2>1, <2>2 DEF StartApply, Section, Statuses
<1>7. ASSUME NEW m \in Mods, NEW unread, Approve(m, unread) PROVE TypeOK'
  BY <1>7, <1>a DEF Approve, Update, Statuses
<1>8. ASSUME NEW m \in Mods, NEW unread, AutoApply(m, unread) PROVE TypeOK'
  BY <1>8, <1>a DEF AutoApply
<1>9. ASSUME NEW m \in Mods, Rollback(m) PROVE TypeOK'
  BY <1>9, <1>R DEF Rollback, Statuses
<1>10. ASSUME NEW m \in Mods, SandboxAccepts(m) PROVE TypeOK'
  <2>1. section' \in Section BY <1>10, <1>n DEF SandboxAccepts, Section, Statuses
  <2> QED BY <1>10, <2>1 DEF SandboxAccepts
<1>11. ASSUME NEW m \in Mods, SandboxRejects(m) PROVE TypeOK'
  BY <1>11 DEF SandboxRejects, Update, Statuses
<1>12. ASSUME NEW content \in {Read(Target), Absent}, Write(content),
              mishaps' \in 0..MaxMishaps
       PROVE  TypeOK'
  <2>1. section' \in Section
    <3>1. Saving(content) \in Seq(Entry) BY <1>12, <1>v DEF Write
    <3>2. section.pos + 1 \in Nat BY <1>s
    <3>3. section' = [section EXCEPT !.saved = Saving(content), !.pos = section.pos + 1]
      BY <1>12 DEF Write
    <3> QED BY <3>1, <3>2, <3>3 DEF Section
  <2>2. files' \in [Files -> Contents]
    BY <1>12, <1>t, <1>w DEF Write, Contents
  <2> QED BY <1>12, <2>1, <2>2 DEF Write
<1>26. CASE WriteFile BY <1>12, <1>26 DEF WriteFile
<1>27. CASE WriteUnread BY <1>12, <1>27, <1>h DEF WriteUnread
<1>13. CASE WriteFails
  <2>1. section' \in Section
    <3>1. CASE section.op = "test"
      <4>1. PICK content \in {Read(Target), Absent} :
              section' = RestoreSection("test", section.mod, Saving(content), "failed")
        BY <1>13, <3>1 DEF WriteFails
      <4>2. Saving(content) \in Seq(Entry) BY <1>13, <1>v DEF WriteFails
      <4> QED BY <1>13, <1>R, <1>w, <4>1, <4>2 DEF WriteFails, Statuses
    <3>2. CASE section.op # "test" BY <1>13, <1>b, <3>2 DEF WriteFails
    <3> QED BY <3>1, <3>2
  <2>2. mishaps' \in 0..MaxMishaps BY <1>13, <1>h DEF WriteFails
  <2>3. torn' \subseteq Mods BY <1>13, <1>w DEF WriteFails
  <2> QED BY <1>13, <2>1, <2>2, <2>3 DEF WriteFails
<1>14. CASE AllWritten
  <2>1. section' \in Section BY <1>14 DEF AllWritten, Section
  <2>2. rollback' \in [Mods -> Seq(Entry)] BY <1>14, <1>s DEF AllWritten
  <2> QED BY <1>14, <2>1, <2>2 DEF AllWritten
<1>15. CASE BuildPasses
  <2>1. section' \in Section
    BY <1>15, <1>b, <1>R, <1>s, <1>u DEF BuildPasses, Statuses
  <2>2. rollback' \in [Mods -> Seq(Entry)] BY <1>15, <1>s DEF BuildPasses
  <2>3. status' \in [Mods -> Statuses] BY <1>15 DEF BuildPasses, Update, Statuses
  <2>4. landed' \subseteq Mods BY <1>15, <1>u DEF BuildPasses
  <2> QED BY <1>15, <2>1, <2>2, <2>3, <2>4 DEF BuildPasses
<1>16. CASE BuildFails
  <2>1. section' \in Section
    BY <1>16, <1>R, <1>s, <1>u DEF BuildFails, Statuses, Stage
  <2> QED BY <1>16, <2>1 DEF BuildFails
<1>17. CASE RestoreFile
  <2>1. section.saved[section.pos] \in Entry
    BY <1>17, <1>l, <1>r, <1>s, ElementOfSeq DEF RestoreFile
  <2>2. files' \in [Files -> Contents] BY <1>17, <2>1 DEF RestoreFile, Entry
  <2>3. section' \in Section
    <3>1. section.pos + 1 \in Nat BY <1>s
    <3>2. section' = [section EXCEPT !.pos = section.pos + 1] BY <1>17 DEF RestoreFile
    <3> QED BY <3>1, <3>2 DEF Section
  <2> QED BY <1>17, <2>2, <2>3 DEF RestoreFile
<1>18. CASE RestoreFails
  <2>1. section'.saved \in Seq(Entry) /\ section' \in Section
    <3> DEFINE t == SubSeq(section.saved, 1, section.pos - 1) \o
                    SubSeq(section.saved, section.pos + 1, Len(section.saved))
    <3>1. t \in Seq(Entry) BY <1>18, <1>r, <1>s, WithoutEntry DEF RestoreFails
    <3>2. section' = [section EXCEPT !.saved = t] BY <1>18 DEF RestoreFails
    <3> HIDE DEF t
    <3> QED BY <3>1, <3>2 DEF Section
  <2>2. mishaps' \in 0..MaxMishaps BY <1>18, <1>h DEF RestoreFails
  <2>3. torn' \subseteq Mods BY <1>18, <1>r DEF RestoreFails
  <2> QED BY <1>18, <2>1, <2>2, <2>3 DEF RestoreFails
<1>19. CASE Restored
  <2>1. status' \in [Mods -> Statuses] BY <1>19, <1>s DEF Restored, Update
  <2> QED BY <1>19, <1>b, <2>1 DEF Restored
<1>20. CASE Crash
  <2>1. Unsafe => section.mod \in Mods
    BY DEF Unsafe, SectionShape, Between
  <2>2. mishaps' \in 0..MaxMishaps BY <1>20, <1>h DEF Crash
  <2>3. torn' \subseteq Mods BY <1>20, <2>1 DEF Crash
  <2> QED BY <1>20, <1>b, <2>2, <2>3 DEF Crash
<1>21. CASE Restart BY <1>21, <1>b DEF Restart
<1>22. ASSUME NEW m \in Mods, Recover(m) PROVE TypeOK'
  BY <1>22, <1>R DEF Recover, Statuses
<1>23. CASE Recovered BY <1>23, <1>b DEF Recovered
<1>24. CASE HourPasses BY <1>24 DEF HourPasses
<1>25. CASE UNCHANGED vars BY <1>25 DEF vars
<1> HIDE DEF TypeOK
<1> QED
  BY <1>1, <1>2, <1>3, <1>4, <1>5, <1>6, <1>7, <1>8, <1>9, <1>10, <1>11, <1>12,
     <1>13, <1>14, <1>15, <1>16, <1>17, <1>18, <1>19, <1>20, <1>21, <1>22,
     <1>23, <1>24, <1>25, <1>26, <1>27
  DEF Next, ModStep, Answer, SectionStep, Mishap

---------------------------------------------------------------------------
(* No row is stuck while the daemon serves. *)

(* Every action that takes a test's call away ends its row, or hands it to *)
(* the section or to recovery.                                             *)
LEMMA OwnerStep ==
  ASSUME TypeOK, SectionShape, TestingHasOwner, [Next]_vars
  PROVE  TestingHasOwner'
<1> USE DEF TestingHasOwner, TypeOK
<1>f. ASSUME Free PROVE \A k \in Mods : status[k] = "testing" => tests[k] > 0
  BY <1>f DEF Free, Between
<1>1. ASSUME NEW m \in Mods, Propose(m) PROVE TestingHasOwner'
  BY <1>1, <1>f DEF Propose, Update
<1>2. ASSUME NEW m \in Mods, Step40(m) PROVE TestingHasOwner'
  BY <1>2, <1>f DEF Step40, Update
<1>3. ASSUME NEW m \in Mods, GenerateSucceeds(m) PROVE TestingHasOwner'
  BY <1>3, <1>f DEF GenerateSucceeds, Update
<1>4. ASSUME NEW m \in Mods, NEW tooLong \in BOOLEAN, GenerateFails(m, tooLong)
      PROVE  TestingHasOwner'
  BY <1>4, <1>f DEF GenerateFails, Update
<1>5. ASSUME NEW m \in Mods, StartTest(m) PROVE TestingHasOwner'
  BY <1>5, <1>f DEF StartTest, Update
<1>6. ASSUME NEW m \in Mods, Reject(m) PROVE TestingHasOwner'
  BY <1>6, <1>f DEF Reject, Update
<1>7. ASSUME NEW m \in Mods, NEW unread, Approve(m, unread) PROVE TestingHasOwner'
  BY <1>7, <1>f DEF Approve, Update
<1>8. ASSUME NEW m \in Mods, NEW unread, AutoApply(m, unread) PROVE TestingHasOwner'
  BY <1>8, <1>f DEF AutoApply
<1>9. ASSUME NEW m \in Mods, Rollback(m) PROVE TestingHasOwner'
  BY <1>9, <1>f DEF Rollback
<1>10. ASSUME NEW m \in Mods, SandboxAccepts(m) PROVE TestingHasOwner'
  BY <1>10, <1>f DEF SandboxAccepts
<1>11. ASSUME NEW m \in Mods, SandboxRejects(m) PROVE TestingHasOwner'
  BY <1>11, <1>f DEF SandboxRejects, Update
<1>12. CASE \E content : Write(content)
  <2>1. section'.op = section.op /\ section'.mod = section.mod
    BY <1>12 DEF Write, Section
  <2> QED BY <1>12, <2>1 DEF Write
<1>13. CASE WriteFails
  BY <1>13 DEF WriteFails, Stage, RestoreSection
<1>14. CASE AllWritten
  <2>1. section'.op = section.op /\ section'.mod = section.mod
    BY <1>14 DEF AllWritten, Section
  <2> QED BY <1>14, <2>1 DEF AllWritten
<1>15. CASE BuildPasses
  BY <1>15 DEF BuildPasses, Stage, RestoreSection, Update
<1>16. CASE BuildFails
  BY <1>16 DEF BuildFails, Stage, RestoreSection
<1>17. CASE RestoreFile
  <2>1. section'.op = section.op /\ section'.mod = section.mod
    BY <1>17 DEF RestoreFile, Section
  <2> QED BY <1>17, <2>1 DEF RestoreFile
<1>18. CASE RestoreFails
  <2>1. section'.op = section.op /\ section'.mod = section.mod
    BY <1>18 DEF RestoreFails, Section
  <2> QED BY <1>18, <2>1 DEF RestoreFails
<1>19. CASE Restored
  <2>1. section.verdict # "testing" /\ section.op # "down"
    BY <1>19 DEF Restored, SectionShape, Between
  <2>2. section.op = "recover" => section'.op = "recover"
    BY <1>19 DEF Restored, Between
  <2> QED BY <1>19, <2>1, <2>2 DEF Restored, Update
<1>20. CASE Crash
  BY <1>20 DEF Crash, Between
<1>21. CASE Restart
  BY <1>21 DEF Restart, Between
<1>22. ASSUME NEW m \in Mods, Recover(m) PROVE TestingHasOwner'
  BY <1>22 DEF Recover, RestoreSection
<1>23. CASE Recovered
  BY <1>23 DEF Recovered, Stuck
<1>24. CASE HourPasses BY <1>24 DEF HourPasses
<1>25. CASE UNCHANGED vars BY <1>25 DEF vars
<1> HIDE DEF TestingHasOwner, TypeOK
<1> QED
  BY <1>1, <1>2, <1>3, <1>4, <1>5, <1>6, <1>7, <1>8, <1>9, <1>10, <1>11, <1>12,
     <1>13, <1>14, <1>15, <1>16, <1>17, <1>18, <1>19, <1>20, <1>21, <1>22,
     <1>23, <1>24, <1>25
  DEF Next, ModStep, Answer, SectionStep, Mishap, WriteFile, WriteUnread

---------------------------------------------------------------------------
(* What is on disk. *)

(* What is safe to hold stays safe. *)
LEMMA SafeGrows ==
  ASSUME landed \subseteq landed', torn \subseteq torn'
  PROVE  SafeContents \subseteq SafeContents'
BY DEF SafeContents, Excused

(* Between sections, and while a rollback runs, every file is safe. *)
LEMMA SafeAtRest ==
  ASSUME FilesSafeOrUndone, section.op \in {"idle", "rollback"}
  PROVE  \A f \in Files : files[f] \in SafeContents
BY DEF FilesSafeOrUndone, WillBeUndone

(* Calls that start or end outside a section touch neither files nor       *)
(* snapshots.                                                              *)
LEMMA QuietStep ==
  ASSUME TreeInv, UNCHANGED <<rollback, files, section, landed, torn>>,
         Free \/ UNCHANGED status
  PROVE  TreeInv'
<1>1. SafeContents' = SafeContents BY DEF SafeContents, Excused
<1>2. SectionShape' BY DEF TreeInv, SectionShape, Between
<1>3. SnapshotsWhole' BY <1>1 DEF TreeInv, SnapshotsWhole, SafeSaved, Cover
<1>4. SavedSoFar' BY <1>1 DEF TreeInv, SavedSoFar, SafeSaved, Cover
<1>5. FilesSafeOrUndone'
  <2>1. CASE Free
    <3>1. \A f \in Files : files[f] \in SafeContents
      BY <2>1, SafeAtRest DEF TreeInv, Free, Between
    <3> QED BY <1>1, <3>1 DEF FilesSafeOrUndone
  <2>2. CASE UNCHANGED status
    BY <1>1, <2>2 DEF TreeInv, FilesSafeOrUndone, WillBeUndone, StillToRestore, Cover
  <2> QED BY <2>1, <2>2
<1> QED BY <1>2, <1>3, <1>4, <1>5 DEF TreeInv

(* An apply starts from a safe tree, so its snapshot is safe and whole. *)
LEMMA ApplyStarts ==
  ASSUME TypeOK, TreeInv, NEW m \in Mods, NEW unread, Free,
         StartApply(m, unread), UNCHANGED <<rollback, files, landed, torn>>
  PROVE  TreeInv'
<1>1. SafeContents' = SafeContents BY DEF SafeContents, Excused
<1>2. \A f \in Files : files[f] \in SafeContents
  BY SafeAtRest DEF TreeInv, Free, Between
<1>3. /\ section'.op = "apply" /\ section'.mod = m /\ section'.stage = "write"
      /\ section'.pos = 1 /\ section'.saved = Originals(m, unread)
      /\ section'.verdict = "applied"
  BY DEF StartApply
<1>4. SectionShape' BY <1>3 DEF SectionShape
<1>5. SnapshotsWhole' BY <1>1 DEF TreeInv, SnapshotsWhole, SafeSaved, Cover
<1>6. SavedSoFar'
  <2>1. Cover(Originals(m, unread)) = CodeFiles(m) BY OriginalsType
  <2>2. \A i \in DOMAIN Originals(m, unread) : Originals(m, unread)[i].old \in SafeContents
    BY <1>2, OriginalsType, DiffType DEF SafeContents
  <2> QED BY <1>1, <1>3, <2>1, <2>2 DEF SavedSoFar, SafeSaved, Cover
<1>7. FilesSafeOrUndone' BY <1>1, <1>2 DEF FilesSafeOrUndone
<1> QED BY <1>4, <1>5, <1>6, <1>7 DEF TreeInv

(* A rollback goes back to a snapshot that is safe. *)
LEMMA RollbackTree ==
  ASSUME TypeOK, TreeInv, NEW m \in Mods, Rollback(m)
  PROVE  TreeInv'
<1>1. SafeContents' = SafeContents BY DEF SafeContents, Excused, Rollback
<1>2. \A f \in Files : files[f] \in SafeContents
  BY SafeAtRest DEF TreeInv, Free, Between, Rollback
<1>3. /\ section'.op = "rollback" /\ section'.mod = m /\ section'.stage = "restore"
      /\ section'.pos = 1 /\ section'.saved = rollback[m]
      /\ section'.verdict = "rolled_back"
  BY DEF Rollback, RestoreSection
<1>4. SectionShape' BY <1>3 DEF SectionShape
<1>5. SnapshotsWhole' BY <1>1 DEF TreeInv, SnapshotsWhole, SafeSaved, Cover, Rollback
<1>6. SavedSoFar' BY <1>1, <1>3 DEF TreeInv, SnapshotsWhole, SavedSoFar, SafeSaved
<1>7. FilesSafeOrUndone' BY <1>1, <1>2 DEF FilesSafeOrUndone, Rollback
<1> QED BY <1>4, <1>5, <1>6, <1>7 DEF TreeInv

(* A test starts to write with nothing saved yet. *)
LEMMA SandboxAcceptsTree ==
  ASSUME TypeOK, TreeInv, NEW m \in Mods, SandboxAccepts(m)
  PROVE  TreeInv'
<1>1. SafeContents' = SafeContents BY DEF SafeContents, Excused, SandboxAccepts
<1>2. \A f \in Files : files[f] \in SafeContents
  BY SafeAtRest DEF TreeInv, Free, Between, SandboxAccepts
<1>3. /\ section'.op = "test" /\ section'.mod = m /\ section'.stage = "write"
      /\ section'.pos = 1 /\ section'.saved = <<>> /\ section'.verdict = "ready"
  BY DEF SandboxAccepts
<1>4. SectionShape' BY <1>3 DEF SectionShape
<1>5. SnapshotsWhole'
  BY <1>1 DEF TreeInv, SnapshotsWhole, SafeSaved, Cover, SandboxAccepts
<1>6. SavedSoFar'
  <2>1. Len(<<>>) = 0 /\ DOMAIN <<>> = {} OBVIOUS
  <2>2. Len(Diff[m]) \in Nat BY DiffType
  <2> QED BY <1>1, <1>3, <2>1, <2>2 DEF SavedSoFar, SafeSaved, Cover
<1>7. FilesSafeOrUndone' BY <1>1, <1>2 DEF FilesSafeOrUndone, SandboxAccepts
<1> QED BY <1>4, <1>5, <1>6, <1>7 DEF TreeInv

(* What a test is about to save is safe: a file that already holds its     *)
(* code has a block for the second time.                                   *)
LEMMA SavedNext ==
  ASSUME TypeOK, TreeInv, Stage({"test", "apply"}, "write"), MoreToWrite,
         NEW content \in {Read(Target), Absent}
  PROVE  /\ section.mod \in Mods
         /\ Target \in CodeFiles(section.mod) /\ Target \in Files
         /\ Saving(content) \in Seq(Entry)
         /\ \A i \in DOMAIN Saving(content) : Saving(content)[i].old \in SafeContents
         /\ Target \in Cover(Saving(content))
         /\ Cover(section.saved) \subseteq Cover(Saving(content))
         /\ Cover(Saving(content)) \subseteq CodeFiles(section.mod)
         /\ section.op = "test" =>
              /\ Len(Saving(content)) = section.pos
              /\ \A i \in DOMAIN Saving(content) :
                   Saving(content)[i].file = Diff[section.mod][i]
<1> DEFINE m == section.mod
           entry == [file |-> Target, old |-> content]
<1>1. m \in Mods /\ section.pos \in Nat /\ section.pos >= 1
      /\ section.op \in {"test", "apply"} /\ section.stage = "write"
  BY DEF Stage, TreeInv, SectionShape, Between, TypeOK, Section
<1>2. section.pos \in DOMAIN Diff[m] BY <1>1, DiffType DEF MoreToWrite
<1>3. Target \in Files /\ Target \in CodeFiles(m)
  BY <1>1, <1>2, DiffType DEF Target, CodeFiles
<1>4. section.saved \in Seq(Entry) BY DEF TypeOK, Section
<1>5. CASE section.op = "apply"
  <2>1. Saving(content) = section.saved BY <1>5 DEF Saving
  <2>2. Cover(section.saved) = CodeFiles(m) BY <1>1, <1>5 DEF TreeInv, SavedSoFar
  <2>3. SafeSaved(section.saved) BY DEF TreeInv, SavedSoFar
  <2> QED BY <1>1, <1>3, <1>4, <1>5, <2>1, <2>2, <2>3 DEF SafeSaved
<1>6. CASE section.op = "test"
  <2>1. /\ SafeSaved(section.saved)
        /\ Cover(section.saved) \subseteq CodeFiles(m)
        /\ Len(section.saved) = section.pos - 1
        /\ \A i \in DOMAIN section.saved : section.saved[i].file = Diff[m][i]
    BY <1>1, <1>6 DEF TreeInv, SavedSoFar
  <2>2. files[Target] \in SafeContents
    <3>1. ASSUME ~(files[Target] \in SafeContents)
          PROVE  \E i \in DOMAIN section.saved :
                   section.saved[i].file = Target /\ files[Target] = m
      BY <1>3, <1>6, <3>1 DEF TreeInv, FilesSafeOrUndone, WillBeUndone, StillToRestore
    <3>2. ASSUME NEW i \in DOMAIN section.saved, section.saved[i].file = Target
          PROVE  m \in SafeContents
      <4>1. i \in 1..(section.pos - 1) BY <1>4, <2>1, <3>2, LenProperties
      <4>2. Diff[m][i] = Diff[m][section.pos] /\ i # section.pos
        BY <1>1, <2>1, <3>2, <4>1 DEF Target
      <4>3. i \in DOMAIN Diff[m] BY <1>1, <1>2, <4>1, DiffType
      <4>4. Repeats(m) BY <1>2, <4>2, <4>3 DEF Repeats
      <4> QED BY <1>1, <4>4 DEF SafeContents, Excused
    <3> QED BY <3>1, <3>2
  <2>r. content \in SafeContents BY <1>3, <2>2, ReadType DEF SafeContents
  <2>3. entry \in Entry BY <1>3, ReadType DEF Entry
  <2>4. Saving(content) = Append(section.saved, entry)
    BY <1>6 DEF Saving
  <2>5. entry.file = Target /\ entry.old = content OBVIOUS
  <2> HIDE DEF entry
  <2>6. /\ Saving(content) \in Seq(Entry)
        /\ Len(Saving(content)) = section.pos
        /\ \A i \in 1..(section.pos - 1) : Saving(content)[i] = section.saved[i]
        /\ Saving(content)[section.pos] = entry
    BY <1>1, <1>4, <2>1, <2>3, <2>4, AppendProperties
  <2>7. /\ DOMAIN section.saved = 1..(section.pos - 1)
        /\ DOMAIN Saving(content) = 1..section.pos
    BY <1>4, <2>1, <2>6, LenProperties
  <2>8. \A i \in DOMAIN Saving(content) :
          \/ i \in DOMAIN section.saved /\ Saving(content)[i] = section.saved[i]
          \/ i = section.pos /\ Saving(content)[i] = entry
    BY <1>1, <2>6, <2>7
  <2>9. section.pos \in DOMAIN Saving(content) BY <1>1, <2>7
  <2>10. \A i \in DOMAIN Saving(content) :
           /\ Saving(content)[i].old \in SafeContents
           /\ Saving(content)[i].file = Diff[m][i]
    BY <2>1, <2>r, <2>5, <2>8 DEF SafeSaved, Target
  <2>11. Target \in Cover(Saving(content)) BY <2>5, <2>6, <2>9 DEF Cover
  <2>12. Cover(section.saved) \subseteq Cover(Saving(content))
    <3>1. \A i \in DOMAIN section.saved :
            i \in DOMAIN Saving(content) /\ Saving(content)[i] = section.saved[i]
      BY <1>1, <2>6, <2>7
    <3> QED BY <3>1 DEF Cover
  <2>13. Cover(Saving(content)) \subseteq CodeFiles(m)
    BY <1>3, <2>1, <2>5, <2>8 DEF Cover
  <2> QED BY <1>1, <1>3, <2>6, <2>10, <2>11, <2>12, <2>13
<1> QED BY <1>1, <1>5, <1>6

(* The file that is written is saved, and the others are as they were.     *)
LEMMA WriteFileTree ==
  ASSUME TypeOK, TreeInv, NEW content \in {Read(Target), Absent}, Write(content)
  PROVE  TreeInv'
<1> DEFINE m == section.mod
<1>1. Stage({"test", "apply"}, "write") /\ MoreToWrite BY DEF Write
<1>2. SafeContents' = SafeContents BY DEF SafeContents, Excused, Write
<1>3. /\ section.op \in {"test", "apply"} /\ section.stage = "write"
      /\ section.pos \in Nat /\ section.pos >= 1 /\ section.verdict # "testing"
  BY <1>1 DEF Stage, TreeInv, SectionShape, Between, TypeOK, Section
<1>4. /\ section'.op = section.op /\ section'.mod = m /\ section'.stage = "write"
      /\ section'.pos = section.pos + 1 /\ section'.saved = Saving(content)
      /\ section'.verdict = section.verdict
  BY <1>3 DEF Write, TypeOK, Section
<1>5. SectionShape' BY <1>1, <1>3, <1>4, SavedNext DEF SectionShape
<1>6. SnapshotsWhole'
  BY <1>2 DEF TreeInv, SnapshotsWhole, SafeSaved, Cover, Write
<1>7. SavedSoFar'
  <2>1. section.pos <= Len(Diff[m]) BY DEF Write, MoreToWrite
  <2>2. SafeSaved(section.saved)' BY <1>1, <1>2, <1>4, SavedNext DEF SafeSaved
  <2>3. section.op = "apply" => Saving(content) = section.saved
    BY DEF Saving
  <2>4. section.op = "apply" => Cover(section.saved) = CodeFiles(m)
    BY <1>3 DEF TreeInv, SavedSoFar
  <2>5. Cover(section.saved)' = Cover(Saving(content)) BY <1>4 DEF Cover
  <2>6. CodeFiles(section.mod)' = CodeFiles(m) BY <1>4 DEF CodeFiles
  <2>7. CASE section.op = "apply"
    BY <1>4, <2>2, <2>3, <2>4, <2>5, <2>6, <2>7 DEF SavedSoFar
  <2>8. CASE section.op = "test"
    <3>1. Len(Saving(content)) = section.pos BY <1>1, <2>8, SavedNext
    <3>2. \A i \in DOMAIN Saving(content) : Saving(content)[i].file = Diff[m][i]
      BY <1>1, <2>8, SavedNext
    <3>3. Cover(Saving(content)) \subseteq CodeFiles(m) BY <1>1, SavedNext
    <3>4. (section.pos + 1) - 1 = section.pos BY <1>3
    <3> QED BY <1>4, <2>1, <2>2, <2>5, <2>6, <2>8, <3>1, <3>2, <3>3, <3>4 DEF SavedSoFar
  <2> QED BY <1>3, <2>7, <2>8
<1>8. FilesSafeOrUndone'
  <2> SUFFICES ASSUME NEW f \in Files, ~(files'[f] \in SafeContents)
               PROVE  WillBeUndone(f)'
    BY <1>2 DEF FilesSafeOrUndone
  <2>1. files' = [files EXCEPT ![Target] = m] BY DEF Write
  <2>2. CASE f = Target
    <3>1. files'[f] = m BY <2>1, <2>2 DEF TypeOK
    <3>2. f \in Cover(Saving(content)) BY <1>1, <2>2, SavedNext
    <3> QED BY <1>3, <1>4, <3>1, <3>2 DEF WillBeUndone, StillToRestore, Cover
  <2>3. CASE f # Target
    <3>1. files'[f] = files[f] BY <2>1, <2>3 DEF TypeOK
    <3>2. files[f] = m /\ f \in Cover(section.saved)
      BY <1>3, <3>1 DEF TreeInv, FilesSafeOrUndone, WillBeUndone, StillToRestore, Cover
    <3>3. f \in Cover(Saving(content)) BY <1>1, <3>2, SavedNext
    <3> QED BY <1>3, <1>4, <3>1, <3>2, <3>3 DEF WillBeUndone, StillToRestore, Cover
  <2> QED BY <2>2, <2>3
<1> QED BY <1>5, <1>6, <1>7, <1>8 DEF TreeInv

(* A failed write in a test restores what is saved, the file that was not  *)
(* written included; in an apply the modification counts as torn.          *)
LEMMA WriteFailsTree ==
  ASSUME TypeOK, TreeInv, WriteFails
  PROVE  TreeInv'
<1> DEFINE m == section.mod
<1>1. Stage({"test", "apply"}, "write") /\ MoreToWrite BY DEF WriteFails
<1>2. SafeContents \subseteq SafeContents' BY SafeGrows DEF WriteFails
<1>3. section.op \in {"test", "apply"} /\ section.stage = "write"
  BY <1>1 DEF Stage
<1>4. SnapshotsWhole'
  BY <1>2 DEF TreeInv, SnapshotsWhole, SafeSaved, Cover, WriteFails
<1>5. ASSUME NEW f \in Files, ~(files[f] \in SafeContents)
      PROVE  files[f] = m /\ f \in Cover(section.saved)
  BY <1>3, <1>5 DEF TreeInv, FilesSafeOrUndone, WillBeUndone, StillToRestore, Cover
<1>6. CASE section.op = "test"
  <2>0. PICK content \in {Read(Target), Absent} :
          section' = RestoreSection("test", m, Saving(content), "failed")
    BY <1>6 DEF WriteFails
  <2>1. /\ section'.op = "test" /\ section'.mod = m /\ section'.stage = "restore"
        /\ section'.pos = 1 /\ section'.saved = Saving(content)
        /\ section'.verdict = "failed"
    BY <2>0 DEF RestoreSection
  <2>2. SectionShape' BY <1>1, <2>1, SavedNext DEF SectionShape
  <2>3. SavedSoFar'
    <3>1. SafeSaved(section.saved)' BY <1>1, <1>2, <2>1, SavedNext DEF SafeSaved
    <3> QED BY <1>1, <2>1, <3>1, SavedNext DEF SavedSoFar, Cover
  <2>4. FilesSafeOrUndone'
    <3> SUFFICES ASSUME NEW f \in Files, ~(files[f] \in SafeContents)
                 PROVE  WillBeUndone(f)'
      BY <1>2 DEF FilesSafeOrUndone, WriteFails
    <3>1. files'[f] = m /\ f \in Cover(Saving(content))
      BY <1>1, <1>5, SavedNext DEF WriteFails
    <3>2. PICK i \in DOMAIN Saving(content) : Saving(content)[i].file = f
      BY <3>1 DEF Cover
    <3>3. i >= 1 BY <1>1, SavedNext, LenProperties
    <3> QED BY <2>1, <3>1, <3>2, <3>3 DEF WillBeUndone, StillToRestore
  <2> QED BY <1>4, <2>2, <2>3, <2>4 DEF TreeInv
<1>7. CASE section.op = "apply"
  <2>1. section' = Between("idle") /\ torn' = torn \cup {m}
    BY <1>7 DEF WriteFails
  <2>2. m \in SafeContents' BY <2>1 DEF SafeContents, Excused
  <2>3. SavedSoFar' BY <2>1 DEF SavedSoFar, SafeSaved, Between, Cover
  <2>4. FilesSafeOrUndone' BY <1>2, <1>5, <2>2 DEF FilesSafeOrUndone, WriteFails
  <2> QED BY <1>4, <2>1, <2>3, <2>4 DEF TreeInv, SectionShape, Between
<1> QED BY <1>3, <1>6, <1>7

(* A test stores a snapshot that covers its whole diff. *)
LEMMA AllWrittenTree ==
  ASSUME TypeOK, TreeInv, AllWritten
  PROVE  TreeInv'
<1> DEFINE m == section.mod
<1>1. Stage({"test", "apply"}, "write") /\ ~MoreToWrite BY DEF AllWritten
<1>2. SafeContents' = SafeContents BY DEF SafeContents, Excused, AllWritten
<1>3. /\ section.op \in {"test", "apply"} /\ section.stage = "write" /\ m \in Mods
      /\ section.pos \in Nat /\ section.pos >= 1 /\ section.verdict # "testing"
      /\ section.saved \in Seq(Entry)
  BY <1>1 DEF Stage, TreeInv, SectionShape, Between, TypeOK, Section
<1>4. /\ section'.op = section.op /\ section'.mod = m /\ section'.stage = "build"
      /\ section'.pos = section.pos /\ section'.saved = section.saved
      /\ section'.verdict = section.verdict
  BY <1>3 DEF AllWritten, TypeOK, Section
<1>5. SectionShape' BY <1>3, <1>4 DEF SectionShape
<1>6. Cover(section.saved) = CodeFiles(m) /\ SafeSaved(section.saved)
  <2>1. CASE section.op = "test"
    <3>1. /\ Len(section.saved) = section.pos - 1
          /\ Len(section.saved) <= Len(Diff[m])
          /\ \A i \in DOMAIN section.saved : section.saved[i].file = Diff[m][i]
      BY <1>3, <2>1 DEF TreeInv, SavedSoFar
    <3>2. Len(section.saved) = Len(Diff[m])
      BY <1>1, <1>3, <3>1, DiffType DEF MoreToWrite
    <3>3. DOMAIN section.saved = DOMAIN Diff[m]
      BY <1>3, <3>2, DiffType, LenProperties
    <3> QED BY <3>1, <3>3 DEF Cover, CodeFiles, TreeInv, SavedSoFar
  <2>2. CASE section.op = "apply" BY <1>3, <2>2 DEF TreeInv, SavedSoFar
  <2> QED BY <1>3, <2>1, <2>2
<1>7. SnapshotsWhole'
  <2>1. \A k \in Mods : rollback'[k] = rollback[k] \/ (k = m /\ rollback'[k] = section.saved)
    BY DEF AllWritten, TypeOK
  <2> QED BY <1>2, <1>6, <2>1 DEF TreeInv, SnapshotsWhole, SafeSaved, Cover
<1>8. SavedSoFar' BY <1>2, <1>4, <1>6 DEF SavedSoFar, SafeSaved, Cover
<1>9. FilesSafeOrUndone'
  BY <1>2, <1>3, <1>4
  DEF TreeInv, FilesSafeOrUndone, WillBeUndone, StillToRestore, AllWritten
<1> QED BY <1>5, <1>7, <1>8, <1>9 DEF TreeInv

(* A test turns to restoring; an apply lands and explains its code. *)
LEMMA BuildPassesTree ==
  ASSUME TypeOK, TreeInv, BuildPasses
  PROVE  TreeInv'
<1> DEFINE m == section.mod
<1>1. SafeContents \subseteq SafeContents' BY SafeGrows DEF BuildPasses
<1>2. /\ section.op \in {"test", "apply"} /\ section.stage = "build" /\ m \in Mods
      /\ section.saved \in Seq(Entry)
  BY DEF BuildPasses, Stage, TreeInv, SectionShape, Between, TypeOK, Section
<1>3. Cover(section.saved) = CodeFiles(m) /\ SafeSaved(section.saved)
  BY <1>2 DEF TreeInv, SavedSoFar
<1>4. ASSUME NEW f \in Files, ~(files[f] \in SafeContents)
      PROVE  files[f] = m /\ f \in Cover(section.saved)
  BY <1>2, <1>4 DEF TreeInv, FilesSafeOrUndone, WillBeUndone, StillToRestore, Cover
<1>5. CASE section.op = "test"
  <2>1. /\ section'.op = "test" /\ section'.mod = m /\ section'.stage = "restore"
        /\ section'.pos = 1 /\ section'.saved = section.saved
        /\ section'.verdict = "ready"
    BY <1>5 DEF BuildPasses, RestoreSection
  <2>2. SectionShape' BY <1>2, <2>1 DEF SectionShape
  <2>3. SnapshotsWhole'
    BY <1>1, <1>5 DEF TreeInv, SnapshotsWhole, SafeSaved, Cover, BuildPasses
  <2>4. SavedSoFar' BY <1>1, <1>3, <2>1 DEF SavedSoFar, SafeSaved, Cover
  <2>5. FilesSafeOrUndone'
    <3> SUFFICES ASSUME NEW f \in Files, ~(files[f] \in SafeContents)
                 PROVE  WillBeUndone(f)'
      BY <1>1 DEF FilesSafeOrUndone, BuildPasses
    <3>1. files'[f] = m /\ f \in Cover(section.saved) BY <1>4 DEF BuildPasses
    <3>2. PICK i \in DOMAIN section.saved : section.saved[i].file = f
      BY <3>1 DEF Cover
    <3>3. i >= 1 BY <1>2, LenProperties
    <3> QED BY <2>1, <3>1, <3>2, <3>3 DEF WillBeUndone, StillToRestore
  <2> QED BY <2>2, <2>3, <2>4, <2>5 DEF TreeInv
<1>6. CASE section.op = "apply"
  <2>1. section' = Between("idle") /\ landed' = landed \cup {m}
    BY <1>6 DEF BuildPasses
  <2>2. m \in SafeContents' BY <2>1 DEF SafeContents, Excused
  <2>3. \A k \in Mods :
          rollback'[k] = rollback[k] \/ (k = m /\ rollback'[k] = section.saved)
    BY <1>6 DEF BuildPasses, TypeOK
  <2>4. SnapshotsWhole'
    BY <1>1, <1>3, <2>3 DEF TreeInv, SnapshotsWhole, SafeSaved, Cover
  <2>5. SavedSoFar' BY <2>1 DEF SavedSoFar, SafeSaved, Between, Cover
  <2>6. FilesSafeOrUndone' BY <1>1, <1>4, <2>2 DEF FilesSafeOrUndone, BuildPasses
  <2> QED BY <2>1, <2>4, <2>5, <2>6 DEF TreeInv, SectionShape, Between
<1> QED BY <1>2, <1>5, <1>6

(* A failed build turns to restoring, whichever call it is. *)
LEMMA BuildFailsTree ==
  ASSUME TypeOK, TreeInv, BuildFails
  PROVE  TreeInv'
<1> DEFINE m == section.mod
<1>1. SafeContents' = SafeContents BY DEF SafeContents, Excused, BuildFails
<1>2. /\ section.op \in {"test", "apply"} /\ section.stage = "build" /\ m \in Mods
      /\ section.saved \in Seq(Entry)
  BY DEF BuildFails, Stage, TreeInv, SectionShape, Between, TypeOK, Section
<1>3. Cover(section.saved) = CodeFiles(m) /\ SafeSaved(section.saved)
  BY <1>2 DEF TreeInv, SavedSoFar
<1>4. /\ section'.op = section.op /\ section'.mod = m /\ section'.stage = "restore"
      /\ section'.pos = 1 /\ section'.saved = section.saved
      /\ section'.verdict = "failed"
  BY DEF BuildFails, RestoreSection
<1>5. SectionShape' BY <1>2, <1>4 DEF SectionShape
<1>6. SnapshotsWhole'
  BY <1>1 DEF TreeInv, SnapshotsWhole, SafeSaved, Cover, BuildFails
<1>7. SavedSoFar' BY <1>1, <1>3, <1>4 DEF SavedSoFar, SafeSaved, Cover
<1>8. FilesSafeOrUndone'
  <2> SUFFICES ASSUME NEW f \in Files, ~(files[f] \in SafeContents)
               PROVE  WillBeUndone(f)'
    BY <1>1 DEF FilesSafeOrUndone, BuildFails
  <2>1. files'[f] = m /\ f \in Cover(section.saved)
    BY <1>2 DEF TreeInv, FilesSafeOrUndone, WillBeUndone, StillToRestore, Cover, BuildFails
  <2>2. PICK i \in DOMAIN section.saved : section.saved[i].file = f
    BY <2>1 DEF Cover
  <2>3. i >= 1 BY <1>2, LenProperties
  <2> QED BY <1>2, <1>4, <2>1, <2>2, <2>3 DEF WillBeUndone, StillToRestore
<1> QED BY <1>5, <1>6, <1>7, <1>8 DEF TreeInv

(* A restored file holds what was saved; those behind it stay to be done. *)
LEMMA RestoreFileTree ==
  ASSUME TypeOK, TreeInv, RestoreFile
  PROVE  TreeInv'
<1> DEFINE m == section.mod
           entry == section.saved[section.pos]
<1>1. SafeContents' = SafeContents BY DEF SafeContents, Excused, RestoreFile
<1>2. /\ section.stage = "restore" /\ m \in Mods /\ section.pos \in Nat
      /\ section.pos >= 1 /\ section.verdict # "testing"
      /\ section.op \in {"test", "apply", "rollback", "recover"}
      /\ section.saved \in Seq(Entry)
  BY DEF RestoreFile, TreeInv, SectionShape, Between, TypeOK, Section
<1>3. section.pos \in DOMAIN section.saved
  BY <1>2, LenProperties DEF RestoreFile
<1>4. entry.old \in SafeContents BY <1>3 DEF TreeInv, SavedSoFar, SafeSaved
<1>5. /\ section'.op = section.op /\ section'.mod = m /\ section'.stage = "restore"
      /\ section'.pos = section.pos + 1 /\ section'.saved = section.saved
      /\ section'.verdict = section.verdict
  BY <1>2 DEF RestoreFile, TypeOK, Section
<1>6. SectionShape' BY <1>2, <1>5 DEF SectionShape
<1>7. SnapshotsWhole'
  BY <1>1 DEF TreeInv, SnapshotsWhole, SafeSaved, Cover, RestoreFile
<1>8. SavedSoFar' BY <1>1, <1>2, <1>5 DEF TreeInv, SavedSoFar, SafeSaved, Cover
<1>9. FilesSafeOrUndone'
  <2> SUFFICES ASSUME NEW f \in Files, ~(files'[f] \in SafeContents)
               PROVE  WillBeUndone(f)'
    BY <1>1 DEF FilesSafeOrUndone
  <2>1. files' = [files EXCEPT ![entry.file] = entry.old] BY DEF RestoreFile
  <2>2. f # entry.file /\ files'[f] = files[f] BY <1>4, <2>1 DEF TypeOK
  <2>3. WillBeUndone(f) BY <2>2 DEF TreeInv, FilesSafeOrUndone
  <2>4. ASSUME StillToRestore(f) PROVE StillToRestore(f)'
    <3>1. PICK i \in DOMAIN section.saved :
            section.saved[i].file = f /\ i >= section.pos
      BY <1>2, <2>4 DEF StillToRestore
    <3>2. i # section.pos BY <2>2, <3>1
    <3>3. i \in Nat BY <1>2, LenProperties
    <3>4. i >= section.pos + 1 BY <1>2, <3>1, <3>2, <3>3
    <3> QED BY <1>5, <3>1, <3>4 DEF StillToRestore
  <2> QED BY <1>5, <2>2, <2>3, <2>4 DEF WillBeUndone, RestoreFile, Cover
<1> QED BY <1>6, <1>7, <1>8, <1>9 DEF TreeInv

(* A file that could not be restored leaves the modification torn. *)
LEMMA RestoreFailsTree ==
  ASSUME TypeOK, TreeInv, RestoreFails
  PROVE  TreeInv'
<1> DEFINE m == section.mod
           rest == SubSeq(section.saved, 1, section.pos - 1) \o
                   SubSeq(section.saved, section.pos + 1, Len(section.saved))
<1>1. SafeContents \subseteq SafeContents' BY SafeGrows DEF RestoreFails
<1>2. /\ section.stage = "restore" /\ m \in Mods /\ section.pos \in Nat
      /\ section.pos >= 1 /\ section.verdict # "testing"
      /\ section.op \in {"test", "apply", "rollback", "recover"}
      /\ section.saved \in Seq(Entry)
  BY DEF RestoreFails, TreeInv, SectionShape, Between, TypeOK, Section
<1>3. \A i \in DOMAIN rest : \E j \in DOMAIN section.saved : rest[i] = section.saved[j]
  BY <1>2, WithoutEntry DEF RestoreFails
<1>4. section' = [section EXCEPT !.saved = rest] BY DEF RestoreFails
<1> HIDE DEF rest
<1>5. /\ section'.op = section.op /\ section'.mod = m /\ section'.stage = "restore"
      /\ section'.pos = section.pos /\ section'.saved = rest
      /\ section'.verdict = section.verdict
  BY <1>2, <1>4 DEF TypeOK, Section
<1>6. SectionShape' BY <1>2, <1>5 DEF SectionShape
<1>7. SnapshotsWhole'
  BY <1>1 DEF TreeInv, SnapshotsWhole, SafeSaved, Cover, RestoreFails
<1>8. SavedSoFar'
  <2>1. SafeSaved(section.saved)'
    BY <1>1, <1>3, <1>5 DEF TreeInv, SavedSoFar, SafeSaved
  <2>2. Cover(section.saved)' \subseteq Cover(section.saved) BY <1>3, <1>5 DEF Cover
  <2>3. CodeFiles(section.mod)' = CodeFiles(m) BY <1>5 DEF CodeFiles
  <2>4. section.op = "test" => Cover(section.saved) \subseteq CodeFiles(m)
    BY DEF TreeInv, SavedSoFar
  <2> QED BY <1>5, <2>1, <2>2, <2>3, <2>4 DEF SavedSoFar
<1>9. FilesSafeOrUndone'
  <2> SUFFICES ASSUME NEW f \in Files, ~(files[f] \in SafeContents')
               PROVE  WillBeUndone(f)'
    BY DEF FilesSafeOrUndone, RestoreFails
  <2>1. m \in SafeContents' BY DEF SafeContents, Excused, RestoreFails
  <2>2. WillBeUndone(f) BY <1>1 DEF TreeInv, FilesSafeOrUndone
  <2>3. files[f] # m BY <2>1
  <2> QED BY <1>5, <2>2, <2>3 DEF WillBeUndone, RestoreFails, Cover
<1> QED BY <1>6, <1>7, <1>8, <1>9 DEF TreeInv

(* When restoreFiles is through, its section has nothing left to undo. *)
LEMMA RestoredTree ==
  ASSUME TypeOK, TreeInv, Restored
  PROVE  TreeInv'
<1> DEFINE m == section.mod
<1>1. SafeContents' = SafeContents BY DEF SafeContents, Excused, Restored
<1>2. /\ section.stage = "restore" /\ m \in Mods /\ section.pos \in Nat
      /\ section.op \in {"test", "apply", "rollback", "recover"}
      /\ section.saved \in Seq(Entry) /\ section.pos > Len(section.saved)
  BY DEF Restored, TreeInv, SectionShape, Between, TypeOK, Section
<1>3. \A f \in Files : ~StillToRestore(f)
  <2>1. Len(section.saved) \in Nat /\ DOMAIN section.saved = 1..Len(section.saved)
    BY <1>2, LenProperties
  <2> QED BY <1>2, <2>1 DEF StillToRestore
<1>4. SnapshotsWhole'
  BY <1>1 DEF TreeInv, SnapshotsWhole, SafeSaved, Cover, Restored
<1>5. CASE section.op = "recover"
  <2>1. section' = Between("recover") BY <1>5 DEF Restored
  <2>2. SavedSoFar' BY <2>1 DEF SavedSoFar, SafeSaved, Between, Cover
  <2>3. FilesSafeOrUndone'
    <3> SUFFICES ASSUME NEW f \in Files, ~(files[f] \in SafeContents)
                 PROVE  WillBeUndone(f)'
      BY <1>1 DEF FilesSafeOrUndone, Restored
    <3>1. /\ files[f] \in Mods /\ status[files[f]] = "testing" /\ files[f] # m
          /\ f \in Cover(rollback[files[f]])
      BY <1>3, <1>5 DEF TreeInv, FilesSafeOrUndone, WillBeUndone
    <3>2. status'[files[f]] = "testing"
      BY <1>2, <3>1 DEF Restored, Update, TypeOK
    <3>3. files[f] # NoMod BY <3>1, ContentAssumption
    <3>4. section'.op = "recover" /\ section'.mod = NoMod BY <2>1 DEF Between
    <3> QED BY <3>1, <3>2, <3>3, <3>4 DEF WillBeUndone, Restored, Cover
  <2> QED BY <1>4, <2>1, <2>2, <2>3 DEF TreeInv, SectionShape, Between
<1>6. CASE section.op # "recover"
  <2>1. section' = Between("idle") BY <1>6 DEF Restored
  <2>2. SavedSoFar' BY <2>1 DEF SavedSoFar, SafeSaved, Between, Cover
  <2>3. \A f \in Files : files[f] \in SafeContents
    BY <1>2, <1>3, <1>6 DEF TreeInv, FilesSafeOrUndone, WillBeUndone
  <2>4. FilesSafeOrUndone' BY <1>1, <2>3 DEF FilesSafeOrUndone, Restored
  <2> QED BY <1>4, <2>1, <2>2, <2>4 DEF TreeInv, SectionShape, Between
<1> QED BY <1>5, <1>6

(* A crash leaves either torn code or a test that recovery will find, with *)
(* a snapshot that covers all it may have written.                         *)
LEMMA CrashTree ==
  ASSUME TypeOK, TreeInv, Crash
  PROVE  TreeInv'
<1> DEFINE m == section.mod
<1>1. SafeContents \subseteq SafeContents'
  <2>1. landed \subseteq landed' /\ torn \subseteq torn' BY DEF Crash
  <2> QED BY <2>1, SafeGrows
<1>2. section' = Between("down") BY DEF Crash
<1>3. SnapshotsWhole' BY <1>1 DEF TreeInv, SnapshotsWhole, SafeSaved, Cover, Crash
<1>4. SavedSoFar' BY <1>2 DEF SavedSoFar, SafeSaved, Between, Cover
<1>5. FilesSafeOrUndone'
  <2> SUFFICES ASSUME NEW f \in Files, ~(files[f] \in SafeContents')
               PROVE  WillBeUndone(f)'
    BY DEF FilesSafeOrUndone, Crash
  <2>1. WillBeUndone(f) BY <1>1 DEF TreeInv, FilesSafeOrUndone
  <2>2. section'.op = "down" /\ section'.mod = NoMod BY <1>2 DEF Between
  <2>3. CASE section.op \in {"test", "apply"}
    <3>1. files[f] = m /\ StillToRestore(f) BY <2>1, <2>3 DEF WillBeUndone
    <3>2. m \in Mods BY <2>3 DEF TreeInv, SectionShape, Between
    <3>3. ~Unsafe
      <4>1. Unsafe => m \in SafeContents' BY DEF SafeContents, Excused, Crash
      <4> QED BY <3>1, <4>1
    <3>4. /\ section.op = "test" /\ status[m] = "testing" /\ rollback[m] # <<>>
      BY <2>3, <3>3 DEF Unsafe
    <3>5. f \in CodeFiles(m)
      BY <3>1, <3>4 DEF StillToRestore, TreeInv, SavedSoFar, Cover
    <3>6. f \in Cover(rollback[m]) BY <3>2, <3>4, <3>5 DEF TreeInv, SnapshotsWhole
    <3>7. m # NoMod BY <3>2, ContentAssumption
    <3> QED BY <2>2, <3>1, <3>2, <3>4, <3>6, <3>7 DEF WillBeUndone, Crash, Cover
  <2>4. CASE section.op \notin {"test", "apply"}
    <3>1. /\ files[f] \in Mods /\ status[files[f]] = "testing"
          /\ f \in Cover(rollback[files[f]])
      BY <2>1, <2>4 DEF WillBeUndone
    <3>2. files[f] # NoMod BY <3>1, ContentAssumption
    <3> QED BY <2>2, <3>1, <3>2 DEF WillBeUndone, Crash, Cover
  <2> QED BY <2>3, <2>4
<1> QED BY <1>2, <1>3, <1>4, <1>5 DEF TreeInv, SectionShape

(* The daemon comes up and turns to recovery. *)
LEMMA RestartTree ==
  ASSUME TypeOK, TreeInv, Restart
  PROVE  TreeInv'
<1>1. SafeContents' = SafeContents BY DEF SafeContents, Excused, Restart
<1>2. section = Between("down") /\ section' = Between("recover") BY DEF Restart
<1>3. SnapshotsWhole' BY <1>1 DEF TreeInv, SnapshotsWhole, SafeSaved, Cover, Restart
<1>4. SavedSoFar' BY <1>2 DEF SavedSoFar, SafeSaved, Between, Cover
<1>5. FilesSafeOrUndone'
  <2> SUFFICES ASSUME NEW f \in Files, ~(files[f] \in SafeContents)
               PROVE  WillBeUndone(f)'
    BY <1>1 DEF FilesSafeOrUndone, Restart
  <2>1. /\ files[f] \in Mods /\ status[files[f]] = "testing"
        /\ f \in Cover(rollback[files[f]])
    BY <1>2 DEF TreeInv, FilesSafeOrUndone, WillBeUndone, Between
  <2>2. files[f] # NoMod BY <2>1, ContentAssumption
  <2> QED BY <1>2, <2>1, <2>2 DEF WillBeUndone, Restart, Cover, Between
<1> QED BY <1>2, <1>3, <1>4, <1>5 DEF TreeInv, SectionShape

(* Recovery takes up a row with its snapshot, which covers its files. *)
LEMMA RecoverTree ==
  ASSUME TypeOK, TreeInv, NEW m \in Mods, Recover(m)
  PROVE  TreeInv'
<1>1. SafeContents' = SafeContents BY DEF SafeContents, Excused, Recover
<1>2. /\ section'.op = "recover" /\ section'.mod = m /\ section'.stage = "restore"
      /\ section'.pos = 1 /\ section'.saved = rollback[m]
      /\ section'.verdict = "failed"
  BY DEF Recover, RestoreSection
<1>3. SectionShape' BY <1>2 DEF SectionShape
<1>4. SnapshotsWhole' BY <1>1 DEF TreeInv, SnapshotsWhole, SafeSaved, Cover, Recover
<1>5. SavedSoFar' BY <1>1, <1>2 DEF TreeInv, SnapshotsWhole, SavedSoFar, SafeSaved
<1>6. FilesSafeOrUndone'
  <2> SUFFICES ASSUME NEW f \in Files, ~(files[f] \in SafeContents)
               PROVE  WillBeUndone(f)'
    BY <1>1 DEF FilesSafeOrUndone, Recover
  <2>1. /\ files[f] \in Mods /\ status[files[f]] = "testing"
        /\ f \in Cover(rollback[files[f]])
    BY DEF TreeInv, FilesSafeOrUndone, WillBeUndone, Recover, Between
  <2>2. ASSUME files[f] = m PROVE StillToRestore(f)'
    <3>1. PICK i \in DOMAIN rollback[m] : rollback[m][i].file = f
      BY <2>1, <2>2 DEF Cover
    <3>2. rollback[m] \in Seq(Entry) BY DEF TypeOK
    <3>3. i >= 1 BY <3>2, LenProperties
    <3> QED BY <1>2, <3>1, <3>3 DEF StillToRestore
  <2> QED BY <1>2, <2>1, <2>2 DEF WillBeUndone, Recover, Cover
<1> QED BY <1>3, <1>4, <1>5, <1>6 DEF TreeInv

(* Recovery ends when no row is stuck, and then no file is left to undo. *)
LEMMA RecoveredTree ==
  ASSUME TypeOK, TreeInv, Recovered
  PROVE  TreeInv'
<1>1. SafeContents' = SafeContents BY DEF SafeContents, Excused, Recovered
<1>2. section' = Between("idle") BY DEF Recovered
<1>3. SnapshotsWhole'
  BY <1>1 DEF TreeInv, SnapshotsWhole, SafeSaved, Cover, Recovered
<1>4. SavedSoFar' BY <1>2 DEF SavedSoFar, SafeSaved, Between, Cover
<1>5. \A f \in Files : files[f] \in SafeContents
  BY DEF TreeInv, FilesSafeOrUndone, WillBeUndone, Recovered, Stuck, Between
<1>6. FilesSafeOrUndone' BY <1>1, <1>5 DEF FilesSafeOrUndone, Recovered
<1> QED BY <1>2, <1>3, <1>4, <1>6 DEF TreeInv, SectionShape, Between

---------------------------------------------------------------------------
(* The theorems. *)

(* The inductive invariant holds in the beginning. *)
LEMMA InitInv == Init => IInv
<1> SUFFICES ASSUME Init PROVE IInv OBVIOUS
<1>1. TypeOK
  <2>1. section \in Section BY BetweenType DEF Init
  <2>2. <<>> \in Seq(Entry) BY EmptySeq
  <2>3. files \in [Files -> Contents] BY DiffAssumption DEF Init, Contents
  <2>4. mishaps \in 0..MaxMishaps BY LimitAssumption DEF Init
  <2> QED BY <2>1, <2>2, <2>3, <2>4 DEF Init, TypeOK, Statuses
<1>2. TestingHasOwner BY DEF Init, TestingHasOwner
<1>3. SectionShape BY DEF Init, SectionShape
<1>4. SnapshotsWhole BY DEF Init, SnapshotsWhole, SafeSaved
<1>5. SavedSoFar BY DEF Init, SavedSoFar, SafeSaved, Between
<1>6. FilesSafeOrUndone BY DiffAssumption DEF Init, FilesSafeOrUndone, SafeContents
<1> QED BY <1>1, <1>2, <1>3, <1>4, <1>5, <1>6 DEF IInv, TreeInv

(* Every step keeps the inductive invariant. *)
LEMMA NextInv == IInv /\ [Next]_vars => IInv'
<1> SUFFICES ASSUME IInv, [Next]_vars PROVE IInv' OBVIOUS
<1>1. TypeOK /\ TreeInv /\ SectionShape /\ TestingHasOwner BY DEF IInv, TreeInv
<1>2. TypeOK' BY <1>1, TypeStep
<1>3. TestingHasOwner' BY <1>1, OwnerStep
<1>4. TreeInv'
  <2>1. ASSUME NEW m \in Mods, Propose(m) PROVE TreeInv'
    BY <1>1, <2>1, QuietStep DEF Propose
  <2>2. ASSUME NEW m \in Mods, Step40(m) PROVE TreeInv'
    BY <1>1, <2>2, QuietStep DEF Step40
  <2>3. ASSUME NEW m \in Mods, GenerateSucceeds(m) PROVE TreeInv'
    BY <1>1, <2>3, QuietStep DEF GenerateSucceeds
  <2>4. ASSUME NEW m \in Mods, NEW tooLong \in BOOLEAN, GenerateFails(m, tooLong)
        PROVE  TreeInv'
    BY <1>1, <2>4, QuietStep DEF GenerateFails
  <2>5. ASSUME NEW m \in Mods, StartTest(m) PROVE TreeInv'
    BY <1>1, <2>5, QuietStep DEF StartTest
  <2>6. ASSUME NEW m \in Mods, Reject(m) PROVE TreeInv'
    BY <1>1, <2>6, QuietStep DEF Reject
  <2>7. ASSUME NEW m \in Mods, SandboxRejects(m) PROVE TreeInv'
    BY <1>1, <2>7, QuietStep DEF SandboxRejects
  <2>8. ASSUME NEW m \in Mods, NEW unread, Approve(m, unread) PROVE TreeInv'
    BY <1>1, <2>8, ApplyStarts DEF Approve
  <2>9. ASSUME NEW m \in Mods, NEW unread, AutoApply(m, unread) PROVE TreeInv'
    BY <1>1, <2>9, ApplyStarts DEF AutoApply
  <2>10. CASE HourPasses BY <1>1, <2>10, QuietStep DEF HourPasses
  <2>11. CASE UNCHANGED vars BY <1>1, <2>11, QuietStep DEF vars
  <2> QED
    BY <1>1, <2>1, <2>2, <2>3, <2>4, <2>5, <2>6, <2>7, <2>8, <2>9, <2>10, <2>11,
       RollbackTree, SandboxAcceptsTree, WriteFileTree, WriteFailsTree,
       AllWrittenTree, BuildPassesTree, BuildFailsTree, RestoreFileTree,
       RestoreFailsTree, RestoredTree, CrashTree, RestartTree, RecoverTree,
       RecoveredTree
    DEF Next, ModStep, Answer, SectionStep, Mishap, WriteFile, WriteUnread
<1> QED BY <1>2, <1>3, <1>4 DEF IInv

(* The inductive invariant is one of the specification. *)
THEOREM Invariance == Spec => []IInv
BY InitInv, NextInv, PTL DEF Spec

(* The rows, the tree, the waiting calls and the section keep their types. *)
THEOREM TypeCorrect == Spec => []TypeOK
<1>1. IInv => TypeOK BY DEF IInv
<1> QED BY <1>1, Invariance, PTL

(* While the daemon serves, a row in "testing" has a call that will end it *)
(* (testModification, recoverFromCrash).                                   *)
THEOREM NoRowIsStuck == Spec => []TestingHasOwner
<1>1. IInv => TestingHasOwner BY DEF IInv
<1> QED BY <1>1, Invariance, PTL

(* Between sections, generated code is on disk only if it was applied or   *)
(* one of the named mishaps left it there (testModification,               *)
(* applyModification, rollbackModification, restoreFiles,                  *)
(* recoverFromCrash).                                                      *)
THEOREM CodeIsExplained == Spec => []CodeOnDiskIsExplained
<1>1. IInv => CodeOnDiskIsExplained
  <2> SUFFICES ASSUME IInv, Free PROVE \A f \in Files : files[f] \in SafeContents
    BY DEF CodeOnDiskIsExplained, SafeContents
  <2> QED BY SafeAtRest DEF IInv, TreeInv, Free, Between
<1> QED BY <1>1, Invariance, PTL

---------------------------------------------------------------------------
(* SelfModification implements PatchedTree, for any modifications, files   *)
(* and number of mishaps, if no diff names a file twice: seen from outside *)
(* its sections, the engine patches whole modifications.                   *)

(* No response has two blocks for one file, and there is a modification at *)
(* all (a crash of an engine without any tears nothing).                   *)
Single == Mods # {} /\ \A m \in Mods : ~Repeats(m)

---------------------------------------------------------------------------
(* What TreeOf and BaseOf make of saved contents. *)

Distinct(s) == \A i, j \in DOMAIN s : s[i].file = s[j].file => i = j

TreeWith(s, fs) ==
  [f \in Files |->
     LET hits == {i \in DOMAIN s : s[i].file = f}
     IN IF hits = {} THEN fs[f] ELSE s[CHOOSE i \in hits : TRUE].old]

BaseWith(s) ==
  [f \in {s[i].file : i \in DOMAIN s} |->
     s[CHOOSE i \in DOMAIN s : s[i].file = f].old]

LEMMA TreeIs == TreeOf = TreeWith(section.saved, files)
BY DEF TreeOf, TreeWith

LEMMA TreeWillBe == TreeOf' = TreeWith(section'.saved, files')
BY DEF TreeOf, TreeWith

LEMMA BaseIs == BaseOf = [m \in Mods |-> BaseWith(rollback[m])]
BY DEF BaseOf, BaseWith

LEMMA BaseWillBe == BaseOf' = [m \in Mods |-> BaseWith(rollback'[m])]
BY DEF BaseOf, BaseWith

LEMMA TreeAt ==
  ASSUME NEW s, Distinct(s), NEW fs
  PROVE  /\ TreeWith(s, fs) = [f \in Files |-> TreeWith(s, fs)[f]]
         /\ \A f \in Files : f \notin Cover(s) => TreeWith(s, fs)[f] = fs[f]
         /\ \A i \in DOMAIN s : s[i].file \in Files =>
              TreeWith(s, fs)[s[i].file] = s[i].old
<1>1. TreeWith(s, fs) = [f \in Files |-> TreeWith(s, fs)[f]] BY DEF TreeWith
<1>2. ASSUME NEW f \in Files, f \notin Cover(s) PROVE TreeWith(s, fs)[f] = fs[f]
  <2>1. {i \in DOMAIN s : s[i].file = f} = {} BY <1>2 DEF Cover
  <2> QED BY <2>1 DEF TreeWith
<1>3. ASSUME NEW i \in DOMAIN s, s[i].file \in Files
      PROVE  TreeWith(s, fs)[s[i].file] = s[i].old
  <2> DEFINE hits == {j \in DOMAIN s : s[j].file = s[i].file}
  <2>1. hits = {i} BY DEF Distinct
  <2>2. (CHOOSE j \in hits : TRUE) = i BY <2>1
  <2>3. TreeWith(s, fs)[s[i].file] =
          IF hits = {} THEN fs[s[i].file] ELSE s[CHOOSE j \in hits : TRUE].old
    BY <1>3 DEF TreeWith
  <2> HIDE DEF hits
  <2> QED BY <2>1, <2>2, <2>3
<1> QED BY <1>1, <1>2, <1>3

LEMMA BaseAt ==
  ASSUME NEW s, Distinct(s)
  PROVE  /\ BaseWith(s) = [f \in Cover(s) |-> BaseWith(s)[f]]
         /\ \A i \in DOMAIN s : BaseWith(s)[s[i].file] = s[i].old
<1>1. BaseWith(s) = [f \in Cover(s) |-> BaseWith(s)[f]] BY DEF BaseWith, Cover
<1>2. ASSUME NEW i \in DOMAIN s PROVE BaseWith(s)[s[i].file] = s[i].old
  <2>1. (CHOOSE j \in DOMAIN s : s[j].file = s[i].file) = i BY DEF Distinct
  <2> QED BY <2>1 DEF BaseWith
<1> QED BY <1>1, <1>2

(* Going back to a snapshot is putting its entries over the tree. *)
LEMMA UndoneTree ==
  ASSUME NEW s, Distinct(s), NEW fs
  PROVE  TreeWith(s, fs) = [f \in Files |-> IF f \in DOMAIN BaseWith(s)
                                            THEN BaseWith(s)[f] ELSE fs[f]]
<1>1. DOMAIN BaseWith(s) = Cover(s) BY BaseAt
<1>2. ASSUME NEW f \in Files
      PROVE  TreeWith(s, fs)[f] = IF f \in DOMAIN BaseWith(s) THEN BaseWith(s)[f] ELSE fs[f]
  <2>1. CASE f \notin Cover(s) BY <1>1, <2>1, TreeAt
  <2>2. CASE f \in Cover(s)
    <3>1. PICK i \in DOMAIN s : s[i].file = f BY <2>2 DEF Cover
    <3> QED BY <1>1, <2>2, <3>1, TreeAt, BaseAt
  <2> QED BY <2>1, <2>2
<1>3. TreeWith(s, fs) = [f \in Files |-> TreeWith(s, fs)[f]] BY TreeAt
<1> QED BY <1>2, <1>3

---------------------------------------------------------------------------
(* The steps of PatchedTree, with the mapping put in. *)

Idle == UNCHANGED <<TreeOf, BaseOf, mishaps>>

LEMMA IsStutter == Idle => [Abstract!Next]_(Abstract!vars)
BY DEF Idle, Abstract!vars

LEMMA IsTest ==
  ASSUME NEW m \in Mods, TreeOf' = TreeOf, mishaps' = mishaps,
         BaseOf' = [BaseOf EXCEPT ![m] = [f \in CodeFiles(m) |-> TreeOf[f]]]
  PROVE  Abstract!Next
BY DEF Abstract!Next, Abstract!Test, Abstract!Snapshot, CodeFiles

LEMMA IsLand ==
  ASSUME NEW m \in Mods, mishaps' = mishaps,
         TreeOf' = [f \in Files |-> IF f \in CodeFiles(m) THEN m ELSE TreeOf[f]],
         BaseOf' = [BaseOf EXCEPT ![m] = [f \in CodeFiles(m) |-> TreeOf[f]]]
  PROVE  Abstract!Next
BY DEF Abstract!Next, Abstract!Land, Abstract!Snapshot, CodeFiles

LEMMA IsUndo ==
  ASSUME NEW m \in Mods, UNCHANGED <<BaseOf, mishaps>>,
         TreeOf' = [f \in Files |-> IF f \in DOMAIN BaseOf[m] THEN BaseOf[m][f]
                                    ELSE TreeOf[f]]
  PROVE  Abstract!Next
BY DEF Abstract!Next, Abstract!Undo

LEMMA IsTear ==
  ASSUME NEW m \in Mods, mishaps' = mishaps + 1, BaseOf' = BaseOf,
         DOMAIN TreeOf' = Files,
         \A f \in Files \ CodeFiles(m) : TreeOf'[f] = TreeOf[f]
  PROVE  Abstract!Next
BY DEF Abstract!Next, Abstract!Tear, CodeFiles

(* Files of m that have no text vanish from the tree. *)
LEMMA IsDrop ==
  ASSUME NEW m \in Mods, NEW F \in SUBSET CodeFiles(m),
         \A f \in F : f \in Files /\ TreeOf[f] \in Contents /\ Void(f, TreeOf[f]),
         TreeOf' = [f \in Files |-> IF f \in F THEN Absent ELSE TreeOf[f]],
         UNCHANGED <<BaseOf, mishaps>>
  PROVE  Abstract!Next
<1> DEFINE Voids == {v \in Files \X Contents : Void(v[1], v[2])}
<1>1. \A f \in F : <<f, TreeOf[f]>> \in Voids OBVIOUS
<1>2. F \in SUBSET {f \in {Diff[m][i] : i \in DOMAIN Diff[m]} : <<f, TreeOf[f]>> \in Voids}
  BY <1>1 DEF CodeFiles
<1>3. Abstract!Drop(m) BY <1>2 DEF Abstract!Drop
<1> QED BY <1>3 DEF Abstract!Next
---------------------------------------------------------------------------
(* What holds inside a section beyond IInv: the files written so far hold  *)
(* the modification, those restored so far what was saved.                 *)

SnapshotsDistinct == \A m \in Mods : Distinct(rollback[m])

SavedOnce ==
  /\ Distinct(section.saved)
  /\ Cover(section.saved) \subseteq CodeFiles(section.mod)

Written ==
  /\ section.stage \in {"write", "build"} =>
       \A i \in DOMAIN Diff[section.mod] :
         i < section.pos => files[Diff[section.mod][i]] = section.mod
  /\ section.stage = "build" => section.pos > Len(Diff[section.mod])

PutBack ==
  section.stage = "restore" =>
    \A i \in DOMAIN section.saved :
      i < section.pos => files[section.saved[i].file] = section.saved[i].old

RInv == SnapshotsDistinct /\ SavedOnce /\ Written /\ PutBack

LEMMA NothingSaved ==
  /\ Distinct(<<>>) /\ Cover(<<>>) = {}
  /\ \A fs \in [Files -> Contents] : TreeWith(<<>>, fs) = fs
<1>1. Distinct(<<>>) /\ Cover(<<>>) = {} BY DEF Distinct, Cover
<1>2. ASSUME NEW fs \in [Files -> Contents] PROVE TreeWith(<<>>, fs) = fs
  BY <1>1, TreeAt
<1> QED BY <1>1, <1>2

LEMMA CodeFilesAreFiles == \A m \in Mods : CodeFiles(m) \subseteq Files
BY DiffType DEF CodeFiles

(* A step outside the tree, the snapshots and the section. *)
LEMMA AsideRefines ==
  ASSUME RInv, UNCHANGED <<section, files, rollback, mishaps>>
  PROVE  RInv' /\ Idle
<1>1. RInv'
  BY DEF RInv, SnapshotsDistinct, SavedOnce, Written, PutBack, Distinct, Cover
<1>2. TreeOf' = TreeOf BY TreeIs, TreeWillBe
<1>3. BaseOf' = BaseOf BY BaseIs, BaseWillBe
<1> QED BY <1>1, <1>2, <1>3 DEF Idle

(* The section becomes one without saved files, with the tree as it is. *)
LEMMA BetweenKeeps ==
  ASSUME TypeOK, RInv, NEW op, section' = Between(op), UNCHANGED <<files, rollback>>
  PROVE  RInv' /\ TreeOf' = files /\ BaseOf' = BaseOf
<1>1. section'.saved = <<>> /\ section'.stage = "none" BY DEF Between
<1>2. SnapshotsDistinct' BY DEF RInv, SnapshotsDistinct, Distinct
<1>3. Distinct(<<>>) /\ Cover(<<>>) = {} BY NothingSaved
<1>4. SavedOnce' BY <1>1, <1>3 DEF SavedOnce, Distinct, Cover
<1>5. Written' /\ PutBack' BY <1>1 DEF Written, PutBack
<1>6. TreeOf' = files BY <1>1, NothingSaved, TreeWillBe DEF TypeOK
<1>7. BaseOf' = BaseOf BY BaseIs, BaseWillBe
<1> QED BY <1>2, <1>4, <1>5, <1>6, <1>7 DEF RInv

(* Restart, Recovered. *)
LEMMA RestRefines ==
  ASSUME TypeOK, RInv, NEW op, section = Between(op), Restart \/ Recovered
  PROVE  RInv' /\ Idle
<1>1. PICK o : section' = Between(o) BY DEF Restart, Recovered
<1>2. UNCHANGED <<files, rollback, mishaps>> BY DEF Restart, Recovered
<1>3. section.saved = <<>> BY DEF Between
<1>4. TreeOf = files BY <1>3, NothingSaved, TreeIs DEF TypeOK
<1> QED BY <1>1, <1>2, <1>4, BetweenKeeps DEF Idle

(* An apply saves all it will overwrite before it writes.  Files without   *)
(* text are lost with that, and those that could not be read.              *)
LEMMA ApplyRefines ==
  ASSUME Single, TypeOK, RInv, NEW m \in Mods, NEW unread, Free,
         StartApply(m, unread), UNCHANGED <<files, rollback>>
  PROVE  RInv' /\ [Abstract!Next]_(Abstract!vars)
<1> DEFINE s == Originals(m, unread)
<1>1. /\ section'.saved = s /\ section'.mod = m /\ section'.stage = "write"
      /\ section'.pos = 1
      /\ IF unread = {} THEN mishaps' = mishaps ELSE mishaps' = mishaps + 1
  BY DEF StartApply, MishapHappens
<1>2. /\ DOMAIN s = DOMAIN Diff[m] /\ Cover(s) = CodeFiles(m)
      /\ \A i \in DOMAIN s : i \notin unread => s[i].old = Read(s[i].file)
      /\ DOMAIN Diff[m] = 1..Len(Diff[m]) /\ Len(Diff[m]) \in Nat
      /\ CodeFiles(m) \subseteq Files
  BY OriginalsType, DiffType, CodeFilesAreFiles
<1>3. \A i \in DOMAIN s : s[i].file = Diff[m][i] BY OriginalsType
<1> HIDE DEF s
<1>4. Distinct(s) BY <1>2, <1>3 DEF Single, Repeats, Distinct
<1>5. SnapshotsDistinct' BY DEF RInv, SnapshotsDistinct, Distinct
<1>6. SavedOnce' BY <1>1, <1>2, <1>4 DEF SavedOnce
<1>7. Written' /\ PutBack' BY <1>1, <1>2 DEF Written, PutBack
<1>8. section.saved = <<>> BY DEF Free, Between
<1>9. TreeOf = files /\ TreeOf' = TreeWith(s, files)
  BY <1>1, <1>8, NothingSaved, TreeIs, TreeWillBe DEF TypeOK
<1>10. BaseOf' = BaseOf BY BaseIs, BaseWillBe
<1>11. CASE unread = {}
  <2> DEFINE F == {f \in CodeFiles(m) : Void(f, files[f])}
  <2>1. ASSUME NEW f \in Files
        PROVE  TreeWith(s, files)[f] = IF f \in F THEN Absent ELSE files[f]
    <3>1. CASE f \notin Cover(s) BY <1>2, <1>4, <3>1, TreeAt
    <3>2. CASE f \in Cover(s)
      <4>1. PICK i \in DOMAIN s : s[i].file = f BY <3>2 DEF Cover
      <4>2. TreeWith(s, files)[f] = s[i].old BY <1>4, <4>1, TreeAt
      <4>3. s[i].old = Read(f) BY <1>2, <1>11, <4>1
      <4> QED BY <1>2, <3>2, <4>2, <4>3 DEF Read
    <3> QED BY <3>1, <3>2
  <2>2. TreeWith(s, files) = [f \in Files |-> TreeWith(s, files)[f]] BY <1>4, TreeAt
  <2> HIDE DEF F
  <2>3. TreeOf' = [f \in Files |-> IF f \in F THEN Absent ELSE TreeOf[f]]
    BY <1>9, <2>1, <2>2
  <2>4. \A f \in F : f \in Files /\ files[f] \in Contents /\ Void(f, files[f])
    BY <1>2 DEF F, TypeOK
  <2>5. F \in SUBSET CodeFiles(m) BY DEF F
  <2>6. Abstract!Next BY <1>1, <1>9, <1>10, <1>11, <2>3, <2>4, <2>5, IsDrop
  <2> QED BY <1>5, <1>6, <1>7, <2>6 DEF RInv
<1>12. CASE unread # {}
  <2>1. \A f \in Files \ CodeFiles(m) : TreeOf'[f] = TreeOf[f]
    BY <1>2, <1>4, <1>9, TreeAt
  <2>2. DOMAIN TreeOf' = Files BY <1>4, <1>9, TreeAt
  <2>3. Abstract!Next BY <1>1, <1>10, <1>12, <2>1, <2>2, IsTear
  <2> QED BY <1>5, <1>6, <1>7, <2>3 DEF RInv
<1> QED BY <1>11, <1>12

LEMMA SandboxAcceptsRefines ==
  ASSUME TypeOK, RInv, NEW m \in Mods, SandboxAccepts(m)
  PROVE  RInv' /\ Idle
<1>1. /\ section'.saved = <<>> /\ section'.mod = m /\ section'.stage = "write"
      /\ section'.pos = 1 /\ section.saved = <<>>
      /\ UNCHANGED <<files, rollback, mishaps>>
  BY DEF SandboxAccepts, Free, Between
<1>2. SnapshotsDistinct' BY <1>1 DEF RInv, SnapshotsDistinct, Distinct
<1>3. SavedOnce' BY <1>1, NothingSaved DEF SavedOnce, Distinct, Cover
<1>4. DOMAIN Diff[m] = 1..Len(Diff[m]) /\ Len(Diff[m]) \in Nat BY DiffType
<1>5. Written' /\ PutBack' BY <1>1, <1>4 DEF Written, PutBack
<1>6. TreeOf' = TreeOf BY <1>1, TreeIs, TreeWillBe
<1>7. BaseOf' = BaseOf BY <1>1, BaseIs, BaseWillBe
<1> QED BY <1>1, <1>2, <1>3, <1>5, <1>6, <1>7 DEF RInv, Idle

(* Rollback and Recover go back to the snapshot of the row. *)
LEMMA UndoRefines ==
  ASSUME TypeOK, SnapshotsWhole, RInv, NEW m \in Mods, NEW op, NEW verdict,
         section.saved = <<>>,
         section' = RestoreSection(op, m, rollback[m], verdict),
         UNCHANGED <<files, rollback, mishaps>>
  PROVE  RInv' /\ Abstract!Next
<1>1. /\ section'.saved = rollback[m] /\ section'.mod = m
      /\ section'.stage = "restore" /\ section'.pos = 1
  BY DEF RestoreSection
<1>2. SnapshotsDistinct' BY DEF RInv, SnapshotsDistinct, Distinct
<1>3. Distinct(rollback[m]) BY DEF RInv, SnapshotsDistinct
<1>4. Cover(rollback[m]) \subseteq CodeFiles(m)
  BY NothingSaved DEF SnapshotsWhole
<1>5. SavedOnce' BY <1>1, <1>3, <1>4 DEF SavedOnce
<1>6. DOMAIN rollback[m] = 1..Len(rollback[m]) /\ Len(rollback[m]) \in Nat
  BY LenProperties DEF TypeOK
<1>7. Written' /\ PutBack' BY <1>1, <1>6 DEF Written, PutBack
<1>8. TreeOf = files BY NothingSaved, TreeIs DEF TypeOK
<1>9. BaseOf' = BaseOf BY BaseIs, BaseWillBe
<1>10. BaseOf[m] = BaseWith(rollback[m]) BY BaseIs
<1>11. TreeOf' = TreeWith(rollback[m], files) BY <1>1, TreeWillBe
<1>12. TreeOf' = [f \in Files |-> IF f \in DOMAIN BaseOf[m] THEN BaseOf[m][f]
                                 ELSE TreeOf[f]]
  BY <1>3, <1>8, <1>10, <1>11, UndoneTree
<1>13. Abstract!Next BY <1>9, <1>12, IsUndo
<1> QED BY <1>2, <1>5, <1>7, <1>13 DEF RInv
---------------------------------------------------------------------------
(* The steps of a section. *)

(* What the invariants say of a section at work. *)
LEMMA SectionFacts ==
  ASSUME IInv, RInv, section.stage # "none"
  PROVE  /\ section.mod \in Mods
         /\ section.pos \in Nat /\ section.pos >= 1
         /\ section.saved \in Seq(Entry)
         /\ Len(section.saved) \in Nat
         /\ DOMAIN section.saved = 1..Len(section.saved)
         /\ Distinct(section.saved)
         /\ Cover(section.saved) \subseteq CodeFiles(section.mod)
         /\ Cover(section.saved) \subseteq Files
<1>1. /\ section.mod \in Mods /\ section.pos \in Nat /\ section.pos >= 1
      /\ section.saved \in Seq(Entry)
  BY DEF IInv, TreeInv, SectionShape, Between, TypeOK, Section
<1>2. Len(section.saved) \in Nat /\ DOMAIN section.saved = 1..Len(section.saved)
  BY <1>1, LenProperties
<1>3. Distinct(section.saved) /\ Cover(section.saved) \subseteq CodeFiles(section.mod)
  BY DEF RInv, SavedOnce
<1>4. CodeFiles(section.mod) \subseteq Files BY <1>1, CodeFilesAreFiles
<1> QED BY <1>1, <1>2, <1>3, <1>4

(* A test saves each file once, as no block names it a second time.        *)
LEMMA SavesOnce ==
  ASSUME Single, IInv, RInv, Stage({"test", "apply"}, "write"), MoreToWrite,
         section.op = "test", NEW content \in {Read(Target), Absent}
  PROVE  /\ Target \notin Cover(section.saved)
         /\ Distinct(Saving(content))
         /\ DOMAIN section.saved \subseteq DOMAIN Saving(content)
         /\ \A i \in DOMAIN section.saved : Saving(content)[i] = section.saved[i]
         /\ section.pos \in DOMAIN Saving(content)
         /\ Saving(content)[section.pos] = [file |-> Target, old |-> content]
         /\ \A i \in DOMAIN Saving(content) :
              i \in DOMAIN section.saved \/ i = section.pos
<1> DEFINE m == section.mod
           s == section.saved
           entry == [file |-> Target, old |-> content]
<1>1. section.stage = "write" /\ section.stage # "none" BY DEF Stage
<1>2. /\ m \in Mods /\ section.pos \in Nat /\ section.pos >= 1
      /\ s \in Seq(Entry) /\ DOMAIN s = 1..Len(s)
  BY <1>1, SectionFacts
<1>3. Len(s) = section.pos - 1 /\ \A i \in DOMAIN s : s[i].file = Diff[m][i]
  BY <1>1 DEF IInv, TreeInv, SavedSoFar
<1>4. section.pos \in DOMAIN Diff[m] /\ DOMAIN Diff[m] = 1..Len(Diff[m])
      /\ Len(Diff[m]) \in Nat
  BY <1>2, DiffType DEF MoreToWrite
<1>5. Target \in Files BY <1>2, <1>4, DiffType DEF Target
<1>6. entry \in Entry BY <1>5, ReadType DEF Entry, IInv
<1>7. Saving(content) = Append(s, entry) BY DEF Saving
<1> HIDE DEF entry
<1>8. /\ Saving(content) \in Seq(Entry)
      /\ Len(Saving(content)) = section.pos
      /\ \A i \in 1..(section.pos - 1) : Saving(content)[i] = s[i]
      /\ Saving(content)[section.pos] = entry
  BY <1>2, <1>3, <1>6, <1>7, AppendProperties
<1>9. DOMAIN Saving(content) = 1..section.pos BY <1>8, LenProperties
<1>10. ~Repeats(m) BY <1>2 DEF Single
<1>11. \A i \in DOMAIN Saving(content) : Saving(content)[i].file = Diff[m][i]
  <2>1. entry.file = Diff[m][section.pos] BY DEF entry, Target
  <2>2. ASSUME NEW i \in 1..section.pos PROVE Saving(content)[i].file = Diff[m][i]
    <3>1. CASE i = section.pos BY <1>8, <2>1, <3>1
    <3>2. CASE i # section.pos
      <4>1. i \in 1..(section.pos - 1) BY <1>2, <3>2
      <4> QED BY <1>2, <1>3, <1>8, <4>1
    <3> QED BY <3>1, <3>2
  <2> QED BY <1>9, <2>2
<1>12. DOMAIN Saving(content) \subseteq DOMAIN Diff[m] BY <1>2, <1>4, <1>9
<1>13. Distinct(Saving(content)) BY <1>10, <1>11, <1>12 DEF Repeats, Distinct
<1>14. Target \notin Cover(s)
  <2>1. ASSUME NEW i \in DOMAIN s, s[i].file = Target PROVE FALSE
    <3>1. i # section.pos /\ i \in DOMAIN Diff[m] BY <1>2, <1>3, <1>4
    <3>2. Diff[m][i] = Diff[m][section.pos] BY <1>3, <2>1 DEF Target
    <3> QED BY <1>4, <1>10, <3>1, <3>2 DEF Repeats
  <2> QED BY <2>1 DEF Cover
<1>15. DOMAIN s = 1..(section.pos - 1) BY <1>2, <1>3
<1>16. /\ DOMAIN s \subseteq DOMAIN Saving(content)
       /\ section.pos \in DOMAIN Saving(content)
       /\ \A i \in DOMAIN Saving(content) : i \in DOMAIN s \/ i = section.pos
  BY <1>2, <1>9, <1>15
<1>17. \A i \in DOMAIN s : Saving(content)[i] = s[i] BY <1>8, <1>15
<1> QED BY <1>8, <1>13, <1>14, <1>16, <1>17 DEF entry

(* Writing a file changes the tree that will be only by what is saved of   *)
(* that file.                                                              *)
LEMMA WriteRefines ==
  ASSUME Single, IInv, RInv, NEW content \in {Read(Target), Absent}, Write(content)
  PROVE  /\ RInv' /\ BaseOf' = BaseOf
         /\ section.mod \in Mods
         /\ Target \in CodeFiles(section.mod) /\ Target \in Files
         /\ DOMAIN TreeOf' = Files
         /\ \A f \in Files : f # Target => TreeOf'[f] = TreeOf[f]
         /\ section.op = "apply" => TreeOf' = TreeOf
         /\ section.op = "test" => /\ TreeOf[Target] = files[Target]
                                   /\ TreeOf'[Target] = content
<1> DEFINE m == section.mod
           s == section.saved
           t == Saving(content)
<1>1. Stage({"test", "apply"}, "write") /\ MoreToWrite BY DEF Write
<1>2. /\ section.op \in {"test", "apply"} /\ section.stage = "write"
      /\ section.stage # "none"
  BY <1>1 DEF Stage
<1>3. /\ m \in Mods /\ section.pos \in Nat /\ section.pos >= 1
      /\ Distinct(s) /\ Cover(s) \subseteq CodeFiles(m)
      /\ CodeFiles(m) \subseteq Files
  BY <1>2, SectionFacts, CodeFilesAreFiles
<1>4. /\ section'.op = section.op /\ section'.mod = m /\ section'.stage = "write"
      /\ section'.pos = section.pos + 1 /\ section'.saved = t
  BY <1>2 DEF Write, IInv, TypeOK, Section
<1>5. /\ files' = [files EXCEPT ![Target] = m] /\ files \in [Files -> Contents]
      /\ rollback' = rollback
  BY DEF Write, IInv, TypeOK
<1>6. /\ Target \in CodeFiles(m) /\ Target \in Files
      /\ Cover(t) \subseteq CodeFiles(m) /\ Target \in Cover(t)
  BY <1>1, SavedNext DEF IInv
<1>7. section.pos \in DOMAIN Diff[m] /\ DOMAIN Diff[m] \subseteq Nat
  BY <1>3, DiffType DEF Write, MoreToWrite
<1>8. section.op = "apply" => t = s BY DEF Saving
<1> HIDE DEF t
<1>9. Distinct(t) BY <1>1, <1>2, <1>3, <1>8, SavesOnce DEF t
<1>10. SnapshotsDistinct' BY <1>5 DEF RInv, SnapshotsDistinct
<1>11. SavedOnce' BY <1>4, <1>6, <1>9 DEF SavedOnce
<1>12. Written' /\ PutBack'
  <2>1. ASSUME NEW i \in DOMAIN Diff[m], i < section.pos + 1
        PROVE  files'[Diff[m][i]] = m
    <3>1. CASE i = section.pos BY <1>5, <1>6, <3>1 DEF Target
    <3>2. CASE i # section.pos
      <4>1. i < section.pos BY <1>3, <1>7, <2>1, <3>2
      <4>2. files[Diff[m][i]] = m BY <1>2, <4>1 DEF RInv, Written
      <4>3. Diff[m][i] \in Files BY <1>3, DiffType
      <4> QED BY <1>5, <4>2, <4>3
    <3> QED BY <3>1, <3>2
  <2> QED BY <1>4, <2>1 DEF Written, PutBack
<1>13. /\ TreeOf = TreeWith(s, files) /\ TreeOf' = TreeWith(t, files')
       /\ DOMAIN TreeOf = Files /\ DOMAIN TreeOf' = Files
       /\ TreeOf = [f \in Files |-> TreeOf[f]] /\ TreeOf' = [f \in Files |-> TreeOf'[f]]
  BY <1>3, <1>4, <1>9, TreeAt, TreeIs, TreeWillBe
<1>14. ASSUME NEW f \in Files
       PROVE  /\ f # Target => TreeOf'[f] = TreeOf[f]
              /\ section.op = "apply" => TreeOf'[f] = TreeOf[f]
              /\ section.op = "test" /\ f = Target =>
                   TreeOf[f] = files[f] /\ TreeOf'[f] = content
  <2>1. CASE section.op = "apply"
    <3>1. CASE f \in Cover(s)
      <4>1. PICK i \in DOMAIN s : s[i].file = f BY <3>1 DEF Cover
      <4>2. TreeWith(s, files)[f] = s[i].old BY <1>3, <4>1, TreeAt
      <4>3. TreeWith(s, files')[f] = s[i].old BY <1>3, <4>1, TreeAt
      <4> QED BY <1>8, <1>13, <2>1, <4>2, <4>3
    <3>2. CASE f \notin Cover(s)
      <4>1. f # Target BY <1>6, <1>8, <2>1, <3>2
      <4>2. files'[f] = files[f] BY <1>5, <4>1
      <4>3. TreeWith(s, files)[f] = files[f] BY <1>3, <3>2, TreeAt
      <4>4. TreeWith(s, files')[f] = files'[f] BY <1>3, <3>2, TreeAt
      <4> QED BY <1>8, <1>13, <2>1, <4>1, <4>2, <4>3, <4>4
    <3> QED BY <3>1, <3>2
  <2>2. CASE section.op = "test"
    <3>1. /\ Target \notin Cover(s) /\ DOMAIN s \subseteq DOMAIN t
          /\ \A i \in DOMAIN s : t[i] = s[i]
          /\ section.pos \in DOMAIN t
          /\ t[section.pos] = [file |-> Target, old |-> content]
          /\ \A i \in DOMAIN t : i \in DOMAIN s \/ i = section.pos
      BY <1>1, <2>2, SavesOnce DEF t
    <3>2. t[section.pos].file = Target /\ t[section.pos].old = content
      BY <3>1
    <3>3. CASE f = Target
      <4>1. TreeWith(s, files)[f] = files[f] BY <1>3, <3>1, <3>3, TreeAt
      <4>2. TreeWith(t, files')[f] = content BY <1>9, <3>1, <3>2, <3>3, TreeAt
      <4> QED BY <1>13, <2>2, <3>3, <4>1, <4>2
    <3>4. CASE f # Target /\ f \in Cover(s)
      <4>1. PICK i \in DOMAIN s : s[i].file = f BY <3>4 DEF Cover
      <4>2. i \in DOMAIN t /\ t[i] = s[i] BY <3>1
      <4>3. TreeWith(s, files)[f] = s[i].old BY <1>3, <4>1, TreeAt
      <4>4. TreeWith(t, files')[f] = s[i].old BY <1>9, <4>1, <4>2, TreeAt
      <4> QED BY <1>13, <2>2, <3>4, <4>3, <4>4
    <3>5. CASE f # Target /\ f \notin Cover(s)
      <4>1. f \notin Cover(t) BY <3>1, <3>2, <3>5 DEF Cover
      <4>2. files'[f] = files[f] BY <1>5, <3>5
      <4>3. TreeWith(s, files)[f] = files[f] BY <1>3, <3>5, TreeAt
      <4>4. TreeWith(t, files')[f] = files'[f] BY <1>9, <4>1, TreeAt
      <4> QED BY <1>13, <2>2, <3>5, <4>2, <4>3, <4>4
    <3> QED BY <3>3, <3>4, <3>5
  <2> QED BY <1>2, <2>1, <2>2
<1>15. section.op = "apply" => TreeOf' = TreeOf BY <1>13, <1>14
<1>16. BaseOf' = BaseOf BY <1>5, BaseIs, BaseWillBe
<1>17. RInv' BY <1>10, <1>11, <1>12 DEF RInv
<1> QED BY <1>3, <1>6, <1>13, <1>14, <1>15, <1>16, <1>17

(* A test that saves a file without text has lost it. *)
LEMMA WriteFileRefines ==
  ASSUME Single, IInv, RInv, WriteFile
  PROVE  RInv' /\ [Abstract!Next]_(Abstract!vars)
<1> DEFINE m == section.mod
<1>1. Write(Read(Target)) /\ mishaps' = mishaps BY DEF WriteFile
<1>2. section.op \in {"test", "apply"} BY <1>1 DEF Write, Stage
<1>3. /\ RInv' /\ BaseOf' = BaseOf /\ m \in Mods
      /\ Target \in CodeFiles(m) /\ Target \in Files
      /\ DOMAIN TreeOf' = Files
      /\ \A f \in Files : f # Target => TreeOf'[f] = TreeOf[f]
      /\ section.op = "apply" => TreeOf' = TreeOf
      /\ section.op = "test" => /\ TreeOf[Target] = files[Target]
                                /\ TreeOf'[Target] = Read(Target)
  BY <1>1, WriteRefines
<1>4. /\ TreeOf = [f \in Files |-> TreeOf[f]] /\ TreeOf' = [f \in Files |-> TreeOf'[f]]
  BY DEF TreeOf
<1>5. CASE section.op = "apply" BY <1>1, <1>3, <1>5, IsStutter DEF Idle
<1>6. CASE section.op = "test" /\ ~Void(Target, files[Target])
  <2>1. Read(Target) = files[Target] BY <1>6 DEF Read
  <2>2. TreeOf' = TreeOf BY <1>3, <1>4, <1>6, <2>1
  <2> QED BY <1>1, <1>3, <2>2, IsStutter DEF Idle
<1>7. CASE section.op = "test" /\ Void(Target, files[Target])
  <2>1. Read(Target) = Absent BY <1>7 DEF Read
  <2>2. TreeOf' = [f \in Files |-> IF f \in {Target} THEN Absent ELSE TreeOf[f]]
    BY <1>3, <1>4, <1>7, <2>1
  <2>3. \A f \in {Target} : /\ f \in Files /\ TreeOf[f] \in Contents
                            /\ Void(f, TreeOf[f])
    <3>1. files[Target] \in Contents BY <1>3 DEF IInv, TypeOK
    <3> QED BY <1>3, <1>7, <3>1
  <2>4. {Target} \in SUBSET CodeFiles(m) BY <1>3
  <2> HIDE DEF m
  <2>5. Abstract!Next BY <1>1, <1>3, <2>2, <2>3, <2>4, IsDrop
  <2> QED BY <1>3, <2>5
<1> QED BY <1>2, <1>5, <1>6, <1>7

(* A test that takes a file for a new one tears its modification. *)
LEMMA WriteUnreadRefines ==
  ASSUME Single, IInv, RInv, WriteUnread
  PROVE  RInv' /\ Abstract!Next
<1>1. Write(Absent) /\ mishaps' = mishaps + 1 BY DEF WriteUnread, MishapHappens
<1>2. /\ RInv' /\ BaseOf' = BaseOf /\ section.mod \in Mods
      /\ Target \in CodeFiles(section.mod) /\ DOMAIN TreeOf' = Files
      /\ \A f \in Files : f # Target => TreeOf'[f] = TreeOf[f]
  BY <1>1, WriteRefines
<1>3. Abstract!Next BY <1>1, <1>2, IsTear
<1> QED BY <1>2, <1>3

(* A step of the section that tears no more than its modification.         *)
LEMMA Tears ==
  ASSUME NEW m \in Mods, NEW s, NEW t, Distinct(s), Distinct(t),
         Cover(s) \subseteq CodeFiles(m), Cover(t) \subseteq CodeFiles(m),
         TreeOf = TreeWith(s, files), TreeOf' = TreeWith(t, files),
         rollback' = rollback, mishaps' = mishaps + 1
  PROVE  Abstract!Next
<1>1. BaseOf' = BaseOf BY BaseIs, BaseWillBe
<1>2. \A f \in Files \ CodeFiles(m) : TreeOf'[f] = TreeOf[f]
  <2> TAKE f \in Files \ CodeFiles(m)
  <2>1. f \notin Cover(s) /\ f \notin Cover(t) OBVIOUS
  <2> QED BY <2>1, TreeAt
<1>3. DOMAIN TreeOf' = Files BY TreeAt
<1> QED BY <1>1, <1>2, <1>3, IsTear

LEMMA WriteFailsRefines ==
  ASSUME Single, IInv, RInv, WriteFails
  PROVE  RInv' /\ Abstract!Next
<1> DEFINE m == section.mod
           s == section.saved
<1>1. Stage({"test", "apply"}, "write") /\ MoreToWrite BY DEF WriteFails
<1>2. section.op \in {"test", "apply"} /\ section.stage # "none" BY <1>1 DEF Stage
<1>3. m \in Mods /\ Distinct(s) /\ Cover(s) \subseteq CodeFiles(m)
  BY <1>2, SectionFacts
<1>4. UNCHANGED <<files, rollback>> /\ mishaps' = mishaps + 1
  BY DEF WriteFails, MishapHappens
<1>5. TreeOf = TreeWith(s, files) BY TreeIs
<1>6. CASE section.op = "test"
  <2>0. PICK content \in {Read(Target), Absent} :
          section' = RestoreSection("test", m, Saving(content), "failed")
    BY <1>6 DEF WriteFails
  <2> DEFINE t == Saving(content)
  <2>1. /\ section'.mod = m /\ section'.stage = "restore"
        /\ section'.pos = 1 /\ section'.saved = t
    BY <2>0 DEF RestoreSection
  <2>2. /\ Cover(t) \subseteq CodeFiles(m) /\ t \in Seq(Entry)
    BY <1>1, SavedNext DEF IInv
  <2>3. Distinct(t) BY <1>1, <1>6, SavesOnce
  <2> HIDE DEF t
  <2>4. SnapshotsDistinct' BY <1>4 DEF RInv, SnapshotsDistinct
  <2>5. SavedOnce' BY <2>1, <2>2, <2>3 DEF SavedOnce
  <2>6. DOMAIN t = 1..Len(t) /\ Len(t) \in Nat BY <2>2, LenProperties
  <2>7. Written' /\ PutBack' BY <2>1, <2>6 DEF Written, PutBack
  <2>8. TreeOf' = TreeWith(t, files) BY <1>4, <2>1, TreeWillBe
  <2>9. Abstract!Next BY <1>3, <1>4, <1>5, <2>2, <2>3, <2>8, Tears
  <2> QED BY <2>4, <2>5, <2>7, <2>9 DEF RInv
<1>7. CASE section.op = "apply"
  <2>1. section' = Between("idle") BY <1>7 DEF WriteFails
  <2>2. RInv' BY <1>4, <2>1, BetweenKeeps DEF IInv
  <2>3. section'.saved = <<>> BY <2>1 DEF Between
  <2>4. TreeOf' = TreeWith(<<>>, files) BY <1>4, <2>3, TreeWillBe
  <2>5. Distinct(<<>>) /\ Cover(<<>>) \subseteq CodeFiles(m) BY NothingSaved
  <2>6. Abstract!Next BY <1>3, <1>4, <1>5, <2>4, <2>5, Tears
  <2> QED BY <2>2, <2>6
<1> QED BY <1>2, <1>6, <1>7

(* Storing what the section has saved is snapshotting the tree. *)
LEMMA StoreIsSnapshot ==
  ASSUME IInv, RInv, section.stage # "none",
         Cover(section.saved) = CodeFiles(section.mod),
         rollback' = [rollback EXCEPT ![section.mod] = section.saved]
  PROVE  /\ SnapshotsDistinct'
         /\ BaseOf' = [BaseOf EXCEPT ![section.mod] =
                         [f \in CodeFiles(section.mod) |-> TreeOf[f]]]
<1> DEFINE m == section.mod
           s == section.saved
<1>1. /\ m \in Mods /\ Distinct(s) /\ Cover(s) \subseteq Files
  BY SectionFacts
<1>2. \A k \in Mods : rollback'[k] = IF k = m THEN s ELSE rollback[k]
  BY DEF IInv, TypeOK
<1>3. SnapshotsDistinct' BY <1>1, <1>2 DEF RInv, SnapshotsDistinct
<1>4. BaseWith(s) = [f \in CodeFiles(m) |-> TreeOf[f]]
  <2>1. ASSUME NEW f \in Cover(s) PROVE BaseWith(s)[f] = TreeOf[f]
    <3>1. PICK i \in DOMAIN s : s[i].file = f BY DEF Cover
    <3>2. BaseWith(s)[f] = s[i].old BY <1>1, <3>1, BaseAt
    <3>3. TreeWith(s, files)[f] = s[i].old BY <1>1, <3>1, TreeAt
    <3> QED BY <3>2, <3>3, TreeIs
  <2>2. BaseWith(s) = [f \in Cover(s) |-> BaseWith(s)[f]] BY <1>1, BaseAt
  <2> QED BY <2>1, <2>2
<1>5. BaseOf = [k \in Mods |-> BaseWith(rollback[k])] BY BaseIs
<1>6. BaseOf' = [k \in Mods |-> BaseWith(rollback'[k])] BY BaseWillBe
<1>7. \A k \in Mods : BaseOf'[k] = IF k = m THEN BaseWith(s) ELSE BaseOf[k]
  <2> SUFFICES ASSUME NEW k \in Mods
               PROVE  BaseOf'[k] = IF k = m THEN BaseWith(s) ELSE BaseOf[k]
    OBVIOUS
  <2>1. BaseOf'[k] = BaseWith(rollback'[k]) BY <1>6
  <2>2. BaseOf[k] = BaseWith(rollback[k]) BY <1>5
  <2>3. CASE k = m
    <3>1. rollback'[k] = s BY <1>2, <2>3
    <3> QED BY <2>1, <2>3, <3>1
  <2>4. CASE k # m
    <3>1. rollback'[k] = rollback[k] BY <1>2, <2>4
    <3> QED BY <2>1, <2>2, <2>4, <3>1
  <2> QED BY <2>3, <2>4
<1>8. BaseOf' = [BaseOf EXCEPT ![m] = BaseWith(s)]
  <2> HIDE DEF s, m
  <2> QED BY <1>5, <1>6, <1>7
<1> QED BY <1>3, <1>4, <1>8

(* A test stores its snapshot: to PatchedTree, this is the whole test. *)
LEMMA AllWrittenRefines ==
  ASSUME IInv, IInv', RInv, AllWritten
  PROVE  RInv' /\ [Abstract!Next]_(Abstract!vars)
<1> DEFINE m == section.mod
           s == section.saved
<1>1. Stage({"test", "apply"}, "write") /\ ~MoreToWrite BY DEF AllWritten
<1>2. section.op \in {"test", "apply"} /\ section.stage = "write"
      /\ section.stage # "none"
  BY <1>1 DEF Stage
<1>3. /\ m \in Mods /\ section.pos \in Nat /\ Distinct(s)
      /\ Cover(s) \subseteq CodeFiles(m)
  BY <1>2, SectionFacts
<1>4. /\ section'.op = section.op /\ section'.mod = m /\ section'.stage = "build"
      /\ section'.pos = section.pos /\ section'.saved = s
  BY DEF AllWritten, IInv, TypeOK, Section
<1>5. UNCHANGED <<files, mishaps>> BY DEF AllWritten
<1>6. Cover(s) = CodeFiles(m)
  <2>1. (section.stage = "build" => Cover(section.saved) = CodeFiles(section.mod))'
    BY DEF IInv, TreeInv, SavedSoFar
  <2> QED BY <1>4, <2>1
<1>7. SavedOnce' BY <1>3, <1>4 DEF SavedOnce
<1>8. section.pos > Len(Diff[m])
  BY <1>3, DiffType DEF AllWritten, MoreToWrite
<1>9. Written' /\ PutBack'
  BY <1>2, <1>4, <1>5, <1>8 DEF RInv, Written, PutBack
<1>10. TreeOf' = TreeOf BY <1>4, <1>5, TreeIs, TreeWillBe
<1>11. CASE section.op = "test"
  <2>1. rollback' = [rollback EXCEPT ![m] = s] BY <1>11 DEF AllWritten
  <2>2. SnapshotsDistinct' BY <1>2, <1>6, <2>1, StoreIsSnapshot
  <2>3. BaseOf' = [BaseOf EXCEPT ![m] = [f \in CodeFiles(m) |-> TreeOf[f]]]
    BY <1>2, <1>6, <2>1, StoreIsSnapshot
  <2>4. Abstract!Next BY <1>3, <1>5, <1>10, <2>3, IsTest
  <2> QED BY <1>7, <1>9, <2>2, <2>4 DEF RInv
<1>12. CASE section.op = "apply"
  <2>1. rollback' = rollback BY <1>12 DEF AllWritten
  <2>2. SnapshotsDistinct' BY <2>1 DEF RInv, SnapshotsDistinct
  <2>3. BaseOf' = BaseOf BY <2>1, BaseIs, BaseWillBe
  <2>4. Idle BY <1>5, <1>10, <2>3 DEF Idle
  <2> QED BY <1>7, <1>9, <2>2, <2>4, IsStutter DEF RInv
<1> QED BY <1>2, <1>11, <1>12

(* A section at its build turns to restoring what it saved. *)
LEMMA TurnsBack ==
  ASSUME IInv, RInv, section.stage # "none", NEW op, NEW verdict,
         section' = RestoreSection(op, section.mod, section.saved, verdict),
         UNCHANGED <<files, rollback, mishaps>>
  PROVE  RInv' /\ Idle
<1>1. /\ section'.mod = section.mod /\ section'.stage = "restore"
      /\ section'.pos = 1 /\ section'.saved = section.saved
  BY DEF RestoreSection
<1>2. SnapshotsDistinct' BY DEF RInv, SnapshotsDistinct
<1>3. SavedOnce' BY <1>1 DEF RInv, SavedOnce
<1>4. \A i \in DOMAIN section.saved : ~(i < 1) BY SectionFacts
<1>5. Written' /\ PutBack' BY <1>1, <1>4 DEF Written, PutBack
<1>6. TreeOf' = TreeOf BY <1>1, TreeIs, TreeWillBe
<1>7. BaseOf' = BaseOf BY BaseIs, BaseWillBe
<1> QED BY <1>2, <1>3, <1>5, <1>6, <1>7 DEF RInv, Idle

(* The build of an apply passes: all its files hold the modification, and  *)
(* from here on they count.                                                *)
LEMMA BuildPassesRefines ==
  ASSUME IInv, RInv, BuildPasses
  PROVE  RInv' /\ [Abstract!Next]_(Abstract!vars)
<1> DEFINE m == section.mod
           s == section.saved
<1>1. section.op \in {"test", "apply"} /\ section.stage = "build"
      /\ section.stage # "none"
  BY DEF BuildPasses, Stage
<1>2. /\ m \in Mods /\ section.pos \in Nat /\ Distinct(s)
      /\ Cover(s) = CodeFiles(m) /\ CodeFiles(m) \subseteq Files
  BY <1>1, SectionFacts, CodeFilesAreFiles DEF IInv, TreeInv, SavedSoFar
<1>3. UNCHANGED <<files, mishaps>> /\ files \in [Files -> Contents]
  BY DEF BuildPasses, IInv, TypeOK
<1>4. CASE section.op = "test"
  <2>1. /\ section' = RestoreSection("test", section.mod, section.saved, "ready")
        /\ rollback' = rollback
    BY <1>4 DEF BuildPasses
  <2>2. RInv' /\ Idle BY <1>1, <1>3, <2>1, TurnsBack
  <2> QED BY <2>2, IsStutter
<1>5. CASE section.op = "apply"
  <2>1. section' = Between("idle") /\ rollback' = [rollback EXCEPT ![m] = s]
    BY <1>5 DEF BuildPasses
  <2>2. /\ SnapshotsDistinct'
        /\ BaseOf' = [BaseOf EXCEPT ![m] = [f \in CodeFiles(m) |-> TreeOf[f]]]
    BY <1>1, <1>2, <2>1, StoreIsSnapshot
  <2>3. section'.saved = <<>> /\ section'.stage = "none" BY <2>1 DEF Between
  <2>4. SavedOnce' BY <2>3, NothingSaved DEF SavedOnce
  <2>5. Written' /\ PutBack' BY <2>3 DEF Written, PutBack
  <2>6. TreeOf' = files BY <1>3, <2>3, NothingSaved, TreeWillBe
  <2>7. ASSUME NEW f \in Files
        PROVE  files[f] = IF f \in CodeFiles(m) THEN m ELSE TreeOf[f]
    <3>1. CASE f \in CodeFiles(m)
      <4>1. PICK i \in DOMAIN Diff[m] : Diff[m][i] = f BY <3>1 DEF CodeFiles
      <4>2. i < section.pos
        BY <1>1, <1>2, <4>1, DiffType DEF RInv, Written
      <4> QED BY <1>1, <3>1, <4>1, <4>2 DEF RInv, Written
    <3>2. CASE f \notin CodeFiles(m) BY <1>2, <3>2, TreeAt, TreeIs
    <3> QED BY <3>1, <3>2
  <2>8. TreeOf' = [f \in Files |-> IF f \in CodeFiles(m) THEN m ELSE TreeOf[f]]
    BY <1>3, <2>6, <2>7
  <2>9. Abstract!Next BY <1>2, <1>3, <2>2, <2>8, IsLand
  <2> QED BY <2>2, <2>4, <2>5, <2>9 DEF RInv
<1> QED BY <1>1, <1>4, <1>5

LEMMA RestoreFileRefines ==
  ASSUME IInv, RInv, RestoreFile
  PROVE  RInv' /\ Idle
<1> DEFINE s == section.saved
           entry == s[section.pos]
<1>1. section.stage = "restore" /\ section.stage # "none" BY DEF RestoreFile
<1>2. /\ section.mod \in Mods /\ section.pos \in Nat /\ section.pos >= 1
      /\ Len(s) \in Nat /\ DOMAIN s = 1..Len(s)
      /\ Distinct(s) /\ Cover(s) \subseteq CodeFiles(section.mod)
      /\ Cover(s) \subseteq Files
  BY <1>1, SectionFacts
<1>3. section.pos \in DOMAIN s BY <1>2 DEF RestoreFile
<1>4. /\ section'.mod = section.mod /\ section'.stage = "restore"
      /\ section'.pos = section.pos + 1 /\ section'.saved = s
  BY <1>1 DEF RestoreFile, IInv, TypeOK, Section
<1>5. /\ files' = [files EXCEPT ![entry.file] = entry.old]
      /\ files \in [Files -> Contents] /\ UNCHANGED <<rollback, mishaps>>
  BY DEF RestoreFile, IInv, TypeOK
<1>6. \A i \in DOMAIN s : s[i].file \in Files BY <1>2 DEF Cover
<1>7. SnapshotsDistinct' BY <1>5 DEF RInv, SnapshotsDistinct
<1>8. SavedOnce' BY <1>2, <1>4 DEF SavedOnce
<1>9. ASSUME NEW i \in DOMAIN s, i < section.pos + 1
      PROVE  files'[s[i].file] = s[i].old
  <2>1. CASE i = section.pos BY <1>5, <1>6, <2>1
  <2>2. CASE i # section.pos
    <3>1. i < section.pos BY <1>2, <1>9, <2>2
    <3>2. files[s[i].file] = s[i].old BY <1>1, <3>1 DEF RInv, PutBack
    <3>3. s[i].file # entry.file BY <1>2, <1>3, <2>2 DEF Distinct
    <3> QED BY <1>5, <1>6, <3>2, <3>3
  <2> QED BY <2>1, <2>2
<1>10. Written' /\ PutBack' BY <1>4, <1>9 DEF Written, PutBack
<1>11. TreeWith(s, files') = TreeWith(s, files)
  <2>1. ASSUME NEW f \in Files PROVE TreeWith(s, files')[f] = TreeWith(s, files)[f]
    <3>1. CASE f \in Cover(s)
      <4>1. PICK i \in DOMAIN s : s[i].file = f BY <3>1 DEF Cover
      <4>2. TreeWith(s, files)[f] = s[i].old BY <1>2, <4>1, TreeAt
      <4>3. TreeWith(s, files')[f] = s[i].old BY <1>2, <4>1, TreeAt
      <4> QED BY <4>2, <4>3
    <3>2. CASE f \notin Cover(s)
      <4>1. f # entry.file BY <1>3, <3>2 DEF Cover
      <4>2. files'[f] = files[f] BY <1>5, <4>1
      <4>3. TreeWith(s, files)[f] = files[f] BY <1>2, <3>2, TreeAt
      <4>4. TreeWith(s, files')[f] = files'[f] BY <1>2, <3>2, TreeAt
      <4> QED BY <4>2, <4>3, <4>4
    <3> QED BY <3>1, <3>2
  <2>2. TreeWith(s, files) = [f \in Files |-> TreeWith(s, files)[f]] BY <1>2, TreeAt
  <2>3. TreeWith(s, files') = [f \in Files |-> TreeWith(s, files')[f]] BY <1>2, TreeAt
  <2> QED BY <2>1, <2>2, <2>3
<1>12. TreeOf' = TreeOf BY <1>4, <1>11, TreeIs, TreeWillBe
<1>13. BaseOf' = BaseOf BY <1>5, BaseIs, BaseWillBe
<1> QED BY <1>5, <1>7, <1>8, <1>10, <1>12, <1>13 DEF RInv, Idle

(* The file that cannot be restored keeps what it holds. *)
LEMMA RestoreFailsRefines ==
  ASSUME IInv, RInv, RestoreFails
  PROVE  RInv' /\ Abstract!Next
<1> DEFINE m == section.mod
           s == section.saved
           p == section.pos
           t == SubSeq(s, 1, p - 1) \o SubSeq(s, p + 1, Len(s))
<1>1. section.stage = "restore" /\ section.stage # "none" BY DEF RestoreFails
<1>2. /\ m \in Mods /\ p \in Nat /\ p >= 1 /\ p <= Len(s) /\ s \in Seq(Entry)
      /\ Len(s) \in Nat /\ DOMAIN s = 1..Len(s)
      /\ Distinct(s) /\ Cover(s) \subseteq CodeFiles(m)
  BY <1>1, SectionFacts DEF RestoreFails
<1>3. /\ DOMAIN t = 1..(Len(s) - 1)
      /\ \A i \in DOMAIN t : t[i] = s[IF i < p THEN i ELSE i + 1]
  BY <1>2, WithoutEntry
<1>4. section' = [section EXCEPT !.saved = t] BY DEF RestoreFails
<1> HIDE DEF t
<1>5. /\ section'.mod = m /\ section'.stage = "restore"
      /\ section'.pos = p /\ section'.saved = t
  BY <1>1, <1>4 DEF IInv, TypeOK, Section
<1>6. UNCHANGED <<files, rollback>> /\ mishaps' = mishaps + 1
  BY DEF RestoreFails, MishapHappens
<1>7. \A i \in DOMAIN t : (IF i < p THEN i ELSE i + 1) \in DOMAIN s
  BY <1>2, <1>3
<1>8. Cover(t) \subseteq CodeFiles(m)
  <2>1. Cover(t) \subseteq Cover(s) BY <1>3, <1>7 DEF Cover
  <2> QED BY <1>2, <2>1
<1>9. Distinct(t)
  <2> SUFFICES ASSUME NEW i \in DOMAIN t, NEW j \in DOMAIN t, t[i].file = t[j].file
               PROVE  i = j
    BY DEF Distinct
  <2> DEFINE k(x) == IF x < p THEN x ELSE x + 1
  <2>1. k(i) \in DOMAIN s /\ k(j) \in DOMAIN s BY <1>7
  <2>2. s[k(i)].file = s[k(j)].file BY <1>3
  <2> HIDE DEF k
  <2>3. k(i) = k(j) BY <1>2, <2>1, <2>2 DEF Distinct
  <2>4. i \in Nat /\ j \in Nat BY <1>2, <1>3
  <2> QED BY <1>2, <2>3, <2>4 DEF k
<1>10. SnapshotsDistinct' BY <1>6 DEF RInv, SnapshotsDistinct
<1>11. SavedOnce' BY <1>5, <1>8, <1>9 DEF SavedOnce
<1>12. ASSUME NEW i \in DOMAIN t, i < p PROVE files[t[i].file] = t[i].old
  <2>1. t[i] = s[i] /\ i \in DOMAIN s BY <1>3, <1>7, <1>12
  <2> QED BY <1>1, <1>12, <2>1 DEF RInv, PutBack
<1>13. Written' /\ PutBack' BY <1>5, <1>6, <1>12 DEF Written, PutBack
<1>14. TreeOf = TreeWith(s, files) /\ TreeOf' = TreeWith(t, files)
  BY <1>5, <1>6, TreeIs, TreeWillBe
<1>15. Abstract!Next BY <1>2, <1>6, <1>8, <1>9, <1>14, Tears
<1> QED BY <1>10, <1>11, <1>13, <1>15 DEF RInv

(* All that was saved is back: the tree is what it was said to be. *)
LEMMA RestoredRefines ==
  ASSUME IInv, RInv, Restored
  PROVE  RInv' /\ Idle
<1> DEFINE s == section.saved
<1>1. section.stage = "restore" /\ section.stage # "none" BY DEF Restored
<1>2. /\ section.pos \in Nat /\ Len(s) \in Nat /\ DOMAIN s = 1..Len(s)
      /\ Distinct(s) /\ Cover(s) \subseteq Files
  BY <1>1, SectionFacts
<1>3. PICK op : section' = Between(op) BY DEF Restored
<1>4. UNCHANGED <<files, rollback, mishaps>> /\ files \in [Files -> Contents]
  BY DEF Restored, IInv, TypeOK
<1>5. RInv' /\ TreeOf' = files /\ BaseOf' = BaseOf
  BY <1>3, <1>4, BetweenKeeps DEF IInv
<1>6. ASSUME NEW f \in Files PROVE TreeWith(s, files)[f] = files[f]
  <2>1. CASE f \notin Cover(s) BY <1>2, <2>1, TreeAt
  <2>2. CASE f \in Cover(s)
    <3>1. PICK i \in DOMAIN s : s[i].file = f BY <2>2 DEF Cover
    <3>2. i < section.pos BY <1>2 DEF Restored
    <3>3. files[f] = s[i].old BY <1>1, <3>1, <3>2 DEF RInv, PutBack
    <3>4. TreeWith(s, files)[f] = s[i].old BY <1>2, <3>1, TreeAt
    <3> QED BY <3>3, <3>4
  <2> QED BY <2>1, <2>2
<1>7. TreeWith(s, files) = [f \in Files |-> TreeWith(s, files)[f]] BY <1>2, TreeAt
<1>8. TreeOf = files BY <1>4, <1>6, <1>7, TreeIs
<1> QED BY <1>4, <1>5, <1>8 DEF Idle

(* A crash leaves the files of its section as they are at that moment. *)
LEMMA CrashRefines ==
  ASSUME Single, IInv, RInv, Crash
  PROVE  RInv' /\ Abstract!Next
<1> DEFINE s == section.saved
<1>1. section' = Between("down") /\ UNCHANGED <<files, rollback>>
      /\ mishaps' = mishaps + 1
  BY DEF Crash, MishapHappens
<1>2. RInv' BY <1>1, BetweenKeeps DEF IInv
<1>3. \E m \in Mods : Distinct(s) /\ Cover(s) \subseteq CodeFiles(m)
  <2>1. CASE section.stage # "none" BY <2>1, SectionFacts
  <2>2. CASE section.stage = "none"
    <3>1. s = <<>> BY <2>2 DEF IInv, TreeInv, SectionShape, Between
    <3> QED BY <3>1, NothingSaved DEF Single
  <2> QED BY <2>1, <2>2
<1>4. section'.saved = <<>> BY <1>1 DEF Between
<1>5. TreeOf = TreeWith(s, files) /\ TreeOf' = TreeWith(<<>>, files)
  BY <1>1, <1>4, TreeIs, TreeWillBe
<1>6. Distinct(<<>>) /\ \A m \in Mods : Cover(<<>>) \subseteq CodeFiles(m)
  BY NothingSaved
<1>7. Abstract!Next BY <1>1, <1>3, <1>5, <1>6, Tears
<1> QED BY <1>2, <1>7

---------------------------------------------------------------------------
(* The theorem. *)

LEMMA RefinedInit == Init => RInv /\ Abstract!Init
<1> SUFFICES ASSUME Init PROVE RInv /\ Abstract!Init OBVIOUS
<1>1. section.saved = <<>> /\ section.stage = "none" BY DEF Init, Between
<1>2. rollback = [m \in Mods |-> <<>>] /\ mishaps = 0 BY DEF Init
<1>3. files \in [Files -> Contents] BY DiffAssumption DEF Init, Contents
<1>4. SnapshotsDistinct BY <1>2, NothingSaved DEF SnapshotsDistinct
<1>5. SavedOnce BY <1>1, NothingSaved DEF SavedOnce
<1>6. Written /\ PutBack BY <1>1 DEF Written, PutBack
<1>7. TreeOf = files BY <1>1, <1>3, NothingSaved, TreeIs
<1>8. BaseOf = [m \in Mods |-> Abstract!NoBase]
  <2>1. BaseWith(<<>>) = [f \in {} |-> f] BY DEF BaseWith
  <2>2. BaseOf = [m \in Mods |-> BaseWith(rollback[m])] BY BaseIs
  <2>3. \A m \in Mods : BaseWith(rollback[m]) = [f \in {} |-> f] BY <1>2, <2>1
  <2> QED BY <2>2, <2>3 DEF Abstract!NoBase
<1> QED BY <1>2, <1>3, <1>4, <1>5, <1>6, <1>7, <1>8 DEF RInv, Abstract!Init

LEMMA RefinedStep ==
  ASSUME Single, IInv, IInv', RInv, [Next]_vars
  PROVE  RInv' /\ [Abstract!Next]_(Abstract!vars)
<1> DEFINE Goal == RInv' /\ [Abstract!Next]_(Abstract!vars)
<1>0. TypeOK /\ SnapshotsWhole BY DEF IInv, TreeInv
<1>1. ASSUME NEW m \in Mods, ModStep(m) PROVE Goal
  <2>1. CASE \/ Propose(m) \/ Step40(m) \/ GenerateSucceeds(m)
             \/ \E tooLong \in BOOLEAN : GenerateFails(m, tooLong)
             \/ StartTest(m) \/ SandboxRejects(m) \/ Reject(m)
    <3>1. UNCHANGED <<section, files, rollback, mishaps>>
      BY <2>1 DEF Propose, Step40, GenerateSucceeds, GenerateFails, StartTest,
                  SandboxRejects, Reject
    <3> QED BY <3>1, AsideRefines, IsStutter
  <2>2. CASE SandboxAccepts(m)
    BY <1>0, <2>2, SandboxAcceptsRefines, IsStutter
  <2>3. CASE \E unread \in SUBSET DOMAIN Diff[m] :
               Approve(m, unread) \/ AutoApply(m, unread)
    <3>1. \E unread : Free /\ StartApply(m, unread) /\ UNCHANGED <<files, rollback>>
      BY <2>3 DEF Approve, AutoApply
    <3> QED BY <1>0, <3>1, ApplyRefines
  <2>4. CASE Rollback(m)
    <3>1. /\ section' = RestoreSection("rollback", m, rollback[m], "rolled_back")
          /\ UNCHANGED <<files, rollback, mishaps>> /\ section.saved = <<>>
      BY <2>4 DEF Rollback, Free, Between
    <3> QED BY <1>0, <3>1, UndoRefines
  <2> QED BY <1>1, <2>1, <2>2, <2>3, <2>4 DEF ModStep, Answer
<1>2. ASSUME NEW m \in Mods, Recover(m) PROVE Goal
  <2>1. /\ section' = RestoreSection("recover", m, rollback[m], "failed")
        /\ UNCHANGED <<files, rollback, mishaps>> /\ section.saved = <<>>
    BY <1>2 DEF Recover, Between
  <2> QED BY <1>0, <2>1, UndoRefines
<1>3. CASE WriteFile BY <1>3, WriteFileRefines
<1>14. CASE WriteUnread BY <1>14, WriteUnreadRefines
<1>4. CASE AllWritten BY <1>4, AllWrittenRefines
<1>5. CASE BuildPasses BY <1>5, BuildPassesRefines
<1>6. CASE BuildFails
  <2>1. /\ section.stage # "none"
        /\ section' = RestoreSection(section.op, section.mod, section.saved, "failed")
        /\ UNCHANGED <<files, rollback, mishaps>>
    BY <1>6 DEF BuildFails, Stage
  <2> QED BY <2>1, TurnsBack, IsStutter
<1>7. CASE RestoreFile BY <1>7, RestoreFileRefines, IsStutter
<1>8. CASE Restored BY <1>8, RestoredRefines, IsStutter
<1>9. CASE Restart \/ Recovered
  <2>1. \E op : section = Between(op) BY <1>9 DEF Restart, Recovered
  <2> QED BY <1>0, <1>9, <2>1, RestRefines, IsStutter
<1>10. CASE WriteFails BY <1>10, WriteFailsRefines
<1>11. CASE RestoreFails BY <1>11, RestoreFailsRefines
<1>12. CASE Crash BY <1>12, CrashRefines
<1>13. CASE HourPasses \/ UNCHANGED vars
  <2>1. UNCHANGED <<section, files, rollback, mishaps>>
    BY <1>13 DEF HourPasses, vars
  <2> QED BY <2>1, AsideRefines, IsStutter
<1> QED
  BY <1>1, <1>2, <1>3, <1>4, <1>5, <1>6, <1>7, <1>8, <1>9, <1>10, <1>11, <1>12, <1>13,
     <1>14
  DEF Next, SectionStep, Mishap

(* If no diff names a file twice, then seen from outside its sections the  *)
(* engine patches whole modifications: a test and a failed apply are       *)
(* invisible but for the files without text that they delete, an apply     *)
(* lands all files at once, a rollback and recovery go back to the last    *)
(* snapshot, and one crash, failed read or failed write tears the files of *)
(* one modification at most (testModification, applyModification,          *)
(* rollbackModification, restoreFiles, recoverFromCrash).                  *)
THEOREM PatchesAreWhole == ASSUME Single PROVE Spec => ImplementsPatchedTree
<1>1. Init => RInv /\ Abstract!Init BY RefinedInit
<1>2. IInv /\ IInv' /\ RInv /\ [Next]_vars => RInv' /\ [Abstract!Next]_(Abstract!vars)
  BY RefinedStep
<1>3. Spec => []IInv BY Invariance
<1> QED BY <1>1, <1>2, <1>3, PTL DEF Spec, ImplementsPatchedTree, Abstract!Spec
=============================================================================
