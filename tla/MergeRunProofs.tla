--------------------------- MODULE MergeRunProofs ---------------------------
(***************************************************************************)
(* Theorems about MergeRun, for any number of runs, paths and folders.     *)
(***************************************************************************)
EXTENDS MergeRun, TLAPS

USE DEF Go, MayWriteTo, Unlocked, NextAttempt, MayRetry, AllNumbers, MustBeThere

-----------------------------------------------------------------------------
(* Typing.                                                                 *)

\* A run that may call rename again has a call left.
BeforeRename == {"idle", "planned", "clear", "locking", "locked", "opened", "created",
                 "written", "flushed"}
AttemptLeft == \A r \in Runs : pc[r] \in BeforeRename => tries[r] < Attempts

Typed == TypeOK /\ AttemptLeft

LEMMA NoPlanTyped == PlanOK(NoPlan)
  <1>1. DOMAIN NoPlan.victims = {}
    BY DEF NoPlan
  <1> QED BY <1>1 DEF PlanOK, NoPlan, Num

LEMMA InitTyped == Init => Typed
  <1> SUFFICES ASSUME Init PROVE Typed OBVIOUS
  <1>1. RunsOK
    BY RunAssumption DEF Init, RunsOK, Ended
  <1>2. PlansOK
    <2>1. PlanOK(NoPlan)
      BY NoPlanTyped
    <2> QED BY <2>1 DEF Init, PlansOK
  <1>3. FilesOK
    <2>1. dir \in [Paths -> File \cup {NoFile}]
      BY PathAssumption DEF Init, File, Num, Numbers, Sources
    <2>2. lock \in [Folders -> Runs \cup {NoRun}] /\ clearing \subseteq Folders
      BY DEF Init
    <2>3. clock \in Nat /\ born \in [Paths -> 0 .. clock]
      BY DEF Init
    <2> HIDE DEF Init
    <2> QED BY <2>1, <2>2, <2>3 DEF FilesOK
  <1>4. AttemptLeft
    BY RunAssumption DEF Init, AttemptLeft
  <1> QED BY <1>1, <1>2, <1>3, <1>4 DEF Typed, TypeOK

\* What a run plans from a well-formed directory is well formed.
LEMMA PlanTyped ==
  ASSUME FilesOK, NEW r \in Runs, Plannable(r)
  PROVE  PlanOK(PlanOf(r))
  <1> USE PathAssumption, RunAssumption, NoFileAssumption
  <1> DEFINE V == Victims(From[r], To[r])
  <1>1. \A p \in V : p \in Paths /\ dir[p] \in File
    BY DEF Victims, Members, FilesOK, Readable, Exists
  <1>2. dir[From[r]] \in File
    BY DEF Plannable, FilesOK, Readable, Exists
  <1>3. V \subseteq Members(To[r]) /\ Members(To[r]) \subseteq Paths
    BY DEF Victims, Members
  <1> HIDE DEF V
  <1>4. UNION {dir[p].claims : p \in V} \subseteq Numbers
    BY <1>1 DEF File
  <1> QED BY <1>1, <1>2, <1>3, <1>4 DEF PlanOf, V, File, PlanOK

LEMMA StoredTyped ==
  ASSUME RunsOK, PlansOK, NEW r \in Runs, NEW d \in {"none", "payload", "framing"}
  PROVE  Stored(r, d) \in File
  BY DEF Stored, File, RunsOK, PlansOK, PlanOK, Num

LEMMA StepTyped == Typed /\ [Next]_vars => Typed'
  <1> SUFFICES ASSUME Typed, [Next]_vars PROVE Typed' OBVIOUS
  <1> DEFINE Good == RunsOK /\ AttemptLeft
  <1>a. Good /\ PlansOK /\ FilesOK
    BY DEF Typed, TypeOK
  <1>1. Good'
    <2> USE <1>a, RunAssumption DEF RunsOK, AttemptLeft, BeforeRename, Ended, Live, Locked,
            histVars, fsVars, runVars
    <2>1. ASSUME NEW r \in Runs, Plan(r) PROVE Good'
      BY <2>1 DEF Plan
    <2>2. ASSUME NEW r \in Runs, CheckDestination(r) PROVE Good'
      BY <2>2 DEF CheckDestination
    <2>3. ASSUME NEW r \in Runs, TakeLock(r) PROVE Good'
      BY <2>3 DEF TakeLock
    <2>4. ASSUME NEW r \in Runs, WriteLock(r) PROVE Good'
      BY <2>4 DEF WriteLock
    <2>5. ASSUME NEW r \in Runs, OpenSources(r) PROVE Good'
      <3>1. \A p \in DOMAIN plan[r].victims : Exists(p) => dir[p].holds \subseteq Numbers
        BY DEF FilesOK, PlansOK, PlanOK, File, Exists
      <3>2. (\A p \in DOMAIN plan[r].victims : Exists(p)) =>
              UNION {dir[p].holds : p \in DOMAIN plan[r].victims} \in SUBSET Numbers
        BY <3>1
      <3> QED BY <2>5, <3>2 DEF OpenSources
    <2>6. ASSUME NEW r \in Runs, CreateTemp(r) PROVE Good'
      BY <2>6 DEF CreateTemp
    <2>7. ASSUME NEW r \in Runs, WriteOutput(r) PROVE Good'
      BY <2>7 DEF WriteOutput
    <2>8. ASSUME NEW r \in Runs, Flush(r) PROVE Good'
      BY <2>8 DEF Flush
    <2>9. ASSUME NEW r \in Runs, Rename(r) PROVE Good'
      BY <2>9 DEF Rename
    <2>10. ASSUME NEW r \in Runs, JudgeRename(r) PROVE Good'
      BY <2>10 DEF JudgeRename
    <2>11. ASSUME NEW r \in Runs, ReadBack(r) PROVE Good'
      BY <2>11 DEF ReadBack
    <2>12. ASSUME NEW r \in Runs, Delete(r) PROVE Good'
      BY <2>12 DEF Delete
    <2>13. ASSUME NEW r \in Runs, DropTemp(r) PROVE Good'
      BY <2>13 DEF DropTemp
    <2>14. ASSUME NEW r \in Runs, DropLock(r) PROVE Good'
      BY <2>14 DEF DropLock
    <2>15. ASSUME NEW r \in Runs, Kill(r) PROVE Good'
      BY <2>15 DEF Kill
    <2>16. ASSUME NEW r \in Runs, Again(r) PROVE Good'
      BY <2>16 DEF Again
    <2>17. ASSUME NEW f \in Folders, ClearLock(f) PROVE Good'
      BY <2>17 DEF ClearLock
    <2>18. ASSUME NEW f \in Folders, ClearTemps(f) PROVE Good'
      BY <2>18 DEF ClearTemps
    <2>19. CASE UNCHANGED vars
      BY <2>19 DEF vars
    <2> HIDE DEF Good
    <2> QED BY <2>1, <2>2, <2>3, <2>4, <2>5, <2>6, <2>7, <2>8, <2>9,
               <2>10, <2>11, <2>12, <2>13, <2>14, <2>15, <2>16, <2>17, <2>18, <2>19 DEF Next, Step
  <1>2. PlansOK'
    <2> USE <1>a DEF PlansOK, histVars, fsVars, runVars
    <2>1. ASSUME NEW r \in Runs, Plan(r) PROVE PlansOK'
      <3>1. Plannable(r) => PlanOK(PlanOf(r))
        BY PlanTyped
      <3> HIDE DEF PlanOK
      <3> QED BY <2>1, <3>1 DEF Plan
    <2>2. ASSUME NEW r \in Runs, CheckDestination(r) PROVE PlansOK'
      BY <2>2 DEF CheckDestination
    <2>3. ASSUME NEW r \in Runs, TakeLock(r) PROVE PlansOK'
      BY <2>3 DEF TakeLock
    <2>4. ASSUME NEW r \in Runs, WriteLock(r) PROVE PlansOK'
      BY <2>4 DEF WriteLock
    <2>5. ASSUME NEW r \in Runs, OpenSources(r) PROVE PlansOK'
      BY <2>5 DEF OpenSources
    <2>6. ASSUME NEW r \in Runs, CreateTemp(r) PROVE PlansOK'
      BY <2>6 DEF CreateTemp
    <2>7. ASSUME NEW r \in Runs, WriteOutput(r) PROVE PlansOK'
      BY <2>7 DEF WriteOutput
    <2>8. ASSUME NEW r \in Runs, Flush(r) PROVE PlansOK'
      BY <2>8 DEF Flush
    <2>9. ASSUME NEW r \in Runs, Rename(r) PROVE PlansOK'
      BY <2>9 DEF Rename
    <2>10. ASSUME NEW r \in Runs, JudgeRename(r) PROVE PlansOK'
      BY <2>10 DEF JudgeRename
    <2>11. ASSUME NEW r \in Runs, ReadBack(r) PROVE PlansOK'
      <3>1. DOMAIN plan[r].victims \subseteq Paths
        BY DEF PlanOK
      <3> QED BY <2>11, <3>1 DEF ReadBack
    <2>12. ASSUME NEW r \in Runs, Delete(r) PROVE PlansOK'
      BY <2>12 DEF Delete
    <2>13. ASSUME NEW r \in Runs, DropTemp(r) PROVE PlansOK'
      BY <2>13 DEF DropTemp
    <2>14. ASSUME NEW r \in Runs, DropLock(r) PROVE PlansOK'
      BY <2>14 DEF DropLock
    <2>15. ASSUME NEW r \in Runs, Kill(r) PROVE PlansOK'
      BY <2>15 DEF Kill
    <2>16. ASSUME NEW r \in Runs, Again(r) PROVE PlansOK'
      <3>1. PlanOK(NoPlan)
        BY NoPlanTyped
      <3> QED BY <2>16, <3>1 DEF Again
    <2>17. ASSUME NEW f \in Folders, ClearLock(f) PROVE PlansOK'
      BY <2>17 DEF ClearLock
    <2>18. ASSUME NEW f \in Folders, ClearTemps(f) PROVE PlansOK'
      BY <2>18 DEF ClearTemps
    <2>19. CASE UNCHANGED vars
      BY <2>19 DEF vars
    <2> HIDE DEF PlansOK
    <2> QED BY <2>1, <2>2, <2>3, <2>4, <2>5, <2>6, <2>7, <2>8, <2>9,
               <2>10, <2>11, <2>12, <2>13, <2>14, <2>15, <2>16, <2>17, <2>18, <2>19 DEF Next, Step
  <1>3. FilesOK'
    <2> USE <1>a, RunAssumption, PathAssumption DEF FilesOK, Here, histVars, fsVars, runVars
    <2>1. ASSUME NEW r \in Runs, Plan(r) PROVE FilesOK'
      BY <2>1 DEF Plan
    <2>2. ASSUME NEW r \in Runs, CheckDestination(r) PROVE FilesOK'
      BY <2>2 DEF CheckDestination
    <2>3. ASSUME NEW r \in Runs, TakeLock(r) PROVE FilesOK'
      BY <2>3 DEF TakeLock
    <2>4. ASSUME NEW r \in Runs, WriteLock(r) PROVE FilesOK'
      BY <2>4 DEF WriteLock
    <2>5. ASSUME NEW r \in Runs, OpenSources(r) PROVE FilesOK'
      BY <2>5 DEF OpenSources
    <2>6. ASSUME NEW r \in Runs, CreateTemp(r) PROVE FilesOK'
      BY <2>6 DEF CreateTemp
    <2>7. ASSUME NEW r \in Runs, WriteOutput(r) PROVE FilesOK'
      BY <2>7 DEF WriteOutput
    <2>8. ASSUME NEW r \in Runs, Flush(r) PROVE FilesOK'
      BY <2>8 DEF Flush
    <2>9. ASSUME NEW r \in Runs, Rename(r) PROVE FilesOK'
      <3>1. \A d \in DamageAt(Here(r)) : Stored(r, d) \in File
        BY StoredTyped DEF DamageAt
      <3>2. Out[r] \in Paths
        OBVIOUS
      <3> QED BY <2>9, <3>1, <3>2 DEF Rename
    <2>10. ASSUME NEW r \in Runs, JudgeRename(r) PROVE FilesOK'
      BY <2>10 DEF JudgeRename
    <2>11. ASSUME NEW r \in Runs, ReadBack(r) PROVE FilesOK'
      BY <2>11 DEF ReadBack
    <2>12. ASSUME NEW r \in Runs, Delete(r) PROVE FilesOK'
      BY <2>12 DEF Delete
    <2>13. ASSUME NEW r \in Runs, DropTemp(r) PROVE FilesOK'
      BY <2>13 DEF DropTemp
    <2>14. ASSUME NEW r \in Runs, DropLock(r) PROVE FilesOK'
      BY <2>14 DEF DropLock
    <2>15. ASSUME NEW r \in Runs, Kill(r) PROVE FilesOK'
      BY <2>15 DEF Kill
    <2>16. ASSUME NEW r \in Runs, Again(r) PROVE FilesOK'
      BY <2>16 DEF Again
    <2>17. ASSUME NEW f \in Folders, ClearLock(f) PROVE FilesOK'
      BY <2>17 DEF ClearLock
    <2>18. ASSUME NEW f \in Folders, ClearTemps(f) PROVE FilesOK'
      BY <2>18 DEF ClearTemps
    <2>19. CASE UNCHANGED vars
      BY <2>19 DEF vars
    <2> HIDE DEF FilesOK
    <2> QED BY <2>1, <2>2, <2>3, <2>4, <2>5, <2>6, <2>7, <2>8, <2>9,
               <2>10, <2>11, <2>12, <2>13, <2>14, <2>15, <2>16, <2>17, <2>18, <2>19 DEF Next, Step
  <1> QED BY <1>1, <1>2, <1>3 DEF Typed, TypeOK

\* Every run keeps to its states, every plan and file to its shape, and no run calls rename
\* more often than rename_into_place allows.
THEOREM TypeCorrect == Spec => []TypeOK
  <1>1. Typed => TypeOK
    BY DEF Typed
  <1> QED BY InitTyped, StepTyped, <1>1, PTL DEF Spec

-----------------------------------------------------------------------------
(* The lock.                                                               *)

\* Whoever is between the creation of the lock file and its removal has made the file
\* that is there.
LockHeld == \A r \in Runs : pc[r] \in Locked => lock[Here(r)] = r

LEMMA LockStep == Typed /\ LockHeld /\ [Next]_vars => LockHeld'
  <1> SUFFICES ASSUME Typed, LockHeld, [Next]_vars PROVE LockHeld' OBVIOUS
  <1>a. /\ pc \in [Runs -> Ended \cup Live] /\ lock \in [Folders -> Runs \cup {NoRun}]
        /\ \A r \in Runs : Here(r) \in Folders
    BY PathAssumption, RunAssumption DEF Typed, TypeOK, RunsOK, FilesOK, Here
  \* Most steps leave the lock alone and enter no locked state from outside.
  <1> DEFINE Inside(r) == pc'[r] \in Locked => pc[r] \in Locked
  <1>b. ASSUME UNCHANGED lock, \A r \in Runs : Inside(r) PROVE LockHeld'
    BY <1>b DEF LockHeld, Here
  <1> USE <1>a, <1>b DEF histVars, fsVars, runVars, Locked, Ended, Live
  <1>1. ASSUME NEW r \in Runs, Plan(r) PROVE LockHeld'
    BY <1>1 DEF Plan
  <1>2. ASSUME NEW r \in Runs, CheckDestination(r) PROVE LockHeld'
    BY <1>2 DEF CheckDestination
  <1>3. ASSUME NEW r \in Runs, TakeLock(r) PROVE LockHeld'
    <2>1. CASE lock[Here(r)] = NoRun /\ lock' = [lock EXCEPT ![Here(r)] = r]
      <3>1. \A s \in Runs : s # r /\ Here(s) = Here(r) => pc[s] \notin Locked
        BY <2>1, DistinctAssumption DEF LockHeld
      <3> QED BY <1>3, <2>1, <3>1 DEF TakeLock, LockHeld, Here
    <2>2. CASE UNCHANGED lock /\ pc' = [pc EXCEPT ![r] = "failed"]
      BY <1>3, <2>2 DEF TakeLock
    <2> QED BY <1>3, <2>1, <2>2 DEF TakeLock
  <1>4. ASSUME NEW r \in Runs, Step(r) \/ Kill(r) \/ Again(r),
               ~Plan(r), ~CheckDestination(r), ~TakeLock(r), ~DropLock(r)
        PROVE  LockHeld'
    BY <1>4 DEF Step, WriteLock, OpenSources, CreateTemp, WriteOutput, Flush, Rename,
                JudgeRename, ReadBack, Delete, DropTemp, Kill, Again
  <1>5. ASSUME NEW r \in Runs, DropLock(r) PROVE LockHeld'
    <2>1. \A s \in Runs : s # r /\ Here(s) = Here(r) => pc[s] \notin Locked
      BY <1>5 DEF LockHeld, DropLock
    <2> QED BY <1>5, <2>1 DEF DropLock, LockHeld, Here
  <1>6. ASSUME NEW f \in Folders, ClearLock(f) PROVE LockHeld'
    BY <1>6 DEF ClearLock, LockHeld, Here
  <1>7. ASSUME NEW f \in Folders, ClearTemps(f) PROVE LockHeld'
    BY <1>7 DEF ClearTemps
  <1>8. CASE UNCHANGED vars
    BY <1>8 DEF vars
  <1> QED BY <1>1, <1>2, <1>3, <1>4, <1>5, <1>6, <1>7, <1>8 DEF Next, Step

\* The lock file keeps any two runs out of each other's way in a folder, however many there
\* are and whichever are killed, fail, or are cleared away by --recover.
THEOREM Exclusive == Spec => []MutualExclusion
  <1>1. Init => LockHeld
    BY DEF Init, LockHeld, Locked
  <1>2. LockHeld => MutualExclusion
    BY DEF LockHeld, MutualExclusion
  <1> QED BY InitTyped, StepTyped, LockStep, <1>1, <1>2, PTL DEF Spec

-----------------------------------------------------------------------------
(* The destination.                                                        *)

\* The steps that may touch a file of the set, and the rest.
Quiet(r) ==
  \/ Plan(r) \/ CheckDestination(r) \/ TakeLock(r) \/ WriteLock(r) \/ OpenSources(r)
  \/ CreateTemp(r) \/ WriteOutput(r) \/ Flush(r) \/ JudgeRename(r) \/ ReadBack(r)
  \/ DropTemp(r) \/ DropLock(r) \/ Kill(r) \/ Again(r)

LEMMA QuietSteps ==
  /\ [Next]_vars => \/ \E r \in Runs : Rename(r) \/ Delete(r) \/ Quiet(r)
                    \/ \E f \in Folders : ClearLock(f) \/ ClearTemps(f)
                    \/ UNCHANGED vars
  /\ \A r \in Runs : Quiet(r) => UNCHANGED <<dir, clock, born>>
  /\ \A f \in Folders : ClearLock(f) \/ ClearTemps(f) =>
       UNCHANGED <<pc, plan, held, todo, dir, clock, born>>
  <1>1. [Next]_vars => \/ \E r \in Runs : Rename(r) \/ Delete(r) \/ Quiet(r)
                       \/ \E f \in Folders : ClearLock(f) \/ ClearTemps(f)
                       \/ UNCHANGED vars
    BY DEF Next, Step, Quiet
  <1>2. \A r \in Runs : Quiet(r) => UNCHANGED <<dir, clock, born>>
    BY DEF Quiet, Plan, CheckDestination, TakeLock, WriteLock, OpenSources, CreateTemp,
           WriteOutput, Flush, JudgeRename, ReadBack, DropTemp, DropLock, Kill, Again,
           fsVars, histVars
  <1>3. \A f \in Folders : ClearLock(f) \/ ClearTemps(f) =>
          UNCHANGED <<pc, plan, held, todo, dir, clock, born>>
    BY DEF ClearLock, ClearTemps, runVars, histVars
  <1> QED BY <1>1, <1>2, <1>3

\* Before its rename a run has never had an output, and nothing has the name it will use.
\* This needs OwnOutputs: the program looks only once, before the lock.
MayRename == {"clear", "locking", "locked", "opened", "created", "written", "flushed"}
Unborn ==
  \A r \in Runs :
    /\ pc[r] \in BeforeRename \/ (pc[r] = "judging" /\ temp[r] # "none") => ~Landed(r)
    /\ pc[r] \in {"renamed", "deleting"} => Landed(r)
    /\ pc[r] \in MayRename \cup {"judging"} /\ ~Landed(r) => ~Exists(Out[r])
    /\ Readable(Out[r]) => Landed(r)

LEMMA InitUnborn == OwnOutputs /\ Init => Unborn
  <1> SUFFICES ASSUME OwnOutputs, Init PROVE Unborn OBVIOUS
  <1>1. \A r \in Runs : Out[r] \in Paths /\ Out[r] \notin Sources
    BY RunAssumption DEF OwnOutputs
  <1>2. \A r \in Runs : ~Readable(Out[r]) /\ ~Landed(r)
    BY <1>1 DEF Init, Readable, Exists, Landed
  <1> QED BY <1>2 DEF Init, Unborn, MayRename

LEMMA UnbornStep == OwnOutputs /\ Typed /\ Unborn /\ [Next]_vars => Unborn'
  <1> SUFFICES ASSUME OwnOutputs, Typed, Unborn, [Next]_vars PROVE Unborn' OBVIOUS
  <1>a. /\ pc \in [Runs -> Ended \cup Live] /\ temp \in [Runs -> {"none", "partial", "whole"}]
        /\ dir \in [Paths -> File \cup {NoFile}] /\ Out \in [Runs -> Paths]
        /\ clock \in Nat /\ born \in [Paths -> 0 .. clock]
    BY RunAssumption DEF Typed, TypeOK, RunsOK, FilesOK
  <1> USE <1>a DEF Unborn, MayRename, BeforeRename, Exists, Readable, Landed, AlreadyHappened,
          histVars, fsVars, runVars, Ended, Live, Locked
  <1>1. ASSUME NEW r \in Runs, Quiet(r) PROVE Unborn'
    BY <1>1 DEF Quiet, Plan, CheckDestination, TakeLock, WriteLock, OpenSources, CreateTemp,
                WriteOutput, Flush, JudgeRename, ReadBack, DropTemp, DropLock, Kill, Again
  <1>2. ASSUME NEW r \in Runs, Rename(r) PROVE Unborn'
    <2>1. \A s \in Runs : s # r => Out[s] # Out[r]
      BY DEF OwnOutputs
    <2> QED BY <1>2, <2>1 DEF Rename
  <1>3. ASSUME NEW r \in Runs, Delete(r) PROVE Unborn'
    BY <1>3 DEF Delete
  <1>4. ASSUME NEW f \in Folders, ClearLock(f) \/ ClearTemps(f) PROVE Unborn'
    BY <1>4 DEF ClearLock, ClearTemps
  <1>5. CASE UNCHANGED vars
    BY <1>5 DEF vars
  <1> QED BY <1>1, <1>2, <1>3, <1>4, <1>5, QuietSteps

\* Only a rename gives a name a file, and only a deletion takes one away.
LEMMA KeepsFiles ==
  ASSUME Typed, Unborn, [Next]_vars
  PROVE  \A p \in Paths : Exists(p) => dir'[p] \in {dir[p], NoFile}
  <1>a. dir \in [Paths -> File \cup {NoFile}] /\ Out \in [Runs -> Paths]
    BY RunAssumption DEF Typed, TypeOK, FilesOK
  <1> USE <1>a DEF Exists
  <1>1. ASSUME NEW r \in Runs, Rename(r)
        PROVE  \A p \in Paths : Exists(p) => dir'[p] \in {dir[p], NoFile}
    <2>1. ~Exists(Out[r])
      BY <1>1 DEF Rename, Unborn, MayRename, BeforeRename
    <2> QED BY <1>1, <2>1 DEF Rename
  <1>2. ASSUME NEW r \in Runs, Delete(r)
        PROVE  \A p \in Paths : Exists(p) => dir'[p] \in {dir[p], NoFile}
    BY <1>2 DEF Delete
  <1>3. CASE UNCHANGED dir
    BY <1>3
  <1> QED BY <1>1, <1>2, <1>3, QuietSteps DEF vars

\* With a destination of its own, no run ever writes over a file.
THEOREM Preserves == ASSUME OwnOutputs PROVE Spec => NeverOverwrites
  <1>1. Typed /\ Unborn /\ [Next]_vars => (Typed /\ Unborn)'
    BY StepTyped, UnbornStep
  <1>2. Typed /\ Unborn /\ [Next]_vars
          => [\A p \in Paths : Exists(p) => dir'[p] \in {dir[p], NoFile}]_vars
    BY KeepsFiles
  <1>3. Init => Typed /\ Unborn
    BY InitTyped, InitUnborn
  <1> QED BY <1>1, <1>2, <1>3, PTL DEF Spec, NeverOverwrites

-----------------------------------------------------------------------------
(* Nothing is lost.  What a run deletes is held by an output that came into *)
(* being later than it, and what is deleted of those is held by a later one *)
(* still: born ranks the files, so no ring of runs can each trust a file    *)
(* that another is about to delete.                                         *)

\* No step of a run to come writes the file p.
Settled(p) == \A r \in Runs : Out[r] = p => Landed(r)

\* Blocks are held only under numbers the file claims.
Honest == \A p \in Paths : Exists(p) => dir[p].holds \subseteq dir[p].claims

\* A file a run is to absorb is as the run saw it, or gone.
PlansTrue ==
  \A r \in Runs : \A p \in DOMAIN plan[r].victims :
    /\ Settled(p) /\ p # Out[r]
    /\ Exists(p) => dir[p] = plan[r].victims[p]
    /\ plan[r].victims[p].holds \subseteq plan[r].absorbed
    /\ Landed(r) => born[p] < born[Out[r]]

Reading == {"opened", "created", "written", "flushed", "judging"}
HandlesTrue ==
  \A r \in Runs : pc[r] \in Reading =>
    \A p \in DOMAIN plan[r].victims : plan[r].victims[p].holds \subseteq held[r]

\* What a landed output can be: unreadable, damaged in its payload, or whole.
Whole(r) ==
  \A p \in DOMAIN plan[r].victims : plan[r].victims[p].holds \subseteq dir[Out[r]].holds
OutputsTrue ==
  \A r \in Runs : Landed(r) /\ Exists(Out[r]) =>
    \/ dir[Out[r]].num = Unreadable
    \/ /\ "payload" \in Damage
       /\ dir[Out[r]].claims = plan[r].absorbed /\ dir[Out[r]].holds = {}
    \/ Whole(r)

\* What p holds of number n is also in a file that came into being after p.
HeldLater(p, n) ==
  \E q \in Paths : Exists(q) /\ n \in dir[q].holds /\ born[q] > born[p]
Covered ==
  \A r \in Runs : pc[r] = "deleting" =>
    /\ todo[r] \subseteq DOMAIN plan[r].victims
    /\ \A p \in todo[r] : Exists(p) => \A n \in dir[p].holds : HeldLater(p, n)

Shape == Typed /\ Unborn
Inv == Shape /\ Honest /\ PlansTrue /\ HandlesTrue /\ OutputsTrue /\ Covered /\ NothingLost

\* A settled file keeps its content until it is deleted, and keeps its rank.
LEMMA SettledStays ==
  ASSUME OwnOutputs, Shape, [Next]_vars, NEW p \in Paths, Settled(p)
  PROVE  Settled(p)' /\ dir'[p] \in {dir[p], NoFile} /\ born'[p] = born[p]
  <1>a. /\ dir \in [Paths -> File \cup {NoFile}] /\ Out \in [Runs -> Paths]
        /\ clock \in Nat /\ born \in [Paths -> 0 .. clock]
    BY RunAssumption DEF Shape, Typed, TypeOK, FilesOK
  <1> USE <1>a DEF Settled, Landed
  <1>1. ASSUME NEW r \in Runs, Rename(r)
        PROVE  Settled(p)' /\ dir'[p] \in {dir[p], NoFile} /\ born'[p] = born[p]
    <2>1. Out[r] # p
      BY <1>1 DEF Rename, Shape, Unborn, BeforeRename
    <2> QED BY <1>1, <2>1 DEF Rename, histVars
  <1>2. ASSUME NEW r \in Runs, Delete(r)
        PROVE  Settled(p)' /\ dir'[p] \in {dir[p], NoFile} /\ born'[p] = born[p]
    BY <1>2 DEF Delete, histVars
  <1>3. CASE UNCHANGED <<dir, born>>
    BY <1>3
  <1> QED BY <1>1, <1>2, <1>3, QuietSteps DEF vars

\* Once a run has its output its plan is fixed.
LEMMA LandedStays ==
  ASSUME OwnOutputs, Shape, [Next]_vars, NEW r \in Runs, Landed(r)
  PROVE  /\ Landed(r)' /\ plan'[r] = plan[r]
         /\ born'[Out[r]] = born[Out[r]] /\ dir'[Out[r]] \in {dir[Out[r]], NoFile}
  <1>1. Out[r] \in Paths
    BY RunAssumption
  <1>2. Settled(Out[r])
    BY DEF Settled, OwnOutputs
  <1>3. born'[Out[r]] = born[Out[r]] /\ dir'[Out[r]] \in {dir[Out[r]], NoFile}
    BY <1>1, <1>2, SettledStays
  <1>4. ASSUME NEW s \in Runs, Quiet(s) PROVE plan'[r] = plan[r]
    <2>1. pc[s] = "idle" => s # r
      BY DEF Shape, Unborn, BeforeRename
    <2>2. DOMAIN plan = Runs
      BY DEF Shape, Typed, TypeOK, PlansOK
    <2> QED BY <1>4, <2>1, <2>2 DEF Quiet, Plan, CheckDestination, TakeLock, WriteLock, OpenSources,
                CreateTemp, WriteOutput, Flush, JudgeRename, ReadBack, DropTemp, DropLock,
                Kill, Again
  <1> QED BY <1>3, <1>4, QuietSteps DEF vars, Rename, Delete, Landed

LEMMA HonestStep == ASSUME Shape, Honest, [Next]_vars PROVE Honest'
  <1>a. dir \in [Paths -> File \cup {NoFile}] /\ Out \in [Runs -> Paths]
    BY RunAssumption DEF Shape, Typed, TypeOK, FilesOK
  <1> USE <1>a DEF Honest, Exists
  <1>1. ASSUME NEW r \in Runs, Rename(r) PROVE Honest'
    <2>1. \A d \in DamageAt(Here(r)) : Stored(r, d).holds \subseteq Stored(r, d).claims
      BY RunAssumption DEF Stored, DamageAt
    <2> QED BY <1>1, <2>1 DEF Rename
  <1>2. ASSUME NEW r \in Runs, Delete(r) PROVE Honest'
    BY <1>2 DEF Delete
  <1>3. CASE UNCHANGED dir
    BY <1>3
  <1> QED BY <1>1, <1>2, <1>3, QuietSteps DEF vars

\* What a run plans is settled, and absorbs whatever its victims hold.
LEMMA PlanTrue ==
  ASSUME Shape, Honest, NEW r \in Runs, pc[r] = "idle", Plannable(r),
         NEW p \in DOMAIN PlanOf(r).victims
  PROVE  /\ p \in Paths /\ Settled(p) /\ p # Out[r] /\ Exists(p)
         /\ PlanOf(r).victims[p] = dir[p]
         /\ dir[p].holds \subseteq PlanOf(r).absorbed
  <1>1. p \in Victims(From[r], To[r]) /\ PlanOf(r).victims[p] = dir[p]
    BY DEF PlanOf
  <1>2. p \in Paths /\ Readable(p) /\ Exists(p)
    BY <1>1 DEF Victims, Members, Readable
  <1>3. Settled(p)
    BY <1>2 DEF Settled, Shape, Unborn
  <1>4. p # Out[r]
    BY <1>3 DEF Settled, Shape, Unborn, BeforeRename
  <1>5. dir[p].claims \subseteq PlanOf(r).absorbed
    BY <1>1 DEF PlanOf
  <1> QED BY <1>1, <1>2, <1>3, <1>4, <1>5 DEF Honest

LEMMA PlansTrueStep ==
  ASSUME OwnOutputs, Shape, Honest, PlansTrue, [Next]_vars
  PROVE  PlansTrue'
  <1>a. /\ DOMAIN plan = Runs /\ \A r \in Runs : DOMAIN plan[r].victims \subseteq Paths
        /\ clock \in Nat /\ born \in [Paths -> 0 .. clock] /\ Out \in [Runs -> Paths]
    BY RunAssumption DEF Shape, Typed, TypeOK, PlansOK, PlanOK, FilesOK
  \* It is enough that every plan is old, or made in this step.
  <1> SUFFICES ASSUME NEW r \in Runs, NEW p \in DOMAIN plan'[r].victims
      PROVE  /\ Settled(p)' /\ p # Out[r]
             /\ Exists(p)' => dir'[p] = plan'[r].victims[p]
             /\ plan'[r].victims[p].holds \subseteq plan'[r].absorbed
             /\ Landed(r)' => born'[p] < born'[Out[r]]
    BY DEF PlansTrue
  <1>1. CASE plan'[r] = plan[r]
    <2>1. /\ p \in Paths /\ Settled(p) /\ p # Out[r]
          /\ Exists(p) => dir[p] = plan[r].victims[p]
          /\ plan[r].victims[p].holds \subseteq plan[r].absorbed
          /\ Landed(r) => born[p] < born[Out[r]]
      BY <1>1, <1>a DEF PlansTrue
    <2>2. Settled(p)' /\ dir'[p] \in {dir[p], NoFile} /\ born'[p] = born[p]
      BY <2>1, SettledStays
    <2>3. Landed(r)' => born'[p] < born'[Out[r]]
      <3>1. CASE Landed(r)
        <4>1. born'[Out[r]] = born[Out[r]]
          BY <3>1, LandedStays
        <4> QED BY <3>1, <4>1, <2>1, <2>2
      <3>2. CASE ~Landed(r) /\ Rename(r)
        <4>1. CASE born' = [born EXCEPT ![Out[r]] = clock + 1]
          <5>1. born'[Out[r]] = clock + 1 /\ born'[p] = born[p]
            BY <4>1, <2>1, <1>a
          <5>2. born[p] \in 0 .. clock
            BY <2>1, <1>a
          <5> QED BY <5>1, <5>2, <1>a
        <4>2. CASE born' = born
          BY <4>2, <3>2 DEF Landed
        <4> QED BY <4>1, <4>2, <3>2 DEF Rename, histVars
      <3>3. ASSUME ~Landed(r), ~Rename(r) PROVE ~Landed(r)'
        <4>1. ASSUME NEW s \in Runs, Rename(s) PROVE ~Landed(r)'
          BY <4>1, <3>3, <1>a DEF Rename, Landed, OwnOutputs, histVars
        <4>2. ASSUME NEW s \in Runs, Delete(s) PROVE ~Landed(r)'
          BY <4>2, <3>3 DEF Delete, Landed, histVars
        <4> QED BY <4>1, <4>2, <3>3, QuietSteps DEF vars, Landed
      <3> QED BY <3>1, <3>2, <3>3
    <2> QED BY <1>1, <2>1, <2>2, <2>3 DEF Exists
  <1>2. CASE plan'[r] # plan[r]
    <2>1. \/ pc[r] = "idle" /\ Plannable(r) /\ plan'[r] = PlanOf(r)
          \/ plan'[r] = NoPlan
      <3>1. ASSUME NEW s \in Runs, Quiet(s)
            PROVE  \/ pc[r] = "idle" /\ Plannable(r) /\ plan'[r] = PlanOf(r)
                   \/ plan'[r] = NoPlan
        BY <3>1, <1>2, <1>a DEF Quiet, Plan, CheckDestination, TakeLock, WriteLock, OpenSources,
           CreateTemp, WriteOutput, Flush, JudgeRename, ReadBack, DropTemp, DropLock, Kill, Again
      <3> QED BY <3>1, <1>2, QuietSteps DEF vars, Rename, Delete
    <2>2. plan'[r] # NoPlan
      BY DEF NoPlan
    <2>3. p \in DOMAIN PlanOf(r).victims
      BY <2>1, <2>2
    <2>4. /\ p \in Paths /\ Settled(p) /\ p # Out[r] /\ Exists(p)
          /\ PlanOf(r).victims[p] = dir[p]
          /\ dir[p].holds \subseteq PlanOf(r).absorbed
      BY <2>1, <2>2, <2>3, PlanTrue
    <2>5. Settled(p)' /\ dir'[p] \in {dir[p], NoFile}
      BY <2>4, SettledStays
    <2>6. ~Landed(r)'
      <3>1. ~Landed(r)
        BY <2>1, <2>2 DEF Shape, Unborn, BeforeRename
      <3>2. ASSUME NEW s \in Runs, Rename(s) \/ Delete(s) PROVE FALSE
        BY <3>2, <1>2 DEF Rename, Delete
      <3> QED BY <3>1, <3>2, QuietSteps DEF vars, Landed
    <2> QED BY <2>1, <2>2, <2>4, <2>5, <2>6 DEF Exists
  <1> QED BY <1>1, <1>2

LEMMA HandlesStep ==
  ASSUME Shape, PlansTrue, HandlesTrue, [Next]_vars
  PROVE  HandlesTrue'
  <1>a. /\ DOMAIN plan = Runs /\ \A r \in Runs : DOMAIN plan[r].victims \subseteq Paths
        /\ held \in [Runs -> SUBSET Numbers] /\ pc \in [Runs -> Ended \cup Live]
    BY DEF Shape, Typed, TypeOK, PlansOK, PlanOK, RunsOK
  <1> USE <1>a DEF HandlesTrue, Reading, histVars, fsVars, runVars
  <1>1. ASSUME NEW r \in Runs, OpenSources(r) PROVE HandlesTrue'
    <2>1. \A p \in DOMAIN plan[r].victims : Exists(p) => dir[p] = plan[r].victims[p]
      BY DEF PlansTrue
    <2>2. CASE /\ \A p \in DOMAIN plan[r].victims : Exists(p)
               /\ held' = [held EXCEPT ![r] = UNION {dir[p].holds : p \in DOMAIN plan[r].victims}]
      <3>1. held'[r] = UNION {dir[p].holds : p \in DOMAIN plan[r].victims}
        BY <2>2
      <3>2. \A p \in DOMAIN plan[r].victims : plan[r].victims[p].holds \subseteq held'[r]
        BY <2>1, <2>2, <3>1
      <3> QED BY <1>1, <2>2, <3>2 DEF OpenSources
    <2>3. CASE pc' = [pc EXCEPT ![r] = "leave_failed"] /\ UNCHANGED held
      BY <1>1, <2>3 DEF OpenSources
    <2> QED BY <1>1, <2>2, <2>3 DEF OpenSources
  <1>2. ASSUME NEW r \in Runs, Quiet(r), ~OpenSources(r) PROVE HandlesTrue'
    BY <1>2 DEF Quiet, Plan, CheckDestination, TakeLock, WriteLock, CreateTemp,
                WriteOutput, Flush, JudgeRename, ReadBack, DropTemp, DropLock, Kill, Again
  <1>3. ASSUME NEW r \in Runs, Rename(r) \/ Delete(r) PROVE HandlesTrue'
    BY <1>3 DEF Rename, Delete
  <1>4. ASSUME NEW f \in Folders, ClearLock(f) \/ ClearTemps(f) PROVE HandlesTrue'
    BY <1>4 DEF ClearLock, ClearTemps
  <1>5. CASE UNCHANGED vars
    BY <1>5 DEF vars
  <1> QED BY <1>1, <1>2, <1>3, <1>4, <1>5, QuietSteps

LEMMA OutputsStep ==
  ASSUME OwnOutputs, Shape, PlansTrue, HandlesTrue, OutputsTrue, [Next]_vars
  PROVE  OutputsTrue'
  <1>a. /\ DOMAIN plan = Runs /\ \A r \in Runs : PlanOK(plan[r])
        /\ dir \in [Paths -> File \cup {NoFile}] /\ Out \in [Runs -> Paths]
        /\ born \in [Paths -> 0 .. clock] /\ clock \in Nat
    BY RunAssumption DEF Shape, Typed, TypeOK, PlansOK, FilesOK
  <1> DEFINE Fine(r, file) ==
        \/ file.num = Unreadable
        \/ "payload" \in Damage /\ file.claims = plan[r].absorbed /\ file.holds = {}
        \/ \A p \in DOMAIN plan[r].victims : plan[r].victims[p].holds \subseteq file.holds
  <1> SUFFICES ASSUME NEW r \in Runs, Landed(r)', Exists(Out[r])'
      PROVE  plan'[r] = plan[r] /\ Fine(r, dir'[Out[r]])
    BY DEF OutputsTrue, Whole
  <1>1. CASE Landed(r)
    <2>1. plan'[r] = plan[r] /\ dir'[Out[r]] \in {dir[Out[r]], NoFile}
      BY <1>1, LandedStays
    <2>2. dir'[Out[r]] = dir[Out[r]] /\ Exists(Out[r])
      BY <2>1 DEF Exists
    <2>3. Fine(r, dir[Out[r]])
      BY <2>2, <1>1 DEF OutputsTrue, Whole
    <2> QED BY <2>1, <2>2, <2>3
  <1>2. CASE ~Landed(r)
    <2>1. Rename(r) /\ born' # born
      <3>1. ASSUME NEW s \in Runs, Rename(s), s # r \/ born' = born PROVE FALSE
        BY <3>1, <1>2, <1>a DEF Rename, Landed, OwnOutputs, histVars
      <3>2. ASSUME NEW s \in Runs, Delete(s) PROVE FALSE
        BY <3>2, <1>2 DEF Delete, Landed, histVars
      <3> QED BY <3>1, <3>2, <1>2, QuietSteps DEF vars, Landed
    <2>2. plan' = plan /\ pc[r] = "flushed"
          /\ \E d \in DamageAt(Here(r)) : dir' = [dir EXCEPT ![Out[r]] = Stored(r, d)]
      BY <2>1 DEF Rename, histVars
    <2>3. PICK d \in DamageAt(Here(r)) : dir'[Out[r]] = Stored(r, d)
      BY <2>2, <1>a
    <2>4. d \in {"none"} \cup (Damage \cap {"framing", "payload"})
      BY RunAssumption DEF DamageAt
    <2>5. CASE d = "framing"
      <3>1. Stored(r, d).num = Unreadable
        BY <2>5 DEF Stored
      <3> QED BY <3>1, <2>2, <2>3
    <2>6. CASE d = "payload"
      <3>1. Stored(r, d).claims = plan[r].absorbed /\ Stored(r, d).holds = {}
        BY <2>6 DEF Stored
      <3> QED BY <3>1, <2>2, <2>3, <2>4, <2>6
    <2>7. CASE d = "none"
      <3>1. Stored(r, d).holds = plan[r].absorbed \cap held[r]
        BY <2>7 DEF Stored
      <3>2. \A p \in DOMAIN plan[r].victims : /\ plan[r].victims[p].holds \subseteq held[r]
                                              /\ plan[r].victims[p].holds \subseteq plan[r].absorbed
        BY <2>2 DEF HandlesTrue, Reading, PlansTrue
      <3> QED BY <3>1, <3>2, <2>2, <2>3
    <2> QED BY <2>4, <2>5, <2>6, <2>7
  <1> QED BY <1>1, <1>2

\* The read-back is what makes the deletion safe: an output that passes it holds whatever
\* the victims hold, and is later than each.
LEMMA ReadBackCovers ==
  ASSUME DamageSeen, Shape, PlansTrue, OutputsTrue, NEW r \in Runs, pc[r] = "renamed",
         ReadBackPasses(r), DeleteMerged[r],
         NEW p \in DOMAIN plan[r].victims, Exists(p), NEW n \in dir[p].holds
  PROVE  HeldLater(p, n)
  <1>1. Out[r] \in Paths /\ Landed(r) /\ Exists(Out[r]) /\ dir[Out[r]].num # Unreadable
    BY RunAssumption DEF Shape, Unborn, ReadBackPasses, Readable
  <1>2. born[p] < born[Out[r]] /\ n \in plan[r].victims[p].holds
        /\ plan[r].victims[p].holds \subseteq plan[r].absorbed
    BY <1>1 DEF PlansTrue
  <1>3. CASE Whole(r)
    BY <1>1, <1>2, <1>3 DEF Whole, HeldLater
  <1>4. ASSUME "payload" \in Damage, dir[Out[r]].claims = plan[r].absorbed, dir[Out[r]].holds = {}
        PROVE  FALSE
    <2>1. dir[Out[r]].holds = dir[Out[r]].claims
      BY <1>4 DEF ReadBackPasses, DamageSeen
    <2> QED BY <2>1, <1>4, <1>2
  <1> QED BY <1>1, <1>3, <1>4 DEF OutputsTrue

\* A later copy stays one, whatever step is taken.
LEMMA HeldLaterStays ==
  ASSUME OwnOutputs, Shape, Covered, [Next]_vars,
         NEW p \in Paths, Settled(p), NEW n, HeldLater(p, n)
  PROVE  HeldLater(p, n)'
  <1>a. /\ dir \in [Paths -> File \cup {NoFile}] /\ Out \in [Runs -> Paths]
        /\ born \in [Paths -> 0 .. clock] /\ clock \in Nat
    BY RunAssumption DEF Shape, Typed, TypeOK, FilesOK
  <1>1. PICK q \in Paths : Exists(q) /\ n \in dir[q].holds /\ born[q] > born[p]
    BY DEF HeldLater
  <1>2. born'[p] = born[p]
    BY SettledStays
  <1>3. ASSUME NEW r \in Runs, Rename(r) PROVE HeldLater(p, n)'
    <2>1. ~Exists(Out[r])
      BY <1>3 DEF Rename, Shape, Unborn, MayRename, BeforeRename
    <2>2. dir'[q] = dir[q] /\ born'[q] = born[q]
      BY <1>3, <1>1, <2>1, <1>a DEF Rename, histVars
    <2> QED BY <1>1, <1>2, <2>2 DEF HeldLater, Exists
  <1>4. ASSUME NEW r \in Runs, Delete(r) PROVE HeldLater(p, n)'
    <2>1. born' = born
      BY <1>4 DEF Delete, histVars
    <2>2. CASE dir'[q] = dir[q]
      BY <2>1, <2>2, <1>1 DEF HeldLater, Exists
    <2>3. CASE dir'[q] # dir[q]
      <3>1. q \in todo[r] /\ dir' = [dir EXCEPT ![q] = NoFile]
        BY <1>4, <2>3, <1>a DEF Delete
      <3>2. HeldLater(q, n)
        BY <1>4, <3>1, <1>1 DEF Covered, Delete
      <3>3. PICK z \in Paths : Exists(z) /\ n \in dir[z].holds /\ born[z] > born[q]
        BY <3>2 DEF HeldLater
      <3>4. born[z] > born[p] /\ z # q
        <4>1. born[z] \in Nat /\ born[q] \in Nat /\ born[p] \in Nat
          BY <1>a
        <4> QED BY <4>1, <3>3, <1>1
      <3>5. dir'[z] = dir[z]
        BY <3>1, <3>4, <1>a
      <3> QED BY <3>3, <3>4, <3>5, <2>1 DEF HeldLater, Exists
    <2> QED BY <2>2, <2>3
  <1>5. CASE UNCHANGED <<dir, born>>
    BY <1>1, <1>5 DEF HeldLater, Exists
  <1> QED BY <1>3, <1>4, <1>5, QuietSteps DEF vars

LEMMA CoveredStep ==
  ASSUME OwnOutputs, DamageSeen, Shape, PlansTrue, OutputsTrue, Covered, [Next]_vars
  PROVE  Covered'
  <1>a. /\ DOMAIN plan = Runs /\ \A r \in Runs : DOMAIN plan[r].victims \subseteq Paths
        /\ pc \in [Runs -> Ended \cup Live] /\ todo \in [Runs -> SUBSET Paths]
    BY DEF Shape, Typed, TypeOK, PlansOK, PlanOK, RunsOK
  <1> SUFFICES ASSUME NEW r \in Runs, pc'[r] = "deleting"
      PROVE  /\ todo'[r] \subseteq DOMAIN plan'[r].victims
             /\ \A p \in todo'[r] : Exists(p)' => \A n \in dir'[p].holds : HeldLater(p, n)'
    BY DEF Covered
  \* The run was deleting before this step, or its read-back passes in it.
  <1>1. /\ todo'[r] \subseteq DOMAIN plan[r].victims /\ plan'[r] = plan[r]
        /\ \A p \in todo'[r] : Exists(p) => \A n \in dir[p].holds : HeldLater(p, n)
    <2>1. CASE pc[r] = "deleting"
      <3>1. todo'[r] \subseteq todo[r]
        <4>1. ASSUME NEW s \in Runs, Quiet(s) PROVE todo'[r] \subseteq todo[r]
          BY <4>1, <2>1, <1>a DEF Quiet, Plan, CheckDestination, TakeLock, WriteLock,
             OpenSources, CreateTemp, WriteOutput, Flush, JudgeRename, ReadBack, DropTemp,
             DropLock, Kill, Again
        <4>2. ASSUME NEW s \in Runs, Rename(s) \/ Delete(s) PROVE todo'[r] \subseteq todo[r]
          BY <4>2, <1>a DEF Rename, Delete
        <4> QED BY <4>1, <4>2, QuietSteps DEF vars
      <3>2. plan'[r] = plan[r]
        BY <2>1, LandedStays DEF Shape, Unborn
      <3> QED BY <3>1, <3>2, <2>1 DEF Covered
    <2>2. CASE pc[r] # "deleting"
      <3>1. ReadBack(r)
        <4>1. ASSUME NEW s \in Runs, Quiet(s), ~(s = r /\ ReadBack(s)) PROVE FALSE
          BY <4>1, <2>2, <1>a DEF Quiet, Plan, CheckDestination, TakeLock, WriteLock,
             OpenSources, CreateTemp, WriteOutput, Flush, JudgeRename, ReadBack, DropTemp,
             DropLock, Kill, Again
        <4>2. ASSUME NEW s \in Runs, Rename(s) \/ Delete(s) PROVE FALSE
          BY <4>2, <2>2, <1>a DEF Rename, Delete
        <4> QED BY <4>1, <4>2, <2>2, QuietSteps DEF vars
      <3>2. /\ pc[r] = "renamed" /\ ReadBackPasses(r) /\ DeleteMerged[r]
            /\ todo'[r] = DOMAIN plan[r].victims /\ plan' = plan
        BY <3>1, <1>a DEF ReadBack
      <3> QED BY <3>2, ReadBackCovers
    <2> QED BY <2>1, <2>2
  <1>2. ASSUME NEW p \in todo'[r], Exists(p)', NEW n \in dir'[p].holds PROVE HeldLater(p, n)'
    <2>1. p \in Paths /\ Settled(p)
      BY <1>1, <1>a DEF PlansTrue
    <2>2. dir'[p] = dir[p] /\ Exists(p)
      BY <2>1, <1>2, SettledStays DEF Exists
    <2>3. HeldLater(p, n)
      BY <1>1, <1>2, <2>2
    <2> QED BY <2>1, <2>3, HeldLaterStays
  <1> QED BY <1>1, <1>2

LEMMA NothingLostStep ==
  ASSUME OwnOutputs, Shape, Covered, NothingLost, [Next]_vars
  PROVE  NothingLost'
  <1>a. /\ dir \in [Paths -> File \cup {NoFile}] /\ Out \in [Runs -> Paths]
        /\ born \in [Paths -> 0 .. clock] /\ clock \in Nat
    BY RunAssumption DEF Shape, Typed, TypeOK, FilesOK
  <1> SUFFICES ASSUME NEW n \in Numbers
      PROVE  \E p \in Paths : Exists(p)' /\ n \in dir'[p].holds
    BY DEF NothingLost
  <1>1. PICK p \in Paths : Exists(p) /\ n \in dir[p].holds
    BY DEF NothingLost
  <1>2. ASSUME NEW r \in Runs, Rename(r) PROVE dir'[p] = dir[p]
    <2>1. ~Exists(Out[r])
      BY <1>2 DEF Rename, Shape, Unborn, MayRename, BeforeRename
    <2> QED BY <1>2, <1>1, <2>1, <1>a DEF Rename
  <1>3. ASSUME NEW r \in Runs, Delete(r), dir'[p] # dir[p]
        PROVE  \E q \in Paths : Exists(q)' /\ n \in dir'[q].holds
    <2>1. p \in todo[r] /\ dir' = [dir EXCEPT ![p] = NoFile]
      BY <1>3, <1>a DEF Delete
    <2>2. HeldLater(p, n)
      BY <1>3, <2>1, <1>1 DEF Covered, Delete
    <2>3. PICK q \in Paths : Exists(q) /\ n \in dir[q].holds /\ born[q] > born[p]
      BY <2>2 DEF HeldLater
    <2>4. q # p
      <3>1. born[p] \in Nat
        BY <1>a
      <3> QED BY <3>1, <2>3
    <2>5. dir'[q] = dir[q]
      BY <2>1, <2>4, <1>a
    <2> QED BY <2>3, <2>5 DEF Exists
  <1>4. CASE dir'[p] = dir[p]
    BY <1>1, <1>4 DEF Exists
  <1> QED BY <1>2, <1>3, <1>4, QuietSteps DEF vars

LEMMA InitInv == OwnOutputs /\ Init => Inv
  <1> SUFFICES ASSUME OwnOutputs, Init PROVE Inv OBVIOUS
  <1>1. Shape
    BY InitTyped, InitUnborn DEF Shape
  <1>2. Honest
    BY DEF Init, Honest, Exists
  <1>3. PlansTrue /\ HandlesTrue /\ Covered
    <2>1. \A r \in Runs : DOMAIN plan[r].victims = {}
      BY DEF Init, NoPlan
    <2> QED BY <2>1 DEF Init, PlansTrue, HandlesTrue, Reading, Covered
  <1>4. OutputsTrue
    BY RunAssumption DEF Init, OutputsTrue, Landed
  <1>5. NothingLost
    <2> SUFFICES ASSUME NEW n \in Numbers PROVE \E p \in Paths : Exists(p) /\ n \in dir[p].holds
      BY DEF NothingLost
    <2>1. PICK p \in Sources : n = SourceAt[p]
      BY DEF Numbers
    <2>2. p \in Paths
      BY PathAssumption
    <2>3. dir[p] = [num |-> n, claims |-> {n}, holds |-> {n}]
      BY <2>1, <2>2 DEF Init
    <2>4. Exists(p) /\ n \in dir[p].holds
      <3>1. dir[p] \in File
        BY <1>1, <2>1, <2>3, PathAssumption DEF File, Num, Numbers
      <3> QED BY <3>1, <2>3, NoFileAssumption DEF Exists
    <2> QED BY <2>2, <2>4
  <1> QED BY <1>1, <1>2, <1>3, <1>4, <1>5 DEF Inv

\* With destinations of their own, and --verify-md5 where a server may damage what it
\* stores, any number of runs with any ranges, killed, failing, retried, cleared away or
\* lied to by a server, never delete the last copy of a file's blocks.
THEOREM Safe == ASSUME OwnOutputs, DamageSeen PROVE Spec => []NothingLost
  <1>1. Inv /\ [Next]_vars => Inv'
    BY StepTyped, UnbornStep, HonestStep, PlansTrueStep, HandlesStep, OutputsStep,
       CoveredStep, NothingLostStep DEF Inv, Shape
  <1>2. Init => Inv
    BY InitInv
  <1>3. Inv => NothingLost
    BY DEF Inv
  <1> QED BY <1>1, <1>2, <1>3, PTL DEF Spec

-----------------------------------------------------------------------------
(* Two successes absorb no file in common.  A run that deletes has each of  *)
(* its files gone by its own hand, and a file goes only once.               *)

Over == {"deleting", "leave", "done"}
Removed(r) ==
  {p \in DOMAIN plan[r].victims : DeleteMerged[r] /\ pc[r] \in Over /\ p \notin todo[r]}

\* What a run has removed is gone, and was removed by no other.
Parted ==
  /\ \A r \in Runs : DeleteMerged[r] /\ pc[r] \in Over => Landed(r)
  /\ \A r \in Runs : DeleteMerged[r] /\ pc[r] \in {"leave", "done"} => todo[r] = {}
  /\ \A r \in Runs : \A p \in Removed(r) : ~Exists(p)
  /\ \A r, s \in Runs : r # s => Removed(r) \cap Removed(s) = {}

\* A run that comes to be deleting, or is through with it, was deleting before, or has
\* read its output back in this step and removed nothing.
LEMMA Entering ==
  ASSUME Shape, [Next]_vars, NEW r \in Runs, DeleteMerged[r], pc[r] \notin Over, pc'[r] \in Over
  PROVE  /\ pc[r] = "renamed" /\ pc'[r] = "deleting" /\ plan' = plan
         /\ todo'[r] = DOMAIN plan[r].victims /\ UNCHANGED <<dir, born>>
  <1>a. pc \in [Runs -> Ended \cup Live] /\ todo \in [Runs -> SUBSET Paths]
    BY DEF Shape, Typed, TypeOK, PlansOK, RunsOK
  <1> USE <1>a DEF Over
  <1>1. ASSUME NEW s \in Runs, Quiet(s), ~(s = r /\ ReadBack(s)) PROVE FALSE
    BY <1>1 DEF Quiet, Plan, CheckDestination, TakeLock, WriteLock, OpenSources, CreateTemp,
                WriteOutput, Flush, JudgeRename, ReadBack, DropTemp, DropLock, Kill, Again
  <1>2. ASSUME NEW s \in Runs, Rename(s) \/ Delete(s) PROVE FALSE
    BY <1>2 DEF Rename, Delete
  <1>3. ReadBack(r)
    BY <1>1, <1>2, QuietSteps DEF vars
  <1> QED BY <1>3 DEF ReadBack, fsVars, histVars

\* Only the run's own deletion adds to what it has removed, and the file was there.
LEMMA RemovedGrows ==
  ASSUME OwnOutputs, Shape, Parted, [Next]_vars, NEW r \in Runs, NEW p \in Removed(r)'
  PROVE  \/ p \in Removed(r)
         \/ Delete(r) /\ Exists(p) /\ dir'[p] = NoFile /\ todo'[r] # todo[r]
  <1>a. /\ todo \in [Runs -> SUBSET Paths] /\ dir \in [Paths -> File \cup {NoFile}]
        /\ pc \in [Runs -> Ended \cup Live]
    BY DEF Shape, Typed, TypeOK, PlansOK, FilesOK, RunsOK
  <1>1. /\ DeleteMerged[r] /\ pc'[r] \in Over
        /\ p \in DOMAIN plan'[r].victims /\ p \notin todo'[r]
    BY DEF Removed
  <1>2. pc[r] \in Over
    BY <1>1, Entering
  <1>3. plan'[r] = plan[r]
    BY <1>1, <1>2, LandedStays DEF Parted
  <1>4. CASE p \notin todo[r]
    BY <1>1, <1>2, <1>3, <1>4 DEF Removed
  <1>5. CASE p \in todo[r]
    <2>1. ASSUME NEW s \in Runs, Quiet(s) PROVE FALSE
      BY <2>1, <1>a, <1>1, <1>2, <1>5
         DEF Quiet, Plan, CheckDestination, TakeLock, WriteLock, OpenSources, CreateTemp,
             WriteOutput, Flush, JudgeRename, ReadBack, DropTemp, DropLock, Kill, Again, Over
    <2>2. ASSUME NEW s \in Runs, Rename(s) PROVE FALSE
      BY <2>2, <1>1, <1>5 DEF Rename
    <2>3. ASSUME NEW s \in Runs, Delete(s)
          PROVE  Delete(r) /\ Exists(p) /\ dir'[p] = NoFile
      BY <2>3, <1>a, <1>1, <1>5 DEF Delete
    <2>4. Delete(r) /\ Exists(p) /\ dir'[p] = NoFile
      BY <2>1, <2>2, <2>3, <1>1, <1>5, QuietSteps DEF vars
    <2> QED BY <2>4, <1>1, <1>5
  <1> QED BY <1>4, <1>5

\* The deletion is through when nothing is left of it.
LEMMA ThroughStep ==
  ASSUME OwnOutputs, Shape, Parted, [Next]_vars, NEW r \in Runs, DeleteMerged[r]
  PROVE  /\ pc'[r] \in Over => Landed(r)'
         /\ pc'[r] \in {"leave", "done"} => todo'[r] = {}
  <1>a. pc \in [Runs -> Ended \cup Live] /\ todo \in [Runs -> SUBSET Paths]
    BY DEF Shape, Typed, TypeOK, PlansOK, RunsOK
  <1>1. CASE pc[r] \notin Over
    BY <1>1, Entering, LandedStays DEF Shape, Unborn, Over
  <1>2. CASE pc[r] \in Over
    <2>1. Landed(r)'
      BY <1>2, LandedStays DEF Parted
    <2>2. ASSUME NEW s \in Runs, Quiet(s), pc'[r] \in {"leave", "done"} PROVE todo'[r] = {}
      <3>1. todo[r] = {} /\ todo'[r] = todo[r]
        BY <2>2, <1>2, <1>a
           DEF Quiet, Plan, CheckDestination, TakeLock, WriteLock, OpenSources, CreateTemp,
               WriteOutput, Flush, JudgeRename, ReadBack, DropTemp, DropLock, Kill, Again,
               Over, Parted
      <3> QED BY <3>1
    <2>3. ASSUME NEW s \in Runs, Rename(s) \/ Delete(s), pc'[r] \in {"leave", "done"}
          PROVE  todo'[r] = {}
      BY <2>3, <1>2, <1>a DEF Rename, Delete, Over, Parted
    <2>4. ASSUME UNCHANGED <<pc, todo>>, pc'[r] \in {"leave", "done"} PROVE todo'[r] = {}
      BY <2>4 DEF Parted
    <2> QED BY <2>1, <2>2, <2>3, <2>4, QuietSteps DEF vars
  <1> QED BY <1>1, <1>2

LEMMA PartedStep ==
  ASSUME OwnOutputs, Shape, PlansTrue, Parted, [Next]_vars
  PROVE  Parted'
  <1>a. /\ DOMAIN plan = Runs /\ \A r \in Runs : DOMAIN plan[r].victims \subseteq Paths
        /\ todo \in [Runs -> SUBSET Paths]
    BY DEF Shape, Typed, TypeOK, PlansOK, PlanOK
  <1>1. ASSUME NEW r \in Runs, NEW p \in Removed(r)' PROVE ~Exists(p)'
    <2>1. CASE p \in Removed(r)
      <3>1. p \in Paths /\ Settled(p) /\ ~Exists(p)
        BY <2>1, <1>a DEF PlansTrue, Parted, Removed
      <3>2. dir'[p] \in {dir[p], NoFile}
        BY <3>1, SettledStays
      <3> QED BY <3>1, <3>2 DEF Exists
    <2>2. CASE dir'[p] = NoFile
      BY <2>2 DEF Exists
    <2> QED BY <2>1, <2>2, RemovedGrows
  <1>2. ASSUME NEW r \in Runs, NEW s \in Runs, r # s,
               NEW p \in Removed(r)', p \in Removed(s)'
        PROVE  FALSE
    <2>1. CASE p \in Removed(r) /\ p \in Removed(s)
      BY <2>1, <1>2 DEF Parted
    <2>2. CASE p \in Removed(r) \/ p \in Removed(s)
      <3>1. ~Exists(p)
        BY <2>2 DEF Parted
      <3> QED BY <3>1, <2>1, <1>2, RemovedGrows
    <2>3. CASE Delete(r) /\ todo'[s] # todo[s]
      BY <2>3, <1>2, <1>a DEF Delete
    <2> QED BY <2>1, <2>2, <2>3, <1>2, RemovedGrows
  <1>3. \A r \in Runs : DeleteMerged[r] =>
          /\ pc'[r] \in Over => Landed(r)'
          /\ pc'[r] \in {"leave", "done"} => todo'[r] = {}
    BY ThroughStep
  <1> QED BY <1>1, <1>2, <1>3 DEF Parted

\* However ranges overlap and locks differ, and whatever was planned from a set that has
\* changed since, at most one of the runs that absorb a file deletes it and reports success.
THEOREM SuccessesAreApart == ASSUME OwnOutputs PROVE Spec => []SuccessesApart
  <1> DEFINE J == Shape /\ Honest /\ PlansTrue /\ Parted
  <1>1. J /\ [Next]_vars => J'
    BY StepTyped, UnbornStep, HonestStep, PlansTrueStep, PartedStep DEF Shape
  <1>2. Init => J
    <2>1. Init => Parted
      BY DEF Init, Parted, Removed, Over
    <2> QED BY <2>1, InitInv DEF Inv
  <1>3. J => SuccessesApart
    <2>1. ASSUME Parted, NEW r \in Runs, DeleteMerged[r], pc[r] = "done"
          PROVE  Removed(r) = DOMAIN plan[r].victims
      BY <2>1 DEF Parted, Removed, Over
    <2>2. Parted => SuccessesApart
      BY <2>1 DEF Parted, SuccessesApart
    <2> QED BY <2>2
  <1> HIDE DEF J
  <1> QED BY <1>1, <1>2, <1>3, PTL DEF Spec
=============================================================================
