------------------------------ MODULE MergeRun ------------------------------
(***************************************************************************)
(* Runs of the program that write (no --dry-run), over the folders they    *)
(* share.  A run is one process: it reads the set and plans, looks at the  *)
(* destination, takes the lock of the destination's folder, opens the      *)
(* files it absorbs, writes a temporary file, renames it into place, reads *)
(* the result back, deletes what it absorbed, and leaves.  Between any two *)
(* steps another run may move, the process may be killed, and a person may *)
(* run --recover.                                                          *)
(*                                                                         *)
(* A file is known by the number it carries, the numbers it claims and the *)
(* numbers whose blocks it truly holds.  The last is what a restore would  *)
(* find, and no step of the program can see it without reading back.       *)
(***************************************************************************)
EXTENDS Naturals, FiniteSets

CONSTANTS
  Runs,      \* the invocations of the program
  Paths,     \* every path a file of the set or an output may have
  Folders,   \* the directories
  FolderOf,  \* [Paths -> Folders]
  SourceAt,  \* [path |-> file number] of the set as Reflect left it
  Bystanders,\* paths of files that are there and belong to no set
  From, To, Out,       \* [Runs -> Paths], the arguments of each run
  DeleteMerged,        \* [Runs -> BOOLEAN], --delete-merged
  VerifyMd5,           \* [Runs -> BOOLEAN], --verify-md5
  Remote,    \* the folders Mount::is_remote says yes to
  Damage,    \* what a remote folder may do to a file it accepted
  Attempts,  \* ATTEMPTS of rename_into_place
  NoFile, NoRun, Unreadable

VARIABLES
  pc,        \* where each run is
  plan,      \* what each run decided from the set it read
  held,      \* the numbers each run can read through its open handles
  temp,      \* each run's temporary file: "none", "partial" or "whole"
  tries,     \* renames each run has attempted
  todo,      \* the paths each run has still to delete
  dir,       \* [Paths -> file or NoFile]
  lock,      \* [Folders -> the run that created merge_running, or NoRun]
  clearing,  \* the folders where a --recover has yet to remove the temporaries
  clock,     \* history: outputs renamed into place so far
  born       \* history: [Paths -> the clock when an output got that name, or 0]

runVars  == <<pc, plan, held, temp, tries, todo>>
fsVars   == <<dir, lock, clearing>>
histVars == <<clock, born>>
vars     == <<pc, plan, held, temp, tries, todo, dir, lock, clearing, clock, born>>

Sources == DOMAIN SourceAt
Numbers == {SourceAt[p] : p \in Sources}

ASSUME PathAssumption ==
  /\ FolderOf \in [Paths -> Folders]
  /\ Remote \subseteq Folders
  /\ Sources \subseteq Paths
  /\ \A p \in Sources : SourceAt[p] \in Nat
  /\ \A p, q \in Sources : SourceAt[p] = SourceAt[q] => p = q
  /\ Bystanders \subseteq Paths \ Sources

ASSUME RunAssumption ==
  /\ From \in [Runs -> Paths] /\ To \in [Runs -> Paths] /\ Out \in [Runs -> Paths]
  /\ DeleteMerged \in [Runs -> BOOLEAN] /\ VerifyMd5 \in [Runs -> BOOLEAN]
  /\ Attempts \in Nat \ {0}
  /\ Damage \subseteq {"framing", "payload"}

ASSUME DistinctAssumption ==
  /\ NoRun \notin Runs
  /\ Unreadable \notin Nat

Num == Nat \cup {Unreadable}
File == [num : Num, claims : SUBSET Numbers, holds : SUBSET Numbers]

ASSUME NoFileAssumption == NoFile \notin File

\* members: the paths of the set.  victims: the files to absorb, by path, as they were
\* when the set was read.
NoPlan == [num |-> Unreadable, absorbed |-> {}, members |-> {}, victims |-> <<>>]

Ended == {"idle", "done", "failed", "killed"}
\* From the creation of the lock file to its removal.
Locked == {"locking", "locked", "opened", "created", "written", "flushed", "judging",
           "renamed", "deleting", "abandon", "leave", "leave_failed"}
Live == {"planned", "clear"} \cup Locked

Here(r) == FolderOf[Out[r]]
Landed(r) == born[Out[r]] # 0

Init ==
  /\ pc = [r \in Runs |-> "idle"]
  /\ plan = [r \in Runs |-> NoPlan]
  /\ held = [r \in Runs |-> {}]
  /\ temp = [r \in Runs |-> "none"]
  /\ tries = [r \in Runs |-> 0]
  /\ todo = [r \in Runs |-> {}]
  /\ dir = [p \in Paths |->
              IF p \in Sources
              THEN [num |-> SourceAt[p], claims |-> {SourceAt[p]}, holds |-> {SourceAt[p]}]
              ELSE IF p \in Bystanders
                   THEN [num |-> Unreadable, claims |-> {}, holds |-> {}]
                   ELSE NoFile]
  /\ lock = [f \in Folders |-> NoRun]
  /\ clearing = {}
  /\ clock = 0
  /\ born = [p \in Paths |-> 0]

-----------------------------------------------------------------------------
(* What a run decides from the set, before it holds any lock.              *)

Exists(p) == dir[p] # NoFile
Readable(p) == Exists(p) /\ dir[p].num # Unreadable

\* BackupSet::discover: the readable files beside t that are not newer than t.  The set has
\* no Differentials here, so a restore needs every number up to that of t.
Members(t) == {p \in Paths : /\ FolderOf[p] = FolderOf[t]
                             /\ Readable(p)
                             /\ dir[p].num <= dir[t].num}

Discoverable(t) ==
  /\ Readable(t)
  /\ \A p, q \in Members(t) : p # q => dir[p].claims \cap dir[q].claims = {}
  /\ \A n \in 0 .. dir[t].num : \E p \in Members(t) : n \in dir[p].claims

\* The members a merge from f to t absorbs (absorbed_file_numbers, redundant_paths).
Victims(f, t) == {p \in Members(t) : dir[p].num >= dir[f].num}

Plannable(r) ==
  /\ Readable(From[r])
  /\ Discoverable(To[r])
  /\ dir[From[r]].num < dir[To[r]].num
  /\ \E p \in Members(To[r]) : dir[p].num = dir[From[r]].num

\* The numbers the files of V answer for.  (Mutant: their own numbers alone.)
OwnNumbers(V) == {dir[p].num : p \in V}
AllNumbers(V) == UNION {dir[p].claims : p \in V}

PlanOf(r) ==
  LET V == Victims(From[r], To[r])
  IN  [num      |-> dir[From[r]].num,
       absorbed |-> AllNumbers(V),
       members  |-> Members(To[r]),
       victims  |-> [p \in V |-> dir[p]]]

Go(r, step) == pc' = [pc EXCEPT ![r] = step]

Plan(r) ==
  /\ pc[r] = "idle"
  /\ \/ /\ Plannable(r)
        /\ plan' = [plan EXCEPT ![r] = PlanOf(r)]
        /\ Go(r, "planned")
     \/ ~Plannable(r) /\ Go(r, "failed") /\ UNCHANGED plan
  /\ UNCHANGED <<held, temp, tries, todo, fsVars, histVars>>

\* The output is not a member, and `!out.exists()`.  (Mutant: not a member.)
NotAMember(r) == Out[r] \notin plan[r].members
MayWriteTo(r) == Out[r] \notin plan[r].members /\ ~Exists(Out[r])

CheckDestination(r) ==
  /\ pc[r] = "planned"
  /\ Go(r, IF MayWriteTo(r) THEN "clear" ELSE "failed")
  /\ UNCHANGED <<plan, held, temp, tries, todo, fsVars, histVars>>

-----------------------------------------------------------------------------
(* The lock, the sources, the temporary file.                              *)

\* create_new: an existing lock file refuses the run, whoever made it.  (Mutant: create,
\* which refuses only the run's own.)
NotMine(r) == lock[Here(r)] # r
Unlocked(r) == lock[Here(r)] = NoRun

\* The checks of size and free space, then the lock file.
TakeLock(r) ==
  /\ pc[r] = "clear"
  /\ \/ /\ Unlocked(r)
        /\ lock' = [lock EXCEPT ![Here(r)] = r]
        /\ Go(r, "locking")
     \/ Go(r, "failed") /\ UNCHANGED lock
  /\ UNCHANGED <<plan, held, temp, tries, todo, dir, clearing, histVars>>

\* The body is written and synced before Lock::take builds the value whose Drop
\* removes the file, so a failure here returns with the file still there.
WriteLock(r) ==
  /\ pc[r] = "locking"
  /\ Go(r, "locked") \/ Go(r, "failed")
  /\ UNCHANGED <<plan, held, temp, tries, todo, fsVars, histVars>>

\* SourceFiles::open, which fails for a file that is gone and may fail for any other.  An
\* open handle keeps the file's content, deleted or not.
OpenSources(r) ==
  /\ pc[r] = "locked"
  /\ \/ /\ \A p \in DOMAIN plan[r].victims : Exists(p)
        /\ held' = [held EXCEPT ![r] = UNION {dir[p].holds : p \in DOMAIN plan[r].victims}]
        /\ Go(r, "opened")
     \/ Go(r, "leave_failed") /\ UNCHANGED held
  /\ UNCHANGED <<plan, temp, tries, todo, fsVars, histVars>>

\* TempOutput::create, the permissions and the reservation.
CreateTemp(r) ==
  /\ pc[r] = "opened"
  /\ \/ temp' = [temp EXCEPT ![r] = "partial"] /\ (Go(r, "created") \/ Go(r, "abandon"))
     \/ Go(r, "leave_failed") /\ UNCHANGED temp
  /\ UNCHANGED <<plan, held, tries, todo, fsVars, histVars>>

\* write_output and the flush of its buffer.  A temporary file that --recover removed
\* is still open, so the write goes on under no name.
WriteOutput(r) ==
  /\ pc[r] = "created"
  /\ \/ /\ Go(r, "written")
        /\ temp' = [temp EXCEPT ![r] = IF @ = "none" THEN "none" ELSE "whole"]
     \/ Go(r, "abandon") /\ UNCHANGED temp
  /\ UNCHANGED <<plan, held, tries, todo, fsVars, histVars>>

\* The first half of commit: length, sync_all, close.  A failed sync is not retried.
Flush(r) ==
  /\ pc[r] = "written"
  /\ Go(r, "flushed") \/ Go(r, "abandon")
  /\ UNCHANGED <<plan, held, temp, tries, todo, fsVars, histVars>>

-----------------------------------------------------------------------------
(* The rename, the read-back, the deletion.                                *)

\* The output as the folder keeps it.
Stored(r, damage) ==
  CASE damage = "none" ->
         [num |-> plan[r].num, claims |-> plan[r].absorbed,
          holds |-> plan[r].absorbed \cap held[r]]
    [] damage = "payload" ->
         [num |-> plan[r].num, claims |-> plan[r].absorbed, holds |-> {}]
    [] damage = "framing" -> [num |-> Unreadable, claims |-> {}, holds |-> {}]

DamageAt(f) == {"none"} \cup (IF f \in Remote THEN Damage ELSE {})

\* The attempt a call of rename is.  (Mutant: not counted.)
SameAttempt(r) == tries[r]
NextAttempt(r) == tries[r] + 1

\* One call of rename.  It works; or it works and a remote server says it did not; or
\* it fails.  With the temporary file gone it can only fail.
Rename(r) ==
  /\ pc[r] = "flushed"
  /\ tries' = [tries EXCEPT ![r] = NextAttempt(r)]
  /\ \/ /\ temp[r] = "whole"
        /\ \E d \in DamageAt(Here(r)) : dir' = [dir EXCEPT ![Out[r]] = Stored(r, d)]
        /\ temp' = [temp EXCEPT ![r] = "none"]
        /\ clock' = clock + 1
        /\ born' = [born EXCEPT ![Out[r]] = clock + 1]
        /\ Go(r, "renamed") \/ (Here(r) \in Remote /\ Go(r, "judging"))
     \/ Go(r, "judging") /\ UNCHANGED <<dir, temp, histVars>>
  /\ UNCHANGED <<plan, held, todo, lock, clearing>>

\* rename_already_happened
AlreadyHappened(r) == Exists(Out[r]) /\ temp[r] = "none"

\* Another attempt is left, and the error is of a passing kind, which NotFound is not.
\* (Mutant: one attempt too many.)
MayRetryOnceMore(r) == tries[r] <= Attempts /\ temp[r] # "none"
MayRetry(r) == tries[r] < Attempts /\ temp[r] # "none"

\* What rename_into_place does with an error: believe the paths on a remote mount, try
\* again, or give up.
JudgeRename(r) ==
  /\ pc[r] = "judging"
  /\ IF Here(r) \in Remote /\ AlreadyHappened(r)
     THEN Go(r, "renamed")
     ELSE \/ Go(r, "abandon")
          \/ MayRetry(r) /\ Go(r, "flushed")
  /\ UNCHANGED <<plan, held, temp, tries, todo, fsVars, histVars>>

\* check_output, and verify_file with --verify-md5: the one reads the framing and the
\* file's number, the other the payload of every block.  (Mutant: check_output alone.)
FramingPasses(r) == Readable(Out[r]) /\ dir[Out[r]].num = plan[r].num
ReadBackPasses(r) ==
  /\ Readable(Out[r])
  /\ dir[Out[r]].num = plan[r].num
  /\ VerifyMd5[r] => dir[Out[r]].holds = dir[Out[r]].claims

\* The reading may also fail on a sound output (a read error, a password not given).
ReadBack(r) ==
  /\ pc[r] = "renamed"
  /\ \/ /\ ReadBackPasses(r) /\ DeleteMerged[r]
        /\ todo' = [todo EXCEPT ![r] = DOMAIN plan[r].victims]
        /\ Go(r, "deleting")
     \/ ReadBackPasses(r) /\ ~DeleteMerged[r] /\ Go(r, "leave") /\ UNCHANGED todo
     \/ Go(r, "leave_failed") /\ UNCHANGED todo
  /\ UNCHANGED <<plan, held, temp, tries, fsVars, histVars>>

\* p owns the lowest number left (redundant_paths is in number order).
NextToDelete(r, p) ==
  \E n \in plan[r].victims[p].claims :
    \A q \in todo[r] : \A m \in plan[r].victims[q].claims : n <= m

\* remove_file removes only what is there.  (Mutant: a file that is gone will do.)
MayBeGone(p) == TRUE
MustBeThere(p) == Exists(p)

\* One remove_file of the deletion loop, which the first error ends.
Delete(r) ==
  /\ pc[r] = "deleting"
  /\ \/ todo[r] = {} /\ Go(r, "leave") /\ UNCHANGED <<todo, dir>>
     \/ \E p \in todo[r] :
          /\ NextToDelete(r, p)
          /\ \/ /\ MustBeThere(p)
                /\ dir' = [dir EXCEPT ![p] = NoFile]
                /\ todo' = [todo EXCEPT ![r] = @ \ {p}]
                /\ UNCHANGED pc
             \/ Go(r, "leave_failed") /\ UNCHANGED <<todo, dir>>
  /\ UNCHANGED <<plan, held, temp, tries, lock, clearing, histVars>>

-----------------------------------------------------------------------------
(* How a run ends, and what people and the system do to it.                *)

\* Drop of an uncommitted TempOutput, which ignores a failing remove_file.
DropTemp(r) ==
  /\ pc[r] = "abandon"
  /\ temp' = [temp EXCEPT ![r] = "none"] \/ UNCHANGED temp
  /\ Go(r, "leave_failed")
  /\ UNCHANGED <<plan, held, tries, todo, fsVars, histVars>>

\* Drop of the Lock, which comes last, removes the file whoever made it, and ignores a
\* failing remove_file: the run then ends as it would have, with the file still there.
DropLock(r) ==
  /\ pc[r] \in {"leave", "leave_failed"}
  /\ lock' = [lock EXCEPT ![Here(r)] = NoRun] \/ UNCHANGED lock
  /\ Go(r, IF pc[r] = "leave" THEN "done" ELSE "failed")
  /\ UNCHANGED <<plan, held, temp, tries, todo, dir, clearing, histVars>>

Kill(r) ==
  /\ pc[r] \in Live
  /\ Go(r, "killed")
  /\ UNCHANGED <<plan, held, temp, tries, todo, fsVars, histVars>>

\* The same command again.  (Once the output has been in place the repeat is refused:
\* either it is still there or the From file it needs is not.)
Again(r) ==
  /\ pc[r] \in {"failed", "killed"} /\ ~Landed(r)
  /\ Go(r, "idle")
  /\ plan' = [plan EXCEPT ![r] = NoPlan]
  /\ held' = [held EXCEPT ![r] = {}]
  /\ temp' = [temp EXCEPT ![r] = "none"]  \* the next run takes another random name
  /\ tries' = [tries EXCEPT ![r] = 0]
  /\ UNCHANGED <<todo, fsVars, histVars>>

\* --recover (clear_leftovers), first half: the lock file goes, if there is one.  A person
\* runs it, told to do so "if no merge is running".
ClearLock(f) ==
  /\ f \notin clearing
  /\ \A r \in Runs : Here(r) = f => pc[r] \in Ended
  /\ lock' = [lock EXCEPT ![f] = NoRun]
  /\ clearing' = clearing \cup {f}
  /\ UNCHANGED <<runVars, dir, histVars>>

\* Second half: every temporary output goes, of whichever run; by now one may have begun.
\* The first listing or removal that fails ends it, so some may stay.
ClearTemps(f) ==
  /\ f \in clearing
  /\ \E gone \in SUBSET {r \in Runs : Here(r) = f} :
       temp' = [r \in Runs |-> IF r \in gone THEN "none" ELSE temp[r]]
  /\ clearing' = clearing \ {f}
  /\ UNCHANGED <<pc, plan, held, tries, todo, dir, lock, histVars>>

Step(r) ==
  \/ Plan(r) \/ CheckDestination(r) \/ TakeLock(r) \/ WriteLock(r) \/ OpenSources(r)
  \/ CreateTemp(r) \/ WriteOutput(r) \/ Flush(r) \/ Rename(r) \/ JudgeRename(r)
  \/ ReadBack(r) \/ Delete(r) \/ DropTemp(r) \/ DropLock(r)

Next ==
  \/ \E r \in Runs : Step(r) \/ Kill(r) \/ Again(r)
  \/ \E f \in Folders : ClearLock(f) \/ ClearTemps(f)

Spec == Init /\ [][Next]_vars

\* A process that is not killed keeps running.
FairSpec == Spec /\ \A r \in Runs : WF_vars(Step(r))

\* Each run writes under a path of its own, which no file of the set has.
OwnOutputs ==
  /\ \A r, s \in Runs : Out[r] = Out[s] => r = s
  /\ \A r \in Runs : Out[r] \notin Sources

\* Damage to the payload is looked for: check_output reads none, only --verify-md5 does.
DamageSeen == "payload" \in Damage => \A r \in Runs : DeleteMerged[r] => VerifyMd5[r]

-----------------------------------------------------------------------------
(* Properties.                                                             *)

PlanOK(p) ==
  /\ p.num \in Num /\ p.absorbed \subseteq Numbers
  /\ p.members \subseteq Paths /\ DOMAIN p.victims \subseteq p.members
  /\ \A v \in DOMAIN p.victims : p.victims[v] \in File

RunsOK ==
  /\ pc \in [Runs -> Ended \cup Live]
  /\ held \in [Runs -> SUBSET Numbers]
  /\ temp \in [Runs -> {"none", "partial", "whole"}]
  /\ tries \in [Runs -> 0 .. Attempts]

PlansOK ==
  /\ DOMAIN plan = Runs /\ \A r \in Runs : PlanOK(plan[r])
  /\ todo \in [Runs -> SUBSET Paths]

FilesOK ==
  /\ dir \in [Paths -> File \cup {NoFile}]
  /\ lock \in [Folders -> Runs \cup {NoRun}]
  /\ clearing \subseteq Folders
  /\ clock \in Nat
  /\ born \in [Paths -> 0 .. clock]

\* Every variable stays in its set.
TypeOK == RunsOK /\ PlansOK /\ FilesOK

\* Two runs never work in one destination folder at once: the lock file is enough, with
\* kills, failures and --recover between the runs (commit.rs, Lock).
MutualExclusion ==
  \A r, s \in Runs : r # s /\ Here(r) = Here(s) => ~(pc[r] \in Locked /\ pc[s] \in Locked)

\* Whatever fails, is killed or lies, the blocks of every file of the set are in some file
\* under a name a restore reads: a source goes only once its blocks are safe elsewhere
\* (cli.rs, "Only now, after the output was read back, may a source be removed").
NothingLost ==
  \A n \in Numbers : \E p \in Paths : Exists(p) /\ n \in dir[p].holds

\* A file that is there is never written over (cli.rs, "This tool never writes over a file
\* that is there"): it stays as it is until it is deleted.
NeverOverwrites ==
  [][\A p \in Paths : Exists(p) => dir'[p] \in {dir[p], NoFile}]_vars

\* Two runs that both deleted what they absorbed and reported success absorbed no file in
\* common, whatever they saw when they planned and whichever locks they took: a stale plan
\* shows at the latest in the deletion loop (cli.rs), where a file that is gone is an error.
\* Else two outputs claim one backup, and no restore point of the set can be found.
SuccessesApart ==
  \A r, s \in Runs :
    /\ r # s /\ DeleteMerged[r] /\ DeleteMerged[s]
    /\ pc[r] = "done" /\ pc[s] = "done"
    => DOMAIN plan[r].victims \cap DOMAIN plan[s].victims = {}

\* "Dropping this value removes the file, which covers a clean exit and a reported failure
\* alike" (commit.rs, Lock): a run that failed by itself leaves no lock of its own.
FailureFreesLock == \A r \in Runs : pc[r] = "failed" => lock[Here(r)] # r

\* A run ends: no lock, retry or failure keeps one going for ever.
RunEnds == \A r \in Runs : pc[r] \in Live ~> pc[r] \in Ended
=============================================================================
