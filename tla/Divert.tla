------------------------------- MODULE Divert -------------------------------
(***************************************************************************)
(* The Ansible module dpkg_divert: diverting a file of a package, undoing  *)
(* it, and giving a diversion to another package or another target, which  *)
(* dpkg-divert cannot do and the module does in several commands, undoing  *)
(* the first when a later one fails.                                       *)
(*                                                                         *)
(* There is one file, at "src".  dpkg-divert is external: a rename onto    *)
(* another file is an error in the present one, and was skipped by the one *)
(* that the documentation of the module speaks of ("lenient").  Each file  *)
(* is known by the place where it was at first.                            *)
(***************************************************************************)
EXTENDS Naturals

Nowhere == "nowhere"
Targets == {"local", "distrib", "custom"}
Paths == {"src"} \union Targets
NoDiversion == [owner |-> "none", to |-> "none"]
Owners == {"LOCAL", "pkg"}

Tasks == [state : {"present", "absent"}, package : Owners, divert : {"default", "custom"},
          rename : BOOLEAN, delete : BOOLEAN, force : BOOLEAN]

VARIABLES
    lenient,   \* whether dpkg-divert skips a rename that would overwrite
    db,        \* the diversion of the file
    files,     \* the file at each path, or Nowhere
    task,      \* the parameters of the module
    check,     \* whether it runs in check mode
    pc,        \* where the module is
    saved,     \* what it remembers: the target that was, and which files existed
    result,    \* its answer, and the mishap that ended it, of those dpkg-divert knows nothing of
    before,    \* the diversion and the files when it started
    past       \* the run before this one, with the same parameters

divertVars == <<lenient, db, files, task, check, pc, saved, result, before, past>>
sys == <<db, files>>

Target(t) == IF t.divert = "custom" THEN "custom" ELSE IF t.package = "LOCAL" THEN "local" ELSE "distrib"
Wanted(t) == [owner |-> t.package, to |-> Target(t)]
NoResult == [failed |-> FALSE, changed |-> FALSE, mishap |-> "none"]
NoRun == [check |-> FALSE, result |-> NoResult, done |-> FALSE]
NothingSaved == [old |-> "none", owner |-> "none", oldExists |-> FALSE, newExists |-> FALSE]

-----------------------------------------------------------------------------
\* dpkg-divert: what a command would do.  ok, whether there was anything to
\* do, and the diversion and the files after it.
There(fs, p) == fs[p] # Nowhere
Moved(fs, a, b) ==
    IF There(fs, a) /\ ~There(fs, b) THEN [fs EXCEPT ![a] = Nowhere, ![b] = fs[a]] ELSE fs
Collides(fs, a, b) == There(fs, a) /\ There(fs, b) /\ ~lenient

Outcome(ok, did, d, fs) == [ok |-> ok, did |-> did, db |-> d, files |-> fs]
Failing == Outcome(FALSE, FALSE, db, files)

DpkgAdd(owner, to, rename) ==
    IF db # NoDiversion
    THEN IF db = [owner |-> owner, to |-> to] THEN Outcome(TRUE, FALSE, db, files) ELSE Failing
    ELSE IF rename /\ Collides(files, "src", to) THEN Failing
    ELSE Outcome(TRUE, TRUE, [owner |-> owner, to |-> to],
                 IF rename THEN Moved(files, "src", to) ELSE files)
DpkgRemove(matches, rename) ==
    IF db = NoDiversion THEN Outcome(TRUE, FALSE, db, files)
    ELSE IF ~matches \/ (rename /\ Collides(files, db.to, "src")) THEN Failing
    ELSE Outcome(TRUE, TRUE, NoDiversion, IF rename THEN Moved(files, db.to, "src") ELSE files)

\* COMMANDLINE and FORCEREMOVE
CommandLine ==
    IF task.state = "present" THEN DpkgAdd(task.package, Target(task), task.rename)
    ELSE DpkgRemove(db = Wanted(task), task.rename)
ForceRemove == DpkgRemove(TRUE, task.rename)

-----------------------------------------------------------------------------
DivertInit ==
    /\ lenient \in BOOLEAN
    /\ db \in [owner : Owners, to : Targets] \union {NoDiversion}
    /\ files \in {f \in [Paths -> Paths \union {Nowhere}] : \A p \in Paths : f[p] \in {p, Nowhere}}
    /\ task \in {t \in Tasks : t.delete => t.state = "absent"}
    /\ check \in BOOLEAN /\ pc = "test"
    /\ saved = NothingSaved /\ result = NoResult
    /\ before = [db |-> db, files |-> files] /\ past = NoRun

\* exit_json, or fail_json
Exit(failed, changed) ==
    pc' = "end" /\ result' = [failed |-> failed, changed |-> changed, mishap |-> "none"]
\* A command fails for reasons of its own (the database is locked, the disk is
\* full), or a call of the module raises.
Breaks(what) ==
    pc' = "end" /\ result' = [failed |-> TRUE, changed |-> FALSE, mishap |-> what]
Run(outcome) == db' = outcome.db /\ files' = outcome.files

\* the test of the command, and --listpackage
\* Mutant of Simple: what is forced is always done anew.
SimpleNever == ~task.force \/ db = NoDiversion
Simple == CommandLine.ok \/ ~task.force \/ db = NoDiversion

Deletes == task.state = "absent" /\ task.delete /\ db # NoDiversion

\* In check mode a removal after the deletion is told, not tried.
DivertFake ==
    /\ pc = "test" /\ Simple /\ check /\ Deletes /\ There(files, "src")
    /\ Exit(FALSE, TRUE)
    /\ UNCHANGED <<sys, saved>>
DivertSimple ==
    /\ pc = "test" /\ Simple /\ ~(check /\ Deletes /\ There(files, "src"))
    /\ files' = IF Deletes /\ ~check THEN [files EXCEPT !["src"] = Nowhere] ELSE files
    /\ pc' = "command"
    /\ UNCHANGED <<db, saved, result>>
DivertCommand ==
    /\ pc = "command"
    /\ Exit(~CommandLine.ok, CommandLine.did)
    /\ IF check THEN UNCHANGED sys ELSE Run(CommandLine)
    /\ UNCHANGED saved
\* the deletion, the command or the forced removal fails
DivertFails ==
    /\ pc \in {"test", "command"} /\ Breaks("other")
    /\ UNCHANGED <<sys, saved>>

\* The forced removal, which for "present" is the first of several commands.
\* What is saved was asked before it, and the files were looked at after it.
\* Mutant of DivertForce: the module stops after the removal.
DivertForceOnly ==
    /\ pc = "test" /\ ~Simple
    /\ IF check THEN UNCHANGED sys ELSE Run(ForceRemove)
    /\ Exit(~ForceRemove.ok, ForceRemove.ok) /\ UNCHANGED saved
\* Mutant of DivertForce: check mode says that nothing is forced.
DivertForceQuiet ==
    /\ pc = "test" /\ ~Simple /\ (check \/ task.state = "absent")
    /\ IF check THEN UNCHANGED sys ELSE Run(ForceRemove)
    /\ Exit(~ForceRemove.ok, ForceRemove.ok /\ ~check) /\ UNCHANGED saved
DivertForce ==
    /\ pc = "test" /\ ~Simple
    /\ IF check THEN UNCHANGED sys ELSE Run(ForceRemove)
    /\ IF ~ForceRemove.ok \/ task.state = "absent" \/ check
       THEN Exit(~ForceRemove.ok, ForceRemove.ok) /\ UNCHANGED saved
       ELSE /\ saved' = [old |-> db.to, owner |-> db.owner,
                         oldExists |-> There(ForceRemove.files, db.to),
                         newExists |-> There(ForceRemove.files, Target(task))]
            /\ pc' = "move" /\ UNCHANGED result
\* the diverted file goes from the old target to the new one
\* Mutant of DivertMove: onto the file that is there.
DivertMoveOver ==
    /\ pc = "move" /\ pc' = "add"
    /\ files' = IF task.rename /\ saved.oldExists /\ saved.old # Target(task)
                THEN [files EXCEPT ![saved.old] = Nowhere, ![Target(task)] = files[saved.old]]
                ELSE files
    /\ UNCHANGED <<db, saved, result>>
MovesOn == task.rename /\ saved.oldExists /\ ~saved.newExists
DivertMove ==
    /\ pc = "move" /\ pc' = "add"
    /\ files' = IF MovesOn THEN Moved(files, saved.old, Target(task)) ELSE files
    /\ UNCHANGED <<db, saved, result>>
\* The rename raises, as when the directory is not there or on another file
\* system, and nothing gives the old diversion back.
DivertMoveFails ==
    /\ pc = "move" /\ MovesOn /\ Breaks("rename")
    /\ UNCHANGED <<sys, saved>>
DivertAdd ==
    /\ pc = "add"
    /\ IF CommandLine.ok THEN Exit(FALSE, TRUE) /\ Run(CommandLine)
       ELSE pc' = "restore" /\ UNCHANGED <<sys, result>>
    /\ UNCHANGED saved
\* dpkg-divert may fail for another reason, as when the directory is not there
DivertAddFails ==
    /\ pc = "add" /\ pc' = "restore"
    /\ UNCHANGED <<sys, saved, result>>
MovesBack ==
    /\ task.rename /\ saved.oldExists /\ ~There(files, saved.old)
    /\ There(files, Target(task)) /\ ~saved.newExists
MovedBack == IF MovesBack THEN Moved(files, Target(task), saved.old) ELSE files
\* RESTORE
\* Mutant of DivertRestore: the diversion is given to the new package.
DivertRestoreGiven ==
    /\ pc = "restore"
    /\ db' = [owner |-> task.package, to |-> saved.old]
    /\ files' = IF task.rename THEN Moved(MovedBack, "src", saved.old) ELSE MovedBack
    /\ Exit(TRUE, TRUE)
    /\ UNCHANGED saved
DivertRestore ==
    /\ pc = "restore"
    /\ IF task.rename /\ Collides(MovedBack, "src", saved.old)
       THEN files' = MovedBack /\ Exit(TRUE, FALSE) /\ UNCHANGED db
       ELSE /\ db' = [owner |-> saved.owner, to |-> saved.old]
            /\ files' = IF task.rename THEN Moved(MovedBack, "src", saved.old) ELSE MovedBack
            /\ Exit(TRUE, TRUE)
    /\ UNCHANGED saved
\* the rename back raises, or RESTORE fails
DivertRestoreFails ==
    /\ pc = "restore" /\ Breaks("restore")
    /\ files' \in {files, MovedBack}
    /\ UNCHANGED <<db, saved>>

\* the playbook is run again, for real
DivertAgain ==
    /\ pc = "end" /\ ~past.done
    /\ past' = [check |-> check, result |-> result, done |-> TRUE]
    /\ check' = FALSE /\ pc' = "test" /\ saved' = NothingSaved /\ result' = NoResult
    /\ before' = [db |-> db, files |-> files]
    /\ UNCHANGED <<lenient, sys, task>>

DivertStep ==
    \/ DivertFake \/ DivertSimple \/ DivertCommand \/ DivertFails \/ DivertForce
    \/ DivertMove \/ DivertMoveFails \/ DivertAdd \/ DivertAddFails
    \/ DivertRestore \/ DivertRestoreFails
DivertNext ==
    \/ DivertStep /\ UNCHANGED <<lenient, task, check, before, past>>
    \/ DivertAgain
\* One task, run on the host and perhaps run again.
DivertSpec == DivertInit /\ [][DivertNext]_divertVars

-----------------------------------------------------------------------------
Ended == pc = "end"
Good == Ended /\ ~result.failed

\* No file is overwritten or lost, whichever of the commands failed; only the
\* file that was to be deleted may be gone (the documentation, "existing files
\* are never overwritten").
NoFileLost ==
    \A p \in Paths :
        There(before.files, p) =>
            \/ \E q \in Paths : files[q] = before.files[p]
            \/ p = "src" /\ task.state = "absent" /\ task.delete /\ ~check

\* When the module succeeds, the diversion is the one that was asked for, or
\* there is none.
DoneMeansDiverted ==
    Good /\ ~check => db = (IF task.state = "present" THEN Wanted(task) ELSE NoDiversion)

\* The same task again finds nothing to do.
DivertedOnce ==
    Good /\ past.done /\ ~past.check /\ ~past.result.failed =>
        ~result.changed /\ db = before.db /\ files = before.files

\* What check mode says is what happens, unless a command then fails for
\* reasons of its own.  Left out: a deletion of which the
\* check does not see that the removal is refused, and a new target or holder, of which it says
\* itself that the second command was not tried.
DivertCheckPredicts ==
    Ended /\ past.done /\ past.check
    /\ result.mishap = "none" /\ past.result.mishap = "none"
    /\ ~(task.delete /\ There(before.files, "src") /\ before.db # Wanted(task))
    /\ ~(task.state = "present" /\ before.db \notin {NoDiversion, Wanted(task)}) =>
        result = past.result

\* A forced change that fails half way gives the diversion back to who had it,
\* to the target it had, and puts every file back where it was, when it is the
\* new diversion that fails.  When the rename to the new target raises, or the
\* undoing itself fails, the host is left with no diversion at all.  Left out:
\* when the diverted file was missing and another was in the place of the
\* original, that one is moved to the old target.
FailedMeansRestored ==
    Ended /\ result.failed /\ task.state = "present"
    /\ ~(There(before.files, "src") /\ before.db # NoDiversion
         /\ task.rename /\ ~There(before.files, before.db.to)) =>
        \/ db = before.db /\ files = before.files
        \/ result.mishap = "rename" /\ db = NoDiversion /\ files = before.files
        \/ result.mishap = "restore" /\ db = NoDiversion

\* The documentation, state: "Unless force is True, the removal of path's
\* diversion only happens if the diversion matches the divert and package
\* values"; and delete: "delete the file in place of the original before
\* reverting".  With a diversion that does not match nothing is reverted, but
\* the file is deleted before that is known.
DeletedMeansRemoved ==
    Ended /\ result.failed /\ task.state = "absent" /\ ~task.force
    /\ before.db # Wanted(task) =>
        files = before.files

\* A task that fails does no harm: no file is lost, and a forced change that
\* breaks off is undone but for the two cases that FailedMeansRestored names.
FailureIsHarmless == NoFileLost /\ FailedMeansRestored

\* A task that succeeds has done what it says: the diversion is the one that was
\* asked for, the next run finds nothing to do, and check mode had said so.
SuccessIsDone == DoneMeansDiverted /\ DivertedOnce /\ DivertCheckPredicts
=============================================================================
