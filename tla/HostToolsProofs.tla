-------------------------- MODULE HostToolsProofs ---------------------------
(***************************************************************************)
(* What is proved of what runs on the hosts, or decides what does.         *)
(*                                                                         *)
(* The module dpkg_divert: everything it does follows from the diversion   *)
(* and the files that were there when it started, so "DivertInv" tells     *)
(* from these what each step has left ("Underway"), the answer that is due *)
(* ("Due"), and what the second run finds ("Followed").                    *)
(*                                                                         *)
(* The modules that change a host, for every tree, task and list of        *)
(* values: "HostInv" says of a run that nothing befell how far it has come *)
(* ("Working": which of the paths were gone through, what is planned for   *)
(* the attributes) and what it has done when it is over ("HostEnded"), and of  *)
(* the run before it what follows for this one ("EarlierRun").  That the   *)
(* modifications of ldap_attrs amount to the task is an induction on the   *)
(* fold the server makes of them.                                          *)
(*                                                                         *)
(* The lookups of overridden files, for every configuration: "PlacesSaid"   *)
(* is what the option says, by whichever way it is read; the invariant is  *)
(* that the places are these, with nothing but the role's behind them.      *)
(*                                                                         *)
(* The filter of mail aliases, for all texts and elements: every alias has *)
(* the recipients it was told to have, and one with a backslash has the    *)
(* name of the alias in it ("Safe"), which is why one that is added later  *)
(* as it stands is found and gets its own.                                 *)
(***************************************************************************)
EXTENDS Divert, HostModules, Aliases, Overrides, SequenceTheorems, FiniteSetTheorems, TLAPS

Loop == INSTANCE FoldProofs WITH Op <- ModifyOne

-----------------------------------------------------------------------------
(* The module dpkg_divert.                                                 *)

Diversions == [owner : Owners, to : Targets] \union {NoDiversion}
FileMaps == [Paths -> Paths \union {Nowhere}]
Results == [failed : BOOLEAN, changed : BOOLEAN, mishap : {"none", "other", "rename", "restore"}]
Answering(failed, changed) == [failed |-> failed, changed |-> changed, mishap |-> "none"]

\* What the task asks for.
AskedFor == IF task.state = "present" THEN Wanted(task) ELSE NoDiversion
AsBefore == db = before.db /\ files = before.files

\* What the commands make of the diversion and the files when the module starts.
MayRemove == ~(task.rename /\ Collides(before.files, before.db.to, "src"))
MayDo ==
    IF task.state = "present"
    THEN IF before.db = NoDiversion
         THEN ~(task.rename /\ Collides(before.files, "src", Target(task)))
         ELSE before.db = Wanted(task)
    ELSE before.db = NoDiversion \/ (before.db = Wanted(task) /\ MayRemove)
NeedsNoForce == MayDo \/ ~task.force \/ before.db = NoDiversion
DeletesIt == task.state = "absent" /\ task.delete /\ before.db # NoDiversion
\* The answer that is due.
Due ==
    IF ~NeedsNoForce THEN Answering(~MayRemove, MayRemove)
    ELSE IF DeletesIt /\ There(before.files, "src") THEN Answering(FALSE, TRUE)
    ELSE Answering(~MayDo, MayDo /\ before.db # AskedFor)

\* The files after the forced removal, and after the diverted one was moved on.
RemovedFiles ==
    IF task.rename THEN Moved(before.files, before.db.to, "src") ELSE before.files
MovedFiles ==
    IF MovesOn
    THEN Moved(RemovedFiles, before.db.to, Target(task)) ELSE RemovedFiles

DivertTypes ==
    /\ lenient \in BOOLEAN /\ check \in BOOLEAN
    /\ db \in Diversions /\ files \in FileMaps
    /\ task \in Tasks /\ (task.delete => task.state = "absent")
    /\ pc \in {"test", "command", "move", "add", "restore", "end"}
    /\ result \in Results
    /\ before \in [db : Diversions, files : FileMaps]
    /\ past \in [check : BOOLEAN, result : Results, done : BOOLEAN]

\* How far the module has come.
Underway ==
    /\ pc # "end" => result = NoResult
    /\ pc = "test" => AsBefore
    /\ pc = "command" =>
          /\ NeedsNoForce /\ db = before.db
          /\ ~(check /\ DeletesIt /\ There(before.files, "src"))
          /\ files = IF DeletesIt /\ ~check THEN [before.files EXCEPT !["src"] = Nowhere]
                     ELSE before.files
    /\ pc \in {"move", "add", "restore"} =>
          /\ ~check /\ task.state = "present" /\ ~NeedsNoForce /\ MayRemove
          /\ db = NoDiversion
          /\ saved = [old |-> before.db.to, owner |-> before.db.owner,
                      oldExists |-> There(RemovedFiles, before.db.to),
                      newExists |-> There(RemovedFiles, Target(task))]
          /\ files = IF pc = "move" THEN RemovedFiles ELSE MovedFiles

\* What it has done when it is over.
WellOver ==
    /\ check => AsBefore
    /\ check /\ result.mishap = "none" => result = Due
    /\ ~result.failed /\ ~check => db = AskedFor
    /\ before.db = AskedFor /\ ~check => AsBefore /\ ~result.changed
    /\ ~check /\ result.mishap = "none"
       /\ ~(task.delete /\ There(before.files, "src") /\ before.db # Wanted(task))
       /\ ~(task.state = "present" /\ before.db \notin {NoDiversion, Wanted(task)})
          => result = Due
    /\ FailedMeansRestored

\* What follows from the run before.
Followed ==
    past.done =>
        /\ ~check
        /\ past.check /\ past.result.mishap = "none" => past.result = Due
        /\ ~past.check /\ ~past.result.failed => before.db = AskedFor

DivertInv ==
    DivertTypes /\ NoFileLost /\ Underway /\ (pc = "end" => WellOver) /\ Followed

-----------------------------------------------------------------------------
\* Every file is still somewhere.
Keeps(f, g) == \A p \in Paths : There(f, p) => \E q \in Paths : g[q] = f[p]
LEMMA KeepsItself == \A f : Keeps(f, f)
  BY DEF Keeps

LEMMA MovedIs ==
    ASSUME NEW fs \in FileMaps, NEW a \in Paths, NEW b \in Paths
    PROVE  Moved(fs, a, b) \in FileMaps /\ Keeps(fs, Moved(fs, a, b))
  <1>1. CASE There(fs, a) /\ ~There(fs, b)
    <2> DEFINE g == [fs EXCEPT ![a] = Nowhere, ![b] = fs[a]]
    <2>1. Moved(fs, a, b) = g
      BY <1>1 DEF Moved
    <2>2. g \in FileMaps
      BY DEF FileMaps
    <2>3. g[b] = fs[a] /\ \A p \in Paths : p # a /\ p # b => g[p] = fs[p]
      BY DEF FileMaps
    <2>4. \A p \in Paths : There(fs, p) => p # b
      BY <1>1
    <2> HIDE DEF g
    <2>5. Keeps(fs, g)
      BY <2>3, <2>4 DEF Keeps
    <2> QED
      BY <2>1, <2>2, <2>5
  <1>2. CASE ~(There(fs, a) /\ ~There(fs, b))
    <2>1. Moved(fs, a, b) = fs
      BY <1>2 DEF Moved
    <2> QED
      BY <2>1, KeepsItself
  <1> QED
    BY <1>1, <1>2

\* A command that may rename keeps every file.
LEMMA RenamedIs ==
    ASSUME NEW fs \in FileMaps, NEW a \in Paths, NEW b \in Paths, NEW r,
           NEW g, g = IF r THEN Moved(fs, a, b) ELSE fs
    PROVE  g \in FileMaps /\ Keeps(fs, g)
  <1>1. CASE r
    <2>1. g = Moved(fs, a, b)
      BY <1>1
    <2> QED
      BY <2>1, MovedIs
  <1>2. CASE ~r
    <2>1. g = fs
      BY <1>2
    <2> QED
      BY <2>1, KeepsItself
  <1> QED
    BY <1>1, <1>2

LEMMA TargetsAre == \A t \in Tasks : Target(t) \in Targets /\ Wanted(t) \in Diversions /\ Wanted(t) # NoDiversion
  BY DEF Tasks, Target, Targets, Wanted, Diversions, Owners, NoDiversion

\* What dpkg-divert makes of the commands the module gives it.
LEMMA CommandIs ==
    ASSUME DivertTypes
    PROVE  /\ CommandLine.db \in Diversions /\ CommandLine.files \in FileMaps
           /\ CommandLine.ok \in BOOLEAN /\ CommandLine.did \in BOOLEAN
           /\ Keeps(files, CommandLine.files)
           /\ ~CommandLine.ok \/ ~CommandLine.did => CommandLine.db = db /\ CommandLine.files = files
           /\ CommandLine.ok => CommandLine.db = AskedFor
           /\ CommandLine.did <=> CommandLine.ok /\ db # AskedFor
  <1> USE DEF DivertTypes
  <1>1. Target(task) \in Targets /\ Wanted(task) \in Diversions /\ Wanted(task) # NoDiversion
    BY TargetsAre
  <1>2. CASE task.state = "present"
    <2>1. CommandLine = DpkgAdd(task.package, Target(task), task.rename)
      BY <1>2 DEF CommandLine
    <2>2. CASE db # NoDiversion
      <3>1. CommandLine = IF db = Wanted(task) THEN Outcome(TRUE, FALSE, db, files) ELSE Failing
        BY <2>1, <2>2 DEF DpkgAdd, Wanted
      <3> QED
        BY <1>1, <1>2, <2>2, <3>1, KeepsItself DEF Outcome, Failing, AskedFor
    <2>3. CASE db = NoDiversion /\ task.rename /\ Collides(files, "src", Target(task))
      <3>1. CommandLine = Failing
        BY <2>1, <2>3 DEF DpkgAdd
      <3> QED
        BY <3>1, <1>1, <1>2, <2>3, KeepsItself DEF Outcome, Failing, AskedFor
    <2>4. CASE db = NoDiversion /\ ~(task.rename /\ Collides(files, "src", Target(task)))
      <3> DEFINE fs == IF task.rename THEN Moved(files, "src", Target(task)) ELSE files
      <3>1. CommandLine = Outcome(TRUE, TRUE, Wanted(task), fs)
        BY <2>1, <2>4 DEF DpkgAdd, Wanted
      <3>2. fs \in FileMaps /\ Keeps(files, fs)
        <4>1. "src" \in Paths /\ Target(task) \in Paths /\ files \in FileMaps
          BY <1>1 DEF Paths
        <4>2. fs = IF task.rename THEN Moved(files, "src", Target(task)) ELSE files
          OBVIOUS
        <4> HIDE DEF fs
        <4> QED
          BY <4>1, <4>2, RenamedIs
      <3> HIDE DEF fs
      <3> QED
        BY <3>1, <3>2, <1>1, <1>2, <2>4 DEF Outcome, AskedFor
    <2> QED
      BY <2>2, <2>3, <2>4
  <1>3. CASE task.state # "present"
    <2>1. CommandLine = DpkgRemove(db = Wanted(task), task.rename)
      BY <1>3 DEF CommandLine
    <2>2. CASE db = NoDiversion
      <3>1. CommandLine = Outcome(TRUE, FALSE, db, files)
        BY <2>1, <2>2 DEF DpkgRemove
      <3> QED
        BY <1>1, <1>3, <2>2, <3>1, KeepsItself DEF Outcome, AskedFor
    <2>3. CASE db # NoDiversion /\ (db # Wanted(task) \/ (task.rename /\ Collides(files, db.to, "src")))
      <3>1. CommandLine = Failing
        BY <2>1, <2>3 DEF DpkgRemove
      <3> QED
        BY <1>1, <1>3, <2>3, <3>1, KeepsItself DEF Outcome, Failing, AskedFor
    <2>4. CASE db # NoDiversion /\ ~(db # Wanted(task) \/ (task.rename /\ Collides(files, db.to, "src")))
      <3> DEFINE fs == IF task.rename THEN Moved(files, db.to, "src") ELSE files
      <3>1. CommandLine = Outcome(TRUE, TRUE, NoDiversion, fs)
        BY <2>1, <2>4 DEF DpkgRemove
      <3>2. db.to \in Paths
        BY <2>4 DEF Diversions, Paths
      <3>3. fs \in FileMaps /\ Keeps(files, fs)
        <4>1. "src" \in Paths /\ files \in FileMaps
          BY DEF Paths
        <4>2. fs = IF task.rename THEN Moved(files, db.to, "src") ELSE files
          OBVIOUS
        <4> HIDE DEF fs
        <4> QED
          BY <3>2, <4>1, <4>2, RenamedIs
      <3>4. NoDiversion \in Diversions
        BY DEF Diversions
      <3> HIDE DEF fs
      <3> QED
        BY <3>1, <3>3, <3>4, <1>1, <1>3, <2>4 DEF Outcome, AskedFor
    <2> QED
      BY <2>2, <2>3, <2>4
  <1> QED
    BY <1>2, <1>3

LEMMA DivertStart == DivertInit => DivertInv
  <1> SUFFICES ASSUME DivertInit PROVE DivertInv
    OBVIOUS
  <1>1. DivertTypes
    <2>1. files \in FileMaps
      BY DEF DivertInit, FileMaps
    <2>2. db \in Diversions
      BY DEF DivertInit, Diversions
    <2> QED
      BY <2>1, <2>2 DEF DivertTypes, DivertInit, Results, NoResult, NoRun
  <1>2. NoFileLost
    BY DEF NoFileLost, DivertInit
  <1> QED
    BY <1>1, <1>2 DEF DivertInv, Underway, Followed, DivertInit, AsBefore, NoRun

\* What a step leaves alone.
Rest == UNCHANGED <<lenient, task, check, before, past>>

\* Follows from the run before, whatever the step does.
LEMMA SameRun ==
    ASSUME Rest
    PROVE  /\ Followed' = Followed /\ MayRemove' = MayRemove /\ MayDo' = MayDo
           /\ NeedsNoForce' = NeedsNoForce /\ DeletesIt' = DeletesIt /\ Due' = Due
           /\ AskedFor' = AskedFor /\ RemovedFiles' = RemovedFiles
  <1> USE DEF Rest
  <1>1. MayRemove' = MayRemove
    BY DEF MayRemove, Collides
  <1>2. AskedFor' = AskedFor
    BY DEF AskedFor
  <1>3. MayDo' = MayDo
    BY <1>1 DEF MayDo, Collides
  <1>4. NeedsNoForce' = NeedsNoForce /\ DeletesIt' = DeletesIt
    BY <1>3 DEF NeedsNoForce, DeletesIt
  <1>5. Due' = Due
    BY <1>1, <1>2, <1>3, <1>4 DEF Due
  <1>6. RemovedFiles' = RemovedFiles
    BY DEF RemovedFiles
  <1>7. Followed' = Followed
    BY <1>2, <1>5 DEF Followed
  <1> QED
    BY <1>1, <1>2, <1>3, <1>4, <1>5, <1>6, <1>7

\* Before anything was done, the commands are asked about what was there.
LEMMA CommandFirst ==
    ASSUME DivertTypes, AsBefore
    PROVE  /\ CommandLine.ok <=> MayDo
           /\ CommandLine.did <=> MayDo /\ before.db # AskedFor
           /\ Simple <=> NeedsNoForce
           /\ Deletes <=> DeletesIt
           /\ ~NeedsNoForce => /\ ForceRemove.ok <=> MayRemove
                               /\ ForceRemove.ok => ForceRemove.db = NoDiversion
                                                    /\ ForceRemove.files = RemovedFiles
                               /\ ~ForceRemove.ok => ForceRemove.db = db /\ ForceRemove.files = files
  <1>1. db = before.db /\ files = before.files
    BY DEF AsBefore
  <1>2. CommandLine.ok <=> MayDo
    <2>1. CASE task.state = "present"
      BY <1>1, <2>1 DEF CommandLine, DpkgAdd, Outcome, Failing, MayDo, Wanted
    <2>2. CASE task.state # "present"
      BY <1>1, <2>2 DEF CommandLine, DpkgRemove, Outcome, Failing, MayDo, MayRemove
    <2> QED
      BY <2>1, <2>2
  <1>3. CommandLine.did <=> MayDo /\ before.db # AskedFor
    BY <1>1, <1>2, CommandIs
  <1>4. Simple <=> NeedsNoForce
    BY <1>1, <1>2 DEF Simple, NeedsNoForce
  <1>5. Deletes <=> DeletesIt
    BY <1>1 DEF Deletes, DeletesIt
  <1>6. ASSUME ~NeedsNoForce
        PROVE  /\ ForceRemove.ok <=> MayRemove
               /\ ForceRemove.ok => ForceRemove.db = NoDiversion /\ ForceRemove.files = RemovedFiles
               /\ ~ForceRemove.ok => ForceRemove.db = db /\ ForceRemove.files = files
    <2>1. db # NoDiversion
      BY <1>1, <1>6 DEF NeedsNoForce
    <2>2. CASE MayRemove
      <3>1. ForceRemove = Outcome(TRUE, TRUE, NoDiversion, RemovedFiles)
        BY <1>1, <2>1, <2>2 DEF ForceRemove, DpkgRemove, MayRemove, RemovedFiles
      <3> QED
        BY <2>2, <3>1 DEF Outcome
    <2>3. CASE ~MayRemove
      <3>1. ForceRemove = Failing
        BY <1>1, <2>1, <2>3 DEF ForceRemove, DpkgRemove, MayRemove
      <3> QED
        BY <2>3, <3>1 DEF Outcome, Failing
    <2> QED
      BY <2>2, <2>3
  <1> QED
    BY <1>2, <1>3, <1>4, <1>5, <1>6

LEMMA RemovedIs ==
    ASSUME DivertTypes, ~NeedsNoForce
    PROVE  /\ RemovedFiles \in FileMaps
           /\ Keeps(before.files, RemovedFiles)
  <1>1. before.db \in Diversions /\ before.db # NoDiversion /\ before.files \in FileMaps
    BY DEF NeedsNoForce, DivertTypes
  <1>2. before.db.to \in Paths /\ "src" \in Paths
    BY <1>1 DEF Diversions, Paths
  <1>3. RemovedFiles = IF task.rename THEN Moved(before.files, before.db.to, "src") ELSE before.files
    BY DEF RemovedFiles
  <1> QED
    BY <1>1, <1>2, <1>3, RenamedIs

\* Files that were kept so far are kept by what keeps them.
LEMMA KeepsOn ==
    ASSUME NEW f, NEW g, NEW h, Keeps(f, g), Keeps(g, h)
    PROVE  Keeps(f, h)
  <1> SUFFICES ASSUME NEW p \in Paths, There(f, p) PROVE \E q \in Paths : h[q] = f[p]
    BY DEF Keeps
  <1>1. PICK q \in Paths : g[q] = f[p]
    BY DEF Keeps
  <1>2. There(g, q)
    BY <1>1 DEF There
  <1> QED
    BY <1>1, <1>2 DEF Keeps
LEMMA StillKept ==
    ASSUME NoFileLost, Rest, Keeps(files, files')
    PROVE  NoFileLost'
  <1> SUFFICES ASSUME NEW p \in Paths, There(before.files, p),
                      ~(p = "src" /\ task.state = "absent" /\ task.delete /\ ~check)
               PROVE  \E q \in Paths : files'[q] = before.files[p]
    BY DEF NoFileLost, Rest, There
  <1>1. PICK q \in Paths : files[q] = before.files[p]
    BY DEF NoFileLost
  <1>2. There(files, q)
    BY <1>1 DEF There
  <1> QED
    BY <1>1, <1>2 DEF Keeps

LEMMA FakeStep == DivertInv /\ DivertFake /\ Rest => DivertInv'
  <1> SUFFICES ASSUME DivertInv, DivertFake, Rest PROVE DivertInv'
    OBVIOUS
  <1>1. DivertTypes /\ NoFileLost /\ AsBefore /\ Followed
    BY DEF DivertInv, Underway, DivertFake
  <1>2. pc' = "end" /\ db' = db /\ files' = files /\ check /\ Deletes /\ Simple /\ There(files, "src")
        /\ result' = Answering(FALSE, TRUE)
    BY DEF DivertFake, Exit, sys, Answering
  <1>3. DivertTypes'
    BY <1>1, <1>2 DEF DivertTypes, Rest, Results, Answering
  <1>4. NoFileLost'
    BY <1>1, <1>2, StillKept, KeepsItself
  <1>5. NeedsNoForce /\ DeletesIt /\ There(before.files, "src")
    BY <1>1, <1>2, CommandFirst DEF AsBefore
  <1>6. result' = Due
    BY <1>2, <1>5 DEF Due
  <1>7. WellOver'
    BY <1>1, <1>2, <1>6, SameRun DEF WellOver, Rest, AsBefore, FailedMeansRestored
  <1> QED
    BY <1>1, <1>2, <1>3, <1>4, <1>7, SameRun DEF DivertInv, Underway

LEMMA SimpleStep == DivertInv /\ DivertSimple /\ Rest => DivertInv'
  <1> SUFFICES ASSUME DivertInv, DivertSimple, Rest PROVE DivertInv'
    OBVIOUS
  <1>1. DivertTypes /\ NoFileLost /\ AsBefore /\ Followed /\ result = NoResult
    BY DEF DivertInv, Underway, DivertSimple
  <1>2. pc' = "command" /\ db' = db /\ result' = result /\ Simple /\ ~(check /\ Deletes /\ There(files, "src"))
        /\ files' = IF Deletes /\ ~check THEN [files EXCEPT !["src"] = Nowhere] ELSE files
    BY DEF DivertSimple
  <1>3. NeedsNoForce /\ (DeletesIt <=> Deletes)
    BY <1>1, <1>2, CommandFirst
  <1>4. files' \in FileMaps
    BY <1>1, <1>2 DEF DivertTypes, FileMaps
  <1>5. DivertTypes'
    BY <1>1, <1>2, <1>4 DEF DivertTypes, Rest
  <1>6. NoFileLost'
    <2>1. CASE Deletes /\ ~check
      <3>1. \A p \in Paths : p # "src" => files'[p] = before.files[p]
        BY <1>1, <1>2, <2>1 DEF DivertTypes, FileMaps, AsBefore
      <3>2. task.state = "absent" /\ task.delete
        BY <2>1 DEF Deletes
      <3> QED
        BY <2>1, <3>1, <3>2 DEF NoFileLost, Rest, There
    <2>2. CASE ~(Deletes /\ ~check)
      BY <1>1, <1>2, <2>2, StillKept, KeepsItself
    <2> QED
      BY <2>1, <2>2
  <1>7. Underway'
    BY <1>1, <1>2, <1>3, SameRun DEF Underway, AsBefore, Rest, There
  <1> QED
    BY <1>1, <1>2, <1>5, <1>6, <1>7, SameRun DEF DivertInv

LEMMA CommandStep == DivertInv /\ DivertCommand /\ Rest => DivertInv'
  <1> SUFFICES ASSUME DivertInv, DivertCommand, Rest PROVE DivertInv'
    OBVIOUS
  <1>1. /\ DivertTypes /\ NoFileLost /\ Followed /\ NeedsNoForce /\ db = before.db
        /\ ~(check /\ DeletesIt /\ There(before.files, "src"))
        /\ files = IF DeletesIt /\ ~check THEN [before.files EXCEPT !["src"] = Nowhere]
                   ELSE before.files
    BY DEF DivertInv, Underway, DivertCommand
  <1>2. /\ pc' = "end" /\ result' = Answering(~CommandLine.ok, CommandLine.did)
        /\ IF check THEN db' = db /\ files' = files
           ELSE db' = CommandLine.db /\ files' = CommandLine.files
    BY DEF DivertCommand, Exit, Run, sys, Answering
  <1>3. DivertTypes'
    BY <1>1, <1>2, CommandIs DEF DivertTypes, Rest, Results, Answering
  <1>4. NoFileLost'
    BY <1>1, <1>2, CommandIs, StillKept, KeepsItself
  <1>5. check => AsBefore
    BY <1>1 DEF AsBefore
  <1>6. ASSUME AsBefore, ~DeletesIt \/ ~There(before.files, "src")
        PROVE  result' = Due
    BY <1>1, <1>2, <1>6, CommandFirst, CommandIs DEF Due
  <1>7. ASSUME ~AsBefore, before.db = Wanted(task)
        PROVE  result' = Due
    <2>1. DeletesIt /\ ~check /\ There(before.files, "src")
      <3>1. DeletesIt /\ ~check /\ files = [before.files EXCEPT !["src"] = Nowhere]
        BY <1>1, <1>7 DEF AsBefore
      <3>2. ~There(before.files, "src") => files = before.files
        BY <3>1, <1>1 DEF There, DivertTypes, FileMaps
      <3> QED
        BY <1>1, <1>7, <3>1, <3>2 DEF AsBefore
    <2>2. ~There(files, "src")
      BY <1>1, <2>1 DEF There, DivertTypes, FileMaps, Paths
    <2>3. task.state # "present" /\ db # NoDiversion /\ db = Wanted(task)
      BY <1>1, <1>7, <2>1 DEF DeletesIt
    <2>4. CommandLine.ok /\ CommandLine.did
      BY <2>2, <2>3 DEF CommandLine, DpkgRemove, Collides, Outcome
    <2> QED
      BY <1>1, <1>2, <2>1, <2>4 DEF Due
  <1>8. AsBefore \/ (task.delete /\ There(before.files, "src") /\ DeletesIt)
    <2>1. ~There(before.files, "src") => [before.files EXCEPT !["src"] = Nowhere] = before.files
      BY <1>1 DEF There, DivertTypes, FileMaps
    <2> QED
      BY <1>1, <2>1 DEF AsBefore, DeletesIt
  <1>9. WellOver'
    <2>1. check => AsBefore' /\ result' = Due
      BY <1>1, <1>2, <1>5, <1>6 DEF AsBefore, Rest
    <2>2. ~result'.failed /\ ~check => db' = AskedFor
      BY <1>1, <1>2, CommandIs DEF Answering
    <2>3. before.db = AskedFor /\ ~check => AsBefore' /\ ~result'.changed
      <3> SUFFICES ASSUME before.db = AskedFor, ~check PROVE AsBefore' /\ ~result'.changed
        OBVIOUS
      <3>1. ~DeletesIt
        BY DEF AskedFor, DeletesIt
      <3>2. ~CommandLine.did
        BY <1>1, CommandIs
      <3> QED
        BY <1>1, <1>2, <3>1, <3>2, CommandIs DEF AsBefore, Rest, Answering
    <2>4. ~check /\ ~(task.delete /\ There(before.files, "src") /\ before.db # Wanted(task))
            /\ ~(task.state = "present" /\ before.db \notin {NoDiversion, Wanted(task)})
            => result' = Due
      <3>1. CASE AsBefore /\ (~DeletesIt \/ ~There(before.files, "src"))
        BY <1>6, <3>1
      <3>2. CASE AsBefore /\ DeletesIt /\ There(before.files, "src")
        BY <1>1, <3>2 DEF AsBefore, DivertTypes, FileMaps, There, Paths
      <3>3. CASE ~AsBefore
        BY <1>7, <1>8, <3>3
      <3> QED
        BY <3>1, <3>2, <3>3
    <2>5. FailedMeansRestored'
      <3> SUFFICES ASSUME result'.failed, task.state = "present" PROVE AsBefore'
        BY DEF FailedMeansRestored, AsBefore, Rest
      <3>1. ~DeletesIt
        BY <1>1 DEF DeletesIt
      <3>2. ~CommandLine.ok
        BY <1>2 DEF Answering
      <3> QED
        BY <1>1, <1>2, <3>1, <3>2, CommandIs DEF AsBefore, Rest
    <2> HIDE DEF AsBefore
    <2> QED
      BY <2>1, <2>2, <2>3, <2>4, <2>5, SameRun DEF WellOver, Rest, There
  <1> QED
    BY <1>1, <1>2, <1>3, <1>4, <1>9, SameRun DEF DivertInv, Underway

LEMMA ForceStep == DivertInv /\ DivertForce /\ Rest => DivertInv'
  <1> SUFFICES ASSUME DivertInv, DivertForce, Rest PROVE DivertInv'
    OBVIOUS
  <1>1. DivertTypes /\ NoFileLost /\ AsBefore /\ Followed /\ result = NoResult /\ before.db = db /\ before.files = files
    BY DEF DivertInv, Underway, DivertForce, AsBefore
  <1>2. /\ ~Simple
        /\ IF check THEN db' = db /\ files' = files
           ELSE db' = ForceRemove.db /\ files' = ForceRemove.files
    BY DEF DivertForce, Run, sys
  <1>3. ~NeedsNoForce
    BY <1>1, <1>2, CommandFirst
  <1>4. /\ ForceRemove.ok <=> MayRemove
        /\ ForceRemove.ok => ForceRemove.db = NoDiversion /\ ForceRemove.files = RemovedFiles
        /\ ~ForceRemove.ok => ForceRemove.db = db /\ ForceRemove.files = files
    BY <1>1, <1>3, CommandFirst
  <1>5. db' \in Diversions /\ files' \in FileMaps /\ Keeps(files, files')
    <2>1. NoDiversion \in Diversions
      BY DEF Diversions
    <2> QED
      BY <1>1, <1>2, <1>3, <1>4, <2>1, RemovedIs, KeepsItself DEF DivertTypes
  <1>6. NoFileLost'
    BY <1>1, <1>5, StillKept
  <1>7. before.db # AskedFor /\ before.db # NoDiversion /\ ~MayDo
    BY <1>3 DEF NeedsNoForce, MayDo, AskedFor
  <1>8. CASE ~ForceRemove.ok \/ task.state = "absent" \/ check
    <2>1. pc' = "end" /\ result' = Answering(~ForceRemove.ok, ForceRemove.ok)
      BY <1>8 DEF DivertForce, Exit, Answering
    <2>2. result' \in Results /\ result' = Due
      <3>1. ForceRemove.ok \in BOOLEAN
        BY DEF ForceRemove, DpkgRemove, Outcome, Failing
      <3>2. CASE ForceRemove.ok
        BY <1>3, <1>4, <2>1, <3>1, <3>2 DEF Due, Results, Answering
      <3>3. CASE ~ForceRemove.ok
        <4>1. ForceRemove.ok = FALSE /\ MayRemove = FALSE
          BY <1>4, <3>1, <3>3 DEF MayRemove
        <4> QED
          BY <1>3, <2>1, <4>1 DEF Due, Results, Answering
      <3> QED
        BY <3>2, <3>3
    <2>3. DivertTypes'
      BY <1>1, <1>5, <2>1, <2>2 DEF DivertTypes, Rest
    <2>4. result' = Due
      BY <2>2
    <2>5. check => AsBefore'
      BY <1>1, <1>2 DEF AsBefore, Rest
    <2>6. ~result'.failed /\ ~check => db' = AskedFor
      <3>1. task.state = "present" \/ task.state = "absent"
        BY <1>1 DEF DivertTypes, Tasks
      <3> QED
        BY <1>2, <1>4, <1>8, <2>1, <3>1 DEF AskedFor, Answering
    <2>7. FailedMeansRestored'
      <3>1. result'.failed => db' = db /\ files' = files
        BY <1>2, <1>4, <2>1 DEF Answering
      <3> QED
        BY <1>1, <3>1 DEF FailedMeansRestored, Rest
    <2>8. WellOver'
      BY <1>7, <2>4, <2>5, <2>6, <2>7, SameRun DEF WellOver, Rest
    <2> QED
      BY <1>1, <1>6, <2>1, <2>3, <2>8, SameRun DEF DivertInv, Underway
  <1>9. CASE ~(~ForceRemove.ok \/ task.state = "absent" \/ check)
    <2>1. /\ pc' = "move" /\ result' = result
          /\ saved' = [old |-> db.to, owner |-> db.owner,
                       oldExists |-> There(ForceRemove.files, db.to),
                       newExists |-> There(ForceRemove.files, Target(task))]
      BY <1>9 DEF DivertForce
    <2>2. task.state = "present"
      BY <1>1, <1>9 DEF DivertTypes, Tasks
    <2>3. DivertTypes'
      BY <1>1, <1>5, <2>1 DEF DivertTypes, Rest
    <2>4. Underway'
      BY <1>1, <1>2, <1>3, <1>4, <1>9, <2>1, <2>2, SameRun DEF Underway, Rest
    <2> QED
      BY <1>1, <1>6, <2>1, <2>3, <2>4, SameRun DEF DivertInv
  <1> QED
    BY <1>8, <1>9

LEMMA FailsStep == DivertInv /\ DivertFails /\ Rest => DivertInv'
  <1> SUFFICES ASSUME DivertInv, DivertFails, Rest PROVE DivertInv'
    OBVIOUS
  <1>1. /\ pc \in {"test", "command"} /\ pc' = "end" /\ db' = db /\ files' = files
        /\ result' = [failed |-> TRUE, changed |-> FALSE, mishap |-> "other"]
    BY DEF DivertFails, Breaks, sys
  <1>2. /\ DivertTypes /\ NoFileLost /\ Followed /\ db = before.db
        /\ files # before.files => DeletesIt /\ ~check
    BY <1>1 DEF DivertInv, Underway, AsBefore
  <1>3. DivertTypes'
    BY <1>1, <1>2 DEF DivertTypes, Rest, Results
  <1>4. NoFileLost'
    BY <1>1, <1>2, StillKept, KeepsItself
  <1>5. check \/ task.state = "present" \/ before.db = AskedFor => AsBefore
    BY <1>2 DEF AsBefore, DeletesIt, AskedFor
  <1>6. AsBefore' = AsBefore
    BY <1>1 DEF AsBefore, Rest
  <1>7. FailedMeansRestored'
    BY <1>1, <1>5 DEF FailedMeansRestored, Rest, AsBefore
  <1>8. WellOver'
    BY <1>1, <1>5, <1>6, <1>7, SameRun DEF WellOver, Rest
  <1> QED
    BY <1>1, <1>2, <1>3, <1>4, <1>8, SameRun DEF DivertInv, Underway

\* What is known while a diversion is taken from its holder.
LEMMA TakenIs ==
    ASSUME DivertInv, pc \in {"move", "add", "restore"}
    PROVE  /\ DivertTypes /\ NoFileLost /\ Followed /\ result = NoResult
           /\ ~check /\ task.state = "present" /\ ~NeedsNoForce /\ MayRemove /\ db = NoDiversion
           /\ saved = [old |-> before.db.to, owner |-> before.db.owner,
                       oldExists |-> There(RemovedFiles, before.db.to),
                       newExists |-> There(RemovedFiles, Target(task))]
           /\ files = IF pc = "move" THEN RemovedFiles ELSE MovedFiles
           /\ before.db # NoDiversion /\ before.db # Wanted(task)
           /\ before.db.to \in Targets /\ before.db.owner \in Owners /\ Target(task) \in Targets
           /\ RemovedFiles \in FileMaps
  <1>1. /\ DivertTypes /\ NoFileLost /\ Followed /\ result = NoResult
        /\ ~check /\ task.state = "present" /\ ~NeedsNoForce /\ MayRemove /\ db = NoDiversion
        /\ saved = [old |-> before.db.to, owner |-> before.db.owner,
                    oldExists |-> There(RemovedFiles, before.db.to),
                    newExists |-> There(RemovedFiles, Target(task))]
        /\ files = IF pc = "move" THEN RemovedFiles ELSE MovedFiles
    BY DEF DivertInv, Underway
  <1>2. before.db # NoDiversion /\ before.db # Wanted(task)
    BY <1>1 DEF NeedsNoForce, MayDo
  <1>3. before.db.to \in Targets /\ before.db.owner \in Owners
    BY <1>1, <1>2 DEF DivertTypes, Diversions
  <1>4. Target(task) \in Targets
    BY <1>1, TargetsAre DEF DivertTypes
  <1> QED
    BY <1>1, <1>2, <1>3, <1>4, RemovedIs

LEMMA MoveStep == DivertInv /\ DivertMove /\ Rest => DivertInv'
  <1> SUFFICES ASSUME DivertInv, DivertMove, Rest PROVE DivertInv'
    OBVIOUS
  <1>1. pc = "move" /\ pc' = "add" /\ db' = db /\ saved' = saved /\ result' = result
        /\ files' = IF MovesOn THEN Moved(files, saved.old, Target(task)) ELSE files
    BY DEF DivertMove
  <1>2. /\ DivertTypes /\ NoFileLost /\ Followed /\ result = NoResult
        /\ saved.old = before.db.to /\ files = RemovedFiles
        /\ before.db.to \in Paths /\ Target(task) \in Paths /\ RemovedFiles \in FileMaps
    BY <1>1, TakenIs DEF Paths
  <1>3. files' \in FileMaps /\ Keeps(files, files')
    BY <1>1, <1>2, RenamedIs
  <1>4. MovedFiles' = MovedFiles
    BY <1>1, SameRun DEF MovedFiles, MovesOn, Rest
  <1>5. files' = MovedFiles
    BY <1>1, <1>2 DEF MovedFiles, MovesOn
  <1>6. DivertTypes'
    BY <1>1, <1>2, <1>3 DEF DivertTypes, Rest
  <1>7. Underway'
    BY <1>1, <1>4, <1>5, TakenIs, SameRun DEF Underway, Rest
  <1> QED
    BY <1>1, <1>2, <1>3, <1>6, <1>7, StillKept, SameRun DEF DivertInv

LEMMA MoveFailsStep == DivertInv /\ DivertMoveFails /\ Rest => DivertInv'
  <1> SUFFICES ASSUME DivertInv, DivertMoveFails, Rest PROVE DivertInv'
    OBVIOUS
  <1>1. /\ pc = "move" /\ pc' = "end" /\ db' = db /\ files' = files /\ MovesOn
        /\ result' = [failed |-> TRUE, changed |-> FALSE, mishap |-> "rename"]
    BY DEF DivertMoveFails, Breaks, sys
  <1>2. /\ DivertTypes /\ NoFileLost /\ Followed /\ ~check /\ task.state = "present"
        /\ db = NoDiversion /\ before.db # NoDiversion /\ before.db # Wanted(task)
        /\ files = RemovedFiles /\ There(RemovedFiles, before.db.to)
        /\ before.db.to \in Targets
    BY <1>1, TakenIs DEF MovesOn
  <1>3. files = before.files
    \* the diverted file is still at its old target: it did not move
    <2>1. RemovedFiles = Moved(before.files, before.db.to, "src")
      BY <1>1 DEF RemovedFiles, MovesOn
    <2>2. before.db.to \in Paths /\ before.db.to # "src" /\ before.files \in FileMaps
      BY <1>2 DEF Paths, Targets, DivertTypes
    <2> QED
      BY <1>2, <2>1, <2>2 DEF Moved, There, FileMaps
  <1>4. DivertTypes'
    BY <1>1, <1>2 DEF DivertTypes, Rest, Results
  <1>5. NoFileLost'
    BY <1>1, <1>2, StillKept, KeepsItself
  <1>6. FailedMeansRestored'
    BY <1>1, <1>2, <1>3 DEF FailedMeansRestored, Rest
  <1>7. WellOver'
    BY <1>1, <1>2, <1>6, SameRun DEF WellOver, Rest, AskedFor
  <1> QED
    BY <1>1, <1>2, <1>4, <1>5, <1>7, SameRun DEF DivertInv, Underway

LEMMA AddStep == DivertInv /\ DivertAdd /\ Rest => DivertInv'
  <1> SUFFICES ASSUME DivertInv, DivertAdd, Rest PROVE DivertInv'
    OBVIOUS
  <1>1. pc = "add" /\ saved' = saved
    BY DEF DivertAdd
  <1>2. /\ DivertTypes /\ NoFileLost /\ Followed /\ result = NoResult
        /\ ~check /\ task.state = "present" /\ ~NeedsNoForce /\ before.db # NoDiversion
        /\ before.db # Wanted(task)
    BY <1>1, TakenIs
  <1>3. CASE CommandLine.ok
    <2>1. /\ pc' = "end" /\ result' = Answering(FALSE, TRUE)
          /\ db' = CommandLine.db /\ files' = CommandLine.files
      BY <1>3 DEF DivertAdd, Exit, Run, Answering
    <2>2. DivertTypes'
      BY <1>2, <2>1, CommandIs DEF DivertTypes, Rest, Results, Answering
    <2>3. NoFileLost'
      BY <1>2, <2>1, CommandIs, StillKept, KeepsItself
    <2>4. db' = AskedFor
      BY <1>2, <1>3, <2>1, CommandIs
    <2>5. WellOver'
      BY <1>2, <2>1, <2>4, SameRun DEF WellOver, Rest, AskedFor, FailedMeansRestored, Answering
    <2> QED
      BY <1>2, <2>1, <2>2, <2>3, <2>5, SameRun DEF DivertInv, Underway
  <1>4. CASE ~CommandLine.ok
    <2>1. pc' = "restore" /\ db' = db /\ files' = files /\ result' = result
      BY <1>4 DEF DivertAdd, sys
    <2>2. DivertTypes'
      BY <1>2, <2>1 DEF DivertTypes, Rest
    <2>3. NoFileLost'
      BY <1>2, <2>1, StillKept, KeepsItself
    <2>4. MovedFiles' = MovedFiles
      BY <1>1, SameRun DEF MovedFiles, MovesOn, Rest
    <2>5. Underway'
      BY <1>1, <2>1, <2>4, TakenIs, SameRun DEF Underway, Rest
    <2> QED
      BY <1>2, <2>1, <2>2, <2>3, <2>5, SameRun DEF DivertInv
  <1> QED
    BY <1>3, <1>4

LEMMA AddFailsStep == DivertInv /\ DivertAddFails /\ Rest => DivertInv'
  <1> SUFFICES ASSUME DivertInv, DivertAddFails, Rest PROVE DivertInv'
    OBVIOUS
  <1>1. /\ pc = "add" /\ pc' = "restore" /\ db' = db /\ files' = files /\ saved' = saved
        /\ result' = result
    BY DEF DivertAddFails, sys
  <1>2. DivertTypes /\ NoFileLost /\ Followed
    BY <1>1, TakenIs
  <1>3. DivertTypes'
    BY <1>1, <1>2 DEF DivertTypes, Rest
  <1>4. NoFileLost'
    BY <1>1, <1>2, StillKept, KeepsItself
  <1>5. MovedFiles' = MovedFiles
    BY <1>1, SameRun DEF MovedFiles, MovesOn, Rest
  <1>6. Underway'
    BY <1>1, <1>5, TakenIs, SameRun DEF Underway, Rest
  <1> QED
    BY <1>1, <1>2, <1>3, <1>4, <1>6, SameRun DEF DivertInv

\* What was moved on comes back.
LEMMA MovedThereAndBack ==
    ASSUME NEW fs \in FileMaps, NEW a \in Paths, NEW b \in Paths, There(fs, a), ~There(fs, b)
    PROVE  LET g == Moved(fs, a, b)
           IN  ~There(g, a) /\ There(g, b) /\ Moved(g, b, a) = fs
  <1> DEFINE g == [fs EXCEPT ![a] = Nowhere, ![b] = fs[a]]
             h == [g EXCEPT ![b] = Nowhere, ![a] = g[b]]
  <1>1. Moved(fs, a, b) = g
    BY DEF Moved
  <1>2. g \in FileMaps
    BY DEF FileMaps
  <1>3. a # b /\ g[b] = fs[a] /\ g[a] = Nowhere /\ \A p \in Paths : p # a /\ p # b => g[p] = fs[p]
    BY DEF FileMaps, There
  <1>4. ~There(g, a) /\ There(g, b)
    BY <1>3 DEF There
  <1>5. Moved(g, b, a) = h
    BY <1>4 DEF Moved
  <1>6. h \in FileMaps /\ \A p \in Paths : h[p] = fs[p]
    BY <1>2, <1>3 DEF FileMaps, There
  <1>7. h = fs
    BY <1>6 DEF FileMaps
  <1> QED
    BY <1>1, <1>4, <1>5, <1>7

LEMMA MovedBackIs ==
    ASSUME DivertInv, pc = "restore"
    PROVE  MovedBack = RemovedFiles
  <1>1. /\ saved = [old |-> before.db.to, owner |-> before.db.owner,
                    oldExists |-> There(RemovedFiles, before.db.to),
                    newExists |-> There(RemovedFiles, Target(task))]
        /\ files = MovedFiles /\ RemovedFiles \in FileMaps
        /\ before.db.to \in Paths /\ Target(task) \in Paths
    BY TakenIs DEF Paths
  <1> DEFINE o == before.db.to
             t == Target(task)
             f == RemovedFiles
  <1>2. CASE task.rename /\ There(f, o) /\ ~There(f, t)
    <2>1. files = Moved(f, o, t)
      BY <1>1, <1>2 DEF MovedFiles, MovesOn
    <2>2. ~There(files, o) /\ There(files, t) /\ Moved(files, t, o) = f
      BY <1>1, <1>2, <2>1, MovedThereAndBack
    <2> QED
      BY <1>1, <1>2, <2>2 DEF MovedBack, MovesBack
  <1>3. CASE ~(task.rename /\ There(f, o) /\ ~There(f, t))
    <2>1. files = f
      BY <1>1, <1>3 DEF MovedFiles, MovesOn
    <2> QED
      BY <1>1, <1>3, <2>1 DEF MovedBack, MovesBack
  <1> QED
    BY <1>2, <1>3

LEMMA RestoreStep == DivertInv /\ DivertRestore /\ Rest => DivertInv'
  <1> SUFFICES ASSUME DivertInv, DivertRestore, Rest PROVE DivertInv'
    OBVIOUS
  <1> DEFINE o == before.db.to
             B == before.files
             f == RemovedFiles
  <1>1. pc = "restore" /\ pc' = "end" /\ result'.failed /\ result' \in Results
    <2>1. result' = [failed |-> TRUE, changed |-> FALSE, mishap |-> "none"]
          \/ result' = [failed |-> TRUE, changed |-> TRUE, mishap |-> "none"]
      BY DEF DivertRestore, Exit
    <2>2. result'.failed /\ result' \in Results
      <3>1. \A c \in BOOLEAN : LET r == [failed |-> TRUE, changed |-> c, mishap |-> "none"]
                             IN  r.failed /\ r \in Results
        BY DEF Results
      <3> QED
        BY <2>1, <3>1
    <2>3. pc = "restore" /\ pc' = "end"
      BY DEF DivertRestore, Exit
    <2> QED
      BY <2>2, <2>3
  <1>2. /\ DivertTypes /\ NoFileLost /\ Followed
        /\ ~check /\ task.state = "present" /\ ~NeedsNoForce /\ MayRemove /\ db = NoDiversion
        /\ before.db \in Diversions /\ before.db # NoDiversion /\ before.db # Wanted(task)
        /\ o \in Targets /\ o \in Paths /\ "src" \in Paths /\ o # "src"
        /\ f \in FileMaps /\ B \in FileMaps
        /\ saved.old = o /\ saved.owner = before.db.owner
    BY <1>1, TakenIs DEF Paths, Targets, DivertTypes
  <1>3. MovedBack = f
    BY <1>1, MovedBackIs
  <1>4. IF task.rename /\ Collides(f, "src", o)
        THEN files' = f /\ db' = db
        ELSE /\ db' = [owner |-> before.db.owner, to |-> o]
             /\ files' = IF task.rename THEN Moved(f, "src", o) ELSE f
    BY <1>2, <1>3 DEF DivertRestore
  <1>5. [owner |-> before.db.owner, to |-> o] = before.db
    BY <1>2 DEF Diversions
  <1>6. files' \in FileMaps /\ Keeps(f, files')
    <2>1. CASE task.rename /\ Collides(f, "src", o)
      BY <1>2, <1>4, <2>1, KeepsItself
    <2>2. CASE ~(task.rename /\ Collides(f, "src", o))
      BY <1>2, <1>4, <2>2, RenamedIs
    <2> QED
      BY <2>1, <2>2
  <1>7. DivertTypes'
    BY <1>1, <1>2, <1>4, <1>5, <1>6 DEF DivertTypes, Rest, Results, Answering
  <1>8. NoFileLost'
    <2>1. Keeps(B, f)
      BY <1>2, RemovedIs
    <2>2. Keeps(B, files')
      BY <1>6, <2>1, KeepsOn
    <2> QED
      BY <2>2 DEF Keeps, NoFileLost, Rest, There
  <1>9. ASSUME ~(There(B, "src") /\ task.rename /\ ~There(B, o))
        PROVE  db' = before.db /\ files' = B
    <2>1. CASE ~task.rename
      BY <1>4, <1>5, <2>1 DEF RemovedFiles
    <2>2. CASE task.rename /\ There(B, o) /\ ~There(B, "src")
      <3>1. f = Moved(B, o, "src")
        BY <2>2 DEF RemovedFiles
      <3>2. ~There(f, o) /\ Moved(f, "src", o) = B
        BY <1>2, <2>2, <3>1, MovedThereAndBack
      <3> QED
        BY <1>4, <1>5, <2>2, <3>2 DEF Collides
    <2>3. CASE task.rename /\ There(B, o) /\ There(B, "src")
      <3>1. lenient
        BY <1>2, <2>3 DEF MayRemove, Collides
      <3>2. f = B /\ Moved(f, "src", o) = B
        BY <2>3 DEF RemovedFiles, Moved
      <3> QED
        BY <1>4, <1>5, <2>3, <3>1, <3>2 DEF Collides
    <2>4. CASE task.rename /\ ~There(B, o)
      <3>1. f = B
        BY <2>4 DEF RemovedFiles, Moved
      <3>2. ~There(B, "src")
        BY <1>9, <2>4
      <3>3. Moved(f, "src", o) = B /\ ~Collides(f, "src", o)
        BY <3>1, <3>2 DEF Moved, Collides
      <3> QED
        BY <1>4, <1>5, <2>4, <3>3
    <2> QED
      BY <2>1, <2>2, <2>3, <2>4
  <1>10. FailedMeansRestored'
    BY <1>2, <1>9 DEF FailedMeansRestored, Rest, There
  <1>11. WellOver'
    BY <1>1, <1>2, <1>10, SameRun DEF WellOver, Rest, AskedFor
  <1> QED
    BY <1>1, <1>2, <1>7, <1>8, <1>11, SameRun DEF DivertInv, Underway

LEMMA RestoreFailsStep == DivertInv /\ DivertRestoreFails /\ Rest => DivertInv'
  <1> SUFFICES ASSUME DivertInv, DivertRestoreFails, Rest PROVE DivertInv'
    OBVIOUS
  <1>1. /\ pc = "restore" /\ pc' = "end" /\ db' = db /\ files' \in {files, MovedBack}
        /\ result' = [failed |-> TRUE, changed |-> FALSE, mishap |-> "restore"]
    BY DEF DivertRestoreFails, Breaks
  <1>2. /\ DivertTypes /\ NoFileLost /\ Followed /\ ~check /\ task.state = "present"
        /\ db = NoDiversion /\ before.db # NoDiversion /\ before.db # Wanted(task)
        /\ ~NeedsNoForce /\ MayRemove /\ RemovedFiles \in FileMaps
    BY <1>1, TakenIs
  <1>3. MovedBack = RemovedFiles
    BY <1>1, MovedBackIs
  <1>4. DivertTypes'
    BY <1>1, <1>2, <1>3 DEF DivertTypes, Rest, Results
  <1>5. NoFileLost'
    <2>1. CASE files' = files
      BY <1>1, <1>2, <2>1, StillKept, KeepsItself
    <2>2. CASE files' = RemovedFiles
      <3>1. Keeps(before.files, files')
        BY <1>2, <2>2, RemovedIs
      <3> QED
        BY <3>1 DEF Keeps, NoFileLost, Rest, There
    <2> QED
      BY <1>1, <1>3, <2>1, <2>2
  <1>6. FailedMeansRestored'
    BY <1>1, <1>2 DEF FailedMeansRestored, Rest
  <1>7. WellOver'
    BY <1>1, <1>2, <1>6, SameRun DEF WellOver, Rest, AskedFor
  <1> QED
    BY <1>1, <1>2, <1>4, <1>5, <1>7, SameRun DEF DivertInv, Underway

LEMMA AgainStep == DivertInv /\ DivertAgain => DivertInv'
  <1> SUFFICES ASSUME DivertInv, DivertAgain PROVE DivertInv'
    OBVIOUS
  <1>1. /\ pc = "end" /\ ~past.done /\ past' = [check |-> check, result |-> result, done |-> TRUE]
        /\ check' = FALSE /\ pc' = "test" /\ result' = NoResult
        /\ before' = [db |-> db, files |-> files]
        /\ lenient' = lenient /\ db' = db /\ files' = files /\ task' = task
    BY DEF DivertAgain, sys
  <1>2. DivertTypes /\ WellOver
    BY <1>1 DEF DivertInv
  <1>3. DivertTypes'
    BY <1>1, <1>2 DEF DivertTypes, Results, NoResult
  <1>4. NoFileLost'
    BY <1>1 DEF NoFileLost
  <1>5. AskedFor' = AskedFor
    BY <1>1 DEF AskedFor
  <1>6. check => Due' = Due
    <2> SUFFICES ASSUME check PROVE Due' = Due
      OBVIOUS
    <2>1. before'.db = before.db /\ before'.files = before.files
      BY <1>1, <1>2 DEF WellOver, AsBefore
    <2>2. MayRemove' = MayRemove
      BY <1>1, <2>1 DEF MayRemove, Collides
    <2>3. MayDo' = MayDo
      BY <1>1, <2>1, <2>2 DEF MayDo, Collides
    <2>4. NeedsNoForce' = NeedsNoForce /\ DeletesIt' = DeletesIt
      BY <1>1, <2>1, <2>3 DEF NeedsNoForce, DeletesIt
    <2> QED
      BY <1>1, <1>5, <2>1, <2>2, <2>3, <2>4 DEF Due
  <1>7. Followed'
    BY <1>1, <1>2, <1>5, <1>6 DEF Followed, WellOver
  <1> QED
    BY <1>1, <1>3, <1>4, <1>7 DEF DivertInv, Underway, AsBefore

LEMMA DivertHolds == DivertSpec => []DivertInv
  <1>1. ASSUME DivertInv, [DivertNext]_divertVars PROVE DivertInv'
    <2>1. CASE DivertStep /\ Rest
      BY <1>1, <2>1, FakeStep, SimpleStep, CommandStep, FailsStep, ForceStep, MoveStep,
         MoveFailsStep, AddStep, AddFailsStep, RestoreStep, RestoreFailsStep, Zenon DEF DivertStep
    <2>2. CASE DivertAgain
      BY <1>1, <2>2, AgainStep
    <2>3. CASE UNCHANGED divertVars
      <3>1. /\ lenient' = lenient /\ db' = db /\ files' = files /\ task' = task /\ check' = check
            /\ pc' = pc /\ saved' = saved /\ result' = result /\ before' = before /\ past' = past
        BY <2>3 DEF divertVars
      <3>2. Rest
        BY <3>1 DEF Rest
      <3>3. MovedFiles' = MovedFiles
        BY <3>1, <3>2, SameRun DEF MovedFiles, MovesOn
      <3>4. Underway' = Underway
        BY <3>1, <3>2, <3>3, SameRun DEF Underway, AsBefore
      <3>5. WellOver' = WellOver
        <4>1. FailedMeansRestored' = FailedMeansRestored
          BY <3>1 DEF FailedMeansRestored, Ended, There
        <4>2. AsBefore' = AsBefore
          BY <3>1 DEF AsBefore
        <4> QED
          BY <3>1, <3>2, <4>1, <4>2, SameRun DEF WellOver, There
      <3> QED
        BY <1>1, <3>1, <3>2, <3>4, <3>5, SameRun DEF DivertInv, DivertTypes, NoFileLost
    <2> QED
      BY <1>1, <2>1, <2>2, <2>3, Zenon DEF DivertNext, Rest
  <1> QED
    BY <1>1, DivertStart, PTL DEF DivertSpec

\* Whichever of the commands and renames fails, no file is lost but the one that
\* was to be deleted, in either release of dpkg-divert; and when the new
\* diversion fails the old one is given back, with its files, unless a file was
\* in the place of the original and none at the old target.  A rename to the new
\* target that raises, and a failure of the undoing itself, are excluded by name:
\* they leave no diversion.
THEOREM DivertHarmless == DivertSpec => []FailureIsHarmless
  <1>1. DivertInv => FailureIsHarmless
    BY DEF DivertInv, WellOver, FailureIsHarmless, FailedMeansRestored, Ended
  <1> QED
    BY <1>1, DivertHolds, PTL

\* A task that succeeds has made the diversion it asks for; running it again
\* changes nothing; and check mode has said so.
THEOREM DivertDone == DivertSpec => []SuccessIsDone
  <1>1. DivertInv => SuccessIsDone
    <2> SUFFICES ASSUME DivertInv PROVE SuccessIsDone
      OBVIOUS
    <2>1. DoneMeansDiverted
      BY DEF DivertInv, WellOver, DoneMeansDiverted, Good, Ended, AskedFor
    <2>2. DivertedOnce
      BY DEF DivertInv, WellOver, Followed, DivertedOnce, Good, Ended, AsBefore
    <2>3. DivertCheckPredicts
      BY DEF DivertInv, WellOver, Followed, DivertCheckPredicts, Ended
    <2> QED
      BY <2>1, <2>2, <2>3 DEF SuccessIsDone
  <1> QED
    BY <1>1, DivertHolds, PTL

-----------------------------------------------------------------------------
(* The modules that change a host.                                         *)

Answers == [failed : BOOLEAN, changed : BOOLEAN]
Troubles == {"none", "meddled", "failed", "blind"}
ApacheHosts == [enabled : BOOLEAN, threaded : BOOLEAN, needed : BOOLEAN]
ApacheTasks == [state : States, cgi : BOOLEAN, force : BOOLEAN]
BtrfsTasks == [state : States, path : Tree, recursive : BOOLEAN]
LdapTasks == [state : States \union {"exact"}, ordered : BOOLEAN, values : AttributeTasks,
              bare : SUBSET Attributes]
AllValues == LdapValues \union (Int \X STRING)
LdapHosts == [Attributes -> SUBSET AllValues]
\* A modification that the server can be asked for.
SafeMod(m) ==
    /\ m.op \in {"add", "delete", "clear", "replace"} /\ m.name \in Attributes
    /\ ToSet(m.values) \subseteq AllValues
SafePlan(ms) == Len(ms) \in Nat /\ DOMAIN ms = 1..Len(ms) /\ \A i \in 1..Len(ms) : SafeMod(ms[i])

HostTypes ==
    /\ kind \in {"apache2", "btrfs", "cran", "ldap"}
    /\ kind = "apache2" => host \in ApacheHosts /\ start \in ApacheHosts /\ todo \in ApacheTasks
    /\ kind = "btrfs" => /\ host \in Trees /\ start \in Trees /\ todo \in BtrfsTasks
                         /\ plan \in Seq(Tree)
    /\ kind = "cran" => host \in BOOLEAN /\ start \in BOOLEAN /\ todo \in [state : States]
    /\ kind = "ldap" => /\ host \in LdapHosts /\ start \in LdapHosts /\ todo \in LdapTasks
                        /\ SafePlan(plan)
    /\ checking \in BOOLEAN /\ (kind = "cran" => ~checking)
    /\ at0 \in {"look", "commands", "verify", "end"}
    /\ kind = "apache2" => at0 \in {"look", "end"}
    /\ answer \in Answers /\ trouble \in Troubles
    /\ earlier \in [done : BOOLEAN, check : BOOLEAN, answer : Answers, trouble : Troubles]
    /\ kind = "cran" => ~earlier.check

\* What the task asks for, of any host.
HoldsIn(h) ==
    /\ kind = "apache2" => (h.enabled <=> Wants)
    /\ kind = "btrfs" => (h[todo.path] # "none" <=> Wants)
    /\ kind = "cran" => (h <=> Wants)
    /\ kind = "ldap" =>
          \A name \in Attributes :
             LET vs == ToSet(Normalized(name))
             IN  /\ todo.state = "present" => vs \subseteq h[name]
                 /\ todo.state = "absent" => vs \intersect h[name] = {}
                 /\ todo.state = "exact" => h[name] = vs

\* The paths that btrfs_subvolume goes through, from what was there when it
\* started.
IsBelow(q, p) == Len(q) > Len(p) /\ SubSeq(q, 1, Len(p)) = p
Course(s) ==
    /\ s \in Seq(Tree)
    /\ IF todo.state = "present"
       THEN s = IF todo.recursive THEN PathPrefixes(todo.path) ELSE <<todo.path>>
       ELSE IF todo.recursive /\ start[todo.path] # "none"
       THEN /\ Len(s) > 0 /\ s[Len(s)] = todo.path
            /\ \A i \in DOMAIN s : s[i] = todo.path \/ IsBelow(s[i], todo.path)
            /\ \A q \in Tree : IsBelow(q, todo.path) /\ start[q] # "none" =>
                  \E i \in DOMAIN s : s[i] = q
            /\ \A i, j \in DOMAIN s : IsBelow(s[j], s[i]) => j < i
       ELSE s = <<todo.path>>

\* btrfs_subvolume has been through the first k of them.
Through(s, k) ==
    /\ k \in 0..Len(s) /\ plan = SubSeq(s, k + 1, Len(s))
    /\ checking => host = start
    /\ ~checking => \A i \in 1..k : (host[s[i]] # "none" <=> Wants)
    /\ answer.changed <=> \E i \in 1..k : ~(start[s[i]] # "none" <=> Wants)
    /\ ~answer.changed => host = start
    /\ ~Wants => \A q \in Tree : host[q] \in {start[q], "none"}

Working ==
    /\ kind # "apache2"
    /\ kind = "btrfs" =>
          /\ at0 = "commands" /\ ~answer.failed
          /\ \E s : Course(s) /\ \E k \in Nat : Through(s, k)
    /\ kind = "cran" =>
          /\ answer = NoAnswer1 /\ start # Wants
          /\ host = start \/ (at0 = "verify" /\ host = Wants)
    /\ kind = "ldap" =>
          /\ at0 = "commands" /\ answer = NoAnswer1 /\ ~checking
          /\ host = start /\ plan # <<>> /\ plan = Modlist("p") \o Modlist("q")

HostEnded ==
    /\ checking => host = start
    /\ ~answer.failed /\ ~checking => HoldsIn(host)
    /\ ~answer.failed /\ (kind = "apache2" => ~checking) => (answer.changed <=> ~HoldsIn(start))
    /\ ~answer.failed /\ ~answer.changed => host = start
    /\ answer.failed /\ checking => kind = "apache2"
    /\ answer.failed /\ kind # "btrfs" => host = start
    /\ answer.failed /\ kind = "btrfs" /\ todo.recursive =>
          todo.state = "absent" /\ \E p \in Tree : start[p] = "dir"

EarlierRun ==
    earlier.done =>
        /\ ~checking
        /\ Clean(earlier.trouble) /\ earlier.check /\ kind # "apache2" => ~earlier.answer.failed
        /\ Clean(earlier.trouble) /\ ~earlier.answer.failed =>
             IF earlier.check
             THEN kind # "apache2" => (earlier.answer.changed <=> ~HoldsIn(start))
             ELSE HoldsIn(start)

\* A run that nothing befell has come so far.
SoFar ==
    /\ at0 = "look" => host = start /\ answer = NoAnswer1 /\ trouble = "none"
    /\ at0 \in {"commands", "verify"} /\ Clean(trouble) => Working
    /\ at0 = "end" /\ Clean(trouble) => HostEnded

HostInv == HostTypes /\ SoFar /\ EarlierRun

\* Without a task that changes, what was asked for stays so.
LEMMA SameTask == UNCHANGED <<kind, todo>> => \A h : HoldsIn(h)' <=> HoldsIn(h)
  <1> SUFFICES ASSUME kind' = kind, todo' = todo, NEW h PROVE HoldsIn(h)' <=> HoldsIn(h)
    OBVIOUS
  <1>1. (Wants <=> Wants') /\ \A name : Normalized(name)' = Normalized(name)
    BY DEF Wants, Normalized
  <1> QED
    BY <1>1, Zenon DEF HoldsIn

LEMMA EarlierStays == UNCHANGED Asked1 /\ EarlierRun => EarlierRun'
  <1> SUFFICES ASSUME UNCHANGED Asked1, EarlierRun PROVE EarlierRun'
    OBVIOUS
  <1>1. /\ kind' = kind /\ todo' = todo /\ checking' = checking /\ start' = start
        /\ earlier' = earlier
    BY DEF Asked1
  <1>2. HoldsIn(start)' <=> HoldsIn(start)
    <2>1. (Wants <=> Wants') /\ \A name : Normalized(name)' = Normalized(name)
      BY <1>1 DEF Wants, Normalized
    <2> QED
      BY <1>1, <2>1, Zenon DEF HoldsIn
  <1> QED
    BY <1>1, <1>2 DEF EarlierRun, Clean

LEMMA HostHolds == HostTypes => (Holds <=> HoldsIn(host))
  <1>1. ASSUME HostTypes, kind = "ldap" PROVE Holds <=> HoldsIn(host)
    <2>1. todo.state \in {"present", "absent", "exact"}
      BY <1>1 DEF HostTypes, LdapTasks, States
    <2> QED
      BY <1>1, <2>1 DEF Holds, HoldsIn
  <1>2. ASSUME HostTypes, kind = "cran" PROVE Holds <=> HoldsIn(host)
    BY <1>2 DEF Holds, HoldsIn, HostTypes, ApacheHosts, Wants
  <1>3. ASSUME HostTypes, kind = "btrfs" PROVE Holds <=> HoldsIn(host)
    BY <1>3 DEF Holds, HoldsIn, Exists, Wants
  <1>4. ASSUME HostTypes, kind = "apache2" PROVE Holds <=> HoldsIn(host)
    BY <1>4 DEF Holds, HoldsIn, HostTypes, ApacheHosts, Wants
  <1> QED
    BY <1>1, <1>2, <1>3, <1>4 DEF HostTypes

LEMMA HostStart == HostInit => HostInv
  <1> SUFFICES ASSUME HostInit PROVE HostInv
    OBVIOUS
  <1>1. /\ kind = "apache2" => host \in ApacheHosts /\ todo \in ApacheTasks
        /\ kind = "btrfs" => host \in Trees /\ todo \in BtrfsTasks
        /\ kind = "cran" => host \in BOOLEAN /\ todo \in [state : States]
    BY DEF HostInit, ApacheHosts, ApacheTasks, BtrfsTasks
  <1>2. kind = "ldap" => todo \in LdapTasks /\ host \in LdapHosts /\ SafePlan(plan)
    BY DEF HostInit, LdapTasks, LdapHosts, AllValues, SafePlan
  <1>3. HostTypes
    BY <1>1, <1>2 DEF HostInit, HostTypes, NoAnswer1, NoEarlier, Answers, Troubles
  <1> QED
    BY <1>3 DEF HostInit, HostInv, SoFar, EarlierRun, NoEarlier

LEMMA ApacheStep == HostInv /\ Apache => HostInv'
  <1> SUFFICES ASSUME HostInv, Apache PROVE HostInv'
    OBVIOUS
  <1>1. /\ kind = "apache2" /\ at0 = "look" /\ at0' = "end" /\ kind' = kind /\ todo' = todo
        /\ checking' = checking /\ start' = start /\ earlier' = earlier /\ trouble' = trouble
        /\ host = start /\ host \in ApacheHosts /\ trouble = "none" /\ checking \in BOOLEAN
        /\ todo \in ApacheTasks
    BY DEF Apache, ApacheSets, HostInv, HostTypes, SoFar, Asked1, Answer
  <1>2. \/ answer' = [failed |-> TRUE, changed |-> FALSE] /\ host' = host /\ (~checking \/ todo.cgi)
        \/ checking /\ host' = host /\ answer' = [failed |-> FALSE, changed |-> host.enabled = Wants]
        \/ /\ ~checking /\ answer' = [failed |-> FALSE, changed |-> host.enabled # Wants]
           /\ host' = [host EXCEPT !.enabled = Wants]
    BY <1>1 DEF Apache, ApacheSets, Answer
  <1>2a. Wants \in BOOLEAN /\ (Wants' <=> Wants) /\ host.enabled \in BOOLEAN
    BY <1>1 DEF Wants, ApacheHosts
  <1>2b. host' \in ApacheHosts
    BY <1>1, <1>2, <1>2a DEF ApacheHosts
  <1>2c. answer' \in Answers
    <2>1. \A a, b : /\ [failed |-> FALSE, changed |-> a = b] \in [failed : BOOLEAN, changed : BOOLEAN]
                    /\ [failed |-> FALSE, changed |-> a # b] \in [failed : BOOLEAN, changed : BOOLEAN]
      OBVIOUS
    <2>2. [failed |-> TRUE, changed |-> FALSE] \in [failed : BOOLEAN, changed : BOOLEAN]
      OBVIOUS
    <2> QED
      BY <1>2, <2>1, <2>2, Zenon DEF Answers
  <1>3. HostTypes'
    <2>1. kind' \in {"apache2", "btrfs", "cran", "ldap"} /\ start' \in ApacheHosts /\ todo' \in ApacheTasks
      BY <1>1 DEF HostInv, HostTypes
    <2>2. checking' \in BOOLEAN /\ at0' \in {"look", "commands", "verify", "end"}
      BY <1>1
    <2>3. trouble' \in Troubles
      BY <1>1 DEF Troubles
    <2>4. earlier' \in [done : BOOLEAN, check : BOOLEAN, answer : Answers, trouble : Troubles]
      BY <1>1 DEF HostInv, HostTypes
    <2> QED
      BY <1>1, <1>2b, <1>2c, <2>1, <2>2, <2>3, <2>4 DEF HostTypes
  <1>4. HostEnded'
    BY <1>1, <1>2, <1>2a DEF ApacheHosts, HostEnded, HoldsIn
  <1> QED
    BY <1>1, <1>3, <1>4, EarlierStays DEF HostInv, SoFar, Asked1

LEMMA ApacheTroubleStep == HostInv /\ (ApacheBlind \/ ApacheFails) => HostInv'
  <1> SUFFICES ASSUME HostInv, ApacheBlind \/ ApacheFails PROVE HostInv'
    OBVIOUS
  <1>1. /\ kind = "apache2" /\ at0' = "end" /\ kind' = kind /\ todo' = todo
        /\ checking' = checking /\ start' = start /\ earlier' = earlier
        /\ trouble' \in {"blind", "failed"} /\ UNCHANGED Asked1
        /\ host \in ApacheHosts /\ checking \in BOOLEAN /\ todo \in ApacheTasks
    BY DEF ApacheBlind, ApacheFails, ApacheSets, HostInv, HostTypes, Asked1, Answer
  <1>2. Wants \in BOOLEAN /\ host.enabled \in BOOLEAN
    BY <1>1 DEF Wants, ApacheHosts
  <1>3. host' = host \/ host' = [host EXCEPT !.enabled = Wants]
    BY DEF ApacheBlind, ApacheFails, ApacheSets
  <1>4. host' \in ApacheHosts
    BY <1>1, <1>2, <1>3 DEF ApacheHosts
  <1>5. answer' \in Answers
    <2>1. \/ answer' = [failed |-> TRUE, changed |-> FALSE]
          \/ \E f \in BOOLEAN : answer' = [failed |-> f, changed |-> ~f /\ host.enabled = Wants]
          \/ answer' = [failed |-> FALSE, changed |-> host.enabled # Wants]
      BY DEF ApacheBlind, ApacheFails, ApacheSets, Answer
    <2>2. \A f \in BOOLEAN : \A a, b :
             /\ [failed |-> f, changed |-> ~f /\ a = b] \in [failed : BOOLEAN, changed : BOOLEAN]
             /\ [failed |-> f, changed |-> a # b] \in [failed : BOOLEAN, changed : BOOLEAN]
             /\ [failed |-> f, changed |-> FALSE] \in [failed : BOOLEAN, changed : BOOLEAN]
      OBVIOUS
    <2> QED
      BY <2>1, <2>2, Zenon DEF Answers
  <1>6. HostTypes'
    <2>1. kind' \in {"apache2", "btrfs", "cran", "ldap"} /\ start' \in ApacheHosts /\ todo' \in ApacheTasks
      BY <1>1 DEF HostInv, HostTypes
    <2>2. earlier' \in [done : BOOLEAN, check : BOOLEAN, answer : Answers, trouble : Troubles]
      BY <1>1 DEF HostInv, HostTypes
    <2>3. trouble' \in Troubles
      BY <1>1 DEF Troubles
    <2> QED
      BY <1>1, <1>4, <1>5, <2>1, <2>2, <2>3 DEF HostTypes
  <1> QED
    BY <1>1, <1>6, EarlierStays DEF HostInv, SoFar, Clean

LEMMA CranStep ==
    HostInv /\ kind = "cran"
      /\ ((\E seen \in {host, FALSE} : CranLook(seen) \/ CranVerify(seen))
          \/ (\E works \in BOOLEAN : CranCommand(works)) \/ CranFails)
    => HostInv'
  <1> SUFFICES ASSUME HostInv, kind = "cran",
                      \/ \E seen \in {host, FALSE} : CranLook(seen) \/ CranVerify(seen)
                      \/ \E works \in BOOLEAN : CranCommand(works)
                      \/ CranFails
               PROVE  HostInv'
    OBVIOUS
  <1>1. /\ UNCHANGED Asked1 /\ kind' = kind /\ todo' = todo /\ checking' = checking
        /\ start' = start /\ earlier' = earlier
    BY DEF CranLook, CranVerify, CranCommand, CranFails, Asked1
  <1>2. /\ host \in BOOLEAN /\ start \in BOOLEAN /\ Wants \in BOOLEAN /\ (Wants' <=> Wants)
        /\ Wants' \in BOOLEAN /\ ~checking /\ answer \in Answers /\ trouble \in Troubles
    BY <1>1 DEF HostInv, HostTypes, Wants
  <1>3. PICK w \in BOOLEAN : w = Wants
    BY <1>2
  <1>5. \A f, c \in BOOLEAN : [failed |-> f, changed |-> c] \in Answers
    BY DEF Answers
  <1>6. ASSUME host' \in BOOLEAN, at0' \in {"commands", "verify", "end"},
               answer' \in Answers, trouble' \in Troubles,
               at0' # "end" /\ trouble' = "none" =>
                 /\ answer' = NoAnswer1 /\ start # w
                 /\ host' = start \/ (at0' = "verify" /\ host' = w),
               at0' = "end" /\ trouble' = "none" =>
                 /\ ~answer'.failed => host' = w /\ (answer'.changed <=> start # w)
                 /\ answer'.failed \/ ~answer'.changed => host' = start
        PROVE  HostInv'
    <2>1. HostTypes'
      BY <1>1, <1>2, <1>6 DEF HostInv, HostTypes
    <2>2. at0' # "end" /\ trouble' = "none" => Working'
      <3>1. /\ (kind = "cran")' /\ (Wants' <=> w) /\ Wants' \in BOOLEAN
            /\ NoAnswer1' = NoAnswer1
        BY <1>1, <1>2, <1>3 DEF NoAnswer1
      <3>2. Wants' = w
        BY <3>1
      <3> QED
        BY <1>1, <1>6, <3>1, <3>2, Zenon DEF Working
    <2>3. at0' = "end" /\ trouble' = "none" => HostEnded'
      <3>1. (HoldsIn(host)' <=> host' = w) /\ (HoldsIn(start)' <=> start = w)
        <4>1. (kind = "cran")' /\ (Wants' <=> w)
          BY <1>1, <1>2, <1>3
        <4> QED
          BY <1>1, <1>2, <1>6, <4>1 DEF HoldsIn
      <3> QED
        BY <1>1, <1>2, <1>6, <3>1 DEF HostEnded
    <2> QED
      BY <1>1, <1>6, <2>1, <2>2, <2>3, EarlierStays DEF HostInv, SoFar, Clean
  <1>7. ASSUME NEW seen \in {host, FALSE}, CranLook(seen) PROVE HostInv'
    <2>1. /\ seen \in BOOLEAN /\ host' = host /\ host = start /\ answer = NoAnswer1
          /\ trouble' = (IF seen # host THEN "blind" ELSE "none")
      BY <1>2, <1>7 DEF CranLook, HostInv, SoFar
    <2>2. trouble' \in Troubles
      BY <2>1 DEF Troubles
    <2>3. CASE seen = w
      <3>1. at0' = "end" /\ answer' = [failed |-> FALSE, changed |-> FALSE]
        BY <1>3, <1>7, <2>3 DEF CranLook, Answer
      <3> QED
        BY <1>2, <1>5, <1>6, <2>1, <2>2, <2>3, <3>1
    <2>4. CASE seen # w
      <3>1. at0' = "commands" /\ answer' = answer
        BY <1>3, <1>7, <2>4 DEF CranLook
      <3> QED
        BY <1>2, <1>6, <2>1, <2>2, <2>4, <3>1
    <2> QED
      BY <2>3, <2>4
  <1>8. ASSUME NEW works \in BOOLEAN, CranCommand(works) PROVE HostInv'
    <2>1. /\ at0' = "verify" /\ answer' = answer /\ trouble' = trouble
          /\ host' = IF works THEN w ELSE host
      BY <1>3, <1>8 DEF CranCommand
    <2>2. trouble = "none" => answer = NoAnswer1 /\ start # w /\ host = start
      BY <1>3, <1>8 DEF CranCommand, HostInv, SoFar, Working, Clean
    <2> QED
      BY <1>2, <1>3, <1>6, <2>1, <2>2
  <1>9. ASSUME NEW seen \in {host, FALSE}, CranVerify(seen) PROVE HostInv'
    <2>1. /\ seen \in BOOLEAN /\ host' = host /\ at0' = "end"
          /\ trouble' = (IF seen # host THEN "blind" ELSE trouble)
      BY <1>2, <1>9 DEF CranVerify, Answer
    <2>2. trouble' \in Troubles
      BY <1>2, <2>1 DEF Troubles
    <2>3. trouble = "none" => start # w /\ host \in {start, w}
      BY <1>3, <1>9 DEF CranVerify, HostInv, SoFar, Working, Clean
    <2>4. CASE seen = w
      <3>1. answer' = [failed |-> FALSE, changed |-> TRUE]
        BY <1>3, <1>9, <2>4 DEF CranVerify, Answer
      <3> QED
        BY <1>2, <1>5, <1>6, <2>1, <2>2, <2>3, <2>4, <3>1
    <2>5. CASE seen # w
      <3>1. answer' = [failed |-> TRUE, changed |-> FALSE]
        BY <1>3, <1>9, <2>5 DEF CranVerify, Answer
      <3>2. trouble' = "none" => host' = start
        BY <2>1, <2>3, <2>5
      <3>3. answer' \in Answers
        BY <1>5, <3>1
      <3> QED
        BY <1>2, <1>6, <2>1, <2>2, <3>1, <3>2, <3>3
    <2> QED
      BY <2>4, <2>5
  <1>10. ASSUME CranFails PROVE HostInv'
    <2>1. /\ host' = host /\ at0' = "end" /\ trouble' = "failed"
          /\ answer' = [failed |-> TRUE, changed |-> FALSE]
      BY <1>10 DEF CranFails, Answer
    <2>2. "failed" \in Troubles
      BY DEF Troubles
    <2> QED
      BY <1>2, <1>5, <1>6, <2>1, <2>2
  <1> QED
    BY <1>7, <1>8, <1>9, <1>10

LEMMA ParentIsShorter ==
    ASSUME NEW p \in Seq(STRING), p # <<>>
    PROVE  Len(ParentOf(p)) = Len(p) - 1
  <1> DEFINE n == Len(p) - 1
  <1>1. n \in Nat /\ Len(p) \in Nat /\ 1 \in Int /\ n \in Int /\ \A i \in 1..n : p[i] \in STRING
    OBVIOUS
  <1> HIDE DEF n
  <1>2. Len(SubSeq(p, 1, n)) = IF 1 <= n THEN n - 1 + 1 ELSE 0
    BY <1>1, SubSeqProperties
  <1>3. Len(SubSeq(p, 1, n)) = n
    BY <1>1, <1>2
  <1> QED
    BY <1>3 DEF ParentOf, n

\* The paths of a tree.
LEMMA Paths1 ==
    ASSUME NEW p \in Tree
    PROVE  /\ p \in Seq(STRING) /\ Len(p) \in Nat /\ Len(p) > 0
           /\ \A n \in 1..Len(p) : SubSeq(p, 1, n) \in Tree /\ Len(SubSeq(p, 1, n)) = n
           /\ SubSeq(p, 1, Len(p)) = p
           /\ ParentOf(p) # p
           /\ Len(p) = 1 => ParentOf(p) = <<>> /\ ParentOf(p) \notin Tree
  <1>1. p \in Seq(STRING) /\ p # <<>> /\ \A n \in 1..Len(p) : SubSeq(p, 1, n) \in Tree
    BY HostAssumption
  <1>2. Len(p) \in Nat /\ Len(p) > 0
    BY <1>1
  <1>3. SubSeq(p, 1, Len(p)) = p
    BY <1>1, SubSeqFull
  <1>4. \A n \in 1..Len(p) : Len(SubSeq(p, 1, n)) = n
    BY <1>1
  <1>5. ParentOf(p) # p
    <2>1. Len(ParentOf(p)) = Len(p) - 1
      BY <1>1, ParentIsShorter
    <2> QED
      BY <1>2, <2>1
  <1>6. Len(p) = 1 => ParentOf(p) = <<>>
    <2>1. 1 \in Int /\ 0 \in Int /\ 0 < 1 /\ (Len(p) = 1 => Len(p) - 1 = 0)
      OBVIOUS
    <2>2. SubSeq(p, 1, 0) = <<>>
      BY <2>1, SubSeqEmpty
    <2> QED
      BY <2>1, <2>2 DEF ParentOf
  <1> QED
    BY <1>1, <1>2, <1>3, <1>4, <1>5, <1>6, HostAssumption

\* What is in a directory that is below p, or in p, is below p.
LEMMA BelowParent ==
    ASSUME NEW p \in Tree, NEW q \in Tree, ParentOf(q) = p \/ IsBelow(ParentOf(q), p)
    PROVE  IsBelow(q, p)
  <1>1. /\ p \in Seq(STRING) /\ Len(p) \in Nat /\ Len(p) > 0
        /\ q \in Seq(STRING) /\ Len(q) \in Nat /\ Len(q) > 0
        /\ SubSeq(p, 1, Len(p)) = p
    BY Paths1
  <1>2. Len(ParentOf(q)) = Len(q) - 1
    <2>1. q # <<>>
      BY <1>1
    <2> QED
      BY <1>1, <2>1, ParentIsShorter
  <1>3. Len(p) <= Len(q) - 1 /\ SubSeq(ParentOf(q), 1, Len(p)) = p
    <2>1. CASE ParentOf(q) = p
      BY <1>1, <1>2, <2>1
    <2>2. CASE IsBelow(ParentOf(q), p)
      BY <1>1, <1>2, <2>2 DEF IsBelow
    <2> QED
      BY <2>1, <2>2
  <1>4. SubSeq(SubSeq(q, 1, Len(q) - 1), 1, Len(p)) = SubSeq(q, 1, Len(p))
    <2>1. /\ 1 \in 1..(Len(q) + 1) /\ Len(q) - 1 \in 0..Len(q)
          /\ 1 \in 1..(Len(q) - 1 - 1 + 2) /\ Len(p) \in 0..(Len(q) - 1 - 1 + 1)
          /\ 1 + 1 - 1 = 1 /\ 1 + Len(p) - 1 = Len(p)
      BY <1>1, <1>3
    <2>2. SubSeq(SubSeq(q, 1, Len(q) - 1), 1, Len(p)) = SubSeq(q, 1 + 1 - 1, 1 + Len(p) - 1)
      BY <1>1, <2>1, SubSeqOfSubSeq
    <2> QED
      BY <2>1, <2>2
  <1> QED
    BY <1>1, <1>3, <1>4 DEF IsBelow, ParentOf

\* Each of the prefixes of a path is in the one before it.
LEMMA PrefixParent ==
    ASSUME NEW p \in Tree, NEW n \in 1..Len(p), n # 1
    PROVE  ParentOf(SubSeq(p, 1, n)) = SubSeq(p, 1, n - 1)
  <1>1. p \in Seq(STRING) /\ Len(p) \in Nat /\ Len(SubSeq(p, 1, n)) = n
    BY Paths1
  <1>2. /\ 1 \in 1..(Len(p) + 1) /\ n \in 0..Len(p)
        /\ 1 \in 1..(n - 1 + 2) /\ n - 1 \in 0..(n - 1 + 1)
        /\ 1 + 1 - 1 = 1 /\ 1 + (n - 1) - 1 = n - 1
    BY <1>1
  <1>3. SubSeq(SubSeq(p, 1, n), 1, n - 1) = SubSeq(p, 1 + 1 - 1, 1 + (n - 1) - 1)
    BY <1>1, <1>2, SubSeqOfSubSeq
  <1> QED
    BY <1>1, <1>2, <1>3 DEF ParentOf

\* Where a path is, there are the directories it is in.
LEMMA PrefixesThere ==
    ASSUME NEW h \in Trees, NEW p \in Tree, h[p] # "none"
    PROVE  \A n \in 1..Len(p) : h[SubSeq(p, 1, n)] # "none"
  <1> DEFINE S == {k \in Nat : k < Len(p) => h[SubSeq(p, 1, Len(p) - k)] # "none"}
  <1>1. /\ Len(p) \in Nat /\ Len(p) > 0 /\ SubSeq(p, 1, Len(p)) = p
        /\ \A n \in 1..Len(p) : SubSeq(p, 1, n) \in Tree
    BY Paths1
  <1>2. 0 \in S
    <2>1. Len(p) - 0 = Len(p)
      BY <1>1
    <2> QED
      BY <1>1, <2>1
  <1>3. ASSUME NEW k \in Nat, k \in S PROVE k + 1 \in S
    <2> SUFFICES ASSUME k + 1 < Len(p) PROVE h[SubSeq(p, 1, Len(p) - (k + 1))] # "none"
      OBVIOUS
    <2> DEFINE n == Len(p) - k
    <2>1. n \in 1..Len(p) /\ n # 1 /\ n - 1 = Len(p) - (k + 1) /\ n - 1 \in 1..Len(p)
      <3> DEFINE l == Len(p)
      <3>1. l \in Nat /\ k + 1 < l
        BY <1>1
      <3> HIDE DEF l
      <3> QED
        BY <3>1 DEF l
    <2>2. h[SubSeq(p, 1, n)] # "none"
      BY <1>1, <1>3
    <2> HIDE DEF n
    <2>3. ParentOf(SubSeq(p, 1, n)) = SubSeq(p, 1, n - 1)
      BY <2>1, PrefixParent
    <2>4. SubSeq(p, 1, n) \in Tree /\ SubSeq(p, 1, n - 1) \in Tree
      BY <1>1, <2>1
    <2>5. h[SubSeq(p, 1, n - 1)] # "none"
      <3> DEFINE q == SubSeq(p, 1, n)
      <3>1. \A x \in Tree : ParentOf(x) \in Tree /\ h[x] # "none" => h[ParentOf(x)] # "none"
        BY DEF Trees
      <3>2. q \in Tree /\ h[q] # "none" /\ ParentOf(q) \in Tree
        BY <2>2, <2>3, <2>4
      <3>3. h[ParentOf(q)] # "none"
        BY <3>1, <3>2, Zenon
      <3> QED
        BY <2>3, <3>3
    <2> QED
      BY <2>1, <2>5
  <1> HIDE DEF S
  <1>4. \A k \in Nat : k \in S
    BY <1>2, <1>3, Loop!EveryNumber
  <1> TAKE n \in 1..Len(p)
  <1>5. Len(p) - n \in Nat /\ Len(p) - n < Len(p) /\ Len(p) - (Len(p) - n) = n
    BY <1>1
  <1> QED
    BY <1>4, <1>5 DEF S

\* A subvolume that is made in a directory, or a path that is removed with what
\* is below it, leaves a tree.
LEMMA TreeGrows ==
    ASSUME NEW h \in Trees, NEW p \in Tree, ParentOf(p) \in Tree => h[ParentOf(p)] # "none"
    PROVE  [h EXCEPT ![p] = "sub"] \in Trees
  <1> DEFINE g == [h EXCEPT ![p] = "sub"]
  <1>1. /\ h \in [Tree -> {"none", "dir", "sub"}]
        /\ \A q \in Tree : ParentOf(q) \in Tree /\ h[q] # "none" => h[ParentOf(q)] # "none"
    BY DEF Trees
  <1>2. g \in [Tree -> {"none", "dir", "sub"}]
    BY <1>1
  <1>3. \A q \in Tree : g[q] = IF q = p THEN "sub" ELSE h[q]
    BY <1>1
  <1> HIDE DEF g
  <1>4. ASSUME NEW q \in Tree, ParentOf(q) \in Tree, g[q] # "none" PROVE g[ParentOf(q)] # "none"
    BY <1>1, <1>3, <1>4
  <1>5. g \in Trees
    BY <1>2, <1>4 DEF Trees
  <1> QED
    BY <1>5 DEF g

LEMMA TreeShrinks ==
    ASSUME NEW h \in Trees, NEW p \in Tree, NEW g,
           g = [q \in Tree |-> IF q = p \/ (IsBelow(q, p) /\ h[q] # "none") THEN "none" ELSE h[q]]
    PROVE  g \in Trees
  <1>1. /\ h \in [Tree -> {"none", "dir", "sub"}]
        /\ \A q \in Tree : ParentOf(q) \in Tree /\ h[q] # "none" => h[ParentOf(q)] # "none"
    BY DEF Trees
  <1>2. g \in [Tree -> {"none", "dir", "sub"}]
    BY <1>1
  <1>3. \A q \in Tree : g[q] = IF q = p \/ (IsBelow(q, p) /\ h[q] # "none") THEN "none" ELSE h[q]
    OBVIOUS
  <1>4. ASSUME NEW q \in Tree, ParentOf(q) \in Tree, g[q] # "none" PROVE g[ParentOf(q)] # "none"
    <2>1. h[q] # "none" /\ h[ParentOf(q)] # "none" /\ ~IsBelow(q, p)
      BY <1>1, <1>3, <1>4
    <2>2. ParentOf(q) # p /\ ~IsBelow(ParentOf(q), p)
      BY <2>1, BelowParent
    <2> QED
      BY <1>3, <1>4, <2>1, <2>2
  <1> QED
    BY <1>2, <1>4 DEF Trees

\* The paths that are gone through end with that of the task.
LEMMA CourseEnds ==
    ASSUME NEW s, Course(s), todo \in BtrfsTasks
    PROVE  s \in Seq(Tree) /\ Len(s) \in Nat /\ Len(s) > 0 /\ s[Len(s)] = todo.path
  <1>1. todo.path \in Tree /\ s \in Seq(Tree) /\ Len(s) \in Nat
    BY DEF Course, BtrfsTasks
  <1>2. CASE s = PathPrefixes(todo.path)
    <2>1. /\ Len(todo.path) \in Nat /\ Len(todo.path) > 0
          /\ SubSeq(todo.path, 1, Len(todo.path)) = todo.path
      BY <1>1, Paths1
    <2>2. DOMAIN s = 1..Len(todo.path) /\ DOMAIN s = 1..Len(s)
      BY <1>1, <1>2 DEF PathPrefixes
    <2>3. Len(s) = Len(todo.path)
      BY <1>1, <2>1, <2>2
    <2>4. s[Len(s)] = SubSeq(todo.path, 1, Len(s))
      BY <1>2, <2>1, <2>3 DEF PathPrefixes
    <2> QED
      BY <1>1, <2>1, <2>3, <2>4
  <1>3. CASE s = <<todo.path>>
    BY <1>1, <1>3
  <1> QED
    BY <1>1, <1>2, <1>3 DEF Course

\* There is something to do on the way exactly if the task is not done already.
LEMMA CourseTells ==
    ASSUME NEW s, Course(s), todo \in BtrfsTasks, start \in Trees, kind = "btrfs"
    PROVE  (\E i \in 1..Len(s) : ~(start[s[i]] # "none" <=> Wants)) <=> ~HoldsIn(start)
  <1>1. s \in Seq(Tree) /\ Len(s) \in Nat /\ Len(s) > 0 /\ s[Len(s)] = todo.path
    BY CourseEnds
  <1>2. HoldsIn(start) <=> (start[todo.path] # "none" <=> Wants)
    BY DEF HoldsIn
  <1>3. todo.path \in Tree /\ todo.state \in {"present", "absent"}
    BY DEF BtrfsTasks, States
  <1>4. ASSUME HoldsIn(start), NEW i \in 1..Len(s) PROVE start[s[i]] # "none" <=> Wants
    <2>1. CASE s = <<todo.path>>
      BY <1>2, <1>4, <2>1
    <2>2. CASE s = PathPrefixes(todo.path) /\ Wants
      <3>1. Len(todo.path) \in Nat /\ i \in 1..Len(todo.path) /\ s[i] = SubSeq(todo.path, 1, i)
        <4>1. DOMAIN s = 1..Len(todo.path) /\ DOMAIN s = 1..Len(s)
          BY <1>1, <2>2 DEF PathPrefixes
        <4> QED
          BY <1>3, <2>2, <4>1, Paths1 DEF PathPrefixes
      <3>2. start[todo.path] # "none"
        BY <1>2, <1>4, <2>2
      <3> QED
        BY <1>3, <2>2, <3>1, <3>2, PrefixesThere
    <2> QED
      BY <1>2, <1>4, <2>1, <2>2 DEF Course, Wants
  <1>5. Len(s) \in 1..Len(s)
    BY <1>1
  <1> QED
    BY <1>1, <1>2, <1>4, <1>5

\* What comes next, and what is left after it.
LEMMA NextOf ==
    ASSUME NEW s \in Seq(Tree), NEW k \in 0..Len(s)
    PROVE  /\ SubSeq(s, k + 1, Len(s)) = <<>> <=> k = Len(s)
           /\ SubSeq(s, k + 1, Len(s)) \in Seq(Tree)
           /\ k < Len(s) => /\ k + 1 \in 1..Len(s)
                            /\ Head(SubSeq(s, k + 1, Len(s))) = s[k + 1]
                            /\ Tail(SubSeq(s, k + 1, Len(s))) = SubSeq(s, k + 2, Len(s))
  <1>1. Len(s) \in Nat /\ k \in Nat /\ k <= Len(s)
    OBVIOUS
  <1>2. CASE k = Len(s)
    BY <1>1, <1>2
  <1>3. CASE k < Len(s)
    <2>1. /\ k + 1 \in 1..Len(s) /\ Len(s) \in (k + 1)..Len(s) /\ k + 1 + 1 = k + 2
      BY <1>1, <1>3
    <2>2. /\ Head(SubSeq(s, k + 1, Len(s))) = s[k + 1]
          /\ Tail(SubSeq(s, k + 1, Len(s))) = SubSeq(s, k + 1 + 1, Len(s))
      BY <2>1, HeadTailOfSubSeq
    <2>3. SubSeq(s, k + 1, Len(s)) \in Seq(Tree) /\ Len(SubSeq(s, k + 1, Len(s))) = Len(s) - k
      <3>1. \A i \in (k + 1)..Len(s) : s[i] \in Tree
        BY <1>1
      <3>2. k + 1 \in Int /\ Len(s) \in Int /\ k + 1 <= Len(s) /\ Len(s) - (k + 1) + 1 = Len(s) - k
        BY <1>1, <1>3
      <3> QED
        BY <3>1, <3>2, SubSeqProperties
    <2> DEFINE r == SubSeq(s, k + 1, Len(s))
    <2>4. r # <<>>
      <3> HIDE DEF r
      <3>1. r \in Seq(Tree) /\ Len(r) = Len(s) - k
        BY <2>3 DEF r
      <3> QED
        BY <1>1, <1>3, <3>1
    <2> QED
      <3>1. SubSeq(s, k + 1 + 1, Len(s)) = SubSeq(s, k + 2, Len(s)) /\ ~(k = Len(s))
        BY <1>1, <1>3, <2>1
      <3> HIDE DEF r
      <3> QED
        BY <1>3, <2>1, <2>2, <2>3, <2>4, <3>1, Zenon DEF r
  <1> QED
    BY <1>1, <1>2, <1>3

\* What get_subvolumes lists is all there is, each path once, and a directory
\* before what is in it; read backwards, it is the course of a deletion.
LEMMA WalksAreCourses ==
    ASSUME NEW p \in Tree, NEW s \in Walks(p), NEW t, t = Reverse(s)
    PROVE  /\ t \in Seq(Tree) /\ Len(t) > 0 /\ t[Len(t)] = p
           /\ \A i \in DOMAIN t : t[i] = p \/ IsBelow(t[i], p)
           /\ \A q \in Tree : IsBelow(q, p) /\ host[q] # "none" => \E i \in DOMAIN t : t[i] = q
           /\ \A i, j \in DOMAIN t : IsBelow(t[j], t[i]) => j < i
  <1> DEFINE X == {p} \union Below1(p)
             n == Cardinality(X)
  <1>1. /\ p \in X /\ X \subseteq Tree
        /\ \A q \in X : q = p \/ IsBelow(q, p)
        /\ \A q \in Tree : IsBelow(q, p) /\ host[q] # "none" => q \in X
    BY DEF Below1, IsBelow, Exists
  <1>2. IsFiniteSet(X)
    BY <1>1, HostAssumption, FS_Subset
  <1>3. n \in Nat
    BY <1>2, FS_CardinalityType
  <1>4. /\ s \in [1..n -> X]
        /\ \A i, j \in 1..n : i # j => s[i] # s[j]
        /\ \A i, j \in DOMAIN s : i < j => ~IsPrefix(s[j], s[i])
    BY DEF Walks, SetToSeqs
  <1> HIDE DEF X, n
  <1>5. \A q \in X : \E i \in 1..n : s[i] = q
    <2>1. s \in Injection(1..n, X)
      BY <1>4 DEF Injection, IsInjective
    <2>2. IsFiniteSet(1..n) /\ Cardinality(1..n) = n
      <3>1. 1 \in Int /\ n \in Int /\ n - 1 + 1 = n /\ (1 > n => n = 0)
        BY <1>3
      <3> QED
        BY <3>1, FS_Interval
    <2>3. s \in Surjection(1..n, X)
      BY <1>2, <2>1, <2>2, FS_Injection DEF n
    <2> QED
      BY <2>3 DEF Surjection
  <1>6. Len(s) = n /\ DOMAIN s = 1..n
    BY <1>3, <1>4
  <1>7. n > 0
    BY <1>1, <1>3, <1>5
  <1>8. /\ t = [i \in 1..n |-> s[n - i + 1]]
        /\ DOMAIN t = 1..n /\ \A i \in 1..n : n - i + 1 \in 1..n /\ t[i] = s[n - i + 1]
    <2>1. t = [i \in 1..n |-> s[n - i + 1]]
      BY <1>6 DEF Reverse
    <2> QED
      BY <2>1, <1>3
  <1>9. t \in Seq(Tree) /\ Len(t) = n
    BY <1>1, <1>3, <1>4, <1>8
  <1>10. \A q \in X : \E i \in 1..n : t[i] = q
    <2> TAKE q \in X
    <2>1. PICK i \in 1..n : s[i] = q
      BY <1>5
    <2>2. n - i + 1 \in 1..n /\ n - (n - i + 1) + 1 = i
      BY <1>3
    <2> QED
      BY <1>8, <2>1, <2>2
  <1>11. ASSUME NEW i \in 1..n, NEW j \in 1..n, IsBelow(t[j], t[i]) PROVE j < i
    <2> DEFINE a == n - i + 1
               b == n - j + 1
    <2>1. a \in 1..n /\ b \in 1..n /\ t[i] = s[a] /\ t[j] = s[b]
      BY <1>8
    <2>2. IsPrefix(s[a], s[b]) /\ s[a] # s[b]
      <3>1. s[a] \in Tree /\ s[b] \in Tree
        BY <1>1, <1>4, <2>1
      <3>2. /\ Len(s[a]) \in Nat /\ Len(s[b]) \in Nat /\ Len(s[b]) > Len(s[a])
            /\ SubSeq(s[b], 1, Len(s[a])) = s[a]
        BY <1>11, <2>1, <3>1, Paths1 DEF IsBelow
      <3>3. SubSeq(s[a], 1, Len(s[a])) = s[a]
        BY <3>1, Paths1
      <3> HIDE DEF a, b
      <3> QED
        BY <3>2, <3>3 DEF IsPrefix
    <2>3. ~(b < a) /\ b # a
      BY <1>4, <1>6, <2>1, <2>2
    <2> QED
      BY <1>3, <2>3
  <1>12. t[n] = p
    <2>1. PICK i \in 1..n : t[i] = p
      BY <1>1, <1>10
    <2>2. n \in 1..n /\ t[n] \in X
      <3>1. n \in 1..n /\ n - n + 1 = 1 /\ 1 \in 1..n
        BY <1>3, <1>7
      <3> QED
        BY <3>1, <1>4, <1>8
    <2>3. CASE IsBelow(t[n], p)
      BY <1>3, <1>11, <2>1, <2>2, <2>3
    <2> QED
      BY <1>1, <2>2, <2>3
  <1>13. \A i \in 1..n : t[i] \in X
    BY <1>4, <1>8
  <1> QED
    BY <1>1, <1>7, <1>8, <1>9, <1>10, <1>11, <1>12, <1>13

LEMMA BtrfsLookStep == HostInv /\ BtrfsLook => HostInv'
  <1> SUFFICES ASSUME HostInv, BtrfsLook PROVE HostInv'
    OBVIOUS
  <1>1. /\ kind = "btrfs" /\ at0 = "look" /\ at0' = "commands" /\ kind' = kind /\ todo' = todo
        /\ checking' = checking /\ start' = start /\ earlier' = earlier /\ trouble' = trouble
        /\ host' = host /\ answer' = answer /\ host = start /\ trouble = "none"
        /\ answer = NoAnswer1 /\ todo \in BtrfsTasks /\ plan' \in Subvolumes /\ UNCHANGED Asked1
    BY DEF BtrfsLook, HostInv, HostTypes, SoFar, Asked1
  <1>2. todo.path \in Tree /\ todo.state \in {"present", "absent"}
    BY <1>1 DEF BtrfsTasks, States
  <1>3. PathPrefixes(todo.path) \in Seq(Tree) /\ <<todo.path>> \in Seq(Tree)
    BY <1>2, Paths1 DEF PathPrefixes
  <1>0. PICK s : s = plan'
    OBVIOUS
  <1>4. Course(s)
    <2>1. CASE todo.state = "present"
      BY <1>0, <1>1, <1>3, <2>1 DEF Subvolumes, Course
    <2>2. CASE todo.state = "absent" /\ todo.recursive /\ start[todo.path] # "none"
      <3>1. PICK w \in Walks(todo.path) : s = Reverse(w)
        BY <1>0, <1>1, <2>2 DEF Subvolumes, Exists
      <3>2. /\ s \in Seq(Tree) /\ Len(s) > 0 /\ s[Len(s)] = todo.path
            /\ \A i \in DOMAIN s : s[i] = todo.path \/ IsBelow(s[i], todo.path)
            /\ \A q \in Tree : IsBelow(q, todo.path) /\ host[q] # "none" => \E i \in DOMAIN s : s[i] = q
            /\ \A i, j \in DOMAIN s : IsBelow(s[j], s[i]) => j < i
        BY <1>2, <3>1, WalksAreCourses
      <3> QED
        BY <1>1, <2>2, <3>2 DEF Course
    <2>3. CASE todo.state = "absent" /\ ~(todo.recursive /\ start[todo.path] # "none")
      BY <1>0, <1>1, <1>3, <2>3 DEF Subvolumes, Course, Exists
    <2> QED
      BY <1>2, <2>1, <2>2, <2>3
  <1>5. s \in Seq(Tree) /\ SubSeq(s, 0 + 1, Len(s)) = s
    BY <1>4, SubSeqFull DEF Course
  <1>6. HostTypes'
    BY <1>0, <1>1, <1>5 DEF HostInv, HostTypes
  <1>7. Course(s)' /\ Through(s, 0)'
    <2>1. Course(s)'
      BY <1>1, <1>4 DEF Course
    <2>2. 1..0 = {} /\ 0 \in 0..Len(s) /\ answer.changed = FALSE
      BY <1>1, <1>5 DEF NoAnswer1
    <2>3. \A q \in Tree : host'[q] \in {start'[q], "none"}
      BY <1>1
    <2> QED
      BY <1>0, <1>1, <1>5, <2>1, <2>2, <2>3 DEF Through
  <1>8. Working'
    BY <1>1, <1>7 DEF Working, NoAnswer1
  <1> QED
    BY <1>1, <1>6, <1>8, EarlierStays DEF HostInv, SoFar, Asked1

\* What is below a path that is below p is below p.
LEMMA BelowBelow ==
    ASSUME NEW p \in Tree, NEW q \in Tree, NEW r \in Tree, IsBelow(q, p), IsBelow(r, q)
    PROVE  IsBelow(r, p)
  <1>1. /\ r \in Seq(STRING) /\ Len(r) \in Nat /\ Len(q) \in Nat /\ Len(p) \in Nat /\ Len(p) > 0
        /\ Len(q) > Len(p) /\ SubSeq(q, 1, Len(p)) = p
        /\ Len(r) > Len(q) /\ SubSeq(r, 1, Len(q)) = q
    BY Paths1 DEF IsBelow
  <1>2. SubSeq(SubSeq(r, 1, Len(q)), 1, Len(p)) = SubSeq(r, 1, Len(p))
    <2>1. /\ 1 \in 1..Len(r) /\ Len(q) \in 1..Len(r)
          /\ 1 \in 1..(Len(q) - 1 + 1) /\ Len(p) \in 1..(Len(q) - 1 + 1)
          /\ 1 + 1 - 1 = 1 /\ 1 + Len(p) - 1 = Len(p)
      BY <1>1
    <2>2. SubSeq(SubSeq(r, 1, Len(q)), 1, Len(p)) = SubSeq(r, 1 + 1 - 1, 1 + Len(p) - 1)
      BY <1>1, <2>1, SubSeqOfSubSeq
    <2> QED
      BY <2>1, <2>2
  <1> QED
    BY <1>1, <1>2 DEF IsBelow

\* A command leaves a tree, and is about a path that is left in the plan.
LEMMA AfterIsTree ==
    ASSUME HostTypes, kind = "btrfs", NEW p \in Tree, CommandWorks(p)
    PROVE  /\ After(p) \in Trees
           /\ Wants => \A q \in Tree : After(p)[q] = IF q = p THEN "sub" ELSE host[q]
           /\ ~Wants => /\ After(p)[p] = "none"
                        /\ \A q \in Tree : After(p)[q] \in {host[q], "none"}
  <1>1. host \in Trees /\ host \in [Tree -> {"none", "dir", "sub"}]
    BY DEF HostTypes, Trees
  <1>2. CASE Wants
    <2>1. After(p) = [host EXCEPT ![p] = "sub"]
      BY <1>2 DEF After, Wants
    <2>2. ParentOf(p) \in Tree => host[ParentOf(p)] # "none"
      BY <1>2 DEF CommandWorks, Wants, Exists
    <2>3. After(p) \in Trees
      BY <1>1, <2>1, <2>2, TreeGrows
    <2> QED
      BY <1>1, <1>2, <2>1, <2>3
  <1>3. CASE ~Wants
    <2>1. After(p) = [q \in Tree |-> IF q = p \/ (IsBelow(q, p) /\ host[q] # "none") THEN "none" ELSE host[q]]
      BY <1>3 DEF After, Wants, Below1, IsBelow, Exists
    <2>2. After(p) \in Trees
      BY <1>1, <2>1, TreeShrinks
    <2> QED
      BY <1>3, <2>1, <2>2
  <1> QED
    BY <1>2, <1>3

LEMMA BtrfsCommandStep == HostInv /\ BtrfsCommand => HostInv'
  <1> SUFFICES ASSUME HostInv, BtrfsCommand PROVE HostInv'
    OBVIOUS
  <1> DEFINE p == Head(plan)
  <1>1. /\ kind = "btrfs" /\ at0 = "commands" /\ kind' = kind /\ todo' = todo
        /\ checking' = checking /\ start' = start /\ earlier' = earlier /\ trouble' = trouble
        /\ host \in Trees /\ start \in Trees /\ todo \in BtrfsTasks /\ plan \in Seq(Tree)
        /\ plan # <<>> /\ checking \in BOOLEAN /\ answer \in Answers /\ trouble \in Troubles
        /\ HostTypes /\ UNCHANGED Asked1
    BY DEF BtrfsCommand, HostInv, HostTypes, Asked1
  <1>2. p \in Tree /\ Tail(plan) \in Seq(Tree)
    BY <1>1
  <1>3. \/ /\ ~ToDo(p) /\ plan' = Tail(plan) /\ host' = host /\ at0' = at0 /\ answer' = answer
        \/ /\ ToDo(p) /\ checking /\ plan' = Tail(plan) /\ host' = host /\ at0' = at0
           /\ answer' = [answer EXCEPT !.changed = TRUE]
        \/ /\ ToDo(p) /\ ~checking /\ CommandWorks(p) /\ plan' = Tail(plan) /\ host' = After(p)
           /\ at0' = at0 /\ answer' = [answer EXCEPT !.changed = TRUE]
        \/ /\ ToDo(p) /\ ~checking /\ ~CommandWorks(p) /\ host' = host /\ at0' = "end"
           /\ plan' = <<>> /\ answer' = [failed |-> TRUE, changed |-> answer.changed]
    BY <1>1 DEF BtrfsCommand, Answer
  <1>4. ToDo(p) <=> ~(host[p] # "none" <=> Wants)
    BY DEF ToDo, Exists, Wants
  <1>5. HostTypes'
    <2>1. host' \in Trees
      BY <1>1, <1>2, <1>3, AfterIsTree
    <2>2. answer' \in Answers /\ plan' \in Seq(Tree) /\ at0' \in {"commands", "end"}
      <3>1. answer.changed \in BOOLEAN /\ <<>> \in Seq(Tree)
        BY <1>1 DEF Answers
      <3>2. answer' \in Answers
        <4>1. [answer EXCEPT !.changed = TRUE] \in Answers
          BY <1>1 DEF Answers
        <4>2. [failed |-> TRUE, changed |-> answer.changed] \in Answers
          BY <3>1 DEF Answers
        <4> QED
          BY <1>1, <1>3, <4>1, <4>2
      <3> QED
        BY <1>1, <1>2, <1>3, <3>1, <3>2
    <2> QED
      BY <1>1, <2>1, <2>2 DEF HostTypes
  <1>6. SUFFICES ASSUME trouble = "none"
                 PROVE  (at0' = "commands" => Working') /\ (at0' = "end" => HostEnded')
    BY <1>1, <1>3, <1>5, EarlierStays DEF HostInv, SoFar, Clean
  <1>7. PICK s : Course(s) /\ \E k \in Nat : Through(s, k)
    BY <1>1, <1>6 DEF HostInv, SoFar, Working, Clean
  <1>8. PICK k \in Nat : Through(s, k)
    BY <1>7
  <1>9. /\ s \in Seq(Tree) /\ Len(s) \in Nat
        /\ k \in 0..Len(s) /\ k < Len(s) /\ k + 1 \in 1..Len(s)
        /\ p = s[k + 1] /\ Tail(plan) = SubSeq(s, k + 1 + 1, Len(s)) /\ k + 1 \in 0..Len(s)
    <2>1. s \in Seq(Tree) /\ k \in 0..Len(s) /\ plan = SubSeq(s, k + 1, Len(s)) /\ k + 1 + 1 = k + 2
      <3>1. s \in Seq(Tree)
        BY <1>7 DEF Course
      <3>2. k \in 0..Len(s) /\ plan = SubSeq(s, k + 1, Len(s))
        BY <1>8 DEF Through
      <3> QED
        BY <3>1, <3>2
    <2> QED
      BY <1>1, <2>1, NextOf
  <1>10. /\ checking => host = start
         /\ ~checking => \A i \in 1..k : (host[s[i]] # "none" <=> Wants)
         /\ answer.changed <=> \E i \in 1..k : ~(start[s[i]] # "none" <=> Wants)
         /\ ~answer.changed => host = start
         /\ ~Wants => \A q \in Tree : host[q] \in {start[q], "none"}
         /\ ~answer.failed
    BY <1>1, <1>6, <1>8 DEF Through, HostInv, SoFar, Working, Clean
  <1>11. Course(s)' /\ (Wants <=> Wants')
    BY <1>1, <1>7 DEF Course, Wants
  <1>12. 1..(k + 1) = 1..k \union {k + 1}
    OBVIOUS
  <1>13. (\E i \in 1..(k + 1) : ~(start[s[i]] # "none" <=> Wants)) <=> (answer.changed \/ ToDo(p))
    <2>1. ~answer.changed => (ToDo(p) <=> ~(start[s[k + 1]] # "none" <=> Wants))
      BY <1>4, <1>9, <1>10
    <2> QED
      BY <1>10, <1>12, <2>1
  <1>14. ASSUME plan' = Tail(plan), at0' = at0, ~answer'.failed,
                answer'.changed <=> (answer.changed \/ ToDo(p)),
                checking => host' = start,
                ~checking => \A i \in 1..(k + 1) : (host'[s[i]] # "none" <=> Wants),
                ~answer'.changed => host' = start,
                ~Wants => \A q \in Tree : host'[q] \in {start[q], "none"}
         PROVE  Working' /\ at0' = "commands"
    <2>1. Through(s, k + 1)'
      BY <1>1, <1>9, <1>11, <1>13, <1>14 DEF Through
    <2> QED
      BY <1>1, <1>11, <1>14, <2>1 DEF Working
  <1>15. CASE ~ToDo(p) /\ plan' = Tail(plan) /\ host' = host /\ at0' = at0 /\ answer' = answer
    <2>1. ~checking => \A i \in 1..(k + 1) : (host[s[i]] # "none" <=> Wants)
      BY <1>4, <1>9, <1>10, <1>12, <1>15
    <2> QED
      BY <1>10, <1>14, <1>15, <2>1
  <1>16. CASE /\ ToDo(p) /\ checking /\ plan' = Tail(plan) /\ host' = host /\ at0' = at0
              /\ answer' = [answer EXCEPT !.changed = TRUE]
    <2>1. answer'.changed = TRUE /\ answer'.failed = answer.failed
      BY <1>1, <1>16 DEF Answers
    <2> QED
      BY <1>10, <1>14, <1>16, <2>1
  <1>17. CASE /\ ToDo(p) /\ ~checking /\ CommandWorks(p) /\ plan' = Tail(plan) /\ host' = After(p)
              /\ at0' = at0 /\ answer' = [answer EXCEPT !.changed = TRUE]
    <2>1. answer'.changed = TRUE /\ answer'.failed = answer.failed
      BY <1>1, <1>17 DEF Answers
    <2>2. /\ Wants => \A q \in Tree : host'[q] = IF q = p THEN "sub" ELSE host[q]
          /\ ~Wants => /\ host'[p] = "none"
                       /\ \A q \in Tree : host'[q] \in {host[q], "none"}
      BY <1>1, <1>2, <1>17, AfterIsTree
    <2>3. \A i \in 1..(k + 1) : s[i] \in Tree
      BY <1>9
    <2>4. \A i \in 1..(k + 1) : (host'[s[i]] # "none" <=> Wants)
      BY <1>9, <1>10, <1>12, <1>17, <2>2, <2>3
    <2>5. ~Wants => \A q \in Tree : host'[q] \in {start[q], "none"}
      BY <1>10, <2>2
    <2> QED
      BY <1>10, <1>14, <1>17, <2>1, <2>4, <2>5
  <1>18. CASE /\ ToDo(p) /\ ~checking /\ ~CommandWorks(p) /\ host' = host /\ at0' = "end"
              /\ plan' = <<>> /\ answer' = [failed |-> TRUE, changed |-> answer.changed]
    <2>1. todo.path \in Tree /\ todo.state \in {"present", "absent"}
      BY <1>1 DEF BtrfsTasks, States
    <2>2. ASSUME todo.recursive, Wants PROVE FALSE
      <3>1. s = PathPrefixes(todo.path) /\ DOMAIN s = 1..Len(s)
        BY <1>7, <1>9, <2>2 DEF Course, Wants
      <3>2. /\ Len(s) = Len(todo.path) /\ \A i \in 1..Len(s) : s[i] = SubSeq(todo.path, 1, i)
        <4>1. DOMAIN s = 1..Len(todo.path) /\ Len(todo.path) \in Nat
          BY <2>1, <3>1, Paths1 DEF PathPrefixes
        <4> QED
          BY <1>9, <3>1, <4>1 DEF PathPrefixes
      <3>3. ParentOf(p) \in Tree /\ host[ParentOf(p)] = "none"
        BY <1>18, <2>2 DEF CommandWorks, Exists, Wants
      <3>4. CASE k = 0
        <4>1. p = SubSeq(todo.path, 1, 1) /\ 1 \in 1..Len(todo.path)
          <5>1. 1 \in 1..Len(s) /\ k + 1 = 1
            BY <1>9, <3>4
          <5> QED
            BY <1>9, <3>2, <5>1
        <4>2. Len(p) = 1
          <5>1. Len(SubSeq(todo.path, 1, 1)) = 1
            BY <2>1, <4>1, Paths1
          <5> QED
            BY <4>1, <5>1
        <4> QED
          BY <1>2, <3>3, <4>2, Paths1
      <3>5. CASE k # 0
        <4>1. k + 1 \in 1..Len(todo.path) /\ k + 1 # 1 /\ k + 1 - 1 = k /\ k \in 1..k /\ k \in 1..Len(s)
          BY <1>9, <3>2, <3>5
        <4>2. ParentOf(SubSeq(todo.path, 1, k + 1)) = SubSeq(todo.path, 1, k + 1 - 1)
          BY <2>1, <4>1, PrefixParent
        <4>3. ParentOf(p) = s[k]
          BY <1>9, <3>2, <4>1, <4>2
        <4> QED
          BY <1>10, <1>18, <2>2, <3>3, <4>1, <4>3
      <3> QED
        BY <3>4, <3>5
    <2>3. ASSUME todo.recursive, ~Wants, ~\E q \in Tree : start[q] = "dir" PROVE FALSE
      <3>1. todo.state = "absent" /\ host[p] # "none"
        BY <1>4, <1>18, <2>1, <2>3 DEF Wants
      <3>2. host[p] = "sub"
        <4>1. start[p] \in {"none", "dir", "sub"} /\ host[p] \in {start[p], "none"} /\ start[p] # "dir"
          BY <1>1, <1>2, <1>10, <2>3 DEF Trees
        <4> QED
          BY <3>1, <4>1
      <3>3. PICK q \in Tree : IsBelow(q, p) /\ host[q] = "sub"
        BY <1>18, <3>1, <3>2 DEF CommandWorks, Below1, IsBelow
      <3>4. start[todo.path] # "none" \/ p = todo.path
        BY <1>7, <1>9, <3>1 DEF Course
      <3>5. start[p] # "none" /\ start[q] # "none"
        BY <1>2, <1>10, <2>3, <3>1, <3>3
      <3>6. start[todo.path] # "none"
        BY <3>4, <3>5
      <3>7. /\ \A i \in DOMAIN s : s[i] = todo.path \/ IsBelow(s[i], todo.path)
            /\ \A r \in Tree : IsBelow(r, todo.path) /\ start[r] # "none" =>
                  \E i \in DOMAIN s : s[i] = r
            /\ \A i, j \in DOMAIN s : IsBelow(s[j], s[i]) => j < i
        BY <1>7, <2>3, <3>1, <3>6 DEF Course
      <3>8. IsBelow(q, todo.path)
        <4>1. p = todo.path \/ IsBelow(p, todo.path)
          BY <1>9, <3>7
        <4> QED
          BY <1>2, <2>1, <3>3, <4>1, BelowBelow
      <3>9. PICK j \in 1..Len(s) : s[j] = q
        BY <1>9, <3>3, <3>5, <3>7, <3>8
      <3>10. j < k + 1
        BY <1>9, <3>3, <3>7, <3>9
      <3>11. j \in 1..k
        BY <1>9, <3>9, <3>10
      <3> QED
        BY <1>10, <1>18, <2>3, <3>3, <3>9, <3>11
    <2>4. todo.recursive => todo.state = "absent" /\ \E q \in Tree : start[q] = "dir"
      BY <2>1, <2>2, <2>3 DEF Wants
    <2>5. HostEnded'
      BY <1>1, <1>10, <1>18, <2>4 DEF HostEnded
    <2> QED
      BY <1>18, <2>5
  <1> QED
    BY <1>3, <1>14, <1>15, <1>16, <1>17, <1>18

\* What ldap_attrs plans for one attribute: what is missing or too much, a value
\* at a time, or all of them at once.
GoodMod(name, m) ==
    /\ m.name = name
    /\ m.op \in {"add", "delete", "clear", "replace"}
    /\ todo.state = "present" =>
          m.op = "add" /\ \E v \in Missing(name) : m.values = <<v>>
    /\ todo.state = "absent" =>
          m.op = "delete" /\ \E v \in ToSet(Normalized(name)) \intersect host[name] : m.values = <<v>>
    /\ todo.state = "exact" =>
          /\ ToSet(Normalized(name)) # host[name] /\ m.values = Normalized(name)
          /\ m.op \in {"add", "clear", "replace"}
          /\ m.op = "add" => host[name] = {}
          /\ m.op = "clear" => Normalized(name) = <<>>
GoodMods(name, ms) ==
    /\ \E S : ms \in Seq(S)
    /\ \A i \in 1..Len(ms) : GoodMod(name, ms[i])
    /\ todo.state = "present" => \A v \in Missing(name) : \E i \in 1..Len(ms) : ms[i].values = <<v>>
    /\ todo.state = "absent" =>
          \A v \in ToSet(Normalized(name)) \intersect host[name] : \E i \in 1..Len(ms) : ms[i].values = <<v>>
    /\ todo.state = "exact" =>
          /\ ToSet(Normalized(name)) # host[name] => Len(ms) > 0
          /\ \A i, j \in 1..Len(ms) : i = j

LEMMA NormalizedIs ==
    ASSUME todo \in LdapTasks, NEW name \in Attributes
    PROVE  /\ Len(Normalized(name)) \in Nat /\ DOMAIN Normalized(name) = 1..Len(Normalized(name))
           /\ Normalized(name) \in Seq(ToSet(Normalized(name)))
           /\ Normalized(name) = <<>> => ToSet(Normalized(name)) = {}
  <1> DEFINE vs == todo.values[name]
  <1>1. vs \in Seq(STRING)
    <2>1. todo.values \in AttributeTasks
      BY DEF LdapTasks
    <2>2. todo.values \in [Attributes -> Seq(STRING)]
      BY <2>1, HostAssumption
    <2> QED
      BY <2>2
  <1>2. PICK n \in Nat : DOMAIN vs = 1..n
    BY <1>1
  <1>3. Normalized(name) = [i \in 1..n |-> Normalized(name)[i]]
    BY <1>2 DEF Normalized, Value1
  <1> DEFINE w == Normalized(name)
  <1> HIDE DEF w
  <1>4. w = [i \in 1..n |-> w[i]]
    BY <1>3 DEF w
  <1>5. Len(w) = n /\ DOMAIN w = 1..n /\ w \in Seq(ToSet(w)) /\ (w = <<>> => ToSet(w) = {})
    BY <1>4 DEF ToSet
  <1> QED
    BY <1>5 DEF w

LEMMA FlattenIs == \A q : Loop!FlattenSeq(q) = FlattenSeq(q)
  BY Zenon DEF FlattenSeq, Loop!FlattenSeq

LEMMA OneByOneIs ==
    ASSUME todo \in LdapTasks, NEW name \in Attributes, NEW op, NEW wanted
    PROVE  LET ms == OneByOne(op, name, wanted)
               S == {Mod(op, name, <<v>>) : v \in ToSet(Normalized(name)) \intersect wanted}
           IN  /\ ms \in Seq(S)
               /\ \A v \in ToSet(Normalized(name)) \intersect wanted :
                     \E i \in 1..Len(ms) : ms[i] = Mod(op, name, <<v>>)
  <1> DEFINE vs == Normalized(name)
             S == {Mod(op, name, <<v>>) : v \in ToSet(vs) \intersect wanted}
             one(i) == IF vs[i] \in wanted THEN <<Mod(op, name, <<vs[i]>>)>> ELSE <<>>
             seqs == [i \in DOMAIN vs |-> one(i)]
             ms == OneByOne(op, name, wanted)
  <1>1. Len(vs) \in Nat /\ DOMAIN vs = 1..Len(vs) /\ \A i \in DOMAIN vs : vs[i] \in ToSet(vs)
    BY NormalizedIs DEF ToSet
  <1>2. ms = FlattenSeq(seqs)
    BY DEF OneByOne
  <1> HIDE DEF vs, ms
  <1>3. \A i \in 1..Len(vs) : one(i) \in Seq(S)
    <2> TAKE i \in 1..Len(vs)
    <2> DEFINE x == Mod(op, name, <<vs[i]>>)
    <2>1. vs[i] \in wanted => x \in S
      BY <1>1
    <2> HIDE DEF x, S
    <2>2. <<>> \in Seq(S) /\ (vs[i] \in wanted => <<x>> \in Seq(S))
      BY <2>1
    <2> QED
      BY <2>2 DEF x
  <1>4. seqs \in Seq(Seq(S)) /\ Len(seqs) = Len(vs) /\ \A i \in 1..Len(vs) : seqs[i] = one(i)
    <2> HIDE DEF one, S
    <2> QED
      BY <1>1, <1>3
  <1> HIDE DEF seqs
  <1>5. /\ ms \in Seq(S)
        /\ \A i \in 1..Len(seqs) : \A j \in 1..Len(seqs[i]) : \E m \in 1..Len(ms) : ms[m] = seqs[i][j]
    <2> HIDE DEF S
    <2>1. PICK T : T = S
      OBVIOUS
    <2>2. seqs \in Seq(Seq(T))
      BY <1>4, <2>1
    <2>3. FlattenSeq(seqs) \in Seq(T)
      BY <2>2, Loop!FlatRange, FlattenIs
    <2>4. \A i \in 1..Len(seqs) : \A j \in 1..Len(seqs[i]) :
             \E m \in 1..Len(FlattenSeq(seqs)) : FlattenSeq(seqs)[m] = seqs[i][j]
      <3>1. \A i \in 1..Len(seqs) : \A j \in 1..Len(seqs[i]) :
               \E m \in 1..Len(Loop!FlattenSeq(seqs)) : Loop!FlattenSeq(seqs)[m] = seqs[i][j]
        BY <2>2, Loop!FlatRange, Zenon
      <3> QED
        BY <3>1, FlattenIs, Zenon
    <2> QED
      BY <1>2, <2>1, <2>3, <2>4
  <1>6. \A v \in ToSet(vs) \intersect wanted : \E i \in 1..Len(ms) : ms[i] = Mod(op, name, <<v>>)
    <2> TAKE v \in ToSet(vs) \intersect wanted
    <2>1. PICK i \in 1..Len(vs) : vs[i] = v
      BY <1>1 DEF ToSet
    <2>2. seqs[i] = <<Mod(op, name, <<v>>)>> /\ i \in 1..Len(seqs)
      BY <1>4, <2>1
    <2>3. 1 \in 1..Len(seqs[i]) /\ seqs[i][1] = Mod(op, name, <<v>>)
      BY <2>2
    <2>4. \E m \in 1..Len(ms) : ms[m] = seqs[i][1]
      BY <1>5, <2>2, <2>3, Zenon
    <2> QED
      BY <2>3, <2>4, Zenon
  <1> QED
    BY <1>5, <1>6 DEF vs, ms

LEMMA ModlistIs ==
    ASSUME todo \in LdapTasks, NEW name \in Attributes
    PROVE  GoodMods(name, Modlist(name))
  <1> DEFINE ms == Modlist(name)
  <1>1. todo.state \in {"present", "absent", "exact"}
    BY DEF LdapTasks, States
  <1>2. CASE todo.state = "present"
    <2>1. ms = OneByOne("add", name, Missing(name))
      BY <1>2 DEF Modlist
    <2>2. ToSet(Normalized(name)) \intersect Missing(name) = Missing(name)
      BY DEF Missing
    <2> DEFINE S == {Mod("add", name, <<v>>) : v \in Missing(name)}
    <2>3. ms \in Seq(S) /\ \A v \in Missing(name) : \E i \in 1..Len(ms) : ms[i] = Mod("add", name, <<v>>)
      BY <2>1, <2>2, OneByOneIs, Zenon
    <2> HIDE DEF ms
    <2>4. \A i \in 1..Len(ms) : ms[i] \in S
      <3> HIDE DEF S
      <3> QED
        BY <2>3
    <2>5. \A i \in 1..Len(ms) : GoodMod(name, ms[i])
      BY <1>2, <2>4 DEF GoodMod, Mod
    <2>6. \A v : Mod("add", name, <<v>>).values = <<v>>
      BY DEF Mod
    <2> HIDE DEF S
    <2>7. \A v \in Missing(name) : \E i \in 1..Len(ms) : ms[i].values = <<v>>
      BY <2>3, <2>6, Zenon
    <2>8. GoodMods(name, ms)
      BY <1>2, <2>3, <2>5, <2>7 DEF GoodMods
    <2> QED
      BY <2>8 DEF ms
  <1>3. CASE todo.state = "absent"
    <2> DEFINE T == ToSet(Normalized(name)) \intersect host[name]
               S == {Mod("delete", name, <<v>>) : v \in T}
    <2>1. ms = OneByOne("delete", name, host[name])
      BY <1>3 DEF Modlist
    <2>3. ms \in Seq(S) /\ \A v \in T : \E i \in 1..Len(ms) : ms[i] = Mod("delete", name, <<v>>)
      <3> HIDE DEF T
      <3>1. /\ OneByOne("delete", name, host[name]) \in Seq(S)
            /\ \A v \in T : \E i \in 1..Len(OneByOne("delete", name, host[name])) :
                  OneByOne("delete", name, host[name])[i] = Mod("delete", name, <<v>>)
        BY OneByOneIs, Zenon DEF T
      <3> QED
        BY <2>1, <3>1, Zenon
    <2> HIDE DEF ms
    <2>4. \A i \in 1..Len(ms) : ms[i] \in S
      <3> HIDE DEF S
      <3> QED
        BY <2>3
    <2>5. \A i \in 1..Len(ms) : GoodMod(name, ms[i])
      BY <1>3, <2>4 DEF GoodMod, Mod
    <2>6. \A v : Mod("delete", name, <<v>>).values = <<v>>
      BY DEF Mod
    <2> HIDE DEF S
    <2>7. \A v \in T : \E i \in 1..Len(ms) : ms[i].values = <<v>>
      BY <2>3, <2>6, Zenon
    <2>8. GoodMods(name, ms)
      BY <1>3, <2>3, <2>5, <2>7 DEF GoodMods
    <2> QED
      BY <2>8 DEF ms
  <1>4. CASE todo.state = "exact"
    <2>1. ms = Exactly(name)
      BY <1>4 DEF Modlist
    <2>2. Normalized(name) = <<>> => ToSet(Normalized(name)) = {}
      BY NormalizedIs
    <2>3. CASE ToSet(Normalized(name)) = host[name]
      <3>1. ms = <<>>
        BY <2>1, <2>3 DEF Exactly
      <3> QED
        BY <1>4, <2>3, <3>1 DEF GoodMods
    <2>4. CASE ToSet(Normalized(name)) # host[name]
      <3>1. PICK m : ms = <<m>> /\ GoodMod(name, m)
        <4>1. CASE host[name] = {}
          BY <1>4, <2>1, <2>4, <4>1 DEF Exactly, GoodMod, Mod
        <4>2. CASE host[name] # {} /\ Normalized(name) = <<>>
          BY <1>4, <2>1, <2>4, <4>2 DEF Exactly, GoodMod, Mod
        <4>3. CASE host[name] # {} /\ Normalized(name) # <<>>
          BY <1>4, <2>1, <2>4, <4>3 DEF Exactly, GoodMod, Mod
        <4> QED
          BY <4>1, <4>2, <4>3
      <3>2. ms \in Seq({m}) /\ Len(ms) = 1 /\ ms[1] = m
        BY <3>1
      <3>3. \A i \in 1..Len(ms) : i = 1 /\ GoodMod(name, ms[i])
        BY <3>1, <3>2
      <3> HIDE DEF ms
      <3> QED
        BY <1>4, <3>2, <3>3 DEF GoodMods, ms
    <2> QED
      BY <2>3, <2>4
  <1> QED
    BY <1>1, <1>2, <1>3, <1>4

\* The whole plan of ldap_attrs.
GoodPlan(ms) ==
    /\ \E S : ms \in Seq(S)
    /\ \A i \in 1..Len(ms) : ms[i].name \in Attributes /\ GoodMod(ms[i].name, ms[i])
    /\ todo.state = "present" =>
          \A name \in Attributes : \A v \in Missing(name) :
             \E i \in 1..Len(ms) : ms[i].name = name /\ ms[i].values = <<v>>
    /\ todo.state = "absent" =>
          \A name \in Attributes : \A v \in ToSet(Normalized(name)) \intersect host[name] :
             \E i \in 1..Len(ms) : ms[i].name = name /\ ms[i].values = <<v>>
    /\ todo.state = "exact" =>
          /\ \A name \in Attributes :
                ToSet(Normalized(name)) # host[name] => \E i \in 1..Len(ms) : ms[i].name = name
          /\ \A i, j \in 1..Len(ms) : ms[i].name = ms[j].name => i = j

LEMMA PlanIsGood ==
    ASSUME todo \in LdapTasks
    PROVE  GoodPlan(Modlist("p") \o Modlist("q"))
  <1>1. "p" \in Attributes /\ "q" \in Attributes /\ "p" # "q" /\ \A n \in Attributes : n = "p" \/ n = "q"
    BY DEF Attributes
  <1>2. PICK a : a = Modlist("p") /\ GoodMods("p", a)
    BY <1>1, ModlistIs
  <1>3. PICK b : b = Modlist("q") /\ GoodMods("q", b)
    BY <1>1, ModlistIs
  <1>4. PICK S : a \in Seq(S)
    BY <1>2 DEF GoodMods
  <1>5. PICK T : b \in Seq(T)
    BY <1>3 DEF GoodMods
  <1>6. PICK U : U = S \union T
    OBVIOUS
  <1>7. a \in Seq(U) /\ b \in Seq(U)
    BY <1>4, <1>5, <1>6
  <1>8. PICK ms : ms = a \o b
    OBVIOUS
  <1>9. /\ ms \in Seq(U) /\ Len(ms) = Len(a) + Len(b) /\ Len(a) \in Nat /\ Len(b) \in Nat
        /\ \A i \in 1..Len(a) : i \in 1..Len(ms) /\ ms[i] = a[i]
        /\ \A i \in 1..Len(b) : Len(a) + i \in 1..Len(ms) /\ ms[Len(a) + i] = b[i]
    <2>1. ms \in Seq(U)
      BY <1>7, <1>8, ConcatProperties
    <2> QED
      BY <1>7, <1>8, <2>1
  <1>10. \A i \in 1..Len(ms) : \/ i \in 1..Len(a) /\ ms[i] = a[i]
                               \/ i - Len(a) \in 1..Len(b) /\ ms[i] = b[i - Len(a)]
    <2> TAKE i \in 1..Len(ms)
    <2>1. CASE i \in 1..Len(a)
      BY <1>9, <2>1
    <2>2. CASE i \notin 1..Len(a)
      <3>1. i - Len(a) \in 1..Len(b) /\ Len(a) + (i - Len(a)) = i
        BY <1>9, <2>2
      <3> QED
        BY <1>9, <3>1
    <2> QED
      BY <2>1, <2>2
  <1>11. /\ \A i \in 1..Len(a) : GoodMod("p", a[i]) /\ a[i].name = "p"
         /\ \A i \in 1..Len(b) : GoodMod("q", b[i]) /\ b[i].name = "q"
    BY <1>2, <1>3 DEF GoodMods, GoodMod
  <1>12. \A i \in 1..Len(ms) : ms[i].name \in Attributes /\ GoodMod(ms[i].name, ms[i])
    BY <1>1, <1>10, <1>11
  <1>13. ASSUME todo.state = "present", NEW name \in Attributes, NEW v \in Missing(name)
         PROVE  \E i \in 1..Len(ms) : ms[i].name = name /\ ms[i].values = <<v>>
    <2>1. CASE name = "p"
      <3>1. PICK i \in 1..Len(a) : a[i].values = <<v>>
        BY <1>2, <1>13, <2>1 DEF GoodMods
      <3> QED
        BY <1>9, <1>11, <2>1, <3>1
    <2>2. CASE name = "q"
      <3>1. PICK i \in 1..Len(b) : b[i].values = <<v>>
        BY <1>3, <1>13, <2>2 DEF GoodMods
      <3> QED
        BY <1>9, <1>11, <2>2, <3>1
    <2> QED
      BY <1>1, <2>1, <2>2
  <1>14. ASSUME todo.state = "absent", NEW name \in Attributes,
                NEW v \in ToSet(Normalized(name)) \intersect host[name]
         PROVE  \E i \in 1..Len(ms) : ms[i].name = name /\ ms[i].values = <<v>>
    <2>1. CASE name = "p"
      <3>1. PICK i \in 1..Len(a) : a[i].values = <<v>>
        BY <1>2, <1>14, <2>1 DEF GoodMods
      <3> QED
        BY <1>9, <1>11, <2>1, <3>1
    <2>2. CASE name = "q"
      <3>1. PICK i \in 1..Len(b) : b[i].values = <<v>>
        BY <1>3, <1>14, <2>2 DEF GoodMods
      <3> QED
        BY <1>9, <1>11, <2>2, <3>1
    <2> QED
      BY <1>1, <2>1, <2>2
  <1>15. ASSUME todo.state = "exact", NEW name \in Attributes, ToSet(Normalized(name)) # host[name]
         PROVE  \E i \in 1..Len(ms) : ms[i].name = name
    <2>1. CASE name = "p"
      <3>1. 1 \in 1..Len(a)
        BY <1>2, <1>9, <1>15, <2>1 DEF GoodMods
      <3> QED
        BY <1>9, <1>11, <2>1, <3>1
    <2>2. CASE name = "q"
      <3>1. 1 \in 1..Len(b)
        BY <1>3, <1>9, <1>15, <2>2 DEF GoodMods
      <3> QED
        BY <1>9, <1>11, <2>2, <3>1
    <2> QED
      BY <1>1, <2>1, <2>2
  <1>16. ASSUME todo.state = "exact", NEW i \in 1..Len(ms), NEW j \in 1..Len(ms), ms[i].name = ms[j].name
         PROVE  i = j
    <2>1. (\A k, l \in 1..Len(a) : k = l) /\ (\A k, l \in 1..Len(b) : k = l)
      BY <1>2, <1>3, <1>16 DEF GoodMods
    <2>2. \/ i \in 1..Len(a) /\ j \in 1..Len(a)
          \/ i - Len(a) \in 1..Len(b) /\ j - Len(a) \in 1..Len(b)
      BY <1>1, <1>10, <1>11, <1>16
    <2>3. i = j \/ i - Len(a) = j - Len(a)
      BY <2>1, <2>2
    <2> QED
      BY <1>9, <2>3
  <1>17. GoodPlan(ms)
    BY <1>9, <1>12, <1>13, <1>14, <1>15, <1>16 DEF GoodPlan
  <1> QED
    BY <1>2, <1>3, <1>8, <1>17

\* There is something to modify exactly if the task is not done already.
LEMMA PlanTells ==
    ASSUME kind = "ldap", todo \in LdapTasks, NEW ms, GoodPlan(ms)
    PROVE  ms = <<>> <=> HoldsIn(host)
  <1>1. Len(ms) \in Nat /\ (ms = <<>> <=> ~(1 \in 1..Len(ms)))
    BY DEF GoodPlan
  <1>2. todo.state \in {"present", "absent", "exact"}
    BY DEF LdapTasks, States
  <1>3. HoldsIn(host) <=>
          \A name \in Attributes :
             /\ todo.state = "present" => ToSet(Normalized(name)) \subseteq host[name]
             /\ todo.state = "absent" => ToSet(Normalized(name)) \intersect host[name] = {}
             /\ todo.state = "exact" => host[name] = ToSet(Normalized(name))
    BY DEF HoldsIn
  <1>4. ASSUME ms = <<>> PROVE HoldsIn(host)
    <2>1. \A i \in 1..Len(ms) : FALSE
      BY <1>4
    <2>2. \A name \in Attributes :
             /\ todo.state = "present" => Missing(name) = {}
             /\ todo.state = "absent" => ToSet(Normalized(name)) \intersect host[name] = {}
             /\ todo.state = "exact" => host[name] = ToSet(Normalized(name))
      BY <2>1 DEF GoodPlan
    <2> QED
      BY <1>3, <2>2 DEF Missing
  <1>5. ASSUME HoldsIn(host), ms # <<>> PROVE FALSE
    <2>1. ms[1].name \in Attributes /\ GoodMod(ms[1].name, ms[1])
      BY <1>1, <1>5 DEF GoodPlan
    <2> QED
      BY <1>2, <1>3, <1>5, <2>1 DEF GoodMod, Missing
  <1> QED
    BY <1>4, <1>5

\* What is normalized are values, and what is planned can be asked for.
LEMMA PlanIsSafe ==
    ASSUME todo \in LdapTasks, NEW ms, GoodPlan(ms)
    PROVE  SafePlan(ms)
  <1>1. Len(ms) \in Nat /\ DOMAIN ms = 1..Len(ms)
    BY DEF GoodPlan
  <1>2. ASSUME NEW name \in Attributes PROVE ToSet(Normalized(name)) \subseteq AllValues
    <2> DEFINE vs == todo.values[name]
    <2>1. vs \in Seq(STRING)
      <3>1. todo.values \in AttributeTasks
        BY DEF LdapTasks
      <3>2. todo.values \in [Attributes -> Seq(STRING)]
        BY <3>1, HostAssumption
      <3> QED
        BY <3>2
    <2>2. PICK n \in Nat : DOMAIN vs = 1..n /\ \A i \in 1..n : vs[i] \in STRING
      BY <2>1
    <2> HIDE DEF vs
    <2>3. \A i \in 1..n : <<i - 1, vs[i]>> \in Int \X STRING /\ <<-1, vs[i]>> \in Int \X STRING
      BY <2>2
    <2>4. Normalized(name) = IF todo.ordered /\ name \notin todo.bare
                             THEN [i \in 1..n |-> <<i - 1, vs[i]>>]
                             ELSE [i \in 1..n |-> <<-1, vs[i]>>]
      BY <2>2 DEF Normalized, Value1, vs
    <2>5. DOMAIN Normalized(name) = 1..n /\ \A i \in 1..n : Normalized(name)[i] \in Int \X STRING
      BY <2>3, <2>4
    <2> QED
      BY <2>5 DEF ToSet, AllValues
  <1>3. ASSUME NEW i \in 1..Len(ms) PROVE SafeMod(ms[i])
    <2>1. PICK m : m = ms[i]
      OBVIOUS
    <2>2. m.name \in Attributes /\ GoodMod(m.name, m)
      BY <2>1 DEF GoodPlan
    <2>3. todo.state \in {"present", "absent", "exact"}
      BY DEF LdapTasks, States
    <2>4. ToSet(Normalized(m.name)) \subseteq AllValues
      BY <1>2, <2>2
    <2>5. (\E v \in AllValues : m.values = <<v>>) \/ m.values = Normalized(m.name)
      BY <2>2, <2>3, <2>4 DEF GoodMod, Missing
    <2>6. \A v : ToSet(<<v>>) = {v}
      BY DEF ToSet
    <2>7. ToSet(m.values) \subseteq AllValues
      BY <2>4, <2>5, <2>6
    <2> QED
      BY <2>1, <2>2, <2>7 DEF SafeMod, GoodMod
  <1> QED
    BY <1>1, <1>3 DEF SafePlan

\* What the server does with one modification.
Rows == [ok : BOOLEAN, attrs : LdapHosts]

Effect(attrs, m, after) ==
    /\ \A name \in Attributes : name # m.name => after[name] = attrs[name]
    /\ m.op = "add" => after[m.name] = attrs[m.name] \union ToSet(m.values)
    /\ m.op = "delete" => after[m.name] = attrs[m.name] \ ToSet(m.values)
    /\ m.op = "clear" => after[m.name] = {}
    /\ m.op = "replace" => after[m.name] = ToSet(m.values)

LEMMA ModifyFacts ==
    ASSUME NEW r \in Rows, NEW m, SafeMod(m)
    PROVE  /\ ModifyOne(r, m) \in Rows
           /\ ModifyOne(r, m).ok => r.ok /\ Effect(r.attrs, m, ModifyOne(r, m).attrs)
  <1>1. PICK ok \in BOOLEAN : \E attrs \in LdapHosts : r = [ok |-> ok, attrs |-> attrs]
    BY DEF Rows
  <1>2. PICK attrs \in LdapHosts : r = [ok |-> ok, attrs |-> attrs]
    BY <1>1
  <1>3. PICK name \in Attributes : name = m.name
    BY DEF SafeMod
  <1>4. PICK vs \in SUBSET AllValues : vs = ToSet(m.values)
    BY DEF SafeMod
  <1>5. attrs[name] \in SUBSET AllValues
    BY DEF LdapHosts
  <1> DEFINE With(w) == [ok |-> ok, attrs |-> [attrs EXCEPT ![name] = w]]
             No == [r EXCEPT !.ok = FALSE]
  <1>6. \A w \in SUBSET AllValues :
           /\ With(w) \in Rows /\ With(w).ok = ok
           /\ With(w).attrs[name] = w
           /\ \A n \in Attributes : n # name => With(w).attrs[n] = attrs[n]
    BY DEF Rows, LdapHosts
  <1>7. No \in Rows /\ No.ok = FALSE
    BY DEF Rows
  <1>8. /\ \A w : [r EXCEPT !.attrs[m.name] = w] = With(w)
        /\ [r EXCEPT !.ok = FALSE] = No
        /\ r.ok = ok /\ r.attrs = attrs
    <2>1. r.ok = ok /\ r.attrs = attrs
      BY <1>2, Zenon
    <2>2. ASSUME NEW w PROVE [r EXCEPT !.attrs[name] = w] = With(w)
      <3>1. \A g : [r EXCEPT !.attrs = g] = [ok |-> ok, attrs |-> g]
        BY <1>2
      <3> QED
        BY <1>2, <3>1
    <2> QED
      BY <1>3, <2>1, <2>2
  <1> HIDE DEF With, No
  <1>9. m.op \in {"add", "delete", "clear", "replace"}
    BY DEF SafeMod
  <1>10. PICK x : x = ModifyOne(r, m)
    OBVIOUS
  <1>11. \/ x = r /\ ~r.ok
         \/ x = [r EXCEPT !.ok = FALSE]
         \/ /\ r.ok /\ m.op = "add"
            /\ x = [r EXCEPT !.attrs[m.name] = r.attrs[m.name] \union ToSet(m.values)]
         \/ /\ r.ok /\ m.op = "delete"
            /\ x = [r EXCEPT !.attrs[m.name] = r.attrs[m.name] \ ToSet(m.values)]
         \/ r.ok /\ m.op = "clear" /\ x = [r EXCEPT !.attrs[m.name] = {}]
         \/ r.ok /\ m.op = "replace" /\ x = [r EXCEPT !.attrs[m.name] = ToSet(m.values)]
    <2> HIDE DEF With, No
    <2> QED
      BY <1>9, <1>10 DEF ModifyOne
  <1>12. \/ x = r /\ r.ok = FALSE
         \/ x = No
         \/ ok /\ m.op = "add" /\ x = With(attrs[name] \union vs)
         \/ ok /\ m.op = "delete" /\ x = With(attrs[name] \ vs)
         \/ ok /\ m.op = "clear" /\ x = With({})
         \/ ok /\ m.op = "replace" /\ x = With(vs)
    BY <1>3, <1>4, <1>8, <1>11
  <1>13. /\ x \in Rows
         /\ x.ok => /\ r.ok
                    /\ \A n \in Attributes : n # name => x.attrs[n] = attrs[n]
                    /\ m.op = "add" => x.attrs[name] = attrs[name] \union vs
                    /\ m.op = "delete" => x.attrs[name] = attrs[name] \ vs
                    /\ m.op = "clear" => x.attrs[name] = {}
                    /\ m.op = "replace" => x.attrs[name] = vs
    BY <1>5, <1>6, <1>7, <1>8, <1>12
  <1> QED
    BY <1>3, <1>4, <1>8, <1>10, <1>13 DEF Effect

\* What has been modified after the first k of them.
Modifying(ms, k, attrs) ==
    /\ todo.state = "present" =>
          /\ \A name \in Attributes : host[name] \subseteq attrs[name]
          /\ \A i \in 1..k : ToSet(ms[i].values) \subseteq attrs[ms[i].name]
    /\ todo.state = "absent" =>
          /\ \A name \in Attributes : attrs[name] \subseteq host[name]
          /\ \A i \in 1..k : ToSet(ms[i].values) \intersect attrs[ms[i].name] = {}
    /\ todo.state = "exact" =>
          /\ \A i \in 1..k : attrs[ms[i].name] = ToSet(ms[i].values)
          /\ \A name \in Attributes : (\A i \in 1..k : ms[i].name # name) => attrs[name] = host[name]

LEMMA ModifyingOn ==
    ASSUME todo \in LdapTasks, NEW ms, GoodPlan(ms), SafePlan(ms), NEW k \in Nat, k < Len(ms),
           NEW r \in Rows, ModifyOne(r, ms[k + 1]).ok, Modifying(ms, k, r.attrs)
    PROVE  Modifying(ms, k + 1, ModifyOne(r, ms[k + 1]).attrs)
  <1>1. PICK m : m = ms[k + 1]
    OBVIOUS
  <1>2. k + 1 \in 1..Len(ms) /\ (\A i \in 1..k : i \in 1..Len(ms) /\ i # k + 1)
        /\ 1..(k + 1) = 1..k \union {k + 1}
    BY DEF SafePlan
  <1>3. SafeMod(m) /\ m.name \in Attributes /\ GoodMod(m.name, m)
    BY <1>1, <1>2 DEF SafePlan, GoodPlan
  <1>4. PICK x : x = ModifyOne(r, m)
    OBVIOUS
  <1>5. /\ \A name \in Attributes : name # m.name => x.attrs[name] = r.attrs[name]
        /\ m.op = "add" => x.attrs[m.name] = r.attrs[m.name] \union ToSet(m.values)
        /\ m.op = "delete" => x.attrs[m.name] = r.attrs[m.name] \ ToSet(m.values)
        /\ m.op = "clear" => x.attrs[m.name] = {}
        /\ m.op = "replace" => x.attrs[m.name] = ToSet(m.values)
    <2>1. x.ok
      BY <1>1, <1>4
    <2>2. Effect(r.attrs, m, x.attrs)
      BY <1>3, <1>4, <2>1, ModifyFacts
    <2> QED
      BY <2>2 DEF Effect
  <1>6. \A i \in 1..k : ms[i].name \in Attributes
    BY <1>2 DEF GoodPlan
  <1>7. ASSUME todo.state = "present"
        PROVE  /\ \A name \in Attributes : host[name] \subseteq x.attrs[name]
               /\ \A i \in 1..(k + 1) : ToSet(ms[i].values) \subseteq x.attrs[ms[i].name]
    <2>1. m.op = "add"
      BY <1>3, <1>7 DEF GoodMod
    <2>2. \A name \in Attributes : r.attrs[name] \subseteq x.attrs[name]
      BY <1>5, <2>1
    <2>3. /\ \A name \in Attributes : host[name] \subseteq r.attrs[name]
          /\ \A i \in 1..k : ToSet(ms[i].values) \subseteq r.attrs[ms[i].name]
      BY <1>7 DEF Modifying
    <2>4. ToSet(m.values) \subseteq x.attrs[m.name]
      BY <1>5, <2>1
    <2> QED
      BY <1>1, <1>2, <1>6, <2>2, <2>3, <2>4
  <1>8. ASSUME todo.state = "absent"
        PROVE  /\ \A name \in Attributes : x.attrs[name] \subseteq host[name]
               /\ \A i \in 1..(k + 1) : ToSet(ms[i].values) \intersect x.attrs[ms[i].name] = {}
    <2>1. m.op = "delete"
      BY <1>3, <1>8 DEF GoodMod
    <2>2. \A name \in Attributes : x.attrs[name] \subseteq r.attrs[name]
      BY <1>5, <2>1
    <2>3. /\ \A name \in Attributes : r.attrs[name] \subseteq host[name]
          /\ \A i \in 1..k : ToSet(ms[i].values) \intersect r.attrs[ms[i].name] = {}
      BY <1>8 DEF Modifying
    <2>4. ToSet(m.values) \intersect x.attrs[m.name] = {}
      BY <1>5, <2>1
    <2>5. \A i \in 1..k : ToSet(ms[i].values) \intersect x.attrs[ms[i].name] = {}
      BY <1>6, <2>2, <2>3
    <2> QED
      BY <1>1, <1>2, <2>2, <2>3, <2>4, <2>5
  <1>9. ASSUME todo.state = "exact"
        PROVE  /\ \A i \in 1..(k + 1) : x.attrs[ms[i].name] = ToSet(ms[i].values)
               /\ \A name \in Attributes : (\A i \in 1..(k + 1) : ms[i].name # name) =>
                     x.attrs[name] = host[name]
    <2>1. \A i \in 1..k : ms[i].name # m.name
      BY <1>1, <1>2, <1>9 DEF GoodPlan
    <2>2. /\ \A i \in 1..k : r.attrs[ms[i].name] = ToSet(ms[i].values)
          /\ \A name \in Attributes : (\A i \in 1..k : ms[i].name # name) => r.attrs[name] = host[name]
      BY <1>9 DEF Modifying
    <2>3. x.attrs[m.name] = ToSet(m.values)
      <3>1. m.op \in {"add", "clear", "replace"} /\ m.values = Normalized(m.name)
        BY <1>3, <1>9 DEF GoodMod
      <3>2. m.op = "add" => r.attrs[m.name] = {}
        BY <1>3, <1>9, <2>1, <2>2 DEF GoodMod
      <3>3. m.op = "clear" => ToSet(m.values) = {}
        BY <1>3, <1>9, NormalizedIs DEF GoodMod
      <3> QED
        BY <1>5, <3>1, <3>2, <3>3
    <2>4. \A i \in 1..k : x.attrs[ms[i].name] = ToSet(ms[i].values)
      BY <1>5, <1>6, <2>1, <2>2
    <2>5. \A name \in Attributes : (\A i \in 1..(k + 1) : ms[i].name # name) => x.attrs[name] = host[name]
      BY <1>1, <1>2, <1>5, <2>2
    <2> QED
      BY <1>1, <1>2, <2>3, <2>4, <2>5
  <1>10. Modifying(ms, k + 1, x.attrs)
    BY <1>7, <1>8, <1>9 DEF Modifying
  <1> QED
    BY <1>1, <1>4, <1>10

\* What comes out is what the server may hold.
LEMMA ModifiedRow ==
    ASSUME host \in LdapHosts, NEW ms, SafePlan(ms)
    PROVE  \E r : /\ r[0] = [ok |-> TRUE, attrs |-> host]
                  /\ \A k \in Nat : k < Len(ms) => r[k + 1] = ModifyOne(r[k], ms[k + 1])
                  /\ \A k \in Nat : k <= Len(ms) => r[k] \in Rows
                  /\ Modified(ms) = r[Len(ms)]
  <1>1. Len(ms) \in Nat /\ DOMAIN ms = 1..Len(ms) /\ \A i \in 1..Len(ms) : SafeMod(ms[i])
    BY DEF SafePlan
  <1>2. Modified(ms) = Loop!Fold([ok |-> TRUE, attrs |-> host], ms)
    BY Zenon DEF Modified, FoldLeft, MapThenFoldSet, Max,
         Loop!Fold, Loop!FoldLeft, Loop!MapThenFoldSet, Loop!Max
  <1> DEFINE n == Len(ms)
  <1>3. PICK r : /\ r[0] = [ok |-> TRUE, attrs |-> host]
                 /\ \A k \in Nat : k < n => r[k + 1] = ModifyOne(r[k], ms[k + 1])
                 /\ Modified(ms) = r[n]
    <2>1. \E r : /\ r[0] = [ok |-> TRUE, attrs |-> host]
                 /\ \A k \in Nat : k < n => r[k + 1] = ModifyOne(r[k], ms[k + 1])
                 /\ Loop!Fold([ok |-> TRUE, attrs |-> host], ms) = r[n]
      <3> HIDE DEF n
      <3>1. n \in Nat /\ DOMAIN ms = 1..n
        BY <1>1 DEF n
      <3> QED
        BY <3>1, Loop!FoldRow
    <2> QED
      BY <1>2, <2>1
  <1> DEFINE T == {k \in Nat : k <= n => r[k] \in Rows}
  <1>4. 0 \in T
    <2>1. [ok |-> TRUE, attrs |-> host] \in Rows
      BY DEF Rows
    <2> QED
      BY <1>3, <2>1
  <1>5. ASSUME NEW k \in Nat, k \in T PROVE k + 1 \in T
    <2> SUFFICES ASSUME k + 1 <= n PROVE r[k + 1] \in Rows
      OBVIOUS
    <2>1. k < n /\ k <= n /\ k + 1 \in 1..n
      BY <1>1
    <2>2. r[k] \in Rows
      BY <1>5, <2>1
    <2>3. r[k + 1] = ModifyOne(r[k], ms[k + 1]) /\ SafeMod(ms[k + 1])
      BY <1>1, <1>3, <2>1
    <2> QED
      BY <2>2, <2>3, ModifyFacts
  <1> HIDE DEF T
  <1>6. \A k \in Nat : k \in T
    BY <1>4, <1>5, Loop!EveryNumber
  <1>7. \A k \in Nat : k <= n => r[k] \in Rows
    BY <1>6 DEF T
  <1> QED
    BY <1>3, <1>7

LEMMA ModifiedTypes ==
    ASSUME host \in LdapHosts, NEW ms, SafePlan(ms)
    PROVE  Modified(ms).ok \in BOOLEAN /\ Modified(ms).attrs \in LdapHosts
  <1>1. Len(ms) \in Nat /\ Len(ms) <= Len(ms)
    BY DEF SafePlan
  <1>2. Modified(ms) \in Rows
    BY <1>1, ModifiedRow
  <1> QED
    BY <1>2 DEF Rows

\* If the server accepts all that is planned, the task is done.
LEMMA ModifiedHolds ==
    ASSUME kind = "ldap", todo \in LdapTasks, host \in LdapHosts,
           NEW ms, GoodPlan(ms), SafePlan(ms)
    PROVE  Modified(ms).ok => HoldsIn(Modified(ms).attrs)
  <1>1. Len(ms) \in Nat /\ DOMAIN ms = 1..Len(ms) /\ \A i \in 1..Len(ms) : SafeMod(ms[i])
    BY DEF SafePlan
  <1> DEFINE n == Len(ms)
  <1>3. PICK r : /\ r[0] = [ok |-> TRUE, attrs |-> host]
                 /\ \A k \in Nat : k < n => r[k + 1] = ModifyOne(r[k], ms[k + 1])
                 /\ \A k \in Nat : k <= n => r[k] \in Rows
                 /\ Modified(ms) = r[n]
    BY ModifiedRow
  <1> DEFINE T == {k \in Nat : k <= n => (r[k].ok => Modifying(ms, k, r[k].attrs))}
  <1>4. 0 \in T
    <2>1. r[0] \in Rows /\ r[0].attrs = host
      BY <1>3 DEF Rows
    <2>2. Modifying(ms, 0, host)
      BY DEF Modifying
    <2> QED
      BY <2>1, <2>2
  <1>5. ASSUME NEW k \in Nat, k \in T PROVE k + 1 \in T
    <2> SUFFICES ASSUME k + 1 <= n
                 PROVE  r[k + 1].ok => Modifying(ms, k + 1, r[k + 1].attrs)
      OBVIOUS
    <2>1. k < n /\ k <= n /\ k + 1 \in 1..n
      BY <1>1
    <2>2. r[k] \in Rows /\ (r[k].ok => Modifying(ms, k, r[k].attrs))
      BY <1>3, <1>5, <2>1
    <2>3. r[k + 1] = ModifyOne(r[k], ms[k + 1]) /\ SafeMod(ms[k + 1])
      BY <1>1, <1>3, <2>1
    <2>4. r[k + 1].ok => r[k].ok
      BY <2>2, <2>3, ModifyFacts
    <2>5. r[k + 1].ok => Modifying(ms, k + 1, r[k + 1].attrs)
      BY <2>1, <2>2, <2>3, <2>4, ModifyingOn
    <2> QED
      BY <2>5
  <1> HIDE DEF T
  <1>6. \A k \in Nat : k \in T
    BY <1>4, <1>5, Loop!EveryNumber
  <1>7. r[n].ok => Modifying(ms, n, r[n].attrs)
    <2>1. n \in T /\ n <= n
      BY <1>1, <1>6
    <2> QED
      BY <2>1 DEF T
  <1>8. PICK x : x = r[n]
    OBVIOUS
  <1>9. ASSUME x.ok PROVE HoldsIn(x.attrs)
    <2>1. Modifying(ms, n, x.attrs)
      BY <1>7, <1>8, <1>9
    <2>2. ASSUME todo.state = "present", NEW name \in Attributes
          PROVE  ToSet(Normalized(name)) \subseteq x.attrs[name]
      <3> SUFFICES ASSUME NEW v \in ToSet(Normalized(name)) PROVE v \in x.attrs[name]
        OBVIOUS
      <3>1. CASE v \in host[name]
        BY <2>1, <2>2, <3>1 DEF Modifying
      <3>2. CASE v \notin host[name]
        <4>1. PICK i \in 1..n : ms[i].name = name /\ ms[i].values = <<v>>
          <5>1. v \in Missing(name)
            BY <3>2 DEF Missing
          <5> QED
            BY <2>2, <5>1 DEF GoodPlan
        <4>2. v \in ToSet(<<v>>)
          BY DEF ToSet
        <4>3. ToSet(ms[i].values) \subseteq x.attrs[ms[i].name]
          BY <2>1, <2>2 DEF Modifying
        <4> QED
          BY <4>1, <4>2, <4>3
      <3> QED
        BY <3>1, <3>2
    <2>3. ASSUME todo.state = "absent", NEW name \in Attributes
          PROVE  ToSet(Normalized(name)) \intersect x.attrs[name] = {}
      <3> SUFFICES ASSUME NEW v \in ToSet(Normalized(name)), v \in x.attrs[name] PROVE FALSE
        OBVIOUS
      <3>1. v \in host[name]
        BY <2>1, <2>3 DEF Modifying
      <3>2. PICK i \in 1..n : ms[i].name = name /\ ms[i].values = <<v>>
        BY <2>3, <3>1 DEF GoodPlan
      <3>3. v \in ToSet(<<v>>)
        BY DEF ToSet
      <3>4. ToSet(ms[i].values) \intersect x.attrs[ms[i].name] = {}
        BY <2>1, <2>3 DEF Modifying
      <3> QED
        BY <3>2, <3>3, <3>4
    <2>4. ASSUME todo.state = "exact", NEW name \in Attributes
          PROVE  x.attrs[name] = ToSet(Normalized(name))
      <3>1. CASE ToSet(Normalized(name)) = host[name]
        <4>1. \A i \in 1..n : ms[i].name # name
          BY <2>4, <3>1 DEF GoodPlan, GoodMod
        <4>2. x.attrs[name] = host[name]
          BY <2>1, <2>4, <4>1 DEF Modifying
        <4> QED
          BY <3>1, <4>2
      <3>2. CASE ToSet(Normalized(name)) # host[name]
        <4>1. PICK i \in 1..n : ms[i].name = name
          BY <2>4, <3>2 DEF GoodPlan
        <4>2. ms[i].values = Normalized(name)
          BY <2>4, <4>1 DEF GoodPlan, GoodMod
        <4>3. x.attrs[ms[i].name] = ToSet(ms[i].values)
          BY <2>1, <2>4 DEF Modifying
        <4> QED
          BY <4>1, <4>2, <4>3
      <3> QED
        BY <3>1, <3>2
    <2> QED
      BY <2>2, <2>3, <2>4 DEF HoldsIn
  <1>10. Modified(ms) = x
    BY <1>3, <1>8
  <1> QED
    BY <1>9, <1>10

LEMMA AnswersAre == \A f, c \in BOOLEAN : [failed |-> f, changed |-> c] \in Answers
  BY DEF Answers

LEMMA LdapLookStep == HostInv /\ LdapLook => HostInv'
  <1> SUFFICES ASSUME HostInv, LdapLook PROVE HostInv'
    OBVIOUS
  <1>1. PICK ms : ms = Modlist("p") \o Modlist("q")
    OBVIOUS
  <1>2. /\ kind = "ldap" /\ at0 = "look" /\ UNCHANGED Asked1 /\ kind' = kind /\ todo' = todo
        /\ checking' = checking /\ start' = start /\ earlier' = earlier /\ trouble' = trouble
        /\ host' = host /\ host = start /\ trouble = "none" /\ answer = NoAnswer1
        /\ todo \in LdapTasks /\ checking \in BOOLEAN
    BY DEF LdapLook, HostInv, HostTypes, SoFar, Asked1
  <1>3. GoodPlan(ms) /\ SafePlan(ms) /\ (ms = <<>> <=> HoldsIn(start))
    BY <1>1, <1>2, PlanIsGood, PlanIsSafe, PlanTells
  <1>4. \/ /\ ms = <<>> /\ at0' = "end" /\ plan' = <<>> /\ answer' = [failed |-> FALSE, changed |-> FALSE]
        \/ /\ ms # <<>> /\ checking /\ at0' = "end" /\ plan' = <<>>
           /\ answer' = [failed |-> FALSE, changed |-> TRUE]
        \/ ms # <<>> /\ ~checking /\ at0' = "commands" /\ plan' = ms /\ answer' = answer
    <2>1. CASE ms = <<>>
      <3>1. Answer(FALSE, ms # <<>>)
        BY <1>1, <2>1 DEF LdapLook
      <3>2. (ms # <<>>) = FALSE
        BY <2>1
      <3> QED
        BY <2>1, <3>1, <3>2 DEF Answer
    <2>2. CASE ms # <<>> /\ checking
      <3>1. Answer(FALSE, ms # <<>>)
        BY <1>1, <2>2 DEF LdapLook
      <3>2. (ms # <<>>) = TRUE
        BY <2>2
      <3> QED
        BY <2>2, <3>1, <3>2 DEF Answer
    <2>3. CASE ms # <<>> /\ ~checking
      BY <1>1, <2>3 DEF LdapLook
    <2> QED
      BY <1>2, <2>1, <2>2, <2>3
  <1>5. SafePlan(<<>>)
    BY DEF SafePlan
  <1>6. answer' \in Answers
    BY <1>2, <1>4, AnswersAre, Zenon DEF NoAnswer1
  <1>7. HostTypes'
    <2>1. SafePlan(plan)'
      <3>1. SafePlan(plan')
        BY <1>3, <1>4, <1>5
      <3> QED
        BY <3>1 DEF SafePlan, SafeMod
    <2>2. at0' \in {"look", "commands", "verify", "end"}
      BY <1>4
    <2> QED
      BY <1>2, <1>6, <2>1, <2>2 DEF HostInv, HostTypes
  <1>8. at0' = "commands" => Working'
    <2> SUFFICES ASSUME at0' = "commands" PROVE Working'
      OBVIOUS
    <2>1. ms # <<>> /\ ~checking /\ plan' = ms /\ answer' = NoAnswer1
      BY <1>2, <1>4
    <2>2. (Modlist("p") \o Modlist("q"))' = ms
      BY <1>1, <1>2 DEF Modlist, OneByOne, Exactly, Normalized, Missing
    <2>3. NoAnswer1' = NoAnswer1
      BY DEF NoAnswer1
    <2> QED
      BY <1>2, <2>1, <2>2, <2>3 DEF Working
  <1>9. at0' = "end" => HostEnded'
    <2> SUFFICES ASSUME at0' = "end" PROVE HostEnded'
      OBVIOUS
    <2>1. /\ answer'.failed = FALSE /\ (answer'.changed <=> ms # <<>>) /\ (checking \/ ms = <<>>)
      BY <1>4
    <2>2. (HoldsIn(host)' <=> HoldsIn(start)) /\ (HoldsIn(start)' <=> HoldsIn(start))
      <3>1. (Wants <=> Wants') /\ \A name : Normalized(name)' = Normalized(name)
        BY <1>2 DEF Wants, Normalized
      <3> QED
        BY <1>2, <3>1, Zenon DEF HoldsIn
    <2> QED
      BY <1>2, <1>3, <2>1, <2>2 DEF HostEnded
  <1> QED
    BY <1>2, <1>4, <1>7, <1>8, <1>9, EarlierStays DEF HostInv, SoFar

LEMMA LdapModifyStep == HostInv /\ LdapModify => HostInv'
  <1> SUFFICES ASSUME HostInv, LdapModify PROVE HostInv'
    OBVIOUS
  <1>1. PICK r : r = Modified(plan)
    OBVIOUS
  <1>2. /\ kind = "ldap" /\ at0 = "commands" /\ at0' = "end" /\ plan' = <<>> /\ UNCHANGED Asked1
        /\ kind' = kind /\ todo' = todo /\ checking' = checking /\ start' = start
        /\ earlier' = earlier /\ trouble' = trouble
        /\ todo \in LdapTasks /\ checking \in BOOLEAN /\ host \in LdapHosts /\ SafePlan(plan)
    BY DEF LdapModify, HostInv, HostTypes, Asked1, Answer
  <1>3. \/ r.ok /\ host' = r.attrs /\ answer' = [failed |-> FALSE, changed |-> TRUE]
        \/ ~r.ok /\ host' = host /\ answer' = [failed |-> TRUE, changed |-> FALSE]
    BY <1>1 DEF LdapModify, Answer
  <1>4. r.ok \in BOOLEAN /\ r.attrs \in LdapHosts
    BY <1>1, <1>2, ModifiedTypes
  <1>5. SafePlan(<<>>)' /\ answer' \in Answers
    <2>1. SafePlan(<<>>)'
      BY DEF SafePlan
    <2> QED
      BY <1>3, <2>1, AnswersAre, Zenon
  <1>6. HostTypes'
    BY <1>2, <1>3, <1>4, <1>5 DEF HostInv, HostTypes
  <1>7. trouble = "none" => HostEnded'
    <2> SUFFICES ASSUME trouble = "none" PROVE HostEnded'
      OBVIOUS
    <2>1. Working
      BY <1>2 DEF HostInv, SoFar, Clean
    <2>2. ~checking /\ host = start /\ plan # <<>> /\ plan = Modlist("p") \o Modlist("q")
      BY <1>2, <2>1 DEF Working
    <2>3. GoodPlan(plan) /\ ~HoldsIn(start)
      BY <1>2, <2>2, PlanIsGood, PlanTells
    <2>4. r.ok => HoldsIn(r.attrs)
      BY <1>1, <1>2, <2>3, ModifiedHolds
    <2>5. \A h : HoldsIn(h)' <=> HoldsIn(h)
      BY <1>2, SameTask
    <2>6. (HoldsIn(start)' <=> HoldsIn(start)) /\ (r.ok => HoldsIn(host)')
      <3>1. (Wants <=> Wants') /\ \A name : Normalized(name)' = Normalized(name)
        BY <1>2 DEF Wants, Normalized
      <3>2. r.ok => HoldsIn(host')
        BY <1>3, <2>4
      <3>3. HoldsIn(host') => HoldsIn(host)'
        BY <1>2, <3>1, Zenon DEF HoldsIn
      <3> QED
        BY <1>2, <3>1, <3>2, <3>3, Zenon DEF HoldsIn
    <2> QED
      BY <1>2, <1>3, <2>2, <2>3, <2>6 DEF HostEnded
  <1> QED
    BY <1>2, <1>6, <1>7, EarlierStays DEF HostInv, SoFar, Clean

LEMMA BtrfsFailsStep == HostInv /\ BtrfsFails => HostInv'
  <1> SUFFICES ASSUME HostInv, BtrfsFails PROVE HostInv'
    OBVIOUS
  <1>1. /\ kind = "btrfs" /\ at0' = "end" /\ plan' = <<>> /\ UNCHANGED Asked1 /\ trouble' = "failed"
        /\ kind' = kind /\ todo' = todo /\ checking' = checking /\ start' = start
        /\ earlier' = earlier /\ host' = host
        /\ answer' = [failed |-> TRUE, changed |-> answer.changed] /\ answer \in Answers
    BY DEF BtrfsFails, HostInv, HostTypes, Asked1, Answer
  <1>2. answer' \in Answers /\ <<>> \in Seq(Tree) /\ "failed" \in Troubles
    <2>1. answer.changed \in BOOLEAN
      BY <1>1 DEF Answers
    <2>2. answer' \in Answers
      BY <1>1, <2>1, AnswersAre, Zenon
    <2> QED
      BY <2>2 DEF Troubles
  <1>3. HostTypes'
    BY <1>1, <1>2 DEF HostInv, HostTypes
  <1> QED
    BY <1>1, <1>3, EarlierStays DEF HostInv, SoFar, Clean

LEMMA BtrfsEndStep == HostInv /\ BtrfsEnd => HostInv'
  <1> SUFFICES ASSUME HostInv, BtrfsEnd PROVE HostInv'
    OBVIOUS
  <1>1. /\ kind = "btrfs" /\ at0 = "commands" /\ plan = <<>> /\ at0' = "end" /\ plan' = <<>>
        /\ UNCHANGED Asked1 /\ trouble' = trouble
        /\ kind' = kind /\ todo' = todo /\ checking' = checking /\ start' = start
        /\ earlier' = earlier /\ host' = host
        /\ answer' = [failed |-> FALSE, changed |-> answer.changed] /\ answer \in Answers
        /\ todo \in BtrfsTasks /\ start \in Trees /\ checking \in BOOLEAN
    BY DEF BtrfsEnd, HostInv, HostTypes, Asked1, Answer
  <1>2. answer' \in Answers /\ <<>> \in Seq(Tree) /\ answer.changed \in BOOLEAN
    <2>1. answer.changed \in BOOLEAN
      BY <1>1 DEF Answers
    <2>2. answer' \in Answers
      BY <1>1, <2>1, AnswersAre, Zenon
    <2> QED
      BY <2>1, <2>2
  <1>3. HostTypes'
    BY <1>1, <1>2 DEF HostInv, HostTypes
  <1>4. trouble = "none" => HostEnded'
    <2> SUFFICES ASSUME trouble = "none" PROVE HostEnded'
      OBVIOUS
    <2>1. PICK s : Course(s) /\ \E k \in Nat : Through(s, k)
      BY <1>1 DEF HostInv, SoFar, Working, Clean
    <2>2. PICK k \in Nat : Through(s, k)
      BY <2>1
    <2>3. s \in Seq(Tree) /\ Len(s) \in Nat /\ Len(s) > 0 /\ s[Len(s)] = todo.path
      BY <1>1, <2>1, CourseEnds
    <2>4. k = Len(s) /\ Len(s) \in 1..Len(s)
      <3>1. k \in 0..Len(s) /\ SubSeq(s, k + 1, Len(s)) = <<>>
        BY <1>1, <2>2 DEF Through
      <3> QED
        BY <2>3, <3>1, NextOf
    <2>5. /\ checking => host = start
          /\ ~checking => \A i \in 1..Len(s) : (host[s[i]] # "none" <=> Wants)
          /\ answer.changed <=> \E i \in 1..Len(s) : ~(start[s[i]] # "none" <=> Wants)
          /\ ~answer.changed => host = start
      BY <2>2, <2>4 DEF Through
    <2>6. answer.changed <=> ~HoldsIn(start)
      BY <1>1, <2>1, <2>5, CourseTells
    <2>7. ~checking => HoldsIn(host)
      BY <1>1, <2>3, <2>4, <2>5 DEF HoldsIn
    <2>8. (HoldsIn(host)' <=> HoldsIn(host)) /\ (HoldsIn(start)' <=> HoldsIn(start))
      <3>1. (Wants <=> Wants') /\ \A name : Normalized(name)' = Normalized(name)
        BY <1>1 DEF Wants, Normalized
      <3> QED
        BY <1>1, <3>1, Zenon DEF HoldsIn
    <2>9. answer'.failed = FALSE /\ (answer'.changed <=> answer.changed)
      BY <1>1
    <2> QED
      BY <1>1, <2>5, <2>6, <2>7, <2>8, <2>9 DEF HostEnded
  <1> QED
    BY <1>1, <1>3, <1>4, EarlierStays DEF HostInv, SoFar, Clean

LEMMA MeddleStep == HostInv /\ Meddle => HostInv'
  <1> SUFFICES ASSUME HostInv, Meddle PROVE HostInv'
    OBVIOUS
  <1>1. /\ at0 \notin {"look", "end"} /\ UNCHANGED Asked1 /\ trouble' = "meddled"
        /\ kind' = kind /\ todo' = todo /\ checking' = checking /\ start' = start
        /\ earlier' = earlier /\ at0' = at0 /\ plan' = plan /\ answer' = answer
        /\ kind \in {"btrfs", "cran", "ldap"}
    BY DEF Meddle, HostInv, HostTypes, Asked1
  <1>2. "meddled" \in Troubles
    BY DEF Troubles
  <1>3. CASE kind = "btrfs"
    <2>1. PICK p \in Tree : /\ host' = [host EXCEPT ![p] = "sub"]
                            /\ ParentOf(p) \in Tree => host[ParentOf(p)] # "none"
      BY <1>3 DEF Meddle, Exists
    <2>2. host' \in Trees
      BY <1>3, <2>1, TreeGrows DEF HostInv, HostTypes
    <2> QED
      BY <1>1, <1>2, <1>3, <2>2, EarlierStays DEF HostInv, HostTypes, SoFar, Clean
  <1>4. CASE kind = "cran"
    <2>1. host' \in BOOLEAN
      BY <1>4 DEF Meddle, HostInv, HostTypes
    <2> QED
      BY <1>1, <1>2, <1>4, <2>1, EarlierStays DEF HostInv, HostTypes, SoFar, Clean
  <1>5. CASE kind = "ldap"
    <2>1. PICK v \in LdapValues : host' = [host EXCEPT !["p"] = host["p"] \union {v}]
      BY <1>5 DEF Meddle
    <2>2. host \in LdapHosts /\ v \in AllValues /\ SafePlan(plan)
      BY <1>5 DEF HostInv, HostTypes, AllValues
    <2>3. host' \in LdapHosts
      BY <2>1, <2>2 DEF LdapHosts, Attributes
    <2>4. SafePlan(plan)'
      BY <1>1, <2>2 DEF SafePlan, SafeMod
    <2> QED
      BY <1>1, <1>2, <1>5, <2>3, <2>4, EarlierStays DEF HostInv, HostTypes, SoFar, Clean
  <1> QED
    BY <1>1, <1>3, <1>4, <1>5

LEMMA RunAgainStep == HostInv /\ RunAgain => HostInv'
  <1> SUFFICES ASSUME HostInv, RunAgain PROVE HostInv'
    OBVIOUS
  <1>1. /\ at0 = "end" /\ at0' = "look" /\ start' = host /\ ~checking' /\ checking' \in BOOLEAN
        /\ plan' = <<>> /\ answer' = NoAnswer1 /\ trouble' = "none"
        /\ kind' = kind /\ host' = host /\ todo' = todo
        /\ earlier' = [done |-> TRUE, check |-> checking, answer |-> answer, trouble |-> trouble]
        /\ checking \in BOOLEAN /\ answer \in Answers /\ trouble \in Troubles
    BY DEF RunAgain, HostInv, HostTypes
  <1>2. HostTypes'
    <2>1. answer' \in Answers /\ "none" \in Troubles /\ <<>> \in Seq(Tree) /\ SafePlan(<<>>)'
      <3>1. answer' \in Answers
        BY <1>1, AnswersAre, Zenon DEF NoAnswer1
      <3> QED
        BY <3>1 DEF Troubles, SafePlan
    <2>2. earlier' \in [done : BOOLEAN, check : BOOLEAN, answer : Answers, trouble : Troubles]
      BY <1>1
    <2>3. kind = "cran" => (earlier'.check <=> FALSE)
      BY <1>1 DEF HostInv, HostTypes
    <2> QED
      BY <1>1, <2>1, <2>2, <2>3 DEF HostInv, HostTypes
  <1>3. (HoldsIn(start)' <=> HoldsIn(host))
    <2>1. (Wants <=> Wants') /\ \A name : Normalized(name)' = Normalized(name)
      BY <1>1 DEF Wants, Normalized
    <2> QED
      BY <1>1, <2>1, Zenon DEF HoldsIn
  <1>4. /\ earlier'.trouble = trouble /\ earlier'.answer = answer /\ earlier'.done
        /\ (earlier'.check <=> checking)
    BY <1>1
  <1>5. ASSUME trouble = "none", ~answer.failed
        PROVE  IF checking THEN kind # "apache2" => (answer.changed <=> ~HoldsIn(host))
               ELSE HoldsIn(host)
    BY <1>1, <1>5 DEF HostInv, SoFar, HostEnded, Clean
  <1>5a. trouble = "none" /\ checking /\ kind # "apache2" => ~answer.failed
    BY <1>1 DEF HostInv, SoFar, HostEnded, Clean
  <1>6. EarlierRun'
    BY <1>1, <1>3, <1>4, <1>5, <1>5a DEF EarlierRun, Clean
  <1> QED
    BY <1>1, <1>2, <1>6 DEF HostInv, SoFar, NoAnswer1

\* Whatever befalls them, the modules stay within the invariant.
LEMMA HostStep == HostInv /\ [HostNext]_hostVars => HostInv'
  <1> SUFFICES ASSUME HostInv, [HostNext]_hostVars PROVE HostInv'
    OBVIOUS
  <1>1. CASE Apache \/ ApacheBlind \/ ApacheFails
    BY <1>1, ApacheStep, ApacheTroubleStep
  <1>2. CASE BtrfsLook \/ BtrfsCommand \/ BtrfsFails \/ BtrfsEnd
    BY <1>2, BtrfsLookStep, BtrfsCommandStep, BtrfsFailsStep, BtrfsEndStep
  <1>3. CASE \/ kind = "cran" /\ \E seen \in {host, FALSE} : CranLook(seen) \/ CranVerify(seen)
             \/ \E works \in BOOLEAN : CranCommand(works)
             \/ CranFails
    <2>1. kind = "cran"
      BY <1>3 DEF CranCommand, CranFails
    <2> QED
      BY <1>3, <2>1, CranStep, Zenon
  <1>4. CASE LdapLook \/ LdapModify
    BY <1>4, LdapLookStep, LdapModifyStep
  <1>5. CASE Meddle \/ RunAgain
    BY <1>5, MeddleStep, RunAgainStep
  <1>6. CASE UNCHANGED hostVars
    <2>1. HostTypes'
      <3>1. SafePlan(plan)' <=> SafePlan(plan)
        BY <1>6 DEF hostVars, SafePlan, SafeMod
      <3> QED
        BY <1>6, <3>1 DEF hostVars, HostInv, HostTypes
    <2>2. UNCHANGED Asked1 /\ EarlierRun'
      BY <1>6, EarlierStays DEF hostVars, Asked1, HostInv
    <2>3. SoFar'
      <3>1. /\ kind' = kind /\ host' = host /\ todo' = todo /\ checking' = checking /\ at0' = at0
            /\ plan' = plan /\ answer' = answer /\ start' = start /\ trouble' = trouble
        BY <1>6 DEF hostVars
      <3>2. Working => Working'
        <4>1. (Wants <=> Wants') /\ \A s : (Course(s) => Course(s)')
          BY <3>1 DEF Wants, Course
        <4>2. \A s, k : Through(s, k) => Through(s, k)'
          BY <3>1, <4>1 DEF Through
        <4>3. (Modlist("p") \o Modlist("q"))' = Modlist("p") \o Modlist("q")
          BY <3>1 DEF Modlist, OneByOne, Exactly, Normalized, Missing
        <4>4. kind = "cran" => (Wants \in BOOLEAN /\ Wants' = Wants)
          BY <3>1 DEF Wants
        <4> QED
          BY <3>1, <4>1, <4>2, <4>3, <4>4 DEF Working, NoAnswer1
      <3>3. HostEnded => HostEnded'
        <4>1. (Wants <=> Wants') /\ \A name : Normalized(name)' = Normalized(name)
          BY <3>1 DEF Wants, Normalized
        <4>2. (HoldsIn(host)' <=> HoldsIn(host)) /\ (HoldsIn(start)' <=> HoldsIn(start))
          BY <3>1, <4>1, Zenon DEF HoldsIn
        <4> QED
          BY <3>1, <4>2 DEF HostEnded
      <3> QED
        BY <3>1, <3>2, <3>3 DEF HostInv, SoFar, Clean, NoAnswer1
    <2> QED
      BY <2>1, <2>2, <2>3 DEF HostInv
  <1> QED
    BY <1>1, <1>2, <1>3, <1>4, <1>5, <1>6 DEF HostNext

LEMMA HostInvPromises == HostInv => HostPromises
  <1> SUFFICES ASSUME HostInv PROVE HostPromises
    OBVIOUS
  <1>1. Finished1 /\ Clean(trouble) => HostEnded
    BY DEF HostInv, SoFar, Finished1
  <1>2. (Holds <=> HoldsIn(host)) /\ EarlierRun
    BY HostHolds DEF HostInv
  <1>3. SuccessMeansIt
    BY <1>1, <1>2 DEF SuccessMeansIt, Succeeded, HostEnded
  <1>4. SettledAfterSuccess
    BY <1>1, <1>2 DEF SettledAfterSuccess, Succeeded, HostEnded, EarlierRun
  <1>5. HostCheckTells
    <2> SUFFICES ASSUME Succeeded, kind # "apache2", earlier.done, earlier.check,
                        Clean(trouble), Clean(earlier.trouble)
                 PROVE  answer.changed = earlier.answer.changed
      BY DEF HostCheckTells
    <2>1. answer.changed <=> ~HoldsIn(start)
      BY <1>1 DEF Succeeded, HostEnded
    <2>2. earlier.answer.changed <=> ~HoldsIn(start)
      BY <1>2 DEF EarlierRun
    <2>3. answer.changed \in BOOLEAN /\ earlier.answer.changed \in BOOLEAN
      <3>1. answer \in Answers /\ earlier.answer \in Answers
        BY DEF HostInv, HostTypes
      <3> QED
        BY <3>1 DEF Answers
    <2> QED
      BY <2>1, <2>2, <2>3
  <1>6. FailedIsUntouched
    BY <1>1 DEF FailedIsUntouched, HostEnded
  <1>7. RecursionOrdered
    BY <1>1 DEF RecursionOrdered, HostEnded
  <1> QED
    BY <1>3, <1>4, <1>5, <1>6, <1>7 DEF HostPromises

\* What is promised of the modules that change a host: a success means that the
\* task is done, unless somebody meddled or R could not be asked; what was done
\* is not done again; check mode tells what will be done; a failure leaves
\* everything as it was; and what is done recursively comes to its end.
THEOREM HostsAsPromised == HostSpec => []HostPromises
  <1>1. HostInit => HostInv
    BY HostStart
  <1>2. HostInv /\ [HostNext]_hostVars => HostInv'
    BY HostStep
  <1>3. HostInv => HostPromises
    BY HostInvPromises
  <1> QED
    BY <1>1, <1>2, <1>3, PTL DEF HostSpec

-----------------------------------------------------------------------------
(* The lookups of overridden files.                                        *)

First == INSTANCE FoldProofs WITH Op <- Else

LEMMA FlattenedIs == \A q : First!FlattenSeq(q) = FlattenSeq(q)
  BY Zenon DEF FlattenSeq, First!FlattenSeq

LEMMA MinIs ==
    ASSUME NEW T \in SUBSET Nat, T # {}
    PROVE  Min(T) \in T /\ \A y \in T : Min(T) =< y
  <1>1. Min(T) = First!Min(T)
    BY Zenon DEF Min, First!Min
  <1> QED
    BY <1>1, First!HasMin, Zenon

LEMMA MaxIs ==
    ASSUME NEW n \in Nat, NEW T \in SUBSET (1..n), T # {}
    PROVE  Max(T) \in T /\ \A y \in T : Max(T) >= y
  <1>1. Max(T) = First!Max(T)
    BY Zenon DEF Max, First!Max
  <1> QED
    BY <1>1, First!HasMax, Zenon

\* The first of the first k sequences that is not empty is p, if there is one.
FirstOne(q, k, p) ==
    \/ p = <<>> /\ \A j \in 1..k : q[j] = <<>>
    \/ \E i \in 1..k : p = q[i] /\ q[i] # <<>> /\ \A j \in 1..(i - 1) : q[j] = <<>>

LEMMA FirstOfIs ==
    ASSUME NEW q, NEW n \in Nat, DOMAIN q = 1..n
    PROVE  FirstOne(q, n, FirstOf(q))
  <1>1. FirstOf(q) = First!Fold(<<>>, q)
    BY Zenon DEF FirstOf, FoldLeft, MapThenFoldSet, Max,
         First!Fold, First!FoldLeft, First!MapThenFoldSet, First!Max
  <1>2. PICK r : /\ r[0] = <<>>
                 /\ \A k \in Nat : k < n => r[k + 1] = Else(r[k], q[k + 1])
                 /\ FirstOf(q) = r[n]
    <2>1. \E r : /\ r[0] = <<>>
                 /\ \A k \in Nat : k < n => r[k + 1] = Else(r[k], q[k + 1])
                 /\ First!Fold(<<>>, q) = r[n]
      BY First!FoldRow
    <2> QED
      BY <1>1, <2>1
  <1> DEFINE T == {k \in Nat : k <= n => FirstOne(q, k, r[k])}
  <1>3. 0 \in T
    BY <1>2 DEF FirstOne
  <1>4. ASSUME NEW k \in Nat, k \in T PROVE k + 1 \in T
    <2> SUFFICES ASSUME k + 1 <= n PROVE FirstOne(q, k + 1, r[k + 1])
      OBVIOUS
    <2>1. FirstOne(q, k, r[k]) /\ r[k + 1] = IF r[k] = <<>> THEN q[k + 1] ELSE r[k]
      BY <1>2, <1>4 DEF Else
    <2>2. \A j \in 1..(k + 1) : j \in 1..k \/ j = k + 1
      OBVIOUS
    <2>3. CASE r[k] = <<>>
      <3>1. \A j \in 1..k : q[j] = <<>>
        BY <2>1, <2>3 DEF FirstOne
      <3>2. r[k + 1] = q[k + 1] /\ k + 1 \in 1..(k + 1) /\ (k + 1) - 1 = k
        BY <2>1, <2>3
      <3> QED
        BY <3>1, <3>2, <2>2 DEF FirstOne
    <2>4. CASE r[k] # <<>>
      <3>1. PICK i \in 1..k : r[k] = q[i] /\ q[i] # <<>> /\ \A j \in 1..(i - 1) : q[j] = <<>>
        BY <2>1, <2>4 DEF FirstOne
      <3>2. i \in 1..(k + 1) /\ r[k + 1] = q[i]
        BY <3>1, <2>1, <2>4
      <3> QED
        BY <3>1, <3>2, Zenon DEF FirstOne
    <2> QED
      BY <2>3, <2>4
  <1> HIDE DEF T
  <1>5. n \in T
    BY <1>3, <1>4, First!EveryNumber, Zenon
  <1> QED
    BY <1>2, <1>5 DEF T

\* Lists of places that are not the role's.
PathList(p) == p \in Seq(Range(p)) /\ \A i \in DOMAIN p : p[i] # RolePath

LEMMA EmptyList == PathList(<<>>)
  BY DEF PathList

LEMMA ResolvedIs ==
    ASSUME NEW base, base # "role", NEW o \in Seq(Directories)
    PROVE  /\ PathList(Resolved(base, o)) /\ DOMAIN Resolved(base, o) = DOMAIN o
           /\ o # <<>> => Resolved(base, o) # <<>>
  <1> DEFINE p == Resolved(base, o)
             R == {At(base, o[i]) : i \in 1..Len(o)}
  <1>1. /\ DOMAIN o = 1..Len(o) /\ Len(o) \in Nat /\ DOMAIN p = 1..Len(o)
        /\ \A i \in 1..Len(o) : p[i] = At(base, o[i])
    BY DEF Resolved
  <1>2. p = [i \in 1..Len(o) |-> At(base, o[i])]
    BY <1>1 DEF Resolved
  <1>3. \A i \in 1..Len(o) : At(base, o[i]) # RolePath
    <2> TAKE i \in 1..Len(o)
    <2>1. "absolute" # "role"
      OBVIOUS
    <2> QED
      BY <2>1 DEF At, Absolute, RolePath
  <1>4. Range(p) = R
    BY <1>1 DEF Range
  <1>5. p \in Seq(R)
    <2> HIDE DEF p
    <2>1. \A i \in 1..Len(o) : At(base, o[i]) \in R
      OBVIOUS
    <2> HIDE DEF R
    <2> QED
      BY <1>1, <1>2, <2>1
  <1>6. o # <<>> => p # <<>>
    <2> SUFFICES ASSUME o # <<>>, p = <<>> PROVE FALSE
      OBVIOUS
    <2>1. Len(o) # 0
      OBVIOUS
    <2>2. DOMAIN p = {}
      OBVIOUS
    <2> QED
      BY <1>1, <2>1, <2>2
  <1> HIDE DEF p, R
  <1>7. PathList(p)
    BY <1>1, <1>3, <1>4, <1>5 DEF PathList
  <1> QED
    BY <1>1, <1>6, <1>7 DEF p

LEMMA OptionIs ==
    ASSUME NEW file, ConfigFile(file), NEW key
    PROVE  /\ key \in DOMAIN LoadFile(file) => /\ LoadFile(file)[key] \in Seq(Directories)
                                               /\ LoadFile(file)[key] # <<>>
           /\ OptionOf(file, key) \in Seq(Directories)
           /\ OptionOf(file, key) # <<>> <=> key \in DOMAIN LoadFile(file)
  <1>1. key \in DOMAIN LoadFile(file) => /\ LoadFile(file)[key] \in Seq(Directories)
                                         /\ LoadFile(file)[key] # <<>>
    <2>1. CASE file.is = "read"
      <3>1. LoadFile(file) = file.says
        BY <2>1 DEF LoadFile
      <3> QED
        BY <3>1, Zenon DEF ConfigFile
    <2>2. CASE file.is # "read"
      <3>1. LoadFile(file) = <<>> /\ DOMAIN <<>> = {}
        BY <2>2 DEF LoadFile
      <3> QED
        BY <3>1, Zenon
    <2> QED
      BY <2>1, <2>2
  <1> QED
    BY <1>1 DEF OptionOf

LEMMA ExtractIs ==
    ASSUME NEW file, ConfigFile(file), NEW key, world.cwd # "role"
    PROVE  /\ PathList(ExtractPaths(file, key))
           /\ ExtractPaths(file, key) # <<>> <=> OptionOf(file, key) # <<>>
           /\ OptionOf(file, key) # <<>> =>
                ExtractPaths(file, key) = Resolved(world.cwd, OptionOf(file, key))
  <1>1. CASE key \in DOMAIN LoadFile(file)
    <2>1. /\ ExtractPaths(file, key) = Resolved(world.cwd, OptionOf(file, key))
          /\ OptionOf(file, key) \in Seq(Directories) /\ OptionOf(file, key) # <<>>
      BY <1>1, OptionIs DEF ExtractPaths, OptionOf
    <2> QED
      BY <2>1, ResolvedIs, Zenon
  <1>2. CASE key \notin DOMAIN LoadFile(file)
    BY <1>2, EmptyList, Zenon DEF ExtractPaths, OptionOf
  <1> QED
    BY <1>1, <1>2

LEMMA Known ==
    ASSUME world \in Worlds
    PROVE  /\ world.module \in BOOLEAN /\ world.project \in {"none", "legacy", "modern"}
           /\ ConfigDir(world.own) /\ ConfigDir(world.near) /\ world.cwd # "role"
           /\ world.global \in Seq(Range(world.global)) /\ world.role \in BOOLEAN
           /\ \A i \in DOMAIN world.global : ConfigDir(world.global[i])
  BY OverrideAssumption, Zenon

\* What the files of a directory, looked through in this order, say.
LEMMA DirPathsIs ==
    ASSUME NEW dir, ConfigDir(dir), NEW key, world.cwd # "role"
    PROVE  /\ PathList(DirPaths(dir, key))
           /\ DirPaths(dir, key) = <<>> => \A i \in DOMAIN dir : OptionOf(dir[i], key) = <<>>
           /\ DirPaths(dir, key) # <<>> =>
                \E i \in DOMAIN dir : /\ OptionOf(dir[i], key) # <<>>
                                     /\ DirPaths(dir, key) = Resolved(world.cwd, OptionOf(dir[i], key))
  <1> DEFINE q == [i \in DOMAIN dir |-> ExtractPaths(dir[i], key)]
             p == DirPaths(dir, key)
  <1>1. PICK n \in Nat : DOMAIN dir = 1..n
    BY DEF ConfigDir
  <1>2. /\ DOMAIN q = 1..n
        /\ \A i \in 1..n : ConfigFile(dir[i]) /\ q[i] = ExtractPaths(dir[i], key)
    BY <1>1 DEF ConfigDir
  <1>3. p = FirstOf(q)
    BY DEF DirPaths
  <1> HIDE DEF q, p
  <1>4. FirstOne(q, n, p)
    BY <1>2, <1>3, FirstOfIs
  <1>5. CASE p = <<>> /\ \A j \in 1..n : q[j] = <<>>
    <2>1. \A i \in 1..n : OptionOf(dir[i], key) = <<>>
      BY <1>2, <1>5, ExtractIs, Zenon
    <2> QED
      BY <1>1, <1>5, <2>1, EmptyList DEF p
  <1>6. CASE \E i \in 1..n : p = q[i] /\ q[i] # <<>>
    <2>1. PICK i \in 1..n : p = q[i] /\ q[i] # <<>>
      BY <1>6
    <2>2. /\ PathList(p) /\ OptionOf(dir[i], key) # <<>>
          /\ p = Resolved(world.cwd, OptionOf(dir[i], key))
      BY <1>2, <2>1, ExtractIs, Zenon
    <2> QED
      BY <1>1, <2>1, <2>2, Zenon DEF p
  <1> QED
    BY <1>4, <1>5, <1>6 DEF FirstOne

\* The most specific global directory that gives the option names the places.
SaidByGlobal(p, key, base) ==
    \E i \in DOMAIN world.global :
        /\ \E n \in DOMAIN world.global[i] :
              /\ OptionOf(world.global[i][n], key) # <<>>
              /\ p = Resolved(base, OptionOf(world.global[i][n], key))
        /\ \A j \in 1..(i - 1) : \A m \in DOMAIN world.global[j] :
              OptionOf(world.global[j][m], key) = <<>>

LEMMA FallbackIs ==
    ASSUME world \in Worlds, NEW key
    PROVE  LET p == LoadFallbackPaths(key)
           IN  /\ PathList(p)
               /\ p # <<>> /\ (\A i \in DOMAIN world.near : world.near[i] = NoFile) =>
                    SaidByGlobal(p, key, world.cwd)
  <1> DEFINE p == LoadFallbackPaths(key)
             dirs == [i \in DOMAIN world.global |-> DirPaths(world.global[i], key)]
             q == <<NearPaths(key)>> \o dirs
  <1>1. PICK n \in Nat : DOMAIN world.global = 1..n
    BY Known
  <1>2. /\ DOMAIN q = 1..(n + 1) /\ q[1] = NearPaths(key)
        /\ \A i \in 1..n : q[i + 1] = DirPaths(world.global[i], key)
    <2>1. dirs \in Seq(Range(dirs)) /\ Len(dirs) = n /\ DOMAIN dirs = 1..n
          /\ \A i \in 1..n : dirs[i] = DirPaths(world.global[i], key)
      BY <1>1 DEF Range
    <2> HIDE DEF dirs
    <2>2. <<NearPaths(key)>> \in Seq({NearPaths(key)})
      OBVIOUS
    <2> QED
      BY <2>1, <2>2
  <1>3. p = FirstOf(q)
    BY DEF LoadFallbackPaths
  <1> HIDE DEF q, p
  <1>4. FirstOne(q, n + 1, p)
    BY <1>2, <1>3, FirstOfIs
  <1>5. /\ PathList(NearPaths(key))
        /\ (\A i \in DOMAIN world.near : world.near[i] = NoFile) => NearPaths(key) = <<>>
    <2> DEFINE there == {i \in DOMAIN world.near : world.near[i] # NoFile}
    <2>1. CASE there = {}
      <3>1. NearPaths(key) = <<>>
        BY <2>1 DEF NearPaths
      <3> QED
        BY <3>1, EmptyList, Zenon
    <2>2. CASE there # {}
      <3>1. there \in SUBSET Nat /\ there \subseteq DOMAIN world.near
        BY Known DEF ConfigDir
      <3>2. Min(there) \in there
        BY <2>2, <3>1, MinIs, Zenon
      <3>3. ConfigFile(world.near[Min(there)]) /\ world.cwd # "role"
        BY <3>1, <3>2, Known DEF ConfigDir
      <3>4. NearPaths(key) = ExtractPaths(world.near[Min(there)], key)
        BY <2>2 DEF NearPaths
      <3>5. PathList(NearPaths(key))
        BY <3>3, <3>4, ExtractIs, Zenon
      <3> QED
        BY <2>2, <3>5
    <2> QED
      BY <2>1, <2>2
  <1>6. \A i \in 1..n : PathList(DirPaths(world.global[i], key))
    BY <1>1, Known, DirPathsIs, Zenon
  <1>7. PathList(p)
    <2>1. \A i \in 1..(n + 1) : PathList(q[i])
      <3> TAKE i \in 1..(n + 1)
      <3>1. CASE i = 1
        BY <3>1, <1>2, <1>5
      <3>2. CASE i # 1
        <4>1. i - 1 \in 1..n /\ q[(i - 1) + 1] = q[i]
          BY <3>2
        <4> QED
          BY <4>1, <1>2, <1>6
      <3> QED
        BY <3>1, <3>2
    <2> QED
      BY <1>4, <2>1, EmptyList, Zenon DEF FirstOne
  <1>8. ASSUME p # <<>>, \A i \in DOMAIN world.near : world.near[i] = NoFile
        PROVE  SaidByGlobal(p, key, world.cwd)
    <2>1. PICK k \in 1..(n + 1) : p = q[k] /\ q[k] # <<>> /\ \A j \in 1..(k - 1) : q[j] = <<>>
      BY <1>4, <1>8 DEF FirstOne
    <2>2. k # 1
      BY <2>1, <1>2, <1>5, <1>8
    <2> DEFINE i == k - 1
    <2>3. i \in 1..n /\ q[k] = DirPaths(world.global[i], key)
      <3>1. i \in 1..n /\ i + 1 = k
        BY <2>2
      <3> QED
        BY <3>1, <1>2
    <2>4. \A j \in 1..(i - 1) : j \in 1..n /\ DirPaths(world.global[j], key) = <<>>
      <3> TAKE j \in 1..(i - 1)
      <3>1. j + 1 \in 1..(k - 1) /\ j \in 1..n
        BY <2>3
      <3> QED
        BY <3>1, <2>1, <1>2
    <2> HIDE DEF i
    <2>5. \A j \in 1..(i - 1) : \A m \in DOMAIN world.global[j] :
             OptionOf(world.global[j][m], key) = <<>>
      BY <1>1, <2>4, Known, DirPathsIs, Zenon
    <2>6. \E m \in DOMAIN world.global[i] :
              /\ OptionOf(world.global[i][m], key) # <<>>
              /\ p = Resolved(world.cwd, OptionOf(world.global[i][m], key))
      <3>1. ConfigDir(world.global[i]) /\ world.cwd # "role"
        BY <1>1, <2>3, Known
      <3>2. p = DirPaths(world.global[i], key) /\ p # <<>>
        BY <2>1, <2>3
      <3> QED
        BY <3>1, <3>2, DirPathsIs, Zenon
    <2> QED
      BY <1>1, <2>3, <2>5, <2>6, Zenon DEF SaidByGlobal
  <1> QED
    BY <1>7, <1>8 DEF p

\* With the module: the last that gives the option.
LEMMA LastOfIs ==
    ASSUME NEW F, \A f \in F : ConfigFile(f), NEW c \in Seq(F), NEW key
    PROVE  /\ LastOf(c, key) = <<>> => \A i \in 1..Len(c) : OptionOf(c[i], key) = <<>>
           /\ LastOf(c, key) # <<>> =>
                \E i \in 1..Len(c) : /\ OptionOf(c[i], key) # <<>>
                                     /\ LastOf(c, key) = OptionOf(c[i], key)
                                     /\ \A j \in (i + 1)..Len(c) : OptionOf(c[j], key) = <<>>
  <1> DEFINE with == {i \in DOMAIN c : key \in DOMAIN LoadFile(c[i])}
  <1>1. /\ DOMAIN c = 1..Len(c) /\ Len(c) \in Nat /\ \A i \in 1..Len(c) : ConfigFile(c[i])
    OBVIOUS
  <1>2. \A i \in 1..Len(c) : OptionOf(c[i], key) # <<>> <=> i \in with
    <2>1. \A i \in 1..Len(c) : OptionOf(c[i], key) # <<>> <=> key \in DOMAIN LoadFile(c[i])
      BY <1>1, OptionIs, Zenon
    <2> QED
      BY <1>1, <2>1
  <1>3. CASE with = {}
    <2>1. LastOf(c, key) = <<>>
      BY <1>3 DEF LastOf
    <2> QED
      BY <1>2, <1>3, <2>1
  <1>4. CASE with # {}
    <2> DEFINE i == Max(with)
    <2>1. with \in SUBSET (1..Len(c))
      BY <1>1
    <2>2. LastOf(c, key) = LoadFile(c[i])[key]
      BY <1>4 DEF LastOf
    <2>2a. \A j \in with : key \in DOMAIN LoadFile(c[j])
      OBVIOUS
    <2> HIDE DEF with
    <2>3. i \in with /\ \A j \in with : i >= j
      BY <1>1, <1>4, <2>1, MaxIs, Zenon
    <2> HIDE DEF i
    <2>4. i \in 1..Len(c) /\ key \in DOMAIN LoadFile(c[i])
      BY <2>1, <2>2a, <2>3
    <2>5. LastOf(c, key) = OptionOf(c[i], key) /\ OptionOf(c[i], key) # <<>>
      BY <1>2, <2>2, <2>3, <2>4 DEF OptionOf
    <2>6. \A j \in (i + 1)..Len(c) : OptionOf(c[j], key) = <<>>
      <3> TAKE j \in (i + 1)..Len(c)
      <3>1. j \in 1..Len(c) /\ ~(i >= j)
        BY <2>4, <1>1
      <3> QED
        BY <3>1, <2>3, <1>2
    <2> QED
      BY <2>4, <2>5, <2>6
  <1> QED
    BY <1>3, <1>4

\* The last of several directories in a row that gives it is of the last of
\* them that does.
LastIn(q, k, p, key) ==
    \A m \in 1..Len(p) :
        /\ OptionOf(p[m], key) # <<>>
        /\ \A l \in (m + 1)..Len(p) : OptionOf(p[l], key) = <<>>
        => \E i \in 1..k : /\ \E n \in 1..Len(q[i]) : p[m] = q[i][n]
                           /\ \A j \in (i + 1)..k : \A n \in 1..Len(q[j]) : OptionOf(q[j][n], key) = <<>>

LEMMA OneMoreDir ==
    ASSUME NEW F, NEW q \in Seq(Seq(F)), NEW k \in Nat, k < Len(q), NEW p \in Seq(F), NEW key,
           LastIn(q, k, p, key)
    PROVE  LastIn(q, k + 1, p \o q[k + 1], key)
  <1> DEFINE d == q[k + 1]
             r == p \o d
  <1>1. /\ d \in Seq(F) /\ Len(d) \in Nat /\ Len(p) \in Nat /\ Len(r) = Len(p) + Len(d)
        /\ \A m \in 1..Len(p) : r[m] = p[m]
        /\ \A n \in 1..Len(d) : r[Len(p) + n] = d[n]
    OBVIOUS
  <1>2. d = q[k + 1]
    OBVIOUS
  <1> HIDE DEF d, r
  <1> SUFFICES ASSUME NEW m \in 1..Len(r), OptionOf(r[m], key) # <<>>,
                      \A l \in (m + 1)..Len(r) : OptionOf(r[l], key) = <<>>
               PROVE  \E i \in 1..(k + 1) :
                         /\ \E n \in 1..Len(q[i]) : r[m] = q[i][n]
                         /\ \A j \in (i + 1)..(k + 1) : \A n \in 1..Len(q[j]) : OptionOf(q[j][n], key) = <<>>
    BY Zenon DEF LastIn, r, d
  <1>3. CASE m \in 1..Len(p)
    <2>1. OptionOf(p[m], key) # <<>>
      BY <1>1, <1>3
    <2>2. \A l \in (m + 1)..Len(p) : OptionOf(p[l], key) = <<>>
      <3> TAKE l \in (m + 1)..Len(p)
      <3>1. l \in (m + 1)..Len(r) /\ l \in 1..Len(p)
        BY <1>1, <1>3
      <3> QED
        BY <3>1, <1>1
    <2>3. PICK i \in 1..k : /\ \E n \in 1..Len(q[i]) : p[m] = q[i][n]
                            /\ \A j \in (i + 1)..k : \A n \in 1..Len(q[j]) : OptionOf(q[j][n], key) = <<>>
      BY <1>3, <2>1, <2>2, Zenon DEF LastIn
    <2>4. \A n \in 1..Len(d) : OptionOf(d[n], key) = <<>>
      <3> TAKE n \in 1..Len(d)
      <3>1. Len(p) + n \in (m + 1)..Len(r)
        BY <1>1, <1>3
      <3> QED
        BY <3>1, <1>1
    <2>5. \A j \in (i + 1)..(k + 1) : j \in (i + 1)..k \/ j = k + 1
      OBVIOUS
    <2>6. \A j \in (i + 1)..(k + 1) : \A n \in 1..Len(q[j]) : OptionOf(q[j][n], key) = <<>>
      BY <2>3, <2>4, <2>5, <1>2, Zenon
    <2>7. i \in 1..(k + 1) /\ r[m] = p[m]
      BY <1>1, <1>3
    <2> QED
      BY <2>3, <2>6, <2>7, Zenon
  <1>4. CASE m \notin 1..Len(p)
    <2>1. m - Len(p) \in 1..Len(d) /\ Len(p) + (m - Len(p)) = m
      BY <1>1, <1>4
    <2>2. r[m] = d[m - Len(p)]
      BY <2>1, <1>1
    <2>3. k + 1 \in 1..(k + 1) /\ ((k + 1) + 1)..(k + 1) = {}
      OBVIOUS
    <2>4. \E n \in 1..Len(q[k + 1]) : r[m] = q[k + 1][n]
      BY <2>1, <2>2, <1>2, Zenon
    <2> QED
      BY <2>3, <2>4
  <1> QED
    BY <1>3, <1>4

LEMMA LastOfFlat ==
    ASSUME NEW F, NEW q \in Seq(Seq(F)), NEW key
    PROVE  /\ FlattenSeq(q) \in Seq(F)
           /\ LastIn(q, Len(q), FlattenSeq(q), key)
  <1>1. PICK r : /\ r[0] = <<>>
                 /\ \A k \in Nat : k < Len(q) => r[k + 1] = r[k] \o q[k + 1]
                 /\ FlattenSeq(q) = r[Len(q)]
    <2>1. \E r : /\ r[0] = <<>>
                 /\ \A k \in Nat : k < Len(q) => r[k + 1] = r[k] \o q[k + 1]
                 /\ First!FlattenSeq(q) = r[Len(q)]
      BY First!FlatRow, Zenon
    <2> QED
      BY <2>1, FlattenedIs, Zenon
  <1> DEFINE T == {k \in Nat : k <= Len(q) => r[k] \in Seq(F) /\ LastIn(q, k, r[k], key)}
  <1>2. 0 \in T
    <2>1. r[0] \in Seq(F) /\ Len(r[0]) = 0
      BY <1>1
    <2> QED
      BY <2>1 DEF LastIn
  <1>3. ASSUME NEW k \in Nat, k \in T PROVE k + 1 \in T
    <2> SUFFICES ASSUME k + 1 <= Len(q)
                 PROVE  r[k + 1] \in Seq(F) /\ LastIn(q, k + 1, r[k + 1], key)
      OBVIOUS
    <2>0. k < Len(q) /\ k <= Len(q) /\ q[k + 1] \in Seq(F)
      OBVIOUS
    <2>1. r[k] \in Seq(F) /\ LastIn(q, k, r[k], key)
      BY <1>3, <2>0
    <2>2. r[k + 1] = r[k] \o q[k + 1]
      BY <1>1, <2>0
    <2>3. r[k] \o q[k + 1] \in Seq(F)
      BY <2>0, <2>1, ConcatProperties
    <2>4. LastIn(q, k + 1, r[k] \o q[k + 1], key)
      BY <2>0, <2>1, OneMoreDir, Zenon
    <2> QED
      BY <2>2, <2>3, <2>4
  <1>4. Len(q) \in Nat /\ Len(q) <= Len(q)
    OBVIOUS
  <1> HIDE DEF T
  <1>5. Len(q) \in T
    BY <1>2, <1>3, <1>4, First!EveryNumber, Zenon
  <1> QED
    BY <1>1, <1>4, <1>5 DEF T

FilesOf == Range(world.own) \union UNION {Range(world.global[i]) : i \in DOMAIN world.global}

LEMMA FilesAre ==
    ASSUME world \in Worlds
    PROVE  /\ \A f \in FilesOf : ConfigFile(f)
           /\ world.own \in Seq(FilesOf) /\ world.global \in Seq(Seq(FilesOf))
  <1>1. /\ ConfigDir(world.own) /\ world.global \in Seq(Range(world.global))
        /\ \A i \in DOMAIN world.global : ConfigDir(world.global[i])
    BY Known
  <1>2. \A f \in FilesOf : ConfigFile(f)
    BY <1>1 DEF FilesOf, ConfigDir, Range
  <1>3. world.own \in Seq(FilesOf)
    <2>1. PICK S : S = FilesOf
      OBVIOUS
    <2>2. Range(world.own) \subseteq S
      BY <2>1 DEF FilesOf
    <2>3. world.own \in Seq(Range(world.own))
      BY <1>1 DEF ConfigDir
    <2> QED
      BY <2>1, <2>2, <2>3
  <1>4. \A i \in DOMAIN world.global : world.global[i] \in Seq(FilesOf)
    <2> TAKE i \in DOMAIN world.global
    <2>1. PICK S : S = FilesOf
      OBVIOUS
    <2>2. Range(world.global[i]) \subseteq S
      BY <2>1 DEF FilesOf
    <2>3. world.global[i] \in Seq(Range(world.global[i]))
      BY <1>1 DEF ConfigDir
    <2> QED
      BY <2>1, <2>2, <2>3
  <1>5. world.global \in Seq(Seq(FilesOf))
    BY <1>1, <1>4
  <1> QED
    BY <1>2, <1>3, <1>5

\* The directories in the opposite order.
LEMMA Backwards ==
    ASSUME NEW S, NEW s \in Seq(S)
    PROVE  /\ Reverse(s) \in Seq(S) /\ Len(Reverse(s)) = Len(s)
           /\ \A i \in 1..Len(s) : Reverse(s)[i] = s[(Len(s) - i) + 1]
  BY DEF Reverse

\* The last of the files before the project's.
LEMMA LastBefore ==
    ASSUME NEW F, \A f \in F : ConfigFile(f), NEW pre \in Seq(F), NEW own \in Seq(F), NEW key
    PROVE  LET c == pre \o own
           IN  /\ c \in Seq(F)
               /\ (\E i \in 1..Len(own) : OptionOf(own[i], key) # <<>>) =>
                    \E i \in 1..Len(own) : /\ OptionOf(own[i], key) # <<>>
                                           /\ LastOf(c, key) = OptionOf(own[i], key)
               /\ (\A i \in 1..Len(own) : OptionOf(own[i], key) = <<>>) /\ LastOf(c, key) # <<>> =>
                    \E i \in 1..Len(pre) : /\ OptionOf(pre[i], key) # <<>>
                                           /\ LastOf(c, key) = OptionOf(pre[i], key)
                                           /\ \A j \in (i + 1)..Len(pre) : OptionOf(pre[j], key) = <<>>
  <1> DEFINE c == pre \o own
  <1>1. /\ c \in Seq(F) /\ Len(pre) \in Nat /\ Len(own) \in Nat /\ Len(c) = Len(pre) + Len(own)
        /\ \A i \in 1..Len(pre) : c[i] = pre[i]
        /\ \A i \in 1..Len(own) : c[Len(pre) + i] = own[i]
    BY ConcatProperties
  <1> HIDE DEF c
  <1> DEFINE v == LastOf(c, key)
  <1>2. /\ v = <<>> => \A i \in 1..Len(c) : OptionOf(c[i], key) = <<>>
        /\ v # <<>> =>
             \E i \in 1..Len(c) : /\ OptionOf(c[i], key) # <<>>
                                  /\ v = OptionOf(c[i], key)
                                  /\ \A j \in (i + 1)..Len(c) : OptionOf(c[j], key) = <<>>
    BY <1>1, LastOfIs, Zenon
  <1> HIDE DEF v
  <1>3. ASSUME NEW i \in 1..Len(own), OptionOf(own[i], key) # <<>>
        PROVE  \E n \in 1..Len(own) : OptionOf(own[n], key) # <<>> /\ v = OptionOf(own[n], key)
    <2>1. Len(pre) + i \in 1..Len(c) /\ OptionOf(c[Len(pre) + i], key) # <<>>
      BY <1>1, <1>3
    <2>2. PICK m \in 1..Len(c) : /\ OptionOf(c[m], key) # <<>> /\ v = OptionOf(c[m], key)
                                 /\ \A j \in (m + 1)..Len(c) : OptionOf(c[j], key) = <<>>
      BY <1>2, <2>1
    <2>3. Len(pre) + i \notin (m + 1)..Len(c)
      BY <2>1, <2>2
    <2>4. m - Len(pre) \in 1..Len(own) /\ Len(pre) + (m - Len(pre)) = m
      BY <2>1, <2>3, <1>1
    <2>5. c[m] = own[m - Len(pre)]
      BY <2>4, <1>1
    <2> QED
      BY <2>2, <2>4, <2>5
  <1>4. ASSUME \A i \in 1..Len(own) : OptionOf(own[i], key) = <<>>, v # <<>>
        PROVE  \E i \in 1..Len(pre) : /\ OptionOf(pre[i], key) # <<>> /\ v = OptionOf(pre[i], key)
                                      /\ \A j \in (i + 1)..Len(pre) : OptionOf(pre[j], key) = <<>>
    <2>1. PICK m \in 1..Len(c) : /\ OptionOf(c[m], key) # <<>> /\ v = OptionOf(c[m], key)
                                 /\ \A j \in (m + 1)..Len(c) : OptionOf(c[j], key) = <<>>
      BY <1>2, <1>4
    <2>2. m \in 1..Len(pre)
      <3> SUFFICES ASSUME m \notin 1..Len(pre) PROVE FALSE
        OBVIOUS
      <3>1. m - Len(pre) \in 1..Len(own) /\ Len(pre) + (m - Len(pre)) = m
        BY <1>1
      <3>2. c[m] = own[m - Len(pre)]
        BY <3>1, <1>1
      <3> QED
        BY <3>1, <3>2, <2>1, <1>4
    <2>3. \A j \in (m + 1)..Len(pre) : j \in (m + 1)..Len(c) /\ j \in 1..Len(pre)
      BY <1>1, <2>2
    <2>4. \A j \in (m + 1)..Len(pre) : OptionOf(pre[j], key) = <<>>
      BY <2>1, <2>3, <1>1
    <2>5. c[m] = pre[m]
      BY <1>1, <2>2
    <2> QED
      BY <2>1, <2>2, <2>4, <2>5
  <1> QED
    BY <1>1, <1>3, <1>4, Zenon DEF v, c

LEMMA ConfiguredIs ==
    ASSUME world \in Worlds, NEW key
    PROVE  LET p == Configured(key)
           IN  /\ PathList(p)
               /\ p # <<>> /\ (\A i \in 1..Len(world.own) : OptionOf(world.own[i], key) = <<>>) =>
                    SaidByGlobal(p, key, "project")
               /\ /\ world.module /\ world.project # "none"
                  /\ \E i \in 1..Len(world.own) : OptionOf(world.own[i], key) # <<>>
                  => \E i \in 1..Len(world.own) :
                        /\ OptionOf(world.own[i], key) # <<>>
                        /\ p = Resolved("project", OptionOf(world.own[i], key))
  <1> DEFINE p == Configured(key)
             own == world.own
             q == Reverse(world.global)
             pre == IF world.project = "modern" THEN FlattenSeq(q) ELSE <<>>
             v == LastOf(pre \o own, key)
  <1>1. CASE ~world.module \/ world.project = "none"
    <2>1. p = <<>>
      BY <1>1, Zenon DEF Configured
    <2> QED
      BY <1>1, <2>1, EmptyList
  <1>2. CASE world.module /\ world.project # "none"
    <2>1. p = Resolved("project", v)
      BY <1>2, Zenon DEF Configured
    <2> DEFINE F == FilesOf
    <2>2. /\ \A f \in F : ConfigFile(f)
          /\ own \in Seq(F) /\ world.global \in Seq(Seq(F))
      BY FilesAre, Zenon
    <2> HIDE DEF F
    <2>3. /\ q \in Seq(Seq(F)) /\ Len(q) = Len(world.global)
          /\ \A i \in 1..Len(world.global) : q[i] = world.global[(Len(world.global) - i) + 1]
      BY <2>2, Backwards, Zenon
    <2> HIDE DEF q, own
    <2>4. /\ FlattenSeq(q) \in Seq(F) /\ LastIn(q, Len(q), FlattenSeq(q), key)
      BY <2>3, LastOfFlat, Zenon
    <2>5. pre \in Seq(F) /\ LastIn(q, Len(q), pre, key)
      <3>1. CASE world.project = "modern"
        BY <3>1, <2>4, Zenon
      <3>2. CASE world.project # "modern"
        <4>1. pre = <<>>
          BY <3>2
        <4>2. <<>> \in Seq(F) /\ LastIn(q, Len(q), <<>>, key)
          BY DEF LastIn
        <4> QED
          BY <4>1, <4>2, Zenon
      <3> QED
        BY <3>1, <3>2
    <2> HIDE DEF pre
    <2>6. /\ pre \o own \in Seq(F)
          /\ (\E i \in 1..Len(own) : OptionOf(own[i], key) # <<>>) =>
               \E i \in 1..Len(own) : OptionOf(own[i], key) # <<>> /\ v = OptionOf(own[i], key)
          /\ (\A i \in 1..Len(own) : OptionOf(own[i], key) = <<>>) /\ v # <<>> =>
               \E i \in 1..Len(pre) : /\ OptionOf(pre[i], key) # <<>>
                                      /\ v = OptionOf(pre[i], key)
                                      /\ \A j \in (i + 1)..Len(pre) : OptionOf(pre[j], key) = <<>>
      <3>1. \A f \in F : ConfigFile(f)
        BY <2>2
      <3>2. own \in Seq(F) /\ pre \in Seq(F)
        BY <2>2, <2>5
      <3> QED
        BY <3>1, <3>2, LastBefore
    <2>7. v = <<>> \/ \E f \in F : v = OptionOf(f, key)
      <3>1. PICK c : c = pre \o own
        OBVIOUS
      <3>2. c \in Seq(F) /\ \A i \in 1..Len(c) : c[i] \in F
        BY <2>6, <3>1
      <3>3. v = <<>> \/ \E i \in 1..Len(c) : v = OptionOf(c[i], key)
        BY <2>2, <3>1, <3>2, LastOfIs, Zenon
      <3> QED
        BY <3>2, <3>3, Zenon
    <2> HIDE DEF v
    <2>8. v \in Seq(Directories)
      <3>1. <<>> \in Seq(Directories)
        OBVIOUS
      <3> QED
        BY <2>2, <2>7, <3>1, OptionIs, Zenon
    <2>9. PathList(p)
      <3>1. "project" # "role"
        OBVIOUS
      <3> QED
        BY <2>1, <2>8, <3>1, ResolvedIs, Zenon
    <2>10. ASSUME p # <<>>, \A i \in 1..Len(own) : OptionOf(own[i], key) = <<>>
           PROVE  SaidByGlobal(p, key, "project")
      <3>1. v # <<>>
        <4> SUFFICES ASSUME v = <<>> PROVE p = <<>>
          BY <2>10
        <4>1. Resolved("project", <<>>) = <<>>
          BY DEF Resolved
        <4> QED
          BY <2>1, <4>1, Zenon
      <3>2. PICK m \in 1..Len(pre) : /\ OptionOf(pre[m], key) # <<>>
                                    /\ v = OptionOf(pre[m], key)
                                    /\ \A j \in (m + 1)..Len(pre) : OptionOf(pre[j], key) = <<>>
        BY <2>6, <2>10, <3>1, Zenon
      <3>3. PICK i \in 1..Len(q) :
               /\ \E n \in 1..Len(q[i]) : pre[m] = q[i][n]
               /\ \A j \in (i + 1)..Len(q) : \A n \in 1..Len(q[j]) : OptionOf(q[j][n], key) = <<>>
        BY <2>5, <3>2, Zenon DEF LastIn
      <3>4. PICK n \in 1..Len(q[i]) : pre[m] = q[i][n]
        BY <3>3
      <3> DEFINE g == (Len(world.global) - i) + 1
      <3>5. g \in DOMAIN world.global /\ q[i] = world.global[g] /\ Len(world.global) \in Nat
        BY <2>2, <2>3
      <3>6. n \in DOMAIN world.global[g] /\ pre[m] = world.global[g][n]
        BY <2>3, <3>4, <3>5
      <3>7. \A j \in 1..(g - 1) : \A x \in DOMAIN world.global[j] :
               OptionOf(world.global[j][x], key) = <<>>
        <4> TAKE j \in 1..(g - 1)
        <4> DEFINE k == (Len(world.global) - j) + 1
        <4>1. /\ k \in (i + 1)..Len(q) /\ k \in 1..Len(world.global)
              /\ (Len(world.global) - k) + 1 = j
          <5> DEFINE N == Len(world.global)
          <5>1. N \in Nat /\ Len(q) = N /\ i \in 1..N /\ j \in 1..(((N - i) + 1) - 1)
            BY <2>3, <3>5
          <5> HIDE DEF N
          <5>2. (N - j) + 1 \in (i + 1)..N /\ (N - j) + 1 \in 1..N /\ (N - ((N - j) + 1)) + 1 = j
            BY <5>1
          <5> QED
            BY <5>1, <5>2, Zenon DEF N
        <4> HIDE DEF k, g
        <4>2. q[k] = world.global[j]
          BY <4>1, <2>3
        <4>3. q[k] \in Seq(F)
          BY <4>1, <2>3
        <4>4. DOMAIN world.global[j] = 1..Len(q[k])
          BY <4>2, <4>3
        <4> QED
          BY <3>3, <4>1, <4>2, <4>4, Zenon
      <3> HIDE DEF g
      <3>8. p = Resolved("project", OptionOf(world.global[g][n], key))
        BY <2>1, <3>2, <3>6, Zenon
      <3>9. OptionOf(world.global[g][n], key) # <<>>
        BY <3>2, <3>6, Zenon
      <3> QED
        BY <3>5, <3>6, <3>7, <3>8, <3>9, Zenon DEF SaidByGlobal
    <2> QED
      BY <2>1, <2>6, <2>9, <2>10, Zenon DEF p, own
  <1>3. world.module \in BOOLEAN
    BY Known
  <1> QED
    BY <1>1, <1>2, <1>3

\* The places of the option, as the configuration or the plugin itself has it.
PlacesSaid == FirstOf(<<Configured(KeyOf[lookup]), LoadFallbackPaths(KeyOf[lookup])>>)
OverrideAnswers == [term : STRING, place : Range(PlacesSaid) \union {RolePath}]

\* The role's path is only ever put behind them.
Grown ==
    /\ places \in Seq(Range(PlacesSaid) \union {RolePath}) /\ Len(PlacesSaid) <= Len(places)
    /\ \A i \in 1..Len(PlacesSaid) : places[i] = PlacesSaid[i]
    /\ \A i \in (Len(PlacesSaid) + 1)..Len(places) : places[i] = RolePath /\ world.role
\* An answer is the first of the places, or else the role's.
Nearest(a) ==
    IF a.place = RolePath
    THEN world.role /\ \A n \in 1..Len(PlacesSaid) : <<PlacesSaid[n], a.term>> \notin world.holds
    ELSE \E n \in 1..Len(PlacesSaid) :
             /\ PlacesSaid[n] = a.place /\ <<PlacesSaid[n], a.term>> \in world.holds
             /\ \A m \in 1..(n - 1) : <<PlacesSaid[m], a.term>> \notin world.holds
OverrideInv ==
    /\ world \in Worlds /\ lookup \in {"file_src", "template_src", "task_src"}
    /\ terms \in Seq(STRING) /\ ret \in Seq(OverrideAnswers)
    /\ \/ asks \in {"config", "crashed"} /\ places = <<>> /\ ret = <<>>
       \/ asks \in {"terms", "failed"} /\ Grown /\ \A i \in 1..Len(ret) : Nearest(ret[i])

LEMMA PlacesSaidAre ==
    ASSUME world \in Worlds
    PROVE  /\ PathList(PlacesSaid)
           /\ PlacesSaid \in {Configured(KeyOf[lookup]), LoadFallbackPaths(KeyOf[lookup])}
           /\ Configured(KeyOf[lookup]) # <<>> => PlacesSaid = Configured(KeyOf[lookup])
  <1> DEFINE c == Configured(KeyOf[lookup])
             f == LoadFallbackPaths(KeyOf[lookup])
  <1>1. PathList(c) /\ PathList(f)
    BY ConfiguredIs, FallbackIs
  <1> HIDE DEF c, f
  <1> DEFINE q == <<c, f>>
  <1>2. DOMAIN q = 1..2 /\ q[1] = c /\ q[2] = f
    OBVIOUS
  <1> HIDE DEF q
  <1>3. FirstOne(q, 2, FirstOf(q))
    BY <1>2, FirstOfIs
  <1>4. PlacesSaid = FirstOf(q)
    BY DEF PlacesSaid, q, c, f
  <1>5. PlacesSaid = IF c # <<>> THEN c ELSE f
    <2>1. CASE PlacesSaid = <<>> /\ \A j \in 1..2 : q[j] = <<>>
      <3>1. 1 \in 1..2 /\ 2 \in 1..2
        OBVIOUS
      <3> QED
        BY <2>1, <3>1, <1>2, Zenon
    <2>2. ASSUME NEW i \in 1..2, PlacesSaid = q[i], q[i] # <<>>, \A j \in 1..(i - 1) : q[j] = <<>>
          PROVE  PlacesSaid = IF c # <<>> THEN c ELSE f
      <3>1. CASE i = 1
        BY <3>1, <2>2, <1>2
      <3>2. CASE i = 2
        <4>1. 1 \in 1..(2 - 1)
          OBVIOUS
        <4> QED
          BY <3>2, <4>1, <2>2, <1>2
      <3> QED
        BY <3>1, <3>2
    <2> QED
      BY <1>3, <1>4, <2>1, <2>2, Zenon DEF FirstOne
  <1> QED
    BY <1>1, <1>5 DEF c, f

LEMMA OverrideStart == OverrideInit => OverrideInv
  <1> SUFFICES ASSUME OverrideInit PROVE OverrideInv
    OBVIOUS
  <1>1. terms \in Seq(STRING)
    BY OverrideAssumption DEF OverrideInit
  <1>2. <<>> \in Seq(OverrideAnswers)
    OBVIOUS
  <1> QED
    BY <1>1, <1>2 DEF OverrideInit, OverrideInv

\* Nothing that the lookups read changes while they are at work.
LEMMA KnownStays == UNCHANGED <<world, lookup>> => UNCHANGED PlacesSaid
  <1> SUFFICES ASSUME UNCHANGED <<world, lookup>> PROVE UNCHANGED PlacesSaid
    OBVIOUS
  <1>1. world' = world /\ KeyOf[lookup]' = KeyOf[lookup]
    BY Zenon DEF KeyOf
  <1> QED
    BY <1>1, Zenon DEF PlacesSaid, Configured, LoadFallbackPaths, NearPaths, DirPaths, ExtractPaths

LEMMA LookupStep ==
    ASSUME OverrideInv, Lookup(KeyOf[lookup])
    PROVE  OverrideInv'
  <1>1. /\ world' = world /\ lookup' = lookup /\ terms' = terms /\ ret' = ret /\ ret = <<>>
        /\ places' = PlacesSaid /\ asks' = "terms"
    BY DEF OverrideInv, Lookup, PlacesSaid
  <1>2. PlacesSaid' = PlacesSaid
    BY <1>1, KnownStays
  <1>3. PlacesSaid \in Seq(Range(PlacesSaid))
    BY PlacesSaidAre DEF OverrideInv, PathList
  <1>4. Grown'
    <2> DEFINE k == PlacesSaid
               R == Range(PlacesSaid)
    <2>1. k \in Seq(R) /\ places' = k /\ PlacesSaid' = k /\ Range(PlacesSaid)' = R
      BY <1>1, <1>2, <1>3
    <2> HIDE DEF k, R
    <2>2. /\ k \in Seq(R \union {RolePath}) /\ Len(k) <= Len(k)
          /\ \A i \in (Len(k) + 1)..Len(k) : FALSE
      BY <2>1
    <2> QED
      BY <2>1, <2>2 DEF Grown
  <1>5. \A i \in 1..Len(ret') : Nearest(ret[i])'
    BY <1>1
  <1>6. ret' \in Seq(OverrideAnswers')
    BY <1>1
  <1> QED
    BY <1>1, <1>4, <1>5, <1>6 DEF OverrideInv

\* The first place that has a file of this name.
LEMMA FirstInIs ==
    ASSUME NEW paths, DOMAIN paths \subseteq Nat, NEW term, FirstIn(paths, term) # NoPlace
    PROVE  \E n \in DOMAIN paths :
              /\ FirstIn(paths, term) = paths[n] /\ <<paths[n], term>> \in world.holds
              /\ \A m \in DOMAIN paths : m < n => <<paths[m], term>> \notin world.holds
  <1> DEFINE here == {n \in DOMAIN paths : <<paths[n], term>> \in world.holds}
  <1>1. here # {} /\ FirstIn(paths, term) = paths[Min(here)]
    BY DEF FirstIn
  <1>2. here \in SUBSET Nat
    OBVIOUS
  <1>3. \A n \in DOMAIN paths : n \in here <=> <<paths[n], term>> \in world.holds
    OBVIOUS
  <1>4. here \subseteq DOMAIN paths
    OBVIOUS
  <1> HIDE DEF here
  <1>5. Min(here) \in here /\ \A y \in here : Min(here) =< y
    BY <1>1, <1>2, MinIs, Zenon
  <1> DEFINE n == Min(here)
  <1> HIDE DEF n
  <1>6. n \in here /\ n \in Nat /\ FirstIn(paths, term) = paths[n] /\ \A y \in here : n =< y
    BY <1>1, <1>2, <1>5 DEF n
  <1>7. \A m \in DOMAIN paths : m < n => <<paths[m], term>> \notin world.holds
    BY <1>3, <1>6
  <1> QED
    BY <1>3, <1>4, <1>6, <1>7

LEMMA SearchedIs ==
    ASSUME world \in Worlds, Grown
    PROVE  /\ Searched \in Seq(Range(PlacesSaid) \union {RolePath}) /\ Len(PlacesSaid) \in Nat
           /\ Len(PlacesSaid) <= Len(Searched) /\ PathList(PlacesSaid)
           /\ \A i \in 1..Len(PlacesSaid) : Searched[i] = PlacesSaid[i] /\ PlacesSaid[i] # RolePath
           /\ \A i \in (Len(PlacesSaid) + 1)..Len(Searched) : Searched[i] = RolePath /\ world.role
           /\ world.role => RolePath \in Range(Searched)
  <1> DEFINE S == Range(PlacesSaid) \union {RolePath}
             k == Len(PlacesSaid)
  <1>1. /\ places \in Seq(S) /\ k <= Len(places)
        /\ \A i \in 1..k : places[i] = PlacesSaid[i]
        /\ \A i \in (k + 1)..Len(places) : places[i] = RolePath /\ world.role
    BY DEF Grown
  <1>2. PathList(PlacesSaid)
    BY PlacesSaidAre
  <1>3. k \in Nat /\ \A i \in 1..k : PlacesSaid[i] # RolePath
    BY <1>2 DEF PathList
  <1>4. RolePath \in S
    OBVIOUS
  <1> HIDE DEF k, S
  <1>5. /\ Searched \in Seq(S) /\ k <= Len(Searched)
        /\ \A i \in 1..k : Searched[i] = PlacesSaid[i]
        /\ \A i \in (k + 1)..Len(Searched) : Searched[i] = RolePath /\ world.role
        /\ world.role => Len(Searched) \in DOMAIN Searched /\ Searched[Len(Searched)] = RolePath
    <2>1. CASE world.role
      <3>1. Searched = Append(places, RolePath)
        BY <2>1 DEF Searched
      <3>2. /\ Searched \in Seq(S) /\ Len(Searched) = Len(places) + 1 /\ Len(places) \in Nat
            /\ \A i \in 1..Len(places) : Searched[i] = places[i]
            /\ Searched[Len(places) + 1] = RolePath
        BY <1>1, <1>4, <3>1
      <3>3. \A i \in 1..k : i \in 1..Len(places)
        BY <1>1, <1>3, <3>2
      <3>4. \A i \in (k + 1)..Len(Searched) : Searched[i] = RolePath
        <4> TAKE i \in (k + 1)..Len(Searched)
        <4>1. i = Len(places) + 1 \/ (i \in (k + 1)..Len(places) /\ i \in 1..Len(places))
          BY <1>3, <3>2
        <4> QED
          BY <4>1, <3>2, <1>1
      <3>5. k <= Len(Searched) /\ Len(Searched) \in DOMAIN Searched
        BY <1>1, <1>3, <3>2
      <3>6. \A i \in 1..k : Searched[i] = PlacesSaid[i]
        BY <1>1, <3>2, <3>3
      <3> QED
        BY <2>1, <3>2, <3>4, <3>5, <3>6
    <2>2. CASE ~world.role
      <3>1. Searched = places
        BY <2>2 DEF Searched
      <3> QED
        BY <1>1, <2>2, <3>1
    <2> QED
      BY <2>1, <2>2
  <1>6. world.role => RolePath \in Range(Searched)
    BY <1>5 DEF Range
  <1> QED
    BY <1>2, <1>3, <1>5, <1>6 DEF k, S

LEMMA TermStep ==
    ASSUME OverrideInv, Term
    PROVE  OverrideInv'
  <1>1. /\ world' = world /\ lookup' = lookup /\ world \in Worlds /\ Grown /\ asks = "terms"
        /\ terms \in Seq(STRING) /\ terms # <<>> /\ places' = Searched /\ ret \in Seq(OverrideAnswers)
        /\ \A i \in 1..Len(ret) : Nearest(ret[i])
    BY DEF OverrideInv, Term
  <1>2. UNCHANGED PlacesSaid
    BY <1>1, KnownStays
  <1>3. /\ Searched \in Seq(Range(PlacesSaid) \union {RolePath}) /\ Len(PlacesSaid) \in Nat
        /\ Len(PlacesSaid) <= Len(Searched)
        /\ \A i \in 1..Len(PlacesSaid) : Searched[i] = PlacesSaid[i] /\ PlacesSaid[i] # RolePath
        /\ \A i \in (Len(PlacesSaid) + 1)..Len(Searched) : Searched[i] = RolePath /\ world.role
    BY <1>1, SearchedIs
  <1>4. Grown'
    <2>1. Range(PlacesSaid)' = Range(PlacesSaid)
      BY <1>2 DEF Range
    <2> QED
      BY <1>1, <1>2, <1>3, <2>1 DEF Grown
  <1>6. OverrideAnswers' = OverrideAnswers
    BY <1>2 DEF OverrideAnswers, Range
  <1> DEFINE t == Head(terms)
             a == [term |-> t, place |-> PlaceOf(t)]
  <1>7. CASE PlaceOf(t) = NoPlace
    <2>1. asks' = "failed" /\ terms' = terms /\ ret' = ret
      BY <1>7 DEF Term
    <2>2. \A i \in 1..Len(ret') : Nearest(ret[i])'
      BY <1>1, <1>2, <2>1 DEF Nearest
    <2> QED
      BY <1>1, <1>4, <1>6, <2>1, <2>2 DEF OverrideInv
  <1>8. CASE PlaceOf(t) # NoPlace
    <2>1. asks' = asks /\ terms' = Tail(terms) /\ ret' = Append(ret, a)
      BY <1>8 DEF Term
    <2>2. t \in STRING /\ Tail(terms) \in Seq(STRING)
      BY <1>1
    <2> HIDE DEF t
    <2>3. DOMAIN Searched = 1..Len(Searched) /\ Len(Searched) \in Nat
      BY <1>3
    <2>4. FirstIn(Searched, t) # NoPlace /\ DOMAIN Searched \subseteq Nat
      BY <1>8, <2>3 DEF PlaceOf
    <2>5. PICK n \in DOMAIN Searched :
             /\ FirstIn(Searched, t) = Searched[n] /\ <<Searched[n], t>> \in world.holds
             /\ \A m \in DOMAIN Searched : m < n => <<Searched[m], t>> \notin world.holds
      BY <2>4, FirstInIs, Zenon
    <2>6. a.term = t /\ a.place = Searched[n] /\ Searched[n] \in Range(PlacesSaid) \union {RolePath}
      BY <1>3, <2>5, <2>3 DEF PlaceOf
    <2>7. a \in OverrideAnswers
      <3>1. PlaceOf(t) \in Range(PlacesSaid) \union {RolePath}
        BY <2>5, <2>6 DEF PlaceOf
      <3> QED
        BY <2>2, <3>1 DEF OverrideAnswers
    <2> HIDE DEF a
    <2>8. Nearest(a)
      <3>1. CASE n \in 1..Len(PlacesSaid)
        <4>1. Searched[n] = PlacesSaid[n] /\ PlacesSaid[n] # RolePath
          BY <1>3, <3>1
        <4>2. \A m \in 1..(n - 1) : <<PlacesSaid[m], t>> \notin world.holds
          <5> TAKE m \in 1..(n - 1)
          <5>1. m \in DOMAIN Searched /\ m < n /\ m \in 1..Len(PlacesSaid)
            BY <1>3, <2>3, <3>1
          <5> QED
            BY <5>1, <2>5, <1>3
        <4> QED
          BY <3>1, <4>1, <4>2, <2>5, <2>6, Zenon DEF Nearest
      <3>2. CASE n \notin 1..Len(PlacesSaid)
        <4>1. n \in (Len(PlacesSaid) + 1)..Len(Searched)
          BY <1>3, <2>3, <3>2
        <4>2. Searched[n] = RolePath /\ world.role
          BY <1>3, <4>1
        <4>3. \A m \in 1..Len(PlacesSaid) : <<PlacesSaid[m], t>> \notin world.holds
          <5> TAKE m \in 1..Len(PlacesSaid)
          <5>1. m \in DOMAIN Searched /\ m < n
            BY <1>3, <2>3, <4>1
          <5> QED
            BY <5>1, <2>5, <1>3
        <4> QED
          BY <4>2, <4>3, <2>6, Zenon DEF Nearest
      <3> QED
        BY <3>1, <3>2
    <2>9. ret' \in Seq(OverrideAnswers)
      BY <1>1, <2>1, <2>7
    <2>10. \A i \in 1..Len(ret') : Nearest(ret'[i])
      <3> TAKE i \in 1..Len(ret')
      <3>1. (i \in 1..Len(ret) /\ ret'[i] = ret[i]) \/ ret'[i] = a
        BY <1>1, <2>1, <2>7
      <3> QED
        BY <3>1, <1>1, <2>8, Zenon
    <2>11. \A i \in 1..Len(ret') : Nearest(ret[i])'
      BY <1>1, <1>2, <2>10, Zenon DEF Nearest
    <2> QED
      BY <1>1, <1>4, <1>6, <2>1, <2>2, <2>9, <2>11 DEF OverrideInv, t
  <1> QED
    BY <1>7, <1>8

LEMMA OverrideStep == OverrideInv /\ [OverrideNext]_overrideVars => OverrideInv'
  <1> SUFFICES ASSUME OverrideInv, [OverrideNext]_overrideVars PROVE OverrideInv'
    OBVIOUS
  <1>1. CASE OverrideNext
    <2>1. Lookup(KeyOf[lookup]) \/ LookupCrashes(KeyOf[lookup]) \/ Term
      BY <1>1 DEF OverrideNext, FileSrc, TemplateSrc, TaskSrc, Plugin, KeyOf
    <2>2. ASSUME LookupCrashes(KeyOf[lookup]) PROVE OverrideInv'
      <3>1. /\ world' = world /\ lookup' = lookup /\ terms' = terms /\ places' = places
            /\ ret' = ret /\ asks = "config" /\ asks' = "crashed"
        BY <2>2 DEF LookupCrashes
      <3>2. UNCHANGED PlacesSaid
        BY <3>1, KnownStays
      <3> QED
        BY <3>1, <3>2 DEF OverrideInv, OverrideAnswers, Range
    <2> QED
      BY <2>1, <2>2, LookupStep, TermStep
  <1>2. CASE UNCHANGED overrideVars
    <2>1. UNCHANGED PlacesSaid
      BY <1>2, KnownStays DEF overrideVars
    <2> QED
      BY <1>2, <2>1 DEF OverrideInv, overrideVars, Grown, Nearest, OverrideAnswers, Range
  <1> QED
    BY <1>1, <1>2

\* The places are what was found and the role's behind it.
LEMMA PlacesAre ==
    ASSUME OverrideInv, asks \notin {"config", "crashed"}
    PROVE  /\ PathList(PlacesSaid) /\ Len(PlacesSaid) \in Nat /\ Len(places) \in Nat /\ Len(PlacesSaid) <= Len(places)
           /\ DOMAIN places = 1..Len(places) /\ DOMAIN PlacesSaid = 1..Len(PlacesSaid)
           /\ \A i \in 1..Len(PlacesSaid) : places[i] = PlacesSaid[i] /\ PlacesSaid[i] # RolePath
           /\ \A i \in (Len(PlacesSaid) + 1)..Len(places) : places[i] = RolePath /\ world.role
           /\ \A i \in 1..Len(ret) : Nearest(ret[i])
  <1>1. world \in Worlds /\ Grown /\ \A i \in 1..Len(ret) : Nearest(ret[i])
    BY DEF OverrideInv
  <1>2. PathList(PlacesSaid)
    BY <1>1, PlacesSaidAre
  <1>3. places \in Seq(Range(PlacesSaid) \union {RolePath}) /\ PlacesSaid \in Seq(Range(PlacesSaid))
    BY <1>1, <1>2 DEF Grown, PathList
  <1>4. \A i \in 1..Len(PlacesSaid) : PlacesSaid[i] # RolePath
    BY <1>2, <1>3 DEF PathList
  <1>5. /\ Len(places) \in Nat /\ Len(PlacesSaid) \in Nat
        /\ DOMAIN places = 1..Len(places) /\ DOMAIN PlacesSaid = 1..Len(PlacesSaid)
    BY <1>3
  <1> QED
    BY <1>1, <1>2, <1>4, <1>5 DEF Grown

LEMMA NoGifts ==
    ASSUME NEW dir, Gives(dir) = {}
    PROVE  \A m \in DOMAIN dir : OptionOf(dir[m], KeyOf[lookup]) = <<>>
  BY DEF Gives

LEMMA InvSame == OverrideInv => SamePlaces
  <1> SUFFICES ASSUME OverrideInv, asks = "terms", places # <<>>, RolePath \notin Range(places), OnlyGlobal
               PROVE  \E i \in DOMAIN world.global :
                        /\ \E n \in Gives(world.global[i]) :
                              places = Resolved("project", OptionOf(world.global[i][n], KeyOf[lookup]))
                        /\ \A j \in 1..(i - 1) : Gives(world.global[j]) = {}
    BY Zenon DEF SamePlaces
  <1> DEFINE key == KeyOf[lookup]
  <1>1. world \in Worlds
    BY DEF OverrideInv
  <1>2. places = PlacesSaid
    <2>1. /\ PathList(PlacesSaid) /\ Len(PlacesSaid) \in Nat /\ Len(places) \in Nat /\ Len(PlacesSaid) <= Len(places)
          /\ DOMAIN places = 1..Len(places) /\ DOMAIN PlacesSaid = 1..Len(PlacesSaid)
          /\ \A i \in 1..Len(PlacesSaid) : places[i] = PlacesSaid[i]
          /\ \A i \in (Len(PlacesSaid) + 1)..Len(places) : places[i] = RolePath
      BY PlacesAre
    <2>2. \A i \in 1..Len(places) : places[i] # RolePath
      BY <2>1 DEF Range
    <2>3. Len(places) = Len(PlacesSaid)
      <3> SUFFICES ASSUME Len(places) # Len(PlacesSaid) PROVE FALSE
        OBVIOUS
      <3> DEFINE x == Len(places)
                 y == Len(PlacesSaid)
      <3>1. x \in (y + 1)..x /\ x \in 1..x
        <4>1. x \in Nat /\ y \in Nat /\ y <= x /\ x # y
          BY <2>1
        <4> HIDE DEF x, y
        <4> QED
          BY <4>1
      <3> QED
        BY <2>1, <2>2, <3>1
    <2>4. PlacesSaid \in Seq(Range(PlacesSaid)) /\ places \in Seq(Range(PlacesSaid) \union {RolePath})
      BY <2>1 DEF PathList, OverrideInv, Grown
    <2> QED
      BY <2>1, <2>3, <2>4
  <1>3. /\ \A i \in 1..Len(world.own) : OptionOf(world.own[i], key) = <<>>
        /\ \A i \in DOMAIN world.near : world.near[i] = NoFile
        /\ world.cwd = "project"
    <2>1. DOMAIN world.own = 1..Len(world.own)
      BY <1>1, Known DEF ConfigDir
    <2>2. /\ Gives(world.own) = {} /\ world.cwd = "project"
          /\ \A i \in DOMAIN world.near : world.near[i] = NoFile
      BY Zenon DEF OnlyGlobal
    <2>3. \A i \in DOMAIN world.own : OptionOf(world.own[i], key) = <<>>
      BY <2>2, NoGifts, Zenon
    <2> QED
      BY <2>1, <2>2, <2>3, Zenon
  <1>4. SaidByGlobal(places, key, "project")
    <2>1. PlacesSaid \in {Configured(key), LoadFallbackPaths(key)}
      BY <1>1, PlacesSaidAre
    <2>2. CASE places = Configured(key)
      BY <1>1, <1>3, <2>2, ConfiguredIs, Zenon
    <2>3. CASE places = LoadFallbackPaths(key)
      BY <1>1, <1>3, <2>3, FallbackIs, Zenon
    <2> QED
      BY <1>2, <2>1, <2>2, <2>3
  <1>5. PICK i \in DOMAIN world.global :
           /\ \E n \in DOMAIN world.global[i] :
                 /\ OptionOf(world.global[i][n], key) # <<>>
                 /\ places = Resolved("project", OptionOf(world.global[i][n], key))
           /\ \A j \in 1..(i - 1) : \A m \in DOMAIN world.global[j] :
                 OptionOf(world.global[j][m], key) = <<>>
    BY <1>4 DEF SaidByGlobal
  <1>6. \A j \in 1..(i - 1) : Gives(world.global[j]) = {}
    BY <1>5 DEF Gives
  <1>7. \E n \in Gives(world.global[i]) :
           places = Resolved("project", OptionOf(world.global[i][n], key))
    BY <1>5 DEF Gives
  <1> QED
    BY <1>6, <1>7

LEMMA InvFirst == OverrideInv => OverridesComeFirst
  <1> SUFFICES ASSUME OverrideInv, NEW i \in DOMAIN ret
               PROVE  LET here == {n \in DOMAIN places :
                                     places[n] # RolePath /\ <<places[n], ret[i].term>> \in world.holds}
                      IN  IF ret[i].place = RolePath THEN here = {} /\ world.role
                          ELSE here # {} /\ ret[i].place = places[Min(here)]
    BY DEF OverridesComeFirst
  <1>1. i \in 1..Len(ret) /\ asks \notin {"config", "crashed"}
    BY DEF OverrideInv
  <1> DEFINE k == Len(PlacesSaid)
             a == ret[i]
             here == {n \in DOMAIN places : places[n] # RolePath /\ <<places[n], a.term>> \in world.holds}
  <1>2. /\ k \in Nat /\ Len(places) \in Nat /\ k <= Len(places) /\ DOMAIN places = 1..Len(places)
        /\ \A n \in 1..k : places[n] = PlacesSaid[n] /\ PlacesSaid[n] # RolePath
        /\ \A n \in (k + 1)..Len(places) : places[n] = RolePath
        /\ Nearest(a)
    BY <1>1, PlacesAre
  <1> HIDE DEF k, a
  <1>3. \A n \in Nat : n \in here <=> n \in 1..k /\ <<PlacesSaid[n], a.term>> \in world.holds
    <2> TAKE n \in Nat
    <2>1. CASE n \in 1..k
      <3>1. n \in DOMAIN places
        BY <1>2, <2>1
      <3> QED
        BY <1>2, <2>1, <3>1
    <2>2. CASE n \notin 1..k
      <3>1. n \in DOMAIN places => n \in (k + 1)..Len(places)
        BY <1>2, <2>2
      <3> QED
        BY <1>2, <2>2, <3>1
    <2> QED
      BY <2>1, <2>2
  <1>4. here \in SUBSET Nat
    BY <1>2
  <1> HIDE DEF here
  <1>5. CASE a.place = RolePath
    <2>1. world.role /\ \A n \in 1..k : <<PlacesSaid[n], a.term>> \notin world.holds
      BY <1>2, <1>5 DEF Nearest, k
    <2>2. here = {}
      BY <1>3, <1>4, <2>1
    <2> QED
      BY <1>5, <2>1, <2>2 DEF here, a
  <1>6. CASE a.place # RolePath
    <2>1. PICK n \in 1..k : /\ PlacesSaid[n] = a.place /\ <<PlacesSaid[n], a.term>> \in world.holds
                            /\ \A m \in 1..(n - 1) : <<PlacesSaid[m], a.term>> \notin world.holds
      BY <1>2, <1>6 DEF Nearest, k
    <2>2. n \in Nat /\ n \in here
      BY <1>3, <2>1
    <2>3. Min(here) \in here /\ Min(here) =< n
      BY <1>4, <2>2, MinIs, Zenon
    <2> DEFINE x == Min(here)
    <2> HIDE DEF x
    <2>4. x \in Nat /\ x \in 1..k /\ x =< n /\ <<PlacesSaid[x], a.term>> \in world.holds
      BY <1>3, <1>4, <2>3 DEF x
    <2>5. x \notin 1..(n - 1)
      BY <2>1, <2>4
    <2>6. x = n
      BY <2>2, <2>4, <2>5
    <2>7. a.place = places[Min(here)]
      BY <1>2, <2>1, <2>6 DEF x
    <2>8. here # {}
      BY <2>2
    <2> QED
      BY <1>6, <2>7, <2>8 DEF here, a
  <1> QED
    BY <1>5, <1>6

LEMMA InvDecides == OverrideInv => ProjectDecides
  <1> SUFFICES ASSUME OverrideInv, asks \notin {"config", "crashed"}, world.module, world.project # "none",
                      Gives(world.own) # {}, NEW p \in Range(places) \ {RolePath}
               PROVE  \E n \in Gives(world.own) : p \in Range(Resolved("project", OptionOf(world.own[n], KeyOf[lookup])))
    BY Zenon DEF ProjectDecides
  <1> DEFINE key == KeyOf[lookup]
             c == Configured(key)
  <1>1. world \in Worlds
    BY DEF OverrideInv
  <1>2. /\ ConfigDir(world.own) /\ DOMAIN world.own = 1..Len(world.own)
    BY <1>1, Known DEF ConfigDir
  <1>3. \E i \in 1..Len(world.own) : OptionOf(world.own[i], key) # <<>>
    BY <1>2 DEF Gives
  <1>4. PICK i \in 1..Len(world.own) : /\ OptionOf(world.own[i], key) # <<>>
                                       /\ c = Resolved("project", OptionOf(world.own[i], key))
    BY <1>1, <1>3, ConfiguredIs, Zenon
  <1>5. i \in Gives(world.own)
    BY <1>2, <1>4 DEF Gives
  <1>6. c # <<>>
    <2>1. ConfigFile(world.own[i])
      BY <1>2 DEF ConfigDir
    <2>2. OptionOf(world.own[i], key) \in Seq(Directories)
      BY <2>1, OptionIs, Zenon
    <2>3. "project" # "role"
      OBVIOUS
    <2> QED
      BY <1>4, <2>2, <2>3, ResolvedIs, Zenon
  <1>7. PlacesSaid = c
    BY <1>1, <1>6, PlacesSaidAre
  <1>8. p \in Range(PlacesSaid)
    <2>1. PICK n \in DOMAIN places : places[n] = p
      BY DEF Range
    <2>2. /\ DOMAIN places = 1..Len(places) /\ Len(PlacesSaid) \in Nat /\ Len(places) \in Nat
          /\ DOMAIN PlacesSaid = 1..Len(PlacesSaid)
          /\ \A m \in 1..Len(PlacesSaid) : places[m] = PlacesSaid[m]
          /\ \A m \in (Len(PlacesSaid) + 1)..Len(places) : places[m] = RolePath
      BY PlacesAre
    <2>3. n \in 1..Len(PlacesSaid) \/ n \in (Len(PlacesSaid) + 1)..Len(places)
      BY <2>1, <2>2
    <2>4. n \in DOMAIN PlacesSaid /\ PlacesSaid[n] = p
      BY <2>1, <2>2, <2>3
    <2> QED
      BY <2>4 DEF Range
  <1>9. p \in Range(Resolved("project", OptionOf(world.own[i], key)))
    BY <1>4, <1>7, <1>8, Zenon
  <1> QED
    BY <1>5, <1>9

\* An override is found where the configuration puts it, in a project and outside,
\* with the Python module and without it: the two ways come to the same global
\* directory, the project is asked first, and the role's own file comes last, for
\* every term as for the first.
THEOREM FoundWhereSaid == OverrideSpec => []OverridesFound
  <1>1. OverrideInit => OverrideInv
    BY OverrideStart
  <1>2. OverrideInv /\ [OverrideNext]_overrideVars => OverrideInv'
    BY OverrideStep
  <1>3. OverrideInv => OverridesFound
    BY InvSame, InvFirst, InvDecides DEF OverridesFound
  <1> QED
    BY <1>1, <1>2, <1>3, PTL DEF OverrideSpec

-----------------------------------------------------------------------------
(* The filter of mail aliases.                                             *)

Adding == INSTANCE FoldProofs WITH Op <- AddMore
Telling == INSTANCE FoldProofs WITH Op <- Tell

LEMMA Flattened1Is == \A q : Adding!FlattenSeq(q) = FlattenSeq(q)
  BY Zenon DEF FlattenSeq, Adding!FlattenSeq

\* The recipients of the alias a: one with a backslash has the name of the alias
\* in it (Marked), and none is the alias itself (Safe).
Recipient == [of : Text, slashes : Nat]
Marked(a, q) ==
    /\ q \in Seq(Recipient)
    /\ \A i \in 1..Len(q) : q[i].slashes # 0 => <<q[i].of, a>> \in HasIn
Safe(a, q) == Marked(a, q) /\ \A i \in 1..Len(q) : q[i] # Plain(a)
\* Every address is as it was told.
Unslashed(q) == \A i \in 1..Len(q) : q[i].slashes = 0

LEMMA TextsAre ==
    ASSUME NEW q \in Seq(Recipient)
    PROVE  /\ Texts(q) \in Seq(Text) /\ Len(Texts(q)) = Len(q)
           /\ \A i \in 1..Len(q) : Texts(q)[i] = q[i].of
  <1>1. DOMAIN q = 1..Len(q) /\ Len(q) \in Nat
    OBVIOUS
  <1>2. \A i \in 1..Len(q) : q[i].of \in Text
    <2>1. \A i \in 1..Len(q) : q[i] \in Recipient
      OBVIOUS
    <2>2. \A x \in Recipient : x.of \in Text
      BY DEF Recipient
    <2> QED
      BY <2>1, <2>2, Zenon
  <1>3. Texts(q) = [i \in 1..Len(q) |-> q[i].of]
    BY <1>1, Zenon DEF Texts
  <1> QED
    BY <1>1, <1>2, <1>3

LEMMA NoTexts ==
    ASSUME NEW q \in Seq(Recipient)
    PROVE  Texts(q) = <<>> <=> q = <<>>
  <1>1. Texts(q) \in Seq(Text) /\ Len(Texts(q)) = Len(q)
    BY TextsAre
  <1>2. \A S : \A x \in Seq(S) : x = <<>> <=> Len(x) = 0
    OBVIOUS
  <1> QED
    BY <1>1, <1>2

LEMMA TextsJoined ==
    ASSUME NEW p \in Seq(Recipient), NEW q \in Seq(Recipient)
    PROVE  Texts(p \o q) = Texts(p) \o Texts(q)
  <1> DEFINE all == p \o q
             x == Texts(all)
             y == Texts(p)
             z == Texts(q)
  <1>1. all \in Seq(Recipient) /\ Len(all) = Len(p) + Len(q) /\ Len(p) \in Nat /\ Len(q) \in Nat
    BY ConcatProperties
  <1>2. \A i \in 1..(Len(p) + Len(q)) : all[i] = IF i <= Len(p) THEN p[i] ELSE q[i - Len(p)]
    BY ConcatProperties
  <1> HIDE DEF all
  <1>3. /\ x \in Seq(Text) /\ Len(x) = Len(all)
        /\ \A i \in 1..Len(all) : x[i] = all[i].of
    BY <1>1, TextsAre
  <1>4. /\ y \in Seq(Text) /\ Len(y) = Len(p) /\ z \in Seq(Text) /\ Len(z) = Len(q)
        /\ \A i \in 1..Len(p) : y[i] = p[i].of
        /\ \A i \in 1..Len(q) : z[i] = q[i].of
    BY TextsAre
  <1> DEFINE w == y \o z
  <1> HIDE DEF x, y, z
  <1>5. /\ w \in Seq(Text) /\ Len(w) = Len(p) + Len(q)
        /\ \A i \in 1..(Len(p) + Len(q)) : w[i] = IF i <= Len(p) THEN y[i] ELSE z[i - Len(p)]
    <2>1. /\ w \in Seq(Text) /\ Len(w) = Len(y) + Len(z)
          /\ \A i \in 1..(Len(y) + Len(z)) : w[i] = IF i <= Len(y) THEN y[i] ELSE z[i - Len(y)]
      <3>1. y \in Seq(Text) /\ z \in Seq(Text)
        BY <1>4
      <3> QED
        BY ONLY <3>1, ConcatProperties
    <2> HIDE DEF w
    <2>2. Len(y) = Len(p) /\ Len(z) = Len(q)
      BY <1>4
    <2> QED
      BY <2>1, <2>2, Zenon
  <1> HIDE DEF w
  <1>6. \A i \in 1..Len(x) : x[i] = w[i]
    <2> TAKE i \in 1..Len(x)
    <2>1. i \in 1..(Len(p) + Len(q)) /\ i \in 1..Len(all)
      BY <1>1, <1>3
    <2>2. CASE i <= Len(p)
      <3>1. i \in 1..Len(p)
        BY <2>1, <2>2, <1>1
      <3>2. x[i] = p[i].of /\ w[i] = y[i] /\ y[i] = p[i].of
        BY <1>2, <1>3, <1>4, <1>5, <2>1, <2>2, <3>1, Zenon
      <3> QED
        BY <3>2
    <2>3. CASE ~(i <= Len(p))
      <3>1. i - Len(p) \in 1..Len(q)
        BY <2>1, <2>3, <1>1
      <3>2. x[i] = q[i - Len(p)].of /\ w[i] = z[i - Len(p)] /\ z[i - Len(p)] = q[i - Len(p)].of
        BY <1>2, <1>3, <1>4, <1>5, <2>1, <2>3, <3>1, Zenon
      <3> QED
        BY <3>2
    <2> QED
      BY <2>2, <2>3
  <1>7. Len(x) = Len(w)
    BY <1>1, <1>3, <1>5
  <1>8. x = w
    BY <1>3, <1>5, <1>6, <1>7, SeqEqual
  <1> QED
    BY <1>8 DEF x, w, all, y, z

LEMMA PlainsAre ==
    ASSUME NEW t \in Seq(Text), NEW a
    PROVE  /\ Plains(t) \in Seq(Recipient) /\ Texts(Plains(t)) = t /\ Marked(a, Plains(t))
           /\ Unslashed(Plains(t))
           /\ a \notin Range(t) => \A i \in 1..Len(Plains(t)) : Plains(t)[i] # Plain(a)
  <1> DEFINE q == Plains(t)
  <1>1. DOMAIN t = 1..Len(t) /\ Len(t) \in Nat
    OBVIOUS
  <1>2. \A i \in 1..Len(t) : Plain(t[i]) \in Recipient /\ Plain(t[i]).of = t[i] /\ Plain(t[i]).slashes = 0
    BY DEF Plain, Recipient
  <1>3. q \in Seq(Recipient) /\ Len(q) = Len(t) /\ \A i \in 1..Len(t) : q[i] = Plain(t[i])
    BY <1>1, <1>2 DEF Plains
  <1> HIDE DEF q
  <1>4. Marked(a, q) /\ Unslashed(q)
    BY <1>2, <1>3 DEF Marked, Unslashed
  <1>7. a \notin Range(t) => \A i \in 1..Len(q) : q[i] # Plain(a)
    <2> SUFFICES ASSUME NEW i \in 1..Len(q), q[i] = Plain(a) PROVE a \in Range(t)
      OBVIOUS
    <2>1. i \in DOMAIN t /\ q[i] = Plain(t[i])
      BY <1>1, <1>3
    <2>2. Plain(t[i]).of = t[i] /\ Plain(a).of = a
      BY DEF Plain
    <2>3. t[i] = a
      BY <2>1, <2>2
    <2> QED
      BY <2>1, <2>3, Zenon DEF Range
  <1>5. /\ Texts(q) \in Seq(Text) /\ Len(Texts(q)) = Len(q)
        /\ \A i \in 1..Len(q) : Texts(q)[i] = q[i].of
    BY <1>3, TextsAre
  <1>6. Texts(q) = t
    <2>1. \A i \in 1..Len(Texts(q)) : Texts(q)[i] = t[i]
      BY <1>2, <1>3, <1>5, Zenon
    <2> QED
      BY <1>3, <1>5, <2>1, SeqEqual
  <1> QED
    BY <1>3, <1>4, <1>6, <1>7 DEF q

\* Without the alias itself among the recipients nothing is changed.
LEMMA NotMangled ==
    ASSUME NEW a, NEW q \in Seq(Recipient), \A i \in 1..Len(q) : q[i] # Plain(a)
    PROVE  MangleRecipients(a, q) = q
  <1>1. DOMAIN q = 1..Len(q)
    OBVIOUS
  <1> QED
    BY <1>1, Zenon DEF MangleRecipients

\* The alias itself gets a backslash, and no text is another one.
LEMMA Mangled ==
    ASSUME NEW a, <<a, a>> \in HasIn, NEW q, Marked(a, q)
    PROVE  Safe(a, MangleRecipients(a, q)) /\ Texts(MangleRecipients(a, q)) = Texts(q)
  <1> DEFINE Slash(r) == IF <<r.of, a>> \in HasIn THEN [r EXCEPT !.slashes = @ + 1] ELSE r
             m == [i \in DOMAIN q |-> Slash(q[i])]
  <1>1. q \in Seq(Recipient) /\ DOMAIN q = 1..Len(q) /\ Len(q) \in Nat
    BY DEF Marked
  <1>2. CASE \E i \in DOMAIN q : q[i] = Plain(a)
    <2>1. MangleRecipients(a, q) = m
      BY <1>2, Zenon DEF MangleRecipients
    <2>2. ASSUME NEW r \in Recipient
          PROVE  /\ Slash(r) \in Recipient /\ Slash(r).of = r.of /\ Slash(r) # Plain(a)
                 /\ <<r.of, a>> \notin HasIn => Slash(r) = r
      <3>1. CASE <<r.of, a>> \in HasIn
        <4>1. Slash(r) = [of |-> r.of, slashes |-> r.slashes + 1]
          BY <3>1 DEF Recipient
        <4>2. r.slashes \in Nat /\ r.of \in Text
          BY DEF Recipient
        <4> QED
          BY <3>1, <4>1, <4>2 DEF Plain, Recipient
      <3>2. CASE <<r.of, a>> \notin HasIn
        <4>1. Slash(r) = r
          BY <3>2
        <4>2. Plain(a).of = a
          BY DEF Plain
        <4>3. r # Plain(a)
          BY <3>2, <4>2
        <4> QED
          BY <4>1, <4>3
      <3> QED
        BY <3>1, <3>2
    <2>3. \A i \in 1..Len(q) : q[i] \in Recipient
      BY <1>1
    <2> HIDE DEF Slash
    <2>4. m \in Seq(Recipient) /\ Len(m) = Len(q) /\ \A i \in 1..Len(q) : m[i] = Slash(q[i])
      <3>1. \A i \in 1..Len(q) : Slash(q[i]) \in Recipient
        BY <2>2, <2>3
      <3>2. m = [i \in 1..Len(q) |-> Slash(q[i])]
        BY <1>1, Zenon
      <3> HIDE DEF m
      <3> QED
        BY <1>1, <3>1, <3>2
    <2> HIDE DEF m
    <2>5. \A i \in 1..Len(q) : q[i].slashes # 0 => <<q[i].of, a>> \in HasIn
      BY DEF Marked
    <2>6. Safe(a, m)
      <3>1. ASSUME NEW i \in 1..Len(m)
            PROVE  m[i] # Plain(a) /\ (m[i].slashes # 0 => <<m[i].of, a>> \in HasIn)
        <4>1. i \in 1..Len(q) /\ m[i] = Slash(q[i]) /\ q[i] \in Recipient
          BY <2>3, <2>4
        <4>2. m[i].of = q[i].of /\ m[i] # Plain(a) /\ (<<q[i].of, a>> \notin HasIn => m[i] = q[i])
          BY <2>2, <4>1, Zenon
        <4> QED
          BY <2>5, <4>1, <4>2
      <3> QED
        BY <2>4, <3>1 DEF Safe, Marked
    <2>7. Texts(m) = Texts(q)
      <3>1. DOMAIN m = DOMAIN q
        BY <1>1, <2>4
      <3>2. \A i \in DOMAIN q : m[i].of = q[i].of
        BY <1>1, <2>2, <2>3, <2>4
      <3> QED
        BY <3>1, <3>2, Zenon DEF Texts
    <2> QED
      BY <2>1, <2>6, <2>7
  <1>3. CASE ~\E i \in DOMAIN q : q[i] = Plain(a)
    <2>1. MangleRecipients(a, q) = q
      BY <1>3, Zenon DEF MangleRecipients
    <2>2. \A i \in 1..Len(q) : q[i] # Plain(a)
      BY <1>1, <1>3, Zenon
    <2> QED
      BY <2>1, <2>2 DEF Safe
  <1> QED
    BY <1>2, <1>3

LEMMA MarkedJoined ==
    ASSUME NEW a, NEW p, NEW q, Marked(a, p), Marked(a, q)
    PROVE  Marked(a, p \o q)
  <1> DEFINE all == p \o q
  <1>1. p \in Seq(Recipient) /\ q \in Seq(Recipient) /\ Len(p) \in Nat /\ Len(q) \in Nat
    BY DEF Marked
  <1>2. /\ all \in Seq(Recipient) /\ Len(all) = Len(p) + Len(q)
        /\ \A i \in 1..(Len(p) + Len(q)) : all[i] = IF i <= Len(p) THEN p[i] ELSE q[i - Len(p)]
    BY <1>1, ConcatProperties
  <1> HIDE DEF all
  <1>3. ASSUME NEW i \in 1..Len(all), all[i].slashes # 0 PROVE <<all[i].of, a>> \in HasIn
    <2>1. i \in 1..(Len(p) + Len(q))
      BY <1>2
    <2>2. CASE i <= Len(p)
      <3>1. i \in 1..Len(p) /\ all[i] = p[i]
        BY <1>1, <1>2, <2>1, <2>2
      <3> QED
        BY <1>3, <3>1 DEF Marked
    <2>3. CASE ~(i <= Len(p))
      <3>1. i - Len(p) \in 1..Len(q) /\ all[i] = q[i - Len(p)]
        BY <1>1, <1>2, <2>1, <2>3
      <3> QED
        BY <1>3, <3>1 DEF Marked
    <2> QED
      BY <2>2, <2>3
  <1>4. Marked(a, all)
    BY <1>2, <1>3 DEF Marked
  <1> QED
    BY <1>4 DEF all

LEMMA CleanJoined ==
    ASSUME NEW p \in Seq(Recipient), NEW q \in Seq(Recipient)
    PROVE  /\ Unslashed(p) /\ Unslashed(q) => Unslashed(p \o q)
           /\ \A r : (\A i \in 1..Len(p) : p[i] # r) /\ (\A i \in 1..Len(q) : q[i] # r)
                    => \A i \in 1..Len(p \o q) : (p \o q)[i] # r
  <1> DEFINE all == p \o q
  <1>1. /\ Len(p) \in Nat /\ Len(q) \in Nat /\ Len(all) = Len(p) + Len(q)
        /\ \A i \in 1..(Len(p) + Len(q)) : all[i] = IF i <= Len(p) THEN p[i] ELSE q[i - Len(p)]
    BY ConcatProperties
  <1> HIDE DEF all
  <1>2. ASSUME NEW i \in 1..Len(all)
        PROVE  \/ i \in 1..Len(p) /\ all[i] = p[i]
               \/ i - Len(p) \in 1..Len(q) /\ all[i] = q[i - Len(p)]
    BY <1>1
  <1>3. Unslashed(p) /\ Unslashed(q) => Unslashed(all)
    BY <1>2, Zenon DEF Unslashed
  <1>4. \A r : (\A i \in 1..Len(p) : p[i] # r) /\ (\A i \in 1..Len(q) : q[i] # r)
                 => \A i \in 1..Len(all) : all[i] # r
    BY <1>2, Zenon
  <1> QED
    BY <1>3, <1>4 DEF all

\* However often recipients are added, they are these.
LEMMA AddedAre ==
    ASSUME NEW a, <<a, a>> \in HasIn, NEW q, Safe(a, q), NEW add \in Seq(Seq(Text))
    PROVE  /\ Safe(a, AddRecipients(a, q, add))
           /\ Texts(AddRecipients(a, q, add)) = Texts(q) \o FlattenSeq(add)
           /\ Unslashed(q) /\ (\A i \in DOMAIN add : a \notin Range(add[i]))
                => Unslashed(AddRecipients(a, q, add))
  <1> DEFINE n == Len(add)
             more == [i \in DOMAIN add |-> [name |-> a, texts |-> add[i]]]
  <1>1. n \in Nat /\ DOMAIN add = 1..n /\ DOMAIN more = 1..n
    OBVIOUS
  <1>2. \A i \in 1..n : more[i].name = a /\ more[i].texts = add[i] /\ add[i] \in Seq(Text)
    OBVIOUS
  <1>3. AddRecipients(a, q, add) = Adding!Fold(q, more)
    BY Zenon DEF AddRecipients, FoldLeft, MapThenFoldSet, Max,
         Adding!Fold, Adding!FoldLeft, Adding!MapThenFoldSet, Adding!Max
  <1> HIDE DEF n, more
  <1>4. PICK r : /\ r[0] = q
                 /\ \A k \in Nat : k < n => r[k + 1] = AddMore(r[k], more[k + 1])
                 /\ Adding!Fold(q, more) = r[n]
    BY <1>1, Adding!FoldRow
  <1>5. PICK g : /\ g[0] = <<>>
                 /\ \A k \in Nat : k < n => g[k + 1] = g[k] \o add[k + 1]
                 /\ Adding!FlattenSeq(add) = g[n]
    BY Adding!FlatRow, Zenon DEF n
  <1> DEFINE Others == Unslashed(q) /\ \A i \in DOMAIN add : a \notin Range(add[i])
             Is(k) == /\ Safe(a, r[k]) /\ g[k] \in Seq(Text) /\ Texts(r[k]) = Texts(q) \o g[k]
                      /\ Others => Unslashed(r[k])
             T == {k \in Nat : k <= n => Is(k)}
  <1>6. 0 \in T
    <2>1. q \in Seq(Recipient)
      BY DEF Safe, Marked
    <2>2. Texts(q) \in Seq(Text)
      BY <2>1, TextsAre
    <2>3. Texts(q) \o <<>> = Texts(q) /\ <<>> \in Seq(Text)
      BY <2>2, ConcatEmptySeq
    <2>4. Is(0)
      BY <1>4, <1>5, <2>3, Zenon
    <2> HIDE DEF Is
    <2> QED
      BY <2>4
  <1>7. ASSUME NEW k \in Nat, k \in T PROVE k + 1 \in T
    <2>1. SUFFICES ASSUME k + 1 <= n PROVE Is(k + 1)
      OBVIOUS
    <2>2. k < n /\ k <= n /\ k + 1 \in 1..n
      BY <1>1, <2>1
    <2>3. /\ Safe(a, r[k]) /\ g[k] \in Seq(Text) /\ Texts(r[k]) = Texts(q) \o g[k]
          /\ Others => Unslashed(r[k])
      <3> HIDE DEF Others
      <3> QED
        BY <1>7, <2>2
    <2> DEFINE t == add[k + 1]
               p == r[k]
               all == p \o Plains(t)
    <2>4. t \in Seq(Text) /\ more[k + 1].name = a /\ more[k + 1].texts = t
      BY <1>2, <2>2
    <2>14. Others => a \notin Range(t)
      BY <1>1, <2>2
    <2> HIDE DEF Others
    <2>5. r[k + 1] = MangleRecipients(a, all) /\ g[k + 1] = g[k] \o t
      BY <1>4, <1>5, <2>2, <2>4, Zenon DEF AddMore
    <2> HIDE DEF t, p
    <2>6. /\ Plains(t) \in Seq(Recipient) /\ Texts(Plains(t)) = t /\ Marked(a, Plains(t))
          /\ Unslashed(Plains(t))
          /\ a \notin Range(t) => \A i \in 1..Len(Plains(t)) : Plains(t)[i] # Plain(a)
      BY <2>4, PlainsAre
    <2>7. Marked(a, p) /\ p \in Seq(Recipient)
      BY <2>3 DEF Safe, Marked, p
    <2>8. Marked(a, all)
      BY <2>6, <2>7, MarkedJoined
    <2>9. Texts(all) = Texts(p) \o t
      BY <2>6, <2>7, TextsJoined
    <2>15. Others => Unslashed(all) /\ MangleRecipients(a, all) = all
      <3> SUFFICES ASSUME Others PROVE Unslashed(all) /\ MangleRecipients(a, all) = all
        OBVIOUS
      <3>1. Unslashed(p) /\ \A i \in 1..Len(p) : p[i] # Plain(a)
        BY <2>3 DEF Safe, p
      <3>2. Unslashed(all) /\ \A i \in 1..Len(all) : all[i] # Plain(a)
        BY <2>6, <2>7, <2>14, <3>1, CleanJoined, Zenon
      <3>3. all \in Seq(Recipient)
        BY <2>8 DEF Marked
      <3> QED
        BY <3>2, <3>3, NotMangled
    <2> HIDE DEF all
    <2>10. Safe(a, r[k + 1]) /\ Texts(r[k + 1]) = Texts(p) \o t
      BY <2>5, <2>8, <2>9, Mangled
    <2>11. Texts(q) \in Seq(Text)
      <3>1. q \in Seq(Recipient)
        BY DEF Safe, Marked
      <3> QED
        BY <3>1, TextsAre
    <2> DEFINE x == Texts(q)
               y == g[k]
    <2>12. (x \o y) \o t = x \o (y \o t)
      <3>1. x \in Seq(Text) /\ y \in Seq(Text)
        BY <2>3, <2>11
      <3> HIDE DEF x, y
      <3> QED
        BY <2>4, <3>1, ConcatAssociative
    <2>13. g[k + 1] \in Seq(Text)
      BY <2>3, <2>4, <2>5, ConcatProperties
    <2>16. Others => Unslashed(r[k + 1])
      BY <2>5, <2>15, Zenon
    <2> QED
      BY <2>3, <2>5, <2>10, <2>12, <2>13, <2>16, Zenon DEF p
  <1> HIDE DEF T
  <1>8. \A k \in Nat : k \in T
    BY <1>6, <1>7, Adding!EveryNumber, Zenon
  <1>9. Is(n)
    BY <1>1, <1>8 DEF T
  <1>10. FlattenSeq(add) = g[n]
    BY <1>5, Flattened1Is, Zenon
  <1> QED
    BY <1>3, <1>4, <1>9, <1>10, Zenon

-----------------------------------------------------------------------------
\* What is left of a sequence is in it, and one element after another.
Left(S, q, gone, w) ==
    /\ w \in Seq(S)
    /\ \A m \in 1..Len(w) : \E i \in 1..Len(q) : w[m] = q[i]
    /\ \E r : /\ r[0] = <<>>
              /\ r[Len(q)] = w
              /\ \A k \in Nat : k < Len(q) =>
                   r[k + 1] = r[k] \o (IF q[k + 1] \in gone THEN <<>> ELSE <<q[k + 1]>>)

LEMMA WithoutIs ==
    ASSUME NEW S, NEW q \in Seq(S), NEW gone
    PROVE  Left(S, q, gone, Without(q, gone))
  <1> DEFINE One(i) == IF q[i] \in gone THEN <<>> ELSE <<q[i]>>
             seqs == [i \in DOMAIN q |-> One(i)]
             w == Without(q, gone)
  <1>1. DOMAIN q = 1..Len(q) /\ Len(q) \in Nat
    OBVIOUS
  <1>2. \A i \in 1..Len(q) : /\ One(i) \in Seq(S)
                             /\ \A j \in 1..Len(One(i)) : One(i)[j] = q[i]
    <2> TAKE i \in 1..Len(q)
    <2>1. CASE q[i] \in gone
      BY <2>1
    <2>2. CASE q[i] \notin gone
      <3>1. q[i] \in S
        OBVIOUS
      <3> QED
        BY <2>2, <3>1
    <2> QED
      BY <2>1, <2>2
  <1>3. w = Adding!FlattenSeq(seqs)
    BY Flattened1Is, Zenon DEF Without
  <1> HIDE DEF One, w
  <1>4. seqs \in Seq(Seq(S)) /\ Len(seqs) = Len(q) /\ \A i \in 1..Len(q) : seqs[i] = One(i)
    BY <1>1, <1>2
  <1> HIDE DEF seqs
  <1>5. w \in Seq(S)
    BY <1>3, <1>4, Adding!FlatRange, Zenon
  <1>6. \A m \in 1..Len(w) : \E i \in 1..Len(q) : w[m] = q[i]
    <2>1. \A m \in 1..Len(Adding!FlattenSeq(seqs)) :
             \E i \in 1..Len(seqs) : \E j \in 1..Len(seqs[i]) :
                Adding!FlattenSeq(seqs)[m] = seqs[i][j]
      BY <1>4, Adding!FlatRange, Zenon
    <2>2. \A m \in 1..Len(w) :
             \E i \in 1..Len(seqs) : \E j \in 1..Len(seqs[i]) : w[m] = seqs[i][j]
      BY <1>3, <2>1
    <2> TAKE m \in 1..Len(w)
    <2>3. PICK i \in 1..Len(seqs) : \E j \in 1..Len(seqs[i]) : w[m] = seqs[i][j]
      BY <2>2, Zenon
    <2>4. PICK j \in 1..Len(seqs[i]) : w[m] = seqs[i][j]
      BY <2>3, Zenon
    <2>5. i \in 1..Len(q) /\ seqs[i] = One(i)
      BY <1>4, Zenon
    <2>6. w[m] = q[i]
      BY <1>2, <2>4, <2>5, Zenon
    <2> QED
      BY <2>5, <2>6, Zenon
  <1>7. PICK r : /\ r[0] = <<>>
                 /\ \A k \in Nat : k < Len(seqs) => r[k + 1] = r[k] \o seqs[k + 1]
                 /\ Adding!FlattenSeq(seqs) = r[Len(seqs)]
    BY <1>4, Adding!FlatRow, Zenon
  <1>8. \A k \in Nat : k < Len(q) => r[k + 1] = r[k] \o One(k + 1)
    <2> TAKE k \in Nat
    <2>1. k < Len(q) => k + 1 \in 1..Len(q)
      BY <1>1
    <2> QED
      BY <1>4, <1>7, <2>1, Zenon
  <1>9. r[0] = <<>> /\ r[Len(q)] = w
    BY <1>3, <1>4, <1>7, Zenon
  <1> QED
    BY <1>5, <1>6, <1>8, <1>9, Zenon DEF One, w, Left

LEMMA WithoutSafe ==
    ASSUME NEW a, NEW q, Safe(a, q), NEW gone
    PROVE  Safe(a, Without(q, gone)) /\ (Unslashed(q) => Unslashed(Without(q, gone)))
  <1>1. q \in Seq(Recipient)
    BY DEF Safe, Marked
  <1>2. Left(Recipient, q, gone, Without(q, gone))
    BY <1>1, WithoutIs
  <1>4. /\ Without(q, gone) \in Seq(Recipient)
        /\ \A m \in 1..Len(Without(q, gone)) : \E i \in 1..Len(q) : Without(q, gone)[m] = q[i]
    BY <1>2, Zenon DEF Left
  <1>3. \A i \in 1..Len(q) : q[i] # Plain(a) /\ (q[i].slashes # 0 => <<q[i].of, a>> \in HasIn)
    BY DEF Safe, Marked
  <1> QED
    BY <1>3, <1>4, Zenon DEF Safe, Marked, Unslashed

\* Recipients and their texts are deleted alike, if it is told from the texts which.
LEMMA WithoutTexts ==
    ASSUME NEW q \in Seq(Recipient), NEW gone, NEW texts,
           \A i \in 1..Len(q) : q[i] \in gone <=> q[i].of \in texts
    PROVE  Texts(Without(q, gone)) = Without(Texts(q), texts)
  <1> DEFINE n == Len(q)
             t == Texts(q)
  <1>1. n \in Nat /\ t \in Seq(Text) /\ Len(t) = n /\ \A i \in 1..n : t[i] = q[i].of
    BY TextsAre
  <1>2. \A i \in 1..n : q[i] \in Recipient /\ t[i] \in Text
    BY <1>1
  <1>3. \A i \in 1..n : q[i] \in gone <=> t[i] \in texts
    BY <1>1
  <1> HIDE DEF t
  <1>4. PICK r : /\ r[0] = <<>> /\ r[n] = Without(q, gone)
                 /\ \A k \in Nat : k < n =>
                      r[k + 1] = r[k] \o (IF q[k + 1] \in gone THEN <<>> ELSE <<q[k + 1]>>)
    <2>1. Left(Recipient, q, gone, Without(q, gone))
      BY WithoutIs
    <2> QED
      BY <2>1, Zenon DEF Left
  <1>5. PICK z : /\ z[0] = <<>> /\ z[Len(t)] = Without(t, texts)
                 /\ \A k \in Nat : k < Len(t) =>
                      z[k + 1] = z[k] \o (IF t[k + 1] \in texts THEN <<>> ELSE <<t[k + 1]>>)
    <2>1. Left(Text, t, texts, Without(t, texts))
      BY <1>1, WithoutIs
    <2> QED
      BY <2>1, Zenon DEF Left
  <1> HIDE DEF n
  <1> DEFINE Is(k) == r[k] \in Seq(Recipient) /\ z[k] = Texts(r[k])
             T == {k \in Nat : k <= n => Is(k)}
  <1>6. 0 \in T
    <2>1. <<>> \in Seq(Recipient) /\ Texts(<<>>) = <<>>
      BY DEF Texts
    <2>2. Is(0)
      BY <1>4, <1>5, <2>1, Zenon
    <2> HIDE DEF Is
    <2> QED
      BY <2>2
  <1>7. ASSUME NEW k \in Nat, k \in T PROVE k + 1 \in T
    <2>1. SUFFICES ASSUME k + 1 <= n PROVE Is(k + 1)
      OBVIOUS
    <2>2. k < n /\ k <= n /\ k + 1 \in 1..n
      BY <1>1, <2>1
    <2>3. r[k] \in Seq(Recipient) /\ z[k] = Texts(r[k])
      BY <1>7, <2>2
    <2> DEFINE i == k + 1
               p == r[k]
    <2>4. /\ r[i] = p \o (IF q[i] \in gone THEN <<>> ELSE <<q[i]>>)
          /\ z[i] = z[k] \o (IF t[i] \in texts THEN <<>> ELSE <<t[i]>>)
      BY <1>1, <1>4, <1>5, <2>2, Zenon
    <2>5. q[i] \in Recipient /\ t[i] = q[i].of /\ (q[i] \in gone <=> t[i] \in texts) /\ t[i] \in Text
      BY <1>1, <1>2, <1>3, <2>2
    <2>6. p \in Seq(Recipient) /\ Texts(p) \in Seq(Text) /\ z[k] = Texts(p)
      BY <2>3, TextsAre
    <2> HIDE DEF i, p
    <2>7. CASE q[i] \in gone
      <3>1. p \o <<>> = p /\ Texts(p) \o <<>> = Texts(p)
        BY <2>6, ConcatEmptySeq
      <3>2. r[i] = p /\ z[i] = Texts(p)
        BY <2>4, <2>5, <2>6, <2>7, <3>1, Zenon
      <3> QED
        BY <2>6, <3>2, Zenon DEF i
    <2>8. CASE q[i] \notin gone
      <3>1. r[i] = p \o <<q[i]>> /\ z[i] = Texts(p) \o <<t[i]>>
        BY <2>4, <2>5, <2>6, <2>8, Zenon
      <3> DEFINE one == <<q[i]>>
      <3>2. one \in Seq(Recipient) /\ Texts(one) = <<t[i]>>
        <4>1. one \in Seq(Recipient)
          BY <2>5
        <4>2. Texts(one) \in Seq(Text) /\ Len(Texts(one)) = 1 /\ Texts(one)[1] = t[i]
          <5>1. Len(one) = 1 /\ one[1] = q[i]
            OBVIOUS
          <5> HIDE DEF one
          <5> QED
            BY <2>5, <4>1, <5>1, TextsAre
        <4> DEFINE x == Texts(one)
                   y == <<t[i]>>
        <4>3. y \in Seq(Text) /\ Len(y) = 1 /\ y[1] = t[i]
          BY <2>5
        <4> HIDE DEF x, y
        <4>4. x \in Seq(Text) /\ Len(x) = 1 /\ x[1] = t[i]
          BY <4>2 DEF x
        <4>5. x = y
          BY <4>3, <4>4, SeqEqual
        <4> QED
          BY <4>1, <4>5 DEF x, y
      <3> HIDE DEF one
      <3>3. p \o one \in Seq(Recipient) /\ Texts(p \o one) = Texts(p) \o Texts(one)
        BY <2>6, <3>2, TextsJoined, ConcatProperties
      <3>4. r[i] = p \o one
        BY <3>1 DEF one
      <3> QED
        BY <3>1, <3>2, <3>3, <3>4, Zenon DEF i
    <2> QED
      BY <2>7, <2>8
  <1> HIDE DEF T
  <1>8. \A k \in Nat : k \in T
    BY <1>6, <1>7, Adding!EveryNumber, Zenon
  <1>9. Is(n)
    BY <1>1, <1>8 DEF T
  <1> QED
    BY <1>1, <1>4, <1>5, <1>9, Zenon DEF t

\* A deletion misses a recipient only if the name of the alias is in it.
LEMMA DeletedAre ==
    ASSUME NEW a, NEW q, Safe(a, q), NEW del \in Seq(Seq(Text))
    PROVE  LET texts == UNION {Range(del[i]) : i \in DOMAIN del} IN
           /\ Safe(a, DelRecipients(q, del))
           /\ Unslashed(q) => Unslashed(DelRecipients(q, del))
           /\ (\A t \in texts : <<t, a>> \notin HasIn)
                 => Texts(DelRecipients(q, del)) = Without(Texts(q), texts)
  <1> DEFINE texts == UNION {Range(del[i]) : i \in DOMAIN del}
             gone == UNION {Range(Plains(del[i])) : i \in DOMAIN del}
  <1>1. Safe(a, Without(q, gone)) /\ (Unslashed(q) => Unslashed(Without(q, gone)))
    BY WithoutSafe
  <1>2. ASSUME \A t \in texts : <<t, a>> \notin HasIn
        PROVE  Texts(Without(q, gone)) = Without(Texts(q), texts)
    <2>1. q \in Seq(Recipient) /\ \A i \in 1..Len(q) : q[i].slashes # 0 => <<q[i].of, a>> \in HasIn
      BY DEF Safe, Marked
    <2>2. ASSUME NEW i \in 1..Len(q) PROVE q[i] \in gone <=> q[i].of \in texts
      <3>1. q[i] \in Recipient
        BY <2>1
      <3>2. ASSUME q[i] \in gone PROVE q[i].of \in texts
        <4>1. PICK d \in DOMAIN del : q[i] \in Range(Plains(del[d]))
          BY <3>2
        <4>2. PICK j \in DOMAIN del[d] : q[i] = Plain(del[d][j])
          BY <4>1 DEF Range, Plains
        <4>3. q[i].of = del[d][j]
          BY <4>2 DEF Plain
        <4> QED
          BY <4>3 DEF Range
      <3>3. ASSUME q[i].of \in texts PROVE q[i] \in gone
        <4>1. PICK d \in DOMAIN del : q[i].of \in Range(del[d])
          BY <3>3
        <4>2. PICK j \in DOMAIN del[d] : q[i].of = del[d][j]
          BY <4>1 DEF Range
        <4>3. q[i].slashes = 0
          BY <1>2, <2>1, <3>3, Zenon
        <4>4. q[i] = Plain(del[d][j])
          BY <3>1, <4>2, <4>3 DEF Plain, Recipient
        <4>5. q[i] \in Range(Plains(del[d]))
          BY <4>4 DEF Range, Plains
        <4> QED
          BY <4>5
      <3> QED
        BY <3>2, <3>3
    <2> HIDE DEF gone, texts
    <2> QED
      BY <2>1, <2>2, WithoutTexts
  <1> QED
    BY <1>1, <1>2, Zenon DEF DelRecipients

-----------------------------------------------------------------------------
\* What the aliases are, and what an alias is known to have.
AreAliases(aliases) ==
    /\ DOMAIN aliases \subseteq AliasNames
    /\ \A a \in DOMAIN aliases : Safe(a, aliases[a].recipients)
KnownTexts(aliases, a) == Texts(Was(aliases, a).recipients)

LEMMA WasSafe ==
    ASSUME NEW aliases, AreAliases(aliases), NEW a
    PROVE  Safe(a, Was(aliases, a).recipients)
  <1>1. CASE a \in DOMAIN aliases
    BY <1>1 DEF AreAliases, Was
  <1>2. CASE a \notin DOMAIN aliases
    <2>1. Was(aliases, a).recipients = <<>>
      BY <1>2 DEF Was, NoAlias
    <2>2. Safe(a, <<>>)
      BY DEF Safe, Marked
    <2> QED
      BY <2>1, <2>2
  <1> QED
    BY <1>1, <1>2

LEMMA CommentedIs ==
    ASSUME NEW st, NEW w, NEW q
    PROVE  /\ Commented([state |-> st, weight |-> w, recipients |-> q]).recipients = q
           /\ Commented([state |-> st, weight |-> w, recipients |-> q]).state
                = IF q = <<>> THEN "comment" ELSE st
  BY DEF Commented

\* One alias is read over what was known of it.
LEMMA EntryIs ==
    ASSUME NEW aliases, AreAliases(aliases), NEW e \in Elements, e.form = "entry"
    PROVE  LET q == Commented(ReadEntry(aliases, e)).recipients IN
           /\ Safe(e.name, q)
           /\ (\A t \in Deleted(e) : <<t, e.name>> \notin HasIn)
                => Texts(q) = TellTexts(KnownTexts(aliases, e.name), e, e.name)
           /\ ~TellsOwn(e, e.name) /\ (e.to # <<>> \/ Unslashed(Was(aliases, e.name).recipients))
                => Unslashed(q)
  <1> DEFINE a == e.name
             was == Was(aliases, a).recipients
             updated == UpdateRecipients(a, was, e.to)
             added == AddRecipients(a, updated, e.add)
             left == DelRecipients(added, e.del)
             base == IF e.to = <<>> THEN Texts(was) ELSE Last(e.to)
             Others == ~TellsOwn(e, a) /\ (e.to # <<>> \/ Unslashed(was))
  <1>8. /\ Others /\ e.to = <<>> => Unslashed(was)
        /\ Others /\ e.to # <<>> => a \notin Range(Last(e.to))
        /\ Others => \A i \in DOMAIN e.add : a \notin Range(e.add[i])
    BY DEF TellsOwn
  <1> HIDE DEF Others
  <1>1. /\ e.to \in Seq(Seq(Text)) /\ e.add \in Seq(Seq(Text)) /\ e.del \in Seq(Seq(Text))
        /\ <<a, a>> \in HasIn
    <2>1. e.to \in Seq(Seq(Text)) /\ e.add \in Seq(Seq(Text)) /\ e.del \in Seq(Seq(Text))
      BY AliasAssumption
    <2>2. a \in AliasNames
      BY DEF AliasNames, EntryNames
    <2> QED
      BY <2>1, <2>2, AliasAssumption, Zenon
  <1>2. Commented(ReadEntry(aliases, e)).recipients = left
    <2> DEFINE st == Or(e.state, Was(aliases, a).state)
               w == Or(e.weight, Was(aliases, a).weight)
               new == Commented(ReadEntry(aliases, e))
    <2>1. new = Commented([state |-> st, weight |-> w, recipients |-> left])
      BY Zenon DEF ReadEntry
    <2> HIDE DEF st, w, left, new
    <2>2. new.recipients = left
      BY <2>1, CommentedIs
    <2> QED
      BY <2>2 DEF new
  <1>3. Safe(a, was)
    BY WasSafe
  <1>4. Safe(a, updated) /\ Texts(updated) = base /\ (Others => Unslashed(updated))
    <2>1. CASE e.to = <<>>
      BY <1>3, <1>8, <2>1, Zenon DEF UpdateRecipients
    <2>2. CASE e.to # <<>>
      <3>1. Last(e.to) \in Seq(Text)
        BY <1>1, <2>2 DEF Last
      <3>2. /\ Marked(a, Plains(Last(e.to))) /\ Texts(Plains(Last(e.to))) = Last(e.to)
            /\ Unslashed(Plains(Last(e.to)))
            /\ a \notin Range(Last(e.to)) =>
                 \A i \in 1..Len(Plains(Last(e.to))) : Plains(Last(e.to))[i] # Plain(a)
        <4> DEFINE t == Last(e.to)
        <4> HIDE DEF t, a
        <4>1. t \in Seq(Text)
          BY <3>1 DEF t
        <4>2. /\ Marked(a, Plains(t)) /\ Texts(Plains(t)) = t /\ Unslashed(Plains(t))
              /\ a \notin Range(t) => \A i \in 1..Len(Plains(t)) : Plains(t)[i] # Plain(a)
          BY <4>1, PlainsAre
        <4> QED
          BY <4>2 DEF t
      <3>3. updated = MangleRecipients(a, Plains(Last(e.to)))
        BY <2>2, Zenon DEF UpdateRecipients
      <3> DEFINE p == Plains(Last(e.to))
                 m == MangleRecipients(a, p)
      <3>4. Safe(a, m) /\ Texts(m) = Texts(p)
        <4> HIDE DEF p, a
        <4>1. Marked(a, p) /\ <<a, a>> \in HasIn
          BY <1>1, <3>2 DEF p, a
        <4> QED
          BY <4>1, Mangled
      <3>5. Others => Unslashed(m)
        <4> HIDE DEF p, a
        <4>1. Others => \A i \in 1..Len(p) : p[i] # Plain(a)
          BY <1>8, <2>2, <3>2 DEF p
        <4>2. p \in Seq(Recipient) /\ Unslashed(p)
          BY <3>2 DEF Marked, p
        <4> QED
          BY <4>1, <4>2, NotMangled
      <3> QED
        BY <2>2, <3>2, <3>3, <3>4, <3>5, Zenon
    <2> QED
      BY <2>1, <2>2
  <1> HIDE DEF a, was, updated, base
  <1>5. /\ Safe(a, added) /\ Texts(added) = base \o FlattenSeq(e.add)
        /\ Others => Unslashed(added)
    BY <1>1, <1>4, <1>8, AddedAre, Zenon
  <1> HIDE DEF added
  <1>6. /\ Safe(a, left) /\ (Others => Unslashed(left))
        /\ (\A t \in Deleted(e) : <<t, a>> \notin HasIn)
             => Texts(left) = Without(Texts(added), Deleted(e))
    <2> DEFINE del == e.del
    <2>1. del \in Seq(Seq(Text)) /\ Safe(a, added) /\ (Others => Unslashed(added))
      BY <1>1, <1>5, Zenon
    <2>2. left = DelRecipients(added, del) /\ Deleted(e) = UNION {Range(del[i]) : i \in DOMAIN del}
      BY Zenon DEF Deleted
    <2> HIDE DEF del, left
    <2>3. /\ Safe(a, DelRecipients(added, del))
          /\ Unslashed(added) => Unslashed(DelRecipients(added, del))
          /\ (\A t \in UNION {Range(del[i]) : i \in DOMAIN del} : <<t, a>> \notin HasIn)
               => Texts(DelRecipients(added, del))
                    = Without(Texts(added), UNION {Range(del[i]) : i \in DOMAIN del})
      BY <2>1, DeletedAre, Zenon
    <2> QED
      BY <2>1, <2>2, <2>3, Zenon
  <1> HIDE DEF left
  <1>7. TellTexts(KnownTexts(aliases, a), e, a) = Without(base \o FlattenSeq(e.add), Deleted(e))
    <2>1. KnownTexts(aliases, a) = Texts(was)
      BY Zenon DEF KnownTexts, was
    <2>2. e.form # "keys"
      OBVIOUS
    <2> QED
      BY <2>1, <2>2, Zenon DEF TellTexts, base
  <1> QED
    BY <1>2, <1>5, <1>6, <1>7, Zenon DEF a, was, Others

LEMMA EntryState ==
    ASSUME NEW aliases, NEW e
    PROVE  LET new == Commented(ReadEntry(aliases, e)) IN
           new.state = IF new.recipients = <<>> THEN "comment"
                       ELSE Or(e.state, Was(aliases, e.name).state)
  <1> DEFINE was == Was(aliases, e.name)
             q == DelRecipients(AddRecipients(e.name, UpdateRecipients(e.name, was.recipients, e.to),
                                              e.add), e.del)
             st == Or(e.state, was.state)
             new == Commented(ReadEntry(aliases, e))
  <1> DEFINE w == Or(e.weight, was.weight)
  <1>1. new = Commented([state |-> st, weight |-> w, recipients |-> q])
    BY Zenon DEF ReadEntry
  <1> HIDE DEF st, q, w, new
  <1>2. new.recipients = q /\ new.state = IF q = <<>> THEN "comment" ELSE st
    BY <1>1, CommentedIs
  <1> QED
    BY <1>2, Zenon DEF st, new

\* The keys of an element are given their recipients, and no other alias is changed.
LEMMA KeysAre ==
    ASSUME NEW aliases, AreAliases(aliases), NEW keys, DOMAIN keys \subseteq AliasNames,
           \A k \in DOMAIN keys : keys[k] \in Seq(Text)
    PROVE  LET after == Over(ReadKeys(aliases, keys), aliases) IN
           /\ AreAliases(after)
           /\ \A k \in DOMAIN keys :
                /\ KnownTexts(after, k) = keys[k]
                /\ k \notin Range(keys[k]) => Unslashed(Was(after, k).recipients)
                /\ Was(after, k).state = IF keys[k] = <<>> THEN "comment" ELSE "present"
           /\ \A k : k \notin DOMAIN keys => Was(after, k) = Was(aliases, k)
  <1> DEFINE new == ReadKeys(aliases, keys)
             after == Over(new, aliases)
  <1>1. /\ DOMAIN after = DOMAIN keys \union DOMAIN aliases
        /\ \A k \in DOMAIN after : after[k] = IF k \in DOMAIN keys THEN new[k] ELSE aliases[k]
    <2>1. DOMAIN new = DOMAIN keys
      BY DEF ReadKeys
    <2> HIDE DEF new
    <2> QED
      BY <2>1 DEF Over
  <1>2. ASSUME NEW k \in DOMAIN keys
        PROVE  /\ Safe(k, new[k].recipients) /\ Texts(new[k].recipients) = keys[k]
               /\ k \notin Range(keys[k]) => Unslashed(new[k].recipients)
               /\ new[k].state = IF keys[k] = <<>> THEN "comment" ELSE "present"
    <2> DEFINE p == Plains(keys[k])
               m == MangleRecipients(k, p)
    <2>1. new[k] = Commented([state |-> "present", weight |-> Was(aliases, k).weight,
                              recipients |-> m])
      BY Zenon DEF ReadKeys
    <2>2. new[k].recipients = m /\ new[k].state = IF m = <<>> THEN "comment" ELSE "present"
      <3> HIDE DEF m
      <3> QED
        BY <2>1, CommentedIs
    <2>3. <<k, k>> \in HasIn
      BY AliasAssumption
    <2>4. /\ Marked(k, p) /\ Texts(p) = keys[k] /\ Unslashed(p)
          /\ k \notin Range(keys[k]) => \A i \in 1..Len(p) : p[i] # Plain(k)
      BY PlainsAre
    <2> HIDE DEF p
    <2>5. Safe(k, m) /\ Texts(m) = Texts(p)
      BY <2>3, <2>4, Mangled
    <2>6. k \notin Range(keys[k]) => Unslashed(m)
      <3>1. p \in Seq(Recipient)
        BY <2>4 DEF Marked
      <3> QED
        BY <2>4, <3>1, NotMangled
    <2>7. m = <<>> <=> keys[k] = <<>>
      BY <2>4, <2>5, NoTexts DEF Safe, Marked
    <2> QED
      BY <2>2, <2>4, <2>5, <2>6, <2>7, Zenon
  <1> HIDE DEF new, after
  <1>3. AreAliases(after)
    BY <1>1, <1>2, Zenon DEF AreAliases
  <1>4. ASSUME NEW k \in DOMAIN keys
        PROVE  /\ KnownTexts(after, k) = keys[k]
               /\ k \notin Range(keys[k]) => Unslashed(Was(after, k).recipients)
               /\ Was(after, k).state = IF keys[k] = <<>> THEN "comment" ELSE "present"
    BY <1>1, <1>2, Zenon DEF KnownTexts, Was
  <1>5. ASSUME NEW k, k \notin DOMAIN keys PROVE Was(after, k) = Was(aliases, k)
    <2>1. k \in DOMAIN after <=> k \in DOMAIN aliases
      BY <1>1, <1>5, Zenon
    <2>2. k \in DOMAIN after => after[k] = aliases[k]
      BY <1>1, <1>5, Zenon
    <2> QED
      BY <2>1, <2>2, Zenon DEF Was
  <1> QED
    BY <1>3, <1>4, <1>5 DEF after, new

LEMMA ThreeFields ==
    ASSUME NEW S, NEW u \in S, NEW v \in S, NEW w \in S
    PROVE  LET r == [name |-> u, state |-> v, real_name |-> w] IN
           DOMAIN r = {"name", "state", "real_name"} /\ \A k \in DOMAIN r : r[k] \in S
  OBVIOUS

LEMMA UnexpectedIs ==
    ASSUME NEW e \in Elements, e.form = "entry"
    PROVE  /\ DOMAIN Unexpected(e) \subseteq AliasNames
           /\ \A k \in DOMAIN Unexpected(e) : Unexpected(e)[k] \in Seq(Text)
  <1> DEFINE three == [name |-> <<e.name>>, state |-> <<"ignore">>, real_name |-> <<"somebody">>]
             rest == IF e.to = <<>> THEN <<>> ELSE [to |-> Last(e.to)]
  <1>1. e.name \in Text /\ e.to \in Seq(Seq(Text)) /\ "ignore" \in Text /\ "somebody" \in Text
    <2>1. e.form # "keys"
      OBVIOUS
    <2> QED
      BY <2>1, AliasAssumption
  <1>2. /\ DOMAIN three = {"name", "state", "real_name"}
        /\ \A k \in DOMAIN three : three[k] \in Seq(Text)
    <2>1. <<e.name>> \in Seq(Text) /\ <<"ignore">> \in Seq(Text) /\ <<"somebody">> \in Seq(Text)
      BY <1>1
    <2> QED
      BY <2>1, ThreeFields, Zenon
  <1>3. DOMAIN rest \subseteq {"to"} /\ \A k \in DOMAIN rest : rest[k] \in Seq(Text)
    <2>1. CASE e.to = <<>>
      BY <2>1
    <2>2. CASE e.to # <<>>
      <3>1. Last(e.to) \in Seq(Text)
        BY <1>1, <2>2 DEF Last
      <3>2. rest = [to |-> Last(e.to)]
        BY <2>2, Zenon
      <3> HIDE DEF rest
      <3> QED
        BY <3>1, <3>2
    <2> QED
      BY <2>1, <2>2
  <1>4. Unexpected(e) = Over(three, rest)
    BY Zenon DEF Unexpected
  <1> HIDE DEF three, rest
  <1>5. /\ DOMAIN Unexpected(e) = DOMAIN three \union DOMAIN rest
        /\ \A k \in DOMAIN Unexpected(e) :
             Unexpected(e)[k] = IF k \in DOMAIN three THEN three[k] ELSE rest[k]
    BY <1>4 DEF Over
  <1>6. DOMAIN Unexpected(e) \subseteq AliasNames
    BY <1>2, <1>3, <1>5 DEF AliasNames
  <1> QED
    BY <1>2, <1>3, <1>5, <1>6, Zenon

\* An element does to each alias what it tells.
MissesOwn(e, a) == e.form = "entry" /\ e.name = a /\ \E t \in Deleted(e) : <<t, a>> \in HasIn
MakesOf(e, a) == e.form = "entry" /\ e.real /\ a \in DOMAIN Unexpected(e)

\* An alias is as it was told: its recipients, its state, its addresses.
AsTold(aliases, a, told) ==
    /\ KnownTexts(aliases, a) = told.texts
    /\ \/ Was(aliases, a).state = told.state
       \/ Was(aliases, a).state = "comment" /\ told.bare
    /\ ~told.itself => Unslashed(Was(aliases, a).recipients)

LEMMA FourFields ==
    ASSUME NEW t, NEW s, NEW b, NEW i
    PROVE  LET r == [texts |-> t, state |-> s, bare |-> b, itself |-> i] IN
           r.texts = t /\ r.state = s /\ r.bare = b /\ r.itself = i
  OBVIOUS

LEMMA TellIs ==
    ASSUME NEW known, NEW e, NEW a
    PROVE  LET told == Tell(known, [of |-> a, by |-> e]) IN
           /\ ~About(e, a) => told = known
           /\ About(e, a) =>
                /\ told.texts = TellTexts(known.texts, e, a)
                /\ told.state = TellState(known.state, e)
                /\ told.bare <=> told.texts = <<>> \/ (known.bare /\ ~GivesState(e))
                /\ told.itself <=> TellsOwn(e, a) \/ (known.itself /\ ~Replaces(e))
  <1> DEFINE x == [of |-> a, by |-> e]
  <1>1. x.of = a /\ x.by = e
    OBVIOUS
  <1> HIDE DEF x
  <1>2. Tell(known, x) =
          IF ~About(e, a) THEN known
          ELSE [texts |-> TellTexts(known.texts, e, a), state |-> TellState(known.state, e),
                bare |-> TellTexts(known.texts, e, a) = <<>> \/ (known.bare /\ ~GivesState(e)),
                itself |-> TellsOwn(e, a) \/ (known.itself /\ ~Replaces(e))]
    BY <1>1, Zenon DEF Tell
  <1> DEFINE texts == TellTexts(known.texts, e, a)
             state == TellState(known.state, e)
             bare == texts = <<>> \/ (known.bare /\ ~GivesState(e))
             itself == TellsOwn(e, a) \/ (known.itself /\ ~Replaces(e))
             told == Tell(known, x)
  <1>3. ASSUME About(e, a)
        PROVE  told.texts = texts /\ told.state = state /\ told.bare = bare /\ told.itself = itself
    <2>1. told = [texts |-> texts, state |-> state, bare |-> bare, itself |-> itself]
      BY <1>2, <1>3, Zenon
    <2> HIDE DEF told, texts, state, bare, itself
    <2> QED
      BY <2>1, FourFields, Zenon
  <1>4. ~About(e, a) => told = known
    BY <1>2, Zenon
  <1> QED
    BY <1>3, <1>4, Zenon DEF x

LEMMA ElementIs ==
    ASSUME NEW aliases, AreAliases(aliases), NEW e \in Elements
    PROVE  /\ AreAliases(ReadElement(aliases, e))
           /\ \A a, known : ~MissesOwn(e, a) /\ ~MakesOf(e, a) /\ AsTold(aliases, a, known) =>
                AsTold(ReadElement(aliases, e), a, Tell(known, [of |-> a, by |-> e]))
  <1> DEFINE after == ReadElement(aliases, e)
             Telling1(a, known) == Tell(known, [of |-> a, by |-> e])
  <1>1. ASSUME NEW a, NEW known, ~About(e, a), Was(after, a) = Was(aliases, a),
               AsTold(aliases, a, known)
        PROVE  AsTold(after, a, Telling1(a, known))
    <2>1. Telling1(a, known) = known
      BY <1>1, TellIs
    <2> HIDE DEF Telling1, after
    <2> QED
      BY <1>1, <2>1, Zenon DEF AsTold, KnownTexts
  <1>2. \/ e.form = "keys" /\ \A k \in DOMAIN e.keys : e.keys[k] \in Seq(Text)
        \/ e.form = "entry" /\ e.real \in BOOLEAN /\ e.to \in Seq(Seq(Text))
    BY AliasAssumption
  <1>3. CASE e.form = "keys"
    <2>1. after = Over(ReadKeys(aliases, e.keys), aliases)
      BY <1>3, Zenon DEF ReadElement
    <2>2. DOMAIN e.keys \subseteq AliasNames
      BY <1>3 DEF AliasNames, KeyNames
    <2>3. \A k \in DOMAIN e.keys : e.keys[k] \in Seq(Text)
      BY <1>2, <1>3
    <2>4. /\ AreAliases(after)
          /\ \A k \in DOMAIN e.keys :
               /\ KnownTexts(after, k) = e.keys[k]
               /\ k \notin Range(e.keys[k]) => Unslashed(Was(after, k).recipients)
               /\ Was(after, k).state = IF e.keys[k] = <<>> THEN "comment" ELSE "present"
          /\ \A k : k \notin DOMAIN e.keys => Was(after, k) = Was(aliases, k)
      <3> HIDE DEF after
      <3> DEFINE keys == e.keys
      <3>1. after = Over(ReadKeys(aliases, keys), aliases) /\ DOMAIN keys \subseteq AliasNames
            /\ \A k \in DOMAIN keys : keys[k] \in Seq(Text)
        BY <2>1, <2>2, <2>3, Zenon
      <3> HIDE DEF keys
      <3>2. /\ AreAliases(after)
            /\ \A k \in DOMAIN keys :
                 /\ KnownTexts(after, k) = keys[k]
                 /\ k \notin Range(keys[k]) => Unslashed(Was(after, k).recipients)
                 /\ Was(after, k).state = IF keys[k] = <<>> THEN "comment" ELSE "present"
            /\ \A k : k \notin DOMAIN keys => Was(after, k) = Was(aliases, k)
        <4> DEFINE z == Over(ReadKeys(aliases, keys), aliases)
        <4>1. /\ AreAliases(z)
              /\ \A k \in DOMAIN keys :
                   /\ KnownTexts(z, k) = keys[k]
                   /\ k \notin Range(keys[k]) => Unslashed(Was(z, k).recipients)
                   /\ Was(z, k).state = IF keys[k] = <<>> THEN "comment" ELSE "present"
              /\ \A k : k \notin DOMAIN keys => Was(z, k) = Was(aliases, k)
          BY <3>1, KeysAre
        <4>2. after = z
          BY <3>1
        <4> HIDE DEF z
        <4> QED
          BY <4>1, <4>2
      <3> QED
        BY <3>2, Zenon DEF keys
    <2>5. ASSUME NEW a, NEW known, AsTold(aliases, a, known)
          PROVE  AsTold(after, a, Telling1(a, known))
      <3>1. CASE a \in DOMAIN e.keys
        <4>1. About(e, a)
          BY <1>3, <3>1, Zenon DEF About
        <4> DEFINE told == Telling1(a, known)
        <4>2. /\ told.texts = TellTexts(known.texts, e, a) /\ told.state = TellState(known.state, e)
              /\ told.bare <=> told.texts = <<>> \/ (known.bare /\ ~GivesState(e))
              /\ told.itself <=> TellsOwn(e, a) \/ (known.itself /\ ~Replaces(e))
          BY <4>1, TellIs
        <4>3. /\ TellTexts(known.texts, e, a) = e.keys[a] /\ TellState(known.state, e) = "present"
              /\ GivesState(e) /\ Replaces(e) /\ (TellsOwn(e, a) <=> a \in Range(e.keys[a]))
          BY <1>3, Zenon DEF TellTexts, TellState, GivesState, Replaces, TellsOwn
        <4> HIDE DEF after, Telling1, told
        <4>4. AsTold(after, a, told)
          BY <2>4, <3>1, <4>2, <4>3, Zenon DEF AsTold
        <4> QED
          BY <4>4 DEF told
      <3>2. CASE a \notin DOMAIN e.keys
        <4>1. ~About(e, a)
          BY <1>3, <3>2, Zenon DEF About
        <4>2. Was(after, a) = Was(aliases, a)
          <5> HIDE DEF after
          <5> QED
            BY <2>4, <3>2, Zenon
        <4> HIDE DEF after, Telling1
        <4> QED
          BY <1>1, <2>5, <4>1, <4>2, Zenon
      <3> QED
        BY <3>1, <3>2
    <2> QED
      BY <2>4, <2>5, Zenon
  <1>4. CASE e.form = "entry" /\ ~Ignored(e)
    <2> DEFINE new == Commented(ReadEntry(aliases, e))
    <2>1. after = Over([a \in {e.name} |-> new], aliases)
      BY <1>4, Zenon DEF ReadElement, Named
    <2>2. /\ Safe(e.name, new.recipients)
          /\ (\A t \in Deleted(e) : <<t, e.name>> \notin HasIn)
               => Texts(new.recipients) = TellTexts(KnownTexts(aliases, e.name), e, e.name)
          /\ ~TellsOwn(e, e.name) /\ (e.to # <<>> \/ Unslashed(Was(aliases, e.name).recipients))
               => Unslashed(new.recipients)
      BY <1>4, EntryIs
    <2>7. new.state = IF new.recipients = <<>> THEN "comment"
                      ELSE Or(e.state, Was(aliases, e.name).state)
      BY EntryState
    <2> HIDE DEF new
    <2>8. Texts(new.recipients) = <<>> <=> new.recipients = <<>>
      BY <2>2, NoTexts DEF Safe, Marked
    <2>3. /\ DOMAIN after = {e.name} \union DOMAIN aliases
          /\ after[e.name] = new
          /\ \A k \in DOMAIN aliases : k # e.name => after[k] = aliases[k]
      <3> HIDE DEF after
      <3> QED
        BY <2>1 DEF Over
    <2>4. e.name \in AliasNames
      BY <1>4 DEF AliasNames, EntryNames
    <2>9. Was(after, e.name) = new /\ \A k : k # e.name => Was(after, k) = Was(aliases, k)
      <3> HIDE DEF after
      <3> QED
        BY <2>3, Zenon DEF Was
    <2>5. AreAliases(after)
      <3> HIDE DEF after
      <3> QED
        BY <2>2, <2>3, <2>4 DEF AreAliases
    <2>6. ASSUME NEW a, NEW known, ~MissesOwn(e, a), AsTold(aliases, a, known)
          PROVE  AsTold(after, a, Telling1(a, known))
      <3>1. CASE a = e.name
        <4>1. \A t \in Deleted(e) : <<t, a>> \notin HasIn
          BY <1>4, <2>6, <3>1, Zenon DEF MissesOwn
        <4>2. About(e, a) /\ e.form # "keys"
          BY <1>4, <3>1 DEF About
        <4> DEFINE told == Telling1(a, known)
        <4>3. /\ told.texts = TellTexts(known.texts, e, a) /\ told.state = TellState(known.state, e)
              /\ told.bare <=> told.texts = <<>> \/ (known.bare /\ ~GivesState(e))
              /\ told.itself <=> TellsOwn(e, a) \/ (known.itself /\ ~Replaces(e))
          BY <4>2, TellIs
        <4>4. TellState(known.state, e) = Or(e.state, known.state)
              /\ (GivesState(e) <=> e.state # Given) /\ (Replaces(e) <=> e.to # <<>>)
          BY <4>2, Zenon DEF TellState, GivesState, Replaces
        <4> HIDE DEF after, Telling1, told
        <4>5. KnownTexts(after, a) = told.texts
          BY <2>2, <2>6, <2>9, <3>1, <4>1, <4>3, Zenon DEF AsTold, KnownTexts
        <4>6. \/ Was(after, a).state = told.state
              \/ Was(after, a).state = "comment" /\ told.bare
          <5>1. CASE new.recipients = <<>>
            BY <2>7, <2>8, <2>9, <3>1, <4>3, <4>5, <5>1, Zenon DEF KnownTexts
          <5>2. CASE new.recipients # <<>> /\ e.state # Given
            BY <2>7, <2>9, <3>1, <4>3, <4>4, <5>2, Zenon DEF Or
          <5>3. CASE new.recipients # <<>> /\ e.state = Given
            BY <2>6, <2>7, <2>9, <3>1, <4>3, <4>4, <5>3, Zenon DEF Or, AsTold
          <5> QED
            BY <5>1, <5>2, <5>3
        <4>7. ~told.itself => Unslashed(Was(after, a).recipients)
          BY <2>2, <2>6, <2>9, <3>1, <4>3, <4>4, Zenon DEF AsTold
        <4>8. AsTold(after, a, told)
          BY <4>5, <4>6, <4>7, Zenon DEF AsTold
        <4> QED
          BY <4>8 DEF told
      <3>2. CASE a # e.name
        <4>1. ~About(e, a)
          BY <1>4, <3>2 DEF About
        <4>2. Was(after, a) = Was(aliases, a)
          <5> HIDE DEF after
          <5> QED
            BY <2>9, <3>2, Zenon
        <4> HIDE DEF after, Telling1
        <4> QED
          BY <1>1, <2>6, <4>1, <4>2, Zenon
      <3> QED
        BY <3>1, <3>2
    <2> HIDE DEF after, Telling1
    <2> QED
      BY <2>5, <2>6, Zenon DEF after, Telling1
  <1>5. CASE e.form = "entry" /\ Ignored(e) /\ e.real
    <2> DEFINE keys == Unexpected(e)
    <2>1. after = Over(ReadKeys(aliases, keys), aliases)
      BY <1>5 DEF ReadElement
    <2>2. DOMAIN keys \subseteq AliasNames /\ \A k \in DOMAIN keys : keys[k] \in Seq(Text)
      BY <1>5, UnexpectedIs
    <2> HIDE DEF keys
    <2>3. /\ AreAliases(after)
          /\ \A k : k \notin DOMAIN keys => Was(after, k) = Was(aliases, k)
      <3> HIDE DEF after
      <3> QED
        BY <2>1, <2>2, KeysAre, Zenon
    <2>4. ASSUME NEW a, NEW known, ~MakesOf(e, a), AsTold(aliases, a, known)
          PROVE  AsTold(after, a, Telling1(a, known))
      <3>1. a \notin DOMAIN keys
        BY <1>5, <2>4, Zenon DEF MakesOf, keys
      <3>2. ~About(e, a)
        BY <1>5 DEF About
      <3>3. Was(after, a) = Was(aliases, a)
        <4> HIDE DEF after
        <4> QED
          BY <2>3, <3>1, Zenon
      <3> HIDE DEF after, Telling1
      <3> QED
        BY <1>1, <2>4, <3>2, <3>3, Zenon
    <2> QED
      BY <2>3, <2>4, Zenon
  <1>6. CASE e.form = "entry" /\ Ignored(e) /\ ~e.real
    <2>1. after = aliases
      BY <1>6 DEF ReadElement
    <2>2. \A a : ~About(e, a)
      BY <1>6 DEF About
    <2>3. \A a : Was(after, a) = Was(aliases, a)
      <3> HIDE DEF after
      <3> QED
        BY <2>1, Zenon
    <2>4. AreAliases(after)
      <3> HIDE DEF after
      <3> QED
        BY <2>1, Zenon
    <2> HIDE DEF after, Telling1
    <2> QED
      BY <1>1, <2>2, <2>3, <2>4, Zenon DEF after, Telling1
  <1> QED
    BY <1>2, <1>3, <1>4, <1>5, <1>6, Zenon

-----------------------------------------------------------------------------
\* What was told is told one element after another.
LEMMA ToldMore ==
    ASSUME NEW s \in Seq(Elements), NEW e \in Elements, NEW a
    PROVE  ToldBy(Append(s, e), a) = Tell(ToldBy(s, a), [of |-> a, by |-> e])
  <1> DEFINE S == [of : {a}, by : Elements]
             x == [of |-> a, by |-> e]
             q == [i \in DOMAIN s |-> [of |-> a, by |-> s[i]]]
             more == [i \in DOMAIN Append(s, e) |-> [of |-> a, by |-> Append(s, e)[i]]]
  <1>1. /\ DOMAIN s = 1..Len(s) /\ Len(s) \in Nat
        /\ \A i \in 1..Len(s) : s[i] \in Elements
    OBVIOUS
  <1>2. q \in Seq(S) /\ Len(q) = Len(s) /\ x \in S
    BY <1>1
  <1>3. more = Append(q, x)
    <2> DEFINE all == Append(s, e)
               n == Len(s)
    <2>1. DOMAIN all = 1..(n + 1) /\ all[n + 1] = e /\ \A i \in 1..n : all[i] = s[i]
      OBVIOUS
    <2>2. DOMAIN Append(q, x) = 1..(n + 1) /\ Append(q, x)[n + 1] = x
          /\ \A i \in 1..n : Append(q, x)[i] = q[i]
      <3> HIDE DEF q, x, n, S
      <3>1. n \in Nat /\ Len(q) = n
        BY <1>1, <1>2 DEF n
      <3> QED
        BY <1>2, <3>1
    <2>3. \A i \in 1..n : q[i] = [of |-> a, by |-> s[i]]
      BY <1>1
    <2>4. Append(q, x) = [i \in 1..(n + 1) |-> Append(q, x)[i]]
      <3> HIDE DEF q, x, n, S
      <3>1. Append(q, x) \in Seq(S) /\ Len(Append(q, x)) = n + 1
        BY <1>2 DEF n
      <3>2. \A f \in Seq(S) : f = [i \in 1..Len(f) |-> f[i]]
        OBVIOUS
      <3> QED
        BY <3>1, <3>2, Zenon
    <2>5. more = [i \in 1..(n + 1) |-> [of |-> a, by |-> all[i]]]
      BY <2>1, Zenon
    <2> HIDE DEF all, more, q, n
    <2>6. \A i \in 1..(n + 1) : [of |-> a, by |-> all[i]] = Append(q, x)[i]
      <3> TAKE i \in 1..(n + 1)
      <3>1. i = n + 1 \/ i \in 1..n
        BY <1>1 DEF n
      <3> QED
        BY <2>1, <2>2, <2>3, <3>1, Zenon
    <2> QED
      BY <2>4, <2>5, <2>6, Zenon
  <1>4. ToldBy(s, a) = Telling!Fold(ToldNone, q)
    BY Zenon DEF ToldBy, FoldLeft, MapThenFoldSet, Max,
         Telling!Fold, Telling!FoldLeft, Telling!MapThenFoldSet, Telling!Max
  <1>5. ToldBy(Append(s, e), a) = Telling!Fold(ToldNone, more)
    BY Zenon DEF ToldBy, FoldLeft, MapThenFoldSet, Max,
         Telling!Fold, Telling!FoldLeft, Telling!MapThenFoldSet, Telling!Max
  <1> HIDE DEF q, more, x, S
  <1>6. Telling!Fold(ToldNone, Append(q, x)) = Tell(Telling!Fold(ToldNone, q), x)
    BY <1>2, Telling!FoldAppend
  <1> QED
    BY <1>3, <1>4, <1>5, <1>6, Zenon DEF x

LEMMA ToldNothing == \A a : ToldBy(<<>>, a) = ToldNone
  <1> TAKE a
  <1> DEFINE q == [i \in DOMAIN <<>> |-> [of |-> a, by |-> <<>>[i]]]
  <1>1. q = <<>>
    <2>1. DOMAIN <<>> = {}
      OBVIOUS
    <2> QED
      BY <2>1
  <1>2. ToldBy(<<>>, a) = Telling!Fold(ToldNone, q)
    BY Zenon DEF ToldBy, FoldLeft, MapThenFoldSet, Max,
         Telling!Fold, Telling!FoldLeft, Telling!MapThenFoldSet, Telling!Max
  <1> HIDE DEF q
  <1>3. <<>> \in Seq({}) /\ Len(<<>>) = 0
    OBVIOUS
  <1>4. PICK r : r[0] = ToldNone /\ r[Len(<<>>)] = Telling!Fold(ToldNone, <<>>)
    BY <1>3, Telling!FoldRow
  <1> QED
    BY <1>1, <1>2, <1>3, <1>4, Zenon

\* Every alias is as it was told, unless an element deletes a recipient with its
\* name or an ignored one makes an alias of its key.
AliasInv ==
    /\ read \in Seq(Elements) /\ AreAliases(parsed)
    /\ \A a : AsMeant(a) => AsTold(parsed, a, Told(a))

\* What an alias has against it is of an element read so far or of the next.
LEMMA MissesMore ==
    ASSUME read \in Seq(Elements), NEW e \in Elements, read' = Append(read, e), NEW a
    PROVE  /\ DeletesOwn(a) \/ MissesOwn(e, a) => DeletesOwn(a)'
           /\ Misread(a) \/ MakesOf(e, a) => Misread(a)'
  <1> DEFINE n == Len(read)
             all == Append(read, e)
  <1>1. /\ n \in Nat /\ DOMAIN read = 1..n /\ DOMAIN all = 1..(n + 1) /\ all[n + 1] = e
        /\ \A i \in 1..n : all[i] = read[i]
    OBVIOUS
  <1>2. \A i \in DOMAIN read : i \in DOMAIN all /\ all[i] = read[i]
    BY <1>1
  <1>3. n + 1 \in DOMAIN all
    BY <1>1
  <1> HIDE DEF n, all
  <1>4. read' = all
    BY DEF all
  <1>5. DeletesOwn(a) => DeletesOwn(a)'
    BY <1>2, <1>4, Zenon DEF DeletesOwn
  <1>6. MissesOwn(e, a) => DeletesOwn(a)'
    BY <1>1, <1>3, <1>4, Zenon DEF DeletesOwn, MissesOwn
  <1>7. Misread(a) => Misread(a)'
    BY <1>2, <1>4, Zenon DEF Misread
  <1>8. MakesOf(e, a) => Misread(a)'
    BY <1>1, <1>3, <1>4, Zenon DEF Misread, MakesOf
  <1> QED
    BY <1>5, <1>6, <1>7, <1>8

LEMMA AliasStart == AliasInit => AliasInv
  <1> SUFFICES ASSUME AliasInit PROVE AliasInv
    OBVIOUS
  <1>1. parsed = <<>> /\ read = <<>> /\ DOMAIN parsed = {}
    BY DEF AliasInit
  <1>2. read \in Seq(Elements) /\ AreAliases(parsed)
    BY <1>1 DEF AreAliases
  <1>3. \A a : AsTold(parsed, a, ToldNone)
    <2> TAKE a
    <2>1. Was(parsed, a) = NoAlias
      BY <1>1 DEF Was
    <2>2. Texts(<<>>) = <<>> /\ Unslashed(<<>>)
      BY DEF Texts, Unslashed
    <2>3. NoAlias.recipients = <<>> /\ NoAlias.state = "present"
          /\ ToldNone.texts = <<>> /\ ToldNone.state = "present"
      BY DEF NoAlias, ToldNone
    <2> QED
      BY <2>1, <2>2, <2>3, Zenon DEF AsTold, KnownTexts
  <1>4. \A a : Told(a) = ToldNone
    BY <1>1, ToldNothing, Zenon DEF Told
  <1> QED
    BY <1>2, <1>3, <1>4, Zenon DEF AliasInv

LEMMA AliasStep == AliasInv /\ [AliasNext]_aliasVars => AliasInv'
  <1> SUFFICES ASSUME AliasInv, [AliasNext]_aliasVars PROVE AliasInv'
    OBVIOUS
  <1>1. CASE AliasNext
    <2>1. PICK e \in Elements : parsed' = ReadElement(parsed, e) /\ read' = Append(read, e)
      BY <1>1, Zenon DEF AliasNext
    <2>2. read \in Seq(Elements) /\ AreAliases(parsed)
      BY DEF AliasInv
    <2>3. read' \in Seq(Elements)
      BY <2>1, <2>2
    <2>4. AreAliases(parsed)'
      <3>1. AreAliases(ReadElement(parsed, e))
        BY <2>2, ElementIs, Zenon
      <3> QED
        BY <2>1, <3>1, Zenon DEF AreAliases, Safe, Marked
    <2>5. ASSUME NEW a, AsMeant(a)' PROVE AsTold(parsed, a, Told(a))'
      <3>1. AsMeant(a) /\ ~MissesOwn(e, a) /\ ~MakesOf(e, a)
        BY <2>1, <2>2, <2>5, MissesMore, Zenon DEF AsMeant
      <3>2. AsTold(parsed, a, Told(a))
        BY <3>1, Zenon DEF AliasInv
      <3>3. AsTold(ReadElement(parsed, e), a, Tell(Told(a), [of |-> a, by |-> e]))
        BY <2>2, <3>1, <3>2, ElementIs, Zenon
      <3>4. ToldBy(Append(read, e), a) = Tell(ToldBy(read, a), [of |-> a, by |-> e])
        BY <2>2, ToldMore, Zenon
      <3>5. KnownTexts(parsed, a)' = KnownTexts(ReadElement(parsed, e), a)
            /\ Was(parsed, a)' = Was(ReadElement(parsed, e), a)
        BY <2>1, Zenon DEF KnownTexts, Was, Texts
      <3>6. Told(a)' = ToldBy(Append(read, e), a)
        BY <2>1, Zenon DEF Told, ToldBy
      <3>7. Told(a)' = Tell(Told(a), [of |-> a, by |-> e])
        BY <3>4, <3>6, Zenon DEF Told
      <3> QED
        BY <3>3, <3>5, <3>7, Zenon DEF AsTold, Unslashed
    <2> QED
      BY <2>3, <2>4, <2>5, Zenon DEF AliasInv
  <1>2. CASE UNCHANGED aliasVars
    <2>1. parsed' = parsed /\ read' = read
      BY <1>2 DEF aliasVars
    <2>2. AreAliases(parsed)' = AreAliases(parsed)
      BY <2>1, Zenon DEF AreAliases, Safe, Marked
    <2>3. \A a : /\ KnownTexts(parsed, a)' = KnownTexts(parsed, a) /\ Told(a)' = Told(a)
                 /\ Was(parsed, a)' = Was(parsed, a)
      BY <2>1, Zenon DEF KnownTexts, Was, Texts, Told, ToldBy
    <2>4. \A a : AsMeant(a)' = AsMeant(a)
      BY <2>1, Zenon DEF AsMeant, DeletesOwn, Misread
    <2>5. \A a : AsTold(parsed, a, Told(a)) => AsTold(parsed, a, Told(a))'
      BY <2>3, Zenon DEF AsTold, Unslashed
    <2> QED
      BY <2>1, <2>2, <2>4, <2>5, Zenon DEF AliasInv
  <1> QED
    BY <1>1, <1>2

LEMMA AliasMeans == AliasInv => MailArrives
  <1> SUFFICES ASSUME AliasInv PROVE MailArrives
    OBVIOUS
  <1>1. AreAliases(parsed)
    BY DEF AliasInv
  <1>2. NoMailLoop
    <2> SUFFICES ASSUME NEW a \in DOMAIN parsed, Plain(a) \in Range(parsed[a].recipients)
                 PROVE  FALSE
      BY Zenon DEF NoMailLoop
    <2> DEFINE q == parsed[a].recipients
    <2>1. Safe(a, q)
      BY <1>1, Zenon DEF AreAliases
    <2>2. PICK i \in DOMAIN q : q[i] = Plain(a)
      BY Zenon DEF Range
    <2> HIDE DEF q
    <2>3. i \in 1..Len(q)
      BY <2>1, <2>2 DEF Safe, Marked
    <2> QED
      BY <2>1, <2>2, <2>3, Zenon DEF Safe
  <1>3. ASSUME NEW a \in DOMAIN parsed, AsMeant(a)
        PROVE  /\ Texts(parsed[a].recipients) = Told(a).texts
               /\ \A i \in DOMAIN parsed[a].recipients : parsed[a].recipients[i].slashes # 0 =>
                    <<parsed[a].recipients[i].of, a>> \in HasIn /\ Told(a).itself
               /\ \/ parsed[a].state = Told(a).state
                  \/ parsed[a].state = "comment" /\ Told(a).bare
    <2> DEFINE q == parsed[a].recipients
    <2>1. Was(parsed, a) = parsed[a]
      BY Zenon DEF Was
    <2>2. AsTold(parsed, a, Told(a)) /\ Safe(a, q)
      BY <1>1, <1>3, Zenon DEF AliasInv, AreAliases
    <2>3. ~Told(a).itself => Unslashed(q)
      BY <2>1, <2>2, Zenon DEF AsTold
    <2> HIDE DEF q
    <2>4. ASSUME NEW i \in DOMAIN q, q[i].slashes # 0
          PROVE  <<q[i].of, a>> \in HasIn /\ Told(a).itself
      <3>1. i \in 1..Len(q)
        BY <2>2 DEF Safe, Marked
      <3> QED
        BY <2>2, <2>3, <2>4, <3>1, Zenon DEF Safe, Marked, Unslashed
    <2> QED
      BY <2>1, <2>2, <2>4, Zenon DEF AsTold, KnownTexts, q
  <1>4. RecipientsAsTold
    BY <1>3, Zenon DEF RecipientsAsTold
  <1>5. StateAsTold
    BY <1>3, Zenon DEF StateAsTold
  <1> QED
    BY <1>2, <1>4, <1>5 DEF MailArrives

\* Mail to an alias never comes back to it.  It goes to the recipients the alias was
\* told to have, in that order and with the addresses as told, and the alias is in
\* the state it was told, whatever the elements and however many are read.  The
\* exceptions are those of MailArrives: other recipients with the name of an alias
\* in them that was told itself, an alias that once had no recipients, deletions of
\* recipients with the name in them, and ignored entries with a real name.
THEOREM MailDelivered == AliasSpec => []MailArrives
  <1>1. AliasSpec => []AliasInv
    BY AliasStart, AliasStep, PTL DEF AliasSpec
  <1> QED
    BY <1>1, AliasMeans, PTL
=============================================================================
