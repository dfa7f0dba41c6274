----------------------------- MODULE SpecApply -----------------------------
(***************************************************************************)
(* Applying an inventory specification to an Ansible inventory, the way    *)
(* `debops project refresh --template` and its siblings do it: a snapshot  *)
(* of what exists, the skeleton directories, the refusal of symbolic       *)
(* links, the removals, the directories to empty and the files to write,   *)
(* one system call at a time.  The command may be killed between any two   *)
(* of them and run again.                                                  *)
(*                                                                         *)
(* A path is an element of Paths; what the directory tree looks like is    *)
(* given by Above.  The patterns of the `keep' list stand for the set of   *)
(* paths they match.                                                       *)
(***************************************************************************)
EXTENDS Naturals, FiniteSets

CONSTANTS
    Paths,      \* the paths below the inventory directory
    Above,      \* Above[p]: the directories between the inventory and p
    Skel,       \* the skeleton directories of an inventory
    Documents,  \* the specifications that may be applied
    Trees,      \* the inventories to begin with
    MaxRuns,    \* (bound) how many times the command is run
    NoPath

Below(p) == {q \in Paths : p \in Above[q]}

ASSUME PathsAssumption ==
    /\ NoPath \notin Paths
    /\ Above \in [Paths -> SUBSET Paths]
    /\ \A p \in Paths : p \notin Above[p]
    /\ \A p \in Paths : \A q \in Above[p] : Above[q] \subseteq Above[p]
    /\ Skel \subseteq Paths
    /\ \A p \in Skel : Above[p] \subseteq Skel
    /\ MaxRuns \in Nat \ {0}

\* An entry is null, null under a name that ends in a slash, an empty string
\* under such a name, or the text of a file.
Removals == {"null", "null/"}
Entries == Removals \union {"empty/", "text"}
Links == {"link", "dirlink"}      \* to a file or to a directory elsewhere
Files == {"old", "torn", "new"}   \* before the command, cut short, written
Nodes == {"absent", "dir"} \union Links \union Files

\* What exists is in a directory.
WellFormed(t) == \A p \in Paths : t[p] # "absent" => \A q \in Above[p] : t[q] = "dir"

ASSUME DocumentsAssumption ==
    /\ \A d \in Documents :
        /\ DOMAIN d.files \subseteq Paths
        /\ \A e \in DOMAIN d.files : d.files[e] \in Entries
        /\ d.keep \subseteq Paths
        /\ d.force \in BOOLEAN /\ d.dry \in BOOLEAN
    /\ Trees \subseteq [Paths -> Nodes]
    /\ \A t \in Trees : WellFormed(t)

VARIABLES
    fs,      \* the inventory: what is at each path
    doc,     \* the specification, with --force and --dry-run
    pre,     \* pre_existing: the paths that existed before the command
    phase,   \* where the command is
    todo,    \* entries still to be dealt with in this phase
    cur,     \* the entry whose directory is being cleared, or file written
    res,     \* the result mapping
    plan,    \* the result of a dry run; (history) of one made beforehand
    before,  \* (history) the inventory when the command took its snapshot
    origin,  \* (history) the inventory before the first run
    runs     \* (bound) runs so far

vars == <<fs, doc, pre, phase, todo, cur, res, plan, before, origin, runs>>
inputs == <<doc, pre, plan, before, origin, runs>>

-----------------------------------------------------------------------------
(* The predicates of the code.                                             *)

\* _keep_matcher(): a pattern matches the path or a directory above it.
Kept(p) == (Above[p] \union {p}) \intersect doc.keep # {}

\* keeps() resolves its argument first, so a link is judged by its target.
KeptNode(t, p) == Kept(p) /\ t[p] \notin Links \union {"absent"}

\* What _clear_directory() leaves behind.
Survives(t, p) == \E q \in Below(p) \union {p} : KeptNode(t, q)

\* Mutant: the path itself is forgotten.
ProtectedBelow(p, isdir) == isdir /\ Below(p) \intersect pre # {}

Protected(p, isdir) == p \in pre \/ (isdir /\ Below(p) \intersect pre # {})
MayTouch(p, isdir) == doc.force \/ ~Protected(p, isdir)

\* Mutant: write_file() called without overwrite.
SkippedExisting(e) == ~MayTouch(e, FALSE) \/ fs[e] \in Files

\* A file is not written over what the user has.
Skipped(e) == ~MayTouch(e, FALSE)

\* existing_paths(): a link is recorded under the name of its target.
Existing(t) == {p \in Paths : t[p] \notin Links \union {"absent"}}

\* os.makedirs() fails when a file is in the way, and follows a link to a
\* directory: what it makes there is not in the inventory.
CanMake(t, p) == \A q \in Above[p] \union {p} : t[q] \in {"absent", "dir", "dirlink"}
Here(t, p) == \A q \in Above[p] : t[q] # "dirlink"
Make(t, D) == [q \in Paths |->
    IF q \in D /\ t[q] = "absent" /\ Here(t, q) THEN "dir" ELSE t[q]]

NamesDirectory(e) == doc.files[e] \in {"null/", "empty/"}

\* _assert_no_symlinks()
Refused(t, e) ==
    \/ \E q \in Above[e] \union {e} : t[q] \in Links
    \/ NamesDirectory(e) /\ t[e] = "dir" /\ \E q \in Below(e) : t[q] \in Links

Of(kinds) == {e \in DOMAIN doc.files : doc.files[e] \in kinds}

-----------------------------------------------------------------------------
(* The dry run: the same decisions taken on an inventory that stays as it  *)
(* is.                                                                     *)

Cleared(t, e) == {q \in Below(e) : t[q] # "absent" /\ ~Survives(t, q)}
KeptBelow(t, e) == {q \in Below(e) : KeptNode(t, q)}

\* Mutant: the dry run forgets that kept content keeps the directory.
DryRemovedWhole(t, e) ==
    IF t[e] = "absent" \/ Kept(e) \/ ~MayTouch(e, t[e] = "dir") THEN {}
    ELSE Cleared(t, e) \union {e}

DryRemoved(t, e) ==
    IF t[e] = "absent" \/ Kept(e) \/ ~MayTouch(e, t[e] = "dir") THEN {}
    ELSE IF t[e] # "dir" THEN {e}
    ELSE Cleared(t, e) \union (IF KeptBelow(t, e) = {} THEN {e} ELSE {})

DryEmptied(t, e) ==
    IF Kept(e) \/ ~MayTouch(e, TRUE) \/ t[e] = "absent" THEN {}
    ELSE IF t[e] = "dir" THEN Cleared(t, e) ELSE {e}

DryRun(t) ==
    LET gone == {e \in Of(Removals) : t[e] # "absent"}
        full == {e \in Of({"empty/"}) : MayTouch(e, TRUE) /\ t[e] = "dir"}
        text == Of({"text"})
    IN  [removed |-> (UNION {DryRemoved(t, e) : e \in gone})
                       \union (UNION {DryEmptied(t, e) : e \in Of({"empty/"})}),
         written |-> {e \in Of({"empty/"}) : ~Kept(e) /\ MayTouch(e, TRUE)}
                       \union {e \in text : ~Kept(e) /\ MayTouch(e, FALSE)},
         skipped |-> {e \in gone : ~Kept(e) /\ ~MayTouch(e, t[e] = "dir")}
                       \union {e \in Of({"empty/"}) : ~Kept(e) /\ ~MayTouch(e, TRUE)}
                       \union {e \in text : ~Kept(e) /\ ~MayTouch(e, FALSE)},
         kept |-> {e \in gone : Kept(e)}
                    \union {e \in Of({"empty/", "text"}) : Kept(e)}
                    \union {e \in gone : MayTouch(e, TRUE) /\ KeptBelow(t, e) # {}}
                    \union (UNION {KeptBelow(t, e) : e \in
                              {g \in gone : MayTouch(g, TRUE) /\ ~Kept(g)}
                              \union {g \in full : ~Kept(g)}})]

Nothing == [removed |-> {}, written |-> {}, skipped |-> {}, kept |-> {}]

-----------------------------------------------------------------------------

Init ==
    /\ fs \in Trees
    /\ doc \in Documents
    /\ pre = {} /\ todo = {} /\ cur = NoPath
    /\ phase = "idle"
    /\ res = Nothing /\ plan = Nothing
    /\ before = fs /\ origin = fs
    /\ runs = 0

\* The entries are sorted: a directory comes before what is inside it.
Next1(e) == cur = NoPath /\ e \in todo /\ Above[e] \intersect todo = {}

Report(field, S) == res' = [res EXCEPT ![field] = @ \union S]
Finish(e) == todo' = todo \ {e} /\ cur' = NoPath

\* Mutant: what is removed is not reported.
RemoveSilently(p) == fs' = [fs EXCEPT ![p] = "absent"] /\ UNCHANGED res

Remove(p) == fs' = [fs EXCEPT ![p] = "absent"] /\ Report("removed", {p})

\* The snapshot.  The first run may be the one that creates the view: what is
\* in the inventory was then written by DebOps after an empty snapshot.
Begin ==
    /\ phase = "idle" /\ runs < MaxRuns
    /\ runs' = runs + 1
    /\ pre' \in {Existing(fs)} \union (IF runs = 0 THEN {{}} ELSE {})
    /\ before' = fs
    /\ todo' = Skel /\ cur' = NoPath /\ res' = Nothing
    /\ phase' = "skel"
    /\ UNCHANGED <<fs, doc, plan, origin>>

\* createdirs()
SkelDir(e) ==
    /\ phase = "skel" /\ Next1(e)
    /\ UNCHANGED <<res, inputs>>
    /\ \/ CanMake(fs, e) /\ fs' = Make(fs, Above[e] \union {e}) /\ Finish(e) /\ UNCHANGED phase
       \/ ~CanMake(fs, e) /\ phase' = "error" /\ UNCHANGED <<fs, todo, cur>>

\* Links are refused before anything is changed; --dry-run stops here.
Check ==
    /\ phase = "check"
    /\ plan' = DryRun(fs)
    /\ \/ /\ \E e \in DOMAIN doc.files : Refused(fs, e)
          /\ phase' = "refused"
          /\ UNCHANGED todo
       \/ /\ ~\E e \in DOMAIN doc.files : Refused(fs, e)
          /\ \/ doc.dry /\ phase' = "planned" /\ UNCHANGED todo
             \/ ~doc.dry /\ phase' = "remove" /\ todo' = Of(Removals)
    /\ UNCHANGED <<fs, doc, pre, cur, res, before, origin, runs>>

\* _remove_entry()
RemoveEntry(e) ==
    /\ phase = "remove" /\ Next1(e)
    /\ UNCHANGED <<phase, inputs>>
    /\ \/ fs[e] = "absent" /\ Finish(e) /\ UNCHANGED <<fs, res>>
       \/ /\ fs[e] # "absent" /\ Kept(e)
          /\ Report("kept", {e}) /\ Finish(e) /\ UNCHANGED fs
       \/ /\ fs[e] # "absent" /\ ~Kept(e) /\ ~MayTouch(e, fs[e] = "dir")
          /\ Report("skipped", {e}) /\ Finish(e) /\ UNCHANGED fs
       \/ /\ fs[e] = "dir" /\ ~Kept(e) /\ MayTouch(e, TRUE)
          /\ cur' = e /\ UNCHANGED <<fs, res, todo>>
       \/ /\ fs[e] \notin {"absent", "dir"} /\ ~Kept(e) /\ MayTouch(e, FALSE)
          /\ Remove(e) /\ Finish(e)

\* _clear_directory(), one os.remove() or os.rmdir() at a time, bottom-up.
\* A link to a directory is listed as one, and os.rmdir() fails on it.
Clear(p) ==
    /\ phase \in {"remove", "empty"} /\ cur # NoPath
    /\ p \in Below(cur) /\ fs[p] # "absent" /\ ~Survives(fs, p)
    /\ \A q \in Below(p) : fs[q] = "absent"
    /\ UNCHANGED <<todo, cur, inputs>>
    /\ \/ fs[p] # "dirlink" /\ Remove(p) /\ UNCHANGED phase
       \/ fs[p] = "dirlink" /\ phase' = "error" /\ UNCHANGED <<fs, res>>

IsCleared == cur # NoPath /\ \A q \in Below(cur) : fs[q] = "absent" \/ Survives(fs, q)

RemoveCleared ==
    /\ phase = "remove" /\ IsCleared
    /\ Finish(cur)
    /\ UNCHANGED <<phase, inputs>>
    /\ \/ KeptBelow(fs, cur) = {} /\ Remove(cur)
       \/ /\ KeptBelow(fs, cur) # {}
          /\ Report("kept", KeptBelow(fs, cur) \union {cur})
          /\ UNCHANGED fs

\* Mutant: --force clears what is kept.
EmptyEntryForced(e) ==
    /\ phase = "empty" /\ Next1(e)
    /\ UNCHANGED <<phase, inputs>>
    /\ \/ ~doc.force /\ Report("kept", {e}) /\ Finish(e) /\ UNCHANGED fs
       \/ /\ doc.force /\ cur' = e /\ UNCHANGED todo
          /\ \/ fs[e] \in {"absent", "dir"} /\ UNCHANGED <<fs, res>>
             \/ fs[e] \notin {"absent", "dir"} /\ Remove(e)

\* Mutant: a directory that exists is taken to be empty.
EmptyEntryLazily(e) ==
    /\ phase = "empty" /\ Next1(e)
    /\ UNCHANGED <<phase, inputs>>
    /\ \/ fs[e] = "dir" /\ Report("written", {e}) /\ Finish(e) /\ UNCHANGED fs
       \/ /\ fs[e] = "absent" /\ ~Kept(e) /\ MayTouch(e, TRUE)
          /\ cur' = e /\ UNCHANGED <<todo, fs, res>>

\* _empty_dir()
EmptyEntry(e) ==
    /\ phase = "empty" /\ Next1(e)
    /\ UNCHANGED <<phase, inputs>>
    /\ \/ Kept(e) /\ Report("kept", {e}) /\ Finish(e) /\ UNCHANGED fs
       \/ /\ ~Kept(e) /\ ~MayTouch(e, TRUE)
          /\ Report("skipped", {e}) /\ Finish(e) /\ UNCHANGED fs
       \/ /\ ~Kept(e) /\ MayTouch(e, TRUE)
          /\ cur' = e /\ UNCHANGED todo
          /\ \/ fs[e] \in {"absent", "dir"} /\ UNCHANGED <<fs, res>>
             \/ fs[e] \notin {"absent", "dir"} /\ Remove(e)

EmptyCleared ==
    /\ phase = "empty" /\ IsCleared
    /\ UNCHANGED inputs
    /\ \/ /\ CanMake(fs, cur)
          /\ fs' = Make(fs, Above[cur] \union {cur})
          /\ res' = [res EXCEPT !.kept = @ \union KeptBelow(fs, cur),
                                !.written = @ \union {cur}]
          /\ Finish(cur)
          /\ UNCHANGED phase
       \/ ~CanMake(fs, cur) /\ phase' = "error" /\ UNCHANGED <<fs, res, todo, cur>>

\* write_file() makes the directories, opens the file, which truncates it ...
WriteEntry(e) ==
    /\ phase = "write" /\ Next1(e)
    /\ UNCHANGED inputs
    /\ \/ /\ Kept(e)
          /\ Report("kept", {e}) /\ Finish(e) /\ UNCHANGED <<fs, phase>>
       \/ /\ ~Kept(e) /\ Skipped(e)
          /\ Report("skipped", {e}) /\ Finish(e) /\ UNCHANGED <<fs, phase>>
       \/ /\ ~Kept(e) /\ ~Skipped(e)
          /\ fs[e] # "dir" /\ \A q \in Above[e] : CanMake(fs, q)
          /\ fs' = [Make(fs, Above[e]) EXCEPT ![e] = "torn"]
          /\ cur' = e
          /\ UNCHANGED <<phase, res, todo>>
       \/ /\ ~Kept(e) /\ ~Skipped(e)
          /\ fs[e] = "dir" \/ \E q \in Above[e] : ~CanMake(fs, q)
          /\ phase' = "error" /\ UNCHANGED <<fs, res, todo, cur>>

\* ... and writes it.
WriteText ==
    /\ phase = "write" /\ cur # NoPath
    /\ fs' = [fs EXCEPT ![cur] = "new"]
    /\ Report("written", {cur}) /\ Finish(cur)
    /\ UNCHANGED <<phase, inputs>>

\* From one pass to the next.
Pass ==
    /\ cur = NoPath /\ todo = {}
    /\ \/ phase = "skel" /\ phase' = "check" /\ todo' = {}
       \/ phase = "remove" /\ phase' = "empty" /\ todo' = Of({"empty/"})
       \/ phase = "empty" /\ phase' = "write" /\ todo' = Of({"text"})
       \/ phase = "write" /\ phase' = "done" /\ todo' = {}
    /\ UNCHANGED <<fs, cur, res, inputs>>

Passes == {"remove", "empty", "write"}
Working == {"skel", "check"} \union Passes
Ended == {"done", "planned", "refused", "error", "killed"}

Kill ==
    /\ phase \in Working
    /\ phase' = "killed"
    /\ UNCHANGED <<fs, todo, cur, res, inputs>>

\* The same command once more.
Again ==
    /\ phase \in Ended /\ runs < MaxRuns
    /\ phase' = "idle"
    /\ UNCHANGED <<fs, todo, cur, res, inputs>>

\* The last command has ended.
Stop ==
    /\ phase \in Ended /\ runs = MaxRuns
    /\ UNCHANGED vars

Work ==
    \/ Begin \/ Check \/ RemoveCleared \/ EmptyCleared \/ WriteText \/ Pass
    \/ \E e \in Paths : SkelDir(e) \/ RemoveEntry(e) \/ EmptyEntry(e) \/ WriteEntry(e)
    \/ \E p \in Paths : Clear(p)

Next == Work \/ Kill \/ Again \/ Stop

Spec == Init /\ [][Next]_vars

-----------------------------------------------------------------------------
(* What the command promises.                                              *)

Results == [removed : SUBSET Paths, written : SUBSET Paths,
            skipped : SUBSET Paths, kept : SUBSET Paths]

TypeOK ==
    /\ fs \in [Paths -> Nodes] /\ before \in [Paths -> Nodes]
    /\ origin \in [Paths -> Nodes]
    /\ doc \in Documents
    /\ pre \subseteq Paths /\ todo \subseteq Paths
    /\ cur \in Paths \union {NoPath}
    /\ phase \in Working \union Ended \union {"idle"}
    /\ res \in Results /\ plan \in Results
    /\ runs \in 0..MaxRuns

\* Whatever the command does, and whenever it is killed, what exists in the
\* inventory stays within directories: nothing is left below a path that was
\* removed or replaced by a file (_clear_directory, write_file).
TreeOK == WellFormed(fs)

\* No step changes a path the `keep' list protects, with --force or without
\* (resolve_keep: it is "the answer which loses no data").
KeptStays == \A p \in Paths : KeptNode(fs, p) => fs'[p] = fs[p]
KeptUntouched == [][KeptStays]_vars

\* Without --force, what existed when the command started is what it was, at
\* every moment and so also when the command is killed (_is_protected).
PreExistingUntouched ==
    ~doc.force => \A p \in pre : fs[p] = before[p]

\* What makes the three above inductive: the links that are refused stay away,
\* and the entry in hand is one that may be touched.
NoLinkOnTheWay ==
    phase \in Passes => \A e \in DOMAIN doc.files :
        \A q \in Above[e] \union {e} : fs[q] \notin Links
InHand ==
    cur # NoPath =>
        /\ cur \in DOMAIN doc.files /\ ~Kept(cur)
        /\ phase \notin {"skel", "check"}
        /\ phase \in {"remove", "empty"} => MayTouch(cur, TRUE)
        /\ phase = "write" => MayTouch(cur, FALSE) /\ fs[cur] = "torn"
IInv ==
    /\ TypeOK /\ TreeOK /\ PreExistingUntouched
    /\ NoLinkOnTheWay /\ InHand
    /\ phase \in Passes => todo \subseteq DOMAIN doc.files
    /\ pre \subseteq Existing(before)

\* The inventory a specification asks for, written down without passes: t is
\* the inventory with its skeleton.
Acts(t, e) == ~Kept(e) /\ MayTouch(e, CASE doc.files[e] = "text" -> FALSE
                                         [] doc.files[e] = "empty/" -> TRUE
                                         [] OTHER -> t[e] = "dir")
Acting(t, kinds) == {e \in Of(kinds) : Acts(t, e)}
Meaning(t) == [p \in Paths |->
    IF p \in Acting(t, {"text"}) THEN "new"
    ELSE IF \/ p \in Acting(t, {"empty/"})
            \/ \E e \in Acting(t, {"text", "empty/"}) : p \in Above[e]
         THEN "dir"
    ELSE IF /\ \E e \in Acting(t, Removals \union {"empty/"}) : e \in Above[p] \union {p}
            /\ ~Survives(t, p)
         THEN "absent"
    ELSE t[p]]

\* The passes over the entries, in the order they have, produce exactly that
\* (the docstring of apply_spec: a directory can be removed and re-created).
MeansWhatItSays == phase = "done" => fs = Meaning(Make(before, Skel))

\* A command that succeeds did what a dry run of it announced.
DryRunPredicts == phase = "done" => plan = res

\* The report the user reads names every path that changed, and no path it
\* says was skipped or kept did change.
ReportIsTrue == phase = "done" =>
    LET t == Make(before, Skel)
    IN  /\ \A p \in Paths : fs[p] # t[p] =>
              \/ p \in res.removed \union res.written
              \/ t[p] = "absent" /\ \E e \in res.written : p \in Above[e]
        /\ \A p \in res.kept \union res.skipped : fs[p] = t[p]

\* What the user reads is true: the report of a run, and the one a dry run gives
\* before it.
ReportsAreTrue == DryRunPredicts /\ ReportIsTrue

\* With --force the command can be killed at any moment and simply run again:
\* a run that succeeds leaves what the specification means for the inventory
\* there was before the first one.
ForcedRerunConverges ==
    doc.force /\ phase = "done" => fs = Meaning(Make(origin, Skel))

\* No step writes through a symbolic link or removes one (docs: "not even with
\* --force"; the docstrings of _assert_no_symlinks and _clear_directory).
LinksUntouched == [][\A p \in Paths : fs[p] \in Links => fs'[p] = fs[p]]_vars
=============================================================================
