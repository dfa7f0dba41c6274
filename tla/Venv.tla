-------------------------------- MODULE Venv --------------------------------
(***************************************************************************)
(* `debops project venv install | upgrade | recreate | freeze': the Python *)
(* environment of a project, its requirements file, the Ansible            *)
(* Collections and their lock file.  Each command is a series of           *)
(* subprocesses and file writes, any of which may fail or be killed, and   *)
(* leaves for the next command whatever it had done by then.               *)
(*                                                                         *)
(* pip and ansible-galaxy are external: an unpinned package is installed   *)
(* in whatever version the index offers, one that fails may have done some *)
(* of its work, and dependencies between packages are left out.            *)
(***************************************************************************)
CONSTANTS
    Packages,       \* Python packages
    Seed,           \* those DebOps itself lists
    Unbuildable,    \* those of them whose system libraries are missing
    Galaxy,         \* the package with the ansible-galaxy command
    Collections,    \* Ansible Collections
    Versions,
    None, Any,      \* not listed or not installed; listed without a version
    Scopes          \* the scopes the commands are called with

Pins == Versions \union {None, Any}

ASSUME VenvAssumption ==
    /\ Seed \subseteq Packages /\ Unbuildable \subseteq Seed
    /\ Galaxy \in Seed \ Unbuildable
    /\ None # Any /\ None \notin Versions /\ Any \notin Versions
    /\ Scopes \subseteq {"python", "collections", "all"}

VARIABLES
    venv,     \* the directory of the environment
    inst,     \* the version of each package in it
    hasreq,   \* there is a .debops/requirements.txt
    req,      \* what it says of each package
    coll,     \* the version of each installed collection
    creq,     \* what requirements.yml says of each collection
    haslock,  \* there is a requirements.lock.yml
    lock,     \* what it says of each collection
    pc,       \* where the command is
    cmd, scope,
    outcome,  \* how the last command ended
    start     \* (history) the state the command began in

python == <<venv, inst, hasreq, req>>
galaxy == <<coll, creq, haslock, lock>>
call == <<cmd, scope, start>>
vars == <<venv, inst, hasreq, req, coll, creq, haslock, lock, pc, cmd, scope, outcome, start>>

\* Without bin/python in it the directory is "bare"; killed at the wrong
\* moment `python -m venv' leaves a "hollow" one, which has it but no pip.
VenvStates == {"absent", "bare", "hollow", "ready"}
exists == venv \in {"hollow", "ready"}

Commands == {"install", "upgrade", "recreate", "freeze"}
Steps == {"rmvenv", "rmcoll", "create", "selfpip", "seed", "pip", "upgrade",
          "fromlock", "galaxy", "freeze", "write", "freezelock", "writelock"}
Outcomes == {"ok", "tool", "missing", "killed"}

Nothing(S) == [x \in S |-> None]
\* The lock file was truncated, and whoever was to write it killed.
Torn == haslock /\ lock = Nothing(Collections)
Snapshot == [req |-> req, hasreq |-> hasreq, inst |-> inst, lock |-> lock, torn |-> Torn]
Blank == [req |-> Nothing(Packages), hasreq |-> FALSE, inst |-> Nothing(Packages),
          lock |-> Nothing(Collections), torn |-> FALSE]

Init ==
    /\ venv = "absent" /\ inst = Nothing(Packages)
    /\ hasreq \in BOOLEAN
    /\ req \in [Packages -> IF hasreq THEN Pins ELSE {None}]
    /\ coll = Nothing(Collections)
    /\ creq \in [Collections -> Pins]
    /\ haslock \in BOOLEAN
    /\ lock \in [Collections -> IF haslock THEN Versions \union {None} ELSE {None}]
    /\ ~Torn
    /\ pc = "idle" /\ cmd = "install" /\ scope = "all" /\ outcome = "ok"
    /\ start = Blank

-----------------------------------------------------------------------------

WithPython == scope \in {"python", "all"}
WithCollections == scope \in {"collections", "all"}

Goto(label) == pc' = label /\ UNCHANGED <<outcome, call>>
End(how) == pc' = "ended" /\ outcome' = how /\ UNCHANGED call

\* The parts of a command that the scope selects.
ToCollections(label) == Goto(IF WithCollections THEN label ELSE "freeze")
ToFreeze == Goto(IF WithPython THEN "freeze" ELSE "freezelock")

\* Mutant: the collections are not frozen after the packages.
AfterFreezeStop == End("ok")

AfterFreeze == IF WithCollections THEN Goto("freezelock") ELSE End("ok")

\* A subprocess exits non-zero, or the command is killed while it runs.
Breaks == \E how \in {"tool", "killed"} : End(how)

Start(c, s) ==
    /\ pc = "idle"
    /\ cmd' = c /\ scope' = s /\ start' = Snapshot
    /\ pc' = CASE c = "install" -> IF s = "collections" THEN "fromlock" ELSE "create"
               [] c = "upgrade" -> IF s = "collections" THEN "galaxy" ELSE "upgrade"
               [] c = "recreate" -> IF s = "collections" THEN "rmcoll" ELSE "rmvenv"
               [] c = "freeze" -> IF s = "collections" THEN "freezelock" ELSE "freeze"
    /\ UNCHANGED <<python, galaxy, outcome>>

\* Mutant: only the interpreter is removed.
RmVenvLightly ==
    /\ pc = "rmvenv"
    /\ venv' = "bare"
    /\ Goto(IF WithCollections THEN "rmcoll" ELSE "create")
    /\ UNCHANGED <<inst, hasreq, req, galaxy>>

\* Mutant: only an environment that works is removed.
RmVenvReady ==
    /\ pc = "rmvenv"
    /\ venv' = IF venv = "ready" THEN "absent" ELSE venv
    /\ inst' = IF venv = "ready" THEN Nothing(Packages) ELSE inst
    /\ Goto(IF WithCollections THEN "rmcoll" ELSE "create")
    /\ UNCHANGED <<hasreq, req, galaxy>>

\* shutil.rmtree(); killed, it has removed some of it.
RmVenv ==
    /\ pc = "rmvenv"
    /\ UNCHANGED <<hasreq, req, galaxy>>
    /\ \/ /\ venv' = "absent" /\ inst' = Nothing(Packages)
          /\ Goto(IF WithCollections THEN "rmcoll" ELSE "create")
       \/ /\ venv # "absent"
          /\ venv' \in {venv, "bare", "hollow"}
          /\ venv = "bare" => venv' = "bare"
          /\ inst' \in {[p \in Packages |-> IF p \in gone THEN None ELSE inst[p]] :
                            gone \in SUBSET Packages}
          /\ End("killed")

RmColl ==
    /\ pc = "rmcoll"
    /\ UNCHANGED <<python, creq, haslock, lock>>
    /\ \/ /\ coll' = Nothing(Collections)
          /\ Goto(IF WithPython THEN "create" ELSE "fromlock")
       \/ /\ coll' \in {[c \in Collections |-> IF c \in gone THEN None ELSE coll[c]] :
                            gone \in SUBSET Collections}
          /\ End("killed")

\* create(), unless there is a bin/python already.
Create ==
    /\ pc = "create"
    /\ UNCHANGED <<inst, hasreq, req, galaxy>>
    /\ \/ exists /\ Goto("seed") /\ UNCHANGED venv
       \/ ~exists /\ venv' = "ready" /\ Goto("selfpip")
       \/ ~exists /\ venv' \in {venv, "bare", "hollow"} /\ Breaks

\* pip install --upgrade pip
SelfPip ==
    /\ pc = "selfpip"
    /\ UNCHANGED <<python, galaxy>>
    /\ Goto("seed") \/ Breaks

\* The requirements file is written when it is missing; packages which cannot
\* be built are commented out.
SeedFile ==
    /\ pc = "seed"
    /\ UNCHANGED <<venv, inst, galaxy>>
    /\ \/ hasreq /\ Goto("pip") /\ UNCHANGED <<hasreq, req>>
       \/ /\ ~hasreq /\ hasreq' = TRUE
          /\ req' = [p \in Packages |-> IF p \in Seed \ Unbuildable THEN Any ELSE None]
          /\ Goto("pip")
       \/ /\ ~hasreq /\ hasreq' = TRUE
          /\ req' = Nothing(Packages)
          /\ End("killed")

\* What may be installed for a requirement where v is installed now.
Satisfying(pin, v) ==
    IF pin = None THEN {v}
    ELSE IF pin = Any THEN IF v = None THEN Versions ELSE {v}
    ELSE {pin}
Satisfied(new, pins, old) ==
    \A x \in DOMAIN new : new[x] \in Satisfying(pins[x], old[x])
Begun(new, pins, old) ==
    \A x \in DOMAIN new : new[x] \in {old[x]} \union Satisfying(pins[x], old[x])

\* Mutant: the exit code of pip is not looked at.
PipAnyhow ==
    /\ pc = "pip"
    /\ UNCHANGED <<venv, hasreq, req, galaxy>>
    /\ \/ /\ venv = "ready"
          /\ inst' \in [Packages -> Versions \union {None}]
          /\ Begun(inst', req, inst)
       \/ venv # "ready" /\ UNCHANGED inst
    /\ ToCollections("fromlock")

\* pip install -r requirements.txt
Pip ==
    /\ pc = "pip"
    /\ UNCHANGED <<venv, hasreq, req, galaxy>>
    /\ \/ /\ venv = "ready"
          /\ inst' \in [Packages -> Versions \union {None}]
          /\ Satisfied(inst', req, inst)
          /\ ToCollections("fromlock")
       \/ /\ venv = "ready"
          /\ inst' \in [Packages -> Versions \union {None}]
          /\ Begun(inst', req, inst)
          /\ Breaks
       \/ venv # "ready" /\ End("missing") /\ UNCHANGED inst

\* Mutant: the whole seed is, listed or not.
ManagedSeed == Seed

\* The seed packages the requirements file still lists are upgraded.
Managed == {p \in Seed : hasreq /\ req[p] # None}
Upgrade ==
    /\ pc = "upgrade"
    /\ UNCHANGED <<venv, hasreq, req, galaxy>>
    /\ \/ exists /\ Managed = {} /\ ToCollections("galaxy") /\ UNCHANGED inst
       \/ /\ venv = "ready" /\ Managed # {}
          /\ inst' \in [Packages -> Versions \union {None}]
          /\ \A p \in Packages :
                IF p \in Managed THEN inst'[p] # None ELSE inst'[p] = inst[p]
          /\ ToCollections("galaxy")
       \/ /\ venv = "ready" /\ Managed # {}
          /\ inst' \in [Packages -> Versions \union {None}]
          /\ \A p \in Packages : inst'[p] # inst[p] => p \in Managed /\ inst'[p] # None
          /\ Breaks
       \/ venv = "hollow" /\ Managed # {} /\ End("missing") /\ UNCHANGED inst
       \/ ~exists /\ End("missing") /\ UNCHANGED inst

\* _galaxy_bin()
HasGalaxy == exists /\ inst[Galaxy] # None

\* Mutant: the lock file is not consulted.
FromLockSkipped ==
    /\ pc = "fromlock"
    /\ Goto("galaxy")
    /\ UNCHANGED <<python, galaxy>>

\* install_collections(): the lock file first, if there is one, and ansible-galaxy
\* refuses an empty one ...
FromLock ==
    /\ pc = "fromlock"
    /\ UNCHANGED <<python, creq, haslock, lock>>
    /\ \/ /\ HasGalaxy /\ ~Torn
          /\ coll' \in [Collections -> Versions \union {None}]
          /\ Satisfied(coll', lock, coll)
          /\ Goto("galaxy")
       \/ /\ HasGalaxy
          /\ coll' \in [Collections -> Versions \union {None}]
          /\ Begun(coll', lock, coll)
          /\ Breaks
       \/ ~HasGalaxy /\ End("missing") /\ UNCHANGED coll

\* ... then the requirements, forced to their latest versions by an upgrade.
Installed == [c \in Collections |->
    IF cmd = "upgrade" /\ creq[c] # None THEN None ELSE coll[c]]
GalaxyInstall ==
    /\ pc = "galaxy"
    /\ UNCHANGED <<python, creq, haslock, lock>>
    /\ \/ /\ HasGalaxy
          /\ coll' \in [Collections -> Versions \union {None}]
          /\ Satisfied(coll', creq, Installed)
          /\ ToFreeze
       \/ /\ HasGalaxy
          /\ coll' \in [Collections -> Versions \union {None}]
          /\ \E new \in [Collections -> Versions \union {None}] :
                /\ Satisfied(new, creq, Installed)
                /\ \A c \in Collections : coll'[c] \in {coll[c], new[c]}
          /\ Breaks
       \/ ~HasGalaxy /\ End("missing") /\ UNCHANGED coll

\* pip freeze; then the requirements file is opened, which empties it ...
Freeze ==
    /\ pc = "freeze"
    /\ UNCHANGED <<venv, inst, galaxy>>
    /\ \/ venv = "ready" /\ hasreq' = TRUE /\ req' = Nothing(Packages) /\ Goto("write")
       \/ venv = "ready" /\ Breaks /\ UNCHANGED <<hasreq, req>>
       \/ venv # "ready" /\ End("missing") /\ UNCHANGED <<hasreq, req>>

\* ... and written.
Write ==
    /\ pc = "write"
    /\ UNCHANGED <<venv, inst, hasreq, galaxy>>
    /\ \/ req' = inst /\ AfterFreeze
       \/ End("killed") /\ UNCHANGED req

\* freeze_collections(): nothing is written when nothing would be locked.
Lockable == {c \in Collections : creq[c] # None /\ coll[c] # None}
FreezeLock ==
    /\ pc = "freezelock"
    /\ UNCHANGED <<python, coll, creq>>
    /\ \/ /\ creq = Nothing(Collections) \/ (HasGalaxy /\ Lockable = {})
          /\ End("ok") /\ UNCHANGED <<haslock, lock>>
       \/ /\ creq # Nothing(Collections) /\ HasGalaxy /\ Lockable # {}
          /\ haslock' = TRUE /\ lock' = Nothing(Collections) /\ Goto("writelock")
       \/ creq # Nothing(Collections) /\ HasGalaxy /\ Breaks /\ UNCHANGED <<haslock, lock>>
       \/ creq # Nothing(Collections) /\ ~HasGalaxy /\ End("missing") /\ UNCHANGED <<haslock, lock>>

WriteLock ==
    /\ pc = "writelock"
    /\ UNCHANGED <<python, coll, creq, haslock>>
    /\ \/ /\ lock' = [c \in Collections |-> IF c \in Lockable THEN coll[c] ELSE None]
          /\ End("ok")
       \/ End("killed") /\ UNCHANGED lock

Rest ==
    /\ pc = "ended" /\ pc' = "idle"
    /\ cmd' = "install" /\ scope' = "all" /\ outcome' = "ok" /\ start' = Blank
    /\ UNCHANGED <<python, galaxy>>

\* Between two commands the user edits the requirements files.
EditPackage(p, pin) ==
    /\ pc = "idle" /\ hasreq
    /\ req' = [req EXCEPT ![p] = pin]
    /\ UNCHANGED <<venv, inst, hasreq, galaxy, pc, outcome, call>>
EditCollection(c, pin) ==
    /\ pc = "idle"
    /\ creq' = [creq EXCEPT ![c] = pin]
    /\ UNCHANGED <<python, coll, haslock, lock, pc, outcome, call>>

Next ==
    \/ \E c \in Commands, s \in Scopes : Start(c, s)
    \/ RmVenv \/ RmColl \/ Create \/ SelfPip \/ SeedFile \/ Pip \/ Upgrade
    \/ FromLock \/ GalaxyInstall \/ Freeze \/ Write \/ FreezeLock \/ WriteLock
    \/ Rest
    \/ \E p \in Packages, pin \in Pins : EditPackage(p, pin)
    \/ \E c \in Collections, pin \in Pins : EditCollection(c, pin)

Spec == Init /\ [][Next]_vars

-----------------------------------------------------------------------------
(* What the commands promise.                                              *)

TypeOK ==
    /\ venv \in VenvStates
    /\ inst \in [Packages -> Versions \union {None}]
    /\ hasreq \in BOOLEAN
    /\ req \in [Packages -> Pins]
    /\ coll \in [Collections -> Versions \union {None}]
    /\ creq \in [Collections -> Pins]
    /\ haslock \in BOOLEAN
    /\ lock \in [Collections -> Versions \union {None}]
    /\ pc \in Steps \union {"idle", "ended"}
    /\ cmd \in Commands
    /\ scope \in {"python", "collections", "all"}
    /\ outcome \in Outcomes
    /\ start \in [req : [Packages -> Pins], hasreq : BOOLEAN,
                   inst : [Packages -> Versions \union {None}],
                   lock : [Collections -> Versions \union {None}], torn : BOOLEAN]

Succeeded(commands) == pc = "ended" /\ outcome = "ok" /\ cmd \in commands

\* Whatever earlier commands left behind when they failed or were killed, an
\* install or recreate that succeeds installs every package in the version
\* the requirements file gave for it (recreate(): "a recreation reproduces
\* the locked versions").
Reproduces ==
    Succeeded({"install", "recreate"}) /\ WithPython =>
        \A p \in Packages : start.req[p] \in Versions => inst[p] = start.req[p]

\* A recreation that succeeds leaves no package behind from before that the
\* requirements file did not list ("install them from scratch").
FromScratch ==
    Succeeded({"recreate"}) /\ WithPython /\ start.hasreq =>
        \A p \in Packages : inst[p] # None => start.req[p] # None

\* The lock file is reproduced as well, except for a collection for which the
\* requirements now ask for another version; and none succeeds over one that a
\* killed command has left empty, as if nothing had been locked.
LockReproduced ==
    Succeeded({"install", "recreate"}) /\ WithCollections =>
        /\ ~start.torn
        /\ \A c \in Collections :
            start.lock[c] \in Versions /\ creq[c] \in {None, Any, start.lock[c]}
                => coll[c] = start.lock[c]

\* After any command that succeeds the two files that are committed describe
\* what is installed.
FilesDescribe ==
    Succeeded(Commands) =>
        /\ WithPython => hasreq /\ req = inst
        /\ WithCollections => \A c \in Lockable : lock[c] = coll[c]

\* upgrade touches only packages both in the seed and in the file, even when it
\* breaks off.
OnlyManagedMove ==
    pc = "ended" /\ cmd = "upgrade" =>
        \A p \in Packages : inst[p] # start.inst[p] =>
            p \in Seed /\ start.hasreq /\ start.req[p] # None

\* However broken the environment is that a killed command left behind,
\* recreate is never refused because of it: only for want of an
\* ansible-galaxy that the requirements file does not ask for.
RecreateRecovers ==
    pc = "ended" /\ cmd = "recreate" /\ scope \in {"python", "all"}
            /\ outcome = "missing" =>
        WithCollections /\ start.hasreq /\ start.req[Galaxy] = None

\* recreate starts over, from whatever it finds: it does not stop at an environment
\* that is broken, and leaves nothing of it behind.
RecreateStartsOver == FromScratch /\ RecreateRecovers
=============================================================================
