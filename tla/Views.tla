-------------------------------- MODULE Views --------------------------------
(***************************************************************************)
(* The life of a project directory and its views: `debops project init',   *)
(* `mkview', `refresh', `venv enable' and `commit', each a series of       *)
(* writes that a failure or a signal may cut short.                        *)
(*                                                                         *)
(* A view is a directory ansible/views/<view>, a file view-<view>.yml in   *)
(* .debops/conf.d, in which a / of the name is a -, and an ansible.cfg     *)
(* made from that file.  Of its settings the model keeps the one that      *)
(* DebOps itself changes: whether Ansible looks for collections in the     *)
(* project only ("near") or elsewhere as well ("far").  A file that was    *)
(* opened for writing and not written is empty, "torn".  Specifications    *)
(* of the inventory are the subject of SpecApply.                          *)
(***************************************************************************)
EXTENDS FiniteSets

CONSTANTS
    Views, Files,
    FileOf,         \* the file in conf.d for each view
    Above,          \* the views whose directory each view is in, however deep
    Parent,         \* the one directly above, if there is one
    Default,        \* the view that init makes
    NoView,
    Crypts,         \* what --encrypt may be, for each view
    Commands,
    ToolFailures    \* gpg, encfs and git-crypt may fail

Methods == {"none", "encfs", "git-crypt"}
ASSUME ViewsAssumption ==
    /\ FileOf \in [Views -> Files] /\ Default \in Views /\ NoView \notin Views
    /\ Above \in [Views -> SUBSET Views] /\ Parent \in [Views -> Views \union {NoView}]
    /\ \A v \in Views : Parent[v] # NoView => Parent[v] \in Above[v]
    /\ \A v \in Views : v \notin Above[v]
    /\ Crypts \in [Views -> SUBSET Methods]
    /\ Commands \subseteq {"init", "mkview", "refresh", "enable", "commit"}
    /\ ToolFailures \in BOOLEAN

VARIABLES
    made,     \* the kind of project that can be found here
    tree,     \* the directory of each view
    conf,     \* the files of conf.d
    cfg,      \* the ansible.cfg of each view
    venv,     \* venv.yml
    reqs,     \* collections/requirements.yml: is the DebOps collection listed; a
              \* "headless" list has lost the key that it belongs under
    ignore,   \* the lines of .gitignore that matter here
    repo,     \* the git repository
    vol,      \* the encrypted volume of each view
    gpg,      \* the gpg process started for it and not waited for
    pc, cmd, arg, opt, todo, outcome,
    news      \* what venv enable has changed: "none", "some" of the files, "views"

disk == <<made, tree, conf, cfg, venv, reqs, ignore, repo>>
crypt == <<vol, gpg>>
call == <<cmd, arg, opt>>
vars == <<made, tree, conf, cfg, venv, reqs, ignore, repo, vol, gpg,
          pc, cmd, arg, opt, todo, news, outcome>>

Paths == {"far", "near"}
Settings == [view : Views, path : Paths]
NoFile == [view |-> NoView, path |-> "none"]
TornFile == [view |-> NoView, path |-> "torn"]
Options == [kind : {"modern", "legacy"}, venv : BOOLEAN, crypt : Methods,
            keys : BOOLEAN, git : BOOLEAN, scope : {"python", "collections", "all"}]
Plain == [kind |-> "modern", venv |-> FALSE, crypt |-> "none", keys |-> TRUE,
          git |-> FALSE, scope |-> "all"]
Lines == {"file", "rule", "lock", "venv"}

\* The views that the configuration has, and their settings.
Loaded == {v \in Views : conf[FileOf[v]].view = v}
PathOf(v) == conf[FileOf[v]].path

\* os.makedirs() makes the directories above as well.
Grown(v, how) == [w \in Views |->
    IF w = v THEN how ELSE IF w \in Above[v] /\ tree[w] = "absent" THEN "bare" ELSE tree[w]]

\* No project yet, or one made before there were virtual environments.
Init ==
    /\ \/ /\ made = "none"
          /\ tree = [v \in Views |-> "absent"] /\ cfg = [v \in Views |-> "none"]
          /\ conf = [f \in Files |-> NoFile] /\ reqs = "none" /\ ignore = {}
          /\ repo = "none"
       \/ /\ made = "modern"
          /\ tree = [v \in Views |-> IF v = Default THEN "whole"
                                     ELSE IF v \in Above[Default] THEN "bare" ELSE "absent"]
          /\ cfg = [v \in Views |-> IF v = Default THEN "far" ELSE "none"]
          /\ conf = [f \in Files |-> IF f = FileOf[Default]
                                     THEN [view |-> Default, path |-> "far"] ELSE NoFile]
          /\ reqs = "off" /\ ignore = {"file", "rule"} /\ repo = "made"
    /\ venv = "none"
    /\ vol = [v \in Views |-> "none"] /\ gpg = [v \in Views |-> "off"]
    /\ pc = "idle" /\ cmd = "commit" /\ arg = Default /\ todo = {} /\ news = "none"
    /\ opt = Plain
    /\ outcome = "ok"

-----------------------------------------------------------------------------

Goto(label) == pc' = label /\ UNCHANGED <<call, todo, news, outcome>>
End(how) ==
    /\ pc' = "ended" /\ outcome' = how /\ todo' = {} /\ news' = "none"
    /\ UNCHANGED call

\* The checks that each command makes before it changes anything: init finds
\* a project, the others find none; a hook says no; a name is inside a view.
Inside(v) == Parent[v] \in Loaded
Begin(c, v, o) ==
    /\ pc = "idle"
    /\ cmd' = c /\ arg' = v /\ opt' = o
    /\ news' = "none" /\ UNCHANGED <<disk, crypt>>
    /\ \/ /\ pc' = "ended" /\ todo' = {}
          /\ outcome' = IF c = "refresh" /\ made # "none" THEN "vetoed" ELSE "refused"
          /\ CASE c \in {"init", "refresh"} -> TRUE
               [] c = "mkview" -> made # "modern" \/ Inside(v)
               [] c = "enable" -> made # "modern"
               [] c = "commit" -> made = "none"
       \/ /\ UNCHANGED outcome
          /\ c = "init" <=> made = "none"
          /\ c = "init" => v = Default
          /\ c = "mkview" => made = "modern" /\ ~Inside(v)
          /\ c = "enable" => made = "modern"
          /\ todo' = IF c \in {"refresh", "enable"} THEN Loaded ELSE {}
          /\ pc' = CASE c = "init" -> IF o.kind = "modern" THEN "skel" ELSE "root"
                     [] c = "mkview" -> "root"
                     [] c = "refresh" -> "skel"
                     [] c = "enable" -> IF o.scope = "collections" THEN "reqs"
                                        ELSE IF venv = "on" THEN "enabled" ELSE "venv"
                     [] c = "commit" -> "commit"

\* createdirs(): in a modern project .debops/conf.d, by which it is found.
Skel ==
    /\ pc = "skel"
    /\ made' = IF cmd = "init" THEN "modern" ELSE made
    /\ Goto(IF cmd = "init" THEN "root" ELSE "dirs")
    /\ UNCHANGED <<tree, conf, cfg, venv, reqs, ignore, repo, crypt>>

\* AnsibleInventory.create(): refused when the directory exists ...
Root ==
    /\ pc = "root"
    /\ \/ tree[arg] # "absent" /\ End("refused") /\ UNCHANGED tree
       \/ tree[arg] = "absent" /\ tree' = Grown(arg, "bare") /\ Goto("inventory")
    /\ UNCHANGED <<made, conf, cfg, venv, reqs, ignore, repo, crypt>>

\* ... then the directories and the hosts file.
Inventory ==
    /\ pc = "inventory"
    /\ tree' = [tree EXCEPT ![arg] = "whole"]
    /\ Goto(IF opt.crypt = "encfs" THEN "keys" ELSE "project")
    /\ UNCHANGED <<made, conf, cfg, venv, reqs, ignore, repo, crypt>>

\* _encrypt_secrets_encfs(): the keyfile, the volume, its configuration, which
\* gpg encrypts in the background while the command waits for its output file
\* to appear.  Each wait is for a file that a failed tool never makes.
Keys ==
    /\ pc = "keys"
    /\ \/ ~opt.keys /\ End("refused") /\ UNCHANGED vol
       \/ opt.keys /\ vol' = [vol EXCEPT ![arg] = "dir"] /\ Goto("keyfile")
    /\ UNCHANGED <<disk, gpg>>
Keyfile ==
    /\ pc = "keyfile"
    /\ \/ vol' = [vol EXCEPT ![arg] = "key"] /\ Goto("volume")
       \/ ToolFailures /\ Goto("stuck") /\ UNCHANGED vol
    /\ UNCHANGED <<disk, gpg>>
Volume ==
    /\ pc = "volume"
    /\ \/ vol' = [vol EXCEPT ![arg] = "plain"] /\ Goto("encrypt")
       \/ ToolFailures /\ Goto("stuck") /\ UNCHANGED vol
    /\ UNCHANGED <<disk, gpg>>
Encrypt ==
    /\ pc = "encrypt"
    /\ gpg' = [gpg EXCEPT ![arg] = "running"] /\ Goto("appears")
    /\ UNCHANGED <<disk, vol>>

\* Mutant: the configuration is removed without waiting.
AppearsUnseen ==
    /\ pc = "appears"
    /\ vol' = [vol EXCEPT ![arg] = "lost"] /\ Goto("project")
    /\ UNCHANGED <<disk, gpg>>

Appears ==
    /\ pc = "appears"
    /\ vol[arg] \in {"begun", "copied"}
    /\ vol' = [vol EXCEPT ![arg] = IF vol[arg] = "copied" THEN "sealed"
                                   ELSE IF gpg[arg] = "failed" THEN "lost" ELSE "ending"]
    /\ Goto("project")
    /\ UNCHANGED <<disk, gpg>>

GpgOpens(v) ==
    /\ gpg[v] = "running" /\ vol[v] = "plain"
    /\ vol' = [vol EXCEPT ![v] = "begun"]
    /\ UNCHANGED <<disk, gpg, pc, call, todo, news, outcome>>
GpgEnds(v) ==
    /\ gpg[v] = "running" /\ vol[v] \in {"begun", "ending"}
    /\ gpg' = [gpg EXCEPT ![v] = "off"]
    /\ vol' = [vol EXCEPT ![v] = IF vol[v] = "begun" THEN "copied" ELSE "sealed"]
    /\ UNCHANGED <<disk, pc, call, todo, news, outcome>>
GpgFails(v) ==
    /\ ToolFailures /\ gpg[v] = "running"
    /\ gpg' = [gpg EXCEPT ![v] = "failed"]
    /\ vol' = [vol EXCEPT ![v] = IF vol[v] = "ending" THEN "lost" ELSE vol[v]]
    /\ UNCHANGED <<disk, pc, call, todo, news, outcome>>

\* The file of the view, unless there is one by that name; in a legacy
\* project it is .debops.cfg, by which the project is found.
NewPath == IF cmd = "init" THEN IF opt.kind = "modern" /\ opt.venv THEN "near" ELSE "far"
           ELSE IF venv = "on" THEN "near" ELSE "far"

\* Mutant: a file that is there is written again.
ProjectAgain ==
    /\ pc = "project"
    /\ conf' = [conf EXCEPT ![FileOf[arg]] = [view |-> arg, path |-> NewPath]]
    /\ made' = IF cmd = "init" THEN opt.kind ELSE made
    /\ Goto(IF cmd = "init" THEN IF opt.kind = "modern" /\ opt.venv THEN "venv" ELSE "templates"
            ELSE "cfg")
    /\ UNCHANGED <<tree, cfg, venv, reqs, ignore, repo, crypt>>

Project ==
    /\ pc = "project"
    /\ LET f == FileOf[arg]
           there == conf[f] # NoFile
       IN  \/ /\ conf' = IF there THEN conf
                         ELSE [conf EXCEPT ![f] = [view |-> arg, path |-> NewPath]]
              /\ Goto(IF cmd = "init" THEN
                          IF opt.kind = "modern" /\ opt.venv THEN "venv" ELSE "templates"
                      ELSE "cfg")
           \/ /\ ~there /\ conf' = [conf EXCEPT ![f] = TornFile] /\ End("killed")
    /\ made' = IF cmd = "init" THEN opt.kind ELSE made
    /\ UNCHANGED <<tree, cfg, venv, reqs, ignore, repo, crypt>>

\* _write_venv_config(): venv.yml and the seed requirements.txt.
VenvYml ==
    /\ pc = "venv"
    /\ \/ /\ venv' = IF venv = "none" THEN "on" ELSE venv
          /\ Goto(IF cmd = "init" THEN "templates" ELSE "ignore")
       \/ venv = "none" /\ venv' = "torn" /\ End("killed")
    /\ UNCHANGED <<made, tree, conf, cfg, reqs, ignore, repo, crypt>>

\* The files that init writes from templates and nothing changes later, with
\* .gitignore and requirements.yml.
Templates ==
    /\ pc = "templates"
    /\ \/ /\ ignore' = IF ignore # {} THEN ignore
                       ELSE IF opt.kind = "modern" THEN Lines ELSE {"file"}
          /\ reqs' = IF reqs # "none" THEN reqs
                     ELSE IF opt.kind = "modern" /\ opt.venv THEN "on" ELSE "off"
          /\ Goto("cfg")
       \/ /\ ignore' = IF ignore = {} THEN {"file"} ELSE ignore
          /\ reqs' \in {reqs, IF reqs = "none" THEN "torn" ELSE reqs}
          /\ End("killed")
    /\ UNCHANGED <<made, tree, conf, cfg, venv, repo, crypt>>

\* Mutant: a view that is not in the configuration gets the defaults.
CfgAnyhow ==
    /\ pc = "cfg"
    /\ cfg' = [cfg EXCEPT ![arg] = IF arg \in Loaded THEN PathOf(arg) ELSE "far"]
    /\ Goto(IF cmd = "init" /\ opt.git THEN "git" ELSE "done")
    /\ UNCHANGED <<made, tree, conf, venv, reqs, ignore, repo, crypt>>

\* The configuration is read again for the settings of the view; KeyError when
\* it has none, as its file is empty or another view's.  Then the inventory
\* specification, which may be refused.
Cfg ==
    /\ pc = "cfg"
    /\ \/ arg \notin Loaded /\ End("crash") /\ UNCHANGED cfg
       \/ /\ arg \in Loaded /\ cfg' = [cfg EXCEPT ![arg] = PathOf(arg)]
          /\ Goto(IF cmd = "init" /\ opt.git THEN "git" ELSE "done") \/ End("refused")
       \/ arg \in Loaded /\ cfg' = [cfg EXCEPT ![arg] = "torn"] /\ End("killed")
    /\ UNCHANGED <<made, tree, conf, venv, reqs, ignore, repo, crypt>>

\* git init, the first commit, and git-crypt, with a wait for its keys.
Git ==
    /\ pc = "git"
    /\ \/ repo' = "made" /\ Goto(IF opt.crypt = "git-crypt" THEN "gitcrypt" ELSE "done")
       \/ repo' = "empty" /\ End("killed")
    /\ UNCHANGED <<made, tree, conf, cfg, venv, reqs, ignore, crypt>>
GitCrypt ==
    /\ pc = "gitcrypt"
    /\ \/ ~opt.keys /\ End("refused")
       \/ opt.keys /\ Goto("done")
       \/ opt.keys /\ ToolFailures /\ Goto("stuck")
    /\ UNCHANGED <<disk, crypt>>
Finish == pc = "done" /\ End("ok") /\ UNCHANGED <<disk, crypt>>

-----------------------------------------------------------------------------
(* refresh and venv enable                                                 *)

\* Mutant: an ansible.cfg that is there is left alone.
RefreshViewKept(v) ==
    /\ pc = "dirs" /\ v \in todo
    /\ tree' = Grown(v, "whole")
    /\ cfg' = [cfg EXCEPT ![v] = IF cfg[v] = "none" THEN PathOf(v) ELSE cfg[v]]
    /\ todo' = todo \ {v} /\ UNCHANGED <<pc, call, news, outcome>>
    /\ UNCHANGED <<made, conf, venv, reqs, ignore, repo, crypt>>

\* Mutant: the loop does not move on from a view whose ansible.cfg is right.
RefreshViewAgain(v) ==
    /\ pc = "dirs" /\ v \in todo
    /\ tree' = Grown(v, "whole") /\ cfg' = [cfg EXCEPT ![v] = PathOf(v)]
    /\ todo' = (IF cfg[v] = PathOf(v) THEN todo ELSE todo \ {v})
    /\ UNCHANGED <<made, conf, venv, reqs, ignore, repo, crypt, pc, call, news, outcome>>

\* Each view gets its directories and its ansible.cfg; the selected one the
\* specification before that.
RefreshView(v) ==
    /\ pc = "dirs" /\ v \in todo
    /\ tree' = Grown(v, "whole")
    /\ \/ /\ cfg' = [cfg EXCEPT ![v] = PathOf(v)]
          /\ todo' = todo \ {v} /\ UNCHANGED <<pc, call, news, outcome>>
       \/ v = Default /\ End("refused") /\ UNCHANGED cfg
       \/ cfg' = [cfg EXCEPT ![v] = "torn"] /\ End("killed")
    /\ UNCHANGED <<made, conf, venv, reqs, ignore, repo, crypt>>
Refreshed ==
    /\ pc = "dirs" /\ todo = {}
    /\ IF cmd = "enable" THEN Goto("commit") ELSE Goto("done")
    /\ UNCHANGED <<disk, crypt>>

\* _append_venv_gitignore()
AppendIgnore ==
    /\ pc = "ignore"
    /\ ignore' = ignore \union {"file", "venv"}
    /\ news' = "some" /\ pc' = "enabled" /\ UNCHANGED <<call, todo, outcome>>
    /\ UNCHANGED <<made, tree, conf, cfg, venv, reqs, repo, crypt>>
Enabled ==
    /\ pc = "enabled"
    /\ IF opt.scope # "python" THEN Goto("reqs")
       ELSE IF news # "none" THEN Goto("commit") ELSE Goto("done")
    /\ UNCHANGED <<disk, crypt>>

\* Mutant: only an entry that is commented out is replaced.
EnableReqsStub ==
    /\ pc = "reqs" /\ reqs # "none"
    /\ \/ /\ reqs' = (IF reqs = "off" THEN "on" ELSE reqs)
          /\ news' = (IF reqs = "off" THEN "some" ELSE news)
          /\ pc' = "unignore" /\ UNCHANGED <<call, todo, outcome>>
       \/ reqs = "off" /\ reqs' = "torn" /\ End("killed")
    /\ UNCHANGED <<made, tree, conf, cfg, venv, ignore, repo, crypt>>

\* _enable_venv_collections_requirements(): an entry that is commented out is
\* replaced; in a file without one it is appended, so that an empty file becomes a
\* list without the key `collections', which no later command can read but in which
\* the entry is found from then on.
EnableReqs ==
    /\ pc = "reqs"
    /\ \/ reqs = "none" /\ End("refused") /\ UNCHANGED reqs
       \/ /\ reqs # "none"
          /\ reqs' = (CASE reqs = "off" -> "on" [] reqs = "torn" -> "headless" [] OTHER -> reqs)
          /\ news' = (IF reqs \in {"off", "torn"} THEN "some" ELSE news)
          /\ pc' = "unignore" /\ UNCHANGED <<call, todo, outcome>>
       \/ reqs \in {"off", "torn"} /\ reqs' = "torn" /\ End("killed")
    /\ UNCHANGED <<made, tree, conf, cfg, venv, ignore, repo, crypt>>

\* _ensure_collections_lock_unignored()
Unignore ==
    /\ pc = "unignore"
    /\ LET due == "rule" \in ignore /\ "lock" \notin ignore
       IN  \/ /\ ignore' = (IF due THEN ignore \union {"lock"} ELSE ignore)
              /\ news' = (IF due THEN "some" ELSE news)
              /\ pc' = "rewrite" /\ UNCHANGED <<call, todo, outcome>>
           \/ due /\ ignore' = {"file"} /\ End("killed")
    /\ UNCHANGED <<made, tree, conf, cfg, venv, reqs, repo, crypt>>

\* Mutant: the other settings of the file are not kept.
RewriteView(v) ==
    /\ pc = "rewrite" /\ v \in todo
    /\ conf' = [conf EXCEPT ![FileOf[v]] = [view |-> Default, path |-> "near"]]
    /\ news' = "views"
    /\ todo' = todo \ {v} /\ UNCHANGED <<pc, call, outcome>>
    /\ UNCHANGED <<made, tree, cfg, venv, reqs, ignore, repo, crypt>>

\* _rewrite_view_collections_path()
Rewrite(v) ==
    /\ pc = "rewrite" /\ v \in todo
    /\ \/ /\ conf' = [conf EXCEPT ![FileOf[v]].path = "near"]
          /\ news' = (IF PathOf(v) = "far" THEN "views" ELSE news)
          /\ todo' = todo \ {v} /\ UNCHANGED <<pc, call, outcome>>
       \/ /\ PathOf(v) = "far"
          /\ conf' = [conf EXCEPT ![FileOf[v]] = TornFile] /\ End("killed")
    /\ UNCHANGED <<made, tree, cfg, venv, reqs, ignore, repo, crypt>>

\* Only when a view was switched a refresh follows, which a hook may veto; and
\* when nothing was changed there is nothing to commit.
Rewritten ==
    /\ pc = "rewrite" /\ todo = {}
    /\ \/ news = "views" /\ pc' = "dirs" /\ todo' = Loaded
       \/ news # "none" /\ pc' = "commit" /\ UNCHANGED todo
       \/ news = "none" /\ pc' = "done" /\ UNCHANGED todo
    /\ UNCHANGED <<disk, crypt, call, news, outcome>>

\* commit(): without a first commit the repository has no HEAD.
Commit ==
    /\ pc = "commit"
    /\ IF repo = "empty" THEN End(IF cmd = "enable" THEN "refused" ELSE "crash")
       ELSE Goto("done")
    /\ UNCHANGED <<disk, crypt>>

-----------------------------------------------------------------------------

Killed == pc \notin {"idle", "ended"} /\ End("killed") /\ UNCHANGED <<disk, crypt>>

Rest ==
    /\ pc = "ended" /\ pc' = "idle" /\ outcome' = "ok"
    /\ cmd' = "commit" /\ arg' = Default
    /\ opt' = Plain
    /\ UNCHANGED <<disk, crypt, todo, news>>

\* To try again the user removes what was left.
RemoveView(v) ==
    /\ pc = "idle" /\ tree[v] # "absent"
    /\ tree' = [w \in Views |-> IF w = v \/ v \in Above[w] THEN "absent" ELSE tree[w]]
    /\ cfg' = [w \in Views |-> IF w = v \/ v \in Above[w] THEN "none" ELSE cfg[w]]
    /\ vol' = [w \in Views |-> IF w = v \/ v \in Above[w] THEN "none" ELSE vol[w]]
    /\ gpg' = [w \in Views |-> IF w = v \/ v \in Above[w] THEN "off" ELSE gpg[w]]
    /\ UNCHANGED <<made, conf, venv, reqs, ignore, repo, pc, cmd, arg, opt, todo,
                   news, outcome>>
RemoveTorn(f) ==
    /\ pc = "idle" /\ conf[f] = TornFile
    /\ conf' = [conf EXCEPT ![f] = NoFile]
    /\ UNCHANGED <<made, tree, cfg, venv, reqs, ignore, repo, crypt, pc, cmd, arg, opt,
                   todo, news, outcome>>

\* What each command can be asked to do.
Asked(c, v) == {o \in Options :
    /\ c = "init" \/ (o.kind = "modern" /\ ~o.venv /\ ~o.git)
    /\ o.crypt \in IF c \in {"init", "mkview"} THEN Crypts[v] ELSE {"none"}
    /\ o.crypt = "none" => o.keys
    /\ c = "enable" \/ o.scope = "all"}

Step ==
    \/ Skel \/ Root \/ Inventory \/ Keys \/ Keyfile \/ Volume \/ Encrypt \/ Appears
    \/ Project \/ VenvYml \/ Templates \/ Cfg \/ Git \/ GitCrypt \/ Finish
    \/ \E v \in Views : RefreshView(v) \/ Rewrite(v)
    \/ Refreshed \/ AppendIgnore \/ Enabled \/ EnableReqs \/ Unignore \/ Rewritten \/ Commit
Gpg == \E v \in Views : GpgOpens(v) \/ GpgEnds(v) \/ GpgFails(v)

Next ==
    \/ /\ pc = "idle"
       /\ \E c \in Commands, v \in Views :
             (c = "mkview" \/ v = Default) /\ \E o \in Asked(c, v) : Begin(c, v, o)
    \/ Step \/ Gpg \/ Killed \/ Rest
    \/ \E v \in Views : RemoveView(v)
    \/ \E f \in Files : RemoveTorn(f)

Spec == Init /\ [][Next]_vars

\* The interpreter goes on and gpg ends, one way or the other.
FairSpec == Spec /\ WF_vars(Step) /\ \A v \in Views :
    WF_vars(GpgOpens(v) \/ GpgFails(v)) /\ WF_vars(GpgEnds(v) \/ GpgFails(v))

-----------------------------------------------------------------------------
(* What has to be true of it                                               *)

Made == cmd \in {"init", "mkview"} /\ pc = "ended" /\ outcome = "ok"

TypeOK ==
    /\ made \in {"none", "modern", "legacy"}
    /\ tree \in [Views -> {"absent", "bare", "whole"}]
    /\ conf \in [Files -> Settings \union {NoFile, TornFile}]
    /\ \A f \in Files : conf[f] \in Settings => FileOf[conf[f].view] = f
    /\ cfg \in [Views -> Paths \union {"none", "torn"}]
    /\ venv \in {"none", "on", "torn"} /\ reqs \in {"none", "off", "on", "torn", "headless"}
    /\ ignore \in SUBSET Lines /\ repo \in {"none", "empty", "made"}
    /\ vol \in [Views -> {"none", "dir", "key", "plain", "begun", "copied", "ending",
                          "sealed", "lost"}]
    /\ gpg \in [Views -> {"off", "running", "failed"}]
    /\ cmd \in Commands \union {"commit"} /\ arg \in Views /\ opt \in Options
    /\ todo \in SUBSET Views /\ news \in {"none", "some", "views"}
    /\ outcome \in {"ok", "refused", "crash", "killed", "vetoed"}

\* An init or mkview that reports success has made the whole view: its
\* directories, its own file in conf.d and an ansible.cfg that agrees with it,
\* whatever earlier commands that were killed have left and whichever views
\* have names that end up in the same file.
MadeMeansConfigured == Made =>
    tree[arg] = "whole" /\ arg \in Loaded /\ cfg[arg] = PathOf(arg)

\* ... and the volume of its secrets has its configuration, encrypted or about to
\* be, unless gpg failed after it had begun: mkview removes the plain text as soon
\* as the file it waits for is there.
MadeMeansSealed == Made /\ opt.crypt = "encfs" =>
    \/ vol[arg] \in {"ending", "sealed"}
    \/ vol[arg] = "lost" /\ gpg[arg] = "failed"

\* mkview, however it ends, leaves the settings and the ansible.cfg of every view
\* that was there as they were: also those whose file it would have.
OthersUntouched == [][cmd = "mkview" /\ pc # "idle" => \A v \in Views :
    /\ conf[FileOf[v]] \in Settings => conf'[FileOf[v]] = conf[FileOf[v]]
    /\ v # arg => cfg'[v] = cfg[v]]_vars

\* A refresh that reports success has repaired every view that is configured:
\* directories and ansible.cfg, torn ones among them.
RefreshRepairs == cmd = "refresh" /\ pc = "ended" /\ outcome = "ok" =>
    \A v \in Loaded : tree[v] = "whole" /\ cfg[v] = PathOf(v)

\* What an init, mkview or refresh reports as done is the whole of it, whatever
\* earlier commands left: of one view with its secrets, or of all views.
SuccessMeansWhole == MadeMeansConfigured /\ MadeMeansSealed /\ RefreshRepairs

\* After a successful `venv enable' of collections every view looks for them in
\* the project only, and the DebOps collection has an entry among those to install.
EnableSticks ==
    cmd = "enable" /\ opt.scope # "python" /\ pc = "ended" /\ outcome = "ok" =>
        reqs \in {"on", "headless"} /\ \A f \in Files : conf[f] \in Settings => conf[f].path = "near"

\* A file of conf.d is never given to another view, nor put back to "far".
FilesStay == \A f \in Files : conf[f] \in Settings /\ conf'[f] \in Settings =>
    conf'[f] \in {conf[f], [conf[f] EXCEPT !.path = "near"]}

\* The entry stays where the other commands can read it: requirements.yml is never
\* spoilt but by a kill while it is written, and it is the file so left, and no
\* other, that venv enable makes into one that no command can read.
ListStays ==
    /\ reqs = "on" => reqs' = "on"
    /\ reqs' = "torn" => reqs = "torn" \/ outcome' = "killed"
    /\ reqs' = "headless" => reqs \in {"torn", "headless"}

\* venv enable has its way with every view and with the collections to install, a
\* file that a kill has emptied apart, and with nothing but the way in which
\* collections are found.
EnableHolds == [][FilesStay /\ ListStays /\ EnableSticks']_vars

\* Every command ends; init and mkview only if the tools whose files they wait for
\* did not fail.
CommandsEnd ==
    pc \notin {"idle", "ended"} ~>
        (pc \in {"ended", "stuck"} \/ (pc = "appears" /\ gpg[arg] = "failed"))

=============================================================================
