---------------------------- MODULE ViewsProofs ----------------------------
(***************************************************************************)
(* What a successful init, mkview, refresh or venv enable has made, and    *)
(* what none of them touches, for any views, whatever their names have in  *)
(* common, and whatever killed commands have left.                         *)
(*                                                                         *)
(* The argument: "Course" says which steps belong to which command and     *)
(* "Ahead" which views are still to be gone through; then each promise of  *)
(* a command that has ended has an invariant that says how far the command *)
(* has got with it.                                                        *)
(***************************************************************************)
EXTENDS Views, TLAPS

MkviewSteps == {"root", "inventory", "keys", "keyfile", "volume", "encrypt", "appears",
                "project", "cfg", "done", "stuck"}
InitSteps == MkviewSteps \union {"skel", "venv", "templates", "git", "gitcrypt"}
EnableSteps == {"venv", "ignore", "enabled", "reqs", "unignore", "rewrite", "dirs", "commit",
                "done"}
Running == pc \notin {"idle", "ended"}

\* The steps of each command.
Course ==
    /\ Running /\ cmd = "init" => pc \in InitSteps
    /\ Running /\ cmd = "mkview" => pc \in MkviewSteps
    /\ Running /\ cmd = "refresh" => pc \in {"skel", "dirs", "done"}
    /\ Running /\ cmd = "enable" => pc \in EnableSteps
    /\ Running /\ cmd = "commit" => pc \in {"commit", "done"}
    /\ pc = "idle" => cmd = "commit"
    /\ pc # "ended" => outcome = "ok"

\* The views that refresh and venv enable have still to go through.
Ahead ==
    /\ cmd \in {"init", "mkview", "commit"} \/ pc = "ended" => todo = {}
    /\ todo \subseteq Loaded
    /\ cmd = "refresh" /\ pc = "skel" => todo = Loaded
    /\ cmd = "refresh" /\ pc = "done" => todo = {}
    /\ cmd = "enable" /\ pc \in {"venv", "ignore", "enabled", "reqs", "unignore"} => todo = Loaded

\* init and mkview: the directories are there before the secrets and the settings
Making == cmd \in {"init", "mkview"} /\ (pc = "ended" => outcome = "ok")
Later == {"venv", "templates", "cfg", "git", "gitcrypt", "done", "ended"}
WholeInv ==
    Making /\ pc \in Later \union {"keys", "keyfile", "volume", "encrypt", "appears", "project"} =>
        tree[arg] = "whole"

\* ... the secrets are sealed, or will be, before the settings are written
SealedInv ==
    /\ Making /\ pc \in {"encrypt", "appears"} => vol[arg] \in {"plain", "begun", "copied"}
    /\ Making /\ pc \in Later \union {"project"} /\ opt.crypt = "encfs" =>
          \/ vol[arg] \in {"ending", "sealed"}
          \/ vol[arg] = "lost" /\ gpg[arg] = "failed"

\* ... and the view is in the configuration when ansible.cfg is written
ConfiguredInv == Making /\ pc \in {"git", "gitcrypt", "done", "ended"} =>
    arg \in Loaded /\ cfg[arg] = PathOf(arg)

\* refresh: the views that it is through with are repaired
RefreshInv == cmd = "refresh" /\ (pc \in {"dirs", "done"} \/ (pc = "ended" /\ outcome = "ok")) =>
    \A v \in Loaded \ todo : tree[v] = "whole" /\ cfg[v] = PathOf(v)

\* venv enable: the requirements come first, then the views one by one
Enabling == cmd = "enable" /\ opt.scope # "python" /\ (pc = "ended" => outcome = "ok")
EnableInv == Enabling =>
    /\ pc \in {"unignore", "rewrite", "dirs", "commit", "done", "ended"} =>
           reqs \in {"on", "headless"}
    /\ pc = "rewrite" => \A v \in Loaded \ todo : PathOf(v) = "near"
    /\ pc \in {"dirs", "commit", "done", "ended"} => \A v \in Loaded : PathOf(v) = "near"

IInv ==
    TypeOK /\ Course /\ Ahead /\ WholeInv /\ SealedInv /\ ConfiguredInv /\ RefreshInv /\ EnableInv

-----------------------------------------------------------------------------
(* Lemmas                                                                  *)

\* A view that the configuration has is a file of conf.d with its settings.
LEMMA LoadedSettings ==
    ASSUME TypeOK, NEW v \in Loaded
    PROVE  /\ v \in Views /\ FileOf[v] \in Files
           /\ conf[FileOf[v]] \in Settings /\ conf[FileOf[v]].view = v /\ PathOf(v) \in Paths
  BY ViewsAssumption DEF TypeOK, Loaded, PathOf, Settings, NoFile, TornFile

\* Whatever a command is asked, it is asked by the options there are.
LEMMA AskedOptions ==
    ASSUME NEW c, NEW v \in Views
    PROVE  Asked(c, v) \subseteq Options
  BY DEF Asked

\* Every step keeps the types.
LEMMA TypeStep ==
    ASSUME TypeOK, Ahead, [Next]_vars
    PROVE  TypeOK'
  <1>1. ASSUME NEW c \in Commands, NEW v \in Views, NEW o \in Asked(c, v), pc = "idle",
              Begin(c, v, o)
       PROVE  TypeOK'
    BY <1>1, TypeOK, ViewsAssumption, AskedOptions DEF Begin, Loaded, disk, crypt, TypeOK
  <1>2. CASE Skel
    BY <1>2, TypeOK, ViewsAssumption DEF Skel, Goto, crypt, call, TypeOK
  <1>3. CASE Root
    BY <1>3, TypeOK, ViewsAssumption DEF Root, Grown, Goto, End, crypt, call, TypeOK
  <1>4. CASE Inventory
    BY <1>4, TypeOK, ViewsAssumption DEF Inventory, Goto, crypt, call, TypeOK
  <1>5. CASE Keys
    BY <1>5, TypeOK, ViewsAssumption DEF Keys, Goto, End, disk, call, TypeOK
  <1>6. CASE Keyfile
    BY <1>6, TypeOK, ViewsAssumption DEF Keyfile, Goto, disk, call, TypeOK
  <1>7. CASE Volume
    BY <1>7, TypeOK, ViewsAssumption DEF Volume, Goto, disk, call, TypeOK
  <1>8. CASE Encrypt
    BY <1>8, TypeOK, ViewsAssumption DEF Encrypt, Goto, disk, call, TypeOK
  <1>9. CASE Appears
    BY <1>9, TypeOK, ViewsAssumption DEF Appears, Goto, disk, call, TypeOK
  <1>10. CASE Project
    <2>1. \A f \in Files : conf'[f] = conf[f] \/ conf'[f] = TornFile
                             \/ (f = FileOf[arg] /\ conf'[f] = [view |-> arg, path |-> NewPath])
      <3>1. \/ conf' = conf
            \/ conf' = [conf EXCEPT ![FileOf[arg]] = [view |-> arg, path |-> NewPath]]
            \/ conf' = [conf EXCEPT ![FileOf[arg]] = TornFile]
        BY <1>10 DEF Project
      <3>2. DOMAIN conf = Files
        BY DEF TypeOK
      <3>3. ASSUME NEW f \in Files, NEW new, conf' = [conf EXCEPT ![FileOf[arg]] = new]
            PROVE  conf'[f] = conf[f] \/ (f = FileOf[arg] /\ conf'[f] = new)
        BY <3>2, <3>3
      <3>4. CASE conf' = conf
        BY <3>4
      <3>5. CASE conf' = [conf EXCEPT ![FileOf[arg]] = [view |-> arg, path |-> NewPath]]
        BY <3>3, <3>5
      <3>6. CASE conf' = [conf EXCEPT ![FileOf[arg]] = TornFile]
        BY <3>3, <3>6
      <3> QED
        BY <3>1, <3>4, <3>5, <3>6
    <2>2. conf' \in [Files -> Settings \union {NoFile, TornFile}]
      <3>1. NewPath \in Paths
        BY DEF NewPath, Paths
      <3>2. [view |-> arg, path |-> NewPath] \in Settings
        BY <3>1 DEF TypeOK, Settings
      <3>3. conf' = [f \in Files |-> conf'[f]]
        BY <1>10 DEF Project, TypeOK
      <3> QED
        BY <2>1, <3>2, <3>3 DEF TypeOK
    <2>3. \A f \in Files : conf'[f] \in Settings => FileOf[conf'[f].view] = f
      BY <2>1, ViewsAssumption DEF TypeOK, Settings, TornFile
    <2> QED
      BY <1>10, <2>2, <2>3 DEF Project, Goto, End, crypt, call, TypeOK, Options
  <1>11. CASE VenvYml
    BY <1>11, TypeOK, ViewsAssumption DEF VenvYml, Goto, End, crypt, call, TypeOK
  <1>12. CASE Templates
    <2>1. ignore' \subseteq Lines
      BY <1>12, TypeOK DEF Templates, Lines, TypeOK
    <2>2. reqs' \in {"none", "off", "on", "torn", "headless"}
      BY <1>12, TypeOK DEF Templates, TypeOK
    <2>3. /\ UNCHANGED <<made, tree, conf, cfg, venv, repo, crypt, call>>
          /\ todo' \in {todo, {}} /\ news' \in {news, "none"}
          /\ pc' \in {"cfg", "ended"} /\ outcome' \in {outcome, "killed"}
      BY <1>12 DEF Templates, Goto, End, call
    <2> QED
      BY <2>1, <2>2, <2>3, TypeOK, ViewsAssumption DEF crypt, call, TypeOK
  <1>13. CASE Cfg
    BY <1>13, TypeOK, ViewsAssumption, LoadedSettings DEF Cfg, Settings, Paths, NoFile,
       TornFile, Goto, End, crypt, call, TypeOK
  <1>14. CASE Git
    BY <1>14, TypeOK, ViewsAssumption DEF Git, Goto, End, crypt, call, TypeOK
  <1>15. CASE GitCrypt
    BY <1>15, TypeOK, ViewsAssumption DEF GitCrypt, Goto, End, disk, crypt, call, TypeOK
  <1>16. CASE Finish
    BY <1>16, TypeOK, ViewsAssumption DEF Finish, End, disk, crypt, call, TypeOK
  <1>17. CASE Refreshed
    BY <1>17, TypeOK, ViewsAssumption DEF Refreshed, Goto, disk, crypt, call, TypeOK
  <1>18. CASE AppendIgnore
    BY <1>18, TypeOK, ViewsAssumption DEF AppendIgnore, Lines, crypt, call, TypeOK
  <1>19. CASE Enabled
    BY <1>19, TypeOK, ViewsAssumption DEF Enabled, Goto, disk, crypt, call, TypeOK
  <1>20. CASE EnableReqs
    BY <1>20, TypeOK, ViewsAssumption DEF EnableReqs, End, crypt, call, TypeOK
  <1>21. CASE Unignore
    <2>1. ignore' \in SUBSET Lines
      BY <1>21 DEF Unignore, Lines, TypeOK
    <2> QED
      BY <1>21, <2>1 DEF Unignore, End, crypt, call, TypeOK
  <1>22. CASE Rewritten
    BY <1>22, TypeOK, ViewsAssumption DEF Rewritten, Loaded, disk, crypt, call, TypeOK
  <1>23. CASE Commit
    BY <1>23, TypeOK, ViewsAssumption DEF Commit, Goto, End, disk, crypt, call, TypeOK
  <1>24. CASE Killed
    BY <1>24, TypeOK, ViewsAssumption DEF Killed, End, disk, crypt, call, TypeOK
  <1>25. CASE Rest
    BY <1>25, TypeOK, ViewsAssumption DEF Rest, Options, Plain, Methods, disk, crypt,
       TypeOK
  <1>26. ASSUME NEW v \in Views, RefreshView(v) PROVE TypeOK'
    BY <1>26, TypeOK, ViewsAssumption, LoadedSettings, Ahead DEF RefreshView, Settings,
       Paths, NoFile, TornFile, Grown, Ahead, End, crypt, call, TypeOK
  <1>27. ASSUME NEW v \in Views, Rewrite(v) PROVE TypeOK'
    <2>1. /\ FileOf[v] \in Files /\ v \in Views
          /\ conf[FileOf[v]] \in Settings /\ conf[FileOf[v]].view = v
      BY <1>27, LoadedSettings DEF Rewrite, Ahead
    <2>2. \/ conf' = [conf EXCEPT ![FileOf[v]].path = "near"]
          \/ conf' = [conf EXCEPT ![FileOf[v]] = TornFile]
      BY <1>27 DEF Rewrite
    <2>3. [conf[FileOf[v]] EXCEPT !.path = "near"] \in Settings
          /\ [conf[FileOf[v]] EXCEPT !.path = "near"].view = v
      BY <2>1 DEF Settings, Paths
    <2>4. TornFile \notin Settings
      BY DEF TornFile, Settings, Paths
    <2>5. conf' \in [Files -> Settings \union {NoFile, TornFile}]
      BY <2>1, <2>2, <2>3 DEF TypeOK
    <2>6. \A f \in Files : conf'[f] \in Settings => FileOf[conf'[f].view] = f
      BY <2>1, <2>2, <2>3, <2>4 DEF TypeOK
    <2> QED
      BY <1>27, <2>5, <2>6 DEF Rewrite, End, crypt, call, TypeOK
  <1>28. ASSUME NEW v \in Views, GpgOpens(v) PROVE TypeOK'
    BY <1>28, TypeOK, ViewsAssumption DEF GpgOpens, disk, call, TypeOK
  <1>29. ASSUME NEW v \in Views, GpgEnds(v) PROVE TypeOK'
    BY <1>29, TypeOK, ViewsAssumption DEF GpgEnds, disk, call, TypeOK
  <1>30. ASSUME NEW v \in Views, GpgFails(v) PROVE TypeOK'
    BY <1>30, TypeOK, ViewsAssumption DEF GpgFails, disk, call, TypeOK
  <1>31. ASSUME NEW v \in Views, RemoveView(v) PROVE TypeOK'
    BY <1>31, TypeOK, ViewsAssumption DEF RemoveView, TypeOK
  <1>32. ASSUME NEW f \in Files, RemoveTorn(f) PROVE TypeOK'
    BY <1>32, TypeOK, ViewsAssumption DEF RemoveTorn, Settings, Paths, NoFile, TornFile,
       crypt, TypeOK
  <1>33. CASE UNCHANGED vars
    BY <1>33, TypeOK, ViewsAssumption DEF vars, TypeOK
  <1> QED
    BY <1>1, <1>2, <1>3, <1>4, <1>5, <1>6, <1>7, <1>8, <1>9, <1>10, <1>11, <1>12, <1>13,
       <1>14, <1>15, <1>16, <1>17, <1>18, <1>19, <1>20, <1>21, <1>22, <1>23, <1>24, <1>25,
       <1>26, <1>27, <1>28, <1>29, <1>30, <1>31, <1>32, <1>33 DEF Next, Step, Gpg

\* Every step is a step of its command.
LEMMA CourseStep ==
    ASSUME Course, [Next]_vars
    PROVE  Course'
  <1>1. ASSUME NEW c \in Commands, NEW v \in Views, NEW o \in Asked(c, v), pc = "idle",
              Begin(c, v, o)
       PROVE  Course'
    BY <1>1, Course, ViewsAssumption DEF Begin, InitSteps, MkviewSteps, EnableSteps, disk,
       crypt, Course, Running
  <1>2. CASE Skel
    BY <1>2, Course, ViewsAssumption DEF Skel, InitSteps, MkviewSteps, EnableSteps, Goto,
       crypt, call, Course, Running
  <1>3. CASE Root
    BY <1>3, Course, ViewsAssumption DEF Root, InitSteps, MkviewSteps, EnableSteps, Goto,
       End, crypt, call, Course, Running
  <1>4. CASE Inventory
    BY <1>4, Course, ViewsAssumption DEF Inventory, InitSteps, MkviewSteps, EnableSteps,
       Goto, crypt, call, Course, Running
  <1>5. CASE Keys
    BY <1>5, Course, ViewsAssumption DEF Keys, InitSteps, MkviewSteps, EnableSteps, Goto,
       End, disk, call, Course, Running
  <1>6. CASE Keyfile
    BY <1>6, Course, ViewsAssumption DEF Keyfile, InitSteps, MkviewSteps, EnableSteps,
       Goto, disk, call, Course, Running
  <1>7. CASE Volume
    BY <1>7, Course, ViewsAssumption DEF Volume, InitSteps, MkviewSteps, EnableSteps, Goto,
       disk, call, Course, Running
  <1>8. CASE Encrypt
    BY <1>8, Course, ViewsAssumption DEF Encrypt, InitSteps, MkviewSteps, EnableSteps,
       Goto, disk, call, Course, Running
  <1>9. CASE Appears
    BY <1>9, Course, ViewsAssumption DEF Appears, InitSteps, MkviewSteps, EnableSteps,
       Goto, disk, call, Course, Running
  <1>10. CASE Project
    BY <1>10, Course, ViewsAssumption DEF Project, InitSteps, MkviewSteps, EnableSteps,
       Goto, End, crypt, call, Course, Running
  <1>11. CASE VenvYml
    BY <1>11, Course, ViewsAssumption DEF VenvYml, InitSteps, MkviewSteps, EnableSteps,
       Goto, End, crypt, call, Course, Running
  <1>12. CASE Templates
    BY <1>12, Course, ViewsAssumption DEF Templates, InitSteps, MkviewSteps, EnableSteps,
       Goto, End, crypt, call, Course, Running
  <1>13. CASE Cfg
    BY <1>13, Course, ViewsAssumption DEF Cfg, InitSteps, MkviewSteps, EnableSteps, Goto,
       End, crypt, call, Course, Running
  <1>14. CASE Git
    BY <1>14, Course, ViewsAssumption DEF Git, InitSteps, MkviewSteps, EnableSteps, Goto,
       End, crypt, call, Course, Running
  <1>15. CASE GitCrypt
    BY <1>15, Course, ViewsAssumption DEF GitCrypt, InitSteps, MkviewSteps, EnableSteps,
       Goto, End, disk, crypt, call, Course, Running
  <1>16. CASE Finish
    BY <1>16, Course, ViewsAssumption DEF Finish, InitSteps, MkviewSteps, EnableSteps, End,
       disk, crypt, call, Course, Running
  <1>17. CASE Refreshed
    BY <1>17, Course, ViewsAssumption DEF Refreshed, InitSteps, MkviewSteps, EnableSteps,
       Goto, disk, crypt, call, Course, Running
  <1>18. CASE AppendIgnore
    BY <1>18, Course, ViewsAssumption DEF AppendIgnore, InitSteps, MkviewSteps,
       EnableSteps, crypt, call, Course, Running
  <1>19. CASE Enabled
    BY <1>19, Course, ViewsAssumption DEF Enabled, InitSteps, MkviewSteps, EnableSteps,
       Goto, disk, crypt, call, Course, Running
  <1>20. CASE EnableReqs
    BY <1>20, Course, ViewsAssumption DEF EnableReqs, InitSteps, MkviewSteps, EnableSteps,
       End, crypt, call, Course, Running
  <1>21. CASE Unignore
    BY <1>21, Course, ViewsAssumption DEF Unignore, InitSteps, MkviewSteps, EnableSteps,
       End, crypt, call, Course, Running
  <1>22. CASE Rewritten
    BY <1>22, Course, ViewsAssumption DEF Rewritten, InitSteps, MkviewSteps, EnableSteps,
       disk, crypt, call, Course, Running
  <1>23. CASE Commit
    BY <1>23, Course, ViewsAssumption DEF Commit, InitSteps, MkviewSteps, EnableSteps,
       Goto, End, disk, crypt, call, Course, Running
  <1>24. CASE Killed
    BY <1>24, Course, ViewsAssumption DEF Killed, InitSteps, MkviewSteps, EnableSteps, End,
       disk, crypt, call, Course, Running
  <1>25. CASE Rest
    BY <1>25, Course, ViewsAssumption DEF Rest, InitSteps, MkviewSteps, EnableSteps, disk,
       crypt, Course, Running
  <1>26. ASSUME NEW v \in Views, RefreshView(v) PROVE Course'
    BY <1>26, Course, ViewsAssumption DEF RefreshView, InitSteps, MkviewSteps, EnableSteps,
       End, crypt, call, Course, Running
  <1>27. ASSUME NEW v \in Views, Rewrite(v) PROVE Course'
    BY <1>27, Course, ViewsAssumption DEF Rewrite, InitSteps, MkviewSteps, EnableSteps,
       End, crypt, call, Course, Running
  <1>28. ASSUME NEW v \in Views, GpgOpens(v) PROVE Course'
    BY <1>28, Course, ViewsAssumption DEF GpgOpens, InitSteps, MkviewSteps, EnableSteps,
       disk, call, Course, Running
  <1>29. ASSUME NEW v \in Views, GpgEnds(v) PROVE Course'
    BY <1>29, Course, ViewsAssumption DEF GpgEnds, InitSteps, MkviewSteps, EnableSteps,
       disk, call, Course, Running
  <1>30. ASSUME NEW v \in Views, GpgFails(v) PROVE Course'
    BY <1>30, Course, ViewsAssumption DEF GpgFails, InitSteps, MkviewSteps, EnableSteps,
       disk, call, Course, Running
  <1>31. ASSUME NEW v \in Views, RemoveView(v) PROVE Course'
    BY <1>31, Course, ViewsAssumption DEF RemoveView, InitSteps, MkviewSteps, EnableSteps,
       Course, Running
  <1>32. ASSUME NEW f \in Files, RemoveTorn(f) PROVE Course'
    BY <1>32, Course, ViewsAssumption DEF RemoveTorn, InitSteps, MkviewSteps, EnableSteps,
       crypt, Course, Running
  <1>33. CASE UNCHANGED vars
    BY <1>33, Course, ViewsAssumption DEF vars, Course, Running
  <1> QED
    BY <1>1, <1>2, <1>3, <1>4, <1>5, <1>6, <1>7, <1>8, <1>9, <1>10, <1>11, <1>12, <1>13,
       <1>14, <1>15, <1>16, <1>17, <1>18, <1>19, <1>20, <1>21, <1>22, <1>23, <1>24, <1>25,
       <1>26, <1>27, <1>28, <1>29, <1>30, <1>31, <1>32, <1>33 DEF Next, Step, Gpg

\* A view that venv enable has switched is switched, and the others are as they were.
LEMMA RewriteKeeps ==
    ASSUME TypeOK, Ahead, NEW v \in Views, Rewrite(v), pc' = pc
    PROVE  /\ Loaded' = Loaded /\ PathOf(v)' = "near"
           /\ \A w \in Loaded \ {v} : PathOf(w)' = PathOf(w)
  <1>1. v \in Loaded /\ FileOf[v] \in Files /\ conf[FileOf[v]].view = v /\ conf[FileOf[v]] \in Settings
    BY LoadedSettings DEF Rewrite, Ahead
  <1>2. conf' = [conf EXCEPT ![FileOf[v]].path = "near"]
    BY DEF Rewrite, End
  <1>3. DOMAIN conf = Files
    BY DEF TypeOK
  <1>4. conf'[FileOf[v]].view = v /\ conf'[FileOf[v]].path = "near"
    BY <1>1, <1>2, <1>3 DEF Settings
  <1>5. ASSUME NEW w \in Views \ {v}
        PROVE  (w \in Loaded' <=> w \in Loaded) /\ (w \in Loaded => PathOf(w)' = PathOf(w))
    <2>1. FileOf[w] \in Files
      BY ViewsAssumption
    <2>2. CASE FileOf[w] = FileOf[v]
      BY <1>1, <1>4, <2>2 DEF Loaded
    <2>3. CASE FileOf[w] # FileOf[v]
      BY <1>2, <1>3, <2>1, <2>3 DEF Loaded, PathOf
    <2> QED
      BY <2>2, <2>3
  <1> QED
    BY <1>1, <1>4, <1>5 DEF Loaded, PathOf

\* Every step keeps what there is still to go through.
LEMMA AheadStep ==
    ASSUME TypeOK, Course, Ahead, [Next]_vars
    PROVE  Ahead'
  <1>1. ASSUME NEW c \in Commands, NEW v \in Views, NEW o \in Asked(c, v), pc = "idle",
              Begin(c, v, o)
       PROVE  Ahead'
    BY <1>1, TypeOK, Course, Ahead, ViewsAssumption DEF Begin, InitSteps, MkviewSteps,
       EnableSteps, Loaded, disk, crypt, Course, Running, Ahead
  <1>2. CASE Skel
    BY <1>2, TypeOK, Course, Ahead, ViewsAssumption DEF Skel, InitSteps, MkviewSteps,
       EnableSteps, Loaded, Goto, crypt, call, Course, Running, Ahead
  <1>3. CASE Root
    BY <1>3, TypeOK, Course, Ahead, ViewsAssumption DEF Root, InitSteps, MkviewSteps,
       EnableSteps, Loaded, Goto, End, crypt, call, Course, Running, Ahead
  <1>4. CASE Inventory
    BY <1>4, TypeOK, Course, Ahead, ViewsAssumption DEF Inventory, InitSteps, MkviewSteps,
       EnableSteps, Loaded, Goto, crypt, call, Course, Running, Ahead
  <1>5. CASE Keys
    BY <1>5, TypeOK, Course, Ahead, ViewsAssumption DEF Keys, InitSteps, MkviewSteps,
       EnableSteps, Loaded, Goto, End, disk, call, Course, Running, Ahead
  <1>6. CASE Keyfile
    BY <1>6, TypeOK, Course, Ahead, ViewsAssumption DEF Keyfile, InitSteps, MkviewSteps,
       EnableSteps, Loaded, Goto, disk, call, Course, Running, Ahead
  <1>7. CASE Volume
    BY <1>7, TypeOK, Course, Ahead, ViewsAssumption DEF Volume, InitSteps, MkviewSteps,
       EnableSteps, Loaded, Goto, disk, call, Course, Running, Ahead
  <1>8. CASE Encrypt
    BY <1>8, TypeOK, Course, Ahead, ViewsAssumption DEF Encrypt, InitSteps, MkviewSteps,
       EnableSteps, Loaded, Goto, disk, call, Course, Running, Ahead
  <1>9. CASE Appears
    BY <1>9, TypeOK, Course, Ahead, ViewsAssumption DEF Appears, InitSteps, MkviewSteps,
       EnableSteps, Loaded, Goto, disk, call, Course, Running, Ahead
  <1>10. CASE Project
    <2>1. cmd \in {"init", "mkview"}
      BY <1>10, TypeOK, Course, ViewsAssumption DEF Project, TypeOK, Course, Running, EnableSteps
    <2>2. todo' = {} /\ cmd' = cmd /\ pc' # "idle"
      BY <1>10, <2>1, Ahead DEF Project, Ahead, Goto, End, call
    <2> QED
      BY <2>1, <2>2 DEF Ahead
  <1>11. CASE VenvYml
    BY <1>11, TypeOK, Course, Ahead, ViewsAssumption DEF VenvYml, InitSteps, MkviewSteps,
       EnableSteps, Loaded, Goto, End, crypt, call, Course, Running, Ahead
  <1>12. CASE Templates
    BY <1>12, TypeOK, Course, Ahead, ViewsAssumption DEF Templates, InitSteps, MkviewSteps,
       EnableSteps, Loaded, Goto, End, crypt, call, Course, Running, Ahead
  <1>13. CASE Cfg
    BY <1>13, TypeOK, Course, Ahead, ViewsAssumption DEF Cfg, InitSteps, MkviewSteps,
       EnableSteps, Loaded, Goto, End, crypt, call, Course, Running, Ahead
  <1>14. CASE Git
    BY <1>14, TypeOK, Course, Ahead, ViewsAssumption DEF Git, InitSteps, MkviewSteps,
       EnableSteps, Loaded, Goto, End, crypt, call, Course, Running, Ahead
  <1>15. CASE GitCrypt
    BY <1>15, TypeOK, Course, Ahead, ViewsAssumption DEF GitCrypt, InitSteps, MkviewSteps,
       EnableSteps, Loaded, Goto, End, disk, crypt, call, Course, Running, Ahead
  <1>16. CASE Finish
    BY <1>16, TypeOK, Course, Ahead, ViewsAssumption DEF Finish, InitSteps, MkviewSteps,
       EnableSteps, Loaded, End, disk, crypt, call, Course, Running, Ahead
  <1>17. CASE Refreshed
    BY <1>17, TypeOK, Course, Ahead, ViewsAssumption DEF Refreshed, InitSteps, MkviewSteps,
       EnableSteps, Loaded, Goto, disk, crypt, call, Course, Running, Ahead
  <1>18. CASE AppendIgnore
    BY <1>18, TypeOK, Course, Ahead, ViewsAssumption DEF AppendIgnore, InitSteps,
       MkviewSteps, EnableSteps, Loaded, crypt, call, Course, Running, Ahead
  <1>19. CASE Enabled
    BY <1>19, TypeOK, Course, Ahead, ViewsAssumption DEF Enabled, InitSteps, MkviewSteps,
       EnableSteps, Loaded, Goto, disk, crypt, call, Course, Running, Ahead
  <1>20. CASE EnableReqs
    BY <1>20, TypeOK, Course, Ahead, ViewsAssumption DEF EnableReqs, InitSteps,
       MkviewSteps, EnableSteps, Loaded, End, crypt, call, Course, Running, Ahead
  <1>21. CASE Unignore
    BY <1>21, TypeOK, Course, Ahead, ViewsAssumption DEF Unignore, InitSteps, MkviewSteps,
       EnableSteps, Loaded, End, crypt, call, Course, Running, Ahead
  <1>22. CASE Rewritten
    BY <1>22, TypeOK, Course, Ahead, ViewsAssumption DEF Rewritten, InitSteps, MkviewSteps,
       EnableSteps, Loaded, disk, crypt, call, Course, Running, Ahead
  <1>23. CASE Commit
    BY <1>23, TypeOK, Course, Ahead, ViewsAssumption DEF Commit, InitSteps, MkviewSteps,
       EnableSteps, Loaded, Goto, End, disk, crypt, call, Course, Running, Ahead
  <1>24. CASE Killed
    BY <1>24, TypeOK, Course, Ahead, ViewsAssumption DEF Killed, InitSteps, MkviewSteps,
       EnableSteps, Loaded, End, disk, crypt, call, Course, Running, Ahead
  <1>25. CASE Rest
    BY <1>25, TypeOK, Course, Ahead, ViewsAssumption DEF Rest, InitSteps, MkviewSteps,
       EnableSteps, Loaded, disk, crypt, Course, Running, Ahead
  <1>26. ASSUME NEW v \in Views, RefreshView(v) PROVE Ahead'
    BY <1>26, TypeOK, Course, Ahead, ViewsAssumption, LoadedSettings DEF RefreshView,
       InitSteps, MkviewSteps, EnableSteps, Loaded, End, crypt, call, Course, Running,
       Ahead
  <1>27. ASSUME NEW v \in Views, Rewrite(v) PROVE Ahead'
    <2>1. CASE End("killed")
      BY <1>27, <2>1, Course DEF Rewrite, End, call, Ahead, Course, Running, MkviewSteps, InitSteps
    <2>2. CASE pc' = pc
      <3>1. todo' = todo \ {v} /\ UNCHANGED call /\ pc' = "rewrite"
        BY <1>27, <2>2 DEF Rewrite, End
      <3>2. Loaded' = Loaded
        BY <1>27, <2>2, RewriteKeeps
      <3> QED
        BY <3>1, <3>2, Ahead, Course DEF Ahead, call, Course, Running, MkviewSteps, InitSteps
    <2> QED
      BY <1>27, <2>1, <2>2 DEF Rewrite
  <1>28. ASSUME NEW v \in Views, GpgOpens(v) PROVE Ahead'
    BY <1>28, TypeOK, Course, Ahead, ViewsAssumption DEF GpgOpens, InitSteps, MkviewSteps,
       EnableSteps, Loaded, disk, call, Course, Running, Ahead
  <1>29. ASSUME NEW v \in Views, GpgEnds(v) PROVE Ahead'
    BY <1>29, TypeOK, Course, Ahead, ViewsAssumption DEF GpgEnds, InitSteps, MkviewSteps,
       EnableSteps, Loaded, disk, call, Course, Running, Ahead
  <1>30. ASSUME NEW v \in Views, GpgFails(v) PROVE Ahead'
    BY <1>30, TypeOK, Course, Ahead, ViewsAssumption DEF GpgFails, InitSteps, MkviewSteps,
       EnableSteps, Loaded, disk, call, Course, Running, Ahead
  <1>31. ASSUME NEW v \in Views, RemoveView(v) PROVE Ahead'
    BY <1>31, TypeOK, Course, Ahead, ViewsAssumption DEF RemoveView, InitSteps,
       MkviewSteps, EnableSteps, Loaded, Course, Running, Ahead
  <1>32. ASSUME NEW f \in Files, RemoveTorn(f) PROVE Ahead'
    BY <1>32, TypeOK, Course, Ahead, ViewsAssumption DEF RemoveTorn, InitSteps,
       MkviewSteps, EnableSteps, Loaded, crypt, Course, Running, Ahead
  <1>33. CASE UNCHANGED vars
    BY <1>33, TypeOK, Course, Ahead, ViewsAssumption DEF vars, Loaded, Course, Running,
       Ahead
  <1> QED
    BY <1>1, <1>2, <1>3, <1>4, <1>5, <1>6, <1>7, <1>8, <1>9, <1>10, <1>11, <1>12, <1>13,
       <1>14, <1>15, <1>16, <1>17, <1>18, <1>19, <1>20, <1>21, <1>22, <1>23, <1>24, <1>25,
       <1>26, <1>27, <1>28, <1>29, <1>30, <1>31, <1>32, <1>33 DEF Next, Step, Gpg

\* init and mkview keep the directories that they have made.
LEMMA WholeStep ==
    ASSUME TypeOK, Course, Ahead, WholeInv, [Next]_vars
    PROVE  WholeInv'
  <1>1. ASSUME NEW c \in Commands, NEW v \in Views, NEW o \in Asked(c, v), pc = "idle",
              Begin(c, v, o)
       PROVE  WholeInv'
    BY <1>1, TypeOK, Course, Ahead, WholeInv, ViewsAssumption DEF Begin, InitSteps,
       MkviewSteps, EnableSteps, disk, crypt, Course, Running, Ahead, WholeInv, Making,
       Later, TypeOK
  <1>2. CASE Skel
    BY <1>2, TypeOK, Course, Ahead, WholeInv, ViewsAssumption DEF Skel, InitSteps,
       MkviewSteps, EnableSteps, Goto, crypt, call, Course, Running, Ahead, WholeInv,
       Making, Later, TypeOK
  <1>3. CASE Root
    BY <1>3, TypeOK, Course, Ahead, WholeInv, ViewsAssumption DEF Root, InitSteps,
       MkviewSteps, EnableSteps, Grown, Goto, End, crypt, call, Course, Running, Ahead,
       WholeInv, Making, Later, TypeOK
  <1>4. CASE Inventory
    BY <1>4, TypeOK, Course, Ahead, WholeInv, ViewsAssumption DEF Inventory, InitSteps,
       MkviewSteps, EnableSteps, Goto, crypt, call, Course, Running, Ahead, WholeInv,
       Making, Later, TypeOK
  <1>5. CASE Keys
    BY <1>5, TypeOK, Course, Ahead, WholeInv, ViewsAssumption DEF Keys, InitSteps,
       MkviewSteps, EnableSteps, Goto, End, disk, call, Course, Running, Ahead, WholeInv,
       Making, Later, TypeOK
  <1>6. CASE Keyfile
    BY <1>6, TypeOK, Course, Ahead, WholeInv, ViewsAssumption DEF Keyfile, InitSteps,
       MkviewSteps, EnableSteps, Goto, disk, call, Course, Running, Ahead, WholeInv,
       Making, Later, TypeOK
  <1>7. CASE Volume
    BY <1>7, TypeOK, Course, Ahead, WholeInv, ViewsAssumption DEF Volume, InitSteps,
       MkviewSteps, EnableSteps, Goto, disk, call, Course, Running, Ahead, WholeInv,
       Making, Later, TypeOK
  <1>8. CASE Encrypt
    BY <1>8, TypeOK, Course, Ahead, WholeInv, ViewsAssumption DEF Encrypt, InitSteps,
       MkviewSteps, EnableSteps, Goto, disk, call, Course, Running, Ahead, WholeInv,
       Making, Later, TypeOK
  <1>9. CASE Appears
    BY <1>9, TypeOK, Course, Ahead, WholeInv, ViewsAssumption DEF Appears, InitSteps,
       MkviewSteps, EnableSteps, Goto, disk, call, Course, Running, Ahead, WholeInv,
       Making, Later, TypeOK
  <1>10. CASE Project
    BY <1>10, TypeOK, Course, Ahead, WholeInv, ViewsAssumption DEF Project, InitSteps,
       MkviewSteps, EnableSteps, Goto, End, crypt, call, Course, Running, Ahead, WholeInv,
       Making, Later, TypeOK
  <1>11. CASE VenvYml
    BY <1>11, TypeOK, Course, Ahead, WholeInv, ViewsAssumption DEF VenvYml, InitSteps,
       MkviewSteps, EnableSteps, Goto, End, crypt, call, Course, Running, Ahead, WholeInv,
       Making, Later, TypeOK
  <1>12. CASE Templates
    BY <1>12, TypeOK, Course, Ahead, WholeInv, ViewsAssumption DEF Templates, InitSteps,
       MkviewSteps, EnableSteps, Goto, End, crypt, call, Course, Running, Ahead, WholeInv,
       Making, Later, TypeOK
  <1>13. CASE Cfg
    BY <1>13, TypeOK, Course, Ahead, WholeInv, ViewsAssumption DEF Cfg, InitSteps,
       MkviewSteps, EnableSteps, Goto, End, crypt, call, Course, Running, Ahead, WholeInv,
       Making, Later, TypeOK
  <1>14. CASE Git
    BY <1>14, TypeOK, Course, Ahead, WholeInv, ViewsAssumption DEF Git, InitSteps,
       MkviewSteps, EnableSteps, Goto, End, crypt, call, Course, Running, Ahead, WholeInv,
       Making, Later, TypeOK
  <1>15. CASE GitCrypt
    BY <1>15, TypeOK, Course, Ahead, WholeInv, ViewsAssumption DEF GitCrypt, InitSteps,
       MkviewSteps, EnableSteps, Goto, End, disk, crypt, call, Course, Running, Ahead,
       WholeInv, Making, Later, TypeOK
  <1>16. CASE Finish
    BY <1>16, TypeOK, Course, Ahead, WholeInv, ViewsAssumption DEF Finish, InitSteps,
       MkviewSteps, EnableSteps, End, disk, crypt, call, Course, Running, Ahead, WholeInv,
       Making, Later, TypeOK
  <1>17. CASE Refreshed
    BY <1>17, TypeOK, Course, Ahead, WholeInv, ViewsAssumption DEF Refreshed, InitSteps,
       MkviewSteps, EnableSteps, Goto, disk, crypt, call, Course, Running, Ahead, WholeInv,
       Making, Later, TypeOK
  <1>18. CASE AppendIgnore
    BY <1>18, TypeOK, Course, Ahead, WholeInv, ViewsAssumption DEF AppendIgnore, InitSteps,
       MkviewSteps, EnableSteps, crypt, call, Course, Running, Ahead, WholeInv, Making,
       Later, TypeOK
  <1>19. CASE Enabled
    BY <1>19, TypeOK, Course, Ahead, WholeInv, ViewsAssumption DEF Enabled, InitSteps,
       MkviewSteps, EnableSteps, Goto, disk, crypt, call, Course, Running, Ahead, WholeInv,
       Making, Later, TypeOK
  <1>20. CASE EnableReqs
    BY <1>20, TypeOK, Course, Ahead, WholeInv, ViewsAssumption DEF EnableReqs, InitSteps,
       MkviewSteps, EnableSteps, End, crypt, call, Course, Running, Ahead, WholeInv,
       Making, Later, TypeOK
  <1>21. CASE Unignore
    BY <1>21, TypeOK, Course, Ahead, WholeInv, ViewsAssumption DEF Unignore, InitSteps,
       MkviewSteps, EnableSteps, End, crypt, call, Course, Running, Ahead, WholeInv,
       Making, Later, TypeOK
  <1>22. CASE Rewritten
    BY <1>22, TypeOK, Course, Ahead, WholeInv, ViewsAssumption DEF Rewritten, InitSteps,
       MkviewSteps, EnableSteps, disk, crypt, call, Course, Running, Ahead, WholeInv,
       Making, Later, TypeOK
  <1>23. CASE Commit
    BY <1>23, TypeOK, Course, Ahead, WholeInv, ViewsAssumption DEF Commit, InitSteps,
       MkviewSteps, EnableSteps, Goto, End, disk, crypt, call, Course, Running, Ahead,
       WholeInv, Making, Later, TypeOK
  <1>24. CASE Killed
    BY <1>24, TypeOK, Course, Ahead, WholeInv, ViewsAssumption DEF Killed, InitSteps,
       MkviewSteps, EnableSteps, End, disk, crypt, call, Course, Running, Ahead, WholeInv,
       Making, Later, TypeOK
  <1>25. CASE Rest
    BY <1>25, TypeOK, Course, Ahead, WholeInv, ViewsAssumption DEF Rest, InitSteps,
       MkviewSteps, EnableSteps, disk, crypt, Course, Running, Ahead, WholeInv, Making,
       Later, TypeOK
  <1>26. ASSUME NEW v \in Views, RefreshView(v) PROVE WholeInv'
    BY <1>26, TypeOK, Course, Ahead, WholeInv, ViewsAssumption DEF RefreshView, InitSteps,
       MkviewSteps, EnableSteps, Grown, End, crypt, call, Course, Running, Ahead, WholeInv,
       Making, Later, TypeOK
  <1>27. ASSUME NEW v \in Views, Rewrite(v) PROVE WholeInv'
    BY <1>27, TypeOK, Course, Ahead, WholeInv, ViewsAssumption DEF Rewrite, InitSteps,
       MkviewSteps, EnableSteps, End, crypt, call, Course, Running, Ahead, WholeInv,
       Making, Later, TypeOK
  <1>28. ASSUME NEW v \in Views, GpgOpens(v) PROVE WholeInv'
    BY <1>28, TypeOK, Course, Ahead, WholeInv, ViewsAssumption DEF GpgOpens, InitSteps,
       MkviewSteps, EnableSteps, disk, call, Course, Running, Ahead, WholeInv, Making,
       Later, TypeOK
  <1>29. ASSUME NEW v \in Views, GpgEnds(v) PROVE WholeInv'
    BY <1>29, TypeOK, Course, Ahead, WholeInv, ViewsAssumption DEF GpgEnds, InitSteps,
       MkviewSteps, EnableSteps, disk, call, Course, Running, Ahead, WholeInv, Making,
       Later, TypeOK
  <1>30. ASSUME NEW v \in Views, GpgFails(v) PROVE WholeInv'
    BY <1>30, TypeOK, Course, Ahead, WholeInv, ViewsAssumption DEF GpgFails, InitSteps,
       MkviewSteps, EnableSteps, disk, call, Course, Running, Ahead, WholeInv, Making,
       Later, TypeOK
  <1>31. ASSUME NEW v \in Views, RemoveView(v) PROVE WholeInv'
    BY <1>31, TypeOK, Course, Ahead, WholeInv, ViewsAssumption DEF RemoveView, InitSteps,
       MkviewSteps, EnableSteps, Course, Running, Ahead, WholeInv, Making, Later, TypeOK
  <1>32. ASSUME NEW f \in Files, RemoveTorn(f) PROVE WholeInv'
    BY <1>32, TypeOK, Course, Ahead, WholeInv, ViewsAssumption DEF RemoveTorn, InitSteps,
       MkviewSteps, EnableSteps, crypt, Course, Running, Ahead, WholeInv, Making, Later,
       TypeOK
  <1>33. CASE UNCHANGED vars
    BY <1>33, TypeOK, Course, Ahead, WholeInv, ViewsAssumption DEF vars, Course, Running,
       Ahead, WholeInv, Making, Later, TypeOK
  <1> QED
    BY <1>1, <1>2, <1>3, <1>4, <1>5, <1>6, <1>7, <1>8, <1>9, <1>10, <1>11, <1>12, <1>13,
       <1>14, <1>15, <1>16, <1>17, <1>18, <1>19, <1>20, <1>21, <1>22, <1>23, <1>24, <1>25,
       <1>26, <1>27, <1>28, <1>29, <1>30, <1>31, <1>32, <1>33 DEF Next, Step, Gpg

\* init and mkview and gpg keep the secrets sealed.
LEMMA SealedStep ==
    ASSUME TypeOK, Course, Ahead, SealedInv, [Next]_vars
    PROVE  SealedInv'
  <1>1. ASSUME NEW c \in Commands, NEW v \in Views, NEW o \in Asked(c, v), pc = "idle",
              Begin(c, v, o)
       PROVE  SealedInv'
    BY <1>1, TypeOK, Course, Ahead, SealedInv, ViewsAssumption DEF Begin, InitSteps,
       MkviewSteps, EnableSteps, disk, crypt, Course, Running, Ahead, SealedInv, Making,
       Later, TypeOK
  <1>2. CASE Skel
    BY <1>2, TypeOK, Course, Ahead, SealedInv, ViewsAssumption DEF Skel, InitSteps,
       MkviewSteps, EnableSteps, Goto, crypt, call, Course, Running, Ahead, SealedInv,
       Making, Later, TypeOK
  <1>3. CASE Root
    BY <1>3, TypeOK, Course, Ahead, SealedInv, ViewsAssumption DEF Root, InitSteps,
       MkviewSteps, EnableSteps, Goto, End, crypt, call, Course, Running, Ahead, SealedInv,
       Making, Later, TypeOK
  <1>4. CASE Inventory
    BY <1>4, TypeOK, Course, Ahead, SealedInv, ViewsAssumption DEF Inventory, InitSteps,
       MkviewSteps, EnableSteps, Goto, crypt, call, Course, Running, Ahead, SealedInv,
       Making, Later, TypeOK
  <1>5. CASE Keys
    BY <1>5, TypeOK, Course, Ahead, SealedInv, ViewsAssumption DEF Keys, InitSteps,
       MkviewSteps, EnableSteps, Goto, End, disk, call, Course, Running, Ahead, SealedInv,
       Making, Later, TypeOK
  <1>6. CASE Keyfile
    BY <1>6, TypeOK, Course, Ahead, SealedInv, ViewsAssumption DEF Keyfile, InitSteps,
       MkviewSteps, EnableSteps, Goto, disk, call, Course, Running, Ahead, SealedInv,
       Making, Later, TypeOK
  <1>7. CASE Volume
    BY <1>7, TypeOK, Course, Ahead, SealedInv, ViewsAssumption DEF Volume, InitSteps,
       MkviewSteps, EnableSteps, Goto, disk, call, Course, Running, Ahead, SealedInv,
       Making, Later, TypeOK
  <1>8. CASE Encrypt
    BY <1>8, TypeOK, Course, Ahead, SealedInv, ViewsAssumption DEF Encrypt, InitSteps,
       MkviewSteps, EnableSteps, Goto, disk, call, Course, Running, Ahead, SealedInv,
       Making, Later, TypeOK
  <1>9. CASE Appears
    BY <1>9, TypeOK, Course, Ahead, SealedInv, ViewsAssumption DEF Appears, InitSteps,
       MkviewSteps, EnableSteps, Goto, disk, call, Course, Running, Ahead, SealedInv,
       Making, Later, TypeOK
  <1>10. CASE Project
    BY <1>10, TypeOK, Course, Ahead, SealedInv, ViewsAssumption DEF Project, InitSteps,
       MkviewSteps, EnableSteps, Goto, End, crypt, call, Course, Running, Ahead, SealedInv,
       Making, Later, TypeOK
  <1>11. CASE VenvYml
    BY <1>11, TypeOK, Course, Ahead, SealedInv, ViewsAssumption DEF VenvYml, InitSteps,
       MkviewSteps, EnableSteps, Goto, End, crypt, call, Course, Running, Ahead, SealedInv,
       Making, Later, TypeOK
  <1>12. CASE Templates
    BY <1>12, TypeOK, Course, Ahead, SealedInv, ViewsAssumption DEF Templates, InitSteps,
       MkviewSteps, EnableSteps, Goto, End, crypt, call, Course, Running, Ahead, SealedInv,
       Making, Later, TypeOK
  <1>13. CASE Cfg
    BY <1>13, TypeOK, Course, Ahead, SealedInv, ViewsAssumption DEF Cfg, InitSteps,
       MkviewSteps, EnableSteps, Goto, End, crypt, call, Course, Running, Ahead, SealedInv,
       Making, Later, TypeOK
  <1>14. CASE Git
    BY <1>14, TypeOK, Course, Ahead, SealedInv, ViewsAssumption DEF Git, InitSteps,
       MkviewSteps, EnableSteps, Goto, End, crypt, call, Course, Running, Ahead, SealedInv,
       Making, Later, TypeOK
  <1>15. CASE GitCrypt
    BY <1>15, TypeOK, Course, Ahead, SealedInv, ViewsAssumption DEF GitCrypt, InitSteps,
       MkviewSteps, EnableSteps, Goto, End, disk, crypt, call, Course, Running, Ahead,
       SealedInv, Making, Later, TypeOK
  <1>16. CASE Finish
    BY <1>16, TypeOK, Course, Ahead, SealedInv, ViewsAssumption DEF Finish, InitSteps,
       MkviewSteps, EnableSteps, End, disk, crypt, call, Course, Running, Ahead, SealedInv,
       Making, Later, TypeOK
  <1>17. CASE Refreshed
    BY <1>17, TypeOK, Course, Ahead, SealedInv, ViewsAssumption DEF Refreshed, InitSteps,
       MkviewSteps, EnableSteps, Goto, disk, crypt, call, Course, Running, Ahead,
       SealedInv, Making, Later, TypeOK
  <1>18. CASE AppendIgnore
    BY <1>18, TypeOK, Course, Ahead, SealedInv, ViewsAssumption DEF AppendIgnore,
       InitSteps, MkviewSteps, EnableSteps, crypt, call, Course, Running, Ahead, SealedInv,
       Making, Later, TypeOK
  <1>19. CASE Enabled
    BY <1>19, TypeOK, Course, Ahead, SealedInv, ViewsAssumption DEF Enabled, InitSteps,
       MkviewSteps, EnableSteps, Goto, disk, crypt, call, Course, Running, Ahead,
       SealedInv, Making, Later, TypeOK
  <1>20. CASE EnableReqs
    BY <1>20, TypeOK, Course, Ahead, SealedInv, ViewsAssumption DEF EnableReqs, InitSteps,
       MkviewSteps, EnableSteps, End, crypt, call, Course, Running, Ahead, SealedInv,
       Making, Later, TypeOK
  <1>21. CASE Unignore
    BY <1>21, TypeOK, Course, Ahead, SealedInv, ViewsAssumption DEF Unignore, InitSteps,
       MkviewSteps, EnableSteps, End, crypt, call, Course, Running, Ahead, SealedInv,
       Making, Later, TypeOK
  <1>22. CASE Rewritten
    BY <1>22, TypeOK, Course, Ahead, SealedInv, ViewsAssumption DEF Rewritten, InitSteps,
       MkviewSteps, EnableSteps, disk, crypt, call, Course, Running, Ahead, SealedInv,
       Making, Later, TypeOK
  <1>23. CASE Commit
    BY <1>23, TypeOK, Course, Ahead, SealedInv, ViewsAssumption DEF Commit, InitSteps,
       MkviewSteps, EnableSteps, Goto, End, disk, crypt, call, Course, Running, Ahead,
       SealedInv, Making, Later, TypeOK
  <1>24. CASE Killed
    BY <1>24, TypeOK, Course, Ahead, SealedInv, ViewsAssumption DEF Killed, InitSteps,
       MkviewSteps, EnableSteps, End, disk, crypt, call, Course, Running, Ahead, SealedInv,
       Making, Later, TypeOK
  <1>25. CASE Rest
    BY <1>25, TypeOK, Course, Ahead, SealedInv, ViewsAssumption DEF Rest, InitSteps,
       MkviewSteps, EnableSteps, disk, crypt, Course, Running, Ahead, SealedInv, Making,
       Later, TypeOK
  <1>26. ASSUME NEW v \in Views, RefreshView(v) PROVE SealedInv'
    BY <1>26, TypeOK, Course, Ahead, SealedInv, ViewsAssumption DEF RefreshView, InitSteps,
       MkviewSteps, EnableSteps, End, crypt, call, Course, Running, Ahead, SealedInv,
       Making, Later, TypeOK
  <1>27. ASSUME NEW v \in Views, Rewrite(v) PROVE SealedInv'
    BY <1>27, TypeOK, Course, Ahead, SealedInv, ViewsAssumption DEF Rewrite, InitSteps,
       MkviewSteps, EnableSteps, End, crypt, call, Course, Running, Ahead, SealedInv,
       Making, Later, TypeOK
  <1>28. ASSUME NEW v \in Views, GpgOpens(v) PROVE SealedInv'
    BY <1>28, TypeOK, Course, Ahead, SealedInv, ViewsAssumption DEF GpgOpens, InitSteps,
       MkviewSteps, EnableSteps, disk, call, Course, Running, Ahead, SealedInv, Making,
       Later, TypeOK
  <1>29. ASSUME NEW v \in Views, GpgEnds(v) PROVE SealedInv'
    BY <1>29, TypeOK, Course, Ahead, SealedInv, ViewsAssumption DEF GpgEnds, InitSteps,
       MkviewSteps, EnableSteps, disk, call, Course, Running, Ahead, SealedInv, Making,
       Later, TypeOK
  <1>30. ASSUME NEW v \in Views, GpgFails(v) PROVE SealedInv'
    BY <1>30, TypeOK, Course, Ahead, SealedInv, ViewsAssumption DEF GpgFails, InitSteps,
       MkviewSteps, EnableSteps, disk, call, Course, Running, Ahead, SealedInv, Making,
       Later, TypeOK
  <1>31. ASSUME NEW v \in Views, RemoveView(v) PROVE SealedInv'
    BY <1>31, TypeOK, Course, Ahead, SealedInv, ViewsAssumption DEF RemoveView, InitSteps,
       MkviewSteps, EnableSteps, Course, Running, Ahead, SealedInv, Making, Later, TypeOK
  <1>32. ASSUME NEW f \in Files, RemoveTorn(f) PROVE SealedInv'
    BY <1>32, TypeOK, Course, Ahead, SealedInv, ViewsAssumption DEF RemoveTorn, InitSteps,
       MkviewSteps, EnableSteps, crypt, Course, Running, Ahead, SealedInv, Making, Later,
       TypeOK
  <1>33. CASE UNCHANGED vars
    BY <1>33, TypeOK, Course, Ahead, SealedInv, ViewsAssumption DEF vars, Course, Running,
       Ahead, SealedInv, Making, Later, TypeOK
  <1> QED
    BY <1>1, <1>2, <1>3, <1>4, <1>5, <1>6, <1>7, <1>8, <1>9, <1>10, <1>11, <1>12, <1>13,
       <1>14, <1>15, <1>16, <1>17, <1>18, <1>19, <1>20, <1>21, <1>22, <1>23, <1>24, <1>25,
       <1>26, <1>27, <1>28, <1>29, <1>30, <1>31, <1>32, <1>33 DEF Next, Step, Gpg

\* init and mkview keep the settings that they have written.
LEMMA ConfiguredStep ==
    ASSUME TypeOK, Course, Ahead, ConfiguredInv, [Next]_vars
    PROVE  ConfiguredInv'
  <1>1. ASSUME NEW c \in Commands, NEW v \in Views, NEW o \in Asked(c, v), pc = "idle",
              Begin(c, v, o)
       PROVE  ConfiguredInv'
    BY <1>1, TypeOK, Course, Ahead, ConfiguredInv, ViewsAssumption DEF Begin, InitSteps,
       MkviewSteps, EnableSteps, Loaded, PathOf, disk, crypt, Course, Running, Ahead,
       ConfiguredInv, Making, TypeOK
  <1>2. CASE Skel
    BY <1>2, TypeOK, Course, Ahead, ConfiguredInv, ViewsAssumption DEF Skel, InitSteps,
       MkviewSteps, EnableSteps, Loaded, PathOf, Goto, crypt, call, Course, Running, Ahead,
       ConfiguredInv, Making, TypeOK
  <1>3. CASE Root
    BY <1>3, TypeOK, Course, Ahead, ConfiguredInv, ViewsAssumption DEF Root, InitSteps,
       MkviewSteps, EnableSteps, Loaded, PathOf, Goto, End, crypt, call, Course, Running,
       Ahead, ConfiguredInv, Making, TypeOK
  <1>4. CASE Inventory
    BY <1>4, TypeOK, Course, Ahead, ConfiguredInv, ViewsAssumption DEF Inventory,
       InitSteps, MkviewSteps, EnableSteps, Loaded, PathOf, Goto, crypt, call, Course,
       Running, Ahead, ConfiguredInv, Making, TypeOK
  <1>5. CASE Keys
    BY <1>5, TypeOK, Course, Ahead, ConfiguredInv, ViewsAssumption DEF Keys, InitSteps,
       MkviewSteps, EnableSteps, Loaded, PathOf, Goto, End, disk, call, Course, Running,
       Ahead, ConfiguredInv, Making, TypeOK
  <1>6. CASE Keyfile
    BY <1>6, TypeOK, Course, Ahead, ConfiguredInv, ViewsAssumption DEF Keyfile, InitSteps,
       MkviewSteps, EnableSteps, Loaded, PathOf, Goto, disk, call, Course, Running, Ahead,
       ConfiguredInv, Making, TypeOK
  <1>7. CASE Volume
    BY <1>7, TypeOK, Course, Ahead, ConfiguredInv, ViewsAssumption DEF Volume, InitSteps,
       MkviewSteps, EnableSteps, Loaded, PathOf, Goto, disk, call, Course, Running, Ahead,
       ConfiguredInv, Making, TypeOK
  <1>8. CASE Encrypt
    BY <1>8, TypeOK, Course, Ahead, ConfiguredInv, ViewsAssumption DEF Encrypt, InitSteps,
       MkviewSteps, EnableSteps, Loaded, PathOf, Goto, disk, call, Course, Running, Ahead,
       ConfiguredInv, Making, TypeOK
  <1>9. CASE Appears
    BY <1>9, TypeOK, Course, Ahead, ConfiguredInv, ViewsAssumption DEF Appears, InitSteps,
       MkviewSteps, EnableSteps, Loaded, PathOf, Goto, disk, call, Course, Running, Ahead,
       ConfiguredInv, Making, TypeOK
  <1>10. CASE Project
    BY <1>10, TypeOK, Course, Ahead, ConfiguredInv, ViewsAssumption DEF Project, InitSteps,
       MkviewSteps, EnableSteps, Loaded, PathOf, Goto, End, crypt, call, Course, Running,
       Ahead, ConfiguredInv, Making, TypeOK
  <1>11. CASE VenvYml
    BY <1>11, TypeOK, Course, Ahead, ConfiguredInv, ViewsAssumption DEF VenvYml, InitSteps,
       MkviewSteps, EnableSteps, Loaded, PathOf, Goto, End, crypt, call, Course, Running,
       Ahead, ConfiguredInv, Making, TypeOK
  <1>12. CASE Templates
    BY <1>12, TypeOK, Course, Ahead, ConfiguredInv, ViewsAssumption DEF Templates,
       InitSteps, MkviewSteps, EnableSteps, Loaded, PathOf, Goto, End, crypt, call, Course,
       Running, Ahead, ConfiguredInv, Making, TypeOK
  <1>13. CASE Cfg
    BY <1>13, TypeOK, Course, Ahead, ConfiguredInv, ViewsAssumption DEF Cfg, InitSteps,
       MkviewSteps, EnableSteps, Loaded, PathOf, Goto, End, crypt, call, Course, Running,
       Ahead, ConfiguredInv, Making, TypeOK
  <1>14. CASE Git
    BY <1>14, TypeOK, Course, Ahead, ConfiguredInv, ViewsAssumption DEF Git, InitSteps,
       MkviewSteps, EnableSteps, Loaded, PathOf, Goto, End, crypt, call, Course, Running,
       Ahead, ConfiguredInv, Making, TypeOK
  <1>15. CASE GitCrypt
    BY <1>15, TypeOK, Course, Ahead, ConfiguredInv, ViewsAssumption DEF GitCrypt,
       InitSteps, MkviewSteps, EnableSteps, Loaded, PathOf, Goto, End, disk, crypt, call,
       Course, Running, Ahead, ConfiguredInv, Making, TypeOK
  <1>16. CASE Finish
    BY <1>16, TypeOK, Course, Ahead, ConfiguredInv, ViewsAssumption DEF Finish, InitSteps,
       MkviewSteps, EnableSteps, Loaded, PathOf, End, disk, crypt, call, Course, Running,
       Ahead, ConfiguredInv, Making, TypeOK
  <1>17. CASE Refreshed
    BY <1>17, TypeOK, Course, Ahead, ConfiguredInv, ViewsAssumption DEF Refreshed,
       InitSteps, MkviewSteps, EnableSteps, Loaded, PathOf, Goto, disk, crypt, call,
       Course, Running, Ahead, ConfiguredInv, Making, TypeOK
  <1>18. CASE AppendIgnore
    BY <1>18, TypeOK, Course, Ahead, ConfiguredInv, ViewsAssumption DEF AppendIgnore,
       InitSteps, MkviewSteps, EnableSteps, Loaded, PathOf, crypt, call, Course, Running,
       Ahead, ConfiguredInv, Making, TypeOK
  <1>19. CASE Enabled
    BY <1>19, TypeOK, Course, Ahead, ConfiguredInv, ViewsAssumption DEF Enabled, InitSteps,
       MkviewSteps, EnableSteps, Loaded, PathOf, Goto, disk, crypt, call, Course, Running,
       Ahead, ConfiguredInv, Making, TypeOK
  <1>20. CASE EnableReqs
    BY <1>20, TypeOK, Course, Ahead, ConfiguredInv, ViewsAssumption DEF EnableReqs,
       InitSteps, MkviewSteps, EnableSteps, Loaded, PathOf, End, crypt, call, Course,
       Running, Ahead, ConfiguredInv, Making, TypeOK
  <1>21. CASE Unignore
    BY <1>21, TypeOK, Course, Ahead, ConfiguredInv, ViewsAssumption DEF Unignore,
       InitSteps, MkviewSteps, EnableSteps, Loaded, PathOf, End, crypt, call, Course,
       Running, Ahead, ConfiguredInv, Making, TypeOK
  <1>22. CASE Rewritten
    BY <1>22, TypeOK, Course, Ahead, ConfiguredInv, ViewsAssumption DEF Rewritten,
       InitSteps, MkviewSteps, EnableSteps, Loaded, PathOf, disk, crypt, call, Course,
       Running, Ahead, ConfiguredInv, Making, TypeOK
  <1>23. CASE Commit
    BY <1>23, TypeOK, Course, Ahead, ConfiguredInv, ViewsAssumption DEF Commit, InitSteps,
       MkviewSteps, EnableSteps, Loaded, PathOf, Goto, End, disk, crypt, call, Course,
       Running, Ahead, ConfiguredInv, Making, TypeOK
  <1>24. CASE Killed
    BY <1>24, TypeOK, Course, Ahead, ConfiguredInv, ViewsAssumption DEF Killed, InitSteps,
       MkviewSteps, EnableSteps, Loaded, PathOf, End, disk, crypt, call, Course, Running,
       Ahead, ConfiguredInv, Making, TypeOK
  <1>25. CASE Rest
    BY <1>25, TypeOK, Course, Ahead, ConfiguredInv, ViewsAssumption DEF Rest, InitSteps,
       MkviewSteps, EnableSteps, Loaded, PathOf, disk, crypt, Course, Running, Ahead,
       ConfiguredInv, Making, TypeOK
  <1>26. ASSUME NEW v \in Views, RefreshView(v) PROVE ConfiguredInv'
    BY <1>26, TypeOK, Course, Ahead, ConfiguredInv, ViewsAssumption DEF RefreshView,
       InitSteps, MkviewSteps, EnableSteps, Loaded, PathOf, End, crypt, call, Course,
       Running, Ahead, ConfiguredInv, Making, TypeOK
  <1>27. ASSUME NEW v \in Views, Rewrite(v) PROVE ConfiguredInv'
    BY <1>27, TypeOK, Course, Ahead, ConfiguredInv, ViewsAssumption DEF Rewrite, InitSteps,
       MkviewSteps, EnableSteps, Loaded, PathOf, End, crypt, call, Course, Running, Ahead,
       ConfiguredInv, Making, TypeOK
  <1>28. ASSUME NEW v \in Views, GpgOpens(v) PROVE ConfiguredInv'
    BY <1>28, TypeOK, Course, Ahead, ConfiguredInv, ViewsAssumption DEF GpgOpens,
       InitSteps, MkviewSteps, EnableSteps, Loaded, PathOf, disk, call, Course, Running,
       Ahead, ConfiguredInv, Making, TypeOK
  <1>29. ASSUME NEW v \in Views, GpgEnds(v) PROVE ConfiguredInv'
    BY <1>29, TypeOK, Course, Ahead, ConfiguredInv, ViewsAssumption DEF GpgEnds, InitSteps,
       MkviewSteps, EnableSteps, Loaded, PathOf, disk, call, Course, Running, Ahead,
       ConfiguredInv, Making, TypeOK
  <1>30. ASSUME NEW v \in Views, GpgFails(v) PROVE ConfiguredInv'
    BY <1>30, TypeOK, Course, Ahead, ConfiguredInv, ViewsAssumption DEF GpgFails,
       InitSteps, MkviewSteps, EnableSteps, Loaded, PathOf, disk, call, Course, Running,
       Ahead, ConfiguredInv, Making, TypeOK
  <1>31. ASSUME NEW v \in Views, RemoveView(v) PROVE ConfiguredInv'
    BY <1>31, TypeOK, Course, Ahead, ConfiguredInv, ViewsAssumption DEF RemoveView,
       InitSteps, MkviewSteps, EnableSteps, Loaded, PathOf, Course, Running, Ahead,
       ConfiguredInv, Making, TypeOK
  <1>32. ASSUME NEW f \in Files, RemoveTorn(f) PROVE ConfiguredInv'
    BY <1>32, TypeOK, Course, Ahead, ConfiguredInv, ViewsAssumption DEF RemoveTorn,
       InitSteps, MkviewSteps, EnableSteps, Loaded, PathOf, crypt, Course, Running, Ahead,
       ConfiguredInv, Making, TypeOK
  <1>33. CASE UNCHANGED vars
    BY <1>33, TypeOK, Course, Ahead, ConfiguredInv, ViewsAssumption DEF vars, Loaded,
       PathOf, Course, Running, Ahead, ConfiguredInv, Making, TypeOK
  <1> QED
    BY <1>1, <1>2, <1>3, <1>4, <1>5, <1>6, <1>7, <1>8, <1>9, <1>10, <1>11, <1>12, <1>13,
       <1>14, <1>15, <1>16, <1>17, <1>18, <1>19, <1>20, <1>21, <1>22, <1>23, <1>24, <1>25,
       <1>26, <1>27, <1>28, <1>29, <1>30, <1>31, <1>32, <1>33 DEF Next, Step, Gpg

\* refresh keeps what it has repaired.
LEMMA RefreshStep ==
    ASSUME TypeOK, Course, Ahead, RefreshInv, [Next]_vars
    PROVE  RefreshInv'
  <1>1. ASSUME NEW c \in Commands, NEW v \in Views, NEW o \in Asked(c, v), pc = "idle",
              Begin(c, v, o)
       PROVE  RefreshInv'
    BY <1>1, TypeOK, Course, Ahead, RefreshInv, ViewsAssumption DEF Begin, InitSteps,
       MkviewSteps, EnableSteps, Loaded, PathOf, disk, crypt, Course, Running, Ahead,
       RefreshInv, TypeOK
  <1>2. CASE Skel
    BY <1>2, TypeOK, Course, Ahead, RefreshInv, ViewsAssumption DEF Skel, InitSteps,
       MkviewSteps, EnableSteps, Loaded, PathOf, Goto, crypt, call, Course, Running, Ahead,
       RefreshInv, TypeOK
  <1>3. CASE Root
    BY <1>3, TypeOK, Course, Ahead, RefreshInv, ViewsAssumption DEF Root, InitSteps,
       MkviewSteps, EnableSteps, Loaded, PathOf, Grown, Goto, End, crypt, call, Course,
       Running, Ahead, RefreshInv, TypeOK
  <1>4. CASE Inventory
    BY <1>4, TypeOK, Course, Ahead, RefreshInv, ViewsAssumption DEF Inventory, InitSteps,
       MkviewSteps, EnableSteps, Loaded, PathOf, Goto, crypt, call, Course, Running, Ahead,
       RefreshInv, TypeOK
  <1>5. CASE Keys
    BY <1>5, TypeOK, Course, Ahead, RefreshInv, ViewsAssumption DEF Keys, InitSteps,
       MkviewSteps, EnableSteps, Loaded, PathOf, Goto, End, disk, call, Course, Running,
       Ahead, RefreshInv, TypeOK
  <1>6. CASE Keyfile
    BY <1>6, TypeOK, Course, Ahead, RefreshInv, ViewsAssumption DEF Keyfile, InitSteps,
       MkviewSteps, EnableSteps, Loaded, PathOf, Goto, disk, call, Course, Running, Ahead,
       RefreshInv, TypeOK
  <1>7. CASE Volume
    BY <1>7, TypeOK, Course, Ahead, RefreshInv, ViewsAssumption DEF Volume, InitSteps,
       MkviewSteps, EnableSteps, Loaded, PathOf, Goto, disk, call, Course, Running, Ahead,
       RefreshInv, TypeOK
  <1>8. CASE Encrypt
    BY <1>8, TypeOK, Course, Ahead, RefreshInv, ViewsAssumption DEF Encrypt, InitSteps,
       MkviewSteps, EnableSteps, Loaded, PathOf, Goto, disk, call, Course, Running, Ahead,
       RefreshInv, TypeOK
  <1>9. CASE Appears
    BY <1>9, TypeOK, Course, Ahead, RefreshInv, ViewsAssumption DEF Appears, InitSteps,
       MkviewSteps, EnableSteps, Loaded, PathOf, Goto, disk, call, Course, Running, Ahead,
       RefreshInv, TypeOK
  <1>10. CASE Project
    BY <1>10, TypeOK, Course, Ahead, RefreshInv, ViewsAssumption DEF Project, InitSteps,
       MkviewSteps, EnableSteps, Loaded, PathOf, Goto, End, crypt, call, Course, Running,
       Ahead, RefreshInv, TypeOK
  <1>11. CASE VenvYml
    BY <1>11, TypeOK, Course, Ahead, RefreshInv, ViewsAssumption DEF VenvYml, InitSteps,
       MkviewSteps, EnableSteps, Loaded, PathOf, Goto, End, crypt, call, Course, Running,
       Ahead, RefreshInv, TypeOK
  <1>12. CASE Templates
    BY <1>12, TypeOK, Course, Ahead, RefreshInv, ViewsAssumption DEF Templates, InitSteps,
       MkviewSteps, EnableSteps, Loaded, PathOf, Goto, End, crypt, call, Course, Running,
       Ahead, RefreshInv, TypeOK
  <1>13. CASE Cfg
    BY <1>13, TypeOK, Course, Ahead, RefreshInv, ViewsAssumption DEF Cfg, InitSteps,
       MkviewSteps, EnableSteps, Loaded, PathOf, Goto, End, crypt, call, Course, Running,
       Ahead, RefreshInv, TypeOK
  <1>14. CASE Git
    BY <1>14, TypeOK, Course, Ahead, RefreshInv, ViewsAssumption DEF Git, InitSteps,
       MkviewSteps, EnableSteps, Loaded, PathOf, Goto, End, crypt, call, Course, Running,
       Ahead, RefreshInv, TypeOK
  <1>15. CASE GitCrypt
    BY <1>15, TypeOK, Course, Ahead, RefreshInv, ViewsAssumption DEF GitCrypt, InitSteps,
       MkviewSteps, EnableSteps, Loaded, PathOf, Goto, End, disk, crypt, call, Course,
       Running, Ahead, RefreshInv, TypeOK
  <1>16. CASE Finish
    BY <1>16, TypeOK, Course, Ahead, RefreshInv, ViewsAssumption DEF Finish, InitSteps,
       MkviewSteps, EnableSteps, Loaded, PathOf, End, disk, crypt, call, Course, Running,
       Ahead, RefreshInv, TypeOK
  <1>17. CASE Refreshed
    BY <1>17, TypeOK, Course, Ahead, RefreshInv, ViewsAssumption DEF Refreshed, InitSteps,
       MkviewSteps, EnableSteps, Loaded, PathOf, Goto, disk, crypt, call, Course, Running,
       Ahead, RefreshInv, TypeOK
  <1>18. CASE AppendIgnore
    BY <1>18, TypeOK, Course, Ahead, RefreshInv, ViewsAssumption DEF AppendIgnore,
       InitSteps, MkviewSteps, EnableSteps, Loaded, PathOf, crypt, call, Course, Running,
       Ahead, RefreshInv, TypeOK
  <1>19. CASE Enabled
    BY <1>19, TypeOK, Course, Ahead, RefreshInv, ViewsAssumption DEF Enabled, InitSteps,
       MkviewSteps, EnableSteps, Loaded, PathOf, Goto, disk, crypt, call, Course, Running,
       Ahead, RefreshInv, TypeOK
  <1>20. CASE EnableReqs
    BY <1>20, TypeOK, Course, Ahead, RefreshInv, ViewsAssumption DEF EnableReqs, InitSteps,
       MkviewSteps, EnableSteps, Loaded, PathOf, End, crypt, call, Course, Running, Ahead,
       RefreshInv, TypeOK
  <1>21. CASE Unignore
    BY <1>21, TypeOK, Course, Ahead, RefreshInv, ViewsAssumption DEF Unignore, InitSteps,
       MkviewSteps, EnableSteps, Loaded, PathOf, End, crypt, call, Course, Running, Ahead,
       RefreshInv, TypeOK
  <1>22. CASE Rewritten
    BY <1>22, TypeOK, Course, Ahead, RefreshInv, ViewsAssumption DEF Rewritten, InitSteps,
       MkviewSteps, EnableSteps, Loaded, PathOf, disk, crypt, call, Course, Running, Ahead,
       RefreshInv, TypeOK
  <1>23. CASE Commit
    BY <1>23, TypeOK, Course, Ahead, RefreshInv, ViewsAssumption DEF Commit, InitSteps,
       MkviewSteps, EnableSteps, Loaded, PathOf, Goto, End, disk, crypt, call, Course,
       Running, Ahead, RefreshInv, TypeOK
  <1>24. CASE Killed
    BY <1>24, TypeOK, Course, Ahead, RefreshInv, ViewsAssumption DEF Killed, InitSteps,
       MkviewSteps, EnableSteps, Loaded, PathOf, End, disk, crypt, call, Course, Running,
       Ahead, RefreshInv, TypeOK
  <1>25. CASE Rest
    BY <1>25, TypeOK, Course, Ahead, RefreshInv, ViewsAssumption DEF Rest, InitSteps,
       MkviewSteps, EnableSteps, Loaded, PathOf, disk, crypt, Course, Running, Ahead,
       RefreshInv, TypeOK
  <1>26. ASSUME NEW v \in Views, RefreshView(v) PROVE RefreshInv'
    BY <1>26, TypeOK, Course, Ahead, RefreshInv, ViewsAssumption, LoadedSettings DEF
       RefreshView, InitSteps, MkviewSteps, EnableSteps, Loaded, PathOf, Grown, End, crypt,
       call, Course, Running, Ahead, RefreshInv, TypeOK
  <1>27. ASSUME NEW v \in Views, Rewrite(v) PROVE RefreshInv'
    BY <1>27, TypeOK, Course, Ahead, RefreshInv, ViewsAssumption, LoadedSettings DEF
       Rewrite, InitSteps, MkviewSteps, EnableSteps, Loaded, PathOf, End, crypt, call,
       Course, Running, Ahead, RefreshInv, TypeOK
  <1>28. ASSUME NEW v \in Views, GpgOpens(v) PROVE RefreshInv'
    BY <1>28, TypeOK, Course, Ahead, RefreshInv, ViewsAssumption DEF GpgOpens, InitSteps,
       MkviewSteps, EnableSteps, Loaded, PathOf, disk, call, Course, Running, Ahead,
       RefreshInv, TypeOK
  <1>29. ASSUME NEW v \in Views, GpgEnds(v) PROVE RefreshInv'
    BY <1>29, TypeOK, Course, Ahead, RefreshInv, ViewsAssumption DEF GpgEnds, InitSteps,
       MkviewSteps, EnableSteps, Loaded, PathOf, disk, call, Course, Running, Ahead,
       RefreshInv, TypeOK
  <1>30. ASSUME NEW v \in Views, GpgFails(v) PROVE RefreshInv'
    BY <1>30, TypeOK, Course, Ahead, RefreshInv, ViewsAssumption DEF GpgFails, InitSteps,
       MkviewSteps, EnableSteps, Loaded, PathOf, disk, call, Course, Running, Ahead,
       RefreshInv, TypeOK
  <1>31. ASSUME NEW v \in Views, RemoveView(v) PROVE RefreshInv'
    BY <1>31, TypeOK, Course, Ahead, RefreshInv, ViewsAssumption DEF RemoveView, InitSteps,
       MkviewSteps, EnableSteps, Loaded, PathOf, Course, Running, Ahead, RefreshInv, TypeOK
  <1>32. ASSUME NEW f \in Files, RemoveTorn(f) PROVE RefreshInv'
    BY <1>32, TypeOK, Course, Ahead, RefreshInv, ViewsAssumption DEF RemoveTorn, InitSteps,
       MkviewSteps, EnableSteps, Loaded, PathOf, crypt, Course, Running, Ahead, RefreshInv,
       TypeOK
  <1>33. CASE UNCHANGED vars
    BY <1>33, TypeOK, Course, Ahead, RefreshInv, ViewsAssumption DEF vars, Loaded, PathOf,
       Course, Running, Ahead, RefreshInv, TypeOK
  <1> QED
    BY <1>1, <1>2, <1>3, <1>4, <1>5, <1>6, <1>7, <1>8, <1>9, <1>10, <1>11, <1>12, <1>13,
       <1>14, <1>15, <1>16, <1>17, <1>18, <1>19, <1>20, <1>21, <1>22, <1>23, <1>24, <1>25,
       <1>26, <1>27, <1>28, <1>29, <1>30, <1>31, <1>32, <1>33 DEF Next, Step, Gpg

\* venv enable keeps what it has written.
LEMMA EnableStep ==
    ASSUME TypeOK, Course, Ahead, EnableInv, [Next]_vars
    PROVE  EnableInv'
  <1>1. ASSUME NEW c \in Commands, NEW v \in Views, NEW o \in Asked(c, v), pc = "idle",
              Begin(c, v, o)
       PROVE  EnableInv'
    BY <1>1, TypeOK, Course, Ahead, EnableInv, ViewsAssumption DEF Begin, InitSteps,
       MkviewSteps, EnableSteps, Loaded, PathOf, disk, crypt, Course, Running, Ahead,
       EnableInv, Enabling, TypeOK
  <1>2. CASE Skel
    BY <1>2, TypeOK, Course, Ahead, EnableInv, ViewsAssumption DEF Skel, InitSteps,
       MkviewSteps, EnableSteps, Loaded, PathOf, Goto, crypt, call, Course, Running, Ahead,
       EnableInv, Enabling, TypeOK
  <1>3. CASE Root
    BY <1>3, TypeOK, Course, Ahead, EnableInv, ViewsAssumption DEF Root, InitSteps,
       MkviewSteps, EnableSteps, Loaded, PathOf, Goto, End, crypt, call, Course, Running,
       Ahead, EnableInv, Enabling, TypeOK
  <1>4. CASE Inventory
    BY <1>4, TypeOK, Course, Ahead, EnableInv, ViewsAssumption DEF Inventory, InitSteps,
       MkviewSteps, EnableSteps, Loaded, PathOf, Goto, crypt, call, Course, Running, Ahead,
       EnableInv, Enabling, TypeOK
  <1>5. CASE Keys
    BY <1>5, TypeOK, Course, Ahead, EnableInv, ViewsAssumption DEF Keys, InitSteps,
       MkviewSteps, EnableSteps, Loaded, PathOf, Goto, End, disk, call, Course, Running,
       Ahead, EnableInv, Enabling, TypeOK
  <1>6. CASE Keyfile
    BY <1>6, TypeOK, Course, Ahead, EnableInv, ViewsAssumption DEF Keyfile, InitSteps,
       MkviewSteps, EnableSteps, Loaded, PathOf, Goto, disk, call, Course, Running, Ahead,
       EnableInv, Enabling, TypeOK
  <1>7. CASE Volume
    BY <1>7, TypeOK, Course, Ahead, EnableInv, ViewsAssumption DEF Volume, InitSteps,
       MkviewSteps, EnableSteps, Loaded, PathOf, Goto, disk, call, Course, Running, Ahead,
       EnableInv, Enabling, TypeOK
  <1>8. CASE Encrypt
    BY <1>8, TypeOK, Course, Ahead, EnableInv, ViewsAssumption DEF Encrypt, InitSteps,
       MkviewSteps, EnableSteps, Loaded, PathOf, Goto, disk, call, Course, Running, Ahead,
       EnableInv, Enabling, TypeOK
  <1>9. CASE Appears
    BY <1>9, TypeOK, Course, Ahead, EnableInv, ViewsAssumption DEF Appears, InitSteps,
       MkviewSteps, EnableSteps, Loaded, PathOf, Goto, disk, call, Course, Running, Ahead,
       EnableInv, Enabling, TypeOK
  <1>10. CASE Project
    BY <1>10, TypeOK, Course, Ahead, EnableInv, ViewsAssumption DEF Project, InitSteps,
       MkviewSteps, EnableSteps, Loaded, PathOf, Goto, End, crypt, call, Course, Running,
       Ahead, EnableInv, Enabling, TypeOK
  <1>11. CASE VenvYml
    BY <1>11, TypeOK, Course, Ahead, EnableInv, ViewsAssumption DEF VenvYml, InitSteps,
       MkviewSteps, EnableSteps, Loaded, PathOf, Goto, End, crypt, call, Course, Running,
       Ahead, EnableInv, Enabling, TypeOK
  <1>12. CASE Templates
    BY <1>12, TypeOK, Course, Ahead, EnableInv, ViewsAssumption DEF Templates, InitSteps,
       MkviewSteps, EnableSteps, Loaded, PathOf, Goto, End, crypt, call, Course, Running,
       Ahead, EnableInv, Enabling, TypeOK
  <1>13. CASE Cfg
    BY <1>13, TypeOK, Course, Ahead, EnableInv, ViewsAssumption DEF Cfg, InitSteps,
       MkviewSteps, EnableSteps, Loaded, PathOf, Goto, End, crypt, call, Course, Running,
       Ahead, EnableInv, Enabling, TypeOK
  <1>14. CASE Git
    BY <1>14, TypeOK, Course, Ahead, EnableInv, ViewsAssumption DEF Git, InitSteps,
       MkviewSteps, EnableSteps, Loaded, PathOf, Goto, End, crypt, call, Course, Running,
       Ahead, EnableInv, Enabling, TypeOK
  <1>15. CASE GitCrypt
    BY <1>15, TypeOK, Course, Ahead, EnableInv, ViewsAssumption DEF GitCrypt, InitSteps,
       MkviewSteps, EnableSteps, Loaded, PathOf, Goto, End, disk, crypt, call, Course,
       Running, Ahead, EnableInv, Enabling, TypeOK
  <1>16. CASE Finish
    BY <1>16, TypeOK, Course, Ahead, EnableInv, ViewsAssumption DEF Finish, InitSteps,
       MkviewSteps, EnableSteps, Loaded, PathOf, End, disk, crypt, call, Course, Running,
       Ahead, EnableInv, Enabling, TypeOK
  <1>17. CASE Refreshed
    BY <1>17, TypeOK, Course, Ahead, EnableInv, ViewsAssumption DEF Refreshed, InitSteps,
       MkviewSteps, EnableSteps, Loaded, PathOf, Goto, disk, crypt, call, Course, Running,
       Ahead, EnableInv, Enabling, TypeOK
  <1>18. CASE AppendIgnore
    BY <1>18, TypeOK, Course, Ahead, EnableInv, ViewsAssumption DEF AppendIgnore,
       InitSteps, MkviewSteps, EnableSteps, Loaded, PathOf, crypt, call, Course, Running,
       Ahead, EnableInv, Enabling, TypeOK
  <1>19. CASE Enabled
    BY <1>19, TypeOK, Course, Ahead, EnableInv, ViewsAssumption DEF Enabled, InitSteps,
       MkviewSteps, EnableSteps, Loaded, PathOf, Goto, disk, crypt, call, Course, Running,
       Ahead, EnableInv, Enabling, TypeOK
  <1>20. CASE EnableReqs
    BY <1>20, TypeOK, Course, Ahead, EnableInv, ViewsAssumption DEF EnableReqs, InitSteps,
       MkviewSteps, EnableSteps, Loaded, PathOf, End, crypt, call, Course, Running, Ahead,
       EnableInv, Enabling, TypeOK
  <1>21. CASE Unignore
    BY <1>21, TypeOK, Course, Ahead, EnableInv, ViewsAssumption DEF Unignore, InitSteps,
       MkviewSteps, EnableSteps, Loaded, PathOf, End, crypt, call, Course, Running, Ahead,
       EnableInv, Enabling, TypeOK
  <1>22. CASE Rewritten
    BY <1>22, TypeOK, Course, Ahead, EnableInv, ViewsAssumption DEF Rewritten, InitSteps,
       MkviewSteps, EnableSteps, Loaded, PathOf, disk, crypt, call, Course, Running, Ahead,
       EnableInv, Enabling, TypeOK
  <1>23. CASE Commit
    BY <1>23, TypeOK, Course, Ahead, EnableInv, ViewsAssumption DEF Commit, InitSteps,
       MkviewSteps, EnableSteps, Loaded, PathOf, Goto, End, disk, crypt, call, Course,
       Running, Ahead, EnableInv, Enabling, TypeOK
  <1>24. CASE Killed
    BY <1>24, TypeOK, Course, Ahead, EnableInv, ViewsAssumption DEF Killed, InitSteps,
       MkviewSteps, EnableSteps, Loaded, PathOf, End, disk, crypt, call, Course, Running,
       Ahead, EnableInv, Enabling, TypeOK
  <1>25. CASE Rest
    BY <1>25, TypeOK, Course, Ahead, EnableInv, ViewsAssumption DEF Rest, InitSteps,
       MkviewSteps, EnableSteps, Loaded, PathOf, disk, crypt, Course, Running, Ahead,
       EnableInv, Enabling, TypeOK
  <1>26. ASSUME NEW v \in Views, RefreshView(v) PROVE EnableInv'
    BY <1>26, TypeOK, Course, Ahead, EnableInv, ViewsAssumption, LoadedSettings DEF
       RefreshView, InitSteps, MkviewSteps, EnableSteps, Loaded, PathOf, End, crypt, call,
       Course, Running, Ahead, EnableInv, Enabling, TypeOK
  <1>27. ASSUME NEW v \in Views, Rewrite(v) PROVE EnableInv'
    <2>1. CASE End("killed")
      BY <1>27, <2>1 DEF Rewrite, End, call, EnableInv, Enabling
    <2>2. CASE pc' = pc
      <3>1. todo' = todo \ {v} /\ UNCHANGED call /\ pc' = "rewrite" /\ reqs' = reqs
        BY <1>27, <2>2 DEF Rewrite, End
      <3>2. Loaded' = Loaded /\ PathOf(v)' = "near" /\ \A w \in Loaded \ {v} : PathOf(w)' = PathOf(w)
        BY <1>27, <2>2, RewriteKeeps
      <3>3. pc = "rewrite"
        BY <1>27 DEF Rewrite
      <3> QED
        BY <3>1, <3>2, <3>3, EnableInv DEF EnableInv, Enabling, call
    <2> QED
      BY <1>27, <2>1, <2>2 DEF Rewrite
  <1>28. ASSUME NEW v \in Views, GpgOpens(v) PROVE EnableInv'
    BY <1>28, TypeOK, Course, Ahead, EnableInv, ViewsAssumption DEF GpgOpens, InitSteps,
       MkviewSteps, EnableSteps, Loaded, PathOf, disk, call, Course, Running, Ahead,
       EnableInv, Enabling, TypeOK
  <1>29. ASSUME NEW v \in Views, GpgEnds(v) PROVE EnableInv'
    BY <1>29, TypeOK, Course, Ahead, EnableInv, ViewsAssumption DEF GpgEnds, InitSteps,
       MkviewSteps, EnableSteps, Loaded, PathOf, disk, call, Course, Running, Ahead,
       EnableInv, Enabling, TypeOK
  <1>30. ASSUME NEW v \in Views, GpgFails(v) PROVE EnableInv'
    BY <1>30, TypeOK, Course, Ahead, EnableInv, ViewsAssumption DEF GpgFails, InitSteps,
       MkviewSteps, EnableSteps, Loaded, PathOf, disk, call, Course, Running, Ahead,
       EnableInv, Enabling, TypeOK
  <1>31. ASSUME NEW v \in Views, RemoveView(v) PROVE EnableInv'
    BY <1>31, TypeOK, Course, Ahead, EnableInv, ViewsAssumption DEF RemoveView, InitSteps,
       MkviewSteps, EnableSteps, Loaded, PathOf, Course, Running, Ahead, EnableInv,
       Enabling, TypeOK
  <1>32. ASSUME NEW f \in Files, RemoveTorn(f) PROVE EnableInv'
    BY <1>32, TypeOK, Course, Ahead, EnableInv, ViewsAssumption DEF RemoveTorn, InitSteps,
       MkviewSteps, EnableSteps, Loaded, PathOf, crypt, Course, Running, Ahead, EnableInv,
       Enabling, TypeOK
  <1>33. CASE UNCHANGED vars
    BY <1>33, TypeOK, Course, Ahead, EnableInv, ViewsAssumption DEF vars, Loaded, PathOf,
       Course, Running, Ahead, EnableInv, Enabling, TypeOK
  <1> QED
    BY <1>1, <1>2, <1>3, <1>4, <1>5, <1>6, <1>7, <1>8, <1>9, <1>10, <1>11, <1>12, <1>13,
       <1>14, <1>15, <1>16, <1>17, <1>18, <1>19, <1>20, <1>21, <1>22, <1>23, <1>24, <1>25,
       <1>26, <1>27, <1>28, <1>29, <1>30, <1>31, <1>32, <1>33 DEF Next, Step, Gpg

-----------------------------------------------------------------------------
(* Theorems                                                                *)

\* The projects that there may be to begin with, and every step from there.
LEMMA InitInv == Init => IInv
  <1> SUFFICES ASSUME Init PROVE IInv
    OBVIOUS
  <1>1. TypeOK
    <2>1. conf \in [Files -> Settings \union {NoFile, TornFile}]
      BY ViewsAssumption DEF Init, Settings, Paths
    <2>2. \A f \in Files : conf[f] \in Settings => FileOf[conf[f].view] = f
      BY ViewsAssumption DEF Init, Settings, NoFile
    <2> QED
      BY <2>1, <2>2, ViewsAssumption DEF Init, TypeOK, Paths, Lines, Options, Plain, Methods
  <1>2. Course /\ Ahead
    BY DEF Init, Course, Running, Ahead
  <1>3. WholeInv /\ SealedInv /\ ConfiguredInv /\ RefreshInv /\ EnableInv
    BY DEF Init, WholeInv, SealedInv, ConfiguredInv, RefreshInv, EnableInv, Making, Later, Enabling
  <1> QED
    BY <1>1, <1>2, <1>3 DEF IInv

LEMMA InvStep == IInv /\ [Next]_vars => IInv'
  BY TypeStep, CourseStep, AheadStep, WholeStep, SealedStep, ConfiguredStep, RefreshStep,
     EnableStep DEF IInv

\* What writes the files of conf.d.
LEMMA ConfSteps ==
    [Next]_vars => UNCHANGED conf \/ Project \/ (\E v \in Views : Rewrite(v)) \/ \E f \in Files : RemoveTorn(f)
  BY DEF Next, Step, Gpg, vars, Begin, disk, crypt, Skel, Goto, Root, End, Inventory,
     Keys, Keyfile, Volume, Encrypt, Appears, VenvYml, Templates, Cfg, Git, GitCrypt,
     Finish, Refreshed, AppendIgnore, Enabled, EnableReqs, Unignore, Rewritten, Commit,
     Killed, Rest, RefreshView, GpgOpens, GpgEnds, GpgFails, RemoveView

\* What writes an ansible.cfg.
LEMMA CfgSteps ==
    [Next]_vars => UNCHANGED cfg \/ Cfg \/ \E v \in Views : RefreshView(v) \/ RemoveView(v)
  BY DEF Next, Step, Gpg, vars, Begin, disk, crypt, Skel, Goto, Root, End, Inventory,
     Keys, Keyfile, Volume, Encrypt, Appears, Project, VenvYml, Templates, Git, GitCrypt,
     Finish, Refreshed, AppendIgnore, Enabled, EnableReqs, Unignore, Rewritten, Commit,
     Killed, Rest, Rewrite, GpgOpens, GpgEnds, GpgFails, RemoveTorn

\* What writes requirements.yml.
LEMMA ReqsSteps == [Next]_vars => UNCHANGED reqs \/ Templates \/ EnableReqs
  BY DEF Next, Step, Gpg, vars, Begin, disk, crypt, Skel, Goto, Root, End, Inventory,
     Keys, Keyfile, Volume, Encrypt, Appears, Project, VenvYml, Cfg, Git, GitCrypt,
     Finish, Refreshed, AppendIgnore, Enabled, Unignore, Rewritten, Commit,
     Killed, Rest, RefreshView, Rewrite, GpgOpens, GpgEnds, GpgFails, RemoveView, RemoveTorn

\* The invariant holds of every behaviour.
THEOREM Inductive == Spec => []IInv
  <1> QED
    BY InitInv, InvStep, PTL DEF Spec

\* Every variable has its type, in any sequence of commands that end, are
\* refused or are killed at any point: conf.d in particular never holds settings
\* of one view in the file of another.
THEOREM Typing == Spec => []TypeOK
  <1> QED
    BY Inductive, PTL DEF IInv

\* What an init, mkview or refresh reports as done is the whole of it: the
\* directories, the settings, the ansible.cfg that agrees with them and, when it
\* was asked for, the volume of the secrets with its configuration.
THEOREM Whole == Spec => []SuccessMeansWhole
  <1>1. IInv => SuccessMeansWhole
    <2> SUFFICES ASSUME IInv PROVE SuccessMeansWhole
      OBVIOUS
    <2>1. MadeMeansConfigured
      BY DEF IInv, WholeInv, ConfiguredInv, Making, Later, MadeMeansConfigured, Made
    <2>2. MadeMeansSealed
      BY DEF IInv, SealedInv, Making, Later, MadeMeansSealed, Made
    <2>3. RefreshRepairs
      BY DEF IInv, Ahead, RefreshInv, RefreshRepairs
    <2> QED
      BY <2>1, <2>2, <2>3 DEF SuccessMeansWhole
  <1> QED
    BY <1>1, Inductive, PTL

\* mkview, however it ends, leaves the settings and the ansible.cfg of every other
\* view alone, also those of the view whose file its own name leads to.
THEOREM Untouched == Spec => OthersUntouched
  <1> DEFINE Kept == cmd = "mkview" /\ pc # "idle" => \A v \in Views :
                         /\ conf[FileOf[v]] \in Settings => conf'[FileOf[v]] = conf[FileOf[v]]
                         /\ v # arg => cfg'[v] = cfg[v]
  <1>1. ASSUME IInv, [Next]_vars PROVE Kept
    <2> SUFFICES ASSUME cmd = "mkview", pc # "idle", NEW v \in Views
                 PROVE  /\ conf[FileOf[v]] \in Settings => conf'[FileOf[v]] = conf[FileOf[v]]
                        /\ v # arg => cfg'[v] = cfg[v]
      OBVIOUS
    <2>1. ASSUME conf[FileOf[v]] \in Settings PROVE conf'[FileOf[v]] = conf[FileOf[v]]
      <3>1. CASE UNCHANGED conf
        BY <3>1
      <3>2. CASE Project
        <4>1. FileOf[v] \in Files /\ conf[FileOf[v]] # NoFile
          BY <2>1, ViewsAssumption DEF Settings, NoFile
        <4>2. conf' = conf \/ (conf[FileOf[arg]] = NoFile /\ \E new : conf' = [conf EXCEPT ![FileOf[arg]] = new])
          BY <3>2 DEF Project
        <4> QED
          BY <1>1, <4>1, <4>2 DEF IInv, TypeOK
      <3>3. CASE \E w \in Views : Rewrite(w)
        BY <1>1, <3>3 DEF Rewrite, IInv, Course, Running, MkviewSteps
      <3>4. CASE \E f \in Files : RemoveTorn(f)
        BY <3>4 DEF RemoveTorn
      <3> QED
        BY <1>1, <3>1, <3>2, <3>3, <3>4, ConfSteps
    <2>2. ASSUME v # arg PROVE cfg'[v] = cfg[v]
      <3>1. CASE UNCHANGED cfg
        BY <3>1
      <3>2. CASE Cfg
        BY <1>1, <2>2, <3>2 DEF Cfg, IInv, TypeOK
      <3>3. CASE \E w \in Views : RefreshView(w)
        BY <1>1, <3>3 DEF RefreshView, IInv, Course, Running, MkviewSteps
      <3>4. CASE \E w \in Views : RemoveView(w)
        BY <3>4 DEF RemoveView
      <3> QED
        BY <1>1, <3>1, <3>2, <3>3, <3>4, CfgSteps
    <2> QED
      BY <2>1, <2>2
  <1> QED
    BY <1>1, Inductive, PTL DEF Spec, OthersUntouched

\* venv enable of collections that reports success has switched every view, with an
\* entry for the DebOps collection in requirements.yml, which no command can read
\* only if a kill had emptied it before; nothing ever gives a view's file to another
\* view, nor lets it look for collections elsewhere again.
THEOREM EnablingHolds == Spec => EnableHolds
  <1>1. ASSUME IInv, [Next]_vars PROVE FilesStay
    <2> SUFFICES ASSUME NEW f \in Files, conf[f] \in Settings, conf'[f] \in Settings
                 PROVE  conf'[f] \in {conf[f], [conf[f] EXCEPT !.path = "near"]}
      BY DEF FilesStay
    <2>1. CASE UNCHANGED conf
      BY <2>1
    <2>2. CASE Project
      <3>1. conf[f] # NoFile /\ conf'[f] # TornFile
        BY DEF Settings, NoFile, TornFile, Paths
      <3> QED
        BY <1>1, <2>2, <3>1 DEF Project, IInv, TypeOK
    <2>3. ASSUME NEW v \in Views, Rewrite(v) PROVE conf'[f] \in {conf[f], [conf[f] EXCEPT !.path = "near"]}
      <3>1. conf'[f] # TornFile
        BY DEF Settings, TornFile, Paths
      <3> QED
        BY <1>1, <2>3, <3>1 DEF Rewrite, IInv, TypeOK
    <2>4. ASSUME NEW g \in Files, RemoveTorn(g) PROVE conf'[f] = conf[f]
      <3>1. conf'[f] # NoFile
        BY DEF Settings, NoFile, Paths
      <3> QED
        BY <1>1, <2>4, <3>1 DEF RemoveTorn, IInv, TypeOK
    <2> QED
      BY <1>1, <2>1, <2>2, <2>3, <2>4, ConfSteps
  <1>2. IInv => EnableSticks
    <2> SUFFICES ASSUME IInv, Enabling, pc = "ended"
                 PROVE  /\ reqs \in {"on", "headless"}
                        /\ \A f \in Files : conf[f] \in Settings => conf[f].path = "near"
      BY DEF EnableSticks, Enabling
    <2>1. reqs \in {"on", "headless"} /\ \A v \in Loaded : PathOf(v) = "near"
      BY DEF IInv, EnableInv
    <2>2. ASSUME NEW f \in Files, conf[f] \in Settings PROVE conf[f].path = "near"
      <3>1. conf[f].view \in Loaded /\ FileOf[conf[f].view] = f
        BY <2>2 DEF IInv, TypeOK, Loaded, Settings
      <3> QED
        BY <2>1, <3>1 DEF PathOf
    <2> QED
      BY <2>1, <2>2
  <1>3. [Next]_vars => ListStays
    <2> SUFFICES ASSUME [Next]_vars PROVE ListStays
      OBVIOUS
    <2>1. CASE UNCHANGED reqs
      BY <2>1 DEF ListStays
    <2>2. CASE Templates
      BY <2>2 DEF Templates, ListStays, End
    <2>3. CASE EnableReqs
      BY <2>3 DEF EnableReqs, ListStays, End
    <2> QED
      BY <2>1, <2>2, <2>3, ReqsSteps
  <1> QED
    BY <1>1, <1>2, <1>3, Inductive, PTL DEF Spec, EnableHolds
=============================================================================
