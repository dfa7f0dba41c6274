------------------------------- MODULE Config -------------------------------
(***************************************************************************)
(* The configuration of a command: environment files, directories of       *)
(* configuration files, the merge of one into another, the view that the   *)
(* command works in, and what "debops config get" finds.                   *)
(*                                                                         *)
(* A configuration is a tree: what is at a path, a leaf, a list, or a map   *)
(* for the paths below it.  The code walks through maps of maps; here each  *)
(* path is looked at by itself.  A leaf, an element of a list and an        *)
(* environment variable are texts: sequences of pieces, each a word, a word *)
(* after a ~, or a reference to an environment variable.                    *)
(***************************************************************************)
EXTENDS Integers, SequencesExt

CONSTANTS
    CfgPaths,     \* the paths that are looked at, each a sequence of keys
    ConfigFiles,  \* a sequence: what the configuration files may contain
    EnvFiles,     \* a sequence: what the environment files may contain
    Environment,  \* the environment of the process
    Readings,     \* bound: how many environment files and directories are read
    Directories,  \* bound: how many of them are directories
    FilesIn,      \* bound: how many files are in a directory
    BeginsWith,   \* the names of views that the name of each directory begins with
    Asked         \* the --view options, "none" when there is none

Word(n) == [t |-> "word", n |-> n]
Home(n) == [t |-> "home", n |-> n]
Ref(n) == [t |-> "ref", n |-> n]
VenvBin == [t |-> "venv"]
Vars == DOMAIN Environment
Pieces == [t : {"word", "home", "below home"}, n : STRING] \union [t : {"ref"}, n : Vars]
              \union {VenvBin}
Unset == <<[t |-> "unset"]>>
Texts == Seq(Pieces) \union {Unset}

Leaf(text) == [is |-> "leaf", of |-> text]
List(texts) == [is |-> "list", of |-> texts]
Map == [is |-> "map", of |-> <<>>]
Absent == [is |-> "absent", of |-> <<>>]

Above(path) == {SubSeq(path, 1, n) : n \in 0..(Len(path) - 1)}
IsTree(tree) ==
    /\ <<>> \in DOMAIN tree /\ tree[<<>>] = Map
    /\ \A path \in DOMAIN tree :
          /\ path \in Seq(STRING) /\ tree[path].is \in {"leaf", "list", "map"}
          /\ tree[path].is = "leaf" => tree[path].of \in Seq(Pieces)
          /\ tree[path].is = "list" => tree[path].of \in Seq(Seq(Pieces))
          /\ \A above \in Above(path) : above \in DOMAIN tree /\ tree[above].is = "map"
EmptyTree == [path \in {<<>>} |-> Map]

\* A directory of a view begins with the name of the view.
ASSUME ConfigAssumption ==
    /\ CfgPaths \subseteq Seq(STRING) /\ FilesIn \in Nat
    /\ \A i \in DOMAIN ConfigFiles : IsTree(ConfigFiles[i].says)
    /\ Environment \in [Vars -> Texts] /\ "PATH" \in Vars
    /\ \A i \in DOMAIN EnvFiles : EnvFiles[i] \in Seq([var : Vars, value : Texts])
    /\ \A here \in DOMAIN BeginsWith :
          IsFiniteSet(BeginsWith[here]) /\ (BeginsWith[here] = {} \/ here \in BeginsWith[here])

VARIABLES
    cfg,       \* the configuration
    env,       \* the environment variables of the process
    envVars,   \* those that an environment file has named
    envRead,   \* the environment files read
    merged,    \* the directories merged, each the indices of its files
    loading,   \* whether it is loaded, failed, or the view is chosen
    view       \* the view of the command

cfgVars == <<cfg, env, envVars, envRead, merged, loading, view>>

\* the value at a path
AtPath(tree, path) == IF path \in DOMAIN tree THEN tree[path] ELSE Absent

\* _expand_env_vars: what is not set stays as it is written
ExpandText(text) ==
    FlattenSeq([i \in DOMAIN text |->
        IF text[i].t = "ref" /\ env[text[i].n] # Unset THEN env[text[i].n] ELSE <<text[i]>>])
ExpandValue(value) ==
    CASE value.is = "leaf" -> Leaf(ExpandText(value.of))
      [] value.is = "list" -> List([i \in DOMAIN value.of |-> ExpandText(value.of[i])])
      [] OTHER -> value
ExpandVars(tree) == [path \in DOMAIN tree |-> ExpandValue(tree[path])]

\* _merge_dict: a list is added to a list, anything else replaces what was there,
\* and what was below a path stays unless something that is no map comes there
\* Mutant of Replaced: a map replaces a map.
ReplacedFlat(path, new) ==
    \E above \in Above(path) \ {<<>>} : above \in DOMAIN new
Replaced(path, new) ==
    \E above \in Above(path) : above \in DOMAIN new /\ new[above].is # "map"
\* Mutant of MergeValue: a list is put before the list that is there.
MergeValueFront(old, new) ==
    IF old.is = "list" /\ new.is = "list" THEN List(new.of \o old.of) ELSE new
MergeValue(old, new) ==
    IF old.is = "list" /\ new.is = "list" THEN List(old.of \o new.of) ELSE new
MergeDict(old, new) ==
    [path \in DOMAIN new \union {p \in DOMAIN old : ~Replaced(p, new)} |->
        IF path \notin DOMAIN new THEN old[path] ELSE MergeValue(AtPath(old, path), new[path])]

\* load: the files of a directory, in the order of their names.  YAML that
\* cannot be read is reported and left out, as a hidden file is; TOML and JSON
\* that cannot be read end the command.
Loaded(i) == IF ConfigFiles[i].reads = "yes" THEN ExpandVars(ConfigFiles[i].says) ELSE EmptyTree
LoadFiles(names) == FoldLeft(MergeDict, EmptyTree, [i \in DOMAIN names |-> Loaded(names[i])])
CannotLoad(names) == \E i \in Range(names) : ConfigFiles[i].reads = "fails"

-----------------------------------------------------------------------------
\* _merge_env_file: a reference is to what the file said before, or else to
\* the environment; a variable that is named without a value has none for the
\* rest of the file; the ~ of an entry is expanded in variables like PATH
TextOf(value) == IF value = Unset THEN <<>> ELSE value
Entry(known, piece) == IF piece.t = "ref" THEN TextOf(known[piece.n]) ELSE <<piece>>
Composed(known, value) == FlattenSeq([i \in DOMAIN value |-> Entry(known, value[i])])
AssignVar(known, a) ==
    [known EXCEPT ![a.var] = IF a.value = Unset THEN Unset ELSE Composed(known, a.value)]
Tilde(var, value) ==
    IF var = "PATH"
    THEN [i \in DOMAIN value |-> IF value[i].t = "home" THEN [value[i] EXCEPT !.t = "below home"] ELSE value[i]]
    ELSE value
AfterFile(known, file) ==
    LET values == FoldLeft(AssignVar, known, file)
    IN  [v \in DOMAIN known |-> IF v \in {a.var : a \in Range(file)} /\ values[v] # Unset
                                THEN Tilde(v, values[v]) ELSE known[v]]
\* Mutant of EnvAfter: the file is parsed twice, as load_dotenv would.
EnvAfterTwice(file) == AfterFile(AfterFile(env, file), file)
EnvAfter(file) == AfterFile(env, file)

ConfigInit ==
    /\ cfg = EmptyTree /\ env = Environment /\ envVars = {} /\ envRead = <<>>
    /\ merged = <<>> /\ loading = "loading" /\ view = "none"

ReadEnv(i) ==
    /\ loading = "loading" /\ Len(envRead) + Len(merged) < Readings
    /\ envRead' = Append(envRead, i)
    /\ env' = EnvAfter(EnvFiles[i])
    /\ envVars' = envVars \union {a.var : a \in Range(EnvFiles[i])}
    /\ UNCHANGED <<cfg, merged, loading, view>>

MergeDirectory(names) ==
    /\ loading = "loading" /\ Len(merged) < Directories
    /\ Len(envRead) + Len(merged) < Readings
    /\ merged' = Append(merged, names)
    /\ IF CannotLoad(names) THEN loading' = "failed" /\ UNCHANGED cfg
       ELSE cfg' = MergeDict(cfg, LoadFiles(names)) /\ UNCHANGED loading
    /\ UNCHANGED <<env, envVars, envRead, view>>

\* _prepend_venv_path: the PATH of an environment file is left as it is
PrependVenv ==
    /\ loading = "loading"
    /\ IF "PATH" \in envVars \/ VenvBin \in Range(env["PATH"])
       THEN UNCHANGED <<env, envVars>>
       ELSE /\ env' = [env EXCEPT !["PATH"] = <<VenvBin>> \o TextOf(@)]
            /\ envVars' = envVars \union {"PATH"}
    /\ loading' = "loaded"
    /\ UNCHANGED <<cfg, envRead, merged, view>>

-----------------------------------------------------------------------------
\* The view of the command: the one that is asked for, or the only one that
\* the name of the directory begins with, or the default one.
CfgViews == {path[2] : path \in {p \in DOMAIN cfg : Len(p) = 2 /\ p[1] = "views"}}
DefaultView ==
    LET d == AtPath(cfg, <<"default_view">>) IN IF d.is = "leaf" THEN d.of[1].n ELSE "system"
\* Mutant of HereView: the first of several.
HereViewFirst(here) ==
    LET matching == CfgViews \intersect BeginsWith[here]
    IN  IF matching # {} THEN CHOOSE v \in matching : TRUE ELSE DefaultView
HereView(here) ==
    LET matching == CfgViews \intersect BeginsWith[here]
    IN  IF Cardinality(matching) = 1 THEN CHOOSE v \in matching : TRUE ELSE DefaultView

ChooseView(here, asked) ==
    /\ loading = "loaded"
    /\ IF asked \in {"none", HereView(here)} THEN loading' = "chosen" /\ view' = HereView(here)
       ELSE IF asked \in CfgViews THEN loading' = "chosen" /\ view' = asked
       ELSE loading' = "failed" /\ UNCHANGED view
    /\ UNCHANGED <<cfg, env, envVars, envRead, merged>>

\* config_get: a key that is missing does not end the walk, and a key of what
\* is not a map does, with a traceback
\* Mutant of GetStep: the walk goes on as if the key were there.
GetStepOn(walk, key) ==
    LET next == Append(walk.at, key)
    IN  IF walk.out = "traceback" THEN walk
        ELSE IF cfg[walk.at].is # "map" THEN [walk EXCEPT !.out = "traceback"]
        ELSE IF next \in DOMAIN cfg THEN [walk EXCEPT !.at = next]
        ELSE walk
GetStep(walk, key) ==
    LET next == Append(walk.at, key)
    IN  IF walk.out = "traceback" THEN walk
        ELSE IF cfg[walk.at].is # "map" THEN [walk EXCEPT !.out = "traceback"]
        ELSE IF next \in DOMAIN cfg THEN [walk EXCEPT !.at = next]
        ELSE [walk EXCEPT !.out = "missing"]
ConfigGet(path) == FoldLeft(GetStep, [at |-> <<>>, out |-> "found"], path)

ConfigNext ==
    \/ \E i \in DOMAIN EnvFiles : ReadEnv(i)
    \/ \E n \in 1..FilesIn : \E names \in [1..n -> DOMAIN ConfigFiles] : MergeDirectory(names)
    \/ PrependVenv
    \/ \E here \in DOMAIN BeginsWith, asked \in Asked : ChooseView(here, asked)
ConfigSpec == ConfigInit /\ [][ConfigNext]_cfgVars

-----------------------------------------------------------------------------
\* What a file says of a path: something there, or instead of what leads to it.
Touches(i, path) ==
    /\ ConfigFiles[i].reads = "yes"
    /\ \/ AtPath(ConfigFiles[i].says, path).is # "absent"
       \/ \E above \in Above(path) : AtPath(ConfigFiles[i].says, above).is \in {"leaf", "list"}
LastTouch(names, path) ==
    LET ts == {i \in DOMAIN names : Touches(names[i], path)}
    IN  IF ts = {} THEN 0 ELSE CHOOSE i \in ts : \A j \in ts : j <= i

\* A directory sets every option to what the last of its files says of it, and
\* leaves the options it does not speak of, at any depth of the tree: merging
\* replaces no section and loses no option beside the ones that are set
\* (_merge_dict and load; docs/user-guide/project-directories.rst:209).
LastFileWins ==
    cfg' # cfg =>
      \A path \in CfgPaths :
          LET names == merged'[Len(merged')]
              last == LastTouch(names, path)
              now == AtPath(cfg', path)
              old == AtPath(cfg, path)
              new == IF last = 0 THEN old
                     ELSE ExpandValue(AtPath(ConfigFiles[names[last]].says, path))
          IN  new.is = "leaf" \/ (last = 0 /\ old.is = "list") =>
                  now.is = new.is /\ now.of = new.of

\* Lists gather: a list that a file gives follows what is there already, also
\* when it is the same file that is merged again (_merge_dict: "the lists are
\* combined together").  Nothing but lists depends on how often it is merged.
AgainOnlyAddsToLists ==
    loading = "loading" /\ merged # <<>> =>
        LET names == merged[Len(merged)]
            again == MergeDict(cfg, LoadFiles(names))
        IN  \A path \in CfgPaths :
              LET now == AtPath(cfg, path)
                  then == AtPath(again, path)
              IN  /\ then.is = now.is
                  /\ now.is = "list" => IsPrefix(now.of, then.of)

\* A variable that refers to its own value gets what it had, once, wherever it
\* was set, and a ~ is expanded in PATH only (docstring of _merge_env_file).
\* This is about a variable that the file names once, after those it refers to.
SaidOnce(file, i, others) ==
    /\ file[i].value # Unset
    /\ \A j \in DOMAIN file :
          /\ file[j].var = file[i].var => j = i
          /\ file[j].var \in others => j < i /\ file[j].value # Unset
OwnValueOnce ==
    envRead' # envRead =>
      LET file == EnvFiles[envRead'[Len(envRead')]]
      IN  \A i \in DOMAIN file :
            LET a == file[i]
                refs == {j \in DOMAIN a.value : a.value[j] = Ref(a.var)}
                others == {v \in Vars \ {a.var} : Ref(v) \in Range(a.value)}
            IN  Cardinality(refs) = 1 /\ SaidOnce(file, i, others) =>
                  Len(env'[a.var]) =
                      Len(TextOf(env[a.var])) + Len(FlattenSeq([j \in DOMAIN a.value |->
                          IF j \in refs THEN <<>>
                          ELSE IF a.value[j].t = "ref" THEN TextOf(env'[a.value[j].n])
                          ELSE <<a.value[j]>>]))

\* In the directory of a view the command works in that view, or, when another
\* name fits as well, in the default one: never in another view that happens to
\* be there (ProjectDir.__init__, "There should be just one matching view").
NotAnotherView ==
    loading = "loaded" =>
        \A here \in DOMAIN BeginsWith :
            here \in CfgViews \/ BeginsWith[here] = {} => HereView(here) \in {here, DefaultView}

\* "config get" finds what is there and nothing else, whatever the type of what
\* the path leads through; only then may it end with a traceback (config_get).
GetFindsWhatIsThere ==
    loading = "loading" =>
        \A path \in CfgPaths :
            LET got == ConfigGet(path)
            IN  IF path \in DOMAIN cfg THEN got = [at |-> path, out |-> "found"]
                ELSE got.out # "found"

\* What is in the files arrives: the last file has its say at every depth, and a
\* variable that refers to itself is extended once.
FilesHaveTheirSay == [][LastFileWins /\ OwnValueOnce]_cfgVars

\* What is read out of the merged tree is what is there: the view of the
\* directory, the option of a path, and the same again after another merge,
\* lists apart.
ReadAsMerged == AgainOnlyAddsToLists /\ NotAnotherView /\ GetFindsWhatIsThere
=============================================================================
