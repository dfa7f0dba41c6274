----------------------------- MODULE Overrides -----------------------------
(***************************************************************************)
(* The lookups file_src, template_src and task_src: where the files of a   *)
(* role may be overridden.  The places are options of the configuration of  *)
(* DebOps; where its Python module is missing, or says nothing, the plugins *)
(* read the configuration files on their own.                              *)
(*                                                                         *)
(* What a file says is a function from the keys that it gives; one that     *)
(* cannot be read says nothing, and one that is "odd" has no map for its    *)
(* override_paths or no text for an option.  An option is a sequence of     *)
(* directories, relative or absolute.                                      *)
(***************************************************************************)
EXTENDS Integers, SequencesExt

CONSTANTS
    Worlds,     \* the configurations and the files that there are, see OverrideInit
    TermLists   \* what is looked up at once

Absolute(d) == <<"absolute", d>>
RolePath == <<"role", "path">>
NoFile == [is |-> "no file", says |-> <<>>]
NoPlace == <<>>

Directories == [absolute : BOOLEAN, name : STRING]
\* What split() makes of a text that is not empty is at least one directory.
ConfigFile(file) ==
    /\ file.is \in {"read", "odd", "broken", "no file"}
    /\ \A key \in DOMAIN file.says : file.says[key] \in Seq(Directories) /\ file.says[key] # <<>>
ConfigDir(files1) == files1 \in Seq(Range(files1)) /\ \A i \in DOMAIN files1 : ConfigFile(files1[i])
ASSUME OverrideAssumption ==
    /\ \A w \in Worlds :
          /\ w.module \in BOOLEAN /\ w.project \in {"none", "legacy", "modern"}
          /\ ConfigDir(w.own) /\ ConfigDir(w.near)
          /\ w.global \in Seq(Range(w.global)) /\ \A i \in DOMAIN w.global : ConfigDir(w.global[i])
          /\ w.role \in BOOLEAN /\ w.cwd # "role"
    /\ TermLists \subseteq Seq(STRING)

VARIABLES
    world,   \* what there is
    lookup,  \* the plugin
    terms,   \* what is left of the terms
    places,  \* where they are looked for, in this order
    ret,     \* the places they were found in
    asks     \* where the plugin is

overrideVars == <<world, lookup, terms, places, ret, asks>>

OverrideInit ==
    /\ world \in Worlds
    /\ lookup \in {"file_src", "template_src", "task_src"}
    /\ terms \in TermLists
    /\ places = <<>> /\ ret = <<>> /\ asks = "config"

-----------------------------------------------------------------------------
\* Without the module:
At(base, d) == IF d.absolute THEN Absolute(d.name) ELSE <<base, d.name>>
Resolved(base, option) == [i \in DOMAIN option |-> At(base, option[i])]

\* _load_file
LoadFile(file) == IF file.is = "read" THEN file.says ELSE <<>>
\* _extract_paths
ExtractPaths(file, key) ==
    LET parsed1 == LoadFile(file)
    IN  IF key \in DOMAIN parsed1 THEN Resolved(world.cwd, parsed1[key]) ELSE <<>>

Else(known, s) == IF known = <<>> THEN s ELSE known
FirstOf(seqs) == FoldLeft(Else, <<>>, seqs)
\* .debops.yaml, .debops.yml, .debops.json and .debops.toml: the first there is
NearPaths(key) ==
    LET there == {i \in DOMAIN world.near : world.near[i] # NoFile}
    IN  IF there = {} THEN <<>> ELSE ExtractPaths(world.near[Min(there)], key)
DirPaths(files1, key) == FirstOf([i \in DOMAIN files1 |-> ExtractPaths(files1[i], key)])
\* Mutant of LoadFallbackPaths: from the least to the most specific.
LoadFallbackPathsUp(key) ==
    FirstOf(<<NearPaths(key)>>
            \o Reverse([i \in DOMAIN world.global |-> DirPaths(world.global[i], key)]))
\* world.global is from the most specific directory to the least
LoadFallbackPaths(key) ==
    FirstOf(<<NearPaths(key)>> \o [i \in DOMAIN world.global |-> DirPaths(world.global[i], key)])

-----------------------------------------------------------------------------
\* With the module: the last file that gives the option counts.  A modern
\* project has the whole configuration; one with .debops.cfg only that.
LastOf(contents, key) ==
    LET with == {i \in DOMAIN contents : key \in DOMAIN LoadFile(contents[i])}
    IN  IF with = {} THEN <<>> ELSE LoadFile(contents[Max(with)])[key]
Configured(key) ==
    IF ~world.module \/ world.project = "none" THEN <<>>
    ELSE Resolved("project",
            LastOf((IF world.project = "modern" THEN FlattenSeq(Reverse(world.global)) ELSE <<>>)
                   \o world.own, key))

\* Nobody expects an odd file: _extract_paths raises when it comes to one before
\* it has an answer, and the lookup may when the configuration is made of one.
Odd(file) == file.is = "odd"
FallbackCrashes(key) ==
    LET there == {i \in DOMAIN world.near : world.near[i] # NoFile}
        row == (IF there = {} THEN <<>> ELSE <<world.near[Min(there)]>>) \o FlattenSeq(world.global)
        ends == {i \in DOMAIN row : Odd(row[i]) \/ ExtractPaths(row[i], key) # <<>>}
    IN  Configured(key) = <<>> /\ ends # {} /\ Odd(row[Min(ends)])
ConfigIsOdd ==
    /\ world.module /\ world.project = "modern"
    /\ \E file \in Range(FlattenSeq(world.global) \o world.own) : Odd(file)
LookupCrashes(key) ==
    /\ asks = "config" /\ (FallbackCrashes(key) \/ ConfigIsOdd)
    /\ asks' = "crashed" /\ UNCHANGED <<world, lookup, terms, places, ret>>

\* Mutant of Lookup: the files are read as well when there is an option.
LookupBoth(key) ==
    /\ asks = "config" /\ ~FallbackCrashes(key)
    /\ places' = LoadFallbackPaths(key) \o Configured(key)
    /\ asks' = "terms" /\ UNCHANGED <<world, lookup, terms, ret>>
Lookup(key) ==
    /\ asks = "config" /\ ~FallbackCrashes(key)
    /\ places' = FirstOf(<<Configured(key), LoadFallbackPaths(key)>>)
    /\ asks' = "terms" /\ UNCHANGED <<world, lookup, terms, ret>>

\* The path of the role is put after them, once for every term.
Searched == IF world.role THEN Append(places, RolePath) ELSE places
FirstIn(paths, term) ==
    LET here == {n \in DOMAIN paths : <<paths[n], term>> \in world.holds}
    IN  IF here = {} THEN NoPlace ELSE paths[Min(here)]
\* Mutant of PlaceOf: the role comes first.
PlaceOfRole(term) == FirstIn(IF world.role THEN <<RolePath>> \o places ELSE places, term)
PlaceOf(term) == FirstIn(Searched, term)
Term ==
    /\ asks = "terms" /\ terms # <<>>
    /\ places' = Searched
    /\ IF PlaceOf(Head(terms)) = NoPlace THEN asks' = "failed" /\ UNCHANGED <<terms, ret>>
       ELSE ret' = Append(ret, [term |-> Head(terms), place |-> PlaceOf(Head(terms))])
            /\ terms' = Tail(terms) /\ UNCHANGED asks
    /\ UNCHANGED <<world, lookup>>

Plugin(key) == Lookup(key) \/ LookupCrashes(key) \/ Term
FileSrc == lookup = "file_src" /\ Plugin("files_path")
TemplateSrc == lookup = "template_src" /\ Plugin("templates_path")
TaskSrc == lookup = "task_src" /\ Plugin("tasks_path")
OverrideNext == FileSrc \/ TemplateSrc \/ TaskSrc
OverrideSpec == OverrideInit /\ [][OverrideNext]_overrideVars

-----------------------------------------------------------------------------
KeyOf == [file_src |-> "files_path", template_src |-> "templates_path", task_src |-> "tasks_path"]
OptionOf(file, key) == IF key \in DOMAIN LoadFile(file) THEN LoadFile(file)[key] ELSE <<>>
Gives(files1) == {i \in DOMAIN files1 : OptionOf(files1[i], KeyOf[lookup]) # <<>>}
\* neither the project nor a file beside it has a say
OnlyGlobal ==
    /\ Gives(world.own) = {} /\ \A i \in DOMAIN world.near : world.near[i] = NoFile
    /\ world.cwd = "project"

\* With the module and without it, in a project of either kind and in none, the
\* global directories mean the same: the most specific one that gives the
\* option names the places.  The two ways go through the directories in
\* opposite orders; of two files of one directory the module takes the last
\* and the plugin the first.
SamePlaces ==
    asks = "terms" /\ ret = <<>> /\ places # <<>> /\ RolePath \notin Range(places) /\ OnlyGlobal =>
        \E i \in DOMAIN world.global :
            /\ \E n \in Gives(world.global[i]) :
                  places = Resolved("project", OptionOf(world.global[i][n], KeyOf[lookup]))
            /\ \A j \in 1..(i - 1) : Gives(world.global[j]) = {}

\* A file of the role is taken only when no override has one of its name, for
\* every term of a list as for the first, and an override only when none of
\* those in front of it has one.
OverridesComeFirst ==
    \A i \in DOMAIN ret :
        LET here == {n \in DOMAIN places :
                        places[n] # RolePath /\ <<places[n], ret[i].term>> \in world.holds}
        IN  IF ret[i].place = RolePath THEN here = {} /\ world.role
            ELSE here # {} /\ ret[i].place = places[Min(here)]

\* The project comes before what is global: when it gives the option itself and
\* the module is there, nothing else is looked through but the role.
ProjectDecides ==
    asks \notin {"config", "crashed"} /\ world.module /\ world.project # "none" /\ Gives(world.own) # {} =>
        \A p \in Range(places) \ {RolePath} :
            \E n \in Gives(world.own) : p \in Range(Resolved("project", OptionOf(world.own[n], KeyOf[lookup])))

\* An override is found where the configuration puts it, whichever way the lookup
\* has to read it: the project's before the global ones, and these before the role's.
OverridesFound == SamePlaces /\ OverridesComeFirst /\ ProjectDecides
=============================================================================
