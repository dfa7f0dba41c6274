------------------------------ MODULE SpecRead ------------------------------
(***************************************************************************)
(* Reading the inventory specifications of one command: each --template is *)
(* read, checked against the policy of the project and rendered, and then  *)
(* all of them are merged into the one mapping that SpecApply applies.     *)
(* Rendering a document may run commands and read files, so what is        *)
(* refused, and when, matters before anything has been written.            *)
(*                                                                         *)
(* A path is written in one of several ways: "plain"; "dotted", with a     *)
(* leading ./; with an environment variable ("env"); as a template, of     *)
(* which one that names no such variable is "undefined"; or "outside", one *)
(* that is absolute or leaves the inventory.  The contents are null, an    *)
(* empty directory ("clear"), a text, or a text with a template: one with  *)
(* an unknown variable, or a call of pipe() or include().  Calls in paths  *)
(* and wildcards in kept paths are left out.                               *)
(***************************************************************************)
EXTENDS Integers, SequencesExt

CONSTANTS
    Below,      \* the paths below each path of the inventory
    Documents,  \* the --template options: where a document is from, and what it says
    MaxSources, \* bound: how many there are in a command
    Policies    \* the inventory_spec settings of the project, with --allow-io

\* what is written in a document: paths, in one of these ways, and contents
PathForms == {"plain", "dotted", "env", "template", "undefined", "outside"}
IoCalls == {"pipe", "include"}
TextKinds == {"null", "clear", "text", "undefined"} \union IoCalls
Spellings == [of : DOMAIN Below, as : PathForms]
FilesWritten == [path : Spellings, text : TextKinds]

ASSUME OptionsAssumption ==
    Documents \subseteq
        [from : {"stdin", "template", "file", "missing", "terminal"}, valid : BOOLEAN,
         version : Int, files : Seq(FilesWritten), keep : SUBSET Spellings]
ASSUME PoliciesAssumption == Policies \subseteq [enabled : BOOLEAN, max : Int, io : BOOLEAN]

SpecVersion == 3
NoVersion == -1
PathRendered == {1, 2, 3}
ContentRendered == {2, 3}
IoVersions == {3}

VARIABLES
    sources,   \* the --template options of the command
    policy,    \* what the project allows
    phase,     \* where the command is
    at,        \* the source being read
    left,      \* the files of its document that are not rendered yet
    files,     \* those that are: a path and the contents
    cache,     \* the output of each call for this document, 0 before it is made
    specs,     \* the documents that were read
    called,    \* the calls that were made, and for which source
    accepted   \* the specification that will be applied

specVars == <<sources, policy, phase, at, left, files, cache, specs, called, accepted>>

NoCalls == [c \in IoCalls |-> 0]
Nothing == [files |-> <<>>, keep |-> {}]

SpecInit ==
    /\ sources \in UNION {[1..n -> Documents] : n \in 0..MaxSources}
    /\ policy \in Policies
    /\ phase = "start" /\ at = 1 /\ left = <<>> /\ files = <<>> /\ cache = NoCalls
    /\ specs = <<>> /\ called = <<>> /\ accepted = Nothing

Refuse == phase' = "refused" /\ UNCHANGED <<at, left, files, cache, specs, called, accepted>>

\* the checks of _load_specs before anything is read
Start ==
    /\ phase = "start"
    /\ IF sources = <<>>
       THEN phase' = "accepted" /\ UNCHANGED <<at, left, files, cache, specs, called, accepted>>
       ELSE IF policy.enabled /\ Cardinality({i \in DOMAIN sources : sources[i].from = "stdin"}) <= 1
       THEN phase' = "read" /\ UNCHANGED <<at, left, files, cache, specs, called, accepted>>
       ELSE Refuse

\* parse_spec and _load_spec_source: what cannot be read, or has not the right
\* shape, or a version that is not known, is refused
Parsed(option) ==
    /\ option.from \in {"stdin", "template", "file"}
    /\ option.valid
    /\ option.version <= SpecVersion
\* Mutant of Version: a document that does not name a version gets the newest.
VersionNewest(option) == IF option.version = NoVersion THEN SpecVersion ELSE option.version
Version(option) == IF option.version = NoVersion THEN 0 ELSE option.version
Permitted(option) == Parsed(option) /\ Version(option) <= policy.max

\* the contents of files that are not rendered
Literal(f) == [path |-> f.path, text |-> f.text, from |-> 0]

Read ==
    /\ phase = "read" /\ at <= Len(sources)
    /\ LET option == sources[at]
       IN  IF ~Permitted(option) THEN Refuse
           ELSE /\ IF Version(option) \in PathRendered
                   THEN phase' = "render" /\ left' = option.files /\ files' = <<>>
                   ELSE /\ phase' = "add" /\ left' = <<>>
                        /\ files' = [k \in DOMAIN option.files |-> Literal(option.files[k])]
                /\ cache' = NoCalls
                /\ UNCHANGED <<at, specs, called, accepted>>

\* render_spec: the path of a file first, then its contents
Rendered(path) == IF path.as = "template" THEN [path EXCEPT !.as = "plain"] ELSE path

PathFits(path) ==
    /\ path.as # "undefined"
    /\ \A k \in DOMAIN files : files[k].path # Rendered(path)

Keep(f, output) ==
    /\ files' = Append(files, [path |-> Rendered(f.path), text |-> f.text, from |-> output])
    /\ left' = Tail(left)
    /\ UNCHANGED <<phase, at, specs, accepted>>

RenderText ==
    /\ phase = "render" /\ left # <<>>
    /\ LET f == left[1]
           version == Version(sources[at])
       IN  \/ /\ PathFits(f.path)
              /\ f.text \in {"null", "clear", "text"} \/ version \notin ContentRendered
              /\ Keep(f, 0) /\ UNCHANGED <<cache, called>>
           \/ /\ \/ ~PathFits(f.path)
                 \/ f.text = "undefined" /\ version \in ContentRendered
              /\ Refuse

\* pipe() and include(): not in an older document, not without permission, and
\* once for each document
CanCall ==
    /\ phase = "render" /\ left # <<>>
    /\ left[1].text \in IoCalls /\ PathFits(left[1].path)
    /\ Version(sources[at]) \in ContentRendered

\* Mutant of Call: the output of an earlier call is not used.
CallAgain ==
    /\ CanCall
    /\ LET f == left[1]
           c == f.text
           n == Len(called) + 1
       IN  IF Version(sources[at]) \notin IoVersions \/ ~policy.io THEN Refuse
           ELSE /\ called' = Append(called, [call |-> c, source |-> at])
                /\ Keep(f, n) /\ cache' = [cache EXCEPT ![c] = n]

Call ==
    /\ CanCall
    /\ LET f == left[1]
           c == f.text
           n == Len(called) + 1
       IN  IF Version(sources[at]) \notin IoVersions \/ ~policy.io THEN Refuse
           ELSE IF cache[c] # 0 THEN Keep(f, cache[c]) /\ UNCHANGED <<cache, called>>
           ELSE /\ called' = Append(called, [call |-> c, source |-> at])
                /\ \/ Keep(f, n) /\ cache' = [cache EXCEPT ![c] = n]
                   \/ phase' = "refused"   \* the command fails, or takes too long
                      /\ UNCHANGED <<at, left, files, cache, specs, accepted>>

\* render_keep, and the document is done
Add ==
    /\ phase \in {"render", "add"} /\ left = <<>>
    /\ LET option == sources[at]
       IN  IF phase = "render" /\ \E k \in option.keep : k.as = "undefined" THEN Refuse
           ELSE /\ specs' = Append(specs,
                       [files |-> files,
                        keep |-> IF phase = "render" THEN {Rendered(k) : k \in option.keep}
                                 ELSE option.keep])
                /\ phase' = "read" /\ at' = at + 1
                /\ UNCHANGED <<left, files, cache, called, accepted>>

(***************************************************************************)
(* merge_specs: later files replace earlier ones, what is kept adds up, and*)
(* a document that touches what some document keeps is refused.  Variables *)
(* of the environment are expanded for that, on both sides.                *)
(***************************************************************************)
Expanded(path) == IF path.as = "env" THEN [path EXCEPT !.as = "plain"] ELSE path
Matches(pattern, path) ==
    /\ Expanded(pattern).as = Expanded(path).as
    /\ path.of = pattern.of \/ path.of \in Below[pattern.of]

AllKept == UNION {specs[i].keep : i \in DOMAIN specs}
\* Mutant of Contradiction: a document is only checked against itself.
ContradictionOwn ==
    \E i \in DOMAIN specs : \E f \in ToSet(specs[i].files), k \in specs[i].keep : Matches(k, f.path)
Contradiction ==
    \E i \in DOMAIN specs : \E f \in ToSet(specs[i].files), k \in AllKept : Matches(k, f.path)

\* Mutant of PutFile: the first document wins.
PutFileFirst(merged, f) ==
    IF \E k \in DOMAIN merged : merged[k].path = f.path THEN merged ELSE Append(merged, f)
PutFile(merged, f) ==
    LET k == SelectInSeq(merged, LAMBDA g : g.path = f.path)
    IN  IF k = 0 THEN Append(merged, f) ELSE ReplaceAt(merged, k, f)
MergedFiles == FoldLeft(PutFile, <<>>, FlattenSeq([i \in DOMAIN specs |-> specs[i].files]))

Merge ==
    /\ phase = "read" /\ at > Len(sources)
    /\ IF Contradiction THEN Refuse
       ELSE /\ phase' = "resolve" /\ files' = MergedFiles
            /\ UNCHANGED <<at, left, cache, specs, called, accepted>>

\* resolve_paths and resolve_keep: the paths in the inventory
\* (in an older document a template is just a name with braces in it)
Target(path) ==
    [path EXCEPT !.as = IF @ \in {"template", "undefined"} THEN @ ELSE "plain"]

Resolve ==
    /\ phase = "resolve"
    /\ IF \/ \E f \in ToSet(files) : f.path.as = "outside"
          \/ \E k \in AllKept : k.as = "outside"
          \/ \E i, j \in DOMAIN files : i # j /\ Target(files[i].path) = Target(files[j].path)
       THEN Refuse
       ELSE /\ phase' = "accepted"
            /\ accepted' = [files |-> [k \in DOMAIN files |->
                                          [files[k] EXCEPT !.path = Target(@)]],
                            keep |-> {Target(k) : k \in AllKept}]
            /\ UNCHANGED <<at, left, files, cache, specs, called>>

SpecNext ==
    /\ Start \/ Read \/ RenderText \/ Call \/ Add \/ Merge \/ Resolve
    /\ UNCHANGED <<sources, policy>>

SpecReadSpec == SpecInit /\ [][SpecNext]_specVars

-----------------------------------------------------------------------------
\* what document i says, as it will be understood
Says(i, f) == IF Version(sources[i]) \in PathRendered THEN Target(Rendered(f)) ELSE Target(f)

\* Commands are run and files are read only for a document of version 3 of a
\* project that allows this version and the use of templates with I/O; the
\* guards are in _load_specs, parse_spec and the two globals of the templates.
CallsArePermitted ==
    \A k \in DOMAIN called :
        LET option == sources[called[k].source]
        IN  policy.enabled /\ policy.io /\ option.version = 3 /\ option.version <= policy.max

\* A call that a document makes several times is made once, and all of its
\* texts get the same output: that of this document, not of an earlier one.
OneAnswer ==
    /\ \A i, j \in DOMAIN called : called[i] = called[j] => i = j
    /\ \A i, j \in DOMAIN files : phase = "render" /\ files[i].from # 0 =>
          /\ called[files[i].from] = [call |-> files[i].text, source |-> at]
          /\ files[i].text = files[j].text => files[i].from = files[j].from

\* What is accepted has every file that a document names, under whatever
\* spelling, with the contents that the last of these documents gives it.
LastWins ==
    phase = "accepted" => \A i \in DOMAIN sources : \A f \in ToSet(sources[i].files) :
        LET named(j, g) == Says(j, g.path) = Says(i, f.path)
            last == CHOOSE j \in DOMAIN sources :
                       /\ \E g \in ToSet(sources[j].files) : named(j, g)
                       /\ \A k \in (j + 1)..Len(sources) :
                            \A g \in ToSet(sources[k].files) : ~named(k, g)
        IN  \E k \in DOMAIN accepted.files : \E g \in ToSet(sources[last].files) :
                /\ named(last, g) /\ accepted.files[k].path = Says(i, f.path)
                /\ accepted.files[k].text = g.text

\* A path that any document keeps is in no document that is accepted, and
\* neither is a path below it.  This is not so for a path with a leading ./,
\* because only variables are expanded before the two are compared.
KeptIsNotTouched ==
    phase = "accepted" => \A i, j \in DOMAIN sources :
        \A f \in ToSet(sources[i].files), k \in sources[j].keep :
            LET a == Says(i, f.path)
                b == Says(j, k)
            IN  "dotted" \notin {f.path.as, k.as} /\ a.as = b.as
                    => a.of # b.of /\ a.of \notin Below[b.of]

\* The commands of documents run under control: where they are permitted, once
\* for each document, and none gets the output of another document's.
CommandsAreControlled == CallsArePermitted /\ OneAnswer

\* What is accepted is what the documents say together: the last one to speak of
\* a file decides, and what any of them keeps is left alone by all.
AcceptedMeansSaid == LastWins /\ KeptIsNotTouched
=============================================================================
