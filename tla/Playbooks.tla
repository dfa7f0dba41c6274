----------------------------- MODULE Playbooks -----------------------------
(***************************************************************************)
(* What "debops run" and "debops check" make of their arguments: which of  *)
(* them are options, values of options and playbooks, where a playbook is  *)
(* found, and the ansible-playbook command that this gives.  In between,   *)
(* playbooks and collections appear in the project and beside it.          *)
(***************************************************************************)
EXTENDS Integers, SequencesExt

CONSTANTS
    Names,         \* the names of playbooks
    Collections,   \* the names of collections
    CollectionDirs,\* how many directories ansible.cfg lists for collections
    ViewCollections, \* the collections of the view, in order, or <<"unset">>
    PlaybookSets,  \* the playbook sets of the view, each a sequence of arguments
    Listed,        \* the options that are known to take no value
    Valued,        \* options that take the next argument
    Joined,        \* options that are written with their value or with each other
    GlobalVars,    \* which of the inventories have a global-vars.yml, in order
    MaxArguments,  \* bound
    MaxPlaybooks   \* bound: the playbooks that there are

Checks == {"--check", "-C"}
Default == "debops.debops"

\* A playbook is in the current directory, in the view, in the project, or in
\* a collection below one of the directories.
Here == <<0, "here">>
ProjectDirs == <<<<0, "view">>, <<0, "ansible/playbooks">>, <<0, "playbooks">>>>
Places == {Here} \union Range(ProjectDirs) \union ((1..CollectionDirs) \X Collections)

\* An argument that is no option: the name of a playbook, perhaps with that of
\* its collection; the name of a set; or the value of an option.
Plain(n) == [is |-> "name", n |-> n]
Qualified(c, n) == [is |-> "qualified", c |-> c, n |-> n]
Arguments ==
    {[is |-> "option", n |-> o] : o \in Listed \union Valued \union Joined \union {"--"}}
    \union {Plain(n) : n \in Names}
    \union {Qualified(c, n) : c \in Collections, n \in Names}
    \union {[is |-> "set", n |-> s] : s \in DOMAIN PlaybookSets}

\* What begins with a dash is an option, and an option is of one kind.
ASSUME PlaybooksAssumption ==
    /\ CollectionDirs \in Nat
    /\ ViewCollections \in Seq(Collections \union {"unset"})
    /\ \A s \in DOMAIN PlaybookSets : PlaybookSets[s] \in Seq(Arguments)
    /\ GlobalVars \in Seq(BOOLEAN)
    /\ (Listed \union Valued \union Joined \union {"--"})
            \intersect (Names \union DOMAIN PlaybookSets) = {}
    /\ Listed \intersect (Valued \union Joined) = {} /\ Valued \intersect Joined = {}
    /\ "--" \notin Listed \union Valued \union Joined

VARIABLES
    present,   \* where playbooks are: a place and a name
    line,      \* the arguments
    friday,    \* whether project.read_only_friday applies today
    debug      \* whether the command was given --debug

runVars == <<present, line, friday, debug>>

-----------------------------------------------------------------------------
NotFound == <<<<0, "nowhere">>, "none">>
At1(place, n) == IF <<place, n>> \in present THEN <<place, n>> ELSE NotFound
FirstFound(tries) ==
    LET found == {i \in DOMAIN tries : tries[i] # NotFound}
    IN  IF found = {} THEN NotFound ELSE tries[Min(found)]

\* _find_collections: the first directory with playbooks of a collection is
\* the one that is known, whatever it has of them
KnownDir(c) ==
    LET dirs == {i \in 1..CollectionDirs : \E n \in Names : <<<<i, c>>, n>> \in present}
    IN  IF dirs = {} THEN 0 ELSE Min(dirs)
InCollection(c, n) == IF KnownDir(c) = 0 THEN NotFound ELSE At1(<<KnownDir(c), c>>, n)

InProject(n) == FirstFound([i \in DOMAIN ProjectDirs |-> At1(ProjectDirs[i], n)])
InViewCollections(n) ==
    IF ViewCollections = <<"unset">> THEN InCollection(Default, n)
    ELSE FirstFound([i \in DOMAIN ViewCollections |-> InCollection(ViewCollections[i], n)])

\* _expand_playbook: NotFound leaves the argument as it is
\* Mutant of ExpandPlaybook: the collections are looked at first.
ExpandPlaybookLate(a) ==
    IF a.is = "qualified" THEN InCollection(a.c, a.n)
    ELSE FirstFound(<<At1(Here, a.n), InViewCollections(a.n), InProject(a.n)>>)
ExpandPlaybook(a) ==
    IF a.is = "qualified" THEN InCollection(a.c, a.n)
    ELSE FirstFound(<<At1(Here, a.n), InProject(a.n), InViewCollections(a.n)>>)

\* _expand_playbook_set: a set is not looked up in itself
ExpandSet(a) == IF a.is = "set" THEN PlaybookSets[a.n] ELSE <<a>>

\* The command: each element with the index of the argument it is from, 0 for
\* what is added.  "playbook" is what was expanded.
Kept(a, i) == [from |-> i, what |-> a, playbook |-> FALSE]
Added(o) == Kept([is |-> "option", n |-> o], 0)
Expansion(a, i) ==
    LET elements == ExpandSet(a)
    IN  [e \in DOMAIN elements |-> [from |-> i, what |-> elements[e], playbook |-> TRUE]]

\* _parse_ansible_args, at one argument.  An option that is not known to take
\* no value takes the next argument, unless that is an option as well.
\* Mutant of ParseArgument: an option takes what follows, whatever it is.
ParseArgumentGreedy(parse, i) ==
    LET a == line[i]
    IN  IF i \in parse.done \/ a.n = "--" THEN parse
        ELSE IF a.is # "option" THEN
            [done |-> parse.done \union {i}, cmd |-> parse.cmd \o Expansion(a, i)]
        ELSE IF i + 1 <= Len(line) /\ line[i + 1].is # "option"
        THEN [done |-> parse.done \union {i, i + 1},
              cmd |-> parse.cmd \o <<Kept(a, i), Kept(line[i + 1], i + 1)>>]
        ELSE [done |-> parse.done \union {i}, cmd |-> Append(parse.cmd, Kept(a, i))]
\* Mutant of ParseArgument: the value of an option is not marked as parsed.
ParseArgumentAgain(parse, i) ==
    LET a == line[i]
    IN  IF i \in parse.done \/ a.n = "--" THEN parse
        ELSE IF a.is # "option" THEN
            [done |-> parse.done \union {i}, cmd |-> parse.cmd \o Expansion(a, i)]
        ELSE IF i + 1 <= Len(line) /\ a.n \notin Listed /\ line[i + 1].is # "option"
        THEN [done |-> parse.done \union {i},
              cmd |-> parse.cmd \o <<Kept(a, i), Kept(line[i + 1], i + 1)>>]
        ELSE [done |-> parse.done \union {i}, cmd |-> Append(parse.cmd, Kept(a, i))]
ParseArgument(parse, i) ==
    LET a == line[i]
    IN  IF i \in parse.done \/ a.n = "--" THEN parse
        ELSE IF a.is # "option" THEN
            [done |-> parse.done \union {i}, cmd |-> parse.cmd \o Expansion(a, i)]
        ELSE IF i + 1 <= Len(line) /\ a.n \notin Listed /\ line[i + 1].is # "option"
        THEN [done |-> parse.done \union {i, i + 1},
              cmd |-> parse.cmd \o <<Kept(a, i), Kept(line[i + 1], i + 1)>>]
        ELSE [done |-> parse.done \union {i}, cmd |-> Append(parse.cmd, Kept(a, i))]

\* _add_global_vars: before what the user says, so that it can be overridden
Globals == FlattenSeq([i \in DOMAIN GlobalVars |->
    IF GlobalVars[i] THEN <<Added("--extra-vars"), Added("global-vars.yml")>> ELSE <<>>])

Parsed1 == FoldLeft(ParseArgument, [done |-> {}, cmd |-> Globals], [i \in DOMAIN line |-> i]).cmd
HasCheck(cmd) == \E i \in DOMAIN cmd : cmd[i].what.is = "option" /\ cmd[i].what.n \in Checks

\* What is added on read-only Fridays
\* Mutant of ReadOnly: asking for the differences is taken for asking for a check.
ReadOnlyDiff ==
    IF friday /\ ~\E i \in DOMAIN Parsed1 : Parsed1[i].what.n \in Checks \union {"--diff"}
    THEN <<Added("--diff"), Added("--check")>>
    ELSE <<>>
ReadOnly ==
    IF friday /\ ~HasCheck(Parsed1) THEN <<Added("--diff"), Added("--check")>> ELSE <<>>
\* and in debug mode
Verbose == IF debug THEN <<Added("-vv")>> ELSE <<>>
Command == (Parsed1 \o ReadOnly) \o Verbose
FoundPlaybooks(cmd) == SelectSeq(cmd, LAMBDA e : e.playbook)
\* _get_check_mode, which decides which hooks are run
CheckMode(cmd) == IF HasCheck(cmd) THEN "check" ELSE "run"
\* execute
Refused1(cmd) == FoundPlaybooks(cmd) = <<>>

-----------------------------------------------------------------------------
PlaybooksInit == present = {} /\ line = <<>> /\ friday \in BOOLEAN /\ debug \in BOOLEAN

Appears1(place, n) ==
    /\ Cardinality(present) < MaxPlaybooks /\ line = <<>>
    /\ present' = present \union {<<place, n>>}
    /\ UNCHANGED <<line, friday, debug>>
Disappears(place, n) ==
    /\ present' = present \ {<<place, n>>}
    /\ UNCHANGED <<line, friday, debug>>
\* What the arguments become does not depend on which playbooks there are; to
\* keep the states few there are none when there are arguments.
Argument(a) ==
    /\ Len(line) < MaxArguments /\ present = {}
    /\ line' = Append(line, a)
    /\ UNCHANGED <<present, friday, debug>>
PlaybooksNext ==
    \/ \E place \in Places, n \in Names : Appears1(place, n) \/ Disappears(place, n)
    \/ \E a \in Arguments : Argument(a)
PlaybooksSpec == PlaybooksInit /\ [][PlaybooksNext]_runVars

-----------------------------------------------------------------------------
\* Whether an option takes what is after it, and what one argument becomes: this
\* depends on the argument before it and on nothing else.
Takes(i) == line[i].is = "option" /\ line[i].n \notin Listed \union {"--"}
Taken(i) == i > 1 /\ Takes(i - 1) /\ line[i].is # "option"
Becomes(i) ==
    IF line[i].n = "--" THEN <<>>
    ELSE IF line[i].is = "option" \/ Taken(i) THEN <<Kept(line[i], i)>>
    ELSE Expansion(line[i], i)

\* Every argument but -- is in the command, once, in its place and as it was given,
\* or else what its playbook set stands for is: none is lost, repeated or moved when
\* an option takes the next one, and what is added goes before or after all of them
\* (docstring of _parse_ansible_args, "preserving their order").
NoArgumentLost ==
    LET given == Globals \o FlattenSeq([i \in DOMAIN line |-> Becomes(i)])
    IN  Command \in {given \o Verbose, (given \o <<Added("--diff"), Added("--check")>>) \o Verbose}

\* What ansible-playbook will take for playbooks is what was looked up, and so
\* what the run is refused without.  The options that are written together with
\* their value or with other options are left out: a playbook after one of them
\* is taken for its value.  A set may be empty.
TakenForPlaybooks ==
    (\A i \in DOMAIN line : line[i].n \notin Joined)
    /\ (\A i \in DOMAIN line : line[i].n \in Valued =>
            i < Len(line) /\ line[i + 1].is # "option" /\ (i > 1 => line[i - 1].n \notin Valued)) =>
        LET positional == {i \in DOMAIN line : line[i].is # "option"
                                               /\ ~(i > 1 /\ line[i - 1].n \in Valued)}
            expanded == {k \in DOMAIN Command : Command[k].playbook}
        IN  {Command[k].from : k \in expanded} = {i \in positional : ExpandSet(line[i]) # <<>>}

\* On a read-only Friday nothing is run but in check mode, and the hooks of a
\* check are run, whatever the arguments are.
FridayIsReadOnly == friday => CheckMode(Command) = "check"

\* A playbook that appears changes what a name stands for to itself only, or by
\* hiding the same collection in a later directory; and it never replaces one
\* that is nearer (_expand_playbook_paths, _find_collections, _expand_playbook).
OnlyItself ==
    [][\A place \in Places, n \in Names :
        present' = present \union {<<place, n>>} /\ <<place, n>> \notin present =>
          \A a \in {Plain(m) : m \in Names} :
            \/ ExpandPlaybook(a)' = ExpandPlaybook(a)
            \/ /\ ExpandPlaybook(a)' = <<place, n>> /\ n = a.n
               /\ place # Here => ExpandPlaybook(a)[1] # Here
               /\ place \notin {Here} \union Range(ProjectDirs) =>
                    ExpandPlaybook(a)[1] \notin Range(ProjectDirs)
            \/ \E i, j \in 1..CollectionDirs, c \in Collections :
                 /\ place = <<i, c>> /\ i < j
                 /\ ExpandPlaybook(a)[1] = <<j, c>>]_runVars

\* The command line that is run is the one that was given: every argument in its
\* place, the playbooks among them looked up and the options not, and check mode
\* on a read-only Friday whatever they are.
ArgumentsKept == NoArgumentLost /\ TakenForPlaybooks /\ FridayIsReadOnly
=============================================================================
