---------------------------- MODULE VersionCheck ----------------------------
(***************************************************************************)
(* The check for a newer DebOps that a command makes, at most once in an   *)
(* interval: how DebOps was installed, what the last check found, asking   *)
(* git or the package index, and what the user is told.  In between the    *)
(* user upgrades, changes the branch or installs DebOps another way, new   *)
(* versions are released, time passes, and a command may be killed.        *)
(*                                                                         *)
(* Versions, and the commits of a branch, are numbered in their order; 0   *)
(* is a ref that does not exist.  One command runs at a time.              *)
(***************************************************************************)
EXTENDS Integers, FiniteSets

CONSTANTS
    Interval,   \* version_check.check_interval, in hours
    Newest,     \* bound: the last version that is released
    MaxChanges, \* bound: how often something is released or installed
    FirstReleases,  \* what the sources have at first
    Installs,   \* the ways in which DebOps is installed, see Method
    Settings    \* version_check.enabled, and whether git_repo_url is set

Branches == {"master", "stable", "topic"}
Sources == Branches \union {"index"}

ASSUME IntervalAssumption == Interval \in Nat \ {0}
ASSUME SettingsAssumption == Settings \subseteq [enabled : BOOLEAN, url : BOOLEAN]
ASSUME ReleasesAssumption == FirstReleases \subseteq [Sources -> Nat]

NoCache == [is |-> "absent"]
Torn == [is |-> "torn"]

VARIABLES
    setting,    \* the settings, which do not change
    changes,    \* the releases and installations so far
    install,    \* how DebOps is installed now
    version,    \* the version, or the commit of the branch, that is
    released,   \* what each source has
    tracked,    \* what the clone knows of it: the refs of the remote, and the tags
    store,      \* the file version_check.json
    age,        \* the hours since it was written, up to Interval
    step,       \* where the check of the command is
    result,     \* what it will save
    notice,     \* the version the user was told about, 0 by a silence, or Unsaid
    last,       \* the source of the answer that is saved, and the hours since
    evidence    \* what there was when it was asked, in the last Interval hours

vcVars == <<setting, changes, install, version, released, tracked, store, age, step, result, notice,
            last, evidence>>
vcWorld == <<setting, changes, install, version, released>>

NoAnswer == [source |-> "none", latest |-> 0]
NoLast == [source |-> "none", age |-> 0]
Unsaid == -1

\* _detect_install_method
Method(how) ==
    IF how \in Branches
    THEN IF how = "topic" /\ tracked["topic"] = 0 THEN "unknown" ELSE how
    ELSE IF how \in {"pip", "pipx"} THEN how ELSE "unknown"
SourceOf(method) == IF method \in Branches THEN method ELSE "index"

VcInit ==
    /\ setting \in Settings /\ install \in Installs
    /\ version = 1 /\ changes = 0
    /\ released \in FirstReleases
    /\ tracked = released
    /\ store = NoCache /\ age = 0 /\ step = "idle" /\ result = NoAnswer /\ notice = Unsaid
    /\ last = NoLast /\ evidence = {}

\* check, and the first test of _do_check
Begin ==
    /\ step = "idle" /\ setting.enabled /\ Method(install) # "unknown"
    /\ step' = "cache" /\ notice' = Unsaid
    /\ UNCHANGED <<vcWorld, tracked, store, age, result, last, evidence>>

Fresh == store # NoCache /\ age < Interval
\* Mutant of Replayed: the result is replayed whatever it was found with.
ReplayedAny(method) == Fresh /\ store.is = "saved"
\* Mutant of Replayed: a result without an update is not a result.
ReplayedNews(method) ==
    Fresh /\ store.is = "saved" /\ store.source = method /\ store.latest # 0
Replayed(method) == Fresh /\ store.is = "saved" /\ store.source = method

FromCache ==
    /\ step = "cache"
    /\ IF Replayed(Method(install))
       THEN step' = "idle" /\ notice' = store.latest
       ELSE step' = "ask" /\ notice' = Unsaid
    /\ UNCHANGED <<vcWorld, tracked, store, age, result, last, evidence>>

\* The refs after a fetch.  One from an address leaves the refs of the remote
\* as they are, and brings the tags.
Fetched ==
    IF setting.url THEN [tracked EXCEPT !["stable"] = released["stable"]]
    ELSE [s \in Sources |->
            IF released[s] # 0 THEN released[s] ELSE tracked[s]]

\* what _check_git_* and _check_pypi compare with, 0 when there is none
Compared(method) ==
    IF SourceOf(method) = "index" THEN released["index"]
    ELSE IF method = "master" /\ setting.url THEN released["master"]  \* FETCH_HEAD
    ELSE Fetched[method]

Latest(method) == IF Compared(method) > version THEN Compared(method) ELSE 0

\* What there is to find.  git_repo_url does not reach the refs that
\* _check_git_branch compares with: it finds what was fetched otherwise.
Truth(method) ==
    LET there == IF method = "topic" /\ setting.url THEN tracked["topic"]
                 ELSE released[SourceOf(method)]
    IN  IF there > version THEN there ELSE 0

Ask ==
    /\ step = "ask"
    /\ LET method == Method(install)
       IN  /\ tracked' = IF method \in Branches THEN Fetched ELSE tracked
           /\ IF Compared(method) = 0
              THEN step' = "idle" /\ UNCHANGED <<result, evidence>>
              ELSE /\ result' = [source |-> method, latest |-> Latest(method)]
                   /\ step' = "save"
                   /\ evidence' = {e \in evidence : e.source # method \/ e.latest # Truth(method)}
                          \union {[source |-> method, latest |-> Truth(method), age |-> 0]}
    /\ UNCHANGED <<vcWorld, store, age, notice, last>>

\* a timeout, no network, or an answer that cannot be read
AskInVain ==
    /\ step = "ask" /\ step' = "idle"
    /\ UNCHANGED <<vcWorld, tracked, store, age, result, notice, last, evidence>>

\* _save_cache: the file is emptied when it is opened, then it is written
Open ==
    /\ step = "save" /\ step' = "write" /\ store' = Torn /\ age' = 0 /\ last' = NoLast
    /\ UNCHANGED <<vcWorld, tracked, result, notice, evidence>>

Write ==
    /\ step = "write" /\ step' = "idle"
    /\ store' = [is |-> "saved", source |-> result.source, latest |-> result.latest]
    /\ notice' = result.latest /\ last' = [source |-> result.source, age |-> 0]
    /\ result' = NoAnswer
    /\ UNCHANGED <<vcWorld, tracked, age, evidence>>

\* the directory cannot be written: the notice comes all the same
CannotSave ==
    /\ step = "save" /\ step' = "idle" /\ notice' = result.latest /\ result' = NoAnswer
    /\ UNCHANGED <<vcWorld, tracked, store, age, last, evidence>>

Killed ==
    /\ step # "idle" /\ step' = "idle" /\ notice' = Unsaid /\ result' = NoAnswer
    /\ UNCHANGED <<vcWorld, tracked, store, age, last, evidence>>

Hour ==
    /\ step = "idle"
    /\ age' = IF age < Interval THEN age + 1 ELSE age
    /\ evidence' = {[e EXCEPT !.age = @ + 1] : e \in {f \in evidence : f.age + 1 < Interval}}
    /\ notice' = Unsaid
    /\ last' = IF last # NoLast /\ last.age + 1 < Interval
               THEN [last EXCEPT !.age = @ + 1] ELSE NoLast
    /\ UNCHANGED <<vcWorld, tracked, store, step, result>>

Release(s) ==
    /\ released[s] < Newest /\ changes < MaxChanges /\ changes' = changes + 1
    /\ released' = [released EXCEPT ![s] = @ + 1]
    /\ UNCHANGED <<setting, install, version, tracked, store, age, step, result, notice, last, evidence>>

\* git pull, git checkout, or pip: another version, or another way to install
Install(how, v) ==
    /\ step = "idle"
    /\ v \in 1..released[SourceOf(how)]
    /\ changes < MaxChanges /\ changes' = changes + 1
    /\ install' = how /\ version' = v /\ notice' = Unsaid
    /\ UNCHANGED <<setting, released, tracked, store, age, step, result, last, evidence>>

VcNext ==
    \/ Begin \/ FromCache \/ Ask \/ AskInVain \/ Open \/ Write \/ CannotSave \/ Killed \/ Hour
    \/ \E s \in Sources : Release(s)
    \/ \E how \in Installs, v \in 1..Newest : Install(how, v)
VcSpec == VcInit /\ [][VcNext]_vcVars

-----------------------------------------------------------------------------
\* What a check tells the user, an update or by its silence that there is none,
\* was so for this install method when it was asked less than an interval ago,
\* whatever was killed, left half written, released or installed since
\* (_do_check, _cache_is_fresh and _load_cache).
SaidWasSo ==
    notice # Unsaid =>
        \E e \in evidence : e.source = Method(install) /\ e.latest = notice

\* The network is not asked again within an interval of an answer that was
\* saved, while DebOps stays installed the same way (defaults.toml, "network
\* calls only happen once per interval").
AskedOncePerInterval == [][step' = "ask" /\ step # "ask" => last.source # Method(install)]_vcVars
=============================================================================
