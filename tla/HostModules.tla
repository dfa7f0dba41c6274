---------------------------- MODULE HostModules ----------------------------
(***************************************************************************)
(* Four Ansible modules that change a host: apache2_module, btrfs_subvolume,*)
(* cran and ldap_attrs.  Each looks at the host, decides, runs its commands *)
(* and answers; somebody else may change the host in between, commands may  *)
(* fail, and the task is run a second time with the same parameters.       *)
(*                                                                         *)
(* "host" is what the module is about: a module of Apache, a tree of       *)
(* directories and subvolumes, an R package, or the values of two          *)
(* attributes.  The tools and servers are external.                        *)
(***************************************************************************)
EXTENDS Integers, SequencesExt

CONSTANTS
    Tree,          \* the paths of the file system, each a sequence of names
    AttributeTasks \* the values that ldap_attrs is given for each attribute

States == {"present", "absent"}
ParentOf(p) == SubSeq(p, 1, Len(p) - 1)
Trees ==
    {t \in [Tree -> {"none", "dir", "sub"}] :
        \A p \in Tree : ParentOf(p) \in Tree /\ t[p] # "none" => t[ParentOf(p)] # "none"}

\* A value with its index, -1 when it has none.
Value1(v) == <<-1, v>>
Attributes == {"p", "q"}
LdapValues == {Value1("x"), Value1("y"), <<0, "x">>, <<0, "y">>, <<1, "x">>, <<1, "y">>}

ASSUME HostAssumption ==
    /\ Tree \subseteq Seq(STRING) \ {<<>>} /\ IsFiniteSet(Tree)
    /\ \A p \in Tree : \A n \in 1..Len(p) : SubSeq(p, 1, n) \in Tree
    /\ AttributeTasks \subseteq [Attributes -> Seq(STRING)]

VARIABLES
    kind,     \* the module
    host,     \* what it is about
    todo,     \* the parameters of the task
    checking, \* whether it runs in check mode
    at0,      \* where it is
    plan,     \* the commands that are left
    answer,   \* whether it failed, and whether it says that it changed anything
    start,    \* the host when it was started
    earlier,  \* the run before this one
    trouble   \* what befell this run: "none", "meddled", "failed" or "blind"

hostVars == <<kind, host, todo, checking, at0, plan, answer, start, earlier, trouble>>
NoAnswer1 == [failed |-> FALSE, changed |-> FALSE]
NoEarlier == [done |-> FALSE, check |-> FALSE, answer |-> NoAnswer1, trouble |-> "none"]

HostInit ==
    /\ \/ /\ kind = "apache2"
          /\ host \in [enabled : BOOLEAN, threaded : BOOLEAN, needed : BOOLEAN]
          /\ todo \in [state : States, cgi : BOOLEAN, force : BOOLEAN]
       \/ /\ kind = "btrfs" /\ host \in Trees
          /\ todo \in [state : States, path : Tree, recursive : BOOLEAN]
       \/ kind = "cran" /\ host \in BOOLEAN /\ todo \in [state : States]
       \/ /\ kind = "ldap"
          /\ host \in [Attributes -> SUBSET LdapValues]
          /\ host["q"] \subseteq {Value1("x")}
          /\ \A v, w \in host["p"] : v[1] = -1 <=> w[1] = -1
          /\ todo \in [state : States \union {"exact"}, ordered : BOOLEAN, values : AttributeTasks,
                       bare : SUBSET Attributes]
          /\ \A name \in todo.bare : todo.ordered /\ Len(todo.values[name]) <= 1
    /\ checking \in BOOLEAN /\ (kind = "cran" => ~checking)
    /\ at0 = "look" /\ plan = <<>> /\ answer = NoAnswer1
    /\ start = host /\ earlier = NoEarlier /\ trouble = "none"

Answer(failed, changed) ==
    at0' = "end" /\ answer' = [failed |-> failed, changed |-> changed] /\ plan' = <<>>
Asked1 == <<kind, todo, checking, start, earlier>>

-----------------------------------------------------------------------------
\* apache2_module: a2query is asked whether the MPM is threaded if the module is
\* cgi, and in check mode, where the answer is whether it is enabled already.
\* Otherwise a2enmod or a2dismod is run and says whether there was anything to do.
Wants == todo.state = "present"
ApacheRefuses == host.needed /\ ~Wants /\ host.enabled /\ ~todo.force
ApacheSets ==
    IF ApacheRefuses THEN Answer(TRUE, FALSE) /\ UNCHANGED host
    ELSE Answer(FALSE, host.enabled # Wants) /\ host' = [host EXCEPT !.enabled = Wants]
Apache ==
    /\ kind = "apache2" /\ at0 = "look"
    /\ IF todo.cgi /\ host.threaded THEN Answer(TRUE, FALSE) /\ UNCHANGED host
       ELSE IF checking THEN Answer(FALSE, host.enabled = Wants) /\ UNCHANGED host
       ELSE ApacheSets
    /\ UNCHANGED <<Asked1, trouble>>
\* a2query fails: the MPM is then taken for one without threads, and check mode
\* has no answer
ApacheBlind ==
    /\ kind = "apache2" /\ at0 = "look" /\ trouble' = "blind"
    /\ \/ checking /\ (todo.cgi => ~host.threaded) /\ Answer(TRUE, FALSE) /\ UNCHANGED host
       \/ /\ todo.cgi
          /\ IF checking
             THEN \E failed \in BOOLEAN :
                    Answer(failed, ~failed /\ host.enabled = Wants) /\ UNCHANGED host
             ELSE ApacheSets
    /\ UNCHANGED Asked1
ApacheFails ==
    /\ kind = "apache2" /\ at0 = "look" /\ ~checking /\ ~(todo.cgi /\ host.threaded)
    /\ Answer(TRUE, FALSE) /\ trouble' = "failed"
    /\ UNCHANGED <<host, Asked1>>

-----------------------------------------------------------------------------
\* btrfs_subvolume.  A path that exists is not looked at further: a plain
\* directory will do for "present", and is tried to be deleted for "absent".
Exists(p) == host[p] # "none"
PathPrefixes(p) == [n \in 1..Len(p) |-> SubSeq(p, 1, n)]
Below1(p) == {q \in Tree : Len(q) > Len(p) /\ SubSeq(q, 1, Len(p)) = p /\ Exists(q)}
\* get_subvolumes: in any order in which a directory comes before what is in it
Walks(p) ==
    {s \in SetToSeqs({p} \union Below1(p)) : \A i, j \in DOMAIN s : i < j => ~IsPrefix(s[j], s[i])}
\* Mutant of Subvolumes: from the top down.
SubvolumesDown ==
    IF todo.state = "present" THEN {IF todo.recursive THEN PathPrefixes(todo.path) ELSE <<todo.path>>}
    ELSE IF todo.recursive /\ Exists(todo.path) THEN Walks(todo.path) ELSE {<<todo.path>>}
Subvolumes ==
    IF todo.state = "present" THEN {IF todo.recursive THEN PathPrefixes(todo.path) ELSE <<todo.path>>}
    ELSE IF todo.recursive /\ Exists(todo.path) THEN {Reverse(s) : s \in Walks(todo.path)}
    ELSE {<<todo.path>>}

BtrfsLook ==
    /\ kind = "btrfs" /\ at0 = "look"
    /\ plan' \in Subvolumes /\ at0' = "commands"
    /\ UNCHANGED <<host, Asked1, answer, trouble>>

\* the path is looked at again, and the command is told or run
ToDo(p) == Exists(p) # (todo.state = "present")
CommandWorks(p) ==
    IF todo.state = "present" THEN ParentOf(p) \in Tree => Exists(ParentOf(p))
    ELSE host[p] = "sub" /\ \A q \in Below1(p) : host[q] # "sub"
\* what is in a subvolume goes with it
After(p) ==
    IF todo.state = "present" THEN [host EXCEPT ![p] = "sub"]
    ELSE [q \in Tree |-> IF q = p \/ q \in Below1(p) THEN "none" ELSE host[q]]
BtrfsCommand ==
    /\ kind = "btrfs" /\ at0 = "commands" /\ plan # <<>>
    /\ LET p == Head(plan)
       IN  IF ~ToDo(p) THEN plan' = Tail(plan) /\ UNCHANGED <<host, at0, answer>>
           ELSE IF checking
           THEN plan' = Tail(plan) /\ answer' = [answer EXCEPT !.changed = TRUE]
                /\ UNCHANGED <<host, at0>>
           ELSE IF CommandWorks(p)
           THEN plan' = Tail(plan) /\ host' = After(p) /\ answer' = [answer EXCEPT !.changed = TRUE]
                /\ UNCHANGED at0
           ELSE Answer(TRUE, answer.changed) /\ UNCHANGED host
    /\ UNCHANGED <<Asked1, trouble>>
BtrfsFails ==
    /\ kind = "btrfs" /\ at0 = "commands" /\ plan # <<>> /\ ToDo(Head(plan)) /\ ~checking
    /\ Answer(TRUE, answer.changed) /\ trouble' = "failed"
    /\ UNCHANGED <<host, Asked1>>
BtrfsEnd ==
    /\ kind = "btrfs" /\ at0 = "commands" /\ plan = <<>>
    /\ Answer(FALSE, answer.changed)
    /\ UNCHANGED <<host, Asked1, trouble>>

-----------------------------------------------------------------------------
\* cran: a query that fails counts as a package that is not there
CranLook(seen) ==
    /\ kind = "cran" /\ at0 = "look"
    /\ trouble' = IF seen # host THEN "blind" ELSE trouble
    /\ IF seen = Wants THEN Answer(FALSE, FALSE) ELSE at0' = "commands" /\ UNCHANGED <<plan, answer>>
    /\ UNCHANGED <<host, Asked1>>
\* R says nothing when a package cannot be installed
CranCommand(works) ==
    /\ kind = "cran" /\ at0 = "commands" /\ at0' = "verify"
    /\ host' = IF works THEN Wants ELSE host
    /\ UNCHANGED <<Asked1, plan, answer, trouble>>
CranFails ==
    /\ kind = "cran" /\ at0 = "commands"
    /\ Answer(TRUE, FALSE) /\ trouble' = "failed"
    /\ UNCHANGED <<host, Asked1>>
\* Mutant of CranVerify: the command is believed.
CranVerifyBlindly(seen) ==
    /\ kind = "cran" /\ at0 = "verify" /\ Answer(FALSE, TRUE)
    /\ UNCHANGED <<host, Asked1, trouble>>
CranVerify(seen) ==
    /\ kind = "cran" /\ at0 = "verify"
    /\ trouble' = IF seen # host THEN "blind" ELSE trouble
    /\ Answer(seen # Wants, seen = Wants)
    /\ UNCHANGED <<host, Asked1>>

-----------------------------------------------------------------------------
\* ldap_attrs: _normalize_values, and the list of modifications.  A value that is
\* not in a list ("bare") gets no number.
Normalized(name) ==
    LET vs == todo.values[name]
    IN  IF todo.ordered /\ name \notin todo.bare THEN [i \in DOMAIN vs |-> <<i - 1, vs[i]>>]
        ELSE [i \in DOMAIN vs |-> Value1(vs[i])]
Mod(op, name, vs) == [op |-> op, name |-> name, values |-> vs]
OneByOne(op, name, wanted) ==
    LET vs == Normalized(name)
    IN  FlattenSeq([i \in DOMAIN vs |->
            IF vs[i] \in wanted THEN <<Mod(op, name, <<vs[i]>>)>> ELSE <<>>])
Missing(name) == ToSet(Normalized(name)) \ host[name]
Exactly(name) ==
    LET vs == Normalized(name)
    IN  IF ToSet(vs) = host[name] THEN <<>>
        ELSE IF host[name] = {} THEN <<Mod("add", name, vs)>>
        ELSE IF vs = <<>> THEN <<Mod("clear", name, <<>>)>>
        ELSE <<Mod("replace", name, vs)>>
\* Mutant of Modlist: "exact" replaces whatever is there.
ModlistReplace(name) ==
    CASE todo.state = "present" -> OneByOne("add", name, Missing(name))
      [] todo.state = "absent" -> OneByOne("delete", name, host[name])
      [] todo.state = "exact" -> <<Mod("replace", name, Normalized(name))>>
Modlist(name) ==
    CASE todo.state = "present" -> OneByOne("add", name, Missing(name))
      [] todo.state = "absent" -> OneByOne("delete", name, host[name])
      [] todo.state = "exact" -> Exactly(name)

\* the server: modifications are made in their order, all of them or none
Distinct(vs) == Cardinality(ToSet(vs)) = Len(vs)
ModifyOne(r, m) ==
    LET there == r.attrs[m.name]
        set(vs) == [r EXCEPT !.attrs[m.name] = vs]
        no == [r EXCEPT !.ok = FALSE]
    IN  IF ~r.ok THEN r ELSE
        CASE m.op = "add" ->
               IF Distinct(m.values) /\ ToSet(m.values) \intersect there = {}
               THEN set(there \union ToSet(m.values)) ELSE no
          [] m.op = "delete" -> IF ToSet(m.values) \subseteq there THEN set(there \ ToSet(m.values)) ELSE no
          [] m.op = "clear" -> IF there # {} THEN set({}) ELSE no
          [] m.op = "replace" -> IF Distinct(m.values) THEN set(ToSet(m.values)) ELSE no
Modified(mods) == FoldLeft(ModifyOne, [ok |-> TRUE, attrs |-> host], mods)

\* Mutant of LdapLook: the answer of check mode is given before it is decided.
LdapLookEarly ==
    /\ kind = "ldap" /\ at0 = "look"
    /\ LET mods == Modlist("p") \o Modlist("q")
       IN  IF mods = <<>> \/ checking THEN Answer(FALSE, FALSE)
           ELSE plan' = mods /\ at0' = "commands" /\ UNCHANGED answer
    /\ UNCHANGED <<host, Asked1, trouble>>
LdapLook ==
    /\ kind = "ldap" /\ at0 = "look"
    /\ LET mods == Modlist("p") \o Modlist("q")
       IN  IF mods = <<>> \/ checking THEN Answer(FALSE, mods # <<>>)
           ELSE plan' = mods /\ at0' = "commands" /\ UNCHANGED answer
    /\ UNCHANGED <<host, Asked1, trouble>>
\* Mutant of LdapModify: what was modified before the failure stays.
LdapModifyPartly ==
    /\ kind = "ldap" /\ at0 = "commands"
    /\ LET r == Modified(plan)
       IN  host' = r.attrs /\ Answer(~r.ok, r.ok)
    /\ UNCHANGED <<Asked1, trouble>>
LdapModify ==
    /\ kind = "ldap" /\ at0 = "commands"
    /\ LET r == Modified(plan)
       IN  IF r.ok THEN host' = r.attrs /\ Answer(FALSE, TRUE)
           ELSE UNCHANGED host /\ Answer(TRUE, FALSE)
    /\ UNCHANGED <<Asked1, trouble>>

-----------------------------------------------------------------------------
\* Somebody else changes what the module is about, while it works.
Meddle ==
    /\ at0 \notin {"look", "end"} /\ trouble = "none" /\ trouble' = "meddled"
    /\ CASE kind = "btrfs" -> \E p \in Tree : host' = [host EXCEPT ![p] = "sub"]
                                              /\ (ParentOf(p) \in Tree => Exists(ParentOf(p)))
         [] kind = "cran" -> host' = ~host
         [] kind = "ldap" -> \E v \in LdapValues : host' = [host EXCEPT !["p"] = @ \union {v}]
    /\ UNCHANGED <<Asked1, at0, plan, answer>>

RunAgain ==
    /\ at0 = "end" /\ ~earlier.done
    /\ earlier' = [done |-> TRUE, check |-> checking, answer |-> answer, trouble |-> trouble]
    /\ start' = host /\ checking' = FALSE /\ at0' = "look"
    /\ plan' = <<>> /\ answer' = NoAnswer1 /\ trouble' = "none"
    /\ UNCHANGED <<kind, host, todo>>

HostNext ==
    \/ Apache \/ ApacheBlind \/ ApacheFails \/ BtrfsLook \/ BtrfsCommand \/ BtrfsFails \/ BtrfsEnd
    \/ kind = "cran" /\ \E seen \in {host, FALSE} : CranLook(seen) \/ CranVerify(seen)
    \/ \E works \in BOOLEAN : CranCommand(works)
    \/ CranFails \/ LdapLook \/ LdapModify \/ Meddle \/ RunAgain
HostSpec == HostInit /\ [][HostNext]_hostVars

-----------------------------------------------------------------------------
Finished1 == at0 = "end"
Succeeded == Finished1 /\ ~answer.failed
Clean(run) == run = "none"

\* what the task asks for
Holds ==
    CASE kind = "apache2" -> host.enabled = Wants
      [] kind = "btrfs" -> Exists(todo.path) = Wants
      [] kind = "cran" -> host = Wants
      [] kind = "ldap" ->
            \A name \in Attributes :
                LET vs == ToSet(Normalized(name))
                IN  CASE todo.state = "present" -> vs \subseteq host[name]
                      [] todo.state = "absent" -> vs \intersect host[name] = {}
                      [] todo.state = "exact" -> host[name] = vs

\* A module that succeeds has brought about what it was asked for, unless
\* somebody else changed the host meanwhile or cran could not see it.
SuccessMeansIt == Succeeded /\ ~checking /\ Clean(trouble) => Holds

\* After a success the same task changes nothing and says so.
SettledAfterSuccess ==
    Succeeded /\ Clean(trouble)
    /\ earlier.done /\ ~earlier.check /\ ~earlier.answer.failed /\ Clean(earlier.trouble) =>
        ~answer.changed /\ host = start

\* Where the task can be done, check mode says whether it will change anything.
\* apache2_module is left out: it says the opposite.
HostCheckTells ==
    Succeeded /\ kind # "apache2" /\ earlier.done /\ earlier.check
    /\ Clean(trouble) /\ Clean(earlier.trouble) =>
        answer.changed = earlier.answer.changed

\* What fails leaves everything as it was, and what says that it changed
\* nothing did not: except btrfs_subvolume, which keeps what it has done so far.
FailedIsUntouched ==
    Finished1 /\ kind # "btrfs" /\ Clean(trouble) /\ (answer.failed \/ ~answer.changed) =>
        host = start

\* A recursive deletion comes to its end if there are only subvolumes, and a
\* recursive creation always does: nothing is deleted before what is in it, or
\* created before what it is in.
RecursionOrdered ==
    Finished1 /\ answer.failed /\ kind = "btrfs" /\ todo.recursive /\ Clean(trouble) =>
        todo.state = "absent" /\ \E p \in Tree : start[p] = "dir"

\* What the modules of Ansible promise of any task, for each of the four: the task
\* is done, once, as check mode had said, or nothing is.
HostPromises ==
    /\ SuccessMeansIt /\ SettledAfterSuccess /\ HostCheckTells
    /\ FailedIsUntouched /\ RecursionOrdered
=============================================================================
