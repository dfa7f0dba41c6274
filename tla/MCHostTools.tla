---------------------------- MODULE MCHostTools ----------------------------
(* The plugins and modules of Ansible that stand on their own: dpkg_divert   *)
(* (Divert), the four of HostModules, the filter of /etc/aliases (Aliases)   *)
(* and the lookups of overridden files (Overrides).  "tool" says which of    *)
(* them a behavior is of; the others stand still.                           *)
EXTENDS Divert, HostModules, Aliases, Overrides

VARIABLE tool

MCTree == {<<"a">>, <<"a", "b">>, <<"a", "c">>, <<"a", "b", "d">>}
MCAttributeTasks ==
    [p : {<<>>, <<"x">>, <<"x", "y">>, <<"x", "x">>, <<"y", "x">>}, q : {<<>>, <<"x">>}]

MCAlias(name) ==
    [form |-> "entry", name |-> name, state |-> Given, weight |-> Given,
     to |-> <<>>, add |-> <<>>, del |-> <<>>, real |-> FALSE]
MCKeys(keys) == [form |-> "keys", keys |-> keys]
MCTexts == {<<"root">>, <<"admin">>, <<"admin", "root">>, <<"root@x", "root">>}
MCElements ==
    {[MCAlias("root") EXCEPT !.to = <<t>>] : t \in MCTexts \union {<<>>}}
    \union {[MCAlias("root") EXCEPT !.add = <<t>>, !.weight = <<1>>] : t \in MCTexts}
    \union {[MCAlias("root") EXCEPT !.del = <<t>>] : t \in MCTexts}
    \union {[MCAlias("root") EXCEPT !.to = <<t>>, !.add = <<t, <<"root">>>>, !.del = <<<<"admin">>>>] : t \in MCTexts}
    \union {[MCAlias("admin") EXCEPT !.state = <<"absent">>, !.add = <<t>>] : t \in MCTexts}
    \union {[MCAlias("admin") EXCEPT !.to = <<<<"root">>, t>>, !.state = <<"present">>] : t \in MCTexts}
    \union {[MCAlias("admin") EXCEPT !.state = <<"ignore">>, !.real = r, !.to = <<t>>] : r \in BOOLEAN, t \in MCTexts}
    \union {MCKeys(k) : k \in {"root" :> t : t \in MCTexts \union {<<>>}}}
    \union {MCKeys([root |-> t, admin |-> <<"root", "admin">>]) : t \in MCTexts}
MCText == {"root", "admin", "root@x", "ignore", "somebody"}
MCHasIn ==
    {<<"root", "root">>, <<"root@x", "root">>, <<"admin", "admin">>, <<"name", "name">>,
     <<"state", "state">>, <<"real_name", "real_name">>, <<"to", "to">>}

\* a file cannot be read, or gives one of the options or two
MCAbsolute == <<[absolute |-> TRUE, name |-> "one"]>>
MCRelative == <<[absolute |-> FALSE, name |-> "two"], [absolute |-> TRUE, name |-> "one"]>>
MCFiles ==
    {[is |-> "broken", says |-> <<>>], [is |-> "odd", says |-> <<>>],
     [is |-> "read", says |-> ("files_path" :> MCRelative)],
     [is |-> "read", says |-> [templates_path |-> MCRelative, tasks_path |-> MCAbsolute]]}
MCHolds ==
    LET one == <<"absolute", "one">>
        two == <<"project", "two">>
    IN  {{}, {<<one, "s">>, <<RolePath, "t">>}, {<<two, "s">>, <<one, "t">>},
         {<<one, "s">>, <<two, "s">>, <<RolePath, "s">>, <<RolePath, "t">>},
         {<<<<"below", "two">>, "s">>, <<RolePath, "s">>, <<RolePath, "t">>}}
MCNears ==
    LET four(a, b) == <<NoFile, a, b, NoFile>>
        paths == [is |-> "read", says |-> ("files_path" :> MCRelative)]
    IN  {four(NoFile, NoFile), four(NoFile, paths), four([is |-> "broken", says |-> <<>>], paths),
         four([is |-> "odd", says |-> <<>>], paths)}
MCWorlds ==
    {[module |-> kind1[1], project |-> kind1[2], own |-> own, global |-> <<most, least>>,
      near |-> near, cwd |-> dir, holds |-> h, role |-> r] :
        kind1 \in {<<TRUE, "none">>, <<TRUE, "modern">>, <<TRUE, "legacy">>, <<FALSE, "modern">>},
        own \in {<<>>, <<[is |-> "read", says |-> ("files_path" :> MCRelative)]>>},
        most \in {<<f>> : f \in MCFiles} \union {<<>>},
        least \in {<<>>, <<[is |-> "read", says |-> <<>>], [is |-> "read", says |-> ("files_path" :> MCAbsolute)]>>},
        near \in MCNears, dir \in {"project", "below"}, h \in MCHolds, r \in BOOLEAN}
MCTermLists == {<<"s", "t">>, <<"t", "s", "s">>}

DivertIdle ==
    /\ lenient = FALSE /\ db = NoDiversion /\ files = [p \in Paths |-> Nowhere]
    /\ task = [state |-> "present", package |-> "LOCAL", divert |-> "default",
               rename |-> FALSE, delete |-> FALSE, force |-> FALSE]
    /\ check = FALSE /\ pc = "idle" /\ saved = NothingSaved /\ result = NoResult
    /\ before = [db |-> db, files |-> files] /\ past = NoRun
HostIdle ==
    /\ kind = "cran" /\ host = FALSE /\ todo = [state |-> "present"]
    /\ checking = FALSE /\ at0 = "idle" /\ plan = <<>> /\ answer = NoAnswer1
    /\ start = FALSE /\ earlier = NoEarlier /\ trouble = "none"
OverrideIdle ==
    /\ world = 0 /\ lookup = "none" /\ terms = <<>> /\ places = <<>> /\ ret = <<>>
    /\ asks = "config"
AliasIdle == AliasInit

Init ==
    \/ tool = "divert" /\ DivertInit /\ HostIdle /\ AliasIdle /\ OverrideIdle
    \/ tool = "others" /\ HostInit /\ DivertIdle /\ AliasIdle /\ OverrideIdle
    \/ tool = "aliases" /\ AliasInit /\ DivertIdle /\ HostIdle /\ OverrideIdle
    \/ tool = "lookups" /\ OverrideInit /\ DivertIdle /\ HostIdle /\ AliasIdle
Next ==
    \/ tool = "divert" /\ DivertNext /\ UNCHANGED <<tool, hostVars, aliasVars, overrideVars>>
    \/ tool = "others" /\ HostNext /\ UNCHANGED <<tool, divertVars, aliasVars, overrideVars>>
    \/ tool = "aliases" /\ AliasNext /\ UNCHANGED <<tool, divertVars, hostVars, overrideVars>>
    \/ tool = "lookups" /\ OverrideNext /\ UNCHANGED <<tool, divertVars, hostVars, aliasVars>>
Spec == Init /\ [][Next]_<<tool, hostVars, divertVars, aliasVars, overrideVars>>
=============================================================================
