---------------------------- MODULE MCAlgorithms ----------------------------
(* What is computed before anything is written: the filters of Universal    *)
(* Configuration (KvConfig), the reading of inventory specifications        *)
(* (SpecRead), the check for a newer version (VersionCheck), the            *)
(* configuration (Config) and the arguments of a playbook run (Playbooks).  *)
(* They share nothing; "part" says which one a behavior is of.              *)
EXTENDS KvConfig, SpecRead, VersionCheck, Config, Playbooks

VARIABLE part

MCEntry(n) ==
    [form |-> "mapping", name |-> n, state |-> None, weight |-> None, anchor |-> None,
     alias |-> None, options |-> None, value |-> None, keys |-> <<>>]
MCOne(v) == [is |-> "one", of |-> v]
MCString(n) == [form |-> "string", name |-> n]
MCElement(n, s, w) ==
    [form |-> "mapping", name |-> n, state |-> s, weight |-> w, anchor |-> None,
     alias |-> None, keys |-> <<>>]

MCValues ==
    {None, MCOne(1), [is |-> "null"],
     [is |-> "list", of |-> <<MCString("p")>>],
     [is |-> "list", of |-> <<MCElement("p", "absent", None), MCElement("q", None, -1)>>]}

MCOptionLists ==
    {<<[MCEntry("o") EXCEPT !.value = MCOne(1)]>>,
     <<[MCEntry("o") EXCEPT !.state = "append"]>>,
     <<[MCEntry("o") EXCEPT !.weight = 1],
       [MCEntry("o2") EXCEPT !.anchor = "o", !.weight = -1]>>}

MCEntries ==
    {MCString("a"), [form |-> "pair", name |-> "a", value |-> MCOne(3)],
     [MCEntry("c") EXCEPT !.weight = 1, !.anchor = "a"],
     [MCEntry("c") EXCEPT !.weight = -1, !.anchor = "b"]}
    \union {[MCEntry("b") EXCEPT !.weight = w, !.anchor = x] :
              w \in {None, -1, 1}, x \in {None, "a", "c"}}
    \union {[MCEntry("a") EXCEPT !.weight = w, !.anchor = x] : w \in {-1, 1}, x \in {None, "b"}}
    \union {[MCEntry("a") EXCEPT !.state = s, !.value = v] :
              s \in {None, "init", "append"}, v \in MCValues}
    \union {[MCEntry("a") EXCEPT !.state = s, !.value = MCOne(1)] : s \in {"absent", "ignore"}}
    \union {[MCEntry("a") EXCEPT !.keys = "q" :> v] : v \in {1, 2}}
    \union {[MCEntry("a") EXCEPT !.state = s, !.options = o] :
              s \in {None, "init"}, o \in MCOptionLists}

MCDefaults == "d" :> 0
MCEmpty == <<<<"e", <<"q", "name">>>>>>

MCPath(of, as) == [of |-> of, as |-> as]
MCFile(of, as, text) == [path |-> MCPath(of, as), text |-> text]
MCDocument(from, says, written, keep) ==
    [from |-> from, valid |-> TRUE, version |-> says, files |-> written, keep |-> keep]

\* b is below a
MCBelow == [a |-> {"b"}, b |-> {}]

MCContents ==
    {<<MCFile("a", as, "text")>> : as \in {"plain", "dotted", "env", "template", "undefined",
                                           "outside"}}
    \union {<<MCFile("b", "plain", text)>> : text \in {"null", "clear", "undefined"}}
    \union {<<MCFile("a", "template", "pipe"), MCFile("b", "plain", "pipe")>>,
            <<MCFile("a", "plain", "include"), MCFile("b", "env", "pipe")>>,
            <<MCFile("a", "plain", "text"), MCFile("a", "template", "text")>>}
MCKeeps == {{}} \union {{MCPath("a", as)} : as \in {"plain", "dotted", "template", "outside"}}
                \union {{MCPath("b", as)} : as \in {"env", "undefined"}}

MCDocuments ==
    {MCDocument("file", v, w, {}) : v \in {NoVersion, 1, 2, 3}, w \in MCContents}
    \union {MCDocument("file", v, <<MCFile(n, "plain", "null")>>, k) :
              v \in {0, 2}, n \in {"a", "b"}, k \in MCKeeps}
    \union {MCDocument(from, v, <<MCFile("b", "plain", "text")>>, {}) :
              from \in {"stdin", "template", "missing", "terminal"}, v \in {3, 4}}
    \union {[MCDocument("file", 1, <<>>, {}) EXCEPT !.valid = FALSE]}

MCPolicies ==
    {[enabled |-> TRUE, max |-> m, io |-> i] : m \in {2, 3}, i \in BOOLEAN}
    \union {[enabled |-> FALSE, max |-> 3, io |-> TRUE]}

MCInstalls == {"master", "stable", "topic", "pip", "pipx", "editable"}
MCSettings == {[enabled |-> TRUE, url |-> u] : u \in BOOLEAN}
MCFirstReleases ==
    {"master" :> 2 @@ "stable" :> 2 @@ "topic" :> t @@ "index" :> 2 - t : t \in {0, 1}}

MCText(n) == <<Word(n)>>
\* a tree, where a map that holds something is understood
MCTree(f) ==
    [path \in DOMAIN f \union {<<>>} \union UNION {Above(p) : p \in DOMAIN f} |->
        IF path \in DOMAIN f THEN f[path] ELSE Map]
MCSays(f) == [reads |-> "yes", says |-> MCTree(f)]
MCConfigFiles ==
    <<MCSays(<<"a">> :> List(<<MCText("x"), <<Ref("V")>>>>)),
      MCSays(<<"a", "b">> :> Leaf(<<Ref("V")>>) @@ <<"b">> :> Leaf(MCText("y"))),
      MCSays(<<"a", "c">> :> List(<<MCText("z")>>) @@ <<"b">> :> Leaf(MCText("z"))),
      MCSays(<<"default_view">> :> Leaf(MCText("web"))
             @@ <<"views", "web", "a">> :> Leaf(MCText("x"))),
      MCSays(<<"views", "webshop", "a">> :> List(<<MCText("w")>>)),
      [reads |-> "not", says |-> EmptyTree], [reads |-> "fails", says |-> EmptyTree]>>
MCEnvFiles ==
    <<<<[var |-> "PATH", value |-> <<Home("bin"), Ref("PATH")>>]>>,
      <<[var |-> "V", value |-> <<Word("v"), Home("v")>>],
        [var |-> "PATH", value |-> <<Ref("V"), Ref("PATH")>>]>>,
      <<[var |-> "PATH", value |-> Unset]>>>>
MCEnvironment == "PATH" :> MCText("usr") @@ "V" :> Unset
MCBegins ==
    "project" :> {} @@ "system" :> {"system"} @@ "web" :> {"web"} @@ "webshop" :> {"web", "webshop"}
MCCfgPaths ==
    {<<"a">>, <<"a", "b">>, <<"a", "c">>, <<"b">>, <<"default_view">>, <<"views">>,
     <<"views", "web">>, <<"views", "web", "a">>, <<"views", "webshop", "a">>, <<"a", "z", "b">>}

MCPlaybookSets == "set" :> <<Plain("site"), Qualified("my.own", "setup")>> @@ "none" :> <<>>
MCViewCollections == <<"my.own", "debops.debops">>
MCGlobalVars == <<TRUE, FALSE, TRUE>>

KvIdle == read = <<>> /\ config = Refused /\ items = Refused
SpecIdle ==
    /\ sources = <<>> /\ policy \in {p \in MCPolicies : ~p.enabled} /\ phase = "accepted"
    /\ at = 1 /\ left = <<>> /\ files = <<>> /\ cache = NoCalls
    /\ specs = <<>> /\ called = <<>> /\ accepted = Nothing
VcIdle ==
    /\ setting = [enabled |-> FALSE, url |-> FALSE] /\ install = "editable" /\ version = 1
    /\ changes = 0 /\ released = [s \in Sources |-> 1] /\ tracked = released
    /\ store = NoCache /\ age = 0 /\ step = "idle" /\ result = NoAnswer /\ notice = Unsaid
    /\ last = NoLast /\ evidence = {}

ConfigIdle ==
    /\ cfg = EmptyTree /\ env = Environment /\ envVars = {} /\ envRead = <<>>
    /\ merged = <<>> /\ loading = "chosen" /\ view = "none"
PlaybooksIdle == present = {} /\ line = <<>> /\ friday = FALSE /\ debug = FALSE

Init ==
    \/ part = "filters" /\ KvInit /\ SpecIdle /\ VcIdle /\ ConfigIdle /\ PlaybooksIdle
    \/ part = "documents" /\ KvIdle /\ SpecInit /\ VcIdle /\ ConfigIdle /\ PlaybooksIdle
    \/ part = "version" /\ KvIdle /\ SpecIdle /\ VcInit /\ ConfigIdle /\ PlaybooksIdle
    \/ part = "configuration" /\ KvIdle /\ SpecIdle /\ VcIdle /\ ConfigInit /\ PlaybooksIdle
    \/ part = "playbooks" /\ KvIdle /\ SpecIdle /\ VcIdle /\ ConfigIdle /\ PlaybooksInit

Next ==
    \/ part = "filters" /\ KvNext /\ UNCHANGED <<part, specVars, vcVars, cfgVars, runVars>>
    \/ part = "documents" /\ SpecNext /\ UNCHANGED <<part, kvVars, vcVars, cfgVars, runVars>>
    \/ part = "version" /\ VcNext /\ UNCHANGED <<part, kvVars, specVars, cfgVars, runVars>>
    \/ part = "configuration" /\ ConfigNext /\ UNCHANGED <<part, kvVars, specVars, vcVars, runVars>>
    \/ part = "playbooks" /\ PlaybooksNext /\ UNCHANGED <<part, kvVars, specVars, vcVars, cfgVars>>

allVars == <<part, kvVars, specVars, vcVars, cfgVars, runVars>>
Spec == Init /\ [][Next]_allVars
=============================================================================
