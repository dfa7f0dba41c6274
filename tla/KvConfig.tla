------------------------------ MODULE KvConfig ------------------------------
(***************************************************************************)
(* Universal Configuration: the filters parse_kv_config and parse_kv_items *)
(* fold a list of entries, put together from role defaults and several     *)
(* levels of the inventory, into one item for each name and then put the   *)
(* items in order.                                                         *)
(*                                                                         *)
(* The state is the list that was read so far and what each filter has     *)
(* made of it.  Entries and items are records; a key that is not there is  *)
(* None.  "keys" stands for comments and the keys that DebOps does not     *)
(* know.  An item is an entry with a place in the source, "first"; its     *)
(* "id" is the position in the result, and casts of a value are left out.  *)
(* A filter that raises an error returns Refused.                          *)
(***************************************************************************)
EXTENDS Integers, SequencesExt

CONSTANTS
    None, Refused,
    Entries,     \* the entries that may be written
    MaxEntries,  \* bound: the length of a list
    Defaults,    \* argument of parse_kv_items: the default value of some keys
    Empty        \* argument of parse_kv_items: pairs of a key and the keys to fill it from

\* An entry has a name, and its weight is a number (the filters convert it, or fail).
KvAssumption ==
    /\ \A el \in Entries :
         /\ el.form \in {"mapping", "pair", "string"} /\ el.name # None
         /\ el.form = "mapping" => el.weight = None \/ el.weight \in Int
    /\ Empty \in Seq(STRING \X Seq(STRING))
ASSUME KvAssumption

VARIABLES
    read,    \* the entries so far
    config,  \* the items of parse_kv_config for them, before they are sorted
    items    \* the items of parse_kv_items

kvVars == <<read, config, items>>

Given(new, old) == IF new = None THEN old ELSE new
At(list, n) ==
    LET places == {k \in DOMAIN list : list[k].name = n}
    IN  IF places = {} THEN 0 ELSE CHOOSE k \in places : \A j \in places : k <= j
Known(list, n) == At(list, n) # 0
Put(list, item) == IF Known(list, item.name)
                   THEN ReplaceAt(list, At(list, item.name), item)
                   ELSE Append(list, item)

(***************************************************************************)
(* The order of the items.                                                 *)
(***************************************************************************)
Zone(item) == IF item.weight < 0 THEN 0 ELSE IF item.weight = 0 THEN 1 ELSE 2

\* list.sort and filters of a list: the items at some places, in an order that
\* is a set of pairs of places.  What it does not tell apart stays as it is.
Ordered(list, places, order) ==
    LET Above(j, i) == <<j, i>> \in order \/ (j <= i /\ <<i, j>> \notin order)
        Rank(i) == Cardinality({j \in places : Above(j, i)})
    IN  [k \in 1..Cardinality(places) |-> list[CHOOSE i \in places : Rank(i) = k]]
Picked(list, places) == Ordered(list, places, {})

Earlier(x, y) == x.first < y.first
HigherUp(x, y) == Zone(x) < Zone(y) \/ (Zone(x) = Zone(y) /\ Earlier(x, y))

Anchored(list) == {k \in DOMAIN list : list[k].anchor # None /\ Known(list, list[k].anchor)}
Unanchored(list) == DOMAIN list \ Anchored(list)
Zoned(list) ==
    LET free == Unanchored(list)
    IN  Ordered(list, free, {p \in free \X free : HigherUp(list[p[1]], list[p[2]])})
\* target_groups
GroupOf(list, target) ==
    LET group == {k \in Anchored(list) : list[k].anchor = target}
    IN  Ordered(list, group, {p \in group \X group : Earlier(list[p[1]], list[p[2]])})

\* how many items are above that at k in its chain of anchors, up to all of them
Hops(list, k) ==
    LET up[n \in 0..Len(list)] ==
            [i \in DOMAIN list |->
                IF n = 0 \/ i \notin Anchored(list) THEN 0
                ELSE 1 + up[n - 1][At(list, list[i].anchor)]]
    IN  up[Len(list)][k]

\* _detect_anchor_cycles: a chain that never leaves the anchored items
Cyclic(list) == \E k \in DOMAIN list : Hops(list, k) = Len(list)

\* a target is worked on after the one it is anchored to itself
TargetOrder(list) ==
    LET targets == {k \in DOMAIN list : \E i \in Anchored(list) : list[i].anchor = list[k].name}
    IN  Ordered(list, targets, {p \in targets \X targets : Hops(list, p[1]) < Hops(list, p[2])})
TargetGroups(list) ==
    LET targets == TargetOrder(list)
    IN  [k \in DOMAIN targets |->
            [target |-> targets[k].name, group |-> GroupOf(list, targets[k].name)]]

Lighter(group) == Picked(group, {k \in DOMAIN group : group[k].weight < 0})
Heavier(group) == Picked(group, {k \in DOMAIN group : group[k].weight >= 0})

\* Mutant of Place: a weight of 0 is forgotten.
PlaceStrict(result, bundle) ==
    LET p == At(result, bundle.target)
    IN  SubSeq(result, 1, p - 1) \o Lighter(bundle.group) \o <<result[p]>>
        \o Picked(bundle.group, {k \in DOMAIN bundle.group : bundle.group[k].weight > 0})
        \o SubSeq(result, p + 1, Len(result))

\* Mutant of Place: the position of the target is not looked up again after
\* the items before it were inserted.
PlaceStale(result, bundle) ==
    LET p == At(result, bundle.target)
        first == SubSeq(result, 1, p - 1) \o Lighter(bundle.group) \o SubSeq(result, p, Len(result))
    IN  SubSeq(first, 1, p) \o Heavier(bundle.group) \o SubSeq(first, p + 1, Len(first))

\* Mutant of Place: the items are inserted one by one right after their target.
PlaceReversed(result, bundle) ==
    LET p == At(result, bundle.target)
    IN  SubSeq(result, 1, p - 1) \o Lighter(bundle.group) \o <<result[p]>>
        \o Reverse(Heavier(bundle.group)) \o SubSeq(result, p + 1, Len(result))

Place(result, bundle) ==
    LET p == At(result, bundle.target)
    IN  SubSeq(result, 1, p - 1) \o Lighter(bundle.group) \o <<result[p]>>
        \o Heavier(bundle.group) \o SubSeq(result, p + 1, Len(result))

\* Mutant of SortItems: the items without an anchor are taken as they come.
SortItemsUnsorted(list) ==
    IF Cyclic(list) THEN Refused
    ELSE FoldLeft(Place, Picked(list, Unanchored(list)), TargetGroups(list))

SortItems(list) ==
    IF Cyclic(list) THEN Refused ELSE FoldLeft(Place, Zoned(list), TargetGroups(list))

(***************************************************************************)
(* The value of an item: nothing, null, one value, or a list that is kept  *)
(* as items of its own, one for each name ("many").                        *)
(***************************************************************************)
Element(list, el, index) ==
    LET Old(n) == IF Known(list, n) THEN list[At(list, n)]
                  ELSE [form |-> "mapping", name |-> n, first |-> index, state |-> "present",
                        weight |-> 0, anchor |-> None, alias |-> None, keys |-> <<>>]
        Merge(old) ==
            [old EXCEPT !.weight = Given(el.weight, @), !.state = Given(el.state, "present"),
                        !.anchor = Given(el.anchor, @), !.alias = Given(el.alias, @),
                        !.keys = el.keys @@ @]
    IN  IF el.form = "string" THEN Put(list, Old(el.name))
        ELSE IF el.state = "ignore" THEN list
        ELSE Put(list, Merge(Old(el.name)))

Value(old, new) ==
    LET list == FoldLeftDomain(LAMBDA l, i : Element(l, new.of[i], i - 1),
                               IF old # None /\ old.is = "many" THEN old.of ELSE <<>>, new.of)
    IN  IF new = None THEN old
        ELSE IF new.is \in {"null", "one"} THEN new
        ELSE IF list = <<>> THEN old
        ELSE [is |-> "many", of |-> list]

(***************************************************************************)
(* One entry.                                                              *)
(***************************************************************************)
Blank(n, index) ==
    [form |-> "mapping", name |-> n, first |-> index, state |-> "present", weight |-> 0,
     anchor |-> None, value |-> None, alias |-> None, options |-> None, keys |-> <<>>]
Current(list, n, index) == IF Known(list, n) THEN list[At(list, n)] ELSE Blank(n, index)

\* _check_if_key_in_nested_dict
HasValue(item) ==
    \/ item.value # None
    \/ item.options # None /\ \E o \in ToSet(item.options) : o.value # None

StateOf(item, el) ==
    LET s == IF el.state = "append" THEN item.state ELSE Given(el.state, item.state)
    IN  IF s = "init" /\ el.state # "init" /\ HasValue(item) THEN "present" ELSE s

AsMapping(el) ==
    IF el.form # "string" THEN el
    ELSE [form |-> "mapping", name |-> el.name, state |-> None, weight |-> None, anchor |-> None,
          value |-> None, alias |-> None, options |-> None, keys |-> <<>>]

Stored(list, item) == IF item.options = Refused THEN Refused ELSE Put(list, item)

\* what each filter passes over
SkippedConfig(list, el, index) ==
    \/ el.state = "ignore"
    \/ el.state = "append" /\ Current(list, el.name, index).state = "init"
\* Mutant of SkippedItem: the state of the item is not asked for.
SkippedItemUnused(list, el) ==
    el.state = "ignore" \/ (el.state = "append" /\ ~Known(list, el.name))
SkippedItem(list, el) ==
    \/ el.state = "ignore"
    \/ el.state = "append" /\ \/ ~Known(list, el.name)
                              \/ list[At(list, el.name)].state = "init"

\* one turn of the loop of parse_kv_config, with the options parsed
ConfigEntry(list, given, index, options) ==
    LET el == AsMapping(given)
        old == Current(list, el.name, index)
    IN  IF list = Refused THEN Refused
        ELSE IF el.form = "pair"
        THEN Put(list, [old EXCEPT !.state = "present", !.value = Value(@, el.value)])
        ELSE IF SkippedConfig(list, el, index) THEN list
        ELSE Stored(list,
                [old EXCEPT !.state = StateOf(old, el), !.weight = Given(el.weight, @),
                            !.anchor = Given(el.anchor, @), !.value = Value(@, el.value),
                            !.alias = Given(el.alias, @), !.keys = el.keys @@ @,
                            !.options = Given(options, @)])

\* a nested value or list of options is sorted on its own
Finished(list) ==
    LET sorted == SortItems(list)
        Done(item) == IF item.value = None \/ item.value.is # "many" THEN item
                      ELSE [item EXCEPT !.value.of = SortItems(@)]
        done == [k \in 1..Len(list) |-> Done(sorted[k])]
    IN  IF list = Refused \/ sorted = Refused THEN Refused
        ELSE IF \E k \in 1..Len(list) : done[k].value # None /\ done[k].value.is = "many"
                                        /\ done[k].value.of = Refused
        THEN Refused ELSE done

\* parse_kv_config; options of options are not written (bound: one level)
ParseOptions(list) ==
    Finished(FoldLeftDomain(LAMBDA l, i : ConfigEntry(l, list[i], i - 1, None), <<>>, list))
\* the options of an entry, parsed together with those the item has already
Options(list, given, index) ==
    LET el == AsMapping(given)
    IN  IF list = Refused \/ el.form = "pair" \/ el.options = None THEN None
        ELSE ParseOptions(Given(Current(list, el.name, index).options, <<>>) \o el.options)

ParseConfig(list) ==
    Finished(FoldLeftDomain(
        LAMBDA l, i : ConfigEntry(l, list[i], i - 1, Options(l, list[i], i - 1)),
        <<>>, list))

\* "empty": a key that is not there takes the value of the first that is
Fill(item, pair) ==
    LET Has(k) == k = "name" \/ k \in DOMAIN item.keys
        k == SelectInSeq(pair[2], Has)
    IN  IF Has(pair[1]) \/ k = 0 THEN item
        ELSE LET from == pair[2][k]
             IN  [item EXCEPT !.keys = @ @@ (pair[1] :> IF from = "name" THEN item.name ELSE @[from])]
Filled(item) == FoldLeft(Fill, item, Empty)

\* one turn of the loop of parse_kv_items, which takes a value as it is
ItemsEntry(list, given, index, options) ==
    LET el == AsMapping(given)
        old == Current(list, el.name, index)
    IN  IF list = Refused THEN Refused
        ELSE IF el.form = "pair" \/ SkippedItem(list, el) THEN list
        ELSE Stored(list, Filled(
                [old EXCEPT !.state = StateOf(old, el), !.weight = Given(el.weight, @),
                            !.anchor = Given(el.anchor, @), !.value = Given(el.value, @),
                            !.alias = Given(el.alias, @),
                            !.keys = el.keys @@ (@ @@ Defaults),
                            !.options = Given(options, @)]))

(***************************************************************************)
(* Lists are written one entry after another, and both filters may be      *)
(* asked at any point: what they return is Finished(config) and            *)
(* Finished(items).                                                        *)
(***************************************************************************)
KvInit == read = <<>> /\ config = <<>> /\ items = <<>>

Feed(el) ==
    /\ Len(read) < MaxEntries
    /\ read' = Append(read, el)
    /\ config' = ConfigEntry(config, el, Len(read), Options(config, el, Len(read)))
    /\ items' = ItemsEntry(items, el, Len(read), Options(items, el, Len(read)))

KvNext == \E el \in Entries : Feed(el)
KvSpec == KvInit /\ [][KvNext]_kvVars

-----------------------------------------------------------------------------
\* is x, through its anchor or that of its anchor, anchored to the item t: it is
\* in every set of names that has t and what is anchored to its own
Under(list, x, t) ==
    \A names \in SUBSET {i.name : i \in ToSet(list)} :
        /\ t.name \in names
        /\ \A k \in Anchored(list) : list[k].anchor \in names => list[k].name \in names
        => x.name \in names

\* Sorting neither loses nor repeats an item, or else is refused because some
\* item is anchored to itself in the end (_sort_parsed_items, which takes the
\* list apart into groups that each wait for their target).
EveryItemOnce ==
    \A list \in {config, items} : list # Refused =>
        LET sorted == SortItems(list)
        IN  \/ /\ sorted = Refused
               /\ \E k \in Anchored(list) : Under(list, list[At(list, list[k].anchor)], list[k])
            \/ Len(sorted) = Len(list) /\ ToSet(sorted) = ToSet(list)

\* An item is right before the one it is anchored to if its weight is
\* negative, and else right after it: between the two are only items that are
\* anchored to the same one, in the order of the source on each side.
BesideItsAnchor ==
    config # Refused =>
        LET sorted == SortItems(config)
        IN  sorted # Refused => \A i, j \in 1..Len(sorted) : sorted[i].anchor = sorted[j].name =>
                /\ i < j <=> sorted[i].weight < 0
                /\ \A k \in 1..Len(sorted) :
                       (i < k /\ k < j) \/ (j < k /\ k < i) => Under(config, sorted[k], sorted[j])
                /\ \A k \in 1..Len(sorted) :
                       /\ sorted[k].anchor = sorted[j].name
                       /\ sorted[k].weight < 0 <=> sorted[i].weight < 0
                       /\ sorted[k].first < sorted[i].first
                       => k < i

\* The items that are not anchored to one in the list are in the order of
\* their zones and of the source, whatever was put between them.
ZonesHold ==
    config # Refused =>
        LET sorted == SortItems(config)
            Free(i) == sorted[i].anchor = None \/ ~Known(config, sorted[i].anchor)
        IN  sorted # Refused => \A i, j \in 1..Len(sorted) :
                Free(i) /\ Free(j) /\ HigherUp(sorted[i], sorted[j]) => i < j

\* what an item says, apart from its place in the source
Said(item) ==
    [item EXCEPT !.first = 0,
                 !.options = IF @ = None THEN None
                             ELSE [k \in 1..Len(@) |-> [@[k] EXCEPT !.first = 0]],
                 !.value = IF @ = None \/ @.is # "many" THEN @
                           ELSE [@ EXCEPT !.of = [k \in 1..Len(@) |-> [@[k] EXCEPT !.first = 0]]]]

\* Parsing a result once more changes nothing: parse_kv_config is applied to
\* its own results whenever two lists of options are merged.
ParsedTwiceIsParsedOnce ==
    LET once == Finished(config)
        twice == ParseConfig(once)
    IN  once # Refused => /\ twice # Refused
                          /\ [k \in 1..Len(twice) |-> Said(twice[k])]
                               = [k \in 1..Len(once) |-> Said(once[k])]

\* what an item says and the other filter must say as well
Common(item) ==
    [name |-> item.name, state |-> item.state, weight |-> item.weight,
     anchor |-> item.anchor, alias |-> item.alias]

\* The two filters, one a copy of the other that was changed, make the same
\* items in the same order of entries that both accept: those that are not
\* pairs of a key and a value, do not append to an item that is not there and
\* have no empty list for a value.
TwinsAgree ==
    LET C == Finished(config)
        I == Finished(items)
        Accepted(k) ==
            /\ read[k].form # "pair"
            /\ read[k].form = "mapping" =>
                 /\ read[k].state = "append" =>
                      \E j \in 1..(k - 1) : /\ read[j].name = read[k].name
                                            /\ read[j].form = "mapping" => read[j].state # "ignore"
                 /\ read[k].value = None \/ read[k].value.is # "list"
                                         \/ read[k].value.of # <<>>
    IN  (\A k \in 1..Len(read) : Accepted(k)) =>
            IF C = Refused THEN I = Refused
            ELSE /\ I # Refused
                 /\ [k \in 1..Len(C) |-> Common(C[k])] = [k \in 1..Len(I) |-> Common(I[k])]

\* The sort of the filters, as a whole: no item is lost or doubled, one that is
\* anchored stays with its target, and the others keep their zones.
SortIsRight == EveryItemOnce /\ BesideItsAnchor /\ ZonesHold

\* The filters agree with themselves, when a result is parsed again, and with
\* each other, the changed copy with its original.
FiltersAgree == ParsedTwiceIsParsedOnce /\ TwinsAgree
=============================================================================
