------------------------------ MODULE Aliases ------------------------------
(***************************************************************************)
(* The filter of /etc/aliases: elements of the role's lists are read one   *)
(* after another, each may name, add and delete recipients of an alias, and *)
(* a recipient that is the alias itself gets a backslash, so that mail does *)
(* not go round.                                                           *)
(*                                                                         *)
(* A recipient is the text that was told and the backslashes put into it,  *)
(* each before the name of the alias wherever it is in the text.  With one, *)
(* the name itself stands for the user of that name, which no alias is      *)
(* looked up for, and any other text is another address.  Comments,         *)
(* sections and real names are carried along and left out.                 *)
(***************************************************************************)
EXTENDS Integers, SequencesExt

CONSTANTS
    Text,      \* what a name or a recipient may be
    Elements,  \* what the lists may contain, see ReadElement
    HasIn,     \* the pairs of a text and an alias whose name is in it
    MaxRead    \* bound: the elements read

\* An element is an entry with a name, or gives each of its keys the recipients
\* of that alias.  In a list of lists each is of a parameter of its own, and a
\* parameter that is not there is Given.
Given == <<>>
EntryNames == {e.name : e \in {x \in Elements : x.form = "entry"}}
KeyNames == UNION {DOMAIN e.keys : e \in {x \in Elements : x.form = "keys"}}
AliasNames == EntryNames \union KeyNames \union {"name", "state", "real_name", "to"}

\* A name is in itself.
ASSUME AliasAssumption ==
    /\ \A e \in Elements :
          \/ e.form = "keys" /\ \A k \in DOMAIN e.keys : e.keys[k] \in Seq(Text)
          \/ /\ e.form = "entry" /\ e.name \in Text /\ e.real \in BOOLEAN
             /\ e.to \in Seq(Seq(Text)) /\ e.add \in Seq(Seq(Text)) /\ e.del \in Seq(Seq(Text))
    /\ {"ignore", "somebody"} \subseteq Text
    /\ \A a \in AliasNames : <<a, a>> \in HasIn

VARIABLES
    parsed,    \* the aliases so far
    read       \* the elements read

aliasVars == <<parsed, read>>
AliasInit == parsed = <<>> /\ read = <<>>

Plain(text) == [of |-> text, slashes |-> 0]
Plains(texts) == [i \in DOMAIN texts |-> Plain(texts[i])]

\* Mutant of MangleRecipients: only a recipient that was there before counts.
MangleRecipientsFirst(name, recipients) ==
    IF recipients # <<>> /\ recipients[1] = Plain(name)
    THEN [i \in DOMAIN recipients |->
            IF <<recipients[i].of, name>> \in HasIn
            THEN [recipients[i] EXCEPT !.slashes = @ + 1] ELSE recipients[i]]
    ELSE recipients
\* When the alias itself is among the recipients, it is changed wherever its
\* name is found, in the other recipients as well.
MangleRecipients(name, recipients) ==
    IF \E i \in DOMAIN recipients : recipients[i] = Plain(name)
    THEN [i \in DOMAIN recipients |->
            IF <<recipients[i].of, name>> \in HasIn
            THEN [recipients[i] EXCEPT !.slashes = @ + 1] ELSE recipients[i]]
    ELSE recipients

\* dest, to: the last one that is given
UpdateRecipients(name, recipients, to) ==
    IF to = <<>> THEN recipients ELSE MangleRecipients(name, Plains(Last(to)))
\* add_dest, add_to, cc, bcc: one after another
AddMore(recipients, more) == MangleRecipients(more.name, recipients \o Plains(more.texts))
AddRecipients(name, recipients, add) ==
    FoldLeft(AddMore, recipients, [i \in DOMAIN add |-> [name |-> name, texts |-> add[i]]])
\* del_dest, del_to
Without(q, gone) == FlattenSeq([i \in DOMAIN q |-> IF q[i] \in gone THEN <<>> ELSE <<q[i]>>])
DelRecipients(recipients, del) ==
    Without(recipients, UNION {Range(Plains(del[i])) : i \in DOMAIN del})

\* An entry that is ignored is read as an element that gives recipients to its
\* keys, once it has one that the filter does not expect there.
NoAlias == [state |-> "present", weight |-> 0, recipients |-> <<>>]
Was(aliases, name) == IF name \in DOMAIN aliases THEN aliases[name] ELSE NoAlias
Or(value, default) == IF value = Given THEN default ELSE value[1]
Ignored(e) == e.state = <<"ignore">>
Commented(alias) == IF alias.recipients = <<>> THEN [alias EXCEPT !.state = "comment"] ELSE alias

ReadEntry(aliases, e) ==
    LET was == Was(aliases, e.name)
        updated == UpdateRecipients(e.name, was.recipients, e.to)
        added == AddRecipients(e.name, updated, e.add)
    IN  [state |-> Or(e.state, was.state), weight |-> Or(e.weight, was.weight),
         recipients |-> DelRecipients(added, e.del)]
ReadKeys(aliases, keys) ==
    [k \in DOMAIN keys |->
        Commented([state |-> "present", weight |-> Was(aliases, k).weight,
                   recipients |-> MangleRecipients(k, Plains(keys[k]))])]
Named(aliases, e) == [a \in {e.name} |-> Commented(ReadEntry(aliases, e))]
Over(new, old) ==
    [a \in DOMAIN new \union DOMAIN old |-> IF a \in DOMAIN new THEN new[a] ELSE old[a]]
\* (such an entry here has no other recipients than "to")
Unexpected(e) ==
    Over([name |-> <<e.name>>, state |-> <<"ignore">>, real_name |-> <<"somebody">>],
         IF e.to = <<>> THEN <<>> ELSE [to |-> Last(e.to)])

\* Mutant of ReadElement: "ignore" is a state like any other.
ReadElementAnyhow(aliases, e) ==
    IF e.form = "keys" THEN Over(ReadKeys(aliases, e.keys), aliases)
    ELSE Over(Named(aliases, e), aliases)
ReadElement(aliases, e) ==
    IF e.form = "keys" THEN Over(ReadKeys(aliases, e.keys), aliases)
    ELSE IF ~Ignored(e) THEN Over(Named(aliases, e), aliases)
    ELSE IF e.real THEN Over(ReadKeys(aliases, Unexpected(e)), aliases)
    ELSE aliases

AliasNext ==
    /\ Len(read) < MaxRead
    /\ \E e \in Elements : parsed' = ReadElement(parsed, e) /\ read' = Append(read, e)
AliasSpec == AliasInit /\ [][AliasNext]_aliasVars

-----------------------------------------------------------------------------
\* No alias is a recipient of its own as it stands: mail to it would go round
\* until the server gives up.  Additions, replacements and deletions of several
\* elements come together here.
NoMailLoop == \A a \in DOMAIN parsed : Plain(a) \notin Range(parsed[a].recipients)

\* What an alias was told by one element after another: its recipients in their
\* order, its state, whether it has been without recipients since its state was
\* given, and whether it was told its own name since its recipients were given.
\* An element that is not ignored replaces recipients, adds to them, and deletes
\* from them.
Texts(recipients) == [i \in DOMAIN recipients |-> recipients[i].of]
About(e, a) == IF e.form = "keys" THEN a \in DOMAIN e.keys ELSE e.name = a /\ ~Ignored(e)
Deleted(e) == UNION {Range(e.del[i]) : i \in DOMAIN e.del}
TellTexts(known, e, a) ==
    IF e.form = "keys" THEN e.keys[a]
    ELSE Without((IF e.to = <<>> THEN known ELSE Last(e.to)) \o FlattenSeq(e.add), Deleted(e))
TellState(known, e) == IF e.form = "keys" THEN "present" ELSE Or(e.state, known)
GivesState(e) == e.form = "keys" \/ e.state # Given
Replaces(e) == e.form = "keys" \/ e.to # <<>>
TellsOwn(e, a) ==
    IF e.form = "keys" THEN a \in Range(e.keys[a])
    ELSE \/ (e.to # <<>> /\ a \in Range(Last(e.to)))
         \/ \E i \in DOMAIN e.add : a \in Range(e.add[i])
Tell(known, told) ==
    LET e == told.by
        texts == TellTexts(known.texts, e, told.of)
    IN  IF ~About(e, told.of) THEN known
        ELSE [texts |-> texts, state |-> TellState(known.state, e),
              bare |-> texts = <<>> \/ (known.bare /\ ~GivesState(e)),
              itself |-> TellsOwn(e, told.of) \/ (known.itself /\ ~Replaces(e))]
ToldNone == [texts |-> <<>>, state |-> "present", bare |-> FALSE, itself |-> FALSE]
ToldBy(elements, a) == FoldLeft(Tell, ToldNone, [i \in DOMAIN elements |-> [of |-> a, by |-> elements[i]]])
Told(a) == ToldBy(read, a)
DeletesOwn(a) ==
    \E i \in DOMAIN read : LET e == read[i] IN
        e.form = "entry" /\ e.name = a /\ \E t \in Deleted(e) : <<t, a>> \in HasIn
Misread(a) == \E i \in DOMAIN read : read[i].form = "entry" /\ read[i].real /\ a \in DOMAIN Unexpected(read[i])
AsMeant(a) == ~DeletesOwn(a) /\ ~Misread(a)

\* An alias has the recipients it was told to have, each as often and in the
\* order as told, and elements of other aliases and ignored ones make no
\* difference.  Each is the address that was told, with one exception: when the
\* alias was told its own name, that and the other recipients with the name in
\* them get backslashes, which makes other addresses of those.  Left out: a deletion
\* of a recipient with the name of the alias in it may miss it, and ignored
\* entries with a real name make aliases of their keys.
RecipientsAsTold ==
    \A a \in DOMAIN parsed :
        AsMeant(a) =>
            LET recipients == parsed[a].recipients
            IN  /\ Texts(recipients) = Told(a).texts
                /\ \A i \in DOMAIN recipients :
                      recipients[i].slashes # 0 =>
                          <<recipients[i].of, a>> \in HasIn /\ Told(a).itself

\* The alias is in the state it was told last, with one exception: once it was
\* without recipients it is commented out, and stays so when recipients are
\* added later, until its state is given again.
StateAsTold ==
    \A a \in DOMAIN parsed :
        AsMeant(a) =>
            \/ parsed[a].state = Told(a).state
            \/ parsed[a].state = "comment" /\ Told(a).bare

\* Mail to an alias goes where it was told to and does not come back, whatever
\* elements it is put together of, but for the exceptions named above: another
\* recipient with the name of an alias that was told itself in it, an alias that
\* once had no recipients, and the two ways in which an element is not read as
\* it is meant.
MailArrives == NoMailLoop /\ RecipientsAsTold /\ StateAsTold
=============================================================================
