# A TLA+ verification of DebOps

DebOps is a command line tool, `debops`, around a large collection of Ansible
roles, plugins and modules. The command keeps *project directories*: an Ansible
inventory per *view*, secrets that may be encrypted, a private Python
environment, and configuration. This directory holds TLA+ models of the parts of
DebOps that change state in an order that matters and of the algorithms they
rest on, the TLC configurations that check them on small instances, and proofs,
checked by TLAPS, that hold for every instance. Paths below are relative to the
repository; Python modules without a directory are in `src/debops/`, plugins in
`ansible/plugins/`.

- [Inventory of the system](#inventory-of-the-system)
- [Modules](#modules)
- the command: [Secrets](#secrets), [SpecApply](#specapply), [SpecRead](#specread),
  [Venv](#venv), [Views](#views), [Config](#config), [Playbooks](#playbooks),
  [VersionCheck](#versioncheck)
- the plugins: [LxcSsh](#lxcssh), [KvConfig](#kvconfig),
  [Divert, HostModules, Aliases, Overrides](#divert-hostmodules-aliases-overrides)
- [Runs and their bounds](#runs-and-their-bounds), [Fairness](#fairness),
  [Theorems](#theorems)
- [Where the code and its documentation part](#where-the-code-and-its-documentation-part)
- [What is not modelled](#what-is-not-modelled), [Plan](#plan)

## Inventory of the system

| component | state it keeps | operations | interacts with | hard parts | correct when |
|---|---|---|---|---|---|
| secrets (`ansible/inventory.py`, the runners) | EncFS mount on `secret/`, or git-crypt's filter; the FIFO `.encfs6.xml`; a dirty or clean git tree | `unlock`, `lock`, `execute` of three runners, `debops project lock`, `unlock` | hooks, git commits, encfs, gpg, fusermount, other debops commands, Ctrl-C | no lock between commands; exit codes; exceptions inside `try`/`finally` | open secrets always have somebody who will seal them; nobody seals what others opened; commands end |
| inventory specification, application (`inventoryspec.py`: `apply_spec`) | the files of an inventory | snapshot, skeleton, refusal of links, removals, emptied directories, writes; dry run | `refresh`, `init`, `mkview`, the user's files | order of the passes, partial work when killed, kept paths, links | what is protected is untouched; the result is what the document means; report and dry run tell the truth |
| inventory specification, reading (`parse_spec`, `render_spec`, `merge_specs`) | a cache of rendered texts | parse, render with `pipe()` and `include()`, merge | the command line, commands of the user | what runs before a document is refused; spellings of one path | what runs was permitted; later documents win, kept paths are left alone |
| virtual environment (`projectvenv.py`) | `.debops/venv`, `requirements.txt`, installed collections, `requirements.lock.yml` | install, upgrade, recreate, freeze | pip, ansible-galaxy, git, the user's edits | series of subprocesses that fail or are killed | what the files say is what is installed; a broken environment can be recovered |
| project directories (`projectdir.py`) | views on disk, `conf.d/view-*.yml`, `ansible.cfg`, `venv.yml`, encrypted volumes | init, mkview, refresh, venv enable, commit | gpg in the background, encfs, git, all of the above | half-made views, names that collide, files cut off | what a command reports as done is the whole of it, and of nothing else |
| configuration (`config.py`, `ansibleconfig.py`) | merged options and environment variables | merge of files, of environment files, choice of the view | every command | merging the same file twice, defaults and order | the last file wins, a file read twice is as good as once |
| playbook resolution (`ansibleplaybookrunner.py`, `projectrunner.py`) | none | arguments, search of playbooks and sets | collections on disk, Ansible | telling options from playbooks, search order | no argument is lost, the nearest playbook is run |
| version check (`versioncheck.py`) | a cached answer | check, notify | git, PyPI | stale or torn cache, upgrades in between | nothing is said that was not so, and nobody is asked twice in an interval |
| hooks (`hooks.py`) | none | `run_hooks` | every command | results looked at or not, timeout | a failing pre-hook stops the command |
| connection plugin (`connection/lxc_ssh.py`) | a process of ssh, its streams, a pipe for the password | `exec_command`, `put_file`, `fetch_file` | ssh, sudo, the container, Ansible | a loop that polls, reads and negotiates; retries; streams that stay open | output complete, failures seen, data and password to the right program |
| filters (`filter/debops_filter_plugins.py`, `filter/etc_aliases_parse_recipients.py`) | none | merge of lists of entries, sort by anchors and weights; recipients of aliases | inventories, role defaults | order of entries, references between them | one item for each name, in its place |
| lookups (`lookup/file_src.py`, `template_src.py`, `task_src.py`) | none | search for overridden files | the configuration of DebOps, with or without its Python module | two readers of the same files | both come to the same places |
| modules (`modules/dpkg_divert.py` and others) | the managed host | present, absent, check mode | dpkg-divert, a2enmod, btrfs, R, an LDAP server | several commands, one of which may fail; somebody else at work | done when it says so, harmless when it fails, silent the second time |
| scripts on hosts (`ansible/roles/*/files`) | pidfiles, queues, PKI directories | rsnapshot-scheduler, pki-realm, pki-authority | cron, systemd | races of pidfiles | one backup at a time, a realm is never without a certificate |
| roles and playbooks | none of DebOps' own | declarative | Ansible | | |

How they meet: a runner (`debops run`, `check`, `exec`, `env`) runs its pre-
hooks, unlocks the secrets, starts an external command, seals the secrets if it
opened them, and runs its post- hooks. `unlock()` and `lock()` commit the
working tree first when `project.git.auto_commit` is set. `refresh` snapshots
the inventory, makes the skeleton directories and applies the specification,
which was read before. `init` and `mkview` create the encrypted volume in which
the runners later find the secrets. The `venv` commands rewrite the two
requirements files from what is installed and commit. All of them work on the
same project directory and take no lock. On the other side, Ansible calls the
plugins: the connection plugin to reach a container, the lookups to find files
that a project overrides, the filters to build the templates, the modules on the
host.

The hazards this makes, each at its line, are in `PROJECT.json`, with the
properties that watch them.

## Modules

| module | what it is |
|---|---|
| `Secrets` | the runners, `project lock` and `project unlock`, for EncFS, git-crypt and plain projects, several at a time |
| `Vault` | what they promise: the abstract specification that `Secrets` implements |
| `SpecApply` | a specification applied to an inventory, one system call at a time |
| `SpecRead` | the documents of one command read, rendered and merged |
| `Venv` | `debops project venv install, upgrade, recreate, freeze` |
| `Views` | `init`, `mkview`, `refresh`, `venv enable`, with the creation of encrypted volumes |
| `Config` | environment and configuration files, their merge, the view, `config get` |
| `Playbooks` | the arguments of `run` and `check`, and where playbooks are found |
| `VersionCheck` | the check for a newer DebOps |
| `LxcSsh` | the connection plugin |
| `KvConfig` | the filters of Universal Configuration |
| `Divert` | the Ansible module `dpkg_divert` |
| `HostModules` | `apache2_module`, `btrfs_subvolume`, `cran` and `ldap_attrs` |
| `Aliases`, `Overrides` | the filter of mail aliases; the three lookups |
| `SecretsProofs`, `SpecApplyProofs`, `VenvProofs`, `ViewsProofs` | theorems about the module of that name |
| `PluginsProofs` | theorems about `LxcSsh` and `KvConfig`, the plugins with the most to go wrong |
| `AlgorithmsProofs` | theorems about `SpecRead`, `VersionCheck`, `Playbooks` and `Config` |
| `HostToolsProofs` | theorems about `HostModules`, `Overrides`, `Aliases` and `Divert` |
| `FoldProofs` | what proofs about loops need: induction on numbers, and the folds of the library unfolded for any body |
| `MCSecrets`, `MCSpecApply`, `MCVenv`, `MCViews`, `MCAlgorithms`, `MCHostTools` | small instances for TLC; the last two put several modules side by side and a constant part of the state, `part` or `tool`, says which of them runs |

A definition whose comment begins with `Mutant:` is not part of a model. It is
the next definition with a mistake somebody could make in that code; each
property is known to fail with the mistake in place of the definition, so no
property holds merely because the model cannot break it. `PROJECT.json` pairs
them.

## Secrets

A *process* of the module is a terminal that runs commands one after the
other. `opened` is the kernel's mount table or git's filter setting, `fifo` the
file `.encfs6.xml`, `dirty` the git tree, `strays` the playbooks that were
interrupted and have not ended; `unlocked` is the local variable of
`execute()`, `why` the exception on its way up, `locks` how many calls of
`lock()` are left (two in `debops env` after Ctrl-C: its handler and its
`finally` both call it). `keeper` is history: who answers for the secrets being
open; so is `late`: a stray has written since the last commit. A step is the code between two points where another command or Ctrl-C
can be observed, so a test and the action it guards (`os.path.exists` and
`os.mkfifo`, the commit and `git-crypt lock`) are separate steps.

| action | code |
|---|---|
| `PreHook`, `PostHook` | `run_hooks` as called by `execute`, `lock` and `unlock` of `projectdir.py` |
| `Check` | `ismount` / `_git_crypt_locked` at the head of `unlock()` |
| `UnlockCommit`, `LockCommit` | the auto-commit in `unlock()` and `lock()` |
| `FifoCheck`, `MkFifo`, `Mount`, `Unstick`, `RmFifo` | the EncFS branch of `unlock()` |
| `Decrypt` | the git-crypt branch |
| `Assign` | `unlocked = self.inventory.unlock()` |
| `Ansible`, `Finally`, `Seal` | the external command, the `finally` block, the body of `lock()` |
| `Interrupt` | Ctrl-C at any of these; at `Ansible` the child may go on, as a stray |
| `Write`, `StrayEnds` | external: what the playbook, interrupted or not, does to the tree, and its end |
| `Edit`, `Clean` | the user: changes the tree; removes a stale `.encfs6.xml` |

`OpenIsAccountedFor` says that open secrets belong to the user (`project
unlock`), to a running command that still knows it has to seal them, or to a
mishap that is named: an interrupt, a failing tool, a refused lock.
`OnlyOpenersSeal` is the other half: a runner which found the secrets open
leaves them open. `ImplementsVault` puts both into three abstract actions,
`Open`, `Seal` and `Abandon`: a command ends without sealing what it opened only
by a mishap. `CommandSeesSecrets` and `OnlyStraysSpoilTheLock` are for one terminal
with git-crypt and automatic commits; with two terminals neither holds, because
the first runner to end seals under the second. Ctrl-C reaches the runner and
ansible-playbook at the same time, and `communicate()` waits a quarter of a second
for the child and no longer: `finally` may commit and lock while it still writes,
and git-crypt then refuses. `OnlyStraysSpoilTheLock` says that this is the only way
to a dirty tree at the lock. `CommandsEnd` makes one
exception, and it is real: `stuck`, an `open()` on a FIFO that nobody reads.

What is abstracted: the contents of secrets and files; which hook script
failed; a view is one project (two views of a git-crypt project share the
repository's key and lock, two views with EncFS have a mount each and are
independent). The external command may write to the tree at any time until it has
ended, but does not itself lock or unlock. A git commit is one step; two at a time collide on
`index.lock`.

## SpecApply

Paths are the elements of a constant set, and `Above` gives the directories
above each. The node at a path is absent, a directory, a symbolic link to a
file or to a directory, or a file: the user's (`old`), truncated and not yet
written (`torn`), or written (`new`). A document maps paths to `null`, `null`
under a name that ends in a slash, an empty directory, or text; `keep` is the
set of paths its patterns match. `Begin` takes the snapshot
(`existing_paths`), `SkelDir` makes the skeleton (`createdirs`), `Check` refuses
links and, with `--dry-run`, ends; `RemoveEntry`, `EmptyEntry`, `WriteEntry`
are the three passes of `apply_spec`, entry by entry in sorted order, `Clear`
and `RemoveCleared` / `EmptyCleared` one `os.remove` or `os.rmdir` of
`_clear_directory`, and `WriteText` the write after `open('w')` has truncated
the file. `Kill` may come between any two. `DryRun` is the pass over the same
code with `dry_run` set, as an operator.

`MeansWhatItSays` compares the passes with `Meaning`, a definition without
order, and is the reference the algorithm is checked against. `ReportsAreTrue`
holds the report and the dry run against what happened. `PreExistingUntouched`
(without `--force`) and `KeptUntouched` (always) are the two protections the
documentation promises, at every step and so also when the command is killed.
`ForcedRerunConverges`: killed anywhere and run again with `--force`, the command
ends with what its first run would have made. Without `--force` that is not so:
a file cut off while it was written counts as the user's own in the second run,
and is skipped.

Bounds: four paths, `gv`, `gv/own`, `gv/all`, `gv/all/key`, are the smallest
tree with a directory in a directory, a file beside it and a file below it;
documents of one or two entries are enough for a removal and a write, or two
overlapping directories, to meet; one kept path. Not modelled: changes by the
user while the command runs, file permissions, and paths that resolve to one
another through environment variables.

## SpecRead

What happens before `SpecApply` has anything to do: its actions `Read`, `Add`, `Merge` and `Resolve` go
through the documents of one command as `_load_specs` does, each checked against
the policy of the project, its paths and texts rendered (`RenderText`), which
may run commands (`Call`, with its cache, one answer for a command within a
document), then `merge_specs` and the refusal of documents that contradict
themselves. `CommandsAreControlled`: what runs was permitted by the policy, and
the same command has one answer. `AcceptedMeansSaid`: if the whole is accepted,
each file is what the last document to speak of it says, and what one document
keeps all of them leave alone.

A path is one of the ways in which it can be written (plain, with `./`, with an
environment variable, as a template, outside); `include()` and `pipe()` in paths
and wildcards in kept paths are left out. Worth knowing: the refusal of
contradictions compares spellings, so `./a` and `a` together pass it; and the
commands of an earlier document have run when a later document is refused, and
they run with `--dry-run` as well.

## Venv

The environment is absent, a directory without `bin/python` (`bare`), one that
has it but no pip (`hollow`, what `python -m venv` leaves when it is killed at
the wrong moment), or `ready`. `inst` and `req` give the version of each
package installed and listed, `coll`, `creq` and `lock` those of the
collections, and `haslock` whether there is a lock file; `None` is "not there", `Any`
"without a version". A lock file that a killed freeze has emptied (`Torn`) is there:
`install_collections` asks only whether it exists, and ansible-galaxy refuses it, so
that nothing is installed from either file until a freeze writes it anew. A command moves
along the steps of `install`, `upgrade`, `recreate` or `freeze` and ends when a
subprocess fails (`tool`), something is missing (`missing`), it is killed, or it
is done. pip and ansible-galaxy are external and modelled by what the code
relies on: they satisfy a pin exactly, leave an unpinned package that is
installed alone, install some version otherwise, and may stop half way.

`Reproduces` and `LockReproduced` say that the files are reproduced, from
whatever state failed and killed commands have left; `RecreateStartsOver` that no
broken environment stops `recreate` and nothing of it is left; `FilesDescribe`
that after a command that succeeds the committed files say what is installed;
`OnlyManagedMove` that `upgrade` touches only the packages that are both in the
seed and in the file, even when it breaks off. Each spans a command of several
steps that starts from the wreckage of others.

Assumptions: packages do not depend on each other; collections come from
Galaxy (entries with another source are copied, not pinned); the user edits the
requirements between commands; `requirements.yml` exists.

## Views

The whole of `init`, `mkview`, `refresh`, `venv enable` and the commit after
them, each a path through steps that are one file, one directory tree or one
process: `Skel`, `Root`, `Inventory`, `Keys`, `Keyfile`, `Volume`, `Encrypt`,
`Appears` (the wait for the file that gpg writes in the background), `Project`,
`VenvYml`, `Templates`, `Cfg`, `Git`, `GitCrypt` for the first two; `RefreshView`
for each configured view; `AppendIgnore`, `EnableReqs`, `Unignore`, `Rewrite`,
`Rewritten` for `venv enable`. `Killed` may come at each of them and leaves the
file being written cut off (`torn`), and gpg running. `RemoveView` and
`RemoveTorn` are the user clearing up, without which a failed `mkview` is refused
for ever (`os.makedirs`). A project is modern or legacy; a view may be inside
another (`Above`, `Parent`).

`SuccessMeansWhole`: what init and mkview report as done is done, directories,
settings, `ansible.cfg` and sealed secrets, and a refresh that succeeds has
repaired every view. `OthersUntouched`: mkview leaves the other views alone,
although the file of a view is named after it with `/` replaced, so that `a/b`
and `a-b` have the same one. `EnableHolds`: after `venv enable` every view takes
its collections from the project and `requirements.yml` has an entry for DebOps,
and no file of `conf.d` changes hands or is switched back. `CommandsEnd`, unless
gpg fails whose file is waited for.

Worth knowing: mkview of a nested view makes the directories above it, and a
later mkview of the parent is refused for that. A `venv.yml` that was cut off is
never repaired by `venv enable`. To a `requirements.yml` that was cut off it
appends the entry without the key `collections` that it belongs under: neither
`ansible-galaxy` nor `_collection_requirements()` reads the result
(`"headless"`), and a second `venv enable` finds the entry there and leaves it.
`EnableHolds` says that only such a file ends up like that. A refresh makes an `ansible.cfg` that is
missing or torn, but `venv enable` writes it only for the views that it switches
itself: views that an earlier, killed command had switched, or a refresh vetoed
by a hook, keep an `ansible.cfg` for the other way of finding collections,
against the docstring (`projectdir.py:1483`). The listing of the inventory, what
the list and info commands print, and a failing `fusermount` are left out.

## Config

`Config` models environment files, directories of configuration files, `merge()`
of one mapping into another (lists are concatenated, a map into a map is merged,
all else replaced), the choice of the view from the current directory and
`config get`. The code recurses through dictionaries of dictionaries; the model has
what is at each path, so that a merge is told one path at a time (`MergeDict`): what
the new tree has comes there, and what was below a path stays unless something that is
no map comes to it (`Replaced`). Texts are sequences of pieces, so that the expansion of
variables is what it does and no more. `FilesHaveTheirSay` is about each step: the last
file that gives a leaf decides it, and a variable is expanded with what it was
before, if the file names it once, after the variables it refers to. `ReadAsMerged`: a directory read again adds to lists and changes nothing
else, no view is taken for another whose directory is configured, and what is
there is found.

Worth knowing: each file is merged when it is read, and lists double with every
reading (`config.py:88`); `conf.d` is read twice by some commands. A scalar
between two lists makes the merge of a directory differ from that of its files
one by one. `config get a.b` through a text ends in a `TypeError`. The view is
chosen by a common prefix of strings, so that from `webshop`, which is not
configured, `web` may be taken.

## Playbooks

The arguments of `run` and `check` are told apart by the lists of flags in
`projectrunner.py`, playbooks are searched in the directory, the project and the
collections, sets are expanded, the Friday turns into `--check` (`ReadOnly`), and debug adds
`-vv` (`Verbose`). Files may
appear between two commands. `ArgumentsKept`: every argument reaches
ansible-playbook once and in order, as it was given or as its set says (what it
`Becomes` depends on the argument before it and on nothing else); what is taken
for a playbook is no value of an option; and a read-only Friday is read-only. A set
may be empty, and then nothing is left of it. `OnlyItself`: a playbook that
appears changes only what its own name means.

The options are those that the lists know. Beyond them: `--limit=x site`, `-lx
site` and `-bK site.yml` take the playbook for something else; a cluster like
`-DC` is not seen as check mode; sets have to be lists.

## VersionCheck

`Begin`, `FromCache`, `Ask`, `AskInVain`, `Open`, `Write`, `CannotSave` are the
check of one command, with releases, upgrades and other ways of installing in
between, `Hour` and `Killed`. `SaidWasSo`: what the user is told was so when it
was found, of the installation it is about. `AskedOncePerInterval`: nobody is
asked again while a result is in the cache that was good and young enough.
`evidence` is history: what was found out, and when. One command runs at a time.

Worth knowing: a failure is not cached, so without a network every command asks
again; the notice is repeated until the interval is over, also after the upgrade
it asks for; all branches share one entry of the cache; `git_repo_url` is used
by one of the ways only.

## LxcSsh

One operation of the connection plugin at a time: `SetOptions` with its three
probes, then `ExecCommand`, `PutFile` (an empty file is a `touch`) or `FetchFile`.
Each goes through `Popen`, the loop of `_bare_run` (`Poll`, `Turn`, `Timeout`,
`Wait`), `Collect` and, when it raised, `Retry`. Beside it ssh, sudo and the command
take their steps when they like (`Escalation`, `Work`, `Exit`): the connection may be
lost at any moment, ssh, sshpass and the command each end with codes of their own, and a background process of ControlPersist may keep stderr
open for ever. Output is a sequence of lines of which only the kind matters; the
last one may not be ended.

`NothingLost`: what is returned is all that was written, although the process is
polled before its streams are read. `ResultIsTrue` has three parts:
`FailuresRetried`, what can be told to be a failure of ssh (255, or 6 under sshpass
when host keys are checked, `HostKey`) is never returned as the result of the
command, and none is raised before the last retry; `SuccessHasRun`, what returned a
success has run; `PutMeansPut`, the file is there after a put that returned one,
unless the shell on the other side could not write it. `NothingMisread`: the password
is written when a program asks for it and the data when the command will read it.
`DoneIsNotRepeated`: a command that has run to its end is run again only if it ended
as a failure of ssh does. `EndsOrRuns`: an operation ends or waits for a process that
runs.

What ends as a failure of ssh does need not be one. A remote command that itself
ends with 255, with 6 under sshpass with checked host keys, or with an error and the
words of an old ssh about ControlPersist (`OldSsh`), is run again; and the codes 1 to
5 of sshpass, of which 5 is a wrong password, or its 6 when host keys are not
checked, are returned as results like the command's own. `_bare_run` begins in the
state that the play asks for and not the operation (1057): in a play that escalates
with a prompt, puts, touches, fetches and probes wait for one that never comes until
time runs out, and are tried again. `put_file` does not look at its return code.

Worth knowing: the command behind a `put` is a pipeline that hides the failure of
`cat`; a `touch` does not empty a file that is there; the second go after a broken
ControlPersist uses the closed pipe of sshpass, fails and is counted as a try; a
command may be run twice when ssh ends with 255 after it; a wrong password for
the escalation is tried again. `Output` tells the kinds of a sequence of lines, as
a recursive function, because a proof can unfold that and not `SelectSeq`. The options of ssh and `reset()` are left out. The
copy of the plugin in `plugins/connection_plugins/` differs in a few lines that are not
modelled, the copy of the filters in
`roles/ansible_plugins/filter_plugins/` is the same file.

## KvConfig

`parse_kv_config` and `parse_kv_items` fold a list of entries, put together from
several levels of the inventory, into one item for each name; then the items are
sorted: by weight, or beside the item they are anchored to
(`anchor_to`), before or after it by the sign of the weight. The state
is the list read so far and the result of both filters, so each property is
checked of every list of up to three of the entries in `MCAlgorithms`.
`SortIsRight`: every item once, beside its anchor if it has one, and in the order
of weights otherwise; only a list with a circle of anchors is refused. `Under` says that
an item hangs on another, however long the chain: it is in every set of names that has
the other and what is anchored to a member. `FiltersAgree`: parsing a result again changes nothing, and
the filters, two copies of the same code in parts, agree on what both do.

Worth knowing: `append` creates an entry though the comment (about line 330) says
it does not; `empty` with a plain text iterates over its characters
(`docs/ansible/ansible_plugins/getting-started.rst`) and does not skip None; a key
that was filled goes stale when its source changes; an item in state `init` to
which a value is added stays `init`; an element of a nested list without a state
becomes `present` again; an empty list as value is ignored.

## Divert, HostModules, Aliases, Overrides

`Divert` is the module `dpkg_divert`, its commands one after the other, dpkg-divert
itself external, in a strict version and the lenient one that the documentation of
the module speaks of. Each of its commands and renames may fail for reasons of its own
(`DivertFails`, `DivertMoveFails`, `DivertAddFails`, `DivertRestoreFails`;
`result.mishap` is history and says which). Another holder or target of a diversion
takes three commands, undone when the last one fails. `FailureIsHarmless`: no file is
lost but one the task deletes, and a task that failed left diversion and files as they
were, with these exceptions of `FailedMeansRestored`. `os.rename()` (382) is not
guarded: when it raises, as when the new directory is missing, the old diversion is
gone and nothing gives it back. When the undoing fails (391, 403) there is no
diversion either, and the answer does not say `changed`. And when the diverted file was
missing while another was in the place of the original, that one ends up at the
old target. `SuccessIsDone`: the diversion
is the one asked for, the second run finds nothing to do, and check mode had said
so.

`HostModules` has four modules in one state machine: look at the host, decide, run
the commands, answer; a command may fail, somebody else may meddle in between,
and the task is run a second time. `HostPromises` says of all four that success
means that the host is as asked, the second run changes nothing, check mode tells
what would be done, a failure without meddling leaves what was, and that
subvolumes are made from the top down. Left out of it, since the code does not do
it: check mode of `apache2_module` is inverted (line 145), `cran` takes a query
that fails for an absent package and has no check mode, `btrfs_subvolume` keeps
what it had made when it fails, `ldap_attrs` keeps order only with `exact`. A query
that fails ends `apache2_module` with an error in check mode (`ApacheBlind`), which
says that nothing changed; a value that is not in a list gets no number from
`ordered` (`todo.bare`). The promises are for runs that nobody and nothing disturbs
(`Clean`): nothing in the code protects from another client between the look and the
change.

`Aliases` reads elements that name, add and delete recipients of an alias.
`MailArrives` is three things: no alias sends its mail to itself (`NoMailLoop`), each
has the recipients that it was told to have (`RecipientsAsTold`) and is in the state
that it was told (`StateAsTold`). What an alias was told (`Told`) is defined from the
elements alone. The exceptions are in the definitions: when an alias was told its own
name, the escape replaces that name in the middle of other addresses too
(line 47), which makes other addresses of them; an alias that was without recipients
once is commented out and stays so when it gets some (145), until its state is given
again; a deletion may miss an escaped recipient (`DeletesOwn`); and the keys of an
ignored entry with a real name become aliases (`Misread`). Comments, sections and
sorting are left out.

`Overrides` is what `file_src`, `template_src` and `task_src` find, with the Python
module of DebOps and without. `OverridesFound`: both ways come to the same places,
an override comes before the role's own file, and the project before the global
configuration. The two ways differ where the project itself or a file beside it gives
the option, or the lookup is not run in the project (`OnlyGlobal` leaves these out), and
in which file of one directory they take: without the module the first that gives the
option, with it the last. An odd file, with `override_paths` that are no mapping or a
directory that is no text, raises an exception that nobody expects
(`LookupCrashes`). Not modelled: variables in paths, which only the module
expands, and an option that is there but empty, which `split(':')` turns into the
project's own directory with the module, and which counts as absent without.

## Runs and their bounds

| run | checks | on | distinct states |
|---|---|---|---|
| `SecretsTwo` | `OpenIsAccountedFor`, `OnlyOpenersSeal`, `ImplementsVault`, `CommandsEnd` | two terminals, every method, everything that can go wrong | 129 thousand |
| `SecretsSolo` | `CommandSeesSecrets`, `OnlyStraysSpoilTheLock` | one terminal, git-crypt, automatic commits, interrupts, playbooks that outlive them | 1258 |
| `SpecOnce` | `PreExistingUntouched`, `MeansWhatItSays`, `ReportsAreTrue`, `KeptUntouched` | all trees of five kinds of nodes over four paths, all documents of one or two entries | 2 million |
| `SpecAgain` | `ForcedRerunConverges` | two runs with `--force`, trees without links, dry runs in between | 1.2 million |
| `SpecLinks` | `LinksUntouched`, violated | trees with links | stops at the first |
| `VenvCommands` | `Reproduces`, `OnlyManagedMove`, `LockReproduced`, `FilesDescribe`, `RecreateStartsOver` | any series of commands on two packages and a collection | 1.5 million |
| `ViewsMake` | `SuccessMeansWhole`, `OthersUntouched`, `CommandsEnd` | three views, two of them with one file, both encryptions, gpg that fails | 1.1 million |
| `ViewsEnable` | `EnableHolds` | all commands on two views, one inside the other | 793 thousand |
| `LxcSsh` | `NothingLost`, `ResultIsTrue`, `NothingMisread`, `DoneIsNotRepeated`, `EndsOrRuns` | every operation, with and without password and escalation, host keys checked or not, one retry | 403 thousand |
| `Algorithms` | `SortIsRight`, `FiltersAgree` (`KvConfig`); `CommandsAreControlled`, `AcceptedMeansSaid` (`SpecRead`); `SaidWasSo`, `AskedOncePerInterval` (`VersionCheck`); `ReadAsMerged`, `FilesHaveTheirSay` (`Config`); `ArgumentsKept`, `OnlyItself` (`Playbooks`) | the five modules side by side, one of them at work | 719 thousand |
| `HostTools` | `FailureIsHarmless`, `SuccessIsDone` (`Divert`); `HostPromises`; `MailArrives`; `OverridesFound` | four modules side by side, one of them at work | 647 thousand |
| `DivertDelete` | `DeletedMeansRemoved`, violated | `Divert` | stops at the first |

The bounds, and why they are enough:

- `Secrets`: two terminals, since every race is between a check and an action of
  two commands. There the `Editor` changes the tree at any moment, which is all that
  a playbook that outlives its interrupt could do (`Outliving` is FALSE); with one
  terminal nobody edits and playbooks do outlive it. The theorems are for every
  setting of both.
- `SpecApply`: `MaxRuns` 1, and 2 for what is run again; the tree is described
  above.
- `Venv`: one package with external build dependencies and one without, one
  collection, two versions: pinned and not, installed in this version or the other.
- `Views`: a view that is made by init, two whose names collide, and in the other
  run one inside another.
- `LxcSsh`: `Retries` 1, so that a first, a second and no further try occur, each
  with the second go of ControlPersist.
- `KvConfig`: `MaxEntries` 3, so that an item, its anchor and a change of either
  meet. `SpecRead`: `MaxSources` 2. `Config`: two directories (`Directories` 2) of up
  to two files (`FilesIn` 2), three readings (`Readings` 3), so that one can be repeated
  after another. `Playbooks`: `MaxArguments` 4, `MaxPlaybooks` 3, two collections.
- `VersionCheck`: `Interval` 2, so that a result is fresh, older and too old;
  `Newest` 2 and `MaxChanges` 2 bound releases and upgrades.
- `Aliases`: `MaxRead` 3 elements. `Divert` and `HostModules` have no bound but
  their tasks, which are run twice.

Deadlock is checked in every run but `Algorithms`, `HostTools` and `DivertDelete`,
whose computations end. The last command of `SpecApply` stutters in `Stop`, as
the program has then ended.

## Fairness

- `Secrets!FairSpec`: weak fairness of the steps of each command. Hooks are killed
  after 300 seconds (`hooks.py`), a step of Python code ends, and encfs, gpg, git
  and Ansible are assumed to end. Nothing is assumed of starting a command,
  Ctrl-C or the user.
- `Views!FairSpec`: weak fairness of `Step`, the interpreter; and gpg, once
  started, opens its file and ends, or fails. A command is not killed out of
  fairness, and nobody has to clear up.
- `LxcSsh!FairSpec`: weak fairness of the plugin (`Program`) alone. Nothing is
  assumed of ssh, sudo or the command: that is why `EndsOrRuns` ends with a process
  that may run for ever, and why the timeouts matter.

## Theorems

Assumptions on constants are named in the modules: `SecretsAssumption`,
`PathsAssumption` and `DocumentsAssumption`, `OptionsAssumption` and
`PoliciesAssumption`, `VenvAssumption`, `ViewsAssumption`, `LxcSshAssumption`,
`IntervalAssumption`, `SettingsAssumption`, `KvAssumption`, `ReleasesAssumption`,
`PlaybooksAssumption`, `ConfigAssumption`, `HostAssumption`, `AliasAssumption`, `OverrideAssumption`. Nothing else is
assumed, except by `Access` and `Unspoilt`, which are about one terminal and say so.

`SecretsProofs`, for any set of terminals and any setting of the options:

- `Typing`, `Inductive`: `IInv` is `TypeOK`, `OpenIsAccountedFor`,
  `NothingToUnlock` (without encryption nothing is opened) and `AllEntitled` (who
  is about to seal may do so). The last two are what makes the accounting
  inductive: that `Seal` is reached only with `unlocked` set, or from `project
  lock`. The proof splits a step into what process `p` has to show for itself
  (`Settled`) and that it leaves the accounts of the others alone (`Apart`);
  `OthersUnmoved` puts the two together, and there is one lemma for each way
  control can move.
- `Accounting`, `OpenersSeal`: `[]OpenIsAccountedFor` and `OnlyOpenersSeal`.
- `Refinement`: `Spec => ImplementsVault`. Only `Mount`, `Decrypt`, `Seal` and the
  steps that leave a command change the abstract variables, and the accounting
  invariant gives the abstract guard of each.
- `Access`: `[]CommandSeesSecrets` where there is one terminal, the secrets are
  encrypted, and no tool fails behind the back of an EncFS project. Each of these
  is needed: with two terminals the first to end seals the secrets under the
  second, a plain project has nothing to open, and `encfs` that fails is not noticed.
  `Opening` says that a command past the hook that opens the secrets has opened them
  or found them open, and that only an EncFS project is at the steps of EncFS.
- `Unspoilt`: `[]OnlyStraysSpoilTheLock` for one terminal with auto-commit on and nobody
  editing by hand, for every method and every failure. It is inductive: the
  commit is the step before the lock, and between the two only a stray can write
  (`SpoilingStep`).

`SpecApplyProofs`, for any finite or infinite set of paths that is closed under
"is in", any documents, and any number of runs:

- `Inductive`, `Tree`, `Protection`: the inventory stays a tree (nothing is left
  below a path that was removed or became a file), and without `--force`
  nothing that was in the snapshot changes. To be inductive this needs that no
  symbolic link is on the way to an entry once `Check` has passed
  (`NoLinkOnTheWay`) and that the entry being cleared or written is one that may
  be touched (`InHand`).
- `Keeping`: `KeptUntouched`, from the same step lemmas.

The second half of `SpecApplyProofs` is about the outcome of a command that has
gone through all of its passes:

- `Passing`: what a document says is said of all entries at once, and the code
  brings it about one entry at a time, in four passes that each undo a part of
  what the one before could have left. So the invariant needs the meaning of a
  *part* of the entries: `Faithful` says that the inventory, once the skeleton is
  made, is the skeleton with the entries handled so far (`Partial`), except below the
  one in hand, and that the report is what a dry run says of these entries. There is one lemma for each action, and at the end of the
  last pass the part is the whole (`WholeMeaning`).
- `Meant` (`[]MeansWhatItSays`), `Reporting` (`[]ReportsAreTrue`; `WholeReport`: what is
  listed as changed is what the entries handled have changed).
- `Rerunning` (`[]ForcedRerunConverges`): `Converging` compares the inventory
  of the first command with that of a later one, killed or not: they differ only in
  what the entries make or remove anyway (`Agrees`), and the links in the way of the
  skeleton are the same. `SameMeaning` shows that the document means the same of both.

`AlgorithmsProofs`, on `SpecRead`, for any number of documents, whatever is written in
them, and any policy:

- `Reads`: `UnderPolicy` says that a document in hand was permitted; `ReadSoFar`
  that each document that was read says what its source says, and the one in hand
  so far; `CallsSoFar` and `Cached` that each call was permitted, is made once, and that
  the cache has the calls of this document and of no other (an output in a
  text is only ever read from there); `MergedSoFar` what the refusals of
  `merge_specs` and `resolve_paths` let through.
- `Controlled` (`[]CommandsAreControlled`) needs the first four.
- `AcceptedAsSaid` (`[]AcceptedMeansSaid`): the merge is a fold over all the files in
  a row. `Merging` proves by induction on their number what it makes of them (a
  file for each path, the last one of its path, no path twice), `Flattening` that
  files come in the order of their documents, and `MergedFilesAre` puts the two
  together. `LastIsRight` and `KeptIsLeft` then have to tell spellings from what
  they mean: two documents may write one path in two ways, and it is the refusal
  of `Resolve` that rules out what the merge did not see.

`VenvProofs`, for any packages, collections and versions:

- `Inductive`: the promises speak of a command that has ended, so none of them
  is inductive. `Course` says which steps belong to which command; `FileInv` that
  the requirements are as the command found them until pip has read them, or the
  seed; and for each promise one invariant says how far the command has got with
  it: from the step that establishes it (`Pip`, `RmVenv`, `FromLock`, `Write`) it
  holds at every later one.
- `Typing`, `Reproduction`, `Recreation`, `Restraint`, `Locking`, `Description`:
  each property of `VenvCommands` follows from its invariant.

`ViewsProofs`, for any views, whatever their names have in common, and any files
that they have in `conf.d`:

- `Inductive`: again the promises are about commands that have ended. `Course`
  gives the steps of each command and `Ahead` the views that refresh and `venv
  enable` have still to go through; `WholeInv`, `SealedInv`, `ConfiguredInv`,
  `RefreshInv` and `EnableInv` follow one promise each from the step that makes it
  true. `AheadStep` needs that no other command runs: views are neither added nor
  removed while the loop goes through them.
- `Typing`; `Whole` (`SuccessMeansWhole`); `Untouched`: a `mkview` writes only a
  file that holds no settings, since `Project` is refused for one that does;
  `EnablingHolds` (`EnableHolds`), with the one case in which `requirements.yml` cannot
  be read afterwards: a kill had emptied it.

`PluginsProofs`, on `LxcSsh`, for any number of retries, any output and any timing:

- `Inductive`: `Places` says where the process is in each part of the code, `Talk`
  that while the escalation is negotiated nothing was read that could be taken
  for an answer, that a success is still to be read if there was one, and that no
  data was sent; `Escalated`, `Result` and `Runs` follow what was done and what ssh
  said of it. The heart of it is `TurnFacts`, one iteration of the loop, which
  rests on `SeenFacts`: what is seen is what was said since, so that a success is
  seen exactly if sudo has granted.
- `Typing`, `Truth` (`ResultIsTrue`), `Reading` (`NothingMisread`), `OnceDone`
  (`DoneIsNotRepeated`), with the exceptions that are named in these properties, see
  [LxcSsh](#lxcssh).
- `Completeness` (`[]NothingLost`): `Accounted` says of each stream that what was
  written is what was kept followed by what is not read to its end (`tmp`) and by what is
  still in the pipe (of these, while the escalation is negotiated, only what counts as
  output), that a stream with something in its pipe is watched, and that all was kept
  once the process is given up. What counts as output of a sequence of lines is a recursive function; that it
  distributes over concatenation (`OutputAppend`) is proved by induction.

`PluginsProofs`, on `KvConfig`, for any entries and lists of any length:

- `Sorting` (`[]SortIsRight`). `KvInv` says that both lists have one item for each name,
  with a number for its weight and a place in the source. Then the sort is followed
  from one target to the next. A row is known by what comes before what (`Comes`), so
  that `OrderedRow` can say of every sort, and `PlaceIs` of a group that is put beside its
  target, which pairs of items they order. `SortedSoFar` is what holds after the groups
  of the first k targets: who is in the result, that the zones stand, and that each
  anchored item is beside its anchor with only what hangs on that in between
  (`StaysBeside`, `ComesBeside`). It needs that a target is in the result when its turn
  comes, which is so because targets are ordered by the length of their chain
  (`HopsAre`): the code's branch for a target that is not found
  (`debops_filter_plugins.py:182`) is never taken. When the list is refused there is a
  circle, since a chain with as many anchors as there are items goes through one of them
  twice (`CyclicIs`).

`AlgorithmsProofs`, on `VersionCheck`, for any interval, any number of releases and
upgrades:

- `VcInductive`: what is in the cache, or about to be saved, has its evidence,
  which is never older than the cache says.
- `Saying` (`SaidWasSo`), `Asking` (`AskedOncePerInterval`).

`AlgorithmsProofs`, on `Playbooks`, for any collections, in any number of directories,
in any order in the view:

- `Appearing` (`OnlyItself`). A name is looked for in three tries, each of which goes
  through a row of places and takes the first that has it (`FirstFoundIs`).
  `FirstChanges` says how the first of a row changes when one more is there: not at
  all, or to the new one. `KnownDirs` is the exception the property makes: a
  collection is taken from the first directory that has *any* of its playbooks, so
  that a playbook which appears in an earlier directory hides all of a later one.
- `ArgumentsArrive` (`[]ArgumentsKept`). The parser keeps a set of the arguments that
  are done, because an option takes the next one along. `ParseStep` says of every
  argument that the command so far is what the arguments become, one after the other,
  and that the set is of these arguments and the next one if an option took it
  (`DoneAt`). It needs that an option is in one of the lists only, and that no playbook
  set is called like an option. `CommandIs` and `PlaybooksTaken` follow.

`AlgorithmsProofs`, on `Config`, for any files, of any depth and in any number, any
environment and any paths:

- `ReadOut` (`[]ReadAsMerged`). `CfgInv` says that the configuration is a tree and that
  it has what the last directory said: leaves, lists and maps where the directory has
  them (`Absorbed`). A merge keeps both (`MergeIs`), and so does a change of the
  environment, which has no part in where they are (`FilesAlike`); a tree that has
  absorbed another has only its lists grow when that comes again (`MergedAgain`).
  `WalkStep` follows `config get` key by key.
- `HaveTheirSay` (`FilesHaveTheirSay`). `LoadSays` goes through the files of a directory:
  until one touches the path the result is silent of it (`SilentMerge`), a leaf comes
  with the file that gives it (`LeafComes`) and stays while the others do not touch it
  (`LeafStays`). `OwnOnce` goes through the lines of a file of variables: what a variable
  was before its line is what it was before the file (`RowKeeps`), what it refers to is
  not assigned any more (`OtherStays`), and so its length is that of its own value and of
  all the rest (`FlatWithout`).

`HostToolsProofs`, on `HostModules`, for any finite tree of subvolumes and any values of
the attributes:

- `HostsAsPromised` (`[]HostPromises`). `HostInv` says for every module what it has
  found out and what it has done when it is over (`SoFar`), and what a first run
  leaves for the second (`EarlierRun`). For `btrfs_subvolume` this needs that the
  tree stays one and that the commands still to come are a walk down, or up, from where
  it is (`WalksAreCourses`, `BtrfsCommandStep`); for `ldap_attrs`, that what the server
  makes of a list of modifications amounts to the task (`ModifiedHolds`), by induction
  on the list, and that the plan for an attribute that is as wanted is empty
  (`PlanTells`).

`HostToolsProofs`, on `Overrides`, for any configuration: any number of directories and
files, of directories in an option, and of terms:

- `FoundWhereSaid` (`[]OverridesFound`). `OverrideInv` says that the places are what the
  option says (`PlacesSaid`), with nothing behind them but the role's, however many
  terms were looked for, and that each answer is the first place that had it.
  `ConfiguredIs` and `FallbackIs` say what the two ways to read an option come to: the
  module takes the last file of all the directories in a row, from the least specific
  on (`LastOfFlat`, by induction on their number), the plugin the first one of the
  first directory, from the most specific on (`FirstOfIs`).

`HostToolsProofs`, on `Aliases`, for any texts, any relation "is in" between texts and
names that has each name in itself, any elements, and any number of them:

- `MailDelivered` (`[]MailArrives`). `AliasInv` says that a recipient with a backslash
  has the name of the alias in it and none is the alias as it stands (`Safe`), which
  survives whatever is added (`AddedAre`), replaced and deleted (`DeletedAre`), and that
  the texts of the recipients and the state are those that were told, but for the named
  exceptions. What was told is a fold over the
  elements; `ToldMore` takes it one element further, and `ElementIs` shows that the
  filter does the same to every alias.

`HostToolsProofs`, on `Divert`, which has no constants, so that TLC goes through the
same states; the invariant says *why* a task may be repeated:

- `DivertHarmless` (`[]FailureIsHarmless`), `DivertDone` (`[]SuccessIsDone`). `DivertInv`
  says that no content of a file is lost but that of the one to be deleted, what each
  step of `main()` has left of the diversion and the files that were there when it
  started (`Underway`), the answer that is due (`WellOver`), and what the second run
  finds (`Followed`). One lemma for each step; the one that matters is `RestoreStep`:
  what was moved for a new diversion that dpkg-divert then refused comes back
  (`MovedThereAndBack`). A rename or an undoing that breaks off is an answer of its own
  (`result.mishap`), and what it leaves is said, not denied.

Induction over data: the theorems of the library about induction take an operator
as a parameter, which the provers cannot instantiate. `EveryNumber` says the same of a
*set* of numbers and is proved from the well-foundedness of the natural numbers; with
it recursive functions and the folds of the community modules can be unfolded.
`FoldProofs` does so for any body of a loop and any value it starts with;
`AlgorithmsProofs`, `HostToolsProofs` and `PluginsProofs` instantiate it, once for each
loop.

Only model-checked:

- the liveness properties, which are beyond the prover;
- `FiltersAgree` (`KvConfig`): that a result parsed again is the same compares two
  runs of the filter, one inside the other for options of options, on entries with
  lists in them; and that the copies agree holds of lists in values whose own anchors
  make no circle, since only `parse_kv_config` sorts those;

## Where the code and its documentation part

Two have a run in which TLC shows a shortest behaviour:

- `SpecLinks`: links inside a directory are refused "when a directory is removed
  or cleared" (`docs/user-guide/inventory-spec.rst:138`), but `dir: null` without the
  trailing slash removes them (`inventoryspec.py:672`).
- `DivertDelete`: the file is deleted before dpkg-divert refuses to remove the
  diversion (`modules/dpkg_divert.py:259`): the task fails and the file is gone,
  though the removal "only happens if the diversion matches the I(divert) and
  I(package) values" (line 60) and delete is for "the file in place of the original
  before reverting" (96-98): nothing is reverted here.

The others were met while modelling; the models follow the code.

- `lock`, `unlock` and `commit` in `projectdir.py` (1655 and others) ignore the
  result of `run_hooks`; "a non-zero exit code from any script aborts the
  operation" (`docs/user-guide/hooks.rst:108`).
- Post- hooks of runners run "after the secrets have been re-locked"
  (`hooks.rst:120`); not when they had been unlocked by hand
  (`ansibleplaybookrunner.py:326`).
- When encfs or gpg fails the playbook is run all the same, without secrets
  (`ansible/inventory.py:314`).
- `refresh --dry-run` makes the missing skeleton directories (`projectdir.py:1619`);
  "print what would happen, write nothing" (`inventory-spec.rst:358`).
- "Packages removed from it are not brought back" (`projectvenv.py:442`), but the
  freeze at the end of `upgrade` lists every installed package again (538).
- Packages the user added "stay at their pinned versions"
  (`debops-project.rst:527`), but a pin not installed yet is overwritten by the
  freeze (`projectvenv.py:468`).
- `ansible.cfg` is "regenerated" by `venv enable` (`projectdir.py:1483`): not for
  views that a command killed before had switched, see [Views](#views).
- Paths with `..` are said to be rejected, only those that leave the inventory
  are.
- Direct changes to `ansible.cfg` are said to be lost; it is read before it is
  written, and they stay.
- An alias whose state is "not specified or `present`" is said to be defined
  (`docs/ansible/roles/etc_aliases/defaults-detailed.rst:64`); one that had no
  recipients when it was first named stays "comment" when it gets some
  (`etc_aliases_parse_recipients.py:119`, 145), and the template comments it out.
- "1-254 = remote command return code" (`lxc_ssh.py:455`): 1 to 5 may be those of
  sshpass, and 6 is taken for its failure.
- Relative paths of overrides are taken from the directory of `ANSIBLE_CONFIG`, not
  from where ansible-playbook was started.

## What is not modelled

- The command line (`subcommands.py`, `cli.py`): declarations for argparse and
  dispatch. The handlers that lead to something modelled are mapped with it.
- Files' contents where no property is about them: the layout of `ansible.cfg`,
  templates of new projects, output formats.
- Filters and lookups that convert one value by a library call: `globmatch`,
  `split`, `toml`, `dig_srv`, `lists`.
- The scripts of managed hosts, rsnapshot-scheduler, pki-realm and pki-authority
  among them: programs of their own, mostly in shell. The pidfile race of
  rsnapshot-scheduler is listed as a hazard without a property. The script of
  `debops-bind-rollkey` cannot get past its first command.
- Roles and playbooks: declarations for Ansible, without a state machine of their
  own.
- Two commands of `Views`, `Venv` or `SpecApply` at a time on one project: the code
  takes no lock, and nothing it promises holds then.

## Plan

1. Done: the command, from configuration to secrets, and the plugins, with the
   theorems above.
2. Done: the theorems about the outcome of an applied specification, about the
   output of the connection, about documents that are read, about one terminal, about
   the search for playbooks, the modules for hosts and the lookups.
   Left: `FiltersAgree`, for entries without lists in them first.
3. `RsnapshotScheduler`: pidfiles and queues of several schedulers, with the race
   as its first property; then `pki-realm`, killed between its files.
4. `Views` and `Secrets` composed: a view that is created while another is open.
