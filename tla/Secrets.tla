------------------------------ MODULE Secrets ------------------------------
(***************************************************************************)
(* The life of a project's encrypted secrets under the debops commands     *)
(* that touch them: the runners (`debops run`, `check`, `exec`, `env`),    *)
(* which open the secrets around an external command and seal them again,  *)
(* and `debops project unlock` and `lock`, which open and seal them by     *)
(* hand.  Several commands may be active at once: DebOps takes no lock.    *)
(*                                                                         *)
(* One process is one terminal from which commands are started one after   *)
(* the other.  A step is a stretch of the Python code between two points   *)
(* where another command, the user or an interrupt can be observed.        *)
(***************************************************************************)
EXTENDS Naturals

CONSTANTS
    Procs,          \* terminals from which debops commands are started
    Methods,        \* how the secrets may be encrypted, if they are
    AutoCommit,     \* project.git.auto_commit
    Interrupts,     \* the user may press Ctrl-C
    ToolFailures,   \* encfs, gpg and fusermount may fail
    Editor,         \* the working tree may change outside of debops
    Outliving       \* an interrupted playbook may run on

Mishaps == {"busy", "interrupted", "lock failed", "raised"}
Outcomes == Mishaps \union {"none"}

ASSUME SecretsAssumption ==
    /\ Methods \subseteq {"encfs", "git-crypt", "none"}
    /\ AutoCommit \in BOOLEAN
    /\ Interrupts \in BOOLEAN
    /\ ToolFailures \in BOOLEAN
    /\ Editor \in BOOLEAN
    /\ Outliving \in BOOLEAN
    /\ Procs \intersect (Outcomes \union {"user", "nobody"}) = {}

VARIABLES
    method,   \* how this project encrypts its secrets
    opened,   \* the secrets are readable: EncFS mounted, git-crypt unlocked
    fifo,     \* the file .encfs6.xml beside the encrypted directory
    dirty,    \* the git working tree has uncommitted changes
    strays,   \* whose interrupted playbook, or command, still runs
    late,     \* (history) such a stray has written since the last commit
    keeper,   \* (history) who answers for the secrets being open
    pc,       \* where each process is
    cmd,      \* the command it executes
    unlocked, \* the local variable of the same name in execute()
    locks,    \* lock() calls the command still has to make
    why       \* the exception under way, or a failure the code swallowed

tree == <<dirty, strays, late>>
vault == <<method, opened, fifo, tree>>
session == <<cmd, unlocked, locks, why>>
vars == <<method, opened, fifo, dirty, strays, late, keeper, pc, cmd, unlocked, locks, why>>

Runners == {"run", "env"}   \* "run" stands for run, check and exec
Commands == Runners \union {"lock", "unlock"}

UnlockSteps == {"check", "ucommit", "fifocheck", "mkfifo", "mount", "stuck",
                "rmfifo", "decrypt", "assign"}
LockSteps == {"lcommit", "seal"}
Labels == UnlockSteps \union LockSteps
              \union {"idle", "prehook", "ansible", "finally", "post"}

Init ==
    /\ method \in Methods
    /\ opened = FALSE
    /\ fifo \in {"absent", "file"}
    /\ dirty \in BOOLEAN
    /\ strays = {}
    /\ late = FALSE
    /\ keeper = "nobody"
    /\ pc = [p \in Procs |-> "idle"]
    /\ cmd = [p \in Procs |-> "run"]
    /\ unlocked = [p \in Procs |-> FALSE]
    /\ locks = [p \in Procs |-> 0]
    /\ why = [p \in Procs |-> "none"]

-----------------------------------------------------------------------------
(* Control flow shared by the commands.                                    *)

Goto(p, label) == pc' = [pc EXCEPT ![p] = label]

\* The command ends; what it left open is now its outcome's fault.
Leave(p, outcome, holder) ==
    /\ Goto(p, "idle")
    /\ keeper' = IF holder = p THEN outcome ELSE holder
    /\ unlocked' = [unlocked EXCEPT ![p] = FALSE]
    /\ locks' = [locks EXCEPT ![p] = 0]
    /\ why' = [why EXCEPT ![p] = "none"]
    /\ UNCHANGED cmd

\* unlock() or the external command raises: a runner enters `finally`,
\* `debops project unlock` ends.
Raise(p, reason) ==
    \/ /\ cmd[p] \in Runners
       /\ Goto(p, "finally")
       /\ why' = [why EXCEPT ![p] = reason]
       /\ UNCHANGED <<keeper, cmd, unlocked, locks>>
    \/ cmd[p] \notin Runners /\ Leave(p, reason, keeper)

\* unlock() returns; `project unlock` ignores what it returns.
UnlockReturns(p, result) ==
    /\ Goto(p, IF cmd[p] \in Runners THEN "ansible" ELSE "post")
    /\ unlocked' = [unlocked EXCEPT ![p] = result]
    /\ UNCHANGED <<keeper, cmd, locks, why>>

Sound(reason) == reason \in {"none", "busy"}   \* no exception is under way

\* Mutant: the handler of Ctrl-C locks again and again.
LockReturnsAgain(p, reason, holder) ==
    /\ Goto(p, "lcommit")
    /\ keeper' = holder
    /\ UNCHANGED <<cmd, unlocked, locks, why>>

\* lock() returns ("none", or "busy" when fusermount failed unnoticed) or
\* raises: a further lock() is made, the post- hook runs, or the command ends.
LockReturns(p, reason, holder) ==
    LET outcome == IF reason = "none" THEN why[p] ELSE reason
    IN  \/ /\ locks[p] = 2
           /\ Goto(p, "lcommit")
           /\ locks' = [locks EXCEPT ![p] = 1]
           /\ keeper' = holder
           /\ UNCHANGED <<cmd, unlocked, why>>
        \/ /\ locks[p] # 2 /\ Sound(why[p]) /\ Sound(reason)
           /\ Goto(p, "post")
           /\ locks' = [locks EXCEPT ![p] = 0]
           /\ why' = [why EXCEPT ![p] = outcome]
           /\ keeper' = holder
           /\ UNCHANGED <<cmd, unlocked>>
        \/ /\ locks[p] # 2 /\ ~(Sound(why[p]) /\ Sound(reason))
           /\ Leave(p, outcome, holder)

-----------------------------------------------------------------------------
(* The commands, step by step.                                             *)

Start(p, c) ==
    /\ pc[p] = "idle"
    /\ Goto(p, "prehook")
    /\ cmd' = [cmd EXCEPT ![p] = c]
    /\ UNCHANGED <<vault, keeper, unlocked, locks, why>>

\* pre-run, pre-check, pre-exec and pre-env stop the command; the results
\* of pre-lock and pre-unlock are not looked at.
PreHook(p) ==
    /\ pc[p] = "prehook"
    /\ UNCHANGED vault
    /\  \/ /\ Goto(p, IF cmd[p] = "lock" THEN "lcommit" ELSE "check")
           /\ locks' = [locks EXCEPT ![p] = IF cmd[p] = "lock" THEN 1 ELSE 0]
           /\ UNCHANGED <<keeper, cmd, unlocked, why>>
        \/ cmd[p] \in Runners /\ Leave(p, "none", keeper)

\* unlock(): the secrets may be open already, or not encrypted at all.
Check(p) ==
    /\ pc[p] = "check"
    /\ UNCHANGED vault
    /\ \/ method # "none" /\ opened /\ UnlockReturns(p, FALSE)
       \/ /\ method # "none" /\ ~opened
          /\ Goto(p, "ucommit")
          /\ UNCHANGED <<keeper, session>>
       \/ method = "none" /\ (UnlockReturns(p, FALSE) \/ Raise(p, "raised"))

CommitSteps == {"ucommit", "lcommit"}

\* ProjectDir.commit(): everything in the tree is committed.  Two commits at
\* a time collide on git's index.lock and one of them raises.
Commits ==
    /\ dirty' = (dirty /\ ~AutoCommit)
    /\ late' = (late /\ ~AutoCommit)
    /\ UNCHANGED strays
Collides(p) == AutoCommit /\ \E q \in Procs \ {p} : pc[q] \in CommitSteps

UnlockCommit(p) ==
    /\ pc[p] = "ucommit"
    /\ UNCHANGED <<method, opened, fifo>>
    /\ \/ /\ Commits
          /\ Goto(p, IF method = "encfs" THEN "fifocheck" ELSE "decrypt")
          /\ UNCHANGED <<keeper, session>>
       \/ Collides(p) /\ Raise(p, "raised") /\ UNCHANGED tree

\* if not os.path.exists(configfile): os.mkfifo() elif not S_ISFIFO: raise
FifoCheck(p) ==
    /\ pc[p] = "fifocheck"
    /\ UNCHANGED vault
    /\ \/ fifo = "absent" /\ Goto(p, "mkfifo") /\ UNCHANGED <<keeper, session>>
       \/ fifo = "fifo" /\ Goto(p, "mount") /\ UNCHANGED <<keeper, session>>
       \/ fifo = "file" /\ Raise(p, "raised")

MkFifo(p) ==
    /\ pc[p] = "mkfifo"
    /\ UNCHANGED <<method, opened, tree>>
    /\ \/ /\ fifo = "absent"
          /\ fifo' = "fifo"
          /\ Goto(p, "mount")
          /\ UNCHANGED <<keeper, session>>
       \/ fifo # "absent" /\ Raise(p, "raised") /\ UNCHANGED fifo

\* Whoever turns the secrets from sealed to open answers for them.
Opener(p) == IF opened THEN keeper ELSE IF cmd[p] = "unlock" THEN "user" ELSE p

\* encfs mounts while gpg feeds it the configuration.  Exit codes are not
\* looked at; a second mount on the same directory changes nothing.  open()
\* makes a regular file when the FIFO is gone, and waits for ever when encfs
\* ended before reading it, unless another encfs reads it.
Mount(p) ==
    /\ pc[p] = "mount"
    /\ fifo' = IF fifo = "absent" THEN "file" ELSE fifo
    /\ UNCHANGED <<method, tree, session>>
    /\ \/ opened' = TRUE /\ keeper' = Opener(p) /\ Goto(p, "rmfifo")
       \/ ToolFailures /\ Goto(p, "rmfifo") /\ UNCHANGED <<opened, keeper>>
       \/ /\ ToolFailures /\ fifo = "fifo"
          /\ Goto(p, "stuck") /\ UNCHANGED <<opened, keeper>>

Unstick(p) ==
    /\ pc[p] = "stuck"
    /\ \E q \in Procs \ {p} : pc[q] = "mount"
    /\ Goto(p, "rmfifo")
    /\ UNCHANGED <<vault, keeper, session>>

RmFifo(p) ==
    /\ pc[p] = "rmfifo"
    /\ UNCHANGED <<method, opened, tree>>
    /\ \/ /\ fifo # "absent"
          /\ fifo' = "absent"
          /\ Goto(p, "assign")
          /\ UNCHANGED <<keeper, session>>
       \/ fifo = "absent" /\ Raise(p, "raised") /\ UNCHANGED fifo

\* Mutant: the exit code of git-crypt is not looked at.
DecryptAnyway(p) ==
    /\ pc[p] = "decrypt"
    /\ opened' \in {opened, ~dirty}
    /\ keeper' = IF opened' THEN Opener(p) ELSE keeper
    /\ Goto(p, "assign")
    /\ UNCHANGED <<method, fifo, tree, session>>

\* git-crypt unlock refuses to work on a dirty tree, or without the key.
Decrypt(p) ==
    /\ pc[p] = "decrypt"
    /\ UNCHANGED <<method, fifo, tree>>
    /\ \/ /\ ~dirty
          /\ opened' = TRUE
          /\ keeper' = Opener(p)
          /\ Goto(p, "assign")
          /\ UNCHANGED session
       \/ (dirty \/ ToolFailures) /\ Raise(p, "raised") /\ UNCHANGED opened

\* Mutant: unlock() returns False although it opened the secrets.
AssignFalse(p) ==
    /\ pc[p] = "assign"
    /\ UNCHANGED vault
    /\ UnlockReturns(p, FALSE)

\* unlocked = self.inventory.unlock()
Assign(p) ==
    /\ pc[p] = "assign"
    /\ UNCHANGED vault
    /\ UnlockReturns(p, TRUE)

\* The playbook or command ends.
Ansible(p) ==
    /\ pc[p] = "ansible"
    /\ Goto(p, "finally")
    /\ UNCHANGED <<vault, keeper, session>>

\* `debops env` has caught Ctrl-C with the secrets open.
InHandler(p) == cmd[p] = "env" /\ why[p] = "interrupted" /\ unlocked[p]

\* Mutant: `finally` locks whether the command unlocked or not.
FinallyAlways(p) ==
    /\ pc[p] = "finally"
    /\ UNCHANGED vault
    /\ locks' = [locks EXCEPT ![p] = 1]
    /\ Goto(p, "lcommit")
    /\ UNCHANGED <<keeper, cmd, unlocked, why>>

\* `debops env` locks on Ctrl-C in its handler and once more in `finally`.
Finally(p) ==
    /\ pc[p] = "finally"
    /\ UNCHANGED vault
    /\ \/ /\ unlocked[p]
          /\ locks' = [locks EXCEPT ![p] = IF InHandler(p) THEN 2 ELSE 1]
          /\ Goto(p, "lcommit")
          /\ UNCHANGED <<keeper, cmd, unlocked, why>>
       \/ /\ ~unlocked[p] /\ why[p] = "none"
          /\ Goto(p, "post")
          /\ UNCHANGED <<keeper, session>>
       \/ ~unlocked[p] /\ why[p] # "none" /\ Leave(p, why[p], keeper)

\* Mutant: lock() does not commit what the playbook wrote.
LockWithoutCommit(p) ==
    /\ pc[p] = "lcommit"
    /\ Goto(p, "seal")
    /\ UNCHANGED <<vault, keeper, session>>

LockCommit(p) ==
    /\ pc[p] = "lcommit"
    /\ UNCHANGED <<method, opened, fifo>>
    /\ \/ /\ method # "none"
          /\ Commits
          /\ Goto(p, "seal")
          /\ UNCHANGED <<keeper, session>>
       \/ /\ method # "none" /\ Collides(p)
          /\ LockReturns(p, "raised", keeper)
          /\ UNCHANGED tree
       \/ /\ method = "none"
          /\ \E reason \in {"none", "raised"} : LockReturns(p, reason, keeper)
          /\ UNCHANGED tree

\* fusermount -u, whose exit code is not looked at, or git-crypt lock, which
\* refuses to work on a dirty tree.
Seal(p) ==
    /\ pc[p] = "seal"
    /\ UNCHANGED <<method, fifo, tree>>
    /\ \/ ~opened /\ LockReturns(p, "none", keeper) /\ UNCHANGED opened
       \/ /\ opened /\ (method = "git-crypt" => ~dirty)
          /\ opened' = FALSE
          /\ LockReturns(p, "none", "nobody")
       \/ /\ opened /\ method = "encfs" /\ ToolFailures
          /\ LockReturns(p, "busy", keeper)
          /\ UNCHANGED opened
       \/ /\ opened /\ method = "git-crypt" /\ dirty
          /\ LockReturns(p, "lock failed", keeper)
          /\ UNCHANGED opened

\* The result of a post- hook is not looked at.
PostHook(p) ==
    /\ pc[p] = "post"
    /\ Leave(p, why[p], keeper)
    /\ UNCHANGED vault

-----------------------------------------------------------------------------
(* The environment.                                                        *)

\* KeyboardInterrupt arrives at the step a process is about to take.  At the
\* playbook, communicate() gives the child a quarter of a second and then raises:
\* what has not ended by then runs on beside `finally` and whatever comes next.
Interrupt(p) ==
    /\ Interrupts
    /\ pc[p] # "idle"
    /\ UNCHANGED <<method, opened, fifo, dirty, late>>
    /\ \/ strays' = strays
       \/ Outliving /\ pc[p] = "ansible" /\ strays' = strays \union {p}
    /\ \/ pc[p] \in UnlockSteps \union {"ansible"} /\ Raise(p, "interrupted")
       \/ pc[p] \in LockSteps /\ LockReturns(p, "interrupted", keeper)
       \/ pc[p] = "finally" /\ ~InHandler(p) /\ Leave(p, "interrupted", keeper)
       \/ /\ pc[p] = "finally" /\ InHandler(p)
          /\ Goto(p, "lcommit")
          /\ locks' = [locks EXCEPT ![p] = 1]
          /\ UNCHANGED <<keeper, cmd, unlocked, why>>
       \/ pc[p] \in {"prehook", "post"} /\ Leave(p, "interrupted", keeper)

\* A playbook or command writes into the project directory.
Write(p) ==
    /\ dirty' = TRUE
    /\ \/ pc[p] = "ansible" /\ UNCHANGED late
       \/ p \in strays /\ late' = TRUE
    /\ UNCHANGED <<method, opened, fifo, strays, keeper, pc, session>>

StrayEnds(p) ==
    /\ p \in strays
    /\ strays' = strays \ {p}
    /\ UNCHANGED <<method, opened, fifo, dirty, late, keeper, pc, session>>

\* The user edits or commits files by hand.
Edit ==
    /\ Editor
    /\ dirty' = ~dirty
    /\ late' = FALSE
    /\ UNCHANGED <<method, opened, fifo, strays, keeper, pc, session>>

\* The user removes a stale configuration file after the error message.
Clean ==
    /\ fifo = "file"
    /\ \A p \in Procs : pc[p] = "idle"
    /\ fifo' = "absent"
    /\ UNCHANGED <<method, opened, tree, keeper, pc, session>>

Progress(p) ==
    \/ PreHook(p) \/ Check(p) \/ UnlockCommit(p) \/ FifoCheck(p) \/ MkFifo(p)
    \/ Mount(p) \/ Unstick(p) \/ RmFifo(p) \/ Decrypt(p) \/ Assign(p)
    \/ Ansible(p) \/ Finally(p) \/ LockCommit(p) \/ Seal(p) \/ PostHook(p)

Next ==
    \/ \E p \in Procs : Progress(p)
    \/ \E p \in Procs : \E c \in Commands : Start(p, c)
    \/ \E p \in Procs : Interrupt(p) \/ Write(p) \/ StrayEnds(p)
    \/ Edit
    \/ Clean

Spec == Init /\ [][Next]_vars

\* A hook is killed after 300 seconds, external commands are assumed to end,
\* and nothing else in a command waits.
FairSpec == Spec /\ \A p \in Procs : WF_vars(Progress(p))
-----------------------------------------------------------------------------
(* Properties.                                                             *)

TypeOK ==
    /\ method \in Methods
    /\ opened \in BOOLEAN
    /\ fifo \in {"absent", "fifo", "file"}
    /\ dirty \in BOOLEAN
    /\ strays \subseteq Procs
    /\ late \in BOOLEAN
    /\ keeper \in Procs \union Outcomes \union {"user", "nobody"}
    /\ pc \in [Procs -> Labels]
    /\ cmd \in [Procs -> Commands]
    /\ unlocked \in [Procs -> BOOLEAN]
    /\ locks \in [Procs -> {0, 1, 2}]
    /\ why \in [Procs -> Outcomes]

\* A running command still knows that it has to seal what it opened, or is
\* on its way out after something went wrong (execute() of the runners).
Answers(p) ==
    /\ cmd[p] \in Runners
    /\ \/ pc[p] \in {"rmfifo", "assign"}
       \/ pc[p] \in {"ansible", "finally"} \union LockSteps /\ unlocked[p]
       \/ pc[p] = "finally" /\ why[p] # "none"
       \/ pc[p] = "post" /\ why[p] = "busy"

\* Secrets that are open were opened by `debops project unlock`, or by a
\* runner that is still going to seal them, or were left behind by a runner
\* that was interrupted, whose unlock() or commit raised, whose git-crypt lock
\* was refused, or whose fusermount failed: a runner that ends in any other
\* way has sealed what it opened.
OpenIsAccountedFor ==
    /\ opened <=> keeper # "nobody"
    /\ keeper # "none"
    /\ \A p \in Procs : keeper = p => Answers(p)

\* Only projects with encrypted secrets are ever unlocked or sealed.
CryptSteps == (UnlockSteps \ {"check"}) \union {"seal"}
NothingToUnlock ==
    method = "none" => ~opened /\ \A p \in Procs : pc[p] \notin CryptSteps

\* Whoever is about to seal may do so, and `project lock` never unlocks.
Entitled(p) ==
    /\ pc[p] \in LockSteps => cmd[p] = "lock" \/ unlocked[p]
    /\ pc[p] \in UnlockSteps => cmd[p] # "lock"
AllEntitled == \A p \in Procs : Entitled(p)

IInv == TypeOK /\ OpenIsAccountedFor /\ NothingToUnlock /\ AllEntitled

V == INSTANCE Vault WITH open <- opened

\* The commands implement the abstract vault: the secrets go from sealed to
\* open and back, and a runner that ends without sealing what it opened had
\* one of the mishaps named above.
ImplementsVault == V!Spec

\* Secrets are only ever sealed by `debops project lock` or by a command that
\* was told by unlock() that it opened them: a runner that found them open
\* leaves them open (`if unlocked: self.inventory.lock()`).
OnlyOpenersSeal ==
    [][opened /\ ~opened' =>
         \E p \in Procs : /\ pc[p] = "seal"
                         /\ (cmd[p] = "lock" \/ unlocked[p])]_vars

\* The documented guarantee that the playbooks have access to the secrets:
\* the external command of a runner starts with the secrets open.  (A second
\* command may seal them later, so this is stated for a single terminal.)
CommandSeesSecrets ==
    \A p \in Procs : pc[p] = "ansible" => opened

\* With commits on every lock, nobody editing and one terminal, git-crypt lock
\* finds a clean tree, whatever the playbook wrote and wherever the command was
\* interrupted, unless a playbook that outlived its interrupt wrote after the
\* commit: the commit at the head of lock() comes after the last write of a
\* playbook that has ended, and only of such a one.
OnlyStraysSpoilTheLock ==
    \A p \in Procs : pc[p] = "seal" /\ dirty => late

\* Every command comes to an end, unless it waits for an encfs that died
\* before it opened the FIFO.
CommandsEnd ==
    \A p \in Procs : pc[p] # "idle" ~> pc[p] \in {"idle", "stuck"}
=============================================================================
