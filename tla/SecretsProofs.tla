--------------------------- MODULE SecretsProofs ---------------------------
(***************************************************************************)
(* Safety of the secrets, for any number of terminals, any encryption      *)
(* method and any setting of the options.                                  *)
(***************************************************************************)
EXTENDS Secrets, TLAPS

USE DEF Mishaps, Outcomes, Runners, Commands, UnlockSteps, LockSteps,
        Labels, Sound

\* Leaving a command keeps the types.
LEMMA LeaveType ==
    ASSUME TypeOK, NEW p \in Procs, NEW outcome \in Outcomes,
           NEW holder \in Procs \union Outcomes \union {"user", "nobody"},
           Leave(p, outcome, holder)
    PROVE  /\ keeper' \in Procs \union Outcomes \union {"user", "nobody"}
           /\ pc' \in [Procs -> Labels] /\ cmd' \in [Procs -> Commands]
           /\ unlocked' \in [Procs -> BOOLEAN] /\ locks' \in [Procs -> {0, 1, 2}]
           /\ why' \in [Procs -> Outcomes]
<1> USE DEF TypeOK, Leave, Goto
<1>1. keeper' \in Procs \union Outcomes \union {"user", "nobody"}
  OBVIOUS
<1>2. pc' \in [Procs -> Labels] /\ cmd' \in [Procs -> Commands]
  OBVIOUS
<1>3. unlocked' \in [Procs -> BOOLEAN]
  OBVIOUS
<1>4. why' \in [Procs -> Outcomes]
  OBVIOUS
<1>5. locks' \in [Procs -> {0, 1, 2}]
  OBVIOUS
<1> QED BY <1>1, <1>2, <1>3, <1>4, <1>5

\* lock() returning, or raising, keeps the types.
LEMMA LockReturnsType ==
    ASSUME TypeOK, NEW p \in Procs, NEW reason \in Outcomes,
           NEW holder \in Procs \union Outcomes \union {"user", "nobody"},
           LockReturns(p, reason, holder)
    PROVE  /\ keeper' \in Procs \union Outcomes \union {"user", "nobody"}
           /\ pc' \in [Procs -> Labels] /\ cmd' \in [Procs -> Commands]
           /\ unlocked' \in [Procs -> BOOLEAN] /\ locks' \in [Procs -> {0, 1, 2}]
           /\ why' \in [Procs -> Outcomes]
<1> DEFINE outcome == IF reason = "none" THEN why[p] ELSE reason
<1>1. outcome \in Outcomes
  BY DEF TypeOK
<1>2. CASE Leave(p, outcome, holder)
  BY <1>1, <1>2, LeaveType
<1>3. CASE /\ Goto(p, "lcommit")
           /\ locks' = [locks EXCEPT ![p] = 1]
           /\ keeper' = holder
           /\ UNCHANGED <<cmd, unlocked, why>>
  BY <1>3 DEF TypeOK, Goto
<1>4. CASE /\ Goto(p, "post")
           /\ locks' = [locks EXCEPT ![p] = 0]
           /\ why' = [why EXCEPT ![p] = outcome]
           /\ keeper' = holder
           /\ UNCHANGED <<cmd, unlocked>>
  <2> HIDE DEF outcome
  <2> QED BY <1>1, <1>4 DEF TypeOK, Goto
<1> QED BY <1>2, <1>3, <1>4 DEF LockReturns

\* Every variable keeps its type.
THEOREM Typing == Spec => []TypeOK
<1>1. Init => TypeOK
  BY DEF Init, TypeOK
<1>2. TypeOK /\ [Next]_vars => TypeOK'
  <2> SUFFICES ASSUME TypeOK, [Next]_vars PROVE TypeOK'
    OBVIOUS
  <2> USE DEF TypeOK, Goto, vault, tree, session
  <2>1. ASSUME NEW p \in Procs, NEW c \in Commands, Start(p, c) PROVE TypeOK'
    BY <2>1 DEF Start
  <2>2. ASSUME NEW p \in Procs, PreHook(p) PROVE TypeOK'
    BY <2>2, LeaveType DEF PreHook
  <2>3. ASSUME NEW p \in Procs, Check(p) PROVE TypeOK'
    BY <2>3, LeaveType DEF Check, UnlockReturns, Raise
  <2>4. ASSUME NEW p \in Procs, UnlockCommit(p) PROVE TypeOK'
    BY <2>4, LeaveType DEF UnlockCommit, Commits, Raise
  <2>5. ASSUME NEW p \in Procs, FifoCheck(p) PROVE TypeOK'
    BY <2>5, LeaveType DEF FifoCheck, Raise
  <2>6. ASSUME NEW p \in Procs, MkFifo(p) PROVE TypeOK'
    BY <2>6, LeaveType DEF MkFifo, Raise
  <2>7. ASSUME NEW p \in Procs, Mount(p) PROVE TypeOK'
    BY <2>7 DEF Mount, Opener
  <2>8. ASSUME NEW p \in Procs, Unstick(p) PROVE TypeOK'
    BY <2>8 DEF Unstick
  <2>9. ASSUME NEW p \in Procs, RmFifo(p) PROVE TypeOK'
    BY <2>9, LeaveType DEF RmFifo, Raise
  <2>10. ASSUME NEW p \in Procs, Decrypt(p) PROVE TypeOK'
    BY <2>10, LeaveType DEF Decrypt, Opener, Raise
  <2>11. ASSUME NEW p \in Procs, Assign(p) PROVE TypeOK'
    BY <2>11 DEF Assign, UnlockReturns
  <2>12. ASSUME NEW p \in Procs, Ansible(p) PROVE TypeOK'
    BY <2>12 DEF Ansible
  <2>13. ASSUME NEW p \in Procs, Finally(p) PROVE TypeOK'
    BY <2>13, LeaveType DEF Finally
  <2>14. ASSUME NEW p \in Procs, LockCommit(p) PROVE TypeOK'
    BY <2>14, LockReturnsType DEF LockCommit, Commits
  <2>15. ASSUME NEW p \in Procs, Seal(p) PROVE TypeOK'
    BY <2>15, LockReturnsType DEF Seal
  <2>16. ASSUME NEW p \in Procs, PostHook(p) PROVE TypeOK'
    BY <2>16, LeaveType DEF PostHook
  <2>17. ASSUME NEW p \in Procs, Interrupt(p) PROVE TypeOK'
    BY <2>17, LeaveType, LockReturnsType DEF Interrupt, Raise
  <2>18. CASE Edit \/ \E p \in Procs : Write(p) \/ StrayEnds(p)
    BY <2>18 DEF Edit, Write, StrayEnds
  <2>19. CASE Clean
    BY <2>19 DEF Clean
  <2>20. CASE UNCHANGED vars
    BY <2>20 DEF vars
  <2> QED
    BY <2>1, <2>2, <2>3, <2>4, <2>5, <2>6, <2>7, <2>8, <2>9, <2>10, <2>11, <2>12,
       <2>13, <2>14, <2>15, <2>16, <2>17, <2>18, <2>19, <2>20 DEF Next, Progress
<1> QED BY <1>1, <1>2, PTL DEF Spec
-----------------------------------------------------------------------------
\* What a step of p has to show for itself.
Settled(p) ==
    /\ opened' <=> keeper' # "nobody"
    /\ keeper' # "none"
    /\ keeper' = p => Answers(p)'
    /\ method = "none" => ~opened' /\ pc'[p] \notin CryptSteps
    /\ Entitled(p)'

\* What it leaves alone.
Apart(p) ==
    /\ keeper' \in {keeper, p, "user", "nobody"} \union Outcomes
    /\ \A q \in Procs \ {p} : /\ pc'[q] = pc[q] /\ cmd'[q] = cmd[q]
                             /\ unlocked'[q] = unlocked[q]
                             /\ why'[q] = why[q]

\* The accounts of the other processes are as before.
LEMMA OthersUnmoved ==
    ASSUME IInv, SecretsAssumption, NEW p \in Procs, Settled(p), Apart(p),
           UNCHANGED method
    PROVE  OpenIsAccountedFor' /\ NothingToUnlock' /\ AllEntitled'
<1>1. ASSUME NEW q \in Procs, keeper' = q PROVE Answers(q)'
  <2>1. CASE q = p
    BY <1>1, <2>1 DEF Settled
  <2>2. CASE q # p
    <3>1. keeper = q
      BY <1>1, <2>2 DEF Apart, SecretsAssumption
    <3>2. Answers(q)
      BY <3>1 DEF IInv, OpenIsAccountedFor
    <3>3. pc'[q] = pc[q] /\ cmd'[q] = cmd[q] /\ unlocked'[q] = unlocked[q] /\ why'[q] = why[q]
      BY <2>2 DEF Apart
    <3> QED BY <3>2, <3>3 DEF Answers
  <2> QED BY <2>1, <2>2
<1>2. NothingToUnlock'
  BY DEF IInv, NothingToUnlock, Settled, Apart, CryptSteps
<1>3. AllEntitled'
  BY DEF IInv, AllEntitled, Entitled, Settled, Apart
<1> QED BY <1>1, <1>2, <1>3 DEF OpenIsAccountedFor, Settled

\* What IInv says of one process.
LEMMA Local ==
    ASSUME IInv, NEW p \in Procs
    PROVE  /\ TypeOK /\ (opened <=> keeper # "nobody") /\ keeper # "none"
           /\ keeper = p => Answers(p)
           /\ method = "none" => ~opened /\ pc[p] \notin CryptSteps
           /\ Entitled(p)
    BY DEF IInv, OpenIsAccountedFor, NothingToUnlock, AllEntitled

\* A process that leaves has no accounts to settle.
LEMMA LeaveSettles ==
    ASSUME IInv, SecretsAssumption, NEW p \in Procs,
           NEW outcome \in Outcomes, NEW holder \in {keeper, "nobody"},
           Leave(p, outcome, holder),
           holder = p => outcome # "none",
           opened' <=> holder # "nobody",
           opened' => opened
    PROVE  Settled(p) /\ Apart(p)
<1> USE DEF TypeOK, Leave, Goto
<1>1. pc'[p] = "idle" /\ keeper' # p /\ keeper' # "none"
  BY Local DEF SecretsAssumption
<1>2. opened' <=> keeper' # "nobody"
  OBVIOUS
<1>3. Settled(p)
  BY <1>1, <1>2, Local DEF Settled, Entitled, CryptSteps
<1>4. Apart(p)
  BY Local DEF Apart
<1> QED BY <1>3, <1>4

\* So it is when lock() returns or raises.
LEMMA LockReturnsSettles ==
    ASSUME IInv, SecretsAssumption, NEW p \in Procs, pc[p] \in LockSteps,
           NEW reason \in Outcomes, NEW holder \in {keeper, "nobody"},
           LockReturns(p, reason, holder),
           holder = p => reason # "none",
           opened' <=> holder # "nobody",
           opened' => opened
    PROVE  Settled(p) /\ Apart(p)
<1> DEFINE outcome == IF reason = "none" THEN why[p] ELSE reason
<1> USE DEF TypeOK, Goto
<1>0. holder = p => cmd[p] \in Runners /\ unlocked[p]
  BY Local DEF Answers, SecretsAssumption
<1>00. p # "nobody" /\ Entitled(p) /\ holder # "none"
  BY Local DEF SecretsAssumption
<1>1. outcome \in Outcomes /\ (holder = p => outcome = reason /\ outcome # "none")
  <2>1. why[p] \in Outcomes
    BY Local
  <2>2. outcome \in Outcomes
    BY <2>1
  <2>3. holder = p => outcome = reason /\ outcome # "none"
    OBVIOUS
  <2> QED BY <2>2, <2>3
<1>2. CASE Leave(p, outcome, holder)
  <2>1. holder = p => outcome # "none"
    BY <1>1
  <2> HIDE DEF outcome, TypeOK, Goto, Outcomes, Mishaps
  <2> QED BY <1>1, <1>2, <2>1, LeaveSettles
<1>3. CASE /\ Goto(p, "lcommit")
           /\ keeper' = holder
           /\ UNCHANGED <<cmd, unlocked, why>>
  <2>1. Settled(p)
    BY <1>0, <1>00, <1>3, Local DEF Settled, Answers, Entitled, CryptSteps
  <2>2. Apart(p)
    BY <1>3, Local DEF Apart
  <2> QED BY <2>1, <2>2
<1>4. CASE /\ Sound(reason)
           /\ Goto(p, "post")
           /\ why' = [why EXCEPT ![p] = outcome]
           /\ keeper' = holder
           /\ UNCHANGED <<cmd, unlocked>>
  <2>1. holder = p => outcome = "busy"
    BY <1>1, <1>4
  <2> HIDE DEF outcome
  <2>2. Settled(p)
    BY <1>0, <1>00, <1>4, <2>1, Local DEF Settled, Answers, Entitled, CryptSteps
  <2>3. Apart(p)
    BY <1>4, Local DEF Apart
  <2> QED BY <2>2, <2>3
<1> QED BY <1>2, <1>3, <1>4 DEF LockReturns

\* And when unlock() or the command raises.
LEMMA RaiseSettles ==
    ASSUME IInv, SecretsAssumption, NEW p \in Procs,
           NEW reason \in Mishaps,
           Raise(p, reason), UNCHANGED opened
    PROVE  Settled(p) /\ Apart(p)
<1>1. CASE Leave(p, reason, keeper)
  BY <1>1, LeaveSettles, Local
<1>2. CASE /\ cmd[p] \in Runners
           /\ Goto(p, "finally")
           /\ why' = [why EXCEPT ![p] = reason]
           /\ UNCHANGED <<keeper, cmd, unlocked, locks>>
  BY <1>2, Local DEF Goto, TypeOK, Settled, Apart, Answers, Entitled, CryptSteps
<1> QED BY <1>1, <1>2 DEF Raise

\* A step within a command that neither opens nor seals.
LEMMA MoveSettles ==
    ASSUME IInv, SecretsAssumption, NEW p \in Procs, NEW label \in Labels,
           Goto(p, label), UNCHANGED <<opened, keeper, cmd>>,
           \A q \in Procs \ {p} : unlocked'[q] = unlocked[q] /\ why'[q] = why[q],
           keeper = p => Answers(p)',
           method = "none" => label \notin CryptSteps,
           label \in LockSteps => cmd[p] = "lock" \/ unlocked'[p],
           label \in UnlockSteps => cmd[p] # "lock"
    PROVE  Settled(p) /\ Apart(p)
<1>1. pc'[p] = label /\ \A q \in Procs \ {p} : pc'[q] = pc[q]
  BY Local DEF TypeOK, Goto
<1>2. Settled(p)
  BY <1>1, Local DEF Settled, Entitled
<1>3. Apart(p)
  BY <1>1, Local DEF Apart
<1> QED BY <1>2, <1>3

\* The step that opens the secrets, or finds that another has opened them.
LEMMA OpenSettles ==
    ASSUME IInv, SecretsAssumption, NEW p \in Procs,
           NEW label \in {"rmfifo", "assign"}, Goto(p, label),
           opened' = TRUE, keeper' = Opener(p), UNCHANGED session,
           keeper # p, method # "none", cmd[p] # "lock"
    PROVE  Settled(p) /\ Apart(p)
<1>1. pc'[p] = label /\ \A q \in Procs \ {p} : pc'[q] = pc[q]
  BY Local DEF TypeOK, Goto
<1>2. p \notin Outcomes \union {"user", "nobody"}
  BY DEF SecretsAssumption
<1>3. /\ keeper' # "nobody" /\ keeper' # "none" /\ keeper' \in {keeper, p, "user"}
      /\ keeper' = p => cmd[p] # "unlock"
  BY <1>2, Local DEF Opener
<1>4. Answers(p)' \/ cmd[p] = "unlock"
  BY <1>1, Local DEF Answers, session, TypeOK
<1>5. Settled(p)
  BY <1>1, <1>3, <1>4, Local DEF Settled, Entitled, session
<1>6. Apart(p)
  BY <1>1, <1>3, Local DEF Apart, session
<1> QED BY <1>5, <1>6

\* Every step of a process settles its accounts and leaves the others alone.
LEMMA StepsSettle ==
    ASSUME IInv, SecretsAssumption, NEW p \in Procs,
           Progress(p) \/ Interrupt(p) \/ \E c \in Commands : Start(p, c)
    PROVE  Settled(p) /\ Apart(p)
<1> DEFINE Goal == Settled(p) /\ Apart(p)
<1>0. /\ TypeOK /\ (opened <=> keeper # "nobody") /\ keeper # "none"
      /\ keeper = p => Answers(p)
      /\ method = "none" => ~opened /\ pc[p] \notin CryptSteps
      /\ Entitled(p)
      /\ p \notin Outcomes \union {"user", "nobody"}
  BY Local DEF SecretsAssumption
<1>1. ASSUME NEW c \in Commands, Start(p, c) PROVE Goal
  BY <1>0, <1>1 DEF Start,
         TypeOK, Goto, vault, session, Settled, Apart, Answers, Entitled, CryptSteps
<1>2. ASSUME PreHook(p) PROVE Goal
  <2>1. keeper # p /\ UNCHANGED opened
    BY <1>0, <1>2 DEF PreHook, Answers, vault
  <2>2. CASE Leave(p, "none", keeper)
    BY <1>0, <2>1, <2>2, LeaveSettles
  <2>3. CASE /\ Goto(p, IF cmd[p] = "lock" THEN "lcommit" ELSE "check")
             /\ UNCHANGED <<keeper, cmd, unlocked, why>>
    BY <2>1, <2>3, MoveSettles DEF CryptSteps
  <2> QED BY <1>2, <2>2, <2>3 DEF PreHook
<1>3. ASSUME Check(p) PROVE Goal
  <2>1. UNCHANGED opened
    BY <1>3 DEF Check, vault
  <2>2. CASE Raise(p, "raised")
    BY <2>1, <2>2, RaiseSettles
  <2>3. CASE UnlockReturns(p, FALSE)
    <3>1. keeper # p
      BY <1>0, <1>3 DEF Check, Answers
    <3>2. /\ Goto(p, IF cmd[p] \in Runners THEN "ansible" ELSE "post")
          /\ \A q \in Procs \ {p} : unlocked'[q] = unlocked[q] /\ why'[q] = why[q]
          /\ UNCHANGED <<keeper, cmd>>
      BY <1>0, <2>3 DEF UnlockReturns, TypeOK
    <3> QED BY <2>1, <3>1, <3>2, MoveSettles DEF CryptSteps
  <2>4. CASE Goto(p, "ucommit") /\ method # "none" /\ UNCHANGED <<keeper, session>>
    <3>1. keeper # p /\ cmd[p] # "lock"
      BY <1>0, <1>3 DEF Check, Answers, Entitled
    <3> QED BY <2>1, <2>4, <3>1, MoveSettles DEF session, CryptSteps
  <2> QED BY <1>3, <2>2, <2>3, <2>4 DEF Check
<1>4. ASSUME UnlockCommit(p) PROVE Goal
  <2>1. CASE Raise(p, "raised")
    BY <1>4, <2>1, RaiseSettles DEF UnlockCommit
  <2>2. CASE ~Raise(p, "raised")
    BY <1>0, <1>4, <2>2 DEF UnlockCommit,
         TypeOK, Goto, vault, session, Settled, Apart, Answers, Entitled, CryptSteps
  <2> QED BY <2>1, <2>2
<1>5. ASSUME FifoCheck(p) PROVE Goal
  <2>1. CASE Raise(p, "raised")
    BY <1>5, <2>1, RaiseSettles DEF FifoCheck, vault
  <2>2. CASE ~Raise(p, "raised")
    BY <1>0, <1>5, <2>2 DEF FifoCheck,
         TypeOK, Goto, vault, session, Settled, Apart, Answers, Entitled, CryptSteps
  <2> QED BY <2>1, <2>2
<1>6. ASSUME MkFifo(p) PROVE Goal
  <2>1. CASE Raise(p, "raised")
    BY <1>6, <2>1, RaiseSettles DEF MkFifo
  <2>2. CASE ~Raise(p, "raised")
    BY <1>0, <1>6, <2>2 DEF MkFifo,
         TypeOK, Goto, vault, session, Settled, Apart, Answers, Entitled, CryptSteps
  <2> QED BY <2>1, <2>2
<1>7. ASSUME Mount(p) PROVE Goal
  <2>1. keeper # p /\ method # "none" /\ cmd[p] # "lock" /\ UNCHANGED session
    BY <1>0, <1>7 DEF Mount, Answers, CryptSteps, Entitled
  <2>2. CASE opened' = TRUE /\ keeper' = Opener(p) /\ Goto(p, "rmfifo")
    BY <2>1, <2>2, OpenSettles
  <2>3. CASE UNCHANGED <<opened, keeper>> /\ (Goto(p, "rmfifo") \/ Goto(p, "stuck"))
    BY <2>1, <2>3, MoveSettles DEF session, CryptSteps
  <2> QED BY <1>7, <2>2, <2>3 DEF Mount
<1>8. ASSUME Unstick(p) PROVE Goal
  BY <1>0, <1>8 DEF Unstick,
         TypeOK, Goto, vault, session, Settled, Apart, Answers, Entitled, CryptSteps
<1>9. ASSUME RmFifo(p) PROVE Goal
  <2>1. CASE Raise(p, "raised")
    BY <1>9, <2>1, RaiseSettles DEF RmFifo
  <2>2. CASE ~Raise(p, "raised")
    BY <1>0, <1>9, <2>2 DEF RmFifo,
         TypeOK, Goto, vault, session, Settled, Apart, Answers, Entitled, CryptSteps
  <2> QED BY <2>1, <2>2
<1>10. ASSUME Decrypt(p) PROVE Goal
  <2>1. CASE Raise(p, "raised") /\ UNCHANGED opened
    BY <2>1, RaiseSettles
  <2>2. CASE /\ opened' = TRUE /\ keeper' = Opener(p)
             /\ Goto(p, "assign") /\ UNCHANGED session
    <3>1. keeper # p /\ method # "none" /\ cmd[p] # "lock"
      BY <1>0, <1>10 DEF Decrypt, Answers, CryptSteps, Entitled
    <3> QED BY <2>2, <3>1, OpenSettles
  <2> QED BY <1>10, <2>1, <2>2 DEF Decrypt
<1>11. ASSUME Assign(p) PROVE Goal
  BY <1>0, <1>11 DEF Assign, UnlockReturns,
         TypeOK, Goto, vault, session, Settled, Apart, Answers, Entitled, CryptSteps
<1>12. ASSUME Ansible(p) PROVE Goal
  BY <1>0, <1>12 DEF Ansible,
         TypeOK, Goto, vault, session, Settled, Apart, Answers, Entitled, CryptSteps
<1>13. ASSUME Finally(p) PROVE Goal
  <2>1. UNCHANGED opened
    BY <1>13 DEF Finally, vault
  <2>2. CASE why[p] # "none" /\ Leave(p, why[p], keeper)
    BY <1>0, <2>1, <2>2, LeaveSettles DEF TypeOK
  <2>3. CASE unlocked[p] /\ Goto(p, "lcommit") /\ UNCHANGED <<keeper, cmd, unlocked, why>>
    <3>1. pc'[p] = "lcommit" /\ (keeper = p => Answers(p)')
      BY <1>0, <2>3 DEF TypeOK, Goto, Answers
    <3> QED BY <2>1, <2>3, <3>1, MoveSettles DEF CryptSteps
  <2>4. CASE ~unlocked[p] /\ why[p] = "none" /\ Goto(p, "post") /\ UNCHANGED <<keeper, session>>
    <3>1. keeper # p
      BY <1>0, <1>13, <2>4 DEF Finally, Answers
    <3> QED BY <2>1, <2>4, <3>1, MoveSettles DEF session, CryptSteps
  <2> QED BY <1>13, <2>2, <2>3, <2>4 DEF Finally
<1>14. ASSUME LockCommit(p) PROVE Goal
  <2>1. UNCHANGED opened /\ pc[p] \in LockSteps
    BY <1>14 DEF LockCommit
  <2>2. CASE LockReturns(p, "raised", keeper)
    BY <1>0, <2>1, <2>2, LockReturnsSettles
  <2>3. CASE method = "none" /\ LockReturns(p, "none", keeper)
    BY <1>0, <2>1, <2>3, LockReturnsSettles
  <2>4. CASE method # "none" /\ Goto(p, "seal") /\ UNCHANGED <<keeper, session>>
    <3>1. pc'[p] = "seal" /\ (keeper = p => Answers(p)')
      BY <1>0, <2>1, <2>4 DEF TypeOK, Goto, Answers, session
    <3>2. cmd[p] = "lock" \/ unlocked[p]
      BY <1>0, <2>1 DEF Entitled
    <3> QED BY <2>1, <2>4, <3>1, <3>2, MoveSettles DEF session
  <2> QED BY <1>14, <2>2, <2>3, <2>4 DEF LockCommit
<1>15. ASSUME Seal(p) PROVE Goal
  <2>1. pc[p] \in LockSteps
    BY <1>15 DEF Seal
  <2>2. CASE ~opened /\ UNCHANGED opened /\ LockReturns(p, "none", keeper)
    BY <1>0, <2>1, <2>2, LockReturnsSettles
  <2>3. CASE opened /\ opened' = FALSE /\ LockReturns(p, "none", "nobody")
    BY <1>0, <2>1, <2>3, LockReturnsSettles
  <2>4. CASE UNCHANGED opened /\ \E r \in {"busy", "lock failed"} : LockReturns(p, r, keeper)
    BY <1>0, <2>1, <2>4, LockReturnsSettles
  <2> QED BY <1>15, <2>2, <2>3, <2>4 DEF Seal
<1>16. ASSUME PostHook(p) PROVE Goal
  <2>1. why[p] \in Outcomes /\ (keeper = p => why[p] # "none")
    BY <1>0, <1>16 DEF PostHook, Answers, TypeOK
  <2> QED BY <1>0, <1>16, <2>1, LeaveSettles DEF PostHook, vault
<1>17. ASSUME Interrupt(p) PROVE Goal
  <2>1. UNCHANGED opened
    BY <1>17 DEF Interrupt
  <2>2. CASE Raise(p, "interrupted")
    BY <2>1, <2>2, RaiseSettles
  <2>3. CASE pc[p] \in LockSteps /\ LockReturns(p, "interrupted", keeper)
    BY <1>0, <2>1, <2>3, LockReturnsSettles
  <2>4. CASE Leave(p, "interrupted", keeper)
    BY <1>0, <2>1, <2>4, LeaveSettles
  <2>5. CASE /\ pc[p] = "finally" /\ InHandler(p) /\ Goto(p, "lcommit")
             /\ UNCHANGED <<keeper, cmd, unlocked, why>>
    <3>1. pc'[p] = "lcommit" /\ (keeper = p => Answers(p)')
      BY <1>0, <2>5 DEF TypeOK, Goto, Answers, InHandler
    <3> QED BY <2>1, <2>5, <3>1, MoveSettles DEF CryptSteps, InHandler
  <2> QED BY <1>17, <2>2, <2>3, <2>4, <2>5 DEF Interrupt
<1> QED
  BY <1>1, <1>2, <1>3, <1>4, <1>5, <1>6, <1>7, <1>8, <1>9, <1>10, <1>11, <1>12,
     <1>13, <1>14, <1>15, <1>16, <1>17 DEF Progress

\* No step changes how the secrets are encrypted.
LEMMA MethodStays ==
    ASSUME NEW p \in Procs,
           Progress(p) \/ Interrupt(p) \/ \E c \in Commands : Start(p, c)
    PROVE  UNCHANGED method
<1>1. CASE Interrupt(p) \/ \E c \in Commands : Start(p, c)
  BY <1>1 DEF Interrupt, Start, vault
<1>2. CASE Progress(p)
  BY <1>2 DEF Progress, PreHook, Check, UnlockCommit, FifoCheck, MkFifo, Mount,
              Unstick, RmFifo, Decrypt, Assign, Ansible, Finally, LockCommit,
              Seal, PostHook, vault
<1> QED BY <1>1, <1>2

\* The inductive invariant adds to the accounts where a process may be when
\* there is nothing to unlock, and who may be about to seal.
THEOREM Inductive == Spec => []IInv
<1> USE SecretsAssumption
<1>1. Init => OpenIsAccountedFor /\ NothingToUnlock /\ AllEntitled
  BY DEF Init, OpenIsAccountedFor, NothingToUnlock, AllEntitled, Entitled,
         SecretsAssumption, CryptSteps
<1>2. IInv /\ [Next]_vars => OpenIsAccountedFor' /\ NothingToUnlock' /\ AllEntitled'
  <2> SUFFICES ASSUME IInv, [Next]_vars
               PROVE  OpenIsAccountedFor' /\ NothingToUnlock' /\ AllEntitled'
    OBVIOUS
  <2>1. ASSUME NEW p \in Procs,
               Progress(p) \/ Interrupt(p) \/ \E c \in Commands : Start(p, c)
        PROVE  OpenIsAccountedFor' /\ NothingToUnlock' /\ AllEntitled'
    BY <2>1, StepsSettle, OthersUnmoved, MethodStays
  <2>2. CASE UNCHANGED <<method, opened, keeper, pc, session>>
    BY <2>2 DEF IInv, session, OpenIsAccountedFor, Answers, NothingToUnlock,
                AllEntitled, Entitled
  <2>3. CASE Edit \/ Clean \/ UNCHANGED vars \/ \E p \in Procs : Write(p) \/ StrayEnds(p)
    BY <2>2, <2>3 DEF Edit, Clean, Write, StrayEnds, vars, session
  <2> QED
    BY <2>1, <2>3 DEF Next
<1> QED BY <1>1, <1>2, Typing, PTL DEF Spec, IInv

\* Open secrets are accounted for, after every step of every process.
THEOREM Accounting == Spec => []OpenIsAccountedFor
BY Inductive, PTL DEF IInv

-----------------------------------------------------------------------------
\* A step that changes the secrets is one of three.
LEMMA ChangesOpened ==
    ASSUME IInv, [Next]_vars, opened' # opened
    PROVE  \E p \in Procs : Mount(p) \/ Decrypt(p) \/ Seal(p)
<1>1. ASSUME NEW p \in Procs, Progress(p)
      PROVE  Mount(p) \/ Decrypt(p) \/ Seal(p)
  BY <1>1 DEF Progress, PreHook, Check, UnlockCommit, FifoCheck, MkFifo, Unstick,
              RmFifo, Assign, Ansible, Finally, LockCommit, PostHook, vault
<1> QED BY <1>1 DEF Next, vars, Start, Interrupt, Write, StrayEnds, Edit, Clean, vault

\* Sealing is left to `project lock` and to those who opened.
THEOREM OpenersSeal == Spec => OnlyOpenersSeal
<1>1. IInv /\ [Next]_vars =>
        [opened /\ ~opened' =>
           \E p \in Procs : /\ pc[p] = "seal"
                           /\ (cmd[p] = "lock" \/ unlocked[p])]_vars
  <2> SUFFICES ASSUME IInv, [Next]_vars, opened, ~opened'
               PROVE  \E p \in Procs : /\ pc[p] = "seal"
                                       /\ (cmd[p] = "lock" \/ unlocked[p])
    OBVIOUS
  <2>1. PICK p \in Procs : Mount(p) \/ Decrypt(p) \/ Seal(p)
    BY ChangesOpened
  <2>2. pc[p] = "seal"
    BY <2>1 DEF Mount, Decrypt, Seal
  <2> QED BY <2>2 DEF IInv, AllEntitled, Entitled
<1> QED BY <1>1, Inductive, PTL DEF Spec, OnlyOpenersSeal

\* While the secrets stay as they are, the accounts only pass from a process
\* to its outcome.
LEMMA AccountsPass ==
    ASSUME IInv, [Next]_vars, UNCHANGED opened
    PROVE  \/ UNCHANGED keeper
           \/ keeper \in Procs /\ keeper' \in Outcomes
<1> DEFINE Goal == UNCHANGED keeper \/ (keeper \in Procs /\ keeper' \in Outcomes)
<1>1. ASSUME NEW p \in Procs, NEW outcome \in Outcomes, Leave(p, outcome, keeper)
      PROVE  Goal
  BY <1>1 DEF Leave
<1>2. ASSUME NEW p \in Procs, NEW reason \in Outcomes, LockReturns(p, reason, keeper)
      PROVE  Goal
  BY <1>1, <1>2, Local DEF LockReturns, TypeOK
<1>3. ASSUME NEW p \in Procs, NEW reason \in Outcomes, Raise(p, reason)
      PROVE  Goal
  BY <1>1, <1>3 DEF Raise
<1>4. ASSUME NEW p \in Procs, PreHook(p) \/ Finally(p) \/ PostHook(p) PROVE Goal
  BY <1>1, <1>4, Local DEF PreHook, Finally, PostHook, session, TypeOK
<1>5. ASSUME NEW p \in Procs,
             \/ Check(p) \/ UnlockCommit(p) \/ FifoCheck(p) \/ MkFifo(p)
             \/ RmFifo(p) \/ Decrypt(p)
      PROVE  Goal
  BY <1>3, <1>5 DEF Check, UnlockCommit, FifoCheck, MkFifo, RmFifo, Decrypt,
                    UnlockReturns, Opener, session
<1>6. ASSUME NEW p \in Procs, Mount(p) \/ Unstick(p) \/ Assign(p) \/ Ansible(p)
      PROVE  Goal
  BY <1>6 DEF Mount, Unstick, Assign, Ansible, UnlockReturns, Opener
<1>7. ASSUME NEW p \in Procs, LockCommit(p) \/ Seal(p) PROVE Goal
  BY <1>2, <1>7, Local DEF LockCommit, Seal
<1>8. ASSUME NEW p \in Procs, Interrupt(p) PROVE Goal
  BY <1>1, <1>2, <1>3, <1>8 DEF Interrupt
<1>9. ASSUME NEW p \in Procs, NEW c \in Commands, Start(p, c) PROVE Goal
  BY <1>9 DEF Start
<1>10. Edit \/ Clean \/ UNCHANGED vars \/ (\E p \in Procs : Write(p) \/ StrayEnds(p)) => Goal
  BY DEF Edit, Clean, Write, StrayEnds, vars
<1> QED BY <1>4, <1>5, <1>6, <1>7, <1>8, <1>9, <1>10 DEF Next, Progress

\* The commands implement the abstract vault.
THEOREM Refinement == Spec => ImplementsVault
<1>1. Init => V!Init
  BY DEF Init, V!Init
<1>2. IInv /\ IInv' /\ [Next]_vars => [V!Next]_<<opened, keeper>>
  <2> SUFFICES ASSUME IInv, IInv', [Next]_vars, ~UNCHANGED <<opened, keeper>>
               PROVE  V!Next
    OBVIOUS
  <2>1. /\ opened \in BOOLEAN /\ opened' \in BOOLEAN
        /\ opened <=> keeper # "nobody"
        /\ opened' <=> keeper' # "nobody"
        /\ keeper' # "none"
    BY DEF IInv, TypeOK, OpenIsAccountedFor
  <2>2. CASE opened /\ ~opened'
    BY <2>1, <2>2 DEF V!Next, V!Seal
  <2>3. CASE ~opened /\ opened'
    <3>1. PICK p \in Procs : Mount(p) \/ Decrypt(p) \/ Seal(p)
      BY <2>3, ChangesOpened
    <3>2. keeper' \in {p, "user"}
      BY <2>3, <3>1 DEF Mount, Decrypt, Seal, Opener
    <3>3. V!Open(p)
      BY <2>1, <2>3, <3>2 DEF V!Open
    <3> QED BY <3>3 DEF V!Next
  <2>4. CASE opened' = opened
    <3>1. keeper \in Procs /\ keeper' \in Outcomes
      BY <2>4, AccountsPass
    <3>2. opened
      BY <2>1, <2>4, <3>1
    <3>3. V!Abandon(keeper)
      BY <2>1, <2>4, <3>1, <3>2 DEF V!Abandon
    <3> QED BY <3>1, <3>3 DEF V!Next
  <2> QED BY <2>1, <2>2, <2>3, <2>4
<1> QED BY <1>1, <1>2, Inductive, PTL DEF Spec, V!Spec, ImplementsVault

-----------------------------------------------------------------------------
(* With one terminal.  A second command may seal the secrets while the      *)
(* first runs, or write between its commit and its seal.                    *)
Alone == \A p, q \in Procs : p = q

\* A process that leaves, raises or has locked is at a step where nothing is
\* asked of the secrets.
LEMMA WaysOut ==
    ASSUME TypeOK, NEW p \in Procs, NEW reason \in Outcomes, NEW holder
    PROVE  /\ Leave(p, reason, holder) => pc' = [pc EXCEPT ![p] = "idle"]
           /\ Raise(p, reason) => pc' = [pc EXCEPT ![p] = "finally"] \/ pc' = [pc EXCEPT ![p] = "idle"]
           /\ LockReturns(p, reason, holder) =>
                \E label \in {"idle", "lcommit", "post"} : pc' = [pc EXCEPT ![p] = label]
  BY DEF Leave, Raise, LockReturns, Goto

\* On the way to the command: EncFS has its own steps, and a command that has
\* come past opening the secrets has opened them, or found them open.
Opening == \A p \in Procs :
    /\ pc[p] \in {"fifocheck", "mkfifo", "mount", "rmfifo"} => method = "encfs"
    /\ pc[p] # "stuck"
    /\ pc[p] \in {"rmfifo", "assign", "ansible"} => opened

\* A step to a place that asks nothing keeps it.
LEMMA Elsewhere ==
    ASSUME Opening, Alone, NEW p \in Procs, TypeOK,
           NEW label \in {"idle", "check", "ucommit", "decrypt", "finally", "lcommit", "seal", "post"},
           pc' = [pc EXCEPT ![p] = label]
    PROVE  Opening'
  BY DEF Opening, Alone, TypeOK

\* Every step of the only terminal keeps it.
LEMMA OpeningStep ==
    ASSUME TypeOK, Opening, Alone, "none" \notin Methods, "encfs" \in Methods => ~ToolFailures,
           [Next]_vars
    PROVE  Opening'
<1> USE DEF Goto
<1>1. ASSUME NEW p \in Procs, NEW reason \in Outcomes, Raise(p, reason) PROVE Opening'
  BY <1>1, WaysOut, Elsewhere
<1>2. ASSUME NEW p \in Procs, NEW reason \in Outcomes, NEW holder, LockReturns(p, reason, holder)
      PROVE  Opening'
  BY <1>2, WaysOut, Elsewhere
<1>3. ASSUME NEW p \in Procs, NEW reason \in Outcomes, NEW holder, Leave(p, reason, holder)
      PROVE  Opening'
  BY <1>3, WaysOut, Elsewhere
<1>4. method \in {"encfs", "git-crypt"} /\ (method = "encfs" => ~ToolFailures)
  BY SecretsAssumption DEF TypeOK
<1>5. ASSUME NEW p \in Procs, NEW c \in Commands, Start(p, c) PROVE Opening'
  BY <1>5 DEF Start, Opening, Alone, TypeOK, vault
<1>6. ASSUME NEW p \in Procs, PreHook(p) PROVE Opening'
  <2>1. pc' = [pc EXCEPT ![p] = "lcommit"] \/ pc' = [pc EXCEPT ![p] = "check"]
        \/ Leave(p, "none", keeper)
    BY <1>6 DEF PreHook
  <2> QED BY <2>1, <1>3, Elsewhere
<1>7. ASSUME NEW p \in Procs, Check(p) PROVE Opening'
  BY <1>4, <1>7 DEF Check, UnlockReturns, Opening, Alone, TypeOK, vault
<1>8. ASSUME NEW p \in Procs, UnlockCommit(p) PROVE Opening'
  <2>1. CASE Raise(p, "raised")
    BY <1>1, <2>1
  <2>2. CASE Goto(p, IF method = "encfs" THEN "fifocheck" ELSE "decrypt")
    BY <1>8, <2>2 DEF UnlockCommit, Opening, Alone, TypeOK
  <2> QED BY <1>8, <2>1, <2>2 DEF UnlockCommit
<1>9. ASSUME NEW p \in Procs, FifoCheck(p) \/ MkFifo(p) PROVE Opening'
  <2>1. CASE Raise(p, "raised")
    BY <1>1, <2>1
  <2>2. CASE Goto(p, "mkfifo") \/ Goto(p, "mount")
    BY <1>9, <2>2 DEF FifoCheck, MkFifo, Opening, Alone, TypeOK, vault
  <2> QED BY <1>9, <2>1, <2>2 DEF FifoCheck, MkFifo
<1>10. ASSUME NEW p \in Procs, Mount(p) \/ Unstick(p) PROVE Opening'
  BY <1>4, <1>10 DEF Mount, Unstick, Opening, Alone, TypeOK
<1>11. ASSUME NEW p \in Procs, RmFifo(p) PROVE Opening'
  <2>1. CASE Raise(p, "raised")
    BY <1>1, <2>1
  <2>2. CASE Goto(p, "assign")
    BY <1>11, <2>2 DEF RmFifo, Opening, Alone, TypeOK
  <2> QED BY <1>11, <2>1, <2>2 DEF RmFifo
<1>12. ASSUME NEW p \in Procs, Decrypt(p) PROVE Opening'
  <2>1. CASE Raise(p, "raised")
    BY <1>1, <2>1
  <2>2. CASE opened' = TRUE /\ Goto(p, "assign")
    BY <1>12, <2>2 DEF Decrypt, Opening, Alone, TypeOK
  <2> QED BY <1>12, <2>1, <2>2 DEF Decrypt
<1>13. ASSUME NEW p \in Procs, Assign(p) PROVE Opening'
  BY <1>13 DEF Assign, UnlockReturns, Opening, Alone, TypeOK, vault
<1>14. ASSUME NEW p \in Procs, Ansible(p) PROVE Opening'
  BY <1>14, Elsewhere DEF Ansible
<1>15. ASSUME NEW p \in Procs, Finally(p) \/ PostHook(p) PROVE Opening'
  <2>1. why[p] \in Outcomes
    BY DEF TypeOK
  <2> QED BY <1>3, <1>15, <2>1, Elsewhere DEF Finally, PostHook
<1>16. ASSUME NEW p \in Procs, LockCommit(p) PROVE Opening'
  BY <1>2, <1>16, Elsewhere DEF LockCommit
<1>17. ASSUME NEW p \in Procs, Seal(p) PROVE Opening'
  BY <1>2, <1>17 DEF Seal
<1>18. ASSUME NEW p \in Procs, Interrupt(p) PROVE Opening'
  BY <1>1, <1>2, <1>3, <1>18, Elsewhere DEF Interrupt
<1>19. Edit \/ Clean \/ UNCHANGED vars \/ (\E p \in Procs : Write(p) \/ StrayEnds(p)) => Opening'
  BY DEF Edit, Clean, Write, StrayEnds, vars, Opening
<1> QED
  BY <1>5, <1>6, <1>7, <1>8, <1>9, <1>10, <1>11, <1>12, <1>13, <1>14, <1>15, <1>16, <1>17,
     <1>18, <1>19 DEF Next, Progress

\* The playbooks of the only terminal have access to the secrets, whatever is
\* interrupted and edited: with git-crypt always, and with EncFS as long as
\* encfs does not fail, which unlock() would not notice.
THEOREM Access ==
    ASSUME Alone, "none" \notin Methods, "encfs" \in Methods => ~ToolFailures
    PROVE  Spec => []CommandSeesSecrets
<1>1. Init => Opening
  BY DEF Init, Opening
<1>2. TypeOK /\ Opening /\ [Next]_vars => Opening'
  BY OpeningStep
<1>3. Opening => CommandSeesSecrets
  BY DEF Opening, CommandSeesSecrets
<1> QED BY <1>1, <1>2, <1>3, Typing, PTL DEF Spec

\* A step that writes nothing and does not go on to the seal is harmless.
LEMMA BeforeTheSeal ==
    ASSUME TypeOK, OnlyStraysSpoilTheLock, Alone, NEW p \in Procs,
           NEW label \in Labels \ {"seal"}, pc' = [pc EXCEPT ![p] = label]
    PROVE  OnlyStraysSpoilTheLock'
  BY DEF OnlyStraysSpoilTheLock, Alone, TypeOK

\* Every step of the only terminal and of its strays keeps the tree clean between
\* the commit and the seal, unless it is a stray that writes.
LEMMA SpoilingStep ==
    ASSUME TypeOK, OnlyStraysSpoilTheLock, Alone, AutoCommit, ~Editor, [Next]_vars
    PROVE  OnlyStraysSpoilTheLock'
<1> DEFINE Goal == OnlyStraysSpoilTheLock'
<1> USE DEF Goto
<1>1. ASSUME NEW p \in Procs, NEW reason \in Outcomes, Raise(p, reason) PROVE Goal
  BY <1>1, WaysOut, BeforeTheSeal
<1>2. ASSUME NEW p \in Procs, NEW reason \in Outcomes, NEW holder, LockReturns(p, reason, holder)
      PROVE  Goal
  BY <1>2, WaysOut, BeforeTheSeal
<1>3. ASSUME NEW p \in Procs, NEW reason \in Outcomes, NEW holder, Leave(p, reason, holder)
      PROVE  Goal
  BY <1>3, WaysOut, BeforeTheSeal
<1>4. ASSUME NEW p \in Procs, NEW c \in Commands, Start(p, c) PROVE Goal
  BY <1>4, BeforeTheSeal DEF Start
<1>5. ASSUME NEW p \in Procs,
             \/ PreHook(p) \/ Check(p) \/ UnlockCommit(p) \/ FifoCheck(p) \/ MkFifo(p)
             \/ Mount(p) \/ Unstick(p) \/ RmFifo(p) \/ Decrypt(p) \/ Assign(p)
             \/ Ansible(p) \/ Finally(p) \/ PostHook(p)
      PROVE  Goal
  <2>1. \/ Raise(p, "raised")
        \/ \E reason \in Outcomes : Leave(p, reason, keeper)
        \/ \E label \in Labels \ {"seal"} : pc' = [pc EXCEPT ![p] = label]
    BY <1>5 DEF PreHook, Check, UnlockCommit, FifoCheck, MkFifo, Mount, Unstick, RmFifo, Decrypt,
                Assign, Ansible, Finally, PostHook, UnlockReturns, TypeOK
  <2> QED BY <1>1, <1>3, <2>1, BeforeTheSeal
<1>6. ASSUME NEW p \in Procs, LockCommit(p) PROVE Goal
  <2>1. CASE Commits
    BY <2>1 DEF Commits, OnlyStraysSpoilTheLock
  <2> QED BY <1>2, <1>6, <2>1 DEF LockCommit
<1>7. ASSUME NEW p \in Procs, Seal(p) PROVE Goal
  BY <1>2, <1>7 DEF Seal
<1>8. ASSUME NEW p \in Procs, Interrupt(p) PROVE Goal
  BY <1>1, <1>2, <1>3, <1>8, BeforeTheSeal DEF Interrupt
<1>9. ASSUME NEW p \in Procs, Write(p) PROVE Goal
  \* A playbook that has not been interrupted writes, and its terminal waits.
  <2>1. CASE pc[p] = "ansible" /\ UNCHANGED pc
    BY <2>1 DEF OnlyStraysSpoilTheLock, Alone
  <2>2. CASE late' = TRUE
    BY <2>2 DEF OnlyStraysSpoilTheLock
  <2> QED BY <1>9, <2>1, <2>2 DEF Write
<1>10. ASSUME UNCHANGED <<dirty, late, pc>> PROVE Goal
  BY <1>10 DEF OnlyStraysSpoilTheLock
<1>11. Clean \/ UNCHANGED vars \/ (\E p \in Procs : StrayEnds(p)) => Goal
  BY <1>10 DEF Clean, StrayEnds, tree, vars
<1>12. ~Edit
  BY DEF Edit
<1> QED
  BY <1>4, <1>5, <1>6, <1>7, <1>8, <1>9, <1>11, <1>12 DEF Next, Progress

\* With commits and nobody editing beside the only terminal, git-crypt lock
\* finds the tree dirty only if a playbook that outlived its interrupt has
\* written after the commit.
THEOREM Unspoilt ==
    ASSUME Alone, AutoCommit, ~Editor
    PROVE  Spec => []OnlyStraysSpoilTheLock
<1>1. Init => OnlyStraysSpoilTheLock
  BY DEF Init, OnlyStraysSpoilTheLock
<1>2. TypeOK /\ OnlyStraysSpoilTheLock /\ [Next]_vars => OnlyStraysSpoilTheLock'
  BY SpoilingStep
<1> QED BY <1>1, <1>2, Typing, PTL DEF Spec
=============================================================================
