----------------------------- MODULE VenvProofs -----------------------------
(***************************************************************************)
(* The theorems about Venv: what the four commands promise holds for any   *)
(* packages, collections and versions, whatever failed before.  Each       *)
(* promise follows from an invariant that says how far the running command *)
(* has got with it.                                                        *)
(***************************************************************************)
EXTENDS Venv, TLAPS

Later == {"fromlock", "galaxy", "freeze", "write", "freezelock", "writelock"}
Done == pc = "ended" /\ outcome = "ok"

\* Which steps are taken on behalf of which command.
Course ==
    /\ pc \in {"rmvenv", "rmcoll"} => cmd = "recreate"
    /\ pc \in {"rmvenv", "create", "selfpip", "seed", "pip"} =>
          WithPython /\ cmd \in {"install", "recreate"}
    /\ pc = "fromlock" => cmd \in {"install", "recreate"}
    /\ pc = "upgrade" => cmd = "upgrade"
    /\ pc \in {"rmcoll", "fromlock", "galaxy", "freezelock", "writelock"} => WithCollections

\* The requirements file until pip reads it: as the command found it, or the
\* seed, which lists the package with ansible-galaxy, if there was none.
FileInv ==
    /\ ~hasreq => req = Nothing(Packages)
    /\ pc = "write" => hasreq
    /\ pc \in {"rmvenv", "rmcoll", "create", "selfpip", "seed", "upgrade"} =>
          req = start.req /\ hasreq = start.hasreq
    /\ pc = "pip" =>
          IF start.hasreq THEN req = start.req
          ELSE start.req = Nothing(Packages) /\ req[Galaxy] = Any

\* From pip on, the environment has the versions that were asked for.
PinsInv ==
    (pc \in Later \/ Done) /\ cmd \in {"install", "recreate"} /\ WithPython =>
        \A p \in Packages : start.req[p] \in Versions => inst[p] = start.req[p]

\* A recreation starts from an empty environment.
ScratchInv ==
    cmd = "recreate" /\ WithPython =>
        /\ pc \in {"rmcoll", "create", "selfpip", "seed", "pip"} => inst = Nothing(Packages)
        /\ (pc \in Later \/ Done) /\ start.hasreq =>
              \A p \in Packages : inst[p] # None => start.req[p] # None

\* ... and makes one that works before it needs it.
WorkingInv ==
    cmd = "recreate" /\ WithPython =>
        /\ pc \in {"rmcoll", "create"} => venv = "absent"
        /\ pc \in Later \union {"selfpip", "seed", "pip"} => venv = "ready"
        /\ pc \in Later => inst[Galaxy] # None \/ (start.hasreq /\ start.req[Galaxy] = None)
        /\ pc = "ended" /\ outcome = "missing" =>
              WithCollections /\ start.hasreq /\ start.req[Galaxy] = None

\* An upgrade has moved only what it manages.
MovedInv ==
    cmd = "upgrade" /\ pc # "idle" =>
        /\ pc = "upgrade" => inst = start.inst
        /\ \A p \in Packages : inst[p] # start.inst[p] =>
              p \in Seed /\ start.hasreq /\ start.req[p] # None

\* The lock file is there until it has been installed, and its versions stay
\* installed unless the requirements ask for another.
LockInv ==
    cmd \in {"install", "recreate"} /\ WithCollections =>
        /\ pc \in {"rmvenv", "rmcoll", "create", "selfpip", "seed", "pip", "fromlock"} =>
              lock = start.lock /\ Torn = start.torn
        /\ pc \in {"galaxy", "freeze", "write", "freezelock", "writelock"} \/ Done => ~start.torn
        /\ pc = "galaxy" =>
              \A c \in Collections : start.lock[c] \in Versions => coll[c] = start.lock[c]
        /\ pc \in {"freeze", "write", "freezelock", "writelock"} \/ Done =>
              \A c \in Collections :
                  start.lock[c] \in Versions /\ creq[c] \in {None, Any, start.lock[c]}
                      => coll[c] = start.lock[c]

\* What has been frozen describes what is installed.
FrozenInv ==
    /\ WithPython /\ (pc \in {"freezelock", "writelock"} \/ Done) => hasreq /\ req = inst
    /\ Done /\ WithCollections => \A c \in Lockable : lock[c] = coll[c]

IInv ==
    /\ TypeOK /\ Course /\ FileInv /\ PinsInv /\ ScratchInv
    /\ WorkingInv /\ MovedInv /\ LockInv /\ FrozenInv

-----------------------------------------------------------------------------

\* Every step keeps the types.
LEMMA TypeStep ==
    ASSUME TypeOK, [Next]_vars
    PROVE  TypeOK'
PROOF
<1> USE DEF TypeOK
<1>1. CASE \E c \in Commands, s \in Scopes : Start(c, s)
  BY <1>1, VenvAssumption DEF Start, Commands, Snapshot, Torn, python, galaxy, Pins, Steps
<1>2. CASE RmVenv
  BY <1>2 DEF RmVenv, Goto, End, WithCollections, python, galaxy, call, Nothing,
      VenvStates, Steps, Outcomes
<1>3. CASE RmColl
  BY <1>3 DEF RmColl, Goto, End, WithPython, python, galaxy, call, Nothing, Steps,
      Outcomes
<1>4. CASE Create
  BY <1>4 DEF Create, Goto, End, Breaks, exists, python, galaxy, call, VenvStates,
      Steps, Outcomes
<1>5. CASE SelfPip
  BY <1>5 DEF SelfPip, Goto, End, Breaks, python, galaxy, call, Steps, Outcomes
<1>6. CASE SeedFile
  BY <1>6 DEF SeedFile, Goto, End, python, galaxy, call, Nothing, Pins, Steps, Outcomes
<1>7. CASE Pip
  BY <1>7 DEF Pip, ToCollections, Goto, End, Breaks, WithCollections, python,
      galaxy, call, Steps, Outcomes
<1>8. CASE Upgrade
  BY <1>8 DEF Upgrade, ToCollections, Goto, End, Breaks, exists, WithCollections,
      python, galaxy, call, Steps, Outcomes
<1>9. CASE FromLock
  BY <1>9 DEF FromLock, Goto, End, Breaks, python, galaxy, call, Steps, Outcomes
<1>10. CASE GalaxyInstall
  BY <1>10 DEF GalaxyInstall, ToFreeze, Goto, End, Breaks, WithPython, python,
      galaxy, call, Steps, Outcomes
<1>11. CASE Freeze
  BY <1>11 DEF Freeze, Goto, End, Breaks, python, galaxy, call, Nothing, Pins,
      Steps, Outcomes
<1>12. CASE Write
  BY <1>12 DEF Write, AfterFreeze, Goto, End, WithCollections, python, galaxy, call,
      Pins, Steps, Outcomes
<1>13. CASE FreezeLock
  BY <1>13 DEF FreezeLock, Goto, End, Breaks, python, galaxy, call, Nothing, Steps,
      Outcomes
<1>14. CASE WriteLock
  BY <1>14 DEF WriteLock, End, python, galaxy, call, Lockable, Outcomes
<1>15. CASE Rest
  BY <1>15 DEF Rest, python, galaxy, Commands, Outcomes, Blank, Nothing, Pins
<1>16. CASE \E p \in Packages, pin \in Pins : EditPackage(p, pin)
  BY <1>16 DEF EditPackage, python, galaxy, call
<1>17. CASE \E c \in Collections, pin \in Pins : EditCollection(c, pin)
  BY <1>17 DEF EditCollection, python, galaxy, call
<1>18. CASE UNCHANGED vars
  BY <1>18 DEF vars
<1>19. QED
  BY <1>1, <1>2, <1>3, <1>4, <1>5, <1>6, <1>7, <1>8, <1>9, <1>10, <1>11, <1>12,
      <1>13, <1>14, <1>15, <1>16, <1>17, <1>18 DEF Next

\* Every step stays on its command's course.
LEMMA CourseStep ==
    ASSUME TypeOK, Course, [Next]_vars
    PROVE  Course'
PROOF
<1> USE DEF Course, WithPython, WithCollections
<1>1. CASE \E c \in Commands, s \in Scopes : Start(c, s)
  BY <1>1, VenvAssumption DEF Start, Commands, Snapshot, Torn, python, galaxy
<1>2. CASE RmVenv
  BY <1>2 DEF RmVenv, Goto, End, python, galaxy, call
<1>3. CASE RmColl
  BY <1>3 DEF RmColl, Goto, End, python, galaxy, call
<1>4. CASE Create
  BY <1>4 DEF Create, Goto, End, Breaks, exists, python, galaxy, call
<1>5. CASE SelfPip
  BY <1>5 DEF SelfPip, Goto, End, Breaks, python, galaxy, call
<1>6. CASE SeedFile
  BY <1>6 DEF SeedFile, Goto, End, python, galaxy, call
<1>7. CASE Pip
  BY <1>7 DEF Pip, ToCollections, Goto, End, Breaks, python, galaxy, call
<1>8. CASE Upgrade
  BY <1>8 DEF Upgrade, ToCollections, Goto, End, Breaks, exists, python, galaxy, call
<1>9. CASE FromLock
  BY <1>9 DEF FromLock, Goto, End, Breaks, python, galaxy, call
<1>10. CASE GalaxyInstall
  BY <1>10 DEF GalaxyInstall, ToFreeze, Goto, End, Breaks, python, galaxy, call
<1>11. CASE Freeze
  BY <1>11 DEF Freeze, Goto, End, Breaks, python, galaxy, call
<1>12. CASE Write
  BY <1>12 DEF Write, AfterFreeze, Goto, End, python, galaxy, call
<1>13. CASE FreezeLock
  BY <1>13 DEF FreezeLock, Goto, End, Breaks, python, galaxy, call
<1>14. CASE WriteLock
  BY <1>14 DEF WriteLock, End, python, galaxy, call
<1>15. CASE Rest
  BY <1>15 DEF Rest, python, galaxy
<1>16. CASE \E p \in Packages, pin \in Pins : EditPackage(p, pin)
  BY <1>16 DEF EditPackage, python, galaxy, call
<1>17. CASE \E c \in Collections, pin \in Pins : EditCollection(c, pin)
  BY <1>17 DEF EditCollection, python, galaxy, call
<1>18. CASE UNCHANGED vars
  BY <1>18 DEF vars
<1>19. QED
  BY <1>1, <1>2, <1>3, <1>4, <1>5, <1>6, <1>7, <1>8, <1>9, <1>10, <1>11, <1>12,
      <1>13, <1>14, <1>15, <1>16, <1>17, <1>18 DEF Next

\* The requirements file is not touched before pip has read it, but to make it.
LEMMA FileStep ==
    ASSUME TypeOK, Course, FileInv, [Next]_vars
    PROVE  FileInv'
PROOF
<1> USE DEF FileInv
<1>1. CASE \E c \in Commands, s \in Scopes : Start(c, s)
  BY <1>1, VenvAssumption DEF Start, Commands, Snapshot, Torn, python, galaxy
<1>2. CASE RmVenv
  BY <1>2 DEF RmVenv, Goto, End, WithCollections, python, galaxy, call, Course
<1>3. CASE RmColl
  BY <1>3 DEF RmColl, Goto, End, WithPython, python, galaxy, call
<1>4. CASE Create
  BY <1>4 DEF Create, Goto, End, Breaks, exists, python, galaxy, call
<1>5. CASE SelfPip
  BY <1>5 DEF SelfPip, Goto, End, Breaks, python, galaxy, call
<1>6. CASE SeedFile
  BY <1>6, VenvAssumption DEF SeedFile, Goto, End, python, galaxy, call, Nothing, TypeOK
<1>7. CASE Pip
  BY <1>7 DEF Pip, ToCollections, Goto, End, Breaks, WithCollections, python,
      galaxy, call
<1>8. CASE Upgrade
  BY <1>8 DEF Upgrade, ToCollections, Goto, End, Breaks, exists, WithCollections,
      python, galaxy, call
<1>9. CASE FromLock
  BY <1>9 DEF FromLock, Goto, End, Breaks, python, galaxy, call
<1>10. CASE GalaxyInstall
  BY <1>10 DEF GalaxyInstall, ToFreeze, Goto, End, Breaks, WithPython, python,
      galaxy, call
<1>11. CASE Freeze
  BY <1>11 DEF Freeze, Goto, End, Breaks, python, galaxy, call
<1>12. CASE Write
  BY <1>12 DEF Write, AfterFreeze, Goto, End, WithCollections, python, galaxy, call
<1>13. CASE FreezeLock
  BY <1>13 DEF FreezeLock, Goto, End, Breaks, python, galaxy, call
<1>14. CASE WriteLock
  BY <1>14 DEF WriteLock, End, python, galaxy, call
<1>15. CASE Rest
  BY <1>15 DEF Rest, python, galaxy
<1>16. CASE \E p \in Packages, pin \in Pins : EditPackage(p, pin)
  BY <1>16 DEF EditPackage, python, galaxy, call, TypeOK
<1>17. CASE \E c \in Collections, pin \in Pins : EditCollection(c, pin)
  BY <1>17 DEF EditCollection, python, galaxy, call
<1>18. CASE UNCHANGED vars
  BY <1>18 DEF vars
<1>19. QED
  BY <1>1, <1>2, <1>3, <1>4, <1>5, <1>6, <1>7, <1>8, <1>9, <1>10, <1>11, <1>12,
      <1>13, <1>14, <1>15, <1>16, <1>17, <1>18 DEF Next

\* pip installs the versions asked for and nothing changes them after it.
LEMMA PinsStep ==
    ASSUME TypeOK, Course, FileInv, PinsInv, [Next]_vars
    PROVE  PinsInv'
PROOF
<1> USE DEF PinsInv, Later, Done
<1>1. CASE \E c \in Commands, s \in Scopes : Start(c, s)
  BY <1>1, VenvAssumption DEF Start, Commands, Snapshot, Torn, python, galaxy, WithPython
<1>2. CASE RmVenv
  BY <1>2 DEF RmVenv, Goto, End, WithCollections, python, galaxy, call, Course
<1>3. CASE RmColl
  BY <1>3 DEF RmColl, Goto, End, WithPython, python, galaxy, call, Course
<1>4. CASE Create
  BY <1>4 DEF Create, Goto, End, Breaks, exists, python, galaxy, call, WithPython
<1>5. CASE SelfPip
  BY <1>5 DEF SelfPip, Goto, End, Breaks, python, galaxy, call, WithPython
<1>6. CASE SeedFile
  BY <1>6 DEF SeedFile, Goto, End, python, galaxy, call, WithPython
<1>7. CASE Pip
  BY <1>7, VenvAssumption DEF Pip, ToCollections, Goto, End, Breaks,
      WithCollections, python, galaxy, call, FileInv, TypeOK, Satisfied, Satisfying,
      Nothing, Course, Pins
<1>8. CASE Upgrade
  BY <1>8 DEF Upgrade, ToCollections, Goto, End, Breaks, exists, WithCollections,
      python, galaxy, call, Course
<1>9. CASE FromLock
  BY <1>9 DEF FromLock, Goto, End, Breaks, python, galaxy, call, WithPython
<1>10. CASE GalaxyInstall
  BY <1>10 DEF GalaxyInstall, ToFreeze, Goto, End, Breaks, WithPython, python,
      galaxy, call
<1>11. CASE Freeze
  BY <1>11 DEF Freeze, Goto, End, Breaks, python, galaxy, call, WithPython
<1>12. CASE Write
  BY <1>12 DEF Write, AfterFreeze, Goto, End, WithCollections, python, galaxy, call,
      WithPython
<1>13. CASE FreezeLock
  BY <1>13 DEF FreezeLock, Goto, End, Breaks, python, galaxy, call, WithPython
<1>14. CASE WriteLock
  BY <1>14 DEF WriteLock, End, python, galaxy, call, WithPython
<1>15. CASE Rest
  BY <1>15 DEF Rest, python, galaxy
<1>16. CASE \E p \in Packages, pin \in Pins : EditPackage(p, pin)
  BY <1>16 DEF EditPackage, python, galaxy, call
<1>17. CASE \E c \in Collections, pin \in Pins : EditCollection(c, pin)
  BY <1>17 DEF EditCollection, python, galaxy, call
<1>18. CASE UNCHANGED vars
  BY <1>18 DEF vars, WithPython
<1>19. QED
  BY <1>1, <1>2, <1>3, <1>4, <1>5, <1>6, <1>7, <1>8, <1>9, <1>10, <1>11, <1>12,
      <1>13, <1>14, <1>15, <1>16, <1>17, <1>18 DEF Next

\* A recreation installs only what is listed.
LEMMA ScratchStep ==
    ASSUME TypeOK, Course, FileInv, ScratchInv, [Next]_vars
    PROVE  ScratchInv'
PROOF
<1> USE DEF ScratchInv, Later, Done, WithPython
<1>1. CASE \E c \in Commands, s \in Scopes : Start(c, s)
  BY <1>1, VenvAssumption DEF Start, Commands, Snapshot, Torn, python, galaxy
<1>2. CASE RmVenv
  BY <1>2 DEF RmVenv, Goto, End, WithCollections, python, galaxy, call
<1>3. CASE RmColl
  BY <1>3 DEF RmColl, Goto, End, python, galaxy, call, Course
<1>4. CASE Create
  BY <1>4 DEF Create, Goto, End, Breaks, exists, python, galaxy, call
<1>5. CASE SelfPip
  BY <1>5 DEF SelfPip, Goto, End, Breaks, python, galaxy, call
<1>6. CASE SeedFile
  BY <1>6 DEF SeedFile, Goto, End, python, galaxy, call
<1>7. CASE Pip
  BY <1>7, VenvAssumption DEF Pip, ToCollections, Goto, End, Breaks,
      WithCollections, python, galaxy, call, FileInv, TypeOK, Satisfied, Satisfying,
      Nothing, Course, Pins
<1>8. CASE Upgrade
  BY <1>8 DEF Upgrade, ToCollections, Goto, End, Breaks, exists, WithCollections,
      python, galaxy, call, Course
<1>9. CASE FromLock
  BY <1>9 DEF FromLock, Goto, End, Breaks, python, galaxy, call
<1>10. CASE GalaxyInstall
  BY <1>10 DEF GalaxyInstall, ToFreeze, Goto, End, Breaks, python, galaxy, call
<1>11. CASE Freeze
  BY <1>11 DEF Freeze, Goto, End, Breaks, python, galaxy, call
<1>12. CASE Write
  BY <1>12 DEF Write, AfterFreeze, Goto, End, WithCollections, python, galaxy, call
<1>13. CASE FreezeLock
  BY <1>13 DEF FreezeLock, Goto, End, Breaks, python, galaxy, call
<1>14. CASE WriteLock
  BY <1>14 DEF WriteLock, End, python, galaxy, call
<1>15. CASE Rest
  BY <1>15 DEF Rest, python, galaxy
<1>16. CASE \E p \in Packages, pin \in Pins : EditPackage(p, pin)
  BY <1>16 DEF EditPackage, python, galaxy, call
<1>17. CASE \E c \in Collections, pin \in Pins : EditCollection(c, pin)
  BY <1>17 DEF EditCollection, python, galaxy, call
<1>18. CASE UNCHANGED vars
  BY <1>18 DEF vars
<1>19. QED
  BY <1>1, <1>2, <1>3, <1>4, <1>5, <1>6, <1>7, <1>8, <1>9, <1>10, <1>11, <1>12,
      <1>13, <1>14, <1>15, <1>16, <1>17, <1>18 DEF Next

\* A recreation is refused only for want of ansible-galaxy.
LEMMA WorkingStep ==
    ASSUME TypeOK, Course, FileInv, WorkingInv, [Next]_vars
    PROVE  WorkingInv'
PROOF
<1> USE DEF WorkingInv, Later, WithPython, WithCollections
<1>1. CASE \E c \in Commands, s \in Scopes : Start(c, s)
  BY <1>1, VenvAssumption DEF Start, Commands, Snapshot, Torn, python, galaxy
<1>2. CASE RmVenv
  BY <1>2 DEF RmVenv, Goto, End, python, galaxy, call
<1>3. CASE RmColl
  BY <1>3 DEF RmColl, Goto, End, python, galaxy, call, Course
<1>4. CASE Create
  BY <1>4 DEF Create, Goto, End, Breaks, exists, python, galaxy, call
<1>5. CASE SelfPip
  BY <1>5 DEF SelfPip, Goto, End, Breaks, python, galaxy, call
<1>6. CASE SeedFile
  BY <1>6 DEF SeedFile, Goto, End, python, galaxy, call
<1>7. CASE Pip
  BY <1>7, VenvAssumption DEF Pip, ToCollections, Goto, End, Breaks, python, galaxy,
      call, FileInv, TypeOK, Satisfied, Satisfying, Nothing, Course, Pins
<1>8. CASE Upgrade
  BY <1>8 DEF Upgrade, ToCollections, Goto, End, Breaks, exists, python, galaxy,
      call, Course
<1>9. CASE FromLock
  BY <1>9 DEF FromLock, Goto, End, Breaks, python, galaxy, call, HasGalaxy, exists,
      Course
<1>10. CASE GalaxyInstall
  BY <1>10 DEF GalaxyInstall, ToFreeze, Goto, End, Breaks, python, galaxy, call,
      HasGalaxy, exists, Course
<1>11. CASE Freeze
  BY <1>11 DEF Freeze, Goto, End, Breaks, python, galaxy, call
<1>12. CASE Write
  BY <1>12 DEF Write, AfterFreeze, Goto, End, python, galaxy, call
<1>13. CASE FreezeLock
  BY <1>13 DEF FreezeLock, Goto, End, Breaks, python, galaxy, call, HasGalaxy,
      exists, Course
<1>14. CASE WriteLock
  BY <1>14 DEF WriteLock, End, python, galaxy, call
<1>15. CASE Rest
  BY <1>15 DEF Rest, python, galaxy
<1>16. CASE \E p \in Packages, pin \in Pins : EditPackage(p, pin)
  BY <1>16 DEF EditPackage, python, galaxy, call
<1>17. CASE \E c \in Collections, pin \in Pins : EditCollection(c, pin)
  BY <1>17 DEF EditCollection, python, galaxy, call
<1>18. CASE UNCHANGED vars
  BY <1>18 DEF vars
<1>19. QED
  BY <1>1, <1>2, <1>3, <1>4, <1>5, <1>6, <1>7, <1>8, <1>9, <1>10, <1>11, <1>12,
      <1>13, <1>14, <1>15, <1>16, <1>17, <1>18 DEF Next

\* An upgrade moves only what it manages.
LEMMA MovedStep ==
    ASSUME TypeOK, Course, FileInv, MovedInv, [Next]_vars
    PROVE  MovedInv'
PROOF
<1> USE DEF MovedInv
<1>1. CASE \E c \in Commands, s \in Scopes : Start(c, s)
  BY <1>1, VenvAssumption DEF Start, Commands, Snapshot, Torn, python, galaxy
<1>2. CASE RmVenv
  BY <1>2 DEF RmVenv, Goto, End, WithCollections, python, galaxy, call, Course
<1>3. CASE RmColl
  BY <1>3 DEF RmColl, Goto, End, WithPython, python, galaxy, call, Course
<1>4. CASE Create
  BY <1>4 DEF Create, Goto, End, Breaks, exists, python, galaxy, call, Course
<1>5. CASE SelfPip
  BY <1>5 DEF SelfPip, Goto, End, Breaks, python, galaxy, call, Course
<1>6. CASE SeedFile
  BY <1>6 DEF SeedFile, Goto, End, python, galaxy, call, Course
<1>7. CASE Pip
  BY <1>7 DEF Pip, ToCollections, Goto, End, Breaks, WithCollections, python,
      galaxy, call, Course
<1>8. CASE Upgrade
  BY <1>8 DEF Upgrade, ToCollections, Goto, End, Breaks, exists, WithCollections,
      python, galaxy, call, Managed, FileInv, TypeOK
<1>9. CASE FromLock
  BY <1>9 DEF FromLock, Goto, End, Breaks, python, galaxy, call, Course
<1>10. CASE GalaxyInstall
  BY <1>10 DEF GalaxyInstall, ToFreeze, Goto, End, Breaks, WithPython, python,
      galaxy, call
<1>11. CASE Freeze
  BY <1>11 DEF Freeze, Goto, End, Breaks, python, galaxy, call
<1>12. CASE Write
  BY <1>12 DEF Write, AfterFreeze, Goto, End, WithCollections, python, galaxy, call
<1>13. CASE FreezeLock
  BY <1>13 DEF FreezeLock, Goto, End, Breaks, python, galaxy, call
<1>14. CASE WriteLock
  BY <1>14 DEF WriteLock, End, python, galaxy, call
<1>15. CASE Rest
  BY <1>15 DEF Rest, python, galaxy
<1>16. CASE \E p \in Packages, pin \in Pins : EditPackage(p, pin)
  BY <1>16 DEF EditPackage, python, galaxy, call
<1>17. CASE \E c \in Collections, pin \in Pins : EditCollection(c, pin)
  BY <1>17 DEF EditCollection, python, galaxy, call
<1>18. CASE UNCHANGED vars
  BY <1>18 DEF vars
<1>19. QED
  BY <1>1, <1>2, <1>3, <1>4, <1>5, <1>6, <1>7, <1>8, <1>9, <1>10, <1>11, <1>12,
      <1>13, <1>14, <1>15, <1>16, <1>17, <1>18 DEF Next

\* The locked versions are installed and stay.
LEMMA LockStep ==
    ASSUME TypeOK, Course, LockInv, [Next]_vars
    PROVE  LockInv'
PROOF
<1> USE DEF LockInv, Done, WithCollections, Torn
<1>1. CASE \E c \in Commands, s \in Scopes : Start(c, s)
  BY <1>1, VenvAssumption DEF Start, Commands, Snapshot, Torn, python, galaxy
<1>2. CASE RmVenv
  BY <1>2 DEF RmVenv, Goto, End, python, galaxy, call
<1>3. CASE RmColl
  BY <1>3 DEF RmColl, Goto, End, WithPython, python, galaxy, call
<1>4. CASE Create
  BY <1>4 DEF Create, Goto, End, Breaks, exists, python, galaxy, call
<1>5. CASE SelfPip
  BY <1>5 DEF SelfPip, Goto, End, Breaks, python, galaxy, call
<1>6. CASE SeedFile
  BY <1>6 DEF SeedFile, Goto, End, python, galaxy, call
<1>7. CASE Pip
  BY <1>7 DEF Pip, ToCollections, Goto, End, Breaks, python, galaxy, call
<1>8. CASE Upgrade
  BY <1>8 DEF Upgrade, ToCollections, Goto, End, Breaks, exists, python, galaxy,
      call, Course
<1>9. CASE FromLock
  BY <1>9, VenvAssumption DEF FromLock, Goto, End, Breaks, python, galaxy, call,
      Satisfied, Satisfying, TypeOK, Pins, HasGalaxy
<1>10. CASE GalaxyInstall
  BY <1>10, VenvAssumption DEF GalaxyInstall, ToFreeze, Goto, End, Breaks,
      WithPython, python, galaxy, call, Satisfied, Satisfying, Installed, TypeOK,
      Pins
<1>11. CASE Freeze
  BY <1>11 DEF Freeze, Goto, End, Breaks, python, galaxy, call
<1>12. CASE Write
  BY <1>12 DEF Write, AfterFreeze, Goto, End, python, galaxy, call
<1>13. CASE FreezeLock
  BY <1>13 DEF FreezeLock, Goto, End, Breaks, python, galaxy, call
<1>14. CASE WriteLock
  BY <1>14 DEF WriteLock, End, python, galaxy, call
<1>15. CASE Rest
  BY <1>15 DEF Rest, python, galaxy
<1>16. CASE \E p \in Packages, pin \in Pins : EditPackage(p, pin)
  BY <1>16 DEF EditPackage, python, galaxy, call
<1>17. CASE \E c \in Collections, pin \in Pins : EditCollection(c, pin)
  BY <1>17 DEF EditCollection, python, galaxy, call
<1>18. CASE UNCHANGED vars
  BY <1>18 DEF vars
<1>19. QED
  BY <1>1, <1>2, <1>3, <1>4, <1>5, <1>6, <1>7, <1>8, <1>9, <1>10, <1>11, <1>12,
      <1>13, <1>14, <1>15, <1>16, <1>17, <1>18 DEF Next

\* What is frozen describes what is installed.
LEMMA FrozenStep ==
    ASSUME TypeOK, Course, FileInv, FrozenInv, [Next]_vars
    PROVE  FrozenInv'
PROOF
<1> USE DEF FrozenInv, Done, WithPython, WithCollections
<1>1. CASE \E c \in Commands, s \in Scopes : Start(c, s)
  BY <1>1, VenvAssumption DEF Start, Commands, Snapshot, Torn, python, galaxy
<1>2. CASE RmVenv
  BY <1>2 DEF RmVenv, Goto, End, python, galaxy, call
<1>3. CASE RmColl
  BY <1>3 DEF RmColl, Goto, End, python, galaxy, call, Course
<1>4. CASE Create
  BY <1>4 DEF Create, Goto, End, Breaks, exists, python, galaxy, call
<1>5. CASE SelfPip
  BY <1>5 DEF SelfPip, Goto, End, Breaks, python, galaxy, call
<1>6. CASE SeedFile
  BY <1>6 DEF SeedFile, Goto, End, python, galaxy, call
<1>7. CASE Pip
  BY <1>7 DEF Pip, ToCollections, Goto, End, Breaks, python, galaxy, call
<1>8. CASE Upgrade
  BY <1>8 DEF Upgrade, ToCollections, Goto, End, Breaks, exists, python, galaxy, call
<1>9. CASE FromLock
  BY <1>9 DEF FromLock, Goto, End, Breaks, python, galaxy, call
<1>10. CASE GalaxyInstall
  BY <1>10 DEF GalaxyInstall, ToFreeze, Goto, End, Breaks, python, galaxy, call
<1>11. CASE Freeze
  BY <1>11 DEF Freeze, Goto, End, Breaks, python, galaxy, call
<1>12. CASE Write
  BY <1>12 DEF Write, AfterFreeze, Goto, End, python, galaxy, call, TypeOK, FileInv
<1>13. CASE FreezeLock
  BY <1>13 DEF FreezeLock, Goto, End, Breaks, python, galaxy, call, Lockable,
      Nothing, Course
<1>14. CASE WriteLock
  BY <1>14 DEF WriteLock, End, python, galaxy, call, Lockable, TypeOK
<1>15. CASE Rest
  BY <1>15 DEF Rest, python, galaxy
<1>16. CASE \E p \in Packages, pin \in Pins : EditPackage(p, pin)
  BY <1>16 DEF EditPackage, python, galaxy, call
<1>17. CASE \E c \in Collections, pin \in Pins : EditCollection(c, pin)
  BY <1>17 DEF EditCollection, python, galaxy, call
<1>18. CASE UNCHANGED vars
  BY <1>18 DEF vars, Lockable
<1>19. QED
  BY <1>1, <1>2, <1>3, <1>4, <1>5, <1>6, <1>7, <1>8, <1>9, <1>10, <1>11, <1>12,
      <1>13, <1>14, <1>15, <1>16, <1>17, <1>18 DEF Next

-----------------------------------------------------------------------------

\* The invariant holds whatever the commands do.
THEOREM Inductive == Spec => []IInv
PROOF
<1>1. Init => IInv
  BY VenvAssumption
  DEF Init, IInv, TypeOK, Course, FileInv, PinsInv, ScratchInv, WorkingInv, MovedInv,
      LockInv, FrozenInv, Nothing, Pins, VenvStates, Commands, Outcomes, Blank, Later, Done, Torn
<1>2. IInv /\ [Next]_vars => IInv'
  BY TypeStep, CourseStep, FileStep, PinsStep, ScratchStep, WorkingStep, MovedStep,
     LockStep, FrozenStep DEF IInv
<1>3. QED
  BY <1>1, <1>2, PTL DEF Spec

\* The variables keep their types.
THEOREM Typing == Spec => []TypeOK
PROOF
<1>1. IInv => TypeOK
  BY DEF IInv
<1>2. QED
  BY <1>1, Inductive, PTL

\* An install or recreate that succeeds has installed every version that the
\* requirements file gave, whatever earlier commands left behind.
THEOREM Reproduction == Spec => []Reproduces
PROOF
<1>1. IInv => Reproduces
  BY DEF IInv, PinsInv, Reproduces, Succeeded, Done
<1>2. QED
  BY <1>1, Inductive, PTL

\* A recreation leaves no unlisted package behind.
THEOREM Scratch == Spec => []FromScratch
PROOF
<1>1. IInv => FromScratch
  BY DEF IInv, ScratchInv, FromScratch, Succeeded, Done
<1>2. QED
  BY <1>1, Inductive, PTL

\* No broken environment makes recreate refuse.
THEOREM Recovery == Spec => []RecreateRecovers
PROOF
<1>1. IInv => RecreateRecovers
  BY DEF IInv, WorkingInv, RecreateRecovers, WithPython
<1>2. QED
  BY <1>1, Inductive, PTL

\* A recreation starts over from any environment that killed commands left.
THEOREM Recreation == Spec => []RecreateStartsOver
PROOF
<1>1. FromScratch /\ RecreateRecovers => RecreateStartsOver
  BY DEF RecreateStartsOver
<1>2. QED
  BY <1>1, Scratch, Recovery, PTL

\* An upgrade, even one that breaks off, touches only what it manages.
THEOREM Restraint == Spec => []OnlyManagedMove
PROOF
<1>1. IInv => OnlyManagedMove
  BY DEF IInv, MovedInv, OnlyManagedMove
<1>2. QED
  BY <1>1, Inductive, PTL

\* An install or recreate that succeeds has installed the locked versions.
THEOREM Locking == Spec => []LockReproduced
PROOF
<1>1. IInv => LockReproduced
  BY DEF IInv, LockInv, LockReproduced, Succeeded, Done
<1>2. QED
  BY <1>1, Inductive, PTL

\* After a command that succeeds the committed files describe what is installed.
THEOREM Description == Spec => []FilesDescribe
PROOF
<1>1. IInv => FilesDescribe
  BY DEF IInv, FrozenInv, FilesDescribe, Succeeded, Done
<1>2. QED
  BY <1>1, Inductive, PTL
=============================================================================
