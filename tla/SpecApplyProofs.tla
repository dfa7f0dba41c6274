-------------------------- MODULE SpecApplyProofs --------------------------
(***************************************************************************)
(* Proofs about SpecApply, for every inventory, specification and number   *)
(* of runs: first that the inventory stays a tree and what is not named    *)
(* stays, then that the passes, killed or not, do what the specification   *)
(* means, and that their reports are true.                                 *)
(*                                                                         *)
(* The entries are taken up one after the other.  The argument compares    *)
(* the inventory, at every step, with what the entries dealt with so far   *)
(* mean, and the report with what a dry run says of these entries.         *)
(***************************************************************************)
EXTENDS SpecApply, TLAPS


-----------------------------------------------------------------------------
(* Making directories, removing and writing.                               *)

\* os.makedirs() changes nothing that exists.
LEMMA MakeKeeps ==
    ASSUME NEW t, NEW D, NEW p \in Paths, t[p] # "absent"
    PROVE  Make(t, D)[p] = t[p]
  BY DEF Make

LEMMA MakeType ==
    ASSUME NEW t \in [Paths -> Nodes], NEW D
    PROVE  Make(t, D) \in [Paths -> Nodes]
  BY DEF Make, Nodes

\* Making a directory together with those above it leaves a tree.
LEMMA MakeWellFormed ==
    ASSUME NEW t \in [Paths -> Nodes], WellFormed(t),
           NEW D \in SUBSET Paths,
           \A p \in D : Above[p] \subseteq D,
           \A p \in D : t[p] \in {"absent", "dir", "dirlink"}
    PROVE  WellFormed(Make(t, D))
  <1> SUFFICES ASSUME NEW p \in Paths, Make(t, D)[p] # "absent",
                      NEW q \in Above[p]
               PROVE  Make(t, D)[q] = "dir"
    BY DEF WellFormed
  <1>1. q \in Paths /\ Above[q] \subseteq Above[p]
    BY PathsAssumption
  <1>2. CASE t[p] # "absent"
    <2>1. t[q] = "dir"
      BY <1>2 DEF WellFormed
    <2> QED BY <2>1, <1>1, MakeKeeps
  <1>3. CASE t[p] = "absent"
    <2>1. p \in D /\ Here(t, p)
      BY <1>3 DEF Make
    <2>2. q \in D /\ Here(t, q) /\ t[q] # "dirlink"
      BY <2>1, <1>1 DEF Here
    <2>3. t[q] \in {"absent", "dir"}
      BY <2>2
    <2> QED BY <2>2, <2>3, <1>1 DEF Make
  <1> QED BY <1>2, <1>3

LEMMA RemoveWellFormed ==
    ASSUME NEW t \in [Paths -> Nodes], WellFormed(t), NEW p \in Paths,
           \A q \in Below(p) : t[q] = "absent"
    PROVE  WellFormed([t EXCEPT ![p] = "absent"])
  <1> DEFINE u == [t EXCEPT ![p] = "absent"]
  <1> SUFFICES ASSUME NEW q \in Paths, u[q] # "absent", NEW r \in Above[q]
               PROVE  u[r] = "dir"
    BY DEF WellFormed
  <1>1. r \in Paths
    BY PathsAssumption
  <1>2. q # p /\ t[q] # "absent"
    OBVIOUS
  <1>3. t[r] = "dir"
    BY <1>2 DEF WellFormed
  <1>4. r # p
    BY <1>2 DEF Below
  <1> QED BY <1>1, <1>3, <1>4

LEMMA WriteWellFormed ==
    ASSUME NEW t \in [Paths -> Nodes], WellFormed(t), NEW p \in Paths,
           t[p] # "dir", \A q \in Above[p] : t[q] = "dir", NEW n
    PROVE  WellFormed([t EXCEPT ![p] = n])
  <1> DEFINE u == [t EXCEPT ![p] = n]
  <1> SUFFICES ASSUME NEW q \in Paths, u[q] # "absent", NEW r \in Above[q]
               PROVE  u[r] = "dir"
    BY DEF WellFormed
  <1>1. r \in Paths
    BY PathsAssumption
  <1>2. t[r] = "dir"
    BY DEF WellFormed
  <1> QED BY <1>1, <1>2

-----------------------------------------------------------------------------
(* The four ways in which a step changes the inventory.  Each leaves a     *)
(* tree, what is kept, and what existed beforehand.                        *)

Harmless ==
    /\ fs' \in [Paths -> Nodes]
    /\ WellFormed(fs')
    /\ KeptStays
    /\ ~doc.force => \A p \in pre : fs'[p] = before[p]

LEMMA MakingIsHarmless ==
    ASSUME IInv, NEW e \in Paths, CanMake(fs, e),
           fs' = Make(fs, Above[e] \union {e})
    PROVE  Harmless
  <1> USE DEF IInv
  <1>1. fs \in [Paths -> Nodes] /\ before \in [Paths -> Nodes]
    BY DEF TypeOK
  <1>2. \A p \in Paths : fs[p] # "absent" => fs'[p] = fs[p]
    BY MakeKeeps
  <1>3. fs' \in [Paths -> Nodes]
    BY <1>1, MakeType
  <1>4. WellFormed(fs')
    <2> DEFINE D == Above[e] \union {e}
    <2>1. D \in SUBSET Paths /\ \A p \in D : Above[p] \subseteq D
      BY PathsAssumption
    <2>2. \A p \in D : fs[p] \in {"absent", "dir", "dirlink"}
      BY DEF CanMake
    <2> HIDE DEF D
    <2>3. WellFormed(Make(fs, D))
      BY <2>1, <2>2, <1>1, MakeWellFormed DEF TreeOK
    <2> QED BY <2>3 DEF D
  <1>5. KeptStays
    BY <1>2 DEF KeptStays, KeptNode
  <1>6. ~doc.force => \A p \in pre : fs'[p] = before[p]
    BY <1>2 DEF PreExistingUntouched, Existing
  <1> QED BY <1>3, <1>4, <1>5, <1>6 DEF Harmless

LEMMA RemovingIsHarmless ==
    ASSUME IInv, NEW e \in Paths, fs' = [fs EXCEPT ![e] = "absent"],
           \A q \in Below(e) : fs[q] = "absent",
           ~KeptNode(fs, e), doc.force \/ e \notin pre
    PROVE  Harmless
  <1> USE DEF IInv
  <1>1. fs \in [Paths -> Nodes] /\ pre \subseteq Paths
    BY DEF TypeOK
  <1>2. fs' \in [Paths -> Nodes]
    BY <1>1 DEF Nodes
  <1>3. WellFormed(fs')
    BY <1>1, RemoveWellFormed DEF TreeOK
  <1>4. KeptStays
    BY <1>1 DEF KeptStays
  <1>5. ~doc.force => \A p \in pre : fs'[p] = before[p]
    BY <1>1 DEF PreExistingUntouched
  <1> QED BY <1>2, <1>3, <1>4, <1>5 DEF Harmless

LEMMA WritingIsHarmless ==
    ASSUME IInv, NEW e \in Paths, NEW n \in Nodes,
           NEW t \in [Paths -> Nodes], WellFormed(t),
           \A p \in Paths : fs[p] # "absent" => t[p] = fs[p],
           t[e] # "dir", \A q \in Above[e] : t[q] = "dir",
           fs' = [t EXCEPT ![e] = n],
           ~Kept(e), doc.force \/ e \notin pre
    PROVE  Harmless
  <1> USE DEF IInv
  <1>1. pre \subseteq Paths /\ before \in [Paths -> Nodes]
    BY DEF TypeOK
  <1>2. fs' \in [Paths -> Nodes]
    OBVIOUS
  <1>3. WellFormed(fs')
    BY WriteWellFormed
  <1>4. KeptStays
    BY DEF KeptStays, KeptNode
  <1>5. ~doc.force => \A p \in pre : fs'[p] = before[p]
    BY <1>1 DEF PreExistingUntouched, Existing
  <1> QED BY <1>2, <1>3, <1>4, <1>5 DEF Harmless

LEMMA StayingIsHarmless ==
    ASSUME IInv, UNCHANGED fs PROVE Harmless
  BY DEF Harmless, IInv, TypeOK, TreeOK, KeptStays, PreExistingUntouched

-----------------------------------------------------------------------------
(* One lemma per action: the invariant is kept, and so is what the `keep'  *)
(* list protects.                                                          *)

Safe == IInv' /\ KeptStays

\* What a pass has to show beyond being harmless.
LEMMA PassIsSafe ==
    ASSUME IInv, Harmless, UNCHANGED inputs,
           \A p \in Paths : fs'[p] \in Links => fs[p] \in Links,
           phase' \in Passes \union Ended, phase' \in Passes => phase \in Passes,
           res' \in Results, cur' \in Paths \union {NoPath},
           todo' \subseteq todo, InHand'
    PROVE  Safe
  <1> USE DEF inputs
  <1>1. TypeOK'
    BY DEF IInv, TypeOK, Harmless, Passes, Working
  <1>2. TreeOK' /\ PreExistingUntouched' /\ KeptStays
    BY DEF Harmless, TreeOK, PreExistingUntouched, Kept
  <1>3. NoLinkOnTheWay'
    <2>1. SUFFICES ASSUME phase' \in Passes, NEW e \in DOMAIN doc.files,
                          NEW q \in Above[e] \union {e}
                   PROVE  fs'[q] \notin Links
      BY DEF NoLinkOnTheWay
    <2>2. q \in Paths
      BY PathsAssumption, DocumentsAssumption DEF IInv, TypeOK
    <2>3. fs[q] \notin Links
      BY <2>1 DEF IInv, NoLinkOnTheWay
    <2> QED BY <2>2, <2>3
  <1>4. /\ phase' \in Passes => todo' \subseteq DOMAIN doc'.files
        /\ pre' \subseteq Existing(before)'
    BY DEF IInv, Existing
  <1> QED BY <1>1, <1>2, <1>3, <1>4 DEF Safe, IInv

LEMMA Reports ==
    ASSUME IInv, NEW S \in SUBSET Paths,
           NEW f \in {"removed", "written", "skipped", "kept"}, Report(f, S)
    PROVE  res' \in Results
  BY DEF Report, IInv, TypeOK, Results

\* The entry taken up in a pass.
LEMMA Entry ==
    ASSUME IInv, phase \in Passes, NEW e, Next1(e)
    PROVE  /\ e \in Paths /\ e \in DOMAIN doc.files /\ cur = NoPath
           /\ fs[e] \notin Links
           /\ fs[e] \notin {"absent", "dir"} => \A q \in Below(e) : fs[q] = "absent"
  <1>1. e \in DOMAIN doc.files /\ cur = NoPath
    BY DEF Next1, IInv
  <1>2. e \in Paths
    BY DEF Next1, IInv, TypeOK
  <1>3. fs[e] \notin Links
    BY <1>1 DEF IInv, NoLinkOnTheWay
  <1>4. fs[e] # "dir" => \A q \in Below(e) : fs[q] = "absent"
    BY DEF Below, IInv, TreeOK, WellFormed
  <1> QED BY <1>1, <1>2, <1>3, <1>4

LEMMA FreeToTouch ==
    ASSUME IInv, NEW e, NEW b, MayTouch(e, b)
    PROVE  /\ doc.force \/ e \notin pre
           /\ MayTouch(e, FALSE)
           /\ b => (doc.force \/ \A q \in Below(e) : q \notin pre)
  BY DEF MayTouch, Protected

LEMMA RemoveEntrySafe ==
    ASSUME IInv, NEW e \in Paths, RemoveEntry(e) PROVE Safe
  <1>1. phase = "remove" /\ Next1(e) /\ UNCHANGED <<phase, inputs>>
    BY DEF RemoveEntry
  <1>2. /\ e \in Paths /\ e \in DOMAIN doc.files /\ cur = NoPath
        /\ fs[e] \notin {"absent", "dir"} => \A q \in Below(e) : fs[q] = "absent"
    BY <1>1, Entry DEF Passes
  <1>3. CASE UNCHANGED fs /\ cur' = NoPath /\ todo' = todo \ {e}
             /\ (UNCHANGED res \/ \E f \in {"kept", "skipped"} : Report(f, {e}))
    <2>1. Harmless
      BY <1>3, StayingIsHarmless
    <2>2. res' \in Results
      BY <1>3, Reports DEF IInv, TypeOK
    <2>3. InHand'
      BY <1>3 DEF InHand
    <2> QED BY <1>1, <1>3, <2>1, <2>2, <2>3, PassIsSafe DEF Passes
  <1>4. CASE fs[e] = "dir" /\ ~Kept(e) /\ MayTouch(e, TRUE)
             /\ cur' = e /\ UNCHANGED <<fs, res, todo>>
    <2>1. Harmless
      BY <1>4, StayingIsHarmless
    <2>2. res' \in Results
      BY <1>4 DEF IInv, TypeOK
    <2>3. InHand'
      BY <1>1, <1>2, <1>4 DEF InHand, inputs, Kept, MayTouch, Protected, Below
    <2> QED BY <1>1, <1>4, <2>1, <2>2, <2>3, PassIsSafe DEF Passes
  <1>5. CASE fs[e] \notin {"absent", "dir"} /\ ~Kept(e) /\ MayTouch(e, FALSE)
             /\ Remove(e) /\ Finish(e)
    <2>1. fs' = [fs EXCEPT ![e] = "absent"] /\ Report("removed", {e})
          /\ cur' = NoPath /\ todo' = todo \ {e}
      BY <1>5 DEF Remove, Finish
    <2>2. Harmless
      BY <1>2, <1>5, <2>1, RemovingIsHarmless, FreeToTouch DEF KeptNode
    <2>3. res' \in Results
      BY <2>1, Reports
    <2>4. InHand'
      BY <2>1 DEF InHand
    <2>5. \A p \in Paths : fs'[p] \in Links => fs[p] \in Links
      BY <2>1 DEF Links, IInv, TypeOK
    <2> QED BY <1>1, <2>1, <2>2, <2>3, <2>4, <2>5, PassIsSafe DEF Passes
  <1> QED BY <1>3, <1>4, <1>5 DEF RemoveEntry, Finish

LEMMA ClearSafe ==
    ASSUME IInv, NEW p \in Paths, Clear(p) PROVE Safe
  <1>1. /\ phase \in {"remove", "empty"} /\ cur # NoPath
        /\ p \in Below(cur) /\ ~Survives(fs, p)
        /\ \A q \in Below(p) : fs[q] = "absent"
        /\ UNCHANGED <<todo, cur, inputs>>
    BY DEF Clear
  <1>2. /\ cur \in Paths \union {NoPath} /\ cur \in DOMAIN doc.files /\ ~Kept(cur)
        /\ MayTouch(cur, TRUE) /\ todo \subseteq Paths
    BY <1>1 DEF IInv, InHand, TypeOK
  <1>3. CASE Remove(p) /\ UNCHANGED phase
    <2>1. fs' = [fs EXCEPT ![p] = "absent"] /\ Report("removed", {p})
      BY <1>3 DEF Remove
    <2>2. ~KeptNode(fs, p)
      BY <1>1 DEF Survives
    <2>3. doc.force \/ p \notin pre
      BY <1>1, <1>2, FreeToTouch
    <2>4. Harmless
      BY <1>1, <2>1, <2>2, <2>3, RemovingIsHarmless
    <2>5. res' \in Results
      BY <2>1, Reports
    <2>6. InHand'
      BY <1>1, <1>2, <1>3 DEF InHand, inputs, Kept, MayTouch, Protected, Below
    <2>7. \A q \in Paths : fs'[q] \in Links => fs[q] \in Links
      BY <2>1 DEF Links, IInv, TypeOK
    <2> QED BY <1>1, <1>2, <1>3, <2>4, <2>5, <2>6, <2>7, PassIsSafe DEF Passes
  <1>4. CASE phase' = "error" /\ UNCHANGED <<fs, res>>
    <2>1. Harmless
      BY <1>4, StayingIsHarmless
    <2>2. res' \in Results
      BY <1>4 DEF IInv, TypeOK
    <2>3. InHand'
      BY <1>1, <1>2, <1>4 DEF InHand, inputs, Kept
    <2> QED BY <1>1, <1>2, <1>4, <2>1, <2>2, <2>3, PassIsSafe DEF Ended, Passes
  <1> QED BY <1>3, <1>4 DEF Clear

\* A directory that has been cleared and holds nothing kept is empty.
LEMMA ClearedIsEmpty ==
    ASSUME IInv, IsCleared, cur \in Paths, KeptBelow(fs, cur) = {}
    PROVE  \A q \in Below(cur) : fs[q] = "absent"
  <1> SUFFICES ASSUME NEW q \in Below(cur), Survives(fs, q)
               PROVE  FALSE
    BY DEF IsCleared
  <1>1. PICK r \in Below(q) \union {q} : KeptNode(fs, r)
    BY DEF Survives
  <1>2. q \in Paths /\ cur \in Above[q]
    BY DEF Below
  <1>3. r \in Below(cur)
    BY <1>2, PathsAssumption DEF Below
  <1> QED BY <1>1, <1>3 DEF KeptBelow

LEMMA RemoveClearedSafe ==
    ASSUME IInv, RemoveCleared PROVE Safe
  <1>1. /\ phase = "remove" /\ IsCleared /\ cur # NoPath
        /\ cur' = NoPath /\ todo' = todo \ {cur} /\ UNCHANGED <<phase, inputs>>
    BY DEF RemoveCleared, Finish, IsCleared
  <1>2. cur \in Paths /\ ~Kept(cur) /\ MayTouch(cur, TRUE)
    BY <1>1 DEF IInv, InHand, TypeOK
  <1>3. InHand'
    BY <1>1 DEF InHand
  <1>4. CASE KeptBelow(fs, cur) = {} /\ Remove(cur)
    <2>1. fs' = [fs EXCEPT ![cur] = "absent"] /\ Report("removed", {cur})
      BY <1>4 DEF Remove
    <2>2. Harmless
      BY <1>1, <1>2, <1>4, <2>1, ClearedIsEmpty, RemovingIsHarmless, FreeToTouch
         DEF KeptNode
    <2>3. res' \in Results
      BY <1>2, <2>1, Reports
    <2>4. \A q \in Paths : fs'[q] \in Links => fs[q] \in Links
      BY <1>2, <2>1 DEF Links, IInv, TypeOK
    <2> QED BY <1>1, <1>3, <2>2, <2>3, <2>4, PassIsSafe DEF Passes
  <1>5. CASE Report("kept", KeptBelow(fs, cur) \union {cur}) /\ UNCHANGED fs
    <2>1. Harmless
      BY <1>5, StayingIsHarmless
    <2>2. res' \in Results
      BY <1>2, <1>5, Reports DEF KeptBelow, Below
    <2> QED BY <1>1, <1>3, <1>5, <2>1, <2>2, PassIsSafe DEF Passes
  <1> QED BY <1>4, <1>5 DEF RemoveCleared

LEMMA EmptyEntrySafe ==
    ASSUME IInv, NEW e \in Paths, EmptyEntry(e) PROVE Safe
  <1>1. phase = "empty" /\ Next1(e) /\ UNCHANGED <<phase, inputs>>
    BY DEF EmptyEntry
  <1>2. /\ e \in DOMAIN doc.files /\ cur = NoPath
        /\ fs[e] \notin {"absent", "dir"} => \A q \in Below(e) : fs[q] = "absent"
    BY <1>1, Entry DEF Passes
  <1>3. CASE UNCHANGED fs /\ cur' = NoPath /\ todo' = todo \ {e}
             /\ \E f \in {"kept", "skipped"} : Report(f, {e})
    <2>1. Harmless
      BY <1>3, StayingIsHarmless
    <2>2. res' \in Results
      BY <1>3, Reports
    <2>3. InHand'
      BY <1>3 DEF InHand
    <2> QED BY <1>1, <1>3, <2>1, <2>2, <2>3, PassIsSafe DEF Passes
  <1>4. ASSUME ~Kept(e), MayTouch(e, TRUE), cur' = e PROVE InHand'
    BY <1>1, <1>2, <1>4 DEF InHand, inputs, Kept, MayTouch, Protected, Below
  <1>5. CASE ~Kept(e) /\ MayTouch(e, TRUE) /\ cur' = e /\ UNCHANGED <<fs, res, todo>>
    <2>1. Harmless
      BY <1>5, StayingIsHarmless
    <2>2. res' \in Results
      BY <1>5 DEF IInv, TypeOK
    <2> QED BY <1>1, <1>4, <1>5, <2>1, <2>2, PassIsSafe DEF Passes
  <1>6. CASE ~Kept(e) /\ MayTouch(e, TRUE) /\ cur' = e /\ UNCHANGED todo
             /\ fs[e] \notin {"absent", "dir"} /\ Remove(e)
    <2>1. fs' = [fs EXCEPT ![e] = "absent"] /\ Report("removed", {e})
      BY <1>6 DEF Remove
    <2>2. Harmless
      BY <1>2, <1>6, <2>1, RemovingIsHarmless, FreeToTouch DEF KeptNode
    <2>3. res' \in Results
      BY <2>1, Reports
    <2>4. \A p \in Paths : fs'[p] \in Links => fs[p] \in Links
      BY <2>1 DEF Links, IInv, TypeOK
    <2> QED BY <1>1, <1>4, <1>6, <2>2, <2>3, <2>4, PassIsSafe DEF Passes
  <1> QED BY <1>3, <1>5, <1>6 DEF EmptyEntry, Finish

LEMMA EmptyClearedSafe ==
    ASSUME IInv, EmptyCleared PROVE Safe
  <1>1. phase = "empty" /\ cur # NoPath /\ UNCHANGED inputs
    BY DEF EmptyCleared, IsCleared
  <1>2. cur \in Paths /\ cur \in DOMAIN doc.files /\ ~Kept(cur) /\ todo \subseteq Paths
    BY <1>1 DEF IInv, InHand, TypeOK
  <1>3. CASE /\ CanMake(fs, cur)
             /\ fs' = Make(fs, Above[cur] \union {cur})
             /\ res' = [res EXCEPT !.kept = @ \union KeptBelow(fs, cur),
                                   !.written = @ \union {cur}]
             /\ Finish(cur)
             /\ UNCHANGED phase
    <2>1. Harmless
      BY <1>2, <1>3, MakingIsHarmless
    <2>2. res' \in Results
      BY <1>2, <1>3 DEF IInv, TypeOK, Results, KeptBelow, Below
    <2>3. InHand' /\ cur' = NoPath /\ todo' \subseteq todo
      BY <1>3 DEF InHand, Finish
    <2>4. \A q \in Paths : fs'[q] \in Links => fs[q] \in Links
      BY <1>3 DEF Links, Make
    <2> QED BY <1>1, <1>3, <2>1, <2>2, <2>3, <2>4, PassIsSafe DEF Passes
  <1>4. CASE phase' = "error" /\ UNCHANGED <<fs, res, todo, cur>>
    <2>1. Harmless
      BY <1>4, StayingIsHarmless
    <2>2. res' \in Results
      BY <1>4 DEF IInv, TypeOK
    <2>3. InHand'
      BY <1>1, <1>2, <1>4 DEF InHand, inputs, Kept
    <2> QED BY <1>1, <1>2, <1>4, <2>1, <2>2, <2>3, PassIsSafe DEF Ended, Passes
  <1> QED BY <1>3, <1>4 DEF EmptyCleared

LEMMA WriteEntrySafe ==
    ASSUME IInv, NEW e \in Paths, WriteEntry(e) PROVE Safe
  <1>1. phase = "write" /\ Next1(e) /\ UNCHANGED inputs
    BY DEF WriteEntry
  <1>2. /\ e \in DOMAIN doc.files /\ cur = NoPath /\ todo \subseteq Paths
        /\ fs[e] \notin Links /\ fs \in [Paths -> Nodes]
        /\ fs[e] \notin {"absent", "dir"} => \A q \in Below(e) : fs[q] = "absent"
    BY <1>1, Entry DEF Passes, IInv, TypeOK
  <1>3. CASE UNCHANGED <<fs, phase>> /\ cur' = NoPath /\ todo' = todo \ {e}
             /\ \E f \in {"kept", "skipped"} : Report(f, {e})
    <2>1. Harmless
      BY <1>3, StayingIsHarmless
    <2>2. res' \in Results
      BY <1>3, Reports
    <2>3. InHand'
      BY <1>3 DEF InHand
    <2> QED BY <1>1, <1>3, <2>1, <2>2, <2>3, PassIsSafe DEF Passes
  <1>4. CASE /\ ~Kept(e) /\ MayTouch(e, FALSE)
             /\ fs[e] # "dir" /\ \A q \in Above[e] : CanMake(fs, q)
             /\ fs' = [Make(fs, Above[e]) EXCEPT ![e] = "torn"]
             /\ cur' = e
             /\ UNCHANGED <<phase, res, todo>>
    <2> DEFINE D == Above[e]
               t == Make(fs, D)
    <2>1. D \in SUBSET Paths /\ e \notin D /\ \A p \in D : Above[p] \subseteq D
      BY PathsAssumption
    <2>2. \A p \in D : fs[p] \in {"absent", "dir"}
      <3>1. \A p \in D : fs[p] \notin Links
        BY <1>1, <1>2 DEF IInv, NoLinkOnTheWay, Passes
      <3> QED BY <1>4, <3>1 DEF CanMake, Links
    <2>3. t \in [Paths -> Nodes] /\ WellFormed(t)
      BY <1>2, <2>1, <2>2, MakeType, MakeWellFormed DEF IInv, TreeOK
    <2>4. \A p \in Paths : fs[p] # "absent" => t[p] = fs[p]
      BY MakeKeeps
    <2>5. t[e] # "dir"
      BY <1>4, <2>1 DEF Make
    <2>6. \A q \in D : t[q] = "dir"
      BY <2>1, <2>2 DEF Make, Here
    <2>7. \A q \in Paths : t[q] \in Links => fs[q] \in Links
      BY DEF Links, Make
    <2>8. fs' = [t EXCEPT ![e] = "torn"]
      BY <1>4
    <2> HIDE DEF t
    <2>9. Harmless
      BY <1>4, <2>3, <2>4, <2>5, <2>6, <2>8, FreeToTouch, WritingIsHarmless
         DEF Nodes, Files
    <2>10. res' \in Results
      BY <1>4 DEF IInv, TypeOK
    <2>11. InHand'
      BY <1>1, <1>2, <1>4, <2>3, <2>8 DEF InHand, inputs, Kept, MayTouch, Protected, Below
    <2>12. \A q \in Paths : fs'[q] \in Links => fs[q] \in Links
      BY <2>3, <2>7, <2>8 DEF Links
    <2> QED BY <1>1, <1>4, <2>9, <2>10, <2>11, <2>12, PassIsSafe DEF Passes
  <1>5. CASE phase' = "error" /\ UNCHANGED <<fs, res, todo, cur>>
    <2>1. Harmless
      BY <1>5, StayingIsHarmless
    <2>2. res' \in Results
      BY <1>5 DEF IInv, TypeOK
    <2>3. InHand'
      BY <1>2, <1>5 DEF InHand
    <2> QED BY <1>1, <1>2, <1>5, <2>1, <2>2, <2>3, PassIsSafe DEF Ended, Passes
  <1> QED BY <1>3, <1>4, <1>5 DEF WriteEntry, Finish, Skipped

LEMMA WriteTextSafe ==
    ASSUME IInv, WriteText PROVE Safe
  <1>1. /\ phase = "write" /\ cur # NoPath /\ fs' = [fs EXCEPT ![cur] = "new"]
        /\ Report("written", {cur}) /\ cur' = NoPath /\ todo' = todo \ {cur}
        /\ UNCHANGED <<phase, inputs>>
    BY DEF WriteText, Finish
  <1>2. /\ cur \in Paths /\ ~Kept(cur) /\ MayTouch(cur, FALSE) /\ fs[cur] = "torn"
        /\ fs \in [Paths -> Nodes] /\ WellFormed(fs)
    BY <1>1 DEF IInv, InHand, TypeOK, TreeOK
  <1>3. \A q \in Above[cur] : fs[q] = "dir"
    BY <1>2 DEF WellFormed
  <1>4. Harmless
    BY <1>1, <1>2, <1>3, FreeToTouch, WritingIsHarmless DEF Nodes, Files
  <1>5. res' \in Results
    BY <1>1, <1>2, Reports
  <1>6. InHand'
    BY <1>1 DEF InHand
  <1>7. \A q \in Paths : fs'[q] \in Links => fs[q] \in Links
    BY <1>1, <1>2 DEF Links
  <1> QED BY <1>1, <1>4, <1>5, <1>6, <1>7, PassIsSafe DEF Passes

LEMMA SkelDirSafe ==
    ASSUME IInv, NEW e \in Paths, SkelDir(e) PROVE Safe
  <1>1. phase = "skel" /\ cur = NoPath /\ UNCHANGED <<res, inputs>>
    BY DEF SkelDir, Next1
  <1>2. res' \in Results /\ todo \subseteq Paths
    BY <1>1 DEF IInv, TypeOK
  <1>3. Harmless /\ cur' = NoPath /\ todo' \subseteq todo
        /\ phase' \in {"skel", "error"}
    BY <1>1, MakingIsHarmless, StayingIsHarmless DEF SkelDir, Finish
  <1>4. TypeOK'
    BY <1>1, <1>2, <1>3 DEF IInv, TypeOK, Harmless, inputs, Working, Ended, Passes
  <1>5. TreeOK' /\ PreExistingUntouched' /\ KeptStays
    BY <1>1, <1>3 DEF Harmless, TreeOK, PreExistingUntouched, inputs
  <1>6. NoLinkOnTheWay' /\ InHand' /\ (phase' \in Passes => todo' \subseteq DOMAIN doc'.files)
    BY <1>3 DEF NoLinkOnTheWay, InHand, Passes
  <1>7. pre' \subseteq Existing(before)'
    BY <1>1 DEF IInv, Existing, inputs
  <1> QED BY <1>4, <1>5, <1>6, <1>7 DEF Safe, IInv

LEMMA BeginSafe ==
    ASSUME IInv, Begin PROVE Safe
  <1>1. /\ phase' = "skel" /\ before' = fs /\ cur' = NoPath /\ todo' = Skel
        /\ pre' \in {Existing(fs), {}} /\ res' = Nothing
        /\ UNCHANGED <<fs, doc, plan, origin>>
    BY DEF Begin
  <1>2. runs' \in 0..MaxRuns
    BY PathsAssumption DEF Begin, IInv, TypeOK
  <1>3. TypeOK'
    BY <1>1, <1>2, PathsAssumption
       DEF IInv, TypeOK, Working, Results, Nothing, Existing
  <1>4. TreeOK' /\ PreExistingUntouched' /\ KeptStays
    BY <1>1 DEF IInv, TreeOK, PreExistingUntouched, KeptStays
  <1>5. NoLinkOnTheWay' /\ InHand' /\ (phase' \in Passes => todo' \subseteq DOMAIN doc'.files)
    BY <1>1 DEF NoLinkOnTheWay, InHand, Passes
  <1>6. pre' \subseteq Existing(before)'
    BY <1>1 DEF Existing
  <1> QED BY <1>3, <1>4, <1>5, <1>6 DEF Safe, IInv

\* What a dry run reports is a report.
LEMMA DryRunType ==
    ASSUME IInv PROVE DryRun(fs) \in Results
  <1>1. DOMAIN doc.files \subseteq Paths
    BY DocumentsAssumption DEF IInv, TypeOK
  <1>2. \A kinds : Of(kinds) \subseteq Paths
    BY <1>1 DEF Of
  <1>3. \A e \in Paths : /\ DryRemoved(fs, e) \subseteq Paths
                         /\ DryEmptied(fs, e) \subseteq Paths
                         /\ KeptBelow(fs, e) \subseteq Paths
    BY DEF DryRemoved, DryEmptied, KeptBelow, Cleared, Below
  <1>4. DryRun(fs).removed \subseteq Paths
    <2> DEFINE gone == {e \in Of(Removals) : fs[e] # "absent"}
               A == UNION {DryRemoved(fs, e) : e \in gone}
               B == UNION {DryEmptied(fs, e) : e \in Of({"empty/"})}
    <2>1. A \subseteq Paths
      BY <1>2, <1>3
    <2>2. B \subseteq Paths
      <3>1. \A e \in Of({"empty/"}) : DryEmptied(fs, e) \subseteq Paths
        BY <1>2, <1>3
      <3> QED BY <3>1
    <2>3. DryRun(fs).removed = A \union B
      BY DEF DryRun
    <2> HIDE DEF A, B
    <2> QED BY <2>1, <2>2, <2>3
  <1>5. DryRun(fs).written \subseteq Paths
    BY <1>2 DEF DryRun
  <1>6. DryRun(fs).skipped \subseteq Paths
    BY <1>2 DEF DryRun
  <1>7. DryRun(fs).kept \subseteq Paths
    BY <1>2, <1>3 DEF DryRun
  <1> QED BY <1>4, <1>5, <1>6, <1>7 DEF DryRun, Results

LEMMA CheckSafe ==
    ASSUME IInv, Check PROVE Safe
  <1>1. /\ phase = "check" /\ plan' = DryRun(fs)
        /\ UNCHANGED <<fs, doc, pre, cur, res, before, origin, runs>>
    BY DEF Check
  <1>2. cur = NoPath
    BY <1>1 DEF IInv, InHand
  <1>3. \/ phase' \in {"refused", "planned"} /\ UNCHANGED todo
        \/ /\ phase' = "remove" /\ todo' = Of(Removals)
           /\ ~\E e \in DOMAIN doc.files : Refused(fs, e)
    BY DEF Check
  <1>4. DOMAIN doc.files \subseteq Paths
    BY DocumentsAssumption DEF IInv, TypeOK
  <1>5. TypeOK'
    BY <1>1, <1>3, <1>4, DryRunType DEF IInv, TypeOK, Working, Ended, Passes, Of
  <1>6. TreeOK' /\ PreExistingUntouched' /\ KeptStays
    BY <1>1 DEF IInv, TreeOK, PreExistingUntouched, KeptStays
  <1>7. NoLinkOnTheWay'
    BY <1>1, <1>3 DEF NoLinkOnTheWay, Refused, Passes
  <1>8. InHand' /\ (phase' \in Passes => todo' \subseteq DOMAIN doc'.files)
    BY <1>1, <1>2, <1>3 DEF InHand, Of, Passes
  <1>9. pre' \subseteq Existing(before)'
    BY <1>1 DEF IInv, Existing
  <1> QED BY <1>5, <1>6, <1>7, <1>8, <1>9 DEF Safe, IInv

\* A step that changes neither the inventory nor the entry in hand.
LEMMA PhaseChangeSafe ==
    ASSUME IInv, UNCHANGED <<fs, cur, res, inputs>>,
           phase' \in Working \union Ended \union {"idle"},
           todo' \subseteq Paths,
           phase' \in Passes => phase \in Passes /\ cur = NoPath
                                  /\ todo' \subseteq DOMAIN doc.files,
           phase' \in {"skel", "check"} => cur = NoPath
    PROVE  Safe
  <1> USE DEF inputs
  <1>1. TypeOK'
    BY DEF IInv, TypeOK
  <1>2. TreeOK' /\ PreExistingUntouched' /\ KeptStays
    BY DEF IInv, TreeOK, PreExistingUntouched, KeptStays
  <1>3. NoLinkOnTheWay'
    BY DEF IInv, NoLinkOnTheWay
  <1>4. InHand'
    BY DEF IInv, InHand, Kept, Passes
  <1>5. pre' \subseteq Existing(before)'
    BY DEF IInv, Existing
  <1> QED BY <1>1, <1>2, <1>3, <1>4, <1>5 DEF Safe, IInv

LEMMA PassSafe ==
    ASSUME IInv, Pass PROVE Safe
  <1>1. /\ cur = NoPath /\ UNCHANGED <<fs, cur, res, inputs>>
        /\ phase' \in {"check", "empty", "write", "done"}
        /\ phase' \in {"empty", "write"} => phase \in {"remove", "empty"}
        /\ todo' \subseteq DOMAIN doc.files
    BY DEF Pass, Of
  <1>2. DOMAIN doc.files \subseteq Paths
    BY DocumentsAssumption DEF IInv, TypeOK
  <1> QED BY <1>1, <1>2, PhaseChangeSafe DEF Passes, Working, Ended

LEMMA StopSafe ==
    ASSUME IInv, Kill \/ Again \/ Stop \/ UNCHANGED vars PROVE Safe
  <1>1. todo \subseteq Paths
    BY DEF IInv, TypeOK
  <1>2. CASE Kill
    BY <1>1, <1>2, PhaseChangeSafe DEF Kill, Passes, Working, Ended
  <1>3. CASE Again
    BY <1>1, <1>3, PhaseChangeSafe DEF Again, Passes, Working, Ended
  <1>4. CASE UNCHANGED vars
    BY <1>4 DEF vars, Safe, IInv, TypeOK, TreeOK, PreExistingUntouched, KeptStays,
                NoLinkOnTheWay, InHand, Existing, Kept, MayTouch, Protected, Below
  <1> QED BY <1>2, <1>3, <1>4 DEF Stop

-----------------------------------------------------------------------------

LEMMA Start == Init => IInv
  <1> SUFFICES ASSUME Init PROVE IInv
    OBVIOUS
  <1>1. fs \in Trees /\ doc \in Documents /\ WellFormed(fs) /\ fs \in [Paths -> Nodes]
    BY DocumentsAssumption DEF Init
  <1>2. TypeOK
    BY <1>1, PathsAssumption DEF Init, TypeOK, Results, Nothing
  <1> QED BY <1>1, <1>2 DEF Init, IInv, TreeOK, PreExistingUntouched, NoLinkOnTheWay,
                            InHand, Existing, Passes

LEMMA Steps == IInv /\ [Next]_vars => Safe
  <1> SUFFICES ASSUME IInv, [Next]_vars PROVE Safe
    OBVIOUS
  <1>1. CASE Begin \/ Check \/ Pass
    BY <1>1, BeginSafe, CheckSafe, PassSafe
  <1>2. CASE RemoveCleared \/ EmptyCleared \/ WriteText
    BY <1>2, RemoveClearedSafe, EmptyClearedSafe, WriteTextSafe
  <1>3. CASE \E e \in Paths : SkelDir(e) \/ RemoveEntry(e) \/ EmptyEntry(e) \/ WriteEntry(e)
    BY <1>3, SkelDirSafe, RemoveEntrySafe, EmptyEntrySafe, WriteEntrySafe
  <1>4. CASE \E p \in Paths : Clear(p)
    BY <1>4, ClearSafe
  <1>5. CASE Kill \/ Again \/ Stop \/ UNCHANGED vars
    BY <1>5, StopSafe
  <1> QED BY <1>1, <1>2, <1>3, <1>4, <1>5 DEF Next, Work

\* The invariant of the whole command: types, the tree, what existed, what is
\* in hand.
THEOREM Inductive == Spec => []IInv
  <1>1. IInv /\ [Next]_vars => IInv'
    BY Steps DEF Safe
  <1> QED BY Start, <1>1, PTL DEF Spec

\* The inventory is a tree at every moment of the command.
THEOREM Tree == Spec => []TreeOK
  <1>1. IInv => TreeOK
    BY DEF IInv
  <1> QED BY Inductive, <1>1, PTL

\* Without --force nothing that existed when the command started is changed or
\* removed, at any moment of it, killed or not.
THEOREM Protection == Spec => []PreExistingUntouched
  <1>1. IInv => PreExistingUntouched
    BY DEF IInv
  <1> QED BY Inductive, <1>1, PTL

\* No step of the command changes or removes what the `keep' list names, with
\* --force or without.
THEOREM Keeping == Spec => KeptUntouched
  <1>1. IInv /\ [Next]_vars => [KeptStays]_vars
    BY Steps DEF Safe
  <1> QED BY Inductive, <1>1, PTL DEF Spec, KeptUntouched

-----------------------------------------------------------------------------
(* What a part S of the entries means for an inventory t.                  *)

Written(t, S) == Acting(t, {"text"}) \intersect S
Opened(t, S) == {p \in Paths :
    \/ p \in Acting(t, {"empty/"}) \intersect S
    \/ \E e \in Acting(t, {"text", "empty/"}) \intersect S : p \in Above[e]}
Swept(t, S) == {p \in Paths :
    /\ ~Survives(t, p)
    /\ \E e \in Acting(t, Removals \union {"empty/"}) \intersect S : e \in Above[p] \union {p}}

Partial(t, S) == [p \in Paths |->
    IF p \in Written(t, S) THEN "new"
    ELSE IF p \in Opened(t, S) THEN "dir"
    ELSE IF p \in Swept(t, S) THEN "absent"
    ELSE t[p]]

\* What a dry run says of them.
RemovedBy(t, S) == {p \in Paths :
    \/ \E e \in Of(Removals) \intersect S : p \in DryRemoved(t, e)
    \/ \E e \in Of({"empty/"}) \intersect S : p \in DryEmptied(t, e)}
WrittenBy(t, S) == Acting(t, {"text", "empty/"}) \intersect S
SkippedBy(t, S) == {e \in S :
    /\ ~Kept(e) /\ ~Acts(t, e)
    /\ doc.files[e] \in Removals => t[e] # "absent"}
KeptBy(t, S) == {p \in Paths :
    \/ p \in S /\ Kept(p) /\ (doc.files[p] \in Removals => t[p] # "absent")
    \/ p \in Acting(t, Removals) \intersect S /\ KeptBelow(t, p) # {}
    \/ \E e \in Acting(t, Removals \union {"empty/"}) \intersect S :
         t[e] = "dir" /\ p \in KeptBelow(t, e)}

-----------------------------------------------------------------------------
(* The invariant.                                                          *)

Skeleton == Make(before, Skel)

\* The entries of a pass, and those that are dealt with.
Kind == CASE phase = "remove" -> Removals
          [] phase = "empty" -> {"empty/"}
          [] phase = "write" -> {"text"}
          [] OTHER -> {}
Earlier == CASE phase = "remove" -> {}
             [] phase = "empty" -> Removals
             [] phase = "write" -> Removals \union {"empty/"}
             [] OTHER -> Entries
Dealt == Of(Earlier) \union (Of(Kind) \ todo)

\* What a command has found out when its passes begin.
Begun(t) ==
    /\ t \in [Paths -> Nodes] /\ WellFormed(t)
    /\ pre \subseteq Existing(t)
    /\ \A e \in DOMAIN doc.files : ~Refused(t, e)

\* No directory is taken up after what is in it.
InOrder ==
    /\ todo \subseteq Of(Kind)
    /\ \A e \in Of(Kind) \ todo : Above[e] \intersect todo = {}
    /\ cur # NoPath => cur \in todo /\ Above[cur] \intersect todo = {}

\* The directories above what was written were there, or what was in their
\* place has been removed.
WayFree(t, S) ==
    \A e \in Acting(t, {"text", "empty/"}) \intersect S : \A p \in Above[e] :
        t[p] \in {"absent", "dir"} \/ p \in RemovedBy(t, S)

\* The inventory, between two entries and while one of them is dealt with.
Clearing(t, S) ==
    /\ phase \in {"remove", "empty"}
    /\ \A p \in Paths \ (Below(cur) \union {cur}) : fs[p] = Partial(t, S)[p]
    /\ \A p \in Below(cur) \union {cur} :
         fs[p] = Partial(t, S)[p] \/ (fs[p] = "absent" /\ ~Survives(t, p))
    /\ fs[cur] \in {"absent", "dir"} /\ (phase = "remove" => fs[cur] = "dir")
    /\ Partial(t, S)[cur] = "dir" => fs[cur] = "dir"
Writing(t, S) ==
    /\ phase = "write"
    /\ Partial(t, S)[cur] # "dir"
    /\ \A p \in Above[cur] : Partial(t, S)[p] \in {"absent", "dir"} /\ fs[p] = "dir"
    /\ \A p \in Paths \ (Above[cur] \union {cur}) : fs[p] = Partial(t, S)[p]
Content(t, S) ==
    IF cur = NoPath THEN fs = Partial(t, S)
    ELSE Clearing(t, S) \/ Writing(t, S)

\* The report.
Gone(t) == IF cur = NoPath \/ phase = "write" THEN {}
           ELSE {p \in Below(cur) \union {cur} : t[p] # "absent" /\ fs[p] = "absent"}
Reported(t, S) ==
    /\ res.removed = RemovedBy(t, S) \union Gone(t)
    /\ res.written = WrittenBy(t, S)
    /\ res.skipped = SkippedBy(t, S)
    /\ res.kept = KeptBy(t, S)

InPasses(t, S) ==
    /\ Begun(t) /\ plan = DryRun(t) /\ InOrder /\ WayFree(t, S)
    /\ Content(t, S) /\ Reported(t, S)

InSkel ==
    /\ todo \subseteq Skel /\ res = Nothing
    /\ \A p \in Skel \ todo : Above[p] \intersect todo = {}
    /\ fs = Make(before, Skel \ todo)

Faithful ==
    /\ phase = "skel" => InSkel
    /\ phase = "check" => fs = Skeleton /\ res = Nothing
    /\ phase \in Passes \union {"done"} => InPasses(Skeleton, Dealt)
    /\ phase = "done" => todo = {} /\ cur = NoPath

-----------------------------------------------------------------------------
(* Facts about paths, entries and what is kept.                            *)

LEMMA EntriesArePaths == \A d \in Documents : DOMAIN d.files \subseteq Paths
  BY DocumentsAssumption

\* What is below a kept directory is kept.
LEMMA KeptUp ==
    ASSUME NEW p \in Paths, NEW q \in Above[p], Kept(q) PROVE Kept(p)
  BY PathsAssumption DEF Kept

LEMMA BelowBelow ==
    ASSUME NEW p \in Paths, NEW q \in Below(p)
    PROVE  /\ q \in Paths /\ q # p /\ Below(q) \subseteq Below(p)
           /\ q \notin Above[p]
           /\ Above[p] \subseteq Above[q]
  BY PathsAssumption DEF Below

\* Who agrees with t on what is kept agrees on what survives.
LEMMA SameSurvivors ==
    ASSUME NEW t, NEW f,
           \A p \in Paths : Kept(p) => f[p] = t[p] \/ (f[p] = "absent" /\ ~KeptNode(t, p))
    PROVE  /\ \A p \in Paths : KeptNode(f, p) <=> KeptNode(t, p)
           /\ \A p \in Paths : Survives(f, p) <=> Survives(t, p)
           /\ \A p \in Paths : KeptBelow(f, p) = KeptBelow(t, p)
  <1>1. \A p \in Paths : KeptNode(f, p) <=> KeptNode(t, p)
    BY DEF KeptNode
  <1>2. \A p \in Paths : Below(p) \subseteq Paths
    BY DEF Below
  <1> QED BY <1>1, <1>2 DEF Survives, KeptBelow

\* Entries that do something are not kept, nor is a directory above one.
LEMMA ActingIsFree ==
    ASSUME doc \in Documents, NEW t, NEW kinds, NEW e \in Acting(t, kinds)
    PROVE  /\ e \in DOMAIN doc.files /\ e \in Paths /\ doc.files[e] \in kinds
           /\ ~Kept(e) /\ \A p \in Above[e] : p \in Paths /\ ~Kept(p)
  <1>1. e \in DOMAIN doc.files /\ doc.files[e] \in kinds /\ ~Kept(e)
    BY DEF Acting, Of, Acts
  <1>2. e \in Paths
    BY <1>1, EntriesArePaths
  <1> QED BY <1>1, <1>2, KeptUp, PathsAssumption

LEMMA PartialKept ==
    ASSUME doc \in Documents, NEW t, NEW S, NEW p \in Paths, Kept(p)
    PROVE  Partial(t, S)[p] = t[p] \/ (Partial(t, S)[p] = "absent" /\ ~KeptNode(t, p))
  <1>1. p \notin Written(t, S) /\ p \notin Opened(t, S)
    BY ActingIsFree DEF Written, Opened
  <1>2. p \in Swept(t, S) => ~KeptNode(t, p)
    BY DEF Swept, Survives
  <1> QED BY <1>1, <1>2 DEF Partial

\* What is in a directory, and what kept content makes of it.
LEMMA KeptMakesDir ==
    ASSUME NEW t, Begun(t), NEW e \in Paths, KeptBelow(t, e) # {}
    PROVE  t[e] = "dir" /\ Survives(t, e)
  <1>1. PICK q \in Below(e) : KeptNode(t, q)
    BY DEF KeptBelow
  <1>2. q \in Paths /\ e \in Above[q] /\ t[q] # "absent"
    BY <1>1 DEF Below, KeptNode
  <1> QED BY <1>1, <1>2 DEF Begun, WellFormed, Survives

-----------------------------------------------------------------------------
(* What is swept away is reported, and only what may be touched is.        *)

LEMMA SweptIsRemoved ==
    ASSUME doc \in Documents, NEW t, Begun(t), NEW S,
           NEW p \in Swept(t, S), p \notin Opened(t, S), t[p] # "absent"
    PROVE  p \in RemovedBy(t, S)
  <1>1. PICK e \in Acting(t, Removals \union {"empty/"}) \intersect S :
            e \in Above[p] \union {p}
    BY DEF Swept
  <1>2. p \in Paths /\ ~Survives(t, p)
    BY DEF Swept
  <1>3. e \in Paths /\ ~Kept(e) /\ Acts(t, e)
    BY <1>1, ActingIsFree DEF Acting
  <1>4. t[e] # "absent" /\ (e # p => t[e] = "dir" /\ p \in Below(e))
    BY <1>1, <1>2 DEF Begun, WellFormed, Below
  <1>5. CASE e \in Of(Removals)
    <2>1. MayTouch(e, t[e] = "dir")
      BY <1>3, <1>5 DEF Acts, Of, Removals
    <2>2. e = p => KeptBelow(t, e) = {}
      BY <1>2 DEF Survives, KeptBelow
    <2>3. e # p => p \in Cleared(t, e)
      BY <1>2, <1>4 DEF Cleared
    <2>4. p \in DryRemoved(t, e)
      BY <1>3, <1>4, <2>1, <2>2, <2>3 DEF DryRemoved
    <2> QED BY <1>1, <1>2, <1>5, <2>4 DEF RemovedBy
  <1>6. CASE e \in Of({"empty/"})
    <2>1. MayTouch(e, TRUE) /\ e # p
      <3>1. MayTouch(e, TRUE)
        BY <1>3, <1>6 DEF Acts, Of
      <3>2. e \in Acting(t, {"empty/"})
        BY <1>3, <1>6 DEF Acting
      <3> QED BY <1>1, <1>2, <3>1, <3>2 DEF Opened
    <2>2. p \in Cleared(t, e)
      BY <1>2, <1>4, <2>1 DEF Cleared
    <2>3. p \in DryEmptied(t, e)
      BY <1>3, <1>4, <2>1, <2>2 DEF DryEmptied
    <2> QED BY <1>1, <1>2, <1>6, <2>3 DEF RemovedBy
  <1>7. e \in Of(Removals) \/ e \in Of({"empty/"})
    BY <1>1 DEF Acting, Of
  <1> QED BY <1>5, <1>6, <1>7

\* What is in a directory that may be cleared may be touched.
LEMMA TouchBelow ==
    ASSUME NEW e \in Paths, NEW p \in Below(e), MayTouch(e, TRUE), NEW b
    PROVE  MayTouch(p, b)
  BY BelowBelow DEF MayTouch, Protected

LEMMA SweptActs ==
    ASSUME doc \in Documents, NEW t, Begun(t), NEW S,
           NEW p \in Swept(t, S), p \in DOMAIN doc.files, t[p] # "absent"
    PROVE  Acts(t, p)
  <1>1. PICK e \in Acting(t, Removals \union {"empty/"}) \intersect S :
            e \in Above[p] \union {p}
    BY DEF Swept
  <1>2. p \in Paths /\ ~Survives(t, p) /\ e \in Paths /\ Acts(t, e)
    BY <1>1, ActingIsFree DEF Swept, Acting
  <1> SUFFICES ASSUME e # p PROVE Acts(t, p)
    BY <1>2
  <1>3. t[e] = "dir" /\ p \in Below(e)
    BY <1>1, <1>2 DEF Begun, WellFormed, Below
  <1>4. MayTouch(e, TRUE)
    BY <1>1, <1>2, <1>3 DEF Acts, Acting, Of, Removals
  <1>5. \A b : MayTouch(p, b)
    BY <1>2, <1>3, <1>4, TouchBelow
  <1>6. ~Kept(p)
    <2>1. t[p] \notin Links
      BY DEF Begun, Refused
    <2> QED BY <1>2, <2>1 DEF KeptNode, Survives
  <1> QED BY <1>5, <1>6 DEF Acts

-----------------------------------------------------------------------------
(* How meaning and report grow when an entry e has been dealt with.        *)

LEMMA IdleEntry ==
    ASSUME doc \in Documents, NEW t, NEW S, NEW e \in DOMAIN doc.files, ~Acts(t, e)
    PROVE  /\ Partial(t, S \union {e}) = Partial(t, S)
           /\ RemovedBy(t, S \union {e}) = RemovedBy(t, S)
           /\ WrittenBy(t, S \union {e}) = WrittenBy(t, S)
           /\ WayFree(t, S) => WayFree(t, S \union {e})
  <1>1. \A kinds : Acting(t, kinds) \intersect (S \union {e}) = Acting(t, kinds) \intersect S
    BY DEF Acting
  <1>2. Partial(t, S \union {e}) = Partial(t, S)
    <2>1. Written(t, S \union {e}) = Written(t, S) /\ Opened(t, S \union {e}) = Opened(t, S)
      BY <1>1 DEF Written, Opened
    <2>2. Swept(t, S \union {e}) = Swept(t, S)
      BY <1>1 DEF Swept
    <2> QED BY <2>1, <2>2 DEF Partial
  <1>3. RemovedBy(t, S \union {e}) = RemovedBy(t, S)
    <2>1. e \in Of(Removals) => DryRemoved(t, e) = {}
      BY DEF DryRemoved, Acts, Of, Removals
    <2>2. e \in Of({"empty/"}) => DryEmptied(t, e) = {}
      BY DEF DryEmptied, Acts, Of
    <2> QED BY <2>1, <2>2 DEF RemovedBy
  <1> QED BY <1>1, <1>2, <1>3 DEF WrittenBy, WayFree

LEMMA IdleReport ==
    ASSUME doc \in Documents, NEW t, NEW S, NEW e \in DOMAIN doc.files, ~Acts(t, e)
    PROVE  LET told == doc.files[e] \in Removals => t[e] # "absent"
           IN  /\ KeptBy(t, S \union {e})
                    = KeptBy(t, S) \union (IF told /\ Kept(e) THEN {e} ELSE {})
               /\ SkippedBy(t, S \union {e})
                    = SkippedBy(t, S) \union (IF told /\ ~Kept(e) THEN {e} ELSE {})
  <1>1. \A kinds : Acting(t, kinds) \intersect (S \union {e}) = Acting(t, kinds) \intersect S
    BY DEF Acting
  <1>2. e \in Paths
    BY EntriesArePaths
  <1> QED BY <1>1, <1>2 DEF KeptBy, SkippedBy

\* An entry that acts, of each kind.
Grows(t, S, e, removed, written, kept) ==
    /\ RemovedBy(t, S \union {e}) = RemovedBy(t, S) \union removed
    /\ WrittenBy(t, S \union {e}) = WrittenBy(t, S) \union written
    /\ SkippedBy(t, S \union {e}) = SkippedBy(t, S)
    /\ KeptBy(t, S \union {e}) = KeptBy(t, S) \union kept

KeptWith(t, e) == {q \in KeptBelow(t, e) \union {e} : KeptBelow(t, e) # {}}

LEMMA RemovalReport ==
    ASSUME doc \in Documents, NEW t, Begun(t), NEW S, NEW e \in Of(Removals), Acts(t, e)
    PROVE  Grows(t, S, e, DryRemoved(t, e), {}, KeptWith(t, e))
  <1> DEFINE U == S \union {e}
  <1>1. e \in Paths /\ ~Kept(e) /\ KeptBelow(t, e) \subseteq Paths
    BY EntriesArePaths DEF Acts, KeptBelow, Below, Of
  <1>2. KeptBelow(t, e) # {} => t[e] = "dir"
    BY <1>1, KeptMakesDir
  <1>3. SkippedBy(t, U) = SkippedBy(t, S)
    BY <1>1 DEF SkippedBy
  <1>4. e \notin Of({"empty/"}) /\ e \in Acting(t, Removals)
        /\ e \in Acting(t, Removals \union {"empty/"}) /\ e \notin Acting(t, {"text", "empty/"})
    BY DEF Of, Acting, Removals
  <1>5. DryRemoved(t, e) \subseteq Paths
    BY <1>1 DEF DryRemoved, Cleared, Below
  <1>6. RemovedBy(t, U) = RemovedBy(t, S) \union DryRemoved(t, e)
    BY <1>4, <1>5 DEF RemovedBy
  <1>7. WrittenBy(t, U) = WrittenBy(t, S)
    BY <1>4 DEF WrittenBy
  <1>8. KeptBy(t, U) = KeptBy(t, S) \union KeptWith(t, e)
    BY <1>1, <1>2, <1>4 DEF KeptBy, KeptWith
  <1> QED BY <1>3, <1>6, <1>7, <1>8 DEF Grows

LEMMA EmptyReport ==
    ASSUME doc \in Documents, NEW t, Begun(t), NEW S, NEW e \in Of({"empty/"}), Acts(t, e)
    PROVE  Grows(t, S, e, DryEmptied(t, e), {e}, KeptBelow(t, e))
  <1> DEFINE U == S \union {e}
  <1>1. e \in Paths /\ ~Kept(e) /\ KeptBelow(t, e) \subseteq Paths
    BY EntriesArePaths DEF Acts, KeptBelow, Below, Of
  <1>2. KeptBelow(t, e) # {} => t[e] = "dir"
    BY <1>1, KeptMakesDir
  <1>3. SkippedBy(t, U) = SkippedBy(t, S)
    BY <1>1 DEF SkippedBy
  <1>4. e \notin Of(Removals) /\ e \notin Acting(t, Removals)
        /\ e \in Acting(t, Removals \union {"empty/"}) /\ e \in Acting(t, {"text", "empty/"})
    BY DEF Of, Acting, Removals
  <1>5. DryEmptied(t, e) \subseteq Paths
    BY <1>1 DEF DryEmptied, Cleared, Below
  <1>6. RemovedBy(t, U) = RemovedBy(t, S) \union DryEmptied(t, e)
    BY <1>4, <1>5 DEF RemovedBy
  <1>7. WrittenBy(t, U) = WrittenBy(t, S) \union {e}
    BY <1>4 DEF WrittenBy
  <1>8. KeptBy(t, U) = KeptBy(t, S) \union KeptBelow(t, e)
    BY <1>1, <1>2, <1>4 DEF KeptBy
  <1> QED BY <1>3, <1>6, <1>7, <1>8 DEF Grows

LEMMA TextReport ==
    ASSUME doc \in Documents, NEW t, NEW S, NEW e \in Of({"text"}), Acts(t, e)
    PROVE  Grows(t, S, e, {}, {e}, {})
  <1> DEFINE U == S \union {e}
  <1>1. e \in Paths /\ ~Kept(e)
    BY EntriesArePaths DEF Acts, Of
  <1>2. SkippedBy(t, U) = SkippedBy(t, S)
    BY <1>1 DEF SkippedBy
  <1>3. e \notin Of(Removals) /\ e \notin Of({"empty/"}) /\ e \notin Acting(t, Removals)
        /\ e \notin Acting(t, Removals \union {"empty/"}) /\ e \in Acting(t, {"text", "empty/"})
    BY DEF Of, Acting, Removals
  <1>4. RemovedBy(t, U) = RemovedBy(t, S)
    BY <1>3 DEF RemovedBy
  <1>5. WrittenBy(t, U) = WrittenBy(t, S) \union {e}
    BY <1>3 DEF WrittenBy
  <1>6. KeptBy(t, U) = KeptBy(t, S)
    BY <1>1, <1>3 DEF KeptBy
  <1> QED BY <1>2, <1>4, <1>5, <1>6 DEF Grows

\* The pass of the removals: what is at e and below it has gone but for what
\* survives.
LEMMA RemovalMeans ==
    ASSUME doc \in Documents, NEW t, NEW S, S \subseteq Of(Removals),
           NEW e \in Of(Removals), Acts(t, e),
           NEW f, f = [p \in Paths |-> f[p]],
           \A p \in Paths \ (Below(e) \union {e}) : f[p] = Partial(t, S)[p],
           \A p \in Below(e) \union {e} : f[p] = IF Survives(t, p) THEN t[p] ELSE "absent"
    PROVE  f = Partial(t, S \union {e})
  <1> DEFINE U == S \union {e}
  <1>1. \A k \in {"text", "empty/"} : Of({k}) \intersect U = {}
    BY DEF Of, Removals
  <1>2. Written(t, U) = {} /\ Written(t, S) = {} /\ Opened(t, U) = {} /\ Opened(t, S) = {}
    BY <1>1 DEF Written, Opened, Acting, Of
  <1>3. Swept(t, U) = Swept(t, S)
          \union {p \in Paths : ~Survives(t, p) /\ p \in Below(e) \union {e}}
    <2>1. e \in Acting(t, Removals \union {"empty/"}) /\ e \in Paths
      BY EntriesArePaths DEF Acting, Of
    <2> QED BY <2>1 DEF Swept, Below
  <1>4. ASSUME NEW p \in Paths PROVE f[p] = Partial(t, U)[p]
    <2>1. Partial(t, U)[p] = IF p \in Swept(t, U) THEN "absent" ELSE t[p]
      BY <1>2 DEF Partial
    <2>2. Partial(t, S)[p] = IF p \in Swept(t, S) THEN "absent" ELSE t[p]
      BY <1>2 DEF Partial
    <2>3. CASE p \in Below(e) \union {e}
      <3>1. p \in Swept(t, U) <=> ~Survives(t, p)
        BY <1>3, <2>3 DEF Swept
      <3> QED BY <2>1, <2>3, <3>1
    <2>4. CASE p \notin Below(e) \union {e}
      BY <1>3, <2>1, <2>2, <2>4
    <2> QED BY <2>3, <2>4
  <1> HIDE DEF U
  <1>5. Partial(t, U) = [p \in Paths |-> Partial(t, U)[p]]
    BY DEF Partial
  <1>6. f = Partial(t, U)
    BY <1>4, <1>5
  <1> QED BY <1>6 DEF U

\* The pass of the directories to empty: e is there with those above it, and
\* below it is what survives.
LEMMA EmptyMeans ==
    ASSUME doc \in Documents, NEW t, NEW S, S \subseteq Of(Removals \union {"empty/"}),
           NEW e \in Of({"empty/"}), Acts(t, e), Below(e) \intersect Opened(t, S) = {},
           NEW f, f = [p \in Paths |-> f[p]],
           \A p \in Paths \ (Below(e) \union Above[e] \union {e}) : f[p] = Partial(t, S)[p],
           \A p \in Above[e] \union {e} : f[p] = "dir",
           \A p \in Below(e) : f[p] = IF Survives(t, p) THEN t[p] ELSE "absent"
    PROVE  f = Partial(t, S \union {e})
  <1> DEFINE U == S \union {e}
  <1>1. Of({"text"}) \intersect U = {}
    BY DEF Of, Removals
  <1>2. Written(t, U) = {} /\ Written(t, S) = {}
    BY <1>1 DEF Written, Acting
  <1>3. /\ e \in Acting(t, Removals \union {"empty/"}) /\ e \in Acting(t, {"empty/"})
        /\ e \in Acting(t, {"text", "empty/"}) /\ e \in Paths
    BY EntriesArePaths DEF Acting, Of
  <1>4. Swept(t, U) = Swept(t, S)
          \union {p \in Paths : ~Survives(t, p) /\ p \in Below(e) \union {e}}
    BY <1>3 DEF Swept, Below
  <1>5. Opened(t, U) = Opened(t, S) \union Above[e] \union {e}
    BY <1>3, PathsAssumption DEF Opened
  <1>6. Below(e) \intersect (Above[e] \union {e}) = {} /\ Above[e] \subseteq Paths
    BY <1>3, BelowBelow, PathsAssumption
  <1>7. ASSUME NEW p \in Paths PROVE f[p] = Partial(t, U)[p]
    <2>1. Partial(t, U)[p] = IF p \in Opened(t, U) THEN "dir"
                             ELSE IF p \in Swept(t, U) THEN "absent" ELSE t[p]
      BY <1>2 DEF Partial
    <2>2. Partial(t, S)[p] = IF p \in Opened(t, S) THEN "dir"
                             ELSE IF p \in Swept(t, S) THEN "absent" ELSE t[p]
      BY <1>2 DEF Partial
    <2>3. CASE p \in Above[e] \union {e}
      BY <1>5, <2>1, <2>3
    <2>4. CASE p \in Below(e)
      <3>1. p \notin Opened(t, U)
        BY <1>5, <1>6, <2>4
      <3>2. p \in Swept(t, U) <=> ~Survives(t, p)
        BY <1>4, <2>4 DEF Swept
      <3> QED BY <2>1, <2>4, <3>1, <3>2
    <2>5. CASE p \notin Below(e) \union Above[e] \union {e}
      BY <1>4, <1>5, <2>1, <2>2, <2>5
    <2> QED BY <2>3, <2>4, <2>5
  <1> HIDE DEF U
  <1>8. Partial(t, U) = [p \in Paths |-> Partial(t, U)[p]]
    BY DEF Partial
  <1>9. f = Partial(t, U)
    BY <1>7, <1>8
  <1> QED BY <1>9 DEF U

\* The pass of the files: e is written and the directories above it are there.
LEMMA WriteMeans ==
    ASSUME doc \in Documents, NEW t, NEW S,
           NEW e \in Of({"text"}), Acts(t, e),
           \A p \in Above[e] : Partial(t, S)[p] \in {"absent", "dir"},
           NEW f, f = [p \in Paths |-> f[p]],
           \A p \in Paths \ (Above[e] \union {e}) : f[p] = Partial(t, S)[p],
           \A p \in Above[e] : f[p] = "dir",
           f[e] = "new"
    PROVE  f = Partial(t, S \union {e})
  <1> DEFINE U == S \union {e}
  <1>1. /\ e \in Acting(t, {"text"}) /\ e \in Acting(t, {"text", "empty/"}) /\ e \in Paths
        /\ e \notin Acting(t, {"empty/"}) /\ e \notin Acting(t, Removals \union {"empty/"})
    BY EntriesArePaths DEF Acting, Of, Removals
  <1>2. Written(t, U) = Written(t, S) \union {e}
    BY <1>1 DEF Written
  <1>3. Opened(t, U) = Opened(t, S) \union Above[e]
    BY <1>1, PathsAssumption DEF Opened
  <1>4. Swept(t, U) = Swept(t, S)
    BY <1>1 DEF Swept
  <1>5. \A p \in Above[e] : p \in Paths /\ p # e /\ p \notin Written(t, S)
    <2>1. \A p \in Above[e] : p \in Paths /\ p # e
      BY <1>1, PathsAssumption
    <2> QED BY <2>1 DEF Partial
  <1>6. ASSUME NEW p \in Paths PROVE f[p] = Partial(t, U)[p]
    <2>1. CASE p = e
      BY <1>2, <2>1 DEF Partial
    <2>2. CASE p \in Above[e]
      <3>1. p \notin Written(t, U) /\ p \in Opened(t, U)
        BY <1>2, <1>3, <1>5, <2>2
      <3> QED BY <2>2, <3>1 DEF Partial
    <2>3. CASE p \notin Above[e] \union {e}
      BY <1>2, <1>3, <1>4, <2>3 DEF Partial
    <2> QED BY <2>1, <2>2, <2>3
  <1> HIDE DEF U
  <1>7. Partial(t, U) = [p \in Paths |-> Partial(t, U)[p]]
    BY DEF Partial
  <1>8. f = Partial(t, U)
    BY <1>6, <1>7
  <1> QED BY <1>8 DEF U

-----------------------------------------------------------------------------
(* From one entry to the next.                                             *)

\* Meaning and report do not depend on what a pass changes.
LEMMA StillMeans ==
    ASSUME UNCHANGED <<doc, pre, before>>, NEW t, t = Skeleton, NEW S, S = Dealt'
    PROVE  /\ Begun(Skeleton)' <=> Begun(t)
           /\ (plan = DryRun(Skeleton))' <=> plan' = DryRun(t)
           /\ WayFree(Skeleton, Dealt)' <=> WayFree(t, S)
           /\ Partial(Skeleton, Dealt)' = Partial(t, S)
           /\ \A p : Survives(Skeleton, p)' <=> Survives(t, p)
           /\ RemovedBy(Skeleton, Dealt)' = RemovedBy(t, S)
           /\ WrittenBy(Skeleton, Dealt)' = WrittenBy(t, S)
           /\ SkippedBy(Skeleton, Dealt)' = SkippedBy(t, S)
           /\ KeptBy(Skeleton, Dealt)' = KeptBy(t, S)
           /\ Skeleton' = t
  <1>1. Skeleton' = t
    BY DEF Skeleton, Make, Here
  <1>2. Begun(Skeleton)' <=> Begun(t)
    BY <1>1 DEF Begun, WellFormed, Existing, Refused, NamesDirectory, Below
  <1>3. \A p : Survives(Skeleton, p)' <=> Survives(t, p)
    BY <1>1 DEF Survives, KeptNode, Kept, Below
  <1>4. Partial(Skeleton, Dealt)' = Partial(t, S)
    BY <1>1 DEF Partial, Written, Opened, Swept, Acting, Of, Acts, Kept, MayTouch,
                Protected, Survives, KeptNode, Below
  <1>5. RemovedBy(Skeleton, Dealt)' = RemovedBy(t, S)
    BY <1>1 DEF RemovedBy, DryRemoved, DryEmptied, Cleared, KeptBelow, Of, Kept, MayTouch,
                Protected, Survives, KeptNode, Below
  <1>6. WrittenBy(Skeleton, Dealt)' = WrittenBy(t, S)
    BY <1>1 DEF WrittenBy, Acting, Of, Acts, Kept, MayTouch, Protected, Below
  <1>7. SkippedBy(Skeleton, Dealt)' = SkippedBy(t, S)
    BY <1>1 DEF SkippedBy, Acts, Kept, MayTouch, Protected, Below
  <1>8. KeptBy(Skeleton, Dealt)' = KeptBy(t, S)
    BY <1>1 DEF KeptBy, Acting, Of, Acts, Kept, MayTouch, Protected, KeptBelow, KeptNode, Below
  <1>9. WayFree(Skeleton, Dealt)' <=> WayFree(t, S)
    BY <1>1, <1>5 DEF WayFree, Acting, Of, Acts, Kept, MayTouch, Protected, Below
  <1>10. (plan = DryRun(Skeleton))' <=> plan' = DryRun(t)
    BY <1>1 DEF DryRun, DryRemoved, DryEmptied, Cleared, KeptBelow, Of, Kept, MayTouch,
                Protected, Survives, KeptNode, Below
  <1> QED BY <1>1, <1>2, <1>3, <1>4, <1>5, <1>6, <1>7, <1>8, <1>9, <1>10

LEMMA Still ==
    ASSUME UNCHANGED inputs, NEW t, t = Skeleton, NEW S, S = Dealt'
    PROVE  /\ Begun(Skeleton)' <=> Begun(t)
           /\ (plan = DryRun(Skeleton))' <=> plan = DryRun(t)
           /\ WayFree(Skeleton, Dealt)' <=> WayFree(t, S)
           /\ Partial(Skeleton, Dealt)' = Partial(t, S)
           /\ \A p : Survives(Skeleton, p)' <=> Survives(t, p)
           /\ RemovedBy(Skeleton, Dealt)' = RemovedBy(t, S)
           /\ WrittenBy(Skeleton, Dealt)' = WrittenBy(t, S)
           /\ SkippedBy(Skeleton, Dealt)' = SkippedBy(t, S)
           /\ KeptBy(Skeleton, Dealt)' = KeptBy(t, S)
           /\ Skeleton' = t
  BY StillMeans DEF inputs

\* The entries of the pass, and those dealt with.
LEMMA DealtFacts ==
    ASSUME InOrder, phase \in Passes
    PROVE  /\ phase = "remove" => Dealt \subseteq Of(Removals) /\ todo \subseteq Of(Removals)
           /\ phase = "empty" => /\ Dealt \subseteq Of(Removals \union {"empty/"})
                                 /\ todo \subseteq Of({"empty/"})
           /\ phase = "write" => todo \subseteq Of({"text"})
           /\ Dealt \subseteq DOMAIN doc.files /\ todo \subseteq DOMAIN doc.files
           /\ Dealt \intersect todo = {}
  BY DEF InOrder, Dealt, Kind, Earlier, Of, Removals, Passes

\* The invariant in the middle of an entry, and the one after it, from what
\* the step does to the inventory and the report.
LEMMA AmidstClearing ==
    ASSUME IInv, phase \in {"remove", "empty"}, InPasses(Skeleton, Dealt),
           UNCHANGED <<todo, phase, inputs>>,
           NEW c, cur' = c, c \in todo, Above[c] \intersect todo = {}, NoPath \notin todo,
           NEW t, t = Skeleton, NEW S, S = Dealt,
           \A p \in Paths \ (Below(c) \union {c}) : fs'[p] = Partial(t, S)[p],
           \A p \in Below(c) \union {c} :
               fs'[p] = Partial(t, S)[p] \/ (fs'[p] = "absent" /\ ~Survives(t, p)),
           fs'[c] \in {"absent", "dir"}, phase = "remove" => fs'[c] = "dir",
           Partial(t, S)[c] = "dir" => fs'[c] = "dir",
           NEW G, res'.removed = RemovedBy(t, S) \union G, res'.written = res.written,
           res'.skipped = res.skipped, res'.kept = res.kept,
           \A p : p \in G <=>
               p \in Below(c) \union {c} /\ t[p] # "absent" /\ fs'[p] = "absent"
    PROVE  InPasses(Skeleton, Dealt)'
  <1>1. Dealt' = S
    BY DEF Dealt, Of, Kind, Earlier, inputs
  <1>2. InOrder'
    BY DEF InPasses, InOrder, Of, Kind, inputs
  <1>3. Begun(Skeleton)' /\ (plan = DryRun(Skeleton))' /\ WayFree(Skeleton, Dealt)'
    BY <1>1, Still DEF InPasses
  <1>4. res \in Results /\ c # NoPath
    BY DEF IInv, TypeOK
  <1>5. Content(Skeleton, Dealt)'
    <2>1. Clearing(Skeleton, Dealt)'
      BY <1>1, Still DEF Clearing, Below
    <2> QED BY <1>4, <2>1 DEF Content
  <1>6. Reported(Skeleton, Dealt)'
    <2>1. /\ res.written = WrittenBy(t, S) /\ res.skipped = SkippedBy(t, S)
          /\ res.kept = KeptBy(t, S)
      BY DEF InPasses, Reported
    <2>2. Gone(Skeleton)' = G
      BY <1>1, <1>4, Still DEF Gone, Below
    <2> QED BY <1>1, <1>4, <2>1, <2>2, Still DEF Reported, Results
  <1> QED BY <1>2, <1>3, <1>5, <1>6 DEF InPasses

LEMMA AmidstWriting ==
    ASSUME IInv, phase = "write", cur = NoPath, InPasses(Skeleton, Dealt),
           UNCHANGED <<todo, phase, res, inputs>>,
           NEW c, cur' = c, c \in todo, Above[c] \intersect todo = {}, NoPath \notin todo,
           NEW t, t = Skeleton, NEW S, S = Dealt,
           Partial(t, S)[c] # "dir",
           \A p \in Above[c] : Partial(t, S)[p] \in {"absent", "dir"} /\ fs'[p] = "dir",
           \A p \in Paths \ (Above[c] \union {c}) : fs'[p] = Partial(t, S)[p]
    PROVE  InPasses(Skeleton, Dealt)'
  <1>1. Dealt' = S
    BY DEF Dealt, Of, Kind, Earlier, inputs
  <1>2. InOrder'
    BY DEF InPasses, InOrder, Of, Kind, inputs
  <1>3. Begun(Skeleton)' /\ (plan = DryRun(Skeleton))' /\ WayFree(Skeleton, Dealt)'
    BY <1>1, Still DEF InPasses
  <1>4. Content(Skeleton, Dealt)'
    <2>1. Writing(Skeleton, Dealt)'
      BY <1>1, Still DEF Writing
    <2> QED BY <2>1 DEF Content
  <1>5. Reported(Skeleton, Dealt)'
    BY <1>1, Still DEF InPasses, Reported, Gone
  <1> QED BY <1>2, <1>3, <1>4, <1>5 DEF InPasses

LEMMA Onward ==
    ASSUME IInv, phase \in Passes, InPasses(Skeleton, Dealt),
           UNCHANGED <<phase, inputs>>,
           NEW e \in todo, Above[e] \intersect todo = {}, todo' = todo \ {e}, cur' = NoPath,
           NEW t, t = Skeleton, NEW S, S = Dealt \union {e},
           fs' = Partial(t, S), WayFree(t, S),
           res'.removed = RemovedBy(t, S), res'.written = WrittenBy(t, S),
           res'.skipped = SkippedBy(t, S), res'.kept = KeptBy(t, S)
    PROVE  InPasses(Skeleton, Dealt)'
  <1>1. e \in Of(Kind)
    BY DEF InPasses, InOrder
  <1>2. Dealt' = S
    BY <1>1 DEF Dealt, Of, Kind, Earlier, inputs
  <1>3. InOrder'
    BY <1>1 DEF InPasses, InOrder, Of, Kind, inputs
  <1>4. Begun(Skeleton)' /\ (plan = DryRun(Skeleton))' /\ WayFree(Skeleton, Dealt)'
    BY <1>2, Still DEF InPasses
  <1>5. Content(Skeleton, Dealt)'
    BY <1>2, Still DEF Content
  <1>6. Reported(Skeleton, Dealt)'
    BY <1>2, Still DEF Reported, Gone
  <1> QED BY <1>3, <1>4, <1>5, <1>6 DEF InPasses

\* An entry that does nothing is reported, or was not there.
LEMMA IdleStep ==
    ASSUME IInv, phase \in Passes, InPasses(Skeleton, Dealt),
           UNCHANGED <<fs, phase, inputs>>,
           NEW e, Next1(e), Finish(e), ~Acts(Skeleton, e),
           LET told == doc.files[e] \in Removals => Skeleton[e] # "absent"
           IN  res' = [res EXCEPT !.kept = @ \union (IF told /\ Kept(e) THEN {e} ELSE {}),
                                  !.skipped = @ \union (IF told /\ ~Kept(e) THEN {e} ELSE {})]
    PROVE  InPasses(Skeleton, Dealt)'
  <1> DEFINE t == Skeleton
             S == Dealt \union {e}
  <1>1. /\ cur = NoPath /\ e \in todo /\ Above[e] \intersect todo = {}
        /\ todo' = todo \ {e} /\ cur' = NoPath /\ e \in DOMAIN doc.files
        /\ doc \in Documents /\ res \in Results
    BY DEF Next1, Finish, IInv, TypeOK
  <1>2. /\ fs = Partial(t, Dealt) /\ WayFree(t, Dealt)
        /\ res.removed = RemovedBy(t, Dealt) /\ res.written = WrittenBy(t, Dealt)
        /\ res.skipped = SkippedBy(t, Dealt) /\ res.kept = KeptBy(t, Dealt)
    BY <1>1 DEF InPasses, Content, Reported, Gone
  <1>3. /\ Partial(t, S) = Partial(t, Dealt) /\ RemovedBy(t, S) = RemovedBy(t, Dealt)
        /\ WrittenBy(t, S) = WrittenBy(t, Dealt) /\ WayFree(t, S)
    BY <1>1, <1>2, IdleEntry
  <1>4. res'.skipped = SkippedBy(t, S) /\ res'.kept = KeptBy(t, S)
        /\ res'.removed = res.removed /\ res'.written = res.written
    <2> DEFINE told == doc.files[e] \in Removals => t[e] # "absent"
               k == IF told /\ Kept(e) THEN {e} ELSE {}
               n == IF told /\ ~Kept(e) THEN {e} ELSE {}
    <2>1. KeptBy(t, S) = KeptBy(t, Dealt) \union k /\ SkippedBy(t, S) = SkippedBy(t, Dealt) \union n
      BY <1>1, IdleReport
    <2>2. res' = [res EXCEPT !.kept = @ \union k, !.skipped = @ \union n]
      OBVIOUS
    <2> HIDE DEF k, n
    <2> QED BY <1>1, <1>2, <2>1, <2>2 DEF Results
  <1> HIDE DEF t, S
  <1>5. t = Skeleton /\ S = Dealt \union {e}
    BY DEF t, S
  <1>6. fs' = Partial(t, S) /\ res'.removed = RemovedBy(t, S) /\ res'.written = WrittenBy(t, S)
    BY <1>2, <1>3, <1>4
  <1> QED BY <1>1, <1>3, <1>4, <1>5, <1>6, Onward

\* What was there and is gone is in the report.
LEMMA AbsentIsReported ==
    ASSUME doc \in Documents, NEW t, Begun(t), NEW S, NEW p \in Paths,
           Partial(t, S)[p] = "absent", t[p] # "absent"
    PROVE  p \in RemovedBy(t, S) /\ p \in Swept(t, S) /\ ~Survives(t, p)
  <1>1. p \in Swept(t, S) /\ p \notin Opened(t, S)
    BY DEF Partial
  <1> QED BY <1>1, SweptIsRemoved DEF Swept

\* An entry that is in the way of what is written by its pass or an earlier
\* one comes before it.
LEMMA NotOpened ==
    ASSUME doc \in Documents, InOrder, phase \in {"remove", "empty"}, NEW e \in todo, NEW t
    PROVE  (Below(e) \union {e}) \intersect Opened(t, Dealt) = {}
  <1>1. SUFFICES ASSUME NEW p \in Below(e) \union {e}, p \in Opened(t, Dealt)
                 PROVE  FALSE
    OBVIOUS
  <1>2. e \in Paths
    BY DealtFacts, EntriesArePaths DEF Passes
  <1>3. PICK a \in Acting(t, {"text", "empty/"}) \intersect Dealt : p \in Above[a] \union {a}
    BY <1>1 DEF Opened, Acting, Of
  <1>4. phase = "empty" /\ a \in Of({"empty/"}) \ todo
    BY <1>3, DealtFacts DEF Dealt, Kind, Earlier, Acting, Of, Removals, Passes
  <1>5. a \in Paths /\ a # e
    BY <1>2, <1>3, <1>4, ActingIsFree
  <1>6. e \in Above[a]
    <2>1. CASE p \in Above[a]
      BY <1>2, <1>5, <2>1, PathsAssumption DEF Below
    <2>2. CASE p = a
      BY <1>5, <2>2 DEF Below
    <2> QED BY <1>3, <2>1, <2>2
  <1> QED BY <1>4, <1>6 DEF InOrder, Kind

\* A directory on the way of what is written was there, or is reported.
LEMMA WayIsFree ==
    ASSUME doc \in Documents, NEW t, Begun(t), NEW S, WayFree(t, S), NEW p \in Paths,
           Partial(t, S)[p] \in {"absent", "dir"}
    PROVE  t[p] \in {"absent", "dir"} \/ p \in RemovedBy(t, S)
  <1>1. CASE Partial(t, S)[p] = "absent"
    BY <1>1, AbsentIsReported
  <1>2. CASE Partial(t, S)[p] = "dir" /\ p \in Opened(t, S) /\ t[p] \notin {"absent", "dir"}
    <2>1. CASE p \in Acting(t, {"empty/"}) \intersect S
      <3>1. p \in DryEmptied(t, p)
        BY <1>2, <2>1 DEF DryEmptied, Acting, Acts, Of
      <3> QED BY <2>1, <3>1 DEF RemovedBy, Acting
    <2>2. CASE \E e \in Acting(t, {"text", "empty/"}) \intersect S : p \in Above[e]
      BY <1>2, <2>2 DEF WayFree
    <2> QED BY <1>2, <2>1, <2>2 DEF Opened
  <1>3. CASE Partial(t, S)[p] = "dir" /\ p \notin Opened(t, S)
    BY <1>3 DEF Partial
  <1> QED BY <1>1, <1>2, <1>3

LEMMA WayStaysFree ==
    ASSUME doc \in Documents, NEW t, Begun(t), NEW S, WayFree(t, S), NEW e \in DOMAIN doc.files,
           doc.files[e] \in Removals \/ \A p \in Above[e] : Partial(t, S)[p] \in {"absent", "dir"}
    PROVE  WayFree(t, S \union {e})
  <1> SUFFICES ASSUME NEW a \in Acting(t, {"text", "empty/"}) \intersect (S \union {e}),
                      NEW p \in Above[a]
               PROVE  t[p] \in {"absent", "dir"} \/ p \in RemovedBy(t, S \union {e})
    BY DEF WayFree
  <1>1. RemovedBy(t, S) \subseteq RemovedBy(t, S \union {e})
    BY DEF RemovedBy
  <1>2. CASE a \in S
    BY <1>1, <1>2 DEF WayFree
  <1>3. CASE a = e
    <2>1. p \in Paths /\ Partial(t, S)[p] \in {"absent", "dir"}
      BY <1>3, ActingIsFree DEF Removals
    <2> QED BY <1>1, <2>1, WayIsFree
  <1> QED BY <1>2, <1>3

\* In the middle of an entry as well, what is kept is as it was, and what
\* survives below the entry.
LEMMA Survivors ==
    ASSUME IInv, InPasses(Skeleton, Dealt), phase \in Passes, NEW t, t = Skeleton
    PROVE  /\ \A p \in Paths : KeptNode(fs, p) <=> KeptNode(t, p)
           /\ \A p \in Paths : Survives(fs, p) <=> Survives(t, p)
           /\ \A p \in Paths : KeptBelow(fs, p) = KeptBelow(t, p)
  <1>1. doc \in Documents
    BY DEF IInv, TypeOK
  <1>2. cur # NoPath => ~Kept(cur) /\ cur \in Paths
    BY <1>1, EntriesArePaths DEF IInv, InHand
  <1>3. ASSUME NEW p \in Paths, Kept(p)
        PROVE  fs[p] = t[p] \/ (fs[p] = "absent" /\ ~KeptNode(t, p))
    <2>1. Partial(t, Dealt)[p] = t[p] \/ (Partial(t, Dealt)[p] = "absent" /\ ~KeptNode(t, p))
      BY <1>1, <1>3, PartialKept
    <2>2. CASE fs[p] = Partial(t, Dealt)[p]
      BY <2>1, <2>2
    <2>3. CASE fs[p] # Partial(t, Dealt)[p]
      <3>1. cur # NoPath
        BY <2>3 DEF InPasses, Content
      <3>2. CASE Clearing(t, Dealt)
        BY <2>3, <3>2 DEF Clearing, Survives
      <3>3. CASE Writing(t, Dealt)
        <4>1. p \in Above[cur] \union {cur}
          BY <2>3, <3>3 DEF Writing
        <4> QED BY <1>2, <1>3, <3>1, <4>1, KeptUp
      <3> QED BY <3>1, <3>2, <3>3 DEF InPasses, Content
    <2> QED BY <2>2, <2>3
  <1> QED BY <1>3, SameSurvivors

\* What an entry finds.
LEMMA EntryFacts ==
    ASSUME IInv, InPasses(Skeleton, Dealt), phase \in Passes, NEW e, Next1(e),
           NEW t, t = Skeleton, NEW S, S = Dealt
    PROVE  /\ doc \in Documents /\ res \in Results /\ Begun(t)
           /\ cur = NoPath /\ e \in todo /\ Above[e] \intersect todo = {} /\ NoPath \notin todo
           /\ e \in DOMAIN doc.files /\ e \in Paths /\ e \notin S
           /\ fs = Partial(t, S) /\ WayFree(t, S)
           /\ res.removed = RemovedBy(t, S) /\ res.written = WrittenBy(t, S)
           /\ res.skipped = SkippedBy(t, S) /\ res.kept = KeptBy(t, S)
           /\ fs \in [Paths -> Nodes] /\ WellFormed(fs)
           /\ Below(e) \subseteq Paths /\ Above[e] \subseteq Paths
  <1>1. cur = NoPath /\ e \in todo /\ Above[e] \intersect todo = {}
    BY DEF Next1
  <1>2. e \in DOMAIN doc.files /\ e \in Paths /\ NoPath \notin todo
    BY <1>1, PathsAssumption DEF IInv, TypeOK
  <1>3. e \notin S
    BY <1>1, DealtFacts DEF InPasses
  <1> QED BY <1>1, <1>2, <1>3, PathsAssumption
          DEF InPasses, Content, Reported, Gone, IInv, TypeOK, TreeOK, Below

-----------------------------------------------------------------------------
(* The removals.                                                           *)

\* Before a directory is written to, a path is as it was or swept away.
LEMMA RemovalValues ==
    ASSUME NEW t, NEW S, S \subseteq Of(Removals), NEW p \in Paths
    PROVE  /\ Partial(t, S)[p] = IF p \in Swept(t, S) THEN "absent" ELSE t[p]
           /\ Survives(t, p) => Partial(t, S)[p] = t[p]
  <1>1. \A kinds : kinds \in {{"text"}, {"empty/"}, {"text", "empty/"}} =>
            Acting(t, kinds) \intersect S = {}
    BY DEF Acting, Of, Removals
  <1>2. Written(t, S) = {} /\ Opened(t, S) = {}
    BY <1>1 DEF Written, Opened
  <1> QED BY <1>2 DEF Partial, Swept

\* The entry is not there: nothing is done, and nothing was left to do.
LEMMA RemoveAbsent ==
    ASSUME IInv, InPasses(Skeleton, Dealt), NEW e \in Paths, phase = "remove", Next1(e),
           fs[e] = "absent", Finish(e), UNCHANGED <<fs, res, phase, inputs>>,
           NEW t, t = Skeleton, NEW S, S = Dealt
    PROVE  InPasses(Skeleton, Dealt)'
  <1>1. /\ doc \in Documents /\ res \in Results /\ Begun(t)
        /\ e \in todo /\ Above[e] \intersect todo = {}
        /\ e \in DOMAIN doc.files /\ e \notin S
        /\ fs = Partial(t, S) /\ WayFree(t, S)
        /\ res.removed = RemovedBy(t, S) /\ res.written = WrittenBy(t, S)
        /\ res.skipped = SkippedBy(t, S) /\ res.kept = KeptBy(t, S)
        /\ fs \in [Paths -> Nodes] /\ WellFormed(fs) /\ Below(e) \subseteq Paths
    BY EntryFacts DEF Passes
  <1>2. S \subseteq Of(Removals) /\ e \in Of(Removals)
    BY <1>1, DealtFacts DEF InPasses, Passes
  <1>3. \A p \in Below(e) \union {e} : fs[p] = "absent"
    BY <1>1 DEF WellFormed, Below
  <1>4. CASE ~Acts(t, e)
    <2>1. t[e] = "absent"
      BY <1>1, <1>4, AbsentIsReported, SweptActs
    <2>2. doc.files[e] \in Removals
      BY <1>2 DEF Of
    <2>3. res = [res EXCEPT !.kept = @ \union {}, !.skipped = @ \union {}]
      BY <1>1 DEF Results
    <2> QED BY <1>1, <1>4, <2>1, <2>2, <2>3, IdleStep DEF Passes
  <1>5. CASE Acts(t, e)
    <2>1. \A p \in Below(e) \union {e} : Survives(t, p) => t[p] = "absent"
      BY <1>1, <1>2, <1>3, RemovalValues
    <2>2. fs = Partial(t, S \union {e})
      <3>1. fs = [p \in Paths |-> fs[p]]
        BY <1>1
      <3>2. \A p \in Below(e) \union {e} : fs[p] = IF Survives(t, p) THEN t[p] ELSE "absent"
        BY <1>3, <2>1
      <3> QED BY <1>1, <1>2, <1>5, <3>1, <3>2, RemovalMeans
    <2>3. KeptBelow(t, e) = {}
      BY <2>1 DEF KeptBelow, KeptNode, Survives
    <2>4. DryRemoved(t, e) \subseteq RemovedBy(t, S)
      <3>1. \A p \in DryRemoved(t, e) : p \in Below(e) \union {e} /\ t[p] # "absent"
        BY DEF DryRemoved, Cleared
      <3>2. \A p \in Below(e) \union {e} : t[p] # "absent" => p \in RemovedBy(t, S)
        BY <1>1, <1>3, AbsentIsReported
      <3> QED BY <3>1, <3>2
    <2>5. /\ RemovedBy(t, S \union {e}) = RemovedBy(t, S)
          /\ WrittenBy(t, S \union {e}) = WrittenBy(t, S)
          /\ SkippedBy(t, S \union {e}) = SkippedBy(t, S)
          /\ KeptBy(t, S \union {e}) = KeptBy(t, S)
      <3>1. Grows(t, S, e, DryRemoved(t, e), {}, KeptWith(t, e))
        BY <1>1, <1>2, <1>5, RemovalReport
      <3>2. KeptWith(t, e) = {}
        BY <2>3 DEF KeptWith
      <3> QED BY <2>4, <3>1, <3>2 DEF Grows
    <2>6. WayFree(t, S \union {e})
      BY <1>1, <1>2, WayStaysFree DEF Of
    <2>7. /\ res'.removed = RemovedBy(t, S \union {e}) /\ res'.written = WrittenBy(t, S \union {e})
          /\ res'.skipped = SkippedBy(t, S \union {e}) /\ res'.kept = KeptBy(t, S \union {e})
      BY <1>1, <2>5
    <2> QED BY <1>1, <2>2, <2>6, <2>7, Onward DEF Finish, Passes
  <1> QED BY <1>4, <1>5

\* A file, or a link to one, is removed.
LEMMA RemoveFile ==
    ASSUME IInv, InPasses(Skeleton, Dealt), NEW e \in Paths, phase = "remove", Next1(e),
           fs[e] \notin {"absent", "dir"}, ~Kept(e), MayTouch(e, FALSE),
           Remove(e), Finish(e), UNCHANGED <<phase, inputs>>,
           NEW t, t = Skeleton, NEW S, S = Dealt
    PROVE  InPasses(Skeleton, Dealt)'
  <1>1. /\ doc \in Documents /\ res \in Results /\ Begun(t)
        /\ e \in todo /\ Above[e] \intersect todo = {}
        /\ e \in DOMAIN doc.files /\ e \notin S
        /\ fs = Partial(t, S) /\ WayFree(t, S)
        /\ res.removed = RemovedBy(t, S) /\ res.written = WrittenBy(t, S)
        /\ res.skipped = SkippedBy(t, S) /\ res.kept = KeptBy(t, S)
        /\ fs \in [Paths -> Nodes] /\ WellFormed(fs) /\ Below(e) \subseteq Paths
    BY EntryFacts DEF Passes
  <1>2. S \subseteq Of(Removals) /\ e \in Of(Removals)
    BY <1>1, DealtFacts DEF InPasses, Passes
  <1>3. t[e] = fs[e] /\ \A p \in Below(e) : t[p] = "absent" /\ fs[p] = "absent"
    <2>1. t[e] = fs[e]
      BY <1>1, <1>2, RemovalValues
    <2> QED BY <1>1, <2>1 DEF Begun, WellFormed, Below
  <1>4. Acts(t, e)
    BY <1>2, <1>3 DEF Acts, Of, Removals
  <1>5. ~Survives(t, e) /\ KeptBelow(t, e) = {}
    BY <1>3 DEF Survives, KeptNode, KeptBelow
  <1>6. fs' = [fs EXCEPT ![e] = "absent"] /\ res' = [res EXCEPT !.removed = @ \union {e}]
    BY DEF Remove, Report
  <1>7. fs' = Partial(t, S \union {e})
    <2>1. fs' = [p \in Paths |-> fs'[p]] /\ e \notin Below(e)
      BY <1>1, <1>6, BelowBelow
    <2>2. \A p \in Below(e) \union {e} : fs'[p] = IF Survives(t, p) THEN t[p] ELSE "absent"
      BY <1>1, <1>3, <1>5, <1>6
    <2>3. \A p \in Paths \ (Below(e) \union {e}) : fs'[p] = Partial(t, S)[p]
      BY <1>1, <1>6
    <2> QED BY <1>1, <1>2, <1>4, <2>1, <2>2, <2>3, RemovalMeans
  <1>8. DryRemoved(t, e) = {e}
    <2>1. MayTouch(e, t[e] = "dir")
      BY <1>3
    <2> QED BY <1>3, <2>1 DEF DryRemoved
  <1>9. /\ RemovedBy(t, S \union {e}) = RemovedBy(t, S) \union {e}
        /\ WrittenBy(t, S \union {e}) = WrittenBy(t, S)
        /\ SkippedBy(t, S \union {e}) = SkippedBy(t, S)
        /\ KeptBy(t, S \union {e}) = KeptBy(t, S)
    <2>1. Grows(t, S, e, DryRemoved(t, e), {}, KeptWith(t, e))
      BY <1>1, <1>2, <1>4, RemovalReport
    <2>2. KeptWith(t, e) = {}
      BY <1>5 DEF KeptWith
    <2> QED BY <1>8, <2>1, <2>2 DEF Grows
  <1>10. WayFree(t, S \union {e})
    BY <1>1, <1>2, WayStaysFree DEF Of
  <1>11. /\ res'.removed = RemovedBy(t, S \union {e}) /\ res'.written = res.written
         /\ res'.skipped = res.skipped /\ res'.kept = res.kept
    BY <1>1, <1>6, <1>9 DEF Results
  <1> QED BY <1>1, <1>7, <1>9, <1>10, <1>11, Onward DEF Finish, Passes

\* A directory is taken in hand.
LEMMA StartClearing ==
    ASSUME IInv, InPasses(Skeleton, Dealt), NEW e \in Paths, phase \in {"remove", "empty"},
           Next1(e), fs[e] \in {"absent", "dir"}, phase = "remove" => fs[e] = "dir",
           cur' = e, UNCHANGED <<fs, res, todo, phase, inputs>>,
           NEW t, t = Skeleton, NEW S, S = Dealt
    PROVE  InPasses(Skeleton, Dealt)'
  <1>1. /\ doc \in Documents /\ res \in Results /\ Begun(t)
        /\ e \in todo /\ Above[e] \intersect todo = {} /\ NoPath \notin todo
        /\ fs = Partial(t, S) /\ res.removed = RemovedBy(t, S) /\ Below(e) \subseteq Paths
    BY EntryFacts DEF Passes
  <1> DEFINE G == {p \in Below(e) \union {e} : t[p] # "absent" /\ fs[p] = "absent"}
  <1>2. G \subseteq RemovedBy(t, S)
    BY <1>1, AbsentIsReported
  <1>3. \A p : p \in G <=> p \in Below(e) \union {e} /\ t[p] # "absent" /\ fs'[p] = "absent"
    OBVIOUS
  <1> HIDE DEF G
  <1>4. res'.removed = RemovedBy(t, S) \union G
    BY <1>1, <1>2
  <1>5. /\ \A p \in Paths \ (Below(e) \union {e}) : fs'[p] = Partial(t, S)[p]
        /\ \A p \in Below(e) \union {e} : fs'[p] = Partial(t, S)[p]
        /\ fs'[e] \in {"absent", "dir"} /\ (phase = "remove" => fs'[e] = "dir")
        /\ Partial(t, S)[e] = "dir" => fs'[e] = "dir"
    BY <1>1
  <1>6. res'.written = res.written /\ res'.skipped = res.skipped /\ res'.kept = res.kept
    OBVIOUS
  <1>7. UNCHANGED <<todo, phase, inputs>>
    OBVIOUS
  <1> QED BY <1>1, <1>3, <1>4, <1>5, <1>6, <1>7, AmidstClearing

LEMMA RemoveEntryStep ==
    ASSUME IInv, InPasses(Skeleton, Dealt), NEW e \in Paths, RemoveEntry(e),
           NEW t, t = Skeleton, NEW S, S = Dealt
    PROVE  InPasses(Skeleton, Dealt)'
  <1>1. phase = "remove" /\ Next1(e) /\ UNCHANGED <<phase, inputs>>
    BY DEF RemoveEntry
  <1>2. /\ doc \in Documents /\ res \in Results /\ e \in todo /\ fs = Partial(t, S)
    BY <1>1, EntryFacts DEF Passes
  <1>3. S \subseteq Of(Removals) /\ e \in Of(Removals) /\ doc.files[e] \in Removals
    BY <1>1, <1>2, DealtFacts DEF InPasses, Passes, Of
  <1>4. fs[e] # "absent" => t[e] = fs[e]
    BY <1>2, <1>3, RemovalValues
  <1>5. CASE fs[e] = "absent" /\ Finish(e) /\ UNCHANGED <<fs, res>>
    BY <1>1, <1>5, RemoveAbsent
  <1>6. CASE fs[e] # "absent" /\ Kept(e) /\ Report("kept", {e}) /\ Finish(e) /\ UNCHANGED fs
    <2>1. res' = [res EXCEPT !.kept = @ \union {e}, !.skipped = @ \union {}]
      BY <1>2, <1>6 DEF Report, Results
    <2> QED BY <1>1, <1>4, <1>6, <2>1, IdleStep DEF Acts, Passes
  <1>7. CASE fs[e] # "absent" /\ ~Kept(e) /\ ~MayTouch(e, fs[e] = "dir")
             /\ Report("skipped", {e}) /\ Finish(e) /\ UNCHANGED fs
    <2>1. res' = [res EXCEPT !.kept = @ \union {}, !.skipped = @ \union {e}]
      BY <1>2, <1>7 DEF Report, Results
    <2>2. ~Acts(t, e)
      BY <1>3, <1>4, <1>7 DEF Acts, Removals
    <2> QED BY <1>1, <1>4, <1>7, <2>1, <2>2, IdleStep DEF Passes
  <1>8. CASE fs[e] = "dir" /\ cur' = e /\ UNCHANGED <<fs, res, todo>>
    BY <1>1, <1>8, StartClearing
  <1>9. CASE fs[e] \notin {"absent", "dir"} /\ ~Kept(e) /\ MayTouch(e, FALSE)
             /\ Remove(e) /\ Finish(e)
    BY <1>1, <1>9, RemoveFile
  <1> QED BY <1>5, <1>6, <1>7, <1>8, <1>9 DEF RemoveEntry
-----------------------------------------------------------------------------
(* Clearing a directory.                                                   *)

\* What is known while the directory of an entry is cleared.
LEMMA ClearingFacts ==
    ASSUME IInv, InPasses(Skeleton, Dealt), phase \in {"remove", "empty"}, cur # NoPath,
           NEW t, t = Skeleton, NEW S, S = Dealt
    PROVE  /\ doc \in Documents /\ res \in Results /\ Begun(t) /\ WayFree(t, S)
           /\ cur \in todo /\ Above[cur] \intersect todo = {} /\ NoPath \notin todo
           /\ cur \in DOMAIN doc.files /\ cur \in Paths /\ cur \notin S
           /\ ~Kept(cur) /\ MayTouch(cur, TRUE)
           /\ Clearing(t, S)
           /\ res.removed = RemovedBy(t, S) \union Gone(t) /\ res.written = WrittenBy(t, S)
           /\ res.skipped = SkippedBy(t, S) /\ res.kept = KeptBy(t, S)
           /\ fs \in [Paths -> Nodes] /\ WellFormed(fs)
           /\ Below(cur) \subseteq Paths /\ Above[cur] \subseteq Paths
  <1>1. cur \in todo /\ Above[cur] \intersect todo = {}
    BY DEF InPasses, InOrder
  <1>2. cur \in DOMAIN doc.files /\ cur \in Paths /\ NoPath \notin todo
    BY <1>1, PathsAssumption DEF IInv, TypeOK, Passes
  <1>3. cur \notin S
    BY <1>1, DealtFacts DEF InPasses, Passes
  <1>4. Clearing(t, S)
    BY DEF InPasses, Content, Writing
  <1> QED BY <1>1, <1>2, <1>3, <1>4, PathsAssumption
          DEF InPasses, Reported, IInv, TypeOK, TreeOK, InHand, Below

\* What is still there is what was there.
LEMMA ClearingLeaves ==
    ASSUME IInv, InPasses(Skeleton, Dealt), phase \in {"remove", "empty"}, cur # NoPath,
           NEW t, t = Skeleton, NEW S, S = Dealt
    PROVE  /\ (Below(cur) \union {cur}) \intersect Opened(t, S) = {}
           /\ \A p \in Below(cur) \union {cur} : fs[p] # "absent" => t[p] = fs[p]
           /\ \A p \in Below(cur) \union {cur} : Survives(t, p) => t[p] = fs[p]
           /\ \A p : p \in Gone(t) <=>
                  p \in Below(cur) \union {cur} /\ t[p] # "absent" /\ fs[p] = "absent"
  <1>1. /\ doc \in Documents /\ cur \in todo /\ cur \in Paths /\ Below(cur) \subseteq Paths
        /\ Clearing(t, S)
    BY ClearingFacts
  <1>2. (Below(cur) \union {cur}) \intersect Opened(t, S) = {}
    BY <1>1, NotOpened DEF InPasses
  <1>3. Written(t, S) = {}
    BY DealtFacts DEF InPasses, Written, Acting, Of, Removals, Passes
  <1>4. ASSUME NEW p \in Below(cur) \union {cur}
        PROVE  Partial(t, S)[p] = IF p \in Swept(t, S) THEN "absent" ELSE t[p]
    BY <1>1, <1>2, <1>3, <1>4 DEF Partial
  <1>5. ASSUME NEW p \in Below(cur) \union {cur}, fs[p] # "absent"
        PROVE  t[p] = fs[p]
    BY <1>1, <1>4, <1>5 DEF Clearing
  <1>6. ASSUME NEW p \in Below(cur) \union {cur}, Survives(t, p)
        PROVE  t[p] = fs[p]
    BY <1>1, <1>4, <1>6 DEF Clearing, Swept
  <1> QED BY <1>2, <1>5, <1>6 DEF Gone

LEMMA ClearStep ==
    ASSUME IInv, InPasses(Skeleton, Dealt), NEW p \in Paths, Clear(p),
           NEW t, t = Skeleton, NEW S, S = Dealt
    PROVE  InPasses(Skeleton, Dealt)' \/ phase' = "error"
  <1>1. /\ phase \in {"remove", "empty"} /\ cur # NoPath
        /\ p \in Below(cur) /\ fs[p] # "absent" /\ ~Survives(fs, p)
        /\ UNCHANGED <<todo, cur, inputs>>
    BY DEF Clear
  <1> SUFFICES ASSUME Remove(p), UNCHANGED phase
               PROVE  InPasses(Skeleton, Dealt)'
    BY DEF Clear
  <1>2. /\ cur \in todo /\ Above[cur] \intersect todo = {} /\ NoPath \notin todo
        /\ cur \in Paths /\ res \in Results /\ fs \in [Paths -> Nodes] /\ Below(cur) \subseteq Paths
        /\ res.removed = RemovedBy(t, S) \union Gone(t) /\ Clearing(t, S)
    BY <1>1, ClearingFacts
  <1>3. /\ t[p] = fs[p]
        /\ \A q : q \in Gone(t) <=>
               q \in Below(cur) \union {cur} /\ t[q] # "absent" /\ fs[q] = "absent"
    BY <1>1, ClearingLeaves
  <1>4. ~Survives(t, p)
    BY <1>1, Survivors DEF Passes
  <1>5. fs' = [fs EXCEPT ![p] = "absent"] /\ res' = [res EXCEPT !.removed = @ \union {p}]
    BY DEF Remove, Report
  <1>6. p # cur
    BY <1>1, <1>2, BelowBelow
  <1> DEFINE G == Gone(t) \union {p}
  <1>7. \A q : q \in G <=> q \in Below(cur) \union {cur} /\ t[q] # "absent" /\ fs'[q] = "absent"
    BY <1>1, <1>2, <1>3, <1>5
  <1>8. /\ res'.removed = RemovedBy(t, S) \union G /\ res'.written = res.written
        /\ res'.skipped = res.skipped /\ res'.kept = res.kept
    BY <1>2, <1>5 DEF Results
  <1>9. /\ \A q \in Paths \ (Below(cur) \union {cur}) : fs'[q] = Partial(t, S)[q]
        /\ \A q \in Below(cur) \union {cur} :
             fs'[q] = Partial(t, S)[q] \/ (fs'[q] = "absent" /\ ~Survives(t, q))
        /\ fs'[cur] \in {"absent", "dir"} /\ (phase = "remove" => fs'[cur] = "dir")
        /\ Partial(t, S)[cur] = "dir" => fs'[cur] = "dir"
    BY <1>1, <1>2, <1>4, <1>5, <1>6 DEF Clearing
  <1>10. UNCHANGED <<todo, phase, inputs>> /\ cur' = cur
    BY <1>1
  <1> HIDE DEF G
  <1> QED BY <1>1, <1>2, <1>7, <1>8, <1>9, <1>10, AmidstClearing
\* A directory to remove has been cleared.
LEMMA RemoveClearedStep ==
    ASSUME IInv, InPasses(Skeleton, Dealt), RemoveCleared,
           NEW t, t = Skeleton, NEW S, S = Dealt
    PROVE  InPasses(Skeleton, Dealt)'
  <1>1. /\ phase = "remove" /\ IsCleared /\ cur # NoPath
        /\ cur' = NoPath /\ todo' = todo \ {cur} /\ UNCHANGED <<phase, inputs>>
    BY DEF RemoveCleared, Finish, IsCleared
  <1>2. /\ doc \in Documents /\ res \in Results /\ Begun(t) /\ WayFree(t, S)
        /\ cur \in todo /\ Above[cur] \intersect todo = {}
        /\ cur \in DOMAIN doc.files /\ cur \in Paths
        /\ ~Kept(cur) /\ MayTouch(cur, TRUE) /\ Clearing(t, S)
        /\ res.removed = RemovedBy(t, S) \union Gone(t) /\ res.written = WrittenBy(t, S)
        /\ res.skipped = SkippedBy(t, S) /\ res.kept = KeptBy(t, S)
        /\ fs \in [Paths -> Nodes] /\ Below(cur) \subseteq Paths
    BY <1>1, ClearingFacts
  <1>3. /\ \A p \in Below(cur) \union {cur} : fs[p] # "absent" => t[p] = fs[p]
        /\ \A p \in Below(cur) \union {cur} : Survives(t, p) => t[p] = fs[p]
        /\ \A p : p \in Gone(t) <=>
               p \in Below(cur) \union {cur} /\ t[p] # "absent" /\ fs[p] = "absent"
    BY <1>1, ClearingLeaves
  <1>4. S \subseteq Of(Removals) /\ cur \in Of(Removals)
    BY <1>1, <1>2, DealtFacts DEF InPasses, Passes
  <1>5. fs[cur] = "dir" /\ t[cur] = "dir"
    BY <1>1, <1>2, <1>3 DEF Clearing
  <1>6. Acts(t, cur)
    BY <1>2, <1>4, <1>5 DEF Acts, Of, Removals
  <1>7. \A p \in Below(cur) : fs[p] = IF Survives(t, p) THEN t[p] ELSE "absent"
    <2>1. \A p \in Below(cur) : fs[p] = "absent" \/ Survives(t, p)
      BY <1>1, <1>2, Survivors DEF IsCleared, Passes
    <2> QED BY <1>3, <2>1
  <1>8. KeptBelow(fs, cur) = KeptBelow(t, cur)
    BY <1>1, <1>2, Survivors DEF Passes
  <1>9. Gone(t) = Cleared(t, cur)
    <2>1. \A p : p \in Gone(t) <=> p \in Below(cur) /\ t[p] # "absent" /\ fs[p] = "absent"
      BY <1>3, <1>5
    <2>2. \A p : p \in Cleared(t, cur) <=> p \in Below(cur) /\ t[p] # "absent" /\ fs[p] = "absent"
      BY <1>7 DEF Cleared
    <2> QED BY <2>1, <2>2
  <1>10. DryRemoved(t, cur) =
             Cleared(t, cur) \union (IF KeptBelow(t, cur) = {} THEN {cur} ELSE {})
    <2>1. MayTouch(cur, t[cur] = "dir")
      BY <1>2, <1>5
    <2> QED BY <1>2, <1>5, <2>1 DEF DryRemoved
  <1>11. WayFree(t, S \union {cur})
    BY <1>2, <1>4, WayStaysFree DEF Of
  <1>12. Grows(t, S, cur, DryRemoved(t, cur), {}, KeptWith(t, cur))
    BY <1>2, <1>4, <1>6, RemovalReport
  <1>13. CASE KeptBelow(fs, cur) = {} /\ Remove(cur)
    <2>1. fs' = [fs EXCEPT ![cur] = "absent"] /\ res' = [res EXCEPT !.removed = @ \union {cur}]
      BY <1>13 DEF Remove, Report
    <2>2. KeptBelow(t, cur) = {}
      BY <1>8, <1>13
    <2>3. ~Survives(t, cur)
      BY <1>2, <2>2 DEF Survives, KeptNode, KeptBelow
    <2>4. fs' = Partial(t, S \union {cur})
      <3>1. fs' = [p \in Paths |-> fs'[p]] /\ cur \notin Below(cur)
        BY <1>2, <2>1, BelowBelow
      <3>2. \A p \in Below(cur) \union {cur} : fs'[p] = IF Survives(t, p) THEN t[p] ELSE "absent"
        BY <1>2, <1>7, <2>1, <2>3, <3>1
      <3>3. \A p \in Paths \ (Below(cur) \union {cur}) : fs'[p] = Partial(t, S)[p]
        BY <1>2, <2>1 DEF Clearing
      <3> QED BY <1>2, <1>4, <1>6, <3>1, <3>2, <3>3, RemovalMeans
    <2>5. /\ res'.removed = RemovedBy(t, S \union {cur})
          /\ res'.written = WrittenBy(t, S \union {cur})
          /\ res'.skipped = SkippedBy(t, S \union {cur})
          /\ res'.kept = KeptBy(t, S \union {cur})
      <3>1. /\ res'.removed = RemovedBy(t, S) \union Gone(t) \union {cur}
            /\ res'.written = res.written /\ res'.skipped = res.skipped /\ res'.kept = res.kept
        BY <1>2, <2>1 DEF Results
      <3>2. KeptWith(t, cur) = {}
        BY <2>2 DEF KeptWith
      <3>3. DryRemoved(t, cur) = Gone(t) \union {cur}
        BY <1>9, <1>10, <2>2
      <3> QED BY <1>2, <1>12, <3>1, <3>2, <3>3 DEF Grows
    <2> QED BY <1>1, <1>2, <1>11, <2>4, <2>5, Onward DEF Passes
  <1>14. CASE KeptBelow(fs, cur) # {} /\ Report("kept", KeptBelow(fs, cur) \union {cur})
              /\ UNCHANGED fs
    <2>1. res' = [res EXCEPT !.kept = @ \union (KeptBelow(t, cur) \union {cur})]
      BY <1>8, <1>14 DEF Report
    <2>2. KeptBelow(t, cur) # {}
      BY <1>8, <1>14
    <2>3. Survives(t, cur)
      BY <1>2, <2>2, KeptMakesDir
    <2>4. fs' = Partial(t, S \union {cur})
      <3>1. fs' = [p \in Paths |-> fs'[p]]
        BY <1>2, <1>14
      <3>2. \A p \in Below(cur) \union {cur} : fs'[p] = IF Survives(t, p) THEN t[p] ELSE "absent"
        BY <1>5, <1>7, <1>14, <2>3
      <3>3. \A p \in Paths \ (Below(cur) \union {cur}) : fs'[p] = Partial(t, S)[p]
        BY <1>2, <1>14 DEF Clearing
      <3> QED BY <1>2, <1>4, <1>6, <3>1, <3>2, <3>3, RemovalMeans
    <2>5. /\ res'.removed = RemovedBy(t, S \union {cur})
          /\ res'.written = WrittenBy(t, S \union {cur})
          /\ res'.skipped = SkippedBy(t, S \union {cur})
          /\ res'.kept = KeptBy(t, S \union {cur})
      <3>1. /\ res'.kept = KeptBy(t, S) \union (KeptBelow(t, cur) \union {cur})
            /\ res'.written = res.written /\ res'.skipped = res.skipped
            /\ res'.removed = res.removed
        BY <1>2, <2>1 DEF Results
      <3>2. KeptWith(t, cur) = KeptBelow(t, cur) \union {cur}
        BY <2>2 DEF KeptWith
      <3>3. DryRemoved(t, cur) = Gone(t)
        BY <1>9, <1>10, <2>2
      <3> QED BY <1>2, <1>12, <3>1, <3>2, <3>3 DEF Grows
    <2> QED BY <1>1, <1>2, <1>11, <2>4, <2>5, Onward DEF Passes
  <1> QED BY <1>13, <1>14 DEF RemoveCleared
-----------------------------------------------------------------------------
(* The directories to empty.                                               *)

\* A file that stands where the empty directory is to be is removed first.
LEMMA StartEmptying ==
    ASSUME IInv, InPasses(Skeleton, Dealt), NEW e \in Paths, phase = "empty", Next1(e),
           fs[e] \notin {"absent", "dir"}, ~Kept(e), Remove(e),
           cur' = e, UNCHANGED <<todo, phase, inputs>>,
           NEW t, t = Skeleton, NEW S, S = Dealt
    PROVE  InPasses(Skeleton, Dealt)'
  <1>1. /\ doc \in Documents /\ res \in Results /\ Begun(t)
        /\ e \in todo /\ Above[e] \intersect todo = {} /\ NoPath \notin todo
        /\ e \in DOMAIN doc.files /\ fs = Partial(t, S)
        /\ res.removed = RemovedBy(t, S)
        /\ fs \in [Paths -> Nodes] /\ WellFormed(fs) /\ Below(e) \subseteq Paths
    BY EntryFacts DEF Passes
  <1>2. t[e] = fs[e]
    <2>1. e \notin Opened(t, S)
      BY <1>1, NotOpened DEF InPasses
    <2>2. e \notin Written(t, S)
      BY DealtFacts DEF InPasses, Written, Acting, Of, Removals, Passes
    <2> QED BY <1>1, <2>1, <2>2 DEF Partial
  <1>3. \A p \in Below(e) : t[p] = "absent" /\ fs[p] = "absent"
    BY <1>1, <1>2 DEF Begun, WellFormed, Below
  <1>4. ~Survives(t, e)
    BY <1>3 DEF Survives, KeptNode
  <1>5. fs' = [fs EXCEPT ![e] = "absent"] /\ res' = [res EXCEPT !.removed = @ \union {e}]
    BY DEF Remove, Report
  <1> DEFINE G == {e}
  <1>6. \A p : p \in G <=> p \in Below(e) \union {e} /\ t[p] # "absent" /\ fs'[p] = "absent"
    BY <1>1, <1>2, <1>3, <1>5
  <1>7. /\ res'.removed = RemovedBy(t, S) \union G /\ res'.written = res.written
        /\ res'.skipped = res.skipped /\ res'.kept = res.kept
    BY <1>1, <1>5 DEF Results
  <1>8. /\ \A p \in Paths \ (Below(e) \union {e}) : fs'[p] = Partial(t, S)[p]
        /\ \A p \in Below(e) \union {e} :
             fs'[p] = Partial(t, S)[p] \/ (fs'[p] = "absent" /\ ~Survives(t, p))
        /\ fs'[e] \in {"absent", "dir"} /\ (phase = "remove" => fs'[e] = "dir")
        /\ Partial(t, S)[e] = "dir" => fs'[e] = "dir"
    BY <1>1, <1>4, <1>5
  <1> HIDE DEF G
  <1> QED BY <1>1, <1>6, <1>7, <1>8, AmidstClearing

LEMMA EmptyEntryStep ==
    ASSUME IInv, InPasses(Skeleton, Dealt), NEW e \in Paths, EmptyEntry(e),
           NEW t, t = Skeleton, NEW S, S = Dealt
    PROVE  InPasses(Skeleton, Dealt)'
  <1>1. phase = "empty" /\ Next1(e) /\ UNCHANGED <<phase, inputs>>
    BY DEF EmptyEntry
  <1>2. doc \in Documents /\ res \in Results /\ e \in todo
    BY <1>1, EntryFacts DEF Passes
  <1>3. doc.files[e] = "empty/"
    BY <1>1, <1>2, DealtFacts DEF InPasses, Passes, Of
  <1>4. CASE Kept(e) /\ Report("kept", {e}) /\ Finish(e) /\ UNCHANGED fs
    <2>1. res' = [res EXCEPT !.kept = @ \union {e}, !.skipped = @ \union {}]
      BY <1>2, <1>4 DEF Report, Results
    <2> QED BY <1>1, <1>3, <1>4, <2>1, IdleStep DEF Acts, Passes, Removals
  <1>5. CASE ~Kept(e) /\ ~MayTouch(e, TRUE) /\ Report("skipped", {e}) /\ Finish(e)
             /\ UNCHANGED fs
    <2>1. res' = [res EXCEPT !.kept = @ \union {}, !.skipped = @ \union {e}]
      BY <1>2, <1>5 DEF Report, Results
    <2>2. ~Acts(t, e)
      BY <1>3, <1>5 DEF Acts
    <2> QED BY <1>1, <1>3, <1>5, <2>1, <2>2, IdleStep DEF Passes, Removals
  <1>6. CASE fs[e] \in {"absent", "dir"} /\ UNCHANGED <<fs, res, todo>> /\ cur' = e
    BY <1>1, <1>6, StartClearing
  <1>7. CASE ~Kept(e) /\ fs[e] \notin {"absent", "dir"} /\ Remove(e) /\ cur' = e
             /\ UNCHANGED todo
    BY <1>1, <1>7, StartEmptying
  <1> QED BY <1>4, <1>5, <1>6, <1>7 DEF EmptyEntry

\* What has gone from a directory that has been emptied is what a dry run
\* announces, or was reported with an earlier entry.
LEMMA EmptiedIsGone ==
    ASSUME IInv, InPasses(Skeleton, Dealt), phase = "empty", IsCleared,
           NEW t, t = Skeleton, NEW S, S = Dealt
    PROVE  RemovedBy(t, S) \union Gone(t) = RemovedBy(t, S) \union DryEmptied(t, cur)
  <1>1. cur # NoPath
    BY DEF IsCleared
  <1>2. /\ doc \in Documents /\ Begun(t) /\ cur \in todo /\ cur \in Paths
        /\ ~Kept(cur) /\ MayTouch(cur, TRUE) /\ Clearing(t, S) /\ Below(cur) \subseteq Paths
    BY <1>1, ClearingFacts
  <1>3. /\ (Below(cur) \union {cur}) \intersect Opened(t, S) = {}
        /\ \A p \in Below(cur) \union {cur} : fs[p] # "absent" => t[p] = fs[p]
        /\ \A p \in Below(cur) \union {cur} : Survives(t, p) => t[p] = fs[p]
        /\ \A p : p \in Gone(t) <=>
               p \in Below(cur) \union {cur} /\ t[p] # "absent" /\ fs[p] = "absent"
    BY <1>1, ClearingLeaves
  <1>4. cur \notin Written(t, S)
    BY DealtFacts DEF InPasses, Written, Acting, Of, Removals, Passes
  <1>5. \A p \in Below(cur) : fs[p] = "absent" \/ Survives(t, p)
    BY <1>1, <1>2, Survivors DEF IsCleared, Passes
  <1>6. t[cur] # "dir" => \A p \in Below(cur) : t[p] = "absent"
    BY <1>2 DEF Begun, WellFormed, Below
  <1>7. CASE t[cur] = "absent"
    <2>1. DryEmptied(t, cur) = {}
      BY <1>7 DEF DryEmptied
    <2>2. Gone(t) = {}
      BY <1>3, <1>6, <1>7
    <2> QED BY <2>1, <2>2
  <1>8. CASE t[cur] = "dir"
    <2>1. DryEmptied(t, cur) = Cleared(t, cur)
      BY <1>2, <1>8 DEF DryEmptied
    <2>2. \A p \in Below(cur) : p \in Gone(t) <=> p \in Cleared(t, cur)
      BY <1>3, <1>5 DEF Cleared
    <2>3. cur \in Gone(t) => cur \in RemovedBy(t, S)
      <3>1. Partial(t, S)[cur] \in {"absent", "dir"}
        BY <1>2, <1>3, <1>4, <1>8 DEF Partial
      <3>2. cur \in Gone(t) => Partial(t, S)[cur] = "absent"
        BY <1>2, <1>3, <3>1 DEF Clearing
      <3> QED BY <1>2, <1>8, <3>2, AbsentIsReported
    <2>4. Cleared(t, cur) \subseteq Below(cur) /\ Gone(t) \subseteq Below(cur) \union {cur}
      BY <1>3 DEF Cleared
    <2> QED BY <2>1, <2>2, <2>3, <2>4
  <1>9. CASE t[cur] \notin {"absent", "dir"}
    <2>1. DryEmptied(t, cur) = {cur}
      BY <1>2, <1>9 DEF DryEmptied
    <2>2. fs[cur] = "absent"
      BY <1>2, <1>3, <1>9 DEF Clearing
    <2>3. Gone(t) = {cur}
      BY <1>3, <1>6, <1>9, <2>2
    <2> QED BY <2>1, <2>3
  <1> QED BY <1>7, <1>8, <1>9

\* A directory to empty has been cleared: it is made if it is not there.
LEMMA EmptyClearedStep ==
    ASSUME IInv, InPasses(Skeleton, Dealt), EmptyCleared,
           NEW t, t = Skeleton, NEW S, S = Dealt
    PROVE  InPasses(Skeleton, Dealt)' \/ phase' = "error"
  <1>1. phase = "empty" /\ IsCleared /\ cur # NoPath /\ UNCHANGED inputs
    BY DEF EmptyCleared, IsCleared
  <1> SUFFICES ASSUME CanMake(fs, cur), fs' = Make(fs, Above[cur] \union {cur}),
                      res' = [res EXCEPT !.kept = @ \union KeptBelow(fs, cur),
                                         !.written = @ \union {cur}],
                      Finish(cur), UNCHANGED phase
               PROVE  InPasses(Skeleton, Dealt)'
    BY DEF EmptyCleared
  <1>2. /\ doc \in Documents /\ res \in Results /\ Begun(t) /\ WayFree(t, S)
        /\ cur \in todo /\ Above[cur] \intersect todo = {}
        /\ cur \in DOMAIN doc.files /\ cur \in Paths
        /\ ~Kept(cur) /\ MayTouch(cur, TRUE) /\ Clearing(t, S)
        /\ res.removed = RemovedBy(t, S) \union Gone(t) /\ res.written = WrittenBy(t, S)
        /\ res.skipped = SkippedBy(t, S) /\ res.kept = KeptBy(t, S)
        /\ fs \in [Paths -> Nodes] /\ Below(cur) \subseteq Paths /\ Above[cur] \subseteq Paths
    BY <1>1, ClearingFacts
  <1>3. /\ (Below(cur) \union {cur}) \intersect Opened(t, S) = {}
        /\ \A p \in Below(cur) \union {cur} : fs[p] # "absent" => t[p] = fs[p]
        /\ \A p \in Below(cur) \union {cur} : Survives(t, p) => t[p] = fs[p]
    BY <1>1, ClearingLeaves
  <1>4. S \subseteq Of(Removals \union {"empty/"}) /\ cur \in Of({"empty/"})
    BY <1>1, <1>2, DealtFacts DEF InPasses, Passes
  <1>5. Acts(t, cur)
    BY <1>2, <1>4 DEF Acts, Of
  <1>6. \A p \in Below(cur) : fs[p] = IF Survives(t, p) THEN t[p] ELSE "absent"
    <2>1. \A p \in Below(cur) : fs[p] = "absent" \/ Survives(t, p)
      BY <1>1, <1>2, Survivors DEF IsCleared, Passes
    <2> QED BY <1>3, <2>1
  <1>7. KeptBelow(fs, cur) = KeptBelow(t, cur)
    BY <1>1, <1>2, Survivors DEF Passes
  <1>8. \A p \in Above[cur] \union {cur} : fs[p] \in {"absent", "dir"}
    BY <1>1, <1>2 DEF CanMake, IInv, NoLinkOnTheWay, Links, Passes
  <1>9. \A p \in Above[cur] : p \notin Below(cur) /\ p # cur
    BY <1>2, BelowBelow, PathsAssumption
  <1>10. /\ fs' = [p \in Paths |-> fs'[p]]
         /\ \A p \in Above[cur] \union {cur} : fs'[p] = "dir"
         /\ \A p \in Paths \ (Above[cur] \union {cur}) : fs'[p] = fs[p]
    <2>1. \A p \in Above[cur] \union {cur} : Here(fs, p)
      BY <1>2, <1>8, PathsAssumption DEF Here
    <2> QED BY <1>2, <1>8, <2>1 DEF Make
  <1>11. fs' = Partial(t, S \union {cur})
    <2>1. \A p \in Paths \ (Below(cur) \union Above[cur] \union {cur}) : fs'[p] = Partial(t, S)[p]
      <3>1. \A p \in Paths \ (Below(cur) \union {cur}) : fs[p] = Partial(t, S)[p]
        BY <1>2, Zenon DEF Clearing
      <3>2. \A p \in Paths \ (Above[cur] \union {cur}) : fs'[p] = fs[p]
        BY <1>10
      <3> QED
        BY ONLY <3>1, <3>2
    <2>2. \A p \in Below(cur) : fs'[p] = IF Survives(t, p) THEN t[p] ELSE "absent"
      BY <1>2, <1>6, <1>9, <1>10, BelowBelow
    <2>3. doc \in Documents /\ Below(cur) \intersect Opened(t, S) = {}
      BY <1>2, <1>3
    <2> QED BY ONLY <1>4, <1>5, <1>10, <2>1, <2>2, <2>3, EmptyMeans
  <1>12. WayFree(t, S \union {cur})
    <2>1. \A p \in Above[cur] : Partial(t, S)[p] \in {"absent", "dir"}
      BY <1>2, <1>8, <1>9 DEF Clearing
    <2> QED BY <1>2, <2>1, WayStaysFree
  <1>13. Grows(t, S, cur, DryEmptied(t, cur), {cur}, KeptBelow(t, cur))
    BY <1>2, <1>4, <1>5, EmptyReport
  <1>14. RemovedBy(t, S) \union Gone(t) = RemovedBy(t, S) \union DryEmptied(t, cur)
    BY <1>1, EmptiedIsGone
  <1>15. /\ res'.removed = res.removed /\ res'.written = WrittenBy(t, S) \union {cur}
         /\ res'.skipped = res.skipped /\ res'.kept = KeptBy(t, S) \union KeptBelow(t, cur)
    BY <1>2, <1>7 DEF Results
  <1>16. /\ res'.removed = RemovedBy(t, S \union {cur})
         /\ res'.written = WrittenBy(t, S \union {cur})
         /\ res'.skipped = SkippedBy(t, S \union {cur})
         /\ res'.kept = KeptBy(t, S \union {cur})
    BY <1>2, <1>13, <1>14, <1>15 DEF Grows
  <1>17. todo' = todo \ {cur} /\ cur' = NoPath
    BY DEF Finish
  <1> QED BY <1>1, <1>2, <1>11, <1>12, <1>16, <1>17, Onward DEF Passes
-----------------------------------------------------------------------------
(* The files.                                                              *)

LEMMA WriteEntryStep ==
    ASSUME IInv, InPasses(Skeleton, Dealt), NEW e \in Paths, WriteEntry(e),
           NEW t, t = Skeleton, NEW S, S = Dealt
    PROVE  (InPasses(Skeleton, Dealt)' /\ UNCHANGED phase) \/ phase' = "error"
  <1>1. phase = "write" /\ Next1(e) /\ UNCHANGED inputs
    BY DEF WriteEntry
  <1>2. /\ doc \in Documents /\ res \in Results /\ fs = Partial(t, S)
        /\ cur = NoPath /\ e \in todo /\ Above[e] \intersect todo = {} /\ NoPath \notin todo
        /\ e \in DOMAIN doc.files /\ fs \in [Paths -> Nodes] /\ Above[e] \subseteq Paths
    BY <1>1, EntryFacts DEF Passes
  <1>3. doc.files[e] = "text"
    BY <1>1, <1>2, DealtFacts DEF InPasses, Passes, Of
  <1>4. CASE Kept(e) /\ Report("kept", {e}) /\ Finish(e) /\ UNCHANGED <<fs, phase>>
    <2>1. res' = [res EXCEPT !.kept = @ \union {e}, !.skipped = @ \union {}]
      BY <1>2, <1>4 DEF Report, Results
    <2> QED BY <1>1, <1>3, <1>4, <2>1, IdleStep DEF Acts, Passes, Removals
  <1>5. CASE ~Kept(e) /\ Skipped(e) /\ Report("skipped", {e}) /\ Finish(e)
             /\ UNCHANGED <<fs, phase>>
    <2>1. res' = [res EXCEPT !.kept = @ \union {}, !.skipped = @ \union {e}]
      BY <1>2, <1>5 DEF Report, Results
    <2>2. ~Acts(t, e)
      BY <1>3, <1>5 DEF Acts, Skipped
    <2> QED BY <1>1, <1>3, <1>5, <2>1, <2>2, IdleStep DEF Passes, Removals
  <1>6. CASE /\ fs[e] # "dir" /\ \A q \in Above[e] : CanMake(fs, q)
             /\ fs' = [Make(fs, Above[e]) EXCEPT ![e] = "torn"]
             /\ cur' = e
             /\ UNCHANGED <<phase, res, todo>>
    <2>1. \A p \in Above[e] : fs[p] \in {"absent", "dir"}
      BY <1>1, <1>2, <1>6 DEF CanMake, IInv, NoLinkOnTheWay, Links, Passes
    <2>2. e \notin Above[e] /\ \A p \in Above[e] : Here(fs, p)
      BY <1>2, <2>1, PathsAssumption DEF Here
    <2>3. /\ \A p \in Above[e] : fs'[p] = "dir"
          /\ \A p \in Paths \ (Above[e] \union {e}) : fs'[p] = fs[p]
      BY <1>2, <1>6, <2>1, <2>2 DEF Make
    <2>4. /\ Partial(t, S)[e] # "dir"
          /\ \A p \in Above[e] : Partial(t, S)[p] \in {"absent", "dir"} /\ fs'[p] = "dir"
          /\ \A p \in Paths \ (Above[e] \union {e}) : fs'[p] = Partial(t, S)[p]
      BY <1>2, <1>6, <2>1, <2>3
    <2>5. UNCHANGED <<todo, phase, res, inputs>>
      BY <1>1, <1>6
    <2> QED BY <1>1, <1>2, <1>6, <2>4, <2>5, AmidstWriting
  <1> QED BY <1>4, <1>5, <1>6 DEF WriteEntry

LEMMA WriteTextStep ==
    ASSUME IInv, InPasses(Skeleton, Dealt), WriteText,
           NEW t, t = Skeleton, NEW S, S = Dealt
    PROVE  InPasses(Skeleton, Dealt)'
  <1>1. /\ phase = "write" /\ cur # NoPath /\ UNCHANGED <<phase, inputs>>
        /\ fs' = [fs EXCEPT ![cur] = "new"] /\ res' = [res EXCEPT !.written = @ \union {cur}]
        /\ todo' = todo \ {cur} /\ cur' = NoPath
    BY DEF WriteText, Report, Finish
  <1>2. /\ doc \in Documents /\ res \in Results /\ fs \in [Paths -> Nodes]
        /\ cur \in DOMAIN doc.files /\ cur \in Paths /\ ~Kept(cur) /\ MayTouch(cur, FALSE)
    BY <1>1 DEF IInv, TypeOK, InHand
  <1>3. /\ cur \in todo /\ Above[cur] \intersect todo = {} /\ Begun(t) /\ WayFree(t, S)
        /\ Writing(t, S)
        /\ res.removed = RemovedBy(t, S) /\ res.written = WrittenBy(t, S)
        /\ res.skipped = SkippedBy(t, S) /\ res.kept = KeptBy(t, S)
    BY <1>1 DEF InPasses, InOrder, Content, Clearing, Reported, Gone
  <1>4. cur \in Of({"text"})
    BY <1>1, <1>3, DealtFacts DEF InPasses, Passes
  <1>5. Acts(t, cur)
    BY <1>2, <1>4 DEF Acts, Of
  <1>6. Above[cur] \subseteq Paths /\ cur \notin Above[cur]
    BY <1>2, PathsAssumption
  <1>7. fs' = Partial(t, S \union {cur})
    <2>1. /\ fs' = [p \in Paths |-> fs'[p]] /\ fs'[cur] = "new"
          /\ \A p \in Above[cur] : Partial(t, S)[p] \in {"absent", "dir"} /\ fs'[p] = "dir"
          /\ \A p \in Paths \ (Above[cur] \union {cur}) : fs'[p] = Partial(t, S)[p]
      BY <1>1, <1>2, <1>3, <1>6 DEF Writing
    <2>2. doc \in Documents
      BY <1>2
    <2> QED BY ONLY <1>4, <1>5, <2>1, <2>2, WriteMeans
  <1>8. WayFree(t, S \union {cur})
    <2>1. \A p \in Above[cur] : Partial(t, S)[p] \in {"absent", "dir"}
      BY <1>3 DEF Writing
    <2> QED BY <1>2, <1>3, <2>1, WayStaysFree
  <1>9. Grows(t, S, cur, {}, {cur}, {})
    BY <1>2, <1>4, <1>5, TextReport
  <1>10. /\ res'.removed = res.removed /\ res'.written = WrittenBy(t, S) \union {cur}
         /\ res'.skipped = res.skipped /\ res'.kept = res.kept
    BY <1>1, <1>2, <1>3 DEF Results
  <1>11. /\ res'.removed = RemovedBy(t, S \union {cur})
         /\ res'.written = WrittenBy(t, S \union {cur})
         /\ res'.skipped = SkippedBy(t, S \union {cur})
         /\ res'.kept = KeptBy(t, S \union {cur})
    BY <1>3, <1>9, <1>10 DEF Grows
  <1> QED BY <1>1, <1>3, <1>7, <1>8, <1>11, Onward DEF Passes

-----------------------------------------------------------------------------
(* The skeleton, and from one pass to the next.                            *)

\* Directories made in two goes.
LEMMA MakeTwice ==
    ASSUME NEW t, NEW A, NEW D PROVE Make(Make(t, A), D) = Make(t, A \union D)
  <1> DEFINE u == Make(t, A)
  <1>1. \A p \in Paths : u[p] = IF p \in A /\ t[p] = "absent" /\ Here(t, p) THEN "dir" ELSE t[p]
    BY DEF Make
  <1>2. \A p \in Paths : Here(u, p) <=> Here(t, p)
    <2>1. \A p \in Paths : u[p] = "dirlink" <=> t[p] = "dirlink"
      BY <1>1
    <2> QED BY <2>1, PathsAssumption DEF Here
  <1> HIDE DEF u
  <1>3. Make(u, D) = Make(t, A \union D)
    BY <1>1, <1>2 DEF Make
  <1> QED BY <1>3 DEF u

LEMMA BeginStep ==
    ASSUME IInv, Begin PROVE Faithful'
  <1>1. phase' = "skel" /\ todo' = Skel /\ res' = Nothing /\ fs' = fs /\ before' = fs
    BY DEF Begin
  <1>2. Make(fs, {}) = fs
    BY DEF Make, IInv, TypeOK
  <1>3. InSkel'
    <2>1. Skel \ todo' = {}
      BY <1>1
    <2>2. fs' = Make(before', Skel \ todo')
      BY <1>1, <1>2, <2>1
    <2> QED BY <1>1, <2>1, <2>2 DEF InSkel, Make, Here, Nothing
  <1> QED BY <1>1, <1>3 DEF Faithful, Passes

LEMMA SkelDirStep ==
    ASSUME IInv, Faithful, NEW e \in Paths, SkelDir(e) PROVE Faithful'
  <1>1. phase = "skel" /\ Next1(e) /\ UNCHANGED <<res, inputs>>
    BY DEF SkelDir
  <1>2. CASE phase' = "error"
    BY <1>2 DEF Faithful, Passes
  <1>3. CASE fs' = Make(fs, Above[e] \union {e}) /\ Finish(e) /\ UNCHANGED phase
    <2>1. InSkel /\ e \in todo /\ Above[e] \intersect todo = {} /\ todo' = todo \ {e}
      BY <1>1, <1>3 DEF Faithful, Next1, Finish
    <2>2. Above[e] \subseteq Skel \ todo
      BY <2>1, PathsAssumption DEF InSkel
    <2>3. (Skel \ todo) \union (Above[e] \union {e}) = Skel \ todo'
      BY <2>1, <2>2 DEF InSkel
    <2>4. fs' = Make(before, Skel \ todo')
      BY <1>3, <2>1, <2>3, MakeTwice DEF InSkel
    <2>5. InSkel'
      BY <1>1, <2>1, <2>2, <2>4 DEF InSkel, inputs, Make, Here, Nothing
    <2> QED BY <1>1, <1>3, <2>5 DEF Faithful, Passes
  <1> QED BY <1>2, <1>3 DEF SkelDir

\* Nothing has been done yet.
LEMMA NothingYet ==
    ASSUME NEW t, t = [p \in Paths |-> t[p]]
    PROVE  /\ Partial(t, {}) = t /\ WayFree(t, {})
           /\ RemovedBy(t, {}) = {} /\ WrittenBy(t, {}) = {}
           /\ SkippedBy(t, {}) = {} /\ KeptBy(t, {}) = {}
  <1>1. Written(t, {}) = {} /\ Opened(t, {}) = {} /\ Swept(t, {}) = {}
    BY DEF Written, Opened, Swept
  <1>2. Partial(t, {}) = t
    BY <1>1 DEF Partial
  <1> QED BY <1>2 DEF WayFree, RemovedBy, WrittenBy, SkippedBy, KeptBy

LEMMA CheckStep ==
    ASSUME IInv, Faithful, Check, NEW t, t = Skeleton PROVE Faithful'
  <1>1. /\ phase = "check" /\ plan' = DryRun(fs)
        /\ UNCHANGED <<fs, doc, pre, cur, res, before, origin, runs>>
    BY DEF Check
  <1>2. CASE phase' \in {"refused", "planned"}
    BY <1>2 DEF Faithful, Passes
  <1>3. CASE /\ ~\E e \in DOMAIN doc.files : Refused(fs, e)
             /\ phase' = "remove" /\ todo' = Of(Removals)
    <2>1. fs = t /\ res = Nothing /\ cur = NoPath
      BY <1>1 DEF Faithful, IInv, InHand
    <2>2. fs \in [Paths -> Nodes] /\ WellFormed(fs)
      BY DEF IInv, TypeOK, TreeOK
    <2>3. Begun(t)
      <3>1. pre \subseteq Existing(before)
        BY DEF IInv
      <3>2. Existing(before) \subseteq Existing(t)
        BY DEF Existing, Skeleton, Make
      <3> QED BY <1>3, <2>1, <2>2, <3>1, <3>2 DEF Begun
    <2>4. Of(Kind)' = todo' /\ Of(Earlier)' = {}
      BY <1>1, <1>3 DEF Of, Kind, Earlier
    <2>5. Dealt' = {}
      BY <2>4 DEF Dealt
    <2>6. InOrder'
      <3>1. todo' \subseteq Of(Kind)'
        BY <2>4
      <3>2. \A e \in Of(Kind)' \ todo' : Above[e] \intersect todo' = {}
        BY <2>4
      <3> QED BY <1>1, <2>1, <3>1, <3>2 DEF InOrder
    <2>7. /\ Partial(t, {}) = t /\ WayFree(t, {})
          /\ RemovedBy(t, {}) = {} /\ WrittenBy(t, {}) = {}
          /\ SkippedBy(t, {}) = {} /\ KeptBy(t, {}) = {}
      BY <2>1, <2>2, NothingYet
    <2>8. UNCHANGED <<doc, pre, before>>
      BY <1>1
    <2>9. Begun(Skeleton)' /\ (plan = DryRun(Skeleton))' /\ WayFree(Skeleton, Dealt)'
      BY <1>1, <2>1, <2>3, <2>5, <2>7, <2>8, StillMeans
    <2>10. Content(Skeleton, Dealt)'
      BY <1>1, <2>1, <2>5, <2>7, <2>8, StillMeans DEF Content
    <2>11. Reported(Skeleton, Dealt)'
      BY <1>1, <2>1, <2>5, <2>7, <2>8, StillMeans DEF Reported, Gone, Nothing
    <2> QED BY <1>3, <2>6, <2>9, <2>10, <2>11 DEF Faithful, InPasses, Passes
  <1> QED BY <1>2, <1>3 DEF Check

\* Nothing but the pass changes.
LEMMA Unmoved ==
    ASSUME InPasses(Skeleton, Dealt), UNCHANGED <<fs, res, cur, inputs>>,
           cur = NoPath \/ phase' = phase, Dealt' = Dealt, InOrder',
           NEW t, t = Skeleton, NEW S, S = Dealt
    PROVE  InPasses(Skeleton, Dealt)'
  <1>1. Begun(Skeleton)' /\ (plan = DryRun(Skeleton))' /\ WayFree(Skeleton, Dealt)'
    BY Still DEF InPasses
  <1>2. Content(Skeleton, Dealt)'
    <2>1. CASE cur = NoPath
      BY <2>1, Still DEF InPasses, Content
    <2>2. CASE cur # NoPath
      BY <2>2, Still DEF InPasses, Content, Clearing, Writing, Below
    <2> QED BY <2>1, <2>2
  <1>3. Reported(Skeleton, Dealt)'
    BY Still DEF InPasses, Reported, Gone, Below
  <1> QED BY <1>1, <1>2, <1>3 DEF InPasses

LEMMA PassStep ==
    ASSUME IInv, Faithful, Pass PROVE Faithful'
  <1>1. cur = NoPath /\ todo = {} /\ UNCHANGED <<fs, cur, res, inputs>>
    BY DEF Pass
  <1>2. CASE phase = "skel" /\ phase' = "check" /\ todo' = {}
    <2>1. fs = Make(before, Skel) /\ res = Nothing
      BY <1>1, <1>2 DEF Faithful, InSkel
    <2>2. fs' = Skeleton'
      BY <1>1, <2>1 DEF Skeleton, inputs, Make, Here
    <2> QED BY <1>1, <1>2, <2>1, <2>2 DEF Faithful, Nothing, Passes
  <1>3. CASE phase \in Passes
    <2>1. InPasses(Skeleton, Dealt)
      BY <1>3 DEF Faithful
    <2>2. Dealt' = Dealt /\ todo' = Of(Kind)'
      <3>1. DOMAIN doc.files = Of(Entries)
        BY DocumentsAssumption DEF Of, IInv, TypeOK
      <3>2. doc' = doc
        BY <1>1 DEF inputs
      <3> QED BY <1>1, <1>3, <3>1, <3>2 DEF Pass, Dealt, Kind, Earlier, Of, Entries, Removals, Passes
    <2>3. InOrder'
      BY <1>1, <2>2 DEF InOrder
    <2>4. InPasses(Skeleton, Dealt)'
      BY <1>1, <2>1, <2>2, <2>3, Unmoved
    <2>5. phase' \notin {"skel", "check"} /\ (phase' = "done" => todo' = {} /\ cur' = NoPath)
      BY <1>1, <1>3 DEF Pass, Passes
    <2> QED BY <2>4, <2>5 DEF Faithful
  <1> QED BY <1>2, <1>3 DEF Pass, Passes

LEMMA StopStep ==
    ASSUME IInv, Faithful, Kill \/ Again \/ Stop \/ UNCHANGED vars PROVE Faithful'
  <1>1. CASE Kill \/ Again
    BY <1>1 DEF Kill, Again, Faithful, Passes
  <1>2. CASE UNCHANGED vars
    <2>1. /\ UNCHANGED <<fs, res, cur, inputs>> /\ phase' = phase /\ todo' = todo /\ doc' = doc
          /\ before' = before
      BY <1>2 DEF vars, inputs
    <2>2. Skeleton' = Skeleton
      BY <2>1 DEF Skeleton, Make, Here
    <2>3. phase \in Passes \union {"done"} => InPasses(Skeleton, Dealt)'
      <3>1. Dealt' = Dealt
        BY <2>1 DEF Dealt, Of, Kind, Earlier
      <3>2. InOrder => InOrder'
        BY <2>1 DEF InOrder, Of, Kind
      <3>3. InPasses(Skeleton, Dealt) => InOrder
        BY DEF InPasses
      <3> QED BY <2>1, <3>1, <3>2, <3>3, Unmoved DEF Faithful
    <2>4. phase = "skel" => InSkel'
      BY <2>1 DEF Faithful, InSkel, Make, Here, Nothing
    <2> QED BY <2>1, <2>2, <2>3, <2>4 DEF Faithful, Nothing
  <1> QED BY <1>1, <1>2 DEF Stop
-----------------------------------------------------------------------------
(* The invariant holds.                                                    *)

LEMMA PassGoesOn ==
    ASSUME phase \in Passes, UNCHANGED phase, InPasses(Skeleton, Dealt)' PROVE Faithful'
  BY DEF Faithful, Passes

LEMMA FaithfulStart == Init => Faithful
  BY DEF Init, Faithful, Passes

LEMMA FaithfulSteps == IInv /\ Faithful /\ [Next]_vars => Faithful'
  <1> SUFFICES ASSUME IInv, Faithful, [Next]_vars PROVE Faithful'
    OBVIOUS
  <1>1. phase \in Passes => InPasses(Skeleton, Dealt)
    BY DEF Faithful
  <1>2. CASE Begin
    BY <1>2, BeginStep
  <1>3. CASE Check
    BY <1>3, CheckStep
  <1>4. CASE RemoveCleared
    <2>1. phase \in Passes /\ UNCHANGED phase
      BY <1>4 DEF RemoveCleared, Passes
    <2> QED BY <1>1, <1>4, <2>1, RemoveClearedStep, PassGoesOn
  <1>5. CASE EmptyCleared
    <2>1. phase \in Passes /\ (UNCHANGED phase \/ phase' = "error")
      BY <1>5 DEF EmptyCleared, Passes
    <2>2. CASE phase' = "error"
      BY <2>2 DEF Faithful, Passes
    <2> QED BY <1>1, <1>5, <2>1, <2>2, EmptyClearedStep, PassGoesOn DEF Passes
  <1>6. CASE WriteText
    <2>1. phase \in Passes /\ UNCHANGED phase
      BY <1>6 DEF WriteText, Passes
    <2> QED BY <1>1, <1>6, <2>1, WriteTextStep, PassGoesOn
  <1>7. CASE Pass
    BY <1>7, PassStep
  <1>8. ASSUME NEW e \in Paths, SkelDir(e) PROVE Faithful'
    BY <1>8, SkelDirStep
  <1>9. ASSUME NEW e \in Paths, RemoveEntry(e) PROVE Faithful'
    <2>1. phase \in Passes /\ UNCHANGED phase
      BY <1>9 DEF RemoveEntry, Passes
    <2> QED BY <1>1, <1>9, <2>1, RemoveEntryStep, PassGoesOn
  <1>10. ASSUME NEW e \in Paths, EmptyEntry(e) PROVE Faithful'
    <2>1. phase \in Passes /\ UNCHANGED phase
      BY <1>10 DEF EmptyEntry, Passes
    <2> QED BY <1>1, <1>10, <2>1, EmptyEntryStep, PassGoesOn
  <1>11. ASSUME NEW e \in Paths, WriteEntry(e) PROVE Faithful'
    <2>1. phase \in Passes
      BY <1>11 DEF WriteEntry, Passes
    <2>2. CASE phase' = "error"
      BY <2>2 DEF Faithful, Passes
    <2> QED BY <1>1, <1>11, <2>1, <2>2, WriteEntryStep, PassGoesOn
  <1>12. ASSUME NEW p \in Paths, Clear(p) PROVE Faithful'
    <2>1. phase \in Passes /\ (UNCHANGED phase \/ phase' = "error")
      BY <1>12 DEF Clear, Passes
    <2>2. CASE phase' = "error"
      BY <2>2 DEF Faithful, Passes
    <2> QED BY <1>1, <1>12, <2>1, <2>2, ClearStep, PassGoesOn DEF Passes
  <1>13. CASE Kill \/ Again \/ Stop \/ UNCHANGED vars
    BY <1>13, StopStep
  <1> QED BY <1>2, <1>3, <1>4, <1>5, <1>6, <1>7, <1>8, <1>9, <1>10, <1>11, <1>12, <1>13
          DEF Next, Work

\* At every step of a command the inventory is what the entries dealt with so
\* far mean, but for the one in hand, and the report is what a dry run says of
\* these entries.
THEOREM Passing == Spec => [](IInv /\ Faithful)
  <1>1. Init => IInv /\ Faithful
    BY Start, FaithfulStart
  <1>2. IInv /\ Faithful /\ [Next]_vars => (IInv /\ Faithful)'
    BY Steps, FaithfulSteps DEF Safe
  <1> QED BY <1>1, <1>2, PTL DEF Spec

-----------------------------------------------------------------------------
(* What follows at the end of a command.                                   *)

LEMMA WholeMeaning ==
    ASSUME NEW t PROVE Partial(t, DOMAIN doc.files) = Meaning(t)
  <1>1. \A kinds : Acting(t, kinds) \intersect DOMAIN doc.files = Acting(t, kinds)
    BY DEF Acting, Of
  <1> QED BY <1>1 DEF Partial, Meaning, Written, Opened, Swept

LEMMA WholeReport ==
    ASSUME doc \in Documents, NEW t, Begun(t), NEW S, S = DOMAIN doc.files
    PROVE  DryRun(t) = [removed |-> RemovedBy(t, S), written |-> WrittenBy(t, S),
                        skipped |-> SkippedBy(t, S), kept |-> KeptBy(t, S)]
  <1> DEFINE gone == {e \in Of(Removals) : t[e] # "absent"}
             full == {e \in Of({"empty/"}) : MayTouch(e, TRUE) /\ t[e] = "dir"}
             text == Of({"text"})
             removed == (UNION {DryRemoved(t, e) : e \in gone})
                          \union (UNION {DryEmptied(t, e) : e \in Of({"empty/"})})
             written == {e \in Of({"empty/"}) : ~Kept(e) /\ MayTouch(e, TRUE)}
                          \union {e \in text : ~Kept(e) /\ MayTouch(e, FALSE)}
             skipped == {e \in gone : ~Kept(e) /\ ~MayTouch(e, t[e] = "dir")}
                          \union {e \in Of({"empty/"}) : ~Kept(e) /\ ~MayTouch(e, TRUE)}
                          \union {e \in text : ~Kept(e) /\ ~MayTouch(e, FALSE)}
             kept == {e \in gone : Kept(e)}
                       \union {e \in Of({"empty/", "text"}) : Kept(e)}
                       \union {e \in gone : MayTouch(e, TRUE) /\ KeptBelow(t, e) # {}}
                       \union (UNION {KeptBelow(t, e) : e \in
                                 {g \in gone : MayTouch(g, TRUE) /\ ~Kept(g)}
                                 \union {g \in full : ~Kept(g)}})
  <1>1. DryRun(t) = [removed |-> removed, written |-> written,
                     skipped |-> skipped, kept |-> kept]
    BY DEF DryRun
  <1>2. S \subseteq Paths /\ \A e \in S : doc.files[e] \in Entries
    BY DocumentsAssumption
  <1>3. removed = RemovedBy(t, S)
    <2>1. \A e \in Of(Removals) : DryRemoved(t, e) \subseteq Paths
              /\ (t[e] = "absent" => DryRemoved(t, e) = {})
      BY <1>2 DEF DryRemoved, Cleared, Below, Of
    <2>2. \A e \in Of({"empty/"}) : DryEmptied(t, e) \subseteq Paths
      BY <1>2 DEF DryEmptied, Cleared, Below, Of
    <2>3. \A k : Of(k) \intersect S = Of(k)
      BY DEF Of
    <2> QED BY <2>1, <2>2, <2>3 DEF RemovedBy
  <1>4. written = WrittenBy(t, S)
    BY DEF WrittenBy, Acting, Acts, Of
  <1>5. skipped = SkippedBy(t, S)
    BY <1>2 DEF SkippedBy, Acts, Of, Entries, Removals
  <1>6. kept = KeptBy(t, S)
    <2>1. \A e \in S : KeptBelow(t, e) # {} => t[e] = "dir"
      BY <1>2, KeptMakesDir
    <2>2. \A e \in S : KeptBelow(t, e) \subseteq Paths
      BY DEF KeptBelow, Below
    <2>3. ASSUME NEW p \in kept PROVE p \in KeptBy(t, S)
      BY <1>2, <2>1, <2>2, <2>3 DEF KeptBy, Acting, Acts, Of, Removals
    <2>4. ASSUME NEW p \in KeptBy(t, S) PROVE p \in kept
      BY <1>2, <2>1, <2>2, <2>4 DEF KeptBy, Acting, Acts, Of, Removals, Entries
    <2> QED BY <2>3, <2>4
  <1> QED BY <1>1, <1>3, <1>4, <1>5, <1>6

\* What a command that is done has left and reported.
LEMMA AtTheEnd ==
    ASSUME IInv, Faithful, phase = "done", NEW t, t = Skeleton, NEW S, S = DOMAIN doc.files
    PROVE  /\ doc \in Documents /\ Begun(t) /\ WayFree(t, S)
           /\ fs = Partial(t, S) /\ plan = DryRun(t)
           /\ res = [removed |-> RemovedBy(t, S), written |-> WrittenBy(t, S),
                     skipped |-> SkippedBy(t, S), kept |-> KeptBy(t, S)]
  <1>1. doc \in Documents /\ res \in Results
    BY DEF IInv, TypeOK
  <1>2. Dealt = S
    <2>1. S = Of(Entries)
      BY <1>1, DocumentsAssumption DEF Of
    <2> QED BY <2>1 DEF Dealt, Kind, Earlier, Of
  <1>3. InPasses(t, S) /\ cur = NoPath
    BY <1>2 DEF Faithful
  <1>4. /\ res.removed = RemovedBy(t, S) /\ res.written = WrittenBy(t, S)
        /\ res.skipped = SkippedBy(t, S) /\ res.kept = KeptBy(t, S)
    BY <1>3 DEF InPasses, Reported, Gone
  <1> QED BY <1>1, <1>3, <1>4 DEF InPasses, Content, Results

\* What a command that succeeds leaves is what the specification means for the
\* inventory with its skeleton: the passes one after the other, entry by entry
\* and call by call, come to the one definition without passes.
THEOREM Meant == Spec => []MeansWhatItSays
  <1>1. IInv /\ Faithful => MeansWhatItSays
    BY AtTheEnd, WholeMeaning DEF MeansWhatItSays, Skeleton
  <1> QED BY Passing, <1>1, PTL

LEMMA DryRunIsTrue == IInv /\ Faithful => DryRunPredicts
  BY AtTheEnd, WholeReport DEF DryRunPredicts

\* A path that changed was written or removed, or made for what was written.
LEMMA ChangesAreReported ==
    ASSUME doc \in Documents, NEW t, Begun(t), NEW S, WayFree(t, S),
           NEW p \in Paths, Partial(t, S)[p] # t[p]
    PROVE  \/ p \in RemovedBy(t, S) \union WrittenBy(t, S)
           \/ t[p] = "absent" /\ \E e \in WrittenBy(t, S) : p \in Above[e]
  <1>1. CASE p \in Written(t, S)
    BY <1>1 DEF Written, WrittenBy, Acting, Of
  <1>2. CASE p \in Opened(t, S) \ Written(t, S)
    <2>1. t[p] # "dir"
      BY <1>2 DEF Partial
    <2>2. CASE p \in Acting(t, {"empty/"}) \intersect S
      BY <2>2 DEF WrittenBy, Acting, Of
    <2>3. CASE \E e \in Acting(t, {"text", "empty/"}) \intersect S : p \in Above[e]
      BY <2>1, <2>3 DEF WayFree, WrittenBy
    <2> QED BY <1>2, <2>2, <2>3 DEF Opened
  <1>3. CASE p \in Swept(t, S) \ (Opened(t, S) \union Written(t, S))
    <2>1. t[p] # "absent"
      BY <1>3 DEF Partial
    <2> QED BY <1>3, <2>1, SweptIsRemoved
  <1> QED BY <1>1, <1>2, <1>3 DEF Partial

\* What a dry run removes acts, or is in a directory that does.
LEMMA RemovedActs ==
    ASSUME doc \in Documents, NEW t, NEW S,
           NEW p \in RemovedBy(t, S), p \in DOMAIN doc.files, ~Kept(p)
    PROVE  Acts(t, p)
  <1>1. CASE \E e \in Of(Removals) \intersect S : p \in DryRemoved(t, e)
    <2>1. PICK e \in Of(Removals) : p \in DryRemoved(t, e)
      BY <1>1
    <2>2. CASE p = e
      BY <2>1, <2>2 DEF DryRemoved, Acts, Of, Removals
    <2>3. CASE p \in Below(e) /\ MayTouch(e, TRUE)
      <3>1. \A b : MayTouch(p, b)
        BY <2>1, <2>3, TouchBelow, EntriesArePaths DEF Of
      <3> QED BY <3>1 DEF Acts
    <2>4. p = e \/ (p \in Below(e) /\ MayTouch(e, TRUE))
      BY <2>1 DEF DryRemoved, Cleared
    <2> QED BY <2>2, <2>3, <2>4
  <1>2. CASE \E e \in Of({"empty/"}) \intersect S : p \in DryEmptied(t, e)
    <2>1. PICK e \in Of({"empty/"}) : p \in DryEmptied(t, e)
      BY <1>2
    <2>2. CASE p = e
      BY <2>1, <2>2 DEF DryEmptied, Acts, Of
    <2>3. CASE p \in Below(e) /\ MayTouch(e, TRUE)
      <3>1. \A b : MayTouch(p, b)
        BY <2>1, <2>3, TouchBelow, EntriesArePaths DEF Of
      <3> QED BY <3>1 DEF Acts
    <2>4. p = e \/ (p \in Below(e) /\ MayTouch(e, TRUE))
      BY <2>1 DEF DryEmptied, Cleared
    <2> QED BY <2>2, <2>3, <2>4
  <1> QED BY <1>1, <1>2 DEF RemovedBy

LEMMA SkippedStays ==
    ASSUME doc \in Documents, NEW t, Begun(t), NEW S, S = DOMAIN doc.files, WayFree(t, S),
           NEW p \in SkippedBy(t, S)
    PROVE  Partial(t, S)[p] = t[p]
  <1>1. p \in S /\ p \in Paths /\ ~Kept(p) /\ ~Acts(t, p)
    BY EntriesArePaths DEF SkippedBy
  <1>2. t[p] # "absent"
    <2>1. CASE doc.files[p] \in Removals
      BY <2>1 DEF SkippedBy
    <2>2. CASE doc.files[p] \notin Removals
      <3>1. Protected(p, doc.files[p] = "empty/")
        <4>1. doc.files[p] \in {"text", "empty/"}
          BY <1>1, <2>2, DocumentsAssumption DEF Entries
        <4> QED BY <1>1, <4>1 DEF Acts, MayTouch, Protected
      <3>2. \E q \in Below(p) \union {p} : q \in pre
        BY <3>1 DEF Protected
      <3>3. \E q \in Below(p) \union {p} : t[q] # "absent"
        BY <3>2 DEF Begun, Existing
      <3> QED BY <1>1, <3>3 DEF Below, Begun, WellFormed
    <2> QED BY <2>1, <2>2
  <1>3. p \notin Written(t, S)
    BY <1>1 DEF Written, Acting
  <1>4. CASE p \in Opened(t, S)
    <2>1. PICK e \in Acting(t, {"text", "empty/"}) \intersect S : p \in Above[e]
      BY <1>1, <1>4 DEF Opened, Acting
    <2>2. t[p] = "dir"
      BY <1>1, <1>2, <2>1, RemovedActs DEF WayFree
    <2> QED BY <1>1, <1>3, <1>4, <2>2 DEF Partial
  <1>5. p \notin Swept(t, S)
    BY <1>1, <1>2, SweptActs
  <1> QED BY <1>1, <1>3, <1>4, <1>5 DEF Partial

LEMMA KeptStaysKept ==
    ASSUME doc \in Documents, NEW t, Begun(t), NEW S, S = DOMAIN doc.files,
           NEW p \in KeptBy(t, S)
    PROVE  Partial(t, S)[p] = t[p]
  <1>1. p \in Paths
    BY DEF KeptBy
  <1>2. CASE p \in S /\ Kept(p)
    <2>1. t[p] \notin Links
      BY <1>2 DEF Begun, Refused
    <2> QED BY <1>1, <1>2, <2>1, PartialKept DEF KeptNode
  <1>3. CASE p \in Acting(t, Removals) \intersect S /\ KeptBelow(t, p) # {}
    <2>1. t[p] = "dir" /\ Survives(t, p)
      BY <1>1, <1>3, KeptMakesDir
    <2>2. p \notin Written(t, S) /\ p \notin Swept(t, S)
      BY <1>3, <2>1 DEF Written, Swept, Acting, Of, Removals
    <2> QED BY <1>1, <2>1, <2>2 DEF Partial
  <1>4. CASE \E e \in Acting(t, Removals \union {"empty/"}) \intersect S :
                 p \in KeptBelow(t, e)
    <2>1. KeptNode(t, p) /\ Kept(p)
      BY <1>4 DEF KeptBelow, KeptNode
    <2> QED BY <1>1, <2>1, PartialKept
  <1> QED BY <1>2, <1>3, <1>4 DEF KeptBy

\* What the user reads is true.  A command that succeeds reports what the dry
\* run before it announced; every path that changed is in the report, as
\* written or removed, or is a directory made for what was written; and no
\* path reported as skipped or kept did change.
THEOREM Reporting == Spec => []ReportsAreTrue
  <1>1. ASSUME IInv, Faithful PROVE ReportIsTrue
    <2> SUFFICES ASSUME phase = "done", NEW t, t = Make(before, Skel)
                 PROVE  /\ \A p \in Paths : fs[p] # t[p] =>
                              \/ p \in res.removed \union res.written
                              \/ t[p] = "absent" /\ \E e \in res.written : p \in Above[e]
                        /\ \A p \in res.kept \union res.skipped : fs[p] = t[p]
      BY DEF ReportIsTrue
    <2> DEFINE S == DOMAIN doc.files
    <2>1. /\ doc \in Documents /\ Begun(t) /\ WayFree(t, S) /\ fs = Partial(t, S)
          /\ res.removed = RemovedBy(t, S) /\ res.written = WrittenBy(t, S)
          /\ res.skipped = SkippedBy(t, S) /\ res.kept = KeptBy(t, S)
      BY <1>1, AtTheEnd DEF Skeleton
    <2>2. ASSUME NEW p \in Paths, fs[p] # t[p]
          PROVE  \/ p \in res.removed \union res.written
                 \/ t[p] = "absent" /\ \E e \in res.written : p \in Above[e]
      BY <2>1, <2>2, ChangesAreReported
    <2>3. ASSUME NEW p \in res.kept \union res.skipped
          PROVE  fs[p] = t[p]
      BY <2>1, <2>3, SkippedStays, KeptStaysKept
    <2> QED BY <2>2, <2>3
  <1>2. IInv /\ Faithful => ReportsAreTrue
    BY <1>1, DryRunIsTrue DEF ReportsAreTrue
  <1> QED BY Passing, <1>2, PTL
-----------------------------------------------------------------------------
(* With --force the command may be killed at any moment and run again.     *)

\* With --force, what an entry does does not depend on what was there: the
\* paths that are made or written, and those that are swept if nothing below
\* them is kept.
Free(kinds) == {e \in Of(kinds) : ~Kept(e)}
Remade == {p \in Paths :
    \/ p \in Free({"text", "empty/"})
    \/ \E e \in Free({"text", "empty/"}) : p \in Above[e]}
Doomed == {p \in Paths :
    \E e \in Free(Removals \union {"empty/"}) : e \in Above[p] \union {p}}

\* f is what interrupted runs may have made of the inventory o.
Agrees(o, f) == \A p \in Paths :
    /\ p \in Remade \/ (p \in Doomed /\ ~Survives(o, p)) \/ f[p] = o[p]
    /\ Kept(p) => f[p] = o[p] \/ (f[p] = "absent" /\ ~KeptNode(o, p))

\* Links at the paths of the skeleton stay: the skeleton made once more is the
\* one that was made first.
SameLinks(o, f) == \A p \in Skel : o[p] \in Links \/ f[p] \in Links => f[p] = o[p]

Converging == doc.force =>
    /\ SameLinks(origin, fs)
    /\ phase = "skel" => \A p \in Skel \ todo : fs[p] # "link"
    /\ phase \in {"check"} \union Passes => \A p \in Skel : fs[p] # "link"
    /\ Agrees(Make(origin, Skel), Make(fs, Skel))
    /\ Agrees(Make(origin, Skel), Skeleton)

LEMMA SameMeaning ==
    ASSUME doc.force, NEW o, NEW f, Agrees(o, f)
    PROVE  Meaning(f) = Meaning(o)
  <1>1. \A p \in Paths : Survives(f, p) <=> Survives(o, p)
    BY SameSurvivors DEF Agrees
  <1>2. \A t, kinds : Acting(t, kinds) = Free(kinds)
    BY DEF Acting, Free, Acts, MayTouch
  <1>3. ASSUME NEW p \in Paths PROVE Meaning(f)[p] = Meaning(o)[p]
    <2>1. CASE p \in Free({"text"})
      BY <1>2, <2>1 DEF Meaning
    <2>2. CASE p \notin Free({"text"}) /\ p \in Remade
      <3>1. p \in Free({"empty/"}) \/ \E e \in Free({"text", "empty/"}) : p \in Above[e]
        BY <2>2 DEF Remade, Free, Of
      <3> QED BY <1>2, <2>2, <3>1 DEF Meaning
    <2>3. CASE p \notin Remade
      <3>1. /\ p \notin Free({"text"}) /\ p \notin Free({"empty/"})
            /\ ~\E e \in Free({"text", "empty/"}) : p \in Above[e]
        BY <2>3 DEF Remade, Free, Of
      <3>2. \A t : Meaning(t)[p] = IF p \in Doomed /\ ~Survives(t, p) THEN "absent" ELSE t[p]
        BY <1>2, <3>1 DEF Meaning, Doomed
      <3>3. (p \in Doomed /\ ~Survives(o, p)) \/ f[p] = o[p]
        BY <2>3 DEF Agrees
      <3> QED BY <1>1, <3>2, <3>3
    <2> QED BY <2>1, <2>2, <2>3
  <1> QED BY <1>3 DEF Meaning

\* A step of a pass, seen at one path: nothing happens there, or it is written
\* or made, or it is swept.
Moves(f, g, p) ==
    \/ g[p] = f[p]
    \/ p \in Remade /\ ~Kept(p) /\ g[p] \notin Links /\ f[p] \notin Links
    \/ g[p] = "absent" /\ p \in Doomed /\ ~Survives(f, p) /\ (p \in Skel => f[p] \notin Links)

LEMMA SkeletonOnceMore ==
    ASSUME NEW o, NEW f, SameLinks(o, f)
    PROVE  \A p \in Paths : Make(f, Skel)[p] =
               IF p \in Skel /\ f[p] = "absent" /\ Here(o, p) THEN "dir" ELSE f[p]
  <1>1. \A p \in Skel : Here(f, p) <=> Here(o, p)
    BY PathsAssumption DEF SameLinks, Here, Links
  <1> QED BY <1>1, PathsAssumption DEF Make

LEMMA MovesAgree ==
    ASSUME NEW b, NEW o, o = Make(b, Skel), NEW f, NEW g, SameLinks(b, f),
           Agrees(o, Make(f, Skel)),
           \A p \in Paths : Survives(f, p) <=> Survives(o, p),
           \A p \in Paths : Moves(f, g, p)
    PROVE  SameLinks(b, g) /\ Agrees(o, Make(g, Skel))
  <1>1. SameLinks(b, g)
    BY PathsAssumption DEF SameLinks, Moves, Links
  <1>2. ASSUME NEW p \in Paths
        PROVE  /\ p \in Remade \/ (p \in Doomed /\ ~Survives(o, p)) \/ Make(g, Skel)[p] = o[p]
               /\ Kept(p) => \/ Make(g, Skel)[p] = o[p]
                             \/ (Make(g, Skel)[p] = "absent" /\ ~KeptNode(o, p))
    <2>1. /\ Make(f, Skel)[p] =
               IF p \in Skel /\ f[p] = "absent" /\ Here(b, p) THEN "dir" ELSE f[p]
          /\ Make(g, Skel)[p] =
               IF p \in Skel /\ g[p] = "absent" /\ Here(b, p) THEN "dir" ELSE g[p]
      BY <1>1, SkeletonOnceMore
    <2>2. /\ p \in Remade \/ (p \in Doomed /\ ~Survives(o, p)) \/ Make(f, Skel)[p] = o[p]
          /\ Kept(p) => \/ Make(f, Skel)[p] = o[p]
                        \/ (Make(f, Skel)[p] = "absent" /\ ~KeptNode(o, p))
      BY DEF Agrees
    <2>3. CASE g[p] = f[p]
      BY <2>1, <2>2, <2>3
    <2>4. CASE p \in Remade /\ ~Kept(p)
      BY <2>4
    <2>5. CASE g[p] = "absent" /\ p \in Doomed /\ ~Survives(f, p) /\ (p \in Skel => f[p] \notin Links)
      <3>1. ~Survives(o, p) /\ ~KeptNode(o, p)
        BY <2>5 DEF Survives
      <3>2. CASE p \in Skel /\ Here(b, p)
        <4>1. b[p] \notin Links
          BY <2>5, <3>2 DEF SameLinks
        <4>2. o[p] \notin Links \union {"absent"}
          BY <3>2, <4>1 DEF Make, Links
        <4> QED BY <2>5, <3>1, <4>2 DEF KeptNode
      <3>3. CASE ~(p \in Skel /\ Here(b, p))
        BY <2>1, <2>5, <3>1, <3>3
      <3> QED BY <3>2, <3>3
    <2> QED BY <2>3, <2>4, <2>5 DEF Moves
  <1> QED BY <1>1, <1>2 DEF Agrees

\* What agrees with the inventory does so until the specification changes.
LEMMA StillAgrees ==
    ASSUME UNCHANGED doc, NEW o, NEW f
    PROVE  Agrees(o, f)' <=> Agrees(o, f)
  BY DEF Agrees, Remade, Doomed, Free, Of, Kept, Survives, KeptNode, Below

LEMMA ConvergingStays ==
    ASSUME UNCHANGED <<doc, origin>>,
           doc.force => /\ SameLinks(origin, fs')
                        /\ Agrees(Make(origin, Skel), Make(fs', Skel))
                        /\ phase' = "skel" => \A p \in Skel \ todo' : fs'[p] # "link"
                        /\ phase' \in {"check"} \union Passes => \A p \in Skel : fs'[p] # "link"
                        /\ Agrees(Make(origin, Skel), Make(before', Skel))
    PROVE  Converging'
  <1> SUFFICES ASSUME doc.force
               PROVE  /\ SameLinks(origin, fs)'
                      /\ Agrees(Make(origin, Skel), Make(fs, Skel))'
                      /\ Agrees(Make(origin, Skel), Skeleton)'
    BY DEF Converging
  <1>1. SameLinks(origin, fs)'
    BY DEF SameLinks
  <1>2. /\ Make(origin, Skel)' = Make(origin, Skel) /\ Make(fs, Skel)' = Make(fs', Skel)
        /\ Skeleton' = Make(before', Skel)
    BY DEF Make, Here, Skeleton
  <1>3. PICK o, f, b : o = Make(origin, Skel) /\ f = Make(fs', Skel) /\ b = Make(before', Skel)
    OBVIOUS
  <1>4. Agrees(o, f)' /\ Agrees(o, b)'
    BY <1>3, StillAgrees
  <1> QED BY <1>1, <1>2, <1>3, <1>4 DEF Agrees, Survives, KeptNode
\* In the passes, what survives is what survived at first.
LEMMA ForcedSurvivors ==
    ASSUME IInv, Faithful, Converging, doc.force, phase \in Passes, NEW o, o = Make(origin, Skel)
    PROVE  \A p \in Paths : Survives(fs, p) <=> Survives(o, p)
  <1>1. \A p \in Paths : Survives(fs, p) <=> Survives(Skeleton, p)
    BY Survivors DEF Faithful
  <1>2. \A p \in Paths : Survives(Skeleton, p) <=> Survives(o, p)
    BY SameSurvivors DEF Converging, Agrees
  <1> QED BY <1>1, <1>2

LEMMA ForcedMove ==
    ASSUME IInv, Faithful, Converging, phase \in Passes, UNCHANGED inputs,
           phase' \in Passes \union Ended,
           doc.force => \A p \in Paths : Moves(fs, fs', p)
    PROVE  Converging'
  <1>1. UNCHANGED <<doc, origin, before>>
    BY DEF inputs
  <1> SUFFICES ASSUME doc.force
               PROVE  /\ SameLinks(origin, fs')
                      /\ Agrees(Make(origin, Skel), Make(fs', Skel))
                      /\ phase' \in Passes => \A p \in Skel : fs'[p] # "link"
                      /\ Agrees(Make(origin, Skel), Make(before', Skel))
    BY <1>1, ConvergingStays DEF Passes, Ended
  <1>2. PICK b, o, f, g : b = origin /\ o = Make(b, Skel) /\ f = fs /\ g = fs'
    OBVIOUS
  <1>3. SameLinks(b, f) /\ Agrees(o, Make(f, Skel))
    BY <1>2 DEF Converging
  <1>4. \A p \in Paths : Survives(f, p) <=> Survives(o, p)
    BY <1>2, ForcedSurvivors
  <1>5. \A p \in Paths : Moves(f, g, p)
    BY <1>2
  <1>6. SameLinks(b, g) /\ Agrees(o, Make(g, Skel))
    BY <1>2, <1>3, <1>4, <1>5, MovesAgree
  <1>7. \A p \in Skel : fs'[p] # "link"
    <2>1. \A p \in Skel : fs[p] # "link"
      BY DEF Converging
    <2> QED BY <2>1, PathsAssumption DEF Moves, Links
  <1>8. Agrees(Make(origin, Skel), Make(before', Skel))
    BY <1>1 DEF Converging, Skeleton
  <1> QED BY <1>2, <1>6, <1>7, <1>8

\* Nothing happens to the inventory.
LEMMA ForcedStill ==
    ASSUME Converging, UNCHANGED <<fs, doc, before, origin>>,
           phase' = "skel" => phase = "skel" /\ todo' = todo,
           phase' \in {"check"} \union Passes =>
               phase \in {"check"} \union Passes \/ (phase = "skel" /\ todo = {})
    PROVE  Converging'
  BY ConvergingStays DEF Converging, Skeleton, Passes

\* The entry in hand is free to be removed, emptied or written.
LEMMA InHandIsFree ==
    ASSUME IInv, InOrder, phase \in Passes, NEW e \in todo, ~Kept(e)
    PROVE  /\ e \in Paths /\ Above[e] \subseteq Paths
           /\ phase \in {"remove", "empty"} => Below(e) \union {e} \subseteq Doomed
           /\ phase \in {"empty", "write"} => Above[e] \union {e} \subseteq Remade
           /\ \A p \in Above[e] \union {e} : ~Kept(p) /\ fs[p] \notin Links
  <1>1. e \in Paths /\ e \in DOMAIN doc.files /\ Above[e] \subseteq Paths
    BY PathsAssumption DEF IInv, TypeOK
  <1>2. /\ phase \in {"remove", "empty"} => e \in Free(Removals \union {"empty/"})
        /\ phase \in {"empty", "write"} => e \in Free({"text", "empty/"})
    BY DealtFacts DEF Free, Of
  <1>3. Below(e) \union {e} \subseteq Paths
    BY <1>1 DEF Below
  <1>4. \A p \in Above[e] \union {e} : ~Kept(p)
    BY <1>1, KeptUp
  <1>5. \A p \in Above[e] \union {e} : fs[p] \notin Links
    BY <1>1 DEF IInv, NoLinkOnTheWay
  <1> QED BY <1>1, <1>2, <1>3, <1>4, <1>5 DEF Doomed, Remade, Below

LEMMA RemoveForced ==
    ASSUME IInv, Faithful, Converging, phase \in {"remove", "empty"}, UNCHANGED inputs, UNCHANGED phase,
           NEW p \in Doomed, fs' = [fs EXCEPT ![p] = "absent"], ~Survives(fs, p),
           fs[p] # "dirlink"
    PROVE  Converging'
  <1>1. fs \in [Paths -> Nodes]
    BY DEF IInv, TypeOK
  <1>2. doc.force /\ p \in Skel => fs[p] \notin Links
    BY DEF Converging, Links, Passes
  <1>3. doc.force => \A q \in Paths : Moves(fs, fs', q)
    BY <1>1, <1>2 DEF Moves
  <1> QED BY <1>3, ForcedMove DEF Passes

LEMMA ForcedRemoveEntry ==
    ASSUME IInv, Faithful, Converging, NEW e \in Paths, RemoveEntry(e) \/ EmptyEntry(e)
    PROVE  Converging'
  <1>1. phase \in {"remove", "empty"} /\ Next1(e) /\ UNCHANGED <<phase, inputs>>
    BY DEF RemoveEntry, EmptyEntry
  <1>2. CASE UNCHANGED fs
    BY <1>1, <1>2, ForcedStill DEF inputs, Passes
  <1>3. CASE ~Kept(e) /\ fs[e] \notin {"absent", "dir"} /\ Remove(e)
    <2>1. fs[e] \notin Links /\ \A q \in Below(e) : fs[q] = "absent"
      BY <1>1, <1>3, Entry DEF Passes
    <2>2. ~Survives(fs, e)
      BY <1>3, <2>1 DEF Survives, KeptNode
    <2>3. e \in Doomed
      <3>1. InOrder /\ e \in todo
        BY <1>1 DEF Faithful, InPasses, Passes, Next1
      <3> QED BY <1>1, <1>3, <3>1, InHandIsFree DEF Passes
    <2> QED BY <1>1, <1>3, <2>1, <2>2, <2>3, RemoveForced DEF Remove, Links
  <1> QED BY <1>2, <1>3 DEF RemoveEntry, EmptyEntry

LEMMA ForcedClear ==
    ASSUME IInv, Faithful, Converging, NEW p \in Paths, Clear(p) PROVE Converging'
  <1>1. /\ phase \in {"remove", "empty"} /\ cur # NoPath /\ p \in Below(cur)
        /\ ~Survives(fs, p) /\ UNCHANGED inputs
    BY DEF Clear
  <1>2. CASE phase' = "error" /\ UNCHANGED <<fs, res>>
    BY <1>1, <1>2, ForcedStill DEF inputs, Passes
  <1>3. CASE fs[p] # "dirlink" /\ Remove(p) /\ UNCHANGED phase
    <2>1. InOrder /\ cur \in todo /\ ~Kept(cur)
      BY <1>1 DEF Faithful, InPasses, InOrder, Passes, IInv, InHand
    <2>2. p \in Doomed
      BY <1>1, <2>1, InHandIsFree DEF Passes
    <2> QED BY <1>1, <1>3, <2>2, RemoveForced DEF Remove
  <1> QED BY <1>2, <1>3 DEF Clear

LEMMA ForcedRemoveCleared ==
    ASSUME IInv, Faithful, Converging, RemoveCleared PROVE Converging'
  <1>1. phase = "remove" /\ IsCleared /\ cur # NoPath /\ UNCHANGED <<phase, inputs>>
    BY DEF RemoveCleared, IsCleared
  <1>2. CASE UNCHANGED fs
    BY <1>1, <1>2, ForcedStill DEF inputs, Passes
  <1>3. CASE KeptBelow(fs, cur) = {} /\ Remove(cur)
    <2>1. InOrder /\ cur \in todo /\ ~Kept(cur)
      BY <1>1 DEF Faithful, InPasses, InOrder, Passes, IInv, InHand
    <2>2. cur \in Doomed /\ fs[cur] \notin Links
      BY <1>1, <2>1, InHandIsFree DEF Passes
    <2>3. ~Survives(fs, cur)
      BY <1>3, <2>1 DEF Survives, KeptBelow, KeptNode
    <2> QED BY <1>1, <1>3, <2>2, <2>3, RemoveForced DEF Remove, Links
  <1> QED BY <1>2, <1>3 DEF RemoveCleared

LEMMA ForcedEmptyCleared ==
    ASSUME IInv, Faithful, Converging, EmptyCleared PROVE Converging'
  <1>1. phase = "empty" /\ cur # NoPath /\ UNCHANGED inputs
    BY DEF EmptyCleared, IsCleared
  <1>2. CASE phase' = "error" /\ UNCHANGED fs
    BY <1>1, <1>2, ForcedStill DEF inputs, Passes
  <1>3. CASE fs' = Make(fs, Above[cur] \union {cur}) /\ UNCHANGED phase
    <2>1. InOrder /\ cur \in todo /\ ~Kept(cur)
      BY <1>1 DEF Faithful, InPasses, InOrder, Passes, IInv, InHand
    <2>2. \A p \in Above[cur] \union {cur} : p \in Remade /\ ~Kept(p) /\ fs[p] \notin Links
      BY <1>1, <2>1, InHandIsFree DEF Passes
    <2>3. \A p \in Paths : Moves(fs, fs', p)
      BY <1>3, <2>2 DEF Make, Moves, Links
    <2> QED BY <1>1, <1>3, <2>3, ForcedMove DEF Passes
  <1> QED BY <1>2, <1>3 DEF EmptyCleared

LEMMA ForcedWrite ==
    ASSUME IInv, Faithful, Converging,
           WriteText \/ \E e \in Paths : WriteEntry(e)
    PROVE  Converging'
  <1>1. phase = "write" /\ UNCHANGED inputs
    BY DEF WriteText, WriteEntry
  <1>2. fs \in [Paths -> Nodes]
    BY DEF IInv, TypeOK
  <1>3. CASE WriteText
    <2>1. InOrder /\ cur \in todo /\ ~Kept(cur)
      BY <1>3 DEF WriteText, Faithful, InPasses, InOrder, Passes, IInv, InHand
    <2>2. cur \in Remade /\ fs[cur] \notin Links
      BY <1>1, <2>1, InHandIsFree DEF Passes
    <2>3. \A p \in Paths : Moves(fs, fs', p)
      BY <1>2, <1>3, <2>1, <2>2 DEF WriteText, Moves, Links
    <2> QED BY <1>1, <1>3, <2>3, ForcedMove DEF WriteText, Passes
  <1>4. ASSUME NEW e \in Paths, WriteEntry(e) PROVE Converging'
    <2>1. CASE UNCHANGED fs /\ phase' \in {phase, "error"}
      BY <1>1, <2>1, ForcedStill DEF inputs, Passes
    <2>2. CASE ~Kept(e) /\ fs' = [Make(fs, Above[e]) EXCEPT ![e] = "torn"] /\ UNCHANGED phase
      <3>1. InOrder /\ e \in todo
        BY <1>4 DEF WriteEntry, Next1, Faithful, InPasses, Passes
      <3>2. \A p \in Above[e] \union {e} : p \in Remade /\ ~Kept(p) /\ fs[p] \notin Links
        BY <1>1, <2>2, <3>1, InHandIsFree DEF Passes
      <3>3. \A p \in Paths : Moves(fs, fs', p)
        BY <1>2, <2>2, <3>2 DEF Make, Moves, Links
      <3> QED BY <1>1, <2>2, <3>3, ForcedMove DEF Passes
    <2> QED BY <1>4, <2>1, <2>2 DEF WriteEntry
  <1> QED BY <1>3, <1>4

LEMMA ForcedBegin ==
    ASSUME IInv, Converging, Begin PROVE Converging'
  <1>1. fs' = fs /\ before' = fs /\ phase' = "skel" /\ todo' = Skel /\ UNCHANGED <<doc, origin>>
    BY DEF Begin
  <1> QED BY <1>1, ConvergingStays DEF Converging, Passes

LEMMA ForcedSkelDir ==
    ASSUME IInv, Faithful, Converging, NEW e \in Paths, SkelDir(e) PROVE Converging'
  <1>1. phase = "skel" /\ e \in todo /\ UNCHANGED inputs
    BY DEF SkelDir, Next1
  <1>2. CASE phase' = "error" /\ UNCHANGED fs
    BY <1>1, <1>2, ForcedStill DEF inputs, Passes
  <1>3. CASE CanMake(fs, e) /\ fs' = Make(fs, Above[e] \union {e}) /\ Finish(e) /\ UNCHANGED phase
    <2>1. e \in Skel /\ Above[e] \union {e} \union Skel = Skel
      BY <1>1, PathsAssumption DEF Faithful, InSkel
    <2>2. Make(fs', Skel) = Make(fs, Skel)
      BY <1>3, <2>1, MakeTwice
    <2>3. \A p \in Paths : fs'[p] = fs[p] \/ (fs[p] = "absent" /\ fs'[p] = "dir")
      BY <1>3 DEF Make
    <2> SUFFICES ASSUME doc.force
                 PROVE  /\ SameLinks(origin, fs')
                        /\ \A p \in Skel \ todo' : fs'[p] # "link"
      BY <1>1, <1>3, <2>2, ConvergingStays DEF Converging, Skeleton, inputs, Passes
    <2>4. SameLinks(origin, fs')
      BY <2>3, PathsAssumption DEF Converging, SameLinks, Links
    <2>5. fs[e] # "link"
      BY <1>3 DEF CanMake
    <2>6. \A p \in Skel \ todo' : fs[p] # "link"
      BY <1>1, <1>3, <2>5 DEF Converging, Finish
    <2> QED BY <2>3, <2>4, <2>6, PathsAssumption
  <1> QED BY <1>2, <1>3 DEF SkelDir

LEMMA ConvergingStart == Init => Converging
  BY DEF Init, Converging, SameLinks, Agrees, Skeleton, Passes

LEMMA ConvergingSteps == IInv /\ Faithful /\ Converging /\ [Next]_vars => Converging'
  <1> SUFFICES ASSUME IInv, Faithful, Converging, [Next]_vars PROVE Converging'
    OBVIOUS
  <1>1. CASE Begin
    BY <1>1, ForcedBegin
  <1>2. CASE Check
    BY <1>2, ForcedStill DEF Check, Passes
  <1>3. CASE Pass
    BY <1>3, ForcedStill DEF Pass, inputs, Passes
  <1>4. CASE RemoveCleared \/ EmptyCleared \/ WriteText
    BY <1>4, ForcedRemoveCleared, ForcedEmptyCleared, ForcedWrite
  <1>5. CASE \E e \in Paths : SkelDir(e) \/ RemoveEntry(e) \/ EmptyEntry(e) \/ WriteEntry(e)
    BY <1>5, ForcedSkelDir, ForcedRemoveEntry, ForcedWrite
  <1>6. CASE \E p \in Paths : Clear(p)
    BY <1>6, ForcedClear
  <1>7. CASE Kill \/ Again
    BY <1>7, ForcedStill DEF Kill, Again, inputs, Passes
  <1>8. CASE UNCHANGED vars
    BY <1>8, ForcedStill DEF vars
  <1> QED BY <1>1, <1>2, <1>3, <1>4, <1>5, <1>6, <1>7, <1>8 DEF Next, Work, Stop

\* With --force the command can be killed at any moment, any number of times,
\* and simply run again: a run that succeeds leaves what the specification
\* means for the inventory there was before the first one.
THEOREM Rerunning == Spec => []ForcedRerunConverges
  <1>1. IInv /\ Faithful /\ Converging => ForcedRerunConverges
    <2> SUFFICES ASSUME IInv, Faithful, Converging, doc.force, phase = "done"
                 PROVE  fs = Meaning(Make(origin, Skel))
      BY DEF ForcedRerunConverges
    <2>1. fs = Meaning(Skeleton)
      BY AtTheEnd, WholeMeaning
    <2>2. Meaning(Skeleton) = Meaning(Make(origin, Skel))
      BY SameMeaning DEF Converging
    <2> QED BY <2>1, <2>2
  <1>2. Init => IInv /\ Faithful /\ Converging
    BY Start, FaithfulStart, ConvergingStart
  <1>3. IInv /\ Faithful /\ Converging /\ [Next]_vars => (IInv /\ Faithful /\ Converging)'
    BY Steps, FaithfulSteps, ConvergingSteps DEF Safe
  <1> QED BY <1>1, <1>2, <1>3, PTL DEF Spec
=============================================================================
