---------------------------- MODULE MCSpecApply ----------------------------
(* Small inventories and specifications for SpecApply: a directory with a  *)
(* file and a directory that holds another file.                           *)
EXTENDS SpecApply

CONSTANTS
    Forces,     \* the values of --force
    Dries,      \* and of --dry-run
    Kinds,      \* the nodes an inventory may be made of
    NewKinds    \* the entries a specification may have

MCPaths == {"gv", "gv/own", "gv/all", "gv/all/key"}
MCAbove == [p \in MCPaths |->
    CASE p = "gv" -> {}
      [] p = "gv/all/key" -> {"gv", "gv/all"}
      [] OTHER -> {"gv"}]
MCSkel == {"gv", "gv/all"}
MCNoPath == "none"

MCTrees == {t \in [MCPaths -> Kinds] :
    \A p \in MCPaths : t[p] # "absent" => \A q \in MCAbove[p] : t[q] = "dir"}

MCDocuments ==
    [files : UNION {[D -> NewKinds] : D \in {E \in SUBSET MCPaths : Cardinality(E) \in 1..2}},
     keep : {K \in SUBSET MCPaths : Cardinality(K) <= 1},
     force : Forces,
     dry : Dries]
=============================================================================
