------------------------------ MODULE MCViews -------------------------------
(* Views with names that collide in conf.d and names inside each other. *)
EXTENDS Views

CONSTANTS system, prod, prodweb, deep, main, shared

\* prod/web and prod-web have one file between them: view-prod-web.yml
MCFileOf == [v \in Views |-> IF v = system THEN main ELSE shared]
MCAbove == [v \in Views |-> IF v = deep THEN Views \ {deep} ELSE {}]
\* git-crypt is for the whole repository, EncFS for one view
MCCrypts == [v \in Views |-> IF v = system THEN {"none", "git-crypt"}
                             ELSE IF v = prod THEN {"none", "encfs"} ELSE {"none"}]
NoCrypts == [v \in Views |-> {"none"}]
NoParent == [v \in Views |-> NoView]
=============================================================================
