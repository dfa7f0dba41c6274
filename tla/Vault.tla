------------------------------- MODULE Vault -------------------------------
(***************************************************************************)
(* What the debops commands promise about a project's encrypted secrets,   *)
(* whatever the encryption method, hooks, commits and files involved: the  *)
(* secrets are sealed or open, and while they are open somebody answers    *)
(* for it.                                                                 *)
(***************************************************************************)
CONSTANTS
    Procs,     \* those who can open the secrets for the time of a command
    Mishaps    \* the reasons for which one of them may leave them open

VARIABLES
    open,      \* the secrets are readable
    keeper     \* a process, the user, a mishap, or nobody

Init == open = FALSE /\ keeper = "nobody"

\* A command opens the secrets, for itself or on the user's behalf.
Open(p) ==
    /\ ~open
    /\ open' = TRUE
    /\ keeper' \in {p, "user"}

\* Whoever kept the secrets, sealing them settles it.
Seal ==
    /\ open
    /\ open' = FALSE
    /\ keeper' = "nobody"

\* A command gives up with the secrets open: only a mishap allows that.
Abandon(p) ==
    /\ open
    /\ keeper = p
    /\ keeper' \in Mishaps
    /\ UNCHANGED open

Next == Seal \/ \E p \in Procs : Open(p) \/ Abandon(p)

Spec == Init /\ [][Next]_<<open, keeper>>
=============================================================================
