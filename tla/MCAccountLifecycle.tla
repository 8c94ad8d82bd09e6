---------------------------- MODULE MCAccountLifecycle ----------------------------
(***************************************************************************)
(* One user small enough for TLC: a removable and a protected LAB-* group, *)
(* one licence that is removable.                                          *)
(***************************************************************************)
EXTENDS AccountLifecycle, TLC

\* One of each action that matters to an offboarding; a password reset is to the model
\* what a revocation of sessions is.
Ask(action, target) == [action |-> action, target |-> target]

HelpdeskRequests ==
    {Ask("block_signin", NoTarget), Ask("unblock_signin", NoTarget),
     Ask("revoke_sessions", NoTarget), Ask("add_group", NoTarget)}
    \cup {Ask("add_group", g) : g \in Groups \ ProtectedGroups}
    \cup {Ask("remove_group", g) : g \in Groups}
    \cup {Ask(action, s) : action \in {"assign_license", "remove_license"}, s \in Skus}

\* Two operations about one hire are interchangeable.
HirersAlike == Permutations(Hirers)
==================================================================================
