---------------------------- MODULE MCAdminAccess ----------------------------
(* AdminAccess, with AdminUsers behind it, on a small instance. *)
EXTENDS AdminAccess, TLC

CONSTANTS root, u1, e1, e2, t1

MCUsers == {root, u1}
MCEditors == {e1, e2}
MCTokens == {t1}
MCForms == {Powerful, [super |-> FALSE, active |-> FALSE]}
MCIdles == {0, 1}

\* A bound: nothing is followed up once a form took power although another had
\* done so since its check, after which no super admin need be left.
MCNext == ~raced /\ AccessNext

MCSpec == AccessInit /\ [][MCNext]_allVars

Symmetry == Permutations(MCEditors)
=============================================================================
