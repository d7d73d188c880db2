---------------------------- MODULE MCSmppEgress ----------------------------
(***************************************************************************)
(* SmppEgress on a small instance, and beside it the two logs its sessions *)
(* write: one wire log file (WireLog) and one live log (LiveLogs).  The    *)
(* logs read nothing of the sessions and the sessions nothing of the logs, *)
(* so each of the three moves while the others are as they started.        *)
(***************************************************************************)
EXTENDS SmppEgress, WireLog, LiveLogs

CONSTANTS g1, g2, a1, v1, v2

MCGroups == {g1, g2}
MCAdmins == {a1}
MCViewers == {v1, v2}

MCInit == Init /\ WireInit /\ LogsInit

MCNext ==
  \/ emitted = 0 /\ appended = 0 /\ WireInit /\ LogsInit /\ Next /\ UNCHANGED <<wireVars, logVars>>
  \/ appended = 0 /\ Init /\ LogsInit /\ WireNext /\ UNCHANGED <<vars, logVars>>
  \/ emitted = 0 /\ Init /\ WireInit /\ LogsNext /\ UNCHANGED <<vars, wireVars>>

MCSpec == MCInit /\ [][MCNext]_<<vars, wireVars, logVars>> /\ Fairness
=============================================================================
