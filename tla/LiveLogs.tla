------------------------------ MODULE LiveLogs ------------------------------
(***************************************************************************)
(* The live log of one carrier or one client (internal/smpp/egresslog) and *)
(* the pages that follow it over server-sent events: the sessions append   *)
(* lines, a page starts with the lines retained and goes on with the lines *)
(* that reach its channel.  The debug switch, the counter of unmatched     *)
(* receipts and what a line says are left out.                             *)
(***************************************************************************)
EXTENDS Integers, Sequences

CONSTANTS
  Viewers,     \* pages that may be open
  MaxHistory,  \* maxLinesPerCarrier
  Buffer,      \* subscriberBuffer
  MaxAppended  \* bound on the lines appended

ASSUME LiveLogsAssumption ==
  MaxHistory \in Nat \ {0} /\ Buffer \in Nat \ {0} /\ MaxAppended \in Nat

VARIABLES
  retained,  \* the lines retained, by their numbers
  subs,      \* viewers Append sends to
  channel,   \* of each viewer
  reading,   \* where each viewer's page is
  snapshot,  \* retained lines its page has still to write
  \* History, read by the properties only.
  appended,  \* lines so far
  shown,     \* lines each page has written
  first,     \* the first line each page owes its viewer
  missed     \* viewers a line was dropped for

viewerVars == <<subs, channel, reading, snapshot, shown, first, missed>>
logVars == <<retained, appended, viewerVars>>

Lines == 1 .. MaxAppended

LiveLogsTypeOK ==
  /\ retained \in Seq(Lines) /\ appended \in 0 .. MaxAppended
  /\ subs \subseteq Viewers /\ missed \subseteq Viewers
  /\ reading \in [Viewers -> {"closed", "subscribing", "history", "live"}]
  /\ channel \in [Viewers -> Seq(Lines)] /\ snapshot \in [Viewers -> Seq(Lines)]
  /\ shown \in [Viewers -> Seq(Lines)] /\ first \in [Viewers -> 1 .. MaxAppended + 1]

LogsInit ==
  /\ retained = <<>> /\ appended = 0 /\ subs = {} /\ missed = {}
  /\ reading = [v \in Viewers |-> "closed"]
  /\ channel = [v \in Viewers |-> <<>>] /\ snapshot = channel /\ shown = channel
  /\ first = [v \in Viewers |-> 1]

\* A deviation: the history is copied and the channel registered under two
\* locks of the hub's mutex.
Unlocked == TRUE

\* A subscriber holds the mutex from the copy to the registration.
HubFree == \A v \in Viewers : reading[v] # "subscribing"

Newest(lines) == SubSeq(lines, Len(lines) - MaxHistory + 1, Len(lines))

\* A channel that is full is passed over.
Full(v) == Len(channel[v]) >= Buffer

AppendLine ==
  /\ HubFree /\ appended < MaxAppended
  /\ LET line == appended + 1
         buf == Append(retained, line)
     IN  /\ appended' = line
         /\ retained' = IF Len(buf) > MaxHistory THEN Newest(buf) ELSE buf
         /\ channel' = [v \in Viewers |->
              IF v \in subs /\ ~Full(v) THEN Append(channel[v], line) ELSE channel[v]]
         /\ missed' = missed \cup {v \in subs : Full(v)}
  /\ UNCHANGED <<subs, reading, snapshot, shown, first>>

Copy(v) ==
  /\ reading[v] = "closed" /\ HubFree
  /\ reading' = [reading EXCEPT ![v] = "subscribing"]
  /\ snapshot' = [snapshot EXCEPT ![v] = retained]
  /\ first' = [first EXCEPT ![v] = appended - Len(retained) + 1]
  /\ UNCHANGED <<retained, appended, subs, channel, shown, missed>>

Register(v) ==
  /\ reading[v] = "subscribing"
  /\ reading' = [reading EXCEPT ![v] = "history"]
  /\ subs' = subs \cup {v}
  /\ UNCHANGED <<retained, appended, channel, snapshot, shown, first, missed>>

\* The retained lines are all written before the channel is read.
WriteHistory(v) ==
  /\ reading[v] = "history"
  /\ IF snapshot[v] = <<>>
     THEN reading' = [reading EXCEPT ![v] = "live"] /\ UNCHANGED <<shown, snapshot>>
     ELSE /\ shown' = [shown EXCEPT ![v] = Append(@, Head(snapshot[v]))]
          /\ snapshot' = [snapshot EXCEPT ![v] = Tail(@)]
          /\ UNCHANGED reading
  /\ UNCHANGED <<retained, appended, subs, channel, first, missed>>

WriteLive(v) ==
  /\ reading[v] = "live" /\ channel[v] # <<>>
  /\ shown' = [shown EXCEPT ![v] = Append(@, Head(channel[v]))]
  /\ channel' = [channel EXCEPT ![v] = Tail(@)]
  /\ UNCHANGED <<retained, appended, subs, reading, snapshot, first, missed>>

\* The page is closed: the subscription is cancelled and the channel dropped.
Cancel(v) ==
  /\ reading[v] = "live" /\ HubFree
  /\ reading' = [reading EXCEPT ![v] = "closed"]
  /\ subs' = subs \ {v} /\ missed' = missed \ {v}
  /\ channel' = [channel EXCEPT ![v] = <<>>] /\ shown' = [shown EXCEPT ![v] = <<>>]
  /\ first' = [first EXCEPT ![v] = 1]
  /\ UNCHANGED <<retained, appended, snapshot>>

LogsNext ==
  \/ AppendLine
  \/ \E v \in Viewers : Copy(v) \/ Register(v) \/ WriteHistory(v) \/ WriteLive(v) \/ Cancel(v)

LogsSpec == LogsInit /\ [][LogsNext]_logVars
-----------------------------------------------------------------------------
\* What a page has written, will write of the history, and will read.
Owed(v) == shown[v] \o snapshot[v] \o channel[v]

\* A page shows the lines in order and none twice, and its first line is the
\* oldest one retained when it was opened.  As long as its buffer was never
\* full it shows every line from there to the newest: no line slips between
\* the copy of the history and the registration of the channel.
LiveLogsInv ==
  /\ LiveLogsTypeOK
  /\ retained = [i \in 1 .. Len(retained) |-> appended - Len(retained) + i]
  /\ \A v \in subs :
       /\ \A i, j \in DOMAIN Owed(v) : i < j => Owed(v)[i] < Owed(v)[j]
       /\ Owed(v) # <<>> => Head(Owed(v)) = first[v]
       /\ v \notin missed => Owed(v) = [i \in 1 .. appended - first[v] + 1 |-> first[v] + i - 1]
=============================================================================
