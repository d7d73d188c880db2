---------------------------- MODULE EgressProofs ----------------------------
(***************************************************************************)
(* The way out: what the searches find in any table, the number and the    *)
(* sender a message leaves with, the check against a loss and the          *)
(* simulation that foretells all of it; the sessions to a carrier and the  *)
(* two logs they write, for any number of groups, sessions and lines.      *)
(***************************************************************************)
EXTENDS Routing, SmppEgress, WireLog, LiveLogs, FiniteSetTheorems, SequenceTheorems,
        WellFoundedInduction, TLAPS

-----------------------------------------------------------------------------
(* LiveLogs: what a page shows.                                            *)

\* Adding a line, or moving one from a sequence to the one before it.
LEMMA AddedLast ==
  ASSUME NEW a \in Seq(Lines), NEW b \in Seq(Lines), NEW e \in Lines
  PROVE  Append(a \o b, e) = a \o Append(b, e)
<1>1. a \o b \in Seq(Lines) /\ <<e>> \in Seq(Lines)
  BY ConcatProperties
<1>2. Append(a \o b, e) = (a \o b) \o <<e>> /\ Append(b, e) = b \o <<e>>
  BY <1>1, AppendIsConcat
<1>3. QED
  BY <1>1, <1>2, ConcatAssociative

LEMMA HeadMoved ==
  ASSUME NEW S, NEW s \in Seq(S), NEW t \in Seq(S), t # <<>>
  PROVE  /\ Append(s, Head(t)) \in Seq(S) /\ Tail(t) \in Seq(S)
         /\ Append(s, Head(t)) \o Tail(t) = s \o t
<1>1. PICK h, u : h = Head(t) /\ u = Tail(t)
  OBVIOUS
<1>2. h \in S /\ u \in Seq(S) /\ <<h>> \in Seq(S)
  BY <1>1, HeadTailProperties
<1>3. Append(s, h) \in Seq(S) /\ Append(s, h) = s \o <<h>>
  BY <1>2, AppendProperties, AppendIsConcat
<1>4. t = <<h>> \o u
  <2>1. Len(t) \in Nat \ {0} /\ Len(u) = Len(t) - 1 /\ h = t[1] /\ \A i \in 1 .. Len(u) : u[i] = t[i + 1]
    BY <1>1, EmptySeq, HeadTailProperties, LenProperties
  <2>2. /\ <<h>> \o u \in Seq(S) /\ Len(<<h>> \o u) = Len(t)
        /\ \A i \in 1 .. Len(t) : (<<h>> \o u)[i] = IF i <= 1 THEN <<h>>[i] ELSE u[i - 1]
    <3>1. Len(<<h>>) = 1
      OBVIOUS
    <3>2. Len(<<h>>) + Len(u) = Len(t)
      BY <2>1, <3>1
    <3>3. QED
      BY <1>2, <3>1, <3>2, ConcatProperties
  <2>3. \A i \in 1 .. Len(t) : t[i] = (<<h>> \o u)[i]
    BY <2>1, <2>2
  <2>4. QED
    BY <2>2, <2>3, SeqEqual
<1>5. (s \o <<h>>) \o u = s \o (<<h>> \o u)
  BY <1>2, ConcatAssociative
<1>6. QED
  BY <1>1, <1>2, <1>3, <1>4, <1>5

\* Lines in order, none twice, the first one f, and up to the newest one n.
Ordered(s, f, n) ==
  /\ \A i, j \in 1 .. Len(s) : i < j => s[i] < s[j]
  /\ \A i \in 1 .. Len(s) : s[i] <= n
  /\ Len(s) # 0 => s[1] = f

Every(s, f, n) == Len(s) = n - f + 1 /\ \A i \in 1 .. Len(s) : s[i] = f + i - 1

Page(v) ==
  /\ reading[v] = "closed" => /\ v \notin subs /\ v \notin missed
                              /\ shown[v] = <<>> /\ snapshot[v] = <<>> /\ channel[v] = <<>>
  /\ reading[v] = "subscribing" => /\ v \notin subs /\ v \notin missed
                                   /\ shown[v] = <<>> /\ snapshot[v] = retained /\ channel[v] = <<>>
                                   /\ first[v] = appended - Len(retained) + 1
  /\ reading[v] \in {"history", "live"} => v \in subs
  /\ reading[v] = "live" => snapshot[v] = <<>>
  /\ v \in subs => /\ first[v] <= appended + 1
                   /\ Ordered(Owed(v), first[v], appended)
                   /\ v \notin missed => Every(Owed(v), first[v], appended)
                   /\ v \in missed => Len(Owed(v)) # 0

LogsIInv ==
  /\ LiveLogsTypeOK
  /\ Len(retained) <= appended /\ Every(retained, appended - Len(retained) + 1, appended)
  /\ \A v \in Viewers : Page(v)

LEMMA LineAppended ==
  ASSUME NEW s \in Seq(Lines), NEW f \in Nat, NEW n \in Nat, n + 1 \in Lines, NEW t \in Seq(Lines), t = Append(s, n + 1)
  PROVE  /\ Ordered(s, f, n) /\ f <= n + 1 /\ (Len(s) = 0 => f = n + 1) => Ordered(t, f, n + 1)
         /\ Every(s, f, n) => Every(t, f, n + 1)
         /\ Len(t) = Len(s) + 1
<1>1. /\ Len(t) = Len(s) + 1 /\ Len(s) \in Nat /\ \A i \in 1 .. Len(s) : t[i] = s[i] /\ t[i] \in Int
      /\ t[Len(s) + 1] = n + 1
  <2>1. t \in Seq(Lines) /\ Len(t) = Len(s) + 1 /\ Len(s) \in Nat
        /\ \A i \in 1 .. Len(s) : t[i] = s[i]
    BY AppendProperties, LenProperties
  <2>2. t[Len(s) + 1] = n + 1
    BY AppendProperties
  <2>3. \A i \in 1 .. Len(t) : t[i] \in Lines
    BY <2>1, ElementOfSeq
  <2>4. QED
    BY <2>1, <2>2, <2>3 DEF Lines
<1>2. \A i \in 1 .. Len(t) : i \in 1 .. Len(s) \/ (i = Len(s) + 1 /\ t[i] = n + 1)
  BY <1>1
<1>3. ASSUME Ordered(s, f, n), Len(s) = 0 => f = n + 1 PROVE Ordered(t, f, n + 1)
  <2>1. \A i \in 1 .. Len(s) : t[i] <= n
    BY <1>1, <1>3 DEF Ordered
  <2>2. \A i, j \in 1 .. Len(t) : i < j => t[i] < t[j]
    BY <1>1, <1>2, <1>3, <2>1 DEF Ordered
  <2>3. \A i \in 1 .. Len(t) : t[i] <= n + 1
    BY <1>1, <1>2, <2>1
  <2>4. t[1] = f
    BY <1>1, <1>3 DEF Ordered
  <2>5. QED
    BY <2>2, <2>3, <2>4 DEF Ordered
<1>4. Every(s, f, n) => Every(t, f, n + 1)
  BY <1>1, <1>2 DEF Every
<1>5. QED
  BY <1>1, <1>3, <1>4

LEMMA EveryIsOrdered ==
  ASSUME NEW s \in Seq(Lines), NEW f \in Int, NEW n \in Int, Every(s, f, n)
  PROVE  Ordered(s, f, n)
<1>1. Len(s) \in Nat
  BY LenProperties
<1>2. QED
  BY <1>1 DEF Every, Ordered

LEMMA PageSeqs ==
  ASSUME LiveLogsTypeOK, NEW v \in Viewers
  PROVE  /\ shown[v] \in Seq(Lines) /\ snapshot[v] \in Seq(Lines) /\ channel[v] \in Seq(Lines)
         /\ shown[v] \o snapshot[v] \in Seq(Lines) /\ Owed(v) \in Seq(Lines)
         /\ Len(shown[v]) \in Nat /\ Len(snapshot[v]) \in Nat /\ Len(channel[v]) \in Nat
         /\ Len(Owed(v)) = Len(shown[v]) + Len(snapshot[v]) + Len(channel[v])
<1>1. shown[v] \in Seq(Lines) /\ snapshot[v] \in Seq(Lines) /\ channel[v] \in Seq(Lines)
  BY DEF LiveLogsTypeOK
<1>2. shown[v] \o snapshot[v] \in Seq(Lines) /\ Len(shown[v] \o snapshot[v]) = Len(shown[v]) + Len(snapshot[v])
  BY <1>1, ConcatProperties
<1>3. Len(shown[v]) \in Nat /\ Len(snapshot[v]) \in Nat /\ Len(channel[v]) \in Nat
  BY <1>1, LenProperties
<1>4. QED
  BY <1>1, <1>2, <1>3, ConcatProperties DEF Owed

LEMMA LogsStart == LogsInit => LogsIInv
<1> SUFFICES ASSUME LogsInit PROVE LogsIInv
  OBVIOUS
<1>1. LiveLogsTypeOK
  BY LiveLogsAssumption, EmptySeq DEF LogsInit, LiveLogsTypeOK
<1>2. Len(retained) = 0 /\ appended = 0
  BY EmptySeq DEF LogsInit
<1>3. Every(retained, appended - Len(retained) + 1, appended)
  BY <1>2 DEF Every
<1>4. \A v \in Viewers : Page(v)
  BY DEF LogsInit, Page
<1>5. QED
  BY <1>1, <1>2, <1>3, <1>4 DEF LogsIInv

\* AppendLine: what is retained goes on to the line appended.
LEMMA RetainedStep ==
  ASSUME LogsIInv, AppendLine
  PROVE  /\ retained' \in Seq(Lines) /\ appended' = appended + 1 /\ appended' \in Lines
         /\ Len(retained') <= appended' /\ Every(retained', appended' - Len(retained') + 1, appended')
<1>1. retained \in Seq(Lines) /\ appended \in Nat /\ appended' = appended + 1 /\ appended + 1 \in Lines
      /\ Len(retained) \in Nat /\ Len(retained) <= appended
      /\ Every(retained, appended - Len(retained) + 1, appended)
  BY LiveLogsAssumption, LenProperties DEF LogsIInv, LiveLogsTypeOK, AppendLine, Lines
<1>2. PICK buf : buf = Append(retained, appended + 1)
  OBVIOUS
<1>3. buf \in Seq(Lines) /\ Len(buf) = Len(retained) + 1
  BY <1>1, <1>2, AppendProperties
<1>4. Every(buf, appended' - Len(buf) + 1, appended')
  <2>1. /\ \A i \in 1 .. Len(retained) : buf[i] = retained[i]
        /\ buf[Len(retained) + 1] = appended + 1
    BY <1>1, <1>2, AppendProperties
  <2>2. \A i \in 1 .. Len(buf) : i \in 1 .. Len(retained) \/ i = Len(retained) + 1
    BY <1>1, <1>3
  <2>3. QED
    BY <1>1, <1>3, <2>1, <2>2 DEF Every
<1>5. CASE Len(buf) > MaxHistory
  <2>1. retained' = SubSeq(buf, Len(buf) - MaxHistory + 1, Len(buf))
    BY <1>2, <1>5 DEF AppendLine, Newest
  <2>2. PICK m : m = Len(buf) - MaxHistory + 1 /\ m \in Int /\ m \in 1 .. Len(buf) /\ Len(buf) \in Int
    <3>1. Len(buf) \in Int /\ MaxHistory \in Int /\ MaxHistory >= 1
      BY <1>1, <1>3, LiveLogsAssumption
    <3>2. QED
      BY <1>5, <3>1
  <2>3. \A i \in m .. Len(buf) : buf[i] \in Lines
    BY <1>3, <2>2, ElementOfSeq
  <2>4. /\ SubSeq(buf, m, Len(buf)) \in Seq(Lines)
        /\ Len(SubSeq(buf, m, Len(buf))) = (IF m <= Len(buf) THEN Len(buf) - m + 1 ELSE 0)
        /\ \A i \in 1 .. Len(buf) - m + 1 : SubSeq(buf, m, Len(buf))[i] = buf[m + i - 1]
    BY <2>2, <2>3, SubSeqProperties
  <2>5. /\ retained' \in Seq(Lines) /\ Len(retained') = MaxHistory
        /\ \A i \in 1 .. MaxHistory : retained'[i] = buf[m + i - 1]
    BY <2>1, <2>2, <2>4, LiveLogsAssumption
  <2>6. Every(retained', appended' - Len(retained') + 1, appended')
    <3> SUFFICES ASSUME NEW i \in 1 .. MaxHistory PROVE retained'[i] = appended' - MaxHistory + 1 + i - 1
      BY <1>1, <2>5, LiveLogsAssumption DEF Every
    <3>1. m + i - 1 \in 1 .. Len(buf)
      BY <1>1, <1>3, <2>2, LiveLogsAssumption
    <3>2. buf[m + i - 1] = appended' - Len(buf) + 1 + (m + i - 1) - 1
      BY <1>4, <3>1 DEF Every
    <3>3. QED
      BY <1>1, <1>3, <2>2, <2>5, <3>2, LiveLogsAssumption
  <2>7. QED
    BY <1>1, <1>3, <1>5, <2>5, <2>6, LiveLogsAssumption
<1>6. CASE ~(Len(buf) > MaxHistory)
  <2>1. retained' = buf
    BY <1>2, <1>6 DEF AppendLine
  <2>2. QED
    BY <1>1, <1>3, <1>4, <2>1
<1>7. QED
  BY <1>5, <1>6

LEMMA AppendStep ==
  ASSUME LogsIInv, AppendLine
  PROVE  LogsIInv'
<1>1. /\ retained' \in Seq(Lines) /\ appended' = appended + 1 /\ appended' \in Lines /\ appended \in Nat
      /\ Len(retained') <= appended' /\ Every(retained', appended' - Len(retained') + 1, appended')
  BY RetainedStep DEF LogsIInv, LiveLogsTypeOK
<1>2. LiveLogsTypeOK
  BY DEF LogsIInv
<1>3. UNCHANGED <<subs, reading, snapshot, shown, first>> /\ HubFree
      /\ missed' = missed \cup {v \in subs : Full(v)}
      /\ \A v \in Viewers : channel'[v] = IF v \in subs /\ ~Full(v) THEN Append(channel[v], appended + 1) ELSE channel[v]
  BY DEF AppendLine
<1>4. LiveLogsTypeOK'
  <2>1. \A v \in Viewers : Append(channel[v], appended + 1) \in Seq(Lines)
    BY <1>1, <1>2, PageSeqs, AppendProperties
  <2>2. channel' \in [Viewers -> Seq(Lines)]
    BY <1>1, <1>2, <2>1 DEF AppendLine, LiveLogsTypeOK
  <2>3. appended' \in 0 .. MaxAppended
    BY <1>1, LiveLogsAssumption DEF Lines
  <2>4. missed' \subseteq Viewers
    BY <1>2, <1>3 DEF LiveLogsTypeOK
  <2>5. QED
    BY <1>1, <1>2, <1>3, <2>2, <2>3, <2>4 DEF LiveLogsTypeOK
<1>5. ASSUME NEW v \in Viewers PROVE Page(v)'
  <2>1. Page(v) /\ reading[v] # "subscribing"
    BY <1>3 DEF LogsIInv, HubFree
  <2>2. CASE v \notin subs
    BY <1>1, <1>3, <2>1, <2>2 DEF Page
  <2>3. CASE v \in subs
    <3>1. PICK f, n, s : f = first[v] /\ n = appended /\ s = Owed(v)
      OBVIOUS
    <3>2. f \in Nat /\ s \in Seq(Lines) /\ Len(s) \in Nat
      BY <1>2, <3>1, PageSeqs, LenProperties, LiveLogsAssumption DEF LiveLogsTypeOK
    <3>3. /\ f <= n + 1 /\ Ordered(s, f, n) /\ (v \notin missed => Every(s, f, n)) /\ (v \in missed => Len(s) # 0)
          /\ reading[v] \in {"history", "live"} /\ (reading[v] = "live" => snapshot[v] = <<>>)
      BY <1>2, <2>1, <2>3, <3>1 DEF Page, LiveLogsTypeOK
    <3>4. Len(s) = 0 => f = n + 1
      BY <1>1, <3>1, <3>2, <3>3 DEF Every
    <3>5. CASE Full(v)
      <4>1. v \in missed' /\ Owed(v)' = s
        BY <1>3, <2>3, <3>1, <3>5 DEF Owed
      <4>2. Len(s) # 0
        <5>1. Len(channel[v]) > 0
          BY <3>5, <1>2, PageSeqs, LenProperties, LiveLogsAssumption DEF Full
        <5>2. QED
          <6>1. PICK a \in Nat, b \in Nat, c \in Nat :
                  a = Len(shown[v]) /\ b = Len(snapshot[v]) /\ c = Len(channel[v]) /\ Len(Owed(v)) = a + b + c
            BY <1>2, PageSeqs
          <6>2. c > 0
            BY <5>1, <6>1
          <6>3. a + b + c # 0
            BY <6>2
          <6>4. QED
            BY <3>1, <6>1, <6>3
      <4>3. Ordered(s, f, n + 1)
        <5>1. \A i \in 1 .. Len(s) : s[i] <= n + 1
          <6>1. \A i \in 1 .. Len(s) : s[i] \in Nat
            <7>1. \A i \in 1 .. Len(s) : s[i] \in Lines
              BY <3>2, ElementOfSeq
            <7>2. QED
              BY <7>1 DEF Lines
          <6>2. QED
            BY <1>1, <3>1, <3>3, <6>1 DEF Ordered
        <5>2. QED
          BY <3>3, <5>1 DEF Ordered
      <4>4. QED
        BY <1>1, <1>3, <2>3, <3>1, <3>2, <3>3, <4>1, <4>2, <4>3 DEF Page
    <3>6. CASE ~Full(v)
      <4>1. Owed(v)' = Append(s, n + 1)
        <5>1. PICK a, b, e : a = shown[v] \o snapshot[v] /\ b = channel[v] /\ e = n + 1
          OBVIOUS
        <5>2. a \in Seq(Lines) /\ b \in Seq(Lines) /\ e \in Lines
          BY <1>1, <1>2, <3>1, <5>1, PageSeqs
        <5>3. Append(a \o b, e) = a \o Append(b, e)
          BY <5>2, AddedLast
        <5>4. channel'[v] = Append(b, e)
          BY <1>3, <2>3, <3>1, <3>6, <5>1
        <5>5. QED
          BY <1>3, <3>1, <5>1, <5>3, <5>4 DEF Owed
      <4>2. PICK t : t = Append(s, n + 1)
        OBVIOUS
      <4>3. t \in Seq(Lines)
        BY <1>1, <3>1, <3>2, <4>2, AppendProperties
      <4>4. Ordered(t, f, n + 1) /\ (Every(s, f, n) => Every(t, f, n + 1)) /\ Len(t) = Len(s) + 1
        BY <1>1, <3>1, <3>2, <3>3, <3>4, <4>2, <4>3, LineAppended
      <4>5. v \in missed' <=> v \in missed
        BY <1>3, <3>6
      <4>6. QED
        BY <1>1, <1>3, <2>3, <3>1, <3>2, <3>3, <4>1, <4>2, <4>4, <4>5 DEF Page
    <3>7. QED
      BY <3>5, <3>6
  <2>4. QED
    BY <2>2, <2>3
<1>6. QED
  BY <1>1, <1>4, <1>5 DEF LogsIInv

\* One page moves: the other pages and the lines are left alone.
LEMMA OtherPages ==
  ASSUME NEW v \in Viewers, Page(v), UNCHANGED <<retained, appended>>,
         reading'[v] = reading[v], shown'[v] = shown[v], snapshot'[v] = snapshot[v], channel'[v] = channel[v],
         first'[v] = first[v], v \in subs' <=> v \in subs, v \in missed' <=> v \in missed
  PROVE  Page(v)'
<1>1. Owed(v)' = Owed(v)
  BY DEF Owed
<1>2. QED
  BY <1>1 DEF Page

LEMMA PageStep ==
  ASSUME LogsIInv, NEW v \in Viewers, Copy(v) \/ Register(v) \/ WriteHistory(v) \/ WriteLive(v) \/ Cancel(v)
  PROVE  LogsIInv'
<1>1. LiveLogsTypeOK /\ Page(v) /\ UNCHANGED <<retained, appended>>
  BY DEF LogsIInv, Copy, Register, WriteHistory, WriteLive, Cancel
<1>2. /\ shown[v] \in Seq(Lines) /\ snapshot[v] \in Seq(Lines) /\ channel[v] \in Seq(Lines)
      /\ shown[v] \o snapshot[v] \in Seq(Lines) /\ Owed(v) \in Seq(Lines)
  BY <1>1, PageSeqs
<1>3. retained \in Seq(Lines) /\ appended \in 0 .. MaxAppended /\ Len(retained) \in Nat /\ Len(retained) <= appended
      /\ Every(retained, appended - Len(retained) + 1, appended) /\ <<>> \in Seq(Lines)
  BY <1>1, LenProperties, EmptySeq DEF LogsIInv, LiveLogsTypeOK
<1>4. ASSUME LiveLogsTypeOK', Page(v)',
             \A w \in Viewers \ {v} : /\ reading'[w] = reading[w] /\ shown'[w] = shown[w] /\ snapshot'[w] = snapshot[w]
                                      /\ channel'[w] = channel[w] /\ first'[w] = first[w]
                                      /\ (w \in subs' <=> w \in subs) /\ (w \in missed' <=> w \in missed)
      PROVE  LogsIInv'
  BY <1>1, <1>4, OtherPages DEF LogsIInv
<1>5. CASE Copy(v)
  <2>1. LiveLogsTypeOK'
    BY <1>1, <1>3, <1>5, LiveLogsAssumption DEF Copy, LiveLogsTypeOK
  <2>2. Page(v)'
    BY <1>1, <1>5 DEF Copy, Page, LiveLogsTypeOK
  <2>3. QED
    BY <1>1, <1>4, <1>5, <2>1, <2>2 DEF Copy, LiveLogsTypeOK
<1>6. CASE Register(v)
  <2>1. LiveLogsTypeOK'
    BY <1>1, <1>6 DEF Register, LiveLogsTypeOK
  <2>2. Owed(v)' = retained
    BY <1>1, <1>3, <1>6, ConcatEmptySeq DEF Register, Page, Owed
  <2>3. Every(retained, first[v], appended) /\ first[v] <= appended + 1 /\ v \notin missed
    BY <1>1, <1>3, <1>6 DEF Register, Page
  <2>4. Ordered(retained, first[v], appended)
    BY <1>1, <1>3, <2>3, EveryIsOrdered, LiveLogsAssumption DEF LiveLogsTypeOK
  <2>5. Page(v)'
    BY <1>1, <1>6, <2>2, <2>3, <2>4 DEF Register, Page, LiveLogsTypeOK
  <2>6. QED
    BY <1>1, <1>4, <1>6, <2>1, <2>5 DEF Register, LiveLogsTypeOK
<1>7. CASE WriteHistory(v)
  <2>1. CASE snapshot[v] = <<>>
    <3>1. LiveLogsTypeOK' /\ Owed(v)' = Owed(v)
      BY <1>1, <1>7, <2>1 DEF WriteHistory, LiveLogsTypeOK, Owed
    <3>2. Page(v)'
      BY <1>1, <1>7, <2>1, <3>1 DEF WriteHistory, Page, LiveLogsTypeOK
    <3>3. QED
      BY <1>1, <1>4, <1>7, <2>1, <3>1, <3>2 DEF WriteHistory, LiveLogsTypeOK
  <2>2. CASE snapshot[v] # <<>>
    <3>1. PICK sh, sn : sh = Append(shown[v], Head(snapshot[v])) /\ sn = Tail(snapshot[v])
      OBVIOUS
    <3>2. sh \in Seq(Lines) /\ sn \in Seq(Lines) /\ sh \o sn = shown[v] \o snapshot[v]
      <4>1. PICK a, b : a = shown[v] /\ b = snapshot[v]
        OBVIOUS
      <4>2. a \in Seq(Lines) /\ b \in Seq(Lines) /\ b # <<>>
        BY <1>2, <2>2, <4>1
      <4>3. Append(a, Head(b)) \in Seq(Lines) /\ Tail(b) \in Seq(Lines) /\ Append(a, Head(b)) \o Tail(b) = a \o b
        BY <4>2, HeadMoved
      <4>4. QED
        BY <3>1, <4>1, <4>3
    <3>3. shown' = [shown EXCEPT ![v] = sh] /\ snapshot' = [snapshot EXCEPT ![v] = sn]
          /\ UNCHANGED <<reading, subs, channel, first, missed>> /\ reading[v] = "history"
      BY <1>7, <2>2, <3>1 DEF WriteHistory
    <3>4. LiveLogsTypeOK'
      BY <1>1, <3>2, <3>3 DEF LiveLogsTypeOK
    <3>5. shown'[v] = sh /\ snapshot'[v] = sn
      BY <1>1, <3>3 DEF LiveLogsTypeOK
    <3>6. Owed(v)' = Owed(v)
      BY <3>2, <3>3, <3>5 DEF Owed
    <3>7. Page(v)'
      BY <1>1, <3>3, <3>5, <3>6 DEF Page
    <3>8. QED
      BY <1>1, <1>4, <3>3, <3>4, <3>7 DEF LiveLogsTypeOK
  <2>3. QED
    BY <2>1, <2>2
<1>8. CASE WriteLive(v)
  <2>1. PICK sh, ch : sh = Append(shown[v], Head(channel[v])) /\ ch = Tail(channel[v])
    OBVIOUS
  <2>2. snapshot[v] = <<>> /\ channel[v] # <<>> /\ reading[v] = "live"
    BY <1>1, <1>8 DEF WriteLive, Page
  <2>3. sh \in Seq(Lines) /\ ch \in Seq(Lines) /\ sh \o ch = shown[v] \o channel[v]
    <3>1. PICK a, b : a = shown[v] /\ b = channel[v]
      OBVIOUS
    <3>2. a \in Seq(Lines) /\ b \in Seq(Lines) /\ b # <<>>
      BY <1>2, <2>2, <3>1
    <3>3. Append(a, Head(b)) \in Seq(Lines) /\ Tail(b) \in Seq(Lines) /\ Append(a, Head(b)) \o Tail(b) = a \o b
      BY <3>2, HeadMoved
    <3>4. QED
      BY <2>1, <3>1, <3>3
  <2>4. shown' = [shown EXCEPT ![v] = sh] /\ channel' = [channel EXCEPT ![v] = ch]
        /\ UNCHANGED <<reading, subs, snapshot, first, missed>>
    BY <1>8, <2>1 DEF WriteLive
  <2>5. LiveLogsTypeOK'
    BY <1>1, <2>3, <2>4 DEF LiveLogsTypeOK
  <2>6. shown'[v] = sh /\ channel'[v] = ch
    BY <1>1, <2>4 DEF LiveLogsTypeOK
  <2>7. Owed(v) = shown[v] \o channel[v] /\ Owed(v)' = sh \o ch
    BY <1>2, <2>2, <2>3, <2>4, <2>6, ConcatEmptySeq DEF Owed
  <2>8. Page(v)'
    BY <1>1, <2>2, <2>3, <2>4, <2>6, <2>7 DEF Page
  <2>9. QED
    BY <1>1, <1>4, <2>4, <2>5, <2>8 DEF LiveLogsTypeOK
<1>9. CASE Cancel(v)
  <2>1. LiveLogsTypeOK'
    BY <1>1, <1>3, <1>9, LiveLogsAssumption DEF Cancel, LiveLogsTypeOK
  <2>2. snapshot[v] = <<>>
    BY <1>1, <1>9 DEF Cancel, Page
  <2>3. Page(v)'
    BY <1>1, <1>9, <2>2 DEF Cancel, Page, LiveLogsTypeOK
  <2>4. QED
    BY <1>1, <1>4, <1>9, <2>1, <2>3 DEF Cancel, LiveLogsTypeOK
<1>10. QED
  BY <1>5, <1>6, <1>7, <1>8, <1>9

LEMMA LogsStep == LogsIInv /\ [LogsNext]_logVars => LogsIInv'
<1> SUFFICES ASSUME LogsIInv, [LogsNext]_logVars PROVE LogsIInv'
  OBVIOUS
<1>1. CASE LogsNext
  BY <1>1, AppendStep, PageStep DEF LogsNext
<1>2. CASE UNCHANGED logVars
  BY <1>2, OtherPages DEF logVars, viewerVars, LogsIInv, LiveLogsTypeOK
<1>3. QED
  BY <1>1, <1>2

LEMMA LogsIImplies == LogsIInv => LiveLogsInv
<1> SUFFICES ASSUME LogsIInv PROVE LiveLogsInv
  OBVIOUS
<1>1. LiveLogsTypeOK
  BY DEF LogsIInv
<1>2. \A s \in Seq(Lines) : /\ Len(s) \in Nat /\ DOMAIN s = 1 .. Len(s) /\ s \in [1 .. Len(s) -> Lines]
  BY LenProperties
<1>3. retained = [i \in 1 .. Len(retained) |-> appended - Len(retained) + i]
  <2>1. \A i \in 1 .. Len(retained) : retained[i] = appended - Len(retained) + i
    BY <1>1, <1>2 DEF LogsIInv, Every, LiveLogsTypeOK
  <2>2. QED
    BY <1>1, <1>2, <2>1 DEF LiveLogsTypeOK
<1>4. ASSUME NEW v \in subs
      PROVE  /\ \A i, j \in DOMAIN Owed(v) : i < j => Owed(v)[i] < Owed(v)[j]
             /\ Owed(v) # <<>> => Head(Owed(v)) = first[v]
             /\ v \notin missed => Owed(v) = [i \in 1 .. appended - first[v] + 1 |-> first[v] + i - 1]
  <2>1. PICK s, f : s = Owed(v) /\ f = first[v]
    OBVIOUS
  <2>2. v \in Viewers /\ s \in Seq(Lines) /\ Ordered(s, f, appended) /\ (v \notin missed => Every(s, f, appended))
    BY <1>1, <2>1, PageSeqs DEF LogsIInv, Page, LiveLogsTypeOK
  <2>3. \A i, j \in DOMAIN s : i < j => s[i] < s[j]
    BY <1>2, <2>2 DEF Ordered
  <2>4. s # <<>> => Head(s) = f
    <3>1. s # <<>> => Len(s) \in Nat \ {0}
      BY <2>2, EmptySeq
    <3>2. QED
      BY <2>2, <3>1 DEF Ordered
  <2>5. v \notin missed => s = [i \in 1 .. appended - f + 1 |-> f + i - 1]
    BY <1>2, <2>2 DEF Every
  <2>6. QED
    BY <2>1, <2>3, <2>4, <2>5
<1>5. QED
  BY <1>1, <1>3, <1>4 DEF LiveLogsInv

\* LiveLogsInv, for any viewers, history and buffer: a page shows the lines of
\* Hub.Append in order, none twice, from the oldest one that Subscribe copied,
\* and all of them as long as its channel was never full.
THEOREM PagesShowEveryLine == LogsSpec => []LiveLogsInv
BY LogsIImplies, LogsStart, LogsStep, PTL DEF LogsSpec


-----------------------------------------------------------------------------
(* SmppEgress: the sessions of the group in service and of earlier ones.   *)

\* The sessions in service are alive, and none of them cancelled.
InService == current # None /\ ~down => \A s \in Of(current) : pc[s] \notin Gone /\ s \notin cancelled

\* A session that is not the current group's, and was neither binding nor yet
\* to begin when its group was stopped, holds nothing and is cancelled or gone.
Outdated(s) == s \notin Members /\ s \notin passing /\ s \notin unborn

LeftBehind == \A s \in Sessions : Outdated(s) =>
  s \notin conn /\ (pc[s] \in Gone \/ (pc[s] \in {"asleep", "up", "watch"} /\ s \in cancelled))

EgressIInv == TypeOK /\ InService /\ LeftBehind

LEMMA SessionShape == \A s \in Sessions : s[1] \in Groups
BY DEF Sessions

LEMMA StatusKind == \A s, set : aggregateStatus(s, set) \in {"up", "down"}
BY DEF aggregateStatus

LEMMA NoneIsNoStatus == None # "up" /\ None # "down"
BY DEF None

LEMMA EgressStart == Init => EgressIInv
<1> SUFFICES ASSUME Init PROVE EgressIInv
  OBVIOUS
<1>1. TypeOK
  <2>1. /\ row \in Counts /\ stored \in {"disabled", "up", "down"} /\ current \in Groups \cup {None}
        /\ size \in [Groups -> Counts] /\ down \in BOOLEAN
    BY SmppEgressAssumption DEF Init
  <2>2. rpc \in [Refreshers -> {"idle", "list", "apply"}] /\ seen \in [Refreshers -> Counts] /\ events \in 0 .. MaxEvents
    BY SmppEgressAssumption DEF Init
  <2>3. /\ pc \in [Sessions -> {"none", "spawned", "asleep", "bind", "up", "watch", "ended"}]
        /\ tell \in [Sessions -> {None, "up", "down"}]
    BY DEF Init
  <2>4. /\ cancelled \subseteq Sessions /\ conn \subseteq Sessions /\ ready \subseteq Sessions
        /\ unborn \subseteq Sessions /\ passing \subseteq Sessions
    BY DEF Init
  <2>5. QED
    BY <2>1, <2>2, <2>3, <2>4 DEF TypeOK
<1>2. InService /\ LeftBehind
  BY DEF Init, InService, LeftBehind, Gone
<1>3. QED
  BY <1>1, <1>2 DEF EgressIInv

\* A goroutine goes on: what it moves to, and what it has to tell.
LEMMA SessionMoves ==
  ASSUME EgressIInv, NEW s \in Sessions, NEW l \in {"asleep", "bind", "up", "watch", "ended"},
         NEW t \in {None, "up", "down"}, Move(s, l, t), UNCHANGED cancelled,
         conn' \subseteq Sessions, ready' \subseteq Sessions,
         l = "ended" => Done(s),
         conn' \subseteq conn \cup {s}, Outdated(s) => s \notin conn',
         Outdated(s) => l \in {"ended", "asleep", "up", "watch"},
         Outdated(s) /\ l # "ended" => pc[s] \notin Gone
  PROVE  EgressIInv'
<1>1. TypeOK /\ InService /\ LeftBehind
  BY DEF EgressIInv
<1>2. UNCHANGED <<row, stored, current, size, down, rpc, seen, events, unborn, passing>>
      /\ pc' = [pc EXCEPT ![s] = l] /\ tell' = [tell EXCEPT ![s] = t]
  BY DEF Move, manager, refreshes, history
<1>3. /\ pc'[s] = l /\ \A o \in Sessions \ {s} : pc'[o] = pc[o]
      /\ pc' \in [Sessions -> {"none", "spawned", "asleep", "bind", "up", "watch", "ended"}]
      /\ tell' \in [Sessions -> {None, "up", "down"}]
  BY <1>1, <1>2 DEF TypeOK
<1>4. TypeOK'
  BY <1>1, <1>2, <1>3 DEF TypeOK
<1>5. (\A g : Of(g)' = Of(g)) /\ Members' = Members
  BY <1>2 DEF Of, Members
<1>6. \A o \in Sessions : Outdated(o)' <=> Outdated(o)
  BY <1>2, <1>5 DEF Outdated
<1>7. InService'
  <2> SUFFICES ASSUME current # None, ~down, NEW o \in Of(current) PROVE pc'[o] \notin Gone /\ o \notin cancelled
    BY <1>2, <1>5 DEF InService
  <2>1. pc[o] \notin Gone /\ o \notin cancelled /\ o \in Sessions
    BY <1>1 DEF InService, Of
  <2>2. o = s => l # "ended"
    BY <2>1 DEF Done
  <2>3. QED
    BY <1>3, <2>1, <2>2 DEF Gone
<1>8. LeftBehind'
  BY <1>1, <1>3, <1>6 DEF LeftBehind, Gone
<1>9. QED
  BY <1>4, <1>7, <1>8 DEF EgressIInv

LEMMA SessionStepKeeps ==
  ASSUME EgressIInv, NEW s \in Sessions, SessionStep(s) \/ Lose(s)
  PROVE  EgressIInv'
<1> USE NoneIsNoStatus, StatusKind
<1>1. TypeOK /\ LeftBehind /\ conn \subseteq Sessions /\ ready \subseteq Sessions /\ pc[s] \in
        {"none", "spawned", "asleep", "bind", "up", "watch", "ended"}
  BY DEF EgressIInv, TypeOK
<1>2. Outdated(s) => /\ s \notin conn /\ pc[s] # "spawned" /\ pc[s] # "bind"
                     /\ pc[s] \notin Gone => s \in cancelled
  BY <1>1 DEF LeftBehind, Gone
<1>3. CASE Begin(s)
  BY <1>1, <1>2, <1>3, SessionMoves DEF Begin, At
<1>4. CASE Return(s)
  BY <1>1, <1>2, <1>4, SessionMoves DEF Return, At
<1>5. CASE Attempt(s)
  <2>1. ~Outdated(s)
    BY <1>2, <1>5 DEF Attempt, At, Done, Gone
  <2>2. QED
    BY <1>1, <1>5, <2>1, SessionMoves DEF Attempt
<1>6. CASE BindSucceeds(s)
  <2>1. ~Outdated(s)
    BY <1>2, <1>6 DEF BindSucceeds, At
  <2>2. QED
    BY <1>1, <1>6, <2>1, SessionMoves DEF BindSucceeds
<1>7. CASE BindFails(s)
  <2>1. ~Outdated(s)
    BY <1>2, <1>7 DEF BindFails, At
  <2>2. QED
    BY <1>1, <1>7, <2>1, SessionMoves DEF BindFails
<1>8. CASE SetReady(s)
  BY <1>1, <1>2, <1>8, SessionMoves DEF SetReady, At, Gone
<1>9. CASE Lose(s)
  BY <1>1, <1>2, <1>9, SessionMoves DEF Lose, At, Gone
<1>10. CASE Leave(s)
  BY <1>1, <1>2, <1>10, SessionMoves DEF Leave, At
<1>11. CASE Store(s)
  <2>1. TypeOK'
    BY <1>1, <1>11 DEF Store, TypeOK, manager, refreshes, history
  <2>2. UNCHANGED <<current, size, down, pc, cancelled, conn, unborn, passing>>
    BY <1>11 DEF Store, manager, history
  <2>3. InService' /\ LeftBehind'
    BY <2>2 DEF EgressIInv, InService, LeftBehind, Outdated, Members, Of
  <2>4. QED
    BY <2>1, <2>3 DEF EgressIInv
<1>12. QED
  BY <1>3, <1>4, <1>5, <1>6, <1>7, <1>8, <1>9, <1>10, <1>11 DEF SessionStep

\* The current group is stopped and no other takes its place.
LEMMA GroupStops ==
  ASSUME EgressIInv, Stopped(Members), current' = None, UNCHANGED <<size, pc, ready, tell>>,
         row' \in Counts, stored' \in {"disabled", "up", "down"}, down' \in BOOLEAN,
         rpc' \in [Refreshers -> {"idle", "list", "apply"}], seen' \in [Refreshers -> Counts], events' \in 0 .. MaxEvents
  PROVE  EgressIInv'
<1>1. TypeOK /\ LeftBehind /\ Members \subseteq Sessions
  BY DEF EgressIInv, Members, Of
<1>2. /\ cancelled' = cancelled \cup {s \in Members : pc[s] # "spawned"} /\ conn' = conn \ Members
      /\ unborn' = unborn \cup {s \in Members : pc[s] = "spawned"}
      /\ passing' = passing \cup {s \in Members : pc[s] = "bind"}
  BY DEF Stopped, Cancelled, Closed, Unborn, Passing
<1>3. TypeOK'
  BY <1>1, <1>2 DEF TypeOK
<1>4. Members' = {}
  BY DEF Members
<1>5. InService'
  BY DEF InService
<1>6. ASSUME NEW s \in Sessions, Outdated(s)'
      PROVE  s \notin conn' /\ (pc'[s] \in Gone \/ (pc'[s] \in {"asleep", "up", "watch"} /\ s \in cancelled'))
  <2>1. s \notin passing /\ s \notin unborn /\ (s \in Members => pc[s] # "spawned" /\ pc[s] # "bind")
    BY <1>2, <1>6 DEF Outdated
  <2>2. CASE s \in Members
    <3>1. pc[s] \in {"none", "asleep", "up", "watch", "ended"}
      BY <1>1, <2>1, <2>2 DEF TypeOK
    <3>2. QED
      BY <1>2, <2>1, <2>2, <3>1 DEF Gone
  <2>3. CASE s \notin Members
    BY <1>1, <1>2, <2>1, <2>3 DEF LeftBehind, Outdated
  <2>4. QED
    BY <2>2, <2>3
<1>7. QED
  BY <1>3, <1>5, <1>6 DEF EgressIInv, LeftBehind

\* The current group is stopped and a vacant one takes its place.
LEMMA GroupReplaced ==
  ASSUME EgressIInv, NEW r \in Refreshers, NEW g \in Groups, Replace(r, g)
  PROVE  EgressIInv'
<1>1. TypeOK /\ LeftBehind /\ Members \subseteq Sessions /\ (current # None => Members = Of(current))
  BY DEF EgressIInv, Members, Of
<1>2. PICK n : n = seen[r] /\ n \in Counts
  BY <1>1 DEF TypeOK
<1>3. /\ current' = g /\ g # current /\ size' = [size EXCEPT ![g] = n]
      /\ pc' = [s \in Sessions |-> IF s[1] # g THEN pc[s] ELSE IF s[2] <= n THEN "spawned" ELSE "none"]
      /\ UNCHANGED <<row, stored, down, tell, events>>
      /\ rpc' = [rpc EXCEPT ![r] = "idle"] /\ seen' = [seen EXCEPT ![r] = 0]
      /\ ready' = {s \in ready : s[1] # g}
  BY <1>2 DEF Replace, StartGroup, Vacant, Goto, Fresh
<1>4. /\ cancelled' = {s \in cancelled \cup {o \in Members : pc[o] # "spawned"} : s[1] # g}
      /\ conn' = {s \in conn \ Members : s[1] # g}
      /\ unborn' = {s \in unborn \cup {o \in Members : pc[o] = "spawned"} : s[1] # g}
      /\ passing' = {s \in passing \cup {o \in Members : pc[o] = "bind"} : s[1] # g}
  BY DEF Replace, Fresh, Cancelled, Closed, Unborn, Passing
<1>5. TypeOK'
  <2>1. pc' \in [Sessions -> {"none", "spawned", "asleep", "bind", "up", "watch", "ended"}]
    BY <1>1, <1>3 DEF TypeOK
  <2>2. cancelled' \subseteq Sessions /\ conn' \subseteq Sessions /\ unborn' \subseteq Sessions
        /\ passing' \subseteq Sessions /\ ready' \subseteq Sessions
    BY <1>1, <1>3, <1>4 DEF TypeOK
  <2>3. size' \in [Groups -> Counts] /\ rpc' \in [Refreshers -> {"idle", "list", "apply"}] /\ seen' \in [Refreshers -> Counts]
    BY <1>1, <1>2, <1>3, SmppEgressAssumption DEF TypeOK
  <2>4. QED
    BY <1>1, <1>3, <2>1, <2>2, <2>3 DEF TypeOK
<1>6. Of(g)' = {s \in Sessions : s[1] = g /\ s[2] <= n} /\ (current' # None => Members' = Of(g)')
  BY <1>1, <1>3 DEF Of, Members, TypeOK
<1>7. InService'
  BY <1>3, <1>4, <1>6 DEF InService, Gone
<1>8. \A s \in Members : s[1] # g
  BY <1>3 DEF Members, Of
<1>9. ASSUME NEW s \in Sessions, Outdated(s)'
      PROVE  s \notin conn' /\ (pc'[s] \in Gone \/ (pc'[s] \in {"asleep", "up", "watch"} /\ s \in cancelled'))
  <2>1. CASE s[1] = g
    <3>1. Members' = {o \in Sessions : o[1] = g /\ o[2] <= n}
      BY <1>3, <1>6, SmppEgressAssumption
    <3>2. ~(s[2] <= n)
      BY <1>9, <2>1, <3>1 DEF Outdated
    <3>3. pc'[s] = "none" /\ s \notin conn'
      BY <1>3, <1>4, <2>1, <3>2
    <3>4. QED
      BY <3>3 DEF Gone
  <2>2. CASE s[1] # g
    <3>1. pc'[s] = pc[s] /\ s \notin passing /\ s \notin unborn /\ (s \in Members => pc[s] # "spawned" /\ pc[s] # "bind")
      BY <1>3, <1>4, <1>9, <2>2 DEF Outdated
    <3>2. CASE s \in Members
      <4>1. pc[s] \in {"none", "asleep", "up", "watch", "ended"}
        BY <1>1, <3>1, <3>2 DEF TypeOK
      <4>2. QED
        BY <1>4, <2>2, <3>1, <3>2, <4>1 DEF Gone
    <3>3. CASE s \notin Members
      BY <1>1, <1>4, <2>2, <3>1, <3>3 DEF LeftBehind, Outdated
    <3>4. QED
      BY <3>2, <3>3
  <2>3. QED
    BY <2>1, <2>2
<1>10. QED
  BY <1>5, <1>7, <1>9 DEF EgressIInv, LeftBehind

LEMMA EgressStep == EgressIInv /\ [Next]_vars => EgressIInv'
<1> SUFFICES ASSUME EgressIInv, [Next]_vars PROVE EgressIInv'
  OBVIOUS
<1>1. TypeOK
  BY DEF EgressIInv
<1>2. ASSUME TypeOK', UNCHANGED <<current, size, down, pc, cancelled, conn, unborn, passing>>
      PROVE  EgressIInv'
  BY <1>2 DEF EgressIInv, InService, LeftBehind, Outdated, Members, Of
<1>3. Happens => events' \in 0 .. MaxEvents
  BY <1>1, SmppEgressAssumption DEF Happens, TypeOK
<1>4. ASSUME NEW n \in Counts, Edit(n) PROVE EgressIInv'
  BY <1>1, <1>2, <1>3, <1>4 DEF Edit, TypeOK, manager, refreshes, sessions, history
<1>5. ASSUME NEW a \in Admins, Restart(a) PROVE EgressIInv'
  <2>1. rpc' \in [Refreshers -> {"idle", "list", "apply"}]
    BY <1>1, <1>5 DEF Restart, Goto, TypeOK, Refreshers
  <2>2. QED
    BY <1>1, <1>3, <1>5, <2>1, GroupStops DEF Restart, TypeOK
<1>6. CASE Tick
  BY <1>1, <1>2, <1>6 DEF Tick, Goto, TypeOK, Refreshers, manager, sessions, history
<1>7. CASE Stop
  BY <1>1, <1>7, GroupStops DEF Stop, TypeOK, refreshes
<1>8. ASSUME NEW r \in Refreshers, RefreshStep(r) PROVE EgressIInv'
  <2>1. CASE List(r) \/ ListFails(r) \/ DecryptFails(r) \/ Keep(r)
    BY <1>1, <1>2, <1>3, <2>1, SmppEgressAssumption
       DEF List, ListFails, DecryptFails, Keep, Goto, TypeOK, manager, sessions, history
  <2>2. CASE Drop(r)
    BY <1>1, <2>2, GroupStops DEF Drop, Goto, TypeOK
  <2>3. QED
    BY <1>8, <2>1, <2>2, GroupReplaced DEF RefreshStep
<1>9. CASE UNCHANGED vars
  BY <1>1, <1>2, <1>9 DEF vars, TypeOK, manager, refreshes, sessions, history
<1>10. QED
  BY <1>4, <1>5, <1>6, <1>7, <1>8, <1>9, SessionStepKeeps DEF Next

\* EgressInv, for any groups, bind counts and operators: however refreshes and
\* restarts of the Manager overlap, the group in service has all its sessions,
\* and no other session holds a bind but those sessionGroup.stop found binding
\* or not begun.
THEOREM ServiceKept == Spec => []EgressInv
<1>1. EgressIInv => EgressInv
  <2> SUFFICES ASSUME EgressIInv PROVE EgressInv
    OBVIOUS
  <2>1. TypeOK /\ InService /\ LeftBehind /\ conn \subseteq Sessions
    BY DEF EgressIInv, TypeOK
  <2>2. \A s \in conn : s \in Members \/ s \in passing \cup unborn
    BY <2>1 DEF LeftBehind, Outdated
  <2>3. QED
    BY <2>1, <2>2 DEF EgressInv, InService, Members
<1>2. QED
  BY <1>1, EgressStart, EgressStep, PTL DEF Spec

-----------------------------------------------------------------------------
(* WireLog: the lines that remain, and the files they are in.              *)

\* The line in hand is newer than all that were written.
NewestInHand ==
  /\ at # "rest" => line.no = emitted
  /\ \A l \in written : l.no <= emitted /\ (at # "rest" => l.no < emitted)

Kept == \A o \in Line : OnDisk(o) => o \in written

DropsOldest == \A l \in Dropped : \A o \in Line : OnDisk(o) => l.no < o.no

FilesFit == \A g \in DOMAIN disk : Len(disk[g].lines) > 1 => disk[g].bytes <= MaxBytes

FullBeforeDrop == Dropped # {} => DOMAIN disk \cup {Hole} = Generations

\* An open handle is the current file's.
HandleInv ==
  /\ handle => Current \in DOMAIN disk
  /\ at \in {"fit", "write"} => handle
  /\ at \in {"open", "remove", "rename", "reopen"} => ~handle
  /\ at = "remove" => Current \in DOMAIN disk
  /\ at = "rename" => from < MaxFiles

\* No file failed to be moved: where the next one goes there is none.
SoundInv ==
  /\ handle => filled = disk[Current].bytes
  /\ at \in {"rename", "reopen"} => Hole \notin DOMAIN disk
  /\ at = "write" => disk[Current].lines = <<>> \/ disk[Current].bytes + line.size <= MaxBytes

\* Below a generation there are all others but the hole.
Contiguous == \A g \in DOMAIN disk : \A o \in 0 .. g : o \in DOMAIN disk \/ o = Hole

FilesInv == ~failed => DropsOldest /\ FilesFit /\ SoundInv /\ (~cut => FullBeforeDrop /\ Contiguous)

WireIInv == WireTypeOK /\ InOrder /\ Kept /\ NewestInHand /\ HandleInv /\ FilesInv

LEMMA CurrentIsOne == Current \in Generations /\ MaxFiles \in Generations /\ Generations \subseteq Nat
BY WireLogAssumption DEF Generations, Current

LEMMA WireStart == WireInit => WireIInv
<1> SUFFICES ASSUME WireInit PROVE WireIInv
  OBVIOUS
<1>1. NoLine \in Line
  BY WireLogAssumption DEF NoLine, Line
<1>3. DOMAIN disk = {} /\ Dropped = {}
  BY DEF WireInit, Dropped
<1>a. 0 \in 0 .. MaxLines
  BY WireLogAssumption
<1>2. WireTypeOK
  BY <1>1, <1>3, <1>a, CurrentIsOne DEF WireInit, WireTypeOK
<1>4. InOrder /\ Kept /\ NewestInHand /\ HandleInv
  BY <1>3 DEF WireInit, InOrder, Kept, OnDisk, NewestInHand, HandleInv
<1>5. FilesInv
  BY <1>3 DEF WireInit, FilesInv, DropsOldest, FilesFit, SoundInv, FullBeforeDrop, Contiguous
<1>6. QED
  BY <1>2, <1>4, <1>5 DEF WireIInv

\* The step moves no line.
LEMMA DiskStays ==
  ASSUME WireIInv, WireTypeOK', UNCHANGED <<disk, written>>, NewestInHand', HandleInv',
         ~failed' => SoundInv', ~failed' => ~failed, ~cut' => ~cut,
         ~failed' /\ ~cut' /\ ~failed /\ ~cut => Hole' = Hole
  PROVE  WireIInv'
<1>1. InOrder' /\ Kept' /\ (\A o : OnDisk(o)' <=> OnDisk(o)) /\ Dropped' = Dropped
  BY DEF WireIInv, InOrder, Kept, OnDisk, Dropped
<1>2. FilesInv'
  BY <1>1 DEF WireIInv, FilesInv, DropsOldest, FilesFit, FullBeforeDrop, Contiguous, OnDisk
<1>3. QED
  BY <1>1, <1>2 DEF WireIInv

LEMMA LineTypes == \A l \in Line : l.no \in 1 .. MaxLines /\ l.size \in Nat
BY WireLogAssumption DEF Line

LEMMA EmitKeeps == ASSUME WireIInv, NEW s \in Sizes, Emit(s) PROVE WireIInv'
<1>1. WireTypeOK /\ emitted' = emitted + 1 /\ line' = [no |-> emitted + 1, size |-> s] /\ emitted < MaxLines
      /\ UNCHANGED <<disk, written, failed, cut, handle, filled, from>> /\ at = "rest"
      /\ at' = IF handle THEN "fit" ELSE "open"
  BY DEF Emit, WireIInv
<1>2. line' \in Line /\ emitted' \in 0 .. MaxLines
  BY <1>1, WireLogAssumption DEF Line, WireTypeOK
<1>3. WireTypeOK'
  BY <1>1, <1>2 DEF WireTypeOK
<1>4. \A l \in written : l.no < emitted'
  BY <1>1, LineTypes DEF WireIInv, NewestInHand, WireTypeOK
<1>5. NewestInHand'
  BY <1>1, <1>4, LineTypes DEF NewestInHand, WireTypeOK
<1>6. HandleInv' /\ (~failed => SoundInv')
  BY <1>1 DEF WireIInv, HandleInv, FilesInv, SoundInv
<1>7. Hole' = Hole
  BY <1>1 DEF Hole
<1>8. QED
  BY <1>1, <1>3, <1>5, <1>6, <1>7, DiskStays

LEMMA RestKeeps == ASSUME WireIInv, OpenFails \/ WriteFails \/ RestartLog PROVE WireIInv'
<1>1. WireTypeOK /\ NoLine \in Line
  BY WireLogAssumption DEF WireIInv, NoLine, Line
<1>2. at' = "rest" /\ line' = NoLine /\ UNCHANGED <<disk, written, emitted, failed>>
      /\ (handle' = handle \/ handle' = FALSE) /\ filled' \in {filled, 0} /\ from' \in {from, Current}
      /\ cut' \in BOOLEAN
  BY <1>1 DEF OpenFails, WriteFails, RestartLog, Rest, WireTypeOK
<1>3. WireTypeOK'
  <2>1. filled' \in Nat
    BY <1>1, <1>2 DEF WireTypeOK
  <2>2. from' \in Generations
    BY <1>1, <1>2, CurrentIsOne DEF WireTypeOK
  <2>3. handle' \in BOOLEAN
    BY <1>1, <1>2 DEF WireTypeOK
  <2>4. QED
    BY <1>1, <1>2, <2>1, <2>2, <2>3 DEF WireTypeOK
<1>4. NewestInHand'
  BY <1>2 DEF WireIInv, NewestInHand
<1>5. HandleInv' /\ (~failed => SoundInv')
  BY <1>2 DEF WireIInv, HandleInv, FilesInv, SoundInv, OpenFails, WriteFails, RestartLog
<1>6. ~cut' => ~cut /\ Hole' = Hole
  BY <1>2 DEF Hole, OpenFails, WriteFails, RestartLog
<1>7. QED
  BY <1>2, <1>3, <1>4, <1>5, <1>6, DiskStays

LEMMA FitKeeps == ASSUME WireIInv, Fit PROVE WireIInv'
<1>1. WireTypeOK /\ WireTypeOK'
  BY DEF WireIInv, WireTypeOK, Fit
<1>2. NewestInHand' /\ HandleInv' /\ Hole' = Hole
  BY DEF WireIInv, NewestInHand, HandleInv, Fit, Hole
<1>3. ~failed => SoundInv'
  <2> SUFFICES ASSUME ~failed PROVE SoundInv'
    OBVIOUS
  <2>1. handle /\ filled = disk[Current].bytes
    BY DEF WireIInv, HandleInv, FilesInv, SoundInv, Fit
  <2>2. CASE filled + line.size > MaxBytes
    BY <2>2 DEF SoundInv, Fit
  <2>3. CASE ~(filled + line.size > MaxBytes)
    BY <1>1, <2>1, <2>3, WireLogAssumption, LineTypes DEF SoundInv, Fit, WireTypeOK
  <2>4. QED
    BY <2>2, <2>3
<1>4. QED
  BY <1>1, <1>2, <1>3, DiskStays DEF Fit

LEMMA OpenKeeps == ASSUME WireIInv, Open \/ OpenUnsized PROVE WireIInv'
<1>1. WireTypeOK /\ InOrder /\ Kept /\ NewestInHand /\ HandleInv /\ FilesInv
  BY DEF WireIInv
<1>2. /\ at \in {"open", "reopen"} /\ at' = IF at = "open" THEN "fit" ELSE "write"
      /\ UNCHANGED <<from, line, written, emitted, cut>> /\ handle' = TRUE
      /\ (~failed' => ~failed /\ filled' = disk'[Current].bytes)
  BY DEF Open, OpenUnsized, Opened
<1>3. /\ DOMAIN disk' = DOMAIN disk \cup {Current}
      /\ \A g \in DOMAIN disk : disk'[g] = disk[g]
      /\ Current \notin DOMAIN disk => disk'[Current] = NewFile
  BY DEF Open, OpenUnsized, Opened
<1>4. NewFile \in File /\ NewFile.lines = <<>> /\ Len(NewFile.lines) = 0
  BY DEF NewFile, File
<1>5. \A g \in DOMAIN disk' : disk'[g] \in File /\ (g \in DOMAIN disk \/ Len(disk'[g].lines) = 0)
  BY <1>1, <1>3, <1>4 DEF WireTypeOK
<1>6. WireTypeOK'
  <2>1. disk'[Current] \in File
    BY <1>3, <1>5
  <2>2. filled' \in Nat
    BY <1>1, <2>1 DEF File, WireTypeOK, Open, OpenUnsized
  <2>3. failed' \in BOOLEAN
    BY <1>1 DEF WireTypeOK, Open, OpenUnsized
  <2>4. QED
    BY <1>1, <1>2, <1>3, <1>5, <2>2, <2>3, CurrentIsOne DEF WireTypeOK
<1>7. (\A o : OnDisk(o)' <=> OnDisk(o)) /\ Dropped' = Dropped
  <2>1. ASSUME NEW o PROVE OnDisk(o)' <=> OnDisk(o)
    BY <1>3, <1>5 DEF OnDisk
  <2>2. QED
    BY <1>2, <2>1 DEF Dropped
<1>8. InOrder'
  BY <1>1, <1>3, <1>5 DEF InOrder
<1>9. Kept' /\ NewestInHand' /\ HandleInv'
  BY <1>1, <1>2, <1>3, <1>7 DEF Kept, NewestInHand, HandleInv
<1>10. FilesInv'
  <2> SUFFICES ASSUME ~failed' PROVE DropsOldest' /\ FilesFit' /\ SoundInv' /\ (~cut => FullBeforeDrop' /\ Contiguous')
    BY <1>2 DEF FilesInv
  <2>1. ~failed /\ DropsOldest /\ FilesFit /\ SoundInv /\ (~cut => FullBeforeDrop /\ Contiguous)
    BY <1>1, <1>2 DEF FilesInv
  <2>2. DropsOldest'
    BY <1>7, <2>1 DEF DropsOldest
  <2>3. FilesFit'
    BY <1>3, <1>5, <2>1 DEF FilesFit
  <2>4. Hole = Current /\ Hole' = Current
    BY <1>2 DEF Hole
  <2>5. SoundInv'
    BY <1>2, <1>3, <1>4, <2>1, <2>4 DEF SoundInv
  <2>6. ~cut => FullBeforeDrop'
    BY <1>3, <1>7, <2>1, <2>4 DEF FullBeforeDrop
  <2>a. ASSUME ~cut, NEW g \in DOMAIN disk', NEW o \in 0 .. g PROVE o \in DOMAIN disk' \/ o = Hole'
    <3>1. CASE g \in DOMAIN disk
      BY <1>3, <2>1, <2>4, <2>a, <3>1 DEF Contiguous
    <3>2. CASE g \notin DOMAIN disk
      BY <1>3, <2>4, <2>a, <3>2 DEF Current
    <3>3. QED
      BY <3>1, <3>2
  <2>7. QED
    BY <2>2, <2>3, <2>5, <2>6, <2>a DEF Contiguous
<1>11. QED
  BY <1>6, <1>8, <1>9, <1>10 DEF WireIInv

\* Files may go or move towards the older generations, as long as they keep
\* their order.
LEMMA LinesLeft ==
  ASSUME WireIInv, NEW was, DOMAIN was = DOMAIN disk',
         \A g \in DOMAIN disk' : was[g] \in DOMAIN disk /\ disk'[g] = disk[was[g]],
         \A g, h \in DOMAIN disk' : g > h => was[g] > was[h],
         UNCHANGED written
  PROVE  InOrder' /\ Kept' /\ (\A o : OnDisk(o)' => OnDisk(o)) /\ (FilesFit => FilesFit')
<1>1. InOrder'
  BY DEF WireIInv, InOrder
<1>2. \A o : OnDisk(o)' => OnDisk(o)
  BY DEF OnDisk
<1>3. Kept'
  BY <1>2 DEF WireIInv, Kept
<1>4. FilesFit => FilesFit'
  BY DEF FilesFit
<1>5. QED
  BY <1>1, <1>2, <1>3, <1>4

LEMMA RemoveKeeps == ASSUME WireIInv, RemoveOldest PROVE WireIInv'
<1>1. WireTypeOK /\ InOrder /\ Kept /\ NewestInHand /\ HandleInv /\ FilesInv
  BY DEF WireIInv
<1>2. /\ at = "remove" /\ at' = "rename" /\ from' = MaxFiles - 1 /\ ~handle /\ ~handle'
      /\ UNCHANGED <<handle, filled, line, written, emitted, cut>> /\ Current \in DOMAIN disk
  BY <1>1 DEF RemoveOldest, MovedBefore, HandleInv
<1>3. \/ disk' = [g \in DOMAIN disk \ {MaxFiles} |-> disk[g]] /\ failed' = failed
      \/ disk' = disk /\ failed' = TRUE
  BY <1>1 DEF RemoveOldest, Restrict
<1>4. DOMAIN disk' \subseteq DOMAIN disk /\ \A g \in DOMAIN disk' : disk'[g] = disk[g]
  BY <1>3
<1>5. WireTypeOK'
  <2>1. from' \in Generations
    BY <1>2, WireLogAssumption DEF Generations
  <2>2. failed' \in BOOLEAN
    BY <1>1, <1>3 DEF WireTypeOK
  <2>3. QED
    BY <1>1, <1>2, <1>4, <2>1, <2>2 DEF WireTypeOK
<1>6. InOrder' /\ Kept' /\ (\A o : OnDisk(o)' => OnDisk(o)) /\ (FilesFit => FilesFit')
  <2> DEFINE was == [g \in DOMAIN disk' |-> g]
  <2>1. /\ DOMAIN was = DOMAIN disk' /\ \A g \in DOMAIN disk' : was[g] \in DOMAIN disk /\ disk'[g] = disk[was[g]]
        /\ \A g, h \in DOMAIN disk' : g > h => was[g] > was[h]
    BY <1>4
  <2> HIDE DEF was
  <2>2. QED
    BY <1>2, <2>1, LinesLeft
<1>7. NewestInHand' /\ HandleInv'
  BY <1>1, <1>2, WireLogAssumption DEF NewestInHand, HandleInv
<1>8. FilesInv'
  <2> SUFFICES ASSUME ~failed' PROVE DropsOldest' /\ FilesFit' /\ SoundInv' /\ (~cut => FullBeforeDrop' /\ Contiguous')
    BY <1>2 DEF FilesInv
  <2>1. ~failed /\ DropsOldest /\ FilesFit /\ SoundInv /\ (~cut => FullBeforeDrop /\ Contiguous)
    BY <1>1, <1>3 DEF FilesInv
  <2>2. DOMAIN disk' = DOMAIN disk \ {MaxFiles}
    BY <1>3
  <2>3. Hole = Current /\ Hole' = MaxFiles
    BY <1>2, WireLogAssumption DEF Hole
  <2>4. DOMAIN disk \subseteq Generations /\ \A g \in DOMAIN disk' : g < MaxFiles /\ g \in Nat
    BY <1>1, <2>2, WireLogAssumption DEF WireTypeOK, Generations
  <2>5. \A l : OnDisk(l) /\ ~OnDisk(l)' => \E i \in 1 .. Len(disk[MaxFiles].lines) :
                                             MaxFiles \in DOMAIN disk /\ disk[MaxFiles].lines[i] = l
    BY <1>4, <2>2 DEF OnDisk
  <2>6. DropsOldest'
    <3> SUFFICES ASSUME NEW l \in Dropped', NEW o \in Line, OnDisk(o)' PROVE l.no < o.no
      BY DEF DropsOldest
    <3>1. l \in written /\ ~OnDisk(l)' /\ OnDisk(o)
      BY <1>2, <1>6 DEF Dropped
    <3>2. CASE OnDisk(l)
      <4>1. PICK i \in 1 .. Len(disk[MaxFiles].lines) : MaxFiles \in DOMAIN disk /\ disk[MaxFiles].lines[i] = l
        BY <2>5, <3>1, <3>2
      <4>2. PICK g \in DOMAIN disk' : \E j \in 1 .. Len(disk'[g].lines) : disk'[g].lines[j] = o
        BY DEF OnDisk
      <4>3. g < MaxFiles /\ disk'[g] = disk[g] /\ g \in DOMAIN disk
        BY <1>4, <2>4
      <4>4. MaxFiles > g
        BY <2>4, <4>3, WireLogAssumption
      <4>5. QED
        BY <1>1, <4>1, <4>2, <4>3, <4>4 DEF InOrder
    <3>3. CASE ~OnDisk(l)
      BY <2>1, <3>1, <3>3 DEF DropsOldest, Dropped
    <3>4. QED
      BY <3>2, <3>3
  <2>7. SoundInv'
    BY <1>2, <2>2, <2>3 DEF SoundInv
  <2>8. ASSUME ~cut PROVE Contiguous' /\ FullBeforeDrop'
    <3>1. \A g \in DOMAIN disk : \A o \in 0 .. g : o \in DOMAIN disk
      BY <1>2, <2>1, <2>3, <2>8 DEF Contiguous
    <3>2. Contiguous'
      BY <2>2, <2>4, <3>1, WireLogAssumption DEF Contiguous
    <3>3. ASSUME Dropped' # {} PROVE DOMAIN disk = Generations
      <4>1. PICK l : l \in written /\ ~OnDisk(l)'
        BY <1>2, <3>3 DEF Dropped
      <4>2. CASE OnDisk(l)
        <5>1. MaxFiles \in DOMAIN disk
          BY <2>5, <4>1, <4>2
        <5>2. QED
          BY <2>4, <3>1, <5>1 DEF Generations
      <4>3. CASE ~OnDisk(l)
        BY <1>2, <2>1, <2>3, <2>8, <4>1, <4>3 DEF FullBeforeDrop, Dropped
      <4>4. QED
        BY <4>2, <4>3
    <3>4. FullBeforeDrop'
      BY <2>2, <2>3, <3>3, CurrentIsOne DEF FullBeforeDrop
    <3>5. QED
      BY <3>2, <3>4
  <2>9. QED
    BY <1>6, <2>1, <2>6, <2>7, <2>8
<1>9. QED
  BY <1>5, <1>6, <1>7, <1>8 DEF WireIInv

\* A rename that moves its file, or finds none.
LEMMA RenameMoves ==
  ASSUME WireIInv, Rename
  PROVE  /\ at = "rename" /\ from \in Nat /\ from < MaxFiles
         /\ UNCHANGED <<handle, line, written, emitted, cut>> /\ ~handle
         /\ IF from = Current THEN at' = "reopen" /\ from' = Current /\ filled' = 0
                              ELSE at' = "rename" /\ from' = from - 1 /\ filled' = filled
         /\ Hole' = from
         /\ \/ disk' = disk /\ from \notin DOMAIN disk /\ failed' = failed
            \/ disk' = disk /\ failed' = TRUE
            \/ from \in DOMAIN disk /\ disk' = Moved(from) /\ failed' = failed
<1>1. WireTypeOK /\ HandleInv
  BY DEF WireIInv
<1>2. at = "rename" /\ from \in Nat /\ from < MaxFiles /\ ~handle
  BY <1>1, CurrentIsOne DEF HandleInv, WireTypeOK, Rename
<1>3. /\ UNCHANGED <<handle, line, written, emitted, cut>>
      /\ \/ disk' = disk /\ from \notin DOMAIN disk /\ failed' = failed
         \/ disk' = disk /\ failed' = TRUE
         \/ from \in DOMAIN disk /\ disk' = Moved(from) /\ failed' = failed
  BY DEF Rename
<1>4. IF from = Current THEN at' = "reopen" /\ from' = Current /\ filled' = 0
                        ELSE at' = "rename" /\ from' = from - 1 /\ filled' = filled
  BY <1>2 DEF Rename
<1>5. Hole' = from
  BY <1>2, <1>4 DEF Hole, Current
<1>6. QED
  BY <1>2, <1>3, <1>4, <1>5

LEMMA RenameKeeps == ASSUME WireIInv, Rename PROVE WireIInv'
<1>1. WireTypeOK /\ InOrder /\ Kept /\ NewestInHand /\ HandleInv /\ FilesInv
  BY DEF WireIInv
<1>2. /\ at = "rename" /\ from \in Nat /\ from < MaxFiles
      /\ UNCHANGED <<handle, line, written, emitted, cut>> /\ ~handle
      /\ IF from = Current THEN at' = "reopen" /\ from' = Current /\ filled' = 0
                           ELSE at' = "rename" /\ from' = from - 1 /\ filled' = filled
      /\ Hole' = from
      /\ \/ disk' = disk /\ from \notin DOMAIN disk /\ failed' = failed
         \/ disk' = disk /\ failed' = TRUE
         \/ from \in DOMAIN disk /\ disk' = Moved(from) /\ failed' = failed
  BY RenameMoves
<1>3. DOMAIN disk \subseteq Nat /\ DOMAIN disk \subseteq Generations
  BY <1>1, CurrentIsOne DEF WireTypeOK
<1>4. PICK was : /\ DOMAIN was = DOMAIN disk'
                 /\ \A g \in DOMAIN disk' : was[g] \in DOMAIN disk /\ disk'[g] = disk[was[g]]
                 /\ \A g, h \in DOMAIN disk' : g > h => was[g] > was[h]
                 /\ (~failed' => ~failed) /\ DOMAIN disk' \subseteq Generations
                 /\ disk' = disk \/ DOMAIN disk' = (DOMAIN disk \ {from}) \cup {from + 1}
  <2>1. CASE disk' = disk
    <3> DEFINE was == [g \in DOMAIN disk |-> g]
    <3>1. /\ DOMAIN was = DOMAIN disk' /\ \A g \in DOMAIN disk' : was[g] \in DOMAIN disk /\ disk'[g] = disk[was[g]]
          /\ \A g, h \in DOMAIN disk' : g > h => was[g] > was[h]
      BY <2>1
    <3> HIDE DEF was
    <3>2. ~failed' => ~failed
      BY <1>2
    <3>3. QED
      BY <1>3, <2>1, <3>1, <3>2
  <2>2. CASE from \in DOMAIN disk /\ disk' = Moved(from) /\ failed' = failed
    <3> DEFINE was == [g \in (DOMAIN disk \ {from}) \cup {from + 1} |-> IF g = from + 1 THEN from ELSE g]
    <3>1. DOMAIN disk' = (DOMAIN disk \ {from}) \cup {from + 1}
          /\ \A g \in DOMAIN disk' : disk'[g] = IF g = from + 1 THEN disk[from] ELSE disk[g]
      BY <2>2 DEF Moved
    <3>2. /\ DOMAIN was = DOMAIN disk' /\ \A g \in DOMAIN disk' : was[g] \in DOMAIN disk /\ disk'[g] = disk[was[g]]
      BY <2>2, <3>1
    <3>a. \A g \in DOMAIN disk' : was[g] = (IF g = from + 1 THEN from ELSE g) /\ g \in Nat /\ g # from
      BY <1>2, <1>3, <3>1
    <3>3. \A g, h \in DOMAIN disk' : g > h => was[g] > was[h]
      <4> HIDE DEF was
      <4>1. QED
        BY <1>2, <3>a
    <3>4. DOMAIN disk' \subseteq Generations
      BY <1>2, <1>3, <3>1, WireLogAssumption DEF Generations
    <3> HIDE DEF was
    <3>5. QED
      BY <2>2, <3>1, <3>2, <3>3, <3>4
  <2>3. QED
    BY <1>2, <2>1, <2>2
<1>5. InOrder' /\ Kept' /\ (\A o : OnDisk(o)' => OnDisk(o)) /\ (FilesFit => FilesFit')
  BY <1>2, <1>4, LinesLeft
<1>6. WireTypeOK'
  <2>1. at' \in {"rename", "reopen"} /\ filled' \in Nat
    BY <1>1, <1>2 DEF WireTypeOK
  <2>2. from' \in Generations
    BY <1>2, CurrentIsOne, WireLogAssumption DEF Generations, Current
  <2>3. failed' \in BOOLEAN
    BY <1>1, <1>2 DEF WireTypeOK
  <2>4. \A g \in DOMAIN disk' : disk'[g] \in File
    BY <1>1, <1>4 DEF WireTypeOK
  <2>5. QED
    BY <1>1, <1>2, <1>4, <2>1, <2>2, <2>3, <2>4 DEF WireTypeOK
<1>7. NewestInHand' /\ HandleInv'
  <2>1. NewestInHand'
    BY <1>1, <1>2 DEF NewestInHand
  <2>2. from' < MaxFiles
    BY <1>2, WireLogAssumption DEF Current
  <2>3. HandleInv'
    BY <1>1, <1>2, <2>2 DEF HandleInv
  <2>4. QED
    BY <2>1, <2>3
<1>8. FilesInv'
  <2> SUFFICES ASSUME ~failed' PROVE DropsOldest' /\ FilesFit' /\ SoundInv' /\ (~cut => FullBeforeDrop' /\ Contiguous')
    BY <1>2 DEF FilesInv
  <2>1. ~failed /\ DropsOldest /\ FilesFit /\ SoundInv /\ (~cut => FullBeforeDrop /\ Contiguous)
    BY <1>1, <1>4 DEF FilesInv
  <2>2. Hole = from + 1 /\ from + 1 \notin DOMAIN disk
    BY <1>2, <2>1 DEF Hole, SoundInv
  <2>3. \/ disk' = disk /\ from \notin DOMAIN disk
        \/ /\ from \in DOMAIN disk /\ DOMAIN disk' = (DOMAIN disk \ {from}) \cup {from + 1}
           /\ \A g \in DOMAIN disk : disk[g] = disk'[IF g = from THEN from + 1 ELSE g]
    <3>1. CASE from \in DOMAIN disk /\ disk' = Moved(from)
      BY <2>2, <3>1 DEF Moved
    <3>2. QED
      BY <1>2, <3>1
  <2>4. \A o : OnDisk(o) => OnDisk(o)'
    <3>1. ASSUME NEW o, OnDisk(o) PROVE OnDisk(o)'
      <4>1. PICK g \in DOMAIN disk : \E i \in 1 .. Len(disk[g].lines) : disk[g].lines[i] = o
        BY <3>1 DEF OnDisk
      <4>2. \E h \in DOMAIN disk' : disk'[h] = disk[g]
        BY <2>2, <2>3
      <4>3. QED
        BY <4>1, <4>2 DEF OnDisk
    <3>2. QED
      BY <3>1
  <2>5. Dropped' = Dropped
    BY <1>2, <1>5, <2>4 DEF Dropped
  <2>6. DropsOldest'
    BY <1>5, <2>1, <2>5 DEF DropsOldest
  <2>7. SoundInv'
    <3>1. Hole' \notin DOMAIN disk'
      BY <1>2, <2>3
    <3>2. QED
      BY <1>2, <3>1 DEF SoundInv
  <2>8. ~cut => FullBeforeDrop'
    BY <1>2, <1>3, <2>1, <2>2, <2>3, <2>5, CurrentIsOne, WireLogAssumption DEF FullBeforeDrop, Generations
  <2>9. ASSUME ~cut, NEW g \in DOMAIN disk', NEW o \in 0 .. g PROVE o \in DOMAIN disk' \/ o = from
    <3>1. \A h \in DOMAIN disk : \A k \in 0 .. h : k \in DOMAIN disk \/ k = from + 1
      BY <2>1, <2>2, <2>9 DEF Contiguous
    <3>2. CASE disk' = disk /\ from \notin DOMAIN disk
      BY <1>2, <1>3, <2>2, <2>9, <3>1, <3>2
    <3>3. CASE from \in DOMAIN disk /\ DOMAIN disk' = (DOMAIN disk \ {from}) \cup {from + 1}
      BY <1>2, <1>3, <2>9, <3>1, <3>3
    <3>4. QED
      BY <2>3, <3>2, <3>3
  <2>10. QED
    BY <1>2, <1>5, <2>1, <2>6, <2>7, <2>8, <2>9 DEF Contiguous
<1>9. QED
  BY <1>5, <1>6, <1>7, <1>8 DEF WireIInv

LEMMA WriteKeeps == ASSUME WireIInv, Write PROVE WireIInv'
<1>1. WireTypeOK /\ InOrder /\ Kept /\ NewestInHand /\ HandleInv /\ FilesInv
  BY DEF WireIInv
<1>2. /\ at = "write" /\ at' = "rest" /\ line' = NoLine /\ Current \in DOMAIN disk /\ handle
      /\ UNCHANGED <<handle, from, emitted, failed, cut>>
      /\ written' = written \cup {line} /\ filled' = filled + line.size
      /\ line \in Line /\ line.no = emitted /\ line.size \in Nat /\ line.no \in Nat
  BY <1>1, LineTypes DEF Write, Rest, HandleInv, NewestInHand, WireTypeOK
<1>3. PICK s, b : disk[Current] = [lines |-> s, bytes |-> b] /\ s \in Seq(Line) /\ b \in Nat
  BY <1>1, <1>2 DEF WireTypeOK, File
<1>4. PICK n : n = Len(s) /\ n \in Nat
  BY <1>3
<1>5. /\ Append(s, line) \in Seq(Line) /\ Len(Append(s, line)) = n + 1 /\ Append(s, line)[n + 1] = line
      /\ \A i \in 1 .. n : Append(s, line)[i] = s[i]
  BY <1>2, <1>3, <1>4, AppendProperties
<1>6. PICK t : t = Append(s, line)
  OBVIOUS
<1>7. /\ DOMAIN disk' = DOMAIN disk /\ \A g \in DOMAIN disk \ {Current} : disk'[g] = disk[g]
      /\ disk'[Current] = [lines |-> t, bytes |-> b + line.size]
      /\ t \in Seq(Line) /\ Len(t) = n + 1 /\ t[n + 1] = line /\ \A i \in 1 .. n : t[i] = s[i]
  <2>1. disk' = [disk EXCEPT ![Current] = [lines |-> Append(disk[Current].lines, line), bytes |-> disk[Current].bytes + line.size]]
    BY DEF Write
  <2>2. disk' = [disk EXCEPT ![Current] = [lines |-> t, bytes |-> b + line.size]]
    BY <1>3, <1>6, <2>1
  <2>3. QED
    BY <1>2, <1>5, <1>6, <2>2
<1>8. WireTypeOK'
  <2>1. NoLine \in Line
    BY WireLogAssumption DEF NoLine, Line
  <2>2. disk'[Current] \in File
    BY <1>2, <1>3, <1>7 DEF File
  <2>3. filled' \in Nat
    BY <1>1, <1>2 DEF WireTypeOK
  <2>4. QED
    BY <1>1, <1>2, <1>7, <2>1, <2>2, <2>3 DEF WireTypeOK
<1>9. \A o : OnDisk(o)' <=> OnDisk(o) \/ o = line
  <2>1. ASSUME NEW o, OnDisk(o) PROVE OnDisk(o)'
    BY <1>3, <1>4, <1>7, <2>1 DEF OnDisk
  <2>2. ASSUME NEW o, o = line PROVE OnDisk(o)'
    <3>1. \E i \in 1 .. Len(disk'[Current].lines) : disk'[Current].lines[i] = o
      BY <1>4, <1>7, <2>2
    <3>2. \E g \in DOMAIN disk' : \E i \in 1 .. Len(disk'[g].lines) : disk'[g].lines[i] = o
      BY <1>2, <1>7, <3>1
    <3>3. QED
      BY <3>2 DEF OnDisk
  <2>3. ASSUME NEW o, OnDisk(o)', o # line PROVE OnDisk(o)
    <3>1. PICK g \in DOMAIN disk : \E i \in 1 .. Len(disk'[g].lines) : disk'[g].lines[i] = o
      BY <1>7, <2>3 DEF OnDisk
    <3>2. PICK i \in 1 .. Len(disk'[g].lines) : disk'[g].lines[i] = o
      BY <3>1
    <3>3. CASE g = Current
      <4>1. i \in 1 .. n /\ s[i] = o
        BY <1>4, <1>7, <2>3, <3>2, <3>3
      <4>2. QED
        BY <1>2, <1>3, <1>4, <4>1 DEF OnDisk
    <3>4. CASE g # Current
      BY <1>7, <3>2, <3>4 DEF OnDisk
    <3>5. QED
      BY <3>3, <3>4
  <2>4. QED
    BY <2>1, <2>2, <2>3
<1>10. \A o : OnDisk(o) => o \in Line /\ o \in written /\ o.no < line.no
  <2>1. \A o : OnDisk(o) => o \in Line
    BY <1>1 DEF OnDisk, WireTypeOK, File
  <2>2. QED
    BY <1>1, <1>2, <2>1 DEF Kept, NewestInHand
<1>11. Kept'
  BY <1>1, <1>2, <1>9 DEF Kept
<1>12. InOrder'
  <2> SUFFICES ASSUME NEW g \in DOMAIN disk, NEW h \in DOMAIN disk, NEW i \in 1 .. Len(disk'[g].lines),
                      NEW j \in 1 .. Len(disk'[h].lines), g > h \/ (g = h /\ i < j)
               PROVE  disk'[g].lines[i].no < disk'[h].lines[j].no
    BY <1>7 DEF InOrder
  <2>1. g \in Nat /\ h \in Nat
    BY <1>1, CurrentIsOne DEF WireTypeOK
  <2>2. g = Current => i \in 1 .. n
    BY <1>4, <1>7, <2>1 DEF Current
  <2>3. i \in 1 .. Len(disk[g].lines) /\ disk'[g].lines[i] = disk[g].lines[i]
    BY <1>3, <1>4, <1>7, <2>2
  <2>4. CASE h = Current /\ j = n + 1
    <3>1. disk'[h].lines[j] = line
      BY <1>7, <2>4
    <3>2. OnDisk(disk[g].lines[i])
      BY <2>3 DEF OnDisk
    <3>3. QED
      BY <1>10, <2>3, <3>1, <3>2
  <2>5. CASE ~(h = Current /\ j = n + 1)
    <3>1. h = Current => j \in 1 .. n
      BY <1>4, <1>7, <2>5
    <3>2. j \in 1 .. Len(disk[h].lines) /\ disk'[h].lines[j] = disk[h].lines[j]
      BY <1>3, <1>4, <1>7, <3>1
    <3>3. QED
      BY <1>1, <2>3, <3>2 DEF InOrder
  <2>6. QED
    BY <2>4, <2>5
<1>13. NewestInHand' /\ HandleInv'
  <2>1. \A l \in written : l.no <= emitted
    BY <1>1 DEF NewestInHand
  <2>2. NewestInHand'
    BY <1>2, <2>1 DEF NewestInHand
  <2>3. HandleInv'
    BY <1>1, <1>2, <1>7 DEF HandleInv
  <2>4. QED
    BY <2>2, <2>3
<1>14. FilesInv'
  <2> SUFFICES ASSUME ~failed PROVE DropsOldest' /\ FilesFit' /\ SoundInv' /\ (~cut => FullBeforeDrop' /\ Contiguous')
    BY <1>2 DEF FilesInv
  <2>1. DropsOldest /\ FilesFit /\ SoundInv /\ (~cut => FullBeforeDrop /\ Contiguous)
    BY <1>1 DEF FilesInv
  <2>2. Dropped' \subseteq Dropped
    BY <1>2, <1>9 DEF Dropped
  <2>3. \A l \in Dropped : l.no < line.no
    BY <1>1, <1>2 DEF Dropped, NewestInHand
  <2>4. DropsOldest'
    BY <1>9, <2>1, <2>2, <2>3 DEF DropsOldest
  <2>5. s = <<>> \/ b + line.size <= MaxBytes
    BY <1>2, <1>3, <2>1 DEF SoundInv
  <2>6. n = 0 \/ b + line.size <= MaxBytes
    BY <1>3, <1>4, <2>5
  <2>7. FilesFit'
    BY <1>4, <1>7, <2>1, <2>6 DEF FilesFit
  <2>8. SoundInv'
    BY <1>2, <1>3, <1>7, <2>1 DEF SoundInv
  <2>9. Hole = Current /\ Hole' = Current
    BY <1>2 DEF Hole
  <2>10. ~cut => FullBeforeDrop' /\ Contiguous'
    BY <1>7, <2>1, <2>2, <2>9 DEF FullBeforeDrop, Contiguous
  <2>11. QED
    BY <2>1, <2>4, <2>7, <2>8, <2>10
<1>15. QED
  BY <1>8, <1>11, <1>12, <1>13, <1>14 DEF WireIInv

\* WireLogInv, for lines and files of any size and any number of generations:
\* whatever fails and wherever the process stops, the lines left are in order,
\* and none is dropped but the oldest while no file failed to be removed,
\* renamed or sized up.
THEOREM WireLogHolds == WireSpec => []WireLogInv
<1>1. WireIInv /\ [WireNext]_wireVars => WireIInv'
  <2> SUFFICES ASSUME WireIInv, [WireNext]_wireVars PROVE WireIInv'
    OBVIOUS
  <2>1. CASE UNCHANGED wireVars
    BY <2>1 DEF wireVars, WireIInv, WireTypeOK, InOrder, Kept, OnDisk, NewestInHand, HandleInv,
       FilesInv, DropsOldest, Dropped, FilesFit, SoundInv, FullBeforeDrop, Contiguous, Hole
  <2>2. QED
    BY <2>1, EmitKeeps, OpenKeeps, RestKeeps, FitKeeps, RemoveKeeps, RenameKeeps, WriteKeeps DEF WireNext
<1>2. WireIInv => WireLogInv
  BY DEF WireIInv, WireLogInv, Kept, FilesInv, DropsOldest, FilesFit, FullBeforeDrop
<1>3. QED
  BY <1>1, <1>2, WireStart, PTL DEF WireSpec
-----------------------------------------------------------------------------

-----------------------------------------------------------------------------
(* Routing: the sender of a message.                                       *)

\* The sender resolved is one the columns may hold.
LEMMA ResolvedKnown ==
  ASSUME setup \in Setups, NEW named \in AllSenders
  PROVE  /\ ResolveSenderID(setup, named).value \in AllSenders
         /\ named \notin {NoSender, AnySender} /\ ResolveSenderID(setup, named) # Refused
              => ResolveSenderID(setup, named).value = named
<1>1. {setup.default, setup.listDefault} \subseteq AllSenders
  BY RoutingAssumption
<1>2. NoSender \in AllSenders /\ SystemDefault \in AllSenders
  BY DEF AllSenders
<1> DEFINE byRequest == [value |-> SystemDefault, source |-> "carrier_default"]
           second == IF ClientAllowsSenderID(setup, named)
                     THEN [value |-> named, source |-> "client_provided"] ELSE Refused
           third == [source |-> "client_default",
                     value  |-> IF setup.default # NoSender /\ ClientAllowsSenderID(setup, setup.default)
                                THEN setup.default
                                ELSE IF setup.listDefault # NoSender THEN setup.listDefault
                                ELSE SystemDefault]
<1>3. ResolveSenderID(setup, named) \in {byRequest, second, third}
  BY DEF ResolveSenderID, AllSenders
<1>4. byRequest.value \in AllSenders /\ second.value \in AllSenders /\ third.value \in AllSenders
  BY <1>1, <1>2 DEF Refused
<1>5. ASSUME named \notin {NoSender, AnySender}
      PROVE  ResolveSenderID(setup, named) = second
  BY <1>5 DEF ResolveSenderID, AllSenders
<1> QED
  BY <1>3, <1>4, <1>5

LEMMA ResolvedKeeps ==
  ASSUME setup \in Setups, NEW named \in AllSenders, NEW via \in {"api", "smpp", "page"},
         NEW m, DOMAIN m = DOMAIN Idle, NEW to
  PROVE  LET r == Resolved(m, via, named, to)
         IN  /\ DOMAIN r = DOMAIN Idle /\ r.pc \in {"done", "resolved"}
             /\ r.stored \in AllSenders /\ (r.asSubmitted => cached = setup)
             /\ r.sid = r.answer
             /\ r.pc = "resolved" /\ ~Loses(r) /\ r.queued => r.stored = r.answer.value
<1> DEFINE sid == ResolveSenderID(setup, named)
           r == Resolved(m, via, named, to)
<1>1. /\ sid.value \in AllSenders
      /\ named \notin {NoSender, AnySender} /\ sid # Refused => sid.value = named
  BY ResolvedKnown
<1>2. DOMAIN m = {"pc", "via", "queued", "from", "to", "stored", "answer", "sid", "rate", "left",
        "at", "sender", "wire", "cost", "outcome", "claims", "resent", "untried", "asSubmitted",
        "asChecked", "checked"}
  BY DEF Idle
<1> HIDE DEF sid
<1>3. /\ DOMAIN r = DOMAIN Idle /\ r.pc = (IF sid = Refused THEN "done" ELSE "resolved")
      /\ r.stored = StoredFrom(via, named, sid) /\ r.asSubmitted = (cached = setup)
      /\ r.sid = sid /\ r.answer = sid /\ r.queued = m.queued /\ r.via = via /\ r.from = named
  BY <1>2 DEF Resolved, sid
<1>4. StoredFrom(via, named, sid) \in {SystemDefault, named, sid.value}
  BY DEF StoredFrom
<1>5. ASSUME sid # Refused, ~Loses(r), r.queued
      PROVE  StoredFrom(via, named, sid) = sid.value
  BY <1>1, <1>3, <1>5 DEF StoredFrom, Loses
<1> HIDE DEF r
<1>6. SystemDefault \in AllSenders
  BY DEF AllSenders
<1> QED
  BY <1>1, <1>3, <1>4, <1>5, <1>6 DEF r

\* What SenderInv says of a message at a carrier.
SentAs(m) ==
  LET sender == EffectiveSender(setup.carriers[m.at], setup.lists[m.at], m.sid)
  IN  m.sender = IF m.pc = "send" THEN sender
                 ELSE Translate(setup.carriers[m.at].senderRules, sender)

\* What a step on the message under way leaves of it.
LEMMA GoesOn ==
  ASSUME SenderInv, UnderWay, DOMAIN msg' = DOMAIN msg,
         UNCHANGED <<setup, cached>>,
         msg'.sid = msg.sid \/ (msg.queued /\ msg'.sid = Rebuilt(msg)),
         msg'.answer = msg.answer, msg'.stored = msg.stored, msg'.queued = msg.queued,
         msg'.from = msg.from, msg'.via = msg.via,
         msg'.asSubmitted = msg.asSubmitted \/ msg'.asSubmitted = FALSE,
         msg'.pc = "queued" => msg.queued,
         msg'.pc \in {"send", "sent"} /\ msg'.asSubmitted => SentAs(msg')
  PROVE  SenderInv'
<1>1. Rebuilt(msg)' = Rebuilt(msg) /\ Loses(msg)' = Loses(msg)
  BY DEF Rebuilt, Loses
<1>2. SentAs(msg)' <=> SentAs(msg')
  BY DEF SentAs, EffectiveSender, Replaces
<1> QED
  BY <1>1, <1>2 DEF SenderInv, UnderWay, SentAs

\* A step of the message on its way.
LEMMA StepsKeepSender ==
  ASSUME SenderInv, UnderWay,
         Price \/ Route \/ Claim \/ Expire \/ Skip \/ Check \/ CheckFailsOpen
           \/ CheckFails \/ Accept \/ Refuse \/ Exhaust \/ Cost \/ CostFails
  PROVE  SenderInv'
<1>1. DOMAIN msg = {"pc", "via", "queued", "from", "to", "stored", "answer", "sid", "rate", "left",
        "at", "sender", "wire", "cost", "outcome", "claims", "resent", "untried", "asSubmitted",
        "asChecked", "checked"}
  BY DEF SenderInv, Idle
<1>2. UNCHANGED <<setup, cached>>
  BY DEF Price, Route, Claim, Expire, Skip, Check, CheckFailsOpen, CheckFails, Accept,
         Refuse, Exhaust, Cost, CostFails
<1> DEFINE Stays == /\ DOMAIN msg' = DOMAIN msg
                    /\ msg'.sid = msg.sid \/ (msg.queued /\ msg'.sid = Rebuilt(msg))
                    /\ msg'.answer = msg.answer /\ msg'.stored = msg.stored
                    /\ msg'.queued = msg.queued /\ msg'.from = msg.from /\ msg'.via = msg.via
                    /\ msg'.asSubmitted = msg.asSubmitted \/ msg'.asSubmitted = FALSE
                    /\ msg'.pc = "queued" => msg.queued
<1>3. ASSUME NEW outcome, msg' = End(outcome) PROVE Stays /\ msg'.pc \notin {"send", "sent"}
  BY <1>1, <1>3 DEF End
<1>4. ASSUME msg' = NextCarrier(msg) PROVE Stays /\ msg'.pc \notin {"send", "sent"}
  BY <1>1, <1>4 DEF NextCarrier
<1>5. CASE Price
  <2>1. PICK rows : LET got == longestPrefixRate(rows, msg.to)
                    IN  msg' = IF got = NoRow THEN End("no_rate")
                               ELSE [msg EXCEPT !.pc = "priced", !.rate = got.rate]
    BY <1>5 DEF Price
  <2>2. (\E r : msg' = [msg EXCEPT !.pc = "priced", !.rate = r]) \/ msg' = End("no_rate")
    BY <2>1
  <2>3. Stays /\ msg'.pc \notin {"send", "sent"}
    BY <1>1, <1>3, <2>2
  <2> QED
    BY <1>2, <2>3, GoesOn
<1>6. CASE Route
  <2>1. \/ msg' = End("no_route") \/ (msg.queued /\ msg' = [msg EXCEPT !.pc = "queued"])
        \/ \E chain : msg' = [msg EXCEPT !.pc = "try", !.left = chain]
    <3> HIDE DEF Stays
    <3> QED
      BY <1>6 DEF Route
  <2>2. Stays /\ msg'.pc \notin {"send", "sent"}
    BY <1>1, <1>3, <2>1
  <2> QED
    BY <1>2, <2>2, GoesOn
<1>7. CASE Claim
  <2>1. \/ msg' = End("undelivered")
        \/ \E chain : msg' = [msg EXCEPT !.pc = "try", !.left = chain, !.sid = Rebuilt(msg),
                                         !.claims = @ + 1]
    BY <1>7 DEF Claim
  <2>2. CASE msg' = End("undelivered")
    BY <1>2, <1>3, <2>2, GoesOn
  <2>3. CASE msg' # End("undelivered")
    <3>1. PICK chain : msg' = [msg EXCEPT !.pc = "try", !.left = chain, !.sid = Rebuilt(msg),
                                         !.claims = @ + 1]
      BY <2>1, <2>3
    <3>2. /\ DOMAIN msg' = DOMAIN msg /\ msg'.sid = Rebuilt(msg) /\ msg'.pc \notin {"send", "sent"}
          /\ msg'.answer = msg.answer /\ msg'.stored = msg.stored
          /\ msg'.queued = msg.queued /\ msg'.from = msg.from /\ msg'.via = msg.via
          /\ msg'.asSubmitted = msg.asSubmitted /\ msg'.pc = "try"
      BY <1>1, <3>1
    <3>3. msg.queued
      BY <1>7 DEF Claim, SenderInv, UnderWay
    <3> QED
      BY <1>2, <3>2, <3>3, GoesOn
  <2> QED
    BY <2>2, <2>3
<1>8. CASE Expire \/ Cost \/ CostFails
  <2>1. \/ \E outcome : msg' = End(outcome)
        \/ \E cost : msg' = [End("accepted") EXCEPT !.cost = cost]
    BY <1>8 DEF Expire, Cost, CostFails
  <2>2. Stays /\ msg'.pc \notin {"send", "sent"}
    BY <1>1, <2>1 DEF End
  <2> QED
    BY <1>2, <2>2, GoesOn
<1>9. CASE Skip
  BY <1>2, <1>4, <1>9, GoesOn DEF Skip
<1>10. CASE CheckFails \/ Refuse
  <2>1. \/ msg' = NextCarrier([msg EXCEPT !.asSubmitted = FALSE])
        \/ msg' = NextCarrier([msg EXCEPT !.untried = FALSE])
    BY <1>10 DEF CheckFails, Refuse
  <2>2. PICK m \in {[msg EXCEPT !.asSubmitted = FALSE], [msg EXCEPT !.untried = FALSE]} :
          msg' = NextCarrier(m)
    BY <2>1
  <2>3. /\ DOMAIN m = DOMAIN msg /\ m.sid = msg.sid /\ m.answer = msg.answer
        /\ m.stored = msg.stored /\ m.queued = msg.queued /\ m.from = msg.from /\ m.via = msg.via
        /\ m.asSubmitted = msg.asSubmitted \/ m.asSubmitted = FALSE
    BY <1>1
  <2>4. Stays /\ msg'.pc \notin {"send", "sent"}
    BY <1>1, <2>2, <2>3 DEF NextCarrier
  <2> QED
    BY <1>2, <2>4, GoesOn
<1>11. CASE Check \/ CheckFailsOpen
  <2>1. msg' = Goes \/ msg' = [Goes EXCEPT !.checked = FALSE]
    BY <1>11 DEF Check, CheckFailsOpen
  <2>2. Stays /\ msg'.sid = msg.sid /\ msg'.at = Candidate /\ msg'.sender = EffectiveHere
        /\ msg'.asSubmitted = msg.asSubmitted
    <3>1. /\ DOMAIN Goes = DOMAIN msg /\ Goes.pc = "send" /\ Goes.at = Candidate
          /\ Goes.sender = EffectiveHere /\ Goes.sid = msg.sid /\ Goes.answer = msg.answer
          /\ Goes.stored = msg.stored /\ Goes.queued = msg.queued /\ Goes.from = msg.from
          /\ Goes.via = msg.via /\ Goes.asSubmitted = msg.asSubmitted
      BY <1>1 DEF Goes
    <3> HIDE DEF Goes
    <3> QED
      BY <1>1, <2>1, <3>1
  <2>3. msg'.asSubmitted => cached = setup
    BY <2>2 DEF SenderInv
  <2>4. msg'.pc = "send"
    BY <1>1, <2>1 DEF Goes
  <2>5. msg'.asSubmitted => SentAs(msg')
    BY <2>2, <2>3, <2>4 DEF EffectiveHere, Profile, SentAs
  <2> QED
    BY <1>2, <2>2, <2>5, GoesOn
<1>12. CASE Accept
  <2>1. /\ msg.pc = "send" /\ msg' = [msg EXCEPT !.pc = "sent", !.sender = DispatchSender,
                                !.wire = Wire, !.left = <<>>, !.untried = FALSE]
    BY <1>12 DEF Accept
  <2>2. Stays /\ msg'.pc = "sent" /\ msg'.sender = DispatchSender /\ msg'.at = msg.at
        /\ msg'.sid = msg.sid /\ msg'.asSubmitted = msg.asSubmitted
    BY <1>1, <2>1
  <2>3. msg'.asSubmitted =>
          /\ cached = setup
          /\ msg.sender = EffectiveSender(setup.carriers[msg.at], setup.lists[msg.at], msg.sid)
    BY <2>1, <2>2 DEF SenderInv
  <2>4. msg'.asSubmitted => SentAs(msg')
    BY <2>2, <2>3 DEF DispatchSender, SentAs
  <2> QED
    BY <1>2, <2>2, <2>4, GoesOn
<1>13. CASE Exhaust
  <2>1. (msg.queued /\ msg' = [msg EXCEPT !.pc = "queued"]) \/ msg' = End("failed")
    BY <1>13 DEF Exhaust
  <2>2. Stays /\ msg'.pc \notin {"send", "sent"}
    BY <1>1, <1>3, <2>1
  <2> QED
    BY <1>2, <2>2, GoesOn
<1> QED
  BY <1>5, <1>6, <1>7, <1>8, <1>9, <1>10, <1>11, <1>12, <1>13

\* A submission, or an operator's re-send of a logged message.
LEMMA StartsWithSender ==
  ASSUME SenderInv, NEW m, DOMAIN m = DOMAIN Idle,
         NEW via \in {"api", "smpp", "page"}, NEW named \in AllSenders, NEW to,
         msg' = Resolved(m, via, named, to), UNCHANGED <<setup, cached>>
  PROVE  SenderInv'
<1>1. setup \in Setups
  BY DEF SenderInv
<1>2. /\ DOMAIN msg' = DOMAIN Idle /\ msg'.pc \in {"done", "resolved"}
      /\ msg'.stored \in AllSenders /\ (msg'.asSubmitted => cached = setup)
      /\ msg'.sid = msg'.answer
      /\ msg'.pc = "resolved" /\ ~Loses(msg') /\ msg'.queued => msg'.stored = msg'.answer.value
  BY <1>1, ResolvedKeeps
<1> QED
  BY <1>1, <1>2 DEF SenderInv, UnderWay, Idle, Loses

LEMMA SenderStart == RoutingInit => SenderInv
  BY DEF RoutingInit, SenderInv, UnderWay, Idle, AllSenders

LEMMA SenderStep == SenderInv /\ [RoutingNext]_routingVars => SenderInv'
<1> SUFFICES ASSUME SenderInv, [RoutingNext]_routingVars PROVE SenderInv'
  OBVIOUS
<1>0. DOMAIN msg = {"pc", "via", "queued", "from", "to", "stored", "answer", "sid", "rate", "left",
        "at", "sender", "wire", "cost", "outcome", "claims", "resent", "untried", "asSubmitted",
        "asChecked", "checked"}
  BY DEF SenderInv, Idle
<1>1. ASSUME NEW via \in {"api", "smpp", "page"}, NEW to \in Destinations,
             NEW queued \in BOOLEAN, NEW named \in Senders \cup {NoSender, AnySender},
             Submit(via, named, to, queued)
      PROVE  SenderInv'
  <2>1. DOMAIN [Idle EXCEPT !.queued = queued] = DOMAIN Idle /\ named \in AllSenders
    BY DEF AllSenders
  <2> QED
    BY <1>1, <2>1, StartsWithSender DEF Submit
<1>2. CASE Resend
  <2>1. DOMAIN [Idle EXCEPT !.resent = TRUE, !.queued = msg.queued] = DOMAIN Idle
        /\ msg.stored \in AllSenders
    BY DEF SenderInv
  <2> QED
    BY <1>2, <2>1, StartsWithSender DEF Resend
<1>3. CASE \/ Price \/ Route \/ Claim \/ Expire \/ Skip \/ Check \/ CheckFailsOpen
           \/ CheckFails \/ Accept \/ Refuse \/ Exhaust \/ Cost \/ CostFails
  <2>1. UnderWay
    BY <1>3 DEF UnderWay, Price, Route, Claim, Expire, Skip, Check, CheckFailsOpen, CheckFails,
                Accept, Refuse, Exhaust, Cost, CostFails
  <2> QED
    BY <1>3, <2>1, StepsKeepSender
<1>4. CASE EditTables \/ Reload
  <2>1. /\ DOMAIN msg' = DOMAIN msg /\ msg'.asSubmitted = FALSE /\ msg'.pc = msg.pc
        /\ msg'.sid = msg.sid /\ msg'.answer = msg.answer /\ msg'.stored = msg.stored
        /\ msg'.queued = msg.queued /\ msg'.from = msg.from /\ msg'.via = msg.via
    BY <1>0, <1>4 DEF EditTables, Reload
  <2>2. setup' \in Setups
    BY <1>4 DEF EditTables, Reload, SenderInv
  <2>3. Rebuilt(msg)' = Rebuilt(msg) /\ Loses(msg)' = Loses(msg)
    BY <2>1 DEF Rebuilt, Loses
  <2> QED
    BY <2>1, <2>2, <2>3 DEF SenderInv, UnderWay
<1>5. CASE UNCHANGED routingVars
  BY <1>5 DEF routingVars, SenderInv, UnderWay, Rebuilt, Loses, EffectiveSender, Replaces
<1> QED
  BY <1>1, <1>2, <1>3, <1>4, <1>5 DEF RoutingNext

\* For any tables, senders, edits, faults and retries, whatever the searches
\* find: a message that is not edited under way goes out under the sender the
\* client was told as the carrier's rules rewrite it, or under a carrier's own
\* that replaces it, unless it went through the queue in a form whose row does
\* not keep the sender.
THEOREM SenderIsKept == RoutingSpec => []SenderKept
<1>1. SenderInv => SenderKept
  <2> DEFINE profile == setup.carriers[msg.at]
  <2> SUFFICES ASSUME SenderInv, ~Loses(msg), msg.pc = "sent", msg.asSubmitted
               PROVE  msg.sender = Translate(profile.senderRules, msg.answer.value)
                        \/ Replaces(profile, msg.answer)
    BY DEF SenderKept, AnsweredIsSent
  <2>1. /\ msg.sender = Translate(profile.senderRules,
                                  EffectiveSender(profile, setup.lists[msg.at], msg.sid))
        /\ msg.sid \in {msg.answer, Rebuilt(msg)}
        /\ ~msg.queued => msg.sid = msg.answer
        /\ msg.queued => msg.stored = msg.answer.value
    BY DEF SenderInv, UnderWay
  <2>2. msg.sid.source = msg.answer.source /\ msg.sid.value = msg.answer.value
    BY <2>1 DEF Rebuilt
  <2>3. ~Replaces(profile, msg.answer) =>
          EffectiveSender(profile, setup.lists[msg.at], msg.sid) = msg.answer.value
    BY <2>2 DEF EffectiveSender, Replaces
  <2> QED
    BY <2>1, <2>3
<1> QED
  BY <1>1, SenderStart, SenderStep, PTL DEF RoutingSpec

-----------------------------------------------------------------------------
(* Routing: the searches, the number, the loss check, the simulation.      *)

\* A set of numbers up to a bound has a least one.
LEMMA LeastIndex ==
  ASSUME NEW n \in Nat, NEW D \in SUBSET (0 .. n), D # {}
  PROVE  \E i \in D : \A j \in D : i <= j
<1> DEFINE below(i) == 0 .. i
           less == StrictSubsetOrdering(0 .. n)
           all == FiniteSubsetsOf(0 .. n)
           T == {below(i) : i \in D}
<1>1. IsFiniteSet(0 .. n)
  BY FS_Interval
<1>2. T \subseteq all /\ T # {}
  <2>1. ASSUME NEW i \in D PROVE below(i) \in all
    <3>1. below(i) \in SUBSET (0 .. n)
      OBVIOUS
    <3> HIDE DEF below
    <3>2. IsFiniteSet(below(i))
      BY <1>1, <3>1, FS_Subset
    <3> QED
      BY <3>1, <3>2 DEF FiniteSubsetsOf
  <2> QED
    BY <2>1
<1>3. PICK S \in T : \A R \in T : ~ (<<R, S>> \in less)
  <2>1. IsWellFoundedOn(less, all)
    BY FS_StrictSubsetOrderingWellFounded
  <2> HIDE DEF less, all, T
  <2> QED
    BY <1>2, <2>1, WFMin
<1>4. PICK i \in D : S = below(i)
  OBVIOUS
<1>5. ASSUME NEW j \in D, ~(i <= j) PROVE FALSE
  <2>1. below(j) \subseteq below(i) /\ below(j) # below(i) /\ below(i) \subseteq 0 .. n
    BY <1>5
  <2>2. <<below(j), below(i)>> \in less
    BY <2>1 DEF StrictSubsetOrdering
  <2> QED
    BY <1>3, <1>4, <2>2
<1> QED
  BY <1>5

\* Counting: a set that holds 0, and every number whose predecessor it holds.
LEMMA CountsUp ==
  ASSUME NEW n \in Nat, NEW P, 0 \in P, \A i \in 1 .. n : i - 1 \in P => i \in P
  PROVE  0 .. n \subseteq P
<1> DEFINE D == (0 .. n) \ P
<1> SUFFICES ASSUME D # {} PROVE FALSE
  OBVIOUS
<1>1. PICK i \in D : \A j \in D : i <= j
  <2>1. D \in SUBSET (0 .. n)
    OBVIOUS
  <2> HIDE DEF D
  <2> QED
    BY <2>1, LeastIndex
<1> QED
  BY <1>1

\* A loop over a table runs: there is what it found after every row.
Loops(f, n, F, z, step) ==
  f \in [0 .. n -> F] /\ f[0] = z /\ \A i \in 1 .. n : f[i] = step[i][f[i - 1]]

LEMMA LoopRuns ==
  ASSUME NEW n \in Nat, NEW F, NEW z \in F, NEW step \in [1 .. n -> [F -> F]]
  PROVE  \E f : Loops(f, n, F, z, step)
<1> DEFINE Runs(m, f) == f[0] = z /\ \A i \in 1 .. m : f[i] = step[i][f[i - 1]]
           P == {m \in 0 .. n : \E f \in [0 .. m -> F] : Runs(m, f)}
<1>1. 0 \in P
  <2> DEFINE f == [i \in 0 .. 0 |-> z]
  <2>1. f \in [0 .. 0 -> F] /\ Runs(0, f)
    OBVIOUS
  <2> HIDE DEF f, Runs
  <2> QED
    BY <2>1
<1>2. ASSUME NEW m \in 1 .. n, m - 1 \in P PROVE m \in P
  <2>1. PICK f \in [0 .. m - 1 -> F] : Runs(m - 1, f)
    BY <1>2
  <2> DEFINE g == [i \in 0 .. m |-> IF i = m THEN step[m][f[m - 1]] ELSE f[i]]
  <2>2. f[m - 1] \in F /\ step[m] \in [F -> F]
    OBVIOUS
  <2>3. step[m][f[m - 1]] \in F
    BY <2>2
  <2>4. g \in [0 .. m -> F]
    BY <2>3
  <2>5. g[0] = z /\ \A i \in 1 .. m : g[i] = step[i][g[i - 1]]
    BY <2>1
  <2>6. m \in 0 .. n
    OBVIOUS
  <2> HIDE DEF g
  <2>7. Runs(m, g)
    BY <2>5
  <2> HIDE DEF Runs
  <2> QED
    BY <2>4, <2>6, <2>7
<1>3. n \in P
  <2> HIDE DEF P
  <2>1. 0 .. n \subseteq P
    BY <1>1, <1>2, CountsUp
  <2> QED
    BY <2>1
<1> QED
  BY <1>3 DEF Loops

---------------------------------------------------------------------------
\* The rows a statement returns are the rows of the table, each at one place.
LEMMA EveryRowOnce ==
  ASSUME NEW S, IsFiniteSet(S), NEW rows \in Orders(S)
  PROVE  /\ rows \in Seq(S) /\ Len(rows) \in Nat
         /\ \A i \in 1 .. Len(rows) : rows[i] \in S
         /\ \A x \in S : \E i \in 1 .. Len(rows) : rows[i] = x
<1> DEFINE n == Cardinality(S)
<1>1. n \in Nat
  BY FS_CardinalityType
<1>2. rows \in [1 .. n -> S] /\ \A i, j \in 1 .. n : i # j => rows[i] # rows[j]
  BY DEF Orders, SetToSeqs
<1> HIDE DEF n
<1>3. rows \in Seq(S) /\ Len(rows) = n
  BY <1>1, <1>2
<1>4. ASSUME NEW x \in S, \A i \in 1 .. n : rows[i] # x PROVE FALSE
  <2>1. rows \in Injection(1 .. n, S \ {x})
    BY <1>2, <1>4 DEF Injection, IsInjective
  <2>2. IsFiniteSet(S \ {x}) /\ Cardinality(S \ {x}) = n - 1
    BY FS_RemoveElement DEF n
  <2>3. Cardinality(1 .. n) <= Cardinality(S \ {x})
    BY <2>1, <2>2, FS_Injection
  <2>4. Cardinality(1 .. n) = n
    BY <1>1, FS_Interval
  <2> QED
    BY <1>1, <2>2, <2>3, <2>4
<1> QED
  BY <1>1, <1>2, <1>3, <1>4

\* The order in which the simulation's statement returns them is one of them.
LEMMA OneOrder ==
  ASSUME NEW S, IsFiniteSet(S)
  PROVE  SetToSeq(S) \in Orders(S)
<1>1. PICK m \in Nat : ExistsBijection(1 .. m, S)
  BY FS_NatBijection
<1>2. Cardinality(S) = m
  BY <1>1, FS_CountingElements
<1>3. PICK f \in [1 .. m -> S] : IsInjective(f)
  BY <1>1 DEF ExistsBijection, Bijection, Injection
<1>4. SetToSeq(S) \in [1 .. m -> S] /\ IsInjective(SetToSeq(S))
  BY <1>2, <1>3 DEF SetToSeq
<1> QED
  BY <1>2, <1>4 DEF Orders, SetToSeqs, IsInjective

\* Two prefixes of one number, as long as each other, are one prefix.
LEMMA OnePrefix ==
  ASSUME NEW X, NEW p \in Seq(X), NEW q \in Seq(X), NEW dst,
         IsPrefix(p, dst), IsPrefix(q, dst), Len(p) = Len(q)
  PROVE  p = q
<1>1. SubSeq(p, 1, Len(p)) = p /\ SubSeq(q, 1, Len(q)) = q
  BY SubSeqFull
<1> QED
  BY <1>1 DEF IsPrefix

---------------------------------------------------------------------------
(* The five searches.                                                      *)
FitsNumber(r, dst) == r.prefix # CatchAll /\ IsPrefix(r.prefix, dst)

\* What the search holds, and what it is among the rows known.
Found(S) == [best : S \cup {NoRow}, catchAll : S \cup {NoRow}, length : Int]

BestOf(f, known, dst) ==
  /\ f.best = NoRow => f.length = -1 /\ \A r \in known : ~FitsNumber(r, dst)
  /\ f.best # NoRow =>
       /\ f.best \in known /\ FitsNumber(f.best, dst) /\ f.length = Len(f.best.prefix)
       /\ \A r \in known : FitsNumber(r, dst) => Len(r.prefix) <= f.length
  /\ f.catchAll = NoRow => \A r \in known : r.prefix # CatchAll
  /\ f.catchAll # NoRow => f.catchAll \in known /\ f.catchAll.prefix = CatchAll

\* A row of a table has a prefix, and is not the absence of a row.
LEMMA PrefixLength ==
  ASSUME NEW S, IsTable(S), NEW r \in S
  PROVE  Len(r.prefix) \in Nat /\ Len(r.prefix) >= 1 /\ r # NoRow
         /\ r.prefix \in Seq(Digits \cup {"*"})
<1>1. r.prefix \in Seq(Digits \cup {"*"}) /\ r.prefix # <<>>
  BY DEF IsTable
<1>2. r # NoRow
  BY <1>1 DEF NoRow
<1>3. Len(r.prefix) \in Nat /\ Len(r.prefix) # 0
  BY <1>1, EmptySeq, LenProperties
<1> QED
  BY <1>1, <1>2, <1>3

\* One turn of the search.
LEMMA VisitKeeps ==
  ASSUME NEW S, IsTable(S), NEW known \in SUBSET S, NEW r \in S, NEW dst,
         NEW f \in Found(S), BestOf(f, known, dst)
  PROVE  Visit(f, r, dst) \in Found(S) /\ BestOf(Visit(f, r, dst), known \cup {r}, dst)
<1>1. Len(r.prefix) \in Nat /\ Len(r.prefix) >= 1 /\ r # NoRow
  BY PrefixLength
<1>2. f = [best |-> f.best, catchAll |-> f.catchAll, length |-> f.length]
      /\ f.best \in S \cup {NoRow} /\ f.catchAll \in S \cup {NoRow} /\ f.length \in Int
  BY DEF Found
<1>3. CASE r.prefix = CatchAll
  <2> DEFINE g == [best |-> f.best, length |-> f.length,
                   catchAll |-> IF f.catchAll = NoRow THEN r ELSE f.catchAll]
  <2>1. Visit(f, r, dst) = g
    BY <1>2, <1>3 DEF Visit
  <2>2. g \in Found(S)
    BY <1>2 DEF Found
  <2>3. ~FitsNumber(r, dst)
    BY <1>3 DEF FitsNumber
  <2>4. BestOf(g, known \cup {r}, dst)
    BY <1>1, <1>3, <2>3 DEF BestOf
  <2> QED
    BY <2>1, <2>2, <2>4
<1>4. CASE FitsNumber(r, dst) /\ Len(r.prefix) > f.length
  <2> DEFINE g == [best |-> r, length |-> Len(r.prefix), catchAll |-> f.catchAll]
  <2>1. Visit(f, r, dst) = g
    BY <1>2, <1>4 DEF Visit, FitsNumber
  <2>2. g \in Found(S)
    BY <1>1, <1>2 DEF Found
  <2>3. r.prefix # CatchAll
    BY <1>4 DEF FitsNumber
  <2>4. \A x \in known : FitsNumber(x, dst) => Len(x.prefix) <= Len(r.prefix)
    <3> SUFFICES ASSUME NEW x \in known, FitsNumber(x, dst) PROVE Len(x.prefix) <= Len(r.prefix)
      OBVIOUS
    <3>1. Len(x.prefix) <= f.length /\ Len(x.prefix) \in Nat
      BY PrefixLength DEF BestOf
    <3> QED
      BY <1>1, <1>2, <1>4, <3>1
  <2>5. BestOf(g, known \cup {r}, dst)
    BY <1>1, <1>4, <2>3, <2>4 DEF BestOf
  <2> QED
    BY <2>1, <2>2, <2>5
<1>5. CASE r.prefix # CatchAll /\ ~(FitsNumber(r, dst) /\ Len(r.prefix) > f.length)
  <2>1. Visit(f, r, dst) = f
    BY <1>2, <1>5 DEF Visit, FitsNumber
  <2>2. FitsNumber(r, dst) => f.best # NoRow /\ Len(r.prefix) <= f.length
    BY <1>1, <1>2, <1>5 DEF BestOf
  <2>3. BestOf(f, known \cup {r}, dst)
    BY <1>5, <2>2 DEF BestOf
  <2> QED
    BY <2>1, <2>3
<1> QED
  BY <1>3, <1>4, <1>5 DEF FitsNumber

\* What is found after all rows is what the table promises.
LEMMA BestAnswers ==
  ASSUME NEW S, IsTable(S), NEW A \in SUBSET S, NEW f, NEW to,
         BestOf(f, A, normalizeDestination(to))
  PROVE  Answers(A, to, Pick(f))
<1> DEFINE dst == normalizeDestination(to)
           fits == {r \in A : r.prefix # CatchAll /\ IsPrefix(r.prefix, dst)}
<1>1. fits = {r \in A : FitsNumber(r, dst)}
  BY DEF FitsNumber
<1>2. CASE f.best # NoRow
  BY <1>1, <1>2 DEF Answers, Pick, BestOf
<1>3. CASE f.best = NoRow /\ f.catchAll # NoRow
  BY <1>1, <1>3 DEF Answers, Pick, BestOf
<1>4. CASE f.best = NoRow /\ f.catchAll = NoRow
  BY <1>1, <1>4 DEF Answers, Pick, BestOf
<1> QED
  BY <1>2, <1>3, <1>4

\* The whole search: the rows of A are looked at, the others passed over.
LEMMA SearchFinds ==
  ASSUME NEW S, IsTable(S), NEW A \in SUBSET S, NEW rows \in Orders(S), NEW dst,
         NEW f, f[0] = Nothing,
         \A i \in 1 .. Len(rows) :
           f[i] = IF rows[i] \in A THEN Visit(f[i - 1], rows[i], dst) ELSE f[i - 1]
  PROVE  BestOf(f[Len(rows)], A, dst)
<1> DEFINE n == Len(rows)
           known(i) == {x \in A : \E j \in 1 .. i : rows[j] = x}
           P == {i \in 0 .. n : f[i] \in Found(S) /\ BestOf(f[i], known(i), dst)}
<1>1. n \in Nat /\ (\A i \in 1 .. n : rows[i] \in S)
      /\ \A x \in S : \E i \in 1 .. n : rows[i] = x
  BY EveryRowOnce DEF IsTable
<1> HIDE DEF n
<1>2. 0 \in P
  <2>1. known(0) = {}
    OBVIOUS
  <2>2. Nothing \in Found(S) /\ BestOf(Nothing, {}, dst)
    BY DEF Nothing, Found, BestOf
  <2>3. f[0] \in Found(S) /\ BestOf(f[0], known(0), dst)
    BY <2>1, <2>2
  <2> HIDE DEF known
  <2> QED
    BY <1>1, <2>3
<1>3. ASSUME NEW i \in 1 .. n, i - 1 \in P PROVE i \in P
  <2>1. f[i - 1] \in Found(S) /\ BestOf(f[i - 1], known(i - 1), dst)
    BY <1>3
  <2>2. rows[i] \in S /\ known(i - 1) \in SUBSET S
    BY <1>1
  <2>3. CASE rows[i] \in A
    <3>1. f[i] = Visit(f[i - 1], rows[i], dst)
      BY <2>3 DEF n
    <3>2. known(i) = known(i - 1) \cup {rows[i]}
      BY <2>3
    <3> HIDE DEF known
    <3>3. /\ Visit(f[i - 1], rows[i], dst) \in Found(S)
          /\ BestOf(Visit(f[i - 1], rows[i], dst), known(i - 1) \cup {rows[i]}, dst)
      BY <2>1, <2>2, VisitKeeps
    <3>4. f[i] \in Found(S) /\ BestOf(f[i], known(i), dst)
      BY <3>1, <3>2, <3>3
    <3> QED
      BY <3>4, <1>1
  <2>4. CASE rows[i] \notin A
    <3>1. f[i] = f[i - 1]
      BY <2>4 DEF n
    <3>2. known(i) = known(i - 1)
      BY <2>4
    <3> HIDE DEF known
    <3> QED
      BY <2>1, <3>1, <3>2, <1>1
  <2> QED
    BY <2>3, <2>4
<1>4. n \in P
  <2> HIDE DEF P
  <2>1. 0 .. n \subseteq P
    BY <1>1, <1>2, <1>3, CountsUp
  <2> QED
    BY <1>1, <2>1
<1>5. known(n) = A
  BY <1>1
<1> QED
  BY <1>4, <1>5 DEF n

\* The recursion has a value.
Searching(f, rows, A, dst) ==
  f = [i \in 0 .. Len(rows) |->
         IF i = 0 THEN Nothing
         ELSE IF rows[i] \in A THEN Visit(f[i - 1], rows[i], dst) ELSE f[i - 1]]

\* The recursion of a search has a solution: CHOOSE gives one.
LEMMA SearchRuns ==
  ASSUME NEW S, IsTable(S), NEW A \in SUBSET S, NEW rows \in Orders(S), NEW dst
  PROVE  \E f : Searching(f, rows, A, dst)
<1> DEFINE n == Len(rows)
           F == Found(S)
           turn(i) == [f \in F |-> IF rows[i] \in A THEN Visit(f, rows[i], dst) ELSE f]
           step == [i \in 1 .. n |-> turn(i)]
<1>1. n \in Nat /\ \A i \in 1 .. n : rows[i] \in S
  BY EveryRowOnce DEF IsTable
<1>2. Nothing \in F
  BY DEF Nothing, Found
<1>3. ASSUME NEW r \in S, NEW f \in F PROVE Visit(f, r, dst) \in F
  <2>1. f = [best |-> f.best, catchAll |-> f.catchAll, length |-> f.length]
        /\ f.best \in S \cup {NoRow} /\ f.catchAll \in S \cup {NoRow} /\ f.length \in Int
    BY DEF Found
  <2>2. Len(r.prefix) \in Nat
    BY PrefixLength
  <2>3. Visit(f, r, dst) \in
          {f, [best |-> f.best, length |-> f.length,
               catchAll |-> IF f.catchAll = NoRow THEN r ELSE f.catchAll],
           [best |-> r, length |-> Len(r.prefix), catchAll |-> f.catchAll]}
    BY <2>1 DEF Visit
  <2> QED
    BY <2>1, <2>2, <2>3 DEF Found
<1>4. \A i \in 1 .. n : turn(i) \in [F -> F]
  <2> HIDE DEF F
  <2> QED
    BY <1>1, <1>3
<1> HIDE DEF n, F
<1>5. PICK f \in [0 .. n -> F] : f[0] = Nothing /\ \A i \in 1 .. n : f[i] = turn(i)[f[i - 1]]
  <2>1. step \in [1 .. n -> [F -> F]] /\ \A i \in 1 .. n : step[i] = turn(i)
    BY <1>4
  <2> HIDE DEF step, turn
  <2>2. \E f : Loops(f, n, F, Nothing, step)
    BY <1>1, <1>2, <2>1, LoopRuns
  <2> QED
    BY <2>1, <2>2 DEF Loops
<1>6. ASSUME NEW i \in 1 .. n
      PROVE  f[i] = IF rows[i] \in A THEN Visit(f[i - 1], rows[i], dst) ELSE f[i - 1]
  <2>1. f[i - 1] \in F
    BY <1>1
  <2> QED
    BY <1>5, <2>1
<1>7. f = [i \in 0 .. n |-> IF i = 0 THEN Nothing
                            ELSE IF rows[i] \in A THEN Visit(f[i - 1], rows[i], dst) ELSE f[i - 1]]
  BY <1>1, <1>5, <1>6
<1> QED
  BY <1>7 DEF n, Searching

\* The search of the four copies.
LEMMA LongestAnswers ==
  ASSUME NEW S, IsTable(S), NEW rows \in Orders(S), NEW to
  PROVE  Answers(S, to, longestPrefix(rows, to))
<1> DEFINE dst == normalizeDestination(to)
           Runs(f) == f = [i \in 0 .. Len(rows) |->
                             IF i = 0 THEN Nothing ELSE Visit(f[i - 1], rows[i], dst)]
           w == CHOOSE f : Runs(f)
<1>1. Len(rows) \in Nat /\ \A i \in 1 .. Len(rows) : rows[i] \in S
  BY EveryRowOnce DEF IsTable
<1>2. \E f : Runs(f)
  <2> HIDE DEF dst
  <2>1. PICK f : Searching(f, rows, S, dst)
    BY SearchRuns
  <2>2. \A i \in 0 .. Len(rows) : i # 0 => i \in 1 .. Len(rows)
    BY <1>1
  <2>3. Runs(f)
    BY <1>1, <2>1, <2>2 DEF Searching
  <2> QED
    BY <2>3
<1>3. Runs(w)
  <2> HIDE DEF Runs
  <2> QED
    BY <1>2
<1>4. longestPrefix(rows, to) = Pick(w[Len(rows)])
  BY DEF longestPrefix
<1> HIDE DEF w, dst
<1>5. w[0] = Nothing /\ \A i \in 1 .. Len(rows) :
        w[i] = IF rows[i] \in S THEN Visit(w[i - 1], rows[i], dst) ELSE w[i - 1]
  BY <1>1, <1>3
<1>6. BestOf(w[Len(rows)], S, dst)
  <2> HIDE DEF Runs
  <2> QED
    BY <1>5, SearchFinds
<1> QED
  BY <1>4, <1>6, BestAnswers DEF dst

\* The copy the tests use, which passes over the inactive rows itself.
LEMMA MatchAnswers ==
  ASSUME NEW S, IsTable(S), NEW rows \in Orders(S), NEW to
  PROVE  Answers({r \in S : r.status = "active"}, to, LongestPrefixMatch(rows, to))
<1> DEFINE dst == normalizeDestination(to)
           A == {r \in S : r.status = "active"}
           Runs(f) == f = [i \in 0 .. Len(rows) |->
                             IF i = 0 THEN Nothing
                             ELSE IF rows[i].status = "active"
                                  THEN Visit(f[i - 1], rows[i], dst) ELSE f[i - 1]]
           w == CHOOSE f : Runs(f)
<1>1. /\ Len(rows) \in Nat
      /\ \A i \in 1 .. Len(rows) : rows[i] \in A <=> rows[i].status = "active"
  BY EveryRowOnce DEF IsTable
<1>2. \E f : Runs(f)
  <2> HIDE DEF dst, A
  <2>1. A \in SUBSET S
    BY DEF A
  <2>2. PICK f : Searching(f, rows, A, dst)
    BY <2>1, SearchRuns
  <2>3. \A i \in 0 .. Len(rows) : i # 0 => i \in 1 .. Len(rows)
    BY <1>1
  <2>4. Runs(f)
    BY <1>1, <2>2, <2>3 DEF Searching
  <2> QED
    BY <2>4
<1>3. Runs(w)
  <2> HIDE DEF Runs
  <2> QED
    BY <1>2
<1>4. LongestPrefixMatch(rows, to) = Pick(w[Len(rows)])
  BY DEF LongestPrefixMatch
<1>5. A \in SUBSET S
  OBVIOUS
<1> HIDE DEF w, dst, A
<1>6. w[0] = Nothing /\ \A i \in 1 .. Len(rows) :
        w[i] = IF rows[i] \in A THEN Visit(w[i - 1], rows[i], dst) ELSE w[i - 1]
  BY <1>1, <1>3
<1>7. BestOf(w[Len(rows)], A, dst)
  <2> HIDE DEF Runs
  <2> QED
    BY <1>5, <1>6, SearchFinds
<1>8. Answers(A, to, Pick(w[Len(rows)]))
  BY <1>5, <1>7, BestAnswers DEF dst
<1> QED
  BY <1>4, <1>8 DEF A

\* A table without twins has one answer.
LEMMA OneAnswer ==
  ASSUME NEW S, IsTable(S), ~HasTwins(S), NEW to, NEW r, NEW s,
         Answers(S, to, r), Answers(S, to, s)
  PROVE  r = s
<1> DEFINE dst == normalizeDestination(to)
           fits == {x \in S : x.prefix # CatchAll /\ IsPrefix(x.prefix, dst)}
<1>1. ASSUME NEW x \in S, NEW y \in S, x.prefix = y.prefix PROVE x = y
  BY <1>1 DEF HasTwins
<1>2. CASE fits # {}
  <2>1. r \in fits /\ s \in fits /\ Len(r.prefix) <= Len(s.prefix) /\ Len(s.prefix) <= Len(r.prefix)
    BY <1>2 DEF Answers
  <2>2. Len(r.prefix) \in Nat /\ Len(s.prefix) \in Nat
        /\ r.prefix \in Seq(Digits \cup {"*"}) /\ s.prefix \in Seq(Digits \cup {"*"})
    BY <2>1, PrefixLength
  <2>3. Len(r.prefix) = Len(s.prefix)
    BY <2>1, <2>2
  <2>4. r.prefix = s.prefix
    BY <2>1, <2>2, <2>3, OnePrefix
  <2> QED
    BY <1>1, <2>1, <2>4
<1>3. CASE fits = {}
  <2>1. \A x : Answers(S, to, x) =>
          (x \in S /\ x.prefix = CatchAll) \/ (x = NoRow /\ \A y \in S : y.prefix # CatchAll)
    BY <1>3 DEF Answers
  <2> QED
    BY <1>1, <2>1
<1> QED
  BY <1>2, <1>3

---------------------------------------------------------------------------
\* The search inside the loss check: no row, no length; a catch-all without a
\* length; or the first of the longest.
HeldSoFar(S) == [row : S \cup {NoRow}, length : Int]

LossBest(f, known, dst) ==
  \/ /\ f.length = -1
     /\ \A x \in known : ~FitsNumber(x, dst)
     /\ f.row = NoRow => \A x \in known : x.prefix # CatchAll
     /\ f.row # NoRow => f.row \in known /\ f.row.prefix = CatchAll
  \/ /\ f.length >= 1 /\ f.row \in known /\ FitsNumber(f.row, dst) /\ f.length = Len(f.row.prefix)
     /\ \A x \in known : FitsNumber(x, dst) => Len(x.prefix) <= f.length

\* One turn of that search.
LEMMA LossTurnKeeps ==
  ASSUME NEW S, IsTable(S), NEW known \in SUBSET S, NEW r \in S, NEW dst,
         NEW f \in HeldSoFar(S), LossBest(f, known, dst)
  PROVE  LossTurn(f, r, dst) \in HeldSoFar(S) /\ LossBest(LossTurn(f, r, dst), known \cup {r}, dst)
<1>1. Len(r.prefix) \in Nat /\ Len(r.prefix) >= 1 /\ r # NoRow
  BY PrefixLength
<1>2. f = [row |-> f.row, length |-> f.length] /\ f.row \in S \cup {NoRow} /\ f.length \in Int
  BY DEF HeldSoFar
<1>3. CASE r.prefix = CatchAll
  <2>1. ~FitsNumber(r, dst)
    BY <1>3 DEF FitsNumber
  <2>2. CASE f.length = -1
    <3>1. LossTurn(f, r, dst) = [row |-> r, length |-> -1]
      BY <1>2, <1>3, <2>2 DEF LossTurn
    <3>2. LossBest([row |-> r, length |-> -1], known \cup {r}, dst)
      BY <1>1, <1>3, <2>1, <2>2 DEF LossBest
    <3> QED
      BY <3>1, <3>2 DEF HeldSoFar
  <2>3. CASE f.length # -1
    <3>1. f.length >= 1
      BY <2>3 DEF LossBest
    <3>2. LossTurn(f, r, dst) = f
      BY <1>2, <1>3, <3>1 DEF LossTurn
    <3>3. LossBest(f, known \cup {r}, dst)
      BY <2>1, <2>3 DEF LossBest
    <3> QED
      BY <3>2, <3>3
  <2> QED
    BY <2>2, <2>3
<1>4. CASE FitsNumber(r, dst) /\ Len(r.prefix) > f.length
  <2> DEFINE g == [row |-> r, length |-> Len(r.prefix)]
  <2>1. LossTurn(f, r, dst) = g
    BY <1>2, <1>4 DEF LossTurn, FitsNumber
  <2>2. g \in HeldSoFar(S)
    BY <1>1, <1>2 DEF HeldSoFar
  <2>3. \A x \in known : FitsNumber(x, dst) => Len(x.prefix) <= Len(r.prefix)
    <3> SUFFICES ASSUME NEW x \in known, FitsNumber(x, dst) PROVE Len(x.prefix) <= Len(r.prefix)
      OBVIOUS
    <3>1. Len(x.prefix) <= f.length /\ Len(x.prefix) \in Nat
      BY PrefixLength DEF LossBest
    <3> QED
      BY <1>1, <1>2, <1>4, <3>1
  <2>4. LossBest(g, known \cup {r}, dst)
    BY <1>1, <1>4, <2>3 DEF LossBest
  <2> QED
    BY <2>1, <2>2, <2>4
<1>5. CASE r.prefix # CatchAll /\ ~(FitsNumber(r, dst) /\ Len(r.prefix) > f.length)
  <2>1. LossTurn(f, r, dst) = f
    BY <1>2, <1>5 DEF LossTurn, FitsNumber
  <2>2. FitsNumber(r, dst) => f.length >= 1 /\ Len(r.prefix) <= f.length
    BY <1>1, <1>2, <1>5 DEF LossBest
  <2>3. LossBest(f, known \cup {r}, dst)
    BY <1>2, <1>5, <2>2 DEF LossBest
  <2> QED
    BY <2>1, <2>3
<1> QED
  BY <1>3, <1>4, <1>5 DEF FitsNumber

LossSearching(f, rows, dst) ==
  f = [i \in 0 .. Len(rows) |->
         IF i = 0 THEN [row |-> NoRow, length |-> -1] ELSE LossTurn(f[i - 1], rows[i], dst)]

\* Its recursion has a solution, too.
LEMMA LossSearchRuns ==
  ASSUME NEW S, IsTable(S), NEW rows \in Orders(S), NEW dst
  PROVE  \E f : LossSearching(f, rows, dst)
<1> DEFINE n == Len(rows)
           F == HeldSoFar(S)
           turn(i) == [f \in F |-> LossTurn(f, rows[i], dst)]
           step == [i \in 1 .. n |-> turn(i)]
           z == [row |-> NoRow, length |-> -1]
<1>1. n \in Nat /\ \A i \in 1 .. n : rows[i] \in S
  BY EveryRowOnce DEF IsTable
<1>2. z \in F
  BY DEF HeldSoFar
<1>3. ASSUME NEW r \in S, NEW f \in F PROVE LossTurn(f, r, dst) \in F
  <2>1. f = [row |-> f.row, length |-> f.length] /\ f.length \in Int
    BY DEF HeldSoFar
  <2>2. Len(r.prefix) \in Nat
    BY PrefixLength
  <2>3. LossTurn(f, r, dst) \in
          {f, [row |-> r, length |-> f.length], [row |-> r, length |-> Len(r.prefix)]}
    BY <2>1 DEF LossTurn
  <2> QED
    BY <2>1, <2>2, <2>3 DEF HeldSoFar
<1>4. \A i \in 1 .. n : turn(i) \in [F -> F]
  <2> HIDE DEF F
  <2> QED
    BY <1>1, <1>3
<1> HIDE DEF n, F, z
<1>5. PICK f \in [0 .. n -> F] : f[0] = z /\ \A i \in 1 .. n : f[i] = turn(i)[f[i - 1]]
  <2>1. step \in [1 .. n -> [F -> F]] /\ \A i \in 1 .. n : step[i] = turn(i)
    BY <1>4
  <2> HIDE DEF step, turn
  <2>2. \E f : Loops(f, n, F, z, step)
    BY <1>1, <1>2, <2>1, LoopRuns
  <2> QED
    BY <2>1, <2>2 DEF Loops
<1>6. ASSUME NEW i \in 1 .. n PROVE f[i] = LossTurn(f[i - 1], rows[i], dst)
  <2>1. f[i - 1] \in F
    BY <1>1
  <2> QED
    BY <1>5, <2>1
<1>7. f = [i \in 0 .. n |-> IF i = 0 THEN z ELSE LossTurn(f[i - 1], rows[i], dst)]
  BY <1>1, <1>5, <1>6
<1> QED
  BY <1>7 DEF n, z, LossSearching

\* The loss check's own search keeps the same promise.
LEMMA LossAnswers ==
  ASSUME NEW S, IsTable(S), NEW rows \in Orders(S), NEW to
  PROVE  Answers(S, to, LossRow(rows, normalizeDestination(to)))
<1> DEFINE dst == normalizeDestination(to)
           n == Len(rows)
           w == CHOOSE f : LossSearching(f, rows, dst)
           known(i) == {x \in S : \E j \in 1 .. i : rows[j] = x}
           P == {i \in 0 .. n : w[i] \in HeldSoFar(S) /\ LossBest(w[i], known(i), dst)}
<1>1. n \in Nat /\ (\A i \in 1 .. n : rows[i] \in S)
      /\ \A x \in S : \E i \in 1 .. n : rows[i] = x
  BY EveryRowOnce DEF IsTable
<1>2. LossSearching(w, rows, dst)
  <2> HIDE DEF dst
  <2> QED
    BY LossSearchRuns
<1>3. LossRow(rows, dst) = w[n].row
  BY DEF LossRow, LossSearching
<1>4. w[0] = [row |-> NoRow, length |-> -1]
      /\ \A i \in 1 .. n : w[i] = LossTurn(w[i - 1], rows[i], dst)
  <2> HIDE DEF w, dst
  <2> QED
    BY <1>1, <1>2 DEF LossSearching
<1> HIDE DEF n, w, dst
<1>5. 0 \in P
  <2>1. known(0) = {}
    OBVIOUS
  <2>2. w[0] \in HeldSoFar(S) /\ LossBest(w[0], {}, dst)
    BY <1>4 DEF HeldSoFar, LossBest
  <2> HIDE DEF known
  <2>3. w[0] \in HeldSoFar(S) /\ LossBest(w[0], known(0), dst)
    BY <2>1, <2>2
  <2> QED
    BY <1>1, <2>3
<1>6. ASSUME NEW i \in 1 .. n, i - 1 \in P PROVE i \in P
  <2>1. w[i - 1] \in HeldSoFar(S) /\ LossBest(w[i - 1], known(i - 1), dst)
    BY <1>6
  <2>2. rows[i] \in S /\ known(i - 1) \in SUBSET S
    BY <1>1
  <2>3. known(i) = known(i - 1) \cup {rows[i]}
    BY <2>2
  <2> HIDE DEF known
  <2>4. /\ LossTurn(w[i - 1], rows[i], dst) \in HeldSoFar(S)
        /\ LossBest(LossTurn(w[i - 1], rows[i], dst), known(i - 1) \cup {rows[i]}, dst)
    BY <2>1, <2>2, LossTurnKeeps
  <2>5. w[i] \in HeldSoFar(S) /\ LossBest(w[i], known(i), dst)
    BY <1>4, <2>3, <2>4
  <2> QED
    BY <1>1, <2>5
<1>7. n \in P
  <2> HIDE DEF P
  <2>1. 0 .. n \subseteq P
    BY <1>1, <1>5, <1>6, CountsUp
  <2> QED
    BY <1>1, <2>1
<1>8. known(n) = S
  BY <1>1
<1>9. LossBest(w[n], S, dst)
  BY <1>7, <1>8
<1>10. Answers(S, to, w[n].row)
  <2> DEFINE fits == {r \in S : r.prefix # CatchAll /\ IsPrefix(r.prefix, dst)}
  <2>1. fits = {r \in S : FitsNumber(r, dst)}
    BY DEF FitsNumber
  <2>2. CASE w[n].length = -1 /\ w[n].row = NoRow
    BY <1>9, <2>1, <2>2 DEF LossBest, Answers, dst
  <2>3. CASE w[n].length = -1 /\ w[n].row # NoRow
    BY <1>9, <2>1, <2>3 DEF LossBest, Answers, dst
  <2>4. CASE w[n].length # -1
    BY <1>9, <2>1, <2>4 DEF LossBest, Answers, dst
  <2> QED
    BY <2>2, <2>3, <2>4
<1> QED
  BY <1>3, <1>10 DEF dst

\* The route cache gives the active rows alone.
LEMMA PartOfTable ==
  ASSUME NEW S, IsTable(S), NEW A \in SUBSET S
  PROVE  IsTable(A) /\ (~HasTwins(S) => ~HasTwins(A))
<1>1. IsFiniteSet(A)
  BY FS_Subset DEF IsTable
<1> QED
  BY <1>1 DEF IsTable, HasTwins

\* For every table and number, the searches agree.
LEMMA SearchesDoAgree == setup \in Setups => SearchesAgree
<1> SUFFICES ASSUME setup \in Setups, NEW to \in Destinations
             PROVE  /\ \A g \in DOMAIN setup.groups : \A rows \in Orders(setup.groups[g]) :
                         /\ Answers(setup.groups[g], to, longestPrefixRate(rows, to))
                         /\ HasTwins(setup.groups[g])
                              \/ LossRow(rows, normalizeDestination(to)) = longestPrefixRate(rows, to)
                    /\ \A rows \in Orders(ActiveRoutes(setup)) :
                         LET hit == longestPrefix(rows, to)
                         IN  /\ Answers(ActiveRoutes(setup), to, hit)
                             /\ longestPrefixRoute(rows, to) = hit
                             /\ simulationLongestPrefixRoute(rows, to) = hit
                             /\ \A all \in Orders(setup.routes) : LongestPrefixMatch(all, to) = hit
  BY DEF SearchesAgree
<1>1. ASSUME NEW g \in DOMAIN setup.groups, NEW rows \in Orders(setup.groups[g])
      PROVE  /\ Answers(setup.groups[g], to, longestPrefixRate(rows, to))
             /\ HasTwins(setup.groups[g])
                  \/ LossRow(rows, normalizeDestination(to)) = longestPrefixRate(rows, to)
  <2>1. IsTable(setup.groups[g])
    BY RoutingAssumption
  <2>2. Answers(setup.groups[g], to, longestPrefixRate(rows, to))
    BY <2>1, LongestAnswers DEF longestPrefixRate
  <2>3. Answers(setup.groups[g], to, LossRow(rows, normalizeDestination(to)))
    BY <2>1, LossAnswers
  <2> QED
    BY <2>1, <2>2, <2>3, OneAnswer
<1>2. ASSUME NEW rows \in Orders(ActiveRoutes(setup))
      PROVE  /\ Answers(ActiveRoutes(setup), to, longestPrefix(rows, to))
             /\ \A all \in Orders(setup.routes) : LongestPrefixMatch(all, to) = longestPrefix(rows, to)
  <2>1. IsTable(setup.routes) /\ ~HasTwins(setup.routes)
    BY RoutingAssumption
  <2>2. IsTable(ActiveRoutes(setup)) /\ ~HasTwins(ActiveRoutes(setup))
    BY <2>1, PartOfTable DEF ActiveRoutes
  <2>3. Answers(ActiveRoutes(setup), to, longestPrefix(rows, to))
    BY <2>2, LongestAnswers
  <2>4. ASSUME NEW all \in Orders(setup.routes)
        PROVE  Answers(ActiveRoutes(setup), to, LongestPrefixMatch(all, to))
    BY <2>1, MatchAnswers DEF ActiveRoutes
  <2> QED
    BY <2>2, <2>3, <2>4, OneAnswer
<1> QED
  BY <1>1, <1>2 DEF longestPrefixRoute, simulationLongestPrefixRoute

---------------------------------------------------------------------------
(* The number on the wire.                                                 *)

\* What is left of a number without the characters c it starts with.
LEMMA TrimLeaves ==
  ASSUME NEW X, NEW s \in Seq(X), NEW c
  PROVE  \/ TrimLeft(s, c) = <<>>
         \/ \E k \in 1 .. Len(s) : s[k] # c /\ TrimLeft(s, c) = SubSeq(s, k, Len(s))
<1> DEFINE I == {i \in 1 .. Len(s) : s[i] # c}
           at1 == IF I # {} THEN Min(I) ELSE 0
<1>1. Len(s) \in Nat
  BY LenProperties
<1>2. TrimLeft(s, c) = IF at1 = 0 THEN <<>> ELSE SubSeq(s, at1, Len(s))
  BY DEF TrimLeft, SelectInSeq
<1>3. I # {} => Min(I) \in I
  <2> SUFFICES ASSUME I # {} PROVE Min(I) \in I
    OBVIOUS
  <2>1. I \in SUBSET (0 .. Len(s))
    BY <1>1
  <2> HIDE DEF I
  <2>2. \E i \in I : \A j \in I : i <= j
    BY <1>1, <2>1, LeastIndex
  <2> QED
    BY <2>2 DEF Min
<1>4. CASE I = {}
  BY <1>2, <1>4
<1>5. CASE I # {}
  <2>1. Min(I) \in 1 .. Len(s) /\ s[Min(I)] # c
    BY <1>3, <1>5
  <2>2. at1 = Min(I) /\ at1 # 0
    BY <1>5, <2>1
  <2> HIDE DEF I, at1
  <2> QED
    BY <1>2, <2>1, <2>2
<1> QED
  BY <1>4, <1>5

Number(to) == to \in Seq(Digits \cup {"+"}) /\ \A i \in 2 .. Len(to) : to[i] \in Digits

\* Without its plus a number is digits; without zeros it is still digits.
LEMMA TrimsToDigits ==
  /\ \A to : Number(to) => TrimLeft(to, "+") \in Seq(Digits)
  /\ \A c : \A s \in Seq(Digits) : TrimLeft(s, c) \in Seq(Digits)
<1>1. ASSUME NEW to, Number(to) PROVE TrimLeft(to, "+") \in Seq(Digits)
  <2>1. to \in Seq(Digits \cup {"+"}) /\ Len(to) \in Nat
        /\ \A i \in 1 .. Len(to) : to[i] \in Digits \cup {"+"}
    BY <1>1, LenProperties, ElementOfSeq DEF Number
  <2>2. CASE TrimLeft(to, "+") = <<>>
    BY <2>2, EmptySeq
  <2>3. ASSUME NEW k \in 1 .. Len(to), to[k] # "+", TrimLeft(to, "+") = SubSeq(to, k, Len(to))
        PROVE  TrimLeft(to, "+") \in Seq(Digits)
    <3>1. \A i \in k .. Len(to) : to[i] \in Digits
      <4> SUFFICES ASSUME NEW i \in k .. Len(to) PROVE to[i] \in Digits
        OBVIOUS
      <4>1. CASE i = k
        BY <2>1, <2>3, <4>1
      <4>2. CASE i # k
        <5>1. i \in 2 .. Len(to)
          BY <2>1, <4>2
        <5> QED
          BY <1>1, <5>1 DEF Number
      <4> QED
        BY <4>1, <4>2
    <3>2. SubSeq(to, k, Len(to)) \in Seq(Digits)
      BY <2>1, <3>1, SubSeqProperties
    <3> QED
      BY <2>3, <3>2
  <2> QED
    BY <2>1, <2>2, <2>3, TrimLeaves
<1>2. ASSUME NEW s \in Seq(Digits), NEW c PROVE TrimLeft(s, c) \in Seq(Digits)
  <2>1. Len(s) \in Nat /\ \A i \in 1 .. Len(s) : s[i] \in Digits
    BY LenProperties, ElementOfSeq
  <2>2. CASE TrimLeft(s, c) = <<>>
    BY <2>2, EmptySeq
  <2>3. ASSUME NEW k \in 1 .. Len(s), TrimLeft(s, c) = SubSeq(s, k, Len(s))
        PROVE  TrimLeft(s, c) \in Seq(Digits)
    <3>1. SubSeq(s, k, Len(s)) \in Seq(Digits)
      BY <2>1, SubSeqProperties
    <3> QED
      BY <2>3, <3>1
  <2> QED
    BY <2>2, <2>3, TrimLeaves
<1> QED
  BY <1>1, <1>2

\* The chain, link by link.
LEMMA ChainOfFour ==
  ASSUME NEW rules, Len(rules) = 4, NEW number
  PROVE  Translate(rules, number) =
           Rule(rules[4], Rule(rules[3], Rule(rules[2], Rule(rules[1], number))))
<1> DEFINE n1 == Rule(rules[1], number)
           n2 == Rule(rules[2], n1)
           n3 == Rule(rules[3], n2)
           n4 == Rule(rules[4], n3)
           Runs(g) == g = [i \in 0 .. Len(rules) |->
                             IF i = 0 THEN number ELSE Rule(rules[i], g[i - 1])]
           f == [i \in 0 .. 4 |-> IF i = 0 THEN number ELSE IF i = 1 THEN n1
                                  ELSE IF i = 2 THEN n2 ELSE IF i = 3 THEN n3 ELSE n4]
           w == CHOOSE g : Runs(g)
<1>1. Runs(f)
  <2>1. f[0] = number /\ f[1] = Rule(rules[1], f[0]) /\ f[2] = Rule(rules[2], f[1])
        /\ f[3] = Rule(rules[3], f[2]) /\ f[4] = Rule(rules[4], f[3])
    <3>1. f[0] = number /\ f[1] = n1 /\ f[2] = n2 /\ f[3] = n3 /\ f[4] = n4
      <4> HIDE DEF n1, n2, n3, n4
      <4> QED
        OBVIOUS
    <3> HIDE DEF f
    <3> QED
      BY <3>1
  <2>2. ASSUME NEW i \in 0 .. 4
        PROVE  f[i] = IF i = 0 THEN number ELSE Rule(rules[i], f[i - 1])
    <3>1. i = 0 \/ i = 1 \/ i = 2 \/ i = 3 \/ i = 4
      OBVIOUS
    <3> HIDE DEF f
    <3> QED
      BY <2>1, <3>1
  <2>3. f = [i \in 0 .. 4 |-> f[i]]
    OBVIOUS
  <2> HIDE DEF f
  <2> QED
    BY <2>2, <2>3
<1>2. Runs(w)
  <2> HIDE DEF Runs, f
  <2> QED
    BY <1>1
<1>3. Translate(rules, number) = w[4]
  BY DEF Translate
<1> HIDE DEF w
<1>4. w[0] = number /\ w[1] = Rule(rules[1], w[0]) /\ w[2] = Rule(rules[2], w[1])
      /\ w[3] = Rule(rules[3], w[2]) /\ w[4] = Rule(rules[4], w[3])
  BY <1>2
<1> QED
  BY <1>3, <1>4

\* A chain that forces E.164 does, whatever prefix it adds.
LEMMA E164Forced ==
  ASSUME NEW rules, ForcesE164(rules), NEW to, Number(to)
  PROVE  /\ Head(Translate(rules, to)) = "+"
         /\ \A i \in 2 .. Len(Translate(rules, to)) : Translate(rules, to)[i] \in Digits
<1> DEFINE n1 == Rule(rules[1], to)
           n2 == Rule(rules[2], n1)
           n3 == Rule(rules[3], n2)
           n4 == Rule(rules[4], n3)
<1>1. Translate(rules, to) = n4
  BY ChainOfFour DEF ForcesE164
<1>2. n1 = TrimLeft(to, "+")
  BY DEF ForcesE164, Rule
<1>3. n1 \in Seq(Digits)
  BY <1>2, TrimsToDigits
<1> HIDE DEF n1
<1>4. n2 = TrimLeft(n1, "0")
  BY DEF ForcesE164, Rule
<1>5. n2 \in Seq(Digits)
  BY <1>3, <1>4, TrimsToDigits
<1> HIDE DEF n2
<1>6. n3 \in {n2, rules[3].prefix \o n2} /\ rules[3].prefix \in Seq(Digits)
  BY DEF ForcesE164, Rule
<1>7. n3 \in Seq(Digits)
  BY <1>5, <1>6, ConcatProperties
<1> HIDE DEF n3
<1>8. n4 = IF IsPrefix(<<"+">>, n3) THEN n3 ELSE <<"+">> \o n3
  BY DEF ForcesE164, Rule
<1>9. Len(n3) \in Nat /\ \A i \in 1 .. Len(n3) : n3[i] \in Digits
  BY <1>7, LenProperties, ElementOfSeq
<1>10. ~IsPrefix(<<"+">>, n3)
  <2> SUFFICES ASSUME IsPrefix(<<"+">>, n3) PROVE FALSE
    OBVIOUS
  <2>1. Len(<<"+">>) = 1 /\ <<"+">>[1] = "+"
    OBVIOUS
  <2>2. 1 <= Len(n3) /\ SubSeq(<<"+">>, 1, 1) = SubSeq(n3, 1, 1)
    BY <2>1 DEF IsPrefix
  <2>3. SubSeq(<<"+">>, 1, 1)[1] = "+" /\ SubSeq(n3, 1, 1)[1] = n3[1]
    BY <1>7, <1>9, <2>2
  <2>4. n3[1] \in Digits
    BY <1>9, <2>2
  <2> QED
    BY <2>2, <2>3, <2>4 DEF Digits
<1>11. n4 = <<"+">> \o n3
  BY <1>8, <1>10
<1> HIDE DEF n4
<1>12. /\ Len(n4) = Len(n3) + 1 /\ n4[1] = "+" /\ n4 # <<>>
       /\ \A i \in 2 .. Len(n4) : n4[i] = n3[i - 1]
  BY <1>7, <1>9, <1>11
<1>13. ASSUME NEW i \in 2 .. Len(n4) PROVE n4[i] \in Digits
  <2>1. i - 1 \in 1 .. Len(n3)
    BY <1>9, <1>12
  <2> QED
    BY <1>9, <1>12, <2>1
<1> QED
  BY <1>1, <1>12, <1>13

---------------------------------------------------------------------------
(* The steps of a message.                                                 *)
\* What the steps keep besides the sender: types, where the message is going,
\* the number sent, nothing decided before the end.
NumberInv ==
  /\ cached \in Setups
  /\ edits \in 0 .. MaxEdits /\ faults \in 0 .. MaxFaults
  /\ msg.pc \in {"idle", "resolved", "priced", "queued", "try", "send", "sent", "done"}
  /\ {msg.sid.value, msg.answer.value} \subseteq AllSenders
  /\ msg.pc \notin {"sent", "done"} => msg.sender \in AllSenders
  /\ msg.claims \in 0 .. MaxAttempts
  /\ msg.left \in Seq(Carriers)
  /\ msg.pc # "idle" => msg.to \in Destinations
  /\ msg.pc \in {"send", "sent"} => msg.at \in Carriers
  /\ msg.pc = "send" => msg.left # <<>>
  /\ msg.wire # <<>> => /\ msg.pc \in {"sent", "done"}
                        /\ msg.asSubmitted =>
                             msg.wire = Translate(setup.carriers[msg.at].rules, msg.to)
  /\ msg.pc # "done" => msg.outcome = "none"

\* The loss check of the carrier contacted, in the order it had the rows, still stands.
LossChecked ==
  \E rows \in Orders(GroupRows(setup, setup.carriers[msg.at].group)) :
    ~InLoss(setup, setup.carriers[msg.at], rows, msg.to, msg.rate)

LossInv ==
  /\ msg.rate \in Nat
  /\ msg.pc \in {"send", "sent"} /\ msg.asChecked /\ msg.checked => LossChecked
  /\ NoUnseenLoss

\* What the simulation finds, and the carriers of its route.
SaleRow == longestPrefixRate(SetToSeq(GroupRows(setup, setup.clientGroup)), msg.to)
RouteRow == SimulatedRoute(setup, msg.to)
Slots == RouteRow.slots

\* Of the route's carriers those no longer left to try are ineligible to the simulation.
Fits(k) == SimulatedEligible(setup, k, msg.answer, msg.to, msg.rate)

PassedOver ==
  /\ \A i \in 1 .. Len(msg.left) : \E j \in 1 .. Len(Slots) : Slots[j] = msg.left[i]
  /\ \A j \in 1 .. Len(Slots) :
       Fits(Slots[j]) => \E i \in 1 .. Len(msg.left) : msg.left[i] = Slots[j]

\* In slot order they are those of the slots before what is left.
PassedInOrder ==
  \E n \in 0 .. Len(Slots) :
    /\ msg.left = SubSeq(Slots, n + 1, Len(Slots))
    /\ \A i \in 1 .. n : ~Fits(Slots[i])

ForesightInv ==
  /\ msg.asSubmitted /\ msg.pc # "idle" => msg.answer = ResolveSenderID(setup, msg.from)
  /\ UnderWay => msg.answer # Refused
  /\ msg.asSubmitted /\ ~Twins /\ msg.pc \in {"priced", "queued", "try", "send"} =>
       SaleRow # NoRow /\ msg.rate = SaleRow.rate
  /\ msg.asSubmitted /\ msg.pc \in {"queued", "try", "send"} => RouteRow # NoRow
  /\ msg.pc = "try" /\ msg.asSubmitted /\ msg.untried /\ setup.failover /\ ~Twins /\ ~Loses(msg) =>
       PassedOver /\ (RouteRow.mode = "failover" => PassedInOrder)
  /\ SimulationAgrees

---------------------------------------------------------------------------
\* A group of rates is a table, and the empty one where there is no group.
LEMMA GroupTable ==
  ASSUME setup \in Setups, NEW g
  PROVE  /\ IsTable(GroupRows(setup, g))
         /\ ~Twins => ~HasTwins(GroupRows(setup, g))
         /\ \A r \in GroupRows(setup, g) : r.rate \in Nat
<1>1. CASE g \in DOMAIN setup.groups
  <2>1. GroupRows(setup, g) = setup.groups[g]
    BY <1>1 DEF GroupRows
  <2>2. IsTable(setup.groups[g]) /\ \A r \in setup.groups[g] : r.rate \in Nat
    BY <1>1, RoutingAssumption
  <2> QED
    BY <1>1, <2>1, <2>2 DEF Twins
<1>2. CASE g \notin DOMAIN setup.groups
  <2>1. GroupRows(setup, g) = {}
    BY <1>2 DEF GroupRows
  <2> QED
    BY <2>1, FS_EmptySet DEF IsTable, HasTwins
<1> QED
  BY <1>1, <1>2

\* A search finds a row of its table, or none.
LEMMA FindsARow ==
  ASSUME NEW S, IsTable(S), NEW rows \in Orders(S), NEW to
  PROVE  longestPrefix(rows, to) \in S \cup {NoRow}
<1>1. Answers(S, to, longestPrefix(rows, to))
  BY LongestAnswers
<1> QED
  BY <1>1 DEF Answers

\* Without twins the order of the rows does not matter, nor which search it is.
LEMMA OneRate ==
  ASSUME setup \in Setups, ~Twins, NEW g, NEW to,
         NEW rows \in Orders(GroupRows(setup, g)), NEW others \in Orders(GroupRows(setup, g))
  PROVE  /\ longestPrefixRate(rows, to) = longestPrefixRate(others, to)
         /\ LossRow(rows, normalizeDestination(to)) = longestPrefixRate(others, to)
<1>1. IsTable(GroupRows(setup, g)) /\ ~HasTwins(GroupRows(setup, g))
  BY GroupTable
<1>2. /\ Answers(GroupRows(setup, g), to, longestPrefixRate(rows, to))
      /\ Answers(GroupRows(setup, g), to, longestPrefixRate(others, to))
  BY <1>1, LongestAnswers DEF longestPrefixRate
<1>3. Answers(GroupRows(setup, g), to, LossRow(rows, normalizeDestination(to)))
  BY <1>1, LossAnswers
<1> QED
  BY <1>1, <1>2, <1>3, OneAnswer

\* The route a message takes is a route of the table, with its carriers.
LEMMA TakesARoute ==
  ASSUME NEW db \in Setups, NEW rows \in Orders(ActiveRoutes(db)), NEW to
  PROVE  /\ longestPrefix(rows, to) # NoRow =>
              longestPrefix(rows, to).slots \in Seq(Carriers) \ {<<>>}
         /\ longestPrefix(rows, to) = simulationLongestPrefixRoute(SetToSeq(ActiveRoutes(db)), to)
<1>1. IsTable(db.routes) /\ ~HasTwins(db.routes)
      /\ \A r \in db.routes : r.slots \in Seq(Carriers) \ {<<>>}
  BY RoutingAssumption
<1>2. IsTable(ActiveRoutes(db)) /\ ~HasTwins(ActiveRoutes(db)) /\ ActiveRoutes(db) \subseteq db.routes
  BY <1>1, PartOfTable DEF ActiveRoutes
<1>3. longestPrefix(rows, to) \in ActiveRoutes(db) \cup {NoRow}
  BY <1>2, FindsARow
<1>4. SetToSeq(ActiveRoutes(db)) \in Orders(ActiveRoutes(db))
  BY <1>2, OneOrder DEF IsTable
<1>5. /\ Answers(ActiveRoutes(db), to, longestPrefix(rows, to))
      /\ Answers(ActiveRoutes(db), to, longestPrefix(SetToSeq(ActiveRoutes(db)), to))
  BY <1>2, <1>4, LongestAnswers
<1>6. longestPrefix(rows, to) = longestPrefix(SetToSeq(ActiveRoutes(db)), to)
  BY <1>2, <1>5, OneAnswer
<1> QED
  BY <1>1, <1>2, <1>3, <1>6 DEF simulationLongestPrefixRoute

\* The carriers to try are carriers of the route: with failover all of them, and in
\* slot order unless the mode is another.
LEMMA ChainOfCarriers ==
  ASSUME NEW r, r.slots \in Seq(Carriers) \ {<<>>}, NEW chain \in Chains(r)
  PROVE  /\ chain \in Seq(Carriers) /\ Len(chain) \in Nat
         /\ setup.failover =>
              /\ r.mode = "failover" => chain = r.slots
              /\ \A i \in 1 .. Len(chain) : \E j \in 1 .. Len(r.slots) : r.slots[j] = chain[i]
              /\ \A j \in 1 .. Len(r.slots) : \E i \in 1 .. Len(chain) : chain[i] = r.slots[j]
<1>1. /\ Len(r.slots) \in Nat /\ Len(r.slots) # 0 /\ DOMAIN r.slots = 1 .. Len(r.slots)
      /\ \A i \in 1 .. Len(r.slots) : r.slots[i] \in Carriers
  BY EmptySeq, LenProperties, ElementOfSeq
<1>2. CASE ~setup.failover
  <2>1. chain = SubSeq(r.slots, 1, 1) /\ SubSeq(r.slots, 1, 1) \in Seq(Carriers)
    BY <1>1, <1>2, SubSeqProperties DEF Chains
  <2> QED
    BY <1>2, <2>1, LenProperties
<1>3. CASE setup.failover /\ chain = r.slots
  BY <1>1, <1>3
<1>4. CASE setup.failover /\ chain # r.slots
  <2>1. chain \in Orders(ToSet(r.slots)) /\ r.mode # "failover"
    BY <1>4 DEF Chains, BalancedOrders, OverflowOrders
  <2> DEFINE S == {r.slots[i] : i \in 1 .. Len(r.slots)}
  <2>2. ToSet(r.slots) = S
    BY <1>1 DEF ToSet
  <2>3. IsFiniteSet(S)
    <3>0. \A n \in Nat : IsFiniteSet(1 .. n)
      BY FS_Interval
    <3>1. IsFiniteSet(1 .. Len(r.slots))
      BY <1>1, <3>0
    <3>2. r.slots \in Surjection(1 .. Len(r.slots), S)
      BY <1>1 DEF Surjection
    <3> HIDE DEF S
    <3> QED
      BY <3>1, <3>2, FS_Surjection
  <2> HIDE DEF S
  <2>4. /\ chain \in Seq(S) /\ Len(chain) \in Nat /\ \A i \in 1 .. Len(chain) : chain[i] \in S
        /\ \A x \in S : \E i \in 1 .. Len(chain) : chain[i] = x
    BY <2>1, <2>2, <2>3, EveryRowOnce
  <2>5. S \subseteq Carriers
    BY <1>1 DEF S
  <2>6. chain \in Seq(Carriers)
    BY <2>4, <2>5
  <2>7. \A i \in 1 .. Len(chain) : \E j \in 1 .. Len(r.slots) : r.slots[j] = chain[i]
    BY <2>4 DEF S
  <2>8. \A j \in 1 .. Len(r.slots) : \E i \in 1 .. Len(chain) : chain[i] = r.slots[j]
    BY <2>4 DEF S
  <2> QED
    BY <2>1, <2>4, <2>6, <2>7, <2>8
<1> QED
  BY <1>2, <1>3, <1>4

\* The first that fits, when none before it does.
LEMMA FirstFit ==
  ASSUME NEW fit, fit \subseteq Nat, NEW n \in fit, \A i \in fit : n <= i
  PROVE  Min(fit) = n
<1>1. Min(fit) \in fit /\ Min(fit) <= n
  BY DEF Min
<1>2. Min(fit) \in Nat /\ n \in Nat /\ n <= Min(fit)
  BY <1>1
<1> QED
  BY <1>1, <1>2

\* What the simulation says of a message that has a sender, a rate and a route.
LEMMA SimulationSays ==
  ASSUME msg.answer = ResolveSenderID(setup, msg.from), msg.answer # Refused,
         SaleRow # NoRow, msg.rate = SaleRow.rate, RouteRow # NoRow
  PROVE  RunSimulation(setup, msg.from, msg.to) =
           LET fit == {i \in DOMAIN Slots : Fits(Slots[i])}
           IN  IF fit = {} THEN Decision("failed")
               ELSE [decision |-> Slots[Min(fit)], eligible |-> {Slots[i] : i \in fit}]
  BY DEF RunSimulation, SaleRow, RouteRow, Slots, Fits

RouteInv == SenderInv /\ NumberInv /\ LossInv /\ ForesightInv

\* What every step of a message on its way leaves alone.
Frame ==
  /\ UNCHANGED <<setup, cached, edits>>
  /\ faults' \in 0 .. MaxFaults
  /\ msg'.via = msg.via /\ msg'.queued = msg.queued /\ msg'.from = msg.from /\ msg'.to = msg.to
  /\ msg'.stored = msg.stored /\ msg'.answer = msg.answer
  /\ msg'.asSubmitted => msg.asSubmitted
  /\ msg'.untried => msg.untried

\* The simulation then says the same.
LEMMA FrameKeeps ==
  ASSUME Frame
  PROVE  /\ SaleRow' = SaleRow /\ RouteRow' = RouteRow /\ Slots' = Slots /\ Twins' = Twins
         /\ Loses(msg)' = Loses(msg)
         /\ RunSimulation(setup, msg.from, msg.to)' = RunSimulation(setup, msg.from, msg.to)
<1>1. setup' = setup /\ msg'.to = msg.to /\ msg'.from = msg.from /\ msg'.via = msg.via
      /\ msg'.queued = msg.queued
  BY DEF Frame
<1>2. SaleRow' = SaleRow
  BY <1>1 DEF SaleRow
<1>3. RouteRow' = RouteRow
  BY <1>1 DEF RouteRow
<1>4. Twins' = Twins
  BY <1>1 DEF Twins
<1>5. Loses(msg)' = Loses(msg)
  BY <1>1 DEF Loses
<1>6. RunSimulation(setup, msg.from, msg.to)' = RunSimulation(setup, msg.from, msg.to)
  BY <1>1
<1> QED
  BY <1>2, <1>3, <1>4, <1>5, <1>6 DEF Slots

\* A message that ends here without having been accepted.
LEMMA EndKeeps ==
  ASSUME RouteInv, SenderInv', NEW o, o # "accepted", msg' = End(o), UNCHANGED <<setup, cached, edits, faults>>,
         msg.pc \in {"resolved", "priced", "queued", "try"},
         /\ o \in {"sender_refused", "no_rate", "no_route", "failed"}
         /\ msg.asSubmitted /\ msg.untried /\ setup.failover /\ ~Twins /\ ~Loses(msg)
         => RunSimulation(setup, msg.from, msg.to).decision = o
  PROVE  RouteInv'
<1>1. DOMAIN msg = {"pc", "via", "queued", "from", "to", "stored", "answer", "sid", "rate", "left",
        "at", "sender", "wire", "cost", "outcome", "claims", "resent", "untried", "asSubmitted",
        "asChecked", "checked"}
  BY DEF RouteInv, SenderInv, Idle
<1>2. /\ msg'.pc = "done" /\ msg'.outcome = o /\ msg'.wire = msg.wire /\ msg'.rate = msg.rate
      /\ msg'.left = msg.left /\ msg'.claims = msg.claims /\ msg'.sender = msg.sender
      /\ msg'.sid = msg.sid /\ msg'.untried = msg.untried /\ msg'.asSubmitted = msg.asSubmitted
      /\ msg'.at = msg.at
  BY <1>1 DEF End
<1>3. Frame
  <2>1. /\ msg'.via = msg.via /\ msg'.queued = msg.queued /\ msg'.from = msg.from
        /\ msg'.to = msg.to /\ msg'.stored = msg.stored /\ msg'.answer = msg.answer
    BY <1>1 DEF End
  <2>2. faults \in 0 .. MaxFaults
    BY DEF RouteInv, NumberInv
  <2> QED
    BY <1>2, <2>1, <2>2 DEF Frame
<1>4. NumberInv'
  <2>1. msg.wire = <<>>
    BY DEF RouteInv, NumberInv
  <2> QED
    BY <1>2, <1>3, <2>1 DEF RouteInv, NumberInv, Frame
<1>5. LossInv'
  <2>1. NoUnseenLoss'
    BY <1>2 DEF NoUnseenLoss
  <2> QED
    BY <1>2, <2>1 DEF RouteInv, LossInv
<1>6. ForesightInv'
  <2>1. msg'.asSubmitted /\ msg'.pc # "idle" => msg'.answer = ResolveSenderID(setup, msg.from)'
    BY <1>2, <1>3 DEF RouteInv, ForesightInv, Frame
  <2>2. SimulationAgrees'
    <3>1. /\ RunSimulation(setup, msg.from, msg.to)' = RunSimulation(setup, msg.from, msg.to)
          /\ Twins' = Twins /\ Loses(msg)' = Loses(msg) /\ setup' = setup
      BY <1>3, FrameKeeps DEF Frame
    <3> QED
      BY <1>2, <3>1 DEF SimulationAgrees, Foretold
  <2>3. ~UnderWay'
    BY <1>2 DEF UnderWay
  <2> QED
    BY <1>2, <2>1, <2>2, <2>3 DEF ForesightInv
<1> QED
  BY <1>4, <1>5, <1>6 DEF RouteInv

\* The steps of a message on its way to dispatch.
LEMMA PriceKeeps == ASSUME RouteInv, SenderInv', Price PROVE RouteInv'
<1>1. DOMAIN msg = {"pc", "via", "queued", "from", "to", "stored", "answer", "sid", "rate", "left",
        "at", "sender", "wire", "cost", "outcome", "claims", "resent", "untried", "asSubmitted",
        "asChecked", "checked"}
  BY DEF RouteInv, SenderInv, Idle
<1>2. /\ msg.pc = "resolved" /\ UNCHANGED <<setup, cached, edits, faults>> /\ setup \in Setups
      /\ msg.answer # Refused
      /\ msg.asSubmitted => msg.answer = ResolveSenderID(setup, msg.from)
  BY DEF Price, RouteInv, SenderInv, ForesightInv, UnderWay
<1>3. PICK rows \in Orders(GroupRows(setup, setup.clientGroup)) :
        LET got == longestPrefixRate(rows, msg.to)
        IN  msg' = IF got = NoRow THEN End("no_rate")
                   ELSE [msg EXCEPT !.pc = "priced", !.rate = got.rate]
  BY DEF Price
<1> DEFINE got == longestPrefixRate(rows, msg.to)
<1>4. got = NoRow \/ got.rate \in Nat
  <2>1. got \in GroupRows(setup, setup.clientGroup) \cup {NoRow}
    BY <1>2, GroupTable, FindsARow DEF longestPrefixRate
  <2> QED
    BY <1>2, <2>1, GroupTable
<1>5. ~Twins => SaleRow = got
  <2>1. SetToSeq(GroupRows(setup, setup.clientGroup)) \in Orders(GroupRows(setup, setup.clientGroup))
    BY <1>2, GroupTable, OneOrder DEF IsTable
  <2> QED
    BY <1>2, <2>1, OneRate DEF SaleRow
<1> HIDE DEF got
<1>6. CASE got = NoRow
  <2>1. msg' = End("no_rate")
    BY <1>3, <1>6 DEF got
  <2>2. msg.asSubmitted /\ ~Twins => RunSimulation(setup, msg.from, msg.to) = Decision("no_rate")
    BY <1>2, <1>5, <1>6 DEF RunSimulation, SaleRow
  <2> QED
    BY <1>2, <2>1, <2>2, EndKeeps DEF Decision
<1>7. CASE got # NoRow
  <2>1. msg' = [msg EXCEPT !.pc = "priced", !.rate = got.rate]
    BY <1>3, <1>7 DEF got
  <2>2. /\ msg'.pc = "priced" /\ msg'.rate = got.rate /\ msg'.outcome = msg.outcome
        /\ msg'.wire = msg.wire /\ msg'.left = msg.left /\ msg'.claims = msg.claims
        /\ msg'.sender = msg.sender /\ msg'.sid = msg.sid /\ msg'.untried = msg.untried
        /\ msg'.asSubmitted = msg.asSubmitted
    BY <1>1, <2>1
  <2>3. Frame
    <3>1. /\ msg'.via = msg.via /\ msg'.queued = msg.queued /\ msg'.from = msg.from
          /\ msg'.to = msg.to /\ msg'.stored = msg.stored /\ msg'.answer = msg.answer
      BY <1>1, <2>1
    <3>2. faults \in 0 .. MaxFaults
      BY DEF RouteInv, NumberInv
    <3> QED
      BY <1>2, <2>2, <3>1, <3>2 DEF Frame
  <2>4. NumberInv'
    <3>1. msg.wire = <<>>
      BY <1>2 DEF RouteInv, NumberInv
    <3> QED
      BY <1>2, <2>2, <2>3, <3>1 DEF RouteInv, NumberInv, Frame
  <2>5. LossInv'
    <3>1. NoUnseenLoss'
      BY <1>2, <2>2 DEF NoUnseenLoss, RouteInv, NumberInv
    <3> QED
      BY <1>4, <1>7, <2>2, <3>1 DEF LossInv
  <2>6. ForesightInv'
    <3>1. msg'.answer # Refused
          /\ (msg'.asSubmitted => msg'.answer = ResolveSenderID(setup, msg.from)')
      BY <1>2, <2>2, <2>3 DEF Frame
    <3>2. Twins' = Twins /\ SaleRow' = SaleRow
      BY <2>3, FrameKeeps
    <3>3. SimulationAgrees'
      BY <2>2 DEF SimulationAgrees
    <3> QED
      BY <1>5, <1>7, <2>2, <3>1, <3>2, <3>3 DEF ForesightInv
  <2> QED
    BY <2>4, <2>5, <2>6 DEF RouteInv
<1> QED
  BY <1>6, <1>7

\* The carriers of the route are taken: dispatch starts, with the sender sid.
LEMMA StartsDispatch ==
  ASSUME RouteInv, SenderInv', Frame, faults' = faults,
         msg.pc \in {"priced", "queued"},
         NEW rows \in Orders(ActiveRoutes(cached)), longestPrefix(rows, msg.to) # NoRow,
         msg'.pc = "try", msg'.left \in Chains(longestPrefix(rows, msg.to)),
         msg'.claims \in 0 .. MaxAttempts, msg'.sid.value \in AllSenders,
         msg'.rate = msg.rate, msg'.outcome = msg.outcome, msg'.wire = msg.wire,
         msg'.sender = msg.sender, msg'.asSubmitted = msg.asSubmitted, msg'.untried = msg.untried
  PROVE  RouteInv'
<1> DEFINE got == longestPrefix(rows, msg.to)
<1>1. /\ msg'.to = msg.to /\ msg'.from = msg.from /\ msg'.answer = msg.answer
      /\ UNCHANGED <<setup, cached, edits>>
      /\ SaleRow' = SaleRow /\ RouteRow' = RouteRow /\ Slots' = Slots /\ Twins' = Twins
      /\ Loses(msg)' = Loses(msg)
  BY FrameKeeps DEF Frame
<1>2. cached \in Setups /\ (msg.asSubmitted => cached = setup) /\ msg.answer # Refused
      /\ (msg.asSubmitted => msg.answer = ResolveSenderID(setup, msg.from))
  BY DEF RouteInv, NumberInv, SenderInv, ForesightInv, UnderWay
<1>3. got.slots \in Seq(Carriers) \ {<<>>}
      /\ got = simulationLongestPrefixRoute(SetToSeq(ActiveRoutes(cached)), msg.to)
  BY <1>2, TakesARoute
<1>4. msg.asSubmitted => RouteRow = got
  BY <1>2, <1>3 DEF RouteRow, SimulatedRoute
<1>5. /\ msg'.left \in Seq(Carriers) /\ Len(msg'.left) \in Nat
      /\ setup.failover =>
           /\ got.mode = "failover" => msg'.left = got.slots
           /\ \A i \in 1 .. Len(msg'.left) : \E j \in 1 .. Len(got.slots) : got.slots[j] = msg'.left[i]
           /\ \A j \in 1 .. Len(got.slots) : \E i \in 1 .. Len(msg'.left) : msg'.left[i] = got.slots[j]
  <2>1. msg'.left \in Chains(got)
    OBVIOUS
  <2> HIDE DEF got
  <2>2. \A chain \in Chains(got) :
          /\ chain \in Seq(Carriers) /\ Len(chain) \in Nat
          /\ setup.failover =>
               /\ got.mode = "failover" => chain = got.slots
               /\ \A i \in 1 .. Len(chain) : \E j \in 1 .. Len(got.slots) : got.slots[j] = chain[i]
               /\ \A j \in 1 .. Len(got.slots) : \E i \in 1 .. Len(chain) : chain[i] = got.slots[j]
    <3>1. got.slots \in Seq(Carriers) \ {<<>>}
      BY <1>3
    <3> QED
      BY <3>1, ChainOfCarriers
  <2> QED
    BY <2>1, <2>2
<1> HIDE DEF got
<1>6. NumberInv'
  <2>1. msg.wire = <<>>
    BY DEF RouteInv, NumberInv
  <2>2. msg'.left \in Seq(Carriers)
    BY <1>5 DEF got
  <2> QED
    BY <1>1, <2>1, <2>2 DEF RouteInv, NumberInv
<1>7. LossInv'
  <2>1. NoUnseenLoss'
    BY DEF NoUnseenLoss, RouteInv, NumberInv
  <2> QED
    BY <2>1 DEF RouteInv, LossInv
<1>8. ForesightInv'
  <2>1. msg'.answer = msg.answer
        /\ (msg'.asSubmitted => msg'.answer = ResolveSenderID(setup, msg.from)')
    BY <1>1, <1>2
  <2>2. msg'.asSubmitted /\ ~Twins' => SaleRow' # NoRow /\ msg'.rate = SaleRow'.rate
    BY <1>1 DEF RouteInv, ForesightInv
  <2>3. msg'.asSubmitted => RouteRow' # NoRow
    BY <1>1, <1>4 DEF got
  <2>4. msg'.asSubmitted /\ setup'.failover =>
          PassedOver' /\ (RouteRow'.mode = "failover" => PassedInOrder')
    <3> SUFFICES ASSUME msg.asSubmitted, setup.failover
                 PROVE  PassedOver' /\ (RouteRow.mode = "failover" => PassedInOrder')
      BY <1>1
    <3>1. Slots = got.slots /\ RouteRow.mode = got.mode
      BY <1>4 DEF Slots
    <3>2. PassedOver'
      BY <1>1, <1>5, <3>1 DEF PassedOver
    <3>3. ASSUME RouteRow.mode = "failover" PROVE PassedInOrder'
      <4>0. msg'.left = got.slots
        BY <1>5, <3>1, <3>3
      <4>1. Len(Slots) \in Nat /\ msg'.left = SubSeq(Slots, 0 + 1, Len(Slots))
        BY <1>3, <3>1, <4>0, LenProperties, SubSeqFull
      <4> QED
        BY <1>1, <4>1 DEF PassedInOrder
    <3> QED
      BY <3>2, <3>3
  <2>5. SimulationAgrees'
    BY DEF SimulationAgrees
  <2> QED
    BY <1>2, <2>1, <2>2, <2>3, <2>4, <2>5 DEF ForesightInv
<1> QED
  BY <1>6, <1>7, <1>8 DEF RouteInv

\* A message goes to the queue, or back to it.
LEMMA QueuedKeeps ==
  ASSUME RouteInv, SenderInv', msg' = [msg EXCEPT !.pc = "queued"],
         UNCHANGED <<setup, cached, edits, faults>>, msg.pc \in {"priced", "try"},
         msg.asSubmitted => RouteRow # NoRow
  PROVE  RouteInv'
<1>1. DOMAIN msg = {"pc", "via", "queued", "from", "to", "stored", "answer", "sid", "rate", "left",
        "at", "sender", "wire", "cost", "outcome", "claims", "resent", "untried", "asSubmitted",
        "asChecked", "checked"}
  BY DEF RouteInv, SenderInv, Idle
<1>2. /\ msg'.pc = "queued" /\ msg'.rate = msg.rate /\ msg'.outcome = msg.outcome
      /\ msg'.wire = msg.wire /\ msg'.left = msg.left /\ msg'.claims = msg.claims
      /\ msg'.sender = msg.sender /\ msg'.sid = msg.sid /\ msg'.untried = msg.untried
      /\ msg'.asSubmitted = msg.asSubmitted
  BY <1>1
<1>3. Frame
  <2>1. /\ msg'.via = msg.via /\ msg'.queued = msg.queued /\ msg'.from = msg.from
        /\ msg'.to = msg.to /\ msg'.stored = msg.stored /\ msg'.answer = msg.answer
    BY <1>1
  <2>2. faults \in 0 .. MaxFaults
    BY DEF RouteInv, NumberInv
  <2> QED
    BY <1>2, <2>1, <2>2 DEF Frame
<1>4. NumberInv'
  <2>1. msg.wire = <<>>
    BY DEF RouteInv, NumberInv
  <2> QED
    BY <1>2, <1>3, <2>1 DEF RouteInv, NumberInv, Frame
<1>5. LossInv'
  <2>1. NoUnseenLoss'
    BY <1>2 DEF NoUnseenLoss, RouteInv, NumberInv
  <2> QED
    BY <1>2, <2>1 DEF RouteInv, LossInv
<1>6. ForesightInv'
  <2>1. SaleRow' = SaleRow /\ RouteRow' = RouteRow /\ Twins' = Twins
    BY <1>3, FrameKeeps
  <2>2. msg'.answer = msg.answer
        /\ (msg'.asSubmitted => msg'.answer = ResolveSenderID(setup, msg.from)')
    BY <1>2, <1>3 DEF Frame, RouteInv, ForesightInv
  <2>3. msg.answer # Refused
    BY DEF RouteInv, ForesightInv, UnderWay
  <2>4. SimulationAgrees'
    BY <1>2 DEF SimulationAgrees
  <2>5. msg'.asSubmitted /\ ~Twins' => SaleRow' # NoRow /\ msg'.rate = SaleRow'.rate
    BY <1>2, <2>1 DEF RouteInv, ForesightInv
  <2> QED
    BY <1>2, <2>1, <2>2, <2>3, <2>4, <2>5 DEF ForesightInv
<1> QED
  BY <1>4, <1>5, <1>6 DEF RouteInv

LEMMA RouteKeeps == ASSUME RouteInv, SenderInv', Route PROVE RouteInv'
<1>1. DOMAIN msg = {"pc", "via", "queued", "from", "to", "stored", "answer", "sid", "rate", "left",
        "at", "sender", "wire", "cost", "outcome", "claims", "resent", "untried", "asSubmitted",
        "asChecked", "checked"}
  BY DEF RouteInv, SenderInv, Idle
<1>2. /\ msg.pc = "priced" /\ UNCHANGED <<setup, cached, edits, faults>>
      /\ cached \in Setups /\ msg.answer # Refused
      /\ msg.asSubmitted => cached = setup /\ msg.answer = ResolveSenderID(setup, msg.from)
      /\ faults \in 0 .. MaxFaults
  BY DEF Route, RouteInv, SenderInv, NumberInv, ForesightInv, UnderWay
<1>3. PICK rows \in Orders(ActiveRoutes(cached)) :
        LET got == longestPrefix(rows, msg.to)
        IN  IF got = NoRow THEN msg' = End("no_route")
            ELSE IF msg.queued THEN msg' = [msg EXCEPT !.pc = "queued"]
            ELSE \E chain \in Chains(got) : msg' = [msg EXCEPT !.pc = "try", !.left = chain]
  BY DEF Route
<1> DEFINE got == longestPrefix(rows, msg.to)
<1>4. msg.asSubmitted => RouteRow = got
  BY <1>2, TakesARoute DEF RouteRow, SimulatedRoute
<1> HIDE DEF got
<1>5. CASE got = NoRow
  <2>1. msg' = End("no_route")
    BY <1>3, <1>5 DEF got
  <2>2. msg.asSubmitted /\ ~Twins => RunSimulation(setup, msg.from, msg.to) = Decision("no_route")
    <3>1. msg.asSubmitted /\ ~Twins => SaleRow # NoRow
      BY <1>2 DEF RouteInv, ForesightInv
    <3> QED
      BY <1>2, <1>4, <1>5, <3>1 DEF RunSimulation, RouteRow, SaleRow
  <2> QED
    BY <1>2, <2>1, <2>2, EndKeeps DEF Decision
<1>6. CASE got # NoRow /\ msg.queued
  <2>1. msg' = [msg EXCEPT !.pc = "queued"]
    BY <1>3, <1>6 DEF got
  <2> QED
    BY <1>2, <1>4, <1>6, <2>1, QueuedKeeps
<1>7. CASE got # NoRow /\ ~msg.queued
  <2>1. PICK chain \in Chains(got) : msg' = [msg EXCEPT !.pc = "try", !.left = chain]
    BY <1>3, <1>7 DEF got
  <2>2. /\ msg'.pc = "try" /\ msg'.left = chain /\ msg'.rate = msg.rate
        /\ msg'.outcome = msg.outcome /\ msg'.wire = msg.wire /\ msg'.claims = msg.claims
        /\ msg'.sender = msg.sender /\ msg'.sid = msg.sid /\ msg'.untried = msg.untried
        /\ msg'.asSubmitted = msg.asSubmitted
    BY <1>1, <2>1
  <2>3. Frame
    <3>1. /\ msg'.via = msg.via /\ msg'.queued = msg.queued /\ msg'.from = msg.from
          /\ msg'.to = msg.to /\ msg'.stored = msg.stored /\ msg'.answer = msg.answer
      BY <1>1, <2>1
    <3> QED
      BY <1>2, <2>2, <3>1 DEF Frame
  <2>4. msg'.claims \in 0 .. MaxAttempts /\ msg'.sid.value \in AllSenders
    BY <2>2 DEF RouteInv, NumberInv
  <2> QED
    BY <1>2, <1>7, <2>1, <2>2, <2>3, <2>4, StartsDispatch DEF got
<1> QED
  BY <1>5, <1>6, <1>7

LEMMA ClaimKeeps == ASSUME RouteInv, SenderInv', Claim PROVE RouteInv'
<1>1. DOMAIN msg = {"pc", "via", "queued", "from", "to", "stored", "answer", "sid", "rate", "left",
        "at", "sender", "wire", "cost", "outcome", "claims", "resent", "untried", "asSubmitted",
        "asChecked", "checked"}
  BY DEF RouteInv, SenderInv, Idle
<1>2. /\ msg.pc = "queued" /\ msg.claims < MaxAttempts /\ msg.claims \in 0 .. MaxAttempts
      /\ UNCHANGED <<setup, cached, edits, faults>>
      /\ faults \in 0 .. MaxFaults /\ msg.stored \in AllSenders
  BY DEF Claim, RouteInv, SenderInv, NumberInv
<1>3. PICK rows \in Orders(ActiveRoutes(cached)) :
        LET got == longestPrefix(rows, msg.to)
        IN  IF got = NoRow THEN msg' = End("undelivered")
            ELSE \E chain \in Chains(got) :
                   msg' = [msg EXCEPT !.pc = "try", !.left = chain,
                                      !.sid = Rebuilt(msg), !.claims = @ + 1]
  BY DEF Claim
<1> DEFINE got == longestPrefix(rows, msg.to)
<1> HIDE DEF got
<1>4. CASE got = NoRow
  <2>1. msg' = End("undelivered")
    BY <1>3, <1>4 DEF got
  <2> QED
    BY <1>2, <2>1, EndKeeps
<1>5. CASE got # NoRow
  <2>1. PICK chain \in Chains(got) :
          msg' = [msg EXCEPT !.pc = "try", !.left = chain,
                             !.sid = Rebuilt(msg), !.claims = @ + 1]
    BY <1>3, <1>5 DEF got
  <2>2. /\ msg'.pc = "try" /\ msg'.left = chain /\ msg'.rate = msg.rate
        /\ msg'.outcome = msg.outcome /\ msg'.wire = msg.wire /\ msg'.claims = msg.claims + 1
        /\ msg'.sender = msg.sender /\ msg'.sid = Rebuilt(msg) /\ msg'.untried = msg.untried
        /\ msg'.asSubmitted = msg.asSubmitted
    BY <1>1, <2>1
  <2>3. Frame
    <3>1. /\ msg'.via = msg.via /\ msg'.queued = msg.queued /\ msg'.from = msg.from
          /\ msg'.to = msg.to /\ msg'.stored = msg.stored /\ msg'.answer = msg.answer
      BY <1>1, <2>1
    <3> QED
      BY <1>2, <2>2, <3>1 DEF Frame
  <2>4. Rebuilt(msg).value \in AllSenders
    BY <1>2 DEF Rebuilt
  <2>5. msg.claims + 1 \in 0 .. MaxAttempts
    BY <1>2, RoutingAssumption
  <2>6. msg'.claims \in 0 .. MaxAttempts /\ msg'.sid.value \in AllSenders
    BY <2>2, <2>4, <2>5
  <2> QED
    BY <1>2, <1>5, <2>1, <2>2, <2>3, <2>6, StartsDispatch DEF got
<1> QED
  BY <1>4, <1>5

---------------------------------------------------------------------------
(* Dispatch: one carrier after the other.                                  *)

LEMMA SlotsAreCarriers ==
  ASSUME setup \in Setups, RouteRow # NoRow
  PROVE  Slots \in Seq(Carriers) /\ Len(Slots) \in Nat
<1>1. IsFiniteSet(ActiveRoutes(setup))
  <2>1. IsFiniteSet(setup.routes)
    BY RoutingAssumption DEF IsTable
  <2> QED
    BY <2>1, FS_Subset DEF ActiveRoutes
<1>2. SetToSeq(ActiveRoutes(setup)) \in Orders(ActiveRoutes(setup))
  BY <1>1, OneOrder
<1>3. RouteRow = longestPrefix(SetToSeq(ActiveRoutes(setup)), msg.to)
  BY DEF RouteRow, SimulatedRoute, simulationLongestPrefixRoute
<1>4. Slots \in Seq(Carriers)
  BY <1>2, <1>3, TakesARoute DEF Slots
<1> QED
  BY <1>4, LenProperties

\* What is left when n carriers were passed over, and the next is taken.
LEMMA RestOf ==
  ASSUME NEW X, NEW s \in Seq(X), NEW n \in 0 .. Len(s), SubSeq(s, n + 1, Len(s)) # <<>>
  PROVE  /\ n + 1 \in 1 .. Len(s) /\ Head(SubSeq(s, n + 1, Len(s))) = s[n + 1]
         /\ Tail(SubSeq(s, n + 1, Len(s))) = SubSeq(s, n + 2, Len(s))
<1>1. Len(s) \in Nat /\ n \in Nat /\ n <= Len(s)
  BY LenProperties
<1>2. n # Len(s)
  BY <1>1, SubSeqEmpty
<1>3. n + 1 \in 1 .. Len(s)
  BY <1>1, <1>2
<1> DEFINE t == SubSeq(s, n + 1, Len(s))
<1>4. t \in Seq(X) /\ Len(t) = Len(s) - n /\ \A i \in 1 .. Len(t) : t[i] = s[n + i]
  BY <1>1, <1>3
<1>5. Head(t) = s[n + 1]
  BY <1>1, <1>3, <1>4
<1>6. Tail(t) = SubSeq(s, n + 2, Len(s))
  BY <1>1, <1>3, <1>4
<1> QED
  BY <1>3, <1>5, <1>6

\* The loss check is one, in every order of the rows.
LEMMA OneLossCheck ==
  ASSUME setup \in Setups, ~Twins, NEW profile, NEW to, NEW rate,
         NEW rows \in Orders(GroupRows(setup, profile.group)),
         NEW others \in Orders(GroupRows(setup, profile.group))
  PROVE  InLoss(setup, profile, rows, to, rate) <=> InLoss(setup, profile, others, to, rate)
<1>1. LossRow(rows, normalizeDestination(to)) = LossRow(others, normalizeDestination(to))
  BY OneRate
<1> QED
  BY <1>1 DEF InLoss

\* A carrier is eligible in the simulation as it is in dispatch.
LEMMA EligibleAsSimulated ==
  ASSUME RouteInv, msg.pc = "try", msg.asSubmitted, ~Twins, ~Loses(msg),
         NEW rows \in Orders(GroupRows(setup, Profile.group))
  PROVE  SimulatedEligible(setup, Candidate, msg.answer, msg.to, msg.rate)
           <=> Passes /\ ~InLoss(setup, Profile, rows, msg.to, msg.rate)
<1>1. setup \in Setups /\ cached = setup
      /\ msg.sid \in {msg.answer, Rebuilt(msg)}
      /\ (~msg.queued => msg.sid = msg.answer) /\ (msg.queued => msg.stored = msg.answer.value)
  BY DEF RouteInv, SenderInv, UnderWay
<1>2. msg.sid.value = msg.answer.value /\ msg.sid.source = msg.answer.source
  BY <1>1 DEF Rebuilt
<1>3. EffectiveHere = EffectiveSender(Profile, setup.lists[Candidate], msg.answer)
  BY <1>2 DEF EffectiveHere, EffectiveSender, Replaces
<1>4. Profile = setup.carriers[Candidate]
  BY <1>1 DEF Profile
<1> DEFINE others == SetToSeq(GroupRows(setup, Profile.group))
<1>5. others \in Orders(GroupRows(setup, Profile.group))
  BY <1>1, GroupTable, OneOrder DEF IsTable
<1> HIDE DEF others
<1>6. InLoss(setup, Profile, rows, msg.to, msg.rate)
        <=> InLoss(setup, Profile, others, msg.to, msg.rate)
  BY <1>1, <1>5, OneLossCheck
<1>7. SimulatedEligible(setup, Candidate, msg.answer, msg.to, msg.rate)
        <=> /\ Profile.status = "active"
            /\ PolicyAccepts(Profile, setup.lists[Candidate], EffectiveHere)
            /\ ~InLoss(setup, Profile, others, msg.to, msg.rate)
  BY <1>3, <1>4 DEF SimulatedEligible, others
<1> QED
  BY <1>6, <1>7 DEF Passes

\* A carrier that is not eligible may be left behind.
LEMMA PassedGoesOn ==
  ASSUME PassedOver, msg.left \in Seq(Carriers), msg.left # <<>>, ~Fits(Head(msg.left)),
         msg'.left = Tail(msg.left), Slots' = Slots, \A k : Fits(k)' <=> Fits(k)
  PROVE  PassedOver'
<1> DEFINE rest == Tail(msg.left)
<1>1. /\ Len(msg.left) \in Nat /\ Len(rest) = Len(msg.left) - 1 /\ Head(msg.left) = msg.left[1]
      /\ \A i \in 1 .. Len(rest) : rest[i] = msg.left[i + 1] /\ i + 1 \in 1 .. Len(msg.left)
  BY HeadTailProperties, LenProperties
<1> HIDE DEF rest
<1>2. \A i \in 1 .. Len(rest) : \E j \in 1 .. Len(Slots) : Slots[j] = rest[i]
  BY <1>1 DEF PassedOver
<1>3. ASSUME NEW j \in 1 .. Len(Slots), Fits(Slots[j])
      PROVE  \E i \in 1 .. Len(rest) : rest[i] = Slots[j]
  <2>1. PICK i \in 1 .. Len(msg.left) : msg.left[i] = Slots[j]
    BY <1>3 DEF PassedOver
  <2>2. i # 1
    BY <1>1, <1>3, <2>1
  <2>3. i - 1 \in 1 .. Len(rest) /\ (i - 1) + 1 = i
    BY <1>1, <2>1, <2>2
  <2> QED
    BY <1>1, <2>1, <2>3
<1> QED
  BY <1>2, <1>3 DEF PassedOver, rest

\* The carrier is left behind for the next of the route.
LEMMA PassKeeps ==
  ASSUME RouteInv, SenderInv', UNCHANGED <<setup, cached, edits>>, faults' \in 0 .. MaxFaults,
         msg.pc \in {"try", "send"}, msg.left # <<>>,
         NEW m, DOMAIN m = DOMAIN msg, msg' = NextCarrier(m),
         \A x \in DOMAIN msg \ {"asSubmitted", "untried"} : m[x] = msg[x],
         m.asSubmitted => msg.asSubmitted, m.untried => msg.untried,
         m.asSubmitted /\ m.untried /\ setup.failover /\ ~Twins /\ ~Loses(msg) =>
           /\ msg.pc = "try"
           /\ ~SimulatedEligible(setup, Head(msg.left), msg.answer, msg.to, msg.rate)
  PROVE  RouteInv'
<1>1. DOMAIN msg = {"pc", "via", "queued", "from", "to", "stored", "answer", "sid", "rate", "left",
        "at", "sender", "wire", "cost", "outcome", "claims", "resent", "untried", "asSubmitted",
        "asChecked", "checked"}
  BY DEF RouteInv, SenderInv, Idle
<1>2. /\ m.left = msg.left /\ m.rate = msg.rate /\ m.outcome = msg.outcome
      /\ m.claims = msg.claims /\ m.sid = msg.sid /\ m.via = msg.via /\ m.queued = msg.queued
      /\ m.from = msg.from /\ m.to = msg.to /\ m.stored = msg.stored /\ m.answer = msg.answer
  BY <1>1
<1>3. /\ msg'.pc = "try" /\ msg'.left = Tail(msg.left) /\ msg'.wire = <<>> /\ msg'.sender = NoSender
      /\ msg'.rate = msg.rate /\ msg'.outcome = msg.outcome /\ msg'.claims = msg.claims
      /\ msg'.sid = msg.sid /\ msg'.asSubmitted = m.asSubmitted /\ msg'.untried = m.untried
  BY <1>1, <1>2 DEF NextCarrier
<1>4. Frame
  <2>1. /\ msg'.via = msg.via /\ msg'.queued = msg.queued /\ msg'.from = msg.from
        /\ msg'.to = msg.to /\ msg'.stored = msg.stored /\ msg'.answer = msg.answer
    BY <1>1, <1>2 DEF NextCarrier
  <2> QED
    BY <1>3, <2>1 DEF Frame
<1>5. NumberInv'
  <2>1. Tail(msg.left) \in Seq(Carriers) /\ NoSender \in AllSenders
    BY HeadTailProperties DEF RouteInv, NumberInv, AllSenders
  <2> QED
    BY <1>3, <1>4, <2>1 DEF RouteInv, NumberInv, Frame
<1>6. LossInv'
  <2>1. NoUnseenLoss'
    BY <1>3 DEF NoUnseenLoss, RouteInv, NumberInv
  <2> QED
    BY <1>3, <2>1 DEF RouteInv, LossInv
<1>7. ForesightInv'
  <2>1. /\ SaleRow' = SaleRow /\ RouteRow' = RouteRow /\ Slots' = Slots /\ Twins' = Twins
        /\ Loses(msg)' = Loses(msg) /\ setup' = setup /\ msg'.to = msg.to /\ msg'.answer = msg.answer
    BY <1>4, FrameKeeps DEF Frame
  <2>2. msg.answer # Refused
        /\ (msg'.asSubmitted => msg'.answer = ResolveSenderID(setup, msg.from)')
    BY <1>3, <1>4 DEF RouteInv, ForesightInv, UnderWay, Frame
  <2>3. msg'.asSubmitted /\ ~Twins' => SaleRow' # NoRow /\ msg'.rate = SaleRow'.rate
    BY <1>3, <2>1 DEF RouteInv, ForesightInv
  <2>4. msg'.asSubmitted => RouteRow' # NoRow
    BY <1>3, <2>1 DEF RouteInv, ForesightInv
  <2>5. SimulationAgrees'
    BY <1>3 DEF SimulationAgrees
  <2>6. msg'.asSubmitted /\ msg'.untried /\ setup'.failover /\ ~Twins' /\ ~Loses(msg)' =>
          PassedOver' /\ (RouteRow'.mode = "failover" => PassedInOrder')
    <3> SUFFICES ASSUME m.asSubmitted, m.untried, setup.failover, ~Twins, ~Loses(msg)
                 PROVE  PassedOver' /\ (RouteRow.mode = "failover" => PassedInOrder')
      BY <1>3, <2>1
    <3>1. /\ msg.pc = "try" /\ setup \in Setups /\ RouteRow # NoRow
          /\ PassedOver /\ (RouteRow.mode = "failover" => PassedInOrder)
          /\ ~Fits(Head(msg.left))
      BY DEF RouteInv, ForesightInv, SenderInv, Fits
    <3>2. /\ Slots \in Seq(Carriers) /\ Len(Slots) \in Nat
          /\ msg.left \in Seq(Carriers) /\ Len(msg.left) \in Nat
      BY <3>1, SlotsAreCarriers, LenProperties DEF RouteInv, NumberInv
    <3>3. \A k : Fits(k)' <=> Fits(k)
      BY <1>3, <2>1 DEF Fits
    <3>4. PassedOver'
      BY <1>3, <2>1, <3>1, <3>2, <3>3, PassedGoesOn
    <3>5. ASSUME RouteRow.mode = "failover" PROVE PassedInOrder'
      <4>1. PICK n \in 0 .. Len(Slots) :
              /\ msg.left = SubSeq(Slots, n + 1, Len(Slots))
              /\ \A i \in 1 .. n : ~Fits(Slots[i])
        BY <3>1, <3>5 DEF PassedInOrder
      <4>2. /\ n + 1 \in 1 .. Len(Slots) /\ Head(msg.left) = Slots[n + 1]
            /\ Tail(msg.left) = SubSeq(Slots, n + 2, Len(Slots))
        BY <3>2, <4>1, RestOf
      <4>3. (n + 1) + 1 = n + 2 /\ n + 1 \in 0 .. Len(Slots)
        BY <3>2, <4>1, <4>2
      <4>4. \A i \in 1 .. n + 1 : ~Fits(Slots[i])
        BY <3>1, <4>1, <4>2
      <4> QED
        BY <1>3, <2>1, <3>3, <4>2, <4>3, <4>4 DEF PassedInOrder
    <3> QED
      BY <3>4, <3>5
  <2> QED
    BY <1>3, <2>1, <2>2, <2>3, <2>4, <2>5, <2>6 DEF ForesightInv
<1> QED
  BY <1>5, <1>6, <1>7 DEF RouteInv

\* Passing over a carrier, for whatever reason.
LEMMA PassesKeep ==
  ASSUME RouteInv, SenderInv', Skip \/ CheckFails \/ Refuse
  PROVE  RouteInv'
<1>1. DOMAIN msg = {"pc", "via", "queued", "from", "to", "stored", "answer", "sid", "rate", "left",
        "at", "sender", "wire", "cost", "outcome", "claims", "resent", "untried", "asSubmitted",
        "asChecked", "checked"}
  BY DEF RouteInv, SenderInv, Idle
<1>2. faults \in 0 .. MaxFaults /\ MaxFaults \in Nat
  BY RoutingAssumption DEF RouteInv, NumberInv
<1>3. CASE Skip
  <2>1. /\ msg.pc = "try" /\ msg.left # <<>> /\ msg' = NextCarrier(msg)
        /\ UNCHANGED <<setup, cached, edits, faults>>
    BY <1>3 DEF Skip
  <2>2. msg.asSubmitted /\ ~Twins /\ ~Loses(msg) =>
          ~SimulatedEligible(setup, Head(msg.left), msg.answer, msg.to, msg.rate)
    <3> SUFFICES ASSUME msg.asSubmitted, ~Twins, ~Loses(msg)
                 PROVE  ~SimulatedEligible(setup, Candidate, msg.answer, msg.to, msg.rate)
      BY DEF Candidate
    <3>1. CASE ~Passes
      <4>1. SetToSeq(GroupRows(setup, Profile.group)) \in Orders(GroupRows(setup, Profile.group))
        BY GroupTable, OneOrder DEF IsTable, RouteInv, SenderInv
      <4> QED
        BY <2>1, <3>1, <4>1, EligibleAsSimulated
    <3>2. CASE \E rows \in Orders(GroupRows(setup, Profile.group)) :
                 InLoss(setup, Profile, rows, msg.to, msg.rate)
      BY <2>1, <3>2, EligibleAsSimulated
    <3> QED
      BY <1>3, <3>1, <3>2 DEF Skip
  <2> QED
    BY <1>2, <2>1, <2>2, PassKeeps
<1>4. CASE CheckFails
  <2> DEFINE m == [msg EXCEPT !.asSubmitted = FALSE]
  <2>1. /\ msg.pc = "try" /\ msg.left # <<>> /\ msg' = NextCarrier(m)
        /\ UNCHANGED <<setup, cached, edits>> /\ faults' = faults + 1 /\ faults < MaxFaults
    BY <1>4 DEF CheckFails
  <2>2. faults' \in 0 .. MaxFaults
    BY <1>2, <2>1
  <2>3. /\ DOMAIN m = DOMAIN msg /\ m.asSubmitted = FALSE /\ m.untried = msg.untried
        /\ \A x \in DOMAIN msg \ {"asSubmitted", "untried"} : m[x] = msg[x]
    BY <1>1
  <2> HIDE DEF m
  <2> QED
    BY <2>1, <2>2, <2>3, PassKeeps
<1>5. CASE Refuse
  <2> DEFINE m == [msg EXCEPT !.untried = FALSE]
  <2>1. /\ msg.pc = "send" /\ msg.left # <<>> /\ msg' = NextCarrier(m)
        /\ UNCHANGED <<setup, cached, edits, faults>>
    BY <1>5 DEF Refuse, RouteInv, NumberInv
  <2>2. /\ DOMAIN m = DOMAIN msg /\ m.asSubmitted = msg.asSubmitted /\ m.untried = FALSE
        /\ \A x \in DOMAIN msg \ {"asSubmitted", "untried"} : m[x] = msg[x]
    BY <1>1
  <2> HIDE DEF m
  <2> QED
    BY <1>2, <2>1, <2>2, PassKeeps
<1> QED
  BY <1>3, <1>4, <1>5

\* The sender worked out for a carrier is a sender ID.
LEMMA EffectiveKnown ==
  ASSUME RouteInv, msg.left # <<>>
  PROVE  Candidate \in Carriers /\ EffectiveHere \in AllSenders
<1>1. Candidate \in Carriers
  BY HeadTailProperties DEF Candidate, RouteInv, NumberInv
<1>2. cached \in Setups /\ setup \in Setups /\ msg.sid.value \in AllSenders
  BY DEF RouteInv, NumberInv, SenderInv
<1>3. cached.carriers[Candidate].default \in AllSenders /\ setup.lists[Candidate].default \in AllSenders
  BY <1>1, <1>2, RoutingAssumption
<1> QED
  BY <1>1, <1>2, <1>3 DEF EffectiveHere, EffectiveSender, Profile

\* A carrier that passed its check is contacted.
LEMMA ChecksKeep == ASSUME RouteInv, SenderInv', Check \/ CheckFailsOpen PROVE RouteInv'
<1>1. DOMAIN msg = {"pc", "via", "queued", "from", "to", "stored", "answer", "sid", "rate", "left",
        "at", "sender", "wire", "cost", "outcome", "claims", "resent", "untried", "asSubmitted",
        "asChecked", "checked"}
  BY DEF RouteInv, SenderInv, Idle
<1>2. faults \in 0 .. MaxFaults /\ MaxFaults \in Nat
  BY RoutingAssumption DEF RouteInv, NumberInv
<1>3. /\ msg.pc = "try" /\ msg.left # <<>> /\ Passes /\ UNCHANGED <<setup, cached, edits>>
      /\ faults' \in 0 .. MaxFaults /\ setup \in Setups
  BY <1>2 DEF Check, CheckFailsOpen, RouteInv, SenderInv
<1>4. /\ Goes.pc = "send" /\ Goes.at = Candidate /\ Goes.sender = EffectiveHere
      /\ Goes.asChecked = (Profile.group = setup.carriers[Candidate].group)
      /\ Goes.left = msg.left /\ Goes.wire = msg.wire /\ Goes.rate = msg.rate
      /\ Goes.outcome = msg.outcome /\ Goes.claims = msg.claims /\ Goes.sid = msg.sid
      /\ Goes.asSubmitted = msg.asSubmitted /\ Goes.untried = msg.untried
      /\ Goes.via = msg.via /\ Goes.queued = msg.queued /\ Goes.from = msg.from
      /\ Goes.to = msg.to /\ Goes.stored = msg.stored /\ Goes.answer = msg.answer
      /\ DOMAIN Goes = DOMAIN msg
  BY <1>1 DEF Goes
<1>5. msg' = Goes \/ msg' = [Goes EXCEPT !.checked = FALSE]
  BY DEF Check, CheckFailsOpen
<1>6. CheckFailsOpen => msg'.checked = FALSE
  <2> HIDE DEF Goes
  <2> QED
    BY <1>1, <1>4 DEF CheckFailsOpen
<1>7. /\ msg'.pc = "send" /\ msg'.at = Candidate /\ msg'.sender = EffectiveHere
      /\ msg'.asChecked = (Profile.group = setup.carriers[Candidate].group)
      /\ msg'.left = msg.left /\ msg'.wire = msg.wire /\ msg'.rate = msg.rate
      /\ msg'.outcome = msg.outcome /\ msg'.claims = msg.claims /\ msg'.sid = msg.sid
      /\ msg'.asSubmitted = msg.asSubmitted /\ msg'.untried = msg.untried
  BY <1>1, <1>4, <1>5
<1>8. Frame
  <2>1. /\ msg'.via = msg.via /\ msg'.queued = msg.queued /\ msg'.from = msg.from
        /\ msg'.to = msg.to /\ msg'.stored = msg.stored /\ msg'.answer = msg.answer
    BY <1>1, <1>4, <1>5
  <2> QED
    BY <1>3, <1>7, <2>1 DEF Frame
<1>9. msg'.checked => \E rows \in Orders(GroupRows(setup, Profile.group)) :
                        ~InLoss(setup, Profile, rows, msg.to, msg.rate)
  BY <1>6 DEF Check
<1>10. NumberInv'
  <2>1. Candidate \in Carriers /\ EffectiveHere \in AllSenders /\ msg.wire = <<>>
    BY <1>3, EffectiveKnown DEF RouteInv, NumberInv
  <2> QED
    BY <1>3, <1>7, <1>8, <2>1 DEF RouteInv, NumberInv, Frame
<1>11. LossInv'
  <2>1. NoUnseenLoss'
    BY <1>3, <1>7 DEF NoUnseenLoss, RouteInv, NumberInv
  <2>2. ASSUME msg'.asChecked, msg'.checked PROVE LossChecked'
    <3>1. PICK rows \in Orders(GroupRows(setup, Profile.group)) :
            ~InLoss(setup, Profile, rows, msg.to, msg.rate)
      BY <1>9, <2>2
    <3> DEFINE profile == setup.carriers[Candidate]
    <3>2. Profile.group = profile.group
      BY <1>7, <2>2
    <3>3. rows \in Orders(GroupRows(setup, profile.group))
          /\ ~InLoss(setup, profile, rows, msg.to, msg.rate)
      BY <3>1, <3>2 DEF InLoss
    <3>4. setup' = setup /\ msg'.at = Candidate /\ msg'.to = msg.to /\ msg'.rate = msg.rate
      BY <1>7, <1>8 DEF Frame
    <3> QED
      BY <3>3, <3>4 DEF LossChecked
  <2> QED
    BY <1>7, <2>1, <2>2 DEF RouteInv, LossInv
<1>12. ForesightInv'
  <2>1. /\ SaleRow' = SaleRow /\ RouteRow' = RouteRow /\ Twins' = Twins
        /\ Loses(msg)' = Loses(msg) /\ setup' = setup /\ msg'.to = msg.to /\ msg'.answer = msg.answer
        /\ RunSimulation(setup, msg.from, msg.to)' = RunSimulation(setup, msg.from, msg.to)
    BY <1>8, FrameKeeps DEF Frame
  <2>2. msg.answer # Refused
        /\ (msg'.asSubmitted => msg'.answer = ResolveSenderID(setup, msg.from)')
    BY <1>3, <1>7, <1>8 DEF RouteInv, ForesightInv, UnderWay, Frame
  <2>3. msg'.asSubmitted /\ ~Twins' => SaleRow' # NoRow /\ msg'.rate = SaleRow'.rate
    BY <1>3, <1>7, <2>1 DEF RouteInv, ForesightInv
  <2>4. msg'.asSubmitted => RouteRow' # NoRow
    BY <1>3, <1>7, <2>1 DEF RouteInv, ForesightInv
  <2>5. SimulationAgrees'
    <3> DEFINE page == RunSimulation(setup, msg.from, msg.to)
    <3> SUFFICES ASSUME msg.asSubmitted, msg.untried, msg'.checked, setup.failover, ~Twins, ~Loses(msg)
                 PROVE  /\ Candidate \in page.eligible
                        /\ RouteRow.mode = "failover" => page.decision = Candidate
      BY <1>7, <2>1 DEF SimulationAgrees, Foretold, RouteRow
    <3>1. /\ RouteRow # NoRow /\ SaleRow # NoRow /\ msg.rate = SaleRow.rate
          /\ PassedOver /\ (RouteRow.mode = "failover" => PassedInOrder)
          /\ msg.answer = ResolveSenderID(setup, msg.from)
      BY <1>3 DEF RouteInv, ForesightInv
    <3>2. /\ Slots \in Seq(Carriers) /\ Len(Slots) \in Nat /\ DOMAIN Slots = 1 .. Len(Slots)
          /\ msg.left \in Seq(Carriers) /\ Len(msg.left) \in Nat
      BY <1>3, <3>1, SlotsAreCarriers, LenProperties DEF RouteInv, NumberInv
    <3>3. Fits(Candidate)
      BY <1>3, <1>9, EligibleAsSimulated DEF Fits
    <3>4. Candidate = msg.left[1] /\ 1 \in 1 .. Len(msg.left)
      BY <1>3, <3>2, EmptySeq DEF Candidate
    <3>5. PICK j \in 1 .. Len(Slots) : Slots[j] = Candidate
      BY <3>1, <3>4 DEF PassedOver
    <3> DEFINE fit == {i \in DOMAIN Slots : Fits(Slots[i])}
    <3>6. j \in fit
      BY <3>2, <3>3, <3>5
    <3>7. page = IF fit = {} THEN Decision("failed")
                 ELSE [decision |-> Slots[Min(fit)], eligible |-> {Slots[i] : i \in fit}]
      BY <2>2, <3>1, SimulationSays
    <3>8. ASSUME RouteRow.mode = "failover" PROVE Slots[Min(fit)] = Candidate
      <4>1. PICK n \in 0 .. Len(Slots) :
              /\ msg.left = SubSeq(Slots, n + 1, Len(Slots))
              /\ \A i \in 1 .. n : ~Fits(Slots[i])
        BY <3>1, <3>8 DEF PassedInOrder
      <4>2. n + 1 \in 1 .. Len(Slots) /\ Candidate = Slots[n + 1]
        BY <1>3, <3>2, <4>1, RestOf DEF Candidate
      <4>3. fit \subseteq Nat /\ n + 1 \in fit /\ \A i \in fit : n + 1 <= i
        <5>1. ASSUME NEW i \in fit, ~(n + 1 <= i) PROVE FALSE
          <6>1. i \in 1 .. n
            BY <3>2, <5>1
          <6> QED
            BY <4>1, <5>1, <6>1
        <5> QED
          BY <3>2, <3>3, <4>2, <5>1
      <4> HIDE DEF fit
      <4>4. Min(fit) = n + 1
        BY <4>3, FirstFit
      <4> QED
        BY <4>2, <4>4
    <3> HIDE DEF fit, page
    <3>9. page.decision = Slots[Min(fit)] /\ page.eligible = {Slots[i] : i \in fit}
      BY <3>6, <3>7
    <3> QED
      BY <3>5, <3>6, <3>8, <3>9
  <2> QED
    BY <1>7, <2>1, <2>2, <2>3, <2>4, <2>5 DEF ForesightInv
<1> QED
  BY <1>10, <1>11, <1>12 DEF RouteInv

LEMMA ExhaustKeeps == ASSUME RouteInv, SenderInv', Exhaust PROVE RouteInv'
<1>1. /\ msg.pc = "try" /\ msg.left = <<>> /\ UNCHANGED <<setup, cached, edits, faults>>
      /\ setup \in Setups /\ msg.answer # Refused
      /\ msg.asSubmitted => RouteRow # NoRow /\ msg.answer = ResolveSenderID(setup, msg.from)
  BY DEF Exhaust, RouteInv, SenderInv, ForesightInv, UnderWay
<1>2. CASE msg.queued
  <2>1. msg' = [msg EXCEPT !.pc = "queued"]
    BY <1>2 DEF Exhaust
  <2> QED
    BY <1>1, <2>1, QueuedKeeps
<1>3. CASE ~msg.queued
  <2>1. msg' = End("failed")
    BY <1>3 DEF Exhaust
  <2>2. ASSUME msg.asSubmitted, msg.untried, setup.failover, ~Twins, ~Loses(msg)
        PROVE  RunSimulation(setup, msg.from, msg.to) = Decision("failed")
    <3>1. /\ RouteRow # NoRow /\ SaleRow # NoRow /\ msg.rate = SaleRow.rate /\ PassedOver
          /\ msg.answer = ResolveSenderID(setup, msg.from)
      BY <1>1, <2>2 DEF RouteInv, ForesightInv
    <3>2. DOMAIN Slots = 1 .. Len(Slots)
      BY <1>1, <3>1, SlotsAreCarriers, LenProperties
    <3>3. Len(msg.left) = 0
      BY <1>1, EmptySeq
    <3>4. {i \in DOMAIN Slots : Fits(Slots[i])} = {}
      BY <3>1, <3>2, <3>3 DEF PassedOver
    <3> QED
      BY <1>1, <3>1, <3>4, SimulationSays
  <2> QED
    BY <1>1, <2>1, <2>2, EndKeeps DEF Decision
<1> QED
  BY <1>2, <1>3

LEMMA AcceptKeeps == ASSUME RouteInv, SenderInv', Accept PROVE RouteInv'
<1>1. DOMAIN msg = {"pc", "via", "queued", "from", "to", "stored", "answer", "sid", "rate", "left",
        "at", "sender", "wire", "cost", "outcome", "claims", "resent", "untried", "asSubmitted",
        "asChecked", "checked"}
  BY DEF RouteInv, SenderInv, Idle
<1>2. /\ msg.pc = "send" /\ UNCHANGED <<setup, cached, edits, faults>> /\ msg.answer # Refused
      /\ msg.asSubmitted => cached = setup /\ msg.answer = ResolveSenderID(setup, msg.from)
      /\ msg' = [msg EXCEPT !.pc = "sent", !.sender = DispatchSender, !.wire = Wire,
                             !.left = <<>>, !.untried = FALSE]
  BY DEF Accept, RouteInv, SenderInv, ForesightInv, UnderWay
<1>3. /\ msg'.pc = "sent" /\ msg'.wire = Wire /\ msg'.left = <<>> /\ msg'.untried = FALSE
      /\ msg'.rate = msg.rate /\ msg'.outcome = msg.outcome /\ msg'.claims = msg.claims
      /\ msg'.sid = msg.sid /\ msg'.asSubmitted = msg.asSubmitted /\ msg'.at = msg.at
      /\ msg'.asChecked = msg.asChecked /\ msg'.checked = msg.checked
  BY <1>1, <1>2
<1>4. Frame
  <2>1. /\ msg'.via = msg.via /\ msg'.queued = msg.queued /\ msg'.from = msg.from
        /\ msg'.to = msg.to /\ msg'.stored = msg.stored /\ msg'.answer = msg.answer
    BY <1>1, <1>2
  <2>2. faults \in 0 .. MaxFaults
    BY DEF RouteInv, NumberInv
  <2> QED
    BY <1>2, <1>3, <2>1, <2>2 DEF Frame
<1>5. NumberInv'
  <2>1. <<>> \in Seq(Carriers)
    BY EmptySeq
  <2>2. msg'.asSubmitted => msg'.wire = Translate(setup.carriers[msg.at].rules, msg.to)'
    BY <1>2, <1>3, <1>4 DEF Wire, Frame
  <2> QED
    BY <1>2, <1>3, <1>4, <2>1, <2>2 DEF RouteInv, NumberInv, Frame
<1>6. LossInv'
  <2>1. NoUnseenLoss'
    BY <1>2, <1>3 DEF NoUnseenLoss, RouteInv, NumberInv
  <2>2. LossChecked' = LossChecked
    BY <1>3, <1>4 DEF LossChecked, Frame
  <2> QED
    BY <1>2, <1>3, <2>1, <2>2 DEF RouteInv, LossInv
<1>7. ForesightInv'
  <2>1. msg'.asSubmitted => msg'.answer = ResolveSenderID(setup, msg.from)'
    BY <1>2, <1>3, <1>4 DEF Frame
  <2>2. msg'.answer # Refused /\ SimulationAgrees'
    BY <1>2, <1>3, <1>4 DEF Frame, SimulationAgrees
  <2> QED
    BY <1>3, <2>1, <2>2 DEF ForesightInv
<1> QED
  BY <1>5, <1>6, <1>7 DEF RouteInv

\* The cost is found by another search than the loss check's.
LEMMA CostBounded ==
  ASSUME setup \in Setups, msg.rate \in Nat, LossChecked, ~setup.lossOK, ~Twins,
         NEW rows \in Orders(GroupRows(setup, setup.carriers[msg.at].group))
  PROVE  LookupCarrierCost(setup, msg.at, rows, msg.to, msg.rate) <= msg.rate
<1> DEFINE profile == setup.carriers[msg.at]
<1>1. PICK others \in Orders(GroupRows(setup, profile.group)) :
        ~InLoss(setup, profile, others, msg.to, msg.rate)
  BY DEF LossChecked
<1>2. CASE profile.group \notin DOMAIN setup.groups
  BY <1>2 DEF LookupCarrierCost
<1>3. CASE profile.group \in DOMAIN setup.groups
  <2> DEFINE got == longestPrefixRate(rows, msg.to)
  <2>1. LossRow(others, normalizeDestination(msg.to)) = got
    BY OneRate
  <2>2. got = NoRow \/ got \in GroupRows(setup, profile.group)
    BY GroupTable, FindsARow DEF longestPrefixRate
  <2>3. got = NoRow \/ got.rate \in Nat
    BY <2>2, GroupTable
  <2>4. LookupCarrierCost(setup, msg.at, rows, msg.to, msg.rate)
          = IF got = NoRow THEN msg.rate ELSE got.rate
    BY <1>3 DEF LookupCarrierCost
  <2>5. got = NoRow \/ ~(got.rate > msg.rate)
    BY <1>1, <1>3, <2>1 DEF InLoss
  <2> HIDE DEF got
  <2> QED
    BY <2>3, <2>4, <2>5
<1> QED
  BY <1>2, <1>3

LEMMA CostsKeep == ASSUME RouteInv, SenderInv', Cost \/ CostFails PROVE RouteInv'
<1>1. DOMAIN msg = {"pc", "via", "queued", "from", "to", "stored", "answer", "sid", "rate", "left",
        "at", "sender", "wire", "cost", "outcome", "claims", "resent", "untried", "asSubmitted",
        "asChecked", "checked"}
  BY DEF RouteInv, SenderInv, Idle
<1>2. faults \in 0 .. MaxFaults /\ MaxFaults \in Nat
  BY RoutingAssumption DEF RouteInv, NumberInv
<1>3. /\ msg.pc = "sent" /\ UNCHANGED <<setup, cached, edits>> /\ faults' \in 0 .. MaxFaults
      /\ setup \in Setups /\ msg.rate \in Nat
      /\ msg.asChecked /\ msg.checked => LossChecked
  BY <1>2 DEF Cost, CostFails, RouteInv, SenderInv, LossInv
<1>4. PICK cost : /\ msg' = [End("accepted") EXCEPT !.cost = cost]
                  /\ msg.asChecked /\ msg.checked /\ ~setup.lossOK /\ ~Twins => cost <= msg.rate
  <2>1. CASE Cost
    BY <1>3, <2>1, CostBounded DEF Cost
  <2>2. CASE CostFails
    BY <1>3, <2>2 DEF CostFails
  <2> QED
    BY <2>1, <2>2
<1>5. /\ msg'.pc = "done" /\ msg'.wire = msg.wire /\ msg'.left = msg.left /\ msg'.cost = cost
      /\ msg'.rate = msg.rate /\ msg'.outcome = "accepted" /\ msg'.claims = msg.claims
      /\ msg'.sid = msg.sid /\ msg'.asSubmitted = msg.asSubmitted /\ msg'.at = msg.at
      /\ msg'.sender = msg.sender /\ msg'.asChecked = msg.asChecked /\ msg'.checked = msg.checked
      /\ msg'.untried = msg.untried
  BY <1>1, <1>4 DEF End
<1>6. Frame
  <2>1. /\ msg'.via = msg.via /\ msg'.queued = msg.queued /\ msg'.from = msg.from
        /\ msg'.to = msg.to /\ msg'.stored = msg.stored /\ msg'.answer = msg.answer
    BY <1>1, <1>4 DEF End
  <2> QED
    BY <1>3, <1>5, <2>1 DEF Frame
<1>7. NumberInv'
  <2>1. msg'.wire # <<>> /\ msg'.asSubmitted =>
          msg'.wire = Translate(setup.carriers[msg.at].rules, msg.to)'
    BY <1>5, <1>6 DEF RouteInv, NumberInv, Frame
  <2> QED
    BY <1>3, <1>5, <1>6, <2>1 DEF RouteInv, NumberInv, Frame
<1>8. LossInv'
  <2>1. Twins' = Twins /\ setup' = setup
    BY <1>6, FrameKeeps DEF Frame
  <2>2. NoUnseenLoss'
    BY <1>4, <1>5, <2>1 DEF NoUnseenLoss
  <2> QED
    BY <1>3, <1>5, <2>2 DEF LossInv
<1>9. ForesightInv'
  <2>1. msg'.asSubmitted => msg'.answer = ResolveSenderID(setup, msg.from)'
    BY <1>3, <1>5, <1>6 DEF Frame, RouteInv, ForesightInv
  <2>2. SimulationAgrees'
    BY <1>5 DEF SimulationAgrees, Foretold
  <2> QED
    BY <1>5, <2>1, <2>2 DEF ForesightInv, UnderWay
<1> QED
  BY <1>7, <1>8, <1>9 DEF RouteInv

\* A submission, or an operator's re-send.
LEMMA StartsRouting ==
  ASSUME RouteInv, SenderInv', UNCHANGED <<setup, cached, edits, faults>>,
         NEW m, DOMAIN m = DOMAIN Idle,
         \A x \in DOMAIN Idle \ {"queued", "resent"} : m[x] = Idle[x],
         NEW via \in {"api", "smpp", "page"}, NEW named \in AllSenders, NEW to \in Destinations,
         msg' = Resolved(m, via, named, to)
  PROVE  RouteInv'
<1> DEFINE sid == ResolveSenderID(setup, named)
<1>1. DOMAIN Idle = {"pc", "via", "queued", "from", "to", "stored", "answer", "sid", "rate", "left",
        "at", "sender", "wire", "cost", "outcome", "claims", "resent", "untried", "asSubmitted",
        "asChecked", "checked"}
  BY DEF Idle
<1>2. /\ DOMAIN m = DOMAIN Idle
      /\ m.rate = 0 /\ m.left = <<>> /\ m.sender = NoSender /\ m.wire = <<>>
      /\ m.outcome = "none" /\ m.claims = 0
  BY <1>1 DEF Idle
<1>3. setup \in Setups /\ sid.value \in AllSenders
  BY ResolvedKnown DEF RouteInv, SenderInv
<1> HIDE DEF sid
<1>4. /\ msg'.pc = (IF sid = Refused THEN "done" ELSE "resolved")
      /\ msg'.outcome = (IF sid = Refused THEN "sender_refused" ELSE "none")
      /\ msg'.answer = sid /\ msg'.sid = sid /\ msg'.from = named /\ msg'.to = to
      /\ msg'.rate = 0 /\ msg'.left = <<>> /\ msg'.sender = NoSender /\ msg'.wire = <<>>
      /\ msg'.claims = 0
  BY <1>1, <1>2 DEF Resolved, sid
<1>5. NumberInv'
  <2>1. <<>> \in Seq(Carriers) /\ NoSender \in AllSenders /\ 0 \in 0 .. MaxAttempts
    BY EmptySeq, RoutingAssumption DEF AllSenders
  <2> QED
    BY <1>3, <1>4, <2>1 DEF RouteInv, NumberInv
<1>6. LossInv'
  <2>1. NoUnseenLoss'
    BY <1>4 DEF NoUnseenLoss
  <2> QED
    BY <1>4, <2>1 DEF LossInv
<1>7. ForesightInv'
  <2>1. ResolveSenderID(setup, msg.from)' = sid
    BY <1>4 DEF sid
  <2>2. sid = Refused => RunSimulation(setup, msg.from, msg.to)' = Decision("sender_refused")
    <3>1. RunSimulation(setup, msg.from, msg.to)' = RunSimulation(setup, named, to)
      BY <1>4
    <3> QED
      BY <3>1 DEF RunSimulation, sid
  <2>3. SimulationAgrees'
    BY <1>4, <2>2 DEF SimulationAgrees, Foretold, Decision
  <2> QED
    BY <1>4, <2>1, <2>3 DEF ForesightInv, UnderWay
<1> QED
  BY <1>5, <1>6, <1>7 DEF RouteInv

LEMMA EditsKeep == ASSUME RouteInv, SenderInv', EditTables \/ Reload PROVE RouteInv'
<1>1. DOMAIN msg = {"pc", "via", "queued", "from", "to", "stored", "answer", "sid", "rate", "left",
        "at", "sender", "wire", "cost", "outcome", "claims", "resent", "untried", "asSubmitted",
        "asChecked", "checked"}
  BY DEF RouteInv, SenderInv, Idle
<1>2. msg' = [msg EXCEPT !.asSubmitted = FALSE, !.asChecked = FALSE]
      \/ msg' = [msg EXCEPT !.asSubmitted = FALSE]
  BY DEF EditTables, Reload
<1>3. /\ msg'.pc = msg.pc /\ msg'.wire = msg.wire /\ msg'.left = msg.left /\ msg'.cost = msg.cost
      /\ msg'.rate = msg.rate /\ msg'.outcome = msg.outcome /\ msg'.claims = msg.claims
      /\ msg'.sid = msg.sid /\ msg'.asSubmitted = FALSE /\ msg'.at = msg.at /\ msg'.to = msg.to
      /\ msg'.sender = msg.sender /\ msg'.checked = msg.checked /\ msg'.answer = msg.answer
  BY <1>1, <1>2
<1>4. msg'.asChecked => msg.asChecked /\ setup' = setup
  BY <1>1 DEF EditTables, Reload
<1>5. NumberInv'
  <2>1. cached' \in Setups /\ edits' \in 0 .. MaxEdits /\ faults' = faults
    BY RoutingAssumption DEF EditTables, Reload, RouteInv, NumberInv, SenderInv
  <2> QED
    BY <1>3, <2>1 DEF RouteInv, NumberInv
<1>6. LossInv'
  <2>1. ASSUME msg'.asChecked PROVE LossChecked' = LossChecked /\ NoUnseenLoss' = NoUnseenLoss
    <3>1. setup' = setup /\ msg.asChecked
      BY <1>4, <2>1
    <3>2. LossChecked' = LossChecked /\ Twins' = Twins
      BY <1>3, <3>1 DEF LossChecked, Twins
    <3> QED
      BY <1>3, <2>1, <3>1, <3>2 DEF NoUnseenLoss
  <2>2. NoUnseenLoss'
    BY <1>4, <2>1 DEF NoUnseenLoss, RouteInv, LossInv
  <2> QED
    BY <1>3, <1>4, <2>1, <2>2 DEF RouteInv, LossInv
<1>7. ForesightInv'
  BY <1>3 DEF RouteInv, ForesightInv, SimulationAgrees, UnderWay
<1> QED
  BY <1>5, <1>6, <1>7 DEF RouteInv

LEMMA RoutingStep == RouteInv /\ SenderInv' /\ [RoutingNext]_routingVars => RouteInv'
<1> SUFFICES ASSUME RouteInv, SenderInv', [RoutingNext]_routingVars PROVE RouteInv'
  OBVIOUS
<1>1. ASSUME NEW via \in {"api", "smpp", "page"}, NEW to \in Destinations,
             NEW queued \in BOOLEAN, NEW named \in Senders \cup {NoSender, AnySender},
             Submit(via, named, to, queued)
      PROVE  RouteInv'
  <2> DEFINE m == [Idle EXCEPT !.queued = queued]
  <2>1. /\ DOMAIN m = DOMAIN Idle /\ named \in AllSenders
        /\ \A x \in DOMAIN Idle \ {"queued", "resent"} : m[x] = Idle[x]
    BY DEF AllSenders
  <2>2. msg' = Resolved(m, via, named, to) /\ UNCHANGED <<setup, cached, edits, faults>>
    BY <1>1 DEF Submit
  <2> HIDE DEF m
  <2> QED
    BY <2>1, <2>2, StartsRouting
<1>2. CASE Resend
  <2> DEFINE m == [Idle EXCEPT !.resent = TRUE, !.queued = msg.queued]
  <2>1. /\ DOMAIN m = DOMAIN Idle
        /\ \A x \in DOMAIN Idle \ {"queued", "resent"} : m[x] = Idle[x]
    OBVIOUS
  <2>2. /\ msg' = Resolved(m, "page", msg.stored, msg.to) /\ UNCHANGED <<setup, cached, edits, faults>>
        /\ msg.stored \in AllSenders /\ msg.to \in Destinations
    BY <1>2 DEF Resend, RouteInv, SenderInv, NumberInv
  <2> HIDE DEF m
  <2> QED
    BY <2>1, <2>2, StartsRouting
<1>3. CASE Expire
  <2>1. /\ msg.pc = "queued" /\ msg' = End("undelivered")
        /\ UNCHANGED <<setup, cached, edits, faults>>
    BY <1>3 DEF Expire
  <2> QED
    BY <2>1, EndKeeps
<1>4. CASE UNCHANGED routingVars
  <2>1. setup' = setup /\ cached' = cached /\ edits' = edits /\ faults' = faults /\ msg' = msg
    BY <1>4 DEF routingVars
  <2>2. NumberInv'
    BY <2>1 DEF RouteInv, NumberInv
  <2>3. LossInv'
    BY <2>1 DEF RouteInv, LossInv, LossChecked, NoUnseenLoss, Twins
  <2>4. ForesightInv'
    BY <2>1 DEF RouteInv, ForesightInv, UnderWay, SaleRow, RouteRow, Slots, PassedOver, PassedInOrder, Fits, Twins,
                Loses, SimulationAgrees, Foretold
  <2> QED
    BY <2>2, <2>3, <2>4 DEF RouteInv
<1> QED
  BY <1>1, <1>2, <1>3, <1>4, PriceKeeps, RouteKeeps, ClaimKeeps, PassesKeep, ChecksKeep,
     ExhaustKeeps, AcceptKeeps, CostsKeep, EditsKeep DEF RoutingNext

LEMMA RoutingStart == RoutingInit => RouteInv
<1> SUFFICES ASSUME RoutingInit PROVE RouteInv
  OBVIOUS
<1>1. SenderInv
  BY SenderStart
<1>2. /\ msg.pc = "idle" /\ msg.rate = 0 /\ msg.left = <<>> /\ msg.wire = <<>>
      /\ msg.sender = NoSender /\ msg.sid.value = NoSender /\ msg.answer.value = NoSender
      /\ msg.claims = 0 /\ msg.outcome = "none"
  BY DEF RoutingInit, Idle, NoSid
<1>3. NumberInv
  <2>1. <<>> \in Seq(Carriers) /\ NoSender \in AllSenders
    BY EmptySeq DEF AllSenders
  <2> QED
    BY <1>2, <2>1, RoutingAssumption DEF RoutingInit, NumberInv
<1>4. LossInv /\ ForesightInv
  BY <1>2 DEF LossInv, NoUnseenLoss, ForesightInv, UnderWay, SimulationAgrees
<1> QED
  BY <1>1, <1>3, <1>4 DEF RouteInv

LEMMA RouteInvHolds == RoutingSpec => []RouteInv
<1>1. RouteInv => SenderInv
  BY DEF RouteInv
<1> QED
  BY <1>1, RoutingStart, RoutingStep, SenderStep, PTL DEF RoutingSpec

\* For every table, number and order of the rows the five searches agree with
\* what a table promises, whatever prefix a chain that forces E.164 adds, the
\* number sent is in E.164, and everything is of its type.
THEOREM RoutingHolds == RoutingSpec => []RoutingInv
<1>1. RouteInv => RoutingInv
  <2> SUFFICES ASSUME RouteInv PROVE RoutingInv
    OBVIOUS
  <2>1. RoutingTypeOK
    BY DEF RouteInv, SenderInv, NumberInv, RoutingTypeOK
  <2>2. SearchesAgree
    BY SearchesDoAgree DEF RouteInv, SenderInv
  <2>3. ASSUME msg.wire # <<>>, msg.asSubmitted, ForcesE164(setup.carriers[msg.at].rules)
        PROVE  Head(msg.wire) = "+" /\ \A i \in 2 .. Len(msg.wire) : msg.wire[i] \in Digits
    <3>1. /\ msg.wire = Translate(setup.carriers[msg.at].rules, msg.to)
          /\ msg.to \in Destinations
      BY <2>3 DEF RouteInv, NumberInv
    <3>2. Number(msg.to)
      BY <3>1, RoutingAssumption DEF Number
    <3> QED
      BY <2>3, <3>1, <3>2, E164Forced
  <2> QED
    BY <2>1, <2>2, <2>3 DEF RoutingInv
<1> QED
  BY <1>1, RouteInvHolds, PTL

\* A client that may not be sent at a loss never is, but where a rate was
\* edited, had a twin, or could not be read between the check and the booking.
THEOREM NoLossUnseen == RoutingSpec => []NoUnseenLoss
<1>1. RouteInv => NoUnseenLoss
  BY DEF RouteInv, LossInv
<1> QED
  BY <1>1, RouteInvHolds, PTL

\* What the simulation page says of a message is what becomes of it: the reason
\* it is refused for, or carriers one of which is contacted first, in slot order the
\* one it names.
THEOREM SimulationForetells == RoutingSpec => []SimulationAgrees
<1>1. RouteInv => SimulationAgrees
  BY DEF RouteInv, ForesightInv
<1> QED
  BY <1>1, RouteInvHolds, PTL
=============================================================================
