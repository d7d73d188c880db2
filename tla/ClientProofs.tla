---------------------------- MODULE ClientProofs ----------------------------
(***************************************************************************)
(* What a client has in common with all its requests: its balance          *)
(* (ClientLedger) and its bound sessions (SmppServer), for any number of   *)
(* transactions, connections and clients.  Of the ledger the invariant is  *)
(* that only the lock's holder stands between its first read and its end,  *)
(* so what it read is still the balance when it commits; of the sessions,  *)
(* that the registry agrees with where each handler stands.  And its       *)
(* invoices (Invoices): what a payment in progress read stays true, for    *)
(* the rows it holds; the amounts are sums over sets, by induction.        *)
(***************************************************************************)
EXTENDS ClientLedger, SmppServer, Invoices, FiniteSetTheorems, SequenceTheorems, TLAPS

LEMMA DeltaType == \A t \in Postings : Delta(t) \in Int
BY LedgerAssumption DEF Delta

LEMMA InitLedger == LedgerInit => LedgerInv
<1> SUFFICES ASSUME LedgerInit PROVE LedgerInv
  OBVIOUS
<1>1. LedgerTypeOK
  BY LedgerAssumption DEF LedgerInit, LedgerTypeOK
<1>2. HolderKnowsBalance
  BY DEF LedgerInit, HolderKnowsBalance, Postings, Transactions
<1>3. QED
  BY <1>1, <1>2 DEF LedgerInv

LEMMA StepLedger == LedgerInv /\ [LedgerNext]_ledgerVars => LedgerInv'
<1> SUFFICES ASSUME LedgerInv, [LedgerNext]_ledgerVars PROVE LedgerInv'
  OBVIOUS
<1> USE LedgerAssumption, DeltaType DEF LedgerInv
<1>1. ASSUME NEW d \in Debits, Lock(d) PROVE LedgerInv'
  BY <1>1 DEF Lock, RowFree, ReadRow, StepTo, LedgerTypeOK, HolderKnowsBalance, Postings, Transactions
<1>2. ASSUME NEW d \in Debits, Refuse(d) PROVE LedgerInv'
  BY <1>2 DEF Refuse, Rollback, StepTo, LedgerTypeOK, HolderKnowsBalance, Postings, Transactions
<1>3. ASSUME NEW d \in Debits, Deduct(d) PROVE LedgerInv'
  <2>1. LedgerTypeOK'
    BY <1>3 DEF Deduct, ReadRow, StepTo, LedgerTypeOK, Postings, Transactions
  <2>2. before[d] = balance /\ before[d] + Delta(d) >= 0
    BY <1>3 DEF Deduct, Payable, HolderKnowsBalance, LedgerTypeOK, Delta, Postings, Transactions
  <2>3. HolderKnowsBalance'
    BY <1>3, <2>2 DEF Deduct, ReadRow, StepTo, LedgerTypeOK, HolderKnowsBalance, Postings, Transactions
  <2>4. QED
    BY <2>1, <2>3
<1>4. ASSUME NEW t \in Credits, Credit(t) PROVE LedgerInv'
  <2>1. LedgerTypeOK'
    BY <1>4 DEF Credit, ReadRow, StepTo, LedgerTypeOK, Postings, Transactions
  <2>2. balance + Delta(t) >= 0
    BY <1>4 DEF LedgerTypeOK, Delta, Postings
  <2>3. HolderKnowsBalance'
    BY <1>4, <2>2 DEF Credit, RowFree, ReadRow, StepTo, LedgerTypeOK, HolderKnowsBalance,
                      Postings, Transactions
  <2>4. QED
    BY <2>1, <2>3
<1>5. ASSUME NEW t \in Postings, Commit(t) PROVE LedgerInv'
  <2> DEFINE e == [amount |-> Delta(t), before |-> before[t],
                   after |-> before[t] + Delta(t)]
  <2>1. before[t] \in Nat /\ before[t] + Delta(t) \in Nat
    BY <1>5 DEF Commit, HolderKnowsBalance, LedgerTypeOK, Transactions
  <2>2. e \in [amount : {Delta(u) : u \in Postings}, before : Nat, after : Nat]
    BY <2>1
  <2>3. ledger' \in Seq([amount : {Delta(u) : u \in Postings},
                         before : Nat, after : Nat])
    BY <1>5, <2>2 DEF Commit, LedgerTypeOK
  <2>4. LedgerTypeOK'
    BY <1>5, <2>1, <2>3 DEF Commit, StepTo, LedgerTypeOK, Transactions
  <2>5. HolderKnowsBalance'
    BY <1>5 DEF Commit, StepTo, LedgerTypeOK, HolderKnowsBalance, Postings, Transactions
  <2>6. QED
    BY <2>4, <2>5
<1>6. ASSUME NEW t \in Postings, Abort(t) PROVE LedgerInv'
  BY <1>6 DEF Abort, Rollback, StepTo, LedgerTypeOK, HolderKnowsBalance, Postings, Transactions
<1>7. ASSUME NEW c \in Conversions, ReadBalance(c) PROVE LedgerInv'
  BY <1>7 DEF ReadBalance, ReadRow, StepTo, LedgerTypeOK, HolderKnowsBalance, Postings, Transactions
<1>8. ASSUME NEW c \in Conversions, Convert(c) PROVE LedgerInv'
  <2>1. before[c] * Factor[c] \in Nat
    BY DEF LedgerTypeOK, Transactions
  <2>2. LedgerTypeOK'
    BY <1>8, <2>1 DEF Convert, StepTo, LedgerTypeOK, Transactions
  <2>3. HolderKnowsBalance'
    BY <1>8 DEF Convert, RowFree, StepTo, LedgerTypeOK, HolderKnowsBalance, Postings, Transactions
  <2>4. QED
    BY <2>2, <2>3
<1>9. CASE UNCHANGED ledgerVars
  BY <1>9 DEF ledgerVars, LedgerTypeOK, HolderKnowsBalance
<1>10. QED
  BY <1>1, <1>2, <1>3, <1>4, <1>5, <1>6, <1>7, <1>8, <1>9
     DEF LedgerNext, PostingStep, DebitStep

\* Every variable keeps its type, and the lock's holder has read the balance
\* as it is, whatever debits, credits, refusals, aborts and conversions run.
THEOREM LedgerInvariant == LedgerSpec => []LedgerInv
<1>1. QED
  BY InitLedger, StepLedger, PTL DEF LedgerSpec

-----------------------------------------------------------------------------
\* A transaction commits with the balance it read, which is the current one.
LEMMA CommitExact ==
  ASSUME LedgerInv, NEW t \in Postings, Commit(t)
  PROVE  /\ before[t] = balance
         /\ balance + Delta(t) >= 0
         /\ balance' = balance + Delta(t)
         /\ ledger' = Append(ledger, [amount |-> Delta(t), before |-> balance,
                                      after |-> balance + Delta(t)])
BY DEF Commit, LedgerInv, HolderKnowsBalance

\* A conversion's write shows as one.
LEMMA ConversionShows ==
  ASSUME LedgerInv, NEW c \in Conversions, Convert(c)
  PROVE  Converting
<1>1. stage[c] = "read" /\ stage'[c] = "done"
  BY DEF Convert, StepTo, LedgerInv, LedgerTypeOK, Transactions
<1>2. QED
  BY <1>1 DEF Converting

\* Every other step leaves the ledger alone, and every other step but a
\* conversion's leaves the balance alone.
LEMMA OthersQuiet ==
  ASSUME LedgerInv, [LedgerNext]_ledgerVars, \A t \in Postings : ~Commit(t), ~Converting
  PROVE  UNCHANGED <<balance, ledger>>
BY ConversionShows DEF LedgerNext, PostingStep, DebitStep, Lock, Refuse, Deduct, Credit, Abort,
   ReadBalance, ledgerVars

\* To whoever reads the account, every step but a conversion's own write is a
\* posting made in one indivisible step that the account can bear, with any
\* number of debits, credits and conversions in flight.
THEOREM PostsOneAtATime == LedgerSpec => PostsAsBook
<1>1. LedgerInit => B!Init
  BY DEF LedgerInit, B!Init
<1>2. ASSUME LedgerInv, [LedgerNext]_ledgerVars, ~Converting PROVE [B!Next]_(B!bookVars)
  <2>1. CASE \E t \in Postings : Commit(t)
    <3>1. PICK t \in Postings : Commit(t)
      BY <2>1
    <3>2. B!Post(Delta(t))
      BY <1>2, <3>1, CommitExact DEF B!Post
    <3>3. QED
      BY <3>2 DEF B!Next
  <2>2. CASE \A t \in Postings : ~Commit(t)
    BY <1>2, <2>2, OthersQuiet DEF B!bookVars
  <2>3. QED
    BY <2>1, <2>2
<1>3. LedgerInv /\ [LedgerNext]_ledgerVars => [~Converting => [B!Next]_(B!bookVars)]_ledgerVars
  BY <1>2
<1>4. QED
  BY InitLedger, StepLedger, <1>1, <1>3, PTL DEF LedgerSpec, PostsAsBook

\* A posting keeps the book balanced.
LEMMA PostBalances ==
  ASSUME B!BookAssumption, B!BookBalances,
         NEW d \in {Delta(t) : t \in Postings}, B!Post(d)
  PROVE  B!BookBalances'
<1> DEFINE e == [amount |-> d, before |-> balance, after |-> balance + d]
           n == Len(ledger)
<1>1. n \in Nat /\ ledger \in Seq(B!Entry)
  BY DEF B!BookBalances
<1>2. balance \in Nat
  <2>1. CASE n = 0
    BY <2>1 DEF B!BookBalances, B!Opening, B!BookAssumption
  <2>2. CASE n # 0
    <3>1. ledger[n] \in B!Entry
      BY <1>1, <2>2
    <3>2. QED
      BY <1>1, <2>2, <3>1 DEF B!BookBalances, B!Opening, B!Entry
  <2>3. QED
    BY <2>1, <2>2
<1>3. e \in B!Entry /\ balance' = balance + d /\ ledger' = Append(ledger, e)
  BY <1>2 DEF B!Post, B!Entry, B!BookAssumption
<1>4. /\ ledger' \in Seq(B!Entry) /\ Len(ledger') = n + 1
      /\ ledger'[n + 1] = e
      /\ \A i \in 1..n : ledger'[i] = ledger[i]
  BY <1>1, <1>3
<1>5. \A i \in 1..(n + 1) : B!Opening(ledger', i) = B!Opening(ledger, i)
  BY <1>1, <1>4 DEF B!Opening
<1>6. ASSUME NEW i \in 1..Len(ledger')
      PROVE  /\ ledger'[i].before = B!Opening(ledger', i)
             /\ ledger'[i].after = ledger'[i].before + ledger'[i].amount
  <2>1. CASE i = n + 1
    BY <1>1, <1>3, <1>4, <1>5, <2>1 DEF B!BookBalances
  <2>2. CASE i \in 1..n
    BY <1>1, <1>4, <1>5, <2>2 DEF B!BookBalances
  <2>3. QED
    BY <1>1, <1>4, <2>1, <2>2
<1>7. balance' = B!Opening(ledger', Len(ledger') + 1)
  BY <1>1, <1>3, <1>4 DEF B!Opening
<1>8. QED
  BY <1>4, <1>6, <1>7 DEF B!BookBalances

\* Whatever is posted, in whatever order, the book accounts for the balance.
THEOREM BookAlwaysBalances ==
  ASSUME B!BookAssumption
  PROVE  B!Spec => []B!BookBalances
<1>1. B!Init => B!BookBalances
  BY DEF B!Init, B!BookBalances, B!Opening, B!BookAssumption
<1>2. B!BookBalances /\ [B!Next]_(B!bookVars) => B!BookBalances'
  <2> SUFFICES ASSUME B!BookBalances, [B!Next]_(B!bookVars)
               PROVE  B!BookBalances'
    OBVIOUS
  <2>1. CASE B!Next
    BY <2>1, PostBalances DEF B!Next
  <2>2. CASE UNCHANGED B!bookVars
    BY <2>2 DEF B!bookVars, B!BookBalances, B!Opening
  <2>3. QED
    BY <2>1, <2>2
<1>3. QED
  BY <1>1, <1>2, PTL DEF B!Spec

\* While nobody converts currencies, overlapping transactions are, to whoever
\* reads the account, postings made one at a time that it can bear.
THEOREM LedgerImplementsBook ==
  ASSUME Conversions = {}
  PROVE  LedgerSpec => B!Spec
<1>1. [~Converting => [B!Next]_(B!bookVars)]_ledgerVars => [B!Next]_(B!bookVars)
  BY DEF Converting, B!bookVars, ledgerVars
<1>2. QED
  BY <1>1, PostsOneAtATime, PTL DEF PostsAsBook, B!Spec

\* Hence the client's ledger always accounts for the balance, entry by entry.
THEOREM LedgerAccountsForBalance ==
  ASSUME Conversions = {}
  PROVE  LedgerSpec => []B!BookBalances
<1>1. B!BookAssumption
  BY DeltaType, LedgerAssumption DEF B!BookAssumption
<1>2. B!Spec => []B!BookBalances
  BY <1>1, BookAlwaysBalances
<1>3. QED
  BY <1>2, LedgerImplementsBook, PTL

-----------------------------------------------------------------------------
(* SmppServer: lists without repetitions.                                  *)

LEMMA Entered ==
  ASSUME NEW s \in Seq(Conns), IsInjective(s), NEW c \in Conns, c \notin ToSet(s)
  PROVE  /\ Append(s, c) \in Seq(Conns) /\ IsInjective(Append(s, c))
         /\ ToSet(Append(s, c)) = ToSet(s) \cup {c}
<1>1. PICK n : n = Len(s) /\ n \in Nat /\ DOMAIN s = 1 .. n
  OBVIOUS
<1>2. PICK t : t = Append(s, c)
  OBVIOUS
<1>3. /\ t \in Seq(Conns) /\ DOMAIN t = 1 .. (n + 1) /\ t[n + 1] = c
      /\ \A i \in 1 .. n : t[i] = s[i]
  BY <1>1, <1>2, AppendProperties
<1>4. \A i \in 1 .. n : s[i] # c
  BY <1>1 DEF ToSet
<1>5. IsInjective(t)
  BY <1>1, <1>3, <1>4 DEF IsInjective
<1>6. ToSet(t) = ToSet(s) \cup {c}
  <2>1. \A i \in 1 .. (n + 1) : i \in 1 .. n \/ i = n + 1
    BY <1>1
  <2>2. \A i \in 1 .. n : i \in 1 .. (n + 1)
    BY <1>1
  <2>3. n + 1 \in 1 .. (n + 1)
    BY <1>1
  <2>4. QED
    BY <1>1, <1>3, <2>1, <2>2, <2>3 DEF ToSet
<1>7. QED
  BY <1>2, <1>3, <1>5, <1>6

LEMMA Deleted ==
  ASSUME NEW s \in Seq(Conns), IsInjective(s), NEW c \in Conns
  PROVE  /\ Without(s, c) \in Seq(Conns) /\ IsInjective(Without(s, c))
         /\ ToSet(Without(s, c)) = ToSet(s) \ {c}
<1>1. PICK n : n = Len(s) /\ n \in Nat /\ DOMAIN s = 1 .. n
  OBVIOUS
<1>2. CASE c \notin ToSet(s)
  BY <1>2 DEF Without
<1>3. CASE c \in ToSet(s)
  <2>1. PICK k \in 1 .. n : s[k] = c
    BY <1>1, <1>3 DEF ToSet
  <2>2. \A i \in 1 .. n : s[i] = c => i = k
    BY <1>1, <2>1 DEF IsInjective
  <2>3. PICK t : t = SubSeq(s, 1, k - 1) \o SubSeq(s, k + 1, n)
    OBVIOUS
  <2>4. Without(s, c) = t
    <3>1. (CHOOSE i \in 1 .. n : s[i] = c /\ \A j \in 1 .. i - 1 : s[j] # c) = k
      <4>1. \A j \in 1 .. k - 1 : s[j] # c
        BY <1>1, <2>2
      <4>2. QED
        BY <2>1, <2>2, <4>1
    <3>2. QED
      BY <1>1, <1>3, <2>3, <3>1 DEF Without, RemoveAt
  <2>5. /\ t \in Seq(Conns) /\ DOMAIN t = 1 .. n - 1
        /\ \A i \in 1 .. n - 1 : t[i] = IF i < k THEN s[i] ELSE s[i + 1]
    <3>1. /\ SubSeq(s, 1, k - 1) \in Seq(Conns) /\ Len(SubSeq(s, 1, k - 1)) = k - 1
          /\ \A i \in 1 .. k - 1 : SubSeq(s, 1, k - 1)[i] = s[i]
      BY <1>1, <2>1
    <3>2. /\ SubSeq(s, k + 1, n) \in Seq(Conns) /\ Len(SubSeq(s, k + 1, n)) = n - k
          /\ \A i \in 1 .. n - k : SubSeq(s, k + 1, n)[i] = s[k + i]
      BY <1>1, <2>1
    <3>3. PICK a, b : a = SubSeq(s, 1, k - 1) /\ b = SubSeq(s, k + 1, n)
      OBVIOUS
    <3>a. a \in Seq(Conns) /\ b \in Seq(Conns) /\ Len(a) = k - 1 /\ Len(b) = n - k /\ (k - 1) + (n - k) = n - 1
      BY <1>1, <2>1, <3>1, <3>2, <3>3
    <3>b. /\ a \o b \in Seq(Conns) /\ Len(a \o b) = Len(a) + Len(b)
          /\ \A i \in 1 .. Len(a) + Len(b) : (a \o b)[i] = IF i <= Len(a) THEN a[i] ELSE b[i - Len(a)]
      BY <3>a, ConcatProperties
    <3>4. a \o b \in Seq(Conns) /\ Len(a \o b) = n - 1
          /\ \A i \in 1 .. n - 1 : (a \o b)[i] = IF i <= k - 1 THEN a[i] ELSE b[i - (k - 1)]
      BY <3>a, <3>b
    <3>5. t = a \o b
      BY <2>3, <3>3
    <3>6. ASSUME NEW i \in 1 .. n - 1 PROVE t[i] = IF i < k THEN s[i] ELSE s[i + 1]
      <4>1. CASE i < k
        <5>1. i \in 1 .. k - 1 /\ i <= k - 1
          BY <1>1, <2>1, <4>1
        <5>2. t[i] = a[i]
          BY <3>4, <3>5, <5>1
        <5>3. QED
          BY <3>1, <3>3, <4>1, <5>1, <5>2
      <4>2. CASE ~(i < k)
        <5>1. i - (k - 1) \in 1 .. n - k /\ k + (i - (k - 1)) = i + 1 /\ ~(i <= k - 1)
          BY <1>1, <2>1, <4>2
        <5>2. t[i] = b[i - (k - 1)]
          BY <3>4, <3>5, <5>1
        <5>3. QED
          BY <3>2, <3>3, <4>2, <5>1, <5>2
      <4>3. QED
        BY <4>1, <4>2
    <3>7. QED
      BY <1>1, <3>4, <3>5, <3>6
  <2>6. PICK m : m = n - 1 /\ m \in Nat /\ DOMAIN t = 1 .. m
    BY <1>1, <2>1, <2>5
  <2>7. \A i \in 1 .. m : \E j \in 1 .. n : t[i] = s[j] /\ j # k /\ j = (IF i < k THEN i ELSE i + 1)
    BY <1>1, <2>1, <2>5, <2>6
  <2>8. IsInjective(t)
    <3> SUFFICES ASSUME NEW i \in 1 .. m, NEW o \in 1 .. m, t[i] = t[o] PROVE i = o
      BY <2>6 DEF IsInjective
    <3>1. PICK j \in 1 .. n : t[i] = s[j] /\ j = (IF i < k THEN i ELSE i + 1)
      BY <2>7
    <3>2. PICK l \in 1 .. n : t[o] = s[l] /\ l = (IF o < k THEN o ELSE o + 1)
      BY <2>7
    <3>3. j = l
      BY <1>1, <3>1, <3>2 DEF IsInjective
    <3>4. QED
      BY <2>1, <2>6, <3>1, <3>2, <3>3
  <2>9. \A j \in 1 .. n : j # k => \E i \in 1 .. m : t[i] = s[j]
    <3> SUFFICES ASSUME NEW j \in 1 .. n, j # k PROVE \E i \in 1 .. m : t[i] = s[j]
      OBVIOUS
    <3>1. CASE j < k
      <4>1. j \in 1 .. m /\ t[j] = s[j]
        BY <1>1, <2>1, <2>5, <2>6, <3>1
      <4>2. QED
        BY <4>1
    <3>2. CASE ~(j < k)
      <4>1. j - 1 \in 1 .. m /\ t[j - 1] = s[(j - 1) + 1] /\ (j - 1) + 1 = j
        BY <1>1, <2>1, <2>5, <2>6, <3>2
      <4>2. QED
        BY <4>1
    <3>3. QED
      BY <3>1, <3>2
  <2>10. ToSet(t) = ToSet(s) \ {c}
    <3>1. ASSUME NEW x PROVE x \in ToSet(t) <=> x \in ToSet(s) \ {c}
      <4>1. x \in ToSet(t) <=> \E i \in 1 .. m : t[i] = x
        BY <2>6 DEF ToSet
      <4>2. x \in ToSet(s) <=> \E j \in 1 .. n : s[j] = x
        BY <1>1 DEF ToSet
      <4>3. ASSUME NEW i \in 1 .. m, t[i] = x PROVE x \in ToSet(s) \ {c}
        <5>1. PICK j \in 1 .. n : t[i] = s[j] /\ j # k
          BY <2>7
        <5>2. QED
          BY <2>2, <4>2, <4>3, <5>1
      <4>4. ASSUME NEW j \in 1 .. n, s[j] = x, x # c PROVE x \in ToSet(t)
        BY <2>1, <2>9, <4>1, <4>4
      <4>5. QED
        BY <4>1, <4>2, <4>3, <4>4
    <3>2. QED
      BY <3>1
  <2>11. QED
    BY <2>4, <2>5, <2>8, <2>10
<1>4. QED
  BY <1>2, <1>3

-----------------------------------------------------------------------------
(* SmppServer: the registry.                                               *)

Seated == {"bound", "submit"}

Served == {"lookup", "count", "register"} \cup Seated

\* A handler that serves a bind knows whose, and looked at the throttle within
\* a tick.
BindsKnown ==
  /\ \A c \in Conns : pc[c] \in Served => bind[c] \in Binds
  /\ \A c \in Conns : pc[c] = "lookup" => bind[c].now <= clock /\ clock <= bind[c].now + 1

\* A session about to be registered has a place, unless it was overtaken.
RoomInv == ~overtaken => \A k \in Clients : MaxBinds[k] > 0 =>
  /\ byClient[k] <= MaxBinds[k]
  /\ \A c \in Conns : pc[c] = "register" /\ bind[c].who = k => byClient[k] < MaxBinds[k]

StoppedInv == phase = "stopped" => \A c \in Conns : pc[c] \notin {"count", "register", "bound", "submit"}

SeatsInv == TypeOK /\ BindsKnown /\ CountsAccurate /\ RoomInv /\ StoppedInv

LEMMA BindParts == \A b \in Binds : b.who \in Clients /\ b.mode \in Modes /\ b.now \in Nat
BY DEF Binds

LEMMA SeatsInit == Init => SeatsInv
<1> SUFFICES ASSUME Init PROVE SeatsInv
  OBVIOUS
<1>1. TypeOK
  <2>1. NoAttempts \in Attempts
    BY DEF NoAttempts, Attempts
  <2>2. /\ pc \in [Conns -> {"new", "accepted", "unbound", "lookup", "count", "register", "bound", "submit", "ended"}]
        /\ bind \in [Conns -> Binds \cup {NoBind}] /\ attempts \in [Clients -> Attempts]
    BY <2>1 DEF Init
  <2>3. /\ byClient \in [Clients -> Nat] /\ deliver \in [Clients -> Seq(Conns)] /\ clock \in Nat
    BY DEF Init
  <2>4. open \subseteq Conns /\ sessions \subseteq Conns /\ doomed \subseteq Conns
    BY DEF Init
  <2>5. QED
    BY <2>2, <2>3, <2>4 DEF Init, TypeOK
<1>2. BindsKnown /\ RoomInv /\ StoppedInv
  <2>1. \A c \in Conns : pc[c] = "new"
    BY DEF Init
  <2>2. \A k \in Clients : byClient[k] = 0
    BY DEF Init
  <2>3. QED
    BY <2>1, <2>2, SmppServerAssumption DEF Init, BindsKnown, RoomInv, StoppedInv, Served, Seated
<1>3. CountsAccurate
  <2>1. sessions = {} /\ \A c \in Conns : pc[c] = "new"
    BY DEF Init
  <2>2. \A k \in Clients : SessionsOf(k) = {} /\ byClient[k] = 0 /\ deliver[k] = <<>>
    BY <2>1 DEF Init, SessionsOf
  <2>3. ToSet(<<>>) = {} /\ IsInjective(<<>>)
    BY DEF ToSet, IsInjective
  <2>4. QED
    BY <2>1, <2>2, <2>3, FS_EmptySet DEF CountsAccurate
<1>4. QED
  BY <1>1, <1>2, <1>3 DEF SeatsInv

\* Whoever is registered stays so.
LEMMA SameSeats ==
  ASSUME CountsAccurate, UNCHANGED registry,
         \A c \in Conns : pc'[c] \in Seated <=> pc[c] \in Seated,
         \A c \in Conns : pc[c] \in Seated => bind'[c].who = bind[c].who /\ bind'[c].mode = bind[c].mode
  PROVE  CountsAccurate'
<1>1. sessions' = {c \in Conns : pc'[c] \in Seated} /\ UNCHANGED <<sessions, byClient, deliver>>
  BY DEF CountsAccurate, registry, Seated
<1>2. \A k : SessionsOf(k)' = SessionsOf(k)
  BY <1>1 DEF SessionsOf
<1>3. \A k : {c \in SessionsOf(k) : canDeliver(bind[c].mode)}' = {c \in SessionsOf(k) : canDeliver(bind[c].mode)}
  BY <1>1, <1>2 DEF SessionsOf, canDeliver
<1>4. QED
  BY <1>1, <1>2, <1>3 DEF CountsAccurate, Seated

\* A handler goes from one step to another without a change to the registry.
LEMMA WalkKeeps ==
  ASSUME SeatsInv, NEW c \in Conns,
         NEW l \in {"accepted", "unbound", "lookup", "count", "register", "bound", "submit", "ended"},
         pc' = [pc EXCEPT ![c] = l], UNCHANGED <<phase, registry, clock, history, doomed>>,
         open' \subseteq Conns, attempts' \in [Clients -> Attempts],
         bind' = bind \/ \E b \in Binds \cup {NoBind} : bind' = [bind EXCEPT ![c] = b],
         pc[c] \in Seated <=> l \in Seated,
         l \in Seated => bind' = bind,
         l \in Served => bind'[c] \in Binds,
         l = "lookup" => bind'[c].now = clock,
         l = "register" => bind' = bind /\ ~Full(bind[c].who),
         l = "count" => phase # "stopped",
         l \in {"register", "bound", "submit"} => pc[c] \in {"count", "register", "bound", "submit"}
  PROVE  SeatsInv'
<1>1. TypeOK /\ BindsKnown /\ CountsAccurate /\ RoomInv /\ StoppedInv
  BY DEF SeatsInv
<1>2. UNCHANGED <<sessions, byClient, deliver, overtaken, late>>
  BY DEF registry, history
<1>3. pc'[c] = l /\ \A o \in Conns \ {c} : pc'[o] = pc[o]
  BY <1>1 DEF TypeOK
<1>4. bind' \in [Conns -> Binds \cup {NoBind}] /\ \A o \in Conns \ {c} : bind'[o] = bind[o]
  BY <1>1 DEF TypeOK
<1>5. TypeOK'
  <2>1. pc' \in [Conns -> {"new", "accepted", "unbound", "lookup", "count", "register", "bound", "submit", "ended"}]
    BY <1>1 DEF TypeOK
  <2>2. QED
    BY <1>1, <1>2, <1>4, <2>1 DEF TypeOK
<1>6. BindsKnown'
  <2>1. \A o \in Conns : pc'[o] \in Served => bind'[o] \in Binds
    BY <1>1, <1>3, <1>4 DEF BindsKnown
  <2>2. \A o \in Conns : pc'[o] = "lookup" => bind'[o].now <= clock /\ clock <= bind'[o].now + 1
    BY <1>1, <1>3, <1>4 DEF BindsKnown, TypeOK
  <2>3. QED
    BY <2>1, <2>2 DEF BindsKnown
<1>7. CountsAccurate'
  <2>1. \A o \in Conns : pc[o] \in Seated => bind'[o] = bind[o]
    BY <1>3, <1>4
  <2>2. QED
    BY <1>1, <1>3, <2>1, SameSeats
<1>8. RoomInv'
  <2> SUFFICES ASSUME ~overtaken, NEW k \in Clients, MaxBinds[k] > 0
               PROVE  /\ byClient[k] <= MaxBinds[k]
                      /\ \A o \in Conns : pc'[o] = "register" /\ bind'[o].who = k => byClient[k] < MaxBinds[k]
    BY <1>2 DEF RoomInv
  <2>1. byClient[k] <= MaxBinds[k] /\ byClient[k] \in Nat /\ MaxBinds[k] \in Nat
    BY <1>1, SmppServerAssumption DEF RoomInv, TypeOK
  <2>2. ASSUME NEW o \in Conns, pc'[o] = "register", bind'[o].who = k PROVE byClient[k] < MaxBinds[k]
    <3>1. CASE o = c
      BY <1>3, <2>1, <2>2, <3>1 DEF Full
    <3>2. CASE o # c
      BY <1>1, <1>3, <1>4, <2>2, <3>2 DEF RoomInv
    <3>3. QED
      BY <3>1, <3>2
  <2>3. QED
    BY <2>1, <2>2
<1>9. StoppedInv'
  BY <1>1, <1>3 DEF StoppedInv
<1>10. QED
  BY <1>5, <1>6, <1>7, <1>8, <1>9 DEF SeatsInv

\* Nothing but connections, the closers' lists and the stop goes on.
LEMMA QuietKeeps ==
  ASSUME SeatsInv, UNCHANGED <<pc, bind, registry, history, attempts>>,
         phase' \in {"serving", "cancelled", "closed", "stopped", "gaveup"},
         open' \subseteq Conns, doomed' \subseteq Conns, clock' = clock,
         phase' = "stopped" => phase = "stopped" \/ Tracked = {}
  PROVE  SeatsInv'
<1>1. TypeOK /\ BindsKnown /\ CountsAccurate /\ RoomInv /\ StoppedInv
  BY DEF SeatsInv
<1>2. UNCHANGED <<sessions, byClient, deliver, overtaken, late>>
  BY DEF registry, history
<1>3. TypeOK'
  BY <1>1, <1>2 DEF TypeOK
<1>4. BindsKnown' /\ RoomInv'
  BY <1>1, <1>2 DEF BindsKnown, RoomInv
<1>5. CountsAccurate'
  BY <1>1, SameSeats
<1>6. StoppedInv'
  BY <1>1 DEF StoppedInv, Tracked
<1>7. QED
  BY <1>3, <1>4, <1>5, <1>6 DEF SeatsInv

\* One session enters the registry or leaves it.
LEMMA SessionsCounted ==
  ASSUME TypeOK, NEW k
  PROVE  /\ SessionsOf(k) \subseteq Conns /\ IsFiniteSet(SessionsOf(k)) /\ Cardinality(SessionsOf(k)) \in Nat
BY SmppServerAssumption, FS_Subset, FS_CardinalityType DEF SessionsOf, TypeOK

LEMMA RegisterKeeps == ASSUME SeatsInv, NEW c \in Conns, Register(c) PROVE SeatsInv'
<1>1. TypeOK /\ BindsKnown /\ CountsAccurate /\ RoomInv /\ StoppedInv
  BY DEF SeatsInv
<1>2. pc[c] = "register" /\ bind[c] \in Binds
  BY <1>1 DEF Register, BindsKnown, Served
<1>3. PICK k, m, n : k = bind[c].who /\ m = bind[c].mode /\ n = bind[c].now /\ k \in Clients /\ m \in Modes /\ n \in Nat
  BY <1>2, BindParts
<1>4. /\ pc' = [pc EXCEPT ![c] = "bound"] /\ UNCHANGED <<phase, open, doomed, clock>>
      /\ attempts' = [attempts EXCEPT ![k] = NoAttempts]
      /\ sessions' = sessions \cup {c} /\ byClient' = [byClient EXCEPT ![k] = byClient[k] + 1]
      /\ deliver' = IF canDeliver(m) THEN [deliver EXCEPT ![k] = Append(deliver[k], c)] ELSE deliver
      /\ bind' = [bind EXCEPT ![c].now = 0]
      /\ overtaken' = (overtaken \/ \E o \in Conns \ {c} : pc[o] = "register" /\ bind[o].who = k)
  BY <1>3 DEF Register, add, Goto
<1>5. pc'[c] = "bound" /\ \A o \in Conns \ {c} : pc'[o] = pc[o]
  BY <1>1, <1>4 DEF TypeOK
<1>6. /\ bind' \in [Conns -> Binds \cup {NoBind}] /\ \A o \in Conns \ {c} : bind'[o] = bind[o]
      /\ bind'[c] \in Binds /\ bind'[c].who = k /\ bind'[c].mode = m
  <2>1. [bind[c] EXCEPT !.now = 0] \in Binds /\ [bind[c] EXCEPT !.now = 0].who = k /\ [bind[c] EXCEPT !.now = 0].mode = m
    BY <1>2, <1>3 DEF Binds
  <2>2. PICK b : b = [bind[c] EXCEPT !.now = 0]
    OBVIOUS
  <2>3. bind' = [bind EXCEPT ![c] = b]
    BY <1>4, <2>2
  <2>4. QED
    BY <1>1, <2>1, <2>2, <2>3 DEF TypeOK
<1>7. c \notin sessions /\ \A q \in Clients : ToSet(deliver[q]) \subseteq sessions
  BY <1>1, <1>2 DEF CountsAccurate, SessionsOf
<1>8. SessionsOf(k)' = SessionsOf(k) \cup {c} /\ \A q : q # k => SessionsOf(q)' = SessionsOf(q)
  BY <1>1, <1>4, <1>6, <1>7 DEF SessionsOf, TypeOK
<1>9. deliver[k] \in Seq(Conns) /\ IsInjective(deliver[k]) /\ c \notin ToSet(deliver[k])
  BY <1>1, <1>3, <1>7 DEF TypeOK, CountsAccurate
<1>10. PICK d : d = Append(deliver[k], c) /\ d \in Seq(Conns) /\ IsInjective(d) /\ ToSet(d) = ToSet(deliver[k]) \cup {c}
  BY <1>9, Entered
<1>11. TypeOK'
  <2>1. pc' \in [Conns -> {"new", "accepted", "unbound", "lookup", "count", "register", "bound", "submit", "ended"}]
    BY <1>1, <1>4 DEF TypeOK
  <2>2. byClient' \in [Clients -> Nat] /\ deliver' \in [Clients -> Seq(Conns)] /\ sessions' \subseteq Conns
    BY <1>1, <1>3, <1>4, <1>10 DEF TypeOK
  <2>3. attempts' \in [Clients -> Attempts]
    <3>1. NoAttempts \in Attempts
      BY DEF NoAttempts, Attempts
    <3>2. QED
      BY <1>1, <1>4, <3>1 DEF TypeOK
  <2>4. overtaken' \in BOOLEAN /\ late' \in BOOLEAN
    BY <1>1 DEF Register, TypeOK
  <2>5. QED
    BY <1>1, <1>4, <1>6, <2>1, <2>2, <2>3, <2>4 DEF TypeOK
<1>12. BindsKnown'
  BY <1>1, <1>4, <1>5, <1>6 DEF BindsKnown
<1>13. CountsAccurate'
  <2>1. sessions' = {o \in Conns : pc'[o] \in {"bound", "submit"}}
    BY <1>1, <1>4, <1>5 DEF CountsAccurate
  <2>2. ASSUME NEW q \in Clients
        PROVE  /\ byClient'[q] = Cardinality(SessionsOf(q)')
               /\ ToSet(deliver'[q]) = {o \in SessionsOf(q)' : canDeliver(bind'[o].mode)}
               /\ IsInjective(deliver'[q])
    <3>1. /\ byClient[q] = Cardinality(SessionsOf(q)) /\ IsInjective(deliver[q])
          /\ ToSet(deliver[q]) = {o \in SessionsOf(q) : canDeliver(bind[o].mode)}
      BY <1>1 DEF CountsAccurate
    <3>2. CASE q # k
      <4>1. SessionsOf(q)' = SessionsOf(q) /\ byClient'[q] = byClient[q] /\ deliver'[q] = deliver[q]
        BY <1>1, <1>3, <1>4, <1>8, <3>2 DEF TypeOK
      <4>2. c \notin SessionsOf(q) /\ SessionsOf(q) \subseteq Conns
        BY <1>1, <1>7 DEF SessionsOf, TypeOK
      <4>3. \A o \in SessionsOf(q) : bind'[o] = bind[o]
        BY <1>6, <4>2
      <4>4. QED
        BY <3>1, <4>1, <4>3
    <3>3. CASE q = k
      <4>1. c \notin SessionsOf(k) /\ SessionsOf(k) \subseteq Conns
        BY <1>1, <1>7 DEF SessionsOf, TypeOK
      <4>2. Cardinality(SessionsOf(k) \cup {c}) = Cardinality(SessionsOf(k)) + 1
        BY <1>1, <4>1, SessionsCounted, FS_AddElement
      <4>3. byClient'[k] = Cardinality(SessionsOf(k)')
        BY <1>1, <1>3, <1>4, <1>8, <3>1, <3>3, <4>2 DEF TypeOK
      <4>4. deliver'[k] = IF canDeliver(m) THEN d ELSE deliver[k]
        BY <1>1, <1>3, <1>4, <1>10 DEF TypeOK
      <4>5. {o \in SessionsOf(k)' : canDeliver(bind'[o].mode)}
              = {o \in SessionsOf(k) : canDeliver(bind[o].mode)} \cup (IF canDeliver(m) THEN {c} ELSE {})
        BY <1>6, <1>8, <4>1
      <4>6. QED
        BY <1>10, <3>1, <3>3, <4>3, <4>4, <4>5
    <3>4. QED
      BY <3>2, <3>3
  <2>3. QED
    BY <2>1, <2>2 DEF CountsAccurate
<1>14. RoomInv'
  <2> SUFFICES ASSUME ~overtaken', NEW q \in Clients, MaxBinds[q] > 0
               PROVE  /\ byClient'[q] <= MaxBinds[q]
                      /\ \A o \in Conns : pc'[o] = "register" /\ bind'[o].who = q => byClient'[q] < MaxBinds[q]
    BY DEF RoomInv
  <2>1. ~overtaken /\ ~\E o \in Conns \ {c} : pc[o] = "register" /\ bind[o].who = k
    BY <1>4
  <2>2. /\ byClient[q] <= MaxBinds[q] /\ byClient[q] \in Nat /\ MaxBinds[q] \in Nat
        /\ \A o \in Conns : pc[o] = "register" /\ bind[o].who = q => byClient[q] < MaxBinds[q]
    BY <1>1, <2>1, SmppServerAssumption DEF RoomInv, TypeOK
  <2>3. CASE q = k
    <3>1. byClient[k] < MaxBinds[k] /\ byClient'[k] = byClient[k] + 1
      BY <1>1, <1>2, <1>3, <1>4, <2>2, <2>3 DEF TypeOK
    <3>2. ~\E o \in Conns : pc'[o] = "register" /\ bind'[o].who = k
      BY <1>5, <1>6, <2>1
    <3>3. QED
      BY <2>2, <2>3, <3>1, <3>2
  <2>4. CASE q # k
    <3>1. byClient'[q] = byClient[q]
      BY <1>1, <1>3, <1>4, <2>4 DEF TypeOK
    <3>2. QED
      BY <1>5, <1>6, <2>2, <3>1
  <2>5. QED
    BY <2>3, <2>4
<1>15. StoppedInv'
  BY <1>1, <1>2, <1>4 DEF StoppedInv
<1>16. QED
  BY <1>11, <1>12, <1>13, <1>14, <1>15 DEF SeatsInv

LEMMA EndKeeps ==
  ASSUME SeatsInv, NEW c \in Conns, pc[c] \in Seated \cup {"unbound"}, End(c), UNCHANGED <<phase, attempts, clock, history>>
  PROVE  SeatsInv'
<1>1. TypeOK /\ BindsKnown /\ CountsAccurate /\ RoomInv /\ StoppedInv
  BY DEF SeatsInv
<1>2. /\ pc' = [pc EXCEPT ![c] = "ended"] /\ bind' = [bind EXCEPT ![c] = NoBind]
      /\ open' \subseteq Conns /\ doomed' \subseteq Conns /\ UNCHANGED <<phase, attempts, clock, overtaken, late>>
  BY <1>1 DEF End, Goto, history, TypeOK
<1>3. pc'[c] = "ended" /\ \A o \in Conns \ {c} : pc'[o] = pc[o] /\ bind'[o] = bind[o]
  BY <1>1, <1>2 DEF TypeOK
<1>4. /\ pc' \in [Conns -> {"new", "accepted", "unbound", "lookup", "count", "register", "bound", "submit", "ended"}]
      /\ bind' \in [Conns -> Binds \cup {NoBind}]
  BY <1>1, <1>2 DEF TypeOK
<1>5. BindsKnown'
  BY <1>1, <1>2, <1>3 DEF BindsKnown, Served, Seated
<1>6. StoppedInv'
  BY <1>1, <1>2, <1>3 DEF StoppedInv
<1>7. CASE c \notin sessions
  <2>1. UNCHANGED <<sessions, byClient, deliver>>
    BY <1>7 DEF End, remove
  <2>2. TypeOK'
    BY <1>1, <1>2, <1>4, <2>1 DEF TypeOK
  <2>3. pc[c] \notin Seated
    BY <1>1, <1>7 DEF CountsAccurate, Seated
  <2>4. CountsAccurate'
    <3>1. \A o \in Conns : pc'[o] \in Seated <=> pc[o] \in Seated
      BY <1>3, <2>3 DEF Seated
    <3>2. \A o \in Conns : pc[o] \in Seated => bind'[o] = bind[o]
      BY <1>3, <2>3
    <3>3. QED
      BY <1>1, <2>1, <3>1, <3>2, SameSeats DEF registry
  <2>5. RoomInv'
    BY <1>1, <1>2, <1>3, <2>1 DEF RoomInv
  <2>6. QED
    BY <1>5, <1>6, <2>2, <2>4, <2>5 DEF SeatsInv
<1>8. CASE c \in sessions
  <2>1. pc[c] \in Seated /\ bind[c] \in Binds
    BY <1>1, <1>8 DEF CountsAccurate, BindsKnown, Seated, Served
  <2>2. PICK k, m : k = bind[c].who /\ m = bind[c].mode /\ k \in Clients /\ m \in Modes
    BY <2>1, BindParts
  <2>3. c \in SessionsOf(k) /\ SessionsOf(k) \subseteq Conns /\ byClient[k] = Cardinality(SessionsOf(k))
    BY <1>1, <1>8, <2>2 DEF SessionsOf, CountsAccurate, TypeOK
  <2>4. Cardinality(SessionsOf(k) \ {c}) = Cardinality(SessionsOf(k)) - 1 /\ Cardinality(SessionsOf(k) \ {c}) \in Nat
    BY <1>1, <2>3, SessionsCounted, FS_RemoveElement, FS_CardinalityType
  <2>5. byClient[k] \in Nat /\ byClient[k] > 0 /\ byClient[k] - 1 \in Nat
    BY <1>1, <2>2, <2>3, <2>4 DEF TypeOK
  <2>6. deliver[k] \in Seq(Conns) /\ IsInjective(deliver[k])
    BY <1>1, <2>2 DEF TypeOK, CountsAccurate
  <2>7. PICK d : d = Without(deliver[k], c) /\ d \in Seq(Conns) /\ IsInjective(d) /\ ToSet(d) = ToSet(deliver[k]) \ {c}
    BY <2>6, Deleted
  <2>8. /\ sessions' = sessions \ {c} /\ byClient' = [byClient EXCEPT ![k] = byClient[k] - 1]
        /\ deliver' = [deliver EXCEPT ![k] = d]
    BY <1>8, <2>2, <2>5, <2>7 DEF End, remove
  <2>9. TypeOK'
    <3>1. sessions' \subseteq Conns /\ byClient' \in [Clients -> Nat] /\ deliver' \in [Clients -> Seq(Conns)]
      BY <1>1, <2>2, <2>5, <2>7, <2>8 DEF TypeOK
    <3>2. QED
      BY <1>1, <1>2, <1>4, <3>1 DEF TypeOK
  <2>10. SessionsOf(k)' = SessionsOf(k) \ {c} /\ \A q \in Clients : q # k => SessionsOf(q)' = SessionsOf(q)
    BY <1>1, <1>3, <2>2, <2>8 DEF SessionsOf, TypeOK
  <2>11. CountsAccurate'
    <3>1. sessions' = {o \in Conns : pc'[o] \in {"bound", "submit"}}
      BY <1>1, <1>3, <2>8 DEF CountsAccurate
    <3>2. ASSUME NEW q \in Clients
          PROVE  /\ byClient'[q] = Cardinality(SessionsOf(q)')
                 /\ ToSet(deliver'[q]) = {o \in SessionsOf(q)' : canDeliver(bind'[o].mode)}
                 /\ IsInjective(deliver'[q])
      <4>1. /\ byClient[q] = Cardinality(SessionsOf(q)) /\ IsInjective(deliver[q])
            /\ ToSet(deliver[q]) = {o \in SessionsOf(q) : canDeliver(bind[o].mode)}
        BY <1>1 DEF CountsAccurate
      <4>2. SessionsOf(q)' \subseteq Conns \ {c} /\ \A o \in SessionsOf(q)' : bind'[o] = bind[o]
        BY <1>1, <1>3, <2>8 DEF SessionsOf, TypeOK
      <4>3. CASE q # k
        <5>1. SessionsOf(q)' = SessionsOf(q) /\ byClient'[q] = byClient[q] /\ deliver'[q] = deliver[q]
          BY <1>1, <2>2, <2>8, <2>10, <4>3 DEF TypeOK
        <5>2. QED
          BY <4>1, <4>2, <5>1
      <4>4. CASE q = k
        <5>1. byClient'[k] = byClient[k] - 1 /\ deliver'[k] = d
          BY <1>1, <2>2, <2>8 DEF TypeOK
        <5>2. byClient'[k] = Cardinality(SessionsOf(k)')
          BY <2>3, <2>4, <2>10, <5>1
        <5>3. {o \in SessionsOf(k)' : canDeliver(bind'[o].mode)} = {o \in SessionsOf(k) : canDeliver(bind[o].mode)} \ {c}
          BY <2>10, <4>2, <4>4
        <5>4. QED
          BY <2>7, <4>1, <4>4, <5>1, <5>2, <5>3
      <4>5. QED
        BY <4>3, <4>4
    <3>3. QED
      BY <3>1, <3>2 DEF CountsAccurate
  <2>12. RoomInv'
    <3> SUFFICES ASSUME ~overtaken, NEW q \in Clients, MaxBinds[q] > 0
                 PROVE  /\ byClient'[q] <= MaxBinds[q]
                        /\ \A o \in Conns : pc'[o] = "register" /\ bind'[o].who = q => byClient'[q] < MaxBinds[q]
      BY <1>2 DEF RoomInv
    <3>1. /\ byClient[q] <= MaxBinds[q] /\ byClient[q] \in Nat /\ MaxBinds[q] \in Nat
          /\ \A o \in Conns : pc[o] = "register" /\ bind[o].who = q => byClient[q] < MaxBinds[q]
      BY <1>1, SmppServerAssumption DEF RoomInv, TypeOK
    <3>2. byClient'[q] = IF q = k THEN byClient[q] - 1 ELSE byClient[q]
      BY <1>1, <2>8 DEF TypeOK
    <3>3. \A o \in Conns : pc'[o] = "register" => pc[o] = "register" /\ bind'[o] = bind[o]
      BY <1>3
    <3>4. byClient'[q] <= byClient[q] /\ byClient'[q] \in Int
      BY <3>1, <3>2
    <3>5. QED
      BY <3>1, <3>3, <3>4
  <2>13. QED
    BY <1>5, <1>6, <2>9, <2>11, <2>12 DEF SeatsInv
<1>9. QED
  BY <1>7, <1>8

-----------------------------------------------------------------------------
(* SmppServer: the throttle of binds.                                      *)

\* An entry whose window began in time and whose block, if it has one, lasts
\* longer than the window.
Sound(a, now) ==
  /\ a \in Attempts /\ a.first <= now
  /\ a.count >= MaxAttempts => a.til >= a.first + BlockFor - 1

LEMMA NoAttemptsSound == \A now \in Nat : Sound(NoAttempts, now) /\ NoAttempts.count < MaxAttempts
  BY ThrottleAssumption DEF Sound, NoAttempts, Attempts

\* Who may try again has the count below the limit.
LEMMA LookForgets ==
  ASSUME NEW now \in Nat, NEW a, Sound(a, now), ~Blocked(a, now)
  PROVE  Sound(Looked(a, now), now) /\ Looked(a, now).count < MaxAttempts
<1>1. CASE WindowOver(a, now)
  BY <1>1, NoAttemptsSound DEF Looked
<1>2. CASE ~WindowOver(a, now)
  BY <1>2, ThrottleAssumption DEF Looked, WindowOver, Blocked, Sound, Attempts
<1>3. QED
  BY <1>1, <1>2

\* A failure adds one to the count or begins a new one.
LEMMA FailureCounts ==
  ASSUME NEW now \in Nat, NEW then \in Nat, then <= now, now <= then + 1, NEW a, Sound(a, now)
  PROVE  /\ Sound(Failed(a, then), now)
         /\ Failed(a, then).count \in {1, a.count + 1}
<1> USE ThrottleAssumption DEF Attempts, NoAttempts
<1> DEFINE b == IF a = NoAttempts \/ WindowOver(a, then) THEN [NoAttempts EXCEPT !.first = then] ELSE a
<1>1. b \in Attempts /\ b.first <= now /\ b.count \in {0, a.count}
  BY DEF Sound
<1>2. Failed(a, then) = [b EXCEPT !.count = b.count + 1,
                                  !.til = IF b.count + 1 >= MaxAttempts THEN then + BlockFor ELSE b.til]
  BY <1>1 DEF Failed
<1> HIDE DEF b
<1>3. PICK c \in Nat, f \in Nat, t \in Nat : b = [count |-> c, first |-> f, til |-> t]
  BY <1>1
<1>4. Failed(a, then) = [count |-> c + 1, first |-> f,
                         til |-> IF c + 1 >= MaxAttempts THEN then + BlockFor ELSE t]
  BY <1>2, <1>3
<1>5. f <= now /\ c \in {0, a.count}
  BY <1>1, <1>3
<1>6. then + BlockFor >= f + BlockFor - 1
  BY <1>5
<1>7. QED
  BY <1>4, <1>5, <1>6 DEF Sound

\* The binds of a client that may still fail.
Looking(k) == {c \in Conns : pc[c] = "lookup" /\ bind[c].who = k}

Guess(k) ==
  /\ Sound(attempts[k], clock)
  /\ attempts[k].count + Cardinality(Looking(k)) < MaxAttempts + Cardinality(Conns)

GuessInv == \A k \in Clients : Guess(k)

LEMMA LooksCounted ==
  ASSUME NEW S, S \subseteq Conns
  PROVE  /\ IsFiniteSet(S) /\ Cardinality(S) \in Nat
         /\ Cardinality(Conns) \in Nat /\ Cardinality(S) <= Cardinality(Conns)
BY SmppServerAssumption, FS_Subset, FS_CardinalityType

\* Nobody comes to look, and the entry stays.
LEMMA GuessStays ==
  ASSUME NEW k, attempts[k] \in Attempts, Guess(k), attempts'[k] = attempts[k],
         clock \in Nat, clock' \in {clock, clock + 1}, Looking(k)' \subseteq Looking(k)
  PROVE  Guess(k)'
<1>0. Looking(k) \subseteq Conns /\ Looking(k)' \subseteq Conns
  BY DEF Looking
<1>1. Cardinality(Looking(k)') <= Cardinality(Looking(k))
  BY <1>0, LooksCounted, FS_Subset
<1>2. /\ Cardinality(Looking(k)') \in Nat /\ Cardinality(Looking(k)) \in Nat /\ Cardinality(Conns) \in Nat
      /\ MaxAttempts \in Nat /\ attempts[k].count \in Nat
  BY <1>0, LooksCounted, ThrottleAssumption DEF Attempts
<1>3. attempts'[k].count + Cardinality(Looking(k)') < MaxAttempts + Cardinality(Conns)
  BY <1>1, <1>2 DEF Guess
<1>4. Sound(attempts'[k], clock')
  BY DEF Guess, Sound, Attempts
<1>5. QED
  BY <1>3, <1>4 DEF Guess

\* The count starts again, or is below the limit after a look.
LEMMA GuessForgotten ==
  ASSUME NEW k, Sound(attempts'[k], clock'), attempts'[k].count < MaxAttempts
  PROVE  Guess(k)'
<1>1. Looking(k)' \subseteq Conns
  BY DEF Looking
<1>2. Cardinality(Looking(k)') \in Nat /\ Cardinality(Conns) \in Nat /\ Cardinality(Looking(k)') <= Cardinality(Conns)
  BY <1>1, LooksCounted
<1>3. attempts'[k].count \in Nat /\ MaxAttempts \in Nat
  BY ThrottleAssumption DEF Sound, Attempts
<1>4. QED
  BY <1>2, <1>3 DEF Guess

LEMMA GuessInit == Init => GuessInv
<1> SUFFICES ASSUME Init, NEW k \in Clients PROVE Guess(k)
  BY DEF GuessInv
<1>1. Looking(k) = {} /\ attempts[k] = NoAttempts /\ clock = 0
  BY DEF Init, Looking
<1>2. NoAttempts.count = 0 /\ Cardinality(Looking(k)) = 0 /\ Cardinality(Conns) \in Nat
  BY <1>1, FS_EmptySet, FS_CardinalityType, SmppServerAssumption DEF NoAttempts
<1>3. QED
  BY <1>1, <1>2, NoAttemptsSound, ThrottleAssumption DEF Guess

LEMMA GuessesStay ==
  ASSUME TypeOK, GuessInv, UNCHANGED attempts, clock' \in {clock, clock + 1},
         \A c \in Conns : pc'[c] = "lookup" => pc[c] = "lookup" /\ bind'[c] = bind[c]
  PROVE  GuessInv'
<1>1. ASSUME NEW k \in Clients PROVE Guess(k)'
  <2>1. Looking(k)' \subseteq Looking(k)
    BY DEF Looking
  <2>2. QED
    BY <2>1, GuessStays DEF GuessInv, TypeOK
<1>2. QED
  BY <1>1 DEF GuessInv

LEMMA BindGuess ==
  ASSUME TypeOK, GuessInv, NEW c \in Conns, NEW k \in Clients, NEW m \in Modes, Bind(c, k, m)
  PROVE  attempts' \in [Clients -> Attempts] /\ GuessInv'
<1>1. CASE Blocked(attempts[k], clock)
  BY <1>1, GuessesStay DEF Bind, TypeOK
<1>2. CASE ~Blocked(attempts[k], clock)
  <2>1. /\ pc' = [pc EXCEPT ![c] = "lookup"] /\ clock' = clock
        /\ bind' = [bind EXCEPT ![c] = [who |-> k, mode |-> m, now |-> clock]]
        /\ attempts' = [attempts EXCEPT ![k] = Looked(attempts[k], clock)]
    BY <1>2 DEF Bind, Goto
  <2>2. Sound(Looked(attempts[k], clock), clock) /\ Looked(attempts[k], clock).count < MaxAttempts
    BY <1>2, LookForgets DEF GuessInv, Guess, TypeOK
  <2>3. attempts' \in [Clients -> Attempts] /\ attempts'[k] = Looked(attempts[k], clock)
    BY <2>1, <2>2 DEF Sound, TypeOK
  <2>4. Guess(k)'
    BY <2>1, <2>2, <2>3, GuessForgotten
  <2>5. ASSUME NEW q \in Clients, q # k PROVE Guess(q)'
    <3>1. Looking(q)' \subseteq Looking(q) /\ attempts'[q] = attempts[q]
      BY <2>1, <2>5 DEF Looking, TypeOK
    <3>2. QED
      BY <2>1, <3>1, GuessStays DEF GuessInv, TypeOK
  <2>6. QED
    BY <2>3, <2>4, <2>5 DEF GuessInv
<1>3. QED
  BY <1>1, <1>2

LEMMA RefusalGuess ==
  ASSUME TypeOK, BindsKnown, GuessInv, NEW c \in Conns, LookupRefuses(c)
  PROVE  attempts' \in [Clients -> Attempts] /\ GuessInv'
<1>1. pc[c] = "lookup" /\ bind[c] \in Binds /\ bind[c].now <= clock /\ clock <= bind[c].now + 1
  BY DEF LookupRefuses, BindsKnown, Served
<1>2. PICK k, then : k = bind[c].who /\ then = bind[c].now /\ k \in Clients /\ then \in Nat
  BY <1>1, BindParts
<1>3. PICK a : a = Failed(attempts[k], then)
  OBVIOUS
<1>4. Sound(attempts[k], clock) /\ clock \in Nat
  BY <1>2 DEF GuessInv, Guess, TypeOK
<1>5. Sound(a, clock) /\ a.count \in {1, attempts[k].count + 1}
  BY <1>1, <1>2, <1>3, <1>4, FailureCounts
<1>6. /\ attempts' = [attempts EXCEPT ![k] = a] /\ clock' = clock
      /\ pc' = [pc EXCEPT ![c] = "unbound"] /\ \A o \in Conns \ {c} : bind'[o] = bind[o]
  BY <1>2, <1>3 DEF LookupRefuses, Unserved, Goto, TypeOK
<1>7. pc'[c] = "unbound" /\ \A o \in Conns \ {c} : pc'[o] = pc[o]
  BY <1>6 DEF TypeOK
<1>8. attempts' \in [Clients -> Attempts] /\ attempts'[k] = a
  BY <1>2, <1>5, <1>6 DEF Sound, TypeOK
<1>9. Looking(k)' = Looking(k) \ {c} /\ c \in Looking(k) /\ Looking(k) \subseteq Conns
  BY <1>1, <1>2, <1>6, <1>7 DEF Looking
<1>10. Guess(k)'
  <2>1. Cardinality(Looking(k)') = Cardinality(Looking(k)) - 1
    BY <1>9, LooksCounted, FS_RemoveElement
  <2>2. /\ Cardinality(Looking(k)) \in Nat /\ Cardinality(Conns) \in Nat /\ Cardinality(Looking(k)) <= Cardinality(Conns)
        /\ MaxAttempts \in Nat \ {0} /\ attempts[k].count \in Nat
    BY <1>2, <1>9, LooksCounted, ThrottleAssumption DEF TypeOK, Attempts
  <2>3. attempts[k].count + Cardinality(Looking(k)) < MaxAttempts + Cardinality(Conns)
    BY <1>2 DEF GuessInv, Guess
  <2>4. a.count + Cardinality(Looking(k)') < MaxAttempts + Cardinality(Conns)
    BY <1>5, <2>1, <2>2, <2>3
  <2>5. QED
    BY <1>5, <1>6, <1>8, <2>4 DEF Guess
<1>11. ASSUME NEW q \in Clients, q # k PROVE Guess(q)'
  <2>1. Looking(q)' \subseteq Looking(q) /\ attempts'[q] = attempts[q]
    BY <1>6, <1>7, <1>11 DEF Looking, TypeOK
  <2>2. QED
    BY <1>6, <2>1, GuessStays DEF GuessInv, TypeOK
<1>12. QED
  BY <1>8, <1>10, <1>11 DEF GuessInv

LEMMA RegisterGuess ==
  ASSUME TypeOK, BindsKnown, GuessInv, NEW c \in Conns, Register(c)
  PROVE  GuessInv'
<1>1. bind[c].who \in Clients
  BY BindParts DEF Register, BindsKnown, Served
<1>2. PICK k \in Clients : k = bind[c].who
  BY <1>1
<1>3. /\ attempts' = [attempts EXCEPT ![k] = NoAttempts] /\ clock' = clock
      /\ pc' = [pc EXCEPT ![c] = "bound"] /\ \A o \in Conns \ {c} : bind'[o] = bind[o]
  BY <1>2 DEF Register, Goto, TypeOK
<1>4. pc'[c] = "bound" /\ \A o \in Conns \ {c} : pc'[o] = pc[o]
  BY <1>3 DEF TypeOK
<1>5. Guess(k)'
  <2>1. attempts'[k] = NoAttempts /\ clock' \in Nat
    BY <1>3 DEF TypeOK
  <2>2. QED
    BY <2>1, NoAttemptsSound, GuessForgotten
<1>6. ASSUME NEW q \in Clients, q # k PROVE Guess(q)'
  <2>1. Looking(q)' \subseteq Looking(q) /\ attempts'[q] = attempts[q]
    BY <1>3, <1>4, <1>6 DEF Looking, TypeOK
  <2>2. QED
    BY <1>3, <2>1, GuessStays DEF GuessInv, TypeOK
<1>7. QED
  BY <1>5, <1>6 DEF GuessInv

ServerIInv == SeatsInv /\ GuessInv

LEMMA HandlerKeeps ==
  ASSUME ServerIInv, NEW c \in Conns, HandlerStep(c) \/ PeerStep(c)
  PROVE  ServerIInv'
<1> USE DEF ServerIInv
<1>1. TypeOK /\ BindsKnown /\ attempts \in [Clients -> Attempts] /\ open \subseteq Conns
      /\ bind \in [Conns -> Binds \cup {NoBind}]
  BY DEF SeatsInv, TypeOK
<1>2. pc[c] \in Served => bind[c] \in Binds
  BY <1>1 DEF BindsKnown
<1>3. ASSUME NEW l, pc' = [pc EXCEPT ![c] = l], l # "lookup", UNCHANGED <<attempts, clock>>,
             \A o \in Conns \ {c} : bind'[o] = bind[o]
      PROVE  GuessInv'
  BY <1>1, <1>3, GuessesStay DEF TypeOK
<1> USE DEF Seated, Served, Goto
<1>4. CASE Accept(c) \/ Track(c) \/ Submit(c) \/ SubmitAnswered(c) \/ LookupSucceeds(c)
  <2>1. CASE Accept(c)
    BY <1>1, <1>3, <2>1, WalkKeeps DEF Accept
  <2>2. CASE Track(c)
    BY <1>1, <1>3, <2>2, WalkKeeps DEF Track
  <2>3. CASE Submit(c)
    BY <1>1, <1>2, <1>3, <2>3, WalkKeeps DEF Submit
  <2>4. CASE SubmitAnswered(c)
    BY <1>1, <1>2, <1>3, <2>4, WalkKeeps DEF SubmitAnswered
  <2>5. CASE LookupSucceeds(c)
    BY <1>1, <1>2, <1>3, <2>5, WalkKeeps DEF LookupSucceeds, CanQuery
  <2>6. QED
    BY <1>4, <2>1, <2>2, <2>3, <2>4, <2>5
<1>5. ASSUME NEW k \in Clients, NEW m \in Modes, Bind(c, k, m) PROVE ServerIInv'
  <2>1. attempts' \in [Clients -> Attempts] /\ GuessInv'
    BY <1>1, <1>5, BindGuess
  <2>2. CASE Blocked(attempts[k], clock)
    BY <1>1, <1>5, <2>1, <2>2, QuietKeeps DEF Bind, SeatsInv, TypeOK
  <2>3. CASE ~Blocked(attempts[k], clock)
    <3>1. [who |-> k, mode |-> m, now |-> clock] \in Binds
      BY <1>1 DEF Binds, TypeOK
    <3>2. PICK b : b = [who |-> k, mode |-> m, now |-> clock]
      OBVIOUS
    <3>3. /\ pc' = [pc EXCEPT ![c] = "lookup"] /\ bind' = [bind EXCEPT ![c] = b] /\ pc[c] = "unbound"
          /\ UNCHANGED <<phase, open, registry, doomed, clock, history>>
      BY <1>5, <2>3, <3>2 DEF Bind
    <3>4. bind'[c] = b /\ bind'[c].now = clock /\ b \in Binds
      BY <1>1, <3>1, <3>2, <3>3
    <3>5. QED
      BY <1>1, <2>1, <3>3, <3>4, WalkKeeps
  <2>4. QED
    BY <2>2, <2>3
<1>6. CASE LookupRefuses(c)
  <2>1. attempts' \in [Clients -> Attempts] /\ GuessInv'
    BY <1>1, <1>6, RefusalGuess
  <2>2. QED
    BY <1>1, <1>6, <2>1, WalkKeeps DEF LookupRefuses, Unserved
<1>7. CASE LookupFails(c)
  BY <1>1, <1>3, <1>7, WalkKeeps DEF LookupFails, Unserved
<1>8. CASE Count(c)
  <2>1. CASE Full(bind[c].who)
    BY <1>1, <1>3, <1>8, <2>1, WalkKeeps DEF Count, Unserved
  <2>2. CASE ~Full(bind[c].who)
    BY <1>1, <1>2, <1>3, <1>8, <2>2, WalkKeeps DEF Count
  <2>3. QED
    BY <2>1, <2>2
<1>9. CASE Register(c)
  BY <1>1, <1>9, RegisterKeeps, RegisterGuess
<1>10. CASE Unbind(c) \/ Disconnect(c)
  <2>1. /\ pc[c] \in Seated \cup {"unbound"} /\ End(c) /\ UNCHANGED <<phase, attempts, clock, history>>
        /\ pc' = [pc EXCEPT ![c] = "ended"] /\ \A o \in Conns \ {c} : bind'[o] = bind[o]
    BY <1>1, <1>10 DEF Unbind, Disconnect, End
  <2>2. GuessInv'
    BY <1>3, <2>1
  <2>3. QED
    BY <2>1, <2>2, EndKeeps
<1>11. CASE PeerCloses(c)
  BY <1>1, <1>11, QuietKeeps, GuessesStay DEF PeerCloses, SeatsInv, TypeOK
<1>12. QED
  BY <1>4, <1>5, <1>6, <1>7, <1>8, <1>9, <1>10, <1>11 DEF HandlerStep, BindStep, PeerStep

LEMMA ServerStep == ServerIInv /\ [Next]_vars => ServerIInv'
<1> SUFFICES ASSUME ServerIInv, [Next]_vars PROVE ServerIInv'
  OBVIOUS
<1> USE DEF ServerIInv
<1>1. TypeOK /\ BindsKnown /\ CountsAccurate /\ RoomInv /\ StoppedInv
  BY DEF SeatsInv
<1>2. ASSUME UNCHANGED <<pc, bind, registry, history, attempts>>,
             phase' \in {"serving", "cancelled", "closed", "stopped", "gaveup"},
             open' \subseteq Conns, doomed' \subseteq Conns, clock' = clock,
             phase' = "stopped" => phase = "stopped" \/ Tracked = {}
      PROVE  ServerIInv'
  BY <1>1, <1>2, QuietKeeps, GuessesStay
<1>3. ASSUME NEW c \in Conns, CloseOne(c) PROVE ServerIInv'
  BY <1>1, <1>2, <1>3 DEF CloseOne, TypeOK
<1>4. ASSUME NEW k \in Clients, RestartClient(k) PROVE ServerIInv'
  BY <1>1, <1>2, <1>4 DEF RestartClient, TypeOK, SessionsOf
<1>5. CASE Cancel \/ closeAll
  BY <1>1, <1>2, <1>5 DEF Cancel, closeAll, TypeOK
<1>6. CASE WaitEnds \/ WaitTimesOut
  BY <1>1, <1>2, <1>6 DEF WaitEnds, WaitTimesOut, AllDone, TypeOK
<1>7. CASE Tick
  <2>1. /\ clock' = clock + 1 /\ clock \in Nat /\ UNCHANGED <<phase, pc, open, bind, sessions, byClient, deliver, doomed, attempts, overtaken, late>>
        /\ \A c \in Conns : pc[c] = "lookup" => bind[c].now = clock
    BY <1>1, <1>7 DEF Tick, TypeOK, registry, history
  <2>2. TypeOK' /\ RoomInv' /\ StoppedInv'
    BY <1>1, <2>1 DEF TypeOK, RoomInv, StoppedInv
  <2>3. BindsKnown'
    BY <1>1, <2>1 DEF BindsKnown
  <2>4. CountsAccurate'
    BY <1>1, <2>1, SameSeats DEF registry
  <2>5. GuessInv'
    BY <1>1, <2>1, GuessesStay
  <2>6. QED
    BY <2>2, <2>3, <2>4, <2>5 DEF SeatsInv
<1>8. CASE UNCHANGED vars
  BY <1>1, <1>2, <1>8 DEF vars, TypeOK
<1>9. QED
  BY <1>3, <1>4, <1>5, <1>6, <1>7, <1>8, HandlerKeeps DEF Next

\* RegistryInv, for any number of connections and clients, every limit on binds
\* and every setting of the throttle: the counts are those of the sessions, the
\* limit holds for whoever is not overtaken between check and registration,
\* guesses stay bounded, and a stopped server has no session.
THEOREM RegistryHolds == Spec => []RegistryInv
<1>1. ServerIInv => RegistryInv
  <2> SUFFICES ASSUME ServerIInv PROVE RegistryInv
    OBVIOUS
  <2>1. TypeOK /\ CountsAccurate /\ RoomInv /\ StoppedInv /\ GuessInv
    BY DEF ServerIInv, SeatsInv
  <2>2. BindsCapped
    BY <2>1 DEF BindsCapped, RoomInv, CountsAccurate
  <2>3. ASSUME NEW k \in Clients PROVE attempts[k].count < MaxAttempts + Cardinality(Conns)
    <3>1. Looking(k) \subseteq Conns
      BY DEF Looking
    <3>2. Cardinality(Looking(k)) \in Nat /\ Cardinality(Conns) \in Nat
      BY <3>1, LooksCounted
    <3>3. attempts[k].count \in Nat /\ attempts[k].count + Cardinality(Looking(k)) < MaxAttempts + Cardinality(Conns)
      BY <2>1 DEF GuessInv, Guess, TypeOK, Attempts
    <3>4. QED
      BY <3>2, <3>3, ThrottleAssumption
  <2>4. QED
    BY <2>1, <2>2, <2>3 DEF RegistryInv, GuessesBounded, StoppedInv
<1>2. Init => ServerIInv
  BY SeatsInit, GuessInit DEF ServerIInv
<1>3. QED
  BY <1>1, <1>2, ServerStep, PTL DEF Spec

-----------------------------------------------------------------------------
\* Induction over the subsets of a finite set: where some have a property,
\* one of them has it and none of its own subsets does.
LEMMA MinimalSet ==
  ASSUME NEW D, IsFiniteSet(D), NEW T, T \subseteq SUBSET D, T # {}
  PROVE  \E S \in T : \A R \in T : R \subseteq S => R = S
<1> DEFINE less == StrictSubsetOrdering(D)
           all == FiniteSubsetsOf(D)
<1>1. T \subseteq all
  BY FS_Subset DEF FiniteSubsetsOf
<1>2. IsWellFoundedOn(less, all)
  BY FS_StrictSubsetOrderingWellFounded
<1> HIDE DEF less, all
<1>3. PICK S \in T : \A R \in T : ~ (<<R, S>> \in less)
  BY <1>1, <1>2, WFMin
<1>4. ASSUME NEW R \in T, R \subseteq S, R # S PROVE FALSE
  <2>1. <<R, S>> \in less
    BY <1>4 DEF less, StrictSubsetOrdering
  <2> QED
    BY <1>3, <2>1
<1> QED
  BY <1>4

\* Sums over the subsets of a set, as the recursion of Total builds them.
Least(S) == CHOOSE m \in S : TRUE
Adds(f, of, S) == f[S] = IF S = {} THEN 0 ELSE of[Least(S)] + f[S \ {Least(S)}]
Sums(of, D) == {f \in [SUBSET D -> Nat] : \A S \in SUBSET D : Adds(f, of, S)}

\* They agree where they overlap.
LEMMA SumsAgree ==
  ASSUME NEW of, NEW D, IsFiniteSet(D), NEW E \in SUBSET D,
         NEW f \in Sums(of, D), NEW g \in Sums(of, E)
  PROVE  \A S \in SUBSET E : f[S] = g[S]
<1> DEFINE T == {S \in SUBSET E : f[S] # g[S]}
<1> SUFFICES ASSUME T # {} PROVE FALSE
  OBVIOUS
<1>1. IsFiniteSet(E)
  BY FS_Subset
<1>2. PICK S \in T : \A R \in T : R \subseteq S => R = S
  <2>1. T \subseteq SUBSET E
    OBVIOUS
  <2> HIDE DEF T
  <2> QED
    BY <1>1, <2>1, MinimalSet
<1>3. Adds(f, of, S) /\ Adds(g, of, S) /\ S \in SUBSET E /\ f[S] # g[S]
  BY <1>2 DEF Sums
<1>4. S # {}
  BY <1>3 DEF Adds
<1>5. Least(S) \in S
  BY <1>4 DEF Least
<1>6. f[S \ {Least(S)}] = g[S \ {Least(S)}]
  BY <1>2, <1>3, <1>5
<1> QED
  BY <1>3, <1>4, <1>6 DEF Adds

\* They exist.
LEMMA SumsExist ==
  ASSUME NEW D, IsFiniteSet(D), NEW of \in [D -> Nat]
  PROVE  Sums(of, D) # {}
<1> DEFINE T == {E \in SUBSET D : Sums(of, E) = {}}
<1> SUFFICES ASSUME T # {} PROVE FALSE
  OBVIOUS
<1>1. PICK E \in T : \A R \in T : R \subseteq E => R = E
  <2>1. T \subseteq SUBSET D
    OBVIOUS
  <2> HIDE DEF T
  <2> QED
    BY <2>1, MinimalSet
<1> DEFINE part(S) == CHOOSE f : f \in Sums(of, S)
           least == Least(E)
           g == [S \in SUBSET E |->
                   IF S # E THEN part(S)[S]
                   ELSE IF S = {} THEN 0 ELSE of[least] + part(E \ {least})[E \ {least}]]
<1>2. \A S \in SUBSET E : S # E => part(S) \in Sums(of, S)
  BY <1>1
<1>3. E # {} => least \in E /\ of[least] \in Nat
  BY <1>1 DEF Least
<1>4. g \in [SUBSET E -> Nat]
  <2>1. \A S \in SUBSET E : S # E => part(S)[S] \in Nat
    BY <1>2 DEF Sums
  <2> HIDE DEF part, least
  <2>2. E # {} => part(E \ {least})[E \ {least}] \in Nat
    BY <1>3, <2>1
  <2> QED
    BY <1>3, <2>1, <2>2
<1>5. ASSUME NEW S \in SUBSET E PROVE Adds(g, of, S)
  <2>1. CASE S = {}
    <3>1. CASE E = {}
      BY <2>1, <3>1 DEF Adds
    <3>2. CASE E # {}
      <4>1. part(S) \in Sums(of, S) /\ S \in SUBSET S
        BY <1>2, <2>1, <3>2
      <4>2. g[S] = part(S)[S]
        BY <2>1, <3>2
      <4> HIDE DEF part, g
      <4>3. Adds(part(S), of, S)
        BY <4>1 DEF Sums
      <4> QED
        BY <2>1, <4>2, <4>3 DEF Adds
    <3> QED
      BY <3>1, <3>2
  <2>2. CASE S # {} /\ S = E
    BY <1>3, <2>2 DEF Adds
  <2>3. CASE S # {} /\ S # E
    <3> DEFINE R == S \ {Least(S)}
    <3>1. Least(S) \in S
      BY <2>3 DEF Least
    <3>2. R \in SUBSET S /\ R \in SUBSET E /\ R # E /\ IsFiniteSet(S)
      BY <1>5, <2>3, <3>1, <1>1, FS_Subset
    <3>3. part(S) \in Sums(of, S) /\ part(R) \in Sums(of, R)
      BY <1>2, <2>3, <3>2
    <3>4. part(S)[R] = part(R)[R]
      <4> HIDE DEF part, R
      <4> QED
        BY <3>2, <3>3, SumsAgree
    <3>5. Adds(part(S), of, S)
      BY <3>3 DEF Sums
    <3>6. g[S] = part(S)[S] /\ g[R] = part(R)[R]
      BY <2>3, <3>2
    <3> HIDE DEF part, g
    <3> QED
      BY <2>3, <3>4, <3>5, <3>6 DEF Adds
  <2> QED
    BY <2>1, <2>2, <2>3
<1>6. g \in Sums(of, E)
  <2> HIDE DEF g
  <2> QED
    BY <1>4, <1>5 DEF Sums
<1> QED
  BY <1>1, <1>6

\* Total is such a sum.
LEMMA TotalSums ==
  ASSUME NEW D, IsFiniteSet(D), NEW of \in [D -> Nat]
  PROVE  /\ Total(of, {}) = 0
         /\ \A S \in SUBSET D :
              /\ Total(of, S) \in Nat
              /\ S # {} => Total(of, S) = of[Least(S)] + Total(of, S \ {Least(S)})
<1> DEFINE Sum(f) == f = [S \in SUBSET DOMAIN of |->
                            IF S = {} THEN 0
                            ELSE of[CHOOSE m \in S : TRUE] + f[S \ {CHOOSE m \in S : TRUE}]]
           w == CHOOSE f : Sum(f)
<1>1. PICK f : f \in Sums(of, D)
  BY SumsExist
<1>2. Sum(f)
  <2>1. f \in [SUBSET DOMAIN of -> Nat] /\ \A S \in SUBSET DOMAIN of : Adds(f, of, S)
    BY <1>1 DEF Sums
  <2> QED
    BY <2>1 DEF Adds, Least
<1>3. Sum(w)
  BY <1>2
<1>4. \A S : Total(of, S) = w[S]
  BY DEF Total
<1> HIDE DEF w
<1>5. \A S \in SUBSET D : w[S] = IF S = {} THEN 0 ELSE of[Least(S)] + w[S \ {Least(S)}]
  BY <1>3 DEF Least
<1>6. \A S \in SUBSET D : w[S] \in Nat
  <2> DEFINE T == {S \in SUBSET D : w[S] \notin Nat}
  <2> SUFFICES ASSUME T # {} PROVE FALSE
    OBVIOUS
  <2>1. PICK S \in T : \A R \in T : R \subseteq S => R = S
    <3>1. T \subseteq SUBSET D
      OBVIOUS
    <3> HIDE DEF T
    <3> QED
      BY <3>1, MinimalSet
  <2>2. S # {}
    <3>1. w[{}] = 0
      BY <1>5
    <3>2. w[S] \notin Nat
      BY <2>1
    <3> HIDE DEF T
    <3> QED
      BY <3>1, <3>2
  <2>3. Least(S) \in S
    BY <2>2 DEF Least
  <2>4. w[S \ {Least(S)}] \in Nat
    BY <2>1, <2>3
  <2>5. of[Least(S)] \in Nat
    BY <2>1, <2>3
  <2> QED
    BY <1>5, <2>1, <2>2, <2>4, <2>5
<1> QED
  BY <1>4, <1>5, <1>6

\* In whatever order: one more member adds its own amount.
LEMMA TotalAdds ==
  ASSUME NEW D, IsFiniteSet(D), NEW of \in [D -> Nat], NEW S \in SUBSET D, NEW m \in S
  PROVE  Total(of, S) = of[m] + Total(of, S \ {m})
<1> DEFINE T == {R \in SUBSET D : \E x \in R : Total(of, R) # of[x] + Total(of, R \ {x})}
<1> SUFFICES ASSUME T # {} PROVE FALSE
  OBVIOUS
<1>1. PICK R \in T : \A Q \in T : Q \subseteq R => Q = R
  <2>1. T \subseteq SUBSET D
    OBVIOUS
  <2> HIDE DEF T
  <2> QED
    BY <2>1, MinimalSet
<1>2. PICK x \in R : Total(of, R) # of[x] + Total(of, R \ {x})
  BY <1>1
<1> DEFINE y == Least(R)
<1>3. y \in R /\ Total(of, R) = of[y] + Total(of, R \ {y})
  <2>1. y \in R
    BY <1>2 DEF Least
  <2> QED
    BY <1>1, <2>1, TotalSums
<1> HIDE DEF y
<1>4. x # y
  BY <1>2, <1>3
<1>5. PICK Q \in SUBSET D : Q = R \ {x, y}
  BY <1>1
<1>6. Total(of, R \ {y}) = of[x] + Total(of, Q)
  <2>1. R \ {y} \notin T /\ x \in R \ {y} /\ (R \ {y}) \ {x} = Q
    BY <1>1, <1>2, <1>3, <1>4, <1>5
  <2> QED
    BY <1>1, <2>1
<1>7. Total(of, R \ {x}) = of[y] + Total(of, Q)
  <2>1. R \ {x} \notin T /\ y \in R \ {x} /\ (R \ {x}) \ {y} = Q
    BY <1>1, <1>2, <1>3, <1>4, <1>5
  <2> QED
    BY <1>1, <2>1
<1>8. of[x] \in Nat /\ of[y] \in Nat /\ Total(of, Q) \in Nat
  BY <1>1, <1>2, <1>3, <1>5, TotalSums
<1> QED
  BY <1>2, <1>3, <1>5, <1>6, <1>7, <1>8

LEMMA TotalGrows ==
  ASSUME NEW D, IsFiniteSet(D), NEW of \in [D -> Nat], NEW S \in SUBSET D, NEW m \in D \ S
  PROVE  /\ Total(of, S \cup {m}) = of[m] + Total(of, S)
         /\ Total(of, S) \in Nat /\ of[m] \in Nat
<1>1. S \cup {m} \in SUBSET D /\ m \in S \cup {m} /\ (S \cup {m}) \ {m} = S
  OBVIOUS
<1>2. Total(of, S \cup {m}) = of[m] + Total(of, (S \cup {m}) \ {m})
  BY <1>1, TotalAdds
<1> QED
  BY <1>1, <1>2, TotalSums

LEMMA MaxOfZero == ASSUME NEW x \in Int PROVE Max({0, x}) = IF x > 0 THEN x ELSE 0
<1> DEFINE M == IF x > 0 THEN x ELSE 0
<1>1. M \in {0, x} /\ \A y \in {0, x} : M >= y
  OBVIOUS
<1>2. \A k \in {0, x} : (\A y \in {0, x} : k >= y) => k = M
  OBVIOUS
<1> QED
  BY <1>1, <1>2 DEF Max

MoneyInv == \A e \in Entities : account[e] = Total(Paid, Settled(e)) - LineTotal(e)
RowsInv == \A n \in DOMAIN invoices : RowAgrees(n)

\* The sums of the model.
LEMMA Sums3 ==
  ASSUME InvoicesTypeOK
  PROVE  /\ \A e \in Entities : Total(Paid, Settled(e)) \in Nat /\ LineTotal(e) \in Nat
         /\ \A n \in DOMAIN invoices : Total(Paid, PaidFor(n)) \in Nat
<1>1. Paid \in [Payments -> Nat] /\ Price \in [Texts -> Nat] /\ Fee \in [Texts -> Nat]
  BY InvoicesAssumption
<1>2. IsFiniteSet(Texts) /\ IsFiniteSet(Payments)
  BY InvoicesAssumption
<1>3. \A e \in Entities : Settled(e) \in SUBSET Payments
  BY DEF Settled
<1>4. \A n \in DOMAIN invoices : PaidFor(n) \in SUBSET Payments
  BY DEF Settled, PaidFor
<1>5. lines["client"] \in SUBSET Texts /\ charged \in SUBSET Texts
  BY DEF InvoicesTypeOK, Entities
<1>6. /\ \A S \in SUBSET Payments : Total(Paid, S) \in Nat
      /\ \A S \in SUBSET Texts : Total(Price, S) \in Nat /\ Total(Fee, S) \in Nat
  BY <1>1, <1>2, TotalSums
<1> QED
  BY <1>3, <1>4, <1>5, <1>6 DEF LineTotal

\* A message's line, or the carrier's charge for it.
LEMMA LinesGrow ==
  ASSUME InvoicesTypeOK, NEW m \in Texts, Reserve(m) \/ BillCarrier(m)
  PROVE  /\ lines' \in [Entities -> SUBSET Texts] /\ charged' \subseteq lines'["carrier"]
         /\ account' \in [Entities -> Int]
         /\ \A e \in Entities :
              /\ LineTotal(e)' >= LineTotal(e)
              /\ account'[e] - account[e] = LineTotal(e) - LineTotal(e)'
              /\ ~AccountFree(e) => account'[e] = account[e]
         /\ UNCHANGED <<nextval, files, invoices, bill, pay>>
<1>1. Price \in [Texts -> Nat] /\ Fee \in [Texts -> Nat] /\ IsFiniteSet(Texts)
  BY InvoicesAssumption
<1>2. /\ lines \in [Entities -> SUBSET Texts] /\ charged \subseteq lines["carrier"]
      /\ account \in [Entities -> Int] /\ Entities = {"client", "carrier"}
      /\ lines["client"] \in SUBSET Texts /\ charged \in SUBSET Texts
  BY DEF InvoicesTypeOK, Entities
<1>3. \A e \in Entities : LineTotal(e) \in Nat
  BY Sums3
<1>4. CASE Reserve(m)
  <2>1. /\ m \in Texts \ lines["client"] /\ AccountFree("client") /\ UNCHANGED charged
        /\ account' = [account EXCEPT !["client"] = account["client"] - Price[m]]
        /\ lines' = [lines EXCEPT !["client"] = lines["client"] \cup {m}]
    BY <1>4 DEF Reserve, Charge
  <2>2. /\ Total(Price, lines["client"] \cup {m}) = Price[m] + Total(Price, lines["client"])
        /\ Price[m] \in Nat
    BY <1>1, <1>2, <2>1, TotalGrows
  <2>3. LineTotal("client")' = Price[m] + LineTotal("client") /\ LineTotal("carrier")' = LineTotal("carrier")
    BY <1>2, <2>1, <2>2 DEF LineTotal
  <2>4. /\ lines' \in [Entities -> SUBSET Texts] /\ charged' \subseteq lines'["carrier"]
        /\ account' \in [Entities -> Int]
    BY <1>2, <2>1, <2>2
  <2>5. account'["client"] = account["client"] - Price[m] /\ account'["carrier"] = account["carrier"]
    BY <1>2, <2>1
  <2>6. UNCHANGED <<nextval, files, invoices, bill, pay>>
    BY <1>4 DEF Reserve
  <2> QED
    BY <1>2, <1>3, <2>1, <2>2, <2>3, <2>4, <2>5, <2>6
<1>5. CASE BillCarrier(m)
  <2>1. /\ m \in Texts \ charged
        /\ lines' = [lines EXCEPT !["carrier"] = lines["carrier"] \cup {m}]
        /\ UNCHANGED <<nextval, files, invoices, bill, pay>>
    BY <1>2, <1>5 DEF BillCarrier
  <2>2. lines' \in [Entities -> SUBSET Texts] /\ lines'["client"] = lines["client"]
        /\ lines'["carrier"] = lines["carrier"] \cup {m}
    BY <1>2, <2>1
  <2>3. CASE Charge("carrier", Fee[m]) /\ charged' = charged \cup {m}
    <3>1. /\ AccountFree("carrier")
          /\ account' = [account EXCEPT !["carrier"] = account["carrier"] - Fee[m]]
      BY <2>3 DEF Charge
    <3>2. Total(Fee, charged \cup {m}) = Fee[m] + Total(Fee, charged) /\ Fee[m] \in Nat
      BY <1>1, <1>2, <2>1, TotalGrows
    <3>3. LineTotal("carrier")' = Fee[m] + LineTotal("carrier") /\ LineTotal("client")' = LineTotal("client")
      BY <1>2, <2>2, <2>3, <3>2 DEF LineTotal
    <3>4. account'["carrier"] = account["carrier"] - Fee[m] /\ account'["client"] = account["client"]
          /\ account' \in [Entities -> Int]
      BY <1>2, <3>1, <3>2
    <3> QED
      BY <1>2, <1>3, <2>1, <2>2, <2>3, <3>1, <3>2, <3>3, <3>4
  <2>4. CASE UNCHANGED <<account, charged>>
    <3>1. \A e \in Entities : LineTotal(e)' = LineTotal(e)
      BY <1>2, <2>2, <2>4 DEF LineTotal
    <3> QED
      BY <1>2, <1>3, <2>1, <2>2, <2>4, <3>1
  <2> QED
    BY <1>5, <2>3, <2>4 DEF BillCarrier
<1> QED
  BY <1>4, <1>5

InvoicesIInv == InvoicesInv /\ BillsInv /\ PaysInv

LEMMA LinesKeep ==
  ASSUME InvoicesIInv, NEW m \in Texts, Reserve(m) \/ BillCarrier(m)
  PROVE  InvoicesIInv'
<1>1. /\ InvoicesTypeOK /\ RowsInv /\ MoneyInv /\ BillsInv /\ PaysInv
  BY DEF InvoicesIInv, InvoicesInv, RowsInv, MoneyInv
<1>2. /\ lines' \in [Entities -> SUBSET Texts] /\ charged' \subseteq lines'["carrier"]
      /\ account' \in [Entities -> Int]
      /\ \A e \in Entities :
           /\ LineTotal(e)' >= LineTotal(e)
           /\ account'[e] - account[e] = LineTotal(e) - LineTotal(e)'
           /\ ~AccountFree(e) => account'[e] = account[e]
      /\ UNCHANGED <<nextval, files, invoices, bill, pay>>
  BY <1>1, LinesGrow
<1>3. InvoicesTypeOK'
  BY <1>1, <1>2 DEF InvoicesTypeOK
<1>4. \A e \in Entities : /\ LineTotal(e) \in Nat /\ LineTotal(e)' \in Nat
                          /\ Total(Paid, Settled(e)) \in Nat
                          /\ account[e] \in Int /\ account'[e] \in Int
  <2>1. \A e \in Entities : LineTotal(e) \in Nat /\ Total(Paid, Settled(e)) \in Nat
    BY <1>1, Sums3
  <2>2. \A e \in Entities : LineTotal(e)' \in Nat
    <3>1. Price \in [Texts -> Nat] /\ Fee \in [Texts -> Nat] /\ IsFiniteSet(Texts)
      BY InvoicesAssumption
    <3>2. lines'["client"] \in SUBSET Texts /\ charged' \in SUBSET Texts
      BY <1>2 DEF Entities
    <3>3. Total(Price, lines'["client"]) \in Nat /\ Total(Fee, charged') \in Nat
      BY <3>1, <3>2, TotalSums
    <3> QED
      BY <3>3 DEF LineTotal
  <2> QED
    BY <1>1, <1>2, <2>1, <2>2 DEF InvoicesTypeOK
<1>5. MoneyInv'
  <2> SUFFICES ASSUME NEW e \in Entities
               PROVE  account'[e] = Total(Paid, Settled(e)') - LineTotal(e)'
    BY DEF MoneyInv
  <2>1. Settled(e)' = Settled(e)
    BY <1>2 DEF Settled
  <2>2. account[e] = Total(Paid, Settled(e)) - LineTotal(e)
    BY <1>1 DEF MoneyInv
  <2> QED
    BY <1>2, <1>4, <2>1, <2>2
<1>6. RowsInv'
  BY <1>1, <1>2 DEF RowsInv, RowAgrees, PaidFor, Settled
<1>7. BillsInv'
  <2>1. ASSUME NEW b \in Bills, bill[b].at = "written"
        PROVE  files[bill[b].number] <= LineTotal(bill[b].entity)'
    <3>1. /\ files[bill[b].number] <= LineTotal(bill[b].entity)
          /\ bill[b].number \in DOMAIN files
      BY <1>1, <2>1 DEF BillsInv, Drawn
    <3>2. bill[b].entity \in Entities /\ files[bill[b].number] \in Nat
      BY <1>1, <3>1 DEF InvoicesTypeOK
    <3> QED
      BY <1>2, <1>4, <3>1, <3>2
  <2>2. \A b \in Bills : Drawn(b)' = Drawn(b)
    BY <1>2 DEF Drawn
  <2>3. \A b \in Bills : bill'[b].at = "written" =>
          files'[bill'[b].number] <= LineTotal(bill[b].entity)'
    BY <1>2, <2>1
  <2> QED
    BY <1>1, <1>2, <2>2, <2>3 DEF BillsInv, LineTotal
<1>8. PaysInv'
  <2>1. \A p \in Payments : Applied(p)' = Applied(p)
    BY <1>2 DEF Applied
  <2>2. \A p \in Payments : PendingLeft(p)' = PendingLeft(p) /\ StatusLeft(p)' = StatusLeft(p)
    BY <1>2 DEF PendingLeft, StatusLeft
  <2>3. ASSUME NEW p \in Payments, pay[p].at = "posted"
        PROVE  pay[p].before = account'[pay[p].entity]
    <3>1. pay[p].entity \in Entities
      BY <1>1 DEF InvoicesTypeOK
    <3>2. pay[p].before = account[pay[p].entity]
      BY <1>1, <2>3 DEF PaysInv
    <3>3. ~AccountFree(pay[p].entity)
      BY <2>3 DEF AccountFree
    <3> QED
      BY <1>2, <3>1, <3>2, <3>3
  <2> QED
    BY <1>1, <1>2, <2>1, <2>2, <2>3 DEF PaysInv
<1> QED
  BY <1>3, <1>5, <1>6, <1>7, <1>8 DEF InvoicesIInv, InvoicesInv, RowsInv, MoneyInv

\* The steps of a generation before its row.
LEMMA BillKeeps ==
  ASSUME InvoicesIInv, NEW b \in Bills,
         (\E e \in Entities : StartBill(b, e)) \/ WritePDF(b) \/ BillFails(b)
  PROVE  InvoicesIInv'
<1>1. /\ InvoicesTypeOK /\ RowsInv /\ MoneyInv /\ BillsInv /\ PaysInv
  BY DEF InvoicesIInv, InvoicesInv, RowsInv, MoneyInv
<1>2. UNCHANGED <<lines, charged, account, invoices, pay>>
  BY DEF StartBill, WritePDF, BillFails
<1>3. MoneyInv' /\ PaysInv'
  <2>1. \A p \in Payments : Applied(p)' = Applied(p) /\ PendingLeft(p)' = PendingLeft(p)
                             /\ StatusLeft(p)' = StatusLeft(p)
    BY <1>2 DEF Applied, PendingLeft, StatusLeft
  <2> QED
    BY <1>1, <1>2, <2>1 DEF MoneyInv, PaysInv, Settled, LineTotal
<1>4. \A n \in DOMAIN invoices : PaidFor(n)' = PaidFor(n)
  BY <1>2 DEF PaidFor, Settled
<1>5. /\ bill \in [Bills -> [at : {"start", "numbered", "written", "done"},
                             entity : Entities, number : Nat]]
      /\ nextval \in 1 .. MaxNumber + 1 /\ MaxNumber \in Nat
      /\ DOMAIN files \subseteq Numbers /\ files \in [DOMAIN files -> Nat]
      /\ DOMAIN invoices \subseteq Nat
  BY <1>1, InvoicesAssumption DEF InvoicesTypeOK, Numbers
<1>6. CASE \E e \in Entities : StartBill(b, e)
  <2>1. PICK e \in Entities : StartBill(b, e)
    BY <1>6
  <2>2. /\ nextval <= MaxNumber /\ nextval' = nextval + 1 /\ files' = files
        /\ bill' = [bill EXCEPT ![b] = [at |-> "numbered", entity |-> e, number |-> nextval]]
    BY <2>1 DEF StartBill, NextInvoiceNumber
  <2>3. InvoicesTypeOK'
    <3>1. nextval \in Nat /\ nextval' \in 1 .. MaxNumber + 1
      BY <1>5, <2>2
    <3>2. bill' \in [Bills -> [at : {"start", "numbered", "written", "done"},
                              entity : Entities, number : Nat]]
      BY <1>5, <2>2, <3>1
    <3> QED
      BY <1>1, <1>2, <2>2, <3>1, <3>2 DEF InvoicesTypeOK
  <2>4. RowsInv'
    BY <1>1, <1>2, <1>4, <2>2 DEF RowsInv, RowAgrees
  <2>5. \A c \in Bills \ {b} : bill'[c] = bill[c]
    BY <1>5, <2>2
  <2>6. bill'[b].at = "numbered" /\ bill'[b].number = nextval
    BY <1>5, <2>2
  <2>7. \A n \in DOMAIN invoices : n < nextval /\ n < nextval' /\ n # nextval
    BY <1>1, <1>5, <2>2 DEF BillsInv
  <2>8. \A c \in Bills \ {b} : Drawn(c) =>
          bill[c].number < nextval /\ bill[c].number < nextval' /\ bill[c].number # nextval
    BY <1>1, <1>5, <2>2 DEF BillsInv
  <2>9. nextval \in Numbers /\ nextval < nextval'
    BY <1>5, <2>2 DEF Numbers
  <2>10. \A c \in Bills \ {b} : Drawn(c)' = Drawn(c) /\ LineTotal(bill[c].entity)' = LineTotal(bill[c].entity)
    BY <1>2, <2>5 DEF Drawn, LineTotal
  <2>11. BillsInv'
    <3> SUFFICES ASSUME NEW c \in Bills, Drawn(c)'
                 PROVE  /\ bill'[c].number \in Numbers /\ bill'[c].number < nextval'
                        /\ bill'[c].number \notin DOMAIN invoices
                        /\ \A d \in Bills : Drawn(d)' /\ bill'[d].number = bill'[c].number => d = c
                        /\ bill'[c].at = "written" =>
                             /\ bill'[c].number \in DOMAIN files
                             /\ files[bill'[c].number] <= LineTotal(bill[c].entity)'
      BY <1>2, <2>2, <2>7 DEF BillsInv
    <3>1. CASE c = b
      BY <2>5, <2>6, <2>7, <2>8, <2>9, <2>10, <3>1
    <3>2. CASE c # b
      <4>1. Drawn(c) /\ bill'[c] = bill[c]
        BY <2>5, <2>10, <3>2
      <4>2. /\ bill[c].number \in Numbers /\ bill[c].number \notin DOMAIN invoices
            /\ \A d \in Bills : Drawn(d) /\ bill[d].number = bill[c].number => d = c
            /\ bill[c].at = "written" =>
                 /\ bill[c].number \in DOMAIN files
                 /\ files[bill[c].number] <= LineTotal(bill[c].entity)
        BY <1>1, <4>1 DEF BillsInv
      <4>3. \A d \in Bills : Drawn(d)' /\ bill'[d].number = bill'[c].number => d = c
        BY <2>5, <2>6, <2>8, <2>10, <3>2, <4>1, <4>2
      <4>4. LineTotal(bill[c].entity)' = LineTotal(bill[c].entity)
        BY <1>2, <4>1 DEF LineTotal
      <4> QED
        BY <2>8, <3>2, <4>1, <4>2, <4>3, <4>4
    <3> QED
      BY <3>1, <3>2
  <2> QED
    BY <1>3, <2>3, <2>4, <2>11 DEF InvoicesIInv, InvoicesInv, RowsInv, MoneyInv
<1>7. CASE WritePDF(b)
  <2> DEFINE n == bill[b].number
             e == bill[b].entity
  <2>1. /\ bill[b].at = "numbered" /\ files' = Put(files, n, LineTotal(e))
        /\ bill' = [bill EXCEPT ![b].at = "written"] /\ nextval' = nextval
    BY <1>7 DEF WritePDF
  <2>2. /\ n \in Numbers /\ n \notin DOMAIN invoices /\ e \in Entities
        /\ \A c \in Bills : Drawn(c) /\ bill[c].number = n => c = b
    BY <1>1, <1>5, <2>1 DEF BillsInv, Drawn
  <2>3. LineTotal(e) \in Nat
    BY <1>1, <2>2, Sums3
  <2>4. /\ DOMAIN files' = DOMAIN files \cup {n} /\ files'[n] = LineTotal(e)
        /\ \A k \in DOMAIN files : k # n => files'[k] = files[k]
        /\ files' \in [DOMAIN files' -> Nat]
    BY <1>5, <2>1, <2>3 DEF Put
  <2>5. /\ bill'[b].at = "written" /\ bill'[b].number = n /\ bill'[b].entity = e
        /\ \A c \in Bills \ {b} : bill'[c] = bill[c]
        /\ bill' \in [Bills -> [at : {"start", "numbered", "written", "done"},
                                entity : Entities, number : Nat]]
    BY <1>5, <2>1
  <2>6. InvoicesTypeOK'
    BY <1>1, <1>2, <1>5, <2>1, <2>2, <2>4, <2>5 DEF InvoicesTypeOK
  <2>7. RowsInv'
    <3> SUFFICES ASSUME NEW k \in DOMAIN invoices PROVE RowAgrees(k)'
      BY <1>2 DEF RowsInv
    <3>1. RowAgrees(k) /\ k # n
      BY <1>1, <2>2 DEF RowsInv
    <3> QED
      BY <1>2, <1>4, <2>4, <3>1 DEF RowAgrees
  <2>8. \A c \in Bills : Drawn(c)' = Drawn(c)
    BY <2>1, <2>5 DEF Drawn
  <2>9. BillsInv'
    <3> SUFFICES ASSUME NEW c \in Bills, Drawn(c)
                 PROVE  /\ bill'[c].number \in Numbers /\ bill'[c].number < nextval
                        /\ bill'[c].number \notin DOMAIN invoices
                        /\ \A d \in Bills : Drawn(d) /\ bill'[d].number = bill'[c].number => d = c
                        /\ bill'[c].at = "written" =>
                             /\ bill'[c].number \in DOMAIN files'
                             /\ files'[bill'[c].number] <= LineTotal(bill[c].entity)'
      BY <1>1, <1>2, <2>1, <2>8 DEF BillsInv
    <3>1. \A d \in Bills : bill'[d].number = bill[d].number /\ bill'[d].entity = bill[d].entity
      BY <2>5
    <3>2. /\ bill[c].number \in Numbers /\ bill[c].number < nextval
          /\ bill[c].number \notin DOMAIN invoices
          /\ \A d \in Bills : Drawn(d) /\ bill[d].number = bill[c].number => d = c
          /\ bill[c].at = "written" =>
               /\ bill[c].number \in DOMAIN files
               /\ files[bill[c].number] <= LineTotal(bill[c].entity)
      BY <1>1 DEF BillsInv
    <3>3. LineTotal(bill[c].entity)' = LineTotal(bill[c].entity)
      BY <1>2, <3>1 DEF LineTotal
    <3>4. CASE c = b
      BY <2>3, <2>4, <2>5, <3>1, <3>2, <3>3, <3>4
    <3>5. CASE c # b
      <4>1. bill[c].number # n /\ bill'[c].at = bill[c].at
        BY <2>2, <2>5, <3>5
      <4> QED
        BY <2>4, <3>1, <3>2, <3>3, <4>1
    <3> QED
      BY <3>4, <3>5
  <2> QED
    BY <1>3, <2>6, <2>7, <2>9 DEF InvoicesIInv, InvoicesInv, RowsInv, MoneyInv
<1>8. CASE BillFails(b)
  <2>1. /\ bill' = [bill EXCEPT ![b] = [NoBill EXCEPT !.at = "done"]]
        /\ UNCHANGED <<nextval, files>>
    BY <1>8 DEF BillFails, EndBill
  <2>2. [NoBill EXCEPT !.at = "done"] = [at |-> "done", entity |-> "client", number |-> 1]
    BY DEF NoBill
  <2>3. /\ bill'[b].at = "done" /\ \A c \in Bills \ {b} : bill'[c] = bill[c]
        /\ bill' \in [Bills -> [at : {"start", "numbered", "written", "done"},
                                entity : Entities, number : Nat]]
    BY <1>5, <2>1, <2>2 DEF Entities
  <2>4. InvoicesTypeOK'
    BY <1>1, <1>2, <2>1, <2>3 DEF InvoicesTypeOK
  <2>5. RowsInv'
    BY <1>1, <1>2, <1>4, <2>1 DEF RowsInv, RowAgrees
  <2>6. \A c \in Bills : Drawn(c)' => Drawn(c) /\ bill'[c] = bill[c]
    BY <2>3 DEF Drawn
  <2>7. \A e : LineTotal(e)' = LineTotal(e)
    BY <1>2 DEF LineTotal
  <2>8. BillsInv'
    <3> SUFFICES ASSUME NEW c \in Bills, Drawn(c)'
                 PROVE  /\ bill'[c].number \in Numbers /\ bill'[c].number < nextval
                        /\ bill'[c].number \notin DOMAIN invoices
                        /\ \A d \in Bills : Drawn(d)' /\ bill'[d].number = bill'[c].number => d = c
                        /\ bill'[c].at = "written" =>
                             /\ bill'[c].number \in DOMAIN files
                             /\ files[bill'[c].number] <= LineTotal(bill[c].entity)'
      BY <1>1, <1>2, <2>1 DEF BillsInv
    <3>1. Drawn(c) /\ bill'[c] = bill[c]
      BY <2>6
    <3>2. LineTotal(bill[c].entity)' = LineTotal(bill[c].entity)
      BY <1>2, <3>1 DEF LineTotal
    <3> QED
      BY <1>1, <2>6, <3>1, <3>2 DEF BillsInv
  <2> QED
    BY <1>3, <2>4, <2>5, <2>8 DEF InvoicesIInv, InvoicesInv, RowsInv, MoneyInv
<1> QED
  BY <1>6, <1>7, <1>8

\* The row of a new invoice: no payment names its number yet.
LEMMA RowKeeps ==
  ASSUME InvoicesIInv, NEW b \in Bills, CreateInvoice(b)
  PROVE  InvoicesIInv'
<1> SUFFICES ASSUME NEW n, n = bill[b].number PROVE InvoicesIInv'
  OBVIOUS
<1> DEFINE e == bill[b].entity
           total == LineTotal(e)
           new == [entity |-> e, total |-> total, pending |-> total,
                   status |-> invoiceInitialStatus(total)]
<1>1. /\ InvoicesTypeOK /\ RowsInv /\ MoneyInv /\ BillsInv /\ PaysInv
  BY DEF InvoicesIInv, InvoicesInv, RowsInv, MoneyInv
<1>2. /\ UNCHANGED <<lines, charged, account, nextval, files, pay>>
      /\ bill[b].at = "written" /\ invoices' = Put(invoices, n, new)
      /\ bill' = [bill EXCEPT ![b] = [NoBill EXCEPT !.at = "done"]]
  BY DEF CreateInvoice, EndBill
<1>3. /\ n \in Numbers /\ n < nextval /\ n \notin DOMAIN invoices
      /\ n \in DOMAIN files /\ files[n] <= total
      /\ \A c \in Bills : Drawn(c) /\ bill[c].number = n => c = b
  BY <1>1, <1>2 DEF BillsInv, Drawn
<1>4. /\ bill \in [Bills -> [at : {"start", "numbered", "written", "done"},
                             entity : Entities, number : Nat]]
      /\ invoices \in [DOMAIN invoices -> [entity : Entities, total : Nat, pending : Nat,
                                           status : Statuses]]
      /\ DOMAIN invoices \subseteq Numbers
      /\ pay \in [Payments -> [at : {"start", "form", "applied", "posted", "paid", "refused"},
                               entity : Entities, invoice : DOMAIN invoices \cup {Other},
                               before : Int, left : Nat, status : Statuses]]
  BY <1>1 DEF InvoicesTypeOK
<1>5. e \in Entities /\ total \in Nat
  BY <1>1, <1>4, Sums3
<1>6. n # Other /\ n \in Nat
  BY <1>3, InvoicesAssumption DEF Numbers
<1>7. new \in [entity : Entities, total : Nat, pending : Nat, status : Statuses]
  BY <1>5 DEF invoiceInitialStatus, Statuses
<1>8. /\ DOMAIN invoices' = DOMAIN invoices \cup {n} /\ invoices'[n] = new
      /\ \A k \in DOMAIN invoices : invoices'[k] = invoices[k]
      /\ invoices' \in [DOMAIN invoices' -> [entity : Entities, total : Nat, pending : Nat,
                                             status : Statuses]]
  <2> HIDE DEF new
  <2> QED
    BY <1>2, <1>3, <1>4, <1>7 DEF Put
<1>9. [NoBill EXCEPT !.at = "done"] = [at |-> "done", entity |-> "client", number |-> 1]
  BY DEF NoBill
<1>10. /\ bill'[b].at = "done" /\ \A c \in Bills \ {b} : bill'[c] = bill[c]
       /\ bill' \in [Bills -> [at : {"start", "numbered", "written", "done"},
                               entity : Entities, number : Nat]]
  BY <1>2, <1>4, <1>9 DEF Entities
<1>11. \A p \in Payments : pay[p].invoice # n /\ (pay[p].invoice # Other => pay[p].invoice \in DOMAIN invoices)
  BY <1>3, <1>4, <1>6
<1>12. InvoicesTypeOK'
  <2>1. pay \in [Payments -> [at : {"start", "form", "applied", "posted", "paid", "refused"},
                              entity : Entities, invoice : DOMAIN invoices' \cup {Other},
                              before : Int, left : Nat, status : Statuses]]
    BY <1>4, <1>8
  <2>2. DOMAIN invoices' \subseteq Numbers
    BY <1>3, <1>4, <1>8
  <2> HIDE DEF new
  <2> QED
    BY <1>1, <1>2, <1>8, <1>10, <2>1, <2>2 DEF InvoicesTypeOK
<1>13. RowsInv'
  <2>1. ASSUME NEW k \in DOMAIN invoices PROVE RowAgrees(k)'
    <3>1. RowAgrees(k) /\ k # n
      BY <1>1, <1>3 DEF RowsInv
    <3>2. PaidFor(k)' = PaidFor(k)
      BY <1>2, <1>8 DEF PaidFor, Settled
    <3> QED
      BY <1>2, <1>8, <3>1, <3>2 DEF RowAgrees
  <2>2. PaidFor(n)' = {}
    BY <1>2, <1>11 DEF PaidFor, Settled
  <2>3. Total(Paid, {}) = 0
    BY InvoicesAssumption, TotalSums
  <2>4. Max({0, total - 0}) = total
    BY <1>5, MaxOfZero
  <2>5. RowAgrees(n)'
    <3>1. PICK t \in Nat : t = total
      BY <1>5
    <3>2. /\ invoices'[n].total = t /\ invoices'[n].pending = t
          /\ invoices'[n].status = IF t <= 0 THEN "paid" ELSE "pending"
      BY <1>8, <3>1 DEF invoiceInitialStatus
    <3>3. Max({0, t - 0}) = t /\ n \in DOMAIN files /\ files[n] <= t
      BY <1>3, <2>4, <3>1
    <3> HIDE DEF new, total
    <3>4. Total(Paid, PaidFor(n))' = 0
      BY <2>2, <2>3
    <3>5. invoices'[n].pending = Max({0, invoices'[n].total - Total(Paid, PaidFor(n))'})
      BY <3>2, <3>3, <3>4
    <3>6. invoices'[n].status = IF invoices'[n].pending = 0 THEN "paid"
                                ELSE IF Total(Paid, PaidFor(n))' = 0 THEN "pending" ELSE "partially_paid"
      BY <3>1, <3>2, <3>4
    <3>7. n \in DOMAIN files' /\ files'[n] <= invoices'[n].total
      BY <1>2, <3>2, <3>3
    <3> QED
      BY <3>5, <3>6, <3>7 DEF RowAgrees
  <2> QED
    BY <1>8, <2>1, <2>5 DEF RowsInv
<1>14. MoneyInv'
  BY <1>1, <1>2 DEF MoneyInv, Settled, LineTotal
<1>15. BillsInv'
  <2>1. \A c \in Bills : Drawn(c)' => Drawn(c) /\ bill'[c] = bill[c] /\ c # b
    BY <1>10 DEF Drawn
  <2> SUFFICES ASSUME NEW c \in Bills, Drawn(c)'
               PROVE  /\ bill'[c].number \in Numbers /\ bill'[c].number < nextval
                      /\ bill'[c].number \notin DOMAIN invoices'
                      /\ \A d \in Bills : Drawn(d)' /\ bill'[d].number = bill'[c].number => d = c
                      /\ bill'[c].at = "written" =>
                           /\ bill'[c].number \in DOMAIN files
                           /\ files[bill'[c].number] <= LineTotal(bill[c].entity)'
    <3>1. \A k \in DOMAIN invoices' : k < nextval
      BY <1>1, <1>3, <1>8 DEF BillsInv
    <3> QED
      BY <1>2, <3>1 DEF BillsInv
  <2>2. Drawn(c) /\ bill'[c] = bill[c] /\ c # b
    BY <2>1
  <2>3. LineTotal(bill[c].entity)' = LineTotal(bill[c].entity)
    BY <1>2, <2>2 DEF LineTotal
  <2>4. bill[c].number # n
    BY <1>3, <2>2
  <2> QED
    BY <1>1, <1>8, <2>1, <2>2, <2>3, <2>4 DEF BillsInv
<1>16. PaysInv'
  <2>1. \A p \in Payments : Applied(p)' = Applied(p)
    BY <1>2 DEF Applied
  <2>2. \A p \in Payments : pay[p].invoice # Other => invoices'[pay[p].invoice] = invoices[pay[p].invoice]
    BY <1>8, <1>11
  <2>3. \A p \in Payments : pay[p].invoice # Other =>
          PendingLeft(p)' = PendingLeft(p) /\ StatusLeft(p)' = StatusLeft(p)
    BY <1>2, <2>2 DEF PendingLeft, StatusLeft
  <2> QED
    BY <1>1, <1>2, <2>1, <2>2, <2>3 DEF PaysInv, Applied
<1> QED
  BY <1>12, <1>13, <1>14, <1>15, <1>16 DEF InvoicesIInv, InvoicesInv, RowsInv, MoneyInv

StatusOf(row, p) == IF row.pending - Paid[p] <= 0 THEN "paid"
                    ELSE IF row.pending - Paid[p] < row.total THEN "partially_paid"
                    ELSE "pending"

PayRecords == [at : {"start", "form", "applied", "posted", "paid", "refused"},
               entity : Entities, invoice : DOMAIN invoices \cup {Other},
               before : Int, left : Nat, status : Statuses]

\* What payment p may say of itself, given the rows and the others.
PayFits(p, rec) ==
  LET row == invoices[rec.invoice]
      others == Payments \ {p}
  IN  /\ rec.at = "applied" => rec.invoice # Other
      /\ rec.at = "form" /\ rec.invoice # Other => rec.entity = row.entity
      /\ rec.at \in {"applied", "posted"} /\ rec.invoice # Other =>
           /\ rec.entity = row.entity /\ row.pending > 0
           /\ rec.left = Max({0, row.pending - Paid[p]}) /\ rec.status = StatusOf(row, p)
           /\ \A q \in others : ~ (Applied(q) /\ pay[q].invoice = rec.invoice)
      /\ rec.at = "posted" =>
           /\ rec.before = account[rec.entity]
           /\ \A q \in others : ~ (pay[q].at = "posted" /\ pay[q].entity = rec.entity)

\* A step of one payment that ends neither in its commit nor after it.
LEMMA StepOfPayment ==
  ASSUME InvoicesIInv, NEW p \in Payments, pay[p].at # "paid",
         NEW rec \in PayRecords, rec.at # "paid", PayFits(p, rec),
         pay' = [pay EXCEPT ![p] = rec],
         UNCHANGED <<lines, charged, account, nextval, files, invoices, bill>>
  PROVE  InvoicesIInv'
<1>1. /\ InvoicesTypeOK /\ RowsInv /\ MoneyInv /\ BillsInv /\ PaysInv
  BY DEF InvoicesIInv, InvoicesInv, RowsInv, MoneyInv
<1>2. /\ pay \in [Payments -> PayRecords] /\ pay'[p] = rec
      /\ \A q \in Payments \ {p} : pay'[q] = pay[q]
      /\ pay' \in [Payments -> PayRecords]
  <2>1. pay \in [Payments -> PayRecords]
    BY <1>1 DEF InvoicesTypeOK, PayRecords
  <2> QED
    BY <2>1
<1>3. InvoicesTypeOK'
  BY <1>1, <1>2 DEF InvoicesTypeOK, PayRecords
<1>4. /\ \A e : Settled(e)' = Settled(e)
      /\ \A n : PaidFor(n)' = PaidFor(n)
      /\ \A e : LineTotal(e)' = LineTotal(e)
  <2>1. \A q \in Payments : (pay'[q].at = "paid") = (pay[q].at = "paid")
                             /\ (pay[q].at = "paid" => pay'[q] = pay[q])
    BY <1>2
  <2>2. \A e : Settled(e)' = Settled(e)
    BY <2>1 DEF Settled
  <2>3. \A n : PaidFor(n)' = PaidFor(n)
    BY <2>1 DEF PaidFor, Settled
  <2>4. \A e : LineTotal(e)' = LineTotal(e)
    BY DEF LineTotal
  <2> QED
    BY <2>2, <2>3, <2>4
<1>5. MoneyInv' /\ RowsInv'
  BY <1>1, <1>4 DEF MoneyInv, RowsInv, RowAgrees
<1>6. BillsInv'
  BY <1>1, <1>4 DEF BillsInv, Drawn, LineTotal
<1>7. \A q \in Payments : /\ PendingLeft(q)' = Max({0, invoices[pay'[q].invoice].pending - Paid[q]})
                          /\ StatusLeft(q)' = StatusOf(invoices[pay'[q].invoice], q)
                          /\ PendingLeft(q) = Max({0, invoices[pay[q].invoice].pending - Paid[q]})
                          /\ StatusLeft(q) = StatusOf(invoices[pay[q].invoice], q)
  BY DEF PendingLeft, StatusLeft, StatusOf
<1>8. PaysInv'
  <2>1. ASSUME NEW q \in Payments
        PROVE  /\ pay'[q].at = "applied" => pay'[q].invoice # Other
               /\ pay'[q].at = "form" /\ pay'[q].invoice # Other =>
                    pay'[q].entity = invoices[pay'[q].invoice].entity
               /\ Applied(q)' =>
                    /\ pay'[q].entity = invoices[pay'[q].invoice].entity
                    /\ invoices[pay'[q].invoice].pending > 0
                    /\ pay'[q].left = PendingLeft(q)' /\ pay'[q].status = StatusLeft(q)'
               /\ pay'[q].at = "posted" => pay'[q].before = account[pay'[q].entity]
    <3>1. CASE q = p
      BY <1>2, <1>7, <3>1 DEF PayFits, Applied
    <3>2. CASE q # p
      BY <1>1, <1>2, <1>7, <3>2 DEF PaysInv, Applied
    <3> QED
      BY <3>1, <3>2
  <2>2. ASSUME NEW q \in Payments, NEW r \in Payments
        PROVE  /\ Applied(q)' /\ Applied(r)' /\ pay'[q].invoice = pay'[r].invoice => q = r
               /\ pay'[q].at = "posted" /\ pay'[r].at = "posted"
                    /\ pay'[q].entity = pay'[r].entity => q = r
    <3>1. CASE q = p /\ r # p
      BY <1>2, <3>1 DEF PayFits, Applied
    <3>2. CASE q # p /\ r = p
      BY <1>2, <3>2 DEF PayFits, Applied
    <3>3. CASE q # p /\ r # p
      BY <1>1, <1>2, <3>3 DEF PaysInv, Applied
    <3> QED
      BY <3>1, <3>2, <3>3
  <2> QED
    BY <2>1, <2>2 DEF PaysInv
<1> QED
  BY <1>3, <1>5, <1>6, <1>8 DEF InvoicesIInv, InvoicesInv, RowsInv, MoneyInv

LEMMA PayKeeps ==
  ASSUME InvoicesIInv, NEW p \in Payments,
         \/ \E e \in Entities : OpenForm(p, e)
         \/ ApplyInvoicePayment(p) \/ RecordPayment(p) \/ RollbackPayment(p)
  PROVE  InvoicesIInv'
<1>1. InvoicesTypeOK /\ PaysInv
  BY DEF InvoicesIInv, InvoicesInv
<1>2. /\ pay \in [Payments -> PayRecords] /\ pay[p] \in PayRecords
      /\ invoices \in [DOMAIN invoices -> [entity : Entities, total : Nat, pending : Nat,
                                           status : Statuses]]
      /\ account \in [Entities -> Int] /\ Paid[p] \in Nat
  BY <1>1, InvoicesAssumption DEF InvoicesTypeOK, PayRecords
<1>3. UNCHANGED <<lines, charged, account, nextval, files, invoices, bill>>
  BY DEF OpenForm, ApplyInvoicePayment, RecordPayment, RollbackPayment
<1>4. NoPay \in PayRecords /\ DOMAIN NoPay = {"at", "entity", "invoice", "before", "left", "status"}
  BY DEF NoPay, PayRecords, Entities, Statuses
<1>5. DOMAIN pay[p] = {"at", "entity", "invoice", "before", "left", "status"}
  BY <1>2 DEF PayRecords
<1>6. CASE \E e \in Entities : OpenForm(p, e)
  <2>1. PICK e \in Entities : OpenForm(p, e)
    BY <1>6
  <2>2. PICK n \in ListOpenInvoices(e) \cup {Other} :
          pay' = [pay EXCEPT ![p] = [NoPay EXCEPT !.at = "form", !.entity = e, !.invoice = n,
                                       !.before = IF n = Other THEN 0 ELSE invoices[n].pending]]
    BY <2>1 DEF OpenForm
  <2>3. PICK k \in Int : k = IF n = Other THEN 0 ELSE invoices[n].pending
    BY <1>2 DEF ListOpenInvoices
  <2> DEFINE rec == [NoPay EXCEPT !.at = "form", !.entity = e, !.invoice = n, !.before = k]
  <2>4. rec \in PayRecords /\ rec.at = "form" /\ rec.invoice = n /\ rec.entity = e
    BY <1>4, <2>3 DEF NoPay, PayRecords, ListOpenInvoices
  <2>5. pay' = [pay EXCEPT ![p] = rec] /\ pay[p].at # "paid"
    BY <2>1, <2>2, <2>3 DEF OpenForm
  <2> HIDE DEF rec
  <2>6. PayFits(p, rec)
    BY <2>4 DEF PayFits, ListOpenInvoices
  <2> QED
    BY <1>3, <2>4, <2>5, <2>6, StepOfPayment
<1>7. CASE ApplyInvoicePayment(p)
  <2> DEFINE n == pay[p].invoice
  <2>1. /\ pay[p].at = "form" /\ n # Other /\ InvoiceFree(n)
        /\ pay' = [pay EXCEPT ![p] =
             IF invoices[pay[p].invoice].pending > 0
             THEN [pay[p] EXCEPT !.at = "applied", !.left = PendingLeft(p), !.status = StatusLeft(p)]
             ELSE [NoPay EXCEPT !.at = "refused"]]
    BY <1>7 DEF ApplyInvoicePayment
  <2>2. CASE invoices[n].pending > 0
    <3> DEFINE rec == [pay[p] EXCEPT !.at = "applied", !.left = PendingLeft(p), !.status = StatusLeft(p)]
    <3>1. PendingLeft(p) \in Nat /\ StatusLeft(p) \in Statuses
      <4>1. n \in DOMAIN invoices
        BY <1>2, <2>1 DEF PayRecords
      <4>2. invoices[n].pending - Paid[p] \in Int
        BY <1>2, <4>1
      <4>3. PendingLeft(p) \in Nat
        BY <4>2, MaxOfZero DEF PendingLeft
      <4> QED
        BY <4>3 DEF StatusLeft, Statuses
    <3>2. /\ rec \in PayRecords /\ rec.at = "applied" /\ rec.invoice = n /\ rec.entity = pay[p].entity
          /\ rec.left = PendingLeft(p) /\ rec.status = StatusLeft(p)
      BY <1>2, <1>5, <3>1 DEF PayRecords
    <3>3. pay' = [pay EXCEPT ![p] = rec]
      BY <2>1, <2>2
    <3> HIDE DEF rec
    <3>4. \A q \in Payments \ {p} : ~ (Applied(q) /\ pay[q].invoice = n)
      BY <2>1 DEF InvoiceFree, Applied
    <3>5. pay[p].entity = invoices[n].entity
      BY <1>1, <2>1 DEF PaysInv
    <3>6. PayFits(p, rec)
      BY <2>1, <2>2, <3>2, <3>4, <3>5 DEF PayFits, PendingLeft, StatusLeft, StatusOf
    <3> QED
      BY <1>3, <2>1, <3>2, <3>3, <3>6, StepOfPayment
  <2>3. CASE ~ (invoices[n].pending > 0)
    <3> DEFINE rec == [NoPay EXCEPT !.at = "refused"]
    <3>1. rec \in PayRecords /\ rec.at = "refused"
      BY <1>4 DEF PayRecords
    <3>2. pay' = [pay EXCEPT ![p] = rec]
      BY <2>1, <2>3
    <3> HIDE DEF rec
    <3>3. PayFits(p, rec)
      BY <3>1 DEF PayFits
    <3> QED
      BY <1>3, <2>1, <3>1, <3>2, <3>3, StepOfPayment
  <2> QED
    BY <2>2, <2>3
<1>8. CASE RecordPayment(p)
  <2> DEFINE e == pay[p].entity
             rec == [pay[p] EXCEPT !.at = "posted", !.before = account[e]]
  <2>1. /\ pay[p].at = "applied" \/ (pay[p].at = "form" /\ pay[p].invoice = Other)
        /\ AccountFree(e)
        /\ pay' = [pay EXCEPT ![p].at = "posted", ![p].before = account[e]]
    BY <1>8 DEF RecordPayment
  <2>2. pay' = [pay EXCEPT ![p] = rec]
    BY <1>2, <1>5, <2>1
  <2>3. /\ rec \in PayRecords /\ rec.at = "posted" /\ rec.before = account[e] /\ rec.entity = e
        /\ rec.invoice = pay[p].invoice /\ rec.left = pay[p].left /\ rec.status = pay[p].status
    BY <1>2, <1>5 DEF PayRecords
  <2> HIDE DEF rec
  <2>4. \A q \in Payments \ {p} : ~ (pay[q].at = "posted" /\ pay[q].entity = e)
    BY <2>1 DEF AccountFree
  <2>5. ASSUME pay[p].invoice # Other
        PROVE  /\ pay[p].entity = invoices[pay[p].invoice].entity
               /\ invoices[pay[p].invoice].pending > 0
               /\ pay[p].left = Max({0, invoices[pay[p].invoice].pending - Paid[p]})
               /\ pay[p].status = StatusOf(invoices[pay[p].invoice], p)
               /\ \A q \in Payments \ {p} : ~ (Applied(q) /\ pay[q].invoice = pay[p].invoice)
    <3>1. Applied(p)
      BY <2>1, <2>5 DEF Applied
    <3>2. PendingLeft(p) = Max({0, invoices[pay[p].invoice].pending - Paid[p]})
          /\ StatusLeft(p) = StatusOf(invoices[pay[p].invoice], p)
      BY DEF PendingLeft, StatusLeft, StatusOf
    <3> QED
      BY <1>1, <3>1, <3>2 DEF PaysInv
  <2>6. PayFits(p, rec)
    BY <2>3, <2>4, <2>5 DEF PayFits
  <2> QED
    BY <1>3, <2>1, <2>2, <2>3, <2>6, StepOfPayment
<1>9. CASE RollbackPayment(p)
  <2> DEFINE rec == [NoPay EXCEPT !.at = "refused"]
  <2>1. rec \in PayRecords /\ rec.at = "refused"
    BY <1>4 DEF PayRecords
  <2>2. pay' = [pay EXCEPT ![p] = rec] /\ pay[p].at # "paid"
    BY <1>9 DEF RollbackPayment
  <2> HIDE DEF rec
  <2>3. PayFits(p, rec)
    BY <2>1 DEF PayFits
  <2> QED
    BY <1>3, <2>1, <2>2, <2>3, StepOfPayment
<1> QED
  BY <1>6, <1>7, <1>8, <1>9

\* The commit: the row and the account both see the payment.
LEMMA CommitKeeps ==
  ASSUME InvoicesIInv, NEW p \in Payments, CommitPayment(p)
  PROVE  InvoicesIInv'
<1> SUFFICES ASSUME NEW n, n = pay[p].invoice, NEW e, e = pay[p].entity PROVE InvoicesIInv'
  OBVIOUS
<1>1. /\ InvoicesTypeOK /\ RowsInv /\ MoneyInv /\ BillsInv /\ PaysInv
  BY DEF InvoicesIInv, InvoicesInv, RowsInv, MoneyInv
<1>2. /\ pay[p].at = "posted" /\ UNCHANGED <<lines, charged, nextval, files, bill>>
      /\ account' = [account EXCEPT ![e] = pay[p].before + Paid[p]]
      /\ IF n = Other THEN UNCHANGED invoices
         ELSE invoices' = [invoices EXCEPT ![n].pending = pay[p].left, ![n].status = pay[p].status]
      /\ pay' = [pay EXCEPT ![p] = [NoPay EXCEPT !.at = "paid", !.entity = e, !.invoice = n]]
  BY DEF CommitPayment
<1>3. /\ pay \in [Payments -> PayRecords] /\ pay[p] \in PayRecords
      /\ invoices \in [DOMAIN invoices -> [entity : Entities, total : Nat, pending : Nat,
                                           status : Statuses]]
      /\ account \in [Entities -> Int] /\ Paid[p] \in Nat /\ Paid[p] > 0
      /\ e \in Entities /\ n \in DOMAIN invoices \cup {Other}
  BY <1>1, InvoicesAssumption DEF InvoicesTypeOK, PayRecords
<1>4. account[e] = pay[p].before /\ (n # Other => Applied(p))
  BY <1>1, <1>2 DEF PaysInv, Applied
<1>5. /\ account' \in [Entities -> Int] /\ account'[e] = account[e] + Paid[p]
      /\ \A d \in Entities \ {e} : account'[d] = account[d]
  BY <1>2, <1>3, <1>4
<1>6. /\ pay'[p].at = "paid" /\ pay'[p].entity = e /\ pay'[p].invoice = n
      /\ \A q \in Payments \ {p} : pay'[q] = pay[q]
      /\ pay' \in [Payments -> PayRecords]
  <2> DEFINE rec == [NoPay EXCEPT !.at = "paid", !.entity = e, !.invoice = n]
  <2>1. NoPay \in PayRecords /\ DOMAIN NoPay = {"at", "entity", "invoice", "before", "left", "status"}
    BY DEF NoPay, PayRecords, Entities, Statuses
  <2>2. rec \in PayRecords /\ rec.at = "paid" /\ rec.entity = e /\ rec.invoice = n
    BY <1>3, <2>1 DEF NoPay, PayRecords
  <2>3. pay' = [pay EXCEPT ![p] = rec]
    BY <1>2
  <2> HIDE DEF rec
  <2> QED
    BY <1>3, <2>2, <2>3
<1>7. /\ DOMAIN invoices' = DOMAIN invoices
      /\ \A k \in DOMAIN invoices : k # n => invoices'[k] = invoices[k]
      /\ \A k \in DOMAIN invoices : invoices'[k].entity = invoices[k].entity
                                    /\ invoices'[k].total = invoices[k].total
      /\ n # Other => invoices'[n].pending = pay[p].left /\ invoices'[n].status = pay[p].status
      /\ invoices' \in [DOMAIN invoices -> [entity : Entities, total : Nat, pending : Nat,
                                            status : Statuses]]
  <2>1. CASE n = Other
    BY <1>2, <1>3, <2>1
  <2>2. CASE n # Other
    <3>1. /\ n \in DOMAIN invoices /\ pay[p].left \in Nat /\ pay[p].status \in Statuses
          /\ invoices[n] \in [entity : Entities, total : Nat, pending : Nat, status : Statuses]
      BY <1>3, <2>2 DEF PayRecords
    <3> DEFINE row == [invoices[n] EXCEPT !.pending = pay[p].left, !.status = pay[p].status]
    <3>2. invoices' = [invoices EXCEPT ![n] = row]
      BY <1>2, <2>2, <3>1
    <3>3. /\ row \in [entity : Entities, total : Nat, pending : Nat, status : Statuses]
          /\ row.entity = invoices[n].entity /\ row.total = invoices[n].total
          /\ row.pending = pay[p].left /\ row.status = pay[p].status
      BY <3>1
    <3> HIDE DEF row
    <3>4. /\ DOMAIN invoices' = DOMAIN invoices /\ invoices'[n] = row
          /\ \A k \in DOMAIN invoices : k # n => invoices'[k] = invoices[k]
          /\ invoices' \in [DOMAIN invoices -> [entity : Entities, total : Nat, pending : Nat,
                                                status : Statuses]]
      BY <1>3, <3>1, <3>2, <3>3
    <3> QED
      BY <3>3, <3>4
  <2> QED
    BY <2>1, <2>2
<1>8. InvoicesTypeOK'
  BY <1>1, <1>2, <1>5, <1>6, <1>7 DEF InvoicesTypeOK, PayRecords
<1>9. /\ p \notin Settled(e) /\ Settled(e)' = Settled(e) \cup {p}
      /\ \A d : d # e => Settled(d)' = Settled(d)
      /\ \A d : Settled(d) \in SUBSET Payments
  <2>1. p \notin Settled(e) /\ \A d : Settled(d) \in SUBSET Payments
    BY <1>2 DEF Settled
  <2>2. Settled(e)' = Settled(e) \cup {p}
    BY <1>6 DEF Settled
  <2>3. \A d : d # e => Settled(d)' = Settled(d)
    BY <1>2, <1>6 DEF Settled
  <2> QED
    BY <2>1, <2>2, <2>3
<1>10. IsFiniteSet(Payments) /\ Paid \in [Payments -> Nat]
  BY InvoicesAssumption
<1>11. MoneyInv'
  <2> SUFFICES ASSUME NEW d \in Entities
               PROVE  account'[d] = Total(Paid, Settled(d)') - LineTotal(d)'
    BY DEF MoneyInv
  <2>1. LineTotal(d)' = LineTotal(d) /\ LineTotal(d) \in Nat
    BY <1>1, <1>2, Sums3 DEF LineTotal
  <2>2. account[d] = Total(Paid, Settled(d)) - LineTotal(d)
    BY <1>1 DEF MoneyInv
  <2>3. CASE d = e
    <3>1. Total(Paid, Settled(e)') = Paid[p] + Total(Paid, Settled(e)) /\ Total(Paid, Settled(e)) \in Nat
      BY <1>9, <1>10, TotalGrows
    <3> QED
      BY <1>3, <1>5, <2>1, <2>2, <2>3, <3>1
  <2>4. CASE d # e
    BY <1>5, <1>9, <2>1, <2>2, <2>4
  <2> QED
    BY <2>3, <2>4
<1>12. RowsInv'
  <2>1. ASSUME NEW k \in DOMAIN invoices, k # n PROVE RowAgrees(k)'
    <3>1. PaidFor(k)' = PaidFor(k)
      <4>1. invoices'[k] = invoices[k]
        BY <1>7, <2>1
      <4>2. \A q \in Payments : (pay'[q].invoice = k /\ pay'[q].at = "paid")
                                  = (pay[q].invoice = k /\ pay[q].at = "paid")
                                /\ (pay[q].invoice = k /\ pay[q].at = "paid" => pay'[q] = pay[q])
        BY <1>2, <1>6, <2>1
      <4> QED
        BY <4>1, <4>2 DEF PaidFor, Settled
    <3>2. RowAgrees(k)
      BY <1>1 DEF RowsInv
    <3> QED
      BY <1>2, <1>7, <2>1, <3>1, <3>2 DEF RowAgrees
  <2>2. ASSUME n \in DOMAIN invoices PROVE RowAgrees(n)'
    <3>1. n # Other
      <4>1. n \in Nat
        BY <1>1, <2>2, InvoicesAssumption DEF InvoicesTypeOK, Numbers
      <4> QED
        BY <4>1, InvoicesAssumption
    <3>2. /\ e = invoices[n].entity /\ invoices[n].pending > 0
          /\ pay[p].left = PendingLeft(p) /\ pay[p].status = StatusLeft(p)
      BY <1>1, <1>4, <3>1 DEF PaysInv
    <3>3. p \notin PaidFor(n) /\ PaidFor(n)' = PaidFor(n) \cup {p} /\ PaidFor(n) \in SUBSET Payments
      <4>1. PaidFor(n) = {q \in Settled(e) : pay[q].invoice = n}
        BY <3>2 DEF PaidFor
      <4>2. PaidFor(n)' = {q \in Settled(e)' : pay'[q].invoice = n}
        BY <1>7, <2>2, <3>2 DEF PaidFor
      <4>3. \A q \in Settled(e) : pay'[q] = pay[q] /\ q \in Payments
        BY <1>6, <1>9
      <4> QED
        BY <1>6, <1>9, <4>1, <4>2, <4>3
    <3>4. PICK t \in Nat, m \in Nat, r \in Nat, a \in Nat :
            /\ t = invoices[n].total /\ m = invoices[n].pending
            /\ r = Total(Paid, PaidFor(n)) /\ a = Paid[p] /\ a > 0
      BY <1>1, <1>3, <2>2, Sums3
    <3>5. Total(Paid, PaidFor(n))' = a + r
      <4>1. Total(Paid, PaidFor(n) \cup {p}) = Paid[p] + Total(Paid, PaidFor(n))
        BY <1>10, <3>3, TotalGrows
      <4> QED
        BY <3>3, <3>4, <4>1
    <3>6. RowAgrees(n)
      BY <1>1, <2>2 DEF RowsInv
    <3>7. m = Max({0, t - r}) /\ n \in DOMAIN files /\ files[n] <= t
      BY <3>4, <3>6 DEF RowAgrees
    <3>8. m = t - r /\ m > 0
      <4>1. Max({0, t - r}) = IF t - r > 0 THEN t - r ELSE 0
        BY <3>4, MaxOfZero
      <4> QED
        BY <3>2, <3>4, <3>7, <4>1
    <3>9. pay[p].left = Max({0, m - a})
          /\ pay[p].status = IF m - a <= 0 THEN "paid" ELSE IF m - a < t THEN "partially_paid" ELSE "pending"
      BY <3>2, <3>4 DEF PendingLeft, StatusLeft
    <3>10. m - a = t - (a + r) /\ m - a \in Int /\ m - a < t /\ a + r # 0
      BY <3>4, <3>8
    <3>11. Max({0, m - a}) = IF m - a > 0 THEN m - a ELSE 0
      BY <3>10, MaxOfZero
    <3>12. invoices'[n].pending = Max({0, m - a}) /\ invoices'[n].total = t
           /\ invoices'[n].status = IF m - a <= 0 THEN "paid" ELSE "partially_paid"
      BY <1>7, <2>2, <3>1, <3>4, <3>9, <3>10
    <3>13. invoices'[n].pending = Max({0, invoices'[n].total - Total(Paid, PaidFor(n))'})
      BY <3>5, <3>10, <3>12
    <3>14. invoices'[n].status = IF invoices'[n].pending = 0 THEN "paid"
                                 ELSE IF Total(Paid, PaidFor(n))' = 0 THEN "pending" ELSE "partially_paid"
      BY <3>5, <3>10, <3>11, <3>12
    <3>15. n \in DOMAIN files' /\ files'[n] <= invoices'[n].total
      BY <1>2, <3>7, <3>12
    <3> QED
      BY <3>13, <3>14, <3>15 DEF RowAgrees
  <2> QED
    BY <1>7, <2>1, <2>2 DEF RowsInv
<1>13. BillsInv'
  BY <1>1, <1>2, <1>7 DEF BillsInv, Drawn, LineTotal
<1>14. PaysInv'
  <2>1. \A q \in Payments : /\ PendingLeft(q)' = Max({0, invoices'[pay'[q].invoice].pending - Paid[q]})
                            /\ StatusLeft(q)' = StatusOf(invoices'[pay'[q].invoice], q)
                            /\ PendingLeft(q) = Max({0, invoices[pay[q].invoice].pending - Paid[q]})
                            /\ StatusLeft(q) = StatusOf(invoices[pay[q].invoice], q)
    BY DEF PendingLeft, StatusLeft, StatusOf
  <2>2. ASSUME NEW q \in Payments
        PROVE  /\ pay'[q].at = "applied" => pay'[q].invoice # Other
               /\ pay'[q].at = "form" /\ pay'[q].invoice # Other =>
                    pay'[q].entity = invoices'[pay'[q].invoice].entity
               /\ Applied(q)' =>
                    /\ pay'[q].entity = invoices'[pay'[q].invoice].entity
                    /\ invoices'[pay'[q].invoice].pending > 0
                    /\ pay'[q].left = PendingLeft(q)' /\ pay'[q].status = StatusLeft(q)'
               /\ pay'[q].at = "posted" => pay'[q].before = account'[pay'[q].entity]
    <3>1. CASE q = p
      BY <1>6, <3>1 DEF Applied
    <3>2. CASE q # p
      <4>1. pay'[q] = pay[q] /\ (Applied(q)' = Applied(q))
            /\ (pay[q].invoice # Other => pay[q].invoice \in DOMAIN invoices) /\ pay[q].entity \in Entities
        BY <1>3, <1>6, <3>2 DEF Applied, PayRecords
      <4>2. ASSUME Applied(q)
            PROVE  invoices'[pay[q].invoice] = invoices[pay[q].invoice]
        <5>1. pay[q].invoice # n
          BY <1>1, <1>2, <1>4, <3>2, <4>2 DEF PaysInv, Applied
        <5> QED
          BY <1>7, <4>1, <4>2, <5>1 DEF Applied
      <4>3. ASSUME pay[q].at = "posted" PROVE account'[pay[q].entity] = account[pay[q].entity]
        <5>1. pay[q].entity # e
          BY <1>1, <1>2, <3>2, <4>3 DEF PaysInv
        <5> QED
          BY <1>5, <4>1, <5>1
      <4>4. /\ pay[q].at = "applied" => pay[q].invoice # Other
            /\ pay[q].at = "form" /\ pay[q].invoice # Other =>
                 pay[q].entity = invoices[pay[q].invoice].entity
            /\ pay[q].at = "posted" => pay[q].before = account[pay[q].entity]
        BY <1>1 DEF PaysInv
      <4>5. Applied(q) =>
              /\ pay[q].entity = invoices[pay[q].invoice].entity
              /\ invoices[pay[q].invoice].pending > 0
              /\ pay[q].left = PendingLeft(q) /\ pay[q].status = StatusLeft(q)
        BY <1>1 DEF PaysInv
      <4>6. Applied(q)' =>
              /\ pay'[q].entity = invoices'[pay'[q].invoice].entity
              /\ invoices'[pay'[q].invoice].pending > 0
              /\ pay'[q].left = PendingLeft(q)' /\ pay'[q].status = StatusLeft(q)'
        BY <2>1, <4>1, <4>2, <4>5
      <4> QED
        BY <1>7, <4>1, <4>3, <4>4, <4>6
    <3> QED
      BY <3>1, <3>2
  <2>3. ASSUME NEW q \in Payments, NEW r \in Payments
        PROVE  /\ Applied(q)' /\ Applied(r)' /\ pay'[q].invoice = pay'[r].invoice => q = r
               /\ pay'[q].at = "posted" /\ pay'[r].at = "posted"
                    /\ pay'[q].entity = pay'[r].entity => q = r
    BY <1>1, <1>6 DEF PaysInv, Applied
  <2> QED
    BY <2>2, <2>3 DEF PaysInv
<1> QED
  BY <1>8, <1>11, <1>12, <1>13, <1>14 DEF InvoicesIInv, InvoicesInv, RowsInv, MoneyInv

LEMMA InvoicesStart == InvoicesInit => InvoicesIInv
<1> SUFFICES ASSUME InvoicesInit PROVE InvoicesIInv
  OBVIOUS
<1>1. InvoicesTypeOK
  <2>1. MaxNumber \in Nat
    BY InvoicesAssumption
  <2> QED
    BY <2>1 DEF InvoicesInit, InvoicesTypeOK, NoBill, NoPay, Entities, Statuses
<1>2. Total(Paid, {}) = 0 /\ Total(Price, {}) = 0 /\ Total(Fee, {}) = 0
  BY InvoicesAssumption, TotalSums
<1>3. MoneyInv
  <2>1. \A e \in Entities : Settled(e) = {}
    BY DEF InvoicesInit, Settled, NoPay
  <2>2. \A e \in Entities : LineTotal(e) = 0 /\ account[e] = 0
    BY <1>2 DEF InvoicesInit, LineTotal, Entities
  <2> QED
    BY <1>2, <2>1, <2>2 DEF MoneyInv
<1>4. RowsInv /\ BillsInv /\ PaysInv
  BY DEF InvoicesInit, RowsInv, BillsInv, PaysInv, Drawn, Applied, NoBill, NoPay
<1> QED
  BY <1>1, <1>3, <1>4 DEF InvoicesIInv, InvoicesInv, RowsInv, MoneyInv

\* An invoice, its payments, its account and its PDF agree, whatever payments
\* overlap, fail or come for an invoice that is paid by now, for any number of
\* messages, requests and payments and any amounts (db/invoice_payment.go,
\* db/invoices.go, web/invoices.go).
THEOREM InvoicesHold == InvoicesSpec => []InvoicesInv
<1>1. InvoicesIInv /\ [InvoicesNext]_invoiceVars => InvoicesIInv'
  <2> SUFFICES ASSUME InvoicesIInv, [InvoicesNext]_invoiceVars PROVE InvoicesIInv'
    OBVIOUS
  <2>1. ASSUME NEW m \in Texts, Reserve(m) \/ BillCarrier(m) PROVE InvoicesIInv'
    BY <2>1, LinesKeep
  <2>2. ASSUME NEW b \in Bills, (\E e \in Entities : StartBill(b, e)) \/ WritePDF(b) \/ BillFails(b)
        PROVE  InvoicesIInv'
    BY <2>2, BillKeeps
  <2>3. ASSUME NEW b \in Bills, CreateInvoice(b) PROVE InvoicesIInv'
    BY <2>3, RowKeeps
  <2>4. ASSUME NEW p \in Payments,
               \/ \E e \in Entities : OpenForm(p, e)
               \/ ApplyInvoicePayment(p) \/ RecordPayment(p) \/ RollbackPayment(p)
        PROVE  InvoicesIInv'
    BY <2>4, PayKeeps
  <2>5. ASSUME NEW p \in Payments, CommitPayment(p) PROVE InvoicesIInv'
    BY <2>5, CommitKeeps
  <2>6. CASE UNCHANGED invoiceVars
    <3>1. UNCHANGED <<lines, charged, account, nextval, files, invoices, bill, pay>>
      BY <2>6 DEF invoiceVars
    <3>2. /\ \A e : Settled(e)' = Settled(e) /\ LineTotal(e)' = LineTotal(e)
          /\ \A n : PaidFor(n)' = PaidFor(n)
      BY <3>1 DEF Settled, LineTotal, PaidFor
    <3>3. InvoicesInv'
      BY <3>1, <3>2 DEF InvoicesIInv, InvoicesInv, InvoicesTypeOK, RowAgrees
    <3>4. BillsInv'
      BY <3>1, <3>2 DEF InvoicesIInv, BillsInv, Drawn, LineTotal
    <3>5. PaysInv'
      BY <3>1 DEF InvoicesIInv, PaysInv, Applied, PendingLeft, StatusLeft
    <3> QED
      BY <3>3, <3>4, <3>5 DEF InvoicesIInv
  <2> QED
    BY <2>1, <2>2, <2>3, <2>4, <2>5, <2>6 DEF InvoicesNext
<1>2. InvoicesIInv => InvoicesInv
  BY DEF InvoicesIInv
<1> QED
  BY <1>1, <1>2, InvoicesStart, PTL DEF InvoicesSpec
=============================================================================
