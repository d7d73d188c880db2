----------------------------- MODULE ApiAccess -----------------------------
(***************************************************************************)
(* Who may call the REST API, and how often: the API keys of clients       *)
(* (internal/db/api_keys.go, web/clients.go) and the middleware every call *)
(* passes (internal/api/middleware.go).  Operators issue and revoke keys   *)
(* and switch clients off while calls are being checked.                   *)
(*                                                                         *)
(* A call reads the database three times, over a pool of Conns             *)
(* connections, and then looks for its client's limiter in a sync.Map:     *)
(* Load, the writing of lastSeen, Store, and the Range and Delete of the   *)
(* cleanup are steps between which other calls take theirs.                *)
(***************************************************************************)
EXTENDS Integers, FiniteSets, Functions

CONSTANTS
  ApiClients, ApiKeys, Operators, Callers,
  Conns,       \* pool_max_conns
  Limits,      \* values of api_rate_limit_per_minute, with the default
  Limiters,    \* limiters that exist at once
  IdleFor      \* minutes after which one is dropped, an hour in the code

ASSUME ApiAssumption ==
  /\ Conns \in Nat \ {0} /\ IdleFor \in Nat \ {0} /\ Limits \subseteq Nat \ {0}
  /\ IsFiniteSet(Callers)

VARIABLES
  owner,     \* client_api_keys: the client of each key issued
  live,      \* those not revoked
  enabled,   \* the active clients
  keyForm,   \* where each operator's statement stands
  call,      \* where each call stands
  limiter,   \* each limiter's client, burst, tokens and minutes since lastSeen
  stored,    \* limiterStore: the set of those in it
  left,      \* the clients a cleanup's Range has still to visit
  doomed,    \* the client whose limiter it found idle and is about to delete
  swept      \* history: of each client, limiters in use deleted this minute

apiVars == <<owner, live, enabled, keyForm, call, limiter, stored, left, doomed, swept>>

NoCall == [at |-> "idle"]
NoKeyForm == [at |-> "idle"]

Limiting == {"found", "missing", "cleaning", "held"}
Passed == {"known", "limited", "admitted"} \cup Limiting

QueuedCall == [at : {"queued"}, key : ApiKeys, client : ApiClients, stale : BOOLEAN, off : BOOLEAN]
FoundCall == [at : {"rows"} \cup Passed, client : ApiClients, stale : BOOLEAN, off : BOOLEAN,
              burst : Limits \cup {0}, limiter : SUBSET Limiters]
KeyForm == [at : {"waiting", "locked", "inserted"}, op : {"generate", "revoke"}, client : ApiClients,
            old : SUBSET ApiKeys, new : SUBSET ApiKeys]
Limiter == [client : ApiClients, burst : Limits, tokens : Nat, idle : 0 .. IdleFor + 1]

ApiTypeOK ==
  /\ DOMAIN owner \subseteq ApiKeys /\ owner \in [DOMAIN owner -> ApiClients]
  /\ live \subseteq DOMAIN owner /\ enabled \subseteq ApiClients
  /\ keyForm \in [Operators -> {NoKeyForm} \cup KeyForm]
  /\ call \in [Callers -> {NoCall} \cup QueuedCall \cup FoundCall]
  /\ DOMAIN limiter \subseteq Limiters /\ limiter \in [DOMAIN limiter -> Limiter]
  /\ \A l \in DOMAIN limiter : limiter[l].tokens <= limiter[l].burst
  /\ stored \subseteq DOMAIN limiter
  /\ left \in [Callers -> SUBSET ApiClients] /\ doomed \in [Callers -> SUBSET ApiClients]
  /\ swept \in [ApiClients -> Nat]

ApiInit ==
  /\ owner = [k \in {} |-> NoCall] /\ live = {} /\ enabled = ApiClients
  /\ keyForm = [o \in Operators |-> NoKeyForm]
  /\ call = [r \in Callers |-> NoCall]
  /\ limiter = [l \in {} |-> NoCall] /\ stored = {}
  /\ left = [r \in Callers |-> {}] /\ doomed = [r \in Callers |-> {}]
  /\ swept = [c \in ApiClients |-> 0]

KeysOf(c) == {k \in live : owner[k] = c}

At(r, where) == call[r].at = where
\* A call keeps from one step to the next what later steps still read.
Go(r, where, burst, found) ==
  call' = [call EXCEPT ![r] = [at |-> where, client |-> call[r].client, stale |-> call[r].stale,
                               off |-> call[r].off, burst |-> burst, limiter |-> found]]
Done(r) == call' = [call EXCEPT ![r] = NoCall]

\* Connections in use by those who keep them from one statement to the next.
InUse == {r \in Callers : At(r, "rows")} \cup {o \in Operators : keyForm[o].at # "idle"}
Connection == Cardinality(InUse) < Conns
-----------------------------------------------------------------------------
\* GenerateAPIKey and RevokeAPIKey.  The UPDATE sees the key that is live when
\* it starts, and waits for a transaction that has locked its row.
BeginUpdate(o, c, op) ==
  /\ keyForm[o].at = "idle" /\ Connection
  /\ keyForm' = [keyForm EXCEPT ![o] =
       [at |-> "waiting", op |-> op, client |-> c, old |-> KeysOf(c), new |-> {}]]
  /\ UNCHANGED <<owner, live, enabled, call, limiter, stored, left, doomed, swept>>

Locked(k) == \E o \in Operators : keyForm[o].at \in {"locked", "inserted"} /\ k \in keyForm[o].old

\* The row is looked at again once it is free: it may be revoked by now.
Update(o) ==
  LET still == keyForm[o].old \cap live IN
  /\ keyForm[o].at = "waiting" /\ \A k \in keyForm[o].old : ~Locked(k)
  /\ IF keyForm[o].op = "revoke"
     THEN live' = live \ still /\ keyForm' = [keyForm EXCEPT ![o] = NoKeyForm]
     ELSE keyForm' = [keyForm EXCEPT ![o].at = "locked", ![o].old = still] /\ UNCHANGED live
  /\ UNCHANGED <<owner, enabled, call, limiter, stored, left, doomed, swept>>

\* A deviation: no uq_client_api_keys_active.
InsertableTwice(o) == TRUE

\* A second live key of the client waits for the first to be committed or undone.
Insertable(o) ==
  /\ KeysOf(keyForm[o].client) \subseteq keyForm[o].old
  /\ \A p \in Operators \ {o} : keyForm[p].at = "inserted" => keyForm[p].client # keyForm[o].client

\* Keys no row has, committed or not.
NewKeys == ApiKeys \ (DOMAIN owner \cup UNION {keyForm[p].new : p \in {q \in Operators : keyForm[q].at = "inserted"}})

Insert(o) ==
  /\ keyForm[o].at = "locked" /\ Insertable(o) /\ NewKeys # {}
  /\ keyForm' = [keyForm EXCEPT ![o].at = "inserted", ![o].new = {CHOOSE k \in NewKeys : TRUE}]
  /\ UNCHANGED <<owner, live, enabled, call, limiter, stored, left, doomed, swept>>

\* The raw key is shown to the operator after this, and never again.
CommitKey(o) ==
  /\ keyForm[o].at = "inserted"
  /\ owner' = [k \in DOMAIN owner \cup keyForm[o].new |->
                 IF k \in keyForm[o].new THEN keyForm[o].client ELSE owner[k]]
  /\ live' = (live \ keyForm[o].old) \cup keyForm[o].new
  /\ keyForm' = [keyForm EXCEPT ![o] = NoKeyForm]
  /\ UNCHANGED <<enabled, call, limiter, stored, left, doomed, swept>>

\* A statement fails, among them the INSERT of a second live key.
RollbackKey(o) ==
  /\ keyForm[o].at # "idle"
  /\ keyForm' = [keyForm EXCEPT ![o] = NoKeyForm]
  /\ UNCHANGED <<owner, live, enabled, call, limiter, stored, left, doomed, swept>>

\* History: "off" is a call whose client has not been active since it began.
ToggleClientStatus(c) ==
  /\ enabled' = (enabled \ {c}) \cup ({c} \ enabled)
  /\ call' = [r \in Callers |-> IF c \notin enabled /\ ~At(r, "idle") /\ call[r].client = c
                                THEN [call[r] EXCEPT !.off = FALSE] ELSE call[r]]
  /\ UNCHANGED <<owner, live, keyForm, limiter, stored, left, doomed, swept>>

-----------------------------------------------------------------------------
\* History: "stale" is a call made with a key that was dead already.
Call(r, k) ==
  /\ At(r, "idle") /\ k \in DOMAIN owner
  /\ call' = [call EXCEPT ![r] = [at |-> "queued", key |-> k, client |-> owner[k],
                                  stale |-> k \notin live, off |-> owner[k] \notin enabled]]
  /\ UNCHANGED <<owner, live, enabled, keyForm, limiter, stored, left, doomed, swept>>

ValidKey(r) == call[r].key \in live /\ call[r].client \in enabled

\* ValidateAPIKey's query.  The rows stay open, and with them the connection.
ValidateAPIKey(r) ==
  /\ At(r, "queued") /\ Connection
  /\ IF ValidKey(r) THEN Go(r, "rows", 0, {}) ELSE Done(r)
  /\ UNCHANGED <<owner, live, enabled, keyForm, limiter, stored, left, doomed, swept>>

\* The client is read over a second connection while the rows are open.
GetClient(r) ==
  /\ At(r, "rows") /\ Connection
  /\ IF call[r].client \in enabled THEN Go(r, "known", 0, {}) ELSE Done(r)
  /\ UNCHANGED <<owner, live, enabled, keyForm, limiter, stored, left, doomed, swept>>

\* A query fails, or the caller hangs up while it waits for a connection.
CallFails(r) ==
  /\ call[r].at \in {"queued", "rows"}
  /\ Done(r)
  /\ UNCHANGED <<owner, live, enabled, keyForm, limiter, stored, left, doomed, swept>>

\* The setting as it is now; the default where it cannot be read.
readRateLimitPerMinute(r) ==
  /\ At(r, "known")
  /\ \E n \in Limits : Go(r, "limited", n, {})
  /\ UNCHANGED <<owner, live, enabled, keyForm, limiter, stored, left, doomed, swept>>

LimiterOf(c) == {l \in stored : limiter[l].client = c}
IdleLimiter(l) == limiter[l].idle > IdleFor

\* A limiter found is used as it is, whatever the setting says now.
LoadLimiter(r) ==
  /\ At(r, "limited")
  /\ LET known == LimiterOf(call[r].client) IN
       IF known = {} THEN Go(r, "missing", call[r].burst, {}) ELSE Go(r, "found", 0, known)
  /\ UNCHANGED <<owner, live, enabled, keyForm, limiter, stored, left, doomed, swept>>

\* lastSeen is written; the limiter may be deleted or replaced by now.
TouchLimiter(r, l) ==
  /\ At(r, "found") /\ l \in call[r].limiter
  /\ limiter' = [limiter EXCEPT ![l].idle = 0]
  /\ Go(r, "held", 0, {l})
  /\ UNCHANGED <<owner, live, enabled, keyForm, stored, left, doomed, swept>>

\* The new limiter replaces what another call may have stored by now, and the
\* cleanup begins.
StoreLimiter(r) ==
  LET new == CHOOSE l \in Limiters : l \notin DOMAIN limiter
      burst == call[r].burst
      made == [client |-> call[r].client, burst |-> burst, tokens |-> burst, idle |-> 0]
  IN /\ At(r, "missing") /\ DOMAIN limiter # Limiters
     /\ limiter' = [l \in DOMAIN limiter \cup {new} |-> IF l = new THEN made ELSE limiter[l]]
     /\ stored' = {new} \cup (stored \ LimiterOf(call[r].client))
     /\ left' = [left EXCEPT ![r] = ApiClients]
     /\ Go(r, "cleaning", 0, {new})
     /\ UNCHANGED <<owner, live, enabled, keyForm, doomed, swept>>

VisitLimiter(r, c) ==
  /\ At(r, "cleaning") /\ doomed[r] = {} /\ c \in left[r]
  /\ left' = [left EXCEPT ![r] = @ \ {c}]
  /\ doomed' = [doomed EXCEPT ![r] = {d \in {c} : \E l \in LimiterOf(d) : IdleLimiter(l)}]
  /\ UNCHANGED <<owner, live, enabled, keyForm, call, limiter, stored, swept>>

\* The limiters of a client that calls have used of late or have loaded.
InHand(l) == \E r \in Callers : At(r, "found") /\ l \in call[r].limiter
Awake(c) == {l \in DOMAIN limiter : limiter[l].client = c /\ (~IdleLimiter(l) \/ InHand(l))}

\* Whatever is stored under the key by now goes: it may have been loaded, used
\* or replaced since it was found idle.
DeleteLimiter(r, c) ==
  /\ At(r, "cleaning") /\ c \in doomed[r]
  /\ stored' = stored \ LimiterOf(c)
  /\ doomed' = [doomed EXCEPT ![r] = {}]
  /\ swept' = [swept EXCEPT ![c] = IF Awake(c) \cap stored = {} THEN @ ELSE @ + 1]
  /\ UNCHANGED <<owner, live, enabled, keyForm, call, limiter, left>>

Cleaned(r) == At(r, "cleaning") /\ left[r] = {} /\ doomed[r] = {}

allowForClient(r, l) ==
  /\ At(r, "held") \/ Cleaned(r)
  /\ l \in call[r].limiter
  /\ IF limiter[l].tokens > 0
     THEN Go(r, "admitted", 0, {}) /\ limiter' = [limiter EXCEPT ![l].tokens = @ - 1]
     ELSE Done(r) /\ UNCHANGED limiter
  /\ UNCHANGED <<owner, live, enabled, keyForm, stored, left, doomed, swept>>

Answered(r) ==
  /\ At(r, "admitted")
  /\ Done(r)
  /\ UNCHANGED <<owner, live, enabled, keyForm, limiter, stored, left, doomed, swept>>

\* A minute gives a limiter all its tokens back; one out of reach is forgotten
\* then.  Nothing blocks a call between Load and Allow: it takes less.
MinutePasses ==
  /\ \A r \in Callers : call[r].at \notin Limiting
  /\ limiter' = [l \in stored |->
       [limiter[l] EXCEPT !.tokens = limiter[l].burst, !.idle = IF IdleLimiter(l) THEN @ ELSE @ + 1]]
  /\ swept' = [c \in ApiClients |-> 0]
  /\ UNCHANGED <<owner, live, enabled, keyForm, call, stored, left, doomed>>

ApiNext ==
  \/ \E o \in Operators :
       \/ \E c \in ApiClients, op \in {"generate", "revoke"} : BeginUpdate(o, c, op)
       \/ Update(o) \/ Insert(o) \/ CommitKey(o) \/ RollbackKey(o)
  \/ \E c \in ApiClients : ToggleClientStatus(c)
  \/ \E r \in Callers :
       \/ \E k \in ApiKeys : Call(r, k)
       \/ ValidateAPIKey(r) \/ GetClient(r) \/ CallFails(r)
       \/ readRateLimitPerMinute(r) \/ LoadLimiter(r) \/ StoreLimiter(r) \/ Answered(r)
       \/ \E l \in Limiters : TouchLimiter(r, l) \/ allowForClient(r, l)
       \/ \E c \in ApiClients : VisitLimiter(r, c) \/ DeleteLimiter(r, c)
  \/ MinutePasses

ApiSpec == ApiInit /\ [][ApiNext]_apiVars
-----------------------------------------------------------------------------
Spent(c) == {l \in DOMAIN limiter : limiter[l].client = c /\ limiter[l].tokens < limiter[l].burst}

\* Whatever forms and calls overlap: a client has one live key; no call gets
\* past the check whose key was revoked or superseded before it was made, or
\* whose client was off all the while (api_keys.go, middleware.go).  Calls
\* that race for a client's first limiter each make one, and none gets more:
\* the limiters a client has drawn on within a minute are never more than the
\* calls under way at once, and as many again for each time a cleanup that had
\* found its limiter idle deleted one that a call had loaded, used or stored
\* since (middleware.go:136-147, 151-163: no lock spans the two).
KeysInv ==
  /\ ApiTypeOK
  /\ \A c \in ApiClients : Cardinality(KeysOf(c)) <= 1
  /\ \A r \in Callers : call[r].at \in Passed => ~call[r].stale /\ ~call[r].off
  /\ \A c \in ApiClients : Cardinality(Spent(c)) <= Cardinality(Callers) * (1 + swept[c])

\* "... so a slow query aborts and frees its connection instead of hanging the
\* whole service" (db/db.go:21-23), "never call a Pool-based query" while
\* holding a connection (doc/agent/STATE_ASSESSMENT.md:118): it never happens
\* that every connection is held by a call that waits for another one.  The
\* code does not have this property: it is violated where Conns is not above
\* the number of Callers.
NeverWedged == Cardinality({r \in Callers : At(r, "rows")}) < Conns
=============================================================================
