----------------------------- MODULE RouteCache -----------------------------
(***************************************************************************)
(* The dispatch cache (internal/routecache/cache.go) and the admin edits   *)
(* that refresh it (internal/web/cache_reload.go and its callers).  An     *)
(* edit is committed to PostgreSQL first; then its handler reads five      *)
(* tables one after the other and swaps the cache in one assignment.       *)
(* What is cached of a table is named by the number of edits that were     *)
(* committed when it was read.                                             *)
(***************************************************************************)
EXTENDS Integers, Sequences

CONSTANTS
  Admins,       \* admin requests that may run at once
  Edited,       \* the tables they edit
  MaxEdits,     \* bound on edits
  MaxFaults     \* bound on failed statements and crashes together

Tables == {"routes", "carriers", "templates", "headers", "num_rules"}

\* The process itself loads the cache before it serves anything.
Boot == "boot"

ASSUME RouteCacheAssumption ==
  /\ Boot \notin Admins
  /\ Edited \subseteq Tables
  /\ MaxEdits \in Nat
  /\ MaxFaults \in Nat

Loaders == Admins \cup {Boot}

\* Not cached: dispatch reads the table from the database for each message.
NotRead == -1

VARIABLES
  edits,     \* the tables edited, in commit order (what the database holds)
  cache,     \* Cache: how many of the edits each table's copy includes
  up,        \* the process serves
  stage,     \* "idle", "readback" or "load", of each loader
  position,  \* of its reload in LoadOrder
  snap,      \* what its reload has read
  \* History, read by the properties only.
  slipped,   \* since the process started, an edit was committed while a reload
             \* was reading, or a handler gave up its reload
  faults     \* failed statements and crashes so far

cacheVars == <<edits, cache, up, stage, position, snap, slipped, faults>>

Empty == [t \in Tables |-> NotRead]

CacheTypeOK ==
  /\ edits \in Seq(Tables)
  /\ cache \in [Tables -> Nat \cup {NotRead}]
  /\ up \in BOOLEAN
  /\ stage \in [Loaders -> {"idle", "readback", "load"}]
  /\ position \in [Loaders -> 1 .. 6]
  /\ snap \in [Loaders -> [Tables -> Nat \cup {NotRead}]]
  /\ slipped \in BOOLEAN
  /\ faults \in Nat
  /\ up => cache["routes"] # NotRead /\ cache["carriers"] # NotRead

CacheInit ==
  /\ edits = <<>>
  /\ cache = Empty
  /\ up = FALSE
  /\ stage = [l \in Loaders |-> IF l = Boot THEN "load" ELSE "idle"]
  /\ position = [l \in Loaders |-> 1]
  /\ snap = [l \in Loaders |-> Empty]
  /\ slipped = FALSE
  /\ faults = 0
-----------------------------------------------------------------------------
\* A deviation: carriers are loaded before routes.
CarriersFirst(i) ==
  <<"carriers", "routes", "templates", "headers", "num_rules">>[i]

\* Reload's statements, in order.
LoadOrder(i) ==
  <<"routes", "carriers", "templates", "headers", "num_rules">>[i]

\* A failure to read one of these aborts the reload.
Required == {"routes", "carriers"}

\* A deviation: the copy of an earlier reload is kept.
KeepsOld(t) == cache[t]

\* What a reload notes for an optional table it could not read.
Unread(t) == NotRead

StartLoad(l) ==
  /\ stage' = [stage EXCEPT ![l] = "load"]
  /\ position' = [position EXCEPT ![l] = 1]

\* Reload returns, and what it read goes with it.
EndLoad(l) ==
  /\ stage' = [stage EXCEPT ![l] = "idle"]
  /\ position' = [position EXCEPT ![l] = 1]
  /\ snap' = [snap EXCEPT ![l] = Empty]

\* A handler commits its edit.  Some handlers read the row back before the
\* reload (route and carrier forms), the others reload at once.
Edit(a, t) ==
  /\ up /\ stage[a] = "idle" /\ Len(edits) < MaxEdits
  /\ edits' = Append(edits, t)
  /\ \/ StartLoad(a)
     \/ /\ t \in {"routes", "carriers"}
        /\ stage' = [stage EXCEPT ![a] = "readback"]
        /\ UNCHANGED position
  /\ slipped' = (slipped \/ \E l \in Loaders : stage[l] = "load")
  /\ UNCHANGED <<cache, up, snap, faults>>

ReadBack(a) ==
  /\ stage[a] = "readback"
  /\ StartLoad(a)
  /\ UNCHANGED <<edits, cache, up, snap, slipped, faults>>

\* The row's detail cannot be read: the handler answers 500 and returns.
ReadBackFails(a) ==
  /\ stage[a] = "readback"
  /\ faults < MaxFaults
  /\ stage' = [stage EXCEPT ![a] = "idle"]
  /\ slipped' = TRUE
  /\ faults' = faults + 1
  /\ UNCHANGED <<edits, cache, up, position, snap>>

\* One statement of Reload.
Load(l) ==
  /\ stage[l] = "load" /\ position[l] <= 5
  /\ snap' = [snap EXCEPT ![l][LoadOrder(position[l])] = Len(edits)]
  /\ position' = [position EXCEPT ![l] = @ + 1]
  /\ UNCHANGED <<edits, cache, up, stage, slipped, faults>>

\* Templates, headers and rules are optional.
LoadSkips(l) ==
  /\ stage[l] = "load" /\ position[l] <= 5 /\ LoadOrder(position[l]) \notin Required
  /\ faults < MaxFaults
  /\ snap' = [snap EXCEPT ![l][LoadOrder(position[l])] = Unread(LoadOrder(position[l]))]
  /\ position' = [position EXCEPT ![l] = @ + 1]
  /\ faults' = faults + 1
  /\ UNCHANGED <<edits, cache, up, stage, slipped>>

\* Without routes or carriers the reload is given up.  A handler drops the
\* error; at start-up the process exits, and the service manager starts it
\* again.
LoadAborts(l) ==
  /\ stage[l] = "load" /\ position[l] <= 5 /\ LoadOrder(position[l]) \in Required
  /\ faults < MaxFaults
  /\ \/ l = Boot /\ StartLoad(l) /\ UNCHANGED <<slipped, snap>>
     \/ l # Boot /\ EndLoad(l) /\ slipped' = TRUE
  /\ faults' = faults + 1
  /\ UNCHANGED <<edits, cache, up>>

\* The snapshot becomes the cache under the write lock.
Install(l) ==
  /\ stage[l] = "load" /\ position[l] = 6
  /\ cache' = snap[l]
  /\ EndLoad(l)
  /\ up' = TRUE
  /\ UNCHANGED <<edits, slipped, faults>>

\* The process dies and is started again, with an empty cache.
Restart ==
  /\ faults < MaxFaults
  /\ up' = FALSE
  /\ cache' = Empty
  /\ stage' = [l \in Loaders |-> IF l = Boot THEN "load" ELSE "idle"]
  /\ position' = [l \in Loaders |-> 1]
  /\ snap' = [l \in Loaders |-> Empty]
  /\ slipped' = FALSE
  /\ faults' = faults + 1
  /\ UNCHANGED edits

ReloadStep(l) == Load(l) \/ LoadSkips(l) \/ LoadAborts(l) \/ Install(l)

AdminStep(a) == ReadBack(a) \/ ReadBackFails(a) \/ ReloadStep(a)

CacheNext ==
  \/ \E a \in Admins : AdminStep(a) \/ \E t \in Edited : Edit(a, t)
  \/ ReloadStep(Boot)
  \/ Restart

CacheSpec == CacheInit /\ [][CacheNext]_cacheVars

\* A handler that committed its edit runs to its end, and so does start-up.
FairCacheSpec ==
  /\ CacheSpec
  /\ \A a \in Admins : WF_cacheVars(AdminStep(a))
  /\ WF_cacheVars(ReloadStep(Boot))
-----------------------------------------------------------------------------
\* Whatever dispatch reads of the table includes the first n edits.
Serves(t, n) == cache[t] = NotRead \/ n <= cache[t]

\* No edit of the table is missing from what dispatch reads.
Fresh(t) == \A i \in DOMAIN edits : edits[i] = t => Serves(t, i)

AtRest == up /\ \A a \in Admins : stage[a] = "idle"

\* "it never serves stale config" (cache.go:46-48), once no handler is between
\* its edit and its reload, however many handlers ran at once: the cache misses
\* an edit only if one was committed while another handler's reload was reading
\* the tables, or if a handler dropped its reload.
FreshAtRest == AtRest /\ ~slipped => \A t \in Tables : Fresh(t)

\* A cached route's carriers are cached with it: every carrier edit made
\* before a route edit that the cache shows is in the cache too.  Dispatch
\* takes a carrier it does not find for inactive (dispatch.go:41).
RoutesHaveCarriers ==
  up => \A i, j \in DOMAIN edits :
          /\ i < j /\ edits[i] = "carriers" /\ edits[j] = "routes"
          /\ j <= cache["routes"]
          => i <= cache["carriers"]

\* What a reload has read so far was read in this order, from the database.
ReloadInv ==
  /\ up => cache["routes"] <= cache["carriers"]
  /\ \A l \in Loaders :
       stage[l] = "load" =>
         /\ position[l] > 1 => snap[l]["routes"] \in 0 .. Len(edits)
         /\ position[l] > 2 => snap[l]["carriers"] \in snap[l]["routes"] .. Len(edits)

\* Unless an edit slipped by, nothing is edited while tables are read, so that
\* what was read holds every edit.
UnslippedInv ==
  /\ up => stage[Boot] = "idle"
  /\ ~up => \A a \in Admins : stage[a] = "idle"
  /\ ~slipped =>
       /\ \A l \in Loaders :
            stage[l] = "load" =>
              \A i \in 1 .. position[l] - 1 : snap[l][LoadOrder(i)] \in {NotRead, Len(edits)}
       /\ AtRest => \A t \in Tables : cache[t] \in {NotRead, Len(edits)}

\* Every committed edit reaches dispatch, by its own reload, by another
\* handler's or by the one after a restart, unless it may have slipped by.
EditsReachDispatch ==
  \A i \in 1 .. MaxEdits :
    Len(edits) >= i ~> (up /\ Len(edits) >= i /\ Serves(edits[i], i)) \/ slipped
=============================================================================
