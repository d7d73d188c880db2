----------------------------- MODULE Catalogue -----------------------------
(***************************************************************************)
(* What the administrators edit and dispatch later reads: rate groups with *)
(* their entries, carriers, clients, routing groups with their routes      *)
(* (internal/web and internal/db: rate_groups.go, rate_entries.go,         *)
(* carriers*.go, clients.go, routing_groups.go, routing_route_entries.go). *)
(*                                                                         *)
(* A form checks what it refers to and then writes, in statements of no    *)
(* common transaction; the foreign keys and UNIQUE constraints of          *)
(* deploy/minisms_db.sql hold whatever happens in between.  Names, notes,  *)
(* formats, the failovers and weights of a route and the reloads of the    *)
(* dispatch cache that follow some writes (RouteCache) are left out.       *)
(***************************************************************************)
EXTENDS Integers, Sequences, FiniteSets, Functions, TLC

CONSTANTS
  RateGroups, Carriers, Clients, RoutingGroups,   \* rows that ever exist,
  EntryIds, RouteIds,                             \*   by their keys
  Prefixes,   \* what rows are keyed by within a group: the prefix of a route,
              \*   the prefix and the starting date of a rate entry
  Admins,     \* forms that may be handled at once
  None        \* NULL, and the key of a row still to be made

ASSUME CatalogueAssumption ==
  None \notin RateGroups \cup Carriers \cup Clients \cup RoutingGroups
                         \cup EntryIds \cup RouteIds \cup Admins

VARIABLES
  rateGroups,  \* existing rate groups
  gone,        \* deleted ones: a new row never takes an old key
  entries,     \* rate_entries, carriers, clients, routing_groups and
  carriers,    \*   route_entries: functions on the rows that exist
  clients,
  routing,     \* is the routing group active?
  routes,
  todo,        \* the statements left of each form
  edit,        \* what it is about
  outrun       \* history: forms some checked row of which was written since

tables == <<rateGroups, gone, entries, carriers, clients, routing, routes>>
catalogueVars == <<tables, todo, edit, outrun>>

Rate == RateGroups \cup {None}
CarrierRow == [rate : Rate, active : BOOLEAN]
ClientRow == [rate : Rate, routing : RoutingGroups \cup {None}]
EntryRow == [group : RateGroups, prefix : Prefixes]
RouteRow == [group : RoutingGroups, prefix : Prefixes, primary : Carriers]

NoEdit == [op |-> "none"]

Edit == {NoEdit}
  \cup [op : {"delete"}, group : RateGroups]
  \cup [op : {"carrier"}, id : Carriers \cup {None}, row : CarrierRow]
  \cup [op : {"client"}, id : Clients \cup {None}, row : ClientRow]
  \cup [op : {"entry"}, id : EntryIds \cup {None}, row : EntryRow]
  \cup [op : {"route"}, id : RouteIds \cup {None}, row : RouteRow]

IsTable(f, keys, rows) == DOMAIN f \subseteq keys /\ Range(f) \subseteq rows

CatalogueTypeOK ==
  /\ rateGroups \cap gone = {} /\ rateGroups \cup gone \subseteq RateGroups
  /\ IsTable(entries, EntryIds, EntryRow)
  /\ IsTable(carriers, Carriers, CarrierRow)
  /\ IsTable(clients, Clients, ClientRow)
  /\ IsTable(routing, RoutingGroups, BOOLEAN)
  /\ IsTable(routes, RouteIds, RouteRow)
  /\ \A a \in Admins : todo[a] = <<>> <=> edit[a] = NoEdit
  /\ edit \in [Admins -> Edit]
  /\ outrun \subseteq Admins

Empty == [x \in {} |-> None]

CatalogueInit ==
  /\ rateGroups = {} /\ gone = {}
  /\ entries = Empty /\ carriers = Empty /\ clients = Empty
  /\ routing = Empty /\ routes = Empty
  /\ todo = [a \in Admins |-> <<>>]
  /\ edit = [a \in Admins |-> NoEdit]
  /\ outrun = {}
-----------------------------------------------------------------------------
CarrierRefs(g) == {k \in DOMAIN carriers : carriers[k].rate = g}

ClientRefs(g) == {c \in DOMAIN clients : clients[c].rate = g}

\* ON DELETE SET NULL.
Unassigned(table, g) ==
  [o \in DOMAIN table |-> IF table[o].rate = g THEN [table[o] EXCEPT !.rate = None] ELSE table[o]]

\* The key is taken within its group by a row other than id: ExistsEntryKey
\* and ExistsRoutePrefix, and the UNIQUE constraints.
Taken(table, id, row) ==
  \E o \in DOMAIN table \ {id} : table[o].group = row.group /\ table[o].prefix = row.prefix

\* A deviation: a deletion is not checked against clients, and the rest is
\* left to the constraints.
ChecksCarriersOnly(f) == IF f.op = "delete" THEN <<"carriers">> ELSE <<>>

\* The statements before the write.  What is left empty is not looked up.
Checks(f) ==
  CASE f.op = "delete"  -> <<"carriers", "clients">>
    [] f.op = "carrier" -> IF f.row.rate = None THEN <<>> ELSE <<"rate">>
    [] f.op = "client"  -> (IF f.row.rate = None THEN <<>> ELSE <<"rate">>)
                           \o (IF f.row.routing = None THEN <<>> ELSE <<"routing">>)
    [] f.op = "entry"   -> <<"entry">>
    [] f.op = "route"   -> <<"primary", "route">>

Passes(s, f) ==
  /\ s = "carriers" => CarrierRefs(f.group) = {}
  /\ s = "clients"  => ClientRefs(f.group) = {}
  /\ s = "rate"     => f.row.rate \in rateGroups
  /\ s = "routing"  => f.row.routing \in DOMAIN routing /\ routing[f.row.routing]
  /\ s = "entry"    => ~Taken(entries, f.id, f.row)
  /\ s = "primary"  => f.row.primary \in DOMAIN carriers /\ carriers[f.row.primary].active
  /\ s = "route"    => ~Taken(routes, f.id, f.row)

\* The rows the verdict of a form's checks rests on.
Reads(f) ==
  CASE f.op = "delete" -> {f.group}
    [] f.op = "client" -> {f.row.routing}
    [] f.op = "route"  -> {f.row.primary}
    [] OTHER           -> {}

UnderWay(a) == todo[a] # <<>> /\ todo[a] # Checks(edit[a]) \o <<"write">>

\* Rows are written by a (None: by a statement that stands alone).
Writes(a, rows) ==
  outrun' = (outrun \ {a}) \cup
     {b \in Admins \ {a} : UnderWay(b) /\ Reads(edit[b]) \cap (rows \ {None}) # {}}

CloseForm(a) ==
  /\ todo' = [todo EXCEPT ![a] = <<>>]
  /\ edit' = [edit EXCEPT ![a] = NoEdit]
-----------------------------------------------------------------------------
\* Forms name rows that existed when the page was made.
Submittable(f) ==
  /\ f # NoEdit
  /\ f.op = "delete"  => f.group \in rateGroups \cup gone
  /\ f.op = "carrier" => f.id \in DOMAIN carriers \cup {None}
  /\ f.op = "client"  => f.id \in DOMAIN clients \cup {None}
  /\ f.op \in {"carrier", "client"} => f.row.rate \in rateGroups \cup gone \cup {None}
  /\ f.op = "client"  => f.row.routing \in DOMAIN routing \cup {None}
  /\ f.op = "entry"   => f.id \in DOMAIN entries \cup {None} /\ f.row.group \in rateGroups \cup gone
  /\ f.op = "route"   => /\ f.id \in DOMAIN routes \cup {None}
                         /\ f.row.group \in DOMAIN routing /\ f.row.primary \in DOMAIN carriers

Submit(a, f) ==
  /\ todo[a] = <<>> /\ Submittable(f)
  /\ todo' = [todo EXCEPT ![a] = Checks(f) \o <<"write">>]
  /\ edit' = [edit EXCEPT ![a] = f]
  /\ UNCHANGED <<tables, outrun>>

Checking(a) == todo[a] # <<>> /\ Head(todo[a]) # "write"

CheckNext(a) ==
  /\ Checking(a) /\ Passes(Head(todo[a]), edit[a])
  /\ todo' = [todo EXCEPT ![a] = Tail(@)]
  /\ UNCHANGED <<tables, edit, outrun>>

\* The errors of ExistsEntryKey and ExistsRoutePrefix are dropped.
CheckFailsOpen(a) ==
  /\ Checking(a) /\ Head(todo[a]) \in {"entry", "route"}
  /\ todo' = [todo EXCEPT ![a] = Tail(@)]
  /\ UNCHANGED <<tables, edit, outrun>>

\* A check refuses, a statement fails or the client is gone.
RefuseEdit(a) ==
  /\ todo[a] # <<>>
  /\ CloseForm(a)
  /\ outrun' = outrun \ {a}
  /\ UNCHANGED tables

Writing(a, op) == todo[a] = <<"write">> /\ edit[a].op = op

Stored(table, id, row) == [x \in DOMAIN table \cup {id} |-> IF x = id THEN row ELSE table[x]]

\* A row to be made takes a new key.
KeyFor(id, new, table) == IF id = None THEN new \notin DOMAIN table ELSE new = id

\* Refused while the group has entries (ON DELETE RESTRICT).
DeleteRateGroup(a) ==
  /\ Writing(a, "delete")
  /\ LET g == edit[a].group IN
       /\ \A i \in DOMAIN entries : entries[i].group # g
       /\ rateGroups' = rateGroups \ {g} /\ gone' = gone \cup {g}
       /\ carriers' = Unassigned(carriers, g) /\ clients' = Unassigned(clients, g)
       /\ Writes(a, {g} \cup CarrierRefs(g) \cup ClientRefs(g))
  /\ CloseForm(a)
  /\ UNCHANGED <<entries, routing, routes>>

WriteCarrier(a, k) ==
  /\ Writing(a, "carrier") /\ KeyFor(edit[a].id, k, carriers)
  /\ edit[a].row.rate \in rateGroups \cup {None}
  /\ carriers' = Stored(carriers, k, edit[a].row)
  /\ Writes(a, {k, edit[a].row.rate})
  /\ CloseForm(a)
  /\ UNCHANGED <<rateGroups, gone, entries, clients, routing, routes>>

WriteClient(a, c) ==
  /\ Writing(a, "client") /\ KeyFor(edit[a].id, c, clients)
  /\ edit[a].row.rate \in rateGroups \cup {None}
  /\ clients' = Stored(clients, c, edit[a].row)
  /\ Writes(a, {edit[a].row.rate})
  /\ CloseForm(a)
  /\ UNCHANGED <<rateGroups, gone, entries, carriers, routing, routes>>

\* A row updated still exists, and its key is not taken.
Storable(table, id, row) == (id = None \/ id \in DOMAIN table) /\ ~Taken(table, id, row)

WriteEntry(a, i) ==
  /\ Writing(a, "entry") /\ KeyFor(edit[a].id, i, entries)
  /\ Storable(entries, edit[a].id, edit[a].row) /\ edit[a].row.group \in rateGroups
  /\ entries' = Stored(entries, i, edit[a].row)
  /\ Writes(a, {})
  /\ CloseForm(a)
  /\ UNCHANGED <<rateGroups, gone, carriers, clients, routing, routes>>

WriteRoute(a, i) ==
  /\ Writing(a, "route") /\ KeyFor(edit[a].id, i, routes)
  /\ Storable(routes, edit[a].id, edit[a].row)
  /\ routes' = Stored(routes, i, edit[a].row)
  /\ Writes(a, {})
  /\ CloseForm(a)
  /\ UNCHANGED <<rateGroups, gone, entries, carriers, clients, routing>>
-----------------------------------------------------------------------------
\* The rest are statements that stand alone.
Alone(rows) == Writes(None, rows) /\ UNCHANGED <<todo, edit>>

CreateRateGroup(g) ==
  /\ g \notin rateGroups \cup gone
  /\ rateGroups' = rateGroups \cup {g}
  /\ Alone({})
  /\ UNCHANGED <<gone, entries, carriers, clients, routing, routes>>

\* The last catch-all entry goes like any other, with a warning.
DeleteEntry(i) ==
  /\ i \in DOMAIN entries
  /\ entries' = Restrict(entries, DOMAIN entries \ {i})
  /\ Alone({})
  /\ UNCHANGED <<rateGroups, gone, carriers, clients, routing, routes>>

ToggleCarrierStatus(k) ==
  /\ k \in DOMAIN carriers
  /\ carriers' = [carriers EXCEPT ![k].active = ~@]
  /\ Alone({k})
  /\ UNCHANGED <<rateGroups, gone, entries, clients, routing, routes>>

CreateRoutingGroup(r, active) ==
  /\ r \notin DOMAIN routing
  /\ routing' = Stored(routing, r, active)
  /\ Alone({r})
  /\ UNCHANGED <<rateGroups, gone, entries, carriers, clients, routes>>

UpdateRoutingGroup(r, active) ==
  /\ r \in DOMAIN routing
  /\ routing' = [routing EXCEPT ![r] = active]
  /\ Alone({r})
  /\ UNCHANGED <<rateGroups, gone, entries, carriers, clients, routes>>

\* Clients that use the group are only warned about.
ToggleRoutingGroupStatus(r) == r \in DOMAIN routing /\ UpdateRoutingGroup(r, ~routing[r])

DeleteRouteEntry(i) ==
  /\ i \in DOMAIN routes
  /\ routes' = Restrict(routes, DOMAIN routes \ {i})
  /\ Alone({})
  /\ UNCHANGED <<rateGroups, gone, entries, carriers, clients, routing>>

EditStep(a) ==
  \/ \E f \in Edit : Submit(a, f)
  \/ CheckNext(a) \/ CheckFailsOpen(a) \/ RefuseEdit(a) \/ DeleteRateGroup(a)
  \/ \E k \in Carriers : WriteCarrier(a, k)
  \/ \E c \in Clients : WriteClient(a, c)
  \/ \E i \in EntryIds : WriteEntry(a, i)
  \/ \E i \in RouteIds : WriteRoute(a, i)

CatalogueNext ==
  \/ \E a \in Admins : EditStep(a)
  \/ \E g \in RateGroups : CreateRateGroup(g)
  \/ \E i \in EntryIds : DeleteEntry(i)
  \/ \E k \in Carriers : ToggleCarrierStatus(k)
  \/ \E r \in RoutingGroups :
       \/ ToggleRoutingGroupStatus(r)
       \/ \E b \in BOOLEAN : CreateRoutingGroup(r, b) \/ UpdateRoutingGroup(r, b)
  \/ \E i \in RouteIds : DeleteRouteEntry(i)

CatalogueSpec == CatalogueInit /\ [][CatalogueNext]_catalogueVars
-----------------------------------------------------------------------------
NewRows(table, next) == {x \in DOMAIN next : x \notin DOMAIN table \/ table[x] # next[x]}

NoTwins(table) == \A i \in DOMAIN table : ~Taken(table, i, table[i])

\* However forms overlap, and whichever of their checks fail or are late: no
\* row refers to one that does not exist, and no group has two routes of one
\* prefix or two entries of one prefix and starting date (minisms_db.sql:83-93,
\* 265-276).
CatalogueInv ==
  /\ CatalogueTypeOK
  /\ \A k \in DOMAIN carriers : carriers[k].rate \in rateGroups \cup {None}
  /\ \A c \in DOMAIN clients : /\ clients[c].rate \in rateGroups \cup {None}
                               /\ clients[c].routing \in DOMAIN routing \cup {None}
  /\ \A i \in DOMAIN entries : entries[i].group \in rateGroups
  /\ \A i \in DOMAIN routes : /\ routes[i].group \in DOMAIN routing
                              /\ routes[i].primary \in DOMAIN carriers
  /\ NoTwins(entries) /\ NoTwins(routes)

\* "Cannot delete: referenced by ..." (rate_groups.go:319), "Primary carrier
\* must exist and be active" (routing_groups.go:437), "Routing group must
\* exist and be active" (clients.go:306): a group that prices a carrier or a
\* client is deleted, a route to an inactive carrier or a client of an
\* inactive routing group is stored, only by a form that was overtaken: a row
\* it had checked was written between the check and its own write.
ChecksHold ==
  [][/\ \A g \in rateGroups \ rateGroups' : CarrierRefs(g) \cup ClientRefs(g) # {} =>
          \E a \in outrun : Writing(a, "delete") /\ edit[a].group = g
     /\ \A a \in Admins \ outrun :
          /\ Writing(a, "route") /\ todo'[a] = <<>> =>
               \A i \in NewRows(routes, routes') : carriers[routes'[i].primary].active
          /\ Writing(a, "client") /\ todo'[a] = <<>> =>
               \A c \in NewRows(clients, clients') :
                 clients'[c].routing # None => routing[clients'[c].routing]]_catalogueVars
=============================================================================
