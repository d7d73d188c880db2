------------------------------ MODULE Senders ------------------------------
(***************************************************************************)
(* The library of sender IDs and what of it each client and carrier may    *)
(* use (internal/db/sender_ids.go, client_sender_ids.go,                   *)
(* carrier_sender_ids.go and their forms in internal/web).  The owners are *)
(* the clients and carriers of Catalogue.                                  *)
(*                                                                         *)
(* Deactivating a sender reads the row, counts its uses, then flips the    *)
(* column; making one the default clears the owner's defaults and sets one *)
(* in a transaction whose first statement does not see rows added since.   *)
(***************************************************************************)
EXTENDS Catalogue

CONSTANTS
  SenderIds, LinkIds,   \* rows that ever exist
  Clerks                \* requests of these forms handled at once

ASSUME SendersAssumption == None \notin Clerks

Owners == Clients \cup Carriers

VARIABLES
  senders,   \* sender_ids: is the sender active?
  links,     \* client_sender_ids and carrier_sender_ids
  removed,   \* keys of rows that are gone, which pages may still name
  work,      \* what each request is doing
  late       \* history: toggles whose sender was toggled or linked meanwhile

senderVars == <<senders, links, removed, work, late>>

Link == [owner : Owners, sender : SenderIds, default : BOOLEAN]

Idle == [at |-> "idle"]

Work == {Idle}
  \cup [at : {"count", "flip"}, sender : SenderIds]
  \cup [at : {"clear", "set"}, owner : Owners, link : LinkIds, seen : SUBSET LinkIds]

SendersTypeOK ==
  /\ IsTable(senders, SenderIds, BOOLEAN)
  /\ IsTable(links, LinkIds, Link)
  /\ removed \subseteq LinkIds \ DOMAIN links
  /\ work \in [Clerks -> Work]
  /\ late \subseteq Clerks

SendersInit ==
  /\ senders = Empty /\ links = Empty /\ removed = {}
  /\ work = [w \in Clerks |-> Idle]
  /\ late = {}
-----------------------------------------------------------------------------
LinksOf(o) == {l \in DOMAIN links : links[l].owner = o}

\* A deviation: carriers that use the sender are overlooked.
ClientUses(s) == {l \in DOMAIN links : links[l].sender = s /\ links[l].owner \in Clients}

Uses(s) == {l \in DOMAIN links : links[l].sender = s}

Do(w, task) == work' = [work EXCEPT ![w] = task]

Overtakes(w, s) ==
  late' = (late \ {w}) \cup {v \in Clerks \ {w} : work[v].at \in {"count", "flip"} /\ work[v].sender = s}

\* A sender that is not active needs no counting.
ToggleSender(w, s) ==
  /\ work[w] = Idle /\ s \in DOMAIN senders
  /\ Do(w, [at |-> IF senders[s] THEN "count" ELSE "flip", sender |-> s])
  /\ UNCHANGED <<senders, links, removed, late>>

CountUses(w) ==
  /\ work[w].at = "count" /\ Uses(work[w].sender) = {}
  /\ Do(w, [work[w] EXCEPT !.at = "flip"])
  /\ UNCHANGED <<senders, links, removed, late>>

\* is_active = NOT is_active, whatever it was when it was read.
Flip(w) ==
  /\ work[w].at = "flip"
  /\ senders' = [senders EXCEPT ![work[w].sender] = ~@]
  /\ Overtakes(w, work[w].sender)
  /\ Do(w, Idle)
  /\ UNCHANGED <<links, removed>>

\* In use, or a statement fails, or the transaction is rolled back.
GiveUp(w) ==
  /\ work[w] # Idle
  /\ Do(w, Idle)
  /\ late' = late \ {w}
  /\ UNCHANGED <<senders, links, removed>>

CreateSender(s) ==
  /\ s \notin DOMAIN senders
  /\ senders' = Stored(senders, s, TRUE)
  /\ UNCHANGED <<links, removed, work, late>>

\* The list offered holds active senders, but the statement asks for none.
AddLink(l, o, s) ==
  /\ l \notin DOMAIN links \cup removed /\ s \in DOMAIN senders
  /\ o \in DOMAIN clients \cup DOMAIN carriers
  /\ \A m \in LinksOf(o) : links[m].sender # s
  /\ links' = Stored(links, l, [owner |-> o, sender |-> s, default |-> FALSE])
  /\ Overtakes(None, s)
  /\ UNCHANGED <<senders, removed, work>>

LockedLinks == UNION {work[w].seen : w \in {v \in Clerks : work[v].at = "set"}}

RemoveLink(l) ==
  /\ l \in DOMAIN links \ LockedLinks
  /\ links' = Restrict(links, DOMAIN links \ {l})
  /\ removed' = removed \cup {l}
  /\ UNCHANGED <<senders, work, late>>

\* The rows the first statement will clear: those it saw when it began.
BeginDefault(w, l, o) ==
  /\ work[w] = Idle /\ o \in DOMAIN clients \cup DOMAIN carriers
  /\ l \in LinksOf(o) \cup removed
  /\ Do(w, [at |-> "clear", owner |-> o, link |-> l, seen |-> LinksOf(o)])
  /\ UNCHANGED <<senders, links, removed, late>>

\* It has waited for and locked those that still exist.
ClearDefaults(w) ==
  /\ work[w].at = "clear" /\ work[w].seen \cap LockedLinks = {}
  /\ Do(w, [work[w] EXCEPT !.at = "set", !.seen = @ \cap DOMAIN links])
  /\ UNCHANGED <<senders, links, removed, late>>

\* A deviation: no unique index on the defaults.
NoneSeen(w) == {}

\* Defaults the first statement did not see: the unique index refuses one more.
Unseen(w) == {m \in LinksOf(work[w].owner) \ work[w].seen : links[m].default}

\* The second statement and the commit.  Without its row it sets nothing.
SetDefault(w) ==
  /\ work[w].at = "set"
  /\ work[w].link \in DOMAIN links => Unseen(w) = {}
  /\ links' = [m \in DOMAIN links |->
       IF m = work[w].link THEN [links[m] EXCEPT !.default = TRUE]
       ELSE IF m \in work[w].seen THEN [links[m] EXCEPT !.default = FALSE]
       ELSE links[m]]
  /\ Do(w, Idle)
  /\ UNCHANGED <<senders, removed, late>>

SendersNext ==
  \/ \E w \in Clerks :
       \/ \E s \in SenderIds : ToggleSender(w, s)
       \/ CountUses(w) \/ Flip(w)
       \/ \E l \in LinkIds, o \in Owners : BeginDefault(w, l, o)
       \/ ClearDefaults(w) \/ SetDefault(w) \/ GiveUp(w)
  \/ \E s \in SenderIds : CreateSender(s)
  \/ \E l \in LinkIds :
       \/ RemoveLink(l)
       \/ \E o \in Owners, s \in SenderIds : AddLink(l, o, s)
-----------------------------------------------------------------------------
\* Of each owner's senders at most one is the default, each is linked once,
\* and a removed row is never one a transaction has locked.
LinksInv ==
  /\ SendersTypeOK
  /\ \A l, m \in DOMAIN links :
       l # m /\ links[l].owner = links[m].owner =>
         links[l].sender # links[m].sender /\ ~(links[l].default /\ links[m].default)
  /\ \A w \in Clerks : work[w].at = "set" => work[w].seen \subseteq LinksOf(work[w].owner)

\* The two together: no form of any page leaves the tables at odds.
RecordsInv == CatalogueInv /\ LinksInv

RecordsVars == <<catalogueVars, senderVars>>

RecordsNext ==
  \/ CatalogueNext /\ UNCHANGED senderVars
  \/ SendersNext /\ UNCHANGED catalogueVars

RecordsSpec == CatalogueInit /\ SendersInit /\ [][RecordsNext]_RecordsVars

\* "Cannot deactivate: sender ID is referenced" (web/sender_ids.go:146): a
\* sender in use is deactivated only by a toggle during which it was linked
\* or toggled by another; and an owner loses its default only with the
\* default's own row, or to a page that named a row removed before.
InUseStaysActive ==
  [][/\ \A s \in DOMAIN senders : senders[s] /\ ~senders'[s] /\ (\E l \in DOMAIN links : links[l].sender = s) =>
          \E w \in late : work[w].at = "flip" /\ work[w].sender = s
     /\ \A l \in DOMAIN links : links[l].default =>
          \/ l \notin DOMAIN links'
          \/ \E m \in DOMAIN links' : links'[m].owner = links[l].owner /\ links'[m].default
          \/ \E w \in Clerks : /\ work[w].at = "set" /\ work[w].owner = links[l].owner
                               /\ work[w].link \notin DOMAIN links]_senderVars
=============================================================================
