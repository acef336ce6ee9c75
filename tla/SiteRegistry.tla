---------------------------- MODULE SiteRegistry ----------------------------
(***************************************************************************)
(* Table website and the in-memory Registry in front of it                 *)
(* (internal/sites/sites.go).  Every administrative operation writes the   *)
(* table and then calls Reload, which reads the whole table and only then  *)
(* takes the lock to replace the indexes: three steps, between which other *)
(* operations run.  Beacons look their token up in the registry and leave, *)
(* some time later, a row of table event under the id they found.          *)
(*                                                                         *)
(* A row's tok stands for its collect and script tokens, always generated  *)
(* together.                                                               *)
(*                                                                         *)
(* Bounds: MaxTokens random tokens, MaxFaults failed reloads and restarts. *)
(***************************************************************************)
EXTENDS Naturals, FiniteSets, FiniteSetsExt, Functions

CONSTANTS
  Admins,         \* requests that administer sites
  Beacons,        \* requests to the collector
  MaxTokens, MaxFaults,
  None

ASSUME RegistryAssumption ==
  /\ IsFiniteSet(Admins) /\ IsFiniteSet(Beacons)
  /\ MaxTokens \in Nat /\ MaxFaults \in Nat
  /\ None \notin Nat

Ids == 1..MaxTokens
Tokens == 1..MaxTokens

\* uuid tells sites apart where the rowid does not.
Site == [id : Ids, uuid : Tokens, tok : Tokens, share : Tokens \cup {None},
         public : {"no", "yes"}]

VARIABLES
  website,        \* table website, by rowid
  byCollect, byID, byShare,   \* the registry
  op,             \* each request: "idle", "reload" (written) or "swap" (read)
  rows,           \* what the request's Reload has read
  beacon,         \* the site a beacon was resolved to, or None
  event,          \* table event: <<website_id, uuid of the site it came for>>
  minted,         \* tokens generated
  retired,        \* history: tokens replaced by RegenTokens
  alone,          \* history: has another operation overlapped this one?
  healed,         \* history: did an operation that ran alone reload last?
  faults

registry == <<byCollect, byID, byShare>>
history  == <<retired, alone, healed>>
vars == <<website, registry, op, rows, beacon, event, minted, history, faults>>

Init ==
  /\ website = <<>>
  /\ byCollect = <<>> /\ byID = <<>> /\ byShare = <<>>
  /\ op = [a \in Admins |-> "idle"]
  /\ rows = [a \in Admins |-> {}]
  /\ beacon = [b \in Beacons |-> None]
  /\ event = {}
  /\ minted = 0
  /\ retired = {}
  /\ alone = [a \in Admins |-> "yes"]
  /\ healed = "yes"
  /\ faults = 0

-----------------------------------------------------------------------------
(* Statements.                                                             *)

\* The rowid of an INTEGER PRIMARY KEY without AUTOINCREMENT: one more than the
\* largest in the table, so that of the newest site is given out again once the
\* site is deleted.
NextId == IF website = <<>> THEN 1 ELSE Max(DOMAIN website) + 1

Mint == minted + 1

\* share_token = COALESCE(NULLIF(share_token, ''), ?)
ShareUnminted(s) == s.share
ShareAlwaysNew(s) == Mint
ShareKept(s) == IF s.share = None THEN Mint ELSE s.share

\* The write of an operation: the request owes a Reload, and all the requests
\* then under way have overlapped.
Written(a) ==
  LET busy == {b \in Admins : op[b] # "idle"} IN
  /\ op[a] = "idle"
  /\ op' = [op EXCEPT ![a] = "reload"]
  /\ alone' = [b \in Admins |->
                 IF b = a THEN IF busy = {} THEN "yes" ELSE "no"
                 ELSE IF b \in busy THEN "no" ELSE alone[b]]
  /\ healed' = "no"
  /\ UNCHANGED <<registry, rows, beacon, event, faults>>

Create(a) ==
  /\ minted < MaxTokens
  /\ website' =
       [i \in DOMAIN website \cup {NextId} |->
         IF i \in DOMAIN website \ {NextId} THEN website[i] ELSE
         [id |-> i, uuid |-> Mint, tok |-> Mint, share |-> None, public |-> "no"]]
  /\ minted' = Mint
  /\ Written(a)
  /\ UNCHANGED retired

\* DELETE FROM website WHERE id = ?: nothing else goes with the site.
Delete(a, id) ==
  /\ id \in DOMAIN website
  /\ website' = Restrict(website, DOMAIN website \ {id})
  /\ Written(a)
  /\ UNCHANGED <<minted, retired>>

RegenTokens(a, id) ==
  /\ id \in DOMAIN website
  /\ minted < MaxTokens
  /\ website' = [website EXCEPT ![id].tok = Mint]
  /\ minted' = Mint
  /\ retired' = retired \cup {website[id].tok}
  /\ Written(a)

SetPublic(a, id) ==
  /\ id \in DOMAIN website
  /\ minted < MaxTokens
  /\ website' = [website EXCEPT ![id].public = "yes",
                                ![id].share = ShareKept(website[id])]
  /\ minted' = IF website'[id].share = Mint THEN Mint ELSE minted
  /\ Written(a)
  /\ UNCHANGED retired

SetPrivate(a, id) ==
  /\ id \in DOMAIN website
  /\ website' = [website EXCEPT ![id].public = "no"]
  /\ Written(a)
  /\ UNCHANGED <<minted, retired>>

\* Name and domain, which nothing here depends on.
Update(a, id) ==
  /\ id \in DOMAIN website
  /\ Written(a)
  /\ UNCHANGED <<website, minted, retired>>

\* A request for a site that is gone by then: UPDATE and DELETE match no row,
\* and the registry is reloaded all the same.
NoSuchRow(a, id) ==
  /\ id \notin DOMAIN website
  /\ Written(a)
  /\ UNCHANGED <<website, minted, retired>>

-----------------------------------------------------------------------------
(* Reload.                                                                 *)

IndexBy(s, f) == [k \in {r[f] : r \in s} |-> CHOOSE r \in s : r[f] = k]

Shared(s) == {r \in s : r.share # None}

ReadTable(a) ==
  /\ op[a] = "reload"
  /\ op' = [op EXCEPT ![a] = "swap"]
  /\ rows' = [rows EXCEPT ![a] = Range(website)]
  /\ UNCHANGED <<website, registry, beacon, event, minted, history, faults>>

InstallSharedOnly(s) ==
  /\ byCollect' = IndexBy(s, "tok")
  /\ byID' = IndexBy(s, "id")
  /\ byShare' = IF Shared(s) = {} THEN byShare ELSE IndexBy(Shared(s), "share")
Install(s) ==
  /\ byCollect' = IndexBy(s, "tok")
  /\ byID' = IndexBy(s, "id")
  /\ byShare' = IndexBy(Shared(s), "share")

Swap(a) ==
  /\ op[a] = "swap"
  /\ Install(rows[a])
  /\ op' = [op EXCEPT ![a] = "idle"]
  /\ rows' = [rows EXCEPT ![a] = {}]
  /\ healed' = IF alone[a] = "yes" THEN "yes" ELSE healed
  /\ UNCHANGED <<website, beacon, event, minted, retired, alone, faults>>

\* The query fails: the registry stays as it is and the request ends with an
\* error, which its handler ignores.
ReloadFails(a) ==
  /\ op[a] = "reload"
  /\ faults < MaxFaults
  /\ faults' = faults + 1
  /\ op' = [op EXCEPT ![a] = "idle"]
  /\ UNCHANGED <<website, registry, rows, beacon, event, minted, history>>

-----------------------------------------------------------------------------
(* Beacons, and the process.                                               *)

\* ByCollect, at the start of Collector.Handle.
Resolve(b, tok) ==
  /\ beacon[b] = None
  /\ tok \in DOMAIN byCollect
  /\ beacon' = [beacon EXCEPT ![b] = byCollect[tok]]
  /\ UNCHANGED <<website, registry, op, rows, event, minted, history, faults>>

\* The writer inserts the beacon's event, whatever became of the site since.
Record(b) ==
  /\ beacon[b] # None
  /\ event' = event \cup {<<beacon[b].id, beacon[b].uuid>>}
  /\ beacon' = [beacon EXCEPT ![b] = None]
  /\ UNCHANGED <<website, registry, op, rows, minted, history, faults>>

\* The process ends anywhere and starts again: New reloads.
Restart ==
  /\ faults < MaxFaults
  /\ faults' = faults + 1
  /\ Install(Range(website))
  /\ op' = [a \in Admins |-> "idle"]
  /\ rows' = [a \in Admins |-> {}]
  /\ beacon' = [b \in Beacons |-> None]
  /\ healed' = "yes"
  /\ UNCHANGED <<website, event, minted, retired, alone>>

Operate(a) ==
  \/ Create(a)
  \/ \E id \in Ids :
       \/ Delete(a, id)
       \/ RegenTokens(a, id)
       \/ SetPublic(a, id)
       \/ SetPrivate(a, id)
       \/ Update(a, id)
       \/ NoSuchRow(a, id)

Reload(a) == ReadTable(a) \/ Swap(a) \/ ReloadFails(a)

Next ==
  \/ \E a \in Admins : Operate(a) \/ Reload(a)
  \/ \E b \in Beacons : (\E tok \in Tokens : Resolve(b, tok)) \/ Record(b)
  \/ Restart

Spec == Init /\ [][Next]_vars

-----------------------------------------------------------------------------
(* Properties.                                                             *)

PartialTo(f, S, T) == DOMAIN f \subseteq S /\ Range(f) \subseteq T

\* Every variable has its type, and a site that is public has a share token.
TypeOK ==
  /\ PartialTo(website, Ids, Site)
  /\ \A s \in Range(website) : s.public = "yes" => s.share # None
  /\ PartialTo(byCollect, Tokens, Site)
  /\ PartialTo(byID, Ids, Site)
  /\ PartialTo(byShare, Tokens, Site)
  /\ op \in [Admins -> {"idle", "reload", "swap"}]
  /\ \A a \in Admins : rows[a] \subseteq Site
  /\ beacon \in [Beacons -> Site \cup {None}]
  /\ event \subseteq (Ids \X Tokens)
  /\ minted \in 0..MaxTokens
  /\ retired \subseteq Tokens
  /\ alone \in [Admins -> {"no", "yes"}]
  /\ healed \in {"no", "yes"}
  /\ faults \in 0..MaxFaults

\* The indexes are of one reading of the table: a site found by one of its keys
\* is found, with the same fields, by the others (a share page is looked up by
\* token and its data queried by id).
IndexesAgree ==
  /\ {s \in Range(byID) : s.share # None} = Range(byShare)
  /\ Range(byCollect) = Range(byID)
  /\ \A s \in Range(byID) :
       byID[s.id] = s /\ byCollect[s.tok] = s /\ (s.share # None => byShare[s.share] = s)

\* Whatever stale reading the registry was left with by overlapping operations,
\* failed reloads or a crash, one operation that runs alone and whose Reload
\* succeeds, or a restart, makes it equal to the table again.
LoneReloadHeals ==
  healed = "yes" =>
    /\ byID = website
    /\ Range(byCollect) = Range(website)
    /\ Range(byShare) = Shared(Range(website))

\* A share link, once given out, stays the link of its site as long as the site
\* exists: making it private and public again changes nothing.
ShareLinkStable ==
  [][\A id \in DOMAIN website \cap DOMAIN website' :
       website[id].share # None => website'[id].share = website[id].share]_vars

\* `Rotate the script and collect paths? The old snippet will stop working.'
\* Once no operation is under way, no retired token is accepted.
OldSnippetStops ==
  (\A a \in Admins : op[a] = "idle") => DOMAIN byCollect \cap retired = {}

\* `Delete this site and all its data?'  A site's dashboard, which selects rows
\* by website_id, shows no event of a site that was deleted.
NothingInherited ==
  \A e \in event : e[1] \in DOMAIN website =>
    website[e[1]].uuid = e[2]
=============================================================================
