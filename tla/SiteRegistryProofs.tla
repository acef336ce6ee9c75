------------------------- MODULE SiteRegistryProofs -------------------------
(***************************************************************************)
(* Proofs about SiteRegistry, for any requests, beacons, number of tokens  *)
(* and of faults.                                                          *)
(***************************************************************************)
EXTENDS SiteRegistry, WellFoundedInduction, TLAPS

\* Sites that no key confuses.
Unconfused(s) ==
  \A x, y \in s :
    x.id = y.id \/ x.tok = y.tok \/ (x.share = y.share /\ x.share # None) => x = y

\* The indexes are of the sites s.
IndexesOf(s) ==
  /\ byCollect = IndexBy(s, "tok")
  /\ byID = IndexBy(s, "id")
  /\ byShare = IndexBy(Shared(s), "share")

\* Table website: a row's keys have been minted, and no two rows share one.
TableInv ==
  /\ minted \in 0..MaxTokens
  /\ website = [i \in DOMAIN website |-> website[i]]
  /\ \A i \in DOMAIN website :
       /\ i \in Ids /\ i <= minted
       /\ website[i] \in Site /\ website[i].id = i
       /\ website[i].uuid <= minted /\ website[i].tok <= minted
       /\ website[i].share # None => website[i].share <= minted
       /\ website[i].public = "yes" => website[i].share # None
  /\ \A i, j \in DOMAIN website :
       \/ website[i].tok = website[j].tok
       \/ website[i].share = website[j].share /\ website[i].share # None
       => i = j

\* What the requests have read, and what the registry holds, was the table once.
ReadInv ==
  /\ op \in [Admins -> {"idle", "reload", "swap"}] /\ DOMAIN rows = Admins
  /\ \A a \in Admins : rows[a] \subseteq Site /\ Unconfused(rows[a])
  /\ \E s \in SUBSET Site : Unconfused(s) /\ IndexesOf(s)

\* An operation that runs alone has the others idle and reads what is there; what
\* it has installed is the table, until the next write.
AloneInv ==
  /\ alone \in [Admins -> {"no", "yes"}] /\ healed \in {"no", "yes"}
  /\ \A a, b \in Admins : op[a] # "idle" /\ alone[a] = "yes" /\ a # b => op[b] = "idle"
  /\ \A a \in Admins : op[a] = "swap" /\ alone[a] = "yes" => rows[a] = Range(website)
  /\ healed = "yes" => IndexesOf(Range(website)) /\ \A a \in Admins : op[a] = "idle"

OtherTypes ==
  /\ beacon \in [Beacons -> Site \cup {None}]
  /\ event \subseteq (Ids \X Tokens)
  /\ retired \subseteq Tokens
  /\ faults \in 0..MaxFaults

RegistryInv == TableInv /\ ReadInv /\ AloneInv /\ OtherTypes

-----------------------------------------------------------------------------
(* Indexes.                                                                *)

LEMMA IndexLooksUp ==
  ASSUME NEW s, NEW f, \A x, y \in s : x[f] = y[f] => x = y
  PROVE  /\ DOMAIN IndexBy(s, f) = {r[f] : r \in s}
         /\ \A r \in s : IndexBy(s, f)[r[f]] = r
         /\ Range(IndexBy(s, f)) = s
<1>1. DOMAIN IndexBy(s, f) = {r[f] : r \in s}
  BY DEF IndexBy
<1>2. ASSUME NEW r \in s PROVE IndexBy(s, f)[r[f]] = r
  <2>1. IndexBy(s, f)[r[f]] = CHOOSE x \in s : x[f] = r[f]
    BY DEF IndexBy
  <2> QED
    BY <2>1
<1>3. Range(IndexBy(s, f)) = s
  BY <1>1, <1>2 DEF Range
<1> QED
  BY <1>1, <1>2, <1>3

LEMMA IndexesLookUp ==
  ASSUME NEW s \in SUBSET Site, Unconfused(s), IndexesOf(s)
  PROVE  /\ Range(byCollect) = s /\ Range(byID) = s /\ Range(byShare) = Shared(s)
         /\ DOMAIN byCollect \subseteq Tokens /\ DOMAIN byID \subseteq Ids
         /\ DOMAIN byShare \subseteq Tokens
         /\ \A r \in s : /\ byID[r.id] = r /\ byCollect[r.tok] = r
                         /\ r.share # None => byShare[r.share] = r
<1>1. \A r \in s : r.id \in Ids /\ r.tok \in Tokens /\ r.share \in Tokens \cup {None}
  BY DEF Site
<1>2. /\ \A x, y \in s : x["tok"] = y["tok"] => x = y
      /\ \A x, y \in s : x["id"] = y["id"] => x = y
      /\ \A x, y \in Shared(s) : x["share"] = y["share"] => x = y
  BY DEF Unconfused, Shared
<1>3. /\ Range(byCollect) = s /\ DOMAIN byCollect = {r["tok"] : r \in s}
      /\ \A r \in s : byCollect[r["tok"]] = r
  <2>1. byCollect = IndexBy(s, "tok")
    BY DEF IndexesOf
  <2>2. \A x, y \in s : x["tok"] = y["tok"] => x = y
    BY <1>2
  <2> HIDE DEF IndexesOf
  <2>3. /\ DOMAIN IndexBy(s, "tok") = {r["tok"] : r \in s}
        /\ \A r \in s : IndexBy(s, "tok")[r["tok"]] = r
        /\ Range(IndexBy(s, "tok")) = s
    BY <2>2, IndexLooksUp
  <2> QED
    BY <2>1, <2>3
<1>4. /\ Range(byID) = s /\ DOMAIN byID = {r["id"] : r \in s}
      /\ \A r \in s : byID[r["id"]] = r
  <2>1. byID = IndexBy(s, "id")
    BY DEF IndexesOf
  <2>2. \A x, y \in s : x["id"] = y["id"] => x = y
    BY <1>2
  <2> HIDE DEF IndexesOf
  <2>3. /\ DOMAIN IndexBy(s, "id") = {r["id"] : r \in s}
        /\ \A r \in s : IndexBy(s, "id")[r["id"]] = r
        /\ Range(IndexBy(s, "id")) = s
    BY <2>2, IndexLooksUp
  <2> QED
    BY <2>1, <2>3
<1>5. /\ Range(byShare) = Shared(s) /\ DOMAIN byShare = {r["share"] : r \in Shared(s)}
      /\ \A r \in Shared(s) : byShare[r["share"]] = r
  <2>1. byShare = IndexBy(Shared(s), "share")
    BY DEF IndexesOf
  <2>2. \A x, y \in Shared(s) : x["share"] = y["share"] => x = y
    BY <1>2
  <2> HIDE DEF IndexesOf
  <2>3. /\ DOMAIN IndexBy(Shared(s), "share") = {r["share"] : r \in Shared(s)}
        /\ \A r \in Shared(s) : IndexBy(Shared(s), "share")[r["share"]] = r
        /\ Range(IndexBy(Shared(s), "share")) = Shared(s)
    BY <2>2, IndexLooksUp
  <2> QED
    BY <2>1, <2>3
<1>6. DOMAIN byCollect \subseteq Tokens /\ DOMAIN byID \subseteq Ids
  BY <1>1, <1>3, <1>4
<1>7. DOMAIN byShare \subseteq Tokens
  BY <1>1, <1>5 DEF Shared
<1>8. \A r \in s : /\ byID[r.id] = r /\ byCollect[r.tok] = r
                  /\ r.share # None => byShare[r.share] = r
  BY <1>3, <1>4, <1>5 DEF Shared
<1> QED
  BY <1>3, <1>4, <1>5, <1>6, <1>7, <1>8

\* The rows of the table are unconfused sites, and indexed by id they are the
\* table itself.
LEMMA TableRows ==
  ASSUME TableInv
  PROVE  /\ Range(website) \in SUBSET Site /\ Unconfused(Range(website))
         /\ IndexBy(Range(website), "id") = website
<1>1. Range(website) \in SUBSET Site /\ Unconfused(Range(website))
  BY DEF TableInv, Unconfused, Range
<1>2. \A x, y \in Range(website) : x["id"] = y["id"] => x = y
  BY <1>1 DEF Unconfused
<1>3. /\ DOMAIN IndexBy(Range(website), "id") = {r["id"] : r \in Range(website)}
      /\ \A r \in Range(website) : IndexBy(Range(website), "id")[r["id"]] = r
  BY <1>2, IndexLooksUp
<1>4. \A i \in DOMAIN website : website[i] \in Range(website) /\ website[i]["id"] = i
  BY DEF Range, TableInv
<1>5. DOMAIN IndexBy(Range(website), "id") = DOMAIN website
  BY <1>3, <1>4 DEF Range
<1>6. \A i \in DOMAIN website : IndexBy(Range(website), "id")[i] = website[i]
  BY <1>3, <1>4
<1> QED
  BY <1>1, <1>5, <1>6 DEF TableInv, IndexBy

-----------------------------------------------------------------------------
(* The table.                                                              *)

LEMMA MaxIsGreatest ==
  ASSUME NEW n \in Nat, NEW S \in SUBSET (1..n), S # {}
  PROVE  Max(S) \in S /\ \A y \in S : y <= Max(S)
<1> DEFINE T == {n - x : x \in S}
<1>1. T \subseteq Nat /\ T # {}
  OBVIOUS
<1>2. PICK t \in T : \A u \in T : ~(<<u, t>> \in OpToRel(<, Nat))
  <2> HIDE DEF T
  <2> QED
    BY <1>1, WFMin, NatLessThanWellFounded, Zenon
<1>3. \A u \in T : ~(u < t)
  BY <1>1, <1>2 DEF OpToRel
<1>4. PICK x \in S : t = n - x
  OBVIOUS
<1>5. \A y \in S : x >= y
  BY <1>3, <1>4
<1>6. \E z \in S : \A y \in S : z >= y
  BY <1>5
<1>7. Max(S) \in S /\ \A y \in S : Max(S) >= y
  BY <1>6 DEF Max
<1> QED
  BY <1>7

LEMMA NextIdIsNew ==
  ASSUME TableInv, minted < MaxTokens
  PROVE  NextId \in Ids /\ NextId <= Mint /\ NextId \notin DOMAIN website
<1>1. minted \in Nat /\ MaxTokens \in Nat /\ Mint = minted + 1
  BY RegistryAssumption DEF TableInv, RegistryAssumption, Mint
<1>2. CASE website = <<>>
  BY <1>1, <1>2 DEF NextId, Ids
<1>3. CASE website # <<>>
  <2>1. DOMAIN website # {}
    <3> SUFFICES ASSUME DOMAIN website = {} PROVE website = <<>>
      BY <1>3
    <3> QED
      BY DEF TableInv
  <2>2. DOMAIN website \in SUBSET (1..minted)
    BY <1>1 DEF TableInv, Ids
  <2>3. Max(DOMAIN website) \in DOMAIN website /\ \A y \in DOMAIN website : y <= Max(DOMAIN website)
    BY <1>1, <2>1, <2>2, MaxIsGreatest
  <2>4. NextId = Max(DOMAIN website) + 1
    BY <1>3 DEF NextId
  <2>5. Max(DOMAIN website) \in 1..minted
    BY <2>2, <2>3
  <2>6. NextId \in Ids /\ NextId <= Mint
    BY <1>1, <2>4, <2>5 DEF Ids
  <2>7. NextId \notin DOMAIN website
    BY <1>1, <2>2, <2>3, <2>4, <2>5
  <2> QED
    BY <2>6, <2>7
<1> QED
  BY <1>2, <1>3

\* One row is written, whose keys are its own or have just been minted.
LEMMA PutRow ==
  ASSUME TableInv, NEW i \in Ids, NEW new \in Site, new.id = i, i <= minted',
         website' = [j \in DOMAIN website \cup {i} |-> IF j = i THEN new ELSE website[j]],
         minted' \in 0..MaxTokens, minted <= minted',
         new.uuid <= minted', new.tok <= minted', new.public = "yes" => new.share # None,
         new.share # None => new.share <= minted',
         minted < new.tok \/ (i \in DOMAIN website /\ new.tok = website[i].tok),
         \/ new.share = None \/ minted < new.share
         \/ i \in DOMAIN website /\ new.share = website[i].share
  PROVE  TableInv'
<1>1. DOMAIN website' = DOMAIN website \cup {i}
      /\ website'[i] = new /\ \A j \in DOMAIN website \ {i} : website'[j] = website[j]
  OBVIOUS
<1>2. website' = [j \in DOMAIN website' |-> website'[j]]
  OBVIOUS
<1>3. minted \in Nat /\ minted' \in Nat
  BY DEF TableInv
<1>4. ASSUME NEW j \in DOMAIN website'
      PROVE  /\ j \in Ids /\ j <= minted'
             /\ website'[j] \in Site /\ website'[j].id = j
             /\ website'[j].uuid <= minted' /\ website'[j].tok <= minted'
             /\ website'[j].share # None => website'[j].share <= minted'
             /\ website'[j].public = "yes" => website'[j].share # None
  <2>1. CASE j = i
    BY <1>1, <2>1
  <2>2. CASE j # i
    <3>1. j \in DOMAIN website /\ website'[j] = website[j]
      BY <1>1, <2>2
    <3>2. website[j].uuid \in Nat /\ website[j].tok \in Nat /\ j \in Nat
          /\ website[j].share \in Nat \cup {None}
      BY <3>1 DEF TableInv, Site, Tokens, Ids
    <3> QED
      BY <1>3, <3>1, <3>2 DEF TableInv
  <2> QED
    BY <2>1, <2>2
<1>5. ASSUME NEW j \in DOMAIN website \ {i}
      PROVE  new.tok # website[j].tok /\ (new.share # None => new.share # website[j].share)
  <2>1. /\ website[j].tok \in Nat /\ website[j].tok <= minted
        /\ website[j].share \in Nat \cup {None}
        /\ website[j].share # None => website[j].share <= minted
    BY DEF TableInv, Site, Tokens
  <2>2. new.tok \in Nat /\ new.share \in Nat \cup {None}
    BY DEF Site, Tokens
  <2>3. new.tok # website[j].tok
    BY <1>3, <2>1, <2>2 DEF TableInv
  <2>4. new.share # None => new.share # website[j].share
    BY <1>3, <2>1, <2>2 DEF TableInv
  <2> QED
    BY <2>3, <2>4
<1>6. ASSUME NEW j \in DOMAIN website', NEW k \in DOMAIN website',
             \/ website'[j].tok = website'[k].tok
             \/ website'[j].share = website'[k].share /\ website'[j].share # None
      PROVE  j = k
  <2>1. CASE j # i /\ k # i
    BY <1>1, <1>6, <2>1 DEF TableInv
  <2>2. CASE j = i /\ k # i
    BY <1>1, <1>5, <1>6, <2>2
  <2>3. CASE j # i /\ k = i
    BY <1>1, <1>5, <1>6, <2>3
  <2> QED
    BY <2>1, <2>2, <2>3
<1> QED
  BY <1>2, <1>4, <1>6 DEF TableInv

LEMMA MintIsNew ==
  ASSUME TableInv, minted < MaxTokens
  PROVE  Mint \in Tokens /\ Mint \in 0..MaxTokens /\ minted < Mint /\ minted <= Mint /\ Mint # None
BY RegistryAssumption DEF TableInv, RegistryAssumption, Mint, Tokens

LEMMA CreateKeepsTable ==
  ASSUME TableInv, NEW a \in Admins, Create(a)
  PROVE  TableInv' /\ \A i \in DOMAIN website : i \in DOMAIN website' /\ website'[i] = website[i]
<1> DEFINE new == [id |-> NextId, uuid |-> Mint, tok |-> Mint, share |-> None, public |-> "no"]
<1>1. minted < MaxTokens /\ minted' = Mint
  BY DEF Create
<1>2. NextId \in Ids /\ NextId <= Mint /\ NextId \notin DOMAIN website
  BY <1>1, NextIdIsNew
<1>3. website' = [j \in DOMAIN website \cup {NextId} |-> IF j = NextId THEN new ELSE website[j]]
  BY <1>2 DEF Create
<1>4. new \in Site /\ new.id = NextId /\ new.uuid = Mint /\ new.tok = Mint
      /\ new.share = None /\ new.public = "no"
  BY <1>1, <1>2, MintIsNew DEF Site
<1> HIDE DEF new
<1>5. TableInv'
  BY <1>1, <1>2, <1>3, <1>4, MintIsNew, PutRow
<1> QED
  BY <1>2, <1>3, <1>5

\* The operations that change a row in place.
LEMMA ChangeKeepsTable ==
  ASSUME TableInv, NEW a \in Admins, NEW id \in Ids,
         RegenTokens(a, id) \/ SetPublic(a, id) \/ SetPrivate(a, id)
  PROVE  /\ TableInv'
         /\ DOMAIN website' = DOMAIN website
         /\ \A i \in DOMAIN website :
              /\ website'[i].uuid = website[i].uuid
              /\ website[i].share # None => website'[i].share = website[i].share
<1> DEFINE old == website[id]
<1>1. /\ id \in DOMAIN website /\ id <= minted
      /\ old \in Site /\ old.id = id /\ old.uuid <= minted /\ old.tok <= minted
      /\ old.share # None => old.share <= minted
      /\ old.public = "yes" => old.share # None
      /\ minted \in Nat /\ old.uuid \in Nat /\ old.tok \in Nat /\ id \in Nat
      /\ old.share \in Nat \cup {None} /\ minted \in 0..MaxTokens
  BY DEF RegenTokens, SetPublic, SetPrivate, TableInv, Site, Tokens, Ids
<1> DEFINE Changes(new) ==
      /\ new \in Site /\ new.id = id /\ new.uuid = old.uuid
      /\ website' = [website EXCEPT ![id] = new]
      /\ minted' \in 0..MaxTokens /\ minted <= minted' /\ new.tok <= minted'
      /\ new.public = "yes" => new.share # None
      /\ new.share # None => new.share <= minted'
      /\ minted < new.tok \/ new.tok = old.tok
      /\ new.share = None \/ minted < new.share \/ new.share = old.share
      /\ old.share # None => new.share = old.share
<1>2. ASSUME NEW new, Changes(new)
      PROVE  /\ TableInv'
             /\ DOMAIN website' = DOMAIN website
             /\ \A i \in DOMAIN website :
                  /\ website'[i].uuid = website[i].uuid
                  /\ website[i].share # None => website'[i].share = website[i].share
  <2>1. website' = [j \in DOMAIN website \cup {id} |-> IF j = id THEN new ELSE website[j]]
    BY <1>1, <1>2
  <2>2. minted' \in Nat /\ id <= minted' /\ new.uuid <= minted'
    BY <1>1, <1>2
  <2>3. TableInv'
    BY <1>1, <1>2, <2>1, <2>2, PutRow
  <2> QED
    BY <1>1, <1>2, <2>1, <2>3
<1>3. CASE RegenTokens(a, id)
  <2> DEFINE new == [old EXCEPT !.tok = Mint]
  <2>1. website' = [website EXCEPT ![id] = new] /\ minted' = Mint /\ minted < MaxTokens
    BY <1>3 DEF RegenTokens
  <2>2. new \in Site /\ new.id = id /\ new.uuid = old.uuid /\ new.tok = Mint
        /\ new.share = old.share /\ new.public = old.public
    BY <1>1, <2>1, MintIsNew DEF Site
  <2>3. Mint \in Nat /\ (new.share # None => new.share <= Mint)
    BY <1>1, <2>1, <2>2, MintIsNew
  <2> HIDE DEF new, old
  <2>4. Changes(new)
    BY <1>1, <2>1, <2>2, <2>3, MintIsNew
  <2> HIDE DEF Changes
  <2> QED
    BY <1>2, <2>4
<1>4. CASE SetPublic(a, id)
  <2> DEFINE new == [old EXCEPT !.public = "yes", !.share = ShareKept(old)]
  <2>1. website' = [website EXCEPT ![id] = new] /\ minted < MaxTokens
    BY <1>4 DEF SetPublic
  <2>2. ShareKept(old) \in Tokens
    BY <1>1, <2>1, MintIsNew DEF ShareKept, Site
  <2>3. new \in Site /\ new.id = id /\ new.uuid = old.uuid /\ new.tok = old.tok
        /\ new.share = ShareKept(old) /\ new.public = "yes"
    BY <1>1, <2>2 DEF Site
  <2>4. website'[id] = new
    BY <1>1, <2>1
  <2>5. /\ old.share # None => new.share = old.share /\ minted' = minted
        /\ old.share = None => new.share = Mint /\ minted' = Mint
    <3>1. minted' = IF new.share = Mint THEN Mint ELSE minted
      BY <1>4, <2>4 DEF SetPublic
    <3>2. old.share # None => old.share # Mint
      BY <1>1, <2>1, MintIsNew
    <3> QED
      BY <2>3, <3>1, <3>2 DEF ShareKept
  <2>6. new.share # None
    BY <2>2, <2>3, RegistryAssumption DEF Tokens, RegistryAssumption
  <2>7. CASE old.share # None
    <3> HIDE DEF new, old
    <3>1. Changes(new)
      BY <1>1, <2>1, <2>3, <2>5, <2>6, <2>7
    <3> HIDE DEF Changes
    <3> QED
      BY <1>2, <3>1
  <2>8. CASE old.share = None
    <3>1. Mint \in Nat /\ old.tok <= Mint
      BY <1>1, <2>1, MintIsNew
    <3> HIDE DEF new, old
    <3>2. Changes(new)
      BY <1>1, <2>1, <2>3, <2>5, <2>6, <2>8, <3>1, MintIsNew
    <3> HIDE DEF Changes
    <3> QED
      BY <1>2, <3>2
  <2> QED
    BY <2>7, <2>8
<1>5. CASE SetPrivate(a, id)
  <2> DEFINE new == [old EXCEPT !.public = "no"]
  <2>1. website' = [website EXCEPT ![id] = new] /\ minted' = minted
    BY <1>5 DEF SetPrivate
  <2>2. new \in Site /\ new.id = id /\ new.uuid = old.uuid /\ new.tok = old.tok
        /\ new.share = old.share /\ new.public = "no"
    BY <1>1 DEF Site
  <2> HIDE DEF new, old
  <2>3. Changes(new)
    BY <1>1, <2>1, <2>2
  <2> HIDE DEF Changes
  <2> QED
    BY <1>2, <2>3
<1> QED
  BY <1>3, <1>4, <1>5

LEMMA DeleteKeepsTable ==
  ASSUME TableInv, NEW a \in Admins, NEW id \in Ids, Delete(a, id)
  PROVE  /\ TableInv'
         /\ DOMAIN website' \subseteq DOMAIN website
         /\ \A i \in DOMAIN website' : website'[i] = website[i]
<1>1. website' = [i \in DOMAIN website \ {id} |-> website[i]] /\ minted' = minted
  BY DEF Delete, Restrict
<1>2. /\ DOMAIN website' = DOMAIN website \ {id}
      /\ \A i \in DOMAIN website' : website'[i] = website[i]
  BY <1>1
<1>3. website' = [i \in DOMAIN website' |-> website'[i]]
  BY <1>1
<1> QED
  BY <1>1, <1>2, <1>3 DEF TableInv

RowsStable ==
  \A i \in DOMAIN website \cap DOMAIN website' :
    website[i].share # None => website'[i].share = website[i].share

LEMMA OperateStep ==
  ASSUME TableInv, NEW a \in Admins, Operate(a)
  PROVE  Written(a) /\ TableInv' /\ RowsStable /\ (retired \subseteq Tokens => retired' \subseteq Tokens)
<1>1. CASE Create(a)
  <2>1. TableInv' /\ RowsStable
    BY <1>1, CreateKeepsTable DEF RowsStable
  <2> QED
    BY <1>1, <2>1 DEF Create
<1>2. ASSUME NEW id \in Ids, Delete(a, id)
      PROVE  Written(a) /\ TableInv' /\ RowsStable /\ retired' = retired
  BY <1>2, DeleteKeepsTable DEF RowsStable, Delete
<1>3. ASSUME NEW id \in Ids, RegenTokens(a, id) \/ SetPublic(a, id) \/ SetPrivate(a, id)
      PROVE  Written(a) /\ TableInv' /\ RowsStable /\ (retired \subseteq Tokens => retired' \subseteq Tokens)
  <2>1. TableInv' /\ RowsStable
    BY <1>3, ChangeKeepsTable DEF RowsStable
  <2>2. Written(a)
    BY <1>3 DEF RegenTokens, SetPublic, SetPrivate
  <2>3. id \in DOMAIN website /\ website[id].tok \in Tokens
    BY <1>3 DEF RegenTokens, SetPublic, SetPrivate, TableInv, Site
  <2>4. retired' \in {retired, retired \cup {website[id].tok}}
    BY <1>3 DEF RegenTokens, SetPublic, SetPrivate
  <2> QED
    BY <2>1, <2>2, <2>3, <2>4
<1>4. ASSUME NEW id \in Ids, Update(a, id) \/ NoSuchRow(a, id)
      PROVE  Written(a) /\ TableInv' /\ RowsStable /\ retired' = retired
  BY <1>4 DEF Update, NoSuchRow, TableInv, RowsStable
<1> QED
  BY <1>1, <1>2, <1>3, <1>4 DEF Operate

-----------------------------------------------------------------------------
(* The invariant.                                                          *)

LEMMA InitInv == Init => RegistryInv
<1> SUFFICES ASSUME Init PROVE RegistryInv
  OBVIOUS
<1>1. <<>> = [i \in {} |-> i] /\ DOMAIN <<>> = {} /\ Range(<<>>) = {}
  BY DEF Range
<1>2. \A f : IndexBy({}, f) = <<>>
  BY <1>1 DEF IndexBy
<1>3. TableInv
  BY <1>1, RegistryAssumption DEF Init, TableInv, RegistryAssumption
<1>4. IndexesOf({}) /\ Unconfused({})
  BY <1>2 DEF Init, IndexesOf, Shared, Unconfused
<1>5. ReadInv
  BY <1>4 DEF Init, ReadInv
<1>6. AloneInv
  BY <1>1, <1>4 DEF Init, AloneInv
<1>7. OtherTypes
  BY RegistryAssumption DEF Init, OtherTypes, RegistryAssumption
<1> QED
  BY <1>3, <1>5, <1>6, <1>7 DEF RegistryInv

LEMMA RegistryStep == RegistryInv /\ [Next]_vars => RegistryInv'
<1> SUFFICES ASSUME RegistryInv, [Next]_vars PROVE RegistryInv'
  OBVIOUS
<1> USE DEF registry, history
<1>1. TableInv /\ ReadInv /\ AloneInv /\ OtherTypes
  BY DEF RegistryInv
<1>2. CASE UNCHANGED vars
  BY <1>1, <1>2 DEF vars, RegistryInv, TableInv, ReadInv, AloneInv, OtherTypes, IndexesOf
<1>3. ASSUME NEW a \in Admins, Operate(a) PROVE RegistryInv'
  <2>1. Written(a) /\ TableInv' /\ retired' \subseteq Tokens
    BY <1>1, <1>3, OperateStep DEF OtherTypes
  <2>2. /\ op[a] = "idle" /\ op' \in [Admins -> {"idle", "reload", "swap"}] /\ op'[a] = "reload"
        /\ \A b \in Admins \ {a} : op'[b] = op[b]
        /\ UNCHANGED <<registry, rows, beacon, event, faults>> /\ healed' = "no"
    BY <1>1, <2>1 DEF Written, ReadInv
  <2>3. ReadInv'
    BY <1>1, <2>2 DEF ReadInv, IndexesOf
  <2>4. /\ alone' \in [Admins -> {"no", "yes"}]
        /\ \A b \in Admins \ {a} : op[b] # "idle" => alone'[b] = "no"
        /\ alone'[a] = "yes" => \A b \in Admins : op[b] = "idle"
    BY <1>1, <2>1, <2>2 DEF Written, AloneInv
  <2>5. AloneInv'
    BY <2>2, <2>4 DEF AloneInv
  <2>6. OtherTypes'
    BY <1>1, <2>1, <2>2 DEF OtherTypes
  <2> QED
    BY <2>1, <2>3, <2>5, <2>6 DEF RegistryInv
<1>4. ASSUME NEW a \in Admins, ReadTable(a) PROVE RegistryInv'
  <2>1. /\ op[a] = "reload" /\ op' \in [Admins -> {"idle", "reload", "swap"}] /\ op'[a] = "swap"
        /\ DOMAIN rows' = Admins /\ rows'[a] = Range(website)
        /\ \A b \in Admins \ {a} : op'[b] = op[b] /\ rows'[b] = rows[b]
        /\ UNCHANGED <<website, registry, beacon, event, minted, history, faults>>
    BY <1>1, <1>4 DEF ReadTable, ReadInv
  <2>2. TableInv' /\ OtherTypes'
    BY <1>1, <2>1 DEF TableInv, OtherTypes
  <2>3. ReadInv'
    BY <1>1, <2>1, TableRows DEF ReadInv, IndexesOf
  <2>4. AloneInv'
    BY <1>1, <2>1 DEF AloneInv, IndexesOf
  <2> QED
    BY <2>2, <2>3, <2>4 DEF RegistryInv
<1>5. ASSUME NEW a \in Admins, Swap(a) PROVE RegistryInv'
  <2>1. /\ op[a] = "swap" /\ op' \in [Admins -> {"idle", "reload", "swap"}] /\ op'[a] = "idle"
        /\ DOMAIN rows' = Admins /\ rows'[a] = {}
        /\ \A b \in Admins \ {a} : op'[b] = op[b] /\ rows'[b] = rows[b]
        /\ healed' = (IF alone[a] = "yes" THEN "yes" ELSE healed)
        /\ UNCHANGED <<website, beacon, event, minted, retired, alone, faults>>
    BY <1>1, <1>5 DEF Swap, ReadInv
  <2>2. TableInv' /\ OtherTypes'
    BY <1>1, <2>1 DEF TableInv, OtherTypes
  <2>3. /\ byCollect' = IndexBy(rows[a], "tok") /\ byID' = IndexBy(rows[a], "id")
        /\ byShare' = IndexBy(Shared(rows[a]), "share")
    BY <1>5 DEF Swap, Install
  <2>4. ReadInv'
    <3>1. rows[a] \in SUBSET Site /\ Unconfused(rows[a])
      BY <1>1 DEF ReadInv
    <3>2. \E s \in SUBSET Site : Unconfused(s) /\ byCollect' = IndexBy(s, "tok")
             /\ byID' = IndexBy(s, "id") /\ byShare' = IndexBy(Shared(s), "share")
      BY <2>3, <3>1
    <3>3. \A b \in Admins : rows'[b] \subseteq Site /\ Unconfused(rows'[b])
      BY <1>1, <2>1 DEF ReadInv, Unconfused
    <3> QED
      BY <2>1, <3>2, <3>3 DEF ReadInv, IndexesOf
  <2>5. AloneInv'
    <3>1. healed' = "yes" => alone[a] = "yes"
      BY <1>1, <2>1 DEF AloneInv
    <3>2. alone[a] = "yes" => rows[a] = Range(website) /\ \A b \in Admins \ {a} : op[b] = "idle"
      BY <1>1, <2>1 DEF AloneInv
    <3>3. healed' = "yes" =>
            /\ byCollect' = IndexBy(Range(website'), "tok") /\ byID' = IndexBy(Range(website'), "id")
            /\ byShare' = IndexBy(Shared(Range(website')), "share")
      BY <2>1, <2>3, <3>1, <3>2
    <3> QED
      BY <1>1, <2>1, <3>1, <3>2, <3>3 DEF AloneInv, IndexesOf
  <2> QED
    BY <2>2, <2>4, <2>5 DEF RegistryInv
<1>6. ASSUME NEW a \in Admins, ReloadFails(a) PROVE RegistryInv'
  <2>1. /\ op' \in [Admins -> {"idle", "reload", "swap"}] /\ op'[a] = "idle"
        /\ \A b \in Admins \ {a} : op'[b] = op[b]
        /\ UNCHANGED <<website, registry, rows, beacon, event, minted, history>>
        /\ faults' \in 0..MaxFaults
    BY <1>1, <1>6, RegistryAssumption DEF ReloadFails, ReadInv, OtherTypes, RegistryAssumption
  <2>2. TableInv' /\ OtherTypes'
    BY <1>1, <2>1 DEF TableInv, OtherTypes
  <2>3. ReadInv' /\ AloneInv'
    BY <1>1, <2>1 DEF ReadInv, AloneInv, IndexesOf
  <2> QED
    BY <2>2, <2>3 DEF RegistryInv
<1>7. ASSUME NEW b \in Beacons, (\E tok \in Tokens : Resolve(b, tok)) \/ Record(b)
      PROVE  RegistryInv'
  <2>1. UNCHANGED <<website, registry, op, rows, minted, history, faults>>
    BY <1>7 DEF Resolve, Record
  <2>2. TableInv' /\ ReadInv' /\ AloneInv'
    BY <1>1, <2>1 DEF TableInv, ReadInv, AloneInv, IndexesOf
  <2>3. \A tok \in DOMAIN byCollect : byCollect[tok] \in Site
    <3>1. Range(byCollect) \subseteq Site
      BY <1>1, IndexesLookUp DEF ReadInv
    <3> QED
      BY <3>1 DEF Range
  <2>4. OtherTypes'
    <3>1. CASE \E tok \in Tokens : Resolve(b, tok)
      BY <1>1, <2>3, <3>1 DEF Resolve, OtherTypes
    <3>2. CASE Record(b)
      <4>1. beacon[b].id \in Ids /\ beacon[b].uuid \in Tokens
        BY <1>1, <3>2 DEF Record, OtherTypes, Site
      <4> QED
        BY <1>1, <3>2, <4>1 DEF Record, OtherTypes
    <3> QED
      BY <1>7, <3>1, <3>2
  <2> QED
    BY <2>2, <2>4 DEF RegistryInv
<1>8. CASE Restart
  <2>1. TableInv' /\ OtherTypes'
    BY <1>1, <1>8, RegistryAssumption DEF Restart, TableInv, OtherTypes, RegistryAssumption
  <2>2. /\ op' = [a \in Admins |-> "idle"] /\ rows' = [a \in Admins |-> {}]
        /\ healed' = "yes" /\ UNCHANGED <<website, alone>>
    BY <1>8 DEF Restart
  <2>3. /\ byCollect' = IndexBy(Range(website), "tok") /\ byID' = IndexBy(Range(website), "id")
        /\ byShare' = IndexBy(Shared(Range(website)), "share")
    BY <1>8 DEF Restart, Install
  <2>4. \E s \in SUBSET Site : Unconfused(s) /\ byCollect' = IndexBy(s, "tok")
           /\ byID' = IndexBy(s, "id") /\ byShare' = IndexBy(Shared(s), "share")
    BY <1>1, <2>3, TableRows
  <2>5. Unconfused({})
    BY DEF Unconfused
  <2>6. ReadInv'
    BY <2>2, <2>4, <2>5 DEF ReadInv, IndexesOf
  <2>7. AloneInv'
    BY <1>1, <2>2, <2>3 DEF AloneInv, IndexesOf
  <2> QED
    BY <2>1, <2>6, <2>7 DEF RegistryInv
<1> QED
  BY <1>2, <1>3, <1>4, <1>5, <1>6, <1>7, <1>8 DEF Next, Reload

LEMMA Inductive == Spec => []RegistryInv
  BY InitInv, RegistryStep, PTL DEF Spec

-----------------------------------------------------------------------------
(* The theorems.                                                           *)

\* Rows, indexes, readings and beacons hold sites, and a public site has a share
\* token, whatever the order of writes, reads and swaps (sites.go:35-75).
THEOREM RegistryTyped == Spec => []TypeOK
<1>1. ASSUME RegistryInv PROVE TypeOK
  <2>1. TableInv /\ ReadInv /\ AloneInv /\ OtherTypes
    BY <1>1 DEF RegistryInv
  <2>2. PartialTo(website, Ids, Site) /\ \A s \in Range(website) : s.public = "yes" => s.share # None
    BY <2>1 DEF TableInv, PartialTo, Range
  <2>3. PartialTo(byCollect, Tokens, Site) /\ PartialTo(byID, Ids, Site) /\ PartialTo(byShare, Tokens, Site)
    <3>1. PICK s \in SUBSET Site : Unconfused(s) /\ IndexesOf(s)
      BY <2>1 DEF ReadInv
    <3> QED
      BY <3>1, IndexesLookUp DEF PartialTo, Shared
  <2> QED
    BY <2>1, <2>2, <2>3 DEF TypeOK, TableInv, ReadInv, AloneInv, OtherTypes
<1> QED
  BY Inductive, <1>1, PTL

\* The five indexes are always of one reading of the table (sites.go:72-74), so
\* that a site found by its share token is the one its data is queried for.
THEOREM IndexesOfOneReading == Spec => []IndexesAgree
<1>1. ASSUME RegistryInv PROVE IndexesAgree
  <2>1. PICK s \in SUBSET Site : Unconfused(s) /\ IndexesOf(s)
    BY <1>1 DEF RegistryInv, ReadInv
  <2> QED
    BY <2>1, IndexesLookUp DEF IndexesAgree, Shared
<1> QED
  BY Inductive, <1>1, PTL

\* An operation that no other overlaps leaves the registry equal to the table,
\* however stale it was, and so does a restart (sites.go:27-75).
THEOREM ReloadHeals == Spec => []LoneReloadHeals
<1>1. ASSUME RegistryInv PROVE LoneReloadHeals
  <2> SUFFICES ASSUME healed = "yes"
               PROVE  /\ byID = website
                      /\ Range(byCollect) = Range(website)
                      /\ Range(byShare) = Shared(Range(website))
    BY DEF LoneReloadHeals
  <2>1. TableInv /\ IndexesOf(Range(website))
    BY <1>1 DEF RegistryInv, AloneInv
  <2>2. byID = website
    BY <2>1, TableRows DEF IndexesOf
  <2> QED
    BY <2>1, <2>2, TableRows, IndexesLookUp
<1> QED
  BY Inductive, <1>1, PTL

LEMMA RowsStableStep == RegistryInv /\ [Next]_vars => RowsStable
<1> SUFFICES ASSUME RegistryInv, [Next]_vars PROVE RowsStable
  OBVIOUS
<1>1. ASSUME NEW a \in Admins, Operate(a) PROVE RowsStable
  BY <1>1, OperateStep DEF RegistryInv
<1>2. CASE UNCHANGED website
  BY <1>2 DEF RowsStable
<1> QED
  BY <1>1, <1>2 DEF Next, Reload, ReadTable, Swap, ReloadFails, Resolve, Record, Restart, vars

\* A share token, once given out, stays that of its site while the site exists
\* (sites.go:165-178).
THEOREM ShareLinkKept == Spec => ShareLinkStable
<1> DEFINE Keeps == \A id \in DOMAIN website \cap DOMAIN website' :
                      website[id].share # None => website'[id].share = website[id].share
<1>1. RegistryInv /\ [Next]_vars => [Keeps]_vars
  BY RowsStableStep DEF RowsStable
<1> QED
  BY Inductive, <1>1, PTL DEF Spec, ShareLinkStable
=============================================================================
