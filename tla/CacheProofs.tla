----------------------------- MODULE CacheProofs -----------------------------
(***************************************************************************)
(* What the cache writes of one pull request and of a listing that is      *)
(* replaced as a whole, for any number of items, versions, page size,      *)
(* concurrent refreshes and changes at GitHub.                             *)
(*                                                                         *)
(* A stored validator stands for its rows because the pages of a fetch     *)
(* contain the first one, which the validator names; because all known     *)
(* check runs have the same validator, so that it does not matter which    *)
(* row it is read from; and because a fetch that was not overtaken read    *)
(* the validator that is still stored.                                     *)
(*                                                                         *)
(* The rows of a pull request are those of one response because a response *)
(* that a collection refuses leaves both the row and the record of what it *)
(* was taken from; a full refresh converges because nothing in the cache   *)
(* is newer than GitHub's last representation.                             *)
(***************************************************************************)
EXTENDS PullRequestCache, ConditionalListing, FiniteSetTheorems, WellFoundedInduction, TLAPS

\* A set of numbers has its minimum.
LEMMA MinIsMember ==
    ASSUME NEW S, S \subseteq Nat, S # {}
    PROVE  Min(S) \in S
<1>1. PICK x \in S : \A y \in S : ~(<<y, x>> \in OpToRel(<, Nat))
  BY Zenon, NatLessThanWellFounded, WFMin
<1>2. ASSUME NEW y \in S PROVE x <= y
  <2>1. x \in Nat /\ y \in Nat
    BY Zenon
  <2>2. ~(<<y, x>> \in {p \in Nat \X Nat : p[1] < p[2]})
    BY Zenon, <1>1 DEF OpToRel
  <2>3. QED
    BY <2>1, <2>2
<1>3. QED
  BY Zenon, <1>2 DEF Min

-----------------------------------------------------------------------------
(* The state of a listing                                                  *)

Tags == {NoTag} \cup ((SUBSET (Items \X Versions)) \X Nat)
Entries == Items \X Versions \X Nat
ItemRows == [state : {"none", "live", "dead"}, item : Versions \cup {Absent}, etag : Tags]
Fetches == [pc : {"idle", "metadata", "first", "next", "touch", "apply"},
            etag : Tags, page : Nat, all : SUBSET Entries, tag : Tags,
            overtaken : BOOLEAN]

ListingType ==
    /\ kind \in {"checks", "rules"}
    /\ listed \in [Items -> Versions \cup {Absent, Retired}]
    /\ row \in [Items -> ItemRows]
    /\ \A i \in Items : row[i].state = "live" => row[i].item \in Versions
    /\ syncState \in Tags
    /\ fetch \in [Fetchers -> Fetches]
    /\ excused \in BOOLEAN

\* The pages of a fetch are those of its validator.
PagesOfTag(f) ==
    /\ f.pc \in {"next", "apply"} /\ f.tag # NoTag =>
         /\ \A i \in Items, v \in Versions : <<i, v>> \in f.tag[1] => <<i, v, 1>> \in f.all
         /\ \A i \in Items, u, v \in Versions :
              <<i, u>> \in f.tag[1] /\ <<i, v>> \in f.tag[1] => u = v
    /\ f.pc = "next" => f.tag # NoTag /\ f.tag[2] > ListingPageSize
    /\ f.pc = "apply" /\ f.tag # NoTag /\ f.tag[2] <= ListingPageSize =>
         \A e \in f.all : <<e[1], e[2]>> \in f.tag[1]
    /\ f.pc = "apply" /\ f.tag = NoTag => f.all = {}
    /\ f.pc \in {"next", "apply"} /\ kind = "rules" =>
         f.tag # NoTag /\ f.tag[2] <= ListingPageSize
    /\ f.pc = "touch" => f.etag # NoTag
    /\ f.pc = "metadata" => kind = "rules"

\* A check fetch that was not overtaken read the validator that is stored.
ReadsStored ==
    \A w \in Fetchers :
      /\ kind = "checks" /\ ~fetch[w].overtaken
      /\ fetch[w].pc \in {"first", "next", "touch", "apply"}
      => fetch[w].etag = StoredTag

\* All known check runs have one validator.
OneTag ==
    kind = "checks" /\ ~excused =>
      \A i, j \in Items :
        row[i].state # "none" /\ row[j].state # "none" => row[i].etag = row[j].etag

\* The rows r are those the validator t names, or later ones.
Stands(t, r) ==
    /\ \A i \in Items, v \in Versions :
         <<i, v>> \in t[1] =>
           r[i].state = "live" /\ (r[i].item = v \/ r[i].item.at > v.at)
    /\ t[2] <= ListingPageSize =>
         \A i \in Items : r[i].state = "live" => \E v \in Versions : <<i, v>> \in t[1]

ListingInv ==
    /\ ListingType
    /\ \A w \in Fetchers : PagesOfTag(fetch[w])
    /\ ReadsStored
    /\ OneTag
    /\ ~excused /\ StoredTag # NoTag => Stands(StoredTag, row)
    /\ ListingIsAccounted

-----------------------------------------------------------------------------
(* What the operators give                                                 *)

\* The page size and the number of listed items are numbers.
LEMMA Counts ==
    ASSUME ListingType
    PROVE  /\ ListingPageSize \in Nat /\ Cardinality(Present) \in Nat
           /\ kind = "rules" => Cardinality(Present) <= ListingPageSize
<1>1. IsFiniteSet(Items) /\ Present \subseteq Items /\ PerPage \in Nat
  BY Zenon, ListingAssumption DEF Present
<1>2. Cardinality(Items) \in Nat /\ Cardinality(Present) \in Nat
         /\ Cardinality(Present) <= Cardinality(Items)
  BY Zenon, <1>1, FS_Subset, FS_CardinalityType
<1>3. QED
  BY Zenon, <1>1, <1>2 DEF ListingPageSize, ListingType

\* What GitHub says of the first page is a validator, of a set of items with
\* one version each.
LEMMA BodyIsTag ==
    ASSUME ListingType
    PROVE  /\ Body(1) \in Tags /\ Body(1) # NoTag
           /\ Body(1)[1] = ListingPage(1)
           /\ Body(1)[2] = IF kind = "checks" THEN Cardinality(Present) ELSE 0
           /\ \A i \in Items, v \in Versions :
                <<i, v>> \in ListingPage(1) <=> <<i, v, 1>> \in Heard(1)
           /\ \A i \in Items, u, v \in Versions :
                <<i, u>> \in ListingPage(1) /\ <<i, v>> \in ListingPage(1) => u = v
<1>1. \A j \in Present : j \in Items /\ listed[j] \in Versions
  BY Zenon DEF Present
<1>2. ListingPage(1) \in SUBSET (Items \X Versions)
  BY <1>1 DEF ListingPage
<1>3. Cardinality(Present) \in Nat
  BY Zenon, Counts
<1>4. Body(1) \in (SUBSET (Items \X Versions)) \X Nat
  BY Zenon, <1>2, <1>3 DEF Body
<1>5. Body(1) # NoTag
  BY Zenon DEF Body, NoTag
<1>6. \A i \in Items, v \in Versions :
         <<i, v>> \in ListingPage(1) <=> <<i, v, 1>> \in Heard(1)
  BY Zenon DEF ListingPage, Heard
<1>7. \A i \in Items, u, v \in Versions :
         <<i, u>> \in ListingPage(1) /\ <<i, v>> \in ListingPage(1) => u = v
  BY Zenon DEF ListingPage
<1>8. QED
  BY Zenon, <1>4, <1>5, <1>6, <1>7 DEF Body, Tags

\* The entries of a page.
LEMMA HeardIsEntries ==
    ASSUME ListingType, NEW n \in Nat
    PROVE  Heard(n) \in SUBSET Entries
  BY DEF Heard, Entries, Present

\* GetCheckRunsFetchMetadata reads the validator of a known row.
StoredFromRow ==
    \/ (\A i \in Items : row[i].state = "none") /\ StoredTag = NoTag
    \/ \E i \in Items : row[i].state # "none" /\ StoredTag = row[i].etag

\* A stored validator of a check listing is the tag of one of its rows.
LEMMA StoredIsOfARow ==
    kind = "checks" => StoredFromRow
<1> SUFFICES ASSUME kind = "checks" PROVE StoredFromRow
  BY Zenon
<1> DEFINE known == {i \in Items : row[i].state # "none"}
<1>1. CASE known = {}
  BY Zenon, <1>1 DEF StoredFromRow, StoredTag, GetCheckRunsFetchMetadata
<1>2. CASE known # {}
  <2>1. known \subseteq Nat
    BY Zenon, ListingAssumption
  <2>2. Min(known) \in known
    BY Zenon, <1>2, <2>1, MinIsMember
  <2>3. StoredTag = row[Min(known)].etag
    BY Zenon, <1>2 DEF StoredTag, GetCheckRunsFetchMetadata
  <2>4. QED
    BY Zenon, <2>2, <2>3 DEF StoredFromRow
<1>3. QED
  BY Zenon, <1>1, <1>2

\* What is stored is a validator.
LEMMA StoredInTags ==
    ASSUME ListingType
    PROVE  StoredTag \in Tags
<1>1. CASE kind = "checks"
  BY <1>1, StoredIsOfARow DEF StoredFromRow, ListingType, ItemRows, Tags
<1>2. CASE kind = "rules"
  BY Zenon, <1>2 DEF StoredTag, GetRepoRulesFetchMetadata, ListingType
<1>3. QED
  BY Zenon, <1>1, <1>2 DEF ListingType

\* What the replacing statement may leave in the row of item i: an entry, the
\* row as it was, or its tombstone.
Written(r, i, all, tag) ==
    \E e \in all : /\ e[1] = i /\ e[2] \in Versions
                   /\ r = [state |-> "live", item |-> e[2], etag |-> tag]
Kept(r, i, all) ==
    /\ r = row[i]
    /\ \A e \in all : e[1] = i => ~Accepts(row[i], e[2])
    /\ row[i].state = "live" => \E e \in all : e[1] = i
Dropped(r, i, all, tag) ==
    /\ row[i].state = "live" /\ \A e \in all : e[1] # i
    /\ r.state = "dead" /\ r.item = row[i].item /\ r.etag = tag

\* These are all it leaves.
LEMMA ReplacedRow ==
    ASSUME ListingType, NEW all \in SUBSET Entries, NEW tag \in Tags, NEW i \in Items,
           NEW r, r = Replaced(all, tag)[i]
    PROVE  /\ r \in ItemRows
           /\ Written(r, i, all, tag) \/ Kept(r, i, all) \/ Dropped(r, i, all, tag)
<1> DEFINE accepted == AcceptedEntries(all, i)
<1>1. CASE accepted # {}
  <2> DEFINE e == CHOOSE e \in accepted : TRUE
  <2>1. e \in accepted
    BY Zenon, <1>1
  <2>2. e \in all /\ e[1] = i /\ e[2] \in Versions
    BY Zenon, <2>1 DEF AcceptedEntries, Entries
  <2>3. r = [state |-> "live", item |-> e[2], etag |-> tag]
    BY Zenon, <1>1 DEF Replaced
  <2>4. r \in ItemRows
    BY <2>2, <2>3 DEF ItemRows
  <2>5. QED
    BY Zenon, <2>2, <2>3, <2>4 DEF Written
<1>2. CASE accepted = {} /\ row[i].state = "live" /\ \A e \in all : e[1] # i
  <2>1. r = [row[i] EXCEPT !.state = "dead", !.etag = tag]
    BY Zenon, <1>2 DEF Replaced
  <2>2. row[i] \in ItemRows
    BY Zenon DEF ListingType
  <2>3. r \in ItemRows /\ r.state = "dead" /\ r.item = row[i].item /\ r.etag = tag
    BY Zenon, <2>1, <2>2 DEF ItemRows
  <2>4. QED
    BY Zenon, <1>2, <2>3 DEF Dropped
<1>3. CASE accepted = {} /\ ~(row[i].state = "live" /\ \A e \in all : e[1] # i)
  <2>1. r = row[i]
    BY Zenon, <1>3 DEF Replaced
  <2>2. \A e \in all : e[1] = i => ~Accepts(row[i], e[2])
    BY Zenon, <1>3 DEF AcceptedEntries
  <2>3. Kept(r, i, all)
    BY Zenon, <1>3, <2>1, <2>2 DEF Kept
  <2>4. QED
    BY Zenon, <2>1, <2>3 DEF ListingType
<1>4. QED
  BY Zenon, <1>1, <1>2, <1>3

\* The rows of an applied listing stand for its validator.
LEMMA ReplacedStands ==
    ASSUME ListingType, NEW all \in SUBSET Entries, NEW tag \in Tags, tag # NoTag,
           \A i \in Items, v \in Versions : <<i, v>> \in tag[1] => <<i, v, 1>> \in all,
           tag[2] <= ListingPageSize => \A e \in all : <<e[1], e[2]>> \in tag[1],
           \A e, d \in all : e[1] = d[1] => e[2] = d[2]
    PROVE  Stands(tag, Replaced(all, tag))
<1> DEFINE rs == Replaced(all, tag)
<1>1. ASSUME NEW i \in Items, NEW v \in Versions, <<i, v>> \in tag[1]
      PROVE  rs[i].state = "live" /\ (rs[i].item = v \/ rs[i].item.at > v.at)
  <2> DEFINE d == <<i, v, 1>>
  <2>1. d \in all /\ d[1] = i /\ d[2] = v
    BY Zenon, <1>1
  <2>2. CASE Written(rs[i], i, all, tag)
    BY <2>1, <2>2 DEF Written
  <2>3. CASE Kept(rs[i], i, all)
    <3>1. ~Accepts(row[i], v) /\ rs[i] = row[i]
      BY Zenon, <2>1, <2>3 DEF Kept
    <3>2. row[i].state = "live" /\ row[i].item \in Versions
      BY Zenon, <3>1 DEF Accepts, ListingType
    <3>3. row[i].item.at \in Nat /\ v.at \in Nat
      BY Zenon, <3>2, ListingAssumption
    <3>4. row[i].item = v \/ row[i].item.at > v.at
      BY <3>1, <3>3 DEF Accepts
    <3>5. QED
      BY Zenon, <3>1, <3>2, <3>4
  <2>4. CASE Dropped(rs[i], i, all, tag)
    BY Zenon, <2>1, <2>4 DEF Dropped
  <2>5. QED
    BY Zenon, <2>2, <2>3, <2>4, ReplacedRow
<1>2. ASSUME tag[2] <= ListingPageSize, NEW i \in Items, rs[i].state = "live"
      PROVE  \E v \in Versions : <<i, v>> \in tag[1]
  <2>1. \E e \in all : e[1] = i
    <3>1. CASE Written(rs[i], i, all, tag)
      BY Zenon, <3>1 DEF Written
    <3>2. CASE Kept(rs[i], i, all)
      BY Zenon, <1>2, <3>2 DEF Kept
    <3>3. CASE Dropped(rs[i], i, all, tag)
      BY Zenon, <1>2, <3>3 DEF Dropped
    <3>4. QED
      BY Zenon, <3>1, <3>2, <3>3, ReplacedRow
  <2>2. PICK e \in all : e[1] = i
    BY Zenon, <2>1
  <2>3. e[2] \in Versions
    BY Zenon, <2>2 DEF Entries
  <2>4. QED
    BY Zenon, <1>2, <2>2, <2>3
<1>3. QED
  BY Zenon, <1>1, <1>2 DEF Stands

\* The types of the rows after an applied listing.
LEMMA ReplacedType ==
    ASSUME ListingType, NEW all \in SUBSET Entries, NEW tag \in Tags
    PROVE  /\ Replaced(all, tag) \in [Items -> ItemRows]
           /\ \A i \in Items : Replaced(all, tag)[i].state = "live" =>
                Replaced(all, tag)[i].item \in Versions
<1> DEFINE rs == Replaced(all, tag)
<1>1. ASSUME NEW i \in Items
      PROVE  rs[i] \in ItemRows /\ (rs[i].state = "live" => rs[i].item \in Versions)
  <2>1. rs[i] \in ItemRows
    BY Zenon, ReplacedRow
  <2>2. CASE Written(rs[i], i, all, tag)
    BY <2>1, <2>2 DEF Written
  <2>3. CASE Kept(rs[i], i, all)
    BY Zenon, <2>3 DEF Kept, ListingType
  <2>4. CASE Dropped(rs[i], i, all, tag)
    BY Zenon, <2>1, <2>4 DEF Dropped
  <2>5. QED
    BY Zenon, <2>2, <2>3, <2>4, ReplacedRow
<1>2. rs = [i \in Items |-> rs[i]]
  BY Zenon DEF Replaced
<1>3. QED
  BY Zenon, <1>1, <1>2

\* TouchCheckRunsCheckedAt changes validators only.
LEMMA TouchedRow ==
    ASSUME NEW rs \in [Items -> ItemRows], NEW tag \in Tags
    PROVE  /\ TouchCheckRuns(rs, tag) \in [Items -> ItemRows]
           /\ \A i \in Items :
                /\ TouchCheckRuns(rs, tag)[i].state = rs[i].state
                /\ TouchCheckRuns(rs, tag)[i].item = rs[i].item
                /\ TouchCheckRuns(rs, tag)[i].etag =
                     IF rs[i].state = "none" \/ tag = NoTag THEN rs[i].etag ELSE tag
<1> DEFINE t == TouchCheckRuns(rs, tag)
<1>1. ASSUME NEW i \in Items
      PROVE  /\ t[i] \in ItemRows
             /\ t[i].state = rs[i].state /\ t[i].item = rs[i].item
             /\ t[i].etag = IF rs[i].state = "none" \/ tag = NoTag THEN rs[i].etag ELSE tag
  <2>1. rs[i] \in ItemRows
    BY Zenon
  <2>2. t[i] = IF rs[i].state = "none" \/ tag = NoTag THEN rs[i]
               ELSE [rs[i] EXCEPT !.etag = tag]
    BY Zenon DEF TouchCheckRuns
  <2>3. QED
    BY Zenon, <2>1, <2>2 DEF ItemRows
<1>2. t = [i \in Items |-> t[i]]
  BY Zenon DEF TouchCheckRuns
<1>3. QED
  BY Zenon, <1>1, <1>2

\* What is visible after a commit is what the event announces, and every
\* check run it shows is in the history.
LEMMA Announces ==
    ASSUME ListingType, ListingIsAccounted, NEW all \in SUBSET Entries, NEW tag \in Tags,
           LET rs == Replaced(all, tag) IN
             /\ \A i \in Items : row'[i].state = rs[i].state /\ row'[i].item = rs[i].item
             /\ MarkAndEmit(rs)
             /\ history' = AppendAcceptedCheckHistory(rs, all) \/ kind # "checks",
           kind' = kind
    PROVE  ListingIsAccounted'
<1> DEFINE rs == Replaced(all, tag)
           live == {j \in Items : rs[j].state = "live"}
<1>1. VisibleItems' = {<<i, rs[i].item>> : i \in live}
  BY Zenon DEF VisibleItems
<1>2. announced' = VisibleItems'
  <2>1. CASE ChangedItems(rs) = {}
    <3>1. \A i \in Items : rs[i].state = row[i].state /\ rs[i].item = row[i].item
      BY Zenon, <2>1 DEF ChangedItems
    <3>2. live = {j \in Items : row[j].state = "live"}
      BY Zenon, <3>1
    <3>3. {<<i, rs[i].item>> : i \in live} = VisibleItems
      BY <3>1, <3>2 DEF VisibleItems
    <3>4. QED
      BY Zenon, <2>1, <3>3, <1>1 DEF MarkAndEmit, ListingIsAccounted
  <2>2. CASE ChangedItems(rs) # {}
    BY Zenon, <2>2, <1>1 DEF MarkAndEmit
  <2>3. QED
    BY Zenon, <2>1, <2>2
<1>3. ASSUME kind = "checks", NEW i \in live
      PROVE  <<i, rs[i].item>> \in history'
  <2>1. history' = history \cup {<<j, rs[j].item>> : j \in
                     {k \in ChangedItems(rs) : \E e \in all : e[1] = k /\ e[2] = rs[k].item}}
    BY Zenon, <1>3 DEF AppendAcceptedCheckHistory
  <2>2. CASE rs[i].state = row[i].state /\ rs[i].item = row[i].item
    <3>1. <<i, rs[i].item>> \in VisibleItems
      BY Zenon, <2>2 DEF VisibleItems
    <3>2. QED
      BY Zenon, <3>1, <2>1, <1>3 DEF ListingIsAccounted
  <2>3. CASE ~(rs[i].state = row[i].state /\ rs[i].item = row[i].item)
    <3>1. i \in ChangedItems(rs)
      BY Zenon, <2>3 DEF ChangedItems
    <3>2. \E e \in all : e[1] = i /\ e[2] = rs[i].item
      <4>1. ~Kept(rs[i], i, all)
        BY Zenon, <2>3 DEF Kept
      <4>2. ~Dropped(rs[i], i, all, tag)
        BY Zenon DEF Dropped
      <4>3. Written(rs[i], i, all, tag)
        BY Zenon, <4>1, <4>2, ReplacedRow
      <4>4. QED
        BY <4>3 DEF Written
    <3>3. QED
      BY Zenon, <2>1, <3>1, <3>2
  <2>4. QED
    BY Zenon, <2>2, <2>3
<1>4. QED
  BY Zenon, <1>1, <1>2, <1>3 DEF ListingIsAccounted

-----------------------------------------------------------------------------
(* The inductive invariant                                                 *)

\* A fetch moves on and the rows stay.
LEMMA FetchMoves ==
    ASSUME ListingInv, NEW w \in Fetchers, NEW f \in Fetches,
           fetch' = [fetch EXCEPT ![w] = f],
           UNCHANGED <<kind, listed, row, syncState, announced, history, excused>>,
           PagesOfTag(f),
           /\ kind = "checks" /\ ~f.overtaken
           /\ f.pc \in {"first", "next", "touch", "apply"}
           => f.etag = StoredTag
    PROVE  ListingInv'
<1>1. ListingType'
  BY Zenon DEF ListingInv, ListingType
<1>2. StoredTag' = StoredTag /\ ListingPageSize' = ListingPageSize
  BY Zenon DEF StoredTag, GetCheckRunsFetchMetadata, GetRepoRulesFetchMetadata, ListingPageSize
<1>3. \A x \in Fetchers : fetch'[x] = IF x = w THEN f ELSE fetch[x]
  BY Zenon DEF ListingInv, ListingType
<1>4. ASSUME NEW x \in Fetchers
      PROVE  PagesOfTag(fetch[x])'
  <2>1. PICK g : g = fetch'[x] /\ PagesOfTag(g)
    BY Zenon, <1>3 DEF ListingInv
  <2>2. PagesOfTag(g)'
    BY Zenon, <1>2, <2>1 DEF PagesOfTag
  <2>3. QED
    BY Zenon, <2>1, <2>2
<1>5. ReadsStored'
  BY <1>2, <1>3 DEF ReadsStored, ListingInv
<1>6. OneTag'
  BY Zenon DEF OneTag, ListingInv
<1>7. (~excused /\ StoredTag # NoTag => Stands(StoredTag, row))'
  BY Zenon, <1>2 DEF Stands, ListingInv
<1>8. ListingIsAccounted'
  BY Zenon DEF ListingIsAccounted, VisibleItems, ListingInv
<1>9. QED
  BY Zenon, <1>1, <1>4, <1>5, <1>6, <1>7, <1>8 DEF ListingInv

\* A commit ends its fetch and overtakes the others.
LEMMA Commits ==
    ASSUME ListingInv, NEW w \in Fetchers, Commit(w), kind' = kind
    PROVE  /\ fetch' \in [Fetchers -> Fetches]
           /\ (\A x \in Fetchers : PagesOfTag(fetch[x]))'
           /\ ReadsStored'
<1>1. ListingPageSize' = ListingPageSize
  BY Zenon DEF ListingPageSize
<1>2. ASSUME NEW x \in Fetchers
      PROVE  /\ fetch'[x] \in Fetches
             /\ PagesOfTag(fetch[x])'
             /\ fetch'[x].pc \in {"idle", "metadata"} \/ fetch'[x].overtaken
  <2>1. fetch[x] \in Fetches /\ PagesOfTag(fetch[x])
    BY Zenon DEF ListingInv, ListingType
  <2>2. CASE x = w
    <3>1. fetch'[x] = Idle
      BY Zenon, <2>2 DEF Commit
    <3>2. Idle \in Fetches /\ Idle.pc = "idle"
      BY Zenon DEF Idle, Fetches, Tags
    <3>3. QED
      BY Zenon, <3>1, <3>2 DEF PagesOfTag
  <2>3. CASE x # w /\ fetch[x].pc \in {"idle", "metadata"}
    <3>1. fetch'[x] = fetch[x]
      BY Zenon, <2>3 DEF Commit
    <3>2. QED
      BY Zenon, <2>1, <2>3, <3>1 DEF PagesOfTag
  <2>4. CASE x # w /\ fetch[x].pc \notin {"idle", "metadata"}
    <3>1. PICK f \in Fetches : f = fetch[x] /\ PagesOfTag(f)
      BY Zenon, <2>1
    <3>2. PICK g : g = [f EXCEPT !.overtaken = TRUE] /\ fetch'[x] = g
      BY Zenon, <2>4, <3>1 DEF Commit
    <3>3. /\ g \in Fetches /\ g.overtaken
          /\ g.pc = f.pc /\ g.etag = f.etag /\ g.all = f.all /\ g.tag = f.tag
      BY Zenon, <3>2 DEF Fetches
    <3>4. PagesOfTag(g)'
      BY Zenon, <1>1, <3>1, <3>3 DEF PagesOfTag
    <3>5. QED
      BY Zenon, <3>2, <3>3, <3>4
  <2>5. QED
    BY Zenon, <2>2, <2>3, <2>4
<1>3. fetch' \in [Fetchers -> Fetches]
  BY Zenon, <1>2 DEF Commit
<1>4. ReadsStored'
  <2>1. \A x \in Fetchers :
           ~(~fetch'[x].overtaken /\ fetch'[x].pc \in {"first", "next", "touch", "apply"})
    BY Zenon, <1>2
  <2>2. QED
    BY Zenon, <2>1 DEF ReadsStored
<1>5. QED
  BY Zenon, <1>2, <1>3, <1>4

\* The empty tables satisfy the invariant.
LEMMA ListingInvInit ==
    ListingInit => ListingInv
<1> SUFFICES ASSUME ListingInit PROVE ListingInv
  BY Zenon
<1>1. Idle \in Fetches /\ Idle.pc = "idle" /\ NoItemRow \in ItemRows
         /\ NoItemRow.state = "none"
  BY Zenon DEF Idle, Fetches, Tags, NoItemRow, ItemRows
<1>2. ListingType
  BY Zenon, <1>1 DEF ListingType, ListingInit, Tags
<1>3. \A i \in Items : row[i].state = "none"
  BY Zenon, <1>1 DEF ListingInit
<1>4. \A w \in Fetchers : fetch[w].pc = "idle"
  BY Zenon, <1>1 DEF ListingInit
<1>5. \A w \in Fetchers : PagesOfTag(fetch[w])
  BY Zenon, <1>4 DEF PagesOfTag
<1>6. ReadsStored
  BY Zenon, <1>4 DEF ReadsStored
<1>7. StoredTag = NoTag
  BY Zenon, <1>2, <1>3, StoredIsOfARow
     DEF StoredFromRow, StoredTag, GetRepoRulesFetchMetadata, ListingInit, ListingType
<1>8. ListingIsAccounted
  BY Zenon, <1>3 DEF ListingIsAccounted, VisibleItems, ListingInit
<1>9. QED
  BY Zenon, <1>2, <1>3, <1>5, <1>6, <1>7, <1>8 DEF ListingInv, OneTag

\* A fetch begins, or its pages are heard.
LEMMA Fetching ==
    ASSUME ListingInv, NEW w \in Fetchers,
           \/ ChecksMetadata(w) \/ RepoRulesMetadata(w) \/ BeginObservation(w)
           \/ FirstPage(w) \/ NextPage(w) \/ Superseded(w) \/ ApplyChecksFails(w)
    PROVE  ListingInv'
<1> DEFINE Reads(f) == /\ kind = "checks" /\ ~f.overtaken
                       /\ f.pc \in {"first", "next", "touch", "apply"}
                       => f.etag = StoredTag
<1>1. ListingType /\ StoredTag \in Tags /\ NoTag \in Tags
  BY Zenon, StoredInTags DEF ListingInv, Tags
<1>2. fetch[w] \in Fetches /\ PagesOfTag(fetch[w]) /\ Reads(fetch[w])
  BY Zenon, <1>1 DEF ListingInv, ListingType, ReadsStored
<1>3. Idle \in Fetches /\ Idle.pc = "idle" /\ PagesOfTag(Idle) /\ Reads(Idle)
  BY Zenon DEF Idle, Fetches, Tags, PagesOfTag
<1>4. UNCHANGED <<kind, listed, row, syncState, announced, history, excused>>
  BY Zenon DEF ChecksMetadata, RepoRulesMetadata, BeginObservation, FirstPage, NextPage,
         Superseded, ApplyChecksFails, Rest
<1>5. ASSUME NEW f \in Fetches, Move(w, f), PagesOfTag(f), Reads(f)
      PROVE  ListingInv'
  BY Zenon, <1>4, <1>5, FetchMoves DEF Move
<1>6. CASE ChecksMetadata(w)
  <2> DEFINE f == [Idle EXCEPT !.pc = "first", !.etag = GetCheckRunsFetchMetadata]
  <2>1. kind = "checks" /\ Move(w, f) /\ GetCheckRunsFetchMetadata = StoredTag
    BY Zenon, <1>6 DEF ChecksMetadata, StoredTag
  <2>2. f \in Fetches /\ f.pc = "first" /\ f.etag = StoredTag
    BY Zenon, <1>1, <2>1 DEF Idle, Fetches
  <2>3. PagesOfTag(f)
    BY Zenon, <2>2 DEF PagesOfTag
  <2>4. QED
    BY Zenon, <2>1, <2>2, <2>3, <1>5
<1>7. CASE RepoRulesMetadata(w)
  <2> DEFINE f == [Idle EXCEPT !.pc = "metadata", !.etag = GetRepoRulesFetchMetadata]
  <2>1. kind = "rules" /\ Move(w, f) /\ GetRepoRulesFetchMetadata \in Tags
    BY Zenon, <1>1, <1>7 DEF RepoRulesMetadata, GetRepoRulesFetchMetadata, ListingType
  <2>2. f \in Fetches /\ f.pc = "metadata"
    BY Zenon, <2>1, <1>1 DEF Idle, Fetches
  <2>3. PagesOfTag(f)
    BY Zenon, <2>1, <2>2 DEF PagesOfTag
  <2>4. QED
    BY Zenon, <2>1, <2>2, <2>3, <1>5
<1>8. CASE BeginObservation(w)
  <2>1. PICK f : f = [fetch[w] EXCEPT !.pc = "first"] /\ Move(w, f)
    BY Zenon, <1>8 DEF BeginObservation
  <2>2. f \in Fetches /\ f.pc = "first"
    BY Zenon, <2>1, <1>2 DEF Fetches
  <2>3. PagesOfTag(f)
    BY Zenon, <2>2 DEF PagesOfTag
  <2>4. kind = "rules"
    BY Zenon, <1>2, <1>8 DEF BeginObservation, PagesOfTag
  <2>5. QED
    BY Zenon, <2>1, <2>2, <2>3, <2>4, <1>5
<1>9. CASE Superseded(w) \/ ApplyChecksFails(w)
  <2>1. Move(w, Idle)
    BY Zenon, <1>9 DEF Superseded, ApplyChecksFails
  <2>2. QED
    BY Zenon, <2>1, <1>3, <1>5
<1>10. CASE FirstPage(w)
  <2>1. PICK f \in Fetches : f = fetch[w] /\ PagesOfTag(f) /\ Reads(f) /\ f.pc = "first"
    BY Zenon, <1>2, <1>10 DEF FirstPage
  <2>2. CASE lost
    <3>1. Move(w, NotFound(f))
      BY Zenon, <1>10, <2>1, <2>2 DEF FirstPage
    <3>2. CASE kind = "checks"
      <4>1. PICK g : g = [f EXCEPT !.pc = "apply", !.all = {}, !.tag = NoTag] /\ Move(w, g)
        BY Zenon, <3>1, <3>2 DEF NotFound
      <4>2. /\ g \in Fetches /\ g.pc = "apply" /\ g.all = {} /\ g.tag = NoTag
            /\ g.etag = f.etag /\ g.overtaken = f.overtaken
        BY Zenon, <4>1, <1>1 DEF Fetches
      <4>3. PagesOfTag(g) /\ Reads(g)
        BY Zenon, <4>2, <3>2, <2>1 DEF PagesOfTag
      <4>4. QED
        BY Zenon, <4>1, <4>2, <4>3, <1>5
    <3>3. CASE kind # "checks"
      BY Zenon, <3>1, <3>3, <1>3, <1>5 DEF NotFound
    <3>4. QED
      BY Zenon, <3>2, <3>3
  <2>3. CASE ~lost /\ f.etag = Body(1)
    <3>1. PICK g : g = [f EXCEPT !.pc = "touch"] /\ Move(w, g)
      BY Zenon, <1>10, <2>1, <2>3 DEF FirstPage
    <3>2. /\ g \in Fetches /\ g.pc = "touch" /\ g.etag = f.etag
          /\ g.overtaken = f.overtaken
      BY Zenon, <3>1 DEF Fetches
    <3>3. g.etag # NoTag
      BY Zenon, <3>2, <2>3, <1>1, BodyIsTag
    <3>4. PagesOfTag(g) /\ Reads(g)
      BY Zenon, <3>2, <3>3, <2>1 DEF PagesOfTag
    <3>5. QED
      BY Zenon, <3>1, <3>2, <3>4, <1>5
  <2>4. CASE ~lost /\ f.etag # Body(1)
    <3>1. PICK g : /\ g = [f EXCEPT !.pc = IF LastPage(1) THEN "apply" ELSE "next",
                                    !.page = 1, !.all = Heard(1), !.tag = Body(1)]
                   /\ Move(w, g)
      BY Zenon, <1>10, <2>1, <2>4 DEF FirstPage
    <3>2. Body(1) \in Tags /\ Body(1) # NoTag /\ Heard(1) \in SUBSET Entries
      BY Zenon, <1>1, BodyIsTag, HeardIsEntries
    <3>3. /\ g \in Fetches /\ g.pc = IF LastPage(1) THEN "apply" ELSE "next"
          /\ g.all = Heard(1) /\ g.tag = Body(1)
          /\ g.etag = f.etag /\ g.overtaken = f.overtaken
      BY Zenon, <3>1, <3>2 DEF Fetches
    <3>4. /\ \A i \in Items, v \in Versions : <<i, v>> \in g.tag[1] <=> <<i, v, 1>> \in g.all
          /\ \A i \in Items, u, v \in Versions :
               <<i, u>> \in g.tag[1] /\ <<i, v>> \in g.tag[1] => u = v
      BY <1>1, <3>3, BodyIsTag
    <3>5. ~LastPage(1) => g.tag[2] > ListingPageSize
      BY <1>1, <3>3, BodyIsTag, Counts DEF LastPage, ListingType
    <3>6. \A e \in g.all : <<e[1], e[2]>> \in g.tag[1]
      <4>1. \A e \in Heard(1) : <<e[1], e[2]>> \in ListingPage(1)
        BY DEF Heard, ListingPage
      <4>2. g.tag[1] = ListingPage(1)
        BY Zenon, <1>1, <3>3, BodyIsTag
      <4>3. QED
        BY Zenon, <4>1, <4>2, <3>3
    <3>7. /\ g.tag # NoTag /\ g.pc \in {"next", "apply"}
          /\ g.pc = "next" => g.tag[2] > ListingPageSize
          /\ kind = "rules" => g.tag[2] <= ListingPageSize
      BY <1>1, <3>2, <3>3, <3>5, BodyIsTag, Counts
    <3>8. PagesOfTag(g) /\ Reads(g)
      BY Zenon, <3>3, <3>4, <3>6, <3>7, <2>1 DEF PagesOfTag
    <3>9. QED
      BY Zenon, <3>1, <3>3, <3>8, <1>5
  <2>5. QED
    BY Zenon, <2>2, <2>3, <2>4
<1>11. CASE NextPage(w)
  <2>1. PICK f \in Fetches : f = fetch[w] /\ PagesOfTag(f) /\ Reads(f) /\ f.pc = "next"
    BY Zenon, <1>2, <1>11 DEF NextPage
  <2>2. CASE lost
    BY Zenon, <1>11, <2>1, <2>2, <1>3, <1>5 DEF NextPage
  <2>3. CASE ~lost
    <3>1. PICK n : n = f.page + 1
      BY Zenon
    <3>2. PICK g : /\ g = [f EXCEPT !.pc = IF LastPage(n) THEN "apply" ELSE "next",
                                    !.page = n, !.all = f.all \cup Heard(n)]
                   /\ Move(w, g)
      BY Zenon, <1>11, <2>1, <2>3, <3>1 DEF NextPage
    <3>3. n \in Nat /\ f.all \cup Heard(n) \in SUBSET Entries
      BY <1>1, <3>1, HeardIsEntries DEF Fetches
    <3>4. /\ g \in Fetches /\ g.pc = IF LastPage(n) THEN "apply" ELSE "next"
          /\ g.all = f.all \cup Heard(n) /\ g.tag = f.tag
          /\ g.etag = f.etag /\ g.overtaken = f.overtaken
      BY Zenon, <3>2, <3>3 DEF Fetches
    <3>5. f.tag # NoTag /\ f.tag[2] > ListingPageSize /\ f.tag[2] \in Nat
      BY Zenon, <2>1 DEF PagesOfTag, Fetches, Tags
    <3>6. ~(g.tag[2] <= ListingPageSize)
      BY <1>1, <3>4, <3>5, Counts
    <3>7. kind # "rules"
      BY <1>1, <2>1, <3>5, Counts DEF PagesOfTag
    <3>8. PagesOfTag(g) /\ Reads(g)
      BY Zenon, <2>1, <3>4, <3>5, <3>6, <3>7 DEF PagesOfTag
    <3>9. QED
      BY Zenon, <3>2, <3>4, <3>8, <1>5
  <2>4. QED
    BY Zenon, <2>2, <2>3
<1>12. QED
  BY Zenon, <1>6, <1>7, <1>8, <1>9, <1>10, <1>11

\* Rows with the same states and items stand for the same validators.
LEMMA StandsAlike ==
    ASSUME NEW t, NEW r, NEW s, Stands(t, r),
           \A i \in Items : s[i].state = r[i].state /\ s[i].item = r[i].item
    PROVE  Stands(t, s)
  BY Zenon DEF Stands

\* ApplyChecksObserved
LEMMA ApplyingChecks ==
    ASSUME ListingInv, NEW w \in Fetchers, ApplyChecks(w)
    PROVE  ListingInv'
<1>1. ListingType
  BY Zenon DEF ListingInv
<1>2. PICK f \in Fetches : f = fetch[w] /\ PagesOfTag(f) /\ f.pc = "apply"
  BY Zenon, <1>1 DEF ApplyChecks, ListingInv, ListingType
<1>3. f.all \in SUBSET Entries /\ f.tag \in Tags
  BY Zenon DEF Fetches
<1>4. PICK rs : rs = Replaced(f.all, f.tag)
  BY Zenon
<1>5. /\ rs \in [Items -> ItemRows]
      /\ \A i \in Items : rs[i].state = "live" => rs[i].item \in Versions
  BY Zenon, <1>1, <1>3, <1>4, ReplacedType
<1>6. /\ kind = "checks" /\ UNCHANGED <<kind, listed, syncState>>
      /\ row' = TouchCheckRuns(rs, f.tag)
      /\ MarkAndEmit(rs) /\ Commit(w)
      /\ history' = AppendAcceptedCheckHistory(rs, f.all)
      /\ excused' = (\/ excused
                     \/ f.tag = NoTag /\ \E i \in Items : row[i].state = "dead"
                     \/ \E e, d \in f.all : e[1] = d[1] /\ e[2] # d[2])
  BY Zenon, <1>2, <1>4 DEF ApplyChecks, ReplaceCheckRuns
<1>7. /\ row' \in [Items -> ItemRows]
      /\ \A i \in Items : /\ row'[i].state = rs[i].state /\ row'[i].item = rs[i].item
                          /\ row'[i].etag = IF rs[i].state = "none" \/ f.tag = NoTag
                                            THEN rs[i].etag ELSE f.tag
  BY <1>3, <1>5, <1>6, TouchedRow
<1>8. excused' \in BOOLEAN
  BY Zenon, <1>1, <1>6 DEF ListingType
<1>9. ListingType'
  BY Zenon, <1>1, <1>5, <1>6, <1>7, <1>8, Commits DEF ListingType
<1>10. OneTag' /\ (~excused /\ StoredTag # NoTag => Stands(StoredTag, row))'
  <2>1. CASE f.tag # NoTag
    <3>1. \A i \in Items : row'[i].state # "none" => row'[i].etag = f.tag
      BY Zenon, <1>7, <2>1
    <3>2. StoredTag' = NoTag \/ StoredTag' = f.tag
      <4>1. (kind = "checks")'
        BY Zenon, <1>6
      <4>2. StoredFromRow'
        BY <4>1, StoredIsOfARow, PTL
      <4>3. QED
        BY Zenon, <3>1, <4>2 DEF StoredFromRow
    <3>3. ASSUME ~excused' PROVE Stands(f.tag, row)'
      <4>1. \A e, d \in f.all : e[1] = d[1] => e[2] = d[2]
        BY Zenon, <1>6, <3>3
      <4>2. /\ \A i \in Items, v \in Versions : <<i, v>> \in f.tag[1] => <<i, v, 1>> \in f.all
            /\ f.tag[2] <= ListingPageSize => \A e \in f.all : <<e[1], e[2]>> \in f.tag[1]
        BY Zenon, <1>2, <2>1 DEF PagesOfTag
      <4>3. Stands(f.tag, rs)
        BY Zenon, <1>1, <1>3, <1>4, <2>1, <4>1, <4>2, ReplacedStands
      <4>4. PICK r : r = row' /\ Stands(f.tag, r)
        BY Zenon, <4>3, <1>7, StandsAlike
      <4>5. ListingPageSize' = ListingPageSize
        BY Zenon, <1>6 DEF ListingPageSize
      <4>6. QED
        BY Zenon, <4>4, <4>5 DEF Stands
    <3>4. OneTag'
      BY Zenon, <3>1 DEF OneTag
    <3>5. QED
      BY Zenon, <3>2, <3>3, <3>4
  <2>2. CASE f.tag = NoTag
    <3>1. ASSUME ~excused', NEW i \in Items, row'[i].state # "none"
          PROVE  row'[i].etag = NoTag
      <4>1. f.all = {} /\ row[i].state # "dead"
        BY Zenon, <1>2, <1>6, <2>2, <3>1 DEF PagesOfTag
      <4>2. row[i].state = "live"
        <5>1. CASE Kept(rs[i], i, f.all)
          BY Zenon, <5>1, <4>1, <3>1, <1>7, <1>1 DEF Kept, ListingType, ItemRows
        <5>2. CASE Dropped(rs[i], i, f.all, f.tag)
          BY Zenon, <5>2 DEF Dropped
        <5>3. ~Written(rs[i], i, f.all, f.tag)
          BY Zenon, <4>1 DEF Written
        <5>4. QED
          BY Zenon, <5>1, <5>2, <5>3, <1>1, <1>3, <1>4, ReplacedRow
      <4>3. Dropped(rs[i], i, f.all, f.tag)
        <5>1. ~Written(rs[i], i, f.all, f.tag) /\ ~Kept(rs[i], i, f.all)
          BY Zenon, <4>1, <4>2 DEF Written, Kept
        <5>2. QED
          BY Zenon, <5>1, <1>1, <1>3, <1>4, ReplacedRow
      <4>4. rs[i].etag = NoTag
        BY Zenon, <4>3, <2>2 DEF Dropped
      <4>5. QED
        BY Zenon, <4>4, <1>7, <2>2
    <3>2. OneTag'
      BY Zenon, <3>1 DEF OneTag
    <3>3. ~excused' => StoredTag' = NoTag
      <4>1. (kind = "checks")'
        BY Zenon, <1>6
      <4>2. StoredFromRow'
        BY <4>1, StoredIsOfARow, PTL
      <4>3. QED
        BY Zenon, <3>1, <4>2 DEF StoredFromRow
    <3>4. QED
      BY Zenon, <3>2, <3>3
  <2>3. QED
    BY Zenon, <2>1, <2>2
<1>11. ListingIsAccounted'
  BY Zenon, <1>1, <1>3, <1>4, <1>6, <1>7, Announces DEF ListingInv
<1>12. QED
  BY Zenon, <1>6, <1>9, <1>10, <1>11, Commits DEF ListingInv

\* ApplyRepoRulesObserved
LEMMA ApplyingRules ==
    ASSUME ListingInv, NEW w \in Fetchers, ApplyRepoRules(w)
    PROVE  ListingInv'
<1>1. ListingType
  BY Zenon DEF ListingInv
<1>2. PICK f \in Fetches : f = fetch[w] /\ PagesOfTag(f) /\ f.pc = "apply"
  BY Zenon, <1>1 DEF ApplyRepoRules, ListingInv, ListingType
<1>3. f.all \in SUBSET Entries /\ f.tag \in Tags
  BY Zenon DEF Fetches
<1>4. PICK rs : rs = Replaced(f.all, f.tag)
  BY Zenon
<1>5. /\ rs \in [Items -> ItemRows]
      /\ \A i \in Items : rs[i].state = "live" => rs[i].item \in Versions
  BY Zenon, <1>1, <1>3, <1>4, ReplacedType
<1>6. /\ kind = "rules" /\ UNCHANGED <<kind, listed, history, excused>>
      /\ row' = rs
      /\ syncState' = UpsertRepoRuleSyncState(f.tag)
      /\ MarkAndEmit(rs) /\ Commit(w)
  BY Zenon, <1>2, <1>4 DEF ApplyRepoRules, ReplaceRepoRules
<1>7. f.tag # NoTag /\ f.tag[2] \in Nat
  BY Zenon, <1>2, <1>3, <1>6 DEF PagesOfTag, Tags
<1>8. syncState' = f.tag
  BY Zenon, <1>6, <1>7 DEF UpsertRepoRuleSyncState
<1>9. ListingType'
  BY Zenon, <1>1, <1>3, <1>5, <1>6, <1>8, Commits DEF ListingType
<1>10. OneTag'
  BY Zenon, <1>6 DEF OneTag
<1>11. (~excused /\ StoredTag # NoTag => Stands(StoredTag, row))'
  <2>1. StoredTag' = f.tag
    BY Zenon, <1>6, <1>8 DEF StoredTag, GetRepoRulesFetchMetadata
  <2>2. f.tag[2] <= ListingPageSize
    BY Zenon, <1>2, <1>6 DEF PagesOfTag
  <2>3. /\ \A i \in Items, v \in Versions : <<i, v>> \in f.tag[1] => <<i, v, 1>> \in f.all
        /\ \A e \in f.all : <<e[1], e[2]>> \in f.tag[1]
        /\ \A i \in Items, u, v \in Versions :
             <<i, u>> \in f.tag[1] /\ <<i, v>> \in f.tag[1] => u = v
    BY Zenon, <1>2, <1>7, <2>2 DEF PagesOfTag
  <2>4. \A e \in f.all : e[1] \in Items /\ e[2] \in Versions
    BY Zenon, <1>3 DEF Entries
  <2>5. \A e, d \in f.all : e[1] = d[1] => e[2] = d[2]
    BY Zenon, <2>3, <2>4
  <2>6. Stands(f.tag, rs)
    BY Zenon, <1>1, <1>3, <1>4, <1>7, <2>3, <2>5, ReplacedStands
  <2>7. ListingPageSize' = ListingPageSize
    BY Zenon, <1>6 DEF ListingPageSize
  <2>8. Stands(f.tag, rs)'
    BY Zenon, <2>6, <2>7, <1>6 DEF Stands
  <2>9. QED
    BY Zenon, <2>1, <2>8, <1>6
<1>12. ListingIsAccounted'
  BY Zenon, <1>1, <1>3, <1>4, <1>6, Announces DEF ListingInv
<1>13. QED
  BY Zenon, <1>6, <1>9, <1>10, <1>11, <1>12, Commits DEF ListingInv

\* TouchChecks leaves the rows as they are, TouchRepoRules the validator.
LEMMA Touching ==
    ASSUME ListingInv, NEW w \in Fetchers, TouchChecks(w) \/ TouchRepoRules(w)
    PROVE  ListingInv'
<1>1. ListingType
  BY Zenon DEF ListingInv
<1>2. PICK f \in Fetches : /\ f = fetch[w] /\ PagesOfTag(f) /\ f.pc = "touch"
                           /\ ~f.overtaken
  BY Zenon, <1>1 DEF TouchChecks, TouchRepoRules, ListingInv, ListingType
<1>3. f.etag \in Tags /\ f.etag # NoTag
  BY Zenon, <1>2 DEF Fetches, PagesOfTag
<1>4. /\ Commit(w) /\ UNCHANGED <<kind, listed, announced, history>>
      /\ ListingPageSize' = ListingPageSize
  BY Zenon DEF TouchChecks, TouchRepoRules, ListingPageSize
<1>5. CASE TouchChecks(w)
  <2>1. /\ kind = "checks" /\ UNCHANGED <<syncState, excused>>
        /\ row' = TouchCheckRuns(row, f.etag)
    BY Zenon, <1>2, <1>5 DEF TouchChecks
  <2>2. f.etag = StoredTag
    BY Zenon, <1>2, <2>1 DEF ListingInv, ReadsStored
  <2>3. /\ row \in [Items -> ItemRows]
        /\ row' \in [Items -> ItemRows]
        /\ \A i \in Items : /\ row'[i].state = row[i].state /\ row'[i].item = row[i].item
                            /\ row'[i].state # "none" => row'[i].etag = f.etag
    BY <1>1, <1>3, <2>1, TouchedRow DEF ListingType
  <2>4. ListingType'
    BY Zenon, <1>1, <1>4, <2>1, <2>3, Commits DEF ListingType
  <2>5. StoredTag' = NoTag \/ StoredTag' = f.etag
    <3>1. (kind = "checks")'
      BY Zenon, <1>4, <2>1
    <3>2. StoredFromRow'
      BY <3>1, StoredIsOfARow, PTL
    <3>3. QED
      BY Zenon, <2>3, <3>2 DEF StoredFromRow
  <2>6. OneTag'
    BY Zenon, <2>3 DEF OneTag
  <2>7. ASSUME ~excused' PROVE Stands(f.etag, row)'
    <3>1. Stands(f.etag, row)
      BY Zenon, <1>3, <2>1, <2>2, <2>7 DEF ListingInv
    <3>2. PICK r : r = row' /\ Stands(f.etag, r)
      BY Zenon, <3>1, <2>3, StandsAlike
    <3>3. QED
      BY Zenon, <3>2, <1>4 DEF Stands
  <2>8. ListingIsAccounted'
    BY Zenon, <1>4, <2>3 DEF ListingInv, ListingIsAccounted, VisibleItems
  <2>9. QED
    BY Zenon, <1>4, <2>4, <2>5, <2>6, <2>7, <2>8, Commits DEF ListingInv
<1>6. CASE TouchRepoRules(w)
  <2>1. /\ kind = "rules" /\ row' = row
        /\ syncState' = UpsertRepoRuleSyncState(f.etag)
        /\ excused' = (excused \/ syncState # f.etag)
    BY Zenon, <1>2, <1>6 DEF TouchRepoRules
  <2>2. syncState' = f.etag
    BY Zenon, <2>1, <1>3 DEF UpsertRepoRuleSyncState
  <2>3. ListingType'
    BY Zenon, <1>1, <1>3, <1>4, <2>1, <2>2, Commits DEF ListingType
  <2>4. OneTag'
    BY Zenon, <1>4, <2>1 DEF OneTag
  <2>5. (~excused /\ StoredTag # NoTag => Stands(StoredTag, row))'
    <3>1. StoredTag = syncState /\ StoredTag' = f.etag
      BY Zenon, <1>4, <2>1, <2>2 DEF StoredTag, GetRepoRulesFetchMetadata
    <3>2. ASSUME ~excused' PROVE Stands(f.etag, row)'
      <4>1. ~excused /\ syncState = f.etag
        BY Zenon, <2>1, <3>2
      <4>2. Stands(f.etag, row)
        BY Zenon, <4>1, <3>1, <1>3 DEF ListingInv
      <4>3. QED
        BY Zenon, <4>2, <2>1, <1>4 DEF Stands
    <3>3. QED
      BY Zenon, <3>1, <3>2
  <2>6. ListingIsAccounted'
    BY Zenon, <1>4, <2>1 DEF ListingInv, ListingIsAccounted, VisibleItems
  <2>7. QED
    BY Zenon, <1>4, <2>3, <2>4, <2>5, <2>6, Commits DEF ListingInv
<1>7. QED
  BY Zenon, <1>5, <1>6

\* GitHub changes, or nothing does.
LEMMA ListingElsewhere ==
    ASSUME ListingInv,
           \/ \E i \in Items, v \in Versions \cup {Retired} : Edit(i, v)
           \/ Lose
           \/ UNCHANGED listingVars
    PROVE  ListingInv'
<1>1. UNCHANGED <<kind, row, syncState, fetch, announced, history, excused>>
  BY Zenon DEF Edit, Lose, listingVars
<1>2. listed' \in [Items -> Versions \cup {Absent, Retired}]
  BY Zenon DEF Edit, Lose, listingVars, ListingInv, ListingType
<1>3. StoredTag' = StoredTag /\ ListingPageSize' = ListingPageSize
  BY Zenon, <1>1 DEF StoredTag, GetCheckRunsFetchMetadata, GetRepoRulesFetchMetadata, ListingPageSize
<1>4. ListingType'
  BY Zenon, <1>1, <1>2 DEF ListingInv, ListingType
<1>5. (\A w \in Fetchers : PagesOfTag(fetch[w]))'
  BY ZenonT(120), <1>1, <1>3 DEF ListingInv, PagesOfTag
<1>6. ReadsStored' /\ OneTag'
  BY Zenon, <1>1, <1>3 DEF ListingInv, ReadsStored, OneTag
<1>7. (~excused /\ StoredTag # NoTag => Stands(StoredTag, row))'
  BY Zenon, <1>1, <1>3 DEF ListingInv, Stands
<1>8. ListingIsAccounted'
  BY Zenon, <1>1 DEF ListingInv, ListingIsAccounted, VisibleItems
<1>9. QED
  BY Zenon, <1>4, <1>5, <1>6, <1>7, <1>8 DEF ListingInv

\* Every step of a listing preserves the invariant.
LEMMA ListingInvNext ==
    ListingInv /\ [ListingNext]_listingVars => ListingInv'
<1> SUFFICES ASSUME ListingInv, [ListingNext]_listingVars PROVE ListingInv'
  BY Zenon
<1>1. CASE \/ \E i \in Items, v \in Versions \cup {Retired} : Edit(i, v)
           \/ Lose
           \/ UNCHANGED listingVars
  BY Zenon, <1>1, ListingElsewhere
<1>2. ASSUME NEW w \in Fetchers,
             \/ ChecksMetadata(w) \/ RepoRulesMetadata(w) \/ BeginObservation(w)
             \/ FirstPage(w) \/ NextPage(w) \/ Superseded(w) \/ ApplyChecksFails(w)
      PROVE  ListingInv'
  BY Zenon, <1>2, Fetching
<1>3. ASSUME NEW w \in Fetchers,
             \/ ApplyChecks(w) \/ ApplyRepoRules(w) \/ TouchChecks(w) \/ TouchRepoRules(w)
      PROVE  ListingInv'
  BY Zenon, <1>3, ApplyingChecks, ApplyingRules, Touching
<1>4. QED
  BY Zenon, <1>1, <1>2, <1>3 DEF ListingNext

\* The invariant gives what a 304 relies on.
LEMMA ListingInvConfirms ==
    ListingInv => ConfirmedListing
<1> SUFFICES ASSUME ListingInv, ~excused, StoredTag = Body(1)
             PROVE  /\ \A i \in {j \in Present : PageOf(j) = 1} :
                         row[i].state = "live"
                           /\ (row[i].item = listed[i] \/ row[i].item.at > listed[i].at)
                    /\ LastPage(1) =>
                         \A i \in Items : row[i].state = "live" => i \in Present
  BY Zenon DEF ConfirmedListing
<1>1. ListingType
  BY Zenon DEF ListingInv
<1>2. Body(1) # NoTag /\ Body(1)[1] = ListingPage(1)
  BY Zenon, <1>1, BodyIsTag
<1>3. Stands(Body(1), row)
  BY Zenon, <1>2 DEF ListingInv
<1>4. ASSUME NEW i \in Present, PageOf(i) = 1
      PROVE  row[i].state = "live"
               /\ (row[i].item = listed[i] \/ row[i].item.at > listed[i].at)
  <2>1. i \in Items /\ listed[i] \in Versions
    BY Zenon DEF Present
  <2>2. <<i, listed[i]>> \in ListingPage(1)
    BY Zenon, <1>4 DEF ListingPage
  <2>3. QED
    BY Zenon, <2>1, <2>2, <1>2, <1>3 DEF Stands
<1>5. ASSUME LastPage(1), NEW i \in Items, row[i].state = "live"
      PROVE  i \in Present
  <2>1. Body(1)[2] <= ListingPageSize
    BY <1>1, <1>5, BodyIsTag, Counts DEF LastPage
  <2>2. PICK v \in Versions : <<i, v>> \in ListingPage(1)
    BY Zenon, <2>1, <1>2, <1>3, <1>5 DEF Stands
  <2>3. QED
    BY Zenon, <2>2 DEF ListingPage
<1>6. QED
  BY Zenon, <1>4, <1>5

\* RefreshChecks and RefreshRepoRules: for any items, versions, page size and
\* number of concurrent refreshes, a stored validator that GitHub would answer
\* with 304 stands for the rows of the first page, and for all rows where that
\* page is the only one.
THEOREM ValidatorStandsForRows == ListingSpec => []ConfirmedListing
<1>1. ListingInit => ListingInv
  BY Zenon, ListingInvInit
<1>2. ListingInv /\ [ListingNext]_listingVars => ListingInv'
  BY Zenon, ListingInvNext
<1>3. ListingInv => ConfirmedListing
  BY Zenon, ListingInvConfirms
<1>4. QED
  BY <1>1, <1>2, <1>3, PTL DEF ListingSpec

\* ApplyChecksObserved and ApplyRepoRulesObserved: what consumers can see of a
\* listing was announced, and every check run ever shown is in the history.
THEOREM ListingsAreAccounted == ListingSpec => []ListingIsAccounted
<1>1. ListingInit => ListingInv
  BY Zenon, ListingInvInit
<1>2. ListingInv /\ [ListingNext]_listingVars => ListingInv'
  BY Zenon, ListingInvNext
<1>3. ListingInv => ListingIsAccounted
  BY Zenon DEF ListingInv
<1>4. QED
  BY <1>1, <1>2, <1>3, PTL DEF ListingSpec

-----------------------------------------------------------------------------
(* The rows of one pull request                                            *)

Representations == [stamp : Nat, head : Nat, own : {0, 1}, requests : {0, 1},
                    reviews : 0 .. 3, comments : Nat, threads : Nat]
ChildRows == [live : BOOLEAN, val : Nat, head : Nat]
SnapshotRows == [live : BOOLEAN, head : Nat, own : {0, 1}, stamp : Nat]
PullRows == [exists : BOOLEAN, live : BOOLEAN, stamp : Nat, head : Nat]

CacheType ==
    /\ hist \in Seq(Representations) /\ Len(hist) > 0
    /\ pr \in PullRows /\ snap \in SnapshotRows
    /\ rows \in [Collections -> ChildRows]
    /\ reported \in [Collections -> Nat]
    /\ \A c \in Collections : reported[c] <= Len(hist)

\* A version of a comment or thread, when GitHub has had len representations
\* and now has version cur: it is not newer than that, if there is one.
NotAhead(val, cur, len) == val <= len /\ (cur = 0 \/ val <= cur)

\* No representation is newer than the last.
HistoryGrows ==
    \A n \in 1 .. Len(hist) :
      /\ hist[n].stamp <= Latest.stamp /\ hist[n].reviews <= Latest.reviews
      /\ NotAhead(hist[n].comments, Latest.comments, Len(hist))
      /\ NotAhead(hist[n].threads, Latest.threads, Len(hist))

\* Nothing in the cache is newer than the last representation.
CacheNotAhead ==
    /\ pr.stamp <= Latest.stamp /\ snap.stamp <= Latest.stamp
    /\ rows["reviews"].val <= Latest.reviews
    /\ NotAhead(rows["comments"].val, Latest.comments, Len(hist))
    /\ NotAhead(rows["threads"].val, Latest.threads, Len(hist))

\* A row r is the row of a response that lists the item, 0 for none.
RowOf(r, item) ==
    /\ r.live => item > 0 /\ r.val >= item
    /\ item > 0 /\ item >= r.val => r.live

RowsAreReported ==
    \A c \in Guarded : reported[c] # 0 => RowOf(rows[c], ItemOf(hist[reported[c]], c))

CacheInv == CacheType /\ HistoryGrows /\ CacheNotAhead /\ RowsAreReported

\* The last representation is one of them.
LEMMA LatestIsLast ==
    ASSUME CacheType
    PROVE  /\ Len(hist) \in Nat /\ Len(hist) \in 1 .. Len(hist)
           /\ Latest \in Representations
           /\ \A n \in 1 .. Len(hist) : hist[n] \in Representations
  BY DEF CacheType, Latest

\* The first representation and the empty cache satisfy the invariant.
LEMMA CacheInvInit ==
    CacheInit => CacheInv
<1> SUFFICES ASSUME CacheInit PROVE CacheInv
  BY Zenon
<1> DEFINE first == [stamp |-> 1, head |-> 1, own |-> 0, requests |-> 0, reviews |-> 0,
                     comments |-> 0, threads |-> 0]
<1>1. hist = <<first>> /\ first \in Representations
  BY DEF CacheInit, Representations
<1>2. hist \in Seq(Representations) /\ Len(hist) = 1 /\ hist[1] = first
  BY <1>1
<1>3. NoRow \in ChildRows /\ NoRow.val = 0
  BY Zenon DEF NoRow, ChildRows
<1>4. /\ pr \in PullRows /\ snap \in SnapshotRows
      /\ pr.stamp = 0 /\ snap.stamp = 0
  BY Zenon DEF CacheInit, PullRows, SnapshotRows
<1>5. /\ rows \in [Collections -> ChildRows] /\ \A c \in Collections : rows[c].val = 0
      /\ reported \in [Collections -> Nat] /\ \A c \in Collections : reported[c] = 0
  BY Zenon, <1>3 DEF CacheInit
<1>6. CacheType
  BY <1>2, <1>4, <1>5 DEF CacheType
<1>7. Latest = first
  BY Zenon, <1>2 DEF Latest
<1>8. HistoryGrows
  BY <1>2, <1>7 DEF HistoryGrows, NotAhead
<1>9. CacheNotAhead
  BY <1>2, <1>4, <1>5, <1>7 DEF CacheNotAhead, NotAhead, Collections, Guarded
<1>10. RowsAreReported
  BY Zenon, <1>5 DEF RowsAreReported, Collections
<1>11. QED
  BY Zenon, <1>6, <1>8, <1>9, <1>10 DEF CacheInv

\* The fields of a representation.
LEMMA Fields ==
    ASSUME NEW x \in Representations
    PROVE  /\ x.stamp \in Nat /\ x.head \in Nat /\ x.own \in {0, 1}
           /\ x.requests \in {0, 1} /\ x.reviews \in 0 .. 3 /\ x.reviews \in Nat
           /\ x.comments \in Nat /\ x.threads \in Nat
  BY DEF Representations

\* Orders of stamps compose.
LEMMA NotBefore ==
    ASSUME NEW a \in Nat, NEW b \in Nat, NEW c \in Nat, a <= b, c >= b
    PROVE  a <= c
  OBVIOUS

\* GitHub moves on to a representation x.
LEMMA GitHubMoves ==
    ASSUME CacheInv, NEW x \in Representations, hist' = Append(hist, x),
           UNCHANGED cacheVars,
           x.stamp >= Latest.stamp, x.reviews >= Latest.reviews,
           x.comments \in {0, Latest.comments, Len(hist)},
           x.threads \in {0, Latest.threads, Len(hist)}
    PROVE  CacheInv'
<1>1. CacheType /\ HistoryGrows /\ CacheNotAhead /\ RowsAreReported
  BY Zenon DEF CacheInv
<1>2. /\ Len(hist) \in Nat /\ Len(hist) > 0 /\ Latest \in Representations
      /\ \A n \in 1 .. Len(hist) : hist[n] \in Representations
  BY <1>1, LatestIsLast
<1>3. /\ hist' \in Seq(Representations) /\ Len(hist') = Len(hist) + 1
      /\ hist'[Len(hist) + 1] = x
      /\ \A n \in 1 .. Len(hist) : hist'[n] = hist[n]
  BY <1>1 DEF CacheType
<1>4. Latest' = x
  BY Zenon, <1>2, <1>3 DEF Latest
<1>5. UNCHANGED <<pr, rows, snap, reported>>
  BY Zenon DEF cacheVars
<1>6. CacheType'
  BY <1>1, <1>2, <1>3, <1>5 DEF CacheType
<1>7. ASSUME NEW val \in Nat, NEW cur \in Nat, NEW next \in {0, cur, Len(hist)},
             NotAhead(val, cur, Len(hist))
      PROVE  NotAhead(val, next, Len(hist'))
  BY <1>2, <1>3, <1>7 DEF NotAhead
<1>8. HistoryGrows'
  <2>1. ASSUME NEW n \in 1 .. Len(hist'), NEW a, a = hist'[n]
        PROVE  /\ a.stamp <= x.stamp /\ a.reviews <= x.reviews
               /\ NotAhead(a.comments, x.comments, Len(hist'))
               /\ NotAhead(a.threads, x.threads, Len(hist'))
    <3>1. CASE n \in 1 .. Len(hist)
      <4>1. a \in Representations /\ a = hist[n]
        BY Zenon, <1>2, <1>3, <2>1, <3>1
      <4>2. /\ a.stamp <= Latest.stamp /\ a.reviews <= Latest.reviews
            /\ NotAhead(a.comments, Latest.comments, Len(hist))
            /\ NotAhead(a.threads, Latest.threads, Len(hist))
        BY Zenon, <1>1, <3>1, <4>1 DEF HistoryGrows
      <4>3. /\ a.comments \in Nat /\ a.threads \in Nat
            /\ Latest.comments \in Nat /\ Latest.threads \in Nat
        BY Zenon, <1>2, <4>1 DEF Representations
      <4>4. a.stamp <= x.stamp /\ a.reviews <= x.reviews
        <5>1. /\ a.stamp \in Nat /\ Latest.stamp \in Nat /\ x.stamp \in Nat
              /\ a.reviews \in Nat /\ Latest.reviews \in Nat /\ x.reviews \in Nat
          BY <1>2, <4>1, Fields, Zenon
        <5>2. QED
          BY <4>2, <5>1, NotBefore, Zenon
      <4>5. QED
        BY Zenon, <1>7, <4>2, <4>3, <4>4
    <3>2. CASE n = Len(hist) + 1
      <4>1. a = x
        BY Zenon, <1>3, <2>1, <3>2
      <4>2. /\ Latest.comments <= Len(hist) /\ Latest.threads <= Len(hist)
            /\ Latest.comments \in Nat /\ Latest.threads \in Nat
        BY Zenon, <1>1, <1>2, LatestIsLast DEF HistoryGrows, NotAhead, Latest, Representations
      <4>3. a.comments <= Len(hist') /\ a.threads <= Len(hist')
        BY <1>2, <1>3, <4>1, <4>2
      <4>4. QED
        BY <4>1, <4>3 DEF NotAhead, Representations
    <3>3. QED
      BY <1>2, <1>3, <2>1, <3>1, <3>2
  <2>2. QED
    BY Zenon, <1>4, <2>1 DEF HistoryGrows
<1>9. CacheNotAhead'
  <2>1. /\ pr.stamp \in Nat /\ snap.stamp \in Nat
        /\ rows["reviews"].val \in Nat /\ rows["comments"].val \in Nat
        /\ rows["threads"].val \in Nat
    BY Zenon, <1>1 DEF CacheType, PullRows, SnapshotRows, ChildRows, Collections, Guarded
  <2>2. /\ Latest.stamp \in Nat /\ Latest.reviews \in Nat
        /\ Latest.comments \in Nat /\ Latest.threads \in Nat
        /\ x.stamp \in Nat /\ x.reviews \in Nat
    BY <1>2 DEF Representations
  <2>3. /\ pr.stamp <= x.stamp /\ snap.stamp <= x.stamp
        /\ rows["reviews"].val <= x.reviews
    BY <1>1, <2>1, <2>2, NotBefore, Zenon DEF CacheNotAhead
  <2>4. /\ NotAhead(rows["comments"].val, x.comments, Len(hist'))
        /\ NotAhead(rows["threads"].val, x.threads, Len(hist'))
    BY Zenon, <1>1, <1>7, <2>1, <2>2 DEF CacheNotAhead
  <2>5. QED
    BY Zenon, <1>4, <1>5, <2>3, <2>4 DEF CacheNotAhead
<1>10. RowsAreReported'
  <2>1. \A c \in Guarded : reported[c] # 0 => hist'[reported[c]] = hist[reported[c]]
    BY <1>1, <1>2, <1>3 DEF CacheType, Collections
  <2>2. QED
    BY Zenon, <1>1, <1>5, <2>1 DEF RowsAreReported, ItemOf, FileOf, OwnerOf
<1>11. QED
  BY Zenon, <1>6, <1>8, <1>9, <1>10 DEF CacheInv

\* A change with a newer or an equal stamp is a representation.
LEMMA Bumped ==
    ASSUME NEW now \in Representations, NEW bump \in 0 .. 1,
           NEW x, x = [now EXCEPT !.stamp = now.stamp + bump]
    PROVE  /\ x \in Representations /\ x.stamp >= now.stamp
           /\ x.reviews = now.reviews /\ x.comments = now.comments /\ x.threads = now.threads
  BY DEF Representations

\* Every change at GitHub is such a move.
LEMMA GitHubChanges ==
    ASSUME CacheInv,
           \/ PushCommit \/ OwnersChange \/ Request \/ Review
           \/ \E c \in {"comments", "threads"} : Converse(c)
    PROVE  CacheInv'
<1>1. PICK cur \in Representations : cur = Latest
  BY Zenon, LatestIsLast DEF CacheInv
<1>2. Len(hist) \in Nat
  BY Zenon, LatestIsLast DEF CacheInv
<1>3. ASSUME NEW now \in Representations, NEW bump \in 0 .. 1, Changed(now, bump),
             now.stamp = cur.stamp, now.reviews >= cur.reviews,
             now.comments \in {0, cur.comments, Len(hist)},
             now.threads \in {0, cur.threads, Len(hist)}
      PROVE  CacheInv'
  <2>1. PICK x : x = [now EXCEPT !.stamp = now.stamp + bump] /\ hist' = Append(hist, x)
    BY Zenon, <1>3 DEF Changed
  <2>2. UNCHANGED cacheVars
    BY Zenon, <1>3 DEF Changed
  <2>3. /\ x \in Representations /\ x.stamp >= cur.stamp
        /\ x.reviews = now.reviews /\ x.comments = now.comments /\ x.threads = now.threads
    BY <1>3, <2>1, Bumped, Zenon
  <2>4. QED
    BY Zenon, <1>1, <1>3, <2>1, <2>2, <2>3, GitHubMoves
<1>4. CASE PushCommit
  <2>1. PICK now : now = [cur EXCEPT !.head = cur.head + 1] /\ Changed(now, 1)
    BY Zenon, <1>1, <1>4 DEF PushCommit
  <2>2. /\ now \in Representations /\ now.stamp = cur.stamp /\ now.reviews >= cur.reviews
        /\ now.comments \in {0, cur.comments, Len(hist)}
        /\ now.threads \in {0, cur.threads, Len(hist)}
    BY <2>1 DEF Representations
  <2>3. 0 \in 0 .. 1 /\ 1 \in 0 .. 1
    OBVIOUS
  <2>4. QED
    BY <2>1, <2>2, <2>3, <1>3, Zenon
<1>5. CASE OwnersChange
  <2>1. PICK now : now = [cur EXCEPT !.own = 1 - cur.own] /\ Changed(now, 0)
    BY Zenon, <1>1, <1>5 DEF OwnersChange
  <2>2. /\ now \in Representations /\ now.stamp = cur.stamp /\ now.reviews >= cur.reviews
        /\ now.comments \in {0, cur.comments, Len(hist)}
        /\ now.threads \in {0, cur.threads, Len(hist)}
    BY <2>1 DEF Representations
  <2>3. 0 \in 0 .. 1 /\ 1 \in 0 .. 1
    OBVIOUS
  <2>4. QED
    BY <2>1, <2>2, <2>3, <1>3, Zenon
<1>6. CASE Request
  <2>1. PICK bump \in 0 .. 1 : Changed([cur EXCEPT !.requests = 1 - cur.requests], bump)
    BY Zenon, <1>1, <1>6 DEF Request
  <2>2. PICK now : now = [cur EXCEPT !.requests = 1 - cur.requests] /\ Changed(now, bump)
    BY <2>1, Zenon
  <2>3. /\ now \in Representations /\ now.stamp = cur.stamp /\ now.reviews >= cur.reviews
        /\ now.comments \in {0, cur.comments, Len(hist)}
        /\ now.threads \in {0, cur.threads, Len(hist)}
    BY <2>2 DEF Representations
  <2>4. QED
    BY <2>2, <2>3, <1>3, Zenon
<1>7. CASE Review
  <2>1. PICK now : /\ now = [cur EXCEPT !.reviews = cur.reviews + 1] /\ Changed(now, 1)
                   /\ cur.reviews < 3
    BY Zenon, <1>1, <1>7 DEF Review
  <2>2. /\ now \in Representations /\ now.stamp = cur.stamp /\ now.reviews >= cur.reviews
        /\ now.comments \in {0, cur.comments, Len(hist)}
        /\ now.threads \in {0, cur.threads, Len(hist)}
    BY <2>1 DEF Representations
  <2>3. 0 \in 0 .. 1 /\ 1 \in 0 .. 1
    OBVIOUS
  <2>4. QED
    BY <2>1, <2>2, <2>3, <1>3, Zenon
<1>8. ASSUME NEW c \in {"comments", "threads"}, Converse(c)
      PROVE  CacheInv'
  <2>1. PICK bump \in 0 .. 1, v \in {0, Len(hist)} : Changed([cur EXCEPT ![c] = v], bump)
    BY Zenon, <1>1, <1>8 DEF Converse
  <2>2. v \in Nat
    BY <1>2, <2>1
  <2>3. PICK now : now = [cur EXCEPT ![c] = v] /\ Changed(now, bump)
    BY <2>1, Zenon
  <2>4. /\ now \in Representations /\ now.stamp = cur.stamp /\ now.reviews >= cur.reviews
        /\ now.comments \in {0, cur.comments, Len(hist)}
        /\ now.threads \in {0, cur.threads, Len(hist)}
    <3>1. CASE c = "comments"
      BY <2>2, <2>3, <3>1 DEF Representations
    <3>2. CASE c = "threads"
      BY <2>2, <2>3, <3>2 DEF Representations
    <3>3. QED
      BY Zenon, <3>1, <3>2
  <2>5. QED
    BY Zenon, <2>3, <2>4, <1>3
<1>9. QED
  BY Zenon, <1>4, <1>5, <1>6, <1>7, <1>8

\* TombstonePullRequestObserved
LEMMA PullTombstones ==
    ASSUME CacheInv, Tombstone
    PROVE  CacheInv'
<1>1. CacheType /\ HistoryGrows /\ CacheNotAhead /\ RowsAreReported
  BY Zenon DEF CacheInv
<1>2. hist' = hist
  BY Zenon DEF Tombstone
<1>3. CASE pr.live
  <2>1. /\ pr' = [pr EXCEPT !.live = FALSE] /\ snap' = [snap EXCEPT !.live = FALSE]
        /\ reported' = [c \in Collections |-> 0]
    BY Zenon, <1>3 DEF Tombstone, TombstonePullRequest, TombstonePullRequestChangeSnapshot
  <2>2. ASSUME NEW c \in Collections
        PROVE  rows'[c] \in ChildRows /\ rows'[c].val = rows[c].val
    <3>1. rows'[c] = rows[c] \/ rows'[c] = Tombstoned(rows[c])
      BY Zenon, <1>1, <1>3 DEF Tombstone, TombstonePullRequestReviewRequests,
         TombstonePullRequestReviews, TombstonePullRequestComments,
         TombstonePullRequestFileOwners, TombstonePullRequestChangedFiles, CacheType
    <3>2. rows[c] \in ChildRows
      BY Zenon, <1>1 DEF CacheType
    <3>3. QED
      BY Zenon, <3>1, <3>2 DEF Tombstoned, ChildRows
  <2>3. rows' \in [Collections -> ChildRows]
    <3>1. rows' = [c \in Collections |-> rows'[c]]
      BY Zenon, <1>1, <1>3 DEF Tombstone, CacheType
    <3>2. QED
      BY Zenon, <2>2, <3>1
  <2>4. /\ pr' \in PullRows /\ snap' \in SnapshotRows
        /\ pr'.stamp = pr.stamp /\ snap'.stamp = snap.stamp
    BY Zenon, <1>1, <2>1 DEF CacheType, PullRows, SnapshotRows
  <2>5. CacheType'
    BY <1>1, <1>2, <2>1, <2>3, <2>4 DEF CacheType
  <2>6. HistoryGrows' /\ Latest' = Latest
    BY Zenon, <1>1, <1>2 DEF HistoryGrows, Latest
  <2>7. CacheNotAhead'
    BY Zenon, <1>1, <1>2, <2>2, <2>4, <2>6 DEF CacheNotAhead, Collections, Guarded
  <2>8. RowsAreReported'
    BY Zenon, <2>1 DEF RowsAreReported, Collections
  <2>9. QED
    BY Zenon, <2>5, <2>6, <2>7, <2>8 DEF CacheInv
<1>4. CASE ~pr.live
  <2>1. UNCHANGED <<hist, pr, rows, snap, reported>>
    BY Zenon, <1>4 DEF Tombstone
  <2>2. QED
    BY Zenon, <1>1, <2>1 DEF CacheInv, CacheType, HistoryGrows, CacheNotAhead, RowsAreReported,
       Latest, ItemOf, FileOf, OwnerOf
<1>5. QED
  BY Zenon, <1>3, <1>4

\* The item a response lists in a collection, 0 for none.
LEMMA ItemsAreNaturals ==
    ASSUME NEW x \in Representations
    PROVE  FileOf(x) \in Nat /\ OwnerOf(x) \in Nat /\ \A c \in Collections : ItemOf(x, c) \in Nat
<1>1. x.head \in Nat /\ x.own \in {0, 1}
  BY Zenon, Fields
<1>2. FileOf(x) \in Nat
  BY <1>1 DEF FileOf
<1>3. OwnerOf(x) \in Nat
  BY <1>1, <1>2 DEF OwnerOf
<1>4. \A c \in Collections : ItemOf(x, c) \in Nat
  BY <1>2, <1>3, Fields DEF ItemOf, Collections, Guarded
<1>5. QED
  BY Zenon, <1>2, <1>3, <1>4

\* What the query of one collection may make of its row, when the response
\* lists item, is eligible, not older than the row, and of that head.
Replaces(out, was, item, eligible, newer, head) ==
    /\ out \in ChildRows /\ out.val \in {was.val, item}
    /\ ~eligible => out = was
    /\ eligible => RowOf(out, item)
    /\ eligible /\ item = 0 => ~out.live
    /\ eligible /\ item > 0 /\ newer => out = [live |-> TRUE, val |-> item, head |-> head]

\* A tombstoned row keeps its value.
LEMMA RowIsTombstoned ==
    ASSUME NEW was \in ChildRows
    PROVE  Tombstoned(was) \in ChildRows /\ Tombstoned(was).val = was.val /\ ~Tombstoned(was).live
  BY Zenon DEF Tombstoned, ChildRows

\* An upserted row holds the item.
LEMMA RowIsUpserted ==
    ASSUME NEW p \in PullRows, NEW item \in Nat
    PROVE  /\ Upserted(p, item) \in ChildRows /\ Upserted(p, item).val = item
           /\ Upserted(p, item).live
           /\ Upserted(p, item) = [live |-> TRUE, val |-> item, head |-> p.head]
  BY Zenon DEF Upserted, ChildRows, PullRows

\* The four things a query does to a row.
LEMMA QueryOutcomes ==
    ASSUME NEW p \in PullRows, NEW was \in ChildRows, NEW item \in Nat,
           NEW eligible \in BOOLEAN, NEW newer \in BOOLEAN
    PROVE  /\ ~eligible => Replaces(was, was, item, eligible, newer, p.head)
           /\ item = 0 => Replaces(Tombstoned(was), was, item, TRUE, newer, p.head)
           /\ item > 0 => Replaces(Upserted(p, item), was, item, TRUE, newer, p.head)
           /\ item > 0 /\ ~(item >= was.val) =>
                Replaces(was, was, item, TRUE, item >= was.val, p.head)
<1>1. was.val \in Nat
  BY Zenon DEF ChildRows
<1>2. ~eligible => Replaces(was, was, item, eligible, newer, p.head)
  BY Zenon DEF Replaces
<1>3. item = 0 => Replaces(Tombstoned(was), was, item, TRUE, newer, p.head)
  BY RowIsTombstoned DEF Replaces, RowOf
<1>4. item > 0 => Replaces(Upserted(p, item), was, item, TRUE, newer, p.head)
  BY RowIsUpserted DEF Replaces, RowOf
<1>5. item > 0 /\ ~(item >= was.val) =>
        Replaces(was, was, item, TRUE, item >= was.val, p.head)
  BY <1>1 DEF Replaces, RowOf
<1>6. QED
  BY Zenon, <1>2, <1>3, <1>4, <1>5

\* Each conversation query replaces its row when its guard holds.
LEMMA ConversationQueries ==
    ASSUME NEW p \in PullRows, NEW was \in ChildRows, NEW x \in Representations
    PROVE  /\ Replaces(ReplaceReviewRequests(p, was, x), was, x.requests, Eligible(p, x),
                       TRUE, p.head)
           /\ Replaces(ReplaceReviews(p, was, x), was, x.reviews, Eligible(p, x),
                       x.reviews >= was.val, p.head)
           /\ Replaces(ReplaceComments(p, was, x), was, x.comments, Eligible(p, x),
                       x.comments >= was.val, p.head)
           /\ Replaces(ReplaceReviewThreads(p, was, x), was, x.threads, TRUE,
                       x.threads >= was.val, p.head)
<1>1. /\ x.requests \in Nat /\ x.reviews \in Nat /\ x.comments \in Nat /\ x.threads \in Nat
      /\ \A item \in Nat : item > 0 \/ item = 0
      /\ ~(0 > 0)
  BY Fields
<1>2. \A item \in Nat : (item >= was.val) \in BOOLEAN
  BY DEF ChildRows
<1>3. Eligible(p, x) = TRUE \/ Eligible(p, x) = FALSE
  BY Zenon DEF Eligible
<1>4. Replaces(ReplaceReviewRequests(p, was, x), was, x.requests, Eligible(p, x), TRUE, p.head)
  BY <1>1, <1>3, QueryOutcomes, Zenon DEF ReplaceReviewRequests
<1>5. Replaces(ReplaceReviews(p, was, x), was, x.reviews, Eligible(p, x),
               x.reviews >= was.val, p.head)
  BY <1>1, <1>2, <1>3, QueryOutcomes, Zenon DEF ReplaceReviews
<1>6. Replaces(ReplaceComments(p, was, x), was, x.comments, Eligible(p, x),
               x.comments >= was.val, p.head)
  BY <1>1, <1>2, <1>3, QueryOutcomes, Zenon DEF ReplaceComments
<1>7. Replaces(ReplaceReviewThreads(p, was, x), was, x.threads, TRUE,
               x.threads >= was.val, p.head)
  BY <1>1, <1>2, QueryOutcomes, Zenon DEF ReplaceReviewThreads
<1>8. QED
  BY Zenon, <1>4, <1>5, <1>6, <1>7

\* So does each query of a change snapshot.
LEMMA ChangeQueries ==
    ASSUME NEW s \in SnapshotRows, NEW was \in ChildRows, NEW x \in Representations
    PROVE  /\ Replaces(ReplaceChangedFiles(s, was, x), was, FileOf(x), SnapshotEligible(s, x),
                       TRUE, x.head)
           /\ Replaces(ReplaceFileOwners(s, was, x), was, OwnerOf(x), SnapshotEligible(s, x),
                       TRUE, x.head)
<1>1. FileOf(x) \in Nat /\ OwnerOf(x) \in Nat /\ x.head \in Nat /\ was.val \in Nat
  BY Zenon, Fields, ItemsAreNaturals DEF ChildRows
<1>2. /\ Tombstoned(was) \in ChildRows /\ Tombstoned(was).val = was.val
      /\ ~Tombstoned(was).live
  BY Zenon, RowIsTombstoned
<1>3. \A item \in Nat : [live |-> TRUE, val |-> item, head |-> x.head] \in ChildRows
  BY Zenon, <1>1 DEF ChildRows
<1>4. Replaces(ReplaceChangedFiles(s, was, x), was, FileOf(x), SnapshotEligible(s, x),
               TRUE, x.head)
  BY SMTT(60), <1>1, <1>2, <1>3 DEF Replaces, RowOf, ReplaceChangedFiles
<1>5. Replaces(ReplaceFileOwners(s, was, x), was, OwnerOf(x), SnapshotEligible(s, x),
               TRUE, x.head)
  BY SMTT(60), <1>1, <1>2, <1>3 DEF Replaces, RowOf, ReplaceFileOwners
<1>6. QED
  BY Zenon, <1>4, <1>5

\* The rows of the pull request and of its snapshot after a response.
LEMMA PullIsUpserted ==
    ASSUME pr \in PullRows, NEW x \in Representations
    PROVE  /\ UpsertPullRequest(x) \in PullRows
           /\ UpsertPullRequest(x).stamp \in {pr.stamp, x.stamp}
           /\ pr.stamp <= x.stamp =>
                /\ UpsertPullRequest(x).live /\ UpsertPullRequest(x).stamp = x.stamp
                /\ UpsertPullRequest(x).head = x.head
  BY Fields DEF UpsertPullRequest, WriteIfNewer, PullRows

\* The upserted snapshot, and when it is eligible for its files.
LEMMA SnapshotIsUpserted ==
    ASSUME snap \in SnapshotRows, NEW p \in PullRows, NEW x \in Representations
    PROVE  /\ UpsertChangeSnapshot(p, x) \in SnapshotRows
           /\ UpsertChangeSnapshot(p, x).stamp \in {snap.stamp, x.stamp}
           /\ p.live /\ p.stamp = x.stamp /\ p.head = x.head /\ snap.stamp <= x.stamp =>
                LET s == UpsertChangeSnapshot(p, x)
                IN  /\ s.live /\ s.head = x.head /\ s.own = x.own
                    /\ SnapshotEligible(s, x)
<1>1. x.stamp \in Nat /\ x.head \in Nat /\ x.own \in {0, 1}
  BY Zenon, Fields
<1>2. snap.stamp \in Nat /\ p.stamp \in Nat
  BY Zenon DEF SnapshotRows, PullRows
<1> DEFINE new == [live |-> TRUE, head |-> x.head, own |-> x.own, stamp |-> x.stamp]
<1>3. new \in SnapshotRows /\ new.stamp = x.stamp
  BY Zenon, <1>1 DEF SnapshotRows
<1>4. UpsertChangeSnapshot(p, x) \in {new, snap}
  BY Zenon DEF UpsertChangeSnapshot
<1>5. ASSUME p.live, p.stamp = x.stamp, p.head = x.head, snap.stamp <= x.stamp,
             UpsertChangeSnapshot(p, x) # new
      PROVE  UpsertChangeSnapshot(p, x) = snap /\ snap.live /\ snap.head = x.head /\ snap.own = x.own
  BY <1>1, <1>2, <1>5 DEF UpsertChangeSnapshot, Eligible
<1>6. /\ UpsertChangeSnapshot(p, x) \in SnapshotRows
      /\ UpsertChangeSnapshot(p, x).stamp \in {snap.stamp, x.stamp}
  <2>1. CASE UpsertChangeSnapshot(p, x) = new
    BY Zenon, <1>3, <2>1
  <2>2. CASE UpsertChangeSnapshot(p, x) = snap
    BY Zenon, <2>2
  <2>3. QED
    BY Zenon, <1>4, <2>1, <2>2
<1>7. ASSUME p.live, p.stamp = x.stamp, p.head = x.head, snap.stamp <= x.stamp
      PROVE  LET s == UpsertChangeSnapshot(p, x)
             IN  /\ s.live /\ s.head = x.head /\ s.own = x.own
                 /\ SnapshotEligible(s, x)
  <2>1. CASE UpsertChangeSnapshot(p, x) = new
    BY <1>1, <2>1 DEF SnapshotEligible
  <2>2. CASE UpsertChangeSnapshot(p, x) # new
    BY Zenon, <1>5, <1>7, <2>2 DEF SnapshotEligible
  <2>3. QED
    BY Zenon, <2>1, <2>2
<1>8. QED
  BY Zenon, <1>6, <1>7

\* A transaction takes collection c from the response.
Takes(p, s, x, c) ==
    IF c \in {"files", "owners"} THEN SnapshotEligible(s, x) ELSE Eligible(p, x)

\* The item of a collection with versions of its own is not older than its row.
Newer(x, c) == c \in {"reviews", "comments", "threads"} => ItemOf(x, c) >= rows[c].val

HeadOf(p, x, c) == IF c \in {"files", "owners"} THEN x.head ELSE p.head

\* applyPullRequest on a collection that the response knows.
LEMMA KnownCollections ==
    ASSUME CacheType, NEW p \in PullRows, NEW s \in SnapshotRows, NEW x \in Representations,
           NEW known, NEW c \in Collections, c \in known
    PROVE  Replaces(AppliedRows(p, s, x, known)[c], rows[c], ItemOf(x, c),
                    c = "threads" \/ Takes(p, s, x, c), Newer(x, c), HeadOf(p, x, c))
<1>1. rows[c] \in ChildRows
  BY Zenon DEF CacheType
<1>2. CASE c = "requests"
  <2>1. AppliedRows(p, s, x, known)[c] = ReplaceReviewRequests(p, rows[c], x)
    BY Zenon, <1>2 DEF AppliedRows, ApplyConversation
  <2>2. ItemOf(x, c) = x.requests
    BY Zenon, <1>2 DEF ItemOf
  <2>3. (c = "threads" \/ Takes(p, s, x, c)) = Eligible(p, x)
    BY Zenon, <1>2 DEF Takes, Eligible
  <2>4. Newer(x, c) = TRUE /\ HeadOf(p, x, c) = p.head
    BY Zenon, <1>2, <2>2 DEF Newer, HeadOf
  <2>5. QED
    BY <1>1, <2>1, <2>2, <2>3, <2>4, ConversationQueries, Zenon
<1>3. CASE c = "reviews"
  <2>1. AppliedRows(p, s, x, known)[c] = ReplaceReviews(p, rows[c], x)
    BY Zenon, <1>3 DEF AppliedRows, ApplyConversation
  <2>2. ItemOf(x, c) = x.reviews
    BY Zenon, <1>3 DEF ItemOf
  <2>3. (c = "threads" \/ Takes(p, s, x, c)) = Eligible(p, x)
    BY Zenon, <1>3 DEF Takes, Eligible
  <2>4. Newer(x, c) = (x.reviews >= rows[c].val) /\ HeadOf(p, x, c) = p.head
    BY <1>3, <2>2 DEF Newer, HeadOf
  <2>5. QED
    BY <1>1, <2>1, <2>2, <2>3, <2>4, ConversationQueries, Zenon
<1>4. CASE c = "comments"
  <2>1. AppliedRows(p, s, x, known)[c] = ReplaceComments(p, rows[c], x)
    BY Zenon, <1>4 DEF AppliedRows, ApplyConversation
  <2>2. ItemOf(x, c) = x.comments
    BY Zenon, <1>4 DEF ItemOf
  <2>3. (c = "threads" \/ Takes(p, s, x, c)) = Eligible(p, x)
    BY Zenon, <1>4 DEF Takes, Eligible
  <2>4. Newer(x, c) = (x.comments >= rows[c].val) /\ HeadOf(p, x, c) = p.head
    BY <1>4, <2>2 DEF Newer, HeadOf
  <2>5. QED
    BY <1>1, <2>1, <2>2, <2>3, <2>4, ConversationQueries, Zenon
<1>5. CASE c = "threads"
  <2>1. AppliedRows(p, s, x, known)[c] = ReplaceReviewThreads(p, rows[c], x)
    BY Zenon, <1>5 DEF AppliedRows, ApplyThreads
  <2>2. ItemOf(x, c) = x.threads
    BY Zenon, <1>5 DEF ItemOf
  <2>3. (c = "threads" \/ Takes(p, s, x, c)) = TRUE
    BY Zenon, <1>5 DEF Takes
  <2>4. Newer(x, c) = (x.threads >= rows[c].val) /\ HeadOf(p, x, c) = p.head
    BY <1>5, <2>2 DEF Newer, HeadOf
  <2>5. QED
    BY <1>1, <2>1, <2>2, <2>3, <2>4, ConversationQueries, Zenon
<1>6. CASE c = "files"
  <2>1. AppliedRows(p, s, x, known)[c] = ReplaceChangedFiles(s, rows[c], x)
    BY Zenon, <1>6 DEF AppliedRows, ApplyChangeInputs
  <2>2. ItemOf(x, c) = FileOf(x)
    BY Zenon, <1>6 DEF ItemOf
  <2>3. (c = "threads" \/ Takes(p, s, x, c)) = SnapshotEligible(s, x)
    BY Zenon, <1>6 DEF Takes, SnapshotEligible
  <2>4. Newer(x, c) = TRUE /\ HeadOf(p, x, c) = x.head
    BY Zenon, <1>6, <2>2 DEF Newer, HeadOf
  <2>5. QED
    BY <1>1, <2>1, <2>2, <2>3, <2>4, ChangeQueries, Zenon
<1>7. CASE c = "owners"
  <2>1. AppliedRows(p, s, x, known)[c] = ReplaceFileOwners(s, rows[c], x)
    BY Zenon, <1>7 DEF AppliedRows, ApplyChangeInputs
  <2>2. ItemOf(x, c) = OwnerOf(x)
    BY Zenon, <1>7 DEF ItemOf
  <2>3. (c = "threads" \/ Takes(p, s, x, c)) = SnapshotEligible(s, x)
    BY Zenon, <1>7 DEF Takes, SnapshotEligible
  <2>4. Newer(x, c) = TRUE /\ HeadOf(p, x, c) = x.head
    BY Zenon, <1>7, <2>2 DEF Newer, HeadOf
  <2>5. QED
    BY <1>1, <2>1, <2>2, <2>3, <2>4, ChangeQueries, Zenon
<1>8. QED
  BY Zenon, <1>2, <1>3, <1>4, <1>5, <1>6, <1>7 DEF Collections, Guarded

\* What a transaction does to every row.
LEMMA Applies ==
    ASSUME CacheInv, NEW n \in 1 .. Len(hist), NEW endpoint \in Endpoints, Apply(n, endpoint)
    PROVE  /\ hist' = hist /\ hist[n] \in Representations
           /\ pr' = UpsertPullRequest(hist[n]) /\ pr' \in PullRows
           /\ pr'.stamp \in {pr.stamp, hist[n].stamp}
           /\ snap' \in {snap, UpsertChangeSnapshot(pr', hist[n])}
           /\ "files" \in Known(endpoint) => snap' = UpsertChangeSnapshot(pr', hist[n])
           /\ snap' \in SnapshotRows /\ snap'.stamp \in {snap.stamp, hist[n].stamp}
           /\ rows' = AppliedRows(pr', snap', hist[n], Known(endpoint))
           /\ \A c \in Collections \cap Known(endpoint) :
                Replaces(rows'[c], rows[c], ItemOf(hist[n], c),
                         c = "threads" \/ Takes(pr', snap', hist[n], c),
                         Newer(hist[n], c), HeadOf(pr', hist[n], c))
           /\ \A c \in Collections \ Known(endpoint) : rows'[c] = rows[c]
           /\ reported' = [c \in Collections |->
                             IF c \in Known(endpoint) /\ Takes(pr', snap', hist[n], c)
                             THEN n ELSE reported[c]]
           /\ emitted' = Emits(hist[n], rows', snap')
<1>1. CacheType
  BY Zenon DEF CacheInv
<1>2. PICK x : x = hist[n] /\ x \in Representations
  BY Zenon, <1>1, LatestIsLast
<1>3. PICK p : p = UpsertPullRequest(x) /\ p \in PullRows /\ p.stamp \in {pr.stamp, x.stamp}
  BY Zenon, <1>1, <1>2, PullIsUpserted DEF CacheType
<1>4. PICK s : s = IF "files" \in Known(endpoint) THEN UpsertChangeSnapshot(p, x) ELSE snap
  BY Zenon
<1>5. s \in SnapshotRows /\ s.stamp \in {snap.stamp, x.stamp}
  BY Zenon, <1>1, <1>2, <1>3, <1>4, SnapshotIsUpserted DEF CacheType
<1>6. PICK known : known = Known(endpoint)
  BY Zenon
<1>7. /\ pr' = p /\ snap' = s /\ rows' = AppliedRows(p, s, x, known) /\ hist' = hist
      /\ emitted' = Emits(x, rows', s)
      /\ reported' = [c \in Collections |->
                        IF c \in known /\ Takes(p, s, x, c) THEN n ELSE reported[c]]
  BY <1>2, <1>3, <1>4, <1>6, Zenon DEF Apply, Takes
<1>8. \A c \in Collections \cap known :
        Replaces(rows'[c], rows[c], ItemOf(x, c), c = "threads" \/ Takes(p, s, x, c),
                 Newer(x, c), HeadOf(p, x, c))
  BY Zenon, <1>1, <1>2, <1>3, <1>5, <1>7, KnownCollections
<1>9. \A c \in Collections \ known : rows'[c] = rows[c]
  BY Zenon, <1>7 DEF AppliedRows
<1>10. QED
  BY <1>2, <1>3, <1>4, <1>5, <1>6, <1>7, <1>8, <1>9, Zenon

\* ApplyPullRequestObserved
LEMMA PullApplies ==
    ASSUME CacheInv, NEW n \in 1 .. Len(hist), NEW endpoint \in Endpoints, Apply(n, endpoint)
    PROVE  CacheInv'
<1>1. CacheType /\ HistoryGrows /\ CacheNotAhead /\ RowsAreReported
  BY Zenon DEF CacheInv
<1>2. PICK x \in Representations : x = hist[n]
  BY Zenon, Applies
<1>3. PICK known : known = Known(endpoint)
  BY Zenon
<1>4. PICK p : p = pr'
  BY Zenon
<1>5. PICK s : s = snap'
  BY Zenon
<1>6. /\ hist' = hist /\ p \in PullRows /\ p.stamp \in {pr.stamp, x.stamp}
      /\ s \in SnapshotRows /\ s.stamp \in {snap.stamp, x.stamp}
      /\ rows' = AppliedRows(p, s, x, known)
  BY <1>2, <1>3, <1>4, <1>5, Applies, Zenon
<1>7. \A c \in Collections \cap known :
        Replaces(rows'[c], rows[c], ItemOf(x, c), c = "threads" \/ Takes(p, s, x, c),
                 Newer(x, c), HeadOf(p, x, c))
  BY <1>2, <1>3, <1>4, <1>5, Applies, Zenon
<1>8. \A c \in Collections \ known : rows'[c] = rows[c]
  BY <1>3, Applies, Zenon
<1>9. reported' = [c \in Collections |->
                     IF c \in known /\ Takes(p, s, x, c) THEN n ELSE reported[c]]
  BY <1>2, <1>3, <1>4, <1>5, Applies, ZenonT(120)
<1>10. ASSUME NEW c \in Collections
       PROVE  rows'[c] \in ChildRows /\ rows'[c].val \in {rows[c].val, ItemOf(x, c)}
  <2>1. rows[c] \in ChildRows
    BY Zenon, <1>1 DEF CacheType
  <2>2. QED
    BY <1>7, <1>8, <1>10, <2>1, Zenon DEF Replaces
<1>11. rows' \in [Collections -> ChildRows]
  <2>1. rows' = [c \in Collections |-> rows'[c]]
    BY Zenon, <1>6 DEF AppliedRows
  <2>2. QED
    BY Zenon, <1>10, <2>1
<1>12. reported' \in [Collections -> Nat] /\ \A c \in Collections : reported'[c] <= Len(hist)
  <2>1. n \in Nat /\ n <= Len(hist)
    BY <1>1, LatestIsLast
  <2>2. reported \in [Collections -> Nat] /\ \A c \in Collections : reported[c] <= Len(hist)
    BY Zenon, <1>1 DEF CacheType
  <2>3. QED
    BY Zenon, <1>9, <2>1, <2>2
<1>13. CacheType'
  BY Zenon, <1>1, <1>4, <1>5, <1>6, <1>11, <1>12 DEF CacheType
<1>14. HistoryGrows' /\ Latest' = Latest
  BY Zenon, <1>1, <1>6 DEF HistoryGrows, Latest
<1>15. CacheNotAhead'
  <2>1. /\ x.stamp <= Latest.stamp /\ x.reviews <= Latest.reviews
        /\ NotAhead(x.comments, Latest.comments, Len(hist))
        /\ NotAhead(x.threads, Latest.threads, Len(hist))
    BY Zenon, <1>1, <1>2 DEF HistoryGrows
  <2>2. p.stamp <= Latest.stamp /\ s.stamp <= Latest.stamp
    BY <1>1, <1>6, <2>1, Zenon DEF CacheNotAhead
  <2>3. /\ rows'["reviews"].val \in {rows["reviews"].val, x.reviews}
        /\ rows'["comments"].val \in {rows["comments"].val, x.comments}
        /\ rows'["threads"].val \in {rows["threads"].val, x.threads}
    BY Zenon, <1>10 DEF ItemOf, Collections, Guarded
  <2>4. /\ rows'["reviews"].val <= Latest.reviews
        /\ NotAhead(rows'["comments"].val, Latest.comments, Len(hist))
        /\ NotAhead(rows'["threads"].val, Latest.threads, Len(hist))
    BY <1>1, <2>1, <2>3, Zenon DEF CacheNotAhead
  <2>5. QED
    BY <1>4, <1>5, <1>6, <1>14, <2>2, <2>4, Zenon DEF CacheNotAhead
<1>16. RowsAreReported'
  <2> SUFFICES ASSUME NEW c \in Guarded, reported'[c] # 0
               PROVE  RowOf(rows'[c], ItemOf(hist[reported'[c]], c))
    BY Zenon, <1>6 DEF RowsAreReported, ItemOf, FileOf, OwnerOf
  <2>1. c \in Collections /\ c # "threads"
    BY Zenon DEF Collections, Guarded
  <2>2. CASE c \in known /\ Takes(p, s, x, c)
    <3>1. reported'[c] = n
      BY Zenon, <1>9, <2>1, <2>2
    <3>2. RowOf(rows'[c], ItemOf(x, c))
      BY <1>7, <2>1, <2>2, Zenon DEF Replaces
    <3>3. QED
      BY <1>2, <3>1, <3>2, Zenon
  <2>3. CASE ~(c \in known /\ Takes(p, s, x, c))
    <3>1. reported'[c] = reported[c]
      BY Zenon, <1>9, <2>1, <2>3
    <3>2. rows'[c] = rows[c]
      BY <1>7, <1>8, <2>1, <2>3, Zenon DEF Replaces
    <3>3. QED
      BY <1>1, <3>1, <3>2, Zenon DEF RowsAreReported
  <2>4. QED
    BY Zenon, <2>2, <2>3
<1>17. QED
  BY Zenon, <1>13, <1>14, <1>15, <1>16 DEF CacheInv

\* Every step preserves the invariant.
LEMMA CacheInvNext ==
    CacheInv /\ [CacheNext]_prCacheVars => CacheInv'
<1> SUFFICES ASSUME CacheInv, [CacheNext]_prCacheVars PROVE CacheInv'
  BY Zenon
<1>1. CASE CacheNext
  BY <1>1, GitHubChanges, PullApplies, PullTombstones, Zenon DEF CacheNext
<1>2. CASE UNCHANGED prCacheVars
  BY Zenon, <1>2 DEF prCacheVars, cacheVars, CacheInv, CacheType, HistoryGrows, CacheNotAhead,
     RowsAreReported, Latest, ItemOf, FileOf, OwnerOf
<1>3. QED
  BY Zenon, <1>1, <1>2

\* The invariant holds throughout.
LEMMA CacheInvariant ==
    CacheSpec => []CacheInv
<1>1. CacheInit => CacheInv
  BY Zenon, CacheInvInit
<1>2. CacheInv /\ [CacheNext]_prCacheVars => CacheInv'
  BY Zenon, CacheInvNext
<1>3. QED
  BY <1>1, <1>2, PTL DEF CacheSpec

\* The transactions of applyPullRequest: whatever old responses, endpoints
\* and 404s a pull request is refreshed from, the live rows of each guarded
\* collection are those of one response.
THEOREM CollectionsAreOneResponse ==
    CacheSpec => []CollectionIsOneResponse
<1>1. CacheInv => CollectionIsOneResponse
  BY Zenon DEF CacheInv, RowsAreReported, RowOf, CollectionIsOneResponse
<1>2. QED
  BY <1>1, CacheInvariant, PTL

\* Applying the latest GraphQL representation makes the cache current.
LEMMA FullRefresh ==
    ASSUME CacheInv, Apply(Len(hist), "graphql")
    PROVE  ShowsCurrent'
<1>1. CacheType /\ CacheNotAhead
  BY Zenon DEF CacheInv
<1>2. PICK n \in 1 .. Len(hist) : n = Len(hist)
  BY Zenon, <1>1, LatestIsLast
<1>3. PICK x \in Representations : x = hist[n] /\ x = Latest
  BY Zenon, <1>1, <1>2, LatestIsLast DEF Latest
<1>4. Apply(n, "graphql") /\ "graphql" \in Endpoints /\ Known("graphql") = Collections
  BY Zenon, <1>2 DEF Endpoints, Known, pullRecordFromNode
<1>5. PICK p : p = pr'
  BY Zenon
<1>6. PICK s : s = snap'
  BY Zenon
<1>7. /\ hist' = hist /\ p = UpsertPullRequest(x) /\ p \in PullRows
      /\ s = UpsertChangeSnapshot(p, x)
      /\ \A c \in Collections :
           Replaces(rows'[c], rows[c], ItemOf(x, c), c = "threads" \/ Takes(p, s, x, c),
                    Newer(x, c), HeadOf(p, x, c))
  <2>1. "files" \in Collections /\ \A c \in Collections : c \in Collections \cap Collections
    BY Zenon DEF Collections, Guarded
  <2>2. QED
    BY <1>3, <1>4, <1>5, <1>6, <2>1, Applies, Zenon
<1>8. Latest' = x
  BY Zenon, <1>3, <1>7 DEF Latest
<1>9. p.live /\ p.stamp = x.stamp /\ p.head = x.head
  BY <1>1, <1>3, <1>7, PullIsUpserted, Zenon DEF CacheType, CacheNotAhead
<1>10. s.live /\ s.head = x.head /\ s.own = x.own /\ SnapshotEligible(s, x)
  BY <1>1, <1>3, <1>7, <1>9, SnapshotIsUpserted, Zenon DEF CacheType, CacheNotAhead
<1>11. Eligible(p, x)
  BY <1>9, Fields DEF Eligible
<1>12. ASSUME NEW c \in Collections
       PROVE  IF ItemOf(x, c) = 0 THEN ~rows'[c].live
              ELSE rows'[c] = [live |-> TRUE, val |-> ItemOf(x, c), head |-> x.head]
  <2>1. Takes(p, s, x, c) /\ HeadOf(p, x, c) = x.head
    BY <1>9, <1>10, <1>11, Zenon DEF Takes, HeadOf
  <2>2. ItemOf(x, c) \in Nat
    BY Zenon, ItemsAreNaturals
  <2>3. ItemOf(x, c) # 0 => ItemOf(x, c) > 0 /\ Newer(x, c)
    <3>1. ItemOf(x, c) # 0 => ItemOf(x, c) > 0
      BY <2>2
    <3>2. rows[c].val \in Nat
      BY Zenon, <1>1 DEF CacheType, ChildRows
    <3>3. CASE c = "reviews"
      <4>1. ItemOf(x, c) = x.reviews /\ rows[c].val <= x.reviews
        BY Zenon, <1>1, <1>3, <3>3 DEF ItemOf, CacheNotAhead
      <4>2. QED
        BY Zenon, <2>2, <3>1, <3>2, <4>1 DEF Newer
    <3>4. CASE c \in {"comments", "threads"}
      <4>1. NotAhead(rows[c].val, ItemOf(x, c), Len(hist))
        BY Zenon, <1>1, <1>3, <3>4 DEF ItemOf, CacheNotAhead
      <4>2. QED
        BY Zenon, <2>2, <3>1, <3>2, <4>1 DEF Newer, NotAhead
    <3>5. QED
      BY Zenon, <3>1, <3>3, <3>4 DEF Newer
  <2>4. QED
    BY <1>7, <2>1, <2>3, Zenon DEF Replaces
<1>13. ASSUME NEW c \in Collections
       PROVE  ItemOf(Latest, c)' = ItemOf(x, c)
  BY Zenon, <1>8 DEF ItemOf, FileOf, OwnerOf
<1>14. QED
  BY ZenonT(120), <1>5, <1>6, <1>8, <1>9, <1>10, <1>12, <1>13 DEF ShowsCurrent

\* applyPullRequest of a hydrated GraphQL node: after any sequence of stale
\* and partial responses and 404s, hearing the current representation leaves
\* exactly it in the cache.
THEOREM RefreshesConverge ==
    CacheSpec => RefreshConverges
<1>1. CacheInv /\ [CacheNext]_prCacheVars
        => [Apply(Len(hist), "graphql") => ShowsCurrent']_prCacheVars
  BY Zenon, FullRefresh
<1>2. QED
  BY <1>1, CacheInvariant, PTL DEF CacheSpec, RefreshConverges

\* A step that changes what a reader sees emits a change.
LEMMA StepsEmit ==
    ASSUME CacheInv, CacheNext, Visible' # Visible
    PROVE  emitted'
<1>1. CASE \/ PushCommit \/ OwnersChange \/ Request \/ Review
           \/ \E c \in {"comments", "threads"} : Converse(c)
  <2>1. UNCHANGED cacheVars
    BY <1>1, Zenon DEF PushCommit, OwnersChange, Request, Review, Converse, Changed
  <2>2. QED
    BY Zenon, <2>1 DEF cacheVars, Visible
<1>2. CASE Tombstone
  <2>1. emitted' \/ UNCHANGED <<pr, rows, snap>>
    BY Zenon, <1>2 DEF Tombstone
  <2>2. QED
    BY Zenon, <2>1 DEF Visible
<1>3. ASSUME NEW n \in 1 .. Len(hist), NEW endpoint \in Endpoints, Apply(n, endpoint),
             ~emitted'
      PROVE  FALSE
  <2>1. ~Emits(hist[n], rows', snap') /\ pr' = UpsertPullRequest(hist[n])
    BY <1>3, Applies, Zenon
  <2>2. pr' = pr /\ rows' = rows
    BY Zenon, <2>1 DEF Emits, UpsertPullRequest
  <2>3. snap \in SnapshotRows /\ snap' \in SnapshotRows
    BY Zenon, <1>3, Applies DEF CacheInv, CacheType
  <2>4. [snap' EXCEPT !.stamp = 0] = [snap EXCEPT !.stamp = 0]
    BY Zenon, <2>1 DEF Emits, SnapshotChanged
  <2>5. snap'.live = snap.live /\ snap'.head = snap.head /\ snap'.own = snap.own
    BY Zenon, <2>3, <2>4 DEF SnapshotRows
  <2>6. QED
    BY Zenon, <2>2, <2>5 DEF Visible
<1>4. QED
  BY Zenon, <1>1, <1>2, <1>3 DEF CacheNext

\* result.Applied and TombstonePullRequestObserved: no transaction changes
\* what consumers can see of a pull request without marking derivation and
\* emitting an event.
THEOREM VisibleChangesAreEmitted ==
    CacheSpec => PullChangesAreEmitted
<1>1. CacheInv /\ [CacheNext]_prCacheVars => [Visible' # Visible => emitted']_prCacheVars
  BY Zenon, StepsEmit
<1>2. QED
  BY <1>1, CacheInvariant, PTL DEF CacheSpec, PullChangesAreEmitted
=============================================================================
