------------------------- MODULE ConditionalListing -------------------------
(***************************************************************************)
(* Two listings that are refreshed as a whole: the check runs of a head    *)
(* SHA and the rules of a repository (fetch/handler.go, store/checks.go,   *)
(* store/repo_rules.go).  The first page is asked for with the stored      *)
(* validator.  A 304 confirms all rows; otherwise the pages are collected, *)
(* items that are newer or different replace their rows and rows that are  *)
(* not listed are tombstoned.  Check runs keep the validator in each row,  *)
(* rules in a row of their own.                                            *)
(*                                                                         *)
(* A validator is the body it stands for; that of check runs has their     *)
(* total_count.  Every commit sets last_checked_at of all rows to its      *)
(* database time, so the rows agree on it and it is left out.              *)
(***************************************************************************)
EXTENDS Integers, FiniteSetsExt

CONSTANTS Items,       \* GitHub IDs
          Versions,    \* what GitHub may say of an item: at (0 for none), content
          Fetchers,    \* refreshes of the one listing, under way at once
          PerPage,     \* page size of check runs
          MaxEdits,    \* bound on changes at GitHub
          MaxRuns      \* bound on refreshes

ASSUME ListingAssumption ==
    /\ Items \subseteq Nat /\ IsFiniteSet(Items) /\ PerPage \in Nat
    /\ \A v \in Versions : v.at \in Nat /\ v.content \notin {"absent", "retired"}

VARIABLES
    kind,      \* "checks" or "rules"
    listed,    \* GitHub: item -> version, Absent or Retired
    lost,      \* GitHub: the listing answers 404
    row,       \* check_runs, repo_rules
    syncState, \* repo_rule_sync_state.etag
    fetch,     \* fetcher -> its progress
    announced, \* the visible rows when an event was last emitted
    history,   \* check_history
    edits, runs,
    excused    \* history: a validator was stored that the rows do not have

listingVars == <<kind, listed, lost, row, syncState, fetch, announced, history,
                 edits, runs, excused>>

Absent == [at |-> 0, content |-> "absent"]
Retired == [at |-> 0, content |-> "retired"]
NoTag == <<>>
NoItemRow == [state |-> "none", item |-> Absent, etag |-> NoTag]
Idle == [pc |-> "idle", etag |-> NoTag, page |-> 0, all |-> {}, tag |-> NoTag,
         overtaken |-> FALSE]

VisibleItems == {<<i, row[i].item>> : i \in {j \in Items : row[j].state = "live"}}

ListingInit ==
    /\ kind \in {"checks", "rules"}
    /\ listed = [i \in Items |-> Absent] /\ lost = FALSE
    /\ row = [i \in Items |-> NoItemRow] /\ syncState = NoTag
    /\ fetch = [w \in Fetchers |-> Idle]
    /\ announced = {} /\ history = {}
    /\ edits = 0 /\ runs = 0 /\ excused = FALSE

-----------------------------------------------------------------------------
(* GitHub                                                                  *)

Present == {i \in Items : listed[i] \in Versions}
ListingPageSize == IF kind = "checks" THEN PerPage ELSE Cardinality(Items)
PageOf(i) == 1 + (Cardinality({j \in Present : j < i}) \div ListingPageSize)
ListingPage(n) == {<<i, listed[i]>> : i \in {j \in Present : PageOf(j) = n}}
LastPage(n) == Cardinality(Present) <= n * ListingPageSize
Body(n) == <<ListingPage(n), IF kind = "checks" THEN Cardinality(Present) ELSE 0>>

Edit(i, v) ==
    /\ edits < MaxEdits /\ edits' = edits + 1
    /\ listed[i] # Retired /\ v # listed[i]
    /\ v = Retired => i \in Present
    /\ kind = "rules" /\ v # Retired => v.at >= listed[i].at
    /\ listed' = [listed EXCEPT ![i] = v]
    /\ UNCHANGED <<kind, lost, row, syncState, fetch, announced, history, runs, excused>>

\* The repository becomes invisible, or visible again.
Lose ==
    /\ lost \/ edits < MaxEdits
    /\ lost' = ~lost /\ edits' = IF lost THEN edits ELSE edits + 1
    /\ UNCHANGED <<kind, listed, row, syncState, fetch, announced, history, runs, excused>>

-----------------------------------------------------------------------------
(* Fetching                                                                *)

\* Any row's, the lowest ID's in fact: the rows were checked together.
GetCheckRunsFetchMetadata ==
    LET known == {i \in Items : row[i].state # "none"}
    IN  IF known = {} THEN NoTag ELSE row[Min(known)].etag

GetRepoRulesFetchMetadata == syncState

Move(w, to) == fetch' = [fetch EXCEPT ![w] = to]
Rest == UNCHANGED <<kind, listed, lost, row, syncState, announced, history, edits, excused>>

\* refreshChecksOnce: the observation begins before the validator is read.
ChecksMetadata(w) ==
    /\ kind = "checks" /\ fetch[w] = Idle /\ runs < MaxRuns /\ runs' = runs + 1
    /\ Move(w, [Idle EXCEPT !.pc = "first", !.etag = GetCheckRunsFetchMetadata])
    /\ Rest

\* refreshRepoRulesOnce: the validator is read before the observation begins.
RepoRulesMetadata(w) ==
    /\ kind = "rules" /\ fetch[w] = Idle /\ runs < MaxRuns /\ runs' = runs + 1
    /\ Move(w, [Idle EXCEPT !.pc = "metadata", !.etag = GetRepoRulesFetchMetadata])
    /\ Rest

BeginObservation(w) ==
    /\ fetch[w].pc = "metadata" /\ Move(w, [fetch[w] EXCEPT !.pc = "first"])
    /\ UNCHANGED runs /\ Rest

\* The entries of a page, in "all".
Heard(n) == {<<i, listed[i], n>> : i \in {j \in Present : PageOf(j) = n}}

\* What a listing that answers 404 becomes: no check runs; an error for rules.
NotFound(f) ==
    IF kind = "checks" THEN [f EXCEPT !.pc = "apply", !.all = {}, !.tag = NoTag] ELSE Idle

FirstPage(w) ==
    LET f == fetch[w]
    IN  /\ f.pc = "first"
        /\ Move(w, IF lost THEN NotFound(f)
                   ELSE IF f.etag = Body(1) THEN [f EXCEPT !.pc = "touch"]
                   ELSE [f EXCEPT !.pc = IF LastPage(1) THEN "apply" ELSE "next",
                                  !.page = 1, !.all = Heard(1), !.tag = Body(1)])
        /\ UNCHANGED runs /\ Rest

\* A 404 after the first page is an error.
NextPage(w) ==
    LET f == fetch[w]
        n == f.page + 1
    IN  /\ f.pc = "next"
        /\ Move(w, IF lost THEN Idle
                   ELSE [f EXCEPT !.pc = IF LastPage(n) THEN "apply" ELSE "next",
                                  !.page = n, !.all = @ \cup Heard(n)])
        /\ UNCHANGED runs /\ Rest

\* retrySupersededObservation
Superseded(w) ==
    /\ fetch[w].pc \in {"touch", "apply"} /\ fetch[w].overtaken
    /\ Move(w, Idle)
    /\ UNCHANGED runs /\ Rest

-----------------------------------------------------------------------------
(* Writing                                                                 *)

\* ON CONFLICT DO UPDATE ... WHERE
Accepts(old, new) ==
    \/ old.state # "live"
    \/ new.at > old.item.at
    \/ new.at = old.item.at /\ new # old.item

\* The statement cannot affect a row twice: it fails on an item that was
\* heard on two pages, unless only the last entry is accepted.
AffectsTwice(all) ==
    \E e, d \in all : e[1] = d[1] /\ e[3] < d[3] /\ Accepts(row[e[1]], e[2])

AcceptedEntries(all, i) == {e \in all : e[1] = i /\ Accepts(row[i], e[2])}

\* The rows after a listing is applied at the time of its commit.
Replaced(all, tag) ==
    [i \in Items |->
       IF AcceptedEntries(all, i) # {}
       THEN [state |-> "live", item |-> (CHOOSE e \in AcceptedEntries(all, i) : TRUE)[2],
             etag |-> tag]
       ELSE IF row[i].state = "live" /\ \A e \in all : e[1] # i
       THEN [row[i] EXCEPT !.state = "dead", !.etag = tag]
       ELSE row[i]]

ReplaceCheckRuns(all, tag) == Replaced(all, tag)
ReplaceRepoRules(all, tag) == Replaced(all, tag)

\* Mutant of TouchCheckRuns: only the rows that were just replaced.
TouchReplacedRuns(rows, tag) == [i \in Items |->
    IF rows[i] = row[i] THEN rows[i]
    ELSE [rows[i] EXCEPT !.etag = IF tag = NoTag THEN @ ELSE tag]]

\* TouchCheckRunsCheckedAt: an empty validator keeps what is there.
TouchCheckRuns(rows, tag) ==
    [i \in Items |-> IF rows[i].state = "none" \/ tag = NoTag THEN rows[i]
                     ELSE [rows[i] EXCEPT !.etag = tag]]

UpsertRepoRuleSyncState(tag) == IF tag = NoTag THEN syncState ELSE tag

\* The rows the statement returns.
ChangedItems(rows) == {i \in Items : <<rows[i].state, rows[i].item>> # <<row[i].state, row[i].item>>}

\* Rows this transaction wrote as they were listed.
AppendAcceptedCheckHistory(rows, all) ==
    history \cup {<<i, rows[i].item>> : i \in
                    {j \in ChangedItems(rows) : \E e \in all : e[1] = j /\ e[2] = rows[j].item}}

\* markAndEmit, for the scopes of ListPRScopesByHeadSHA or of the repository.
MarkAndEmit(rows) ==
    announced' = IF ChangedItems(rows) = {} THEN announced
                 ELSE {<<i, rows[i].item>> : i \in {j \in Items : rows[j].state = "live"}}

\* AdvanceEntityObservationVersion
Commit(w) ==
    fetch' = [x \in Fetchers |->
                IF x = w THEN Idle
                ELSE IF fetch[x].pc \in {"idle", "metadata"} THEN fetch[x]
                ELSE [fetch[x] EXCEPT !.overtaken = TRUE]]

\* ApplyChecksObserved.  A 404 blanks the validators of the rows it
\* tombstones and leaves those of rows that were tombstoned before.
ApplyChecks(w) ==
    LET f == fetch[w]
        rows == ReplaceCheckRuns(f.all, f.tag)
    IN  /\ kind = "checks" /\ f.pc = "apply" /\ ~f.overtaken
        /\ ~AffectsTwice(f.all)
        /\ row' = TouchCheckRuns(rows, f.tag)
        /\ history' = AppendAcceptedCheckHistory(rows, f.all)
        /\ excused' = (\/ excused
                       \/ f.tag = NoTag /\ \E i \in Items : row[i].state = "dead"
                       \/ \E e, d \in f.all : e[1] = d[1] /\ e[2] # d[2])
        /\ MarkAndEmit(rows) /\ Commit(w)
        /\ UNCHANGED <<kind, listed, lost, syncState, edits, runs>>

\* The transaction fails, and River runs the job again.
ApplyChecksFails(w) ==
    /\ kind = "checks" /\ fetch[w].pc = "apply" /\ ~fetch[w].overtaken
    /\ AffectsTwice(fetch[w].all)
    /\ Move(w, Idle)
    /\ UNCHANGED runs /\ Rest

\* ApplyRepoRulesObserved
ApplyRepoRules(w) ==
    LET f == fetch[w]
        rows == ReplaceRepoRules(f.all, f.tag)
    IN  /\ kind = "rules" /\ f.pc = "apply" /\ ~f.overtaken
        /\ row' = rows
        /\ syncState' = UpsertRepoRuleSyncState(f.tag)
        /\ MarkAndEmit(rows) /\ Commit(w)
        /\ UNCHANGED <<kind, listed, lost, history, edits, runs, excused>>

TouchChecks(w) ==
    /\ kind = "checks" /\ fetch[w].pc = "touch" /\ ~fetch[w].overtaken
    /\ row' = TouchCheckRuns(row, fetch[w].etag)
    /\ Commit(w)
    /\ UNCHANGED <<kind, listed, lost, syncState, announced, history, edits, runs, excused>>

TouchRepoRules(w) ==
    /\ kind = "rules" /\ fetch[w].pc = "touch" /\ ~fetch[w].overtaken
    /\ syncState' = UpsertRepoRuleSyncState(fetch[w].etag)
    /\ excused' = (excused \/ syncState # fetch[w].etag)
    /\ Commit(w)
    /\ UNCHANGED <<kind, listed, lost, row, announced, history, edits, runs>>

ListingNext ==
    \/ \E i \in Items, v \in Versions \cup {Retired} : Edit(i, v)
    \/ Lose
    \/ \E w \in Fetchers :
         \/ ChecksMetadata(w) \/ RepoRulesMetadata(w) \/ BeginObservation(w)
         \/ FirstPage(w) \/ NextPage(w) \/ Superseded(w)
         \/ ApplyChecks(w) \/ ApplyChecksFails(w) \/ ApplyRepoRules(w)
         \/ TouchChecks(w) \/ TouchRepoRules(w)

ListingSpec == ListingInit /\ [][ListingNext]_listingVars

-----------------------------------------------------------------------------

StoredTag == IF kind = "checks" THEN GetCheckRunsFetchMetadata ELSE GetRepoRulesFetchMetadata

(* A stored validator that GitHub would answer with 304 stands for rows    *)
(* that are what it lists on that page, and for nothing else where that is *)
(* the only page, however fetches of changing pages interleave.  A row may *)
(* hold a later version of an item that went back in time.  Three ways to  *)
(* store a validator without its rows are set aside in excused: a 404 that *)
(* leaves older tombstones theirs, a rules validator read before another   *)
(* refresh committed, and an item that moved to a later page and changed   *)
(* while the pages were read.                                              *)
ConfirmedListing ==
    ~excused /\ StoredTag = Body(1) =>
      /\ \A i \in {j \in Present : PageOf(j) = 1} :
           row[i].state = "live" /\ (row[i].item = listed[i] \/ row[i].item.at > listed[i].at)
      /\ LastPage(1) => \A i \in Items : row[i].state = "live" => i \in Present

(* What consumers can see of the rows was announced by an event of the     *)
(* transaction that changed it, and the check history has every version    *)
(* of a check run that was ever shown.                                     *)
ListingIsAccounted ==
    /\ announced = VisibleItems
    /\ kind = "checks" => VisibleItems \subseteq history
=============================================================================
