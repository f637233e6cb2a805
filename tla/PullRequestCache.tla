-------------------------- MODULE PullRequestCache --------------------------
(***************************************************************************)
(* The rows the cache keeps for one pull request: the parent row, its      *)
(* review requests, reviews, comments, review threads, and the change      *)
(* snapshot with its files and owners (internal/store/pull_request.go and  *)
(* the queries it runs).  One transaction applies one response of GitHub.  *)
(*                                                                         *)
(* Transactions of one pull request are serialized and fenced by the       *)
(* observation version, which PullRequestRefresh models; what is left, and *)
(* what the compare-and-set clauses are for, is that GitHub may answer     *)
(* with a representation older than one it has already served, may answer  *)
(* through endpoints that know different collections, and may answer 404.  *)
(*                                                                         *)
(* Each collection has one row.  An item's number is its version: comments *)
(* and threads carry their own updated_at, reviews the rank pending,       *)
(* submitted, dismissed; 0 is "not in the response".  last_checked_at is   *)
(* the database's clock under the entity lock, so a later transaction's is *)
(* greater and the clauses that compare it hold.                           *)
(***************************************************************************)
EXTENDS Integers, Sequences

CONSTANTS MaxChanges   \* bound on changes at GitHub

VARIABLES
    hist,     \* every representation GitHub has had; the last is current
    pr,       \* the pull_requests row
    rows,     \* the row of each child collection
    snap,     \* the pull_request_change_snapshots row
    emitted,  \* the last transaction marked derivation and emitted an event
    reported  \* history: collection -> representation of the last response
              \* the collection was taken from (0: none)

cacheVars == <<pr, rows, snap, emitted, reported>>
prCacheVars == <<hist, cacheVars>>

Guarded == {"requests", "reviews", "comments", "files", "owners"}
Collections == Guarded \cup {"threads"}
NoRow == [live |-> FALSE, val |-> 0, head |-> 0]

CacheInit ==
    /\ hist = <<[stamp |-> 1, head |-> 1, own |-> 0, requests |-> 0, reviews |-> 0,
                 comments |-> 0, threads |-> 0]>>
    /\ pr = [exists |-> FALSE, live |-> FALSE, stamp |-> 0, head |-> 0]
    /\ rows = [c \in Collections |-> NoRow]
    /\ snap = [live |-> FALSE, head |-> 0, own |-> 0, stamp |-> 0]
    /\ emitted = FALSE
    /\ reported = [c \in Collections |-> 0]

-----------------------------------------------------------------------------
(* GitHub (external)                                                       *)

Latest == hist[Len(hist)]

Changed(now, bump) ==
    /\ Len(hist) <= MaxChanges
    /\ hist' = Append(hist, [now EXCEPT !.stamp = @ + bump])
    /\ UNCHANGED cacheVars

\* A push, a CODEOWNERS change of the base branch, a reviewer requested or
\* removed, a review written, submitted or dismissed, a comment or a thread
\* created, edited or deleted.  Not all of them move the PR's updated_at.
PushCommit == Changed([Latest EXCEPT !.head = @ + 1], 1)
OwnersChange == Changed([Latest EXCEPT !.own = 1 - @], 0)
Request == \E bump \in 0 .. 1 : Changed([Latest EXCEPT !.requests = 1 - @], bump)
Review == Latest.reviews < 3 /\ Changed([Latest EXCEPT !.reviews = @ + 1], 1)
Converse(c) ==
    \E bump \in 0 .. 1, v \in {0, Len(hist)} :
      v # Latest[c] /\ Changed([Latest EXCEPT ![c] = v], bump)

-----------------------------------------------------------------------------
(* The queries of a transaction                                            *)

\* The pull request's changed file and its code owner, by head and CODEOWNERS.
FileOf(resp) == resp.head % 2
OwnerOf(resp) == FileOf(resp) * resp.own

\* UpsertPullRequestWriteIfNewer
WriteIfNewer(resp) ==
    \/ ~pr.exists
    \/ resp.stamp > pr.stamp
    \/ resp.stamp = pr.stamp /\ resp.head # pr.head
    \/ ~pr.live

UpsertPullRequest(resp) ==
    IF WriteIfNewer(resp)
    THEN [exists |-> TRUE, live |-> TRUE, stamp |-> resp.stamp, head |-> resp.head]
    ELSE pr

\* The "eligible" clause of the collections without a version of their own.
Eligible(p, resp) == p.live /\ p.stamp <= resp.stamp

Upserted(p, item) == [live |-> TRUE, val |-> item, head |-> p.head]
Tombstoned(row) == [row EXCEPT !.live = FALSE]

\* Mutant of ReplaceReviewRequests: without the "eligible" clause.
ReplaceAnyRequests(p, row, resp) ==
    IF resp.requests > 0 THEN Upserted(p, resp.requests) ELSE Tombstoned(row)

ReplaceReviewRequests(p, row, resp) ==
    IF ~Eligible(p, resp) THEN row
    ELSE IF resp.requests > 0 THEN Upserted(p, resp.requests)
    ELSE Tombstoned(row)

\* A review's rank never decreases; an equal one replaces a differing live
\* row and revives a tombstoned one.
ReplaceReviews(p, row, resp) ==
    IF ~Eligible(p, resp) THEN row
    ELSE IF resp.reviews = 0 THEN Tombstoned(row)
    ELSE IF resp.reviews >= row.val THEN Upserted(p, resp.reviews) ELSE row

\* Mutant of ReplaceComments: only a newer comment is written.
ReplaceNewerComments(p, row, resp) ==
    IF ~Eligible(p, resp) THEN row
    ELSE IF resp.comments = 0 THEN Tombstoned(row)
    ELSE IF resp.comments > row.val THEN Upserted(p, resp.comments) ELSE row

ReplaceComments(p, row, resp) ==
    IF ~Eligible(p, resp) THEN row
    ELSE IF resp.comments = 0 THEN Tombstoned(row)
    ELSE IF resp.comments >= row.val THEN Upserted(p, resp.comments) ELSE row

\* Review threads have no "eligible" clause.
ReplaceReviewThreads(p, row, resp) ==
    IF resp.threads = 0 THEN Tombstoned(row)
    ELSE IF resp.threads >= row.val \/ ~row.live THEN Upserted(p, resp.threads) ELSE row

\* UpsertPullRequestChangeSnapshot
UpsertChangeSnapshot(p, resp) ==
    IF /\ Eligible(p, resp) /\ p.head = resp.head
       /\ \/ resp.stamp > snap.stamp \/ ~snap.live
          \/ resp.stamp = snap.stamp /\ <<resp.head, resp.own>> # <<snap.head, snap.own>>
    THEN [live |-> TRUE, head |-> resp.head, own |-> resp.own, stamp |-> resp.stamp]
    ELSE snap

\* Files and owners follow the snapshot row of their own base and head.
SnapshotEligible(s, resp) == s.live /\ s.head = resp.head /\ s.stamp <= resp.stamp

ReplaceChangedFiles(s, row, resp) ==
    IF ~SnapshotEligible(s, resp) THEN row
    ELSE IF FileOf(resp) > 0 THEN [live |-> TRUE, val |-> FileOf(resp), head |-> resp.head]
    ELSE Tombstoned(row)

ReplaceFileOwners(s, row, resp) ==
    IF ~SnapshotEligible(s, resp) THEN row
    ELSE IF OwnerOf(resp) > 0 THEN [live |-> TRUE, val |-> OwnerOf(resp), head |-> resp.head]
    ELSE Tombstoned(row)

-----------------------------------------------------------------------------
(* The transactions                                                        *)

\* What a response knows: the hydrated GraphQL node, a REST pull request,
\* an entry of a list.
Endpoints == {"graphql", "rest", "list"}
pullRecordFromNode == Collections
pullRecordFromREST == {"requests"}
pullRecordsFromList == {}
Known(endpoint) ==
    CASE endpoint = "graphql" -> pullRecordFromNode
      [] endpoint = "rest" -> pullRecordFromREST
      [] endpoint = "list" -> pullRecordsFromList

\* applyPullRequest, one collection after the other: a collection the
\* response does not know keeps its row.
ApplyConversation(p, c, resp) ==
    CASE c = "requests" -> ReplaceReviewRequests(p, rows[c], resp)
      [] c = "reviews" -> ReplaceReviews(p, rows[c], resp)
      [] c = "comments" -> ReplaceComments(p, rows[c], resp)

ApplyChangeInputs(s, c, resp) ==
    IF c = "files" THEN ReplaceChangedFiles(s, rows[c], resp)
    ELSE ReplaceFileOwners(s, rows[c], resp)

ApplyThreads(p, resp) == ReplaceReviewThreads(p, rows["threads"], resp)

AppliedRows(p, s, resp, known) ==
    [c \in Collections |->
       IF c \notin known THEN rows[c]
       ELSE IF c \in {"files", "owners"} THEN ApplyChangeInputs(s, c, resp)
       ELSE IF c = "threads" THEN ApplyThreads(p, resp)
       ELSE ApplyConversation(p, c, resp)]

\* Mutant of Emits: only the parent row counts.
EmitsForParent(resp, newRows, s) == WriteIfNewer(resp)

\* result.Applied: the parent was written, or a collection query or the
\* snapshot's count returned a row.
SnapshotChanged(s) == [s EXCEPT !.stamp = 0] # [snap EXCEPT !.stamp = 0]
Emits(resp, newRows, s) == WriteIfNewer(resp) \/ newRows # rows \/ SnapshotChanged(s)

Apply(n, endpoint) ==
    LET resp == hist[n]
        p == UpsertPullRequest(resp)
        s == IF "files" \in Known(endpoint) THEN UpsertChangeSnapshot(p, resp) ELSE snap
        newRows == AppliedRows(p, s, resp, Known(endpoint))
    IN  /\ pr' = p /\ snap' = s /\ rows' = newRows
        /\ emitted' = Emits(resp, newRows, s)
        /\ reported' = [c \in Collections |->
                          IF /\ c \in Known(endpoint)
                             /\ IF c \in {"files", "owners"} THEN SnapshotEligible(s, resp)
                                ELSE Eligible(p, resp)
                          THEN n ELSE reported[c]]
        /\ UNCHANGED hist

\* The queries of TombstonePullRequestObserved; the threads have none.
TombstonePullRequest == [pr EXCEPT !.live = FALSE]
TombstonePullRequestReviewRequests == Tombstoned(rows["requests"])
TombstonePullRequestReviews == Tombstoned(rows["reviews"])
TombstonePullRequestComments == Tombstoned(rows["comments"])
TombstonePullRequestFileOwners == Tombstoned(rows["owners"])
TombstonePullRequestChangedFiles == Tombstoned(rows["files"])
TombstonePullRequestChangeSnapshot == [snap EXCEPT !.live = FALSE]

Tombstone ==
    /\ pr.exists
    /\ IF pr.live
       THEN /\ pr' = TombstonePullRequest
            /\ rows' = [rows EXCEPT !["requests"] = TombstonePullRequestReviewRequests,
                                    !["reviews"] = TombstonePullRequestReviews,
                                    !["comments"] = TombstonePullRequestComments,
                                    !["owners"] = TombstonePullRequestFileOwners,
                                    !["files"] = TombstonePullRequestChangedFiles]
            /\ snap' = TombstonePullRequestChangeSnapshot
            /\ emitted' = TRUE
            /\ reported' = [c \in Collections |-> 0]
       ELSE emitted' = FALSE /\ UNCHANGED <<pr, rows, snap, reported>>
    /\ UNCHANGED hist

CacheNext ==
    \/ PushCommit \/ OwnersChange \/ Request \/ Review
    \/ \E c \in {"comments", "threads"} : Converse(c)
    \/ \E n \in 1 .. Len(hist), endpoint \in Endpoints : Apply(n, endpoint)
    \/ Tombstone

CacheSpec == CacheInit /\ [][CacheNext]_prCacheVars

-----------------------------------------------------------------------------

ItemOf(resp, c) == CASE c = "files" -> FileOf(resp) [] c = "owners" -> OwnerOf(resp)
                     [] OTHER -> resp[c]

(* C-C2: the live rows of a guarded collection are those of one response:  *)
(* a response older than the row adds nothing to them and takes nothing    *)
(* away, in whatever order the endpoints are heard.  An item the response  *)
(* lists is live unless the row holds a newer version of it.               *)
CollectionIsOneResponse ==
    pr.live =>
      \A c \in Guarded :
        reported[c] # 0 =>
          LET item == ItemOf(hist[reported[c]], c)
          IN  /\ rows[c].live => item > 0 /\ rows[c].val >= item
              /\ item > 0 /\ item >= rows[c].val => rows[c].live

\* The cache holds exactly GitHub's representation.
ShowsCurrent ==
    /\ pr.live /\ pr.head = Latest.head
    /\ snap.live /\ snap.head = Latest.head /\ snap.own = Latest.own
    /\ \A c \in Collections :
         LET item == ItemOf(Latest, c)
         IN  IF item = 0 THEN ~rows[c].live
             ELSE rows[c] = [live |-> TRUE, val |-> item, head |-> Latest.head]

(* Whatever stale responses, 404s and partial responses came before, one   *)
(* full refresh that hears the current representation leaves exactly that  *)
(* in the cache.                                                           *)
RefreshConverges == [][Apply(Len(hist), "graphql") => ShowsCurrent']_prCacheVars

Visible == <<pr.live, pr.head, snap.live, snap.head, snap.own,
             [c \in Collections |-> IF rows[c].live THEN rows[c] ELSE NoRow]>>

(* C-C3: a transaction that changes what consumers can see marks the       *)
(* derivation scope and emits an event.                                    *)
PullChangesAreEmitted == [][Visible' # Visible => emitted']_prCacheVars

(* C-C2, "a write is applied only if it is not older than the stored       *)
(* version": a response older than the stored pull request changes none of *)
(* its rows.  It does change the review threads, and the files and owners  *)
(* of a snapshot as old as itself.                                         *)
OlderResponseIsDiscarded ==
    [][\A n \in 1 .. Len(hist), endpoint \in Endpoints :
         Apply(n, endpoint) /\ pr.live /\ hist[n].stamp < pr.stamp => rows' = rows]_prCacheVars
=============================================================================
