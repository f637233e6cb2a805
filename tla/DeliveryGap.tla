----------------------------- MODULE DeliveryGap -----------------------------
(***************************************************************************)
(* The delivery-gap healer (internal/sweep/gap.go): it walks GitHub's list  *)
(* of App webhook deliveries, newest first, compares it with the stored     *)
(* deliveries and asks GitHub to redeliver what never arrived.  A cheap     *)
(* incremental pass stops at the boundary, the newest delivery of the last  *)
(* completed pass; a deep pass reads the whole lookback.  A pass is cut     *)
(* into pages and jobs: its cursor lives in gap_heal_cursors and every      *)
(* write of it is conditional on the cursor and on the lease token.         *)
(*                                                                         *)
(* Deliveries are numbered by identity, not by place: one that is listed    *)
(* late appears behind newer ones.                                          *)
(***************************************************************************)
EXTENDS Naturals, Sequences, FiniteSets

CONSTANTS Jobs,        \* executions of gap-heal jobs that can overlap
          PageSize,    \* Config.GapPageSize
          MaxPages,    \* Config.GapMaxPages
          MaxId,       \* bound on listed deliveries
          MaxLate,     \* bound on deliveries that are listed late
          MaxLost,     \* bound on deliveries missing at a time
          MaxOld,      \* bound on deliveries that age out
          MaxTokens,   \* bound on lease tokens, one per kickoff
          MaxGapFaults \* bound on crashes and expired leases

ASSUME GapConstants == PageSize \in Nat \ {0} /\ MaxId \in Nat

VARIABLES listing,       \* ids GitHub lists, newest first
          late,          \* ids that were listed late
          old,           \* ids delivered before the lookback
          lost,          \* ids whose delivery is not stored
          asked,         \* ids GitHub was asked to redeliver and has not
          window,        \* the gap_heal_cursors row
          exec,          \* job executions
          continuation,  \* scheduled continuation jobs
          tokens,        \* lease tokens drawn
          gapFaults,
          owed           \* ids a running deep pass must examine (history)

gapVars == <<listing, late, old, lost, asked, window, exec, continuation,
             tokens, gapFaults, owed>>
githubVars == <<listing, late, old, lost>>

Root == 0            \* the empty cursor
NoToken == 0
Listed == {listing[i] : i \in DOMAIN listing}
IdleExec == [pc |-> "idle", token |-> NoToken, cursor |-> Root, deep |-> FALSE,
             boundary |-> 0, top |-> 0, pages |-> 0, restarted |-> FALSE,
             cutoff |-> {}, page |-> <<>>, next |-> Root, loaded |-> Root]

GapInit ==
    /\ listing = <<>>
    /\ late = {}
    /\ old = {}
    /\ lost = {}
    /\ asked = {}
    /\ window = [open |-> FALSE, cursor |-> Root, deep |-> FALSE, boundary |-> 0,
                 top |-> 0, token |-> NoToken, live |-> FALSE, cutoff |-> {}]
    /\ exec = [j \in Jobs |-> IdleExec]
    /\ continuation = {}
    /\ tokens = 0
    /\ gapFaults = 0
    /\ owed = {}

Fault == gapFaults < MaxGapFaults /\ gapFaults' = gapFaults + 1

-----------------------------------------------------------------------------
(* GitHub                                                                  *)

\* A delivery is made, stored or lost, and listed first; or listed late,
\* behind "ahead" newer ones.  The list is ordered by delivery time, and
\* deliveries are numbered as they are made.
Deliver(id, ahead, stored) ==
    /\ id \notin Listed \cup old
    /\ 1..id - 1 \subseteq Listed \cup old
    /\ ahead > 0 => Cardinality(late) < MaxLate
    /\ stored \/ Cardinality(lost) < MaxLost
    /\ \A i \in 1..ahead : listing[i] \notin old
    /\ listing' = SubSeq(listing, 1, ahead) \o <<id>>
                    \o SubSeq(listing, ahead + 1, Len(listing))
    /\ late' = IF ahead > 0 THEN late \cup {id} ELSE late
    /\ lost' = IF stored THEN lost ELSE lost \cup {id}
    /\ UNCHANGED <<old, asked, window, exec, continuation, tokens, gapFaults,
                   owed>>

\* The asked-for redelivery is stored.
Redelivered(id) ==
    /\ id \in asked \cap lost
    /\ lost' = lost \ {id}
    /\ asked' = asked \ {id}
    /\ UNCHANGED <<listing, late, old, window, exec, continuation, tokens,
                   gapFaults, owed>>

\* The oldest delivery leaves the lookback, and then GitHub's list.
Age(id) ==
    /\ listing # <<>>
    /\ \E i \in DOMAIN listing :
          /\ listing[i] = id
          /\ id \notin old
          /\ \A k \in i + 1..Len(listing) : listing[k] \in old
    /\ Cardinality(old) < MaxOld
    /\ old' = old \cup {id}
    /\ UNCHANGED <<listing, late, lost, asked, window, exec, continuation,
                   tokens, gapFaults, owed>>

Forget ==
    /\ listing # <<>>
    /\ listing[Len(listing)] \in old
    /\ listing' = SubSeq(listing, 1, Len(listing) - 1)
    /\ UNCHANGED <<late, old, lost, asked, window, exec, continuation, tokens,
                   gapFaults, owed>>

\* A page of the list after the cursor.
PageAfter(c) ==
    LET from == IF c = Root THEN 0
                ELSE CHOOSE i \in DOMAIN listing : listing[i] = c
        to == IF from + PageSize < Len(listing) THEN from + PageSize
              ELSE Len(listing)
    IN  SubSeq(listing, from + 1, to)

\* The Link header names no next page after the last delivery.
NextCursor(page) ==
    IF page = <<>> \/ page[Len(page)] = listing[Len(listing)] THEN Root
    ELSE page[Len(page)]

-----------------------------------------------------------------------------
(* HealDeliveryGaps                                                        *)

\* The execution works on the row it has started, claimed or restarted.
Load(j, w, n) ==
    [exec EXCEPT ![j] =
       [IdleExec EXCEPT !.pc = "list", !.token = w.token, !.cursor = w.cursor,
                        !.deep = w.deep, !.boundary = w.boundary, !.top = w.top,
                        !.cutoff = w.cutoff, !.pages = n, !.loaded = w.cursor]]

\* StartGapHealCursor.  A pass is deep when a deep scan is due or no boundary
\* is known; "far" is a deep pass whose cutoff reaches back to the one before
\* (gapDeepCutoff), "reshaped" one after a change of version, lookback or page
\* size, which drops the boundary.
Modes == {"incremental", "deep", "far", "reshaped"}

StartGapHealCursor(token, mode) ==
    [open |-> TRUE, cursor |-> Root,
     deep |-> mode # "incremental" \/ window.boundary = 0,
     boundary |-> IF mode = "reshaped" THEN 0 ELSE window.boundary,
     top |-> 0, token |-> token, live |-> TRUE,
     cutoff |-> IF mode = "far" THEN {} ELSE old]

\* A job takes over the open window where it stands.
ClaimGapHealCursor(token) == [window EXCEPT !.token = token, !.live = TRUE]

\* Another execution of the same continuation is alive.
SharesToken(j, token) == \E k \in Jobs \ {j} : exec[k].token = token

\* loadOrStartGapWindow for job arguments (cursor, token): a continuation of
\* a completed window or of another cursor is inert, and so is a job that
\* finds another one's live lease.  An open window is claimed as it is, or
\* restarted deep when it is older than the lookback or reshaped.
LoadOrStart(j, token, cursor, mode) ==
    LET starts == ~window.open \/ mode # "incremental"
    IN  /\ exec[j].pc = "idle"
        /\ IF window.open
           THEN /\ cursor \in {Root, window.cursor}
                /\ window.token = token \/ ~window.live
           ELSE cursor = Root
        /\ window' = IF starts THEN StartGapHealCursor(token, mode)
                     ELSE ClaimGapHealCursor(token)
        /\ exec' = Load(j, window', 0)
        /\ owed' = IF SharesToken(j, token) /\ (starts \/ window.token # token) THEN {}
                   ELSE IF starts THEN Listed ELSE owed

Kickoff(j, mode) ==
    /\ tokens < MaxTokens
    /\ tokens' = tokens + 1
    /\ LoadOrStart(j, tokens + 1, Root, mode)
    /\ UNCHANGED <<githubVars, asked, continuation, gapFaults>>

\* River runs a continuation job, and again when it lost track of the run.
Continue(j, c, mode) ==
    /\ LoadOrStart(j, c.token, c.cursor, mode)
    /\ \/ continuation' = continuation \ {c} /\ gapFaults' = gapFaults
       \/ Fault /\ continuation' = continuation
    /\ UNCHANGED <<githubVars, asked, tokens>>

ListDeliveries(j) ==
    /\ exec[j].pc = "list"
    /\ exec[j].cursor \in {Root} \cup Listed
    /\ LET page == PageAfter(exec[j].cursor)
       IN  exec' = [exec EXCEPT
             ![j].pc = "compare", ![j].page = page,
             ![j].next = NextCursor(page), ![j].pages = @ + 1,
             ![j].top = IF exec[j].cursor = Root /\ @ = 0 /\ page # <<>>
                        THEN page[1] ELSE @]
    /\ UNCHANGED <<githubVars, asked, window, continuation, tokens, gapFaults,
                   owed>>

\* The condition of every cursor write, with the cursor it expects.
OwnsWindow(j, expected) ==
    /\ window.open
    /\ window.cursor = expected
    /\ window.token = exec[j].token

RestartGapHealCursor == [window EXCEPT !.cursor = Root, !.top = 0, !.live = TRUE]

\* GitHub rejects the cursor (422): the pass restarts from the root, once per
\* job.  restartGapWindow expects the cursor the job loaded, so a job that
\* has advanced fails instead, as it does without the lease.
RestartWindow(j) ==
    /\ exec[j].pc = "list"
    /\ exec[j].cursor \notin {Root} \cup Listed
    /\ IF ~exec[j].restarted /\ OwnsWindow(j, exec[j].loaded)
       THEN /\ window' = RestartGapHealCursor
            /\ exec' = [Load(j, window', exec[j].pages) EXCEPT
                          ![j].restarted = TRUE]
       ELSE window' = window /\ exec' = [exec EXCEPT ![j] = IdleExec]
    /\ UNCHANGED <<githubVars, asked, continuation, tokens, gapFaults, owed>>

\* The entries of the page a pass acts on.
Candidates(j) ==
    {exec[j].page[i] : i \in DOMAIN exec[j].page} \ exec[j].cutoff

ListExistingWebhookDeliveryGUIDs(ids) == ids \ lost

\* What the page lists and the database does not have.
MissingOf(j) == Candidates(j) \ ListExistingWebhookDeliveryGUIDs(Candidates(j))

\* redeliverMissing
RedeliverMissing(j) ==
    /\ exec[j].pc = "compare"
    /\ asked' = asked \cup MissingOf(j)
    /\ exec' = [exec EXCEPT ![j].pc = "advance"]
    /\ UNCHANGED <<githubVars, window, continuation, tokens, gapFaults, owed>>

\* One request fails: the rest of the page is not asked for.
RedeliverFails(j) ==
    /\ exec[j].pc = "compare"
    /\ Fault
    /\ \E done \in SUBSET MissingOf(j) : asked' = asked \cup done
    /\ exec' = [exec EXCEPT ![j] = IdleExec]
    /\ UNCHANGED <<githubVars, window, continuation, tokens, owed>>

ReachedBoundary(j) ==
    /\ exec[j].boundary # 0
    /\ \E i \in DOMAIN exec[j].page : exec[j].page[i] = exec[j].boundary

ReachedLookbackEnd(j) == exec[j].page # <<>> /\ Candidates(j) = {}

PassEndsEarly(j) ==
    exec[j].next = Root \/ ReachedBoundary(j) \/ ReachedLookbackEnd(j)

\* The reasons to end a pass after a page.
PassEnds(j) ==
    \/ exec[j].next = Root
    \/ ~exec[j].deep /\ ReachedBoundary(j)
    \/ ReachedLookbackEnd(j)

\* The newest delivery of the pass is the one its first page began with.
AdvanceGapHealCursor(next, top) ==
    [window EXCEPT !.cursor = next, !.live = TRUE, !.top = IF @ = 0 THEN top ELSE @]

\* advanceGapWindow: the page is behind us; at the cap the rest is left to a
\* continuation job with the same token.  A lost window fails the job.
Advance(j) ==
    LET next == exec[j].next
        capped == exec[j].pages = MaxPages
    IN  /\ exec[j].pc = "advance"
        /\ ~PassEnds(j)
        /\ IF OwnsWindow(j, exec[j].cursor)
           THEN /\ window' = AdvanceGapHealCursor(next, exec[j].top)
                /\ exec' = [exec EXCEPT ![j] =
                              IF capped THEN IdleExec
                              ELSE [@ EXCEPT !.pc = "list", !.cursor = next]]
                /\ continuation' = IF capped
                     THEN continuation \cup
                            {[cursor |-> next, token |-> exec[j].token]}
                     ELSE continuation
           ELSE /\ exec' = [exec EXCEPT ![j] = IdleExec]
                /\ UNCHANGED <<window, continuation>>
        /\ UNCHANGED <<githubVars, asked, tokens, gapFaults, owed>>

FirstNonZero(a, b, c) == IF a # 0 THEN a ELSE IF b # 0 THEN b ELSE c

\* The pass's newest delivery becomes the boundary of the next ones.
CompleteGapHealCursor(top) ==
    [window EXCEPT !.open = FALSE, !.cursor = Root, !.top = 0, !.token = NoToken,
                   !.live = FALSE,
                   !.boundary = FirstNonZero(window.top, top, @)]

CompleteUnfenced(j) ==
    /\ exec[j].pc = "advance"
    /\ PassEnds(j)
    /\ window' = CompleteGapHealCursor(exec[j].top)
    /\ exec' = [exec EXCEPT ![j] = IdleExec]
    /\ UNCHANGED <<githubVars, asked, continuation, tokens, gapFaults, owed>>

\* completeGapWindow
Complete(j) ==
    /\ exec[j].pc = "advance"
    /\ PassEnds(j)
    /\ window' = IF OwnsWindow(j, exec[j].cursor)
                 THEN CompleteGapHealCursor(exec[j].top) ELSE window
    /\ exec' = [exec EXCEPT ![j] = IdleExec]
    /\ UNCHANGED <<githubVars, asked, continuation, tokens, gapFaults, owed>>

\* An error, a crash, or a lease renewal that finds the window taken.
FailJob(j) ==
    /\ exec[j].pc # "idle"
    /\ Fault
    /\ exec' = [exec EXCEPT ![j] = IdleExec]
    /\ UNCHANGED <<githubVars, asked, window, continuation, tokens, owed>>

\* The clock passes lease_until before the holder renews.
LeaseExpires ==
    /\ window.live
    /\ Fault
    /\ window' = [window EXCEPT !.live = FALSE]
    /\ UNCHANGED <<githubVars, asked, exec, continuation, tokens, owed>>

RenewGapHealLease == [window EXCEPT !.live = TRUE]

\* maintainGapLease: also an expired lease that nobody took is renewed.
RenewLease(j) ==
    /\ exec[j].pc # "idle"
    /\ window.open
    /\ window.token = exec[j].token
    /\ window' = RenewGapHealLease
    /\ UNCHANGED <<githubVars, asked, exec, continuation, tokens, gapFaults, owed>>

-----------------------------------------------------------------------------
GapNext ==
    \/ \E id \in 1..MaxId, ahead \in 0..Len(listing), stored \in BOOLEAN :
          Deliver(id, ahead, stored)
    \/ \E id \in Listed : Redelivered(id) \/ Age(id)
    \/ Forget
    \/ \E j \in Jobs :
          \/ \E mode \in Modes : Kickoff(j, mode)
          \/ \E c \in continuation, mode \in Modes : Continue(j, c, mode)
          \/ ListDeliveries(j) \/ RestartWindow(j) \/ RedeliverMissing(j)
          \/ RedeliverFails(j) \/ Advance(j) \/ Complete(j)
          \/ FailJob(j) \/ RenewLease(j)
    \/ LeaseExpires

GapSpec == GapInit /\ [][GapNext]_gapVars

-----------------------------------------------------------------------------
(* Properties                                                              *)

Behind(id, b) ==
    \E i, k \in DOMAIN listing : listing[k] = b /\ listing[i] = id /\ i >= k

Cared(id) == id \notin lost \/ id \in asked

\* gap.go:114-122: an incremental pass may stop at the boundary because
\* everything from there on was examined before: no delivery at or behind
\* the boundary is missing without a redelivery request, unless it was
\* listed late or has left the lookback.  Crashes, lost leases, several jobs
\* per pass and rejected cursors included.
BoundaryCovers ==
    \A id \in Listed \ (late \cup old) :
        window.boundary # 0 /\ Behind(id, window.boundary) => Cared(id)

\* gap.go:118-119: a completed deep pass has also taken care of every delivery
\* that was listed late behind the boundary before the pass began.  Nothing
\* is promised of a window that a continuation restarts, or takes back from
\* another job, under its own token while River still runs an earlier
\* execution of that continuation: cursor and token do not tell the passes of
\* the two apart.
DeepPassCovers ==
    [][ window.open /\ ~window'.open /\ window.deep =>
          \A id \in (owed \cap Listed) \ old : Cared(id) ]_gapVars
=============================================================================
