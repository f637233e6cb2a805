-------------------------- MODULE RepositoryRefresh --------------------------
(***************************************************************************)
(* How the cached repository row follows its default branch.  Two jobs      *)
(* share the repository's refresh generation: the plain metadata refresh,   *)
(* and the head-observing one that a default-branch push inserts because    *)
(* its before-SHA hint cannot order two pushes (dispatcher.go:465).         *)
(* The plain job never asks GitHub for the head: it keeps the cached one    *)
(* (200) or writes back the row it read before its observation (304).       *)
(*                                                                         *)
(* The remote head is a number, the push r-1 -> r makes it r; the metadata  *)
(* version stands for updated_at and for the ETag, 0 being no ETag.         *)
(***************************************************************************)
EXTENDS RefreshQueue

CONSTANTS HeadObserving, \* the variant that observes the default branch's head
          MaxRemote, \* bound on default-branch pushes
          MaxMeta    \* bound on metadata versions

ASSUME TwoVariants == Variants = {Plain, HeadObserving} /\ HeadObserving # Plain
ASSUME RepoMaxRemote == MaxRemote \in Nat
ASSUME RepoMaxMeta == MaxMeta \in Nat \ {0}

VARIABLES remote,        \* GitHub's default-branch head and metadata version
          undelivered,   \* pushes whose webhook has not been dispatched
          row,           \* the cached repository row
          version,       \* entity_observation_versions.version
          exec           \* each variant's execution

repoVars == <<queueVars, remote, undelivered, row, version, exec>>

Rows == [head : 0..MaxRemote, at : 1..MaxMeta, etag : 0..MaxMeta]
NoRow == [head |-> 0, at |-> 1, etag |-> 0]
IdleExec == [pc |-> "idle", saved |-> NoRow, obs |-> 0, got |-> NoRow,
             keep |-> FALSE]

RepoInit ==
    /\ QueueInit
    /\ remote = [head |-> 0, meta |-> 1]
    /\ undelivered = {}
    /\ row = NoRow
    /\ version = 0
    /\ exec = [v \in Variants |-> IdleExec]

-----------------------------------------------------------------------------
RemotePush ==
    /\ remote.head < MaxRemote
    /\ remote' = [remote EXCEPT !.head = @ + 1]
    /\ undelivered' = undelivered \cup {remote.head + 1}
    /\ UNCHANGED <<queueVars, row, version, exec>>

RemoteEdit ==
    /\ remote.meta < MaxMeta
    /\ remote' = [remote EXCEPT !.meta = @ + 1]
    /\ UNCHANGED <<queueVars, undelivered, row, version, exec>>

\* A repository webhook, sweep or backfill asks for the metadata.
DispatchPlain ==
    /\ InsertRefreshes
    /\ UNCHANGED <<remote, undelivered, row, version, exec>>

\* A default-branch push r-1 -> r: the exact before-SHA hint, the claim of
\* the generation and the unique insert of the head-observing job.
DispatchPush(r) ==
    /\ r \in undelivered
    /\ undelivered' = undelivered \ {r}
    /\ row' = IF row.head = r - 1 THEN [row EXCEPT !.head = r, !.etag = 0]
              ELSE row
    /\ ClaimGeneration({HeadObserving})
    /\ UNCHANGED <<remote, version, exec>>

-----------------------------------------------------------------------------
(* refreshRepositoryOnce                                                   *)

StartRefresh(v) ==
    /\ Start(v)
    /\ exec' = [exec EXCEPT ![v] = [IdleExec EXCEPT !.pc = "started"]]
    /\ UNCHANGED <<remote, undelivered, row, version>>

\* writer.Repository, before the observation
ReadRow(v) ==
    /\ exec[v].pc = "started"
    /\ exec' = [exec EXCEPT ![v].pc = "read", ![v].saved = row]
    /\ UNCHANGED <<queueVars, remote, undelivered, row, version>>

BeginObservation(v) ==
    /\ exec[v].pc = "read"
    /\ exec' = [exec EXCEPT ![v].pc = "observed", ![v].obs = version]
    /\ UNCHANGED <<queueVars, remote, undelivered, row, version>>

\* GetRepository with the saved ETag: a 304 keeps the saved record, a 200
\* carries the new metadata and no head.
GetRepository(v) ==
    /\ exec[v].pc = "observed"
    /\ exec' = [exec EXCEPT
         ![v].pc = IF v = HeadObserving THEN "described" ELSE "fetched",
         ![v].keep = exec[v].saved.etag # remote.meta,
         ![v].got = IF exec[v].saved.etag = remote.meta THEN exec[v].saved
                    ELSE [head |-> 0, at |-> remote.meta, etag |-> remote.meta]]
    /\ UNCHANGED <<queueVars, remote, undelivered, row, version>>

\* GetBranchHead, only for ObserveDefaultBranchHead
GetBranchHead(v) ==
    /\ exec[v].pc = "described"
    /\ exec' = [exec EXCEPT ![v].pc = "fetched", ![v].keep = FALSE,
                            ![v].got.head = remote.head]
    /\ UNCHANGED <<queueVars, remote, undelivered, row, version>>

Superseded(v) == gen # started[v] /\ done > started[v]

\* UpsertRepositoryWriteIfNewer: an empty head keeps the cached one, and a
\* record of the stored updated_at is written when it differs.
Upsert(new, keep) ==
    LET head == IF keep THEN row.head ELSE new.head
    IN  IF new.at > row.at \/ (new.at = row.at /\ head # row.head)
        THEN [head |-> head, at |-> new.at, etag |-> new.etag]
        ELSE row

\* Written or not, the observed ETag is stored unless it is empty.
TouchRepositoryCheckedAt(r, etag) ==
    IF etag = 0 THEN r ELSE [r EXCEPT !.etag = etag]

\* ApplyRepositoryObserved
ApplyRepository(v) ==
    /\ exec[v].pc = "fetched"
    /\ exec[v].obs = version
    /\ IF Superseded(v) THEN UNCHANGED <<row, version>>
       ELSE /\ row' = TouchRepositoryCheckedAt(Upsert(exec[v].got, exec[v].keep),
                                              exec[v].got.etag)
            /\ version' = version + 1
    /\ exec' = [exec EXCEPT ![v].pc = "applied"]
    /\ UNCHANGED <<queueVars, remote, undelivered>>

\* retrySupersededObservation
RetryObservation(v) ==
    /\ exec[v].pc = "fetched"
    /\ exec[v].obs # version
    /\ exec' = [exec EXCEPT ![v].pc = "started"]
    /\ UNCHANGED <<queueVars, remote, undelivered, row, version>>

Complete(v) ==
    /\ exec[v].pc = "applied"
    /\ CompleteRefresh(v)
    /\ exec' = [exec EXCEPT ![v] = IdleExec]
    /\ UNCHANGED <<remote, undelivered, row, version>>

Fail(v) ==
    /\ RetryJob(v) \/ DiscardJob(v)
    /\ exec' = [exec EXCEPT ![v] = IdleExec]
    /\ UNCHANGED <<remote, undelivered, row, version>>

Reconcile ==
    /\ ListOutstanding \/ ReinsertPointer
    /\ UNCHANGED <<remote, undelivered, row, version, exec>>

-----------------------------------------------------------------------------
RepoNext ==
    \/ RemotePush \/ RemoteEdit \/ DispatchPlain
    \/ \E r \in undelivered : DispatchPush(r)
    \/ \E v \in Variants :
          \/ StartRefresh(v) \/ ReadRow(v) \/ BeginObservation(v)
          \/ GetRepository(v) \/ GetBranchHead(v)
          \/ ApplyRepository(v) \/ RetryObservation(v) \/ Complete(v) \/ Fail(v)
    \/ Reconcile

RepoSpec == RepoInit /\ [][RepoNext]_repoVars

\* River runs queued jobs, an execution's steps happen, the reconciler is
\* periodic.
RepoFairness ==
    /\ \A v \in Variants :
         /\ WF_repoVars(StartRefresh(v))
         /\ WF_repoVars(\/ ReadRow(v) \/ BeginObservation(v)
                        \/ GetRepository(v) \/ GetBranchHead(v)
                        \/ ApplyRepository(v) \/ RetryObservation(v)
                        \/ Complete(v))
    /\ WF_repoVars(Reconcile)

FairRepoSpec == RepoSpec /\ RepoFairness

-----------------------------------------------------------------------------
(* Properties                                                              *)

Idle == ~Outstanding /\ \A v \in Variants : ~Live(v)

\* dispatcher.go:465: the head-observing job closes the gap that before-SHA
\* hints leave when linked pushes arrive in reverse order.
HeadConverges ==
    Idle /\ undelivered = {} => row.head = remote.head

=============================================================================
