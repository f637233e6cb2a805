----------------------------- MODULE PassProofs -----------------------------
(***************************************************************************)
(* What passes in the background leave behind, for every value of the      *)
(* constants: derivation passes (Derivation) and gap-heal passes           *)
(* (DeliveryGap).                                                          *)
(*                                                                         *)
(* For any pull requests, stacks, writers and passes, a scope without a    *)
(* mark has the work items of the current rows.  The argument: the writer  *)
(* that will change a row waits for, or holds, the lock on the mark of     *)
(* every scope the change is visible in; a pass holds the lock on the      *)
(* marks it claimed; so no change visible in a scope commits between a     *)
(* pass's snapshot of it and the pass's commit.                            *)
(*                                                                         *)
(* The boundary of the gap healer covers what is behind it: see GapInv.    *)
(***************************************************************************)
EXTENDS Derivation, DeliveryGap, TLAPS

-----------------------------------------------------------------------------
(* The inductive invariant                                                 *)

DeriveTypeOK ==
    /\ pull \in [Pulls -> PullRows]
    /\ DOMAIN stack = Stacks
    /\ dirty \subseteq Scopes
    /\ rowLock \in [Scopes -> Writers \cup Derivers \cup {None}]
    /\ tx = [w \in Writers |->
               [pc |-> tx[w].pc, kind |-> tx[w].kind, of |-> tx[w].of,
                row |-> tx[w].row, scopes |-> tx[w].scopes]]
    /\ pass = [d \in Derivers |->
                 [pc |-> pass[d].pc, scopes |-> pass[d].scopes,
                  snapshot |-> pass[d].snapshot]]
    /\ \A d \in Derivers : pass[d].scopes \subseteq Scopes
    /\ \A w \in Writers : tx[w].pc # "idle" =>
         /\ tx[w].kind = "pull" => tx[w].of \in Pulls
         /\ tx[w].kind = "stack" => tx[w].of \in Stacks

\* A pass holds the locks on the marks it has claimed.
ClaimsAreLocked ==
    \A d \in Derivers : \A s \in pass[d].scopes : rowLock[s] = d

\* The scopes in which the row of a transaction, old or new, is visible.
VisibleIn(w) ==
    CASE tx[w].kind = "pull" ->
           {DerivationScope(tx[w].of, row) :
              row \in {r \in {pull[tx[w].of], tx[w].row} : r.live}}
      [] tx[w].kind = "stack" -> {<<"stack", tx[w].of>>}
      [] OTHER -> {}

\* A writer waits for the mark of every such scope, or has it locked.
WritesAreMarked ==
    \A w \in Writers : tx[w].pc = "mark" =>
        /\ tx[w].kind = "pull" => tx[w].row \in PullRows
        /\ VisibleIn(w) \subseteq tx[w].scopes \cup LockedBy(w)

\* The advisory lock: the entity of a transaction is no other's.
EntitiesAreExclusive ==
    \A v, w \in Writers :
        v # w /\ tx[v].pc # "idle" /\ tx[w].pc # "idle" =>
          tx[v].kind # tx[w].kind \/ tx[v].of # tx[w].of

\* What a pass has loaded is still what the rows say.
SnapshotsAreCurrent ==
    \A d \in Derivers : pass[d].pc = "loaded" =>
        \A s \in pass[d].scopes : pass[d].snapshot[s] = Snapshot(s)

DeriveInv ==
    /\ DeriveTypeOK /\ ClaimsAreLocked /\ WritesAreMarked
    /\ EntitiesAreExclusive /\ SnapshotsAreCurrent /\ DirtyCoversCache

\* Initially nothing is under way and every work item is fresh.
LEMMA DeriveInitInv == DeriveInit => DeriveInv
<1> SUFFICES ASSUME DeriveInit PROVE DeriveInv
  BY Zenon
<1>1. DeriveTypeOK
  <2>1. pull \in [Pulls -> PullRows]
    <3>1. {[live |-> TRUE, stack |-> None, head |-> h] : h \in Heads}
             \subseteq PullRows
      <4> SUFFICES ASSUME NEW h \in Heads
                   PROVE  [live |-> TRUE, stack |-> None, head |-> h] \in PullRows
        BY Zenon
      <4> QED
        BY Zenon DEF PullRows
    <3> QED
      BY Zenon, <3>1 DEF DeriveInit
  <2>2. tx = [w \in Writers |->
               [pc |-> tx[w].pc, kind |-> tx[w].kind, of |-> tx[w].of,
                row |-> tx[w].row, scopes |-> tx[w].scopes]]
    BY Zenon DEF DeriveInit, IdleTx
  <2>3. pass = [d \in Derivers |->
                 [pc |-> pass[d].pc, scopes |-> pass[d].scopes,
                  snapshot |-> pass[d].snapshot]]
    BY Zenon DEF DeriveInit, IdlePass
  <2> QED
    BY Zenon, <2>1, <2>2, <2>3 DEF DeriveInit, DeriveTypeOK, IdleTx, IdlePass
<1>2. ClaimsAreLocked /\ SnapshotsAreCurrent
  BY Zenon DEF DeriveInit, ClaimsAreLocked, SnapshotsAreCurrent, IdlePass
<1>3. WritesAreMarked /\ EntitiesAreExclusive
  BY Zenon DEF DeriveInit, WritesAreMarked, EntitiesAreExclusive, IdleTx
<1>4. DirtyCoversCache
  BY Zenon DEF DeriveInit, DirtyCoversCache
<1> QED
  BY Zenon, <1>1, <1>2, <1>3, <1>4 DEF DeriveInv

-----------------------------------------------------------------------------
(* Snapshots                                                               *)

\* A step that leaves the cached rows alone leaves every snapshot alone.
LEMMA SnapshotKept ==
    ASSUME UNCHANGED cacheVars, NEW s
    PROVE  Snapshot(s)' = Snapshot(s)
  BY Zenon DEF Snapshot, DerivationScope, cacheVars

\* A new row of a pull request shows in no scope but those in which the old
\* or the new row is live.
LEMMA PullSnapshot ==
    ASSUME NEW p \in Pulls, NEW row, pull \in [Pulls -> PullRows],
           pull' = [pull EXCEPT ![p] = row], stack' = stack, NEW s,
           pull[p].live => s # DerivationScope(p, pull[p]),
           row.live => s # DerivationScope(p, row)
    PROVE  Snapshot(s)' = Snapshot(s)
<1>1. \A q \in Pulls :
        (pull'[q].live /\ DerivationScope(q, pull'[q]) = s)
          <=> (pull[q].live /\ DerivationScope(q, pull[q]) = s)
  BY Zenon DEF DerivationScope
<1>2. \A q \in Pulls :
        pull'[q].live /\ DerivationScope(q, pull'[q]) = s
          => pull'[q].head = pull[q].head
  BY Zenon DEF DerivationScope
<1>3. {q \in Pulls : pull'[q].live /\ DerivationScope(q, pull'[q]) = s}
        = {q \in Pulls : pull[q].live /\ DerivationScope(q, pull[q]) = s}
  BY Zenon, <1>1
<1> QED
  BY ZenonT(120), <1>2, <1>3 DEF Snapshot, DerivationScope

\* A new row of a stack shows in the stack's scope only.
LEMMA StackSnapshot ==
    ASSUME NEW n \in Stacks, NEW row, DOMAIN stack = Stacks,
           stack' = [stack EXCEPT ![n] = row], pull' = pull,
           NEW s \in Scopes, s # <<"stack", n>>
    PROVE  Snapshot(s)' = Snapshot(s)
<1>1. s[1] = "stack" => stack'[s[2]] = stack[s[2]]
  BY DEF Scopes
<1> QED
  BY Zenon, <1>1 DEF Snapshot, DerivationScope

-----------------------------------------------------------------------------
(* Entity writers                                                          *)

\* What a step that moves only the fence preserves.
LEMMA FenceStepInv ==
    ASSUME DeriveInv, UNCHANGED <<cacheVars, dirty, rowLock, items, tx, pass>>
    PROVE  DeriveInv'
<1>1. \A s : Snapshot(s)' = Snapshot(s)
  BY Zenon, SnapshotKept
<1>2. DeriveTypeOK' /\ ClaimsAreLocked' /\ EntitiesAreExclusive'
  BY Zenon DEF DeriveInv, DeriveTypeOK, ClaimsAreLocked, EntitiesAreExclusive, cacheVars
<1>3. WritesAreMarked'
  BY DEF DeriveInv, WritesAreMarked, VisibleIn, LockedBy, DerivationScope, cacheVars
<1>4. SnapshotsAreCurrent' /\ DirtyCoversCache'
  BY Zenon, <1>1 DEF DeriveInv, SnapshotsAreCurrent, DirtyCoversCache
<1> QED
  BY Zenon, <1>2, <1>3, <1>4 DEF DeriveInv

\* The states of the writers keep their shape when one of them takes a step.
LEMMA TxIsTyped ==
    ASSUME DeriveTypeOK, NEW w \in Writers,
           tx' = [tx EXCEPT ![w] = tx'[w]],
           tx'[w] = [pc |-> tx'[w].pc, kind |-> tx'[w].kind, of |-> tx'[w].of,
                     row |-> tx'[w].row, scopes |-> tx'[w].scopes],
           \A v \in Writers \ {w} : tx'[v] = tx[v],
           tx'[w].kind = "pull" => tx'[w].of \in Pulls,
           tx'[w].kind = "stack" => tx'[w].of \in Stacks
    PROVE  /\ tx' = [v \in Writers |->
                       [pc |-> tx'[v].pc, kind |-> tx'[v].kind, of |-> tx'[v].of,
                        row |-> tx'[v].row, scopes |-> tx'[v].scopes]]
           /\ \A v \in Writers : tx'[v].pc # "idle" =>
                /\ tx'[v].kind = "pull" => tx'[v].of \in Pulls
                /\ tx'[v].kind = "stack" => tx'[v].of \in Stacks
<1>1. tx' = [v \in Writers |-> tx'[v]]
  BY Zenon DEF DeriveTypeOK
<1>2. ASSUME NEW v \in Writers
      PROVE  /\ tx'[v] = [pc |-> tx'[v].pc, kind |-> tx'[v].kind, of |-> tx'[v].of,
                          row |-> tx'[v].row, scopes |-> tx'[v].scopes]
             /\ tx'[v].pc # "idle" =>
                  /\ tx'[v].kind = "pull" => tx'[v].of \in Pulls
                  /\ tx'[v].kind = "stack" => tx'[v].of \in Stacks
  <2>1. CASE v = w
    BY Zenon, <2>1
  <2>2. CASE v # w
    <3>1. /\ tx[v] = [pc |-> tx[v].pc, kind |-> tx[v].kind, of |-> tx[v].of,
                      row |-> tx[v].row, scopes |-> tx[v].scopes]
          /\ tx[v].pc # "idle" =>
               /\ tx[v].kind = "pull" => tx[v].of \in Pulls
               /\ tx[v].kind = "stack" => tx[v].of \in Stacks
      BY Zenon DEF DeriveTypeOK
    <3> QED
      BY Zenon, <2>2, <3>1
  <2> QED
    BY Zenon, <2>1, <2>2
<1> QED
  BY Zenon, <1>1, <1>2

\* A transaction begins on an entity nobody else has.
LEMMA BeginEntityTxInv ==
    ASSUME DeriveInv, NEW w \in Writers, NEW kind \in Kinds[w],
           NEW of \in Targets(kind), BeginEntityTx(w, kind, of)
    PROVE  DeriveInv'
<1>1. /\ tx[w].pc = "idle"
      /\ \A v \in Writers : tx[v].kind # kind \/ tx[v].of # of
      /\ UNCHANGED <<cacheVars, dirty, rowLock, items, pass>>
  BY Zenon DEF BeginEntityTx
<1>2. /\ tx' = [tx EXCEPT ![w] = tx'[w]]
      /\ tx'[w] = [pc |-> "begun", kind |-> kind, of |-> of, row |-> None,
                   scopes |-> {}]
      /\ \A v \in Writers \ {w} : tx'[v] = tx[v]
  BY Zenon DEF BeginEntityTx, IdleTx, DeriveInv, DeriveTypeOK
<1>3. (kind = "pull" => of \in Pulls) /\ (kind = "stack" => of \in Stacks)
  BY Zenon DEF Targets
<1>4. DeriveTypeOK'
  <2>1. /\ tx' = [v \in Writers |->
                    [pc |-> tx'[v].pc, kind |-> tx'[v].kind, of |-> tx'[v].of,
                     row |-> tx'[v].row, scopes |-> tx'[v].scopes]]
        /\ \A v \in Writers : tx'[v].pc # "idle" =>
             /\ tx'[v].kind = "pull" => tx'[v].of \in Pulls
             /\ tx'[v].kind = "stack" => tx'[v].of \in Stacks
    <3>1. /\ tx'[w] = [pc |-> tx'[w].pc, kind |-> tx'[w].kind, of |-> tx'[w].of,
                       row |-> tx'[w].row, scopes |-> tx'[w].scopes]
          /\ tx'[w].kind = kind /\ tx'[w].of = of
      BY <1>2
    <3> QED
      BY Zenon, <1>2, <1>3, <3>1, TxIsTyped DEF DeriveInv
  <2> QED
    BY Zenon, <1>1, <2>1 DEF DeriveInv, DeriveTypeOK, cacheVars
<1>5. WritesAreMarked'
  BY <1>1, <1>2 DEF DeriveInv, WritesAreMarked, VisibleIn, LockedBy,
                    DerivationScope, cacheVars
<1>6. EntitiesAreExclusive'
  BY <1>1, <1>2 DEF DeriveInv, EntitiesAreExclusive
<1>7. ClaimsAreLocked' /\ SnapshotsAreCurrent' /\ DirtyCoversCache'
  BY Zenon, <1>1, SnapshotKept
     DEF DeriveInv, ClaimsAreLocked, SnapshotsAreCurrent, DirtyCoversCache
<1> QED
  BY Zenon, <1>4, <1>5, <1>6, <1>7 DEF DeriveInv

\* A writer that plans to mark every scope its row is visible in.
LEMMA ApplyInv ==
    ASSUME DeriveInv, NEW w \in Writers, NEW kind, NEW row, NEW scopes,
           Apply(w, kind, row, scopes),
           kind = "pull" =>
             /\ row \in PullRows
             /\ pull[tx[w].of].live =>
                  DerivationScope(tx[w].of, pull[tx[w].of]) \in scopes
             /\ row.live => DerivationScope(tx[w].of, row) \in scopes,
           kind = "stack" => <<"stack", tx[w].of>> \in scopes
    PROVE  DeriveInv'
<1>1. /\ tx[w].pc = "begun" /\ tx[w].kind = kind
      /\ UNCHANGED <<cacheVars, dirty, rowLock, items, pass>>
  BY Zenon DEF Apply
<1>2. /\ tx' = [tx EXCEPT ![w] = tx'[w]]
      /\ tx'[w] = [pc |-> "mark", kind |-> kind, of |-> tx[w].of, row |-> row,
                   scopes |-> scopes]
      /\ \A v \in Writers \ {w} : tx'[v] = tx[v]
  <2>1. /\ DOMAIN tx = Writers
        /\ tx[w] = [pc |-> tx[w].pc, kind |-> tx[w].kind, of |-> tx[w].of,
                    row |-> tx[w].row, scopes |-> tx[w].scopes]
    BY Zenon DEF DeriveInv, DeriveTypeOK
  <2>2. tx' = [tx EXCEPT ![w].pc = "mark", ![w].row = row, ![w].scopes = scopes]
    BY Zenon DEF Apply
  <2> QED
    BY Zenon, <1>1, <2>1, <2>2
<1>3. DeriveTypeOK'
  <2>1. tx[w].pc # "idle" =>
          (tx[w].kind = "pull" => tx[w].of \in Pulls) /\ (tx[w].kind = "stack" => tx[w].of \in Stacks)
    BY Zenon DEF DeriveInv, DeriveTypeOK
  <2>2. tx[w].pc # "idle"
    BY Zenon, <1>1
  <2>3. /\ tx' = [v \in Writers |->
                    [pc |-> tx'[v].pc, kind |-> tx'[v].kind, of |-> tx'[v].of,
                     row |-> tx'[v].row, scopes |-> tx'[v].scopes]]
        /\ \A v \in Writers : tx'[v].pc # "idle" =>
             /\ tx'[v].kind = "pull" => tx'[v].of \in Pulls
             /\ tx'[v].kind = "stack" => tx'[v].of \in Stacks
    <3>1. /\ tx'[w] = [pc |-> tx'[w].pc, kind |-> tx'[w].kind, of |-> tx'[w].of,
                       row |-> tx'[w].row, scopes |-> tx'[w].scopes]
          /\ tx'[w].kind = tx[w].kind /\ tx'[w].of = tx[w].of
      BY <1>1, <1>2
    <3> QED
      BY Zenon, <1>2, <2>1, <2>2, <3>1, TxIsTyped DEF DeriveInv
  <2> QED
    BY Zenon, <1>1, <2>3 DEF DeriveInv, DeriveTypeOK, cacheVars
<1>4. WritesAreMarked'
  BY SMTT(60), <1>1, <1>2 DEF DeriveInv, WritesAreMarked, VisibleIn, LockedBy,
                    DerivationScope, cacheVars
<1>5. EntitiesAreExclusive'
  BY <1>1, <1>2 DEF DeriveInv, EntitiesAreExclusive
<1>6. ClaimsAreLocked' /\ SnapshotsAreCurrent' /\ DirtyCoversCache'
  BY Zenon, <1>1, SnapshotKept
     DEF DeriveInv, ClaimsAreLocked, SnapshotsAreCurrent, DirtyCoversCache
<1> QED
  BY Zenon, <1>3, <1>4, <1>5, <1>6 DEF DeriveInv

\* Every write of an entity plans the marks ApplyInv asks for.
LEMMA WritesInv ==
    ASSUME DeriveInv, NEW w \in Writers,
           \/ \E row \in PullRows : ApplyPullRequest(w, row)
           \/ TombstonePullRequest(w) \/ TombstoneStack(w)
           \/ \E row \in Content : ApplyStack(w, row)
           \/ ApplyChecks(w) \/ ApplyRepository(w)
    PROVE  DeriveInv'
<1>1. ASSUME NEW row \in PullRows, ApplyPullRequest(w, row) PROVE DeriveInv'
  BY Zenon, <1>1, ApplyInv DEF ApplyPullRequest
<1>2. CASE TombstonePullRequest(w)
  <2> DEFINE p == tx[w].of
             row == [pull[p] EXCEPT !.live = FALSE]
  <2>1. Apply(w, "pull", row, {DerivationScope(p, pull[p])})
    BY Zenon, <1>2 DEF TombstonePullRequest
  <2>2. tx[w].kind = "pull" /\ tx[w].pc # "idle"
    BY Zenon, <2>1 DEF Apply
  <2>3. p \in Pulls /\ pull[p] \in PullRows
    BY Zenon, <2>2 DEF DeriveInv, DeriveTypeOK
  <2>4. row \in PullRows /\ row.live = FALSE
    BY Zenon, <2>3 DEF PullRows
  <2> QED
    BY Zenon, <2>1, <2>4, ApplyInv
<1>3. CASE TombstoneStack(w)
  BY Zenon, <1>3, ApplyInv DEF TombstoneStack
<1>4. ASSUME NEW row \in Content, ApplyStack(w, row) PROVE DeriveInv'
  BY Zenon, <1>4, ApplyInv DEF ApplyStack
<1>5. CASE ApplyChecks(w)
  BY Zenon, <1>5, ApplyInv DEF ApplyChecks
<1>6. CASE ApplyRepository(w)
  BY Zenon, <1>6, ApplyInv DEF ApplyRepository
<1> QED
  BY Zenon, <1>1, <1>2, <1>3, <1>4, <1>5, <1>6

\* MarkDerivationDirty takes the lock on one planned mark.
LEMMA MarkDirtyInv ==
    ASSUME DeriveInv, NEW w \in Writers, NEW s \in Scopes, MarkDirty(w, s)
    PROVE  DeriveInv'
<1>1. /\ tx[w].pc = "mark" /\ rowLock[s] = None
      /\ rowLock' = [rowLock EXCEPT ![s] = w]
      /\ UNCHANGED <<cacheVars, dirty, items, pass>>
  BY Zenon DEF MarkDirty
<1>2. /\ tx' = [tx EXCEPT ![w] = tx'[w]]
      /\ tx'[w] = [pc |-> "mark", kind |-> tx[w].kind, of |-> tx[w].of,
                   row |-> tx[w].row, scopes |-> tx[w].scopes \ {s}]
      /\ \A v \in Writers \ {w} : tx'[v] = tx[v]
  <2>1. /\ DOMAIN tx = Writers
        /\ tx[w] = [pc |-> tx[w].pc, kind |-> tx[w].kind, of |-> tx[w].of,
                    row |-> tx[w].row, scopes |-> tx[w].scopes]
    BY Zenon DEF DeriveInv, DeriveTypeOK
  <2>2. tx' = [tx EXCEPT ![w].scopes = @ \ {s}]
    BY Zenon DEF MarkDirty
  <2> QED
    BY Zenon, <1>1, <2>1, <2>2
<1>3. DeriveTypeOK'
  <2>1. tx[w].pc # "idle" =>
          (tx[w].kind = "pull" => tx[w].of \in Pulls) /\ (tx[w].kind = "stack" => tx[w].of \in Stacks)
    BY Zenon DEF DeriveInv, DeriveTypeOK
  <2>2. tx[w].pc # "idle"
    BY Zenon, <1>1
  <2>3. /\ tx' = [v \in Writers |->
                    [pc |-> tx'[v].pc, kind |-> tx'[v].kind, of |-> tx'[v].of,
                     row |-> tx'[v].row, scopes |-> tx'[v].scopes]]
        /\ \A v \in Writers : tx'[v].pc # "idle" =>
             /\ tx'[v].kind = "pull" => tx'[v].of \in Pulls
             /\ tx'[v].kind = "stack" => tx'[v].of \in Stacks
    <3>1. /\ tx'[w] = [pc |-> tx'[w].pc, kind |-> tx'[w].kind, of |-> tx'[w].of,
                       row |-> tx'[w].row, scopes |-> tx'[w].scopes]
          /\ tx'[w].kind = tx[w].kind /\ tx'[w].of = tx[w].of
      BY <1>1, <1>2
    <3> QED
      BY Zenon, <1>2, <2>1, <2>2, <3>1, TxIsTyped DEF DeriveInv
  <2> QED
    BY Zenon, <1>1, <2>3 DEF DeriveInv, DeriveTypeOK, cacheVars
<1>4. \A r \in Scopes : rowLock[r] # None => rowLock'[r] = rowLock[r]
  BY Zenon, <1>1 DEF DeriveInv, DeriveTypeOK
<1>5. WritesAreMarked'
  <2> SUFFICES ASSUME NEW v \in Writers, tx'[v].pc = "mark"
               PROVE  /\ tx'[v].kind = "pull" => tx'[v].row \in PullRows
                      /\ VisibleIn(v)' \subseteq tx'[v].scopes \cup LockedBy(v)'
    BY Zenon DEF WritesAreMarked
  <2>1. /\ tx[v].pc = "mark" /\ tx'[v].kind = tx[v].kind
        /\ tx'[v].of = tx[v].of /\ tx'[v].row = tx[v].row
    BY <1>1, <1>2
  <2>2. VisibleIn(v)' = VisibleIn(v)
    BY ZenonT(120), <1>1, <2>1 DEF VisibleIn, DerivationScope, cacheVars
  <2>3. tx[v].scopes \cup LockedBy(v) \subseteq tx'[v].scopes \cup LockedBy(v)'
    <3>1. LockedBy(v) \subseteq LockedBy(v)'
      BY Zenon, <1>4, DeriveProcesses DEF LockedBy
    <3>2. v = w => s \in LockedBy(v)'
      BY Zenon, <1>1 DEF LockedBy, DeriveInv, DeriveTypeOK
    <3> QED
      BY <1>2, <3>1, <3>2
  <2> QED
    BY Zenon, <2>1, <2>2, <2>3 DEF DeriveInv, WritesAreMarked
<1>6. EntitiesAreExclusive'
  BY <1>1, <1>2 DEF DeriveInv, EntitiesAreExclusive
<1>7. ClaimsAreLocked'
  BY <1>1, <1>4, DeriveProcesses DEF DeriveInv, DeriveTypeOK, ClaimsAreLocked
<1>8. SnapshotsAreCurrent' /\ DirtyCoversCache'
  BY Zenon, <1>1, SnapshotKept DEF DeriveInv, SnapshotsAreCurrent, DirtyCoversCache
<1> QED
  BY Zenon, <1>3, <1>5, <1>6, <1>7, <1>8 DEF DeriveInv

\* A transaction that ends leaves the others' locks, plans and entities.
LEMMA WriterEnds ==
    ASSUME DeriveInv, NEW w \in Writers,
           tx' = [tx EXCEPT ![w] = IdleTx], pass' = pass,
           UnlockRows(w) \/ rowLock' = rowLock,
           pull' \in [Pulls -> PullRows], DOMAIN stack' = Stacks,
           dirty' \subseteq Scopes,
           \A p \in Pulls :
             pull'[p] = pull[p] \/ (tx[w].pc # "idle" /\ tx[w].kind = "pull" /\ tx[w].of = p)
    PROVE  DeriveTypeOK' /\ ClaimsAreLocked' /\ WritesAreMarked'
           /\ EntitiesAreExclusive'
<1>1. /\ tx'[w] = [pc |-> "idle", kind |-> None, of |-> None, row |-> None,
                   scopes |-> {}]
      /\ \A v \in Writers \ {w} : tx'[v] = tx[v]
  BY Zenon DEF IdleTx, DeriveInv, DeriveTypeOK
<1>2. /\ rowLock' \in [Scopes -> Writers \cup Derivers \cup {None}]
      /\ \A s \in Scopes : rowLock[s] # w => rowLock'[s] = rowLock[s]
  BY Zenon DEF UnlockRows, DeriveInv, DeriveTypeOK
<1>3. DeriveTypeOK'
  <2>1. tx' = [v \in Writers |-> tx'[v]]
    BY Zenon DEF DeriveInv, DeriveTypeOK
  <2>2. tx' = [v \in Writers |->
                [pc |-> tx'[v].pc, kind |-> tx'[v].kind, of |-> tx'[v].of,
                 row |-> tx'[v].row, scopes |-> tx'[v].scopes]]
    <3>1. \A v \in Writers :
            tx[v] = [pc |-> tx[v].pc, kind |-> tx[v].kind, of |-> tx[v].of,
                     row |-> tx[v].row, scopes |-> tx[v].scopes]
      BY Zenon DEF DeriveInv, DeriveTypeOK
    <3>2. \A v \in Writers :
            tx'[v] = [pc |-> tx'[v].pc, kind |-> tx'[v].kind, of |-> tx'[v].of,
                      row |-> tx'[v].row, scopes |-> tx'[v].scopes]
      BY Zenon, <1>1, <3>1
    <3> QED
      BY <2>1, <3>2, Zenon
  <2>3. \A v \in Writers : tx'[v].pc # "idle" =>
          /\ tx'[v].kind = "pull" => tx'[v].of \in Pulls
          /\ tx'[v].kind = "stack" => tx'[v].of \in Stacks
    <3>1. ASSUME NEW v \in Writers, v # w, tx[v].pc # "idle"
          PROVE  (tx[v].kind = "pull" => tx[v].of \in Pulls)
                 /\ (tx[v].kind = "stack" => tx[v].of \in Stacks)
      BY Zenon, <3>1 DEF DeriveInv, DeriveTypeOK
    <3>2. tx'[w].pc = "idle"
      BY <1>1
    <3>3. TAKE v \in Writers
    <3>4. CASE v = w
      BY Zenon, <3>2, <3>4
    <3>5. CASE v # w
      <4>1. tx'[v] = tx[v]
        BY Zenon, <1>1, <3>5
      <4> QED
        BY Zenon, <3>1, <3>5, <4>1
    <3> QED
      BY Zenon, <3>4, <3>5
  <2> QED
    BY Zenon, <1>2, <2>2, <2>3 DEF DeriveInv, DeriveTypeOK
<1>4. ClaimsAreLocked'
  BY <1>2, DeriveProcesses DEF DeriveInv, DeriveTypeOK, ClaimsAreLocked
<1>5. EntitiesAreExclusive'
  BY <1>1 DEF DeriveInv, EntitiesAreExclusive
<1>6. WritesAreMarked'
  <2> SUFFICES ASSUME NEW v \in Writers, tx'[v].pc = "mark"
               PROVE  /\ tx'[v].kind = "pull" => tx'[v].row \in PullRows
                      /\ VisibleIn(v)' \subseteq tx'[v].scopes \cup LockedBy(v)'
    BY Zenon DEF WritesAreMarked
  <2>1. v # w /\ tx'[v] = tx[v]
    BY <1>1
  <2>2. tx[v].kind = "pull" => pull'[tx[v].of] = pull[tx[v].of]
    <3>1. tx[v].pc = "mark" /\ (tx[v].kind = "pull" => tx[v].of \in Pulls)
      BY Zenon, <2>1 DEF DeriveInv, DeriveTypeOK
    <3>2. tx[w].pc # "idle" => tx[v].kind # tx[w].kind \/ tx[v].of # tx[w].of
      BY Zenon, <2>1, <3>1 DEF DeriveInv, EntitiesAreExclusive
    <3> QED
      BY Zenon, <3>1, <3>2
  <2>3. VisibleIn(v)' = VisibleIn(v)
    <3>1. CASE tx[v].kind = "pull"
      BY SMTT(60), <2>1, <2>2, <3>1 DEF VisibleIn, DerivationScope
    <3>2. CASE tx[v].kind # "pull"
      BY Zenon, <2>1, <3>2 DEF VisibleIn
    <3> QED
      BY Zenon, <3>1, <3>2
  <2>4. LockedBy(v)' = LockedBy(v) \/ LockedBy(v) \subseteq LockedBy(v)'
    BY Zenon, <1>2, <2>1 DEF LockedBy
  <2> QED
    BY Zenon, <2>1, <2>3, <2>4 DEF DeriveInv, WritesAreMarked
<1> QED
  BY Zenon, <1>3, <1>4, <1>5, <1>6

\* The commit of a writer changes no snapshot of a scope it has not marked.
LEMMA CommitShowsInMarked ==
    ASSUME DeriveInv, NEW w \in Writers, CommitEntityTx(w),
           NEW s \in Scopes, rowLock[s] # w
    PROVE  Snapshot(s)' = Snapshot(s)
<1>1. /\ tx[w].pc = "mark" /\ tx[w].scopes = {}
      /\ pull' = IF tx[w].kind = "pull" THEN [pull EXCEPT ![tx[w].of] = tx[w].row]
                 ELSE pull
      /\ stack' = IF tx[w].kind = "stack" THEN [stack EXCEPT ![tx[w].of] = tx[w].row]
                  ELSE stack
  BY Zenon DEF CommitEntityTx
<1>2. s \notin VisibleIn(w)
  BY Zenon, <1>1 DEF DeriveInv, WritesAreMarked, LockedBy
<1>3. CASE tx[w].kind = "pull"
  <2>1. tx[w].of \in Pulls /\ pull \in [Pulls -> PullRows]
    BY Zenon, <1>1, <1>3 DEF DeriveInv, DeriveTypeOK
  <2>2. /\ pull[tx[w].of].live => s # DerivationScope(tx[w].of, pull[tx[w].of])
        /\ tx[w].row.live => s # DerivationScope(tx[w].of, tx[w].row)
    BY Zenon, <1>2, <1>3 DEF VisibleIn
  <2> QED
    BY Zenon, <1>1, <1>3, <2>1, <2>2, PullSnapshot
<1>4. CASE tx[w].kind = "stack"
  <2>1. tx[w].of \in Stacks /\ DOMAIN stack = Stacks
    BY Zenon, <1>1, <1>4 DEF DeriveInv, DeriveTypeOK
  <2>2. s # <<"stack", tx[w].of>>
    BY Zenon, <1>2, <1>4 DEF VisibleIn
  <2> QED
    BY Zenon, <1>1, <1>4, <2>1, <2>2, StackSnapshot
<1>5. CASE tx[w].kind \notin {"pull", "stack"}
  BY Zenon, <1>1, <1>5, SnapshotKept DEF cacheVars
<1> QED
  BY Zenon, <1>3, <1>4, <1>5

\* A writer's commit.
LEMMA CommitEntityTxInv ==
    ASSUME DeriveInv, NEW w \in Writers, CommitEntityTx(w)
    PROVE  DeriveInv'
<1>1. /\ tx[w].pc = "mark"
      /\ pull' = IF tx[w].kind = "pull" THEN [pull EXCEPT ![tx[w].of] = tx[w].row]
                 ELSE pull
      /\ stack' = IF tx[w].kind = "stack" THEN [stack EXCEPT ![tx[w].of] = tx[w].row]
                  ELSE stack
      /\ dirty' = dirty \cup LockedBy(w) /\ UnlockRows(w)
      /\ tx' = [tx EXCEPT ![w] = IdleTx] /\ UNCHANGED <<items, pass>>
  BY Zenon DEF CommitEntityTx
<1>2. /\ pull \in [Pulls -> PullRows] /\ DOMAIN stack = Stacks
      /\ tx[w].kind = "pull" => tx[w].row \in PullRows
  BY Zenon, <1>1 DEF DeriveInv, DeriveTypeOK, WritesAreMarked
<1>3. /\ pull' \in [Pulls -> PullRows] /\ DOMAIN stack' = Stacks
      /\ \A p \in Pulls :
           pull'[p] = pull[p] \/ (tx[w].pc # "idle" /\ tx[w].kind = "pull" /\ tx[w].of = p)
  BY Zenon, <1>1, <1>2
<1>4. DeriveTypeOK' /\ ClaimsAreLocked' /\ WritesAreMarked' /\ EntitiesAreExclusive'
  <2>1. dirty' \subseteq Scopes
    BY Zenon, <1>1 DEF LockedBy, DeriveInv, DeriveTypeOK
  <2> QED
    BY Zenon, <1>1, <1>3, <2>1, WriterEnds
<1>5. \A d \in Derivers, s \in Scopes :
        s \in pass[d].scopes => rowLock[s] # w
  BY ZenonT(120), DeriveProcesses DEF DeriveInv, ClaimsAreLocked
<1>6. SnapshotsAreCurrent'
  BY Zenon, <1>1, <1>5, CommitShowsInMarked DEF DeriveInv, DeriveTypeOK, SnapshotsAreCurrent
<1>7. DirtyCoversCache'
  BY Zenon, <1>1, CommitShowsInMarked DEF DeriveInv, DirtyCoversCache, LockedBy
<1> QED
  BY Zenon, <1>4, <1>6, <1>7 DEF DeriveInv

\* A writer that changes nothing, or is rolled back.
LEMMA WriterLeavesInv ==
    ASSUME DeriveInv, NEW w \in Writers,
           TouchEntity(w) \/ RollbackEntityTx(w) \/ BreakDeadlock(w)
    PROVE  DeriveInv'
<1>1. /\ UNCHANGED <<cacheVars, dirty, items, pass>>
      /\ UnlockRows(w) \/ rowLock' = rowLock
      /\ tx' = [tx EXCEPT ![w] = IdleTx]
  BY Zenon DEF TouchEntity, RollbackEntityTx, BreakDeadlock, AbortEntityTx
<1>2. DeriveTypeOK' /\ ClaimsAreLocked' /\ WritesAreMarked' /\ EntitiesAreExclusive'
  BY Zenon, <1>1, WriterEnds DEF cacheVars, DeriveInv, DeriveTypeOK
<1>3. SnapshotsAreCurrent' /\ DirtyCoversCache'
  BY Zenon, <1>1, SnapshotKept DEF DeriveInv, SnapshotsAreCurrent, DirtyCoversCache
<1> QED
  BY Zenon, <1>2, <1>3 DEF DeriveInv

-----------------------------------------------------------------------------
(* Derivation passes                                                       *)

\* A pass moves: its claims are locked and what it has loaded is current, and
\* locks of others stay.
LEMMA PassMoves ==
    ASSUME DeriveInv, NEW d \in Derivers, UNCHANGED <<cacheVars, tx>>,
           dirty' \subseteq Scopes,
           pass' = [e \in Derivers |-> pass'[e]],
           \A e \in Derivers \ {d} : pass'[e] = pass[e],
           pass'[d] = [pc |-> pass'[d].pc, scopes |-> pass'[d].scopes,
                       snapshot |-> pass'[d].snapshot],
           rowLock' \in [Scopes -> Writers \cup Derivers \cup {None}],
           \A s \in Scopes : rowLock[s] \notin {d, None} => rowLock'[s] = rowLock[s],
           pass'[d].scopes \subseteq {s \in Scopes : rowLock'[s] = d},
           pass'[d].pc = "loaded" =>
             \A s \in pass'[d].scopes : pass'[d].snapshot[s] = Snapshot(s)
    PROVE  DeriveTypeOK' /\ ClaimsAreLocked' /\ WritesAreMarked'
           /\ EntitiesAreExclusive' /\ SnapshotsAreCurrent'
<1>1. DeriveTypeOK'
  <2>1. pass' = [e \in Derivers |->
                  [pc |-> pass'[e].pc, scopes |-> pass'[e].scopes,
                   snapshot |-> pass'[e].snapshot]]
    <3>1. \A e \in Derivers :
            pass[e] = [pc |-> pass[e].pc, scopes |-> pass[e].scopes,
                       snapshot |-> pass[e].snapshot]
      BY Zenon DEF DeriveInv, DeriveTypeOK
    <3>2. \A e \in Derivers :
            pass'[e] = [pc |-> pass'[e].pc, scopes |-> pass'[e].scopes,
                        snapshot |-> pass'[e].snapshot]
      BY Zenon, <3>1
    <3> QED
      BY <3>2, Zenon
  <2>2. \A e \in Derivers : pass'[e].scopes \subseteq Scopes
    BY Zenon DEF DeriveInv, DeriveTypeOK
  <2> QED
    BY Zenon, <2>1, <2>2 DEF DeriveInv, DeriveTypeOK, cacheVars
<1>2. ClaimsAreLocked'
  BY SMTT(60), DeriveProcesses DEF DeriveInv, DeriveTypeOK, ClaimsAreLocked
<1>3. EntitiesAreExclusive'
  BY Zenon DEF DeriveInv, EntitiesAreExclusive
<1>4. SnapshotsAreCurrent'
  BY SnapshotKept DEF DeriveInv, SnapshotsAreCurrent
<1>5. WritesAreMarked'
  <2>1. \A w \in Writers : LockedBy(w) \subseteq LockedBy(w)'
    BY DeriveProcesses DEF LockedBy
  <2>2. \A w \in Writers : VisibleIn(w)' = VisibleIn(w)
    BY DEF VisibleIn, DerivationScope, cacheVars
  <2> QED
    BY Zenon, <2>1, <2>2 DEF DeriveInv, WritesAreMarked
<1> QED
  BY Zenon, <1>1, <1>2, <1>3, <1>4, <1>5

\* An idle pass holds nothing.
LEMMA PassEndsInv ==
    ASSUME DeriveInv, NEW d \in Derivers, UNCHANGED <<cacheVars, tx>>,
           dirty' \subseteq Scopes,
           pass' = [pass EXCEPT ![d] = IdlePass],
           UnlockRows(d) \/ rowLock' = rowLock
    PROVE  DeriveTypeOK' /\ ClaimsAreLocked' /\ WritesAreMarked'
           /\ EntitiesAreExclusive' /\ SnapshotsAreCurrent'
<1>1. /\ pass' = [e \in Derivers |-> pass'[e]]
      /\ \A e \in Derivers \ {d} : pass'[e] = pass[e]
      /\ pass'[d] = IdlePass
  BY Zenon DEF DeriveInv, DeriveTypeOK
<1>2. /\ pass'[d] = [pc |-> pass'[d].pc, scopes |-> pass'[d].scopes,
                     snapshot |-> pass'[d].snapshot]
      /\ pass'[d].scopes = {} /\ pass'[d].pc = "idle"
  BY Zenon, <1>1 DEF IdlePass
<1>3. /\ rowLock' \in [Scopes -> Writers \cup Derivers \cup {None}]
      /\ \A s \in Scopes : rowLock[s] \notin {d, None} => rowLock'[s] = rowLock[s]
  BY Zenon DEF UnlockRows, DeriveInv, DeriveTypeOK
<1> QED
  BY Zenon, <1>1, <1>2, <1>3, PassMoves

\* A pass begins or rolls back: no mark and no work item changes.
LEMMA QuietPassInv ==
    ASSUME DeriveInv, NEW d \in Derivers, BeginPass(d) \/ RollbackPass(d)
    PROVE  DeriveInv'
<1>1. DirtyCoversCache'
  BY Zenon, SnapshotKept DEF DeriveInv, DirtyCoversCache, BeginPass, RollbackPass
<1>2. CASE RollbackPass(d)
  <2>1. UNCHANGED <<cacheVars, tx>> /\ dirty' \subseteq Scopes
    BY Zenon, <1>2 DEF RollbackPass, DeriveInv, DeriveTypeOK
  <2> QED
    BY Zenon, <1>1, <1>2, <2>1, PassEndsInv DEF RollbackPass, DeriveInv
<1>3. CASE BeginPass(d)
  <2>1. DOMAIN pass = Derivers
        /\ pass[d] = [pc |-> pass[d].pc, scopes |-> pass[d].scopes,
                      snapshot |-> pass[d].snapshot]
    BY Zenon DEF DeriveInv, DeriveTypeOK
  <2>2. pass' = [pass EXCEPT ![d].pc = "begun"]
    BY Zenon, <1>3 DEF BeginPass
  <2>3. /\ pass' = [e \in Derivers |-> pass'[e]]
        /\ \A e \in Derivers \ {d} : pass'[e] = pass[e]
        /\ pass'[d] = [pc |-> "begun", scopes |-> pass[d].scopes,
                       snapshot |-> pass[d].snapshot]
    BY Zenon, <2>1, <2>2
  <2>4. pass'[d].scopes \subseteq {s \in Scopes : rowLock'[s] = d}
    BY SMTT(60), <1>3, <2>3 DEF BeginPass, DeriveInv, DeriveTypeOK, ClaimsAreLocked
  <2>5. rowLock' = rowLock /\ UNCHANGED <<cacheVars, tx>> /\ dirty' \subseteq Scopes
    BY Zenon, <1>3 DEF BeginPass, DeriveInv, DeriveTypeOK
  <2>6. rowLock \in [Scopes -> Writers \cup Derivers \cup {None}]
    BY Zenon DEF DeriveInv, DeriveTypeOK
  <2> QED
    BY SMTT(60), <1>1, <2>3, <2>4, <2>5, <2>6, PassMoves DEF DeriveInv
<1> QED
  BY Zenon, <1>2, <1>3

\* A pass claims marks nobody has locked.
LEMMA ClaimDirtyScopesInv ==
    ASSUME DeriveInv, NEW d \in Derivers, ClaimDirtyScopes(d)
    PROVE  DeriveInv'
<1>1. DirtyCoversCache'
  BY Zenon, SnapshotKept DEF DeriveInv, DirtyCoversCache, ClaimDirtyScopes
<1>2. PICK claim \in ClaimDerivationDirtyScopes :
          /\ rowLock' = [s \in Scopes |-> IF s \in claim THEN d ELSE rowLock[s]]
          /\ IF claim = {}
             THEN pass' = [pass EXCEPT ![d] = IdlePass]
             ELSE pass' = [pass EXCEPT ![d].pc = "claimed", ![d].scopes = claim]
  BY Zenon DEF ClaimDirtyScopes
<1>3. claim \subseteq Scopes /\ \A s \in claim : rowLock[s] = None
  BY Zenon DEF ClaimDerivationDirtyScopes, Unlocked, DeriveInv, DeriveTypeOK
<1>4. UNCHANGED <<cacheVars, tx>> /\ dirty' \subseteq Scopes
  BY Zenon DEF ClaimDirtyScopes, DeriveInv, DeriveTypeOK
<1>5. CASE claim = {}
  <2>1. rowLock' = rowLock
    BY Zenon, <1>2, <1>5 DEF DeriveInv, DeriveTypeOK
  <2> QED
    BY Zenon, <1>1, <1>2, <1>4, <1>5, <2>1, PassEndsInv DEF DeriveInv
<1>6. CASE claim # {}
  <2>1. DOMAIN pass = Derivers
        /\ pass[d] = [pc |-> pass[d].pc, scopes |-> pass[d].scopes,
                      snapshot |-> pass[d].snapshot]
    BY Zenon DEF DeriveInv, DeriveTypeOK
  <2>2. /\ pass' = [e \in Derivers |-> pass'[e]]
        /\ \A e \in Derivers \ {d} : pass'[e] = pass[e]
        /\ pass'[d] = [pc |-> "claimed", scopes |-> claim,
                       snapshot |-> pass[d].snapshot]
    BY Zenon, <1>2, <1>6, <2>1
  <2>3. /\ rowLock' \in [Scopes -> Writers \cup Derivers \cup {None}]
        /\ \A s \in Scopes : rowLock[s] \notin {d, None} => rowLock'[s] = rowLock[s]
        /\ claim \subseteq {s \in Scopes : rowLock'[s] = d}
    BY Zenon, <1>2, <1>3 DEF DeriveInv, DeriveTypeOK
  <2> QED
    BY <1>1, <1>4, <2>2, <2>3, PassMoves DEF DeriveInv
<1> QED
  BY Zenon, <1>5, <1>6

\* A pass loads the rows of its scopes as they are.
LEMMA LoadSnapshotInv ==
    ASSUME DeriveInv, NEW d \in Derivers, LoadSnapshot(d)
    PROVE  DeriveInv'
<1>1. DirtyCoversCache'
  BY Zenon, SnapshotKept DEF DeriveInv, DirtyCoversCache, LoadSnapshot
<1>2. /\ DOMAIN pass = Derivers
      /\ pass[d] = [pc |-> pass[d].pc, scopes |-> pass[d].scopes,
                    snapshot |-> pass[d].snapshot]
  BY Zenon DEF DeriveInv, DeriveTypeOK
<1>3. /\ pass' = [e \in Derivers |-> pass'[e]]
      /\ \A e \in Derivers \ {d} : pass'[e] = pass[e]
      /\ pass'[d] = [pc |-> "loaded", scopes |-> pass[d].scopes,
                     snapshot |-> [s \in pass[d].scopes |-> Snapshot(s)]]
  <2>1. pass' = [pass EXCEPT ![d].pc = "loaded",
                   ![d].snapshot = [s \in pass[d].scopes |-> Snapshot(s)]]
    BY Zenon DEF LoadSnapshot
  <2> HIDE DEF Snapshot
  <2> QED
    BY Zenon, <1>2, <2>1
<1>4. /\ pass'[d] = [pc |-> pass'[d].pc, scopes |-> pass'[d].scopes,
                     snapshot |-> pass'[d].snapshot]
      /\ \A s \in pass'[d].scopes : pass'[d].snapshot[s] = Snapshot(s)
      /\ pass'[d].scopes = pass[d].scopes
  BY <1>3
<1>5. UNCHANGED <<cacheVars, tx>> /\ rowLock' = rowLock /\ dirty' \subseteq Scopes
  BY Zenon DEF LoadSnapshot, DeriveInv, DeriveTypeOK
<1>6. /\ pass'[d].scopes \subseteq {s \in Scopes : rowLock'[s] = d}
      /\ rowLock' \in [Scopes -> Writers \cup Derivers \cup {None}]
  BY Zenon, <1>4, <1>5 DEF DeriveInv, DeriveTypeOK, ClaimsAreLocked
<1> QED
  BY Zenon, <1>1, <1>3, <1>4, <1>5, <1>6, PassMoves DEF DeriveInv

\* A pass commits: what it loaded is current, and only those marks go.
LEMMA CommitPassInv ==
    ASSUME DeriveInv, NEW d \in Derivers, CommitPass(d)
    PROVE  DeriveInv'
<1>1. /\ UNCHANGED <<cacheVars, tx>> /\ dirty' \subseteq Scopes
      /\ pass' = [pass EXCEPT ![d] = IdlePass] /\ UnlockRows(d)
  BY Zenon DEF CommitPass, ClearDerivationDirtyScopes, DeriveInv, DeriveTypeOK
<1>2. DirtyCoversCache'
  <2> SUFFICES ASSUME NEW s \in Scopes, s \notin dirty'
               PROVE  items'[s] = Snapshot(s)'
    BY Zenon DEF DirtyCoversCache
  <2>1. items'[s] = IF s \in pass[d].scopes THEN pass[d].snapshot[s] ELSE items[s]
    BY Zenon DEF CommitPass, ApplyDerivedWorkItemBatch
  <2>2. s \in pass[d].scopes \/ s \notin dirty
    BY Zenon DEF CommitPass, ClearDerivationDirtyScopes
  <2>3. s \in pass[d].scopes => pass[d].snapshot[s] = Snapshot(s)
    BY Zenon DEF CommitPass, DeriveInv, SnapshotsAreCurrent
  <2>4. s \notin dirty => items[s] = Snapshot(s)
    BY Zenon DEF DeriveInv, DirtyCoversCache
  <2>5. Snapshot(s)' = Snapshot(s)
    BY Zenon, <1>1, SnapshotKept
  <2> QED
    BY Zenon, <2>1, <2>2, <2>3, <2>4, <2>5
<1> QED
  BY Zenon, <1>1, <1>2, PassEndsInv DEF DeriveInv

-----------------------------------------------------------------------------
(* The theorem                                                             *)

\* Every step preserves the invariant.
LEMMA DeriveStepInv ==
    ASSUME DeriveInv, [DeriveNext]_deriveVars
    PROVE  DeriveInv'
<1>1. ASSUME NEW w \in Writers, WriterNext(w)
      PROVE  DeriveInv'
  <2>1. CASE \E kind \in Kinds[w] : \E of \in Targets(kind) : BeginEntityTx(w, kind, of)
    BY Zenon, <2>1, BeginEntityTxInv
  <2>2. CASE \E s \in Scopes : MarkDirty(w, s)
    BY Zenon, <2>2, MarkDirtyInv
  <2>3. CASE CommitEntityTx(w)
    BY Zenon, <2>3, CommitEntityTxInv
  <2> QED
    BY Zenon, <1>1, <2>1, <2>2, <2>3, WritesInv, WriterLeavesInv DEF WriterNext
<1>2. ASSUME NEW d \in Derivers, PassNext(d)
      PROVE  DeriveInv'
  BY Zenon, <1>2, QuietPassInv, ClaimDirtyScopesInv, LoadSnapshotInv, CommitPassInv
     DEF PassNext
<1>3. CASE Grant \/ RequestWatermark \/ TimeoutWatermark \/ EndWatermark
  BY Zenon, <1>3, FenceStepInv DEF Grant, RequestWatermark, TimeoutWatermark, EndWatermark
<1>4. CASE UNCHANGED deriveVars
  BY Zenon, <1>4, FenceStepInv DEF deriveVars
<1> QED
  BY Zenon, <1>1, <1>2, <1>3, <1>4 DEF DeriveNext

\* C-C3: whatever entity transactions and derivation passes overlap, fail or
\* are chosen as deadlock victims, a scope that carries no mark has the work
\* items that a derivation from the committed rows would give it.
THEOREM DirtyMarksCoverTheCache == DeriveSpec => []DirtyCoversCache
<1>1. DeriveInit => DeriveInv
  BY Zenon, DeriveInitInv
<1>2. DeriveInv /\ [DeriveNext]_deriveVars => DeriveInv'
  BY Zenon, DeriveStepInv
<1>3. DeriveInv => DirtyCoversCache
  BY Zenon DEF DeriveInv
<1> QED
  BY <1>1, <1>2, <1>3, PTL DEF DeriveSpec

-----------------------------------------------------------------------------
(* The fence before the row locks                                          *)

\* Whoever is at the fence is there once: it holds it or waits at one place.
FenceIsOrderly ==
    /\ fence = [held |-> fence.held, queue |-> fence.queue]
    /\ fence.held \subseteq Processes /\ fence.queue \in Seq(Processes)
    /\ \A i, k \in DOMAIN fence.queue : fence.queue[i] = fence.queue[k] => i = k
    /\ \A i \in DOMAIN fence.queue : fence.queue[i] \notin fence.held

Claiming == {"claimed", "loaded"}

\* Row locks are taken, held and waited for under the fence only.
LocksUnderFence ==
    /\ \A w \in Writers :
         /\ tx[w].scopes \subseteq Scopes
         /\ tx[w].scopes # {} => tx[w].pc = "mark"
         /\ tx[w].pc = "mark" => w \in fence.held
    /\ \A d \in Derivers : pass[d].pc \in Claiming => d \in fence.held
    /\ \A s \in Scopes :
         \/ rowLock[s] = None
         \/ rowLock[s] \in Writers /\ tx[rowLock[s]].pc = "mark"
         \/ rowLock[s] \in Derivers /\ pass[rowLock[s]].pc \in Claiming

FenceInv == FenceIsOrderly /\ LocksUnderFence

\* Leave takes one place out of the queue and keeps the others in order.
LEMMA LeaveQueue ==
    ASSUME NEW queue \in Seq(Processes), NEW a,
           \A i, k \in DOMAIN queue : queue[i] = queue[k] => i = k
    PROVE  /\ Leave(queue, a) \in Seq(Processes)
           /\ \A i \in DOMAIN Leave(queue, a) :
                \E k \in DOMAIN queue : Leave(queue, a)[i] = queue[k]
           /\ \A i, k \in DOMAIN Leave(queue, a) :
                Leave(queue, a)[i] = Leave(queue, a)[k] => i = k
<1>1. CASE ~\E i \in DOMAIN queue : queue[i] = a
  BY <1>1, Zenon DEF Leave
<1>2. CASE \E i \in DOMAIN queue : queue[i] = a
  <2>1. PICK p \in DOMAIN queue : p = CHOOSE i \in DOMAIN queue : queue[i] = a
    BY <1>2, Zenon
  <2>2. PICK q : q = Leave(queue, a)
    BY Zenon
  <2>3. p \in 1 .. Len(queue) /\ Len(queue) \in Nat /\ DOMAIN queue = 1 .. Len(queue)
    BY <2>1
  <2>4. q = [i \in 1 .. Len(queue) - 1 |-> queue[IF i < p THEN i ELSE i + 1]]
    BY <1>2, <2>1, <2>2, Zenon DEF Leave
  <2>5. DOMAIN q = 1 .. Len(queue) - 1 /\ Len(queue) - 1 \in Nat
    BY <2>3, <2>4
  <2>6. \A i \in DOMAIN q : \E k \in DOMAIN queue :
           q[i] = queue[k] /\ k = IF i < p THEN i ELSE i + 1
    BY <2>3, <2>4, <2>5
  <2>7. q \in Seq(Processes)
    <3>1. \A k \in DOMAIN queue : queue[k] \in Processes
      OBVIOUS
    <3>2. \A i \in DOMAIN q : q[i] \in Processes
      BY <2>6, <3>1, Zenon
    <3>3. q = [i \in 1 .. Len(queue) - 1 |-> q[i]]
      BY <2>4, <2>5, Zenon
    <3> QED
      BY <2>5, <3>2, <3>3
  <2>8. ASSUME NEW i \in DOMAIN q, NEW k \in DOMAIN q, q[i] = q[k] PROVE i = k
    <3>1. (IF i < p THEN i ELSE i + 1) = IF k < p THEN k ELSE k + 1
      BY <2>6, <2>8, Zenon
    <3> QED
      BY <2>3, <2>5, <3>1
  <2> QED
    BY <2>2, <2>6, <2>7, <2>8, Zenon
<1> QED
  BY <1>1, <1>2, Zenon

\* Every step at the fence keeps it orderly and takes it from nobody else.
LEMMA FenceMoves ==
    ASSUME FenceIsOrderly, NEW a \in Processes,
           \/ Request(a) \/ Release(a)
           \/ fence' = [held |-> fence.held \ {a}, queue |-> Leave(fence.queue, a)]
           \/ fence' = [fence EXCEPT !.queue = Leave(@, a)]
           \/ fence' = fence
    PROVE  FenceIsOrderly' /\ fence.held \ {a} \subseteq fence'.held
<1> DEFINE h == fence.held
           q == fence.queue
<1>1. /\ fence = [held |-> h, queue |-> q] /\ h \subseteq Processes /\ q \in Seq(Processes)
      /\ \A i, k \in DOMAIN q : q[i] = q[k] => i = k
      /\ \A i \in DOMAIN q : q[i] \notin h
  BY Zenon DEF FenceIsOrderly
<1> HIDE DEF h, q
<1>2. ASSUME NEW h2, NEW q2, fence' = [held |-> h2, queue |-> q2], h2 \subseteq Processes,
             q2 \in Seq(Processes), h \ {a} \subseteq h2,
             \A i, k \in DOMAIN q2 : q2[i] = q2[k] => i = k,
             \A i \in DOMAIN q2 : q2[i] \notin h2
      PROVE  FenceIsOrderly' /\ h \ {a} \subseteq fence'.held
  BY <1>2 DEF FenceIsOrderly
<1>3. /\ Leave(q, a) \in Seq(Processes)
      /\ \A i \in DOMAIN Leave(q, a) : \E k \in DOMAIN q : Leave(q, a)[i] = q[k]
      /\ \A i, k \in DOMAIN Leave(q, a) : Leave(q, a)[i] = Leave(q, a)[k] => i = k
  BY <1>1, LeaveQueue, Zenon
<1>4. CASE Request(a)
  <2>1. /\ a \notin h /\ \A i \in DOMAIN q : q[i] # a
        /\ fence' = [held |-> h, queue |-> Append(q, a)]
    BY Zenon, <1>1, <1>4 DEF Request, Queued, h, q
  <2>2. /\ Append(q, a) \in Seq(Processes)
        /\ \A i, k \in DOMAIN Append(q, a) : Append(q, a)[i] = Append(q, a)[k] => i = k
        /\ \A i \in DOMAIN Append(q, a) : Append(q, a)[i] \notin h
    BY <1>1, <2>1
  <2> QED
    BY Zenon, <1>1, <1>2, <2>1, <2>2
<1>5. CASE Release(a)
  <2>1. fence' = [held |-> h \ {a}, queue |-> q]
    BY Zenon, <1>1, <1>5 DEF Release, h, q
  <2> QED
    BY <1>1, <1>2, <2>1
<1>6. CASE fence' = [held |-> h \ {a}, queue |-> Leave(q, a)]
  BY <1>1, <1>2, <1>3, <1>6
<1>7. CASE fence' = [fence EXCEPT !.queue = Leave(@, a)]
  <2>1. fence' = [held |-> h, queue |-> Leave(q, a)]
    BY <1>1, <1>7 DEF q
  <2> QED
    BY <1>1, <1>2, <1>3, <2>1
<1>8. CASE fence' = fence
  BY <1>1, <1>2, <1>8
<1> QED
  BY <1>4, <1>5, <1>6, <1>7, <1>8, Zenon DEF h, q

\* The first in the queue gets the fence.
LEMMA FenceGranted ==
    ASSUME FenceIsOrderly, Grant
    PROVE  FenceIsOrderly' /\ fence.held \subseteq fence'.held
<1>1. PICK h, q : /\ h = fence.held /\ q = fence.queue
                  /\ h \subseteq Processes /\ q \in Seq(Processes) /\ q # <<>>
                  /\ \A i, k \in DOMAIN q : q[i] = q[k] => i = k
                  /\ \A i \in DOMAIN q : q[i] \notin h
                  /\ fence' = [held |-> h \cup {Head(q)}, queue |-> Tail(q)]
  BY Zenon DEF FenceIsOrderly, Grant
<1>2. /\ Tail(q) \in Seq(Processes) /\ Head(q) = q[1] /\ 1 \in DOMAIN q
      /\ \A i \in DOMAIN Tail(q) : i + 1 \in DOMAIN q /\ Tail(q)[i] = q[i + 1] /\ i \in Nat /\ i > 0
  BY <1>1
<1>3. ASSUME NEW i \in DOMAIN Tail(q), NEW k \in DOMAIN Tail(q), Tail(q)[i] = Tail(q)[k]
      PROVE  i = k
  <2>1. PICK m, n : /\ m = i + 1 /\ n = k + 1 /\ m \in DOMAIN q /\ n \in DOMAIN q
                    /\ q[m] = q[n]
    BY <1>2, <1>3
  <2>2. m = n
    BY <1>1, <2>1, Zenon
  <2> QED
    BY <1>2, <2>1, <2>2
<1>4. ASSUME NEW i \in DOMAIN Tail(q)
      PROVE  Tail(q)[i] \notin h \cup {Head(q)}
  <2>1. i + 1 # 1 /\ i + 1 \in DOMAIN q
    BY <1>2
  <2> QED
    BY <1>1, <1>2, <2>1, Zenon
<1>5. h \cup {Head(q)} \subseteq Processes
  BY <1>1, <1>2
<1> QED
  BY <1>1, <1>2, <1>3, <1>4, <1>5 DEF FenceIsOrderly

\* A process moves: others keep the fence, their plans and their locks, and
\* it has the fence for its own.
LEMMA LocksMove ==
    ASSUME LocksUnderFence, NEW a \in Processes, fence.held \ {a} \subseteq fence'.held,
           \A w \in Writers \ {a} : tx'[w] = tx[w],
           \A d \in Derivers \ {a} : pass'[d] = pass[d],
           a \in Writers =>
             /\ tx'[a].scopes \subseteq Scopes
             /\ tx'[a].scopes # {} => tx'[a].pc = "mark"
             /\ tx'[a].pc = "mark" => a \in fence'.held,
           a \in Derivers => (pass'[a].pc \in Claiming => a \in fence'.held),
           \A s \in Scopes : rowLock'[s] = rowLock[s] \/ rowLock'[s] \in {None, a},
           \A s \in Scopes : rowLock'[s] = a =>
             \/ a \in Writers /\ tx'[a].pc = "mark"
             \/ a \in Derivers /\ pass'[a].pc \in Claiming
    PROVE  LocksUnderFence'
<1>1. \A w \in Writers :
         /\ tx'[w].scopes \subseteq Scopes
         /\ tx'[w].scopes # {} => tx'[w].pc = "mark"
         /\ tx'[w].pc = "mark" => w \in fence'.held
  BY Zenon DEF LocksUnderFence
<1>2. \A d \in Derivers : pass'[d].pc \in Claiming => d \in fence'.held
  BY Zenon DEF LocksUnderFence
<1>3. ASSUME NEW s \in Scopes
      PROVE  \/ rowLock'[s] = None
             \/ rowLock'[s] \in Writers /\ tx'[rowLock'[s]].pc = "mark"
             \/ rowLock'[s] \in Derivers /\ pass'[rowLock'[s]].pc \in Claiming
  <2>1. CASE rowLock'[s] = a
    BY <2>1, Zenon
  <2>2. CASE rowLock'[s] # a /\ rowLock'[s] = rowLock[s]
    <3>1. PICK b : b = rowLock[s] /\ rowLock'[s] = b /\ b # a
      BY <2>2, Zenon
    <3>2. \/ b = None
          \/ b \in Writers /\ tx[b].pc = "mark"
          \/ b \in Derivers /\ pass[b].pc \in Claiming
      BY <3>1, ZenonT(120) DEF LocksUnderFence
    <3> QED
      BY <3>1, <3>2, Zenon
  <2> QED
    BY <2>1, <2>2, Zenon
<1> QED
  BY <1>1, <1>2, <1>3, Zenon DEF LocksUnderFence

\* The scopes a write plans to mark are scopes.
LEMMA PlansAreScopes ==
    ASSUME DeriveInv
    PROVE  /\ \A p \in Pulls, row \in PullRows : DerivationScope(p, row) \in Scopes
           /\ \A sha : ListPRScopesByHeadSHA(sha) \subseteq Scopes
           /\ ListRepositoryDerivationScopes \subseteq Scopes
<1>1. \A p \in Pulls, row \in PullRows : DerivationScope(p, row) \in Scopes
  BY DEF DerivationScope, Scopes, PullRows
<1>2. \A p \in Pulls : pull[p] \in PullRows
  BY Zenon DEF DeriveInv, DeriveTypeOK
<1>3. \A sha : ListPRScopesByHeadSHA(sha) \subseteq Scopes
  BY <1>1, <1>2, Zenon DEF ListPRScopesByHeadSHA
<1>4. ListRepositoryDerivationScopes \subseteq Scopes
  BY DEF ListRepositoryDerivationScopes, Scopes
<1> QED
  BY <1>1, <1>3, <1>4, Zenon

\* Writers: the fence, then the plan, then the locks, all given up together.
LEMMA WriterFenceInv ==
    ASSUME DeriveInv, FenceInv, NEW w \in Writers, WriterNext(w)
    PROVE  FenceInv'
<1>1. FenceIsOrderly /\ LocksUnderFence /\ w \in Processes /\ w \notin Derivers /\ w # None
  BY DeriveProcesses, Zenon DEF FenceInv, Processes
<1>2. /\ DOMAIN tx = Writers /\ DOMAIN rowLock = Scopes /\ pull \in [Pulls -> PullRows]
      /\ tx[w] = [pc |-> tx[w].pc, kind |-> tx[w].kind, of |-> tx[w].of,
                  row |-> tx[w].row, scopes |-> tx[w].scopes]
      /\ tx[w].pc # "idle" /\ tx[w].kind = "pull" => tx[w].of \in Pulls
      /\ tx[w].pc # "idle" /\ tx[w].kind = "stack" => tx[w].of \in Stacks
  BY Zenon DEF DeriveInv, DeriveTypeOK
\* The transaction takes or leaves a place at the fence and has no locks.
<1>3. ASSUME tx'[w].scopes = {}, tx'[w].pc # "mark",
             \A v \in Writers \ {w} : tx'[v] = tx[v], pass' = pass,
             \A s \in Scopes : rowLock'[s] = rowLock[s] \/ rowLock'[s] = None,
             \A s \in Scopes : rowLock'[s] # w,
             Request(w) \/ Release(w)
               \/ fence' = [held |-> fence.held \ {w}, queue |-> Leave(fence.queue, w)]
      PROVE  FenceInv'
  <2>1. FenceIsOrderly' /\ fence.held \ {w} \subseteq fence'.held
    BY <1>1, <1>3, FenceMoves, Zenon
  <2>2. LocksUnderFence'
    BY <1>1, <1>3, <2>1, LocksMove, Zenon
  <2> QED
    BY <2>1, <2>2, Zenon DEF FenceInv
\* The transaction holds the fence and plans or takes its marks.
<1>4. ASSUME fence' = fence, w \in fence.held, pass' = pass,
             tx'[w].pc = "mark", tx'[w].scopes \subseteq Scopes,
             \A v \in Writers \ {w} : tx'[v] = tx[v],
             \A s \in Scopes : rowLock'[s] = rowLock[s] \/ rowLock'[s] = w
      PROVE  FenceInv'
  <2>1. FenceIsOrderly' /\ fence.held \ {w} \subseteq fence'.held /\ w \in fence'.held
    BY <1>1, <1>4, FenceMoves, Zenon
  <2>2. LocksUnderFence'
    BY <1>1, <1>4, <2>1, LocksMove, Zenon
  <2> QED
    BY <2>1, <2>2, Zenon DEF FenceInv
<1>5. tx[w].pc # "mark" => \A s \in Scopes : rowLock[s] # w
  BY <1>1, Zenon DEF LocksUnderFence
<1>6. ASSUME NEW kind \in Kinds[w], NEW of \in Targets(kind), BeginEntityTx(w, kind, of)
      PROVE  FenceInv'
  <2>1. /\ tx[w].pc = "idle" /\ Request(w) /\ rowLock' = rowLock /\ pass' = pass
        /\ tx' = [tx EXCEPT ![w] = [IdleTx EXCEPT !.pc = "begun", !.kind = kind, !.of = of]]
    BY <1>6, Zenon DEF BeginEntityTx
  <2>2. tx'[w].scopes = {} /\ tx'[w].pc # "mark" /\ \A v \in Writers \ {w} : tx'[v] = tx[v]
    BY <1>2, <2>1 DEF IdleTx
  <2> QED
    BY <1>3, <1>5, <2>1, <2>2, Zenon
<1>7. ASSUME NEW kind, NEW row, NEW scopes, Apply(w, kind, row, scopes), scopes \subseteq Scopes
      PROVE  FenceInv'
  <2>1. /\ w \in fence.held /\ fence' = fence /\ rowLock' = rowLock /\ pass' = pass
        /\ tx' = [tx EXCEPT ![w].pc = "mark", ![w].row = row, ![w].scopes = scopes]
    BY <1>7, Zenon DEF Apply
  <2>2. tx'[w].pc = "mark" /\ tx'[w].scopes = scopes /\ \A v \in Writers \ {w} : tx'[v] = tx[v]
    BY <1>2, <2>1, Zenon
  <2> QED
    BY <1>4, <1>7, <2>1, <2>2, Zenon
<1>8. ASSUME NEW row \in PullRows, ApplyPullRequest(w, row) PROVE FenceInv'
  <2>1. /\ Apply(w, "pull", row, {DerivationScope(tx[w].of, pull[tx[w].of]),
                                  DerivationScope(tx[w].of, row)})
        /\ tx[w].of \in Pulls
    BY <1>2, <1>8, Zenon DEF ApplyPullRequest, Apply
  <2>2. {DerivationScope(tx[w].of, pull[tx[w].of]), DerivationScope(tx[w].of, row)} \subseteq Scopes
    BY <1>2, <2>1, PlansAreScopes, Zenon
  <2> QED
    BY <1>7, <2>1, <2>2, Zenon
<1>9. CASE TombstonePullRequest(w)
  <2>1. /\ Apply(w, "pull", [pull[tx[w].of] EXCEPT !.live = FALSE],
                 {DerivationScope(tx[w].of, pull[tx[w].of])})
        /\ tx[w].of \in Pulls
    BY <1>2, <1>9, Zenon DEF TombstonePullRequest, Apply
  <2>2. {DerivationScope(tx[w].of, pull[tx[w].of])} \subseteq Scopes
    BY <1>2, <2>1, PlansAreScopes, Zenon
  <2> QED
    BY <1>7, <2>1, <2>2, Zenon
<1>10. ASSUME NEW row, Apply(w, "stack", row, {<<"stack", tx[w].of>>}) PROVE FenceInv'
  <2>1. tx[w].of \in Stacks
    BY <1>2, <1>10, Zenon DEF Apply
  <2>2. {<<"stack", tx[w].of>>} \subseteq Scopes
    BY <2>1 DEF Scopes
  <2> QED
    BY <1>7, <1>10, <2>2, Zenon
<1>11. CASE TombstoneStack(w) \/ \E row \in Content : ApplyStack(w, row)
  BY <1>10, <1>11, Zenon DEF TombstoneStack, ApplyStack
<1>12. CASE ApplyChecks(w) \/ ApplyRepository(w)
  BY <1>7, <1>12, PlansAreScopes, Zenon DEF ApplyChecks, ApplyRepository
<1>13. ASSUME NEW s \in Scopes, MarkDirty(w, s) PROVE FenceInv'
  <2>1. /\ tx[w].pc = "mark" /\ fence' = fence /\ pass' = pass
        /\ rowLock' = [rowLock EXCEPT ![s] = w]
        /\ tx' = [tx EXCEPT ![w].scopes = @ \ {s}]
    BY <1>13, Zenon DEF MarkDirty
  <2>2. /\ tx'[w].pc = "mark" /\ tx'[w].scopes \subseteq tx[w].scopes
        /\ \A v \in Writers \ {w} : tx'[v] = tx[v]
    BY <1>2, <2>1, Zenon
  <2>3. w \in fence.held /\ tx[w].scopes \subseteq Scopes
    BY <1>1, <2>1, Zenon DEF LocksUnderFence
  <2> QED
    BY <1>2, <1>4, <2>1, <2>2, <2>3, Zenon
<1>14. CASE CommitEntityTx(w) \/ TouchEntity(w) \/ AbortEntityTx(w)
  <2>1. /\ tx' = [tx EXCEPT ![w] = IdleTx] /\ pass' = pass
        /\ UnlockRows(w) \/ (rowLock' = rowLock /\ tx[w].pc # "mark")
        /\ Release(w)
             \/ fence' = [held |-> fence.held \ {w}, queue |-> Leave(fence.queue, w)]
    BY <1>14, Zenon DEF CommitEntityTx, TouchEntity, AbortEntityTx
  <2>2. tx'[w].scopes = {} /\ tx'[w].pc # "mark" /\ \A v \in Writers \ {w} : tx'[v] = tx[v]
    BY <1>2, <2>1 DEF IdleTx
  <2>3. /\ \A s \in Scopes : rowLock'[s] = rowLock[s] \/ rowLock'[s] = None
        /\ \A s \in Scopes : rowLock'[s] # w
    BY <1>1, <1>5, <2>1, Zenon DEF UnlockRows
  <2> QED
    BY <1>3, <2>1, <2>2, <2>3, Zenon
<1> QED
  BY <1>6, <1>8, <1>9, <1>11, <1>12, <1>13, <1>14, Zenon
     DEF WriterNext, RollbackEntityTx, BreakDeadlock

\* Derivation passes: the fence, then the claim, given up together.
LEMMA PassFenceInv ==
    ASSUME DeriveInv, FenceInv, NEW d \in Derivers, PassNext(d)
    PROVE  FenceInv'
<1>1. FenceIsOrderly /\ LocksUnderFence /\ d \in Processes /\ d \notin Writers /\ d # None
  BY DeriveProcesses, Zenon DEF FenceInv, Processes
<1>2. /\ DOMAIN pass = Derivers /\ DOMAIN rowLock = Scopes
      /\ pass[d] = [pc |-> pass[d].pc, scopes |-> pass[d].scopes,
                    snapshot |-> pass[d].snapshot]
  BY Zenon DEF DeriveInv, DeriveTypeOK
<1>3. ASSUME pass'[d].pc \notin Claiming, tx' = tx,
             \A e \in Derivers \ {d} : pass'[e] = pass[e],
             \A s \in Scopes : rowLock'[s] = rowLock[s] \/ rowLock'[s] = None,
             \A s \in Scopes : rowLock'[s] # d,
             Request(d) \/ Release(d)
               \/ fence' = [held |-> fence.held \ {d}, queue |-> Leave(fence.queue, d)]
      PROVE  FenceInv'
  <2>1. FenceIsOrderly' /\ fence.held \ {d} \subseteq fence'.held
    BY <1>1, <1>3, FenceMoves, Zenon
  <2>2. LocksUnderFence'
    BY <1>1, <1>3, <2>1, LocksMove, Zenon
  <2> QED
    BY <2>1, <2>2, Zenon DEF FenceInv
<1>4. ASSUME fence' = fence, d \in fence.held, tx' = tx, pass'[d].pc \in Claiming,
             \A e \in Derivers \ {d} : pass'[e] = pass[e],
             \A s \in Scopes : rowLock'[s] = rowLock[s] \/ rowLock'[s] = d
      PROVE  FenceInv'
  <2>1. FenceIsOrderly' /\ fence.held \ {d} \subseteq fence'.held /\ d \in fence'.held
    BY <1>1, <1>4, FenceMoves, Zenon
  <2>2. LocksUnderFence'
    BY <1>1, <1>4, <2>1, LocksMove, Zenon
  <2> QED
    BY <2>1, <2>2, Zenon DEF FenceInv
<1>5. pass[d].pc \notin Claiming => \A s \in Scopes : rowLock[s] # d
  BY <1>1, Zenon DEF LocksUnderFence
<1>6. CASE BeginPass(d)
  <2>1. /\ pass[d].pc = "idle" /\ pass' = [pass EXCEPT ![d].pc = "begun"]
        /\ Request(d) /\ rowLock' = rowLock /\ tx' = tx
    BY <1>6, Zenon DEF BeginPass
  <2>2. /\ pass[d].pc \notin Claiming /\ pass'[d].pc \notin Claiming
        /\ \A e \in Derivers \ {d} : pass'[e] = pass[e]
    BY <1>2, <2>1 DEF Claiming
  <2> QED
    BY <1>3, <1>5, <2>1, <2>2, Zenon
<1>7. CASE ClaimDirtyScopes(d)
  <2>1. PICK claim : /\ pass[d].pc = "begun" /\ d \in fence.held /\ tx' = tx
                     /\ rowLock' = [s \in Scopes |-> IF s \in claim THEN d ELSE rowLock[s]]
                     /\ IF claim = {}
                        THEN pass' = [pass EXCEPT ![d] = IdlePass] /\ Release(d)
                        ELSE /\ pass' = [pass EXCEPT ![d].pc = "claimed", ![d].scopes = claim]
                             /\ fence' = fence
    BY <1>7, Zenon DEF ClaimDirtyScopes
  <2>2. pass[d].pc \notin Claiming
    BY <2>1 DEF Claiming
  <2>3. CASE claim = {}
    <3>1. pass'[d].pc \notin Claiming /\ \A e \in Derivers \ {d} : pass'[e] = pass[e]
      BY <1>2, <2>1, <2>3 DEF IdlePass, Claiming
    <3>2. \A s \in Scopes : rowLock'[s] = rowLock[s]
      BY <2>1, <2>3, Zenon
    <3> QED
      BY <1>3, <1>5, <2>1, <2>2, <2>3, <3>1, <3>2, Zenon
  <2>4. CASE claim # {}
    <3>1. pass'[d].pc \in Claiming /\ \A e \in Derivers \ {d} : pass'[e] = pass[e]
      BY <1>2, <2>1, <2>4 DEF Claiming
    <3>2. \A s \in Scopes : rowLock'[s] = rowLock[s] \/ rowLock'[s] = d
      BY <2>1, Zenon
    <3> QED
      BY <1>4, <2>1, <2>4, <3>1, <3>2, Zenon
  <2> QED
    BY <2>3, <2>4, Zenon
<1>8. CASE LoadSnapshot(d)
  <2>1. /\ pass[d].pc = "claimed" /\ fence' = fence /\ tx' = tx /\ rowLock' = rowLock
        /\ pass' = [pass EXCEPT ![d].pc = "loaded",
                      ![d].snapshot = [s \in pass[d].scopes |-> Snapshot(s)]]
    BY <1>8, Zenon DEF LoadSnapshot
  <2>2. /\ pass[d].pc \in Claiming /\ pass'[d].pc \in Claiming
        /\ \A e \in Derivers \ {d} : pass'[e] = pass[e]
    BY <1>2, <2>1, Zenon DEF Claiming
  <2>3. d \in fence.held
    BY <1>1, <2>2, Zenon DEF LocksUnderFence
  <2> QED
    BY <1>4, <2>1, <2>2, <2>3, Zenon
<1>9. CASE CommitPass(d) \/ RollbackPass(d)
  <2>1. /\ pass' = [pass EXCEPT ![d] = IdlePass] /\ tx' = tx /\ UnlockRows(d)
        /\ Release(d)
             \/ fence' = [held |-> fence.held \ {d}, queue |-> Leave(fence.queue, d)]
    BY <1>9, Zenon DEF CommitPass, RollbackPass
  <2>2. pass'[d].pc \notin Claiming /\ \A e \in Derivers \ {d} : pass'[e] = pass[e]
    BY <1>2, <2>1 DEF IdlePass, Claiming
  <2>3. /\ \A s \in Scopes : rowLock'[s] = rowLock[s] \/ rowLock'[s] = None
        /\ \A s \in Scopes : rowLock'[s] # d
    BY <1>1, <2>1, Zenon DEF UnlockRows
  <2> QED
    BY <1>3, <2>1, <2>2, <2>3, Zenon
<1> QED
  BY <1>6, <1>7, <1>8, <1>9, Zenon DEF PassNext

\* Every step preserves the order of the fences.
LEMMA FenceStep ==
    ASSUME DeriveInv, FenceInv, [DeriveNext]_deriveVars
    PROVE  FenceInv'
<1>1. FenceIsOrderly /\ LocksUnderFence
  BY Zenon DEF FenceInv
<1>2. Watermarker \in Processes /\ Watermarker \notin Writers \cup Derivers
  BY DeriveProcesses, Zenon DEF Processes
<1>3. ASSUME FenceIsOrderly', fence.held \ {Watermarker} \subseteq fence'.held,
             UNCHANGED <<rowLock, tx, pass>>
      PROVE  FenceInv'
  <2>1. \A s \in Scopes : rowLock[s] # Watermarker \/ rowLock[s] = None
    BY <1>1, <1>2, Zenon DEF LocksUnderFence
  <2>2. LocksUnderFence'
    BY <1>1, <1>2, <1>3, DeriveProcesses, Zenon DEF LocksUnderFence
  <2> QED
    BY <1>3, <2>2, Zenon DEF FenceInv
<1>4. CASE Grant
  BY <1>1, <1>3, <1>4, FenceGranted, Zenon DEF Grant
<1>5. CASE RequestWatermark \/ EndWatermark
  BY <1>1, <1>2, <1>3, <1>5, FenceMoves, Zenon DEF RequestWatermark, EndWatermark
<1>6. CASE TimeoutWatermark
  BY <1>1, <1>2, <1>3, <1>6, FenceMoves, Zenon DEF TimeoutWatermark
<1>7. CASE UNCHANGED deriveVars
  BY <1>1, <1>2, <1>3, <1>7, FenceMoves, Zenon DEF deriveVars
<1> QED
  BY <1>4, <1>5, <1>6, <1>7, WriterFenceInv, PassFenceInv, Zenon DEF DeriveNext

\* What a process in the queue waits for holds the fence or is further ahead;
\* a holder waits for holders only.
LEMMA WaitsAreOrdered ==
    ASSUME FenceInv
    PROVE  NoFenceCycle
<1>1. FenceIsOrderly /\ LocksUnderFence
  BY Zenon DEF FenceInv
<1> SUFFICES ASSUME NEW a \in Derivers \cup {Watermarker}
             PROVE  \E others \in SUBSET (Processes \ {a}) :
                       \A b \in others \cup {a}, c \in Processes :
                          WaitsFor(b, c) => c \in others
  BY Zenon DEF NoFenceCycle
<1>2. a \notin Writers
  BY DeriveProcesses, Zenon
<1>3. CASE ~Queued(a)
  <2>1. \A c \in Processes : ~WaitsFor(a, c)
    BY <1>2, <1>3, Zenon DEF WaitsFor, Queued
  <2> WITNESS {} \in SUBSET (Processes \ {a})
  <2> QED
    BY <2>1, Zenon
<1>4. CASE Queued(a)
  <2>1. PICK q, h : /\ q = fence.queue /\ h = fence.held
                    /\ h \subseteq Processes /\ q \in Seq(Processes)
                    /\ \A i, k \in DOMAIN q : q[i] = q[k] => i = k
                    /\ \A i \in DOMAIN q : q[i] \notin h
    BY <1>1, Zenon DEF FenceIsOrderly
  <2>2. PICK p \in DOMAIN q : q[p] = a
    BY <1>4, <2>1, Zenon DEF Queued
  <2> DEFINE ahead == {q[i] : i \in {k \in DOMAIN q : k < p}}
  <2>3. DOMAIN q \subseteq Nat /\ p \in Nat /\ \A i \in DOMAIN q : q[i] \in Processes
    BY <2>1, <2>2
  <2>4. h \cup ahead \in SUBSET (Processes \ {a})
    BY <2>1, <2>2, <2>3
  <2>5. ASSUME NEW w \in Writers, NEW c, NEW s \in tx[w].scopes, rowLock[s] = c, c \in Processes
        PROVE  c \in h
    <3>1. c # None
      BY <2>5, DeriveProcesses, Zenon DEF Processes
    <3> QED
      BY <1>1, <2>1, <2>5, <3>1, Zenon DEF LocksUnderFence
  <2>6. ASSUME NEW b \in ahead \cup {a}, NEW c \in Processes, WaitsFor(b, c)
        PROVE  c \in h \cup ahead
    <3>1. PICK k \in DOMAIN q : q[k] = b /\ k <= p
      BY <2>2, <2>3, <2>6
    <3>2. CASE c \in fence.held
      BY <2>1, <3>2, Zenon
    <3>3. CASE \E i, n \in DOMAIN q : i < n /\ q[i] = c /\ q[n] = b
      <4>1. PICK i \in DOMAIN q : i < k /\ q[i] = c
        BY <2>1, <3>1, <3>3, ZenonT(120)
      <4>2. i < p
        BY <2>3, <3>1, <4>1
      <4> QED
        BY <4>1, <4>2
    <3>4. CASE b \in Writers /\ \E s \in tx[b].scopes : rowLock[s] = c
      BY <1>1, <2>1, <3>1, <3>4, Zenon DEF LocksUnderFence
    <3> QED
      BY <2>1, <2>6, <3>2, <3>3, <3>4, Zenon DEF WaitsFor
  <2>7. ASSUME NEW b \in h, NEW c \in Processes, WaitsFor(b, c)
        PROVE  c \in h
    <3>1. \A i \in DOMAIN fence.queue : fence.queue[i] # b
      BY <2>1, <2>7
    <3>2. b \in Writers /\ \E s \in tx[b].scopes : rowLock[s] = c
      BY <2>7, <3>1, Zenon DEF WaitsFor, Queued
    <3> QED
      BY <2>5, <3>2, Zenon
  <2> QED
    <3>1. \A b \in (h \cup ahead) \cup {a}, c \in Processes : WaitsFor(b, c) => c \in h \cup ahead
      BY <2>6, <2>7, Zenon
    <3> HIDE DEF ahead
    <3> QED
      BY <2>4, <3>1, Zenon
<1> QED
  BY <1>3, <1>4, Zenon

\* derive.go:217-219: the outbox fence is taken before any row lock, so
\* whatever writers, passes and watermarks meet at the fence and at the dirty
\* rows, no pass and no watermark waits for itself through others.
THEOREM FenceComesFirst == DeriveSpec => []NoFenceCycle
<1>1. DeriveInit => DeriveInv /\ FenceInv
  <2> SUFFICES ASSUME DeriveInit PROVE FenceInv
    BY DeriveInitInv, Zenon
  <2>1. FenceIsOrderly
    BY DEF DeriveInit, FenceIsOrderly
  <2>2. LocksUnderFence
    BY Zenon DEF DeriveInit, LocksUnderFence, IdleTx, IdlePass, Claiming
  <2> QED
    BY <2>1, <2>2, Zenon DEF FenceInv
<1>2. DeriveInv /\ FenceInv /\ [DeriveNext]_deriveVars => (DeriveInv /\ FenceInv)'
  BY DeriveStepInv, FenceStep, Zenon
<1>3. FenceInv => NoFenceCycle
  BY WaitsAreOrdered, Zenon
<1> QED
  BY <1>1, <1>2, <1>3, PTL DEF DeriveSpec

-----------------------------------------------------------------------------
(* The delivery-gap healer                                                 *)

\* The boundary covers what is behind it because a pass moved its cursor only
\* past pages it had taken care of, and because a page, once read, keeps what
\* was listed after its cursor whatever GitHub does to the list meanwhile.  An
\* execution that lost its window still satisfies ExecOK: it may own it again.

\* x is listed before y.
Before(x, y) == \E i, k \in DOMAIN listing : i < k /\ listing[i] = x /\ listing[k] = y

Known == Listed \cup old
Punctual == Listed \ (late \cup old)

Windows == [open : BOOLEAN, cursor : Nat, deep : BOOLEAN, boundary : Nat, top : Nat,
            token : Nat, live : BOOLEAN, cutoff : SUBSET Nat]
Execs == [pc : {"idle", "list", "compare", "advance"}, token : Nat, cursor : Nat,
          deep : BOOLEAN, boundary : Nat, top : Nat, pages : Nat, restarted : BOOLEAN,
          cutoff : SUBSET Nat, page : Seq(Nat), next : Nat, loaded : Nat]

GapTypeOK ==
    /\ old \in SUBSET Nat
    /\ window \in Windows
    /\ exec \in [Jobs -> Execs]
    /\ continuation \in SUBSET [cursor : Nat, token : Nat]
    /\ tokens \in Nat

\* Every id has one place, ids are drawn in order, and what has left the
\* lookback is listed last.
ListingOK ==
    /\ listing \in Seq(Nat)
    /\ \A i, k \in DOMAIN listing : listing[i] = listing[k] => i = k
    /\ \E n \in Nat : Known = 1..n
    /\ \A i, k \in DOMAIN listing : i < k /\ listing[i] \in old => listing[k] \in old

\* What an incremental pass relies on that stops at b.
Covered(b) == \A id \in Punctual : Behind(id, b) => Cared(id)

\* A pass has taken care of everything between its newest delivery and its
\* cursor.
WindowOK ==
    /\ {window.boundary, window.cursor, window.top} \subseteq Known \cup {0}
    /\ window.boundary # 0 => Covered(window.boundary)
    /\ window.cursor = Root <=> window.top = 0
    /\ window.top # 0 => \A id \in Punctual :
         Behind(id, window.top) => Cared(id) \/ Before(window.cursor, id)
    /\ window.cutoff \subseteq old

PageSet(e) == {e.page[i] : i \in DOMAIN e.page}

\* The page of e holds id, or id is on one of the pages after it.
Reads(e, id) == id \in PageSet(e) \/ (e.next # Root /\ Before(e.next, id))

PageOK(e) ==
    /\ PageSet(e) \subseteq Known
    /\ e.next \in PageSet(e) \cup {Root}
    /\ e.cursor # Root => e.top # 0
    /\ e.top = 0 => e.next = Root
    /\ e.next \in Listed => \A id \in PageSet(e) : id = e.next \/ Before(id, e.next)
    /\ \A id \in Punctual :
         (IF e.cursor = Root THEN e.top # 0 /\ Behind(id, e.top) ELSE Before(e.cursor, id))
           => Reads(e, id)

ExecOK(e) ==
    /\ {e.boundary, e.cursor, e.top} \subseteq Known \cup {0}
    /\ e.boundary # 0 => Covered(e.boundary)
    /\ e.cutoff \subseteq old
    /\ e.pc = "list" => (e.cursor = Root <=> e.top = 0)
    /\ e.pc \in {"compare", "advance"} => PageOK(e)
    /\ e.pc = "advance" => \A id \in PageSet(e) \ old : Cared(id)

\* A delivery a deep pass owes is behind the page that was read, or on it.
PageOwes(e, id) == e.cursor = Root \/ Before(e.cursor, id) => Reads(e, id)

OwedOK ==
    /\ owed \subseteq Known
    /\ window.open /\ window.cursor # Root =>
         \A id \in (owed \cap Listed) \ old : Cared(id) \/ Before(window.cursor, id)
    /\ window.open => \A j \in Jobs, e \in Execs, id \in (owed \cap Listed) \ old :
         e = exec[j] /\ e.pc \in {"compare", "advance"} /\ e.token = window.token
           => PageOwes(e, id)
    /\ window.open /\ window.deep /\ owed # {} => \A j \in Jobs :
         exec[j].pc # "idle" /\ exec[j].token = window.token => exec[j].deep

ExecsOK == \A j \in Jobs, e \in Execs : e = exec[j] /\ e.pc # "idle" => ExecOK(e)

GapInv == GapTypeOK /\ ListingOK /\ WindowOK /\ ExecsOK /\ OwedOK

-----------------------------------------------------------------------------
(* How the list moves                                                      *)

\* What every step leaves true of the list: the order of what is listed, what
\* was taken care of, and that a delivery that is not late is listed first.
Evolves ==
    /\ Known \subseteq Known'
    /\ old \subseteq old'
    /\ Listed' \cap Known \subseteq Listed
    /\ \A id \in Punctual' : id \in Punctual \/ (id \notin Known /\ \A y : ~Before(y, id)')
    /\ \A x, y \in Known : Before(x, y)' => Before(x, y)
    /\ \A x, y : Before(x, y) /\ y \in Listed' => Before(x, y)'
    /\ \A id \in Known : Cared(id) => Cared(id)'

\* Behind b is b itself and what is listed after it.
LEMMA BehindIs ==
  ASSUME ListingOK
  PROVE  \A b, id : Behind(id, b) <=> id \in Listed /\ b \in Listed /\ (id = b \/ Before(b, id))
<1>1. listing \in Seq(Nat)
  BY Zenon DEF ListingOK
<1>2. \A i, k \in DOMAIN listing : i >= k <=> (i = k \/ k < i)
  BY <1>1
<1> QED
  BY <1>2, Zenon DEF Behind, Before, Listed

\* The same of the list after a step.
LEMMA BehindNext ==
  ASSUME ListingOK'
  PROVE  \A b, id : Behind(id, b)' <=> id \in Listed' /\ b \in Listed' /\ (id = b \/ Before(b, id)')
<1>1. listing' \in Seq(Nat)
  BY Zenon DEF ListingOK
<1>2. \A i, k \in DOMAIN listing' : i >= k <=> (i = k \/ k < i)
  BY <1>1
<1> QED
  BY <1>2, Zenon DEF Behind, Before, Listed

\* Only listed deliveries have an order.
LEMMA BeforeIsListed ==
  ASSUME NEW x, NEW y
  PROVE  /\ Before(x, y) => x \in Listed /\ y \in Listed
         /\ Before(x, y)' => x \in Listed' /\ y \in Listed'
  BY Zenon DEF Before, Listed

\* No delivery has the number of the empty cursor.
LEMMA RootUnlisted ==
  ASSUME ListingOK
  PROVE  0 \notin Known
<1>1. PICK m \in Nat : Known = 1..m
  BY Zenon DEF ListingOK
<1> QED
  BY <1>1

\* Nor will any have it after a step.
LEMMA RootIsUnknown ==
  ASSUME ListingOK, ListingOK'
  PROVE  0 \notin Known /\ 0 \notin Known'
<1>1. PICK m \in Nat : Known = 1..m
  BY Zenon DEF ListingOK
<1>2. PICK n \in Nat : Known' = 1..n
  BY Zenon DEF ListingOK
<1> QED
  BY <1>1, <1>2

\* A boundary stays one.
LEMMA CoveredStays ==
  ASSUME ListingOK, ListingOK', Evolves, NEW b \in Known, Covered(b)
  PROVE  Covered(b)'
<1> SUFFICES ASSUME NEW id \in Punctual', Behind(id, b)' PROVE Cared(id)'
  BY Zenon DEF Covered
<1>1. id \in Listed' /\ b \in Listed' /\ (id = b \/ Before(b, id)')
  BY BehindNext, Zenon
<1>2. id \in Punctual
  BY <1>1, Zenon DEF Evolves
<1>3. id \in Known /\ id \in Listed /\ b \in Listed
  BY <1>1, <1>2, Zenon DEF Punctual, Known, Evolves
<1>4. Behind(id, b)
  BY <1>1, <1>3, BehindIs, Zenon DEF Evolves
<1> QED
  BY <1>2, <1>3, <1>4, Zenon DEF Covered, Evolves

\* So does what a page has read.
LEMMA ReadsStays ==
  ASSUME Evolves, NEW e, NEW id \in Listed', Reads(e, id)
  PROVE  Reads(e, id)'
<1>1. PageSet(e)' = PageSet(e) /\ Root' = Root
  BY Zenon DEF PageSet, Root
<1> QED
  BY <1>1, Zenon DEF Reads, Evolves

\* A page that was read stays one, however the list moves after it.
LEMMA PageStays ==
  ASSUME ListingOK, ListingOK', Evolves, NEW e, PageOK(e),
         e.cursor \in Known \cup {0}, e.top \in Known \cup {0}
  PROVE  PageOK(e)'
<1>1. PageSet(e)' = PageSet(e)
  BY Zenon DEF PageSet
<1>2. PageSet(e) \subseteq Known'
  BY Zenon DEF PageOK, Evolves
<1>3. ASSUME e.next \in Listed', NEW id \in PageSet(e) PROVE id = e.next \/ Before(id, e.next)'
  <2>1. e.next \in Known
    BY <1>3, RootIsUnknown, Zenon DEF PageOK, Root, Known
  <2> QED
    BY <1>3, <2>1, Zenon DEF PageOK, Evolves
<1>4. ASSUME NEW id \in Punctual',
             IF e.cursor = Root THEN e.top # 0 /\ Behind(id, e.top)' ELSE Before(e.cursor, id)'
      PROVE  Reads(e, id)'
  <2>1. id \in Listed'
    BY Zenon DEF Punctual
  <2>2. id \in Punctual
    <3>1. CASE e.cursor = Root
      <4>1. e.top \in Known /\ (id = e.top \/ Before(e.top, id)')
        BY <1>4, <3>1, BehindNext, Zenon
      <4> QED
        BY <4>1, Zenon DEF Evolves
    <3>2. CASE e.cursor # Root
      BY <1>4, <3>2, Zenon DEF Evolves
    <3> QED
      BY <3>1, <3>2, Zenon
  <2>3. id \in Known /\ id \in Listed
    BY <2>2, Zenon DEF Punctual, Known
  <2>4. IF e.cursor = Root THEN e.top # 0 /\ Behind(id, e.top) ELSE Before(e.cursor, id)
    <3>1. CASE e.cursor = Root
      <4>1. e.top \in Known /\ e.top # 0 /\ e.top \in Listed' /\ (id = e.top \/ Before(e.top, id)')
        BY <1>4, <3>1, BehindNext, Zenon
      <4> QED
        BY <2>3, <3>1, <4>1, BehindIs, Zenon DEF Evolves
    <3>2. CASE e.cursor # Root
      BY <1>4, <2>3, <3>2, Zenon DEF Evolves, Root
    <3> QED
      BY <3>1, <3>2, Zenon
  <2> QED
    BY <2>1, <2>2, <2>4, ReadsStays, Zenon DEF PageOK
<1> QED
  BY <1>1, <1>2, <1>3, <1>4, Zenon DEF PageOK, Root

\* What an execution relies on survives the moves of the list.
LEMMA ExecStays ==
  ASSUME ListingOK, ListingOK', Evolves, NEW e, ExecOK(e)
  PROVE  ExecOK(e)'
<1>1. PageSet(e)' = PageSet(e)
  BY Zenon DEF PageSet
<1>2. {e.boundary, e.cursor, e.top} \subseteq Known' \cup {0} /\ e.cutoff \subseteq old'
  BY Zenon DEF ExecOK, Evolves
<1>3. e.boundary # 0 => Covered(e.boundary)'
  BY CoveredStays, Zenon DEF ExecOK
<1>4. e.pc \in {"compare", "advance"} => PageOK(e)'
  BY PageStays, Zenon DEF ExecOK
<1>5. ASSUME e.pc = "advance", NEW id \in PageSet(e) \ old' PROVE Cared(id)'
  <2>1. id \notin old /\ id \in Known
    BY <1>5, Zenon DEF Evolves, ExecOK, PageOK
  <2> QED
    BY <1>5, <2>1, Zenon DEF Evolves, ExecOK
<1> QED
  BY <1>1, <1>2, <1>3, <1>4, <1>5, Zenon DEF ExecOK, Root

\* And what a deep pass owes.
LEMMA OwesStays ==
  ASSUME Evolves, NEW e, NEW id \in Listed' \cap Known, PageOwes(e, id),
         e.cursor \in Known \cup {0}
  PROVE  PageOwes(e, id)'
<1>1. e.cursor = Root \/ Before(e.cursor, id)' => e.cursor = Root \/ Before(e.cursor, id)
  BY Zenon DEF Evolves, Root
<1> QED
  BY <1>1, ReadsStays, Zenon DEF PageOwes, Root

\* The invariant of a row, from its fields.
LEMMA WindowIs ==
  ASSUME NEW b, NEW c, NEW t, window'.boundary = b, window'.cursor = c, window'.top = t,
         window'.cutoff \subseteq old',
         b \in Known' \cup {0}, c \in Known' \cup {0}, t \in Known' \cup {0},
         b # 0 => Covered(b)', c = Root <=> t = 0,
         t # 0 => \A id \in Punctual' : Behind(id, t)' => Cared(id)' \/ Before(c, id)'
  PROVE  WindowOK'
  BY Zenon DEF WindowOK, Root, Covered

\* The window's promises, when its cursor and its newest delivery stay.
LEMMA WindowStays ==
  ASSUME ListingOK, ListingOK', Evolves, WindowOK,
         window'.boundary \in {window.boundary, 0}, window'.cursor = window.cursor,
         window'.top = window.top, window'.cutoff \subseteq old'
  PROVE  WindowOK'
<1>1. PICK b, c, t : b = window'.boundary /\ c = window.cursor /\ t = window.top
  BY Zenon
<1>2. /\ b \in Known \cup {0} /\ c \in Known \cup {0} /\ t \in Known \cup {0}
      /\ b # 0 => Covered(b)
      /\ c = Root <=> t = 0
      /\ t # 0 => \A id \in Punctual : Behind(id, t) => Cared(id) \/ Before(c, id)
  BY <1>1, Zenon DEF WindowOK
<1>3. b \in Known' \cup {0} /\ c \in Known' \cup {0} /\ t \in Known' \cup {0}
  BY <1>2, Zenon DEF Evolves
<1>4. b # 0 => Covered(b)'
  BY <1>2, CoveredStays, Zenon
<1>5. ASSUME t # 0, NEW id \in Punctual', Behind(id, t)'
      PROVE  Cared(id)' \/ Before(c, id)'
  <2>1. t \in Known /\ t \in Listed' /\ id \in Listed' /\ (id = t \/ Before(t, id)')
    BY <1>2, <1>5, BehindNext, Zenon
  <2>2. id \in Punctual
    BY <2>1, Zenon DEF Evolves
  <2>3. id \in Known /\ id \in Listed
    BY <2>2, Zenon DEF Punctual, Known
  <2>4. Behind(id, t)
    BY <2>1, <2>3, BehindIs, Zenon DEF Evolves
  <2> QED
    BY <1>2, <1>5, <2>1, <2>2, <2>3, <2>4, Zenon DEF Evolves
<1>6. window'.boundary = b /\ window'.cursor = c /\ window'.top = t
  BY <1>1, Zenon
<1> QED
  BY <1>2, <1>3, <1>4, <1>5, <1>6, WindowIs, Zenon

\* The places of a list are its positions up to its length.
LEMMA DomainIs ==
  ASSUME NEW u \in Seq(Nat)
  PROVE  DOMAIN u = 1..Len(u)
  OBVIOUS

\* The elements of a one-element sequence.
LEMMA SingletonIs ==
  ASSUME NEW n \in Nat
  PROVE  <<n>> \in Seq(Nat) /\ Len(<<n>>) = 1 /\ <<n>>[1] = n
  OBVIOUS

\* Lengths are natural numbers.
LEMMA LenIs ==
  ASSUME NEW u \in Seq(Nat)
  PROVE  Len(u) \in Nat
  OBVIOUS

\* The elements of a part of a sequence.
LEMMA SliceAt ==
  ASSUME NEW l \in Seq(Nat), NEW f \in Nat, NEW t \in Nat, f <= t, t <= Len(l)
  PROVE  \A s : s = SubSeq(l, f + 1, t) =>
           /\ s \in Seq(Nat) /\ Len(s) = t - f /\ DOMAIN s = 1..t - f
           /\ \A i \in 1..t - f : s[i] = l[f + i]
  OBVIOUS

\* The elements of a concatenation.
LEMMA ConcatAt ==
  ASSUME NEW u \in Seq(Nat), NEW v \in Seq(Nat)
  PROVE  /\ u \o v \in Seq(Nat) /\ Len(u \o v) = Len(u) + Len(v)
         /\ \A i \in 1..Len(u) : (u \o v)[i] = u[i]
         /\ \A i \in 1..Len(v) : (u \o v)[Len(u) + i] = v[i]
  OBVIOUS

\* The list with n inserted behind its first a entries.
IsInsertion(l, n, a, m) ==
    /\ m \in Seq(Nat) /\ DOMAIN m = 1..Len(l) + 1
    /\ \A i \in 1..a : m[i] = l[i]
    /\ m[a + 1] = n
    /\ \A i \in a + 1..Len(l) : m[i + 1] = l[i]

Distinct(l) == \A i, k \in DOMAIN l : l[i] = l[k] => i = k

\* The elements of a sequence into which one was inserted.
LEMMA InsertedAt ==
  ASSUME NEW l \in Seq(Nat), NEW n \in Nat, NEW a \in 0..Len(l)
  PROVE  \A m : m = SubSeq(l, 1, a) \o <<n>> \o SubSeq(l, a + 1, Len(l)) => IsInsertion(l, n, a, m)
<1> TAKE m
<1> HAVE m = SubSeq(l, 1, a) \o <<n>> \o SubSeq(l, a + 1, Len(l))
<1>1. PICK k \in Nat : k = Len(l) /\ a <= k /\ a \in Nat
  OBVIOUS
<1>2. PICK u : u = SubSeq(l, 1, a)
  BY Zenon
<1>3. PICK v : v = SubSeq(l, a + 1, k)
  BY Zenon
<1>4. u \in Seq(Nat) /\ Len(u) = a /\ \A i \in 1..a : u[i] = l[i]
  BY SMTT(60), <1>1, <1>2
<1>5. v \in Seq(Nat) /\ Len(v) = k - a /\ \A i \in 1..k - a : v[i] = l[a + i]
  BY SMTT(60), <1>1, <1>3
<1>6. PICK o : o = <<n>> /\ o \in Seq(Nat) /\ Len(o) = 1 /\ o[1] = n
  BY SingletonIs, Zenon
<1>7. PICK w : w = u \o o
  BY Zenon
<1>8. w \in Seq(Nat) /\ Len(w) = a + 1 /\ (\A i \in 1..a : w[i] = l[i]) /\ w[a + 1] = n
  <2>1. /\ w \in Seq(Nat) /\ Len(w) = Len(u) + Len(o)
        /\ \A i \in 1..Len(u) : w[i] = u[i]
        /\ \A i \in 1..Len(o) : w[Len(u) + i] = o[i]
    <3>1. /\ u \o o \in Seq(Nat) /\ Len(u \o o) = Len(u) + Len(o)
          /\ \A i \in 1..Len(u) : (u \o o)[i] = u[i]
          /\ \A i \in 1..Len(o) : (u \o o)[Len(u) + i] = o[i]
      BY <1>4, <1>6, ConcatAt, Zenon
    <3> QED
      BY <1>7, <3>1, Zenon
  <2>2. 1 \in 1..Len(o)
    BY <1>6
  <2>3. w[a + 1] = n
    BY <1>4, <1>6, <2>1, <2>2, Zenon
  <2> QED
    BY <1>4, <1>6, <2>1, <2>3, Zenon
<1>9. /\ m \in Seq(Nat) /\ Len(m) = (a + 1) + (k - a) /\ (\A i \in 1..a + 1 : m[i] = w[i])
      /\ \A i \in 1..k - a : m[a + 1 + i] = v[i]
  <2>1. m = w \o v
    BY <1>1, <1>2, <1>3, <1>6, <1>7, Zenon
  <2> QED
    <3>1. /\ w \o v \in Seq(Nat) /\ Len(w \o v) = Len(w) + Len(v)
          /\ \A i \in 1..Len(w) : (w \o v)[i] = w[i]
          /\ \A i \in 1..Len(v) : (w \o v)[Len(w) + i] = v[i]
      BY <1>5, <1>8, ConcatAt, Zenon
    <3> QED
      BY <1>5, <1>8, <2>1, <3>1, Zenon
<1>10. ASSUME NEW i \in a + 1..k PROVE m[i + 1] = l[i]
  <2>1. PICK d \in 1..k - a : d = i - a
    BY <1>1
  <2>2. m[a + 1 + d] = v[d] /\ v[d] = l[a + d]
    BY <1>5, <1>9, <2>1, Zenon
  <2>3. a + 1 + d = i + 1 /\ a + d = i
    BY <1>1, <2>1
  <2> QED
    BY Zenon, <2>2, <2>3
<1>11. DOMAIN m = 1..k + 1
  <2>1. (a + 1) + (k - a) = k + 1
    BY <1>1
  <2>2. DOMAIN m = 1..Len(m)
    BY <1>9, DomainIs, Zenon
  <2> QED
    BY <1>9, <2>1, <2>2, Zenon
<1>12. 1..a \subseteq 1..a + 1 /\ a + 1 \in 1..a + 1
  BY <1>1
<1>13. (\A i \in 1..a : m[i] = l[i]) /\ m[a + 1] = n
  BY <1>8, <1>9, <1>12, Zenon
<1> QED
  BY <1>1, <1>9, <1>10, <1>11, <1>13, Zenon DEF IsInsertion

\* Deliveries are numbered without gaps.
LEMMA NextIsNew ==
  ASSUME ListingOK, NEW id \in 1..MaxId, id \notin Known, 1..id - 1 \subseteq Known
  PROVE  id \in Nat /\ id # 0 /\ \E n \in Nat : Known \cup {id} = 1..n
<1>1. PICK n \in Nat : Known = 1..n
  BY Zenon DEF ListingOK
<1>2. id \in Nat /\ id # 0
  BY GapConstants
<1>3. id = n + 1
  <2>1. CASE id <= n
    BY <1>1, <1>2, <2>1
  <2>2. CASE id > n + 1
    <3>1. n + 1 \in 1..id - 1 /\ n + 1 \notin 1..n
      BY <1>1, <1>2, <2>2
    <3> QED
      BY <1>1, <3>1
  <2> QED
    BY <1>2, <2>1, <2>2
<1>4. 1..n \cup {n + 1} = 1..n + 1
  OBVIOUS
<1> QED
  BY <1>1, <1>2, <1>3, <1>4

\* A delivery takes one place in the list and moves none of the others past
\* another.
KeepsOrder(l, n, a, m) ==
    /\ Distinct(m)
    /\ \A i \in DOMAIN m : m[i] # n => \E p \in DOMAIN l : l[p] = m[i]
    /\ \A i \in DOMAIN l : \E p \in DOMAIN m : m[p] = l[i]
    /\ \E p \in DOMAIN m : m[p] = n
    /\ \A i, k \in DOMAIN m : i < k /\ m[i] # n /\ m[k] # n =>
         \E p, q \in DOMAIN l : p < q /\ l[p] = m[i] /\ l[q] = m[k]
    /\ \A i, k \in DOMAIN l : i < k =>
         \E p, q \in DOMAIN m : p < q /\ m[p] = l[i] /\ m[q] = l[k]
    /\ \A i, k \in DOMAIN m : i < k /\ m[k] = n => i \in 1..a

\* Inserting a delivery keeps the order of the others.
LEMMA InsertOrder ==
  ASSUME NEW l \in Seq(Nat), NEW n \in Nat, NEW a \in 0..Len(l), NEW m, IsInsertion(l, n, a, m),
         n \notin {l[i] : i \in DOMAIN l}, Distinct(l)
  PROVE  KeepsOrder(l, n, a, m)
<1>1. PICK h : h = Len(l)
  BY Zenon
<1>2. h \in Nat /\ a \in Nat /\ a <= h /\ DOMAIN l = 1..h
  BY <1>1, DomainIs
<1>3. /\ m \in Seq(Nat) /\ DOMAIN m = 1..h + 1
      /\ \A i \in 1..a : m[i] = l[i]
      /\ m[a + 1] = n
      /\ \A i \in a + 1..h : m[i + 1] = l[i]
  BY <1>1, Zenon DEF IsInsertion
<1>4. ASSUME NEW i \in 1..h + 1, m[i] # n
      PROVE  \E p \in 1..h : l[p] = m[i] /\ (i <= a => p = i) /\ (i > a => i = p + 1 /\ p > a)
  <2>1. CASE i <= a
    <3>1. i \in 1..a /\ i \in 1..h /\ ~(i > a)
      BY <1>2, <2>1
    <3> QED
      BY <1>3, <2>1, <3>1, Zenon
  <2>2. CASE i > a
    <3>1. i # a + 1
      BY <1>3, <1>4
    <3>2. PICK p \in a + 1..h : p = i - 1 /\ i = p + 1
      BY <1>2, <2>2, <3>1
    <3>3. p \in 1..h /\ ~(i <= a) /\ p > a
      BY <1>2, <2>2
    <3> QED
      BY <1>3, <3>2, <3>3, Zenon
  <2>3. i <= a \/ i > a
    BY <1>2
  <2> QED
    BY <2>1, <2>2, <2>3, Zenon
<1>5. ASSUME NEW i \in 1..h
      PROVE  \E p \in 1..h + 1 : m[p] = l[i] /\ (i <= a => p = i) /\ (i > a => p = i + 1)
  <2>1. CASE i <= a
    <3>1. i \in 1..a /\ i \in 1..h + 1 /\ ~(i > a)
      BY <1>2, <2>1
    <3> QED
      BY <1>3, <2>1, <3>1, Zenon
  <2>2. CASE i > a
    <3>1. i \in a + 1..h /\ i + 1 \in 1..h + 1 /\ ~(i <= a)
      BY <1>2, <2>2
    <3> QED
      BY <1>3, <2>2, <3>1, Zenon
  <2>3. i <= a \/ i > a
    BY <1>2
  <2> QED
    BY <2>1, <2>2, <2>3, Zenon
<1>6. a + 1 \in 1..h + 1
  BY <1>2
<1>7. ASSUME NEW k \in 1..h + 1, m[k] = n PROVE k = a + 1
  <2>1. CASE k <= a
    <3>1. k \in 1..a /\ k \in DOMAIN l
      BY <1>2, <2>1
    <3> QED
      BY <1>3, <1>7, <3>1, Zenon
  <2>2. CASE k > a + 1
    <3>1. PICK p \in a + 1..h : k = p + 1
      <4>1. k - 1 \in a + 1..h /\ k = (k - 1) + 1
        BY <1>2, <2>2
      <4> QED
        BY <4>1, Zenon
    <3>2. p \in DOMAIN l
      BY <1>2
    <3> QED
      BY <1>3, <1>7, <3>1, <3>2, Zenon
  <2> QED
    BY <1>2, <2>1, <2>2
<1>8. ASSUME NEW i \in 1..h + 1, NEW k \in 1..h + 1, m[i] = m[k] PROVE i = k
  <2>1. CASE m[i] = n
    BY <1>7, <1>8, <2>1, Zenon
  <2>2. CASE m[i] # n
    <3>1. PICK p \in 1..h : l[p] = m[i] /\ (i <= a => p = i) /\ (i > a => i = p + 1 /\ p > a)
      BY <1>4, <2>2, Zenon
    <3>2. PICK q \in 1..h : l[q] = m[k] /\ (k <= a => q = k) /\ (k > a => k = q + 1 /\ q > a)
      BY <1>4, <1>8, <2>2, Zenon
    <3>3. p = q
      BY <1>2, <1>8, <3>1, <3>2, Zenon DEF Distinct
    <3> QED
      BY <1>2, <3>1, <3>2, <3>3
  <2> QED
    BY <2>1, <2>2, Zenon
<1>9. ASSUME NEW i \in 1..h + 1, NEW k \in 1..h + 1, i < k, m[i] # n, m[k] # n
      PROVE  \E p, q \in 1..h : p < q /\ l[p] = m[i] /\ l[q] = m[k]
  <2>1. PICK p \in 1..h : l[p] = m[i] /\ (i <= a => p = i) /\ (i > a => i = p + 1 /\ p > a)
    BY <1>4, <1>9, Zenon
  <2>2. PICK q \in 1..h : l[q] = m[k] /\ (k <= a => q = k) /\ (k > a => k = q + 1 /\ q > a)
    BY <1>4, <1>9, Zenon
  <2>3. p < q
    BY <1>2, <1>9, <2>1, <2>2
  <2> QED
    BY <2>1, <2>2, <2>3, Zenon
<1>10. ASSUME NEW i \in 1..h, NEW k \in 1..h, i < k
       PROVE  \E p, q \in 1..h + 1 : p < q /\ m[p] = l[i] /\ m[q] = l[k]
  <2>1. PICK p \in 1..h + 1 : m[p] = l[i] /\ (i <= a => p = i) /\ (i > a => p = i + 1)
    BY <1>5, Zenon
  <2>2. PICK q \in 1..h + 1 : m[q] = l[k] /\ (k <= a => q = k) /\ (k > a => q = k + 1)
    BY <1>5, Zenon
  <2>3. p < q
    BY <1>2, <1>10, <2>1, <2>2
  <2> QED
    BY <2>1, <2>2, <2>3, Zenon
<1>11. ASSUME NEW i \in 1..h + 1, NEW k \in 1..h + 1, i < k, m[k] = n PROVE i \in 1..a
  <2>1. k = a + 1
    BY <1>7, <1>11, Zenon
  <2> QED
    BY <1>2, <1>11, <2>1
<1>13. \A i \in 1..h + 1 : m[i] # n => \E p \in 1..h : l[p] = m[i]
  BY <1>4, Zenon
<1>14. \A i \in 1..h : \E p \in 1..h + 1 : m[p] = l[i]
  BY <1>5, Zenon
<1>15. DOMAIN m = 1..h + 1 /\ DOMAIN l = 1..h
  BY <1>2, <1>3, Zenon
<1>16. Distinct(m)
  BY <1>8, <1>15, Zenon DEF Distinct
<1>17. \A i, k \in DOMAIN m : i < k /\ m[i] # n /\ m[k] # n =>
         \E p, q \in DOMAIN l : p < q /\ l[p] = m[i] /\ l[q] = m[k]
  <2> SUFFICES ASSUME NEW i \in DOMAIN m, NEW k \in DOMAIN m, i < k, m[i] # n, m[k] # n
               PROVE  \E p, q \in DOMAIN l : p < q /\ l[p] = m[i] /\ l[q] = m[k]
    BY Zenon
  <2>1. i \in 1..h + 1 /\ k \in 1..h + 1
    BY <1>15, Zenon
  <2>2. PICK p, q \in 1..h : p < q /\ l[p] = m[i] /\ l[q] = m[k]
    BY <1>9, <2>1, Zenon
  <2>3. p \in DOMAIN l /\ q \in DOMAIN l
    BY <1>15, Zenon
  <2> QED
    BY <2>2, <2>3, Zenon
<1>18. \A i, k \in DOMAIN l : i < k =>
         \E p, q \in DOMAIN m : p < q /\ m[p] = l[i] /\ m[q] = l[k]
  <2> SUFFICES ASSUME NEW i \in DOMAIN l, NEW k \in DOMAIN l, i < k
               PROVE  \E p, q \in DOMAIN m : p < q /\ m[p] = l[i] /\ m[q] = l[k]
    BY Zenon
  <2>1. i \in 1..h /\ k \in 1..h
    BY <1>15, Zenon
  <2>2. PICK p, q \in 1..h + 1 : p < q /\ m[p] = l[i] /\ m[q] = l[k]
    BY <1>10, <2>1, Zenon
  <2>3. p \in DOMAIN m /\ q \in DOMAIN m
    BY <1>15, Zenon
  <2> QED
    BY <2>2, <2>3, Zenon
<1>19. \A i, k \in DOMAIN m : i < k /\ m[k] = n => i \in 1..a
  BY <1>11, <1>15, Zenon
<1>21. /\ \A i \in DOMAIN m : m[i] # n => \E p \in DOMAIN l : l[p] = m[i]
       /\ \A i \in DOMAIN l : \E p \in DOMAIN m : m[p] = l[i]
       /\ \E p \in DOMAIN m : m[p] = n
  BY <1>3, <1>6, <1>13, <1>14, <1>15, Zenon
<1> QED
  BY <1>16, <1>17, <1>18, <1>19, <1>21, Zenon DEF KeepsOrder

\* A delivery, listed first or late, moves the list as Evolves says.
LEMMA DeliverMoves ==
  ASSUME ListingOK, NEW id \in 1..MaxId, NEW ahead \in 0..Len(listing), NEW stored,
         Deliver(id, ahead, stored)
  PROVE  ListingOK' /\ Evolves
<1>1. PICK l, n, m : l = listing /\ n = id /\ m = listing'
  BY Zenon
<1>2. /\ l \in Seq(Nat) /\ Distinct(l)
      /\ \A i, k \in DOMAIN l : i < k /\ l[i] \in old => l[k] \in old
  BY <1>1, Zenon DEF ListingOK, Distinct
<1>3. n \in Nat /\ n # 0 /\ n \notin Known /\ \E u \in Nat : Known \cup {n} = 1..u
  <2>1. id \notin Known /\ 1..id - 1 \subseteq Known
    BY Zenon DEF Deliver, Known
  <2> QED
    BY <1>1, <2>1, NextIsNew, Zenon
<1>4. n \notin {l[i] : i \in DOMAIN l}
  BY <1>1, <1>3, Zenon DEF Known, Listed
<1>5. IsInsertion(l, n, ahead, m)
  <2>1. m = SubSeq(l, 1, ahead) \o <<n>> \o SubSeq(l, ahead + 1, Len(l))
    BY <1>1, Zenon DEF Deliver
  <2>2. ahead \in 0..Len(l)
    BY <1>1, Zenon
  <2> QED
    BY <1>2, <1>3, <2>1, <2>2, InsertedAt, Zenon
<1>6. m \in Seq(Nat) /\ KeepsOrder(l, n, ahead, m)
  <2>1. ahead \in 0..Len(l)
    BY <1>1, Zenon
  <2>2. m \in Seq(Nat)
    BY <1>5, Zenon DEF IsInsertion
  <2> QED
    BY <1>2, <1>3, <1>4, <1>5, <2>1, <2>2, InsertOrder, Zenon
<1>7. /\ old' = old /\ late' = (IF ahead > 0 THEN late \cup {n} ELSE late)
      /\ asked' = asked /\ lost' \subseteq lost \cup {n}
      /\ \A i \in 1..ahead : l[i] \notin old
  BY <1>1, Zenon DEF Deliver
<1>8. Listed' = Listed \cup {n}
  <2>1. ASSUME NEW i \in DOMAIN m PROVE m[i] \in Listed \cup {n}
    <3>1. m[i] # n => \E p \in DOMAIN l : l[p] = m[i]
      BY <1>6, Zenon DEF KeepsOrder
    <3> QED
      BY <1>1, <3>1, Zenon DEF Listed
  <2>2. ASSUME NEW i \in DOMAIN l PROVE l[i] \in Listed'
    <3>1. \E p \in DOMAIN m : m[p] = l[i]
      BY <1>6, Zenon DEF KeepsOrder
    <3> QED
      BY <1>1, <3>1, Zenon DEF Listed
  <2>3. n \in Listed'
    BY <1>1, <1>6, Zenon DEF Listed, KeepsOrder
  <2> QED
    BY <1>1, <2>1, <2>2, <2>3, ZenonT(120) DEF Listed
<1>9. Known' = Known \cup {n}
  BY <1>7, <1>8, Zenon DEF Known
<1>10. ASSUME NEW i \in DOMAIN m, NEW k \in DOMAIN m, i < k, m[i] \in old PROVE m[k] \in old
  <2>1. m[i] # n
    BY <1>3, <1>10, Zenon DEF Known
  <2>2. i \notin 1..ahead
    BY <1>5, <1>7, <1>10, Zenon DEF IsInsertion
  <2>3. m[k] # n
    BY <1>6, <1>10, <2>2, Zenon DEF KeepsOrder
  <2>4. PICK p, q \in DOMAIN l : p < q /\ l[p] = m[i] /\ l[q] = m[k]
    BY <1>6, <1>10, <2>1, <2>3, Zenon DEF KeepsOrder
  <2> QED
    BY <1>2, <1>10, <2>4, Zenon
<1>11. ASSUME NEW x \in Known, NEW y \in Known, Before(x, y)' PROVE Before(x, y)
  <2>1. PICK i, k \in DOMAIN m : i < k /\ m[i] = x /\ m[k] = y
    BY <1>1, <1>11, Zenon DEF Before
  <2>2. PICK p, q \in DOMAIN l : p < q /\ l[p] = m[i] /\ l[q] = m[k]
    BY <1>3, <1>6, <2>1, ZenonT(120) DEF KeepsOrder
  <2> QED
    BY <1>1, <2>1, <2>2, Zenon DEF Before
<1>12. ASSUME NEW x, NEW y, Before(x, y) PROVE Before(x, y)'
  <2>1. PICK i, k \in DOMAIN l : i < k /\ l[i] = x /\ l[k] = y
    BY <1>1, <1>12, Zenon DEF Before
  <2>2. PICK p, q \in DOMAIN m : p < q /\ m[p] = l[i] /\ m[q] = l[k]
    BY <1>6, <2>1, Zenon DEF KeepsOrder
  <2> QED
    BY <1>1, <2>1, <2>2, Zenon DEF Before
<1>13. ASSUME NEW x \in Punctual' PROVE x \in Punctual \/ (x \notin Known /\ \A y : ~Before(y, x)')
  <2>1. CASE x = n
    <3>1. ahead = 0
      BY <1>7, <1>13, <2>1 DEF Punctual
    <3>2. 1..ahead = {}
      BY <3>1
    <3> QED
      BY <1>1, <1>3, <1>6, <2>1, <3>2, Zenon DEF Before, KeepsOrder
  <2>2. CASE x # n
    BY <1>7, <1>8, <1>13, <2>2, Zenon DEF Punctual
  <2> QED
    BY <2>1, <2>2, Zenon
<1>14. \A x \in Known : Cared(x) => Cared(x)'
  BY <1>3, <1>7, Zenon DEF Cared
<1>15. ListingOK'
  BY <1>1, <1>3, <1>6, <1>7, <1>9, <1>10, ZenonT(120) DEF ListingOK, Distinct, KeepsOrder
<1> QED
  BY <1>3, <1>7, <1>8, <1>9, <1>11, <1>12, <1>13, <1>14, <1>15, Zenon DEF Evolves, Known

\* So does one that leaves the list.
LEMMA ForgetMoves ==
  ASSUME ListingOK, Forget
  PROVE  ListingOK' /\ Evolves
<1>1. PICK l, m : l = listing /\ m = listing'
  BY Zenon
<1>2. /\ l \in Seq(Nat) /\ (\A i, k \in DOMAIN l : l[i] = l[k] => i = k)
      /\ \A i, k \in DOMAIN l : i < k /\ l[i] \in old => l[k] \in old
      /\ l # <<>> /\ l[Len(l)] \in old
      /\ m = SubSeq(l, 1, Len(l) - 1)
  BY <1>1, Zenon DEF ListingOK, Forget
<1>3. PICK h \in Nat : h = Len(l) /\ h # 0 /\ DOMAIN l = 1..h
  BY <1>2
<1>4. m \in Seq(Nat) /\ DOMAIN m = 1..h - 1 /\ \A i \in 1..h - 1 : m[i] = l[i]
  BY <1>2, <1>3
<1>5. 1..h - 1 \subseteq 1..h /\ \A i \in 1..h : i \in 1..h - 1 \/ i = h
  BY <1>3
<1>6. \A i, k \in 1..h : i < k => i # h
  BY <1>3
<1>7. old' = old /\ late' = late /\ asked' = asked /\ lost' = lost
  BY Zenon DEF Forget
<1>8. Listed' \subseteq Listed /\ Listed \subseteq Listed' \cup {l[h]} /\ l[h] \in old
  <2>1. ASSUME NEW i \in DOMAIN m PROVE m[i] \in Listed
    BY <1>1, <1>3, <1>4, <1>5, Zenon DEF Listed
  <2>2. ASSUME NEW i \in DOMAIN l, i # h PROVE l[i] \in Listed'
    BY <1>1, <1>3, <1>4, <1>5, <2>2, Zenon DEF Listed
  <2>3. ASSUME NEW x \in Listed' PROVE x \in Listed
    BY <1>1, <2>1, Zenon DEF Listed
  <2>4. ASSUME NEW x \in Listed PROVE x \in Listed' \cup {l[h]}
    <3>1. PICK i \in DOMAIN l : x = l[i]
      BY <1>1, Zenon DEF Listed
    <3> QED
      BY <2>2, <3>1, Zenon
  <2> QED
    BY <1>2, <1>3, <2>3, <2>4, Zenon
<1>9. Known' = Known
  BY <1>7, <1>8, Zenon DEF Known
<1>10. \A x, y : Before(x, y)' => Before(x, y)
  BY <1>1, <1>3, <1>4, <1>5, ZenonT(120) DEF Before
<1>11. \A x, y : Before(x, y) /\ y \in Listed' => Before(x, y)'
  <2> SUFFICES ASSUME NEW x, NEW y, Before(x, y), y \in Listed' PROVE Before(x, y)'
    BY Zenon
  <2>1. PICK i, k \in DOMAIN l : i < k /\ l[i] = x /\ l[k] = y
    BY <1>1, Zenon DEF Before
  <2>2. PICK q \in DOMAIN m : m[q] = y
    BY <1>1, Zenon DEF Listed
  <2>3. q = k
    BY <1>2, <1>3, <1>4, <1>5, <2>1, <2>2, Zenon
  <2>4. i \in 1..h - 1
    BY <1>3, <1>5, <1>6, <2>1, Zenon
  <2> QED
    BY <1>1, <1>4, <2>1, <2>2, <2>3, <2>4, Zenon DEF Before
<1>12. Punctual' \subseteq Punctual
  BY <1>7, <1>8, Zenon DEF Punctual
<1>13. \A id \in Known : Cared(id) => Cared(id)'
  BY <1>7, Zenon DEF Cared
<1>14. ASSUME NEW i \in DOMAIN m PROVE i \in DOMAIN l /\ m[i] = l[i]
  BY <1>3, <1>4, <1>5, <1>14, Zenon
<1>15. /\ \A i, k \in DOMAIN m : m[i] = m[k] => i = k
       /\ \A i, k \in DOMAIN m : i < k /\ m[i] \in old => m[k] \in old
  BY <1>2, <1>14, ZenonT(120)
<1>16. ListingOK'
  BY <1>1, <1>4, <1>7, <1>9, <1>15, Zenon DEF ListingOK
<1> QED
  BY <1>7, <1>8, <1>9, <1>10, <1>11, <1>12, <1>13, <1>16, Zenon DEF Evolves

\* So does one that leaves the lookback.
LEMMA AgeMoves ==
  ASSUME ListingOK, NEW id \in Listed, Age(id)
  PROVE  ListingOK' /\ Evolves
<1>1. PICK i \in DOMAIN listing : /\ listing[i] = id
                                  /\ \A k \in i + 1..Len(listing) : listing[k] \in old
  BY Zenon DEF Age
<1>2. /\ listing' = listing /\ late' = late /\ old' = old \cup {id} /\ lost' = lost
      /\ asked' = asked
  BY Zenon DEF Age
<1>3. Listed' = Listed
  BY <1>2, Zenon DEF Listed
<1>4. Known' = Known
  BY <1>2, <1>3, Zenon DEF Known
<1>5. \A x, y : Before(x, y)' <=> Before(x, y)
  BY <1>2, Zenon DEF Before
<1>6. Punctual' \subseteq Punctual
  BY <1>2, <1>3, Zenon DEF Punctual
<1>7. \A x : Cared(x)' <=> Cared(x)
  BY <1>2, Zenon DEF Cared
<1>8. ASSUME NEW p \in DOMAIN listing, NEW q \in DOMAIN listing, p < q, listing[p] \in old \cup {id}
      PROVE  listing[q] \in old \cup {id}
  <2>1. CASE listing[p] \in old
    BY <1>8, <2>1, Zenon DEF ListingOK
  <2>2. CASE listing[p] = id
    <3>1. p = i
      BY <1>1, <2>2, Zenon DEF ListingOK
    <3>2. listing \in Seq(Nat)
      BY Zenon DEF ListingOK
    <3>3. q \in i + 1..Len(listing)
      BY <1>8, <3>1, <3>2
    <3> QED
      BY <1>1, <3>3, Zenon
  <2> QED
    BY <1>8, <2>1, <2>2, Zenon
<1>9. ListingOK'
  BY <1>2, <1>4, <1>8, Zenon DEF ListingOK
<1> QED
  BY <1>2, <1>3, <1>4, <1>5, <1>6, <1>7, <1>9, Zenon DEF Evolves

\* Every other step leaves the list alone.
LEMMA StandsStill ==
  ASSUME ListingOK, listing' = listing, late' = late, old' = old,
         \A id : Cared(id) => Cared(id)'
  PROVE  ListingOK' /\ Evolves
<1>1. Listed' = Listed /\ Known' = Known
  BY Zenon DEF Listed, Known
<1>2. \A x, y : Before(x, y)' <=> Before(x, y)
  BY Zenon DEF Before
<1>3. Punctual' = Punctual
  BY <1>1, Zenon DEF Punctual
<1>4. ListingOK'
  BY <1>1, Zenon DEF ListingOK
<1> QED
  BY <1>1, <1>2, <1>3, <1>4, Zenon DEF Evolves

-----------------------------------------------------------------------------
(* What a page holds                                                       *)

\* The page after c and the pages after that one hold what is listed after c.
PageHolds(c, page, next) ==
    /\ page \in Seq(Nat)
    /\ \A i \in DOMAIN page : page[i] \in Listed
    /\ page # <<>> => page[1] \in Listed
    /\ next \in Nat
    /\ next # Root => page # <<>> /\ \E i \in DOMAIN page : page[i] = next
    /\ next # Root => \A i \in DOMAIN page : page[i] = next \/ Before(page[i], next)
    /\ \A id \in Listed : c = Root \/ Before(c, id) =>
         (\E i \in DOMAIN page : page[i] = id) \/ (next # Root /\ Before(next, id))

\* A page holds what is listed after its cursor, or what comes next is
\* behind the cursor it names.
LEMMA PageIsRead ==
  ASSUME ListingOK, NEW c \in {Root} \cup Listed
  PROVE  \A page, next : page = PageAfter(c) /\ next = NextCursor(page) => PageHolds(c, page, next)
<1> SUFFICES ASSUME NEW page, NEW next, page = PageAfter(c), next = NextCursor(page)
             PROVE  PageHolds(c, page, next)
  BY Zenon
<1>1. PICK l, h : l = listing /\ h = Len(listing)
  BY Zenon
<1>2. l \in Seq(Nat) /\ h = Len(l) /\ DOMAIN l = 1..h
  <2>1. l \in Seq(Nat) /\ h = Len(l)
    BY <1>1, Zenon DEF ListingOK
  <2> QED
    BY <2>1, DomainIs, Zenon
<1>0. h \in Nat
  BY <1>2, LenIs, Zenon
<1>3. \A i, k \in 1..h : l[i] = l[k] => i = k
  BY <1>1, <1>2, Zenon DEF ListingOK
<1>4. PICK from \in Nat :
          /\ from <= h
          /\ c = Root => from = 0
          /\ c # Root => from # 0 /\ l[from] = c
          /\ page = SubSeq(l, from + 1, IF from + PageSize < h THEN from + PageSize ELSE h)
  <2>1. PICK f : f = IF c = Root THEN 0 ELSE CHOOSE i \in DOMAIN listing : listing[i] = c
    OBVIOUS
  <2>2. c # Root => f \in 1..h /\ l[f] = c
    <3>1. c # Root => \E i \in DOMAIN listing : listing[i] = c
      BY Zenon DEF Listed
    <3>2. c # Root => f \in DOMAIN listing /\ listing[f] = c
      BY <2>1, <3>1, Zenon
    <3> QED
      BY <1>1, <1>2, <3>2, Zenon
  <2>3. f \in Nat /\ f <= h /\ (c = Root => f = 0) /\ (c # Root => f # 0 /\ l[f] = c)
    <3>1. c = Root => f = 0
      BY <2>1
    <3>2. f = 0 \/ f \in 1..h
      BY <2>2, <3>1, Zenon
    <3>3. f \in Nat /\ f <= h
      BY <1>0, <3>2
    <3>4. 0 \notin 1..h
      OBVIOUS
    <3> QED
      BY <2>2, <3>1, <3>3, <3>4, Zenon
  <2>4. page = SubSeq(l, f + 1, IF f + PageSize < h THEN f + PageSize ELSE h)
    BY <1>1, <2>1 DEF PageAfter
  <2> QED
    BY <2>3, <2>4, Zenon
<1>5. PICK to : to = IF from + PageSize < h THEN from + PageSize ELSE h
  BY Zenon
<1>6. to \in Nat /\ to <= h /\ from <= to /\ (from = to => from = h)
  <2>1. from <= h
    BY <1>4, Zenon
  <2> QED
    BY <1>0, <1>5, <2>1, GapConstants
<1>7. page \in Seq(Nat) /\ Len(page) = to - from /\ DOMAIN page = 1..to - from
      /\ \A i \in 1..to - from : page[i] = l[from + i]
  <2>1. page = SubSeq(l, from + 1, to)
    BY <1>4, <1>5, Zenon
  <2>2. to <= Len(l)
    BY <1>2, <1>6, Zenon
  <2> QED
    <3>1. \A u : u = SubSeq(l, from + 1, to) =>
            /\ u \in Seq(Nat) /\ Len(u) = to - from /\ DOMAIN u = 1..to - from
            /\ \A i \in 1..to - from : u[i] = l[from + i]
      BY <1>2, <1>6, <2>2, SliceAt, Zenon
    <3> QED
      BY <2>1, <3>1, Zenon
<1>8. ASSUME NEW i \in 1..to - from PROVE from + i \in 1..h /\ from + i <= to /\ page[i] = l[from + i]
  <2>1. from + i \in 1..h /\ from + i <= to
    BY <1>0, <1>6
  <2> QED
    BY <1>7, <2>1, Zenon
<1>9. ASSUME NEW k \in 1..h, k > from, k <= to PROVE \E i \in 1..to - from : page[i] = l[k]
  <2>1. k - from \in 1..to - from /\ from + (k - from) = k
    BY <1>0, <1>6, <1>9
  <2> QED
    BY <1>7, <2>1, Zenon
<1>12. ASSUME NEW id \in Listed, c = Root \/ Before(c, id) PROVE \E k \in 1..h : l[k] = id /\ k > from
  <2>1. CASE c = Root
    <3>1. PICK k \in 1..h : l[k] = id
      BY <1>1, <1>2, Zenon DEF Listed
    <3>2. k > from
      BY <1>4, <2>1, <3>1
    <3> QED
      BY <3>1, <3>2, Zenon
  <2>2. CASE c # Root
    <3>1. PICK i, k \in 1..h : i < k /\ l[i] = c /\ l[k] = id
      BY <1>1, <1>2, <1>12, <2>2, Zenon DEF Before
    <3>2. from \in 1..h /\ l[from] = c
      BY <1>0, <1>4, <2>2
    <3>3. from = i
      BY <1>3, <3>1, <3>2, Zenon
    <3>4. k > from
      BY <3>1, <3>3
    <3> QED
      BY <3>1, <3>4, Zenon
  <2> QED
    BY <2>1, <2>2, Zenon
<1>10. CASE to = from
  <2>1. page = <<>>
    BY <1>0, <1>6, <1>7, <1>10
  <2>2. next = Root
    BY <2>1, Zenon DEF NextCursor
  <2>3. DOMAIN page = {}
    BY <2>1
  <2>4. ASSUME NEW id \in Listed, c = Root \/ Before(c, id) PROVE FALSE
    <3>1. PICK k \in 1..h : l[k] = id /\ k > from
      BY <1>12, <2>4, Zenon
    <3> QED
      BY <1>0, <1>6, <1>10, <3>1
  <2>5. next \in Nat
    BY <2>2 DEF Root
  <2> QED
    BY <1>7, <2>1, <2>2, <2>3, <2>4, <2>5, ZenonT(120) DEF PageHolds
<1>11. CASE to # from
  <2>1. PICK d : d = to - from
    BY Zenon
  <2>2. d \in Nat /\ d \in 1..d /\ 1 \in 1..d /\ from + d = to /\ to \in 1..h
    BY <1>0, <1>6, <1>11, <2>1
  <2>3. page # <<>> /\ Len(page) = d /\ page[d] = l[to] /\ DOMAIN page = 1..d
    <3>1. page # <<>>
      BY <1>7, <2>1, <2>2
    <3>2. page[d] = l[from + d]
      BY <1>7, <2>1, <2>2, Zenon
    <3> QED
      BY <1>7, <2>1, <2>2, <3>1, <3>2, Zenon
  <2>4. next = IF l[to] = l[h] THEN Root ELSE l[to]
    BY <1>1, <2>3, Zenon DEF NextCursor
  <2>5. h \in 1..h
    BY <1>0, <2>2
  <2>6. next = IF to = h THEN Root ELSE l[to]
    BY <1>3, <2>2, <2>4, <2>5, Zenon
  <2>7. \A k \in 1..h : l[k] \in Listed /\ l[k] \in Nat
    <3>1. \A k \in 1..h : l[k] \in Nat
      BY <1>2
    <3> QED
      BY <1>1, <1>2, <3>1, Zenon DEF Listed
  <2>8. \A i \in DOMAIN page : page[i] \in Listed
    BY <1>8, <2>1, <2>3, <2>7, Zenon
  <2>9. next \in Nat
    BY <2>2, <2>6, <2>7 DEF Root
  <2>10. ASSUME next # Root PROVE \A i \in DOMAIN page : page[i] = next \/ Before(page[i], next)
    <3> SUFFICES ASSUME NEW i \in 1..d PROVE page[i] = next \/ Before(page[i], next)
      BY <2>3, Zenon
    <3>1. from + i \in 1..h /\ from + i <= to /\ page[i] = l[from + i]
      BY <1>8, <2>1, Zenon
    <3>2. from + i = to \/ from + i < to
      BY <1>6, <2>2, <3>1
    <3>3. next = l[to]
      BY <2>6, <2>10, Zenon
    <3> QED
      BY <1>1, <1>2, <2>2, <3>1, <3>2, <3>3, ZenonT(120) DEF Before
  <2>11. ASSUME NEW id \in Listed, c = Root \/ Before(c, id)
         PROVE  (\E i \in DOMAIN page : page[i] = id) \/ (next # Root /\ Before(next, id))
    <3>1. PICK k \in 1..h : l[k] = id /\ k > from
      BY <1>12, <2>11, Zenon
    <3>2. CASE k <= to
      BY <1>9, <2>1, <2>3, <3>1, <3>2, Zenon
    <3>3. CASE to < k
      <4>1. to # h
        BY <1>0, <3>1, <3>3
      <4>2. next = l[to] /\ next # Root
        <5>1. l[to] \in Known
          BY <2>2, <2>7, Zenon DEF Known
        <5>2. 0 \notin Known
          BY RootUnlisted, Zenon
        <5> QED
          BY <2>6, <4>1, <5>1, <5>2, Zenon DEF Root
      <4> QED
        BY <1>1, <1>2, <2>2, <3>1, <3>3, <4>2, ZenonT(120) DEF Before
    <3>4. k <= to \/ to < k
      BY <1>6
    <3> QED
      BY <3>2, <3>3, <3>4, Zenon
  <2>12. page[1] \in Listed
    BY <2>2, <2>3, <2>8, Zenon
  <2>13. next # Root => \E i \in DOMAIN page : page[i] = next
    BY <2>2, <2>3, <2>6, Zenon
  <2> QED
    BY <1>7, <2>3, <2>8, <2>9, <2>10, <2>11, <2>12, <2>13, ZenonT(120) DEF PageHolds
<1> QED
  BY <1>10, <1>11, Zenon

-----------------------------------------------------------------------------
(* The steps                                                               *)

\* An execution that does not move keeps its invariant.
LEMMA OtherStays ==
  ASSUME GapInv, ListingOK', Evolves, NEW j \in Jobs, exec'[j] = exec[j]
  PROVE  \A e \in Execs : e = exec'[j] /\ e.pc # "idle" => ExecOK(e)'
  BY ExecStays, Zenon DEF GapInv, ExecsOK

\* An execution keeps what its page owes while it keeps the page.
LEMMA SamePage ==
  ASSUME NEW e, NEW f, NEW id, f.cursor = e.cursor, f.page = e.page, f.next = e.next,
         PageOwes(e, id)'
  PROVE  PageOwes(f, id)'
<1>1. PageSet(f)' = PageSet(e)'
  BY Zenon DEF PageSet
<1> QED
  BY <1>1, Zenon DEF PageOwes, Reads, Root

\* What keeps the promises of a deep pass: a window that stays or is left, and
\* executions that keep their page, drop it or read a new one.
LEMMA OwedIs ==
  ASSUME GapInv, GapTypeOK', ListingOK', Evolves, owed' \subseteq owed,
         window'.open => window.open /\ window'.deep = window.deep,
         NEW c, window'.cursor = c,
         \/ c = Root
         \/ c = window.cursor
         \/ \A id \in (owed \cap Listed') \ old' : Cared(id)' \/ Before(c, id)',
         \A j \in Jobs : window'.open /\ exec'[j].pc # "idle" /\ exec'[j].token = window'.token =>
           /\ \/ window'.deep => exec'[j].deep
              \/ /\ exec[j].pc # "idle" /\ exec[j].token = window.token
                 /\ exec'[j].deep = exec[j].deep
           /\ exec'[j].pc \in {"compare", "advance"} =>
                \/ /\ exec[j].pc \in {"compare", "advance"} /\ exec[j].token = window.token
                   /\ exec'[j].cursor = exec[j].cursor /\ exec'[j].page = exec[j].page
                   /\ exec'[j].next = exec[j].next
                \/ \A e \in Execs, id \in Listed' : e = exec'[j] => PageOwes(e, id)'
  PROVE  OwedOK'
<1>1. owed' \subseteq Known'
  BY Zenon DEF GapInv, OwedOK, Evolves
<1>2. ASSUME NEW id \in (owed' \cap Listed') \ old'
      PROVE  id \in (owed \cap Listed) \ old /\ id \in Known
  BY Zenon DEF GapInv, OwedOK, Evolves
<1>3. ASSUME window'.open, c # Root, NEW id \in (owed' \cap Listed') \ old'
      PROVE  Cared(id)' \/ Before(c, id)'
  <2>1. CASE c = window.cursor
    <3>1. PICK d : d = window.cursor
      BY Zenon
    <3>2. Cared(id) \/ Before(d, id)
      BY <1>2, <1>3, <2>1, <3>1, Zenon DEF GapInv, OwedOK
    <3>3. Cared(id)' \/ Before(d, id)'
      BY <1>2, <1>3, <3>2, Zenon DEF Evolves
    <3> QED
      BY <2>1, <3>1, <3>3, Zenon
  <2> QED
    BY <1>3, <2>1, Zenon
<1>4. ASSUME window'.open, NEW j \in Jobs, NEW f \in Execs, NEW id \in (owed' \cap Listed') \ old',
             f = exec'[j], f.pc \in {"compare", "advance"}, f.token = window'.token
      PROVE  PageOwes(f, id)'
  <2>1. f.pc # "idle"
    BY Zenon, <1>4
  <2>2. CASE \A e \in Execs, x \in Listed' : e = exec'[j] => PageOwes(e, x)'
    BY <1>4, <2>2, Zenon
  <2>3. CASE /\ exec[j].pc \in {"compare", "advance"} /\ exec[j].token = window.token
             /\ exec'[j].cursor = exec[j].cursor /\ exec'[j].page = exec[j].page
             /\ exec'[j].next = exec[j].next
    <3>1. PICK e \in Execs : e = exec[j]
      BY Zenon DEF GapInv, GapTypeOK
    <3>2. e.pc # "idle"
      BY Zenon, <2>3, <3>1
    <3>3. PageOwes(e, id) /\ ExecOK(e)
      BY <1>2, <1>4, <2>3, <3>1, <3>2, Zenon DEF GapInv, OwedOK, ExecsOK
    <3>4. e.cursor \in Known \cup {0}
      BY <3>3, Zenon DEF ExecOK
    <3>5. PageOwes(e, id)'
      BY <1>2, <1>4, <3>3, <3>4, OwesStays, ZenonT(120)
    <3> QED
      BY <1>4, <2>3, <3>1, <3>5, SamePage, Zenon
  <2> QED
    BY <1>4, <2>1, <2>2, <2>3, Zenon
<1>5. ASSUME window'.open, window'.deep, owed' # {}, NEW j \in Jobs,
             exec'[j].pc # "idle", exec'[j].token = window'.token
      PROVE  exec'[j].deep
  BY <1>5, Zenon DEF GapInv, OwedOK
<1>6. window'.open /\ window'.cursor # Root =>
        \A id \in (owed' \cap Listed') \ old' : Cared(id)' \/ Before(window.cursor, id)'
  BY <1>3, ZenonT(120) DEF Before
<1> QED
  BY <1>1, <1>4, <1>5, <1>6, Zenon DEF OwedOK, Root

\* A step of GitHub alone preserves the invariant.
LEMMA QuietStep ==
  ASSUME GapInv, ListingOK', Evolves, old' \in SUBSET Nat,
         UNCHANGED <<window, exec, continuation, tokens, owed>>
  PROVE  GapInv'
<1>1. window' = window /\ exec' = exec /\ continuation' = continuation /\ tokens' = tokens
      /\ owed' = owed
  BY Zenon
<1>2. GapTypeOK'
  BY <1>1, Zenon DEF GapInv, GapTypeOK
<1>3. window'.cutoff \subseteq old'
  BY <1>1, Zenon DEF GapInv, WindowOK, Evolves
<1>4. WindowOK'
  BY <1>1, <1>3, WindowStays, Zenon DEF GapInv
<1>5. ExecsOK'
  BY <1>1, OtherStays, Zenon DEF ExecsOK
<1>6. OwedOK'
  BY <1>1, <1>2, OwedIs, Zenon
<1> QED
  BY <1>2, <1>4, <1>5, <1>6, Zenon DEF GapInv

\* Deliveries, redeliveries and the ageing of the list preserve it.
LEMMA GithubInv ==
  ASSUME GapInv
  PROVE  /\ \A id \in 1..MaxId, ahead \in 0..Len(listing), stored \in BOOLEAN :
              Deliver(id, ahead, stored) => GapInv'
         /\ \A id \in Listed : Redelivered(id) \/ Age(id) => GapInv'
         /\ Forget => GapInv'
<1>1. ListingOK /\ old \in SUBSET Nat
  BY Zenon DEF GapInv, GapTypeOK
<1>2. ASSUME NEW id \in 1..MaxId, NEW ahead \in 0..Len(listing), NEW stored \in BOOLEAN,
             Deliver(id, ahead, stored)
      PROVE  GapInv'
  <2>1. ListingOK' /\ Evolves
    BY <1>1, <1>2, DeliverMoves, Zenon
  <2>2. old' = old /\ UNCHANGED <<window, exec, continuation, tokens, owed>>
    BY <1>2, Zenon DEF Deliver
  <2> QED
    BY <1>1, <2>1, <2>2, QuietStep, Zenon
<1>3. ASSUME NEW id \in Listed, Redelivered(id) PROVE GapInv'
  <2>1. /\ lost' = lost \ {id} /\ asked' = asked \ {id} /\ listing' = listing /\ late' = late
        /\ old' = old /\ UNCHANGED <<window, exec, continuation, tokens, owed>>
    BY <1>3, Zenon DEF Redelivered
  <2>2. \A x : Cared(x) => Cared(x)'
    BY <2>1, Zenon DEF Cared
  <2>3. ListingOK' /\ Evolves
    BY <1>1, <2>1, <2>2, StandsStill, Zenon
  <2> QED
    BY <1>1, <2>1, <2>3, QuietStep, Zenon
<1>4. ASSUME NEW id \in Listed, Age(id) PROVE GapInv'
  <2>1. ListingOK' /\ Evolves
    BY <1>1, <1>4, AgeMoves, Zenon
  <2>2. old' = old \cup {id} /\ UNCHANGED <<window, exec, continuation, tokens, owed>>
    BY <1>4, Zenon DEF Age
  <2>3. old' \in SUBSET Nat
    <3>1. id \in Nat
      BY <1>1 DEF Listed, ListingOK
    <3> QED
      BY <1>1, <2>2, <3>1, Zenon
  <2> QED
    BY <2>1, <2>2, <2>3, QuietStep, Zenon
<1>5. ASSUME Forget PROVE GapInv'
  <2>1. ListingOK' /\ Evolves
    BY <1>1, <1>5, ForgetMoves, Zenon
  <2>2. old' = old /\ UNCHANGED <<window, exec, continuation, tokens, owed>>
    BY <1>5, Zenon DEF Forget
  <2> QED
    BY <1>1, <2>1, <2>2, QuietStep, Zenon
<1> QED
  BY <1>2, <1>3, <1>4, <1>5, Zenon

\* A job step that asks for nothing less than before.
LEMMA JobMoves ==
  ASSUME GapInv, UNCHANGED githubVars, asked \subseteq asked'
  PROVE  /\ ListingOK' /\ Evolves /\ old' = old /\ Listed' = Listed /\ Known' = Known
         /\ Punctual' = Punctual
         /\ \A x, y : Before(x, y)' <=> Before(x, y)
<1>1. listing' = listing /\ late' = late /\ old' = old /\ lost' = lost
  BY Zenon DEF githubVars
<1>2. \A x : Cared(x) => Cared(x)'
  BY <1>1, Zenon DEF Cared
<1>3. ListingOK' /\ Evolves
  BY <1>1, <1>2, StandsStill, ZenonT(120) DEF GapInv
<1> QED
  BY <1>1, <1>3, Zenon DEF Listed, Known, Punctual, Before

\* The idle execution is an execution.
LEMMA IdleIs == IdleExec \in Execs /\ IdleExec.pc = "idle"
  BY SMTT(60) DEF IdleExec, Execs, Root, NoToken

\* A job ends, and the window stays with its pass.
LEMMA JobEnds ==
  ASSUME GapInv, UNCHANGED githubVars, asked \subseteq asked', NEW j \in Jobs,
         exec' = [exec EXCEPT ![j] = IdleExec],
         UNCHANGED <<continuation, tokens, owed, window>>
  PROVE  GapInv'
<1>1. /\ ListingOK' /\ Evolves /\ old' = old
      /\ window' = window /\ continuation' = continuation /\ tokens' = tokens /\ owed' = owed
  BY JobMoves, Zenon
<1>2. IdleExec \in Execs /\ IdleExec.pc = "idle"
  BY IdleIs, Zenon
<1>3. exec' \in [Jobs -> Execs] /\ exec'[j] = IdleExec /\ \A k \in Jobs \ {j} : exec'[k] = exec[k]
  BY <1>2, Zenon DEF GapInv, GapTypeOK
<1>4. GapTypeOK'
  BY <1>1, <1>3, Zenon DEF GapInv, GapTypeOK
<1>5. window'.cutoff \subseteq old'
  BY <1>1, Zenon DEF GapInv, WindowOK
<1>6. WindowOK'
  BY <1>1, <1>5, WindowStays, Zenon DEF GapInv
<1>7. ExecsOK'
  <2>1. ASSUME NEW k \in Jobs, NEW e \in Execs, e = exec'[k], e.pc # "idle" PROVE ExecOK(e)'
    <3>1. exec'[k] = exec[k]
      BY <1>2, <1>3, <2>1, Zenon
    <3> QED
      BY <1>1, <2>1, <3>1, OtherStays, Zenon
  <2> QED
    BY <2>1, Zenon DEF ExecsOK
<1>8. \A k \in Jobs : exec'[k].pc # "idle" => exec'[k] = exec[k]
  BY <1>2, <1>3, Zenon
<1>9. OwedOK'
  BY <1>1, <1>4, <1>8, OwedIs, Zenon
<1> QED
  BY <1>1, <1>4, <1>6, <1>7, <1>9, Zenon DEF GapInv

\* An expired or renewed lease preserves the invariant.
LEMMA LeaseStep ==
  ASSUME GapInv, UNCHANGED <<githubVars, asked, exec, continuation, tokens, owed>>,
         NEW live \in BOOLEAN, window' = [window EXCEPT !.live = live]
  PROVE  GapInv'
<1>1. /\ UNCHANGED githubVars /\ asked \subseteq asked' /\ exec' = exec
      /\ continuation' = continuation /\ tokens' = tokens /\ owed' = owed
  BY Zenon
<1>2. ListingOK' /\ Evolves /\ old' = old
  BY <1>1, JobMoves, Zenon
<1>3. PICK w \in Windows : w = window
  BY Zenon DEF GapInv, GapTypeOK
<1>4. /\ window' \in Windows /\ window'.open = w.open /\ window'.cursor = w.cursor
      /\ window'.deep = w.deep /\ window'.boundary = w.boundary /\ window'.top = w.top
      /\ window'.token = w.token /\ window'.cutoff = w.cutoff
  BY <1>3 DEF Windows
<1>5. GapTypeOK'
  BY <1>1, <1>2, <1>4, Zenon DEF GapInv, GapTypeOK
<1>6. window'.cutoff \subseteq old'
  BY <1>2, <1>3, <1>4, Zenon DEF GapInv, WindowOK
<1>7. WindowOK'
  BY <1>2, <1>3, <1>4, <1>6, WindowStays, Zenon DEF GapInv
<1>8. ExecsOK'
  BY <1>1, <1>2, OtherStays, Zenon DEF ExecsOK
<1>9. OwedOK'
  BY <1>1, <1>2, <1>3, <1>4, <1>5, OwedIs, Zenon
<1> QED
  BY <1>2, <1>5, <1>7, <1>8, <1>9, Zenon DEF GapInv

\* What an execution holds that has loaded the window.
IsLoaded(g, j, w) ==
    /\ g \in [Jobs -> Execs]
    /\ \A k \in Jobs \ {j} : g[k] = exec[k]
    /\ g[j].pc = "list" /\ g[j].token = w.token /\ g[j].cursor = w.cursor /\ g[j].deep = w.deep
    /\ g[j].boundary = w.boundary /\ g[j].top = w.top /\ g[j].cutoff = w.cutoff

\* What an execution takes over from the row.
LEMMA LoadedExec ==
  ASSUME exec \in [Jobs -> Execs], NEW j \in Jobs, NEW w \in Windows, NEW n \in Nat
  PROVE  \A g : g = Load(j, w, n) => IsLoaded(g, j, w)
<1>0. PICK idle \in Execs : idle = IdleExec
  BY IdleIs, Zenon
<1>1. PICK f : f = [idle EXCEPT !.pc = "list", !.token = w.token, !.cursor = w.cursor,
                        !.deep = w.deep, !.boundary = w.boundary, !.top = w.top,
                        !.cutoff = w.cutoff, !.pages = n, !.loaded = w.cursor]
  OBVIOUS
<1>2. /\ f \in Execs /\ f.pc = "list" /\ f.token = w.token /\ f.cursor = w.cursor
      /\ f.deep = w.deep /\ f.boundary = w.boundary /\ f.top = w.top /\ f.cutoff = w.cutoff
  BY ZenonT(120), <1>1 DEF Execs, Windows
<1>3. Load(j, w, n) = [exec EXCEPT ![j] = f]
  BY <1>0, <1>1 DEF Load
<1> TAKE g
<1> HAVE g = Load(j, w, n)
<1>4. g \in [Jobs -> Execs] /\ g[j] = f /\ \A k \in Jobs \ {j} : g[k] = exec[k]
  BY <1>2, <1>3, Zenon
<1> QED
  BY <1>2, <1>4, Zenon DEF IsLoaded

\* The loaded execution is sound because the window is.
LEMMA LoadedIsSound ==
  ASSUME WindowOK', NEW e \in Execs, e.pc = "list",
         e.cursor = window'.cursor, e.boundary = window'.boundary,
         e.top = window'.top, e.cutoff = window'.cutoff
  PROVE  ExecOK(e)'
<1>1. PICK b, c, t, u : /\ b = window'.boundary /\ c = window'.cursor /\ t = window'.top
                        /\ u = window'.cutoff
  BY Zenon
<1>2. /\ b \in Known' \cup {0} /\ c \in Known' \cup {0} /\ t \in Known' \cup {0}
      /\ b # 0 => Covered(b)'
      /\ c = Root <=> t = 0
      /\ u \subseteq old'
  BY <1>1, Zenon DEF WindowOK, Covered, Root
<1>3. e.pc # "compare" /\ e.pc # "advance"
  OBVIOUS
<1> QED
  BY <1>1, <1>2, <1>3, Zenon DEF ExecOK, Root

\* An execution loads the window it has just written.
LEMMA LoadKeeps ==
  ASSUME GapInv, ListingOK', Evolves, WindowOK', window' \in Windows, NEW j \in Jobs, NEW n \in Nat,
         NEW f, f \in [Jobs -> Execs], exec' = f, \A k \in Jobs \ {j} : f[k] = exec[k],
         f[j].pc = "list", f[j].cursor = window'.cursor,
         f[j].boundary = window'.boundary, f[j].top = window'.top,
         f[j].cutoff = window'.cutoff
  PROVE  ExecsOK'
<1>1. ASSUME NEW k \in Jobs, NEW e \in Execs, e = exec'[k], e.pc # "idle" PROVE ExecOK(e)'
  <2>1. CASE k = j
    <3>1. e = f[j]
      BY <1>1, <2>1, Zenon
    <3> QED
      BY <3>1, LoadedIsSound, Zenon
  <2>2. CASE k # j
    <3>1. exec'[k] = exec[k]
      BY <2>2, Zenon
    <3> QED
      BY <1>1, <3>1, OtherStays, Zenon
  <2> QED
    BY <2>1, <2>2, Zenon
<1> QED
  BY <1>1, Zenon DEF ExecsOK

\* Starting, restarting, claiming or taking back a window preserves the
\* invariant, whatever other executions still run.
LEMMA LoadOrStartInv ==
  ASSUME GapInv, NEW j \in Jobs, NEW token \in Nat, NEW cursor, NEW mode \in Modes,
         LoadOrStart(j, token, cursor, mode), UNCHANGED <<githubVars, asked>>,
         continuation' \subseteq continuation, tokens' \in Nat
  PROVE  GapInv'
<1>1. /\ ListingOK' /\ Evolves /\ old' = old /\ Listed' = Listed /\ Known' = Known
      /\ \A x, y : Before(x, y)' <=> Before(x, y)
  BY JobMoves, Zenon
<1>2. PICK w \in Windows : w = window
  BY Zenon DEF GapInv, GapTypeOK
<1>3. PICK starts \in BOOLEAN : starts = (~window.open \/ mode # "incremental")
  BY Zenon
<1>4. /\ window' = IF starts THEN StartGapHealCursor(token, mode) ELSE ClaimGapHealCursor(token)
      /\ exec' = Load(j, window', 0)
      /\ owed' = IF SharesToken(j, token) /\ (starts \/ window.token # token) THEN {}
                 ELSE IF starts THEN Listed ELSE owed
  BY <1>3, Zenon DEF LoadOrStart
<1>5. starts => /\ window' \in Windows /\ window'.cursor = Root /\ window'.top = 0
                /\ window'.boundary \in {window.boundary, 0} /\ window'.cutoff \subseteq old
                /\ window'.token = token
  <2>1. old \in SUBSET Nat
    BY Zenon DEF GapInv, GapTypeOK
  <2> QED
    BY Zenon, <1>2, <1>4, <2>1 DEF StartGapHealCursor, Windows, Root
<1>6. ~starts => /\ window' \in Windows /\ window'.cursor = w.cursor /\ window'.top = w.top
                 /\ window'.boundary = w.boundary /\ window'.cutoff = w.cutoff
                 /\ window'.token = token /\ window'.deep = w.deep
  BY Zenon, <1>2, <1>4 DEF ClaimGapHealCursor, Windows
<1>7. window' \in Windows /\ window'.token = token
  BY <1>5, <1>6, Zenon
<1>8. WindowOK'
  <2>1. CASE starts
    <3>1. PICK b : b = window'.boundary
      BY Zenon
    <3>2. b \in Known \cup {0} /\ (b # 0 => Covered(b))
      BY <1>5, <2>1, <3>1, Zenon DEF GapInv, WindowOK
    <3>3. b \in Known' \cup {0} /\ (b # 0 => Covered(b)')
      BY <1>1, <3>2, CoveredStays, Zenon DEF GapInv
    <3> QED
      BY <1>1, <1>5, <2>1, <3>1, <3>3, WindowIs, ZenonT(120) DEF Root
  <2>2. CASE ~starts
    <3>1. window'.cutoff \subseteq old'
      BY <1>1, <1>2, <1>6, <2>2, Zenon DEF GapInv, WindowOK
    <3> QED
      BY <1>1, <1>2, <1>6, <2>2, <3>1, WindowStays, Zenon DEF GapInv
  <2> QED
    BY <2>1, <2>2, Zenon
<1>9. PICK f, v : f = exec' /\ v = window' /\ v \in Windows
  BY <1>7, Zenon
<1>10. /\ f \in [Jobs -> Execs] /\ (\A k \in Jobs \ {j} : f[k] = exec[k])
       /\ f[j].pc = "list" /\ f[j].token = v.token /\ f[j].cursor = v.cursor /\ f[j].deep = v.deep
       /\ f[j].boundary = v.boundary /\ f[j].top = v.top /\ f[j].cutoff = v.cutoff
  <2>1. exec \in [Jobs -> Execs] /\ 0 \in Nat
    BY DEF GapInv, GapTypeOK
  <2>2. f = Load(j, v, 0)
    BY <1>4, <1>9, Zenon DEF Load
  <2> QED
    <3>1. IsLoaded(f, j, v)
      BY <1>9, <2>1, <2>2, LoadedExec, Zenon
    <3> QED
      BY <3>1, Zenon DEF IsLoaded
<1>11. GapTypeOK'
  BY <1>1, <1>7, <1>9, <1>10, Zenon DEF GapInv, GapTypeOK
<1>12. ExecsOK'
  <2>1. 0 \in Nat
    OBVIOUS
  <2> QED
    BY <1>1, <1>7, <1>8, <1>9, <1>10, <2>1, LoadKeeps, Zenon
<1>13. OwedOK'
  <2>1. CASE owed' = {}
    BY <2>1, Zenon DEF OwedOK
  <2>2. ASSUME ~SharesToken(j, token), NEW k \in Jobs, exec'[k].token = window'.token, k # j
        PROVE  FALSE
    BY <1>7, <1>9, <1>10, <2>2, ZenonT(120) DEF SharesToken
  <2>3. exec'[j].pc # "compare" /\ exec'[j].pc # "advance" /\ exec'[j].deep = window'.deep
    BY <1>9, <1>10
  <2>4. CASE starts /\ ~SharesToken(j, token)
    <3>1. owed' = Listed /\ window'.cursor = Root
      BY <1>4, <1>5, <2>4, Zenon
    <3>2. owed' \subseteq Known'
      BY <1>1, <3>1, Zenon DEF Known
    <3>3. ASSUME NEW k \in Jobs, exec'[k].token = window'.token PROVE k = j
      BY <2>2, <2>4, <3>3, Zenon
    <3>4. \A k \in Jobs : exec'[k].pc # "idle" /\ exec'[k].token = window'.token /\ window'.deep
            => exec'[k].deep
      BY <2>3, <3>3, Zenon
    <3>5. \A k \in Jobs, e \in Execs, id \in (owed' \cap Listed') \ old' :
            e = exec'[k] /\ e.pc \in {"compare", "advance"} /\ e.token = window'.token
              => PageOwes(e, id)'
      BY <2>3, <3>3, Zenon
    <3> QED
      BY <3>1, <3>2, <3>4, <3>5, ZenonT(120) DEF OwedOK, Root
  <2>5. CASE ~starts /\ (~SharesToken(j, token) \/ window.token = token)
    <3>1. /\ owed' = owed /\ window'.cursor = window.cursor /\ window'.deep = window.deep
          /\ window.open
      BY <1>2, <1>3, <1>4, <1>6, <2>5, Zenon
    <3>2. PICK c : c = window'.cursor
      BY Zenon
    <3>3. \A k \in Jobs \ {j} : exec'[k].token = window'.token =>
            exec'[k] = exec[k] /\ exec[k].token = window.token
      BY <1>7, <1>9, <1>10, <2>2, <2>5, Zenon
    <3>4. OwedOK
      BY Zenon DEF GapInv
    <3>5. PICK g, v2 : g = exec' /\ v2 = window'
      BY Zenon
    <3>6. owed' \subseteq Known'
      BY <1>1, <3>1, <3>4, Zenon DEF OwedOK
    <3>7. window'.open /\ window'.cursor # Root => \A id \in (owed' \cap Listed') \ old' :
            Cared(id)' \/ Before(window.cursor, id)'
      <4>1. PICK d : d = window.cursor
        BY Zenon
      <4>2. ASSUME d # Root, NEW id \in (owed \cap Listed) \ old PROVE Cared(id)' \/ Before(d, id)'
        <5>1. Cared(id) \/ Before(d, id)
          BY <3>1, <3>4, <4>1, <4>2, ZenonT(120) DEF OwedOK
        <5>2. id \in Known
          BY Zenon DEF Known
        <5> QED
          BY <1>1, <5>1, <5>2, Zenon DEF Evolves
      <4>3. window'.cursor = d
        BY <3>1, <4>1, Zenon
      <4>4. ASSUME NEW id \in (owed' \cap Listed') \ old', d # Root
            PROVE  Cared(id)' \/ Before(window.cursor, id)'
        <5>1. Cared(id)' \/ Before(d, id)'
          BY <1>1, <3>1, <4>2, <4>4, Zenon
        <5>2. Before(d, id)' => Before(window.cursor, id)'
          BY <4>3, Zenon DEF Before
        <5> QED
          BY <5>1, <5>2, Zenon
      <4> QED
        BY <4>3, <4>4, Zenon
    <3>8. \A k \in Jobs, e \in Execs, id \in (owed' \cap Listed') \ old' :
            e = exec'[k] /\ e.pc \in {"compare", "advance"} /\ e.token = window'.token
              => PageOwes(e, id)'
      <4> SUFFICES ASSUME NEW k \in Jobs, NEW e \in Execs, NEW id \in (owed' \cap Listed') \ old',
                          e = exec'[k], e.pc \in {"compare", "advance"}, e.token = window'.token
                   PROVE  PageOwes(e, id)'
        BY Zenon
      <4>1. k # j
        BY <2>3, Zenon
      <4>2. e = exec[k] /\ e.token = window.token /\ e.pc # "idle"
        BY Zenon, <3>3, <4>1
      <4>3. id \in (owed \cap Listed) \ old /\ id \in Listed' \cap Known
        BY <1>1, <3>1, Zenon DEF Known
      <4>4. PageOwes(e, id) /\ ExecOK(e)
        BY <3>1, <3>4, <4>2, <4>3, ZenonT(120) DEF OwedOK, GapInv, ExecsOK
      <4>5. e.cursor \in Known \cup {0}
        BY <4>4, Zenon DEF ExecOK
      <4> QED
        BY <1>1, <4>3, <4>4, <4>5, OwesStays, Zenon
    <3>9. window'.deep /\ owed' # {} => \A k \in Jobs :
            exec'[k].pc # "idle" /\ exec'[k].token = window'.token => exec'[k].deep
      BY <2>3, <3>1, <3>3, <3>4, ZenonT(120) DEF OwedOK
    <3> QED
      BY <3>6, <3>7, <3>8, <3>9, Zenon DEF OwedOK, Root
  <2> QED
    BY <1>4, <2>1, <2>4, <2>5, Zenon
<1> QED
  BY <1>1, <1>8, <1>11, <1>12, <1>13, ZenonT(120) DEF GapInv

\* A rejected cursor preserves the invariant.
LEMMA RestartInv ==
  ASSUME GapInv, NEW j \in Jobs, RestartWindow(j)
  PROVE  GapInv'
<1>1. /\ UNCHANGED githubVars /\ asked' = asked /\ continuation' = continuation
      /\ tokens' = tokens /\ owed' = owed /\ exec[j].pc # "idle"
  BY DEF RestartWindow
<1>2. /\ ListingOK' /\ Evolves /\ old' = old /\ Listed' = Listed /\ Known' = Known
  BY <1>1, JobMoves, Zenon
<1>3. CASE ~(~exec[j].restarted /\ OwnsWindow(j, exec[j].loaded))
  <2>1. window' = window /\ exec' = [exec EXCEPT ![j] = IdleExec]
    BY <1>3, Zenon DEF RestartWindow
  <2> QED
    BY <1>1, <2>1, JobEnds, Zenon
<1>4. CASE ~exec[j].restarted /\ OwnsWindow(j, exec[j].loaded)
  <2>1. PICK v, f : v = window' /\ f = exec'
    BY Zenon
  <2>2. v = RestartGapHealCursor /\ f = [Load(j, v, exec[j].pages) EXCEPT ![j].restarted = TRUE]
    BY <1>4, <2>1, Zenon DEF RestartWindow, Load
  <2>3. PICK w \in Windows : w = window
    BY Zenon DEF GapInv, GapTypeOK
  <2>4. /\ v \in Windows /\ v.cursor = Root /\ v.top = 0 /\ v.boundary = w.boundary
        /\ v.cutoff = w.cutoff /\ v.token = w.token /\ v.deep = w.deep /\ v.open = w.open
    BY Zenon, <2>2, <2>3 DEF RestartGapHealCursor, Windows, Root
  <2>5. IsLoaded(f, j, v)
    <3>1. exec \in [Jobs -> Execs]
      BY Zenon DEF GapInv, GapTypeOK
    <3>2. exec[j].pages \in Nat
      BY <3>1 DEF Execs
    <3>3. PICK g : g = Load(j, v, exec[j].pages)
      BY Zenon
    <3>4. IsLoaded(g, j, v)
      BY <2>4, <3>1, <3>2, <3>3, LoadedExec, Zenon
    <3>5. PICK h \in Execs : h = g[j]
      BY <3>4, Zenon DEF IsLoaded
    <3>6. PICK i : i = [h EXCEPT !.restarted = TRUE]
      BY Zenon
    <3>7. /\ i \in Execs /\ i.pc = h.pc /\ i.token = h.token /\ i.cursor = h.cursor
          /\ i.deep = h.deep /\ i.boundary = h.boundary /\ i.top = h.top /\ i.cutoff = h.cutoff
      BY Zenon, <3>6 DEF Execs
    <3>8. g \in [Jobs -> Execs]
      BY <3>4, Zenon DEF IsLoaded
    <3>9. f = [g EXCEPT ![j] = i]
      BY <2>2, <3>3, <3>5, <3>6
    <3>10. f \in [Jobs -> Execs] /\ f[j] = i /\ \A k \in Jobs \ {j} : f[k] = g[k]
      BY <3>7, <3>8, <3>9, Zenon
    <3> QED
      BY <3>4, <3>5, <3>7, <3>10, Zenon DEF IsLoaded
  <2>6. /\ f \in [Jobs -> Execs] /\ (\A k \in Jobs \ {j} : f[k] = exec[k])
        /\ f[j].pc = "list" /\ f[j].token = v.token /\ f[j].cursor = v.cursor /\ f[j].deep = v.deep
        /\ f[j].boundary = v.boundary /\ f[j].top = v.top /\ f[j].cutoff = v.cutoff
    BY <2>5, Zenon DEF IsLoaded
  <2>7. GapTypeOK'
    BY <1>1, <1>2, <2>1, <2>4, <2>6, ZenonT(120) DEF GapInv, GapTypeOK
  <2>8. WindowOK'
    <3>1. PICK b : b = w.boundary
      BY Zenon
    <3>2. b \in Known \cup {0} /\ (b # 0 => Covered(b)) /\ w.cutoff \subseteq old
      BY <2>3, <3>1, Zenon DEF GapInv, WindowOK
    <3>3. b \in Known' \cup {0} /\ (b # 0 => Covered(b)')
      BY <1>2, <3>2, CoveredStays, Zenon DEF GapInv
    <3>4. /\ window'.boundary = b /\ window'.cursor = Root /\ window'.top = 0
          /\ window'.cutoff \subseteq old'
      BY <1>2, <2>1, <2>4, <3>1, <3>2, ZenonT(120)
    <3> QED
      BY <3>3, <3>4, WindowIs, Zenon DEF Root
  <2>9. ExecsOK'
    <3>1. 0 \in Nat
      OBVIOUS
    <3> QED
      BY <1>2, <2>1, <2>4, <2>6, <2>8, <3>1, LoadKeeps, ZenonT(120)
  <2>10. OwedOK'
    <3>1. window.open /\ exec[j].token = window.token
      BY <1>4, Zenon DEF OwnsWindow
    <3>2. exec'[j].pc \notin {"compare", "advance"} /\ exec'[j].deep = window'.deep
      BY <2>1, <2>6
    <3>3. /\ window'.cursor = Root /\ window'.token = window.token /\ window'.deep = window.deep
      BY <2>1, <2>3, <2>4, Zenon
    <3>4. \A k \in Jobs \ {j} : exec'[k] = exec[k]
      BY <2>1, <2>6, Zenon
    <3> QED
      BY <1>1, <1>2, <2>7, <3>1, <3>2, <3>3, <3>4, OwedIs, ZenonT(120)
  <2> QED
    BY <1>2, <2>7, <2>8, <2>9, <2>10, Zenon DEF GapInv
<1> QED
  BY <1>3, <1>4, Zenon

\* A job goes on with the same window.
LEMMA JobGoesOn ==
  ASSUME GapInv, UNCHANGED <<githubVars, window, continuation, tokens, owed>>, asked \subseteq asked',
         NEW j \in Jobs, NEW e \in Execs, NEW f \in Execs, e = exec[j], e.pc # "idle",
         exec' = [exec EXCEPT ![j] = f],
         ExecOK(f)', f.token = e.token, f.deep = e.deep,
         f.pc \in {"compare", "advance"} =>
           \/ /\ e.pc \in {"compare", "advance"} /\ f.cursor = e.cursor /\ f.page = e.page
              /\ f.next = e.next
           \/ \A id \in Listed' : PageOwes(f, id)'
  PROVE  GapInv'
<1>1. /\ UNCHANGED githubVars /\ window' = window /\ continuation' = continuation
      /\ tokens' = tokens /\ owed' = owed
  BY Zenon
<1>2. ListingOK' /\ Evolves /\ old' = old
  BY <1>1, JobMoves, Zenon
<1>3. exec' \in [Jobs -> Execs] /\ exec'[j] = f /\ \A k \in Jobs \ {j} : exec'[k] = exec[k]
  BY Zenon DEF GapInv, GapTypeOK
<1>4. GapTypeOK'
  BY <1>1, <1>2, <1>3, Zenon DEF GapInv, GapTypeOK
<1>5. window'.cutoff \subseteq old'
  BY <1>1, <1>2, Zenon DEF GapInv, WindowOK
<1>6. WindowOK'
  BY <1>1, <1>2, <1>5, WindowStays, Zenon DEF GapInv
<1>7. ASSUME NEW k \in Jobs, NEW g \in Execs, g = exec'[k], g.pc # "idle" PROVE ExecOK(g)'
  BY <1>2, <1>3, <1>7, OtherStays, Zenon
<1>8. ExecsOK'
  BY <1>7, Zenon DEF ExecsOK
<1>9. \A k \in Jobs : window'.open /\ exec'[k].pc # "idle" /\ exec'[k].token = window'.token =>
        /\ exec[k].pc # "idle" /\ exec[k].token = window.token /\ exec'[k].deep = exec[k].deep
        /\ exec'[k].pc \in {"compare", "advance"} =>
             \/ /\ exec[k].pc \in {"compare", "advance"} /\ exec[k].token = window.token
                /\ exec'[k].cursor = exec[k].cursor /\ exec'[k].page = exec[k].page
                /\ exec'[k].next = exec[k].next
             \/ \A g \in Execs, id \in Listed' : g = exec'[k] => PageOwes(g, id)'
  BY <1>1, <1>3, ZenonT(120)
<1>10. OwedOK'
  BY <1>1, <1>2, <1>4, <1>9, OwedIs, Zenon
<1> QED
  BY <1>2, <1>4, <1>6, <1>8, <1>10, ZenonT(120) DEF GapInv

\* So does asking for what a page misses.
LEMMA RedeliverInv ==
  ASSUME GapInv, NEW j \in Jobs, RedeliverMissing(j)
  PROVE  GapInv'
<1>1. PICK e \in Execs : e = exec[j]
  BY Zenon DEF GapInv, GapTypeOK
<1>2. PICK f : f = [e EXCEPT !.pc = "advance"]
  BY Zenon
<1>3. /\ e.pc = "compare" /\ e.pc # "idle" /\ exec' = [exec EXCEPT ![j] = f]
      /\ asked' = asked \cup MissingOf(j)
      /\ UNCHANGED <<githubVars, window, continuation, tokens, owed>>
  BY <1>1, <1>2 DEF RedeliverMissing
<1>4. /\ f \in Execs /\ f.pc = "advance" /\ f.token = e.token /\ f.cursor = e.cursor
      /\ f.deep = e.deep /\ f.boundary = e.boundary /\ f.top = e.top /\ f.cutoff = e.cutoff
      /\ f.page = e.page /\ f.next = e.next
  BY <1>2 DEF Execs
<1>5. ListingOK' /\ Evolves /\ old' = old /\ lost' = lost
  BY <1>3, JobMoves, Zenon DEF githubVars
<1>6. ExecOK(e)
  BY <1>1, <1>3, Zenon DEF GapInv, ExecsOK
<1>7. ExecOK(e)'
  BY <1>5, <1>6, ExecStays, Zenon DEF GapInv
<1>8. PageSet(f)' = PageSet(e) /\ PageSet(e)' = PageSet(e) /\ PageSet(f) = PageSet(e)
  BY <1>4, Zenon DEF PageSet
<1>9. \A id \in PageSet(e) \ old : Cared(id)'
  <2>1. e.cutoff \subseteq old
    BY <1>6, Zenon DEF ExecOK
  <2>2. Candidates(j) = PageSet(e) \ e.cutoff
    BY <1>1, Zenon DEF Candidates, PageSet
  <2> QED
    BY <1>3, <1>5, <2>1, <2>2, Zenon DEF Cared, MissingOf, ListExistingWebhookDeliveryGUIDs
<1>10. PageOK(e)'
  BY <1>3, <1>7, Zenon DEF ExecOK
<1>11. PageOK(f)'
  BY <1>4, <1>8, <1>10, Zenon DEF PageOK, Reads, Root
<1>12. ExecOK(f)'
  <2>1. f.pc # "list"
    BY <1>4
  <2> QED
    BY <1>4, <1>5, <1>7, <1>8, <1>9, <1>11, <2>1, ZenonT(120) DEF ExecOK, Root
<1> QED
  BY <1>1, <1>3, <1>4, <1>12, JobGoesOn, Zenon

\* What the execution holds that has listed a page.
HasListed(f, e, page, next, top) ==
    /\ f \in Execs /\ f.pc = "compare" /\ f.token = e.token /\ f.cursor = e.cursor
    /\ f.deep = e.deep /\ f.boundary = e.boundary /\ f.top = top /\ f.cutoff = e.cutoff
    /\ f.page = page /\ f.next = next

\* The execution after it has read a page.
LEMMA ListedExec ==
  ASSUME NEW e \in Execs, NEW page \in Seq(Nat), NEW next \in Nat, NEW n \in Nat, NEW top \in Nat, NEW f,
         f = [e EXCEPT !.pc = "compare", !.page = page, !.next = next, !.pages = n, !.top = top]
  PROVE  HasListed(f, e, page, next, top)
  BY Zenon DEF Execs, HasListed

\* Reading a page preserves the invariant.
LEMMA ListInv ==
  ASSUME GapInv, NEW j \in Jobs, ListDeliveries(j)
  PROVE  GapInv'
<1>1. PICK e \in Execs : e = exec[j]
  BY Zenon DEF GapInv, GapTypeOK
<1>2. PICK page : page = PageAfter(e.cursor)
  BY Zenon
<1>3. PICK next : next = NextCursor(page)
  BY Zenon
<1>4. PICK top : top = IF e.cursor = Root /\ e.top = 0 /\ page # <<>> THEN page[1] ELSE e.top
  BY Zenon
<1>5. PICK f : f = [e EXCEPT !.pc = "compare", !.page = page, !.next = next, !.pages = @ + 1,
                             !.top = top]
  OBVIOUS
<1>6. /\ e.pc = "list" /\ e.pc # "idle" /\ e.cursor \in {Root} \cup Listed
      /\ exec' = [exec EXCEPT ![j] = f] /\ asked' = asked
      /\ UNCHANGED <<githubVars, window, continuation, tokens, owed>>
  BY Zenon, <1>1, <1>2, <1>3, <1>4, <1>5 DEF ListDeliveries
<1>7. PageHolds(e.cursor, page, next)
  BY <1>2, <1>3, <1>6, PageIsRead, Zenon DEF GapInv
<1>8. ExecOK(e)
  BY <1>1, <1>6, Zenon DEF GapInv, ExecsOK
<1>9. 0 \notin Known /\ Listed \subseteq Known
  BY RootUnlisted, Zenon DEF GapInv, Known
<1>10. /\ e.cursor \in Known \cup {0} /\ e.boundary \in Known \cup {0} /\ e.top \in Known \cup {0}
       /\ e.boundary # 0 => Covered(e.boundary)
       /\ e.cursor = Root <=> e.top = 0
       /\ e.cutoff \subseteq old
  BY <1>6, <1>8, Zenon DEF ExecOK
<1>11. /\ top \in Known \cup {0} /\ (e.cursor # Root => top # 0)
       /\ top = 0 => next = Root
  <2>1. CASE e.cursor = Root /\ page # <<>>
    <3>1. top = page[1] /\ page[1] \in Listed
      BY <1>4, <1>7, <1>10, <2>1, Zenon DEF PageHolds
    <3> QED
      BY <1>9, <2>1, <3>1, Zenon
  <2>2. CASE ~(e.cursor = Root /\ page # <<>>)
    <3>1. top = e.top
      BY <1>4, <2>2, Zenon
    <3> QED
      BY <1>7, <1>10, <2>2, <3>1, Zenon DEF PageHolds
  <2> QED
    BY <2>1, <2>2, Zenon
<1>12. page \in Seq(Nat) /\ next \in Nat /\ top \in Nat
  <2>1. PICK n \in Nat : Known = 1..n
    BY Zenon DEF GapInv, ListingOK
  <2>2. top \in Nat
    BY <1>11, <2>1
  <2> QED
    BY <1>7, <2>2, Zenon DEF PageHolds
<1>13. /\ f \in Execs /\ f.pc = "compare" /\ f.token = e.token /\ f.cursor = e.cursor
       /\ f.deep = e.deep /\ f.boundary = e.boundary /\ f.top = top /\ f.cutoff = e.cutoff
       /\ f.page = page /\ f.next = next
  <2>1. e.pages + 1 \in Nat
    BY DEF Execs
  <2>2. PICK n \in Nat : n = e.pages + 1
    BY <2>1, Zenon
  <2>3. f = [e EXCEPT !.pc = "compare", !.page = page, !.next = next, !.pages = n, !.top = top]
    BY <1>5, <2>2
  <2> QED
    <3>1. HasListed(f, e, page, next, top)
      BY <1>12, <2>3, ListedExec, Zenon
    <3> QED
      BY <3>1, Zenon DEF HasListed
<1>14. /\ ListingOK' /\ Evolves /\ old' = old /\ Listed' = Listed /\ Known' = Known
       /\ Punctual' = Punctual
       /\ \A x, y : Before(x, y)' <=> Before(x, y)
  BY <1>6, JobMoves, Zenon
<1>15. PageSet(f)' = {page[i] : i \in DOMAIN page}
  BY <1>13, Zenon DEF PageSet
<1>16. ASSUME NEW id \in Listed, e.cursor = Root \/ Before(e.cursor, id) PROVE Reads(f, id)'
  BY <1>7, <1>13, <1>14, <1>15, <1>16, Zenon DEF Reads, PageHolds, Root
<1>17. PageOK(f)'
  <2>1. PageSet(f)' \subseteq Known' /\ f.next \in PageSet(f)' \cup {Root}
    BY <1>7, <1>9, <1>13, <1>14, <1>15, ZenonT(120) DEF PageHolds
  <2>2. \A id \in PageSet(f)' : f.next \in Listed' => id = f.next \/ Before(id, f.next)'
    <3>1. Root \notin Listed
      BY <1>9, Zenon DEF Root
    <3> QED
      <4>1. ASSUME NEW i \in DOMAIN page, next \in Listed PROVE page[i] = next \/ Before(page[i], next)'
        BY <1>7, <1>14, <3>1, <4>1, Zenon DEF PageHolds
      <4> QED
        BY <1>13, <1>14, <1>15, <4>1, Zenon
  <2>3. \A id \in Punctual' :
          (IF f.cursor = Root THEN f.top # 0 /\ Behind(id, f.top)' ELSE Before(f.cursor, id)')
            => Reads(f, id)'
    <3>1. Punctual' \subseteq Listed
      BY <1>14, Zenon DEF Punctual
    <3> QED
      BY <1>13, <1>14, <1>16, <3>1, Zenon
  <2> QED
    BY <1>11, <1>13, <2>1, <2>2, <2>3, Zenon DEF PageOK, Root
<1>18. e.boundary # 0 => Covered(e.boundary)'
  BY <1>10, <1>14, CoveredStays, Zenon DEF GapInv
<1>19. ExecOK(f)'
  <2>1. f.pc # "list" /\ f.pc # "advance"
    BY <1>13
  <2> QED
    BY <1>10, <1>11, <1>13, <1>14, <1>17, <1>18, <2>1, ZenonT(120) DEF ExecOK
<1>20. \A id \in Listed' : PageOwes(f, id)'
  BY <1>13, <1>14, <1>16, Zenon DEF PageOwes, Root
<1> QED
  BY <1>1, <1>6, <1>13, <1>19, <1>20, JobGoesOn, Zenon

\* The order of the list is transitive.
LEMMA BeforeIsTransitive ==
  ASSUME ListingOK, NEW x, NEW y, NEW z, Before(x, y), Before(y, z)
  PROVE  Before(x, z)
<1>1. PICK i, k \in DOMAIN listing : i < k /\ listing[i] = x /\ listing[k] = y
  BY Zenon DEF Before
<1>2. PICK p, q \in DOMAIN listing : p < q /\ listing[p] = y /\ listing[q] = z
  BY Zenon DEF Before
<1>3. k = p
  BY <1>1, <1>2, Zenon DEF ListingOK
<1>4. listing \in Seq(Nat)
  BY Zenon DEF ListingOK
<1>5. i < q
  BY <1>1, <1>2, <1>3, <1>4
<1> QED
  BY <1>1, <1>2, <1>5, Zenon DEF Before

\* Where a pass ends, nothing is left of what its last page reads.
LEMMA EndIsCovered ==
  ASSUME GapInv, NEW j \in Jobs, NEW e \in Execs, e = exec[j], e.pc = "advance", PassEnds(j),
         NEW id \in Listed, id \notin old, id \in Punctual \/ e.deep, Reads(e, id)
  PROVE  Cared(id)
<1>1. ExecOK(e) /\ ListingOK
  <2>1. e.pc # "idle"
    OBVIOUS
  <2> QED
    BY <2>1, Zenon DEF GapInv, ExecsOK
<1>2. PageOK(e) /\ (\A x \in PageSet(e) \ old : Cared(x)) /\ e.cutoff \subseteq old
      /\ e.boundary \in Known \cup {0} /\ (e.boundary # 0 => Covered(e.boundary))
  BY <1>1, Zenon DEF ExecOK
<1>3. CASE id \in PageSet(e)
  BY <1>2, <1>3, Zenon
<1>4. CASE e.next # Root /\ Before(e.next, id)
  <2>1. e.next \in PageSet(e) /\ e.next \in Listed
    BY <1>2, <1>4, BeforeIsListed, Zenon DEF PageOK
  <2>2. CASE ~e.deep /\ ReachedBoundary(j)
    <3>1. e.boundary # 0 /\ e.boundary \in PageSet(e)
      BY <2>2, Zenon DEF ReachedBoundary, PageSet
    <3>2. e.boundary = e.next \/ Before(e.boundary, e.next)
      BY <1>2, <2>1, <3>1, Zenon DEF PageOK
    <3>3. Before(e.boundary, id)
      BY <1>1, <1>4, <3>2, BeforeIsTransitive, Zenon
    <3>4. Behind(id, e.boundary)
      BY <1>1, <3>3, BehindIs, BeforeIsListed, Zenon
    <3> QED
      BY <1>2, <2>2, <3>1, <3>4, Zenon DEF Covered
  <2>3. CASE ReachedLookbackEnd(j)
    <3>1. PageSet(e) \ e.cutoff = {}
      BY <2>3, Zenon DEF ReachedLookbackEnd, Candidates, PageSet
    <3>2. e.next \in old
      BY <1>2, <2>1, <3>1, Zenon
    <3>3. PICK i, k \in DOMAIN listing : i < k /\ listing[i] = e.next /\ listing[k] = id
      BY <1>4, Zenon DEF Before
    <3> QED
      BY <1>1, <3>2, <3>3, Zenon DEF ListingOK
  <2> QED
    BY <1>4, <2>2, <2>3, Zenon DEF PassEnds
<1> QED
  BY <1>3, <1>4, Zenon DEF Reads

\* A pass that owns the window has dealt with what lies before its page, so
\* that the rest is what the page reads.
LEMMA PassReads ==
  ASSUME GapInv, NEW j \in Jobs, NEW e \in Execs, e = exec[j], e.pc = "advance",
         OwnsWindow(j, e.cursor), NEW t, t = (IF window.top # 0 THEN window.top ELSE e.top), t # 0,
         NEW id \in Punctual, Behind(id, t)
  PROVE  Cared(id) \/ Reads(e, id)
<1>1. ExecOK(e) /\ WindowOK
  <2>1. e.pc # "idle"
    BY Zenon
  <2> QED
    BY <2>1, Zenon DEF GapInv, ExecsOK
<1>2. PageOK(e)
  BY <1>1, Zenon DEF ExecOK
<1>3. PICK w, c : w = window.top /\ c = window.cursor
  BY Zenon
<1>4. /\ c = e.cursor /\ (c = Root <=> w = 0)
      /\ w # 0 => \A x \in Punctual : Behind(x, w) => Cared(x) \/ Before(c, x)
  BY <1>1, <1>3, Zenon DEF WindowOK, OwnsWindow
<1>5. CASE w = 0
  BY <1>2, <1>3, <1>4, <1>5, Zenon DEF PageOK
<1>6. CASE w # 0
  BY <1>2, <1>3, <1>4, <1>6, Zenon DEF PageOK
<1> QED
  BY <1>5, <1>6, Zenon

\* An owner's page and the pages after it hold what the deep pass still owes.
LEMMA PassOwes ==
  ASSUME GapInv, NEW j \in Jobs, NEW e \in Execs, e = exec[j], e.pc = "advance",
         OwnsWindow(j, e.cursor), NEW id \in (owed \cap Listed) \ old
  PROVE  Cared(id) \/ Reads(e, id)
<1>1. PICK c : c = window.cursor
  BY Zenon
<1>2. window.open /\ c = e.cursor /\ e.token = window.token
  BY <1>1, Zenon DEF OwnsWindow
<1>3. PageOwes(e, id)
  BY <1>2, Zenon DEF GapInv, OwedOK
<1>4. c # Root => Cared(id) \/ Before(c, id)
  BY <1>1, <1>2, Zenon DEF GapInv, OwedOK
<1> QED
  BY <1>2, <1>3, <1>4, Zenon DEF PageOwes

\* Completing a window preserves the invariant: its newest delivery is covered.
LEMMA CompleteInv ==
  ASSUME GapInv, NEW j \in Jobs, Complete(j)
  PROVE  GapInv'
<1>1. PICK e \in Execs : e = exec[j]
  BY Zenon DEF GapInv, GapTypeOK
<1>2. /\ e.pc = "advance" /\ PassEnds(j) /\ UNCHANGED githubVars /\ asked' = asked
      /\ continuation' = continuation /\ tokens' = tokens /\ owed' = owed
      /\ exec' = [exec EXCEPT ![j] = IdleExec]
      /\ window' = IF OwnsWindow(j, e.cursor) THEN CompleteGapHealCursor(e.top) ELSE window
  BY <1>1, Zenon DEF Complete
<1>3. CASE ~OwnsWindow(j, e.cursor)
  BY <1>2, <1>3, JobEnds, Zenon
<1>4. CASE OwnsWindow(j, e.cursor)
  <2>1. /\ ListingOK' /\ Evolves /\ old' = old /\ Listed' = Listed /\ Known' = Known
        /\ Punctual' = Punctual /\ \A x, y : Before(x, y)' <=> Before(x, y)
    BY <1>2, JobMoves, Zenon
  <2>2. PICK w \in Windows : w = window
    BY Zenon DEF GapInv, GapTypeOK
  <2>3. PICK b, t : /\ t = (IF w.top # 0 THEN w.top ELSE e.top)
                    /\ b = (IF t # 0 THEN t ELSE w.boundary)
    OBVIOUS
  <2>4. b = FirstNonZero(w.top, e.top, w.boundary)
    BY <2>3, Zenon DEF FirstNonZero
  <2>5. ExecOK(e) /\ WindowOK
    <3>1. e.pc # "idle"
      BY <1>2
    <3> QED
      BY <1>1, <3>1, Zenon DEF GapInv, ExecsOK
  <2>6. /\ w.boundary \in Known \cup {0} /\ w.top \in Known \cup {0} /\ e.top \in Known \cup {0}
        /\ w.boundary # 0 => Covered(w.boundary)
        /\ w.cutoff \subseteq old
    BY <2>2, <2>5, Zenon DEF ExecOK, WindowOK
  <2>7. b \in Known \cup {0}
    BY <2>3, <2>6, Zenon
  <2>8. b \in Nat
    BY <2>3 DEF Windows, Execs
  <2>9. /\ window' \in Windows /\ ~window'.open /\ window'.cursor = Root /\ window'.top = 0
        /\ window'.boundary = b /\ window'.cutoff = w.cutoff
    <3>1. window' = [w EXCEPT !.open = FALSE, !.cursor = Root, !.top = 0, !.token = NoToken,
                              !.live = FALSE, !.boundary = b]
      BY <1>2, <1>4, <2>2, <2>4 DEF CompleteGapHealCursor
    <3> QED
      BY Zenon, <2>8, <3>1 DEF Windows, Root, NoToken
  <2>10. b # 0 => Covered(b)
    <3>1. CASE t = 0
      BY <2>3, <2>6, <3>1, Zenon
    <3>2. CASE t # 0
      <4>1. b = t /\ t = (IF window.top # 0 THEN window.top ELSE e.top)
        BY <2>2, <2>3, <3>2, Zenon
      <4>2. ASSUME NEW id \in Punctual, Behind(id, t) PROVE Cared(id)
        <5>1. Cared(id) \/ Reads(e, id)
          BY <1>1, <1>2, <1>4, <3>2, <4>1, <4>2, PassReads, ZenonT(120)
        <5>2. id \in Listed /\ id \notin old
          BY <4>2, Zenon DEF Punctual
        <5> QED
          BY <1>1, <1>2, <4>2, <5>1, <5>2, EndIsCovered, Zenon
      <4> QED
        BY <4>1, <4>2, Zenon DEF Covered
    <3> QED
      BY <3>1, <3>2, Zenon
  <2>11. b \in Known' \cup {0} /\ (b # 0 => Covered(b)')
    BY <2>1, <2>7, <2>10, CoveredStays, Zenon DEF GapInv
  <2>12. WindowOK'
    <3>1. window'.cutoff \subseteq old'
      BY <2>1, <2>6, <2>9, Zenon
    <3> QED
      BY <2>9, <2>11, <3>1, WindowIs, Zenon DEF Root
  <2>13. exec' \in [Jobs -> Execs] /\ exec'[j] = IdleExec /\ \A k \in Jobs \ {j} : exec'[k] = exec[k]
    BY <1>2, IdleIs, Zenon DEF GapInv, GapTypeOK
  <2>14. GapTypeOK'
    BY <1>2, <2>1, <2>9, <2>13, Zenon DEF GapInv, GapTypeOK
  <2>15. ASSUME NEW k \in Jobs, NEW g \in Execs, g = exec'[k], g.pc # "idle" PROVE ExecOK(g)'
    <3>1. exec'[k] = exec[k]
      BY <2>13, <2>15, IdleIs, Zenon
    <3> QED
      BY <2>1, <2>15, <3>1, OtherStays, ZenonT(120)
  <2>16. ExecsOK'
    BY <2>15, Zenon DEF ExecsOK
  <2>17. OwedOK'
    <3>1. owed' \subseteq Known'
      BY <1>2, <2>1, ZenonT(120) DEF GapInv, OwedOK
    <3> QED
      BY <2>9, <3>1, Zenon DEF OwedOK
  <2> QED
    BY <2>1, <2>12, <2>14, <2>16, <2>17, Zenon DEF GapInv
<1> QED
  BY <1>3, <1>4, Zenon

\* Moving the cursor past a page preserves the invariant.
LEMMA AdvanceInv ==
  ASSUME GapInv, NEW j \in Jobs, Advance(j)
  PROVE  GapInv'
<1>1. PICK e \in Execs : e = exec[j]
  BY Zenon DEF GapInv, GapTypeOK
<1>2. PICK next : next = e.next
  BY Zenon
<1>3. PICK f : f = IF e.pages = MaxPages THEN IdleExec ELSE [e EXCEPT !.pc = "list", !.cursor = next]
  OBVIOUS
<1>4. /\ e.pc = "advance" /\ ~PassEnds(j) /\ UNCHANGED githubVars /\ asked' = asked
      /\ tokens' = tokens /\ owed' = owed
  BY <1>1, Zenon DEF Advance
<1>5. CASE ~OwnsWindow(j, e.cursor)
  <2>1. exec' = [exec EXCEPT ![j] = IdleExec] /\ window' = window /\ continuation' = continuation
    BY <1>1, <1>5, Zenon DEF Advance
  <2> QED
    BY <1>4, <2>1, JobEnds, Zenon
<1>6. CASE OwnsWindow(j, e.cursor)
  <2>1. /\ ListingOK' /\ Evolves /\ old' = old /\ Listed' = Listed /\ Known' = Known
        /\ Punctual' = Punctual /\ \A x, y : Before(x, y)' <=> Before(x, y)
    BY <1>4, JobMoves, Zenon
  <2>2. PICK w \in Windows : w = window
    BY Zenon DEF GapInv, GapTypeOK
  <2>3. PICK t : t = IF w.top = 0 THEN e.top ELSE w.top
    BY Zenon
  <2>4. ExecOK(e) /\ WindowOK /\ PageOK(e) /\ next # Root /\ next \in Nat /\ t \in Nat
    <3>1. e.pc # "idle"
      BY <1>4
    <3>2. ExecOK(e) /\ WindowOK
      BY <1>1, <3>1, Zenon DEF GapInv, ExecsOK
    <3>3. PageOK(e)
      BY <1>4, <3>2, Zenon DEF ExecOK
    <3>4. next # Root
      BY <1>1, <1>2, <1>4, Zenon DEF PassEnds
    <3>5. next \in Nat /\ t \in Nat
      BY <1>2, <2>3 DEF Execs, Windows
    <3> QED
      BY <3>2, <3>3, <3>4, <3>5, Zenon
  <2>5. window' = [w EXCEPT !.cursor = next, !.live = TRUE, !.top = t]
    BY <1>1, <1>2, <1>6, <2>2, <2>3 DEF Advance, AdvanceGapHealCursor
  <2>6. /\ window' \in Windows /\ window'.open = w.open /\ window'.cursor = next /\ window'.top = t
        /\ window'.boundary = w.boundary /\ window'.cutoff = w.cutoff /\ window'.token = w.token
        /\ window'.deep = w.deep
    BY Zenon, <2>4, <2>5 DEF Windows
  <2>7. exec' = [exec EXCEPT ![j] = f]
    BY <1>1, <1>2, <1>3, <1>6 DEF Advance
  <2>8. /\ f \in Execs /\ f.pc \in {"idle", "list"}
        /\ f.pc # "idle" =>
             /\ f.token = e.token /\ f.deep = e.deep /\ f.cursor = next
             /\ f.boundary = e.boundary /\ f.top = e.top /\ f.cutoff = e.cutoff
    <3>1. CASE e.pages = MaxPages
      BY <1>3, <3>1, IdleIs
    <3>2. CASE e.pages # MaxPages
      BY Zenon, <1>3, <2>4, <3>2 DEF Execs
    <3> QED
      BY <3>1, <3>2, Zenon
  <2>9. exec' \in [Jobs -> Execs] /\ exec'[j] = f /\ \A k \in Jobs \ {j} : exec'[k] = exec[k]
    BY <2>7, <2>8, Zenon DEF GapInv, GapTypeOK
  <2>10. continuation' \in SUBSET [cursor : Nat, token : Nat]
    <3>1. continuation \in SUBSET [cursor : Nat, token : Nat]
      BY Zenon DEF GapInv, GapTypeOK
    <3>2. [cursor |-> next, token |-> e.token] \in [cursor : Nat, token : Nat]
      BY <2>4 DEF Execs
    <3>3. continuation' \subseteq continuation \cup {[cursor |-> next, token |-> e.token]}
      BY <1>1, <1>2, <1>6, Zenon DEF Advance
    <3> QED
      BY <3>1, <3>2, <3>3, Zenon
  <2>11. GapTypeOK'
    BY <1>4, <2>1, <2>6, <2>9, <2>10, Zenon DEF GapInv, GapTypeOK
  <2>12. /\ next \in Known /\ next # 0 /\ e.top \in Known \cup {0} /\ w.top \in Known \cup {0}
         /\ w.boundary \in Known \cup {0} /\ e.boundary \in Known \cup {0}
         /\ (w.boundary # 0 => Covered(w.boundary)) /\ (e.boundary # 0 => Covered(e.boundary))
         /\ w.cutoff \subseteq old /\ e.cutoff \subseteq old /\ e.top # 0
    BY <1>2, <2>2, <2>4, Zenon DEF ExecOK, WindowOK, PageOK, Root
  <2>13. t # 0 /\ t \in Known /\ t = IF window.top # 0 THEN window.top ELSE e.top
    BY <2>2, <2>3, <2>12, Zenon
  <2>14. /\ w.boundary # 0 => Covered(w.boundary)'
         /\ e.boundary # 0 => Covered(e.boundary)'
    BY <2>1, <2>12, CoveredStays, Zenon DEF GapInv
  <2>15. ASSUME NEW id \in Listed, id \notin old, Cared(id) \/ Reads(e, id)
         PROVE  Cared(id)' \/ Before(next, id)'
    <3>1. Cared(id) \/ Before(next, id)
      BY <1>2, <1>4, <2>4, <2>15, Zenon DEF Reads, ExecOK
    <3>2. id \in Known
      BY Zenon DEF Known
    <3> QED
      BY <2>1, <3>1, <3>2, Zenon DEF Evolves
  <2>16. ASSUME NEW id \in Punctual', Behind(id, t)' PROVE Cared(id)' \/ Before(next, id)'
    <3>1. id \in Punctual /\ id \in Listed /\ id \notin old
      BY <2>1, <2>16, Zenon DEF Punctual
    <3>2. Behind(id, t)
      BY <2>1, <2>16, BehindIs, BehindNext, Zenon DEF GapInv
    <3>3. Cared(id) \/ Reads(e, id)
      BY <1>1, <1>4, <1>6, <2>13, <3>1, <3>2, PassReads, ZenonT(120)
    <3> QED
      BY <2>15, <3>1, <3>3, Zenon
  <2>17. WindowOK'
    <3>1. window'.cutoff \subseteq old' /\ next \in Known' \cup {0} /\ t \in Known' \cup {0}
          /\ w.boundary \in Known' \cup {0}
      BY <2>1, <2>6, <2>12, <2>13, Zenon
    <3> QED
      BY <2>4, <2>6, <2>13, <2>14, <2>16, <3>1, WindowIs, ZenonT(120)
  <2>18. f.pc # "idle" => ExecOK(f)'
    <3>1. f.pc # "compare" /\ f.pc # "advance"
      BY <2>8
    <3> QED
      BY <2>1, <2>4, <2>8, <2>12, <2>14, <3>1, ZenonT(120) DEF ExecOK, Root
  <2>19. ASSUME NEW k \in Jobs, NEW g \in Execs, g = exec'[k], g.pc # "idle" PROVE ExecOK(g)'
    BY <2>1, <2>9, <2>18, <2>19, OtherStays, ZenonT(120)
  <2>20. ExecsOK'
    BY <2>19, Zenon DEF ExecsOK
  <2>21. OwedOK'
    <3>1. \A id \in (owed \cap Listed') \ old' : Cared(id)' \/ Before(next, id)'
      <4> SUFFICES ASSUME NEW id \in (owed \cap Listed') \ old' PROVE Cared(id)' \/ Before(next, id)'
        BY Zenon
      <4>1. id \in (owed \cap Listed) \ old
        BY <2>1, Zenon
      <4>2. Cared(id) \/ Reads(e, id)
        BY <1>1, <1>4, <1>6, <4>1, PassOwes, ZenonT(120)
      <4> QED
        BY <2>15, <4>1, <4>2, Zenon
    <3>2. window.open /\ e.token = window.token
      BY <1>1, <1>6, Zenon DEF OwnsWindow
    <3>3. f.pc \notin {"compare", "advance"} /\ e.pc # "idle"
      BY <1>4, <2>8
    <3>4. \A k \in Jobs : window'.open /\ exec'[k].pc # "idle" /\ exec'[k].token = window'.token =>
            /\ exec[k].pc # "idle" /\ exec[k].token = window.token /\ exec'[k].deep = exec[k].deep
            /\ exec'[k].pc \in {"compare", "advance"} =>
                 /\ exec[k].pc \in {"compare", "advance"} /\ exec[k].token = window.token
                 /\ exec'[k].cursor = exec[k].cursor /\ exec'[k].page = exec[k].page
                 /\ exec'[k].next = exec[k].next
      BY <1>1, <2>2, <2>6, <2>8, <2>9, <3>2, <3>3, ZenonT(120)
    <3>5. window'.open => window.open /\ window'.deep = window.deep
      BY <2>2, <2>6, Zenon
    <3> QED
      BY <1>4, <2>1, <2>6, <2>11, <3>1, <3>4, <3>5, OwedIs, ZenonT(120)
  <2> QED
    BY <2>1, <2>11, <2>17, <2>20, <2>21, Zenon DEF GapInv
<1> QED
  BY <1>5, <1>6, Zenon

\* No delivery and no pass: the invariant holds.
LEMMA GapStart == GapInit => GapInv
<1> SUFFICES ASSUME GapInit PROVE GapInv
  OBVIOUS
<1>1. /\ listing = <<>> /\ late = {} /\ old = {} /\ owed = {} /\ continuation = {} /\ tokens = 0
      /\ exec = [j \in Jobs |-> IdleExec]
      /\ window = [open |-> FALSE, cursor |-> Root, deep |-> FALSE, boundary |-> 0,
                   top |-> 0, token |-> NoToken, live |-> FALSE, cutoff |-> {}]
  BY Zenon DEF GapInit
<1>2. /\ window \in Windows /\ window.boundary = 0 /\ window.cursor = Root /\ window.top = 0
      /\ window.cutoff = {} /\ ~window.open
  BY Zenon, <1>1 DEF Windows, Root, NoToken
<1>3. GapTypeOK
  <2>1. exec \in [Jobs -> Execs]
    BY <1>1, IdleIs, Zenon
  <2>2. old \in SUBSET Nat /\ tokens \in Nat /\ continuation \in SUBSET [cursor : Nat, token : Nat]
    BY Zenon, <1>1
  <2> QED
    BY <1>2, <2>1, <2>2, Zenon DEF GapTypeOK
<1>4. listing \in Seq(Nat) /\ DOMAIN listing = {}
  BY <1>1
<1>5. Known = {}
  BY <1>1, <1>4, Zenon DEF Known, Listed
<1>6. ListingOK
  <2>1. 1..0 = {} /\ 0 \in Nat
    OBVIOUS
  <2>2. \E n \in Nat : Known = 1..n
    BY <1>5, <2>1
  <2> QED
    BY <1>4, <2>2, Zenon DEF ListingOK
<1>7. WindowOK
  BY <1>1, <1>2, Zenon DEF WindowOK, Root
<1>8. ExecsOK
  BY <1>1, IdleIs, Zenon DEF ExecsOK
<1>9. OwedOK
  BY <1>1, <1>2, Zenon DEF OwedOK
<1> QED
  BY <1>3, <1>6, <1>7, <1>8, <1>9, Zenon DEF GapInv

\* Every step preserves the invariant.
LEMMA GapStep == GapInv /\ [GapNext]_gapVars => GapInv'
<1> SUFFICES ASSUME GapInv, [GapNext]_gapVars PROVE GapInv'
  OBVIOUS
<1>1. CASE \/ \E id \in 1..MaxId, ahead \in 0..Len(listing), stored \in BOOLEAN :
                Deliver(id, ahead, stored)
           \/ \E id \in Listed : Redelivered(id) \/ Age(id)
           \/ Forget
  BY <1>1, GithubInv, Zenon
<1>2. ASSUME NEW j \in Jobs, NEW mode \in Modes, Kickoff(j, mode) PROVE GapInv'
  <2>1. tokens + 1 \in Nat
    BY DEF GapInv, GapTypeOK
  <2>2. /\ LoadOrStart(j, tokens + 1, Root, mode) /\ tokens' = tokens + 1
        /\ UNCHANGED <<githubVars, asked>> /\ continuation' \subseteq continuation
    BY <1>2, Zenon DEF Kickoff
  <2>3. PICK t \in Nat : t = tokens + 1
    BY <2>1, Zenon
  <2>4. LoadOrStart(j, t, Root, mode) /\ tokens' \in Nat
    BY <2>1, <2>2, <2>3
  <2> QED
    BY <2>2, <2>4, LoadOrStartInv, Zenon
<1>3. ASSUME NEW j \in Jobs, NEW c \in continuation, NEW mode \in Modes, Continue(j, c, mode)
      PROVE  GapInv'
  <2>1. c.token \in Nat
    BY DEF GapInv, GapTypeOK
  <2>2. /\ LoadOrStart(j, c.token, c.cursor, mode) /\ tokens' \in Nat
        /\ UNCHANGED <<githubVars, asked>> /\ continuation' \subseteq continuation
    BY <1>3, Zenon DEF Continue, GapInv, GapTypeOK
  <2> QED
    BY <2>1, <2>2, LoadOrStartInv, Zenon
<1>4. ASSUME NEW j \in Jobs, RedeliverFails(j) \/ FailJob(j) PROVE GapInv'
  <2>1. /\ UNCHANGED githubVars /\ asked \subseteq asked' /\ exec' = [exec EXCEPT ![j] = IdleExec]
        /\ UNCHANGED <<continuation, tokens, owed, window>>
    BY <1>4, Zenon DEF RedeliverFails, FailJob
  <2> QED
    BY <2>1, JobEnds, Zenon
<1>5. ASSUME NEW j \in Jobs, RenewLease(j) PROVE GapInv'
  BY <1>5, LeaseStep, Zenon DEF RenewLease, RenewGapHealLease
<1>6. CASE LeaseExpires
  BY <1>6, LeaseStep, Zenon DEF LeaseExpires
<1>7. CASE UNCHANGED gapVars
  <2>1. UNCHANGED <<githubVars, asked, exec, continuation, tokens, owed>> /\ window' = window
    BY <1>7, Zenon DEF gapVars, githubVars
  <2>2. PICK w \in Windows : w = window
    BY Zenon DEF GapInv, GapTypeOK
  <2>3. w.live \in BOOLEAN /\ w = [w EXCEPT !.live = w.live]
    BY DEF Windows
  <2>4. window' = [window EXCEPT !.live = w.live]
    BY <2>1, <2>2, <2>3, Zenon
  <2> QED
    BY <2>1, <2>3, <2>4, LeaseStep, Zenon
<1> QED
  BY <1>1, <1>2, <1>3, <1>4, <1>5, <1>6, <1>7, ListInv, RestartInv, RedeliverInv, AdvanceInv,
     CompleteInv, ZenonT(120) DEF GapNext

\* A completed window was completed by an execution that owns it, whose pages
\* reach the end of the list, or of the lookback.
LEMMA DeepStep ==
  ASSUME GapInv, [GapNext]_gapVars, window.open, ~window'.open, window.deep,
         NEW id \in (owed \cap Listed) \ old
  PROVE  Cared(id)
<1>1. PICK w \in Windows : w = window
  BY Zenon DEF GapInv, GapTypeOK
<1>2. ASSUME NEW j \in Jobs, Complete(j) PROVE Cared(id)
  <2>1. PICK e \in Execs : e = exec[j]
    BY Zenon DEF GapInv, GapTypeOK
  <2>2. e.pc = "advance" /\ PassEnds(j) /\ OwnsWindow(j, e.cursor)
    BY <1>2, <2>1, Zenon DEF Complete
  <2>3. e.pc # "idle"
    BY <2>2
  <2>4. Cared(id) \/ Reads(e, id)
    BY <2>1, <2>2, PassOwes, Zenon
  <2>5. e.deep
    BY <2>1, <2>2, <2>3, Zenon DEF GapInv, OwedOK, OwnsWindow
  <2> QED
    BY <2>1, <2>2, <2>4, <2>5, EndIsCovered, Zenon
<1>3. ASSUME NEW j \in Jobs, RestartWindow(j) PROVE window'.open
  BY Zenon, <1>1, <1>3 DEF RestartWindow, RestartGapHealCursor, Windows
<1>4. ASSUME NEW j \in Jobs, Advance(j) PROVE window'.open
  BY Zenon, <1>1, <1>4 DEF Advance, AdvanceGapHealCursor, Windows
<1>5. ASSUME NEW j \in Jobs, RenewLease(j) PROVE window'.open
  BY <1>1, <1>5 DEF RenewLease, RenewGapHealLease, Windows
<1>6. ASSUME LeaseExpires PROVE window'.open
  BY <1>1, <1>6 DEF LeaseExpires, Windows
<1>7. ASSUME NEW j \in Jobs, NEW token, NEW cursor, NEW mode, LoadOrStart(j, token, cursor, mode)
      PROVE  window'.open
  BY <1>1, <1>7 DEF LoadOrStart, StartGapHealCursor, ClaimGapHealCursor, Windows
<1> QED
  BY <1>2, <1>3, <1>4, <1>5, <1>6, <1>7, ZenonT(120)
     DEF GapNext, Deliver, Redelivered, Age, Forget, Kickoff, Continue, ListDeliveries,
         RedeliverMissing, RedeliverFails, FailJob, gapVars

\* The invariant holds throughout.
LEMMA GapIsInductive == GapSpec => []GapInv
  BY GapStart, GapStep, PTL DEF GapSpec

\* gap.go:114-122: whatever crashes, expired leases, overlapping executions and
\* rejected cursors a pass meets, an incremental pass loses nothing by stopping
\* at the boundary, for every page size and any number of deliveries and jobs.
THEOREM BoundaryIsCovered == GapSpec => []BoundaryCovers
<1>1. GapInv => BoundaryCovers
  BY Zenon DEF GapInv, WindowOK, Covered, Punctual, BoundaryCovers
<1> QED
  BY <1>1, GapIsInductive, PTL

\* gap.go:118-119: the step that completes a deep pass finds every delivery it
\* owes stored or asked for, the ones that were listed late included.
THEOREM DeepPassesCover == GapSpec => DeepPassCovers
<1>1. GapInv /\ [GapNext]_gapVars =>
        [window.open /\ ~window'.open /\ window.deep =>
           \A id \in (owed \cap Listed) \ old : Cared(id)]_gapVars
  BY DeepStep, Zenon
<1> QED
  BY <1>1, GapIsInductive, PTL DEF GapSpec, DeepPassCovers
=============================================================================
