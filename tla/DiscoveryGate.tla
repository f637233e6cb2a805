--------------------------- MODULE DiscoveryGate ---------------------------
(***************************************************************************)
(* The discovery of a repository that is not cached yet                    *)
(* (fetch.ensureRepository) and the gate that lets one caller at a time do *)
(* it (internal/fetch/discovery_gate.go).  The gate keeps a semaphore per  *)
(* name in a map, counts the references to it, and drops it with the last  *)
(* one, so that a name may have several semaphores over time.  One name is *)
(* modelled: names share nothing.                                          *)
(***************************************************************************)
EXTENDS Integers

CONSTANTS Discoverers, \* concurrent callers of ensureRepository
          MaxEntries   \* bound on the entries made

ASSUME MaxEntriesIsNat == MaxEntries \in Nat

VARIABLES
    at,       \* caller -> where in ensureRepository it is
    held,     \* caller -> the entry it refers to (0: none)
    table,    \* the entry of the name in gate.entries (0: none)
    made,     \* entries made so far
    refs,     \* entry -> the callers counted by entry.refs
    owner,    \* entry -> the callers inside its semaphore
    present   \* the repository is in the cache

gateVars == <<at, held, table, made, refs, owner, present>>

Entries == 1 .. MaxEntries
Inside == {"recheck", "fetch"}

Init ==
    /\ at = [c \in Discoverers |-> "read"] /\ held = [c \in Discoverers |-> 0]
    /\ table = 0 /\ made = 0
    /\ refs = [e \in Entries |-> {}] /\ owner = [e \in Entries |-> {}]
    /\ present = FALSE

\* The first read of the cache, without the gate.
Read(c) ==
    /\ at[c] = "read"
    /\ at' = [at EXCEPT ![c] = IF present THEN "done" ELSE "enter"]
    /\ UNCHANGED <<held, table, made, refs, owner, present>>

\* acquire, under the gate's mutex.
Enter(c) ==
    /\ at[c] = "enter" /\ (table = 0 => made < MaxEntries)
    /\ made' = IF table = 0 THEN made + 1 ELSE made
    /\ LET e == IF table = 0 THEN made + 1 ELSE table
       IN  /\ table' = e
           /\ held' = [held EXCEPT ![c] = e]
           /\ refs' = [refs EXCEPT ![e] = @ \cup {c}]
    /\ at' = [at EXCEPT ![c] = "wait"]
    /\ UNCHANGED <<owner, present>>

\* semaphore.Acquire
Acquire(c) ==
    /\ at[c] = "wait" /\ owner[held[c]] = {}
    /\ owner' = [owner EXCEPT ![held[c]] = {c}]
    /\ at' = [at EXCEPT ![c] = "recheck"]
    /\ UNCHANGED <<held, table, made, refs, present>>

\* ... which returns an error when the context ends first.
Cancel(c) ==
    /\ at[c] = "wait"
    /\ at' = [at EXCEPT ![c] = "drop"]
    /\ UNCHANGED <<held, table, made, refs, owner, present>>

\* The second read, GetRepository and ApplyRepository.
Recheck(c) ==
    /\ at[c] = "recheck"
    /\ at' = [at EXCEPT ![c] = IF present THEN "release" ELSE "fetch"]
    /\ UNCHANGED <<held, table, made, refs, owner, present>>

Discover(c) ==
    /\ at[c] = "fetch"
    /\ present' \in {present, TRUE}
    /\ at' = [at EXCEPT ![c] = "release"]
    /\ UNCHANGED <<held, table, made, refs, owner>>

\* The release function: the semaphore first, then the reference.
Release(c) ==
    /\ at[c] = "release"
    /\ owner' = [owner EXCEPT ![held[c]] = @ \ {c}]
    /\ at' = [at EXCEPT ![c] = "drop"]
    /\ UNCHANGED <<held, table, made, refs, present>>

\* Mutant of LastReference: the entry goes with the first reference.
AnyReference(c) == TRUE

\* releaseReference
LastReference(c) == refs[held[c]] = {c}

ReleaseReference(c) ==
    /\ at[c] = "drop"
    /\ refs' = [refs EXCEPT ![held[c]] = @ \ {c}]
    /\ table' = IF LastReference(c) /\ table = held[c] THEN 0 ELSE table
    /\ held' = [held EXCEPT ![c] = 0]
    /\ at' = [at EXCEPT ![c] = "done"]
    /\ UNCHANGED <<made, owner, present>>

\* The next refresh of the same worker.
Again(c) ==
    /\ at[c] = "done"
    /\ at' = [at EXCEPT ![c] = "read"]
    /\ UNCHANGED <<held, table, made, refs, owner, present>>

Next ==
    \E c \in Discoverers :
      \/ Read(c) \/ Enter(c) \/ Acquire(c) \/ Cancel(c) \/ Recheck(c)
      \/ Discover(c) \/ Release(c) \/ ReleaseReference(c) \/ Again(c)

Spec == Init /\ [][Next]_gateVars

-----------------------------------------------------------------------------

(* One caller at a time discovers a repository: the semaphore a later      *)
(* caller finds in the map is the one an earlier caller is inside of, also *)
(* when the entry was dropped and made again in between.                   *)
OneDiscovery ==
    \A c, d \in Discoverers : at[c] \in Inside /\ at[d] \in Inside => c = d

(* The map does not grow: an entry is there only while a caller refers to  *)
(* it.                                                                     *)
EntryIsReferenced == table # 0 => refs[table] # {}
=============================================================================
