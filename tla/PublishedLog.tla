---------------------------- MODULE PublishedLog ----------------------------
(***************************************************************************)
(* What ghsync's change stream promises a consumer, without writers,       *)
(* transactions, fence, lease or retention: per stream an append-only log  *)
(* of sequence numbers and one reader.                                     *)
(***************************************************************************)
EXTENDS Naturals

CONSTANTS Streams, MaxSeq

VARIABLES
    published,  \* per stream, the sequence numbers readers may see
    cursor,     \* per stream, the reader's position
    seen        \* per stream, the sequence numbers the reader has taken in

logVars == <<published, cursor, seen>>

Init ==
    /\ published = [st \in Streams |-> {}]
    /\ cursor = [st \in Streams |-> 0]
    /\ seen = [st \in Streams |-> {}]

(* New events appear, on every stream after all published ones.            *)
Append ==
    /\ \E new \in [Streams -> SUBSET (1..MaxSeq)] :
         /\ \A st \in Streams, r \in Streams :
              \A n \in new[st], m \in published[r] : n > m
         /\ published' = [st \in Streams |-> published[st] \cup new[st]]
    /\ UNCHANGED <<cursor, seen>>

(* The reader takes exactly the events between its cursor and event n.     *)
Read(st, n) ==
    /\ n \in published[st]
    /\ n > cursor[st]
    /\ cursor' = [cursor EXCEPT ![st] = n]
    /\ seen' = [seen EXCEPT ![st] =
                  @ \cup {m \in published[st] : m > cursor[st] /\ m <= n}]
    /\ UNCHANGED published

(* The reader restarts from a snapshot at n: it skips nothing up to n.     *)
Restart(st, n) ==
    /\ n >= cursor[st]
    /\ cursor' = [cursor EXCEPT ![st] = n]
    /\ \E S \in SUBSET (1..MaxSeq) :
         /\ {m \in published[st] : m <= n} \subseteq S
         /\ seen' = [seen EXCEPT ![st] = S]
    /\ UNCHANGED published

Next ==
    \/ Append
    \/ \E st \in Streams, n \in 0..MaxSeq : Read(st, n) \/ Restart(st, n)

Spec == Init /\ [][Next]_logVars
=============================================================================
