----------------------------- MODULE BudgetGate -----------------------------
(***************************************************************************)
(* internal/budget/gate.go and the token provider of internal/gh/token.go: *)
(* the one choke point of all calls to GitHub.  Calls ask the gate for     *)
(* admission, sleep on its "changed" channel when a credential is backed   *)
(* off, the concurrency slots are taken or the budget of their pool is at  *)
(* the floor of their class, and hold their slot and their reservation     *)
(* until the response body is closed.  An installation call admitted with  *)
(* no cached token first exchanges one, in a call of its own (Mint) that   *)
(* passes through the same gate inside the first call's admission.         *)
(*                                                                         *)
(* Time appears only as what it ends: an observation or an answer is       *)
(* "current" when it was made in the rate-limit window that is still       *)
(* running, the code's Known and now < ResetAt; shut[x] is                 *)
(* now < backoffUntil of auth context x.  A call costs at most the one     *)
(* point the gate reserves for it.                                         *)
(*                                                                         *)
(* The gate belongs to the process that holds the lease (BudgetLease).  It *)
(* stores its observations from time to time and when it closes; the next  *)
(* holder starts a gate from what is stored.                               *)
(***************************************************************************)
EXTENDS Naturals, FiniteSets

CONSTANTS
  Calls,          \* the calls the program makes, each once
  Mint,           \* the exchange of an installation token
  ClassOf,        \* [Calls -> Classes]
  PoolOf,         \* [Calls -> Pools]
  MaxConcurrent,  \* slots of the gate (C-B6)
  Limit,          \* points of a window, the same for every pool
  FloorOf,        \* [Classes -> 0..Limit]: points a class leaves untouched
  MaxGateFaults   \* bound: cancelled callers, expired tokens, 429s, closes and
                  \* holders that die

Pools == {"rest", "app_jwt_rest", "graphql"}
AuthContexts == {"installation", "app_jwt"}
Classes == {"interactive", "event", "sweep"}
Agents == Calls \cup {Mint}

ASSUME GateConstants ==
  /\ IsFiniteSet(Calls) /\ Mint \notin Calls
  /\ ClassOf \in [Calls -> Classes] /\ PoolOf \in [Calls -> Pools]
  /\ Limit \in Nat /\ FloorOf \in [Classes -> Nat]

VARIABLES
  st,       \* what each agent is doing
  held,     \* g.admissions: "slot", "nested" (in another's slot) or "none"
  parent,   \* the call whose admission the token exchange runs in, or Mint
  pool,     \* the gate's observation of each pool
  shut,     \* auth contexts closed by a secondary limit
  token,    \* an unexpired installation token is cached
  closing,  \* progress of CloseGate
  server,   \* GitHub: points left in the running window of each pool
  answer,   \* the rate headers travelling back to each agent
  throttled,  \* that answer is a secondary limit
  stray,    \* per pool, abandoned requests that may still reach GitHub
  unseen,   \* per pool, points of this window GitHub took that the gate has no
            \* count of: an answer that was lost, a call of the holder before
  saved,    \* installation_budgets: the stored observation of each pool
  lag,      \* per pool, points of this window GitHub took that it lacks
  gateFaults

gateVars == <<st, held, parent, pool, shut, token, closing,
              server, answer, throttled, stray, unseen, saved, lag,
              gateFaults>>
storedVars == <<saved, lag>>

ClassFor(a) == IF a = Mint THEN "interactive" ELSE ClassOf[a]
PoolFor(a) == IF a = Mint THEN "app_jwt_rest" ELSE PoolOf[a]
AuthFor(a) == IF PoolFor(a) = "app_jwt_rest" THEN "app_jwt" ELSE "installation"

InFlight == Cardinality({a \in Agents : held[a] = "slot"})
Reserved(p) == Cardinality({a \in Agents : held[a] # "none" /\ PoolFor(a) = p})

\* A sleeping agent, by what it waits for besides "changed".
Asleep == {"awaits backoff", "awaits change", "awaits reset"}

\* What is known of a window that is over, or of none.
Expired == [current |-> FALSE, remaining |-> 0]

GateInit ==
  /\ st = [a \in Agents |-> "idle"]
  /\ held = [a \in Agents |-> "none"]
  /\ parent = Mint
  /\ pool = [p \in Pools |-> Expired]
  /\ shut = [x \in AuthContexts |-> FALSE]
  /\ token = FALSE
  /\ closing = "open"
  /\ server = [p \in Pools |-> Limit]
  /\ answer = [a \in Agents |-> Expired]
  /\ throttled = [a \in Agents |-> FALSE]
  /\ stray = [p \in Pools |-> 0]
  /\ unseen = [p \in Pools |-> 0]
  /\ saved = [p \in Pools |-> Expired]
  /\ lag = [p \in Pools |-> 0]
  /\ gateFaults = 0

-----------------------------------------------------------------------------
(* Admission.                                                              *)

\* signalLocked: closing the channel wakes every sleeper to ask again.
Signal(s) == [a \in Agents |-> IF s[a] \in Asleep THEN "asking" ELSE s[a]]

\* Do: a call enters the gate.
Do(c) ==
  /\ st[c] = "idle"
  /\ st' = [st EXCEPT ![c] = "asking"]
  /\ UNCHANGED <<held, parent, pool, shut, token, closing, server, answer,
                 throttled, stray, unseen, gateFaults, storedVars>>

\* A token exchange reuses the slot of the admission it runs in, while that
\* admission is still registered.
ReuseSlot(a) == a = Mint /\ held[parent] = "slot"

\* The mutated check: the reservations of the calls in flight are left out.
StarvedUnreserved(a) ==
  LET p == PoolFor(a) IN
  pool[p].current /\ pool[p].remaining < 1 + FloorOf[ClassFor(a)]

\* The budget check: the pool's window is known and not over, and the points
\* left after every reservation would be negative or under the class's floor.
Starved(a) ==
  LET p == PoolFor(a) IN
  /\ pool[p].current
  /\ pool[p].remaining < Reserved(p) + 1 + FloorOf[ClassFor(a)]

Sleep(a, what) ==
  /\ st' = [st EXCEPT ![a] = what]
  /\ UNCHANGED <<held, parent, pool, shut, token, closing, server, answer,
                 throttled, stray, unseen, gateFaults, storedVars>>

TryAdmitBackoff(a) ==
  /\ st[a] = "asking" /\ closing = "open"
  /\ shut[AuthFor(a)]
  /\ Sleep(a, "awaits backoff")

TryAdmitNoSlot(a) ==
  /\ st[a] = "asking" /\ closing = "open"
  /\ ~shut[AuthFor(a)]
  /\ ~ReuseSlot(a) /\ InFlight >= MaxConcurrent
  /\ Sleep(a, "awaits change")

TryAdmitStarved(a) ==
  /\ st[a] = "asking" /\ closing = "open"
  /\ ~shut[AuthFor(a)]
  /\ ReuseSlot(a) \/ InFlight < MaxConcurrent
  /\ Starved(a)
  /\ Sleep(a, "awaits reset")

AdmitCall(a) ==
  /\ st[a] = "asking" /\ closing = "open"
  /\ ~shut[AuthFor(a)]
  /\ ReuseSlot(a) \/ InFlight < MaxConcurrent
  /\ ~Starved(a)
  /\ st' = [st EXCEPT ![a] = "admitted"]
  /\ held' = [held EXCEPT ![a] = IF ReuseSlot(a) THEN "nested" ELSE "slot"]
  /\ UNCHANGED <<parent, pool, shut, token, closing, server, answer, throttled,
                 stray, unseen, gateFaults, storedVars>>

\* waitForChange: the timer at the backoff's or the window's end.
TimerFires(a) ==
  /\ \/ st[a] = "awaits backoff" /\ ~shut[AuthFor(a)]
     \/ st[a] = "awaits reset" /\ ~pool[PoolFor(a)].current
  /\ st' = [st EXCEPT ![a] = "asking"]
  /\ UNCHANGED <<held, parent, pool, shut, token, closing, server, answer,
                 throttled, stray, unseen, gateFaults, storedVars>>

\* The state of the callers when the shared token exchange ends: every call
\* that waits for it goes on with the token or fails.
MintOutcome(s, next) == [a \in Agents |-> IF s[a] = "minting" THEN next ELSE s[a]]

\* The call is over: the admission, its slot and its reservation are returned
\* and the sleepers are woken; an exchange that fails fails its waiters.
\* finishAdmission signals only when the admission was still registered.
FinishAdmission(a) ==
  LET ended == [st EXCEPT ![a] = IF a = Mint THEN "idle" ELSE "done"]
      told == IF a = Mint THEN MintOutcome(ended, "failing") ELSE ended
  IN /\ held' = [held EXCEPT ![a] = "none"]
     /\ st' = IF held[a] # "none" THEN Signal(told) ELSE told
     /\ parent' = IF a = Mint THEN Mint ELSE parent

\* tryAdmit on a closed gate returns its error.
Refuse(a) ==
  /\ st[a] = "asking" /\ closing # "open"
  /\ FinishAdmission(a)
  /\ UNCHANGED <<pool, shut, token, closing, server, answer, throttled, stray,
                 unseen, gateFaults, storedVars>>

-----------------------------------------------------------------------------
(* An admitted call.                                                       *)

\* The before-send hook signs the request when it needs no installation
\* token or one is cached.
Send(a) ==
  /\ \/ st[a] = "admitted" /\ (AuthFor(a) = "app_jwt" \/ token)
     \/ st[a] = "authorized"
  /\ st' = [st EXCEPT ![a] = "sent"]
  /\ UNCHANGED <<held, parent, pool, shut, token, closing, server, answer,
                 throttled, stray, unseen, gateFaults, storedVars>>

\* InstallationTokens.Token without a cached token: the call joins the shared
\* exchange of admitted callers, or starts it inside its own admission.
NeedToken(c) ==
  /\ st[c] = "admitted" /\ AuthFor(c) = "installation" /\ ~token
  /\ IF st[Mint] = "idle"
     THEN /\ st' = [st EXCEPT ![c] = "minting", ![Mint] = "asking"]
          /\ parent' = c
     ELSE /\ st' = [st EXCEPT ![c] = "minting"]
          /\ UNCHANGED parent
  /\ UNCHANGED <<held, pool, shut, token, closing, server, answer, throttled,
                 stray, unseen, gateFaults, storedVars>>

\* The before-send hook failed: the admission is finished, nothing was sent.
BeforeSendFails(c) ==
  /\ st[c] = "failing"
  /\ FinishAdmission(c)
  /\ UNCHANGED <<pool, shut, token, closing, server, answer, throttled, stray,
                 unseen, gateFaults, storedVars>>

\* mergeObservation: a later window replaces, an earlier one is ignored, and
\* within a window the lower remaining count wins.
MergeObservation(current, observed) ==
  IF observed.current /\ (~current.current \/ observed.remaining < current.remaining)
  THEN observed ELSE current

\* The answer arrives: a secondary limit closes the credential's context, the
\* rate headers are merged, and the sleepers ask again.  The call keeps its
\* slot and its reservation for as long as its body is open.
Observe(a) ==
  LET p == PoolFor(a) IN
  /\ st[a] = "served"
  /\ shut' = [shut EXCEPT ![AuthFor(a)] = @ \/ throttled[a]]
  /\ pool' = [pool EXCEPT ![p] = MergeObservation(@, answer[a])]
  /\ st' = Signal([st EXCEPT ![a] = "body"])
  /\ answer' = [answer EXCEPT ![a] = Expired]
  /\ UNCHANGED <<held, parent, token, closing, server, throttled, stray,
                 unseen, gateFaults, storedVars>>

\* The mutated step: the slot is returned but nobody is woken.
CloseBodySilently(c) ==
  /\ c \in Calls /\ st[c] = "body"
  /\ held' = [held EXCEPT ![c] = "none"]
  /\ st' = [st EXCEPT ![c] = "done"]
  /\ UNCHANGED <<parent, pool, shut, token, closing, server, answer, throttled,
                 stray, unseen, gateFaults, storedVars>>

\* The body reached its end or was closed, at once for an answer without one
\* and for a GraphQL answer, which its observer reads whole.
CloseBody(c) ==
  /\ c \in Calls /\ st[c] = "body"
  /\ FinishAdmission(c)
  /\ UNCHANGED <<pool, shut, token, closing, server, answer, throttled, stray,
                 unseen, gateFaults, storedVars>>

\* renew: the exchange's answer is decoded, the token cached and handed to
\* every waiting call; an error answer fails them.
MintReturns ==
  /\ st[Mint] = "body"
  /\ token' = (token \/ ~throttled[Mint])
  /\ LET next == IF throttled[Mint] THEN "failing" ELSE "authorized"
     IN st' = Signal(MintOutcome([st EXCEPT ![Mint] = "idle"], next))
  /\ held' = [held EXCEPT ![Mint] = "none"]
  /\ parent' = Mint
  /\ UNCHANGED <<pool, shut, closing, server, answer, throttled, stray, unseen,
                 gateFaults, storedVars>>

-----------------------------------------------------------------------------
(* Calls that end early.                                                   *)

\* What an agent leaves behind on the way to GitHub when it stops waiting: a
\* request that may still arrive, or points taken whose count it never reads.
Abandon(a) ==
  LET p == PoolFor(a) IN
  /\ stray' = [stray EXCEPT ![p] = @ + IF st[a] = "sent" THEN 1 ELSE 0]
  /\ unseen' = [unseen EXCEPT ![p] =
                  @ + IF st[a] = "served" /\ answer[a].current
                      THEN 1 ELSE 0]

\* The caller's context ends or its connection breaks.  A caller that waits
\* for a token leaves; the exchange it started goes on without it
\* (context.WithoutCancel).
Cancel(c) ==
  /\ gateFaults < MaxGateFaults
  /\ st[c] \in Asleep \cup {"asking", "admitted", "authorized", "minting",
                            "sent", "served", "body"}
  /\ FinishAdmission(c) /\ Abandon(c)
  /\ gateFaults' = gateFaults + 1
  /\ UNCHANGED <<pool, shut, token, closing, server, answer, throttled,
                 storedVars>>

\* The thirty seconds of the detached exchange are over.
MintTimesOut ==
  /\ st[Mint] # "idle"
  /\ FinishAdmission(Mint) /\ Abandon(Mint)
  /\ UNCHANGED <<pool, shut, token, closing, server, answer, throttled,
                 gateFaults, storedVars>>

\* The cached token comes within refreshBefore of its expiry.
TokenExpires ==
  /\ token /\ gateFaults < MaxGateFaults
  /\ token' = FALSE
  /\ gateFaults' = gateFaults + 1
  /\ UNCHANGED <<st, held, parent, pool, shut, closing, server, answer,
                 throttled, stray, unseen, storedVars>>

\* Close stops admission and waits for the admitted calls to drain; when its
\* deadline passes the stragglers are aborted one by one.
CloseGate ==
  /\ closing = "open" /\ gateFaults < MaxGateFaults
  /\ closing' = "draining"
  /\ st' = Signal(st)
  /\ gateFaults' = gateFaults + 1
  /\ UNCHANGED <<held, parent, pool, shut, token, server, answer, throttled,
                 stray, unseen, storedVars>>

DrainTimesOut ==
  /\ closing = "draining" /\ InFlight > 0
  /\ closing' = "aborting"
  /\ UNCHANGED <<st, held, parent, pool, shut, token, server, answer,
                 throttled, stray, unseen, gateFaults, storedVars>>

Abort(a) ==
  /\ closing = "aborting" /\ held[a] # "none"
  /\ FinishAdmission(a) /\ Abandon(a)
  /\ UNCHANGED <<pool, shut, token, closing, server, answer, throttled,
                 gateFaults, storedVars>>

\* waitIdle: no slot is taken.
GateDrained ==
  /\ closing \in {"draining", "aborting"} /\ InFlight = 0
  /\ closing' = "closed"
  /\ UNCHANGED <<st, held, parent, pool, shut, token, server, answer,
                 throttled, stray, unseen, gateFaults, storedVars>>

-----------------------------------------------------------------------------
(* The stored observations.                                                *)

\* Answers of the running window on their way to the gate.
OnTheWay(p) ==
  {a \in Agents : st[a] = "served" /\ answer[a].current /\ PoolFor(a) = p}

\* maintainLease every SnapshotInterval, and Close at its end: the row holds
\* what the gate has observed, the reservations left out.
SaveSnapshot ==
  /\ saved' = pool
  /\ lag' = [p \in Pools |-> unseen[p] + Cardinality(OnTheWay(p))]
  /\ UNCHANGED <<st, held, parent, pool, shut, token, closing, server, answer,
                 throttled, stray, unseen, gateFaults>>

\* restore: the new gate takes the stored observations for its own, and the
\* backoffs that were persisted.
Restore ==
  /\ pool' = saved
  /\ unseen' = lag
  /\ \E kept \in SUBSET AuthContexts :
       shut' = [x \in AuthContexts |-> shut[x] /\ x \in kept]

\* NewLeased after a close, or after the holder died or lost its lease: its
\* calls are over and a request it had sent may still reach GitHub.
NewLeased ==
  /\ closing = "closed" \/ gateFaults < MaxGateFaults
  /\ gateFaults' = gateFaults + IF closing = "closed" THEN 0 ELSE 1
  /\ Restore
  /\ st' = [a \in Agents |-> IF a = Mint \/ st[a] = "idle" THEN "idle" ELSE "done"]
  /\ held' = [a \in Agents |-> "none"]
  /\ parent' = Mint /\ token' = FALSE /\ closing' = "open"
  /\ answer' = [a \in Agents |-> Expired]
  /\ stray' = [p \in Pools |-> stray[p] +
                 Cardinality({a \in Agents : st[a] = "sent" /\ PoolFor(a) = p})]
  /\ UNCHANGED <<server, throttled, storedVars>>

-----------------------------------------------------------------------------
(* GitHub and time.                                                        *)

\* GitHub counts a request (a 304 is free) and answers with what is left; it
\* may answer with a secondary limit instead.
Serve(a) ==
  LET p == PoolFor(a) IN
  /\ st[a] = "sent"
  /\ \E cost \in 0..1, secondary \in BOOLEAN :
       /\ cost <= server[p]
       /\ secondary => gateFaults < MaxGateFaults
       /\ gateFaults' = gateFaults + IF secondary THEN 1 ELSE 0
       /\ server' = [server EXCEPT ![p] = @ - cost]
       /\ lag' = [lag EXCEPT ![p] = @ + cost]
       /\ answer' = [answer EXCEPT ![a] =
                      [current |-> TRUE, remaining |-> server[p] - cost]]
       /\ throttled' = [throttled EXCEPT ![a] = secondary]
  /\ st' = [st EXCEPT ![a] = "served"]
  /\ UNCHANGED <<held, parent, pool, shut, token, closing, stray, unseen,
                 saved>>

ServeStray(p) ==
  /\ stray[p] > 0
  /\ stray' = [stray EXCEPT ![p] = @ - 1]
  /\ \/ UNCHANGED <<server, unseen, lag>>
     \/ /\ server[p] > 0
        /\ server' = [server EXCEPT ![p] = @ - 1]
        /\ unseen' = [unseen EXCEPT ![p] = @ + 1]
        /\ lag' = [lag EXCEPT ![p] = @ + 1]
  /\ UNCHANGED <<st, held, parent, pool, shut, token, closing, answer,
                 throttled, saved, gateFaults>>

\* The window of a pool ends and the next begins with all its points.
Rollover(p) ==
  /\ server' = [server EXCEPT ![p] = Limit]
  /\ pool' = [pool EXCEPT ![p] = Expired]
  /\ answer' = [a \in Agents |-> IF PoolFor(a) = p THEN Expired ELSE answer[a]]
  /\ unseen' = [unseen EXCEPT ![p] = 0]
  /\ saved' = [saved EXCEPT ![p] = Expired]
  /\ lag' = [lag EXCEPT ![p] = 0]
  /\ UNCHANGED <<st, held, parent, shut, token, closing, throttled, stray,
                 gateFaults>>

BackoffEnds(x) ==
  /\ shut[x]
  /\ shut' = [shut EXCEPT ![x] = FALSE]
  /\ UNCHANGED <<st, held, parent, pool, token, closing, server, answer,
                 throttled, stray, unseen, gateFaults, storedVars>>

-----------------------------------------------------------------------------
TryAdmit(a) ==
  \/ TryAdmitBackoff(a) \/ TryAdmitNoSlot(a) \/ TryAdmitStarved(a)
  \/ AdmitCall(a) \/ Refuse(a)

Step(a) ==
  \/ TryAdmit(a) \/ TimerFires(a) \/ Send(a) \/ Serve(a) \/ Observe(a)
  \/ CloseBody(a) \/ Abort(a)

\* What the goroutine of an agent does by itself.
Goroutine(a) ==
  \/ Step(a)
  \/ a \in Calls /\ (NeedToken(a) \/ BeforeSendFails(a))
  \/ a = Mint /\ MintReturns

GateNext ==
  \/ \E a \in Agents : Goroutine(a)
  \/ \E c \in Calls : Do(c) \/ Cancel(c)
  \/ MintTimesOut \/ TokenExpires \/ CloseGate \/ DrainTimesOut \/ GateDrained
  \/ SaveSnapshot \/ NewLeased
  \/ \E p \in Pools : ServeStray(p) \/ Rollover(p)
  \/ \E x \in AuthContexts : BackoffEnds(x)

GateSpec == GateInit /\ [][GateNext]_gateVars

\* Goroutines run, GitHub answers, callers close their bodies, windows end,
\* backoffs and the exchange's thirty seconds run out.  Nothing obliges a
\* caller to make a call.
GateFairness ==
  /\ \A a \in Agents : WF_gateVars(Goroutine(a))
  /\ WF_gateVars(MintTimesOut)
  /\ \A p \in Pools : WF_gateVars(Rollover(p))
  /\ \A x \in AuthContexts : WF_gateVars(BackoffEnds(x))

FairGateSpec == GateSpec /\ GateFairness

-----------------------------------------------------------------------------
(* Properties.                                                             *)

\* Requests of pool p admitted and not yet counted by GitHub.
Uncounted(p) ==
  Cardinality({a \in Agents : held[a] # "none" /\ PoolFor(a) = p
                 /\ st[a] \in {"admitted", "minting", "authorized", "sent"}})

\* tryAdmit and mergeObservation, C-B2 and C-B3: a call admitted in a window
\* the gate has seen leaves its class's floor untouched in GitHub's own count,
\* everything admitted and not yet counted included, however the answers of
\* overlapping calls were reordered and whoever held the gate before.  Only
\* points the gate has no count of can be missing: those of a lost answer, and
\* after a holder died, those it spent since the observations it last stored.
HeadroomKept ==
  [][\A a \in Agents :
       (AdmitCall(a) /\ pool[PoolFor(a)].current)
         => server[PoolFor(a)] + unseen[PoolFor(a)]
              >= FloorOf[ClassFor(a)] + Uncounted(PoolFor(a))']_gateVars

\* Do always returns: no call sleeps through the change that would admit it,
\* and a call that needs a token is not blocked for ever behind its own slot.
EveryCallReturns == []<>(\A c \in Calls : st[c] \in {"idle", "done"})
=============================================================================
