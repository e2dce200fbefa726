---------------------------- MODULE OfflineQueue ----------------------------
(***************************************************************************)
(* One browser tab's queue of mutations made while offline                 *)
(* (offline-queue.ts), the connectivity probe that decides when the server *)
(* is back (connectivity-probe.ts) and the replay that then sends the      *)
(* queue (offline-manager.ts).                                             *)
(*                                                                         *)
(* queueMutation is exported and has no caller yet: Enqueue is the use the *)
(* module is written for, and until then the queue is what localStorage    *)
(* holds.  localStorage is taken to have room.  The queue is appended to,  *)
(* filtered and mapped: the set of its mutations tells their order, which  *)
(* is that of their ids.                                                   *)
(***************************************************************************)
EXTENDS Naturals

CONSTANTS
    Endpoints,      \* what a mutation is sent to
    MaxMutations,   \* bound: mutations queued in a behaviour
    MaxReloads      \* bound: reloads and shutdowns in a behaviour

ASSUME OfflineAssumption == MaxMutations \in Nat /\ MaxReloads \in Nat

MAX_RETRIES == 3
FAILURES_BEFORE_OFFLINE == 2

VARIABLES
    queued,     \* the queue in memory
    stored,     \* the queue in localStorage
    probing,    \* probeInterval is set
    connectivity, consecutiveFailures,
    replay,     \* the replay under way (isReplaying), or NoReplay
    created,    \* mutations ever queued
    acked,      \* those the server answered ok
    reported,   \* those a toast reported as failed
    cleared,    \* those the user cleared
    reloads

queueVars    == <<queued, stored>>
probeVars    == <<probing, connectivity, consecutiveFailures>>
outcomeVars  == <<acked, reported, cleared>>
offlineVars  == <<queueVars, probeVars, replay, created, outcomeVars, reloads>>

\* ids are numbers that grow as mutations are queued, as createdAt does.
Mutations == [id : 1..MaxMutations, endpoint : Endpoints, retryCount : 0..MAX_RETRIES]
Ids(q) == {m.id : m \in q}

\* batch: the queue as the replay read it; todo: the mutations it has still to
\* send, one of them in flight; failed: those that failed; aborted: its signal.
NoReplay == [batch |-> {}, todo |-> {}, failed |-> {}, aborted |-> FALSE]
Sending == replay.todo /= {}

OfflineInit ==
    /\ queued = {} /\ stored = {}
    /\ probing = FALSE /\ connectivity = "online" /\ consecutiveFailures = 0
    /\ replay = NoReplay
    /\ created = 0 /\ acked = {} /\ reported = {} /\ cleared = {}
    /\ reloads = 0

-----------------------------------------------------------------------------
(* offline-queue.ts                                                        *)

\* Every change of the queue is persisted.
Persist(q) == queued' = q /\ stored' = q

Without(q, ids) == {m \in q : m.id \notin ids}
WithRetry(q, id) ==
    {m \in q : m.id /= id} \cup {[m EXCEPT !.retryCount = @ + 1] : m \in {n \in q : n.id = id}}

Enqueue(endpoint) ==
    /\ created < MaxMutations
    /\ created' = created + 1
    /\ Persist(queued \cup {[id |-> created + 1, endpoint |-> endpoint, retryCount |-> 0]})
    /\ UNCHANGED <<probeVars, replay, outcomeVars, reloads>>

ClearPending ==
    /\ queued /= {}
    /\ Persist({})
    /\ cleared' = cleared \cup Ids(queued)
    /\ UNCHANGED <<probeVars, replay, created, acked, reported, reloads>>

-----------------------------------------------------------------------------
(* The replay.                                                             *)

\* The latest mutation of each endpoint.  The older ones are skipped and stay in
\* the queue.
Latest(q) == {m \in q : \A o \in q : o.endpoint = m.endpoint => o.id <= m.id}

\* The endpoints are taken in the order in which they first occur in the batch.
Before(q, m, o) ==
    \E a \in q : /\ a.endpoint = m.endpoint
                 /\ \A b \in q : b.endpoint = o.endpoint => a.id < b.id
InFlight(m) == m \in replay.todo /\ \A o \in replay.todo \ {m} : Before(replay.batch, m, o)

\* Out of retries: counted as failed without being sent.
Spent(m) == m.retryCount >= MAX_RETRIES

FailedAtOnce(r) == Ids({m \in r.todo : Spent(m)})
Unspent(r) == {m \in r.todo : ~Spent(m)}

\* Mutant: the clean-up clears the queue instead of removing what was sent.
Finish_ClearsQueue(r, q) ==
    /\ Persist({})
    /\ reported' = reported \cup r.failed
    /\ replay' = NoReplay

\* Every mutation of the batch has been sent: the failures are reported, and
\* what was sent leaves the queue, the failures too.
Finish(r, q) ==
    /\ Persist(Without(q, Ids(Latest(r.batch))))
    /\ reported' = reported \cup r.failed
    /\ replay' = NoReplay

\* r goes on, with the queue at q: the next fetch starts in the same turn.
GoOn(r, q) ==
    IF r.todo = {}
    THEN Finish(r, q)
    ELSE Persist(q) /\ replay' = r /\ UNCHANGED reported

\* replayOfflineQueue, called when the status becomes online.
Replay ==
    IF Sending \/ queued = {}
    THEN UNCHANGED <<queueVars, reported, replay>>
    ELSE LET r == [NoReplay EXCEPT !.batch = queued, !.todo = Latest(queued)]
         IN  GoOn([r EXCEPT !.todo = Unspent(r), !.failed = FailedAtOnce(r)], queued)

\* Mutant: an accepted mutation stays in the queue until the clean-up.
Succeeds_Kept(m) ==
    /\ InFlight(m) /\ ~replay.aborted
    /\ acked' = acked \cup {m.id}
    /\ GoOn([replay EXCEPT !.todo = @ \ {m}], queued)
    /\ UNCHANGED <<probeVars, created, cleared, reloads>>

\* The answer to the fetch is ok.
Succeeds(m) ==
    /\ InFlight(m) /\ ~replay.aborted
    /\ acked' = acked \cup {m.id}
    /\ GoOn([replay EXCEPT !.todo = @ \ {m}], Without(queued, {m.id}))
    /\ UNCHANGED <<probeVars, created, cleared, reloads>>

\* It is an error, or the fetch failed or was aborted.
Fails(m) ==
    /\ InFlight(m)
    /\ GoOn([replay EXCEPT !.todo = @ \ {m}, !.failed = @ \cup {m.id}], WithRetry(queued, m.id))
    /\ UNCHANGED <<probeVars, created, acked, cleared, reloads>>

-----------------------------------------------------------------------------
(* connectivity-probe.ts.  Its window listeners outlive a shutdown, and so *)
(* does the manager's subscription.                                        *)

EmitOnline == connectivity' = "online" /\ Replay
EmitOffline == connectivity' = "offline" /\ UNCHANGED <<queueVars, reported, replay>>

\* A health check answers; one that was under way at a shutdown still does.
Healthy ==
    /\ consecutiveFailures' = 0
    /\ IF connectivity /= "online"
       THEN EmitOnline
       ELSE UNCHANGED <<connectivity, queueVars, reported, replay>>
    /\ UNCHANGED <<probing, created, acked, cleared, reloads>>

\* A third failure in a row changes nothing more.
Unhealthy ==
    /\ consecutiveFailures < FAILURES_BEFORE_OFFLINE
    /\ consecutiveFailures' = consecutiveFailures + 1
    /\ IF consecutiveFailures' >= FAILURES_BEFORE_OFFLINE /\ connectivity /= "offline"
       THEN EmitOffline
       ELSE UNCHANGED <<connectivity, queueVars, reported, replay>>
    /\ UNCHANGED <<probing, created, acked, cleared, reloads>>

BrowserOnline ==
    /\ consecutiveFailures' = 0
    /\ EmitOnline
    /\ UNCHANGED <<probing, created, acked, cleared, reloads>>

BrowserOffline ==
    /\ EmitOffline
    /\ UNCHANGED <<probing, consecutiveFailures, created, acked, cleared, reloads>>

-----------------------------------------------------------------------------
(* The application's providers mount, unmount, and the tab reloads.        *)

Initialize ==
    /\ ~probing
    /\ queued' = stored
    /\ probing' = TRUE
    /\ UNCHANGED <<stored, connectivity, consecutiveFailures, replay, created, outcomeVars, reloads>>

Shutdown ==
    /\ probing /\ reloads < MaxReloads
    /\ reloads' = reloads + 1
    /\ probing' = FALSE /\ consecutiveFailures' = 0
    /\ replay' = IF Sending THEN [replay EXCEPT !.aborted = TRUE] ELSE replay
    /\ UNCHANGED <<queueVars, connectivity, created, outcomeVars>>

\* Only localStorage survives.
ReloadTab ==
    /\ reloads < MaxReloads
    /\ reloads' = reloads + 1
    /\ queued' = {} /\ probing' = FALSE
    /\ connectivity' = "online" /\ consecutiveFailures' = 0
    /\ replay' = NoReplay
    /\ UNCHANGED <<stored, created, outcomeVars>>

\* The rest needs a page whose providers have mounted at least once.
Mounted == probing \/ queued = stored

OfflineNext ==
    \/ Initialize
    \/ ReloadTab
    \/ /\ Mounted
       /\ \/ \E e \in Endpoints : Enqueue(e)
          \/ ClearPending
          \/ \E m \in replay.todo : Succeeds(m) \/ Fails(m)
          \/ Healthy \/ Unhealthy
          \/ BrowserOnline \/ BrowserOffline
          \/ Shutdown

OfflineSpec == OfflineInit /\ [][OfflineNext]_offlineVars

-----------------------------------------------------------------------------
(* Properties                                                              *)

OfflineTypeOK ==
    /\ queued \subseteq Mutations /\ stored \subseteq Mutations
    /\ probing \in BOOLEAN
    /\ connectivity \in {"online", "offline"}
    /\ consecutiveFailures \in 0..FAILURES_BEFORE_OFFLINE
    /\ replay \in [batch : SUBSET Mutations, todo : SUBSET Mutations,
                   failed : SUBSET (1..created), aborted : BOOLEAN]
    /\ created \in 0..MaxMutations /\ reloads \in 0..MaxReloads
    /\ acked \cup reported \cup cleared \subseteq 1..created

\* A mutation leaves the queue only when the server accepted it, a toast said
\* that it failed or the user cleared it: a mutation queued while a replay
\* runs, one that the replay skips and one whose tab is closed are all kept
\* (the clean-up of replayOfflineQueue, and loadOfflineQueue).
NothingLostInSilence ==
    1..created \subseteq Ids(stored) \cup acked \cup reported \cup cleared

\* A mutation the tab has seen accepted is never in the queue again, not even
\* after a reload in the middle of the replay, so it is never sent again
\* (removeMutationFromQueue in replayMutation).
AcceptedIsGone == acked \cap (Ids(stored) \cup Ids(replay.todo)) = {}

=============================================================================
