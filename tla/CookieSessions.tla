--------------------------- MODULE CookieSessions ---------------------------
(***************************************************************************)
(* The cookie-session registry of the transport: a fixed set of slots,     *)
(* each holding at most one session, with a generation that moves forward  *)
(* whenever a session in the slot ends; the leases that running operations *)
(* take on the jar of a session; and the pool of HTTP clients, each built  *)
(* on the jar of one session.                                              *)
(*                                                                         *)
(* The registry lock is held across one suspension point, the wait for     *)
(* the clients lock in drop_session_clients, so that wait is a step of its *)
(* own ("purge..."); leases are released without any lock.  A caller may   *)
(* drop the future of open or close at a suspension point.                 *)
(***************************************************************************)
EXTENDS Naturals, FiniteSets

CONSTANTS
  Tasks,          \* concurrent callers of the engine
  Origins,        \* host, port, address and policy of a pooled client
  Nonces,         \* values the 128-bit session nonce may take
  Capacity,       \* max_cookie_sessions
  MaxPooled,      \* max_pooled_origins
  MaxGeneration,  \* the last value of a slot's generation (u64::MAX)
  MaxSequence     \* bound: numbers drawn from the engine's sequence

ASSUME CapacityAssumption   == Capacity \in Nat
ASSUME PooledAssumption     == MaxPooled \in Nat
ASSUME GenerationAssumption == MaxGeneration \in Nat
ASSUME SequenceAssumption   == MaxSequence \in Nat
ASSUME TasksAssumption      == IsFiniteSet(Tasks)

VARIABLES
  slots,     \* the slots of the registry, those past `grown` not yet pushed
  grown,     \* length of the slot vector
  owner,     \* the tasks inside the registry lock: none or one
  clients,   \* the pooled clients
  leases,    \* the lease counter of each jar
  sequence,  \* the next number of the engine's sequence
  issued,    \* every handle returned to a caller
  orphaned,  \* jars whose clients were left behind by a dropped future
  pc, drawn, dying, holds, asked, target, using   \* per task

registry == <<slots, grown, issued>>
locals   == <<drawn, dying, holds, asked, target, using>>
vars     == <<slots, grown, owner, clients, leases, sequence, issued, orphaned,
              pc, drawn, dying, holds, asked, target, using>>

Slot   == 1..Capacity
Jar    == 1..MaxSequence     \* a jar is named by its incarnation number
NoJar  == 0
Handle == [slot: Slot, generation: 0..MaxGeneration, nonce: Nonces, jar: Jar]
SlotState == [generation: 0..MaxGeneration,
              state: {"free", "open", "closing", "retired"},
              nonce: Nonces, jar: Jar \cup {NoJar}, lastUsed: 0..MaxSequence]
Client == [origin: Origins, cookieJar: Jar, provider: Jar, sequence: Jar]
Locations == {"idle", "open", "scan", "purgeOpen", "purgeClose", "admit",
              "run", "build"}

Init ==
  /\ slots \in [Slot -> {[generation |-> 0, state |-> "free", nonce |-> n,
                          jar |-> NoJar, lastUsed |-> 0] : n \in Nonces}]
  /\ grown = 0 /\ owner = {} /\ clients = {}
  /\ leases = [j \in Jar |-> 0]
  /\ sequence = 1
  /\ issued = {} /\ orphaned = {}
  /\ pc = [t \in Tasks |-> "idle"]
  /\ drawn  = [t \in Tasks |-> 0]
  /\ dying  = [t \in Tasks |-> NoJar]
  /\ holds  = [t \in Tasks |-> NoJar]
  /\ asked  = [t \in Tasks |-> {}]
  /\ target = [t \in Tasks |-> {}]
  /\ using  = [t \in Tasks |-> NoJar]

-----------------------------------------------------------------------------
(* The registry.                                                           *)

Pushed  == 1..grown
Occupied(i) == slots[i].state \in {"open", "closing"}

\* Faulty variant: a handle reaches a session that is closing.
ResolvesOccupied(h) ==
  /\ h.slot \in Pushed
  /\ Occupied(h.slot)
  /\ slots[h.slot].generation = h.generation
  /\ slots[h.slot].nonce = h.nonce

\* SessionRegistry::resolve.  The jar of a handle is no part of what a caller
\* presents: it records, for the properties, which session the handle was
\* issued for.
Resolves(h) ==
  /\ h.slot \in Pushed
  /\ slots[h.slot].state = "open"
  /\ slots[h.slot].generation = h.generation
  /\ slots[h.slot].nonce = h.nonce

IsFree(i)      == slots[i].state = "free"
Reclaimable(i) == slots[i].state = "closing" /\ leases[slots[i].jar] = 0
Evictable(i)   == slots[i].state = "open" /\ leases[slots[i].jar] = 0

FreeSlots        == {i \in Pushed : IsFree(i)}
ReclaimableSlots == {i \in Pushed : Reclaimable(i)}
EvictableSlots   == {i \in Pushed : Evictable(i)}

\* Iterator::position: the first index.
IsFirst(i, S) == i \in S /\ \A j \in S : i <= j
IsOldest(i, S) == i \in S /\ \A j \in S : slots[i].lastUsed <= slots[j].lastUsed

\* Faulty variants: the generation runs past its last value, or wraps to zero.
EndedUnbounded(s) == [s EXCEPT !.state = "free", !.jar = NoJar, !.generation = @ + 1]
EndedWrapping(s) ==
  [s EXCEPT !.state = "free", !.jar = NoJar,
            !.generation = IF @ < MaxGeneration THEN @ + 1 ELSE 0]

\* SessionRegistry::end.
Ended(s) ==
  IF s.generation < MaxGeneration
  THEN [s EXCEPT !.state = "free", !.jar = NoJar, !.generation = @ + 1]
  ELSE [s EXCEPT !.state = "retired", !.jar = NoJar]

EndSlot(i) == slots' = [slots EXCEPT ![i] = Ended(@)]

RegistryIsFree == owner = {}

-----------------------------------------------------------------------------
(* open_cookie_session                                                     *)

\* The incarnation and the last-use number are drawn before the lock.
BeginOpen(t) ==
  /\ pc[t] = "idle"
  /\ sequence + 1 <= MaxSequence
  /\ drawn' = [drawn EXCEPT ![t] = sequence]
  /\ sequence' = sequence + 2
  /\ pc' = [pc EXCEPT ![t] = "open"]
  /\ UNCHANGED <<registry, owner, clients, leases, orphaned, dying, holds,
                 asked, target, using>>

LockForOpen(t) ==
  /\ pc[t] = "open"
  /\ RegistryIsFree
  /\ owner' = {t}
  /\ pc' = [pc EXCEPT ![t] = "scan"]
  /\ UNCHANGED <<registry, clients, leases, sequence, orphaned, locals>>

\* The slot found becomes the new session's and its handle is returned.
Occupy(t, i, n) ==
  /\ slots' = [slots EXCEPT ![i] =
        [@ EXCEPT !.state = "open", !.nonce = n, !.jar = drawn[t],
                  !.lastUsed = drawn[t] + 1]]
  /\ issued' = issued \cup {[slot |-> i, generation |-> slots[i].generation,
                             nonce |-> n, jar |-> drawn[t]]}
  /\ owner' = {}
  /\ drawn' = [drawn EXCEPT ![t] = 0]
  /\ pc' = [pc EXCEPT ![t] = "idle"]
  /\ UNCHANGED <<clients, leases, sequence, orphaned, dying, holds, asked, target,
                 using>>

OpenInFreeSlot(t) ==
  /\ pc[t] = "scan"
  /\ \E i \in FreeSlots, n \in Nonces : IsFirst(i, FreeSlots) /\ Occupy(t, i, n)
  /\ UNCHANGED grown

OpenInNewSlot(t) ==
  /\ pc[t] = "scan"
  /\ FreeSlots = {} /\ ReclaimableSlots = {}
  /\ grown < Capacity
  /\ grown' = grown + 1
  /\ \E n \in Nonces : Occupy(t, grown + 1, n)

\* Ends the session in slot i and goes to wait for the clients lock.
EndAndPurge(t, i) ==
  /\ EndSlot(i)
  /\ dying' = [dying EXCEPT ![t] = slots[i].jar]
  /\ pc' = [pc EXCEPT ![t] = "purgeOpen"]
  /\ UNCHANGED <<grown, owner, clients, leases, sequence, issued, orphaned,
                 drawn, holds, asked, target, using>>

ReclaimClosed(t) ==
  /\ pc[t] = "scan"
  /\ FreeSlots = {}
  /\ \E i \in ReclaimableSlots : IsFirst(i, ReclaimableSlots) /\ EndAndPurge(t, i)

EvictLeastRecent(t) ==
  /\ pc[t] = "scan"
  /\ FreeSlots = {} /\ ReclaimableSlots = {}
  /\ grown = Capacity
  /\ \E i \in EvictableSlots : IsOldest(i, EvictableSlots) /\ EndAndPurge(t, i)

\* Faulty variant: the loop is not left when no slot can be taken.
RetryOpen(t) ==
  /\ pc[t] = "scan"
  /\ FreeSlots = {} /\ ReclaimableSlots = {} /\ EvictableSlots = {}
  /\ grown = Capacity
  /\ UNCHANGED vars

\* Every session is held by a running operation, or every slot is retired.
RefuseOpen(t) ==
  /\ pc[t] = "scan"
  /\ FreeSlots = {} /\ ReclaimableSlots = {} /\ EvictableSlots = {}
  /\ grown = Capacity
  /\ owner' = {}
  /\ drawn' = [drawn EXCEPT ![t] = 0]
  /\ pc' = [pc EXCEPT ![t] = "idle"]
  /\ UNCHANGED <<registry, clients, leases, sequence, orphaned, dying, holds,
                 asked, target, using>>

\* Faulty variant: the clients of the session are left in the pool.
WithJar(pool, j) == pool

\* drop_session_clients, once it has the clients lock.
WithoutJar(pool, j) == {c \in pool : c.cookieJar # j}

PurgeForOpen(t) ==
  /\ pc[t] = "purgeOpen"
  /\ clients' = WithoutJar(clients, dying[t])
  /\ dying' = [dying EXCEPT ![t] = NoJar]
  /\ pc' = [pc EXCEPT ![t] = "scan"]
  /\ UNCHANGED <<registry, owner, leases, sequence, orphaned, drawn, holds,
                 asked, target, using>>

-----------------------------------------------------------------------------
(* close_cookie_session                                                    *)

\* Faulty variant: the leases of the jar are not looked at.
EndSlotAtOnce(i) == EndSlot(i)

\* A session an operation holds is left closing, its slot not yet freed.
CloseSlot(i) ==
  IF leases[slots[i].jar] > 0
  THEN slots' = [slots EXCEPT ![i].state = "closing"]
  ELSE EndSlot(i)

Close(t, h) ==
  /\ pc[t] = "idle"
  /\ RegistryIsFree
  /\ Resolves(h)
  /\ CloseSlot(h.slot)
  /\ owner' = {t}
  /\ dying' = [dying EXCEPT ![t] = slots[h.slot].jar]
  /\ pc' = [pc EXCEPT ![t] = "purgeClose"]
  /\ UNCHANGED <<grown, clients, leases, sequence, issued, orphaned, drawn,
                 holds, asked, target, using>>

PurgeForClose(t) ==
  /\ pc[t] = "purgeClose"
  /\ clients' = WithoutJar(clients, dying[t])
  /\ dying' = [dying EXCEPT ![t] = NoJar]
  /\ owner' = {}
  /\ pc' = [pc EXCEPT ![t] = "idle"]
  /\ UNCHANGED <<registry, leases, sequence, orphaned, drawn, holds, asked,
                 target, using>>

\* The caller drops the future while it waits for a lock.
Abandon(t) ==
  /\ pc[t] \in {"open", "purgeOpen", "purgeClose", "admit"}
  /\ orphaned' = orphaned \cup ({dying[t]} \ {NoJar})
  /\ dying' = [dying EXCEPT ![t] = NoJar]
  /\ asked' = [asked EXCEPT ![t] = {}]
  /\ owner' = owner \ {t}
  /\ drawn' = [drawn EXCEPT ![t] = 0]
  /\ pc' = [pc EXCEPT ![t] = "idle"]
  /\ UNCHANGED <<registry, clients, leases, sequence, holds, target, using>>

-----------------------------------------------------------------------------
(* An operation that names a session: execute, download.                   *)

\* cookie_jar draws the last-use number before it takes the lock.
BeginOperation(t, h) ==
  /\ pc[t] = "idle"
  /\ sequence <= MaxSequence
  /\ drawn' = [drawn EXCEPT ![t] = sequence]
  /\ sequence' = sequence + 1
  /\ asked' = [asked EXCEPT ![t] = {h}]
  /\ pc' = [pc EXCEPT ![t] = "admit"]
  /\ UNCHANGED <<registry, owner, clients, leases, orphaned, dying, holds,
                 target, using>>

\* The lease is taken inside the lock that found the session.
LeaseJar(t, i) ==
  /\ slots' = [slots EXCEPT ![i].lastUsed = drawn[t]]
  /\ leases' = [leases EXCEPT ![slots[i].jar] = @ + 1]
  /\ holds' = [holds EXCEPT ![t] = slots[i].jar]

AdmitCookieJar(t) ==
  /\ pc[t] = "admit"
  /\ RegistryIsFree
  /\ \E h \in asked[t] : Resolves(h) /\ LeaseJar(t, h.slot)
  /\ drawn' = [drawn EXCEPT ![t] = 0]
  /\ pc' = [pc EXCEPT ![t] = "run"]
  /\ UNCHANGED <<grown, owner, clients, sequence, issued, orphaned,
                 dying, asked, target, using>>

RefuseHandle(t) ==
  /\ pc[t] = "admit"
  /\ RegistryIsFree
  /\ \A h \in asked[t] : ~Resolves(h)
  /\ asked' = [asked EXCEPT ![t] = {}]
  /\ drawn' = [drawn EXCEPT ![t] = 0]
  /\ pc' = [pc EXCEPT ![t] = "idle"]
  /\ UNCHANGED <<registry, owner, clients, leases, sequence, orphaned,
                 dying, holds, target, using>>

\* Faulty variant: all sessions share one pool key.
AnyJar(t) == 1

\* client_for: the key carries the incarnation of the jar admitted with the
\* operation, never a fresh resolution of the handle.
PoolKey(t) == holds[t]
Matches(c, t, o) == c.origin = o /\ c.cookieJar = PoolKey(t)

ReuseClient(t, o) ==
  /\ pc[t] = "run"
  /\ \E c \in clients :
       /\ Matches(c, t, o)
       /\ using' = [using EXCEPT ![t] = c.provider]
  /\ UNCHANGED <<registry, owner, clients, leases, sequence, orphaned, pc,
                 drawn, dying, holds, asked, target>>

\* A miss releases the clients lock: the client is built outside of it.
MissClient(t, o) ==
  /\ pc[t] = "run"
  /\ \A c \in clients : ~Matches(c, t, o)
  /\ target' = [target EXCEPT ![t] = {o}]
  /\ pc' = [pc EXCEPT ![t] = "build"]
  /\ UNCHANGED <<registry, owner, clients, leases, sequence, orphaned, drawn,
                 dying, holds, asked, using>>

\* The oldest client makes room, even when the key is already present.
Oldest(pool) == {c \in pool : \A d \in pool : c.sequence <= d.sequence}
Room(pool)   == IF Cardinality(pool) >= MaxPooled THEN pool \ Oldest(pool) ELSE pool
SameKey(c, d) == c.origin = d.origin /\ c.cookieJar = d.cookieJar
Pooled(pool, c) ==
  IF MaxPooled = 0 THEN pool
                   ELSE {d \in Room(pool) : ~SameKey(c, d)} \cup {c}

InsertClient(t) ==
  /\ pc[t] = "build"
  /\ sequence <= MaxSequence
  /\ \E o \in target[t] :
       clients' = Pooled(clients, [origin |-> o, cookieJar |-> PoolKey(t),
                                   provider |-> holds[t], sequence |-> sequence])
  /\ sequence' = IF MaxPooled = 0 THEN sequence ELSE sequence + 1
  /\ using' = [using EXCEPT ![t] = holds[t]]
  /\ target' = [target EXCEPT ![t] = {}]
  /\ pc' = [pc EXCEPT ![t] = "run"]
  /\ UNCHANGED <<registry, owner, leases, orphaned, drawn, dying, holds, asked>>

\* The operation ends, fails, is cancelled or times out: JarLease::drop.
Release(t) ==
  /\ pc[t] \in {"run", "build"}
  /\ leases' = [leases EXCEPT ![holds[t]] = @ - 1]
  /\ holds' = [holds EXCEPT ![t] = NoJar]
  /\ asked' = [asked EXCEPT ![t] = {}]
  /\ target' = [target EXCEPT ![t] = {}]
  /\ using' = [using EXCEPT ![t] = NoJar]
  /\ pc' = [pc EXCEPT ![t] = "idle"]
  /\ UNCHANGED <<registry, owner, clients, sequence, orphaned, drawn, dying>>

\* An engine with no call in flight may stay as it is.
Quiet == (\A t \in Tasks : pc[t] = "idle") /\ UNCHANGED vars

-----------------------------------------------------------------------------

OpenStep(t) ==
  \/ OpenInFreeSlot(t) \/ OpenInNewSlot(t) \/ ReclaimClosed(t)
  \/ EvictLeastRecent(t) \/ RefuseOpen(t) \/ PurgeForOpen(t)

Next ==
  \/ \E t \in Tasks :
       \/ BeginOpen(t) \/ LockForOpen(t)
       \/ OpenInFreeSlot(t) \/ OpenInNewSlot(t) \/ ReclaimClosed(t)
       \/ EvictLeastRecent(t) \/ RefuseOpen(t) \/ PurgeForOpen(t)
       \/ PurgeForClose(t) \/ Abandon(t)
       \/ AdmitCookieJar(t) \/ RefuseHandle(t)
       \/ InsertClient(t) \/ Release(t)
       \/ \E h \in issued : Close(t, h) \/ BeginOperation(t, h)
       \/ \E o \in Origins : ReuseClient(t, o) \/ MissClient(t, o)
  \/ Quiet

Spec == Init /\ [][Next]_vars

(* A task that runs is scheduled: its steps between two suspension points  *)
(* happen, and the lock it waits for is handed over in FIFO order (tokio's *)
(* Mutex is fair).  Nothing forces a caller to start or to drop a call.    *)
Fairness ==
  \A t \in Tasks : /\ SF_vars(LockForOpen(t))
                   /\ WF_vars(OpenStep(t))
                   /\ WF_vars(PurgeForClose(t))
                   /\ SF_vars(AdmitCookieJar(t) \/ RefuseHandle(t))
-----------------------------------------------------------------------------
(* Properties.                                                             *)

\* Every variable keeps its shape; the registry lock has at most one owner.
TypeOK ==
  /\ slots \in [Slot -> SlotState]
  /\ grown \in 0..Capacity
  /\ owner \in SUBSET Tasks
  /\ clients \subseteq Client
  /\ leases \in [Jar -> Nat]
  /\ sequence \in 1..(MaxSequence + 1)
  /\ issued \subseteq Handle
  /\ orphaned \subseteq Jar
  /\ pc \in [Tasks -> Locations]
  /\ drawn \in [Tasks -> 0..MaxSequence]
  /\ dying \in [Tasks -> Jar \cup {NoJar}]
  /\ holds \in [Tasks -> Jar \cup {NoJar}]
  /\ asked \in [Tasks -> SUBSET Handle]
  /\ target \in [Tasks -> SUBSET Origins]
  /\ using \in [Tasks -> Jar \cup {NoJar}]

\* A handle that still resolves reaches the session it was issued for, however
\* often its slot has been closed, evicted, reclaimed and reused since
\* (transport.rs, SessionSlot: no handle outlives its session).
HandleNamesOneSession ==
  \A h \in issued : Resolves(h) => slots[h.slot].jar = h.jar

\* A session an operation holds keeps its slot until the operation lets go of
\* it, whatever is opened, closed or evicted meanwhile (close_cookie_session:
\* a closed session is never handed to a new one while still in use).
HeldJarKeepsItsSlot ==
  \A t \in Tasks : holds[t] # NoJar =>
    \E i \in Pushed : Occupied(i) /\ slots[i].jar = holds[t]

\* An admitted operation works on the session its handle was issued for, and
\* the HTTP client it sends with was built on that session's jar, although
\* clients outlive the operations that built them (ClientKey.cookie_jar).
OperationUsesItsOwnSession ==
  \A t \in Tasks : pc[t] \in {"run", "build"} =>
    \E h \in asked[t] : holds[t] = h.jar /\ using[t] \in {NoJar, h.jar}

\* A pooled client belongs to a session that still has its slot, or is about
\* to be dropped with it, or was left behind by a future dropped in the middle
\* of open or close (drop_session_clients): nothing else keeps the cookies of
\* an ended session alive.
NoForgottenClient ==
  \A c \in clients :
    \/ \E i \in Pushed : Occupied(i) /\ slots[i].jar = c.cookieJar
    \/ \E t \in Tasks : dying[t] = c.cookieJar
    \/ c.cookieJar \in orphaned

\* The loop of open_cookie_session ends, even while leases are released and
\* clients are pooled around it, and a request waiting for the registry is
\* admitted or refused: nobody keeps the registry lock for ever.
CallsReturn ==
  \A t \in Tasks :
    /\ pc[t] \in {"open", "scan", "purgeOpen", "purgeClose"} ~> pc[t] = "idle"
    /\ pc[t] = "admit" ~> pc[t] # "admit"

\* Sessions as callers see them.
LiveJars  == {slots[i].jar : i \in {j \in Pushed : slots[j].state = "open"}}
IssuedJars == {h.jar : h \in issued}

Service == INSTANCE SessionService WITH
  Sessions <- Jar, Users <- Tasks, Limit <- Capacity, Nobody <- NoJar,
  live <- LiveJars, ended <- IssuedJars \ LiveJars, inside <- holds

\* The registry implements the service: sessions end once and for all, only a
\* live one is entered, and at most Capacity of them are live or in use.
ImplementsService == Service!SSpec
=============================================================================
