------------------------ MODULE CookieSessionsProofs ------------------------
(***************************************************************************)
(* Theorems about CookieSessions, for every value of its constants.        *)
(*                                                                         *)
(* The invariants of CookieSessions are not inductive by themselves.  That *)
(* a session in use keeps its slot rests on the lease counters being exact *)
(* (LeasesCountHolders): a slot is only taken when its counter is zero.    *)
(* That a handle names one session rests on where the handles of a slot    *)
(* stand relative to its generation (Traced).  Inv adds these parts.       *)
(***************************************************************************)
EXTENDS CookieSessions, FiniteSetTheorems, TLAPS

Holders(j) == {t \in Tasks : holds[t] = j}

\* The lease counter of a jar is the number of operations that hold it.
LeasesCountHolders == \A j \in Jar : leases[j] = Cardinality(Holders(j))

\* Where a task is tells what it carries.
TaskState(t) ==
  /\ pc[t] \in {"run", "build"} <=> holds[t] # NoJar
  /\ using[t] # NoJar => pc[t] \in {"run", "build"}
  /\ pc[t] \in {"open", "scan", "purgeOpen"} =>
       drawn[t] \in Jar /\ drawn[t] + 1 <= MaxSequence
  /\ dying[t] # NoJar => pc[t] \in {"purgeOpen", "purgeClose"}
  /\ asked[t] \subseteq issued

\* The generation of a slot has passed a handle whose session has ended, unless
\* the slot is retired.
Traced(h) ==
  /\ h.slot \in Pushed
  /\ \/ h.generation < slots[h.slot].generation
     \/ /\ h.generation = slots[h.slot].generation
        /\ \/ Occupied(h.slot) /\ slots[h.slot].jar = h.jar
           \/ slots[h.slot].state = "retired"

OccupiedSlotsHaveJars == \A i \in Slot : Occupied(i) => slots[i].jar \in Jar
HandlesAreTraced      == \A h \in issued : Traced(h)
ClientsUseTheirJar    == \A c \in clients : c.provider = c.cookieJar

\* The inductive invariant.
Inv ==
  /\ TypeOK
  /\ LeasesCountHolders
  /\ \A t \in Tasks : TaskState(t)
  /\ OccupiedSlotsHaveJars
  /\ HandlesAreTraced
  /\ ClientsUseTheirJar
  /\ HeldJarKeepsItsSlot
  /\ OperationUsesItsOwnSession
  /\ NoForgottenClient
-----------------------------------------------------------------------------

USE DEF Jar, NoJar, Slot

\* The assumptions on the constants, in the form the steps cite them.
LEMMA Bounds == /\ Capacity \in Nat /\ MaxGeneration \in Nat /\ MaxSequence \in Nat
BY CapacityAssumption, GenerationAssumption, SequenceAssumption

\* What a step leaves alone keeps the parts of the invariant about it.
LEMMA Frame ==
  ASSUME Inv
  PROVE  /\ UNCHANGED <<leases, holds>> => LeasesCountHolders'
         /\ UNCHANGED registry => OccupiedSlotsHaveJars' /\ HandlesAreTraced'
         /\ UNCHANGED clients => ClientsUseTheirJar'
         /\ UNCHANGED <<registry, holds>> => HeldJarKeepsItsSlot'
         /\ UNCHANGED <<registry, clients, dying, orphaned>> => NoForgottenClient'
<1>1. UNCHANGED <<leases, holds>> => LeasesCountHolders'
  BY DEF Inv, LeasesCountHolders, Holders
<1>2. UNCHANGED registry => OccupiedSlotsHaveJars' /\ HandlesAreTraced'
  BY DEF Inv, registry, OccupiedSlotsHaveJars, HandlesAreTraced, Traced, Pushed, Occupied
<1>3. UNCHANGED clients => ClientsUseTheirJar'
  BY DEF Inv, ClientsUseTheirJar
<1>4. UNCHANGED <<registry, holds>> => HeldJarKeepsItsSlot'
  BY DEF Inv, registry, HeldJarKeepsItsSlot, Pushed, Occupied
<1>5. UNCHANGED <<registry, clients, dying, orphaned>> => NoForgottenClient'
  BY DEF Inv, registry, NoForgottenClient, Pushed, Occupied
<1> QED BY <1>1, <1>2, <1>3, <1>4, <1>5

\* The tasks are finite, so the operations on a jar can be counted (JarLease).
LEMMA FiniteHolders == \A j : IsFiniteSet(Holders(j))
BY TasksAssumption, FS_Subset DEF Holders

\* A jar that an operation holds has a positive lease count.
LEMMA HeldJarIsLeased ==
  ASSUME TypeOK, LeasesCountHolders, NEW t \in Tasks, holds[t] \in Jar
  PROVE  leases[holds[t]] \in Nat /\ leases[holds[t]] > 0
<1>1. t \in Holders(holds[t])
  BY DEF Holders
<1>2. Cardinality(Holders(holds[t])) \in Nat /\ Cardinality(Holders(holds[t])) # 0
  BY <1>1, FiniteHolders, FS_EmptySet, FS_CardinalityType
<1> QED BY <1>2 DEF LeasesCountHolders

\* Each step keeps the invariant.  open_cookie_session draws its numbers:
\* the incarnation drawn is above every one in use.
LEMMA BeginOpenStep ==
  ASSUME Inv, NEW t \in Tasks, BeginOpen(t)
  PROVE  Inv'
<1>1. TypeOK'
  BY SMTT(30), Bounds DEF Inv, TaskState, TypeOK, Locations, registry, locals, BeginOpen, Client, Handle
<1>2. LeasesCountHolders'
  BY Frame DEF BeginOpen, locals
<1>3. (\A u \in Tasks : TaskState(u))'
  BY Bounds DEF Inv, TypeOK, TaskState, BeginOpen, registry, locals, Locations, Client
<1>4. OccupiedSlotsHaveJars' /\ HandlesAreTraced'
  BY Frame DEF BeginOpen
<1>5. ClientsUseTheirJar'
  BY Frame DEF BeginOpen
<1>6. HeldJarKeepsItsSlot'
  BY Frame DEF BeginOpen, locals
<1>7. OperationUsesItsOwnSession'
  BY DEF Inv, TypeOK, TaskState, OperationUsesItsOwnSession, BeginOpen, locals, registry, ClientsUseTheirJar
<1>8. NoForgottenClient'
  BY Frame DEF BeginOpen, locals
<1> QED BY <1>1, <1>2, <1>3, <1>4, <1>5, <1>6, <1>7, <1>8 DEF Inv

\* open_cookie_session takes the registry lock.
LEMMA LockForOpenStep ==
  ASSUME Inv, NEW t \in Tasks, LockForOpen(t)
  PROVE  Inv'
<1>1. TypeOK'
  BY Bounds DEF Inv, TaskState, TypeOK, Locations, registry, locals, LockForOpen, Client, Handle
<1>2. LeasesCountHolders'
  BY Frame DEF LockForOpen, locals
<1>3. (\A u \in Tasks : TaskState(u))'
  BY Bounds DEF Inv, TypeOK, TaskState, LockForOpen, registry, locals, Locations, Client
<1>4. OccupiedSlotsHaveJars' /\ HandlesAreTraced'
  BY Frame DEF LockForOpen
<1>5. ClientsUseTheirJar'
  BY Frame DEF LockForOpen
<1>6. HeldJarKeepsItsSlot'
  BY Frame DEF LockForOpen, locals
<1>7. OperationUsesItsOwnSession'
  BY DEF Inv, TypeOK, TaskState, OperationUsesItsOwnSession, LockForOpen, locals, registry, ClientsUseTheirJar
<1>8. NoForgottenClient'
  BY Frame DEF LockForOpen, locals
<1> QED BY <1>1, <1>2, <1>3, <1>4, <1>5, <1>6, <1>7, <1>8 DEF Inv

\* open_cookie_session gives up (COOKIE_SESSION_LIMIT).
LEMMA RefuseOpenStep ==
  ASSUME Inv, NEW t \in Tasks, RefuseOpen(t)
  PROVE  Inv'
<1>1. TypeOK'
  BY Bounds DEF Inv, TaskState, TypeOK, Locations, registry, locals, RefuseOpen, Client, Handle
<1>2. LeasesCountHolders'
  BY Frame DEF RefuseOpen, locals
<1>3. (\A u \in Tasks : TaskState(u))'
  BY Bounds DEF Inv, TypeOK, TaskState, RefuseOpen, registry, locals, Locations, Client
<1>4. OccupiedSlotsHaveJars' /\ HandlesAreTraced'
  BY Frame DEF RefuseOpen
<1>5. ClientsUseTheirJar'
  BY Frame DEF RefuseOpen
<1>6. HeldJarKeepsItsSlot'
  BY Frame DEF RefuseOpen, locals
<1>7. OperationUsesItsOwnSession'
  BY DEF Inv, TypeOK, TaskState, OperationUsesItsOwnSession, RefuseOpen, locals, registry, ClientsUseTheirJar
<1>8. NoForgottenClient'
  BY Frame DEF RefuseOpen, locals
<1> QED BY <1>1, <1>2, <1>3, <1>4, <1>5, <1>6, <1>7, <1>8 DEF Inv

\* drop_session_clients ends inside open_cookie_session: no client of the
\* dying jar is left.
LEMMA PurgeForOpenStep ==
  ASSUME Inv, NEW t \in Tasks, PurgeForOpen(t)
  PROVE  Inv'
<1>1. TypeOK'
  BY Bounds DEF Inv, TaskState, TypeOK, Locations, registry, locals, PurgeForOpen, WithoutJar, Client, Handle
<1>2. LeasesCountHolders'
  BY Frame DEF PurgeForOpen, locals
<1>3. (\A u \in Tasks : TaskState(u))'
  BY Bounds DEF Inv, TypeOK, TaskState, PurgeForOpen, registry, locals, Locations, WithoutJar, Client
<1>4. OccupiedSlotsHaveJars' /\ HandlesAreTraced'
  BY Frame DEF PurgeForOpen
<1>5. ClientsUseTheirJar'
  BY DEF Inv, ClientsUseTheirJar, PurgeForOpen, WithoutJar
<1>6. HeldJarKeepsItsSlot'
  BY Frame DEF PurgeForOpen, locals
<1>7. OperationUsesItsOwnSession'
  BY DEF Inv, TypeOK, TaskState, OperationUsesItsOwnSession, PurgeForOpen, locals, registry, WithoutJar, ClientsUseTheirJar
<1>8. NoForgottenClient'
  <2>1. \A u \in Tasks : u # t => dying'[u] = dying[u]
    BY DEF PurgeForOpen, Inv, TypeOK
  <2>2. \A c \in clients' : c \in clients /\ c.cookieJar # dying[t]
    BY DEF PurgeForOpen, WithoutJar
  <2>3. UNCHANGED <<slots, grown, orphaned>>
    BY DEF PurgeForOpen, registry
  <2> QED BY <2>1, <2>2, <2>3 DEF Inv, NoForgottenClient, Pushed, Occupied
<1> QED BY <1>1, <1>2, <1>3, <1>4, <1>5, <1>6, <1>7, <1>8 DEF Inv

\* drop_session_clients ends inside close_cookie_session.
LEMMA PurgeForCloseStep ==
  ASSUME Inv, NEW t \in Tasks, PurgeForClose(t)
  PROVE  Inv'
<1>1. TypeOK'
  BY Bounds DEF Inv, TaskState, TypeOK, Locations, registry, locals, PurgeForClose, WithoutJar, Client, Handle
<1>2. LeasesCountHolders'
  BY Frame DEF PurgeForClose, locals
<1>3. (\A u \in Tasks : TaskState(u))'
  BY Bounds DEF Inv, TypeOK, TaskState, PurgeForClose, registry, locals, Locations, WithoutJar, Client
<1>4. OccupiedSlotsHaveJars' /\ HandlesAreTraced'
  BY Frame DEF PurgeForClose
<1>5. ClientsUseTheirJar'
  BY DEF Inv, ClientsUseTheirJar, PurgeForClose, WithoutJar
<1>6. HeldJarKeepsItsSlot'
  BY Frame DEF PurgeForClose, locals
<1>7. OperationUsesItsOwnSession'
  BY DEF Inv, TypeOK, TaskState, OperationUsesItsOwnSession, PurgeForClose, locals, registry, WithoutJar, ClientsUseTheirJar
<1>8. NoForgottenClient'
  <2>1. \A u \in Tasks : u # t => dying'[u] = dying[u]
    BY DEF PurgeForClose, Inv, TypeOK
  <2>2. \A c \in clients' : c \in clients /\ c.cookieJar # dying[t]
    BY DEF PurgeForClose, WithoutJar
  <2>3. UNCHANGED <<slots, grown, orphaned>>
    BY DEF PurgeForClose, registry
  <2> QED BY <2>1, <2>2, <2>3 DEF Inv, NoForgottenClient, Pushed, Occupied
<1> QED BY <1>1, <1>2, <1>3, <1>4, <1>5, <1>6, <1>7, <1>8 DEF Inv

\* A dropped future leaves the clients of its dying jar orphaned, and the lock
\* free.
LEMMA AbandonStep ==
  ASSUME Inv, NEW t \in Tasks, Abandon(t)
  PROVE  Inv'
<1>1. TypeOK'
  <2>1. drawn' \in [Tasks -> 0..MaxSequence]
    BY Bounds DEF Inv, TypeOK, Abandon
  <2> QED BY <2>1 DEF Inv, TaskState, TypeOK, Locations, registry, Abandon, Client, Handle
<1>2. LeasesCountHolders'
  BY Frame DEF Abandon, locals
<1>3. (\A u \in Tasks : TaskState(u))'
  BY Bounds DEF Inv, TypeOK, TaskState, Abandon, registry, locals, Locations, Client
<1>4. OccupiedSlotsHaveJars' /\ HandlesAreTraced'
  BY Frame DEF Abandon
<1>5. ClientsUseTheirJar'
  BY Frame DEF Abandon
<1>6. HeldJarKeepsItsSlot'
  BY Frame DEF Abandon, locals
<1>7. OperationUsesItsOwnSession'
  BY DEF Inv, TypeOK, TaskState, OperationUsesItsOwnSession, Abandon, locals, registry, ClientsUseTheirJar
<1>8. NoForgottenClient'
  <2>1. \A u \in Tasks : u # t => dying'[u] = dying[u]
    BY DEF Abandon, Inv, TypeOK
  <2>2. \A j \in Jar : dying[t] = j \/ j \in orphaned => j \in orphaned'
    BY DEF Abandon
  <2>3. UNCHANGED <<slots, grown, clients>>
    BY DEF Abandon, registry
  <2>4. \A c \in clients : c.cookieJar \in Jar
    BY DEF Inv, TypeOK, Client
  <2> QED BY <2>1, <2>2, <2>3, <2>4 DEF Inv, NoForgottenClient, Pushed, Occupied
<1> QED BY <1>1, <1>2, <1>3, <1>4, <1>5, <1>6, <1>7, <1>8 DEF Inv

\* An operation that names a session draws its last-use number.
LEMMA BeginOperationStep ==
  ASSUME Inv, NEW t \in Tasks, NEW h \in issued, BeginOperation(t, h)
  PROVE  Inv'
<1>1. TypeOK'
  <2>1. asked' \in [Tasks -> SUBSET Handle]
    BY DEF Inv, TypeOK, BeginOperation
  <2>2. drawn' \in [Tasks -> 0..MaxSequence] /\ sequence' \in 1..(MaxSequence + 1)
    BY Bounds DEF Inv, TypeOK, BeginOperation
  <2> QED BY <2>1, <2>2 DEF Inv, TypeOK, BeginOperation, registry, Locations
<1>2. LeasesCountHolders'
  BY Frame DEF BeginOperation, locals
<1>3. (\A u \in Tasks : TaskState(u))'
  BY Bounds DEF Inv, TypeOK, TaskState, BeginOperation, registry, locals, Locations, Client
<1>4. OccupiedSlotsHaveJars' /\ HandlesAreTraced'
  BY Frame DEF BeginOperation
<1>5. ClientsUseTheirJar'
  BY Frame DEF BeginOperation
<1>6. HeldJarKeepsItsSlot'
  BY Frame DEF BeginOperation, locals
<1>7. OperationUsesItsOwnSession'
  BY DEF Inv, TypeOK, TaskState, OperationUsesItsOwnSession, BeginOperation, locals, registry, ClientsUseTheirJar
<1>8. NoForgottenClient'
  BY Frame DEF BeginOperation, locals
<1> QED BY <1>1, <1>2, <1>3, <1>4, <1>5, <1>6, <1>7, <1>8 DEF Inv

\* admit_cookie_jar refuses a handle that does not resolve.
LEMMA RefuseHandleStep ==
  ASSUME Inv, NEW t \in Tasks, RefuseHandle(t)
  PROVE  Inv'
<1>1. TypeOK'
  BY Bounds DEF Inv, TaskState, TypeOK, Locations, registry, locals, RefuseHandle, Client, Handle
<1>2. LeasesCountHolders'
  BY Frame DEF RefuseHandle, locals
<1>3. (\A u \in Tasks : TaskState(u))'
  BY Bounds DEF Inv, TypeOK, TaskState, RefuseHandle, registry, locals, Locations, Client
<1>4. OccupiedSlotsHaveJars' /\ HandlesAreTraced'
  BY Frame DEF RefuseHandle
<1>5. ClientsUseTheirJar'
  BY Frame DEF RefuseHandle
<1>6. HeldJarKeepsItsSlot'
  BY Frame DEF RefuseHandle, locals
<1>7. OperationUsesItsOwnSession'
  BY DEF Inv, TypeOK, TaskState, OperationUsesItsOwnSession, RefuseHandle, locals, registry, ClientsUseTheirJar
<1>8. NoForgottenClient'
  BY Frame DEF RefuseHandle, locals
<1> QED BY <1>1, <1>2, <1>3, <1>4, <1>5, <1>6, <1>7, <1>8 DEF Inv

\* client_for finds a pooled client: it was built on the jar of its key.
LEMMA ReuseClientStep ==
  ASSUME Inv, NEW t \in Tasks, NEW o \in Origins, ReuseClient(t, o)
  PROVE  Inv'
<1>1. TypeOK'
  BY Bounds DEF Inv, TaskState, TypeOK, Locations, registry, locals, ReuseClient, Matches, PoolKey, Client, Handle
<1>2. LeasesCountHolders'
  BY Frame DEF ReuseClient, locals
<1>3. (\A u \in Tasks : TaskState(u))'
  BY Bounds DEF Inv, TypeOK, TaskState, ReuseClient, registry, locals, Locations, Matches, PoolKey, Client
<1>4. OccupiedSlotsHaveJars' /\ HandlesAreTraced'
  BY Frame DEF ReuseClient
<1>5. ClientsUseTheirJar'
  BY Frame DEF ReuseClient
<1>6. HeldJarKeepsItsSlot'
  BY Frame DEF ReuseClient, locals
<1>7. OperationUsesItsOwnSession'
  BY DEF Inv, TypeOK, TaskState, OperationUsesItsOwnSession, ReuseClient, locals, registry, Matches, PoolKey, ClientsUseTheirJar
<1>8. NoForgottenClient'
  BY Frame DEF ReuseClient, locals
<1> QED BY <1>1, <1>2, <1>3, <1>4, <1>5, <1>6, <1>7, <1>8 DEF Inv

\* client_for finds no client and goes to build one.
LEMMA MissClientStep ==
  ASSUME Inv, NEW t \in Tasks, NEW o \in Origins, MissClient(t, o)
  PROVE  Inv'
<1>1. TypeOK'
  BY Bounds DEF Inv, TaskState, TypeOK, Locations, registry, locals, MissClient, Client, Handle
<1>2. LeasesCountHolders'
  BY Frame DEF MissClient, locals
<1>3. (\A u \in Tasks : TaskState(u))'
  BY Bounds DEF Inv, TypeOK, TaskState, MissClient, registry, locals, Locations, Client
<1>4. OccupiedSlotsHaveJars' /\ HandlesAreTraced'
  BY Frame DEF MissClient
<1>5. ClientsUseTheirJar'
  BY Frame DEF MissClient
<1>6. HeldJarKeepsItsSlot'
  BY Frame DEF MissClient, locals
<1>7. OperationUsesItsOwnSession'
  BY DEF Inv, TypeOK, TaskState, OperationUsesItsOwnSession, MissClient, locals, registry, ClientsUseTheirJar
<1>8. NoForgottenClient'
  BY Frame DEF MissClient, locals
<1> QED BY <1>1, <1>2, <1>3, <1>4, <1>5, <1>6, <1>7, <1>8 DEF Inv

\* client_for pools the client it built: its jar is held, hence not ended.
LEMMA InsertClientStep ==
  ASSUME Inv, NEW t \in Tasks, InsertClient(t)
  PROVE  Inv'
<1>1. TypeOK'
  <2>1. PICK o \in target[t] :
          clients' = Pooled(clients, [origin |-> o, cookieJar |-> PoolKey(t),
                                      provider |-> holds[t], sequence |-> sequence])
    BY DEF InsertClient
  <2>2. holds[t] \in Jar /\ sequence \in Jar /\ o \in Origins
    BY <2>1, Bounds DEF Inv, TypeOK, TaskState, InsertClient
  <2>3. [origin |-> o, cookieJar |-> PoolKey(t),
         provider |-> holds[t], sequence |-> sequence] \in Client
    BY <2>2 DEF Client, PoolKey
  <2>4. clients' \subseteq Client
    BY <2>1, <2>3 DEF Inv, TypeOK, Pooled, Room
  <2>5. sequence' \in 1..(MaxSequence + 1)
    BY Bounds DEF Inv, TypeOK, InsertClient
  <2> QED BY <2>2, <2>4, <2>5 DEF Inv, TypeOK, InsertClient, registry, Locations
<1>2. LeasesCountHolders'
  BY Frame DEF InsertClient, locals
<1>3. (\A u \in Tasks : TaskState(u))'
  BY Bounds DEF Inv, TypeOK, TaskState, InsertClient, registry, locals, Locations, Pooled, Room, Oldest, SameKey, PoolKey, Client
<1>4. OccupiedSlotsHaveJars' /\ HandlesAreTraced'
  BY Frame DEF InsertClient
<1>5. ClientsUseTheirJar'
  BY DEF Inv, ClientsUseTheirJar, InsertClient, Pooled, Room, Oldest, SameKey, PoolKey
<1>6. HeldJarKeepsItsSlot'
  BY Frame DEF InsertClient, locals
<1>7. OperationUsesItsOwnSession'
  BY DEF Inv, TypeOK, TaskState, OperationUsesItsOwnSession, InsertClient, locals, registry, Pooled, Room, Oldest, SameKey, PoolKey, ClientsUseTheirJar
<1>8. NoForgottenClient'
  <2>1. \A c \in clients' : c \in clients \/ c.cookieJar = holds[t]
    BY DEF InsertClient, Pooled, Room, PoolKey
  <2>2. \E i \in Pushed : Occupied(i) /\ slots[i].jar = holds[t]
    BY DEF InsertClient, Inv, TaskState, HeldJarKeepsItsSlot
  <2> QED BY <2>1, <2>2 DEF Inv, NoForgottenClient, InsertClient, registry, Pushed, Occupied
<1> QED BY <1>1, <1>2, <1>3, <1>4, <1>5, <1>6, <1>7, <1>8 DEF Inv

\* JarLease::drop: the count of the jar falls with the set of its holders.
LEMMA ReleaseStep ==
  ASSUME Inv, NEW t \in Tasks, Release(t)
  PROVE  Inv'
<1>1. TypeOK'
  <2>1. holds[t] \in Jar
    BY DEF Inv, TypeOK, TaskState, Release
  <2>2. leases[holds[t]] - 1 \in Nat
    BY <2>1, HeldJarIsLeased DEF Inv
  <2> QED BY <2>2 DEF Inv, TypeOK, Release, registry, Locations
<1>2. LeasesCountHolders'
  <2>1. holds[t] \in Jar
    BY DEF Inv, TypeOK, TaskState, Release
  <2>2. holds' = [holds EXCEPT ![t] = NoJar] /\ leases' = [leases EXCEPT ![holds[t]] = @ - 1]
    BY DEF Release
  <2> SUFFICES ASSUME NEW j \in Jar
               PROVE  leases'[j] = Cardinality(Holders(j)')
    BY DEF LeasesCountHolders
  <2>3. CASE j = holds[t]
    <3>1. Holders(j)' = Holders(j) \ {t} /\ t \in Holders(j)
      BY <2>1, <2>2, <2>3 DEF Holders, Inv, TypeOK
    <3>2. Cardinality(Holders(j) \ {t}) = Cardinality(Holders(j)) - 1
      BY <3>1, FiniteHolders, FS_RemoveElement
    <3>3. leases'[j] = leases[j] - 1
      BY <2>2, <2>3 DEF Inv, TypeOK
    <3> QED BY <3>1, <3>2, <3>3 DEF Inv, LeasesCountHolders
  <2>4. CASE j # holds[t]
    <3>1. Holders(j)' = Holders(j)
      BY <2>1, <2>2, <2>4 DEF Holders, Inv, TypeOK
    <3> QED BY <2>2, <2>4, <3>1 DEF Inv, TypeOK, LeasesCountHolders
  <2> QED BY <2>3, <2>4
<1>3. (\A u \in Tasks : TaskState(u))'
  BY Bounds DEF Inv, TypeOK, TaskState, Release, registry, locals, Locations, Client
<1>4. OccupiedSlotsHaveJars' /\ HandlesAreTraced'
  BY Frame DEF Release
<1>5. ClientsUseTheirJar'
  BY Frame DEF Release
<1>6. HeldJarKeepsItsSlot'
  BY Bounds DEF Inv, TypeOK, Release, registry, HeldJarKeepsItsSlot, Occupied, Pushed
<1>7. OperationUsesItsOwnSession'
  BY DEF Inv, TypeOK, TaskState, OperationUsesItsOwnSession, Release, locals, registry, ClientsUseTheirJar
<1>8. NoForgottenClient'
  BY Frame DEF Release, locals
<1> QED BY <1>1, <1>2, <1>3, <1>4, <1>5, <1>6, <1>7, <1>8 DEF Inv

-----------------------------------------------------------------------------
(* The steps that change slots.                                            *)

OnlySlot(i) == \A k \in Slot : k # i => slots'[k] = slots[k]

\* A slot whose session ends moves its generation forward, or is retired.
LEMMA EndedSlot ==
  ASSUME NEW s \in SlotState
  PROVE  /\ Ended(s) \in SlotState
         /\ Ended(s).jar = NoJar
         /\ \/ Ended(s).state = "free" /\ Ended(s).generation = s.generation + 1
            \/ Ended(s).state = "retired" /\ Ended(s).generation = s.generation
<1>1. CASE s.generation < MaxGeneration
  <2>1. Ended(s) = [s EXCEPT !.state = "free", !.jar = NoJar, !.generation = @ + 1]
    BY <1>1 DEF Ended
  <2>2. s.generation + 1 \in 0..MaxGeneration
    BY <1>1, Bounds DEF SlotState
  <2> QED BY <2>1, <2>2 DEF SlotState
<1>2. CASE ~(s.generation < MaxGeneration)
  <2>1. Ended(s) = [s EXCEPT !.state = "retired", !.jar = NoJar]
    BY <1>2 DEF Ended
  <2> QED BY <2>1 DEF SlotState
<1> QED BY <1>1, <1>2

\* What EndSlot does to the slots, in terms of EndedSlot.
LEMMA EndSlotEffect ==
  ASSUME TypeOK, NEW i \in Slot, EndSlot(i)
  PROVE  /\ slots' \in [Slot -> SlotState]
         /\ OnlySlot(i)
         /\ slots'[i] = Ended(slots[i])
BY EndedSlot DEF TypeOK, EndSlot, OnlySlot

\* Ending the session of a slot that no operation holds takes nothing from
\* anybody and outdates its handles.
LEMMA EndSlotKeeps ==
  ASSUME Inv, NEW i \in Slot, EndSlot(i), Occupied(i), leases[slots[i].jar] = 0,
         UNCHANGED <<grown, issued, holds>>
  PROVE  /\ OccupiedSlotsHaveJars'
         /\ HandlesAreTraced'
         /\ HeldJarKeepsItsSlot'
<1>1. /\ slots' \in [Slot -> SlotState]
      /\ OnlySlot(i)
      /\ slots'[i].jar = NoJar
      /\ \/ slots'[i].state = "free" /\ slots'[i].generation = slots[i].generation + 1
         \/ slots'[i].state = "retired" /\ slots'[i].generation = slots[i].generation
  <2>1. slots[i] \in SlotState
    BY DEF Inv, TypeOK
  <2> QED BY <2>1, EndSlotEffect, EndedSlot DEF Inv
<1>2. Pushed \subseteq Slot
  BY Bounds DEF Inv, TypeOK, Pushed
<1>3. OccupiedSlotsHaveJars'
  BY <1>1 DEF Inv, OccupiedSlotsHaveJars, Occupied, OnlySlot
<1>4. HandlesAreTraced'
  <2> SUFFICES ASSUME NEW h \in issued
               PROVE  Traced(h)'
    BY DEF HandlesAreTraced
  <2>0. Traced(h)
    BY DEF Inv, HandlesAreTraced
  <2>1. Traced(h) /\ h.slot \in Slot /\ h.generation \in Nat
    BY <2>0, Bounds DEF Inv, TypeOK, Handle
  <2>2. CASE h.slot = i
    <3>1. slots[i].generation \in Nat
      BY Bounds DEF Inv, TypeOK, SlotState
    <3> QED BY <1>1, <2>1, <2>2, <3>1 DEF Traced, Pushed, Occupied
  <2>3. CASE h.slot # i
    BY <1>1, <2>1, <2>3 DEF Traced, Pushed, Occupied, OnlySlot
  <2> QED BY <2>2, <2>3
<1>5. HeldJarKeepsItsSlot'
  <2> SUFFICES ASSUME NEW t \in Tasks, holds[t] # NoJar
               PROVE  \E k \in Pushed : slots'[k].state \in {"open", "closing"}
                                        /\ slots'[k].jar = holds[t]
    BY DEF HeldJarKeepsItsSlot, Occupied, Pushed
  <2>1. PICK k \in Pushed : Occupied(k) /\ slots[k].jar = holds[t]
    BY DEF Inv, HeldJarKeepsItsSlot
  <2>2. leases[holds[t]] > 0
    BY HeldJarIsLeased DEF Inv, TypeOK
  <2>3. k # i
    BY <2>1, <2>2
  <2> QED BY <1>1, <1>2, <2>1, <2>3 DEF Occupied, OnlySlot
<1> QED BY <1>3, <1>4, <1>5

\* The clients of the ended session are about to be dropped.
LEMMA EndSlotKeepsClients ==
  ASSUME Inv, NEW i \in Slot, EndSlot(i), NEW t \in Tasks, dying[t] = NoJar,
         dying' = [dying EXCEPT ![t] = slots[i].jar],
         UNCHANGED <<grown, clients, orphaned>>
  PROVE  NoForgottenClient'
<1>1. OnlySlot(i)
  BY EndSlotEffect DEF Inv
<1>2. Pushed \subseteq Slot
  BY Bounds DEF Inv, TypeOK, Pushed
<1>3. dying'[t] = slots[i].jar /\ \A u \in Tasks : u # t => dying'[u] = dying[u]
  BY DEF Inv, TypeOK
<1>4. \A c \in clients : c.cookieJar # NoJar
  BY Bounds DEF Inv, TypeOK, Client
<1> SUFFICES ASSUME NEW c \in clients
             PROVE  \/ \E k \in Pushed : slots'[k].state \in {"open", "closing"}
                                         /\ slots'[k].jar = c.cookieJar
                    \/ \E u \in Tasks : dying'[u] = c.cookieJar
                    \/ c.cookieJar \in orphaned
  BY DEF NoForgottenClient, Occupied, Pushed
<1>5. CASE \E k \in Pushed : Occupied(k) /\ slots[k].jar = c.cookieJar
  BY <1>1, <1>2, <1>3, <1>5 DEF Occupied, OnlySlot
<1>6. CASE \E u \in Tasks : dying[u] = c.cookieJar
  BY <1>3, <1>4, <1>6
<1>7. CASE c.cookieJar \in orphaned
  BY <1>7
<1> QED BY <1>5, <1>6, <1>7 DEF Inv, NoForgottenClient

\* A session is ended to make room, by open_cookie_session.
LEMMA EndAndPurgeStep ==
  ASSUME Inv, NEW t \in Tasks, pc[t] = "scan", NEW i \in Slot, EndAndPurge(t, i),
         Occupied(i), leases[slots[i].jar] = 0
  PROVE  Inv'
<1>1. TypeOK'
  <2>1. slots' \in [Slot -> SlotState]
    BY EndSlotEffect DEF Inv, EndAndPurge
  <2>2. dying' \in [Tasks -> Jar \cup {NoJar}]
    BY DEF Inv, TypeOK, EndAndPurge, SlotState
  <2> QED BY <2>1, <2>2 DEF Inv, TypeOK, EndAndPurge, Locations
<1>2. LeasesCountHolders' /\ ClientsUseTheirJar'
  BY Frame DEF EndAndPurge
<1>3. (\A u \in Tasks : TaskState(u))'
  BY DEF Inv, TypeOK, TaskState, EndAndPurge, Locations
<1>4. OccupiedSlotsHaveJars' /\ HandlesAreTraced' /\ HeldJarKeepsItsSlot'
  BY EndSlotKeeps DEF EndAndPurge
<1>5. OperationUsesItsOwnSession'
  BY DEF Inv, TypeOK, TaskState, OperationUsesItsOwnSession, EndAndPurge
<1>6. NoForgottenClient'
  <2>1. dying[t] = NoJar
    BY DEF Inv, TaskState
  <2> QED BY <2>1, EndSlotKeepsClients DEF EndAndPurge
<1> QED BY <1>1, <1>2, <1>3, <1>4, <1>5, <1>6 DEF Inv

\* The slot reclaimed by open_cookie_session is closing and not leased.
LEMMA ReclaimClosedStep ==
  ASSUME Inv, NEW t \in Tasks, ReclaimClosed(t)
  PROVE  Inv'
<1>1. PICK i \in ReclaimableSlots : EndAndPurge(t, i)
  BY DEF ReclaimClosed
<1>2. i \in Slot /\ Occupied(i) /\ leases[slots[i].jar] = 0
  BY Bounds DEF Inv, TypeOK, ReclaimableSlots, Reclaimable, Occupied, Pushed
<1> QED BY <1>1, <1>2, EndAndPurgeStep DEF ReclaimClosed

\* The slot evicted by open_cookie_session is open and not leased.
LEMMA EvictLeastRecentStep ==
  ASSUME Inv, NEW t \in Tasks, EvictLeastRecent(t)
  PROVE  Inv'
<1>1. PICK i \in EvictableSlots : EndAndPurge(t, i)
  BY DEF EvictLeastRecent
<1>2. i \in Slot /\ Occupied(i) /\ leases[slots[i].jar] = 0
  BY Bounds DEF Inv, TypeOK, EvictableSlots, Evictable, Occupied, Pushed
<1> QED BY <1>1, <1>2, EndAndPurgeStep DEF EvictLeastRecent

\* close_cookie_session, whether or not the session is in use.
LEMMA CloseStep ==
  ASSUME Inv, NEW t \in Tasks, NEW h \in issued, Close(t, h)
  PROVE  Inv'
<1> DEFINE i == h.slot
<1>1. i \in Slot /\ slots[i].state = "open" /\ slots[i].jar \in Jar /\ dying[t] = NoJar
  <2>1. i \in Slot
    BY DEF Inv, TypeOK, Handle
  <2>2. slots[i].state = "open"
    BY DEF Close, Resolves
  <2>3. dying[t] = NoJar
    BY DEF Inv, TaskState, Close
  <2> QED BY <2>1, <2>2, <2>3 DEF Inv, OccupiedSlotsHaveJars, Occupied
<1>2. LeasesCountHolders' /\ ClientsUseTheirJar'
  BY Frame DEF Close
<1>3. (\A u \in Tasks : TaskState(u))'
  BY <1>1 DEF Inv, TypeOK, TaskState, Close, Locations
<1>4. OperationUsesItsOwnSession'
  BY DEF Inv, TypeOK, TaskState, OperationUsesItsOwnSession, Close
<1>5. dying' \in [Tasks -> Jar \cup {NoJar}]
  BY <1>1 DEF Inv, TypeOK, Close
<1>6. CASE leases[slots[i].jar] > 0
  <2>1. slots' = [slots EXCEPT ![i] = [slots[i] EXCEPT !.state = "closing"]]
    BY <1>6 DEF Close, CloseSlot
  <2>2. slots[i] \in SlotState
    BY <1>1 DEF Inv, TypeOK
  <2>3. [slots[i] EXCEPT !.state = "closing"] \in SlotState
    BY <2>2 DEF SlotState
  <2>4. /\ slots' \in [Slot -> SlotState]
        /\ OnlySlot(i)
        /\ slots'[i].state = "closing"
        /\ slots'[i].jar = slots[i].jar
        /\ slots'[i].generation = slots[i].generation
    BY <1>1, <2>1, <2>2, <2>3 DEF Inv, TypeOK, OnlySlot, SlotState
  <2>5. TypeOK'
    BY <1>5, <2>4 DEF Inv, TypeOK, Close, Locations
  <2>6. Pushed \subseteq Slot /\ UNCHANGED <<grown, issued, holds, clients, orphaned>>
    BY Bounds DEF Inv, TypeOK, Pushed, Close
  <2>7. \A k \in Slot : /\ Occupied(k)' <=> Occupied(k)
                        /\ slots'[k].jar = slots[k].jar
                        /\ slots'[k].generation = slots[k].generation
                        /\ slots'[k].state = "retired" <=> slots[k].state = "retired"
    BY <1>1, <2>4 DEF OnlySlot, Occupied
  <2>8. OccupiedSlotsHaveJars' /\ HeldJarKeepsItsSlot'
    BY <2>6, <2>7 DEF Inv, OccupiedSlotsHaveJars, HeldJarKeepsItsSlot, Pushed
  <2>9. HandlesAreTraced'
    BY <2>6, <2>7 DEF Inv, HandlesAreTraced, Traced, Pushed
  <2>10. NoForgottenClient'
    <3>1. \A u \in Tasks : dying[u] # NoJar => dying'[u] = dying[u]
      BY <1>1 DEF Inv, TypeOK, Close
    <3>2. \A c \in clients : c.cookieJar # NoJar
      BY Bounds DEF Inv, TypeOK, Client
    <3> QED BY <2>6, <2>7, <3>1, <3>2 DEF Inv, NoForgottenClient, Pushed
  <2> QED BY <1>2, <1>3, <1>4, <2>5, <2>8, <2>9, <2>10 DEF Inv
<1>7. CASE ~(leases[slots[i].jar] > 0)
  <2>1. leases[slots[i].jar] = 0 /\ EndSlot(i)
    BY <1>1, <1>7 DEF Inv, TypeOK, Close, CloseSlot
  <2>2. TypeOK'
    BY <1>1, <1>5, <2>1, EndSlotEffect DEF Inv, TypeOK, Close, Locations
  <2>3. OccupiedSlotsHaveJars' /\ HandlesAreTraced' /\ HeldJarKeepsItsSlot'
    BY <1>1, <2>1, EndSlotKeeps DEF Close, Occupied
  <2>4. NoForgottenClient'
    BY <1>1, <2>1, EndSlotKeepsClients DEF Close
  <2> QED BY <1>2, <1>3, <1>4, <2>2, <2>3, <2>4 DEF Inv
<1> QED BY <1>6, <1>7

\* A free slot takes a session whose incarnation number is new.
LEMMA OccupyStep ==
  ASSUME Inv, NEW t \in Tasks, pc[t] = "scan", NEW i \in Slot, NEW n \in Nonces,
         Occupy(t, i, n),
         \/ i \in FreeSlots /\ UNCHANGED grown
         \/ grown < Capacity /\ grown' = grown + 1 /\ i = grown + 1
  PROVE  Inv'
<1> DEFINE s == [slots[i] EXCEPT !.state = "open", !.nonce = n, !.jar = drawn[t],
                                 !.lastUsed = drawn[t] + 1]
           h == [slot |-> i, generation |-> slots[i].generation, nonce |-> n,
                 jar |-> drawn[t]]
<1>1. drawn[t] \in Jar /\ drawn[t] + 1 \in 0..MaxSequence
  BY Bounds DEF Inv, TaskState
<1>2. slots[i] \in SlotState
  BY DEF Inv, TypeOK
<1>3. /\ s \in SlotState
      /\ s.generation = slots[i].generation /\ s.state = "open" /\ s.jar = drawn[t]
  BY <1>1, <1>2 DEF SlotState
<1>4. slots' = [slots EXCEPT ![i] = s] /\ issued' = issued \cup {h}
  BY DEF Occupy
<1>5. slots' \in [Slot -> SlotState] /\ OnlySlot(i) /\ slots'[i] = s
  BY <1>3, <1>4 DEF Inv, TypeOK, OnlySlot
<1>6. /\ grown' \in 0..Capacity /\ Pushed \subseteq Pushed' /\ i \in Pushed'
      /\ Pushed' \subseteq Slot
      /\ i \in Pushed => ~Occupied(i) /\ slots[i].state # "retired"
  BY Bounds DEF Inv, TypeOK, Pushed, FreeSlots, IsFree, Occupied
<1>7. /\ UNCHANGED <<clients, leases, sequence, orphaned, dying, holds, asked, target, using>>
      /\ owner' = {} /\ pc' = [pc EXCEPT ![t] = "idle"] /\ drawn' = [drawn EXCEPT ![t] = 0]
  BY DEF Occupy
<1>8. TypeOK'
  <2>1. h \in Handle
    BY <1>1, <1>2 DEF Handle, SlotState
  <2>2. drawn' \in [Tasks -> 0..MaxSequence]
    BY <1>7, Bounds DEF Inv, TypeOK
  <2> QED BY <1>4, <1>5, <1>6, <1>7, <2>1, <2>2 DEF Inv, TypeOK, Locations
<1>9. LeasesCountHolders' /\ ClientsUseTheirJar'
  BY <1>7, Frame
<1>10. (\A u \in Tasks : TaskState(u))'
  BY <1>4, <1>7 DEF Inv, TypeOK, TaskState
<1>11. OccupiedSlotsHaveJars'
  BY <1>1, <1>3, <1>5 DEF Inv, OccupiedSlotsHaveJars, Occupied, OnlySlot
<1>12. HandlesAreTraced'
  <2> SUFFICES ASSUME NEW g \in issued'
               PROVE  Traced(g)'
    BY DEF HandlesAreTraced
  <2>1. CASE g = h
    <3>1. g.slot = i /\ g.generation = slots[i].generation /\ g.jar = drawn[t]
      BY <2>1
    <3> QED BY <1>3, <1>5, <1>6, <3>1 DEF Traced, Occupied
  <2>2. CASE g \in issued
    <3>1. Traced(g)
      BY <2>2 DEF Inv, HandlesAreTraced
    <3>2. CASE g.slot = i
      BY <1>3, <1>5, <1>6, <3>1, <3>2 DEF Traced
    <3>3. CASE g.slot # i
      <4>1. g.slot \in Slot
        BY <2>2 DEF Inv, TypeOK, Handle
      <4> QED BY <1>5, <1>6, <3>1, <3>3, <4>1 DEF Traced, OnlySlot, Occupied
    <3> QED BY <3>2, <3>3
  <2> QED BY <1>4, <2>1, <2>2
<1>13. \A k \in Pushed : Occupied(k) => k \in Pushed' /\ Occupied(k)' /\ slots'[k].jar = slots[k].jar
  BY <1>5, <1>6 DEF Occupied, OnlySlot
<1>14. HeldJarKeepsItsSlot'
  BY <1>7, <1>13 DEF Inv, HeldJarKeepsItsSlot
<1>15. OperationUsesItsOwnSession'
  BY <1>7 DEF Inv, TypeOK, OperationUsesItsOwnSession
<1>16. NoForgottenClient'
  BY <1>7, <1>13 DEF Inv, NoForgottenClient
<1> QED BY <1>8, <1>9, <1>10, <1>11, <1>12, <1>14, <1>15, <1>16 DEF Inv

\* open_cookie_session in a slot that was used before.
LEMMA OpenInFreeSlotStep ==
  ASSUME Inv, NEW t \in Tasks, OpenInFreeSlot(t), UNCHANGED grown
  PROVE  Inv'
<1>1. PICK i \in FreeSlots, n \in Nonces : Occupy(t, i, n)
  BY DEF OpenInFreeSlot
<1>2. i \in Slot
  BY Bounds DEF Inv, TypeOK, FreeSlots, Pushed
<1> QED BY <1>1, <1>2, OccupyStep DEF OpenInFreeSlot

\* open_cookie_session in a slot pushed for it.
LEMMA OpenInNewSlotStep ==
  ASSUME Inv, NEW t \in Tasks, OpenInNewSlot(t)
  PROVE  Inv'
<1>1. PICK n \in Nonces : Occupy(t, grown + 1, n)
  BY DEF OpenInNewSlot
<1>2. grown + 1 \in Slot
  BY Bounds DEF Inv, TypeOK, OpenInNewSlot
<1> QED BY <1>1, <1>2, OccupyStep DEF OpenInNewSlot

\* admit_cookie_jar: the handle resolves to the jar it was issued for, and the
\* count of that jar rises with the set of its holders.
LEMMA AdmitCookieJarStep ==
  ASSUME Inv, NEW t \in Tasks, AdmitCookieJar(t)
  PROVE  Inv'
<1>1. PICK h \in asked[t] : Resolves(h) /\ LeaseJar(t, h.slot)
  BY DEF AdmitCookieJar
<1> DEFINE i == h.slot
           s == [slots[i] EXCEPT !.lastUsed = drawn[t]]
<1>2. h \in issued /\ h \in Handle /\ i \in Slot /\ i \in Pushed
  <2>1. h \in issued
    BY DEF Inv, TaskState
  <2> QED BY <1>1, <2>1 DEF Inv, TypeOK, Handle, Resolves
<1>3. slots[i] \in SlotState /\ drawn[t] \in 0..MaxSequence
  BY <1>2 DEF Inv, TypeOK
<1>4. /\ s \in SlotState
      /\ s.generation = slots[i].generation /\ s.state = slots[i].state
      /\ s.jar = slots[i].jar
  BY <1>3 DEF SlotState
<1>5. slots' = [slots EXCEPT ![i] = s]
  BY <1>1 DEF LeaseJar
<1>6. /\ slots' \in [Slot -> SlotState]
      /\ \A k \in Slot : /\ slots'[k].generation = slots[k].generation
                         /\ slots'[k].state = slots[k].state
                         /\ slots'[k].jar = slots[k].jar
  BY <1>2, <1>4, <1>5 DEF Inv, TypeOK
<1>7. /\ UNCHANGED <<grown, owner, clients, sequence, issued, orphaned, dying, asked,
                     target, using>>
      /\ pc' = [pc EXCEPT ![t] = "run"] /\ pc[t] = "admit"
      /\ drawn' = [drawn EXCEPT ![t] = 0]
  BY DEF AdmitCookieJar
<1>8. Pushed' = Pushed /\ Pushed \subseteq Slot
  BY <1>7, Bounds DEF Inv, TypeOK, Pushed
<1>9. Occupied(i) /\ slots[i].jar = h.jar /\ h.jar \in Jar
  <2>1. slots[i].generation = h.generation /\ slots[i].state = "open"
    BY <1>1 DEF Resolves
  <2>2. Traced(h)
    BY <1>2 DEF Inv, HandlesAreTraced
  <2>3. h.jar \in Jar /\ h.generation \in Nat
    BY <1>2, Bounds DEF Handle
  <2> QED BY <2>1, <2>2, <2>3 DEF Traced, Occupied
<1>10. holds' = [holds EXCEPT ![t] = h.jar] /\ leases' = [leases EXCEPT ![h.jar] = @ + 1]
  BY <1>1, <1>9 DEF LeaseJar
<1>11. holds[t] = NoJar /\ using[t] = NoJar
  BY <1>7 DEF Inv, TaskState
<1>12. TypeOK'
  <2>1. drawn' \in [Tasks -> 0..MaxSequence]
    BY <1>7, Bounds DEF Inv, TypeOK
  <2> QED BY SMTT(30), <1>6, <1>7, <1>9, <1>10, <2>1 DEF Inv, TypeOK, Locations
<1>13. LeasesCountHolders'
  <2> SUFFICES ASSUME NEW j \in Jar
               PROVE  leases'[j] = Cardinality(Holders(j)')
    BY DEF LeasesCountHolders
  <2>1. CASE j = h.jar
    <3>1. Holders(j)' = Holders(j) \cup {t} /\ t \notin Holders(j)
      BY <1>9, <1>10, <1>11, <2>1 DEF Holders, Inv, TypeOK
    <3>2. Cardinality(Holders(j) \cup {t}) = Cardinality(Holders(j)) + 1
      BY <3>1, FiniteHolders, FS_AddElement
    <3>3. leases'[j] = leases[j] + 1
      BY <1>10, <2>1 DEF Inv, TypeOK
    <3> QED BY <3>1, <3>2, <3>3 DEF Inv, LeasesCountHolders
  <2>2. CASE j # h.jar
    <3>1. Holders(j)' = Holders(j)
      BY <1>10, <1>11, <2>2 DEF Holders, Inv, TypeOK
    <3> QED BY <1>10, <2>2, <3>1 DEF Inv, TypeOK, LeasesCountHolders
  <2> QED BY <2>1, <2>2
<1>14. (\A u \in Tasks : TaskState(u))'
  BY <1>7, <1>9, <1>10 DEF Inv, TypeOK, TaskState
<1>15. OccupiedSlotsHaveJars'
  BY <1>6 DEF Inv, OccupiedSlotsHaveJars, Occupied
<1>16. HandlesAreTraced'
  BY <1>6, <1>7, <1>8 DEF Inv, HandlesAreTraced, Traced, Occupied
<1>17. ClientsUseTheirJar'
  BY <1>7, Frame
<1>18. HeldJarKeepsItsSlot'
  BY ZenonT(60), <1>2, <1>6, <1>8, <1>9, <1>10 DEF Inv, TypeOK, HeldJarKeepsItsSlot, Occupied
<1>19. OperationUsesItsOwnSession'
  BY <1>7, <1>10, <1>11 DEF Inv, TypeOK, OperationUsesItsOwnSession
<1>20. NoForgottenClient'
  BY <1>6, <1>7, <1>8 DEF Inv, NoForgottenClient, Occupied
<1> QED BY <1>12, <1>13, <1>14, <1>15, <1>16, <1>17, <1>18, <1>19, <1>20 DEF Inv

-----------------------------------------------------------------------------

\* The three facts behind Invariance: it holds at first, ...
LEMMA InitInv == Init => Inv
<1> SUFFICES ASSUME Init PROVE Inv
  OBVIOUS
<1>1. TypeOK
  <2>1. slots \in [Slot -> SlotState]
    BY Bounds DEF Init, SlotState
  <2> QED BY <2>1, Bounds DEF Init, TypeOK, Locations
<1>2. LeasesCountHolders
  <2> SUFFICES ASSUME NEW j \in Jar PROVE leases[j] = Cardinality(Holders(j))
    BY DEF LeasesCountHolders
  <2>1. Holders(j) = {}
    BY DEF Init, Holders
  <2> QED BY <2>1, FS_EmptySet DEF Init
<1>3. \A t \in Tasks : TaskState(t)
  BY DEF Init, TaskState
<1>4. OccupiedSlotsHaveJars
  BY DEF Init, OccupiedSlotsHaveJars, Occupied
<1>5. HandlesAreTraced /\ ClientsUseTheirJar /\ HeldJarKeepsItsSlot /\
      OperationUsesItsOwnSession /\ NoForgottenClient
  BY DEF Init, HandlesAreTraced, ClientsUseTheirJar, HeldJarKeepsItsSlot,
         OperationUsesItsOwnSession, NoForgottenClient
<1> QED BY <1>1, <1>2, <1>3, <1>4, <1>5 DEF Inv

\* ... is kept when nothing changes, ...
LEMMA StutterInv == ASSUME Inv, UNCHANGED vars PROVE Inv'
<1>1. TypeOK'
  BY DEF Inv, vars, TypeOK
<1>2. (\A t \in Tasks : TaskState(t))'
  BY DEF Inv, vars, TaskState
<1>3. OperationUsesItsOwnSession'
  BY DEF Inv, vars, OperationUsesItsOwnSession
<1> QED BY <1>1, <1>2, <1>3, Frame DEF Inv, vars, registry

\* ... and is kept by every step of the registry.
LEMMA NextInv == ASSUME Inv, [Next]_vars PROVE Inv'
<1>1. CASE UNCHANGED vars
  BY <1>1, StutterInv
<1>2. CASE Quiet
  BY <1>2, StutterInv DEF Quiet
<1>3. ASSUME NEW t \in Tasks,
             \/ BeginOpen(t) \/ LockForOpen(t) \/ RefuseOpen(t) \/ PurgeForOpen(t)
             \/ ReclaimClosed(t) \/ EvictLeastRecent(t) \/ OpenInNewSlot(t)
             \/ PurgeForClose(t) \/ Abandon(t)
      PROVE  Inv'
  BY <1>3, BeginOpenStep, LockForOpenStep, RefuseOpenStep, PurgeForOpenStep,
     ReclaimClosedStep, EvictLeastRecentStep, OpenInNewSlotStep,
     PurgeForCloseStep, AbandonStep
<1>4. ASSUME NEW t \in Tasks, OpenInFreeSlot(t)
      PROVE  Inv'
  BY <1>4, OpenInFreeSlotStep DEF OpenInFreeSlot
<1>5. ASSUME NEW t \in Tasks,
             AdmitCookieJar(t) \/ RefuseHandle(t) \/ InsertClient(t) \/ Release(t)
      PROVE  Inv'
  BY <1>5, AdmitCookieJarStep, RefuseHandleStep, InsertClientStep, ReleaseStep
<1>6. ASSUME NEW t \in Tasks, NEW h \in issued, Close(t, h) \/ BeginOperation(t, h)
      PROVE  Inv'
  BY <1>6, CloseStep, BeginOperationStep
<1>7. ASSUME NEW t \in Tasks, NEW o \in Origins, ReuseClient(t, o) \/ MissClient(t, o)
      PROVE  Inv'
  BY <1>7, ReuseClientStep, MissClientStep
<1> QED BY <1>1, <1>2, <1>3, <1>4, <1>5, <1>6, <1>7 DEF Next

\* The inductive invariant holds in every state of the registry, for every
\* number of tasks, slots, pooled clients and generations.
THEOREM Invariance == Spec => []Inv
BY InitInv, NextInv, PTL DEF Spec

\* Every variable keeps its shape, whatever the number of tasks, slots, origins
\* and clients: no lease counter goes below zero, no generation passes its last
\* value, no slot is filled past max_cookie_sessions.
THEOREM TypeCorrect == Spec => []TypeOK
<1>1. Inv => TypeOK
  BY DEF Inv
<1> QED BY <1>1, Invariance, PTL

\* A lease counter is the number of operations that hold the jar (JarLease).
THEOREM LeasesAreExact == Spec => []LeasesCountHolders
<1>1. Inv => LeasesCountHolders
  BY DEF Inv
<1> QED BY <1>1, Invariance, PTL

\* A handle that resolves reaches the session it was issued for, even when the
\* nonces of two sessions are equal (SessionSlot, SessionRegistry::resolve).
THEOREM HandlesNameOneSession == Spec => []HandleNamesOneSession
<1>1. Inv => HandleNamesOneSession
  <2> SUFFICES ASSUME Inv, NEW h \in issued, Resolves(h)
               PROVE  slots[h.slot].jar = h.jar
    BY DEF HandleNamesOneSession
  <2>1. Traced(h) /\ h.generation \in Nat
    BY Bounds DEF Inv, HandlesAreTraced, TypeOK, Handle
  <2> QED BY <2>1 DEF Traced, Resolves
<1> QED BY <1>1, Invariance, PTL

\* A session in use keeps its slot (close_cookie_session, open_cookie_session).
THEOREM HeldJarsKeepTheirSlots == Spec => []HeldJarKeepsItsSlot
<1>1. Inv => HeldJarKeepsItsSlot
  BY DEF Inv
<1> QED BY <1>1, Invariance, PTL

\* An operation uses the jar of the session its handle names, and a client built
\* on that jar (cookie_jar, client_for).
THEOREM OperationsUseTheirOwnSession == Spec => []OperationUsesItsOwnSession
<1>1. Inv => OperationUsesItsOwnSession
  BY DEF Inv
<1> QED BY <1>1, Invariance, PTL

\* No pooled client of an ended session is forgotten (drop_session_clients).
THEOREM NoClientIsForgotten == Spec => []NoForgottenClient
<1>1. Inv => NoForgottenClient
  BY DEF Inv
<1> QED BY <1>1, Invariance, PTL
-----------------------------------------------------------------------------
(* The registry implements the service.  That a session ends once and for  *)
(* all, and that its ending ends no other, rests on incarnation numbers    *)
(* being given out once: Numbered adds to Inv where those in use stand     *)
(* relative to the engine's sequence and to one another.                   *)

Opening(t) == pc[t] \in {"open", "scan", "purgeOpen"}

NumbersAreFresh ==
  /\ \A h \in issued : h.jar < sequence
  /\ \A t \in Tasks : Opening(t) =>
       drawn[t] < sequence /\ \A h \in issued : h.jar # drawn[t]
  /\ \A t, u \in Tasks : Opening(t) /\ Opening(u) /\ t # u => drawn[t] # drawn[u]

JarsAreIssued ==
  /\ \A i \in Pushed : Occupied(i) =>
       \E h \in issued : h.slot = i /\ h.jar = slots[i].jar
  /\ \A g, h \in issued : g.jar = h.jar => g.slot = h.slot

Numbered == Inv /\ NumbersAreFresh /\ JarsAreIssued

\* The types of the numbers drawn from the engine's sequence.
LEMMA NumberTypes ==
  ASSUME Inv
  PROVE  /\ sequence \in Nat
         /\ \A h \in issued : h.jar \in Nat
         /\ \A t \in Tasks : drawn[t] \in Nat
         /\ Pushed \subseteq Slot
BY Bounds DEF Inv, TypeOK, Handle, Pushed

\* No two slots hold the same session.
LEMMA SlotsHaveTheirOwnJars ==
  ASSUME JarsAreIssued, NEW i \in Pushed, NEW k \in Pushed, Occupied(i), Occupied(k),
         slots[i].jar = slots[k].jar
  PROVE  i = k
BY DEF JarsAreIssued

\* A step that opens no session keeps the numbers apart, ...
LEMMA FreshFrame ==
  ASSUME Numbered, issued' = issued, sequence' \in {sequence, sequence + 1},
         \A t \in Tasks : Opening(t)' => Opening(t) /\ drawn'[t] = drawn[t]
  PROVE  NumbersAreFresh'
<1>0. /\ sequence \in Nat
      /\ \A h \in issued : h.jar \in Nat
      /\ \A t \in Tasks : drawn[t] \in Nat
  BY NumberTypes DEF Numbered
<1>1. \A h \in issued' : h.jar < sequence'
  BY <1>0 DEF Numbered, NumbersAreFresh
<1>2. \A t \in Tasks : Opening(t)' =>
        drawn'[t] < sequence' /\ \A h \in issued' : h.jar # drawn'[t]
  BY <1>0 DEF Numbered, NumbersAreFresh
<1>3. \A t, u \in Tasks : Opening(t)' /\ Opening(u)' /\ t # u => drawn'[t] # drawn'[u]
  BY DEF Numbered, NumbersAreFresh
<1> QED BY <1>1, <1>2, <1>3 DEF NumbersAreFresh

\* ... and one that fills no slot keeps every session issued.
LEMMA IssuedFrame ==
  ASSUME JarsAreIssued, issued' = issued, grown' = grown,
         \A i \in Pushed : Occupied(i)' => Occupied(i) /\ slots'[i].jar = slots[i].jar
  PROVE  JarsAreIssued'
<1>1. Pushed' = Pushed
  BY DEF Pushed
<1> QED BY <1>1 DEF JarsAreIssued

\* What callers see, as long as no session opens or ends.
LEMMA LiveFrame ==
  ASSUME grown' = grown, issued' = issued,
         \A i \in Pushed : /\ slots'[i].state = "open" <=> slots[i].state = "open"
                           /\ slots[i].state = "open" => slots'[i].jar = slots[i].jar
  PROVE  LiveJars' = LiveJars /\ (IssuedJars \ LiveJars)' = IssuedJars \ LiveJars
<1>1. LiveJars' = LiveJars
  BY DEF LiveJars, Pushed
<1>2. IssuedJars' = IssuedJars
  BY DEF IssuedJars
<1> QED BY <1>1, <1>2

\* The steps that leave the registry and the jars in use alone.
LEMMA SeenFrame ==
  ASSUME Numbered, UNCHANGED <<registry, holds>>
  PROVE  JarsAreIssued' /\ UNCHANGED Service!svars
<1>1. JarsAreIssued'
  BY IssuedFrame DEF Numbered, registry, Occupied
<1>2. LiveJars' = LiveJars /\ (IssuedJars \ LiveJars)' = IssuedJars \ LiveJars
  BY LiveFrame DEF registry
<1> QED BY <1>1, <1>2 DEF Service!svars

\* A slot whose session ends or closes: the callers lose that session, if it
\* was open, and no other (SessionRegistry::end, close_cookie_session).
LEMMA SessionLost ==
  ASSUME Numbered, NEW i \in Pushed, Occupied(i), OnlySlot(i),
         slots'[i].state # "open", Occupied(i)' => slots'[i].jar = slots[i].jar,
         UNCHANGED <<grown, issued, holds>>
  PROVE  /\ JarsAreIssued'
         /\ slots[i].state = "open" => Service!EndSession(slots[i].jar)
         /\ slots[i].state # "open" => UNCHANGED Service!svars
<1>0. Pushed \subseteq Slot /\ Pushed' = Pushed
  BY NumberTypes DEF Numbered, Pushed
<1>1. JarsAreIssued'
  BY <1>0, IssuedFrame DEF Numbered, OnlySlot, Occupied
<1>2. CASE slots[i].state = "open"
  <2>1. slots[i].jar \in LiveJars /\ slots[i].jar \in IssuedJars
    BY <1>2 DEF LiveJars, IssuedJars, Numbered, JarsAreIssued, Occupied
  <2>2. \A k \in Pushed : k # i /\ slots[k].state = "open" => slots[k].jar # slots[i].jar
    BY SlotsHaveTheirOwnJars DEF Numbered, Occupied
  <2>3. LiveJars' = LiveJars \ {slots[i].jar}
    <3>1. ASSUME NEW k \in Pushed, k # i PROVE slots'[k] = slots[k]
      BY <1>0, <3>1 DEF OnlySlot
    <3>2. ASSUME NEW j
          PROVE  j \in LiveJars' <=> j \in LiveJars \ {slots[i].jar}
      <4>1. ASSUME j \in LiveJars' PROVE j \in LiveJars \ {slots[i].jar}
        <5>1. PICK k \in Pushed : slots'[k].state = "open" /\ slots'[k].jar = j
          BY <1>0, <4>1 DEF LiveJars
        <5>2. k # i /\ slots[k].state = "open" /\ slots[k].jar = j
          BY <3>1, <5>1
        <5> QED BY <2>2, <5>2 DEF LiveJars
      <4>2. ASSUME j \in LiveJars, j # slots[i].jar PROVE j \in LiveJars'
        <5>1. PICK k \in Pushed : slots[k].state = "open" /\ slots[k].jar = j
          BY <4>2 DEF LiveJars
        <5>2. slots'[k].state = "open" /\ slots'[k].jar = j
          BY <3>1, <4>2, <5>1
        <5> QED BY <1>0, <5>2 DEF LiveJars
      <4> QED BY <4>1, <4>2
    <3> QED BY <3>2
  <2>4. IssuedJars' = IssuedJars
    BY DEF IssuedJars
  <2> QED BY <1>1, <1>2, <2>1, <2>3, <2>4 DEF Service!EndSession
<1>3. CASE slots[i].state # "open"
  <2>1. LiveJars' = LiveJars /\ (IssuedJars \ LiveJars)' = IssuedJars \ LiveJars
    BY <1>0, <1>3, LiveFrame DEF OnlySlot
  <2> QED BY <1>1, <1>3, <2>1 DEF Service!svars
<1> QED BY <1>2, <1>3

\* open_cookie_session and close_cookie_session, where they end a session.
LEMMA EndSlotLoses ==
  ASSUME Numbered, NEW i \in Pushed, Occupied(i), EndSlot(i),
         UNCHANGED <<grown, issued, holds>>
  PROVE  /\ JarsAreIssued'
         /\ slots[i].state = "open" => Service!EndSession(slots[i].jar)
         /\ slots[i].state # "open" => UNCHANGED Service!svars
<1>1. i \in Slot /\ slots[i] \in SlotState
  BY NumberTypes DEF Numbered, Inv, TypeOK
<1>2. OnlySlot(i) /\ slots'[i].state \in {"free", "retired"}
  BY <1>1, EndSlotEffect, EndedSlot DEF Numbered, Inv
<1> QED BY <1>2, SessionLost DEF Occupied

\* The service counts as this module does.
LEMMA SameCount == \A S : Service!Cardinality(S) = Cardinality(S)
BY DEF Service!Cardinality, Cardinality, Service!IsFiniteSet, IsFiniteSet

\* The sessions that take memory sit in slots other than the one to be filled:
\* there is room for one more.
LEMMA RoomForOne ==
  ASSUME Numbered, NEW i \in Slot, ~(i \in Pushed /\ Occupied(i))
  PROVE  Cardinality(LiveJars \cup Service!InUse) < Capacity
<1> DEFINE S == Slot \ {i}
           T == {slots[k].jar : k \in S}
           f == [k \in S |-> slots[k].jar]
<1>1. IsFiniteSet(S) /\ Cardinality(S) = Capacity - 1
  <2>1. IsFiniteSet(Slot) /\ Cardinality(Slot) = IF 1 > Capacity THEN 0 ELSE Capacity - 1 + 1
    BY Bounds, FS_Interval
  <2>2. IsFiniteSet(S) /\ Cardinality(S) = Cardinality(Slot) - 1
    BY <2>1, FS_RemoveElement
  <2> QED BY <2>1, <2>2, Bounds
<1>2. f \in Surjection(S, T)
  BY DEF Surjection
<1>3. IsFiniteSet(T) /\ Cardinality(T) <= Cardinality(S)
  BY <1>1, <1>2, FS_Surjection
<1>4. LiveJars \cup Service!InUse \subseteq T
  <2>0. Pushed \subseteq Slot
    BY NumberTypes DEF Numbered
  <2>1. LiveJars \subseteq T
    BY <2>0 DEF LiveJars, Occupied
  <2>2. Service!InUse \subseteq T
    BY <2>0 DEF Service!InUse, Numbered, Inv, HeldJarKeepsItsSlot
  <2> QED BY <2>1, <2>2
<1>5. Cardinality(LiveJars \cup Service!InUse) <= Cardinality(T)
  BY <1>3, <1>4, FS_Subset
<1>6. Cardinality(T) \in Nat /\ Cardinality(LiveJars \cup Service!InUse) \in Nat
  BY <1>3, <1>4, FS_Subset, FS_CardinalityType
<1> QED BY <1>1, <1>3, <1>5, <1>6, Bounds

\* open_cookie_session, when it has found a slot: a session never seen before.
LEMMA SessionOpened ==
  ASSUME Numbered, NEW t \in Tasks, pc[t] = "scan", NEW i \in Slot, NEW n \in Nonces,
         Occupy(t, i, n),
         \/ i \in FreeSlots /\ UNCHANGED grown
         \/ grown < Capacity /\ grown' = grown + 1 /\ i = grown + 1
  PROVE  NumbersAreFresh' /\ JarsAreIssued' /\ Service!OpenSession(drawn[t])
<1> DEFINE h == [slot |-> i, generation |-> slots[i].generation, nonce |-> n,
                 jar |-> drawn[t]]
<1>1. /\ sequence \in Nat /\ drawn[t] \in Nat
      /\ \A g \in issued : g.jar \in Nat
      /\ Pushed \subseteq Slot
      /\ slots[i] \in SlotState
  BY NumberTypes DEF Numbered, Inv, TypeOK
<1>2. issued' = issued \cup {h} /\ h.slot = i /\ h.jar = drawn[t]
  BY DEF Occupy
<1>3. OnlySlot(i) /\ slots'[i].state = "open" /\ slots'[i].jar = drawn[t]
  BY <1>1 DEF Occupy, OnlySlot, SlotState, Numbered, Inv, TypeOK
<1>4. ~(i \in Pushed /\ Occupied(i)) /\ Pushed' = Pushed \cup {i}
  BY Bounds DEF FreeSlots, IsFree, Occupied, Pushed, Numbered, Inv, TypeOK
<1>5. \A u \in Tasks : Opening(u)' => u # t /\ Opening(u) /\ drawn'[u] = drawn[u]
  BY DEF Occupy, Opening, Numbered, Inv, TypeOK
<1>6. Opening(t) /\ drawn[t] < sequence /\ \A g \in issued : g.jar # drawn[t]
  BY DEF Numbered, NumbersAreFresh, Opening
<1>7. NumbersAreFresh'
  <2>1. \A g \in issued' : g.jar < sequence'
    BY <1>2, <1>6 DEF Numbered, NumbersAreFresh, Occupy
  <2>2. \A u \in Tasks : Opening(u)' =>
          drawn'[u] < sequence' /\ \A g \in issued' : g.jar # drawn'[u]
    BY <1>2, <1>5, <1>6 DEF Numbered, NumbersAreFresh, Occupy
  <2>3. \A u, v \in Tasks : Opening(u)' /\ Opening(v)' /\ u # v => drawn'[u] # drawn'[v]
    BY <1>5 DEF Numbered, NumbersAreFresh
  <2> QED BY <2>1, <2>2, <2>3 DEF NumbersAreFresh
<1>8. JarsAreIssued'
  <2>1. \A k \in Pushed' : Occupied(k)' =>
          \E g \in issued' : g.slot = k /\ g.jar = slots'[k].jar
    <3> SUFFICES ASSUME NEW k \in Pushed', Occupied(k)'
                 PROVE  \E g \in issued' : g.slot = k /\ g.jar = slots'[k].jar
      OBVIOUS
    <3>1. CASE k = i
      BY <1>2, <1>3, <3>1
    <3>2. CASE k # i
      <4>1. k \in Pushed /\ k \in Slot /\ slots'[k] = slots[k]
        BY <1>1, <1>3, <1>4, <3>2 DEF OnlySlot
      <4>2. \E g \in issued : g.slot = k /\ g.jar = slots[k].jar
        BY <4>1 DEF Numbered, JarsAreIssued, Occupied
      <4> QED BY <1>2, <4>1, <4>2
    <3> QED BY <3>1, <3>2
  <2>2. \A g, k \in issued' : g.jar = k.jar => g.slot = k.slot
    BY <1>2, <1>6 DEF Numbered, JarsAreIssued
  <2> QED BY <2>1, <2>2 DEF JarsAreIssued
<1>9. Service!OpenSession(drawn[t])
  <2>1. drawn[t] \notin IssuedJars
    BY <1>6 DEF IssuedJars
  <2>2. LiveJars \subseteq IssuedJars
    BY DEF LiveJars, IssuedJars, Numbered, JarsAreIssued, Occupied
  <2>3. LiveJars' = LiveJars \cup {drawn[t]}
    BY <1>1, <1>3, <1>4 DEF LiveJars, OnlySlot, Occupied
  <2>4. IssuedJars' = IssuedJars \cup {drawn[t]}
    BY <1>2 DEF IssuedJars
  <2>5. Cardinality(LiveJars \cup Service!InUse) < Capacity
    BY <1>4, RoomForOne
  <2>6. (IssuedJars \ LiveJars)' = IssuedJars \ LiveJars
    BY <2>1, <2>2, <2>3, <2>4
  <2>7. holds' = holds
    BY DEF Occupy
  <2> QED BY <2>1, <2>2, <2>3, <2>5, <2>6, <2>7, SameCount DEF Service!OpenSession
<1> QED BY <1>7, <1>8, <1>9

\* Between two uses of the engine's sequence nobody draws the same number.
LEMMA NumberDrawn ==
  ASSUME Numbered, NEW t \in Tasks, BeginOpen(t)
  PROVE  NumbersAreFresh'
<1>1. /\ sequence \in Nat
      /\ \A h \in issued : h.jar \in Nat
      /\ \A u \in Tasks : drawn[u] \in Nat
  BY NumberTypes DEF Numbered
<1>2. issued' = issued /\ sequence' = sequence + 2 /\ drawn'[t] = sequence
  BY DEF BeginOpen, registry, Numbered, Inv, TypeOK
<1>3. \A u \in Tasks : u # t => (Opening(u)' <=> Opening(u)) /\ drawn'[u] = drawn[u]
  BY DEF BeginOpen, Opening, Numbered, Inv, TypeOK
<1>4. \A h \in issued' : h.jar < sequence' /\ h.jar # sequence
  BY <1>1, <1>2 DEF Numbered, NumbersAreFresh
<1>5. \A u \in Tasks : Opening(u)' =>
        drawn'[u] < sequence' /\ \A h \in issued' : h.jar # drawn'[u]
  BY <1>1, <1>2, <1>3, <1>4 DEF Numbered, NumbersAreFresh
<1>6. \A u \in Tasks : u # t /\ Opening(u) => drawn[u] # sequence
  BY <1>1 DEF Numbered, NumbersAreFresh
<1>7. \A u, v \in Tasks : Opening(u)' /\ Opening(v)' /\ u # v => drawn'[u] # drawn'[v]
  BY <1>2, <1>3, <1>6 DEF Numbered, NumbersAreFresh
<1> QED BY <1>4, <1>5, <1>7 DEF NumbersAreFresh

\* admit_cookie_jar enters the session, which is live: its slot is open.
LEMMA SessionEntered ==
  ASSUME Numbered, NEW t \in Tasks, AdmitCookieJar(t)
  PROVE  NumbersAreFresh' /\ JarsAreIssued' /\ \E s \in Jar : Service!Enter(t, s)
<1>1. PICK h \in asked[t] : Resolves(h) /\ LeaseJar(t, h.slot)
  BY DEF AdmitCookieJar
<1> DEFINE i == h.slot
<1>2. i \in Pushed /\ i \in Slot /\ slots[i].state = "open"
  BY <1>1, NumberTypes DEF Resolves, Numbered
<1>3. \A k \in Slot : slots'[k].state = slots[k].state /\ slots'[k].jar = slots[k].jar
  BY <1>1, <1>2 DEF LeaseJar, Numbered, Inv, TypeOK, SlotState
<1>4. UNCHANGED <<grown, issued, sequence>> /\ Pushed \subseteq Slot
  BY NumberTypes DEF AdmitCookieJar, Numbered
<1>5. \A u \in Tasks : Opening(u)' => Opening(u) /\ drawn'[u] = drawn[u]
  BY DEF AdmitCookieJar, Opening, Numbered, Inv, TypeOK
<1>6. NumbersAreFresh' /\ JarsAreIssued'
  BY <1>3, <1>4, <1>5, FreshFrame, IssuedFrame DEF Numbered, Occupied
<1>7. LiveJars' = LiveJars /\ (IssuedJars \ LiveJars)' = IssuedJars \ LiveJars
  BY <1>3, <1>4, LiveFrame
<1>8. slots[i].jar \in LiveJars /\ slots[i].jar \in Jar
  BY <1>2 DEF LiveJars, Numbered, Inv, OccupiedSlotsHaveJars, Occupied
<1>9. holds[t] = NoJar /\ holds' = [holds EXCEPT ![t] = slots[i].jar]
  BY <1>1 DEF LeaseJar, AdmitCookieJar, Numbered, Inv, TaskState
<1> QED BY <1>6, <1>7, <1>8, <1>9 DEF Service!Enter

\* JarLease::drop leaves the session.
LEMMA SessionLeft ==
  ASSUME Numbered, NEW t \in Tasks, Release(t)
  PROVE  NumbersAreFresh' /\ JarsAreIssued' /\ Service!Leave(t)
<1>1. holds[t] # NoJar /\ holds' = [holds EXCEPT ![t] = NoJar]
  BY DEF Release, Numbered, Inv, TaskState
<1>2. UNCHANGED <<registry, sequence>>
  BY DEF Release
<1>3. \A u \in Tasks : Opening(u)' => Opening(u) /\ drawn'[u] = drawn[u]
  BY DEF Release, Opening, Numbered, Inv, TypeOK
<1>4. NumbersAreFresh' /\ JarsAreIssued'
  BY <1>2, <1>3, FreshFrame, IssuedFrame DEF Numbered, registry, Occupied
<1>5. LiveJars' = LiveJars /\ (IssuedJars \ LiveJars)' = IssuedJars \ LiveJars
  BY <1>2, LiveFrame DEF registry
<1> QED BY <1>1, <1>4, <1>5 DEF Service!Leave

\* The two ways of open_cookie_session to make room.
LEMMA RoomMade ==
  ASSUME Numbered, NEW t \in Tasks, ReclaimClosed(t) \/ EvictLeastRecent(t)
  PROVE  /\ NumbersAreFresh' /\ JarsAreIssued'
         /\ (\E s \in Jar : Service!EndSession(s)) \/ UNCHANGED Service!svars
<1>1. PICK i \in Pushed : EndAndPurge(t, i) /\ Occupied(i)
  BY DEF ReclaimClosed, EvictLeastRecent, ReclaimableSlots, EvictableSlots,
         Reclaimable, Evictable, Occupied
<1>2. slots[i].jar \in Jar
  BY <1>1, NumberTypes DEF Numbered, Inv, OccupiedSlotsHaveJars
<1>3. UNCHANGED <<grown, issued, holds, sequence>> /\ EndSlot(i)
  BY <1>1 DEF EndAndPurge
<1>4. \A u \in Tasks : Opening(u)' => Opening(u) /\ drawn'[u] = drawn[u]
  BY <1>1 DEF EndAndPurge, Opening, Numbered, Inv, TypeOK, ReclaimClosed, EvictLeastRecent
<1>5. NumbersAreFresh'
  BY <1>3, <1>4, FreshFrame
<1> QED BY <1>1, <1>2, <1>3, <1>5, EndSlotLoses

\* close_cookie_session: the session is gone for callers at once, even while an
\* operation holds it.
LEMMA SessionClosed ==
  ASSUME Numbered, NEW t \in Tasks, NEW h \in issued, Close(t, h)
  PROVE  /\ NumbersAreFresh' /\ JarsAreIssued'
         /\ \E s \in Jar : Service!EndSession(s)
<1> DEFINE i == h.slot
<1>1. i \in Pushed /\ i \in Slot /\ slots[i].state = "open" /\ Occupied(i)
  BY NumberTypes DEF Close, Resolves, Numbered, Occupied
<1>2. slots[i].jar \in Jar
  BY <1>1 DEF Numbered, Inv, OccupiedSlotsHaveJars
<1>3. UNCHANGED <<grown, issued, holds, sequence>>
  BY DEF Close
<1>4. \A u \in Tasks : Opening(u)' => Opening(u) /\ drawn'[u] = drawn[u]
  BY DEF Close, Opening, Numbered, Inv, TypeOK
<1>5. NumbersAreFresh'
  BY <1>3, <1>4, FreshFrame
<1>6. CASE EndSlot(i)
  BY <1>1, <1>2, <1>3, <1>5, <1>6, EndSlotLoses
<1>7. CASE slots' = [slots EXCEPT ![i].state = "closing"]
  <2>1. OnlySlot(i) /\ slots'[i].state = "closing" /\ slots'[i].jar = slots[i].jar
    BY <1>1, <1>7 DEF OnlySlot, Numbered, Inv, TypeOK, SlotState
  <2> QED BY <1>1, <1>2, <1>3, <1>5, <2>1, SessionLost
<1> QED BY <1>6, <1>7 DEF Close, CloseSlot

\* Every other step: the callers see nothing.
LEMMA NothingSeen ==
  ASSUME Numbered,
         \/ UNCHANGED vars
         \/ \E t \in Tasks :
              \/ LockForOpen(t) \/ RefuseOpen(t) \/ PurgeForOpen(t)
              \/ PurgeForClose(t) \/ Abandon(t) \/ RefuseHandle(t) \/ InsertClient(t)
              \/ \E h \in issued : BeginOperation(t, h)
              \/ \E o \in Origins : ReuseClient(t, o) \/ MissClient(t, o)
  PROVE  NumbersAreFresh' /\ JarsAreIssued' /\ UNCHANGED Service!svars
<1>1. UNCHANGED <<registry, holds>>
  BY DEF vars, registry, locals, LockForOpen, RefuseOpen, PurgeForOpen, PurgeForClose,
         Abandon, RefuseHandle, InsertClient, BeginOperation, ReuseClient, MissClient
<1>2. sequence' \in {sequence, sequence + 1}
  BY DEF vars, LockForOpen, RefuseOpen, PurgeForOpen, PurgeForClose,
         Abandon, RefuseHandle, InsertClient, BeginOperation, ReuseClient, MissClient
<1>3. \A u \in Tasks : Opening(u)' => Opening(u) /\ drawn'[u] = drawn[u]
  <2>1. pc \in [Tasks -> Locations] /\ drawn \in [Tasks -> 0..MaxSequence]
    BY DEF Numbered, Inv, TypeOK
  <2>2. CASE UNCHANGED vars
    BY <2>2 DEF vars, Opening
  <2>3. ASSUME NEW t \in Tasks, LockForOpen(t) \/ PurgeForOpen(t)
        PROVE  \A u \in Tasks : Opening(u)' => Opening(u) /\ drawn'[u] = drawn[u]
    BY <2>1, <2>3 DEF LockForOpen, PurgeForOpen, Opening, locals
  <2>4. ASSUME NEW t \in Tasks, RefuseOpen(t) \/ PurgeForClose(t) \/ Abandon(t) \/ RefuseHandle(t)
        PROVE  \A u \in Tasks : Opening(u)' => Opening(u) /\ drawn'[u] = drawn[u]
    BY <2>1, <2>4 DEF RefuseOpen, PurgeForClose, Abandon, RefuseHandle, Opening
  <2>5. ASSUME NEW t \in Tasks, NEW o \in Origins,
               InsertClient(t) \/ ReuseClient(t, o) \/ MissClient(t, o)
        PROVE  \A u \in Tasks : Opening(u)' => Opening(u) /\ drawn'[u] = drawn[u]
    BY <2>1, <2>5 DEF InsertClient, ReuseClient, MissClient, Opening
  <2>6. ASSUME NEW t \in Tasks, InsertClient(t)
        PROVE  \A u \in Tasks : Opening(u)' => Opening(u) /\ drawn'[u] = drawn[u]
    BY <2>1, <2>6 DEF InsertClient, Opening
  <2>7. ASSUME NEW t \in Tasks, NEW h \in issued, BeginOperation(t, h)
        PROVE  \A u \in Tasks : Opening(u)' => Opening(u) /\ drawn'[u] = drawn[u]
    BY <2>1, <2>7 DEF BeginOperation, Opening
  <2> QED BY <2>2, <2>3, <2>4, <2>5, <2>6, <2>7
<1> QED BY <1>1, <1>2, <1>3, FreshFrame, SeenFrame DEF registry

\* Every step is a step of the service or none.
LEMMA NumberedStep ==
  ASSUME Numbered, [Next]_vars
  PROVE  Numbered' /\ [Service!SNext]_(Service!svars)
<1>0. Inv'
  BY NextInv DEF Numbered
<1> SUFFICES NumbersAreFresh' /\ JarsAreIssued' /\ [Service!SNext]_(Service!svars)
  BY <1>0 DEF Numbered
<1>1. CASE UNCHANGED vars \/ Quiet
  BY <1>1, NothingSeen DEF Quiet
<1>2. ASSUME NEW t \in Tasks,
             \/ LockForOpen(t) \/ RefuseOpen(t) \/ PurgeForOpen(t)
             \/ PurgeForClose(t) \/ Abandon(t) \/ RefuseHandle(t) \/ InsertClient(t)
             \/ \E h \in issued : BeginOperation(t, h)
             \/ \E o \in Origins : ReuseClient(t, o) \/ MissClient(t, o)
      PROVE  NumbersAreFresh' /\ JarsAreIssued' /\ [Service!SNext]_(Service!svars)
  BY <1>2, NothingSeen
<1>3. ASSUME NEW t \in Tasks, BeginOpen(t)
      PROVE  NumbersAreFresh' /\ JarsAreIssued' /\ [Service!SNext]_(Service!svars)
  <2>1. UNCHANGED <<registry, holds>>
    BY <1>3 DEF BeginOpen
  <2> QED BY <1>3, <2>1, NumberDrawn, SeenFrame
<1>4. ASSUME NEW t \in Tasks, OpenInFreeSlot(t) \/ OpenInNewSlot(t)
      PROVE  NumbersAreFresh' /\ JarsAreIssued' /\ [Service!SNext]_(Service!svars)
  <2>1. drawn[t] \in Jar
    BY <1>4 DEF Numbered, Inv, TaskState, OpenInFreeSlot, OpenInNewSlot
  <2>2. PICK i \in Slot, n \in Nonces :
          /\ Occupy(t, i, n)
          /\ \/ i \in FreeSlots /\ UNCHANGED grown
             \/ grown < Capacity /\ grown' = grown + 1 /\ i = grown + 1
    <3>1. CASE OpenInFreeSlot(t)
      BY <3>1, NumberTypes DEF OpenInFreeSlot, FreeSlots, Numbered
    <3>2. CASE OpenInNewSlot(t)
      BY <3>2, Bounds DEF OpenInNewSlot, Numbered, Inv, TypeOK
    <3> QED BY <1>4, <3>1, <3>2
  <2>3. pc[t] = "scan"
    BY <1>4 DEF OpenInFreeSlot, OpenInNewSlot
  <2>4. NumbersAreFresh' /\ JarsAreIssued' /\ Service!OpenSession(drawn[t])
    BY <2>2, <2>3, SessionOpened
  <2> QED BY <2>1, <2>4 DEF Service!SNext
<1>5. ASSUME NEW t \in Tasks, ReclaimClosed(t) \/ EvictLeastRecent(t)
      PROVE  NumbersAreFresh' /\ JarsAreIssued' /\ [Service!SNext]_(Service!svars)
  BY <1>5, RoomMade DEF Service!SNext
<1>6. ASSUME NEW t \in Tasks, NEW h \in issued, Close(t, h)
      PROVE  NumbersAreFresh' /\ JarsAreIssued' /\ [Service!SNext]_(Service!svars)
  BY <1>6, SessionClosed DEF Service!SNext
<1>7. ASSUME NEW t \in Tasks, AdmitCookieJar(t) \/ Release(t)
      PROVE  NumbersAreFresh' /\ JarsAreIssued' /\ [Service!SNext]_(Service!svars)
  BY <1>7, SessionEntered, SessionLeft DEF Service!SNext
<1> QED BY <1>1, <1>2, <1>3, <1>4, <1>5, <1>6, <1>7 DEF Next

\* A registry that has just been created is a service with no session.
LEMMA NumberedStarts == Init => Numbered /\ Service!SInit
<1> SUFFICES ASSUME Init PROVE Numbered /\ Service!SInit
  OBVIOUS
<1>1. Inv
  BY InitInv
<1>2. Pushed = {} /\ issued = {} /\ \A t \in Tasks : ~Opening(t)
  BY DEF Init, Pushed, Opening
<1>3. NumbersAreFresh /\ JarsAreIssued
  BY <1>2 DEF NumbersAreFresh, JarsAreIssued
<1>4. LiveJars = {} /\ IssuedJars = {}
  BY <1>2 DEF LiveJars, IssuedJars
<1> QED BY <1>1, <1>3, <1>4 DEF Numbered, Service!SInit, Init

\* The registry implements the service: whatever slots, generations, leases and
\* locks do, and whatever callers abandon, a session is live from its opening to
\* its one end, is entered only while it is live, and at most Capacity sessions
\* are live or in use (open_cookie_session, close_cookie_session, cookie_jar).
THEOREM RegistryImplementsService == Spec => ImplementsService
<1>1. Numbered /\ [Next]_vars => Numbered' /\ [Service!SNext]_(Service!svars)
  BY NumberedStep
<1> QED BY <1>1, NumberedStarts, PTL DEF Spec, ImplementsService, Service!SSpec
=============================================================================
