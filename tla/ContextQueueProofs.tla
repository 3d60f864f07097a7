------------------------- MODULE ContextQueueProofs -------------------------
(***************************************************************************)
(* Proofs about ContextQueues, for any number of threads, contexts and     *)
(* queues.                                                                 *)
(***************************************************************************)
EXTENDS ContextQueues, TLAPS

\* A thread in the middle of a wrapper works for a context, and the entry it
\* has found is there.
PlaceInv ==
    \A t \in Threads :
        /\ pc[t] # "idle" => want[t] \in Contexts
        /\ pc[t] = "found" => cache[want[t]] # NoEntry

\* A queue the detector made left an entry, and its maker will not miss it.
OwnInv ==
    \A q \in Handles :
        refs[q] > 0 => /\ ctx[q] \in Contexts
                       /\ maker[q] # App => /\ cache[ctx[q]] # NoEntry
                                            /\ ~(pc[maker[q]] = "missed" /\ want[maker[q]] = ctx[q])

\* The application never holds more references than the runtime counts.
HeldInv == \A q \in Handles : held[q] <= refs[q]

CacheInv == QueueTypeOK /\ HeldInv /\ PlaceInv /\ OwnInv /\ OneOwnQueuePerThread

\* q is a live host queue of context c.
Usable(c, q) == q \in Handles /\ ctx[q] = c /\ kind[q] = "host" /\ refs[q] > 0

\* Everything that may be handed to the detector in a context that is not
\* rough is usable.
LegalInv ==
    /\ \A c \in Contexts \ Rough : cache[c] # NoEntry => Usable(c, cache[c])
    /\ \A t \in Threads : pc[t] = "created" /\ want[t] \notin Rough => Usable(want[t], fresh[t])
    /\ \A p \in given : p[1] \notin Rough => Usable(p[1], p[2])

-----------------------------------------------------------------------------
LEMMA CacheInvInit == Init => CacheInv
  <1> SUFFICES ASSUME Init PROVE CacheInv
    OBVIOUS
  <1> USE QueueAssumption DEF Init
  <1>1. QueueTypeOK
    <2>1. 0 \in 0 .. MaxRefs BY SMT
    <2>2. exited \in BOOLEAN BY Zenon
    <2>3. NoEntry \in Entries /\ NullQueue \in Handles \cup {NullQueue} BY DEF Entries
    <2> QED BY <2>1, <2>2, <2>3, Zenon DEF QueueTypeOK
  <1>2. HeldInv /\ PlaceInv BY DEF HeldInv, PlaceInv
  <1>3. OwnInv BY DEF OwnInv
  <1>4. OneOwnQueuePerThread BY DEF OneOwnQueuePerThread, Own
  <1> QED BY <1>1, <1>2, <1>3, <1>4 DEF CacheInv

LEMMA CacheInvNext == CacheInv /\ [Next]_vars => CacheInv'
  <1> SUFFICES ASSUME CacheInv, [Next]_vars PROVE CacheInv'
    OBVIOUS
  <1> USE QueueAssumption
  <1>1. ASSUME NEW t \in Threads, NEW c \in Contexts, NEW e \in Handles \cup {NullQueue},
               CreateCommandQueue(t, c, e)
        PROVE  CacheInv'
    <2> USE <1>1 DEF CreateCommandQueue, Obtain, Create, Remember, objects
    <2>1. QueueTypeOK' BY DEF CacheInv, QueueTypeOK, Entries
    <2>2. PlaceInv' BY DEF CacheInv, QueueTypeOK, PlaceInv, Entries
    <2>3. OwnInv' BY DEF CacheInv, QueueTypeOK, OwnInv, Entries
    <2>4. HeldInv' BY DEF CacheInv, QueueTypeOK, HeldInv
    <2>5. OneOwnQueuePerThread' BY DEF CacheInv, QueueTypeOK, OneOwnQueuePerThread, Own
    <2> QED BY <2>1, <2>2, <2>3, <2>4, <2>5 DEF CacheInv
  <1>2. ASSUME NEW t \in Threads, NEW c \in Contexts, NEW e \in Handles \cup {NullQueue},
               NEW k \in {"host", "device"}, CreateWithProperties(t, c, e, k)
        PROVE  CacheInv'
    <2> USE <1>2 DEF CreateWithProperties, Obtain, Create, objects
    <2>1. QueueTypeOK' BY DEF CacheInv, QueueTypeOK, Entries
    <2>2. PlaceInv' BY DEF CacheInv, QueueTypeOK, PlaceInv, Entries
    <2>3. OwnInv' BY DEF CacheInv, QueueTypeOK, OwnInv, Entries
    <2>4. HeldInv' BY DEF CacheInv, QueueTypeOK, HeldInv
    <2>5. OneOwnQueuePerThread' BY DEF CacheInv, QueueTypeOK, OneOwnQueuePerThread, Own
    <2> QED BY <2>1, <2>2, <2>3, <2>4, <2>5 DEF CacheInv
  <1>3. ASSUME NEW t \in Threads, NEW c \in Contexts, FindQueue(t, c)
        PROVE  CacheInv'
    <2> USE <1>3 DEF FindQueue, objects
    <2>1. QueueTypeOK' BY DEF CacheInv, QueueTypeOK, Entries
    <2>2. PlaceInv' BY DEF CacheInv, QueueTypeOK, PlaceInv, Entries
    <2>3. OwnInv' BY DEF CacheInv, QueueTypeOK, OwnInv, Entries
    <2>4. HeldInv' BY DEF CacheInv, QueueTypeOK, HeldInv
    <2>5. OneOwnQueuePerThread' BY DEF CacheInv, QueueTypeOK, OneOwnQueuePerThread, Own
    <2> QED BY <2>1, <2>2, <2>3, <2>4, <2>5 DEF CacheInv
  <1>4. ASSUME NEW t \in Threads, NEW e \in Handles \cup {NullQueue}, MakeQueue(t, e)
        PROVE  CacheInv'
    <2> USE <1>4 DEF MakeQueue, Obtain, Create, Remember, Return, objects
    <2>0. want[t] \in Contexts BY DEF CacheInv, PlaceInv
    <2>1. QueueTypeOK' BY <2>0 DEF CacheInv, QueueTypeOK, Entries
    <2>2. PlaceInv' BY <2>0 DEF CacheInv, QueueTypeOK, PlaceInv, Entries
    <2>3. OwnInv' BY <2>0 DEF CacheInv, QueueTypeOK, OwnInv, Entries
    <2>4. HeldInv' BY DEF CacheInv, QueueTypeOK, HeldInv
    <2>5. OneOwnQueuePerThread'
      <3>1. CASE e = NullQueue BY <3>1 DEF CacheInv, QueueTypeOK, OneOwnQueuePerThread, Own
      <3>2. CASE e \in Handles
        <4>1. \A q \in Handles : q # e => q \notin Own(want[t]) \/ maker[q] # t
          BY <2>0 DEF CacheInv, QueueTypeOK, OwnInv, Own
        <4> QED BY <2>0, <3>2, <4>1 DEF CacheInv, QueueTypeOK, OneOwnQueuePerThread, Own
      <3> QED BY <3>1, <3>2
    <2> QED BY <2>1, <2>2, <2>3, <2>4, <2>5 DEF CacheInv
  <1>5. ASSUME NEW t \in Threads, InsertCreated(t)
        PROVE  CacheInv'
    <2> USE <1>5 DEF InsertCreated, Remember, Return, objects
    <2>0. want[t] \in Contexts BY DEF CacheInv, PlaceInv
    <2>1. QueueTypeOK' BY <2>0 DEF CacheInv, QueueTypeOK, Entries
    <2>2. PlaceInv' BY <2>0 DEF CacheInv, QueueTypeOK, PlaceInv, Entries
    <2>3. OwnInv' BY <2>0 DEF CacheInv, QueueTypeOK, OwnInv, Entries
    <2>4. HeldInv' BY DEF CacheInv, QueueTypeOK, HeldInv
    <2>5. OneOwnQueuePerThread' BY DEF CacheInv, QueueTypeOK, OneOwnQueuePerThread, Own
    <2> QED BY <2>1, <2>2, <2>3, <2>4, <2>5 DEF CacheInv
  <1>6. ASSUME NEW t \in Threads, ReadEntry(t)
        PROVE  CacheInv'
    <2> USE <1>6 DEF ReadEntry, Return, objects
    <2>0. want[t] \in Contexts /\ cache[want[t]] \in Handles \cup {NullQueue}
      BY DEF CacheInv, PlaceInv, QueueTypeOK, Entries
    <2>1. QueueTypeOK' BY <2>0 DEF CacheInv, QueueTypeOK, Entries
    <2>2. PlaceInv' BY DEF CacheInv, QueueTypeOK, PlaceInv, Entries
    <2>3. OwnInv' BY DEF CacheInv, QueueTypeOK, OwnInv, Entries
    <2>4. HeldInv' BY DEF CacheInv, QueueTypeOK, HeldInv
    <2>5. OneOwnQueuePerThread' BY DEF CacheInv, QueueTypeOK, OneOwnQueuePerThread, Own
    <2> QED BY <2>1, <2>2, <2>3, <2>4, <2>5 DEF CacheInv
  <1>7. ASSUME NEW q \in Handles, RetainCommandQueue(q) \/ ReleaseCommandQueue(q)
        PROVE  CacheInv'
    <2>0. /\ UNCHANGED <<ctx, kind, maker, cache, pc, want, fresh, given, exited>>
          /\ held' \in [Handles -> 0 .. MaxRefs] /\ refs' \in [Handles -> 0 .. MaxRefs]
          /\ \A p \in Handles : (refs'[p] > 0 <=> refs[p] > 0) /\ held'[p] <= refs'[p]
      <3>1. CASE RetainCommandQueue(q) BY <3>1 DEF RetainCommandQueue, CacheInv, QueueTypeOK, HeldInv
      <3>2. CASE ReleaseCommandQueue(q) BY <3>2 DEF ReleaseCommandQueue, CacheInv, QueueTypeOK, HeldInv
      <3> QED BY <1>7, <3>1, <3>2
    <2>1. QueueTypeOK'
      <3>1. exited' \in BOOLEAN BY <2>0, Zenon DEF CacheInv, QueueTypeOK
      <3>2. /\ ctx' = ctx /\ kind' = kind /\ maker' = maker /\ cache' = cache /\ pc' = pc
            /\ want' = want /\ fresh' = fresh /\ given' = given
        BY <2>0
      <3> QED BY <2>0, <3>1, <3>2, Zenon DEF CacheInv, QueueTypeOK, Entries
    <2>2. PlaceInv' BY <2>0 DEF CacheInv, PlaceInv
    <2>3. OwnInv' BY <2>0 DEF CacheInv, OwnInv
    <2>4. HeldInv' BY <2>0 DEF HeldInv
    <2>5. OneOwnQueuePerThread' BY <2>0 DEF CacheInv, OneOwnQueuePerThread, Own
    <2> QED BY <2>1, <2>2, <2>3, <2>4, <2>5 DEF CacheInv
  <1>8. CASE UNCHANGED vars
    BY <1>8 DEF vars, objects, CacheInv, QueueTypeOK, HeldInv, PlaceInv, OwnInv, OneOwnQueuePerThread, Own
  <1> QED BY <1>1, <1>2, <1>3, <1>4, <1>5, <1>6, <1>7, <1>8 DEF Next

\* The queue cache is type correct: no step stores what its type excludes.
THEOREM QueueTypeCorrect == Spec => []QueueTypeOK
  <1>1. CacheInv => QueueTypeOK BY DEF CacheInv
  <1> QED BY <1>1, CacheInvInit, CacheInvNext, PTL DEF Spec

\* Whatever the application does and whichever creations fail, no thread ever
\* makes the detector a second queue for one context.
THEOREM OneOwnQueuePerThreadCorrect == Spec => []OneOwnQueuePerThread
  <1>1. CacheInv => OneOwnQueuePerThread BY DEF CacheInv
  <1> QED BY <1>1, CacheInvInit, CacheInvNext, PTL DEF Spec

\* An entry, once made, never changes: reading it outside the lock is safe.
THEOREM EntryStableCorrect == Spec => EntryStable
  <1>1. CacheInv /\ [Next]_vars =>
            [\A c \in Contexts : cache[c] # NoEntry => cache'[c] = cache[c]]_vars
    BY DEF CacheInv, QueueTypeOK, Next, vars, objects, CreateCommandQueue, CreateWithProperties,
           FindQueue, MakeQueue, InsertCreated, ReadEntry, RetainCommandQueue,
           ReleaseCommandQueue, Remember
  <1> QED BY <1>1, CacheInvInit, CacheInvNext, PTL DEF Spec, EntryStable

-----------------------------------------------------------------------------
LEMMA LegalInvNext ==
  ASSUME CacheInv, LegalInv, [Next]_vars
  PROVE  LegalInv'
  <1> USE QueueAssumption
  <1>1. ASSUME NEW t \in Threads, NEW c \in Contexts, NEW e \in Handles \cup {NullQueue},
               CreateCommandQueue(t, c, e)
        PROVE  LegalInv'
    BY <1>1 DEF CreateCommandQueue, Obtain, Create, Remember, objects,
                CacheInv, QueueTypeOK, LegalInv, Usable, Entries
  <1>2. ASSUME NEW t \in Threads, NEW c \in Contexts, NEW e \in Handles \cup {NullQueue},
               NEW k \in {"host", "device"}, CreateWithProperties(t, c, e, k)
        PROVE  LegalInv'
    BY <1>2 DEF CreateWithProperties, Obtain, Create, objects,
                CacheInv, QueueTypeOK, LegalInv, Usable, Entries
  <1>3. ASSUME NEW t \in Threads, NEW c \in Contexts, FindQueue(t, c)
        PROVE  LegalInv'
    BY <1>3 DEF FindQueue, objects, CacheInv, QueueTypeOK, LegalInv, Usable
  <1>4. ASSUME NEW t \in Threads, NEW e \in Handles \cup {NullQueue}, MakeQueue(t, e)
        PROVE  LegalInv'
    <2> USE <1>4 DEF MakeQueue, Obtain, Create, Remember, Return, objects
    <2>0. want[t] \in Contexts BY DEF CacheInv, PlaceInv
    <2>1. \/ e = NullQueue /\ want[t] \in Rough
          \/ e \in Handles /\ ctx'[e] = want[t] /\ kind'[e] = "host" /\ refs'[e] > 0
      BY <2>0 DEF CacheInv, QueueTypeOK
    <2>2. \A c, q : Usable(c, q) => Usable(c, q)' BY DEF CacheInv, QueueTypeOK, Usable
    <2>3. (\A c \in Contexts \ Rough : cache[c] # NoEntry => Usable(c, cache[c]))'
      BY <2>0, <2>1, <2>2 DEF CacheInv, QueueTypeOK, LegalInv, Usable
    <2>4. (\A s \in Threads : pc[s] = "created" /\ want[s] \notin Rough => Usable(want[s], fresh[s]))'
      BY <2>2 DEF CacheInv, QueueTypeOK, LegalInv
    <2>5. (\A p \in given : p[1] \notin Rough => Usable(p[1], p[2]))' BY <2>1, <2>2 DEF LegalInv, Usable
    <2> QED BY <2>3, <2>4, <2>5 DEF LegalInv
  <1>5. ASSUME NEW t \in Threads, InsertCreated(t)
        PROVE  LegalInv'
    <2>0. want[t] \in Contexts BY <1>5 DEF InsertCreated, CacheInv, PlaceInv
    <2> QED BY <1>5, <2>0 DEF InsertCreated, Remember, Return, objects, CacheInv, QueueTypeOK, LegalInv, Usable
  <1>6. ASSUME NEW t \in Threads, ReadEntry(t)
        PROVE  LegalInv'
    <2>0. want[t] \notin Rough => Usable(want[t], cache[want[t]]) BY <1>6 DEF ReadEntry, CacheInv, PlaceInv, LegalInv
    <2> QED BY <1>6, <2>0 DEF ReadEntry, Return, objects, CacheInv, QueueTypeOK, LegalInv, Usable
  <1>7. ASSUME NEW q \in Handles, RetainCommandQueue(q) \/ ReleaseCommandQueue(q)
        PROVE  LegalInv'
    BY <1>7 DEF RetainCommandQueue, ReleaseCommandQueue, CacheInv, QueueTypeOK, LegalInv, Usable
  <1>8. CASE UNCHANGED vars
    BY <1>8 DEF vars, objects, LegalInv, Usable
  <1> QED BY <1>1, <1>2, <1>3, <1>4, <1>5, <1>6, <1>7, <1>8 DEF Next

\* In a context where the application creates host queues and no creation
\* fails, the detector always gets a legal queue, and it stays legal, whatever
\* happens in other contexts.
THEOREM LegalQueueCorrect == Spec => []LegalQueue
  <1>1. Init => CacheInv /\ LegalInv
    BY CacheInvInit DEF Init, LegalInv
  <1>2. CacheInv /\ LegalInv /\ [Next]_vars => (CacheInv /\ LegalInv)'
    BY CacheInvNext, LegalInvNext
  <1>3. LegalInv => LegalQueue
    BY DEF LegalInv, Usable, LegalQueue
  <1> QED BY <1>1, <1>2, <1>3, PTL DEF Spec
=============================================================================
