--------------------------- MODULE MemObjectProofs ---------------------------
(***************************************************************************)
(* Proofs about MemObjects, for any number of threads, objects and         *)
(* handles: as long as no two threads retain or release the same object at *)
(* once, the table has the right records and the counts agree.             *)
(***************************************************************************)
EXTENDS MemObjects, TLAPS, FiniteSetTheorems

Places == {"idle", "insert", "retain", "retained", "release", "remove", "runtime", "main"}

MemTypeOK ==
    /\ handle \in [Objects -> Handles \cup {NoHandle}]
    /\ kind \in [Objects -> AllKinds]
    /\ maker \in [Objects -> {"user", "internal"}]
    /\ refs \in [Objects -> Nat]
    /\ mainRefs \in [Objects -> Nat]
    /\ held \in [Objects -> Nat]
    /\ table \in [Handles -> Objects \cup {NoObject}]
    /\ count \in [Objects -> Int]
    /\ freed \subseteq Objects
    /\ pc \in [Threads -> Places]
    /\ job \in [Threads -> Objects \cup {NoObject}]
    /\ ptr \in [Threads -> Objects \cup {NoObject}]
    /\ val \in [Threads -> Int]
    /\ \A t \in Threads : pc[t] # "idle" => job[t] \in Objects

\* One call at a time is about an object.
OneCall ==
    \A t, u \in Threads : pc[t] # "idle" /\ pc[u] # "idle" /\ job[t] = job[u] => t = u

\* Objects that exist or that calls are about have handles, those that exist
\* different ones.
OwnHandle ==
    /\ \A o \in Objects : handle[o] = NoHandle => refs[o] = 0 /\ held[o] = 0 /\ o \notin freed
    /\ \A t \in Threads : pc[t] # "idle" => handle[job[t]] # NoHandle
    /\ \A o, p \in Objects : refs[o] > 0 /\ refs[p] > 0 /\ handle[o] = handle[p] => o = p

\* What is in the table has been put there for an object that exists.
TableInv ==
    \A h \in Handles : table[h] # NoObject =>
        /\ handle[table[h]] = h
        /\ refs[table[h]] > 0
        /\ table[h] \notin freed
        /\ Registered(kind[table[h]])

\* The record of o is in the table, if the object has one, and counts n.
Known(o, n) == Registered(kind[o]) => table[handle[o]] = o /\ count[o] = n

\* The main buffer of o, if there is one, is held n times.
MainHeld(o, n) == mainRefs[o] = IF HasMain(o) THEN n ELSE 0

\* o between calls.
RestAt(o) ==
    /\ held[o] = refs[o]
    /\ MainHeld(o, refs[o])
    /\ refs[o] > 0 => Known(o, refs[o])

RestInv == \A o \in Objects : Quiet(o) => RestAt(o)

\* The call has the record of its object, if there is one.
FoundOwn(t) == ptr[t] = IF Registered(kind[job[t]]) THEN job[t] ELSE NoObject

\* o in the middle of the call of t, by how far the call has come.
CallAt(t) ==
    LET o == job[t] IN
        /\ pc[t] \in {"insert", "retain", "retained", "release", "remove", "runtime"} =>
              refs[o] > 0 /\ MainHeld(o, refs[o])
        /\ pc[t] = "insert" =>
              /\ held[o] = 0 /\ refs[o] = 1 /\ count[o] = 1
              /\ o \notin freed /\ table[handle[o]] = NoObject
        /\ pc[t] \notin {"idle", "insert"} => FoundOwn(t)
        /\ pc[t] = "retain" => held[o] = refs[o] /\ Known(o, refs[o])
        /\ pc[t] = "retained" => held[o] = refs[o] /\ Known(o, refs[o] + 1)
        /\ pc[t] = "release" => refs[o] = held[o] + 1 /\ Known(o, refs[o])
        /\ pc[t] \in {"retain", "release"} /\ Registered(kind[o]) => val[t] = refs[o]
        /\ pc[t] = "remove" => held[o] = 0 /\ refs[o] = 1 /\ Registered(kind[o]) /\ Known(o, 0)
        /\ pc[t] = "runtime" =>
              /\ refs[o] = held[o] + 1
              /\ held[o] > 0 => Known(o, held[o])
              /\ held[o] = 0 => table[handle[o]] # o
        /\ pc[t] = "main" =>
              /\ HasMain(o) /\ refs[o] = held[o] /\ MainHeld(o, refs[o] + 1)
              /\ held[o] > 0 => Known(o, held[o])

CallInv == \A t \in Threads : CallAt(t)

MemInv ==
    /\ MemTypeOK /\ OneCall /\ OwnHandle /\ TableInv /\ RestInv /\ CallInv
    /\ NoDangling

-----------------------------------------------------------------------------
(***************************************************************************)
(* What a step of one call leaves alone.                                   *)
(***************************************************************************)

\* Nothing of o changes, nor what is found under its handle while it exists.
Same(o) ==
    /\ handle'[o] = handle[o] /\ kind'[o] = kind[o]
    /\ refs'[o] = refs[o] /\ mainRefs'[o] = mainRefs[o] /\ held'[o] = held[o]
    /\ count'[o] = count[o] /\ (o \notin freed => o \notin freed')
    /\ refs[o] > 0 => table'[handle[o]] = table[handle[o]]

\* Only t moves, which is or will be busy with o, and only o changes.
OnlyOf(t, o) ==
    /\ pc[t] = "idle" \/ job[t] = o
    /\ job'[t] = o
    /\ \A u \in Threads \ {t} :
          /\ ~Busy(u, o)
          /\ pc'[u] = pc[u] /\ job'[u] = job[u] /\ ptr'[u] = ptr[u] /\ val'[u] = val[u]
    /\ \A p \in Objects \ {o} : Same(p)

LEMMA SameRest ==
    ASSUME NEW o \in Objects, Same(o), RestAt(o)
    PROVE  RestAt(o)'
  BY DEF Same, RestAt, MainHeld, HasMain, Known, Registered

LEMMA SameCall ==
    ASSUME MemTypeOK, NEW t \in Threads, CallAt(t), pc[t] # "idle" => Same(job[t]),
           pc'[t] = pc[t], job'[t] = job[t], ptr'[t] = ptr[t], val'[t] = val[t]
    PROVE  CallAt(t)'
  <1>1. CASE pc[t] = "idle" BY <1>1 DEF CallAt
  <1>2. CASE pc[t] # "idle"
    <2> USE <1>2 DEF MemTypeOK
    <2>1. /\ Registered(kind[job[t]])' <=> Registered(kind[job[t]])
          /\ HasMain(job[t])' <=> HasMain(job[t])
      BY DEF Same, Registered, HasMain
    <2>2. FoundOwn(t) => FoundOwn(t)' BY <2>1 DEF FoundOwn
    <2>3. refs[job[t]] > 0 => \A n \in Int : Known(job[t], n) => Known(job[t], n)'
      BY <2>1 DEF Same, Known
    <2>4. \A n \in Int : MainHeld(job[t], n) => MainHeld(job[t], n)'
      BY <2>1 DEF Same, MainHeld
    <2>5. job[t] \in Objects /\ refs[job[t]] \in Nat /\ held[job[t]] \in Nat OBVIOUS
    <2> QED BY <2>1, <2>2, <2>3, <2>4, <2>5 DEF CallAt, Same, Places
  <1> QED BY <1>1, <1>2

LEMMA Locality ==
    ASSUME MemInv, NEW t \in Threads, NEW o \in Objects, OnlyOf(t, o),
           CallAt(t)', pc'[t] = "idle" => RestAt(o)'
    PROVE  OneCall' /\ RestInv' /\ CallInv'
  <1> USE DEF MemInv
  <1>1. OneCall' BY DEF OneCall, OnlyOf, Busy
  <1>2. RestInv'
    <2> SUFFICES ASSUME NEW p \in Objects, Quiet(p)' PROVE RestAt(p)'
      BY DEF RestInv
    <2>1. CASE p = o BY <2>1 DEF OnlyOf, Quiet, Busy
    <2>2. CASE p # o
      <3>1. Quiet(p) BY <2>2 DEF OnlyOf, Quiet, Busy
      <3> QED BY <2>2, <3>1, SameRest DEF RestInv, OnlyOf
    <2> QED BY <2>1, <2>2
  <1>3. CallInv'
    <2> SUFFICES ASSUME NEW u \in Threads PROVE CallAt(u)'
      BY DEF CallInv
    <2>1. CASE u = t BY <2>1
    <2>2. CASE u # t
      <3>1. pc[u] # "idle" => Same(job[u]) BY <2>2 DEF OnlyOf, Busy, MemTypeOK
      <3> QED BY <2>2, <3>1, SameCall DEF CallInv, OnlyOf
    <2> QED BY <2>1, <2>2
  <1> QED BY <1>1, <1>2, <1>3

\* What a lookup of an object at rest finds.
LEMMA Lookup ==
    ASSUME MemInv, NEW o \in Objects, Quiet(o), held[o] > 0
    PROVE  /\ handle[o] \in Handles
           /\ table[handle[o]] = IF Registered(kind[o]) THEN o ELSE NoObject
           /\ refs[o] = held[o] /\ Known(o, refs[o]) /\ MainHeld(o, refs[o])
  <1>1. handle[o] \in Handles BY DEF MemInv, MemTypeOK, OwnHandle
  <1>2. refs[o] = held[o] /\ Known(o, refs[o]) /\ MainHeld(o, refs[o])
    BY DEF MemInv, MemTypeOK, RestInv, RestAt
  <1>3. table[handle[o]] = NoObject \/ table[handle[o]] = o
    BY <1>1, <1>2 DEF MemInv, MemTypeOK, TableInv, OwnHandle
  <1> QED BY <1>1, <1>2, <1>3, MemAssumption DEF MemInv, TableInv, Known

\* What a call that has come some way knows of its object.
LEMMA Calling ==
    ASSUME MemInv, NEW t \in Threads, pc[t] # "idle"
    PROVE  /\ job[t] \in Objects /\ handle[job[t]] \in Handles
           /\ \A u \in Threads \ {t} : ~Busy(u, job[t])
           /\ CallAt(t)
  BY DEF MemInv, MemTypeOK, OwnHandle, OneCall, Busy, CallInv

\* An object that exists is alone with its handle, in the table too.
LEMMA OwnEntry ==
    ASSUME MemInv, NEW o \in Objects, NEW p \in Objects, p # o, refs[o] > 0, refs[p] > 0
    PROVE  /\ handle[p] \in Handles /\ handle[p] # handle[o]
           /\ table[handle[p]] # o
  BY MemAssumption DEF MemInv, MemTypeOK, OwnHandle, TableInv

-----------------------------------------------------------------------------
LEMMA MemInvInit == Init => MemInv
  <1> SUFFICES ASSUME Init PROVE MemInv
    OBVIOUS
  <1> USE MemAssumption DEF Init
  <1>1. MemTypeOK BY DEF MemTypeOK, AllKinds, Places
  <1>2. OneCall /\ OwnHandle /\ TableInv BY DEF OneCall, OwnHandle, TableInv, Quiet, Busy
  <1>3. RestInv /\ CallInv BY DEF RestInv, CallInv, RestAt, CallAt, MainHeld, HasMain
  <1>4. NoDangling BY Zenon DEF NoDangling
  <1> QED BY <1>1, <1>2, <1>3, <1>4 DEF MemInv

LEMMA MemInvNext == Exclusive /\ MemInv /\ [Next]_vars => MemInv'
  <1> SUFFICES ASSUME Exclusive, MemInv, [Next]_vars PROVE MemInv'
    OBVIOUS
  <1> USE MemAssumption
  <1>1. ASSUME NEW t \in Threads, NEW o \in Objects, NEW h \in Handles, NEW k \in Kinds, NEW m \in Makers,
               Create(t, o, h, k, m)
        PROVE  MemInv'
    <2> USE <1>1 DEF Create, Goto
    <2>0. /\ handle[o] = NoHandle /\ refs[o] = 0 /\ held[o] = 0
          /\ o \notin freed /\ table[h] = NoObject
          /\ \A p \in Objects : refs[p] > 0 => handle[p] # h
          /\ \A u \in Threads : ~Busy(u, o)
      BY DEF MemInv, MemTypeOK, OwnHandle, TableInv, InUse, Busy
    <2>1. MemTypeOK' BY <2>0 DEF MemInv, MemTypeOK, Places, AllKinds, CallAt, MainHeld, HasMain
    <2>2. OnlyOf(t, o) BY <2>0, OwnEntry DEF MemInv, MemTypeOK, OnlyOf, Same, Quiet, CallAt, FoundOwn, Known
    <2>3. CallAt(t)' BY <2>0 DEF MemInv, MemTypeOK, CallAt, FoundOwn, MainHeld, HasMain, Known, Registered
    <2>4. pc'[t] = "idle" => RestAt(o)' BY <2>0 DEF MemInv, MemTypeOK, CallAt, FoundOwn, RestAt, MainHeld, HasMain, Known, Registered
    <2>5. OwnHandle' BY <2>0 DEF MemInv, MemTypeOK, OwnHandle, CallAt
    <2>6. TableInv' BY <2>0 DEF MemInv, MemTypeOK, TableInv, Registered, CallAt
    <2>7. NoDangling' BY Zenon DEF MemInv, NoDangling
    <2>8. OneCall' /\ RestInv' /\ CallInv' BY <2>0, <2>2, <2>3, <2>4, Locality
    <2> QED BY <2>1, <2>5, <2>6, <2>7, <2>8 DEF MemInv
  <1>2. ASSUME NEW t \in Threads, NEW k \in Kinds, NEW m \in Makers, CreateFails(t, k, m)
        PROVE  MemInv'
    <2> USE <1>2 DEF CreateFails, objects, records, locals
    <2>1. MemTypeOK' BY DEF MemInv, MemTypeOK
    <2>2. OneCall' /\ OwnHandle' /\ TableInv' BY DEF MemInv, OneCall, OwnHandle, TableInv
    <2>3. RestInv' BY DEF MemInv, RestInv, RestAt, Quiet, Busy, MainHeld, HasMain, Known
    <2>4. CallInv' BY DEF MemInv, CallInv, CallAt, FoundOwn, MainHeld, HasMain, Known
    <2>5. NoDangling' BY Zenon DEF MemInv, NoDangling
    <2> QED BY <2>1, <2>2, <2>3, <2>4, <2>5 DEF MemInv
  <1>3. ASSUME NEW t \in Threads, Insert(t)
        PROVE  MemInv'
    <2> USE <1>3 DEF Insert, Goto, locals
    <2>0. PICK o \in Objects :
             /\ o = job[t] /\ handle[o] \in Handles /\ CallAt(t)
             /\ \A u \in Threads \ {t} : ~Busy(u, o)
      BY Calling
    <2>1. MemTypeOK' BY <2>0 DEF MemInv, MemTypeOK, Places, AllKinds, CallAt, MainHeld, HasMain
    <2>2. OnlyOf(t, o) BY <2>0, OwnEntry DEF MemInv, MemTypeOK, OnlyOf, Same, Quiet, CallAt, FoundOwn, Known
    <2>3. CallAt(t)' BY <2>0 DEF MemInv, MemTypeOK, CallAt, FoundOwn, MainHeld, HasMain, Known, Registered
    <2>4. pc'[t] = "idle" => RestAt(o)' BY <2>0 DEF MemInv, MemTypeOK, CallAt, FoundOwn, RestAt, MainHeld, HasMain, Known, Registered
    <2>5. OwnHandle' BY <2>0 DEF MemInv, MemTypeOK, OwnHandle, CallAt
    <2>6. TableInv' BY <2>0 DEF MemInv, MemTypeOK, TableInv, Registered, CallAt
    <2>7. NoDangling' BY Zenon DEF MemInv, NoDangling
    <2>8. OneCall' /\ RestInv' /\ CallInv' BY <2>0, <2>2, <2>3, <2>4, Locality
    <2> QED BY <2>1, <2>5, <2>6, <2>7, <2>8 DEF MemInv
  <1>4. ASSUME NEW t \in Threads, NEW o \in Objects, RetainMemObject(t, o)
        PROVE  MemInv'
    <2> USE <1>4 DEF RetainMemObject, Find, Goto, objects, records
    <2>0. /\ Quiet(o) /\ handle[o] \in Handles
          /\ table[handle[o]] = IF Registered(kind[o]) THEN o ELSE NoObject
          /\ refs[o] = held[o] /\ refs[o] > 0 /\ Known(o, refs[o]) /\ MainHeld(o, refs[o])
      BY Lookup
    <2>1. MemTypeOK' BY <2>0 DEF MemInv, MemTypeOK, Places, AllKinds, CallAt, MainHeld, HasMain
    <2>2. OnlyOf(t, o) BY <2>0, OwnEntry DEF MemInv, MemTypeOK, OnlyOf, Same, Quiet, CallAt, FoundOwn, Known
    <2>3. CallAt(t)' BY <2>0 DEF MemInv, MemTypeOK, CallAt, FoundOwn, MainHeld, HasMain, Known, Registered
    <2>4. pc'[t] = "idle" => RestAt(o)' BY <2>0 DEF MemInv, MemTypeOK, CallAt, FoundOwn, RestAt, MainHeld, HasMain, Known, Registered
    <2>5. OwnHandle' BY <2>0 DEF MemInv, MemTypeOK, OwnHandle, CallAt
    <2>6. TableInv' BY <2>0 DEF MemInv, MemTypeOK, TableInv, Registered, CallAt
    <2>7. NoDangling'
      <3>1. ptr'[t] \notin freed BY <2>0, MemAssumption DEF MemInv, MemTypeOK, TableInv
      <3> QED BY <3>1, Zenon DEF MemInv, NoDangling
    <2>8. OneCall' /\ RestInv' /\ CallInv' BY <2>0, <2>2, <2>3, <2>4, Locality
    <2> QED BY <2>1, <2>5, <2>6, <2>7, <2>8 DEF MemInv
  <1>5. ASSUME NEW t \in Threads, CountRetain(t)
        PROVE  MemInv'
    <2> USE <1>5 DEF CountRetain, StoreCount, Goto, objects, locals
    <2>0. PICK o \in Objects :
             /\ o = job[t] /\ handle[o] \in Handles /\ CallAt(t)
             /\ \A u \in Threads \ {t} : ~Busy(u, o)
      BY Calling
    <2>1. MemTypeOK' BY <2>0 DEF MemInv, MemTypeOK, Places, AllKinds, CallAt, MainHeld, HasMain
    <2>2. OnlyOf(t, o) BY <2>0, OwnEntry DEF MemInv, MemTypeOK, OnlyOf, Same, Quiet, CallAt, FoundOwn, Known
    <2>3. CallAt(t)' BY <2>0 DEF MemInv, MemTypeOK, CallAt, FoundOwn, MainHeld, HasMain, Known, Registered
    <2>4. pc'[t] = "idle" => RestAt(o)' BY <2>0 DEF MemInv, MemTypeOK, CallAt, FoundOwn, RestAt, MainHeld, HasMain, Known, Registered
    <2>5. OwnHandle' BY <2>0 DEF MemInv, MemTypeOK, OwnHandle, CallAt
    <2>6. TableInv' BY <2>0 DEF MemInv, MemTypeOK, TableInv, Registered, CallAt
    <2>7. NoDangling'
      <3>1. ptr[t] \notin freed
        BY <2>0, MemAssumption DEF MemInv, MemTypeOK, TableInv, CallAt, FoundOwn, Known
      <3> QED BY <3>1, Zenon DEF MemInv, NoDangling
    <2>8. OneCall' /\ RestInv' /\ CallInv' BY <2>0, <2>2, <2>3, <2>4, Locality
    <2> QED BY <2>1, <2>5, <2>6, <2>7, <2>8 DEF MemInv
  <1>6. ASSUME NEW t \in Threads, RetainInRuntime(t)
        PROVE  MemInv'
    <2> USE <1>6 DEF RetainInRuntime, Goto, records, locals
    <2>0. PICK o \in Objects :
             /\ o = job[t] /\ handle[o] \in Handles /\ CallAt(t)
             /\ \A u \in Threads \ {t} : ~Busy(u, o)
      BY Calling
    <2>1. MemTypeOK' BY <2>0 DEF MemInv, MemTypeOK, Places, AllKinds, CallAt, MainHeld, HasMain
    <2>2. OnlyOf(t, o) BY <2>0, OwnEntry DEF MemInv, MemTypeOK, OnlyOf, Same, Quiet, CallAt, FoundOwn, Known
    <2>3. CallAt(t)' BY <2>0 DEF MemInv, MemTypeOK, CallAt, FoundOwn, MainHeld, HasMain, Known, Registered
    <2>4. pc'[t] = "idle" => RestAt(o)' BY <2>0 DEF MemInv, MemTypeOK, CallAt, FoundOwn, RestAt, MainHeld, HasMain, Known, Registered
    <2>5. OwnHandle' BY <2>0 DEF MemInv, MemTypeOK, OwnHandle, CallAt
    <2>6. TableInv' BY <2>0 DEF MemInv, MemTypeOK, TableInv, Registered, CallAt
    <2>7. NoDangling' BY Zenon DEF MemInv, NoDangling
    <2>8. OneCall' /\ RestInv' /\ CallInv' BY <2>0, <2>2, <2>3, <2>4, Locality
    <2> QED BY <2>1, <2>5, <2>6, <2>7, <2>8 DEF MemInv
  <1>7. ASSUME NEW t \in Threads, NEW o \in Objects, ReleaseMemObject(t, o)
        PROVE  MemInv'
    <2> USE <1>7 DEF ReleaseMemObject, Find, Goto, records
    <2>p. held[o] > 0
      <3>1. {u \in Threads : Busy(u, o) /\ pc[u] \in {"retain", "retained"}} = {} BY DEF Quiet
      <3> QED BY <3>1, FS_EmptySet DEF Pins, MemInv, MemTypeOK
    <2>0. /\ Quiet(o) /\ handle[o] \in Handles
          /\ table[handle[o]] = IF Registered(kind[o]) THEN o ELSE NoObject
          /\ refs[o] = held[o] /\ refs[o] > 0 /\ Known(o, refs[o]) /\ MainHeld(o, refs[o])
      BY <2>p, Lookup
    <2>1. MemTypeOK' BY <2>0 DEF MemInv, MemTypeOK, Places, AllKinds, CallAt, MainHeld, HasMain
    <2>2. OnlyOf(t, o) BY <2>0, OwnEntry DEF MemInv, MemTypeOK, OnlyOf, Same, Quiet, CallAt, FoundOwn, Known
    <2>3. CallAt(t)' BY <2>0 DEF MemInv, MemTypeOK, CallAt, FoundOwn, MainHeld, HasMain, Known, Registered
    <2>4. pc'[t] = "idle" => RestAt(o)' BY <2>0 DEF MemInv, MemTypeOK, CallAt, FoundOwn, RestAt, MainHeld, HasMain, Known, Registered
    <2>5. OwnHandle' BY <2>0 DEF MemInv, MemTypeOK, OwnHandle, CallAt
    <2>6. TableInv' BY <2>0 DEF MemInv, MemTypeOK, TableInv, Registered, CallAt
    <2>7. NoDangling'
      <3>1. ptr'[t] \notin freed BY <2>0, MemAssumption DEF MemInv, MemTypeOK, TableInv
      <3> QED BY <3>1, Zenon DEF MemInv, NoDangling
    <2>8. OneCall' /\ RestInv' /\ CallInv' BY <2>0, <2>2, <2>3, <2>4, Locality
    <2> QED BY <2>1, <2>5, <2>6, <2>7, <2>8 DEF MemInv
  <1>8. ASSUME NEW t \in Threads, CountRelease(t)
        PROVE  MemInv'
    <2> USE <1>8 DEF CountRelease, StoreCount, Goto, objects, locals
    <2>0. PICK o \in Objects :
             /\ o = job[t] /\ handle[o] \in Handles /\ CallAt(t)
             /\ \A u \in Threads \ {t} : ~Busy(u, o)
      BY Calling
    <2>1. MemTypeOK' BY <2>0 DEF MemInv, MemTypeOK, Places, AllKinds, CallAt, MainHeld, HasMain
    <2>2. OnlyOf(t, o) BY <2>0, OwnEntry DEF MemInv, MemTypeOK, OnlyOf, Same, Quiet, CallAt, FoundOwn, Known
    <2>3. CallAt(t)'
      <3>1. CASE Registered(kind[o])
        <4>1. ptr[t] = o /\ val[t] = refs[o] /\ table[handle[o]] = o
          BY <2>0, <3>1 DEF CallAt, FoundOwn, Known
        <4>2. CASE val[t] = 1
          BY <2>0, <3>1, <4>1, <4>2
          DEF MemInv, MemTypeOK, CallAt, FoundOwn, MainHeld, HasMain, Known, Registered
        <4>3. CASE val[t] # 1
          BY <2>0, <3>1, <4>1, <4>3
          DEF MemInv, MemTypeOK, CallAt, FoundOwn, MainHeld, HasMain, Known, Registered
        <4> QED BY <4>2, <4>3
      <3>2. CASE ~Registered(kind[o])
        <4>1. ptr[t] = NoObject /\ table[handle[o]] # o
          BY <2>0, <3>2 DEF MemInv, TableInv, CallAt, FoundOwn
        <4> QED BY <2>0, <3>2, <4>1
                DEF MemInv, MemTypeOK, CallAt, FoundOwn, MainHeld, HasMain, Known, Registered
      <3> QED BY <3>1, <3>2
    <2>4. pc'[t] = "idle" => RestAt(o)' BY <2>0 DEF MemInv, MemTypeOK, CallAt, FoundOwn, RestAt, MainHeld, HasMain, Known, Registered
    <2>5. OwnHandle' BY <2>0 DEF MemInv, MemTypeOK, OwnHandle, CallAt
    <2>6. TableInv' BY <2>0 DEF MemInv, MemTypeOK, TableInv, Registered, CallAt
    <2>7. NoDangling'
      <3>1. ptr[t] \notin freed
        BY <2>0, MemAssumption DEF MemInv, MemTypeOK, TableInv, CallAt, FoundOwn, Known
      <3> QED BY <3>1, Zenon DEF MemInv, NoDangling
    <2>8. OneCall' /\ RestInv' /\ CallInv' BY <2>0, <2>2, <2>3, <2>4, Locality
    <2> QED BY <2>1, <2>5, <2>6, <2>7, <2>8 DEF MemInv
  <1>9. ASSUME NEW t \in Threads, RemoveRecord(t)
        PROVE  MemInv'
    <2> USE <1>9 DEF RemoveRecord, Goto, objects, locals
    <2>0. PICK o \in Objects :
             /\ o = job[t] /\ handle[o] \in Handles /\ CallAt(t)
             /\ \A u \in Threads \ {t} : ~Busy(u, o)
      BY Calling
    <2>1. MemTypeOK' BY <2>0 DEF MemInv, MemTypeOK, Places, AllKinds, CallAt, MainHeld, HasMain
    <2>2. OnlyOf(t, o) BY <2>0, OwnEntry DEF MemInv, MemTypeOK, OnlyOf, Same, Quiet, CallAt, FoundOwn, Known
    <2>3. CallAt(t)' BY <2>0 DEF MemInv, MemTypeOK, CallAt, FoundOwn, MainHeld, HasMain, Known, Registered
    <2>4. pc'[t] = "idle" => RestAt(o)' BY <2>0 DEF MemInv, MemTypeOK, CallAt, FoundOwn, RestAt, MainHeld, HasMain, Known, Registered
    <2>5. OwnHandle' BY <2>0 DEF MemInv, MemTypeOK, OwnHandle, CallAt, Known
    <2>6. TableInv' BY <2>0 DEF MemInv, MemTypeOK, TableInv, Registered, CallAt
    <2>7. NoDangling'
      <3>1. ptr[t] \notin freed
        BY <2>0, MemAssumption DEF MemInv, MemTypeOK, TableInv, CallAt, FoundOwn, Known
      <3> QED BY <3>1, Zenon DEF MemInv, NoDangling
    <2>8. OneCall' /\ RestInv' /\ CallInv' BY <2>0, <2>2, <2>3, <2>4, Locality
    <2> QED BY <2>1, <2>5, <2>6, <2>7, <2>8 DEF MemInv
  <1>10. ASSUME NEW t \in Threads, ReleaseInRuntime(t)
        PROVE  MemInv'
    <2> USE <1>10 DEF ReleaseInRuntime, Goto, records, locals
    <2>0. PICK o \in Objects :
             /\ o = job[t] /\ handle[o] \in Handles /\ CallAt(t)
             /\ \A u \in Threads \ {t} : ~Busy(u, o)
      BY Calling
    <2>1. MemTypeOK' BY <2>0 DEF MemInv, MemTypeOK, Places, AllKinds, CallAt, MainHeld, HasMain
    <2>2. OnlyOf(t, o) BY <2>0, OwnEntry DEF MemInv, MemTypeOK, OnlyOf, Same, Quiet, CallAt, FoundOwn, Known
    <2>3. CallAt(t)' BY <2>0 DEF MemInv, MemTypeOK, CallAt, FoundOwn, MainHeld, HasMain, Known, Registered
    <2>4. pc'[t] = "idle" => RestAt(o)' BY <2>0 DEF MemInv, MemTypeOK, CallAt, FoundOwn, RestAt, MainHeld, HasMain, Known, Registered
    <2>5. OwnHandle' BY <2>0 DEF MemInv, MemTypeOK, OwnHandle, CallAt
    <2>6. TableInv' BY <2>0 DEF MemInv, MemTypeOK, TableInv, Registered, CallAt
    <2>7. NoDangling' BY Zenon DEF MemInv, NoDangling
    <2>8. OneCall' /\ RestInv' /\ CallInv' BY <2>0, <2>2, <2>3, <2>4, Locality
    <2> QED BY <2>1, <2>5, <2>6, <2>7, <2>8 DEF MemInv
  <1>11. ASSUME NEW t \in Threads, ReleaseMain(t)
        PROVE  MemInv'
    <2> USE <1>11 DEF ReleaseMain, Goto, records, locals
    <2>0. PICK o \in Objects :
             /\ o = job[t] /\ handle[o] \in Handles /\ CallAt(t)
             /\ \A u \in Threads \ {t} : ~Busy(u, o)
      BY Calling
    <2>1. MemTypeOK' BY <2>0 DEF MemInv, MemTypeOK, Places, AllKinds, CallAt, MainHeld, HasMain
    <2>2. OnlyOf(t, o) BY <2>0, OwnEntry DEF MemInv, MemTypeOK, OnlyOf, Same, Quiet, CallAt, FoundOwn, Known
    <2>3. CallAt(t)' BY <2>0 DEF MemInv, MemTypeOK, CallAt, FoundOwn, MainHeld, HasMain, Known, Registered
    <2>4. pc'[t] = "idle" => RestAt(o)' BY <2>0 DEF MemInv, MemTypeOK, CallAt, FoundOwn, RestAt, MainHeld, HasMain, Known, Registered
    <2>5. OwnHandle' BY <2>0 DEF MemInv, MemTypeOK, OwnHandle, CallAt
    <2>6. TableInv' BY <2>0 DEF MemInv, MemTypeOK, TableInv, Registered, CallAt
    <2>7. NoDangling' BY Zenon DEF MemInv, NoDangling
    <2>8. OneCall' /\ RestInv' /\ CallInv' BY <2>0, <2>2, <2>3, <2>4, Locality
    <2> QED BY <2>1, <2>5, <2>6, <2>7, <2>8 DEF MemInv
  <1>12. CASE UNCHANGED vars
    <2> USE <1>12 DEF vars, objects, records, locals
    <2>1. MemTypeOK' BY DEF MemInv, MemTypeOK
    <2>2. OneCall' /\ OwnHandle' /\ TableInv'
      BY DEF MemInv, OneCall, OwnHandle, TableInv, Quiet, Busy
    <2>3. RestInv' BY DEF MemInv, RestInv, RestAt, Quiet, Busy, MainHeld, HasMain, Known
    <2>4. CallInv' BY DEF MemInv, CallInv, CallAt, FoundOwn, MainHeld, HasMain, Known
    <2>5. NoDangling' BY Zenon DEF MemInv, NoDangling
    <2> QED BY <2>1, <2>2, <2>3, <2>4, <2>5 DEF MemInv
  <1> QED BY <1>1, <1>2, <1>3, <1>4, <1>5, <1>6, <1>7, <1>8, <1>9, <1>10, <1>11, <1>12 DEF Next, Step

\* The invariant the other theorems rest on.
THEOREM MemInvariant == Exclusive => (Spec => []MemInv)
  <1> SUFFICES ASSUME Exclusive PROVE Spec => []MemInv
    OBVIOUS
  <1>1. Init => MemInv BY MemInvInit
  <1>2. MemInv /\ [Next]_vars => MemInv' BY MemInvNext
  <1> QED BY <1>1, <1>2, PTL DEF Spec

\* With calls on one object kept apart, a record found under a handle is the
\* record of the object that has the handle now, however often the runtime uses
\* handles again (cl_mem_find after cl_mem_insert and cl_mem_remove).
THEOREM RecordsFresh == Exclusive => (Spec => []NoStaleRecord)
  <1>1. MemInv => NoStaleRecord BY DEF MemInv, TableInv, NoStaleRecord
  <1> QED BY <1>1, MemInvariant, PTL

\* With calls on one object kept apart, between them each existing object has
\* its record, with the count the runtime has, and its main buffer is held as
\* often (clRetainMemObject, clReleaseMemObject, releaseInternalMemObject).
THEOREM RecordsTrack == Exclusive => (Spec => []RecordTracks)
  <1>1. MemInv => RecordTracks
    BY DEF MemInv, RestInv, RestAt, RecordTracks, MainHeld, Known
  <1> QED BY <1>1, MemInvariant, PTL

\* With calls on one object kept apart, no call uses a record after it was
\* freed (cl_mem_remove in clReleaseMemObject).
THEOREM NoRecordDangles == Exclusive => (Spec => []NoDangling)
  <1>1. MemInv => NoDangling BY DEF MemInv
  <1> QED BY <1>1, MemInvariant, PTL
=============================================================================
