--------------------------- MODULE SvmMemoryProofs ---------------------------
(***************************************************************************)
(* Proofs about SvmMemory, for any number of threads and contexts, any     *)
(* address space and any sizes.                                            *)
(***************************************************************************)
EXTENDS SvmMemory, TLAPS, FiniteSetTheorems, SequenceTheorems, WellFoundedInduction

Places == {"idle", "find", "take", "real", "fill", "record", "wait", "fgfree", "realfree", "mapping"}

Jobs == [ctx : Contexts \cup {0}, grain : {"fine", "coarse"}, size : Nat, align : Nat, base : Nat,
         enqueued : BOOLEAN]

Allocations == [by : Threads, ptr : Nat \ {0}, size : Nat \ {0}, ctx : Contexts \cup {0},
                grain : {"fine", "coarse"}]

Regions == [ctx : Contexts \cup {0}, base : Nat, size : Nat, align : Nat]

Records == [handle : Nat \ {0}, main : Nat, size : Nat \ {0}, ctx : Contexts \cup {0}]

Checks == [phase : {"none", "count", "list", "find", "release"}, at : Nat, n : Nat, list : Seq(Nat),
           found : SUBSET Nat, copies : SUBSET (Nat \ {0}), due : SUBSET Allocations,
           ctx : Contexts \cup {0}, way : CheckWays \cup {""}]

SvmTypeOK ==
    /\ blocks \subseteq [base : Nat, size : Nat \ {0}]
    /\ records \subseteq Records
    /\ allocated \subseteq Regions /\ free \subseteq Regions
    /\ user \subseteq Allocations
    /\ pc \in [Threads -> Places]
    /\ job \in [Threads -> Jobs]
    /\ fills \in [Threads -> SUBSET Int]
    /\ check \in [Threads -> Checks]

\* What a thread has of a check that the allocations depend on.
Copies(t) == check[t].copies

\* A thread has memory in hand: on its way to the one who asked, or back.
Bringing(t) == pc[t] \in {"fill", "record", "wait"}
Returning(t) == pc[t] \in {"fgfree", "realfree"}

\* n bytes at b are at the start of a block.
Enough(b, n) == \E k \in blocks : k.base = b /\ k.size >= n

\* The runtime's blocks do not overlap.
BlocksInv ==
    \A k, m \in blocks : k # m => \/ k.base + k.size <= m.base
                                  \/ m.base + m.size <= k.base

\* All memory in hand is memory of the runtime.
RoomInv ==
    /\ \A a \in user : Enough(a.ptr - PoisonLen, Padded(a.size))
    /\ \A t \in Threads : Bringing(t) => Enough(job[t].base, Padded(job[t].size))
    /\ \A t \in Threads : Returning(t) => Enough(job[t].base, 1)
    /\ \A t \in Threads : \A p \in Copies(t) : Enough(p - PoisonLen, Padded(2 * PoisonLen))
    /\ \A r \in allocated \cup free : [base |-> r.base, size |-> r.size] \in blocks

\* Nothing is in two hands: the application's, a thread's, a check's or those of
\* the free list.
OwnInv ==
    /\ \A a, b \in user : a.ptr = b.ptr => a = b
    /\ \A r, s \in free : r.base = s.base => r = s
    /\ \A t, u \in Threads :
          (Bringing(t) \/ Returning(t)) /\ (Bringing(u) \/ Returning(u)) /\ job[t].base = job[u].base => t = u
    /\ \A t, u \in Threads : Copies(t) \cap Copies(u) # {} => t = u
    /\ \A a \in user : \A r \in free : a.ptr - PoisonLen # r.base
    /\ \A a \in user : \A t \in Threads : a.ptr \notin Copies(t)
    /\ \A r \in free : \A t \in Threads : r.base + PoisonLen \notin Copies(t)
    /\ \A t \in Threads : Bringing(t) \/ Returning(t) =>
          /\ \A a \in user : a.ptr - PoisonLen # job[t].base
          /\ \A r \in free : r.base # job[t].base
          /\ \A u \in Threads : job[t].base + PoisonLen \notin Copies(u)

\* The lists have the fine-grained memory in hand.
FineInv ==
    /\ \A r, s \in allocated : r.base = s.base => r = s
    /\ \A r \in allocated :
          \/ \E a \in user : a.grain = "fine" /\ a.ptr - PoisonLen = r.base
          \/ \E t \in Threads : Bringing(t) /\ job[t].grain = "fine" /\ job[t].base = r.base
          \/ \E t \in Threads : pc[t] = "fgfree" /\ job[t].base = r.base /\ job[t].ctx = r.ctx
    /\ \A a \in user : a.grain = "fine" =>
          \E r \in allocated : r.base = a.ptr - PoisonLen /\ r.ctx = a.ctx
    /\ \A t \in Threads : Bringing(t) /\ job[t].grain = "fine" =>
          \E r \in allocated : r.base = job[t].base /\ r.ctx = job[t].ctx

\* What a thread has found in the free list is there until it takes it.
TakeInv ==
    /\ \A t, u \in Threads : {pc[t], pc[u]} \subseteq {"find", "take"} => t = u
    /\ \A t \in Threads : pc[t] = "take" =>
          \E r \in free : r.base = job[t].base /\ r.ctx = job[t].ctx /\ r.size >= Padded(job[t].size)

\* Requests of the application and of checks.
JobAt(t) ==
    /\ pc[t] \in {"find", "take", "real"} \/ Bringing(t) => job[t].size > 0
    /\ pc[t] \in {"find", "take"} => job[t].grain = "fine"
    /\ check[t] # NoCheck /\ pc[t] # "idle" =>
          /\ pc[t] \notin {"find", "take", "mapping"}
          /\ pc[t] = "real" \/ Bringing(t) => job[t].grain = "coarse" /\ job[t].size = 2 * PoisonLen
    /\ pc[t] = "fgfree" => ~job[t].enqueued

JobInv == \A t \in Threads : JobAt(t)

\* r is the record of n bytes at p.
Describes(r, p, n) == r.handle = p /\ r.size = n

\* What is recorded is in hand, and the other way round.
RecordsInv ==
    /\ \A r, s \in records : r.handle = s.handle => r = s
    /\ \A r \in records :
          /\ r.main = r.handle - PoisonLen
          /\ \/ \E a \in user : Describes(r, a.ptr, a.size)
             \/ \E t \in Threads : pc[t] = "wait" /\ Describes(r, UserPtr(t), job[t].size)
             \/ \E t \in Threads : r.handle \in Copies(t) /\ r.size = 2 * PoisonLen
    /\ \A a \in user : \E r \in records : Describes(r, a.ptr, a.size)
    /\ \A t \in Threads : pc[t] = "wait" => \E r \in records : Describes(r, UserPtr(t), job[t].size)
    /\ \A t \in Threads : \A p \in Copies(t) : \E r \in records : Describes(r, p, 2 * PoisonLen)

MemoryInv ==
    /\ SvmTypeOK /\ BlocksInv /\ RoomInv /\ OwnInv /\ FineInv /\ TakeInv /\ JobInv /\ RecordsInv
-----------------------------------------------------------------------------
(***************************************************************************)
(* Facts about the operators.                                              *)
(***************************************************************************)

LEMMA LeastNat ==
    ASSUME NEW S \in SUBSET Nat, S # {}
    PROVE  \E m \in S : \A n \in S : m <= n
  <1> DEFINE R == OpToRel(<, Nat)
  <1>1. IsWellFoundedOn(R, Nat) BY NatLessThanWellFounded
  <1>2. \A x, y \in Nat : <<y, x>> \in R <=> y < x BY DEF OpToRel
  <1> HIDE DEF R
  <1>3. PICK m \in S : \A n \in S : ~(<<n, m>> \in R) BY <1>1, WFMin, Zenon
  <1>4. ASSUME NEW n \in S PROVE m <= n
    <2>1. m \in Nat /\ n \in Nat /\ ~(<<n, m>> \in R) BY <1>3
    <2>2. ~(n < m) BY <1>2, <2>1, Zenon
    <2> QED BY <2>1, <2>2
  <1> QED BY <1>4

\* Ranges with nothing in common come one after the other.
LEMMA DisjointBytes ==
    ASSUME NEW b \in Nat, NEW n \in Nat \ {0}, NEW c \in Nat, NEW m \in Nat \ {0},
           Bytes(b, n) \cap Bytes(c, m) = {}
    PROVE  b + n <= c \/ c + m <= b
  <1> SUFFICES ASSUME ~(b + n <= c), ~(c + m <= b) PROVE FALSE
    OBVIOUS
  <1>1. CASE b <= c
    <2>1. c \in Bytes(b, n) /\ c \in Bytes(c, m) BY <1>1 DEF Bytes
    <2> QED BY <2>1
  <1>2. CASE c < b
    <2>1. b \in Bytes(b, n) /\ b \in Bytes(c, m) BY <1>2 DEF Bytes
    <2> QED BY <2>1
  <1> QED BY <1>1, <1>2

\* cl_svm_mem_next answers the least handle behind p, or 0.
LEMMA SvmNextFacts ==
    ASSUME records \subseteq Records, NEW p \in Nat
    PROVE  /\ SvmNext(p) \in Nat
           /\ SvmNext(p) = 0 => \A r \in records : r.handle <= p
           /\ SvmNext(p) # 0 => /\ SvmNext(p) > p
                                /\ \E r \in records : r.handle = SvmNext(p)
                                /\ \A r \in records : r.handle > p => SvmNext(p) <= r.handle
  <1> DEFINE behind == {r.handle : r \in {q \in records : q.handle > p}}
  <1>0. behind \in SUBSET Nat /\ \A h \in behind : h # 0 /\ h > p BY DEF Records
  <1>1. CASE behind = {}
    <2>1. SvmNext(p) = 0 BY <1>1 DEF SvmNext
    <2>2. \A r \in records : ~(r.handle > p) BY <1>1
    <2> QED BY <2>1, <2>2 DEF Records
  <1>2. CASE behind # {}
    <2> DEFINE least == CHOOSE h \in behind : \A k \in behind : h <= k
    <2>1. SvmNext(p) = least BY <1>2 DEF SvmNext
    <2>2. \E h \in behind : \A k \in behind : h <= k
      <3> HIDE DEF behind
      <3> QED BY <1>0, <1>2, LeastNat
    <2>3. least \in behind /\ \A k \in behind : least <= k BY <2>2
    <2> HIDE DEF least
    <2> QED BY <1>0, <2>1, <2>3
  <1> QED BY <1>1, <1>2

-----------------------------------------------------------------------------
(***************************************************************************)
(* Steps that take no memory out of one hand and into another.             *)
(***************************************************************************)

\* No thread gets or loses memory, in this step, by its place and its job.
SameHands ==
    \A t \in Threads :
        /\ Bringing(t)' <=> Bringing(t)
        /\ Returning(t)' <=> Returning(t)
        /\ pc'[t] = "fgfree" <=> pc[t] = "fgfree"
        /\ Bringing(t) \/ Returning(t) => job'[t] = job[t]
        /\ check'[t].copies = check[t].copies

LEMMA Still ==
    ASSUME MemoryInv, SameHands, UNCHANGED <<blocks, allocated, free, user>>
    PROVE  BlocksInv' /\ RoomInv' /\ OwnInv' /\ FineInv'
  <1>1. \A t \in Threads : Copies(t)' = Copies(t) BY DEF SameHands, Copies
  <1>2. BlocksInv' BY DEF MemoryInv, BlocksInv
  <1>3. RoomInv' BY <1>1 DEF MemoryInv, SameHands, RoomInv, Enough
  <1>4. OwnInv' BY <1>1 DEF MemoryInv, SameHands, OwnInv
  <1>5. FineInv' BY DEF MemoryInv, SameHands, FineInv, Bringing, Returning
  <1> QED BY <1>2, <1>3, <1>4, <1>5

LEMMA StillRecorded ==
    ASSUME MemoryInv, SameHands, UNCHANGED <<records, user>>,
           \A t \in Threads : pc'[t] = "wait" <=> pc[t] = "wait"
    PROVE  RecordsInv'
  <1>1. \A t \in Threads : Copies(t)' = Copies(t) BY DEF SameHands, Copies
  <1> QED BY <1>1 DEF MemoryInv, SameHands, RecordsInv, Describes, UserPtr, Bringing

LEMMA NoJobOK == NoJob \in Jobs
  BY DEF NoJob, Jobs

LEMMA JobOf ==
    ASSUME NEW c \in Contexts, NEW g \in {"fine", "coarse"}, NEW n \in Nat \ {0}, NEW al \in Nat,
           NEW j, j = [NoJob EXCEPT !.ctx = c, !.grain = g, !.size = n, !.align = al]
    PROVE  j \in Jobs /\ j.size > 0 /\ j.grain = g
  <1>1. j \in Jobs BY NoJobOK DEF Jobs
  <1>2. j.size = n BY NoJobOK DEF Jobs
  <1>3. j.grain = g BY NoJobOK DEF Jobs
  <1> QED BY <1>1, <1>2, <1>3

LEMMA MemoryInvInit == Init => MemoryInv
  <1> SUFFICES ASSUME Init PROVE MemoryInv
    OBVIOUS
  <1> USE SvmAssumption DEF Init
  <1>0. NoCheck \in Checks /\ NoJob \in Jobs
    <2>1. <<>> \in Seq(Nat) BY EmptySeq
    <2> QED BY <2>1 DEF Checks, Jobs, NoCheck, NoJob
  <1>1. SvmTypeOK BY <1>0 DEF SvmTypeOK, Places
  <1>2. \A t \in Threads : Copies(t) = {} /\ ~Bringing(t) /\ ~Returning(t)
    BY DEF Copies, NoCheck, Bringing, Returning
  <1>3. BlocksInv /\ RoomInv /\ OwnInv BY <1>2 DEF BlocksInv, RoomInv, OwnInv
  <1>4. FineInv /\ TakeInv /\ JobInv BY <1>2 DEF FineInv, TakeInv, JobInv, JobAt
  <1>5. RecordsInv BY <1>2 DEF RecordsInv
  <1> QED BY <1>1, <1>3, <1>4, <1>5 DEF MemoryInv

\* A thread goes from one place to another without memory in hand.
LEMMA LightMove ==
    ASSUME MemoryInv, NEW t \in Threads, ~Bringing(t), ~Returning(t),
           NEW p \in {"idle", "find", "take", "real", "mapping"}, Goto(t, p),
           NEW j \in Jobs, job' = [job EXCEPT ![t] = j],
           p \in {"find", "take", "real"} => j.size > 0,
           p \in {"find", "take"} => /\ j.grain = "fine"
                                     /\ \A u \in Threads \ {t} : pc[u] \notin {"find", "take"},
           p = "take" => \E r \in free : r.base = j.base /\ r.ctx = j.ctx /\ r.size >= Padded(j.size),
           check'[t] = NoCheck \/ p = "idle" \/
               (p = "real" /\ j.grain = "coarse" /\ j.size = 2 * PoisonLen),
           check' \in [Threads -> Checks], check'[t].copies = check[t].copies,
           \A u \in Threads \ {t} : check'[u] = check[u],
           UNCHANGED <<blocks, records, allocated, free, user, poisoned, fills>>
    PROVE  MemoryInv'
  <1>0. /\ pc'[t] = p /\ job'[t] = j
        /\ \A u \in Threads \ {t} : pc'[u] = pc[u] /\ job'[u] = job[u]
    BY DEF MemoryInv, SvmTypeOK, Goto
  <1>1. SvmTypeOK' BY DEF MemoryInv, SvmTypeOK, Goto, Places
  <1>2. SameHands BY <1>0 DEF SameHands, Bringing, Returning
  <1>3. TakeInv' BY <1>0 DEF MemoryInv, TakeInv
  <1>4. JobInv' BY <1>0 DEF MemoryInv, JobInv, JobAt, Bringing, Returning
  <1>5. RecordsInv'
    <2>1. \A u \in Threads : pc'[u] = "wait" <=> pc[u] = "wait" BY <1>0 DEF Bringing
    <2> QED BY <1>2, <2>1, StillRecorded
  <1> QED BY <1>1, <1>2, <1>3, <1>4, <1>5, Still DEF MemoryInv

\* Only the state of a check changes, or the bytes.
LEMMA NoMove ==
    ASSUME MemoryInv, fills' \in [Threads -> SUBSET Int],
           check' \in [Threads -> Checks],
           \A u \in Threads : check'[u] = check[u] \/
               (check'[u].copies = check[u].copies /\ (pc[u] = "idle" \/ check[u] # NoCheck)),
           UNCHANGED <<blocks, records, allocated, free, user, pc, job>>
    PROVE  MemoryInv'
  <1>1. SvmTypeOK' BY DEF MemoryInv, SvmTypeOK
  <1>2. SameHands BY DEF SameHands, Bringing, Returning
  <1>3. TakeInv' BY DEF MemoryInv, TakeInv
  <1>4. JobInv' BY DEF MemoryInv, JobInv, JobAt, Bringing
  <1>5. RecordsInv' BY <1>2, StillRecorded
  <1> QED BY <1>1, <1>2, <1>3, <1>4, <1>5, Still DEF MemoryInv

LEMMA MemorySVMAlloc ==
    ASSUME FineAlone, MemoryInv, NEW t \in Threads, NEW c \in Contexts, NEW g \in Grains,
           NEW n \in Sizes, NEW al \in Alignments, SVMAlloc(t, c, g, n, al)
    PROVE  MemoryInv'
  <1> DEFINE j == [NoJob EXCEPT !.ctx = c, !.grain = g, !.size = n, !.align = al]
             p == IF g = "fine" THEN "find" ELSE "real"
  <1>0. n \in Nat \ {0} /\ al \in Nat /\ g \in {"fine", "coarse"} BY SvmAssumption
  <1>1. j \in Jobs /\ j.size > 0 /\ j.grain = g
    <2>1. PICK x : x = [NoJob EXCEPT !.ctx = c, !.grain = g, !.size = n, !.align = al] OBVIOUS
    <2>2. x \in Jobs /\ x.size > 0 /\ x.grain = g BY <1>0, <2>1, JobOf
    <2> QED BY <2>1, <2>2
  <1> USE SvmAssumption
  <1>2. \A u \in Threads : pc[u] \notin {"find", "take"}
    BY DEF SVMAlloc, MayEnterLists, InLists
  <1>3. job' = [job EXCEPT ![t] = j] /\ Goto(t, p) BY DEF SVMAlloc
  <1>4. /\ ~Bringing(t) /\ ~Returning(t) /\ check[t] = NoCheck
        /\ UNCHANGED <<blocks, records, allocated, free, user, poisoned, fills, check>>
    BY DEF SVMAlloc, Ready, Bringing, Returning, lists, checks
  <1>5. check' \in [Threads -> Checks] BY <1>4 DEF MemoryInv, SvmTypeOK
  <1> HIDE DEF j
  <1> QED BY <1>1, <1>2, <1>3, <1>4, <1>5, LightMove

LEMMA MemoryFindFree ==
    ASSUME FineAlone, MemoryInv, NEW t \in Threads, FindFree(t)
    PROVE  MemoryInv'
  <1>0. /\ ~Bringing(t) /\ ~Returning(t) /\ check[t] = NoCheck /\ job[t] \in Jobs
        /\ job[t].grain = "fine" /\ job[t].size > 0
        /\ UNCHANGED <<blocks, records, allocated, free, user, poisoned, fills, check>>
        /\ \A u \in Threads \ {t} : pc[u] \notin {"find", "take"}
    BY DEF FindFree, Bringing, Returning, lists, checks, MemoryInv, JobInv, JobAt, TakeInv, SvmTypeOK
  <1>1. check' \in [Threads -> Checks] BY <1>0 DEF MemoryInv, SvmTypeOK
  <1>2. CASE Fitting(job[t]) = {}
    <2>1. Goto(t, "real") /\ job' = job BY <1>2 DEF FindFree
    <2>2. job' = [job EXCEPT ![t] = job[t]] BY <2>1 DEF MemoryInv, SvmTypeOK
    <2> QED BY <1>0, <1>1, <2>1, <2>2, LightMove
  <1>3. CASE Fitting(job[t]) # {}
    <2>1. PICK r \in Fitting(job[t]) : job' = [job EXCEPT ![t].base = r.base] /\ Goto(t, "take")
      BY <1>3 DEF FindFree
    <2>2. r \in free /\ r.ctx = job[t].ctx /\ r.size >= Padded(job[t].size) /\ r.base \in Nat
      BY DEF Fitting, MemoryInv, SvmTypeOK, Regions
    <2> DEFINE j == [job[t] EXCEPT !.base = r.base]
    <2>3. /\ j \in Jobs /\ j.size = job[t].size /\ j.ctx = job[t].ctx
          /\ j.grain = job[t].grain /\ j.base = r.base
      BY <1>0, <2>2 DEF Jobs
    <2>4. job' = [job EXCEPT ![t] = j] BY <2>1
    <2> HIDE DEF j
    <2>5. \E x \in free : x.base = j.base /\ x.ctx = j.ctx /\ x.size >= Padded(j.size)
      BY <2>2, <2>3
    <2>6. Goto(t, "take") /\ j.size > 0 /\ j.grain = "fine" /\ j \in Jobs BY <1>0, <2>1, <2>3
    <2> QED BY <1>0, <1>1, <2>4, <2>5, <2>6, LightMove
  <1> QED BY <1>2, <1>3

LEMMA MemoryRealAllocFails ==
    ASSUME MemoryInv, NEW t \in Threads, RealAllocFails(t)
    PROVE  MemoryInv'
  <1>1. /\ ~Bringing(t) /\ ~Returning(t) /\ Goto(t, "idle") /\ job' = [job EXCEPT ![t] = NoJob]
        /\ UNCHANGED <<blocks, records, allocated, free, user, poisoned, fills, check>>
    BY DEF RealAllocFails, Bringing, Returning, lists
  <1>2. check' \in [Threads -> Checks] BY <1>1 DEF MemoryInv, SvmTypeOK
  <1>3. NoJob \in Jobs BY DEF NoJob, Jobs
  <1> QED BY <1>1, <1>2, <1>3, LightMove

LEMMA MemoryMapping ==
    ASSUME MemoryInv, NEW t \in Threads,
           \/ MapReturns(t)
           \/ \E a, k, n, mode, inv : SVMMap(t, a, k, n, mode, inv)
    PROVE  /\ BlocksInv' /\ RoomInv' /\ OwnInv' /\ FineInv' /\ RecordsInv'
           /\ TakeInv' /\ JobInv'
  <1>1. /\ UNCHANGED <<blocks, records, allocated, free, user, job, check>>
        /\ \/ pc[t] = "idle" /\ check[t] = NoCheck /\ Goto(t, "mapping")
           \/ pc[t] = "mapping" /\ Goto(t, "idle")
    BY DEF MapReturns, SVMMap, Ready, lists, checks
  <1>2. /\ \A u \in Threads \ {t} : pc'[u] = pc[u]
        /\ pc'[t] \in {"idle", "mapping"} /\ pc[t] \in {"idle", "mapping"}
        /\ pc'[t] = "mapping" => check[t] = NoCheck
    BY <1>1 DEF MemoryInv, SvmTypeOK, Goto
  <1>3. SameHands BY <1>1, <1>2 DEF SameHands, Bringing, Returning
  <1>4. TakeInv' BY <1>1, <1>2 DEF MemoryInv, TakeInv
  <1>5. JobInv' BY <1>1, <1>2 DEF MemoryInv, JobInv, JobAt, Bringing
  <1>6. RecordsInv'
    <2>1. \A u \in Threads : pc'[u] = "wait" <=> pc[u] = "wait" BY <1>2
    <2> QED BY <1>1, <1>3, <2>1, StillRecorded
  <1> QED BY <1>1, <1>3, <1>4, <1>5, <1>6, Still

LEMMA MemoryEnqueueFills ==
    ASSUME MemoryInv, NEW t \in Threads, EnqueueFills(t)
    PROVE  MemoryInv'
  <1>1. /\ pc[t] = "fill" /\ Goto(t, "record") /\ UNCHANGED <<blocks, records, allocated, free, user, poisoned, job, check>>
        /\ fills' \in [Threads -> SUBSET Int]
    <2>1. job[t].size \in Nat /\ job[t].base \in Nat BY DEF MemoryInv, SvmTypeOK, Jobs
    <2> DEFINE offset == (job[t].size + PoisonLen) % OffsetModulus
    <2>2. offset \in Nat BY <2>1, SvmAssumption
    <2> HIDE DEF offset
    <2>3. Bytes(job[t].base, PoisonLen) \cup Bytes(job[t].base + offset, PoisonLen) \in SUBSET Int
      BY <2>1, <2>2, SvmAssumption DEF Bytes
    <2> QED BY <2>3 DEF EnqueueFills, lists, checks, MemoryInv, SvmTypeOK, offset
  <1>2. pc'[t] = "record" /\ \A u \in Threads \ {t} : pc'[u] = pc[u]
    BY <1>1 DEF MemoryInv, SvmTypeOK, Goto
  <1>3. SvmTypeOK' BY <1>1 DEF MemoryInv, SvmTypeOK, Goto, Places
  <1>4. SameHands BY <1>1, <1>2 DEF SameHands, Bringing, Returning
  <1>5. TakeInv' BY <1>1, <1>2 DEF MemoryInv, TakeInv
  <1>6. JobInv' BY <1>1, <1>2 DEF MemoryInv, JobInv, JobAt, Bringing
  <1>7. RecordsInv'
    <2>1. \A u \in Threads : pc'[u] = "wait" <=> pc[u] = "wait" BY <1>1, <1>2
    <2> QED BY <1>1, <1>4, <2>1, StillRecorded
  <1> QED BY <1>1, <1>3, <1>4, <1>5, <1>6, <1>7, Still DEF MemoryInv

LEMMA MemoryTakeFree ==
    ASSUME MemoryInv, NEW t \in Threads, TakeFree(t)
    PROVE  MemoryInv'
  <1>0. PICK r \in free : r.base = job[t].base /\ r.ctx = job[t].ctx /\ r.size >= Padded(job[t].size)
    BY DEF TakeFree, MemoryInv, TakeInv
  <1>1. {x \in free : x.base = job[t].base} = {r} BY <1>0 DEF MemoryInv, OwnInv
  <1>2. /\ pc[t] = "take" /\ allocated' = allocated \cup {r} /\ free' = free \ {r}
        /\ UNCHANGED <<blocks, records, user, poisoned, job, fills, check>>
    BY <1>1 DEF TakeFree, checks
  <1>3. pc' = [pc EXCEPT ![t] = "fill"] /\ pc'[t] = "fill" /\ \A u \in Threads \ {t} : pc'[u] = pc[u]
    BY DEF TakeFree, MemoryInv, SvmTypeOK, Goto
  <1>4. /\ \A u \in Threads : Copies(u)' = Copies(u) /\ (Returning(u)' <=> Returning(u))
        /\ \A u \in Threads : Bringing(u)' <=> Bringing(u) \/ u = t
        /\ ~Bringing(t) /\ ~Returning(t) /\ job[t].grain = "fine" /\ check[t] = NoCheck
    BY <1>2, <1>3 DEF Copies, Bringing, Returning, MemoryInv, JobInv, JobAt
  <1>5. SvmTypeOK' BY <1>0, <1>2, <1>3 DEF MemoryInv, SvmTypeOK, Places
  <1>6. BlocksInv' BY <1>2 DEF MemoryInv, BlocksInv
  <1>7. RoomInv'
    <2>1. Enough(job[t].base, Padded(job[t].size))
      <3>1. [base |-> r.base, size |-> r.size] \in blocks BY DEF MemoryInv, RoomInv
      <3> QED BY <1>0, <3>1 DEF Enough
    <2> QED BY <1>2, <1>4, <2>1 DEF MemoryInv, RoomInv, Enough
  <1>8. OwnInv' BY <1>0, <1>2, <1>4 DEF MemoryInv, OwnInv
  <1>9. FineInv'
    <2>1. \A x \in allocated : x.base # r.base
      BY <1>0 DEF MemoryInv, FineInv, OwnInv, Returning, SvmTypeOK
    <2> QED BY <1>0, <1>2, <1>3, <1>4, <2>1 DEF MemoryInv, FineInv
  <1>10. TakeInv' BY <1>2, <1>3 DEF MemoryInv, TakeInv
  <1>11. JobInv' BY <1>2, <1>3, <1>4 DEF MemoryInv, JobInv, JobAt
  <1>12. RecordsInv' BY <1>2, <1>3, <1>4 DEF MemoryInv, RecordsInv, Describes, UserPtr
  <1> QED BY <1>5, <1>6, <1>7, <1>8, <1>9, <1>10, <1>11, <1>12 DEF MemoryInv

LEMMA MemoryRealAlloc ==
    ASSUME MemoryInv, NEW t \in Threads, RealAlloc(t)
    PROVE  MemoryInv'
  <1> USE SvmAssumption
  <1>0. PICK n \in Nat \ {0} :
           n = Padded(job[t].size) /\ job[t].size \in Nat \ {0} /\ job[t] \in Jobs
    BY DEF RealAlloc, MemoryInv, SvmTypeOK, Jobs, JobInv, JobAt, Padded
  <1>1. PICK b \in Room(n) :
           /\ blocks' = blocks \cup {[base |-> b, size |-> n]}
           /\ poisoned' = poisoned \ Bytes(b, n)
           /\ allocated' = IF job[t].grain = "fine"
                           THEN allocated \cup {[ctx |-> job[t].ctx, base |-> b, size |-> n, align |-> job[t].align]}
                           ELSE allocated
           /\ job' = [job EXCEPT ![t].base = b]
    BY <1>0 DEF RealAlloc
  <1>2. /\ pc[t] = "real" /\ UNCHANGED <<records, free, user, fills, check>>
        /\ pc' = [pc EXCEPT ![t] = "fill"] /\ pc'[t] = "fill"
        /\ \A u \in Threads \ {t} : pc'[u] = pc[u]
    BY DEF RealAlloc, checks, MemoryInv, SvmTypeOK, Goto
  <1>3. b \in Nat /\ \A k \in blocks : b + n <= k.base \/ k.base + k.size <= b
    <2>1. b \in Nat /\ \A k \in blocks : Bytes(b, n) \cap Bytes(k.base, k.size) = {} BY <1>0 DEF Room
    <2>2. \A k \in blocks : k.base \in Nat /\ k.size \in Nat \ {0} BY DEF MemoryInv, SvmTypeOK
    <2> QED BY <1>0, <2>1, <2>2, DisjointBytes
  <1>4. \A k \in blocks : k.base # b BY <1>0, <1>3 DEF MemoryInv, SvmTypeOK
  <1>5. \A c, m : Enough(c, m) => c # b /\ Enough(c, m)' BY <1>1, <1>4 DEF Enough
  <1>6. /\ job'[t] = [job[t] EXCEPT !.base = b] /\ job'[t] \in Jobs
        /\ job'[t].base = b /\ job'[t].size = job[t].size
        /\ job'[t].grain = job[t].grain /\ job'[t].ctx = job[t].ctx
        /\ \A u \in Threads \ {t} : job'[u] = job[u]
    BY <1>0, <1>1, <1>3 DEF MemoryInv, SvmTypeOK, Jobs
  <1>7. /\ \A u \in Threads : Copies(u)' = Copies(u) /\ (Returning(u)' <=> Returning(u))
        /\ \A u \in Threads : Bringing(u)' <=> Bringing(u) \/ u = t
        /\ ~Bringing(t) /\ ~Returning(t)
    BY <1>2 DEF Copies, Bringing, Returning
  <1>8. SvmTypeOK'
    <2>1. [base |-> b, size |-> n] \in [base : Nat, size : Nat \ {0}] BY <1>0, <1>3
    <2>2. [ctx |-> job[t].ctx, base |-> b, size |-> n, align |-> job[t].align] \in Regions
      BY <1>0, <1>3 DEF Regions, Jobs
    <2>3. blocks' \subseteq [base : Nat, size : Nat \ {0}] /\ allocated' \subseteq Regions
      BY <1>1, <2>1, <2>2 DEF MemoryInv, SvmTypeOK
    <2>4. job' \in [Threads -> Jobs] BY <1>1, <1>6 DEF MemoryInv, SvmTypeOK
    <2> QED BY <1>1, <1>2, <2>3, <2>4 DEF MemoryInv, SvmTypeOK, Places
  <1>9. BlocksInv' BY <1>0, <1>1, <1>3 DEF MemoryInv, BlocksInv
  <1>10. RoomInv'
    <2>1. Enough(b, n)'
      <3>1. [base |-> b, size |-> n] \in blocks' BY <1>1
      <3> QED BY <1>0, <3>1 DEF Enough
    <2>2. \A x \in allocated' \cup free' : [base |-> x.base, size |-> x.size] \in blocks'
      <3>1. \A x \in allocated \cup free : [base |-> x.base, size |-> x.size] \in blocks
        BY DEF MemoryInv, RoomInv
      <3> DEFINE new == [ctx |-> job[t].ctx, base |-> b, size |-> n, align |-> job[t].align]
      <3>2. new.base = b /\ new.size = n OBVIOUS
      <3>3. \A x \in allocated' \cup free' : x \in allocated \cup free \/ x = new BY <1>1, <1>2
      <3> HIDE DEF new
      <3> QED BY <1>1, <3>1, <3>2, <3>3
    <2>3. \A a \in user' : Enough(a.ptr - PoisonLen, Padded(a.size))' BY <1>2, <1>5 DEF MemoryInv, RoomInv
    <2>4. \A u \in Threads : Bringing(u)' => Enough(job[u].base, Padded(job[u].size))'
      BY <1>0, <1>5, <1>6, <1>7, <2>1 DEF MemoryInv, RoomInv
    <2>5. \A u \in Threads : Returning(u)' => Enough(job[u].base, 1)'
      BY <1>5, <1>6, <1>7 DEF MemoryInv, RoomInv
    <2>6. \A u \in Threads : \A p \in Copies(u)' : Enough(p - PoisonLen, Padded(2 * PoisonLen))'
      BY <1>5, <1>7 DEF MemoryInv, RoomInv
    <2> QED BY <2>2, <2>3, <2>4, <2>5, <2>6 DEF RoomInv
  <1>11. /\ \A a \in user : a.ptr - PoisonLen # b
         /\ \A x \in allocated \cup free : x.base # b
         /\ \A u \in Threads : Bringing(u) \/ Returning(u) => job[u].base # b
         /\ \A u \in Threads : b + PoisonLen \notin Copies(u)
    <2>1. \A x \in allocated \cup free : x.base # b BY <1>4 DEF MemoryInv, RoomInv
    <2>2. \A u \in Threads : \A p \in Copies(u) : p - PoisonLen # b /\ p \in Nat
      BY <1>5 DEF MemoryInv, RoomInv, SvmTypeOK, Checks, Copies
    <2>4. \A u \in Threads : \A p \in Copies(u) : p # b + PoisonLen BY <1>3, <2>2
    <2>5. \A a \in user : a.ptr - PoisonLen # b BY <1>5 DEF MemoryInv, RoomInv
    <2>6. \A u \in Threads : Bringing(u) \/ Returning(u) => job[u].base # b BY <1>5 DEF MemoryInv, RoomInv
    <2> QED BY <2>1, <2>4, <2>5, <2>6
  <1>12. OwnInv'
    <2> DEFINE Has(u) == Bringing(u) \/ Returning(u)
    <2>1. \A u \in Threads : Has(u)' => (Has(u) /\ job'[u] = job[u]) \/ (job'[u].base = b /\ u = t)
      BY <1>6, <1>7
    <2>2. \A u, v \in Threads : Has(u)' /\ Has(v)' /\ job'[u].base = job'[v].base => u = v
      BY <1>11, <2>1 DEF MemoryInv, OwnInv
    <2>3. \A u \in Threads : Has(u)' =>
            /\ \A a \in user : a.ptr - PoisonLen # job'[u].base
            /\ \A r \in free : r.base # job'[u].base
            /\ \A v \in Threads : job'[u].base + PoisonLen \notin Copies(v)
      BY <1>11, <2>1 DEF MemoryInv, OwnInv
    <2> QED BY <1>2, <1>7, <2>2, <2>3 DEF MemoryInv, OwnInv
  <1>13. FineInv'
    <2> DEFINE new == [ctx |-> job[t].ctx, base |-> b, size |-> n, align |-> job[t].align]
    <2>1. new.base = b /\ new.ctx = job[t].ctx OBVIOUS
    <2>2. allocated' = IF job[t].grain = "fine" THEN allocated \cup {new} ELSE allocated BY <1>1
    <2> HIDE DEF new
    <2> USE DEF MemoryInv, FineInv
    <2>3. \A r, s \in allocated' : r.base = s.base => r = s BY <1>11, <2>1, <2>2
    <2>4. \A r \in allocated' :
            \/ \E a \in user' : a.grain = "fine" /\ a.ptr - PoisonLen = r.base
            \/ \E u \in Threads : Bringing(u)' /\ job'[u].grain = "fine" /\ job'[u].base = r.base
            \/ \E u \in Threads : pc'[u] = "fgfree" /\ job'[u].base = r.base /\ job'[u].ctx = r.ctx
      <3> SUFFICES ASSUME NEW r \in allocated'
                   PROVE  \/ \E a \in user' : a.grain = "fine" /\ a.ptr - PoisonLen = r.base
                          \/ \E u \in Threads : Bringing(u)' /\ job'[u].grain = "fine" /\ job'[u].base = r.base
                          \/ \E u \in Threads : pc'[u] = "fgfree" /\ job'[u].base = r.base /\ job'[u].ctx = r.ctx
        OBVIOUS
      <3>1. CASE r \in allocated BY <1>2, <1>6, <1>7, <3>1
      <3>2. CASE r \notin allocated
        <4>1. r = new /\ job[t].grain = "fine" BY <2>2, <3>2
        <4> QED BY <1>6, <1>7, <2>1, <4>1
      <3> QED BY <3>1, <3>2
    <2>5. \A a \in user' : a.grain = "fine" =>
            \E r \in allocated' : r.base = a.ptr - PoisonLen /\ r.ctx = a.ctx
      BY <1>2, <2>2
    <2>6. \A u \in Threads : Bringing(u)' /\ job'[u].grain = "fine" =>
            \E r \in allocated' : r.base = job'[u].base /\ r.ctx = job'[u].ctx
      <3>1. ASSUME NEW u \in Threads, u # t, Bringing(u)', job'[u].grain = "fine"
            PROVE  \E r \in allocated' : r.base = job'[u].base /\ r.ctx = job'[u].ctx
        BY <1>6, <1>7, <2>2, <3>1
      <3>2. job'[t].grain = "fine" =>
              \E r \in allocated' : r.base = job'[t].base /\ r.ctx = job'[t].ctx
        BY <1>6, <2>1, <2>2
      <3> QED BY <3>1, <3>2
    <2> QED BY <2>3, <2>4, <2>5, <2>6 DEF FineInv
  <1>14. TakeInv' BY <1>2, <1>6 DEF MemoryInv, TakeInv
  <1>15. JobInv'
    <2>1. ASSUME NEW u \in Threads, u # t
          PROVE pc'[u] = pc[u] /\ job'[u] = job[u] /\ check'[u] = check[u] /\ (Bringing(u)' <=> Bringing(u))
      BY <1>2, <1>6, <1>7, <2>1
    <2>2. check[t] # NoCheck => job[t].grain = "coarse" /\ job[t].size = 2 * PoisonLen
      BY <1>2 DEF MemoryInv, JobInv, JobAt
    <2>3. job'[t].size > 0 BY <1>0, <1>6
    <2>4. ASSUME NEW u \in Threads PROVE JobAt(u)'
      <3>1. CASE u = t BY <1>2, <1>6, <2>2, <2>3, <3>1 DEF JobAt
      <3>2. CASE u # t
        <4>1. pc'[u] = pc[u] /\ job'[u] = job[u] /\ check'[u] = check[u] /\ (Bringing(u)' <=> Bringing(u))
          BY <2>1, <3>2
        <4> QED BY <4>1 DEF MemoryInv, JobInv, JobAt
      <3> QED BY <3>1, <3>2
    <2> QED BY <2>4 DEF JobInv
  <1>16. RecordsInv' BY <1>2, <1>6, <1>7 DEF MemoryInv, RecordsInv, Describes, UserPtr
  <1> QED BY <1>8, <1>9, <1>10, <1>12, <1>13, <1>14, <1>15, <1>16 DEF MemoryInv

\* No record describes the memory a thread has yet to record.
LEMMA MemoryRecord ==
    ASSUME MemoryInv, NEW t \in Threads, Record(t)
    PROVE  MemoryInv'
  <1> USE SvmAssumption
  <1>1. /\ pc[t] = "record" /\ UNCHANGED <<blocks, poisoned, allocated, free, user, job, fills, check>>
        /\ pc' = [pc EXCEPT ![t] = "wait"] /\ pc'[t] = "wait" /\ \A u \in Threads \ {t} : pc'[u] = pc[u]
    BY DEF Record, lists, checks, MemoryInv, SvmTypeOK, Goto
  <1>2. /\ job[t] \in Jobs /\ job[t].size \in Nat \ {0} /\ job[t].base \in Nat
        /\ UserPtr(t) \in Nat \ {0} /\ UserPtr(t)' = UserPtr(t) /\ UserPtr(t) - PoisonLen = job[t].base
    BY <1>1 DEF MemoryInv, SvmTypeOK, JobInv, JobAt, Jobs, UserPtr, Bringing
  <1>3. \A r \in records : r.handle # UserPtr(t)
    <2> SUFFICES ASSUME NEW r \in records, r.handle = UserPtr(t) PROVE FALSE
      OBVIOUS
    <2>1. CASE \E a \in user : Describes(r, a.ptr, a.size)
      BY <1>1, <1>2, <2>1 DEF MemoryInv, OwnInv, Describes, Bringing
    <2>2. CASE \E u \in Threads : pc[u] = "wait" /\ Describes(r, UserPtr(u), job[u].size)
      <3>1. PICK u \in Threads : pc[u] = "wait" /\ UserPtr(u) = UserPtr(t) BY <2>2 DEF Describes
      <3>2. job[u].base = job[t].base BY <1>2, <3>1 DEF UserPtr, MemoryInv, SvmTypeOK, Jobs
      <3> QED BY <1>1, <3>1, <3>2 DEF MemoryInv, OwnInv, Bringing
    <2>3. CASE \E u \in Threads : r.handle \in Copies(u)
      BY <1>1, <2>3 DEF MemoryInv, OwnInv, Bringing, UserPtr
    <2> QED BY <2>1, <2>2, <2>3 DEF MemoryInv, RecordsInv
  <1> DEFINE new == [handle |-> UserPtr(t), main |-> job[t].base, size |-> job[t].size, ctx |-> job[t].ctx]
  <1>4. records' = records \cup {new} BY <1>3 DEF Record
  <1>5. /\ new \in Records /\ Describes(new, UserPtr(t), job[t].size) /\ new.main = new.handle - PoisonLen
        /\ new.handle = UserPtr(t)
    BY <1>2 DEF Records, Describes, Jobs
  <1> HIDE DEF new
  <1>6. SvmTypeOK' BY <1>1, <1>4, <1>5 DEF MemoryInv, SvmTypeOK, Places
  <1>7. SameHands BY <1>1 DEF SameHands, Bringing, Returning
  <1>8. TakeInv' BY <1>1 DEF MemoryInv, TakeInv
  <1>9. JobInv' BY <1>1 DEF MemoryInv, JobInv, JobAt, Bringing
  <1>10. RecordsInv'
    <2>1. \A u \in Threads : Copies(u)' = Copies(u) BY <1>1 DEF Copies
    <2>2. \A r, s \in records' : r.handle = s.handle => r = s
      BY <1>3, <1>4, <1>5 DEF MemoryInv, RecordsInv
    <2>3. \A r \in records' :
             /\ r.main = r.handle - PoisonLen
             /\ \/ \E a \in user' : Describes(r, a.ptr, a.size)
                \/ \E u \in Threads : pc'[u] = "wait" /\ Describes(r, UserPtr(u)', job'[u].size)
                \/ \E u \in Threads : r.handle \in Copies(u)' /\ r.size = 2 * PoisonLen
      <3>1. \A u \in Threads : pc[u] = "wait" => pc'[u] = "wait" /\ UserPtr(u)' = UserPtr(u) /\ job'[u] = job[u]
        BY <1>1 DEF UserPtr
      <3> QED BY <1>1, <1>2, <1>4, <1>5, <2>1, <3>1 DEF MemoryInv, RecordsInv
    <2>4. \A u \in Threads : pc'[u] = "wait" => \E r \in records' : Describes(r, UserPtr(u)', job'[u].size)
      <3>1. \A u \in Threads : UserPtr(u)' = UserPtr(u) /\ job'[u] = job[u] BY <1>1 DEF UserPtr
      <3> QED BY <1>1, <1>4, <1>5, <3>1 DEF MemoryInv, RecordsInv
    <2> QED BY <1>1, <1>4, <2>1, <2>2, <2>3, <2>4 DEF MemoryInv, RecordsInv, Describes
  <1> QED BY <1>1, <1>6, <1>7, <1>8, <1>9, <1>10, Still DEF MemoryInv

-----------------------------------------------------------------------------
(***************************************************************************)
(* Steps that take memory from one hand to another.                        *)
(***************************************************************************)

\* What the places of the threads say after a step that brings t to idle.
LEMMA HandsEmptied ==
    ASSUME MemoryInv, NEW t \in Threads, pc' = [pc EXCEPT ![t] = "idle"],
           \A u \in Threads \ {t} : job'[u] = job[u]
    PROVE  /\ pc'[t] = "idle" /\ ~Bringing(t)' /\ ~Returning(t)'
           /\ \A u \in Threads \ {t} :
                /\ pc'[u] = pc[u] /\ job'[u] = job[u] /\ UserPtr(u)' = UserPtr(u)
                /\ Bringing(u)' <=> Bringing(u)
                /\ Returning(u)' <=> Returning(u)
  BY DEF MemoryInv, SvmTypeOK, Bringing, Returning, UserPtr

\* The application gets the memory it asked for.
LEMMA MemoryGiveUser ==
    ASSUME MemoryInv, NEW t \in Threads, WaitForFills(t), check[t] = NoCheck
    PROVE  MemoryInv'
  <1> USE SvmAssumption
  <1> DEFINE new == [by |-> t, ptr |-> UserPtr(t), size |-> job[t].size,
                     ctx |-> job[t].ctx, grain |-> job[t].grain]
  <1>1. /\ pc[t] = "wait" /\ UNCHANGED <<blocks, records, allocated, free, fills, check>>
        /\ poisoned' \subseteq poisoned /\ user' = user \cup {new}
        /\ job' = [job EXCEPT ![t] = NoJob] /\ pc' = [pc EXCEPT ![t] = "idle"]
    BY DEF WaitForFills, Give, lists, Goto
  <1>2. /\ job[t] \in Jobs /\ job[t].size \in Nat \ {0} /\ job[t].base \in Nat
        /\ UserPtr(t) \in Nat \ {0} /\ UserPtr(t) - PoisonLen = job[t].base
        /\ UserPtr(t) = job[t].base + PoisonLen
    BY <1>1 DEF MemoryInv, SvmTypeOK, JobInv, JobAt, Jobs, UserPtr, Bringing
  <1>3. /\ new \in Allocations /\ new.ptr = UserPtr(t) /\ new.size = job[t].size
        /\ new.ctx = job[t].ctx /\ new.grain = job[t].grain
    BY <1>2 DEF Allocations, Jobs
  <1> HIDE DEF new
  <1>4. /\ pc'[t] = "idle" /\ ~Bringing(t)' /\ ~Returning(t)'
        /\ \A u \in Threads \ {t} :
             /\ pc'[u] = pc[u] /\ job'[u] = job[u] /\ UserPtr(u)' = UserPtr(u)
             /\ Bringing(u)' <=> Bringing(u)
             /\ Returning(u)' <=> Returning(u)
    <2>1. \A u \in Threads \ {t} : job'[u] = job[u] BY <1>1 DEF MemoryInv, SvmTypeOK
    <2> QED BY <1>1, <2>1, HandsEmptied
  <1>5. \A u \in Threads : Copies(u)' = Copies(u) BY <1>1 DEF Copies
  <1>6. Bringing(t) BY <1>1 DEF Bringing
  <1>7. SvmTypeOK' BY <1>1, <1>3, NoJobOK DEF MemoryInv, SvmTypeOK, Places
  <1>8. BlocksInv' BY <1>1 DEF MemoryInv, BlocksInv
  <1>9. RoomInv'
    <2>1. \A b, n : Enough(b, n)' <=> Enough(b, n) BY <1>1 DEF Enough
    <2>2. Enough(new.ptr - PoisonLen, Padded(new.size)) BY <1>2, <1>3, <1>6 DEF MemoryInv, RoomInv
    <2> QED BY <1>1, <1>4, <1>5, <2>1, <2>2 DEF MemoryInv, RoomInv
  <1>10. OwnInv'
    <2>1. \A a \in user : a.ptr # new.ptr BY <1>2, <1>3, <1>6 DEF MemoryInv, OwnInv
    <2>2. \A r \in free : r.base # new.ptr - PoisonLen BY <1>2, <1>3, <1>6 DEF MemoryInv, OwnInv
    <2>3. \A u \in Threads : new.ptr \notin Copies(u) BY <1>2, <1>3, <1>6 DEF MemoryInv, OwnInv
    <2>4. \A u \in Threads \ {t} : Bringing(u) \/ Returning(u) => new.ptr - PoisonLen # job[u].base
      BY <1>2, <1>3, <1>6 DEF MemoryInv, OwnInv
    <2> QED BY <1>1, <1>4, <1>5, <2>1, <2>2, <2>3, <2>4 DEF MemoryInv, OwnInv
  <1>11. FineInv'
    <2> USE DEF MemoryInv, FineInv
    <2>1. \A r \in allocated' :
            \/ \E a \in user' : a.grain = "fine" /\ a.ptr - PoisonLen = r.base
            \/ \E u \in Threads : Bringing(u)' /\ job'[u].grain = "fine" /\ job'[u].base = r.base
            \/ \E u \in Threads : pc'[u] = "fgfree" /\ job'[u].base = r.base /\ job'[u].ctx = r.ctx
      <3> SUFFICES ASSUME NEW r \in allocated
                   PROVE  \/ \E a \in user' : a.grain = "fine" /\ a.ptr - PoisonLen = r.base
                          \/ \E u \in Threads : Bringing(u)' /\ job'[u].grain = "fine" /\ job'[u].base = r.base
                          \/ \E u \in Threads : pc'[u] = "fgfree" /\ job'[u].base = r.base /\ job'[u].ctx = r.ctx
        BY <1>1
      <3>1. CASE job[t].grain = "fine" /\ job[t].base = r.base BY <1>1, <1>2, <1>3, <3>1
      <3>2. CASE ~(job[t].grain = "fine" /\ job[t].base = r.base) BY <1>1, <1>4, <3>2
      <3> QED BY <3>1, <3>2
    <2>2. \A a \in user' : a.grain = "fine" =>
            \E r \in allocated' : r.base = a.ptr - PoisonLen /\ r.ctx = a.ctx
      BY <1>1, <1>2, <1>3, <1>6
    <2> QED BY <1>1, <1>4, <2>1, <2>2
  <1>12. TakeInv' BY <1>1, <1>4 DEF MemoryInv, TakeInv
  <1>13. JobInv' BY <1>1, <1>4 DEF MemoryInv, JobInv, JobAt
  <1>14. RecordsInv'
    <2> USE DEF MemoryInv, RecordsInv
    <2>1. \A r \in records' :
             /\ r.main = r.handle - PoisonLen
             /\ \/ \E a \in user' : Describes(r, a.ptr, a.size)
                \/ \E u \in Threads : pc'[u] = "wait" /\ Describes(r, UserPtr(u)', job'[u].size)
                \/ \E u \in Threads : r.handle \in Copies(u)' /\ r.size = 2 * PoisonLen
      <3> SUFFICES ASSUME NEW r \in records
                   PROVE \/ \E a \in user' : Describes(r, a.ptr, a.size)
                         \/ \E u \in Threads : pc'[u] = "wait" /\ Describes(r, UserPtr(u)', job'[u].size)
                         \/ \E u \in Threads : r.handle \in Copies(u)' /\ r.size = 2 * PoisonLen
        BY <1>1
      <3>1. CASE Describes(r, UserPtr(t), job[t].size) BY <1>1, <1>3, <3>1
      <3>2. CASE ~Describes(r, UserPtr(t), job[t].size) BY <1>1, <1>4, <1>5, <3>2
      <3> QED BY <3>1, <3>2
    <2>2. \A a \in user' : \E r \in records' : Describes(r, a.ptr, a.size) BY <1>1, <1>3
    <2>3. \A u \in Threads : pc'[u] = "wait" => \E r \in records' : Describes(r, UserPtr(u)', job'[u].size)
      BY <1>1, <1>4
    <2> QED BY <1>1, <1>5, <2>1, <2>2, <2>3
  <1> QED BY <1>7, <1>8, <1>9, <1>10, <1>11, <1>12, <1>13, <1>14 DEF MemoryInv

\* A check gets room for a copy.
LEMMA MemoryGiveCopy ==
    ASSUME MemoryInv, NEW t \in Threads, WaitForFills(t), check[t] # NoCheck
    PROVE  MemoryInv'
  <1> USE SvmAssumption
  <1>1. /\ pc[t] = "wait" /\ UNCHANGED <<blocks, records, allocated, free, fills, user>>
        /\ poisoned' \subseteq poisoned
        /\ check' = [check EXCEPT ![t].copies = @ \cup {UserPtr(t)}]
        /\ job' = [job EXCEPT ![t] = NoJob] /\ pc' = [pc EXCEPT ![t] = "idle"]
    BY DEF WaitForFills, Give, lists, Goto
  <1>2. /\ job[t] \in Jobs /\ job[t].grain = "coarse" /\ job[t].size = 2 * PoisonLen /\ job[t].base \in Nat
        /\ UserPtr(t) \in Nat \ {0} /\ UserPtr(t) - PoisonLen = job[t].base
        /\ UserPtr(t) = job[t].base + PoisonLen
    BY <1>1 DEF MemoryInv, SvmTypeOK, JobInv, JobAt, Jobs, UserPtr, Bringing
  <1>4. /\ pc'[t] = "idle" /\ ~Bringing(t)' /\ ~Returning(t)'
        /\ \A u \in Threads \ {t} :
             /\ pc'[u] = pc[u] /\ job'[u] = job[u] /\ UserPtr(u)' = UserPtr(u)
             /\ Bringing(u)' <=> Bringing(u)
             /\ Returning(u)' <=> Returning(u)
    <2>1. \A u \in Threads \ {t} : job'[u] = job[u] BY <1>1 DEF MemoryInv, SvmTypeOK
    <2> QED BY <1>1, <2>1, HandsEmptied
  <1>5. /\ Copies(t)' = Copies(t) \cup {UserPtr(t)}
        /\ \A u \in Threads \ {t} : Copies(u)' = Copies(u) /\ check'[u] = check[u]
        /\ check' \in [Threads -> Checks]
    <2>1. check[t] \in Checks BY DEF MemoryInv, SvmTypeOK
    <2>2. [check[t] EXCEPT !.copies = @ \cup {UserPtr(t)}] \in Checks BY <1>2, <2>1 DEF Checks
    <2>3. [check[t] EXCEPT !.copies = @ \cup {UserPtr(t)}].copies = check[t].copies \cup {UserPtr(t)}
      BY <2>1 DEF Checks
    <2>4. check'[t] = [check[t] EXCEPT !.copies = @ \cup {UserPtr(t)}] BY <1>1 DEF MemoryInv, SvmTypeOK
    <2>5. check' \in [Threads -> Checks] BY <1>1, <2>2 DEF MemoryInv, SvmTypeOK
    <2> QED BY <1>1, <2>3, <2>4, <2>5 DEF MemoryInv, SvmTypeOK, Copies
  <1>6. Bringing(t) BY <1>1 DEF Bringing
  <1>7. SvmTypeOK' BY <1>1, <1>5, NoJobOK DEF MemoryInv, SvmTypeOK, Places
  <1>8. BlocksInv' BY <1>1 DEF MemoryInv, BlocksInv
  <1>9. RoomInv'
    <2>1. \A b, n : Enough(b, n)' <=> Enough(b, n) BY <1>1 DEF Enough
    <2>2. Enough(UserPtr(t) - PoisonLen, Padded(2 * PoisonLen)) BY <1>2, <1>6 DEF MemoryInv, RoomInv
    <2> QED BY <1>1, <1>4, <1>5, <2>1, <2>2 DEF MemoryInv, RoomInv
  <1>10. OwnInv'
    <2>0. \A a \in user : a.ptr \in Nat BY DEF MemoryInv, SvmTypeOK, Allocations
    <2>00. \A r \in free : r.base \in Nat BY DEF MemoryInv, SvmTypeOK, Regions
    <2>1. \A a \in user : a.ptr # UserPtr(t) BY <1>2, <1>6 DEF MemoryInv, OwnInv
    <2>2. \A r \in free : r.base + PoisonLen # UserPtr(t)
      <3>1. \A r \in free : r.base # job[t].base BY <1>6 DEF MemoryInv, OwnInv
      <3> QED BY <1>2, <2>00, <3>1
    <2>3. \A u \in Threads : UserPtr(t) \notin Copies(u) BY <1>2, <1>6 DEF MemoryInv, OwnInv
    <2>4. \A u \in Threads \ {t} : Bringing(u) \/ Returning(u) => job[u].base + PoisonLen # UserPtr(t)
      <3>1. \A u \in Threads \ {t} : Bringing(u) \/ Returning(u) => job[u].base # job[t].base
        BY <1>6 DEF MemoryInv, OwnInv
      <3> QED BY <1>2, <3>1 DEF MemoryInv, SvmTypeOK, Jobs
    <2>5. \A u, v \in Threads : Copies(u)' \cap Copies(v)' # {} => u = v
      <3> SUFFICES ASSUME NEW u \in Threads, NEW v \in Threads, u # v PROVE Copies(u)' \cap Copies(v)' = {}
        OBVIOUS
      <3>1. Copies(u) \cap Copies(v) = {} BY DEF MemoryInv, OwnInv
      <3> QED BY <1>5, <2>3, <3>1
    <2> QED BY <1>1, <1>4, <1>5, <2>1, <2>2, <2>3, <2>4, <2>5 DEF MemoryInv, OwnInv
  <1>11. FineInv' BY <1>1, <1>2, <1>4 DEF MemoryInv, FineInv
  <1>12. TakeInv' BY <1>1, <1>4 DEF MemoryInv, TakeInv
  <1>13. JobInv' BY <1>1, <1>4, <1>5 DEF MemoryInv, JobInv, JobAt
  <1>14. RecordsInv'
    <2> USE DEF MemoryInv, RecordsInv
    <2>1. \A r \in records' :
             /\ r.main = r.handle - PoisonLen
             /\ \/ \E a \in user' : Describes(r, a.ptr, a.size)
                \/ \E u \in Threads : pc'[u] = "wait" /\ Describes(r, UserPtr(u)', job'[u].size)
                \/ \E u \in Threads : r.handle \in Copies(u)' /\ r.size = 2 * PoisonLen
      <3> SUFFICES ASSUME NEW r \in records
                   PROVE \/ \E a \in user' : Describes(r, a.ptr, a.size)
                         \/ \E u \in Threads : pc'[u] = "wait" /\ Describes(r, UserPtr(u)', job'[u].size)
                         \/ \E u \in Threads : r.handle \in Copies(u)' /\ r.size = 2 * PoisonLen
        BY <1>1
      <3>1. CASE Describes(r, UserPtr(t), job[t].size) BY <1>2, <1>5, <3>1 DEF Describes
      <3>2. CASE ~Describes(r, UserPtr(t), job[t].size) BY <1>1, <1>4, <1>5, <3>2
      <3> QED BY <3>1, <3>2
    <2>2. \A u \in Threads : \A p \in Copies(u)' : \E r \in records' : Describes(r, p, 2 * PoisonLen)
      BY <1>1, <1>2, <1>5
    <2>3. \A u \in Threads : pc'[u] = "wait" => \E r \in records' : Describes(r, UserPtr(u)', job'[u].size)
      BY <1>1, <1>4
    <2> QED BY <1>1, <1>5, <2>1, <2>2, <2>3
  <1> QED BY <1>7, <1>8, <1>9, <1>10, <1>11, <1>12, <1>13, <1>14 DEF MemoryInv

\* The record of p goes, and with it p leaves the hand it was in for that of t.
LEMMA MemoryForget ==
    ASSUME MemoryInv, NEW t \in Threads, pc[t] = "idle", NEW c \in Contexts \cup {0}, NEW p \in Nat \ {0},
           ForgetSVM(t, c, p, "now"), UNCHANGED <<blocks, poisoned, allocated, free, fills>>,
           check' \in [Threads -> Checks], \A u \in Threads \ {t} : check'[u] = check[u],
           \/ /\ \E a \in user : a.ptr = p /\ a.ctx = c /\ user' = user \ {a}
              /\ check'[t].copies = check[t].copies
           \/ /\ p \in Copies(t) /\ user' = user
              /\ check'[t].copies = check[t].copies \ {p}
    PROVE  MemoryInv'
  <1> USE SvmAssumption
  <1>1. PICK r \in records : r.handle = p
    BY DEF MemoryInv, RecordsInv, Describes
  <1>2. {x \in records : x.handle = p} = {r} BY <1>1 DEF MemoryInv, RecordsInv
  <1> DEFINE b == p - PoisonLen
             j == [NoJob EXCEPT !.ctx = c, !.enqueued = FALSE, !.base = b]
  <1>3. r.main = b /\ b \in Nat /\ b + PoisonLen = p
    BY <1>1 DEF MemoryInv, RecordsInv, SvmTypeOK, Records
  <1>4. records' = records \ {r} /\ job' = [job EXCEPT ![t] = j] /\ pc' = [pc EXCEPT ![t] = "fgfree"]
    <2>1. (CHOOSE x \in {r} : TRUE) = r OBVIOUS
    <2> QED BY <1>2, <1>3, <2>1 DEF ForgetSVM, Goto
  <1>5. j \in Jobs /\ j.base = b /\ j.ctx = c /\ ~j.enqueued
    <2>1. j \in Jobs BY <1>3, NoJobOK DEF Jobs
    <2>2. j.base = b /\ j.ctx = c /\ j.enqueued = FALSE BY NoJobOK DEF Jobs
    <2> QED BY <2>1, <2>2
  <1> HIDE DEF b, j
  <1>6. /\ pc'[t] = "fgfree" /\ job'[t] = j
        /\ \A u \in Threads \ {t} : pc'[u] = pc[u] /\ job'[u] = job[u] /\ UserPtr(u)' = UserPtr(u)
    BY <1>4 DEF MemoryInv, SvmTypeOK, UserPtr
  <1>7. /\ ~Bringing(t) /\ ~Bringing(t)' /\ ~Returning(t) /\ Returning(t)'
        /\ \A u \in Threads \ {t} : (Bringing(u)' <=> Bringing(u)) /\ (Returning(u)' <=> Returning(u))
    BY <1>6 DEF Bringing, Returning
  <1>8. /\ user' \subseteq user /\ \A a \in user : a.ptr # p => a \in user'
        /\ \A a \in user' : a.ptr # p
        /\ \A u \in Threads : Copies(u)' = Copies(u) \ {p}
    BY DEF MemoryInv, OwnInv, Copies
  <1>9. \A x \in free : x.base # b
    BY <1>3 DEF MemoryInv, OwnInv, b
  <1>10. \A u \in Threads : Bringing(u) \/ Returning(u) => job[u].base # b
    BY <1>3 DEF MemoryInv, OwnInv, b
  <1>11. Enough(b, 1)
    <2>1. \E n \in Nat \ {0} : Enough(b, Padded(n)) BY DEF MemoryInv, RoomInv, b, SvmTypeOK, Allocations
    <2>2. PICK n \in Nat \ {0} : Enough(b, Padded(n)) BY <2>1
    <2>3. Padded(n) \in Nat /\ Padded(n) >= 1 BY DEF Padded
    <2> QED BY <2>2, <2>3 DEF Enough, MemoryInv, SvmTypeOK
  <1>12. \A x \in allocated : x.base = b => x.ctx = c
    <2> SUFFICES ASSUME NEW x \in allocated, x.base = b PROVE x.ctx = c
      OBVIOUS
    <2>1. ~\E u \in Threads : (Bringing(u) \/ Returning(u)) /\ job[u].base = x.base BY <1>10
    <2>2. PICK a \in user : a.grain = "fine" /\ a.ptr - PoisonLen = x.base
      BY <2>1 DEF MemoryInv, FineInv, Returning
    <2>3. a.ptr = p BY <1>3, <2>2 DEF MemoryInv, SvmTypeOK, Allocations
    <2>4. a.ctx = c BY <2>3 DEF MemoryInv, OwnInv
    <2>5. PICK y \in allocated : y.base = x.base /\ y.ctx = c
      BY <2>2, <2>4 DEF MemoryInv, FineInv
    <2> QED BY <2>5 DEF MemoryInv, FineInv
  <1>13. SvmTypeOK' BY <1>4, <1>5, <1>8 DEF MemoryInv, SvmTypeOK, Places
  <1>14. BlocksInv' BY DEF MemoryInv, BlocksInv
  <1>15. RoomInv'
    <2>1. \A d, n : Enough(d, n)' <=> Enough(d, n) BY DEF Enough
    <2> QED BY <1>5, <1>6, <1>7, <1>8, <1>11, <2>1 DEF MemoryInv, RoomInv
  <1>16. OwnInv'
    <2> DEFINE Has(u) == Bringing(u) \/ Returning(u)
    <2>1. \A u \in Threads : Has(u)' => (u # t /\ Has(u) /\ job'[u] = job[u]) \/ (job'[u].base = b /\ u = t)
      BY <1>5, <1>6, <1>7
    <2>2. \A u, v \in Threads : Has(u)' /\ Has(v)' /\ job'[u].base = job'[v].base => u = v
      BY <1>10, <2>1 DEF MemoryInv, OwnInv
    <2>3. \A a \in user' : a.ptr - PoisonLen # b BY <1>3, <1>8 DEF MemoryInv, SvmTypeOK, Allocations
    <2>4. \A u \in Threads : Has(u)' =>
            /\ \A a \in user' : a.ptr - PoisonLen # job'[u].base
            /\ \A x \in free : x.base # job'[u].base
            /\ \A v \in Threads : job'[u].base + PoisonLen \notin Copies(v)'
      BY <1>3, <1>8, <1>9, <2>1, <2>3 DEF MemoryInv, OwnInv
    <2>5. \A u, v \in Threads : Copies(u)' \cap Copies(v)' # {} => u = v BY <1>8 DEF MemoryInv, OwnInv
    <2> QED BY <1>8, <2>2, <2>4, <2>5 DEF MemoryInv, OwnInv
  <1>17. FineInv'
    <2> USE DEF MemoryInv, FineInv
    <2>1. \A x \in allocated' :
            \/ \E a \in user' : a.grain = "fine" /\ a.ptr - PoisonLen = x.base
            \/ \E u \in Threads : Bringing(u)' /\ job'[u].grain = "fine" /\ job'[u].base = x.base
            \/ \E u \in Threads : pc'[u] = "fgfree" /\ job'[u].base = x.base /\ job'[u].ctx = x.ctx
      <3> SUFFICES ASSUME NEW x \in allocated
                   PROVE  \/ \E a \in user' : a.grain = "fine" /\ a.ptr - PoisonLen = x.base
                          \/ \E u \in Threads : Bringing(u)' /\ job'[u].grain = "fine" /\ job'[u].base = x.base
                          \/ \E u \in Threads : pc'[u] = "fgfree" /\ job'[u].base = x.base /\ job'[u].ctx = x.ctx
        OBVIOUS
      <3>1. CASE x.base = b BY <1>5, <1>6, <1>12, <3>1
      <3>2. CASE x.base # b
        <4>1. \A a \in user : a.ptr - PoisonLen = x.base => a \in user' BY <1>8, <3>2 DEF b
        <4> QED BY <1>6, <1>7, <3>2, <4>1
      <3> QED BY <3>1, <3>2
    <2> QED BY <1>6, <1>7, <1>8, <2>1
  <1>18. TakeInv' BY <1>6 DEF MemoryInv, TakeInv
  <1>19. JobInv' BY <1>5, <1>6, <1>7 DEF MemoryInv, JobInv, JobAt
  <1>20. RecordsInv'
    <2> USE DEF MemoryInv, RecordsInv
    <2>1. \A u \in Threads : pc[u] = "wait" => UserPtr(u) # p
      BY <1>3, <1>10 DEF UserPtr, b, Bringing, SvmTypeOK, Jobs
    <2>2. \A x \in records' : x \in records /\ x.handle # p BY <1>1, <1>4
    <2>3. \A x \in records : x.handle # p => x \in records' BY <1>1, <1>4
    <2>4. \A x \in records' :
             /\ x.main = x.handle - PoisonLen
             /\ \/ \E a \in user' : Describes(x, a.ptr, a.size)
                \/ \E u \in Threads : pc'[u] = "wait" /\ Describes(x, UserPtr(u)', job'[u].size)
                \/ \E u \in Threads : x.handle \in Copies(u)' /\ x.size = 2 * PoisonLen
      BY <1>6, <1>8, <2>2 DEF Describes
    <2>5. \A a \in user' : \E x \in records' : Describes(x, a.ptr, a.size)
      BY <1>8, <2>3 DEF Describes
    <2>6. \A u \in Threads : pc'[u] = "wait" => \E x \in records' : Describes(x, UserPtr(u)', job'[u].size)
      BY <1>6, <2>1, <2>3 DEF Describes
    <2>7. \A u \in Threads : \A q \in Copies(u)' : \E x \in records' : Describes(x, q, 2 * PoisonLen)
      BY <1>8, <2>3 DEF Describes
    <2> QED BY <2>2, <2>4, <2>5, <2>6, <2>7
  <1> QED BY <1>13, <1>14, <1>15, <1>16, <1>17, <1>18, <1>19, <1>20 DEF MemoryInv

LEMMA MemorySVMFree ==
    ASSUME MemoryInv, NEW t \in Threads, NEW a \in user, SVMFree(t, a, "now")
    PROVE  MemoryInv'
  <1>1. a.ptr \in Nat \ {0} /\ a.ctx \in Contexts \cup {0} BY DEF MemoryInv, SvmTypeOK, Allocations
  <1>2. /\ pc[t] = "idle" /\ user' = user \ {a} /\ ForgetSVM(t, a.ctx, a.ptr, "now")
        /\ UNCHANGED <<blocks, poisoned, allocated, free, fills, check>>
    BY DEF SVMFree, Ready, lists, checks
  <1>3. check' \in [Threads -> Checks] BY <1>2 DEF MemoryInv, SvmTypeOK
  <1>4. \E x \in user : x.ptr = a.ptr /\ x.ctx = a.ctx /\ user' = user \ {x} BY <1>2
  <1> QED BY <1>1, <1>2, <1>3, <1>4, MemoryForget

LEMMA MemoryFreeCopy ==
    ASSUME MemoryInv, NEW t \in Threads, FreeCopy(t)
    PROVE  MemoryInv'
  <1>1. PICK p \in check[t].copies : /\ ForgetSVM(t, check[t].ctx, p, "now")
                                     /\ check' = [check EXCEPT ![t].copies = @ \ {p}]
    BY DEF FreeCopy
  <1>2. /\ pc[t] = "idle" /\ user' = user
        /\ UNCHANGED <<blocks, poisoned, allocated, free, fills>>
    BY DEF FreeCopy, lists
  <1>3. check[t] \in Checks BY DEF MemoryInv, SvmTypeOK
  <1>4. p \in Nat \ {0} /\ check[t].ctx \in Contexts \cup {0} BY <1>3 DEF Checks
  <1>5. [check[t] EXCEPT !.copies = @ \ {p}] \in Checks BY <1>3 DEF Checks
  <1>6. [check[t] EXCEPT !.copies = @ \ {p}].copies = check[t].copies \ {p} BY <1>3 DEF Checks
  <1>7. /\ check' \in [Threads -> Checks] /\ check'[t].copies = check[t].copies \ {p}
        /\ \A u \in Threads \ {t} : check'[u] = check[u]
    BY <1>1, <1>5, <1>6 DEF MemoryInv, SvmTypeOK
  <1>8. p \in Copies(t) BY DEF Copies
  <1> QED BY <1>1, <1>2, <1>4, <1>7, <1>8, MemoryForget

\* What the lists have of memory that is given back is in the hand of the thread
\* that gives it back.
LEMMA MemoryFineFree ==
    ASSUME MemoryInv, NEW t \in Threads, FineFree(t)
    PROVE  MemoryInv'
  <1> DEFINE found == {r \in allocated : r.ctx = job[t].ctx /\ r.base = job[t].base}
  <1>1. /\ pc[t] = "fgfree" /\ allocated' = allocated \ found /\ free' = free \cup found
        /\ UNCHANGED <<blocks, poisoned, records, user, job, fills, check>>
        /\ ~job[t].enqueued /\ Returning(t) /\ ~Bringing(t)
    BY DEF FineFree, checks, MemoryInv, JobInv, JobAt, Returning, Bringing
  <1>2. \A r \in allocated : r.base = job[t].base => r.ctx = job[t].ctx
    BY <1>1 DEF MemoryInv, FineInv, OwnInv, Returning
  <1>3. PICK p \in {"idle", "realfree"} : pc' = [pc EXCEPT ![t] = p] /\ (found # {} <=> p = "idle")
    BY <1>1 DEF FineFree, Goto
  <1>4. pc'[t] = p /\ \A u \in Threads \ {t} : pc'[u] = pc[u] BY <1>3 DEF MemoryInv, SvmTypeOK
  <1>5. /\ \A u \in Threads : Copies(u)' = Copies(u) /\ UserPtr(u)' = UserPtr(u) /\ job'[u] = job[u]
        /\ \A u \in Threads : Bringing(u)' <=> Bringing(u)
        /\ \A u \in Threads \ {t} : Returning(u)' <=> Returning(u)
        /\ Returning(t)' <=> found = {}
    BY <1>1, <1>3, <1>4 DEF Copies, UserPtr, Bringing, Returning
  <1>6. \A r \in found : r \in allocated /\ r.base = job[t].base OBVIOUS
  <1>7. \A r \in allocated' : r \in allocated /\ r.base # job[t].base BY <1>1, <1>2
  <1>8. \A r \in allocated : r.base # job[t].base => r \in allocated' BY <1>1, <1>6
  <1> HIDE DEF found
  <1>9. SvmTypeOK' BY <1>1, <1>3, <1>6 DEF MemoryInv, SvmTypeOK, Places
  <1>10. BlocksInv' BY <1>1 DEF MemoryInv, BlocksInv
  <1>11. RoomInv'
    <2>1. \A d, n : Enough(d, n)' <=> Enough(d, n) BY <1>1 DEF Enough
    <2>2. \A u \in Threads : Returning(u)' => Returning(u) BY <1>1, <1>5
    <2>3. \A r \in allocated' \cup free' : [base |-> r.base, size |-> r.size] \in blocks'
      BY <1>1, <1>6 DEF MemoryInv, RoomInv
    <2> QED BY <1>1, <1>5, <2>1, <2>2, <2>3 DEF MemoryInv, RoomInv
  <1>12. OwnInv'
    <2>1. \A r \in free' : r \in free \/ (r \in found /\ r.base = job[t].base) BY <1>1, <1>6
    <2>2. \A u \in Threads : Returning(u)' => Returning(u) /\ (u = t => found = {}) BY <1>1, <1>5
    <2>3. \A r, s \in free' : r.base = s.base => r = s
      BY <1>1, <1>6, <2>1 DEF MemoryInv, OwnInv, FineInv
    <2>4. \A a \in user : \A r \in free' : a.ptr - PoisonLen # r.base BY <1>1, <2>1 DEF MemoryInv, OwnInv
    <2>5. \A r \in free' : \A u \in Threads : r.base + PoisonLen \notin Copies(u)
      BY <1>1, <2>1 DEF MemoryInv, OwnInv
    <2>6. \A u \in Threads : Bringing(u)' \/ Returning(u)' =>
            /\ \A a \in user : a.ptr - PoisonLen # job[u].base
            /\ \A r \in free' : r.base # job[u].base
            /\ \A v \in Threads : job[u].base + PoisonLen \notin Copies(v)
      BY <1>1, <1>5, <2>1, <2>2 DEF MemoryInv, OwnInv
    <2>7. \A u, v \in Threads :
            (Bringing(u)' \/ Returning(u)') /\ (Bringing(v)' \/ Returning(v)') /\ job[u].base = job[v].base => u = v
      BY <1>5, <2>2 DEF MemoryInv, OwnInv
    <2> QED BY <1>1, <1>5, <2>3, <2>4, <2>5, <2>6, <2>7 DEF MemoryInv, OwnInv
  <1>13. FineInv'
    <2> USE DEF MemoryInv, FineInv
    <2>1. \A x \in allocated' :
            \/ \E a \in user' : a.grain = "fine" /\ a.ptr - PoisonLen = x.base
            \/ \E u \in Threads : Bringing(u)' /\ job'[u].grain = "fine" /\ job'[u].base = x.base
            \/ \E u \in Threads : pc'[u] = "fgfree" /\ job'[u].base = x.base /\ job'[u].ctx = x.ctx
      BY <1>1, <1>4, <1>5, <1>7
    <2>2. \A a \in user' : a.grain = "fine" =>
            \E r \in allocated' : r.base = a.ptr - PoisonLen /\ r.ctx = a.ctx
      BY <1>1, <1>8 DEF OwnInv
    <2>3. \A u \in Threads : Bringing(u)' /\ job'[u].grain = "fine" =>
            \E r \in allocated' : r.base = job'[u].base /\ r.ctx = job'[u].ctx
      BY <1>1, <1>5, <1>8 DEF OwnInv
    <2> QED BY <1>7, <2>1, <2>2, <2>3
  <1>14. TakeInv' BY <1>1, <1>4 DEF MemoryInv, TakeInv
  <1>15. JobInv' BY <1>1, <1>4, <1>5 DEF MemoryInv, JobInv, JobAt
  <1>16. RecordsInv' BY <1>1, <1>4, <1>5 DEF MemoryInv, RecordsInv
  <1> QED BY <1>9, <1>10, <1>11, <1>12, <1>13, <1>14, <1>15, <1>16 DEF MemoryInv

\* The block that goes back to the runtime is in no other hand.
LEMMA MemoryRealFree ==
    ASSUME MemoryInv, NEW t \in Threads, RealFree(t)
    PROVE  MemoryInv'
  <1> USE SvmAssumption
  <1>1. /\ pc[t] = "realfree" /\ blocks' = {k \in blocks : k.base # job[t].base}
        /\ job' = [job EXCEPT ![t] = NoJob] /\ pc' = [pc EXCEPT ![t] = "idle"]
        /\ UNCHANGED <<poisoned, records, allocated, free, user, fills, check>> /\ Returning(t)
    BY DEF RealFree, lists, checks, Goto, Returning
  <1>2. /\ pc'[t] = "idle" /\ ~Bringing(t)' /\ ~Returning(t)'
        /\ \A u \in Threads \ {t} :
             /\ pc'[u] = pc[u] /\ job'[u] = job[u] /\ UserPtr(u)' = UserPtr(u)
             /\ Bringing(u)' <=> Bringing(u)
             /\ Returning(u)' <=> Returning(u)
    <2>1. \A u \in Threads \ {t} : job'[u] = job[u] BY <1>1 DEF MemoryInv, SvmTypeOK
    <2> QED BY <1>1, <2>1, HandsEmptied
  <1>3. \A u \in Threads : Copies(u)' = Copies(u) BY <1>1 DEF Copies
  <1>4. \A d, n : Enough(d, n) /\ d # job[t].base => Enough(d, n)' BY <1>1 DEF Enough
  <1>5. SvmTypeOK' BY <1>1, NoJobOK DEF MemoryInv, SvmTypeOK, Places
  <1>6. BlocksInv' BY <1>1 DEF MemoryInv, BlocksInv
  <1>7. RoomInv'
    <2>1. \A a \in user : a.ptr - PoisonLen # job[t].base BY <1>1 DEF MemoryInv, OwnInv
    <2>2. \A u \in Threads \ {t} : Bringing(u) \/ Returning(u) => job[u].base # job[t].base
      BY <1>1 DEF MemoryInv, OwnInv
    <2>3. \A u \in Threads : \A p \in Copies(u) : p - PoisonLen # job[t].base
      <3>1. job[t].base \in Nat /\ \A u \in Threads : \A p \in Copies(u) : p \in Nat
        BY DEF MemoryInv, SvmTypeOK, Jobs, Checks, Copies
      <3>2. \A u \in Threads : job[t].base + PoisonLen \notin Copies(u) BY <1>1 DEF MemoryInv, OwnInv
      <3>3. \A u \in Threads : \A p \in Copies(u) : p # job[t].base + PoisonLen BY <3>2
      <3> QED BY <3>1, <3>3
    <2>4. \A r \in allocated \cup free : r.base # job[t].base
      <3>1. \A r \in free : r.base # job[t].base BY <1>1 DEF MemoryInv, OwnInv
      <3>2. \A r \in allocated :
              \/ \E a \in user : a.ptr - PoisonLen = r.base
              \/ \E u \in Threads \ {t} : (Bringing(u) \/ Returning(u)) /\ job[u].base = r.base
        BY <1>1 DEF MemoryInv, FineInv, Bringing, Returning
      <3> QED BY <2>1, <2>2, <3>1, <3>2
    <2>5. \A r \in allocated' \cup free' : [base |-> r.base, size |-> r.size] \in blocks'
      <3>1. \A r \in allocated \cup free : [base |-> r.base, size |-> r.size].base # job[t].base BY <2>4
      <3>2. \A r \in allocated \cup free : [base |-> r.base, size |-> r.size] \in blocks
        BY DEF MemoryInv, RoomInv
      <3> QED BY <1>1, <3>1, <3>2
    <2> QED BY <1>1, <1>2, <1>3, <1>4, <2>1, <2>2, <2>3, <2>5 DEF MemoryInv, RoomInv
  <1>8. OwnInv' BY <1>1, <1>2, <1>3 DEF MemoryInv, OwnInv
  <1>9. FineInv'
    BY <1>1, <1>2 DEF MemoryInv, FineInv, Bringing
  <1>10. TakeInv' BY <1>1, <1>2 DEF MemoryInv, TakeInv
  <1>11. JobInv' BY <1>1, <1>2 DEF MemoryInv, JobInv, JobAt
  <1>12. RecordsInv' BY <1>1, <1>2, <1>3 DEF MemoryInv, RecordsInv
  <1> QED BY <1>5, <1>6, <1>7, <1>8, <1>9, <1>10, <1>11, <1>12 DEF MemoryInv

-----------------------------------------------------------------------------
(***************************************************************************)
(* The steps of a check.                                                   *)
(***************************************************************************)

LEMMA NoCheckOK == NoCheck \in Checks /\ NoCheck.copies = {} /\ NoCheck.phase = "none"
  <1>1. <<>> \in Seq(Nat) BY EmptySeq
  <1> QED BY <1>1 DEF Checks, NoCheck

\* A check goes on: its new state is v.
LEMMA CheckMoves ==
    ASSUME MemoryInv, NEW t \in Threads, NEW v \in Checks, check' = [check EXCEPT ![t] = v],
           v.copies = check[t].copies, pc[t] = "idle" \/ check[t] # NoCheck,
           UNCHANGED <<blocks, records, allocated, free, user, pc, job, poisoned, fills>>
    PROVE  MemoryInv'
  <1>1. check' \in [Threads -> Checks] /\ check'[t] = v /\ \A u \in Threads \ {t} : check'[u] = check[u]
    BY DEF MemoryInv, SvmTypeOK
  <1>2. fills' \in [Threads -> SUBSET Int] BY DEF MemoryInv, SvmTypeOK
  <1>3. ASSUME NEW u \in Threads
        PROVE  check'[u] = check[u] \/
                 (check'[u].copies = check[u].copies /\ (pc[u] = "idle" \/ check[u] # NoCheck))
    BY <1>1
  <1> QED BY <1>1, <1>2, <1>3, NoMove

LEMMA MemoryCheckSVM ==
    ASSUME MemoryInv, NEW t \in Threads, NEW c \in Contexts, NEW way \in CheckWays, CheckSVM(t, c, way)
    PROVE  MemoryInv'
  <1> DEFINE v == [NoCheck EXCEPT !.phase = "count", !.at = SvmNext(0), !.due = user, !.ctx = c, !.way = way]
  <1>1. SvmNext(0) \in Nat BY SvmNextFacts DEF MemoryInv, SvmTypeOK
  <1>2. user \subseteq Allocations BY DEF MemoryInv, SvmTypeOK
  <1>3. v \in Checks BY <1>1, <1>2, NoCheckOK DEF Checks
  <1>4. v.copies = {} BY NoCheckOK DEF Checks
  <1>5. /\ check' = [check EXCEPT ![t] = v] /\ pc[t] = "idle" /\ check[t] = NoCheck
        /\ UNCHANGED <<blocks, records, allocated, free, user, pc, job, poisoned, fills>>
    BY DEF CheckSVM, Ready, lists
  <1> HIDE DEF v
  <1> QED BY <1>3, <1>4, <1>5, NoCheckOK, CheckMoves

\* A step that loses a record changes nothing else.
LEMMA MemoryLose ==
    ASSUME MemoryInv,
           UNCHANGED <<blocks, records, allocated, free, user, pc, job, poisoned, fills, check>>
    PROVE  MemoryInv'
  <1>1. fills' \in [Threads -> SUBSET Int] /\ check' \in [Threads -> Checks]
    BY DEF MemoryInv, SvmTypeOK
  <1> QED BY <1>1, NoMove

LEMMA MemoryCountSVM ==
    ASSUME MemoryInv, NEW t \in Threads, CountSVM(t)
    PROVE  MemoryInv'
  <1>1. /\ check[t] \in Checks /\ check \in [Threads -> Checks] /\ records \subseteq Records
        /\ check[t].at \in Nat /\ check[t].n \in Nat
    BY DEF MemoryInv, SvmTypeOK, Checks
  <1>2. SvmNext(0) \in Nat /\ SvmNext(check[t].at) \in Nat BY <1>1, SvmNextFacts
  <1>3. UNCHANGED <<blocks, records, allocated, free, user, pc, job, poisoned, fills>>
    BY DEF CountSVM, lists
  <1>4. check[t] # NoCheck BY NoCheckOK DEF CountSVM
  <1> DEFINE v == [check[t] EXCEPT !.phase = "list", !.at = SvmNext(0)]
             w == [check[t] EXCEPT !.n = check[t].n + 1, !.at = SvmNext(check[t].at)]
  <1>5. v \in Checks /\ v.copies = check[t].copies BY <1>1, <1>2 DEF Checks
  <1>6. w \in Checks /\ w.copies = check[t].copies
    <2>1. check[t].n + 1 \in Nat BY <1>1
    <2> QED BY <1>1, <1>2, <2>1 DEF Checks
  <1>7. check' = check \/ check' = [check EXCEPT ![t] = v] \/ check' = [check EXCEPT ![t] = w]
    BY <1>1 DEF CountSVM, Lose
  <1> HIDE DEF v, w
  <1> QED BY <1>3, <1>4, <1>5, <1>6, <1>7, CheckMoves, MemoryLose

\* What is left of the room of a list holds zeros.
LEMMA ZerosOK ==
    ASSUME NEW k \in Int
    PROVE  [i \in 1 .. k |-> 0] \in Seq(Nat)
  <1>1. CASE k \in Nat BY <1>1
  <1>2. CASE k \notin Nat
    <2>1. 1 .. k = 1 .. 0 BY <1>2
    <2>2. [i \in 1 .. 0 |-> 0] \in Seq(Nat) OBVIOUS
    <2> QED BY <2>1, <2>2
  <1> QED BY <1>1, <1>2

LEMMA MemoryListSVM ==
    ASSUME MemoryInv, NEW t \in Threads, ListSVM(t)
    PROVE  MemoryInv'
  <1>1. /\ check[t] \in Checks /\ check \in [Threads -> Checks] /\ records \subseteq Records
        /\ check[t].at \in Nat /\ check[t].n \in Nat /\ check[t].list \in Seq(Nat)
    BY DEF MemoryInv, SvmTypeOK, Checks
  <1>2. SvmNext(check[t].at) \in Nat BY <1>1, SvmNextFacts
  <1>3. UNCHANGED <<blocks, records, allocated, free, user, pc, job, poisoned, fills>>
    BY DEF ListSVM, lists
  <1>4. check[t] # NoCheck BY NoCheckOK DEF ListSVM
  <1> DEFINE zeros == [i \in 1 .. (check[t].n - Len(check[t].list)) |-> 0]
             v == [check[t] EXCEPT !.phase = "find", !.list = check[t].list \o zeros]
             w == [check[t] EXCEPT !.list = Append(check[t].list, check[t].at), !.at = SvmNext(check[t].at)]
  <1>5. v \in Checks /\ v.copies = check[t].copies
    <2>1. zeros \in Seq(Nat) BY <1>1, ZerosOK
    <2> HIDE DEF zeros
    <2>2. check[t].list \o zeros \in Seq(Nat) BY <1>1, <2>1
    <2> QED BY <1>1, <2>2 DEF Checks
  <1>6. w \in Checks /\ w.copies = check[t].copies
    <2>1. Append(check[t].list, check[t].at) \in Seq(Nat) BY <1>1
    <2> QED BY <1>1, <1>2, <2>1 DEF Checks
  <1>7. check' = check \/ check' = [check EXCEPT ![t] = v] \/ check' = [check EXCEPT ![t] = w]
    BY <1>1 DEF ListSVM, Lose
  <1> HIDE DEF v, w
  <1> QED BY <1>3, <1>4, <1>5, <1>6, <1>7, CheckMoves, MemoryLose

LEMMA MemoryFindSVM ==
    ASSUME MemoryInv, NEW t \in Threads, FindSVM(t)
    PROVE  MemoryInv'
  <1> USE SvmAssumption
  <1>1. /\ check[t] \in Checks /\ check \in [Threads -> Checks] /\ records \subseteq Records
        /\ check[t].list \in Seq(Nat) /\ check[t].found \in SUBSET Nat /\ job \in [Threads -> Jobs]
    BY DEF MemoryInv, SvmTypeOK, Checks
  <1>2. /\ pc[t] = "idle" /\ check[t] # NoCheck /\ check[t].list # <<>>
        /\ UNCHANGED <<blocks, records, allocated, free, user, poisoned, fills>>
    BY NoCheckOK DEF FindSVM, lists
  <1> DEFINE p == Head(check[t].list)
             r == CHOOSE x \in SvmFind(p) : TRUE
             v == [check[t] EXCEPT !.list = Tail(check[t].list), !.found = check[t].found \cup {r.handle}]
             j == [NoJob EXCEPT !.ctx = r.ctx, !.size = 2 * PoisonLen]
  <1>3. CASE SvmFind(p) = {}
    <2>1. UNCHANGED <<check, pc, job>> BY <1>3 DEF FindSVM, Lose
    <2> QED BY <1>2, <2>1, MemoryLose
  <1>4. CASE SvmFind(p) # {}
    <2>1. r \in records
      <3>1. r \in SvmFind(p) BY <1>4
      <3> QED BY <3>1 DEF SvmFind
    <2>2. r.handle \in Nat /\ r.ctx \in Contexts \cup {0} BY <1>1, <2>1 DEF Records
    <2>3. v \in Checks /\ v.copies = check[t].copies
      <3>1. Tail(check[t].list) \in Seq(Nat) BY <1>1, <1>2
      <3> HIDE DEF r
      <3> QED BY <1>1, <2>2, <3>1 DEF Checks
    <2>4. j \in Jobs /\ j.size = 2 * PoisonLen /\ j.grain = "coarse"
      <3> HIDE DEF r
      <3>0. 2 * PoisonLen \in Nat OBVIOUS
      <3>1. j \in Jobs BY <2>2, <3>0, NoJobOK DEF Jobs
      <3>2. j.size = 2 * PoisonLen BY NoJobOK DEF Jobs
      <3>3. j.grain = "coarse" BY NoJobOK DEF NoJob
      <3> QED BY <3>1, <3>2, <3>3
    <2>5. /\ check' = [check EXCEPT ![t] = v]
          /\ \/ Goto(t, "real") /\ job' = [job EXCEPT ![t] = j]
             \/ UNCHANGED <<pc, job>>
      BY <1>4 DEF FindSVM
    <2> HIDE DEF v, j
    <2>6. check' \in [Threads -> Checks] /\ check'[t] = v /\ \A u \in Threads \ {t} : check'[u] = check[u]
      BY <1>1, <2>3, <2>5
    <2>7. CASE Goto(t, "real") /\ job' = [job EXCEPT ![t] = j]
      <3>1. ~Bringing(t) /\ ~Returning(t) BY <1>2 DEF Bringing, Returning
      <3>2. j.size > 0 BY <2>4
      <3> QED BY <1>2, <2>3, <2>4, <2>6, <2>7, <3>1, <3>2, LightMove
    <2>8. CASE UNCHANGED <<pc, job>> BY <1>2, <2>3, <2>5, <2>8, CheckMoves
    <2> QED BY <2>5, <2>7, <2>8
  <1> QED BY <1>3, <1>4

LEMMA MemoryExamine ==
    ASSUME MemoryInv, NEW t \in Threads, Examine(t) \/ CheckDone(t)
    PROVE  MemoryInv'
  <1>1. check[t] \in Checks /\ check \in [Threads -> Checks] BY DEF MemoryInv, SvmTypeOK
  <1>2. pc[t] = "idle" /\ UNCHANGED <<blocks, records, allocated, free, user, pc, job, poisoned, fills>>
    BY DEF Examine, CheckDone, lists
  <1> DEFINE v == [check[t] EXCEPT !.phase = "release"]
  <1>3. v \in Checks /\ v.copies = check[t].copies BY <1>1 DEF Checks
  <1>4. CASE Examine(t)
    <2>1. check' = [check EXCEPT ![t] = v] BY <1>1, <1>4 DEF Examine
    <2> HIDE DEF v
    <2> QED BY <1>2, <1>3, <2>1, CheckMoves
  <1>5. CASE CheckDone(t)
    <2>1. check' = [check EXCEPT ![t] = NoCheck] /\ check[t].copies = {} BY <1>5 DEF CheckDone
    <2> QED BY <1>2, <2>1, NoCheckOK, CheckMoves
  <1> QED BY <1>4, <1>5

LEMMA MemoryBytes ==
    ASSUME MemoryInv, NEW t \in Threads, RunFills(t) \/ RunMap \/ SVMUnmap(t)
    PROVE  MemoryInv'
  <1>1. UNCHANGED <<blocks, records, allocated, free, user, pc, job, check>>
    BY DEF RunFills, RunMap, SVMUnmap, lists, checks
  <1>2. fills' \in [Threads -> SUBSET Int] /\ check' \in [Threads -> Checks]
    BY <1>1 DEF MemoryInv, SvmTypeOK, RunFills, RunMap, SVMUnmap
  <1> QED BY <1>1, <1>2, NoMove

LEMMA MemoryMap ==
    ASSUME MemoryInv, NEW t \in Threads,
           \/ MapReturns(t)
           \/ \E a, k, n, mode, inv : SVMMap(t, a, k, n, mode, inv)
    PROVE  MemoryInv'
  <1>1. /\ UNCHANGED <<blocks, records, allocated, free, user, job, fills, check>>
        /\ \E p \in Places : pc' = [pc EXCEPT ![t] = p]
    BY DEF MapReturns, SVMMap, lists, checks, Goto, Places
  <1>2. SvmTypeOK' BY <1>1 DEF MemoryInv, SvmTypeOK
  <1> QED BY <1>2, MemoryMapping DEF MemoryInv

-----------------------------------------------------------------------------
(***************************************************************************)
(* The invariant.                                                          *)
(***************************************************************************)

LEMMA MemoryInvNext ==
    ASSUME FineAlone, Frees \subseteq {"now"}, MemoryInv, [Next]_vars
    PROVE  MemoryInv'
  <1>1. CASE UNCHANGED vars
    <2>1. UNCHANGED <<blocks, records, allocated, free, user, pc, job, poisoned, fills, check>>
      BY <1>1 DEF vars, lists, checks
    <2> QED BY <2>1, MemoryLose
  <1>2. CASE Next
    <2>1. CASE RunMap
      <3>1. CASE \E t \in Threads : TRUE BY <2>1, <3>1, MemoryBytes
      <3>2. CASE ~\E t \in Threads : TRUE
        <4>1. UNCHANGED <<blocks, records, allocated, free, user, pc, job, fills, check>>
          BY <2>1 DEF RunMap, lists, checks
        <4>2. fills' \in [Threads -> SUBSET Int] /\ check' \in [Threads -> Checks]
          BY <4>1 DEF MemoryInv, SvmTypeOK
        <4> QED BY <4>1, <4>2, NoMove
      <3> QED BY <3>1, <3>2
    <2>2. ASSUME NEW t \in Threads, AllocStep(t) PROVE MemoryInv'
      BY <2>2, MemoryFindFree, MemoryTakeFree, MemoryRealAlloc, MemoryRealAllocFails, MemoryEnqueueFills,
         MemoryBytes, MemoryRecord, MemoryGiveUser, MemoryGiveCopy DEF AllocStep
    <2>3. ASSUME NEW t \in Threads, CheckStep(t) PROVE MemoryInv'
      BY <2>3, MemoryCountSVM, MemoryListSVM, MemoryFindSVM, MemoryExamine, MemoryFreeCopy DEF CheckStep
    <2>4. ASSUME NEW t \in Threads, FineFree(t) \/ RealFree(t) \/ MapReturns(t) \/ SVMUnmap(t) PROVE MemoryInv'
      BY <2>4, MemoryFineFree, MemoryRealFree, MemoryMap, MemoryBytes
    <2>5. ASSUME NEW t \in Threads, NEW c \in Contexts, NEW g \in Grains, NEW n \in Sizes,
                 NEW al \in Alignments, SVMAlloc(t, c, g, n, al)
          PROVE  MemoryInv'
      BY <2>5, MemorySVMAlloc
    <2>6. ASSUME NEW t \in Threads, NEW c \in Contexts, NEW way \in CheckWays, CheckSVM(t, c, way)
          PROVE  MemoryInv'
      BY <2>6, MemoryCheckSVM
    <2>7. ASSUME NEW t \in Threads, NEW a \in user, NEW how \in Frees, SVMFree(t, a, how) PROVE MemoryInv'
      BY <2>7, MemorySVMFree
    <2>8. ASSUME NEW t \in Threads, NEW a \in user, NEW m \in MapArguments(a), NEW mode \in MapModes,
                 NEW inv \in BOOLEAN, SVMMap(t, a, m[1], m[2], mode, inv)
          PROVE  MemoryInv'
      BY <2>8, MemoryMap
    <2> QED BY <1>2, <2>1, <2>2, <2>3, <2>4, <2>5, <2>6, <2>7, <2>8 DEF Next, Steps
  <1> QED BY <1>1, <1>2

\* Whatever the threads do, when no two of them are in the unlocked lists at once
\* and memory is freed with clSVMFree: the runtime's blocks, the lists, the
\* records and what the application and the checks have agree.
THEOREM MemoryInvariant == FineAlone /\ Frees \subseteq {"now"} => (Spec => []MemoryInv)
  <1> SUFFICES ASSUME FineAlone, Frees \subseteq {"now"} PROVE Spec => []MemoryInv
    OBVIOUS
  <1>1. Init => MemoryInv BY MemoryInvInit
  <1>2. MemoryInv /\ [Next]_vars => MemoryInv' BY MemoryInvNext
  <1> QED BY <1>1, <1>2, PTL DEF Spec

\* Allocations at the start of different blocks have no byte in common.
LEMMA ApartBytes ==
    ASSUME MemoryInv, NEW b \in Int, NEW n \in Nat, Enough(b, n),
           NEW c \in Int, NEW m \in Nat, Enough(c, m), b # c
    PROVE  Bytes(b, n) \cap Bytes(c, m) = {}
  <1>1. PICK k \in blocks : k.base = b /\ k.size >= n BY DEF Enough
  <1>2. PICK l \in blocks : l.base = c /\ l.size >= m BY DEF Enough
  <1>3. k.base + k.size <= l.base \/ l.base + l.size <= k.base BY <1>1, <1>2 DEF MemoryInv, BlocksInv
  <1>4. k.size \in Nat /\ l.size \in Nat BY DEF MemoryInv, SvmTypeOK
  <1> QED BY <1>1, <1>2, <1>3, <1>4 DEF Bytes

\* What the application has: its memory starts a block, and is large enough.
LEMMA UserFacts ==
    ASSUME MemoryInv, NEW a \in user
    PROVE  /\ a.ptr \in Nat /\ a.size \in Nat \ {0} /\ a.ptr - PoisonLen \in Nat
           /\ Padded(a.size) \in Nat /\ Enough(a.ptr - PoisonLen, Padded(a.size))
           /\ Bytes(a.ptr, a.size) \subseteq Footprint(a) /\ Canary(a.ptr, a.size) \subseteq Footprint(a)
  <1> USE SvmAssumption
  <1>1. a.ptr \in Nat /\ a.size \in Nat \ {0} BY DEF MemoryInv, SvmTypeOK, Allocations
  <1>2. Enough(a.ptr - PoisonLen, Padded(a.size)) BY DEF MemoryInv, RoomInv
  <1>3. a.ptr - PoisonLen \in Nat BY <1>2 DEF Enough, MemoryInv, SvmTypeOK
  <1>4. Bytes(a.ptr, a.size) \subseteq Footprint(a) BY <1>1 DEF Bytes, Footprint, Padded
  <1>5. Canary(a.ptr, a.size) \subseteq Footprint(a) BY <1>1 DEF Bytes, Footprint, Padded, Canary
  <1> QED BY <1>1, <1>2, <1>3, <1>4, <1>5 DEF Padded

\* Two allocations of the application have nothing in common.
LEMMA UsersApart ==
    ASSUME MemoryInv, NEW a \in user, NEW b \in user, a # b
    PROVE  Footprint(a) \cap Footprint(b) = {}
  <1>1. a.ptr # b.ptr BY DEF MemoryInv, OwnInv
  <1>2. a.ptr - PoisonLen # b.ptr - PoisonLen BY <1>1, UserFacts, SvmAssumption
  <1> QED BY <1>2, UserFacts, ApartBytes DEF Footprint

LEMMA ApartHolds == MemoryInv => Apart
  <1> SUFFICES ASSUME MemoryInv, NEW a \in user
               PROVE  /\ \E k \in blocks : Footprint(a) \subseteq Bytes(k.base, k.size)
                      /\ \A b \in user \ {a} : Footprint(a) \cap Footprint(b) = {}
    BY DEF Apart
  <1>1. PICK k \in blocks : k.base = a.ptr - PoisonLen /\ k.size >= Padded(a.size) BY UserFacts DEF Enough
  <1>2. k.size \in Nat BY DEF MemoryInv, SvmTypeOK
  <1>3. Footprint(a) \subseteq Bytes(k.base, k.size) BY <1>1, <1>2, UserFacts DEF Footprint, Bytes
  <1> QED BY <1>3, UsersApart

\* Allocations do not overlap, canaries included, and all their bytes are bytes
\* the runtime has given.
THEOREM AllocationsApart == FineAlone /\ Frees \subseteq {"now"} => (Spec => []Apart)
  BY MemoryInvariant, ApartHolds, PTL

\* What is recorded starts a block, too, and is no larger.
LEMMA RecordRoom ==
    ASSUME MemoryInv, NEW r \in records
    PROVE  /\ r.handle \in Nat /\ r.size \in Nat \ {0} /\ r.handle - PoisonLen \in Nat
           /\ Padded(r.size) \in Nat /\ Enough(r.handle - PoisonLen, Padded(r.size))
  <1> USE SvmAssumption
  <1>1. r.handle \in Nat /\ r.size \in Nat \ {0} /\ r.main \in Nat /\ r.main = r.handle - PoisonLen
    BY DEF MemoryInv, SvmTypeOK, Records, RecordsInv
  <1>2. CASE \E a \in user : Describes(r, a.ptr, a.size)
    BY <1>1, <1>2 DEF MemoryInv, RoomInv, Describes, Padded
  <1>3. CASE \E t \in Threads : pc[t] = "wait" /\ Describes(r, UserPtr(t), job[t].size)
    <2>1. PICK t \in Threads : pc[t] = "wait" /\ Describes(r, UserPtr(t), job[t].size) BY <1>3
    <2>2. r.handle - PoisonLen = job[t].base BY <2>1 DEF Describes, UserPtr, MemoryInv, SvmTypeOK, Jobs
    <2>3. Enough(job[t].base, Padded(job[t].size)) BY <2>1 DEF MemoryInv, RoomInv, Bringing
    <2> QED BY <1>1, <2>1, <2>2, <2>3 DEF Describes, Padded
  <1>4. CASE \E t \in Threads : r.handle \in Copies(t) /\ r.size = 2 * PoisonLen
    BY <1>1, <1>4 DEF MemoryInv, RoomInv, Padded
  <1> QED BY <1>2, <1>3, <1>4 DEF MemoryInv, RecordsInv

LEMMA FoundRightHolds == MemoryInv => FoundRight
  <1> USE SvmAssumption
  <1> SUFFICES ASSUME MemoryInv, NEW a \in user, NEW p \in Bytes(a.ptr, a.size)
               PROVE  \E r \in SvmFind(p) : r.handle = a.ptr /\ r.size = a.size
    BY DEF FoundRight
  <1>1. PICK r \in records : r.handle = a.ptr /\ r.size = a.size
    BY DEF MemoryInv, RecordsInv, Describes
  <1>2. p \in Int /\ a.ptr <= p /\ p < a.ptr + a.size BY UserFacts DEF Bytes
  <1>3. ASSUME NEW q \in records, q.handle <= p, ~(q.handle <= r.handle) PROVE FALSE
    <2>1. q.handle \in Bytes(r.handle - PoisonLen, Padded(r.size))
      BY <1>1, <1>2, <1>3, RecordRoom, UserFacts DEF Bytes, Padded
    <2>2. q.handle \in Bytes(q.handle - PoisonLen, Padded(q.size)) BY RecordRoom DEF Bytes, Padded
    <2>3. q.handle - PoisonLen # r.handle - PoisonLen BY <1>3, RecordRoom
    <2> QED BY <2>1, <2>2, <2>3, RecordRoom, ApartBytes
  <1>4. r \in SvmFind(p)
    BY <1>1, <1>2, <1>3, UserFacts DEF SvmFind
  <1> QED BY <1>1, <1>4

\* cl_svm_mem_find answers, for every address of an allocation, the record of
\* that allocation, although it only looks at where the records start.
THEOREM RecordsFoundRight == FineAlone /\ Frees \subseteq {"now"} => (Spec => []FoundRight)
  BY MemoryInvariant, FoundRightHolds, PTL

LEMMA CacheExactHolds == MemoryInv => CacheExact
  <1> SUFFICES ASSUME MemoryInv PROVE CacheExact
    OBVIOUS
  <1>1. \A r \in allocated \cup free : [base |-> r.base, size |-> r.size] \in blocks
    BY DEF MemoryInv, RoomInv
  <1>2. ASSUME Quiet
        PROVE  {r.base : r \in allocated} = {a.ptr - PoisonLen : a \in {x \in user : x.grain = "fine"}}
    <2>1. \A t \in Threads : ~Bringing(t) /\ pc[t] # "fgfree" BY <1>2 DEF Quiet, Ready, Bringing
    <2>2. \A r \in allocated : \E a \in user : a.grain = "fine" /\ a.ptr - PoisonLen = r.base
      BY <2>1 DEF MemoryInv, FineInv
    <2>3. \A a \in user : a.grain = "fine" => \E r \in allocated : r.base = a.ptr - PoisonLen
      BY DEF MemoryInv, FineInv
    <2> QED BY <2>2, <2>3
  <1> QED BY <1>1, <1>2 DEF CacheExact

\* Between calls the list of regions in use is the fine-grained memory of the
\* application, and no region of either list has gone back to the runtime.
THEOREM ListsExact == FineAlone /\ Frees \subseteq {"now"} => (Spec => []CacheExact)
  BY MemoryInvariant, CacheExactHolds, PTL

-----------------------------------------------------------------------------
(***************************************************************************)
(* The canaries.                                                           *)
(***************************************************************************)

\* What a call that is mapping fills before it returns.
MapFill == IF \E t \in Threads : pc[t] = "mapping" THEN map.fill ELSE {}

\* The offset of the second canary is in the range of its type.
NoWrap == \A n \in Sizes \cup {2 * PoisonLen} : n + PoisonLen < OffsetModulus

SizeInv ==
    \A t \in Threads : pc[t] \in {"find", "take", "real", "fill"} => job[t].size + PoisonLen < OffsetModulus

\* From the time the fills are enqueued, what is not poisoned yet is in them.
FillInv ==
    \A t \in Threads : pc[t] \in {"record", "wait"} =>
        Canary(UserPtr(t), job[t].size) \subseteq poisoned \cup fills[t]

\* What the application has is poisoned, but for what a call fills again.
ReadyInv == \A a \in user : Canary(a.ptr, a.size) \subseteq poisoned \cup MapFill

\* A map that has yet to be carried out is within one allocation, which stays,
\* and the call that waits for it fills what it can spoil.
MapInv ==
    /\ map \in [asked : SUBSET Int, got : SUBSET Int, pending : BOOLEAN, waits : BOOLEAN, fill : SUBSET Int]
    /\ map.fill \subseteq map.got
    /\ \A t \in Threads : pc[t] = "mapping" => map # NoMap
    /\ map.pending =>
          /\ map.waits /\ \E t \in Threads : pc[t] = "mapping"
          /\ \E a \in user : /\ map.asked \cap Bytes(a.ptr, a.size) # {}
                             /\ map.got \subseteq Footprint(a)
                             /\ Canary(a.ptr, a.size) \cap map.got \subseteq map.fill

PoisonInv == SizeInv /\ FillInv /\ ReadyInv /\ MapInv

LEMMA NoMapOK ==
    /\ NoMap \in [asked : SUBSET Int, got : SUBSET Int, pending : BOOLEAN, waits : BOOLEAN, fill : SUBSET Int]
    /\ NoMap.fill = {} /\ NoMap.got = {} /\ NoMap.pending = FALSE /\ NoMap.asked = {}
  BY DEF NoMap

LEMMA PoisonInvInit == Init => PoisonInv
  <1> SUFFICES ASSUME Init PROVE PoisonInv
    OBVIOUS
  <1> USE DEF Init
  <1>1. SizeInv /\ FillInv /\ ReadyInv BY DEF SizeInv, FillInv, ReadyInv
  <1>2. MapInv BY NoMapOK DEF MapInv
  <1> QED BY <1>1, <1>2 DEF PoisonInv

\* A step that changes no byte, and moves t only where it has no fills to wait for.
LEMMA PoisonStill ==
    ASSUME MemoryInv, PoisonInv, NEW t \in Threads,
           \A u \in Threads \ {t} : pc'[u] = pc[u] /\ job'[u] = job[u],
           \/ pc'[t] = pc[t] /\ job'[t] = job[t]
           \/ {pc[t], pc'[t]} \cap {"record", "wait", "mapping"} = {},
           pc'[t] \in {"find", "take", "real", "fill"} => job'[t].size + PoisonLen < OffsetModulus,
           UNCHANGED <<poisoned, fills, map>>, user' \subseteq user,
           \A a \in user \ user' : map.asked \cap Bytes(a.ptr, a.size) = {}
    PROVE  PoisonInv'
  <1>1. SizeInv' BY DEF PoisonInv, SizeInv
  <1>2. \A u \in Threads : pc'[u] \in {"record", "wait", "mapping"} \/ pc[u] \in {"record", "wait", "mapping"} =>
           pc'[u] = pc[u] /\ job'[u] = job[u]
    OBVIOUS
  <1>3. FillInv'
    <2>1. \A u \in Threads : pc'[u] \in {"record", "wait"} => UserPtr(u)' = UserPtr(u) BY <1>2 DEF UserPtr
    <2> QED BY <1>2, <2>1 DEF PoisonInv, FillInv
  <1>4. \A u \in Threads : pc'[u] = "mapping" <=> pc[u] = "mapping" BY <1>2
  <1>5. MapFill' = MapFill BY <1>4 DEF MapFill
  <1>6. ReadyInv' BY <1>5 DEF PoisonInv, ReadyInv
  <1>7. MapInv' BY <1>4 DEF PoisonInv, MapInv
  <1> QED BY <1>1, <1>3, <1>6, <1>7 DEF PoisonInv

\* No byte of n at b is a byte of memory at the start of a block.
LEMMA RoomApart ==
    ASSUME MemoryInv, NEW n \in Nat, NEW b \in Room(n), NEW c \in Int, NEW m \in Nat, Enough(c, m)
    PROVE  Bytes(c, m) \cap Bytes(b, n) = {}
  <1>1. PICK k \in blocks : k.base = c /\ k.size >= m BY DEF Enough
  <1>2. k.size \in Nat BY DEF MemoryInv, SvmTypeOK
  <1>3. Bytes(c, m) \subseteq Bytes(k.base, k.size) BY <1>1, <1>2 DEF Bytes
  <1>4. Bytes(b, n) \cap Bytes(k.base, k.size) = {} BY DEF Room
  <1> QED BY <1>3, <1>4

\* The memory a thread brings: it starts a block, and is large enough.
LEMMA BringingFacts ==
    ASSUME MemoryInv, NEW t \in Threads, Bringing(t)
    PROVE  /\ job[t].base \in Nat /\ job[t].size \in Nat \ {0} /\ UserPtr(t) = job[t].base + PoisonLen
           /\ Padded(job[t].size) \in Nat /\ Enough(job[t].base, Padded(job[t].size))
           /\ Bytes(UserPtr(t), job[t].size) \subseteq Bytes(job[t].base, Padded(job[t].size))
           /\ Canary(UserPtr(t), job[t].size) \subseteq Bytes(job[t].base, Padded(job[t].size))
           /\ Canary(UserPtr(t), job[t].size) \cap Bytes(UserPtr(t), job[t].size) = {}
  <1> USE SvmAssumption
  <1>1. job[t].base \in Nat /\ job[t].size \in Nat \ {0} /\ UserPtr(t) = job[t].base + PoisonLen
    BY DEF MemoryInv, SvmTypeOK, Jobs, JobInv, JobAt, UserPtr
  <1>2. Enough(job[t].base, Padded(job[t].size)) /\ Padded(job[t].size) \in Nat
    BY <1>1 DEF MemoryInv, RoomInv, Padded
  <1>3. Bytes(UserPtr(t), job[t].size) \subseteq Bytes(job[t].base, Padded(job[t].size))
    BY <1>1 DEF Bytes, Padded
  <1>4. Canary(UserPtr(t), job[t].size) \subseteq Bytes(job[t].base, Padded(job[t].size))
    BY <1>1 DEF Bytes, Padded, Canary
  <1>5. Canary(UserPtr(t), job[t].size) \cap Bytes(UserPtr(t), job[t].size) = {}
    BY <1>1 DEF Bytes, Canary
  <1> QED BY <1>1, <1>2, <1>3, <1>4, <1>5

\* It is apart from what the application has, and from what others bring.
LEMMA BringingApart ==
    ASSUME MemoryInv, NEW t \in Threads, Bringing(t)
    PROVE  /\ \A a \in user : Footprint(a) \cap Bytes(job[t].base, Padded(job[t].size)) = {}
           /\ \A u \in Threads \ {t} : Bringing(u) =>
                Bytes(job[u].base, Padded(job[u].size)) \cap Bytes(job[t].base, Padded(job[t].size)) = {}
  <1>1. ASSUME NEW a \in user PROVE Footprint(a) \cap Bytes(job[t].base, Padded(job[t].size)) = {}
    <2>1. a.ptr - PoisonLen # job[t].base BY DEF MemoryInv, OwnInv
    <2> QED BY <2>1, UserFacts, BringingFacts, ApartBytes DEF Footprint
  <1>2. ASSUME NEW u \in Threads \ {t}, Bringing(u)
        PROVE  Bytes(job[u].base, Padded(job[u].size)) \cap Bytes(job[t].base, Padded(job[t].size)) = {}
    <2>1. job[u].base # job[t].base BY <1>2 DEF MemoryInv, OwnInv
    <2> QED BY <1>2, <2>1, BringingFacts, ApartBytes
  <1> QED BY <1>1, <1>2

LEMMA PoisonRealAlloc ==
    ASSUME MemoryInv, PoisonInv, NEW t \in Threads, RealAlloc(t)
    PROVE  PoisonInv'
  <1>1. job[t].size \in Nat /\ Padded(job[t].size) \in Nat /\ job[t] \in Jobs
    BY SvmAssumption DEF MemoryInv, SvmTypeOK, Jobs, Padded
  <1>2. PICK b \in Room(Padded(job[t].size)) :
           poisoned' = poisoned \ Bytes(b, Padded(job[t].size)) /\ job' = [job EXCEPT ![t].base = b]
    BY DEF RealAlloc
  <1>3. pc[t] = "real" /\ pc' = [pc EXCEPT ![t] = "fill"] /\ UNCHANGED <<user, fills, map>>
    BY DEF RealAlloc, Goto
  <1>4. /\ pc'[t] = "fill" /\ job'[t].size = job[t].size
        /\ \A u \in Threads \ {t} : pc'[u] = pc[u] /\ job'[u] = job[u] /\ UserPtr(u)' = UserPtr(u)
    <2>1. job'[t] = [job[t] EXCEPT !.base = b] BY <1>2 DEF MemoryInv, SvmTypeOK
    <2>2. job'[t].size = job[t].size BY <1>1, <2>1 DEF Jobs
    <2> QED BY <1>2, <1>3, <2>2 DEF MemoryInv, SvmTypeOK, UserPtr
  <1>5. MapFill' = MapFill
    <2>1. \A u \in Threads : pc'[u] = "mapping" <=> pc[u] = "mapping" BY <1>3, <1>4
    <2> QED BY <1>3, <2>1 DEF MapFill
  <1>6. \A a \in user : Canary(a.ptr, a.size) \cap Bytes(b, Padded(job[t].size)) = {}
    <2> SUFFICES ASSUME NEW a \in user PROVE Canary(a.ptr, a.size) \cap Bytes(b, Padded(job[t].size)) = {}
      OBVIOUS
    <2>1. Footprint(a) \cap Bytes(b, Padded(job[t].size)) = {}
      BY <1>1, UserFacts, RoomApart DEF Footprint
    <2> QED BY <2>1, UserFacts
  <1>7. \A u \in Threads : Bringing(u) =>
           Canary(UserPtr(u), job[u].size) \cap Bytes(b, Padded(job[t].size)) = {}
    <2> SUFFICES ASSUME NEW u \in Threads, Bringing(u)
                 PROVE  Canary(UserPtr(u), job[u].size) \cap Bytes(b, Padded(job[t].size)) = {}
      OBVIOUS
    <2>1. Bytes(job[u].base, Padded(job[u].size)) \cap Bytes(b, Padded(job[t].size)) = {}
      BY <1>1, BringingFacts, RoomApart
    <2> QED BY <2>1, BringingFacts
  <1>8. SizeInv' BY <1>3, <1>4 DEF PoisonInv, SizeInv
  <1>9. FillInv'
    <2> SUFFICES ASSUME NEW u \in Threads, pc'[u] \in {"record", "wait"}
                 PROVE  Canary(UserPtr(u)', job'[u].size) \subseteq poisoned' \cup fills'[u]
      BY DEF FillInv, Canary
    <2>1. u # t /\ pc[u] \in {"record", "wait"} /\ job'[u] = job[u] /\ UserPtr(u)' = UserPtr(u) BY <1>4
    <2>2. Canary(UserPtr(u), job[u].size) \cap Bytes(b, Padded(job[t].size)) = {} BY <1>7, <2>1 DEF Bringing
    <2>3. Canary(UserPtr(u), job[u].size) \subseteq poisoned \cup fills[u] BY <2>1 DEF PoisonInv, FillInv
    <2> QED BY <1>2, <1>3, <2>1, <2>2, <2>3
  <1>10. ReadyInv' BY <1>2, <1>3, <1>5, <1>6 DEF PoisonInv, ReadyInv
  <1>11. MapInv' BY <1>3, <1>4 DEF PoisonInv, MapInv
  <1> QED BY <1>8, <1>9, <1>10, <1>11 DEF PoisonInv

\* The fills are those of both canaries.
LEMMA PoisonEnqueueFills ==
    ASSUME MemoryInv, PoisonInv, NEW t \in Threads, EnqueueFills(t)
    PROVE  PoisonInv'
  <1> USE SvmAssumption
  <1>1. pc[t] = "fill" /\ pc' = [pc EXCEPT ![t] = "record"] /\ UNCHANGED <<poisoned, user, job, map>>
    BY DEF EnqueueFills, Goto
  <1>2. Bringing(t) BY <1>1 DEF Bringing
  <1>3. (job[t].size + PoisonLen) % OffsetModulus = job[t].size + PoisonLen
    <2>1. job[t].size + PoisonLen < OffsetModulus BY <1>1 DEF PoisonInv, SizeInv
    <2> QED BY <1>2, <2>1, BringingFacts
  <1>4. fills' = [fills EXCEPT ![t] = Bytes(job[t].base, PoisonLen)
                                      \cup Bytes(job[t].base + (job[t].size + PoisonLen), PoisonLen)]
    BY <1>3 DEF EnqueueFills
  <1>5. Canary(UserPtr(t), job[t].size) \subseteq fills'[t]
    <2>1. UserPtr(t) - PoisonLen = job[t].base /\ UserPtr(t) + job[t].size = job[t].base + (job[t].size + PoisonLen)
      BY <1>2, BringingFacts
    <2> QED BY <1>4, <2>1 DEF Canary, MemoryInv, SvmTypeOK
  <1>6. /\ pc'[t] = "record" /\ \A u \in Threads \ {t} : pc'[u] = pc[u] /\ fills'[u] = fills[u]
        /\ \A u \in Threads : job'[u] = job[u] /\ UserPtr(u)' = UserPtr(u)
    BY <1>1, <1>4 DEF MemoryInv, SvmTypeOK, UserPtr
  <1>7. \A u \in Threads : pc'[u] = "mapping" <=> pc[u] = "mapping" BY <1>1, <1>6
  <1>8. SizeInv' BY <1>6 DEF PoisonInv, SizeInv
  <1>9. FillInv' BY <1>1, <1>5, <1>6 DEF PoisonInv, FillInv
  <1>10. ReadyInv'
    <2>1. MapFill' = MapFill BY <1>1, <1>7 DEF MapFill
    <2> QED BY <1>1, <2>1 DEF PoisonInv, ReadyInv
  <1>11. MapInv' BY <1>1, <1>7 DEF PoisonInv, MapInv
  <1> QED BY <1>8, <1>9, <1>10, <1>11 DEF PoisonInv

LEMMA PoisonRunFills ==
    ASSUME MemoryInv, PoisonInv, NEW t \in Threads, RunFills(t)
    PROVE  PoisonInv'
  <1>1. /\ poisoned' = poisoned \cup fills[t] /\ fills' = [fills EXCEPT ![t] = {}]
        /\ UNCHANGED <<user, pc, job, map>>
    BY DEF RunFills
  <1>2. \A u \in Threads : poisoned \cup fills[u] \subseteq poisoned' \cup fills'[u]
    BY <1>1 DEF MemoryInv, SvmTypeOK
  <1>3. SizeInv' BY <1>1 DEF PoisonInv, SizeInv
  <1>4. FillInv'
    <2>1. \A u \in Threads : UserPtr(u)' = UserPtr(u) BY <1>1 DEF UserPtr
    <2> QED BY <1>1, <1>2, <2>1 DEF PoisonInv, FillInv
  <1>5. ReadyInv'
    <2>1. MapFill' = MapFill BY <1>1 DEF MapFill
    <2> QED BY <1>1, <2>1 DEF PoisonInv, ReadyInv
  <1>6. MapInv' BY <1>1 DEF PoisonInv, MapInv
  <1> QED BY <1>3, <1>4, <1>5, <1>6 DEF PoisonInv

LEMMA PoisonRecord ==
    ASSUME MemoryInv, PoisonInv, NEW t \in Threads, Record(t)
    PROVE  PoisonInv'
  <1>1. pc[t] = "record" /\ pc' = [pc EXCEPT ![t] = "wait"] /\ UNCHANGED <<poisoned, user, job, fills, map>>
    BY DEF Record, Goto
  <1>2. pc'[t] = "wait" /\ \A u \in Threads \ {t} : pc'[u] = pc[u] BY <1>1 DEF MemoryInv, SvmTypeOK
  <1>3. \A u \in Threads : UserPtr(u)' = UserPtr(u) BY <1>1 DEF UserPtr
  <1>4. \A u \in Threads : pc'[u] = "mapping" <=> pc[u] = "mapping" BY <1>1, <1>2
  <1>5. SizeInv' BY <1>1, <1>2 DEF PoisonInv, SizeInv
  <1>6. FillInv' BY <1>1, <1>2, <1>3 DEF PoisonInv, FillInv
  <1>7. ReadyInv'
    <2>1. MapFill' = MapFill BY <1>1, <1>4 DEF MapFill
    <2> QED BY <1>1, <2>1 DEF PoisonInv, ReadyInv
  <1>8. MapInv' BY <1>1, <1>4 DEF PoisonInv, MapInv
  <1> QED BY <1>5, <1>6, <1>7, <1>8 DEF PoisonInv

\* The memory that is given is poisoned on either side, and whoever gets it writes
\* nothing else.
LEMMA PoisonWaitForFills ==
    ASSUME MemoryInv, PoisonInv, NEW t \in Threads, WaitForFills(t)
    PROVE  PoisonInv'
  <1>1. /\ pc[t] = "wait" /\ fills[t] = {} /\ poisoned' = poisoned \ Bytes(UserPtr(t), job[t].size)
        /\ pc' = [pc EXCEPT ![t] = "idle"] /\ job' = [job EXCEPT ![t] = NoJob]
        /\ UNCHANGED <<fills, map>>
    BY DEF WaitForFills, Goto
  <1>2. \A a \in user' : a \in user \/ (a.ptr = UserPtr(t) /\ a.size = job[t].size) BY DEF WaitForFills, Give
  <1>3. user \subseteq user' BY DEF WaitForFills, Give
  <1>4. /\ pc'[t] = "idle"
        /\ \A u \in Threads \ {t} : pc'[u] = pc[u] /\ job'[u] = job[u] /\ UserPtr(u)' = UserPtr(u)
    BY <1>1 DEF MemoryInv, SvmTypeOK, UserPtr
  <1>5. Bringing(t) BY <1>1 DEF Bringing
  <1>6. \A u \in Threads : pc'[u] = "mapping" <=> pc[u] = "mapping" BY <1>1, <1>4
  <1>7. SizeInv' BY <1>1, <1>4 DEF PoisonInv, SizeInv
  <1>8. FillInv'
    <2> SUFFICES ASSUME NEW u \in Threads, pc'[u] \in {"record", "wait"}
                 PROVE  Canary(UserPtr(u)', job'[u].size) \subseteq poisoned' \cup fills'[u]
      BY DEF FillInv, Canary
    <2>1. u # t /\ pc[u] \in {"record", "wait"} /\ job'[u] = job[u] /\ UserPtr(u)' = UserPtr(u) BY <1>4
    <2>2. Canary(UserPtr(u), job[u].size) \subseteq poisoned \cup fills[u] BY <2>1 DEF PoisonInv, FillInv
    <2>3. Bringing(u) BY <2>1 DEF Bringing
    <2>4. Canary(UserPtr(u), job[u].size) \cap Bytes(UserPtr(t), job[t].size) = {}
      <3>1. Bytes(job[u].base, Padded(job[u].size)) \cap Bytes(job[t].base, Padded(job[t].size)) = {}
        BY <1>5, <2>1, <2>3, BringingApart
      <3>2. Canary(UserPtr(u), job[u].size) \subseteq Bytes(job[u].base, Padded(job[u].size))
        BY <2>3, BringingFacts
      <3>3. Bytes(UserPtr(t), job[t].size) \subseteq Bytes(job[t].base, Padded(job[t].size))
        BY <1>5, BringingFacts
      <3> QED BY <3>1, <3>2, <3>3
    <2> QED BY <1>1, <2>1, <2>2, <2>4
  <1>9. ReadyInv'
    <2>1. MapFill' = MapFill BY <1>1, <1>6 DEF MapFill
    <2> SUFFICES ASSUME NEW a \in user' PROVE Canary(a.ptr, a.size) \subseteq poisoned' \cup MapFill
      BY <2>1 DEF ReadyInv, Canary
    <2>2. CASE a \in user
      <3>1. Canary(a.ptr, a.size) \subseteq poisoned \cup MapFill BY <2>2 DEF PoisonInv, ReadyInv
      <3>2. Canary(a.ptr, a.size) \subseteq Footprint(a) BY <2>2, UserFacts
      <3>3. Footprint(a) \cap Bytes(job[t].base, Padded(job[t].size)) = {} BY <1>5, <2>2, BringingApart
      <3>4. Bytes(UserPtr(t), job[t].size) \subseteq Bytes(job[t].base, Padded(job[t].size))
        BY <1>5, BringingFacts
      <3> QED BY <1>1, <3>1, <3>2, <3>3, <3>4
    <2>3. CASE a.ptr = UserPtr(t) /\ a.size = job[t].size
      <3>1. Canary(UserPtr(t), job[t].size) \subseteq poisoned BY <1>1 DEF PoisonInv, FillInv
      <3>2. Canary(UserPtr(t), job[t].size) \cap Bytes(UserPtr(t), job[t].size) = {} BY <1>5, BringingFacts
      <3> QED BY <1>1, <2>3, <3>1, <3>2
    <2> QED BY <1>2, <2>2, <2>3
  <1>10. MapInv' BY <1>1, <1>3, <1>6 DEF PoisonInv, MapInv
  <1> QED BY <1>7, <1>8, <1>9, <1>10 DEF PoisonInv

\* What is mapped of an allocation is behind its first canary, and before its
\* second.
LEMMA PoisonSVMMap ==
    ASSUME MapModes \subseteq {"blocking"}, MemoryInv, PoisonInv, NEW t \in Threads, NEW a \in user,
           NEW m \in MapArguments(a), NEW mode \in MapModes, NEW inv \in BOOLEAN,
           SVMMap(t, a, m[1], m[2], mode, inv)
    PROVE  PoisonInv'
  <1> USE SvmAssumption
  <1>1. PICK k \in Nat, n \in Nat \ {0} : k = m[1] /\ n = m[2] /\ k < a.size /\ k + n <= a.size
    BY UserFacts DEF MapArguments
  <1>2. a.ptr + k \in Bytes(a.ptr, a.size) BY <1>1, UserFacts DEF Bytes
  <1>3. PICK x \in SvmFind(a.ptr + k) : x.handle = a.ptr BY <1>2, FoundRightHolds DEF FoundRight
  <1> DEFINE r == CHOOSE y \in SvmFind(a.ptr + k) : TRUE
  <1>4. r \in records /\ r.handle = a.ptr
    <2>1. r \in SvmFind(a.ptr + k) BY <1>3
    <2> HIDE DEF r
    <2>2. r \in records /\ x \in records /\ r.handle <= x.handle /\ x.handle <= r.handle
      BY <2>1 DEF SvmFind
    <2> QED BY <1>3, <2>2, RecordRoom
  <1>5. r.main = a.ptr - PoisonLen BY <1>4 DEF MemoryInv, RecordsInv
  <1> DEFINE b == a.ptr - PoisonLen
             fill == IF inv THEN Bytes(b, PoisonLen) ELSE {}
  <1>6. /\ map = NoMap /\ pc[t] = "idle" /\ pc' = [pc EXCEPT ![t] = "mapping"]
        /\ map' = [asked |-> Bytes(a.ptr + k, n), got |-> Bytes(b, n + PoisonLen),
                   pending |-> inv, waits |-> (mode = "blocking"), fill |-> fill]
        /\ UNCHANGED <<poisoned, user, job, fills>>
    BY <1>1, <1>5 DEF SVMMap, Ready, Goto
  <1> HIDE DEF r
  <1>7. mode = "blocking" OBVIOUS
  <1>8. /\ pc'[t] = "mapping" /\ \A u \in Threads \ {t} : pc'[u] = pc[u]
        /\ \A u \in Threads : UserPtr(u)' = UserPtr(u)
    BY <1>6 DEF MemoryInv, SvmTypeOK, UserPtr
  <1>9. ~\E u \in Threads : pc[u] = "mapping" BY <1>6 DEF PoisonInv, MapInv
  <1>10. SizeInv' BY <1>6, <1>8 DEF PoisonInv, SizeInv
  <1>11. FillInv' BY <1>6, <1>8 DEF PoisonInv, FillInv
  <1>12. ReadyInv'
    <2>1. MapFill = {} BY <1>9 DEF MapFill
    <2> QED BY <1>6, <2>1 DEF PoisonInv, ReadyInv
  <1>13. MapInv'
    <2>0. a.ptr \in Nat /\ a.size \in Nat \ {0} /\ b \in Nat /\ a.ptr = b + PoisonLen BY UserFacts
    <2> DEFINE asked == Bytes(a.ptr + k, n)
               got == Bytes(b, n + PoisonLen)
    <2>1. asked \subseteq Int /\ got \subseteq Int /\ fill \subseteq got
      BY <1>1, <2>0 DEF Bytes
    <2>2. a.ptr + k \in asked BY <1>1, <2>0 DEF Bytes
    <2>3. got \subseteq Footprint(a) BY <1>1, <2>0 DEF Bytes, Footprint, Padded
    <2>4. Canary(a.ptr, a.size) \cap got \subseteq Bytes(b, PoisonLen)
      BY <1>1, <2>0 DEF Bytes, Canary
    <2> HIDE DEF asked, got, b, fill
    <2>5. map' = [asked |-> asked, got |-> got, pending |-> inv, waits |-> (mode = "blocking"), fill |-> fill]
      BY <1>6 DEF asked, got, b, fill
    <2>6. /\ map'.asked = asked /\ map'.got = got /\ map'.pending = inv /\ map'.waits /\ map'.fill = fill
          /\ map' \in [asked : SUBSET Int, got : SUBSET Int, pending : BOOLEAN, waits : BOOLEAN, fill : SUBSET Int]
      BY <1>7, <2>1, <2>5
    <2>7. map' # NoMap BY <2>2, <2>6, NoMapOK
    <2>8. map'.pending => map'.fill = Bytes(b, PoisonLen) BY <2>6 DEF fill
    <2>9. map'.asked \cap Bytes(a.ptr, a.size) # {} BY <1>2, <2>2, <2>6
    <2> QED BY <1>6, <1>8, <2>1, <2>3, <2>4, <2>6, <2>7, <2>8, <2>9 DEF MapInv
  <1> QED BY <1>10, <1>11, <1>12, <1>13 DEF PoisonInv

LEMMA PoisonRunMap ==
    ASSUME MemoryInv, PoisonInv, RunMap
    PROVE  PoisonInv'
  <1>1. /\ map.pending /\ map' = [map EXCEPT !.pending = FALSE] /\ poisoned' = poisoned \ map.got
        /\ UNCHANGED <<user, pc, job, fills>>
    BY DEF RunMap
  <1>2. PICK a \in user : /\ map.asked \cap Bytes(a.ptr, a.size) # {}
                          /\ map.got \subseteq Footprint(a)
                          /\ Canary(a.ptr, a.size) \cap map.got \subseteq map.fill
    BY <1>1 DEF PoisonInv, MapInv
  <1>3. /\ map'.pending = FALSE /\ map'.fill = map.fill /\ map'.got = map.got /\ map'.asked = map.asked
        /\ map' \in [asked : SUBSET Int, got : SUBSET Int, pending : BOOLEAN, waits : BOOLEAN, fill : SUBSET Int]
    BY <1>1 DEF PoisonInv, MapInv
  <1>4. \A u \in Threads : UserPtr(u)' = UserPtr(u) BY <1>1 DEF UserPtr
  <1>5. MapFill' = map.fill /\ MapFill = map.fill BY <1>1, <1>3 DEF PoisonInv, MapInv, MapFill
  <1>6. SizeInv' BY <1>1 DEF PoisonInv, SizeInv
  <1>7. FillInv'
    <2> SUFFICES ASSUME NEW u \in Threads, pc[u] \in {"record", "wait"}
                 PROVE  Canary(UserPtr(u), job[u].size) \subseteq poisoned' \cup fills[u]
      BY <1>1, <1>4 DEF FillInv, Canary
    <2>1. Bringing(u) BY DEF Bringing
    <2>2. Footprint(a) \cap Bytes(job[u].base, Padded(job[u].size)) = {} BY <2>1, BringingApart
    <2>3. Canary(UserPtr(u), job[u].size) \subseteq Bytes(job[u].base, Padded(job[u].size))
      BY <2>1, BringingFacts
    <2>4. Canary(UserPtr(u), job[u].size) \subseteq poisoned \cup fills[u] BY DEF PoisonInv, FillInv
    <2> QED BY <1>1, <1>2, <2>2, <2>3, <2>4
  <1>8. ReadyInv'
    <2> SUFFICES ASSUME NEW x \in user PROVE Canary(x.ptr, x.size) \subseteq poisoned' \cup map.fill
      BY <1>1, <1>5 DEF ReadyInv, Canary
    <2>1. Canary(x.ptr, x.size) \subseteq poisoned \cup map.fill BY <1>5 DEF PoisonInv, ReadyInv
    <2>2. CASE x = a BY <1>1, <1>2, <2>1, <2>2
    <2>3. CASE x # a
      <3>1. Footprint(x) \cap Footprint(a) = {} BY <2>3, UsersApart
      <3>2. Canary(x.ptr, x.size) \subseteq Footprint(x) BY UserFacts
      <3> QED BY <1>1, <1>2, <2>1, <3>1, <3>2
    <2> QED BY <2>2, <2>3
  <1>9. MapInv'
    <2>1. map.asked # {} BY <1>2
    <2>2. map' # NoMap BY <1>3, <2>1, NoMapOK
    <2> QED BY <1>1, <1>3, <2>2 DEF PoisonInv, MapInv
  <1> QED BY <1>6, <1>7, <1>8, <1>9 DEF PoisonInv

LEMMA PoisonMapReturns ==
    ASSUME MemoryInv, PoisonInv, NEW t \in Threads, MapReturns(t)
    PROVE  PoisonInv'
  <1>1. /\ pc[t] = "mapping" /\ pc' = [pc EXCEPT ![t] = "idle"] /\ poisoned' = poisoned \cup map.fill
        /\ map.waits => ~map.pending
        /\ UNCHANGED <<user, job, fills, map>>
    BY DEF MapReturns, Goto
  <1>2. /\ pc'[t] = "idle" /\ \A u \in Threads \ {t} : pc'[u] = pc[u]
        /\ \A u \in Threads : UserPtr(u)' = UserPtr(u)
    BY <1>1 DEF MemoryInv, SvmTypeOK, UserPtr
  <1>3. ~map.pending BY <1>1 DEF PoisonInv, MapInv
  <1>4. SizeInv' BY <1>1, <1>2 DEF PoisonInv, SizeInv
  <1>5. FillInv' BY <1>1, <1>2 DEF PoisonInv, FillInv
  <1>6. ReadyInv' BY <1>1 DEF PoisonInv, ReadyInv, MapFill
  <1>7. MapInv' BY <1>1, <1>2, <1>3 DEF PoisonInv, MapInv
  <1> QED BY <1>4, <1>5, <1>6, <1>7 DEF PoisonInv

LEMMA PoisonSVMUnmap ==
    ASSUME MemoryInv, PoisonInv, NEW t \in Threads, SVMUnmap(t)
    PROVE  PoisonInv'
  <1>1. /\ map' = NoMap /\ \A u \in Threads : pc[u] # "mapping"
        /\ UNCHANGED <<poisoned, user, pc, job, fills>>
    BY DEF SVMUnmap
  <1>2. MapFill = {} /\ MapFill' = {} BY <1>1 DEF MapFill
  <1>3. \A u \in Threads : UserPtr(u)' = UserPtr(u) BY <1>1 DEF UserPtr
  <1>4. SizeInv' BY <1>1 DEF PoisonInv, SizeInv
  <1>5. FillInv' BY <1>1, <1>3 DEF PoisonInv, FillInv
  <1>6. ReadyInv' BY <1>1, <1>2 DEF PoisonInv, ReadyInv
  <1>7. MapInv' BY <1>1, NoMapOK DEF MapInv
  <1> QED BY <1>4, <1>5, <1>6, <1>7 DEF PoisonInv

\* The steps of a request that change no byte.
LEMMA PoisonRequest ==
    ASSUME NoWrap, MemoryInv, PoisonInv, NEW t \in Threads,
           \/ \E c \in Contexts, g \in Grains, n \in Sizes, al \in Alignments : SVMAlloc(t, c, g, n, al)
           \/ FindFree(t) \/ TakeFree(t) \/ RealAllocFails(t) \/ FineFree(t) \/ RealFree(t)
    PROVE  PoisonInv'
  <1> USE SvmAssumption
  <1>1. /\ UNCHANGED <<poisoned, fills, map, user>> /\ pc[t] \in Places \ {"record", "wait", "mapping"}
        /\ \E p \in Places \ {"record", "wait", "mapping"} : pc' = [pc EXCEPT ![t] = p]
    <2>1. pc[t] \in Places \ {"record", "wait", "mapping"}
      BY DEF SVMAlloc, FindFree, TakeFree, RealAllocFails, FineFree, RealFree, Ready, Places
    <2>2. \E p \in Places \ {"record", "wait", "mapping"} : pc' = [pc EXCEPT ![t] = p]
      BY DEF SVMAlloc, FindFree, TakeFree, RealAllocFails, FineFree, RealFree, Goto, Places
    <2>3. UNCHANGED <<poisoned, fills, map, user>>
      BY DEF SVMAlloc, FindFree, TakeFree, RealAllocFails, FineFree, RealFree
    <2> QED BY <2>1, <2>2, <2>3
  <1>2. job \in [Threads -> Jobs] /\ pc \in [Threads -> Places] BY DEF MemoryInv, SvmTypeOK
  <1>3. \A u \in Threads \ {t} : job'[u] = job[u]
    BY <1>2 DEF SVMAlloc, FindFree, TakeFree, RealAllocFails, FineFree, RealFree
  <1>4. \A u \in Threads \ {t} : pc'[u] = pc[u] BY <1>1, <1>2
  <1>5. pc'[t] \in {"find", "take", "real", "fill"} => job'[t].size + PoisonLen < OffsetModulus
    <2>1. ASSUME NEW c \in Contexts, NEW g \in Grains, NEW n \in Sizes, NEW al \in Alignments,
                 SVMAlloc(t, c, g, n, al)
          PROVE  job'[t].size + PoisonLen < OffsetModulus
      <3>1. job'[t] = [NoJob EXCEPT !.ctx = c, !.grain = g, !.size = n, !.align = al]
        BY <1>2, <2>1 DEF SVMAlloc
      <3>2. job'[t].size = n BY <3>1, NoJobOK DEF Jobs
      <3> QED BY <3>2 DEF NoWrap
    <2>2. CASE FindFree(t) \/ TakeFree(t)
      <3>1. job'[t].size = job[t].size /\ pc[t] \in {"find", "take"}
        BY <1>2, <2>2 DEF FindFree, TakeFree, Jobs
      <3> QED BY <3>1 DEF PoisonInv, SizeInv
    <2>3. CASE RealAllocFails(t) \/ FineFree(t) \/ RealFree(t)
      BY <1>2, <2>3 DEF RealAllocFails, FineFree, RealFree, Goto
    <2> QED BY <2>1, <2>2, <2>3
  <1>6. {pc[t], pc'[t]} \cap {"record", "wait", "mapping"} = {} BY <1>1, <1>2
  <1> QED BY <1>1, <1>3, <1>4, <1>5, <1>6, PoisonStill

LEMMA PoisonSVMFree ==
    ASSUME MemoryInv, PoisonInv, NEW t \in Threads, NEW a \in user, SVMFree(t, a, "now")
    PROVE  PoisonInv'
  <1>1. /\ pc[t] = "idle" /\ map.asked \cap Bytes(a.ptr, a.size) = {} /\ user' = user \ {a}
        /\ UNCHANGED <<poisoned, fills, map>>
        /\ \E p \in {"idle", "fgfree"} : pc' = [pc EXCEPT ![t] = p]
    BY DEF SVMFree, Ready, ForgetSVM, Goto
  <1>2. \A u \in Threads \ {t} : job'[u] = job[u]
    BY DEF SVMFree, ForgetSVM, MemoryInv, SvmTypeOK
  <1>3. pc'[t] \in {"idle", "fgfree"} /\ \A u \in Threads \ {t} : pc'[u] = pc[u]
    BY <1>1 DEF MemoryInv, SvmTypeOK
  <1> QED BY <1>1, <1>2, <1>3, PoisonStill

LEMMA PoisonCheck ==
    ASSUME NoWrap, MemoryInv, PoisonInv, NEW t \in Threads,
           CheckStep(t) \/ \E c \in Contexts, way \in CheckWays : CheckSVM(t, c, way)
    PROVE  PoisonInv'
  <1> USE SvmAssumption
  <1>1. job \in [Threads -> Jobs] /\ pc \in [Threads -> Places] BY DEF MemoryInv, SvmTypeOK
  <1>2. CASE CountSVM(t) \/ ListSVM(t) \/ Examine(t) \/ CheckDone(t)
             \/ \E c \in Contexts, way \in CheckWays : CheckSVM(t, c, way)
    <2>1. UNCHANGED <<poisoned, fills, map, user, pc, job>>
      BY <1>2 DEF CountSVM, ListSVM, Examine, CheckDone, CheckSVM
    <2>2. pc'[t] \in {"find", "take", "real", "fill"} => job'[t].size + PoisonLen < OffsetModulus
      BY <2>1 DEF PoisonInv, SizeInv
    <2> QED BY <2>1, <2>2, PoisonStill
  <1>3. CASE FindSVM(t)
    <2>1. UNCHANGED <<poisoned, fills, map, user>> /\ pc[t] = "idle" BY <1>3 DEF FindSVM
    <2>2. \/ UNCHANGED <<pc, job>>
          \/ /\ pc' = [pc EXCEPT ![t] = "real"]
             /\ \E c : job' = [job EXCEPT ![t] = [NoJob EXCEPT !.ctx = c, !.size = 2 * PoisonLen]]
      BY <1>3 DEF FindSVM, Goto
    <2>3. CASE UNCHANGED <<pc, job>> BY <2>1, <2>3, PoisonStill
    <2>4. CASE /\ pc' = [pc EXCEPT ![t] = "real"]
               /\ \E c : job' = [job EXCEPT ![t] = [NoJob EXCEPT !.ctx = c, !.size = 2 * PoisonLen]]
      <3>1. job'[t].size = 2 * PoisonLen /\ \A u \in Threads \ {t} : job'[u] = job[u]
        <4>1. PICK c : job' = [job EXCEPT ![t] = [NoJob EXCEPT !.ctx = c, !.size = 2 * PoisonLen]] BY <2>4
        <4>2. job'[t] = [NoJob EXCEPT !.ctx = c, !.size = 2 * PoisonLen] BY <1>1, <4>1
        <4>3. job'[t].size = 2 * PoisonLen BY <4>2, NoJobOK DEF Jobs
        <4> QED BY <1>1, <4>1, <4>3
      <3>2. job'[t].size + PoisonLen < OffsetModulus BY <3>1 DEF NoWrap
      <3>3. pc'[t] = "real" /\ \A u \in Threads \ {t} : pc'[u] = pc[u] BY <1>1, <2>4
      <3> QED BY <2>1, <3>1, <3>2, <3>3, PoisonStill
    <2> QED BY <2>2, <2>3, <2>4
  <1>4. CASE FreeCopy(t)
    <2>1. /\ UNCHANGED <<poisoned, fills, map, user>> /\ pc[t] = "idle"
          /\ \E p \in {"idle", "fgfree"} : pc' = [pc EXCEPT ![t] = p]
      BY <1>4 DEF FreeCopy, ForgetSVM, Goto
    <2>2. \A u \in Threads \ {t} : job'[u] = job[u] BY <1>1, <1>4 DEF FreeCopy, ForgetSVM
    <2>3. pc'[t] \in {"idle", "fgfree"} /\ \A u \in Threads \ {t} : pc'[u] = pc[u] BY <1>1, <2>1
    <2> QED BY <2>1, <2>2, <2>3, PoisonStill
  <1> QED BY <1>2, <1>3, <1>4 DEF CheckStep

LEMMA PoisonInvNext ==
    ASSUME Frees \subseteq {"now"}, MapModes \subseteq {"blocking"}, NoWrap,
           MemoryInv, PoisonInv, [Next]_vars
    PROVE  PoisonInv'
  <1>1. CASE UNCHANGED vars
    <2>1. UNCHANGED <<poisoned, user, pc, job, fills, map>> BY <1>1 DEF vars
    <2>2. CASE \E t \in Threads : TRUE
      <3>1. PICK t \in Threads : TRUE BY <2>2
      <3>2. pc'[t] \in {"find", "take", "real", "fill"} => job'[t].size + PoisonLen < OffsetModulus
        BY <2>1 DEF PoisonInv, SizeInv
      <3> QED BY <2>1, <3>2, PoisonStill
    <2>3. CASE ~\E t \in Threads : TRUE
      BY <2>1, <2>3 DEF PoisonInv, SizeInv, FillInv, ReadyInv, MapInv, MapFill
    <2> QED BY <2>2, <2>3
  <1>2. CASE Next
    <2>1. CASE RunMap BY <2>1, PoisonRunMap
    <2>2. ASSUME NEW t \in Threads, AllocStep(t) PROVE PoisonInv'
      BY <2>2, PoisonRequest, PoisonRealAlloc, PoisonEnqueueFills, PoisonRunFills, PoisonRecord,
         PoisonWaitForFills DEF AllocStep
    <2>3. ASSUME NEW t \in Threads, CheckStep(t) PROVE PoisonInv' BY <2>3, PoisonCheck
    <2>4. ASSUME NEW t \in Threads, FineFree(t) \/ RealFree(t) \/ MapReturns(t) \/ SVMUnmap(t) PROVE PoisonInv'
      BY <2>4, PoisonRequest, PoisonMapReturns, PoisonSVMUnmap
    <2>5. ASSUME NEW t \in Threads, NEW c \in Contexts, NEW g \in Grains, NEW n \in Sizes,
                 NEW al \in Alignments, SVMAlloc(t, c, g, n, al)
          PROVE  PoisonInv'
      BY <2>5, PoisonRequest
    <2>6. ASSUME NEW t \in Threads, NEW c \in Contexts, NEW way \in CheckWays, CheckSVM(t, c, way)
          PROVE  PoisonInv'
      BY <2>6, PoisonCheck
    <2>7. ASSUME NEW t \in Threads, NEW a \in user, NEW how \in Frees, SVMFree(t, a, how) PROVE PoisonInv'
      BY <2>7, PoisonSVMFree
    <2>8. ASSUME NEW t \in Threads, NEW a \in user, NEW m \in MapArguments(a), NEW mode \in MapModes,
                 NEW inv \in BOOLEAN, SVMMap(t, a, m[1], m[2], mode, inv)
          PROVE  PoisonInv'
      BY <2>8, PoisonSVMMap
    <2> QED BY <1>2, <2>1, <2>2, <2>3, <2>4, <2>5, <2>6, <2>7, <2>8 DEF Next, Steps
  <1> QED BY <1>1, <1>2

\* When, in addition, maps are blocking and no size wraps the offset of the second
\* canary: both canaries of every allocation are poisoned, except where a call
\* that has not returned is mapping, whatever was in the memory before.
THEOREM CanariesStayReady ==
    FineAlone /\ Frees \subseteq {"now"} /\ MapModes \subseteq {"blocking"} /\ NoWrap
        => (Spec => []CanariesReady)
  <1> SUFFICES ASSUME FineAlone, Frees \subseteq {"now"}, MapModes \subseteq {"blocking"}, NoWrap
               PROVE  Spec => []CanariesReady
    OBVIOUS
  <1>1. Spec => []MemoryInv BY MemoryInvariant
  <1>2. Init => PoisonInv BY PoisonInvInit
  <1>3. MemoryInv /\ PoisonInv /\ [Next]_vars => PoisonInv' BY PoisonInvNext
  <1>4. PoisonInv => CanariesReady BY DEF PoisonInv, ReadyInv, MapInv, MapFill, CanariesReady
  <1> QED BY <1>1, <1>2, <1>3, <1>4, PTL DEF Spec

-----------------------------------------------------------------------------
(***************************************************************************)
(* The walk of a check.                                                    *)
(***************************************************************************)

Handles == {r.handle : r \in records}

\* The handles a walk has gone by when it is at p; at 0 it is through.
Passed(H, p) == IF p = 0 THEN H ELSE {h \in H : h < p}

Elements(s) == {s[i] : i \in 1 .. Len(s)}

\* One thread checks at a time, and the others neither allocate nor free.
AloneInv ==
    \A t \in Threads :
        /\ check[t].phase = "none" => check[t] = NoCheck
        /\ check[t] # NoCheck => \A u \in Threads \ {t} : check[u] = NoCheck /\ pc[u] \in {"idle", "mapping"}

\* The first walk counts what the second lists; what is listed is recorded until
\* it is found.
WalkAt(t) ==
    /\ check[t].phase \in {"count", "list"} =>
          pc[t] = "idle" /\ (check[t].at = 0 \/ check[t].at \in Handles)
    /\ check[t].phase = "count" => check[t].n = Cardinality(Passed(Handles, check[t].at)) /\ check[t].list = <<>>
    /\ check[t].phase = "list" =>
          /\ check[t].n = Cardinality(Handles)
          /\ Len(check[t].list) = Cardinality(Passed(Handles, check[t].at))
          /\ Elements(check[t].list) = Passed(Handles, check[t].at)
    /\ check[t].phase = "find" =>
          /\ Elements(check[t].list) \subseteq Handles
          /\ \A a \in user : a.ptr \in check[t].found \cup Elements(check[t].list)
    /\ check[t].phase = "release" => \A a \in user : a.ptr \in check[t].found

WalkInv ==
    /\ IsFiniteSet(Handles)
    /\ AloneInv
    /\ \A t \in Threads : WalkAt(t)
    /\ exited # "lost"

LEMMA HandleFacts ==
    ASSUME MemoryInv, WalkInv
    PROVE  Handles \subseteq Nat \ {0} /\ IsFiniteSet(Handles)
  <1>1. Handles \subseteq Nat \ {0} BY DEF MemoryInv, SvmTypeOK, Records, Handles
  <1> QED BY <1>1 DEF WalkInv

\* A walk begins in front of the first handle,
LEMMA WalkBegins ==
    ASSUME MemoryInv
    PROVE  /\ Passed(Handles, SvmNext(0)) = {} /\ SvmNext(0) \in Nat
           /\ SvmNext(0) = 0 \/ SvmNext(0) \in Handles
  <1>1. records \subseteq Records /\ \A r \in records : r.handle \in Nat \ {0}
    BY DEF MemoryInv, SvmTypeOK, Records
  <1>2. CASE SvmNext(0) = 0
    <2>1. \A r \in records : r.handle <= 0 BY <1>1, <1>2, SvmNextFacts
    <2>2. records = {} BY <1>1, <2>1
    <2> QED BY <1>2, <2>2 DEF Passed, Handles
  <1>3. CASE SvmNext(0) # 0
    <2>1. /\ SvmNext(0) \in Nat /\ SvmNext(0) \in Handles
          /\ \A r \in records : r.handle > 0 => SvmNext(0) <= r.handle
      BY <1>1, <1>3, SvmNextFacts DEF Handles
    <2> QED BY <1>1, <1>3, <2>1 DEF Passed, Handles
  <1> QED BY <1>2, <1>3

\* and goes on by one handle at a time.
LEMMA WalkGoesOn ==
    ASSUME MemoryInv, WalkInv, NEW p \in Handles
    PROVE  /\ Passed(Handles, SvmNext(p)) = Passed(Handles, p) \cup {p} /\ p \notin Passed(Handles, p) /\ SvmNext(p) \in Nat
           /\ SvmNext(p) = 0 \/ SvmNext(p) \in Handles
           /\ IsFiniteSet(Passed(Handles, p)) /\ Cardinality(Passed(Handles, p)) \in Nat
           /\ Cardinality(Passed(Handles, SvmNext(p))) = Cardinality(Passed(Handles, p)) + 1
  <1>1. records \subseteq Records BY DEF MemoryInv, SvmTypeOK
  <1>2. p \in Nat \ {0} /\ \A h \in Handles : h \in Nat \ {0} BY HandleFacts
  <1>3. Passed(Handles, SvmNext(p)) = Passed(Handles, p) \cup {p} /\ SvmNext(p) \in Nat /\ (SvmNext(p) = 0 \/ SvmNext(p) \in Handles)
    <2>1. CASE SvmNext(p) = 0
      <3>1. \A h \in Handles : h <= p BY <1>1, <1>2, <2>1, SvmNextFacts DEF Handles
      <3>2. \A h \in Handles : h < p \/ h = p BY <1>2, <3>1
      <3>3. Passed(Handles, SvmNext(p)) = Handles /\ Passed(Handles, p) = {h \in Handles : h < p} BY <1>2, <2>1 DEF Passed
      <3> QED BY <2>1, <3>2, <3>3
    <2>2. CASE SvmNext(p) # 0
      <3>1. /\ SvmNext(p) \in Nat /\ SvmNext(p) \in Handles /\ SvmNext(p) > p
            /\ \A h \in Handles : h > p => SvmNext(p) <= h
        BY <1>1, <1>2, <2>2, SvmNextFacts DEF Handles
      <3>2. \A h \in Handles : h < SvmNext(p) <=> h < p \/ h = p BY <1>2, <3>1
      <3>3. /\ Passed(Handles, SvmNext(p)) = {h \in Handles : h < SvmNext(p)}
            /\ Passed(Handles, p) = {h \in Handles : h < p}
        BY <1>2, <2>2 DEF Passed
      <3> QED BY <3>1, <3>2, <3>3
    <2> QED BY <2>1, <2>2
  <1>4. p \notin Passed(Handles, p) BY <1>2 DEF Passed
  <1>5. IsFiniteSet(Passed(Handles, p))
    <2>1. Passed(Handles, p) \subseteq Handles BY DEF Passed
    <2> QED BY <2>1, HandleFacts, FS_Subset
  <1>6. Cardinality(Passed(Handles, p)) \in Nat /\ Cardinality(Passed(Handles, p) \cup {p}) = Cardinality(Passed(Handles, p)) + 1
    BY <1>4, <1>5, FS_CardinalityType, FS_AddElement
  <1> QED BY <1>3, <1>4, <1>5, <1>6

LEMMA WalkInvInit == Init => WalkInv
  <1> SUFFICES ASSUME Init PROVE WalkInv
    OBVIOUS
  <1> USE DEF Init
  <1>1. IsFiniteSet(Handles)
    <2>1. Handles = {} BY DEF Handles
    <2> QED BY <2>1, FS_EmptySet
  <1>2. AloneInv BY DEF AloneInv
  <1>3. \A t \in Threads : WalkAt(t) BY NoCheckOK DEF WalkAt
  <1> QED BY <1>1, <1>2, <1>3 DEF WalkInv

\* t is the thread a step is one of.
StepOf(t) ==
    \/ AllocStep(t) \/ CheckStep(t) \/ FineFree(t) \/ RealFree(t) \/ MapReturns(t) \/ SVMUnmap(t)
    \/ \E c \in Contexts, g \in Grains, n \in Sizes, al \in Alignments : SVMAlloc(t, c, g, n, al)
    \/ \E c \in Contexts, way \in CheckWays : CheckSVM(t, c, way)
    \/ \E a \in user :
         \/ \E how \in Frees : SVMFree(t, a, how)
         \/ \E m \in MapArguments(a), mode \in MapModes, inv \in BOOLEAN :
               SVMMap(t, a, m[1], m[2], mode, inv)

\* A step of t leaves the other threads where they are.
LEMMA StepLocal ==
    ASSUME MemoryInv, NEW t \in Threads, StepOf(t)
    PROVE  \A u \in Threads \ {t} : pc'[u] = pc[u] /\ check'[u] = check[u]
  <1> USE DEF MemoryInv, SvmTypeOK, Goto
  <1>1. CASE AllocStep(t)
    BY <1>1 DEF AllocStep, FindFree, TakeFree, RealAlloc, RealAllocFails, EnqueueFills, RunFills, Record,
                WaitForFills, Give, checks
  <1>2. CASE CheckStep(t)
    <2>1. CASE CountSVM(t) BY <2>1 DEF CountSVM, Lose
    <2>2. CASE ListSVM(t) BY <2>2 DEF ListSVM, Lose
    <2>3. CASE FindSVM(t) BY <2>3 DEF FindSVM, Lose
    <2>4. CASE Examine(t) BY <2>4 DEF Examine
    <2>5. CASE FreeCopy(t) BY <2>5 DEF FreeCopy, ForgetSVM
    <2>6. CASE CheckDone(t) BY <2>6 DEF CheckDone
    <2> QED BY <1>2, <2>1, <2>2, <2>3, <2>4, <2>5, <2>6 DEF CheckStep
  <1>3. CASE FineFree(t) \/ RealFree(t) \/ MapReturns(t) \/ SVMUnmap(t)
    BY <1>3 DEF FineFree, RealFree, MapReturns, SVMUnmap, checks
  <1>4. CASE \E c \in Contexts, g \in Grains, n \in Sizes, al \in Alignments : SVMAlloc(t, c, g, n, al)
    BY <1>4 DEF SVMAlloc, checks
  <1>5. CASE \E c \in Contexts, way \in CheckWays : CheckSVM(t, c, way) BY <1>5 DEF CheckSVM
  <1>6. CASE \E a \in user : \E how \in Frees : SVMFree(t, a, how) BY <1>6 DEF SVMFree, ForgetSVM, checks
  <1>7. CASE \E a \in user : \E m \in MapArguments(a), mode \in MapModes, inv \in BOOLEAN :
               SVMMap(t, a, m[1], m[2], mode, inv)
    BY <1>7 DEF SVMMap, checks
  <1> QED BY <1>1, <1>2, <1>3, <1>4, <1>5, <1>6, <1>7 DEF StepOf

\* While c checks, another thread at most maps.
LEMMA Bystander ==
    ASSUME CheckAlone, MemoryInv, WalkInv, NEW c \in Threads, NEW t \in Threads, c # t, check[c] # NoCheck,
           StepOf(t)
    PROVE  check'[t] = NoCheck /\ pc'[t] \in {"idle", "mapping"} /\ UNCHANGED <<records, user, exited>>
  <1>1. check[t] = NoCheck /\ pc[t] \in {"idle", "mapping"} BY DEF WalkInv, AloneInv
  <1>2. check[t].phase = "none" BY <1>1, NoCheckOK
  <1>3. ~NoOtherCheck BY DEF NoOtherCheck
  <1> USE DEF MemoryInv, SvmTypeOK, Goto
  <1>4. CASE AllocStep(t)
    <2>1. RunFills(t)
      BY <1>1, <1>4 DEF AllocStep, FindFree, TakeFree, RealAlloc, RealAllocFails, EnqueueFills, Record, WaitForFills
    <2> QED BY <1>1, <2>1 DEF RunFills, checks
  <1>5. ~CheckStep(t) BY <1>2 DEF CheckStep, CountSVM, ListSVM, FindSVM, Examine, FreeCopy, CheckDone
  <1>6. CASE FineFree(t) \/ RealFree(t) \/ MapReturns(t) \/ SVMUnmap(t)
    BY <1>1, <1>6 DEF FineFree, RealFree, MapReturns, SVMUnmap, checks
  <1>7. ~\E d \in Contexts, g \in Grains, n \in Sizes, al \in Alignments : SVMAlloc(t, d, g, n, al)
    BY <1>3 DEF SVMAlloc
  <1>8. ~\E d \in Contexts, way \in CheckWays : CheckSVM(t, d, way)
    <2>1. ~(Ready(c) \/ pc[c] = "mapping")
      BY DEF Ready, JobInv, JobAt
    <2> QED BY <2>1 DEF CheckSVM
  <1>9. ~\E a \in user : \E how \in Frees : SVMFree(t, a, how) BY <1>3 DEF SVMFree
  <1>10. CASE \E a \in user : \E m \in MapArguments(a), mode \in MapModes, inv \in BOOLEAN :
                SVMMap(t, a, m[1], m[2], mode, inv)
    BY <1>1, <1>10 DEF SVMMap, checks
  <1> QED BY <1>4, <1>5, <1>6, <1>7, <1>8, <1>9, <1>10 DEF StepOf

\* What the steps of a walk do to the state of the check.
LEMMA CountShape ==
    ASSUME MemoryInv, NEW t \in Threads, CountSVM(t)
    PROVE  /\ check[t].phase = "count" /\ UNCHANGED <<records, user, pc>>
           /\ \/ /\ check[t].at = 0 /\ check'[t].phase = "list" /\ check'[t].at = SvmNext(0)
                 /\ check'[t].n = check[t].n /\ check'[t].list = check[t].list /\ exited' = exited
              \/ Gone(t) /\ check[t].at # 0 /\ check' = check
              \/ /\ ~Gone(t) /\ check'[t].phase = "count" /\ check'[t].at = SvmNext(check[t].at)
                 /\ check'[t].n = check[t].n + 1 /\ check'[t].list = check[t].list /\ exited' = exited
  <1>1. check[t] \in Checks /\ check \in [Threads -> Checks] BY DEF MemoryInv, SvmTypeOK
  <1>2. check[t].phase = "count" /\ UNCHANGED <<records, user, pc>> BY DEF CountSVM
  <1> DEFINE v == [check[t] EXCEPT !.phase = "list", !.at = SvmNext(0)]
             w == [check[t] EXCEPT !.n = check[t].n + 1, !.at = SvmNext(check[t].at)]
  <1>3. v.phase = "list" /\ v.at = SvmNext(0) /\ v.n = check[t].n /\ v.list = check[t].list
    BY <1>1 DEF Checks
  <1>4. w.phase = check[t].phase /\ w.at = SvmNext(check[t].at) /\ w.n = check[t].n + 1 /\ w.list = check[t].list
    BY <1>1 DEF Checks
  <1>5. \/ check[t].at = 0 /\ check'[t] = v /\ exited' = exited
        \/ Gone(t) /\ check[t].at # 0 /\ check' = check
        \/ ~Gone(t) /\ check'[t] = w /\ exited' = exited
    BY <1>1 DEF CountSVM, Lose
  <1> HIDE DEF v, w
  <1> QED BY <1>2, <1>3, <1>4, <1>5

LEMMA ListShape ==
    ASSUME MemoryInv, NEW t \in Threads, ListSVM(t)
    PROVE  /\ check[t].phase = "list" /\ UNCHANGED <<records, user, pc>>
           /\ \/ /\ check[t].at = 0 \/ Len(check[t].list) = check[t].n
                 /\ check'[t].phase = "find" /\ check'[t].found = check[t].found /\ exited' = exited
                 /\ check'[t].list = check[t].list \o [i \in 1 .. (check[t].n - Len(check[t].list)) |-> 0]
              \/ Gone(t) /\ check[t].at # 0 /\ check' = check
              \/ /\ ~Gone(t) /\ check'[t].phase = "list" /\ check'[t].at = SvmNext(check[t].at)
                 /\ check'[t].n = check[t].n /\ check'[t].list = Append(check[t].list, check[t].at)
                 /\ exited' = exited
  <1>1. check[t] \in Checks /\ check \in [Threads -> Checks] BY DEF MemoryInv, SvmTypeOK
  <1>2. check[t].phase = "list" /\ UNCHANGED <<records, user, pc>> BY DEF ListSVM
  <1> DEFINE l == check[t].list \o [i \in 1 .. (check[t].n - Len(check[t].list)) |-> 0]
             v == [check[t] EXCEPT !.phase = "find", !.list = l]
             w == [check[t] EXCEPT !.list = Append(check[t].list, check[t].at), !.at = SvmNext(check[t].at)]
  <1>3. v.phase = "find" /\ v.found = check[t].found /\ v.list = l
    <2> HIDE DEF l
    <2> QED BY <1>1 DEF Checks
  <1>4. /\ w.phase = check[t].phase /\ w.at = SvmNext(check[t].at) /\ w.n = check[t].n
        /\ w.list = Append(check[t].list, check[t].at)
    BY <1>1 DEF Checks
  <1>5. \/ (check[t].at = 0 \/ Len(check[t].list) = check[t].n) /\ check'[t] = v /\ exited' = exited
        \/ Gone(t) /\ check[t].at # 0 /\ check' = check
        \/ ~Gone(t) /\ check'[t] = w /\ exited' = exited
    BY <1>1 DEF ListSVM, Lose
  <1> HIDE DEF v, w
  <1> QED BY <1>2, <1>3, <1>4, <1>5

LEMMA FindShape ==
    ASSUME MemoryInv, NEW t \in Threads, FindSVM(t)
    PROVE  /\ check[t].phase = "find" /\ check[t].list # <<>> /\ UNCHANGED <<records, user>>
           /\ \/ SvmFind(Head(check[t].list)) = {} /\ check' = check
              \/ /\ exited' = exited /\ check'[t].phase = "find" /\ check'[t].list = Tail(check[t].list)
                 /\ \E r \in SvmFind(Head(check[t].list)) : check'[t].found = check[t].found \cup {r.handle}
  <1>1. check[t] \in Checks /\ check \in [Threads -> Checks] BY DEF MemoryInv, SvmTypeOK
  <1>2. check[t].phase = "find" /\ check[t].list # <<>> /\ UNCHANGED <<records, user>> BY DEF FindSVM
  <1> DEFINE r == CHOOSE x \in SvmFind(Head(check[t].list)) : TRUE
             v == [check[t] EXCEPT !.list = Tail(check[t].list), !.found = check[t].found \cup {r.handle}]
  <1>3. CASE SvmFind(Head(check[t].list)) = {} BY <1>2, <1>3 DEF FindSVM, Lose
  <1>4. CASE SvmFind(Head(check[t].list)) # {}
    <2>1. r \in SvmFind(Head(check[t].list)) BY <1>4
    <2>2. check'[t] = v /\ exited' = exited BY <1>1, <1>4 DEF FindSVM
    <2> HIDE DEF r
    <2>3. v.phase = check[t].phase /\ v.list = Tail(check[t].list) /\ v.found = check[t].found \cup {r.handle}
      BY <1>1 DEF Checks
    <2> HIDE DEF v
    <2> QED BY <1>2, <2>1, <2>2, <2>3
  <1> QED BY <1>3, <1>4

LEMMA FreeCopyShape ==
    ASSUME MemoryInv, NEW t \in Threads, FreeCopy(t)
    PROVE  /\ check[t].phase = "release" /\ check'[t].phase = "release" /\ check'[t].found = check[t].found
           /\ UNCHANGED <<user, exited>> /\ records' \subseteq records
  <1>1. check[t] \in Checks /\ check \in [Threads -> Checks] BY DEF MemoryInv, SvmTypeOK
  <1>2. check[t].phase = "release" /\ UNCHANGED <<user, exited>> /\ records' \subseteq records
    BY DEF FreeCopy, ForgetSVM
  <1>3. PICK p : check' = [check EXCEPT ![t].copies = @ \ {p}] BY DEF FreeCopy
  <1>4. check'[t] = [check[t] EXCEPT !.copies = @ \ {p}] BY <1>1, <1>3
  <1>5. check'[t].phase = check[t].phase /\ check'[t].found = check[t].found BY <1>1, <1>4 DEF Checks
  <1> QED BY <1>2, <1>5

LEMMA AloneStep ==
    ASSUME CheckAlone, MemoryInv, WalkInv, NEW t \in Threads, StepOf(t)
    PROVE  AloneInv'
  <1>1. \A u \in Threads \ {t} : pc'[u] = pc[u] /\ check'[u] = check[u] BY StepLocal
  <1>2. check[t] = NoCheck /\ check'[t] # NoCheck =>
           \A u \in Threads \ {t} : check[u] = NoCheck /\ pc[u] \in {"idle", "mapping"}
    <2> SUFFICES ASSUME check[t] = NoCheck, check'[t] # NoCheck
                 PROVE  \A u \in Threads \ {t} : check[u] = NoCheck /\ pc[u] \in {"idle", "mapping"}
      OBVIOUS
    <2>1. \E c \in Contexts, way \in CheckWays : CheckSVM(t, c, way)
      <3>1. check[t].phase = "none" /\ check' # check BY NoCheckOK
      <3>2. ~CheckStep(t) BY <3>1 DEF CheckStep, CountSVM, ListSVM, FindSVM, Examine, FreeCopy, CheckDone
      <3>3. ~AllocStep(t)
        BY <3>1 DEF AllocStep, FindFree, TakeFree, RealAlloc, RealAllocFails, EnqueueFills, RunFills, Record,
                    WaitForFills, Give, checks
      <3>4. ~(FineFree(t) \/ RealFree(t) \/ MapReturns(t) \/ SVMUnmap(t))
        BY <3>1 DEF FineFree, RealFree, MapReturns, SVMUnmap, checks
      <3>5. ~\E c \in Contexts, g \in Grains, n \in Sizes, al \in Alignments : SVMAlloc(t, c, g, n, al)
        BY <3>1 DEF SVMAlloc, checks
      <3>6. ~\E a \in user : \E how \in Frees : SVMFree(t, a, how) BY <3>1 DEF SVMFree, checks
      <3>7. ~\E a \in user : \E m \in MapArguments(a), mode \in MapModes, inv \in BOOLEAN :
               SVMMap(t, a, m[1], m[2], mode, inv)
        BY <3>1 DEF SVMMap, checks
      <3> QED BY <3>2, <3>3, <3>4, <3>5, <3>6, <3>7 DEF StepOf
    <2>2. ASSUME NEW u \in Threads \ {t} PROVE check[u] = NoCheck /\ pc[u] \in {"idle", "mapping"}
      <3>1. check[u] # NoCheck => FALSE
        <4>1. ASSUME check[u] # NoCheck PROVE FALSE
          <5>1. check'[t] = NoCheck BY <4>1, Bystander
          <5> QED BY <5>1
        <4> QED BY <4>1
      <3>2. Ready(u) \/ pc[u] = "mapping" BY <2>1 DEF CheckSVM
      <3> QED BY <3>1, <3>2 DEF Ready
    <2> QED BY <2>2
  <1>3. ASSUME NEW c \in Threads, check'[c] # NoCheck, NEW u \in Threads \ {c}
        PROVE  check'[u] = NoCheck /\ pc'[u] \in {"idle", "mapping"}
    <2>1. CASE c = t
      <3>1. check[u] = NoCheck /\ pc[u] \in {"idle", "mapping"} BY <1>2, <1>3, <2>1 DEF WalkInv, AloneInv
      <3> QED BY <1>1, <2>1, <3>1
    <2>2. CASE c # t
      <3>1. check[c] # NoCheck BY <1>1, <1>3, <2>2
      <3>2. CASE u = t BY <2>2, <3>1, <3>2, Bystander
      <3>3. CASE u # t BY <1>1, <3>1, <3>3 DEF WalkInv, AloneInv
      <3> QED BY <3>2, <3>3
    <2> QED BY <2>1, <2>2
  <1>4. check'[t].phase = "none" => check'[t] = NoCheck
    <2>0. check[t] \in Checks /\ check \in [Threads -> Checks] BY DEF MemoryInv, SvmTypeOK
    <2>1. check[t].phase = "none" => check[t] = NoCheck BY DEF WalkInv, AloneInv
    <2>2. \/ check'[t].phase = check[t].phase /\ check[t] # NoCheck
          \/ check'[t] = check[t] \/ check'[t] = NoCheck
          \/ check'[t].phase \in {"count", "list", "find", "release"}
      <3>1. CASE CheckStep(t)
        <4>1. CASE CountSVM(t) BY <4>1, CountShape
        <4>2. CASE ListSVM(t) BY <4>2, ListShape
        <4>3. CASE FindSVM(t) BY <4>3, FindShape
        <4>4. CASE Examine(t) BY <2>0, <4>4 DEF Examine, Checks
        <4>5. CASE FreeCopy(t) BY <4>5, FreeCopyShape
        <4>6. CASE CheckDone(t) BY <2>0, <4>6 DEF CheckDone
        <4> QED BY <3>1, <4>1, <4>2, <4>3, <4>4, <4>5, <4>6 DEF CheckStep
      <3>2. CASE AllocStep(t)
        <4>1. CASE WaitForFills(t)
          <5>1. check' = check \/ (check[t] # NoCheck /\ check' = [check EXCEPT ![t].copies = @ \cup {UserPtr(t)}])
            BY <4>1 DEF WaitForFills, Give
          <5>2. CASE check' = check BY <5>2
          <5>3. CASE check[t] # NoCheck /\ check' = [check EXCEPT ![t].copies = @ \cup {UserPtr(t)}]
            <6>1. check'[t] = [check[t] EXCEPT !.copies = @ \cup {UserPtr(t)}] BY <2>0, <5>3
            <6>2. check'[t].phase = check[t].phase BY <2>0, <6>1 DEF Checks
            <6> QED BY <5>3, <6>2
          <5> QED BY <5>1, <5>2, <5>3
        <4>2. FindFree(t) \/ TakeFree(t) => check'[t] = check[t] BY DEF FindFree, TakeFree, checks
        <4>3. RealAlloc(t) \/ RealAllocFails(t) => check'[t] = check[t] BY DEF RealAlloc, RealAllocFails, checks
        <4>4. EnqueueFills(t) \/ RunFills(t) => check'[t] = check[t] BY DEF EnqueueFills, RunFills, checks
        <4>5. Record(t) => check'[t] = check[t] BY DEF Record, checks
        <4> QED BY <3>2, <4>1, <4>2, <4>3, <4>4, <4>5 DEF AllocStep
      <3>3. CASE FineFree(t) \/ RealFree(t) \/ MapReturns(t) \/ SVMUnmap(t)
        BY <3>3 DEF FineFree, RealFree, MapReturns, SVMUnmap, checks
      <3>4. CASE \E c \in Contexts, g \in Grains, n \in Sizes, al \in Alignments : SVMAlloc(t, c, g, n, al)
        BY <3>4 DEF SVMAlloc, checks
      <3>5. CASE \E c \in Contexts, way \in CheckWays : CheckSVM(t, c, way)
        <4>1. PICK c \in Contexts, way \in CheckWays : CheckSVM(t, c, way) BY <3>5
        <4>2. check'[t] = [NoCheck EXCEPT !.phase = "count", !.at = SvmNext(0), !.due = user, !.ctx = c, !.way = way]
          BY <2>0, <4>1 DEF CheckSVM
        <4>3. check'[t].phase = "count" BY <4>2, NoCheckOK DEF Checks
        <4> QED BY <4>3
      <3>6. CASE \E a \in user : \E how \in Frees : SVMFree(t, a, how) BY <3>6 DEF SVMFree, checks
      <3>7. CASE \E a \in user : \E m \in MapArguments(a), mode \in MapModes, inv \in BOOLEAN :
               SVMMap(t, a, m[1], m[2], mode, inv)
        BY <3>7 DEF SVMMap, checks
      <3> QED BY <3>1, <3>2, <3>3, <3>4, <3>5, <3>6, <3>7 DEF StepOf
    <2> QED BY <2>1, <2>2
  <1>5. \A u \in Threads : check'[u].phase = "none" => check'[u] = NoCheck
    BY <1>1, <1>4 DEF WalkInv, AloneInv
  <1> QED BY <1>3, <1>5 DEF AloneInv

\* The records change by one at a time.
LEMMA FiniteStep ==
    ASSUME MemoryInv, WalkInv, \E x : records' \subseteq records \cup {x}
    PROVE  IsFiniteSet(Handles)'
  <1>1. PICK x : records' \subseteq records \cup {x} OBVIOUS
  <1>2. Handles' \subseteq Handles \cup {x.handle} BY <1>1 DEF Handles
  <1>3. IsFiniteSet(Handles \cup {x.handle}) BY FS_AddElement DEF WalkInv
  <1> QED BY <1>2, <1>3, FS_Subset

LEMMA WalkCount ==
    ASSUME MemoryInv, WalkInv, NEW t \in Threads, CountSVM(t)
    PROVE  WalkAt(t)' /\ exited' = exited
  <1>0. check[t].phase = "count" /\ UNCHANGED <<records, user, pc>> BY CountShape
  <1>1. /\ pc[t] = "idle" /\ (check[t].at = 0 \/ check[t].at \in Handles)
        /\ check[t].n = Cardinality(Passed(Handles, check[t].at)) /\ check[t].list = <<>>
    BY <1>0 DEF WalkInv, WalkAt
  <1>2. Handles' = Handles BY <1>0 DEF Handles
  <1>3. CASE /\ check[t].at = 0 /\ check'[t].phase = "list" /\ check'[t].at = SvmNext(0)
             /\ check'[t].n = check[t].n /\ check'[t].list = check[t].list /\ exited' = exited
    <2>1. check[t].n = Cardinality(Handles) BY <1>1, <1>3 DEF Passed
    <2>2. Len(<<>>) = 0 /\ Elements(<<>>) = {} BY DEF Elements
    <2>3. Cardinality({}) = 0 BY FS_EmptySet
    <2>4. Passed(Handles', check'[t].at) = {} /\ (check'[t].at = 0 \/ check'[t].at \in Handles')
      BY <1>2, <1>3, WalkBegins
    <2>5. pc'[t] = "idle" /\ check'[t].n = Cardinality(Handles') /\ check'[t].list = <<>>
      BY <1>0, <1>1, <1>2, <1>3, <2>1
    <2>6. check'[t].phase = "list" BY <1>3
    <2>7. WalkAt(t)' BY <2>2, <2>3, <2>4, <2>5, <2>6 DEF WalkAt
    <2> QED BY <1>3, <2>7
  <1>4. Gone(t) /\ check[t].at # 0 => FALSE BY <1>1 DEF Gone, Handles
  <1>5. CASE /\ ~Gone(t) /\ check'[t].phase = "count" /\ check'[t].at = SvmNext(check[t].at)
             /\ check'[t].n = check[t].n + 1 /\ check'[t].list = check[t].list /\ exited' = exited
    <2>1. check[t].at \in Handles BY <1>5 DEF Gone, Handles
    <2>2. check'[t].n = Cardinality(Passed(Handles', check'[t].at)) BY <1>1, <1>2, <1>5, <2>1, WalkGoesOn
    <2>3. check'[t].at = 0 \/ check'[t].at \in Handles' BY <1>2, <1>5, <2>1, WalkGoesOn
    <2>4. pc'[t] = "idle" /\ check'[t].list = <<>> /\ check'[t].phase = "count" BY <1>0, <1>1, <1>5
    <2>5. WalkAt(t)' BY <2>2, <2>3, <2>4 DEF WalkAt
    <2> QED BY <1>5, <2>5
  <1> QED BY <1>3, <1>4, <1>5, CountShape

LEMMA WalkList ==
    ASSUME MemoryInv, WalkInv, NEW t \in Threads, ListSVM(t)
    PROVE  WalkAt(t)' /\ exited' = exited
  <1>0. check[t].phase = "list" /\ UNCHANGED <<records, user, pc>> BY ListShape
  <1> DEFINE l == check[t].list
             at == check[t].at
  <1>1. /\ pc[t] = "idle" /\ (at = 0 \/ at \in Handles)
        /\ check[t].n = Cardinality(Handles)
        /\ Len(l) = Cardinality(Passed(Handles, at)) /\ Elements(l) = Passed(Handles, at)
    BY <1>0 DEF WalkInv, WalkAt
  <1>2. Handles' = Handles BY <1>0 DEF Handles
  <1>3. l \in Seq(Nat) /\ at \in Nat /\ check[t].found \subseteq Nat BY DEF MemoryInv, SvmTypeOK, Checks
  <1>4. Len(l) = check[t].n => at = 0
    <2> SUFFICES ASSUME at # 0, Len(l) = check[t].n PROVE FALSE
      OBVIOUS
    <2>1. at \in Handles /\ at \notin Passed(Handles, at) BY <1>1, WalkGoesOn
    <2>2. Passed(Handles, at) \in SUBSET Handles BY DEF Passed
    <2>3. Handles = Passed(Handles, at) BY <1>1, <2>2, HandleFacts, FS_Subset
    <2> QED BY <2>1, <2>3
  <1>5. CASE /\ at = 0 \/ Len(l) = check[t].n
             /\ check'[t].phase = "find" /\ check'[t].found = check[t].found /\ exited' = exited
             /\ check'[t].list = l \o [i \in 1 .. (check[t].n - Len(l)) |-> 0]
    <2>1. at = 0 BY <1>4, <1>5
    <2>2. Elements(l) = Handles /\ Len(l) = check[t].n BY <1>1, <2>1 DEF Passed
    <2>3. check'[t].list = l
      <3>1. check[t].n - Len(l) = 0 BY <1>3, <2>2
      <3>2. [i \in 1 .. (check[t].n - Len(l)) |-> 0] = <<>> BY <3>1
      <3>3. l \o <<>> = l BY <1>3, ConcatEmptySeq
      <3> QED BY <1>5, <3>2, <3>3
    <2>4. \A a \in user : a.ptr \in Handles BY DEF MemoryInv, RecordsInv, Describes, Handles
    <2> QED BY <1>0, <1>2, <1>5, <2>2, <2>3, <2>4 DEF WalkAt
  <1>6. Gone(t) /\ at # 0 => FALSE BY <1>1 DEF Gone, Handles
  <1>7. CASE /\ ~Gone(t) /\ check'[t].phase = "list" /\ check'[t].at = SvmNext(at)
             /\ check'[t].n = check[t].n /\ check'[t].list = Append(l, at)
             /\ exited' = exited
    <2>1. at \in Handles BY <1>7 DEF Gone, Handles
    <2>2. Len(Append(l, at)) = Len(l) + 1 BY <1>3
    <2>3. Elements(Append(l, at)) = Elements(l) \cup {at}
      <3>1. \A i \in 1 .. Len(l) : Append(l, at)[i] = l[i] BY <1>3
      <3>2. Append(l, at)[Len(l) + 1] = at BY <1>3
      <3>3. 1 .. (Len(l) + 1) = (1 .. Len(l)) \cup {Len(l) + 1} BY <1>3
      <3> QED BY <2>2, <3>1, <3>2, <3>3 DEF Elements
    <2>4. /\ Passed(Handles', check'[t].at) = Passed(Handles, at) \cup {at}
          /\ Cardinality(Passed(Handles', check'[t].at)) = Cardinality(Passed(Handles, at)) + 1
          /\ check'[t].at = 0 \/ check'[t].at \in Handles'
      BY <1>2, <1>7, <2>1, WalkGoesOn
    <2>5. /\ Len(check'[t].list) = Cardinality(Passed(Handles', check'[t].at))
          /\ Elements(check'[t].list) = Passed(Handles', check'[t].at)
      BY <1>1, <1>7, <2>2, <2>3, <2>4
    <2>6. pc'[t] = "idle" /\ check'[t].n = Cardinality(Handles') /\ check'[t].phase = "list"
      BY <1>0, <1>1, <1>2, <1>7
    <2>7. WalkAt(t)' BY <2>4, <2>5, <2>6 DEF WalkAt
    <2> QED BY <1>7, <2>7
  <1> QED BY <1>5, <1>6, <1>7, ListShape

\* Looking up the start of a recorded allocation gives its record.
LEMMA StartFound ==
    ASSUME MemoryInv, NEW p \in Handles
    PROVE  SvmFind(p) # {} /\ \A r \in SvmFind(p) : r.handle = p
  <1>1. PICK x \in records : x.handle = p BY DEF Handles
  <1>2. x \in SvmFind(p)
    <2>1. p \in Nat /\ x.size \in Nat /\ p - x.handle <= x.size BY <1>1, RecordRoom
    <2> QED BY <1>1, <2>1 DEF SvmFind
  <1>3. ASSUME NEW r \in SvmFind(p) PROVE r.handle = p
    <2>1. r \in records /\ r.handle <= p /\ x.handle <= r.handle BY <1>1, <1>2 DEF SvmFind
    <2> QED BY <1>1, <2>1, RecordRoom
  <1> QED BY <1>2, <1>3

LEMMA WalkFind ==
    ASSUME MemoryInv, WalkInv, NEW t \in Threads, FindSVM(t)
    PROVE  WalkAt(t)' /\ exited' = exited
  <1> DEFINE l == check[t].list
  <1>1. check[t].phase = "find" /\ l # <<>> /\ UNCHANGED <<records, user>> BY FindShape
  <1>2. /\ Elements(l) \subseteq Handles
        /\ \A a \in user : a.ptr \in check[t].found \cup Elements(l)
    BY <1>1 DEF WalkInv, WalkAt
  <1>3. l \in Seq(Nat) BY DEF MemoryInv, SvmTypeOK, Checks
  <1>4. Elements(l) = {Head(l)} \cup Elements(Tail(l))
    <2> HIDE DEF l
    <2>1. Len(l) \in Nat \ {0} /\ Tail(l) \in Seq(Nat) /\ Len(Tail(l)) = Len(l) - 1 /\ Head(l) = l[1]
      BY <1>1, <1>3
    <2>2. \A i \in 1 .. Len(Tail(l)) : Tail(l)[i] = l[i + 1] BY <1>1, <1>3
    <2>3. ASSUME NEW x \in Elements(l) PROVE x = Head(l) \/ x \in Elements(Tail(l))
      <3>1. PICK i \in 1 .. Len(l) : x = l[i] BY DEF Elements
      <3>2. CASE i = 1 BY <2>1, <3>1, <3>2
      <3>3. CASE i # 1
        <4>1. i - 1 \in 1 .. Len(Tail(l)) /\ (i - 1) + 1 = i BY <2>1, <3>3
        <4>2. Tail(l)[i - 1] = x BY <2>2, <3>1, <4>1
        <4> QED BY <4>1, <4>2 DEF Elements
      <3> QED BY <3>2, <3>3
    <2>4. ASSUME NEW x \in Elements(Tail(l)) PROVE x \in Elements(l)
      <3>1. PICK i \in 1 .. Len(Tail(l)) : x = Tail(l)[i] BY DEF Elements
      <3>2. i + 1 \in 1 .. Len(l) /\ x = l[i + 1] BY <2>1, <2>2, <3>1
      <3> QED BY <3>2 DEF Elements
    <2>5. Head(l) \in Elements(l) BY <2>1 DEF Elements
    <2> QED BY <2>3, <2>4, <2>5
  <1>5. Head(l) \in Handles BY <1>2, <1>4
  <1>6. PICK r \in SvmFind(Head(l)) :
           /\ exited' = exited /\ check'[t].phase = "find" /\ check'[t].list = Tail(l)
           /\ check'[t].found = check[t].found \cup {r.handle}
    BY <1>5, StartFound, FindShape
  <1>7. r.handle = Head(l) BY <1>5, StartFound
  <1>8. Handles' = Handles BY <1>1 DEF Handles
  <1> QED BY <1>1, <1>2, <1>4, <1>6, <1>7, <1>8 DEF WalkAt

LEMMA WalkKept ==
    ASSUME NEW t \in Threads, WalkAt(t), user' = user, records \subseteq records',
           check'[t].phase = check[t].phase, check'[t].list = check[t].list, check'[t].found = check[t].found,
           check[t].phase \in {"count", "list"} => check'[t] = check[t] /\ pc'[t] = pc[t] /\ records' = records
    PROVE  WalkAt(t)'
  <1>1. CASE check[t].phase \in {"count", "list"}
    <2>1. Handles' = Handles BY <1>1 DEF Handles
    <2> QED BY <1>1, <2>1 DEF WalkAt
  <1>2. CASE check[t].phase \notin {"count", "list"}
    <2>1. Handles \subseteq Handles' BY DEF Handles
    <2> QED BY <1>2, <2>1 DEF WalkAt
  <1> QED BY <1>1, <1>2

LEMMA WalkNone ==
    ASSUME NEW t \in Threads, check'[t] = NoCheck
    PROVE  WalkAt(t)'
  BY NoCheckOK DEF WalkAt

\* Steps of the allocations and frees of a check, and of the application.
LEMMA WalkAlloc ==
    ASSUME MemoryInv, WalkInv, NEW t \in Threads, AllocStep(t)
    PROVE  WalkAt(t)' /\ exited' # "lost"
  <1>1. exited' # "lost"
    BY DEF AllocStep, FindFree, TakeFree, RealAlloc, RealAllocFails, EnqueueFills, RunFills, Record, WaitForFills,
           checks, WalkInv
  <1>2. WalkAt(t) BY DEF WalkInv
  <1>3. CASE WaitForFills(t)
    <2>1. CASE check[t] = NoCheck
      <3>1. check'[t] = NoCheck BY <1>3, <2>1 DEF WaitForFills, Give
      <3> QED BY <1>1, <3>1, WalkNone
    <2>2. CASE check[t] # NoCheck
      <3>0. check[t] \in Checks /\ check \in [Threads -> Checks] BY DEF MemoryInv, SvmTypeOK
      <3>1. /\ pc[t] = "wait" /\ user' = user /\ records' = records
            /\ check' = [check EXCEPT ![t].copies = @ \cup {UserPtr(t)}]
        BY <1>3, <2>2 DEF WaitForFills, Give
      <3>2. check'[t] = [check[t] EXCEPT !.copies = @ \cup {UserPtr(t)}] BY <3>0, <3>1
      <3>3. /\ check'[t].phase = check[t].phase /\ check'[t].list = check[t].list
            /\ check'[t].found = check[t].found
        BY <3>0, <3>2 DEF Checks
      <3>4. check[t].phase \notin {"count", "list"} BY <1>2, <3>1 DEF WalkAt
      <3> QED BY <1>1, <1>2, <3>1, <3>3, <3>4, WalkKept
    <2> QED BY <2>1, <2>2
  <1>4. CASE RunFills(t)
    <2>1. UNCHANGED <<user, records, check, pc>> BY <1>4 DEF RunFills, checks
    <2> QED BY <1>1, <1>2, <2>1, WalkKept
  <1>5. CASE FindFree(t) \/ TakeFree(t) \/ RealAlloc(t) \/ RealAllocFails(t) \/ EnqueueFills(t) \/ Record(t)
    <2>1. pc[t] # "idle" /\ UNCHANGED <<user, check>> /\ records \subseteq records'
      BY <1>5 DEF FindFree, TakeFree, RealAlloc, RealAllocFails, EnqueueFills, Record, checks
    <2>2. check[t].phase \notin {"count", "list"} BY <1>2, <2>1 DEF WalkAt
    <2> QED BY <1>1, <1>2, <2>1, <2>2, WalkKept
  <1> QED BY <1>3, <1>4, <1>5 DEF AllocStep

LEMMA WalkBegin ==
    ASSUME MemoryInv, WalkInv, NEW t \in Threads, NEW c \in Contexts, NEW way \in CheckWays,
           CheckSVM(t, c, way)
    PROVE  WalkAt(t)' /\ exited' = exited
  <1>0. check \in [Threads -> Checks] BY DEF MemoryInv, SvmTypeOK
  <1>1. /\ pc[t] = "idle" /\ UNCHANGED <<records, user, pc, exited>>
        /\ check'[t] = [NoCheck EXCEPT !.phase = "count", !.at = SvmNext(0), !.due = user, !.ctx = c, !.way = way]
    BY <1>0 DEF CheckSVM, Ready
  <1>2. check'[t].phase = "count" /\ check'[t].at = SvmNext(0) BY <1>1, NoCheckOK DEF Checks
  <1>3. check'[t].n = 0 /\ check'[t].list = <<>> BY <1>1, NoCheckOK DEF NoCheck
  <1>4. Handles' = Handles BY <1>1 DEF Handles
  <1>5. Passed(Handles', check'[t].at) = {} /\ (check'[t].at = 0 \/ check'[t].at \in Handles')
    BY <1>2, <1>4, WalkBegins
  <1>6. check'[t].n = Cardinality(Passed(Handles', check'[t].at)) BY <1>3, <1>5, FS_EmptySet
  <1>7. pc'[t] = "idle" BY <1>1
  <1> QED BY <1>1, <1>2, <1>3, <1>5, <1>6, <1>7 DEF WalkAt

LEMMA WalkOwn ==
    ASSUME MemoryInv, WalkInv, NEW t \in Threads, StepOf(t)
    PROVE  WalkAt(t)' /\ exited' # "lost"
  <1>0. exited # "lost" /\ WalkAt(t) BY DEF WalkInv
  <1>1. CASE AllocStep(t) BY <1>1, WalkAlloc
  <1>2. CASE CheckStep(t)
    <2>1. CASE CountSVM(t) BY <1>0, <2>1, WalkCount
    <2>2. CASE ListSVM(t) BY <1>0, <2>2, WalkList
    <2>3. CASE FindSVM(t) BY <1>0, <2>3, WalkFind
    <2>4. CASE Examine(t)
      <3>0. check[t] \in Checks /\ check \in [Threads -> Checks] BY DEF MemoryInv, SvmTypeOK
      <3>1. /\ check[t].phase = "find" /\ check[t].list = <<>> /\ UNCHANGED <<user, exited>>
            /\ check'[t] = [check[t] EXCEPT !.phase = "release"]
        BY <2>4, <3>0 DEF Examine
      <3>2. check'[t].phase = "release" /\ check'[t].found = check[t].found BY <3>0, <3>1 DEF Checks
      <3>3. Elements(<<>>) = {} BY DEF Elements
      <3>4. \A a \in user : a.ptr \in check[t].found BY <1>0, <3>1, <3>3 DEF WalkAt
      <3> QED BY <1>0, <3>1, <3>2, <3>4 DEF WalkAt
    <2>5. CASE FreeCopy(t) BY <1>0, <2>5, FreeCopyShape DEF WalkAt
    <2>6. CASE CheckDone(t)
      <3>1. check'[t] = NoCheck /\ exited' = exited BY <2>6 DEF CheckDone, MemoryInv, SvmTypeOK
      <3> QED BY <1>0, <3>1, WalkNone
    <2> QED BY <1>2, <2>1, <2>2, <2>3, <2>4, <2>5, <2>6 DEF CheckStep
  <1>3. CASE FineFree(t) \/ RealFree(t) \/ MapReturns(t)
    <2>1. pc[t] # "idle" /\ UNCHANGED <<user, check, records, exited>>
      BY <1>3 DEF FineFree, RealFree, MapReturns, checks
    <2>2. check[t].phase \notin {"count", "list"} BY <1>0, <2>1 DEF WalkAt
    <2> QED BY <1>0, <2>1, <2>2, WalkKept
  <1>4. CASE SVMUnmap(t)
    <2>1. UNCHANGED <<user, check, records, exited, pc>> BY <1>4 DEF SVMUnmap, checks
    <2> QED BY <1>0, <2>1, WalkKept
  <1>5. CASE \E c \in Contexts, way \in CheckWays : CheckSVM(t, c, way) BY <1>0, <1>5, WalkBegin
  <1>6. CASE \/ \E c \in Contexts, g \in Grains, n \in Sizes, al \in Alignments : SVMAlloc(t, c, g, n, al)
             \/ \E a \in user :
                  \/ \E how \in Frees : SVMFree(t, a, how)
                  \/ \E m \in MapArguments(a), mode \in MapModes, inv \in BOOLEAN :
                        SVMMap(t, a, m[1], m[2], mode, inv)
    <2>1. check'[t] = NoCheck /\ exited' = exited BY <1>6 DEF SVMAlloc, SVMFree, SVMMap, Ready, checks
    <2> QED BY <1>0, <2>1, WalkNone
  <1> QED BY <1>1, <1>2, <1>3, <1>4, <1>5, <1>6 DEF StepOf

\* No step adds more than one record.
LEMMA RecordsStep ==
    ASSUME NEW t \in Threads, StepOf(t)
    PROVE  \E x : records' \subseteq records \cup {x}
  <1>1. CASE AllocStep(t)
    BY <1>1 DEF AllocStep, FindFree, TakeFree, RealAlloc, RealAllocFails, EnqueueFills, RunFills, Record, WaitForFills
  <1>2. CASE CheckStep(t)
    BY <1>2 DEF CheckStep, CountSVM, ListSVM, FindSVM, Examine, FreeCopy, CheckDone, ForgetSVM
  <1>3. CASE FineFree(t) \/ RealFree(t) \/ MapReturns(t) \/ SVMUnmap(t)
    BY <1>3 DEF FineFree, RealFree, MapReturns, SVMUnmap
  <1>4. CASE \E c \in Contexts, way \in CheckWays : CheckSVM(t, c, way) BY <1>4 DEF CheckSVM
  <1>5. CASE \/ \E c \in Contexts, g \in Grains, n \in Sizes, al \in Alignments : SVMAlloc(t, c, g, n, al)
             \/ \E a \in user :
                  \/ \E how \in Frees : SVMFree(t, a, how)
                  \/ \E m \in MapArguments(a), mode \in MapModes, inv \in BOOLEAN :
                        SVMMap(t, a, m[1], m[2], mode, inv)
    BY <1>5 DEF SVMAlloc, SVMFree, SVMMap, ForgetSVM
  <1> QED BY <1>1, <1>2, <1>3, <1>4, <1>5 DEF StepOf

LEMMA WalkInvNext ==
    ASSUME CheckAlone, MemoryInv, WalkInv, [Next]_vars
    PROVE  WalkInv'
  <1>1. CASE UNCHANGED <<records, user, pc, check, exited>>
    <2>1. Handles' = Handles BY <1>1 DEF Handles
    <2>2. AloneInv' BY <1>1 DEF WalkInv, AloneInv
    <2>3. \A t \in Threads : WalkAt(t)' BY <1>1, WalkKept DEF WalkInv
    <2> QED BY <1>1, <2>1, <2>2, <2>3 DEF WalkInv
  <1>2. CASE \E t \in Threads : StepOf(t)
    <2>1. PICK t \in Threads : StepOf(t) BY <1>2
    <2>2. IsFiniteSet(Handles)' BY <2>1, RecordsStep, FiniteStep
    <2>3. AloneInv' BY <2>1, AloneStep
    <2>4. ASSUME NEW u \in Threads PROVE WalkAt(u)'
      <3>1. CASE u = t BY <2>1, <3>1, WalkOwn
      <3>2. CASE u # t /\ check[u] = NoCheck
        <4>1. check'[u] = NoCheck BY <2>1, <3>2, StepLocal
        <4> QED BY <4>1, WalkNone
      <3>3. CASE u # t /\ check[u] # NoCheck
        <4>1. UNCHANGED <<records, user>> BY <2>1, <3>3, Bystander
        <4>2. pc'[u] = pc[u] /\ check'[u] = check[u] BY <2>1, <3>3, StepLocal
        <4>3. WalkAt(u) BY DEF WalkInv
        <4> QED BY <4>1, <4>2, <4>3, WalkKept
      <3> QED BY <3>1, <3>2, <3>3
    <2>5. exited' # "lost" BY <2>1, WalkOwn
    <2> QED BY <2>2, <2>3, <2>4, <2>5 DEF WalkInv
  <1>3. RunMap \/ UNCHANGED vars => UNCHANGED <<records, user, pc, check, exited>>
    BY DEF RunMap, vars, checks
  <1>4. Next => RunMap \/ \E t \in Threads : StepOf(t) BY DEF Next, Steps, StepOf
  <1> QED BY <1>1, <1>2, <1>3, <1>4

\* When, while a launch looks for SVM to check, no other thread allocates or frees
\* any: the second walk lists as many records as the first has counted, every
\* pointer it lists is found again, also while the check allocates copies of its
\* own, and every allocation has been examined by the end.
THEOREM EveryoneExamined ==
    FineAlone /\ CheckAlone /\ Frees \subseteq {"now"} => (Spec => []AllExamined)
  <1> SUFFICES ASSUME FineAlone, CheckAlone, Frees \subseteq {"now"} PROVE Spec => []AllExamined
    OBVIOUS
  <1>1. Spec => []MemoryInv BY MemoryInvariant
  <1>2. Init => WalkInv BY WalkInvInit
  <1>3. MemoryInv /\ WalkInv /\ [Next]_vars => WalkInv' BY WalkInvNext
  <1>4. WalkInv => AllExamined BY DEF WalkInv, WalkAt, AllExamined
  <1> QED BY <1>1, <1>2, <1>3, <1>4, PTL DEF Spec
=============================================================================
