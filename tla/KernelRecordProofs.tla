-------------------------- MODULE KernelRecordProofs --------------------------
(***************************************************************************)
(* Proofs about KernelRecords, for any number of threads, kernels, launches,*)
(* buffers and arguments.                                                  *)
(***************************************************************************)
EXTENDS KernelRecords, TLAPS, FiniteSetTheorems, NaturalsInduction

Values == Buffers \cup {NoBuffer}
OwnBuffers == Launches \X Buffers

Jobs ==
    [kern : Kernels \cup {Nil}, index : Int, value : Values, lp : Nodes \cup {Nil},
     node : Nodes \cup {Nil}, launch : Launches \cup {Nil}]

ThreadPlaces == {"idle", "head", "remove", "insert", "inc", "incstore",
                 "verify", "wait", "clean", "dec", "decstore", "drop"}

Places == ThreadPlaces \cup {"due", "walk"}

CountTypeOK ==
    /\ live \subseteq Ids /\ refs \in [Ids -> Int] /\ tmp \in [Actors -> Int]
    /\ held \in [Kernels -> Nat]
    /\ real \in [Kernels -> [Index -> Values \cup {Nil}]]
    /\ job \in [Threads -> Jobs]
    /\ launch = [l \in Launches |-> launch[l]]
    /\ pc \in [Actors -> Places]
    /\ \A t \in Threads : pc[t] \in ThreadPlaces
    /\ \A l \in Launches : pc[l] \in {"idle", "due", "walk", "dec", "decstore", "drop"}

\* A call of the application that gives a reference up.
Releasing(t) == job[t].launch = Nil /\ pc[t] \in {"dec", "decstore", "drop"}

\* A thread is idle or has a kernel, which the application holds at least until the
\* call is over, unless the call gives it up.
UseAt(t) ==
    /\ pc[t] = "idle" <=> job[t] = NoJob
    /\ pc[t] # "idle" => job[t].kern \in Kernels
    /\ pc[t] \in {"head", "remove", "insert"} => job[t].launch = Nil
    /\ pc[t] \in {"verify", "wait", "clean"} => job[t].launch # Nil
    /\ pc[t] # "idle" /\ ~Releasing(t) => held[job[t].kern] > 0

\* Thread t is where the callback of its launch cannot be under way.
Early(t) == pc[t] \in {"inc", "incstore", "verify"}
Resting(t) == Early(t) \/ (pc[t] = "clean" /\ job[t].launch \in Waiting)

\* A launch that is under way.
LaunchAt(t) ==
    LET l == job[t].launch
    IN  l # Nil =>
          /\ launch[l].kern = job[t].kern
          /\ pc[t] \in {"inc", "incstore", "verify", "wait", "clean", "dec", "decstore", "drop"}
          /\ pc[t] \in {"clean", "dec", "decstore", "drop"} => launch[l].used = l
          /\ Resting(t) => pc[l] = "idle"
          /\ Early(t) => launch[l].used \in live

\* A launch is made once, of a kernel or its own stand-in.
MadeAt(l) ==
    \/ launch[l] = NoLaunch /\ pc[l] = "idle"
    \/ launch[l].kern \in Kernels /\ launch[l].used \in {l, launch[l].kern}

UseInv ==
    /\ \A t \in Threads : UseAt(t)
    /\ \A t \in Threads : LaunchAt(t)
    /\ \A l \in Launches : MadeAt(l)
    /\ \A t, u \in Threads : job[t].launch # Nil /\ job[t].launch = job[u].launch => t = u

\* What is about to be stored is one off the count, what is tested against 0 is the
\* count, and only one actor is in it.
StoreAt(a) ==
    /\ Counting(a) => Counted(a) \in live
    /\ pc[a] = "incstore" => tmp[a] = refs[Counted(a)] + 1
    /\ pc[a] = "decstore" => tmp[a] = refs[Counted(a)] - 1
    /\ pc[a] = "drop" => tmp[a] = refs[Counted(a)]

StoreInv ==
    /\ \A a \in Actors : StoreAt(a)
    /\ \A a, b \in Actors : Counting(a) /\ Counting(b) /\ Counted(a) = Counted(b) => a = b

\* A kernel without a record has its first reference only, or none.
AbsentAt(k) ==
    /\ held[k] \in {0, 1}
    /\ held[k] = 1 =>
          /\ \A t \in Threads : job[t].kern = k => ~(Releasing(t) /\ pc[t] \in {"dec", "decstore"})
          /\ \A i \in Index : real[k][i] = Nil

AbsentInv == \A k \in Kernels \ live : AbsentAt(k)

CountInv == \A k \in live : refs[k] = Owed(k)

\* A report has its record; a stand-in is needed or about to go.
KeptInv ==
    /\ \A l \in Launches : Reporting(l) => launch[l].used \in live
    /\ \A l \in live \cap Launches :
          Owed(l) > 0 \/ \E a \in Actors : pc[a] = "drop" /\ Counted(a) = l
    /\ \A l \in live \cap Launches : launch[l].used = l
    /\ \A l \in Launches : <<"norecord", l>> \notin wrong
    /\ \A a \in Actors : <<"gone", a>> \notin wrong

RefInv == CountTypeOK /\ UseInv /\ StoreInv /\ AbsentInv /\ CountInv /\ KeptInv

\* The arguments of a kernel stay among themselves, and name buffers of the
\* application unless it is a stand-in.
NodesOf(k) == {n \in Nodes : n[1] = k}

NodeInv ==
    /\ head \in [Ids -> Nodes \cup {Nil}] /\ next \in [Nodes -> Nodes \cup {Nil}]
    /\ buf = [n \in Nodes |-> buf[n]]
    /\ \A k \in Ids : head[k] \in NodesOf(k) \cup {Nil}
    /\ \A k \in Ids : \A n \in NodesOf(k) : next[n] \in NodesOf(k) \cup {Nil}
    /\ \A k \in Kernels : \A n \in NodesOf(k) : buf[n] \in Values
    /\ \A t \in Threads : pc[t] \in {"head", "remove", "insert"} => job[t].index \in Index
    /\ \A t \in Threads : pc[t] = "remove" => job[t].lp \in NodesOf(job[t].kern) \cup {Nil}
    /\ \A t \in Threads : pc[t] = "insert" => job[t].node \in NodesOf(job[t].kern)

\* The buffers of a stand-in are there only while its launch is under way, and stand
\* in for those without a canary.
OwnInv ==
    /\ mem \subseteq Buffers \cup OwnBuffers
    /\ \A l \in Launches, b \in Buffers : Own(l, b) \in mem =>
          /\ b \in HostBuffers /\ launch[l].used = l
          /\ \E t \in Threads : job[t].launch = l /\ pc[t] \in {"inc", "incstore", "verify", "wait", "clean"}

-----------------------------------------------------------------------------
(***************************************************************************)
(* Who is owed a reference, as sets.                                       *)
(***************************************************************************)
Giving(k) ==
    {t \in Threads : job[t].launch = Nil /\ job[t].kern = k /\ pc[t] \in {"dec", "decstore"}}

Standing(k) ==
    {t \in Threads : /\ job[t].launch = k
                     /\ pc[t] \in {"inc", "incstore", "verify", "wait", "clean", "dec", "decstore"}}

Verifying(k) == {t \in Threads : pc[t] = "verify" /\ Counted(t) = k}

Reports(k) == {l \in Launches : Reporting(l) /\ launch[l].used = k}

LEMMA OwedIs ==
    ASSUME NEW k
    PROVE  Owed(k) = (IF k \in Kernels THEN held[k] + Cardinality(Giving(k))
                      ELSE Cardinality(Standing(k)))
                     + Cardinality(Verifying(k)) + Cardinality(Reports(k))
  BY DEF Owed, Giving, Standing, Verifying, Reports

LEMMA SetsFinite ==
    ASSUME NEW k
    PROVE  /\ IsFiniteSet(Giving(k)) /\ IsFiniteSet(Standing(k))
           /\ IsFiniteSet(Verifying(k)) /\ IsFiniteSet(Reports(k))
  <1>1. IsFiniteSet(Threads) /\ IsFiniteSet(Launches) BY RecordAssumption
  <1>2. Giving(k) \subseteq Threads /\ Standing(k) \subseteq Threads /\ Verifying(k) \subseteq Threads
    BY DEF Giving, Standing, Verifying
  <1>3. Reports(k) \subseteq Launches BY DEF Reports
  <1> QED BY <1>1, <1>2, <1>3, FS_Subset

OneOf(a, S) == IF a \in S THEN 1 ELSE 0

\* A set that changes by one element at most.
LEMMA OneMoves ==
    ASSUME NEW S, NEW T, NEW a, IsFiniteSet(S), \A b : b # a => (b \in S <=> b \in T)
    PROVE  /\ IsFiniteSet(T) /\ Cardinality(S) \in Nat /\ Cardinality(T) \in Nat
           /\ Cardinality(T) = Cardinality(S) + OneOf(a, T) - OneOf(a, S)
  <1>0. Cardinality(S) \in Nat BY FS_CardinalityType
  <1>1. CASE a \in S /\ a \in T
    <2>1. S = T BY <1>1
    <2> QED BY <1>0, <1>1, <2>1 DEF OneOf
  <1>2. CASE a \notin S /\ a \notin T
    <2>1. S = T BY <1>2
    <2> QED BY <1>0, <1>2, <2>1 DEF OneOf
  <1>3. CASE a \notin S /\ a \in T
    <2>1. T = S \cup {a} BY <1>3
    <2>2. IsFiniteSet(T) /\ Cardinality(T) = Cardinality(S) + 1 BY <1>3, <2>1, FS_AddElement
    <2> QED BY <1>0, <1>3, <2>2 DEF OneOf
  <1>4. CASE a \in S /\ a \notin T
    <2>1. T = S \ {a} BY <1>4
    <2>2. IsFiniteSet(T) /\ Cardinality(T) = Cardinality(S) - 1 BY <1>4, <2>1, FS_RemoveElement
    <2>3. Cardinality(T) \in Nat BY <2>2, FS_CardinalityType
    <2> QED BY <1>0, <1>4, <2>2, <2>3 DEF OneOf
  <1> QED BY <1>1, <1>2, <1>3, <1>4

Base(k) == IF k \in Kernels THEN held[k] ELSE 0

\* The share of thread t and launch l in what is owed.
Share(k, t, l) ==
    (IF k \in Kernels THEN OneOf(t, Giving(k)) ELSE OneOf(t, Standing(k)))
    + OneOf(t, Verifying(k)) + OneOf(l, Reports(k))

LEMMA OwedNat ==
    ASSUME CountTypeOK, NEW k
    PROVE  Owed(k) \in Nat /\ Owed(k) >= Base(k)
  <1>1. /\ Cardinality(Giving(k)) \in Nat /\ Cardinality(Standing(k)) \in Nat
        /\ Cardinality(Verifying(k)) \in Nat /\ Cardinality(Reports(k)) \in Nat
    BY SetsFinite, FS_CardinalityType
  <1>2. k \in Kernels => held[k] \in Nat BY DEF CountTypeOK
  <1> QED BY <1>1, <1>2, OwedIs DEF Base

\* Whoever is in one of the sets is counted.
LEMMA OwedAny ==
    ASSUME CountTypeOK, NEW k, Owed(k) = 0
    PROVE  /\ Verifying(k) = {} /\ Reports(k) = {}
           /\ k \in Kernels => held[k] = 0 /\ Giving(k) = {}
           /\ k \notin Kernels => Standing(k) = {}
  <1>1. /\ Cardinality(Giving(k)) \in Nat /\ Cardinality(Standing(k)) \in Nat
        /\ Cardinality(Verifying(k)) \in Nat /\ Cardinality(Reports(k)) \in Nat
    BY SetsFinite, FS_CardinalityType
  <1>2. k \in Kernels => held[k] \in Nat BY DEF CountTypeOK
  <1>3. /\ Cardinality(Verifying(k)) = 0 /\ Cardinality(Reports(k)) = 0
        /\ k \in Kernels => held[k] = 0 /\ Cardinality(Giving(k)) = 0
        /\ k \notin Kernels => Cardinality(Standing(k)) = 0
    <2>1. Owed(k) = (IF k \in Kernels THEN held[k] + Cardinality(Giving(k))
                         ELSE Cardinality(Standing(k)))
                        + Cardinality(Verifying(k)) + Cardinality(Reports(k))
      BY OwedIs
    <2>2. CASE k \in Kernels BY <1>1, <1>2, <2>1, <2>2
    <2>3. CASE k \notin Kernels BY <1>1, <2>1, <2>3
    <2> QED BY <2>2, <2>3
  <1> QED BY <1>3, SetsFinite, FS_EmptySet

LEMMA OwedNone ==
    ASSUME NEW k, Giving(k) = {}, Standing(k) = {}, Verifying(k) = {}, Reports(k) = {},
           CountTypeOK
    PROVE  Owed(k) = Base(k)
  <1>1. Cardinality({}) = 0 BY FS_EmptySet
  <1>2. k \in Kernels => held[k] \in Nat BY DEF CountTypeOK
  <1>3. Owed(k) = (IF k \in Kernels THEN held[k] + Cardinality(Giving(k))
                       ELSE Cardinality(Standing(k)))
                      + Cardinality(Verifying(k)) + Cardinality(Reports(k))
    BY OwedIs
  <1>4. Cardinality(Giving(k)) = 0 /\ Cardinality(Standing(k)) = 0 BY <1>1
  <1>5. Cardinality(Verifying(k)) = 0 /\ Cardinality(Reports(k)) = 0 BY <1>1
  <1> QED BY <1>2, <1>3, <1>4, <1>5 DEF Base

\* Only thread t and the callback of launch l move.
OnlyMove(t, l) ==
    /\ \A u \in Threads \ {t} :
          /\ pc'[u] = pc[u] /\ job'[u] = job[u]
          /\ pc[u] = "verify" => Counted(u)' = Counted(u)
    /\ \A m \in Launches \ {l} :
          /\ pc'[m] = pc[m]
          /\ Reporting(m) => launch'[m].used = launch[m].used

\* Then what is owed changes by their shares.
LEMMA OwedMoves ==
    ASSUME CountTypeOK, NEW k, NEW t, NEW l, CountTypeOK', OnlyMove(t, l)
    PROVE  Owed(k)' = Owed(k) + (Base(k)' - Base(k)) + (Share(k, t, l)' - Share(k, t, l))
  <1>1. \A u : u # t => (u \in Giving(k) <=> u \in Giving(k)') BY DEF Giving, OnlyMove
  <1>2. \A u : u # t => (u \in Standing(k) <=> u \in Standing(k)') BY DEF Standing, OnlyMove
  <1>3. \A u : u # t => (u \in Verifying(k) <=> u \in Verifying(k)') BY DEF Verifying, OnlyMove
  <1>4. \A m : m # l => (m \in Reports(k) <=> m \in Reports(k)')
    <2>1. \A m \in Launches \ {l} : Reporting(m)' <=> Reporting(m) BY DEF Reporting, OnlyMove
    <2> QED BY <2>1 DEF Reports, OnlyMove
  <1>5. /\ Cardinality(Giving(k)) \in Nat /\ Cardinality(Giving(k)') \in Nat
        /\ Cardinality(Giving(k)') = Cardinality(Giving(k)) + OneOf(t, Giving(k)') - OneOf(t, Giving(k))
    BY <1>1, SetsFinite, OneMoves
  <1>6. /\ Cardinality(Standing(k)) \in Nat /\ Cardinality(Standing(k)') \in Nat
        /\ Cardinality(Standing(k)') = Cardinality(Standing(k)) + OneOf(t, Standing(k)') - OneOf(t, Standing(k))
    BY <1>2, SetsFinite, OneMoves
  <1>7. /\ Cardinality(Verifying(k)) \in Nat /\ Cardinality(Verifying(k)') \in Nat
        /\ Cardinality(Verifying(k)') = Cardinality(Verifying(k)) + OneOf(t, Verifying(k)') - OneOf(t, Verifying(k))
    BY <1>3, SetsFinite, OneMoves
  <1>8. /\ Cardinality(Reports(k)) \in Nat /\ Cardinality(Reports(k)') \in Nat
        /\ Cardinality(Reports(k)') = Cardinality(Reports(k)) + OneOf(l, Reports(k)') - OneOf(l, Reports(k))
    BY <1>4, SetsFinite, OneMoves
  <1>9. Owed(k)' = (IF k \in Kernels THEN held'[k] + Cardinality(Giving(k)')
                    ELSE Cardinality(Standing(k)'))
                   + Cardinality(Verifying(k)') + Cardinality(Reports(k)')
    BY DEF Owed, Giving, Standing, Verifying, Reports
  <1>10. k \in Kernels => held[k] \in Nat /\ held'[k] \in Nat BY DEF CountTypeOK
  <1>11. \A a, S : OneOf(a, S) \in Nat BY DEF OneOf
  <1>12. Share(k, t, l)' = (IF k \in Kernels THEN OneOf(t, Giving(k)') ELSE OneOf(t, Standing(k)'))
                           + OneOf(t, Verifying(k)') + OneOf(l, Reports(k)')
    BY DEF Share, OneOf
  <1> QED BY <1>5, <1>6, <1>7, <1>8, <1>9, <1>10, <1>11, <1>12, OwedIs DEF Base, Share

-----------------------------------------------------------------------------
(***************************************************************************)
(* What a step of one actor leaves alone.                                  *)
(***************************************************************************)
LEMMA NoJobIs ==
    /\ NoJob \in Jobs
    /\ NoJob.kern = Nil /\ NoJob.launch = Nil /\ NoJob.value = NoBuffer
    /\ NoJob.lp = Nil /\ NoJob.node = Nil
  BY DEF NoJob, Jobs, Values

LEMMA ActorsApart ==
    /\ \A t \in Threads : t \in Actors /\ t \notin Launches
    /\ \A l \in Launches : l \in Actors /\ l \notin Threads /\ l \in Ids /\ l \notin Kernels
    /\ \A a \in Actors : a \in Threads \/ a \in Launches
    /\ \A k \in Kernels : k \in Ids /\ k \notin Launches
    /\ Nil \notin Kernels /\ Nil \notin Launches /\ Nil \notin Ids
  BY RecordAssumption DEF Actors, Ids

LEMMA CountedIs ==
    /\ \A l \in Launches : Counted(l) = launch[l].used
    /\ \A t \in Threads :
          Counted(t) = IF job[t].launch # Nil THEN launch[job[t].launch].used ELSE job[t].kern
  BY ActorsApart DEF Counted

\* The kernel somebody counts is one.
LEMMA CountedOK ==
    ASSUME RefInv, NEW a \in Actors, pc[a] # "idle"
    PROVE  Counted(a) \in Ids
  <1>1. CASE a \in Launches
    <2>1. launch[a].kern \in Kernels /\ launch[a].used \in {a, launch[a].kern}
      BY <1>1 DEF RefInv, UseInv, MadeAt
    <2> QED BY <1>1, <2>1, CountedIs, ActorsApart
  <1>2. CASE a \in Threads
    <2>1. job[a].kern \in Kernels BY <1>2 DEF RefInv, UseInv, UseAt
    <2>2. CASE job[a].launch = Nil BY <1>2, <2>1, <2>2, CountedIs, ActorsApart
    <2>3. CASE job[a].launch # Nil
      <3> DEFINE l == job[a].launch
      <3>1. l \in Launches BY <1>2, <2>3 DEF RefInv, CountTypeOK, Jobs
      <3>2. launch[l].kern = job[a].kern BY <1>2, <2>3 DEF RefInv, UseInv, LaunchAt, Resting, Early
      <3>3. launch[l].kern # Nil BY <2>1, <3>2, ActorsApart
      <3>4. launch[l] # NoLaunch BY <3>3 DEF NoLaunch
      <3>5. launch[l].used \in {l, launch[l].kern} BY <3>1, <3>4 DEF RefInv, UseInv, MadeAt
      <3> QED BY <1>2, <2>1, <2>3, <3>1, <3>2, <3>5, CountedIs, ActorsApart
    <2> QED BY <2>2, <2>3
  <1> QED BY <1>1, <1>2, ActorsApart

\* Nothing of thread u changes.
SameThread(u) ==
    /\ pc'[u] = pc[u] /\ job'[u] = job[u] /\ tmp'[u] = tmp[u]
    /\ job[u].launch # Nil => launch'[job[u].launch] = launch[job[u].launch]

LEMMA SameCounted ==
    ASSUME NEW u \in Threads, SameThread(u)
    PROVE  Counted(u)' = Counted(u)
  <1>1. Counted(u)' = IF job'[u].launch # Nil THEN launch'[job'[u].launch].used ELSE job'[u].kern
    BY ActorsApart DEF Counted
  <1> QED BY <1>1, CountedIs DEF SameThread

\* A thread that does not move is where it was, if its kernel is still held and
\* the record it is about to use is still there.
LEMMA OtherThread ==
    ASSUME RefInv, NEW u \in Threads, SameThread(u),
           pc[u] # "idle" /\ ~Releasing(u) => held'[job[u].kern] > 0,
           Resting(u) /\ job[u].launch # Nil => pc'[job[u].launch] = pc[job[u].launch],
           Early(u) /\ job[u].launch # Nil => launch[job[u].launch].used \in live'
    PROVE  UseAt(u)' /\ LaunchAt(u)'
  <1>1. UseAt(u)' BY DEF RefInv, UseInv, UseAt, SameThread, Releasing
  <1>2. LaunchAt(u)' BY DEF RefInv, UseInv, LaunchAt, Resting, Early, SameThread, Resting, Early
  <1> QED BY <1>1, <1>2

\* Actors that are storing are disturbed by nobody.
LEMMA OtherStores ==
    ASSUME StoreInv, NEW a,
           \A b \in Actors \ {a} : Counting(b)' =>
              /\ pc'[b] = pc[b] /\ tmp'[b] = tmp[b] /\ Counted(b)' = Counted(b)
              /\ Counted(b) \in live => Counted(b) \in live' /\ refs'[Counted(b)] = refs[Counted(b)],
           a \in Actors => StoreAt(a)',
           a \in Actors /\ Counting(a)' =>
              \A b \in Actors \ {a} : Counting(b) => Counted(b) # Counted(a)'
    PROVE  StoreInv'
  <1>1. ASSUME NEW b \in Actors PROVE StoreAt(b)'
    <2>1. CASE b = a BY <1>1, <2>1
    <2>2. CASE b # a /\ Counting(b)'
      BY <1>1, <2>2 DEF StoreInv, StoreAt, Counting
    <2>3. CASE ~Counting(b)' BY <2>3 DEF Counting, StoreAt
    <2> QED BY <2>1, <2>2, <2>3
  <1>2. ASSUME NEW b \in Actors, NEW c \in Actors, Counting(b)', Counting(c)', Counted(b)' = Counted(c)'
        PROVE  b = c
    <2>1. CASE b # a /\ c # a BY <1>2, <2>1 DEF StoreInv, Counting
    <2>2. CASE b = a /\ c # a BY <1>2, <2>2 DEF Counting
    <2>3. CASE b # a /\ c = a BY <1>2, <2>3 DEF Counting
    <2> QED BY <2>1, <2>2, <2>3
  <1>3. \A b, c \in Actors :
           Counting(b)' /\ Counting(c)' /\ Counted(b)' = Counted(c)' => b = c
    BY <1>2
  <1> QED BY <1>1, <1>3 DEF StoreInv

\* What goes wrong with no record missing or gone.
BadLists ==
    {<<w, a>> : w \in {"short", "endless", "freed"}, a \in Actors}

LEMMA OnlyLists ==
    ASSUME NEW w, w \subseteq BadLists
    PROVE  /\ \A l \in Launches : <<"norecord", l>> \notin w
           /\ \A a \in Actors : <<"gone", a>> \notin w
  BY DEF BadLists

\* A step of thread t that changes no count, nor who is owed what.
CalmThread(t) ==
    /\ UNCHANGED <<live, refs, tmp, held, real, launch>>
    /\ \A a \in Actors \ {t} : pc'[a] = pc[a]
    /\ \A u \in Threads \ {t} : job'[u] = job[u]
    /\ wrong' \subseteq BadLists
    /\ pc[t] \notin {"incstore", "decstore", "drop"} /\ pc'[t] \notin {"incstore", "decstore", "drop"}
    /\ job'[t].launch \in {Nil, job[t].launch}
    /\ \A k \in Ids : /\ t \in Giving(k)' <=> t \in Giving(k)
                      /\ k \in live => (t \in Standing(k)' <=> t \in Standing(k))
                      /\ t \in Verifying(k)' <=> t \in Verifying(k)

LEMMA CalmThreadStep ==
    ASSUME RefInv, NEW t \in Threads, CalmThread(t), CountTypeOK', UseAt(t)', LaunchAt(t)'
    PROVE  RefInv'
  <1>0. CountTypeOK /\ UseInv /\ StoreInv /\ AbsentInv /\ CountInv /\ KeptInv BY DEF RefInv
  <1>1. \A u \in Threads \ {t} : SameThread(u) BY ActorsApart DEF CalmThread, SameThread
  <1>2. \A u \in Threads \ {t} : Counted(u)' = Counted(u) BY <1>1, SameCounted
  <1>3. \A l \in Launches : pc'[l] = pc[l] /\ Counted(l)' = Counted(l)
    BY ActorsApart DEF CalmThread, Counted
  <1>4. UseInv'
    <2>1. ASSUME NEW u \in Threads PROVE UseAt(u)' /\ LaunchAt(u)'
      <3>1. CASE u = t BY <3>1
      <3>2. CASE u # t
        <4>1. SameThread(u) BY <1>1, <3>2
        <4>2. pc[u] # "idle" /\ ~Releasing(u) => held'[job[u].kern] > 0
          BY <1>0 DEF UseInv, UseAt, CalmThread
        <4>3. job[u].launch # Nil => pc'[job[u].launch] = pc[job[u].launch]
          BY <1>0, <1>3 DEF CountTypeOK, Jobs
        <4>4. Early(u) /\ job[u].launch # Nil => launch[job[u].launch].used \in live'
          BY <1>0 DEF UseInv, LaunchAt, Resting, Early, CalmThread
        <4> QED BY <4>1, <4>2, <4>3, <4>4, OtherThread
      <3> QED BY <3>1, <3>2
    <2>2. \A l \in Launches : MadeAt(l)' BY <1>0, <1>3 DEF UseInv, MadeAt, CalmThread
    <2>3. \A u, v \in Threads : job'[u].launch # Nil /\ job'[u].launch = job'[v].launch => u = v
      BY <1>0 DEF UseInv, CalmThread
    <2> QED BY <2>1, <2>2, <2>3 DEF UseInv
  <1>5. StoreInv'
    <2>1. StoreAt(t)' /\ ~Counting(t)' BY DEF StoreAt, Counting, CalmThread
    <2>2. ASSUME NEW b \in Actors \ {t}
          PROVE  /\ pc'[b] = pc[b] /\ tmp'[b] = tmp[b] /\ Counted(b)' = Counted(b)
                 /\ live' = live /\ refs' = refs
      BY <1>2, <1>3, ActorsApart DEF CalmThread
    <2> QED BY <1>0, <2>1, <2>2, OtherStores
  <1>6. AbsentInv'
    <2> SUFFICES ASSUME NEW k \in Kernels \ live PROVE AbsentAt(k)'
      BY DEF AbsentInv, CalmThread
    <2>1. AbsentAt(k) BY <1>0 DEF AbsentInv
    <2>2. ASSUME held[k] = 1, NEW u \in Threads, job'[u].kern = k
          PROVE  ~(Releasing(u)' /\ pc'[u] \in {"dec", "decstore"})
      <3>1. CASE u # t BY <2>1, <2>2, <3>1, <1>1 DEF AbsentAt, Releasing, SameThread
      <3>2. CASE u = t
        <4>1. t \notin Giving(k) BY <2>1, <2>2 DEF AbsentAt, Releasing, Giving
        <4>2. t \notin Giving(k)' BY <4>1, ActorsApart DEF CalmThread
        <4> QED BY <2>2, <3>2, <4>2 DEF Giving, Releasing
      <3> QED BY <3>1, <3>2
    <2> QED BY <2>1, <2>2 DEF AbsentAt, CalmThread
  <1>7. \A k \in live : Owed(k)' = Owed(k)
    <2> TAKE k \in live
    <2>0. k \in Ids BY <1>0 DEF CountTypeOK
    <2>1. OnlyMove(t, Nil)
      <3>1. ASSUME NEW u \in Threads \ {t}
            PROVE  /\ pc'[u] = pc[u] /\ job'[u] = job[u]
                   /\ pc[u] = "verify" => Counted(u)' = Counted(u)
        BY <1>1, <1>2 DEF SameThread
      <3>2. ASSUME NEW m \in Launches \ {Nil}
            PROVE  /\ pc'[m] = pc[m]
                   /\ Reporting(m) => launch'[m].used = launch[m].used
        BY <1>3 DEF CalmThread
      <3> QED BY <3>1, <3>2, Zenon DEF OnlyMove
    <2>3. Owed(k)' = Owed(k) + (Base(k)' - Base(k)) + (Share(k, t, Nil)' - Share(k, t, Nil))
      BY <1>0, <2>1, OwedMoves
    <2>4. Base(k)' = Base(k) /\ Base(k) \in Nat BY <1>0 DEF CalmThread, Base, CountTypeOK
    <2>5. Nil \notin Reports(k) /\ Nil \notin Reports(k)' BY ActorsApart DEF Reports
    <2>6. Share(k, t, Nil)' = Share(k, t, Nil) /\ Share(k, t, Nil) \in Nat
      BY <2>0, <2>5 DEF Share, OneOf, CalmThread
    <2> QED BY <1>0, <2>3, <2>4, <2>6, OwedNat
  <1>8. CountInv' BY <1>0, <1>7 DEF CountInv, CalmThread, CountTypeOK
  <1>9. KeptInv'
    <2>1. \A l \in Launches : Reporting(l)' => launch'[l].used \in live'
      BY <1>0, <1>3 DEF KeptInv, Reporting, CalmThread
    <2>2. ASSUME NEW l \in live' \cap Launches
          PROVE  Owed(l)' > 0 \/ \E a \in Actors : pc'[a] = "drop" /\ Counted(a)' = l
      <3>1. Owed(l) > 0 \/ \E a \in Actors : pc[a] = "drop" /\ Counted(a) = l
        BY <1>0 DEF KeptInv, CalmThread
      <3>2. ASSUME NEW a \in Actors, pc[a] = "drop", Counted(a) = l
            PROVE  pc'[a] = "drop" /\ Counted(a)' = l
        BY <3>2, <1>2, <1>3, ActorsApart DEF CalmThread
      <3>3. l \in live BY DEF CalmThread
      <3> QED BY <1>7, <3>1, <3>2, <3>3
    <2>3. \A l \in live' \cap Launches : launch'[l].used = l BY <1>0 DEF KeptInv, CalmThread
    <2> QED BY <2>1, <2>2, <2>3, OnlyLists DEF KeptInv, CalmThread
  <1> QED BY <1>4, <1>5, <1>6, <1>8, <1>9 DEF RefInv

-----------------------------------------------------------------------------
(***************************************************************************)
(* The list: where its pointers can lead.                                  *)
(***************************************************************************)
LEMMA LeastNat ==
    ASSUME NEW S \in SUBSET Nat, S # {}
    PROVE  \E m \in S : \A n \in S : m <= n
  <1> DEFINE R == OpToRel(<, Nat)
  <1>1. IsWellFoundedOn(R, Nat) BY NatLessThanWellFounded
  <1>2. \A x, y \in Nat : <<y, x>> \in R <=> y < x BY DEF OpToRel
  <1> HIDE DEF R
  <1>3. PICK m \in S : \A n \in S : ~(<<n, m>> \in R) BY <1>1, WFMin, Zenon
  <1>4. ASSUME NEW n \in S PROVE m <= n
    <2>1. m \in Nat /\ n \in Nat /\ ~(<<n, m>> \in R) BY <1>3
    <2>2. ~(n < m) BY <1>2, <2>1, Zenon
    <2> QED BY <2>1, <2>2
  <1> QED BY <1>4

LEMMA SetInduction ==
    ASSUME NEW S \in SUBSET Nat, 0 \in S, \A m \in S : m + 1 \in S
    PROVE  S = Nat
  <1> SUFFICES ASSUME Nat \ S # {} PROVE FALSE OBVIOUS
  <1>1. PICK m \in Nat \ S : \A n \in Nat \ S : m <= n BY LeastNat
  <1>2. m - 1 \in S BY <1>1
  <1> QED BY <1>1, <1>2

LEMMA FuelNat == Fuel \in Nat /\ IsFiniteSet(Nodes)
  <1>1. IsFiniteSet(Ids) BY RecordAssumption, FS_Union DEF Ids
  <1>2. IsFiniteSet(Index) BY RecordAssumption, FS_Interval DEF Index
  <1>3. IsFiniteSet(Ids \X Index) BY <1>1, <1>2, FS_Product
  <1>4. IsFiniteSet((Ids \X Index) \X Threads) BY <1>3, RecordAssumption, FS_Product
  <1> DEFINE pairs == (Ids \X Index) \X Threads
             f == [p \in pairs |-> <<p[1][1], p[1][2], p[2]>>]
  <1>5. f \in Surjection(pairs, Nodes)
    <2>1. f \in [pairs -> Nodes] BY DEF Nodes
    <2>2. ASSUME NEW n \in Nodes PROVE \E p \in pairs : f[p] = n
      <3>1. n[1] \in Ids /\ n[2] \in Index /\ n[3] \in Threads /\ n = <<n[1], n[2], n[3]>> BY DEF Nodes
      <3> DEFINE p == <<<<n[1], n[2]>>, n[3]>>
      <3>2. p \in pairs BY <3>1
      <3>3. f[p] = <<n[1], n[2], n[3]>> BY <3>2
      <3> QED BY <3>1, <3>2, <3>3
    <2> QED BY <2>1, <2>2 DEF Surjection
  <1>6. IsFiniteSet(Nodes) BY <1>4, <1>5, FS_Surjection
  <1> QED BY <1>6, FS_CardinalityType DEF Fuel

\* The recursion of Trail, for a list of m steps: there is such a function, so that
\* Trail is one.
StepTo(m, nx, n, f) ==
    [j \in 0 .. m |-> IF j = 0 THEN n ELSE IF f[j - 1] = Nil THEN Nil ELSE nx[f[j - 1]]]

LEMMA TrailExists ==
    ASSUME NEW nx, NEW n, NEW m \in Nat
    PROVE  \E f : f = StepTo(m, nx, n, f)
  <1> DEFINE S == {i \in Nat : \E f : f = StepTo(i, nx, n, f)}
  <1>1. 0 \in S
    <2>1. [j \in 0 .. 0 |-> n] = StepTo(0, nx, n, [j \in 0 .. 0 |-> n]) BY DEF StepTo
    <2> QED BY <2>1
  <1>2. ASSUME NEW i \in S PROVE i + 1 \in S
    <2>1. PICK f : f = StepTo(i, nx, n, f) BY <1>2
    <2> DEFINE e == IF f[i] = Nil THEN Nil ELSE nx[f[i]]
               g == [j \in 0 .. (i + 1) |-> IF j = i + 1 THEN e ELSE f[j]]
    <2>2. \A j \in 0 .. i : f[j] = IF j = 0 THEN n ELSE IF f[j - 1] = Nil THEN Nil ELSE nx[f[j - 1]]
      BY <2>1 DEF StepTo
    <2>3. \A j \in 0 .. i : g[j] = f[j] OBVIOUS
    <2>4. g[i + 1] = e OBVIOUS
    <2> HIDE DEF g
    <2>5. \A j \in 0 .. (i + 1) : g[j] = IF j = 0 THEN n ELSE IF g[j - 1] = Nil THEN Nil ELSE nx[g[j - 1]]
      <3> TAKE j \in 0 .. (i + 1)
      <3>1. CASE j = i + 1
        <4>1. g[j - 1] = f[i] BY <2>3, <3>1
        <4> QED BY <2>4, <3>1, <4>1
      <3>2. CASE j \in 0 .. i /\ j # 0
        <4>1. g[j - 1] = f[j - 1] /\ g[j] = f[j] BY <2>3, <3>2
        <4> QED BY <2>2, <3>2, <4>1
      <3>3. CASE j = 0 BY <2>2, <2>3, <3>3
      <3> QED BY <3>1, <3>2, <3>3
    <2>6. g = StepTo(i + 1, nx, n, g) BY <2>5 DEF StepTo, g
    <2> QED BY <2>6
  <1> HIDE DEF S
  <1>3. S \in SUBSET Nat BY DEF S
  <1>4. S = Nat BY <1>1, <1>2, <1>3, SetInduction
  <1> QED BY <1>4 DEF S

LEMMA ChosenIs ==
    ASSUME NEW m, NEW n, NEW nx, NEW g, g = StepTo(m, nx, n, g)
    PROVE  LET h == CHOOSE f : f = StepTo(m, nx, n, f) IN h = StepTo(m, nx, n, h)
  BY Zenon

LEMMA TrailIs ==
    ASSUME NEW n
    PROVE  /\ Trail(n)[0] = n
           /\ \A j \in 1 .. Fuel :
                Trail(n)[j] = IF Trail(n)[j - 1] = Nil THEN Nil ELSE next[Trail(n)[j - 1]]
  <1>1. Trail(n) = CHOOSE f : f = StepTo(Fuel, next, n, f) BY DEF Trail, StepTo
  <1>2. PICK g : g = StepTo(Fuel, next, n, g) BY FuelNat, TrailExists
  <1>3. Trail(n) = StepTo(Fuel, next, n, Trail(n)) BY <1>1, <1>2, ChosenIs
  <1> QED BY <1>3, FuelNat DEF StepTo

LEMMA TrailIn ==
    ASSUME NodeInv, NEW k \in Ids, NEW n \in NodesOf(k) \cup {Nil}, NEW i \in 0 .. Fuel
    PROVE  Trail(n)[i] \in NodesOf(k) \cup {Nil}
  <1> DEFINE S == {j \in Nat : j <= Fuel => Trail(n)[j] \in NodesOf(k) \cup {Nil}}
  <1>1. 0 \in S BY TrailIs
  <1>2. ASSUME NEW j \in S PROVE j + 1 \in S
    <2> SUFFICES ASSUME j + 1 <= Fuel PROVE Trail(n)[j + 1] \in NodesOf(k) \cup {Nil}
      OBVIOUS
    <2>1. Trail(n)[j] \in NodesOf(k) \cup {Nil} BY <1>2, FuelNat
    <2>2. j + 1 \in 1 .. Fuel /\ (j + 1) - 1 = j BY FuelNat
    <2>3. Trail(n)[j + 1] = IF Trail(n)[j] = Nil THEN Nil ELSE next[Trail(n)[j]]
      BY <2>2, TrailIs
    <2> QED BY <2>1, <2>3 DEF NodeInv
  <1> HIDE DEF S
  <1>3. S \in SUBSET Nat BY DEF S
  <1>4. S = Nat BY <1>1, <1>2, <1>3, SetInduction
  <1> QED BY <1>4, FuelNat DEF S

LEMMA StopIs ==
    ASSUME NEW trail, NEW nodes
    PROVE  \/ Stop(trail, nodes) = -1
           \/ Stop(trail, nodes) \in 0 .. Fuel /\ trail[Stop(trail, nodes)] \in nodes \cup {Nil}
  <1> DEFINE at == {j \in 0 .. Fuel : trail[j] \in nodes \cup {Nil}}
  <1>1. CASE at = {} BY <1>1 DEF Stop
  <1>2. CASE at # {}
    <2>0. at \in SUBSET Nat BY FuelNat
    <2>1. \E j \in at : \A m \in at : j <= m
      <3> HIDE DEF at
      <3> QED BY <1>2, <2>0, LeastNat
    <2>2. Stop(trail, nodes) = CHOOSE j \in at : \A m \in at : j <= m BY <1>2 DEF Stop
    <2>3. Stop(trail, nodes) \in at BY <2>1, <2>2
    <2> QED BY <2>3
  <1> QED BY <1>1, <1>2

LEMMA FindIn ==
    ASSUME NodeInv, NEW k \in Ids, NEW i
    PROVE  Argument(k, i) \in NodesOf(k) \cup {Nil}
  <1>1. head[k] \in NodesOf(k) \cup {Nil} BY DEF NodeInv
  <1> DEFINE tr == Trail(head[k])
             j  == Stop(tr, {x \in Nodes : x[2] >= i})
  <1>2. j = -1 \/ j \in 0 .. Fuel BY StopIs
  <1>3. j \in 0 .. Fuel => tr[j] \in NodesOf(k) \cup {Nil} BY <1>1, TrailIn
  <1> QED BY <1>2, <1>3 DEF Argument, Find

-----------------------------------------------------------------------------
(***************************************************************************)
(* Steps that change no count: who is owed what stays.                     *)
(***************************************************************************)
\* A thread goes to a place of its own.
LEMMA GotoOK ==
    ASSUME CountTypeOK, NEW t \in Threads, NEW p \in ThreadPlaces, Goto(t, p)
    PROVE  /\ pc' \in [Actors -> Places] /\ pc'[t] = p
           /\ \A a \in Actors \ {t} : pc'[a] = pc[a]
           /\ \A u \in Threads : pc'[u] \in ThreadPlaces
           /\ \A l \in Launches : pc'[l] = pc[l]
  <1>1. t \in Actors /\ p \in Places /\ pc \in [Actors -> Places]
    BY ActorsApart DEF CountTypeOK, Places
  <1>2. pc' = [pc EXCEPT ![t] = p] BY DEF Goto
  <1>3. /\ pc' \in [Actors -> Places] /\ pc'[t] = p
        /\ \A a \in Actors \ {t} : pc'[a] = pc[a]
    BY <1>1, <1>2
  <1>4. \A u \in Threads : pc[u] \in ThreadPlaces BY DEF CountTypeOK, ThreadPlaces
  <1> QED BY <1>3, <1>4, ActorsApart

LEMMA CalmReadHead ==
    ASSUME RefInv, NodeInv, wrong = {}, NEW t \in Threads, ReadHead(t)
    PROVE  RefInv'
  <1>0. CountTypeOK /\ UseAt(t) BY DEF RefInv, UseInv
  <1>1. pc[t] = "head" /\ Goto(t, "remove") BY DEF ReadHead
  <1>2. job[t] \in Jobs /\ job[t].kern \in Kernels /\ job[t].launch = Nil /\ held[job[t].kern] > 0
    BY <1>0, <1>1 DEF CountTypeOK, UseAt, Releasing
  <1>3. head[job[t].kern] \in Nodes \cup {Nil} BY <1>2, ActorsApart DEF NodeInv
  <1>4. /\ job' \in [Threads -> Jobs]
        /\ job'[t].kern = job[t].kern /\ job'[t].launch = Nil
        /\ \A u \in Threads \ {t} : job'[u] = job[u]
    BY <1>0, <1>2, <1>3 DEF ReadHead, CountTypeOK, Jobs
  <1>5. /\ pc' \in [Actors -> Places] /\ pc'[t] = "remove"
        /\ \A a \in Actors \ {t} : pc'[a] = pc[a]
        /\ \A u \in Threads : pc'[u] \in ThreadPlaces
        /\ \A l \in Launches : pc'[l] = pc[l]
    BY <1>0, <1>1, GotoOK DEF ThreadPlaces
  <1>6. UNCHANGED <<live, refs, tmp, held, real, launch, wrong>> BY DEF ReadHead, counts
  <1>7. CountTypeOK' BY <1>0, <1>4, <1>5, <1>6 DEF CountTypeOK, ThreadPlaces
  <1>8. UseAt(t)' /\ LaunchAt(t)'
    BY <1>2, <1>4, <1>5, <1>6, NoJobIs, ActorsApart DEF UseAt, LaunchAt, Resting, Early, Releasing
  <1>9. CalmThread(t)
    <2>1. \A k : t \notin Giving(k) /\ t \notin Verifying(k) /\ t \notin Standing(k)
      BY <1>1 DEF Giving, Verifying, Standing
    <2>2. \A k : t \notin Giving(k)' /\ t \notin Verifying(k)' /\ t \notin Standing(k)'
      BY <1>5 DEF Giving, Verifying, Standing
    <2> QED BY <1>1, <1>4, <1>5, <1>6, <2>1, <2>2 DEF CalmThread
  <1> QED BY <1>7, <1>8, <1>9, CalmThreadStep

LEMMA CalmRemoveArg ==
    ASSUME RefInv, NodeInv, wrong = {}, NEW t \in Threads, RemoveArg(t)
    PROVE  RefInv' /\ job'[t].node \in NodesOf(job[t].kern)
  <1>0. CountTypeOK /\ UseAt(t) BY DEF RefInv, UseInv
  <1>1. pc[t] = "remove" /\ Goto(t, "insert") BY DEF RemoveArg
  <1>2. job[t] \in Jobs /\ job[t].kern \in Kernels /\ job[t].launch = Nil /\ held[job[t].kern] > 0
    BY <1>0, <1>1 DEF CountTypeOK, UseAt, Releasing
  <1>3. PICK node \in NodesOf(job[t].kern) : job' = [job EXCEPT ![t].node = node]
    <2> DEFINE k   == job[t].kern
               tr  == Trail(job[t].lp)
               j   == Stop(tr, {x \in Nodes : x[2] >= job[t].index})
               hit == j # -1 /\ tr[j] # Nil /\ tr[j][2] = job[t].index
               node == IF hit THEN tr[j] ELSE <<k, job[t].index, t>>
    <2>1. job' = [job EXCEPT ![t].node = node] BY DEF RemoveArg
    <2>2. k \in Ids /\ job[t].lp \in NodesOf(k) \cup {Nil} BY <1>1, <1>2, ActorsApart DEF NodeInv
    <2>3. hit => tr[j] \in NodesOf(k)
      <3>1. hit => j \in 0 .. Fuel BY StopIs
      <3> QED BY <2>2, <3>1, TrailIn
    <2>4. <<k, job[t].index, t>> \in NodesOf(k)
      BY <1>1, <2>2 DEF NodesOf, Nodes, NodeInv
    <2> QED BY <2>1, <2>3, <2>4
  <1>4. /\ job' \in [Threads -> Jobs] /\ job'[t].node = node
        /\ job'[t].kern = job[t].kern /\ job'[t].launch = Nil
        /\ \A u \in Threads \ {t} : job'[u] = job[u]
    BY <1>0, <1>2, <1>3 DEF CountTypeOK, Jobs, NodesOf
  <1>5. /\ pc' \in [Actors -> Places] /\ pc'[t] = "insert"
        /\ \A a \in Actors \ {t} : pc'[a] = pc[a]
        /\ \A u \in Threads : pc'[u] \in ThreadPlaces
        /\ \A l \in Launches : pc'[l] = pc[l]
    BY <1>0, <1>1, GotoOK DEF ThreadPlaces
  <1>6. UNCHANGED <<live, refs, tmp, held, real, launch>> BY DEF RemoveArg, counts
  <1>7. CountTypeOK' BY <1>0, <1>4, <1>5, <1>6 DEF CountTypeOK, ThreadPlaces
  <1>8. UseAt(t)' /\ LaunchAt(t)'
    BY <1>2, <1>4, <1>5, <1>6, NoJobIs, ActorsApart DEF UseAt, LaunchAt, Resting, Early, Releasing
  <1>9. CalmThread(t)
    <2>1. \A k : t \notin Giving(k) /\ t \notin Verifying(k) /\ t \notin Standing(k)
      BY <1>1 DEF Giving, Verifying, Standing
    <2>2. \A k : t \notin Giving(k)' /\ t \notin Verifying(k)' /\ t \notin Standing(k)'
      BY <1>5 DEF Giving, Verifying, Standing
    <2>3. wrong' \subseteq {<<"endless", t>>} BY DEF RemoveArg
    <2>4. wrong' \subseteq BadLists BY <2>3, ActorsApart DEF BadLists
    <2> QED BY <1>1, <1>4, <1>5, <1>6, <2>1, <2>2, <2>4 DEF CalmThread
  <1>10. RefInv' BY <1>7, <1>8, <1>9, CalmThreadStep
  <1> QED BY <1>3, <1>4, <1>10

LEMMA CalmInsertArg ==
    ASSUME RefInv, wrong = {}, NEW t \in Threads, InsertArg(t)
    PROVE  RefInv'
  <1>0. CountTypeOK /\ UseAt(t) BY DEF RefInv, UseInv
  <1>1. pc[t] = "insert" /\ Goto(t, "idle") BY DEF InsertArg
  <1>2. job[t].launch = Nil BY <1>0, <1>1 DEF UseAt
  <1>3. job' = [job EXCEPT ![t] = NoJob] BY DEF InsertArg
  <1>4. /\ job' \in [Threads -> Jobs] /\ job'[t] = NoJob
        /\ \A u \in Threads \ {t} : job'[u] = job[u]
    BY <1>0, <1>3, NoJobIs DEF CountTypeOK
  <1>5. /\ pc' \in [Actors -> Places] /\ pc'[t] = "idle"
        /\ \A a \in Actors \ {t} : pc'[a] = pc[a]
        /\ \A u \in Threads : pc'[u] \in ThreadPlaces
        /\ \A l \in Launches : pc'[l] = pc[l]
    BY <1>0, <1>1, GotoOK DEF ThreadPlaces
  <1>6. UNCHANGED <<live, refs, tmp, held, real, launch>> BY DEF InsertArg, counts
  <1>7. CountTypeOK' BY <1>0, <1>4, <1>5, <1>6 DEF CountTypeOK, ThreadPlaces
  <1>8. UseAt(t)' /\ LaunchAt(t)' BY <1>4, <1>5, NoJobIs DEF UseAt, LaunchAt, Resting, Early
  <1>9. CalmThread(t)
    <2>1. \A k : t \notin Giving(k) /\ t \notin Verifying(k) /\ t \notin Standing(k)
      BY <1>1 DEF Giving, Verifying, Standing
    <2>2. \A k : t \notin Giving(k)' /\ t \notin Verifying(k)' /\ t \notin Standing(k)'
      BY <1>5 DEF Giving, Verifying, Standing
    <2>3. wrong' \subseteq {<<"endless", t>>} BY DEF InsertArg
    <2>4. wrong' \subseteq BadLists BY <2>3, ActorsApart DEF BadLists
    <2> QED BY <1>1, <1>2, <1>4, <1>5, <1>6, <2>1, <2>2, <2>4, NoJobIs DEF CalmThread
  <1> QED BY <1>7, <1>8, <1>9, CalmThreadStep

LEMMA CalmRetainKernel ==
    ASSUME RefInv, wrong = {}, NEW t \in Threads, NEW k \in Kernels, RetainKernel(t, k)
    PROVE  RefInv'
  <1>0. CountTypeOK /\ UseAt(t) BY DEF RefInv, UseInv
  <1>1. pc[t] = "idle" /\ Goto(t, "inc") /\ held[k] \in 1 .. (MaxHeld - 1) BY DEF RetainKernel
  <1>2. held[k] > 0 BY <1>1, RecordAssumption
  <1>3. PICK j \in Jobs : j.kern = k /\ j.launch = Nil /\ job' = [job EXCEPT ![t] = j]
    <2> DEFINE j == [NoJob EXCEPT !.kern = k]
    <2>1. j \in Jobs /\ j.kern = k /\ j.launch = Nil BY DEF NoJob, Jobs, Values
    <2> QED BY <2>1 DEF RetainKernel
  <1>4. /\ job' \in [Threads -> Jobs] /\ job'[t] = j
        /\ \A u \in Threads \ {t} : job'[u] = job[u]
    BY <1>0, <1>3 DEF CountTypeOK
  <1>5. /\ pc' \in [Actors -> Places] /\ pc'[t] = "inc"
        /\ \A a \in Actors \ {t} : pc'[a] = pc[a]
        /\ \A u \in Threads : pc'[u] \in ThreadPlaces
        /\ \A l \in Launches : pc'[l] = pc[l]
    BY <1>0, <1>1, GotoOK DEF ThreadPlaces
  <1>6. UNCHANGED <<live, refs, tmp, held, real, launch, wrong>> BY DEF RetainKernel, counts
  <1>7. CountTypeOK' BY <1>0, <1>4, <1>5, <1>6 DEF CountTypeOK, ThreadPlaces
  <1>8. UseAt(t)' /\ LaunchAt(t)'
    BY <1>2, <1>3, <1>4, <1>5, <1>6, NoJobIs, ActorsApart DEF UseAt, LaunchAt, Resting, Early, Releasing
  <1>9. CalmThread(t)
    <2>1. \A x : t \notin Giving(x) /\ t \notin Verifying(x) /\ t \notin Standing(x)
      BY <1>1 DEF Giving, Verifying, Standing
    <2>2. \A x : t \notin Giving(x)' /\ t \notin Verifying(x)'
      BY <1>5 DEF Giving, Verifying
    <2>3. \A x \in Ids : t \notin Standing(x)' BY <1>3, <1>4, ActorsApart DEF Standing
    <2> QED BY <1>1, <1>3, <1>4, <1>5, <1>6, <2>1, <2>2, <2>3 DEF CalmThread
  <1> QED BY <1>7, <1>8, <1>9, CalmThreadStep

LEMMA CalmDelPoisonKernel ==
    ASSUME RefInv, wrong = {}, NEW t \in Threads, DelPoisonKernel(t)
    PROVE  RefInv'
  <1>0. CountTypeOK /\ UseAt(t) /\ LaunchAt(t) BY DEF RefInv, UseInv
  <1>1. pc[t] = "clean" /\ Goto(t, "dec") BY DEF DelPoisonKernel
  <1>2. job[t].launch # Nil /\ job[t].kern \in Kernels /\ held[job[t].kern] > 0
    BY <1>0, <1>1 DEF UseAt, Releasing
  <1>5. /\ pc' \in [Actors -> Places] /\ pc'[t] = "dec"
        /\ \A a \in Actors \ {t} : pc'[a] = pc[a]
        /\ \A u \in Threads : pc'[u] \in ThreadPlaces
        /\ \A l \in Launches : pc'[l] = pc[l]
    BY <1>0, <1>1, GotoOK DEF ThreadPlaces
  <1>6. UNCHANGED <<live, refs, tmp, held, real, launch, job, wrong>> BY DEF DelPoisonKernel, counts
  <1>7. CountTypeOK' BY <1>0, <1>5, <1>6 DEF CountTypeOK, ThreadPlaces
  <1>8. UseAt(t)' /\ LaunchAt(t)'
    BY <1>0, <1>1, <1>2, <1>5, <1>6, NoJobIs DEF UseAt, LaunchAt, Resting, Early, Releasing
  <1>9. CalmThread(t)
    <2>1. \A k \in Ids : t \notin Giving(k) /\ t \notin Verifying(k)
      BY <1>1 DEF Giving, Verifying
    <2>2. \A k \in Ids : t \notin Giving(k)' /\ t \notin Verifying(k)'
      BY <1>2, <1>5, <1>6 DEF Giving, Verifying
    <2>3. \A k \in Ids : t \in Standing(k)' <=> t \in Standing(k)
      BY <1>1, <1>5, <1>6 DEF Standing
    <2> QED BY <1>1, <1>5, <1>6, <2>1, <2>2, <2>3 DEF CalmThread
  <1> QED BY <1>7, <1>8, <1>9, CalmThreadStep

\* A launch under way is made.
LEMMA UnderWay ==
    ASSUME RefInv, NEW t \in Threads, job[t].launch # Nil
    PROVE  /\ job[t].launch \in Launches /\ pc[t] # "idle" /\ job[t].kern \in Kernels
           /\ launch[job[t].launch] # NoLaunch
           /\ launch[job[t].launch].kern = job[t].kern
           /\ launch[job[t].launch].used \in {job[t].launch, job[t].kern}
           /\ Counted(t) = launch[job[t].launch].used
  <1> DEFINE l == job[t].launch
  <1>1. l \in Launches BY DEF RefInv, CountTypeOK, Jobs
  <1>2. pc[t] # "idle" BY NoJobIs DEF RefInv, UseInv, UseAt
  <1>3. job[t].kern \in Kernels /\ launch[l].kern = job[t].kern
    BY <1>2 DEF RefInv, UseInv, UseAt, LaunchAt, Resting, Early
  <1>4. launch[l] # NoLaunch
    <2>1. NoLaunch.kern = Nil BY DEF NoLaunch
    <2> QED BY <1>3, <2>1, ActorsApart
  <1>5. launch[l].used \in {l, launch[l].kern} BY <1>1, <1>4 DEF RefInv, UseInv, MadeAt
  <1> QED BY <1>1, <1>2, <1>3, <1>4, <1>5, CountedIs

\* The callback that the thread has run itself is over.
LEMMA CalmCheckDone ==
    ASSUME RefInv, wrong = {}, NEW t \in Threads, CheckDone(t)
    PROVE  RefInv'
  <1>0. CountTypeOK /\ UseAt(t) /\ LaunchAt(t) BY DEF RefInv, UseInv
  <1>a. PICK l : l = job[t].launch OBVIOUS
  <1>b. PICK p : p = AfterCheck(l) OBVIOUS
  <1>1. /\ pc[t] = "wait" /\ pc[l] = "idle" /\ Goto(t, p) /\ EndJob(t, p)
        /\ UNCHANGED <<live, refs, tmp, held, real, launch, wrong>>
    BY <1>a, <1>b DEF CheckDone, Outstanding, counts
  <1>2. /\ l # Nil /\ job[t].kern \in Kernels /\ held[job[t].kern] > 0
        /\ l \in Launches /\ launch[l].kern = job[t].kern
    BY <1>0, <1>1, <1>a, UnderWay DEF UseAt, LaunchAt, Releasing
  <1>3. p = (IF launch[l].used = l THEN "clean" ELSE "idle") BY <1>b DEF AfterCheck
  <1>4. /\ job' \in [Threads -> Jobs] /\ \A u \in Threads \ {t} : job'[u] = job[u]
        /\ job'[t] = IF p = "idle" THEN NoJob ELSE job[t]
    BY <1>0, <1>1, NoJobIs DEF EndJob, CountTypeOK
  <1>5. /\ pc' \in [Actors -> Places] /\ pc'[t] = p
        /\ \A a \in Actors \ {t} : pc'[a] = pc[a]
        /\ \A u \in Threads : pc'[u] \in ThreadPlaces
        /\ \A m \in Launches : pc'[m] = pc[m]
    BY <1>0, <1>1, <1>3, GotoOK DEF ThreadPlaces
  <1>7. CountTypeOK' BY <1>0, <1>1, <1>4, <1>5 DEF CountTypeOK
  <1>8. UseAt(t)' /\ LaunchAt(t)'
    <2>1. CASE p = "idle" BY <1>4, <1>5, <2>1, NoJobIs DEF UseAt, LaunchAt
    <2>2. CASE p = "clean" /\ launch[l].used = l
      <3>1. pc'[t] = "clean" /\ job'[t] = job[t] /\ pc'[l] = "idle" BY <1>1, <1>2, <1>4, <1>5, <2>2
      <3>2. UseAt(t)' BY <1>0, <1>1, <1>2, <1>a, <3>1 DEF UseAt, Releasing
      <3>3. LaunchAt(t)' BY <1>1, <1>2, <1>a, <2>2, <3>1 DEF LaunchAt, Resting, Early
      <3> QED BY <3>2, <3>3
    <2> QED BY <1>3, <2>1, <2>2
  <1>9. CalmThread(t)
    <2>1. \A k \in Ids : t \notin Giving(k) /\ t \notin Verifying(k)
      BY <1>1 DEF Giving, Verifying
    <2>2. \A k \in Ids : t \notin Giving(k)' /\ t \notin Verifying(k)'
      BY <1>3, <1>5 DEF Giving, Verifying
    <2>3. ASSUME NEW k \in live PROVE t \in Standing(k)' <=> t \in Standing(k)
      <3>1. k # Nil BY <1>0, ActorsApart DEF CountTypeOK
      <3>2. CASE p = "idle"
        <4>1. t \notin Standing(k)' BY <1>5, <3>2 DEF Standing
        <4>2. k # l BY <1>2, <1>3, <3>2 DEF RefInv, KeptInv
        <4> QED BY <1>a, <4>1, <4>2 DEF Standing
      <3>3. CASE p = "clean" BY <1>1, <1>4, <1>5, <3>3 DEF Standing
      <3> QED BY <1>3, <3>2, <3>3
    <2>4. p \in {"idle", "clean"} /\ job'[t].launch \in {Nil, job[t].launch} BY <1>3, <1>4, NoJobIs
    <2>5. wrong' \subseteq BadLists BY <1>1
    <2>6. \A u \in Threads \ {t} : job'[u] = job[u] BY <1>4
    <2> QED BY <1>1, <1>5, <2>1, <2>2, <2>3, <2>4, <2>5, <2>6 DEF CalmThread
  <1> QED BY <1>7, <1>8, <1>9, CalmThreadStep

\* A step of a callback that has its reference before and after.
CalmCallback(l) ==
    /\ UNCHANGED <<live, refs, tmp, held, real, launch, job>>
    /\ \A a \in Actors \ {l} : pc'[a] = pc[a]
    /\ wrong' \subseteq BadLists
    /\ pc[l] \in {"due", "walk"} /\ pc'[l] \in {"due", "walk", "dec"}

LEMMA CalmCallbackStep ==
    ASSUME RefInv, NEW l \in Launches, CalmCallback(l), CountTypeOK'
    PROVE  RefInv'
  <1>0. CountTypeOK /\ UseInv /\ StoreInv /\ AbsentInv /\ CountInv /\ KeptInv BY DEF RefInv
  <1>1. \A u \in Threads : SameThread(u) BY ActorsApart DEF CalmCallback, SameThread
  <1>2. \A a \in Actors : Counted(a)' = Counted(a) BY DEF CalmCallback, Counted
  <1>3. Reporting(l) /\ Reporting(l)' /\ pc[l] # "idle" BY DEF CalmCallback, Reporting
  <1>4. UseInv'
    <2>1. ASSUME NEW u \in Threads PROVE UseAt(u)' /\ LaunchAt(u)'
      <3>1. SameThread(u) BY <1>1
      <3>2. pc[u] # "idle" /\ ~Releasing(u) => held'[job[u].kern] > 0
        BY <1>0 DEF UseInv, UseAt, CalmCallback
      <3>3. Resting(u) /\ job[u].launch # Nil => pc'[job[u].launch] = pc[job[u].launch]
        BY <1>0, <1>3, ActorsApart DEF UseInv, LaunchAt, Resting, Early, CalmCallback, CountTypeOK, Jobs
      <3>4. Early(u) /\ job[u].launch # Nil => launch[job[u].launch].used \in live'
        BY <1>0 DEF UseInv, LaunchAt, Resting, Early, CalmCallback
      <3> QED BY <3>1, <3>2, <3>3, <3>4, OtherThread
    <2>2. ASSUME NEW m \in Launches PROVE MadeAt(m)'
      <3>1. MadeAt(m) BY <1>0 DEF UseInv
      <3>2. CASE m = l BY <1>3, <3>1, <3>2 DEF MadeAt, CalmCallback
      <3>3. CASE m # l BY <3>1, <3>3, ActorsApart DEF MadeAt, CalmCallback
      <3> QED BY <3>2, <3>3
    <2>3. \A u, v \in Threads : job'[u].launch # Nil /\ job'[u].launch = job'[v].launch => u = v
      BY <1>0 DEF UseInv, CalmCallback
    <2> QED BY <2>1, <2>2, <2>3 DEF UseInv
  <1>5. StoreInv'
    <2>1. StoreAt(l)' /\ ~Counting(l)' BY DEF StoreAt, Counting, CalmCallback
    <2>2. ASSUME NEW b \in Actors \ {l}
          PROVE  /\ pc'[b] = pc[b] /\ tmp'[b] = tmp[b] /\ Counted(b)' = Counted(b)
                 /\ live' = live /\ refs' = refs
      BY <1>2 DEF CalmCallback
    <2> QED BY <1>0, <2>1, <2>2, OtherStores
  <1>6. AbsentInv'
    <2> SUFFICES ASSUME NEW k \in Kernels \ live PROVE AbsentAt(k)'
      BY DEF AbsentInv, CalmCallback
    <2>1. AbsentAt(k) BY <1>0 DEF AbsentInv
    <2>2. \A u \in Threads : pc'[u] = pc[u] BY ActorsApart DEF CalmCallback
    <2> QED BY <2>1, <2>2 DEF AbsentAt, CalmCallback, Releasing
  <1>7. \A k \in Ids : Owed(k)' = Owed(k)
    <2> TAKE k \in Ids
    <2>1. OnlyMove(Nil, l)
      <3>1. ASSUME NEW u \in Threads \ {Nil}
            PROVE  /\ pc'[u] = pc[u] /\ job'[u] = job[u]
                   /\ pc[u] = "verify" => Counted(u)' = Counted(u)
        BY <1>1, <1>2, ActorsApart DEF SameThread
      <3>2. ASSUME NEW m \in Launches \ {l}
            PROVE  /\ pc'[m] = pc[m]
                   /\ Reporting(m) => launch'[m].used = launch[m].used
        BY ActorsApart DEF CalmCallback
      <3> QED BY <3>1, <3>2, Zenon DEF OnlyMove
    <2>3. Owed(k)' = Owed(k) + (Base(k)' - Base(k)) + (Share(k, Nil, l)' - Share(k, Nil, l))
      BY <1>0, <2>1, OwedMoves
    <2>4. Base(k)' = Base(k) /\ Base(k) \in Nat BY <1>0 DEF CalmCallback, Base, CountTypeOK
    <2>5. l \in Reports(k)' <=> l \in Reports(k) BY <1>3 DEF Reports, CalmCallback
    <2>6. \A u \in Threads : Counted(u)' = Counted(u) /\ pc'[u] = pc[u] /\ job'[u] = job[u]
      BY <1>2, ActorsApart DEF CalmCallback
    <2>7. Giving(k)' = Giving(k) /\ Standing(k)' = Standing(k) /\ Verifying(k)' = Verifying(k)
      BY <2>6 DEF Giving, Standing, Verifying
    <2>8. Share(k, Nil, l)' = Share(k, Nil, l) /\ Share(k, Nil, l) \in Nat
      BY <2>5, <2>7 DEF Share, OneOf
    <2> QED BY <1>0, <2>3, <2>4, <2>8, OwedNat
  <1>8. CountInv' BY <1>0, <1>7 DEF CountInv, CalmCallback, CountTypeOK
  <1>9. KeptInv'
    <2>1. \A m \in Launches : Reporting(m)' => launch'[m].used \in live'
      <3> TAKE m \in Launches
      <3>1. Reporting(m)' => Reporting(m)
        BY <1>3, ActorsApart DEF Reporting, CalmCallback
      <3> QED BY <1>0, <3>1 DEF KeptInv, CalmCallback
    <2>2. ASSUME NEW m \in live' \cap Launches
          PROVE  Owed(m)' > 0 \/ \E a \in Actors : pc'[a] = "drop" /\ Counted(a)' = m
      <3>1. Owed(m) > 0 \/ \E a \in Actors : pc[a] = "drop" /\ Counted(a) = m
        BY <1>0 DEF KeptInv, CalmCallback
      <3>2. ASSUME NEW a \in Actors, pc[a] = "drop", Counted(a) = m
            PROVE  pc'[a] = "drop" /\ Counted(a)' = m
        BY <3>2, <1>2 DEF CalmCallback
      <3> QED BY <1>7, <3>1, <3>2, ActorsApart
    <2>3. \A m \in live' \cap Launches : launch'[m].used = m BY <1>0 DEF KeptInv, CalmCallback
    <2> QED BY <2>1, <2>2, <2>3, OnlyLists DEF KeptInv, CalmCallback
  <1> QED BY <1>4, <1>5, <1>6, <1>8, <1>9 DEF RefInv

LEMMA CalmCallbackNext ==
    ASSUME RefInv, wrong = {}, NEW l \in Launches, Callback(l)
    PROVE  RefInv'
  <1>0. CountTypeOK BY DEF RefInv
  <1>1. UNCHANGED <<live, refs, tmp, held, real, launch, job>>
    BY DEF Callback, ReportNext, NameBuffer, counts
  <1>2. /\ pc[l] \in {"due", "walk"}
        /\ \/ UNCHANGED pc
           \/ \E p \in {"due", "walk", "dec"} : Goto(l, p)
    BY DEF Callback, ReportNext, NameBuffer
  <1>3. l \in Actors /\ pc \in [Actors -> Places] BY <1>0, ActorsApart DEF CountTypeOK
  <1>4. /\ pc' \in [Actors -> Places]
        /\ pc'[l] \in {"due", "walk", "dec"}
        /\ \A a \in Actors \ {l} : pc'[a] = pc[a]
    BY <1>2, <1>3 DEF Goto, Places, ThreadPlaces
  <1>5. CountTypeOK'
    <2>1. \A t \in Threads : pc'[t] \in ThreadPlaces BY <1>0, <1>4, ActorsApart DEF CountTypeOK
    <2>2. \A m \in Launches : pc'[m] \in {"idle", "due", "walk", "dec", "decstore", "drop"}
      BY <1>0, <1>4, ActorsApart DEF CountTypeOK
    <2> QED BY <1>0, <1>1, <1>4, <2>1, <2>2 DEF CountTypeOK
  <1>6. wrong' \subseteq {<<"freed", l>>} BY DEF Callback, ReportNext, NameBuffer
  <1>7. wrong' \subseteq BadLists BY <1>6, ActorsApart DEF BadLists
  <1>8. CalmCallback(l) BY <1>1, <1>2, <1>4, <1>7 DEF CalmCallback
  <1> QED BY <1>5, <1>8, CalmCallbackStep

-----------------------------------------------------------------------------
(***************************************************************************)
(* Steps that change a count or a record.                                  *)
(***************************************************************************)
\* Only thread t and the callback of l move; no count that somebody is about to
\* store changes, and no record goes to which a reference is owed.
Quiet(t, l) ==
    /\ \A u \in Threads \ {t} : pc'[u] = pc[u] /\ job'[u] = job[u] /\ tmp'[u] = tmp[u]
    /\ \A m \in Launches \ {l} : pc'[m] = pc[m] /\ tmp'[m] = tmp[m]
    /\ \A m \in Launches : launch[m] # NoLaunch => launch'[m] = launch[m]
    /\ \A k \in live \ live' :
          Owed(k) = 0 /\ \A b \in Actors \ {t, l} : Counting(b) => Counted(b) # k
    /\ \A u \in Threads \ {t} : pc[u] # "idle" /\ ~Releasing(u) => held'[job[u].kern] > 0
    /\ l \in Launches => pc[l] # "idle" \/ (t \in Threads /\ job[t].launch = l)
    /\ \A b \in Actors \ {t, l} : Counting(b) => refs'[Counted(b)] = refs[Counted(b)]

\* A record that is used is owed a reference.
LEMMA OwedUsed ==
    ASSUME RefInv, NEW k \in Ids, Owed(k) = 0
    PROVE  /\ \A t \in Threads : pc[t] \in {"inc", "incstore", "verify"} => Counted(t) # k
           /\ \A l \in Launches : Reporting(l) => launch[l].used # k
  <1>0. CountTypeOK BY DEF RefInv
  <1>1. /\ Verifying(k) = {} /\ Reports(k) = {}
        /\ k \in Kernels => held[k] = 0 /\ Giving(k) = {}
        /\ k \notin Kernels => Standing(k) = {}
    BY <1>0, OwedAny
  <1>2. \A l \in Launches : Reporting(l) => launch[l].used # k BY <1>1 DEF Reports
  <1>3. ASSUME NEW t \in Threads, pc[t] \in {"inc", "incstore", "verify"}, Counted(t) = k
        PROVE  FALSE
    <2>1. job[t].kern \in Kernels /\ held[job[t].kern] > 0
      BY <1>3 DEF RefInv, UseInv, UseAt, Releasing
    <2>2. CASE job[t].launch = Nil BY <1>1, <1>3, <2>1, <2>2, CountedIs
    <2>3. CASE job[t].launch # Nil
      <3>1. k \in {job[t].launch, job[t].kern} /\ job[t].launch \in Launches
        BY <1>3, <2>3, UnderWay
      <3>2. CASE k = job[t].launch BY <1>1, <1>3, <3>1, <3>2, ActorsApart DEF Standing
      <3>3. CASE k = job[t].kern BY <1>1, <2>1, <3>3
      <3> QED BY <3>1, <3>2, <3>3
    <2> QED BY <2>2, <2>3
  <1> QED BY <1>2, <1>3

LEMMA QuietOthers ==
    ASSUME RefInv, CountTypeOK', NEW t, NEW l, Quiet(t, l)
    PROVE  /\ \A u \in Threads \ {t} : SameThread(u) /\ Counted(u)' = Counted(u)
           /\ \A m \in Launches : pc[m] # "idle" => Counted(m)' = Counted(m)
           /\ \A u \in Threads \ {t} : UseAt(u)' /\ LaunchAt(u)'
           /\ OnlyMove(t, l)
           /\ \A m \in Launches \ {l} : Reporting(m)' => launch'[m].used \in live'
  <1>1. ASSUME NEW u \in Threads \ {t} PROVE SameThread(u) /\ Counted(u)' = Counted(u)
    <2>1. job[u].launch # Nil => launch'[job[u].launch] = launch[job[u].launch]
      BY UnderWay DEF Quiet
    <2>2. SameThread(u) BY <2>1 DEF Quiet, SameThread
    <2> QED BY <2>2, SameCounted
  <1>2. ASSUME NEW m \in Launches, pc[m] # "idle"
        PROVE  launch[m] # NoLaunch /\ launch'[m] = launch[m] /\ Counted(m)' = Counted(m)
    <2>1. launch[m].kern # Nil BY <1>2, ActorsApart DEF RefInv, UseInv, MadeAt
    <2>2. launch[m] # NoLaunch BY <2>1 DEF NoLaunch
    <2>3. launch'[m] = launch[m] BY <2>2 DEF Quiet
    <2> QED BY <1>2, <2>2, <2>3 DEF Counted
  <1>3. ASSUME NEW u \in Threads \ {t} PROVE UseAt(u)' /\ LaunchAt(u)'
    <2>1. SameThread(u) BY <1>1
    <2>2. pc[u] # "idle" /\ ~Releasing(u) => held'[job[u].kern] > 0 BY DEF Quiet
    <2>3. ASSUME Resting(u), job[u].launch # Nil
          PROVE  pc'[job[u].launch] = pc[job[u].launch]
      <3> DEFINE m == job[u].launch
      <3>1. m \in Launches BY <2>3, UnderWay
      <3>2. pc[m] = "idle" BY <2>3 DEF RefInv, UseInv, LaunchAt, Resting, Early
      <3>3. m # l BY <2>3, <3>1, <3>2 DEF Quiet, RefInv, UseInv
      <3> QED BY <3>1, <3>3 DEF Quiet
    <2>4. ASSUME Early(u), job[u].launch # Nil
          PROVE  launch[job[u].launch].used \in live'
      <3> DEFINE m == job[u].launch
      <3>1. m \in Launches /\ Counted(u) = launch[m].used BY <2>4, UnderWay
      <3>2. launch[m].used \in live BY <2>4 DEF RefInv, UseInv, LaunchAt, Resting, Early
      <3> SUFFICES ASSUME launch[m].used \notin live' PROVE FALSE OBVIOUS
      <3>3. Owed(launch[m].used) = 0 BY <3>2 DEF Quiet
      <3>4. launch[m].used \in Ids BY <3>2 DEF RefInv, CountTypeOK
      <3> QED BY <2>4, <3>1, <3>3, <3>4, OwedUsed DEF Early
    <2> QED BY <2>1, <2>2, <2>3, <2>4, OtherThread
  <1>4. OnlyMove(t, l)
    <2>1. ASSUME NEW u \in Threads \ {t}
          PROVE  /\ pc'[u] = pc[u] /\ job'[u] = job[u]
                 /\ pc[u] = "verify" => Counted(u)' = Counted(u)
      BY <1>1 DEF SameThread
    <2>2. ASSUME NEW m \in Launches \ {l}
          PROVE  /\ pc'[m] = pc[m]
                 /\ Reporting(m) => launch'[m].used = launch[m].used
      BY <1>2 DEF Quiet, Reporting
    <2> QED BY <2>1, <2>2, Zenon DEF OnlyMove
  <1>5. ASSUME NEW m \in Launches \ {l}, Reporting(m)' PROVE launch'[m].used \in live'
    <2>1. pc'[m] = pc[m] BY DEF Quiet
    <2>2. Reporting(m) /\ pc[m] # "idle" BY <1>5, <2>1 DEF Reporting
    <2>3. launch'[m].used = launch[m].used /\ launch[m].used \in live
      BY <1>2, <2>2 DEF RefInv, KeptInv
    <2>4. launch[m].used \in live'
      <3> SUFFICES ASSUME launch[m].used \notin live' PROVE FALSE OBVIOUS
      <3>1. Owed(launch[m].used) = 0 BY <2>3 DEF Quiet
      <3>2. launch[m].used \in Ids BY <2>3 DEF RefInv, CountTypeOK
      <3> QED BY <2>2, <3>1, <3>2, OwedUsed
    <2> QED BY <2>3, <2>4
  <1> QED BY <1>1, <1>2, <1>3, <1>4, <1>5

\* What is left to show of a quiet step.
LEMMA QuietStep ==
    ASSUME RefInv, CountTypeOK', NEW t, NEW l, Quiet(t, l),
           t \in Threads => UseAt(t)' /\ LaunchAt(t)',
           t \in Threads => \A u \in Threads \ {t} : job'[t].launch # Nil => job'[t].launch # job[u].launch,
           \A m \in Launches : launch[m] = NoLaunch => MadeAt(m)',
           NEW a \in {t, l},
           \A b \in {t, l} \ {a} : ~Counting(b)',
           a \in Actors => StoreAt(a)',
           a \in Actors /\ Counting(a)' => \A b \in Actors \ {a} : Counting(b) => Counted(b) # Counted(a)',
           AbsentInv', CountInv',
           l \in Launches /\ Reporting(l)' => launch'[l].used \in live',
           \A m \in live' \cap Launches :
              /\ Owed(m)' > 0 \/ \E b \in Actors : pc'[b] = "drop" /\ Counted(b)' = m
              /\ launch'[m].used = m,
           wrong' \subseteq BadLists
    PROVE  RefInv'
  <1>0. /\ \A u \in Threads \ {t} : SameThread(u) /\ Counted(u)' = Counted(u)
        /\ \A m \in Launches : pc[m] # "idle" => Counted(m)' = Counted(m)
        /\ \A u \in Threads \ {t} : UseAt(u)' /\ LaunchAt(u)'
        /\ \A m \in Launches \ {l} : Reporting(m)' => launch'[m].used \in live'
    BY QuietOthers
  <1>1. UseInv'
    <2>1. \A u \in Threads : UseAt(u)' /\ LaunchAt(u)' BY <1>0
    <2>2. ASSUME NEW m \in Launches PROVE MadeAt(m)'
      <3>1. CASE launch[m] = NoLaunch BY <3>1
      <3>2. CASE launch[m] # NoLaunch
        <4>1. launch'[m] = launch[m] BY <3>2 DEF Quiet
        <4> QED BY <3>2, <4>1 DEF RefInv, UseInv, MadeAt
      <3> QED BY <3>1, <3>2
    <2>3. ASSUME NEW u \in Threads, NEW v \in Threads,
                 job'[u].launch # Nil, job'[u].launch = job'[v].launch
          PROVE  u = v
      <3>1. CASE u # t /\ v # t
        <4>1. job'[u] = job[u] /\ job'[v] = job[v] BY <3>1 DEF Quiet
        <4> QED BY <2>3, <4>1 DEF RefInv, UseInv
      <3>2. CASE u = t /\ v # t
        <4>1. job'[v] = job[v] BY <3>2 DEF Quiet
        <4> QED BY <2>3, <3>2, <4>1
      <3>3. CASE u # t /\ v = t
        <4>1. job'[u] = job[u] BY <3>3 DEF Quiet
        <4> QED BY <2>3, <3>3, <4>1
      <3> QED BY <3>1, <3>2, <3>3
    <2> QED BY <2>1, <2>2, <2>3 DEF UseInv
  <1>2. StoreInv'
    <2>1. ASSUME NEW b \in Actors \ {a}, Counting(b)'
          PROVE  /\ pc'[b] = pc[b] /\ tmp'[b] = tmp[b] /\ Counted(b)' = Counted(b)
                 /\ Counted(b) \in live => Counted(b) \in live' /\ refs'[Counted(b)] = refs[Counted(b)]
      <3>1. b \notin {t, l} BY <2>1
      <3>2. pc'[b] = pc[b] /\ tmp'[b] = tmp[b] BY <3>1, ActorsApart DEF Quiet
      <3>3. Counting(b) /\ pc[b] # "idle" BY <2>1, <3>2 DEF Counting
      <3>4. Counted(b)' = Counted(b) BY <1>0, <3>1, <3>3, ActorsApart
      <3>5. refs'[Counted(b)] = refs[Counted(b)] BY <3>1, <3>3 DEF Quiet
      <3>6. Counted(b) \in live => Counted(b) \in live' BY <3>1, <3>3 DEF Quiet
      <3> QED BY <3>2, <3>4, <3>5, <3>6
    <2>2. StoreInv BY DEF RefInv
    <2> QED BY <2>1, <2>2, OtherStores
  <1>3. KeptInv' BY <1>0, OnlyLists DEF KeptInv
  <1> QED BY <1>1, <1>2, <1>3 DEF RefInv

\* What is owed after a quiet step.
LEMMA QuietOwed ==
    ASSUME RefInv, CountTypeOK', NEW t, NEW l, Quiet(t, l), NEW k \in Ids
    PROVE  /\ Owed(k) \in Nat /\ Owed(k)' \in Nat /\ Base(k) \in Nat /\ Base(k)' \in Nat
           /\ Share(k, t, l) \in Nat /\ Share(k, t, l)' \in Nat
           /\ Owed(k)' = Owed(k) + (Base(k)' - Base(k)) + (Share(k, t, l)' - Share(k, t, l))
  <1>0. CountTypeOK BY DEF RefInv
  <1>1. Owed(k)' = Owed(k) + (Base(k)' - Base(k)) + (Share(k, t, l)' - Share(k, t, l))
    BY <1>0, QuietOthers, OwedMoves
  <1>2. Base(k) \in Nat /\ Base(k)' \in Nat BY <1>0 DEF Base, CountTypeOK
  <1>3. Share(k, t, l) \in Nat /\ Share(k, t, l)' \in Nat BY DEF Share, OneOf
  <1>4. Owed(k) \in Nat BY <1>0, OwedNat
  <1>5. Owed(k)' \in Nat
    <2>1. CountTypeOK' => (Owed(k) \in Nat)' BY OwedNat, PTL
    <2> QED BY <2>1
  <1> QED BY <1>1, <1>2, <1>3, <1>4, <1>5

\* A kernel without a record that the application has: nobody else does.
LEMMA AbsentOwed ==
    ASSUME RefInv, NEW k \in Kernels \ live, held[k] > 0
    PROVE  Owed(k) = 1 /\ held[k] = 1
  <1>0. CountTypeOK /\ AbsentAt(k) BY DEF RefInv, AbsentInv
  <1>1. held[k] = 1 BY <1>0 DEF AbsentAt
  <1>2. Giving(k) = {} BY <1>0, <1>1 DEF AbsentAt, Giving, Releasing
  <1>3. Standing(k) = {} BY <1>0, ActorsApart DEF Standing, CountTypeOK, Jobs
  <1>4. Verifying(k) = {}
    <2>1. ASSUME NEW t \in Threads, pc[t] = "verify" PROVE Counted(t) \in live
      <3>1. job[t].launch # Nil BY <2>1 DEF RefInv, UseInv, UseAt
      <3> QED BY <2>1, <3>1, UnderWay DEF RefInv, UseInv, LaunchAt, Resting, Early
    <2> QED BY <2>1 DEF Verifying
  <1>5. Reports(k) = {} BY DEF Reports, RefInv, KeptInv
  <1>6. Owed(k) = Base(k) BY <1>0, <1>2, <1>3, <1>4, <1>5, OwedNone
  <1> QED BY <1>1, <1>6 DEF Base

\* A step of one actor on one count, which adds no record and takes none away.
LoneStep(a) ==
    /\ UNCHANGED <<live, real, launch, wrong>>
    /\ \A b \in Actors \ {a} : pc'[b] = pc[b] /\ tmp'[b] = tmp[b]
    /\ \A u \in Threads \ {a} : job'[u] = job[u]
    /\ a \in Threads => job'[a].launch \in {Nil, job[a].launch}
    /\ pc[a] # "idle"
    /\ \A k \in Kernels : held'[k] >= held[k]
    /\ \A k \in Ids \ {Counted(a)} : refs'[k] = refs[k]
    /\ \/ refs'[Counted(a)] = refs[Counted(a)]
       \/ Counting(a)

LEMMA LoneQuiet ==
    ASSUME RefInv, CountTypeOK', NEW a \in Actors, LoneStep(a)
    PROVE  Quiet(a, a)
  <1>0. CountTypeOK BY DEF RefInv
  <1>1. \A u \in Threads \ {a} : pc[u] # "idle" /\ ~Releasing(u) => held'[job[u].kern] > 0
    <2> TAKE u \in Threads \ {a}
    <2> HAVE pc[u] # "idle" /\ ~Releasing(u)
    <2>1. job[u].kern \in Kernels /\ held[job[u].kern] > 0 BY DEF RefInv, UseInv, UseAt
    <2>2. held[job[u].kern] \in Nat /\ held'[job[u].kern] \in Nat BY <1>0, <2>1 DEF CountTypeOK
    <2> QED BY <2>1, <2>2 DEF LoneStep
  <1>2. ASSUME NEW b \in Actors \ {a}, Counting(b) PROVE refs'[Counted(b)] = refs[Counted(b)]
    <2>1. Counted(b) \in Ids BY <1>2, CountedOK DEF Counting
    <2>2. CASE Counted(b) # Counted(a) BY <2>1, <2>2 DEF LoneStep
    <2>3. CASE Counted(b) = Counted(a)
      <3>1. ~Counting(a) BY <1>2, <2>3 DEF RefInv, StoreInv, Counting
      <3> QED BY <2>3, <3>1 DEF LoneStep
    <2> QED BY <2>2, <2>3
  <1> QED BY <1>1, <1>2, ActorsApart DEF Quiet, LoneStep

LEMMA LoneSteps ==
    ASSUME RefInv, wrong = {}, CountTypeOK', NEW a \in Actors, LoneStep(a),
           a \in Threads => UseAt(a)' /\ LaunchAt(a)',
           a \in Launches /\ Reporting(a)' => Reporting(a),
           StoreAt(a)',
           Counting(a)' => \A b \in Actors \ {a} : Counting(b) => Counted(b) # Counted(a)',
           \A k \in Kernels \ live : AbsentAt(k)',
           \A k \in live : refs'[k] = refs[k] + (Base(k)' - Base(k)) + (Share(k, a, a)' - Share(k, a, a)),
           \A m \in live \cap Launches :
              Owed(m)' < Owed(m) \/ (pc[a] = "drop" /\ Counted(a) = m) =>
                 Owed(m)' > 0 \/ (pc'[a] = "drop" /\ Counted(a)' = m)
    PROVE  RefInv'
  <1>0. CountTypeOK BY DEF RefInv
  <1>1. Quiet(a, a) BY LoneQuiet
  <1>2. AbsentInv' BY DEF AbsentInv, LoneStep
  <1>3. CountInv'
    <2> SUFFICES ASSUME NEW k \in live PROVE refs'[k] = Owed(k)' BY DEF CountInv, LoneStep
    <2>1. k \in Ids BY <1>0 DEF CountTypeOK
    <2>2. refs[k] = Owed(k) BY DEF RefInv, CountInv
    <2> QED BY <1>1, <2>1, <2>2, QuietOwed
  <1>4. ASSUME NEW m \in live' \cap Launches
        PROVE  /\ Owed(m)' > 0 \/ \E b \in Actors : pc'[b] = "drop" /\ Counted(b)' = m
               /\ launch'[m].used = m
    <2>1. m \in live \cap Launches /\ m \in Ids BY ActorsApart DEF LoneStep
    <2>2. launch'[m].used = m BY <2>1 DEF RefInv, KeptInv, LoneStep
    <2>3. CASE Owed(m)' < Owed(m) \/ (pc[a] = "drop" /\ Counted(a) = m) BY <2>1, <2>2, <2>3
    <2>4. CASE ~(Owed(m)' < Owed(m)) /\ ~(pc[a] = "drop" /\ Counted(a) = m)
      <3>1. Owed(m) \in Nat /\ Owed(m)' \in Nat BY <1>1, <2>1, QuietOwed
      <3>2. CASE Owed(m) > 0 BY <2>2, <2>4, <3>1, <3>2
      <3>3. CASE ~(Owed(m) > 0)
        <4>1. PICK b \in Actors : pc[b] = "drop" /\ Counted(b) = m BY <2>1, <3>3 DEF RefInv, KeptInv
        <4>2. b # a BY <2>4, <4>1
        <4>3. pc'[b] = "drop" BY <4>1, <4>2 DEF LoneStep
        <4>4. Counted(b)' = m BY <1>1, <4>1, <4>2, QuietOthers, ActorsApart
        <4> QED BY <2>2, <4>3, <4>4
      <3> QED BY <3>2, <3>3
    <2> QED BY <2>3, <2>4
  <1>5. a \in Threads => \A u \in Threads \ {a} : job'[a].launch # Nil => job'[a].launch # job[u].launch
    BY DEF RefInv, UseInv, LoneStep
  <1>6. \A m \in Launches : launch[m] = NoLaunch => MadeAt(m)'
    <2> TAKE m \in Launches
    <2> HAVE launch[m] = NoLaunch
    <2>1. NoLaunch.kern = Nil BY DEF NoLaunch
    <2>2. pc[m] = "idle" BY <2>1, ActorsApart DEF RefInv, UseInv, MadeAt
    <2>3. m # a BY <2>2 DEF LoneStep
    <2> QED BY <2>2, <2>3, ActorsApart DEF MadeAt, LoneStep
  <1>7. a \in Launches /\ Reporting(a)' => launch'[a].used \in live'
    BY DEF RefInv, KeptInv, LoneStep
  <1>8. wrong' = {} BY DEF LoneStep
  <1> QED BY <1>1, <1>2, <1>3, <1>4, <1>5, <1>6, <1>7, <1>8, QuietStep

LEMMA KeepsIncLive ==
    ASSUME RefInv, wrong = {}, CountsApart', NEW t \in Threads, Inc(t), Counted(t) \in live
    PROVE  RefInv'
  <1>0. CountTypeOK /\ UseAt(t) /\ LaunchAt(t) BY DEF RefInv, UseInv
  <1> DEFINE c == Counted(t)
  <1>1. /\ pc[t] = "inc" /\ ReadCount(t, c) /\ Goto(t, "incstore")
        /\ tmp' = [tmp EXCEPT ![t] = refs[c] + 1]
        /\ UNCHANGED <<live, refs, job, held, real, launch, wrong>>
    BY DEF Inc
  <1>2. c \in Ids /\ t \in Actors /\ t \notin Launches BY <1>0, ActorsApart DEF CountTypeOK
  <1>3. tmp' \in [Actors -> Int] /\ tmp'[t] = refs[c] + 1 /\ \A b \in Actors \ {t} : tmp'[b] = tmp[b]
    BY <1>0, <1>1, <1>2 DEF CountTypeOK
  <1>4. /\ pc' \in [Actors -> Places] /\ pc'[t] = "incstore"
        /\ \A a \in Actors \ {t} : pc'[a] = pc[a]
        /\ \A u \in Threads : pc'[u] \in ThreadPlaces
        /\ \A l \in Launches : pc'[l] = pc[l]
    BY <1>0, <1>1, GotoOK DEF ThreadPlaces
  <1>5. CountTypeOK' BY <1>0, <1>1, <1>3, <1>4 DEF CountTypeOK
  <1>6. \A k \in Kernels : held'[k] >= held[k] BY <1>0, <1>1 DEF CountTypeOK
  <1>7. LoneStep(t) BY <1>1, <1>3, <1>4, <1>6, ActorsApart DEF LoneStep
  <1>8. UseAt(t)' /\ LaunchAt(t)'
    <2>1. UseAt(t)' BY <1>0, <1>1, <1>4 DEF UseAt, Releasing
    <2>2. job[t].launch # Nil => job[t].launch \in Launches BY UnderWay
    <2>3. LaunchAt(t)' BY <1>0, <1>1, <1>4, <2>2 DEF LaunchAt, Resting, Early
    <2> QED BY <2>1, <2>3
  <1>9. Counted(t)' = c BY <1>1, <1>2 DEF Counted
  <1>10. StoreAt(t)' BY <1>1, <1>3, <1>4, <1>9 DEF StoreAt, Counting
  <1>11. \A b \in Actors \ {t} : Counting(b) => Counted(b) # Counted(t)'
    BY <1>1, <1>2, <1>9 DEF ReadCount, CountsApart
  <1>12. \A k \in Ids : Base(k)' = Base(k) /\ Share(k, t, t)' = Share(k, t, t) /\ Owed(k)' = Owed(k)
    <2> TAKE k \in Ids
    <2>1. Base(k)' = Base(k) BY <1>1 DEF Base
    <2>2. /\ t \notin Giving(k) /\ t \notin Giving(k)'
          /\ t \in Standing(k)' <=> t \in Standing(k)
          /\ t \notin Verifying(k) /\ t \notin Verifying(k)'
          /\ t \notin Reports(k) /\ t \notin Reports(k)'
      BY <1>1, <1>2, <1>4 DEF Giving, Standing, Verifying, Reports
    <2>3. Share(k, t, t)' = Share(k, t, t) BY <2>2 DEF Share, OneOf
    <2> QED BY <1>2, <1>5, <1>7, <2>1, <2>3, LoneQuiet, QuietOwed
  <1>13. \A k \in Kernels \ live : AbsentAt(k)'
    <2> TAKE k \in Kernels \ live
    <2>1. AbsentAt(k) BY DEF RefInv, AbsentInv
    <2> QED BY <1>1, <1>4, <2>1, ActorsApart DEF AbsentAt, Releasing
  <1>14. \A k \in live : refs'[k] = refs[k] + (Base(k)' - Base(k)) + (Share(k, t, t)' - Share(k, t, t))
    <2> TAKE k \in live
    <2>1. k \in Ids /\ refs[k] \in Int /\ refs'[k] = refs[k] BY <1>0, <1>1 DEF CountTypeOK
    <2> QED BY <1>2, <1>5, <1>7, <1>12, <2>1, LoneQuiet, QuietOwed
  <1>15. \A m \in live \cap Launches : ~(Owed(m)' < Owed(m))
    BY <1>2, <1>5, <1>7, <1>12, ActorsApart, LoneQuiet, QuietOwed
  <1> QED BY <1>1, <1>2, <1>5, <1>7, <1>8, <1>10, <1>11, <1>13, <1>14, <1>15, LoneSteps

LEMMA KeepsIncStore ==
    ASSUME RefInv, wrong = {}, NEW t \in Threads, IncStore(t)
    PROVE  RefInv'
  <1>0. CountTypeOK /\ UseAt(t) /\ LaunchAt(t) /\ StoreAt(t)
    BY ActorsApart DEF RefInv, UseInv, StoreInv
  <1> DEFINE c == Counted(t)
             p == AfterInc(t)
             k0 == job[t].kern
  <1>1. /\ pc[t] = "incstore" /\ Goto(t, p) /\ EndJob(t, p)
        /\ refs' = [refs EXCEPT ![c] = tmp[t]] /\ tmp' = [tmp EXCEPT ![t] = 0]
        /\ held' = IF p = "idle" THEN [held EXCEPT ![k0] = @ + 1] ELSE held
        /\ TouchGone(t) /\ UNCHANGED <<live, real, launch>>
    BY DEF IncStore, EndRetain
  <1>2. /\ c \in live /\ c \in Ids /\ tmp[t] = refs[c] + 1 /\ k0 \in Kernels /\ held[k0] > 0
        /\ t \in Actors /\ t \notin Launches
    BY <1>0, <1>1, ActorsApart DEF StoreAt, Counting, CountTypeOK, UseAt, Releasing
  <1>c. wrong' = wrong BY <1>1, <1>2 DEF TouchGone
  <1>3. /\ tmp' \in [Actors -> Int] /\ \A b \in Actors \ {t} : tmp'[b] = tmp[b]
        /\ refs' \in [Ids -> Int] /\ refs'[c] = refs[c] + 1 /\ \A k \in Ids \ {c} : refs'[k] = refs[k]
    BY <1>0, <1>1, <1>2 DEF CountTypeOK
  <1>4. p \in ThreadPlaces /\ p \in {"idle", "verify"} BY DEF AfterInc, ThreadPlaces
  <1>5. /\ pc' \in [Actors -> Places] /\ pc'[t] = p
        /\ \A a \in Actors \ {t} : pc'[a] = pc[a]
        /\ \A u \in Threads : pc'[u] \in ThreadPlaces
        /\ \A l \in Launches : pc'[l] = pc[l]
    BY <1>0, <1>1, <1>4, GotoOK
  <1>6. /\ job' = IF p = "idle" THEN [job EXCEPT ![t] = NoJob] ELSE job
        /\ p = "idle" <=> job[t].launch = Nil
    BY <1>1 DEF EndJob, AfterInc
  <1>7. /\ job' \in [Threads -> Jobs] /\ \A u \in Threads \ {t} : job'[u] = job[u]
        /\ job'[t] = IF p = "idle" THEN NoJob ELSE job[t]
    BY <1>0, <1>6, NoJobIs DEF CountTypeOK
  <1>8. /\ held' \in [Kernels -> Nat] /\ \A k \in Kernels \ {k0} : held'[k] = held[k]
        /\ held'[k0] = IF p = "idle" THEN held[k0] + 1 ELSE held[k0]
    BY <1>0, <1>1, <1>2 DEF CountTypeOK
  <1>9. CountTypeOK' BY <1>0, <1>1, <1>3, <1>5, <1>7, <1>8 DEF CountTypeOK
  <1>10. \A k \in Kernels : held'[k] >= held[k] BY <1>0, <1>8 DEF CountTypeOK
  <1>11. LoneStep(t)
    BY <1>1, <1>c, <1>3, <1>5, <1>7, <1>10, NoJobIs DEF LoneStep, Counting
  <1>12. UseAt(t)' /\ LaunchAt(t)'
    <2>1. CASE p = "idle" BY <1>5, <1>7, <2>1, NoJobIs DEF UseAt, LaunchAt, Resting, Early
    <2>2. CASE p = "verify"
      <3>0. job[t].launch # Nil /\ job'[t] = job[t] /\ pc'[t] = "verify" BY <1>5, <1>6, <1>7, <2>2
      <3>1. held'[k0] > 0 BY <1>2, <1>8, <2>2
      <3>2. UseAt(t)' BY <1>0, <1>1, <1>2, <3>0, <3>1 DEF UseAt, Releasing
      <3>3. job[t].launch \in Launches BY <3>0, UnderWay
      <3>4. LaunchAt(t)' BY <1>0, <1>1, <1>5, <3>0, <3>3 DEF LaunchAt, Resting, Early
      <3> QED BY <3>2, <3>4
    <2> QED BY <1>4, <2>1, <2>2
  <1>13. StoreAt(t)' /\ ~Counting(t)' BY <1>4, <1>5 DEF StoreAt, Counting
  <1>14. \A k \in Ids :
            Base(k)' + Share(k, t, t)' = Base(k) + Share(k, t, t) + (IF k = c THEN 1 ELSE 0)
    <2> TAKE k \in Ids
    <2>0. /\ t \notin Giving(k) /\ t \notin Giving(k)' /\ t \notin Verifying(k)
          /\ t \notin Reports(k) /\ t \notin Reports(k)'
      BY <1>1, <1>2, <1>4, <1>5 DEF Giving, Verifying, Reports
    <2>1. CASE p = "idle"
      <3>1. c = k0 BY <1>6, <2>1, CountedIs
      <3>2. t \notin Standing(k) BY <1>6, <2>1, ActorsApart DEF Standing
      <3>3. t \notin Standing(k)' /\ t \notin Verifying(k)' BY <1>5, <2>1 DEF Standing, Verifying
      <3>4. Base(k)' = Base(k) + (IF k = c THEN 1 ELSE 0) /\ Base(k) \in Nat
        BY <1>0, <1>2, <1>8, <2>1, <3>1 DEF Base, CountTypeOK
      <3> QED BY <2>0, <3>2, <3>3, <3>4 DEF Share, OneOf
    <2>2. CASE p = "verify"
      <3>1. job[t].launch # Nil /\ job'[t] = job[t] BY <1>6, <1>7, <2>2
      <3>2. Counted(t)' = c BY <1>1, <1>2, <3>1 DEF Counted
      <3>3. t \in Standing(k)' <=> t \in Standing(k) BY <1>1, <1>5, <2>2, <3>1 DEF Standing
      <3>4. t \in Verifying(k)' <=> k = c BY <1>5, <2>2, <3>2 DEF Verifying
      <3>5. Base(k)' = Base(k) /\ Base(k) \in Nat
        BY <1>0, <1>2, <1>8, <2>2 DEF Base, CountTypeOK
      <3> QED BY <2>0, <3>3, <3>4, <3>5 DEF Share, OneOf
    <2> QED BY <1>4, <2>1, <2>2
  <1>15. \A k \in Kernels \ live : AbsentAt(k)'
    <2> TAKE k \in Kernels \ live
    <2>1. AbsentAt(k) BY DEF RefInv, AbsentInv
    <2>2. held'[k] = held[k]
      <3>1. CASE p = "idle"
        <4>1. c = k0 BY <1>6, <3>1, CountedIs
        <4> QED BY <1>2, <1>8, <4>1
      <3>2. CASE p = "verify" BY <1>2, <1>8, <3>2
      <3> QED BY <1>4, <3>1, <3>2
    <2>3. \A u \in Threads : pc'[u] \in {"dec", "decstore"} => pc'[u] = pc[u] /\ job'[u] = job[u]
      BY <1>4, <1>5, <1>7, ActorsApart
    <2> QED BY <1>1, <2>1, <2>2, <2>3 DEF AbsentAt, Releasing
  <1>16. \A k \in Ids : /\ Base(k) \in Nat /\ Base(k)' \in Nat /\ Owed(k) \in Nat /\ Owed(k)' \in Nat
                        /\ Share(k, t, t) \in Nat /\ Share(k, t, t)' \in Nat
                        /\ Owed(k)' = Owed(k) + (Base(k)' - Base(k)) + (Share(k, t, t)' - Share(k, t, t))
    BY <1>2, <1>9, <1>11, LoneQuiet, QuietOwed
  <1>17. \A k \in live : refs'[k] = refs[k] + (Base(k)' - Base(k)) + (Share(k, t, t)' - Share(k, t, t))
    <2> TAKE k \in live
    <2>1. k \in Ids /\ refs[k] \in Int /\ refs'[k] = refs[k] + (IF k = c THEN 1 ELSE 0)
      BY <1>0, <1>3 DEF CountTypeOK
    <2> QED BY <1>14, <1>16, <2>1
  <1>18. \A m \in live \cap Launches : ~(Owed(m)' < Owed(m))
    BY <1>14, <1>16, ActorsApart
  <1> QED BY <1>1, <1>2, <1>9, <1>11, <1>12, <1>13, <1>15, <1>17, <1>18, LoneSteps

LEMMA GotoActor ==
    ASSUME CountTypeOK, NEW a \in Actors, NEW p \in {"idle", "decstore", "drop"}, Goto(a, p)
    PROVE  /\ pc' \in [Actors -> Places] /\ pc'[a] = p
           /\ \A b \in Actors \ {a} : pc'[b] = pc[b]
           /\ \A u \in Threads : pc'[u] \in ThreadPlaces
           /\ \A l \in Launches : pc'[l] \in {"idle", "due", "walk", "dec", "decstore", "drop"}
  <1>1. p \in Places /\ p \in ThreadPlaces /\ pc \in [Actors -> Places]
    BY DEF CountTypeOK, Places, ThreadPlaces
  <1>2. /\ pc' \in [Actors -> Places] /\ pc'[a] = p
        /\ \A b \in Actors \ {a} : pc'[b] = pc[b]
    BY <1>1 DEF Goto
  <1>3. \A u \in Threads : pc[u] \in ThreadPlaces BY DEF CountTypeOK
  <1>4. \A l \in Launches : pc[l] \in {"idle", "due", "walk", "dec", "decstore", "drop"}
    BY DEF CountTypeOK
  <1> QED BY <1>1, <1>2, <1>3, <1>4, ActorsApart

\* Who gives a reference up has it until then.
LEMMA GivesUp ==
    ASSUME RefInv, NEW a \in Actors, pc[a] \in {"dec", "decstore"}, NEW k \in Ids
    PROVE  Share(k, a, a) = IF k = Counted(a) THEN 1 ELSE 0
  <1>0. CountTypeOK BY DEF RefInv
  <1>1. CASE a \in Launches
    <2>1. a \notin Giving(k) /\ a \notin Standing(k) /\ a \notin Verifying(k)
      BY <1>1, ActorsApart DEF Giving, Standing, Verifying
    <2>2. a \in Reports(k) <=> k = Counted(a) BY <1>1, CountedIs DEF Reports, Reporting
    <2> QED BY <2>1, <2>2 DEF Share, OneOf
  <1>2. CASE a \in Threads
    <2>0. a \notin Verifying(k) /\ a \notin Reports(k) BY <1>2, ActorsApart DEF Verifying, Reports
    <2>1. CASE job[a].launch = Nil
      <3>1. Counted(a) = job[a].kern /\ job[a].kern \in Kernels
        BY <1>2, <2>1, CountedIs DEF RefInv, UseInv, UseAt
      <3>2. a \in Giving(k) <=> k = Counted(a) BY <1>2, <2>1, <3>1 DEF Giving
      <3>3. a \notin Standing(k) BY <2>1, ActorsApart DEF Standing
      <3> QED BY <2>0, <3>1, <3>2, <3>3 DEF Share, OneOf
    <2>2. CASE job[a].launch # Nil
      <3>1. job[a].launch \in Launches /\ Counted(a) = job[a].launch
        BY <1>2, <2>2, UnderWay DEF RefInv, UseInv, LaunchAt, Resting, Early
      <3>2. a \in Standing(k) <=> k = Counted(a) BY <1>2, <3>1 DEF Standing
      <3>3. a \notin Giving(k) BY <2>2 DEF Giving
      <3>4. Counted(a) \notin Kernels BY <3>1, ActorsApart
      <3> QED BY <2>0, <3>2, <3>3, <3>4 DEF Share, OneOf
    <2> QED BY <2>1, <2>2
  <1> QED BY <1>1, <1>2, ActorsApart

\* A thread or a callback that is idle or about to drop a record has no reference.
LEMMA NoShare ==
    ASSUME NEW a \in Actors, pc[a] \in {"idle", "drop"}, NEW k
    PROVE  Share(k, a, a) = 0
  BY DEF Share, OneOf, Giving, Standing, Verifying, Reports, Reporting

LEMMA KeepsDecLive ==
    ASSUME RefInv, wrong = {}, CountsApart', NEW a \in Actors, Dec(a), Counted(a) \in live
    PROVE  RefInv'
  <1>0. CountTypeOK BY DEF RefInv
  <1> DEFINE c == Counted(a)
  <1>1. /\ pc[a] = "dec" /\ ReadCount(a, c) /\ Goto(a, "decstore")
        /\ tmp' = [tmp EXCEPT ![a] = refs[c] - 1]
        /\ UNCHANGED <<live, refs, job, held, real, launch, wrong>>
    BY DEF Dec
  <1>2. c \in Ids BY <1>0 DEF CountTypeOK
  <1>3. tmp' \in [Actors -> Int] /\ tmp'[a] = refs[c] - 1 /\ \A b \in Actors \ {a} : tmp'[b] = tmp[b]
    BY <1>0, <1>1, <1>2 DEF CountTypeOK
  <1>4. /\ pc' \in [Actors -> Places] /\ pc'[a] = "decstore"
        /\ \A b \in Actors \ {a} : pc'[b] = pc[b]
        /\ \A u \in Threads : pc'[u] \in ThreadPlaces
        /\ \A l \in Launches : pc'[l] \in {"idle", "due", "walk", "dec", "decstore", "drop"}
    BY <1>0, <1>1, GotoActor
  <1>5. CountTypeOK' BY <1>0, <1>1, <1>3, <1>4 DEF CountTypeOK
  <1>6. \A k \in Kernels : held'[k] >= held[k] BY <1>0, <1>1 DEF CountTypeOK
  <1>7. LoneStep(a) BY <1>1, <1>3, <1>4, <1>6, ActorsApart DEF LoneStep
  <1>8. a \in Threads => UseAt(a)' /\ LaunchAt(a)'
    <2> HAVE a \in Threads
    <2>0. UseAt(a) /\ LaunchAt(a) BY DEF RefInv, UseInv
    <2>1. UseAt(a)' BY <2>0, <1>1, <1>4 DEF UseAt, Releasing
    <2>2. LaunchAt(a)' BY <2>0, <1>1, <1>4 DEF LaunchAt, Resting, Early
    <2> QED BY <2>1, <2>2
  <1>9. Counted(a)' = c BY <1>1 DEF Counted
  <1>10. StoreAt(a)' BY <1>1, <1>3, <1>4, <1>9 DEF StoreAt, Counting
  <1>11. \A b \in Actors \ {a} : Counting(b) => Counted(b) # Counted(a)'
    BY <1>1, <1>2, <1>9 DEF ReadCount, CountsApart
  <1>12. \A k \in Ids : Base(k)' = Base(k) /\ Share(k, a, a)' = Share(k, a, a) /\ Owed(k)' = Owed(k)
    <2> TAKE k \in Ids
    <2>1. Base(k)' = Base(k) BY <1>1 DEF Base
    <2>2. /\ a \in Giving(k)' <=> a \in Giving(k)
          /\ a \in Standing(k)' <=> a \in Standing(k)
          /\ a \notin Verifying(k) /\ a \notin Verifying(k)'
          /\ a \in Reports(k)' <=> a \in Reports(k)
      BY <1>1, <1>4 DEF Giving, Standing, Verifying, Reports, Reporting
    <2>3. Share(k, a, a)' = Share(k, a, a) BY <2>2 DEF Share, OneOf
    <2> QED BY <1>2, <1>5, <1>7, <2>1, <2>3, LoneQuiet, QuietOwed
  <1>13. \A k \in Kernels \ live : AbsentAt(k)'
    <2> TAKE k \in Kernels \ live
    <2>1. AbsentAt(k) BY DEF RefInv, AbsentInv
    <2>2. \A u \in Threads : pc'[u] \in {"dec", "decstore"} => pc[u] \in {"dec", "decstore"}
      BY <1>1, <1>4, ActorsApart
    <2> QED BY <1>1, <2>1, <2>2 DEF AbsentAt, Releasing
  <1>14. \A k \in live : refs'[k] = refs[k] + (Base(k)' - Base(k)) + (Share(k, a, a)' - Share(k, a, a))
    <2> TAKE k \in live
    <2>1. k \in Ids /\ refs[k] \in Int /\ refs'[k] = refs[k] BY <1>0, <1>1 DEF CountTypeOK
    <2> QED BY <1>2, <1>5, <1>7, <1>12, <2>1, LoneQuiet, QuietOwed
  <1>15. \A m \in live \cap Launches : ~(Owed(m)' < Owed(m))
    BY <1>2, <1>5, <1>7, <1>12, ActorsApart, LoneQuiet, QuietOwed
  <1>16. a \in Launches /\ Reporting(a)' => Reporting(a) BY <1>1 DEF Reporting
  <1> QED BY <1>1, <1>5, <1>7, <1>8, <1>10, <1>11, <1>13, <1>14, <1>15, <1>16, LoneSteps

LEMMA KeepsDecGone ==
    ASSUME RefInv, wrong = {}, NEW a \in Actors, Dec(a), Counted(a) \notin live
    PROVE  RefInv'
  <1>0. CountTypeOK BY DEF RefInv
  <1> DEFINE c == Counted(a)
  <1>1. /\ pc[a] = "dec" /\ Goto(a, "idle") /\ EndJob(a, "idle")
        /\ UNCHANGED <<live, refs, tmp, held, real, launch, wrong>>
    BY DEF Dec
  <1>2. c \in Ids BY <1>1, CountedOK
  <1>3. a \in Threads
    <2>1. a \in Launches => Reporting(a) BY <1>1 DEF Reporting
    <2> QED BY <2>1, CountedIs, ActorsApart DEF RefInv, KeptInv
  <1>4. /\ pc' \in [Actors -> Places] /\ pc'[a] = "idle"
        /\ \A b \in Actors \ {a} : pc'[b] = pc[b]
        /\ \A u \in Threads : pc'[u] \in ThreadPlaces
        /\ \A l \in Launches : pc'[l] \in {"idle", "due", "walk", "dec", "decstore", "drop"}
    BY <1>0, <1>1, GotoActor
  <1>5. /\ job' \in [Threads -> Jobs] /\ \A u \in Threads \ {a} : job'[u] = job[u]
        /\ job'[a] = NoJob
    BY <1>0, <1>1, <1>3, NoJobIs DEF EndJob, CountTypeOK
  <1>6. CountTypeOK' BY <1>0, <1>1, <1>4, <1>5 DEF CountTypeOK
  <1>7. \A k \in Kernels : held'[k] >= held[k] BY <1>0, <1>1 DEF CountTypeOK
  <1>8. LoneStep(a) BY <1>1, <1>4, <1>5, <1>7, NoJobIs DEF LoneStep
  <1>9. UseAt(a)' /\ LaunchAt(a)' BY <1>4, <1>5, NoJobIs DEF UseAt, LaunchAt, Resting, Early
  <1>10. StoreAt(a)' /\ ~Counting(a)' BY <1>4 DEF StoreAt, Counting
  <1>11. \A k \in Ids : Base(k)' = Base(k) BY <1>1 DEF Base
  <1>12. \A k \in Ids : Share(k, a, a)' = 0
    <2> TAKE k \in Ids
    <2>1. /\ a \notin Giving(k)' /\ a \notin Standing(k)' /\ a \notin Verifying(k)'
          /\ a \notin Reports(k)'
      BY <1>4 DEF Giving, Standing, Verifying, Reports, Reporting
    <2> QED BY <2>1 DEF Share, OneOf
  <1>13. \A k \in Ids : k # c => Share(k, a, a) = 0 BY <1>1, GivesUp
  <1>14. \A k \in Kernels \ live : AbsentAt(k)'
    <2> TAKE k \in Kernels \ live
    <2>1. AbsentAt(k) BY DEF RefInv, AbsentInv
    <2>2. \A u \in Threads : pc'[u] \in {"dec", "decstore"} => pc'[u] = pc[u] /\ job'[u] = job[u]
      BY <1>4, <1>5, ActorsApart
    <2> QED BY <1>1, <2>1, <2>2 DEF AbsentAt, Releasing
  <1>15. \A k \in live : refs'[k] = refs[k] + (Base(k)' - Base(k)) + (Share(k, a, a)' - Share(k, a, a))
    <2> TAKE k \in live
    <2>1. k \in Ids /\ refs[k] \in Int /\ refs'[k] = refs[k] /\ k # c BY <1>0, <1>1 DEF CountTypeOK
    <2>2. Base(k) \in Nat BY <1>0 DEF Base, CountTypeOK
    <2> QED BY <1>11, <1>12, <1>13, <2>1, <2>2
  <1>16. \A m \in live \cap Launches : ~(Owed(m)' < Owed(m))
    <2> TAKE m \in live \cap Launches
    <2>1. m \in Ids /\ m # c BY ActorsApart
    <2>2. /\ Owed(m) \in Nat /\ Owed(m)' \in Nat /\ Base(m) \in Nat /\ Base(m)' \in Nat
          /\ Owed(m)' = Owed(m) + (Base(m)' - Base(m)) + (Share(m, a, a)' - Share(m, a, a))
      BY <1>6, <1>8, <2>1, LoneQuiet, QuietOwed
    <2> QED BY <1>11, <1>12, <1>13, <2>1, <2>2
  <1> QED BY <1>1, <1>3, <1>6, <1>8, <1>9, <1>10, <1>14, <1>15, <1>16, ActorsApart, LoneSteps

LEMMA KeepsDecStore ==
    ASSUME RefInv, wrong = {}, NEW a \in Actors, DecStore(a)
    PROVE  RefInv'
  <1>0. CountTypeOK /\ StoreAt(a) BY DEF RefInv, StoreInv
  <1> DEFINE c == Counted(a)
  <1>1. /\ pc[a] = "decstore" /\ Goto(a, "drop")
        /\ refs' = [refs EXCEPT ![c] = tmp[a]]
        /\ TouchGone(a) /\ UNCHANGED <<live, tmp, job, held, real, launch>>
    BY DEF DecStore
  <1>2. c \in live /\ c \in Ids /\ tmp[a] = refs[c] - 1 BY <1>0, <1>1 DEF StoreAt, Counting, CountTypeOK
  <1>b. wrong' = wrong BY <1>1, <1>2 DEF TouchGone
  <1>3. /\ tmp \in [Actors -> Int] /\ tmp[a] = refs'[c]
        /\ refs' \in [Ids -> Int] /\ refs'[c] = refs[c] - 1 /\ \A k \in Ids \ {c} : refs'[k] = refs[k]
    BY <1>0, <1>1, <1>2 DEF CountTypeOK
  <1>4. /\ pc' \in [Actors -> Places] /\ pc'[a] = "drop"
        /\ \A b \in Actors \ {a} : pc'[b] = pc[b]
        /\ \A u \in Threads : pc'[u] \in ThreadPlaces
        /\ \A l \in Launches : pc'[l] \in {"idle", "due", "walk", "dec", "decstore", "drop"}
    BY <1>0, <1>1, GotoActor
  <1>5. CountTypeOK' BY <1>0, <1>1, <1>3, <1>4 DEF CountTypeOK
  <1>6. \A k \in Kernels : held'[k] >= held[k] BY <1>0, <1>1 DEF CountTypeOK
  <1>7. LoneStep(a) BY <1>1, <1>b, <1>3, <1>4, <1>6 DEF LoneStep, Counting
  <1>8. a \in Threads => UseAt(a)' /\ LaunchAt(a)'
    <2> HAVE a \in Threads
    <2>0. UseAt(a) /\ LaunchAt(a) BY DEF RefInv, UseInv
    <2>1. UseAt(a)' BY <2>0, <1>1, <1>4 DEF UseAt, Releasing
    <2>2. LaunchAt(a)' BY <2>0, <1>1, <1>4 DEF LaunchAt, Resting, Early
    <2> QED BY <2>1, <2>2
  <1>9. Counted(a)' = c BY <1>1 DEF Counted
  <1>10. StoreAt(a)' BY <1>1, <1>2, <1>3, <1>4, <1>9 DEF StoreAt
  <1>18. \A b \in Actors \ {a} : Counting(b) => Counted(b) # Counted(a)'
    BY <1>1, <1>9 DEF RefInv, StoreInv, Counting
  <1>11. \A k \in Ids : Base(k)' = Base(k) BY <1>1 DEF Base
  <1>12. \A k \in Ids : Share(k, a, a)' = 0
    <2> TAKE k \in Ids
    <2>1. /\ a \notin Giving(k)' /\ a \notin Standing(k)' /\ a \notin Verifying(k)'
          /\ a \notin Reports(k)'
      BY <1>4 DEF Giving, Standing, Verifying, Reports, Reporting
    <2> QED BY <2>1 DEF Share, OneOf
  <1>13. \A k \in Ids : Share(k, a, a) = IF k = c THEN 1 ELSE 0 BY <1>1, GivesUp
  <1>14. \A k \in Kernels \ live : AbsentAt(k)'
    <2> TAKE k \in Kernels \ live
    <2>1. AbsentAt(k) BY DEF RefInv, AbsentInv
    <2>2. \A u \in Threads : pc'[u] \in {"dec", "decstore"} => pc'[u] = pc[u]
      BY <1>4, ActorsApart
    <2> QED BY <1>1, <2>1, <2>2 DEF AbsentAt, Releasing
  <1>15. \A k \in live : refs'[k] = refs[k] + (Base(k)' - Base(k)) + (Share(k, a, a)' - Share(k, a, a))
    <2> TAKE k \in live
    <2>1. k \in Ids /\ refs[k] \in Int /\ refs'[k] = refs[k] - (IF k = c THEN 1 ELSE 0)
      BY <1>0, <1>3 DEF CountTypeOK
    <2>2. Base(k) \in Nat BY <1>0 DEF Base, CountTypeOK
    <2> QED BY <1>11, <1>12, <1>13, <2>1, <2>2
  <1>16. \A m \in live \cap Launches : Owed(m)' < Owed(m) => pc'[a] = "drop" /\ Counted(a)' = m
    <2> TAKE m \in live \cap Launches
    <2>1. m \in Ids BY ActorsApart
    <2>2. /\ Owed(m) \in Nat /\ Owed(m)' \in Nat /\ Base(m) \in Nat /\ Base(m)' \in Nat
          /\ Owed(m)' = Owed(m) + (Base(m)' - Base(m)) + (Share(m, a, a)' - Share(m, a, a))
      BY <1>5, <1>7, <2>1, LoneQuiet, QuietOwed
    <2> QED BY <1>4, <1>9, <1>11, <1>12, <1>13, <2>1, <2>2
  <1>17. a \in Launches /\ Reporting(a)' => Reporting(a) BY <1>1 DEF Reporting
  <1> QED BY <1>1, <1>5, <1>7, <1>8, <1>10, <1>14, <1>15, <1>16, <1>17, <1>18, LoneSteps

\* The record that an actor is about to drop is there, and its count what the actor
\* has worked out.
LEMMA DropIs ==
    ASSUME RefInv, NEW a \in Actors, Drop(a)
    PROVE  /\ Counted(a) \in live /\ Counted(a) \in Ids /\ Counting(a) /\ pc[a] = "drop"
           /\ Goto(a, "idle") /\ EndJob(a, "idle")
           /\ tmp' = [tmp EXCEPT ![a] = 0]
           /\ IF refs[Counted(a)] = 0 THEN Remove(Counted(a)) ELSE UNCHANGED <<live, lists>>
           /\ UNCHANGED <<refs, races, mem, real, held, launch, report, wrong>>
  <1>1. pc[a] = "drop" /\ Counting(a) BY DEF Drop, Counting
  <1>2. Counted(a) \in live /\ tmp[a] = refs[Counted(a)] /\ Counted(a) \in Ids
    BY <1>1 DEF RefInv, StoreInv, StoreAt, CountTypeOK
  <1> QED BY <1>1, <1>2 DEF Drop, TouchGone

LEMMA KeepsDrop ==
    ASSUME RefInv, wrong = {}, NEW a \in Actors, Drop(a)
    PROVE  RefInv'
  <1>0. CountTypeOK BY DEF RefInv
  <1> DEFINE c == Counted(a)
             last == c \in live /\ refs[c] = 0
  <1>a. Counting(a) BY DropIs
  <1>b. c \in live /\ c \in Ids BY DropIs
  <1>1. /\ pc[a] = "drop" /\ Goto(a, "idle") /\ EndJob(a, "idle")
        /\ live' = IF last THEN live \ {c} ELSE live
        /\ tmp' = [tmp EXCEPT ![a] = 0]
        /\ UNCHANGED <<refs, held, real, launch, wrong>>
    BY DropIs DEF Remove
  <1>2. /\ c \in Ids /\ tmp' \in [Actors -> Int]
        /\ \A b \in Actors \ {a} : tmp'[b] = tmp[b]
    BY <1>0, <1>1, <1>b DEF CountTypeOK
  <1>3. last => Owed(c) = 0 BY DEF RefInv, CountInv
  <1>4. /\ pc' \in [Actors -> Places] /\ pc'[a] = "idle"
        /\ \A b \in Actors \ {a} : pc'[b] = pc[b]
        /\ \A u \in Threads : pc'[u] \in ThreadPlaces
        /\ \A l \in Launches : pc'[l] \in {"idle", "due", "walk", "dec", "decstore", "drop"}
    BY <1>0, <1>1, GotoActor
  <1>5. /\ job' \in [Threads -> Jobs] /\ \A u \in Threads \ {a} : job'[u] = job[u]
        /\ a \in Threads => job'[a] = NoJob
    BY <1>0, <1>1, NoJobIs DEF EndJob, CountTypeOK
  <1>6. CountTypeOK'
    <2>1. live' \subseteq Ids BY <1>0, <1>1 DEF CountTypeOK
    <2> QED BY <1>0, <1>1, <1>2, <1>4, <1>5, <2>1 DEF CountTypeOK
  <1>7. Quiet(a, a)
    <2>1. \A u \in Threads \ {a} : pc[u] # "idle" /\ ~Releasing(u) => held'[job[u].kern] > 0
      BY <1>1 DEF RefInv, UseInv, UseAt
    <2>2. \A k \in live \ live' :
             Owed(k) = 0 /\ \A b \in Actors \ {a} : Counting(b) => Counted(b) # k
      BY <1>1, <1>3, <1>a DEF RefInv, StoreInv
    <2>3. \A u \in Threads \ {a} : pc'[u] = pc[u] /\ job'[u] = job[u] /\ tmp'[u] = tmp[u]
      BY <1>2, <1>4, <1>5, ActorsApart
    <2>4. \A m \in Launches \ {a} : pc'[m] = pc[m] /\ tmp'[m] = tmp[m]
      BY <1>2, <1>4, ActorsApart
    <2> QED BY <1>1, <2>1, <2>2, <2>3, <2>4 DEF Quiet
  <1>8. a \in Threads => UseAt(a)' /\ LaunchAt(a)' BY <1>4, <1>5, NoJobIs DEF UseAt, LaunchAt, Resting, Early
  <1>9. StoreAt(a)' /\ ~Counting(a)' BY <1>4 DEF StoreAt, Counting
  <1>10. \A k \in Ids : Owed(k)' = Owed(k) /\ Owed(k) \in Nat
    <2> TAKE k \in Ids
    <2>1. Base(k)' = Base(k) BY <1>1 DEF Base
    <2>2. Share(k, a, a) = 0 BY <1>1, NoShare
    <2>3. Share(k, a, a)' = 0
      <3>1. /\ a \notin Giving(k)' /\ a \notin Standing(k)' /\ a \notin Verifying(k)'
            /\ a \notin Reports(k)'
        BY <1>4 DEF Giving, Standing, Verifying, Reports, Reporting
      <3> QED BY <3>1 DEF Share, OneOf
    <2> QED BY <1>6, <1>7, <2>1, <2>2, <2>3, QuietOwed
  <1>11. AbsentInv'
    <2> SUFFICES ASSUME NEW k \in Kernels \ live' PROVE AbsentAt(k)' BY DEF AbsentInv
    <2>1. CASE k \in live
      <3>1. Owed(k) = 0 BY <1>1, <1>3, <2>1
      <3>2. held[k] = 0 BY <1>0, <3>1, OwedAny
      <3> QED BY <1>1, <3>2 DEF AbsentAt
    <2>2. CASE k \notin live
      <3>1. AbsentAt(k) BY <2>2 DEF RefInv, AbsentInv
      <3>2. \A u \in Threads : pc'[u] \in {"dec", "decstore"} => pc'[u] = pc[u] /\ job'[u] = job[u]
        BY <1>4, <1>5, ActorsApart
      <3> QED BY <1>1, <3>1, <3>2 DEF AbsentAt, Releasing
    <2> QED BY <2>1, <2>2
  <1>12. CountInv'
    <2> SUFFICES ASSUME NEW k \in live' PROVE refs'[k] = Owed(k)' BY DEF CountInv
    <2>1. k \in live /\ k \in Ids BY <1>0, <1>1 DEF CountTypeOK
    <2> QED BY <1>1, <1>10, <2>1 DEF RefInv, CountInv
  <1>13. ASSUME NEW m \in live' \cap Launches
         PROVE  /\ Owed(m)' > 0 \/ \E b \in Actors : pc'[b] = "drop" /\ Counted(b)' = m
                /\ launch'[m].used = m
    <2>1. m \in live /\ m \in Ids BY <1>1, ActorsApart
    <2>2. launch'[m].used = m BY <1>1, <2>1 DEF RefInv, KeptInv
    <2>3. CASE Owed(m) > 0 BY <1>10, <2>1, <2>2, <2>3
    <2>4. CASE ~(Owed(m) > 0)
      <3>1. PICK b \in Actors : pc[b] = "drop" /\ Counted(b) = m BY <2>1, <2>4 DEF RefInv, KeptInv
      <3>2. refs[m] = 0 BY <1>10, <2>1, <2>4 DEF RefInv, CountInv
      <3>3. b # a BY <1>1, <2>1, <3>1, <3>2
      <3>4. pc'[b] = "drop" BY <1>4, <3>1, <3>3
      <3>5. Counted(b)' = m BY <1>6, <1>7, <3>1, <3>3, QuietOthers, ActorsApart
      <3> QED BY <2>2, <3>4, <3>5
    <2> QED BY <2>3, <2>4
  <1>14. a \in Threads => \A u \in Threads \ {a} : job'[a].launch # Nil => job'[a].launch # job[u].launch
    BY <1>5, NoJobIs
  <1>15. \A m \in Launches : launch[m] = NoLaunch => MadeAt(m)'
    <2> TAKE m \in Launches
    <2> HAVE launch[m] = NoLaunch
    <2>1. NoLaunch.kern = Nil BY DEF NoLaunch
    <2>2. pc[m] = "idle" BY <2>1, ActorsApart DEF RefInv, UseInv, MadeAt
    <2>3. pc'[m] = "idle" BY <1>4, <2>2, ActorsApart
    <2> QED BY <1>1, <2>3 DEF MadeAt
  <1>16. ~Reporting(a)' BY <1>4 DEF Reporting
  <1> QED BY <1>1, <1>6, <1>7, <1>8, <1>9, <1>11, <1>12, <1>13, <1>14, <1>15, <1>16, QuietStep

\* A step of a thread that stores nothing and drops nothing.
LEMMA QuietThread ==
    ASSUME RefInv, CountTypeOK', NEW t \in Threads, Quiet(t, t), UNCHANGED launch,
           wrong' = {}, UseAt(t)', LaunchAt(t)', job'[t].launch \in {Nil, job[t].launch},
           ~Counting(t)', pc[t] # "drop", AbsentInv', CountInv',
           live' \cap Launches = live \cap Launches,
           \A m \in live \cap Launches : Owed(m)' = Owed(m)
    PROVE  RefInv'
  <1>1. \A u \in Threads \ {t} : job'[t].launch # Nil => job'[t].launch # job[u].launch
    BY DEF RefInv, UseInv
  <1>2. ASSUME NEW m \in Launches, launch[m] = NoLaunch PROVE MadeAt(m)'
    <2>1. NoLaunch.kern = Nil BY DEF NoLaunch
    <2>2. pc[m] = "idle" BY <1>2, <2>1, ActorsApart DEF RefInv, UseInv, MadeAt
    <2>3. pc'[m] = "idle" BY <2>2, ActorsApart DEF Quiet
    <2> QED BY <1>2, <2>3 DEF MadeAt
  <1>3. StoreAt(t)' BY DEF StoreAt, Counting
  <1>4. ASSUME NEW m \in live' \cap Launches
        PROVE  /\ Owed(m)' > 0 \/ \E b \in Actors : pc'[b] = "drop" /\ Counted(b)' = m
               /\ launch'[m].used = m
    <2>1. m \in live \cap Launches OBVIOUS
    <2>2. launch'[m].used = m BY <2>1 DEF RefInv, KeptInv
    <2>3. CASE Owed(m) > 0 BY <2>1, <2>2, <2>3
    <2>4. CASE ~(Owed(m) > 0)
      <3>1. PICK b \in Actors : pc[b] = "drop" /\ Counted(b) = m BY <2>1, <2>4 DEF RefInv, KeptInv
      <3>2. pc'[b] = "drop" BY <3>1, ActorsApart DEF Quiet
      <3>3. Counted(b)' = m BY <3>1, QuietOthers, ActorsApart
      <3> QED BY <2>2, <3>2, <3>3
    <2> QED BY <2>3, <2>4
  <1>5. t \notin Launches BY ActorsApart
  <1> QED BY <1>1, <1>2, <1>3, <1>4, <1>5, QuietStep

LEMMA KeepsIncNew ==
    ASSUME RefInv, wrong = {}, NEW t \in Threads, Inc(t), Counted(t) \notin live
    PROVE  RefInv'
  <1>0. CountTypeOK /\ UseAt(t) /\ LaunchAt(t) BY DEF RefInv, UseInv
  <1> DEFINE c == Counted(t)
  <1>1. /\ pc[t] = "inc" /\ live' = live \cup {c} /\ refs' = [refs EXCEPT ![c] = 2]
        /\ EndRetain(t, AfterInc(t))
        /\ UNCHANGED <<tmp, real, launch, wrong>>
    BY DEF Inc
  <1>2. job[t].launch = Nil
    <2>1. job[t].launch # Nil => Counted(t) \in live BY <1>0, <1>1, UnderWay DEF LaunchAt, Resting, Early, Early
    <2> QED BY <2>1
  <1>3. c = job[t].kern /\ c \in Kernels /\ held[c] > 0 /\ c \in Ids /\ c \notin Launches
    BY <1>0, <1>1, <1>2, CountedIs, ActorsApart DEF UseAt, Releasing
  <1>4. /\ Goto(t, "idle") /\ job' = [job EXCEPT ![t] = NoJob]
        /\ held' = [held EXCEPT ![c] = @ + 1]
    BY <1>1, <1>2, <1>3 DEF EndRetain, EndJob, AfterInc
  <1>5. Owed(c) = 1 /\ held[c] = 1 BY <1>3, AbsentOwed
  <1>6. /\ pc' \in [Actors -> Places] /\ pc'[t] = "idle"
        /\ \A a \in Actors \ {t} : pc'[a] = pc[a]
        /\ \A u \in Threads : pc'[u] \in ThreadPlaces
        /\ \A l \in Launches : pc'[l] = pc[l]
    BY <1>0, <1>4, GotoOK DEF ThreadPlaces
  <1>7. /\ job' \in [Threads -> Jobs] /\ job'[t] = NoJob
        /\ \A u \in Threads \ {t} : job'[u] = job[u]
    BY <1>0, <1>4, NoJobIs DEF CountTypeOK
  <1>8. /\ held' \in [Kernels -> Nat] /\ held'[c] = held[c] + 1
        /\ \A k \in Kernels \ {c} : held'[k] = held[k]
    BY <1>0, <1>3, <1>4 DEF CountTypeOK
  <1>9. /\ refs' \in [Ids -> Int] /\ refs'[c] = 2 /\ \A k \in Ids \ {c} : refs'[k] = refs[k]
        /\ live' \subseteq Ids
    BY <1>0, <1>1, <1>3 DEF CountTypeOK
  <1>10. CountTypeOK' BY <1>0, <1>1, <1>6, <1>7, <1>8, <1>9 DEF CountTypeOK
  <1>11. Quiet(t, t)
    <2>1. \A u \in Threads \ {t} : pc[u] # "idle" /\ ~Releasing(u) => held'[job[u].kern] > 0
      <3> TAKE u \in Threads \ {t}
      <3> HAVE pc[u] # "idle" /\ ~Releasing(u)
      <3>1. job[u].kern \in Kernels /\ held[job[u].kern] > 0 BY DEF RefInv, UseInv, UseAt
      <3> QED BY <1>5, <1>8, <3>1
    <2>2. ASSUME NEW b \in Actors, Counting(b) PROVE refs'[Counted(b)] = refs[Counted(b)]
      <3>1. Counted(b) \in live BY <2>2 DEF RefInv, StoreInv, StoreAt, Counting
      <3> QED BY <1>0, <1>9, <3>1 DEF CountTypeOK
    <2>3. \A u \in Threads \ {t} : pc'[u] = pc[u] /\ job'[u] = job[u] /\ tmp'[u] = tmp[u]
      BY <1>1, <1>6, <1>7, ActorsApart
    <2>4. t \notin Launches BY ActorsApart
    <2> QED BY <1>1, <1>6, <2>1, <2>2, <2>3, <2>4 DEF Quiet
  <1>12. \A k \in Ids : Owed(k)' = Owed(k) + (IF k = c THEN 1 ELSE 0) /\ Owed(k) \in Nat
    <2> TAKE k \in Ids
    <2>1. Base(k)' = Base(k) + (IF k = c THEN 1 ELSE 0) /\ Base(k) \in Nat
      BY <1>0, <1>3, <1>8 DEF Base, CountTypeOK
    <2>2. /\ t \notin Giving(k) /\ t \notin Giving(k)' /\ t \notin Verifying(k) /\ t \notin Verifying(k)'
          /\ t \notin Reports(k) /\ t \notin Reports(k)' /\ t \notin Standing(k) /\ t \notin Standing(k)'
      BY <1>1, <1>2, <1>6, ActorsApart DEF Giving, Verifying, Reports, Standing
    <2>3. Share(k, t, t) = 0 /\ Share(k, t, t)' = 0 BY <2>2 DEF Share, OneOf
    <2> QED BY <1>10, <1>11, <2>1, <2>3, QuietOwed
  <1>13. AbsentInv'
    <2> SUFFICES ASSUME NEW k \in Kernels \ live' PROVE AbsentAt(k)' BY DEF AbsentInv
    <2>1. AbsentAt(k) /\ k # c BY <1>1 DEF RefInv, AbsentInv
    <2>2. \A u \in Threads : pc'[u] \in {"dec", "decstore"} => pc'[u] = pc[u] /\ job'[u] = job[u]
      BY <1>6, <1>7, ActorsApart
    <2> QED BY <1>1, <1>8, <2>1, <2>2 DEF AbsentAt, Releasing
  <1>14. CountInv'
    <2> SUFFICES ASSUME NEW k \in live' PROVE refs'[k] = Owed(k)' BY DEF CountInv
    <2>1. k \in Ids BY <1>9
    <2>2. CASE k = c BY <1>5, <1>9, <1>12, <2>1, <2>2
    <2>3. CASE k # c
      <3>1. refs[k] = Owed(k) BY <1>1, <2>3 DEF RefInv, CountInv
      <3> QED BY <1>9, <1>12, <2>1, <2>3, <3>1
    <2> QED BY <2>2, <2>3
  <1>15. live' \cap Launches = live \cap Launches BY <1>1, <1>3
  <1>16. \A m \in live \cap Launches : Owed(m)' = Owed(m) BY <1>3, <1>12, ActorsApart
  <1>17. UseAt(t)' /\ LaunchAt(t)' BY <1>6, <1>7, NoJobIs DEF UseAt, LaunchAt, Resting, Early
  <1>18. ~Counting(t)' /\ pc[t] # "drop" /\ job'[t].launch = Nil
    BY <1>1, <1>6, <1>7, NoJobIs DEF Counting
  <1> QED BY <1>1, <1>10, <1>11, <1>13, <1>14, <1>15, <1>16, <1>17, <1>18, QuietThread

LEMMA KeepsReleaseKernel ==
    ASSUME RefInv, wrong = {}, NEW t \in Threads, NEW k0 \in Kernels, ReleaseKernel(t, k0)
    PROVE  RefInv'
  <1>0. CountTypeOK /\ UseAt(t) BY DEF RefInv, UseInv
  <1> DEFINE users == {u \in Threads : job[u].kern = k0}
  <1>1. /\ pc[t] = "idle" /\ held[k0] > Cardinality(users) /\ held' = [held EXCEPT ![k0] = @ - 1]
        /\ Goto(t, "dec")
        /\ UNCHANGED <<live, refs, tmp, real, launch, wrong>>
    BY DEF ReleaseKernel, counts
  <1>2. IsFiniteSet(users) /\ Cardinality(users) \in Nat
    <2>1. users \subseteq Threads OBVIOUS
    <2>2. IsFiniteSet(Threads) BY RecordAssumption
    <2> QED BY <2>1, <2>2, FS_Subset, FS_CardinalityType
  <1>3. PICK j \in Jobs : j.kern = k0 /\ j.launch = Nil /\ job' = [job EXCEPT ![t] = j]
    <2> DEFINE j == [NoJob EXCEPT !.kern = k0]
    <2>1. j \in Jobs /\ j.kern = k0 /\ j.launch = Nil BY DEF NoJob, Jobs, Values
    <2> QED BY <2>1 DEF ReleaseKernel
  <1>4. /\ job' \in [Threads -> Jobs] /\ job'[t] = j
        /\ \A u \in Threads \ {t} : job'[u] = job[u]
    BY <1>0, <1>3 DEF CountTypeOK
  <1>5. k0 \in Ids /\ held[k0] \in Nat /\ held[k0] > 0 BY <1>0, <1>1, <1>2, ActorsApart DEF CountTypeOK
  <1>6. /\ pc' \in [Actors -> Places] /\ pc'[t] = "dec"
        /\ \A a \in Actors \ {t} : pc'[a] = pc[a]
        /\ \A u \in Threads : pc'[u] \in ThreadPlaces
        /\ \A l \in Launches : pc'[l] = pc[l]
    BY <1>0, <1>1, GotoOK DEF ThreadPlaces
  <1>7. /\ held' \in [Kernels -> Nat] /\ held'[k0] = held[k0] - 1
        /\ \A k \in Kernels \ {k0} : held'[k] = held[k]
    BY <1>0, <1>1, <1>5 DEF CountTypeOK
  <1>8. CountTypeOK' BY <1>0, <1>1, <1>4, <1>6, <1>7 DEF CountTypeOK
  <1>9. Quiet(t, t)
    <2>1. \A u \in Threads \ {t} : pc[u] # "idle" /\ ~Releasing(u) => held'[job[u].kern] > 0
      <3> TAKE u \in Threads \ {t}
      <3> HAVE pc[u] # "idle" /\ ~Releasing(u)
      <3>1. job[u].kern \in Kernels /\ held[job[u].kern] > 0 BY DEF RefInv, UseInv, UseAt
      <3>2. CASE job[u].kern # k0 BY <1>7, <3>1, <3>2
      <3>3. CASE job[u].kern = k0
        <4>1. users # {} BY <3>3
        <4>2. Cardinality(users) > 0
          <5>1. Cardinality(users) # 0 BY <1>2, <4>1, FS_EmptySet
          <5> QED BY <1>2, <5>1
        <4> QED BY <1>1, <1>2, <1>5, <1>7, <3>3, <4>2
      <3> QED BY <3>2, <3>3
    <2>2. \A u \in Threads \ {t} : pc'[u] = pc[u] /\ job'[u] = job[u] /\ tmp'[u] = tmp[u]
      BY <1>1, <1>4, <1>6, ActorsApart
    <2>3. t \notin Launches BY ActorsApart
    <2> QED BY <1>1, <1>6, <2>1, <2>2, <2>3 DEF Quiet
  <1>10. \A k \in Ids : Owed(k)' = Owed(k) /\ Owed(k) \in Nat
    <2> TAKE k \in Ids
    <2>1. Base(k)' = Base(k) - (IF k = k0 THEN 1 ELSE 0) /\ Base(k) \in Nat
      BY <1>0, <1>5, <1>7 DEF Base, CountTypeOK
    <2>2. /\ t \in Giving(k)' <=> k = k0
          /\ t \notin Giving(k) /\ t \notin Verifying(k) /\ t \notin Verifying(k)'
          /\ t \notin Reports(k) /\ t \notin Reports(k)' /\ t \notin Standing(k) /\ t \notin Standing(k)'
      BY <1>1, <1>3, <1>4, <1>6, ActorsApart DEF Giving, Verifying, Reports, Standing
    <2>3. Share(k, t, t) = 0 /\ Share(k, t, t)' = IF k = k0 THEN 1 ELSE 0
      BY <2>2 DEF Share, OneOf
    <2> QED BY <1>8, <1>9, <2>1, <2>3, QuietOwed
  <1>11. AbsentInv'
    <2> SUFFICES ASSUME NEW k \in Kernels \ live PROVE AbsentAt(k)' BY <1>1 DEF AbsentInv
    <2>1. AbsentAt(k) BY DEF RefInv, AbsentInv
    <2>2. CASE k = k0
      <3>1. held'[k] = 0 BY <1>5, <1>7, <2>1, <2>2 DEF AbsentAt
      <3> QED BY <3>1 DEF AbsentAt
    <2>3. CASE k # k0
      <3>1. \A u \in Threads : job'[u].kern = k => pc'[u] = pc[u] /\ job'[u] = job[u]
        BY <1>3, <1>4, <1>6, <2>3, ActorsApart
      <3> QED BY <1>1, <1>7, <2>1, <2>3, <3>1 DEF AbsentAt, Releasing
    <2> QED BY <2>2, <2>3
  <1>12. CountInv'
    <2> SUFFICES ASSUME NEW k \in live PROVE refs'[k] = Owed(k)' BY <1>1 DEF CountInv
    <2>1. k \in Ids /\ refs[k] = Owed(k) BY <1>0 DEF RefInv, CountInv, CountTypeOK
    <2> QED BY <1>1, <1>10, <2>1
  <1>13. \A m \in live \cap Launches : Owed(m)' = Owed(m) BY <1>10, ActorsApart
  <1>14. UseAt(t)' /\ LaunchAt(t)'
    BY <1>3, <1>4, <1>6, NoJobIs, ActorsApart DEF UseAt, LaunchAt, Resting, Early, Releasing
  <1>15. ~Counting(t)' /\ pc[t] # "drop" /\ job'[t].launch = Nil BY <1>1, <1>3, <1>4, <1>6 DEF Counting
  <1> QED BY <1>1, <1>8, <1>9, <1>11, <1>12, <1>13, <1>14, <1>15, QuietThread

LEMMA KeepsSetKernelArg ==
    ASSUME RefInv, wrong = {}, NEW t \in Threads, NEW k0 \in Kernels, NEW i0 \in Index,
           NEW b0 \in Values, SetKernelArg(t, k0, i0, b0)
    PROVE  RefInv'
  <1>0. CountTypeOK /\ UseAt(t) BY DEF RefInv, UseInv
  <1>1. /\ pc[t] = "idle" /\ held[k0] > 0 /\ Goto(t, "head")
        /\ real' = [real EXCEPT ![k0][i0] = b0] /\ live' = live \cup {k0}
        /\ refs' = IF k0 \in live THEN refs ELSE [refs EXCEPT ![k0] = 1]
        /\ UNCHANGED <<tmp, held, launch, wrong>>
    BY DEF SetKernelArg
  <1>2. k0 \in Ids /\ k0 \notin Launches BY ActorsApart
  <1>3. PICK j \in Jobs : j.kern = k0 /\ j.launch = Nil /\ job' = [job EXCEPT ![t] = j]
    <2> DEFINE j == [NoJob EXCEPT !.kern = k0, !.index = i0, !.value = b0]
    <2>1. i0 \in Int BY RecordAssumption DEF Index
    <2>2. j \in Jobs /\ j.kern = k0 /\ j.launch = Nil BY <2>1 DEF NoJob, Jobs
    <2> QED BY <2>2 DEF SetKernelArg
  <1>4. /\ job' \in [Threads -> Jobs] /\ job'[t] = j
        /\ \A u \in Threads \ {t} : job'[u] = job[u]
    BY <1>0, <1>3 DEF CountTypeOK
  <1>5. /\ pc' \in [Actors -> Places] /\ pc'[t] = "head"
        /\ \A a \in Actors \ {t} : pc'[a] = pc[a]
        /\ \A u \in Threads : pc'[u] \in ThreadPlaces
        /\ \A l \in Launches : pc'[l] = pc[l]
    BY <1>0, <1>1, GotoOK DEF ThreadPlaces
  <1>6. /\ real' \in [Kernels -> [Index -> Values \cup {Nil}]]
        /\ \A k \in Kernels \ {k0} : real'[k] = real[k]
    BY <1>0, <1>1 DEF CountTypeOK
  <1>7. /\ refs' \in [Ids -> Int] /\ \A k \in Ids \ {k0} : refs'[k] = refs[k]
        /\ k0 \in live => refs'[k0] = refs[k0]
        /\ k0 \notin live => refs'[k0] = 1
        /\ live' \subseteq Ids
    BY <1>0, <1>1, <1>2 DEF CountTypeOK
  <1>8. CountTypeOK' BY <1>0, <1>1, <1>4, <1>5, <1>6, <1>7 DEF CountTypeOK
  <1>9. Quiet(t, t)
    <2>1. \A u \in Threads \ {t} : pc[u] # "idle" /\ ~Releasing(u) => held'[job[u].kern] > 0
      BY <1>1 DEF RefInv, UseInv, UseAt
    <2>2. ASSUME NEW b \in Actors, Counting(b) PROVE refs'[Counted(b)] = refs[Counted(b)]
      <3>1. Counted(b) \in live BY <2>2 DEF RefInv, StoreInv, StoreAt, Counting
      <3> QED BY <1>0, <1>7, <3>1 DEF CountTypeOK
    <2>3. \A u \in Threads \ {t} : pc'[u] = pc[u] /\ job'[u] = job[u] /\ tmp'[u] = tmp[u]
      BY <1>1, <1>4, <1>5, ActorsApart
    <2>4. t \notin Launches BY ActorsApart
    <2> QED BY <1>1, <1>5, <2>1, <2>2, <2>3, <2>4 DEF Quiet
  <1>10. \A k \in Ids : Owed(k)' = Owed(k) /\ Owed(k) \in Nat
    <2> TAKE k \in Ids
    <2>1. Base(k)' = Base(k) BY <1>1 DEF Base
    <2>2. /\ t \notin Giving(k) /\ t \notin Giving(k)' /\ t \notin Verifying(k) /\ t \notin Verifying(k)'
          /\ t \notin Reports(k) /\ t \notin Reports(k)' /\ t \notin Standing(k) /\ t \notin Standing(k)'
      BY <1>1, <1>5, ActorsApart DEF Giving, Verifying, Reports, Standing
    <2>3. Share(k, t, t) = 0 /\ Share(k, t, t)' = 0 BY <2>2 DEF Share, OneOf
    <2> QED BY <1>8, <1>9, <2>1, <2>3, QuietOwed
  <1>11. AbsentInv'
    <2> SUFFICES ASSUME NEW k \in Kernels \ live' PROVE AbsentAt(k)' BY DEF AbsentInv
    <2>1. AbsentAt(k) /\ k # k0 BY <1>1 DEF RefInv, AbsentInv
    <2>2. \A u \in Threads : pc'[u] \in {"dec", "decstore"} => pc'[u] = pc[u] /\ job'[u] = job[u]
      BY <1>4, <1>5, ActorsApart
    <2> QED BY <1>1, <1>6, <2>1, <2>2 DEF AbsentAt, Releasing
  <1>12. CountInv'
    <2> SUFFICES ASSUME NEW k \in live' PROVE refs'[k] = Owed(k)' BY DEF CountInv
    <2>1. k \in Ids BY <1>7
    <2>2. CASE k \in live BY <1>7, <1>10, <2>1, <2>2 DEF RefInv, CountInv
    <2>3. CASE k \notin live
      <3>1. k = k0 BY <1>1, <2>3
      <3>2. Owed(k) = 1 BY <1>1, <2>3, <3>1, AbsentOwed
      <3> QED BY <1>7, <1>10, <2>1, <2>3, <3>1, <3>2
    <2> QED BY <2>2, <2>3
  <1>13. live' \cap Launches = live \cap Launches BY <1>1, <1>2
  <1>14. \A m \in live \cap Launches : Owed(m)' = Owed(m) BY <1>10, ActorsApart
  <1>15. UseAt(t)' /\ LaunchAt(t)'
    BY <1>1, <1>3, <1>4, <1>5, NoJobIs, ActorsApart DEF UseAt, LaunchAt, Resting, Early, Releasing
  <1>16. ~Counting(t)' /\ pc[t] # "drop" /\ job'[t].launch = Nil BY <1>1, <1>3, <1>4, <1>5 DEF Counting
  <1> QED BY <1>1, <1>8, <1>9, <1>11, <1>12, <1>13, <1>14, <1>15, <1>16, QuietThread

LEMMA KeepsVerify ==
    ASSUME RefInv, wrong = {}, NEW t \in Threads, Verify(t)
    PROVE  RefInv'
  <1>0. CountTypeOK /\ UseAt(t) /\ LaunchAt(t) BY DEF RefInv, UseInv
  <1>a. PICK l : l = job[t].launch OBVIOUS
  <1>b. PICK c : c = launch[l].used OBVIOUS
  <1> DEFINE p == IF l \in Waiting THEN "wait" ELSE IF c = l THEN "clean" ELSE "idle"
  <1>1. /\ pc[t] = "verify" /\ pc' = [pc EXCEPT ![t] = p, ![l] = "due"] /\ EndJob(t, p)
        /\ UNCHANGED <<live, refs, tmp, held, real, launch, wrong>>
    BY <1>a, <1>b DEF Verify, AfterCheck, counts
  <1>2. /\ l # Nil /\ l \in Launches /\ l \in Actors /\ t \in Actors /\ t \notin Launches /\ l # t
        /\ job[t].kern \in Kernels /\ held[job[t].kern] > 0
        /\ launch[l].kern = job[t].kern /\ launch[l] # NoLaunch
        /\ c \in {l, job[t].kern} /\ Counted(t) = c /\ l \notin Kernels
        /\ pc[l] = "idle" /\ c \in live /\ c \in Ids
    BY <1>0, <1>1, <1>a, <1>b, UnderWay, ActorsApart DEF UseAt, LaunchAt, Resting, Early, Releasing, CountTypeOK
  <1>3. p \in {"wait", "clean", "idle"} /\ p \in Places /\ "due" \in Places BY DEF Places, ThreadPlaces
  <1>4. /\ pc' \in [Actors -> Places] /\ pc'[t] = p /\ pc'[l] = "due"
        /\ \A a \in Actors \ {t, l} : pc'[a] = pc[a]
    BY <1>0, <1>1, <1>2, <1>3 DEF CountTypeOK
  <1>5. /\ job' \in [Threads -> Jobs] /\ \A u \in Threads \ {t} : job'[u] = job[u]
        /\ job'[t] = IF p = "idle" THEN NoJob ELSE job[t]
    BY <1>0, <1>1, NoJobIs DEF EndJob, CountTypeOK
  <1>6. CountTypeOK'
    <2>1. \A u \in Threads : pc'[u] \in ThreadPlaces
      BY <1>0, <1>2, <1>3, <1>4, ActorsApart DEF CountTypeOK, ThreadPlaces
    <2>2. \A m \in Launches : pc'[m] \in {"idle", "due", "walk", "dec", "decstore", "drop"}
      BY <1>0, <1>2, <1>4, ActorsApart DEF CountTypeOK
    <2> QED BY <1>0, <1>1, <1>4, <1>5, <2>1, <2>2 DEF CountTypeOK
  <1>7. Quiet(t, l)
    <2>1. \A u \in Threads \ {t} : pc[u] # "idle" /\ ~Releasing(u) => held'[job[u].kern] > 0
      BY <1>1 DEF RefInv, UseInv, UseAt
    <2>2. \A u \in Threads \ {t} : pc'[u] = pc[u] /\ job'[u] = job[u] /\ tmp'[u] = tmp[u]
      BY <1>1, <1>2, <1>4, <1>5, ActorsApart
    <2>3. \A m \in Launches \ {l} : pc'[m] = pc[m] /\ tmp'[m] = tmp[m]
      BY <1>1, <1>4, ActorsApart
    <2> QED BY <1>1, <1>a, <2>1, <2>2, <2>3 DEF Quiet
  <1>8. UseAt(t)' /\ LaunchAt(t)'
    <2>1. CASE p = "idle" BY <1>4, <1>5, <2>1, NoJobIs DEF UseAt, LaunchAt, Resting, Early
    <2>2. CASE p = "clean"
      <3>1. c = l /\ l \notin Waiting /\ pc'[t] = "clean" /\ job'[t] = job[t] BY <1>4, <1>5, <2>2
      <3>2. UseAt(t)' BY <1>0, <1>1, <1>2, <3>1 DEF UseAt, Releasing
      <3>3. LaunchAt(t)' BY <1>1, <1>2, <1>a, <1>b, <3>1 DEF LaunchAt, Resting, Early
      <3> QED BY <3>2, <3>3
    <2>3. CASE p = "wait"
      <3>1. pc'[t] = "wait" /\ job'[t] = job[t] BY <1>4, <1>5, <2>3
      <3>2. UseAt(t)' BY <1>0, <1>1, <1>2, <3>1 DEF UseAt, Releasing
      <3>3. LaunchAt(t)' BY <1>1, <1>2, <1>a, <1>b, <3>1 DEF LaunchAt, Resting, Early
      <3> QED BY <3>2, <3>3
    <2> QED BY <1>3, <2>1, <2>2, <2>3
  <1>9. \A u \in Threads \ {t} : job'[t].launch # Nil => job'[t].launch # job[u].launch
    BY <1>5, NoJobIs DEF RefInv, UseInv
  <1>10. ASSUME NEW m \in Launches, launch[m] = NoLaunch PROVE MadeAt(m)'
    <2>1. NoLaunch.kern = Nil BY DEF NoLaunch
    <2>2. pc[m] = "idle" BY <1>10, <2>1, ActorsApart DEF RefInv, UseInv, MadeAt
    <2>3. pc'[m] = "idle" BY <1>2, <1>4, <1>10, <2>2, ActorsApart
    <2> QED BY <1>1, <1>10, <2>3 DEF MadeAt
  <1>11. StoreAt(t)' /\ ~Counting(t)' /\ ~Counting(l)' BY <1>3, <1>4 DEF StoreAt, Counting
  <1>12. \A k \in Ids : (k = l => c = l) => Owed(k)' = Owed(k) /\ Owed(k) \in Nat
    <2> TAKE k \in Ids
    <2> HAVE k = l => c = l
    <2>1. Base(k)' = Base(k) BY <1>1 DEF Base
    <2>2. t \notin Giving(k) /\ t \notin Giving(k)' BY <1>1, <1>3, <1>4 DEF Giving
    <2>3. t \in Verifying(k) <=> k = c BY <1>1, <1>2 DEF Verifying
    <2>4. t \notin Verifying(k)' BY <1>3, <1>4 DEF Verifying
    <2>5. l \notin Reports(k) BY <1>2 DEF Reports, Reporting
    <2>6. l \in Reports(k)' <=> k = c BY <1>1, <1>2, <1>4, <1>b DEF Reports, Reporting
    <2>7. t \in Standing(k)' <=> t \in Standing(k)
      <3>1. CASE k = l
        <4>1. p \in {"wait", "clean"} BY <3>1
        <4> QED BY <1>1, <1>4, <1>5, <1>a, <3>1, <4>1 DEF Standing
      <3>2. CASE k # l
        <4>1. k # Nil BY ActorsApart
        <4>2. job'[t].launch \in {l, Nil} /\ job[t].launch = l BY <1>5, <1>a, NoJobIs
        <4> QED BY <3>2, <4>1, <4>2 DEF Standing
      <3> QED BY <3>1, <3>2
    <2>8. Share(k, t, l)' = Share(k, t, l)
      BY <2>2, <2>3, <2>4, <2>5, <2>6, <2>7 DEF Share, OneOf
    <2> QED BY <1>6, <1>7, <2>1, <2>8, QuietOwed
  <1>13. \A k \in live : k = l => c = l BY <1>2, <1>b DEF RefInv, KeptInv
  <1>14. AbsentInv'
    <2> SUFFICES ASSUME NEW k \in Kernels \ live PROVE AbsentAt(k)' BY <1>1 DEF AbsentInv
    <2>1. AbsentAt(k) BY DEF RefInv, AbsentInv
    <2>2. \A u \in Threads : pc'[u] \in {"dec", "decstore"} => pc'[u] = pc[u] /\ job'[u] = job[u]
      BY <1>2, <1>3, <1>4, <1>5, ActorsApart
    <2> QED BY <1>1, <2>1, <2>2 DEF AbsentAt, Releasing
  <1>15. CountInv'
    <2> SUFFICES ASSUME NEW k \in live PROVE refs'[k] = Owed(k)' BY <1>1 DEF CountInv
    <2>1. k \in Ids /\ refs[k] = Owed(k) BY <1>0 DEF RefInv, CountInv, CountTypeOK
    <2> QED BY <1>1, <1>12, <1>13, <2>1
  <1>16. ASSUME NEW m \in live' \cap Launches
         PROVE  /\ Owed(m)' > 0 \/ \E b \in Actors : pc'[b] = "drop" /\ Counted(b)' = m
                /\ launch'[m].used = m
    <2>1. m \in live \cap Launches /\ m \in Ids BY <1>1, ActorsApart
    <2>2. launch'[m].used = m BY <1>1, <2>1 DEF RefInv, KeptInv
    <2>3. CASE Owed(m) > 0 BY <1>12, <1>13, <2>1, <2>2, <2>3
    <2>4. CASE ~(Owed(m) > 0)
      <3>1. PICK b \in Actors : pc[b] = "drop" /\ Counted(b) = m BY <2>1, <2>4 DEF RefInv, KeptInv
      <3>2. b # t /\ b # l BY <1>1, <1>2, <3>1
      <3>3. pc'[b] = "drop" BY <1>4, <3>1, <3>2
      <3>4. Counted(b)' = m BY <1>6, <1>7, <3>1, <3>2, QuietOthers, ActorsApart
      <3> QED BY <2>2, <3>3, <3>4
    <2> QED BY <2>3, <2>4
  <1>17. launch'[l].used \in live' BY <1>1, <1>2, <1>b
  <1>18. \A b \in {t, l} \ {t} : ~Counting(b)' BY <1>11 DEF Counting
  <1>19. wrong' \subseteq BadLists BY <1>1
  <1>20. Counting(t)' => \A b \in Actors \ {t} : Counting(b) => Counted(b) # Counted(t)' BY <1>11
  <1> HIDE DEF p
  <1> QED
    BY <1>6, <1>7, <1>8, <1>9, <1>10, <1>11, <1>14, <1>15, <1>16, <1>17, <1>18, <1>19, <1>20, QuietStep

\* A launch yet to be made: nobody has to do with it.
LEMMA Unmade ==
    ASSUME RefInv, NEW l \in Launches, launch[l] = NoLaunch
    PROVE  /\ pc[l] = "idle" /\ l \notin live /\ Owed(l) = 0
           /\ \A u \in Threads : job[u].launch # l
  <1>0. CountTypeOK BY DEF RefInv
  <1>1. NoLaunch.kern = Nil /\ NoLaunch.used = Nil BY DEF NoLaunch
  <1>2. pc[l] = "idle" BY <1>1, ActorsApart DEF RefInv, UseInv, MadeAt
  <1>3. l \notin live BY <1>1, ActorsApart DEF RefInv, KeptInv
  <1>4. \A u \in Threads : job[u].launch # l BY ActorsApart, UnderWay
  <1>5. ASSUME NEW m \in Launches, launch[m] # NoLaunch PROVE launch[m].used # l
    <2>1. launch[m].used \in {m, launch[m].kern} /\ launch[m].kern \in Kernels
      BY <1>5 DEF RefInv, UseInv, MadeAt
    <2> QED BY <1>5, <2>1, ActorsApart
  <1>6. Giving(l) = {} BY <1>0, ActorsApart DEF Giving, CountTypeOK, Jobs
  <1>7. Standing(l) = {} BY <1>4 DEF Standing
  <1>8. Verifying(l) = {}
    <2> SUFFICES ASSUME NEW u \in Threads, pc[u] = "verify", Counted(u) = l PROVE FALSE
      BY DEF Verifying
    <2>1. job[u].launch # Nil BY DEF RefInv, UseInv, UseAt
    <2> QED BY <1>5, <2>1, UnderWay
  <1>9. Reports(l) = {}
    <2> SUFFICES ASSUME NEW m \in Launches, Reporting(m), launch[m].used = l PROVE FALSE
      BY DEF Reports
    <2>1. launch[m] = NoLaunch BY <1>5
    <2> QED BY <1>1, <2>1, ActorsApart
  <1>10. Owed(l) = Base(l) BY <1>0, <1>6, <1>7, <1>8, <1>9, OwedNone
  <1>11. Base(l) = 0 BY ActorsApart DEF Base
  <1> QED BY <1>2, <1>3, <1>4, <1>10, <1>11

\* The launch of kernel k0, or of a stand-in, by thread t.
LEMMA KeepsLaunch ==
    ASSUME RefInv, wrong = {}, wrong' = {}, NEW t \in Threads, NEW l \in Launches, NEW k0 \in Kernels,
           pc[t] = "idle", held[k0] > 0, launch[l] = NoLaunch, k0 \in live,
           NEW r, r.kern = k0, r.used \in {l, k0}, launch' = [launch EXCEPT ![l] = r],
           live' = IF r.used = l THEN live \cup {l} ELSE live,
           refs' = IF r.used = l THEN [refs EXCEPT ![l] = 1] ELSE refs,
           NEW j \in Jobs, j.kern = k0, j.launch = l, job' = [job EXCEPT ![t] = j],
           Goto(t, "inc"), UNCHANGED <<tmp, real, held>>
    PROVE  RefInv'
  <1>0. CountTypeOK BY DEF RefInv
  <1>1. /\ pc[l] = "idle" /\ l \notin live /\ Owed(l) = 0
        /\ \A u \in Threads : job[u].launch # l
    BY Unmade
  <1>2. /\ l \in Ids /\ l \in Actors /\ l # Nil /\ l \notin Kernels /\ l \notin Threads
        /\ t \in Actors /\ t \notin Launches
    BY ActorsApart
  <1>3. /\ launch' = [m \in Launches |-> launch'[m]] /\ launch'[l] = r
        /\ \A m \in Launches \ {l} : launch'[m] = launch[m]
    <2>1. launch = [m \in Launches |-> launch[m]] BY <1>0 DEF CountTypeOK
    <2>2. launch' = [m \in Launches |-> IF m = l THEN r ELSE launch[m]] BY <2>1
    <2> QED BY <2>2
  <1>4. /\ job' \in [Threads -> Jobs] /\ job'[t] = j
        /\ \A u \in Threads \ {t} : job'[u] = job[u]
    BY <1>0 DEF CountTypeOK
  <1>5. /\ pc' \in [Actors -> Places] /\ pc'[t] = "inc"
        /\ \A a \in Actors \ {t} : pc'[a] = pc[a]
        /\ \A u \in Threads : pc'[u] \in ThreadPlaces
        /\ \A m \in Launches : pc'[m] = pc[m]
    BY <1>0, GotoOK DEF ThreadPlaces
  <1>6. /\ refs' \in [Ids -> Int] /\ \A k \in Ids \ {l} : refs'[k] = refs[k]
        /\ r.used = l => refs'[l] = 1
        /\ live' \subseteq Ids /\ live \subseteq live' /\ r.used \in live'
        /\ live' \subseteq live \cup {l} /\ l \in live' => r.used = l
    BY <1>0, <1>1, <1>2 DEF CountTypeOK
  <1>7. CountTypeOK' BY <1>0, <1>3, <1>4, <1>5, <1>6 DEF CountTypeOK
  <1>8. Quiet(t, t)
    <2>1. \A u \in Threads \ {t} : pc[u] # "idle" /\ ~Releasing(u) => held'[job[u].kern] > 0
      BY DEF RefInv, UseInv, UseAt
    <2>2. ASSUME NEW b \in Actors, Counting(b) PROVE refs'[Counted(b)] = refs[Counted(b)]
      <3>1. Counted(b) \in live BY <2>2 DEF RefInv, StoreInv, StoreAt, Counting
      <3> QED BY <1>0, <1>1, <1>6, <3>1 DEF CountTypeOK
    <2>3. \A u \in Threads \ {t} : pc'[u] = pc[u] /\ job'[u] = job[u] /\ tmp'[u] = tmp[u]
      BY <1>4, <1>5, ActorsApart
    <2>4. \A m \in Launches : launch[m] # NoLaunch => launch'[m] = launch[m] BY <1>3
    <2> QED BY <1>2, <1>5, <1>6, <2>1, <2>2, <2>3, <2>4 DEF Quiet
  <1>9. \A k \in Ids : Owed(k)' = Owed(k) + (IF k = l THEN 1 ELSE 0) /\ Owed(k) \in Nat
    <2> TAKE k \in Ids
    <2>1. Base(k)' = Base(k) BY DEF Base
    <2>2. /\ t \notin Giving(k) /\ t \notin Giving(k)' /\ t \notin Verifying(k) /\ t \notin Verifying(k)'
          /\ t \notin Reports(k) /\ t \notin Reports(k)' /\ t \notin Standing(k)
          /\ t \in Standing(k)' <=> k = l
      BY <1>2, <1>4, <1>5 DEF Giving, Verifying, Reports, Standing
    <2>3. Share(k, t, t) = 0 /\ Share(k, t, t)' = IF k = l THEN 1 ELSE 0
      BY <1>2, <2>2 DEF Share, OneOf
    <2> QED BY <1>7, <1>8, <2>1, <2>3, QuietOwed
  <1>10. AbsentInv'
    <2> SUFFICES ASSUME NEW k \in Kernels \ live' PROVE AbsentAt(k)' BY DEF AbsentInv
    <2>1. AbsentAt(k) BY <1>6 DEF RefInv, AbsentInv
    <2>2. \A u \in Threads : pc'[u] \in {"dec", "decstore"} => pc'[u] = pc[u] /\ job'[u] = job[u]
      BY <1>4, <1>5, ActorsApart
    <2> QED BY <2>1, <2>2 DEF AbsentAt, Releasing
  <1>11. CountInv'
    <2> SUFFICES ASSUME NEW k \in live' PROVE refs'[k] = Owed(k)' BY DEF CountInv
    <2>1. k \in Ids BY <1>6
    <2>2. CASE k = l BY <1>1, <1>2, <1>6, <1>9, <2>2
    <2>3. CASE k # l
      <3>1. refs[k] = Owed(k) BY <1>6, <2>3 DEF RefInv, CountInv
      <3> QED BY <1>6, <1>9, <2>1, <2>3, <3>1
    <2> QED BY <2>2, <2>3
  <1>12. ASSUME NEW m \in live' \cap Launches
         PROVE  /\ Owed(m)' > 0 \/ \E b \in Actors : pc'[b] = "drop" /\ Counted(b)' = m
                /\ launch'[m].used = m
    <2>0. m \in Ids BY ActorsApart
    <2>1. CASE m = l
      BY <1>1, <1>3, <1>6, <1>9, <2>0, <2>1
    <2>2. CASE m # l
      <3>1. m \in live BY <1>6, <2>2
      <3>2. launch'[m].used = m BY <1>3, <2>2, <3>1 DEF RefInv, KeptInv
      <3>3. CASE Owed(m) > 0 BY <1>9, <2>0, <2>2, <3>2, <3>3
      <3>4. CASE ~(Owed(m) > 0)
        <4>1. PICK b \in Actors : pc[b] = "drop" /\ Counted(b) = m BY <3>1, <3>4 DEF RefInv, KeptInv
        <4>2. pc'[b] = "drop" /\ b # t BY <1>5, <4>1
        <4>3. Counted(b)' = m BY <1>7, <1>8, <4>1, <4>2, QuietOthers, ActorsApart
        <4> QED BY <3>2, <4>2, <4>3
      <3> QED BY <3>3, <3>4
    <2> QED BY <2>1, <2>2
  <1>13. UseAt(t)' /\ LaunchAt(t)'
    <2>1. UseAt(t)' BY <1>2, <1>4, <1>5, NoJobIs DEF UseAt, Releasing
    <2>2. LaunchAt(t)' BY <1>1, <1>2, <1>3, <1>4, <1>5, <1>6 DEF LaunchAt, Resting, Early
    <2> QED BY <2>1, <2>2
  <1>14. \A u \in Threads \ {t} : job'[t].launch # Nil => job'[t].launch # job[u].launch BY <1>1, <1>4
  <1>15. ASSUME NEW m \in Launches, launch[m] = NoLaunch PROVE MadeAt(m)'
    <2>1. CASE m = l BY <1>3, <2>1 DEF MadeAt
    <2>2. CASE m # l
      <3>1. pc[m] = "idle" BY <1>15, Unmade
      <3> QED BY <1>3, <1>5, <1>15, <2>2, <3>1 DEF MadeAt
    <2> QED BY <2>1, <2>2
  <1>16. StoreAt(t)' /\ ~Counting(t)' BY <1>5 DEF StoreAt, Counting
  <1> QED BY <1>2, <1>7, <1>8, <1>10, <1>11, <1>12, <1>13, <1>14, <1>15, <1>16, QuietStep

\* The launch of a kernel that has no buffers: nothing is checked.
LEMMA KeepsBareLaunch ==
    ASSUME RefInv, wrong = {}, wrong' = {}, NEW t \in Threads, NEW l \in Launches, NEW k0 \in Kernels,
           pc[t] = "idle", launch[l] = NoLaunch,
           NEW r, r.kern = k0, r.used = k0, launch' = [launch EXCEPT ![l] = r],
           Goto(t, "idle"), UNCHANGED <<live, refs, tmp, real, held, job>>
    PROVE  RefInv'
  <1>0. CountTypeOK /\ UseAt(t) /\ LaunchAt(t) BY DEF RefInv, UseInv
  <1>1. pc[l] = "idle" /\ l \notin live BY Unmade
  <1>2. t \in Actors /\ t \notin Launches BY ActorsApart
  <1>3. /\ launch' = [m \in Launches |-> launch'[m]] /\ launch'[l] = r
        /\ \A m \in Launches \ {l} : launch'[m] = launch[m]
    <2>1. launch = [m \in Launches |-> launch[m]] BY <1>0 DEF CountTypeOK
    <2>2. launch' = [m \in Launches |-> IF m = l THEN r ELSE launch[m]] BY <2>1
    <2> QED BY <2>2
  <1>4. pc' = pc BY <1>0, <1>2 DEF Goto, CountTypeOK
  <1>5. job[t] = NoJob BY <1>0 DEF UseAt
  <1>6. CountTypeOK' BY <1>0, <1>3, <1>4 DEF CountTypeOK
  <1>7. Quiet(t, t)
    <2>1. \A u \in Threads \ {t} : pc[u] # "idle" /\ ~Releasing(u) => held'[job[u].kern] > 0
      BY DEF RefInv, UseInv, UseAt
    <2> QED BY <1>2, <1>3, <1>4, <2>1 DEF Quiet
  <1>8. \A k \in Ids : Owed(k)' = Owed(k) /\ Owed(k) \in Nat
    <2> TAKE k \in Ids
    <2>1. Base(k)' = Base(k) BY DEF Base
    <2>2. /\ t \notin Giving(k) /\ t \notin Giving(k)' /\ t \notin Verifying(k) /\ t \notin Verifying(k)'
          /\ t \notin Reports(k) /\ t \notin Reports(k)' /\ t \notin Standing(k) /\ t \notin Standing(k)'
      BY <1>2, <1>4 DEF Giving, Verifying, Reports, Standing
    <2>3. Share(k, t, t) = 0 /\ Share(k, t, t)' = 0 BY <2>2 DEF Share, OneOf
    <2> QED BY <1>6, <1>7, <2>1, <2>3, QuietOwed
  <1>9. AbsentInv' BY <1>4 DEF RefInv, AbsentInv, AbsentAt, Releasing
  <1>10. CountInv'
    <2> SUFFICES ASSUME NEW k \in live PROVE refs'[k] = Owed(k)' BY DEF CountInv
    <2>1. k \in Ids /\ refs[k] = Owed(k) BY <1>0 DEF RefInv, CountInv, CountTypeOK
    <2> QED BY <1>8, <2>1
  <1>11. ASSUME NEW m \in live' \cap Launches
         PROVE  /\ Owed(m)' > 0 \/ \E b \in Actors : pc'[b] = "drop" /\ Counted(b)' = m
                /\ launch'[m].used = m
    <2>1. m \in live /\ m \in Ids /\ m # l BY <1>1, ActorsApart
    <2>2. launch'[m].used = m BY <1>3, <2>1 DEF RefInv, KeptInv
    <2>3. CASE Owed(m) > 0 BY <1>8, <2>1, <2>2, <2>3
    <2>4. CASE ~(Owed(m) > 0)
      <3>1. PICK b \in Actors : pc[b] = "drop" /\ Counted(b) = m BY <2>1, <2>4 DEF RefInv, KeptInv
      <3>2. b # t BY <3>1
      <3>3. Counted(b)' = m BY <1>6, <1>7, <3>1, <3>2, QuietOthers, ActorsApart
      <3> QED BY <1>4, <2>2, <3>1, <3>3
    <2> QED BY <2>3, <2>4
  <1>12. UseAt(t)' /\ LaunchAt(t)' BY <1>4, <1>5, NoJobIs DEF UseAt, LaunchAt, Resting, Early
  <1>13. \A u \in Threads \ {t} : job'[t].launch # Nil => job'[t].launch # job[u].launch BY <1>5, NoJobIs
  <1>14. ASSUME NEW m \in Launches, launch[m] = NoLaunch PROVE MadeAt(m)'
    <2>1. CASE m = l BY <1>3, <2>1 DEF MadeAt
    <2>2. CASE m # l
      <3>1. pc[m] = "idle" BY <1>14, Unmade
      <3> QED BY <1>3, <1>4, <1>14, <2>2, <3>1 DEF MadeAt
    <2> QED BY <2>1, <2>2
  <1>15. StoreAt(t)' /\ ~Counting(t)' BY <1>4 DEF StoreAt, Counting
  <1> QED BY <1>2, <1>6, <1>7, <1>9, <1>10, <1>11, <1>12, <1>13, <1>14, <1>15, QuietStep

HasHost(k) == \E i \in Index : buf[Argument(k, i)] \in HostBuffers

HasBuffer(k) == \E i \in Index : buf[Argument(k, i)] # NoBuffer

LaunchJob(k, l) == [NoJob EXCEPT !.kern = k, !.launch = l]

LaunchRecord(k, l) ==
    [kern |-> k, used |-> IF HasHost(k) THEN l ELSE k, given |-> real[k], dupe |-> Duplicates(k)]

LEMMA LaunchJobIs ==
    ASSUME NEW k \in Kernels, NEW l \in Launches
    PROVE  /\ LaunchJob(k, l) \in Jobs
           /\ LaunchJob(k, l).kern = k /\ LaunchJob(k, l).launch = l
  <1>1. LaunchJob(k, l) = [kern |-> k, index |-> 0, value |-> NoBuffer, lp |-> Nil, node |-> Nil, launch |-> l]
    <2> DEFINE j == [NoJob EXCEPT !.kern = k]
    <2>1. j = [kern |-> k, index |-> 0, value |-> NoBuffer, lp |-> Nil, node |-> Nil, launch |-> Nil]
      BY DEF NoJob
    <2>2. LaunchJob(k, l) = [j EXCEPT !.launch = l] BY DEF LaunchJob, NoJob
    <2> QED BY <2>1, <2>2
  <1> QED BY <1>1 DEF Jobs, Values

\* The kernel that is launched has a record, unless the list is short.
LEMMA LaunchOf ==
    ASSUME RefInv, OwnInv, wrong = {}, NEW t \in Threads, NEW l \in Launches, NEW k \in Kernels,
           LaunchKernel(t, l, k)
    PROVE  /\ pc[t] = "idle" /\ held[k] > 0 /\ launch[l] = NoLaunch /\ k \in live
           /\ UNCHANGED <<tmp, real, held>>
           /\ \/ wrong' = {<<"short", l>>} /\ UNCHANGED <<counts, lists, mem, pc, job, launch>>
              \/ /\ \A i \in Index : Argument(k, i) # Nil
                 /\ wrong' = {}
                 /\ launch' = [launch EXCEPT ![l] = LaunchRecord(k, l)]
                 /\ IF HasHost(k) THEN StandIn(t, l, k) ELSE UNCHANGED <<live, refs, lists, mem>>
                 /\ job' = IF HasBuffer(k) THEN [job EXCEPT ![t] = LaunchJob(k, l)] ELSE job
                 /\ Goto(t, IF HasBuffer(k) THEN "inc" ELSE "idle")
  <1>1. /\ pc[t] = "idle" /\ held[k] > 0 /\ launch[l] = NoLaunch
        /\ \A i \in Index : real[k][i] \in mem \cup {NoBuffer}
        /\ UNCHANGED <<real, held>>
    BY DEF LaunchKernel
  <1>2. k \in live
    <2>1. 1 \in Index BY RecordAssumption DEF Index
    <2>2. Nil \notin mem \cup {NoBuffer}
      BY RecordAssumption DEF OwnInv, OwnBuffers
    <2>3. real[k][1] # Nil BY <1>1, <2>1, <2>2
    <2> SUFFICES ASSUME k \notin live PROVE FALSE OBVIOUS
    <2>4. AbsentAt(k) BY DEF RefInv, AbsentInv
    <2>5. held[k] = 1 BY <1>1, AbsentOwed
    <2> QED BY <2>1, <2>3, <2>4, <2>5 DEF AbsentAt
  <1>3. CASE \E i \in Index : Argument(k, i) = Nil
    <2>1. wrong' = wrong \cup {<<"short", l>>} /\ UNCHANGED <<counts, lists, mem, pc, job, launch>>
      BY <1>2, <1>3 DEF LaunchKernel
    <2> QED BY <1>1, <1>2, <2>1 DEF counts
  <1>4. CASE ~\E i \in Index : Argument(k, i) = Nil
    BY <1>1, <1>2, <1>4 DEF LaunchKernel, LaunchRecord, LaunchJob, HasHost, HasBuffer
  <1> QED BY <1>3, <1>4

LEMMA KeepsLaunchKernel ==
    ASSUME RefInv, OwnInv, wrong = {}, NEW t \in Threads, NEW l \in Launches, NEW k \in Kernels,
           LaunchKernel(t, l, k)
    PROVE  RefInv'
  <1> DEFINE hasHost == HasHost(k)
             hasBuffer == HasBuffer(k)
  <1>a. PICK r : r = LaunchRecord(k, l) OBVIOUS
  <1>b. PICK j : j = LaunchJob(k, l) OBVIOUS
  <1>1. /\ pc[t] = "idle" /\ held[k] > 0 /\ launch[l] = NoLaunch /\ k \in live
        /\ UNCHANGED <<tmp, real, held>>
        /\ \/ wrong' = {<<"short", l>>} /\ UNCHANGED <<counts, lists, mem, pc, job, launch>>
           \/ /\ wrong' = {}
              /\ launch' = [launch EXCEPT ![l] = r]
              /\ IF hasHost THEN StandIn(t, l, k) ELSE UNCHANGED <<live, refs, lists, mem>>
              /\ job' = IF hasBuffer THEN [job EXCEPT ![t] = j] ELSE job
              /\ Goto(t, IF hasBuffer THEN "inc" ELSE "idle")
    BY <1>a, <1>b, LaunchOf
  <1>2. r.kern = k /\ r.used = (IF hasHost THEN l ELSE k) /\ l # k
    BY <1>a, ActorsApart DEF LaunchRecord
  <1>3. j \in Jobs /\ j.kern = k /\ j.launch = l BY <1>b, LaunchJobIs
  <1>4. hasHost => hasBuffer BY RecordAssumption DEF HasHost, HasBuffer
  <1>5. CASE wrong' = {<<"short", l>>} /\ UNCHANGED <<counts, lists, mem, pc, job, launch>>
    <2>1. UNCHANGED <<live, refs, tmp, real, held, pc, job, launch>> BY <1>1, <1>5 DEF counts
    <2>2. wrong' \subseteq BadLists BY <1>5, ActorsApart DEF BadLists
    <2>3. \A x : Giving(x)' = Giving(x) /\ Standing(x)' = Standing(x) /\ Verifying(x)' = Verifying(x)
      BY <2>1 DEF Giving, Standing, Verifying, Counted
    <2>4. CalmThread(t) BY <1>1, <2>1, <2>2, <2>3 DEF CalmThread
    <2>5. CountTypeOK' /\ UseAt(t)' /\ LaunchAt(t)'
      BY <2>1 DEF RefInv, UseInv, CountTypeOK, UseAt, LaunchAt, Resting, Early, Releasing
    <2> QED BY <2>4, <2>5, CalmThreadStep
  <1>6. CASE /\ wrong' = {} /\ launch' = [launch EXCEPT ![l] = r]
             /\ IF hasHost THEN StandIn(t, l, k) ELSE UNCHANGED <<live, refs, lists, mem>>
             /\ job' = IF hasBuffer THEN [job EXCEPT ![t] = j] ELSE job
             /\ Goto(t, IF hasBuffer THEN "inc" ELSE "idle")
    <2>1. CASE hasBuffer
      <3>1. /\ live' = IF r.used = l THEN live \cup {l} ELSE live
            /\ refs' = IF r.used = l THEN [refs EXCEPT ![l] = 1] ELSE refs
        <4>1. CASE hasHost BY <1>2, <1>6, <4>1 DEF StandIn
        <4>2. CASE ~hasHost BY <1>2, <1>6, <4>2
        <4> QED BY <4>1, <4>2
      <3>2. job' = [job EXCEPT ![t] = j] /\ Goto(t, "inc") /\ r.used \in {l, k} BY <1>2, <1>6, <2>1
      <3>3. launch' = [launch EXCEPT ![l] = r] /\ wrong' = {} BY <1>6
      <3> QED BY <1>1, <1>2, <1>3, <3>1, <3>2, <3>3, KeepsLaunch
    <2>2. CASE ~hasBuffer
      <3>1. UNCHANGED <<live, refs, job>> /\ Goto(t, "idle") /\ r.used = k BY <1>2, <1>4, <1>6, <2>2
      <3>2. launch' = [launch EXCEPT ![l] = r] /\ wrong' = {} BY <1>6
      <3> QED BY <1>1, <1>2, <3>1, <3>2, KeepsBareLaunch
    <2> QED BY <2>1, <2>2
  <1> QED BY <1>1, <1>5, <1>6

-----------------------------------------------------------------------------
(***************************************************************************)
(* The lists: every step keeps the arguments of a kernel to themselves.    *)
(***************************************************************************)
Setting == {"head", "remove", "insert"}

\* A step that leaves the lists alone, and in which no thread begins to set an
\* argument or goes on.
LEMMA NodeKeep ==
    ASSUME NodeInv, UNCHANGED lists,
           \A t \in Threads : (pc'[t] = pc[t] /\ job'[t] = job[t]) \/ pc'[t] \notin Setting
    PROVE  NodeInv'
  <1>1. UNCHANGED <<head, next, buf>> BY DEF lists
  <1>2. \A t \in Threads : pc'[t] \in Setting => job'[t].index \in Index
    BY DEF NodeInv, Setting
  <1>3. \A t \in Threads : pc'[t] = "remove" => job'[t].lp \in NodesOf(job'[t].kern) \cup {Nil}
    BY DEF NodeInv, Setting
  <1>4. \A t \in Threads : pc'[t] = "insert" => job'[t].node \in NodesOf(job'[t].kern)
    BY DEF NodeInv, Setting
  <1> QED BY <1>1, <1>2, <1>3, <1>4 DEF NodeInv, NodesOf, Setting

\* A step on the list of k, in which no thread begins to set an argument or goes on.
LEMMA NodeChange ==
    ASSUME NodeInv, NEW k \in Ids,
           head' = [x \in Ids |-> head'[x]], next' = [n \in Nodes |-> next'[n]],
           buf' = [n \in Nodes |-> buf'[n]],
           \A x \in Ids \ {k} : head'[x] = head[x],
           head'[k] \in NodesOf(k) \cup {Nil},
           \A n \in Nodes : \/ next'[n] = next[n]
                            \/ n \in NodesOf(k) /\ next'[n] \in NodesOf(k) \cup {Nil},
           \A n \in Nodes : buf'[n] = buf[n] \/ buf'[n] \in Values \/ (n \in NodesOf(k) /\ k \notin Kernels),
           \A t \in Threads : \/ pc'[t] = pc[t] /\ job'[t] = job[t]
                              \/ pc'[t] \notin Setting
                              \/ /\ pc'[t] = "insert" /\ job'[t].index \in Index
                                 /\ job'[t].node \in NodesOf(job'[t].kern)
    PROVE  NodeInv'
  <1>1. \A x : NodesOf(x)' = NodesOf(x) /\ NodesOf(x) \subseteq Nodes BY DEF NodesOf
  <1>2. \A x \in Ids : head'[x] \in NodesOf(x) \cup {Nil} BY DEF NodeInv
  <1>3. \A x \in Ids : \A n \in NodesOf(x) : next'[n] \in NodesOf(x) \cup {Nil}
    BY <1>1 DEF NodeInv, NodesOf
  <1>4. ASSUME NEW x \in Kernels, NEW n \in NodesOf(x) PROVE buf'[n] \in Values
    <2>1. n \in Nodes /\ n[1] = x BY DEF NodesOf
    <2>2. buf[n] \in Values BY DEF NodeInv
    <2>3. ~(n \in NodesOf(k) /\ k \notin Kernels) BY <2>1 DEF NodesOf
    <2> QED BY <2>1, <2>2, <2>3
  <1>5. \A n \in Nodes : n[1] \in Ids /\ n \in NodesOf(n[1]) BY DEF Nodes, NodesOf
  <1>6. next' \in [Nodes -> Nodes \cup {Nil}]
    <2>1. \A n \in Nodes : next'[n] \in Nodes \cup {Nil} BY <1>1, <1>3, <1>5
    <2> QED BY <2>1
  <1>7. head' \in [Ids -> Nodes \cup {Nil}]
    <2>1. \A x \in Ids : head'[x] \in Nodes \cup {Nil} BY <1>1, <1>2
    <2> QED BY <2>1
  <1>8. \A t \in Threads : pc'[t] \in Setting => job'[t].index \in Index
    BY DEF NodeInv, Setting
  <1>9. \A t \in Threads : pc'[t] = "remove" => job'[t].lp \in NodesOf(job'[t].kern) \cup {Nil}
    BY DEF NodeInv, Setting
  <1>10. \A t \in Threads : pc'[t] = "insert" => job'[t].node \in NodesOf(job'[t].kern)
    BY DEF NodeInv, Setting
  <1> QED BY <1>1, <1>2, <1>3, <1>4, <1>6, <1>7, <1>8, <1>9, <1>10 DEF NodeInv, Setting

\* Before the place where a search stops there is no end.
LEMMA StopLeast ==
    ASSUME NEW trail, NEW nodes, Stop(trail, nodes) # -1, Stop(trail, nodes) > 0
    PROVE  /\ Stop(trail, nodes) - 1 \in 0 .. Fuel
           /\ trail[Stop(trail, nodes) - 1] \notin nodes \cup {Nil}
  <1> DEFINE at == {j \in 0 .. Fuel : trail[j] \in nodes \cup {Nil}}
             s == Stop(trail, nodes)
  <1>1. at # {} BY DEF Stop
  <1>2. at \in SUBSET Nat BY FuelNat
  <1>3. \E j \in at : \A m \in at : j <= m
    <2> HIDE DEF at
    <2> QED BY <1>1, <1>2, LeastNat
  <1>4. s = CHOOSE j \in at : \A m \in at : j <= m BY <1>1 DEF Stop
  <1>5. s \in at /\ \A m \in at : s <= m BY <1>3, <1>4
  <1>6. s \in 0 .. Fuel /\ s > 0 BY <1>5
  <1>7. s - 1 \in 0 .. Fuel BY <1>6, FuelNat
  <1>8. s - 1 \notin at
    <2>1. s \in Int BY <1>6, FuelNat
    <2> HIDE DEF s, at
    <2>2. ~(s <= s - 1) BY <2>1
    <2> QED BY <1>5, <2>2
  <1> QED BY <1>7, <1>8

LEMMA ListedIn ==
    ASSUME NodeInv, NEW k \in Ids
    PROVE  Listed(k) \subseteq NodesOf(k)
  <1>1. head[k] \in NodesOf(k) \cup {Nil} BY DEF NodeInv
  <1>2. \A j \in 0 .. Fuel : Trail(head[k])[j] \in NodesOf(k) \cup {Nil} BY <1>1, TrailIn
  <1> QED BY <1>2 DEF Listed

LEMMA NodesRemoveArg ==
    ASSUME RefInv, NodeInv, wrong = {}, NEW t \in Threads, RemoveArg(t)
    PROVE  NodeInv'
  <1>0. CountTypeOK /\ UseAt(t) BY DEF RefInv, UseInv
  <1> DEFINE k    == job[t].kern
             tr   == Trail(job[t].lp)
             S    == {x \in Nodes : x[2] >= job[t].index}
             j    == Stop(tr, S)
             hit  == j # -1 /\ tr[j] # Nil /\ tr[j][2] = job[t].index
             node == IF hit THEN tr[j] ELSE <<k, job[t].index, t>>
  <1>1. /\ pc[t] = "remove" /\ Goto(t, "insert") /\ UNCHANGED buf
        /\ next' = IF hit /\ j > 0 THEN [next EXCEPT ![tr[j - 1]] = next[node]] ELSE next
        /\ head' = IF hit /\ j = 0 THEN [head EXCEPT ![k] = next[node]] ELSE head
        /\ job' = [job EXCEPT ![t].node = node]
    BY DEF RemoveArg
  <1>2. k \in Kernels /\ k \in Ids /\ job[t] \in Jobs BY <1>0, <1>1, ActorsApart DEF UseAt, CountTypeOK
  <1>3. job[t].lp \in NodesOf(k) \cup {Nil} /\ job[t].index \in Index BY <1>1 DEF NodeInv
  <1>4. hit => tr[j] \in NodesOf(k)
    <2>1. hit => j \in 0 .. Fuel BY StopIs
    <2> QED BY <1>2, <1>3, <2>1, TrailIn
  <1>5. hit /\ j > 0 => tr[j - 1] \in NodesOf(k)
    <2> HAVE hit /\ j > 0
    <2>1. j - 1 \in 0 .. Fuel /\ tr[j - 1] \notin S \cup {Nil} BY StopLeast
    <2>2. tr[j - 1] \in NodesOf(k) \cup {Nil} BY <1>2, <1>3, <2>1, TrailIn
    <2> QED BY <2>1, <2>2
  <1>6. hit => next[node] \in NodesOf(k) \cup {Nil} BY <1>2, <1>4 DEF NodeInv
  <1>7. job'[t].node \in NodesOf(k) BY CalmRemoveArg
  <1> HIDE DEF hit, j, tr, node, S
  <1>8. /\ next' = [n \in Nodes |-> next'[n]]
        /\ \A n \in Nodes : \/ next'[n] = next[n]
                            \/ n \in NodesOf(k) /\ next'[n] \in NodesOf(k) \cup {Nil}
    <2>1. next \in [Nodes -> Nodes \cup {Nil}] BY DEF NodeInv
    <2> QED BY <1>1, <1>5, <1>6, <2>1
  <1>9. /\ head' = [x \in Ids |-> head'[x]]
        /\ \A x \in Ids \ {k} : head'[x] = head[x]
        /\ head'[k] \in NodesOf(k) \cup {Nil}
    <2>1. head \in [Ids -> Nodes \cup {Nil}] /\ head[k] \in NodesOf(k) \cup {Nil} BY <1>2 DEF NodeInv
    <2> QED BY <1>1, <1>2, <1>6, <2>1
  <1>10. buf' = [n \in Nodes |-> buf'[n]] /\ \A n \in Nodes : buf'[n] = buf[n]
    BY <1>1 DEF NodeInv
  <1>11. /\ job'[t].kern = k /\ job'[t].index = job[t].index
         /\ \A u \in Threads \ {t} : job'[u] = job[u]
    BY <1>0, <1>1, <1>2 DEF CountTypeOK, Jobs
  <1>12. pc'[t] = "insert" /\ \A a \in Actors \ {t} : pc'[a] = pc[a]
    BY <1>0, <1>1, GotoOK DEF ThreadPlaces
  <1>13. \A u \in Threads : \/ pc'[u] = pc[u] /\ job'[u] = job[u]
                            \/ /\ pc'[u] = "insert" /\ job'[u].index \in Index
                               /\ job'[u].node \in NodesOf(job'[u].kern)
    BY <1>3, <1>7, <1>11, <1>12, ActorsApart
  <1> HIDE DEF k
  <1>14. PICK x \in Ids : x = k BY <1>2
  <1> QED BY <1>8, <1>9, <1>10, <1>13, <1>14, NodeChange

LEMMA NodesInsertArg ==
    ASSUME RefInv, NodeInv, NEW t \in Threads, InsertArg(t)
    PROVE  NodeInv'
  <1>0. CountTypeOK /\ UseAt(t) BY DEF RefInv, UseInv
  <1>a. PICK k : k = job[t].kern OBVIOUS
  <1>b. PICK node : node = job[t].node OBVIOUS
  <1> DEFINE tr == Trail(head[k])
             S  == {x \in Nodes : node[2] < x[2]}
             j  == Stop(tr, S)
  <1>1. /\ pc[t] = "insert" /\ Goto(t, "idle") /\ job' = [job EXCEPT ![t] = NoJob]
        /\ IF j = -1 THEN UNCHANGED <<head, next>>
           ELSE /\ next' = CASE j = 0                -> [next EXCEPT ![node] = tr[j]]
                             [] j > 0 /\ tr[j] = Nil -> [next EXCEPT ![tr[j - 1]] = node, ![node] = Nil]
                             [] OTHER                 -> [next EXCEPT ![node] = tr[j], ![tr[j - 1]] = node]
                /\ head' = IF j = 0 THEN [head EXCEPT ![k] = node] ELSE head
        /\ buf' = [buf EXCEPT ![node] = job[t].value]
    BY <1>a, <1>b DEF InsertArg
  <1>2. /\ k \in Kernels /\ k \in Ids /\ job[t].value \in Values /\ node \in NodesOf(k)
        /\ head[k] \in NodesOf(k) \cup {Nil} /\ NodesOf(k) \subseteq Nodes
    BY <1>0, <1>1, <1>a, <1>b, ActorsApart DEF UseAt, CountTypeOK, Jobs, NodeInv, NodesOf
  <1>3. j # -1 => tr[j] \in NodesOf(k) \cup {Nil} /\ j \in Int
    <2> HAVE j # -1
    <2>1. j \in 0 .. Fuel BY StopIs
    <2> QED BY <1>2, <2>1, TrailIn, FuelNat
  <1>4. j # -1 /\ j # 0 => tr[j - 1] \in NodesOf(k) /\ j > 0
    <2> HAVE j # -1 /\ j # 0
    <2>0. j > 0 BY FuelNat, StopIs
    <2>1. j - 1 \in 0 .. Fuel /\ tr[j - 1] \notin S \cup {Nil} BY <2>0, StopLeast
    <2>2. tr[j - 1] \in NodesOf(k) \cup {Nil} BY <1>2, <2>1, TrailIn
    <2> QED BY <2>0, <2>1, <2>2
  <1> HIDE DEF j, tr, S
  <1>5. /\ next' = [n \in Nodes |-> next'[n]]
        /\ \A n \in Nodes : \/ next'[n] = next[n]
                            \/ n \in NodesOf(k) /\ next'[n] \in NodesOf(k) \cup {Nil}
    <2>1. next \in [Nodes -> Nodes \cup {Nil}] BY DEF NodeInv
    <2>2. CASE j = -1 BY <1>1, <2>1, <2>2
    <2>3. CASE j # -1 /\ j = 0
      <3>1. next' = [next EXCEPT ![node] = tr[j]] BY <1>1, <2>3
      <3> QED BY <1>2, <1>3, <2>1, <2>3, <3>1
    <2>4. CASE j # -1 /\ j # 0 /\ tr[j] = Nil
      <3>1. next' = [next EXCEPT ![tr[j - 1]] = node, ![node] = Nil] BY <1>1, <1>4, <2>4
      <3> QED BY <1>2, <1>4, <2>1, <2>4, <3>1
    <2>5. CASE j # -1 /\ j # 0 /\ tr[j] # Nil
      <3>1. next' = [next EXCEPT ![node] = tr[j], ![tr[j - 1]] = node] BY <1>1, <1>4, <2>5
      <3> QED BY <1>2, <1>3, <1>4, <2>1, <2>5, <3>1
    <2> QED BY <2>2, <2>3, <2>4, <2>5
  <1>6. /\ head' = [x \in Ids |-> head'[x]]
        /\ \A x \in Ids \ {k} : head'[x] = head[x]
        /\ head'[k] \in NodesOf(k) \cup {Nil}
    <2>1. head \in [Ids -> Nodes \cup {Nil}] BY DEF NodeInv
    <2>2. head' = head \/ head' = [head EXCEPT ![k] = node] BY <1>1
    <2> QED BY <1>2, <2>1, <2>2
  <1>7. /\ buf' = [n \in Nodes |-> buf'[n]]
        /\ \A n \in Nodes : buf'[n] = buf[n] \/ buf'[n] \in Values
    <2>1. buf = [n \in Nodes |-> buf[n]] BY DEF NodeInv
    <2>2. buf' = [n \in Nodes |-> IF n = node THEN job[t].value ELSE buf[n]] BY <1>1, <2>1
    <2> QED BY <1>2, <2>2
  <1>8. \A u \in Threads \ {t} : job'[u] = job[u] BY <1>0, <1>1 DEF CountTypeOK
  <1>9. pc'[t] = "idle" /\ \A a \in Actors \ {t} : pc'[a] = pc[a]
    BY <1>0, <1>1, GotoOK DEF ThreadPlaces
  <1>10. \A u \in Threads : (pc'[u] = pc[u] /\ job'[u] = job[u]) \/ pc'[u] \notin Setting
    BY <1>8, <1>9, ActorsApart DEF Setting
  <1> QED BY <1>2, <1>5, <1>6, <1>7, <1>10, NodeChange

LEMMA NodesDrop ==
    ASSUME RefInv, NodeInv, NEW a \in Actors, Drop(a)
    PROVE  NodeInv'
  <1>0. CountTypeOK BY DEF RefInv
  <1>a. PICK k : k = Counted(a) OBVIOUS
  <1> DEFINE last == k \in live /\ refs[k] = 0
  <1>1. /\ pc[a] = "drop" /\ Goto(a, "idle") /\ EndJob(a, "idle")
        /\ IF last THEN Free(Listed(k), next) ELSE UNCHANGED <<heap, next, buf>>
        /\ head' = IF last THEN [head EXCEPT ![k] = Nil] ELSE head
    BY <1>0, <1>a, DropIs DEF Remove, lists
  <1>2. k \in Ids /\ Listed(k) \subseteq NodesOf(k) BY <1>1, <1>a, CountedOK, ListedIn
  <1>3. /\ next \in [Nodes -> Nodes \cup {Nil}] /\ head \in [Ids -> Nodes \cup {Nil}]
        /\ head[k] \in NodesOf(k) \cup {Nil} /\ buf = [n \in Nodes |-> buf[n]]
    BY <1>2 DEF NodeInv
  <1>4. /\ next' = [n \in Nodes |-> next'[n]]
        /\ \A n \in Nodes : \/ next'[n] = next[n]
                            \/ n \in NodesOf(k) /\ next'[n] \in NodesOf(k) \cup {Nil}
    BY <1>1, <1>2, <1>3 DEF Free
  <1>5. /\ buf' = [n \in Nodes |-> buf'[n]]
        /\ \A n \in Nodes : buf'[n] = buf[n] \/ buf'[n] \in Values
    BY <1>1, <1>3 DEF Free, Values
  <1>6. /\ head' = [x \in Ids |-> head'[x]]
        /\ \A x \in Ids \ {k} : head'[x] = head[x]
        /\ head'[k] \in NodesOf(k) \cup {Nil}
    BY <1>1, <1>2, <1>3
  <1>7. pc'[a] = "idle" /\ \A b \in Actors \ {a} : pc'[b] = pc[b] BY <1>0, <1>1, GotoActor
  <1>8. \A u \in Threads \ {a} : job'[u] = job[u] BY <1>0, <1>1 DEF EndJob, CountTypeOK
  <1>9. \A u \in Threads : (pc'[u] = pc[u] /\ job'[u] = job[u]) \/ pc'[u] \notin Setting
    BY <1>7, <1>8, ActorsApart DEF Setting
  <1> QED BY <1>2, <1>4, <1>5, <1>6, <1>9, NodeChange

LEMMA NodesDelPoisonKernel ==
    ASSUME RefInv, NodeInv, NEW t \in Threads, DelPoisonKernel(t)
    PROVE  NodeInv'
  <1>0. CountTypeOK /\ UseAt(t) BY DEF RefInv, UseInv
  <1> DEFINE l == job[t].launch
             stays == {i \in Index : launch[l].dupe[i] # i}
             gone  == {n \in Listed(l) : n[2] \notin stays}
             after(i) == {j \in stays : j > i}
             first(S) == IF S = {} THEN Nil ELSE Argument(l, CHOOSE j \in S : \A m \in S : j <= m)
             G == {n \in gone : buf[n] # NoBuffer}
             nx == [n \in Nodes |-> IF n \in Listed(l) \ gone THEN first(after(n[2])) ELSE next[n]]
  <1>1. /\ pc[t] = "clean" /\ Goto(t, "dec") /\ UNCHANGED job
        /\ head' = [head EXCEPT ![l] = first(stays)]
        /\ Free(G, nx)
    BY DEF DelPoisonKernel
  <1>2. l \in Launches /\ l \in Ids /\ l \notin Kernels
    BY <1>0, <1>1, ActorsApart DEF UseAt, CountTypeOK, Jobs
  <1>3. \A i : Argument(l, i) \in NodesOf(l) \cup {Nil} BY <1>2, FindIn
  <1>4. \A S : first(S) \in NodesOf(l) \cup {Nil} BY <1>3
  <1>5. Listed(l) \subseteq NodesOf(l) BY <1>2, ListedIn
  <1>6. G \subseteq Listed(l) OBVIOUS
  <1>7. \A n \in Nodes : nx[n] = next[n] \/ (n \in NodesOf(l) /\ nx[n] \in NodesOf(l) \cup {Nil})
    BY <1>4, <1>5
  <1>8. /\ head \in [Ids -> Nodes \cup {Nil}] /\ buf = [n \in Nodes |-> buf[n]] BY DEF NodeInv
  <1>9. first(stays) \in NodesOf(l) \cup {Nil} BY <1>4
  <1> HIDE DEF G, nx, first, stays
  <1>10. /\ next' = [n \in Nodes |-> next'[n]]
         /\ \A n \in Nodes : \/ next'[n] = next[n]
                             \/ n \in NodesOf(l) /\ next'[n] \in NodesOf(l) \cup {Nil}
    BY <1>1, <1>5, <1>6, <1>7 DEF Free
  <1>11. /\ buf' = [n \in Nodes |-> buf'[n]]
         /\ \A n \in Nodes : buf'[n] = buf[n] \/ buf'[n] \in Values
    BY <1>1, <1>8 DEF Free, Values
  <1>12. /\ head' = [x \in Ids |-> head'[x]]
         /\ \A x \in Ids \ {l} : head'[x] = head[x]
         /\ head'[l] \in NodesOf(l) \cup {Nil}
    BY <1>1, <1>2, <1>8, <1>9
  <1>13. pc'[t] = "dec" /\ \A b \in Actors \ {t} : pc'[b] = pc[b]
    BY <1>0, <1>1, GotoOK DEF ThreadPlaces
  <1>14. \A u \in Threads : (pc'[u] = pc[u] /\ job'[u] = job[u]) \/ pc'[u] \notin Setting
    BY <1>1, <1>13, ActorsApart DEF Setting
  <1> HIDE DEF l
  <1>15. PICK x \in Ids : x = l BY <1>2
  <1> QED BY <1>15, <1>10, <1>11, <1>12, <1>14, NodeChange

LEMMA NodesReadHead ==
    ASSUME RefInv, NodeInv, NEW t \in Threads, ReadHead(t)
    PROVE  NodeInv'
  <1>0. CountTypeOK /\ UseAt(t) BY DEF RefInv, UseInv
  <1>1. /\ pc[t] = "head" /\ Goto(t, "remove") /\ job' = [job EXCEPT ![t].lp = head[job[t].kern]]
        /\ UNCHANGED <<head, next, buf>>
    BY DEF ReadHead, lists
  <1>2. job[t].kern \in Ids /\ job[t] \in Jobs BY <1>0, <1>1, ActorsApart DEF UseAt, CountTypeOK
  <1>3. /\ job'[t].kern = job[t].kern /\ job'[t].index = job[t].index
        /\ job'[t].lp = head[job[t].kern] /\ \A u \in Threads \ {t} : job'[u] = job[u]
    BY <1>0, <1>1, <1>2 DEF CountTypeOK, Jobs
  <1>4. pc'[t] = "remove" /\ \A a \in Actors \ {t} : pc'[a] = pc[a]
    BY <1>0, <1>1, GotoOK DEF ThreadPlaces
  <1>5. \A u \in Threads : pc'[u] \in {"head", "remove", "insert"} => job'[u].index \in Index
    BY <1>1, <1>3, <1>4, ActorsApart DEF NodeInv
  <1>6. \A u \in Threads : pc'[u] = "remove" => job'[u].lp \in NodesOf(job'[u].kern) \cup {Nil}
    BY <1>2, <1>3, <1>4, ActorsApart DEF NodeInv
  <1>7. \A u \in Threads : pc'[u] = "insert" => job'[u].node \in NodesOf(job'[u].kern)
    BY <1>3, <1>4, ActorsApart DEF NodeInv
  <1> QED BY <1>1, <1>5, <1>6, <1>7 DEF NodeInv, NodesOf

LEMMA NodesSetKernelArg ==
    ASSUME RefInv, NodeInv, NEW t \in Threads, NEW k \in Kernels, NEW i \in Index,
           NEW b \in Values, SetKernelArg(t, k, i, b)
    PROVE  NodeInv'
  <1>0. CountTypeOK BY DEF RefInv
  <1>1. /\ Goto(t, "head") /\ UNCHANGED <<head, next, buf>>
        /\ job' = [job EXCEPT ![t] = [NoJob EXCEPT !.kern = k, !.index = i, !.value = b]]
    BY DEF SetKernelArg, lists
  <1>2. job'[t].index = i /\ \A u \in Threads \ {t} : job'[u] = job[u]
    BY <1>0, <1>1 DEF CountTypeOK, NoJob
  <1>3. pc'[t] = "head" /\ \A a \in Actors \ {t} : pc'[a] = pc[a]
    BY <1>0, <1>1, GotoOK DEF ThreadPlaces
  <1>4. \A u \in Threads : pc'[u] \in {"head", "remove", "insert"} => job'[u].index \in Index
    BY <1>2, <1>3, ActorsApart DEF NodeInv
  <1>5. \A u \in Threads : pc'[u] = "remove" => job'[u].lp \in NodesOf(job'[u].kern) \cup {Nil}
    BY <1>2, <1>3, ActorsApart DEF NodeInv
  <1>6. \A u \in Threads : pc'[u] = "insert" => job'[u].node \in NodesOf(job'[u].kern)
    BY <1>2, <1>3, ActorsApart DEF NodeInv
  <1> QED BY <1>1, <1>4, <1>5, <1>6 DEF NodeInv, NodesOf

LEMMA NodesLaunchKernel ==
    ASSUME RefInv, NodeInv, OwnInv, wrong = {}, NEW t \in Threads, NEW l \in Launches, NEW k \in Kernels,
           LaunchKernel(t, l, k)
    PROVE  NodeInv'
  <1>0. CountTypeOK BY DEF RefInv
  <1>1. CASE UNCHANGED <<counts, lists, mem, pc, job, launch>>
    <2>1. UNCHANGED <<lists, pc, job>> BY <1>1
    <2> QED BY <2>1, NodeKeep
  <1>2. CASE /\ IF HasHost(k) THEN StandIn(t, l, k) ELSE UNCHANGED <<live, refs, lists, mem>>
             /\ job' = IF HasBuffer(k) THEN [job EXCEPT ![t] = LaunchJob(k, l)] ELSE job
             /\ Goto(t, IF HasBuffer(k) THEN "inc" ELSE "idle")
    <2>1. pc'[t] \notin Setting /\ \A a \in Actors \ {t} : pc'[a] = pc[a]
      BY <1>0, <1>2, GotoOK DEF ThreadPlaces, Setting
    <2>2. \A u \in Threads \ {t} : job'[u] = job[u] BY <1>0, <1>2 DEF CountTypeOK
    <2>3. \A u \in Threads : (pc'[u] = pc[u] /\ job'[u] = job[u]) \/ pc'[u] \notin Setting
      BY <2>1, <2>2, ActorsApart
    <2>4. CASE ~HasHost(k)
      <3>1. UNCHANGED lists BY <1>2, <2>4
      <3> QED BY <2>3, <3>1, NodeKeep
    <2>5. CASE HasHost(k)
      <3> DEFINE node(i) == <<l, i, t>>
                 value(i) == Poisoned(l, buf[Argument(k, i)])
                 made == {node(i) : i \in Index}
      <3>1. /\ head' = [head EXCEPT ![l] = node(1)]
            /\ next' = [n \in Nodes |-> IF n \notin made THEN next[n]
                                     ELSE IF n[2] < NArgs THEN node(n[2] + 1) ELSE Nil]
            /\ buf' = [n \in Nodes |-> IF n \in made THEN value(n[2]) ELSE buf[n]]
        BY <1>2, <2>5 DEF StandIn
      <3>2. l \in Ids /\ l \notin Kernels /\ NArgs \in Nat /\ NArgs >= 1
        BY ActorsApart, RecordAssumption
      <3>3. \A i \in Index : node(i) \in NodesOf(l) BY <3>2 DEF NodesOf, Nodes
      <3>4. made \subseteq NodesOf(l) BY <3>3
      <3>5. \A n \in made : n[2] \in Index OBVIOUS
      <3>6. \A n \in made : n[2] < NArgs => node(n[2] + 1) \in NodesOf(l)
        BY <3>2, <3>3, <3>5 DEF Index
      <3>7. node(1) \in NodesOf(l) BY <3>2, <3>3 DEF Index
      <3> HIDE DEF node, value, made
      <3>8. /\ next' = [n \in Nodes |-> next'[n]]
            /\ \A n \in Nodes : \/ next'[n] = next[n]
                                \/ n \in NodesOf(l) /\ next'[n] \in NodesOf(l) \cup {Nil}
        BY <3>1, <3>4, <3>6
      <3>9. /\ buf' = [n \in Nodes |-> buf'[n]]
            /\ \A n \in Nodes : buf'[n] = buf[n] \/ n \in NodesOf(l)
        BY <3>1, <3>4
      <3>10. /\ head' = [x \in Ids |-> head'[x]]
             /\ \A x \in Ids \ {l} : head'[x] = head[x]
             /\ head'[l] \in NodesOf(l) \cup {Nil}
        BY <3>1, <3>2, <3>7 DEF NodeInv
      <3> QED BY <2>3, <3>2, <3>8, <3>9, <3>10, NodeChange
    <2> QED BY <2>4, <2>5
  <1> QED BY <1>1, <1>2, LaunchOf

\* The other steps leave the lists alone.
LEMMA NodesElse ==
    ASSUME RefInv, NodeInv,
           \/ \E t \in Threads : Inc(t) \/ IncStore(t) \/ Verify(t) \/ CheckDone(t)
           \/ \E t \in Threads, k \in Kernels : RetainKernel(t, k) \/ ReleaseKernel(t, k)
           \/ \E l \in Launches : Callback(l)
           \/ \E a \in Actors : Dec(a) \/ DecStore(a)
           \/ \E b \in Buffers : ReleaseMemObject(b)
           \/ UNCHANGED vars
    PROVE  NodeInv'
  <1>0. CountTypeOK BY DEF RefInv
  <1>1. ASSUME NEW t \in Threads, NEW p \in ThreadPlaces, p \notin Setting,
               Goto(t, p), UNCHANGED lists, job' = job \/ \E j : job' = [job EXCEPT ![t] = j]
        PROVE  NodeInv'
    <2>1. pc'[t] = p /\ \A a \in Actors \ {t} : pc'[a] = pc[a] BY <1>0, <1>1, GotoOK
    <2>2. \A u \in Threads \ {t} : job'[u] = job[u] BY <1>0, <1>1 DEF CountTypeOK
    <2>3. \A u \in Threads : (pc'[u] = pc[u] /\ job'[u] = job[u]) \/ pc'[u] \notin Setting
      BY <1>1, <2>1, <2>2, ActorsApart
    <2> QED BY <1>1, <2>3, NodeKeep
  <1>2. ASSUME NEW t \in Threads, Inc(t) \/ IncStore(t) PROVE NodeInv'
    <2>1. \E p \in {"incstore", "verify", "idle"} :
             Goto(t, p) /\ UNCHANGED lists /\ (job' = job \/ \E j : job' = [job EXCEPT ![t] = j])
      BY <1>2 DEF Inc, IncStore, EndRetain, EndJob, AfterInc
    <2>2. \A p \in {"incstore", "verify", "idle"} : p \in ThreadPlaces /\ p \notin Setting
      BY DEF ThreadPlaces, Setting
    <2> QED BY <1>1, <2>1, <2>2
  <1>3. ASSUME NEW t \in Threads, NEW k \in Kernels, RetainKernel(t, k) \/ ReleaseKernel(t, k)
        PROVE  NodeInv'
    <2>1. \E p \in {"inc", "dec"} :
             Goto(t, p) /\ UNCHANGED lists /\ \E j : job' = [job EXCEPT ![t] = j]
      BY <1>3 DEF RetainKernel, ReleaseKernel
    <2>2. \A p \in {"inc", "dec"} : p \in ThreadPlaces /\ p \notin Setting
      BY DEF ThreadPlaces, Setting
    <2> QED BY <1>1, <2>1, <2>2
  <1>4. ASSUME NEW t \in Threads, Verify(t) PROVE NodeInv'
    <2>a. PICK l : l = job[t].launch OBVIOUS
    <2>b. PICK p : p = IF l \in Waiting THEN "wait" ELSE AfterCheck(l) OBVIOUS
    <2>1. /\ pc' = [pc EXCEPT ![t] = p, ![l] = "due"] /\ EndJob(t, p) /\ UNCHANGED lists
          /\ pc[t] = "verify"
      BY <1>4, <2>a, <2>b DEF Verify
    <2>2. job[t].launch # Nil BY <2>1 DEF RefInv, UseInv, UseAt
    <2>3. l \in Launches BY <2>a, <2>2, UnderWay
    <2>4. pc'[t] = p /\ \A u \in Threads \ {t} : pc'[u] = pc[u]
      BY <1>0, <2>1, <2>3, ActorsApart DEF CountTypeOK
    <2>5. \A u \in Threads \ {t} : job'[u] = job[u] BY <1>0, <2>1 DEF CountTypeOK, EndJob
    <2>6. p \notin Setting BY <2>b DEF Setting, AfterCheck
    <2>7. \A u \in Threads : (pc'[u] = pc[u] /\ job'[u] = job[u]) \/ pc'[u] \notin Setting
      BY <2>4, <2>5, <2>6
    <2> QED BY <2>1, <2>7, NodeKeep
  <1>9. ASSUME NEW t \in Threads, CheckDone(t) PROVE NodeInv'
    <2>1. \E p \in {"clean", "idle"} :
             Goto(t, p) /\ UNCHANGED lists /\ (job' = job \/ \E j : job' = [job EXCEPT ![t] = j])
      BY <1>9 DEF CheckDone, AfterCheck, EndJob
    <2>2. \A p \in {"clean", "idle"} : p \in ThreadPlaces /\ p \notin Setting
      BY DEF ThreadPlaces, Setting
    <2> QED BY <1>1, <2>1, <2>2
  <1>5. ASSUME NEW l \in Launches, Callback(l) PROVE NodeInv'
    <2>1. UNCHANGED <<lists, job>> /\ (pc' = pc \/ \E p : Goto(l, p))
      BY <1>5 DEF Callback, ReportNext, NameBuffer
    <2>2. \A u \in Threads : pc'[u] = pc[u] BY <1>0, <2>1, ActorsApart DEF Goto, CountTypeOK
    <2> QED BY <2>1, <2>2, NodeKeep
  <1>6. ASSUME NEW a \in Actors, Dec(a) \/ DecStore(a) PROVE NodeInv'
    <2>1. \E p \in {"idle", "decstore", "drop"} :
             Goto(a, p) /\ UNCHANGED lists /\ (job' = job \/ job' = [job EXCEPT ![a] = NoJob])
      BY <1>6 DEF Dec, DecStore, EndJob
    <2>2. /\ pc'[a] \notin Setting /\ \A b \in Actors \ {a} : pc'[b] = pc[b]
      BY <1>0, <2>1, GotoActor DEF Setting
    <2>3. \A u \in Threads \ {a} : job'[u] = job[u] BY <1>0, <2>1 DEF CountTypeOK
    <2>4. \A u \in Threads : (pc'[u] = pc[u] /\ job'[u] = job[u]) \/ pc'[u] \notin Setting
      BY <2>2, <2>3, ActorsApart
    <2> QED BY <2>1, <2>4, NodeKeep
  <1>7. ASSUME NEW b \in Buffers, ReleaseMemObject(b) PROVE NodeInv'
    <2>1. UNCHANGED <<lists, job, pc>> BY <1>7 DEF ReleaseMemObject
    <2> QED BY <2>1, NodeKeep
  <1>8. ASSUME UNCHANGED vars PROVE NodeInv'
    <2>1. UNCHANGED <<lists, job, pc>> BY <1>8 DEF vars
    <2> QED BY <2>1, NodeKeep
  <1> QED BY <1>2, <1>3, <1>4, <1>5, <1>6, <1>7, <1>8, <1>9

-----------------------------------------------------------------------------
(***************************************************************************)
(* The buffers of a stand-in.                                              *)
(***************************************************************************)
InUse == {"inc", "incstore", "verify", "wait", "clean"}

\* A thread goes on with the launch of a stand-in, if it was at one.
Stays(t) ==
    job[t].launch # Nil /\ pc[t] \in InUse /\ launch[job[t].launch].used = job[t].launch =>
       job'[t].launch = job[t].launch /\ pc'[t] \in InUse

\* A step that adds no buffer's record.
LEMMA OwnKeep ==
    ASSUME OwnInv, mem' \subseteq mem,
           \A m \in Launches : launch[m] # NoLaunch => launch'[m] = launch[m],
           \A t \in Threads : Stays(t)
    PROVE  OwnInv'
  <1>1. mem' \subseteq Buffers \cup OwnBuffers BY DEF OwnInv
  <1>2. ASSUME NEW l \in Launches, NEW b \in Buffers, Own(l, b) \in mem'
        PROVE  /\ b \in HostBuffers /\ launch'[l].used = l
               /\ \E t \in Threads : job'[t].launch = l /\ pc'[t] \in InUse
    <2>1. /\ b \in HostBuffers /\ launch[l].used = l
          /\ \E t \in Threads : job[t].launch = l /\ pc[t] \in InUse
      BY <1>2 DEF OwnInv, InUse
    <2>2. NoLaunch.used = Nil /\ l # Nil BY ActorsApart DEF NoLaunch
    <2>3. launch'[l].used = l BY <2>1, <2>2
    <2> QED BY <2>1, <2>2, <2>3 DEF Stays
  <1> QED BY <1>1, <1>2 DEF OwnInv, OwnBuffers, Own, InUse

\* A thread that does not move stays.
LEMMA StaysPut ==
    ASSUME NEW t, pc'[t] = pc[t], job'[t] = job[t]
    PROVE  Stays(t)
  BY DEF Stays

LEMMA OwnThreads ==
    ASSUME RefInv, NodeInv, OwnInv, NEW t \in Threads,
           ReadHead(t) \/ RemoveArg(t) \/ InsertArg(t) \/ Inc(t) \/ IncStore(t) \/ Verify(t)
           \/ CheckDone(t)
    PROVE  OwnInv'
  <1>0. CountTypeOK /\ UseAt(t) /\ LaunchAt(t) BY DEF RefInv, UseInv
  <1>1. UNCHANGED <<launch, mem>>
    BY DEF ReadHead, RemoveArg, InsertArg, Inc, IncStore, Verify, CheckDone
  <1>2. ASSUME NEW p \in ThreadPlaces, Goto(t, p), Stays(t),
               job' = job \/ (\E j : job' = [job EXCEPT ![t] = j])
        PROVE  OwnInv'
    <2>1. \A u \in Threads \ {t} : job'[u] = job[u] /\ pc'[u] = pc[u]
      BY <1>0, <1>2, GotoOK, ActorsApart DEF CountTypeOK
    <2> QED BY <1>1, <1>2, <2>1, StaysPut, OwnKeep
  <1>3. CASE ReadHead(t) \/ RemoveArg(t) \/ InsertArg(t)
    <2>1. pc[t] \in {"head", "remove", "insert"} BY <1>3 DEF ReadHead, RemoveArg, InsertArg
    <2>2. Stays(t) BY <2>1 DEF Stays, InUse
    <2>3. \E p \in {"remove", "insert", "idle"} : Goto(t, p)
      BY <1>3 DEF ReadHead, RemoveArg, InsertArg
    <2>4. \A p \in {"remove", "insert", "idle"} : p \in ThreadPlaces BY DEF ThreadPlaces
    <2>5. \E j : job' = [job EXCEPT ![t] = j] BY <1>3 DEF ReadHead, RemoveArg, InsertArg
    <2> QED BY <1>2, <2>2, <2>3, <2>4, <2>5
  <1>4. CASE Inc(t) /\ Counted(t) \in live
    <2>1. Goto(t, "incstore") /\ job' = job /\ pc[t] = "inc" BY <1>4 DEF Inc
    <2>2. pc'[t] = "incstore" BY <1>0, <2>1, GotoOK DEF ThreadPlaces
    <2>3. Stays(t) BY <2>1, <2>2 DEF Stays, InUse
    <2> QED BY <1>2, <2>1, <2>3 DEF ThreadPlaces
  <1>5. CASE Inc(t) /\ Counted(t) \notin live
    <2>1. /\ pc[t] = "inc" /\ Goto(t, AfterInc(t)) /\ EndJob(t, AfterInc(t))
      BY <1>5 DEF Inc, EndRetain
    <2>2. job[t].launch = Nil
      <3>1. job[t].launch # Nil => Counted(t) \in live BY <1>0, <2>1, UnderWay DEF LaunchAt, Resting, Early
      <3> QED BY <1>5, <3>1
    <2>3. Goto(t, "idle") /\ Stays(t) BY <2>1, <2>2 DEF AfterInc, Stays
    <2>4. job' = job \/ (\E j : job' = [job EXCEPT ![t] = j]) BY <2>1 DEF EndJob
    <2> QED BY <1>2, <2>3, <2>4 DEF ThreadPlaces
  <1>6. CASE IncStore(t)
    <2>1. /\ pc[t] = "incstore" /\ Goto(t, AfterInc(t)) /\ EndJob(t, AfterInc(t))
      BY <1>6 DEF IncStore, EndRetain
    <2>2. job' = job \/ (\E j : job' = [job EXCEPT ![t] = j]) BY <2>1 DEF EndJob
    <2>3. CASE job[t].launch = Nil
      <3>1. Goto(t, "idle") /\ Stays(t) BY <2>1, <2>3 DEF AfterInc, Stays
      <3> QED BY <1>2, <2>2, <3>1 DEF ThreadPlaces
    <2>4. CASE job[t].launch # Nil
      <3>1. Goto(t, "verify") /\ job' = job BY <2>1, <2>4 DEF AfterInc, EndJob
      <3>2. pc'[t] = "verify" BY <1>0, <3>1, GotoOK DEF ThreadPlaces
      <3>3. Stays(t) BY <2>1, <3>1, <3>2 DEF Stays, InUse
      <3> QED BY <1>2, <3>1, <3>3 DEF ThreadPlaces
    <2> QED BY <2>3, <2>4
  <1>7. CASE Verify(t)
    <2>a. PICK l : l = job[t].launch OBVIOUS
    <2>b. PICK p : p = IF l \in Waiting THEN "wait" ELSE AfterCheck(l) OBVIOUS
    <2>1. /\ pc' = [pc EXCEPT ![t] = p, ![l] = "due"] /\ EndJob(t, p)
          /\ pc[t] = "verify"
      BY <1>7, <2>a, <2>b DEF Verify
    <2>2. job[t].launch # Nil BY <2>1 DEF RefInv, UseInv, UseAt
    <2>3. l \in Launches BY <2>a, <2>2, UnderWay
    <2>4. pc'[t] = p /\ \A u \in Threads \ {t} : pc'[u] = pc[u]
      BY <1>0, <2>1, <2>3, ActorsApart DEF CountTypeOK
    <2>5. \A u \in Threads \ {t} : job'[u] = job[u] BY <1>0, <2>1 DEF CountTypeOK, EndJob
    <2>6. Stays(t)
      <3>1. CASE launch[l].used = l
        <4>1. p \in {"wait", "clean"} BY <2>b, <3>1 DEF AfterCheck
        <4>2. job' = job BY <2>1, <4>1 DEF EndJob
        <4> QED BY <2>4, <4>1, <4>2 DEF Stays, InUse
      <3>2. CASE launch[l].used # l BY <2>a, <3>2 DEF Stays
      <3> QED BY <3>1, <3>2
    <2> QED BY <1>1, <2>4, <2>5, <2>6, StaysPut, OwnKeep
  <1>8. CASE CheckDone(t)
    <2>a. PICK l : l = job[t].launch OBVIOUS
    <2>1. pc[t] = "wait" /\ Goto(t, AfterCheck(l)) /\ EndJob(t, AfterCheck(l))
      BY <1>8, <2>a DEF CheckDone
    <2>2. job' = job \/ (\E j : job' = [job EXCEPT ![t] = j]) BY <2>1 DEF EndJob
    <2>3. CASE launch[l].used = l
      <3>1. Goto(t, "clean") /\ job' = job BY <2>1, <2>3 DEF AfterCheck, EndJob
      <3>2. pc'[t] = "clean" BY <1>0, <3>1, GotoOK DEF ThreadPlaces
      <3>3. Stays(t) BY <2>1, <3>1, <3>2 DEF Stays, InUse
      <3> QED BY <1>2, <3>1, <3>3 DEF ThreadPlaces
    <2>4. CASE launch[l].used # l
      <3>1. Goto(t, "idle") /\ Stays(t) BY <2>a, <2>1, <2>4 DEF AfterCheck, Stays
      <3> QED BY <1>2, <2>2, <3>1 DEF ThreadPlaces
    <2> QED BY <2>3, <2>4
  <1> QED BY <1>3, <1>4, <1>5, <1>6, <1>7, <1>8

LEMMA OwnActors ==
    ASSUME RefInv, OwnInv, NEW a \in Actors, Dec(a) \/ DecStore(a) \/ Drop(a)
    PROVE  OwnInv'
  <1>0. CountTypeOK BY DEF RefInv
  <1>1. /\ UNCHANGED <<launch, mem>> /\ pc[a] \notin InUse
        /\ \E p \in {"idle", "decstore", "drop"} : Goto(a, p)
        /\ job' = job \/ job' = [job EXCEPT ![a] = NoJob]
    BY DEF Dec, DecStore, Drop, EndJob, InUse
  <1>2. \A b \in Actors \ {a} : pc'[b] = pc[b] BY <1>0, <1>1, GotoActor
  <1>3. \A u \in Threads \ {a} : job'[u] = job[u] BY <1>0, <1>1 DEF CountTypeOK
  <1>4. Stays(a) BY <1>1 DEF Stays
  <1>5. \A u \in Threads : Stays(u) BY <1>2, <1>3, <1>4, StaysPut, ActorsApart
  <1> QED BY <1>1, <1>5, OwnKeep

LEMMA OwnCalls ==
    ASSUME RefInv, OwnInv, NEW t \in Threads, NEW k \in Kernels,
           \/ RetainKernel(t, k) \/ ReleaseKernel(t, k)
           \/ \E i \in Index, b \in Values : SetKernelArg(t, k, i, b)
    PROVE  OwnInv'
  <1>0. CountTypeOK /\ UseAt(t) BY DEF RefInv, UseInv
  <1>1. /\ UNCHANGED <<launch, mem>> /\ pc[t] = "idle"
        /\ \E p \in {"inc", "dec", "head"} : Goto(t, p)
        /\ \E j : job' = [job EXCEPT ![t] = j]
    BY DEF RetainKernel, ReleaseKernel, SetKernelArg
  <1>2. \A p \in {"inc", "dec", "head"} : p \in ThreadPlaces BY DEF ThreadPlaces
  <1>3. \A b \in Actors \ {t} : pc'[b] = pc[b] BY <1>0, <1>1, <1>2, GotoOK
  <1>4. \A u \in Threads \ {t} : job'[u] = job[u] BY <1>0, <1>1 DEF CountTypeOK
  <1>5. Stays(t) BY <1>1 DEF Stays, InUse
  <1>6. \A u \in Threads : Stays(u) BY <1>3, <1>4, <1>5, StaysPut, ActorsApart
  <1> QED BY <1>1, <1>6, OwnKeep

LEMMA OwnElse ==
    ASSUME RefInv, OwnInv,
           \/ \E l \in Launches : Callback(l)
           \/ \E b \in Buffers : ReleaseMemObject(b)
           \/ UNCHANGED vars
    PROVE  OwnInv'
  <1>0. CountTypeOK BY DEF RefInv
  <1>1. ASSUME NEW l \in Launches, Callback(l) PROVE OwnInv'
    <2>1. UNCHANGED <<mem, launch, job>> /\ (pc' = pc \/ \E p : Goto(l, p))
      BY <1>1 DEF Callback, ReportNext, NameBuffer
    <2>2. \A u \in Threads : pc'[u] = pc[u] BY <1>0, <2>1, ActorsApart DEF Goto, CountTypeOK
    <2> QED BY <2>1, <2>2, StaysPut, OwnKeep
  <1>2. ASSUME NEW b \in Buffers, ReleaseMemObject(b) PROVE OwnInv'
    <2>1. UNCHANGED <<launch, job, pc>> /\ mem' \subseteq mem BY <1>2 DEF ReleaseMemObject
    <2> QED BY <2>1, StaysPut, OwnKeep
  <1>3. ASSUME UNCHANGED vars PROVE OwnInv'
    <2>1. UNCHANGED <<mem, launch, job, pc>> BY <1>3 DEF vars
    <2> QED BY <2>1, StaysPut, OwnKeep
  <1> QED BY <1>1, <1>2, <1>3

\* delPoisonKernel takes every buffer of the stand-in away.
LEMMA OwnDelPoisonKernel ==
    ASSUME RefInv, OwnInv, NEW t \in Threads, DelPoisonKernel(t)
    PROVE  OwnInv'
  <1>0. CountTypeOK BY DEF RefInv
  <1>a. PICK l : l = job[t].launch OBVIOUS
  <1>1. /\ pc[t] = "clean" /\ Goto(t, "dec") /\ UNCHANGED <<job, launch>>
        /\ mem' = mem \ {Own(l, b) : b \in HostBuffers}
    BY <1>a DEF DelPoisonKernel
  <1>2. \A b \in Actors \ {t} : pc'[b] = pc[b] BY <1>0, <1>1, GotoOK DEF ThreadPlaces
  <1>3. ASSUME NEW m \in Launches, NEW b \in Buffers, Own(m, b) \in mem'
        PROVE  /\ b \in HostBuffers /\ launch'[m].used = m
               /\ \E u \in Threads : job'[u].launch = m /\ pc'[u] \in InUse
    <2>1. Own(m, b) \in mem BY <1>1, <1>3
    <2>2. b \in HostBuffers /\ launch[m].used = m BY <2>1 DEF OwnInv
    <2>3. PICK u \in Threads : job[u].launch = m /\ pc[u] \in InUse BY <2>1 DEF OwnInv, InUse
    <2>4. m # l BY <1>1, <1>3, <2>2
    <2>5. u # t BY <1>a, <2>3, <2>4
    <2> QED BY <1>1, <1>2, <2>2, <2>3, <2>5, ActorsApart
  <1>4. mem' \subseteq Buffers \cup OwnBuffers BY <1>1 DEF OwnInv
  <1> QED BY <1>3, <1>4 DEF OwnInv, InUse, Own

LEMMA OwnLaunchKernel ==
    ASSUME RefInv, NodeInv, OwnInv, wrong = {}, NEW t \in Threads, NEW l \in Launches, NEW k \in Kernels,
           LaunchKernel(t, l, k)
    PROVE  OwnInv'
  <1>0. CountTypeOK BY DEF RefInv
  <1>1. pc[t] = "idle" /\ launch[l] = NoLaunch BY LaunchOf
  <1>2. CASE UNCHANGED <<counts, lists, mem, pc, job, launch>>
    <2>1. UNCHANGED <<mem, pc, job, launch>> BY <1>2
    <2> QED BY <2>1, StaysPut, OwnKeep
  <1>3. CASE /\ \A i \in Index : Argument(k, i) # Nil
             /\ launch' = [launch EXCEPT ![l] = LaunchRecord(k, l)]
             /\ IF HasHost(k) THEN StandIn(t, l, k) ELSE UNCHANGED <<live, refs, lists, mem>>
             /\ job' = IF HasBuffer(k) THEN [job EXCEPT ![t] = LaunchJob(k, l)] ELSE job
             /\ Goto(t, IF HasBuffer(k) THEN "inc" ELSE "idle")
    <2>1. /\ pc'[t] = IF HasBuffer(k) THEN "inc" ELSE "idle"
          /\ \A a \in Actors \ {t} : pc'[a] = pc[a]
      BY <1>0, <1>3, GotoOK DEF ThreadPlaces
    <2>2. /\ \A u \in Threads \ {t} : job'[u] = job[u]
          /\ HasBuffer(k) => job'[t] = LaunchJob(k, l)
      BY <1>0, <1>3 DEF CountTypeOK
    <2>3. /\ \A m \in Launches \ {l} : launch'[m] = launch[m]
          /\ launch'[l] = LaunchRecord(k, l)
      <3>1. launch = [m \in Launches |-> launch[m]] BY <1>0 DEF CountTypeOK
      <3>2. launch' = [m \in Launches |-> IF m = l THEN LaunchRecord(k, l) ELSE launch[m]] BY <1>3, <3>1
      <3> QED BY <3>2
    <2>4. \A m \in Launches : launch[m] # NoLaunch => launch'[m] = launch[m] BY <1>1, <2>3
    <2>5. \A u \in Threads : Stays(u)
      <3>1. Stays(t) BY <1>1 DEF Stays, InUse
      <3> QED BY <2>1, <2>2, <3>1, StaysPut, ActorsApart
    <2>6. CASE ~HasHost(k)
      <3>1. mem' = mem BY <1>3, <2>6
      <3> QED BY <2>4, <2>5, <3>1, OwnKeep
    <2>7. CASE HasHost(k)
      <3> DEFINE value(i) == Poisoned(l, buf[Argument(k, i)])
      <3>1. mem' = mem \cup ({value(i) : i \in Index} \ {NoBuffer}) BY <1>3, <2>7 DEF StandIn
      <3>2. k \in Ids BY ActorsApart
      <3>3. ASSUME NEW i \in Index
            PROVE  value(i) \in Values \/ \E b \in HostBuffers : value(i) = Own(l, b)
        <4>1. Argument(k, i) \in NodesOf(k) BY <1>3, <3>2, FindIn
        <4>2. buf[Argument(k, i)] \in Values BY <4>1 DEF NodeInv
        <4> QED BY <4>2 DEF Poisoned
      <3> HIDE DEF value
      <3>4. HostBuffers \subseteq Buffers BY RecordAssumption
      <3>5. mem' \subseteq Buffers \cup OwnBuffers
        BY <3>1, <3>3, <3>4 DEF OwnInv, OwnBuffers, Own, Values
      <3>6. ASSUME NEW m \in Launches, NEW b \in Buffers, Own(m, b) \in mem', Own(m, b) \notin mem
            PROVE  m = l /\ b \in HostBuffers
        <4>1. PICK i \in Index : Own(m, b) = value(i) BY <3>1, <3>6
        <4>2. Own(m, b) \notin Values BY RecordAssumption DEF Values, Own
        <4>3. PICK c \in HostBuffers : Own(m, b) = Own(l, c) BY <3>3, <4>1, <4>2
        <4> QED BY <4>3 DEF Own
      <3>7. HasBuffer(k) BY <2>7, RecordAssumption DEF HasHost, HasBuffer
      <3>8. launch'[l].used = l BY <2>3, <2>7 DEF LaunchRecord
      <3>9. job'[t].launch = l /\ pc'[t] \in InUse BY <2>1, <2>2, <3>7, LaunchJobIs DEF InUse
      <3>10. ASSUME NEW m \in Launches, NEW b \in Buffers, Own(m, b) \in mem'
             PROVE  /\ b \in HostBuffers /\ launch'[m].used = m
                    /\ \E u \in Threads : job'[u].launch = m /\ pc'[u] \in InUse
        <4>1. CASE Own(m, b) \notin mem BY <3>6, <3>8, <3>9, <3>10, <4>1
        <4>2. CASE Own(m, b) \in mem
          <5>1. b \in HostBuffers /\ launch[m].used = m BY <4>2 DEF OwnInv
          <5>2. PICK u \in Threads : job[u].launch = m /\ pc[u] \in InUse BY <4>2 DEF OwnInv, InUse
          <5>3. NoLaunch.used = Nil /\ m # Nil BY ActorsApart DEF NoLaunch
          <5>4. launch'[m] = launch[m] BY <2>4, <5>1, <5>3
          <5> QED BY <2>5, <5>1, <5>2, <5>3, <5>4 DEF Stays
        <4> QED BY <4>1, <4>2
      <3> QED BY <3>5, <3>10 DEF OwnInv, InUse, Own
    <2> QED BY <2>6, <2>7
  <1> QED BY <1>2, <1>3, LaunchOf

-----------------------------------------------------------------------------
(***************************************************************************)
(* The invariant, and what it says.                                        *)
(***************************************************************************)
RecordInv == RefInv /\ NodeInv /\ OwnInv

LEMMA RecordsBegin ==
    ASSUME Init
    PROVE  RecordInv
  <1>1. CountTypeOK
    <2>1. /\ live = {} /\ refs = [k \in Ids |-> 0] /\ tmp = [a \in Actors |-> 0]
          /\ held = [k \in Kernels |-> 1] /\ real = [k \in Kernels |-> [i \in Index |-> Nil]]
          /\ job = [t \in Threads |-> NoJob] /\ launch = [l \in Launches |-> NoLaunch]
          /\ pc = [a \in Actors |-> "idle"]
      BY DEF Init
    <2>2. pc \in [Actors -> Places] BY <2>1 DEF Places, ThreadPlaces
    <2>3. \A t \in Threads : pc[t] \in ThreadPlaces BY <2>1, ActorsApart DEF ThreadPlaces
    <2>4. \A l \in Launches : pc[l] = "idle" BY <2>1, ActorsApart
    <2>5. job \in [Threads -> Jobs] BY <2>1, NoJobIs
    <2>6. launch = [l \in Launches |-> launch[l]] BY <2>1
    <2> QED BY <2>1, <2>2, <2>3, <2>4, <2>5, <2>6 DEF CountTypeOK
  <1>2. /\ \A a \in Actors : pc[a] = "idle"
        /\ \A t \in Threads : pc[t] = "idle" /\ job[t] = NoJob
        /\ \A l \in Launches : pc[l] = "idle" /\ launch[l] = NoLaunch
        /\ live = {} /\ wrong = {} /\ mem = Buffers
        /\ \A k \in Kernels : held[k] = 1 /\ \A i \in Index : real[k][i] = Nil
    BY ActorsApart DEF Init
  <1>3. UseInv BY <1>2, NoJobIs DEF UseInv, UseAt, LaunchAt, Resting, Early, MadeAt
  <1>4. StoreInv BY <1>2 DEF StoreInv, StoreAt, Counting
  <1>5. AbsentInv BY <1>2 DEF AbsentInv, AbsentAt
  <1>6. CountInv /\ KeptInv BY <1>2 DEF CountInv, KeptInv, Reporting
  <1>7. RefInv BY <1>1, <1>3, <1>4, <1>5, <1>6 DEF RefInv
  <1>8. NodeInv
    <2>1. /\ head = [k \in Ids |-> Nil] /\ next = [n \in Nodes |-> Nil]
          /\ buf = [n \in Nodes |-> NoBuffer]
      BY DEF Init
    <2>2. \A k : NodesOf(k) \subseteq Nodes BY DEF NodesOf
    <2> QED BY <1>2, <2>1, <2>2, ActorsApart DEF NodeInv, Values
  <1>9. OwnInv
    <2>1. \A l \in Launches, b \in Buffers : Own(l, b) \notin mem
      BY <1>2, RecordAssumption DEF Own
    <2> QED BY <1>2, <2>1 DEF OwnInv
  <1> QED BY <1>7, <1>8, <1>9 DEF RecordInv

LEMMA RefsUnchanged ==
    ASSUME RefInv, UNCHANGED <<live, refs, tmp, held, real, pc, job, launch, wrong>>
    PROVE  RefInv'
  <1>1. \A k : Owed(k)' = Owed(k) BY DEF Owed, Counted, Reporting
  <1>2. CountTypeOK' BY DEF RefInv, CountTypeOK
  <1>3. UseInv' BY DEF RefInv, UseInv, UseAt, LaunchAt, Resting, Early, MadeAt, Releasing
  <1>4. StoreInv' BY DEF RefInv, StoreInv, StoreAt, Counted, Counting
  <1>5. AbsentInv' BY DEF RefInv, AbsentInv, AbsentAt, Releasing
  <1>6. CountInv' BY <1>1 DEF RefInv, CountInv
  <1>7. KeptInv' BY <1>1 DEF RefInv, KeptInv, Reporting, Counted
  <1> QED BY <1>2, <1>3, <1>4, <1>5, <1>6, <1>7 DEF RefInv

\* What has happened at once has happened.
LEMMA RacesGrow ==
    ASSUME [Next]_vars
    PROVE  races \subseteq races'
  <1>1. ASSUME NEW t \in Threads, ThreadStep(t) PROVE races \subseteq races'
    <2>1. CASE \/ ReadHead(t) \/ RemoveArg(t) \/ InsertArg(t) \/ Inc(t) \/ IncStore(t) \/ Verify(t)
               \/ CheckDone(t) \/ DelPoisonKernel(t)
      BY <2>1 DEF ReadHead, RemoveArg, InsertArg, Inc, ReadCount, IncStore, Verify, CheckDone,
                  DelPoisonKernel, counts
    <2>2. CASE \E k \in Kernels :
                 \/ RetainKernel(t, k) \/ ReleaseKernel(t, k)
                 \/ \E i \in Index, b \in Buffers \cup {NoBuffer} : SetKernelArg(t, k, i, b)
      BY <2>2 DEF RetainKernel, ReleaseKernel, SetKernelArg, counts
    <2>3. ASSUME NEW k \in Kernels, NEW l \in Launches, LaunchKernel(t, l, k)
          PROVE  races \subseteq races'
      <3>1. UNCHANGED counts \/ UNCHANGED races BY <2>3 DEF LaunchKernel
      <3> QED BY <3>1 DEF counts
    <2> QED BY <1>1, <2>1, <2>2, <2>3 DEF ThreadStep
  <1>2. ASSUME NEW l \in Launches, Callback(l) PROVE races \subseteq races'
    BY <1>2 DEF Callback, ReportNext, NameBuffer, counts
  <1>3. ASSUME NEW a \in Actors, Dec(a) \/ DecStore(a) \/ Drop(a) PROVE races \subseteq races'
    BY <1>3 DEF Dec, ReadCount, DecStore, Drop
  <1>4. ASSUME NEW b \in Buffers, ReleaseMemObject(b) PROVE races \subseteq races'
    BY <1>4 DEF ReleaseMemObject, counts
  <1>5. ASSUME UNCHANGED vars PROVE races \subseteq races' BY <1>5 DEF vars, counts
  <1> QED BY <1>1, <1>2, <1>3, <1>4, <1>5 DEF Next

LEMMA ApartBefore ==
    ASSUME [Next]_vars, CountsApart'
    PROVE  CountsApart
  BY RacesGrow DEF CountsApart

LEMMA RecordsStep ==
    ASSUME CountsApart', RecordInv, [Next]_vars
    PROVE  RecordInv'
  <1>0. RefInv /\ NodeInv /\ OwnInv BY DEF RecordInv
  <1> USE DEF RecordInv
  <1>1. ASSUME UNCHANGED vars PROVE RecordInv'
    <2>1. RefInv' BY <1>0, <1>1, RefsUnchanged DEF vars, counts
    <2> QED BY <1>0, <1>1, <2>1, NodesElse, OwnElse
  <1>2. ASSUME wrong = {}, NEW t \in Threads, ReadHead(t) PROVE RecordInv'
    BY <1>0, <1>2, CalmReadHead, NodesReadHead, OwnThreads
  <1>3. ASSUME wrong = {}, NEW t \in Threads, RemoveArg(t) PROVE RecordInv'
    BY <1>0, <1>3, CalmRemoveArg, NodesRemoveArg, OwnThreads
  <1>4. ASSUME wrong = {}, NEW t \in Threads, InsertArg(t) PROVE RecordInv'
    BY <1>0, <1>4, CalmInsertArg, NodesInsertArg, OwnThreads
  <1>5. ASSUME wrong = {}, NEW t \in Threads, Inc(t) PROVE RecordInv'
    <2>1. RefInv' BY <1>0, <1>5, KeepsIncLive, KeepsIncNew
    <2> QED BY <1>0, <1>5, <2>1, NodesElse, OwnThreads
  <1>6. ASSUME wrong = {}, NEW t \in Threads, IncStore(t) PROVE RecordInv'
    BY <1>0, <1>6, KeepsIncStore, NodesElse, OwnThreads
  <1>7. ASSUME wrong = {}, NEW t \in Threads, Verify(t) PROVE RecordInv'
    BY <1>0, <1>7, KeepsVerify, NodesElse, OwnThreads
  <1>20. ASSUME wrong = {}, NEW t \in Threads, CheckDone(t) PROVE RecordInv'
    BY <1>0, <1>20, CalmCheckDone, NodesElse, OwnThreads
  <1>8. ASSUME wrong = {}, NEW t \in Threads, DelPoisonKernel(t) PROVE RecordInv'
    BY <1>0, <1>8, CalmDelPoisonKernel, NodesDelPoisonKernel, OwnDelPoisonKernel
  <1>9. ASSUME wrong = {}, NEW t \in Threads, NEW k \in Kernels, RetainKernel(t, k) PROVE RecordInv'
    BY <1>0, <1>9, CalmRetainKernel, NodesElse, OwnCalls
  <1>10. ASSUME wrong = {}, NEW t \in Threads, NEW k \in Kernels, ReleaseKernel(t, k) PROVE RecordInv'
    BY <1>0, <1>10, KeepsReleaseKernel, NodesElse, OwnCalls
  <1>11. ASSUME wrong = {}, NEW t \in Threads, NEW k \in Kernels, NEW i \in Index,
                NEW b \in Buffers \cup {NoBuffer}, SetKernelArg(t, k, i, b)
         PROVE  RecordInv'
    <2>1. b \in Values BY DEF Values
    <2> QED BY <1>0, <1>11, <2>1, KeepsSetKernelArg, NodesSetKernelArg, OwnCalls
  <1>12. ASSUME wrong = {}, NEW t \in Threads, NEW k \in Kernels, NEW l \in Launches, LaunchKernel(t, l, k)
         PROVE  RecordInv'
    BY <1>0, <1>12, KeepsLaunchKernel, NodesLaunchKernel, OwnLaunchKernel
  <1>13. ASSUME wrong = {}, NEW l \in Launches, Callback(l) PROVE RecordInv'
    BY <1>0, <1>13, CalmCallbackNext, NodesElse, OwnElse
  <1>14. ASSUME wrong = {}, NEW a \in Actors, Dec(a) PROVE RecordInv'
    <2>1. RefInv' BY <1>0, <1>14, KeepsDecLive, KeepsDecGone
    <2> QED BY <1>0, <1>14, <2>1, NodesElse, OwnActors
  <1>15. ASSUME wrong = {}, NEW a \in Actors, DecStore(a) PROVE RecordInv'
    BY <1>0, <1>15, KeepsDecStore, NodesElse, OwnActors
  <1>16. ASSUME wrong = {}, NEW a \in Actors, Drop(a) PROVE RecordInv'
    BY <1>0, <1>16, KeepsDrop, NodesDrop, OwnActors
  <1>17. ASSUME NEW b \in Buffers, ReleaseMemObject(b) PROVE RecordInv'
    <2>1. RefInv' BY <1>0, <1>17, RefsUnchanged DEF ReleaseMemObject, counts
    <2> QED BY <1>0, <1>17, <2>1, NodesElse, OwnElse
  <1>18. ASSUME wrong = {}, NEW t \in Threads, ThreadStep(t) PROVE RecordInv'
    BY <1>2, <1>3, <1>4, <1>5, <1>6, <1>7, <1>8, <1>9, <1>10, <1>11, <1>12, <1>18, <1>20 DEF ThreadStep
  <1>19. ASSUME Next PROVE RecordInv'
    BY <1>13, <1>14, <1>15, <1>16, <1>17, <1>18, <1>19 DEF Next
  <1> QED BY <1>1, <1>19

LEMMA RecordsSay ==
    ASSUME RecordInv
    PROVE  Kept
  <1>1. /\ \A l \in Launches : <<"norecord", l>> \notin wrong
        /\ \A a \in Actors : <<"gone", a>> \notin wrong
    BY DEF RecordInv, RefInv, KeptInv
  <1>2. ASSUME NEW k \in Kernels, held[k] > 0, NEW i \in Index, real[k][i] # Nil PROVE k \in live
    <2> SUFFICES ASSUME k \notin live PROVE FALSE OBVIOUS
    <2>1. AbsentAt(k) BY DEF RecordInv, RefInv, AbsentInv
    <2>2. held[k] = 1 BY <1>2, <2>1 DEF AbsentAt
    <2> QED BY <1>2, <2>1, <2>2 DEF AbsentAt
  <1>3. \A l \in Launches : Reporting(l) => launch[l].used \in live BY DEF RecordInv, RefInv, KeptInv
  <1>4. \A k \in live : refs[k] = Owed(k) BY DEF RecordInv, RefInv, CountInv
  <1>5. \A l \in live \cap Launches : Owed(l) > 0 \/ \E a \in Actors : pc[a] = "drop" /\ Counted(a) = l
    BY DEF RecordInv, RefInv, KeptInv
  <1>6. \A l \in Launches : (\A t \in Threads : job[t].launch # l) => mem \cap {Own(l, b) : b \in Buffers} = {}
    BY DEF RecordInv, OwnInv
  <1> QED BY <1>1, <1>2, <1>3, <1>4, <1>5, <1>6 DEF Kept

LEMMA RecordsGoOn ==
    ASSUME CountsApart => RecordInv, [Next]_vars
    PROVE  (CountsApart => RecordInv)'
  BY ApartBefore, RecordsStep

\* RecordKept, for any number of threads, kernels and launches: cl_interceptor.c
\* counts a kernel's references so that the record of a kernel lasts exactly as long
\* as the application, a launch of its stand-in or the report of a check needs it,
\* until two actors have been in one count at the same time.
THEOREM RecordsKept ==
    Spec => []RecordKept
  <1>1. Init => (CountsApart => RecordInv) BY RecordsBegin
  <1>2. (CountsApart => RecordInv) /\ [Next]_vars => (CountsApart => RecordInv)'
    BY RecordsGoOn
  <1>3. (CountsApart => RecordInv) => RecordKept BY RecordsSay DEF RecordKept
  <1> QED BY <1>1, <1>2, <1>3, PTL DEF Spec

-----------------------------------------------------------------------------
(***************************************************************************)
(* The list of arguments.                                                  *)
(***************************************************************************)
\* The list of k is the nodes L, by index.
Sorted(k, L) ==
    /\ L \subseteq NodesOf(k) /\ \A n, m \in L : n[2] = m[2] => n = m
    /\ \/ head[k] = Nil /\ L = {}
       \/ head[k] \in L /\ \A m \in L : head[k][2] <= m[2]
    /\ \A n \in L :
          \/ next[n] = Nil /\ \A m \in L : m[2] <= n[2]
          \/ next[n] \in L /\ n[2] < next[n][2] /\ \A m \in L : m[2] <= n[2] \/ next[n][2] <= m[2]

\* Thread t is setting an argument of k.
Sets(t, k) == pc[t] \in Setting /\ job[t].kern = k

BeingSet(k, i) == \E t \in Threads : Sets(t, k) /\ job[t].index = i

\* The nodes L have the arguments of k, but for one that is being set.
Holds(k, L) ==
    /\ L \subseteq heap
    /\ \A i \in Index : BeingSet(k, i) \/ (real[k][i] # Nil <=> \E n \in L : n[2] = i)
    /\ \A n \in L : BeingSet(k, n[2]) \/ buf[n] = real[k][n[2]]
    /\ \A t \in Threads : Sets(t, k) /\ pc[t] = "insert" =>
          job[t].node \in heap /\ job[t].node[2] = job[t].index /\ \A n \in L : n[2] # job[t].index

ArgsAt(k) == \E L \in SUBSET NodesOf(k) : Sorted(k, L) /\ Holds(k, L)

\* One thread at a time sets arguments of k, and goes by the list as it is.
SetterInv ==
    /\ \A t, u \in Threads : \A k \in Kernels : Sets(t, k) /\ Sets(u, k) => t = u
    /\ \A t \in Threads : pc[t] = "remove" => job[t].lp = head[job[t].kern]
    /\ \A t \in Threads : pc[t] \in Setting => real[job[t].kern][job[t].index] = job[t].value

ListInv ==
    /\ SetterInv
    /\ \A k \in Kernels : held[k] > 0 \/ k \in live => ArgsAt(k)
    /\ \A w \in wrong : w[1] \notin {"short", "endless"}

-----------------------------------------------------------------------------
(***************************************************************************)
(* What the operations of the list do with a sorted one.                   *)
(***************************************************************************)
LEMMA NodeParts ==
    ASSUME NEW n \in Nodes
    PROVE  /\ n[1] \in Ids /\ n[2] \in Index /\ n[2] \in Int /\ n[2] >= 1 /\ n[2] <= NArgs /\ n[3] \in Threads
           /\ n = <<n[1], n[2], n[3]>> /\ n # Nil
  <1>1. Nil \notin Nodes BY RecordAssumption DEF Nodes, Ids, Index
  <1> QED BY <1>1, RecordAssumption DEF Nodes, Index

LEMMA FuelEnough ==
    ASSUME NEW n \in Nodes
    PROVE  NArgs <= Fuel
  <1> DEFINE f == [i \in Index |-> <<n[1], i, n[3]>>]
  <1>1. f \in [Index -> Nodes] BY NodeParts DEF Nodes
  <1>2. \A i, j \in Index : f[i] = f[j] => i = j OBVIOUS
  <1>3. f \in Injection(Index, Nodes) BY <1>1, <1>2 DEF Injection, IsInjective
  <1>4. Cardinality(Index) <= Cardinality(Nodes) BY <1>3, FuelNat, FS_Injection
  <1>5. Cardinality(Index) = NArgs BY RecordAssumption, FS_Interval DEF Index
  <1> QED BY <1>4, <1>5 DEF Fuel

LEMMA SortedNodes ==
    ASSUME NEW k, NEW L, Sorted(k, L), NEW n \in L
    PROVE  n \in Nodes /\ n[1] = k /\ n[2] \in Int /\ n[2] >= 1 /\ n[2] <= NArgs /\ n # Nil
  <1>1. n \in Nodes /\ n[1] = k BY DEF Sorted, NodesOf
  <1> QED BY <1>1, NodeParts

LEMMA TrailSorted ==
    ASSUME NEW k, NEW L, Sorted(k, L), NEW i \in 0 .. Fuel
    PROVE  \/ Trail(head[k])[i] = Nil
           \/ Trail(head[k])[i] \in L /\ Trail(head[k])[i][2] >= i + 1
  <1> DEFINE tr == Trail(head[k])
             P(j) == tr[j] = Nil \/ (tr[j] \in L /\ tr[j][2] >= j + 1)
             S == {j \in Nat : j <= Fuel => P(j)}
  <1> HIDE DEF tr
  <1>0. tr[0] = head[k] /\ \A j \in 1 .. Fuel : tr[j] = IF tr[j - 1] = Nil THEN Nil ELSE next[tr[j - 1]]
    BY TrailIs DEF tr
  <1>1. 0 \in S
    <2>1. head[k] = Nil \/ head[k] \in L BY DEF Sorted
    <2>2. head[k] \in L => head[k][2] >= 0 + 1 BY SortedNodes
    <2> QED BY <1>0, <2>1, <2>2
  <1>2. ASSUME NEW j \in S PROVE j + 1 \in S
    <2> SUFFICES ASSUME j + 1 <= Fuel PROVE P(j + 1) OBVIOUS
    <2>1. P(j) BY <1>2, FuelNat
    <2>2. j + 1 \in 1 .. Fuel /\ (j + 1) - 1 = j BY FuelNat
    <2>3. tr[j + 1] = IF tr[j] = Nil THEN Nil ELSE next[tr[j]] BY <1>0, <2>2
    <2>4. CASE tr[j] = Nil BY <2>3, <2>4
    <2>5. CASE tr[j] # Nil
      <3>1. tr[j] \in L /\ tr[j][2] >= j + 1 /\ tr[j + 1] = next[tr[j]] BY <2>1, <2>3, <2>5
      <3>2. next[tr[j]] = Nil \/ (next[tr[j]] \in L /\ tr[j][2] < next[tr[j]][2]) BY <3>1 DEF Sorted
      <3>3. tr[j][2] \in Int BY <3>1, SortedNodes
      <3>4. next[tr[j]] \in L => next[tr[j]][2] \in Int BY SortedNodes
      <3> QED BY <3>1, <3>2, <3>3, <3>4
    <2> QED BY <2>4, <2>5
  <1> HIDE DEF S
  <1>3. S \in SUBSET Nat BY DEF S
  <1>4. S = Nat BY <1>1, <1>2, <1>3, SetInduction
  <1> QED BY <1>4, FuelNat DEF S, tr

\* A sorted list ends within its length.
LEMMA TrailEnds ==
    ASSUME NEW k, NEW L, Sorted(k, L)
    PROVE  \E e \in 0 .. Fuel : e <= NArgs /\ Trail(head[k])[e] = Nil
  <1>1. CASE L = {}
    <2>1. head[k] = Nil BY <1>1 DEF Sorted
    <2>2. Trail(head[k])[0] = Nil /\ 0 \in 0 .. Fuel /\ 0 <= NArgs BY <2>1, TrailIs, FuelNat, RecordAssumption
    <2> QED BY <2>2
  <1>2. CASE L # {}
    <2>1. PICK n \in L : TRUE BY <1>2
    <2>2. NArgs <= Fuel BY <2>1, SortedNodes, FuelEnough
    <2>3. NArgs \in 0 .. Fuel /\ NArgs \in Int BY <2>2, FuelNat, RecordAssumption
    <2>4. PICK x : x = Trail(head[k])[NArgs] OBVIOUS
    <2>5. x = Nil \/ (x \in L /\ x[2] >= NArgs + 1) BY <2>3, <2>4, TrailSorted
    <2>6. x \in L => x[2] \in Int /\ x[2] <= NArgs BY SortedNodes
    <2>7. x = Nil BY <2>3, <2>5, <2>6
    <2>8. NArgs \in 0 .. Fuel /\ NArgs <= NArgs /\ Trail(head[k])[NArgs] = Nil BY <2>3, <2>4, <2>7
    <2> QED BY <2>8
  <1> QED BY <1>1, <1>2

\* S has the nodes from index i on.
From(S, i) == \A x \in Nodes : x \in S <=> x[2] >= i

\* Place j of the trail tr of k is where index i is or would be.
Stops(k, L, i, tr, j) ==
    /\ j \in 0 .. Fuel
    /\ \/ tr[j] = Nil /\ \A m \in L : m[2] < i
       \/ tr[j] \in L /\ tr[j][2] >= i /\ \A m \in L : m[2] < i \/ tr[j][2] <= m[2]
    /\ j = 0 => tr[j] = head[k]
    /\ j > 0 => tr[j - 1] \in L /\ tr[j - 1][2] < i /\ tr[j] = next[tr[j - 1]]

\* Where a search for index i stops.
LEMMA SearchIs ==
    ASSUME NEW k, NEW L, Sorted(k, L), NEW i \in Int, NEW S, From(S, i)
    PROVE  Stops(k, L, i, Trail(head[k]), Stop(Trail(head[k]), S))
  <1>a. PICK tr : tr = Trail(head[k]) OBVIOUS
  <1>b. PICK j : j = Stop(tr, S) OBVIOUS
  <1>c. \A x \in Nodes : x \in S <=> x[2] >= i BY DEF From
  <1> SUFFICES Stops(k, L, i, tr, j) BY <1>a, <1>b
  <1> USE DEF Stops
  <1>0. \A m \in L : m \in Nodes /\ m[2] \in Int /\ m # Nil BY SortedNodes
  <1>1. j # -1
    <2>1. PICK e \in 0 .. Fuel : tr[e] = Nil BY <1>a, TrailEnds
    <2> DEFINE at == {x \in 0 .. Fuel : tr[x] \in S \cup {Nil}}
    <2>2. e \in at BY <2>1
    <2>3. at \in SUBSET Nat /\ at # {} BY <2>2, FuelNat
    <2>4. \E x \in at : \A m \in at : x <= m
      <3> HIDE DEF at
      <3> QED BY <2>3, LeastNat
    <2>5. Stop(tr, S) = CHOOSE x \in at : \A m \in at : x <= m BY <2>3 DEF Stop
    <2>6. Stop(tr, S) \in at BY <2>4, <2>5
    <2> QED BY <1>b, <2>6, FuelNat
  <1>2. j \in 0 .. Fuel /\ tr[j] \in S \cup {Nil} BY <1>b, <1>1, StopIs
  <1>3. tr[j] = Nil \/ tr[j] \in L BY <1>a, <1>2, TrailSorted
  <1>4. tr[j] \in L => tr[j][2] >= i BY <1>0, <1>2, <1>c
  <1>5. CASE j = 0
    <2>1. tr[j] = head[k] BY <1>a, <1>5, TrailIs
    <2> QED BY <1>0, <1>2, <1>3, <1>4, <1>5, <2>1 DEF Sorted
  <1>6. CASE j # 0
    <2>0. j > 0 /\ j \in 1 .. Fuel BY <1>2, <1>6, FuelNat
    <2>1. j - 1 \in 0 .. Fuel /\ tr[j - 1] \notin S \cup {Nil} BY <1>b, <1>1, <2>0, StopLeast
    <2>2. PICK p : p = tr[j - 1] OBVIOUS
    <2>3. p \in L /\ p # Nil BY <1>a, <2>1, <2>2, TrailSorted
    <2>4. p \in Nodes /\ p[2] \in Int /\ ~(p[2] >= i) BY <1>0, <1>c, <2>1, <2>2, <2>3
    <2>5. tr[j] = next[p] BY <1>a, <2>0, <2>2, <2>3, TrailIs
    <2>6. p[2] < i BY <2>4
    <2>7. CASE tr[j] = Nil
      <3>1. \A m \in L : m[2] <= p[2] BY <1>0, <2>3, <2>5, <2>7 DEF Sorted
      <3>2. \A m \in L : m[2] < i BY <1>0, <2>4, <2>6, <3>1
      <3> QED BY <1>2, <1>6, <2>2, <2>3, <2>5, <2>6, <2>7, <3>2
    <2>8. CASE tr[j] # Nil
      <3>0. tr[j] \in L BY <1>3, <2>8
      <3>1. \A m \in L : m[2] <= p[2] \/ tr[j][2] <= m[2] BY <2>3, <2>5, <2>8 DEF Sorted
      <3>2. \A m \in L : m[2] < i \/ tr[j][2] <= m[2] BY <1>0, <2>4, <2>6, <3>1
      <3> QED BY <1>2, <1>4, <1>6, <2>2, <2>3, <2>5, <2>6, <3>0, <3>2
    <2> QED BY <2>7, <2>8
  <1> QED BY <1>5, <1>6

LEMMA FindSorted ==
    ASSUME NEW k, NEW L, Sorted(k, L), NEW i \in Index
    PROVE  \/ Argument(k, i) \in L /\ Argument(k, i)[2] = i
           \/ Argument(k, i) = Nil /\ \A n \in L : n[2] # i
  <1>1. PICK S : S = {x \in Nodes : x[2] >= i} OBVIOUS
  <1>2. PICK tr : tr = Trail(head[k]) OBVIOUS
  <1>3. PICK j : j = Stop(tr, S) OBVIOUS
  <1>4. i \in Int /\ From(S, i) BY <1>1, RecordAssumption DEF Index, From
  <1>5. Stops(k, L, i, tr, j) BY <1>2, <1>3, <1>4, SearchIs
  <1>6. Argument(k, i) = IF j # -1 /\ tr[j] # Nil /\ tr[j][2] = i THEN tr[j] ELSE Nil
    BY <1>1, <1>2, <1>3 DEF Argument, Find
  <1>7. \A m \in L : m[2] \in Int /\ m # Nil BY SortedNodes
  <1>8. j # -1 BY <1>5, FuelNat DEF Stops
  <1> QED BY <1>4, <1>5, <1>6, <1>7, <1>8 DEF Stops

LEMMA ListedSorted ==
    ASSUME NEW k, NEW L, Sorted(k, L)
    PROVE  Listed(k) = L
  <1> DEFINE tr == Trail(head[k])
  <1>0. tr[0] = head[k] /\ \A j \in 1 .. Fuel : tr[j] = IF tr[j - 1] = Nil THEN Nil ELSE next[tr[j - 1]]
    BY TrailIs
  <1>t. \A j \in 0 .. Fuel : tr[j] = Nil \/ tr[j] \in L BY TrailSorted
  <1> HIDE DEF tr
  <1>1. ASSUME NEW m \in L PROVE \E j \in 0 .. Fuel : tr[j] = m
    <2> SUFFICES ASSUME \A j \in 0 .. Fuel : tr[j] # m PROVE FALSE OBVIOUS
    <2> DEFINE S == {j \in Nat : j <= Fuel => tr[j] \in L /\ tr[j][2] < m[2]}
    <2>0. \A n \in L : n[2] \in Int /\ n # Nil BY SortedNodes
    <2>1. 0 \in S
      <3>1. head[k] \in L /\ head[k][2] <= m[2] BY DEF Sorted
      <3>2. head[k] # m BY <1>0, FuelNat
      <3>3. head[k][2] # m[2] BY <3>1, <3>2 DEF Sorted
      <3>4. head[k][2] < m[2] BY <2>0, <3>1, <3>3
      <3> QED BY <1>0, <3>1, <3>4
    <2>2. ASSUME NEW j \in S PROVE j + 1 \in S
      <3> SUFFICES ASSUME j + 1 <= Fuel PROVE tr[j + 1] \in L /\ tr[j + 1][2] < m[2] OBVIOUS
      <3>1. tr[j] \in L /\ tr[j][2] < m[2] BY <2>2, FuelNat
      <3>2. j + 1 \in 1 .. Fuel /\ j + 1 \in 0 .. Fuel /\ (j + 1) - 1 = j BY FuelNat
      <3>3. tr[j + 1] = next[tr[j]] BY <1>0, <2>0, <3>1, <3>2
      <3>4. PICK p : p = tr[j] OBVIOUS
      <3>5. next[p] = Nil => m[2] <= p[2] BY <2>0, <3>1, <3>4 DEF Sorted
      <3>6. next[p] # Nil BY <2>0, <3>1, <3>4, <3>5
      <3>7. next[p] \in L /\ (m[2] <= p[2] \/ next[p][2] <= m[2]) BY <3>1, <3>4, <3>6 DEF Sorted
      <3>8. next[p][2] <= m[2] BY <2>0, <3>1, <3>4, <3>7
      <3>9. next[p] # m BY <3>2, <3>3, <3>4
      <3>10. next[p][2] # m[2] BY <3>7, <3>9 DEF Sorted
      <3>11. next[p][2] < m[2] BY <2>0, <3>7, <3>8, <3>10
      <3> QED BY <3>3, <3>4, <3>7, <3>11
    <2> HIDE DEF S
    <2>3. S \in SUBSET Nat BY DEF S
    <2>4. S = Nat BY <2>1, <2>2, <2>3, SetInduction
    <2>5. PICK e \in 0 .. Fuel : tr[e] = Nil BY TrailEnds DEF tr
    <2>6. tr[e] \in L BY <2>4, <2>5, FuelNat DEF S
    <2> QED BY <2>0, <2>5, <2>6
  <1>2. \A m \in L : m # Nil BY SortedNodes
  <1> QED BY <1>1, <1>2, <1>t DEF Listed, tr

\* A node is taken out.
LEMMA SortedWithout ==
    ASSUME NEW k, NEW L, Sorted(k, L), NEW x \in L,
           head'[k] = IF head[k] = x THEN next[x] ELSE head[k],
           \A n \in L : n # x => next'[n] = IF next[n] = x THEN next[x] ELSE next[n]
    PROVE  Sorted(k, L \ {x})'
  <1> DEFINE K == L \ {x}
  <1>0. \A m \in L : m[2] \in Int /\ m # Nil BY SortedNodes
  <1>1. K \subseteq NodesOf(k) /\ \A n, m \in K : n[2] = m[2] => n = m BY DEF Sorted
  <1>x. next[x] = Nil \/ (next[x] \in L /\ x[2] < next[x][2] /\ next[x] # x) BY <1>0 DEF Sorted
  <1>2. \/ head'[k] = Nil /\ K = {}
        \/ head'[k] \in K /\ \A m \in K : head'[k][2] <= m[2]
    <2>1. head[k] \in L /\ \A m \in L : head[k][2] <= m[2] BY DEF Sorted
    <2>2. CASE head[k] # x BY <2>1, <2>2
    <2>3. CASE head[k] = x /\ next[x] = Nil
      <3>1. \A m \in L : m[2] = x[2] BY <1>0, <2>1, <2>3 DEF Sorted
      <3>2. \A m \in L : m = x BY <3>1 DEF Sorted
      <3> QED BY <2>3, <3>2
    <2>4. CASE head[k] = x /\ next[x] # Nil
      <3>1. \A m \in K : m[2] # x[2] /\ x[2] <= m[2] /\ (m[2] <= x[2] \/ next[x][2] <= m[2])
        BY <2>1, <2>4 DEF Sorted
      <3>2. \A m \in K : next[x][2] <= m[2] BY <1>0, <3>1
      <3> QED BY <1>x, <2>4, <3>2
    <2> QED BY <2>2, <2>3, <2>4
  <1>3. ASSUME NEW n \in K
        PROVE  \/ next'[n] = Nil /\ \A m \in K : m[2] <= n[2]
               \/ /\ next'[n] \in K /\ n[2] < next'[n][2]
                  /\ \A m \in K : m[2] <= n[2] \/ next'[n][2] <= m[2]
    <2>1. CASE next[n] # x BY <2>1 DEF Sorted
    <2>2. CASE next[n] = x
      <3>1. next'[n] = next[x] BY <2>2
      <3>2. n[2] < x[2] /\ \A m \in L : m[2] <= n[2] \/ x[2] <= m[2] BY <1>0, <2>2 DEF Sorted
      <3>3. \A m \in K : m[2] # x[2] BY DEF Sorted
      <3>4. CASE next[x] = Nil
        <4>1. \A m \in L : m[2] <= x[2] BY <1>0, <3>4 DEF Sorted
        <4>2. \A m \in K : m[2] <= n[2] BY <1>0, <3>2, <3>3, <4>1
        <4> QED BY <3>1, <3>4, <4>2
      <3>5. CASE next[x] # Nil
        <4>1. \A m \in L : m[2] <= x[2] \/ next[x][2] <= m[2] BY <3>5 DEF Sorted
        <4>2. \A m \in K : m[2] <= n[2] \/ next[x][2] <= m[2] BY <1>0, <3>2, <3>3, <4>1
        <4>3. next[x] \in K /\ n[2] < next[x][2] BY <1>0, <1>x, <3>2, <3>5
        <4> QED BY <3>1, <4>2, <4>3
      <3> QED BY <3>4, <3>5
    <2> QED BY <2>1, <2>2
  <1>4. K \subseteq NodesOf(k)' BY <1>1 DEF NodesOf
  <1> HIDE DEF K
  <1>5. Sorted(k, K)' BY <1>1, <1>2, <1>3, <1>4 DEF Sorted
  <1> QED BY <1>5 DEF K

\* y is where the nodes after x begin.
After(x, y, L) ==
    \/ y = Nil /\ \A m \in L : m[2] < x[2]
    \/ y \in L /\ x[2] < y[2] /\ \A m \in L : m[2] < x[2] \/ y[2] <= m[2]

\* A node is put in front.
LEMMA SortedBefore ==
    ASSUME NEW k, NEW L, Sorted(k, L), NEW x \in NodesOf(k), NEW y, After(x, y, L), head[k] = y,
           head'[k] = x, next'[x] = y, \A n \in L : next'[n] = next[n]
    PROVE  Sorted(k, L \cup {x})'
  <1> DEFINE K == L \cup {x}
  <1>0. \A m \in L : m[2] \in Int /\ m # Nil BY SortedNodes
  <1>x. x \in Nodes /\ x[2] \in Int /\ x # Nil BY NodeParts DEF NodesOf
  <1>1. \A m \in L : x[2] < m[2]
    <2>1. CASE y = Nil BY <1>0, <2>1 DEF Sorted
    <2>2. CASE y \in L
      <3>1. \A m \in L : y[2] <= m[2] BY <1>0, <2>2 DEF Sorted
      <3>2. x[2] < y[2] BY <1>0, <2>2 DEF After
      <3> QED BY <1>0, <1>x, <2>2, <3>1, <3>2
    <2> QED BY <2>1, <2>2 DEF After
  <1>2. K \subseteq NodesOf(k) /\ \A n, m \in K : n[2] = m[2] => n = m
    <2>1. K \subseteq NodesOf(k) BY DEF Sorted
    <2>2. \A m \in L : m[2] # x[2] BY <1>0, <1>1, <1>x
    <2> QED BY <2>1, <2>2 DEF Sorted
  <1>3. head'[k] \in K /\ \A m \in K : head'[k][2] <= m[2] BY <1>0, <1>1, <1>x
  <1>4. ASSUME NEW n \in K
        PROVE  \/ next'[n] = Nil /\ \A m \in K : m[2] <= n[2]
               \/ /\ next'[n] \in K /\ n[2] < next'[n][2]
                  /\ \A m \in K : m[2] <= n[2] \/ next'[n][2] <= m[2]
    <2>1. CASE n \in L
      <3>1. next'[n] = next[n] /\ x[2] <= n[2] BY <1>0, <1>1, <1>x, <2>1
      <3> QED BY <2>1, <3>1 DEF Sorted
    <2>2. CASE n = x
      <3>1. CASE y = Nil
        <4>1. L = {} BY <1>0, <3>1 DEF Sorted
        <4> QED BY <1>x, <2>2, <3>1, <4>1
      <3>2. CASE y \in L
        <4>1. \A m \in L : y[2] <= m[2] BY <1>0, <3>2 DEF Sorted
        <4> QED BY <1>1, <1>x, <2>2, <3>2, <4>1
      <3> QED BY <3>1, <3>2 DEF After
    <2> QED BY <2>1, <2>2
  <1>5. K \subseteq NodesOf(k)' BY <1>2 DEF NodesOf
  <1> HIDE DEF K
  <1>6. Sorted(k, K)' BY <1>2, <1>3, <1>4, <1>5 DEF Sorted
  <1> QED BY <1>6 DEF K

\* A node is put after p.
LEMMA SortedBehind ==
    ASSUME NEW k, NEW L, Sorted(k, L), NEW x \in NodesOf(k), NEW y, After(x, y, L), NEW p \in L,
           p[2] < x[2], next[p] = y, \A m \in L : m[2] # x[2],
           head'[k] = head[k], next'[x] = y, next'[p] = x, \A n \in L : n # p => next'[n] = next[n]
    PROVE  Sorted(k, L \cup {x})'
  <1> DEFINE K == L \cup {x}
  <1>0. \A m \in L : m[2] \in Int /\ m # Nil BY SortedNodes
  <1>x. x \in Nodes /\ x[2] \in Int /\ x # Nil BY NodeParts DEF NodesOf
  <1>1. K \subseteq NodesOf(k) BY DEF Sorted
  <1>2. \A n, m \in K : n[2] = m[2] => n = m BY DEF Sorted
  <1>3. head'[k] \in K /\ \A m \in K : head'[k][2] <= m[2]
    <2>1. head[k] \in L /\ \A m \in L : head[k][2] <= m[2] BY DEF Sorted
    <2>2. head[k][2] <= x[2] BY <1>0, <1>x, <2>1
    <2> QED BY <2>1, <2>2
  <1>p. \A m \in L : m[2] <= p[2] \/ (y \in L /\ y[2] <= m[2]) BY <1>0 DEF Sorted
  <1>y. y \in L => x[2] < y[2] BY <1>0 DEF After
  <1>4. ASSUME NEW n \in K
        PROVE  \/ next'[n] = Nil /\ \A m \in K : m[2] <= n[2]
               \/ /\ next'[n] \in K /\ n[2] < next'[n][2]
                  /\ \A m \in K : m[2] <= n[2] \/ next'[n][2] <= m[2]
    <2>1. CASE n = x
      <3>1. CASE y = Nil
        <4>1. \A m \in L : m[2] <= x[2] BY <1>0, <1>p, <1>x, <3>1
        <4> QED BY <1>x, <2>1, <3>1, <4>1
      <3>2. CASE y \in L
        <4>1. \A m \in L : m[2] <= x[2] \/ y[2] <= m[2] BY <1>0, <1>p, <1>x
        <4> QED BY <1>x, <1>y, <2>1, <3>2, <4>1
      <3> QED BY <3>1, <3>2 DEF After
    <2>2. CASE n = p
      <3>1. p # x OBVIOUS
      <3>2. \A m \in L : m[2] <= p[2] \/ x[2] <= m[2] BY <1>0, <1>p, <1>x, <1>y
      <3> QED BY <1>x, <2>2, <3>1, <3>2
    <2>3. CASE n \in L /\ n # p
      <3>1. next'[n] = next[n] /\ n[2] # p[2] BY <2>3 DEF Sorted
      <3>2. CASE next[n] = Nil
        <4>1. \A m \in L : m[2] <= n[2] BY <1>0, <2>3, <3>2 DEF Sorted
        <4>2. p[2] < n[2] BY <1>0, <2>3, <3>1, <4>1
        <4>3. y \in L /\ y[2] <= n[2] BY <1>0, <1>p, <2>3, <4>2
        <4>4. x[2] <= n[2] BY <1>0, <1>x, <1>y, <2>3, <4>3
        <4> QED BY <3>1, <3>2, <4>1, <4>4
      <3>3. CASE next[n] # Nil
        <4>0. PICK z : z = next[n] OBVIOUS
        <4>1. z \in L /\ n[2] < z[2] /\ \A m \in L : m[2] <= n[2] \/ z[2] <= m[2]
          BY <2>3, <3>3, <4>0 DEF Sorted
        <4>2. CASE p[2] < n[2]
          <5>1. y \in L /\ y[2] <= n[2] BY <1>0, <1>p, <2>3, <4>2
          <5>2. x[2] <= n[2] BY <1>0, <1>x, <1>y, <2>3, <5>1
          <5> QED BY <3>1, <4>0, <4>1, <5>2
        <4>3. CASE n[2] < p[2]
          <5>1. z[2] <= p[2] BY <1>0, <2>3, <4>1, <4>3
          <5>2. z[2] <= x[2] BY <1>0, <1>x, <4>1, <5>1
          <5> QED BY <3>1, <4>0, <4>1, <5>2
        <4> QED BY <1>0, <2>3, <3>1, <4>2, <4>3
      <3> QED BY <3>2, <3>3
    <2> QED BY <2>1, <2>2, <2>3
  <1>5. K \subseteq NodesOf(k)' BY <1>1 DEF NodesOf
  <1> HIDE DEF K
  <1>6. Sorted(k, K)' BY <1>1, <1>2, <1>3, <1>4, <1>5 DEF Sorted
  <1> QED BY <1>6 DEF K

-----------------------------------------------------------------------------
(***************************************************************************)
(* Every step keeps the lists of the application's kernels in order.       *)
(***************************************************************************)
\* A step leaves the list of k alone.
SameList(k) ==
    /\ head'[k] = head[k]
    /\ \A n \in NodesOf(k) : next'[n] = next[n] /\ buf'[n] = buf[n] /\ (n \in heap => n \in heap')

\* The threads that set an argument of k are the same, and none has come to insert.
SameSetters(k) ==
    \A t \in Threads :
      /\ Sets(t, k)' <=> Sets(t, k)
      /\ Sets(t, k) => job'[t].index = job[t].index
      /\ pc'[t] = "insert" /\ Sets(t, k) => pc[t] = "insert" /\ job'[t].node = job[t].node

LEMMA SortedKeep ==
    ASSUME NEW k, NEW L, Sorted(k, L), head'[k] = head[k], \A n \in NodesOf(k) : next'[n] = next[n]
    PROVE  Sorted(k, L)'
  <1>1. NodesOf(k)' = NodesOf(k) BY DEF NodesOf
  <1>2. L \subseteq NodesOf(k) BY DEF Sorted
  <1> QED BY <1>1, <1>2 DEF Sorted

LEMMA ArgsKeep ==
    ASSUME NodeInv, NEW k \in Kernels, ArgsAt(k), SameList(k), SameSetters(k), real'[k] = real[k]
    PROVE  ArgsAt(k)'
  <1>1. PICK L \in SUBSET NodesOf(k) : Sorted(k, L) /\ Holds(k, L) BY DEF ArgsAt
  <1>2. Sorted(k, L)' BY <1>1, SortedKeep DEF SameList
  <1>3. \A i : BeingSet(k, i)' <=> BeingSet(k, i) BY DEF BeingSet, SameSetters
  <1>4. L \subseteq heap' /\ \A n \in L : buf'[n] = buf[n] BY <1>1 DEF SameList, Holds
  <1>5. ASSUME NEW t \in Threads, Sets(t, k)', pc'[t] = "insert"
        PROVE  job'[t].node \in heap' /\ job'[t].node[2] = job'[t].index /\ \A n \in L : n[2] # job'[t].index
    <2>1. Sets(t, k) /\ pc[t] = "insert" /\ job'[t].node = job[t].node /\ job'[t].index = job[t].index
      BY <1>5 DEF SameSetters
    <2>2. job[t].node \in heap /\ job[t].node[2] = job[t].index /\ \A n \in L : n[2] # job[t].index
      BY <1>1, <2>1 DEF Holds
    <2>3. job[t].node \in NodesOf(k) BY <2>1 DEF NodeInv, Sets
    <2> QED BY <2>1, <2>2, <2>3 DEF SameList
  <1>6. Holds(k, L)' BY <1>1, <1>3, <1>4, <1>5 DEF Holds
  <1>7. L \in SUBSET NodesOf(k)' BY <1>1 DEF NodesOf
  <1> QED BY <1>2, <1>6, <1>7 DEF ArgsAt

\* A step in which no thread begins to set an argument or goes on.
LEMMA ListKeep ==
    ASSUME RecordInv, RecordInv', ListInv, UNCHANGED real,
           \A t \in Threads : pc[t] \in Setting \/ pc'[t] \in Setting => pc'[t] = pc[t] /\ job'[t] = job[t],
           \A k \in Kernels : held'[k] > 0 \/ k \in live' => (held[k] > 0 \/ k \in live) /\ SameList(k),
           \A w \in wrong' : w[1] \notin {"short", "endless"}
    PROVE  ListInv'
  <1>0. NodeInv BY DEF RecordInv
  <1>1. \A t \in Threads, k \in Kernels : Sets(t, k)' <=> Sets(t, k) BY DEF Sets
  <1>2. \A t \in Threads, k \in Kernels : Sets(t, k) => pc'[t] = pc[t] /\ job'[t] = job[t] BY DEF Sets
  <1>3. \A k \in Kernels : SameSetters(k) BY <1>1, <1>2 DEF SameSetters
  <1>4. ASSUME NEW k \in Kernels, held'[k] > 0 \/ k \in live' PROVE ArgsAt(k)'
    <2>1. ArgsAt(k) /\ SameList(k) BY <1>4 DEF ListInv
    <2> QED BY <1>0, <1>3, <2>1, ArgsKeep
  <1>5. \A t, u \in Threads : \A k \in Kernels : (Sets(t, k) /\ Sets(u, k))' => t = u
    BY <1>1 DEF ListInv, SetterInv
  <1>6. ASSUME NEW t \in Threads, pc'[t] = "remove" PROVE job'[t].lp = head'[job'[t].kern]
    <2>1. pc[t] = "remove" /\ job'[t] = job[t] BY <1>6 DEF Setting
    <2>2. UseAt(t)' BY DEF RecordInv, RefInv, UseInv
    <2>3. job'[t].kern \in Kernels /\ held'[job'[t].kern] > 0 BY <1>6, <2>2 DEF UseAt, Releasing
    <2>4. SameList(job[t].kern) BY <2>1, <2>3
    <2> QED BY <2>1, <2>4 DEF SameList, ListInv, SetterInv
  <1>7. \A t \in Threads : pc'[t] \in Setting => real'[job'[t].kern][job'[t].index] = job'[t].value
    BY DEF ListInv, SetterInv
  <1>8. SetterInv' BY <1>5, <1>6, <1>7 DEF SetterInv
  <1> QED BY <1>4, <1>8 DEF ListInv

\* A step that leaves the lists alone altogether.
LEMMA ListElse ==
    ASSUME RecordInv, RecordInv', ListInv, UNCHANGED <<lists, real, wrong>>,
           \A t \in Threads : pc[t] \in Setting \/ pc'[t] \in Setting => pc'[t] = pc[t] /\ job'[t] = job[t],
           \A k \in Kernels : held'[k] > 0 \/ k \in live' => held[k] > 0 \/ k \in live
    PROVE  ListInv'
  <1>1. \A k \in Kernels : SameList(k) BY DEF SameList, lists
  <1>2. \A w \in wrong' : w[1] \notin {"short", "endless"} BY DEF ListInv
  <1> QED BY <1>1, <1>2, ListKeep

\* An actor in a count touches no record that is gone.
LEMMA NothingGone ==
    ASSUME RefInv, NEW a \in Actors, IncStore(a) \/ DecStore(a)
    PROVE  UNCHANGED wrong
  <1>1. Counting(a) BY DEF IncStore, DecStore, Counting
  <1>2. Counted(a) \in live BY <1>1 DEF RefInv, StoreInv, StoreAt
  <1> QED BY <1>2 DEF IncStore, DecStore, TouchGone

LEMMA ListSetKernelArg ==
    ASSUME RecordInv, ListInv, Shared = {}, NEW t \in Threads, NEW k \in Kernels, NEW i \in Index,
           NEW b \in Values, SetKernelArg(t, k, i, b)
    PROVE  ListInv'
  <1>0. CountTypeOK /\ NodeInv /\ SetterInv BY DEF RecordInv, RefInv, ListInv
  <1>1. /\ pc[t] = "idle" /\ held[k] > 0 /\ ~Busy(t, k) /\ Goto(t, "head")
        /\ real' = [real EXCEPT ![k][i] = b] /\ live' = live \cup {k} /\ UNCHANGED <<lists, held, wrong>>
        /\ job' = [job EXCEPT ![t] = [NoJob EXCEPT !.kern = k, !.index = i, !.value = b]]
    BY DEF SetKernelArg
  <1>2. /\ job'[t].kern = k /\ job'[t].index = i /\ job'[t].value = b
        /\ \A u \in Threads \ {t} : job'[u] = job[u]
    BY <1>0, <1>1 DEF CountTypeOK, NoJob
  <1>3. pc'[t] = "head" /\ \A u \in Threads \ {t} : pc'[u] = pc[u]
    BY <1>0, <1>1, GotoOK, ActorsApart DEF ThreadPlaces
  <1>4. \A u \in Threads : ~Sets(u, k) BY <1>1 DEF Sets, Busy, Setting
  <1>5. \A u \in Threads, x \in Kernels : Sets(u, x)' <=> (u = t /\ x = k) \/ (u # t /\ Sets(u, x))
    BY <1>1, <1>2, <1>3 DEF Sets, Setting
  <1>6. /\ real'[k][i] = b /\ \A j \in Index : j # i => real'[k][j] = real[k][j]
        /\ \A x \in Kernels \ {k} : real'[x] = real[x]
    <2>1. real \in [Kernels -> [Index -> Values \cup {Nil}]] BY <1>0 DEF CountTypeOK
    <2> QED BY <1>1, <2>1
  <1>7. ArgsAt(k)'
    <2>1. PICK L \in SUBSET NodesOf(k) : Sorted(k, L) /\ Holds(k, L) BY <1>1 DEF ListInv, ArgsAt
    <2>2. Sorted(k, L)' BY <1>1, <2>1, SortedKeep DEF lists
    <2>3. BeingSet(k, i)' BY <1>2, <1>5 DEF BeingSet
    <2>4. \A j : ~BeingSet(k, j) BY <1>4 DEF BeingSet
    <2>5. UNCHANGED <<heap, buf>> BY <1>1 DEF lists
    <2>6. \A u \in Threads : (Sets(u, k) /\ pc[u] = "insert")' => FALSE BY <1>3, <1>4, <1>5
    <2>7. \A n \in L : n[2] \in Index BY <2>1, NodeParts DEF NodesOf
    <2>8. Holds(k, L)' BY <1>6, <2>1, <2>3, <2>4, <2>5, <2>6, <2>7 DEF Holds
    <2>9. L \in SUBSET NodesOf(k)' BY <2>1 DEF NodesOf
    <2> QED BY <2>2, <2>8, <2>9 DEF ArgsAt
  <1>8. ASSUME NEW x \in Kernels, x # k, held'[x] > 0 \/ x \in live' PROVE ArgsAt(x)'
    <2>1. ArgsAt(x) BY <1>1, <1>8 DEF ListInv
    <2>2. SameList(x) BY <1>1 DEF SameList, lists
    <2>3. ASSUME NEW u \in Threads PROVE (Sets(u, x)' <=> Sets(u, x)) /\ (Sets(u, x) => u # t)
      BY <1>1, <1>5, <1>8 DEF Sets, Setting
    <2>4. SameSetters(x) BY <1>2, <1>3, <2>3 DEF SameSetters
    <2>5. real'[x] = real[x] BY <1>6, <1>8
    <2> QED BY <1>0, <2>1, <2>2, <2>4, <2>5, ArgsKeep
  <1>9. SetterInv'
    <2>1. \A u, v \in Threads : \A x \in Kernels : (Sets(u, x) /\ Sets(v, x))' => u = v
      BY <1>0, <1>4, <1>5 DEF SetterInv
    <2>2. \A u \in Threads : pc'[u] = "remove" => job'[u].lp = head'[job'[u].kern]
      BY <1>0, <1>1, <1>2, <1>3 DEF SetterInv, lists
    <2>3. ASSUME NEW u \in Threads, pc'[u] \in Setting PROVE real'[job'[u].kern][job'[u].index] = job'[u].value
      <3>1. CASE u = t BY <1>2, <1>6, <3>1
      <3>2. CASE u # t
        <4>1. pc[u] \in Setting /\ job'[u] = job[u] BY <1>2, <1>3, <2>3, <3>2
        <4>2. job[u].kern \in Kernels BY <4>1 DEF RecordInv, RefInv, UseInv, UseAt, Setting
        <4>3. job[u].kern # k BY <1>4, <4>1 DEF Sets
        <4> QED BY <1>0, <1>6, <4>1, <4>2, <4>3 DEF SetterInv
      <3> QED BY <3>1, <3>2
    <2> QED BY <2>1, <2>2, <2>3 DEF SetterInv
  <1>10. \A w \in wrong' : w[1] \notin {"short", "endless"} BY <1>1 DEF ListInv
  <1> QED BY <1>7, <1>8, <1>9, <1>10 DEF ListInv

LEMMA ListReadHead ==
    ASSUME RecordInv, ListInv, NEW t \in Threads, ReadHead(t)
    PROVE  ListInv'
  <1>0. CountTypeOK /\ NodeInv /\ SetterInv /\ UseAt(t) BY DEF RecordInv, RefInv, UseInv, ListInv
  <1>1. /\ pc[t] = "head" /\ Goto(t, "remove") /\ job' = [job EXCEPT ![t].lp = head[job[t].kern]]
        /\ UNCHANGED <<lists, live, held, real, wrong>>
    BY DEF ReadHead, counts
  <1>2. /\ job'[t].kern = job[t].kern /\ job'[t].index = job[t].index /\ job'[t].value = job[t].value
        /\ job'[t].lp = head[job[t].kern] /\ \A u \in Threads \ {t} : job'[u] = job[u]
    BY <1>0, <1>1 DEF CountTypeOK, Jobs
  <1>3. pc'[t] = "remove" /\ \A u \in Threads \ {t} : pc'[u] = pc[u]
    BY <1>0, <1>1, GotoOK, ActorsApart DEF ThreadPlaces
  <1>4. \A u \in Threads, x \in Kernels : Sets(u, x)' <=> Sets(u, x) BY <1>1, <1>2, <1>3 DEF Sets, Setting
  <1>5. \A x \in Kernels : SameSetters(x) /\ SameList(x)
    BY <1>1, <1>2, <1>3, <1>4 DEF SameSetters, SameList, lists
  <1>6. ASSUME NEW x \in Kernels, held'[x] > 0 \/ x \in live' PROVE ArgsAt(x)'
    <2>1. ArgsAt(x) BY <1>1, <1>6 DEF ListInv
    <2> QED BY <1>0, <1>1, <1>5, <2>1, ArgsKeep
  <1>7. SetterInv'
    <2>1. \A u, v \in Threads : \A x \in Kernels : (Sets(u, x) /\ Sets(v, x))' => u = v
      BY <1>0, <1>4 DEF SetterInv
    <2>2. \A u \in Threads : pc'[u] = "remove" => job'[u].lp = head'[job'[u].kern]
      BY <1>0, <1>1, <1>2, <1>3 DEF SetterInv, lists
    <2>3. \A u \in Threads : pc'[u] \in Setting => real'[job'[u].kern][job'[u].index] = job'[u].value
      BY <1>0, <1>1, <1>2, <1>3 DEF SetterInv, Setting
    <2> QED BY <2>1, <2>2, <2>3 DEF SetterInv
  <1>8. \A w \in wrong' : w[1] \notin {"short", "endless"} BY <1>1 DEF ListInv
  <1> QED BY <1>6, <1>7, <1>8 DEF ListInv

\* Nodes of two kernels are apart.
LEMMA NodesApart ==
    ASSUME NEW k, NEW x, x # k, NEW n \in NodesOf(x)
    PROVE  n \notin NodesOf(k) /\ n \in Nodes
  BY DEF NodesOf

\* remove and insert change no list but the one of their kernel.
LEMMA RemoveLists ==
    ASSUME RecordInv, NEW t \in Threads, RemoveArg(t), NEW x \in Ids, x # job[t].kern
    PROVE  SameList(x)
  <1>0. NodeInv /\ UseAt(t) BY DEF RecordInv, RefInv, UseInv
  <1>a. PICK k : k = job[t].kern OBVIOUS
  <1>b. PICK tr : tr = Trail(job[t].lp) OBVIOUS
  <1>c. PICK S : S = {n \in Nodes : n[2] >= job[t].index} OBVIOUS
  <1>d. PICK j : j = Stop(tr, S) OBVIOUS
  <1>1. /\ pc[t] = "remove" /\ buf' = buf /\ heap \subseteq heap'
        /\ head' = head \/ \E y : head' = [head EXCEPT ![k] = y]
        /\ next' = next \/ (j # -1 /\ j > 0 /\ \E y : next' = [next EXCEPT ![tr[j - 1]] = y])
    BY <1>a, <1>b, <1>c, <1>d DEF RemoveArg
  <1>2. k \in Ids /\ job[t].lp \in NodesOf(k) \cup {Nil} BY <1>0, <1>1, <1>a, ActorsApart DEF UseAt, NodeInv
  <1>3. head'[x] = head[x] BY <1>0, <1>1, <1>a DEF NodeInv
  <1>4. j # -1 /\ j > 0 => tr[j - 1] \in NodesOf(k)
    <2> HAVE j # -1 /\ j > 0
    <2>1. j - 1 \in 0 .. Fuel /\ tr[j - 1] \notin S \cup {Nil} BY <1>d, StopLeast
    <2>2. tr[j - 1] \in NodesOf(k) \cup {Nil} BY <1>0, <1>2, <1>b, <2>1, TrailIn
    <2> QED BY <2>1, <2>2
  <1>5. \A n \in NodesOf(x) : n \notin NodesOf(k) /\ n \in Nodes BY <1>a, NodesApart
  <1>6. \A n \in NodesOf(x) : next'[n] = next[n] BY <1>0, <1>1, <1>4, <1>5 DEF NodeInv
  <1> QED BY <1>1, <1>3, <1>6 DEF SameList

LEMMA InsertLists ==
    ASSUME RecordInv, NEW t \in Threads, InsertArg(t), NEW x \in Ids, x # job[t].kern
    PROVE  SameList(x)
  <1>0. NodeInv /\ UseAt(t) BY DEF RecordInv, RefInv, UseInv
  <1>a. PICK k : k = job[t].kern OBVIOUS
  <1>b. PICK node : node = job[t].node OBVIOUS
  <1>c. PICK tr : tr = Trail(head[k]) OBVIOUS
  <1>d. PICK S : S = {n \in Nodes : node[2] < n[2]} OBVIOUS
  <1>e. PICK j : j = Stop(tr, S) OBVIOUS
  <1>1. /\ pc[t] = "insert" /\ buf' = [buf EXCEPT ![node] = job[t].value] /\ heap' = heap
        /\ head' = head \/ head' = [head EXCEPT ![k] = node]
        /\ \/ next' = next
           \/ /\ j # -1
              /\ next' = CASE j = 0                -> [next EXCEPT ![node] = tr[j]]
                           [] j > 0 /\ tr[j] = Nil -> [next EXCEPT ![tr[j - 1]] = node, ![node] = Nil]
                           [] OTHER                 -> [next EXCEPT ![node] = tr[j], ![tr[j - 1]] = node]
    BY <1>a, <1>b, <1>c, <1>d, <1>e DEF InsertArg
  <1>2. k \in Ids /\ node \in NodesOf(k) /\ head[k] \in NodesOf(k) \cup {Nil}
    BY <1>0, <1>1, <1>a, <1>b, ActorsApart DEF UseAt, NodeInv
  <1>3. head'[x] = head[x] BY <1>0, <1>1, <1>a DEF NodeInv
  <1>4. j # -1 /\ j # 0 => j > 0 /\ tr[j - 1] \in NodesOf(k)
    <2> HAVE j # -1 /\ j # 0
    <2>0. j > 0 BY <1>e, FuelNat, StopIs
    <2>1. j - 1 \in 0 .. Fuel /\ tr[j - 1] \notin S \cup {Nil} BY <1>e, <2>0, StopLeast
    <2>2. tr[j - 1] \in NodesOf(k) \cup {Nil} BY <1>0, <1>2, <1>c, <2>1, TrailIn
    <2> QED BY <2>0, <2>1, <2>2
  <1>5. \A n \in NodesOf(x) : n \notin NodesOf(k) /\ n \in Nodes BY <1>a, NodesApart
  <1>6. \A n \in NodesOf(x) : next'[n] = next[n]
    <2>0. next \in [Nodes -> Nodes \cup {Nil}] BY <1>0 DEF NodeInv
    <2>1. CASE next' = next BY <2>1
    <2>2. CASE j # -1 /\ j = 0 /\ next' = [next EXCEPT ![node] = tr[j]] BY <1>2, <1>5, <2>0, <2>2
    <2>3. CASE j # -1 /\ j # 0 /\ next' = [next EXCEPT ![tr[j - 1]] = node, ![node] = Nil]
      BY <1>2, <1>4, <1>5, <2>0, <2>3
    <2>4. CASE j # -1 /\ j # 0 /\ next' = [next EXCEPT ![node] = tr[j], ![tr[j - 1]] = node]
      BY <1>2, <1>4, <1>5, <2>0, <2>4
    <2> QED BY <1>1, <1>4, <2>1, <2>2, <2>3, <2>4
  <1>7. \A n \in NodesOf(x) : buf'[n] = buf[n]
    <2>1. buf = [n \in Nodes |-> buf[n]] BY <1>0 DEF NodeInv
    <2>2. buf' = [n \in Nodes |-> IF n = node THEN job[t].value ELSE buf[n]] BY <1>1, <2>1
    <2> QED BY <1>2, <1>5, <2>2
  <1> QED BY <1>1, <1>3, <1>6, <1>7 DEF SameList

\* What is left to show for a step that works on the list of k alone.
LEMMA ListOthers ==
    ASSUME RecordInv, ListInv, NEW t \in Threads, NEW k \in Kernels, Sets(t, k), UNCHANGED <<real, held, live>>,
           \A u \in Threads \ {t} : pc'[u] = pc[u] /\ job'[u] = job[u],
           pc'[t] \in {"insert", "idle"},
           pc'[t] = "insert" => /\ job'[t].kern = k /\ job'[t].index = job[t].index
                                /\ job'[t].value = job[t].value,
           \A x \in Kernels : x # k => SameList(x), ArgsAt(k)', wrong' = wrong
    PROVE  ListInv'
  <1>0. NodeInv /\ SetterInv BY DEF RecordInv, ListInv
  <1>1. \A x \in Kernels : x # k => ~Sets(t, x) /\ ~Sets(t, x)' BY DEF Sets, Setting
  <1>2. \A u \in Threads, x \in Kernels : u # t => (Sets(u, x)' <=> Sets(u, x)) BY DEF Sets
  <1>3. \A u \in Threads : u # t => ~Sets(u, k) BY <1>0 DEF SetterInv
  <1>4. ASSUME NEW x \in Kernels, x # k, held'[x] > 0 \/ x \in live' PROVE ArgsAt(x)'
    <2>1. ArgsAt(x) BY <1>4 DEF ListInv
    <2>2. SameSetters(x) BY <1>1, <1>2, <1>4 DEF SameSetters
    <2> QED BY <1>0, <1>4, <2>1, <2>2, ArgsKeep
  <1>5. \A u, v \in Threads : \A x \in Kernels : (Sets(u, x) /\ Sets(v, x))' => u = v
    BY <1>0, <1>1, <1>2, <1>3 DEF SetterInv
  <1>6. ASSUME NEW u \in Threads, pc'[u] = "remove" PROVE job'[u].lp = head'[job'[u].kern]
    <2>1. u # t /\ pc[u] = "remove" /\ job'[u] = job[u] BY <1>6
    <2>2. job[u].kern \in Kernels BY <2>1 DEF RecordInv, RefInv, UseInv, UseAt
    <2>3. job[u].kern # k BY <1>3, <2>1 DEF Sets, Setting
    <2>4. head'[job[u].kern] = head[job[u].kern] BY <2>2, <2>3 DEF SameList
    <2> QED BY <1>0, <2>1, <2>4 DEF SetterInv
  <1>7. \A u \in Threads : pc'[u] \in Setting => real'[job'[u].kern][job'[u].index] = job'[u].value
    BY <1>0 DEF SetterInv, Sets, Setting
  <1>8. SetterInv' BY <1>5, <1>6, <1>7 DEF SetterInv
  <1> QED BY <1>4, <1>8 DEF ListInv

LEMMA ListRemoveArg ==
    ASSUME RecordInv, ListInv, NEW t \in Threads, RemoveArg(t)
    PROVE  ListInv'
  <1>0. CountTypeOK /\ NodeInv /\ SetterInv /\ UseAt(t) BY DEF RecordInv, RefInv, UseInv, ListInv
  <1>a. PICK k : k = job[t].kern OBVIOUS
  <1>b. PICK i : i = job[t].index OBVIOUS
  <1>c. PICK tr : tr = Trail(job[t].lp) OBVIOUS
  <1>d. PICK S : S = {x \in Nodes : x[2] >= i} OBVIOUS
  <1>e. PICK j : j = Stop(tr, S) OBVIOUS
  <1>f. PICK hit \in BOOLEAN : hit <=> j # -1 /\ tr[j] # Nil /\ tr[j][2] = i OBVIOUS
  <1>g. PICK node : node = IF hit THEN tr[j] ELSE <<k, i, t>> OBVIOUS
  <1>1. /\ pc[t] = "remove" /\ Goto(t, "insert") /\ UNCHANGED <<live, held, real, buf>>
        /\ next' = IF hit /\ j > 0 THEN [next EXCEPT ![tr[j - 1]] = next[node]] ELSE next
        /\ head' = IF hit /\ j = 0 THEN [head EXCEPT ![k] = next[node]] ELSE head
        /\ heap' = heap \cup {node}
        /\ job' = [job EXCEPT ![t].node = node]
        /\ wrong' = IF j = -1 THEN wrong \cup {<<"endless", t>>} ELSE wrong
    BY <1>a, <1>b, <1>c, <1>d, <1>e, <1>f, <1>g DEF RemoveArg, counts
  <1>2. /\ k \in Kernels /\ k \in Ids /\ held[k] > 0 /\ Sets(t, k) /\ i \in Index /\ i \in Int
        /\ tr = Trail(head[k])
    BY <1>0, <1>1, <1>a, <1>b, <1>c, ActorsApart, RecordAssumption
       DEF UseAt, Releasing, NodeInv, SetterInv, Sets, Setting, Index
  <1>3. PICK L \in SUBSET NodesOf(k) : Sorted(k, L) /\ Holds(k, L) BY <1>2 DEF ListInv, ArgsAt
  <1>4. From(S, i) BY <1>d DEF From
  <1>5. Stops(k, L, i, tr, j) BY <1>2, <1>3, <1>4, <1>e, SearchIs
  <1>6. j # -1 /\ wrong' = wrong /\ j \in Int /\ j >= 0 BY <1>1, <1>5, FuelNat DEF Stops
  <1>7. /\ job'[t].kern = k /\ job'[t].index = i /\ job'[t].value = job[t].value /\ job'[t].node = node
        /\ \A u \in Threads \ {t} : job'[u] = job[u]
    BY <1>0, <1>1, <1>a, <1>b DEF CountTypeOK, Jobs
  <1>8. pc'[t] = "insert" /\ \A u \in Threads \ {t} : pc'[u] = pc[u]
    BY <1>0, <1>1, GotoOK, ActorsApart DEF ThreadPlaces
  <1>9. /\ next \in [Nodes -> Nodes \cup {Nil}] /\ head \in [Ids -> Nodes \cup {Nil}] /\ L \subseteq Nodes
    BY <1>0, <1>3 DEF NodeInv, NodesOf
  <1>i. \A m \in L : m[2] \in Int /\ m # Nil BY <1>3, SortedNodes
  <1>10. hit => node \in L /\ node[2] = i BY <1>5, <1>6, <1>f, <1>g DEF Stops
  <1>11. ~hit => node[2] = i /\ \A n \in L : n[2] # i
    <2> HAVE ~hit
    <2>1. node[2] = i BY <1>g
    <2>2. CASE tr[j] = Nil
      <3>1. \A m \in L : m[2] < i BY <1>5, <1>i, <2>2 DEF Stops
      <3> QED BY <1>2, <1>i, <2>1, <3>1
    <2>3. CASE tr[j] # Nil
      <3>1. tr[j] \in L /\ tr[j][2] >= i /\ \A m \in L : m[2] < i \/ tr[j][2] <= m[2]
        BY <1>5, <2>3 DEF Stops
      <3>2. tr[j][2] > i BY <1>2, <1>6, <1>f, <1>i, <2>3, <3>1
      <3> QED BY <1>2, <1>i, <2>1, <3>1, <3>2
    <2> QED BY <2>2, <2>3
  <1> DEFINE K == IF hit THEN L \ {node} ELSE L
  <1>12. /\ K \subseteq L /\ \A n \in K : n[2] # i
         /\ \A n \in L : n[2] # i => n \in K
    <2>1. CASE hit
      <3>1. \A n \in L : n[2] = i => n = node BY <1>3, <1>10, <2>1 DEF Sorted
      <3> QED BY <1>10, <2>1, <3>1
    <2>2. CASE ~hit BY <1>11, <2>2
    <2> QED BY <2>1, <2>2
  <1>p. hit /\ j > 0 => tr[j - 1] \in L /\ tr[j - 1][2] < i /\ next[tr[j - 1]] = node
    BY <1>5, <1>g DEF Stops
  <1>13. Sorted(k, K)'
    <2>1. CASE ~hit
      <3>1. head'[k] = head[k] /\ next' = next BY <1>1, <2>1
      <3> QED BY <1>3, <2>1, <3>1, SortedKeep
    <2>2. CASE hit /\ j = 0
      <3>1. head[k] = node BY <1>5, <1>g, <2>2 DEF Stops
      <3>2. next' = next /\ head'[k] = next[node] BY <1>1, <1>2, <1>9, <2>2
      <3>3. \A n \in L : next[n] # node
        <4> TAKE n \in L
        <4>1. node[2] <= n[2] BY <1>3, <3>1, <1>10, <1>i, <2>2 DEF Sorted
        <4>2. next[n] = node => n[2] < node[2] BY <1>3, <1>10, <1>i, <2>2 DEF Sorted
        <4> QED BY <1>10, <1>i, <2>2, <4>1, <4>2
      <3>4. Sorted(k, L \ {node})' BY <1>3, <1>10, <2>2, <3>1, <3>2, <3>3, SortedWithout
      <3> QED BY <2>2, <3>4
    <2>3. CASE hit /\ j > 0
      <3>0. PICK p : p = tr[j - 1] OBVIOUS
      <3>1. p \in L /\ p[2] < i /\ next[p] = node BY <1>p, <2>3, <3>0
      <3>2. next' = [next EXCEPT ![p] = next[node]] /\ head' = head BY <1>1, <2>3, <3>0
      <3>3. head[k] # node
        <4>1. head[k] = node => node[2] <= p[2] BY <1>3, <1>i, <3>1 DEF Sorted
        <4> QED BY <1>2, <1>10, <1>i, <2>3, <3>1, <4>1
      <3>4. ASSUME NEW n \in L, next[n] = node PROVE n = p
        <4>1. n[2] < i /\ \A m \in L : m[2] <= n[2] \/ i <= m[2] BY <1>3, <1>10, <1>i, <2>3, <3>4 DEF Sorted
        <4>2. \A m \in L : m[2] <= p[2] \/ i <= m[2] BY <1>3, <1>10, <1>i, <2>3, <3>1 DEF Sorted
        <4>3. n[2] = p[2] BY <1>2, <1>i, <3>1, <4>1, <4>2
        <4> QED BY <1>3, <3>1, <4>3 DEF Sorted
      <3>5. \A n \in L : next'[n] = IF next[n] = node THEN next[node] ELSE next[n]
        BY <1>9, <3>1, <3>2, <3>4
      <3>6. Sorted(k, L \ {node})' BY <1>3, <1>10, <2>3, <3>2, <3>3, <3>5, SortedWithout
      <3> QED BY <2>3, <3>6
    <2> QED BY <1>6, <2>1, <2>2, <2>3
  <1> HIDE DEF K
  <1>14. Holds(k, K)'
    <2>1. \A u \in Threads : Sets(u, k)' <=> u = t
      <3>1. Sets(t, k)' BY <1>7, <1>8 DEF Sets, Setting
      <3>2. \A u \in Threads \ {t} : ~Sets(u, k) BY <1>0, <1>2 DEF SetterInv
      <3> QED BY <1>7, <1>8, <3>1, <3>2 DEF Sets
    <2>2. \A x : BeingSet(k, x)' <=> x = i BY <1>7, <2>1 DEF BeingSet
    <2>3. \A x : BeingSet(k, x) <=> x = i BY <1>0, <1>2, <1>b DEF BeingSet, SetterInv
    <2>4. \A x \in Index : x # i => (real[k][x] # Nil <=> \E n \in L : n[2] = x) BY <1>3, <2>3 DEF Holds
    <2>5. \A x \in Index : x # i => (real[k][x] # Nil <=> \E n \in K : n[2] = x) BY <1>12, <2>4
    <2>6. \A n \in K : buf[n] = real[k][n[2]] BY <1>3, <1>12, <2>3 DEF Holds
    <2>7. K \subseteq heap' /\ node \in heap' BY <1>1, <1>3, <1>12 DEF Holds
    <2>8. node[2] = i BY <1>10, <1>11
    <2> QED BY <1>1, <1>7, <1>12, <2>1, <2>2, <2>5, <2>6, <2>7, <2>8 DEF Holds
  <1>15. ArgsAt(k)'
    <2>1. K \in SUBSET NodesOf(k)' BY <1>12 DEF NodesOf
    <2> QED BY <1>13, <1>14, <2>1 DEF ArgsAt
  <1>16. \A x \in Kernels : x # k => SameList(x) BY <1>a, RemoveLists, ActorsApart
  <1> QED BY <1>1, <1>2, <1>6, <1>7, <1>8, <1>15, <1>16, <1>b, ListOthers

LEMMA ListInsertArg ==
    ASSUME RecordInv, ListInv, NEW t \in Threads, InsertArg(t)
    PROVE  ListInv'
  <1>0. CountTypeOK /\ NodeInv /\ SetterInv /\ UseAt(t) BY DEF RecordInv, RefInv, UseInv, ListInv
  <1>a. PICK k : k = job[t].kern OBVIOUS
  <1>b. PICK node : node = job[t].node OBVIOUS
  <1>c. PICK tr : tr = Trail(head[k]) OBVIOUS
  <1>d. PICK S : S = {x \in Nodes : node[2] < x[2]} OBVIOUS
  <1>e. PICK j : j = Stop(tr, S) OBVIOUS
  <1>v. PICK b : b = job[t].value OBVIOUS
  <1>1. /\ pc[t] = "insert" /\ Goto(t, "idle") /\ job' = [job EXCEPT ![t] = NoJob]
        /\ j # -1 =>
             /\ next' = CASE j = 0                -> [next EXCEPT ![node] = tr[j]]
                          [] j > 0 /\ tr[j] = Nil -> [next EXCEPT ![tr[j - 1]] = node, ![node] = Nil]
                          [] OTHER                 -> [next EXCEPT ![node] = tr[j], ![tr[j - 1]] = node]
             /\ head' = IF j = 0 THEN [head EXCEPT ![k] = node] ELSE head
             /\ UNCHANGED wrong
        /\ buf' = [buf EXCEPT ![node] = b] /\ UNCHANGED <<live, held, real, heap>>
    BY <1>a, <1>b, <1>c, <1>d, <1>e, <1>v DEF InsertArg, counts
  <1>2. /\ k \in Kernels /\ k \in Ids /\ held[k] > 0 /\ Sets(t, k) /\ node \in NodesOf(k) /\ node \in Nodes
        /\ b \in Values
    BY <1>0, <1>1, <1>a, <1>b, <1>v, ActorsApart
       DEF UseAt, Releasing, NodeInv, SetterInv, Sets, Setting, NodesOf, CountTypeOK, Jobs
  <1>3. PICK L \in SUBSET NodesOf(k) : Sorted(k, L) /\ Holds(k, L) BY <1>2 DEF ListInv, ArgsAt
  <1>4. PICK i : i = node[2] OBVIOUS
  <1>n. /\ i \in Int /\ i + 1 \in Int /\ i \in Index /\ node # Nil /\ i = job[t].index /\ node \in heap
        /\ \A n \in L : n[2] # i
    BY <1>1, <1>2, <1>3, <1>4, <1>b, NodeParts DEF Holds
  <1>i. \A m \in L : m[2] \in Int /\ m # Nil BY <1>3, SortedNodes
  <1>5. From(S, i + 1)
    <2>1. \A x \in Nodes : x[2] \in Int BY NodeParts
    <2>2. \A x \in Nodes : i < x[2] <=> x[2] >= i + 1 BY <1>n, <2>1
    <2> QED BY <1>4, <1>d, <2>2 DEF From
  <1>6. Stops(k, L, i + 1, tr, j) BY <1>3, <1>5, <1>c, <1>e, <1>n, SearchIs
  <1>7. j \in Int /\ j >= 0 /\ j # -1 /\ wrong' = wrong BY <1>1, <1>6, FuelNat DEF Stops
  <1>y. PICK y : y = tr[j] OBVIOUS
  <1>8. After(node, y, L)
    <2>1. CASE y = Nil
      <3>1. \A m \in L : m[2] < i + 1 BY <1>6, <1>i, <1>y, <2>1 DEF Stops
      <3>2. \A m \in L : m[2] < i BY <1>i, <1>n, <3>1
      <3> QED BY <1>4, <2>1, <3>2 DEF After
    <2>2. CASE y # Nil
      <3>1. y \in L /\ y[2] >= i + 1 /\ \A m \in L : m[2] < i + 1 \/ y[2] <= m[2]
        BY <1>6, <1>y, <2>2 DEF Stops
      <3>2. i < y[2] /\ \A m \in L : m[2] < i \/ y[2] <= m[2] BY <1>i, <1>n, <3>1
      <3> QED BY <1>4, <3>1, <3>2 DEF After
    <2> QED BY <2>1, <2>2
  <1>9. /\ next \in [Nodes -> Nodes \cup {Nil}] /\ head \in [Ids -> Nodes \cup {Nil}] /\ L \subseteq Nodes
        /\ buf = [n \in Nodes |-> buf[n]]
    BY <1>0, <1>3 DEF NodeInv, NodesOf
  <1>m. node \notin L BY <1>4, <1>n
  <1>p. j > 0 => tr[j - 1] \in L /\ tr[j - 1][2] < i /\ next[tr[j - 1]] = y
    <2> HAVE j > 0
    <2>1. tr[j - 1] \in L /\ tr[j - 1][2] < i + 1 /\ next[tr[j - 1]] = y BY <1>6, <1>y DEF Stops
    <2> QED BY <1>i, <1>n, <2>1
  <1>10. ASSUME j = 0 PROVE Sorted(k, L \cup {node})'
    <2>1. next' = [next EXCEPT ![node] = y] /\ head' = [head EXCEPT ![k] = node] BY <1>1, <1>7, <1>y, <1>10
    <2>2. head[k] = y BY <1>6, <1>y, <1>10 DEF Stops
    <2>3. /\ head'[k] = node /\ next'[node] = y /\ \A n \in L : next'[n] = next[n]
      BY <1>2, <1>9, <1>m, <2>1
    <2>4. Sorted(k, L \cup {node})' BY <1>2, <1>3, <1>8, <2>2, <2>3, SortedBefore
    <2> QED BY <2>4
  <1>11. ASSUME j # 0 PROVE Sorted(k, L \cup {node})'
    <2>0. j > 0 BY <1>7, <1>11
    <2>1. PICK p : p = tr[j - 1] OBVIOUS
    <2>2. p \in L /\ p[2] < node[2] /\ next[p] = y /\ p # node /\ p \in NodesOf(k) BY <1>4, <1>m, <1>p, <2>0, <2>1
    <2>3. /\ head' = head /\ next'[node] = y /\ next'[p] = node
          /\ \A n \in Nodes : n # p /\ n # node => next'[n] = next[n]
      <3>1. CASE tr[j] = Nil
        <4>1. next' = [next EXCEPT ![p] = node, ![node] = Nil] /\ head' = head
          BY <1>1, <1>7, <1>11, <2>0, <2>1, <3>1
        <4> QED BY <1>2, <1>9, <1>y, <2>2, <3>1, <4>1
      <3>2. CASE tr[j] # Nil
        <4>1. next' = [next EXCEPT ![node] = tr[j], ![p] = node] /\ head' = head
          BY <1>1, <1>7, <1>11, <2>0, <2>1, <3>2
        <4> QED BY <1>2, <1>9, <1>y, <2>2, <3>2, <4>1
      <3> QED BY <3>1, <3>2
    <2>4. /\ head'[k] = head[k] /\ \A n \in L : n # p => next'[n] = next[n] BY <1>9, <1>m, <2>3
    <2>5. \A m \in L : m[2] # node[2] BY <1>4, <1>n
    <2>6. Sorted(k, L \cup {node})' BY <1>2, <1>3, <1>8, <2>2, <2>3, <2>4, <2>5, SortedBehind
    <2> QED BY <2>6
  <1>12. Sorted(k, L \cup {node})' BY <1>10, <1>11
  <1>13. job'[t] = NoJob /\ \A u \in Threads \ {t} : job'[u] = job[u] BY <1>0, <1>1 DEF CountTypeOK
  <1>14. pc'[t] = "idle" /\ \A u \in Threads \ {t} : pc'[u] = pc[u]
    BY <1>0, <1>1, GotoOK, ActorsApart DEF ThreadPlaces
  <1>15. buf'[node] = b /\ \A n \in Nodes : n # node => buf'[n] = buf[n] BY <1>1, <1>2, <1>9
  <1> DEFINE K == L \cup {node}
  <1>16. Holds(k, K)'
    <2>1. \A u \in Threads : ~Sets(u, k)'
      <3>1. \A u \in Threads \ {t} : ~Sets(u, k) BY <1>0, <1>2 DEF SetterInv
      <3> QED BY <1>13, <1>14, <3>1 DEF Sets, Setting
    <2>2. \A x : ~BeingSet(k, x)' BY <2>1 DEF BeingSet
    <2>3. \A x : BeingSet(k, x) <=> x = i BY <1>0, <1>2, <1>n DEF BeingSet, SetterInv
    <2>4. real[k][i] = b /\ b # Nil
      BY <1>0, <1>1, <1>2, <1>a, <1>n, <1>v, RecordAssumption DEF SetterInv, Setting, Values
    <2>5. \A x \in Index : real[k][x] # Nil <=> \E n \in K : n[2] = x
      <3>1. \A x \in Index : x # i => (real[k][x] # Nil <=> \E n \in L : n[2] = x) BY <1>3, <2>3 DEF Holds
      <3> QED BY <1>4, <2>4, <3>1
    <2>6. \A n \in K : buf'[n] = real[k][n[2]]
      <3>1. \A n \in L : buf[n] = real[k][n[2]] BY <1>3, <1>n, <2>3 DEF Holds
      <3> QED BY <1>4, <1>9, <1>15, <1>m, <2>4, <3>1
    <2>7. K \subseteq heap BY <1>3, <1>n DEF Holds
    <2> HIDE DEF K
    <2> QED BY <1>1, <2>1, <2>2, <2>5, <2>6, <2>7 DEF Holds
  <1>17. ArgsAt(k)'
    <2>1. K \in SUBSET NodesOf(k)' BY <1>2, <1>3 DEF NodesOf
    <2> QED BY <1>12, <1>16, <2>1 DEF ArgsAt
  <1>18. \A x \in Kernels : x # k => SameList(x) BY <1>a, InsertLists, ActorsApart
  <1> QED BY <1>1, <1>2, <1>7, <1>13, <1>14, <1>17, <1>18, ListOthers

\* The threads that set an argument, and nobody else, stay where they are.
SettersStay ==
    \A t \in Threads : pc[t] \in Setting \/ pc'[t] \in Setting => pc'[t] = pc[t] /\ job'[t] = job[t]

LEMMA OthersStay ==
    ASSUME CountTypeOK, NEW a \in Actors, pc[a] \notin Setting, NEW p, p \notin Setting, Goto(a, p),
           job' = job \/ \E j : job' = [job EXCEPT ![a] = j]
    PROVE  SettersStay
  <1>1. pc'[a] = p /\ \A b \in Actors \ {a} : pc'[b] = pc[b] BY DEF Goto, CountTypeOK
  <1>2. \A u \in Threads \ {a} : job'[u] = job[u] BY DEF CountTypeOK
  <1> QED BY <1>1, <1>2, ActorsApart DEF SettersStay

\* The steps that set no argument.
LEMMA StepsStay ==
    ASSUME RecordInv,
           \/ \E t \in Threads : Inc(t) \/ IncStore(t) \/ Verify(t) \/ CheckDone(t) \/ DelPoisonKernel(t)
           \/ \E t \in Threads, k \in Kernels : RetainKernel(t, k) \/ ReleaseKernel(t, k)
           \/ wrong = {} /\ \E t \in Threads, k \in Kernels, l \in Launches : LaunchKernel(t, l, k)
           \/ \E l \in Launches : Callback(l)
           \/ \E a \in Actors : Dec(a) \/ DecStore(a) \/ Drop(a)
           \/ \E b \in Buffers : ReleaseMemObject(b)
           \/ UNCHANGED vars
    PROVE  SettersStay
  <1>0. CountTypeOK /\ RefInv /\ OwnInv BY DEF RecordInv, RefInv
  <1>a. Threads \subseteq Actors /\ Launches \subseteq Actors BY DEF Actors
  <1>1. ASSUME NEW t \in Threads, Inc(t) \/ IncStore(t) PROVE SettersStay
    <2>1. /\ pc[t] \notin Setting
          /\ \E p \in {"incstore", "verify", "idle"} :
                Goto(t, p) /\ (job' = job \/ \E j : job' = [job EXCEPT ![t] = j])
      BY <1>1 DEF Inc, IncStore, EndRetain, EndJob, AfterInc, Setting
    <2>2. \A p \in {"incstore", "verify", "idle"} : p \notin Setting BY DEF Setting
    <2> QED BY <1>0, <1>a, <2>1, <2>2, OthersStay
  <1>2. ASSUME NEW t \in Threads, Verify(t) PROVE SettersStay
    <2>a. PICK l : l = job[t].launch OBVIOUS
    <2>b. PICK p : p = IF l \in Waiting THEN "wait" ELSE AfterCheck(l) OBVIOUS
    <2>1. pc' = [pc EXCEPT ![t] = p, ![l] = "due"] /\ EndJob(t, p) /\ pc[t] = "verify"
      BY <1>2, <2>a, <2>b DEF Verify
    <2>2. job[t].launch # Nil BY <1>0, <2>1 DEF RefInv, UseInv, UseAt
    <2>3. l \in Launches BY <1>0, <2>a, <2>2, UnderWay
    <2>4. pc'[t] = p /\ \A u \in Threads \ {t} : pc'[u] = pc[u]
      BY <1>0, <2>1, <2>3, ActorsApart DEF CountTypeOK
    <2>5. \A u \in Threads \ {t} : job'[u] = job[u] BY <1>0, <2>1 DEF CountTypeOK, EndJob
    <2>6. p \notin Setting /\ pc[t] \notin Setting BY <2>1, <2>b DEF AfterCheck, Setting
    <2> QED BY <2>4, <2>5, <2>6 DEF SettersStay
  <1>9. ASSUME NEW t \in Threads, CheckDone(t) PROVE SettersStay
    <2>a. PICK p : p = AfterCheck(job[t].launch) OBVIOUS
    <2>1. pc[t] \notin Setting /\ Goto(t, p) /\ (job' = job \/ \E j : job' = [job EXCEPT ![t] = j])
      BY <1>9, <2>a DEF CheckDone, EndJob, Setting
    <2>2. p \notin Setting BY <2>a DEF AfterCheck, Setting
    <2> QED BY <1>0, <1>a, <2>1, <2>2, OthersStay
  <1>3. ASSUME NEW t \in Threads, DelPoisonKernel(t) PROVE SettersStay
    <2>1. pc[t] \notin Setting /\ "dec" \notin Setting /\ Goto(t, "dec") /\ job' = job
      BY <1>3 DEF DelPoisonKernel, Setting
    <2> QED BY <1>0, <1>a, <2>1, OthersStay
  <1>4. ASSUME NEW t \in Threads, NEW k \in Kernels, RetainKernel(t, k) \/ ReleaseKernel(t, k) PROVE SettersStay
    <2>1. pc[t] \notin Setting /\ \E p \in {"inc", "dec"} : Goto(t, p) /\ \E j : job' = [job EXCEPT ![t] = j]
      BY <1>4 DEF RetainKernel, ReleaseKernel, Setting
    <2>2. \A p \in {"inc", "dec"} : p \notin Setting BY DEF Setting
    <2> QED BY <1>0, <1>a, <2>1, <2>2, OthersStay
  <1>5. ASSUME wrong = {}, NEW t \in Threads, NEW k \in Kernels, NEW l \in Launches, LaunchKernel(t, l, k)
        PROVE  SettersStay
    <2>1. /\ pc[t] = "idle"
          /\ \/ UNCHANGED <<pc, job>>
             \/ /\ job' = IF HasBuffer(k) THEN [job EXCEPT ![t] = LaunchJob(k, l)] ELSE job
                /\ Goto(t, IF HasBuffer(k) THEN "inc" ELSE "idle")
      BY <1>0, <1>5, LaunchOf
    <2>2. CASE UNCHANGED <<pc, job>> BY <2>2 DEF SettersStay
    <2>3. CASE /\ job' = IF HasBuffer(k) THEN [job EXCEPT ![t] = LaunchJob(k, l)] ELSE job
               /\ Goto(t, IF HasBuffer(k) THEN "inc" ELSE "idle")
      <3>1. pc[t] \notin Setting /\ (IF HasBuffer(k) THEN "inc" ELSE "idle") \notin Setting BY <2>1 DEF Setting
      <3> QED BY <1>0, <1>a, <2>3, <3>1, OthersStay
    <2> QED BY <2>1, <2>2, <2>3
  <1>6. ASSUME NEW l \in Launches, Callback(l) PROVE SettersStay
    <2>1. UNCHANGED job /\ (pc' = pc \/ \E p : Goto(l, p)) BY <1>6 DEF Callback, ReportNext, NameBuffer
    <2>2. \A u \in Threads : pc'[u] = pc[u] BY <1>0, <2>1, ActorsApart DEF Goto, CountTypeOK
    <2> QED BY <2>1, <2>2 DEF SettersStay
  <1>7. ASSUME NEW a \in Actors, Dec(a) \/ DecStore(a) \/ Drop(a) PROVE SettersStay
    <2>1. /\ pc[a] \notin Setting
          /\ \E p \in {"idle", "decstore", "drop"} :
                Goto(a, p) /\ (job' = job \/ job' = [job EXCEPT ![a] = NoJob])
      BY <1>7 DEF Dec, DecStore, Drop, EndJob, Setting
    <2>2. \A p \in {"idle", "decstore", "drop"} : p \notin Setting BY DEF Setting
    <2> QED BY <1>0, <2>1, <2>2, OthersStay
  <1>8. ASSUME (\E b \in Buffers : ReleaseMemObject(b)) \/ UNCHANGED vars PROVE SettersStay
    <2>1. UNCHANGED <<pc, job>> BY <1>8 DEF ReleaseMemObject, vars
    <2> QED BY <2>1 DEF SettersStay
  <1> QED BY <1>1, <1>2, <1>3, <1>4, <1>5, <1>6, <1>7, <1>8, <1>9

\* A record goes with its list; the other lists stay.
LEMMA DropLists ==
    ASSUME RecordInv, NEW a \in Actors, Drop(a), NEW x \in Ids
    PROVE  SameList(x) \/ (x \in live /\ Owed(x) = 0 /\ x \notin live')
  <1>0. CountTypeOK /\ NodeInv /\ RefInv BY DEF RecordInv, RefInv
  <1>a. PICK k : k = Counted(a) OBVIOUS
  <1> DEFINE last == k \in live /\ refs[k] = 0
  <1>1. /\ pc[a] = "drop" /\ live' = IF last THEN live \ {k} ELSE live
        /\ IF last THEN Free(Listed(k), next) ELSE UNCHANGED <<heap, next, buf>>
        /\ head' = IF last THEN [head EXCEPT ![k] = Nil] ELSE head
    BY <1>0, <1>a, DropIs DEF Remove, lists
  <1>2. k \in Ids /\ Listed(k) \subseteq NodesOf(k) BY <1>0, <1>1, <1>a, CountedOK, ListedIn
  <1>3. CASE ~last BY <1>1, <1>3 DEF SameList
  <1>4. CASE last /\ x = k
    <2>1. Owed(k) = 0 BY <1>0, <1>4 DEF RefInv, CountInv
    <2> QED BY <1>1, <1>4, <2>1
  <1>5. CASE last /\ x # k
    <2>1. head'[x] = head[x] BY <1>0, <1>1, <1>5 DEF NodeInv
    <2>2. \A n \in NodesOf(x) : n \notin Listed(k) /\ n \in Nodes BY <1>2, <1>5, NodesApart
    <2>3. Free(Listed(k), next) BY <1>1, <1>5
    <2> QED BY <2>1, <2>2, <2>3 DEF SameList, Free
  <1> QED BY <1>3, <1>4, <1>5

LEMMA CleanLists ==
    ASSUME RecordInv, NEW t \in Threads, DelPoisonKernel(t), NEW x \in Ids, x # job[t].launch
    PROVE  SameList(x)
  <1>0. CountTypeOK /\ NodeInv /\ UseAt(t) BY DEF RecordInv, RefInv, UseInv
  <1> DEFINE l == job[t].launch
             stays == {i \in Index : launch[l].dupe[i] # i}
             gone  == {n \in Listed(l) : n[2] \notin stays}
             after(i) == {j \in stays : j > i}
             first(S) == IF S = {} THEN Nil ELSE Argument(l, CHOOSE j \in S : \A m \in S : j <= m)
             G == {n \in gone : buf[n] # NoBuffer}
             nx == [n \in Nodes |-> IF n \in Listed(l) \ gone THEN first(after(n[2])) ELSE next[n]]
  <1>1. pc[t] = "clean" /\ head' = [head EXCEPT ![l] = first(stays)] /\ Free(G, nx)
    BY DEF DelPoisonKernel
  <1>2. l \in Ids BY <1>0, <1>1, ActorsApart DEF UseAt, CountTypeOK, Jobs
  <1>3. Listed(l) \subseteq NodesOf(l) BY <1>0, <1>2, ListedIn
  <1>4. \A n \in NodesOf(x) : n \notin Listed(l) /\ n \in Nodes BY <1>3, NodesApart
  <1>5. \A n \in NodesOf(x) : n \notin G /\ nx[n] = next[n] BY <1>4
  <1> HIDE DEF G, nx, first, stays
  <1>6. head'[x] = head[x] BY <1>0, <1>1 DEF NodeInv
  <1> QED BY <1>1, <1>4, <1>5, <1>6 DEF SameList, Free

LEMMA LaunchLists ==
    ASSUME RecordInv, wrong = {}, NEW t \in Threads, NEW k \in Kernels, NEW l \in Launches, LaunchKernel(t, l, k),
           NEW x \in Ids, x # l
    PROVE  SameList(x)
  <1>0. RefInv /\ OwnInv /\ NodeInv BY DEF RecordInv
  <1>1. UNCHANGED lists \/ StandIn(t, l, k) BY <1>0, LaunchOf
  <1>2. CASE UNCHANGED lists BY <1>2 DEF lists, SameList
  <1>3. CASE StandIn(t, l, k)
    <2> DEFINE made == {<<l, i, t>> : i \in Index}
    <2>1. /\ head'[x] = head[x]
      BY <1>0, <1>3 DEF StandIn, NodeInv
    <2>2. \A n \in NodesOf(x) : n \in Nodes /\ n \notin made BY DEF NodesOf
    <2>3. /\ \A n \in Nodes \ made : next'[n] = next[n] /\ buf'[n] = buf[n]
          /\ heap \subseteq heap'
      BY <1>3 DEF StandIn
    <2> HIDE DEF made
    <2> QED BY <2>1, <2>2, <2>3 DEF SameList
  <1> QED BY <1>1, <1>2, <1>3

\* A kernel that is launched has all its arguments, and nobody sets one.
LEMMA LaunchArgs ==
    ASSUME RecordInv, ListInv, Shared = {}, NEW t \in Threads, NEW k \in Kernels, NEW l \in Launches,
           LaunchKernel(t, l, k)
    PROVE  /\ \A u \in Threads : ~Sets(u, k)
           /\ \A i \in Index : Argument(k, i) # Nil
           /\ \E L \in SUBSET NodesOf(k) :
                /\ Sorted(k, L) /\ L \subseteq heap
                /\ \A i \in Index : \E n \in L : n[2] = i
                /\ \A n \in L : buf[n] = real[k][n[2]] /\ buf[n] \in mem \cup {NoBuffer}
  <1>0. OwnInv /\ NodeInv BY DEF RecordInv
  <1>1. /\ pc[t] = "idle" /\ held[k] > 0 /\ ~Busy(t, k)
        /\ \A i \in Index : real[k][i] \in mem \cup {NoBuffer}
    BY DEF LaunchKernel
  <1>2. \A u \in Threads : ~Sets(u, k) BY <1>1 DEF Sets, Busy, Setting
  <1>3. \A i : ~BeingSet(k, i) BY <1>2 DEF BeingSet
  <1>4. Nil \notin mem \cup {NoBuffer} BY <1>0, RecordAssumption DEF OwnInv, OwnBuffers
  <1>5. PICK L \in SUBSET NodesOf(k) : Sorted(k, L) /\ Holds(k, L) BY <1>1 DEF ListInv, ArgsAt
  <1>6. \A i \in Index : \E n \in L : n[2] = i BY <1>1, <1>3, <1>4, <1>5 DEF Holds
  <1>7. \A i \in Index : Argument(k, i) # Nil
    <2> TAKE i \in Index
    <2>1. Argument(k, i) = Nil => \A n \in L : n[2] # i
      <3>1. \A n \in L : n # Nil BY <1>5, SortedNodes
      <3> QED BY <1>5, <3>1, FindSorted
    <2> QED BY <1>6, <2>1
  <1>8. \A n \in L : n[2] \in Index BY <1>5, NodeParts DEF NodesOf
  <1>9. \A n \in L : buf[n] = real[k][n[2]] /\ buf[n] \in mem \cup {NoBuffer}
    BY <1>1, <1>3, <1>5, <1>8 DEF Holds
  <1>10. L \subseteq heap BY <1>5 DEF Holds
  <1> QED BY <1>2, <1>5, <1>6, <1>7, <1>9, <1>10

LEMMA ListStep ==
    ASSUME CountsApart', Shared = {}, RecordInv, ListInv, [Next]_vars
    PROVE  ListInv'
  <1>0. /\ RefInv /\ NodeInv /\ OwnInv /\ CountTypeOK /\ RecordInv'
        /\ \A t \in Threads : UseAt(t) /\ LaunchAt(t)
    BY RecordsStep DEF RecordInv, RefInv, UseInv
  <1>1. ASSUME UNCHANGED vars PROVE ListInv'
    <2>1. SettersStay BY <1>1, StepsStay
    <2>2. UNCHANGED <<lists, real, wrong, held, live>> BY <1>1 DEF vars, counts
    <2> QED BY <1>0, <2>1, <2>2, ListElse DEF SettersStay
  <1>2. ASSUME NEW t \in Threads, ReadHead(t) PROVE ListInv' BY <1>2, ListReadHead
  <1>3. ASSUME NEW t \in Threads, RemoveArg(t) PROVE ListInv' BY <1>3, ListRemoveArg
  <1>4. ASSUME NEW t \in Threads, InsertArg(t) PROVE ListInv' BY <1>4, ListInsertArg
  <1>5. ASSUME NEW t \in Threads, Inc(t) \/ IncStore(t) PROVE ListInv'
    <2>1. SettersStay BY <1>5, StepsStay
    <2>2. /\ pc[t] \in {"inc", "incstore"} /\ UNCHANGED <<lists, real, wrong>>
          /\ live' = live \/ (pc[t] = "inc" /\ live' = live \cup {Counted(t)} /\ Counted(t) \notin live)
          /\ held' = held \/ held' = [held EXCEPT ![job[t].kern] = @ + 1]
      BY <1>0, <1>5, NothingGone, ActorsApart DEF Inc, IncStore, EndRetain
    <2>3. job[t].kern \in Kernels /\ held[job[t].kern] > 0 BY <1>0, <2>2 DEF UseAt, Releasing
    <2>4. pc[t] = "inc" /\ Counted(t) \notin live => Counted(t) = job[t].kern
      BY <1>0, ActorsApart DEF LaunchAt, Resting, Early, Counted
    <2>5. ASSUME NEW k \in Kernels, held'[k] > 0 \/ k \in live' PROVE held[k] > 0 \/ k \in live
      <3>1. held'[k] > 0 => held[k] > 0 BY <1>0, <2>2, <2>3 DEF CountTypeOK
      <3>2. k \in live' => k \in live \/ k = job[t].kern BY <2>2, <2>4
      <3> QED BY <2>3, <2>5, <3>1, <3>2
    <2> QED BY <1>0, <2>1, <2>2, <2>5, ListElse DEF SettersStay
  <1>6. ASSUME NEW t \in Threads, Verify(t) \/ CheckDone(t) PROVE ListInv'
    <2>1. SettersStay BY <1>6, StepsStay
    <2>2. UNCHANGED <<lists, real, wrong, held, live>> BY <1>6 DEF Verify, CheckDone, counts
    <2> QED BY <1>0, <2>1, <2>2, ListElse DEF SettersStay
  <1>7. ASSUME NEW t \in Threads, DelPoisonKernel(t) PROVE ListInv'
    <2>1. SettersStay BY <1>7, StepsStay
    <2>2. UNCHANGED <<real, wrong, held, live>> /\ pc[t] = "clean" BY <1>7 DEF DelPoisonKernel, counts
    <2>3. job[t].launch \in Launches BY <1>0, <2>2, UnderWay DEF UseAt
    <2>4. \A k \in Kernels : SameList(k) BY <1>7, <2>3, CleanLists, ActorsApart
    <2> QED BY <1>0, <2>1, <2>2, <2>4, ListKeep DEF SettersStay, ListInv
  <1>8. ASSUME NEW t \in Threads, NEW k \in Kernels, RetainKernel(t, k) \/ ReleaseKernel(t, k) PROVE ListInv'
    <2>1. SettersStay BY <1>8, StepsStay
    <2>2. /\ UNCHANGED <<lists, real, wrong, live>>
          /\ held' = held \/ (held[k] > 0 /\ held' = [held EXCEPT ![k] = @ - 1])
      <3>1. CASE RetainKernel(t, k) BY <3>1 DEF RetainKernel, counts
      <3>2. CASE ReleaseKernel(t, k)
        <4>1. IsFiniteSet({u \in Threads : job[u].kern = k}) BY RecordAssumption, FS_Subset
        <4>2. Cardinality({u \in Threads : job[u].kern = k}) \in Nat BY <4>1, FS_CardinalityType
        <4>3. held[k] \in Nat BY <1>0 DEF CountTypeOK
        <4>4. held[k] > Cardinality({u \in Threads : job[u].kern = k}) BY <3>2 DEF ReleaseKernel
        <4>5. held[k] > 0 BY <4>2, <4>3, <4>4
        <4> QED BY <3>2, <4>5 DEF ReleaseKernel, counts
      <3> QED BY <1>8, <3>1, <3>2
    <2>3. \A x \in Kernels : held'[x] > 0 => held[x] > 0 BY <1>0, <2>2 DEF CountTypeOK
    <2> QED BY <1>0, <2>1, <2>2, <2>3, ListElse DEF SettersStay
  <1>9. ASSUME NEW t \in Threads, NEW k \in Kernels, NEW i \in Index,
               NEW b \in Buffers \cup {NoBuffer}, SetKernelArg(t, k, i, b)
        PROVE  ListInv'
    <2>1. b \in Values BY DEF Values
    <2> QED BY <1>9, <2>1, ListSetKernelArg
  <1>10. ASSUME wrong = {}, NEW t \in Threads, NEW k \in Kernels, NEW l \in Launches, LaunchKernel(t, l, k)
         PROVE  ListInv'
    <2>1. SettersStay BY <1>10, StepsStay
    <2>2. \A x \in Kernels : SameList(x) BY <1>10, LaunchLists, ActorsApart
    <2>3. \A i \in Index : Argument(k, i) # Nil BY <1>10, LaunchArgs
    <2>4. k \in live BY <1>0, <1>10, LaunchOf
    <2>5. wrong' = {} BY <1>10, <2>3, <2>4 DEF LaunchKernel
    <2>6. UNCHANGED <<real, held>> BY <1>10 DEF LaunchKernel
    <2>7. live' \subseteq live \cup {l}
      <3>1. UNCHANGED counts \/ live' = live \/ StandIn(t, l, k) BY <1>0, <1>10, LaunchOf
      <3> QED BY <3>1 DEF StandIn, counts
    <2>8. \A x \in Kernels : x \in live' => x \in live BY <2>7, ActorsApart
    <2> QED BY <1>0, <2>1, <2>2, <2>5, <2>6, <2>8, ListKeep DEF SettersStay
  <1>11. ASSUME wrong = {}, NEW l \in Launches, Callback(l) PROVE ListInv'
    <2>1. SettersStay BY <1>11, StepsStay
    <2>2. UNCHANGED <<lists, real, held, live>> /\ (wrong' = wrong \/ wrong' = wrong \cup {<<"freed", l>>})
      BY <1>11 DEF Callback, ReportNext, NameBuffer, counts
    <2>3. \A w \in wrong' : w[1] \notin {"short", "endless"} BY <1>11, <2>2
    <2>4. \A x \in Kernels : SameList(x) BY <2>2 DEF lists, SameList
    <2> QED BY <1>0, <2>1, <2>2, <2>3, <2>4, ListKeep DEF SettersStay
  <1>12. ASSUME NEW a \in Actors, Dec(a) \/ DecStore(a) PROVE ListInv'
    <2>1. SettersStay BY <1>12, StepsStay
    <2>2. UNCHANGED <<lists, real, wrong, held, live>> BY <1>0, <1>12, NothingGone DEF Dec, DecStore
    <2> QED BY <1>0, <2>1, <2>2, ListElse DEF SettersStay
  <1>13. ASSUME NEW a \in Actors, Drop(a) PROVE ListInv'
    <2>1. SettersStay BY <1>13, StepsStay
    <2>2. UNCHANGED <<real, wrong, held>> /\ live' \subseteq live BY <1>0, <1>13, DropIs DEF Remove
    <2>3. ASSUME NEW k \in Kernels, held'[k] > 0 \/ k \in live' PROVE SameList(k)
      <3>1. k \in Ids BY ActorsApart
      <3>2. Owed(k) = 0 => held[k] = 0 BY <1>0, OwedAny
      <3> QED BY <1>0, <1>13, <2>2, <2>3, <3>1, <3>2, DropLists DEF CountTypeOK
    <2> QED BY <1>0, <2>1, <2>2, <2>3, ListKeep DEF SettersStay, ListInv
  <1>14. ASSUME NEW b \in Buffers, ReleaseMemObject(b) PROVE ListInv'
    <2>1. SettersStay BY <1>14, StepsStay
    <2>2. UNCHANGED <<lists, real, wrong, held, live>> BY <1>14 DEF ReleaseMemObject, counts
    <2> QED BY <1>0, <2>1, <2>2, ListElse DEF SettersStay
  <1>15. ASSUME wrong = {}, NEW t \in Threads, ThreadStep(t) PROVE ListInv'
    BY <1>2, <1>3, <1>4, <1>5, <1>6, <1>7, <1>8, <1>9, <1>10, <1>15 DEF ThreadStep
  <1>16. ASSUME Next PROVE ListInv'
    BY <1>11, <1>12, <1>13, <1>14, <1>15, <1>16 DEF Next
  <1> QED BY <1>1, <1>16

LEMMA ListBegins ==
    ASSUME Init
    PROVE  ListInv
  <1>1. /\ \A t \in Threads : pc[t] = "idle" BY ActorsApart DEF Init
  <1>2. head = [k \in Ids |-> Nil] /\ real = [k \in Kernels |-> [i \in Index |-> Nil]] /\ wrong = {}
    BY DEF Init
  <1>3. \A t \in Threads : \A k : ~Sets(t, k) BY <1>1 DEF Sets, Setting
  <1>4. SetterInv BY <1>1, <1>3 DEF SetterInv, Setting
  <1>5. ASSUME NEW k \in Kernels PROVE ArgsAt(k)
    <2>1. head[k] = Nil /\ \A i \in Index : real[k][i] = Nil BY <1>2, ActorsApart
    <2>2. Sorted(k, {}) BY <2>1 DEF Sorted
    <2>3. Holds(k, {}) BY <1>3, <2>1 DEF Holds
    <2> QED BY <2>2, <2>3 DEF ArgsAt
  <1> QED BY <1>2, <1>4, <1>5 DEF ListInv

\* Nodes with different indexes are as many as their indexes.
LEMMA AsManyIndexes ==
    ASSUME NEW L, L \subseteq Nodes, \A n, m \in L : n[2] = m[2] => n = m,
           NEW I, I \subseteq Index, \A i \in Index : i \in I <=> \E n \in L : n[2] = i
    PROVE  Cardinality(L) = Cardinality(I)
  <1> DEFINE f == [n \in L |-> n[2]]
  <1>1. \A n \in L : n[2] \in Index BY NodeParts
  <1>2. f \in [L -> I] BY <1>1
  <1>3. \A n, m \in L : f[n] = f[m] => n = m OBVIOUS
  <1>4. \A i \in I : \E n \in L : f[n] = i OBVIOUS
  <1> HIDE DEF f
  <1>5. f \in Injection(L, I) BY <1>2, <1>3 DEF Injection, IsInjective
  <1>6. f \in Surjection(L, I) BY <1>2, <1>4 DEF Surjection
  <1>8. IsFiniteSet(L) BY FuelNat, FS_Subset
  <1> QED BY <1>5, <1>6, <1>8, FS_Surjection

LEMMA ListSays ==
    ASSUME RecordInv, ListInv
    PROVE  ArgsExact
  <1> SUFFICES ASSUME CountsApart PROVE ArgsExact BY DEF ArgsExact
  <1>1. \A w \in wrong : w[1] \notin {"short", "endless"} BY DEF ListInv
  <1>2. ASSUME NEW k \in live \cap Kernels, \A t \in Threads : job[t].kern # k
        PROVE  /\ \A i \in Index : real[k][i] # Nil => Argument(k, i) # Nil /\ buf[Argument(k, i)] = real[k][i]
               /\ Cardinality(Listed(k)) = Cardinality({i \in Index : real[k][i] # Nil})
               /\ Listed(k) \subseteq heap
    <2>1. PICK L \in SUBSET NodesOf(k) : Sorted(k, L) /\ Holds(k, L) BY DEF ListInv, ArgsAt
    <2>2. \A i : ~BeingSet(k, i) BY <1>2 DEF BeingSet, Sets
    <2>3. Listed(k) = L BY <2>1, ListedSorted
    <2>4. L \subseteq heap /\ \A n \in L : buf[n] = real[k][n[2]] BY <2>1, <2>2 DEF Holds
    <2>5. \A i \in Index : real[k][i] # Nil <=> \E n \in L : n[2] = i BY <2>1, <2>2 DEF Holds
    <2>6. ASSUME NEW i \in Index, real[k][i] # Nil PROVE Argument(k, i) # Nil /\ buf[Argument(k, i)] = real[k][i]
      <3>1. Argument(k, i) \in L /\ Argument(k, i)[2] = i BY <2>1, <2>5, <2>6, FindSorted
      <3>2. \A n \in L : n # Nil BY <2>1, SortedNodes
      <3> QED BY <2>4, <3>1, <3>2
    <2>7. L \subseteq Nodes /\ \A n, m \in L : n[2] = m[2] => n = m BY <2>1 DEF Sorted, NodesOf
    <2> DEFINE I == {i \in Index : real[k][i] # Nil}
    <2>8. I \subseteq Index /\ \A i \in Index : i \in I <=> \E n \in L : n[2] = i BY <2>5
    <2> HIDE DEF I
    <2>9. Cardinality(L) = Cardinality(I) BY <2>7, <2>8, AsManyIndexes
    <2> QED BY <2>3, <2>4, <2>6, <2>9 DEF I
  <1> QED BY <1>1, <1>2 DEF ArgsExact

\* ArgsExact, for any number of threads, kernels, launches and arguments, if no two
\* threads set arguments of a kernel, or launch it, at once, as OpenCL asks of the
\* application: the list that clSetKernelArg keeps with remove and insert of
\* generic_lists.ipp has every argument that was set once, in order and with its
\* latest value, and neither a search of it nor a launch ever fails, until two
\* actors have been in one count at the same time.
THEOREM ArgumentsExact ==
    Shared = {} => (Spec => []ArgsExact)
  <1> SUFFICES ASSUME Shared = {} PROVE Spec => []ArgsExact OBVIOUS
  <1> DEFINE IInv == CountsApart => RecordInv /\ ListInv
  <1>1. Init => IInv BY RecordsBegin, ListBegins
  <1>2. IInv /\ [Next]_vars => IInv' BY ApartBefore, RecordsStep, ListStep
  <1>3. IInv => ArgsExact
    <2>1. CASE CountsApart BY <2>1, ListSays
    <2>2. CASE ~CountsApart BY <2>2 DEF ArgsExact
    <2> QED BY <2>1, <2>2
  <1> QED BY <1>1, <1>2, <1>3, PTL DEF Spec

-----------------------------------------------------------------------------
(***************************************************************************)
(* What a report names.                                                    *)
(***************************************************************************)
\* Launch l is under way, or its report.
Pursued(l) ==
    \/ \E t \in Threads : job[t].launch = l /\ pc[t] \in {"inc", "incstore", "verify"}
    \/ pc[l] \in {"due", "walk"}

\* What launch l has as argument i.
Passed(l, i) ==
    IF launch[l].used = l THEN Poisoned(l, launch[l].given[i]) ELSE launch[l].given[i]

\* The list a report walks has all arguments of the launch, and their buffers exist.
Full(l, L) ==
    /\ L \subseteq heap
    /\ \A i \in Index : \E n \in L : n[2] = i
    /\ \A n \in L : buf[n] = Passed(l, n[2]) /\ buf[n] \in mem \cup {NoBuffer}

\* The damaged buffers are among them, and the walk has not passed the one it looks for.
Walks(l, L) ==
    /\ \A b \in report[l].todo : b # NoBuffer /\ \E n \in L : buf[n] = b
    /\ pc[l] = "walk" =>
          /\ report[l].cur # NoBuffer /\ \E n \in L : buf[n] = report[l].cur
          /\ report[l].at \in L /\ \A n \in L : buf[n] = report[l].cur => report[l].at[2] <= n[2]

PursuedAt(l) ==
    /\ launch[l].kern \in Kernels /\ real[launch[l].kern] = launch[l].given
    /\ \A t \in Threads : ~Sets(t, launch[l].kern)
    /\ \E L \in SUBSET NodesOf(launch[l].used) :
          Sorted(launch[l].used, L) /\ Full(l, L) /\ Walks(l, L)

\* The launches whose reports the application waits for, and whose stand-ins were
\* not taken apart before.
Watched == {l \in Awaited : ~Torn(l)}

\* No launch comes to be watched.
NoneWatched == Watched' \subseteq Watched

\* A report is a record, and begins with its launch.
ReportTypeOK ==
    /\ report = [l \in Launches |-> report[l]]
    /\ \A l \in Launches :
          report[l] = [todo |-> report[l].todo, cur |-> report[l].cur, at |-> report[l].at, named |-> report[l].named]
    /\ \A l \in Launches : launch[l] = NoLaunch => report[l] = NoReport

ReportInv ==
    /\ ReportTypeOK
    /\ \A l \in Watched : Pursued(l) => PursuedAt(l)
    /\ \A l \in Watched : RightNames(l)

LEMMA WatchedIs ==
    Watched \subseteq Launches /\ Watched \subseteq Awaited
  BY RecordAssumption DEF Watched

LEMMA WatchedLess ==
    ASSUME [Next]_vars
    PROVE  NoneWatched
  BY RacesGrow DEF NoneWatched, Watched, Torn

\* A launch whose report is awaited has been made, and uses its own stand-in or the
\* kernel, whose reference it has.
LEMMA PursuedUses ==
    ASSUME RefInv, NEW l \in Launches, Pursued(l)
    PROVE  /\ launch[l] # NoLaunch /\ launch[l].kern \in Kernels /\ launch[l].used \in {l, launch[l].kern}
           /\ launch[l].used \in Ids /\ Owed(launch[l].used) # 0
  <1>1. CASE pc[l] \in {"due", "walk"}
    <2>1. launch[l].kern \in Kernels /\ launch[l].used \in {l, launch[l].kern}
      BY <1>1 DEF RefInv, UseInv, MadeAt
    <2>2. NoLaunch.kern = Nil /\ launch[l].used \in Ids BY <2>1, ActorsApart DEF NoLaunch
    <2>3. Reporting(l) BY <1>1 DEF Reporting
    <2>4. Owed(launch[l].used) # 0 BY <2>2, <2>3, OwedUsed
    <2> QED BY <2>1, <2>2, <2>4, ActorsApart
  <1>2. CASE \E t \in Threads : job[t].launch = l /\ pc[t] \in {"inc", "incstore", "verify"}
    <2>1. PICK t \in Threads : job[t].launch = l /\ pc[t] \in {"inc", "incstore", "verify"} BY <1>2
    <2>2. job[t].launch # Nil BY <2>1, ActorsApart
    <2>3. /\ launch[l] # NoLaunch /\ launch[l].kern = job[t].kern /\ job[t].kern \in Kernels
          /\ launch[l].used \in {l, job[t].kern} /\ Counted(t) = launch[l].used
      BY <2>1, <2>2, UnderWay
    <2>4. launch[l].used \in Ids BY <2>3, ActorsApart
    <2>5. Owed(launch[l].used) # 0 BY <2>1, <2>3, <2>4, OwedUsed
    <2> QED BY <2>3, <2>4, <2>5
  <1> QED BY <1>1, <1>2 DEF Pursued

\* A step leaves alone what the report of l goes by.
SameReport(l) ==
    /\ launch'[l] = launch[l] /\ report'[l] = report[l] /\ (pc'[l] = "walk" => pc[l] = "walk")
    /\ real'[launch[l].kern] = real[launch[l].kern]
    /\ \A t \in Threads : Sets(t, launch[l].kern)' => Sets(t, launch[l].kern)
    /\ SameList(launch[l].used)
    /\ \A i \in Index : Passed(l, i) \in mem => Passed(l, i) \in mem'

LEMMA PassedSame ==
    ASSUME NEW l, launch'[l] = launch[l], NEW i
    PROVE  Passed(l, i)' = Passed(l, i)
  BY DEF Passed

\* The list stays full.
LEMMA FullKeep ==
    ASSUME NEW l, NEW u, NEW L \in SUBSET NodesOf(u), Full(l, L), SameList(u), launch'[l] = launch[l],
           \A i \in Index : Passed(l, i) \in mem => Passed(l, i) \in mem'
    PROVE  Full(l, L)'
  <1>1. \A n \in L : n[2] \in Index BY NodeParts DEF NodesOf
  <1>2. \A i : Passed(l, i)' = Passed(l, i) BY PassedSame
  <1>3. \A n \in L : buf'[n] = buf[n] /\ n \in heap' BY DEF SameList, Full
  <1>4. \A n \in L : buf'[n] = Passed(l, n[2]) /\ buf'[n] \in mem' \cup {NoBuffer} BY <1>1, <1>3 DEF Full
  <1> QED BY <1>2, <1>3, <1>4 DEF Full

LEMMA PursuedKeep ==
    ASSUME NEW l \in Launches, PursuedAt(l), SameReport(l)
    PROVE  PursuedAt(l)'
  <1>1. PICK k : k = launch[l].kern OBVIOUS
  <1>2. PICK u : u = launch[l].used OBVIOUS
  <1>3. launch'[l].kern = k /\ launch'[l].used = u BY <1>1, <1>2 DEF SameReport
  <1>4. PICK L \in SUBSET NodesOf(u) : Sorted(u, L) /\ Full(l, L) /\ Walks(l, L) BY <1>2 DEF PursuedAt
  <1>5. Sorted(u, L)' BY <1>2, <1>4, SortedKeep DEF SameReport, SameList
  <1>6. Full(l, L)' BY <1>2, <1>4, FullKeep DEF SameReport
  <1>7. \A n \in L : buf'[n] = buf[n] BY <1>2, <1>4 DEF SameReport, SameList
  <1>8. Walks(l, L)' BY <1>4, <1>7 DEF Walks, SameReport
  <1>9. \A t \in Threads : ~Sets(t, k)' BY <1>1 DEF PursuedAt, SameReport
  <1>10. k \in Kernels /\ real'[k] = launch'[l].given BY <1>1 DEF PursuedAt, SameReport
  <1>11. L \in SUBSET NodesOf(u)' BY <1>4 DEF NodesOf
  <1> QED BY <1>3, <1>5, <1>6, <1>8, <1>9, <1>10, <1>11 DEF PursuedAt

\* Index i is the first as which launch l got buffer b.
RightName(l, b, i) ==
    /\ i \in Index /\ b = Passed(l, i)
    /\ \A j \in 1 .. (i - 1) : launch[l].given[j] # launch[l].given[i]

LEMMA RightNamesAre ==
    ASSUME NEW l
    PROVE  RightNames(l) <=> <<"freed", l>> \notin wrong /\ \A n \in report[l].named : RightName(l, n[1], n[2])
  BY DEF RightNames, RightName, Passed

LEMMA NamesFrom ==
    ASSUME NEW l, <<"freed", l>> \notin wrong', \A n \in report'[l].named : RightName(l, n[1], n[2])'
    PROVE  RightNames(l)'
  BY DEF RightNames, RightName, Passed

LEMMA NamesKeep ==
    ASSUME NEW l, RightNames(l), launch'[l] = launch[l], report'[l].named = report[l].named,
           <<"freed", l>> \notin wrong'
    PROVE  RightNames(l)'
  <1>1. \A b, i : RightName(l, b, i)' <=> RightName(l, b, i) BY DEF RightName, Passed
  <1>2. \A n \in report'[l].named : RightName(l, n[1], n[2])' BY <1>1, RightNamesAre
  <1> QED BY <1>2, NamesFrom

\* A step that changes no report.
LEMMA ReportKeep ==
    ASSUME ReportInv, NoneWatched, UNCHANGED <<report, launch>>, \A l \in Watched : <<"freed", l>> \notin wrong',
           \A l \in Watched' : Pursued(l)' => Pursued(l) /\ SameReport(l)
    PROVE  ReportInv'
  <1>1. Watched \subseteq Launches /\ Watched' \subseteq Watched BY WatchedIs DEF NoneWatched
  <1>2. ASSUME NEW l \in Watched', Pursued(l)' PROVE PursuedAt(l)'
    <2>1. PursuedAt(l) /\ SameReport(l) BY <1>1, <1>2 DEF ReportInv
    <2> QED BY <1>1, <2>1, PursuedKeep
  <1>3. \A l \in Watched' : RightNames(l)' BY <1>1, NamesKeep DEF ReportInv
  <1>4. ReportTypeOK' BY DEF ReportInv, ReportTypeOK
  <1> QED BY <1>2, <1>3, <1>4 DEF ReportInv

\* No report begins, and no launch.
Recedes == \A l \in Launches : (Pursued(l)' => Pursued(l)) /\ (pc'[l] = "walk" => pc[l] = "walk")

LEMMA ActorRecedes ==
    ASSUME CountTypeOK, NEW a \in Actors, NEW p, Goto(a, p), p \notin {"due", "walk"},
           job' = job \/ \E j : job' = [job EXCEPT ![a] = j],
           a \in Threads => \/ job'[a].launch = Nil
                            \/ p \notin {"inc", "incstore", "verify"}
                            \/ job' = job /\ pc[a] \in {"inc", "incstore", "verify"}
    PROVE  Recedes
  <1>1. pc'[a] = p /\ \A b \in Actors \ {a} : pc'[b] = pc[b] BY DEF Goto, CountTypeOK
  <1>2. \A u \in Threads \ {a} : job'[u] = job[u] BY DEF CountTypeOK
  <1>3. ASSUME NEW l \in Launches
        PROVE  (Pursued(l)' => Pursued(l)) /\ (pc'[l] = "walk" => pc[l] = "walk")
    <2>1. pc'[l] \in {"due", "walk"} => pc'[l] = pc[l] BY <1>1, ActorsApart
    <2>2. \A t \in Threads : job'[t].launch = l /\ pc'[t] \in {"inc", "incstore", "verify"} =>
                                job[t].launch = l /\ pc[t] \in {"inc", "incstore", "verify"}
      BY <1>1, <1>2, ActorsApart
    <2> QED BY <2>1, <2>2 DEF Pursued
  <1> QED BY <1>3 DEF Recedes

LEMMA StepsRecede ==
    ASSUME RecordInv,
           \/ \E t \in Threads : \/ ReadHead(t) \/ RemoveArg(t) \/ InsertArg(t)
                                 \/ Inc(t) \/ IncStore(t) \/ CheckDone(t) \/ DelPoisonKernel(t)
           \/ \E t \in Threads, k \in Kernels : RetainKernel(t, k) \/ ReleaseKernel(t, k)
           \/ \E t \in Threads, k \in Kernels, i \in Index, b \in Values : SetKernelArg(t, k, i, b)
           \/ \E a \in Actors : Dec(a) \/ DecStore(a) \/ Drop(a)
           \/ \E b \in Buffers : ReleaseMemObject(b)
           \/ UNCHANGED vars
    PROVE  Recedes
  <1>0. CountTypeOK BY DEF RecordInv, RefInv
  <1>a. Threads \subseteq Actors BY DEF Actors
  <1>1. ASSUME NEW t \in Threads, \/ ReadHead(t) \/ RemoveArg(t) \/ InsertArg(t)
                                   \/ CheckDone(t) \/ DelPoisonKernel(t)
        PROVE  Recedes
    <2>1. \E p \in {"remove", "insert", "idle", "clean", "dec"} :
             Goto(t, p) /\ (job' = job \/ \E j : job' = [job EXCEPT ![t] = j])
      <3>1. CASE ReadHead(t) BY <3>1 DEF ReadHead
      <3>2. CASE RemoveArg(t) BY <3>2 DEF RemoveArg
      <3>3. CASE InsertArg(t) BY <3>3 DEF InsertArg
      <3>4. CASE DelPoisonKernel(t) BY <3>4 DEF DelPoisonKernel
      <3>5. CASE CheckDone(t) BY <3>5 DEF CheckDone, AfterCheck, EndJob
      <3> QED BY <1>1, <3>1, <3>2, <3>3, <3>4, <3>5
    <2>2. \A p \in {"remove", "insert", "idle", "clean", "dec"} :
             p \notin {"due", "walk"} /\ p \notin {"inc", "incstore", "verify"}
      OBVIOUS
    <2> QED BY <1>0, <1>a, <2>1, <2>2, ActorRecedes
  <1>2. ASSUME NEW t \in Threads, Inc(t) \/ IncStore(t) PROVE Recedes
    <2>1. /\ pc[t] \in {"inc", "incstore"}
          /\ \E p \in {"incstore", "verify", "idle"} :
                Goto(t, p) /\ (job' = job \/ (p = "idle" /\ job' = [job EXCEPT ![t] = NoJob]))
      BY <1>2 DEF Inc, IncStore, EndRetain, EndJob, AfterInc
    <2>2. PICK p \in {"incstore", "verify", "idle"} :
             Goto(t, p) /\ (job' = job \/ (p = "idle" /\ job' = [job EXCEPT ![t] = NoJob]))
      BY <2>1
    <2>3. p \notin {"due", "walk"} OBVIOUS
    <2>4. p \notin {"inc", "incstore", "verify"} \/ (job' = job /\ pc[t] \in {"inc", "incstore", "verify"})
      BY <2>1, <2>2
    <2>5. job' = job \/ \E j : job' = [job EXCEPT ![t] = j] BY <2>2
    <2> QED BY <1>0, <1>a, <2>2, <2>3, <2>4, <2>5, ActorRecedes
  <1>3. ASSUME NEW t \in Threads, NEW k \in Kernels, RetainKernel(t, k) \/ ReleaseKernel(t, k) PROVE Recedes
    <2>1. /\ \E p \in {"inc", "dec"} : Goto(t, p)
          /\ job' = [job EXCEPT ![t] = [NoJob EXCEPT !.kern = k]]
      BY <1>3 DEF RetainKernel, ReleaseKernel
    <2>2. job'[t].launch = Nil BY <1>0, <2>1 DEF CountTypeOK, NoJob
    <2>3. \A p \in {"inc", "dec"} : p \notin {"due", "walk"} OBVIOUS
    <2>4. \E j : job' = [job EXCEPT ![t] = j] BY <2>1
    <2> QED BY <1>0, <1>a, <2>1, <2>2, <2>3, <2>4, ActorRecedes
  <1>4. ASSUME NEW t \in Threads, NEW k \in Kernels, NEW i \in Index, NEW b \in Values, SetKernelArg(t, k, i, b)
        PROVE  Recedes
    <2>1. Goto(t, "head") /\ \E j : job' = [job EXCEPT ![t] = j] BY <1>4 DEF SetKernelArg
    <2>2. "head" \notin {"due", "walk"} /\ "head" \notin {"inc", "incstore", "verify"} OBVIOUS
    <2> QED BY <1>0, <1>a, <2>1, <2>2, ActorRecedes
  <1>5. ASSUME NEW a \in Actors, Dec(a) \/ DecStore(a) \/ Drop(a) PROVE Recedes
    <2>1. \E p \in {"idle", "decstore", "drop"} :
             Goto(a, p) /\ (job' = job \/ job' = [job EXCEPT ![a] = NoJob])
      BY <1>5 DEF Dec, DecStore, Drop, EndJob
    <2>2. \A p \in {"idle", "decstore", "drop"} :
             p \notin {"due", "walk"} /\ p \notin {"inc", "incstore", "verify"}
      OBVIOUS
    <2> QED BY <1>0, <2>1, <2>2, ActorRecedes
  <1>6. ASSUME (\E b \in Buffers : ReleaseMemObject(b)) \/ UNCHANGED vars PROVE Recedes
    <2>1. UNCHANGED <<pc, job>> BY <1>6 DEF ReleaseMemObject, vars
    <2> QED BY <2>1 DEF Recedes, Pursued
  <1> QED BY <1>1, <1>2, <1>3, <1>4, <1>5, <1>6

\* Steps that change neither lists nor what an argument is.
LEMMA ReportElse ==
    ASSUME ReportInv, NoneWatched, Recedes, SettersStay, UNCHANGED <<report, launch, lists, real, mem, wrong>>
    PROVE  ReportInv'
  <1>1. Watched \subseteq Launches BY RecordAssumption, WatchedIs
  <1>2. \A l \in Watched : <<"freed", l>> \notin wrong' BY RightNamesAre DEF ReportInv
  <1>3. ASSUME NEW l \in Watched, Pursued(l)' PROVE Pursued(l) /\ SameReport(l)
    <2>1. Pursued(l) /\ (pc'[l] = "walk" => pc[l] = "walk") BY <1>1, <1>3 DEF Recedes
    <2>2. \A x : SameList(x) BY DEF lists, SameList
    <2>3. \A t \in Threads : \A x : Sets(t, x)' <=> Sets(t, x) BY DEF Sets, SettersStay
    <2>4. \A t \in Threads : Sets(t, launch[l].kern)' => Sets(t, launch[l].kern)
      <3>1. launch'[l].kern = launch[l].kern OBVIOUS
      <3>2. PICK k : k = launch[l].kern OBVIOUS
      <3> QED BY <2>3, <3>1, <3>2
    <2> QED BY <2>1, <2>2, <2>4 DEF SameReport
  <1> QED BY <1>2, <1>3, ReportKeep DEF NoneWatched

\* What is left of SameReport when launches, reports and buffers stay.
LEMMA SameReportIs ==
    ASSUME RecordInv, ReportInv, Recedes, UNCHANGED <<report, launch, mem>>, NEW l \in Watched, Pursued(l)',
           NEW k, k = launch[l].kern, real'[k] = real[k],
           \A t \in Threads : Sets(t, k)' => Sets(t, k),
           NEW u, u = launch[l].used, SameList(u)
    PROVE  Pursued(l) /\ SameReport(l)
  <1>1. l \in Launches BY RecordAssumption, WatchedIs
  <1>2. Pursued(l) /\ (pc'[l] = "walk" => pc[l] = "walk") BY <1>1 DEF Recedes
  <1>3. launch'[l].kern = k BY DEF SameReport
  <1>4. \A t \in Threads : Sets(t, launch[l].kern)' => Sets(t, launch[l].kern) BY <1>3
  <1> QED BY <1>2, <1>4 DEF SameReport

\* A step of a thread that sets an argument of another kernel than those awaited.
LEMMA ReportSets ==
    ASSUME RecordInv, ReportInv, NoneWatched, Recedes, UNCHANGED <<report, launch, mem>>,
           NEW t \in Threads, NEW k \in Kernels,
           \A l \in Watched : Pursued(l) => launch[l].kern # k,
           \A x \in Kernels : x # k => real'[x] = real[x],
           \A u \in Threads, x \in Kernels : x # k => (Sets(u, x)' => Sets(u, x)),
           \A x \in Ids : x # k => SameList(x),
           \A l \in Watched : <<"freed", l>> \notin wrong'
    PROVE  ReportInv'
  <1>1. ASSUME NEW l \in Watched, Pursued(l)' PROVE Pursued(l) /\ SameReport(l)
    <2>0. l \in Launches BY RecordAssumption, WatchedIs
    <2>1. Pursued(l) BY <1>1, <2>0 DEF Recedes
    <2>2. PICK x : x = launch[l].kern OBVIOUS
    <2>3. PICK u : u = launch[l].used OBVIOUS
    <2>4. x \in Kernels /\ x # k /\ u \in {l, x} /\ u \in Ids
      BY <2>0, <2>1, <2>2, <2>3, PursuedUses DEF RecordInv
    <2>5. u # k BY <2>0, <2>4, ActorsApart
    <2>6. SameList(u) BY <2>4, <2>5
    <2>7. real'[x] = real[x] /\ \A v \in Threads : Sets(v, x)' => Sets(v, x) BY <2>4
    <2> QED BY <1>1, <2>2, <2>3, <2>6, <2>7, SameReportIs
  <1> QED BY <1>1, ReportKeep DEF NoneWatched

LEMMA ReportSetKernelArg ==
    ASSUME RecordInv, ReportInv, NoneWatched, Shared = {}, wrong = {},
           NEW t \in Threads, NEW k \in Kernels, NEW i \in Index, NEW b \in Values, SetKernelArg(t, k, i, b)
    PROVE  ReportInv'
  <1>0. CountTypeOK /\ RefInv /\ UseAt(t) BY DEF RecordInv, RefInv, UseInv
  <1>1. /\ pc[t] = "idle" /\ ~Busy(t, k) /\ MayChange(k) /\ Goto(t, "head")
        /\ real' = [real EXCEPT ![k][i] = b] /\ UNCHANGED <<lists, report, launch, mem, wrong>>
        /\ job' = [job EXCEPT ![t] = [NoJob EXCEPT !.kern = k, !.index = i, !.value = b]]
    BY DEF SetKernelArg
  <1>2. Recedes BY StepsRecede
  <1>3. ASSUME NEW l \in Watched, Pursued(l), launch[l].kern = k PROVE FALSE
    <2>1. pc[l] \notin {"due", "walk"} BY <1>1, <1>3, WatchedIs DEF MayChange, Outstanding
    <2>2. PICK u \in Threads : job[u].launch = l /\ pc[u] \in {"inc", "incstore", "verify"}
      BY <1>3, <2>1 DEF Pursued
    <2>3. job[u].launch # Nil BY <2>2, WatchedIs, ActorsApart
    <2>4. job[u].kern = k BY <1>0, <1>3, <2>2, <2>3, UnderWay
    <2>5. u # t BY <1>1, <2>2
    <2> QED BY <1>1, <2>3, <2>4, <2>5 DEF Busy
  <1>4. \A x \in Kernels : x # k => real'[x] = real[x] BY <1>0, <1>1 DEF CountTypeOK
  <1>5. \A u \in Threads \ {t} : pc'[u] = pc[u] /\ job'[u] = job[u]
    BY <1>0, <1>1, GotoOK, ActorsApart DEF ThreadPlaces, CountTypeOK
  <1>6. job'[t].kern = k BY <1>0, <1>1 DEF CountTypeOK, NoJob
  <1>7. \A u \in Threads, x \in Kernels : x # k => (Sets(u, x)' => Sets(u, x)) BY <1>5, <1>6 DEF Sets
  <1>8. \A x \in Ids : SameList(x) BY <1>1 DEF lists, SameList
  <1> QED BY <1>1, <1>2, <1>3, <1>4, <1>7, <1>8, ReportSets

\* remove and insert, and the reading of the head before them.
LEMMA ReportArgStep ==
    ASSUME RecordInv, ReportInv, NoneWatched, wrong = {}, NEW t \in Threads,
           ReadHead(t) \/ RemoveArg(t) \/ InsertArg(t)
    PROVE  ReportInv'
  <1>0. CountTypeOK /\ RefInv /\ UseAt(t) BY DEF RecordInv, RefInv, UseInv
  <1>1. /\ pc[t] \in Setting /\ UNCHANGED <<report, launch, mem, real>>
        /\ \E p \in {"remove", "insert", "idle"} : Goto(t, p)
        /\ wrong' \subseteq {<<"endless", t>>}
    <2>1. CASE ReadHead(t) BY <2>1 DEF ReadHead, Setting
    <2>2. CASE RemoveArg(t) BY <2>2 DEF RemoveArg, Setting
    <2>3. CASE InsertArg(t) BY <2>3 DEF InsertArg, Setting
    <2> QED BY <2>1, <2>2, <2>3
  <1>a. PICK k : k = job[t].kern OBVIOUS
  <1>2. k \in Kernels /\ Sets(t, k) BY <1>0, <1>1, <1>a DEF UseAt, Sets, Setting
  <1>3. Recedes BY StepsRecede
  <1>4. \A l \in Watched : Pursued(l) => launch[l].kern # k BY <1>2 DEF ReportInv, PursuedAt
  <1>5. \A x \in Ids : x # k => SameList(x)
    <2>1. CASE ReadHead(t) BY <2>1 DEF ReadHead, lists, SameList
    <2>2. CASE RemoveArg(t) BY <1>a, <2>2, RemoveLists
    <2>3. CASE InsertArg(t) BY <1>a, <2>3, InsertLists
    <2> QED BY <2>1, <2>2, <2>3
  <1>6. \A u \in Threads \ {t} : pc'[u] = pc[u] /\ job'[u] = job[u]
    <2>1. \A u \in Threads \ {t} : pc'[u] = pc[u] BY <1>0, <1>1, GotoOK, ActorsApart DEF ThreadPlaces
    <2>2. \E j : job' = [job EXCEPT ![t] = j]
      <3>1. CASE ReadHead(t) BY <3>1 DEF ReadHead
      <3>2. CASE RemoveArg(t) BY <3>2 DEF RemoveArg
      <3>3. CASE InsertArg(t) BY <3>3 DEF InsertArg
      <3> QED BY <3>1, <3>2, <3>3
    <2> QED BY <1>0, <2>1, <2>2 DEF CountTypeOK
  <1>7. pc'[t] \notin Setting \/ job'[t].kern = k
    <2>1. CASE ReadHead(t)
      <3>1. job' = [job EXCEPT ![t].lp = head[job[t].kern]] BY <2>1 DEF ReadHead
      <3> QED BY <1>0, <1>a, <3>1 DEF CountTypeOK, Jobs
    <2>2. CASE RemoveArg(t)
      <3>1. \E n : job' = [job EXCEPT ![t].node = n] BY <2>2 DEF RemoveArg
      <3> QED BY <1>0, <1>a, <3>1 DEF CountTypeOK, Jobs
    <2>3. CASE InsertArg(t)
      <3>1. Goto(t, "idle") BY <2>3 DEF InsertArg
      <3> QED BY <1>0, <3>1, GotoOK DEF ThreadPlaces, Setting
    <2> QED BY <2>1, <2>2, <2>3
  <1>8. \A u \in Threads, x \in Kernels : x # k => (Sets(u, x)' => Sets(u, x)) BY <1>6, <1>7 DEF Sets
  <1>9. \A l \in Watched : <<"freed", l>> \notin wrong' BY <1>1
  <1> QED BY <1>1, <1>2, <1>3, <1>4, <1>5, <1>8, <1>9, ReportSets

LEMMA ReportDrop ==
    ASSUME RecordInv, ReportInv, NoneWatched, wrong = {}, NEW a \in Actors, Drop(a)
    PROVE  ReportInv'
  <1>0. RefInv BY DEF RecordInv
  <1>1. UNCHANGED <<report, launch, mem, real, wrong>> BY <1>0, DropIs
  <1>2. Recedes /\ SettersStay BY StepsRecede, StepsStay
  <1>3. ASSUME NEW l \in Watched, Pursued(l)' PROVE Pursued(l) /\ SameReport(l)
    <2>0. l \in Launches BY RecordAssumption, WatchedIs
    <2>1. Pursued(l) BY <1>2, <1>3, <2>0 DEF Recedes
    <2>2. PICK x : x = launch[l].kern OBVIOUS
    <2>3. PICK u : u = launch[l].used OBVIOUS
    <2>4. x \in Kernels /\ u \in Ids /\ Owed(u) # 0 BY <1>0, <2>0, <2>1, <2>2, <2>3, PursuedUses
    <2>5. SameList(u) BY <2>4, DropLists
    <2>6. \A v \in Threads : Sets(v, x)' => Sets(v, x) BY <1>2 DEF Sets, SettersStay
    <2> QED BY <1>1, <1>2, <1>3, <2>2, <2>3, <2>5, <2>6, SameReportIs
  <1>4. \A l \in Watched : <<"freed", l>> \notin wrong' BY <1>1
  <1> QED BY <1>1, <1>3, <1>4, ReportKeep DEF NoneWatched

\* What an argument can be.
LEMMA PassedIs ==
    ASSUME RecordInv, ReportInv, NEW l \in Watched, Pursued(l), NEW i \in Index
    PROVE  /\ launch[l].given[i] = real[launch[l].kern][i]
           /\ launch[l].given[i] \in Values \cup {Nil}
           /\ Passed(l, i) = launch[l].given[i] \/ \E b \in Buffers : Passed(l, i) = Own(l, b)
  <1>1. launch[l].kern \in Kernels /\ real[launch[l].kern] = launch[l].given BY DEF ReportInv, PursuedAt
  <1>2. real \in [Kernels -> [Index -> Values \cup {Nil}]] BY DEF RecordInv, RefInv, CountTypeOK
  <1>3. Passed(l, i) = launch[l].given[i] \/ \E b \in Buffers : Passed(l, i) = Own(l, b)
    BY RecordAssumption DEF Passed, Poisoned
  <1> QED BY <1>1, <1>2, <1>3

LEMMA ReportReleaseMemObject ==
    ASSUME RecordInv, ReportInv, NoneWatched, wrong = {}, NEW b \in Buffers, ReleaseMemObject(b)
    PROVE  ReportInv'
  <1>0. RefInv BY DEF RecordInv
  <1>1. /\ UNCHANGED <<report, launch, real, wrong, lists, pc, job>> /\ mem' = mem \ {b}
        /\ \A t \in Threads : job[t].launch # Nil => \A i \in Index : launch[job[t].launch].given[i] # b
        /\ \A k \in Kernels : (\E i \in Index : real[k][i] = b) => MayChange(k)
    BY DEF ReleaseMemObject
  <1>2. ASSUME NEW l \in Watched, Pursued(l)' PROVE Pursued(l) /\ SameReport(l)
    <2>0. l \in Launches BY RecordAssumption, WatchedIs
    <2>1. Pursued(l) BY <1>1, <1>2 DEF Pursued
    <2>2. launch[l].kern \in Kernels BY <1>0, <2>0, <2>1, PursuedUses
    <2>3. ASSUME NEW i \in Index PROVE launch[l].given[i] # b
      <3>1. CASE pc[l] \in {"due", "walk"}
        <4>1. ~MayChange(launch[l].kern) BY <3>1, WatchedIs DEF MayChange, Outstanding
        <4>2. real[launch[l].kern][i] # b BY <1>1, <2>2, <4>1
        <4> QED BY <2>1, <4>2, PassedIs
      <3>2. CASE \E t \in Threads : job[t].launch = l /\ pc[t] \in {"inc", "incstore", "verify"}
        BY <1>1, <2>0, <3>2, ActorsApart
      <3> QED BY <2>1, <3>1, <3>2 DEF Pursued
    <2>4. \A i \in Index : Passed(l, i) # b
      <3>1. \A c \in Buffers : Own(l, c) # b BY <2>0, RecordAssumption DEF Own
      <3> QED BY <2>1, <2>3, <3>1, PassedIs
    <2>5. \A x : SameList(x) BY <1>1 DEF lists, SameList
    <2>6. \A t \in Threads : Sets(t, launch[l].kern)' => Sets(t, launch[l].kern) BY <1>1 DEF Sets
    <2> QED BY <1>1, <2>1, <2>4, <2>5, <2>6 DEF SameReport
  <1>3. \A l \in Watched : <<"freed", l>> \notin wrong' BY <1>1
  <1> QED BY <1>1, <1>2, <1>3, ReportKeep DEF NoneWatched

LEMMA ReportDelPoisonKernel ==
    ASSUME RecordInv, ReportInv, NoneWatched, wrong = {}, NEW t \in Threads, DelPoisonKernel(t)
    PROVE  ReportInv'
  <1>0. RefInv /\ UseInv /\ UseAt(t) /\ CountTypeOK BY DEF RecordInv, RefInv, UseInv
  <1>a. PICK m : m = job[t].launch OBVIOUS
  <1>1. /\ UNCHANGED <<report, launch, real, wrong>> /\ pc[t] = "clean"
        /\ mem' = mem \ {Own(m, b) : b \in HostBuffers}
        /\ Outstanding(m) => <<m, "args">> \in races'
    BY <1>a DEF DelPoisonKernel
  <1>2. m \in Launches /\ m # Nil BY <1>0, <1>1, <1>a, UnderWay, ActorsApart DEF UseAt
  <1>3. Recedes /\ SettersStay BY StepsRecede, StepsStay
  <1>4. Pursued(m) => m \notin Watched'
    <2>1. \A u \in Threads : job[u].launch = m => u = t BY <1>0, <1>2, <1>a DEF UseInv
    <2>2. Pursued(m) => Outstanding(m) BY <1>1, <2>1 DEF Pursued, Outstanding
    <2>3. m \in Waiting => ~Outstanding(m)
      BY <1>0, <1>1, <1>2, <1>a DEF UseInv, LaunchAt, Resting, Outstanding
    <2> QED BY <1>1, <2>2, <2>3 DEF Watched, Torn
  <1>5. ASSUME NEW l \in Watched', Pursued(l)' PROVE Pursued(l) /\ SameReport(l)
    <2>0. l \in Launches /\ l \in Watched BY WatchedIs DEF NoneWatched
    <2>1. Pursued(l) /\ l # m /\ (pc'[l] = "walk" => pc[l] = "walk") BY <1>3, <1>4, <1>5, <2>0 DEF Recedes
    <2>2. PICK x : x = launch[l].kern OBVIOUS
    <2>3. PICK u : u = launch[l].used OBVIOUS
    <2>4. x \in Kernels /\ u \in Ids /\ u \in {l, x} BY <1>0, <2>0, <2>1, <2>2, <2>3, PursuedUses
    <2>5. u # m BY <1>2, <2>1, <2>4, ActorsApart
    <2>6. SameList(u) BY <1>a, <2>4, <2>5, CleanLists
    <2>7. \A v \in Threads : Sets(v, x)' => Sets(v, x) BY <1>3 DEF Sets, SettersStay
    <2>8. ASSUME NEW i \in Index, Passed(l, i) \in mem PROVE Passed(l, i) \in mem'
      <3>1. \A c \in HostBuffers : Own(m, c) \notin Values \cup {Nil} /\ \A d \in Buffers : Own(m, c) # Own(l, d)
        BY <1>2, <2>1, RecordAssumption DEF Own, Values
      <3>2. \A c \in HostBuffers : Passed(l, i) # Own(m, c) BY <2>0, <2>1, <3>1, PassedIs
      <3> QED BY <1>1, <2>8, <3>2
    <2>9. \A v \in Threads : Sets(v, launch[l].kern)' => Sets(v, launch[l].kern) BY <1>1, <2>2, <2>7
    <2> QED BY <1>1, <2>1, <2>3, <2>6, <2>8, <2>9 DEF SameReport
  <1>6. \A l \in Watched : <<"freed", l>> \notin wrong' BY <1>1
  <1> QED BY <1>1, <1>5, <1>6, ReportKeep DEF NoneWatched

\* A step that goes on with one launch or its report.
LEMMA ReportOne ==
    ASSUME ReportInv, NoneWatched, ReportTypeOK', NEW m \in Launches,
           \A l \in Watched : l # m => (Pursued(l)' => Pursued(l) /\ SameReport(l)),
           \A l \in Launches : l # m => launch'[l] = launch[l] /\ report'[l] = report[l],
           \A l \in Watched : l # m => <<"freed", l>> \notin wrong',
           m \in Watched => (Pursued(m)' => PursuedAt(m)') /\ RightNames(m)'
    PROVE  ReportInv'
  <1>1. Watched \subseteq Launches /\ Watched' \subseteq Watched BY WatchedIs DEF NoneWatched
  <1>2. ASSUME NEW l \in Watched', Pursued(l)', l # m PROVE PursuedAt(l)'
    <2>1. PursuedAt(l) /\ SameReport(l) BY <1>1, <1>2 DEF ReportInv
    <2> QED BY <1>1, <2>1, PursuedKeep
  <1>3. \A l \in Watched' : l # m => RightNames(l)' BY <1>1, NamesKeep DEF ReportInv
  <1> QED BY <1>1, <1>2, <1>3 DEF ReportInv

LEMMA ReportVerify ==
    ASSUME RecordInv, ReportInv, NoneWatched, wrong = {}, NEW t \in Threads, Verify(t)
    PROVE  ReportInv'
  <1>0. RefInv /\ UseAt(t) /\ CountTypeOK /\ ReportTypeOK BY DEF RecordInv, RefInv, UseInv, ReportInv
  <1>a. PICK m : m = job[t].launch OBVIOUS
  <1>p. PICK p : p = IF m \in Waiting THEN "wait" ELSE AfterCheck(m) OBVIOUS
  <1>1. /\ pc[t] = "verify" /\ pc' = [pc EXCEPT ![t] = p, ![m] = "due"] /\ EndJob(t, p)
        /\ UNCHANGED <<lists, mem, real, launch, wrong>>
        /\ \E d \in SUBSET CheckedBuffers(m) : report' = [report EXCEPT ![m].todo = d]
    BY <1>a, <1>p DEF Verify
  <1>2. PICK d \in SUBSET CheckedBuffers(m) : report' = [report EXCEPT ![m].todo = d] BY <1>1
  <1>3. m \in Launches /\ m # Nil /\ launch[m] # NoLaunch BY <1>0, <1>1, <1>a, UnderWay, ActorsApart DEF UseAt
  <1>4. /\ pc'[m] = "due" /\ \A u \in Threads \ {t} : pc'[u] = pc[u]
        /\ \A l \in Launches \ {m} : pc'[l] = pc[l]
    BY <1>0, <1>1, <1>3, ActorsApart DEF CountTypeOK
  <1>5. /\ \A u \in Threads \ {t} : job'[u] = job[u]
        /\ job'[t] = job[t] \/ job'[t] = NoJob
    BY <1>0, <1>1 DEF CountTypeOK, EndJob
  <1>6. SettersStay BY StepsStay
  <1>7. \A u \in Threads : \A x : Sets(u, x)' => Sets(u, x) BY <1>6 DEF Sets, SettersStay
  <1>8. \A x : SameList(x) BY <1>1 DEF lists, SameList
  <1>9. /\ \A l \in Launches : l # m => report'[l] = report[l]
        /\ report'[m] = [todo |-> d, cur |-> report[m].cur, at |-> report[m].at, named |-> report[m].named]
        /\ report' = [l \in Launches |-> report'[l]]
    <2>1. PICK r : r = report[m] OBVIOUS
    <2>2. r = [todo |-> r.todo, cur |-> r.cur, at |-> r.at, named |-> r.named]
      BY <1>0, <1>3, <2>1 DEF ReportTypeOK
    <2>3. report = [l \in Launches |-> report[l]] BY <1>0 DEF ReportTypeOK
    <2>4. report' = [report EXCEPT ![m] = [r EXCEPT !.todo = d]] BY <1>2, <2>1
    <2>5. [r EXCEPT !.todo = d] = [todo |-> d, cur |-> r.cur, at |-> r.at, named |-> r.named] BY <2>2
    <2> QED BY <1>3, <2>1, <2>3, <2>4, <2>5
  <1>10. ReportTypeOK' BY <1>0, <1>1, <1>3, <1>9 DEF ReportTypeOK
  <1>11. ASSUME NEW l \in Watched, l # m, Pursued(l)' PROVE Pursued(l) /\ SameReport(l)
    <2>0. l \in Launches /\ l # Nil BY RecordAssumption, WatchedIs, ActorsApart
    <2>1. job'[t].launch # l BY <1>5, <1>11, <1>a, <2>0, NoJobIs
    <2>2. pc'[l] = pc[l] BY <1>4, <1>11, <2>0
    <2>3. Pursued(l) BY <1>4, <1>5, <1>11, <2>1, <2>2 DEF Pursued
    <2>4. \A u \in Threads : Sets(u, launch[l].kern)' => Sets(u, launch[l].kern)
      <3>1. PICK k : k = launch[l].kern OBVIOUS
      <3> QED BY <1>1, <1>7, <3>1
    <2> QED BY <1>1, <1>8, <1>9, <1>11, <2>0, <2>2, <2>3, <2>4 DEF SameReport
  <1>12. ASSUME m \in Watched PROVE PursuedAt(m)'
    <2>1. Pursued(m) BY <1>1, <1>a DEF Pursued
    <2>2. PICK k : k = launch[m].kern OBVIOUS
    <2>3. PICK u : u = launch[m].used OBVIOUS
    <2>4. PursuedAt(m) BY <1>12, <2>1 DEF ReportInv
    <2>5. PICK L \in SUBSET NodesOf(u) : Sorted(u, L) /\ Full(m, L) BY <2>3, <2>4 DEF PursuedAt
    <2>6. Sorted(u, L)' /\ Full(m, L)' BY <1>1, <1>8, <2>5, SortedKeep, FullKeep DEF SameList
    <2>7. ASSUME NEW b \in d PROVE b # NoBuffer /\ \E n \in L : buf[n] = b
      <3>1. b \in CheckedBuffers(m) OBVIOUS
      <3>2. b # NoBuffer /\ \E i \in Index : b = buf[Argument(u, i)] BY <2>3, <3>1 DEF CheckedBuffers
      <3>3. PICK i \in Index : b = buf[Argument(u, i)] BY <3>2
      <3>4. \E n \in L : n[2] = i BY <2>5 DEF Full
      <3>5. Argument(u, i) \in L BY <2>5, <3>4, FindSorted
      <3> QED BY <3>2, <3>3, <3>5
    <2>8. buf' = buf BY <1>1 DEF lists
    <2>9. report'[m].todo = d BY <1>9
    <2>10. Walks(m, L)' BY <1>4, <2>7, <2>8, <2>9 DEF Walks
    <2>11. \A v \in Threads : ~Sets(v, k)' BY <1>7, <2>2, <2>4 DEF PursuedAt
    <2>12. launch'[m].kern = k /\ launch'[m].used = u BY <1>1, <2>2, <2>3
    <2>13. k \in Kernels /\ real'[k] = launch'[m].given BY <1>1, <2>2, <2>4 DEF PursuedAt
    <2>14. L \in SUBSET NodesOf(u)' BY <2>5 DEF NodesOf
    <2> QED BY <2>6, <2>10, <2>11, <2>12, <2>13, <2>14 DEF PursuedAt
  <1>13. \A l \in Watched : <<"freed", l>> \notin wrong' BY <1>1
  <1>14. m \in Watched => RightNames(m)'
    <2> HAVE m \in Watched
    <2>1. RightNames(m) /\ launch'[m] = launch[m] /\ report'[m].named = report[m].named BY <1>1, <1>9 DEF ReportInv
    <2> QED BY <1>13, <2>1, NamesKeep
  <1> QED BY <1>1, <1>3, <1>9, <1>10, <1>11, <1>12, <1>13, <1>14, ReportOne DEF NoneWatched

\* The list of a new stand-in.
LEMMA StandInList ==
    ASSUME RecordInv, NEW t \in Threads, NEW k \in Kernels, NEW l \in Launches, StandIn(t, l, k),
           NEW made, made = {<<l, i, t>> : i \in Index}
    PROVE  /\ made \in SUBSET NodesOf(l) /\ Sorted(l, made)' /\ made \subseteq heap'
           /\ \A i \in Index : \E n \in made : n[2] = i
           /\ \A n \in made : /\ buf'[n] = Poisoned(l, buf[Argument(k, n[2])])
                              /\ buf'[n] \in mem' \cup {NoBuffer}
  <1>0. NodeInv BY DEF RecordInv
  <1>1. /\ head' = [head EXCEPT ![l] = <<l, 1, t>>] /\ heap' = heap \cup made
        /\ next' = [n \in Nodes |-> IF n \notin made THEN next[n]
                                     ELSE IF n[2] < NArgs THEN <<l, n[2] + 1, t>> ELSE Nil]
        /\ buf' = [n \in Nodes |-> IF n \in made THEN Poisoned(l, buf[Argument(k, n[2])]) ELSE buf[n]]
        /\ mem' = mem \cup ({Poisoned(l, buf[Argument(k, i)]) : i \in Index} \ {NoBuffer})
    BY DEF StandIn
  <1>2. l \in Ids /\ NArgs \in Nat /\ NArgs >= 1 BY ActorsApart, RecordAssumption
  <1>3. \A i \in Index : <<l, i, t>> \in made /\ <<l, i, t>> \in Nodes /\ <<l, i, t>>[2] = i
    BY <1>2 DEF Nodes
  <1>4. \A n \in made : n \in Nodes /\ n[1] = l /\ n[2] \in Index /\ n = <<l, n[2], t>> BY <1>2 DEF Nodes
  <1>5. \A n \in made : n[2] \in Int /\ n[2] >= 1 /\ n[2] <= NArgs BY <1>2, <1>4 DEF Index
  <1>6. made \in SUBSET NodesOf(l) BY <1>4 DEF NodesOf
  <1>7. \A n, m \in made : n[2] = m[2] => n = m BY <1>4
  <1>8. 1 \in Index BY <1>2 DEF Index
  <1>9. head'[l] = <<l, 1, t>> BY <1>0, <1>1, <1>2 DEF NodeInv
  <1>10. head'[l] \in made /\ head'[l][2] = 1 BY <1>3, <1>8, <1>9
  <1>11. ASSUME NEW n \in made
         PROVE  \/ next'[n] = Nil /\ \A m \in made : m[2] <= n[2]
                \/ /\ next'[n] \in made /\ n[2] < next'[n][2]
                   /\ \A m \in made : m[2] <= n[2] \/ next'[n][2] <= m[2]
    <2>0. PICK i : i = n[2] OBVIOUS
    <2>1. i \in Int /\ i >= 1 /\ i <= NArgs /\ n \in Nodes BY <1>4, <1>5, <2>0
    <2>2. CASE i < NArgs
      <3>1. next'[n] = <<l, i + 1, t>> BY <1>1, <2>0, <2>1, <2>2
      <3>2. i + 1 \in Index BY <1>2, <2>1, <2>2 DEF Index
      <3>3. next'[n] \in made /\ next'[n][2] = i + 1 BY <1>3, <3>1, <3>2
      <3>4. \A m \in made : m[2] <= i \/ i + 1 <= m[2] BY <1>5, <2>1
      <3> QED BY <2>0, <2>1, <3>3, <3>4
    <2>3. CASE ~(i < NArgs)
      <3>1. next'[n] = Nil BY <1>1, <2>0, <2>1, <2>3
      <3>2. \A m \in made : m[2] <= i BY <1>2, <1>5, <2>1, <2>3
      <3> QED BY <2>0, <3>1, <3>2
    <2> QED BY <2>2, <2>3
  <1>12. made \subseteq NodesOf(l)' BY <1>6 DEF NodesOf
  <1>13. \A m \in made : head'[l][2] <= m[2] BY <1>5, <1>10
  <1>14. Sorted(l, made)' BY <1>7, <1>10, <1>11, <1>12, <1>13 DEF Sorted
  <1>15. \A i \in Index : \E n \in made : n[2] = i BY <1>3
  <1>16. \A n \in made : buf'[n] = Poisoned(l, buf[Argument(k, n[2])]) BY <1>1, <1>4
  <1>17. \A n \in made : buf'[n] \in mem' \cup {NoBuffer} BY <1>1, <1>4, <1>16
  <1>18. made \subseteq heap' BY <1>1
  <1> QED BY <1>6, <1>14, <1>15, <1>16, <1>17, <1>18

LEMMA ReportLaunchKernel ==
    ASSUME RecordInv, ListInv, ReportInv, NoneWatched, Shared = {}, wrong = {},
           NEW t \in Threads, NEW k \in Kernels, NEW m \in Launches, LaunchKernel(t, m, k)
    PROVE  ReportInv'
  <1>0. RefInv /\ OwnInv /\ UseAt(t) /\ CountTypeOK /\ ReportTypeOK
    BY DEF RecordInv, RefInv, UseInv, ReportInv
  <1>a. /\ \A u \in Threads : ~Sets(u, k)
        /\ \A i \in Index : Argument(k, i) # Nil
    BY LaunchArgs
  <1>b. PICK L \in SUBSET NodesOf(k) :
                /\ Sorted(k, L) /\ L \subseteq heap
                /\ \A i \in Index : \E n \in L : n[2] = i
                /\ \A n \in L : buf[n] = real[k][n[2]] /\ buf[n] \in mem \cup {NoBuffer}
    BY LaunchArgs
  <1>c. PICK r : r = LaunchRecord(k, m) OBVIOUS
  <1>r. r.kern = k /\ r.used = (IF HasHost(k) THEN m ELSE k) /\ r.given = real[k] BY <1>c DEF LaunchRecord
  <1>d. /\ pc[t] = "idle" /\ launch[m] = NoLaunch /\ k \in live /\ UNCHANGED real
        /\ wrong' = {} /\ launch' = [launch EXCEPT ![m] = r]
        /\ IF HasHost(k) THEN StandIn(t, m, k) ELSE UNCHANGED <<live, refs, lists, mem>>
        /\ job' = IF HasBuffer(k) THEN [job EXCEPT ![t] = LaunchJob(k, m)] ELSE job
        /\ Goto(t, IF HasBuffer(k) THEN "inc" ELSE "idle")
    <2>1. wrong' = {} BY <1>0, <1>a, LaunchOf DEF LaunchKernel
    <2> QED BY <1>0, <1>c, <2>1, LaunchOf
  <1>1. UNCHANGED report BY DEF LaunchKernel
  <1>2. launch'[m] = r /\ \A l \in Launches : l # m => launch'[l] = launch[l] BY <1>0, <1>d DEF CountTypeOK
  <1>3. \A l \in Launches : pc'[l] = pc[l]
    BY <1>0, <1>d, GotoOK DEF ThreadPlaces
  <1>4. \A u \in Threads \ {t} : pc'[u] = pc[u] /\ job'[u] = job[u]
    BY <1>0, <1>d, GotoOK, ActorsApart DEF ThreadPlaces, CountTypeOK
  <1>5. job'[t] = job[t] \/ job'[t] = LaunchJob(k, m) BY <1>0, <1>d DEF CountTypeOK
  <1>6. SettersStay BY StepsStay
  <1>7. \A u \in Threads : \A x : Sets(u, x)' => Sets(u, x) BY <1>6 DEF Sets, SettersStay
  <1>8. pc[m] = "idle"
    <2>1. NoLaunch.kern = Nil BY DEF NoLaunch
    <2> QED BY <1>0, <1>d, <2>1, ActorsApart DEF RefInv, UseInv, MadeAt
  <1>9. ReportTypeOK'
    <2>1. report[m] = NoReport BY <1>0, <1>d DEF ReportTypeOK
    <2> QED BY <1>0, <1>1, <1>2, <2>1 DEF ReportTypeOK
  <1>10. mem \subseteq mem'
    <2>1. CASE HasHost(k) BY <1>d, <2>1 DEF StandIn
    <2>2. CASE ~HasHost(k) BY <1>d, <2>2
    <2> QED BY <2>1, <2>2
  <1>11. ASSUME NEW l \in Watched, l # m, Pursued(l)' PROVE Pursued(l) /\ SameReport(l)
    <2>0. l \in Launches /\ l # Nil BY RecordAssumption, WatchedIs, ActorsApart
    <2>1. job[t].launch = Nil BY <1>0, <1>d, NoJobIs DEF UseAt
    <2>2. job'[t].launch # l BY <1>5, <1>11, <2>0, <2>1, LaunchJobIs
    <2>3. Pursued(l) BY <1>3, <1>4, <1>11, <2>0, <2>2 DEF Pursued
    <2>4. PICK x : x = launch[l].kern OBVIOUS
    <2>5. PICK u : u = launch[l].used OBVIOUS
    <2>6. x \in Kernels /\ u \in Ids /\ u \in {l, x} BY <1>0, <2>0, <2>3, <2>4, <2>5, PursuedUses
    <2>7. u # m BY <1>11, <2>6, ActorsApart
    <2>8. SameList(u) BY <2>6, <2>7, LaunchLists
    <2>9. launch'[l] = launch[l] BY <1>2, <1>11, <2>0
    <2>10. \A v \in Threads : Sets(v, launch[l].kern)' => Sets(v, launch[l].kern) BY <1>7, <2>4, <2>9
    <2> QED BY <1>1, <1>3, <1>10, <1>d, <2>0, <2>3, <2>5, <2>8, <2>9, <2>10 DEF SameReport
  <1>12. PursuedAt(m)'
    <2>1. report'[m] = NoReport /\ pc'[m] # "walk" BY <1>0, <1>1, <1>3, <1>8, <1>d DEF ReportTypeOK
    <2>2. \A K : Walks(m, K)' BY <2>1 DEF Walks, NoReport
    <2>3. launch'[m].kern = k /\ launch'[m].given = real[k] BY <1>2, <1>r
    <2>4. \A u \in Threads : ~Sets(u, k)' BY <1>7, <1>a
    <2>5. ASSUME HasHost(k)
          PROVE  \E K \in SUBSET NodesOf(launch[m].used)' :
                    (Sorted(launch[m].used, K) /\ Full(m, K) /\ Walks(m, K))'
      <3>1. launch'[m].used = m BY <1>2, <1>r, <2>5
      <3>2. StandIn(t, m, k) BY <1>d, <2>5
      <3>3. PICK made : made = {<<m, i, t>> : i \in Index} OBVIOUS
      <3>4. /\ made \in SUBSET NodesOf(m) /\ Sorted(m, made)' /\ made \subseteq heap'
            /\ \A i \in Index : \E n \in made : n[2] = i
            /\ \A n \in made : /\ buf'[n] = Poisoned(m, buf[Argument(k, n[2])])
                               /\ buf'[n] \in mem' \cup {NoBuffer}
        BY <3>2, <3>3, StandInList
      <3>5. \A i \in Index : buf[Argument(k, i)] = real[k][i]
        <4> TAKE i \in Index
        <4>1. \E n \in L : n[2] = i BY <1>b
        <4>2. Argument(k, i) \in L /\ Argument(k, i)[2] = i BY <1>b, <4>1, FindSorted
        <4> QED BY <1>b, <4>2
      <3>6. \A n \in made : n[2] \in Index BY <3>4, NodeParts DEF NodesOf
      <3>7. \A i : Passed(m, i)' = Poisoned(m, real[k][i]) BY <2>3, <3>1 DEF Passed
      <3>8. \A n \in made : buf'[n] = Passed(m, n[2])' BY <3>4, <3>5, <3>6, <3>7
      <3>9. Full(m, made)' BY <3>4, <3>8 DEF Full
      <3>10. made \in SUBSET NodesOf(m)' BY <3>4 DEF NodesOf
      <3> QED BY <2>2, <3>1, <3>4, <3>9, <3>10
    <2>6. ASSUME ~HasHost(k)
          PROVE  \E K \in SUBSET NodesOf(launch[m].used)' :
                    (Sorted(launch[m].used, K) /\ Full(m, K) /\ Walks(m, K))'
      <3>1. launch'[m].used = k /\ k # m BY <1>2, <1>r, <2>6, ActorsApart
      <3>2. UNCHANGED <<head, next, buf, heap, mem>> BY <1>d, <2>6 DEF lists
      <3>3. Sorted(k, L)' BY <1>b, <3>2, SortedKeep
      <3>4. \A i : Passed(m, i)' = real[k][i] BY <2>3, <3>1 DEF Passed
      <3>5. Full(m, L)' BY <1>b, <3>2, <3>4 DEF Full
      <3>6. L \in SUBSET NodesOf(k)' BY <1>b DEF NodesOf
      <3> QED BY <2>2, <3>1, <3>3, <3>5, <3>6
    <2> QED BY <1>d, <2>3, <2>4, <2>5, <2>6 DEF PursuedAt
  <1>13. RightNames(m)'
    <2>1. report'[m].named = {} BY <1>0, <1>1, <1>d DEF ReportTypeOK, NoReport
    <2> QED BY <1>d, <2>1 DEF RightNames
  <1> QED BY <1>1, <1>2, <1>9, <1>11, <1>12, <1>13, <1>d, ReportOne DEF NoneWatched

\* The callback of m goes on, and nothing else.
LEMMA CallbackOthers ==
    ASSUME RecordInv, NEW m \in Launches, Callback(m)
    PROVE  /\ UNCHANGED <<lists, mem, real, job, launch>> /\ pc[m] \in {"due", "walk"}
           /\ \A a \in Actors : a # m => pc'[a] = pc[a]
           /\ \A l \in Launches : l # m => (Pursued(l)' <=> Pursued(l)) /\ pc'[l] = pc[l]
           /\ \A u \in Threads : \A x : Sets(u, x)' <=> Sets(u, x)
           /\ \A x : SameList(x)
  <1>0. CountTypeOK BY DEF RecordInv, RefInv
  <1>1. /\ UNCHANGED <<lists, mem, real, job, launch>> /\ pc[m] \in {"due", "walk"}
        /\ pc' = pc \/ \E p : Goto(m, p)
    BY DEF Callback, ReportNext, NameBuffer
  <1>2. \A a \in Actors : a # m => pc'[a] = pc[a] BY <1>0, <1>1 DEF Goto, CountTypeOK
  <1>3. \A u \in Threads : pc'[u] = pc[u] BY <1>2, ActorsApart
  <1>5. \A l \in Launches : l # m => pc'[l] = pc[l] BY <1>2, ActorsApart
  <1>6. \A l \in Launches : l # m => (Pursued(l)' <=> Pursued(l)) BY <1>1, <1>3, <1>5 DEF Pursued
  <1>7. \A u \in Threads : \A x : Sets(u, x)' <=> Sets(u, x) BY <1>1, <1>3 DEF Sets
  <1>8. \A x : SameList(x) BY <1>1 DEF lists, SameList
  <1> QED BY <1>1, <1>2, <1>5, <1>6, <1>7, <1>8

\* A walk can go on from here.
Onward(m, todo, cur, at, p) ==
    \A L \in SUBSET NodesOf(launch[m].used) :
       Sorted(launch[m].used, L) /\ Full(m, L) /\ Walks(m, L) =>
         /\ \A b \in todo : b # NoBuffer /\ \E n \in L : buf[n] = b
         /\ p = "walk" => /\ cur # NoBuffer /\ \E n \in L : buf[n] = cur
                          /\ at \in L /\ \A n \in L : buf[n] = cur => at[2] <= n[2]

\* What is left to show of a step of the callback of m.
LEMMA ReportCallback ==
    ASSUME RecordInv, ReportInv, NoneWatched, wrong = {}, NEW m \in Launches, Callback(m),
           NEW todo, NEW cur, NEW at, NEW named, NEW p, pc' = [pc EXCEPT ![m] = p],
           report' = [report EXCEPT ![m] = [todo |-> todo, cur |-> cur, at |-> at, named |-> named]],
           wrong' \subseteq {<<"freed", m>>},
           m \in Watched => wrong' = {},
           m \in Watched => \A n \in named : n \in report[m].named \/ RightName(m, n[1], n[2]),
           m \in Watched => Onward(m, todo, cur, at, p)
    PROVE  ReportInv'
  <1>0. CountTypeOK /\ ReportTypeOK /\ RefInv BY DEF RecordInv, RefInv, ReportInv
  <1>1. /\ UNCHANGED <<lists, mem, real, job, launch>> /\ pc[m] \in {"due", "walk"}
        /\ \A l \in Launches : l # m => (Pursued(l)' <=> Pursued(l)) /\ pc'[l] = pc[l]
        /\ \A u \in Threads : \A x : Sets(u, x)' <=> Sets(u, x)
        /\ \A x : SameList(x)
    BY CallbackOthers
  <1>2. pc'[m] = p BY <1>0, ActorsApart DEF CountTypeOK
  <1>3. /\ report'[m] = [todo |-> todo, cur |-> cur, at |-> at, named |-> named]
        /\ \A l \in Launches : l # m => report'[l] = report[l]
        /\ report' = [l \in Launches |-> report'[l]]
    <2>1. report = [l \in Launches |-> report[l]] BY <1>0 DEF ReportTypeOK
    <2> QED BY <2>1
  <1>4. launch[m] # NoLaunch
    <2>1. Pursued(m) BY <1>1 DEF Pursued
    <2> QED BY <1>0, <2>1, PursuedUses
  <1>5. ReportTypeOK' BY <1>0, <1>1, <1>3, <1>4 DEF ReportTypeOK
  <1>6. ASSUME NEW l \in Watched, l # m, Pursued(l)' PROVE Pursued(l) /\ SameReport(l)
    <2>0. l \in Launches BY RecordAssumption, WatchedIs
    <2>1. Pursued(l) /\ pc'[l] = pc[l] BY <1>1, <1>6, <2>0
    <2>2. PICK k : k = launch[l].kern OBVIOUS
    <2>3. \A u \in Threads : Sets(u, launch[l].kern)' => Sets(u, launch[l].kern) BY <1>1, <2>2
    <2> QED BY <1>1, <1>3, <1>6, <2>0, <2>1, <2>3 DEF SameReport
  <1>7. ASSUME m \in Watched PROVE PursuedAt(m)'
    <2>1. Pursued(m) BY <1>1 DEF Pursued
    <2>2. PICK k : k = launch[m].kern OBVIOUS
    <2>3. PICK u : u = launch[m].used OBVIOUS
    <2>4. PursuedAt(m) BY <1>7, <2>1 DEF ReportInv
    <2>5. PICK L \in SUBSET NodesOf(u) : Sorted(u, L) /\ Full(m, L) /\ Walks(m, L) BY <2>3, <2>4 DEF PursuedAt
    <2>6. Sorted(u, L)' /\ Full(m, L)' BY <1>1, <2>5, SortedKeep, FullKeep DEF SameList
    <2>7. /\ \A b \in todo : b # NoBuffer /\ \E n \in L : buf[n] = b
          /\ p = "walk" => /\ cur # NoBuffer /\ \E n \in L : buf[n] = cur
                           /\ at \in L /\ \A n \in L : buf[n] = cur => at[2] <= n[2]
      BY <1>7, <2>3, <2>5 DEF Onward
    <2>8. buf' = buf BY <1>1 DEF lists
    <2>9. report'[m].todo = todo /\ report'[m].cur = cur /\ report'[m].at = at BY <1>3
    <2>10. Walks(m, L)' BY <1>2, <2>7, <2>8, <2>9 DEF Walks
    <2>11. \A v \in Threads : ~Sets(v, k)' BY <1>1, <2>2, <2>4 DEF PursuedAt
    <2>12. launch'[m].kern = k /\ launch'[m].used = u BY <1>1, <2>2, <2>3
    <2>13. k \in Kernels /\ real'[k] = launch'[m].given BY <1>1, <2>2, <2>4 DEF PursuedAt
    <2>14. L \in SUBSET NodesOf(u)' BY <2>5 DEF NodesOf
    <2> QED BY <2>6, <2>10, <2>11, <2>12, <2>13, <2>14 DEF PursuedAt
  <1>8. ASSUME m \in Watched PROVE RightNames(m)'
    <2>1. \A n \in report[m].named : RightName(m, n[1], n[2]) BY <1>8, RightNamesAre DEF ReportInv
    <2>2. \A n \in named : RightName(m, n[1], n[2]) BY <1>8, <2>1
    <2>3. \A b, i : RightName(m, b, i)' <=> RightName(m, b, i) BY <1>1 DEF RightName, Passed
    <2>4. \A n \in report'[m].named : RightName(m, n[1], n[2])' BY <1>3, <2>2, <2>3
    <2>5. <<"freed", m>> \notin wrong' BY <1>8
    <2> QED BY <2>4, <2>5, NamesFrom
  <1>9. \A l \in Watched : l # m => <<"freed", l>> \notin wrong' OBVIOUS
  <1> QED BY <1>1, <1>3, <1>5, <1>6, <1>7, <1>8, <1>9, ReportOne DEF NoneWatched

LEMMA ReportReportNext ==
    ASSUME RecordInv, ReportInv, NoneWatched, wrong = {}, NEW m \in Launches, ReportNext(m)
    PROVE  ReportInv'
  <1>0. ReportTypeOK /\ Callback(m) /\ pc[m] = "due" BY DEF ReportInv, Callback, ReportNext
  <1>a. PICK r : r = report[m] OBVIOUS
  <1>b. PICK u : u = launch[m].used OBVIOUS
  <1>1. /\ r = [todo |-> r.todo, cur |-> r.cur, at |-> r.at, named |-> r.named]
        /\ report = [l \in Launches |-> report[l]]
    BY <1>0, <1>a DEF ReportTypeOK
  <1>2. u \in live
    <2>1. Reporting(m) BY <1>0 DEF Reporting
    <2> QED BY <1>b, <2>1 DEF RecordInv, RefInv, KeptInv
  <1>3. CASE r.todo = {}
    <2>1. pc' = [pc EXCEPT ![m] = "dec"] /\ UNCHANGED <<report, wrong>> BY <1>3, <1>a DEF ReportNext, Goto
    <2>2. report' = [report EXCEPT ![m] = [todo |-> r.todo, cur |-> r.cur, at |-> r.at, named |-> r.named]]
      BY <1>1, <1>a, <2>1
    <2>3. \A n \in r.named : n \in report[m].named BY <1>a
    <2>4. wrong' = {} BY <2>1
    <2>5. Onward(m, r.todo, r.cur, r.at, "dec") BY <1>3 DEF Onward
    <2> QED BY <1>0, <2>1, <2>2, <2>3, <2>4, <2>5, ReportCallback
  <1>4. CASE r.todo # {}
    <2>1. PICK b \in r.todo :
             report' = [report EXCEPT ![m].todo = @ \ {b}, ![m].cur = b, ![m].at = head[launch[m].used]]
      BY <1>4, <1>a DEF ReportNext
    <2>2. pc' = [pc EXCEPT ![m] = "walk"] /\ wrong' = {} BY <1>2, <1>4, <1>a, <1>b DEF ReportNext, Goto
    <2>3. PICK h : h = head[u] OBVIOUS
    <2>4. report' = [report EXCEPT ![m] = [todo |-> r.todo \ {b}, cur |-> b, at |-> h, named |-> r.named]]
      <3>1. PICK r1 : r1 = [r EXCEPT !.todo = r.todo \ {b}] OBVIOUS
      <3>2. PICK r2 : r2 = [r1 EXCEPT !.cur = b] OBVIOUS
      <3>3. PICK r3 : r3 = [r2 EXCEPT !.at = h] OBVIOUS
      <3>4. report' = [report EXCEPT ![m] = r3] BY <1>1, <1>a, <1>b, <2>1, <2>3, <3>1, <3>2, <3>3
      <3>5. r1 = [todo |-> r.todo \ {b}, cur |-> r.cur, at |-> r.at, named |-> r.named] BY <1>1, <3>1
      <3>6. r2 = [todo |-> r.todo \ {b}, cur |-> b, at |-> r.at, named |-> r.named] BY <3>2, <3>5
      <3>7. r3 = [todo |-> r.todo \ {b}, cur |-> b, at |-> h, named |-> r.named] BY <3>3, <3>6
      <3> QED BY <3>4, <3>7
    <2>5. ASSUME NEW L \in SUBSET NodesOf(u), Sorted(u, L), Full(m, L), Walks(m, L)
          PROVE  /\ \A c \in r.todo \ {b} : c # NoBuffer /\ \E n \in L : buf[n] = c
                 /\ b # NoBuffer /\ \E n \in L : buf[n] = b
                 /\ h \in L /\ \A n \in L : buf[n] = b => h[2] <= n[2]
      <3>1. \A c \in r.todo : c # NoBuffer /\ \E n \in L : buf[n] = c BY <1>a, <2>5 DEF Walks
      <3>2. \E n \in L : buf[n] = b BY <3>1
      <3>3. h \in L /\ \A n \in L : h[2] <= n[2] BY <2>3, <2>5, <3>2 DEF Sorted
      <3> QED BY <3>1, <3>3
    <2>6. \A n \in r.named : n \in report[m].named BY <1>a
    <2>7. Onward(m, r.todo \ {b}, b, h, "walk") BY <1>b, <2>5 DEF Onward
    <2>8. wrong' \subseteq {<<"freed", m>>} BY <2>2
    <2> QED BY <1>0, <2>2, <2>4, <2>6, <2>7, <2>8, ReportCallback
  <1> QED BY <1>3, <1>4

\* What the walk of an awaited report finds.
LEMMA WalkFinds ==
    ASSUME ReportInv, NEW m \in Watched, pc[m] = "walk", NEW n, n = report[m].at
    PROVE  /\ n # Nil /\ n \in heap /\ buf[n] \in mem \cup {NoBuffer}
           /\ buf[n] = report[m].cur => RightName(m, report[m].cur, n[2]) /\ report[m].cur \in mem
           /\ buf[n] # report[m].cur =>
                \A L \in SUBSET NodesOf(launch[m].used) :
                   Sorted(launch[m].used, L) /\ Full(m, L) /\ Walks(m, L) =>
                     next[n] \in L /\ \A x \in L : buf[x] = report[m].cur => next[n][2] <= x[2]
  <1>a. PICK u : u = launch[m].used OBVIOUS
  <1>b. PICK b : b = report[m].cur OBVIOUS
  <1>1. Pursued(m) BY DEF Pursued
  <1>2. PICK L \in SUBSET NodesOf(u) : Sorted(u, L) /\ Full(m, L) /\ Walks(m, L)
    BY <1>1, <1>a DEF ReportInv, PursuedAt
  <1>i. \A x \in L : x[2] \in Int /\ x # Nil /\ x[2] \in Index
    <2>1. \A x \in L : x \in Nodes BY <1>2 DEF NodesOf
    <2> QED BY <2>1, NodeParts
  <1>3. /\ b # NoBuffer /\ n \in L /\ \A x \in L : buf[x] = b => n[2] <= x[2]
    BY <1>2, <1>b DEF Walks
  <1>4. n # Nil /\ n \in heap /\ buf[n] \in mem \cup {NoBuffer} /\ buf[n] = Passed(m, n[2])
    BY <1>2, <1>3, <1>i DEF Full
  <1>5. ASSUME buf[n] = b PROVE RightName(m, b, n[2]) /\ b \in mem
    <2>1. ASSUME NEW j \in 1 .. (n[2] - 1), launch[m].given[j] = launch[m].given[n[2]] PROVE FALSE
      <3>1. n[2] \in Int /\ n[2] \in Index BY <1>3, <1>i
      <3>2. j \in Index /\ j \in Int /\ j < n[2] BY <3>1, RecordAssumption DEF Index
      <3>3. PICK x \in L : x[2] = j BY <1>2, <3>2 DEF Full
      <3>4. buf[x] = Passed(m, j) BY <1>2, <3>3 DEF Full
      <3>5. Passed(m, j) = Passed(m, n[2]) BY <2>1 DEF Passed
      <3>6. buf[x] = b BY <1>4, <1>5, <3>4, <3>5
      <3>7. n[2] <= j BY <1>3, <3>3, <3>6
      <3> QED BY <3>1, <3>2, <3>7
    <2>2. n[2] \in Index BY <1>3, <1>i
    <2> QED BY <1>3, <1>4, <1>5, <2>1, <2>2 DEF RightName
  <1>6. ASSUME buf[n] # b, NEW K \in SUBSET NodesOf(u), Sorted(u, K), Full(m, K), Walks(m, K)
        PROVE  next[n] \in K /\ \A x \in K : buf[x] = b => next[n][2] <= x[2]
    <2>i. \A x \in K : x[2] \in Int /\ x # Nil BY <1>6, SortedNodes
    <2>1. /\ n \in K /\ \E x \in K : buf[x] = b
          /\ \A x \in K : buf[x] = b => n[2] <= x[2]
      BY <1>6, <1>b DEF Walks
    <2>2. ASSUME NEW x \in K, buf[x] = b PROVE next[n] \in K /\ next[n][2] <= x[2]
      <3>1. x # n BY <1>6, <2>2
      <3>2. x[2] # n[2] BY <1>6, <2>1, <3>1 DEF Sorted
      <3>3. n[2] < x[2] BY <2>1, <2>2, <2>i, <3>2
      <3>4. next[n] # Nil
        <4>1. next[n] = Nil => x[2] <= n[2] BY <1>6, <2>1, <2>i DEF Sorted
        <4> QED BY <2>1, <2>i, <3>3, <4>1
      <3>5. next[n] \in K /\ (x[2] <= n[2] \/ next[n][2] <= x[2]) BY <1>6, <2>1, <3>4 DEF Sorted
      <3> QED BY <2>1, <2>i, <3>3, <3>5
    <2> QED BY <2>1, <2>2
  <1> QED BY <1>4, <1>5, <1>6, <1>a, <1>b

LEMMA ReportNameBuffer ==
    ASSUME RecordInv, ReportInv, NoneWatched, wrong = {}, NEW m \in Launches, NameBuffer(m)
    PROVE  ReportInv'
  <1>0. ReportTypeOK /\ Callback(m) /\ pc[m] = "walk" /\ CountTypeOK
    BY DEF ReportInv, Callback, NameBuffer, RecordInv, RefInv
  <1>a. PICK r : r = report[m] OBVIOUS
  <1>n. PICK n : n = r.at OBVIOUS
  <1>b. PICK b : b = r.cur OBVIOUS
  <1>1. /\ r = [todo |-> r.todo, cur |-> r.cur, at |-> r.at, named |-> r.named]
        /\ report = [l \in Launches |-> report[l]] /\ report[m] = r
    BY <1>0, <1>a DEF ReportTypeOK
  <1>2. m \in Watched =>
           /\ n # Nil /\ n \in heap /\ buf[n] \in mem \cup {NoBuffer}
           /\ buf[n] = b => RightName(m, b, n[2]) /\ b \in mem
           /\ buf[n] # b => Onward(m, r.todo, b, next[n], "walk")
    <2> HAVE m \in Watched
    <2>1. n = report[m].at /\ b = report[m].cur BY <1>1, <1>b, <1>n
    <2>2. /\ n # Nil /\ n \in heap /\ buf[n] \in mem \cup {NoBuffer}
          /\ buf[n] = b => RightName(m, b, n[2]) /\ b \in mem
          /\ buf[n] # b =>
               \A L \in SUBSET NodesOf(launch[m].used) :
                  Sorted(launch[m].used, L) /\ Full(m, L) /\ Walks(m, L) =>
                    next[n] \in L /\ \A x \in L : buf[x] = b => next[n][2] <= x[2]
      BY <1>0, <2>1, WalkFinds
    <2>3. ASSUME buf[n] # b PROVE Onward(m, r.todo, b, next[n], "walk")
      <3>1. \A L : Walks(m, L) =>
               /\ \A c \in r.todo : c # NoBuffer /\ \E x \in L : buf[x] = c
               /\ b # NoBuffer /\ \E x \in L : buf[x] = b
        BY <1>0, <1>1, <2>1 DEF Walks
      <3> QED BY <2>2, <2>3, <3>1 DEF Onward
    <2> QED BY <2>2, <2>3
  <1>3. \A c \in r.named : c \in report[m].named BY <1>1
  <1>4. \A p : p # "walk" => Onward(m, r.todo, NoBuffer, Nil, p) BY <1>1 DEF Onward, Walks
  <1>5. ASSUME NEW i, report' = Named(m, i)
        PROVE  report' = [report EXCEPT ![m] = [todo |-> r.todo, cur |-> NoBuffer, at |-> Nil,
                                                 named |-> r.named \cup {<<b, i>>}]]
    <2>1. PICK r1 : r1 = [r EXCEPT !.named = r.named \cup {<<b, i>>}] OBVIOUS
    <2>2. PICK r2 : r2 = [r1 EXCEPT !.cur = NoBuffer] OBVIOUS
    <2>3. PICK r3 : r3 = [r2 EXCEPT !.at = Nil] OBVIOUS
    <2>4. report' = [report EXCEPT ![m] = r3] BY <1>1, <1>5, <1>b, <2>1, <2>2, <2>3 DEF Named
    <2>5. r1 = [todo |-> r.todo, cur |-> r.cur, at |-> r.at, named |-> r.named \cup {<<b, i>>}] BY <1>1, <2>1
    <2>6. r2 = [todo |-> r.todo, cur |-> NoBuffer, at |-> r.at, named |-> r.named \cup {<<b, i>>}] BY <2>2, <2>5
    <2>7. r3 = [todo |-> r.todo, cur |-> NoBuffer, at |-> Nil, named |-> r.named \cup {<<b, i>>}] BY <2>3, <2>6
    <2> QED BY <2>4, <2>7
  <1>p. pc = [pc EXCEPT ![m] = "walk"] BY <1>0 DEF CountTypeOK
  <1>6. CASE n = Nil
    <2>a. report[m].at = Nil BY <1>1, <1>6, <1>n
    <2>b. report' = Named(m, 0) /\ Goto(m, "due") /\ wrong' = wrong BY <2>a DEF NameBuffer
    <2>1. report' = Named(m, 0) /\ pc' = [pc EXCEPT ![m] = "due"] /\ wrong' = {}
      BY <2>b DEF Goto
    <2>2. report' = [report EXCEPT ![m] = [todo |-> r.todo, cur |-> NoBuffer, at |-> Nil,
                                            named |-> r.named \cup {<<b, 0>>}]]
      BY <1>5, <2>1
    <2>3. m \notin Watched BY <1>2, <1>6
    <2>4. wrong' \subseteq {<<"freed", m>>} BY <2>1
    <2> QED BY <1>0, <2>1, <2>2, <2>3, <2>4, ReportCallback
  <1>7. CASE n # Nil /\ (n \notin heap \/ buf[n] \notin mem \cup {NoBuffer})
    <2>1. wrong' = {<<"freed", m>>} /\ UNCHANGED <<report, pc>> BY <1>1, <1>7, <1>n DEF NameBuffer
    <2>2. report' = [report EXCEPT ![m] = [todo |-> r.todo, cur |-> r.cur, at |-> r.at, named |-> r.named]]
      BY <1>1, <2>1
    <2>3. m \notin Watched BY <1>2, <1>7
    <2>4. pc' = [pc EXCEPT ![m] = "walk"] /\ wrong' \subseteq {<<"freed", m>>} BY <1>p, <2>1
    <2> QED BY <1>0, <2>2, <2>3, <2>4, ReportCallback
  <1>8. CASE n # Nil /\ n \in heap /\ buf[n] \in mem \cup {NoBuffer} /\ buf[n] = b /\ b \in mem
    <2>1. report' = Named(m, n[2]) /\ pc' = [pc EXCEPT ![m] = "due"] /\ wrong' = {}
      BY <1>1, <1>8, <1>b, <1>n DEF NameBuffer, Goto
    <2>2. report' = [report EXCEPT ![m] = [todo |-> r.todo, cur |-> NoBuffer, at |-> Nil,
                                            named |-> r.named \cup {<<b, n[2]>>}]]
      BY <1>5, <2>1
    <2>3. m \in Watched => \A c \in r.named \cup {<<b, n[2]>>} : c \in report[m].named \/ RightName(m, c[1], c[2])
      BY <1>2, <1>3, <1>8
    <2>4. Onward(m, r.todo, NoBuffer, Nil, "due") BY <1>4
    <2>5. wrong' \subseteq {<<"freed", m>>} BY <2>1
    <2> QED BY <1>0, <2>1, <2>2, <2>3, <2>4, <2>5, ReportCallback
  <1>9. CASE n # Nil /\ n \in heap /\ buf[n] \in mem \cup {NoBuffer} /\ ~(buf[n] = b /\ b \in mem)
    <2>0. PICK x : x = next[n] OBVIOUS
    <2>1. report' = [report EXCEPT ![m].at = x] /\ UNCHANGED <<pc, wrong>>
      BY <1>1, <1>9, <1>b, <1>n, <2>0 DEF NameBuffer
    <2>2. report' = [report EXCEPT ![m] = [todo |-> r.todo, cur |-> b, at |-> x, named |-> r.named]]
      <3>1. [r EXCEPT !.at = x] = [todo |-> r.todo, cur |-> b, at |-> x, named |-> r.named] BY <1>1, <1>b
      <3> QED BY <1>1, <2>1, <3>1
    <2>3. m \in Watched => Onward(m, r.todo, b, x, "walk") BY <1>2, <1>9, <2>0
    <2>4. pc' = [pc EXCEPT ![m] = "walk"] /\ wrong' = {} /\ wrong' \subseteq {<<"freed", m>>} BY <1>p, <2>1
    <2> QED BY <1>0, <1>3, <2>2, <2>3, <2>4, ReportCallback
  <1> QED BY <1>6, <1>7, <1>8, <1>9

LEMMA ReportBegins ==
    ASSUME Init
    PROVE  ReportInv
  <1>1. report = [l \in Launches |-> NoReport] /\ wrong = {} /\ Watched \subseteq Launches
    BY WatchedIs DEF Init
  <1>2. \A a \in Actors : pc[a] = "idle" BY DEF Init
  <1>3. \A l \in Launches : ~Pursued(l) BY <1>2, ActorsApart DEF Pursued
  <1>4. ReportTypeOK BY <1>1 DEF ReportTypeOK, NoReport
  <1>5. \A l \in Watched : RightNames(l) BY <1>1 DEF RightNames, NoReport
  <1> QED BY <1>1, <1>3, <1>4, <1>5 DEF ReportInv

LEMMA ReportStep ==
    ASSUME Shared = {}, RecordInv, ListInv, ReportInv, [Next]_vars
    PROVE  ReportInv'
  <1>0. NoneWatched /\ RefInv BY WatchedLess DEF RecordInv
  <1>1. ASSUME UNCHANGED vars PROVE ReportInv'
    <2>1. UNCHANGED <<report, launch, lists, real, mem, wrong>> BY <1>1 DEF vars
    <2> QED BY <1>0, <1>1, <2>1, StepsRecede, StepsStay, ReportElse
  <1>2. ASSUME wrong = {}, NEW t \in Threads, ReadHead(t) \/ RemoveArg(t) \/ InsertArg(t) PROVE ReportInv'
    BY <1>0, <1>2, ReportArgStep
  <1>3. ASSUME NEW t \in Threads, Inc(t) \/ IncStore(t) PROVE ReportInv'
    <2>1. UNCHANGED <<report, launch, lists, real, mem, wrong>>
      BY <1>0, <1>3, NothingGone, ActorsApart DEF Inc, IncStore
    <2> QED BY <1>0, <1>3, <2>1, StepsRecede, StepsStay, ReportElse
  <1>4. ASSUME wrong = {}, NEW t \in Threads, Verify(t) PROVE ReportInv' BY <1>0, <1>4, ReportVerify
  <1>15. ASSUME NEW t \in Threads, CheckDone(t) PROVE ReportInv'
    <2>1. UNCHANGED <<report, launch, lists, real, mem, wrong>> BY <1>15 DEF CheckDone
    <2> QED BY <1>0, <1>15, <2>1, StepsRecede, StepsStay, ReportElse
  <1>5. ASSUME wrong = {}, NEW t \in Threads, DelPoisonKernel(t) PROVE ReportInv'
    BY <1>0, <1>5, ReportDelPoisonKernel
  <1>6. ASSUME NEW t \in Threads, NEW k \in Kernels, RetainKernel(t, k) \/ ReleaseKernel(t, k) PROVE ReportInv'
    <2>1. UNCHANGED <<report, launch, lists, real, mem, wrong>> BY <1>6 DEF RetainKernel, ReleaseKernel
    <2> QED BY <1>0, <1>6, <2>1, StepsRecede, StepsStay, ReportElse
  <1>7. ASSUME wrong = {}, NEW t \in Threads, NEW k \in Kernels, NEW i \in Index,
               NEW b \in Buffers \cup {NoBuffer}, SetKernelArg(t, k, i, b)
        PROVE  ReportInv'
    <2>1. b \in Values BY DEF Values
    <2> QED BY <1>0, <1>7, <2>1, ReportSetKernelArg
  <1>8. ASSUME wrong = {}, NEW t \in Threads, NEW k \in Kernels, NEW l \in Launches, LaunchKernel(t, l, k)
        PROVE  ReportInv'
    BY <1>0, <1>8, ReportLaunchKernel
  <1>9. ASSUME wrong = {}, NEW l \in Launches, Callback(l) PROVE ReportInv'
    BY <1>0, <1>9, ReportReportNext, ReportNameBuffer DEF Callback
  <1>10. ASSUME NEW a \in Actors, Dec(a) \/ DecStore(a) PROVE ReportInv'
    <2>1. UNCHANGED <<report, launch, lists, real, mem, wrong>> BY <1>0, <1>10, NothingGone DEF Dec, DecStore
    <2> QED BY <1>0, <1>10, <2>1, StepsRecede, StepsStay, ReportElse
  <1>11. ASSUME wrong = {}, NEW a \in Actors, Drop(a) PROVE ReportInv' BY <1>0, <1>11, ReportDrop
  <1>12. ASSUME wrong = {}, NEW b \in Buffers, ReleaseMemObject(b) PROVE ReportInv'
    BY <1>0, <1>12, ReportReleaseMemObject
  <1>13. ASSUME wrong = {}, NEW t \in Threads, ThreadStep(t) PROVE ReportInv'
    BY <1>2, <1>3, <1>4, <1>5, <1>6, <1>7, <1>8, <1>13, <1>15 DEF ThreadStep
  <1>14. ASSUME Next PROVE ReportInv'
    BY <1>9, <1>10, <1>11, <1>12, <1>13, <1>14 DEF Next
  <1> QED BY <1>1, <1>14

\* NamesArgument, for any number of threads, kernels, launches and arguments, if no
\* two threads set arguments of a kernel, or launch it, at once: verify_callback
\* walks the list of the kernel, or of its stand-in, which is the one the launch had,
\* names the first argument that is the damaged buffer, and reads no record that is
\* gone; unless two actors have been in one count, or the stand-in was taken apart
\* before the callback had run, which cannot be on an NVIDIA platform.
THEOREM ArgumentsNamed ==
    Shared = {} => (Spec => []NamesArgument)
  <1> SUFFICES ASSUME Shared = {} PROVE Spec => []NamesArgument OBVIOUS
  <1> DEFINE IInv == CountsApart => RecordInv /\ ListInv /\ ReportInv
  <1>1. Init => IInv BY RecordsBegin, ListBegins, ReportBegins
  <1>2. IInv /\ [Next]_vars => IInv' BY ApartBefore, RecordsStep, ListStep, ReportStep
  <1>3. IInv => NamesArgument BY DEF ReportInv, NamesArgument, Watched
  <1> QED BY <1>1, <1>2, <1>3, PTL DEF Spec

-----------------------------------------------------------------------------
(***************************************************************************)
(* Where every call waits for its check.                                   *)
(***************************************************************************)
\* The callback of a launch runs while its thread waits for it.
Attended ==
    \A l \in Launches : Outstanding(l) => \E t \in Threads : job[t].launch = l /\ pc[t] = "wait"

\* Thread u serves actor x: it is x, or waits for the callback x.
Serves(u, x) == u = x \/ (x \in Launches /\ job[u].launch = x /\ pc[u] = "wait")

LEMMA Served ==
    ASSUME RecordInv, Attended, NEW x \in Actors, pc[x] # "idle"
    PROVE  \E u \in Threads :
              /\ Serves(u, x) /\ job[u].kern \in Kernels
              /\ \/ Counted(x) = job[u].kern
                 \/ Counted(x) = job[u].launch /\ job[u].launch \in Launches
  <1>0. RefInv BY DEF RecordInv
  <1>1. CASE x \in Threads
    <2>1. job[x].kern \in Kernels BY <1>0, <1>1 DEF RefInv, UseInv, UseAt
    <2>2. CASE job[x].launch = Nil BY <1>1, <2>1, <2>2, CountedIs DEF Serves
    <2>3. CASE job[x].launch # Nil
      <3>1. /\ job[x].launch \in Launches /\ launch[job[x].launch].used \in {job[x].launch, job[x].kern}
            /\ Counted(x) = launch[job[x].launch].used
        BY <1>0, <1>1, <2>3, UnderWay
      <3> QED BY <1>1, <2>1, <3>1 DEF Serves
    <2> QED BY <2>2, <2>3
  <1>2. CASE x \in Launches
    <2>1. PICK u \in Threads : job[u].launch = x /\ pc[u] = "wait" BY <1>2 DEF Attended, Outstanding
    <2>2. job[u].launch # Nil BY <1>2, <2>1, ActorsApart
    <2>3. launch[x].used \in {x, job[u].kern} /\ job[u].kern \in Kernels BY <1>0, <2>1, <2>2, UnderWay
    <2>4. Counted(x) = launch[x].used BY <1>2, CountedIs
    <2> QED BY <1>2, <2>1, <2>3, <2>4 DEF Serves
  <1> QED BY <1>1, <1>2, ActorsApart

\* Nobody comes to a count while another is in it.
LEMMA AloneInCount ==
    ASSUME RecordInv, Attended, ThreadsApart, NEW a \in Actors, pc[a] \in {"inc", "dec"},
           NEW b \in Actors \ {a}, Counting(b), Counted(b) = Counted(a)
    PROVE  FALSE
  <1>0. RefInv BY DEF RecordInv
  <1>b. pc[b] \in {"incstore", "decstore", "drop"} BY DEF Counting
  <1>1. PICK u \in Threads :
           /\ Serves(u, a) /\ job[u].kern \in Kernels
           /\ \/ Counted(a) = job[u].kern
              \/ Counted(a) = job[u].launch /\ job[u].launch \in Launches
    BY Served
  <1>2. PICK v \in Threads :
           /\ Serves(v, b) /\ job[v].kern \in Kernels
           /\ \/ Counted(b) = job[v].kern
              \/ Counted(b) = job[v].launch /\ job[v].launch \in Launches
    BY <1>b, Served
  <1>3. u = v
    <2>1. CASE Counted(a) \in Kernels
      <3>1. job[u].kern = job[v].kern /\ job[u].kern # Nil BY <1>1, <1>2, <2>1, ActorsApart
      <3> QED BY <3>1 DEF ThreadsApart
    <2>2. CASE Counted(a) \notin Kernels
      <3>1. job[u].launch = job[v].launch /\ job[u].launch # Nil BY <1>1, <1>2, <2>2, ActorsApart
      <3> QED BY <1>0, <3>1 DEF RefInv, UseInv
    <2> QED BY <2>1, <2>2
  <1> QED BY <1>1, <1>2, <1>3, <1>b DEF Serves

LEMMA NoRaceBegins ==
    ASSUME Waiting = Launches, RecordInv, Attended, ThreadsApart, races = {}, [Next]_vars
    PROVE  races' = {}
  <1>1. ASSUME NEW a \in Actors, pc[a] \in {"inc", "dec"}, ReadCount(a, Counted(a)) PROVE races' = {}
    <2>1. ~ \E b \in Actors \ {a} : Counting(b) /\ Counted(b) = Counted(a) BY <1>1, AloneInCount
    <2> QED BY <1>1, <2>1 DEF ReadCount
  <1>2. ASSUME NEW t \in Threads, Inc(t) PROVE races' = {}
    <2>1. t \in Actors /\ pc[t] \in {"inc", "dec"} BY <1>2, ActorsApart DEF Inc
    <2>2. ReadCount(t, Counted(t)) \/ races' = races BY <1>2 DEF Inc
    <2> QED BY <1>1, <2>1, <2>2
  <1>3. ASSUME NEW a \in Actors, Dec(a) PROVE races' = {}
    <2>1. pc[a] \in {"inc", "dec"} BY <1>3 DEF Dec
    <2>2. ReadCount(a, Counted(a)) \/ races' = races BY <1>3 DEF Dec
    <2> QED BY <1>1, <2>1, <2>2
  <1>4. ASSUME NEW t \in Threads, DelPoisonKernel(t) PROVE races' = {}
    <2>1. pc[t] = "clean" BY <1>4 DEF DelPoisonKernel
    <2>2. job[t].launch # Nil /\ LaunchAt(t) BY <2>1 DEF RecordInv, RefInv, UseInv, UseAt
    <2>3. job[t].launch \in Waiting BY <2>2, UnderWay DEF RecordInv
    <2>4. ~Outstanding(job[t].launch) BY <2>1, <2>2, <2>3 DEF LaunchAt, Resting, Outstanding
    <2> QED BY <1>4, <2>4 DEF DelPoisonKernel
  <1>5. ASSUME NEW t \in Threads,
               \/ ReadHead(t) \/ RemoveArg(t) \/ InsertArg(t) \/ IncStore(t) \/ Verify(t) \/ CheckDone(t)
               \/ \E k \in Kernels :
                    \/ RetainKernel(t, k) \/ ReleaseKernel(t, k)
                    \/ \E i \in Index, b \in Buffers \cup {NoBuffer} : SetKernelArg(t, k, i, b)
        PROVE  races' = {}
    BY <1>5 DEF ReadHead, RemoveArg, InsertArg, IncStore, Verify, CheckDone, RetainKernel, ReleaseKernel,
                SetKernelArg, counts
  <1>6. ASSUME NEW t \in Threads, NEW k \in Kernels, NEW l \in Launches, LaunchKernel(t, l, k)
        PROVE  races' = {}
    <2>1. UNCHANGED counts \/ UNCHANGED races BY <1>6 DEF LaunchKernel
    <2> QED BY <2>1 DEF counts
  <1>7. ASSUME NEW t \in Threads, ThreadStep(t) PROVE races' = {}
    BY <1>2, <1>4, <1>5, <1>6, <1>7 DEF ThreadStep
  <1>8. ASSUME NEW l \in Launches, Callback(l) PROVE races' = {}
    BY <1>8 DEF Callback, ReportNext, NameBuffer, counts
  <1>9. ASSUME NEW a \in Actors, DecStore(a) \/ Drop(a) PROVE races' = {} BY <1>9 DEF DecStore, Drop
  <1>10. ASSUME NEW b \in Buffers, ReleaseMemObject(b) PROVE races' = {} BY <1>10 DEF ReleaseMemObject, counts
  <1>11. CASE Next BY <1>3, <1>7, <1>8, <1>9, <1>10, <1>11 DEF Next
  <1>12. CASE UNCHANGED vars BY <1>12 DEF vars, counts
  <1> QED BY <1>11, <1>12

\* An actor goes on that waits for nothing, and is no callback that begins.
LEMMA AttendedGoto ==
    ASSUME CountTypeOK, Attended, NEW a \in Actors, NEW p, Goto(a, p), pc[a] # "wait",
           a \in Launches => pc[a] # "idle",
           job' = job \/ \E j : job' = [job EXCEPT ![a] = j]
    PROVE  Attended'
  <1>1. \A b \in Actors \ {a} : pc'[b] = pc[b] BY DEF Goto, CountTypeOK
  <1>2. \A u \in Threads \ {a} : job'[u] = job[u] BY DEF CountTypeOK
  <1>3. ASSUME NEW l \in Launches, Outstanding(l)'
        PROVE  \E t \in Threads : job'[t].launch = l /\ pc'[t] = "wait"
    <2>1. Outstanding(l)
      <3>1. CASE l = a BY <3>1 DEF Outstanding
      <3>2. CASE l # a BY <1>1, <1>3, <3>2, ActorsApart DEF Outstanding
      <3> QED BY <3>1, <3>2
    <2>2. PICK t \in Threads : job[t].launch = l /\ pc[t] = "wait" BY <2>1 DEF Attended
    <2> QED BY <1>1, <1>2, <2>2, ActorsApart
  <1> QED BY <1>3 DEF Attended

LEMMA AttendedStep ==
    ASSUME Waiting = Launches, RecordInv, Attended, [Next]_vars
    PROVE  Attended'
  <1>0. CountTypeOK /\ RefInv /\ OwnInv /\ Threads \subseteq Actors BY DEF RecordInv, RefInv, Actors
  <1>1. ASSUME UNCHANGED <<pc, job>> PROVE Attended' BY <1>1 DEF Attended, Outstanding
  <1>2. ASSUME NEW t \in Threads, \/ ReadHead(t) \/ RemoveArg(t) \/ InsertArg(t) \/ Inc(t) \/ IncStore(t)
                                   \/ DelPoisonKernel(t)
        PROVE  Attended'
    <2>1. pc[t] # "wait" /\ \E p : Goto(t, p) /\ (job' = job \/ \E j : job' = [job EXCEPT ![t] = j])
      <3>1. CASE ReadHead(t) BY <3>1 DEF ReadHead
      <3>2. CASE RemoveArg(t) BY <3>2 DEF RemoveArg
      <3>3. CASE InsertArg(t) BY <3>3 DEF InsertArg
      <3>4. CASE Inc(t) BY <3>4 DEF Inc, EndRetain, EndJob
      <3>5. CASE IncStore(t) BY <3>5 DEF IncStore, EndRetain, EndJob
      <3>6. CASE DelPoisonKernel(t) BY <3>6 DEF DelPoisonKernel
      <3> QED BY <1>2, <3>1, <3>2, <3>3, <3>4, <3>5, <3>6
    <2> QED BY <1>0, <2>1, AttendedGoto, ActorsApart
  <1>3. ASSUME NEW t \in Threads, Verify(t) PROVE Attended'
    <2>a. PICK m : m = job[t].launch OBVIOUS
    <2>1. /\ pc[t] = "verify"
          /\ pc' = [pc EXCEPT ![t] = IF m \in Waiting THEN "wait" ELSE AfterCheck(m), ![m] = "due"]
          /\ EndJob(t, IF m \in Waiting THEN "wait" ELSE AfterCheck(m))
      BY <1>3, <2>a DEF Verify
    <2>2. m \in Launches BY <1>0, <2>1, <2>a, UnderWay DEF RefInv, UseInv, UseAt
    <2>3. /\ pc'[t] = "wait" /\ \A a \in Actors \ {t, m} : pc'[a] = pc[a]
          /\ job' = job
      BY <1>0, <2>1, <2>2, ActorsApart DEF CountTypeOK, EndJob
    <2>4. ASSUME NEW l \in Launches, Outstanding(l)'
          PROVE  \E u \in Threads : job'[u].launch = l /\ pc'[u] = "wait"
      <3>1. CASE l = m BY <2>3, <2>a, <3>1
      <3>2. CASE l # m
        <4>1. Outstanding(l) BY <2>3, <2>4, <3>2, ActorsApart DEF Outstanding
        <4>2. PICK u \in Threads : job[u].launch = l /\ pc[u] = "wait" BY <4>1 DEF Attended
        <4> QED BY <1>0, <2>2, <2>3, <4>2, ActorsApart
      <3> QED BY <3>1, <3>2
    <2> QED BY <2>4 DEF Attended
  <1>4. ASSUME NEW t \in Threads, CheckDone(t) PROVE Attended'
    <2>1. /\ ~Outstanding(job[t].launch) /\ \E p : Goto(t, p)
          /\ job' = job \/ \E j : job' = [job EXCEPT ![t] = j]
      BY <1>4 DEF CheckDone, EndJob
    <2>2. /\ \A a \in Actors \ {t} : pc'[a] = pc[a]
          /\ \A u \in Threads \ {t} : job'[u] = job[u]
      BY <1>0, <2>1 DEF Goto, CountTypeOK
    <2>3. ASSUME NEW l \in Launches, Outstanding(l)'
          PROVE  \E u \in Threads : job'[u].launch = l /\ pc'[u] = "wait"
      <3>1. Outstanding(l) BY <2>2, <2>3, ActorsApart DEF Outstanding
      <3>2. PICK u \in Threads : job[u].launch = l /\ pc[u] = "wait" BY <3>1 DEF Attended
      <3> QED BY <1>0, <2>1, <2>2, <3>1, <3>2
    <2> QED BY <2>3 DEF Attended
  <1>5. ASSUME NEW t \in Threads, NEW k \in Kernels,
               \/ RetainKernel(t, k) \/ ReleaseKernel(t, k)
               \/ \E i \in Index, b \in Buffers \cup {NoBuffer} : SetKernelArg(t, k, i, b)
        PROVE  Attended'
    <2>1. pc[t] # "wait" /\ \E p : Goto(t, p) /\ \E j : job' = [job EXCEPT ![t] = j]
      BY <1>5 DEF RetainKernel, ReleaseKernel, SetKernelArg
    <2> QED BY <1>0, <2>1, AttendedGoto, ActorsApart
  <1>6. ASSUME wrong = {}, NEW t \in Threads, NEW k \in Kernels, NEW l \in Launches, LaunchKernel(t, l, k)
        PROVE  Attended'
    <2>1. /\ pc[t] = "idle"
          /\ \/ UNCHANGED <<pc, job>>
             \/ (\E p : Goto(t, p)) /\ (job' = job \/ \E j : job' = [job EXCEPT ![t] = j])
      BY <1>0, <1>6, LaunchOf
    <2> QED BY <1>0, <1>1, <2>1, AttendedGoto, ActorsApart
  <1>7. ASSUME NEW l \in Launches, Callback(l) PROVE Attended'
    <2>1. pc[l] \in {"due", "walk"} /\ UNCHANGED job /\ (pc' = pc \/ \E p : Goto(l, p))
      BY <1>7 DEF Callback, ReportNext, NameBuffer
    <2> QED BY <1>0, <1>1, <2>1, AttendedGoto, ActorsApart
  <1>8. ASSUME NEW a \in Actors, Dec(a) \/ DecStore(a) \/ Drop(a) PROVE Attended'
    <2>1. /\ pc[a] \in {"dec", "decstore", "drop"}
          /\ \E p : Goto(a, p) /\ (job' = job \/ \E j : job' = [job EXCEPT ![a] = j])
      BY <1>8 DEF Dec, DecStore, Drop, EndJob
    <2> QED BY <1>0, <2>1, AttendedGoto
  <1>9. ASSUME NEW b \in Buffers, ReleaseMemObject(b) PROVE Attended' BY <1>1, <1>9 DEF ReleaseMemObject
  <1>10. ASSUME wrong = {}, NEW t \in Threads, ThreadStep(t) PROVE Attended'
    BY <1>2, <1>3, <1>4, <1>5, <1>6, <1>10 DEF ThreadStep
  <1>11. CASE Next BY <1>7, <1>8, <1>9, <1>10, <1>11 DEF Next
  <1>12. CASE UNCHANGED vars BY <1>1, <1>12 DEF vars
  <1> QED BY <1>11, <1>12

AttendedInv == races = {} /\ RecordInv /\ Attended

LEMMA AttendedBegins ==
    ASSUME Init
    PROVE  AttendedInv
  <1>1. races = {} /\ Attended BY ActorsApart DEF Init, Attended, Outstanding
  <1> QED BY <1>1, RecordsBegin DEF AttendedInv

LEMMA AttendedGoesOn ==
    ASSUME Waiting = Launches, AttendedInv, ThreadsApart, [Next]_vars
    PROVE  AttendedInv'
  <1>1. races' = {} BY NoRaceBegins DEF AttendedInv
  <1>2. CountsApart' BY <1>1 DEF CountsApart
  <1> QED BY <1>1, <1>2, RecordsStep, AttendedStep DEF AttendedInv

\* Kept without an exception, for any number of threads, kernels and launches: where
\* every call waits for its check and runs verify_callback itself, as on an NVIDIA
\* platform, and no two threads are in calls on one kernel at once, no two actors are
\* ever in one count, no stand-in is taken apart under its callback, and every record
\* of a kernel is there, with the count of those who need it.
THEOREM RecordsKeptByWaiting ==
    Waiting = Launches => (Spec /\ []ThreadsApart => [](races = {} /\ Kept))
  <1> SUFFICES ASSUME Waiting = Launches PROVE Spec /\ []ThreadsApart => [](races = {} /\ Kept)
    OBVIOUS
  <1>1. Init => AttendedInv BY AttendedBegins
  <1>2. AttendedInv /\ ThreadsApart /\ [Next]_vars => AttendedInv' BY AttendedGoesOn
  <1>3. AttendedInv => races = {} /\ Kept BY RecordsSay DEF AttendedInv
  <1> QED BY <1>1, <1>2, <1>3, PTL DEF Spec

\* NamesRegardless, for any number of threads, kernels, launches and arguments, under
\* the same conditions: every report the application waits for names the first
\* argument that is the damaged buffer, and reads no record that is gone.
THEOREM ArgumentsNamedByWaiting ==
    Waiting = Launches /\ Shared = {} => (Spec /\ []ThreadsApart => []NamesRegardless)
  <1> SUFFICES ASSUME Waiting = Launches, Shared = {} PROVE Spec /\ []ThreadsApart => []NamesRegardless
    OBVIOUS
  <1> DEFINE IInv == AttendedInv /\ ListInv /\ ReportInv
  <1>1. Init => IInv BY AttendedBegins, ListBegins, ReportBegins
  <1>2. IInv /\ ThreadsApart /\ [Next]_vars => IInv'
    <2> SUFFICES ASSUME IInv, ThreadsApart, [Next]_vars PROVE IInv' OBVIOUS
    <2>1. RecordInv /\ AttendedInv' BY AttendedGoesOn DEF AttendedInv
    <2>2. CountsApart' BY <2>1 DEF AttendedInv, CountsApart
    <2> QED BY <2>1, <2>2, ListStep, ReportStep
  <1>3. IInv => NamesRegardless
    <2> SUFFICES ASSUME IInv PROVE NamesRegardless OBVIOUS
    <2>1. Awaited \subseteq Launches BY RecordAssumption
    <2>2. Watched = Awaited BY <2>1 DEF Watched, Torn
    <2> QED BY <2>2 DEF ReportInv, NamesRegardless
  <1> QED BY <1>1, <1>2, <1>3, PTL DEF Spec
===============================================================================
