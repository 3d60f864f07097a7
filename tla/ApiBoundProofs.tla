--------------------------- MODULE ApiBoundProofs ---------------------------
(***************************************************************************)
(* Proofs about ApiBounds, for any number of threads, buffers and images,  *)
(* and any sizes, origins, regions and pitches.                            *)
(***************************************************************************)
EXTENDS ApiBounds, TLAPS

-----------------------------------------------------------------------------
(***************************************************************************)
(* Arithmetic.                                                             *)
(***************************************************************************)

LEMMA ProductOK ==
    ASSUME NEW a \in Nat, NEW b \in Nat
    PROVE  a * b \in Nat
  OBVIOUS

LEMMA ProductMonotonic ==
    ASSUME NEW a \in Nat, NEW b \in Nat, NEW c \in Nat, a <= b
    PROVE  a * c <= b * c
  OBVIOUS

LEMMA PositiveProduct ==
    ASSUME NEW a \in Nat \ {0}, NEW b \in Nat \ {0}
    PROVE  a * b \in Nat \ {0}
  OBVIOUS

LEMMA WrapFacts ==
    ASSUME NEW n \in Nat
    PROVE  Wrap(n) \in Nat /\ Wrap(n) <= n /\ (n < Modulus => Wrap(n) = n)
  BY ApiAssumption DEF Wrap

\* A byte of a box with packed rows, counted from the first.
LEMMA BoxBound ==
    ASSUME NEW r1 \in Nat \ {0}, NEW r2 \in Nat \ {0}, NEW r3 \in Nat \ {0},
           NEW x \in 0 .. (r1 - 1), NEW y \in 0 .. (r2 - 1), NEW z \in 0 .. (r3 - 1)
    PROVE  z * (r1 * r2) + y * r1 + x < r1 * r2 * r3
  <1>1. y * r1 <= (r2 - 1) * r1 BY ProductMonotonic
  <1>2. z * (r1 * r2) <= (r3 - 1) * (r1 * r2)
    <2>1. r1 * r2 \in Nat BY ProductOK
    <2> QED BY <2>1, ProductMonotonic
  <1>3. (r2 - 1) * r1 = r1 * r2 - r1 OBVIOUS
  <1>4. (r3 - 1) * (r1 * r2) = r1 * r2 * r3 - r1 * r2 OBVIOUS
  <1>5. r1 * r2 * r3 \in Int /\ r1 * r2 \in Int /\ y * r1 \in Int /\ z * (r1 * r2) \in Int OBVIOUS
  <1> QED BY <1>1, <1>2, <1>3, <1>4, <1>5

\* The last byte of a box is no nearer than if its rows lay behind one another.
LEMMA BoxEnd ==
    ASSUME NEW r1 \in Nat \ {0}, NEW r2 \in Nat \ {0}, NEW r3 \in Nat \ {0},
           NEW row \in Nat, NEW slice \in Nat, row >= r1, slice >= row * r2
    PROVE  (r3 - 1) * slice + (r2 - 1) * row + r1 >= r1 * r2 * r3
  <1>0. row * r2 \in Nat /\ r1 * r2 \in Nat /\ r3 - 1 \in Nat /\ r2 - 1 \in Nat BY ProductOK
  <1>1. r1 * (r2 - 1) <= row * (r2 - 1) BY <1>0, ProductMonotonic
  <1>2. r1 * r2 <= row * r2 BY ProductMonotonic
  <1>3. (r1 * r2) * (r3 - 1) <= slice * (r3 - 1) BY <1>0, <1>2, ProductMonotonic
  <1>4. r1 * (r2 - 1) = r1 * r2 - r1 /\ row * (r2 - 1) = (r2 - 1) * row OBVIOUS
  <1>5. (r1 * r2) * (r3 - 1) = r1 * r2 * r3 - r1 * r2 /\ slice * (r3 - 1) = (r3 - 1) * slice OBVIOUS
  <1>6. r1 * r2 * r3 \in Int /\ (r3 - 1) * slice \in Int /\ (r2 - 1) * row \in Int OBVIOUS
  <1> QED BY <1>0, <1>1, <1>3, <1>4, <1>5, <1>6

LEMMA TripleOK ==
    ASSUME NEW S, NEW o \in Triples(S)
    PROVE  o[1] \in S /\ o[2] \in S /\ o[3] \in S
  BY DEF Triples

-----------------------------------------------------------------------------
(***************************************************************************)
(* The objects never change, and the flag of a thread says whether it is   *)
(* in a check.                                                             *)
(***************************************************************************)

Descriptors ==
    {d \in [sort : Sorts, bytes : DataSizes, asked : Triples(Extents)] :
        /\ d.sort = "1D" => d.asked[2] = 1
        /\ d.sort \in {"1D", "1DArray", "2D"} => d.asked[3] = 1}

ObjectsInv == size \in [Buffers -> BufferSizes] /\ img \in [Images -> Descriptors]

FlagInv ==
    /\ canaryAccess \in [Threads -> BOOLEAN] /\ checking \subseteq Threads
    /\ \A t \in Threads : canaryAccess[t] <=> t \in checking

ApiInv == ObjectsInv /\ FlagInv

LEMMA InitApi == Init => ApiInv
  <1> SUFFICES ASSUME Init PROVE ApiInv OBVIOUS
  <1>1. ObjectsInv BY DEF Init, ObjectsInv, Descriptors
  <1>2. FlagInv BY DEF Init, FlagInv
  <1> QED BY <1>1, <1>2 DEF ApiInv

\* A step that is no begin or end of a check leaves all but its outcome.
LEMMA CallKeeps ==
    ASSUME NEW t \in Threads, BufferCall(t) \/ ImageCall(t)
    PROVE  UNCHANGED <<size, img, canaryAccess, checking>>
  <1>1. CASE BufferCall(t)
    BY <1>1 DEF BufferCall, MoveBuffer, MoveBufferRect, CopyBuffer, CopyBufferRect, Finish
  <1>2. CASE ImageCall(t)
    <2>1. \/ Refuse(t)
          \/ \E bad, touched : Finish(t, bad, touched)
      BY <1>2, Zenon DEF ImageCall, MoveImage, CopyImage, CopyImageBuffer
    <2> QED BY <2>1 DEF Refuse, Finish
  <1> QED BY <1>1, <1>2

LEMMA NextApi ==
    ASSUME ApiInv, [Next]_vars
    PROVE  ApiInv' /\ UNCHANGED <<size, img>>
  <1> USE DEF ApiInv
  <1>1. CASE Return
    BY <1>1 DEF Return, ObjectsInv, FlagInv
  <1>2. ASSUME NEW t \in Threads, BeginCheck(t) PROVE ApiInv' /\ UNCHANGED <<size, img>>
    BY <1>2 DEF BeginCheck, AllowCanaryAccess, ObjectsInv, FlagInv
  <1>3. ASSUME NEW t \in Threads, EndCheck(t) PROVE ApiInv' /\ UNCHANGED <<size, img>>
    BY <1>3 DEF EndCheck, DisallowCanaryAccess, ObjectsInv, FlagInv
  <1>4. ASSUME NEW t \in Threads, BufferCall(t) \/ ImageCall(t)
        PROVE  ApiInv' /\ UNCHANGED <<size, img>>
    <2>1. UNCHANGED <<size, img, canaryAccess, checking>> BY <1>4, CallKeeps
    <2> QED BY <2>1 DEF ObjectsInv, FlagInv
  <1>5. CASE UNCHANGED vars
    BY <1>5 DEF vars, ObjectsInv, FlagInv
  <1> QED BY <1>1, <1>2, <1>3, <1>4, <1>5 DEF Next

-----------------------------------------------------------------------------
(***************************************************************************)
(* Each check against what its call touches.                               *)
(***************************************************************************)

\* The linear check is exact but for a sum that wraps.
LEMMA LinearAlarm ==
    ASSUME ObjectsInv, NEW b \in Buffers, NEW offset \in Nat, NEW length \in Nat \ {0},
           offset + length > size[b]
    PROVE  \E e \in LinearBytes(b, offset, length) : ~Inside(e)
  <1>1. size[b] \in Nat BY ApiAssumption DEF ObjectsInv
  <1>2. <<b, offset + length - 1>> \in LinearBytes(b, offset, length) BY DEF LinearBytes, Bytes
  <1>3. ~Inside(<<b, offset + length - 1>>) BY <1>1 DEF Inside
  <1> QED BY <1>2, <1>3

LEMMA LinearQuiet ==
    ASSUME ObjectsInv, NEW b \in Buffers, NEW offset \in Nat, NEW length \in Nat \ {0},
           offset + length <= size[b]
    PROVE  \A e \in LinearBytes(b, offset, length) : Inside(e)
  <1>1. size[b] \in Nat BY ApiAssumption DEF ObjectsInv
  <1>2. SUFFICES ASSUME NEW n \in offset .. (offset + length - 1) PROVE Inside(<<b, n>>)
    BY DEF LinearBytes, Bytes
  <1> QED BY <1>1 DEF Inside

\* The box check: what it takes to be the end is no further than the end, whatever
\* wraps on the way.
LEMMA RectAlarm ==
    ASSUME ObjectsInv, NEW b \in Buffers, NEW o \in Triples(Nat), NEW r \in Triples(Nat \ {0}),
           NEW rowPitch \in Nat, NEW slicePitch \in Nat,
           LegalPitches(r, rowPitch, slicePitch), ApiRectOverflow(b, o, r, rowPitch, slicePitch)
    PROVE  \E e \in RectBytes(b, o, r, rowPitch, slicePitch) : ~Inside(e)
  <1> DEFINE row   == IF rowPitch = 0 THEN r[1] ELSE rowPitch
             slice == IF slicePitch = 0 THEN row * r[2] ELSE slicePitch
             taken == IF slicePitch = 0 THEN Wrap(row * r[2]) ELSE slicePitch
             start == o[1] + o[2] * row + o[3] * taken
             last  == (o[3] + (r[3] - 1)) * slice + (o[2] + (r[2] - 1)) * row + o[1] + (r[1] - 1)
  <1>1. /\ o[1] \in Nat /\ o[2] \in Nat /\ o[3] \in Nat
        /\ r[1] \in Nat \ {0} /\ r[2] \in Nat \ {0} /\ r[3] \in Nat \ {0}
    BY TripleOK
  <1>2. row \in Nat /\ row >= r[1] BY <1>1 DEF LegalPitches
  <1>3. row * r[2] \in Nat BY <1>1, <1>2, ProductOK
  <1>4. slice \in Nat /\ slice >= row * r[2] BY <1>2, <1>3 DEF LegalPitches
  <1>5. taken \in Nat /\ taken <= slice BY <1>3, WrapFacts
  <1>6. size[b] \in Nat BY ApiAssumption DEF ObjectsInv
  <1>7. Wrap(Wrap(start) + r[1] * r[2] * r[3]) > size[b] BY DEF ApiRectOverflow
  <1>8. <<b, last>> \in RectBytes(b, o, r, rowPitch, slicePitch) 
    <2>1. r[1] - 1 \in 0 .. (r[1] - 1) /\ r[2] - 1 \in 0 .. (r[2] - 1) /\ r[3] - 1 \in 0 .. (r[3] - 1)
      BY <1>1
    <2> QED BY <2>1 DEF RectBytes, Bytes
  <1> HIDE DEF row, slice, taken
  <1>9. o[3] * taken <= o[3] * slice /\ o[3] * taken \in Nat /\ o[2] * row \in Nat
    <2>1. taken * o[3] <= slice * o[3] BY <1>1, <1>4, <1>5, ProductMonotonic
    <2> QED BY <2>1, <1>1, <1>2, <1>4, <1>5, ProductOK
  <1>10. r[1] * r[2] * r[3] \in Nat /\ r[1] * r[2] \in Nat BY <1>1, ProductOK
  <1>11. start + r[1] * r[2] * r[3] > size[b]
    <2>1. start \in Nat BY <1>1, <1>9
    <2>2. Wrap(start) \in Nat /\ Wrap(start) <= start BY <2>1, WrapFacts
    <2>3. Wrap(start) + r[1] * r[2] * r[3] \in Nat BY <2>2, <1>10
    <2>4. Wrap(Wrap(start) + r[1] * r[2] * r[3]) <= Wrap(start) + r[1] * r[2] * r[3]
      BY <2>3, WrapFacts
    <2>5. Wrap(Wrap(start) + r[1] * r[2] * r[3]) \in Nat BY <2>3, WrapFacts
    <2> HIDE DEF start
    <2> QED BY <2>1, <2>2, <2>4, <2>5, <1>7, <1>10, <1>6
  <1>12. (r[3] - 1) * slice + (r[2] - 1) * row + r[1] >= r[1] * r[2] * r[3]
    BY <1>1, <1>2, <1>4, BoxEnd
  <1>13. last \in Int /\ last >= size[b]
    <2>1. (o[3] + (r[3] - 1)) * slice = o[3] * slice + (r[3] - 1) * slice BY <1>1, <1>4
    <2>2. (o[2] + (r[2] - 1)) * row = o[2] * row + (r[2] - 1) * row BY <1>1, <1>2
    <2>3. /\ o[3] * slice \in Int /\ (r[3] - 1) * slice \in Int
          /\ (r[2] - 1) * row \in Int
      BY <1>1, <1>2, <1>4
    <2> QED BY <2>1, <2>2, <2>3, <1>1, <1>6, <1>9, <1>10, <1>11, <1>12
  <1> HIDE DEF last
  <1>14. ~Inside(<<b, last>>) BY <1>6, <1>13 DEF Inside
  <1> QED BY <1>8, <1>14

\* A box with packed rows that ends inside is inside.
LEMMA RectQuiet ==
    ASSUME ObjectsInv, NEW b \in Buffers, NEW o \in Triples(Nat), NEW r \in Triples(Nat \ {0}),
           o[1] + o[2] * r[1] + o[3] * (r[1] * r[2]) + r[1] * r[2] * r[3] <= size[b]
    PROVE  \A e \in RectBytes(b, o, r, 0, 0) : Inside(e)
  <1>1. /\ o[1] \in Nat /\ o[2] \in Nat /\ o[3] \in Nat
        /\ r[1] \in Nat \ {0} /\ r[2] \in Nat \ {0} /\ r[3] \in Nat \ {0}
    BY TripleOK
  <1>2. size[b] \in Nat BY ApiAssumption DEF ObjectsInv
  <1> SUFFICES ASSUME NEW x \in 0 .. (r[1] - 1), NEW y \in 0 .. (r[2] - 1), NEW z \in 0 .. (r[3] - 1)
               PROVE  Inside(<<b, (o[3] + z) * (r[1] * r[2]) + (o[2] + y) * r[1] + o[1] + x>>)
    BY DEF RectBytes, Bytes
  <1> DEFINE n == (o[3] + z) * (r[1] * r[2]) + (o[2] + y) * r[1] + o[1] + x
  <1>3. z * (r[1] * r[2]) + y * r[1] + x < r[1] * r[2] * r[3] BY <1>1, BoxBound
  <1>4. r[1] * r[2] \in Nat /\ r[1] * r[2] * r[3] \in Nat BY <1>1, ProductOK
  <1>5. (o[3] + z) * (r[1] * r[2]) = o[3] * (r[1] * r[2]) + z * (r[1] * r[2]) BY <1>1, <1>4
  <1>6. (o[2] + y) * r[1] = o[2] * r[1] + y * r[1] BY <1>1
  <1>7. /\ o[3] * (r[1] * r[2]) \in Nat /\ z * (r[1] * r[2]) \in Nat
        /\ o[2] * r[1] \in Nat /\ y * r[1] \in Nat
    BY <1>1, <1>4, ProductOK
  <1>8. n \in 0 .. (size[b] - 1) BY <1>1, <1>2, <1>3, <1>4, <1>5, <1>6, <1>7
  <1> HIDE DEF n
  <1>9. Inside(<<b, n>>) BY <1>8 DEF Inside
  <1> QED BY <1>9 DEF n

\* Extents are of type size_t, and the canary is smaller than that.
SmallObjects ==
    /\ \A n \in Extents : n < Modulus
    /\ \A n \in 1 .. 3 : Poison[n] <= Modulus

LEMMA AskedOK ==
    ASSUME ObjectsInv, NEW i \in Images
    PROVE  /\ img[i] \in Descriptors
           /\ \A n \in 1 .. 3 : img[i].asked[n] \in Extents /\ img[i].asked[n] \in Nat \ {0}
           /\ img[i].bytes \in Nat \ {0}
  <1>1. img[i] \in Descriptors BY DEF ObjectsInv
  <1>2. img[i].asked \in Triples(Extents) /\ img[i].bytes \in DataSizes BY <1>1 DEF Descriptors
  <1>3. \A n \in 1 .. 3 : img[i].asked[n] \in Extents BY <1>2, TripleOK
  <1> QED BY <1>1, <1>2, <1>3, ApiAssumption

LEMMA PoisonOK == \A n \in 1 .. 3 : Poison[n] \in Nat /\ Poison[n] > 1
  <1>1. \A n \in 1 .. 3 : Poison[n] \in Nat BY ApiAssumption, TripleOK
  <1> QED BY <1>1, ApiAssumption

\* What is left of an extent without its canary, or of 1 when it has none.
LEMMA TakenOff ==
    ASSUME SmallObjects, NEW a \in Extents, a \in Nat \ {0}, NEW n \in 1 .. 3
    PROVE  /\ Wrap((a + Poison[n]) - Poison[n]) = a
           /\ Wrap(1 - Poison[n]) \in Nat /\ Wrap(1 - Poison[n]) >= 1
  <1>1. Poison[n] \in Nat /\ Poison[n] > 1 /\ Poison[n] <= Modulus BY PoisonOK DEF SmallObjects
  <1>2. (a + Poison[n]) - Poison[n] = a BY <1>1
  <1>3. a < Modulus /\ Modulus \in Nat \ {0} BY ApiAssumption DEF SmallObjects
  <1>4. Wrap(a) = a BY <1>3, WrapFacts
  <1>5. (1 - Poison[n]) % Modulus = (1 - Poison[n]) + Modulus
    <2> DEFINE m == (1 - Poison[n]) + Modulus
    <2>1. m \in Nat /\ m < Modulus /\ m >= 1 BY <1>1, <1>3
    <2> QED BY <2>1, <1>1, <1>3
  <1> QED BY <1>1, <1>2, <1>3, <1>4, <1>5 DEF Wrap

Limit(t, i, n) == IF canaryAccess[t] THEN Extent(i)[n] ELSE Wrap(Extent(i)[n] - Poison[n])

LEMMA ImageOverflowIs ==
    ASSUME NEW t, NEW i, NEW o, NEW r
    PROVE  ApiImageOverflow(t, i, o, r) <=> \E n \in 1 .. 3 : Wrap(o[n] + r[n]) > Limit(t, i, n)
  BY DEF ApiImageOverflow, Limit

LEMMA ExtentIs ==
    ASSUME ObjectsInv, NEW i \in Images, NEW n \in 1 .. 3
    PROVE  /\ \/ Extent(i)[n] = img[i].asked[n] + Poison[n]
              \/ Extent(i)[n] = 1 /\ img[i].asked[n] = 1
           /\ img[i].sort \in {"2DArray", "3D"} => Extent(i)[n] = img[i].asked[n] + Poison[n]
           /\ Extent(i)[n] \in Nat
  <1>1. img[i] \in Descriptors /\ img[i].asked[n] \in Nat BY AskedOK
  <1>2. Poison[n] \in Nat BY PoisonOK
  <1>3. img[i].sort \in AllSorts BY <1>1, ApiAssumption DEF Descriptors
  <1>4. CASE n = 1 BY <1>1, <1>2, <1>4 DEF Extent
  <1>5. CASE n = 2 BY <1>1, <1>2, <1>5 DEF Extent, Descriptors
  <1>6. CASE n = 3 BY <1>1, <1>2, <1>3, <1>6 DEF Extent, Descriptors, AllSorts
  <1> QED BY <1>4, <1>5, <1>6

\* Without the canary no limit is below what was asked for.
LEMMA LimitIs ==
    ASSUME ApiInv, SmallObjects, NEW t \in Threads, NEW i \in Images, NEW n \in 1 .. 3
    PROVE  /\ Limit(t, i, n) \in Nat
           /\ t \in checking => Limit(t, i, n) = Extent(i)[n]
           /\ t \notin checking => Limit(t, i, n) >= img[i].asked[n]
           /\ t \notin checking /\ img[i].sort \in {"2DArray", "3D"} => Limit(t, i, n) = img[i].asked[n]
  <1> DEFINE a == img[i].asked[n]
  <1>1. a \in Extents /\ a \in Nat \ {0} BY AskedOK DEF ApiInv
  <1>2. Wrap((a + Poison[n]) - Poison[n]) = a /\ Wrap(1 - Poison[n]) \in Nat /\ Wrap(1 - Poison[n]) >= 1
    BY <1>1, TakenOff
  <1>3. /\ \/ Extent(i)[n] = a + Poison[n]
           \/ Extent(i)[n] = 1 /\ a = 1
        /\ img[i].sort \in {"2DArray", "3D"} => Extent(i)[n] = a + Poison[n]
        /\ Extent(i)[n] \in Nat
    BY ExtentIs DEF ApiInv
  <1>4. canaryAccess[t] <=> t \in checking BY DEF ApiInv, FlagInv
  <1> HIDE DEF a
  <1>5. CASE t \in checking BY <1>3, <1>4, <1>5 DEF Limit
  <1>6. CASE t \notin checking
    <2>1. Limit(t, i, n) = Wrap(Extent(i)[n] - Poison[n]) BY <1>4, <1>6 DEF Limit
    <2>2. Limit(t, i, n) = a \/ (Limit(t, i, n) = Wrap(1 - Poison[n]) /\ a = 1)
      BY <2>1, <1>2, <1>3
    <2>3. img[i].sort \in {"2DArray", "3D"} => Limit(t, i, n) = a BY <2>1, <1>2, <1>3
    <2>4. Limit(t, i, n) \in Nat /\ Limit(t, i, n) >= a BY <2>2, <1>1, <1>2
    <2> QED BY <2>3, <2>4, <1>6 DEF a
  <1> QED BY <1>5, <1>6

\* The image check of an application's call.
LEMMA ImageAlarm ==
    ASSUME ApiInv, SmallObjects, NEW t \in Threads, t \notin checking, NEW i \in Images,
           NEW o \in Triples(Nat), NEW r \in Triples(Nat \ {0}), ApiImageOverflow(t, i, o, r)
    PROVE  \E e \in Pixels(i, o, r) : ~Inside(e)
  <1>1. PICK n \in 1 .. 3 : Wrap(o[n] + r[n]) > Limit(t, i, n) BY ImageOverflowIs
  <1>2. \A m \in 1 .. 3 : o[m] \in Nat /\ r[m] \in Nat \ {0} BY TripleOK
  <1>3. Limit(t, i, n) \in Nat /\ Limit(t, i, n) >= img[i].asked[n] BY LimitIs
  <1>4. img[i].asked[n] \in Nat BY AskedOK DEF ApiInv
  <1>5. Wrap(o[n] + r[n]) \in Nat /\ Wrap(o[n] + r[n]) <= o[n] + r[n] BY <1>2, WrapFacts
  <1>6. o[n] + r[n] > img[i].asked[n] BY <1>1, <1>2, <1>3, <1>4, <1>5
  <1> DEFINE corner == <<o[1] + (r[1] - 1), o[2] + (r[2] - 1), o[3] + (r[3] - 1)>>
  <1>7. <<i, corner>> \in Pixels(i, o, r)
    <2>1. r[1] - 1 \in 0 .. (r[1] - 1) /\ r[2] - 1 \in 0 .. (r[2] - 1) /\ r[3] - 1 \in 0 .. (r[3] - 1)
      BY <1>2
    <2> QED BY <2>1 DEF Pixels
  <1>8. corner[n] = o[n] + (r[n] - 1) OBVIOUS
  <1> HIDE DEF corner
  <1>9. ~(corner[n] < img[i].asked[n]) BY <1>2, <1>4, <1>6, <1>8
  <1>10. i \notin Buffers BY ApiAssumption
  <1>11. ~Inside(<<i, corner>>) BY <1>9, <1>10 DEF Inside
  <1> QED BY <1>7, <1>11

\* The image check lets a check of the detector at the canary.
LEMMA CanaryQuiet ==
    ASSUME ApiInv, SmallObjects, NEW t \in Threads, t \in checking, NEW i \in Images,
           NEW o \in Triples(Nat), NEW r \in Triples(Nat \ {0}), CanaryBox(i, o, r)
    PROVE  ~ApiImageOverflow(t, i, o, r)
  <1> SUFFICES ASSUME NEW n \in 1 .. 3, Wrap(o[n] + r[n]) > Limit(t, i, n) PROVE FALSE
    BY ImageOverflowIs
  <1>1. o[n] \in Nat /\ r[n] \in Nat BY TripleOK
  <1>2. Wrap(o[n] + r[n]) \in Nat /\ Wrap(o[n] + r[n]) <= o[n] + r[n] BY <1>1, WrapFacts
  <1>3. Limit(t, i, n) = Extent(i)[n] /\ Limit(t, i, n) \in Nat BY LimitIs
  <1>4. o[n] + r[n] <= Extent(i)[n] BY DEF CanaryBox
  <1> QED BY <1>1, <1>2, <1>3, <1>4

\* A box of pixels the image check passes is inside, if it has all dimensions.
LEMMA ImageQuiet ==
    ASSUME ApiInv, SmallObjects, NEW t \in Threads, t \notin checking, NEW i \in Images,
           img[i].sort \in {"2DArray", "3D"},
           NEW o \in Triples(Nat), NEW r \in Triples(Nat \ {0}),
           \A n \in 1 .. 3 : o[n] + r[n] < Modulus,
           ~ApiImageOverflow(t, i, o, r)
    PROVE  \A e \in Pixels(i, o, r) : Inside(e)
  <1>1. \A n \in 1 .. 3 : o[n] \in Nat /\ r[n] \in Nat \ {0} BY TripleOK
  <1>2. \A n \in 1 .. 3 : o[n] + r[n] <= img[i].asked[n] /\ img[i].asked[n] \in Nat
    <2> SUFFICES ASSUME NEW n \in 1 .. 3
                 PROVE  o[n] + r[n] <= img[i].asked[n] /\ img[i].asked[n] \in Nat
      OBVIOUS
    <2>1. Wrap(o[n] + r[n]) = o[n] + r[n] BY <1>1, WrapFacts
    <2>2. Limit(t, i, n) = img[i].asked[n] /\ Limit(t, i, n) \in Nat BY LimitIs
    <2>3. ~(Wrap(o[n] + r[n]) > Limit(t, i, n)) BY ImageOverflowIs
    <2> QED BY <1>1, <2>1, <2>2, <2>3
  <1> SUFFICES ASSUME NEW x \in 0 .. (r[1] - 1), NEW y \in 0 .. (r[2] - 1), NEW z \in 0 .. (r[3] - 1)
               PROVE  Inside(<<i, <<o[1] + x, o[2] + y, o[3] + z>>>>)
    BY DEF Pixels
  <1> DEFINE pixel == <<o[1] + x, o[2] + y, o[3] + z>>
  <1>3. pixel[1] < img[i].asked[1] BY <1>1, <1>2
  <1>4. pixel[2] < img[i].asked[2] BY <1>1, <1>2
  <1>5. pixel[3] < img[i].asked[3] BY <1>1, <1>2
  <1> HIDE DEF pixel
  <1>6. i \notin Buffers BY ApiAssumption
  <1>7. Inside(<<i, pixel>>) BY <1>3, <1>4, <1>5, <1>6 DEF Inside
  <1> QED BY <1>7 DEF pixel

-----------------------------------------------------------------------------
(***************************************************************************)
(* No false alarm.                                                         *)
(***************************************************************************)

LEMMA ArgumentsOK ==
    /\ \A o \in Triples(Origins) : o \in Triples(Nat)
    /\ \A r \in Triples(Regions) : r \in Triples(Nat \ {0})
    /\ \A n \in Offsets : n \in Nat
    /\ \A n \in Lengths : n \in Nat \ {0}
    /\ \A n \in RowPitches : n \in Nat
    /\ \A n \in SlicePitches : n \in Nat
  BY ApiAssumption DEF Triples

LEMMA BufferAlarm ==
    ASSUME ObjectsInv, NEW b \in Buffers, NEW offset \in Nat, NEW length \in Nat \ {0},
           ApiBufferOverflow(b, offset, length)
    PROVE  \E e \in LinearBytes(b, offset, length) : ~Inside(e)
  <1>1. size[b] \in Nat BY ApiAssumption DEF ObjectsInv
  <1>2. Wrap(offset + length) \in Nat /\ Wrap(offset + length) <= offset + length BY WrapFacts
  <1>3. offset + length > size[b] BY <1>1, <1>2 DEF ApiBufferOverflow
  <1> QED BY <1>3, LinearAlarm

\* The buffer side of a copy from or to an image, whatever the pitches.
LEMMA ImageBufferAlarm ==
    ASSUME ObjectsInv, NEW b \in Buffers, NEW offset \in Nat, NEW r \in Triples(Nat \ {0}),
           NEW rowPitch \in Nat, NEW slicePitch \in Nat, NEW bytes \in Nat \ {0},
           ApiRectOverflow(b, <<offset, 0, 0>>, r, rowPitch, slicePitch)
    PROVE  \E e \in LinearBytes(b, offset, r[1] * r[2] * r[3] * bytes) : ~Inside(e)
  <1>1. r[1] \in Nat \ {0} /\ r[2] \in Nat \ {0} /\ r[3] \in Nat \ {0} BY TripleOK
  <1>2. size[b] \in Nat BY ApiAssumption DEF ObjectsInv
  <1> DEFINE box   == r[1] * r[2] * r[3]
             row   == IF rowPitch = 0 THEN r[1] ELSE rowPitch
             slice == IF slicePitch = 0 THEN Wrap(row * r[2]) ELSE slicePitch
  <1>3. box \in Nat \ {0} BY <1>1, PositiveProduct
  <1>0. row \in Nat /\ slice \in Nat BY <1>1, ProductOK, WrapFacts
  <1>4. Wrap(Wrap(offset + 0 * row + 0 * slice) + box) > size[b] BY DEF ApiRectOverflow
  <1> HIDE DEF box, row, slice
  <1>5. offset + 0 * row + 0 * slice = offset BY <1>0
  <1>6. Wrap(offset) \in Nat /\ Wrap(offset) <= offset BY WrapFacts
  <1>7. Wrap(Wrap(offset) + box) \in Nat /\ Wrap(Wrap(offset) + box) <= Wrap(offset) + box
    BY <1>3, <1>6, WrapFacts
  <1>8. box * bytes \in Nat \ {0} /\ box <= box * bytes
    <2>1. 1 * box <= bytes * box BY <1>3, ProductMonotonic
    <2> QED BY <2>1, <1>3, PositiveProduct
  <1>9. offset + box * bytes > size[b] BY <1>2, <1>3, <1>4, <1>5, <1>6, <1>7, <1>8
  <1>10. \E e \in LinearBytes(b, offset, box * bytes) : ~Inside(e) BY <1>8, <1>9, LinearAlarm
  <1> QED BY <1>10 DEF box

LEMMA OverflowsAreBoolean ==
    /\ \A b, o, n : ApiBufferOverflow(b, o, n) \in BOOLEAN
    /\ \A b, o, r, row, slice : ApiRectOverflow(b, o, r, row, slice) \in BOOLEAN
    /\ \A t, i, o, r : ApiImageOverflow(t, i, o, r) \in BOOLEAN
  <1>1. \A b, o, n : ApiBufferOverflow(b, o, n) \in BOOLEAN BY DEF ApiBufferOverflow
  <1>2. \A b, o, r, row, slice : ApiRectOverflow(b, o, r, row, slice) \in BOOLEAN
    BY DEF ApiRectOverflow
  <1>3. \A t, i, o, r : ApiImageOverflow(t, i, o, r) \in BOOLEAN BY DEF ApiImageOverflow
  <1> QED BY <1>1, <1>2, <1>3

\* A wrapper that reports only what is outside, and nothing for the detector.
LEMMA FinishAlarm ==
    ASSUME NEW t, NEW bad \in BOOLEAN, NEW touched, Finish(t, bad, touched),
           bad => t \notin checking /\ \E e \in touched : ~Inside(e)
    PROVE  NoFalseAlarm'
  <1>1. done' = [by |-> IF t \in checking THEN "detector" ELSE "app",
                 ran |-> ~bad, reported |-> bad, touched |-> touched]
    BY DEF Finish
  <1>2. \A e : Inside(e)' <=> Inside(e) BY DEF Finish, Inside
  <1>3. done'.reported = bad /\ done'.touched = touched BY <1>1
  <1>4. t \notin checking => done'.by = "app" BY <1>1
  <1> QED BY <1>2, <1>3, <1>4 DEF NoFalseAlarm

LEMMA BufferCallAlarm ==
    ASSUME ApiInv, NEW t \in Threads, BufferCall(t)
    PROVE  NoFalseAlarm'
  <1> USE ArgumentsOK, OverflowsAreBoolean DEF ApiInv
  <1>0. t \notin checking BY DEF BufferCall
  <1>1. ASSUME NEW b \in Buffers, NEW o \in Offsets, NEW n \in Lengths, MoveBuffer(t, b, o, n)
        PROVE  NoFalseAlarm'
    <2>1. ApiBufferOverflow(b, o, n) => \E e \in LinearBytes(b, o, n) : ~Inside(e) BY BufferAlarm
    <2> QED BY <1>0, <1>1, <2>1, FinishAlarm DEF MoveBuffer
  <1>2. ASSUME NEW a \in Buffers, NEW b \in Buffers, NEW o \in Offsets, NEW p \in Offsets,
               NEW n \in Lengths, CopyBuffer(t, a, b, o, p, n)
        PROVE  NoFalseAlarm'
    <2>1. ApiBufferOverflow(a, o, n) => \E e \in LinearBytes(a, o, n) : ~Inside(e) BY BufferAlarm
    <2>2. ApiBufferOverflow(b, p, n) => \E e \in LinearBytes(b, p, n) : ~Inside(e) BY BufferAlarm
    <2>3. (ApiBufferOverflow(a, o, n) \/ ApiBufferOverflow(b, p, n)) \in BOOLEAN OBVIOUS
    <2>4. (ApiBufferOverflow(a, o, n) \/ ApiBufferOverflow(b, p, n))
             => \E e \in LinearBytes(a, o, n) \cup LinearBytes(b, p, n) : ~Inside(e)
      BY <2>1, <2>2
    <2> QED BY <1>0, <1>2, <2>3, <2>4, FinishAlarm DEF CopyBuffer
  <1>3. ASSUME NEW b \in Buffers, NEW o \in Triples(Origins), NEW r \in Triples(Regions),
               NEW row \in RowPitches, NEW slice \in SlicePitches,
               MoveBufferRect(t, b, o, r, row, slice)
        PROVE  NoFalseAlarm'
    <2>1. ApiRectOverflow(b, o, r, row, slice) => \E e \in RectBytes(b, o, r, row, slice) : ~Inside(e)
      BY <1>3, RectAlarm DEF MoveBufferRect
    <2> QED BY <1>0, <1>3, <2>1, FinishAlarm DEF MoveBufferRect
  <1>4. ASSUME NEW a \in Buffers, NEW b \in Buffers, NEW o \in Triples(Origins),
               NEW p \in Triples(Origins), NEW r \in Triples(Regions),
               NEW pa \in RowPitches \X SlicePitches, NEW pb \in RowPitches \X SlicePitches,
               CopyBufferRect(t, a, b, o, p, r, pa, pb)
        PROVE  NoFalseAlarm'
    <2>0. pa[1] \in Nat /\ pa[2] \in Nat /\ pb[1] \in Nat /\ pb[2] \in Nat OBVIOUS
    <2> DEFINE A == ApiRectOverflow(a, o, r, pa[1], pa[2])
               B == ApiRectOverflow(b, p, r, pb[1], pb[2])
               TA == RectBytes(a, o, r, pa[1], pa[2])
               TB == RectBytes(b, p, r, pb[1], pb[2])
    <2>1. A => \E e \in TA : ~Inside(e) BY <1>4, <2>0, RectAlarm DEF CopyBufferRect
    <2>2. B => \E e \in TB : ~Inside(e) BY <1>4, <2>0, RectAlarm DEF CopyBufferRect
    <2>3. Finish(t, A \/ B, TA \cup TB) BY <1>4 DEF CopyBufferRect
    <2>4. (A \/ B) \in BOOLEAN OBVIOUS
    <2> HIDE DEF A, B, TA, TB
    <2>5. (A \/ B) => \E e \in TA \cup TB : ~Inside(e) BY <2>1, <2>2
    <2> QED BY <1>0, <2>3, <2>4, <2>5, FinishAlarm
  <1> QED BY <1>1, <1>2, <1>3, <1>4 DEF BufferCall

LEMMA ImageCallAlarm ==
    ASSUME ApiInv, SmallObjects, NEW t \in Threads, ImageCall(t)
    PROVE  NoFalseAlarm'
  <1> USE ArgumentsOK, OverflowsAreBoolean
  <1>1. CASE Refuse(t)
    BY <1>1 DEF Refuse, NoCall, NoFalseAlarm
  <1>2. ASSUME NEW i \in Images, NEW o \in Triples(Origins), NEW r \in Triples(Regions),
               t \in checking => CanaryBox(i, o, r), MoveImage(t, i, o, r)
        PROVE  NoFalseAlarm'
    <2>1. ApiImageOverflow(t, i, o, r) => t \notin checking BY <1>2, CanaryQuiet
    <2>2. ApiImageOverflow(t, i, o, r) => \E e \in Pixels(i, o, r) : ~Inside(e) BY <2>1, ImageAlarm
    <2> QED BY <1>2, <2>1, <2>2, FinishAlarm DEF MoveImage
  <1>3. ASSUME NEW i \in Images, NEW j \in Images, NEW o \in Triples(Origins),
               NEW p \in Triples(Origins), NEW r \in Triples(Regions),
               t \notin checking, CopyImage(t, i, j, o, p, r)
        PROVE  NoFalseAlarm'
    <2> DEFINE A == ApiImageOverflow(t, i, o, r)
               B == ApiImageOverflow(t, j, p, r)
    <2>1. A => \E e \in Pixels(i, o, r) : ~Inside(e) BY <1>3, ImageAlarm
    <2>2. B => \E e \in Pixels(j, p, r) : ~Inside(e) BY <1>3, ImageAlarm
    <2>3. Finish(t, A \/ B, Pixels(i, o, r) \cup Pixels(j, p, r)) BY <1>3 DEF CopyImage
    <2>4. (A \/ B) \in BOOLEAN OBVIOUS
    <2> HIDE DEF A, B
    <2>5. (A \/ B) => \E e \in Pixels(i, o, r) \cup Pixels(j, p, r) : ~Inside(e) BY <2>1, <2>2
    <2> QED BY <1>3, <2>3, <2>4, <2>5, FinishAlarm
  <1>4. ASSUME NEW i \in Images, NEW b \in Buffers, NEW o \in Triples(Origins),
               NEW r \in Triples(Regions), NEW n \in Offsets,
               t \notin checking, CopyImageBuffer(t, i, b, o, r, n)
        PROVE  NoFalseAlarm'
    <2> DEFINE row   == Wrap(r[1] * img[i].bytes)
               slice == Wrap(r[2] * row)
               A == ApiImageOverflow(t, i, o, r)
               B == ApiRectOverflow(b, <<n, 0, 0>>, r, row, slice)
               TB == LinearBytes(b, n, r[1] * r[2] * r[3] * img[i].bytes)
    <2>0. img[i].bytes \in Nat \ {0} /\ ObjectsInv BY AskedOK DEF ApiInv
    <2>1. r[1] \in Nat /\ r[2] \in Nat BY TripleOK
    <2>2. row \in Nat BY <2>0, <2>1, ProductOK, WrapFacts
    <2>3. slice \in Nat BY <2>1, <2>2, ProductOK, WrapFacts
    <2>4. A => \E e \in Pixels(i, o, r) : ~Inside(e) BY <1>4, ImageAlarm
    <2>5. Finish(t, A \/ B, Pixels(i, o, r) \cup TB) BY <1>4 DEF CopyImageBuffer
    <2>6. (A \/ B) \in BOOLEAN OBVIOUS
    <2> HIDE DEF row, slice
    <2>7. B => \E e \in TB : ~Inside(e) BY <2>0, <2>2, <2>3, ImageBufferAlarm
    <2> HIDE DEF A, B, TB
    <2>8. (A \/ B) => \E e \in Pixels(i, o, r) \cup TB : ~Inside(e) BY <2>4, <2>7
    <2> QED BY <1>4, <2>5, <2>6, <2>8, FinishAlarm
  <1> QED BY <1>1, <1>2, <1>3, <1>4 DEF ImageCall

LEMMA NextAlarm ==
    ASSUME ApiInv, SmallObjects, NoFalseAlarm, [Next]_vars
    PROVE  NoFalseAlarm'
  <1>1. CASE Return
    BY <1>1 DEF Return, NoCall, NoFalseAlarm
  <1>2. ASSUME NEW t \in Threads, BeginCheck(t) \/ EndCheck(t) PROVE NoFalseAlarm'
    BY <1>2 DEF BeginCheck, EndCheck, NoFalseAlarm, Inside
  <1>3. ASSUME NEW t \in Threads, BufferCall(t) PROVE NoFalseAlarm' BY <1>3, BufferCallAlarm
  <1>4. ASSUME NEW t \in Threads, ImageCall(t) PROVE NoFalseAlarm' BY <1>4, ImageCallAlarm
  <1>5. CASE UNCHANGED vars
    BY <1>5 DEF vars, NoFalseAlarm, Inside
  <1> QED BY <1>1, <1>2, <1>3, <1>4, <1>5 DEF Next

\* A call that a wrapper of the data movement calls reports and skips is one of the
\* application's and would have gone outside, for every sort of image, every pixel
\* size and all legal pitches, and even where the arithmetic of the check wraps:
\* no check of the detector itself is ever refused the canary.
THEOREM AlarmsAreTrue ==
    SmallObjects => (Spec => []NoFalseAlarm)
  <1> SUFFICES ASSUME SmallObjects PROVE Spec => []NoFalseAlarm OBVIOUS
  <1>1. Init => ApiInv /\ NoFalseAlarm
    BY InitApi DEF Init, NoCall, NoFalseAlarm
  <1>2. ApiInv /\ NoFalseAlarm /\ [Next]_vars => (ApiInv /\ NoFalseAlarm)'
    BY NextApi, NextAlarm
  <1> QED BY <1>1, <1>2, PTL DEF Spec

-----------------------------------------------------------------------------
(***************************************************************************)
(* Nothing outside.                                                        *)
(***************************************************************************)

\* No end of a range, a box or a box of pixels is beyond what a size_t holds.
NothingWraps ==
    /\ \A o \in Offsets, n \in Lengths : o + n < Modulus
    /\ \A o \in Offsets, r \in Triples(Regions) : o + r[1] * r[2] * r[3] < Modulus
    /\ \A o \in Triples(Origins), r \in Triples(Regions) :
          o[1] + o[2] * r[1] + o[3] * (r[1] * r[2]) + r[1] * r[2] * r[3] < Modulus
    /\ \A o \in Origins, n \in Regions : o + n < Modulus

\* What the checks can tell: boxes with packed rows, pixels of one byte, and
\* images with a canary in all three dimensions.
Tellable ==
    /\ RowPitches \subseteq {0} /\ SlicePitches \subseteq {0}
    /\ DataSizes \subseteq {1}
    /\ Sorts \subseteq {"2DArray", "3D"}

\* A wrapper that passes only what is inside.
LEMMA FinishInside ==
    ASSUME NEW t, NEW bad \in BOOLEAN, NEW touched, Finish(t, bad, touched),
           t \notin checking /\ ~bad => \A e \in touched : Inside(e)
    PROVE  NothingOutside'
  <1>1. done' = [by |-> IF t \in checking THEN "detector" ELSE "app",
                 ran |-> ~bad, reported |-> bad, touched |-> touched]
    BY DEF Finish
  <1>2. \A e : Inside(e)' <=> Inside(e) BY DEF Finish, Inside
  <1>3. done'.ran = ~bad /\ done'.touched = touched BY <1>1
  <1>4. done'.by = "app" => t \notin checking BY <1>1
  <1> QED BY <1>2, <1>3, <1>4 DEF NothingOutside

LEMMA BufferInside ==
    ASSUME ObjectsInv, NothingWraps, NEW b \in Buffers, NEW o \in Offsets, NEW n \in Lengths,
           ~ApiBufferOverflow(b, o, n)
    PROVE  \A e \in LinearBytes(b, o, n) : Inside(e)
  <1>1. o \in Nat /\ n \in Nat \ {0} BY ArgumentsOK
  <1>2. size[b] \in Nat BY ApiAssumption DEF ObjectsInv
  <1>3. Wrap(o + n) = o + n BY <1>1, WrapFacts DEF NothingWraps
  <1>4. o + n <= size[b] BY <1>1, <1>2, <1>3 DEF ApiBufferOverflow
  <1> QED BY <1>1, <1>4, LinearQuiet

LEMMA RectInside ==
    ASSUME ObjectsInv, NothingWraps, NEW b \in Buffers,
           NEW o \in Triples(Origins), NEW r \in Triples(Regions),
           ~ApiRectOverflow(b, o, r, 0, 0)
    PROVE  \A e \in RectBytes(b, o, r, 0, 0) : Inside(e)
  <1>0. o \in Triples(Nat) /\ r \in Triples(Nat \ {0}) BY ArgumentsOK
  <1>1. /\ o[1] \in Nat /\ o[2] \in Nat /\ o[3] \in Nat
        /\ r[1] \in Nat \ {0} /\ r[2] \in Nat \ {0} /\ r[3] \in Nat \ {0}
    BY <1>0, TripleOK
  <1>2. size[b] \in Nat BY ApiAssumption DEF ObjectsInv
  <1> DEFINE layer == r[1] * r[2]
             box   == r[1] * r[2] * r[3]
             start == o[1] + o[2] * r[1] + o[3] * layer
  <1>3. layer \in Nat \ {0} /\ box \in Nat \ {0} BY <1>1, PositiveProduct
  <1>4. layer <= box
    <2>1. 1 * layer <= r[3] * layer BY <1>1, <1>3, ProductMonotonic
    <2>2. r[3] * layer = box BY <1>1
    <2> HIDE DEF layer, box
    <2> QED BY <2>1, <2>2, <1>1, <1>3
  <1>5. start \in Nat
    <2>1. o[2] * r[1] \in Nat BY <1>1, ProductOK
    <2>2. o[3] * layer \in Nat BY <1>1, <1>3, ProductOK
    <2> QED BY <2>1, <2>2, <1>1
  <1>6. start + box < Modulus BY DEF NothingWraps
  <1>7. ~(Wrap(Wrap(o[1] + o[2] * r[1] + o[3] * Wrap(layer)) + box) > size[b])
    BY DEF ApiRectOverflow
  <1>8. Modulus \in Nat BY ApiAssumption
  <1>9. Wrap(layer) = layer
    <2>1. layer < Modulus
      <3> HIDE DEF layer, box, start
      <3> QED BY <1>3, <1>4, <1>5, <1>6, <1>8
    <2> HIDE DEF layer
    <2> QED BY <2>1, <1>3, WrapFacts
  <1>10. ~(Wrap(Wrap(start) + box) > size[b]) BY <1>7, <1>9
  <1>11. start + box <= size[b]
    <2> HIDE DEF box, start
    <2>1. Wrap(start) = start BY <1>3, <1>5, <1>6, <1>8, WrapFacts
    <2>2. Wrap(start + box) = start + box BY <1>3, <1>5, <1>6, WrapFacts
    <2> QED BY <2>1, <2>2, <1>2, <1>3, <1>5, <1>10
  <1> QED BY <1>0, <1>11, RectQuiet

LEMMA ImageInside ==
    ASSUME ApiInv, SmallObjects, NothingWraps, Tellable, NEW t \in Threads, t \notin checking,
           NEW i \in Images, NEW o \in Triples(Origins), NEW r \in Triples(Regions),
           ~ApiImageOverflow(t, i, o, r)
    PROVE  \A e \in Pixels(i, o, r) : Inside(e)
  <1>1. o \in Triples(Nat) /\ r \in Triples(Nat \ {0}) BY ArgumentsOK
  <1>2. img[i].sort \in {"2DArray", "3D"}
    <2>1. img[i] \in Descriptors BY AskedOK DEF ApiInv
    <2> QED BY <2>1 DEF Descriptors, Tellable
  <1>3. \A n \in 1 .. 3 : o[n] + r[n] < Modulus
    <2>1. \A n \in 1 .. 3 : o[n] \in Origins /\ r[n] \in Regions BY TripleOK
    <2> QED BY <2>1 DEF NothingWraps
  <1> QED BY <1>1, <1>2, <1>3, ImageQuiet

LEMMA ImageBufferInside ==
    ASSUME ApiInv, NothingWraps, Tellable, NEW i \in Images, NEW b \in Buffers,
           NEW r \in Triples(Regions), NEW n \in Offsets,
           NEW rowPitch \in Nat, NEW slicePitch \in Nat,
           ~ApiRectOverflow(b, <<n, 0, 0>>, r, rowPitch, slicePitch)
    PROVE  \A e \in LinearBytes(b, n, r[1] * r[2] * r[3] * img[i].bytes) : Inside(e)
  <1>0. r \in Triples(Nat \ {0}) /\ n \in Nat BY ArgumentsOK
  <1>1. r[1] \in Nat \ {0} /\ r[2] \in Nat \ {0} /\ r[3] \in Nat \ {0} BY <1>0, TripleOK
  <1>2. size[b] \in Nat BY ApiAssumption DEF ObjectsInv, ApiInv
  <1>3. img[i].bytes = 1
    <2>1. img[i] \in Descriptors BY AskedOK DEF ApiInv
    <2> QED BY <2>1 DEF Descriptors, Tellable
  <1> DEFINE box   == r[1] * r[2] * r[3]
             row   == IF rowPitch = 0 THEN r[1] ELSE rowPitch
             slice == IF slicePitch = 0 THEN Wrap(row * r[2]) ELSE slicePitch
  <1>4. box \in Nat \ {0} BY <1>1, PositiveProduct
  <1>5. row \in Nat /\ slice \in Nat BY <1>1, ProductOK, WrapFacts
  <1>6. ~(Wrap(Wrap(n + 0 * row + 0 * slice) + box) > size[b]) BY DEF ApiRectOverflow
  <1>7. n + box < Modulus /\ Modulus \in Nat BY ApiAssumption DEF NothingWraps
  <1> HIDE DEF box, row, slice
  <1>8. n + 0 * row + 0 * slice = n BY <1>0, <1>5
  <1>9. Wrap(n) = n /\ Wrap(n + box) = n + box BY <1>0, <1>4, <1>7, WrapFacts
  <1>10. n + box <= size[b] BY <1>0, <1>2, <1>4, <1>6, <1>8, <1>9
  <1>11. \A e \in LinearBytes(b, n, box) : Inside(e) BY <1>0, <1>4, <1>10, LinearQuiet DEF ApiInv
  <1>12. box * img[i].bytes = box BY <1>3, <1>4
  <1> QED BY <1>11, <1>12 DEF box

LEMMA BufferCallInside ==
    ASSUME ApiInv, NothingWraps, Tellable, NEW t \in Threads, BufferCall(t)
    PROVE  NothingOutside'
  <1> USE OverflowsAreBoolean DEF ApiInv
  <1>1. ASSUME NEW b \in Buffers, NEW o \in Offsets, NEW n \in Lengths, MoveBuffer(t, b, o, n)
        PROVE  NothingOutside'
    <2>1. ~ApiBufferOverflow(b, o, n) => \A e \in LinearBytes(b, o, n) : Inside(e) BY BufferInside
    <2> QED BY <1>1, <2>1, FinishInside DEF MoveBuffer
  <1>2. ASSUME NEW a \in Buffers, NEW b \in Buffers, NEW o \in Offsets, NEW p \in Offsets,
               NEW n \in Lengths, CopyBuffer(t, a, b, o, p, n)
        PROVE  NothingOutside'
    <2> DEFINE A == ApiBufferOverflow(a, o, n)
               B == ApiBufferOverflow(b, p, n)
               TA == LinearBytes(a, o, n)
               TB == LinearBytes(b, p, n)
    <2>1. ~A => \A e \in TA : Inside(e) BY BufferInside
    <2>2. ~B => \A e \in TB : Inside(e) BY BufferInside
    <2>3. Finish(t, A \/ B, TA \cup TB) BY <1>2 DEF CopyBuffer
    <2>4. (A \/ B) \in BOOLEAN OBVIOUS
    <2> HIDE DEF A, B, TA, TB
    <2>5. ~(A \/ B) => \A e \in TA \cup TB : Inside(e) BY <2>1, <2>2
    <2> QED BY <2>3, <2>4, <2>5, FinishInside
  <1>3. ASSUME NEW b \in Buffers, NEW o \in Triples(Origins), NEW r \in Triples(Regions),
               NEW row \in RowPitches, NEW slice \in SlicePitches,
               MoveBufferRect(t, b, o, r, row, slice)
        PROVE  NothingOutside'
    <2>1. row = 0 /\ slice = 0 BY DEF Tellable
    <2>2. Finish(t, ApiRectOverflow(b, o, r, 0, 0), RectBytes(b, o, r, 0, 0))
      BY <1>3, <2>1 DEF MoveBufferRect
    <2>3. ~ApiRectOverflow(b, o, r, 0, 0) => \A e \in RectBytes(b, o, r, 0, 0) : Inside(e)
      BY RectInside
    <2> QED BY <2>2, <2>3, FinishInside
  <1>4. ASSUME NEW a \in Buffers, NEW b \in Buffers, NEW o \in Triples(Origins),
               NEW p \in Triples(Origins), NEW r \in Triples(Regions),
               NEW pa \in RowPitches \X SlicePitches, NEW pb \in RowPitches \X SlicePitches,
               CopyBufferRect(t, a, b, o, p, r, pa, pb)
        PROVE  NothingOutside'
    <2>0. pa[1] = 0 /\ pa[2] = 0 /\ pb[1] = 0 /\ pb[2] = 0 BY DEF Tellable
    <2> DEFINE A == ApiRectOverflow(a, o, r, 0, 0)
               B == ApiRectOverflow(b, p, r, 0, 0)
               TA == RectBytes(a, o, r, 0, 0)
               TB == RectBytes(b, p, r, 0, 0)
    <2>1. ~A => \A e \in TA : Inside(e) BY RectInside
    <2>2. ~B => \A e \in TB : Inside(e) BY RectInside
    <2>3. Finish(t, A \/ B, TA \cup TB) BY <1>4, <2>0 DEF CopyBufferRect
    <2>4. (A \/ B) \in BOOLEAN OBVIOUS
    <2> HIDE DEF A, B, TA, TB
    <2>5. ~(A \/ B) => \A e \in TA \cup TB : Inside(e) BY <2>1, <2>2
    <2> QED BY <2>3, <2>4, <2>5, FinishInside
  <1> QED BY <1>1, <1>2, <1>3, <1>4 DEF BufferCall

LEMMA ImageCallInside ==
    ASSUME ApiInv, SmallObjects, NothingWraps, Tellable, NEW t \in Threads, ImageCall(t)
    PROVE  NothingOutside'
  <1> USE OverflowsAreBoolean
  <1>1. CASE Refuse(t)
    BY <1>1 DEF Refuse, NoCall, NothingOutside
  <1>2. ASSUME NEW i \in Images, NEW o \in Triples(Origins), NEW r \in Triples(Regions),
               MoveImage(t, i, o, r)
        PROVE  NothingOutside'
    <2>1. t \notin checking /\ ~ApiImageOverflow(t, i, o, r) => \A e \in Pixels(i, o, r) : Inside(e)
      BY ImageInside
    <2> QED BY <1>2, <2>1, FinishInside DEF MoveImage
  <1>3. ASSUME NEW i \in Images, NEW j \in Images, NEW o \in Triples(Origins),
               NEW p \in Triples(Origins), NEW r \in Triples(Regions),
               t \notin checking, CopyImage(t, i, j, o, p, r)
        PROVE  NothingOutside'
    <2> DEFINE A == ApiImageOverflow(t, i, o, r)
               B == ApiImageOverflow(t, j, p, r)
    <2>1. ~A => \A e \in Pixels(i, o, r) : Inside(e) BY <1>3, ImageInside
    <2>2. ~B => \A e \in Pixels(j, p, r) : Inside(e) BY <1>3, ImageInside
    <2>3. Finish(t, A \/ B, Pixels(i, o, r) \cup Pixels(j, p, r)) BY <1>3 DEF CopyImage
    <2>4. (A \/ B) \in BOOLEAN OBVIOUS
    <2> HIDE DEF A, B
    <2>5. ~(A \/ B) => \A e \in Pixels(i, o, r) \cup Pixels(j, p, r) : Inside(e) BY <2>1, <2>2
    <2> QED BY <2>3, <2>4, <2>5, FinishInside
  <1>4. ASSUME NEW i \in Images, NEW b \in Buffers, NEW o \in Triples(Origins),
               NEW r \in Triples(Regions), NEW n \in Offsets,
               t \notin checking, CopyImageBuffer(t, i, b, o, r, n)
        PROVE  NothingOutside'
    <2> DEFINE row   == Wrap(r[1] * img[i].bytes)
               slice == Wrap(r[2] * row)
               A == ApiImageOverflow(t, i, o, r)
               B == ApiRectOverflow(b, <<n, 0, 0>>, r, row, slice)
               TB == LinearBytes(b, n, r[1] * r[2] * r[3] * img[i].bytes)
    <2>0. img[i].bytes \in Nat \ {0} BY AskedOK DEF ApiInv
    <2>1. r[1] \in Nat /\ r[2] \in Nat BY TripleOK, ArgumentsOK
    <2>2. row \in Nat BY <2>0, <2>1, ProductOK, WrapFacts
    <2>3. slice \in Nat BY <2>1, <2>2, ProductOK, WrapFacts
    <2>4. ~A => \A e \in Pixels(i, o, r) : Inside(e) BY <1>4, ImageInside
    <2>5. Finish(t, A \/ B, Pixels(i, o, r) \cup TB) BY <1>4 DEF CopyImageBuffer
    <2>6. (A \/ B) \in BOOLEAN OBVIOUS
    <2> HIDE DEF row, slice
    <2>7. ~B => \A e \in TB : Inside(e) BY <2>2, <2>3, ImageBufferInside
    <2> HIDE DEF A, B, TB
    <2>8. ~(A \/ B) => \A e \in Pixels(i, o, r) \cup TB : Inside(e) BY <2>4, <2>7
    <2> QED BY <2>5, <2>6, <2>8, FinishInside
  <1> QED BY <1>1, <1>2, <1>3, <1>4 DEF ImageCall

LEMMA NextInside ==
    ASSUME ApiInv, SmallObjects, NothingWraps, Tellable, NothingOutside, [Next]_vars
    PROVE  NothingOutside'
  <1>1. CASE Return
    BY <1>1 DEF Return, NoCall, NothingOutside
  <1>2. ASSUME NEW t \in Threads, BeginCheck(t) \/ EndCheck(t) PROVE NothingOutside'
    BY <1>2 DEF BeginCheck, EndCheck, NothingOutside, Inside
  <1>3. ASSUME NEW t \in Threads, BufferCall(t) PROVE NothingOutside' BY <1>3, BufferCallInside
  <1>4. ASSUME NEW t \in Threads, ImageCall(t) PROVE NothingOutside' BY <1>4, ImageCallInside
  <1>5. CASE UNCHANGED vars
    BY <1>5 DEF vars, NothingOutside, Inside
  <1> QED BY <1>1, <1>2, <1>3, <1>4, <1>5 DEF Next

\* A call of the application that its wrapper hands to the runtime stays inside
\* the objects asked for, whichever threads are in a check, as long as no sum wraps
\* and the call is one whose bounds the check works out: packed rows, one byte to
\* a pixel, images with three dimensions.  Each of these conditions is needed.
THEOREM CallsStayInside ==
    SmallObjects /\ NothingWraps /\ Tellable => (Spec => []NothingOutside)
  <1> SUFFICES ASSUME SmallObjects, NothingWraps, Tellable PROVE Spec => []NothingOutside OBVIOUS
  <1>1. Init => ApiInv /\ NothingOutside
    BY InitApi DEF Init, NoCall, NothingOutside
  <1>2. ApiInv /\ NothingOutside /\ [Next]_vars => (ApiInv /\ NothingOutside)'
    BY NextApi, NextInside
  <1> QED BY <1>1, <1>2, PTL DEF Spec
=============================================================================
