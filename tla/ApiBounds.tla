------------------------------ MODULE ApiBounds ------------------------------
(***************************************************************************)
(* The bounds check of the calls that move data.                           *)
(*                                                                         *)
(* Before it hands a read, write, fill or copy to the runtime, a wrapper   *)
(* works out from the record of each object whether the call stays within  *)
(* what the application asked for.  A call that does not is reported and   *)
(* skipped.  The detector's own calls take the same way: canaryAccess, one *)
(* flag for each thread, tells the image check to let them at the canary.  *)
(*                                                                         *)
(* Sizes, origins and pitches are size_t: sums, products and differences   *)
(* wrap at Modulus.                                                        *)
(***************************************************************************)
EXTENDS Integers, FiniteSets

CONSTANTS
    Threads,
    Buffers, Images,
    BufferSizes,    \* sizes of a buffer (a bound)
    Sorts,          \* sorts of image that exist
    Extents,        \* extents of an image in a dimension it has (a bound)
    DataSizes,      \* bytes in a pixel
    Offsets, Lengths,  \* arguments of the linear calls (a bound)
    Origins, Regions,  \* components of origins and regions (a bound)
    RowPitches, SlicePitches,
    Poison,         \* IMAGE_POISON_WIDTH, _HEIGHT and _DEPTH
    Modulus,        \* 2^64
    ExitOnOverflow  \* CLARMOR_EXIT_ON_OVERFLOW

Triples(S) == S \X S \X S

AllSorts == {"1D", "1DArray", "2D", "2DArray", "3D"}

ASSUME ApiAssumption ==
    /\ Sorts \subseteq AllSorts /\ Buffers \cap Images = {}
    /\ BufferSizes \subseteq Nat \ {0} /\ Extents \subseteq Nat \ {0} /\ DataSizes \subseteq Nat \ {0}
    /\ Offsets \subseteq Nat /\ Lengths \subseteq Nat \ {0}
    /\ Origins \subseteq Nat /\ Regions \subseteq Nat \ {0}
    /\ RowPitches \subseteq Nat /\ SlicePitches \subseteq Nat
    /\ Poison \in Triples(Nat) /\ \A n \in 1 .. 3 : Poison[n] > 1
    /\ Modulus \in Nat \ {0}
    /\ ExitOnOverflow \in BOOLEAN

VARIABLES
    size,          \* buffer -> its size (cl_memobj.size)
    img,           \* image -> sort, pixel size, extents asked for
    canaryAccess,  \* thread -> its flag
    checking,      \* threads inside verifyBufferInBounds
    done,          \* the data movement call that has just ended
    exited         \* optionalKillOnOverflow has ended the process

vars == <<size, img, canaryAccess, checking, done, exited>>

Wrap(n) == n % Modulus

-----------------------------------------------------------------------------
(***************************************************************************)
(* The three checks: TRUE when the call is to be reported.                 *)
(***************************************************************************)

\* apiBufferOverflowCheck.
ApiBufferOverflow(b, offset, length) == Wrap(offset + length) > size[b]

\* Mutant: the default slice pitch is a row too long.
RectSliceOfRegion(b, origin, region, rowPitch, slicePitch) ==
    LET row   == IF rowPitch = 0 THEN region[1] ELSE rowPitch
        slice == IF slicePitch = 0 THEN row * (region[2] + 1) ELSE slicePitch
        start == origin[1] + origin[2] * row + origin[3] * slice
    IN  start + region[1] * region[2] * region[3] > size[b]

\* apiBufferRectOverflowCheck: where the box starts, and where it would end if
\* its rows lay behind one another.
ApiRectOverflow(b, origin, region, rowPitch, slicePitch) ==
    LET row   == IF rowPitch = 0 THEN region[1] ELSE rowPitch
        slice == IF slicePitch = 0 THEN Wrap(row * region[2]) ELSE slicePitch
        start == Wrap(origin[1] + origin[2] * row + origin[3] * slice)
    IN  Wrap(start + region[1] * region[2] * region[3]) > size[b]

\* The extents an image is created with: width, rows or layers, slices or
\* layers, each with its canary if the sort of image has the dimension.
Extent(i) ==
    LET d == img[i]
    IN  <<d.asked[1] + Poison[1],
          IF d.sort = "1D" THEN 1 ELSE d.asked[2] + Poison[2],
          IF d.sort \in {"2DArray", "3D"} THEN d.asked[3] + Poison[3] ELSE 1>>

\* apiImageOverflowCheck.  The canary is taken off in all three dimensions.
ApiImageOverflow(t, i, origin, region) ==
    LET limit(n) == IF canaryAccess[t] THEN Extent(i)[n] ELSE Wrap(Extent(i)[n] - Poison[n])
    IN  \E n \in 1 .. 3 : Wrap(origin[n] + region[n]) > limit(n)

-----------------------------------------------------------------------------
(***************************************************************************)
(* What a call touches, for the runtime.                                   *)
(***************************************************************************)

\* Bytes of a buffer.
Bytes(b, S) == {<<b, n>> : n \in S}

LinearBytes(b, offset, length) == Bytes(b, offset .. (offset + length - 1))

RectBytes(b, origin, region, rowPitch, slicePitch) ==
    LET row   == IF rowPitch = 0 THEN region[1] ELSE rowPitch
        slice == IF slicePitch = 0 THEN row * region[2] ELSE slicePitch
    IN  Bytes(b, {(origin[3] + z) * slice + (origin[2] + y) * row + origin[1] + x :
                     x \in 0 .. (region[1] - 1), y \in 0 .. (region[2] - 1), z \in 0 .. (region[3] - 1)})

\* Pixels of an image.
Pixels(i, origin, region) ==
    {<<i, <<origin[1] + x, origin[2] + y, origin[3] + z>>>> :
        x \in 0 .. (region[1] - 1), y \in 0 .. (region[2] - 1), z \in 0 .. (region[3] - 1)}

\* Pitches the runtime accepts for a region.
LegalPitches(region, row, slice) ==
    /\ row = 0 \/ row >= region[1]
    /\ slice = 0 \/ (row # 0 /\ slice >= row * region[2] /\ slice % row = 0)

-----------------------------------------------------------------------------
NoCall == [by |-> "none", ran |-> FALSE, reported |-> FALSE, touched |-> {}]

Idle == done = NoCall /\ ~exited

Init ==
    /\ size \in [Buffers -> BufferSizes]
    /\ img \in [Images -> {d \in [sort : Sorts, bytes : DataSizes, asked : Triples(Extents)] :
                              /\ d.sort = "1D" => d.asked[2] = 1
                              /\ d.sort \in {"1D", "1DArray", "2D"} => d.asked[3] = 1}]
    /\ canaryAccess = [t \in Threads |-> FALSE]
    /\ checking = {}
    /\ done = NoCall
    /\ exited = FALSE

\* A wrapper that has checked its call: a bad one is reported, and ends the
\* process if that is asked for; the runtime gets a good one.
Finish(t, bad, touched) ==
    /\ done' = [by |-> IF t \in checking THEN "detector" ELSE "app",
                ran |-> ~bad, reported |-> bad, touched |-> touched]
    /\ exited' = (bad /\ ExitOnOverflow)
    /\ UNCHANGED <<size, img, canaryAccess, checking>>

\* An image call on a queue whose device has no images fails at once.
Refuse(t) ==
    /\ done' = [NoCall EXCEPT !.by = IF t \in checking THEN "detector" ELSE "app"]
    /\ UNCHANGED <<size, img, canaryAccess, checking, exited>>

\* The wrapper returns.
Return ==
    /\ done # NoCall /\ ~exited
    /\ done' = NoCall
    /\ UNCHANGED <<size, img, canaryAccess, checking, exited>>

\* clEnqueueReadBuffer, clEnqueueWriteBuffer, clEnqueueFillBuffer.
MoveBuffer(t, b, offset, length) ==
    Finish(t, ApiBufferOverflow(b, offset, length), LinearBytes(b, offset, length))

\* clEnqueueReadBufferRect, clEnqueueWriteBufferRect.
MoveBufferRect(t, b, origin, region, row, slice) ==
    /\ LegalPitches(region, row, slice)
    /\ Finish(t, ApiRectOverflow(b, origin, region, row, slice),
              RectBytes(b, origin, region, row, slice))

\* clEnqueueCopyBuffer.
CopyBuffer(t, a, b, from, to, length) ==
    Finish(t, ApiBufferOverflow(a, from, length) \/ ApiBufferOverflow(b, to, length),
           LinearBytes(a, from, length) \cup LinearBytes(b, to, length))

\* clEnqueueCopyBufferRect; pa and pb are the row and slice pitches.
CopyBufferRect(t, a, b, from, to, region, pa, pb) ==
    /\ LegalPitches(region, pa[1], pa[2]) /\ LegalPitches(region, pb[1], pb[2])
    /\ Finish(t, \/ ApiRectOverflow(a, from, region, pa[1], pa[2])
                 \/ ApiRectOverflow(b, to, region, pb[1], pb[2]),
              RectBytes(a, from, region, pa[1], pa[2]) \cup RectBytes(b, to, region, pb[1], pb[2]))

\* clEnqueueReadImage, clEnqueueWriteImage, clEnqueueFillImage.
MoveImage(t, i, origin, region) ==
    Finish(t, ApiImageOverflow(t, i, origin, region), Pixels(i, origin, region))

\* clEnqueueCopyImage.
CopyImage(t, i, j, from, to, region) ==
    Finish(t, ApiImageOverflow(t, i, from, region) \/ ApiImageOverflow(t, j, to, region),
           Pixels(i, from, region) \cup Pixels(j, to, region))

\* clEnqueueCopyImageToBuffer, clEnqueueCopyBufferToImage: the rectangle the
\* buffer is checked for has pitches in bytes and a region in pixels.
CopyImageBuffer(t, i, b, origin, region, offset) ==
    LET row   == Wrap(region[1] * img[i].bytes)
        slice == Wrap(region[2] * row)
    IN  Finish(t, \/ ApiImageOverflow(t, i, origin, region)
                  \/ ApiRectOverflow(b, <<offset, 0, 0>>, region, row, slice),
               Pixels(i, origin, region)
               \cup LinearBytes(b, offset, region[1] * region[2] * region[3] * img[i].bytes))

-----------------------------------------------------------------------------
(***************************************************************************)
(* The check after a kernel launch, and the flag.                          *)
(***************************************************************************)

\* Mutant: one flag for all threads.
AllowCanaryAccessAll(t) == canaryAccess' = [u \in Threads |-> TRUE]

AllowCanaryAccess(t) == canaryAccess' = [canaryAccess EXCEPT ![t] = TRUE]

DisallowCanaryAccess(t) == canaryAccess' = [canaryAccess EXCEPT ![t] = FALSE]

\* kernelLaunchFunc around verifyBufferInBounds.
BeginCheck(t) ==
    /\ Idle /\ t \notin checking
    /\ AllowCanaryAccess(t)
    /\ checking' = checking \cup {t}
    /\ UNCHANGED <<size, img, done, exited>>

EndCheck(t) ==
    /\ Idle /\ t \in checking
    /\ DisallowCanaryAccess(t)
    /\ checking' = checking \ {t}
    /\ UNCHANGED <<size, img, done, exited>>

\* What a check does to images: it copies and repairs boxes of the canary.
CanaryBox(i, origin, region) ==
    /\ \A n \in 1 .. 3 : origin[n] + region[n] <= Extent(i)[n]
    /\ \E n \in 1 .. 3 : origin[n] >= img[i].asked[n]

-----------------------------------------------------------------------------
BufferCall(t) ==
    /\ Idle /\ t \notin checking
    /\ \/ \E b \in Buffers, o \in Offsets, n \in Lengths : MoveBuffer(t, b, o, n)
       \/ \E a, b \in Buffers, o, p \in Offsets, n \in Lengths : CopyBuffer(t, a, b, o, p, n)
       \/ \E b \in Buffers, o \in Triples(Origins), r \in Triples(Regions),
             row \in RowPitches, slice \in SlicePitches : MoveBufferRect(t, b, o, r, row, slice)
       \/ \E a, b \in Buffers, o, p \in Triples(Origins), r \in Triples(Regions),
             pa, pb \in RowPitches \X SlicePitches : CopyBufferRect(t, a, b, o, p, r, pa, pb)

ImageCall(t) ==
    /\ Idle
    /\ \/ Refuse(t)
       \/ \E i \in Images, o \in Triples(Origins), r \in Triples(Regions) :
             /\ t \in checking => CanaryBox(i, o, r)
             /\ MoveImage(t, i, o, r)
       \/ \E i, j \in Images, o, p \in Triples(Origins), r \in Triples(Regions) :
             t \notin checking /\ CopyImage(t, i, j, o, p, r)
       \/ \E i \in Images, b \in Buffers, o \in Triples(Origins), r \in Triples(Regions), n \in Offsets :
             t \notin checking /\ CopyImageBuffer(t, i, b, o, r, n)

Next ==
    \/ Return
    \/ \E t \in Threads : BeginCheck(t) \/ EndCheck(t) \/ BufferCall(t) \/ ImageCall(t)

Spec == Init /\ [][Next]_vars

-----------------------------------------------------------------------------
\* What the application asked for: the bytes of a buffer, the pixels of an image.
Inside(e) ==
    IF e[1] \in Buffers THEN e[2] \in 0 .. (size[e[1]] - 1)
    ELSE \A n \in 1 .. 3 : e[2][n] < img[e[1]].asked[n]

\* A call of the application that reaches the runtime stays inside the objects
\* the application asked for, whatever other threads check meanwhile: "clARMOR
\* will check the limits of the data movement for these API calls before they
\* run" (README.txt).
NothingOutside ==
    done.by = "app" /\ done.ran => \A e \in done.touched : Inside(e)

\* A call that is reported, and skipped, is the application's and would have
\* gone outside; those of the detector's checks reach the canary, since the
\* events they return are waited for.
NoFalseAlarm ==
    done.reported => done.by = "app" /\ \E e \in done.touched : ~Inside(e)
=============================================================================
