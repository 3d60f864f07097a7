---------------------------- MODULE ImageCanaries ----------------------------
(***************************************************************************)
(* The canaries of one image.                                              *)
(*                                                                         *)
(* An image is created larger than the application asked for: the extra    *)
(* columns, rows and slices are its canary.  They are poisoned by a write  *)
(* of a flat copy at creation, copied to one flat array for a check, which *)
(* looks for the first damaged entry and turns its index back into a place *)
(* in the image, and poisoned again by a series of region writes.  Each of *)
(* these five pieces of code has its own index arithmetic over the same    *)
(* six sorts of image; this module relates them.                           *)
(*                                                                         *)
(* Indexes count pixels, except in the application's memory, where they    *)
(* count bytes.  A pixel holds the poison value, a byte address of the     *)
(* application's memory it was copied from, a stray write, or whatever the *)
(* allocation left there.  The application passes the image's data         *)
(* (CL_MEM_COPY_HOST_PTR).  Images over a buffer or over the application's *)
(* memory have no canary and are left out.                                 *)
(***************************************************************************)
EXTENDS Integers, FiniteSets

CONSTANTS
    IMAGE_POISON_WIDTH, IMAGE_POISON_HEIGHT, IMAGE_POISON_DEPTH,
    Types,      \* the sorts of image the application creates
    Uncovered,  \* sorts whose layers the fill and the report leave out; what
                \* these should do is not asked of them
    MaxExtent,  \* bound on each dimension the application asks for
    DataSizes,  \* bytes in a pixel (getImageDataSize)
    RowGaps,    \* bytes between rows of the host data; NoGap: row pitch 0
    SliceGaps,  \* bytes between slices of the host data; NoGap: slice pitch 0
    NoGap,
    MaxStrays   \* bound on stray writes between two checks

Sorts == {"1D", "1DArray", "2D", "2DArray", "3D"}

ASSUME ImageAssumption ==
    /\ IMAGE_POISON_WIDTH \in Nat \ {0}
    /\ IMAGE_POISON_HEIGHT \in Nat \ {0}
    /\ IMAGE_POISON_DEPTH \in Nat \ {0}
    /\ Types \subseteq Sorts /\ Uncovered \subseteq Sorts
    /\ MaxExtent \in Nat \ {0}
    /\ DataSizes \subseteq Nat \ {0}
    /\ NoGap \notin Nat /\ RowGaps \subseteq Nat \cup {NoGap} /\ SliceGaps \subseteq Nat \cup {NoGap}
    /\ MaxStrays \in Nat

VARIABLES
    asked,   \* the description the application gave
    img,     \* the description the detector keeps (cl_memobj.image_desc)
    pixels,  \* the image on the device: place -> content
    strays,  \* places written by kernels since the last check
    copied,  \* the flat array of a check: index -> content
    found,   \* the place a check reports
    stage    \* "asked", "live", "copied" or "judged"

vars == <<asked, img, pixels, strays, copied, found, stage>>

Poison == <<"poison", 0>>
Blank  == <<"blank", 0>>   \* what the allocation left there
Stray  == <<"stray", 0>>
HostByte(n) == <<"host", n>>

-----------------------------------------------------------------------------
(***************************************************************************)
(* Dimensions.                                                             *)
(***************************************************************************)

\* expandLastDimForFill.
Expand(d) ==
    [d EXCEPT
       !.w = @ + IMAGE_POISON_WIDTH,
       !.h = IF d.type \in {"2D", "2DArray", "3D"} THEN @ + IMAGE_POISON_HEIGHT ELSE @,
       !.d = IF d.type = "3D" THEN @ + IMAGE_POISON_DEPTH ELSE @,
       !.a = CASE d.type = "1DArray" -> @ + IMAGE_POISON_HEIGHT
               [] d.type = "2DArray" -> @ + IMAGE_POISON_DEPTH
               [] OTHER -> @]

\* get_image_dimensions: the layers of an array are its rows or its slices.
Lim(d) ==
    <<d.w,
      IF d.type = "1DArray" THEN d.a ELSE d.h,
      IF d.type = "2DArray" THEN d.a ELSE d.d>>

\* What is left of a dimension without its canary.
Strip(n, poison) == IF n = 1 THEN 1 ELSE n - poison

StripAll(lim) ==
    <<Strip(lim[1], IMAGE_POISON_WIDTH),
      Strip(lim[2], IMAGE_POISON_HEIGHT),
      Strip(lim[3], IMAGE_POISON_DEPTH)>>

Dat(d) == StripAll(Lim(d))

\* The places of a box of an image (origin and region of the image calls).
Box(origin, region) ==
    {<<origin[1] + x, origin[2] + y, origin[3] + z>> :
        x \in 0 .. (region[1] - 1), y \in 0 .. (region[2] - 1), z \in 0 .. (region[3] - 1)}

Places(d) == Box(<<0, 0, 0>>, Lim(d))

-----------------------------------------------------------------------------
(***************************************************************************)
(* Creation.                                                               *)
(***************************************************************************)

\* Mutant: the rows of the host data are taken to follow one another.
FlatCopyTight(d, p) ==
    LET dat == Dat(d)
        row == dat[1] * d.size
    IN  IF p[1] >= dat[1] \/ p[2] >= dat[2] \/ p[3] >= dat[3] THEN Poison
        ELSE HostByte(p[3] * dat[2] * row + p[2] * row + p[1] * d.size)

\* allocFlatImageCopy: the host data, row by row, and poison behind each row,
\* behind the rows of each slice and behind the slices.  A pitch of the
\* description counts bytes; one that is missing is taken from the extent.
FlatCopy(d, p) ==
    LET dat   == Dat(d)
        row   == IF d.row # 0 THEN d.row ELSE dat[1]
        slice == IF d.slice # 0 THEN d.slice ELSE dat[2]
    IN  IF p[1] >= dat[1] \/ p[2] >= dat[2] \/ p[3] >= dat[3] THEN Poison
        ELSE HostByte(p[3] * slice * row + p[2] * row + p[1] * d.size)

\* The region of the blocking write that follows: width, height and depth.
WrittenRegion(d) == <<d.w, d.h, d.d>>

\* clCreateImage, clCreateImage2D, clCreateImage3D.
CreateImage ==
    /\ stage = "asked"
    /\ img' = Expand(asked)
    /\ pixels' = [p \in Places(img') |->
                     IF p \in Box(<<0, 0, 0>>, WrittenRegion(img')) THEN FlatCopy(img', p) ELSE Blank]
    /\ stage' = "live"
    /\ UNCHANGED <<asked, strays, copied, found>>

-----------------------------------------------------------------------------
(***************************************************************************)
(* A kernel and its check.                                                 *)
(***************************************************************************)

\* A kernel writes to p, a place outside the image the application asked for.
StrayWrite(p) ==
    /\ stage = "live"
    /\ p \in Places(img) /\ p \notin Box(<<0, 0, 0>>, Dat(img))
    /\ p \notin strays /\ Cardinality(strays) < MaxStrays
    /\ pixels' = [pixels EXCEPT ![p] = Stray]
    /\ strays' = strays \cup {p}
    /\ UNCHANGED <<asked, img, copied, found, stage>>

\* The boxes of copy_image_canaries (and of the host's read_image_canaries):
\* the ends of the rows, the last rows of each slice, the last slices, and
\* where each starts in the flat array.
RowSegments(lim, dat) ==
    {[origin |-> <<dat[1], j, k>>,
      region |-> <<IMAGE_POISON_WIDTH, 1, 1>>,
      at     |-> k * (dat[2] * IMAGE_POISON_WIDTH + IMAGE_POISON_HEIGHT * lim[1])
                 + j * IMAGE_POISON_WIDTH] :
        j \in 0 .. (dat[2] - 1), k \in 0 .. (dat[3] - 1)}

\* Mutant: the last rows of a slice start where the next slice's would.
SliceSegmentsShifted(lim, dat) ==
    IF lim[2] = 1 THEN {} ELSE
    {[origin |-> <<0, dat[2], k>>,
      region |-> <<lim[1], IMAGE_POISON_HEIGHT, 1>>,
      at     |-> (k + 1) * (IMAGE_POISON_HEIGHT * lim[1] + dat[2] * IMAGE_POISON_WIDTH)] :
        k \in 0 .. (dat[3] - 1)}

SliceSegments(lim, dat) ==
    IF lim[2] = 1 THEN {} ELSE
    {[origin |-> <<0, dat[2], k>>,
      region |-> <<lim[1], IMAGE_POISON_HEIGHT, 1>>,
      at     |-> k * IMAGE_POISON_HEIGHT * lim[1] + (k + 1) * (dat[2] * IMAGE_POISON_WIDTH)] :
        k \in 0 .. (dat[3] - 1)}

LastSegments(lim, dat) ==
    IF lim[3] = 1 THEN {} ELSE
    {[origin |-> <<0, 0, dat[3]>>,
      region |-> <<lim[1], lim[2], IMAGE_POISON_DEPTH>>,
      at     |-> dat[3] * IMAGE_POISON_HEIGHT * lim[1] + dat[3] * dat[2] * IMAGE_POISON_WIDTH]}

Segments(d) ==
    RowSegments(Lim(d), Dat(d)) \cup SliceSegments(Lim(d), Dat(d)) \cup LastSegments(Lim(d), Dat(d))

\* The runtime puts a box into the array row by row.
IndexIn(s, p) ==
    s.at + ((p[3] - s.origin[3]) * s.region[2] + (p[2] - s.origin[2])) * s.region[1]
         + (p[1] - s.origin[1])

\* <<index, place>>: the copy puts the pixel at that place at that index.
Layout(d) ==
    UNION {{<<IndexIn(s, p), p>> : p \in Box(s.origin, s.region)} : s \in Segments(d)}

\* get_image_canary_size, the length of the flat array.
CanarySize(d) ==
    LET lim == Lim(d) dat == Dat(d)
    IN  dat[3] * dat[2] * IMAGE_POISON_WIDTH
        + (IF d.type \in {"2DArray", "3D"} THEN IMAGE_POISON_DEPTH * lim[2] * lim[1] ELSE 0)
        + (IF d.type # "1D" THEN dat[3] * IMAGE_POISON_HEIGHT * lim[1] ELSE 0)

\* The canary is copied; the array's other entries hold whatever was there.
CopyCanaries ==
    /\ stage = "live"
    /\ copied' = [n \in 0 .. (CanarySize(img) - 1) |->
                     IF \E e \in Layout(img) : e[1] = n
                     THEN pixels[(CHOOSE e \in Layout(img) : e[1] = n)[2]] ELSE Blank]
    /\ stage' = "copied"
    /\ UNCHANGED <<asked, img, pixels, strays, found>>

Least(S) == CHOOSE n \in S : \A m \in S : n <= m

\* Mutant: an index at the end of a row still counts as that row's.
LocateLate(d, n) ==
    LET j_dat == Strip(d.h, IMAGE_POISON_HEIGHT)
        k_dat == Strip(d.d, IMAGE_POISON_DEPTH)
        slab  == j_dat * IMAGE_POISON_WIDTH + IMAGE_POISON_HEIGHT * d.w
        k     == n \div slab
        m     == n - k * slab
    IN  IF k >= k_dat THEN <<-1, -1, (n - k_dat * slab) \div (d.w * d.h)>>
        ELSE IF m <= j_dat * IMAGE_POISON_WIDTH
        THEN <<m % IMAGE_POISON_WIDTH, m \div IMAGE_POISON_WIDTH, k>>
        ELSE <<-1, (m - j_dat * IMAGE_POISON_WIDTH) \div d.w, k>>

\* getImageCanaryXYZ: walk the array in slabs (a slice's row ends and last
\* rows); -1 marks a coordinate that is anywhere.  Layers are not looked at.
Locate(d, n) ==
    LET j_dat == Strip(d.h, IMAGE_POISON_HEIGHT)
        k_dat == Strip(d.d, IMAGE_POISON_DEPTH)
        slab  == j_dat * IMAGE_POISON_WIDTH + IMAGE_POISON_HEIGHT * d.w
        k     == n \div slab
        m     == n - k * slab
    IN  IF k >= k_dat THEN <<-1, -1, (n - k_dat * slab) \div (d.w * d.h)>>
        ELSE IF m < j_dat * IMAGE_POISON_WIDTH
        THEN <<m % IMAGE_POISON_WIDTH, m \div IMAGE_POISON_WIDTH, k>>
        ELSE <<-1, (m - j_dat * IMAGE_POISON_WIDTH) \div d.w, k>>

\* The checker kernel finds the first bad entry, the report says where it is.
Judge ==
    /\ stage = "copied"
    /\ LET bad == {n \in DOMAIN copied : copied[n] # Poison}
       IN  found' = IF bad = {} THEN <<>> ELSE Locate(img, Least(bad))
    /\ stage' = "judged"
    /\ UNCHANGED <<asked, img, pixels, strays, copied>>

\* The boxes poisonFillImageCanaries writes.
RowFills(lim, dat) ==
    IF lim[1] = 1 THEN {} ELSE
    UNION {Box(<<dat[1], j, k>>, <<IMAGE_POISON_WIDTH, 1, 1>>) :
              j \in 0 .. (dat[2] - 1), k \in 0 .. (dat[3] - 1)}

\* Mutant: the last rows are filled for the width of the data only.
SliceFillsNarrow(lim, dat) ==
    IF lim[2] = 1 THEN {} ELSE
    UNION {Box(<<0, dat[2], k>>, <<dat[1], IMAGE_POISON_HEIGHT, 1>>) : k \in 0 .. (dat[3] - 1)}

SliceFills(lim, dat) ==
    IF lim[2] = 1 THEN {} ELSE
    UNION {Box(<<0, dat[2], k>>, <<lim[1], IMAGE_POISON_HEIGHT, 1>>) : k \in 0 .. (dat[3] - 1)}

LastFill(lim, dat) ==
    IF lim[3] = 1 THEN {} ELSE Box(<<0, 0, dat[3]>>, <<lim[1], lim[2], IMAGE_POISON_DEPTH>>)

Filled(d) ==
    RowFills(Lim(d), Dat(d)) \cup SliceFills(Lim(d), Dat(d)) \cup LastFill(Lim(d), Dat(d))

\* The repair after a check.
PoisonFill ==
    /\ stage = "judged"
    /\ pixels' = [p \in DOMAIN pixels \cup Filled(img) |->
                     IF p \in Filled(img) THEN Poison ELSE pixels[p]]
    /\ strays' = {} /\ copied' = <<>> /\ found' = <<>>
    /\ stage' = "live"
    /\ UNCHANGED <<asked, img>>

-----------------------------------------------------------------------------
(***************************************************************************)
(* What the application is told of its image.                              *)
(***************************************************************************)

\* clGetImageInfo takes the canary off what the detector knows.
LessCanary(n, poison) == IF n > 1 THEN n - poison ELSE n

\* Mutant: the layers of every array lose the canary of slices.
InfoLayersDeep(d) == LessCanary(d.a, IMAGE_POISON_DEPTH)

InfoLayers(d) == LessCanary(d.a, IF d.h > 1 THEN IMAGE_POISON_DEPTH ELSE IMAGE_POISON_HEIGHT)

ImageInfo(d) ==
    <<LessCanary(d.w, IMAGE_POISON_WIDTH), LessCanary(d.h, IMAGE_POISON_HEIGHT),
      LessCanary(d.d, IMAGE_POISON_DEPTH), InfoLayers(d)>>

\* clGetMemObjectInfo(CL_MEM_SIZE), in pixels; a release subtracts the same.
UserSize(d) ==
    LessCanary(d.w, IMAGE_POISON_WIDTH) * LessCanary(d.h, IMAGE_POISON_HEIGHT)
    * LessCanary(d.d, IMAGE_POISON_DEPTH) * InfoLayers(d)

-----------------------------------------------------------------------------
\* A description clCreateImage has cleaned up: unused dimensions are 1.
Descriptions ==
    {d \in [type : Types, w : 1 .. MaxExtent, h : 1 .. MaxExtent, d : 1 .. MaxExtent, a : 1 .. MaxExtent,
            size : DataSizes, rowGap : RowGaps, sliceGap : SliceGaps] :
        /\ d.type \in {"1D", "1DArray"} => d.h = 1
        /\ d.type # "3D" => d.d = 1 /\ d.sliceGap = NoGap
        /\ d.type \notin {"1DArray", "2DArray"} => d.a = 1
        /\ d.rowGap = NoGap => d.sliceGap = NoGap}

\* The pitches the application passes for its gaps.
RowPitch(d) == IF d.rowGap = NoGap THEN 0 ELSE d.w * d.size + d.rowGap
SlicePitch(d) == IF d.sliceGap = NoGap THEN 0 ELSE RowPitch(d) * d.h + d.sliceGap

Described(d) ==
    [type |-> d.type, w |-> d.w, h |-> d.h, d |-> d.d, a |-> d.a, size |-> d.size,
     row |-> RowPitch(d), slice |-> SlicePitch(d)]

Init ==
    /\ asked \in {Described(d) : d \in Descriptions}
    /\ img = asked
    /\ pixels = <<>> /\ strays = {} /\ copied = <<>> /\ found = <<>>
    /\ stage = "asked"

Next ==
    \/ CreateImage \/ CopyCanaries \/ Judge \/ PoisonFill
    \/ \E p \in Places(img) : StrayWrite(p)

Spec == Init /\ [][Next]_vars

-----------------------------------------------------------------------------
Data == Box(<<0, 0, 0>>, Lim(asked))

Canary == Places(img) \ Data

Created == stage # "asked"

\* The sorts whose layers the fill and the report take into account.
Covered == asked.type \notin Uncovered

\* After the creation, and after each repair, every pixel of the canary that no
\* kernel has damaged since holds the poison value, in every dimension.
CanaryIntact ==
    Created /\ Covered => \A p \in Canary \ strays : pixels[p] = Poison

\* Where OpenCL finds the pixel at p in the memory the application passed.
HostAddress(d, p) ==
    LET row   == IF d.row # 0 THEN d.row ELSE d.w * d.size
        slice == IF d.slice # 0 THEN d.slice ELSE row * Lim(d)[2]
    IN  p[3] * slice + p[2] * row + p[1] * d.size

\* The image holds the application's data, pixel for pixel, and no repair
\* touches it.
HostDataKept ==
    Created /\ Covered => \A p \in Data : pixels[p] = HostByte(HostAddress(asked, p))

\* The copy for a check holds each pixel of the canary once, without gaps.
CopyExact ==
    Created =>
        /\ {e[2] : e \in Layout(img)} = Canary
        /\ {e[1] : e \in Layout(img)} = 0 .. (CanarySize(img) - 1)
        /\ Cardinality(Layout(img)) = CanarySize(img)

\* The place a report should give for a pixel of the canary: how far past the
\* end of the first dimension that is left, counted from the last.
PlaceOf(p) ==
    LET dat == Lim(asked)
    IN  IF p[3] >= dat[3] THEN <<-1, -1, p[3] - dat[3]>>
        ELSE IF p[2] >= dat[2] THEN <<-1, p[2] - dat[2], p[3]>>
        ELSE <<p[1] - dat[1], p[2], p[3]>>

\* A check that finds damage names a place that is damaged, and one that finds
\* none has missed none: "return x,y,z location of overflow" (the comment
\* above getImageCanaryXYZ).
RightPlace ==
    stage = "judged" /\ Covered =>
        LET damaged == {p \in Canary : pixels[p] # Poison}
        IN  IF damaged = {} THEN found = <<>> ELSE found \in {PlaceOf(p) : p \in damaged}

\* The application never sees the canary in the size of its image.
SizeHidden ==
    Created =>
        /\ ImageInfo(img) = <<asked.w, asked.h, asked.d, asked.a>>
        /\ UserSize(img) = asked.w * asked.h * asked.d * asked.a
=============================================================================
