---------------------------------- MODULE Image ----------------------------------
(***************************************************************************)
(* pat/processing.cpp: Image, the threshold from the histogram and the      *)
(* grouping of bright pixels into spots.                                    *)
(*                                                                          *)
(* propagateGroup calls itself for a neighbour; the calls under way are a   *)
(* stack here, and a step is a call or a return.  A group's centroid is     *)
(* kept as the weighted sums x and y, which are divided by valueSum.        *)
(***************************************************************************)
EXTENDS Integers, Sequences, SequencesExt, FiniteSetsExt

CONSTANTS
  Width, Height,     \* area.w, area.h
  Frames,            \* pictures: a value for each pixel
  TopValue,          \* the highest value with a place in the histogram, 1023
  OFFSET,            \* THRESHOLD_SAFETY_OFFSET
  MIN_PIXELS,        \* MIN_PIXELS_PER_GROUP
  MAX_GROUPS, MAX_ACTIVE_PIXELS,
  IntMod,            \* how many values an int has, 2^32
  ShortMod           \* how many values a uint16_t has, 2^16

Pixels == 0..(Width * Height - 1)

ASSUME ImageAssumption ==
  /\ {Width, Height, IntMod, ShortMod, MIN_PIXELS} \subseteq Nat \ {0}
  /\ {OFFSET, MAX_GROUPS, MAX_ACTIVE_PIXELS} \subseteq Nat
  /\ TopValue \in Nat /\ TopValue + OFFSET < ShortMod
  /\ \A f \in Frames : f \in [Pixels -> Nat] /\ \A p \in Pixels : f[p] < ShortMod

VARIABLES
  data,            \* the picture
  threshold,
  scan,            \* index: the pixels before it are scanned
  stack,           \* calls of propagateGroup: the pixel and the neighbours left
  groupedPixels,
  groups,          \* the last one is under way while stack is not empty
  result           \* what performPixelGrouping returned, <<>> before that

imageVars == <<data, threshold, scan, stack, groupedPixels, groups, result>>

-------------------------------------------------------------------------------
(* The threshold.  The pixels up to TopValue are summed in an int, which overflows for large
   bright pictures, the sum is divided by the number of all pixels, and the mean is kept in a
   uint16_t. *)

PixelSum(f) ==
  LET sum[n \in 0..Width * Height] == IF n = 0 THEN 0 ELSE sum[n - 1] + f[n - 1]
  IN sum[Width * Height]

Counted(f) == [p \in Pixels |-> IF f[p] > TopValue THEN 0 ELSE f[p]]

HistSum(f) == PixelSum(Counted(f))

Signed(n) == ((n + IntMod \div 2) % IntMod) - IntMod \div 2
Unsigned(n) == n % ShortMod

\* C++ divides towards zero.
Quotient(a, b) == IF a < 0 THEN -((-a) \div b) ELSE a \div b

histMean(f) == Unsigned(Quotient(Signed(HistSum(f)), Width * Height))

Threshold(f) == Unsigned(histMean(f) + OFFSET)

-------------------------------------------------------------------------------
Row(p) == p \div Width
Column(p) == p % Width

NeighboursUnwrapped(p) ==  \* faulty: a row goes on in the next one
  {q \in Pixels : q - p \in {a * Width + b : a, b \in -1..1}}

\* The pixels the loops of propagateGroup visit, the pixel itself among them.
Neighbours(p) ==
  {q \in Pixels : Row(q) - Row(p) \in -1..1 /\ Column(q) - Column(p) \in -1..1}

Bright(p) == data[p] > threshold

EmptyGroup == [x |-> 0, y |-> 0, valueMax |-> 0, valueSum |-> 0, pixelCount |-> 0]

Acknowledge(g, p) ==
  [ x |-> g.x + Column(p) * data[p],
    y |-> g.y + Row(p) * data[p],
    valueMax |-> IF data[p] > g.valueMax THEN data[p] ELSE g.valueMax,
    valueSum |-> g.valueSum + data[p],
    pixelCount |-> g.pixelCount + 1 ]

-------------------------------------------------------------------------------
ImageInit ==
  /\ data \in Frames
  /\ threshold = Threshold(data)
  /\ scan = 0 /\ stack = <<>> /\ groupedPixels = {} /\ groups = <<>>
  /\ result = <<>>

CallEndless(p, gs, below) ==  \* faulty: no fail-safe
  /\ groupedPixels' = groupedPixels \cup {p}
  /\ groups' = [gs EXCEPT ![Len(gs)] = Acknowledge(@, p)]
  /\ stack' = Append(below, [pixel |-> p, left |-> Neighbours(p)])

\* propagateGroup is called for p; over the limit it returns at once.
Call(p, gs, below) ==
  /\ groupedPixels' = groupedPixels \cup {p}
  /\ groups' = [gs EXCEPT ![Len(gs)] = Acknowledge(@, p)]
  /\ stack' = Append(below, [pixel |-> p,
                             left |-> IF Cardinality(groupedPixels') > MAX_ACTIVE_PIXELS
                                      THEN {} ELSE Neighbours(p)])

Open(ps) == {p \in ps : Bright(p) /\ p \notin groupedPixels}
Unscanned == Open({p \in Pixels : p >= scan})

\* The scan comes to a bright pixel that is in no group.
NewGroup ==
  /\ result = <<>> /\ stack = <<>> /\ Unscanned # {}
  /\ scan' = Min(Unscanned)
  /\ Call(scan', Append(groups, EmptyGroup), <<>>)
  /\ UNCHANGED <<data, threshold, result>>

\* The call on top of the stack goes on to its next neighbour that is open.
Visit ==
  /\ stack # <<>>
  /\ LET top == Last(stack)
         q == Min(Open(top.left))
     IN /\ Open(top.left) # {}
        /\ Call(q, groups, Append(Front(stack), [top EXCEPT !.left = {r \in @ : r > q}]))
  /\ UNCHANGED <<data, threshold, scan, result>>

EndCall ==
  /\ Len(stack) > 1 /\ Open(Last(stack).left) = {}
  /\ stack' = Front(stack)
  /\ UNCHANGED <<data, threshold, scan, groupedPixels, groups, result>>

\* sort: brightest first, in any order where they are equally bright.
Sortings(gs) ==
  {s \in {[i \in DOMAIN gs |-> gs[p[i]]] : p \in Bijection(DOMAIN gs, DOMAIN gs)} :
     \A i \in 2..Len(s) : s[i].valueMax <= s[i - 1].valueMax}

\* The group is complete: too small, one too many pixels, one too many groups, or kept.
GroupDone ==
  LET small == Last(groups).pixelCount < MIN_PIXELS
      active == ~small /\ Cardinality(groupedPixels) > MAX_ACTIVE_PIXELS
      many == ~small /\ ~active /\ Len(groups) > MAX_GROUPS
  IN /\ Len(stack) = 1 /\ Open(Last(stack).left) = {}
     /\ stack' = <<>>
     /\ groups' \in CASE small -> {Front(groups)}
                      [] active -> {<<>>}
                      [] many -> Sortings(groups)
                      [] OTHER -> {groups}
     /\ result' = IF active \/ many THEN <<-1>> ELSE result
     /\ scan' = scan + 1
     /\ UNCHANGED <<data, threshold, groupedPixels>>

ScanEnds ==
  /\ result = <<>> /\ stack = <<>> /\ Unscanned = {}
  /\ groups' \in Sortings(groups)
  /\ result' = <<Len(groups)>>
  /\ UNCHANGED <<data, threshold, scan, stack, groupedPixels>>

ImageNext == NewGroup \/ Visit \/ EndCall \/ GroupDone \/ ScanEnds

-------------------------------------------------------------------------------
(* What the spots are, said without a scan. *)

\* The bright pixels of the picture, by the mean that an int of any size would give.
Active ==
  LET limit == HistSum(data) \div (Width * Height) + OFFSET
  IN {p \in Pixels : data[p] > limit}

Touch(p, q) == {Row(p) - Row(q), Column(p) - Column(q)} \subseteq -1..1

\* No other active pixel touches the set, and there is no such set in it: it is a whole
\* region of pixels that are connected.
Closed(s) == \A p \in s, q \in Active : Touch(p, q) => q \in s

Region(s) == s # {} /\ Closed(s) /\ \A t \in SUBSET s : t # {} /\ Closed(t) => t = s

Spots == {s \in SUBSET Active : Cardinality(s) >= MIN_PIXELS /\ Region(s)}

Over(s, f) == PixelSum([p \in Pixels |-> IF p \in s THEN f[p] ELSE 0])

MeasuresOf(s) ==
  [ x |-> Over(s, [p \in Pixels |-> Column(p) * data[p]]),
    y |-> Over(s, [p \in Pixels |-> Row(p) * data[p]]),
    valueMax |-> Max({data[p] : p \in s}),
    valueSum |-> Over(s, data),
    pixelCount |-> Cardinality(s) ]

\* The groups are the measures of these sets, of each of them once.
Measure(gs, sets) ==
  \E part \in Bijection(1..Len(gs), sets) : \A i \in 1..Len(gs) : gs[i] = MeasuresOf(part[i])

Descending(gs) == \A i \in 2..Len(gs) : gs[i].valueMax <= gs[i - 1].valueMax

SumFits == HistSum(data) < IntMod \div 2

\* As long as the sum of the picture fits an int and there are no more bright pixels than
\* allowed, the groups are the picture's spots, each once, with its own measures and the
\* brightest first, and -1 means that there are too many of them (Image::Image,
\* performPixelGrouping).
GroupsAreSpots ==
  result # <<>> /\ SumFits /\ Cardinality(Active) <= MAX_ACTIVE_PIXELS =>
    LET spots == Spots
    IN IF Cardinality(spots) > MAX_GROUPS THEN result = <<-1>>
       ELSE /\ result = <<Cardinality(spots)>>
            /\ Measure(groups, spots) /\ Descending(groups)

\* Whatever the picture and the threshold, the recursion is no deeper than the fail-safe
\* allows (propagateGroup).
DepthBounded == Len(stack) <= MAX_ACTIVE_PIXELS + 1
===============================================================================
