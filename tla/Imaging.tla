-------------------------------- MODULE Imaging --------------------------------
(***************************************************************************)
(* A picture of the beacon in the tracking loop of main.cpp: its bright     *)
(* pixels are grouped (Image), the group most like the last spot is chosen, *)
(* and the window of the next picture follows it (Optics).                  *)
(***************************************************************************)
EXTENDS Image, Optics

CONSTANTS
  AreaCorners,     \* where the picture's window may start
  LastSpots,       \* the spots that may have been seen before
  BRIGHTNESS,      \* TRACK_ACQUISITION_BRIGHTNESS
  MAX_DIFFERENCE   \* TRACK_MAX_SPOT_DIFFERENCE

ASSUME ImagingAssumption ==
  /\ AreaCorners \subseteq Nat \X Nat
  /\ LastSpots \subseteq [x : Nat, y : Nat, valueMax : Nat, valueSum : Nat, pixelCount : Nat]

VARIABLES
  area,     \* the window of the picture
  window,   \* beaconWindow, for the next one
  beacon    \* the spot, once it is trusted; <<>> before that

imagingVars == <<imageVars, area, window, beacon>>

NoArea == [x |-> [start |-> 0, length |-> 0], y |-> [start |-> 0, length |-> 0]]

ImagingInit == ImageInit /\ area = NoArea /\ window = NoArea /\ beacon = <<>>

Group == ImageNext /\ UNCHANGED <<area, window, beacon>>

\* spotWidth: sqrt(1.5 * pixelCount).
SpotWidth(count) == Max({n \in 0..count : 2 * n * n <= 3 * count})

\* A group in the coordinates of the sensor, with its centroid.
Centroid(g, a) ==
  [g EXCEPT !.x = a.x.start + @ \div g.valueSum, !.y = a.y.start + @ \div g.valueSum]

\* The groups are judged: a spot that is bright enough and like the last one is trusted.
Follow ==
  /\ result # <<>> /\ result[1] > 0 /\ area = NoArea
  /\ \E corner \in AreaCorners, old \in LastSpots :
       LET a == [x |-> [start |-> corner[1], length |-> Width],
                 y |-> [start |-> corner[2], length |-> Height]]
           found == [i \in 1..Len(groups) |-> Centroid(groups[i], a)]
           spot == found[SpotCandidate(found, old)]
       IN /\ area' = a
          /\ IF spot.valueMax > BRIGHTNESS /\ Difference(spot, old) < MAX_DIFFERENCE
             THEN /\ beacon' = <<spot>>
                  /\ window' = TrackingWindow(a, spot.x - corner[1], spot.y - corner[2],
                                              SpotWidth(spot.pixelCount), a)
             ELSE beacon' = <<>> /\ window' = a
  /\ UNCHANGED imageVars

ImagingNext == Group \/ Follow

ImagingSpec == ImagingInit /\ [][ImagingNext]_imagingVars

-------------------------------------------------------------------------------
\* The window for the next picture holds the spot, and one that was changed starts and
\* ends at multiples of what the camera takes (updateTrackingWindow: "x and width must be
\* a multiple of 16").
WindowFollows ==
  \A i \in 1..Len(beacon) :
    /\ Covers(window.x, beacon[i].x) /\ Covers(window.y, beacon[i].y)
    /\ window # area =>
         /\ window.x.start % QuantumX = 0 /\ window.x.length % QuantumX = 0
         /\ window.y.start % QuantumY = 0 /\ window.y.length % QuantumY = 0
===============================================================================
