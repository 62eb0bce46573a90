-------------------------------- MODULE MCBeam --------------------------------
EXTENDS Beam

MCSpiral == << <<0, 0>>, <<1, 0>>, <<1, 1>>, <<0, 1>> >>
\* Turned, stretched and off centre.
MCDetector(x, y) == <<3 + x - 2 * y, 1 + x + y>>
MCSteerings == {<<1, 0>>}
MCLosable == {{}, {"XP"}, {"YM"}}

ASSUME MCSpiralDetermines == Determined
===============================================================================
