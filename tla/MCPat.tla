--------------------------------- MODULE MCPat ---------------------------------
(* Instances of Pat for TLC: the commands the ground sends. *)
EXTENDS Pat

Plain(ops) == [op : ops, flag : {"NONE"}]

\* One command of every kind the code tells apart.  The feedback variants and
\* other flags differ from these in one assignment, TX_ALIGN in the mirror's value.
ModeCommands == [op : {"START_PAT"}, flag : {"SKIP", "OTHER"}]
                  \cup [op : {"START_PAT_OPEN_LOOP"}, flag : {"DO"}]
                  \cup Plain({"STATIC_POINT", "BCN_ALIGN", "UPDATE_FSM", "CALIB_TEST",
                              "FSM_TEST", "SELF_TEST", "ENABLE_DITHER", "END_PAT",
                              "END_PROCESS"})

\* Two states that differ only in what no guard reads, the results of the self test
\* and the history variables, count as one.
Control == <<at, phase, camera, modes, staticInit, endPat, sweep, calKnow, bcnKnow,
             transform, mirror, lossB, lossC, queue, outside>>

\* Closed and open loop sessions, calibrated and not, and the ways to end them.
TrackingCommands == [op : {"START_PAT", "START_PAT_OPEN_LOOP"}, flag : {"SKIP"}]
                      \cup Plain({"END_PAT", "END_PROCESS"})
===============================================================================
