---------------------------- MODULE MCRadarState ----------------------------
EXTENDS RadarState

MCSweepGrids == {{"g1"}, {"g2"}}
MCDerivedGrids == {{"echo_tops"}, {"echo_tops", "vil"}}
=============================================================================
