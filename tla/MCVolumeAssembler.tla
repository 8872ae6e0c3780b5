-------------------------- MODULE MCVolumeAssembler --------------------------
EXTENDS VolumeAssembler

R(e, closing, t, v) == [elevation_number |-> e, closing |-> closing, time |-> t, site_vcp |-> v]
C(k, ok, v, rs) == [kind |-> k, decodes |-> ok, vcp |-> v, radials |-> rs]

(* Chunks of one or two radials of two elevations, closing or not, with    *)
(* and without Message 5 and RVOL, and one that does not decode.           *)
MCInputs ==
    { C("Start", TRUE, 0, <<>>), C("Start", TRUE, 212, <<>>),
      C("Intermediate", FALSE, 0, <<>>),
      C("Intermediate", TRUE, 0, <<R(1, FALSE, 1, 35)>>),
      C("Intermediate", TRUE, 0, <<R(1, FALSE, 2, 0), R(1, TRUE, 2, 0)>>),
      C("Intermediate", TRUE, 0, <<R(1, TRUE, 2, 35), R(2, FALSE, 2, 35)>>),
      C("Intermediate", TRUE, 0, <<R(2, FALSE, 3, 0), R(1, FALSE, 3, 0)>>),
      C("End", TRUE, 0, <<>>),
      C("End", TRUE, 0, <<R(2, TRUE, 3, 35)>>),
      C("End", TRUE, 0, <<R(1, FALSE, 3, 0), R(2, TRUE, 3, 0)>>) }
=============================================================================
