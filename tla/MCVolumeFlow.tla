----------------------------- MODULE MCVolumeFlow -----------------------------
EXTENDS VolumeFlow

CONSTANTS MCVolumes,      \* volumes of the stream
          MCLaterVcps,    \* VCPs the second volume may be flown in
          MCUndecodable   \* at most this many chunks do not decode

MCOrigin(t) == t \div 10

Radials(v, k) ==
    LET R1(e, closing) == [elevation_number |-> e, closing |-> closing,
                           time |-> 10 * v + k, site_vcp |-> 0]
    IN  IF k = 1 THEN <<R1(1, FALSE)>> ELSE <<R1(1, TRUE), R1(2, TRUE)>>

(* A volume of two elevations in three chunks, the first elevation spread  *)
(* over two of them; every radial carries the volume's VCP number.         *)
VolumeChunks(v, vcp) ==
    <<[kind |-> "Start", decodes |-> TRUE, vcp |-> vcp, radials |-> <<>>]>> \o
    [k \in 1..2 |->
        [kind |-> IF k = 2 THEN "End" ELSE "Intermediate", decodes |-> TRUE, vcp |-> 0,
         radials |-> [i \in DOMAIN Radials(v, k) |-> [Radials(v, k)[i] EXCEPT !.site_vcp = vcp]]]]

(* The first volume is flown in VCP 212, the next in one of MCLaterVcps.    *)
Whole == {VolumeChunks(1, 212) \o rest : rest \in
            IF MCVolumes = 1 THEN {<<>>} ELSE {VolumeChunks(2, vcp) : vcp \in MCLaterVcps}}

MCStreams ==
    UNION {{[i \in DOMAIN w |-> [w[i] EXCEPT !.decodes = i \notin bad]]
              : bad \in {b \in SUBSET DOMAIN w : Cardinality(b) <= MCUndecodable}} : w \in Whole}

MCTimes == {10 * v + k : v \in 1..MCVolumes, k \in 1..2}
=============================================================================
