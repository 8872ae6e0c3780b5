----------------------------- MODULE MergedDisplay -----------------------------
(***************************************************************************)
(* What the workstation promises of its display, without saying how the    *)
(* data gets there: the newest sweep of every elevation of one volume      *)
(* coverage pattern, carried across volume boundaries, and volume products *)
(* that each stand for one whole volume.                                   *)
(***************************************************************************)
EXTENDS Naturals

CONSTANTS Elevations, VolumeIds, Patterns, None

VARIABLES
    shown,    \* volume of the sweep shown at an elevation, None for none
    pattern,  \* the coverage pattern shown
    derived   \* [volume, tilts] of the volume products shown, or None

dvars == <<shown, pattern, derived>>

Blank == [e \in Elevations |-> None]

DisplayInit == shown = Blank /\ pattern = None /\ derived = None

(* The same pattern goes on: an elevation is refreshed, never set back.    *)
ShowSweep(e, v) ==
    /\ shown[e] = None \/ ~(v < shown[e])
    /\ pattern # None
    /\ shown' = [shown EXCEPT ![e] = v]
    /\ UNCHANGED <<pattern, derived>>

(* A new pattern starts from a blank display.                              *)
SwitchPattern(e, v, p) ==
    /\ p # pattern
    /\ pattern' = p
    /\ shown' = [Blank EXCEPT ![e] = v]
    /\ derived' = None

(* Volume products of volume v are derived from tilts of v alone, and do   *)
(* not replace those of a later volume.                                    *)
ShowDerived(v, elevations) ==
    /\ elevations # {}
    /\ derived # None => ~(v < derived.volume)
    /\ derived' = [volume |-> v, tilts |-> [elevation_number : elevations, volume : {v}]]
    /\ UNCHANGED <<shown, pattern>>

DisplayNext ==
    \/ \E e \in Elevations, v \in VolumeIds : ShowSweep(e, v)
    \/ \E e \in Elevations, v \in VolumeIds, p \in Patterns : SwitchPattern(e, v, p)
    \/ \E v \in VolumeIds, es \in SUBSET Elevations : ShowDerived(v, es)

DisplaySpec == DisplayInit /\ [][DisplayNext]_dvars
=============================================================================
