-------------------------------- MODULE Compute --------------------------------
(***************************************************************************)
(* The compute task: compute_loop and handle_event, with the RetainedTilts *)
(* it keeps across a volume.  The input event comes from the assembly      *)
(* channel, which the module that composes the stages provides; the        *)
(* updates to send are left in pending, one tx.send at a time.             *)
(*                                                                         *)
(*   recv      in select! on the channel and shutdown                      *)
(*   blocking  awaiting spawn_blocking (gridding or derivation)            *)
(*   send      in tx.send                                                  *)
(*   done      compute_loop has returned                                   *)
(*                                                                         *)
(* A SweepGrid is its product and the sweep it was made from: elevation    *)
(* number and volume.  A derived grid is its product and the tilts it was  *)
(* derived from.                                                           *)
(***************************************************************************)
EXTENDS Naturals, Sequences

CONSTANTS
    BaseProducts,          \* base products a sweep may carry, Reflectivity among them
    RetainedElevationCap,  \* RETAINED_ELEVATION_CAP
    None

VARIABLES
    cpc,       \* where compute_loop is
    event,     \* the AssemblyEvent in hand, None in recv
    retained,  \* RetainedTilts.tilts, in closure order
    pending    \* StateUpdates handle_event has still to send

cvars == <<cpc, event, retained, pending>>

-----------------------------------------------------------------------------

Init == cpc = "recv" /\ event = None /\ retained = <<>> /\ pending = <<>>

(* RetainedTilts::offer for a reflectivity grid; others are not kept.      *)
offer(tilts, grid) ==
    LET pushed == Append(tilts, grid)
    IN  IF Len(pushed) > RetainedElevationCap THEN Tail(pushed) ELSE pushed

(* grid_all_base_products: one grid per product the sweep carries and that *)
(* can be gridded.                                                         *)
grid_all_base_products(products, e) ==
    {[product |-> p, elevation_number |-> e.sweep.elevation_number, volume |-> e.volume]
        : p \in products}

(* Both derived products, or none when no reflectivity tilt was retained.  *)
compute_derived(tilts) ==
    IF tilts = <<>> THEN {}
    ELSE {[product |-> p, tilts |-> {tilts[i] : i \in DOMAIN tilts}] : p \in {"EchoTops", "Vil"}}

from_scan(e) == [volume |-> e.volume, vcp_number |-> e.vcp_number, status |-> e.status]

(* handle_event returned false, or went on to the next event.              *)
Updates(us) ==
    /\ pending' = us
    /\ cpc' = IF us = <<>> THEN "recv" ELSE "send"
    /\ event' = None

(* rx.recv() gave e: observability events pass through, the others need a  *)
(* blocking job unless the volume did not complete.                        *)
Take(e) ==
    /\ cpc = "recv"
    /\ CASE e.type = "SweepClosed" \/ (e.type = "VolumeClosed" /\ e.status = "Complete") ->
              cpc' = "blocking" /\ event' = e /\ UNCHANGED <<retained, pending>>
         [] e.type = "VolumeClosed" /\ e.status # "Complete" ->
              /\ retained' = <<>>
              /\ Updates(<<[type |-> "VolumeClosed", summary |-> from_scan(e)]>>)
         [] OTHER ->
              Updates(<<[type |-> "Info", event |-> e.type]>>) /\ UNCHANGED retained

Gridded_SkipsEmpty(products) ==
    /\ cpc = "blocking" /\ event.type = "SweepClosed"
    /\ LET grids == grid_all_base_products(products, event)
       IN  /\ retained' = IF "Reflectivity" \in products
                          THEN offer(retained, CHOOSE g \in grids : g.product = "Reflectivity")
                          ELSE retained
           /\ Updates(IF grids = {} THEN <<>>
                      ELSE <<[type |-> "SweepGridded",
                              elevation_number |-> event.sweep.elevation_number,
                              volume |-> event.volume, vcp_number |-> event.vcp_number,
                              grids |-> grids]>>)

(* The gridding job of a closed sweep has finished.                        *)
Gridded(products) ==
    /\ cpc = "blocking" /\ event.type = "SweepClosed"
    /\ LET grids == grid_all_base_products(products, event)
       IN  /\ retained' = IF "Reflectivity" \in products
                          THEN offer(retained, CHOOSE g \in grids : g.product = "Reflectivity")
                          ELSE retained
           /\ Updates(<<[type |-> "SweepGridded",
                         elevation_number |-> event.sweep.elevation_number,
                         volume |-> event.volume, vcp_number |-> event.vcp_number,
                         grids |-> grids]>>)

(* Gridding will make offer drop the oldest tilt, which is reported.       *)
BoundsRetained(products) == "Reflectivity" \in products /\ Len(retained) = RetainedElevationCap

(* The derivation job of a complete volume has finished.  The tilts were   *)
(* taken when it started; only this task touches them.                     *)
Derived ==
    /\ cpc = "blocking" /\ event.type = "VolumeClosed"
    /\ LET grids == compute_derived(retained)
           closed == [type |-> "VolumeClosed", summary |-> from_scan(event)]
           derived == [type |-> "DerivedComputed", volume |-> event.volume,
                       vcp_number |-> event.vcp_number, grids |-> grids]
       IN  Updates(IF grids = {} THEN <<closed>> ELSE <<derived, closed>>)
    /\ retained' = <<>>

(* tx.send(update).await succeeded.                                        *)
Send ==
    /\ cpc = "send"
    /\ Updates(Tail(pending))
    /\ UNCHANGED retained

(* The channel closed, shutdown was published, or the applier is gone.     *)
Return ==
    /\ cpc \in {"recv", "send"}
    /\ cpc' = "done"
    /\ UNCHANGED <<event, retained, pending>>
=============================================================================
