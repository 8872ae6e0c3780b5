----------------------------- MODULE GpuSelection -----------------------------
(***************************************************************************)
(* Which GPU the window is drawn with: render/adapter.rs and Gpu::new.     *)
(*                                                                         *)
(* An adapter is the record of its AdapterFacts and of how its bring-up    *)
(* ends; its index is its position.  Vendor and device are one number, the *)
(* model; 0 is the PCI address of an adapter that reports none.  A         *)
(* connector is an entry of /sys/class/drm: whether it is connected and    *)
(* the device of its card, or None if that cannot be read.                 *)
(***************************************************************************)
EXTENDS Integers, Sequences, FiniteSets

CONSTANT None

NoPci == 0

(* Connected outputs, by device.                                           *)
discover_displays(connectors) ==
    {c.device : c \in {d \in connectors : d.connected /\ d.device # None}}

MatchesDisplay(a, displays) == a.pci # NoPci /\ \E d \in displays : d.pci = a.pci

MatchesModel(a, displays) == \E d \in displays : d.model = a.model

score_DiscreteFirst(a, displays) ==
    (IF MatchesDisplay(a, displays) THEN 1000 ELSE IF MatchesModel(a, displays) THEN 500 ELSE 0)
    + (IF a.device_type = "discrete" THEN 2000 ELSE 0)
    + (IF a.backend = "vulkan" THEN 10 ELSE 0)

(* A discrete GPU is preferred only where no display is known.             *)
score(a, displays) ==
    (IF MatchesDisplay(a, displays) THEN 1000 ELSE IF MatchesModel(a, displays) THEN 500 ELSE 0)
    + (IF displays = {} /\ a.device_type = "discrete" THEN 100 ELSE 0)
    + (IF a.backend = "vulkan" THEN 10 ELSE 0)

(* The candidates of rank: a software rasteriser is one only if no         *)
(* hardware presents.                                                      *)
rank_candidates(adapters) ==
    LET presents == {i \in DOMAIN adapters : adapters[i].presents}
        hardware == {i \in presents : adapters[i].device_type # "cpu"}
    IN  IF hardware = {} THEN presents ELSE hardware

(* The order rank sorts them in: by score, then by index.                  *)
ranks_before(adapters, displays, i, j) ==
    LET si == score(adapters[i], displays)
        sj == score(adapters[j], displays)
    IN  si > sj \/ (si = sj /\ i < j)

reason_for(a, displays) ==
    IF a.device_type = "cpu" THEN "SoftwareRasteriser"
    ELSE IF MatchesDisplay(a, displays) THEN "MatchedDisplay"
    ELSE IF MatchesModel(a, displays) THEN "MatchedDisplayVendorDevice"
    ELSE "NoDisplayInfo"

(* RADAR_GPU: [kind, value], or None where it is unset or blank.           *)
matches(over, a) ==
    CASE over.kind = "pci"  -> a.pci = over.value
      [] over.kind = "name" -> over.value \in a.name
      [] OTHER              -> a.device_type = over.kind

(* The adapters RADAR_GPU asks for, which are tried by index.              *)
select(over, adapters) == {i \in DOMAIN adapters : matches(over, adapters[i])}

(* A device, a surface format, a configuration the surface takes and one   *)
(* frame, in this order.                                                   *)
bring_up(a) == a.device_granted /\ a.presents /\ a.configures /\ a.acquires

(* Who is tried and in which order; the first of a set is tried first.     *)
tried(adapters, over) == IF over # None THEN select(over, adapters) ELSE rank_candidates(adapters)

first(set, adapters, displays, over) ==
    CHOOSE i \in set : \A j \in set \ {i} :
        IF over # None THEN i < j ELSE ranks_before(adapters, displays, i, j)

(* The walk over them: the first that comes up is taken.  The adapter and  *)
(* the reason of the choice, or the error.                                 *)
new(adapters, connectors, over) ==
    LET displays == discover_displays(connectors)
        up       == {i \in tried(adapters, over) : bring_up(adapters[i])}
        chosen   == first(up, adapters, displays, over)
    IN  IF adapters = <<>> THEN [adapter |-> None, reason |-> "NoAdapter"]
        ELSE IF up = {} THEN [adapter |-> None, reason |-> "NoPresentableAdapter"]
        ELSE [adapter |-> chosen,
              reason |-> IF over # None THEN "ForcedByOverride"
                         ELSE reason_for(adapters[chosen], displays)]
=============================================================================
