-------------------------- MODULE ComputationsProofs --------------------------
(***************************************************************************)
(* What holds of the computations for every input, of the restart policy   *)
(* for any number of panics, and of the pipeline it restarts.              *)
(***************************************************************************)
EXTENDS Computations, Pipeline, WellFoundedInduction, FiniteSetTheorems, SequenceTheorems, TLAPS

-----------------------------------------------------------------------------
(* The restart policy.                                                     *)

(* The delay is the one of the restart before the counter was increased.   *)
PolicyInv ==
    /\ consecutive_restarts \in Nat
    /\ last_restart_at \in Nat \cup {None}
    /\ restarts \in Nat
    /\ delay = IF consecutive_restarts = 0 THEN 0 ELSE backoff(consecutive_restarts - 1)

(* backoff is 1, 2, 4, 8, 16 and then the cap.                             *)
LEMMA BackoffValues ==
    /\ backoff(0) = 1 /\ backoff(1) = 2 /\ backoff(2) = 4 /\ backoff(3) = 8 /\ backoff(4) = 16
    /\ \A n \in Nat : n >= 5 => backoff(n) = BackoffCap
<1>1. 2^0 = 1 /\ 2^1 = 2 /\ 2^2 = 4 /\ 2^3 = 8 /\ 2^4 = 16 /\ 2^5 = 32
  OBVIOUS
<1>2. /\ backoff(0) = 1 /\ backoff(1) = 2 /\ backoff(2) = 4 /\ backoff(3) = 8 /\ backoff(4) = 16
  BY <1>1 DEF backoff, Capped, BackoffCap
<1>3. ASSUME NEW n \in Nat, n >= 5 PROVE backoff(n) = BackoffCap
  BY <1>1, <1>3 DEF backoff, Capped, BackoffCap
<1> QED BY <1>2, <1>3

(* It never leaves 1..BackoffCap and never falls.                          *)
LEMMA BackoffGrows ==
    ASSUME NEW n \in Nat
    PROVE  /\ backoff(n) \in 1..BackoffCap
           /\ backoff(n) <= backoff(n + 1)
<1>1. n \in 0..3 \/ n = 4 \/ n >= 5 OBVIOUS
<1>2. CASE n \in 0..3
  <2>1. n = 0 \/ n = 1 \/ n = 2 \/ n = 3 BY <1>2
  <2> QED BY <2>1, BackoffValues DEF BackoffCap
<1>3. CASE n = 4
  BY <1>3, BackoffValues DEF BackoffCap
<1>4. CASE n >= 5
  BY <1>4, BackoffValues DEF BackoffCap
<1> QED BY <1>1, <1>2, <1>3, <1>4

(* What the property says of a step.                                       *)
BacksOff ==
    restarts' > restarts =>
        IF last_restart_at # None /\ last_restart_at >= ResetAfter
        THEN delay' = 1
        ELSE delay' \in delay..BackoffCap /\ delay' # 0

(* Every panic and every moment of quiet keeps the invariant and backs off. *)
LEMMA PolicyStep ==
    ASSUME PolicyInv, [PolicyNext]_policyVars
    PROVE  PolicyInv' /\ BacksOff
<1> USE PolicyAssumption
<1>1. CASE PolicyPanic
  <2> DEFINE clean == last_restart_at # None /\ last_restart_at >= ResetAfter
             n == IF clean THEN 0 ELSE consecutive_restarts
  <2>1. /\ n \in Nat /\ delay' = backoff(n) /\ consecutive_restarts' = n + 1
        /\ last_restart_at' = 0 /\ restarts' = restarts + 1
    BY <1>1 DEF PolicyPanic, on_panic, PolicyInv
  <2>2. PolicyInv'
    <3> HIDE DEF n
    <3>1. n + 1 \in Nat /\ n + 1 # 0 /\ (n + 1) - 1 = n
      BY <2>1
    <3>2. delay' = backoff(consecutive_restarts' - 1)
      BY <2>1, <3>1
    <3> QED BY <1>1, <2>1, <3>1, <3>2 DEF PolicyInv
  <2>3. CASE clean
    BY <2>1, <2>2, <2>3, BackoffValues DEF BacksOff
  <2>4. CASE ~clean
    <3>1. delay' = backoff(consecutive_restarts) /\ consecutive_restarts \in Nat
      BY <2>1, <2>4
    <3>2. delay' \in 1..BackoffCap
      BY <3>1, BackoffGrows
    <3>3. delay \in Nat /\ delay <= delay'
      <4>1. CASE consecutive_restarts = 0
        BY <4>1, <3>2 DEF PolicyInv, BackoffCap
      <4>2. CASE consecutive_restarts # 0
        <5>1. consecutive_restarts - 1 \in Nat /\ (consecutive_restarts - 1) + 1 = consecutive_restarts
          BY <3>1, <4>2
        <5>2. delay = backoff(consecutive_restarts - 1)
          BY <4>2 DEF PolicyInv
        <5>3. /\ backoff(consecutive_restarts - 1) \in 1..BackoffCap
              /\ backoff(consecutive_restarts - 1) <= backoff((consecutive_restarts - 1) + 1)
          BY <5>1, BackoffGrows
        <5>4. backoff((consecutive_restarts - 1) + 1) = backoff(consecutive_restarts)
          BY <5>1
        <5> QED BY <3>1, <5>2, <5>3, <5>4 DEF BackoffCap
      <4> QED BY <4>1, <4>2
    <3>4. delay' \in delay..BackoffCap /\ delay' # 0
      BY <3>2, <3>3 DEF BackoffCap
    <3> QED BY <2>2, <2>4, <3>4 DEF BacksOff
  <2> QED BY <2>3, <2>4
<1>2. CASE Elapse
  BY <1>2 DEF Elapse, PolicyInv, BacksOff
<1>3. CASE UNCHANGED policyVars
  BY <1>3 DEF policyVars, PolicyInv, BacksOff
<1> QED BY <1>1, <1>2, <1>3 DEF PolicyNext

(* On the bench the policy moves by its own steps only.                    *)
LEMMA BenchMovesPolicy ==
    ASSUME [BenchNext]_benchVars
    PROVE  [PolicyNext]_policyVars
  BY DEF BenchNext, benchVars, ChooseGpu, Decode, GridSweep, Derive, Colour, DrawMap, Restart, Page, Try

(* A crash loop waits longer and longer up to BACKOFF_CAP, and only a      *)
(* clean BACKOFF_RESET_AFTER_CLEAN brings the delay back to one second     *)
(* (RestartPolicy::on_panic, backoff).                                     *)
THEOREM BackoffNeverShrinks == BenchSpec => CrashLoopBacksOff
<1>1. BenchInit => PolicyInv
  BY PolicyAssumption DEF BenchInit, PolicyInit, PolicyInv
<1>2. PolicyInv /\ [BenchNext]_benchVars => PolicyInv' BY PolicyStep, BenchMovesPolicy
<1>3. PolicyInv /\ [BenchNext]_benchVars =>
        [restarts' > restarts =>
           IF last_restart_at # None /\ last_restart_at >= ResetAfter
           THEN delay' = 1
           ELSE delay' \in delay..BackoffCap /\ delay' # 0]_policyVars
  BY PolicyStep, BenchMovesPolicy DEF BacksOff
<1> QED BY <1>1, <1>2, <1>3, PTL DEF BenchSpec, CrashLoopBacksOff

-----------------------------------------------------------------------------
(* The choice of the GPU.                                                  *)

(* A nonempty set of natural numbers has a least element.                  *)
LEMMA LeastExists ==
    ASSUME NEW T, T \subseteq Nat, T # {}
    PROVE  \E x \in T : \A y \in T : x <= y
<1>1. PICK x \in T : \A y \in T : ~(<<y, x>> \in OpToRel(<, Nat))
  <2> HIDE DEF OpToRel
  <2> QED BY WFMin, NatLessThanWellFounded
<1>2. ASSUME NEW y \in T PROVE x <= y
  <2>1. <<y, x>> \in Nat \X Nat OBVIOUS
  <2>2. ~(y < x) BY <1>1, <2>1 DEF OpToRel
  <2> QED BY <2>2
<1> QED BY <1>1, <1>2

(* A score is a natural number; it tells the adapters that drive a         *)
(* display, where one is known, from the others.                           *)
LEMMA ScoreValues ==
    ASSUME NEW a, NEW displays
    PROVE  /\ Gpu!score(a, displays) \in Nat /\ Gpu!score(a, displays) <= 1110
           /\ Gpu!MatchesDisplay(a, displays) => Gpu!score(a, displays) >= 1000
           /\ displays # {} /\ ~Gpu!MatchesDisplay(a, displays) => Gpu!score(a, displays) <= 510
<1>1. PICK drive : drive = IF Gpu!MatchesDisplay(a, displays) THEN 1000
                           ELSE IF Gpu!MatchesModel(a, displays) THEN 500 ELSE 0
  OBVIOUS
<1>2. /\ drive \in {0, 500, 1000}
      /\ Gpu!MatchesDisplay(a, displays) => drive = 1000
      /\ ~Gpu!MatchesDisplay(a, displays) => drive # 1000
  BY <1>1
<1>3. PICK bonus : bonus = IF displays = {} /\ a.device_type = "discrete" THEN 100 ELSE 0
  OBVIOUS
<1>4. PICK vulkan : vulkan = IF a.backend = "vulkan" THEN 10 ELSE 0
  OBVIOUS
<1>5. Gpu!score(a, displays) = drive + bonus + vulkan
  BY <1>1, <1>3, <1>4 DEF Gpu!score
<1>6. bonus \in {0, 100} /\ vulkan \in {0, 10} /\ (displays # {} => bonus = 0)
  BY <1>3, <1>4
<1> QED BY <1>2, <1>5, <1>6

(* Of adapters that can be tried one is tried first.                       *)
LEMMA FirstExists ==
    ASSUME NEW adapters, NEW displays, NEW over, NEW up \in SUBSET Nat, up # {}
    PROVE  LET i == Gpu!first(up, adapters, displays, over)
           IN  i \in up /\ \A j \in up \ {i} :
                  IF over # None THEN i < j ELSE Gpu!ranks_before(adapters, displays, i, j)
<1> DEFINE Before(i, j) == IF over # None THEN i < j ELSE Gpu!ranks_before(adapters, displays, i, j)
<1>1. \E i \in up : \A j \in up \ {i} : Before(i, j)
  <2>1. CASE over # None
    <3>1. PICK n \in up : \A m \in up : n <= m BY LeastExists
    <3>2. \A j \in up \ {n} : n < j BY <3>1
    <3> QED BY <2>1, <3>2
  <2>2. CASE ~(over # None)
    <3>1. PICK worth : worth = [i \in up |-> Gpu!score(adapters[i], displays)]
      OBVIOUS
    <3>2. worth \in [up -> Nat] /\ \A i \in up : worth[i] <= 1110
      BY <3>1, ScoreValues
    <3> DEFINE Losses == {n \in Nat : \E i \in up : n = 1110 - worth[i]}
    <3>0. Losses \in SUBSET Nat /\ Losses # {}
      <4>1. PICK i : i \in up OBVIOUS
      <4>2. 1110 - worth[i] \in Nat BY <3>2, <4>1
      <4> QED BY <4>1, <4>2
    <3>3. PICK l \in Losses : \A m \in Losses : l <= m
      <4> HIDE DEF Losses
      <4> QED BY <3>0, LeastExists
    <3> DEFINE Best == {i \in up : 1110 - worth[i] = l}
    <3>4. Best \subseteq Nat /\ Best # {}
      <4>1. PICK i \in up : l = 1110 - worth[i] BY <3>3
      <4>2. i \in Best BY <4>1
      <4>3. \A j \in Best : j \in Nat OBVIOUS
      <4> HIDE DEF Best
      <4> QED BY <4>2, <4>3
    <3>5. PICK n \in Best : \A m \in Best : n <= m
      <4> HIDE DEF Best
      <4> QED BY <3>4, LeastExists, Zenon
    <3>6. ASSUME NEW j \in up \ {n} PROVE worth[n] > worth[j] \/ (worth[n] = worth[j] /\ n < j)
      <4>1. 1110 - worth[n] <= 1110 - worth[j]
        <5>1. 1110 - worth[j] \in Losses BY <3>2
        <5>2. 1110 - worth[n] = l BY <3>5
        <5> QED BY <3>3, <5>1, <5>2
      <4>2. worth[n] \in Nat /\ worth[j] \in Nat BY <3>2, <3>5
      <4>3. CASE worth[n] = worth[j]
        <5>1. j \in Best BY <3>5, <4>3
        <5>2. n <= j /\ n # j /\ n \in Nat /\ j \in Nat BY <3>5, <5>1
        <5> QED BY <4>3, <5>2
      <4>4. CASE worth[n] # worth[j]
        BY <4>1, <4>2, <4>4
      <4> QED BY <4>3, <4>4
    <3>7. \A j \in up \ {n} : Gpu!ranks_before(adapters, displays, n, j)
      BY <3>1, <3>5, <3>6 DEF Gpu!ranks_before
    <3> QED BY <2>2, <3>5, <3>7
  <2> QED BY <2>1, <2>2
<1> QED BY <1>1 DEF Gpu!first

(* What Gpu::new tries.                                                    *)
Up(x) == {i \in Gpu!tried(x.adapters, x.over) : Gpu!bring_up(x.adapters[i])}

(* The adapter taken is tried and comes up, and of all that do it is the   *)
(* first; there is none only if none comes up.                             *)
LEMMA NewTakesFirst ==
    ASSUME NEW x \in GpuInputs
    PROVE  LET r == Gpu!new(x.adapters, x.connectors, x.over)
               displays == Gpu!discover_displays(x.connectors)
           IN  \/ r.adapter = None /\ Up(x) = {}
               \/ /\ r.adapter \in Up(x) /\ r.adapter # None
                  /\ \A j \in Up(x) \ {r.adapter} :
                        x.over = None => Gpu!ranks_before(x.adapters, displays, r.adapter, j)
                  /\ x.over = None => r.reason = Gpu!reason_for(x.adapters[r.adapter], displays)
<1> DEFINE r == Gpu!new(x.adapters, x.connectors, x.over)
<1>1. PICK displays : displays = Gpu!discover_displays(x.connectors)
  OBVIOUS
<1>2. DOMAIN x.adapters \subseteq Nat
  BY BenchAssumption
<1>3. Up(x) \subseteq DOMAIN x.adapters
  BY DEF Up, Gpu!tried, Gpu!select, Gpu!rank_candidates
<1>4. CASE x.adapters = <<>>
  <2>1. DOMAIN x.adapters = {}
    BY <1>4
  <2>2. r.adapter = None
    BY <1>4 DEF Gpu!new
  <2> QED BY <1>3, <2>1, <2>2
<1>5. CASE x.adapters # <<>> /\ Up(x) = {}
  <2>1. r.adapter = None
    BY <1>5 DEF Gpu!new, Up
  <2> QED BY <1>5, <2>1
<1>6. CASE x.adapters # <<>> /\ Up(x) # {}
  <2>1. PICK chosen : chosen = Gpu!first(Up(x), x.adapters, displays, x.over)
    OBVIOUS
  <2>2. r = [adapter |-> chosen,
             reason |-> IF x.over # None THEN "ForcedByOverride"
                        ELSE Gpu!reason_for(x.adapters[chosen], displays)]
    BY <1>1, <1>6, <2>1 DEF Gpu!new, Up
  <2>3. chosen \in Up(x) /\ \A j \in Up(x) \ {chosen} :
            IF x.over # None THEN chosen < j ELSE Gpu!ranks_before(x.adapters, displays, chosen, j)
    BY <1>2, <1>3, <1>6, <2>1, FirstExists
  <2>4. chosen # None
    BY <1>2, <1>3, <2>3, PolicyAssumption
  <2>5. r.adapter = chosen /\ (x.over = None => r.reason = Gpu!reason_for(x.adapters[chosen], displays))
    BY <2>2
  <2> QED BY <1>1, <2>3, <2>4, <2>5
<1> QED BY <1>4, <1>5, <1>6

(* A computation tried on the bench keeps its input and its result.        *)
GpuCase == Tried("gpu") =>
    /\ case.input \in GpuInputs
    /\ case.result = Gpu!new(case.input.adapters, case.input.connectors, case.input.over)

LEMMA GpuCaseHolds ==
    /\ BenchInit => GpuCase
    /\ GpuCase /\ [BenchNext]_benchVars => GpuCase'
<1>1. BenchInit => GpuCase
  BY DEF BenchInit, GpuCase, Tried
<1>2. ASSUME GpuCase, [BenchNext]_benchVars PROVE GpuCase'
  <2>1. CASE ChooseGpu
    BY <2>1 DEF ChooseGpu, Try, GpuCase, Tried
  <2>2. ASSUME NEW fn \in {"chunk", "grid", "derived", "palette", "map"}, NEW x, NEW y, Try(fn, x, y)
        PROVE  GpuCase'
    BY <2>2 DEF Try, GpuCase, Tried
  <2>3. CASE Decode \/ GridSweep \/ Derive \/ Colour \/ DrawMap
    BY <2>2, <2>3, Zenon DEF Decode, GridSweep, Derive, Colour, DrawMap
  <2>4. CASE UNCHANGED case
    BY <1>2, <2>4 DEF GpuCase, Tried
  <2>5. CASE Restart \/ Page \/ UNCHANGED benchVars
    BY <2>4, <2>5 DEF Restart, Page, benchVars
  <2> QED BY <1>2, <2>1, <2>3, <2>5 DEF BenchNext
<1> QED BY <1>1, <1>2

(* An adapter that drives a connected output is one that matches a display *)
(* found under /sys.                                                       *)
Drives(x, i) == \E c \in x.connectors : /\ c.connected /\ c.device # None
                                        /\ c.device.pci = x.adapters[i].pci
                                        /\ c.device.pci # 0

LEMMA DrivesIsMatch ==
    ASSUME NEW x, NEW i, NEW displays, displays = Gpu!discover_displays(x.connectors)
    PROVE  /\ Drives(x, i) <=> Gpu!MatchesDisplay(x.adapters[i], displays)
           /\ Drives(x, i) => displays # {}
<1>1. \A d : d \in displays <=> \E c \in x.connectors : c.connected /\ c.device # None /\ d = c.device
  BY DEF Gpu!discover_displays
<1> QED BY <1>1 DEF Drives, Gpu!MatchesDisplay, Gpu!NoPci

(* Where a display is known and an adapter that drives one comes up, the   *)
(* one chosen drives one.                                                  *)
LEMMA DriverWins ==
    ASSUME NEW adapters, NEW displays, NEW i, NEW j,
           Gpu!ranks_before(adapters, displays, i, j),
           Gpu!MatchesDisplay(adapters[j], displays), displays # {}
    PROVE  Gpu!MatchesDisplay(adapters[i], displays)
<1>1. Gpu!score(adapters[i], displays) >= Gpu!score(adapters[j], displays)
  BY ScoreValues DEF Gpu!ranks_before
<1>2. Gpu!score(adapters[i], displays) >= 1000
  BY <1>1, ScoreValues
<1>3. Gpu!score(adapters[i], displays) > 510
  BY <1>2, ScoreValues
<1> QED BY <1>3, ScoreValues

(* Every choice of Gpu::new is sound.                                      *)
LEMMA CaseIsSound == GpuCase => GpuChoiceIsSound
<1> SUFFICES ASSUME GpuCase, Tried("gpu") PROVE GpuChoiceIsSound
  BY DEF GpuChoiceIsSound
<1>1. PICK x \in GpuInputs : x = case.input
  BY DEF GpuCase
<1>2. PICK displays : displays = Gpu!discover_displays(x.connectors)
  OBVIOUS
<1>3. PICK r : r = case.result
  OBVIOUS
<1>4. \/ r.adapter = None /\ Up(x) = {}
      \/ /\ r.adapter \in Up(x) /\ r.adapter # None
         /\ \A j \in Up(x) \ {r.adapter} :
               x.over = None => Gpu!ranks_before(x.adapters, displays, r.adapter, j)
         /\ x.over = None => r.reason = Gpu!reason_for(x.adapters[r.adapter], displays)
  BY <1>1, <1>2, <1>3, NewTakesFirst DEF GpuCase
<1> DEFINE up       == {i \in DOMAIN x.adapters : Gpu!bring_up(x.adapters[i])}
           hardware == {i \in DOMAIN x.adapters : x.adapters[i].device_type # "cpu"}
           software == \A i \in hardware : ~x.adapters[i].presents
<1>5. Up(x) \subseteq up
  BY DEF Up, Gpu!tried, Gpu!select, Gpu!rank_candidates
<1>6. x.over # None => Up(x) = {i \in up : Gpu!matches(x.over, x.adapters[i])}
  BY DEF Up, Gpu!tried, Gpu!select
<1>7. x.over = None => Up(x) = IF software THEN up ELSE up \cap hardware
  <2>1. \A i \in up : x.adapters[i].presents
    BY DEF Gpu!bring_up
  <2> QED BY <2>1 DEF Up, Gpu!tried, Gpu!rank_candidates
<1>8. r.adapter # None => r.adapter \in up
  BY <1>4, <1>5
<1>9. r.adapter # None /\ x.over # None => Gpu!matches(x.over, x.adapters[r.adapter])
  BY <1>4, <1>6
<1>10. r.adapter = None /\ x.over # None => \A i \in up : ~Gpu!matches(x.over, x.adapters[i])
  BY <1>4, <1>6
<1>11. ASSUME x.over = None, NEW i \in up \cap hardware, Drives(x, i)
       PROVE  r.adapter \in hardware /\ Drives(x, r.adapter) /\ r.reason = "MatchedDisplay"
  <2>1. ~software
    BY <1>11 DEF Gpu!bring_up
  <2>2. Up(x) = up \cap hardware /\ i \in Up(x)
    BY <1>7, <1>11, <2>1
  <2>3. r.adapter \in Up(x) /\ r.adapter \in hardware
    BY <1>4, <2>2
  <2>4. Gpu!MatchesDisplay(x.adapters[i], displays) /\ displays # {}
    BY <1>2, <1>11, DrivesIsMatch
  <2>5. Gpu!MatchesDisplay(x.adapters[r.adapter], displays)
    <3>1. CASE r.adapter = i
      BY <2>4, <3>1
    <3>2. CASE r.adapter # i
      <4>1. Gpu!ranks_before(x.adapters, displays, r.adapter, i)
        BY <1>4, <1>11, <2>2, <3>2
      <4> QED BY <2>4, <4>1, DriverWins
    <3> QED BY <3>1, <3>2
  <2>6. r.reason = Gpu!reason_for(x.adapters[r.adapter], displays)
    BY <1>4, <1>11, <2>2
  <2>7. x.adapters[r.adapter].device_type # "cpu"
    BY <2>3
  <2>8. r.reason = "MatchedDisplay"
    BY <2>5, <2>6, <2>7 DEF Gpu!reason_for
  <2> QED BY <1>2, <2>3, <2>5, <2>8, DrivesIsMatch
<1>12. x.over = None /\ r.adapter # None /\ x.adapters[r.adapter].device_type = "cpu" => software
  BY <1>4, <1>7
<1>13. x.over = None /\ r.adapter = None => up \cap hardware = {} /\ (software => up = {})
  BY <1>4, <1>7
<1> HIDE DEF up, hardware, software
<1> QED BY <1>1, <1>3, <1>8, <1>9, <1>10, <1>11, <1>12, <1>13
        DEF GpuChoiceIsSound, Drives, up, hardware, software

(* For any machine and any RADAR_GPU the window is drawn with an adapter   *)
(* that came all the way up, with one that drives a display wherever one   *)
(* of those comes up (rank, GpuOverride::select, Gpu::new).                *)
THEOREM GpuIsChosenSoundly == BenchSpec => []GpuChoiceIsSound
  BY GpuCaseHolds, CaseIsSound, PTL DEF BenchSpec

-----------------------------------------------------------------------------
(* compute/grid.rs: a sweep scattered into its grid.                       *)

(* Division with remainder.                                                *)
LEMMA DivMod ==
    ASSUME NEW C \in Nat \ {0}, NEW k \in Int, NEW u \in 0..(C - 1)
    PROVE  (k * C + u) \div C = k /\ (k * C + u) % C = u
OBVIOUS

LEMMA DivModExist ==
    ASSUME NEW C \in Nat \ {0}, NEW a \in Int
    PROVE  /\ a \div C \in Int /\ a % C \in 0..(C - 1)
           /\ a = (a \div C) * C + (a % C)
OBVIOUS

LEMMA ProductBound ==
    ASSUME NEW A \in Nat, NEW C \in Nat \ {0}, NEW t \in Int, t * C < A * C
    PROVE  t < A
<1> SUFFICES ASSUME t >= A PROVE FALSE OBVIOUS
<1>1. PICK d \in Nat : t = A + d
  <2>1. t - A \in Nat /\ t = A + (t - A) OBVIOUS
  <2> QED BY <2>1
<1>2. t * C = A * C + d * C /\ d * C \in Nat BY <1>1
<1> QED BY <1>2

(* azimuth_slot is the sector that holds the azimuth, brought round into   *)
(* one turn.                                                               *)
LEMMA SlotIsSector ==
    ASSUME NEW az \in Int, NEW A \in Nat \ {0}, NEW s \in 0..(A - 1), Circle \in Nat \ {0}
    PROVE  /\ Grid!azimuth_slot(az, A) \in 0..(A - 1)
           /\ (Grid!azimuth_slot(az, A) = s) <=>
                (s * Circle <= (az % Circle) * A /\ (az % Circle) * A < (s + 1) * Circle)
<1>1. PICK C \in Nat \ {0} : C = Circle OBVIOUS
<1>2. PICK q \in Int, r \in 0..(C - 1) : r = az % C /\ az = q * C + r
  BY DivModExist
<1>3. PICK p \in Int : p = r * A BY <1>2
<1>4. PICK t \in Int, u \in 0..(C - 1) : p = t * C + u
  BY DivModExist
<1>5. 0 <= t /\ t < A
  <2>1. p >= 0 /\ p < A * C
    <3>1. p >= 0 BY <1>3
    <3>2. PICK d \in Nat \ {0} : C = r + d
      <4>1. C - r \in Nat \ {0} /\ C = r + (C - r) OBVIOUS
      <4> QED BY <4>1
    <3>3. A * C = A * r + A * d /\ A * d > 0 BY <3>2
    <3>4. p = A * r BY <1>3
    <3> QED BY <3>1, <3>3, <3>4
  <2>2. t * C < A * C BY <1>4, <2>1
  <2>3. t < A BY <2>2, ProductBound
  <2>4. t * C > (-1) * C BY <1>4, <2>1
  <2>5. (-t) * C < 1 * C BY <2>4
  <2>6. -t < 1 BY <2>5, ProductBound
  <2> QED BY <2>3, <2>6
<1>6. az * A = (q * A + t) * C + u
  <2>1. az * A = q * C * A + r * A BY <1>2
  <2>2. q * C * A = (q * A) * C OBVIOUS
  <2>3. (q * A + t) * C = (q * A) * C + t * C OBVIOUS
  <2> QED BY <1>3, <1>4, <2>1, <2>2, <2>3
<1>7. (az * A) \div C = q * A + t
  <2>1. PICK k \in Int : k = q * A + t OBVIOUS
  <2> QED BY <1>6, <2>1, DivMod
<1>8. (q * A + t) % A = t
  BY <1>5, DivMod
<1>9. Grid!azimuth_slot(az, A) = t
  BY <1>1, <1>7, <1>8 DEF Grid!azimuth_slot
<1>10. (t = s) <=> (s * C <= p /\ p < (s + 1) * C)
  <2>1. ASSUME t = s PROVE s * C <= p /\ p < (s + 1) * C
    BY <1>4, <2>1
  <2>2. ASSUME s * C <= p, p < (s + 1) * C PROVE t = s
    <3>1. (s + 1) * C = s * C + C OBVIOUS
    <3>2. p - s * C \in 0..(C - 1) /\ p = s * C + (p - s * C) BY <2>2, <3>1
    <3>3. p \div C = s BY <3>2, DivMod
    <3>4. p \div C = t BY <1>4, DivMod
    <3> QED BY <3>3, <3>4
  <2> QED BY <2>1, <2>2
<1> QED BY <1>1, <1>2, <1>3, <1>5, <1>9, <1>10

(* quantise_zdr is within half a step of its value.                        *)
LEMMA QuantiseZdr ==
    ASSUME NEW num \in Int, NEW den \in Nat \ {0}
    PROVE  /\ Grid!quantise_zdr(num, den) \in Nat
           /\ NearZdr(Grid!quantise_zdr(num, den), num, den)
<1>1. PICK a \in Int : a = (num + 8 * den) * 253 OBVIOUS
<1>2. PICK b \in Nat \ {0} : b = 16 * den OBVIOUS
<1>3. Grid!quantise_zdr(num, den) = Grid!Clamp(2 + Grid!Round(a, b), 2, 255)
  BY <1>1, <1>2 DEF Grid!quantise_zdr, Grid!ZDR_DISPLAY_MIN_DB, Grid!ZDR_DISPLAY_MAX_DB, Grid!ZDR_DISPLAY_SPAN
<1>4. Grid!Round(a, b) \in Int
  <2>1. 2 * b \in Nat \ {0} /\ 2 * a + b \in Int /\ b - 2 * a \in Int OBVIOUS
  <2>2. (2 * a + b) \div (2 * b) \in Int /\ (b - 2 * a) \div (2 * b) \in Int
    BY <2>1, DivModExist
  <2> QED BY <2>2 DEF Grid!Round
<1>5. PICK cell \in Nat : cell = Grid!quantise_zdr(num, den) /\ 2 <= cell /\ cell <= 255
  BY <1>3, <1>4 DEF Grid!Clamp
<1>6. ASSUME num \in (-8 * den)..(8 * den)
      PROVE  (cell - 2) * b - a <= den * 8 /\ a - (cell - 2) * b <= den * 8
  <2>1. 0 <= a /\ a <= 253 * b
    BY <1>1, <1>2, <1>6
  <2>2. PICK c \in Nat \ {0} : c = 2 * b OBVIOUS
  <2>3. PICK q \in Int, u \in 0..(c - 1) : q = (2 * a + b) \div c /\ 2 * a + b = q * c + u
    BY <2>2, DivModExist
  <2>4. Grid!Round(a, b) = q
    BY <2>1, <2>2, <2>3 DEF Grid!Round
  <2>5. 0 <= q /\ q <= 253
    <3>1. q * c < 254 * c
      BY <2>1, <2>2, <2>3
    <3>2. q < 254 BY <3>1, ProductBound
    <3>3. (-q) * c < 1 * c
      <4>1. (-q) * c = u - (2 * a + b) BY <2>3
      <4> QED BY <2>1, <2>2, <4>1
    <3>4. -q < 1 BY <3>3, ProductBound
    <3> QED BY <3>2, <3>4
  <2>6. cell = 2 + q
    BY <1>3, <1>5, <2>4, <2>5 DEF Grid!Clamp
  <2>7. q * c = 2 * (q * b)
    BY <2>2
  <2>8. PICK w \in Int : w = q * b OBVIOUS
  <2>9. (cell - 2) * b = w BY <2>6, <2>8
  <2> QED BY <1>2, <2>2, <2>3, <2>7, <2>8, <2>9
<1>7. (cell - 2) * 16 * den = (cell - 2) * b
  BY <1>2
<1>8. PICK error \in Int : error = (cell - 2) * 16 * den - (num + 8 * den) * 253 OBVIOUS
<1>9. ASSUME num \in (-8 * den)..(8 * den)
      PROVE  (IF error < 0 THEN -error ELSE error) * 2 <= 16 * den
  <2>1. PICK w \in Int : w = (cell - 2) * b OBVIOUS
  <2>2. error = w - a BY <1>1, <1>7, <1>8, <2>1
  <2>3. w - a <= den * 8 /\ a - w <= den * 8 BY <1>6, <1>9, <2>1
  <2> QED BY <2>2, <2>3
<1>10. cell \in 2..255 BY <1>5
<1>11. NearZdr(cell, num, den) BY <1>8, <1>9, <1>10, Zenon DEF NearZdr
<1> QED BY <1>5, <1>11

(* The grid after n radials, for every n up to N.                          *)
GridSteps(f, sweep, geometry, A, N) ==
    f = [n \in 0..N |-> IF n = 0 THEN Grid!EmptyGrid(A, Len(geometry.gates))
                        ELSE Grid!Scatter(f[n - 1], sweep[n], geometry)]

LEMMA GridStepsExist ==
    ASSUME NEW sweep, NEW geometry, NEW A, NEW N \in Nat
    PROVE  \E f : GridSteps(f, sweep, geometry, A, N)
<1> DEFINE Good(n) == \E f : GridSteps(f, sweep, geometry, A, n)
           empty == Grid!EmptyGrid(A, Len(geometry.gates))
           next(g, n) == Grid!Scatter(g, sweep[n], geometry)
<1>1. SUFFICES ASSUME ~Good(N) PROVE FALSE
  OBVIOUS
<1>2. PICK n \in {m \in Nat : ~Good(m)} : \A m \in {m \in Nat : ~Good(m)} : n <= m
  <2> HIDE DEF Good
  <2>1. {m \in Nat : ~Good(m)} \subseteq Nat OBVIOUS
  <2>2. {m \in Nat : ~Good(m)} # {} BY <1>1
  <2> QED BY <2>1, <2>2, LeastExists
<1>3. CASE n = 0
  <2>1. PICK f : f = [i \in 0..0 |-> empty]
    OBVIOUS
  <2>2. \A i \in 0..0 : empty = IF i = 0 THEN empty ELSE next(f[i - 1], i)
    OBVIOUS
  <2>3. f = [i \in 0..n |-> IF i = 0 THEN empty ELSE next(f[i - 1], i)]
    <3> HIDE DEF empty, next
    <3> QED BY <1>3, <2>1, <2>2
  <2> QED BY <1>2, <2>3 DEF GridSteps
<1>4. CASE n # 0
  <2>1. n - 1 \in Nat /\ ~(n <= n - 1)
    BY <1>2, <1>4
  <2>2. Good(n - 1)
    <3> HIDE DEF Good
    <3> QED BY <1>2, <2>1
  <2>3. PICK f : f = [i \in 0..(n - 1) |-> IF i = 0 THEN empty ELSE next(f[i - 1], i)]
    BY <2>2 DEF GridSteps
  <2>4. PICK g : g = [i \in 0..n |-> IF i = 0 THEN empty ELSE next(f[i - 1], i)]
    OBVIOUS
  <2> HIDE DEF empty, next
  <2>5. ASSUME NEW i \in 0..(n - 1) PROVE g[i] = f[i]
    <3>1. i \in 0..n BY <1>2
    <3>2. g[i] = IF i = 0 THEN empty ELSE next(f[i - 1], i)
      BY <2>4, <3>1
    <3>3. f[i] = IF i = 0 THEN empty ELSE next(f[i - 1], i)
      BY <2>3
    <3> QED BY <3>2, <3>3
  <2>6. ASSUME NEW i \in 0..n
        PROVE  (IF i = 0 THEN empty ELSE next(f[i - 1], i)) = (IF i = 0 THEN empty ELSE next(g[i - 1], i))
    <3>1. i = 0 \/ i - 1 \in 0..(n - 1) BY <1>2
    <3>2. i = 0 \/ f[i - 1] = g[i - 1] BY <2>5, <3>1
    <3> QED BY <3>2
  <2>7. g = [i \in 0..n |-> IF i = 0 THEN empty ELSE next(g[i - 1], i)]
    BY <2>4, <2>6
  <2>8. GridSteps(g, sweep, geometry, A, n)
    BY <2>7 DEF GridSteps, empty, next
  <2> QED BY <1>2, <2>8
<1> QED BY <1>3, <1>4

(* grid_sweep is its last step.                                            *)
LEMMA GridIsLastStep ==
    ASSUME NEW sweep, NEW A, Len(sweep) \in Nat, Grid!grid_sweep(sweep, A) # None
    PROVE  LET geometry == Grid!source_geometry(sweep)
           IN  /\ geometry # None /\ geometry.gates # <<>>
               /\ \E f : /\ GridSteps(f, sweep, geometry, A, Len(sweep))
                         /\ Grid!grid_sweep(sweep, A) = f[Len(sweep)]
<1> DEFINE geometry == Grid!source_geometry(sweep)
           Def(h) == [n \in 0..Len(sweep) |-> IF n = 0 THEN Grid!EmptyGrid(A, Len(geometry.gates))
                        ELSE Grid!Scatter(h[n - 1], sweep[n], geometry)]
<1>1. PICK after : after = CHOOSE h : h = Def(h)
  OBVIOUS
<1>2. \E f : f = Def(f)
  <2>1. \E f : GridSteps(f, sweep, geometry, A, Len(sweep))
    <3> HIDE DEF geometry
    <3> QED BY GridStepsExist
  <2> QED BY <2>1 DEF GridSteps
<1>3. after = Def(after)
  <2> HIDE DEF Def
  <2> QED BY <1>1, <1>2
<1>4. Grid!grid_sweep(sweep, A) = IF geometry = None \/ geometry.gate_width = 0 \/ geometry.gates = <<>>
                                  THEN None ELSE after[Len(sweep)]
  BY <1>1 DEF Grid!grid_sweep
<1>5. GridSteps(after, sweep, geometry, A, Len(sweep))
  BY <1>3 DEF GridSteps
<1> QED BY <1>4, <1>5

(* A radial that carries the moment with the geometry of the grid.         *)
Fits(sweep, geometry, i) ==
    sweep[i].moment # None /\ Grid!Geometry(sweep[i].moment) = Grid!Geometry(geometry)

(* Those of the first n radials that are written to slot s.                *)
Hits(sweep, geometry, A, n, s) ==
    {i \in 1..n : Fits(sweep, geometry, i) /\ Grid!azimuth_slot(sweep[i].azimuth, A) = s}

Row(sweep, geometry, i) ==
    [g \in 0..(Len(geometry.gates) - 1) |-> Grid!Cell(sweep[i].moment.gates[g + 1], geometry)]

Grids(A, L) ==
    [azimuth_count : {A}, cells : [0..(A - 1) -> [0..(L - 1) -> Int]],
     filled : SUBSET (0..(A - 1)), skipped : Nat, duplicates : Nat]

(* The first n radials that carry the moment.                              *)
CarryingOf(sweep, n) == {i \in 1..n : sweep[i].moment # None}

(* The loop invariant of grid_sweep: after n radials a slot that was not   *)
(* hit is empty, any other holds its last radial, and every radial that    *)
(* carries the moment is accounted for.                                    *)
SlotsAfter(grid, sweep, geometry, A, n) ==
    \A s \in 0..(A - 1) :
        /\ Hits(sweep, geometry, A, n, s) = {} =>
             grid.cells[s] = [g \in 0..(Len(geometry.gates) - 1) |-> 0]
        /\ \A i \in Hits(sweep, geometry, A, n, s) :
             (\A j \in Hits(sweep, geometry, A, n, s) : j <= i) => grid.cells[s] = Row(sweep, geometry, i)
        /\ s \in grid.filled <=> Hits(sweep, geometry, A, n, s) # {}

GridAfter(grid, sweep, geometry, A, n) ==
    /\ grid \in Grids(A, Len(geometry.gates))
    /\ SlotsAfter(grid, sweep, geometry, A, n)
    /\ Cardinality(CarryingOf(sweep, n)) = Cardinality(grid.filled) + grid.duplicates + grid.skipped

LEMMA CellIsInt ==
    ASSUME NEW raw \in Nat, NEW geometry, IsMoment(geometry)
    PROVE  Grid!Cell(raw, geometry) \in Int
<1>1. raw - geometry.offset \in Int /\ geometry.scale \in Nat \ {0}
  BY DEF IsMoment
<1>2. Grid!quantise_zdr(raw - geometry.offset, geometry.scale) \in Nat
  BY <1>1, QuantiseZdr
<1> QED BY <1>2 DEF Grid!Cell

(* The row of a radial that fits.                                          *)
LEMMA RowType ==
    ASSUME NEW sweep, IsSweep(sweep), NEW geometry, IsMoment(geometry),
           NEW i \in DOMAIN sweep, Fits(sweep, geometry, i)
    PROVE  Row(sweep, geometry, i) \in [0..(Len(geometry.gates) - 1) -> Int]
<1>1. PICK gates : gates = sweep[i].moment.gates OBVIOUS
<1>2. gates \in Seq(Nat) /\ Len(gates) = Len(geometry.gates)
  BY <1>1 DEF Fits, IsSweep, IsMoment, Grid!Geometry
<1>3. ASSUME NEW g \in 0..(Len(geometry.gates) - 1)
      PROVE  Grid!Cell(gates[g + 1], geometry) \in Int
  <2>1. gates[g + 1] \in Nat BY <1>2
  <2> QED BY <2>1, CellIsInt
<1> QED BY <1>1, <1>3 DEF Row

LEMMA CarryingFinite ==
    ASSUME NEW sweep, NEW n \in Nat
    PROVE  /\ IsFiniteSet(CarryingOf(sweep, n)) /\ Cardinality(CarryingOf(sweep, n)) \in Nat
           /\ n + 1 \notin CarryingOf(sweep, n)
<1>1. IsFiniteSet(1..n) BY FS_Interval
<1>2. CarryingOf(sweep, n) \subseteq 1..n BY DEF CarryingOf
<1>3. IsFiniteSet(CarryingOf(sweep, n)) BY <1>1, <1>2, FS_Subset
<1>4. n + 1 \notin 1..n OBVIOUS
<1> QED BY <1>2, <1>3, <1>4, FS_CardinalityType

LEMMA FilledFinite ==
    ASSUME NEW A \in Nat, NEW filled \in SUBSET (0..(A - 1))
    PROVE  IsFiniteSet(filled) /\ Cardinality(filled) \in Nat
<1>1. IsFiniteSet(0..(A - 1)) BY FS_Interval
<1>2. IsFiniteSet(filled) BY <1>1, FS_Subset
<1> QED BY <1>2, FS_CardinalityType

LEMMA GridAtFirst ==
    ASSUME NEW sweep, NEW geometry, IsMoment(geometry), NEW A \in Nat \ {0}
    PROVE  GridAfter(Grid!EmptyGrid(A, Len(geometry.gates)), sweep, geometry, A, 0)
<1> DEFINE grid == Grid!EmptyGrid(A, Len(geometry.gates))
<1>1. \A s : Hits(sweep, geometry, A, 0, s) = {}
  BY DEF Hits
<1>2. CarryingOf(sweep, 0) = {}
  BY DEF CarryingOf
<1>3. /\ grid.cells = [slot \in 0..(A - 1) |-> [g \in 0..(Len(geometry.gates) - 1) |-> 0]]
      /\ grid.filled = {} /\ grid.skipped = 0 /\ grid.duplicates = 0
  BY DEF Grid!EmptyGrid
<1>4. grid \in Grids(A, Len(geometry.gates))
  BY DEF Grid!EmptyGrid, Grids
<1>5. SlotsAfter(grid, sweep, geometry, A, 0)
  <2> HIDE DEF grid
  <2> QED BY <1>1, <1>3 DEF SlotsAfter
<1>6. Cardinality({}) = 0 BY FS_EmptySet
<1>7. Cardinality(CarryingOf(sweep, 0)) = Cardinality(grid.filled) + grid.duplicates + grid.skipped
  <2> HIDE DEF grid
  <2>1. Cardinality(CarryingOf(sweep, 0)) = 0 BY <1>2, <1>6, Zenon
  <2>2. Cardinality(grid.filled) = 0 BY <1>3, <1>6, Zenon
  <2> QED BY <1>3, <2>1, <2>2
<1> QED BY <1>4, <1>5, <1>7 DEF GridAfter

(* Which radials carry the moment, one radial later.                       *)
LEMMA CarryingNext ==
    ASSUME NEW sweep, NEW n \in Nat
    PROVE  CarryingOf(sweep, n + 1) =
             IF sweep[n + 1].moment # None THEN CarryingOf(sweep, n) \cup {n + 1} ELSE CarryingOf(sweep, n)
<1>1. \A i : i \in 1..(n + 1) <=> i \in 1..n \/ i = n + 1
  OBVIOUS
<1> QED BY <1>1, Zenon DEF CarryingOf

(* One turn of the loop keeps the invariant.                               *)
LEMMA ScatterKeeps ==
    ASSUME NEW sweep, IsSweep(sweep), NEW geometry, IsMoment(geometry), NEW A \in Nat \ {0},
           Circle \in Nat \ {0}, NEW n \in Nat, n + 1 \in DOMAIN sweep, NEW grid,
           GridAfter(grid, sweep, geometry, A, n)
    PROVE  GridAfter(Grid!Scatter(grid, sweep[n + 1], geometry), sweep, geometry, A, n + 1)
<1> DEFINE L == Len(geometry.gates)
           radial == sweep[n + 1]
           H(s) == Hits(sweep, geometry, A, n, s)
           K(s) == Hits(sweep, geometry, A, n + 1, s)
           next == Grid!Scatter(grid, radial, geometry)
<1>0. ASSUME NEW s
      PROVE  LET hit == Fits(sweep, geometry, n + 1) /\ Grid!azimuth_slot(radial.azimuth, A) = s
             IN  (hit => K(s) = H(s) \cup {n + 1}) /\ (~hit => K(s) = H(s))
  <2>1. \A i : i \in 1..(n + 1) <=> i \in 1..n \/ i = n + 1
    OBVIOUS
  <2> QED BY <2>1, Zenon DEF Hits
<1>1. /\ grid \in Grids(A, L)
      /\ SlotsAfter(grid, sweep, geometry, A, n)
      /\ Cardinality(CarryingOf(sweep, n)) = Cardinality(grid.filled) + grid.duplicates + grid.skipped
  BY DEF GridAfter
<1>2. /\ grid.filled \in SUBSET (0..(A - 1)) /\ grid.duplicates \in Nat /\ grid.skipped \in Nat
      /\ grid.cells \in [0..(A - 1) -> [0..(L - 1) -> Int]] /\ grid.azimuth_count = A
  BY <1>1 DEF Grids
<1>3. Cardinality(grid.filled) \in Nat /\ IsFiniteSet(grid.filled)
  BY <1>2, FilledFinite
<1>8. /\ Cardinality(CarryingOf(sweep, n)) = Cardinality(grid.filled) + grid.duplicates + grid.skipped
      /\ Cardinality(grid.filled) \in Nat /\ grid.duplicates \in Nat /\ grid.skipped \in Nat
  BY <1>1, <1>2, <1>3
<1>4. CASE radial.moment = None
  <2>1. next = grid
    BY <1>4 DEF Grid!Scatter
  <2>2. \A s : K(s) = H(s)
    <3>1. ~Fits(sweep, geometry, n + 1) BY <1>4 DEF Fits
    <3> QED BY <1>0, <3>1, Zenon
  <2>3. CarryingOf(sweep, n + 1) = CarryingOf(sweep, n)
    BY <1>4, CarryingNext
  <2>4. SlotsAfter(grid, sweep, geometry, A, n + 1)
    BY <1>1, <2>2, Zenon DEF SlotsAfter
  <2>5. Cardinality(CarryingOf(sweep, n + 1)) = Cardinality(grid.filled) + grid.duplicates + grid.skipped
    BY <1>1, <2>3, Zenon
  <2> QED BY <1>1, <2>1, <2>4, <2>5 DEF GridAfter
<1>5. ASSUME radial.moment # None
      PROVE  Cardinality(CarryingOf(sweep, n + 1)) = Cardinality(CarryingOf(sweep, n)) + 1
  <2>1. CarryingOf(sweep, n + 1) = CarryingOf(sweep, n) \cup {n + 1}
    BY <1>5, CarryingNext
  <2>2. /\ IsFiniteSet(CarryingOf(sweep, n)) /\ n + 1 \notin CarryingOf(sweep, n)
    BY CarryingFinite
  <2>3. Cardinality(CarryingOf(sweep, n) \cup {n + 1}) = Cardinality(CarryingOf(sweep, n)) + 1
    <3>1. PICK S : S = CarryingOf(sweep, n) OBVIOUS
    <3>2. Cardinality(S \cup {n + 1}) = Cardinality(S) + 1
      BY <2>2, <3>1, FS_AddElement
    <3> QED BY <3>1, <3>2, Zenon
  <2> QED BY <2>1, <2>3, Zenon
<1>6. CASE radial.moment # None /\ ~Fits(sweep, geometry, n + 1)
  <2>1. next = [grid EXCEPT !.skipped = @ + 1]
    BY <1>6 DEF Grid!Scatter, Fits
  <2>2. /\ next \in Grids(A, L) /\ next.cells = grid.cells /\ next.filled = grid.filled
        /\ next.duplicates = grid.duplicates /\ next.skipped = grid.skipped + 1
    <3> HIDE DEF next, L
    <3> QED BY <1>1, <2>1 DEF Grids
  <2>3. \A s : K(s) = H(s)
    BY <1>0, <1>6, Zenon
  <2>4. SlotsAfter(next, sweep, geometry, A, n + 1)
    <3> HIDE DEF next
    <3> QED BY <1>1, <2>2, <2>3, Zenon DEF SlotsAfter
  <2>5. Cardinality(CarryingOf(sweep, n + 1)) = Cardinality(next.filled) + next.duplicates + next.skipped
    <3> HIDE DEF next
    <3>1. Cardinality(next.filled) = Cardinality(grid.filled) BY <2>2, Zenon
    <3>2. Cardinality(CarryingOf(sweep, n + 1)) = Cardinality(CarryingOf(sweep, n)) + 1 BY <1>5, <1>6
    <3>3. next.duplicates = grid.duplicates /\ next.skipped = grid.skipped + 1 BY <2>2
    <3> QED BY <1>8, <3>1, <3>2, <3>3
  <2> QED BY <2>2, <2>4, <2>5 DEF GridAfter
<1>7. CASE Fits(sweep, geometry, n + 1)
  <2>0. PICK t : t = Grid!azimuth_slot(radial.azimuth, A) OBVIOUS
  <2>1. t \in 0..(A - 1)
    <3>1. radial.azimuth \in Int BY DEF IsSweep
    <3>2. 0 \in 0..(A - 1) OBVIOUS
    <3> QED BY <2>0, <3>1, <3>2, SlotIsSector
  <2>2. next = [grid EXCEPT !.cells[t] = [g \in DOMAIN @ |-> Grid!Cell(radial.moment.gates[g + 1], geometry)],
                            !.duplicates = @ + (IF t \in grid.filled THEN 1 ELSE 0),
                            !.filled = @ \cup {t}]
    BY <1>2, <1>7, <2>0 DEF Grid!Scatter, Fits
  <2>3. PICK row : row = Row(sweep, geometry, n + 1) /\ row \in [0..(L - 1) -> Int]
    BY <1>7, RowType
  <2>4. DOMAIN grid.cells[t] = 0..(L - 1)
    <3> HIDE DEF L
    <3> QED BY <1>2, <2>1
  <2>5. row = [g \in DOMAIN grid.cells[t] |-> Grid!Cell(radial.moment.gates[g + 1], geometry)]
    BY <2>3, <2>4, Zenon DEF Row
  <2>6. next = [grid EXCEPT !.cells = [grid.cells EXCEPT ![t] = row],
                            !.duplicates = @ + (IF t \in grid.filled THEN 1 ELSE 0),
                            !.filled = @ \cup {t}]
    <3> HIDE DEF next
    <3> QED BY <2>2, <2>5, Zenon
  <2>7. /\ next \in Grids(A, L) /\ next.cells = [grid.cells EXCEPT ![t] = row]
        /\ next.filled = grid.filled \cup {t} /\ next.skipped = grid.skipped
        /\ next.duplicates = grid.duplicates + (IF t \in grid.filled THEN 1 ELSE 0)
    <3> HIDE DEF next, L
    <3>1. [grid.cells EXCEPT ![t] = row] \in [0..(A - 1) -> [0..(L - 1) -> Int]]
      BY <1>2, <2>1, <2>3
    <3>2. PICK cells \in [0..(A - 1) -> [0..(L - 1) -> Int]] : cells = [grid.cells EXCEPT ![t] = row]
      BY <3>1
    <3>3. PICK filled \in SUBSET (0..(A - 1)) : filled = grid.filled \cup {t}
      BY <1>2, <2>1
    <3>4. PICK d \in Nat : d = grid.duplicates + (IF t \in grid.filled THEN 1 ELSE 0)
      BY <1>2
    <3>5. next = [grid EXCEPT !.cells = cells, !.duplicates = d, !.filled = filled]
      BY <2>6, <3>2, <3>3, <3>4, Zenon
    <3>6. /\ next \in Grids(A, L) /\ next.cells = cells /\ next.filled = filled
          /\ next.skipped = grid.skipped /\ next.duplicates = d
      BY <1>1, <3>5 DEF Grids
    <3> QED BY <3>2, <3>3, <3>4, <3>6, Zenon
  <2>8. SlotsAfter(next, sweep, geometry, A, n + 1)
    <3> HIDE DEF next, L
    <3>1. ASSUME NEW s \in 0..(A - 1)
          PROVE  /\ K(s) = {} => next.cells[s] = [g \in 0..(Len(geometry.gates) - 1) |-> 0]
                 /\ \A i \in K(s) : (\A j \in K(s) : j <= i) => next.cells[s] = Row(sweep, geometry, i)
                 /\ s \in next.filled <=> K(s) # {}
      <4>1. CASE s = t
        <5>1. K(s) = H(s) \cup {n + 1}
          BY <1>0, <1>7, <2>0, <4>1, Zenon
        <5>2. next.cells[s] = row /\ s \in next.filled
          BY <1>2, <2>1, <2>7, <4>1
        <5>3. \A i \in H(s) : i \in Nat /\ i < n + 1
          BY DEF Hits
        <5>4. ASSUME NEW i \in K(s), \A j \in K(s) : j <= i PROVE i = n + 1
          BY <5>1, <5>3, <5>4
        <5>5. n + 1 \in K(s) BY <5>1
        <5> HIDE DEF K
        <5> QED BY <2>3, <5>2, <5>4, <5>5
      <4>2. CASE s # t
        <5>1. K(s) = H(s)
          BY <1>0, <2>0, <4>2, Zenon
        <5>2. next.cells[s] = grid.cells[s]
          BY <1>2, <2>1, <2>7, <4>2
        <5>3. s \in next.filled <=> s \in grid.filled
          BY <2>7, <4>2
        <5> QED BY <1>1, <5>1, <5>2, <5>3, Zenon DEF SlotsAfter
      <4> QED BY <4>1, <4>2
    <3> QED BY <3>1, Zenon DEF SlotsAfter
  <2>9. Cardinality(CarryingOf(sweep, n + 1)) = Cardinality(next.filled) + next.duplicates + next.skipped
    <3> HIDE DEF next
    <3>1. radial.moment # None BY <1>7 DEF Fits
    <3>2. PICK F : F = grid.filled OBVIOUS
    <3>3. Cardinality(F \cup {t}) = IF t \in F THEN Cardinality(F) ELSE Cardinality(F) + 1
      BY <1>3, <3>2, FS_AddElement
    <3>4. Cardinality(next.filled) = Cardinality(grid.filled) + (IF t \in grid.filled THEN 0 ELSE 1)
      <4>1. next.filled = F \cup {t} BY <2>7, <3>2, Zenon
      <4>2. Cardinality(next.filled) = Cardinality(F \cup {t}) BY <4>1, Zenon
      <4>3. Cardinality(F) = Cardinality(grid.filled) /\ Cardinality(F) \in Nat BY <1>3, <3>2, Zenon
      <4>4. t \in F <=> t \in grid.filled BY <3>2, Zenon
      <4> QED BY <3>3, <4>2, <4>3, <4>4
    <3>5. Cardinality(CarryingOf(sweep, n + 1)) = Cardinality(CarryingOf(sweep, n)) + 1 BY <1>5, <3>1
    <3>6. /\ next.duplicates = grid.duplicates + (IF t \in grid.filled THEN 1 ELSE 0)
          /\ next.skipped = grid.skipped
      BY <2>7
    <3> QED BY <1>8, <3>4, <3>5, <3>6
  <2> QED BY <2>7, <2>8, <2>9 DEF GridAfter
<1> QED BY <1>4, <1>6, <1>7

(* The loop invariant holds at every step.                                 *)
LEMMA GridStepsKeep ==
    ASSUME NEW sweep, IsSweep(sweep), NEW geometry, IsMoment(geometry), NEW A \in Nat \ {0},
           Circle \in Nat \ {0}, NEW f, GridSteps(f, sweep, geometry, A, Len(sweep))
    PROVE  GridAfter(f[Len(sweep)], sweep, geometry, A, Len(sweep))
<1>1. Len(sweep) \in Nat /\ DOMAIN sweep = 1..Len(sweep)
  <2>1. PICK S : sweep \in Seq(S) BY Zenon DEF IsSweep
  <2> QED BY <2>1
<1>2. PICK N \in Nat : N = Len(sweep) BY <1>1
<1> DEFINE Bad == {n \in 0..N : ~GridAfter(f[n], sweep, geometry, A, n)}
<1>3. Bad = {}
  <2>1. SUFFICES ASSUME Bad # {} PROVE FALSE OBVIOUS
  <2>2. PICK n \in Bad : \A m \in Bad : n <= m
    <3>1. Bad \subseteq Nat OBVIOUS
    <3> HIDE DEF Bad
    <3> QED BY <2>1, <3>1, LeastExists
  <2>3. n \in 0..N /\ ~GridAfter(f[n], sweep, geometry, A, n)
    BY <2>2
  <2>4. f[n] = IF n = 0 THEN Grid!EmptyGrid(A, Len(geometry.gates))
               ELSE Grid!Scatter(f[n - 1], sweep[n], geometry)
    BY <1>2, <2>3 DEF GridSteps
  <2>5. n # 0
    BY <2>3, <2>4, GridAtFirst
  <2>6. PICK m \in Nat : n = m + 1
    <3>1. n - 1 \in Nat /\ n = (n - 1) + 1 BY <2>3, <2>5
    <3> QED BY <3>1
  <2>7. m \in 0..N /\ ~(n <= m) /\ m + 1 \in 1..N /\ n - 1 = m
    BY <2>3, <2>6
  <2>8. GridAfter(f[m], sweep, geometry, A, m)
    BY <2>2, <2>7
  <2>9. f[n] = Grid!Scatter(f[m], sweep[m + 1], geometry)
    BY <2>4, <2>5, <2>6, <2>7
  <2>10. m + 1 \in DOMAIN sweep BY <1>1, <1>2, <2>7
  <2>11. GridAfter(Grid!Scatter(f[m], sweep[m + 1], geometry), sweep, geometry, A, m + 1)
    BY <2>8, <2>10, ScatterKeeps
  <2> QED BY <2>3, <2>6, <2>9, <2>11
<1>4. N \in 0..N OBVIOUS
<1>5. GridAfter(f[N], sweep, geometry, A, N) BY <1>3, <1>4
<1> QED BY <1>2, <1>5

(* The geometry is the moment of the first radial that has it.             *)
LEMMA SourceIsFirst ==
    ASSUME NEW sweep, IsSweep(sweep), Grid!source_geometry(sweep) # None
    PROVE  /\ Grid!source_geometry(sweep) =
                sweep[CHOOSE i \in Grid!Carrying(sweep) : \A j \in Grid!Carrying(sweep) : i <= j].moment
           /\ IsMoment(Grid!source_geometry(sweep))
<1>1. Grid!Carrying(sweep) # {}
  BY DEF Grid!source_geometry
<1>2. PICK i : i = CHOOSE k \in Grid!Carrying(sweep) : \A j \in Grid!Carrying(sweep) : k <= j
  OBVIOUS
<1>3. Grid!source_geometry(sweep) = sweep[i].moment
  BY <1>1, <1>2 DEF Grid!source_geometry, Grid!Min
<1>4. i \in Grid!Carrying(sweep)
  <2>1. Grid!Carrying(sweep) \subseteq Nat
    BY DEF Grid!Carrying, IsSweep
  <2>2. \E k \in Grid!Carrying(sweep) : \A j \in Grid!Carrying(sweep) : k <= j
    BY <1>1, <2>1, LeastExists
  <2> QED BY <1>2, <2>2
<1>5. IsMoment(sweep[i].moment)
  BY <1>4 DEF Grid!Carrying, IsSweep
<1> QED BY <1>2, <1>3, <1>5

(* The greatest of the radials that hit a slot.                            *)
LEMMA GreatestHit ==
    ASSUME NEW n \in Nat, NEW T, T \subseteq 1..n, T # {}
    PROVE  \E i \in T : \A j \in T : j <= i
<1> DEFINE D == {n - i : i \in T}
<1>1. D \subseteq Nat /\ D # {}
  <2>1. \A i \in T : i \in 1..n OBVIOUS
  <2>2. \A i \in T : n - i \in Nat BY <2>1
  <2>3. PICK i : i \in T OBVIOUS
  <2>4. n - i \in D BY <2>3
  <2> QED BY <2>2, <2>4
<1>2. PICK d \in D : \A e \in D : d <= e
  <2> HIDE DEF D
  <2> QED BY <1>1, LeastExists
<1>3. PICK i \in T : d = n - i
  BY <1>2
<1>4. \A j \in T : n - i <= n - j
  BY <1>2, <1>3
<1>5. ASSUME NEW j \in T PROVE j <= i
  <2>1. i \in 1..n /\ j \in 1..n OBVIOUS
  <2> QED BY <1>4, <2>1
<1> QED BY <1>5

(* Gridding counts as this module does.                                    *)
LEMMA SameCardinality ==
    ASSUME NEW S
    PROVE  Grid!Cardinality(S) = Cardinality(S)
BY DEF Grid!Cardinality, Cardinality

(* More than half of the codes decide the number of azimuths.              *)
LEMMA MajorityDecides ==
    ASSUME NEW sweep, IsSweep(sweep), NEW modal \in Grid!modal_azimuth_count(sweep)
    PROVE  LET of(code) == Cardinality({i \in DOMAIN sweep : sweep[i].code = code})
           IN  /\ modal.azimuths \in {SuperRes, Standard}
               /\ 2 * of(1) > Len(sweep) => modal.azimuths = SuperRes
               /\ 2 * of(2) > Len(sweep) => modal.azimuths = Standard
<1> DEFINE With(code) == {i \in DOMAIN sweep : sweep[i].code = code}
           of(code) == Cardinality(With(code))
           codes == {sweep[i].code : i \in DOMAIN sweep}
           chosen(code) == CASE code = 1 -> [azimuths |-> SuperRes, inferred |-> FALSE]
                          [] code = 2 -> [azimuths |-> Standard, inferred |-> FALSE]
                          [] OTHER    -> [azimuths |-> IF Len(sweep) >= InferAt THEN SuperRes ELSE Standard,
                                          inferred |-> TRUE]
<1>1. PICK c \in codes : modal = chosen(c) /\ \A d \in codes : of(d) <= of(c)
  <2>1. Grid!modal_azimuth_count(sweep) =
          {chosen(code) : code \in {c \in codes : \A d \in codes : Grid!Cardinality(With(d)) <= Grid!Cardinality(With(c))}}
    BY DEF Grid!modal_azimuth_count
  <2>2. \A d : Grid!Cardinality(With(d)) = of(d)
    BY SameCardinality
  <2> HIDE DEF chosen, codes, With, of
  <2>3. PICK c \in codes : modal = chosen(c) /\ \A d \in codes : Grid!Cardinality(With(d)) <= Grid!Cardinality(With(c))
    BY <2>1
  <2> QED BY <2>2, <2>3
<1>2. PICK N \in Nat : N = Len(sweep) /\ DOMAIN sweep = 1..N
  BY DEF IsSweep
<1>3. IsFiniteSet(1..N) /\ Cardinality(1..N) = N
  BY FS_Interval
<1>4. ASSUME NEW d PROVE IsFiniteSet(With(d)) /\ of(d) \in Nat /\ (d \notin codes => of(d) = 0)
  <2>1. With(d) \subseteq 1..N BY <1>2
  <2>2. IsFiniteSet(With(d)) BY <1>3, <2>1, FS_Subset
  <2>3. of(d) \in Nat BY <2>2, FS_CardinalityType
  <2>4. ASSUME d \notin codes PROVE of(d) = 0
    <3>1. With(d) = {} BY <2>4
    <3> QED BY <2>2, <3>1, FS_EmptySet
  <2> QED BY <2>2, <2>3, <2>4
<1>5. ASSUME NEW d, 2 * of(d) > N PROVE c = d
  <2>1. SUFFICES ASSUME c # d PROVE FALSE OBVIOUS
  <2>2. d \in codes
    <3>1. of(d) \in Nat /\ (d \notin codes => of(d) = 0) BY <1>4
    <3> HIDE DEF codes, of
    <3> QED BY <1>5, <3>1
  <2>3. of(d) <= of(c) BY <1>1, <2>2
  <2>4. With(c) \cap With(d) = {} BY <2>1
  <2>5. With(c) \cup With(d) \subseteq 1..N BY <1>2
  <2>6. Cardinality(With(c) \cup With(d)) <= N
    <3> HIDE DEF With
    <3> QED BY <1>3, <2>5, FS_Subset
  <2>7. Cardinality(With(c) \cup With(d)) = of(c) + of(d)
    <3>1. Cardinality(With(c) \cap With(d)) = 0 BY <2>4, FS_EmptySet
    <3>2. IsFiniteSet(With(c)) /\ IsFiniteSet(With(d)) BY <1>4
    <3> HIDE DEF With
    <3>3. Cardinality(With(c) \cup With(d)) = of(c) + of(d) - Cardinality(With(c) \cap With(d))
      BY <3>2, FS_Union
    <3>4. of(c) \in Nat /\ of(d) \in Nat BY <1>4
    <3> QED BY <3>1, <3>3, <3>4
  <2>8. of(c) \in Nat /\ of(d) \in Nat BY <1>4
  <2> HIDE DEF of, With
  <2> QED BY <1>5, <2>3, <2>6, <2>7, <2>8
<1>6. modal.azimuths \in {SuperRes, Standard}
  BY <1>1
<1>7. ASSUME 2 * of(1) > N PROVE modal.azimuths = SuperRes
  <2>1. c = 1
    <3> HIDE DEF of
    <3> QED BY <1>5, <1>7
  <2> QED BY <1>1, <2>1
<1>8. ASSUME 2 * of(2) > N PROVE modal.azimuths = Standard
  <2>1. c = 2
    <3> HIDE DEF of
    <3> QED BY <1>5, <1>8
  <2> QED BY <1>1, <2>1
<1> QED BY <1>2, <1>6, <1>7, <1>8

(* What the bench holds of a sweep: a result of grid_sweep.                *)
GridCase == Tried("grid") =>
    /\ case.input \in SweepInputs
    /\ \E modal \in Grid!modal_azimuth_count(case.input) :
          case.result = Grid!grid_sweep(case.input, modal.azimuths)

LEMMA GridCaseHolds ==
    /\ BenchInit => GridCase
    /\ GridCase /\ [BenchNext]_benchVars => GridCase'
<1>1. BenchInit => GridCase
  BY DEF BenchInit, GridCase, Tried
<1>2. ASSUME GridCase, [BenchNext]_benchVars PROVE GridCase'
  <2>1. CASE GridSweep
    BY <2>1 DEF GridSweep, Try, GridCase, Tried
  <2>2. ASSUME NEW fn \in {"gpu", "chunk", "derived", "palette", "map"}, NEW x, NEW y, Try(fn, x, y)
        PROVE  GridCase'
    BY <2>2 DEF Try, GridCase, Tried
  <2>3. CASE ChooseGpu \/ Decode \/ Derive \/ Colour \/ DrawMap
    BY <2>2, <2>3, Zenon DEF ChooseGpu, Decode, Derive, Colour, DrawMap
  <2>4. CASE UNCHANGED case
    BY <1>2, <2>4 DEF GridCase, Tried
  <2>5. CASE Restart \/ Page \/ UNCHANGED benchVars
    BY <2>4, <2>5 DEF Restart, Page, benchVars
  <2> QED BY <1>2, <2>1, <2>3, <2>5 DEF BenchNext
<1> QED BY <1>1, <1>2

(* A cell that was written holds its raw value, or a requantised value     *)
(* within half a step of it.                                               *)
LEMMA CellRight ==
    ASSUME NEW raw \in Nat, NEW source, IsMoment(source)
    PROVE  CellIsRight(Grid!Cell(raw, source), raw, source)
<1>1. CASE source.word_size = 8 \/ raw < 2
  BY <1>1 DEF CellIsRight, Grid!Cell
<1>2. CASE ~(source.word_size = 8 \/ raw < 2)
  <2>1. source.word_size = 16 /\ raw >= 2
    BY <1>2 DEF IsMoment
  <2>2. PICK num \in Int : num = raw - source.offset BY DEF IsMoment
  <2>3. PICK den \in Nat \ {0} : den = source.scale BY DEF IsMoment
  <2>4. Grid!Cell(raw, source) = Grid!quantise_zdr(num, den)
    BY <2>1, <2>2, <2>3 DEF Grid!Cell
  <2> QED BY <1>2, <2>2, <2>3, <2>4, QuantiseZdr DEF CellIsRight
<1> QED BY <1>1, <1>2

LEMMA CaseIsExact == GridCase => GridIsExactScatter
<1> SUFFICES ASSUME GridCase, Tried("grid"), case.result # None PROVE GridIsExactScatter
  BY Zenon DEF GridIsExactScatter
<1>1. PICK sweep : sweep = case.input /\ IsSweep(sweep)
  BY BenchAssumption DEF GridCase
<1>2. PICK modal \in Grid!modal_azimuth_count(sweep) : case.result = Grid!grid_sweep(sweep, modal.azimuths)
  BY <1>1 DEF GridCase
<1>3. PICK A \in Nat \ {0} : A = modal.azimuths
  BY <1>1, MajorityDecides, BenchAssumption
<1>4. PICK grid : grid = case.result /\ grid = Grid!grid_sweep(sweep, A) /\ grid # None
  BY <1>2, <1>3
<1>5. PICK N \in Nat : N = Len(sweep) /\ DOMAIN sweep = 1..N
  BY <1>1 DEF IsSweep
<1>6. PICK source : source = Grid!source_geometry(sweep) OBVIOUS
<1>7. /\ source # None /\ source.gates # <<>>
      /\ \E f : GridSteps(f, sweep, source, A, N) /\ grid = f[N]
  BY <1>4, <1>5, <1>6, GridIsLastStep
<1>8. /\ source = sweep[CHOOSE i \in Grid!Carrying(sweep) : \A j \in Grid!Carrying(sweep) : i <= j].moment
      /\ IsMoment(source)
  BY <1>1, <1>6, <1>7, SourceIsFirst
<1>9. GridAfter(grid, sweep, source, A, N)
  BY <1>1, <1>5, <1>7, <1>8, GridStepsKeep, BenchAssumption
<1> DEFINE n        == grid.azimuth_count
           carrying == {i \in DOMAIN sweep : sweep[i].moment # None}
           fits(i)  == /\ i \in carrying /\ Len(sweep[i].moment.gates) = Len(source.gates)
                       /\ sweep[i].moment.gate_width = source.gate_width
                       /\ sweep[i].moment.first_gate = source.first_gate
                       /\ sweep[i].moment.word_size = source.word_size
           hits(s)  == {i \in DOMAIN sweep : /\ fits(i) /\ s * Circle <= (sweep[i].azimuth % Circle) * n
                                             /\ (sweep[i].azimuth % Circle) * n < (s + 1) * Circle}
           last(s)  == CHOOSE i \in hits(s) : \A j \in hits(s) : j <= i
<1>10. n = A /\ DOMAIN grid.cells = 0..(A - 1)
  BY <1>9 DEF GridAfter, Grids
<1>11. carrying = Grid!Carrying(sweep) /\ carrying = CarryingOf(sweep, N)
  BY <1>5 DEF Grid!Carrying, CarryingOf
<1>12. ASSUME NEW i \in DOMAIN sweep PROVE fits(i) <=> Fits(sweep, source, i)
  BY DEF Fits, Grid!Geometry
<1>13. ASSUME NEW s \in 0..(A - 1) PROVE hits(s) = Hits(sweep, source, A, N, s)
  <2>1. ASSUME NEW i \in DOMAIN sweep
        PROVE  (Grid!azimuth_slot(sweep[i].azimuth, A) = s) <=>
                 /\ s * Circle <= (sweep[i].azimuth % Circle) * A
                 /\ (sweep[i].azimuth % Circle) * A < (s + 1) * Circle
    <3>1. sweep[i].azimuth \in Int BY <1>1 DEF IsSweep
    <3> QED BY <3>1, SlotIsSector, BenchAssumption
  <2>2. n = A BY <1>10
  <2> HIDE DEF fits, n
  <2> QED BY <1>5, <1>12, <2>1, <2>2, Zenon DEF Hits
<1>14. ASSUME NEW s \in 0..(A - 1), hits(s) # {}
       PROVE  /\ last(s) \in DOMAIN sweep /\ Fits(sweep, source, last(s))
              /\ grid.cells[s] = Row(sweep, source, last(s))
  <2>1. PICK T : T = Hits(sweep, source, A, N, s) OBVIOUS
  <2>2. hits(s) = T BY <1>13, <2>1, Zenon
  <2>3. T # {} /\ T \subseteq 1..N BY <1>14, <2>1, <2>2 DEF Hits
  <2>4. PICK i : i = CHOOSE k \in T : \A j \in T : j <= k OBVIOUS
  <2>5. i \in T /\ \A j \in T : j <= i
    BY <2>3, <2>4, GreatestHit
  <2>6. last(s) = i BY <2>2, <2>4, Zenon
  <2>7. grid.cells[s] = Row(sweep, source, i)
    BY <1>9, <2>1, <2>5, Zenon DEF GridAfter, SlotsAfter
  <2>8. i \in DOMAIN sweep /\ Fits(sweep, source, i)
    <3>1. i \in Hits(sweep, source, A, N, s) BY <2>1, <2>5, Zenon
    <3> QED BY <1>5, <3>1, Zenon DEF Hits
  <2> HIDE DEF last
  <2> QED BY <2>6, <2>7, <2>8, Zenon
<1>15. ASSUME NEW s \in 0..(A - 1), NEW g \in DOMAIN grid.cells[s]
       PROVE  IF hits(s) = {} THEN grid.cells[s][g] = 0
              ELSE CellIsRight(grid.cells[s][g], sweep[last(s)].moment.gates[g + 1], source)
  <2>1. DOMAIN grid.cells[s] = 0..(Len(source.gates) - 1)
    BY <1>9 DEF GridAfter, Grids
  <2>2. CASE hits(s) = {}
    <3>1. grid.cells[s] = [k \in 0..(Len(source.gates) - 1) |-> 0]
      BY <1>9, <1>13, <2>2, Zenon DEF GridAfter, SlotsAfter
    <3> HIDE DEF hits
    <3> QED BY <2>1, <2>2, <3>1
  <2>3. CASE hits(s) # {}
    <3>1. /\ last(s) \in DOMAIN sweep /\ Fits(sweep, source, last(s))
          /\ grid.cells[s] = Row(sweep, source, last(s))
      BY <1>14, <2>3
    <3>2. PICK i \in DOMAIN sweep : i = last(s)
      BY <3>1, Zenon
    <3> HIDE DEF hits, last
    <3>3. Fits(sweep, source, i) /\ grid.cells[s] = Row(sweep, source, i)
      BY <3>1, <3>2, Zenon
    <3>4. PICK gates : gates = sweep[i].moment.gates
      OBVIOUS
    <3>5. gates \in Seq(Nat) /\ Len(gates) = Len(source.gates)
      BY <1>1, <3>3, <3>4 DEF Fits, IsSweep, IsMoment, Grid!Geometry
    <3>6. gates[g + 1] \in Nat
      <4>1. g \in 0..(Len(gates) - 1) BY <2>1, <3>5
      <4> QED BY <3>5, <4>1
    <3>7. grid.cells[s][g] = Grid!Cell(gates[g + 1], source)
      <4>1. g \in 0..(Len(source.gates) - 1) BY <2>1, Zenon
      <4>2. Row(sweep, source, i)[g] = Grid!Cell(gates[g + 1], source)
        BY <3>4, <4>1, Zenon DEF Row
      <4> QED BY <3>3, <4>2, Zenon
    <3>8. CellIsRight(grid.cells[s][g], gates[g + 1], source)
      BY <1>8, <3>6, <3>7, CellRight
    <3> QED BY <2>3, <3>2, <3>4, <3>8, Zenon
  <2> HIDE DEF hits, last
  <2> QED BY <2>2, <2>3, Zenon
<1>16. Cardinality(carrying) = Cardinality(grid.filled) + grid.duplicates + grid.skipped
  BY <1>9, <1>11, Zenon DEF GridAfter
<1>17. /\ 2 * Cardinality({i \in DOMAIN sweep : sweep[i].code = 1}) > Len(sweep) => n = SuperRes
       /\ 2 * Cardinality({i \in DOMAIN sweep : sweep[i].code = 2}) > Len(sweep) => n = Standard
  BY <1>1, <1>3, <1>10, MajorityDecides
<1>18. source = FirstMoment(sweep)
  BY <1>8, <1>11, Zenon DEF FirstMoment
<1>19. /\ \A s \in 0..(n - 1) : \A g \in DOMAIN grid.cells[s] :
            IF hits(s) = {} THEN grid.cells[s][g] = 0
            ELSE CellIsRight(grid.cells[s][g], sweep[last(s)].moment.gates[g + 1], source)
  <2>1. n = A BY <1>10
  <2> HIDE DEF n, hits, last
  <2> QED BY <1>15, <2>1, Zenon
<1>20. ExactScatter(sweep, grid, source)
  BY <1>16, <1>17, <1>19, Zenon DEF ExactScatter
<1>21. ExactScatter(case.input, case.result, FirstMoment(case.input))
  BY <1>1, <1>4, <1>18, <1>20, Zenon
<1> QED BY <1>21 DEF GridIsExactScatter

(* Whatever the sweep, its grid is the exact scatter of it: each cell is   *)
(* the last fitting radial's of its sector, every radial that carries the  *)
(* moment is accounted for, ZDR stays within half a step, and a majority   *)
(* of the spacing codes decides the azimuth count (grid_sweep,             *)
(* azimuth_slot, quantise_zdr, modal_azimuth_count).                       *)
THEOREM SweepIsScatteredExactly == BenchSpec => []GridIsExactScatter
  BY GridCaseHolds, CaseIsExact, PTL DEF BenchSpec

-----------------------------------------------------------------------------
(* The pipeline, for any channel capacities and any number of panics:      *)
(* SupervisorInv is inductive, so it stops only when it was asked to.      *)

(* The pipeline starts without a shutdown, with all four stages waiting.   *)
LEMMA InitEstablishes == Init => SupervisorInv
  <1> SUFFICES ASSUME Init PROVE SupervisorInv
    OBVIOUS
  <1>1. stage \in [Stages -> {"select", "work", "send", "done", "none"}]
    BY DEF Init, FreshStages
  <1>2. owed \in [Channels -> Nat]
    BY DEF Init, NothingOwed
  <1>3. channel \in [Channels -> Nat] /\ \A c \in Channels : channel[c] <= Capacity[c]
    BY PipelineAssumption DEF Init, NothingOwed, Channels
  <1>4. StopsOnlyOnShutdown
    BY DEF Init, StopsOnlyOnShutdown, FreshStages, Stages
  <1>5. SendersOwe
    BY DEF Init, SendersOwe, FreshStages, Stages, Channels
  <1> QED BY <1>1, <1>2, <1>3, <1>4, <1>5 DEF Init, TypeOK, SupervisorInv

(* A step of one stage: only ReturnOnClosed, SendFails and ReturnOnShutdown *)
(* end a stage, the first two after a neighbour has ended.                 *)
LEMMA StageStepPreserves ==
    ASSUME SupervisorInv, NEW i \in Stages, StageStep(i)
    PROVE  SupervisorInv'
  <1> USE DEF SupervisorInv, TypeOK, StopsOnlyOnShutdown, SendersOwe, Stages, Channels
  <1>0. stage # NoStages
    BY DEF StageStep, Tick, Recv, Send, SendFails, ReturnOnClosed, ReturnOnShutdown,
           FinishWork, NoStages
  <1>1. CASE Tick(i)
    BY <1>0, <1>1 DEF Tick
  <1>2. CASE Recv(i)
    <2>1. i - 1 \in Channels
      BY <1>2 DEF Recv
    <2>2. channel' \in [Channels -> Nat] /\ \A c \in Channels : channel'[c] <= Capacity[c]
      BY <1>2, <2>1, PipelineAssumption DEF Recv
    <2>3. stage' \in [Stages -> {"select", "work", "send", "done", "none"}]
      BY <1>2 DEF Recv
    <2>4. StopsOnlyOnShutdown'
      BY <1>2 DEF Recv
    <2> QED BY <1>0, <1>2, <2>2, <2>3, <2>4 DEF Recv
  <1>3. CASE Send(i)
    <2>1. i \in Channels /\ owed[i] > 0
      BY <1>3 DEF Send
    <2>2. channel' \in [Channels -> Nat] /\ \A c \in Channels : channel'[c] <= Capacity[c]
      BY <1>3, <2>1, PipelineAssumption DEF Send
    <2>3. owed' \in [Channels -> Nat]
      BY <1>3, <2>1 DEF Send
    <2>4. stage' \in [Stages -> {"select", "work", "send", "done", "none"}]
      BY <1>3 DEF Send
    <2>5. StopsOnlyOnShutdown'
      BY <1>3 DEF Send
    <2> QED BY <1>0, <1>3, <2>2, <2>3, <2>4, <2>5 DEF Send
  <1>4. CASE SendFails(i)
    BY <1>0, <1>4 DEF SendFails, Stop
  <1>5. CASE ReturnOnClosed(i)
    BY <1>0, <1>5 DEF ReturnOnClosed, Stop
  <1>6. CASE ReturnOnShutdown(i)
    BY <1>0, <1>6 DEF ReturnOnShutdown, Stop
  <1>7. ASSUME NEW n \in 0..(IF i = 4 THEN 0 ELSE MaxOwed[i]), FinishWork(i, n)
        PROVE  SupervisorInv'
    BY <1>0, <1>7, PipelineAssumption DEF FinishWork
  <1> QED BY <1>1, <1>2, <1>3, <1>4, <1>5, <1>6, <1>7 DEF StageStep

(* Every step preserves the invariant.                                     *)
LEMMA NextPreserves == SupervisorInv /\ [Next]_vars => SupervisorInv'
  <1> SUFFICES ASSUME SupervisorInv, [Next]_vars PROVE SupervisorInv'
    OBVIOUS
  <1> USE DEF SupervisorInv, TypeOK, StopsOnlyOnShutdown, SendersOwe, Stages, Channels
  <1>1. ASSUME NEW i \in Stages, StageStep(i) PROVE SupervisorInv'
    BY <1>1, StageStepPreserves
  <1>2. CASE Panic
    BY <1>2, PipelineAssumption DEF Panic, NoStages, NothingOwed
  <1>3. CASE Respawn
    BY <1>3 DEF Respawn, FreshStages
  <1>4. CASE StopInBackoff
    BY <1>4 DEF StopInBackoff, NoStages
  <1>5. CASE TaskReturns
    BY <1>5 DEF TaskReturns
  <1>6. CASE Shutdown
    BY <1>6 DEF Shutdown
  <1>7. CASE UNCHANGED vars
    BY <1>7 DEF vars
  <1> QED BY <1>1, <1>2, <1>3, <1>4, <1>5, <1>6, <1>7 DEF Next

(* In every behaviour, with any capacities: a stage has returned and the   *)
(* supervisor has stopped only if shutdown was asked for.                  *)
THEOREM PipelineStopsOnlyOnShutdown == Spec => []StopsOnlyOnShutdown
  <1>1. SupervisorInv => StopsOnlyOnShutdown
    BY DEF SupervisorInv
  <1> QED BY <1>1, InitEstablishes, NextPreserves, PTL DEF Spec

(* In every behaviour the channels stay within their capacities.           *)
THEOREM PipelineTypeOK == Spec => []TypeOK
  <1>1. SupervisorInv => TypeOK
    BY DEF SupervisorInv
  <1> QED BY <1>1, InitEstablishes, NextPreserves, PTL DEF Spec

=============================================================================
