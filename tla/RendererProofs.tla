---------------------------- MODULE RendererProofs ----------------------------
(***************************************************************************)
(* The render thread for any products, elevations, patterns, grids and     *)
(* cache sizes: what is on the GPU is what was uploaded, a frame shows the *)
(* data it describes, and the selection is the operator's.                 *)
(***************************************************************************)
EXTENDS Renderer, TLAPS, WellFoundedInduction, FiniteSetTheorems

-----------------------------------------------------------------------------
(* The grids of the radar state *)

Arcs == [owner : {"state"}, content : Nat]

Grid == [product : Products, elevation_number : 0..Cuts, scale : Nat, too_large : BOOLEAN,
         arc : Arcs]

OnePerProduct(gs) == \A g, h \in gs : g.product = h.product => g = h

BaseOK(gs, e) ==
    /\ gs \subseteq Grid /\ OnePerProduct(gs)
    /\ \A g \in gs : g.product \notin Derived /\ g.elevation_number = e

DerivedOK(gs) ==
    /\ gs \subseteq Grid /\ OnePerProduct(gs)
    /\ \A g \in gs : g.product \in Derived

Sweep == [volume : {1}, vcp_number : Vcps, grids : SUBSET Grid]

RadarShape ==
    [site : {"site"}, sweeps : [Elevations -> Sweep \cup {None}], derived : SUBSET Grid,
     derived_volume : {1, None}, current_vcp : Vcps \cup {None}, last_complete : {None},
     revision : Nat]

(* A sweep's grids are of that sweep, one per product; so are the derived  *)
(* grids of the volume.  This holds of a radar state and of a snapshot.    *)
GridsOK(r) ==
    /\ \A e \in Elevations : r.sweeps[e] # None => BaseOK(r.sweeps[e].grids, e)
    /\ DerivedOK(r.derived)

(* Where the grids of a snapshot are.                                      *)
LEMMA EntriesAre ==
    ASSUME NEW s, NEW x
    PROVE  x \in snapshot_entries(s) <=>
              \/ x \in s.derived
              \/ \E e \in Elevations : s.sweeps[e] # None /\ x \in s.sweeps[e].grids
<1>1. PICK present : present = {d \in Elevations : s.sweeps[d] # None}
  OBVIOUS
<1>2. PICK held : held = {s.sweeps[e].grids : e \in present}
  OBVIOUS
<1>3. x \in UNION held <=> \E e \in present : x \in s.sweeps[e].grids
  <2>1. ASSUME x \in UNION held PROVE \E e \in present : x \in s.sweeps[e].grids
    <3>1. PICK gs \in held : x \in gs
      BY <2>1
    <3>2. PICK e \in present : gs = s.sweeps[e].grids
      BY <1>2, <3>1
    <3> QED BY <3>1, <3>2
  <2>2. ASSUME NEW e \in present, x \in s.sweeps[e].grids PROVE x \in UNION held
    <3>1. s.sweeps[e].grids \in held
      BY <1>2
    <3> QED BY <2>2, <3>1
  <2> QED BY <2>1, <2>2
<1>4. snapshot_entries(s) = s.derived \cup UNION held
  BY <1>1, <1>2 DEF snapshot_entries
<1>5. \A e : e \in present <=> e \in Elevations /\ s.sweeps[e] # None
  BY <1>1
<1>6. (\E e \in present : x \in s.sweeps[e].grids)
        <=> (\E e \in Elevations : s.sweeps[e] # None /\ x \in s.sweeps[e].grids)
  BY <1>5
<1>7. x \in snapshot_entries(s) <=> x \in s.derived \/ x \in UNION held
  BY <1>4
<1> QED BY <1>3, <1>6, <1>7, Zenon

(* A grid of a snapshot is found under its key: no other grid has it.      *)
LEMMA KeysAreUnique ==
    ASSUME NEW s, GridsOK(s), NEW g \in snapshot_entries(s), NEW h \in snapshot_entries(s),
           grid_key(g) = grid_key(h)
    PROVE  g = h
<1>1. ASSUME NEW x \in snapshot_entries(s)
      PROVE  \/ x \in s.derived /\ x.product \in Derived
             \/ \E e \in Elevations : /\ s.sweeps[e] # None /\ x \in s.sweeps[e].grids
                                      /\ x.product \notin Derived /\ x.elevation_number = e
  BY EntriesAre DEF GridsOK, BaseOK, DerivedOK
<1>2. g.product = h.product
  BY DEF grid_key
<1>3. CASE g.product \in Derived
  BY <1>1, <1>2, <1>3 DEF GridsOK, DerivedOK, OnePerProduct
<1>4. CASE g.product \notin Derived
  <2>1. g.elevation_number = h.elevation_number
    BY <1>2, <1>4 DEF grid_key
  <2> QED BY <1>1, <1>2, <1>4, <2>1 DEF GridsOK, BaseOK, OnePerProduct
<1> QED BY <1>3, <1>4

(* Every grid of a snapshot is one, and its key is a key.                  *)
LEMMA EntriesType ==
    ASSUME NEW s, GridsOK(s)
    PROVE  /\ snapshot_entries(s) \subseteq Grid
           /\ \A g \in snapshot_entries(s) : grid_key(g) \in Products \X (0..Cuts)
<1>1. snapshot_entries(s) \subseteq Grid
  BY EntriesAre DEF GridsOK, BaseOK, DerivedOK
<1>2. 0 \in 0..Cuts
  BY RendererAssumption
<1> QED BY <1>1, <1>2 DEF Grid, grid_key

(* entries.iter().find().                                                  *)
LEMMA EntryFound ==
    ASSUME NEW E, NEW k \in Keys(E)
    PROVE  Entry(E, k) \in E /\ grid_key(Entry(E, k)) = k
BY DEF Entry, Keys

LEMMA EntryOf ==
    ASSUME NEW s, GridsOK(s), NEW g \in snapshot_entries(s)
    PROVE  grid_key(g) \in Keys(snapshot_entries(s)) /\ Entry(snapshot_entries(s), grid_key(g)) = g
<1>1. grid_key(g) \in Keys(snapshot_entries(s))
  BY DEF Keys
<1> QED BY <1>1, EntryFound, KeysAreUnique

-----------------------------------------------------------------------------
(* render/radar.rs *)

(* A set of natural numbers has a least element.                           *)
LEMMA LeastExists ==
    ASSUME NEW T, T \subseteq Nat, T # {}
    PROVE  \E x \in T : \A y \in T : x <= y
<1>1. PICK x \in T : \A y \in T : ~(<<y, x>> \in OpToRel(<, Nat))
  <2> HIDE DEF OpToRel
  <2> QED BY WFMin, NatLessThanWellFounded
<1>2. ASSUME NEW y \in T PROVE x <= y
  <2>1. <<y, x>> \in Nat \X Nat OBVIOUS
  <2>2. ~(y < x) BY <1>1, <2>1 DEF OpToRel
  <2> QED BY <2>2
<1> QED BY <1>1, <1>2

(* Row and column of a position in a table of width C.                     *)
LEMMA DivMod ==
    ASSUME NEW C \in Nat \ {0}, NEW a \in Nat, NEW b \in 0..(C - 1)
    PROVE  (a * C + b) \div C = a /\ (a * C + b) % C = b
OBVIOUS

LEMMA PositionBound ==
    ASSUME NEW C \in Nat \ {0}, NEW n \in Nat, NEW a \in 1..n, NEW b \in 0..(C - 1)
    PROVE  (a - 1) * C + b + 1 \in 1..(n * C)
<1>1. PICK d \in Nat : n = a + d
  <2>1. n - a \in Nat /\ n = a + (n - a) OBVIOUS
  <2> QED BY <2>1
<1>2. n * C = (a - 1) * C + C + d * C
  BY <1>1
<1>3. d * C \in Nat /\ (a - 1) * C \in Nat
  BY <1>1
<1> QED BY <1>2, <1>3

(* The order of the keys has each key.                                     *)
LEMMA KeyOrderHasAll ==
    /\ Len(KeyOrder) \in Nat
    /\ \A k \in Products \X (0..Cuts) : \E i \in 1..Len(KeyOrder) : KeyOrder[i] = k
<1>1. PICK C : C = Cuts + 1
  OBVIOUS
<1>2. PICK n : n = Len(ALL)
  OBVIOUS
<1>3. C \in Nat \ {0} /\ n \in Nat /\ DOMAIN ALL = 1..n /\ 0..Cuts = 0..(C - 1)
  BY <1>1, <1>2, RendererAssumption, GridsAssumption
<1>4. PICK N : N = n * C
  OBVIOUS
<1>5. N \in Nat
  BY <1>3, <1>4
<1>6. KeyOrder = [i \in 1..N |-> <<ALL[((i - 1) \div C) + 1], (i - 1) % C>>]
  BY <1>1, <1>2, <1>4 DEF KeyOrder
<1>7. Len(KeyOrder) = N
  BY <1>5, <1>6
<1>8. ASSUME NEW k \in Products \X (0..Cuts)
      PROVE  \E i \in 1..N : KeyOrder[i] = k
  <2>1. PICK a \in 1..n : k[1] = ALL[a]
    BY <1>3 DEF Products
  <2>2. PICK b \in 0..(C - 1) : k[2] = b
    BY <1>3
  <2>3. PICK i : i = (a - 1) * C + b + 1
    OBVIOUS
  <2>4. i \in 1..N
    BY <1>3, <1>4, <2>3, PositionBound
  <2>5. PICK r \in Nat : r = a - 1
    <3>1. a - 1 \in Nat BY <1>3
    <3> QED BY <3>1
  <2>6. i - 1 = r * C + b
    BY <1>3, <2>3, <2>5
  <2>7. (i - 1) \div C = r /\ (i - 1) % C = b
    <3>1. (r * C + b) \div C = r /\ (r * C + b) % C = b
      BY <1>3, DivMod
    <3> QED BY <2>6, <3>1
  <2>8. k = <<ALL[a], b>>
    BY <2>1, <2>2
  <2>9. KeyOrder[i] = <<ALL[((i - 1) \div C) + 1], (i - 1) % C>>
    BY <1>6, <2>4
  <2>10. r + 1 = a
    BY <1>3, <2>5
  <2> QED BY <2>4, <2>7, <2>8, <2>9, <2>10
<1> QED BY <1>5, <1>7, <1>8

(* A function on 0..N that is defined from its predecessor exists.         *)
Steps(f, N, C, A) == f = [n \in 0..N |-> [c \in C |-> IF n = 0 THEN c ELSE f[n - 1][A[<<n, c>>]]]]

LEMMA RecursionExists ==
    ASSUME NEW N \in Nat, NEW C, NEW A
    PROVE  \E f : Steps(f, N, C, A)
<1> DEFINE Good(n) == \E f : f = [i \in 0..n |-> [c \in C |->
                                       IF i = 0 THEN c ELSE f[i - 1][A[<<i, c>>]]]]
<1>1. SUFFICES ASSUME ~Good(N) PROVE FALSE
  BY <1>1 DEF Steps
<1>2. PICK n \in {m \in Nat : ~Good(m)} : \A m \in {m \in Nat : ~Good(m)} : n <= m
  <2> HIDE DEF Good
  <2>1. {m \in Nat : ~Good(m)} \subseteq Nat OBVIOUS
  <2>2. {m \in Nat : ~Good(m)} # {} BY <1>1
  <2> QED BY <2>1, <2>2, LeastExists
<1>3. CASE n = 0
  <2>1. PICK f : f = [i \in 0..0 |-> [c \in C |-> c]]
    OBVIOUS
  <2>2. f = [i \in 0..n |-> [c \in C |-> IF i = 0 THEN c ELSE f[i - 1][A[<<i, c>>]]]]
    <3>1. \A i \in 0..0 : i = 0 OBVIOUS
    <3>2. \A i \in 0..0 : [c \in C |-> c] = [c \in C |-> IF i = 0 THEN c ELSE f[i - 1][A[<<i, c>>]]]
      BY <3>1
    <3> QED BY <1>3, <2>1, <3>2
  <2> QED BY <1>2, <2>2
<1>4. CASE n # 0
  <2>1. n - 1 \in Nat /\ ~(n <= n - 1)
    BY <1>2, <1>4
  <2>2. Good(n - 1)
    <3> HIDE DEF Good
    <3> QED BY <1>2, <2>1
  <2>3. PICK f : f = [i \in 0..(n - 1) |-> [c \in C |->
                            IF i = 0 THEN c ELSE f[i - 1][A[<<i, c>>]]]]
    BY <2>2
  <2>4. PICK g : g = [i \in 0..n |-> [c \in C |-> IF i = 0 THEN c ELSE f[i - 1][A[<<i, c>>]]]]
    OBVIOUS
  <2>5. ASSUME NEW i \in 0..(n - 1) PROVE g[i] = f[i]
    <3>1. i \in 0..n BY <1>2
    <3>2. g[i] = [c \in C |-> IF i = 0 THEN c ELSE f[i - 1][A[<<i, c>>]]]
      BY <2>4, <3>1
    <3>3. f[i] = [c \in C |-> IF i = 0 THEN c ELSE f[i - 1][A[<<i, c>>]]]
      BY <2>3
    <3> QED BY <3>2, <3>3
  <2>6. ASSUME NEW i \in 0..n
        PROVE  [c \in C |-> IF i = 0 THEN c ELSE f[i - 1][A[<<i, c>>]]]
                 = [c \in C |-> IF i = 0 THEN c ELSE g[i - 1][A[<<i, c>>]]]
    <3>1. i = 0 \/ i - 1 \in 0..(n - 1) BY <1>2
    <3>2. i = 0 \/ f[i - 1] = g[i - 1] BY <2>5, <3>1
    <3> QED BY <3>2
  <2>7. g = [i \in 0..n |-> [c \in C |-> IF i = 0 THEN c ELSE g[i - 1][A[<<i, c>>]]]]
    BY <2>4, <2>6
  <2> QED BY <1>2, <2>7
<1> QED BY <1>3, <1>4

WithinCap(S) == IsFiniteSet(S) /\ Cardinality(S) <= LutCacheCap

(* ensure_lut leaves the LUT of its grid in the cache, keeps its bound and *)
(* loses no other unless it says so.                                       *)
LEMMA EnsureLut ==
    ASSUME NEW c \in LutCaches, NEW g \in Grid
    PROVE  /\ ensure_lut(c, g) \in LutCaches
           /\ lut_key(g) \in ensure_lut(c, g).luts
           /\ c.bounded => ensure_lut(c, g).bounded
           /\ ensure_lut(c, g).bounded \/ c.luts \subseteq ensure_lut(c, g).luts
           /\ WithinCap(c.luts) => WithinCap(ensure_lut(c, g).luts)
<1>1. lut_key(g) \in Products \X Nat
  BY DEF lut_key, Grid
<1> HIDE DEF lut_key
<1>2. {lut_key(g)} \in SUBSET (Products \X Nat) /\ c.luts \cup {lut_key(g)} \in SUBSET (Products \X Nat)
  BY <1>1 DEF LutCaches
<1>3. ASSUME WithinCap(c.luts) PROVE WithinCap(ensure_lut(c, g).luts)
  <2>1. PICK x : x = lut_key(g)
    OBVIOUS
  <2>2. PICK S : S = c.luts
    OBVIOUS
  <2>3. IsFiniteSet(S) /\ Cardinality(S) \in Nat /\ Cardinality(S) <= LutCacheCap
    BY <1>3, <2>2, FS_CardinalityType DEF WithinCap
  <2>4. IsFiniteSet({x}) /\ Cardinality({x}) = 1
    BY FS_Singleton
  <2>5. WithinCap({x})
    BY <2>4, RendererAssumption DEF WithinCap
  <2>6. x \notin S => IsFiniteSet(S \cup {x}) /\ Cardinality(S \cup {x}) = Cardinality(S) + 1
    BY <2>3, FS_AddElement
  <2>7. (x \notin S /\ ~(Cardinality(S) >= LutCacheCap)) => WithinCap(S \cup {x})
    BY <2>3, <2>6, RendererAssumption DEF WithinCap
  <2>8. \/ x \in S /\ ensure_lut(c, g).luts = S
        \/ ensure_lut(c, g).luts = {x}
        \/ x \notin S /\ ~(Cardinality(S) >= LutCacheCap) /\ ensure_lut(c, g).luts = S \cup {x}
    BY <2>1, <2>2 DEF ensure_lut, LutCaches
  <2> QED BY <1>3, <2>2, <2>5, <2>7, <2>8
<1> QED BY <1>2, <1>3 DEF ensure_lut, LutCaches

(* What the cache c is after the n-th from last key.                       *)
Visit(E, keys, n, c) ==
    LET k == KeyOrder[Len(KeyOrder) - n + 1]
    IN  IF k \in keys THEN ensure_lut(c, Entry(E, k)) ELSE c

(* After all keys the LUT of each of keys is in the cache, unless the      *)
(* cache was cleared on the way, which is then reported.                   *)
LutsOf(E, keys, c, d) ==
    /\ d \in LutCaches
    /\ d.bounded \/ /\ c.luts \subseteq d.luts
                    /\ \A k \in keys : lut_key(Entry(E, k)) \in d.luts
    /\ c.bounded => d.bounded
    /\ WithinCap(c.luts) => WithinCap(d.luts)

Last(n) == {KeyOrder[i] : i \in (Len(KeyOrder) - n + 1)..Len(KeyOrder)}

LEMMA VisitOne ==
    ASSUME NEW E, NEW keys, keys \subseteq Keys(E), E \subseteq Grid,
           NEW n, NEW c \in LutCaches
    PROVE  LutsOf(E, keys \cap {KeyOrder[Len(KeyOrder) - n + 1]}, c, Visit(E, keys, n, c))
<1>1. PICK k : k = KeyOrder[Len(KeyOrder) - n + 1]
  OBVIOUS
<1>2. CASE k \in keys
  <2>1. Entry(E, k) \in Grid
    BY <1>2, EntryFound
  <2>2. Visit(E, keys, n, c) = ensure_lut(c, Entry(E, k))
    BY <1>1, <1>2 DEF Visit
  <2>3. PICK g \in Grid : g = Entry(E, k)
    BY <2>1
  <2> QED BY <1>1, <2>2, <2>3, EnsureLut DEF LutsOf
<1>3. CASE k \notin keys
  <2>1. Visit(E, keys, n, c) = c
    BY <1>1, <1>3 DEF Visit
  <2> QED BY <1>1, <1>3, <2>1 DEF LutsOf
<1> QED BY <1>2, <1>3

LEMMA EnsureLuts ==
    ASSUME NEW E, NEW keys, keys \subseteq Keys(E), E \subseteq Grid, NEW c \in LutCaches,
           Keys(E) \subseteq Products \X (0..Cuts)
    PROVE  LutsOf(E, keys, c, ensure_luts(E, keys)[c])
<1>1. PICK N \in Nat : N = Len(KeyOrder)
  BY KeyOrderHasAll
<1>2. PICK A : A = [p \in (0..N) \X LutCaches |-> Visit(E, keys, p[1], p[2])]
  OBVIOUS
<1> DEFINE Def(f) == [n \in 0..N |-> [d \in LutCaches |->
                        IF n = 0 THEN d
                        ELSE LET k == KeyOrder[Len(KeyOrder) - n + 1]
                             IN  f[n - 1][IF k \in keys THEN ensure_lut(d, Entry(E, k)) ELSE d]]]
<1>3. PICK f : f = [n \in 0..N |-> [d \in LutCaches |-> IF n = 0 THEN d ELSE f[n - 1][A[<<n, d>>]]]]
  <2>1. \E f : Steps(f, N, LutCaches, A)
    BY RecursionExists
  <2> QED BY <2>1 DEF Steps
<1>4. f = Def(f)
  <2>1. \A n \in 0..N : \A d \in LutCaches : A[<<n, d>>] = Visit(E, keys, n, d)
    BY <1>2
  <2>2. \A n \in 0..N : \A d \in LutCaches :
           (IF n = 0 THEN d ELSE f[n - 1][A[<<n, d>>]])
             = (IF n = 0 THEN d
                ELSE LET k == KeyOrder[Len(KeyOrder) - n + 1]
                     IN  f[n - 1][IF k \in keys THEN ensure_lut(d, Entry(E, k)) ELSE d])
    BY <2>1 DEF Visit
  <2>3. \A n \in 0..N : [d \in LutCaches |-> IF n = 0 THEN d ELSE f[n - 1][A[<<n, d>>]]]
                       = [d \in LutCaches |-> IF n = 0 THEN d
                ELSE LET k == KeyOrder[Len(KeyOrder) - n + 1]
                     IN  f[n - 1][IF k \in keys THEN ensure_lut(d, Entry(E, k)) ELSE d]]
    BY <2>2
  <2> QED BY <1>3, <2>3
<1>5. PICK rest : rest = CHOOSE h : h = Def(h)
  OBVIOUS
<1>6. rest = Def(rest)
  <2> HIDE DEF Def
  <2> QED BY <1>4, <1>5
<1>7. ensure_luts(E, keys) = rest[N]
  BY <1>1, <1>5 DEF ensure_luts
<1>8. \A d \in LutCaches : rest[0][d] = d
  BY <1>6
<1>9. \A n \in 1..N, d \in LutCaches : rest[n][d] = rest[n - 1][Visit(E, keys, n, d)]
  <2> SUFFICES ASSUME NEW n \in 1..N, NEW d \in LutCaches
               PROVE  rest[n][d] = rest[n - 1][Visit(E, keys, n, d)]
    OBVIOUS
  <2>1. n \in 0..N /\ n # 0
    OBVIOUS
  <2>2. rest[n] = [e \in LutCaches |->
                        IF n = 0 THEN e
                        ELSE LET k == KeyOrder[Len(KeyOrder) - n + 1]
                             IN  rest[n - 1][IF k \in keys THEN ensure_lut(e, Entry(E, k)) ELSE e]]
    BY <1>6, <2>1
  <2> QED BY <2>1, <2>2 DEF Visit
<1> DEFINE Bad == {n \in 0..N : ~\A d \in LutCaches : LutsOf(E, keys \cap Last(n), d, rest[n][d])}
<1>10. Bad = {}
  <2>1. SUFFICES ASSUME Bad # {} PROVE FALSE
    OBVIOUS
  <2>2. PICK n \in Bad : \A m \in Bad : n <= m
    <3>1. Bad \subseteq Nat OBVIOUS
    <3> HIDE DEF Bad
    <3> QED BY <2>1, <3>1, LeastExists
  <2>3. PICK d \in LutCaches : ~LutsOf(E, keys \cap Last(n), d, rest[n][d])
    BY <2>2
  <2>4. CASE n = 0
    <3>1. Last(n) = {}
      BY <1>1, <2>4 DEF Last
    <3> QED BY <1>8, <2>3, <2>4, <3>1 DEF LutsOf
  <2>5. CASE n # 0
    <3>1. n \in 1..N /\ n - 1 \in 0..N /\ ~(n <= n - 1)
      BY <2>2, <2>5
    <3>2. n - 1 \notin Bad
      <4> HIDE DEF Bad
      <4> QED BY <2>2, <3>1
    <3>3. PICK b : b = Visit(E, keys, n, d)
      OBVIOUS
    <3>4. PICK k : k = KeyOrder[N - n + 1]
      OBVIOUS
    <3>5. LutsOf(E, keys \cap {k}, d, b)
      BY <1>1, <2>3, <3>3, <3>4, VisitOne
    <3>6. LutsOf(E, keys \cap Last(n - 1), b, rest[n - 1][b])
      <4>1. b \in LutCaches BY <3>5 DEF LutsOf
      <4> QED BY <3>1, <3>2, <4>1
    <3>7. rest[n][d] = rest[n - 1][b]
      BY <1>9, <2>3, <3>1, <3>3
    <3>8. Last(n) \subseteq {k} \cup Last(n - 1)
      <4>1. (N - n + 1)..N = {N - n + 1} \cup ((N - (n - 1) + 1)..N)
        BY <1>1, <3>1
      <4> QED BY <1>1, <3>4, <4>1 DEF Last
    <3>9. LutsOf(E, keys \cap Last(n), d, rest[n - 1][b])
      BY <3>5, <3>6, <3>8 DEF LutsOf
    <3> QED BY <2>3, <3>7, <3>9
  <2> QED BY <2>4, <2>5
<1>11. keys \subseteq Last(N)
  <2>1. ASSUME NEW k \in keys PROVE k \in Last(N)
    <3>1. PICK i \in 1..N : KeyOrder[i] = k
      BY <1>1, KeyOrderHasAll
    <3>2. i \in (N - N + 1)..N
      BY <1>1
    <3> QED BY <1>1, <3>1, <3>2 DEF Last
  <2> QED BY <2>1
<1>12. LutsOf(E, keys \cap Last(N), c, rest[N][c])
  <2>1. N \in 0..N
    OBVIOUS
  <2>2. N \notin Bad
    BY <1>10, Zenon
  <2> QED BY <2>1, <2>2
<1> QED BY <1>7, <1>11, <1>12 DEF LutsOf

(* What sync leaves on the GPU, of the snapshot s.                         *)
Textured(s) ==
    /\ DOMAIN grids \subseteq Keys(snapshot_entries(s))
    /\ \A g \in snapshot_entries(s) : ~g.too_large =>
          /\ grid_key(g) \in DOMAIN grids
          /\ grids[grid_key(g)].texture = g.arc.content
          /\ lut_key(g) \in luts \/ "RetainedGridSetBounded" \in notices

(* source is the cache's own Arc, so no grid of a snapshot is ever found   *)
(* to be uploaded already, and the LUT cache has its bound.                *)
CachesOK ==
    /\ \A k \in DOMAIN grids :
          k \in Products \X (0..Cuts) /\ grids[k].source.owner = "cache"
    /\ luts \subseteq Products \X Nat /\ WithinCap(luts)

LEMMA SyncHolds ==
    ASSUME NEW s, GridsOK(s), CachesOK, sync(s)
    PROVE  Textured(s)' /\ CachesOK' /\ uploaded' = s
<1>1. PICK E : E = snapshot_entries(s)
  OBVIOUS
<1>2. /\ E \subseteq Grid
      /\ \A g \in E : grid_key(g) \in Products \X (0..Cuts)
      /\ \A g \in E : grid_key(g) \in Keys(E) /\ Entry(E, grid_key(g)) = g
      /\ \A k \in Keys(E) : Entry(E, k) \in E /\ grid_key(Entry(E, k)) = k
  BY <1>1, EntriesType, EntryOf, EntryFound
<1>3. Keys(E) \subseteq Products \X (0..Cuts)
  BY <1>2 DEF Keys
<1>4. plan_sync(grids, E).to_upload = Keys(E)
  <2>1. ASSUME NEW k \in Keys(E), k \in DOMAIN grids
        PROVE  ~ptr_eq(grids[k].source, Entry(E, k).arc)
    <3>1. Entry(E, k).arc.owner = "state"
      BY <1>2 DEF Grid, Arcs
    <3>2. grids[k].source.owner = "cache"
      BY <2>1 DEF CachesOK
    <3> QED BY <3>1, <3>2 DEF ptr_eq
  <2> QED BY <2>1 DEF plan_sync
<1>5. plan_sync(grids, E).to_evict = DOMAIN grids \ Keys(E)
  BY DEF plan_sync
<1>6. PICK accepted : accepted = Keys(E) \ {k \in Keys(E) : Entry(E, k).too_large}
  OBVIOUS
<1>7. PICK c : c = [luts |-> luts, bounded |-> FALSE]
  OBVIOUS
<1>8. PICK cache : cache = ensure_luts(E, accepted)[c]
  OBVIOUS
<1>9. LutsOf(E, accepted, c, cache)
  <2>1. c \in LutCaches
    BY <1>7 DEF LutCaches, CachesOK
  <2>2. accepted \subseteq Keys(E)
    BY <1>6
  <2> QED BY <1>2, <1>3, <1>8, <2>1, <2>2, EnsureLuts
<1>10. /\ grids' = [k \in (DOMAIN grids \ (DOMAIN grids \ Keys(E))) \cup accepted |->
                       IF k \in accepted THEN upload_grid(Entry(E, k)) ELSE grids[k]]
       /\ luts' = cache.luts
       /\ cache.bounded => "RetainedGridSetBounded" \in notices'
       /\ uploaded' = s
  <2>1. PICK plan : plan = plan_sync(grids, E)
    OBVIOUS
  <2>2. plan.to_upload = Keys(E) /\ plan.to_evict = DOMAIN grids \ Keys(E)
    BY <1>4, <1>5, <2>1
  <2>3. accepted = plan.to_upload \ {k \in plan.to_upload : Entry(E, k).too_large}
    BY <1>6, <2>2
  <2>4. /\ grids' = [k \in (DOMAIN grids \ plan.to_evict) \cup accepted |->
                        IF k \in accepted THEN upload_grid(Entry(E, k)) ELSE grids[k]]
        /\ luts' = cache.luts
        /\ notices' = {n \in {"DegenerateGateGeometry", "RetainedGridSetBounded"} :
                          IF n = "RetainedGridSetBounded" THEN cache.bounded
                          ELSE {k \in plan.to_upload : Entry(E, k).too_large} # {}}
        /\ uploaded' = s
    BY <1>1, <1>7, <1>8, <2>1, <2>3 DEF sync
  <2> QED BY <2>2, <2>4
<1>11. DOMAIN grids' = (DOMAIN grids \ (DOMAIN grids \ Keys(E))) \cup accepted
  BY <1>10
<1>12. \A k \in accepted : grids'[k] = upload_grid(Entry(E, k))
  BY <1>10
<1>13. \A k \in DOMAIN grids' \ accepted : k \in DOMAIN grids /\ grids'[k] = grids[k]
  BY <1>10
<1>14. Textured(s)'
  <2>1. DOMAIN grids' \subseteq Keys(E)
    BY <1>6, <1>11
  <2>2. ASSUME NEW g \in E, ~g.too_large
        PROVE  /\ grid_key(g) \in DOMAIN grids'
               /\ grids'[grid_key(g)].texture = g.arc.content
               /\ lut_key(g) \in luts' \/ "RetainedGridSetBounded" \in notices'
    <3>1. grid_key(g) \in accepted /\ Entry(E, grid_key(g)) = g
      BY <1>2, <1>6, <2>2
    <3>2. grids'[grid_key(g)] = upload_grid(g)
      BY <1>12, <3>1
    <3>3. lut_key(g) \in luts' \/ "RetainedGridSetBounded" \in notices'
      BY <1>9, <1>10, <3>1 DEF LutsOf
    <3> QED BY <1>11, <3>1, <3>2, <3>3 DEF upload_grid
  <2> QED BY <1>1, <2>1, <2>2 DEF Textured
<1>15. CachesOK'
  <2>1. ASSUME NEW k \in DOMAIN grids' PROVE grids'[k].source.owner = "cache"
    <3>1. CASE k \in accepted
      <4>1. grids'[k] = upload_grid(Entry(E, k))
        BY <1>12, <3>1
      <4>2. upload_grid(Entry(E, k)).source.owner = "cache"
        BY DEF upload_grid
      <4> QED BY <4>1, <4>2
    <3>2. CASE k \notin accepted
      BY <1>13, <2>1, <3>2 DEF CachesOK
    <3> QED BY <3>1, <3>2
  <2>2. luts' \subseteq Products \X Nat /\ WithinCap(luts')
    BY <1>7, <1>9, <1>10 DEF LutsOf, LutCaches, CachesOK
  <2>3. DOMAIN grids' \subseteq Products \X (0..Cuts)
    BY <1>3, <1>6, <1>11
  <2> QED BY <2>1, <2>2, <2>3 DEF CachesOK, WithinCap
<1> QED BY <1>10, <1>14, <1>15

-----------------------------------------------------------------------------
(* The applier *)

RadarOK(r) == r \in RadarShape /\ GridsOK(r) /\ r.revision <= MaxRevision

(* The grids of an update are those of one sweep, or of one volume.        *)
LEMMA FreshGrids ==
    ASSUME RadarOK(radar)
    PROVE  /\ \A e \in Elevations, contents \in BaseGrids : BaseOK(Fresh(contents, e), e)
           /\ \A contents \in DerivedGrids : DerivedOK(Fresh(contents, 0))
<1>1. PICK arc : arc = [owner |-> "state", content |-> radar.revision + 1]
  OBVIOUS
<1>2. arc \in Arcs
  BY <1>1 DEF RadarOK, RadarShape, Arcs
<1>3. ASSUME NEW e \in 0..Cuts, NEW contents \in BaseGrids \cup DerivedGrids
      PROVE  /\ Fresh(contents, e) \subseteq Grid /\ OnePerProduct(Fresh(contents, e))
             /\ \A g \in Fresh(contents, e) : g.elevation_number = e /\ \E h \in contents : g.product = h.product
  <2>1. contents \subseteq [product : Products, scale : Nat, too_large : BOOLEAN]
    BY GridsAssumption
  <2>2. \A g, h \in contents : g.product = h.product => g = h
    BY GridsAssumption
  <2>3. Fresh(contents, e) = {[product |-> g.product, elevation_number |-> e, scale |-> g.scale,
                              too_large |-> g.too_large, arc |-> arc] : g \in contents}
    BY <1>1 DEF Fresh
  <2> QED BY <1>2, <2>1, <2>2, <2>3 DEF Grid, OnePerProduct
<1>4. ASSUME NEW e \in Elevations, NEW contents \in BaseGrids PROVE BaseOK(Fresh(contents, e), e)
  <2>1. e \in 0..Cuts
    BY RendererAssumption DEF Elevations
  <2>2. \A h \in contents : h.product \notin Derived
    BY GridsAssumption
  <2> QED BY <1>3, <2>1, <2>2 DEF BaseOK
<1>5. ASSUME NEW contents \in DerivedGrids PROVE DerivedOK(Fresh(contents, 0))
  <2>1. 0 \in 0..Cuts
    BY RendererAssumption
  <2>2. \A h \in contents : h.product \in Derived
    BY GridsAssumption
  <2> QED BY <1>3, <2>1, <2>2 DEF DerivedOK
<1> QED BY <1>4, <1>5

LEMMA ApplySweep ==
    ASSUME NEW r \in RadarShape, GridsOK(r), NEW e \in Elevations, NEW vcp \in Vcps,
           NEW gs, BaseOK(gs, e), NEW u,
           u = [type |-> "SweepGridded", elevation_number |-> e, volume |-> 1,
                vcp_number |-> vcp, grids |-> gs]
    PROVE  R!apply(r, u) \in RadarShape /\ GridsOK(R!apply(r, u))
             /\ R!apply(r, u).revision = r.revision + 1
<1>1. PICK b : b = IF r.current_vcp \notin {None, u.vcp_number} THEN R!clear_pattern(r) ELSE r
  OBVIOUS
<1>2. b \in RadarShape /\ GridsOK(b) /\ b.revision = r.revision
  <2>1. CASE b = r
    BY <2>1
  <2>2. CASE b = R!clear_pattern(r)
    <3>1. /\ b \in RadarShape /\ b.sweeps = [d \in Elevations |-> None] /\ b.derived = {}
          /\ b.revision = r.revision
      BY <2>2 DEF R!clear_pattern, R!NoSweeps, RadarShape
    <3> QED BY <3>1 DEF GridsOK, DerivedOK, OnePerProduct
  <2> QED BY <1>1, <2>1, <2>2
<1>3. PICK shown : shown = [volume |-> 1, vcp_number |-> vcp, grids |-> gs]
  OBVIOUS
<1>4. shown \in Sweep /\ shown.grids = gs
  BY <1>3 DEF Sweep, BaseOK
<1>5. ~(b.sweeps[e] # None /\ 1 < b.sweeps[e].volume)
  BY <1>2 DEF RadarShape, Sweep
<1>6. PICK t : t = [[b EXCEPT !.current_vcp = vcp] EXCEPT !.sweeps[e] = shown, !.revision = @ + 1]
  OBVIOUS
<1>7. R!apply(r, u) = t
  BY <1>1, <1>3, <1>5, <1>6 DEF R!apply, R!apply_sweep
<1>8. /\ t \in RadarShape /\ t.revision = b.revision + 1 /\ t.derived = b.derived
      /\ t.sweeps = [b.sweeps EXCEPT ![e] = shown]
  <2>1. b.revision + 1 \in Nat
    BY <1>2 DEF RadarShape
  <2>2. [b.sweeps EXCEPT ![e] = shown] \in [Elevations -> Sweep \cup {None}]
    BY <1>2, <1>4 DEF RadarShape
  <2>3. t = [site |-> b.site, sweeps |-> [b.sweeps EXCEPT ![e] = shown], derived |-> b.derived,
             derived_volume |-> b.derived_volume, current_vcp |-> vcp,
             last_complete |-> b.last_complete, revision |-> b.revision + 1]
    BY <1>2, <1>6 DEF RadarShape
  <2> HIDE DEF Sweep
  <2> QED BY <1>2, <2>1, <2>2, <2>3 DEF RadarShape
<1>9. GridsOK(t)
  <2>1. ASSUME NEW d \in Elevations, t.sweeps[d] # None PROVE BaseOK(t.sweeps[d].grids, d)
    <3>1. CASE d = e
      <4>1. t.sweeps[d] = shown
        BY <1>2, <1>8, <3>1 DEF RadarShape
      <4> QED BY <1>4, <3>1, <4>1
    <3>2. CASE d # e
      <4>1. t.sweeps[d] = b.sweeps[d]
        BY <1>2, <1>8, <3>2 DEF RadarShape
      <4> QED BY <1>2, <2>1, <4>1 DEF GridsOK
    <3> QED BY <3>1, <3>2
  <2> QED BY <1>2, <1>8, <2>1 DEF GridsOK
<1> QED BY <1>2, <1>7, <1>8, <1>9

LEMMA ApplyDerived ==
    ASSUME NEW r \in RadarShape, GridsOK(r), NEW vcp, NEW gs, DerivedOK(gs), NEW u,
           u = [type |-> "DerivedComputed", volume |-> 1, vcp_number |-> vcp, grids |-> gs]
    PROVE  R!apply(r, u) \in RadarShape /\ GridsOK(R!apply(r, u))
             /\ R!apply(r, u).revision = r.revision + 1
<1>1. PICK t : t = [r EXCEPT !.derived = gs, !.derived_volume = 1, !.revision = @ + 1]
  OBVIOUS
<1>2. ~(r.derived_volume # None /\ 1 < r.derived_volume)
  BY DEF RadarShape
<1>3. R!apply(r, u) = t
  BY <1>1, <1>2 DEF R!apply, R!apply_derived
<1>4. t \in RadarShape /\ t.sweeps = r.sweeps /\ t.derived = gs /\ t.revision = r.revision + 1
  <2>1. r.revision + 1 \in Nat
    BY DEF RadarShape
  <2>2. gs \in SUBSET Grid
    BY DEF DerivedOK
  <2>3. t = [site |-> r.site, sweeps |-> r.sweeps, derived |-> gs, derived_volume |-> 1,
             current_vcp |-> r.current_vcp, last_complete |-> r.last_complete,
             revision |-> r.revision + 1]
    BY <1>1 DEF RadarShape
  <2> HIDE DEF Sweep, Grid
  <2> QED BY <2>1, <2>2, <2>3 DEF RadarShape
<1> QED BY <1>3, <1>4 DEF GridsOK

LEMMA SnapshotOK ==
    ASSUME NEW r, GridsOK(r), NEW s, s = R!snapshot(r)
    PROVE  GridsOK(s) /\ s.revision = r.revision /\ s.sweeps = r.sweeps /\ s.derived = r.derived
<1>1. s.sweeps = r.sweeps /\ s.derived = r.derived /\ s.revision = r.revision
  BY DEF R!snapshot
<1> QED BY <1>1 DEF GridsOK

-----------------------------------------------------------------------------
(* The inductive invariant *)

(* The revision of the uploaded snapshot tells whether it is the current   *)
(* one; what was uploaded is on the GPU with its LUTs, or the clearing of  *)
(* the LUT cache was reported.                                             *)
UploadedOK ==
    uploaded # None =>
        /\ GridsOK(uploaded) /\ Textured(uploaded)
        /\ uploaded.revision \in Nat /\ uploaded.revision <= radar.revision
        /\ uploaded.revision = radar.revision => uploaded = R!snapshot(radar)

(* The texture shown is that of the grid the frame describes.              *)
FrameOK ==
    (frame # None /\ frame.texture # None) =>
        frame.selected.too_large \/ frame.texture = frame.selected.arc.content

RendererInv == RadarOK(radar) /\ CachesOK /\ UploadedOK /\ FrameOK

LEMMA RendererInvInit == Init => RendererInv
<1> SUFFICES ASSUME Init PROVE RendererInv
  OBVIOUS
<1>1. RadarOK(radar)
  <2>1. /\ radar = [site |-> "site", sweeps |-> [e \in Elevations |-> None], derived |-> {},
                    derived_volume |-> None, current_vcp |-> None, last_complete |-> None,
                    revision |-> 0]
    BY DEF Init, R!new_radar, R!NoSweeps
  <2>2. radar \in RadarShape
    BY <2>1 DEF RadarShape
  <2>3. GridsOK(radar)
    BY <2>1 DEF GridsOK, DerivedOK, OnePerProduct
  <2> QED BY <2>1, <2>2, <2>3, RendererAssumption DEF RadarOK
<1>2. CachesOK
  <2>1. IsFiniteSet({}) /\ Cardinality({}) = 0
    BY FS_EmptySet
  <2> QED BY <2>1, RendererAssumption DEF Init, CachesOK, WithinCap
<1> QED BY <1>1, <1>2 DEF Init, RendererInv, UploadedOK, FrameOK

(* New data: the snapshot on the GPU falls behind.                         *)
LEMMA UpdateKeeps ==
    ASSUME RendererInv, NEW u, Update(u), R!apply(radar, u) \in RadarShape,
           GridsOK(R!apply(radar, u)), R!apply(radar, u).revision = radar.revision + 1
    PROVE  RendererInv'
<1>1. radar' \in RadarShape /\ GridsOK(radar') /\ radar'.revision = radar.revision + 1
  BY DEF Update
<1>2. radar.revision \in Nat /\ radar.revision < MaxRevision
  BY DEF RendererInv, RadarOK, RadarShape, Update
<1>3. RadarOK(radar)'
  <2>1. GridsOK(radar)'
    BY <1>1 DEF GridsOK
  <2>2. (radar \in RadarShape)'
    BY <1>1
  <2>3. radar'.revision <= MaxRevision
    BY <1>1, <1>2, RendererAssumption
  <2> QED BY <2>1, <2>2, <2>3 DEF RadarOK
<1>4. /\ UNCHANGED <<grids, luts, uploaded, uploads, notices>> /\ UNCHANGED frame
  BY DEF Update, gpuvars
<1>5. CachesOK' /\ FrameOK'
  BY <1>4 DEF RendererInv, CachesOK, FrameOK, WithinCap
<1>6. UploadedOK'
  <2>1. CASE uploaded = None
    BY <1>4, <2>1 DEF RendererInv, UploadedOK
  <2>2. CASE uploaded # None
    <3>1. GridsOK(uploaded)' /\ Textured(uploaded)'
      BY <1>4, <2>2 DEF RendererInv, UploadedOK, GridsOK, Textured
    <3>2. /\ uploaded' = uploaded /\ uploaded.revision \in Nat
          /\ uploaded.revision <= radar'.revision /\ uploaded.revision # radar'.revision
      BY <1>1, <1>2, <1>4, <2>2 DEF RendererInv, UploadedOK
    <3> QED BY <2>2, <3>1, <3>2 DEF UploadedOK
  <2> QED BY <2>1, <2>2
<1> QED BY <1>3, <1>5, <1>6 DEF RendererInv

(* redraw up to the surface: the GPU holds the current snapshot.           *)
LEMMA PrepareKeeps ==
    ASSUME RendererInv, Prepare
    PROVE  /\ RadarOK(radar)' /\ CachesOK' /\ UploadedOK'
           /\ Textured(R!snapshot(radar))'
<1>1. PICK s : s = R!snapshot(radar)
  OBVIOUS
<1>2. GridsOK(s) /\ s.revision = radar.revision /\ radar.revision \in Nat
  BY <1>1, SnapshotOK DEF RendererInv, RadarOK, RadarShape
<1>3. radar' = radar
  BY DEF Prepare
<1>4. RadarOK(radar)'
  BY <1>3 DEF RendererInv, RadarOK, GridsOK
<1>5. Textured(s)' /\ CachesOK' /\ uploaded' = s
  <2>1. CASE uploaded = None \/ uploaded.revision # radar.revision
    <3>1. sync(s)
      BY <1>1, <2>1 DEF Prepare
    <3> QED BY <1>2, <3>1, SyncHolds DEF RendererInv
  <2>2. CASE ~(uploaded = None \/ uploaded.revision # radar.revision)
    <3>1. UNCHANGED <<grids, luts, uploaded, uploads, notices>>
      BY <2>2 DEF Prepare, gpuvars
    <3>2. uploaded = s /\ Textured(s)
      BY <1>1, <2>2 DEF RendererInv, UploadedOK
    <3>3. Textured(s)'
      BY <3>1, <3>2 DEF Textured
    <3>4. CachesOK'
      BY <3>1 DEF RendererInv, CachesOK, WithinCap
    <3> QED BY <3>1, <3>2, <3>3, <3>4
  <2> QED BY <2>1, <2>2
<1>6. R!snapshot(radar)' = s
  BY <1>1, <1>3 DEF R!snapshot
<1>7. Textured(R!snapshot(radar))' /\ Textured(uploaded)' /\ GridsOK(uploaded)'
  BY <1>2, <1>5, <1>6 DEF Textured, GridsOK
<1>8. UploadedOK'
  <2>1. uploaded'.revision \in Nat /\ uploaded'.revision <= radar'.revision
    BY <1>2, <1>3, <1>5
  <2> QED BY <1>5, <1>6, <1>7, <2>1 DEF UploadedOK
<1> QED BY <1>4, <1>5, <1>7, <1>8

(* resolve_selection answers with a grid of the current state, or None.    *)
LEMMA SelectedIsHeld ==
    ASSUME NEW e, NEW g, g = resolve_selection(e), g # None
    PROVE  g \in snapshot_entries(radar)
<1>1. PICK held : held = IF view.product \in Derived THEN radar.derived
                        ELSE IF e \in Present THEN radar.sweeps[e].grids ELSE {}
  OBVIOUS
<1>2. PICK found : found = {h \in held : h.product = view.product}
  OBVIOUS
<1>3. g = IF found = {} THEN None ELSE CHOOSE h \in found : TRUE
  BY <1>1, <1>2 DEF resolve_selection
<1>4. g \in found
  BY <1>3
<1>5. g \in held
  BY <1>2, <1>4
<1>6. g \in radar.derived \/ (e \in Present /\ g \in radar.sweeps[e].grids)
  BY <1>1, <1>5
<1> QED BY <1>6, EntriesAre DEF Present

(* A frame is presented.                                                   *)
LEMMA RedrawKeeps ==
    ASSUME RendererInv, Redraw
    PROVE  RendererInv'
<1>1. RadarOK(radar)' /\ CachesOK' /\ UploadedOK' /\ Textured(R!snapshot(radar))'
  BY PrepareKeeps DEF Redraw
<1>2. PICK g : g = resolve_selection(default_elevation)
  OBVIOUS
<1>3. PICK t : t = draw(g)
  OBVIOUS
<1>4. frame' = [revision |-> radar.revision, selected |-> g, texture |-> t]
  BY <1>2, <1>3 DEF Redraw
<1>5. ASSUME t # None, ~g.too_large PROVE t = g.arc.content
  <2>1. g # None /\ t = grids'[grid_key(g)].texture
    BY <1>3, <1>5 DEF draw
  <2>2. g \in snapshot_entries(radar)
    BY <1>2, <2>1, SelectedIsHeld
  <2>3. radar' = radar
    BY DEF Redraw, Prepare
  <2>4. g \in snapshot_entries(R!snapshot(radar'))
    BY <2>2, <2>3 DEF R!snapshot, snapshot_entries
  <2> QED BY <1>1, <1>5, <2>1, <2>4 DEF Textured
<1>6. FrameOK'
  <2>1. frame'.texture = t /\ frame'.selected = g
    BY <1>4
  <2> QED BY <1>5, <2>1 DEF FrameOK
<1> QED BY <1>1, <1>6 DEF RendererInv

LEMMA RendererInvNext == RendererInv /\ [Next]_vars => RendererInv'
<1> SUFFICES ASSUME RendererInv, [Next]_vars PROVE RendererInv'
  OBVIOUS
<1>1. ASSUME UNCHANGED <<radar, gpuvars, frame>> PROVE RendererInv'
  <2>1. /\ radar' = radar /\ frame' = frame
        /\ UNCHANGED <<grids, luts, uploaded, uploads, notices>>
    BY <1>1 DEF gpuvars
  <2>2. RadarOK(radar)'
    BY <2>1 DEF RendererInv, RadarOK, GridsOK
  <2>3. CachesOK' /\ FrameOK'
    BY <2>1 DEF RendererInv, CachesOK, FrameOK, WithinCap
  <2>4. UploadedOK'
    BY <2>1 DEF RendererInv, UploadedOK, GridsOK, Textured, R!snapshot
  <2> QED BY <2>2, <2>3, <2>4 DEF RendererInv
<1>2. CASE UpdateSweep
  <2>1. PICK e \in Elevations, contents \in BaseGrids, vcp \in Vcps :
            Update([type |-> "SweepGridded", elevation_number |-> e, volume |-> 1,
                    vcp_number |-> vcp, grids |-> Fresh(contents, e)])
    BY <1>2 DEF UpdateSweep
  <2>2. PICK gs : gs = Fresh(contents, e)
    OBVIOUS
  <2>3. PICK u : u = [type |-> "SweepGridded", elevation_number |-> e, volume |-> 1,
                      vcp_number |-> vcp, grids |-> gs]
    OBVIOUS
  <2>4. PICK r \in RadarShape : r = radar
    BY DEF RendererInv, RadarOK
  <2>5. BaseOK(gs, e) /\ GridsOK(r)
    BY <2>2, <2>4, FreshGrids DEF RendererInv, RadarOK
  <2>6. /\ R!apply(r, u) \in RadarShape /\ GridsOK(R!apply(r, u))
        /\ R!apply(r, u).revision = r.revision + 1
    BY <2>3, <2>5, ApplySweep
  <2> QED BY <2>1, <2>2, <2>3, <2>4, <2>6, UpdateKeeps
<1>3. CASE UpdateDerived
  <2>1. PICK contents \in DerivedGrids :
            Update([type |-> "DerivedComputed", volume |-> 1, vcp_number |-> radar.current_vcp,
                    grids |-> Fresh(contents, 0)])
    BY <1>3 DEF UpdateDerived
  <2>2. PICK gs : gs = Fresh(contents, 0)
    OBVIOUS
  <2>3. PICK vcp : vcp = radar.current_vcp
    OBVIOUS
  <2>4. PICK u : u = [type |-> "DerivedComputed", volume |-> 1, vcp_number |-> vcp, grids |-> gs]
    OBVIOUS
  <2>5. PICK r \in RadarShape : r = radar
    BY DEF RendererInv, RadarOK
  <2>6. DerivedOK(gs) /\ GridsOK(r)
    BY <2>2, <2>5, FreshGrids DEF RendererInv, RadarOK
  <2>7. /\ R!apply(r, u) \in RadarShape /\ GridsOK(R!apply(r, u))
        /\ R!apply(r, u).revision = r.revision + 1
    BY <2>4, <2>6, ApplyDerived
  <2> QED BY <2>1, <2>2, <2>3, <2>4, <2>5, <2>7, UpdateKeeps
<1>4. CASE \E p \in Products : SelectProduct(p)
  BY <1>1, <1>4 DEF SelectProduct, Input
<1>5. CASE StepElevation(1) \/ StepElevation(-1)
  BY <1>1, <1>5 DEF StepElevation, Input
<1>6. CASE OtherInput \/ Quit
  BY <1>1, <1>6 DEF OtherInput, Input, Quit
<1>7. CASE Redraw
  BY <1>7, RedrawKeeps
<1>8. CASE RedrawSurfaceLost \/ RedrawSkipped
  <2>1. Prepare /\ frame' = frame
    BY <1>8 DEF RedrawSurfaceLost, RedrawSkipped
  <2>2. RadarOK(radar)' /\ CachesOK' /\ UploadedOK'
    BY <2>1, PrepareKeeps
  <2>3. FrameOK'
    BY <2>1 DEF RendererInv, FrameOK
  <2> QED BY <2>2, <2>3 DEF RendererInv
<1>9. CASE about_to_wait \/ SecondPasses
  BY <1>1, <1>9 DEF about_to_wait, SecondPasses
<1>10. CASE UNCHANGED vars
  BY <1>1, <1>10 DEF vars
<1> QED BY <1>2, <1>3, <1>4, <1>5, <1>6, <1>7, <1>8, <1>9, <1>10 DEF Next

-----------------------------------------------------------------------------
(* The selection and the counters *)

ViewStates == [product : Products, elevation_number : Elevations \cup {0}]

(* A surface that is lost in the start-up window is reconfigured           *)
(* MaxStartupReconfigures times; the next loss ends the program.           *)
ScreenOK ==
    /\ view \in ViewStates
    /\ last_drawn_revision \in 0..MaxRevision \cup {None}
    /\ reconfigure_count \in 0..(MaxStartupReconfigures + 1)
    /\ (startup /\ ~exited) => reconfigure_count <= MaxStartupReconfigures
    /\ aged \in BOOLEAN /\ redraw_requested \in BOOLEAN
    /\ startup \in BOOLEAN /\ exited \in BOOLEAN

(* There is a lowest tilt among those present.                             *)
LEMMA LowestExists ==
    ASSUME Present # {}
    PROVE  \E e \in Present : \A d \in Present : ~AngleLess(d, e)
<1>1. PICK P : P = Present
  OBVIOUS
<1>2. P # {} /\ P \subseteq 1..Cuts /\ P \subseteq Nat /\ \A e \in P : Angle[e] \in Nat
  BY <1>1, RendererAssumption DEF Present, Elevations
<1>3. PICK a \in {Angle[e] : e \in P} : \A b \in {Angle[e] : e \in P} : a <= b
  <2>1. {Angle[e] : e \in P} \subseteq Nat /\ {Angle[e] : e \in P} # {}
    BY <1>2
  <2> QED BY <2>1, LeastExists
<1>4. PICK T : T = {e \in P : Angle[e] = a}
  OBVIOUS
<1>5. PICK e \in T : \A d \in T : e <= d
  <2>1. T \subseteq Nat /\ T # {}
    BY <1>2, <1>3, <1>4
  <2> QED BY <2>1, LeastExists
<1>6. ASSUME NEW d \in P PROVE ~AngleLess(d, e)
  <2>1. e \in P /\ Angle[e] = a /\ a <= Angle[d] /\ a \in Nat
    BY <1>2, <1>3, <1>4, <1>5
  <2>2. Angle[d] = a => e <= d
    BY <1>4, <1>5
  <2> QED BY <1>2, <2>1, <2>2 DEF AngleLess
<1> QED BY <1>1, <1>4, <1>5, <1>6

(* The elevation a redraw resolves to, and the one a key selects.          *)
LEMMA ElevationSelected ==
    ASSUME view \in ViewStates
    PROVE  /\ default_elevation \in Elevations \cup {0}
           /\ view.elevation_number # 0 => default_elevation = view.elevation_number
           /\ \A dir \in {1, -1} : step_elevation(dir) \in Present \cup {view.elevation_number}
           /\ \A dir \in {1, -1} : step_elevation(dir) \in Elevations \cup {0}
<1>1. view.elevation_number \in Elevations \cup {0} /\ Present \subseteq Elevations
  BY DEF ViewStates, Present
<1>2. default_elevation \in Present \cup {view.elevation_number}
  BY LowestExists DEF default_elevation
<1>3. ASSUME NEW dir \in {1, -1}
      PROVE  step_elevation(dir) \in Present \cup {view.elevation_number}
  <2>1. PICK next : next = IF view.elevation_number \in Present
                           THEN Position(view.elevation_number) + dir ELSE 0
    OBVIOUS
  <2>2. PICK found : found = {e \in Present : Position(e) = next}
    OBVIOUS
  <2>3. step_elevation(dir) = IF found = {} THEN view.elevation_number
                              ELSE CHOOSE e \in found : TRUE
    BY <2>1, <2>2 DEF step_elevation
  <2> QED BY <2>2, <2>3
<1> QED BY <1>1, <1>2, <1>3 DEF default_elevation

(* Only a key moves a selection that is set, and to a tilt that is there.  *)
SelectionStep ==
    (view.elevation_number # view'.elevation_number /\ view.elevation_number # 0) =>
        /\ view'.elevation_number \in Present
        /\ view'.product = view.product
        /\ UNCHANGED <<radar, frame, gpuvars, last_drawn_revision>>

LEMMA ScreenNext ==
    ASSUME RendererInv, ScreenOK, [Next]_vars
    PROVE  ScreenOK' /\ SelectionStep
<1>1. CASE UpdateSweep \/ UpdateDerived
  <2>1. UNCHANGED <<view, last_drawn_revision, aged, redraw_requested, reconfigure_count,
                    startup, exited>>
    BY <1>1 DEF UpdateSweep, UpdateDerived, Update
  <2> QED BY <2>1 DEF ScreenOK, SelectionStep
<1>2. CASE \E p \in Products : SelectProduct(p)
  <2>1. PICK p \in Products : SelectProduct(p)
    BY <1>2
  <2>2. view' \in ViewStates /\ view'.elevation_number = view.elevation_number
    BY <2>1 DEF SelectProduct, Input, ScreenOK, ViewStates
  <2> QED BY <2>1, <2>2 DEF SelectProduct, Input, ScreenOK, SelectionStep
<1>3. CASE StepElevation(1) \/ StepElevation(-1)
  <2>1. PICK dir \in {1, -1} : StepElevation(dir)
    BY <1>3
  <2>2. PICK e : e = step_elevation(dir)
    OBVIOUS
  <2>3. view' = [view EXCEPT !.elevation_number = e]
    BY <2>1, <2>2 DEF StepElevation, Input
  <2>4. /\ e \in Elevations \cup {0} /\ e \in Present \cup {view.elevation_number}
    BY <2>2, ElevationSelected DEF ScreenOK
  <2>5. /\ view' \in ViewStates /\ view'.elevation_number = e /\ view'.product = view.product
    BY <2>3, <2>4 DEF ScreenOK, ViewStates
  <2> QED BY <2>1, <2>4, <2>5 DEF StepElevation, Input, ScreenOK, SelectionStep
<1>4. CASE OtherInput \/ Quit
  <2>1. UNCHANGED <<view, last_drawn_revision, aged, reconfigure_count, startup>>
    BY <1>4 DEF OtherInput, Input, Quit
  <2>2. redraw_requested' \in BOOLEAN /\ exited' \in BOOLEAN /\ (~exited' => ~exited)
    <3>1. CASE OtherInput
      BY <3>1 DEF OtherInput, Input, ScreenOK
    <3>2. CASE Quit
      BY <3>2 DEF Quit, ScreenOK
    <3> QED BY <1>4, <3>1, <3>2
  <2> QED BY <2>1, <2>2 DEF ScreenOK, SelectionStep
<1>5. CASE Redraw \/ RedrawSurfaceLost \/ RedrawSkipped
  <2>1. Prepare
    BY <1>5 DEF Redraw, RedrawSurfaceLost, RedrawSkipped
  <2>2. PICK e : e = default_elevation
    OBVIOUS
  <2>3. view' = [view EXCEPT !.elevation_number = e]
    BY <2>1, <2>2 DEF Prepare
  <2>4. e \in Elevations \cup {0} /\ (view.elevation_number # 0 => e = view.elevation_number)
    BY <2>2, ElevationSelected DEF ScreenOK
  <2>5. view' \in ViewStates /\ view'.elevation_number = e
    BY <2>3, <2>4 DEF ScreenOK, ViewStates
  <2>6. SelectionStep
    BY <2>4, <2>5 DEF SelectionStep
  <2>7. radar.revision \in 0..MaxRevision
    BY RendererAssumption DEF RendererInv, RadarOK, RadarShape
  <2>8. /\ last_drawn_revision' \in 0..MaxRevision \cup {None}
        /\ redraw_requested' \in BOOLEAN /\ aged' \in BOOLEAN /\ ~exited
    BY <2>1, <2>7 DEF Prepare, ScreenOK
  <2>9. CASE Redraw \/ RedrawSkipped
    BY <2>5, <2>6, <2>8, <2>9 DEF Redraw, RedrawSkipped, ScreenOK
  <2>10. CASE RedrawSurfaceLost
    <3>1. /\ startup' = startup /\ startup \in BOOLEAN
          /\ reconfigure_count' = IF startup THEN reconfigure_count + 1 ELSE reconfigure_count
      BY <2>10 DEF RedrawSurfaceLost, ScreenOK
    <3>2. PICK v \in BOOLEAN :
              exited' = (v \/ (startup /\ reconfigure_count' > MaxStartupReconfigures))
      BY <2>10 DEF RedrawSurfaceLost
    <3>3. reconfigure_count' \in 0..(MaxStartupReconfigures + 1)
      BY <2>8, <3>1, RendererAssumption DEF ScreenOK
    <3>4. (startup' /\ ~exited') => reconfigure_count' <= MaxStartupReconfigures
      <4>1. ASSUME startup', ~exited' PROVE reconfigure_count' <= MaxStartupReconfigures
        <5>1. startup
          BY <3>1, <4>1
        <5>2. ~(startup /\ reconfigure_count' > MaxStartupReconfigures)
          BY <3>2, <4>1, Zenon
        <5>3. ~(reconfigure_count' > MaxStartupReconfigures)
          BY <5>1, <5>2
        <5> QED BY <3>3, <5>3, RendererAssumption
      <4> QED BY <4>1
    <3>5. exited' \in BOOLEAN
      BY <3>2
    <3> QED BY <2>5, <2>6, <2>8, <3>1, <3>3, <3>4, <3>5 DEF ScreenOK
  <2> QED BY <1>5, <2>9, <2>10
<1>6. CASE about_to_wait
  BY <1>6 DEF about_to_wait, ScreenOK, SelectionStep
<1>7. CASE SecondPasses
  <2>1. aged' \in BOOLEAN /\ UNCHANGED <<view, last_drawn_revision, redraw_requested,
                                         reconfigure_count, exited>>
    BY <1>7 DEF SecondPasses
  <2>2. CASE startup' = startup
    BY <2>1, <2>2 DEF ScreenOK, SelectionStep
  <2>3. CASE startup' = FALSE
    BY <2>1, <2>3 DEF ScreenOK, SelectionStep
  <2> QED BY <1>7, <2>2, <2>3 DEF SecondPasses
<1>8. CASE UNCHANGED vars
  BY <1>8 DEF vars, gpuvars, ScreenOK, SelectionStep
<1> QED BY <1>1, <1>2, <1>3, <1>4, <1>5, <1>6, <1>7, <1>8 DEF Next

LEMMA ScreenInit == Init => ScreenOK
<1> SUFFICES ASSUME Init PROVE ScreenOK
  OBVIOUS
<1>1. view \in ViewStates
  BY DEF Init, ViewStates
<1>2. /\ reconfigure_count \in 0..(MaxStartupReconfigures + 1)
      /\ reconfigure_count <= MaxStartupReconfigures
  BY RendererAssumption DEF Init
<1> QED BY <1>1, <1>2 DEF Init, ScreenOK

-----------------------------------------------------------------------------
(* The theorems *)

LEMMA RendererInvariant == Spec => [](RendererInv /\ ScreenOK)
<1>1. Init => RendererInv /\ ScreenOK
  BY RendererInvInit, ScreenInit
<1>2. RendererInv /\ ScreenOK /\ [Next]_vars => (RendererInv /\ ScreenOK)'
  BY RendererInvNext, ScreenNext
<1> QED BY <1>1, <1>2, PTL DEF Spec

(* Every variable of the render thread keeps its shape, and the LUT cache  *)
(* never grows beyond LUT_CACHE_CAP.                                       *)
THEOREM RendererTypeCorrect == Spec => []TypeOK
<1>1. RendererInv /\ ScreenOK => TypeOK
  <2> SUFFICES ASSUME RendererInv, ScreenOK PROVE TypeOK
    OBVIOUS
  <2>1. 0..Cuts = Elevations \cup {0}
    BY RendererAssumption DEF Elevations
  <2>2. \A k \in DOMAIN grids : k \in Products \X (Elevations \cup {0})
    BY <2>1 DEF RendererInv, CachesOK
  <2>3. Cardinality(luts) <= LutCacheCap
    BY DEF RendererInv, CachesOK, WithinCap
  <2> QED BY <2>2, <2>3 DEF ScreenOK, ViewStates, TypeOK
<1> QED BY <1>1, RendererInvariant, PTL

(* After every sync, through any sequence of sweeps, derived products and  *)
(* pattern changes, the textures are those of the uploaded snapshot: none  *)
(* of a tilt it dropped, and each grid the device takes with its content.  *)
THEOREM GpuHoldsWhatWasUploaded == Spec => []GpuHoldsUploaded
<1>1. RendererInv => GpuHoldsUploaded
  BY DEF RendererInv, UploadedOK, Textured, GpuHoldsUploaded
<1> QED BY <1>1, RendererInvariant, PTL

(* A frame's texture is that of the grid its chrome describes, unless the  *)
(* device refused that grid, and a LUT is missing only when the clearing   *)
(* of the cache was reported.                                              *)
THEOREM FramesAreCoherent == Spec => []FrameIsCoherent
<1>1. RendererInv => FrameIsCoherent
  BY DEF RendererInv, UploadedOK, FrameOK, Textured, FrameIsCoherent
<1> QED BY <1>1, RendererInvariant, PTL

(* Neither data nor a redraw moves a selection the operator has made.      *)
THEOREM SelectionStaysTheOperators == Spec => SelectionIsTheOperators
<1>1. RendererInv /\ ScreenOK /\ [Next]_vars => [SelectionStep]_vars
  BY ScreenNext
<1> QED BY <1>1, RendererInvariant, PTL DEF Spec, SelectionIsTheOperators, SelectionStep
=============================================================================
