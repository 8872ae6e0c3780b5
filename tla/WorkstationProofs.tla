-------------------------- MODULE WorkstationProofs --------------------------
(***************************************************************************)
(* What a session leaves in the configuration file, for any number of      *)
(* instances, any command lines, any file and any hand edits: a save       *)
(* touches only the lines of the settings it means to change, and the file *)
(* then gives back the view the window was closed with.                    *)
(***************************************************************************)
EXTENDS Workstation, FiniteSetTheorems, SequenceTheorems, TLAPS

-----------------------------------------------------------------------------
(* config/save.rs: what save makes of the lines it read *)

(* A sequence of anything is a text.                                       *)
LEMMA SequenceIsText ==
    ASSUME NEW S, NEW t \in Seq(S)
    PROVE  IsText(t)
<1>1. \A n \in 1..Len(t) : t[n] \in ToSet(t)
  BY DEF ToSet
<1>2. t \in [1..Len(t) -> ToSet(t)] /\ Len(t) \in Nat
  BY <1>1
<1> QED BY <1>2 DEF IsText

LEMMA TextShape ==
    ASSUME NEW t, IsText(t)
    PROVE  Len(t) \in Nat /\ DOMAIN t = 1..Len(t)
<1>1. PICK S : t \in Seq(S)
  BY DEF IsText
<1> QED BY <1>1

(* A line appended to a text.                                              *)
LEMMA TextAppend ==
    ASSUME NEW t, IsText(t), NEW line
    PROVE  /\ IsText(Append(t, line)) /\ Len(Append(t, line)) = Len(t) + 1
           /\ \A n \in 1..Len(t) : Append(t, line)[n] = t[n]
           /\ Append(t, line)[Len(t) + 1] = line
<1>1. PICK S : S = ToSet(t) \cup {line}
  OBVIOUS
<1>2. ToSet(t) \subseteq S /\ line \in S
  BY <1>1
<1>3. t \in Seq(S)
  BY <1>2 DEF IsText
<1>4. Append(t, line) \in Seq(S)
  BY <1>2, <1>3
<1>5. /\ Len(Append(t, line)) = Len(t) + 1
      /\ \A n \in 1..Len(t) : Append(t, line)[n] = t[n]
      /\ Append(t, line)[Len(t) + 1] = line
  BY <1>2, <1>3
<1> QED BY <1>4, <1>5, SequenceIsText

(* A key of the view is read from a line that was written for it.          *)
LEMMA KeyOfPair ==
    ASSUME NEW k \in ViewKeys, NEW v
    PROVE  line_key(Pair(k, v)) = k /\ Pair(k, v).value = v /\ k # None
BY WorkstationAssumption DEF line_key, Pair, is_valid_key

LEMMA ViewOrderIs ==
    /\ Len(ViewOrder) = 5
    /\ ViewKeys = {ViewOrder[1], ViewOrder[2], ViewOrder[3], ViewOrder[4], ViewOrder[5]}
<1>1. DOMAIN ViewOrder = 1..5
  BY DEF ViewOrder
<1>2. 1..5 = {1, 2, 3, 4, 5}
  OBVIOUS
<1> QED BY <1>1, <1>2 DEF ViewKeys, ToSet, ViewOrder

(* The second loop of save, key by key.                                    *)
LEMMA SaveUnrolled ==
    ASSUME NEW text, NEW ch
    PROVE  \E s0, s1, s2, s3, s4 :
              /\ s0 = rewritten(text, ch)
              /\ s1 = push_new(s0, text, ch, ViewOrder[1])
              /\ s2 = push_new(s1, text, ch, ViewOrder[2])
              /\ s3 = push_new(s2, text, ch, ViewOrder[3])
              /\ s4 = push_new(s3, text, ch, ViewOrder[4])
              /\ save(text, ch) = push_new(s4, text, ch, ViewOrder[5])
<1> DEFINE Pushed(f) == f = [n \in 0..Len(ViewOrder) |->
                                IF n = 0 THEN rewritten(text, ch)
                                ELSE push_new(f[n - 1], text, ch, ViewOrder[n])]
<1>1. 0..Len(ViewOrder) = {0, 1, 2, 3, 4, 5}
  BY ViewOrderIs
<1>2. \E f : Pushed(f)
  <2> DEFINE t0 == rewritten(text, ch)
             t1 == push_new(t0, text, ch, ViewOrder[1])
             t2 == push_new(t1, text, ch, ViewOrder[2])
             t3 == push_new(t2, text, ch, ViewOrder[3])
             t4 == push_new(t3, text, ch, ViewOrder[4])
             t5 == push_new(t4, text, ch, ViewOrder[5])
             g == [n \in {0, 1, 2, 3, 4, 5} |->
                      IF n = 0 THEN t0 ELSE IF n = 1 THEN t1 ELSE IF n = 2 THEN t2
                      ELSE IF n = 3 THEN t3 ELSE IF n = 4 THEN t4 ELSE t5]
  <2>1. g[0] = t0 /\ g[1] = t1 /\ g[2] = t2 /\ g[3] = t3 /\ g[4] = t4 /\ g[5] = t5
    <3> HIDE DEF t0, t1, t2, t3, t4, t5
    <3> QED OBVIOUS
  <2>2. ASSUME NEW n \in {0, 1, 2, 3, 4, 5}
        PROVE  g[n] = IF n = 0 THEN t0 ELSE push_new(g[n - 1], text, ch, ViewOrder[n])
    <3> HIDE DEF t0, g
    <3>1. CASE n = 0 BY <2>1, <3>1
    <3>2. CASE n = 1 BY <2>1, <3>2
    <3>3. CASE n = 2 BY <2>1, <3>3 DEF t2
    <3>4. CASE n = 3 BY <2>1, <3>4 DEF t3
    <3>5. CASE n = 4 BY <2>1, <3>5 DEF t4
    <3>6. CASE n = 5 BY <2>1, <3>6 DEF t5
    <3> QED BY <3>1, <3>2, <3>3, <3>4, <3>5, <3>6
  <2>3. g = [n \in {0, 1, 2, 3, 4, 5} |-> g[n]]
    OBVIOUS
  <2> HIDE DEF g, t0
  <2>4. g = [n \in {0, 1, 2, 3, 4, 5} |->
                IF n = 0 THEN t0 ELSE push_new(g[n - 1], text, ch, ViewOrder[n])]
    BY <2>2, <2>3
  <2> QED BY <1>1, <2>4 DEF t0
<1>3. PICK f : Pushed(f) /\ save(text, ch) = f[Len(ViewOrder)]
  <2>1. PICK f : f = CHOOSE h : Pushed(h)
    OBVIOUS
  <2>2. Pushed(f)
    <3> HIDE DEF Pushed
    <3> QED BY <1>2, <2>1
  <2>3. save(text, ch) = f[Len(ViewOrder)]
    BY <2>1 DEF save
  <2> QED BY <2>2, <2>3
<1>4. ASSUME NEW n \in {0, 1, 2, 3, 4, 5}
      PROVE  f[n] = IF n = 0 THEN rewritten(text, ch)
                    ELSE push_new(f[n - 1], text, ch, ViewOrder[n])
  BY <1>1, <1>3
<1> HIDE DEF Pushed
<1>5. /\ f[0] = rewritten(text, ch)
      /\ f[1] = push_new(f[0], text, ch, ViewOrder[1])
      /\ f[2] = push_new(f[1], text, ch, ViewOrder[2])
      /\ f[3] = push_new(f[2], text, ch, ViewOrder[3])
      /\ f[4] = push_new(f[3], text, ch, ViewOrder[4])
      /\ f[5] = push_new(f[4], text, ch, ViewOrder[5])
  BY <1>4
<1> QED BY <1>3, <1>5, ViewOrderIs

(* lines is the text with the first lines of the changed keys rewritten,   *)
(* followed by new lines for the keys that had none, those of K at least.  *)
Saved(lines, text, ch, K) ==
    /\ IsText(lines) /\ Len(text) <= Len(lines)
    /\ \A n \in 1..Len(text) : lines[n] = rewritten(text, ch)[n]
    /\ \A n \in (Len(text) + 1)..Len(lines) :
          \E k \in DOMAIN ch : LinesOf(text, k) = {} /\ lines[n] = Pair(k, ch[k])
    /\ \A k \in K \cap DOMAIN ch : LinesOf(text, k) = {} =>
          \E n \in (Len(text) + 1)..Len(lines) : lines[n] = Pair(k, ch[k])

LEMMA RewrittenIsSaved ==
    ASSUME NEW text, IsText(text), NEW ch
    PROVE  Saved(rewritten(text, ch), text, ch, {})
<1>1. PICK r : r = rewritten(text, ch)
  OBVIOUS
<1>2. PICK m \in Nat : m = Len(text) /\ DOMAIN text = 1..m
  BY TextShape
<1>3. PICK S : S = {r[n] : n \in 1..m}
  OBVIOUS
<1>4. DOMAIN r = 1..m /\ r = [n \in 1..m |-> r[n]]
  BY <1>1, <1>2 DEF rewritten
<1>5. r \in [1..m -> S]
  BY <1>3, <1>4
<1>6. r \in Seq(S) /\ Len(r) = m
  BY <1>5
<1>7. IsText(r)
  BY <1>6, SequenceIsText
<1> QED BY <1>1, <1>2, <1>6, <1>7 DEF Saved

LEMMA PushKeepsSaved ==
    ASSUME NEW text, IsText(text), NEW ch, NEW K, NEW lines, NEW k,
           Saved(lines, text, ch, K)
    PROVE  Saved(push_new(lines, text, ch, k), text, ch, K \cup {k})
<1>1. CASE k \in DOMAIN ch /\ LinesOf(text, k) = {}
  <2>1. PICK more : more = Append(lines, Pair(k, ch[k]))
    OBVIOUS
  <2>2. push_new(lines, text, ch, k) = more
    BY <1>1, <2>1 DEF push_new
  <2>3. PICK m \in Nat, l \in Nat : m = Len(text) /\ l = Len(lines) /\ m <= l
    BY TextShape DEF Saved
  <2>4. /\ IsText(more) /\ Len(more) = l + 1 /\ more[l + 1] = Pair(k, ch[k])
        /\ \A n \in 1..l : more[n] = lines[n]
    BY <2>1, <2>3, TextAppend DEF Saved
  <2>5. \A n \in 1..m : more[n] = rewritten(text, ch)[n]
    <3>1. \A n \in 1..m : n \in 1..l BY <2>3
    <3> QED BY <2>3, <2>4, <3>1 DEF Saved
  <2>6. ASSUME NEW n \in (m + 1)..(l + 1)
        PROVE  \E j \in DOMAIN ch : LinesOf(text, j) = {} /\ more[n] = Pair(j, ch[j])
    <3>1. n = l + 1 \/ (n \in (m + 1)..l /\ n \in 1..l)
      BY <2>3
    <3> QED BY <1>1, <2>3, <2>4, <3>1 DEF Saved
  <2>7. ASSUME NEW j \in (K \cup {k}) \cap DOMAIN ch, LinesOf(text, j) = {}
        PROVE  \E n \in (m + 1)..(l + 1) : more[n] = Pair(j, ch[j])
    <3>1. CASE j = k
      <4>1. l + 1 \in (m + 1)..(l + 1) BY <2>3
      <4> QED BY <2>4, <3>1, <4>1
    <3>2. CASE j # k
      <4>1. PICK n \in (m + 1)..l : lines[n] = Pair(j, ch[j])
        BY <2>3, <2>7, <3>2 DEF Saved
      <4>2. n \in 1..l /\ n \in (m + 1)..(l + 1)
        BY <2>3
      <4> QED BY <2>4, <4>1, <4>2
    <3> QED BY <3>1, <3>2
  <2>8. m <= l + 1
    BY <2>3
  <2>9. Len(text) = m /\ Len(more) = l + 1 /\ IsText(more)
    BY <2>3, <2>4
  <2>10. Saved(more, text, ch, K \cup {k})
    BY <2>5, <2>6, <2>7, <2>8, <2>9, Zenon DEF Saved
  <2> QED BY <2>2, <2>10
<1>2. CASE ~(k \in DOMAIN ch /\ LinesOf(text, k) = {})
  <2>1. push_new(lines, text, ch, k) = lines
    BY <1>2 DEF push_new
  <2> QED BY <1>2, <2>1 DEF Saved
<1> QED BY <1>1, <1>2

LEMMA SaveIsSaved ==
    ASSUME NEW text, IsText(text), NEW ch
    PROVE  Saved(save(text, ch), text, ch, ViewKeys)
<1>1. PICK s0, s1, s2, s3, s4 :
          /\ s0 = rewritten(text, ch)
          /\ s1 = push_new(s0, text, ch, ViewOrder[1])
          /\ s2 = push_new(s1, text, ch, ViewOrder[2])
          /\ s3 = push_new(s2, text, ch, ViewOrder[3])
          /\ s4 = push_new(s3, text, ch, ViewOrder[4])
          /\ save(text, ch) = push_new(s4, text, ch, ViewOrder[5])
  BY SaveUnrolled
<1>2. PICK k1, k2, k3, k4, k5 :
          /\ k1 = ViewOrder[1] /\ k2 = ViewOrder[2] /\ k3 = ViewOrder[3]
          /\ k4 = ViewOrder[4] /\ k5 = ViewOrder[5]
  OBVIOUS
<1>3. Saved(s0, text, ch, {})
  BY <1>1, RewrittenIsSaved
<1>4. Saved(s1, text, ch, {} \cup {k1})
  BY <1>1, <1>2, <1>3, PushKeepsSaved
<1>5. Saved(s2, text, ch, ({} \cup {k1}) \cup {k2})
  BY <1>1, <1>2, <1>4, PushKeepsSaved
<1>6. Saved(s3, text, ch, (({} \cup {k1}) \cup {k2}) \cup {k3})
  BY <1>1, <1>2, <1>5, PushKeepsSaved
<1>7. Saved(s4, text, ch, ((({} \cup {k1}) \cup {k2}) \cup {k3}) \cup {k4})
  BY <1>1, <1>2, <1>6, PushKeepsSaved
<1>8. Saved(save(text, ch), text, ch,
            (((({} \cup {k1}) \cup {k2}) \cup {k3}) \cup {k4}) \cup {k5})
  BY <1>1, <1>2, <1>7, PushKeepsSaved
<1>9. (((({} \cup {k1}) \cup {k2}) \cup {k3}) \cup {k4}) \cup {k5} = ViewKeys
  BY <1>2, ViewOrderIs
<1> QED BY <1>8, <1>9

(* A line keeps its key when it is rewritten, and is rewritten only if a   *)
(* change is for its key.                                                  *)
LEMMA RewrittenLine ==
    ASSUME NEW text, NEW ch, DOMAIN ch \subseteq ViewKeys, NEW n \in DOMAIN text
    PROVE  /\ line_key(rewritten(text, ch)[n]) = line_key(text[n])
           /\ line_key(text[n]) \notin DOMAIN ch => rewritten(text, ch)[n] = text[n]
           /\ (line_key(text[n]) \in DOMAIN ch /\ n = Min(LinesOf(text, line_key(text[n])))) =>
                 rewritten(text, ch)[n] = Pair(line_key(text[n]), ch[line_key(text[n])])
<1>1. PICK k : k = line_key(text[n])
  OBVIOUS
<1>2. rewritten(text, ch)[n] = IF k \in DOMAIN ch /\ n = Min(LinesOf(text, k))
                                    THEN Pair(k, ch[k]) ELSE text[n]
  BY <1>1 DEF rewritten
<1>3. CASE k \in DOMAIN ch /\ n = Min(LinesOf(text, k))
  <2>1. rewritten(text, ch)[n] = Pair(k, ch[k])
    BY <1>2, <1>3
  <2>2. line_key(Pair(k, ch[k])) = k
    BY <1>3, KeyOfPair
  <2> QED BY <1>1, <1>3, <2>1, <2>2
<1>4. CASE ~(k \in DOMAIN ch /\ n = Min(LinesOf(text, k)))
  <2>1. rewritten(text, ch)[n] = text[n]
    BY <1>2, <1>4
  <2> QED BY <1>1, <1>4, <2>1
<1> QED BY <1>3, <1>4

(* Every line that defines no changed setting stays where it was, and      *)
(* nothing but lines of changed settings joins it.                         *)
LEMMA SaveKeeps ==
    ASSUME NEW text, IsText(text), NEW ch, DOMAIN ch \subseteq ViewKeys
    PROVE  /\ IsText(save(text, ch))
           /\ KeepsOtherLines(save(text, ch), text, DOMAIN ch)
<1>1. PICK t : t = save(text, ch)
  OBVIOUS
<1>2. Saved(t, text, ch, ViewKeys)
  BY <1>1, SaveIsSaved
<1>3. PICK m \in Nat, l \in Nat :
          /\ m = Len(text) /\ l = Len(t) /\ m <= l
          /\ DOMAIN text = 1..m /\ DOMAIN t = 1..l
  BY <1>2, TextShape DEF Saved
<1>4. ASSUME NEW n \in 1..l
      PROVE  IF n \in 1..m /\ line_key(text[n]) \notin DOMAIN ch THEN t[n] = text[n]
             ELSE line_key(t[n]) \in DOMAIN ch
  <2>1. CASE n \in 1..m
    <3>1. t[n] = rewritten(text, ch)[n]
      BY <1>2, <1>3, <2>1 DEF Saved
    <3>2. /\ line_key(t[n]) = line_key(text[n])
          /\ line_key(text[n]) \notin DOMAIN ch => t[n] = text[n]
      BY <1>3, <2>1, <3>1, RewrittenLine
    <3> QED BY <2>1, <3>2
  <2>2. CASE n \notin 1..m
    <3>1. n \in (m + 1)..l
      BY <2>2
    <3>2. PICK k \in DOMAIN ch : t[n] = Pair(k, ch[k])
      BY <1>2, <1>3, <3>1 DEF Saved
    <3>3. line_key(t[n]) = k
      BY <3>2, KeyOfPair
    <3> QED BY <2>2, <3>3
  <2> QED BY <2>1, <2>2
<1>5. DOMAIN text \subseteq DOMAIN t
  BY <1>3
<1>6. IsText(t)
  BY <1>2 DEF Saved
<1> QED BY <1>1, <1>3, <1>4, <1>5, <1>6 DEF KeepsOtherLines

-----------------------------------------------------------------------------
(* config/mod.rs: what load makes of the saved lines *)

(* The setting a text gives a key of the view.                             *)
Setting(text, k) ==
    IF LinesOf(text, k) = {} THEN None
    ELSE apply_key(k, text[Max(LinesOf(text, k))].value)

LEMMA ViewKeyDefault ==
    ASSUME NEW k \in ViewKeys
    PROVE  k \in DOMAIN default /\ default[k] = None
<1>1. k # POLL_INTERVAL_KEY
  BY ViewOrderIs DEF ViewOrder, POLL_INTERVAL_KEY
<1> QED BY <1>1 DEF default

(* A setting of the view is the value that is given, or none.              *)
LEMMA AppliedOrRefused ==
    ASSUME NEW k \in ViewKeys, NEW v
    PROVE  apply_key(k, v) = v \/ apply_key(k, v) = None
<1>1. k # SITE_KEY /\ k # POLL_INTERVAL_KEY
  BY ViewOrderIs DEF ViewOrder, POLL_INTERVAL_KEY, SITE_KEY
<1>2. CASE k = "window.width"
  BY <1>1, <1>2 DEF apply_key, parse_dimension
<1>3. CASE k = "window.height"
  BY <1>1, <1>3 DEF apply_key, parse_dimension
<1>4. CASE k = "view.product"
  BY <1>1, <1>4 DEF apply_key
<1>5. CASE k # "window.width" /\ k # "window.height" /\ k # "view.product"
  BY <1>1, <1>5 DEF apply_key, parse_bool
<1> QED BY <1>2, <1>3, <1>4, <1>5

LEMMA LoadPresent ==
    ASSUME NEW file, file.state = "present", NEW k \in ViewKeys
    PROVE  load(file).config[k] = Setting(file.text, k)
<1>1. PICK text : text = file.text
  OBVIOUS
<1> DEFINE keys == {line_key(text[i]) : i \in DOMAIN text} \ {None}
           pairs == parse(text).pairs
<1>2. k # None /\ k \in DOMAIN default /\ default[k] = None
  BY KeyOfPair, ViewKeyDefault
<1>3. pairs = [j \in keys |-> text[Max(LinesOf(text, j))].value]
  BY DEF parse
<1>4. k \in keys <=> LinesOf(text, k) # {}
  BY <1>2 DEF LinesOf
<1> HIDE DEF keys, pairs
<1>5. load(file).config = [j \in DOMAIN default |->
            IF j \in DOMAIN pairs \cap DOMAIN default THEN apply_key(j, pairs[j]) ELSE default[j]]
  BY <1>1 DEF load, pairs
<1>6. load(file).config[k] = IF k \in DOMAIN pairs THEN apply_key(k, pairs[k]) ELSE None
  BY <1>2, <1>5
<1>7. DOMAIN pairs = keys /\ (k \in keys => pairs[k] = text[Max(LinesOf(text, k))].value)
  BY <1>3
<1> QED BY <1>1, <1>4, <1>6, <1>7 DEF Setting

(* An absent file gives what an empty one would.                           *)
LEMMA LoadReadable ==
    ASSUME NEW file, IsFile(file), file.state # "unreadable", NEW k \in ViewKeys
    PROVE  load(file).config[k] = Setting(file.text, k)
<1>1. CASE file = Absent
  <2>1. file.state = "absent" /\ file.text = <<>>
    BY <1>1 DEF Absent
  <2>2. load(file).config = default
    BY <2>1 DEF load
  <2>3. LinesOf(file.text, k) = {}
    BY <2>1 DEF LinesOf
  <2> QED BY <2>2, <2>3, ViewKeyDefault DEF Setting
<1>2. CASE file.state = "present"
  BY <1>2, LoadPresent
<1> QED BY <1>1, <1>2 DEF IsFile

(* A key that has a line has a last one.                                   *)
LEMMA LastLine ==
    ASSUME NEW m \in Nat, NEW L, L \subseteq 1..m, L # {}
    PROVE  Max(L) \in L
<1> DEFINE T == {m - x : x \in L}
<1>1. T \subseteq Nat /\ T # {}
  <2>1. \A x \in L : m - x \in Nat
    OBVIOUS
  <2>2. PICK x \in L : TRUE
    OBVIOUS
  <2>3. m - x \in T
    BY <2>2
  <2>4. T \subseteq Nat
    BY <2>1
  <2> QED BY <2>3, <2>4
<1>2. PICK d \in T : \A y \in T : ~(<<y, d>> \in OpToRel(<, Nat))
  <2> HIDE DEF T, OpToRel
  <2> QED BY <1>1, WFMin, NatLessThanWellFounded
<1>3. PICK x \in L : d = m - x
  OBVIOUS
<1>4. ASSUME NEW y \in L PROVE x >= y
  <2>1. PICK e \in T : e = m - y
    OBVIOUS
  <2>2. <<e, d>> \in Nat \X Nat
    BY <1>1
  <2>3. ~(e < d)
    BY <1>2, <2>2 DEF OpToRel
  <2> QED BY <1>3, <2>1, <2>3
<1>5. \E z \in L : \A y \in L : z >= y
  BY <1>4
<1> QED BY <1>5 DEF Max

(* A setting that did not change is read as before.                        *)
LEMMA OtherSettingKept ==
    ASSUME NEW text, IsText(text), NEW ch, DOMAIN ch \subseteq ViewKeys, NEW k, k \notin DOMAIN ch
    PROVE  Setting(save(text, ch), k) = Setting(text, k)
<1>1. PICK t : t = save(text, ch)
  OBVIOUS
<1>2. KeepsOtherLines(t, text, DOMAIN ch)
  BY <1>1, SaveKeeps
<1>3. LinesOf(t, k) \subseteq LinesOf(text, k) /\ \A n \in LinesOf(t, k) : t[n] = text[n]
  BY <1>2 DEF KeepsOtherLines, LinesOf
<1>4. LinesOf(text, k) \subseteq LinesOf(t, k)
  BY <1>2 DEF KeepsOtherLines, LinesOf
<1>5. PICK L : L = LinesOf(text, k) /\ L = LinesOf(t, k)
  BY <1>3, <1>4
<1>6. CASE L = {}
  BY <1>1, <1>5, <1>6 DEF Setting
<1>7. CASE L # {}
  <2>1. Max(L) \in L
    <3>1. Len(text) \in Nat /\ L \subseteq 1..Len(text)
      BY <1>5, TextShape DEF LinesOf
    <3> QED BY <1>7, <3>1, LastLine
  <2> QED BY <1>1, <1>3, <1>5, <1>7, <2>1 DEF Setting
<1> QED BY <1>6, <1>7

(* A changed setting is read as it was written, unless it has two lines.   *)
LEMMA ChangedSettingRead ==
    ASSUME NEW text, IsText(text), NEW ch, DOMAIN ch \subseteq ViewKeys, NEW k \in DOMAIN ch,
           ~(Cardinality(LinesOf(save(text, ch), k)) > 1)
    PROVE  Setting(save(text, ch), k) = apply_key(k, ch[k])
<1>1. PICK t : t = save(text, ch)
  OBVIOUS
<1>2. Saved(t, text, ch, ViewKeys)
  BY <1>1, SaveIsSaved
<1>3. PICK m \in Nat, l \in Nat :
          /\ m = Len(text) /\ l = Len(t) /\ m <= l
          /\ DOMAIN text = 1..m /\ DOMAIN t = 1..l
  BY <1>2, TextShape DEF Saved
<1>4. PICK n \in 1..l : line_key(t[n]) = k /\ (LinesOf(text, k) = {n} => t[n] = Pair(k, ch[k]))
                       /\ (LinesOf(text, k) = {} => t[n] = Pair(k, ch[k]))
                       /\ (LinesOf(text, k) # {} => n \in LinesOf(text, k))
  <2>1. CASE LinesOf(text, k) = {}
    <3>1. PICK n \in (m + 1)..l : t[n] = Pair(k, ch[k])
      BY <1>2, <1>3, <2>1 DEF Saved
    <3>2. n \in 1..l /\ line_key(t[n]) = k
      BY <3>1, KeyOfPair
    <3> QED BY <2>1, <3>1, <3>2
  <2>2. CASE LinesOf(text, k) # {}
    <3>1. PICK n \in LinesOf(text, k) : TRUE
      BY <2>2
    <3>2. n \in 1..m /\ line_key(text[n]) = k
      BY <1>3, <3>1 DEF LinesOf
    <3>3. t[n] = rewritten(text, ch)[n]
      BY <1>2, <1>3, <3>2 DEF Saved
    <3>4. line_key(t[n]) = k
      BY <1>3, <3>2, <3>3, RewrittenLine
    <3>5. ASSUME LinesOf(text, k) = {n} PROVE t[n] = Pair(k, ch[k])
      <4>1. Min({n}) = n
        BY <1>3, <3>2 DEF Min
      <4>2. n \in DOMAIN text /\ n = Min(LinesOf(text, line_key(text[n])))
        BY <1>3, <3>2, <3>5, <4>1
      <4>3. rewritten(text, ch)[n] = Pair(line_key(text[n]), ch[line_key(text[n])])
        BY <3>2, <4>2, RewrittenLine
      <4> QED BY <3>2, <3>3, <4>3
    <3>6. n \in 1..l
      BY <1>3, <3>2
    <3> QED BY <2>2, <3>1, <3>4, <3>5, <3>6
  <2> QED BY <2>1, <2>2
<1>5. PICK L : L = LinesOf(t, k)
  OBVIOUS
<1>6. n \in L /\ L \subseteq 1..l
  BY <1>3, <1>4, <1>5 DEF LinesOf
<1>7. L = {n}
  <2>1. IsFiniteSet(L)
    <3>1. IsFiniteSet(1..l) BY FS_Interval
    <3> QED BY <1>6, <3>1, FS_Subset
  <2>2. Cardinality(L) \in Nat /\ Cardinality(L) # 0
    BY <1>6, <2>1, FS_CardinalityType, FS_EmptySet
  <2>3. Cardinality(L) = 1
    BY <1>1, <1>5, <2>2
  <2> QED BY <1>6, <2>1, <2>3, FS_Singleton
<1>8. LinesOf(text, k) \subseteq L
  <2> SUFFICES ASSUME NEW x \in LinesOf(text, k) PROVE x \in L
    OBVIOUS
  <2>1. x \in 1..m /\ line_key(text[x]) = k
    BY <1>3 DEF LinesOf
  <2>2. t[x] = rewritten(text, ch)[x]
    BY <1>2, <1>3, <2>1 DEF Saved
  <2>3. line_key(t[x]) = k
    BY <1>3, <2>1, <2>2, RewrittenLine
  <2>4. x \in 1..l
    BY <1>3, <2>1
  <2> QED BY <1>3, <1>5, <2>3, <2>4 DEF LinesOf
<1>9. t[n] = Pair(k, ch[k])
  <2>1. LinesOf(text, k) = {} \/ LinesOf(text, k) = {n}
    BY <1>7, <1>8
  <2> QED BY <1>4, <2>1
<1>10. Max(L) = n
  BY <1>3, <1>7 DEF Max
<1>11. t[Max(LinesOf(t, k))].value = ch[k]
  BY <1>5, <1>9, <1>10, KeyOfPair
<1>12. LinesOf(t, k) # {}
  BY <1>5, <1>7
<1> QED BY <1>1, <1>11, <1>12 DEF Setting

-----------------------------------------------------------------------------
(* main.rs: the instances and the files *)

Changes(c, v) == [k \in {j \in ViewKeys : c[j] # v[j]} |-> v[k]]

(* What ViewIsRestored says of a view and a file.                          *)
Restored(v, f) ==
    \A k \in ViewKeys : \/ load(f).config[k] = v[k]
                        \/ apply_key(k, v[k]) = None
                        \/ Cardinality(LinesOf(f.text, k)) > 1

(* The file of an instance nobody else has written since it was loaded:    *)
(* before the save it is the one that was loaded and then read again,      *)
(* after a clean end it gives the view back.                               *)
FileAsLeft(p, c, v, cd, b, f) ==
    /\ p \in {"opening", "open", "reading", "writing", "renaming"} => c = load(f).config
    /\ p \in {"writing", "renaming"} => b = f /\ f.state # "unreadable"
    /\ (p \in {"stopping", "exited"} /\ cd = Success) => Restored(v, f)

(* An instance at p with configuration c, path pa, view v, contents t,     *)
(* exit code cd, alone with its file or not, b as read by save, file f.    *)
InstanceOK(p, c, pa, v, t, cd, al, b, f) ==
    /\ pa \in Paths \cup {None}
    /\ al => p \notin {"off", "killed", "headless"}
    /\ p \in {"reading", "writing", "renaming"} => pa # None /\ cd = Success
    /\ p \in {"writing", "renaming"} => IsText(b.text) /\ t = save(b.text, Changes(c, v))
    /\ (al /\ pa # None) => FileAsLeft(p, c, v, cd, b, f)

Holds(j) == InstanceOK(pc[j], cfg[j], path[j], view[j], contents[j], code[j], alone[j], base[j],
                       config[path[j]])

Shape ==
    /\ DOMAIN config = Paths /\ DOMAIN pc = Instances /\ DOMAIN cfg = Instances
    /\ DOMAIN path = Instances /\ DOMAIN view = Instances /\ DOMAIN contents = Instances
    /\ DOMAIN code = Instances /\ DOMAIN alone = Instances /\ DOMAIN base = Instances
    /\ edits \in Nat

WorkstationInv ==
    /\ Shape
    /\ \A p \in Paths : IsFile(config[p])
    /\ \A j \in Instances : Holds(j)

(* A completed save gives the view back at the next start.                 *)
LEMMA SavedIsRestored ==
    ASSUME NEW b, IsFile(b), b.state # "unreadable", NEW c, c = load(b).config, NEW v
    PROVE  Restored(v, Present(save(b.text, Changes(c, v))))
<1>1. PICK ch : ch = Changes(c, v)
  OBVIOUS
<1>2. /\ DOMAIN ch = {k \in ViewKeys : c[k] # v[k]} /\ DOMAIN ch \subseteq ViewKeys
      /\ \A k \in DOMAIN ch : ch[k] = v[k]
  BY <1>1 DEF Changes
<1>3. PICK t : t = save(b.text, ch)
  OBVIOUS
<1>4. PICK f : f = Present(t)
  OBVIOUS
<1>5. f.state = "present" /\ f.text = t
  BY <1>4 DEF Present
<1>6. IsText(b.text)
  BY DEF IsFile
<1>7. ASSUME NEW k \in ViewKeys
      PROVE  \/ load(f).config[k] = v[k]
             \/ apply_key(k, v[k]) = None
             \/ Cardinality(LinesOf(f.text, k)) > 1
  <2>1. load(f).config[k] = Setting(t, k)
    BY <1>5, LoadPresent
  <2>2. CASE k \in DOMAIN ch
    <3>1. Cardinality(LinesOf(t, k)) > 1 \/ Setting(t, k) = apply_key(k, ch[k])
      BY <1>2, <1>3, <1>6, <2>2, ChangedSettingRead
    <3>2. apply_key(k, v[k]) = v[k] \/ apply_key(k, v[k]) = None
      BY AppliedOrRefused
    <3> QED BY <1>2, <1>5, <2>1, <2>2, <3>1, <3>2
  <2>3. CASE k \notin DOMAIN ch
    <3>1. c[k] = v[k]
      BY <1>2, <2>3
    <3>2. Setting(t, k) = Setting(b.text, k)
      BY <1>2, <1>3, <1>6, <2>3, OtherSettingKept
    <3>3. load(b).config[k] = Setting(b.text, k)
      BY LoadReadable
    <3> QED BY <2>1, <3>1, <3>2, <3>3
  <2> QED BY <2>2, <2>3
<1> QED BY <1>1, <1>3, <1>4, <1>7 DEF Restored

(* A view that did not change needs no save.                               *)
LEMMA UnchangedIsRestored ==
    ASSUME NEW f, NEW c, c = load(f).config, NEW v, {k \in ViewKeys : c[k] # v[k]} = {}
    PROVE  Restored(v, f)
BY DEF Restored

(* Losing the sole use of the file takes nothing else away.                *)
LEMMA LessAlone ==
    ASSUME NEW p, NEW c, NEW pa, NEW v, NEW t, NEW cd, NEW al, NEW b, NEW f, NEW al2, NEW f2,
           InstanceOK(p, c, pa, v, t, cd, al, b, f),
           al2 => al /\ (pa # None => f2 = f)
    PROVE  InstanceOK(p, c, pa, v, t, cd, al2, b, f2)
<1>1. /\ pa \in Paths \cup {None}
      /\ p \in {"reading", "writing", "renaming"} => pa # None /\ cd = Success
      /\ p \in {"writing", "renaming"} => IsText(b.text) /\ t = save(b.text, Changes(c, v))
  BY DEF InstanceOK
<1>2. al2 => p \notin {"off", "killed", "headless"}
  BY DEF InstanceOK
<1>3. (al2 /\ pa # None) => FileAsLeft(p, c, v, cd, b, f2)
  BY DEF InstanceOK
<1> QED BY <1>1, <1>2, <1>3 DEF InstanceOK

(* A step of another instance.                                             *)
Untouched(j) ==
    /\ pc'[j] = pc[j] /\ cfg'[j] = cfg[j] /\ path'[j] = path[j] /\ view'[j] = view[j]
    /\ contents'[j] = contents[j] /\ code'[j] = code[j] /\ base'[j] = base[j]
    /\ alone'[j] => alone[j] /\ (path[j] # None => config'[path[j]] = config[path[j]])

LEMMA UntouchedHolds ==
    ASSUME NEW j, Holds(j), Untouched(j)
    PROVE  Holds(j)'
<1>1. PICK p, c, pa, v, t, cd, al, b, f :
          /\ p = pc[j] /\ c = cfg[j] /\ pa = path[j] /\ v = view[j] /\ t = contents[j]
          /\ cd = code[j] /\ al = alone[j] /\ b = base[j] /\ f = config[path[j]]
  OBVIOUS
<1>2. PICK al2, f2 : al2 = alone'[j] /\ f2 = config'[path[j]]
  OBVIOUS
<1>3. InstanceOK(p, c, pa, v, t, cd, al, b, f)
  BY <1>1 DEF Holds
<1>4. al2 => al /\ (pa # None => f2 = f)
  BY <1>1, <1>2 DEF Untouched
<1>5. InstanceOK(p, c, pa, v, t, cd, al2, b, f2)
  BY <1>3, <1>4, LessAlone
<1>6. /\ p = pc'[j] /\ c = cfg'[j] /\ pa = path'[j] /\ v = view'[j] /\ t = contents'[j]
      /\ cd = code'[j] /\ al2 = alone'[j] /\ b = base'[j] /\ f2 = config'[path'[j]]
  BY <1>1, <1>2 DEF Untouched
<1> QED BY <1>5, <1>6 DEF Holds

(* A step of i keeps the invariant if it keeps what is said of i and of    *)
(* the files.                                                              *)
LEMMA StepOfOne ==
    ASSUME WorkstationInv, NEW i, Shape', \A p \in Paths : IsFile(config'[p]),
           i \in Instances => Holds(i)', \A j \in Instances \ {i} : Untouched(j)
    PROVE  WorkstationInv'
<1>1. ASSUME NEW j \in Instances PROVE Holds(j)'
  <2>1. CASE j = i BY <2>1
  <2>2. CASE j # i
    <3>1. Holds(j) /\ Untouched(j) BY <2>2 DEF WorkstationInv
    <3> QED BY <3>1, UntouchedHolds
  <2> QED BY <2>1, <2>2
<1> QED BY <1>1 DEF WorkstationInv

-----------------------------------------------------------------------------
(* The steps of main, run_render, save and write_atomic *)

LEMMA InitHolds == Init => WorkstationInv
<1> SUFFICES ASSUME Init PROVE WorkstationInv
  OBVIOUS
<1>1. Shape
  BY DEF Init, Shape
<1>2. ASSUME NEW p \in Paths PROVE IsFile(config[p])
  <2>1. config[p] = Present(InitialText) \/ config[p] = Absent
    BY DEF Init
  <2>2. IsFile(Present(InitialText))
    BY WorkstationAssumption DEF Present, IsFile
  <2>3. IsText(<<>>)
    <3>1. <<>> \in Seq({}) OBVIOUS
    <3> QED BY <3>1, SequenceIsText
  <2>4. IsFile(Absent)
    BY <2>3 DEF Absent, IsFile
  <2> QED BY <2>1, <2>2, <2>4
<1>3. ASSUME NEW j \in Instances PROVE Holds(j)
  BY DEF Init, Holds, InstanceOK
<1> QED BY <1>1, <1>2, <1>3 DEF WorkstationInv

(* Someone else's change of the file ends the sole use of it.              *)
LEMMA HandEditKeeps ==
    ASSUME WorkstationInv, HandEdit
    PROVE  WorkstationInv'
<1>1. PICK e \in Edits : Replace(e.path, e.file, None)
  BY DEF HandEdit
<1>2. e.path \in Paths /\ IsFile(e.file) /\ None \notin Instances
  BY WorkstationAssumption
<1>3. Shape'
  BY <1>1 DEF HandEdit, Replace, WorkstationInv, Shape
<1>4. \A p \in Paths : config'[p] = IF p = e.path THEN e.file ELSE config[p]
  BY <1>1 DEF Replace, WorkstationInv, Shape
<1>5. \A p \in Paths : IsFile(config'[p])
  BY <1>2, <1>4 DEF WorkstationInv
<1>6. ASSUME NEW j \in Instances PROVE Untouched(j)
  <2>1. path[j] \in Paths \cup {None}
    BY DEF WorkstationInv, Holds, InstanceOK
  <2>2. alone'[j] = (alone[j] /\ (j = None \/ path[j] # e.path))
    BY <1>1 DEF Replace
  <2>3. alone'[j] => alone[j] /\ (path[j] # None => config'[path[j]] = config[path[j]])
    BY <1>2, <1>4, <2>1, <2>2
  <2> QED BY <2>3 DEF HandEdit, Untouched
<1>7. None \in Instances => Holds(None)'
  BY <1>2
<1> QED BY <1>3, <1>5, <1>6, <1>7, StepOfOne

(* A start forgets the last session; the file is as it was loaded.         *)
LEMMA LaunchKeeps ==
    ASSUME WorkstationInv, NEW i \in Instances, Launch(i)
    PROVE  WorkstationInv'
<1>1. PICK l \in Launches, runtime_built \in BOOLEAN :
        LET args   == cli_parse(l.argv)
            where  == config_path(args, l)
            loaded == IF where = None THEN default ELSE load(config[where]).config
            site   == resolve_site(args.site, loaded[SITE_KEY])
            ends   == IF args.outcome \in {"help", "version"} THEN Success
                      ELSE IF args.outcome = "error" \/ site = None THEN UsageError
                      ELSE IF ~runtime_built THEN Failure ELSE None
        IN  /\ pc[i] \in {"off", "exited", "killed"} /\ launches < MaxLaunches
            /\ pc' = [pc EXCEPT ![i] = IF ends # None THEN "exited"
                                       ELSE IF args.headless THEN "headless" ELSE "opening"]
            /\ code' = [code EXCEPT ![i] = ends]
            /\ pipeline' = [pipeline EXCEPT ![i] = IF ends = None THEN "running" ELSE "none"]
            /\ IF ends # None THEN UNCHANGED <<cfg, path, view>>
               ELSE /\ cfg' = [cfg EXCEPT ![i] = loaded]
                    /\ path' = [path EXCEPT ![i] = where]
                    /\ view' = [view EXCEPT ![i] = initial_view(loaded)]
            /\ alone' = [alone EXCEPT ![i] = ends = None /\ ~args.headless]
            /\ contents' = [contents EXCEPT ![i] = <<>>]
            /\ base' = [base EXCEPT ![i] = Absent]
            /\ launches' = launches + 1
            /\ UNCHANGED <<config, tmp, changes, edits>>
  BY Zenon DEF Launch
<1>2. PICK args : args = cli_parse(l.argv)
  OBVIOUS
<1>3. PICK where : where = config_path(args, l)
  OBVIOUS
<1>4. PICK loaded : loaded = IF where = None THEN default ELSE load(config[where]).config
  OBVIOUS
<1>5. PICK ends, pcn :
            /\ pc' = [pc EXCEPT ![i] = pcn] /\ code' = [code EXCEPT ![i] = ends]
            /\ pcn = IF ends # None THEN "exited"
                     ELSE IF args.headless THEN "headless" ELSE "opening"
            /\ IF ends # None THEN UNCHANGED <<cfg, path, view>>
               ELSE /\ cfg' = [cfg EXCEPT ![i] = loaded]
                    /\ path' = [path EXCEPT ![i] = where]
                    /\ view' = [view EXCEPT ![i] = initial_view(loaded)]
            /\ alone' = [alone EXCEPT ![i] = ends = None /\ ~args.headless]
            /\ contents' = [contents EXCEPT ![i] = <<>>]
            /\ base' = [base EXCEPT ![i] = Absent]
            /\ config' = config /\ edits' = edits
  BY <1>1, <1>2, <1>3, <1>4, Zenon
<1>6. where \in Paths \cup {None}
  BY <1>3 DEF config_path, xdg_dir, Paths
<1>7. Shape'
  BY <1>5 DEF WorkstationInv, Shape
<1>8. \A p \in Paths : IsFile(config'[p])
  BY <1>5 DEF WorkstationInv
<1>9. ASSUME NEW j \in Instances \ {i} PROVE Untouched(j)
  BY <1>5 DEF WorkstationInv, Shape, Untouched
<1>10. Holds(i)'
  <2>1. pc'[i] = pcn /\ pcn \in {"exited", "headless", "opening"}
    BY <1>5 DEF WorkstationInv, Shape
  <2>2. alone'[i] => ends = None /\ pcn = "opening"
    BY <1>5 DEF WorkstationInv, Shape
  <2>3. path'[i] \in Paths \cup {None}
    <3>1. path[i] \in Paths \cup {None}
      BY DEF WorkstationInv, Holds, InstanceOK
    <3> QED BY <1>5, <1>6, <3>1 DEF WorkstationInv, Shape
  <2>4. (alone'[i] /\ path'[i] # None) => cfg'[i] = load(config'[path'[i]]).config
    BY <1>4, <1>5, <2>2 DEF WorkstationInv, Shape
  <2> QED BY <2>1, <2>2, <2>3, <2>4 DEF Holds, InstanceOK, FileAsLeft
<1> QED BY <1>7, <1>8, <1>9, <1>10, StepOfOne

(* A step of i that leaves the files, what was loaded and the path alone.  *)
Quiet(i) ==
    /\ UNCHANGED <<config, cfg, path, edits>>
    /\ DOMAIN pc' = Instances /\ DOMAIN view' = Instances /\ DOMAIN contents' = Instances
    /\ DOMAIN code' = Instances /\ DOMAIN alone' = Instances /\ DOMAIN base' = Instances
    /\ \A j \in Instances \ {i} :
          /\ pc'[j] = pc[j] /\ view'[j] = view[j] /\ contents'[j] = contents[j]
          /\ code'[j] = code[j] /\ alone'[j] = alone[j] /\ base'[j] = base[j]

LEMMA QuietKeeps ==
    ASSUME WorkstationInv, NEW i \in Instances, Quiet(i), Holds(i)'
    PROVE  WorkstationInv'
<1>1. Shape'
  BY DEF Quiet, WorkstationInv, Shape
<1>2. \A p \in Paths : IsFile(config'[p])
  BY DEF Quiet, WorkstationInv
<1>3. ASSUME NEW j \in Instances \ {i} PROVE Untouched(j)
  BY DEF Quiet, WorkstationInv, Shape, Untouched
<1> QED BY <1>1, <1>2, <1>3, StepOfOne

(* Ends that save nothing, and the way to and from the window.             *)
LEMMA SessionKeeps ==
    ASSUME WorkstationInv, NEW i \in Instances,
           StdinCloses(i) \/ WindowOpens(i) \/ RenderFails(i) \/ ChangeView(i) \/ Shutdown(i) \/ Kill(i)
    PROVE  WorkstationInv'
<1>0. Shape /\ Holds(i)
  BY DEF WorkstationInv
<1>1. CASE StdinCloses(i)
  <2>1. /\ pc[i] = "headless" /\ pc'[i] = "stopping" /\ alone'[i] = alone[i]
        /\ path'[i] = path[i] /\ Quiet(i)
    BY <1>0, <1>1 DEF StdinCloses, Shape, Quiet
  <2>2. Holds(i)'
    BY <1>0, <2>1 DEF Holds, InstanceOK
  <2> QED BY <2>1, <2>2, QuietKeeps
<1>2. CASE WindowOpens(i)
  <2>1. /\ pc[i] = "opening" /\ pc'[i] = "open" /\ cfg'[i] = cfg[i] /\ path'[i] = path[i]
        /\ alone'[i] = alone[i] /\ config' = config /\ Quiet(i)
    BY <1>0, <1>2 DEF WindowOpens, Shape, Quiet
  <2>2. Holds(i)'
    BY <1>0, <2>1 DEF Holds, InstanceOK, FileAsLeft
  <2> QED BY <2>1, <2>2, QuietKeeps
<1>3. CASE RenderFails(i)
  <2>1. /\ pc'[i] = "stopping" /\ code'[i] = Failure /\ path'[i] = path[i] /\ Quiet(i)
    BY <1>0, <1>3 DEF RenderFails, Shape, Quiet
  <2>2. Holds(i)'
    BY <1>0, <2>1 DEF Holds, InstanceOK, FileAsLeft, Success, Failure
  <2> QED BY <2>1, <2>2, QuietKeeps
<1>4. CASE ChangeView(i)
  <2>1. /\ pc[i] = "open" /\ pc'[i] = "open" /\ cfg'[i] = cfg[i] /\ path'[i] = path[i]
        /\ alone'[i] = alone[i] /\ config' = config /\ Quiet(i)
    BY <1>0, <1>4 DEF ChangeView, Shape, Quiet
  <2>2. Holds(i)'
    BY <1>0, <2>1 DEF Holds, InstanceOK, FileAsLeft
  <2> QED BY <2>1, <2>2, QuietKeeps
<1>5. CASE Shutdown(i)
  <2>1. /\ pc[i] = "stopping" /\ pc'[i] = "exited" /\ code'[i] = code[i] /\ path'[i] = path[i]
        /\ alone'[i] = alone[i] /\ view'[i] = view[i] /\ config' = config /\ Quiet(i)
    BY <1>0, <1>5 DEF Shutdown, Shape, Quiet
  <2>2. Holds(i)'
    BY <1>0, <2>1 DEF Holds, InstanceOK, FileAsLeft
  <2> QED BY <2>1, <2>2, QuietKeeps
<1>6. CASE Kill(i)
  <2>1. pc'[i] = "killed" /\ path'[i] = path[i] /\ ~alone'[i] /\ Quiet(i)
    BY <1>0, <1>6 DEF Kill, Shape, Quiet
  <2>2. Holds(i)'
    BY <1>0, <2>1 DEF Holds, InstanceOK
  <2> QED BY <2>1, <2>2, QuietKeeps
<1> QED BY <1>1, <1>2, <1>3, <1>4, <1>5, <1>6

(* The close of the window: with nothing to save the view is in the file.  *)
LEMMA CloseKeeps ==
    ASSUME WorkstationInv, NEW i \in Instances, CloseWindow(i)
    PROVE  WorkstationInv'
<1>0. Shape /\ Holds(i)
  BY DEF WorkstationInv
<1>1. /\ pc[i] = "open" /\ cfg'[i] = cfg[i] /\ path'[i] = path[i] /\ view'[i] = view[i]
      /\ alone'[i] = alone[i] /\ config' = config /\ code'[i] = Success /\ Quiet(i)
      /\ pc'[i] = IF path[i] # None /\ changed(i) # {} THEN "reading" ELSE "stopping"
  BY <1>0 DEF CloseWindow, Shape, Quiet
<1>2. path[i] \in Paths \cup {None}
  BY <1>0 DEF Holds, InstanceOK
<1>3. (alone[i] /\ path[i] # None) => cfg[i] = load(config[path[i]]).config
  BY <1>0, <1>1 DEF Holds, InstanceOK, FileAsLeft
<1>4. (alone[i] /\ path[i] # None /\ changed(i) = {}) => Restored(view[i], config[path[i]])
  BY <1>3, UnchangedIsRestored DEF changed
<1>5. Holds(i)'
  <2>1. CASE pc'[i] = "reading"
    <3>1. path[i] # None
      BY <1>1, <2>1
    <3> QED BY <1>1, <1>2, <1>3, <2>1, <3>1 DEF Holds, InstanceOK, FileAsLeft
  <2>2. CASE pc'[i] = "stopping"
    <3>1. (alone[i] /\ path[i] # None) => Restored(view[i], config[path[i]])
      BY <1>1, <1>4, <2>2
    <3> QED BY <1>1, <1>2, <2>2, <3>1 DEF Holds, InstanceOK, FileAsLeft
  <2> QED BY <1>1, <2>1, <2>2
<1> QED BY <1>1, <1>5, QuietKeeps

(* save reads the file again: alone, it is still the one that was loaded.  *)
LEMMA SaveReadKeeps ==
    ASSUME WorkstationInv, NEW i \in Instances, SaveRead(i)
    PROVE  WorkstationInv'
<1>0. Shape /\ Holds(i)
  BY DEF WorkstationInv
<1>1. /\ pc[i] = "reading" /\ cfg'[i] = cfg[i] /\ path'[i] = path[i] /\ view'[i] = view[i]
      /\ config' = config /\ code'[i] = code[i] /\ Quiet(i)
  BY <1>0 DEF SaveRead, Shape, Quiet
<1>2. path[i] \in Paths /\ path[i] # None /\ code[i] = Success
  BY <1>0, <1>1 DEF Holds, InstanceOK
<1>3. IsFile(config[path[i]])
  BY <1>2 DEF WorkstationInv
<1>4. CASE config[path[i]].state = "unreadable"
  <2>1. pc'[i] = "stopping" /\ ~alone'[i]
    BY <1>0, <1>4 DEF SaveRead, Shape
  <2>2. Holds(i)'
    BY <1>1, <1>2, <2>1 DEF Holds, InstanceOK
  <2> QED BY <1>1, <2>2, QuietKeeps
<1>5. CASE config[path[i]].state # "unreadable"
  <2>1. /\ pc'[i] = "writing" /\ alone'[i] = alone[i] /\ base'[i] = config[path[i]]
        /\ contents'[i] = save(config[path[i]].text, [k \in changed(i) |-> view[i][k]])
    BY <1>0, <1>5 DEF SaveRead, Shape
  <2>2. contents'[i] = save(base'[i].text, Changes(cfg'[i], view'[i]))
    BY <1>1, <2>1 DEF Changes, changed
  <2>3. IsText(base'[i].text)
    BY <1>3, <2>1 DEF IsFile
  <2>4. alone'[i] => cfg'[i] = load(config'[path'[i]]).config
    BY <1>0, <1>1, <1>2, <2>1 DEF Holds, InstanceOK, FileAsLeft
  <2>5. base'[i] = config'[path'[i]] /\ config'[path'[i]].state # "unreadable"
    BY <1>1, <1>5, <2>1
  <2>6. Holds(i)'
    BY <1>1, <1>2, <2>1, <2>2, <2>3, <2>4, <2>5 DEF Holds, InstanceOK, FileAsLeft
  <2> QED BY <1>1, <2>6, QuietKeeps
<1> QED BY <1>4, <1>5

(* The temporary file is written, wholly or not.                           *)
LEMMA WriteTmpKeeps ==
    ASSUME WorkstationInv, NEW i \in Instances, WriteTmp(i)
    PROVE  WorkstationInv'
<1>0. Shape /\ Holds(i)
  BY DEF WorkstationInv
<1>1. /\ pc[i] = "writing" /\ cfg'[i] = cfg[i] /\ path'[i] = path[i] /\ view'[i] = view[i]
      /\ contents'[i] = contents[i] /\ base'[i] = base[i] /\ config' = config
      /\ code'[i] = code[i] /\ Quiet(i)
      /\ \/ pc'[i] = "renaming" /\ alone'[i] = alone[i]
         \/ pc'[i] = "stopping" /\ ~alone'[i]
  BY <1>0 DEF WriteTmp, Shape, Quiet
<1>2. Holds(i)'
  <2>1. CASE pc'[i] = "renaming" /\ alone'[i] = alone[i]
    BY <1>0, <1>1, <2>1 DEF Holds, InstanceOK, FileAsLeft
  <2>2. CASE pc'[i] = "stopping" /\ ~alone'[i]
    BY <1>0, <1>1, <2>2 DEF Holds, InstanceOK
  <2> QED BY <1>1, <2>1, <2>2
<1> QED BY <1>1, <1>2, QuietKeeps

(* The rename puts the saved lines in place; for every other instance the  *)
(* file is no longer the one it loaded.                                    *)
LEMMA RenameKeeps ==
    ASSUME WorkstationInv, NEW i \in Instances, Rename(i)
    PROVE  WorkstationInv'
<1>0. Shape /\ Holds(i)
  BY DEF WorkstationInv
<1>1. /\ pc[i] = "renaming" /\ pc'[i] = "stopping" /\ cfg'[i] = cfg[i] /\ path'[i] = path[i]
      /\ view'[i] = view[i] /\ code'[i] = code[i]
  BY <1>0 DEF Rename, Shape
<1>2. /\ path[i] \in Paths /\ path[i] # None /\ code[i] = Success
      /\ IsText(base[i].text) /\ contents[i] = save(base[i].text, Changes(cfg[i], view[i]))
      /\ alone[i] => /\ cfg[i] = load(config[path[i]]).config
                     /\ base[i] = config[path[i]] /\ config[path[i]].state # "unreadable"
  BY <1>0, <1>1 DEF Holds, InstanceOK, FileAsLeft
<1>3. CASE Replace(path[i], Present(contents[i]), i)
  <2>1. PICK f : f = Present(contents[i])
    OBVIOUS
  <2>2. \A p \in Paths : config'[p] = IF p = path[i] THEN f ELSE config[p]
    BY <1>0, <1>3, <2>1 DEF Replace, Shape
  <2>3. \A j \in Instances : alone'[j] = (alone[j] /\ (j = i \/ path[j] # path[i]))
    BY <1>3 DEF Replace
  <2>4. IsFile(f)
    <3>1. DOMAIN Changes(cfg[i], view[i]) \subseteq ViewKeys
      BY DEF Changes
    <3>2. IsText(contents[i])
      BY <1>2, <3>1, SaveKeeps
    <3> QED BY <2>1, <3>2 DEF IsFile, Present
  <2>5. Shape'
    BY <1>0, <1>3 DEF Rename, Replace, Shape
  <2>6. \A p \in Paths : IsFile(config'[p])
    BY <2>2, <2>4 DEF WorkstationInv
  <2>7. ASSUME NEW j \in Instances \ {i} PROVE Untouched(j)
    <3>1. path[j] \in Paths \cup {None}
      BY DEF WorkstationInv, Holds, InstanceOK
    <3>2. alone'[j] => alone[j] /\ (path[j] # None => config'[path[j]] = config[path[j]])
      BY <2>2, <2>3, <3>1
    <3> QED BY <1>0, <3>2 DEF Rename, Shape, Untouched
  <2>8. alone'[i] => Restored(view'[i], config'[path'[i]])
    <3> SUFFICES ASSUME alone[i] PROVE Restored(view[i], f)
      BY <1>1, <1>2, <2>2, <2>3
    <3>1. PICK b, c, v : b = base[i] /\ c = cfg[i] /\ v = view[i]
      OBVIOUS
    <3>2. IsFile(b) /\ b.state # "unreadable" /\ c = load(b).config
      BY <1>2, <3>1 DEF WorkstationInv
    <3>3. Restored(v, Present(save(b.text, Changes(c, v))))
      BY <3>2, SavedIsRestored
    <3> QED BY <1>2, <2>1, <3>1, <3>3
  <2>9. Holds(i)'
    BY <1>1, <1>2, <2>8 DEF Holds, InstanceOK, FileAsLeft
  <2> QED BY <2>5, <2>6, <2>7, <2>9, StepOfOne
<1>4. CASE alone' = [alone EXCEPT ![i] = FALSE] /\ UNCHANGED <<config, tmp>>
  <2>1. Quiet(i) /\ ~alone'[i]
    BY <1>0, <1>4 DEF Rename, Shape, Quiet
  <2>2. Holds(i)'
    BY <1>1, <1>2, <2>1 DEF Holds, InstanceOK
  <2> QED BY <2>1, <2>2, QuietKeeps
<1> QED BY <1>3, <1>4 DEF Rename

LEMMA StepKeeps ==
    ASSUME WorkstationInv, [Next]_vars
    PROVE  WorkstationInv'
<1>1. CASE HandEdit
  BY <1>1, HandEditKeeps
<1>2. ASSUME NEW i \in Instances, Step(i) PROVE WorkstationInv'
  BY <1>2, LaunchKeeps, SessionKeeps, CloseKeeps, SaveReadKeeps, WriteTmpKeeps, RenameKeeps DEF Step
<1>3. CASE UNCHANGED vars
  <2>1. Shape'
    BY <1>3 DEF vars, instvars, WorkstationInv, Shape
  <2>2. \A p \in Paths : IsFile(config'[p])
    BY <1>3 DEF vars, WorkstationInv
  <2>3. ASSUME NEW j \in Instances PROVE Holds(j)'
    BY <1>3 DEF vars, instvars, WorkstationInv, Holds
  <2> QED BY <2>1, <2>2, <2>3 DEF WorkstationInv
<1> QED BY <1>1, <1>2, <1>3 DEF Next

LEMMA InvariantRestores ==
    ASSUME WorkstationInv
    PROVE  ViewIsRestored
<1> SUFFICES ASSUME NEW i \in Instances, pc[i] = "exited", code[i] = Success, alone[i],
                    path[i] # None
             PROVE  Restored(view[i], config[path[i]])
  BY DEF ViewIsRestored, Restored
<1>1. Holds(i)
  BY DEF WorkstationInv
<1> QED BY <1>1 DEF Holds, InstanceOK, FileAsLeft

(* For any number of instances, files, command lines and hand edits: a     *)
(* window that was closed cleanly comes back as it was while nobody else   *)
(* writes its file (run_render, save and load together).                   *)
THEOREM CleanCloseIsRestored == Spec => []ViewIsRestored
<1>1. Init => WorkstationInv
  BY InitHolds
<1>2. WorkstationInv /\ [Next]_vars => WorkstationInv'
  BY StepKeeps
<1>3. WorkstationInv => ViewIsRestored
  BY InvariantRestores
<1> QED BY <1>1, <1>2, <1>3, PTL DEF Spec

(* What SaveKeepsOtherLines says of a step.                                *)
OtherLinesKept ==
    \A p \in Paths : (config'[p] # config[p] /\ edits' = edits) =>
        \E i \in Instances :
            /\ path[i] = p /\ pc[i] \in Live /\ pc'[i] = "stopping" /\ code[i] = Success
            /\ KeepsOtherLines(config'[p].text, base[i].text, changed(i))

(* Only the hand edit and the rename write a file.                         *)
LEMMA StepKeepsLines ==
    ASSUME WorkstationInv, [Next]_vars
    PROVE  OtherLinesKept
<1>0. Shape
  BY DEF WorkstationInv
<1>1. CASE HandEdit
  BY <1>0, <1>1 DEF HandEdit, OtherLinesKept, Shape
<1>2. CASE config' = config
  BY <1>2 DEF OtherLinesKept
<1>3. ASSUME NEW i \in Instances, Rename(i), Replace(path[i], Present(contents[i]), i)
      PROVE  OtherLinesKept
  <2>1. pc[i] = "renaming" /\ pc'[i] = "stopping" /\ Holds(i)
    BY <1>0, <1>3 DEF Rename, Shape, WorkstationInv
  <2>2. /\ code[i] = Success /\ IsText(base[i].text)
        /\ contents[i] = save(base[i].text, Changes(cfg[i], view[i]))
    BY <2>1 DEF Holds, InstanceOK
  <2>3. DOMAIN Changes(cfg[i], view[i]) = changed(i) /\ changed(i) \subseteq ViewKeys
    BY DEF Changes, changed
  <2>4. KeepsOtherLines(contents[i], base[i].text, changed(i))
    BY <2>2, <2>3, SaveKeeps
  <2>5. \A p \in Paths : config'[p] = IF p = path[i] THEN Present(contents[i]) ELSE config[p]
    BY <1>0, <1>3 DEF Replace, Shape
  <2>6. Present(contents[i]).text = contents[i]
    BY DEF Present
  <2>7. pc[i] \in Live
    BY <2>1 DEF Live
  <2> QED BY <2>1, <2>2, <2>4, <2>5, <2>6, <2>7 DEF OtherLinesKept
<1>4. ASSUME NEW i \in Instances, Step(i) PROVE OtherLinesKept
  <2>1. CASE Rename(i)
    BY <1>2, <1>3, <2>1 DEF Rename
  <2>2. CASE ~Rename(i)
    <3>1. config' = config
      BY <1>4, <2>2 DEF Step, Launch, StdinCloses, WindowOpens, RenderFails, ChangeView,
                        CloseWindow, SaveRead, WriteTmp, Shutdown, Kill
    <3> QED BY <1>2, <3>1
  <2> QED BY <2>1, <2>2
<1>5. CASE UNCHANGED vars
  BY <1>2, <1>5 DEF vars
<1> QED BY <1>1, <1>4, <1>5 DEF Next

(* For any file and any number of instances, whatever fails or dies half   *)
(* way: only a completed save of a window closed cleanly changes the file, *)
(* and only the lines of the settings that window changed (run_render,     *)
(* save, write_atomic).                                                    *)
THEOREM SavesTouchOnlyTheirLines == Spec => SaveKeepsOtherLines
<1>1. Init => WorkstationInv
  BY InitHolds
<1>2. WorkstationInv /\ [Next]_vars => WorkstationInv'
  BY StepKeeps
<1>3. WorkstationInv /\ [Next]_vars =>
        [\A p \in Paths : (config'[p] # config[p] /\ edits' = edits) =>
            \E i \in Instances :
                /\ path[i] = p /\ pc[i] \in Live /\ pc'[i] = "stopping" /\ code[i] = Success
                /\ KeepsOtherLines(config'[p].text, base[i].text, changed(i))]_vars
  BY StepKeepsLines DEF OtherLinesKept
<1> QED BY <1>1, <1>2, <1>3, PTL DEF Spec, SaveKeepsOtherLines
=============================================================================
