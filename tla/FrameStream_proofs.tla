------------------------- MODULE FrameStream_proofs -------------------------
(***************************************************************************)
(* Proofs about FrameStream: however TCP cuts the stream, frames arrive    *)
(* whole, in order and at most once, and none is passed over in silence.   *)
(* Whatever is in a body and whatever its decoder makes of it: the         *)
(* constants Encoded and Decoded stay open.                                *)
(***************************************************************************)
EXTENDS FrameStream, FiniteSetTheorems, WellFoundedInduction, TLAPS

Unit == (Nat \ {0}) \X (Nat \ {0})
TypesSent == {m.type : m \in Messages}
BodiesSent == {Encoded(m) : m \in Messages}
Frame == [type : TypesSent, value : {m.value : m \in Messages}, body : BodiesSent,
          defect : Defects, connection : Nat]
Answer == [frame : Nat,
           ok : {Decoded(type, body).ok : type \in TypesSent, body \in BodiesSent},
           value : {Decoded(type, body).value : type \in TypesSent, body \in BodiesSent}]

StreamTypeOK ==
    /\ sent \in Seq(Frame)
    /\ wire \in Seq(Unit) /\ buffer \in Seq(Unit)
    /\ dispatched \in Seq(Answer)
    /\ open \in BOOLEAN /\ connection \in Nat

\* What is on record belongs to a frame and a connection there has been.
RecordsAreOfFrames ==
    /\ \A i \in 1..Len(sent) : sent[i].connection <= connection
    /\ \A d \in 1..Len(dispatched) : dispatched[d].frame \in 1..Len(sent)

\* A connection that is still read has met no damaged frame yet.
GoodSoFar ==
    open => \A i \in 1..(Coming[1][1] - 1) :
                sent[i].connection = connection => sent[i].defect = "none"

StreamInvariant == StreamTypeOK /\ RecordsAreOfFrames /\ GoodSoFar /\ FramesArriveWhole

-----------------------------------------------------------------------------
(* Numbers and sequences.                                                  *)

\* Numbers that are there have a least one.
LEMMA LeastNumber ==
    ASSUME NEW found \in SUBSET Nat, found # {}
    PROVE  \E least \in found : \A n \in found : least <= n
<1>1. PICK least \in found : \A n \in found : ~(<< n, least >> \in OpToRel(<, Nat))
  BY ONLY found \in SUBSET Nat, found # {}, NatLessThanWellFounded, WFMin
<1>2. \A n \in found : ~(n < least)
  BY <1>1 DEF OpToRel
<1>3. \A n \in found : n \in Nat
  OBVIOUS
<1> QED BY <1>2, <1>3

\* Numbers up to a bound have a greatest one.
LEMMA GreatestNumber ==
    ASSUME NEW bound \in Nat, NEW found \in SUBSET (0..bound), found # {}
    PROVE  \E most \in found : \A n \in found : n <= most
<1> DEFINE below == {bound - n : n \in found}
<1>1. \A n \in found : n \in Nat /\ n <= bound /\ bound - n \in Nat
  OBVIOUS
<1>2. below \in SUBSET Nat /\ below # {}
  BY <1>1
<1>3. PICK least \in below : \A n \in below : least <= n
  BY ONLY <1>2, LeastNumber
<1>4. PICK most \in found : least = bound - most
  OBVIOUS
<1>5. ASSUME NEW n \in found PROVE n <= most
  <2>1. bound - n \in below
    OBVIOUS
  <2>2. bound - most <= bound - n
    BY <1>3, <1>4, <2>1
  <2> QED BY <1>1, <2>2
<1> QED BY <1>5

\* Two sequences and one more element.
LEMMA Joining ==
    ASSUME NEW T, NEW s \in Seq(T), NEW t \in Seq(T), NEW x \in T
    PROVE  LET all == Append(s \o t, x) IN
           /\ all \in Seq(T) /\ Len(all) = Len(s) + Len(t) + 1
           /\ \A p \in 1..Len(s) : all[p] = s[p]
           /\ \A p \in 1..Len(t) : all[Len(s) + p] = t[p]
           /\ all[Len(s) + Len(t) + 1] = x
OBVIOUS

\* The last n of them are left.
LEMMA Suffix ==
    ASSUME NEW T, NEW s \in Seq(T), NEW n \in 0..Len(s)
    PROVE  LET rest == SubSeq(s, n + 1, Len(s)) IN
           /\ rest \in Seq(T) /\ Len(rest) = Len(s) - n
           /\ \A p \in 1..(Len(s) - n) : rest[p] = s[n + p]
OBVIOUS

\* One sequence after another.
LEMMA Concatenation ==
    ASSUME NEW T, NEW s \in Seq(T), NEW t \in Seq(T)
    PROVE  /\ s \o t \in Seq(T) /\ Len(s \o t) = Len(s) + Len(t)
           /\ \A p \in 1..Len(s) : (s \o t)[p] = s[p]
           /\ \A p \in 1..Len(t) : (s \o t)[Len(s) + p] = t[p]
OBVIOUS

-----------------------------------------------------------------------------
(* Runs of units that follow one another.                                  *)

LEMMA SizeIsPositive == ASSUME NEW frame PROVE FrameSize(frame) \in Nat /\ FrameSize(frame) > 0
BY FrameStreamAssumption DEF FrameSize

\* u[1], ..., u[n] are units, each the one after its predecessor.
IsRun(u, n) ==
    /\ \A p \in 1..n : u[p] \in Unit
    /\ \A p \in 1..(n - 1) : u[p + 1] = UnitAfter(u[p])

\* The unit after a unit is the next of its frame or the first of the next frame.
LEMMA After ==
    ASSUME NEW unit \in Unit
    PROVE  \/ UnitAfter(unit)[1] = unit[1] /\ UnitAfter(unit)[2] = unit[2] + 1
           \/ UnitAfter(unit)[1] = unit[1] + 1 /\ UnitAfter(unit)[2] = 1
BY DEF UnitAfter

\* In a run no unit comes twice, and later ones are of later frames or later in theirs.
LEMMA RunIsOrdered ==
    ASSUME NEW n \in Nat, NEW u, IsRun(u, n), NEW p \in 1..n, NEW q \in 1..n, p < q
    PROVE  u[p][1] < u[q][1] \/ (u[p][1] = u[q][1] /\ u[p][2] < u[q][2])
<1> DEFINE Before(r) == u[p][1] < u[r][1] \/ (u[p][1] = u[r][1] /\ u[p][2] < u[r][2])
           wrong == {r \in (p + 1)..n : ~Before(r)}
<1>1. SUFFICES ASSUME wrong # {} PROVE FALSE
  <2>1. q \in (p + 1)..n
    OBVIOUS
  <2> QED BY <2>1
<1>2. \A r \in 1..n : u[r] \in Unit /\ u[r][1] \in Nat /\ u[r][2] \in Nat
  BY DEF IsRun, Unit
<1>3. wrong \in SUBSET Nat
  OBVIOUS
<1>4. PICK r \in wrong : \A s \in wrong : r <= s
  <2> HIDE DEF wrong
  <2> QED BY <1>1, <1>3, LeastNumber
<1>5. r \in (p + 1)..n /\ ~Before(r) /\ r - 1 \in 1..(n - 1) /\ (r - 1) + 1 = r
  BY <1>4
<1>6. u[r] = UnitAfter(u[r - 1]) /\ u[r - 1] \in Unit
  BY <1>2, <1>5 DEF IsRun
<1>7. \/ u[r][1] = u[r - 1][1] /\ u[r][2] = u[r - 1][2] + 1
      \/ u[r][1] = u[r - 1][1] + 1 /\ u[r][2] = 1
  BY <1>6, After
<1>8. u[r - 1][1] \in Nat /\ u[r - 1][2] \in Nat /\ u[p][1] \in Nat /\ u[p][2] \in Nat
  BY <1>2, <1>5
<1> DEFINE i == u[p][1]  k == u[p][2]  j == u[r - 1][1]  l == u[r - 1][2]
           m == u[r][1]  o == u[r][2]
<1> HIDE DEF i, k, j, l, m, o, wrong
<1>9. CASE r = p + 1
  <2>1. i = j /\ k = l
    BY <1>9 DEF i, j, k, l
  <2>2. (m = j /\ o = l + 1) \/ (m = j + 1 /\ o = 1)
    BY <1>7 DEF j, l, m, o
  <2>3. i \in Nat /\ k \in Nat
    BY <1>8 DEF i, k
  <2>4. i < m \/ (i = m /\ k < o)
    BY <2>1, <2>2, <2>3
  <2> QED BY <1>5, <2>4 DEF i, k, m, o
<1>10. CASE r # p + 1
  <2>1. r - 1 \in (p + 1)..n /\ r - 1 \notin wrong
    BY <1>4, <1>5, <1>10
  <2>2. Before(r - 1)
    BY <2>1 DEF wrong
  <2>3. i < j \/ (i = j /\ k < l)
    BY <2>2 DEF i, j, k, l
  <2>4. (m = j /\ o = l + 1) \/ (m = j + 1 /\ o = 1)
    BY <1>7 DEF j, l, m, o
  <2>5. i < m \/ (i = m /\ k < o)
    <3>1. i \in Nat /\ k \in Nat /\ j \in Nat /\ l \in Nat
      BY <1>8 DEF i, j, k, l
    <3> QED BY <2>3, <2>4, <3>1
  <2> QED BY <1>5, <2>5 DEF i, k, m, o
<1> QED BY <1>9, <1>10

\* A run that begins with a frame passes the start of every frame it reaches.
LEMMA RunCovers ==
    ASSUME NEW n \in Nat, NEW u, IsRun(u, n), NEW p \in 1..n, u[1][2] = 1,
           NEW i \in u[1][1]..u[p][1]
    PROVE  \E q \in 1..p : u[q][1] = i /\ u[q][2] = 1
<1> DEFINE Passed(r) == \A j \in u[1][1]..u[r][1] : \E q \in 1..r : u[q][1] = j /\ u[q][2] = 1
           wrong == {r \in 1..n : ~Passed(r)}
<1>1. SUFFICES ASSUME wrong # {} PROVE FALSE
  OBVIOUS
<1>2. \A r \in 1..n : u[r] \in Unit /\ u[r][1] \in Nat /\ u[r][2] \in Nat
  BY DEF IsRun, Unit
<1>3. wrong \in SUBSET Nat
  OBVIOUS
<1>4. PICK r \in wrong : \A s \in wrong : r <= s
  <2> HIDE DEF wrong
  <2> QED BY <1>1, <1>3, LeastNumber
<1>5. r \in 1..n /\ ~Passed(r)
  BY <1>4
<1>6. CASE r = 1
  <2>1. ASSUME NEW j \in u[1][1]..u[1][1] PROVE u[1][1] = j /\ u[1][2] = 1
    BY <1>2, <1>5, <1>6
  <2> QED BY <1>5, <1>6, <2>1
<1>7. CASE r # 1
  <2>1. r - 1 \in 1..(n - 1) /\ r - 1 \in 1..n /\ (r - 1) + 1 = r /\ r - 1 \notin wrong
    BY <1>4, <1>5, <1>7
  <2>2. Passed(r - 1)
    BY <2>1
  <2>3. u[r] = UnitAfter(u[r - 1]) /\ u[r - 1] \in Unit
    BY <1>2, <2>1 DEF IsRun
  <2>4. \/ u[r][1] = u[r - 1][1] /\ u[r][2] = u[r - 1][2] + 1
        \/ u[r][1] = u[r - 1][1] + 1 /\ u[r][2] = 1
    BY <2>3, After
  <2>5. u[r - 1][1] \in Nat /\ u[1][1] \in Nat /\ u[r][1] \in Nat
    BY <1>2, <1>5, <2>1
  <2>6. ASSUME NEW j \in u[1][1]..u[r][1]
        PROVE  \E q \in 1..r : u[q][1] = j /\ u[q][2] = 1
    <3>1. CASE j \in u[1][1]..u[r - 1][1]
      <4>1. PICK q \in 1..(r - 1) : u[q][1] = j /\ u[q][2] = 1
        BY <2>2, <3>1
      <4> QED BY <1>5, <4>1
    <3>2. CASE j \notin u[1][1]..u[r - 1][1]
      <4>1. u[r][1] = j /\ u[r][2] = 1
        BY <2>4, <2>5, <3>2
      <4> QED BY <1>5, <4>1
    <3> QED BY <3>1, <3>2
  <2> QED BY <1>5, <2>6
<1> QED BY <1>6, <1>7

-----------------------------------------------------------------------------
(* What one call of append cuts off, and what the loop makes of it.        *)

\* Units are cut off up to the first that is not of a good frame.
LEMMA CutOffIsLongest ==
    ASSUME NEW units \in Seq(Unit)
    PROVE  /\ CutOff(units) \in 0..Len(units)
           /\ \A p \in 1..CutOff(units) : InGoodFrame(units, p)
           /\ CutOff(units) < Len(units) => ~InGoodFrame(units, CutOff(units) + 1)
<1> DEFINE good == {n \in 0..Len(units) : \A p \in 1..n : InGoodFrame(units, p)}
<1>1. Len(units) \in Nat /\ good \in SUBSET (0..Len(units))
  OBVIOUS
<1>2. 0 \in good
  OBVIOUS
<1>3. \E most \in good : \A n \in good : n <= most
  <2> HIDE DEF good
  <2> QED BY <1>1, <1>2, GreatestNumber
<1>4. CutOff(units) \in good /\ \A n \in good : CutOff(units) >= n
  <2>1. CutOff(units) = Max(good)
    BY DEF CutOff
  <2>2. \E most \in good : \A n \in good : most >= n
    <3> HIDE DEF good
    <3>1. \A n \in good : n \in Int
      BY <1>1
    <3> QED BY <1>3, <3>1
  <2> HIDE DEF good
  <2> QED BY <2>1, <2>2 DEF Max
<1>5. ASSUME CutOff(units) < Len(units), InGoodFrame(units, CutOff(units) + 1) PROVE FALSE
  <2>1. CutOff(units) + 1 \in 0..Len(units)
    BY <1>4, <1>5
  <2>2. \A p \in 1..(CutOff(units) + 1) : p \in 1..CutOff(units) \/ p = CutOff(units) + 1
    BY <1>1, <1>4
  <2>3. CutOff(units) + 1 \in good
    BY <1>4, <1>5, <2>1, <2>2
  <2> QED BY <1>1, <1>4, <2>3
<1> QED BY <1>4, <1>5

\* Nothing is cut off a sequence that does not begin with a good frame.
LEMMA NothingCutOff ==
    ASSUME NEW units \in Seq(Unit), units = <<>> \/ ~InGoodFrame(units, 1)
    PROVE  CutOff(units) = 0
<1>1. CutOff(units) \in 0..Len(units) /\ \A p \in 1..CutOff(units) : InGoodFrame(units, p)
  BY CutOffIsLongest
<1>2. CutOff(units) # 0 => 1 \in 1..CutOff(units)
  BY <1>1
<1> QED BY <1>1, <1>2

\* Nor does one it cuts nothing off.
LEMMA NoGoodFrame ==
    ASSUME NEW units \in Seq(Unit), CutOff(units) = 0, units # <<>>
    PROVE  ~InGoodFrame(units, 1)
<1>1. Len(units) > 0
  OBVIOUS
<1> QED BY <1>1, CutOffIsLongest

\* A listing reaches each of its positions once, in order.
LEMMA ListingIsComplete ==
    ASSUME NEW cut \in Nat, NEW positions \in SUBSET (1..cut), NEW list \in Listings(positions)
    PROVE  /\ Cardinality(positions) \in Nat
           /\ list \in [1..Cardinality(positions) -> positions]
           /\ \A a, b \in 1..Cardinality(positions) : a < b => list[a] < list[b]
           /\ \A p \in positions : \E a \in 1..Cardinality(positions) : list[a] = p
<1> DEFINE m == Cardinality(positions)
<1>1. IsFiniteSet(positions)
  <2>1. IsFiniteSet(1..cut)
    BY FS_Interval
  <2> QED BY <2>1, FS_Subset
<1>2. m \in Nat
  BY <1>1, FS_CardinalityType
<1>3. /\ list \in [1..m -> positions]
      /\ \A a, b \in 1..m : a < b => list[a] < list[b]
  BY DEF Listings
<1>4. \A a \in 1..m : list[a] \in Nat /\ list[a] \in positions
  <2>1. \A a \in 1..m : list[a] \in positions
    <3> HIDE DEF m
    <3> QED BY <1>3
  <2>2. \A p \in positions : p \in Nat
    OBVIOUS
  <2> QED BY <2>1, <2>2
<1>5. list \in Injection(1..m, positions)
  <2> SUFFICES ASSUME NEW a \in 1..m, NEW b \in 1..m, list[a] = list[b] PROVE a = b
    BY <1>3 DEF Injection, IsInjective
  <2>1. ~(a < b) /\ ~(b < a)
    BY <1>3, <1>4
  <2>2. a \in Int /\ b \in Int
    BY <1>2
  <2> QED BY <2>1, <2>2
<1>6. IsFiniteSet(1..m) /\ Cardinality(1..m) = m
  BY <1>2, FS_Interval
<1>7. list \in Surjection(1..m, positions)
  <2> HIDE DEF m
  <2>1. Cardinality(1..m) = Cardinality(positions)
    BY <1>6 DEF m
  <2> QED BY <1>1, <1>5, <2>1, FS_Injection
<1> QED BY <1>2, <1>3, <1>7 DEF Surjection

\* The loop decodes the frames from the first on, all of them unless one is refused.
LEMMA LoopEndsAtRefused ==
    ASSUME NEW m \in Nat, NEW frames, frames \in [1..m -> Nat]
    PROVE  \E last \in 0..m :
              /\ DispatchLoop(frames) = [k \in 1..last |-> Dispatched(frames[k])]
              /\ last < m => last \in 1..m /\ ~Dispatched(frames[last]).ok
<1> DEFINE refused == {k \in 1..m : ~Dispatched(frames[k]).ok}
           last == IF refused = {} THEN m ELSE Min(refused)
<1>1. DOMAIN frames = 1..m /\ Len(frames) = m
  OBVIOUS
<1>2. DispatchLoop(frames) = [k \in 1..last |-> Dispatched(frames[k])]
  BY <1>1 DEF DispatchLoop
<1>3. last \in 0..m /\ (last < m => last \in refused)
  <2>1. CASE refused = {}
    BY <2>1
  <2>2. CASE refused # {}
    <3>1. refused \in SUBSET Nat
      OBVIOUS
    <3>2. \E least \in refused : \A n \in refused : least <= n
      <4> HIDE DEF refused
      <4> QED BY <2>2, <3>1, LeastNumber
    <3>3. Min(refused) \in refused
      <4> HIDE DEF refused
      <4> QED BY <3>2 DEF Min
    <3>4. last = Min(refused)
      BY <2>2
    <3> QED BY <3>3, <3>4
  <2> QED BY <2>1, <2>2
<1> QED BY <1>2, <1>3

-----------------------------------------------------------------------------
(* The steps.                                                              *)

\* While the end reads, what is coming is a run of frames there are, up to the next one.
LEMMA ComingIsRun ==
    ASSUME StreamInvariant, open
    PROVE  LET total == Len(buffer) + Len(wire) IN
           /\ total \in Nat /\ Coming \in Seq(Unit) /\ Len(Coming) = total + 1
           /\ IsRun(Coming, total + 1)
           /\ \A p \in 1..Len(buffer) : Coming[p] = buffer[p]
           /\ \A p \in 1..Len(wire) : Coming[Len(buffer) + p] = wire[p]
           /\ Coming[total + 1] = << Len(sent) + 1, 1 >>
           /\ \A p \in 1..total : Coming[p][1] \in 1..Len(sent)
           /\ Coming[1][2] = 1 /\ Coming[1][1] \in 1..(Len(sent) + 1)
<1> DEFINE total == Len(buffer) + Len(wire)
<1>1. /\ buffer \in Seq(Unit) /\ wire \in Seq(Unit) /\ sent \in Seq(Frame)
      /\ << Len(sent) + 1, 1 >> \in Unit /\ total \in Nat /\ Len(sent) \in Nat
  BY DEF StreamInvariant, StreamTypeOK, Unit
<1>2. /\ Coming \in Seq(Unit) /\ Len(Coming) = total + 1
      /\ \A p \in 1..Len(buffer) : Coming[p] = buffer[p]
      /\ \A p \in 1..Len(wire) : Coming[Len(buffer) + p] = wire[p]
      /\ Coming[total + 1] = << Len(sent) + 1, 1 >>
  BY <1>1, Joining, SMTT(30) DEF Coming
<1>3. /\ Coming[1][2] = 1
      /\ \A p \in 1..total : Coming[p + 1] = UnitAfter(Coming[p])
  BY <1>1, <1>2 DEF StreamInvariant, FramesArriveWhole, StreamIntact
<1>4. \A p \in 1..(total + 1) : Coming[p] \in Unit
  <2> HIDE DEF total
  <2> QED BY <1>1, <1>2
<1>5. IsRun(Coming, total + 1)
  BY <1>1, <1>3, <1>4 DEF IsRun
<1>6. ASSUME NEW p \in 1..total PROVE Coming[p][1] \in 1..Len(sent)
  <2>1. p \in 1..(total + 1) /\ total + 1 \in 1..(total + 1) /\ p < total + 1 /\ total + 1 \in Nat
    BY <1>1
  <2>2. \/ Coming[p][1] < Len(sent) + 1
        \/ Coming[p][2] < 1
    <3> HIDE DEF total
    <3>1. \/ Coming[p][1] < Coming[total + 1][1]
          \/ Coming[p][2] < Coming[total + 1][2]
      BY <1>5, <2>1, RunIsOrdered
    <3> QED BY <1>2, <3>1
  <2>3. Coming[p][1] \in Nat \ {0} /\ Coming[p][2] \in Nat \ {0}
    BY <1>4, <2>1 DEF Unit
  <2> QED BY <1>1, <2>2, <2>3
<1>7. Coming[1][1] \in 1..(Len(sent) + 1)
  <2>1. CASE total = 0
    BY <1>1, <1>2, <2>1
  <2>2. CASE total # 0
    <3>1. 1 \in 1..total
      BY <1>1, <2>2
    <3>2. Coming[1][1] \in 1..Len(sent)
      BY <1>6, <3>1
    <3> QED BY <1>1, <3>2
  <2> QED BY <2>1, <2>2
<1> QED BY <1>1, <1>2, <1>3, <1>5, <1>6, <1>7

\* What append cuts off such a run are good frames up to the start of one.
LEMMA CutsBetweenFrames ==
    ASSUME NEW n \in Nat, NEW u, IsRun(u, n), u[1][2] = 1,
           NEW units \in Seq(Unit), Len(units) < n, \A p \in 1..Len(units) : units[p] = u[p]
    PROVE  /\ u[CutOff(units) + 1][2] = 1
           /\ \A p \in 1..CutOff(units) : sent[u[p][1]].defect = "none"
           /\ \A i \in u[1][1]..(u[CutOff(units) + 1][1] - 1) :
                 \E q \in 1..CutOff(units) : u[q][1] = i /\ u[q][2] = 1
<1> DEFINE cut == CutOff(units)
<1>1. /\ cut \in 0..Len(units) /\ \A p \in 1..cut : InGoodFrame(units, p)
      /\ cut < Len(units) => ~InGoodFrame(units, cut + 1)
  BY CutOffIsLongest
<1> HIDE DEF cut
<1>2. Len(units) \in Nat /\ cut \in Nat /\ cut + 1 \in 1..n
  BY <1>1
<1>3. \A p \in 1..n : u[p] \in Unit
  BY DEF IsRun
<1>4. u[cut + 1][2] = 1
  <2>1. CASE cut = 0
    BY <2>1
  <2>2. CASE cut # 0
    <3> DEFINE i == u[cut][1]  k == u[cut][2]  size == FrameSize(sent[i])
    <3>1. cut \in 1..Len(units) /\ cut \in 1..n /\ cut \in 1..(n - 1) /\ units[cut] = u[cut]
      BY <1>1, <1>2, <2>2
    <3>2. /\ cut - k \in 0..(Len(units) - size)
          /\ \A l \in 1..size : units[cut - k + l] = << i, l >>
          /\ sent[i].defect = "none"
      <4>1. cut \in 1..cut
        BY <3>1
      <4>2. InGoodFrame(units, cut)
        BY <1>1, <4>1
      <4>3. i = units[cut][1] /\ k = units[cut][2]
        BY <3>1
      <4> HIDE DEF i, k
      <4> QED BY <4>2, <4>3, Zenon DEF InGoodFrame
    <3>3. u[cut + 1] = IF k < size THEN << i, k + 1 >> ELSE << i + 1, 1 >>
      BY <3>1 DEF IsRun, UnitAfter
    <3>4. k \in Nat /\ size \in Nat
      BY <1>3, <3>1, SizeIsPositive DEF Unit
    <3>5. CASE k < size
      <4> HIDE DEF i, k, size
      <4>1. k + 1 \in 1..size /\ cut - k + (k + 1) = cut + 1
        BY <1>2, <3>4, <3>5
      <4>2. units[cut + 1] = << i, k + 1 >>
        <5>1. units[cut - k + (k + 1)] = << i, k + 1 >>
          BY <3>2, <4>1
        <5> QED BY <4>1, <5>1
      <4>3. (cut + 1) - (k + 1) = cut - k
        BY <1>2, <3>4
      <4>4. InGoodFrame(units, cut + 1)
        <5>1. units[cut + 1][1] = i /\ units[cut + 1][2] = k + 1
          BY <4>2
        <5>2. (cut + 1) - units[cut + 1][2] = cut - k
          BY <4>3, <5>1
        <5>3. FrameSize(sent[units[cut + 1][1]]) = size
          BY <5>1 DEF size
        <5> HIDE DEF cut
        <5>4. (cut + 1) - units[cut + 1][2] \in 0..(Len(units) - FrameSize(sent[units[cut + 1][1]]))
          BY <3>2, <5>2, <5>3
        <5>5. \A l \in 1..FrameSize(sent[units[cut + 1][1]]) :
                units[(cut + 1) - units[cut + 1][2] + l] = << units[cut + 1][1], l >>
          BY <3>2, <5>1, <5>2, <5>3
        <5>6. sent[units[cut + 1][1]].defect = "none"
          BY <3>2, <5>1
        <5> QED BY <5>4, <5>5, <5>6 DEF InGoodFrame
      <4>5. cut < Len(units)
        <5>1. cut - k + size <= Len(units)
          BY <1>2, <3>2, <3>4
        <5> QED BY <1>2, <3>4, <3>5, <5>1
      <4> QED BY <1>1, <4>4, <4>5
    <3> QED BY <3>3, <3>5
  <2> QED BY <2>1, <2>2
<1>5. ASSUME NEW p \in 1..cut PROVE sent[u[p][1]].defect = "none"
  <2>1. p \in 1..Len(units)
    BY <1>1, <1>2
  <2> QED BY <1>1, <2>1 DEF InGoodFrame
<1>6. ASSUME NEW i \in u[1][1]..(u[cut + 1][1] - 1)
      PROVE  \E q \in 1..cut : u[q][1] = i /\ u[q][2] = 1
  <2>1. u[1][1] \in Nat /\ u[cut + 1][1] \in Nat
    <3>1. 1 \in 1..n
      BY <1>2
    <3> QED BY <1>2, <1>3, <3>1 DEF Unit
  <2>2. i \in u[1][1]..u[cut + 1][1] /\ i # u[cut + 1][1]
    BY <2>1
  <2>3. PICK q \in 1..(cut + 1) : u[q][1] = i /\ u[q][2] = 1
    BY <1>2, <2>2, RunCovers
  <2>4. q \in 1..cut
    BY <1>2, <2>2, <2>3
  <2> QED BY <2>3, <2>4
<1> QED BY <1>4, <1>5, <1>6 DEF cut

\* And it leaves no good frame at the front.
LEMMA RestHoldsNoFrame ==
    ASSUME NEW units \in Seq(Unit)
    PROVE  CutOff(SubSeq(units, CutOff(units) + 1, Len(units))) = 0
<1> DEFINE cut == CutOff(units)
           rest == SubSeq(units, cut + 1, Len(units))
<1>1. cut \in 0..Len(units) /\ (cut < Len(units) => ~InGoodFrame(units, cut + 1))
  BY CutOffIsLongest
<1>2. /\ rest \in Seq(Unit) /\ Len(rest) = Len(units) - cut
      /\ \A p \in 1..(Len(units) - cut) : rest[p] = units[cut + p]
  <2> HIDE DEF cut
  <2> QED BY <1>1, Suffix
<1> HIDE DEF cut, rest
<1>3. ASSUME rest # <<>>, InGoodFrame(rest, 1) PROVE FALSE
  <2> DEFINE i == rest[1][1]  k == rest[1][2]  size == FrameSize(sent[i])
  <2>1. Len(rest) \in Nat \ {0} /\ Len(units) \in Nat /\ cut \in Nat
    BY <1>1, <1>2, <1>3
  <2>2. rest[1] \in Unit /\ rest[1] = units[cut + 1]
    <3>1. 1 \in 1..Len(rest)
      BY <2>1
    <3> QED BY <1>2, <3>1
  <2>3. k \in Nat /\ k # 0 /\ size \in Nat
    BY <2>2, SizeIsPositive DEF Unit
  <2>4. /\ 1 - k \in 0..(Len(rest) - size)
        /\ \A l \in 1..size : rest[1 - k + l] = << i, l >>
        /\ sent[i].defect = "none"
    BY <1>3 DEF InGoodFrame
  <2> HIDE DEF k, size, i
  <2>5. k = 1 /\ size <= Len(units) - cut
    BY <1>2, <2>1, <2>3, <2>4
  <2>6. \A l \in 1..size : units[cut + l] = << i, l >>
    <3> SUFFICES ASSUME NEW l \in 1..size PROVE units[cut + l] = << i, l >>
      OBVIOUS
    <3>1. 1 - k + l = l /\ l \in 1..(Len(units) - cut)
      BY <2>1, <2>3, <2>5
    <3>2. rest[l] = << i, l >>
      BY <2>4, <3>1
    <3> QED BY <1>2, <3>1, <3>2
  <2>7. units[cut + 1][1] = i /\ units[cut + 1][2] = 1
    BY <2>2, <2>5 DEF i, k
  <2>8. (cut + 1) - units[cut + 1][2] = cut /\ cut \in 0..(Len(units) - size)
    BY <2>1, <2>3, <2>5, <2>7
  <2>9. FrameSize(sent[units[cut + 1][1]]) = size
    BY <2>7 DEF size
  <2>10. InGoodFrame(units, cut + 1)
    BY <2>4, <2>6, <2>7, <2>8, <2>9 DEF InGoodFrame
  <2>11. cut < Len(units)
    BY <1>2, <2>1
  <2> QED BY <1>1, <2>10, <2>11
<1> QED BY <1>2, <1>3, NothingCutOff DEF rest, cut

\* The first connection.
LEMMA StreamStart == StreamInit => StreamInvariant
<1> SUFFICES ASSUME StreamInit PROVE StreamInvariant
  OBVIOUS
<1>1. StreamTypeOK /\ RecordsAreOfFrames
  BY DEF StreamInit, StreamTypeOK, RecordsAreOfFrames
<1>2. Coming = << << 1, 1 >> >>
  BY DEF StreamInit, Coming
<1>3. CutOff(buffer) = 0
  <2>1. buffer \in Seq(Unit) /\ buffer = <<>>
    BY DEF StreamInit
  <2> QED BY <2>1, NothingCutOff
<1>4. StreamIntact
  BY <1>2, <1>3 DEF StreamIntact
<1>5. NonePassedOver /\ DispatchedInOrder /\ GoodSoFar
  BY <1>2 DEF StreamInit, NonePassedOver, DispatchedInOrder, GoodSoFar
<1> QED BY <1>1, <1>4, <1>5 DEF StreamInvariant, FramesArriveWhole

\* What is on record of earlier connections does not mix with what is on record of the next.
LEMMA ReconnectKeeps == ASSUME StreamInvariant, Reconnect PROVE StreamInvariant'
<1>1. /\ connection' = connection + 1 /\ wire' = <<>> /\ buffer' = <<>> /\ open' = TRUE
      /\ sent' = sent /\ dispatched' = dispatched
      /\ connection \in Nat /\ sent \in Seq(Frame) /\ dispatched \in Seq(Answer)
  BY DEF Reconnect, StreamInvariant, StreamTypeOK
<1>2. \A i \in 1..Len(sent) : sent[i].connection \in Nat /\ sent[i].connection < connection'
  <2> SUFFICES ASSUME NEW i \in 1..Len(sent)
               PROVE  sent[i].connection \in Nat /\ sent[i].connection < connection'
    OBVIOUS
  <2>1. sent[i] \in Frame
    BY <1>1
  <2>2. sent[i].connection \in Nat /\ sent[i].connection <= connection
    BY <2>1 DEF Frame, StreamInvariant, RecordsAreOfFrames
  <2> QED BY <1>1, <2>2
<1>3. StreamTypeOK' /\ RecordsAreOfFrames'
  BY <1>1, <1>2 DEF StreamTypeOK, RecordsAreOfFrames, StreamInvariant
<1>4. Coming' = << << Len(sent) + 1, 1 >> >>
  BY <1>1 DEF Coming
<1>5. CutOff(buffer)' = 0
  <2> DEFINE good == {n \in 0..Len(buffer) : \A p \in 1..n : InGoodFrame(buffer, p)}
  <2>1. CutOff(buffer)' = Max(good')
    BY DEF CutOff
  <2>2. good' = {0}
    BY <1>1
  <2>3. Max({0}) = 0
    BY DEF Max
  <2> HIDE DEF good
  <2> QED BY <2>1, <2>2, <2>3
<1>6. StreamIntact'
  BY <1>4, <1>5 DEF StreamIntact
<1>7. \A i \in 1..Len(sent) : sent'[i].connection # connection'
  BY <1>1, <1>2
<1>8. NonePassedOver' /\ GoodSoFar'
  <2>1. \A d \in DOMAIN dispatched : dispatched[d].frame \in 1..Len(sent)
    BY <1>1 DEF StreamInvariant, RecordsAreOfFrames
  <2>2. Coming'[1][1] = Len(sent) + 1 /\ Len(sent) \in Nat
    BY <1>1, <1>4
  <2> QED BY <1>1, <1>7, <2>1, <2>2 DEF NonePassedOver, GoodSoFar
<1>9. DispatchedInOrder'
  BY <1>1 DEF DispatchedInOrder, StreamInvariant, FramesArriveWhole
<1> QED BY <1>3, <1>6, <1>8, <1>9 DEF StreamInvariant, FramesArriveWhole

\* Writing a frame goes on where the last one ended.
LEMMA WriteKeeps ==
    ASSUME StreamInvariant, NEW message \in Messages, NEW defect \in Defects,
           WriteFrame(message, defect)
    PROVE  StreamInvariant'
<1> DEFINE frame == [type |-> message.type, value |-> message.value,
                     body |-> Encoded(message), defect |-> defect, connection |-> connection]
           last == Len(sent)
           size == FrameSize(frame)
           total == Len(buffer) + Len(wire)
<1>1. /\ open /\ open' = open /\ buffer' = buffer /\ dispatched' = dispatched
      /\ connection' = connection
      /\ sent' = Append(sent, frame) /\ wire' = wire \o FrameUnits(Len(sent'), frame)
  BY DEF WriteFrame
<1>2. /\ sent \in Seq(Frame) /\ wire \in Seq(Unit) /\ buffer \in Seq(Unit)
      /\ dispatched \in Seq(Answer) /\ connection \in Nat
  BY DEF StreamInvariant, StreamTypeOK
<1>3. frame \in Frame
  BY <1>2 DEF Frame, TypesSent, BodiesSent
<1> HIDE DEF frame
<1>4. /\ last \in Nat /\ sent' \in Seq(Frame) /\ Len(sent') = last + 1
      /\ sent'[last + 1] = frame /\ \A i \in 1..last : sent'[i] = sent[i]
  BY <1>1, <1>2, <1>3
<1>5. size \in Nat /\ size > 0
  BY SizeIsPositive
<1> HIDE DEF size, last
<1> DEFINE new == FrameUnits(last + 1, frame)
<1>6. /\ new \in Seq(Unit) /\ Len(new) = size
      /\ \A k \in 1..size : new[k] = << last + 1, k >>
  <2>1. new = [k \in 1..size |-> << last + 1, k >>]
    BY DEF FrameUnits, size
  <2>2. \A k \in 1..size : << last + 1, k >> \in Unit
    BY <1>4 DEF Unit
  <2> HIDE DEF new
  <2> QED BY <1>5, <2>1, <2>2
<1> HIDE DEF new
<1>7. /\ wire' \in Seq(Unit) /\ Len(wire') = Len(wire) + size
      /\ \A p \in 1..Len(wire) : wire'[p] = wire[p]
      /\ \A k \in 1..size : wire'[Len(wire) + k] = << last + 1, k >>
  <2>1. wire' = wire \o new
    BY <1>1, <1>4 DEF new
  <2>2. /\ wire \o new \in Seq(Unit) /\ Len(wire \o new) = Len(wire) + size
        /\ \A p \in 1..Len(wire) : (wire \o new)[p] = wire[p]
        /\ \A k \in 1..size : (wire \o new)[Len(wire) + k] = new[k]
    <3>1. wire \in Seq(Unit) /\ new \in Seq(Unit)
      BY <1>2, <1>6
    <3>2. /\ wire \o new \in Seq(Unit) /\ Len(wire \o new) = Len(wire) + Len(new)
          /\ \A p \in 1..Len(wire) : (wire \o new)[p] = wire[p]
          /\ \A k \in 1..Len(new) : (wire \o new)[Len(wire) + k] = new[k]
      BY ONLY <3>1, Concatenation
    <3>3. Len(new) = size
      BY <1>6
    <3> QED BY ONLY <3>2, <3>3
  <2> QED BY <1>6, <2>1, <2>2
<1>8. StreamTypeOK'
  BY <1>1, <1>2, <1>4, <1>7 DEF StreamTypeOK, StreamInvariant
<1>9. frame.connection = connection
  BY DEF frame
<1>10. RecordsAreOfFrames'
  <2>1. \A i \in 1..Len(sent') : i \in 1..last \/ i = last + 1
    BY <1>4
  <2>2. \A i \in 1..Len(sent') : sent'[i].connection <= connection
    <3> SUFFICES ASSUME NEW i \in 1..Len(sent') PROVE sent'[i].connection <= connection
      OBVIOUS
    <3>1. CASE i = last + 1
      BY <1>2, <1>4, <1>9, <3>1
    <3>2. CASE i \in 1..last
      <4>1. sent[i].connection <= connection
        BY <3>2 DEF StreamInvariant, RecordsAreOfFrames, last
      <4> QED BY <1>4, <3>2, <4>1
    <3> QED BY <2>1, <3>1, <3>2
  <2>3. \A d \in 1..Len(dispatched) : dispatched[d].frame \in 1..last
    BY DEF StreamInvariant, RecordsAreOfFrames, last
  <2>4. \A d \in 1..Len(dispatched) : dispatched[d].frame \in 1..Len(sent')
    BY <1>4, <2>3
  <2> QED BY <1>1, <2>2, <2>4 DEF RecordsAreOfFrames
<1>11. /\ total \in Nat /\ Len(Coming) = total + 1 /\ Coming \in Seq(Unit)
       /\ \A p \in 1..Len(buffer) : Coming[p] = buffer[p]
       /\ \A p \in 1..Len(wire) : Coming[Len(buffer) + p] = wire[p]
       /\ Coming[total + 1] = << last + 1, 1 >>
       /\ \A p \in 1..total : Coming[p][1] \in 1..last
       /\ Coming[1][2] = 1 /\ Coming[1][1] \in 1..(last + 1)
  BY <1>1, ComingIsRun DEF last
<1>12. /\ Len(Coming') = total + size + 1
       /\ \A p \in 1..Len(buffer) : Coming'[p] = buffer[p]
       /\ \A p \in 1..Len(wire') : Coming'[Len(buffer) + p] = wire'[p]
       /\ Coming'[total + size + 1] = << last + 2, 1 >>
  <2>1. << last + 2, 1 >> \in Unit
    BY <1>4 DEF Unit
  <2>2. Coming' = Append(buffer \o wire', << last + 2, 1 >>)
    BY <1>1, <1>4 DEF Coming
  <2>3. Len(buffer) + Len(wire') = total + size
    BY <1>2, <1>5, <1>7
  <2>4. /\ buffer \in Seq(Unit) /\ wire' \in Seq(Unit)
        /\ (Len(buffer) + Len(wire')) + 1 = total + size + 1
    BY <1>2, <1>7, <2>3
  <2>5. LET all == Append(buffer \o wire', << last + 2, 1 >>) IN
        /\ Len(all) = Len(buffer) + Len(wire') + 1
        /\ \A p \in 1..Len(buffer) : all[p] = buffer[p]
        /\ \A p \in 1..Len(wire') : all[Len(buffer) + p] = wire'[p]
        /\ all[Len(buffer) + Len(wire') + 1] = << last + 2, 1 >>
    BY ONLY <2>1, <2>4, Joining
  <2> QED BY ONLY <2>2, <2>3, <2>4, <2>5
<1>13. \A p \in 1..total : Coming'[p] = Coming[p]
  <2> SUFFICES ASSUME NEW p \in 1..total PROVE Coming'[p] = Coming[p]
    OBVIOUS
  <2>1. Len(buffer) \in Nat /\ Len(wire) \in Nat
    BY <1>2
  <2>2. CASE p \in 1..Len(buffer)
    BY <1>11, <1>12, <2>2
  <2>3. CASE p \notin 1..Len(buffer)
    <3>1. p - Len(buffer) \in 1..Len(wire) /\ Len(buffer) + (p - Len(buffer)) = p
      BY <2>1, <2>3
    <3>2. p - Len(buffer) \in 1..Len(wire')
      BY <1>5, <1>7, <2>1, <3>1
    <3> QED BY <1>7, <1>11, <1>12, <3>1, <3>2
  <2> QED BY <2>2, <2>3
<1>14. \A k \in 1..size : Coming'[total + k] = << last + 1, k >>
  <2> SUFFICES ASSUME NEW k \in 1..size PROVE Coming'[total + k] = << last + 1, k >>
    OBVIOUS
  <2>1. Len(wire) + k \in 1..Len(wire') /\ Len(buffer) + (Len(wire) + k) = total + k
    BY <1>2, <1>5, <1>7
  <2> QED BY <1>7, <1>12, <2>1
<1>15. \A p \in 1..(total + 1) : Coming'[p] = Coming[p]
  <2>1. 1 \in 1..size /\ \A p \in 1..(total + 1) : p \in 1..total \/ p = total + 1
    BY <1>5, <1>11
  <2>2. Coming'[total + 1] = << last + 1, 1 >>
    BY <1>14, <2>1
  <2> QED BY <1>11, <1>13, <2>1, <2>2
<1>16. \A i \in 1..last : FrameSize(sent'[i]) = FrameSize(sent[i])
  BY <1>4
<1>17. ASSUME NEW p \in 1..(Len(Coming') - 1)
       PROVE  /\ Coming'[p + 1] = IF Coming'[p][2] < FrameSize(sent'[Coming'[p][1]])
                                  THEN << Coming'[p][1], Coming'[p][2] + 1 >>
                                  ELSE << Coming'[p][1] + 1, 1 >>
              /\ sent'[Coming'[p][1]].connection = connection
  <2>1. CASE p \in 1..total
    <3>1. p \in 1..(total + 1) /\ p + 1 \in 1..(total + 1) /\ Coming[p][1] \in 1..last
      BY <1>11, <2>1
    <3>2. Coming[p + 1] = UnitAfter(Coming[p]) /\ sent[Coming[p][1]].connection = connection
      BY <1>1, <1>11, <2>1, SMTT(30) DEF StreamInvariant, FramesArriveWhole, StreamIntact
    <3>3. Coming'[p] = Coming[p] /\ Coming'[p + 1] = Coming[p + 1]
      BY <1>15, <3>1
    <3>4. FrameSize(sent'[Coming[p][1]]) = FrameSize(sent[Coming[p][1]])
      BY <1>16, <3>1
    <3>5. Coming'[p + 1] = IF Coming'[p][2] < FrameSize(sent'[Coming'[p][1]])
                           THEN << Coming'[p][1], Coming'[p][2] + 1 >>
                           ELSE << Coming'[p][1] + 1, 1 >>
      BY <3>2, <3>3, <3>4 DEF UnitAfter
    <3>6. sent'[Coming'[p][1]].connection = connection
      BY <1>4, <3>1, <3>2, <3>3
    <3> QED BY <3>5, <3>6
  <2>2. CASE p \notin 1..total
    <3> DEFINE k == p - total
    <3>1. k \in 1..size /\ total + k = p /\ total + (k + 1) = p + 1
      BY <1>5, <1>11, <1>12, <2>2
    <3> HIDE DEF k
    <3>2. Coming'[p] = << last + 1, k >>
      BY <1>14, <3>1
    <3>3. FrameSize(sent'[last + 1]) = size
      BY <1>4 DEF size
    <3>4. Coming'[p + 1] = IF k < size THEN << last + 1, k + 1 >> ELSE << last + 2, 1 >>
      <4>1. CASE k < size
        <5>1. k + 1 \in 1..size
          BY <1>5, <3>1, <4>1
        <5> QED BY <1>14, <3>1, <4>1, <5>1
      <4>2. CASE ~(k < size)
        <5>1. p + 1 = total + size + 1
          BY <1>5, <1>11, <3>1, <4>2
        <5> QED BY <1>12, <4>2, <5>1
      <4> QED BY <4>1, <4>2
    <3>5. (last + 1) + 1 = last + 2
      BY <1>4
    <3>6. Coming'[p][1] = last + 1 /\ Coming'[p][2] = k
      BY <3>2
    <3>7. Coming'[p + 1] = IF Coming'[p][2] < FrameSize(sent'[Coming'[p][1]])
                           THEN << Coming'[p][1], Coming'[p][2] + 1 >>
                           ELSE << Coming'[p][1] + 1, 1 >>
      BY <3>3, <3>4, <3>5, <3>6
    <3>8. sent'[Coming'[p][1]].connection = connection
      BY <1>4, <1>9, <3>6
    <3> QED BY <3>7, <3>8
  <2> QED BY <2>1, <2>2
<1>18. Coming'[1] = Coming[1]
  <2>1. 1 \in 1..(total + 1)
    BY <1>11
  <2> QED BY <1>15, <2>1
<1>19. CutOff(buffer)' = 0
  <2> DEFINE good == {n \in 0..Len(buffer) : \A p \in 1..n : InGoodFrame(buffer, p)}
  <2>1. ASSUME NEW p \in 1..Len(buffer) PROVE InGoodFrame(buffer, p)' <=> InGoodFrame(buffer, p)
    <3>1. p \in 1..total
      BY <1>2
    <3>2. buffer[p][1] \in 1..last
      BY <1>11, <3>1
    <3>3. sent'[buffer[p][1]] = sent[buffer[p][1]]
      BY <1>4, <3>2
    <3> QED BY <1>1, <3>3 DEF InGoodFrame
  <2>2. good' = good
    <3>1. \A n \in 0..Len(buffer) : \A p \in 1..n : p \in 1..Len(buffer)
      BY <1>2
    <3> QED BY <1>1, <2>1, <3>1
  <2>3. CutOff(buffer) = Max(good)
    BY DEF CutOff
  <2>4. CutOff(buffer)' = Max(good')
    BY DEF CutOff
  <2> HIDE DEF good
  <2>5. CutOff(buffer) = 0
    BY <1>1 DEF StreamInvariant, FramesArriveWhole, StreamIntact
  <2> QED BY <2>2, <2>3, <2>4, <2>5
<1>20. StreamIntact'
  <2>1. Coming'[1][2] = 1
    BY <1>11, <1>18
  <2>2. \A p \in 1..(Len(Coming') - 1) : Coming'[p + 1] = UnitAfter(Coming[p])'
    BY <1>17, Zenon DEF UnitAfter
  <2>3. \A p \in 1..(Len(Coming') - 1) : sent'[Coming'[p][1]].connection = connection'
    BY <1>1, <1>17
  <2> QED BY <1>19, <2>1, <2>2, <2>3 DEF StreamIntact
<1>21. \A i \in 1..(Coming[1][1] - 1) : i \in 1..last
  BY <1>4, <1>11
<1>22. \A d \in DOMAIN dispatched : dispatched[d].frame \in 1..last
  BY <1>2 DEF StreamInvariant, RecordsAreOfFrames, last
<1>23. NonePassedOver'
  <2>1. \A d \in DOMAIN dispatched : dispatched[d].frame < Coming[1][1]
    BY <1>1 DEF StreamInvariant, FramesArriveWhole, NonePassedOver
  <2>2. ASSUME NEW i \in 1..(Coming[1][1] - 1), sent'[i].connection = connection
        PROVE  \E d \in DOMAIN dispatched :
                  \/ dispatched[d].frame = i
                  \/ dispatched[d].frame < i /\ sent'[dispatched[d].frame].connection = connection
                        /\ ~dispatched[d].ok
    <3>1. sent[i].connection = connection
      BY <1>4, <1>21, <2>2
    <3>2. PICK d \in DOMAIN dispatched :
             \/ dispatched[d].frame = i
             \/ dispatched[d].frame < i /\ sent[dispatched[d].frame].connection = connection
                   /\ ~dispatched[d].ok
      BY <1>1, <3>1 DEF StreamInvariant, FramesArriveWhole, NonePassedOver
    <3> QED BY <1>4, <1>22, <3>2
  <2> QED BY <1>1, <1>18, <2>1, <2>2 DEF NonePassedOver
<1>24. GoodSoFar'
  BY <1>1, <1>4, <1>18, <1>21 DEF GoodSoFar, StreamInvariant
<1>25. DispatchedInOrder'
  <2>1. ASSUME NEW d \in DOMAIN dispatched, NEW i \in 1..(dispatched[d].frame - 1)
        PROVE  i \in 1..last
    BY <1>4, <1>22
  <2>2. DispatchedInOrder
    BY DEF StreamInvariant, FramesArriveWhole
  <2>3. \A d \in DOMAIN dispatched : sent'[dispatched[d].frame] = sent[dispatched[d].frame]
    BY <1>4, <1>22
  <2>4. \A d \in DOMAIN dispatched : \A i \in 1..(dispatched[d].frame - 1) : sent'[i] = sent[i]
    BY <1>4, <2>1
  <2>5. ASSUME NEW d \in DOMAIN dispatched
        PROVE  /\ sent'[dispatched[d].frame].defect = "none"
               /\ \A e \in 1..(d - 1) : dispatched[e].frame < dispatched[d].frame
               /\ \A i \in 1..(dispatched[d].frame - 1) :
                     sent'[i].connection = sent'[dispatched[d].frame].connection
                        => sent'[i].defect = "none"
    <3>1. sent'[dispatched[d].frame] = sent[dispatched[d].frame]
      BY <2>3
    <3>2. \A i \in 1..(dispatched[d].frame - 1) : sent'[i] = sent[i]
      BY <2>4
    <3> QED BY <2>2, <3>1, <3>2 DEF DispatchedInOrder
  <2> QED BY <1>1, <2>5, Zenon DEF DispatchedInOrder
<1> QED BY <1>8, <1>10, <1>20, <1>23, <1>24, <1>25 DEF StreamInvariant, FramesArriveWhole

\* These answers are of the frames whose starts were cut off, in order, of all of them
\* unless one is refused.
AnswerTheStarts(answers, u, starts) ==
    /\ answers \in Seq(Answer)
    /\ \A k \in 1..Len(answers) : \E p \in starts : answers[k].frame = u[p][1]
    /\ \A k, l \in 1..Len(answers) : k < l =>
          \E p, q \in starts : p < q /\ answers[k].frame = u[p][1] /\ answers[l].frame = u[q][1]
    /\ \A p \in starts :
          \/ \E k \in 1..Len(answers) : answers[k].frame = u[p][1]
          \/ \E k \in 1..Len(answers), q \in starts :
                q < p /\ answers[k].frame = u[q][1] /\ ~answers[k].ok
    /\ starts = {} => answers = <<>>

\* That is what one call of readAvailable appends.
LEMMA AnswersAreOfStarts ==
    ASSUME StreamTypeOK, NEW cut \in Nat, NEW u, NEW starts \in SUBSET (1..cut),
           \A p \in starts : u[p][1] \in 1..Len(sent),
           NEW list \in Listings(starts)
    PROVE  AnswerTheStarts(DispatchLoop([k \in DOMAIN list |-> u[list[k]][1]]), u, starts)
<1> DEFINE m == Cardinality(starts)
           frames == [k \in DOMAIN list |-> u[list[k]][1]]
           answers == DispatchLoop(frames)
<1>1. /\ m \in Nat /\ list \in [1..m -> starts]
      /\ \A a, b \in 1..m : a < b => list[a] < list[b]
      /\ \A p \in starts : \E a \in 1..m : list[a] = p
  BY ListingIsComplete
<1>2. starts = {} => m = 0
  BY FS_EmptySet
<1> HIDE DEF m
<1>3. /\ DOMAIN list = 1..m /\ \A a \in 1..m : list[a] \in starts
      /\ \A a \in 1..m : u[list[a]][1] \in 1..Len(sent)
  BY <1>1
<1>4. frames \in [1..m -> Nat] /\ \A a \in 1..m : frames[a] = u[list[a]][1]
  <2>1. \A a \in 1..m : u[list[a]][1] \in Nat
    BY <1>3
  <2> QED BY <1>3, <2>1
<1> HIDE DEF frames
<1>5. PICK last \in 0..m :
         /\ answers = [k \in 1..last |-> Dispatched(frames[k])]
         /\ last < m => last \in 1..m /\ ~Dispatched(frames[last]).ok
  BY <1>1, <1>4, LoopEndsAtRefused
<1> HIDE DEF answers
<1>6. last \in Nat /\ last <= m /\ DOMAIN answers = 1..last
  BY <1>1, <1>5
<1>7. ASSUME NEW k \in 1..last PROVE k \in 1..m /\ answers[k] = Dispatched(frames[k])
  BY <1>1, <1>5, <1>6
<1>8. ASSUME NEW k \in 1..last
      PROVE  answers[k] \in Answer /\ answers[k].frame = u[list[k]][1]
  <2> DEFINE i == frames[k]
  <2>1. i \in 1..Len(sent) /\ i = u[list[k]][1] /\ answers[k] = Dispatched(i)
    BY <1>3, <1>4, <1>7
  <2> HIDE DEF i
  <2>2. sent[i] \in Frame
    BY <2>1 DEF StreamTypeOK
  <2>3. sent[i].type \in TypesSent /\ sent[i].body \in BodiesSent /\ i \in Nat
    BY <2>1, <2>2 DEF Frame
  <2>4. /\ Decoded(sent[i].type, sent[i].body).ok
              \in {Decoded(type, body).ok : type \in TypesSent, body \in BodiesSent}
        /\ Decoded(sent[i].type, sent[i].body).value
              \in {Decoded(type, body).value : type \in TypesSent, body \in BodiesSent}
    BY <2>3
  <2> DEFINE read == Decoded(sent[i].type, sent[i].body)
             Oks == {Decoded(type, body).ok : type \in TypesSent, body \in BodiesSent}
             Values == {Decoded(type, body).value : type \in TypesSent, body \in BodiesSent}
  <2>5. answers[k] = [frame |-> i, ok |-> read.ok, value |-> read.value]
    BY <2>1 DEF Dispatched
  <2>6. read.ok \in Oks /\ read.value \in Values
    BY <2>4
  <2>7. Answer = [frame : Nat, ok : Oks, value : Values]
    BY DEF Answer
  <2> HIDE DEF read, Oks, Values
  <2> QED BY <2>1, <2>3, <2>5, <2>6, <2>7
<1>9. answers \in Seq(Answer) /\ Len(answers) = last
  <2>1. answers = [k \in 1..last |-> answers[k]]
    BY <1>5
  <2> QED BY <1>6, <1>8, <2>1
<1>10. \A k \in 1..last : list[k] \in starts /\ answers[k].frame = u[list[k]][1]
  BY <1>3, <1>7, <1>8
<1>11. ASSUME NEW k \in 1..last, NEW l \in 1..last, k < l PROVE list[k] < list[l]
  BY <1>1, <1>7, <1>11
<1>12. ASSUME NEW p \in starts
       PROVE  \/ \E k \in 1..last : answers[k].frame = u[p][1]
              \/ \E k \in 1..last, q \in starts :
                    q < p /\ answers[k].frame = u[q][1] /\ ~answers[k].ok
  <2>1. PICK a \in 1..m : list[a] = p
    BY <1>1
  <2>2. CASE a \in 1..last
    BY <1>10, <2>1, <2>2
  <2>3. CASE a \notin 1..last
    <3>1. last < m /\ last < a
      BY <1>1, <1>6, <2>1, <2>3
    <3>2. last \in 1..m /\ last \in 1..last /\ ~Dispatched(frames[last]).ok
      BY <1>5, <1>6, <3>1
    <3>3. list[last] < p /\ ~answers[last].ok
      BY <1>1, <1>7, <2>1, <3>1, <3>2
    <3> QED BY <1>10, <3>2, <3>3
  <2> QED BY <2>2, <2>3
<1>13. starts = {} => answers = <<>>
  <2>1. starts = {} => last = 0
    BY <1>2, <1>6
  <2> QED BY <1>9, <2>1
<1>14. ASSUME NEW k \in 1..last, NEW l \in 1..last, k < l
       PROVE  \E p, q \in starts : p < q /\ answers[k].frame = u[p][1] /\ answers[l].frame = u[q][1]
  BY <1>10, <1>11, <1>14
<1>15. \A k \in 1..last : \E p \in starts : answers[k].frame = u[p][1]
  BY <1>10
<1>16. AnswerTheStarts(answers, u, starts)
  BY <1>9, <1>12, <1>13, <1>14, <1>15 DEF AnswerTheStarts
<1> QED BY <1>16 DEF answers, frames

\* A read takes whole frames off the front and leaves the rest as it came.
LEMMA ReadKeeps ==
    ASSUME StreamInvariant, NEW n \in 1..Len(wire), readAvailable(n)
    PROVE  StreamInvariant'
<1> DEFINE units == buffer \o SubSeq(wire, 1, n)
           cut == CutOff(units)
           rest == SubSeq(units, cut + 1, Len(units))
           accepted == ~HeaderRefused(rest) /\ ~BodyRefused(rest)
           starts == {p \in 1..cut : accepted /\ units[p][2] = 1}
           Answers(list) == DispatchLoop([k \in DOMAIN list |-> units[list[k]][1]])
           total == Len(buffer) + Len(wire)
           held == Len(buffer) + n
           u == Coming
<1>1. /\ open /\ sent' = sent /\ connection' = connection
      /\ wire' = SubSeq(wire, n + 1, Len(wire))
      /\ buffer' = IF BodyRefused(rest) THEN <<>> ELSE rest
      /\ \E list \in Listings(starts) : \E allowed \in 0..Len(Answers(list)) :
            /\ dispatched' = dispatched \o SubSeq(Answers(list), 1, allowed)
            /\ open' = (accepted /\ allowed = Len(Answers(list)))
  BY DEF readAvailable
<1> HIDE DEF units, cut, rest, accepted, starts, Answers, total, held, u
<1>3. /\ StreamTypeOK /\ sent \in Seq(Frame) /\ wire \in Seq(Unit) /\ buffer \in Seq(Unit)
      /\ dispatched \in Seq(Answer) /\ connection \in Nat /\ Len(sent) \in Nat
      /\ Len(wire) \in Nat /\ Len(buffer) \in Nat /\ Len(dispatched) \in Nat /\ n \in Nat
  BY DEF StreamInvariant, StreamTypeOK
<1>4. /\ total \in Nat /\ Len(u) = total + 1 /\ u \in Seq(Unit) /\ IsRun(u, total + 1)
      /\ \A p \in 1..Len(buffer) : u[p] = buffer[p]
      /\ \A p \in 1..Len(wire) : u[Len(buffer) + p] = wire[p]
      /\ u[total + 1] = << Len(sent) + 1, 1 >>
      /\ \A p \in 1..total : u[p][1] \in 1..Len(sent)
      /\ u[1][2] = 1 /\ u[1][1] \in 1..(Len(sent) + 1)
  BY <1>1, ComingIsRun DEF total, u
<1>5. /\ units \in Seq(Unit) /\ Len(units) = held
      /\ \A p \in 1..held : units[p] = u[p]
  <2> DEFINE taken == SubSeq(wire, 1, n)
  <2>1. /\ taken \in Seq(Unit) /\ Len(taken) = n
        /\ \A p \in 1..n : taken[p] = wire[p]
    BY <1>3
  <2> HIDE DEF taken
  <2>2. /\ buffer \o taken \in Seq(Unit) /\ Len(buffer \o taken) = held
        /\ \A p \in 1..Len(buffer) : (buffer \o taken)[p] = buffer[p]
        /\ \A p \in 1..n : (buffer \o taken)[Len(buffer) + p] = taken[p]
    <3>1. /\ buffer \o taken \in Seq(Unit) /\ Len(buffer \o taken) = Len(buffer) + Len(taken)
          /\ \A p \in 1..Len(buffer) : (buffer \o taken)[p] = buffer[p]
          /\ \A p \in 1..Len(taken) : (buffer \o taken)[Len(buffer) + p] = taken[p]
      <4>1. buffer \in Seq(Unit) /\ taken \in Seq(Unit)
        BY <1>3, <2>1
      <4> QED BY ONLY <4>1, Concatenation
    <3> QED BY <2>1, <3>1 DEF held
  <2>3. ASSUME NEW p \in 1..held PROVE (buffer \o taken)[p] = u[p]
    <3>1. CASE p \in 1..Len(buffer)
      BY <1>4, <2>2, <3>1
    <3>2. CASE p \notin 1..Len(buffer)
      <4> DEFINE q == p - Len(buffer)
      <4>1. q \in 1..n /\ q \in 1..Len(wire) /\ Len(buffer) + q = p
        BY <1>3, <3>2 DEF held
      <4> HIDE DEF q
      <4>2. (buffer \o taken)[Len(buffer) + q] = wire[q]
        BY <2>1, <2>2, <4>1
      <4>3. u[Len(buffer) + q] = wire[q]
        BY <1>4, <4>1
      <4> QED BY <4>1, <4>2, <4>3
    <3> QED BY <3>1, <3>2
  <2> QED BY <2>2, <2>3 DEF taken, units
<1>6. held \in Nat /\ held < total + 1 /\ held <= total
  BY <1>3 DEF held, total
<1>7. cut \in 0..held
  BY <1>5, CutOffIsLongest DEF cut
<1>8. /\ u[cut + 1][2] = 1
      /\ \A p \in 1..cut : sent[u[p][1]].defect = "none"
      /\ \A i \in u[1][1]..(u[cut + 1][1] - 1) :
            \E q \in 1..cut : u[q][1] = i /\ u[q][2] = 1
  <2>1. /\ total + 1 \in Nat /\ Len(units) < total + 1
        /\ \A p \in 1..Len(units) : units[p] = u[p]
        /\ units \in Seq(Unit) /\ IsRun(u, total + 1) /\ u[1][2] = 1
    BY <1>4, <1>5, <1>6
  <2>2. /\ u[CutOff(units) + 1][2] = 1
        /\ \A p \in 1..CutOff(units) : sent[u[p][1]].defect = "none"
        /\ \A i \in u[1][1]..(u[CutOff(units) + 1][1] - 1) :
              \E q \in 1..CutOff(units) : u[q][1] = i /\ u[q][2] = 1
    BY <2>1, CutsBetweenFrames
  <2> QED BY <2>2 DEF cut
<1>9. CutOff(rest) = 0
  BY <1>5, RestHoldsNoFrame DEF rest, cut
<1>10. /\ rest \in Seq(Unit) /\ Len(rest) = held - cut
       /\ \A p \in 1..(held - cut) : rest[p] = u[cut + p]
  <2>1. /\ rest \in Seq(Unit) /\ Len(rest) = held - cut
        /\ \A p \in 1..(held - cut) : rest[p] = units[cut + p]
    BY <1>5, <1>7, Suffix DEF rest
  <2>2. \A p \in 1..(held - cut) : cut + p \in 1..held
    BY <1>6, <1>7
  <2> QED BY <1>5, <2>1, <2>2
<1>11. /\ wire' \in Seq(Unit) /\ Len(wire') = Len(wire) - n
       /\ \A p \in 1..(Len(wire) - n) : wire'[p] = wire[n + p]
  <2>1. n \in 0..Len(wire)
    BY <1>3
  <2> QED BY <1>1, <1>3, <2>1, Suffix
<1>12. \A p \in 1..cut : p \in 1..held /\ p \in 1..total
  BY <1>4, <1>6, <1>7
<1>13. starts \in SUBSET (1..cut) /\ cut \in Nat
  BY <1>7 DEF starts
<1>14. \A p \in starts : /\ p \in 1..cut /\ p \in 1..total /\ units[p] = u[p]
                         /\ u[p][2] = 1 /\ u[p][1] \in 1..Len(sent)
  BY <1>4, <1>5, <1>12 DEF starts
<1>0. PICK list \in Listings(starts) : \E allowed \in 0..Len(Answers(list)) :
         /\ dispatched' = dispatched \o SubSeq(Answers(list), 1, allowed)
         /\ open' = (accepted /\ allowed = Len(Answers(list)))
  BY <1>1
<1>2. PICK allowed \in 0..Len(Answers(list)) :
         /\ dispatched' = dispatched \o SubSeq(Answers(list), 1, allowed)
         /\ open' = (accepted /\ allowed = Len(Answers(list)))
  BY <1>0
<1> DEFINE all == Answers(list)
           new == SubSeq(all, 1, allowed)
<1>15. /\ new \in Seq(Answer)
       /\ \A k \in 1..Len(new) : \E p \in starts : new[k].frame = units[p][1]
       /\ \A k, l \in 1..Len(new) : k < l =>
             \E p, q \in starts : p < q /\ new[k].frame = units[p][1] /\ new[l].frame = units[q][1]
       /\ open' => \A p \in starts :
             \/ \E k \in 1..Len(new) : new[k].frame = units[p][1]
             \/ \E k \in 1..Len(new), q \in starts :
                   q < p /\ new[k].frame = units[q][1] /\ ~new[k].ok
       /\ starts = {} => new = <<>>
  <2>1. \A p \in starts : units[p][1] \in 1..Len(sent)
    BY <1>14
  <2>2. AnswerTheStarts(DispatchLoop([k \in DOMAIN list |-> units[list[k]][1]]), units, starts)
    BY <1>0, <1>3, <1>13, <2>1, AnswersAreOfStarts
  <2>3. AnswerTheStarts(all, units, starts)
    BY <2>2 DEF Answers
  <2>4. allowed \in 0..Len(all) /\ (open' => allowed = Len(all))
    BY <1>2
  <2> HIDE DEF all
  <2>5. all \in Seq(Answer)
    BY <2>3 DEF AnswerTheStarts
  <2>6. /\ new \in Seq(Answer) /\ Len(new) = allowed
        /\ \A k \in 1..allowed : new[k] = all[k]
    BY <2>4, <2>5
  <2>7. 1..allowed \subseteq 1..Len(all)
    BY <2>4, <2>5
  <2>8. open' => new = all
    BY <2>4, <2>5
  <2>9. starts = {} => allowed = 0
    <3>1. starts = {} => all = <<>>
      BY <2>3 DEF AnswerTheStarts
    <3> QED BY <2>4, <3>1
  <2>10. starts = {} => new = <<>>
    BY <2>6, <2>9
  <2> HIDE DEF new
  <2>11. ASSUME NEW k \in 1..Len(new) PROVE k \in 1..Len(all) /\ new[k] = all[k]
    BY <2>6, <2>7
  <2>12. \A k \in 1..Len(new) : \E p \in starts : new[k].frame = units[p][1]
    BY <2>3, <2>11 DEF AnswerTheStarts
  <2>13. ASSUME NEW k \in 1..Len(new), NEW l \in 1..Len(new), k < l
         PROVE  \E p, q \in starts : p < q /\ new[k].frame = units[p][1] /\ new[l].frame = units[q][1]
    <3>1. \E p, q \in starts : p < q /\ all[k].frame = units[p][1] /\ all[l].frame = units[q][1]
      BY <2>3, <2>11, <2>13 DEF AnswerTheStarts
    <3> QED BY <2>11, <3>1
  <2>14. open' => \A p \in starts :
            \/ \E k \in 1..Len(new) : new[k].frame = units[p][1]
            \/ \E k \in 1..Len(new), q \in starts :
                  q < p /\ new[k].frame = units[q][1] /\ ~new[k].ok
    BY <2>3, <2>8 DEF AnswerTheStarts
  <2> QED BY <2>6, <2>10, <2>12, <2>13, <2>14
<1>16. /\ dispatched' \in Seq(Answer) /\ Len(dispatched') = Len(dispatched) + Len(new)
       /\ \A d \in 1..Len(dispatched) : dispatched'[d] = dispatched[d]
       /\ \A k \in 1..Len(new) : dispatched'[Len(dispatched) + k] = new[k]
       /\ Len(new) \in Nat
  <2> HIDE DEF new
  <2>1. dispatched' = dispatched \o new
    BY <1>2 DEF new
  <2>2. /\ dispatched \o new \in Seq(Answer) /\ Len(dispatched \o new) = Len(dispatched) + Len(new)
        /\ \A d \in 1..Len(dispatched) : (dispatched \o new)[d] = dispatched[d]
        /\ \A k \in 1..Len(new) : (dispatched \o new)[Len(dispatched) + k] = new[k]
    BY <1>3, <1>15, Concatenation
  <2> QED BY <1>15, <2>1, <2>2
<1> HIDE DEF new
<1>17. StreamTypeOK'
  <2>1. buffer' \in Seq(Unit)
    BY <1>1, <1>10
  <2>2. open' \in BOOLEAN
    BY <1>2 DEF accepted
  <2> QED BY <1>1, <1>3, <1>11, <1>16, <2>1, <2>2 DEF StreamTypeOK
<1>18. CASE ~accepted
  <2>1. starts = {} /\ ~open'
    BY <1>2, <1>18 DEF starts
  <2>2. dispatched' = dispatched
    <3>1. dispatched' = dispatched \o new
      BY <1>2 DEF new
    <3>2. new = <<>>
      BY <1>15, <2>1
    <3> QED BY <1>3, <3>1, <3>2
  <2>3. RecordsAreOfFrames' /\ DispatchedInOrder'
    BY <1>1, <2>2 DEF RecordsAreOfFrames, DispatchedInOrder, StreamInvariant, FramesArriveWhole
  <2>4. StreamIntact' /\ NonePassedOver' /\ GoodSoFar'
    BY <2>1 DEF StreamIntact, NonePassedOver, GoodSoFar
  <2> QED BY <1>17, <2>3, <2>4 DEF StreamInvariant, FramesArriveWhole
<1>19. CASE accepted
  <2>1. buffer' = rest /\ starts = {p \in 1..cut : units[p][2] = 1}
    BY <1>1, <1>19 DEF accepted, starts
  <2>2. /\ Len(Coming') = total + 1 - cut
        /\ \A p \in 1..(total + 1 - cut) : Coming'[p] = u[cut + p]
    <3> DEFINE c == Append(rest \o wire', << Len(sent) + 1, 1 >>)
               after == Len(wire) - n
    <3>1. Coming' = c
      BY <1>1, <2>1 DEF Coming
    <3>2. << Len(sent) + 1, 1 >> \in Unit
      <4>1. Len(sent) + 1 \in Nat /\ 1 \in Nat
        BY <1>3
      <4> QED BY ONLY <4>1 DEF Unit
    <3> HIDE DEF after
    <3>3. /\ Len(c) = (held - cut) + after + 1
          /\ \A p \in 1..(held - cut) : c[p] = rest[p]
          /\ \A p \in 1..after : c[(held - cut) + p] = wire'[p]
          /\ c[(held - cut) + after + 1] = << Len(sent) + 1, 1 >>
      <4>1. /\ Len(c) = Len(rest) + Len(wire') + 1
            /\ \A p \in 1..Len(rest) : c[p] = rest[p]
            /\ \A p \in 1..Len(wire') : c[Len(rest) + p] = wire'[p]
            /\ c[Len(rest) + Len(wire') + 1] = << Len(sent) + 1, 1 >>
        <5>1. rest \in Seq(Unit) /\ wire' \in Seq(Unit)
          BY <1>10, <1>11
        <5> QED BY ONLY <3>2, <5>1, Joining
      <4> HIDE DEF c
      <4> QED BY <1>10, <1>11, <4>1 DEF after
    <3> HIDE DEF c
    <3>4. (held - cut) + after = total - cut /\ held - cut \in Nat /\ after \in Nat
      BY <1>3, <1>7 DEF total, held, after
    <3>5. ASSUME NEW p \in 1..(total + 1 - cut) PROVE c[p] = u[cut + p]
      <4>1. CASE p \in 1..(held - cut)
        BY <1>10, <3>3, <4>1
      <4>2. CASE p \notin 1..(held - cut) /\ p # total - cut + 1
        <5> DEFINE q == p - (held - cut)
        <5>1. /\ q \in 1..after /\ (held - cut) + q = p
              /\ n + q \in 1..Len(wire) /\ Len(buffer) + (n + q) = cut + p
          <6>1. /\ Len(buffer) \in Nat /\ Len(wire) \in Nat /\ n \in Nat /\ cut \in Nat
                /\ p \in Nat /\ p > held - cut /\ p <= total - cut
                /\ total = Len(buffer) + Len(wire) /\ held = Len(buffer) + n /\ cut <= held
                /\ n <= Len(wire)
            <7>1. total \in Nat /\ held \in Nat /\ cut \in Nat /\ cut <= held
              BY <1>4, <1>6, <1>7
            <7>2. p \in Nat /\ p > held - cut /\ p <= total - cut
              BY <4>2, <7>1
            <7>3. n <= Len(wire)
              BY <1>3
            <7> QED BY <1>3, <7>1, <7>2, <7>3 DEF total, held
          <6> QED BY <6>1 DEF after
        <5> HIDE DEF q
        <5>2. c[p] = wire'[q]
          BY <3>3, <5>1
        <5>3. u[cut + p] = wire[n + q]
          BY <1>4, <5>1
        <5> QED BY <1>11, <5>1, <5>2, <5>3 DEF after
      <4>3. CASE p = total - cut + 1
        <5>1. cut + p = total + 1 /\ p = (held - cut) + after + 1
          <6>1. cut \in Nat /\ total \in Nat
            BY <1>4, <1>7
          <6> QED BY <3>4, <4>3, <6>1
        <5> QED BY <1>4, <3>3, <5>1
      <4> QED BY <4>1, <4>2, <4>3
    <3>6. Len(c) = total + 1 - cut
      BY <1>4, <1>7, <3>3, <3>4
    <3> QED BY <3>1, <3>5, <3>6
  <2>3. /\ Coming'[1] = u[cut + 1] /\ cut + 1 \in 1..(total + 1) /\ 1 \in 1..(total + 1)
        /\ 1 \in 1..(total + 1 - cut)
    <3>1. 1 \in 1..(total + 1 - cut) /\ cut + 1 \in 1..(total + 1)
      BY <1>4, <1>6, <1>7
    <3> QED BY <1>4, <2>2, <3>1
  <2>4. CutOff(buffer)' = 0
    <3>1. CutOff(buffer)' = CutOff(rest)
      BY <1>1, <2>1 DEF CutOff, InGoodFrame
    <3> QED BY <1>9, <3>1
  <2>5. ASSUME NEW p \in 1..(Len(Coming') - 1)
        PROVE  Coming'[p + 1] = UnitAfter(Coming[p])' /\ sent'[Coming'[p][1]].connection = connection'
    <3>1. /\ p \in 1..(total + 1 - cut) /\ p + 1 \in 1..(total + 1 - cut)
          /\ cut + p \in 1..total /\ cut + (p + 1) = (cut + p) + 1
      <4>1. total \in Nat /\ cut \in Nat /\ cut <= total /\ Len(Coming') - 1 = total - cut
        BY <1>4, <1>6, <1>7, <2>2
      <4> QED BY <4>1
    <3>2. Coming'[p] = u[cut + p] /\ Coming'[p + 1] = u[(cut + p) + 1]
      BY <2>2, <3>1
    <3>3. u[(cut + p) + 1] = UnitAfter(u[cut + p]) /\ sent[u[cut + p][1]].connection = connection
      <4>1. cut + p \in 1..(Len(Coming) - 1)
        BY <1>4, <3>1 DEF u
      <4> QED BY <1>1, <4>1 DEF StreamInvariant, FramesArriveWhole, StreamIntact, u
    <3>4. Coming'[p + 1] = IF Coming'[p][2] < FrameSize(sent'[Coming'[p][1]])
                           THEN << Coming'[p][1], Coming'[p][2] + 1 >>
                           ELSE << Coming'[p][1] + 1, 1 >>
      BY <1>1, <3>2, <3>3 DEF UnitAfter
    <3>5. Coming'[p + 1] = UnitAfter(Coming[p])'
      BY <3>4, Zenon DEF UnitAfter
    <3> QED BY <1>1, <3>2, <3>3, <3>5
  <2>6. StreamIntact'
    <3>1. Coming'[1][2] = 1
      BY <1>8, <2>3
    <3> QED BY <2>4, <2>5, <3>1 DEF StreamIntact
  <2>7. /\ \A p \in 1..(total + 1) : u[p] \in Unit /\ u[p][1] \in Nat /\ u[p][2] \in Nat
        /\ total + 1 \in Nat
    BY <1>4 DEF IsRun, Unit
  <2>8. \A p \in starts : p \in 1..cut /\ p \in 1..total /\ p \in 1..(total + 1) /\ p < cut + 1
    BY <1>4, <1>7, <1>14
  \* Starts of frames are in the order of their frames, and the next start comes behind.
  <2>9. ASSUME NEW p \in 1..(total + 1), NEW q \in 1..(total + 1), p < q,
               u[p][2] = 1, u[q][2] = 1
        PROVE  u[p][1] < u[q][1]
    <3>1. u[p][1] < u[q][1] \/ u[p][2] < u[q][2]
      BY <1>4, <2>7, <2>9, RunIsOrdered
    <3> QED BY <2>9, <3>1
  <2>10. ASSUME NEW p \in starts
         PROVE  /\ u[p][1] \in 1..Len(sent) /\ u[p][1] \in Nat
                /\ u[1][1] <= u[p][1] /\ u[p][1] < u[cut + 1][1]
                /\ sent[u[p][1]].defect = "none" /\ sent[u[p][1]].connection = connection
    <3>1. u[p][1] < u[cut + 1][1]
      BY <1>8, <1>14, <2>3, <2>8, <2>9
    <3>2. u[1][1] <= u[p][1]
      <4>1. CASE p = 1
        BY <2>3, <2>7, <4>1
      <4>2. CASE p # 1
        <5>1. 1 < p
          BY <1>13, <4>2
        <5>2. u[1][1] < u[p][1]
          BY <1>4, <1>14, <2>3, <2>8, <2>9, <5>1
        <5> QED BY <2>3, <2>7, <2>8, <5>2
      <4> QED BY <4>1, <4>2
    <3>3. sent[u[p][1]].connection = connection
      BY <1>1, <1>4, <2>8, SMTT(30) DEF StreamInvariant, FramesArriveWhole, StreamIntact, u, total
    <3> QED BY <1>8, <1>14, <2>7, <2>8, <3>1, <3>2, <3>3
  <2>11. ASSUME NEW i \in u[1][1]..(u[cut + 1][1] - 1)
         PROVE  \E p \in starts : u[p][1] = i
    <3>1. PICK q \in 1..cut : u[q][1] = i /\ u[q][2] = 1
      BY <1>8
    <3>2. units[q][2] = 1
      BY <1>5, <1>12, <3>1
    <3> QED BY <2>1, <3>1, <3>2
  <2>12. ASSUME NEW i \in 1..(u[cut + 1][1] - 1)
         PROVE  i \in 1..(u[1][1] - 1) \/ \E p \in starts : u[p][1] = i
    <3>1. u[1][1] \in Nat /\ u[cut + 1][1] \in Nat
      BY <2>3, <2>7
    <3>2. i \in 1..(u[1][1] - 1) \/ i \in u[1][1]..(u[cut + 1][1] - 1)
      BY <3>1
    <3> QED BY <2>11, <3>2
  <2>13. ASSUME NEW i \in 1..(u[cut + 1][1] - 1), sent[i].connection = connection
         PROVE  sent[i].defect = "none"
    <3>1. CASE i \in 1..(u[1][1] - 1)
      BY <1>1, <2>13, <3>1 DEF StreamInvariant, GoodSoFar, u
    <3>2. CASE \E p \in starts : u[p][1] = i
      BY <2>10, <3>2
    <3> QED BY <2>12, <3>1, <3>2
  <2>14. GoodSoFar'
    BY <1>1, <2>3, <2>13 DEF GoodSoFar
  <2>15. \A p \in starts : units[p] = u[p]
    BY <1>14
  <2>16. \A k \in 1..Len(new) : \E p \in starts : new[k].frame = u[p][1]
    BY <1>15, <2>15
  <2>17. \A d \in 1..Len(dispatched) :
            /\ dispatched[d].frame \in 1..Len(sent) /\ dispatched[d].frame \in Nat
            /\ dispatched[d].frame < u[1][1]
    <3>1. \A d \in 1..Len(dispatched) : dispatched[d].frame \in 1..Len(sent)
      BY DEF StreamInvariant, RecordsAreOfFrames
    <3>2. \A d \in 1..Len(dispatched) : dispatched[d].frame < u[1][1]
      BY <1>1, <1>3 DEF StreamInvariant, FramesArriveWhole, NonePassedOver, u
    <3> QED BY <3>1, <3>2
  <2>18. ASSUME NEW d \in 1..Len(dispatched')
         PROVE  \/ d \in 1..Len(dispatched) /\ dispatched'[d] = dispatched[d]
                \/ \E k \in 1..Len(new) : d = Len(dispatched) + k /\ dispatched'[d] = new[k]
    <3>1. d \in 1..Len(dispatched) \/ d - Len(dispatched) \in 1..Len(new)
      BY <1>3, <1>16
    <3>2. d = Len(dispatched) + (d - Len(dispatched))
      BY <1>3, <1>16
    <3> QED BY <1>16, <3>1, <3>2
  <2>19. ASSUME NEW d \in 1..Len(dispatched')
         PROVE  /\ dispatched'[d].frame \in 1..Len(sent) /\ dispatched'[d].frame \in Nat
                /\ dispatched'[d].frame < u[cut + 1][1]
    <3>1. u[1][1] \in Nat /\ u[cut + 1][1] \in Nat /\ u[1][1] <= u[cut + 1][1]
      <4>1. u[1][1] \in Nat /\ u[cut + 1][1] \in Nat
        BY <2>3, <2>7
      <4>2. CASE cut = 0
        BY <4>1, <4>2
      <4>3. CASE cut # 0
        <5>1. 1 < cut + 1
          BY <1>13, <4>3
        <5>2. u[1][1] < u[cut + 1][1]
          BY <1>4, <1>8, <2>3, <2>9, <5>1
        <5> QED BY <4>1, <5>2
      <4> QED BY <4>2, <4>3
    <3>2. CASE d \in 1..Len(dispatched) /\ dispatched'[d] = dispatched[d]
      BY <2>17, <3>1, <3>2, SMTT(30)
    <3>3. CASE \E k \in 1..Len(new) : d = Len(dispatched) + k /\ dispatched'[d] = new[k]
      BY <2>10, <2>16, <3>3
    <3> QED BY <2>18, <3>2, <3>3
  <2>20. RecordsAreOfFrames'
    BY <1>1, <2>19 DEF RecordsAreOfFrames, StreamInvariant
  <2>21. NonePassedOver'
    <3> SUFFICES ASSUME open' PROVE NonePassedOver'
      BY DEF NonePassedOver
    <3>1. DOMAIN dispatched' = 1..Len(dispatched') /\ DOMAIN dispatched = 1..Len(dispatched)
      BY <1>3, <1>16
    <3>2. ASSUME NEW i \in 1..(u[cut + 1][1] - 1), sent[i].connection = connection
          PROVE  \E d \in 1..Len(dispatched') :
                    \/ dispatched'[d].frame = i
                    \/ dispatched'[d].frame < i /\ ~dispatched'[d].ok
                          /\ sent[dispatched'[d].frame].connection = connection
      <4>1. CASE i \in 1..(u[1][1] - 1)
        <5>1. PICK d \in 1..Len(dispatched) :
                 \/ dispatched[d].frame = i
                 \/ dispatched[d].frame < i /\ ~dispatched[d].ok
                       /\ sent[dispatched[d].frame].connection = connection
          BY <1>1, <3>1, <3>2, <4>1 DEF StreamInvariant, FramesArriveWhole, NonePassedOver, u
        <5>2. d \in 1..Len(dispatched') /\ dispatched'[d] = dispatched[d]
          BY <1>3, <1>16
        <5> QED BY <5>1, <5>2
      <4>2. CASE \E p \in starts : u[p][1] = i
        <5>1. PICK p \in starts : u[p][1] = i
          BY <4>2
        <5>2. \A k \in 1..Len(new) : /\ Len(dispatched) + k \in 1..Len(dispatched')
                                     /\ dispatched'[Len(dispatched) + k] = new[k]
          BY <1>3, <1>16, SMTT(30)
        <5>3. CASE \E k \in 1..Len(new) : new[k].frame = units[p][1]
          BY <2>15, <5>1, <5>2, <5>3
        <5>4. CASE \E k \in 1..Len(new), q \in starts :
                      q < p /\ new[k].frame = units[q][1] /\ ~new[k].ok
          <6>1. PICK k \in 1..Len(new), q \in starts :
                        q < p /\ new[k].frame = units[q][1] /\ ~new[k].ok
            BY <5>4
          <6>2. new[k].frame = u[q][1] /\ sent[u[q][1]].connection = connection
            BY <2>10, <2>15, <6>1
          <6>3. u[q][1] < u[p][1]
            BY <1>14, <2>8, <2>9, <6>1
          <6> QED BY <5>1, <5>2, <6>1, <6>2, <6>3
        <5> QED BY <1>15, <5>3, <5>4
      <4> QED BY <2>12, <4>1, <4>2
    <3> QED BY <1>1, <2>3, <2>19, <3>1, <3>2 DEF NonePassedOver
  <2>22. DispatchedInOrder'
    <3>1. DOMAIN dispatched' = 1..Len(dispatched') /\ DOMAIN dispatched = 1..Len(dispatched)
      BY <1>3, <1>16
    <3>2. DispatchedInOrder
      BY DEF StreamInvariant, FramesArriveWhole
    <3>3. ASSUME NEW d \in 1..Len(dispatched')
          PROVE  /\ sent[dispatched'[d].frame].defect = "none"
                 /\ \A e \in 1..(d - 1) : dispatched'[e].frame < dispatched'[d].frame
                 /\ \A i \in 1..(dispatched'[d].frame - 1) :
                       sent[i].connection = sent[dispatched'[d].frame].connection
                          => sent[i].defect = "none"
      <4>1. CASE d \in 1..Len(dispatched) /\ dispatched'[d] = dispatched[d]
        <5>1. \A e \in 1..(d - 1) : e \in 1..Len(dispatched)
          BY <1>3, <4>1
        <5> QED BY <1>16, <3>1, <3>2, <4>1, <5>1, ZenonT(30) DEF DispatchedInOrder
      <4>2. CASE \E k \in 1..Len(new) : d = Len(dispatched) + k /\ dispatched'[d] = new[k]
        <5>1. PICK k \in 1..Len(new) : d = Len(dispatched) + k /\ dispatched'[d] = new[k]
          BY <4>2
        <5>2. PICK p \in starts : new[k].frame = u[p][1]
          BY <2>16
        <5>3. sent[new[k].frame].defect = "none" /\ sent[new[k].frame].connection = connection
          BY <2>10, <5>2
        <5>4. ASSUME NEW e \in 1..(d - 1) PROVE dispatched'[e].frame < new[k].frame
          <6>1. e \in 1..Len(dispatched') /\ e \in Nat /\ d \in Nat
            BY <1>3, <1>16, <5>1, SMTT(30)
          <6>2. CASE e \in 1..Len(dispatched) /\ dispatched'[e] = dispatched[e]
            <7>1. dispatched[e].frame < u[1][1] /\ dispatched[e].frame \in Nat
              BY <2>17, <6>2
            <7>2. u[1][1] <= u[p][1] /\ u[1][1] \in Nat /\ u[p][1] \in Nat
              BY <2>3, <2>7, <2>10
            <7> QED BY <5>2, <6>2, <7>1, <7>2, SMTT(30)
          <6>3. CASE \E l \in 1..Len(new) : e = Len(dispatched) + l /\ dispatched'[e] = new[l]
            <7>1. PICK l \in 1..Len(new) : e = Len(dispatched) + l /\ dispatched'[e] = new[l]
              BY <6>3
            <7>2. l < k
              BY <1>3, <1>16, <5>1, <7>1
            <7>3. PICK q \in starts, r \in starts :
                     q < r /\ new[l].frame = units[q][1] /\ new[k].frame = units[r][1]
              BY <1>15, <7>2
            <7>4. u[q][1] < u[r][1]
              BY <1>14, <2>8, <2>9, <7>3
            <7> QED BY <2>15, <7>1, <7>3, <7>4
          <6> QED BY <2>18, <6>1, <6>2, <6>3
        <5>5. \A i \in 1..(new[k].frame - 1) : i \in 1..(u[cut + 1][1] - 1)
          <6>1. /\ new[k].frame = u[p][1] /\ u[p][1] <= u[cut + 1][1]
                /\ u[p][1] \in Nat /\ u[cut + 1][1] \in Nat
            BY <2>3, <2>7, <2>10, <5>2, SMTT(20)
          <6> QED BY ONLY <6>1, SMTT(30)
        <5> QED BY <2>13, <5>1, <5>3, <5>4, <5>5
      <4> QED BY <2>18, <4>1, <4>2
    <3> QED BY <1>1, <3>1, <3>3, Zenon DEF DispatchedInOrder
  <2> QED BY <1>17, <2>6, <2>14, <2>20, <2>21, <2>22 DEF StreamInvariant, FramesArriveWhole
<1> QED BY ONLY <1>18, <1>19, SMTT(30)

-----------------------------------------------------------------------------

LEMMA StreamStep == StreamInvariant /\ [StreamNext]_streamVars => StreamInvariant'
<1> SUFFICES ASSUME StreamInvariant, [StreamNext]_streamVars PROVE StreamInvariant'
  OBVIOUS
<1>1. ASSUME NEW message \in Messages, NEW defect \in Defects, WriteFrame(message, defect)
      PROVE  StreamInvariant'
  BY <1>1, WriteKeeps
<1>2. ASSUME NEW n \in 1..Len(wire), readAvailable(n) PROVE StreamInvariant'
  BY <1>2, ReadKeeps
<1>3. CASE Reconnect
  BY <1>3, ReconnectKeeps
<1>4. CASE UNCHANGED streamVars
  <2>1. CutOff(buffer)' = CutOff(buffer) /\ Coming' = Coming
    BY <1>4 DEF streamVars, CutOff, InGoodFrame, Coming
  <2>2. StreamIntact' = StreamIntact
    BY <1>4, <2>1 DEF streamVars, StreamIntact, UnitAfter
  <2> QED BY <1>4, <2>1, <2>2
          DEF streamVars, StreamInvariant, StreamTypeOK, RecordsAreOfFrames, GoodSoFar,
              FramesArriveWhole, NonePassedOver, DispatchedInOrder
<1> QED BY <1>1, <1>2, <1>3, <1>4 DEF StreamNext

LEMMA StreamAlwaysSound == StreamSpec => []StreamInvariant
BY StreamStart, StreamStep, PTL DEF StreamSpec

\* Sequences of frames, of units and of answers, whatever the messages are.
THEOREM StreamTypeIsCorrect == StreamSpec => []StreamTypeOK
BY StreamAlwaysSound, PTL DEF StreamInvariant

\* However the bytes of FrameDecoder::append are cut, on however many connections: the units
\* held and under way are the frames not yet taken off, frames are dispatched whole, in order
\* and once, none behind a damaged one, and none is passed over unless one before it on the
\* connection could not be decoded.
THEOREM FramesAlwaysArriveWhole == StreamSpec => []FramesArriveWhole
BY StreamAlwaysSound, PTL DEF StreamInvariant
=============================================================================
