-------------------------- MODULE SpriteEvalProofs --------------------------
(***************************************************************************)
(* Proofs about SpriteEval, for any number of sprites, slots and bytes of  *)
(* a sprite and any line that is long enough: what the evaluation of an    *)
(* undisturbed line is for.  The walk has two parts: while it fills the    *)
(* secondary OAM, what is there says how many sprites of the line were     *)
(* seen; when that is full, it searches for another, askew.  In both, the  *)
(* dots that went by are counted, so that the walk is over before the line *)
(* is.                                                                     *)
(***************************************************************************)
EXTENDS SpriteEval, FiniteSetTheorems, TLAPS

-----------------------------------------------------------------------------
(* Arithmetic. *)

LEMMA Sizes ==
  /\ Sprites \in Nat /\ Sprites >= 1 /\ Slots \in Nat /\ Slots >= 1 /\ Bytes \in Nat /\ Bytes >= 2
  /\ EvalDots \in Nat /\ EvalDots % 2 = 0
  /\ OamLen \in Nat /\ SecondaryLen \in Nat /\ SecondaryLen = Slots * Bytes
  /\ FetchDot = EvalDots + 1 /\ LastDot = EvalDots + 2
<1>1. \A m, n \in Nat : m * n \in Nat
  OBVIOUS
<1> QED BY <1>1, SpriteEvalAssumption DEF OamLen, SecondaryLen, FetchDot, LastDot

(* There is time for all sprites and for the bytes of one more than fit.   *)
LEMMA LongEnough ==
  EvalDots >= 2 * (Sprites + (Slots * Bytes) - Slots + Bytes)
<1>1. (Slots + 1) * (Bytes - 1) = (Slots * Bytes) - Slots + Bytes - 1
  BY Sizes
<1>2. EvalDots >= 2 * (Sprites + (Slots + 1) * (Bytes - 1) + 1)
  BY SpriteEvalAssumption
<1>3. Slots * Bytes \in Nat
  BY Sizes
<1> QED BY <1>1, <1>2, <1>3, Sizes

LEMMA Growing ==
  ASSUME NEW m \in Nat, NEW n \in Nat, NEW k \in Nat, m <= n
  PROVE  m * k <= n * k
OBVIOUS

LEMMA Quotient ==
  ASSUME NEW n \in Nat, NEW k \in Nat, k >= 1
  PROVE  (n * k) \div k = n
<1>1. PICK q, r : q = (n * k) \div k /\ r = (n * k) % k
  OBVIOUS
<1>2. n * k \in Nat
  OBVIOUS
<1>3. q \in Nat /\ r \in 0..(k - 1) /\ n * k = k * q + r
  BY <1>1, <1>2
<1>4. CASE q <= n - 1
  <2>1. (n - 1) * k = n * k - k
    OBVIOUS
  <2>2. n - 1 \in Nat
    BY <1>3, <1>4
  <2>3. q * k <= (n - 1) * k
    BY <1>3, <1>4, <2>2, Growing
  <2>4. q * k = k * q /\ q * k \in Nat
    BY <1>3
  <2> QED BY <1>2, <1>3, <2>1, <2>3, <2>4
<1>5. CASE q >= n + 1
  <2>1. (n + 1) * k = n * k + k
    OBVIOUS
  <2>2. (n + 1) * k <= q * k
    BY <1>3, <1>5, Growing
  <2>3. q * k = k * q /\ q * k \in Nat
    BY <1>3
  <2> QED BY <1>2, <1>3, <2>1, <2>2, <2>3
<1>6. q = n
  BY <1>3, <1>4, <1>5
<1> QED BY <1>1, <1>6

(* The remainder of the next number. *)
LEMMA NextRemainder ==
  ASSUME NEW n \in Nat, NEW k \in Nat, k >= 1
  PROVE  ((n % k) + 1) % k = (n + 1) % k /\ n % k \in 0..(k - 1)
<1>1. PICK q, r : q = n \div k /\ r = n % k
  OBVIOUS
<1>2. q \in Nat /\ r \in 0..(k - 1) /\ n = k * q + r
  BY <1>1
<1>3. (n + 1) % k = (r + 1) % k
  BY <1>2
<1> QED BY <1>1, <1>2, <1>3

LEMMA SmallRemainder ==
  ASSUME NEW n \in Nat, NEW k \in Nat, k >= 1, n <= k
  PROVE  n % k = IF n = k THEN 0 ELSE n
OBVIOUS

-----------------------------------------------------------------------------
(* The sprites of a line. *)

Below(s) == {t \in Shown : t < s}

LEMMA RankIs == \A s : Rank(s) = Cardinality(Below(s))
BY DEF Rank, Below

LEMMA ShownType == IsFiniteSet(Shown) /\ \A s \in Shown : s \in Nat /\ s < Sprites
<1>1. IsFiniteSet(0..(Sprites - 1))
  BY Sizes, FS_Interval
<1>2. Shown \in SUBSET (0..(Sprites - 1))
  BY DEF Shown
<1>3. IsFiniteSet(Shown)
  BY <1>1, <1>2, FS_Subset
<1> QED BY <1>2, <1>3, Sizes

LEMMA BelowType ==
  ASSUME NEW s
  PROVE  IsFiniteSet(Below(s)) /\ Rank(s) \in Nat
<1>1. Below(s) \in SUBSET Shown
  BY DEF Below
<1>2. IsFiniteSet(Below(s))
  BY <1>1, ShownType, FS_Subset
<1> QED BY <1>2, FS_CardinalityType, RankIs

LEMMA RankZero == Rank(0) = 0
<1>1. Below(0) = {}
  BY ShownType DEF Below
<1> QED BY <1>1, RankIs, FS_EmptySet

LEMMA RankNext ==
  ASSUME NEW s \in Nat
  PROVE  Rank(s + 1) = IF s \in Shown THEN Rank(s) + 1 ELSE Rank(s)
<1>1. CASE s \in Shown
  <2>1. Below(s + 1) = Below(s) \cup {s}
    <3>1. \A t \in Shown : t < s + 1 <=> t < s \/ t = s
      BY ShownType
    <3> QED BY <1>1, <3>1 DEF Below
  <2>2. s \notin Below(s)
    BY DEF Below
  <2> QED BY <1>1, <2>1, <2>2, BelowType, RankIs, FS_AddElement
<1>2. CASE s \notin Shown
  <2>1. Below(s + 1) = Below(s)
    BY <1>2, ShownType DEF Below
  <2> QED BY <1>2, <2>1, RankIs
<1> QED BY <1>1, <1>2

LEMMA RankGrows ==
  ASSUME NEW s \in Nat, NEW u \in Nat, s <= u
  PROVE  Rank(s) <= Rank(u)
<1>1. Below(s) \in SUBSET Below(u)
  BY ShownType DEF Below
<1> QED BY <1>1, BelowType, RankIs, FS_Subset

(* A sprite of the line comes before the later ones. *)
LEMMA RankBefore ==
  ASSUME NEW s \in Shown, NEW u \in Nat, s < u
  PROVE  Rank(s) + 1 <= Rank(u)
<1>1. s \in Nat /\ s + 1 \in Nat /\ s + 1 <= u
  BY ShownType
<1>2. Rank(s + 1) = Rank(s) + 1
  BY <1>1, RankNext
<1> QED BY <1>1, <1>2, RankGrows

LEMMA RankUnique ==
  ASSUME NEW s \in Shown, NEW u \in Shown, Rank(s) = Rank(u)
  PROVE  s = u
<1>1. s \in Nat /\ u \in Nat /\ Rank(s) \in Nat /\ Rank(u) \in Nat
  BY ShownType, BelowType
<1>2. ~(s < u)
  BY <1>1, RankBefore
<1>3. ~(u < s)
  BY <1>1, RankBefore
<1> QED BY <1>1, <1>2, <1>3

(* When no more fit, or no more come, those that are kept were seen.       *)
LEMMA KeptSeen ==
  ASSUME NEW n \in Nat, n <= Sprites, Rank(n) <= Slots, n = Sprites \/ Rank(n) = Slots
  PROVE  Kept = Below(n) /\ Cardinality(Kept) = Rank(n)
<1>1. ASSUME NEW s \in Below(n) PROVE s \in Kept
  <2>1. s \in Shown /\ s < n
    BY <1>1 DEF Below
  <2>2. Rank(s) + 1 <= Rank(n)
    BY <2>1, RankBefore
  <2>3. Rank(s) < Slots
    BY <2>2, BelowType, Sizes
  <2> QED BY <2>1, <2>3 DEF Kept
<1>2. ASSUME NEW s \in Kept PROVE s \in Below(n)
  <2>1. s \in Shown /\ Rank(s) < Slots
    BY <1>2 DEF Kept
  <2>2. s \in Nat /\ s < Sprites
    BY <2>1, ShownType
  <2>3. CASE n = Sprites
    BY <2>1, <2>2, <2>3 DEF Below
  <2>4. CASE Rank(n) = Slots
    <3>1. ~(n <= s)
      BY <2>1, <2>2, <2>4, RankGrows, BelowType, Sizes
    <3> QED BY <2>1, <2>2, <3>1 DEF Below
  <2> QED BY <2>3, <2>4
<1>3. Kept = Below(n)
  BY <1>1, <1>2
<1> QED BY <1>3, RankIs

(* Of a line that does not change. *)
Steady == on_line' = on_line

LEMMA SameSprites ==
  ASSUME Steady
  PROVE  /\ Shown' = Shown /\ Kept' = Kept /\ (Ninth' <=> Ninth)
         /\ \A s : Rank(s)' = Rank(s)
<1>1. Shown' = Shown
  BY DEF Steady, Shown, Y
<1>2. \A s : Rank(s)' = Rank(s)
  BY <1>1 DEF Rank
<1>3. Kept' = Kept
  BY <1>1, <1>2 DEF Kept
<1>4. Ninth' <=> Ninth
  BY <1>2, <1>3 DEF Ninth, Steady, Y
<1> QED BY <1>1, <1>2, <1>3, <1>4

-----------------------------------------------------------------------------
(* The invariant. *)

(* The writes that a line has had. *)
Writes == (dot - 1) \div 2

Filling   == ~oam_eval_done /\ secondary_oamaddr < SecondaryLen
Searching == ~oam_eval_done /\ ~(secondary_oamaddr < SecondaryLen) /\ ~spr_in_range
Decided   == oam_eval_done \/ (~(secondary_oamaddr < SecondaryLen) /\ spr_in_range)

(* The place of a byte of a sprite in the secondary OAM. *)
Place(s, b) == Rank(s) * Bytes + b

Stored(s, b) ==
  Place(s, b) < secondary_oamaddr /\ secondary_oamdata[Place(s, b)] = Y(s) + b

(* The sprites before the one at hand, and its bytes before the one at     *)
(* hand if it is on the line, were stored.                                 *)
Fills ==
  /\ spr_in_range => oamaddr_lo >= 1 /\ oamaddr_hi \in Shown
  /\ ~spr_in_range => oamaddr_lo = 0
  /\ Rank(oamaddr_hi) < Slots
  /\ secondary_oamaddr = Place(oamaddr_hi, oamaddr_lo)
  /\ Writes = oamaddr_hi + secondary_oamaddr - Rank(oamaddr_hi)
  /\ spr_overflow <=> overflowed
  /\ spr_zero_in_range <=> 0 \in Shown /\ (oamaddr_hi > 0 \/ oamaddr_lo > 0)
  /\ \A s \in Shown, b \in 0..(Bytes - 1) :
       s < oamaddr_hi \/ (s = oamaddr_hi /\ b < oamaddr_lo) => Stored(s, b)

Collected ==
  /\ secondary_oamaddr = Cardinality(Kept) * Bytes
  /\ spr_zero_in_range <=> 0 \in Shown
  /\ \A s \in Kept, b \in 0..(Bytes - 1) : Stored(s, b)

(* The askew search, from the last sprite that fitted on. *)
Missed(last, s) == Y(s) + ((s - last - 1) % Bytes) \notin on_line

SearchedFrom(last) ==
  /\ Rank(last) = Slots - 1 /\ last < oamaddr_hi
  /\ oamaddr_lo = (oamaddr_hi - last - 1) % Bytes
  /\ \A s \in (last + 1)..(oamaddr_hi - 1) : Missed(last, s)

Searches ==
  /\ secondary_oamaddr = SecondaryLen
  /\ Writes = oamaddr_hi + SecondaryLen - Slots
  /\ spr_overflow <=> overflowed
  /\ \E last \in Kept : SearchedFrom(last)

InOam == oamaddr_hi \in 0..(Sprites - 1) /\ oamaddr_lo \in 0..(Bytes - 1)

Phase ==
  /\ ~Decided => InOam
  /\ Filling => Fills
  /\ ~Filling => Collected
  /\ Searching => Searches
  /\ Decided => (spr_overflow <=> overflowed \/ Ninth) /\ (oam_eval_done \/ Ninth)

Walking ==
  /\ oamaddr = oamaddr_hi * Bytes + oamaddr_lo
  /\ dot % 2 = 0 => oam_fetch = oamaddr
  /\ Phase

Result ==
  /\ Collected
  /\ spr_overflow <=> overflowed \/ Ninth
  /\ spr_count = Cardinality(Kept)
  /\ spr_zero_visible <=> 0 \in Shown

IInv ==
  clean =>
    /\ rendering /\ line = "visible" /\ dot \in 1..LastDot
    /\ DOMAIN secondary_oamdata = 0..(SecondaryLen - 1)
    /\ dot = 1 => oamaddr = 0 /\ (spr_overflow <=> overflowed)
    /\ 2 <= dot /\ dot <= EvalDots => Walking
    /\ dot > EvalDots => Result

LEMMA Constant == SecondaryLen' = SecondaryLen /\ FetchDot' = FetchDot /\ LastDot' = LastDot
BY DEF SecondaryLen, FetchDot, LastDot

LEMMA KeptType == Cardinality(Kept) \in Nat /\ \A s \in Kept : s \in Shown /\ s \in Nat /\ s < Sprites
<1>1. Kept \in SUBSET Shown
  BY DEF Kept
<1>2. IsFiniteSet(Kept)
  BY <1>1, ShownType, FS_Subset
<1> QED BY <1>1, <1>2, ShownType, FS_CardinalityType

(* What a dot of the walk starts from: a write of an undisturbed line. *)
AtWrite ==
  /\ Steady /\ WriteDot /\ Walking
  /\ dot \in Nat /\ 2 <= dot /\ dot <= EvalDots
  /\ DOMAIN secondary_oamdata = 0..(SecondaryLen - 1)
  /\ overflowed' = overflowed

LEMMA AtWriteHas ==
  ASSUME AtWrite
  PROVE  /\ Steady /\ Phase /\ Writes \in Nat /\ Writes' = Writes + 1 /\ dot = 2 * Writes + 2
         /\ oam_fetch = oamaddr_hi * Bytes + oamaddr_lo
         /\ overflowed' = overflowed
<1>1. dot' = dot + 1 /\ dot % 2 = 0 /\ dot \in Nat /\ 2 <= dot
  BY DEF AtWrite, WriteDot, Advance
<1>2. Writes \in Nat /\ Writes' = Writes + 1 /\ dot = 2 * Writes + 2
  BY <1>1 DEF Writes
<1> QED BY <1>1, <1>2 DEF AtWrite, Walking

LEMMA Followed ==
  ASSUME NEW h \in Nat, h < Sprites
  PROVE  (h + 1) % Sprites = IF h + 1 = Sprites THEN 0 ELSE h + 1
BY Sizes

(* When the walk of the filling part has seen the first n sprites and they *)
(* are all there are, or all that fit, it has collected what it is for.    *)
LEMMA Filled ==
  ASSUME Steady, NEW n \in Nat, n <= Sprites, Rank(n) <= Slots, n = Sprites \/ Rank(n) = Slots,
         secondary_oamaddr' = Rank(n) * Bytes,
         spr_zero_in_range' <=> 0 \in Shown,
         \A s \in Shown, b \in 0..(Bytes - 1) : s < n => Stored(s, b)'
  PROVE  Collected'
<1>1. Kept = Below(n) /\ Cardinality(Kept) = Rank(n)
  BY KeptSeen
<1>2. Kept' = Kept /\ Shown' = Shown
  BY SameSprites
<1>3. \A s \in Kept, b \in 0..(Bytes - 1) : Stored(s, b)'
  BY <1>1 DEF Below
<1> QED BY <1>1, <1>2, <1>3 DEF Collected

(* When every sprite was seen while there was room, no ninth follows. *)
LEMMA NoNinth ==
  ASSUME Rank(Sprites) = Slots => Sprites - 1 \in Shown, Rank(Sprites) <= Slots
  PROVE  ~Ninth
<1> SUFFICES ASSUME NEW last \in Kept, Rank(last) = Slots - 1,
                    NEW s \in (last + 1)..(Sprites - 1)
             PROVE  FALSE
  BY DEF Ninth
<1>1. last \in Shown /\ last \in Nat /\ last < Sprites
  BY KeptType
<1>2. Rank(last) + 1 <= Rank(Sprites)
  BY <1>1, RankBefore, Sizes
<1>3. Rank(Sprites) = Slots /\ Sprites - 1 \in Shown
  BY <1>2, BelowType, Sizes
<1>4. Rank(Sprites - 1) = Slots - 1
  <2>1. Sprites - 1 \in Nat /\ (Sprites - 1) + 1 = Sprites
    BY Sizes
  <2>2. Rank(Sprites) = Rank(Sprites - 1) + 1
    BY <1>3, <2>1, RankNext
  <2> QED BY <1>3, <2>2, BelowType, Sizes
<1>5. last = Sprites - 1
  BY <1>1, <1>3, <1>4, RankUnique
<1> QED BY <1>1, <1>5, Sizes

-----------------------------------------------------------------------------
(* Filling the secondary OAM. *)

(* Where a byte goes. *)
LEMMA FillPlace ==
  ASSUME Fills, InOam, secondary_oamaddr < SecondaryLen
  PROVE  /\ oamaddr_hi \in Nat /\ oamaddr_hi < Sprites
         /\ oamaddr_lo \in Nat /\ oamaddr_lo < Bytes
         /\ Rank(oamaddr_hi) \in Nat /\ Rank(oamaddr_hi) * Bytes \in Nat
         /\ secondary_oamaddr = Rank(oamaddr_hi) * Bytes + oamaddr_lo
         /\ secondary_oamaddr \in 0..(SecondaryLen - 1)
         /\ (Rank(oamaddr_hi) + 1) * Bytes = Rank(oamaddr_hi) * Bytes + Bytes
         /\ (Rank(oamaddr_hi) + 1) * Bytes <= SecondaryLen
<1>1. oamaddr_hi \in Nat /\ oamaddr_hi < Sprites /\ oamaddr_lo \in Nat /\ oamaddr_lo < Bytes
  BY Sizes DEF InOam
<1>2. PICK r : r = Rank(oamaddr_hi)
  OBVIOUS
<1>3. r \in Nat /\ r < Slots
  BY <1>2, BelowType DEF Fills
<1>4. r * Bytes \in Nat /\ (r + 1) * Bytes = r * Bytes + Bytes
  BY <1>3, Sizes
<1>5. secondary_oamaddr = r * Bytes + oamaddr_lo
  BY <1>2 DEF Fills, Place
<1>6. (r + 1) * Bytes <= SecondaryLen
  BY <1>3, Growing, Sizes
<1>7. secondary_oamaddr \in 0..(SecondaryLen - 1)
  BY <1>1, <1>4, <1>5, Sizes
<1> QED BY <1>1, <1>2, <1>3, <1>4, <1>5, <1>6, <1>7

(* A byte that is written leaves those that were stored alone. *)
LEMMA StoredStays ==
  ASSUME Steady, NEW s, NEW b, Stored(s, b),
         NEW fetch, secondary_oamdata' = [secondary_oamdata EXCEPT ![secondary_oamaddr] = fetch],
         DOMAIN secondary_oamdata = 0..(SecondaryLen - 1),
         Place(s, b) \in 0..(SecondaryLen - 1), secondary_oamaddr \in Nat,
         secondary_oamaddr' \in Nat, secondary_oamaddr' >= secondary_oamaddr
  PROVE  Stored(s, b)'
<1>1. Place(s, b)' = Place(s, b)
  BY SameSprites DEF Place
<1>2. Place(s, b) # secondary_oamaddr /\ Place(s, b) < secondary_oamaddr
  BY Sizes DEF Stored
<1>3. secondary_oamdata'[Place(s, b)] = secondary_oamdata[Place(s, b)]
  BY <1>2
<1>4. Place(s, b) < secondary_oamaddr'
  BY <1>2, Sizes
<1> QED BY <1>1, <1>3, <1>4 DEF Stored, Y

(* Before the sprite at hand. *)
LEMMA PlaceBefore ==
  ASSUME NEW s \in Shown, NEW b \in 0..(Bytes - 1), NEW h \in Nat, s < h
  PROVE  Place(s, b) \in Nat /\ Place(s, b) < Rank(h) * Bytes
<1>1. PICK r, q : r = Rank(s) /\ q = Rank(h)
  OBVIOUS
<1>2. r \in Nat /\ q \in Nat /\ r + 1 <= q
  BY <1>1, BelowType, RankBefore
<1>3. (r + 1) * Bytes <= q * Bytes /\ (r + 1) * Bytes = r * Bytes + Bytes /\ r * Bytes \in Nat /\ q * Bytes \in Nat
  BY <1>2, Growing, Sizes
<1>4. b \in Nat /\ b < Bytes
  BY Sizes
<1>5. r * Bytes + b \in Nat /\ r * Bytes + b < q * Bytes
  BY <1>3, <1>4, Sizes
<1> QED BY <1>1, <1>5 DEF Place

(* What was stored before a write of the filling part is there after it.  *)
LEMMA FillKeeps ==
  ASSUME AtWrite, Fills, InOam, secondary_oamaddr < SecondaryLen,
         secondary_oamdata' = [secondary_oamdata EXCEPT ![secondary_oamaddr] = oam_fetch],
         secondary_oamaddr' \in {secondary_oamaddr, secondary_oamaddr + 1},
         NEW s \in Shown, NEW b \in 0..(Bytes - 1),
         s < oamaddr_hi \/ (s = oamaddr_hi /\ b < oamaddr_lo)
  PROVE  Stored(s, b)'
<1>1. Stored(s, b)
  BY DEF Fills
<1>2. /\ oamaddr_hi \in Nat /\ oamaddr_lo \in Nat /\ oamaddr_lo < Bytes
      /\ Rank(oamaddr_hi) * Bytes \in Nat
      /\ secondary_oamaddr = Rank(oamaddr_hi) * Bytes + oamaddr_lo
      /\ secondary_oamaddr \in 0..(SecondaryLen - 1)
  BY FillPlace
<1>3. Place(s, b) \in Nat
  <2>1. CASE s < oamaddr_hi
    BY <1>2, <2>1, PlaceBefore
  <2>2. CASE s = oamaddr_hi
    BY <1>2, <2>2, Sizes DEF Place
  <2> QED BY <2>1, <2>2
<1>4. Place(s, b) \in 0..(SecondaryLen - 1)
  BY <1>1, <1>2, <1>3, Sizes DEF Stored
<1>5. secondary_oamaddr \in Nat /\ secondary_oamaddr' \in Nat /\ secondary_oamaddr' >= secondary_oamaddr
  BY <1>2, Sizes
<1>6. Steady /\ DOMAIN secondary_oamdata = 0..(SecondaryLen - 1)
  BY DEF AtWrite
<1> QED BY <1>1, <1>4, <1>5, <1>6, StoredStays

(* The byte at hand, when it is on the line, belongs to a sprite that is.  *)
LEMMA AtShown ==
  ASSUME AtWrite, Fills, InOam, secondary_oamaddr < SecondaryLen, InRange
  PROVE  oamaddr_hi \in Shown
<1>1. CASE spr_in_range
  BY <1>1 DEF Fills
<1>2. CASE ~spr_in_range
  <2>1. oamaddr_lo = 0 /\ oam_fetch \in on_line
    BY <1>2 DEF Fills, InRange
  <2>2. oamaddr_hi \in Nat /\ oamaddr_hi < Sprites /\ oam_fetch = oamaddr_hi * Bytes + oamaddr_lo
    BY AtWriteHas, FillPlace
  <2>3. oam_fetch = oamaddr_hi * Bytes
    <3>1. oamaddr_hi * Bytes \in Nat
      BY <2>2, Sizes
    <3> QED BY <2>1, <2>2, <3>1
  <2>4. oamaddr_hi \in 0..(Sprites - 1)
    BY <2>2, Sizes
  <2> QED BY <2>1, <2>3, <2>4 DEF Shown, Y
<1> QED BY <1>1, <1>2

LEMMA AtHidden ==
  ASSUME AtWrite, Fills, InOam, secondary_oamaddr < SecondaryLen, ~InRange
  PROVE  oamaddr_hi \notin Shown /\ oamaddr_lo = 0
<1>1. oamaddr_lo = 0 /\ oam_fetch \notin on_line
  BY DEF Fills, InRange
<1>2. oamaddr_hi \in Nat /\ oam_fetch = oamaddr_hi * Bytes + oamaddr_lo
  BY AtWriteHas, FillPlace
<1>3. oam_fetch = oamaddr_hi * Bytes
  <2>1. oamaddr_hi * Bytes \in Nat
    BY <1>2, Sizes
  <2> QED BY <1>1, <1>2, <2>1
<1> QED BY <1>1, <1>3 DEF Shown, Y

(* The next sprite's turn comes, with the first n seen, n > 0. *)
Turned(n) ==
  /\ secondary_oamaddr' = Rank(n) * Bytes
  /\ Rank(n) <= Slots
  /\ Rank(n) = Slots => n - 1 \in Shown
  /\ oamaddr_hi' = n % Sprites /\ oamaddr_lo' = 0 /\ spr_in_range' = FALSE
  /\ oam_eval_done' <=> n = Sprites
  /\ Writes' = n + secondary_oamaddr' - Rank(n)
  /\ spr_overflow' <=> overflowed'
  /\ spr_zero_in_range' <=> 0 \in Shown
  /\ \A s \in Shown, b \in 0..(Bytes - 1) : s < n => Stored(s, b)'

LEMMA TurnedPhase ==
  ASSUME Steady, NEW n \in Nat, 1 <= n, n <= Sprites, Turned(n)
  PROVE  Phase'
<1> USE Constant
<1>0. Rank(n) \in Nat /\ Rank(n) * Bytes \in Nat /\ Shown' = Shown
  BY BelowType, Sizes, SameSprites
<1>1. CASE n = Sprites
  <2>1. ~Filling' /\ Decided' /\ ~Searching'
    BY <1>1 DEF Turned, Filling, Decided, Searching
  <2>2. Collected'
    BY <1>1, Filled DEF Turned
  <2>3. ~Ninth'
    BY <1>1, NoNinth, SameSprites DEF Turned
  <2>4. oam_eval_done'
    BY <1>1 DEF Turned
  <2> QED BY <2>1, <2>2, <2>3, <2>4 DEF Phase, Turned
<1>2. CASE n < Sprites
  <2>1. oamaddr_hi' = n /\ oamaddr_lo' = 0 /\ ~oam_eval_done' /\ ~spr_in_range'
    BY <1>2, Sizes DEF Turned
  <2>2. InOam'
    BY <1>2, <2>1, Sizes DEF InOam
  <2>3. CASE Rank(n) < Slots
    <3>1. (Rank(n) + 1) * Bytes <= SecondaryLen /\ (Rank(n) + 1) * Bytes = Rank(n) * Bytes + Bytes
      BY <1>0, <2>3, Growing, Sizes
    <3>2. secondary_oamaddr' < SecondaryLen
      BY <1>0, <3>1, Sizes DEF Turned
    <3>3. Filling' /\ ~Decided' /\ ~Searching'
      BY <1>0, <2>1, <3>2, Sizes DEF Turned, Filling, Decided, Searching
    <3>4. Rank(oamaddr_hi)' = Rank(n)
      BY <2>1, SameSprites
    <3>5. secondary_oamaddr' = Place(oamaddr_hi, oamaddr_lo)'
      BY <1>0, <2>1, <3>4 DEF Turned, Place
    <3>6. \A s \in Shown', b \in 0..(Bytes - 1) :
            s < oamaddr_hi' \/ (s = oamaddr_hi' /\ b < oamaddr_lo') => Stored(s, b)'
      <4>1. \A b \in 0..(Bytes - 1) : ~(b < 0)
        BY Sizes
      <4> QED BY <1>0, <2>1, <4>1 DEF Turned
    <3>7. Writes' = oamaddr_hi' + secondary_oamaddr' - Rank(oamaddr_hi)'
      BY <2>1, <3>4 DEF Turned
    <3>8. spr_zero_in_range' <=> 0 \in Shown' /\ (oamaddr_hi' > 0 \/ oamaddr_lo' > 0)
      BY <1>0, <2>1 DEF Turned
    <3>9. Fills'
      BY <2>1, <2>3, <3>4, <3>5, <3>6, <3>7, <3>8 DEF Fills, Turned
    <3> QED BY <2>2, <3>3, <3>9 DEF Phase
  <2>4. CASE Rank(n) = Slots
    <3>1. secondary_oamaddr' = SecondaryLen
      BY <2>4, Sizes DEF Turned
    <3>2. ~Filling' /\ ~Decided'
      BY <2>1, <3>1, Sizes DEF Filling, Decided
    <3>3. Collected'
      BY <2>4, Filled DEF Turned
    <3>4. PICK last : last = n - 1
      OBVIOUS
    <3>5. last \in Shown /\ last \in Nat /\ n = last + 1
      BY <2>4, <3>4 DEF Turned
    <3>6. Rank(last) = Slots - 1
      BY <2>4, <3>5, RankNext, BelowType, Sizes
    <3>7. last \in Kept'
      BY <3>5, <3>6, SameSprites, Sizes DEF Kept
    <3>8. SearchedFrom(last)'
      <4>1. Rank(last)' = Slots - 1 /\ last < oamaddr_hi'
        BY <2>1, <3>5, <3>6, SameSprites
      <4>2. oamaddr_lo' = (oamaddr_hi' - last - 1) % Bytes
        BY <2>1, <3>5, Sizes
      <4>3. \A s \in (last + 1)..(oamaddr_hi' - 1) : FALSE
        BY <2>1, <3>5
      <4> QED BY <4>1, <4>2, <4>3 DEF SearchedFrom
    <3>9. Searches'
      BY <2>1, <2>4, <3>1, <3>7, <3>8 DEF Searches, Turned
    <3> QED BY <2>2, <3>2, <3>3, <3>9 DEF Phase
  <2>5. Rank(n) < Slots \/ Rank(n) = Slots
    <3>1. PICK r : r = Rank(n)
      OBVIOUS
    <3>2. r \in Nat /\ Slots \in Nat /\ r <= Slots
      BY <1>0, <3>1, Sizes DEF Turned
    <3>3. r < Slots \/ r = Slots
      BY <3>2
    <3> QED BY <3>1, <3>3
  <2> QED BY <2>3, <2>4, <2>5
<1> QED BY <1>1, <1>2, Sizes

(* A byte that is kept. *)
LEMMA KeepStep ==
  ASSUME AtWrite, Keep
  PROVE  Phase'
<1> USE Constant
<1>1. Steady /\ Phase /\ Writes \in Nat /\ Writes' = Writes + 1
      /\ oam_fetch = oamaddr_hi * Bytes + oamaddr_lo /\ overflowed' = overflowed
  BY AtWriteHas
<1>2. Filling /\ ~Decided /\ secondary_oamaddr < SecondaryLen /\ InRange
  BY DEF Keep, Filling, Decided
<1>3. Fills /\ InOam
  BY <1>1, <1>2 DEF Phase
<1>4. PICK h, l, r : h = oamaddr_hi /\ l = oamaddr_lo /\ r = Rank(oamaddr_hi)
  OBVIOUS
<1>5. /\ h \in Nat /\ h < Sprites /\ l \in Nat /\ l < Bytes /\ r \in Nat /\ r * Bytes \in Nat
      /\ secondary_oamaddr = r * Bytes + l /\ secondary_oamaddr \in 0..(SecondaryLen - 1)
      /\ (r + 1) * Bytes = r * Bytes + Bytes /\ (r + 1) * Bytes <= SecondaryLen /\ r < Slots
  BY <1>2, <1>3, <1>4, FillPlace DEF Fills
<1>6. h \in Shown
  BY <1>2, <1>3, <1>4, AtShown
<1>7. /\ secondary_oamdata' = [secondary_oamdata EXCEPT ![secondary_oamaddr] = oam_fetch]
      /\ secondary_oamaddr' = secondary_oamaddr + 1
      /\ DOMAIN secondary_oamdata = 0..(SecondaryLen - 1)
  BY DEF Keep, AtWrite
<1>8. ASSUME NEW s \in Shown, NEW b \in 0..(Bytes - 1), s < h \/ (s = h /\ b <= l)
      PROVE  Stored(s, b)'
  <2>1. CASE s < h \/ (s = h /\ b < l)
    BY <1>2, <1>3, <1>4, <1>7, <2>1, FillKeeps
  <2>2. CASE s = h /\ b = l
    <3>1. Place(s, b) = secondary_oamaddr /\ Place(s, b)' = Place(s, b)
      BY <1>1, <1>4, <1>5, <2>2, SameSprites DEF Place
    <3>2. secondary_oamdata'[secondary_oamaddr] = oam_fetch
      BY <1>5, <1>7
    <3>3. oam_fetch = Y(s) + b
      BY <1>1, <1>4, <2>2 DEF Y
    <3> QED BY <1>5, <1>7, <3>1, <3>2, <3>3, Sizes DEF Stored, Y
  <2> QED BY <1>5, <1>8, <2>1, <2>2, Sizes
<1>9. spr_zero_in_range' <=> 0 \in Shown
  <2>1. spr_zero_in_range' <=> spr_zero_in_range \/ h = 0
    BY <1>4 DEF Keep
  <2>2. spr_zero_in_range <=> 0 \in Shown /\ (h > 0 \/ l > 0)
    BY <1>3, <1>4 DEF Fills
  <2> QED BY <1>5, <1>6, <2>1, <2>2
<1>10. spr_overflow' <=> overflowed'
  BY <1>1, <1>3 DEF Keep, Fills
<1>11. Writes' = h + secondary_oamaddr' - r
  <2>1. Writes = h + secondary_oamaddr - r
    BY <1>3, <1>4 DEF Fills
  <2>2. PICK n, w : n = secondary_oamaddr /\ w = Writes
    OBVIOUS
  <2>3. n \in Nat /\ w \in Nat /\ secondary_oamaddr' = n + 1 /\ Writes' = w + 1 /\ w = h + n - r
    BY <1>1, <1>5, <1>7, <2>1, <2>2, Sizes
  <2>4. w + 1 = h + (n + 1) - r
    BY <1>5, <2>3
  <2> QED BY <2>3, <2>4
<1>12. CASE l = Bytes - 1
  <2>1. PICK n : n = h + 1
    OBVIOUS
  <2>2. n \in Nat /\ 1 <= n /\ n <= Sprites /\ n - 1 = h
    BY <1>5, <2>1, Sizes
  <2>3. Rank(n) = r + 1
    BY <1>4, <1>5, <1>6, <2>1, RankNext
  <2>4. secondary_oamaddr' = Rank(n) * Bytes
    BY <1>5, <1>7, <1>12, <2>3, Sizes
  <2>5. NextSprite = n % Sprites
    BY <1>4, <2>1 DEF NextSprite
  <2>6. n % Sprites = 0 <=> n = Sprites
    BY <2>2, SmallRemainder, Sizes
  <2>7. /\ oamaddr_hi' = n % Sprites /\ oamaddr_lo' = 0 /\ spr_in_range' = FALSE
        /\ oam_eval_done' <=> n = Sprites
    BY <1>4, <1>12, <2>5, <2>6 DEF Keep
  <2>8. \A s \in Shown, b \in 0..(Bytes - 1) : s < n => Stored(s, b)'
    <3>1. TAKE s \in Shown, b \in 0..(Bytes - 1)
    <3>2. s < n => s < h \/ s = h
      BY <1>5, <2>1, ShownType
    <3>3. b <= l
      BY <1>12, Sizes
    <3> QED BY <1>8, <3>2, <3>3
  <2>9. Writes' = n + secondary_oamaddr' - Rank(n)
    BY <1>5, <1>7, <1>11, <2>1, <2>3, Sizes
  <2>10. Rank(n) <= Slots /\ (Rank(n) = Slots => n - 1 \in Shown)
    BY <1>5, <1>6, <2>2, <2>3, Sizes
  <2>11. Turned(n)
    BY <1>9, <1>10, <2>4, <2>7, <2>8, <2>9, <2>10 DEF Turned
  <2> QED BY <1>1, <2>2, <2>11, TurnedPhase
<1>13. CASE l # Bytes - 1
  <2>1. oamaddr_hi' = h /\ oamaddr_lo' = l + 1 /\ spr_in_range' /\ ~oam_eval_done'
    BY <1>4, <1>13 DEF Keep
  <2>2. l + 1 <= Bytes - 1 /\ l + 1 \in 0..(Bytes - 1)
    BY <1>5, <1>13, Sizes
  <2>3. secondary_oamaddr' < SecondaryLen
    BY <1>5, <1>7, <2>2, Sizes
  <2>4. InOam'
    BY <1>5, <2>1, <2>2, Sizes DEF InOam
  <2>5. Filling' /\ ~Decided' /\ ~Searching'
    BY <1>5, <1>7, <2>1, <2>3, Sizes DEF Filling, Decided, Searching
  <2>6. Rank(oamaddr_hi)' = r
    BY <1>1, <1>4, <2>1, SameSprites
  <2>7. secondary_oamaddr' = Place(oamaddr_hi, oamaddr_lo)'
    BY <1>5, <1>7, <2>1, <2>6, Sizes DEF Place
  <2>8. \A s \in Shown', b \in 0..(Bytes - 1) :
          s < oamaddr_hi' \/ (s = oamaddr_hi' /\ b < oamaddr_lo') => Stored(s, b)'
    <3>1. Shown' = Shown
      BY <1>1, SameSprites
    <3>2. \A b \in 0..(Bytes - 1) : b < l + 1 => b <= l
      BY <1>5, Sizes
    <3> QED BY <1>8, <2>1, <3>1, <3>2
  <2>9. spr_zero_in_range' <=> 0 \in Shown' /\ (oamaddr_hi' > 0 \/ oamaddr_lo' > 0)
    BY <1>1, <1>5, <1>9, <2>1, SameSprites
  <2>10. oamaddr_lo' >= 1 /\ oamaddr_hi' \in Shown'
    BY <1>1, <1>5, <1>6, <2>1, SameSprites
  <2>11. Rank(oamaddr_hi)' < Slots /\ Writes' = oamaddr_hi' + secondary_oamaddr' - Rank(oamaddr_hi)'
    BY <1>5, <1>11, <2>1, <2>6
  <2>12. Fills'
    BY <1>10, <2>1, <2>7, <2>8, <2>9, <2>10, <2>11 DEF Fills
  <2> QED BY <2>4, <2>5, <2>12 DEF Phase
<1> QED BY <1>12, <1>13

(* A byte that is not. *)
LEMMA PassStep ==
  ASSUME AtWrite, Pass
  PROVE  Phase'
<1>1. Steady /\ Phase /\ Writes \in Nat /\ Writes' = Writes + 1 /\ overflowed' = overflowed
  BY AtWriteHas
<1>2. Filling /\ ~Decided /\ secondary_oamaddr < SecondaryLen /\ ~InRange
  BY DEF Pass, Filling, Decided
<1>3. Fills /\ InOam
  BY <1>1, <1>2 DEF Phase
<1>4. PICK h, r : h = oamaddr_hi /\ r = Rank(oamaddr_hi)
  OBVIOUS
<1>5. /\ h \in Nat /\ h < Sprites /\ r \in Nat /\ r * Bytes \in Nat /\ r < Slots
      /\ secondary_oamaddr = r * Bytes + oamaddr_lo
  BY <1>2, <1>3, <1>4, FillPlace DEF Fills
<1>6. h \notin Shown /\ oamaddr_lo = 0
  BY <1>2, <1>3, <1>4, AtHidden
<1>7. /\ secondary_oamdata' = [secondary_oamdata EXCEPT ![secondary_oamaddr] = oam_fetch]
      /\ secondary_oamaddr' = secondary_oamaddr
  BY DEF Pass
<1>8. PICK n : n = h + 1
  OBVIOUS
<1>9. n \in Nat /\ 1 <= n /\ n <= Sprites
  BY <1>5, <1>8, Sizes
<1>10. Rank(n) = r
  BY <1>4, <1>5, <1>6, <1>8, RankNext
<1>11. secondary_oamaddr' = Rank(n) * Bytes
  BY <1>5, <1>6, <1>7, <1>10
<1>12. NextSprite = n % Sprites /\ (n % Sprites = 0 <=> n = Sprites)
  BY <1>4, <1>8, <1>9, SmallRemainder, Sizes DEF NextSprite
<1>13. /\ oamaddr_hi' = n % Sprites /\ oamaddr_lo' = 0 /\ spr_in_range' = FALSE
       /\ oam_eval_done' <=> n = Sprites
  <2>1. spr_in_range = FALSE
    BY <1>2 DEF InRange
  <2> QED BY <1>6, <1>12, <2>1 DEF Pass
<1>14. \A s \in Shown, b \in 0..(Bytes - 1) : s < n => Stored(s, b)'
  <2>1. TAKE s \in Shown, b \in 0..(Bytes - 1)
  <2>2. s < n => s < h
    BY <1>5, <1>6, <1>8, ShownType
  <2> QED BY <1>2, <1>3, <1>4, <1>7, <2>2, FillKeeps
<1>15. Writes' = n + secondary_oamaddr' - Rank(n)
  <2>1. Writes = h + secondary_oamaddr - r
    BY <1>3, <1>4 DEF Fills
  <2>2. secondary_oamaddr \in Nat
    BY <1>5, <1>6
  <2> QED BY <1>1, <1>5, <1>7, <1>8, <1>10, <2>1, <2>2
<1>16. Rank(n) <= Slots /\ Rank(n) # Slots
  BY <1>5, <1>10, Sizes
<1>17. spr_overflow' <=> overflowed'
  BY <1>1, <1>3 DEF Pass, Fills
<1>18. spr_zero_in_range' <=> 0 \in Shown
  <2>1. spr_zero_in_range' <=> 0 \in Shown /\ (h > 0 \/ oamaddr_lo > 0)
    BY <1>3, <1>4 DEF Pass, Fills
  <2> QED BY <1>5, <1>6, <2>1
<1>19. Turned(n)
  BY <1>11, <1>13, <1>14, <1>15, <1>16, <1>17, <1>18 DEF Turned
<1> QED BY <1>1, <1>9, <1>19, TurnedPhase

-----------------------------------------------------------------------------
(* Searching for another sprite. *)

LEMMA SecondaryType ==
  ASSUME Phase
  PROVE  secondary_oamaddr \in Nat
<1>1. CASE Filling
  <2>1. Fills /\ InOam /\ secondary_oamaddr < SecondaryLen
    BY <1>1 DEF Phase, Filling, Decided
  <2> QED BY <2>1, FillPlace, Sizes
<1>2. CASE ~Filling
  <2>1. Cardinality(Kept) * Bytes \in Nat
    BY KeptType, Sizes
  <2> QED BY <1>2, <2>1 DEF Phase, Collected
<1> QED BY <1>1, <1>2

(* What was collected stays. *)
LEMMA CollectedStays ==
  ASSUME Steady, Collected, UNCHANGED <<secondary, spr_zero_in_range>>
  PROVE  Collected'
<1>1. Kept' = Kept /\ Shown' = Shown /\ \A s : Rank(s)' = Rank(s)
  BY SameSprites
<1>2. secondary_oamaddr' = secondary_oamaddr /\ secondary_oamdata' = secondary_oamdata
      /\ spr_zero_in_range' = spr_zero_in_range
  BY DEF secondary
<1>3. \A s, b : Place(s, b)' = Place(s, b)
  BY <1>1 DEF Place
<1>4. ASSUME NEW s \in Kept, NEW b \in 0..(Bytes - 1) PROVE Stored(s, b)'
  BY <1>2, <1>3 DEF Collected, Stored, Y
<1> QED BY <1>1, <1>2, <1>4 DEF Collected

(* The secondary OAM is full when there is no room in it.                  *)
LEMMA Full ==
  ASSUME Phase, ~oam_eval_done, secondary_oamaddr >= SecondaryLen
  PROVE  /\ ~Filling /\ Collected /\ ~(secondary_oamaddr < SecondaryLen)
         /\ spr_in_range => Ninth
         /\ ~spr_in_range => Searching /\ Searches /\ InOam
<1>1. ~(secondary_oamaddr < SecondaryLen)
  BY SecondaryType, Sizes
<1> QED BY <1>1 DEF Phase, Filling, Searching, Decided

(* The byte at hand is the one that the search is due to look at.          *)
LEMMA SearchAt ==
  ASSUME AtWrite, InOam, NEW last \in Kept, SearchedFrom(last)
  PROVE  /\ last \in Nat /\ oamaddr_hi \in Nat /\ last < oamaddr_hi /\ oamaddr_hi < Sprites
         /\ oamaddr_hi - last - 1 \in Nat
         /\ oam_fetch = Y(oamaddr_hi) + ((oamaddr_hi - last - 1) % Bytes)
<1>1. last \in Nat /\ oamaddr_hi \in Nat /\ last < oamaddr_hi /\ oamaddr_hi < Sprites
  BY KeptType, Sizes DEF InOam, SearchedFrom
<1>2. oam_fetch = oamaddr_hi * Bytes + oamaddr_lo
  BY AtWriteHas
<1> QED BY <1>1, <1>2 DEF SearchedFrom, Y

(* A sprite that a search missed everywhere is not there.                  *)
LEMMA NoneFound ==
  ASSUME NEW last \in Kept, Rank(last) = Slots - 1,
         \A s \in (last + 1)..(Sprites - 1) : Missed(last, s)
  PROVE  ~Ninth
<1> SUFFICES ASSUME NEW other \in Kept, Rank(other) = Slots - 1,
                    NEW s \in (other + 1)..(Sprites - 1), Y(s) + ((s - other - 1) % Bytes) \in on_line
             PROVE  FALSE
  BY DEF Ninth
<1>1. other \in Shown /\ last \in Shown
  BY KeptType
<1>2. other = last
  BY <1>1, RankUnique
<1> QED BY <1>2 DEF Missed

LEMMA MissStep ==
  ASSUME AtWrite, Miss
  PROVE  Phase'
<1> USE Constant
<1>1. Steady /\ Phase /\ Writes \in Nat /\ Writes' = Writes + 1 /\ overflowed' = overflowed
  BY AtWriteHas
<1>2. Collected /\ ~(secondary_oamaddr < SecondaryLen) /\ Searches /\ InOam /\ ~spr_in_range
      /\ oam_fetch \notin on_line
  BY <1>1, Full DEF Miss, InRange
<1>3. UNCHANGED <<secondary, spr_zero_in_range>> /\ UNCHANGED <<secondary_oamaddr, spr_in_range, spr_overflow>>
  BY DEF Miss, secondary
<1>4. Collected'
  BY <1>1, <1>2, <1>3, CollectedStays
<1>5. PICK last \in Kept : SearchedFrom(last)
  BY <1>2 DEF Searches
<1>6. PICK h, d : h = oamaddr_hi /\ d = oamaddr_hi - last - 1
  OBVIOUS
<1>7. /\ last \in Nat /\ h \in Nat /\ last < h /\ h < Sprites /\ d \in Nat /\ d = h - last - 1
      /\ oam_fetch = Y(h) + (d % Bytes) /\ oamaddr_lo = d % Bytes
  BY <1>2, <1>5, <1>6, SearchAt DEF SearchedFrom
<1>8. \A s \in (last + 1)..h : Missed(last, s)
  <2>1. Missed(last, h)
    BY <1>2, <1>7 DEF Missed
  <2>2. TAKE s \in (last + 1)..h
  <2>3. s = h \/ s \in (last + 1)..(h - 1)
    BY <1>7
  <2> QED BY <1>5, <1>6, <2>1, <2>3 DEF SearchedFrom
<1>9. Rank(last) = Slots - 1
  BY <1>5 DEF SearchedFrom
<1>10. NextSprite = (IF h + 1 = Sprites THEN 0 ELSE h + 1)
  BY <1>6, <1>7, Followed DEF NextSprite
<1>11. CASE h + 1 = Sprites
  <2>1. oam_eval_done'
    BY <1>10, <1>11 DEF Miss
  <2>2. ~Ninth'
    <3>1. \A s \in (last + 1)..(Sprites - 1) : Missed(last, s)
      BY <1>7, <1>8, <1>11
    <3> QED BY <1>1, <1>9, <3>1, NoneFound, SameSprites
  <2>3. spr_overflow' <=> overflowed'
    BY <1>1, <1>2, <1>3 DEF Searches
  <2>4. Decided' /\ ~Filling' /\ ~Searching'
    BY <2>1 DEF Decided, Filling, Searching
  <2> QED BY <1>4, <2>1, <2>2, <2>3, <2>4 DEF Phase
<1>12. CASE h + 1 # Sprites
  <2>1. oamaddr_hi' = h + 1 /\ ~oam_eval_done' /\ oamaddr_lo' = (oamaddr_lo + 1) % Bytes
    <3>1. NextSprite = h + 1 /\ h + 1 # 0
      BY <1>7, <1>10, <1>12
    <3> QED BY <3>1 DEF Miss
  <2>2. oamaddr_lo' = (d + 1) % Bytes /\ oamaddr_lo' \in 0..(Bytes - 1)
    <3>1. ((d % Bytes) + 1) % Bytes = (d + 1) % Bytes
      <4>1. d \in Nat /\ Bytes \in Nat /\ Bytes >= 1
        BY <1>7, Sizes
      <4> QED BY <4>1, NextRemainder
    <3>2. (d + 1) % Bytes \in 0..(Bytes - 1)
      BY <1>7, Sizes
    <3> QED BY <1>7, <2>1, <3>1, <3>2
  <2>3. InOam'
    BY <1>7, <1>12, <2>1, <2>2, Sizes DEF InOam
  <2>4. ~Filling' /\ ~Decided'
    BY <1>2, <1>3, <2>1 DEF Filling, Decided
  <2>5. SearchedFrom(last)'
    <3>1. Rank(last)' = Slots - 1
      BY <1>1, <1>9, SameSprites
    <3>2. oamaddr_hi' - last - 1 = d + 1 /\ last < oamaddr_hi'
      BY <1>7, <2>1
    <3>3. \A s \in (last + 1)..(oamaddr_hi' - 1) : Missed(last, s)
      BY <1>7, <1>8, <2>1
    <3>4. \A s \in (last + 1)..(oamaddr_hi' - 1) : Missed(last, s)'
      BY <1>1, <3>3 DEF Missed, Steady, Y
    <3> QED BY <2>2, <3>1, <3>2, <3>4 DEF SearchedFrom
  <2>6. last \in Kept'
    BY <1>1, SameSprites
  <2>7. secondary_oamaddr' = SecondaryLen' /\ (spr_overflow' <=> overflowed')
    BY <1>1, <1>2, <1>3 DEF Searches
  <2>8. Writes' = oamaddr_hi' + SecondaryLen' - Slots
    <3>1. Writes = h + SecondaryLen - Slots
      BY <1>2, <1>6 DEF Searches
    <3> QED BY <1>1, <1>7, <2>1, <3>1, Sizes
  <2>9. Searches'
    BY <2>5, <2>6, <2>7, <2>8 DEF Searches
  <2> QED BY <1>4, <2>3, <2>4, <2>9 DEF Phase
<1> QED BY <1>11, <1>12

LEMMA OverflowStep ==
  ASSUME AtWrite, Overflow
  PROVE  Phase' /\ Decided'
<1> USE Constant
<1>1. Steady /\ Phase
  BY AtWriteHas
<1>2. ~oam_eval_done /\ secondary_oamaddr >= SecondaryLen
  BY DEF Overflow
<1>3. Collected /\ ~(secondary_oamaddr < SecondaryLen) /\ (spr_in_range => Ninth)
      /\ (~spr_in_range => Searches /\ InOam)
  BY <1>1, <1>2, Full
<1>4. Ninth
  <2>1. CASE spr_in_range
    BY <1>3, <2>1
  <2>2. CASE ~spr_in_range
    <3>1. oam_fetch \in on_line
      BY <2>2 DEF Overflow, InRange
    <3>2. PICK last \in Kept : SearchedFrom(last)
      BY <1>3, <2>2 DEF Searches
    <3>3. PICK h : h = oamaddr_hi
      OBVIOUS
    <3>4. /\ last \in Nat /\ h \in Nat /\ last < h /\ h < Sprites
          /\ oam_fetch = Y(h) + ((h - last - 1) % Bytes)
      BY <1>3, <2>2, <3>2, <3>3, SearchAt
    <3>5. h \in (last + 1)..(Sprites - 1)
      BY <3>4, Sizes
    <3>6. Rank(last) = Slots - 1
      BY <3>2 DEF SearchedFrom
    <3> QED BY <3>1, <3>4, <3>5, <3>6 DEF Ninth
  <2> QED BY <2>1, <2>2
<1>5. Ninth'
  BY <1>1, <1>4, SameSprites
<1>6. UNCHANGED <<secondary, spr_zero_in_range>> /\ secondary_oamaddr' = secondary_oamaddr
  BY DEF Overflow, secondary
<1>7. Collected'
  BY <1>1, <1>3, <1>6, CollectedStays
<1>8. spr_overflow' /\ spr_in_range'
  BY DEF Overflow
<1>9. Decided' /\ ~Filling' /\ ~Searching'
  BY <1>3, <1>6, <1>8 DEF Decided, Filling, Searching
<1> QED BY <1>5, <1>7, <1>8, <1>9 DEF Phase

LEMMA IdleStep ==
  ASSUME AtWrite, IdleOn
  PROVE  Phase' /\ Decided'
<1>1. Steady /\ Phase /\ overflowed' = overflowed
  BY AtWriteHas
<1>2. oam_eval_done /\ oam_eval_done' = oam_eval_done /\ spr_overflow' = spr_overflow
      /\ UNCHANGED <<secondary, spr_zero_in_range>>
  BY DEF IdleOn
<1>3. Decided /\ ~Filling /\ Decided' /\ ~Filling' /\ ~Searching'
  BY <1>2 DEF Decided, Filling, Searching
<1>4. Collected /\ (spr_overflow <=> overflowed \/ Ninth)
  BY <1>1, <1>3 DEF Phase
<1>5. Collected'
  BY <1>1, <1>2, <1>4, CollectedStays
<1>6. spr_overflow' <=> overflowed' \/ Ninth'
  BY <1>1, <1>2, <1>4, SameSprites
<1> QED BY <1>2, <1>3, <1>5, <1>6 DEF Phase

LEMMA WriteStep ==
  ASSUME AtWrite
  PROVE  Phase' /\ DOMAIN secondary_oamdata' = 0..(SecondaryLen - 1)
<1>1. DOMAIN secondary_oamdata = 0..(SecondaryLen - 1) /\ (IdleOn \/ Keep \/ Pass \/ Overflow \/ Miss)
  BY DEF AtWrite, WriteDot
<1>2. CASE IdleOn
  BY <1>1, <1>2, IdleStep DEF IdleOn, secondary
<1>3. CASE Keep
  BY <1>1, <1>3, KeepStep DEF Keep
<1>4. CASE Pass
  BY <1>1, <1>4, PassStep DEF Pass
<1>5. CASE Overflow
  BY <1>1, <1>5, OverflowStep DEF Overflow, secondary
<1>6. CASE Miss
  BY <1>1, <1>6, MissStep DEF Miss, secondary
<1> QED BY <1>1, <1>2, <1>3, <1>4, <1>5, <1>6

-----------------------------------------------------------------------------
(* The end of the walk. *)

(* While something is left to decide there are dots left to do it in.      *)
LEMMA Timely ==
  ASSUME Phase, ~Decided
  PROVE  2 * Writes + 2 < EvalDots
<1>1. PICK room : room = Slots * Bytes - Slots
  OBVIOUS
<1>2. room \in Int /\ Sprites \in Nat /\ Bytes \in Nat /\ Bytes >= 2 /\ EvalDots \in Nat
      /\ EvalDots >= 2 * (Sprites + room + Bytes)
  <2>1. Slots * Bytes \in Nat /\ Slots \in Nat
    BY Sizes
  <2> QED BY <1>1, <2>1, LongEnough, Sizes
<1>3. InOam
  BY DEF Phase
<1>4. oamaddr_hi \in Nat /\ oamaddr_hi <= Sprites - 1
  BY <1>3, Sizes DEF InOam
<1>5. CASE Filling
  <2>1. Fills /\ secondary_oamaddr < SecondaryLen
    BY <1>5 DEF Phase, Filling
  <2>2. PICK r, l, h, n : r = Rank(oamaddr_hi) /\ l = oamaddr_lo /\ h = oamaddr_hi /\ n = Writes
    OBVIOUS
  <2>3. r \in Nat /\ r + 1 <= Slots /\ l \in Nat /\ l <= Bytes - 1 /\ r * Bytes \in Nat
        /\ secondary_oamaddr = r * Bytes + l
    BY <1>3, <2>1, <2>2, FillPlace, BelowType, Sizes DEF Fills
  <2>4. n = h + (r * Bytes + l) - r
    BY <2>1, <2>2, <2>3 DEF Fills
  <2>5. (r + 1) * (Bytes - 1) <= Slots * (Bytes - 1)
    BY <2>3, Growing, Sizes
  <2>6. (r + 1) * (Bytes - 1) = r * Bytes + Bytes - r - 1
    BY <2>3, Sizes
  <2>7. Slots * (Bytes - 1) = room
    BY <1>1, Sizes
  <2>8. r * Bytes - r + Bytes - 1 <= room
    BY <1>2, <2>3, <2>5, <2>6, <2>7
  <2>9. n <= Sprites - 1 + room /\ n \in Int
    BY <1>2, <1>4, <2>2, <2>3, <2>4, <2>8
  <2> QED BY <1>2, <2>2, <2>9
<1>6. CASE ~Filling
  <2>1. Searches
    BY <1>6 DEF Phase, Filling, Searching, Decided
  <2>2. PICK h, n : h = oamaddr_hi /\ n = Writes
    OBVIOUS
  <2>3. n = h + room
    <3>1. n = h + SecondaryLen - Slots
      BY <2>1, <2>2 DEF Searches
    <3>2. SecondaryLen = Slots * Bytes /\ SecondaryLen \in Nat /\ Slots \in Nat
      BY Sizes
    <3> QED BY <1>1, <1>4, <2>2, <3>1, <3>2
  <2> QED BY <1>2, <1>4, <2>2, <2>3
<1> QED BY <1>5, <1>6

(* The line is long enough for a dot after the clearing. *)
LEMMA LineLong == EvalDots \in Nat /\ EvalDots >= 2
<1>1. 1 * Slots <= Bytes * Slots
  BY Growing, Sizes
<1>2. PICK room : room = Slots * Bytes
  OBVIOUS
<1>3. room \in Nat /\ Slots \in Nat /\ Slots <= room
  BY <1>1, <1>2, Sizes
<1>4. EvalDots >= 2 * (Sprites + room - Slots + Bytes)
  BY <1>2, LongEnough
<1>5. EvalDots \in Nat /\ Sprites \in Nat /\ Sprites >= 1 /\ Bytes \in Nat
  BY Sizes
<1> QED BY <1>3, <1>4, <1>5

(* The last write of a line finds everything decided. *)
LEMMA LastWrite ==
  ASSUME AtWrite, dot = EvalDots
  PROVE  Result'
<1>1. Steady /\ Phase /\ Writes \in Nat /\ dot = 2 * Writes + 2
  BY AtWriteHas
<1>2. Decided
  <2>1. ~(2 * Writes + 2 < EvalDots)
    BY <1>1, LineLong
  <2> QED BY <1>1, <2>1, Timely
<1>3. ~Filling /\ Collected
  BY <1>1, <1>2 DEF Phase, Filling, Decided
<1>4. IdleOn \/ Overflow
  BY <1>2 DEF AtWrite, WriteDot, Decided, InRange, Keep, Pass, Miss
<1>5. Phase' /\ Decided'
  BY <1>4, IdleStep, OverflowStep
<1>6. Collected' /\ (spr_overflow' <=> overflowed' \/ Ninth')
  <2>1. ~Filling'
    BY <1>5 DEF Filling, Decided
  <2> QED BY <1>5, <2>1 DEF Phase
<1>7. spr_zero_visible' = spr_zero_in_range /\ spr_count' = secondary_oamaddr \div Bytes
  BY DEF AtWrite, WriteDot, EndEval
<1>8. Kept' = Kept /\ Shown' = Shown
  BY <1>1, SameSprites
<1>9. secondary_oamaddr \div Bytes = Cardinality(Kept)
  <2>1. Cardinality(Kept) \in Nat /\ Bytes \in Nat /\ Bytes >= 1
    BY KeptType, Sizes
  <2>2. (Cardinality(Kept) * Bytes) \div Bytes = Cardinality(Kept)
    BY <2>1, Quotient
  <2> QED BY <1>3, <2>2 DEF Collected
<1>10. spr_zero_visible' <=> 0 \in Shown'
  BY <1>3, <1>7, <1>8 DEF Collected
<1> QED BY <1>6, <1>7, <1>8, <1>9, <1>10 DEF Result

-----------------------------------------------------------------------------
(* The steps. *)

(* A line on which nobody interferes, from its first read on.              *)
LEMMA CleanHas ==
  ASSUME IInv, clean
  PROVE  /\ rendering /\ line = "visible" /\ dot \in Nat /\ 1 <= dot /\ dot <= LastDot
         /\ DOMAIN secondary_oamdata = 0..(SecondaryLen - 1)
         /\ dot = 1 => oamaddr = 0 /\ (spr_overflow <=> overflowed)
         /\ 2 <= dot /\ dot <= EvalDots => Walking
         /\ dot > EvalDots => Result
<1>1. dot \in 1..LastDot
  BY DEF IInv
<1>2. dot \in Nat /\ 1 <= dot /\ dot <= LastDot
  BY <1>1, Sizes
<1> QED BY <1>2 DEF IInv

LEMMA WriteKept ==
  ASSUME IInv, clean, WriteDot
  PROVE  IInv'
<1> USE Constant
<1>1. /\ dot' = dot + 1 /\ Steady /\ rendering' = rendering /\ line' = line /\ overflowed' = overflowed
      /\ dot <= EvalDots /\ dot % 2 = 0 /\ oamaddr' = oamaddr_hi' * Bytes + oamaddr_lo'
  BY Sizes DEF WriteDot, Advance, Steady, history
<1>2. dot \in Nat /\ 2 <= dot
  BY <1>1, CleanHas
<1>3. AtWrite
  BY <1>1, <1>2, CleanHas DEF AtWrite
<1>4. Phase' /\ DOMAIN secondary_oamdata' = 0..(SecondaryLen - 1)
  BY <1>3, WriteStep
<1>5. dot' \in 1..LastDot /\ dot' # 1 /\ dot' % 2 = 1
  BY <1>1, <1>2, Sizes
<1>6. Walking'
  BY <1>1, <1>4, <1>5 DEF Walking
<1>7. dot' > EvalDots => Result'
  <2>1. dot' > EvalDots => dot = EvalDots
    BY <1>1, <1>2, Sizes
  <2> QED BY <1>3, <2>1, LastWrite
<1>8. rendering' /\ line' = "visible"
  BY <1>1, CleanHas
<1> QED BY <1>4, <1>5, <1>6, <1>7, <1>8 DEF IInv

(* A dot at which the walk rests. *)
LEMMA PhaseStays ==
  ASSUME Steady, Phase, Writes' = Writes,
         UNCHANGED <<secondary, spr_in_range, spr_zero_in_range, oam_eval_done, oamaddr_hi, oamaddr_lo,
                     spr_overflow, overflowed>>
  PROVE  Phase'
<1> USE Constant
<1>1. /\ secondary_oamaddr' = secondary_oamaddr /\ secondary_oamdata' = secondary_oamdata
      /\ spr_in_range' = spr_in_range /\ spr_zero_in_range' = spr_zero_in_range
      /\ oam_eval_done' = oam_eval_done /\ oamaddr_hi' = oamaddr_hi /\ oamaddr_lo' = oamaddr_lo
      /\ spr_overflow' = spr_overflow /\ overflowed' = overflowed
  BY DEF secondary
<1>2. Shown' = Shown /\ Kept' = Kept /\ (Ninth' <=> Ninth) /\ \A s : Rank(s)' = Rank(s)
  BY SameSprites
<1>3. (Decided' <=> Decided) /\ (Filling' <=> Filling) /\ (Searching' <=> Searching)
  BY <1>1 DEF Decided, Filling, Searching
<1>4. InOam' <=> InOam
  BY <1>1 DEF InOam
<1>5. Collected => Collected'
  BY <1>1, CollectedStays DEF secondary
<1>6. \A s, b : Place(s, b)' = Place(s, b)
  BY <1>2 DEF Place
<1>7. \A s, b : Stored(s, b)' <=> Stored(s, b)
  BY <1>1, <1>6 DEF Stored, Y
<1>8. Rank(oamaddr_hi)' = Rank(oamaddr_hi)
  BY <1>1, <1>2
<1>9. Place(oamaddr_hi, oamaddr_lo)' = Place(oamaddr_hi, oamaddr_lo)
  BY <1>1, <1>8 DEF Place
<1>10. ASSUME Fills PROVE Fills'
  BY <1>1, <1>2, <1>7, <1>8, <1>9, <1>10 DEF Fills
<1>11. ASSUME Searches PROVE Searches'
  <2>1. PICK last \in Kept : SearchedFrom(last)
    BY <1>11 DEF Searches
  <2>2. \A s : Missed(last, s)' <=> Missed(last, s)
    BY DEF Missed, Y, Steady
  <2>3. SearchedFrom(last)'
    BY <1>1, <1>2, <2>1, <2>2 DEF SearchedFrom
  <2> QED BY <1>1, <1>2, <1>11, <2>3 DEF Searches
<1> QED BY <1>1, <1>2, <1>3, <1>4, <1>5, <1>10, <1>11 DEF Phase

(* The first read begins the walk. *)
LEMMA StartKept ==
  ASSUME Steady, dot = 1, dot' = 2, oamaddr = 0, StartEval, secondary_oamdata' = secondary_oamdata,
         spr_overflow' <=> overflowed'
  PROVE  /\ oamaddr_hi' = 0 /\ oamaddr_lo' = 0
         /\ Phase'
<1> USE Constant
<1>1. oamaddr_hi' = 0 /\ oamaddr_lo' = 0
  BY Sizes DEF StartEval
<1>2. secondary_oamaddr' = 0 /\ ~spr_in_range' /\ ~spr_zero_in_range' /\ ~oam_eval_done'
  BY DEF StartEval
<1>3. 0 < SecondaryLen
  <2>1. 1 * Bytes <= Slots * Bytes
    BY Growing, Sizes
  <2>2. PICK room : room = Slots * Bytes
    OBVIOUS
  <2>3. Bytes \in Nat /\ Bytes >= 2 /\ room \in Nat /\ Bytes <= room /\ SecondaryLen = room
    BY <2>1, <2>2, Sizes
  <2> QED BY <2>3
<1>4. Filling' /\ ~Decided' /\ ~Searching'
  BY <1>2, <1>3 DEF Filling, Decided, Searching
<1>5. InOam'
  BY <1>1, Sizes DEF InOam
<1>6. Rank(oamaddr_hi)' = 0
  BY <1>1, RankZero, SameSprites
<1>7. secondary_oamaddr' = Place(oamaddr_hi, oamaddr_lo)'
  <2>1. 0 * Bytes + 0 = 0
    BY Sizes
  <2> QED BY <1>1, <1>2, <1>6, <2>1 DEF Place
<1>8. Writes' = 0
  BY DEF Writes
<1>9. \A s \in Shown', b \in 0..(Bytes - 1) :
        s < oamaddr_hi' \/ (s = oamaddr_hi' /\ b < oamaddr_lo') => Stored(s, b)'
  <2>1. \A s \in Shown' : ~(s < 0)
    BY ShownType, SameSprites
  <2>2. \A b \in 0..(Bytes - 1) : ~(b < 0)
    BY Sizes
  <2> QED BY <1>1, <2>1, <2>2
<1>10. Fills'
  BY <1>1, <1>2, <1>6, <1>7, <1>8, <1>9, Sizes DEF Fills
<1> QED BY <1>1, <1>4, <1>5, <1>10 DEF Phase

LEMMA ReadKept ==
  ASSUME IInv, clean, ReadDot
  PROVE  IInv'
<1> USE Constant
<1>1. /\ dot' = dot + 1 /\ Steady /\ rendering' = rendering /\ line' = line /\ overflowed' = overflowed
      /\ dot <= EvalDots /\ dot % 2 = 1 /\ oam_fetch' = oamaddr /\ oamaddr' = oamaddr
      /\ secondary_oamdata' = secondary_oamdata /\ spr_overflow' = spr_overflow
  BY Sizes DEF ReadDot, Advance, Steady, history
<1>2. dot \in Nat /\ 1 <= dot /\ dot < EvalDots /\ dot' <= EvalDots /\ 2 <= dot'
  BY <1>1, CleanHas, Sizes
<1>3. oamaddr' = oamaddr_hi' * Bytes + oamaddr_lo' /\ Phase'
  <2>1. CASE dot = 1
    <3>1. oamaddr = 0 /\ (spr_overflow' <=> overflowed') /\ StartEval /\ dot' = 2
      BY <1>1, <2>1, CleanHas DEF ReadDot
    <3>2. oamaddr_hi' = 0 /\ oamaddr_lo' = 0 /\ Phase'
      BY <1>1, <2>1, <3>1, StartKept
    <3>3. 0 * Bytes + 0 = 0
      BY Sizes
    <3> QED BY <1>1, <3>1, <3>2, <3>3
  <2>2. CASE dot # 1
    <3>1. UNCHANGED <<spr_in_range, spr_zero_in_range, secondary_oamaddr, oam_eval_done, oamaddr_hi, oamaddr_lo>>
      BY <2>2 DEF ReadDot
    <3>2. Walking
      <4>1. 2 <= dot /\ dot <= EvalDots
        BY <1>1, <1>2, <2>2
      <4> QED BY <4>1, CleanHas
    <3>3. Writes' = Writes
      BY <1>1, <1>2 DEF Writes
    <3>4. Phase'
      BY <1>1, <3>1, <3>2, <3>3, PhaseStays DEF Walking, secondary
    <3> QED BY <1>1, <3>1, <3>2, <3>4 DEF Walking
  <2> QED BY <2>1, <2>2
<1>4. Walking'
  BY <1>1, <1>3 DEF Walking
<1>5. dot' \in 1..LastDot /\ dot' # 1 /\ ~(dot' > EvalDots)
  BY <1>1, <1>2, Sizes
<1>6. rendering' /\ line' = "visible" /\ DOMAIN secondary_oamdata' = 0..(SecondaryLen - 1)
  BY <1>1, CleanHas
<1> QED BY <1>4, <1>5, <1>6 DEF IInv

LEMMA ClearKept ==
  ASSUME Clear, clean'
  PROVE  IInv'
<1> USE Constant
<1>1. dot' = 1 /\ oamaddr' = 0 /\ (spr_overflow' <=> overflowed')
  <2>1. dot = 0 /\ dot' = dot + 1
    BY DEF Clear, Advance, ClearDot
  <2>2. oamaddr = 0
    BY DEF Clear
  <2>3. oamaddr' = oamaddr /\ spr_overflow' = spr_overflow /\ overflowed' = spr_overflow
    BY DEF Clear
  <2> QED BY <2>1, <2>2, <2>3
<1>2. rendering' /\ line' = "visible"
  BY DEF Clear, Advance, Evaluates
<1>3. DOMAIN secondary_oamdata' = 0..(SecondaryLen - 1)
  BY DEF Clear
<1>4. dot' \in 1..LastDot /\ ~(2 <= dot') /\ ~(dot' > EvalDots)
  BY <1>1, LineLong, Sizes
<1> QED BY <1>1, <1>2, <1>3, <1>4 DEF IInv

LEMMA ResultStays ==
  ASSUME Steady, Result,
         UNCHANGED <<secondary, spr_zero_in_range, spr_overflow, overflowed, spr_count, spr_zero_visible>>
  PROVE  Result'
<1>1. Collected'
  BY CollectedStays DEF Result, secondary
<1>2. Shown' = Shown /\ Kept' = Kept /\ (Ninth' <=> Ninth)
  BY SameSprites
<1> QED BY <1>1, <1>2 DEF Result

LEMMA FetchKept ==
  ASSUME IInv, clean, FetchSprites
  PROVE  IInv'
<1> USE Constant
<1>1. dot = FetchDot /\ dot' = dot + 1 /\ Steady /\ rendering' = rendering /\ line' = line
  BY DEF FetchSprites, Advance, Steady
<1>2. rendering /\ line = "visible" /\ Result /\ DOMAIN secondary_oamdata = 0..(SecondaryLen - 1)
  BY <1>1, CleanHas, Sizes
<1>3. UNCHANGED <<secondary, spr_zero_in_range, spr_overflow, overflowed, spr_count, spr_zero_visible>>
  BY <1>2 DEF FetchSprites, history
<1>4. Result'
  BY <1>1, <1>2, <1>3, ResultStays
<1>5. dot' \in 1..LastDot /\ dot' # 1 /\ ~(dot' <= EvalDots)
  BY <1>1, Sizes
<1>6. DOMAIN secondary_oamdata' = 0..(SecondaryLen - 1)
  BY <1>2, <1>3 DEF secondary
<1> QED BY <1>1, <1>2, <1>4, <1>5, <1>6 DEF IInv

LEMMA StutterKept ==
  ASSUME IInv, clean, UNCHANGED vars
  PROVE  IInv'
<1> USE Constant
<1>1. /\ dot' = dot /\ line' = line /\ rendering' = rendering /\ Steady /\ overflowed' = overflowed
      /\ oamaddr' = oamaddr /\ oamaddr_hi' = oamaddr_hi /\ oamaddr_lo' = oamaddr_lo
      /\ oam_fetch' = oam_fetch /\ oam_eval_done' = oam_eval_done /\ spr_in_range' = spr_in_range
      /\ secondary_oamaddr' = secondary_oamaddr /\ secondary_oamdata' = secondary_oamdata
      /\ spr_zero_in_range' = spr_zero_in_range /\ spr_zero_visible' = spr_zero_visible
      /\ spr_count' = spr_count /\ spr_overflow' = spr_overflow
  BY DEF vars, beam, walk, secondary, found, history, Steady
<1>2. Writes' = Writes
  BY <1>1 DEF Writes
<1>3. Walking => Walking'
  <2>1. Phase => Phase'
    BY <1>1, <1>2, PhaseStays DEF secondary
  <2> QED BY <1>1, <2>1 DEF Walking
<1>4. Result => Result'
  BY <1>1, ResultStays DEF secondary
<1> QED BY <1>1, <1>3, <1>4 DEF IInv

-----------------------------------------------------------------------------
(* The invariant: what a line that nobody interferes with has found so far *)
(* is what a walk over its sprites is due to have found by that dot.       *)
THEOREM Invariance == Spec => []IInv
<1>1. Init => IInv
  BY DEF Init, IInv
<1>2. IInv /\ [Next]_vars => IInv'
  <2> SUFFICES ASSUME IInv, [Next]_vars PROVE IInv'
    OBVIOUS
  <2>1. CASE ~clean'
    BY <2>1 DEF IInv
  <2>2. CASE clean'
    <3>1. CASE Clear
      BY <2>2, <3>1, ClearKept
    <3>2. CASE ReadDot
      BY <2>2, <3>2, ReadKept DEF ReadDot, history
    <3>3. CASE WriteDot
      BY <2>2, <3>3, WriteKept DEF WriteDot, history
    <3>4. CASE FetchSprites
      BY <2>2, <3>4, FetchKept DEF FetchSprites, history
    <3>5. CASE PassDot \/ EndLine \/ WriteMask \/ (\E val \in Oam : WriteOamAddr(val)) \/ WriteOamData
      BY <2>2, <3>5 DEF PassDot, EndLine, WriteMask, WriteOamAddr, WriteOamData
    <3>6. CASE UNCHANGED vars
      BY <2>2, <3>6, StutterKept DEF vars, history
    <3> QED BY <3>1, <3>2, <3>3, <3>4, <3>5, <3>6 DEF Next, Tick
  <2> QED BY <2>1, <2>2
<1> QED BY <1>1, <1>2, PTL DEF Spec

LEMMA EvaluatedHas ==
  ASSUME IInv, Evaluated
  PROVE  Result
BY DEF IInv, Evaluated

(* A line that nobody interferes with shows the first of its sprites, in   *)
(* OAM's order and whole, as many as there are slots for.                  *)
THEOREM FirstSprites == Spec => []FirstSpritesShown
<1>1. IInv => FirstSpritesShown
  <2> SUFFICES ASSUME IInv, Evaluated
               PROVE  /\ spr_count = Cardinality(Kept)
                      /\ \A s \in Kept, b \in 0..(Bytes - 1) :
                           secondary_oamdata[Rank(s) * Bytes + b] = Y(s) + b
    BY DEF FirstSpritesShown
  <2> QED BY EvaluatedHas DEF Result, Collected, Stored, Place
<1> QED BY <1>1, Invariance, PTL

(* Sprite zero counts as visible exactly when it is on the line, and then  *)
(* it is the first of the secondary OAM.                                   *)
THEOREM ZeroFirst == Spec => []SpriteZero
<1>1. IInv => SpriteZero
  <2> SUFFICES ASSUME IInv, Evaluated
               PROVE  /\ spr_zero_visible <=> 0 \in Shown
                      /\ spr_zero_visible => secondary_oamdata[0] = Y(0)
    BY DEF SpriteZero
  <2>1. spr_zero_visible <=> 0 \in Shown
    BY EvaluatedHas DEF Result
  <2>2. ASSUME 0 \in Shown PROVE secondary_oamdata[0] = Y(0)
    <3>1. 0 \in Kept
      BY <2>2, RankZero, Sizes DEF Kept
    <3>2. 0 \in 0..(Bytes - 1)
      BY Sizes
    <3>3. Stored(0, 0)
      BY <3>1, <3>2, EvaluatedHas DEF Result, Collected
    <3>4. Place(0, 0) = 0 /\ Y(0) + 0 = Y(0)
      BY RankZero, Sizes DEF Place, Y
    <3> QED BY <3>3, <3>4 DEF Stored
  <2> QED BY <2>1, <2>2
<1> QED BY <1>1, Invariance, PTL

(* The overflow flag is set by exactly the lines the hardware sets it by,  *)
(* with its mistake.                                                       *)
THEOREM OverflowFlag == Spec => []OverflowAsHardware
<1>1. IInv => OverflowAsHardware
  BY EvaluatedHas DEF OverflowAsHardware, Result
<1> QED BY <1>1, Invariance, PTL
=============================================================================
