------------------------------ MODULE FramingProofs -----------------------------
(***************************************************************************)
(* Every frame that Frame cuts fits its byte budget and is the longest one *)
(* that does, and Unframe restores the text from the rows of a reader, for *)
(* any texts, any budget and any digits of the numbers.                    *)
(***************************************************************************)
EXTENDS Carriage, FiniteSetTheorems, SequenceTheorems, WellFoundedInduction, TLAPS

--------------------------------------------------------------------------------
\* Facts about the operators of Framing.

\* The greatest element that the backward search of Frame is written with exists:
\* the intervals from the elements up to the bound are finite, so one of them
\* includes none of the others.
LEMMA Greatest ==
    ASSUME NEW m \in Nat, NEW S \in SUBSET (0..m), S # {}
    PROVE  Max(S) \in S /\ \A n \in S : n <= Max(S)
<1> DEFINE Above == {n..m : n \in S}
<1>1. Above \subseteq FiniteSubsetsOf(Nat)
  <2>1. \A n \in S : n \in Int /\ n..m \subseteq Nat
    OBVIOUS
  <2> QED BY <2>1, FS_Interval DEF FiniteSubsetsOf
<1>2. IsWellFoundedOn(StrictSubsetOrdering(Nat), FiniteSubsetsOf(Nat))
  BY FS_StrictSubsetOrderingWellFounded
<1>3. PICK least \in Above : \A other \in Above : <<other, least>> \notin StrictSubsetOrdering(Nat)
  <2>1. Above # {}
    OBVIOUS
  <2> HIDE DEF Above
  <2> QED BY <1>1, <1>2, <2>1, WFMin
<1>4. PICK top \in S : least = top..m
  OBVIOUS
<1>5. ASSUME NEW n \in S PROVE n <= top
  <2> SUFFICES ASSUME top < n PROVE FALSE
    OBVIOUS
  <2>1. n..m \subseteq top..m /\ n..m # top..m
    <3>1. top \in top..m /\ top \notin n..m
      OBVIOUS
    <3>2. n..m \subseteq top..m
      OBVIOUS
    <3> QED BY <3>1, <3>2
  <2>2. n..m \in SUBSET Nat /\ top..m \in SUBSET Nat
    OBVIOUS
  <2> QED BY <1>3, <1>4, <2>1, <2>2 DEF StrictSubsetOrdering
<1>6. \E x \in S : \A y \in S : x >= y
  BY <1>5
<1> HIDE DEF Above
<1> QED BY <1>6 DEF Max

\* The encoded size of a piece is a number.
LEMMA WidthType == ASSUME NEW data \in Seq(Bytes) PROVE Width(data) \in Nat
<1>1. DOMAIN data = 1..Len(data) /\ Len(data) \in Nat
  OBVIOUS
<1>2. IsFiniteSet(DOMAIN data) /\ IsFiniteSet(1..6)
  <2>1. IsFiniteSet(1..Len(data))
    BY <1>1, FS_Interval
  <2>2. IsFiniteSet(1..6)
    <3>1. 1 \in Int /\ 6 \in Int
      OBVIOUS
    <3> QED BY <3>1, FS_Interval
  <2> QED BY <1>1, <2>1, <2>2
<1>3. IsFiniteSet((DOMAIN data) \X (1..6))
  <2> DEFINE A == DOMAIN data
  <2> DEFINE B == 1..6
  <2>1. IsFiniteSet(A) /\ IsFiniteSet(B)
    BY <1>2
  <2> HIDE DEF A, B
  <2>2. IsFiniteSet(A \X B)
    BY <2>1, FS_Product
  <2> QED BY <2>2 DEF A, B
<1>4. IsFiniteSet({p \in (DOMAIN data) \X (1..6) : p[2] <= Encoding[data[p[1]]]})
  BY <1>3, FS_Subset
<1> QED BY <1>4, FS_CardinalityType DEF Width

\* The room of a text that is framed.
LEMMA RoomType ==
    ASSUME limit \in Int, NEW text \in Blocks \cup Edits
    PROVE  /\ Room(text) \in Int
           /\ Room(text) = limit - (Envelope + 2 * Digits[Len(text)])
           /\ \A n \in 0..Len(text) : Digits[n] \in Nat /\ Digits[n] <= Digits[Len(text)]
<1>1. text \in Seq(Bytes) /\ Len(text) \in Nat
  BY FramingAssumption
<1>2. \A n \in 0..Len(text) : Digits[n] \in Nat /\ Digits[n] <= Digits[Len(text)]
  BY FramingAssumption
<1>3. Digits[Len(text)] \in Nat
  BY <1>1, <1>2
<1> QED BY <1>2, <1>3, FramingAssumption DEF Room

--------------------------------------------------------------------------------
\* The inductive invariant.

\* A piece that Frame may store in a frame.
Fits(data, room) == data \in Seq(Bytes) /\ data # <<>> /\ RuneStart(data[1]) /\ Width(data) <= room

Budget == Room(Last(texts))

\* Every frame holds at least one byte, so their number is at most the length
\* of the text whose digits the room reserves.
Framed == /\ remaining \in Seq(Bytes)
          /\ remaining # <<>> => RuneStart(remaining[1])
          /\ frames \in Seq([id : Nat \X Nat, seq : Nat, total : {0}, data : Seq(Bytes)])
          /\ \A i \in DOMAIN frames : frames[i].seq = i - 1 /\ Fits(frames[i].data, Budget)
          /\ Len(frames) + Len(remaining) <= Len(Last(texts))

\* The longest piece that the search has found.
Searched == /\ lo \in Int /\ hi \in Int /\ 1 <= lo /\ hi <= Len(remaining)
            /\ take \in 0..Len(remaining)
            /\ take > 0 => /\ Width(SubSeq(remaining, 1, take)) <= Budget
                           /\ take = Len(remaining) \/ RuneStart(remaining[take + 1])

FramingInv ==
    /\ limit \in Int
    /\ step # "idle" => /\ texts \in Seq(Blocks \cup Edits) /\ texts # <<>>
                        /\ Framed
                        /\ step = "search" => remaining # <<>> /\ Searched

\* The search goes back to the start of a character, or to nothing.
LEMMA AlignedType ==
    ASSUME remaining \in Seq(Bytes), NEW mid \in 0..Len(remaining)
    PROVE  /\ Aligned(mid) \in 0..mid
           /\ Aligned(mid) > 0 =>
                  Aligned(mid) = Len(remaining) \/ RuneStart(remaining[Aligned(mid) + 1])
<1> DEFINE S == {0} \cup {end \in 1..mid : end = Len(remaining) \/ RuneStart(remaining[end + 1])}
<1>1. mid \in Nat /\ S \in SUBSET (0..mid) /\ S # {}
  OBVIOUS
<1>2. Max(S) \in S
  <2> HIDE DEF S
  <2> QED BY <1>1, Greatest
<1>3. Aligned(mid) = Max(S)
  BY DEF Aligned
<1>4. \A n \in S : n \in 0..mid /\ (n > 0 => n = Len(remaining) \/ RuneStart(remaining[n + 1]))
  OBVIOUS
<1> HIDE DEF S
<1> QED BY <1>2, <1>3, <1>4

LEMMA FramingInit_Inv == Init => FramingInv
<1> SUFFICES ASSUME Init PROVE FramingInv
  OBVIOUS
<1>1. CASE FramingIdle
  BY <1>1 DEF FramingIdle, FramingInv
<1>2. CASE FramingInit
  <2>1. PICK text \in Blocks : texts = <<text>>
    BY <1>2 DEF FramingInit
  <2>2. limit \in Int /\ step = "frame" /\ remaining = text /\ frames = <<>>
    BY <1>2, <2>1, FramingAssumption DEF FramingInit
  <2>3. text \in Seq(Bytes) /\ text # <<>> /\ RuneStart(text[1])
    BY FramingAssumption
  <2>4. Last(texts) = text /\ texts \in Seq(Blocks \cup Edits) /\ texts # <<>>
    BY <2>1 DEF Last
  <2> QED BY <2>2, <2>3, <2>4 DEF FramingInv, Framed
<1> QED BY <1>1, <1>2 DEF Init

--------------------------------------------------------------------------------
\* Every step keeps it.

LEMMA Search_Inv == ASSUME FramingInv, Search PROVE FramingInv'
<1>1. /\ limit' = limit /\ texts' = texts /\ remaining' = remaining /\ frames' = frames
      /\ step' \in {"refused", "store", "search"}
  BY DEF Search, cutVars, editVars
<1>2. Framed'
  BY <1>1 DEF Search, FramingInv, Framed, Budget, Room
<1>3. step' = "search" => remaining' # <<>> /\ Searched'
  <2> SUFFICES ASSUME step' = "search" PROVE remaining' # <<>> /\ Searched'
    OBVIOUS
  <2>1. /\ ~(Room(Last(texts)) <= 0) /\ remaining # <<>>
        /\ lo' = 1 /\ hi' = Smaller(Len(remaining), Room(Last(texts))) /\ take' = 0
    BY DEF Search
  <2>2. Last(texts) \in Blocks \cup Edits
    BY DEF Search, FramingInv, Last
  <2>3. Room(Last(texts)) \in Int
    BY <2>2, RoomType DEF FramingInv
  <2>4. remaining \in Seq(Bytes) /\ Len(remaining) \in Nat
    BY DEF Search, FramingInv, Framed
  <2>5. hi' \in Int /\ hi' <= Len(remaining)
    BY <2>1, <2>3, <2>4 DEF Smaller
  <2> QED BY <1>1, <2>1, <2>4, <2>5 DEF Searched
<1> QED BY <1>1, <1>2, <1>3 DEF FramingInv, Search

LEMMA Probe_Inv == ASSUME FramingInv, Probe PROVE FramingInv'
<1> DEFINE mid == lo + (hi - lo) \div 2
<1> DEFINE end == Aligned(mid)
<1>1. /\ limit' = limit /\ texts' = texts /\ remaining' = remaining /\ frames' = frames
      /\ step = "search" /\ step' = "search" /\ lo <= hi
  BY DEF Probe, editVars
<1>2. Framed /\ remaining # <<>> /\ Searched /\ remaining \in Seq(Bytes)
  BY <1>1 DEF FramingInv, Framed
<1>3. mid \in lo..hi /\ mid \in 0..Len(remaining)
  BY <1>1, <1>2 DEF Searched
<1>4. /\ end \in 0..mid
      /\ end > 0 => end = Len(remaining) \/ RuneStart(remaining[end + 1])
  <2> HIDE DEF mid
  <2> QED BY <1>2, <1>3, AlignedType
<1> HIDE DEF end, mid
<1>5. ASSUME Width(SubSeq(remaining, 1, end)) <= Room(Last(texts)),
             take' = Max({take, end}), lo' = mid + 1, hi' = hi
      PROVE  Searched'
  <2>1. take' \in {take, end}
    <3>1. {take, end} \in SUBSET (0..Len(remaining)) /\ {take, end} # {} /\ Len(remaining) \in Nat
      BY <1>2, <1>3, <1>4 DEF Searched
    <3> QED BY <1>5, <3>1, Greatest
  <2> QED BY <1>1, <1>2, <1>3, <1>4, <1>5, <2>1 DEF Searched, Budget, Room
<1>6. ASSUME hi' = mid - 1, lo' = lo, take' = take PROVE Searched'
  BY <1>1, <1>2, <1>3, <1>6 DEF Searched, Budget, Room
<1>7. Searched'
  BY <1>5, <1>6 DEF Probe, mid, end
<1>8. Framed'
  BY <1>1, <1>2 DEF Framed, Budget, Room
<1> QED BY <1>1, <1>2, <1>7, <1>8 DEF FramingInv

LEMMA Cut_Inv == ASSUME FramingInv, Cut PROVE FramingInv'
<1>1. /\ limit' = limit /\ texts' = texts /\ step = "search" /\ step' \in {"refused", "frame"}
  BY DEF Cut, editVars
<1>2. Framed /\ Searched
  BY <1>1 DEF FramingInv
<1>3. CASE take = 0
  BY <1>1, <1>2, <1>3 DEF Cut, FramingInv, Framed, Budget, Room
<1>4. CASE take # 0
  <2> DEFINE piece == SubSeq(remaining, 1, take)
  <2> DEFINE frame == [id |-> <<Len(texts), Len(frames)>>, seq |-> Len(frames),
                       total |-> 0, data |-> piece]
  <2>1. frames' = Append(frames, frame) /\ remaining' = SubSeq(remaining, take + 1, Len(remaining))
    BY <1>4 DEF Cut
  <2>2. remaining \in Seq(Bytes) /\ take \in 1..Len(remaining) /\ Len(remaining) \in Nat
    BY <1>2, <1>4 DEF Framed, Searched
  <2>3. /\ piece \in Seq(Bytes) /\ Len(piece) = take /\ piece # <<>>
        /\ piece[1] = remaining[1]
    BY <2>2
  <2>4. Fits(piece, Budget)
    <3>1. remaining # <<>> /\ RuneStart(remaining[1])
      BY <1>1, <1>2 DEF FramingInv, Framed
    <3>2. Width(piece) <= Budget
      BY <1>2, <2>2 DEF Searched
    <3> HIDE DEF piece
    <3> QED BY <2>3, <3>1, <3>2 DEF Fits
  <2>5. /\ remaining' \in Seq(Bytes) /\ Len(remaining') = Len(remaining) - take
        /\ remaining' # <<>> => RuneStart(remaining'[1])
    BY <1>2, <2>1, <2>2 DEF Searched
  <2>6. Len(texts) \in Nat /\ Len(frames) \in Nat
    BY <1>1, <1>2 DEF FramingInv, Framed
  <2>7. frame \in [id : Nat \X Nat, seq : Nat, total : {0}, data : Seq(Bytes)]
    BY <2>3, <2>6
  <2>8. Len(Last(texts)) \in Nat
    BY <1>1, FramingAssumption DEF FramingInv, Last
  <2>9. Budget' = Budget
    BY <1>1 DEF Budget, Room
  <2>10. \A i \in DOMAIN frames' : frames'[i].seq = i - 1 /\ Fits(frames'[i].data, Budget)
    <3>1. /\ frames \in Seq([id : Nat \X Nat, seq : Nat, total : {0}, data : Seq(Bytes)])
          /\ \A i \in DOMAIN frames : frames[i].seq = i - 1 /\ Fits(frames[i].data, Budget)
      BY <1>2 DEF Framed
    <3>2. frame.seq = Len(frames) /\ frame.data = piece
      OBVIOUS
    <3> HIDE DEF piece, frame
    <3>3. ASSUME NEW i \in DOMAIN frames' PROVE frames'[i].seq = i - 1 /\ Fits(frames'[i].data, Budget)
      <4>1. CASE i \in DOMAIN frames
        BY <2>1, <3>1, <4>1
      <4>2. CASE i = Len(frames) + 1
        BY <2>1, <2>4, <3>1, <3>2, <4>2
      <4> QED BY <2>1, <3>1, <4>1, <4>2
    <3> QED BY <3>3
  <2>11. frames' \in Seq([id : Nat \X Nat, seq : Nat, total : {0}, data : Seq(Bytes)])
         /\ Len(frames') = Len(frames) + 1
    <3> HIDE DEF frame
    <3> QED BY <1>2, <2>1, <2>7 DEF Framed
  <2>12. Len(frames') + Len(remaining') <= Len(Last(texts'))
    BY <1>1, <1>2, <2>2, <2>5, <2>6, <2>8, <2>11 DEF Framed
  <2>13. Framed'
    BY <2>5, <2>9, <2>10, <2>11, <2>12 DEF Framed
  <2>14. step' = "frame"
    BY <1>4 DEF Cut
  <2> QED BY <1>1, <2>13, <2>14 DEF FramingInv
<1> QED BY <1>3, <1>4

LEMMA Edit_Inv == ASSUME FramingInv, Edit PROVE FramingInv'
<1>1. PICK text \in Edits : texts' = Append(texts, text) /\ remaining' = text
  BY DEF Edit
<1>2. step = "stored" /\ step' = "frame" /\ limit' = limit /\ frames' = <<>>
  BY DEF Edit
<1>3. texts \in Seq(Blocks \cup Edits)
  BY <1>2 DEF FramingInv
<1>4. texts' \in Seq(Blocks \cup Edits) /\ texts' # <<>> /\ Last(texts') = text
  BY <1>1, <1>3 DEF Last
<1>5. text \in Seq(Bytes) /\ text # <<>> /\ RuneStart(text[1])
  BY FramingAssumption
<1> QED BY <1>1, <1>2, <1>4, <1>5 DEF FramingInv, Framed

\* The host and the client of Sse change nothing that Frame works on.
LEMMA Others_Inv ==
    ASSUME FramingInv,
           /\ step' \in {step, "stored", "store"}
           /\ step = "idle" => step' = "idle"
           /\ UNCHANGED <<editVars, cutVars>>
    PROVE  FramingInv'
<1>1. /\ limit' = limit /\ texts' = texts /\ remaining' = remaining /\ frames' = frames
      /\ lo' = lo /\ hi' = hi /\ take' = take
  BY DEF editVars, cutVars
<1>2. Framed => Framed'
  BY <1>1 DEF Framed, Budget, Room
<1>3. Searched => Searched'
  BY <1>1 DEF Searched, Budget, Room
<1> QED BY <1>1, <1>2, <1>3 DEF FramingInv

LEMMA FramingNext_Inv == FramingInv /\ [Next]_vars => FramingInv'
<1> SUFFICES ASSUME FramingInv, [Next]_vars PROVE FramingInv'
  OBVIOUS
<1>1. CASE Search
  BY <1>1, Search_Inv
<1>2. CASE Probe
  BY <1>2, Probe_Inv
<1>3. CASE Cut
  BY <1>3, Cut_Inv
<1>4. CASE Store
  BY <1>4, Others_Inv DEF Store
<1>5. CASE Edit
  BY <1>5, Edit_Inv
<1>6. CASE Fetch
  BY <1>6, Others_Inv DEF Fetch
<1>7. CASE UNCHANGED framingVars
  BY <1>7, Others_Inv DEF framingVars, editVars, cutVars
<1> QED BY <1>1, <1>2, <1>3, <1>4, <1>5, <1>6, <1>7 DEF Next, FramingStep, vars

--------------------------------------------------------------------------------

\* A text that is framed gives frames of at most limit bytes each, which all begin
\* at the start of a character (Frame).
THEOREM FramesFitBudget == Spec => []FramesFit
<1>1. FramingInv => FramesFit
  <2> SUFFICES ASSUME FramingInv, step = "store", NEW i \in DOMAIN frames
               PROVE  Encoded(Finished[i]) <= limit /\ RuneStart(frames[i].data[1])
    BY DEF FramesFit
  <2> DEFINE text == Last(texts)
  <2> DEFINE n == Len(frames)
  <2>1. Framed /\ limit \in Int /\ text \in Blocks \cup Edits
    BY DEF FramingInv, Last
  <2>2. Fits(frames[i].data, Budget) /\ frames[i].seq = i - 1
    BY <2>1 DEF Framed
  <2>3. /\ Finished[i].seq = i - 1 /\ Finished[i].total = n
        /\ Finished[i].data = frames[i].data
    <3>1. frames \in Seq([id : Nat \X Nat, seq : Nat, total : {0}, data : Seq(Bytes)])
      BY <2>1 DEF Framed
    <3>2. Finished[i] = [frames[i] EXCEPT !.total = n]
      BY DEF Finished
    <3> HIDE DEF n
    <3> QED BY <2>2, <3>1, <3>2
  <2>4. n \in Nat /\ Len(text) \in Nat /\ i \in 1..n /\ n <= Len(text)
    <3>1. /\ remaining \in Seq(Bytes) /\ n + Len(remaining) <= Len(text)
          /\ frames \in Seq([id : Nat \X Nat, seq : Nat, total : {0}, data : Seq(Bytes)])
      BY <2>1 DEF Framed
    <3>2. Len(remaining) \in Nat /\ n \in Nat /\ i \in 1..n
      BY <3>1
    <3>3. Len(text) \in Nat
      BY <2>1, FramingAssumption
    <3> HIDE DEF n, text
    <3> QED BY <3>1, <3>2, <3>3
  <2>5. Digits[i - 1] \in Nat /\ Digits[n] \in Nat
        /\ Digits[i - 1] <= Digits[Len(text)] /\ Digits[n] <= Digits[Len(text)]
        /\ Digits[Len(text)] \in Nat
    <3>1. i - 1 \in 0..Len(text) /\ n \in 0..Len(text) /\ Len(text) \in 0..Len(text)
      BY <2>4
    <3> HIDE DEF n, text
    <3> QED BY <2>1, <3>1, RoomType
  <2>6. Room(text) = limit - (Envelope + 2 * Digits[Len(text)]) /\ Envelope \in Nat
    BY FramingAssumption DEF Room
  <2>7. Width(frames[i].data) \in Nat /\ Width(frames[i].data) <= Room(text)
    BY <2>2, WidthType DEF Fits, Budget
  <2>8. Encoded(Finished[i]) = Envelope + Digits[i - 1] + Digits[n] + Width(frames[i].data)
    BY <2>3 DEF Encoded
  <2> HIDE DEF n, text
  <2>9. Encoded(Finished[i]) <= limit
    BY <2>1, <2>5, <2>6, <2>7, <2>8
  <2> QED BY <2>2, <2>9 DEF Fits
<1> QED BY <1>1, FramingInit_Inv, FramingNext_Inv, PTL DEF Spec

--------------------------------------------------------------------------------
\* The least element that the next character is written with exists, as the
\* greatest of the distances from the bound.
LEMMA Least ==
    ASSUME NEW m \in Nat, NEW S \in SUBSET (0..m), S # {}
    PROVE  Min(S) \in S /\ \A n \in S : Min(S) <= n
<1> DEFINE Distances == {m - n : n \in S}
<1>1. Max(Distances) \in Distances /\ \A d \in Distances : d <= Max(Distances)
  <2>1. Distances \in SUBSET (0..m) /\ Distances # {}
    <3>1. \A n \in S : n \in 0..m /\ m - n \in 0..m
      OBVIOUS
    <3> QED BY <3>1
  <2> HIDE DEF Distances
  <2> QED BY <2>1, Greatest
<1>2. PICK least \in S : m - least = Max(Distances)
  BY <1>1
<1>3. \A n \in S : m - n <= m - least
  BY <1>1, <1>2
<1>4. \E x \in S : \A y \in S : x <= y
  <2>1. \A n \in S : n \in 0..m
    OBVIOUS
  <2>2. \A n \in S : least <= n
    BY <1>3, <2>1
  <2> QED BY <2>2
<1> QED BY <1>4 DEF Min

\* What Width counts: the bytes of JSON of each byte of a text.
Written(data) == {p \in (DOMAIN data) \X (1..6) : p[2] <= Encoding[data[p[1]]]}

LEMMA WrittenFinite == ASSUME NEW data \in Seq(Bytes) PROVE IsFiniteSet(Written(data))
<1>1. IsFiniteSet(DOMAIN data) /\ IsFiniteSet(1..6)
  <2>1. DOMAIN data = 1..Len(data) /\ Len(data) \in Int /\ 1 \in Int /\ 6 \in Int
    OBVIOUS
  <2> QED BY <2>1, FS_Interval
<1>2. IsFiniteSet((DOMAIN data) \X (1..6))
  <2> DEFINE A == DOMAIN data
  <2> DEFINE B == 1..6
  <2>1. IsFiniteSet(A) /\ IsFiniteSet(B)
    BY <1>1
  <2> HIDE DEF A, B
  <2>2. IsFiniteSet(A \X B)
    BY <2>1, FS_Product
  <2> QED BY <2>2 DEF A, B
<1> QED BY <1>2, FS_Subset DEF Written

\* A longer piece of a text takes no fewer bytes of JSON.
LEMMA WidthGrows ==
    ASSUME NEW data \in Seq(Bytes), NEW m \in 0..Len(data), NEW n \in 0..Len(data), m <= n
    PROVE  Width(SubSeq(data, 1, m)) <= Width(SubSeq(data, 1, n))
<1> DEFINE short == SubSeq(data, 1, m)
<1> DEFINE long == SubSeq(data, 1, n)
<1>1. /\ short \in Seq(Bytes) /\ long \in Seq(Bytes)
      /\ DOMAIN short = 1..m /\ DOMAIN long = 1..n
      /\ \A i \in 1..m : short[i] = data[i]
      /\ \A i \in 1..n : long[i] = data[i]
  OBVIOUS
<1>2. 1..m \subseteq 1..n
  OBVIOUS
<1> HIDE DEF short, long
<1>3. Written(short) \subseteq Written(long)
  BY <1>1, <1>2 DEF Written
<1>4. Cardinality(Written(short)) <= Cardinality(Written(long))
  BY <1>1, <1>3, WrittenFinite, FS_Subset
<1> QED BY <1>4 DEF Width, Written, short, long

\* Every byte takes at least one byte of JSON.
LEMMA WidthCovers == ASSUME NEW data \in Seq(Bytes) PROVE Len(data) <= Width(data)
<1> DEFINE A == DOMAIN data
<1> DEFINE B == {1}
<1>1. A = 1..Len(data) /\ Len(data) \in Nat
  OBVIOUS
<1>2. IsFiniteSet(A) /\ Cardinality(A) = Len(data)
  <2>1. 1 \in Int /\ Len(data) \in Int
    BY <1>1
  <2>2. IsFiniteSet(1..Len(data)) /\ Cardinality(1..Len(data)) = IF 1 > Len(data) THEN 0 ELSE Len(data) - 1 + 1
    BY <2>1, FS_Interval
  <2> HIDE DEF A
  <2> QED BY <1>1, <2>2
<1>3. IsFiniteSet(B) /\ Cardinality(B) = 1
  BY FS_Singleton
<1>4. A \X B \subseteq Written(data)
  <2>1. \A byte \in Bytes : 1 <= Encoding[byte]
    BY DEF Bytes, Encoding
  <2>2. \A i \in A : data[i] \in Bytes
    OBVIOUS
  <2>3. \A p \in A \X B : p \in (DOMAIN data) \X (1..6) /\ p[1] \in A /\ p[2] = 1
    OBVIOUS
  <2> HIDE DEF A, B
  <2> QED BY <2>1, <2>2, <2>3 DEF Written
<1> HIDE DEF A, B
<1>5. Cardinality(A \X B) = Len(data)
  <2>1. Cardinality(A \X B) = Cardinality(A) * Cardinality(B)
    BY <1>2, <1>3, FS_Product
  <2> QED BY <1>1, <1>2, <1>3, <2>1
<1>6. Cardinality(A \X B) <= Cardinality(Written(data))
  BY <1>4, WrittenFinite, FS_Subset
<1> QED BY <1>1, <1>5, <1>6 DEF Width, Written

--------------------------------------------------------------------------------
\* The places where Frame may cut: nowhere, the end, the start of a character.
Cuts == {0} \cup {n \in 1..Len(remaining) : n = Len(remaining) \/ RuneStart(remaining[n + 1])}

\* No cut up to the search's lower bound is longer than the one it has found, and
\* none above its upper bound fits.
LongestInv ==
    step = "search" =>
        /\ \A n \in Cuts : n < lo => n <= take
        /\ \A n \in Cuts : hi < n => Budget < Width(SubSeq(remaining, 1, n))

\* The search goes back to the last cut there is.
LEMMA AlignedGreatest ==
    ASSUME remaining \in Seq(Bytes), NEW mid \in 0..Len(remaining), NEW n \in Cuts, n <= mid
    PROVE  n <= Aligned(mid)
<1> DEFINE S == {0} \cup {end \in 1..mid : end = Len(remaining) \/ RuneStart(remaining[end + 1])}
<1>1. mid \in Nat /\ S \in SUBSET (0..mid) /\ S # {} /\ n \in S
  BY DEF Cuts
<1>2. n <= Max(S)
  <2> HIDE DEF S
  <2> QED BY <1>1, Greatest
<1> QED BY <1>2 DEF Aligned

\* The first character of a text ends where it may be cut.
FirstCharacter(data) == Min({n \in 1..Len(data) : n = Len(data) \/ RuneStart(data[n + 1])})

LEMMA CharacterEnds ==
    ASSUME NEW data \in Seq(Bytes), data # <<>>
    PROVE  /\ FirstCharacter(data) \in 1..Len(data)
           /\ FirstCharacter(data) = Len(data) \/ RuneStart(data[FirstCharacter(data) + 1])
<1> DEFINE S == {n \in 1..Len(data) : n = Len(data) \/ RuneStart(data[n + 1])}
<1>1. Len(data) \in Nat /\ S \in SUBSET (0..Len(data)) /\ Len(data) \in S
  OBVIOUS
<1>2. Min(S) \in S
  <2> HIDE DEF S
  <2> QED BY <1>1, Least
<1> QED BY <1>2 DEF FirstCharacter

\* The cuts of what is left are the later ones of what was there.
LEMMA CutsOfRest ==
    ASSUME remaining \in Seq(Bytes), NEW m \in 1..Len(remaining),
           remaining' = SubSeq(remaining, m + 1, Len(remaining)), NEW n \in Cuts', n > 0
    PROVE  /\ m + n \in Cuts /\ n \in 1..Len(remaining')
           /\ SubSeq(remaining, 1, m) \o SubSeq(remaining', 1, n) = SubSeq(remaining, 1, m + n)
<1>1. /\ Len(remaining) \in Nat /\ remaining' \in Seq(Bytes) /\ Len(remaining') = Len(remaining) - m
      /\ \A i \in 1..Len(remaining') : remaining'[i] = remaining[m + i]
  OBVIOUS
<1>2. n \in 1..Len(remaining') /\ (n = Len(remaining') \/ RuneStart(remaining'[n + 1]))
  BY DEF Cuts
<1>3. m + n \in 1..Len(remaining)
  BY <1>1, <1>2
<1>4. m + n = Len(remaining) \/ RuneStart(remaining[m + n + 1])
  <2>1. CASE n = Len(remaining')
    BY <1>1, <2>1
  <2>2. CASE n # Len(remaining')
    <3>1. n + 1 \in 1..Len(remaining') /\ m + (n + 1) = m + n + 1
      <4>1. Len(remaining') \in Nat
        BY <1>1
      <4> QED BY <1>2, <2>2, <4>1
    <3> QED BY <1>1, <1>2, <2>2, <3>1
  <2> QED BY <2>1, <2>2
<1>5. SubSeq(remaining, 1, m) \o SubSeq(remaining', 1, n) = SubSeq(remaining, 1, m + n)
  <2> DEFINE left == SubSeq(remaining, 1, m)
  <2> DEFINE right == SubSeq(remaining', 1, n)
  <2> DEFINE whole == SubSeq(remaining, 1, m + n)
  <2>1. /\ left \in Seq(Bytes) /\ Len(left) = m /\ \A i \in 1..m : left[i] = remaining[i]
        /\ right \in Seq(Bytes) /\ Len(right) = n /\ \A i \in 1..n : right[i] = remaining'[i]
        /\ whole \in Seq(Bytes) /\ Len(whole) = m + n /\ \A i \in 1..(m + n) : whole[i] = remaining[i]
    BY <1>1, <1>2, <1>3
  <2>2. \A i \in 1..n : right[i] = remaining[m + i]
    BY <1>1, <1>2, <2>1
  <2> HIDE DEF left, right, whole
  <2>3. /\ left \o right \in Seq(Bytes) /\ Len(left \o right) = m + n
        /\ \A i \in 1..(m + n) : (left \o right)[i] = IF i <= m THEN left[i] ELSE right[i - m]
    BY <1>2, <2>1, ConcatProperties
  <2>4. ASSUME NEW i \in 1..(m + n) PROVE (left \o right)[i] = whole[i]
    <3>1. CASE i <= m
      <4>1. i \in 1..m
        BY <3>1
      <4>2. (left \o right)[i] = left[i]
        BY <2>3, <3>1
      <4> QED BY <2>1, <4>1, <4>2
    <3>2. CASE ~(i <= m)
      <4>1. i - m \in 1..n /\ m + (i - m) = i
        BY <1>2, <3>2
      <4>2. (left \o right)[i] = right[i - m]
        BY <2>3, <3>2
      <4>3. right[i - m] = remaining[m + (i - m)]
        BY <2>2, <4>1
      <4> QED BY <2>1, <4>1, <4>2, <4>3
    <3> QED BY <3>1, <3>2
  <2>5. left \o right = whole
    BY <1>2, <2>1, <2>3, <2>4, SeqEqual
  <2> QED BY <2>5 DEF left, right, whole
<1> QED BY <1>2, <1>3, <1>4, <1>5 DEF Cuts

LEMMA LongestSearch == ASSUME FramingInv, Search PROVE LongestInv'
<1> SUFFICES ASSUME step' = "search"
             PROVE  /\ \A n \in Cuts' : n < lo' => n <= take'
                    /\ \A n \in Cuts' : hi' < n => Budget' < Width(SubSeq(remaining', 1, n))
  BY DEF LongestInv
<1>1. /\ ~(Room(Last(texts)) <= 0) /\ remaining' = remaining /\ limit' = limit /\ texts' = texts
      /\ lo' = 1 /\ hi' = Smaller(Len(remaining), Room(Last(texts))) /\ take' = 0
  BY DEF Search, editVars
<1>2. remaining \in Seq(Bytes) /\ Len(remaining) \in Nat /\ Budget \in Int /\ Budget' = Budget
  <2>1. remaining \in Seq(Bytes) /\ limit \in Int /\ Last(texts) \in Blocks \cup Edits
    BY DEF Search, FramingInv, Framed, Last
  <2> QED BY <1>1, <2>1, RoomType DEF Budget, Room
<1>3. Cuts' = Cuts
  BY <1>1 DEF Cuts
<1>4. \A n \in Cuts : n \in 0..Len(remaining)
  BY <1>2 DEF Cuts
<1>5. ASSUME NEW n \in Cuts, hi' < n PROVE Budget < Width(SubSeq(remaining, 1, n))
  <2>1. n \in 0..Len(remaining)
    BY <1>4
  <2>2. Budget < n
    BY <1>1, <1>2, <1>5, <2>1 DEF Smaller, Budget
  <2>3. SubSeq(remaining, 1, n) \in Seq(Bytes) /\ Len(SubSeq(remaining, 1, n)) = n
    BY <1>2, <2>1
  <2>4. n <= Width(SubSeq(remaining, 1, n)) /\ Width(SubSeq(remaining, 1, n)) \in Nat
    BY <2>3, WidthCovers, WidthType
  <2> QED BY <1>2, <2>1, <2>2, <2>4
<1> QED BY <1>1, <1>2, <1>3, <1>4, <1>5

LEMMA LongestProbe == ASSUME FramingInv, LongestInv, Probe PROVE LongestInv'
<1> DEFINE mid == lo + (hi - lo) \div 2
<1> DEFINE end == Aligned(mid)
<1>1. /\ limit' = limit /\ texts' = texts /\ remaining' = remaining
      /\ step = "search" /\ step' = "search" /\ lo <= hi
  BY DEF Probe, editVars
<1>2. Searched /\ remaining \in Seq(Bytes) /\ Len(remaining) \in Nat
  BY <1>1 DEF FramingInv, Framed
<1>3. mid \in lo..hi /\ mid \in 0..Len(remaining)
  BY <1>1, <1>2 DEF Searched
<1>4. Budget' = Budget /\ Cuts' = Cuts /\ Budget = Room(Last(texts)) /\ Budget \in Int
  <2>1. limit \in Int /\ Last(texts) \in Blocks \cup Edits
    BY <1>1 DEF FramingInv, Last
  <2> QED BY <1>1, <2>1, RoomType DEF Budget, Room, Cuts
<1>5. /\ end \in 0..mid
      /\ \A n \in Cuts : n \in 0..Len(remaining) /\ (n <= mid => n <= end)
  <2>1. \A n \in Cuts : n \in 0..Len(remaining)
    BY <1>2 DEF Cuts
  <2> HIDE DEF mid
  <2> QED BY <1>2, <1>3, <2>1, AlignedType, AlignedGreatest
<1>6. /\ \A n \in Cuts : n < lo => n <= take
      /\ \A n \in Cuts : hi < n => Budget < Width(SubSeq(remaining, 1, n))
  BY <1>1 DEF LongestInv
<1> HIDE DEF end, mid
<1>7. ASSUME take' = Max({take, end}), lo' = mid + 1, hi' = hi PROVE LongestInv'
  <2>1. take' \in Int /\ take <= take' /\ end <= take'
    <3>1. {take, end} \in SUBSET (0..Len(remaining)) /\ {take, end} # {}
      BY <1>2, <1>3, <1>5 DEF Searched
    <3>2. /\ Max({take, end}) \in {take, end}
          /\ take <= Max({take, end}) /\ end <= Max({take, end})
      <4> DEFINE S == {take, end}
      <4>1. Max(S) \in S /\ \A n \in S : n <= Max(S)
        <5> HIDE DEF S
        <5> QED BY <1>2, <3>1, Greatest DEF S
      <4> QED BY <4>1
    <3> QED BY <1>2, <1>3, <1>5, <1>7, <3>2 DEF Searched
  <2>2. ASSUME NEW n \in Cuts, n < mid + 1 PROVE n <= take'
    BY <1>3, <1>5, <2>1, <2>2
  <2> QED BY <1>1, <1>4, <1>6, <1>7, <2>2 DEF LongestInv
<1>8. ASSUME ~(Width(SubSeq(remaining, 1, end)) <= Budget), hi' = mid - 1, lo' = lo, take' = take
      PROVE  LongestInv'
  <2>1. ASSUME NEW n \in Cuts, mid - 1 < n PROVE Budget < Width(SubSeq(remaining, 1, n))
    <3>1. n \in 0..Len(remaining) /\ end \in 0..Len(remaining) /\ end <= n
      BY <1>2, <1>3, <1>5, <2>1
    <3>2. Width(SubSeq(remaining, 1, end)) <= Width(SubSeq(remaining, 1, n))
      BY <1>2, <3>1, WidthGrows
    <3>3. Width(SubSeq(remaining, 1, end)) \in Nat /\ Width(SubSeq(remaining, 1, n)) \in Nat
      <4>1. SubSeq(remaining, 1, end) \in Seq(Bytes) /\ SubSeq(remaining, 1, n) \in Seq(Bytes)
        BY <1>2, <3>1
      <4> QED BY <4>1, WidthType
    <3> QED BY <1>4, <1>8, <3>2, <3>3
  <2> QED BY <1>1, <1>4, <1>6, <1>8, <2>1 DEF LongestInv
<1> QED BY <1>4, <1>7, <1>8 DEF Probe, mid, end

\* When the search ends its bounds have met, so what is longer than the cut found
\* does not fit.
LEMMA LongestCut == ASSUME FramingInv, LongestInv, Cut PROVE CutsAreLongest'
<1>1. /\ limit' = limit /\ texts' = texts /\ step = "search" /\ lo > hi
  BY DEF Cut, editVars
<1>2. /\ Searched /\ remaining \in Seq(Bytes) /\ Len(remaining) \in Nat /\ remaining # <<>>
      /\ frames \in Seq([id : Nat \X Nat, seq : Nat, total : {0}, data : Seq(Bytes)])
  BY <1>1 DEF FramingInv, Framed
<1>3. Room(Last(texts))' = Budget /\ Budget \in Int
  <2>1. limit \in Int /\ Last(texts) \in Blocks \cup Edits
    BY <1>1 DEF FramingInv, Last
  <2> QED BY <1>1, <2>1, RoomType DEF Budget, Room
<1>4. ASSUME NEW n \in Cuts, take < n PROVE Width(SubSeq(remaining, 1, n)) > Budget
  <2>1. n \in 0..Len(remaining)
    BY <1>2 DEF Cuts
  <2>2. ~(n < lo)
    BY <1>1, <1>2, <1>4, <2>1 DEF LongestInv, Searched
  <2>3. hi < n
    BY <1>1, <1>2, <2>1, <2>2 DEF Searched
  <2>4. Width(SubSeq(remaining, 1, n)) \in Nat
    <3>1. SubSeq(remaining, 1, n) \in Seq(Bytes)
      BY <1>2, <2>1
    <3> QED BY <3>1, WidthType
  <2> QED BY <1>1, <1>3, <2>3, <2>4 DEF LongestInv
<1>5. CASE take = 0
  <2>1. step' = "refused" /\ remaining' = remaining
    BY <1>5 DEF Cut
  <2>2. Character \in Cuts /\ Character \in 1..Len(remaining)
    <3>1. Character = FirstCharacter(remaining)
      BY DEF Character, FirstCharacter
    <3> QED BY <1>2, <3>1, CharacterEnds DEF Cuts
  <2>3. Width(SubSeq(remaining, 1, Character)) > Budget
    BY <1>2, <1>4, <1>5, <2>2
  <2> QED BY <1>3, <2>1, <2>3 DEF CutsAreLongest, Character
<1>6. CASE take # 0
  <2>1. /\ step' = "frame" /\ remaining' = SubSeq(remaining, take + 1, Len(remaining))
        /\ frames' = Append(frames, [id |-> <<Len(texts), Len(frames)>>, seq |-> Len(frames),
                                     total |-> 0, data |-> SubSeq(remaining, 1, take)])
    BY <1>6 DEF Cut
  <2>2. Last(frames').data = SubSeq(remaining, 1, take)
    <3> DEFINE piece == SubSeq(remaining, 1, take)
    <3> DEFINE frame == [id |-> <<Len(texts), Len(frames)>>, seq |-> Len(frames), total |-> 0, data |-> piece]
    <3>1. piece \in Seq(Bytes) /\ Len(texts) \in Nat /\ Len(frames) \in Nat
      BY <1>1, <1>2, <1>6 DEF FramingInv, Searched
    <3> HIDE DEF piece
    <3>2. frame \in [id : Nat \X Nat, seq : Nat, total : {0}, data : Seq(Bytes)] /\ frame.data = piece
      BY <3>1
    <3> HIDE DEF frame
    <3>3. frames' = Append(frames, frame)
      BY <2>1 DEF frame, piece
    <3>4. Last(frames') = frame
      BY <1>2, <3>2, <3>3 DEF Last
    <3> QED BY <3>2, <3>4 DEF piece
  <2>3. take \in 1..Len(remaining)
    BY <1>2, <1>6 DEF Searched
  <2>4. ASSUME remaining' # <<>>
        PROVE  Width(SubSeq(remaining, 1, take) \o SubSeq(remaining', 1, Character')) > Budget
    <3>1. remaining' \in Seq(Bytes) /\ Len(remaining') \in Nat
      BY <1>2, <2>1, <2>3
    <3>2. PICK c \in 1..Len(remaining') : c = Character' /\ c \in Cuts'
      <4>1. Character' = FirstCharacter(remaining')
        BY DEF Character, FirstCharacter
      <4> QED BY <2>4, <3>1, <4>1, CharacterEnds DEF Cuts
    <3>3. c > 0 /\ take < take + c
      BY <1>2, <2>3, <3>1
    <3>4. /\ take + c \in Cuts
          /\ SubSeq(remaining, 1, take) \o SubSeq(remaining', 1, c) = SubSeq(remaining, 1, take + c)
      BY <1>2, <2>1, <2>3, <3>2, <3>3, CutsOfRest
    <3> QED BY <1>4, <3>2, <3>3, <3>4
  <2> QED BY <1>3, <2>1, <2>2, <2>4 DEF CutsAreLongest
<1> QED BY <1>5, <1>6

\* Frame cuts the longest pieces there are, and refuses a block only when one of
\* its characters does not fit: that the binary search moves back to the start of
\* a character does not make it miss a longer piece.
THEOREM CutsLongest == Spec => []CutsAreLongest
<1>1. Init => LongestInv /\ CutsAreLongest
  BY DEF Init, FramingInit, FramingIdle, LongestInv, CutsAreLongest
<1>2. FramingInv /\ LongestInv /\ CutsAreLongest /\ [Next]_vars => LongestInv' /\ CutsAreLongest'
  <2> SUFFICES ASSUME FramingInv, LongestInv, CutsAreLongest, [Next]_vars PROVE LongestInv' /\ CutsAreLongest'
    OBVIOUS
  <2>1. CASE Search
    <3>1. CutsAreLongest'
      BY <2>1 DEF Search, CutsAreLongest, cutVars, editVars, Room, Character
    <3> QED BY <2>1, <3>1, LongestSearch
  <2>2. CASE Probe
    <3>1. CutsAreLongest'
      BY <2>2 DEF Probe, CutsAreLongest
    <3> QED BY <2>2, <3>1, LongestProbe
  <2>3. CASE Cut
    <3>1. LongestInv'
      BY <2>3 DEF Cut, LongestInv
    <3> QED BY <2>3, <3>1, LongestCut
  <2>4. CASE Store
    BY <2>4 DEF Store, LongestInv, CutsAreLongest
  <2>5. CASE Edit
    BY <2>5 DEF Edit, LongestInv, CutsAreLongest
  <2>6. CASE Fetch \/ UNCHANGED framingVars
    BY <2>6 DEF Fetch, framingVars, editVars, cutVars, LongestInv, CutsAreLongest, Cuts, Budget, Room, Character
  <2> QED BY <2>1, <2>2, <2>3, <2>4, <2>5, <2>6 DEF Next, FramingStep, vars
<1> QED BY <1>1, <1>2, FramingInit_Inv, FramingNext_Inv, PTL DEF Spec

--------------------------------------------------------------------------------
\* FlattenSeq, which is written with a recursive function.  What holds for all
\* numbers is shown by the least one for which it would not (Least).

JoinsTo(f, seqs, n) == f = [i \in 1..n |-> IF i = 1 THEN seqs[i] ELSE f[i - 1] \o seqs[i]]
Joins(f, seqs) == JoinsTo(f, seqs, Len(seqs))

LEMMA JoinsAt ==
    ASSUME NEW f, NEW seqs, NEW n, JoinsTo(f, seqs, n), NEW i \in 1..n
    PROVE  f[i] = IF i = 1 THEN seqs[i] ELSE f[i - 1] \o seqs[i]
<1> DEFINE g == [j \in 1..n |-> IF j = 1 THEN seqs[j] ELSE f[j - 1] \o seqs[j]]
<1>1. g[i] = IF i = 1 THEN seqs[i] ELSE f[i - 1] \o seqs[i]
  OBVIOUS
<1>2. f = g
  BY DEF JoinsTo
<1> HIDE DEF g
<1> QED BY <1>1, <1>2

LEMMA FlattenJoins ==
    ASSUME NEW seqs, Len(seqs) \in Nat, Len(seqs) # 0
    PROVE  \E f : Joins(f, seqs) /\ FlattenSeq(seqs) = f[Len(seqs)]
<1> DEFINE Missing == {n \in 0..Len(seqs) : ~\E f : JoinsTo(f, seqs, n)}
<1>1. Missing = {}
  <2> SUFFICES ASSUME Missing # {} PROVE FALSE
    OBVIOUS
  <2>1. Min(Missing) \in Missing /\ \A n \in Missing : Min(Missing) <= n
    <3>1. Missing \in SUBSET (0..Len(seqs))
      OBVIOUS
    <3> HIDE DEF Missing
    <3> QED BY <3>1, Least
  <2>2. PICK n \in 0..Len(seqs) : n \in Missing /\ \A k \in Missing : n <= k
    BY <2>1
  <2>3. n # 0
    <3>1. JoinsTo(<<>>, seqs, 0)
      BY DEF JoinsTo
    <3> QED BY <2>2, <3>1
  <2>4. PICK f : JoinsTo(f, seqs, n - 1)
    <3>1. n - 1 \in 0..Len(seqs) /\ ~(n <= n - 1)
      BY <2>3
    <3> QED BY <2>2, <3>1
  <2> DEFINE g == [i \in 1..n |-> IF i = n THEN IF i = 1 THEN seqs[i] ELSE f[i - 1] \o seqs[i] ELSE f[i]]
  <2>5. ASSUME NEW i \in 1..n PROVE g[i] = IF i = 1 THEN seqs[i] ELSE g[i - 1] \o seqs[i]
    <3>1. i # 1 => i - 1 \in 1..n /\ g[i - 1] = f[i - 1]
      OBVIOUS
    <3>2. i # n => i \in 1..n - 1 /\ f[i] = IF i = 1 THEN seqs[i] ELSE f[i - 1] \o seqs[i]
      <4>1. i # n => i \in 1..n - 1
        OBVIOUS
      <4> QED BY <2>4, <4>1, JoinsAt
    <3>3. g[i] = IF i = n THEN IF i = 1 THEN seqs[i] ELSE f[i - 1] \o seqs[i] ELSE f[i]
      OBVIOUS
    <3> HIDE DEF g
    <3> QED BY <3>1, <3>2, <3>3
  <2>6. g = [i \in 1..n |-> g[i]]
    OBVIOUS
  <2> HIDE DEF g
  <2>7. JoinsTo(g, seqs, n)
    BY <2>5, <2>6 DEF JoinsTo
  <2> QED BY <2>2, <2>7
<1>2. Len(seqs) \notin Missing
  BY <1>1
<1>3. \E f : Joins(f, seqs)
  <2>1. Len(seqs) \in 0..Len(seqs)
    OBVIOUS
  <2> QED BY <1>2, <2>1 DEF Joins
<1> QED BY <1>3 DEF Joins, JoinsTo, FlattenSeq

\* Two sequences that begin alike are joined alike as far as they do.
LEMMA JoinsAlike ==
    ASSUME NEW S, NEW a \in Seq(Seq(S)), NEW b \in Seq(Seq(S)), NEW m \in Nat, m <= Len(a), m <= Len(b),
           \A i \in 1..m : a[i] = b[i], NEW f, NEW g, Joins(f, a), Joins(g, b), NEW n \in 1..m
    PROVE  f[n] = g[n] /\ f[n] \in Seq(S)
<1> DEFINE Different == {i \in 1..m : ~(f[i] = g[i] /\ f[i] \in Seq(S))}
<1> SUFFICES ASSUME Different # {} PROVE FALSE
  OBVIOUS
<1>1. PICK i \in 1..m : i \in Different /\ \A k \in Different : i <= k
  <2>1. Different \in SUBSET (0..m)
    OBVIOUS
  <2>2. Min(Different) \in Different /\ \A k \in Different : Min(Different) <= k
    <3> HIDE DEF Different
    <3> QED BY <2>1, Least
  <2> QED BY <2>2
<1>2. /\ f[i] = IF i = 1 THEN a[i] ELSE f[i - 1] \o a[i]
      /\ g[i] = IF i = 1 THEN b[i] ELSE g[i - 1] \o b[i]
      /\ a[i] = b[i] /\ a[i] \in Seq(S)
  <2>1. i \in 1..Len(a) /\ i \in 1..Len(b)
    BY LenProperties
  <2> QED BY <2>1, JoinsAt, ElementOfSeq DEF Joins
<1>3. CASE i = 1
  BY <1>1, <1>2, <1>3
<1>4. CASE i # 1
  <2>1. i - 1 \in 1..m /\ ~(i <= i - 1)
    BY <1>4
  <2>2. f[i - 1] = g[i - 1] /\ f[i - 1] \in Seq(S)
    BY <1>1, <2>1
  <2>3. f[i - 1] \o a[i] \in Seq(S)
    BY <1>2, <2>2, ConcatProperties
  <2> QED BY <1>1, <1>2, <1>4, <2>2, <2>3
<1> QED BY <1>3, <1>4

LEMMA FlattenAppend ==
    ASSUME NEW S, NEW seqs \in Seq(Seq(S)), NEW s \in Seq(S)
    PROVE  FlattenSeq(Append(seqs, s)) = FlattenSeq(seqs) \o s /\ FlattenSeq(seqs) \in Seq(S)
<1> DEFINE more == Append(seqs, s)
<1>1. /\ Len(seqs) \in Nat /\ more \in Seq(Seq(S)) /\ Len(more) = Len(seqs) + 1
      /\ more[Len(seqs) + 1] = s
      /\ \A i \in 1..Len(seqs) : seqs[i] = more[i]
  BY AppendProperties, LenProperties
<1> HIDE DEF more
<1>2. PICK g : Joins(g, more) /\ FlattenSeq(more) = g[Len(seqs) + 1]
  BY <1>1, FlattenJoins
<1>3. g[Len(seqs) + 1] = IF Len(seqs) + 1 = 1 THEN s ELSE g[Len(seqs)] \o s
  <2>1. Len(seqs) + 1 \in 1..Len(more) /\ Len(seqs) + 1 - 1 = Len(seqs)
    BY <1>1
  <2> QED BY <1>1, <1>2, <2>1, JoinsAt DEF Joins
<1>4. CASE Len(seqs) = 0
  <2>1. seqs = <<>> /\ FlattenSeq(seqs) = seqs
    BY <1>4, EmptySeq DEF FlattenSeq
  <2>2. g[Len(seqs) + 1] = s
    BY <1>3, <1>4
  <2>3. <<>> \in Seq(S) /\ <<>> \o s = s
    BY ConcatEmptySeq
  <2> QED BY <1>2, <2>1, <2>2, <2>3 DEF more
<1>5. CASE Len(seqs) # 0
  <2>1. PICK f : Joins(f, seqs) /\ FlattenSeq(seqs) = f[Len(seqs)]
    BY <1>1, <1>5, FlattenJoins
  <2>2. f[Len(seqs)] = g[Len(seqs)] /\ f[Len(seqs)] \in Seq(S)
    <3>1. Len(seqs) \in 1..Len(seqs) /\ Len(seqs) <= Len(seqs) /\ Len(seqs) <= Len(more)
      BY <1>1, <1>5
    <3>2. Len(seqs) \in Nat /\ more \in Seq(Seq(S)) /\ \A i \in 1..Len(seqs) : seqs[i] = more[i]
      BY <1>1
    <3>3. Joins(f, seqs) /\ Joins(g, more)
      BY <1>2, <2>1
    <3> HIDE DEF Joins
    <3> QED BY <3>1, <3>2, <3>3, JoinsAlike, Zenon
  <2> QED BY <1>1, <1>2, <1>3, <1>5, <2>1, <2>2 DEF more
<1> QED BY <1>4, <1>5

--------------------------------------------------------------------------------
\* The frames of a text, read in any order.

Frame == [id : Nat \X Nat, seq : Nat, total : Nat, data : Seq(Bytes)]
Data(read) == [i \in DOMAIN read |-> read[i].data]

\* All frames of the n-th revision of a block, in order.
Revision(whole, n, text) ==
    /\ whole \in Seq(Frame)
    /\ \A i \in DOMAIN whole : /\ whole[i].id = <<n, i - 1>> /\ whole[i].seq = i - 1
                               /\ whole[i].total = Len(whole) /\ whole[i].data # <<>>
    /\ FlattenSeq(Data(whole)) = text

\* What a reader has of one revision is complete if it is as many frames as there
\* are and none twice.
LEMMA CompleteRevision ==
    ASSUME NEW whole, NEW n, NEW text, Revision(whole, n, text),
           NEW read \in Seq(Frame), read # <<>>, \A i \in DOMAIN read : read[i] \in ToSet(whole)
    PROVE  Complete(read) <=> IsInjective(read) /\ Len(read) = read[1].total
<1>1. /\ Len(read) \in Nat \ {0} /\ DOMAIN read = 1..Len(read) /\ 1 \in DOMAIN read
      /\ Len(whole) \in Nat /\ DOMAIN whole = 1..Len(whole)
  BY LenProperties, EmptySeq DEF Revision
<1>2. ASSUME NEW i \in DOMAIN read
      PROVE  /\ read[i].seq \in Nat /\ read[i].seq < Len(whole) /\ read[i].total = Len(whole)
             /\ read[i].data # <<>> /\ read[i].id = <<n, read[i].seq>>
             /\ read[i] = whole[read[i].seq + 1]
  <2>1. PICK k \in DOMAIN whole : read[i] = whole[k]
    BY DEF ToSet
  <2>2. /\ read[i].seq = k - 1 /\ read[i].total = Len(whole) /\ read[i].data # <<>>
        /\ read[i].id = <<n, k - 1>>
    BY <2>1 DEF Revision
  <2>3. k \in Int /\ 1 <= k /\ k <= Len(whole) /\ read[i].seq + 1 = k
    BY <1>1, <2>2
  <2> QED BY <1>1, <2>1, <2>2, <2>3
<1>3. ASSUME Complete(read) PROVE IsInjective(read) /\ Len(read) = read[1].total
  <2>1. IsInjective([i \in DOMAIN read |-> read[i].id]) /\ read[1].total = Len(read)
    BY <1>1, <1>3 DEF Complete
  <2> QED BY <2>1 DEF IsInjective
<1>4. ASSUME IsInjective(read), Len(read) = read[1].total PROVE Complete(read)
  <2>1. Len(read) = Len(whole)
    BY <1>1, <1>2, <1>4
  <2>2. ASSUME NEW i \in DOMAIN read, NEW j \in DOMAIN read, read[i].seq = read[j].seq PROVE i = j
    <3>1. read[i] = read[j]
      BY <1>2, <2>2
    <3> QED BY <1>4, <3>1 DEF IsInjective
  <2>3. ASSUME NEW i \in DOMAIN read, NEW j \in DOMAIN read, read[i].id = read[j].id PROVE i = j
    <3>1. read[i].seq = read[j].seq
      BY <1>2, <2>3
    <3> QED BY <2>2, <3>1
  <2>4. /\ IsInjective([i \in DOMAIN read |-> read[i].id])
        /\ IsInjective([i \in DOMAIN read |-> read[i].seq])
    BY <2>2, <2>3 DEF IsInjective
  <2> QED BY <1>2, <2>1, <2>4 DEF Complete
<1> QED BY <1>3, <1>4

\* Every frame of a complete set goes to its place, whatever order they are in.
LEMMA RestoredRevision ==
    ASSUME NEW whole, NEW n, NEW text, Revision(whole, n, text),
           NEW read \in Seq(Frame), read # <<>>, \A i \in DOMAIN read : read[i] \in ToSet(whole), Complete(read)
    PROVE  Restored(read) = text
<1>1. /\ Len(read) \in Nat \ {0} /\ DOMAIN read = 1..Len(read) /\ 1 \in DOMAIN read
      /\ Len(whole) \in Nat /\ DOMAIN whole = 1..Len(whole)
  BY LenProperties, EmptySeq DEF Revision
<1>2. ASSUME NEW i \in DOMAIN read
      PROVE  /\ read[i].seq \in 0..(Len(whole) - 1) /\ read[i].total = Len(whole)
             /\ read[i] = whole[read[i].seq + 1]
  <2>1. PICK k \in DOMAIN whole : read[i] = whole[k]
    BY DEF ToSet
  <2>2. read[i].seq = k - 1 /\ read[i].total = Len(whole)
    BY <2>1 DEF Revision
  <2>3. k \in Int /\ 1 <= k /\ k <= Len(whole) /\ read[i].seq + 1 = k
    BY <1>1, <2>2
  <2> QED BY <1>1, <2>1, <2>2, <2>3
<1>3. Len(read) = Len(whole)
  BY <1>1, <1>2 DEF Complete
<1> DEFINE Places == 0..(Len(whole) - 1)
<1> DEFINE place == [i \in DOMAIN read |-> read[i].seq]
<1>4. ASSUME NEW k \in Places PROVE \E i \in DOMAIN read : read[i].seq = k
  <2>1. place \in [DOMAIN read -> Places] /\ IsInjective(place)
    BY <1>2 DEF Complete
  <2>2. place \in Injection(DOMAIN read, Places)
    BY <2>1 DEF IsInjective, Injection
  <2>3. IsFiniteSet(DOMAIN read) /\ IsFiniteSet(Places) /\ Cardinality(DOMAIN read) = Cardinality(Places)
    <3>1. 0 \in Int /\ 1 \in Int /\ Len(read) \in Int /\ Len(whole) - 1 \in Int
      BY <1>1
    <3>2. IsFiniteSet(Places) /\ Cardinality(Places) = IF 0 > Len(whole) - 1 THEN 0 ELSE Len(whole) - 1 - 0 + 1
      BY <3>1, FS_Interval
    <3>3. IsFiniteSet(1..Len(read)) /\ Cardinality(1..Len(read)) = IF 1 > Len(read) THEN 0 ELSE Len(read) - 1 + 1
      BY <3>1, FS_Interval
    <3> HIDE DEF Places
    <3> QED BY <1>1, <1>3, <3>2, <3>3
  <2>4. place \in Surjection(DOMAIN read, Places)
    <3> HIDE DEF place, Places
    <3> QED BY <2>2, <2>3, FS_Injection
  <2>5. \E i \in DOMAIN read : place[i] = k
    BY <2>4 DEF Surjection
  <2> QED BY <2>5
<1> DEFINE Here(i) == {row \in ToSet(read) : row.seq = i - 1}
<1>5. ASSUME NEW i \in DOMAIN read PROVE Here(i) = {whole[i]}
  <2>1. i - 1 \in Places /\ i - 1 + 1 = i
    BY <1>1, <1>3
  <2>2. PICK j \in DOMAIN read : read[j].seq = i - 1
    BY <1>4, <2>1
  <2>3. read[j] = whole[i] /\ read[j] \in ToSet(read)
    BY <1>2, <2>1, <2>2 DEF ToSet
  <2>4. ASSUME NEW row \in ToSet(read), row.seq = i - 1 PROVE row = whole[i]
    BY <1>2, <2>1, <2>4 DEF ToSet
  <2> QED BY <2>2, <2>3, <2>4
<1>6. [i \in DOMAIN read |-> IF Here(i) = {} THEN <<>> ELSE (CHOOSE row \in Here(i) : TRUE).data] = Data(whole)
  <2>1. ASSUME NEW i \in DOMAIN read
        PROVE  (IF Here(i) = {} THEN <<>> ELSE (CHOOSE row \in Here(i) : TRUE).data) = whole[i].data
    <3>1. Here(i) # {} /\ (CHOOSE row \in Here(i) : TRUE) \in Here(i)
      BY <1>5
    <3>2. (CHOOSE row \in Here(i) : TRUE) = whole[i]
      BY <1>5, <3>1
    <3> HIDE DEF Here
    <3> QED BY <3>1, <3>2
  <2>2. DOMAIN read = DOMAIN whole
    BY <1>1, <1>3
  <2> HIDE DEF Here
  <2> QED BY <2>1, <2>2 DEF Data
<1>7. Restored(read) = FlattenSeq(Data(whole))
  BY <1>6 DEF Restored
<1> QED BY <1>7 DEF Revision

--------------------------------------------------------------------------------
\* What Frame has cut and what it has not are the text.
Joined ==
    step # "idle" =>
        /\ \A i \in DOMAIN frames : frames[i].id = <<Len(texts), i - 1>>
        /\ FlattenSeq(Data(frames)) \o remaining = Last(texts)
        /\ step \in {"store", "stored"} => remaining = <<>>

\* The frames that are stored, or were when a reader came by.
Held == rows \cup ToSet(group)

\* Of the last revision only frames whose total is known are stored; of each one
\* before it, frames that together are its text.
Kept ==
    /\ rows \subseteq Frame /\ group \in Seq(Frame)
    /\ step = "idle" => group = <<>>
    /\ \A row \in Held : /\ row.id[1] \in 1..Len(texts)
                         /\ row.id[1] = Len(texts) => step \in {"store", "stored"} /\ row \in ToSet(Finished)
    /\ \A n \in 1..(Len(texts) - 1) :
           \E whole : Revision(whole, n, texts[n]) /\ \A row \in Held : row.id[1] = n => row \in ToSet(whole)

StoredInv == Joined /\ Kept

LEMMA FlattenEmpty == FlattenSeq(Data(<<>>)) = <<>>
<1>1. Data(<<>>) = <<>>
  BY DEF Data
<1> QED BY <1>1 DEF FlattenSeq

LEMMA DataAppend ==
    ASSUME NEW T, NEW read \in Seq(T), NEW row \in T
    PROVE  Data(Append(read, row)) = Append(Data(read), row.data)
<1> DEFINE more == Append(read, row)
<1>1. /\ Len(read) \in Nat /\ DOMAIN read = 1..Len(read) /\ DOMAIN more = 1..(Len(read) + 1)
      /\ more[Len(read) + 1] = row
      /\ \A i \in 1..Len(read) : more[i] = read[i]
  BY AppendProperties, LenProperties
<1> HIDE DEF more
<1>2. /\ Data(more) = [i \in 1..(Len(read) + 1) |-> more[i].data]
      /\ Data(read) = [i \in 1..Len(read) |-> read[i].data]
  BY <1>1 DEF Data
<1>3. Append(Data(read), row.data) = [i \in 1..(Len(read) + 1) |-> IF i = Len(read) + 1 THEN row.data ELSE read[i].data]
  BY <1>1, <1>2
<1>4. \A i \in 1..(Len(read) + 1) : more[i].data = IF i = Len(read) + 1 THEN row.data ELSE read[i].data
  BY <1>1
<1> QED BY <1>2, <1>3, <1>4 DEF more

\* When the text is cut, the frames with their total are its revision.
LEMMA FinishedRevision ==
    ASSUME FramingInv, Joined, step \in {"store", "stored"}
    PROVE  /\ Revision(Finished, Len(texts), Last(texts))
           /\ \A row \in ToSet(Finished) : row \in Frame /\ row.id[1] = Len(texts)
<1> DEFINE Piece == [id : Nat \X Nat, seq : Nat, total : {0}, data : Seq(Bytes)]
<1> DEFINE n == Len(frames)
<1>1. /\ Framed /\ Len(texts) \in Nat
      /\ \A i \in DOMAIN frames : frames[i].id = <<Len(texts), i - 1>>
      /\ FlattenSeq(Data(frames)) \o <<>> = Last(texts)
  BY LenProperties DEF FramingInv, Joined
<1>2. /\ frames \in Seq(Piece) /\ n \in Nat /\ DOMAIN frames = 1..n
      /\ \A i \in DOMAIN frames : frames[i].seq = i - 1 /\ frames[i].data # <<>>
  <2>1. frames \in Seq(Piece)
    BY <1>1 DEF Framed
  <2> HIDE DEF Piece
  <2>2. Len(frames) \in Nat /\ DOMAIN frames = 1..Len(frames)
    BY <2>1, LenProperties
  <2> QED BY <1>1, <2>1, <2>2 DEF Framed, Fits
<1>3. \A i \in DOMAIN frames : frames[i] \in Piece
  <2> HIDE DEF Piece, n
  <2> QED BY <1>2, ElementOfSeq DEF n
<1>4. ASSUME NEW i \in DOMAIN frames
      PROVE  /\ Finished[i] \in Frame
             /\ Finished[i].id = frames[i].id /\ Finished[i].seq = frames[i].seq
             /\ Finished[i].total = n /\ Finished[i].data = frames[i].data
  <2>1. Finished[i] = [frames[i] EXCEPT !.total = n]
    BY DEF Finished
  <2>2. n \in Nat /\ frames[i] \in Piece
    BY <1>2, <1>3
  <2> HIDE DEF n
  <2> QED BY <2>1, <2>2 DEF Frame
<1> HIDE DEF n
<1>5. Finished \in Seq(Frame) /\ DOMAIN Finished = 1..n /\ Len(Finished) = n
  <2>1. Finished = [i \in 1..n |-> Finished[i]]
    BY <1>2 DEF Finished
  <2>2. \A i \in 1..n : Finished[i] \in Frame
    BY <1>2, <1>4
  <2>3. DOMAIN Finished = 1..n
    BY <2>1
  <2>4. Finished \in [1..n -> Frame]
    BY <2>1, <2>2
  <2>5. Finished \in Seq(Frame)
    BY <1>2, <2>4
  <2> QED BY <1>2, <2>3, <2>5, LenProperties
<1>6. Data(Finished) = Data(frames)
  BY <1>2, <1>4, <1>5 DEF Data
<1>7. FlattenSeq(Data(frames)) = Last(texts)
  <2>1. Data(frames) \in Seq(Seq(Bytes))
    <3>1. Data(frames) = [i \in 1..n |-> frames[i].data] /\ \A i \in 1..n : frames[i].data \in Seq(Bytes)
      BY <1>2, <1>3 DEF Data
    <3> QED BY <1>2, <3>1
  <2>2. FlattenSeq(Data(frames)) \in Seq(Bytes)
    BY <2>1, FlattenAppend
  <2> QED BY <1>1, <2>2, ConcatEmptySeq
<1>8. ASSUME NEW i \in DOMAIN Finished
      PROVE  /\ Finished[i].id = <<Len(texts), i - 1>> /\ Finished[i].seq = i - 1
             /\ Finished[i].total = Len(Finished) /\ Finished[i].data # <<>>
             /\ Finished[i] \in Frame /\ Finished[i].id[1] = Len(texts)
  <2>1. i \in DOMAIN frames
    BY <1>2, <1>5
  <2>2. Finished[i].id = <<Len(texts), i - 1>>
    BY <1>1, <1>4, <2>1
  <2>3. Finished[i].seq = i - 1 /\ Finished[i].data # <<>>
    BY <1>2, <1>4, <2>1
  <2> QED BY <1>4, <1>5, <2>1, <2>2, <2>3
<1> QED BY <1>5, <1>6, <1>7, <1>8 DEF Revision, ToSet

LEMMA StoredInit == Init => StoredInv
<1> SUFFICES ASSUME Init PROVE StoredInv
  OBVIOUS
<1>1. rows = {} /\ group = <<>> /\ Len(texts) = 1 /\ Held = {}
  BY DEF Init, FramingInit, FramingIdle, Held, ToSet
<1>2. Kept
  BY <1>1 DEF Kept
<1>3. Joined
  <2> SUFFICES ASSUME FramingInit PROVE Joined
    BY DEF Init, FramingIdle, Joined
  <2>1. PICK text \in Blocks : texts = <<text>>
    BY DEF FramingInit
  <2>2. step = "frame" /\ remaining = text /\ frames = <<>>
    BY <2>1 DEF FramingInit
  <2>3. text \in Seq(Bytes) /\ Last(texts) = text
    BY <2>1, FramingAssumption DEF Last
  <2>4. <<>> \o text = text
    BY <2>3, ConcatEmptySeq
  <2> QED BY <2>2, <2>3, <2>4, FlattenEmpty DEF Joined
<1> QED BY <1>2, <1>3 DEF StoredInv

\* What a cut takes from the rest it adds to the frames.
LEMMA StoredCut == ASSUME FramingInv, StoredInv, Cut PROVE StoredInv'
<1>1. /\ limit' = limit /\ texts' = texts /\ rows' = rows /\ group' = group
      /\ step = "search" /\ step' \in {"refused", "frame"}
  BY DEF Cut, editVars
<1>2. Kept'
  <2>1. Held' = Held /\ \A row \in Held : row.id[1] # Len(texts)
    BY <1>1 DEF StoredInv, Kept, Held
  <2> QED BY <1>1, <2>1 DEF StoredInv, Kept
<1>3. CASE take = 0
  <2>1. Joined'
    BY <1>1, <1>3 DEF Cut, StoredInv, Joined
  <2> QED BY <1>2, <2>1 DEF StoredInv
<1>4. CASE take # 0
  <2> DEFINE Piece == [id : Nat \X Nat, seq : Nat, total : {0}, data : Seq(Bytes)]
  <2> DEFINE piece == SubSeq(remaining, 1, take)
  <2> DEFINE frame == [id |-> <<Len(texts), Len(frames)>>, seq |-> Len(frames), total |-> 0, data |-> piece]
  <2>1. frames' = Append(frames, frame) /\ remaining' = SubSeq(remaining, take + 1, Len(remaining))
    BY <1>4 DEF Cut
  <2>2. /\ remaining \in Seq(Bytes) /\ take \in 1..Len(remaining) /\ Len(remaining) \in Nat
        /\ frames \in Seq(Piece) /\ Len(texts) \in Nat
    BY <1>1, <1>4 DEF FramingInv, Framed, Searched
  <2>3. piece \in Seq(Bytes) /\ remaining' \in Seq(Bytes) /\ piece \o remaining' = remaining
    <3>1. /\ piece \in Seq(Bytes) /\ Len(piece) = take /\ \A i \in 1..take : piece[i] = remaining[i]
          /\ remaining' \in Seq(Bytes) /\ Len(remaining') = Len(remaining) - take
          /\ \A i \in 1..Len(remaining') : remaining'[i] = remaining[take + i]
      BY <2>1, <2>2
    <3> HIDE DEF piece
    <3>2. /\ piece \o remaining' \in Seq(Bytes) /\ Len(piece \o remaining') = Len(remaining)
          /\ \A i \in 1..Len(remaining) :
                 (piece \o remaining')[i] = IF i <= take THEN piece[i] ELSE remaining'[i - take]
      <4>1. Len(piece) + Len(remaining') = Len(remaining)
        BY <2>2, <3>1
      <4> QED BY <3>1, <4>1, ConcatProperties
    <3>3. ASSUME NEW i \in 1..Len(remaining) PROVE (piece \o remaining')[i] = remaining[i]
      <4>1. CASE i <= take
        <5>1. i \in 1..take
          BY <2>2, <4>1
        <5> QED BY <3>1, <3>2, <4>1, <5>1
      <4>2. CASE ~(i <= take)
        <5>1. i - take \in 1..Len(remaining') /\ take + (i - take) = i
          BY <2>2, <3>1, <4>2
        <5>2. remaining'[i - take] = remaining[take + (i - take)]
          BY <3>1, <5>1
        <5> QED BY <3>2, <4>2, <5>1, <5>2
      <4> QED BY <4>1, <4>2
    <3> QED BY <2>2, <3>1, <3>2, <3>3, SeqEqual DEF piece
  <2> HIDE DEF piece
  <2>4. frame \in Piece /\ frame.data = piece /\ frame.id = <<Len(texts), Len(frames)>>
    BY <2>2, <2>3, LenProperties
  <2>5. \A i \in DOMAIN frames : frames[i].data \in Seq(Bytes) /\ frames[i].id = <<Len(texts), i - 1>>
    <3>1. \A i \in DOMAIN frames : frames[i] \in Piece
      <4> HIDE DEF Piece
      <4> QED BY <2>2, ElementOfSeq, LenProperties
    <3> QED BY <1>1, <3>1 DEF StoredInv, Joined
  <2> HIDE DEF Piece, frame
  <2>6. /\ Len(frames) \in Nat /\ DOMAIN frames = 1..Len(frames) /\ DOMAIN frames' = 1..(Len(frames) + 1)
        /\ frames'[Len(frames) + 1] = frame
        /\ \A i \in 1..Len(frames) : frames'[i] = frames[i]
    BY <2>1, <2>2, <2>4, AppendProperties, LenProperties
  <2>7. FlattenSeq(Data(frames')) = FlattenSeq(Data(frames)) \o piece /\ FlattenSeq(Data(frames)) \in Seq(Bytes)
    <3>1. Data(frames) \in Seq(Seq(Bytes))
      <4>1. Data(frames) = [i \in 1..Len(frames) |-> frames[i].data]
        BY <2>6 DEF Data
      <4> QED BY <2>5, <2>6, <4>1
    <3>2. Data(frames') = Append(Data(frames), piece)
      BY <2>1, <2>2, <2>4, DataAppend
    <3> QED BY <2>3, <3>1, <3>2, FlattenAppend
  <2>8. FlattenSeq(Data(frames')) \o remaining' = Last(texts)
    <3>1. (FlattenSeq(Data(frames)) \o piece) \o remaining' = FlattenSeq(Data(frames)) \o (piece \o remaining')
      <4>1. FlattenSeq(Data(frames)) \in Seq(Bytes) /\ piece \in Seq(Bytes) /\ remaining' \in Seq(Bytes)
        BY <2>3, <2>7
      <4>2. \A a, b, c \in Seq(Bytes) : (a \o b) \o c = a \o (b \o c)
        BY ConcatAssociative
      <4> QED BY <4>1, <4>2
    <3> QED BY <1>1, <2>3, <2>7, <3>1 DEF StoredInv, Joined
  <2>9. \A i \in DOMAIN frames' : frames'[i].id = <<Len(texts), i - 1>>
    BY <2>4, <2>5, <2>6
  <2>10. step' = "frame"
    BY <1>4 DEF Cut
  <2> QED BY <1>1, <1>2, <2>8, <2>9, <2>10 DEF StoredInv, Joined
<1> QED BY <1>3, <1>4

LEMMA StoredStore == ASSUME FramingInv, StoredInv, Store PROVE StoredInv'
<1>1. /\ texts' = texts /\ remaining' = remaining /\ frames' = frames /\ group' = group
      /\ step = "store" /\ step' \in {"store", "stored"}
      /\ rows' \subseteq rows \cup ToSet(Finished)
  BY DEF Store, editVars, cutVars
<1>2. Finished' = Finished
  BY <1>1 DEF Finished
<1>3. \A row \in ToSet(Finished) : row \in Frame /\ row.id[1] = Len(texts)
  BY <1>1, FinishedRevision DEF StoredInv
<1>4. Held' \subseteq Held \cup ToSet(Finished)
  BY <1>1 DEF Held
<1>5. Len(texts) \in Nat \ {0}
  BY <1>1, LenProperties, EmptySeq DEF FramingInv
<1>6. Joined'
  BY <1>1 DEF StoredInv, Joined
<1>7. rows' \subseteq Frame /\ group' \in Seq(Frame)
  BY <1>1, <1>3 DEF StoredInv, Kept
<1>8. ASSUME NEW row \in Held'
      PROVE  row.id[1] \in 1..Len(texts) /\ (row.id[1] = Len(texts) => row \in ToSet(Finished))
  BY <1>3, <1>4, <1>5 DEF StoredInv, Kept
<1>9. ASSUME NEW n \in 1..(Len(texts) - 1)
      PROVE  \E whole : Revision(whole, n, texts[n]) /\ \A row \in Held' : row.id[1] = n => row \in ToSet(whole)
  <2>1. n # Len(texts)
    BY <1>5
  <2>2. PICK whole : Revision(whole, n, texts[n]) /\ \A row \in Held : row.id[1] = n => row \in ToSet(whole)
    BY DEF StoredInv, Kept
  <2>3. \A row \in Held' : row.id[1] = n => row \in ToSet(whole)
    BY <1>3, <1>4, <2>1, <2>2
  <2> QED BY <2>2, <2>3
<1> QED BY <1>1, <1>2, <1>6, <1>7, <1>8, <1>9 DEF StoredInv, Kept

\* The frames of the revision that is edited are all there are of it.
LEMMA StoredEdit == ASSUME FramingInv, StoredInv, Edit PROVE StoredInv'
<1>1. PICK text \in Edits : texts' = Append(texts, text) /\ remaining' = text
  BY DEF Edit
<1>2. /\ step = "stored" /\ step' = "frame" /\ frames' = <<>> /\ rows' = rows /\ group' = group
      /\ Held' = Held
  BY DEF Edit, Held
<1>3. texts \in Seq(Blocks \cup Edits) /\ texts # <<>> /\ text \in Blocks \cup Edits
  BY <1>2 DEF FramingInv
<1>4. /\ Len(texts) \in Nat \ {0} /\ Len(texts') = Len(texts) + 1 /\ Last(texts) = texts[Len(texts)]
      /\ Last(texts') = text
      /\ \A n \in 1..Len(texts) : texts'[n] = texts[n]
  BY <1>1, <1>3, LenProperties, EmptySeq, AppendProperties DEF Last
<1>5. Joined'
  <2>1. text \in Seq(Bytes) /\ <<>> \o text = text
    BY FramingAssumption, ConcatEmptySeq
  <2> QED BY <1>1, <1>2, <1>4, <2>1, FlattenEmpty DEF Joined
<1>6. ASSUME NEW row \in Held PROVE row.id[1] \in 1..Len(texts') /\ row.id[1] # Len(texts')
  <2>1. row.id[1] \in 1..Len(texts)
    BY DEF StoredInv, Kept
  <2> QED BY <1>4, <2>1
<1>7. ASSUME NEW n \in 1..(Len(texts') - 1)
      PROVE  \E whole : Revision(whole, n, texts'[n]) /\ \A row \in Held : row.id[1] = n => row \in ToSet(whole)
  <2>1. n \in 1..Len(texts) /\ texts'[n] = texts[n]
    BY <1>4
  <2>2. CASE n = Len(texts)
    <3>1. Revision(Finished, n, texts'[n])
      BY <1>2, <1>4, <2>1, <2>2, FinishedRevision DEF StoredInv
    <3>2. \A row \in Held : row.id[1] = n => row \in ToSet(Finished)
      BY <2>2 DEF StoredInv, Kept
    <3> QED BY <3>1, <3>2
  <2>3. CASE n # Len(texts)
    <3>1. n \in 1..(Len(texts) - 1)
      BY <1>4, <2>1, <2>3
    <3> QED BY <2>1, <3>1 DEF StoredInv, Kept
  <2> QED BY <2>2, <2>3
<1>8. Kept'
  <2>1. rows' \subseteq Frame /\ group' \in Seq(Frame)
    BY <1>2 DEF StoredInv, Kept
  <2> QED BY <1>2, <1>6, <1>7, <2>1 DEF Kept
<1> QED BY <1>5, <1>8 DEF StoredInv

LEMMA StoredFetch == ASSUME FramingInv, StoredInv, Fetch PROVE StoredInv'
<1>1. PICK row \in rows : group' = Append(group, row)
  BY DEF Fetch
<1>2. /\ step' = step /\ step # "idle"
      /\ texts' = texts /\ remaining' = remaining /\ frames' = frames /\ rows' = rows
      /\ Finished' = Finished
  BY DEF Fetch, editVars, cutVars, Finished
<1>3. group \in Seq(Frame) /\ row \in Frame /\ rows \subseteq Frame
  BY DEF StoredInv, Kept
<1>4. Held' \subseteq Held
  <2>1. ToSet(group') \subseteq ToSet(group) \cup {row}
    BY <1>1, <1>3, AppendProperties, LenProperties DEF ToSet
  <2> QED BY <1>2, <2>1 DEF Held
<1>5. group' \in Seq(Frame)
  BY <1>1, <1>3, AppendProperties
<1>6. Joined'
  BY <1>2 DEF StoredInv, Joined
<1>7. ASSUME NEW n \in 1..(Len(texts) - 1)
      PROVE  \E whole : Revision(whole, n, texts[n]) /\ \A other \in Held' : other.id[1] = n => other \in ToSet(whole)
  <2>1. PICK whole : Revision(whole, n, texts[n]) /\ \A other \in Held : other.id[1] = n => other \in ToSet(whole)
    BY DEF StoredInv, Kept
  <2> QED BY <1>4, <2>1
<1>8. ASSUME NEW other \in Held'
      PROVE  /\ other.id[1] \in 1..Len(texts)
             /\ other.id[1] = Len(texts) => step \in {"store", "stored"} /\ other \in ToSet(Finished)
  BY <1>4 DEF StoredInv, Kept
<1> QED BY <1>2, <1>3, <1>5, <1>6, <1>7, <1>8 DEF StoredInv, Kept

LEMMA StoredStep == FramingInv /\ StoredInv /\ [Next]_vars => StoredInv'
<1> SUFFICES ASSUME FramingInv, StoredInv, [Next]_vars PROVE StoredInv'
  OBVIOUS
<1>1. ASSUME UNCHANGED <<texts, remaining, frames, rows, group>>,
             step' = step \/ (step \in {"frame", "search"} /\ step' \in {"search", "refused"})
                          \/ (step = "frame" /\ step' = "store" /\ remaining = <<>>)
      PROVE  StoredInv'
  <2>1. Finished' = Finished /\ Held' = Held
    BY <1>1 DEF Finished, Held
  <2>2. Joined'
    BY <1>1 DEF StoredInv, Joined
  <2>3. Kept'
    BY <1>1, <2>1 DEF StoredInv, Kept
  <2> QED BY <2>2, <2>3 DEF StoredInv
<1>2. CASE Search
  BY <1>1, <1>2 DEF Search, cutVars, editVars
<1>3. CASE Probe
  BY <1>1, <1>3 DEF Probe, editVars
<1>4. CASE UNCHANGED framingVars
  BY <1>1, <1>4 DEF framingVars, cutVars, editVars
<1> QED BY <1>2, <1>3, <1>4, StoredCut, StoredStore, StoredEdit, StoredFetch DEF Next, FramingStep, vars

\* Whatever rows a reader gets, from before an edit or after it or twice, Unframe
\* takes those of one revision exactly if it has them all, and restores the text
\* that was framed.
THEOREM RestoresText == Spec => []RestoredAsStored
<1>1. FramingInv /\ StoredInv => RestoredAsStored
  <2> SUFFICES ASSUME FramingInv, StoredInv, NEW n \in DOMAIN texts, group # <<>>,
                      \A i \in DOMAIN group : group[i].id[1] = n
               PROVE  /\ Complete(group) <=> IsInjective(group) /\ Len(group) = group[1].total
                      /\ Complete(group) => Restored(group) = texts[n]
    BY DEF RestoredAsStored
  <2>1. /\ group \in Seq(Frame) /\ 1 \in DOMAIN group
        /\ \A i \in DOMAIN group : group[i] \in Held
    BY LenProperties, EmptySeq DEF StoredInv, Kept, Held, ToSet
  <2>2. step # "idle" /\ texts \in Seq(Blocks \cup Edits) /\ texts # <<>>
    BY DEF FramingInv, StoredInv, Kept
  <2>3. Len(texts) \in Nat \ {0} /\ n \in 1..Len(texts) /\ Last(texts) = texts[Len(texts)]
    BY <2>2, LenProperties, EmptySeq DEF Last
  <2>4. \E whole : Revision(whole, n, texts[n]) /\ \A row \in Held : row.id[1] = n => row \in ToSet(whole)
    <3>1. CASE n = Len(texts)
      <4>1. step \in {"store", "stored"} /\ \A row \in Held : row.id[1] = n => row \in ToSet(Finished)
        BY <2>1, <3>1 DEF StoredInv, Kept
      <4>2. Revision(Finished, n, texts[n])
        BY <2>3, <3>1, <4>1, FinishedRevision DEF StoredInv
      <4> QED BY <4>1, <4>2
    <3>2. CASE n # Len(texts)
      <4>1. n \in 1..(Len(texts) - 1)
        BY <2>3, <3>2
      <4> QED BY <4>1 DEF StoredInv, Kept
    <3> QED BY <3>1, <3>2
  <2>5. PICK whole : Revision(whole, n, texts[n]) /\ \A i \in DOMAIN group : group[i] \in ToSet(whole)
    BY <2>1, <2>4
  <2> QED BY <2>1, <2>5, CompleteRevision, RestoredRevision
<1> QED BY <1>1, StoredInit, StoredStep, FramingInit_Inv, FramingNext_Inv, PTL DEF Spec
================================================================================
