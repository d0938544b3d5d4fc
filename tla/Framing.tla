------------------------------- MODULE Framing ---------------------------------
(***************************************************************************)
(* Frame and Unframe (src/sdks/go/storage/frame.go) around a store that a  *)
(* host keeps (docs/storage.md).  A block is the bytes of its JSON text.   *)
(* Frame cuts it piece by piece, by a binary search; the host puts the     *)
(* frames into rows, replaces them when the block is edited, and reads     *)
(* them back one row at a time.                                            *)
(***************************************************************************)
EXTENDS SequencesExt, FiniteSetsExt, Integers

CONSTANTS Blocks,    \* the texts a block may have
          Edits,     \* the texts it may be changed to
          Limits,    \* the values of maxBytes
          Envelope,  \* bytes of an encoded frame without its numbers and data
          Digits,    \* how many digits a number takes
          MaxRead    \* bound on the rows of one read

\* How many bytes of JSON each byte of a text takes: itself, an escape as for a
\* quote or for markup, or a share of a character of three bytes.
Encoding == [plain |-> 1, quote |-> 2, markup |-> 6, wide1 |-> 1, wide2 |-> 1, wide3 |-> 1]
Bytes == DOMAIN Encoding
RuneStart(byte) == byte \notin {"wide2", "wide3"}
Width(data) == Cardinality({p \in (DOMAIN data) \X (1..6) : p[2] <= Encoding[data[p[1]]]})

ASSUME FramingAssumption ==
    /\ \A text \in Blocks \cup Edits :
           /\ text \in Seq(Bytes) /\ text # <<>> /\ RuneStart(text[1])
           /\ \A n \in 0..Len(text) : Digits[n] \in Nat /\ Digits[n] <= Digits[Len(text)]
    /\ Limits \subseteq Int
    /\ Envelope \in Nat /\ MaxRead \in Nat

VARIABLES step,       \* what is under way
          texts,      \* the revisions of the block, at most two
          limit,      \* maxBytes
          remaining,  \* what Frame has not cut yet
          lo, hi, take,  \* the binary search for the next cut
          frames,     \* the frames so far
          rows,       \* the host's rows
          group       \* the frames a reader has read

cutVars == <<remaining, lo, hi, take, frames>>
editVars == <<texts, limit>>
framingVars == <<step, editVars, cutVars, rows, group>>

Smaller(m, n) == IF m < n THEN m ELSE n

\* Mutant of Room: room for the digits of the first frame only.
RoomForFirst(text) == limit - (Envelope + 2 * Digits[0])
\* The budget of Frame: Seq and Total have at most the digits of len(block).
Room(text) == limit - (Envelope + 2 * Digits[Len(text)])

\* The bytes of an encoded frame.
Encoded(frame) == Envelope + Digits[frame.seq] + Digits[frame.total] + Width(frame.data)

FramingInit == /\ step = "frame"
               /\ texts \in {<<text>> : text \in Blocks}
               /\ limit \in Limits
               /\ remaining = texts[1]
               /\ lo = 1 /\ hi = 0 /\ take = 0
               /\ frames = <<>>
               /\ rows = {}
               /\ group = <<>>

--------------------------------------------------------------------------------
\* Frame.

\* The for clause: the next cut is at most budget bytes away.
Search == /\ step = "frame"
          /\ IF Room(Last(texts)) <= 0
               THEN step' = "refused" /\ UNCHANGED cutVars
               ELSE IF remaining = <<>>
                 THEN step' = "store" /\ UNCHANGED cutVars
                 ELSE /\ step' = "search"
                      /\ lo' = 1 /\ hi' = Smaller(Len(remaining), Room(Last(texts))) /\ take' = 0
                      /\ UNCHANGED <<remaining, frames>>
          /\ UNCHANGED <<editVars, rows, group>>

\* Back to the start of a character, or to nothing.
Aligned(mid) ==
    Max({0} \cup {end \in 1..mid : end = Len(remaining) \/ RuneStart(remaining[end + 1])})

\* Mutant of Probe: the quotes around the encoded piece count against its room.
ProbeQuoted ==
    /\ step = "search" /\ lo <= hi
    /\ LET mid == lo + (hi - lo) \div 2
           end == Aligned(mid)
       IN  IF Width(SubSeq(remaining, 1, end)) + 2 <= Room(Last(texts))
             THEN take' = Max({take, end}) /\ lo' = mid + 1 /\ UNCHANGED hi
             ELSE hi' = mid - 1 /\ UNCHANGED <<lo, take>>
    /\ UNCHANGED <<step, editVars, remaining, frames, rows, group>>
Probe ==
    /\ step = "search" /\ lo <= hi
    /\ LET mid == lo + (hi - lo) \div 2
           end == Aligned(mid)
       IN  IF Width(SubSeq(remaining, 1, end)) <= Room(Last(texts))
             THEN take' = Max({take, end}) /\ lo' = mid + 1 /\ UNCHANGED hi
             ELSE hi' = mid - 1 /\ UNCHANGED <<lo, take>>
    /\ UNCHANGED <<step, editVars, remaining, frames, rows, group>>

Cut ==
    /\ step = "search" /\ lo > hi
    /\ IF take = 0
         THEN step' = "refused" /\ UNCHANGED <<remaining, frames>>
         ELSE /\ step' = "frame"
              \* The id is random: the revision and the place make it unique.
              /\ frames' = Append(frames, [id |-> <<Len(texts), Len(frames)>>, seq |-> Len(frames),
                                           total |-> 0, data |-> SubSeq(remaining, 1, take)])
              /\ remaining' = SubSeq(remaining, take + 1, Len(remaining))
    /\ UNCHANGED <<editVars, lo, hi, take, rows, group>>

--------------------------------------------------------------------------------
\* The host.

\* Total is known when everything is cut.
Finished == [i \in DOMAIN frames |-> [frames[i] EXCEPT !.total = Len(frames)]]

\* The host inserts the new rows and deletes the old ones, one by one.
Store == /\ step = "store"
         /\ \/ \E row \in ToSet(Finished) \ rows : rows' = rows \cup {row}
            \/ \E row \in rows \ ToSet(Finished) : rows' = rows \ {row}
         /\ step' = IF rows' = ToSet(Finished) THEN "stored" ELSE "store"
         /\ UNCHANGED <<editVars, cutVars, group>>

Edit == /\ step = "stored" /\ Len(texts) = 1
        /\ \E text \in Edits \ {texts[1]} : texts' = Append(texts, text) /\ remaining' = text
        /\ step' = "frame"
        /\ frames' = <<>>
        /\ UNCHANGED <<limit, lo, hi, take, rows, group>>

\* A reader reads one row after the other, in any order, and may get one twice.
\* What it reads before the second revision replaces the first is still there
\* when that begins.
Fetch == /\ step \in {"store", "stored"} /\ Len(texts) = 2
         /\ Len(group) < MaxRead
         /\ \E row \in rows : group' = Append(group, row)
         /\ UNCHANGED <<step, editVars, cutVars, rows>>

FramingStep == Search \/ Probe \/ Cut \/ Store \/ Edit \/ Fetch

--------------------------------------------------------------------------------
\* Unframe.

\* Mutant of Complete: the number of frames is checked, not which they are.
CompleteByCount(read) == \A i \in DOMAIN read : read[i].total = Len(read)
\* What Unframe checks of the frames it is given before it parses the text.
Complete(read) ==
    /\ read # <<>>
    /\ \A i \in DOMAIN read : /\ read[i].total = Len(read)
                              /\ read[i].seq < Len(read)
                              /\ read[i].data # <<>>
    /\ IsInjective([i \in DOMAIN read |-> read[i].id])
    /\ IsInjective([i \in DOMAIN read |-> read[i].seq])

\* Every frame goes to the place that its seq names.
Restored(read) ==
    FlattenSeq([i \in DOMAIN read |->
        LET here == {row \in ToSet(read) : row.seq = i - 1}
        IN  IF here = {} THEN <<>> ELSE (CHOOSE row \in here : TRUE).data])

--------------------------------------------------------------------------------

\* Every frame fits the byte budget with its escapes, its envelope and the digits
\* that seq and total turn out to have, and none splits a character (Frame).
FramesFit ==
    step = "store" => \A i \in DOMAIN frames : /\ Encoded(Finished[i]) <= limit
                                               /\ RuneStart(frames[i].data[1])

\* The search finds the longest cut although it moves cuts back to the start of
\* a character: it leaves room for no further character, and it refuses a block
\* only if one does not fit into an empty frame.
Character == Min({n \in 1..Len(remaining) : n = Len(remaining) \/ RuneStart(remaining[n + 1])})
CutsAreLongest ==
    /\ step = "frame" /\ frames # <<>> /\ remaining # <<>> =>
           Width(Last(frames).data \o SubSeq(remaining, 1, Character)) > Room(Last(texts))
    /\ step = "refused" =>
           Room(Last(texts)) <= 0 \/ Width(SubSeq(remaining, 1, Character)) > Room(Last(texts))

\* The frames of one revision, in any order, are restored to its text exactly if
\* each was read and none twice.  If they are of two revisions, total cannot tell
\* (frame.go, docs/storage.md).
RestoredAsStored ==
    \A n \in DOMAIN texts :
        group # <<>> /\ (\A i \in DOMAIN group : group[i].id[1] = n) =>
            /\ Complete(group) <=> IsInjective(group) /\ Len(group) = group[1].total
            /\ Complete(group) => Restored(group) = texts[n]
================================================================================
