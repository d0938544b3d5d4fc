------------------------------ MODULE ScanProofs -------------------------------
(***************************************************************************)
(* Theorems about RecoveryScan for every finite set of tasks, every set of *)
(* scanners and any number of disturbances.                                *)
(***************************************************************************)
EXTENDS RecoveryScan, SequenceTheorems, FiniteSetTheorems, TLAPS

\* The index without a task.
LEMMA WithoutType ==
    ASSUME index \in Seq(Tasks), IsInjective(index), NEW t \in Tasks
    PROVE  /\ Without(t) \in Seq(Tasks)
           /\ IsInjective(Without(t))
           /\ \A j \in DOMAIN Without(t) : Without(t)[j] # t
           /\ IF \E i \in 1..Len(index) : index[i] = t THEN Len(Without(t)) = Len(index) - 1
                                                      ELSE Without(t) = index
           /\ \A i \in 1..Len(index) : index[i] = t =>
                  \A j \in 1..(Len(index) - 1) :
                      Without(t)[j] = IF j < i THEN index[j] ELSE index[j + 1]
  <1>1. CASE ~ \E i \in 1..Len(index) : index[i] = t
    BY <1>1 DEF Without, RemoveFirst
  <1>2. CASE \E i \in 1..Len(index) : index[i] = t
    <2>1. PICK i \in 1..Len(index) : index[i] = t
      BY <1>2
    <2>2. Without(t) = RemoveAt(index, i)
      <3>1. {j \in 1..Len(index) : index[j] = t} = {i}
        BY <2>1 DEF IsInjective
      <3>2. Min({i}) = i
        BY DEF Min
      <3> QED BY <1>2, <3>1, <3>2 DEF Without, RemoveFirst, SelectInSeq
    <2> DEFINE front == SubSeq(index, 1, i - 1)
               back == SubSeq(index, i + 1, Len(index))
    <2>3. /\ front \in Seq(Tasks) /\ Len(front) = i - 1
          /\ \A j \in 1..(i - 1) : front[j] = index[j]
      BY <2>1, SubSeqProperties
    <2>4. /\ back \in Seq(Tasks) /\ Len(back) = Len(index) - i
          /\ \A j \in 1..(Len(index) - i) : back[j] = index[j + i]
      BY <2>1, SubSeqProperties
    <2>5. /\ front \o back \in Seq(Tasks)
          /\ Len(front \o back) = Len(index) - 1
          /\ \A j \in 1..(Len(index) - 1) :
                 (front \o back)[j] = IF j < i THEN index[j] ELSE index[j + 1]
      <3> HIDE DEF front, back
      <3>1. Len(front) + Len(back) = Len(index) - 1
        BY <2>1, <2>3, <2>4, LenProperties
      <3>2. /\ front \o back \in Seq(Tasks)
            /\ Len(front \o back) = Len(front) + Len(back)
            /\ \A j \in 1..(Len(front) + Len(back)) :
                   (front \o back)[j] = IF j <= Len(front) THEN front[j] ELSE back[j - Len(front)]
        BY <2>3, <2>4, ConcatProperties
      <3>3. \A j \in 1..(Len(index) - 1) :
                (front \o back)[j] = IF j < i THEN index[j] ELSE index[j + 1]
        BY <2>1, <2>3, <2>4, <3>1, <3>2
      <3> QED BY <3>1, <3>2, <3>3
    <2>6. Without(t) = front \o back
      BY <2>2 DEF RemoveAt
    <2> HIDE DEF front, back
    <2>7. DOMAIN Without(t) = 1..(Len(index) - 1) /\ Len(Without(t)) = Len(index) - 1
      BY <2>5, <2>6
    <2>a. \A j, k \in 1..Len(index) : index[j] = index[k] => j = k
      BY DEF IsInjective
    <2>b. \A j \in 1..(Len(index) - 1) : Without(t)[j] = IF j < i THEN index[j] ELSE index[j + 1]
      BY <2>5, <2>6
    <2>8. \A j, k \in 1..(Len(index) - 1) : Without(t)[j] = Without(t)[k] => j = k
      BY <2>1, <2>a, <2>b
    <2>9. \A j \in 1..(Len(index) - 1) : Without(t)[j] # t
      BY <2>1, <2>a, <2>b
    <2>10. \A k \in 1..Len(index) : index[k] = t => k = i
      BY <2>1, <2>a
    <2> QED BY <1>2, <2>5, <2>6, <2>7, <2>8, <2>9, <2>10, <2>b DEF IsInjective
  <1> QED BY <1>1, <1>2

\* ZADD puts a task that was taken out at the end.
LEMMA TouchType ==
    ASSUME index \in Seq(Tasks), IsInjective(index), NEW t \in Tasks
    PROVE  /\ Append(Without(t), t) \in Seq(Tasks)
           /\ IsInjective(Append(Without(t), t))
           /\ Len(Append(Without(t), t)) >= Len(index)
  <1>1. /\ Without(t) \in Seq(Tasks)
        /\ IsInjective(Without(t))
        /\ \A j \in DOMAIN Without(t) : Without(t)[j] # t
        /\ Len(Without(t)) \in {Len(index), Len(index) - 1}
    BY WithoutType
  <1> QED BY <1>1, AppendProperties DEF IsInjective

\* How many heartbeats are expired when one of them is taken away.
LEMMA ExpiredType ==
    ASSUME TypeOK, NEW t \in Tasks
    PROVE  /\ (IF t \in Expired THEN expired - 1 ELSE expired) \in 0..Len(index)
           /\ (IF t \in Expired THEN expired - 1 ELSE expired) \in 0..Len(Without(t))
  <1>1. CASE t \in Expired
    <2>1. PICK i \in 1..expired : index[i] = t
      BY <1>1 DEF Expired
    <2>2. Len(Without(t)) = Len(index) - 1
      BY <2>1, WithoutType DEF TypeOK
    <2> QED BY <1>1, <2>1, <2>2 DEF TypeOK
  <1>2. CASE t \notin Expired
    <2>1. CASE \E i \in 1..Len(index) : index[i] = t
      <3>1. PICK i \in 1..Len(index) : index[i] = t
        BY <2>1
      <3>2. i > expired
        BY <1>2, <3>1 DEF Expired, TypeOK
      <3>3. Len(Without(t)) = Len(index) - 1
        BY <2>1, WithoutType DEF TypeOK
      <3> QED BY <1>2, <3>1, <3>2, <3>3 DEF TypeOK
    <2>2. CASE ~ \E i \in 1..Len(index) : index[i] = t
      BY <1>2, <2>2, WithoutType DEF TypeOK
    <2> QED BY <2>1, <2>2
  <1> QED BY <1>1, <1>2

\* ZREM keeps the index a set in order.
LEMMA ZremType ==
    ASSUME TypeOK, NEW t \in Tasks, Zrem(t)
    PROVE  index' \in Seq(Tasks) /\ IsInjective(index') /\ expired' \in 0..Len(index')
  BY WithoutType, ExpiredType DEF TypeOK, Zrem

--------------------------------------------------------------------------------
(* Type correctness                                                         *)

\* A disturbance, or none, keeps the types of what counts them.
LEMMA DisturbType ==
    ASSUME TypeOK, NEW kind \in {"late", "crash", "fault", "slow"}, Disturb(kind) \/ UNCHANGED disturbed
    PROVE  happened' \subseteq {"late", "crash", "fault", "slow"} /\ budget' \in 0..Budget
  <1>1. CASE Disturb(kind)
    <2>1. happened' \subseteq {"late", "crash", "fault", "slow"}
      BY <1>1 DEF TypeOK, Disturb
    <2>2. budget' \in 0..Budget
      BY <1>1, ScanAssumption DEF TypeOK, Disturb
    <2> QED BY <2>1, <2>2
  <1>2. CASE UNCHANGED disturbed
    BY <1>2 DEF TypeOK, disturbed
  <1> QED BY <1>1, <1>2

\* A step of an owner, or of time, keeps every type.
LEMMA OwnerType ==
    ASSUME TypeOK, Ages \/ \E t \in Tasks : OwnerStep(t) \/ StateExpires(t) \/ ClaimExpires(t)
    PROVE  TypeOK'
  <1> USE ScanAssumption DEF TypeOK, redisVars, scanVars, disturbed, Disturb
  <1>1. CASE Ages
    <2>1. Disturb("late") \/ UNCHANGED disturbed
      BY <1>1 DEF Ages
    <2>2. Len(index) \in Nat
      BY LenProperties
    <2>3. happened' \subseteq {"late", "crash", "fault", "slow"} /\ budget' \in 0..Budget
      BY <2>1, DisturbType
    <2> QED BY <1>1, <2>2, <2>3 DEF Ages
  <1>2. ASSUME NEW t \in Tasks, Touch(t)
        PROVE  TypeOK'
    <2>1. index' \in Seq(Tasks) /\ IsInjective(index') /\ Len(index') >= Len(index)
      BY <1>2, TouchType DEF Touch
    <2>2. expired' \in 0..Len(index)
      BY <1>2, ExpiredType DEF Touch
    <2> QED BY <1>2, <2>1, <2>2, LenProperties DEF Touch
  <1>3. ASSUME NEW t \in Tasks, OwnerMarks(t)
        PROVE  TypeOK'
    BY <1>3 DEF OwnerMarks
  <1>4. ASSUME NEW t \in Tasks, OwnerLeaves(t)
        PROVE  TypeOK'
    BY <1>4, ZremType DEF OwnerLeaves
  <1>5. ASSUME NEW t \in Tasks, OwnerDies(t)
        PROVE  TypeOK'
    BY <1>5 DEF OwnerDies
  <1>6. ASSUME NEW t \in Tasks, StateExpires(t)
        PROVE  TypeOK'
    BY <1>6 DEF StateExpires
  <1>7. ASSUME NEW t \in Tasks, ClaimExpires(t)
        PROVE  TypeOK'
    <2>1. Disturb("slow") \/ UNCHANGED disturbed
      BY <1>7 DEF ClaimExpires
    <2>2. happened' \subseteq {"late", "crash", "fault", "slow"} /\ budget' \in 0..Budget
      BY <2>1, DisturbType
    <2> QED BY <1>7, <2>2 DEF ClaimExpires
  <1> QED BY <1>1, <1>2, <1>3, <1>4, <1>5, <1>6, <1>7 DEF OwnerStep

\* What a scanner has in hand is a task.
LEMMA InHandType ==
    ASSUME TypeOK, NEW r \in Runners, at[r] \in InHand \cup {"claim"}
    PROVE  /\ InHandOf(r) \in Tasks
           /\ Tail(list[r]) \in Seq(Tasks)
           /\ Len(list[r]) # 1 => Tail(list[r]) # <<>>
  <1>1. list[r] \in Seq(Tasks) /\ list[r] # <<>>
    BY DEF TypeOK
  <1>2. Head(list[r]) \in Tasks /\ Tail(list[r]) \in Seq(Tasks) /\ Len(Tail(list[r])) = Len(list[r]) - 1
    BY <1>1, HeadTailProperties
  <1>3. Len(list[r]) \in Nat
    BY <1>1, LenProperties
  <1>4. Tail(list[r]) = <<>> => Len(list[r]) = 1
    <2>1. Tail(list[r]) = <<>> => Len(Tail(list[r])) = 0
      BY EmptySeq
    <2> QED BY <1>2, <1>3, <2>1
  <1> QED BY <1>2, <1>4 DEF InHandOf

\* Going on to the next task of a list, or leaving the list, keeps the types of
\* the scanners.
LEMMA AdvanceType ==
    ASSUME TypeOK, NEW r \in Runners, at[r] \in InHand \cup {"claim"}, Advance(r) \/ Abandon(r)
    PROVE  /\ at' \in [Runners -> InHand \cup {"idle", "claim", "off"}]
           /\ list' \in [Runners -> Seq(Tasks)]
           /\ \A s \in Runners : at'[s] \in InHand \cup {"claim"} => list'[s] # <<>>
  <1>1. CASE Advance(r)
    BY <1>1, InHandType DEF Advance, Goto, TypeOK, InHand, TrySteps
  <1>2. CASE Abandon(r)
    BY <1>2 DEF Abandon, Goto, TypeOK, InHand, TrySteps
  <1> QED BY <1>1, <1>2

\* A step of a scanner keeps every type.
LEMMA ScannerType ==
    ASSUME TypeOK, NEW r \in Runners, ScanStep(r) \/ Fault(r) \/ Crash(r)
    PROVE  TypeOK'
  <1> USE ScanAssumption DEF redisVars, scanVars, disturbed, Disturb, ScanAt, Goto, InHand, TrySteps
  <1>1. CASE Scan(r)
    <2>1. SubSeq(index, 1, expired) \in Seq(Tasks) /\ Len(SubSeq(index, 1, expired)) = expired
      BY SubSeqProperties DEF TypeOK
    <2>2. expired # 0 => SubSeq(index, 1, expired) # <<>>
      BY <2>1, EmptySeq
    <2> QED BY <1>1, <2>1, <2>2 DEF Scan, TypeOK
  <1>2. CASE Claim(r)
    <2>1. CASE claim[InHandOf(r)] = NoOne
      <3>0. claim' = [claim EXCEPT ![InHandOf(r)] = r]
        BY <1>2, <2>1 DEF Claim
      <3>1. claim' \in [Tasks -> Runners \cup {NoOne}]
        BY <3>0 DEF TypeOK
      <3>2. \A s \in Runners : at'[s] \in InHand \cup {"claim"} => list'[s] # <<>>
        BY <1>2, <2>1 DEF Claim, TypeOK
      <3> QED BY <1>2, <2>1, <3>1, <3>2 DEF Claim, TypeOK
    <2>2. CASE claim[InHandOf(r)] # NoOne
      BY <1>2, <2>2, AdvanceType DEF Claim, TypeOK
    <2> QED BY <2>1, <2>2
  <1>3. CASE Check(r)
    BY <1>3 DEF Check, TypeOK
  <1>4. CASE Forget(r)
    <2>1. InHandOf(r) \in Tasks
      BY <1>4, InHandType DEF Forget
    <2> QED BY <1>4, <2>1, ZremType DEF Forget, TypeOK
  <1>5. CASE Complete(r)
    <2>1. completed' \in [Tasks -> 0..2]
      <3>1. completed' = [completed EXCEPT ![InHandOf(r)] = IF @ = 2 THEN 2 ELSE @ + 1]
        BY <1>5 DEF Complete
      <3>2. completed \in [Tasks -> 0..2]
        BY DEF TypeOK
      <3>3. InHandOf(r) \in Tasks
        BY <1>5, InHandType DEF Complete
      <3> QED BY <3>1, <3>2, <3>3
    <2> QED BY <1>5, <2>1 DEF Complete, TypeOK
  <1>6. CASE Publish(r)
    BY <1>6 DEF Publish, TypeOK
  <1>7. CASE MarkStatus(r)
    BY <1>7, InHandType DEF MarkStatus, TypeOK
  <1>8. CASE MarkHeartbeat(r)
    <2>1. InHandOf(r) \in Tasks
      BY <1>8, InHandType DEF MarkHeartbeat
    <2> QED BY <1>8, <2>1, ZremType DEF MarkHeartbeat, TypeOK
  <1>9. CASE Release(r)
    <2>1. claim' \in [Tasks -> Runners \cup {NoOne}]
      BY <1>9 DEF Release, DelClaim, TypeOK
    <2> QED BY <1>9, <2>1, AdvanceType DEF Release, TypeOK
  <1>10. CASE Fault(r)
    <2>1. InHandOf(r) \in Tasks
      BY <1>10, InHandType DEF Fault
    <2>2. /\ at' \in [Runners -> InHand \cup {"idle", "claim", "off"}]
          /\ list' \in [Runners -> Seq(Tasks)]
          /\ \A s \in Runners : at'[s] \in InHand \cup {"claim"} => list'[s] # <<>>
      BY <1>10, AdvanceType DEF Fault, TypeOK
    <2>3. CASE UNCHANGED redisVars
      BY <1>10, <2>2, <2>3 DEF Fault, TypeOK
    <2>4. CASE /\ claim' \in {[claim EXCEPT ![InHandOf(r)] = r], [claim EXCEPT ![InHandOf(r)] = NoOne]}
               /\ UNCHANGED <<status, index, expired>>
      <3>1. claim' \in [Tasks -> Runners \cup {NoOne}]
        BY <2>4 DEF TypeOK
      <3> QED BY <1>10, <2>2, <2>4, <3>1 DEF Fault, TypeOK
    <2>5. CASE Zrem(InHandOf(r)) /\ UNCHANGED <<status, claim>>
      <3>1. index' \in Seq(Tasks) /\ IsInjective(index') /\ expired' \in 0..Len(index')
        BY <2>1, <2>5, ZremType
      <3> QED BY <1>10, <2>2, <2>5, <3>1 DEF Fault, TypeOK
    <2>6. CASE /\ status' = [status EXCEPT ![InHandOf(r)] = "failed"]
               /\ UNCHANGED <<index, expired, claim>>
      <3>1. status' \in [Tasks -> {"running", "completed", "failed", "absent"}]
        BY <2>6 DEF TypeOK
      <3> QED BY <1>10, <2>2, <2>6, <3>1 DEF Fault, TypeOK
    <2> QED BY <1>10, <2>3, <2>4, <2>5, <2>6 DEF Fault, DelClaim
  <1>11. CASE Crash(r)
    BY <1>11 DEF Crash, TypeOK
  <1> QED BY <1>1, <1>2, <1>3, <1>4, <1>5, <1>6, <1>7, <1>8, <1>9, <1>10, <1>11 DEF ScanStep

\* Every step keeps every type.
LEMMA NextType ==
    ASSUME TypeOK, [Next]_vars
    PROVE  TypeOK'
  <1>1. CASE UNCHANGED vars
    BY <1>1 DEF TypeOK, vars, redisVars, scanVars, disturbed
  <1> QED BY <1>1, OwnerType, ScannerType DEF Next

\* The index is what SetToSeqs takes it for: the tasks in some order.
LEMMA InitType ==
    ASSUME Init
    PROVE  TypeOK
  <1>1. Cardinality(Tasks) \in Nat
    BY ScanAssumption, FS_CardinalityType
  <1>2. index \in Seq(Tasks) /\ IsInjective(index)
    BY <1>1, IsASeq DEF Init, SetToSeqs, IsInjective
  <1>3. Len(index) \in Nat
    BY <1>2, LenProperties
  <1> QED BY <1>2, <1>3, ScanAssumption DEF Init, TypeOK, InHand, TrySteps

\* The index stays a set in order of which a part is expired, and a scanner that
\* has a task in hand has it in its list (RecoveryScan).
THEOREM TypeCorrect == Spec => []TypeOK
  <1> QED BY InitType, NextType, PTL DEF Spec

--------------------------------------------------------------------------------
(* One scanner for each task                                                *)

\* As long as no recovery outlasts its claim, what a scanner has in hand is what
\* it has claimed.
Claimed == "slow" \notin happened => \A r \in Runners : at[r] \in InHand => claim[InHandOf(r)] = r

\* A step of an owner, of time or of Redis leaves the claims in hand alone.
LEMMA OwnerClaimed ==
    ASSUME TypeOK, Claimed, Ages \/ \E t \in Tasks : OwnerStep(t) \/ StateExpires(t) \/ ClaimExpires(t)
    PROVE  Claimed'
  <1> USE DEF Claimed, InHandOf, redisVars, scanVars, disturbed, Disturb
  <1>1. CASE Ages
    BY <1>1 DEF Ages
  <1>2. ASSUME NEW t \in Tasks, OwnerStep(t)
        PROVE  Claimed'
    BY <1>2 DEF OwnerStep, Touch, OwnerMarks, OwnerLeaves, OwnerDies
  <1>3. ASSUME NEW t \in Tasks, StateExpires(t)
        PROVE  Claimed'
    BY <1>3 DEF StateExpires
  <1>4. ASSUME NEW t \in Tasks, ClaimExpires(t)
        PROVE  Claimed'
    BY <1>4 DEF ClaimExpires, Held, TypeOK
  <1> QED BY <1>1, <1>2, <1>3, <1>4

\* A scanner claims before it takes a task in hand, and releases only what it
\* has in hand itself.
LEMMA ScannerClaimed ==
    ASSUME TypeOK, Claimed, NEW r \in Runners, ScanStep(r) \/ Fault(r) \/ Crash(r)
    PROVE  Claimed'
  <1> USE ScanAssumption DEF Claimed, InHandOf, redisVars, scanVars, disturbed, Disturb, ScanAt, Goto,
                             InHand, TrySteps, TypeOK
  <1>1. CASE Scan(r)
    BY <1>1 DEF Scan
  <1>2. CASE Claim(r)
    <2>1. InHandOf(r) \in Tasks
      BY <1>2, InHandType DEF Claim
    <2> QED BY <1>2, <2>1 DEF Claim, Advance
  <1>3. CASE Check(r) \/ Forget(r) \/ Complete(r) \/ Publish(r) \/ MarkStatus(r) \/ MarkHeartbeat(r)
    <2>1. at[r] \in InHand /\ UNCHANGED <<claim, list, happened>>
      BY <1>3 DEF Check, Forget, Complete, Publish, MarkStatus, MarkHeartbeat
    <2>2. \A s \in Runners \ {r} : at'[s] = at[s]
      BY <1>3 DEF Check, Forget, Complete, Publish, MarkStatus, MarkHeartbeat
    <2> QED BY <2>1, <2>2
  <1>4. CASE Release(r)
    <2>1. /\ at[r] \in InHand /\ at'[r] \notin InHand /\ happened' = happened
          /\ claim' = [claim EXCEPT ![InHandOf(r)] = NoOne]
      BY <1>4 DEF Release, DelClaim, Advance, Abandon
    <2>2. \A s \in Runners \ {r} : at'[s] = at[s] /\ list'[s] = list[s]
      BY <1>4 DEF Release, Advance, Abandon
    <2> SUFFICES ASSUME "slow" \notin happened, NEW s \in Runners, at'[s] \in InHand
                 PROVE  claim'[Head(list'[s])] = s
      BY <2>1
    <2>3. s # r /\ at[s] \in InHand /\ list'[s] = list[s]
      BY <2>1, <2>2
    <2>4. claim[Head(list[s])] = s /\ claim[Head(list[r])] = r
      BY <2>1, <2>3
    <2>5. Head(list[s]) # Head(list[r])
      BY <2>3, <2>4
    <2>6. claim'[Head(list[s])] = claim[Head(list[s])]
      BY <2>1, <2>5
    <2> QED BY <2>3, <2>4, <2>6
  <1>5. CASE Fault(r)
    <2>1. InHandOf(r) \in Tasks
      BY <1>5, InHandType DEF Fault
    <2>2. CASE at[r] \in TrySteps
      BY <1>5, <2>1, <2>2 DEF Fault, Zrem
    <2>3. CASE at[r] \notin TrySteps
      BY <1>5, <2>1, <2>3 DEF Fault, Abandon, DelClaim, Zrem
    <2> QED BY <2>2, <2>3
  <1>6. CASE Crash(r)
    BY <1>6 DEF Crash
  <1> QED BY <1>1, <1>2, <1>3, <1>4, <1>5, <1>6 DEF ScanStep

\* No two scanners have one task in hand, however stale their lists are, as long
\* as no recovery outlasts its claim (recover_timeouts).
THEOREM OneScanner == Spec => []OneScannerPerTask
  <1>1. Init => Claimed
    BY DEF Init, Claimed, InHand, TrySteps
  <1>2. TypeOK /\ Claimed /\ [Next]_vars => Claimed'
    <2>1. TypeOK /\ Claimed /\ UNCHANGED vars => Claimed'
      BY DEF Claimed, InHandOf, vars, redisVars, scanVars, disturbed
    <2> QED BY <2>1, OwnerClaimed, ScannerClaimed DEF Next
  <1>3. Claimed => OneScannerPerTask
    BY DEF Claimed, OneScannerPerTask
  <1> QED BY <1>1, <1>2, <1>3, TypeCorrect, PTL DEF Spec

--------------------------------------------------------------------------------
(* Owners that are alive                                                    *)

\* A task that leaves its place in the index leaves the expired ones in theirs.
LEMMA ExpiredLess ==
    ASSUME TypeOK, NEW t \in Tasks,
           NEW j \in 1..(IF t \in Expired THEN expired - 1 ELSE expired)
    PROVE  Without(t)[j] \in Expired \ {t}
  <1>1. \A k, l \in 1..Len(index) : index[k] = index[l] => k = l
    BY DEF TypeOK, IsInjective
  <1>2. expired \in Nat /\ Len(index) \in Nat /\ expired <= Len(index)
    BY LenProperties DEF TypeOK
  <1>3. CASE \E i \in 1..Len(index) : index[i] = t
    <2>1. PICK i \in 1..Len(index) : index[i] = t
      BY <1>3
    <2>2. \A k \in 1..(Len(index) - 1) : Without(t)[k] = IF k < i THEN index[k] ELSE index[k + 1]
      BY <2>1, WithoutType DEF TypeOK
    <2>3. t \in Expired <=> i <= expired
      BY <1>1, <1>2, <2>1 DEF Expired
    <2>4. j \in 1..(Len(index) - 1) /\ (j < i => j <= expired) /\ (~(j < i) => j + 1 <= expired)
      BY <1>2, <2>1, <2>3
    <2>5. CASE j < i
      <3>1. j \in 1..expired /\ j # i /\ Without(t)[j] = index[j]
        BY <1>2, <2>1, <2>2, <2>4, <2>5
      <3>2. index[j] # t
        BY <1>1, <1>2, <2>1, <3>1
      <3> QED BY <3>1, <3>2 DEF Expired
    <2>6. CASE ~(j < i)
      <3>0. j \in Nat
        BY <1>2
      <3>1. j + 1 \in 1..expired /\ j + 1 # i
        BY <1>2, <2>1, <2>4, <2>6, <3>0
      <3>2. Without(t)[j] = index[j + 1]
        BY <2>2, <2>4, <2>6
      <3>3. index[j + 1] # t
        BY <1>1, <1>2, <2>1, <3>1
      <3> QED BY <3>1, <3>2, <3>3 DEF Expired
    <2> QED BY <2>5, <2>6
  <1>4. CASE ~ \E i \in 1..Len(index) : index[i] = t
    <2>1. Without(t) = index /\ t \notin Expired
      BY <1>2, <1>4, WithoutType DEF TypeOK, Expired
    <2> QED BY <1>2, <1>4, <2>1 DEF Expired
  <1> QED BY <1>3, <1>4

\* Taken out or put at the end, a task is not among the expired ones any more, and
\* no other task comes to be.
LEMMA ExpiredAfter ==
    ASSUME TypeOK, NEW t \in Tasks, Zrem(t) \/ Touch(t)
    PROVE  Expired' \subseteq Expired \ {t}
  <1> DEFINE left == IF t \in Expired THEN expired - 1 ELSE expired
  <1>1. left \in 0..Len(Without(t)) /\ Without(t) \in Seq(Tasks)
    BY ExpiredType, WithoutType DEF TypeOK
  <1>2. expired' = left /\ index' \in {Without(t), Append(Without(t), t)}
    BY DEF Zrem, Touch
  <1>3. \A j \in 1..left : index'[j] = Without(t)[j]
    BY <1>1, <1>2, AppendProperties
  <1>4. \A j \in 1..left : Without(t)[j] \in Expired \ {t}
    BY ExpiredLess
  <1> HIDE DEF left
  <1> QED BY <1>2, <1>3, <1>4 DEF Expired

\* No owner was late: a list holds no task whose owner is alive, an owner that
\* leaves has stored its outcome, and complete is for the dead.
Listed(r) == {list[r][i] : i \in DOMAIN list[r]}
Spared ==
    "late" \notin happened =>
        /\ \A t \in Tasks :
               /\ owner[t] = "alive" => t \notin Expired /\ \A r \in Runners : t \notin Listed(r)
               /\ owner[t] \in {"marking", "done"} => status[t] # "running"
               /\ owner[t] # "dead" => completed[t] = 0
        /\ \A r \in Runners : at[r] = "complete" => owner[InHandOf(r)] = "dead"

LEMMA OwnerSpared ==
    ASSUME TypeOK, Spared, Ages \/ \E t \in Tasks : OwnerStep(t) \/ StateExpires(t) \/ ClaimExpires(t)
    PROVE  Spared'
  <1> USE DEF redisVars, scanVars, disturbed, Disturb
  <1>1. CASE Ages
    <2>1. /\ UNCHANGED <<owner, status, completed, at, list>>
          /\ expired' = expired + 1 /\ index' = index /\ expired + 1 \in 1..Len(index)
      BY <1>1, LenProperties DEF Ages, TypeOK
    <2>2. Expired' = Expired \cup {index[expired + 1]}
      <3>1. 1..(expired + 1) = (1..expired) \cup {expired + 1}
        BY DEF TypeOK
      <3> QED BY <2>1, <3>1 DEF Expired
    <2>3. "late" \in happened' \/ (happened' = happened /\ owner[index[expired + 1]] # "alive")
      BY <1>1 DEF Ages
    <2> QED BY <2>1, <2>2, <2>3 DEF Spared, Listed, InHandOf
  <1>2. ASSUME NEW t \in Tasks, Touch(t)
        PROVE  Spared'
    <2>1. Expired' \subseteq Expired
      BY <1>2, ExpiredAfter
    <2> QED BY <1>2, <2>1 DEF Touch, Spared, Listed, InHandOf
  <1>3. ASSUME NEW t \in Tasks, OwnerMarks(t)
        PROVE  Spared'
    <2>1. Expired' = Expired
      BY <1>3 DEF OwnerMarks, Expired
    <2> QED BY <1>3, <2>1 DEF OwnerMarks, Spared, Listed, InHandOf, TypeOK
  <1>4. ASSUME NEW t \in Tasks, OwnerLeaves(t)
        PROVE  Spared'
    <2>1. Expired' \subseteq Expired
      BY <1>4, ExpiredAfter DEF OwnerLeaves
    <2> QED BY <1>4, <2>1 DEF OwnerLeaves, Spared, Listed, InHandOf, TypeOK
  <1>5. ASSUME NEW t \in Tasks, OwnerDies(t)
        PROVE  Spared'
    <2>1. Expired' = Expired
      BY <1>5 DEF OwnerDies, Expired
    <2> QED BY <1>5, <2>1 DEF OwnerDies, Spared, Listed, InHandOf, TypeOK
  <1>6. ASSUME NEW t \in Tasks, StateExpires(t)
        PROVE  Spared'
    <2>1. Expired' = Expired
      BY <1>6 DEF StateExpires, Expired
    <2> QED BY <1>6, <2>1 DEF StateExpires, Spared, Listed, InHandOf, TypeOK
  <1>7. ASSUME NEW t \in Tasks, ClaimExpires(t)
        PROVE  Spared'
    <2>1. Expired' = Expired
      BY <1>7 DEF ClaimExpires, Expired
    <2> QED BY <1>7, <2>1 DEF ClaimExpires, Spared, Listed, InHandOf
  <1> QED BY <1>1, <1>2, <1>3, <1>4, <1>5, <1>6, <1>7 DEF OwnerStep

\* A scanner's list grows only when it reads the expired part of the index, and
\* it calls complete for the first of its list, whose status was running.
LEMMA ScannerSpared ==
    ASSUME TypeOK, Spared, NEW r \in Runners, ScanStep(r) \/ Fault(r) \/ Crash(r)
    PROVE  Spared'
  <1> USE DEF redisVars, scanVars, disturbed, Disturb, ScanAt, Goto, InHand, TrySteps
  <1>1. owner' = owner
    BY DEF ScanStep, Scan, Claim, Check, Forget, Complete, Publish, MarkStatus, MarkHeartbeat, Release,
           Fault, Crash
  <1>2. Expired' \subseteq Expired
    <2>1. CASE UNCHANGED <<index, expired>>
      BY <2>1 DEF Expired
    <2>2. CASE at[r] \in InHand /\ Zrem(InHandOf(r))
      BY <2>2, InHandType, ExpiredAfter
    <2> QED BY <2>1, <2>2 DEF ScanStep, Scan, Claim, Check, Forget, Complete, Publish, MarkStatus,
                              MarkHeartbeat, Release, DelClaim, Fault, Crash
  <1>3. \A t \in Tasks : status[t] # "running" => status'[t] # "running"
    BY DEF ScanStep, Scan, Claim, Check, Forget, Complete, Publish, MarkStatus, MarkHeartbeat, Release,
           DelClaim, Fault, Crash, Zrem, TypeOK
  <1>4. \A s \in Runners \ {r} : at'[s] = at[s] /\ list'[s] = list[s]
    <2>1. CASE ScanStep(r)
      BY <2>1 DEF ScanStep, Scan, Claim, Check, Forget, Complete, Publish, MarkStatus, MarkHeartbeat,
                  Release, Advance, Abandon, TypeOK
    <2>2. CASE Fault(r) \/ Crash(r)
      BY <2>2 DEF Fault, Crash, Abandon, TypeOK
    <2> QED BY <2>1, <2>2
  <1>5. \/ list'[r] \in {list[r], <<>>, SubSeq(index, 1, expired)}
        \/ at[r] \in InHand \cup {"claim"} /\ list'[r] = Tail(list[r])
    <2>1. CASE ScanStep(r)
      BY <2>1 DEF ScanStep, Scan, Claim, Check, Forget, Complete, Publish, MarkStatus, MarkHeartbeat,
                  Release, Advance, Abandon, TypeOK
    <2>2. CASE Fault(r) \/ Crash(r)
      BY <2>2 DEF Fault, Crash, Abandon, TypeOK
    <2> QED BY <2>1, <2>2
  <1>6. \A s \in Runners : Listed(s)' \subseteq Listed(s) \cup Expired
    <2>1. \A s \in Runners \ {r} : Listed(s)' = Listed(s)
      BY <1>4 DEF Listed
    <2>2. CASE list'[r] = list[r]
      BY <2>1, <2>2 DEF Listed
    <2>3. CASE list'[r] = <<>>
      BY <2>1, <2>3 DEF Listed
    <2>4. CASE list'[r] = SubSeq(index, 1, expired)
      <3>1. index \in Seq(Tasks) /\ expired \in 0..Len(index)
        BY DEF TypeOK
      <3>2. Listed(r)' \subseteq Expired
        BY <2>4, <3>1 DEF Listed, Expired
      <3> QED BY <2>1, <3>2
    <2>5. CASE at[r] \in InHand \cup {"claim"} /\ list'[r] = Tail(list[r])
      <3>1. list[r] \in Seq(Tasks) /\ list[r] # <<>>
        BY <2>5 DEF TypeOK
      <3>2. /\ DOMAIN list[r] = 1..Len(list[r]) /\ Len(list[r]) \in Nat
            /\ DOMAIN Tail(list[r]) = 1..(Len(list[r]) - 1)
            /\ \A i \in 1..(Len(list[r]) - 1) : Tail(list[r])[i] = list[r][i + 1]
        BY <3>1
      <3>3. Listed(r)' \subseteq Listed(r)
        BY <2>5, <3>2 DEF Listed
      <3> QED BY <2>1, <3>3
    <2> QED BY <1>5, <2>1, <2>2, <2>3, <2>4, <2>5
  <1>7. happened \subseteq happened'
    BY DEF ScanStep, Scan, Claim, Check, Forget, Complete, Publish, MarkStatus, MarkHeartbeat, Release,
           Fault, Crash
  <1>8. \A t \in Tasks : completed'[t] = completed[t] \/ (at[r] = "complete" /\ t = InHandOf(r))
    BY DEF ScanStep, Scan, Claim, Check, Forget, Complete, Publish, MarkStatus, MarkHeartbeat, Release,
           Fault, Crash, TypeOK
  <1>9. ASSUME "late" \notin happened, NEW s \in Runners, at'[s] = "complete"
        PROVE  owner'[InHandOf(s)'] = "dead"
    <2>1. CASE s # r
      BY <1>1, <1>4, <1>9, <2>1 DEF Spared, InHandOf
    <2>2. CASE s = r
      <3>1. Check(r) /\ status[InHandOf(r)] = "running"
        BY <1>9, <2>2 DEF ScanStep, Scan, Claim, Check, Forget, Complete, Publish, MarkStatus,
                          MarkHeartbeat, Release, Advance, Abandon, Fault, Crash, TypeOK
      <3>2. InHandOf(r) \in Tasks /\ list[r] \in Seq(Tasks) /\ list[r] # <<>>
        BY <3>1, InHandType DEF Check, TypeOK
      <3>3. InHandOf(r) \in Listed(r)
        <4>1. 1 \in DOMAIN list[r] /\ InHandOf(r) = list[r][1]
          BY <3>2 DEF InHandOf
        <4> QED BY <4>1 DEF Listed
      <3>4. owner[InHandOf(r)] = "dead"
        BY <1>9, <3>1, <3>2, <3>3 DEF Spared, TypeOK
      <3> QED BY <1>1, <2>2, <3>1, <3>4 DEF Check, InHandOf
    <2> QED BY <2>1, <2>2
  <1> QED BY <1>1, <1>2, <1>3, <1>6, <1>7, <1>8, <1>9 DEF Spared

\* A task whose owner was never late is recovered only when that owner is dead,
\* although lists are stale (recover_timeouts and the owner's heartbeat).
THEOREM OwnersSpared == Spec => []AliveIsSpared
  <1>1. Init => Spared
    <2> SUFFICES ASSUME Init PROVE Spared
      OBVIOUS
    <2>1. Expired = {} /\ \A r \in Runners : Listed(r) = {}
      BY DEF Init, Expired, Listed
    <2> QED BY <2>1 DEF Init, Spared
  <1>2. TypeOK /\ Spared /\ [Next]_vars => Spared'
    <2>1. TypeOK /\ Spared /\ UNCHANGED vars => Spared'
      BY DEF Spared, Listed, Expired, InHandOf, vars, redisVars, scanVars, disturbed
    <2> QED BY <2>1, OwnerSpared, ScannerSpared DEF Next
  <1>3. Spared => AliveIsSpared
    BY DEF Spared, AliveIsSpared
  <1> QED BY <1>1, <1>2, <1>3, TypeCorrect, PTL DEF Spec

--------------------------------------------------------------------------------
(* One call of complete                                                     *)

\* As long as no scanner is disturbed, complete was called for a task that is
\* still running only by the scanner that is about to store its outcome.
Once ==
    happened \subseteq {"late"} =>
        /\ \A t \in Tasks \ Broken :
               /\ completed[t] < 2
               /\ completed[t] = 1 /\ status[t] = "running" =>
                      \E r \in Runners : at[r] \in {"publish", "mark_status"} /\ InHandOf(r) = t
        /\ \A r \in Runners :
               at[r] = "complete" /\ InHandOf(r) \notin Broken => completed[InHandOf(r)] = 0

LEMMA OwnerOnce ==
    ASSUME TypeOK, Once, Ages \/ \E t \in Tasks : OwnerStep(t) \/ StateExpires(t) \/ ClaimExpires(t)
    PROVE  Once'
  <1>1. UNCHANGED <<at, list, completed>> /\ happened \subseteq happened'
    BY DEF OwnerStep, Ages, Touch, OwnerMarks, OwnerLeaves, OwnerDies, StateExpires, ClaimExpires,
           scanVars, disturbed, Disturb
  <1>2. \A t \in Tasks : status'[t] = "running" => status[t] = "running"
    BY DEF OwnerStep, Ages, Touch, OwnerMarks, OwnerLeaves, OwnerDies, StateExpires, ClaimExpires,
           redisVars, TypeOK
  <1> QED BY <1>1, <1>2 DEF Once, InHandOf

LEMMA ScannerOnce ==
    ASSUME TypeOK, Claimed, Once, NEW r \in Runners, ScanStep(r) \/ Fault(r) \/ Crash(r)
    PROVE  Once'
  <1> USE DEF redisVars, scanVars, disturbed, Disturb, ScanAt, Goto, InHand, TrySteps
  <1> SUFFICES ASSUME happened' \subseteq {"late"}
               PROVE  Once'
    BY DEF Once
  <1>1. ScanStep(r) /\ happened = happened'
    BY DEF Fault, Crash, ScanStep, Scan, Claim, Check, Forget, Complete, Publish, MarkStatus,
           MarkHeartbeat, Release
  <1>2. \A s \in Runners \ {r} : at'[s] = at[s] /\ list'[s] = list[s]
    BY <1>1 DEF ScanStep, Scan, Claim, Check, Forget, Complete, Publish, MarkStatus, MarkHeartbeat,
                Release, Advance, Abandon, TypeOK
  <1>3. \A s \in Runners \ {r} : at[r] \in InHand /\ at[s] \in InHand => InHandOf(s) # InHandOf(r)
    BY <1>1 DEF Claimed
  <1>4. CASE Scan(r) \/ Claim(r) \/ Forget(r) \/ MarkHeartbeat(r) \/ Release(r)
    <2>1. /\ at[r] \notin {"complete", "publish", "mark_status"}
          /\ at'[r] # "complete" /\ UNCHANGED <<completed, status>>
      BY <1>4 DEF Scan, Claim, Forget, MarkHeartbeat, Release, Advance, Abandon, TypeOK
    <2> QED BY <1>1, <1>2, <2>1 DEF Once, InHandOf
  <1>5. CASE Check(r)
    <2>1. /\ at[r] = "status" /\ UNCHANGED <<completed, status, list>>
          /\ at'[r] = "complete" => status[InHandOf(r)] = "running"
      BY <1>5 DEF Check, TypeOK
    <2>2. InHandOf(r) \in Tasks
      BY <2>1, InHandType
    <2>3. at'[r] = "complete" /\ InHandOf(r) \notin Broken => completed[InHandOf(r)] = 0
      <3>1. ~ \E s \in Runners : at[s] \in {"publish", "mark_status"} /\ InHandOf(s) = InHandOf(r)
        BY <1>3, <2>1
      <3>2. InHandOf(r) \notin Broken /\ status[InHandOf(r)] = "running" =>
                completed[InHandOf(r)] < 2 /\ completed[InHandOf(r)] # 1
        BY <1>1, <2>2, <3>1 DEF Once
      <3>3. completed[InHandOf(r)] \in 0..2
        BY <2>2 DEF TypeOK
      <3> QED BY <2>1, <3>2, <3>3
    <2> QED BY <1>1, <1>2, <2>1, <2>3 DEF Once, InHandOf
  <1>6. CASE Complete(r)
    <2>1. /\ at[r] = "complete" /\ at'[r] = "publish" /\ UNCHANGED <<status, list>>
          /\ completed' = [completed EXCEPT ![InHandOf(r)] = IF @ = 2 THEN 2 ELSE @ + 1]
      BY <1>6 DEF Complete, TypeOK
    <2>2. InHandOf(r) \in Tasks /\ InHandOf(r)' = InHandOf(r)
      BY <2>1, InHandType DEF InHandOf
    <2>3. InHandOf(r) \notin Broken => completed'[InHandOf(r)] = 1
      BY <1>1, <2>1, <2>2 DEF Once, TypeOK
    <2>4. \A t \in Tasks \ {InHandOf(r)} : completed'[t] = completed[t]
      BY <2>1 DEF TypeOK
    <2> QED BY <1>1, <1>2, <1>3, <2>1, <2>2, <2>3, <2>4 DEF Once, InHandOf
  <1>7. CASE Publish(r)
    <2>1. /\ at[r] = "publish" /\ UNCHANGED <<completed, status, list>>
          /\ at'[r] = IF InHandOf(r) \in Broken THEN "raise" ELSE "mark_status"
      BY <1>7 DEF Publish, TypeOK
    <2> QED BY <1>1, <1>2, <2>1 DEF Once, InHandOf
  <1>8. CASE MarkStatus(r)
    <2>1. /\ at[r] = "mark_status" /\ at'[r] = "mark_heartbeat" /\ UNCHANGED <<completed, list>>
          /\ status' = [status EXCEPT ![InHandOf(r)] = "failed"]
      BY <1>8 DEF MarkStatus, TypeOK
    <2>2. \A t \in Tasks : status'[t] = "running" => t # InHandOf(r) /\ status[t] = "running"
      BY <2>1 DEF TypeOK
    <2> QED BY <1>1, <1>2, <2>1, <2>2 DEF Once, InHandOf
  <1> QED BY <1>1, <1>4, <1>5, <1>6, <1>7, <1>8 DEF ScanStep

\* Unless a scanner is disturbed, complete is called once for a task that can be
\* recovered, though every instance may have it in its list and its owner come
\* back (recover_timeouts).
THEOREM CompletedOnce == Spec => []RecoveredOnce
  <1>1. Init => Once /\ Claimed
    BY DEF Init, Once, Claimed, InHand, TrySteps
  <1>2. TypeOK /\ Claimed /\ Once /\ [Next]_vars => Once' /\ Claimed'
    <2>1. TypeOK /\ Claimed /\ Once /\ UNCHANGED vars => Once' /\ Claimed'
      BY DEF Once, Claimed, InHandOf, vars, redisVars, scanVars, disturbed
    <2> QED BY <2>1, OwnerClaimed, ScannerClaimed, OwnerOnce, ScannerOnce DEF Next
  <1>3. Once => RecoveredOnce
    BY DEF Once, RecoveredOnce
  <1> QED BY <1>1, <1>2, <1>3, TypeCorrect, PTL DEF Spec

--------------------------------------------------------------------------------
(* No running task leaves the index                                         *)

\* A running task has its place in the index, and whoever is about to take a task
\* out has seen or stored that it is not running any more.
Indexed ==
    /\ \A t \in Tasks : status[t] = "running" => \E i \in 1..Len(index) : index[i] = t
    /\ \A t \in Tasks : owner[t] \in {"marking", "done"} => status[t] # "running"
    /\ \A r \in Runners : at[r] \in {"forget", "mark_heartbeat"} => status[InHandOf(r)] # "running"

\* Taking out a task leaves the others in the index.
LEMMA WithoutKeeps ==
    ASSUME TypeOK, NEW t \in Tasks, NEW other \in Tasks \ {t}, \E i \in 1..Len(index) : index[i] = other
    PROVE  \E i \in 1..Len(Without(t)) : Without(t)[i] = other
  <1>1. CASE ~ \E i \in 1..Len(index) : index[i] = t
    <2>1. Without(t) = index
      BY <1>1, WithoutType DEF TypeOK
    <2> QED BY <2>1
  <1>2. CASE \E i \in 1..Len(index) : index[i] = t
    <2>1. PICK i \in 1..Len(index) : index[i] = t
      BY <1>2
    <2>2. PICK j \in 1..Len(index) : index[j] = other
      OBVIOUS
    <2>3. /\ Len(Without(t)) = Len(index) - 1 /\ Len(index) \in Nat
          /\ \A k \in 1..(Len(index) - 1) : Without(t)[k] = IF k < i THEN index[k] ELSE index[k + 1]
      <3>1. index \in Seq(Tasks) /\ IsInjective(index) /\ Len(index) \in Nat
        BY LenProperties DEF TypeOK
      <3>2. Len(Without(t)) = Len(index) - 1
        BY <1>2, <3>1, WithoutType
      <3>3. \A m \in 1..Len(index) : index[m] = t =>
                \A k \in 1..(Len(index) - 1) : Without(t)[k] = IF k < m THEN index[k] ELSE index[k + 1]
        BY <3>1, WithoutType
      <3>4. \A k \in 1..(Len(index) - 1) : Without(t)[k] = IF k < i THEN index[k] ELSE index[k + 1]
        BY <2>1, <3>3
      <3> QED BY <3>1, <3>2, <3>4
    <2>4. CASE j < i
      <3>1. j \in 1..(Len(index) - 1) /\ Without(t)[j] = other
        BY <2>1, <2>2, <2>3, <2>4
      <3> QED BY <2>3, <3>1
    <2>5. CASE j > i
      <3>1. j - 1 \in 1..(Len(index) - 1) /\ ~(j - 1 < i) /\ j - 1 + 1 = j
        BY <2>1, <2>2, <2>3, <2>5
      <3>2. Without(t)[j - 1] = other
        BY <2>2, <2>3, <3>1
      <3> QED BY <2>3, <3>1, <3>2
    <2> QED BY <2>1, <2>2, <2>4, <2>5
  <1> QED BY <1>1, <1>2

\* A step of an owner or of time.
LEMMA OwnerIndexed ==
    ASSUME TypeOK, Indexed, Ages \/ \E t \in Tasks : OwnerStep(t) \/ StateExpires(t) \/ ClaimExpires(t)
    PROVE  Indexed'
  <1> USE DEF redisVars, scanVars, disturbed, Disturb
  <1>1. CASE Ages \/ \E t \in Tasks : OwnerDies(t) \/ ClaimExpires(t)
    BY <1>1 DEF Ages, OwnerDies, ClaimExpires, Indexed, InHandOf, TypeOK
  <1>2. ASSUME NEW t \in Tasks, Touch(t)
        PROVE  Indexed'
    <2>1. /\ index' = Append(Without(t), t) /\ UNCHANGED <<status, owner, at, list>>
          /\ Without(t) \in Seq(Tasks)
      BY <1>2, WithoutType DEF Touch, TypeOK
    <2>2. /\ Len(index') = Len(Without(t)) + 1 /\ Len(Without(t)) \in Nat /\ index'[Len(index')] = t
          /\ \A i \in 1..Len(Without(t)) : index'[i] = Without(t)[i]
      BY <2>1, AppendProperties, LenProperties
    <2>3. ASSUME NEW other \in Tasks, status'[other] = "running"
          PROVE  \E i \in 1..Len(index') : index'[i] = other
      <3>1. CASE other = t
        BY <2>2, <3>1
      <3>2. CASE other # t
        <4>1. \E i \in 1..Len(index) : index[i] = other
          BY <2>1, <2>3 DEF Indexed
        <4>2. PICK i \in 1..Len(Without(t)) : Without(t)[i] = other
          BY <3>2, <4>1, WithoutKeeps
        <4> QED BY <2>2, <4>2
      <3> QED BY <3>1, <3>2
    <2> QED BY <2>1, <2>3 DEF Indexed, InHandOf
  <1>3. ASSUME NEW t \in Tasks, OwnerMarks(t) \/ StateExpires(t)
        PROVE  Indexed'
    <2>1. /\ UNCHANGED <<index, at, list>> /\ status'[t] # "running"
          /\ \A u \in Tasks \ {t} : status'[u] = status[u] /\ owner'[u] = owner[u]
      BY <1>3 DEF OwnerMarks, StateExpires, TypeOK
    <2>2. \A r \in Runners : at[r] \in {"forget", "mark_heartbeat"} => InHandOf(r) \in Tasks
      BY InHandType DEF InHand, TrySteps
    <2> QED BY <2>1, <2>2 DEF Indexed, InHandOf
  <1>4. ASSUME NEW t \in Tasks, OwnerLeaves(t)
        PROVE  Indexed'
    <2>1. /\ index' = Without(t) /\ UNCHANGED <<status, at, list>> /\ status[t] # "running"
          /\ \A u \in Tasks : owner'[u] \in {"marking", "done"} => owner[u] \in {"marking", "done"}
      BY <1>4 DEF OwnerLeaves, Zrem, Indexed, TypeOK
    <2> QED BY <2>1, WithoutKeeps DEF Indexed, InHandOf
  <1> QED BY <1>1, <1>2, <1>3, <1>4 DEF OwnerStep

\* A scanner takes out what it has in hand, after its status is no longer running.
LEMMA ScannerIndexed ==
    ASSUME TypeOK, Indexed, NEW r \in Runners, ScanStep(r) \/ Fault(r) \/ Crash(r)
    PROVE  Indexed'
  <1> DEFINE taken == {"forget", "mark_heartbeat"}
  <1> USE DEF redisVars, scanVars, disturbed, Disturb, ScanAt, Goto
  <1>1. /\ owner' = owner
        /\ \A s \in Runners \ {r} : at'[s] = at[s] /\ list'[s] = list[s]
    BY DEF ScanStep, Scan, Claim, Check, Forget, Complete, Publish, MarkStatus, MarkHeartbeat,
           Release, Fault, Crash, Advance, Abandon, TypeOK
  <1>2. at[r] \in TrySteps => InHandOf(r) \in Tasks
    BY InHandType DEF InHand
  <1>3. CASE UNCHANGED <<status, index>> /\ at'[r] \notin taken
    BY <1>1, <1>3 DEF Indexed, InHandOf
  <1>4. CASE UNCHANGED <<status, index, list>> /\ at'[r] \in taken /\ status[InHandOf(r)] # "running"
    BY <1>1, <1>4 DEF Indexed, InHandOf
  <1>5. CASE /\ at[r] = "mark_status" /\ status' = [status EXCEPT ![InHandOf(r)] = "failed"]
             /\ UNCHANGED <<index, list>>
    <2>1. /\ status'[InHandOf(r)] # "running"
          /\ \A t \in Tasks : status'[t] = "running" => status[t] = "running"
      BY <1>2, <1>5 DEF TrySteps, TypeOK
    <2>2. \A s \in Runners : at[s] \in taken => InHandOf(s) \in Tasks
      BY InHandType DEF InHand, TrySteps
    <2> QED BY <1>1, <1>5, <2>1, <2>2 DEF Indexed, InHandOf
  <1>6. CASE at[r] \in taken /\ Zrem(InHandOf(r)) /\ UNCHANGED <<status, list>> /\ at'[r] \notin taken
    <2>1. PICK t \in Tasks : t = InHandOf(r)
      BY <1>2, <1>6 DEF TrySteps
    <2>2. status[t] # "running" /\ index' = Without(t)
      BY <1>6, <2>1 DEF Indexed, Zrem
    <2>3. \A u \in Tasks : status'[u] = "running" => \E i \in 1..Len(index') : index'[i] = u
      BY <1>6, <2>2, WithoutKeeps DEF Indexed
    <2> QED BY <1>1, <1>6, <2>3 DEF Indexed, InHandOf
  <1>7. CASE ScanStep(r)
    <2>1. CASE Scan(r) \/ Claim(r) \/ Complete(r) \/ Publish(r) \/ Release(r)
      BY <1>3, <2>1 DEF Scan, Claim, Complete, Publish, Release, Advance, Abandon, TypeOK
    <2>2. CASE Check(r)
      BY <1>3, <1>4, <2>2 DEF Check, TypeOK
    <2>3. CASE Forget(r) \/ MarkHeartbeat(r)
      BY <1>6, <2>3 DEF Forget, MarkHeartbeat, TypeOK
    <2>4. CASE MarkStatus(r)
      BY <1>5, <2>4 DEF MarkStatus
    <2> QED BY <1>7, <2>1, <2>2, <2>3, <2>4 DEF ScanStep
  <1>8. CASE Fault(r)
    <2>1. at'[r] \notin taken /\ (at[r] \in TrySteps => list' = list)
      BY <1>8 DEF Fault, Abandon, TypeOK
    <2>2. CASE UNCHANGED <<status, index>>
      BY <1>3, <2>1, <2>2
    <2>3. CASE at[r] \in taken /\ Zrem(InHandOf(r)) /\ UNCHANGED <<status, claim>>
      BY <1>6, <2>1, <2>3 DEF TrySteps
    <2>4. CASE /\ at[r] = "mark_status" /\ status' = [status EXCEPT ![InHandOf(r)] = "failed"]
               /\ UNCHANGED <<index, expired, claim>>
      BY <1>5, <2>1, <2>4 DEF TrySteps
    <2> QED BY <1>8, <2>2, <2>3, <2>4 DEF Fault
  <1>9. CASE Crash(r)
    BY <1>3, <1>9 DEF Crash, TypeOK
  <1> QED BY <1>7, <1>8, <1>9

\* A task that counts as running is in the index, where a later scan finds it,
\* however late an owner or a scanner takes it out and whichever command raises
\* before it does (mark_terminal, forget_heartbeat).
THEOREM RunningKept == Spec => []NoneIsLost
  <1>1. Init => Indexed
    <2> SUFFICES ASSUME Init PROVE Indexed
      OBVIOUS
    <2>1. \A t \in Tasks : \E i \in 1..Len(index) : index[i] = t
      <3>1. PICK n \in Nat : n = Cardinality(Tasks)
        BY ScanAssumption, FS_CardinalityType
      <3>2. index \in Injection(1..n, Tasks)
        BY <3>1 DEF Init, SetToSeqs, Injection, IsInjective
      <3>3. Cardinality(1..n) = n
        <4>1. 1 \in Int /\ n \in Int
          OBVIOUS
        <4> QED BY <4>1, FS_Interval
      <3>4. index \in Surjection(1..n, Tasks)
        BY <3>1, <3>2, <3>3, ScanAssumption, FS_Injection
      <3>5. Len(index) = n
        BY <3>2 DEF Injection
      <3> QED BY <3>4, <3>5 DEF Surjection
    <2> QED BY <2>1 DEF Init, Indexed
  <1>2. TypeOK /\ Indexed /\ [Next]_vars => Indexed'
    <2>1. TypeOK /\ Indexed /\ UNCHANGED vars => Indexed'
      BY DEF Indexed, InHandOf, vars, redisVars, scanVars, disturbed
    <2> QED BY <2>1, OwnerIndexed, ScannerIndexed DEF Next
  <1>3. Indexed => NoneIsLost
    BY DEF Indexed, NoneIsLost, Contains
  <1> QED BY <1>1, <1>2, <1>3, TypeCorrect, PTL DEF Spec
================================================================================
