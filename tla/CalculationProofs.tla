------------------------- MODULE CalculationProofs -------------------------
(***************************************************************************)
(* The calculations.  First why the allocation loop empties batches in     *)
(* expiry order, for any number of batches, dates and quantities, and why  *)
(* its result is the one the loop-free definition gives (Fefo).  Then the  *)
(* arithmetic of money (Figures): roundings, prices, and that a total is   *)
(* split over any number of lines without losing a paisa.                  *)
(***************************************************************************)
EXTENDS Fefo, Figures, Sums

-----------------------------------------------------------------------------
(* The loops of Fefo.                                                      *)

\* What the loop has done so far.  The batches still ahead of it are untouched
\* and expire no earlier than the ones behind it, which it has emptied.
LoopInv ==
  /\ pc = "check" => \A b \in Batch : take[b] = 0
  /\ todo \subseteq Eligible
  /\ \A b \in Batch : /\ take[b] <= offer[b]
                      /\ b \in todo \/ b \notin Eligible => take[b] = 0
  /\ pc = "loop" =>
       \A b \in Eligible \ todo : /\ take[b] = offer[b] \/ remaining = 0
                                  /\ \A c \in todo : expiry[b] <= expiry[c]
  /\ EarliestFirst

Inductive == LoopTypeOK /\ LoopInv

\* What may be taken from is a set of batches, whichever call it is.
LEMMA EligibleFields ==
  ASSUME LoopTypeOK
  PROVE  /\ Eligible \subseteq Batch
         /\ \A b \in Batch : b \in Eligible /\ call = "allocate" => expiry[b] > asOf
         /\ \A b \in Batch : offer[b] \in 0..MaxOffer /\ take[b] \in 0..MaxOffer
         /\ \A b \in Batch : offer[b] \in Int /\ take[b] \in Int /\ expiry[b] \in Nat
<1>1. MaxOffer \in Nat /\ LastDay \in Nat /\ NoExpiry \in Nat
  BY FefoAssumption
<1>2. DOMAIN offer = Batch /\ \A b \in Batch : expiry[b] \in Nat
  BY <1>1 DEF LoopTypeOK, Date
<1>3. \A b \in Batch : offer[b] \in 0..MaxOffer /\ take[b] \in 0..MaxOffer
  BY DEF LoopTypeOK
<1> QED
  BY <1>1, <1>2, <1>3 DEF Eligible, Sellable, Holding

\* A call that has not started satisfies the invariant.
LEMMA InitInductive ==
  ASSUME LoopInit
  PROVE  Inductive
<1>1. MaxOffer \in Nat
  BY FefoAssumption
<1>2. required \in 0..(2 * MaxOffer)
  BY <1>1 DEF LoopInit
<1>3. LoopTypeOK
  BY <1>1, <1>2 DEF LoopInit, LoopTypeOK
<1>4. \A b \in Batch : take[b] = 0
  BY DEF LoopInit
<1>5. LoopInv
  BY <1>3, <1>4, EligibleFields DEF LoopInv, EarliestFirst, InExpiryOrder, LoopInit
<1> QED
  BY <1>3, <1>5 DEF Inductive

\* One iteration keeps the invariant.
LEMMA TakeNextKeeps ==
  ASSUME Inductive, NEW b \in Batch, TakeNext(b)
  PROVE  Inductive'
<1> DEFINE n == Least(offer[b], remaining)
<1>1. /\ pc = "loop" /\ remaining > 0 /\ b \in todo /\ pc' = pc
      /\ \A c \in todo : expiry[b] <= expiry[c]
      /\ todo' = todo \ {b} /\ take' = [take EXCEPT ![b] = n] /\ remaining' = remaining - n
      /\ UNCHANGED <<call, asOf, expiry, offer, required>>
  BY DEF TakeNext, inputs
<1>2. /\ MaxOffer \in Nat /\ offer[b] \in 0..MaxOffer /\ remaining \in 0..(2 * MaxOffer)
      /\ take \in [Batch -> 0..MaxOffer] /\ todo \subseteq Batch
  BY FefoAssumption DEF Inductive, LoopTypeOK
<1>3. /\ n \in 0..MaxOffer /\ n <= offer[b] /\ remaining - n \in 0..(2 * MaxOffer)
      /\ n = offer[b] \/ remaining - n = 0
  BY <1>1, <1>2 DEF Least
<1> HIDE DEF n
<1>4. LoopTypeOK'
  BY <1>1, <1>2, <1>3 DEF Inductive, LoopTypeOK
<1>5. Eligible' = Eligible
  BY <1>1 DEF Eligible
<1>6. \A c \in Batch : take'[c] = IF c = b THEN n ELSE take[c]
  BY <1>1, <1>2
<1>7. /\ todo \subseteq Eligible /\ Eligible \subseteq Batch
      /\ \A c \in Batch : /\ take[c] <= offer[c]
                          /\ c \in todo \/ c \notin Eligible => take[c] = 0
      /\ \A c \in Eligible \ todo : /\ take[c] = offer[c] \/ remaining = 0
                                    /\ \A d \in todo : expiry[c] <= expiry[d]
  BY <1>1, EligibleFields DEF Inductive, LoopInv
<1>8. \A c \in Batch : offer[c] \in Int /\ take[c] \in Int /\ expiry[c] \in Nat
  BY EligibleFields DEF Inductive
<1>9. /\ todo' \subseteq Eligible'
      /\ \A c \in Batch : /\ take'[c] <= offer'[c]
                          /\ c \in todo' \/ c \notin Eligible' => take'[c] = 0
  BY <1>1, <1>3, <1>5, <1>6, <1>7
<1>10. ASSUME NEW c \in Eligible' \ todo'
       PROVE  /\ take'[c] = offer'[c] \/ remaining' = 0
              /\ \A d \in todo' : expiry'[c] <= expiry'[d]
  BY <1>1, <1>3, <1>5, <1>6, <1>7, <1>10
<1>11. ASSUME NEW c \in Eligible', NEW d \in Eligible', expiry'[c] < expiry'[d], take'[d] > 0
       PROVE  take'[c] = offer'[c]
  <2>1. c \in Batch /\ d \in Batch /\ c # d /\ expiry[c] < expiry[d]
    BY <1>1, <1>5, <1>7, <1>8, <1>11
  <2>2. d \notin todo'
    BY <1>9, <1>11, <2>1
  <2>3. c \notin todo
    BY <1>1, <1>5, <1>7, <1>8, <1>11, <2>1, <2>2
  <2> QED
    BY <1>1, <1>5, <1>6, <1>7, <2>1, <2>3
<1>12. EarliestFirst'
  BY <1>11 DEF EarliestFirst, InExpiryOrder
<1>13. LoopInv'
  BY <1>1, <1>9, <1>10, <1>12 DEF LoopInv
<1> QED
  BY <1>4, <1>13 DEF Inductive

\* Every step keeps the invariant.
LEMMA NextKeeps ==
  ASSUME Inductive, [LoopNext]_loopVars
  PROVE  Inductive'
<1>1. CASE Refuse \/ Leave \/ Finished \/ UNCHANGED loopVars
  <2>1. /\ UNCHANGED <<call, asOf, expiry, offer, required, todo, take, remaining>>
        /\ pc' = pc \/ (pc' \in {"done", "refused"})
    BY <1>1 DEF Refuse, Leave, Finished, loopVars, inputs
  <2>2. Eligible' = Eligible
    BY <2>1 DEF Eligible
  <2>3. LoopTypeOK'
    BY <2>1 DEF Inductive, LoopTypeOK
  <2>4. LoopInv'
    BY <2>1, <2>2 DEF Inductive, LoopInv, EarliestFirst, InExpiryOrder
  <2> QED
    BY <2>3, <2>4 DEF Inductive
<1>2. CASE Enter
  <2>1. /\ UNCHANGED <<call, asOf, expiry, offer, required, take, remaining>>
        /\ pc = "check" /\ pc' = "loop" /\ todo' = Eligible
    BY <1>2 DEF Enter, inputs
  <2>2. Eligible' = Eligible /\ Eligible \subseteq Batch
    BY <2>1, EligibleFields DEF Eligible, Inductive
  <2>3. LoopTypeOK'
    BY <2>1, <2>2 DEF Inductive, LoopTypeOK
  <2>4. LoopInv'
    BY <2>1, <2>2 DEF Inductive, LoopInv, EarliestFirst, InExpiryOrder
  <2> QED
    BY <2>3, <2>4 DEF Inductive
<1>3. ASSUME NEW b \in Batch, TakeNext(b)
      PROVE  Inductive'
  BY <1>3, TakeNextKeeps
<1> QED
  BY <1>1, <1>2, <1>3 DEF LoopNext

\* The invariant of every point of the loop.
THEOREM Invariance == FefoSpec => []Inductive
<1>1. LoopInit => Inductive
  BY InitInductive
<1>2. Inductive /\ [LoopNext]_loopVars => Inductive'
  BY NextKeeps
<1> QED
  BY <1>1, <1>2, PTL DEF FefoSpec

\* The types, for every number of batches and every bound on quantities: what
\* remains never gets negative.
THEOREM TypeCorrect == FefoSpec => []LoopTypeOK
<1>1. Inductive => LoopTypeOK
  BY DEF Inductive
<1> QED
  BY <1>1, Invariance, PTL

\* FEFO: no batch is touched while an earlier-expiring eligible one has stock
\* left, for every assignment of dates and quantities to batches.
THEOREM EmptiesInOrder == FefoSpec => []EarliestFirst
<1>1. Inductive => EarliestFirst
  BY DEF Inductive, LoopInv
<1> QED
  BY <1>1, Invariance, PTL

\* Expired stock is never sold and no batch gives more than it has.
THEOREM SellsNothingExpired == FefoSpec => []NothingExpired
<1>1. ASSUME Inductive
      PROVE  NothingExpired
  <2>1. ASSUME NEW b \in Batch, call = "allocate", take[b] > 0
        PROVE  expiry[b] > asOf
    <3>1. b \in Eligible
      BY <1>1, <2>1 DEF Inductive, LoopInv
    <3> QED
      BY <1>1, <2>1, <3>1, EligibleFields DEF Inductive
  <2> QED
    BY <1>1, <2>1 DEF NothingExpired, Inductive, LoopInv
<1> QED
  BY <1>1, Invariance, PTL

-----------------------------------------------------------------------------
\* How far the loop is: what has been taken and what remains make up what was
\* asked for, at most one batch has been taken in part, and nobody is refused
\* for whom there is enough.
Counted ==
  /\ remaining + Total(take, Eligible) = required
  /\ \A b, c \in Eligible : b # c => take[b] \in {0, offer[b]} \/ take[c] \in {0, offer[c]}
  /\ pc = "loop" /\ call = "allocate" => Total(offer, Eligible) >= required
  /\ pc = "done" => remaining = 0
  /\ pc = "refused" => Total(offer, Eligible) < required

\* The sums are sums of numbers over a finite set.
LEMMA EligibleSums ==
  ASSUME LoopTypeOK
  PROVE  /\ IsFiniteSet(Eligible)
         /\ Total(take, Eligible) \in Nat /\ Total(offer, Eligible) \in Nat
         /\ \A b \in Eligible : take[b] <= Total(take, Eligible)
<1>1. IsFiniteSet(Eligible)
  BY EligibleFields, FefoAssumption, FS_Subset
<1>2. \A b \in Eligible : take[b] \in Nat /\ offer[b] \in Nat
  BY EligibleFields, FefoAssumption
<1>3. /\ SumFunctionOnSet(take, Eligible) \in Nat
      /\ \A b \in Eligible : take[b] <= SumFunctionOnSet(take, Eligible)
  BY ONLY <1>1, <1>2, SumNat
<1>4. SumFunctionOnSet(offer, Eligible) \in Nat
  BY ONLY <1>1, <1>2, SumNat
<1> QED
  BY <1>1, <1>3, <1>4 DEF Total

\* When the loop has been through every batch and something remains, it has
\* taken all there is.
LEMMA AllTaken ==
  ASSUME Inductive, pc = "loop", todo = {}, remaining > 0
  PROVE  Total(take, Eligible) = Total(offer, Eligible)
<1>1. \A b \in Eligible : take[b] \in Int /\ take[b] = offer[b]
  <2>1. remaining # 0
    BY FefoAssumption DEF Inductive, LoopTypeOK
  <2> QED
    BY <2>1, EligibleFields DEF Inductive, LoopInv
<1>2. IsFiniteSet(Eligible)
  BY EligibleSums DEF Inductive
<1>3. SumFunctionOnSet(take, Eligible) = SumFunctionOnSet(offer, Eligible)
  BY ONLY <1>1, <1>2, SumSame
<1> QED
  BY <1>3 DEF Total

\* A call that has not started has everything before it.
LEMMA InitCounted ==
  ASSUME LoopInit
  PROVE  Counted
<1>1. LoopTypeOK
  BY InitInductive DEF Inductive
<1>2. IsFiniteSet(Eligible) /\ Eligible \subseteq Batch
  BY <1>1, EligibleSums, EligibleFields
<1>3. \A b \in Eligible : take[b] = 0
  BY <1>2 DEF LoopInit
<1>4. SumFunctionOnSet(take, Eligible) = 0
  BY ONLY <1>2, <1>3, SumZero
<1>5. Total(take, Eligible) = 0 /\ required \in Int /\ remaining = required /\ pc = "check"
  BY <1>1, <1>4, FefoAssumption DEF Total, LoopInit, LoopTypeOK
<1> QED
  BY <1>3, <1>5 DEF Counted

\* One iteration moves from what remains to what is taken.
LEMMA TakeNextCounts ==
  ASSUME Inductive, Counted, NEW b \in Batch, TakeNext(b)
  PROVE  Counted'
<1> DEFINE n == Least(offer[b], remaining)
<1>1. /\ pc = "loop" /\ remaining > 0 /\ b \in todo /\ pc' = pc
      /\ take' = [take EXCEPT ![b] = n] /\ remaining' = remaining - n
      /\ UNCHANGED <<call, asOf, expiry, offer, required>>
  BY DEF TakeNext, inputs
<1>2. /\ MaxOffer \in Nat /\ offer[b] \in 0..MaxOffer /\ remaining \in 0..(2 * MaxOffer)
      /\ required \in Int /\ take \in [Batch -> 0..MaxOffer]
  BY FefoAssumption DEF Inductive, LoopTypeOK
<1>3. n \in Int
  BY <1>2 DEF Least
<1>4. Eligible' = Eligible
  BY <1>1 DEF Eligible
<1>5. b \in Eligible /\ take[b] = 0 /\ Eligible \subseteq Batch
  BY <1>1, EligibleFields DEF Inductive, LoopInv
<1> HIDE DEF n
<1>6. take'[b] = n /\ \A c \in Batch : c # b => take'[c] = take[c]
  BY <1>1, <1>2
<1>7. SumFunctionOnSet(take', Eligible) = SumFunctionOnSet(take, Eligible) + (take'[b] - take[b])
  <2>1. /\ IsFiniteSet(Eligible) /\ b \in Eligible /\ take'[b] \in Int
        /\ \A c \in Eligible : take[c] \in Int
        /\ \A c \in Eligible : c # b => take'[c] = take[c]
    BY <1>2, <1>3, <1>5, <1>6, EligibleSums DEF Inductive
  <2> QED
    BY ONLY <2>1, SumChange
<1>8. Total(take', Eligible) = Total(take, Eligible) + n
  BY <1>2, <1>3, <1>5, <1>6, <1>7, EligibleSums DEF Total, Inductive
<1>9. remaining' + Total(take', Eligible') = required'
  <2>1. /\ Total(take, Eligible) \in Int /\ remaining \in Int
        /\ remaining + Total(take, Eligible) = required /\ required' = required
    BY <1>1, <1>2, EligibleSums DEF Counted, Inductive
  <2> QED
    BY <2>1, <1>1, <1>3, <1>4, <1>8
<1>10. \A c \in Eligible : c # b => take[c] \in {0, offer[c]}
  BY <1>1, <1>2, <1>5 DEF Inductive, LoopInv
<1>11. \A c, d \in Eligible : c # d => take'[c] \in {0, offer[c]} \/ take'[d] \in {0, offer[d]}
  BY <1>5, <1>6, <1>10
<1>12. pc' = "loop" /\ (call' = "allocate" => Total(offer', Eligible') >= required')
  BY <1>1, <1>4 DEF Counted
<1> QED
  BY <1>1, <1>4, <1>9, <1>11, <1>12 DEF Counted

\* The loop is left with nothing remaining, or with all there is taken.
LEMMA LeaveCounts ==
  ASSUME Inductive, Counted, Leave
  PROVE  Counted'
<1>1. /\ pc = "loop" /\ (remaining = 0 \/ todo = {})
      /\ pc' = IF call = "release" /\ remaining > 0 THEN "refused" ELSE "done"
      /\ UNCHANGED <<call, asOf, expiry, offer, required, take, remaining>>
  BY DEF Leave, inputs
<1>2. Eligible' = Eligible
  BY <1>1 DEF Eligible
<1>3. /\ Total(take, Eligible) \in Int /\ Total(offer, Eligible) \in Int
      /\ remaining \in Nat /\ required \in Int /\ call \in {"allocate", "release"}
  BY EligibleSums, FefoAssumption DEF Inductive, LoopTypeOK
<1>4. remaining > 0 => Total(take, Eligible) = Total(offer, Eligible)
  BY <1>1, <1>3, AllTaken
<1>5. /\ remaining + Total(take, Eligible) = required
      /\ call = "allocate" => Total(offer, Eligible) >= required
  BY <1>1 DEF Counted
<1>6. pc' = "done" => remaining = 0
  BY <1>1, <1>3, <1>4, <1>5
<1>7. pc' = "refused" => Total(offer, Eligible) < required
  BY <1>1, <1>3, <1>4, <1>5
<1>8. pc' # "loop"
  BY <1>1
<1> QED
  BY <1>1, <1>2, <1>5, <1>6, <1>7, <1>8 DEF Counted

\* Every step keeps count.
LEMMA NextCounts ==
  ASSUME Inductive, Counted, [LoopNext]_loopVars
  PROVE  Counted'
<1>1. CASE Finished \/ UNCHANGED loopVars
  <2>1. UNCHANGED <<call, asOf, expiry, offer, required, take, remaining, pc>>
    BY <1>1 DEF Finished, loopVars
  <2>2. Eligible' = Eligible
    BY <2>1 DEF Eligible
  <2> QED
    BY <2>1, <2>2 DEF Counted
<1>2. CASE Refuse \/ Enter
  <2>1. /\ UNCHANGED <<call, asOf, expiry, offer, required, take, remaining>>
        /\ \/ pc' = "refused" /\ Total(offer, Eligible) < required
           \/ pc' = "loop" /\ (call = "allocate" => Total(offer, Eligible) >= required)
    BY <1>2 DEF Refuse, Enter, inputs
  <2>2. Eligible' = Eligible
    BY <2>1 DEF Eligible
  <2> QED
    BY <2>1, <2>2 DEF Counted
<1> QED
  BY <1>1, <1>2, TakeNextCounts, LeaveCounts DEF LoopNext

\* The loop's result is an allocation of the definition.
LEMMA DoneIsTakes ==
  ASSUME Inductive, Counted, pc = "done"
  PROVE  take \in Takes(offer, expiry, Eligible, required)
<1>1. DOMAIN offer = Batch /\ take \in [Batch -> 0..MaxOffer] /\ required \in Nat
  BY FefoAssumption DEF Inductive, LoopTypeOK
<1>2. Total(take, Eligible) = required
  BY <1>1, EligibleSums DEF Inductive, Counted
<1>3. \A b \in Batch : /\ take[b] \in Nat /\ offer[b] \in Nat /\ take[b] <= offer[b]
                       /\ b \notin Eligible => take[b] = 0
  BY EligibleFields, FefoAssumption DEF Inductive, LoopInv
<1>4. \A b \in Batch : take[b] \in 0..required
  <2>1. \A b \in Eligible : take[b] <= required
    BY <1>2, EligibleSums DEF Inductive
  <2> QED
    BY <1>1, <1>3, <2>1
<1>5. take \in [DOMAIN offer -> 0..required]
  BY <1>1, <1>4
<1>6. \A b \in DOMAIN offer : take[b] <= (IF b \in Eligible THEN offer[b] ELSE 0)
  BY <1>1, <1>3
<1>7. InExpiryOrder(take, offer, expiry, Eligible)
  BY DEF Inductive, LoopInv, EarliestFirst
<1>8. TiesInTurn(take, offer, expiry, Eligible)
  BY DEF Counted, TiesInTurn
<1> QED
  BY <1>2, <1>5, <1>6, <1>7, <1>8 DEF Takes

\* There is no allocation of more than there is.
LEMMA RefusedIsNone ==
  ASSUME Inductive, Counted, pc = "refused"
  PROVE  Takes(offer, expiry, Eligible, required) = {}
<1> SUFFICES ASSUME NEW f \in Takes(offer, expiry, Eligible, required)
             PROVE  FALSE
  OBVIOUS
<1>1. DOMAIN offer = Batch /\ required \in Nat /\ Eligible \subseteq Batch
  BY EligibleFields, FefoAssumption DEF Inductive, LoopTypeOK
<1>2. /\ f \in [Batch -> 0..required] /\ Total(f, Eligible) = required
      /\ \A b \in Batch : f[b] <= (IF b \in Eligible THEN offer[b] ELSE 0)
  BY <1>1 DEF Takes
<1>3. \A b \in Eligible : f[b] \in Int /\ offer[b] \in Int /\ f[b] <= offer[b]
  BY <1>1, <1>2, EligibleFields DEF Inductive
<1>4. IsFiniteSet(Eligible) /\ Total(offer, Eligible) \in Int
  BY EligibleSums DEF Inductive
<1>5. SumFunctionOnSet(f, Eligible) <= SumFunctionOnSet(offer, Eligible)
  BY ONLY <1>3, <1>4, SumMonotone
<1>6. required <= Total(offer, Eligible)
  BY <1>2, <1>5 DEF Total
<1>7. Total(offer, Eligible) < required
  BY DEF Counted
<1> QED
  BY <1>1, <1>4, <1>6, <1>7

\* The loops do what the loop-free statement of FEFO says, and refuse exactly
\* what cannot be allocated, for any batches, dates and quantities
\* (fefo.py:45-74, inventory/service.py release_reservation).
THEOREM LoopsAgree == FefoSpec => []AgreesWithDefinition
<1>1. Inductive /\ Counted => AgreesWithDefinition
  BY DoneIsTakes, RefusedIsNone DEF AgreesWithDefinition
<1>2. LoopInit => Inductive /\ Counted
  BY InitInductive, InitCounted
<1>3. Inductive /\ Counted /\ [LoopNext]_loopVars => (Inductive /\ Counted)'
  BY NextKeeps, NextCounts
<1> QED
  BY <1>1, <1>2, <1>3, PTL DEF FefoSpec

-----------------------------------------------------------------------------
(* The arithmetic of Figures.                                              *)

\* Division with a remainder, as the provers need to be told it.
LEMMA DivMod ==
  ASSUME NEW n \in Int, NEW d \in Nat \ {0}
  PROVE  /\ n \div d \in Int /\ n % d \in 0 .. d - 1
         /\ n = d * (n \div d) + (n % d)
OBVIOUS

LEMMA DivNat ==
  ASSUME NEW n \in Nat, NEW d \in Nat \ {0}
  PROVE  /\ n \div d \in Nat /\ n % d \in 0 .. d - 1
         /\ n = d * (n \div d) + (n % d)
<1>1. n \div d \in Int /\ n % d \in 0 .. d - 1 /\ n = d * (n \div d) + (n % d)
  BY DivMod
<1> QED
  BY <1>1

\* Rounding half up is off by half a unit at most (quantize_money).
LEMMA Rounds ==
  ASSUME NEW n \in Nat, NEW d \in Nat \ {0}
  PROVE  /\ Round(n, d) \in Nat
         /\ 2 * (d * Round(n, d)) - 2 * n \in -d .. d
<1> DEFINE e == 2 * d
           m == 2 * n + d
           q == m \div e
           r == m % e
<1>1. e \in Nat \ {0} /\ m \in Nat /\ m = 2 * n + d /\ e = 2 * d
  OBVIOUS
<1> HIDE DEF e, m
<1>2. q \in Nat /\ r \in 0 .. e - 1 /\ m = e * q + r
  BY <1>1, DivNat
<1> HIDE DEF q, r
<1>3. e * q = 2 * (d * q) /\ d * q \in Int
  BY <1>1, <1>2
<1>4. 2 * (d * q) - 2 * n = d - r
  BY <1>1, <1>2, <1>3
<1>5. Round(n, d) = q
  BY DEF Round, q, m, e
<1> QED
  BY <1>1, <1>2, <1>4, <1>5

\* So is rounding half to even, which the unit costs take.
LEMMA RoundsEven ==
  ASSUME NEW n \in Nat, NEW d \in Nat \ {0}
  PROVE  /\ RoundHalfEven(n, d) \in Nat
         /\ 2 * Distance(RoundHalfEven(n, d) * d, n) <= d
<1> DEFINE q == n \div d
           r == n % d
           a == RoundHalfEven(n, d)
<1>1. q \in Nat /\ r \in 0 .. d - 1 /\ n = d * q + r
  BY DivNat
<1>2. a = IF 2 * r > d \/ (2 * r = d /\ q % 2 = 1) THEN q + 1 ELSE q
  BY DEF RoundHalfEven
<1> HIDE DEF q, r, a
<1>3. \/ a = q /\ 2 * r <= d
      \/ a = q + 1 /\ 2 * r >= d
  BY <1>1, <1>2
<1>4. CASE a = q /\ 2 * r <= d
  <2>1. a * d = d * q /\ d * q \in Nat
    BY <1>1, <1>4
  <2>2. Distance(a * d, n) = r
    BY <1>1, <2>1 DEF Distance
  <2> QED
    BY <1>1, <1>4, <2>2 DEF a
<1>5. CASE a = q + 1 /\ 2 * r >= d
  <2>1. a * d = d * q + d /\ d * q \in Nat
    BY <1>1, <1>5
  <2>2. Distance(a * d, n) = d - r
    BY <1>1, <2>1 DEF Distance
  <2> QED
    BY <1>1, <1>5, <2>2 DEF a
<1> QED
  BY <1>3, <1>4, <1>5

\* A hundred percent is some number of parts, and so are a unit and a paisa.
LEMMA Scales == Full \in Nat \ {0} /\ Unit \in Nat \ {0} /\ Paisa \in Nat \ {0}
<1>1. Percent \in Nat \ {0} /\ Unit \in Nat \ {0} /\ Paisa \in Nat \ {0}
  BY FiguresAssumption
<1>2. 100 * Percent \in Nat \ {0}
  BY ONLY <1>1
<1> QED
  BY <1>1, <1>2 DEF Full

LEMMA TimesGrows ==
  ASSUME NEW d \in Nat, NEW m \in Nat, NEW n \in Nat, m <= n
  PROVE  d * m \in Nat /\ d * n \in Nat /\ d * m <= d * n
<1> DEFINE k == n - m
<1>1. k \in Nat /\ n = m + k
  OBVIOUS
<1> HIDE DEF k
<1>2. d * n = d * m + d * k /\ d * m \in Nat /\ d * k \in Nat
  BY <1>1
<1> QED
  BY <1>2

\* A discount of at most 100 percent leaves between nothing and all of an amount,
\* and what it takes is the percentage to half a paisa.
LEMMA Discounts ==
  ASSUME NEW a \in Nat, NEW p \in 0 .. Full
  PROVE  /\ AfterDiscount(a, p) \in 0 .. a
         /\ 2 * Distance(Full * (a - AfterDiscount(a, p)), a * p) <= Full
<1> DEFINE d == Full
           e == d - p
           n == a * e
           q == AfterDiscount(a, p)
<1>1. d \in Nat \ {0} /\ p \in Nat /\ e \in Nat /\ d = e + p
  BY Scales
<1>2. q = Round(n, d)
  BY DEF AfterDiscount
<1> HIDE DEF d, e
<1>3. /\ n \in Nat /\ a * p \in Nat /\ d * a \in Nat
      /\ d * a = n + a * p
  BY <1>1
<1> HIDE DEF n, q
<1>4. q \in Nat /\ 2 * (d * q) - 2 * n \in -d .. d
  BY ONLY <1>1, <1>2, <1>3, Rounds
<1>5. d * q \in Nat
  BY <1>1, <1>4
<1>6. q <= a
  <2> SUFFICES ASSUME a + 1 <= q PROVE FALSE
    BY <1>4
  <2>1. a + 1 \in Nat /\ d \in Nat /\ q \in Nat
    BY <1>1, <1>4
  <2>2. d * (a + 1) <= d * q
    BY <2>1, TimesGrows
  <2>3. d * (a + 1) = d * a + d
    BY <1>1
  <2> QED
    BY <1>1, <1>3, <1>4, <1>5, <2>2, <2>3
<1>7. d * (a - q) = d * a - d * q
  BY <1>1, <1>4
<1>8. 2 * Distance(d * (a - q), a * p) <= d
  BY <1>1, <1>3, <1>4, <1>5, <1>7 DEF Distance
<1> QED
  BY <1>4, <1>6, <1>8 DEF q, d

\* The parts of a price that includes tax add up to it, and the tax is that of the
\* net to half a paisa of its rate.
LEMMA Inclusive ==
  ASSUME NEW a \in Nat, NEW g \in Nat
  PROVE  LET s == SplitInclusive(a, g) IN
         /\ s = <<s[1], s[2]>> /\ s[1] \in Nat /\ s[2] \in Int /\ s[1] + s[2] = a
         /\ 2 * Full * s[2] - 2 * s[1] * g \in -(Full + g) .. (Full + g)
<1> DEFINE f == Full
           d == f + g
           n == a * f
           q == Round(n, d)
<1>1. f \in Nat \ {0} /\ d \in Nat \ {0} /\ d = f + g
  BY Scales
<1>2. SplitInclusive(a, g) = <<q, a - q>>
  BY DEF SplitInclusive
<1> HIDE DEF f
<1>3. n \in Nat
  BY <1>1
<1> HIDE DEF n, d
<1>4. q \in Nat /\ 2 * (d * q) - 2 * n \in -d .. d
  BY <1>1, <1>3, Rounds
<1> HIDE DEF q
<1>5. d * q = f * q + q * g /\ q * g \in Nat /\ f * q \in Nat /\ n = f * a
  BY <1>1, <1>4 DEF n
<1>6. 2 * q * g = 2 * (q * g) /\ 2 * f * (a - q) = 2 * (f * a) - 2 * (f * q)
  BY <1>1, <1>4
<1>7. 2 * f * (a - q) - 2 * q * g \in -d .. d
  BY <1>1, <1>3, <1>4, <1>5, <1>6
<1> QED
  BY <1>1, <1>2, <1>4, <1>7 DEF f, d

\* Tax on top is its rate to half a paisa.
LEMMA Exclusive ==
  ASSUME NEW a \in Nat, NEW g \in Nat
  PROVE  /\ TaxOnExclusive(a, g) \in Nat
         /\ 2 * Full * TaxOnExclusive(a, g) - 2 * a * g \in -(Full + g) .. (Full + g)
<1> DEFINE f == Full
           n == a * g
           t == TaxOnExclusive(a, g)
<1>1. f \in Nat \ {0} /\ n \in Nat /\ t = Round(n, f)
  BY Scales DEF TaxOnExclusive
<1> HIDE DEF f, n, t
<1>2. t \in Nat /\ 2 * (f * t) - 2 * n \in -f .. f
  BY ONLY <1>1, Rounds
<1>3. 2 * f * t = 2 * (f * t) /\ f * t \in Nat /\ 2 * a * g = 2 * n
  BY <1>1, <1>2 DEF n
<1>4. 2 * f * t - 2 * a * g \in -(f + g) .. (f + g)
  BY <1>1, <1>2, <1>3
<1> QED
  BY <1>2, <1>4 DEF t, f

-----------------------------------------------------------------------------
(* Splitting a total.                                                      *)

\* The place of each line in the order in which pennies are handed out.
Places(rem) == [i \in DOMAIN rem |-> Cardinality(Ahead(rem, i))]

\* Whoever is ahead has a lower place, and no two lines share one.
LEMMA Placed ==
  ASSUME NEW n \in Nat, NEW rem \in [1 .. n -> Int]
  PROVE  /\ \A i \in 1 .. n : Places(rem)[i] \in 0 .. n - 1
         /\ \A i, j \in 1 .. n : i \in Ahead(rem, j) => Places(rem)[i] < Places(rem)[j]
         /\ \A i, j \in 1 .. n : Places(rem)[i] = Places(rem)[j] => i = j
<1> DEFINE D == 1 .. n
           A(i) == Ahead(rem, i)
           P(i) == Places(rem)[i]
<1>1. /\ IsFiniteSet(D) /\ Cardinality(D) = n
      /\ \A i \in D : rem[i] \in Int /\ i \in Int /\ P(i) = Cardinality(A(i))
  <2>1. IsFiniteSet(D) /\ Cardinality(D) = n
    <3>1. 1 \in Int /\ n \in Int /\ (IF 1 > n THEN 0 ELSE n - 1 + 1) = n
      OBVIOUS
    <3> QED
      BY <3>1, FS_Interval
  <2> QED
    BY <2>1 DEF Places
<1>2. \A i, j \in D : j \in A(i) <=> rem[j] > rem[i] \/ (rem[j] = rem[i] /\ j < i)
  BY DEF Ahead
<1>3. \A i \in D : A(i) \subseteq D \ {i}
  BY <1>1, <1>2 DEF Ahead
<1>4. \A i \in D : IsFiniteSet(A(i)) /\ P(i) \in 0 .. n - 1
  <2> SUFFICES ASSUME NEW i \in D PROVE IsFiniteSet(A(i)) /\ P(i) \in 0 .. n - 1
    OBVIOUS
  <2>1. IsFiniteSet(D \ {i}) /\ Cardinality(D \ {i}) = n - 1
    BY <1>1, FS_RemoveElement
  <2> HIDE DEF A, D
  <2>2. IsFiniteSet(A(i)) /\ Cardinality(A(i)) <= n - 1
    BY <1>3, <2>1, FS_Subset
  <2>3. Cardinality(A(i)) \in Nat
    BY <2>2, FS_CardinalityType
  <2> QED
    BY <1>1, <2>2, <2>3
<1>5. ASSUME NEW i \in D, NEW j \in D, i \in A(j) PROVE P(i) < P(j)
  <2>1. A(i) \cup {i} \subseteq A(j)
    <3> SUFFICES ASSUME NEW k \in A(i) PROVE k \in A(j)
      BY <1>5
    <3>1. k \in D
      BY <1>3
    <3> HIDE DEF A, D
    <3> QED
      BY <1>1, <1>2, <1>5, <3>1
  <2> HIDE DEF A, D
  <2>2. Cardinality(A(i) \cup {i}) = Cardinality(A(i)) + 1
    <3>1. i \notin A(i)
      BY <1>3
    <3> QED
      BY <1>4, <3>1, FS_AddElement
  <2>3. Cardinality(A(i) \cup {i}) <= Cardinality(A(j))
    BY <1>4, <2>1, FS_Subset
  <2> QED
    BY <1>1, <1>4, <2>2, <2>3
<1>6. ASSUME NEW i \in D, NEW j \in D, P(i) = P(j) PROVE i = j
  <2>1. i # j => i \in A(j) \/ j \in A(i)
    BY <1>1, <1>2
  <2> HIDE DEF A, P
  <2> QED
    BY <1>4, <1>5, <1>6, <2>1
<1> QED
  BY <1>4, <1>5, <1>6

Floors(total, weights) == [i \in DOMAIN weights |-> (total * weights[i]) \div SumFunction(weights)]
Rests(total, weights) == [i \in DOMAIN weights |-> (total * weights[i]) % SumFunction(weights)]
Pennies(total, weights) == total - SumFunction(Floors(total, weights))

\* The lines of a split.
LEMMA Lines ==
  ASSUME NEW weights \in Seq(Nat), weights # <<>>
  PROVE  /\ Len(weights) \in Nat \ {0} /\ DOMAIN weights = 1 .. Len(weights)
         /\ IsFiniteSet(DOMAIN weights) /\ Cardinality(DOMAIN weights) = Len(weights)
         /\ \A i \in DOMAIN weights : weights[i] \in Nat
         /\ SumFunction(weights) \in Nat
<1> DEFINE n == Len(weights)
<1>1. n \in Nat \ {0} /\ DOMAIN weights = 1 .. n /\ \A i \in DOMAIN weights : weights[i] \in Nat
  OBVIOUS
<1> HIDE DEF n
<1>2. IsFiniteSet(1 .. n) /\ Cardinality(1 .. n) = n
  <2>1. 1 \in Int /\ n \in Int /\ (IF 1 > n THEN 0 ELSE n - 1 + 1) = n
    BY <1>1
  <2> QED
    BY <2>1, FS_Interval
<1>3. SumFunction(weights) \in Nat
  BY <1>1, <1>2, SumNat DEF SumFunction
<1> QED
  BY <1>1, <1>2, <1>3 DEF n

\* Each share is rounded down by less than a penny.
LEMMA RoundedDown ==
  ASSUME NEW total \in Nat, NEW weights \in Seq(Nat), weights # <<>>, SumFunction(weights) > 0,
         NEW i \in DOMAIN weights
  PROVE  /\ Floors(total, weights)[i] \in Nat
         /\ Rests(total, weights)[i] \in 0 .. SumFunction(weights) - 1
         /\ total * weights[i] \in Nat
         /\ total * weights[i]
              = SumFunction(weights) * Floors(total, weights)[i] + Rests(total, weights)[i]
<1> DEFINE d == SumFunction(weights)
           n == total * weights[i]
           q == Floors(total, weights)[i]
           r == Rests(total, weights)[i]
<1>1. d \in Nat \ {0} /\ weights[i] \in Nat
  BY Lines
<1>2. n \in Nat
  BY <1>1
<1>3. q = n \div d /\ r = n % d
  BY DEF Floors, Rests
<1> HIDE DEF d, n, q, r
<1>4. q \in Nat /\ r \in 0 .. d - 1 /\ n = d * q + r
  BY <1>1, <1>2, <1>3, DivNat
<1> QED
  BY <1>2, <1>4 DEF d, n, q, r

\* There are pennies left, and no more than lines that were rounded down.
LEMMA PenniesLeft ==
  ASSUME NEW total \in Nat, NEW weights \in Seq(Nat), weights # <<>>, SumFunction(weights) > 0
  PROVE  /\ SumFunction(Floors(total, weights)) \in Int
         /\ Pennies(total, weights) \in 0 .. Len(weights)
         /\ Pennies(total, weights)
              <= Cardinality({i \in DOMAIN weights : Rests(total, weights)[i] > 0})
<1> DEFINE D == DOMAIN weights
           d == SumFunction(weights)
           floor == Floors(total, weights)
           rem == Rests(total, weights)
           p == Pennies(total, weights)
           F == SumFunctionOnSet(floor, D)
           R == SumFunctionOnSet(rem, D)
           Part == {i \in D : rem[i] > 0}
           m == Cardinality(Part)
           product == [i \in D |-> total * weights[i]]
           whole == [i \in D |-> d * floor[i]]
           cap == [i \in D |-> IF rem[i] > 0 THEN d - 1 ELSE 0]
<1>1. /\ d \in Nat \ {0} /\ IsFiniteSet(D) /\ Cardinality(D) = Len(weights) /\ Len(weights) \in Nat
      /\ d = SumFunctionOnSet(weights, D) /\ \A i \in D : weights[i] \in Int
  BY Lines DEF SumFunction
<1>2. \A i \in D : /\ floor[i] \in Int /\ rem[i] \in Int /\ rem[i] \in 0 .. d - 1
                   /\ total * weights[i] \in Int
                   /\ total * weights[i] = d * floor[i] + rem[i]
  <2> SUFFICES ASSUME NEW i \in D
               PROVE  /\ floor[i] \in Int /\ rem[i] \in Int /\ rem[i] \in 0 .. d - 1
                      /\ total * weights[i] \in Int
                      /\ total * weights[i] = d * floor[i] + rem[i]
    OBVIOUS
  <2>1. /\ floor[i] \in Nat /\ rem[i] \in 0 .. d - 1 /\ total * weights[i] \in Nat
        /\ total * weights[i] = d * floor[i] + rem[i]
    BY RoundedDown
  <2> HIDE DEF floor, rem, d
  <2> QED
    BY <1>1, <2>1
<1>3. SumFunction(floor) = F /\ p = total - F
  BY DEF SumFunction, Floors, Pennies
<1>4. \A i \in D : /\ product[i] = total * weights[i] /\ whole[i] = d * floor[i]
                   /\ cap[i] = IF rem[i] > 0 THEN d - 1 ELSE 0
  OBVIOUS
<1>5. IsFiniteSet(Part) /\ Part \in SUBSET D /\ m \in Nat /\ m <= Len(weights)
  <2>1. Part \in SUBSET D
    OBVIOUS
  <2> HIDE DEF Part, D
  <2> QED
    BY <1>1, <2>1, FS_Subset, FS_CardinalityType
<1>6. (\A i \in Part : cap[i] = d - 1) /\ \A i \in D \ Part : cap[i] = 0
  OBVIOUS
<1> HIDE DEF D, d, floor, rem, p, Part, product, whole, cap
<1>7. F \in Int /\ R \in Int
  BY <1>1, <1>2, SumInt
<1>8. SumFunctionOnSet(product, D) = total * d
  <2>1. total \in Int /\ \A i \in D : weights[i] \in Int /\ product[i] = total * weights[i]
    BY <1>1, <1>4
  <2>2. SumFunctionOnSet(product, D) = total * SumFunctionOnSet(weights, D)
    BY ONLY <1>1, <2>1, SumTimes
  <2> QED
    BY <1>1, <2>2
<1>9. SumFunctionOnSet(whole, D) = d * F
  BY <1>1, <1>2, <1>4, SumTimes
<1>10. SumFunctionOnSet(product, D) = SumFunctionOnSet(whole, D) + R
  <2>1. \A i \in D : whole[i] \in Int /\ rem[i] \in Int /\ product[i] = whole[i] + rem[i]
    <3> SUFFICES ASSUME NEW i \in D
                 PROVE  whole[i] \in Int /\ rem[i] \in Int /\ product[i] = whole[i] + rem[i]
      OBVIOUS
    <3>1. d * floor[i] \in Int
      BY <1>1, <1>2
    <3> QED
      BY <1>2, <1>4, <3>1
  <2> QED
    BY <1>1, <2>1, SumAdd
<1>11. SumFunctionOnSet(cap, D) = (d - 1) * m
  <2>1. d - 1 \in Int /\ \A i \in Part : cap[i] \in Int
    BY <1>1, <1>6
  <2>2. SumFunctionOnSet(cap, D) = SumFunctionOnSet(cap, Part)
    BY <1>1, <1>5, <1>6, <2>1, SumPart
  <2> QED
    BY <1>5, <1>6, <2>1, <2>2, SumConstant DEF m
<1>12. R <= SumFunctionOnSet(cap, D)
  <2>1. \A i \in D : rem[i] \in Int /\ cap[i] \in Int /\ rem[i] <= cap[i]
    BY <1>1, <1>2, <1>4
  <2> QED
    BY <1>1, <2>1, SumMonotone
<1>13. R >= 0
  <2>1. \A i \in D : rem[i] \in Nat
    BY <1>1, <1>2
  <2> QED
    BY <1>1, <2>1, SumNat
<1> HIDE DEF F, R, m
<1>14. p \in Int /\ R = d * p
  <2>1. total * d = d * F + R
    BY <1>8, <1>9, <1>10
  <2>2. d * (total - F) = total * d - d * F /\ d * F \in Int /\ total * d \in Int
    BY <1>1, <1>7
  <2> QED
    BY <1>3, <1>7, <2>1, <2>2
<1>15. p >= 0
  BY <1>1, <1>13, <1>14
<1>16. p <= m
  <2> SUFFICES ASSUME p >= m + 1 PROVE FALSE
    BY <1>5, <1>14
  <2>1. d * p >= d * (m + 1)
    BY <1>1, <1>5, <1>14
  <2>2. d * (m + 1) = d * m + d /\ (d - 1) * m = d * m - m /\ d * m \in Int /\ d * p \in Int
    BY <1>1, <1>5, <1>14
  <2>3. d * p <= (d - 1) * m
    BY <1>11, <1>12, <1>14
  <2> QED
    <3> DEFINE a == d * m
               e == d * p
    <3>1. /\ a \in Int /\ e \in Int /\ d \in Int /\ d > 0 /\ m \in Int /\ m >= 0
          /\ d * (m + 1) = a + d /\ (d - 1) * m = a - m /\ e >= d * (m + 1) /\ e <= (d - 1) * m
      BY <1>1, <1>5, <2>1, <2>2, <2>3
    <3> HIDE DEF a, e
    <3>2. e >= a + d /\ e <= a - m
      BY ONLY <3>1
    <3> QED
      BY ONLY <3>1, <3>2
<1>17. SumFunction(floor) \in Int /\ p \in 0 .. Len(weights)
  BY <1>1, <1>3, <1>5, <1>7, <1>14, <1>15, <1>16
<1> QED
  BY <1>16, <1>17 DEF D, p, m, floor, rem, Part

\* Who gets a penny was rounded down, and no line that was rounded down by more is
\* left out.
LEMMA PenniesServed ==
  ASSUME NEW total \in Nat, NEW weights \in Seq(Nat), weights # <<>>, SumFunction(weights) > 0,
         NEW i \in DOMAIN weights, Places(Rests(total, weights))[i] < Pennies(total, weights)
  PROVE  /\ Rests(total, weights)[i] > 0
         /\ \A j \in DOMAIN weights :
              ~(Places(Rests(total, weights))[j] < Pennies(total, weights)) =>
                 Rests(total, weights)[j] <= Rests(total, weights)[i]
<1> DEFINE n == Len(weights)
           rem == Rests(total, weights)
           p == Pennies(total, weights)
           Part == {j \in 1 .. n : rem[j] > 0}
<1>1. n \in Nat /\ DOMAIN weights = 1 .. n /\ IsFiniteSet(1 .. n)
  BY Lines
<1>2. rem \in [1 .. n -> Int]
  <2>1. \A j \in 1 .. n : rem[j] \in Int
    <3> SUFFICES ASSUME NEW j \in 1 .. n PROVE rem[j] \in Int
      OBVIOUS
    <3>1. SumFunction(weights) \in Nat /\ rem[j] \in 0 .. SumFunction(weights) - 1
      BY <1>1, Lines, RoundedDown
    <3> HIDE DEF rem
    <3> QED
      BY <3>1
  <2>2. rem = [j \in 1 .. n |-> rem[j]]
    BY <1>1 DEF Rests
  <2> HIDE DEF rem, n
  <2> QED
    BY <2>1, <2>2
<1>3. \A j \in 1 .. n : rem[j] >= 0
  <2> SUFFICES ASSUME NEW j \in 1 .. n PROVE rem[j] >= 0
    OBVIOUS
  <2>1. SumFunction(weights) \in Nat /\ rem[j] \in 0 .. SumFunction(weights) - 1
    BY <1>1, Lines, RoundedDown
  <2> HIDE DEF rem
  <2> QED
    BY <2>1
<1>4. p \in Int /\ p <= Cardinality(Part)
  <2>1. Part = {j \in DOMAIN weights : rem[j] > 0}
    BY <1>1
  <2>2. p \in 0 .. n /\ p <= Cardinality({j \in DOMAIN weights : rem[j] > 0})
    BY PenniesLeft
  <2> HIDE DEF Part, n, p
  <2> QED
    BY <1>1, <2>1, <2>2
<1>5. Places(rem)[i] < p /\ i \in 1 .. n
  BY <1>1
<1> HIDE DEF n, rem, p
<1>6. /\ \A k \in 1 .. n : Places(rem)[k] \in 0 .. n - 1
      /\ \A k, j \in 1 .. n : k \in Ahead(rem, j) => Places(rem)[k] < Places(rem)[j]
  BY <1>1, <1>2, Placed
<1>7. \A k, j \in 1 .. n : rem[k] > rem[j] => k \in Ahead(rem, j)
  BY <1>2 DEF Ahead
<1>8. rem[i] > 0
  <2> SUFFICES ASSUME ~(rem[i] > 0) PROVE FALSE
    OBVIOUS
  <2>1. rem[i] = 0
    BY <1>2, <1>3, <1>5
  <2>2. Part \subseteq Ahead(rem, i)
    BY <1>5, <1>7, <2>1
  <2>3. Ahead(rem, i) \subseteq 1 .. n
    BY <1>2 DEF Ahead
  <2>4. IsFiniteSet(Ahead(rem, i))
    BY <1>1, <2>3, FS_Subset
  <2> HIDE DEF Part
  <2>5. Cardinality(Part) <= Cardinality(Ahead(rem, i)) /\ IsFiniteSet(Part)
    BY <2>2, <2>4, FS_Subset
  <2>6. Cardinality(Part) \in Nat /\ Cardinality(Ahead(rem, i)) \in Nat
    BY <2>4, <2>5, FS_CardinalityType
  <2>7. Places(rem)[i] = Cardinality(Ahead(rem, i))
    BY <1>2, <1>5 DEF Places
  <2> QED
    BY <1>4, <1>5, <2>5, <2>6, <2>7
<1>9. ASSUME NEW j \in 1 .. n, ~(Places(rem)[j] < p) PROVE rem[j] <= rem[i]
  <2> SUFFICES ASSUME rem[j] > rem[i] PROVE FALSE
    BY <1>2, <1>5
  <2>1. Places(rem)[j] < Places(rem)[i]
    BY <1>5, <1>6, <1>7
  <2> QED
    BY <1>4, <1>5, <1>6, <1>9, <2>1
<1> QED
  BY <1>1, <1>8, <1>9 DEF rem, p

\* The share of each line when there is something to weigh.
LEMMA Shares ==
  ASSUME NEW total \in Nat, NEW weights \in Seq(Nat), weights # <<>>, SumFunction(weights) > 0
  PROVE  \A i \in DOMAIN weights :
           Allocate(total, weights)[i] =
             Floors(total, weights)[i]
               + (IF Places(Rests(total, weights))[i] < Pennies(total, weights) THEN 1 ELSE 0)
<1> DEFINE rem == [i \in DOMAIN weights |-> (total * weights[i]) % SumFunction(weights)]
<1>1. rem = Rests(total, weights)
  BY DEF Rests
<1> SUFFICES ASSUME NEW i \in DOMAIN weights
             PROVE  Allocate(total, weights)[i] =
                      Floors(total, weights)[i]
                        + (IF Places(rem)[i] < Pennies(total, weights) THEN 1 ELSE 0)
  BY <1>1
<1>2. SumFunction(weights) # 0
  BY Lines
<1>3. Places(rem)[i] = Cardinality(Ahead(rem, i))
  BY DEF Places
<1> HIDE DEF rem
<1>4. Allocate(total, weights)[i] =
        Floors(total, weights)[i]
          + (IF Cardinality(Ahead(rem, i)) < Pennies(total, weights) THEN 1 ELSE 0)
  BY <1>2, Zenon DEF Allocate, Floors, Pennies, rem
<1> QED
  BY <1>3, <1>4

\* The shares are amounts that add up to the total.
LEMMA SharesSum ==
  ASSUME NEW total \in Nat, NEW weights \in Seq(Nat), weights # <<>>
  PROVE  /\ \A i \in DOMAIN weights : Allocate(total, weights)[i] \in Nat
         /\ DOMAIN Allocate(total, weights) = DOMAIN weights
         /\ SumFunction(Allocate(total, weights)) = total
<1> DEFINE D == DOMAIN weights
           n == Len(weights)
           share == Allocate(total, weights)
<1>1. /\ n \in Nat \ {0} /\ D = 1 .. n /\ IsFiniteSet(D) /\ Cardinality(D) = n
      /\ SumFunction(weights) \in Nat
  BY Lines
<1>2. DOMAIN share = D
  BY Zenon DEF Allocate
<1>3. SumFunction(share) = SumFunctionOnSet(share, D)
  BY <1>2 DEF SumFunction
<1>4. CASE SumFunction(weights) = 0
  <2>1. \A i \in D : share[i] = IF i = 1 THEN total ELSE 0
    BY <1>4 DEF Allocate
  <2> HIDE DEF share, D
  <2>2. 1 \in D /\ \A i \in D : share[i] \in Nat /\ share[i] \in Int
    BY <1>1, <2>1
  <2>3. IsFiniteSet(D \ {1}) /\ \A i \in D \ {1} : share[i] = 0
    BY <1>1, <2>1, FS_RemoveElement
  <2>4. SumFunctionOnSet(share, D) = share[1] + SumFunctionOnSet(share, D \ {1})
    BY <1>1, <2>2, SumTakeOut
  <2>5. SumFunctionOnSet(share, D \ {1}) = 0
    BY <2>3, SumZero
  <2> QED
    BY <1>2, <1>3, <2>1, <2>2, <2>4, <2>5 DEF share, D
<1>5. CASE SumFunction(weights) # 0
  <2> DEFINE floor == Floors(total, weights)
             rem == Rests(total, weights)
             p == Pennies(total, weights)
             r == Places(rem)
             bonus == [i \in D |-> IF r[i] < p THEN 1 ELSE 0]
             Served == {i \in D : r[i] < p}
  <2>0. SumFunction(weights) > 0
    BY <1>1, <1>5
  <2>1. \A i \in D : share[i] = floor[i] + bonus[i]
    BY <2>0, Shares
  <2>2. \A i \in D : floor[i] \in Nat
    BY <2>0, RoundedDown
  <2>3. p \in 0 .. n /\ SumFunction(floor) \in Int /\ p = total - SumFunction(floor)
    <3>1. p \in 0 .. n /\ SumFunction(floor) \in Int
      BY <2>0, PenniesLeft
    <3> QED
      BY <3>1 DEF Pennies
  <2>4. SumFunction(floor) = SumFunctionOnSet(floor, D)
    BY DEF SumFunction, Floors
  <2>5. rem \in [1 .. n -> Int]
    <3>1. rem = [i \in 1 .. n |-> rem[i]]
      BY <1>1 DEF Rests
    <3>2. \A i \in 1 .. n : rem[i] \in Int
      <4> SUFFICES ASSUME NEW i \in 1 .. n PROVE rem[i] \in Int
        OBVIOUS
      <4>1. rem[i] \in 0 .. SumFunction(weights) - 1
        BY <1>1, <2>0, RoundedDown
      <4> HIDE DEF rem
      <4> QED
        BY <1>1, <4>1
    <3> HIDE DEF rem, n
    <3> QED
      BY <3>1, <3>2
  <2>6. \A i \in D : /\ bonus[i] \in {0, 1}
                     /\ (i \in Served => bonus[i] = 1) /\ (i \notin Served => bonus[i] = 0)
    OBVIOUS
  <2>7. Served \in SUBSET D
    OBVIOUS
  <2> HIDE DEF rem, n
  <2>8. /\ \A i \in 1 .. n : r[i] \in 0 .. n - 1
        /\ \A i, j \in 1 .. n : r[i] = r[j] => i = j
    BY <1>1, <2>5, Placed
  <2> HIDE DEF r, p, D
  <2>9. Cardinality(Served) = p
    <3>1. \A i \in D : r[i] \in 0 .. Cardinality(D) - 1
      BY <1>1, <2>8
    <3>2. p \in 0 .. Cardinality(D)
      BY <1>1, <2>3
    <3>3. \A i, j \in D : r[i] = r[j] => i = j
      BY <1>1, <2>8
    <3>4. IsFiniteSet(D) /\ Served = {i \in D : r[i] < p}
      BY <1>1 DEF Served
    <3> HIDE DEF Served
    <3> QED
      BY ONLY <3>1, <3>2, <3>3, <3>4, FirstPlaces
  <2> HIDE DEF Served, bonus, share, floor
  <2>10. SumFunctionOnSet(bonus, D) = p
    <3>1. IsFiniteSet(Served) /\ \A i \in Served : bonus[i] \in Int /\ bonus[i] = 1
      <4>1. IsFiniteSet(Served)
        BY <1>1, <2>7, FS_Subset
      <4>2. \A i \in Served : i \in D
        BY <2>7
      <4> QED
        BY <2>6, <4>1, <4>2
    <3>2. \A i \in D \ Served : bonus[i] = 0
      BY <2>6
    <3>3. SumFunctionOnSet(bonus, D) = SumFunctionOnSet(bonus, Served)
      BY <1>1, <2>7, <3>1, <3>2, SumPart
    <3>4. SumFunctionOnSet(bonus, Served) = 1 * Cardinality(Served)
      <4>1. 1 \in Int /\ \A i \in Served : bonus[i] = 1
        BY <3>1
      <4> QED
        BY <3>1, <4>1, SumConstant
    <3> QED
      BY <2>3, <2>9, <3>3, <3>4
  <2>11. SumFunctionOnSet(share, D) = SumFunctionOnSet(floor, D) + SumFunctionOnSet(bonus, D)
    <3>1. \A i \in D : floor[i] \in Int /\ bonus[i] \in Int /\ share[i] = floor[i] + bonus[i]
      BY <2>1, <2>2, <2>6
    <3> QED
      BY <1>1, <3>1, SumAdd
  <2>12. \A i \in D : share[i] \in Nat
    BY <2>1, <2>2, <2>6
  <2>13. SumFunctionOnSet(share, D) = total
    BY <2>3, <2>4, <2>10, <2>11
  <2> QED
    BY <1>2, <1>3, <2>12, <2>13 DEF share, D
<1> QED
  BY <1>4, <1>5

\* A share is off by less than a penny, and pennies go where most was rounded off.
LEMMA SharesFair ==
  ASSUME NEW total \in Nat, NEW weights \in Seq(Nat), weights # <<>>, SumFunction(weights) > 0,
         NEW share, share = Allocate(total, weights),
         NEW i \in DOMAIN weights, NEW j \in DOMAIN weights
  PROVE  LET d == SumFunction(weights)
             over(k) == d * share[k] - total * weights[k]
         IN /\ Distance(d * share[i], total * weights[i]) < d
            /\ over(i) > 0 /\ over(j) < 0 => over(i) - over(j) <= d
<1> DEFINE d == SumFunction(weights)
           floor == Floors(total, weights)
           rem == Rests(total, weights)
           p == Pennies(total, weights)
           r == Places(rem)
           over(k) == d * share[k] - total * weights[k]
<1>1. d \in Nat \ {0}
  BY Lines
<1>2. \A k \in {i, j} : /\ floor[k] \in Nat /\ rem[k] \in 0 .. d - 1
                        /\ total * weights[k] \in Nat /\ total * weights[k] = d * floor[k] + rem[k]
  BY RoundedDown
<1>3. \A k \in {i, j} : share[k] = floor[k] + (IF r[k] < p THEN 1 ELSE 0)
  BY Shares
<1>4. \A k \in {i, j} : r[k] < p => rem[k] > 0
  BY PenniesServed
<1>5. r[i] < p /\ ~(r[j] < p) => rem[j] <= rem[i]
  BY PenniesServed
<1> DEFINE Over(k) == IF r[k] < p THEN d - rem[k] ELSE -rem[k]
<1>6. ASSUME NEW k \in {i, j}
      PROVE  /\ d * share[k] \in Int /\ total * weights[k] \in Int
             /\ over(k) = Over(k)
  <2> HIDE DEF d, floor, rem, p, r
  <2>a. floor[k] \in Nat
    BY <1>2, Zenon
  <2>b. share[k] = floor[k] + (IF r[k] < p THEN 1 ELSE 0)
    BY <1>3, Zenon
  <2>1. CASE r[k] < p
    <3>1. share[k] = floor[k] + 1 /\ floor[k] \in Int
      BY ONLY <2>a, <2>b, <2>1
    <3> DEFINE f == floor[k]
               w == total * weights[k]
    <3>2. f \in Int /\ share[k] = f + 1 /\ w \in Int /\ w = d * f + rem[k] /\ rem[k] \in Int
      BY ONLY <1>2, <3>1 DEF f, w
    <3> HIDE DEF f, w
    <3>3. d * share[k] = d * f + d /\ d * f \in Int
      BY ONLY <1>1, <3>2
    <3>4. d * share[k] - w = d - rem[k]
      BY ONLY <1>1, <3>2, <3>3
    <3> QED
      BY <1>1, <2>1, <3>2, <3>3, <3>4 DEF w
  <2>2. CASE ~(r[k] < p)
    <3>1. share[k] = floor[k] /\ floor[k] \in Int
      BY ONLY <2>a, <2>b, <2>2
    <3> DEFINE f == floor[k]
               w == total * weights[k]
    <3>2. f \in Int /\ share[k] = f /\ w \in Int /\ w = d * f + rem[k] /\ rem[k] \in Int
      BY <1>2, <3>1
    <3> HIDE DEF f, w
    <3>3. d * share[k] = d * f /\ d * f \in Int
      BY ONLY <1>1, <3>2
    <3>4. d * share[k] - w = -rem[k]
      BY ONLY <1>1, <3>2, <3>3
    <3> QED
      BY <1>1, <2>2, <3>2, <3>3, <3>4 DEF w
  <2> QED
    BY <2>1, <2>2
<1> DEFINE x == d * share[i]
           y == total * weights[i]
<1>7. x \in Int /\ y \in Int /\ x - y = Over(i)
  BY <1>6
<1>8. ASSUME NEW k \in {i, j} PROVE rem[k] \in 0 .. d - 1 /\ Over(k) \in Int
  <2>1. rem[k] \in 0 .. d - 1
    BY <1>2
  <2> HIDE DEF rem, d, r, p
  <2> QED
    BY <1>1, <2>1
<1>9. Distance(x, y) < d
  <2> DEFINE e == rem[i]
             v == Over(i)
  <2>1. /\ d \in Int /\ e \in Int /\ 0 <= e /\ e < d
        /\ r[i] < p => e > 0
        /\ v = IF r[i] < p THEN d - e ELSE -e
    <3> HIDE DEF d, rem, r, p
    <3> QED
      BY <1>1, <1>4, <1>8
  <2> HIDE DEF x, y, d, e, v
  <2>2. v \in Int /\ v < d /\ -v < d
    BY ONLY <2>1
  <2>3. x \in Int /\ y \in Int /\ x - y = v
    BY <1>7 DEF v
  <2> QED
    BY ONLY <2>1, <2>2, <2>3 DEF Distance
<1>10. over(i) > 0 /\ over(j) < 0 => over(i) - over(j) <= d
  <2>1. over(i) = Over(i) /\ over(j) = Over(j)
    BY <1>6
  <2>2. Over(i) > 0 /\ Over(j) < 0 => Over(i) - Over(j) <= d
    <3> DEFINE a == rem[i]
               b == rem[j]
    <3>1. d \in Int /\ a \in Int /\ b \in Int /\ 0 <= a /\ 0 <= b /\ b < d
      <4> HIDE DEF d, rem, r, p
      <4> QED
        BY <1>1, <1>8
    <3>2. r[i] < p /\ ~(r[j] < p) => b <= a
      BY <1>5
    <3>3. Over(i) = (IF r[i] < p THEN d - a ELSE -a) /\ Over(j) = IF r[j] < p THEN d - b ELSE -b
      OBVIOUS
    <3> HIDE DEF d, rem, r, p, a, b, Over
    <3> QED
      BY ONLY <3>1, <3>2, <3>3
  <2> HIDE DEF over, Over, d
  <2> QED
    BY <2>1, <2>2
<1> QED
  BY <1>9, <1>10 DEF x, y, d, over

-----------------------------------------------------------------------------
(* Landed cost.                                                            *)

\* Goods and overheads end in landed costs, and a unit cost is off by rounding alone.
LEMMA LandedRight ==
  ASSUME NEW lines \in Seq(ReceivedLines), lines # <<>>, NEW overhead \in Nat,
         NEW cost, cost = LandedCost(lines, overhead)
  PROVE  /\ SumFunction([i \in DOMAIN lines |-> cost[i].landed])
              = SumFunction([i \in DOMAIN lines |-> NetValue(lines[i])]) + overhead
         /\ \A i \in DOMAIN lines :
              2 * Distance(cost[i].unit * (lines[i].billed + lines[i].free),
                           100 * Unit * cost[i].landed) <= lines[i].billed + lines[i].free
<1> DEFINE n == Len(lines)
           D == DOMAIN lines
           net == [i \in D |-> NetValue(lines[i])]
           share == Allocate(overhead, net)
           landed == [i \in D |-> cost[i].landed]
<1>1. n \in Nat \ {0} /\ D = 1 .. n /\ \A i \in D : lines[i] \in ReceivedLines
  OBVIOUS
<1>2. \A i \in D : /\ lines[i].billed \in Nat \ {0} /\ lines[i].free \in Nat
                   /\ lines[i].rate \in Nat
                   /\ lines[i].trade \in 0 .. Full /\ lines[i].cash \in 0 .. Full
  BY <1>1 DEF ReceivedLines
<1>3. \A i \in D : NetValue(lines[i]) \in Nat
  <2> SUFFICES ASSUME NEW i \in D PROVE NetValue(lines[i]) \in Nat
    OBVIOUS
  <2> DEFINE value == lines[i].rate * lines[i].billed
             scale == Paisa * Unit
             gross == Round(value, scale)
             trade == lines[i].trade
             cash == lines[i].cash
             less == AfterDiscount(gross, trade)
  <2>1. value \in Nat /\ trade \in 0 .. Full /\ cash \in 0 .. Full
    BY <1>2
  <2>2. scale \in Nat \ {0}
    <3>1. Paisa \in Nat \ {0} /\ Unit \in Nat \ {0}
      BY Scales
    <3> QED
      BY ONLY <3>1, Z3
  <2>3. NetValue(lines[i]) = AfterDiscount(less, cash)
    BY DEF NetValue
  <2> HIDE DEF value, scale, trade, cash
  <2>4. gross \in Nat
    BY ONLY <2>1, <2>2, Rounds
  <2> HIDE DEF gross
  <2>5. less \in 0 .. gross
    BY <2>1, <2>4, Discounts
  <2>6. less \in Nat
    BY <2>4, <2>5
  <2> HIDE DEF less
  <2>7. AfterDiscount(less, cash) \in 0 .. less
    BY <2>1, <2>6, Discounts
  <2> QED
    BY <2>3, <2>6, <2>7
<1>4. net \in Seq(Nat) /\ net # <<>> /\ DOMAIN net = D
  <2>1. net \in [1 .. n -> Nat]
    BY <1>1, <1>3
  <2>2. net \in Seq(Nat) /\ Len(net) = n
    <3> HIDE DEF net, n
    <3> QED
      BY <1>1, <2>1
  <2> HIDE DEF n
  <2> QED
    BY <1>1, <2>2
<1>5. \A i \in D : /\ cost[i].landed = net[i] + share[i]
                   /\ cost[i].unit = RoundHalfEven(100 * Unit * (net[i] + share[i]),
                                                   lines[i].billed + lines[i].free)
  BY Zenon DEF LandedCost, UnitCost
<1>6. \A i \in D : net[i] = NetValue(lines[i]) /\ landed[i] = cost[i].landed
  OBVIOUS
<1> HIDE DEF net
<1>7. (\A i \in D : share[i] \in Nat) /\ DOMAIN share = D /\ SumFunction(share) = overhead
  BY <1>4, SharesSum
<1>8. IsFiniteSet(D) /\ SumFunction(net) = SumFunctionOnSet(net, D)
      /\ SumFunction(share) = SumFunctionOnSet(share, D)
  BY <1>4, <1>7, Lines DEF SumFunction
<1>9. SumFunction(landed) = SumFunctionOnSet(landed, D)
  BY DEF SumFunction
<1> HIDE DEF share, landed, D
<1>10. SumFunctionOnSet(landed, D) = SumFunctionOnSet(net, D) + SumFunctionOnSet(share, D)
  <2>1. \A i \in D : net[i] \in Int /\ share[i] \in Int /\ landed[i] = net[i] + share[i]
    BY <1>3, <1>5, <1>6, <1>7
  <2> QED
    BY <1>8, <2>1, SumAdd
<1>11. ASSUME NEW i \in D
       PROVE  2 * Distance(cost[i].unit * (lines[i].billed + lines[i].free),
                           100 * Unit * cost[i].landed) <= lines[i].billed + lines[i].free
  <2> DEFINE m == 100 * Unit * (net[i] + share[i])
             d == lines[i].billed + lines[i].free
  <2>1. m \in Nat /\ d \in Nat \ {0}
    <3>1. net[i] \in Nat /\ share[i] \in Nat /\ Unit \in Nat
      BY <1>3, <1>6, <1>7, Scales
    <3>2. lines[i].billed \in Nat \ {0} /\ lines[i].free \in Nat
      BY <1>2
    <3>3. net[i] + share[i] \in Nat
      BY ONLY <3>1
    <3>4. m \in Nat
      BY ONLY <3>1, <3>3
    <3>5. d \in Nat \ {0}
      BY ONLY <3>2
    <3> QED
      BY <3>4, <3>5
  <2>2. cost[i].unit = RoundHalfEven(m, d) /\ 100 * Unit * cost[i].landed = m
    BY <1>5
  <2> HIDE DEF m
  <2>3. 2 * Distance(RoundHalfEven(m, d) * d, m) <= d
    <3> HIDE DEF d
    <3> QED
      BY <2>1, RoundsEven
  <2> QED
    BY <2>2, <2>3
<1>12. SumFunction(landed) = SumFunction(net) + overhead
  BY <1>7, <1>8, <1>9, <1>10
<1> QED
  BY <1>11, <1>12 DEF landed, net, D

-----------------------------------------------------------------------------
(* Prices.                                                                 *)

\* A finite set of slabs has one of the highest threshold.
LEMMA DeepestSlab ==
  ASSUME NEW slabs, IsFiniteSet(slabs), slabs \subseteq [from : Nat, price : Nat], NEW qty \in Nat,
         NEW reached, reached = {s \in slabs : qty >= s.from}, reached # {}
  PROVE  /\ BestSlab(slabs, qty) \in reached
         /\ \A t \in reached : t.from <= BestSlab(slabs, qty).from
<1> DEFINE Deeper(s) == {t \in reached : t.from > s.from}
           Sets == {Deeper(s) : s \in reached}
<1>1. IsFiniteSet(reached) /\ \A s \in reached : s.from \in Nat
  <2>1. reached \in SUBSET slabs
    OBVIOUS
  <2> QED
    BY <2>1, FS_Subset
<1>2. \E s \in reached : \A t \in reached : s.from >= t.from
  <2>1. PICK T \in Sets : \A U \in Sets : U \subseteq T => U = T
    <3>1. Sets \subseteq SUBSET reached
      OBVIOUS
    <3>2. Sets # {}
      <4>1. PICK s \in reached : TRUE
        OBVIOUS
      <4>2. Deeper(s) \in Sets
        BY <4>1
      <4> HIDE DEF Sets, Deeper
      <4> QED
        BY <4>2
    <3> HIDE DEF Sets
    <3> QED
      BY <1>1, <3>1, <3>2, SmallestSubset
  <2>2. PICK s \in reached : T = Deeper(s)
    BY <2>1
  <2>3. ASSUME NEW t \in reached, ~(s.from >= t.from) PROVE FALSE
    <3>1. t \in Deeper(s) /\ t \notin Deeper(t)
      BY <1>1, <2>3
    <3>2. Deeper(t) \subseteq Deeper(s)
      BY <1>1, <2>3
    <3>3. Deeper(t) \in Sets
      OBVIOUS
    <3> HIDE DEF Deeper, Sets
    <3> QED
      BY <2>1, <2>2, <3>1, <3>2, <3>3
  <2> QED
    BY <2>3
<1>3. BestSlab(slabs, qty) = CHOOSE s \in reached : \A t \in reached : s.from >= t.from
  BY DEF BestSlab
<1> DEFINE best == CHOOSE s \in reached : \A t \in reached : s.from >= t.from
<1>4. best \in reached /\ \A t \in reached : best.from >= t.from
  BY <1>2
<1> HIDE DEF best
<1> QED
  BY <1>1, <1>3, <1>4 DEF best

\* What is known of the arguments of price_line.
LEMMA PriceFields ==
  ASSUME NEW c \in PriceCalls
  PROVE  /\ c.kind = "price" /\ c.qty \in Nat \ {0} /\ c.retail \in Nat /\ c.mrp \in Nat
         /\ c.wholesale \in Nat \cup {-1} /\ c.contract \in Nat \cup {-1}
         /\ c.listed \in Nat \cup {-1} /\ c.discount \in 0 .. Full
         /\ c.slabs \subseteq [from : Nat, price : Nat] /\ c.gst \in Nat /\ c.inclusive \in BOOLEAN
BY DEF PriceCalls

\* Some price is found, the deepest slab's if nothing was agreed with the customer.
LEMMA PriceFound ==
  ASSUME NEW c \in PriceCalls, IsFiniteSet(c.slabs)
  PROVE  /\ UnitPrice(c) \in Nat
         /\ c.contract < 0 /\ c.listed < 0 =>
              LET reached == {s \in c.slabs : c.qty >= s.from} IN
              reached # {} => \E s \in reached : /\ \A t \in reached : t.from <= s.from
                                                 /\ UnitPrice(c) = s.price
<1> DEFINE reached == {s \in c.slabs : c.qty >= s.from}
           best == BestSlab(c.slabs, c.qty)
<1>1. /\ c.contract \in Nat \cup {-1} /\ c.listed \in Nat \cup {-1} /\ c.wholesale \in Nat \cup {-1}
      /\ c.retail \in Nat /\ c.mrp \in Nat
  BY PriceFields
<1>2. reached # {} => /\ best \in reached /\ best.price \in Nat
                      /\ \A t \in reached : t.from <= best.from
  <2>1. c.qty \in Nat /\ c.slabs \subseteq [from : Nat, price : Nat]
    BY PriceFields
  <2>2. reached # {} => best \in reached /\ \A t \in reached : t.from <= best.from
    BY <2>1, DeepestSlab
  <2>3. reached \subseteq [from : Nat, price : Nat]
    BY <2>1
  <2> HIDE DEF reached, best
  <2> QED
    BY <2>2, <2>3
<1>3. CASE c.contract >= 0
  <2>1. UnitPrice(c) = c.contract
    BY <1>1, <1>3 DEF UnitPrice
  <2> QED
    BY <1>1, <1>3, <2>1
<1>4. CASE c.contract < 0 /\ c.listed >= 0
  <2>1. UnitPrice(c) = c.listed
    BY <1>1, <1>4 DEF UnitPrice
  <2> QED
    BY <1>1, <1>4, <2>1
<1>5. CASE c.contract < 0 /\ c.listed < 0 /\ reached # {}
  <2>1. UnitPrice(c) = best.price
    BY <1>1, <1>5 DEF UnitPrice
  <2> HIDE DEF best
  <2> QED
    BY <1>2, <1>5, <2>1
<1>6. CASE c.contract < 0 /\ c.listed < 0 /\ reached = {}
  <2>1. UnitPrice(c) = IF c.wholesale >= 0 /\ c.from >= 0 /\ c.qty >= c.from THEN c.wholesale
                       ELSE IF c.retail > 0 THEN c.retail ELSE c.mrp
    BY <1>1, <1>6 DEF UnitPrice
  <2>2. c.wholesale >= 0 => c.wholesale \in Nat
    BY <1>1
  <2> QED
    BY <1>1, <1>6, <2>1, <2>2
<1>7. (c.contract >= 0 \/ c.contract < 0) /\ (c.listed >= 0 \/ c.listed < 0)
  BY <1>1
<1> QED
  BY <1>3, <1>4, <1>5, <1>6, <1>7

\* The parts of a priced line.
LEMMA PriceRight ==
  ASSUME NEW c \in PriceCalls, IsFiniteSet(c.slabs), NEW r, r = PriceLine(c)
  PROVE  /\ 2 * Distance(Unit * r.gross, UnitPrice(c) * c.qty) <= Unit
         /\ r.discount \in 0 .. r.gross
         /\ 2 * Distance(Full * r.discount, r.gross * c.discount) <= Full
         /\ 2 * Full * r.tax - 2 * r.net * c.gst \in -(Full + c.gst) .. (Full + c.gst)
         /\ r.gross - r.discount = IF c.inclusive THEN r.total ELSE r.net
         /\ r.total = r.net + r.tax
         /\ r.gross = Round(UnitPrice(c) * c.qty, Unit)
<1> DEFINE exact == UnitPrice(c) * c.qty
           gross == Round(exact, Unit)
           off == c.discount
           after == AfterDiscount(gross, off)
           g == c.gst
           split == IF c.inclusive THEN SplitInclusive(after, g)
                    ELSE <<after, TaxOnExclusive(after, g)>>
<1>1. r = [gross |-> gross, discount |-> gross - after, net |-> split[1], tax |-> split[2],
           total |-> split[1] + split[2]]
  BY Zenon DEF PriceLine
<1>2. exact \in Nat /\ off \in 0 .. Full /\ g \in Nat /\ c.inclusive \in BOOLEAN /\ Unit \in Nat \ {0}
  BY PriceFields, PriceFound, Scales
<1> HIDE DEF exact, off
<1>3. gross \in Nat /\ 2 * (Unit * gross) - 2 * exact \in -Unit .. Unit
  BY <1>2, Rounds
<1> HIDE DEF gross
<1>4. after \in 0 .. gross /\ 2 * Distance(Full * (gross - after), gross * off) <= Full
  BY <1>2, <1>3, Discounts
<1> HIDE DEF after, g
<1>5. after \in Nat /\ gross - after \in 0 .. gross /\ gross - (gross - after) = after
  BY <1>3, <1>4
<1>6. /\ 2 * Full * split[2] - 2 * split[1] * g \in -(Full + g) .. (Full + g)
      /\ after = IF c.inclusive THEN split[1] + split[2] ELSE split[1]
  <2>1. CASE c.inclusive
    BY <1>2, <1>5, <2>1, Inclusive
  <2>2. CASE ~c.inclusive
    <3>1. split[1] = after /\ split[2] = TaxOnExclusive(after, g)
      BY <2>2
    <3> HIDE DEF split
    <3> QED
      BY <1>2, <1>5, <2>2, <3>1, Exclusive
  <2> QED
    BY <2>1, <2>2
<1> HIDE DEF split
<1>7. /\ r.gross = gross /\ r.discount = gross - after /\ r.net = split[1] /\ r.tax = split[2]
      /\ r.total = split[1] + split[2]
  BY <1>1
<1>8. r.gross - r.discount = after
  BY <1>5, <1>7
<1>9. 2 * Distance(Unit * gross, exact) <= Unit
  <2>1. Unit * gross \in Nat
    BY <1>2, <1>3
  <2> QED
    BY <1>2, <1>3, <2>1 DEF Distance
<1> QED
  BY <1>4, <1>5, <1>6, <1>7, <1>8, <1>9 DEF g, gross, exact, off

\* Rounding down shows all the whole units there are, and no more.
LEMMA DisplayRight ==
  ASSUME NEW base \in Nat, NEW factor \in Nat \ {0}, NEW q, q = ToDisplay(base, factor)
  PROVE  ToBase(q, factor) <= FactorParts * base /\ ToBase(q + 1, factor) > FactorParts * base
<1> DEFINE n == FactorParts * base
           m == n % factor
<1>1. n \in Nat /\ q = n \div factor
  BY DEF ToDisplay, FactorParts
<1> HIDE DEF n
<1>2. q \in Nat /\ m \in 0 .. factor - 1 /\ n = factor * q + m
  BY <1>1, DivNat
<1> HIDE DEF m
<1>3. q * factor = factor * q /\ (q + 1) * factor = factor * q + factor /\ factor * q \in Nat
  BY <1>2
<1> QED
  BY <1>2, <1>3 DEF ToBase, n

-----------------------------------------------------------------------------
(* The calls.                                                              *)

\* A call is answered once, by what the code computes.
FiguresInv == asked \in Call /\ answer \in {<<>>, <<Compute(asked)>>}

\* Whatever is asked, the answer is what the operators above compute of it.
THEOREM FiguresComputed == FiguresSpec => []FiguresInv
<1>1. FiguresInit => FiguresInv
  BY DEF FiguresInit, FiguresInv
<1>2. FiguresInv /\ [Answer]_<<asked, answer>> => FiguresInv'
  BY DEF FiguresInv, Answer
<1> QED
  BY <1>1, <1>2, PTL DEF FiguresSpec

\* What a call has returned.
LEMMA AnswerIs ==
  ASSUME FiguresInv, NEW kind, Answered(kind)
  PROVE  answer[1] = Compute(asked) /\ asked \in Call /\ asked.kind = kind
BY DEF FiguresInv, Answered

\* No paisa of a total is lost or made when it is split over any number of lines,
\* each share is less than a penny from its exact part, and the pennies go where
\* most was rounded off (decimal.py:72-74); goods and overheads all end in the
\* landed cost of some line, and unit costs are off by rounding alone
\* (landed_cost.py:82-90).
THEOREM NothingLostInSplits == FiguresSpec => []SplitsLoseNothing
<1>1. ASSUME FiguresInv PROVE SharesAddUp
  <2> SUFFICES ASSUME Answered("allocate") PROVE SharesAddUp
    BY DEF SharesAddUp
  <2> DEFINE share == answer[1]
  <2>1. share = Compute(asked) /\ asked \in Call /\ asked.kind = "allocate"
    BY <1>1, AnswerIs
  <2>2. asked \in AllocateCalls
    BY <2>1, FiguresAssumption DEF PriceCalls, LandedCalls, DisplayCalls
  <2>3. asked.total \in Nat /\ asked.weights \in Seq(Nat) /\ asked.weights # <<>>
    BY <2>2 DEF AllocateCalls
  <2>4. share = Allocate(asked.total, asked.weights)
    BY <2>1 DEF Compute
  <2> HIDE DEF share
  <2>5. SumFunction(share) = asked.total /\ DOMAIN share = DOMAIN asked.weights
    BY <2>3, <2>4, SharesSum
  <2> DEFINE sum == SumFunction(asked.weights)
             over(k) == sum * share[k] - asked.total * asked.weights[k]
  <2>6. ASSUME sum > 0, NEW i \in DOMAIN share, NEW j \in DOMAIN share
        PROVE  /\ Distance(sum * share[i], asked.total * asked.weights[i]) < sum
               /\ over(i) > 0 /\ over(j) < 0 => over(i) - over(j) <= sum
    BY <2>3, <2>4, <2>5, <2>6, SharesFair
  <2> QED
    BY <2>5, <2>6 DEF SharesAddUp, share
<1>2. ASSUME FiguresInv PROVE LandedCostCoversAll
  <2> SUFFICES ASSUME Answered("landed") PROVE LandedCostCoversAll
    BY DEF LandedCostCoversAll
  <2> DEFINE cost == answer[1]
             lines == asked.lines
  <2>1. cost = Compute(asked) /\ asked \in Call /\ asked.kind = "landed"
    BY <1>2, AnswerIs
  <2>2. asked \in LandedCalls
    BY <2>1, FiguresAssumption DEF PriceCalls, AllocateCalls, DisplayCalls
  <2>3. lines \in Seq(ReceivedLines) /\ lines # <<>> /\ asked.overhead \in Nat
    BY <2>2 DEF LandedCalls
  <2>4. cost = LandedCost(lines, asked.overhead)
    BY <2>1 DEF Compute
  <2>5. /\ SumFunction([i \in DOMAIN lines |-> cost[i].landed])
              = SumFunction([i \in DOMAIN lines |-> NetValue(lines[i])]) + asked.overhead
        /\ \A i \in DOMAIN lines :
              2 * Distance(cost[i].unit * (lines[i].billed + lines[i].free),
                           100 * Unit * cost[i].landed) <= lines[i].billed + lines[i].free
    <3> HIDE DEF cost, lines
    <3> QED
      BY <2>3, <2>4, LandedRight
  <2> QED
    BY <2>5 DEF LandedCostCoversAll
<1> QED
  BY <1>1, <1>2, FiguresComputed, PTL DEF SplitsLoseNothing

\* Whatever the fraction of a unit that is sold and whatever the rates: the gross
\* is price times quantity, the discount its percentage and the tax its rate, each
\* to half a paisa, the parts add up to the paisa, a price that includes tax is
\* charged as printed, and the deepest threshold that is reached sets the price
\* (engine.py:107-150); the stock that is shown is there, and no part of it that
\* could be shown is hidden (conversion.py:41-54).
THEOREM FiguresAtTheCounter == FiguresSpec => []CounterFiguresRight
<1>1. ASSUME FiguresInv PROVE PriceAddsUp /\ DeepestSlabPrices
  <2> SUFFICES ASSUME Answered("price") PROVE PriceAddsUp /\ DeepestSlabPrices
    BY DEF PriceAddsUp, DeepestSlabPrices
  <2> DEFINE r == answer[1]
             c == asked
  <2>1. r = Compute(c) /\ c \in Call /\ c.kind = "price"
    BY <1>1, AnswerIs
  <2>2. c \in PriceCalls /\ IsFiniteSet(c.slabs)
    BY <2>1, FiguresAssumption DEF AllocateCalls, LandedCalls, DisplayCalls
  <2>3. r = PriceLine(c)
    BY <2>1 DEF Compute
  <2> HIDE DEF r, c
  <2>4. /\ 2 * Distance(Unit * r.gross, UnitPrice(c) * c.qty) <= Unit
        /\ r.discount \in 0 .. r.gross
        /\ 2 * Distance(Full * r.discount, r.gross * c.discount) <= Full
        /\ 2 * Full * r.tax - 2 * r.net * c.gst \in -(Full + c.gst) .. (Full + c.gst)
        /\ r.gross - r.discount = IF c.inclusive THEN r.total ELSE r.net
        /\ r.total = r.net + r.tax
        /\ r.gross = Round(UnitPrice(c) * c.qty, Unit)
    BY <2>2, <2>3, PriceRight
  <2>5. PriceAddsUp
    BY <2>4 DEF PriceAddsUp, r, c
  <2> DEFINE reached == {s \in c.slabs : c.qty >= s.from}
  <2>6. ASSUME c.contract < 0, c.listed < 0, reached # {}
        PROVE  \E s \in reached : /\ \A t \in reached : t.from <= s.from
                                  /\ r.gross = Round(s.price * c.qty, Unit)
    <3>1. \E s \in reached : /\ \A t \in reached : t.from <= s.from
                             /\ UnitPrice(c) = s.price
      BY <2>2, <2>6, PriceFound
    <3> QED
      BY <2>4, <3>1
  <2>7. DeepestSlabPrices
    BY <2>6, Zenon DEF DeepestSlabPrices, r, c
  <2> QED
    BY <2>5, <2>7
<1>2. ASSUME FiguresInv PROVE DisplayedStockIsThere
  <2> SUFFICES ASSUME Answered("display") PROVE DisplayedStockIsThere
    BY DEF DisplayedStockIsThere
  <2>1. answer[1] = Compute(asked) /\ asked \in Call /\ asked.kind = "display"
    BY <1>2, AnswerIs
  <2>2. asked \in DisplayCalls
    BY <2>1, FiguresAssumption DEF PriceCalls, AllocateCalls, LandedCalls
  <2>3. asked.base \in Nat /\ asked.factor \in Nat \ {0}
    BY <2>2 DEF DisplayCalls
  <2>4. answer[1] = ToDisplay(asked.base, asked.factor)
    BY <2>1 DEF Compute
  <2> QED
    BY <2>3, <2>4, DisplayRight DEF DisplayedStockIsThere
<1> QED
  BY <1>1, <1>2, FiguresComputed, PTL DEF CounterFiguresRight
=============================================================================
