-------------------------------- MODULE Fefo --------------------------------
(***************************************************************************)
(* The two loops that spread a quantity over batches, one action per       *)
(* iteration: allocate_fefo (inventory/fefo.py), used by sales,            *)
(* write-offs and reservations, and the loop of release_reservation        *)
(* (inventory/service.py), which walks reserved quantities in the same     *)
(* order but skips no expired batch and checks the total only at the end.  *)
(* sorted() is stable and the query that feeds it has no ORDER BY, so      *)
(* batches with equal dates come in any order.                             *)
(***************************************************************************)
EXTENDS Allocation

CONSTANTS
  Batch,      \* batch rows of one product in one warehouse
  LastDay,    \* dates are 1..LastDay
  NoExpiry,   \* the date of a batch without one
  MaxOffer    \* bound on offered quantities

ASSUME FefoAssumption ==
  /\ IsFiniteSet(Batch)
  /\ LastDay \in Nat
  /\ NoExpiry \in Nat /\ NoExpiry > LastDay
  /\ MaxOffer \in Nat

VARIABLES
  call,       \* "allocate" or "release"
  asOf,       \* the day of the call
  expiry,     \* expiry date of each batch
  offer,      \* on_hand - reserved (allocate) or reserved (release) of each batch
  required,   \* quantity asked for
  todo,       \* batches of the sorted list the loop has not reached
  take,       \* quantity taken so far from each batch
  remaining,  \* the loop's local of that name
  pc          \* "check", "loop", "done" or "refused"

inputs == <<call, asOf, expiry, offer, required>>
loopVars == <<call, asOf, expiry, offer, required, todo, take, remaining, pc>>

Date == (1..LastDay) \cup {NoExpiry}

LoopTypeOK ==
  /\ call \in {"allocate", "release"}
  /\ asOf \in 0..LastDay
  /\ expiry \in [Batch -> Date]
  /\ offer \in [Batch -> 0..MaxOffer]
  /\ required \in 1..(2 * MaxOffer)
  /\ todo \subseteq Batch
  /\ take \in [Batch -> 0..MaxOffer]
  /\ remaining \in 0..(2 * MaxOffer)
  /\ pc \in {"check", "loop", "done", "refused"}

\* The batches a call may take from.
Eligible == IF call = "allocate" THEN Sellable(offer, expiry, asOf) ELSE Holding(offer)

LoopInit ==
  /\ call \in {"allocate", "release"}
  /\ asOf \in 0..LastDay
  /\ expiry \in [Batch -> Date]
  /\ offer \in [Batch -> 0..MaxOffer]
  /\ required \in 1..(2 * MaxOffer)
  /\ todo = {}
  /\ take = [b \in Batch |-> 0]
  /\ remaining = required
  /\ pc = "check"

\* allocate_fefo raises InsufficientStockError before it takes anything.
Refuse ==
  /\ pc = "check"
  /\ call = "allocate"
  /\ Total(offer, Eligible) < required
  /\ pc' = "refused"
  /\ UNCHANGED <<inputs, todo, take, remaining>>

Enter ==
  /\ pc = "check"
  /\ call = "allocate" => Total(offer, Eligible) >= required
  /\ todo' = Eligible
  /\ pc' = "loop"
  /\ UNCHANGED <<inputs, take, remaining>>

\* Slips the properties must notice: the list is not sorted; the whole batch is
\* subtracted instead of min(available, remaining).
TakeNextUnsorted(b) ==
  /\ pc = "loop"
  /\ remaining > 0
  /\ b \in todo
  /\ todo' = todo \ {b}
  /\ take' = [take EXCEPT ![b] = Least(offer[b], remaining)]
  /\ remaining' = remaining - Least(offer[b], remaining)
  /\ UNCHANGED <<inputs, pc>>

TakeNextWhole(b) ==
  /\ pc = "loop"
  /\ remaining > 0
  /\ b \in todo
  /\ \A c \in todo : expiry[b] <= expiry[c]
  /\ todo' = todo \ {b}
  /\ take' = [take EXCEPT ![b] = offer[b]]
  /\ remaining' = remaining - offer[b]
  /\ UNCHANGED <<inputs, pc>>

\* One iteration: the next batch of the list sorted by expiry.
TakeNext(b) ==
  /\ pc = "loop"
  /\ remaining > 0
  /\ b \in todo
  /\ \A c \in todo : expiry[b] <= expiry[c]
  /\ todo' = todo \ {b}
  /\ take' = [take EXCEPT ![b] = Least(offer[b], remaining)]
  /\ remaining' = remaining - Least(offer[b], remaining)
  /\ UNCHANGED <<inputs, pc>>

\* Slip: the check for over_release after the loop is missing.
LeaveUnchecked ==
  /\ pc = "loop"
  /\ remaining = 0 \/ todo = {}
  /\ pc' = "done"
  /\ UNCHANGED <<inputs, todo, take, remaining>>

\* The list is exhausted or nothing remains; only a release checks which.
Leave ==
  /\ pc = "loop"
  /\ remaining = 0 \/ todo = {}
  /\ pc' = IF call = "release" /\ remaining > 0 THEN "refused" ELSE "done"
  /\ UNCHANGED <<inputs, todo, take, remaining>>

\* The call has returned or raised.
Finished == pc \in {"done", "refused"} /\ UNCHANGED loopVars

LoopNext == Refuse \/ Enter \/ (\E b \in Batch : TakeNext(b)) \/ Leave \/ Finished

FefoSpec == LoopInit /\ [][LoopNext]_loopVars

-----------------------------------------------------------------------------
\* At every point of the loop, an allocation that has touched a batch has
\* emptied every eligible batch that expires earlier (the FEFO promise of
\* fefo.py, and the "earliest-expiry batches first" of release_reservation).
EarliestFirst == InExpiryOrder(take, offer, expiry, Eligible)

\* A sale, write-off or reservation never takes from a batch that is expired
\* on the day of the call, nor more of a batch than is available in it.
NothingExpired ==
  \A b \in Batch :
    /\ take[b] <= offer[b]
    /\ call = "allocate" /\ take[b] > 0 => expiry[b] > asOf

\* The loop returns one of the allocations of the definition, and raises
\* exactly when there is none: the sort, the early break and the total check
\* of the code agree with the loop-free statement of FEFO.
AgreesWithDefinition ==
  /\ pc = "done" => take \in Takes(offer, expiry, Eligible, required)
  /\ pc = "refused" => Takes(offer, expiry, Eligible, required) = {}
=============================================================================
