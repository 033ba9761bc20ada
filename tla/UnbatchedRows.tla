---------------------------- MODULE UnbatchedRows ----------------------------
(***************************************************************************)
(* Stock without a batch: the stock_balances rows of one product in one    *)
(* warehouse whose batch_id is NULL (inventory/repository.py, service.py). *)
(*                                                                         *)
(* uq_balance_scope does not compare NULLs, so it lets a second such row   *)
(* in, and get_balance takes the first of the rows the database returns.   *)
(* Two requests are modelled: goods coming in (a receipt, an addition, the *)
(* inbound half of a transfer or a returned part) and a sale.              *)
(***************************************************************************)
EXTENDS Integers, FiniteSets, Functions

CONSTANTS
  Worker,
  RowId,      \* row identities
  MaxQty,     \* bound: largest quantity of a request
  MaxStock,   \* bound: goods come in only while there is less
  Stocked,    \* rows there are at the start
  Unheld

ASSUME UnbatchedAssumption ==
  /\ IsFiniteSet(RowId)
  /\ Unheld \notin Worker
  /\ MaxQty \in Nat
  /\ MaxStock \in Nat
  /\ Stocked \subseteq RowId

VARIABLES
  exists,    \* committed rows
  onHand,    \* their on_hand
  ledger,    \* sum of the committed movements
  lock,      \* holder of each row
  turn

looseVars == <<exists, onHand, ledger, lock, turn>>

Total(f, S) == SumFunctionOnSet(f, S)

Nothing == [r \in RowId |-> 0]

AtRest == [pc |-> "idle", ask |-> 0, todo |-> {}, got |-> {}, seen |-> Nothing, take |-> Nothing]

Turn == [pc : {"idle", "scan", "locking", "posting", "commit"},
       ask : -MaxQty..MaxQty,     \* goods that come in, or (negative) are sold
       todo : SUBSET RowId,         \* rows the statement has still to lock
       got : SUBSET RowId,          \* rows it returns
       seen : [RowId -> Nat],       \* on_hand as the transaction sees it
       take : [RowId -> Nat]]       \* allocated and not posted yet

LooseTypeOK ==
  /\ exists \subseteq RowId
  /\ onHand \in [RowId -> Nat]
  /\ ledger \in Int
  /\ lock \in [RowId -> Worker \cup {Unheld}]
  /\ turn \in [Worker -> Turn]

LooseInit ==
  /\ exists = Stocked
  /\ onHand \in [RowId -> 0..MaxStock]
  /\ \A r \in RowId \ Stocked : onHand[r] = 0
  /\ ledger = Total(onHand, RowId)
  /\ lock = [r \in RowId |-> Unheld]
  /\ turn = [w \in Worker |-> AtRest]

Begin(w) ==
  /\ turn[w].pc = "idle"
  /\ \E q \in 1..MaxQty : \E ask \in {q, -q} :
       /\ ask > 0 => Total(onHand, RowId) < MaxStock
       /\ turn' = [turn EXCEPT ![w] = [AtRest EXCEPT !.pc = "scan", !.ask = ask]]
  /\ UNCHANGED <<exists, onHand, ledger, lock>>

Buys(w) == turn[w].ask > 0

\* get_balance wants every row of the scope, batch_availability those in stock.
Matches(w, r) == Buys(w) \/ onHand[r] > 0

Scan(w) ==
  /\ turn[w].pc = "scan"
  /\ turn' = [turn EXCEPT ![w].pc = "locking", ![w].todo = {r \in exists : Matches(w, r)}]
  /\ UNCHANGED <<exists, onHand, ledger, lock>>

\* FOR UPDATE: wait for the row, test its latest version.
LockMatch(w, r) ==
  /\ turn[w].pc = "locking"
  /\ r \in turn[w].todo
  /\ lock[r] = Unheld
  /\ lock' = [lock EXCEPT ![r] = w]
  /\ turn' = [turn EXCEPT ![w].todo = @ \ {r},
                      ![w].got = IF Matches(w, r) THEN @ \cup {r} ELSE @,
                      ![w].seen[r] = onHand[r]]
  /\ UNCHANGED <<exists, onHand, ledger>>

Ready(w) == turn[w].pc = "locking" /\ turn[w].todo = {}

\* No row: upsert_balance_delta inserts one, whatever others are inserting.
InsertRow(w) ==
  /\ Ready(w)
  /\ Buys(w)
  /\ turn[w].got = {}
  /\ \E r \in RowId \ exists :
       /\ lock[r] = Unheld
       /\ lock' = [lock EXCEPT ![r] = w]
       /\ turn' = [turn EXCEPT ![w].pc = "commit", ![w].seen[r] = turn[w].ask]
  /\ UNCHANGED <<exists, onHand, ledger>>

\* Slip: the goods are entered in every row the statement returned.
AddToAllRows(w) ==
  /\ Ready(w)
  /\ Buys(w)
  /\ turn[w].got # {}
  /\ turn' = [turn EXCEPT ![w].pc = "commit",
                      ![w].seen = [r \in RowId |-> IF r \in turn[w].got THEN @[r] + turn[w].ask ELSE @[r]]]
  /\ UNCHANGED <<exists, onHand, ledger, lock>>

\* .first() of the rows, in no particular order.
AddToRow(w) ==
  /\ Ready(w)
  /\ Buys(w)
  /\ \E r \in turn[w].got :
       turn' = [turn EXCEPT ![w].pc = "commit", ![w].seen[r] = @ + turn[w].ask]
  /\ UNCHANGED <<exists, onHand, ledger, lock>>

\* allocate_fefo over the rows, which all have the same (no) expiry date: one
\* after the other is emptied.
Allocate(w) ==
  /\ Ready(w)
  /\ ~Buys(w)
  /\ \E take \in [RowId -> 0..MaxQty] :
       /\ Total(take, RowId) = -turn[w].ask
       /\ \A r \in RowId : take[r] <= IF r \in turn[w].got THEN turn[w].seen[r] ELSE 0
       /\ \A r, s \in turn[w].got : take[r] \in {0, turn[w].seen[r]} \/ take[s] \in {0, turn[w].seen[s]} \/ r = s
       /\ turn' = [turn EXCEPT ![w].pc = "posting", ![w].take = take]
  /\ UNCHANGED <<exists, onHand, ledger, lock>>

Parts(w) == {r \in RowId : turn[w].take[r] > 0}
Done(w) == turn[w].pc = "commit" \/ (turn[w].pc = "posting" /\ Parts(w) = {})

Mine(w) == {r \in RowId : lock[r] = w}

\* get_balance inside post_movement: all rows of the scope are locked, and the
\* first of them is used, not the one the part was allocated from.
LockScope(w) ==
  /\ turn[w].pc = "posting"
  /\ Parts(w) # {}
  /\ exists \ Mine(w) # {}
  /\ \E r \in exists \ Mine(w) :
       /\ lock[r] = Unheld
       /\ lock' = [lock EXCEPT ![r] = w]
       /\ turn' = [turn EXCEPT ![w].seen[r] = onHand[r]]
  /\ UNCHANGED <<exists, onHand, ledger>>

\* Slip: no comparison with on_hand before the movement.
PostPartUnchecked(w) ==
  /\ turn[w].pc = "posting"
  /\ exists \subseteq Mine(w)
  /\ \E part \in Parts(w), r \in exists :
       turn' = [turn EXCEPT ![w].seen[r] = @ - turn[w].take[part], ![w].take[part] = 0]
  /\ UNCHANGED <<exists, onHand, ledger, lock>>

PostPart(w) ==
  /\ turn[w].pc = "posting"
  /\ exists \subseteq Mine(w)
  /\ \E part \in Parts(w), r \in exists :
       /\ turn[w].seen[r] >= turn[w].take[part]
       /\ turn' = [turn EXCEPT ![w].seen[r] = @ - turn[w].take[part], ![w].take[part] = 0]
  /\ UNCHANGED <<exists, onHand, ledger, lock>>

LetGo(w) == [r \in RowId |-> IF lock[r] = w THEN Unheld ELSE lock[r]]

GoBack(w) ==
  /\ lock' = LetGo(w)
  /\ turn' = [turn EXCEPT ![w] = AtRest]
  /\ UNCHANGED <<exists, onHand, ledger>>

\* allocate_fefo finds too little, or a part is larger than the row it hits.
TooFew(w) == Ready(w) /\ ~Buys(w) /\ Total(turn[w].seen, turn[w].got) < -turn[w].ask

PartMisses(w) ==
  /\ turn[w].pc = "posting"
  /\ exists \subseteq Mine(w)
  /\ \E part \in Parts(w), r \in exists : turn[w].seen[r] < turn[w].take[part]

Refuse(w) == (TooFew(w) \/ PartMisses(w)) /\ GoBack(w)

Commit(w) ==
  /\ Done(w)
  /\ exists' = exists \cup Mine(w)
  /\ onHand' = [r \in RowId |-> IF lock[r] = w THEN turn[w].seen[r] ELSE onHand[r]]
  /\ ledger' = ledger + turn[w].ask
  /\ lock' = LetGo(w)
  /\ turn' = [turn EXCEPT ![w] = AtRest]

\* A crash, a lost connection, or the victim of a deadlock.
Lose(w) == turn[w].pc # "idle" /\ GoBack(w)

LooseNext ==
  \E w \in Worker :
    \/ Begin(w) \/ Scan(w) \/ InsertRow(w) \/ AddToRow(w) \/ Allocate(w) \/ LockScope(w)
    \/ PostPart(w) \/ Refuse(w) \/ Commit(w) \/ Lose(w)
    \/ \E r \in RowId : LockMatch(w, r)

LooseSpec == LooseInit /\ [][LooseNext]_looseVars

-----------------------------------------------------------------------------
(* Properties.                                                             *)

\* However many rows there are, together they hold what the movements say
\* (inventory/service.py:1-8).
RowsAreLedger == Total(onHand, exists) = ledger

\* One row per product, warehouse and batch (inventory/models.py:177-181).
OneRow == Cardinality(exists) <= 1
=============================================================================
