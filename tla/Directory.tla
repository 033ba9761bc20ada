------------------------------ MODULE Directory ------------------------------
(***************************************************************************)
(* The records everything else refers to: customers, products, branches,   *)
(* warehouses, suppliers and users.  An endpoint looks for the code and    *)
(* inserts under the unique constraint; an edit writes the fields it is    *)
(* given under the version it has read.  A counter turns the number it is  *)
(* told into a customer (frontend useCounterCustomer.ts).                  *)
(*                                                                         *)
(* A text is a sequence of characters, of which 0..9 are digits; the phone *)
(* of a customer is whatever text the office has given (customers/api.py). *)
(***************************************************************************)
EXTENDS Integers, Sequences

CONSTANTS
  Desk,        \* handlers of the office, and counters
  Key,         \* a kind of record and a code
  LookedUp,    \* those whose endpoint looks for a duplicate first
  CodeFor,     \* the customer code "RC-" and a number
  InCode,      \* the numbers whose digits stand in a code
  Digits,      \* length of a number: ten in the code
  Typed,       \* what people type at the counter
  Wanted,      \* the keys of the records the office creates
  CustomerKey, \* the keys that are codes of customers, who have a phone
  Field,       \* the fields of a record
  Given,       \* what the office may give for each field
  Blank,       \* a field that was not given
  MaxRecords,  \* bound: requests for new records come in while there are fewer
  MaxEdits     \* bound: edits of a record come in while it has had fewer

Numbers == [1 .. Digits -> 0 .. 9]

ASSUME DirectoryAssumption ==
  /\ LookedUp \subseteq Key
  /\ Digits \in Nat \ {0}
  /\ CodeFor \in [Numbers -> LookedUp]
  /\ \A m, n \in Numbers : CodeFor[m] = CodeFor[n] => m = n
  /\ InCode \in [Key -> SUBSET Numbers]
  /\ \A n \in Numbers : n \in InCode[CodeFor[n]]
  /\ Wanted \subseteq Key
  /\ \A n \in Numbers : CodeFor[n] \in CustomerKey
  /\ Typed \subseteq Seq(Nat)
  /\ {"name", "phone"} \subseteq Field
  /\ Given["name"] \cup Given["phone"] \subseteq Seq(Nat)
  /\ Blank \notin Seq(Nat)
  /\ MaxRecords \in Nat /\ MaxEdits \in Nat

VARIABLES
  records,   \* the rows, in the order of their inserts
  edits,     \* accepted edits that changed each row
  desks      \* what each desk is at

directoryVars == <<records, edits, desks>>

\* A row; told is the number a counter has opened it for, and phones are the
\* texts it has had for a phone so far.
Record == [key : Key, told : Numbers \cup {Blank}, phones : SUBSET Seq(Nat),
           fields : [Field -> (UNION {Given[f] : f \in Field}) \cup {Blank} \cup Seq(Nat)],
           version : Nat]

NobodyYet == [pc |-> "idle"]

Asking == [kind : {"create"}, key : Key, phone : {Blank} \cup Seq(Nat)]
          \cup [kind : {"counter"}, phone : Numbers]

Changing == [record : Nat \ {0}, field : Field, value : UNION {Given[f] : f \in Field}]

Desks ==
  {NobodyYet}
  \cup [pc : {"lookup", "check", "insert", "inserted", "conflict", "error"}, ask : Asking]
  \cup [pc : {"named"}, ask : Asking, record : Nat \ {0}]
  \cup [pc : {"edit"}, change : Changing]
  \cup [pc : {"save"}, change : Changing, seen : Record]

DirectoryTypeOK ==
  /\ records \in Seq(Record)
  /\ edits \in [DOMAIN records -> Nat]
  /\ desks \in [Desk -> Desks]

DirectoryInit ==
  /\ records = <<>>
  /\ edits = <<>>
  /\ desks = [d \in Desk |-> NobodyYet]

-----------------------------------------------------------------------------
\* The digits of what was typed, in order: those of the first n characters at a time.
DigitsOf(s) ==
  LET Sifted[n \in 0 .. Len(s)] ==
        IF n = 0 THEN <<>>
        ELSE IF s[n] \in 0 .. 9 THEN Append(Sifted[n - 1], s[n]) ELSE Sifted[n - 1]
  IN Sifted[Len(s)]

\* Slip: one digit too many stays.
NormalisePhoneLong(s) ==
  LET d == DigitsOf(s) IN
  SubSeq(d, IF Len(d) > Digits THEN Len(d) - Digits ELSE 1, Len(d))

\* normalisePhone: the last digits.
NormalisePhone(s) ==
  LET d == DigitsOf(s) IN
  SubSeq(d, IF Len(d) > Digits THEN Len(d) - Digits + 1 ELSE 1, Len(d))

Sit(d, state) == desks' = [desks EXCEPT ![d] = state]
Step(d, pc) == desks' = [desks EXCEPT ![d].pc = pc]
Rows == <<records, edits>>

BeginCreate(d, k) ==
  /\ desks[d].pc = "idle"
  /\ Len(records) < MaxRecords
  /\ \E p \in {Blank} \cup IF k \in CustomerKey THEN Given["phone"] ELSE {} :
       Sit(d, [pc |-> IF k \in LookedUp THEN "check" ELSE "insert",
               ask |-> [kind |-> "create", key |-> k, phone |-> p]])
  /\ UNCHANGED Rows

\* isCompletePhone: a number is looked up once all its digits are there.
BeginCounter(d, s) ==
  /\ desks[d].pc = "idle"
  /\ Len(records) < MaxRecords
  /\ Len(DigitsOf(s)) >= Digits
  /\ Sit(d, [pc |-> "lookup", ask |-> [kind |-> "counter", phone |-> NormalisePhone(s)]])
  /\ UNCHANGED Rows

Ask(d) == desks[d].ask

\* Slip: the counter's code is not made from the number.
KeyOfAnother(d) == IF Ask(d).kind = "counter" THEN CHOOSE k \in Key : k # CodeFor[Ask(d).phone]
                   ELSE Ask(d).key

KeyOf(d) == IF Ask(d).kind = "counter" THEN CodeFor[Ask(d).phone] ELSE Ask(d).key

\* The digits stand side by side in a text.
Occurs(digits, text) ==
  \E i \in 0 .. Len(text) - Len(digits) : \A j \in DOMAIN digits : text[i + j] = digits[j]

\* What the search of the endpoint answers with: name, code or phone contains
\* the digits.
Searched(number) ==
  {n \in DOMAIN records :
     \/ number \in InCode[records[n].key]
     \/ \E f \in {"name", "phone"} :
          records[n].fields[f] # Blank /\ Occurs(number, records[n].fields[f])}

HasPhone(n, number) ==
  records[n].fields["phone"] # Blank /\ NormalisePhone(records[n].fields["phone"]) = number

Found(number) == {n \in Searched(number) : HasPhone(n, number)}
Coded(k) == {n \in DOMAIN records : records[n].key = k}

Name(d, n) == Sit(d, [pc |-> "named", ask |-> Ask(d), record |-> n])

\* useCustomerByPhone: the first match is taken; without one the customer is new.
LookUp(d) ==
  /\ desks[d].pc = "lookup"
  /\ IF Found(Ask(d).phone) = {} THEN Step(d, "check")
     ELSE \E n \in Found(Ask(d).phone) : Name(d, n)
  /\ UNCHANGED Rows

\* The endpoint counts the rows with the code.
Check(d) ==
  /\ desks[d].pc = "check"
  /\ Step(d, IF Coded(KeyOf(d)) = {} THEN "insert" ELSE "conflict")
  /\ UNCHANGED Rows

\* Another desk has inserted the code without committing it.
Pending(d) == \E e \in Desk \ {d} : desks[e].pc = "inserted" /\ KeyOf(e) = KeyOf(d)

\* Slip: no unique constraint on the code.
InsertAnyway(d) ==
  /\ desks[d].pc = "insert"
  /\ Step(d, "inserted")
  /\ UNCHANGED Rows

\* The insert waits for a pending one, and a code that is there by then is an
\* IntegrityError: an error of the server, not a conflict.
Insert(d) ==
  /\ desks[d].pc = "insert"
  /\ ~Pending(d)
  /\ Step(d, IF Coded(KeyOf(d)) = {} THEN "inserted" ELSE "error")
  /\ UNCHANGED Rows

NewRecord(d) ==
  [key |-> KeyOf(d),
   told |-> IF Ask(d).kind = "counter" THEN Ask(d).phone ELSE Blank,
   phones |-> {Ask(d).phone} \ {Blank},
   fields |-> [f \in Field |-> IF f = "phone" THEN Ask(d).phone ELSE Blank], version |-> 1]

CommitRecord(d) ==
  /\ desks[d].pc = "inserted"
  /\ records' = Append(records, NewRecord(d))
  /\ edits' = Append(edits, 0)
  /\ Name(d, Len(records'))

\* useResolveCustomer: a counter that met a conflict reads the customer back,
\* by the number, else by the code.
ReadBack(d) ==
  /\ desks[d].pc = "conflict"
  /\ Ask(d).kind = "counter"
  /\ LET byPhone == Found(Ask(d).phone) IN
     \E n \in IF byPhone # {} THEN byPhone ELSE Coded(KeyOf(d)) : Name(d, n)
  /\ UNCHANGED Rows

BeginEdit(d) ==
  /\ desks[d].pc = "idle"
  /\ \E n \in DOMAIN records, f \in Field : \E v \in Given[f] :
       /\ edits[n] < MaxEdits
       /\ f = "phone" => records[n].key \in CustomerKey
       /\ Sit(d, [pc |-> "edit", change |-> [record |-> n, field |-> f, value |-> v]])
  /\ UNCHANGED Rows

Edit(d) == desks[d].change

ReadRecord(d) ==
  /\ desks[d].pc = "edit"
  /\ Sit(d, [pc |-> "save", change |-> Edit(d), seen |-> records[Edit(d).record]])
  /\ UNCHANGED Rows

Alters(d) == desks[d].seen.fields[Edit(d).field] # Edit(d).value

\* Slip: the row has no version.
OverwrittenNever(d) == FALSE

Overwritten(d) == Alters(d) /\ records[Edit(d).record].version # desks[d].seen.version

\* An edit that changes nothing writes nothing.
SaveEdit(d) ==
  /\ desks[d].pc = "save"
  /\ ~Overwritten(d)
  /\ LET n == Edit(d).record  f == Edit(d).field  v == Edit(d).value IN
     IF Alters(d)
     THEN /\ records' = [records EXCEPT ![n].fields[f] = v,
                                        ![n].phones = IF f = "phone" THEN @ \cup {v} ELSE @,
                                        ![n].version = desks[d].seen.version + 1]
          /\ edits' = [edits EXCEPT ![n] = @ + 1]
     ELSE UNCHANGED Rows
  /\ Sit(d, NobodyYet)

\* The answer is there: a record, a conflict for the office, an error, or a
\* row that was edited meanwhile.
Rise(d) ==
  /\ \/ desks[d].pc \in {"named", "error"}
     \/ desks[d].pc = "conflict" /\ Ask(d).kind = "create"
     \/ desks[d].pc = "save" /\ Overwritten(d)
  /\ Sit(d, NobodyYet)
  /\ UNCHANGED Rows

DirectoryNext ==
  \E d \in Desk :
    \/ \E k \in Wanted : BeginCreate(d, k)
    \/ \E s \in Typed : BeginCounter(d, s)
    \/ LookUp(d) \/ Check(d) \/ Insert(d) \/ CommitRecord(d) \/ ReadBack(d)
    \/ BeginEdit(d) \/ ReadRecord(d) \/ SaveEdit(d) \/ Rise(d)

DirectorySpec == DirectoryInit /\ [][DirectoryNext]_directoryVars

-----------------------------------------------------------------------------
(* Properties.                                                             *)

\* A code names one record, also when two desks found it free at once
\* (customers/api.py:159, catalogue/api.py:246, organizations/api.py:137, 217).
CodesOnce == \A m, n \in DOMAIN records : records[m].key = records[n].key => m = n

\* Counters that are told one number, typed in any way and at once, open one
\* account for it (useCounterCustomer.ts:53), and name a customer whose phone is
\* that number, or was before the office changed it, or who has its code.  The
\* office may have opened another one for it: see ReturningIsRecognised.
OneCustomerPerNumber ==
  /\ \A m, n \in DOMAIN records :
       records[m].told = records[n].told /\ records[m].told # Blank => m = n
  /\ \A d \in Desk : desks[d].pc = "named" /\ Ask(d).kind = "counter" =>
       LET it == records[desks[d].record] IN
       \/ \E p \in it.phones : NormalisePhone(p) = Ask(d).phone
       \/ it.key = CodeFor[Ask(d).phone]

\* "the sale attaches to their existing khata rather than opening a second
\* account for them" (useCounterCustomer.ts:35-36).  Violated: the search compares
\* the digits with the phone as the office has typed it, so that 98765 43210,
\* with its space, is not found.
ReturningIsRecognised ==
  [][\A d \in Desk : desks[d].pc = "lookup" /\ desks'[d].pc = "check" =>
       ~\E n \in DOMAIN records : HasPhone(n, Ask(d).phone)]_directoryVars

\* No accepted edit writes over another it has not seen (VersionMixin): each one
\* raises the version its author has read.
NoEditLost == \A n \in DOMAIN records : records[n].version = 1 + edits[n]

\* "The row it wanted now exists, so read it back instead of failing the sale"
\* (useCounterCustomer.ts:84-86).  Violated: when both counters found the code
\* free, the loser meets the constraint and is answered 500, not 409.
CounterIsServed ==
  \A d \in Desk : desks[d].pc = "error" => Ask(d).kind # "counter"

\* Two desks do not put one code, nor two counters one number, on file twice.
RecordsOnce == CodesOnce /\ OneCustomerPerNumber
=============================================================================
