----------------------------- MODULE ServiceJobs -----------------------------
(***************************************************************************)
(* Repair jobs and their spare parts (service_jobs/service.py, api.py).    *)
(* A handler reads the job, changes its copy and writes it back under the  *)
(* version it has read.  The line of a part has no version, and is read    *)
(* before the job.                                                         *)
(*                                                                         *)
(* A part has a row of stock in batches and a row without: consumption     *)
(* takes from the first and then the second, a return adds to the second.  *)
(* Batches and expiry are in Inventory.  Prices stay as they are.          *)
(***************************************************************************)
EXTENDS Integers, Sequences, FiniteSetsExt

CONSTANTS
  Mechanic,   \* request handlers
  Nobody,     \* holder of a free lock
  Job,        \* repair jobs
  NoSerial,   \* serial of a job without one
  Warranty,   \* warranties: serial, first and last day
  Day,        \* dates on which jobs are received
  Part,       \* spare parts
  Price,      \* retail price of each part
  Opening,    \* stock of each part, in batches
  Task,       \* the requests that come in
  MaxUsed,    \* bound: parts are asked for only while fewer have been used
  MaxVersion  \* bound: requests for a job come in only below this version

JobStatus == {"received", "under_inspection", "estimate_prepared", "awaiting_approval",
              "approved", "in_progress", "waiting_for_part", "quality_check", "ready",
              "delivered", "cancelled"}

\* What a request asks: a part for a job, a line of parts back, a status, or
\* the job completed with a charge for labour.
Tasks == [kind : {"consume"}, job : Job, part : Part, quantity : Nat \ {0}]
         \cup [kind : {"return"}, line : Nat \ {0}]
         \cup [kind : {"status"}, job : Job, status : JobStatus]
         \cup [kind : {"complete"}, job : Job, labour : Nat]

ASSUME ServiceJobsAssumption ==
  /\ Nobody \notin Mechanic
  /\ Warranty \subseteq [serial : STRING, from : Day, to : Day] /\ Day \subseteq Nat
  /\ Price \in [Part -> Nat] /\ Opening \in [Part -> Nat]
  /\ Task \subseteq Tasks
  /\ MaxUsed \in Nat /\ MaxVersion \in Nat

VARIABLES
  jobs,    \* the row of each job, status "none" before it is received
  used,    \* lines of spare parts, in the order of their inserts, each with
           \* the number of its REPAIR_RETURN movements: is_returned says > 0
  stock,   \* on_hand of each row of stock
  shelf,   \* who holds each row of stock
  work     \* the transaction of each mechanic

jobVars == <<jobs, used, stock, shelf, work>>

StockRow == Part \X {"batched", "loose"}

NoJob == [status |-> "none", covered |-> FALSE, labour |-> 0, parts |-> 0, payable |-> 0,
          version |-> 0]

JobRow == [status : JobStatus \cup {"none"}, covered : BOOLEAN, labour : Nat, parts : Int,
           payable : Int, version : Nat]

NoTask == [kind |-> "none"]

Resting == [pc |-> "idle", task |-> NoTask, seen |-> NoJob, rows |-> {},
            left |-> [r \in StockRow |-> 0]]

Work == [pc : {"idle", "line", "job", "stock", "save"},
         task : Tasks \cup {NoTask},
         seen : JobRow,                \* the job as it was read
         rows : SUBSET StockRow,       \* the rows of stock it writes
         left : [StockRow -> Nat]]     \* and what it leaves in them

JobTypeOK ==
  /\ jobs \in [Job -> JobRow]
  /\ used \in Seq([job : Job, part : Part, quantity : Nat \ {0}, returns : Nat])
  /\ stock \in [StockRow -> Nat]
  /\ shelf \in [StockRow -> Mechanic \cup {Nobody}]
  /\ work \in [Mechanic -> Work]

JobInit ==
  /\ jobs = [j \in Job |-> NoJob]
  /\ used = <<>>
  /\ stock = [r \in StockRow |-> IF r[2] = "batched" THEN Opening[r[1]] ELSE 0]
  /\ shelf = [r \in StockRow |-> Nobody]
  /\ work = [m \in Mechanic |-> Resting]

-----------------------------------------------------------------------------
Closed == {"delivered", "cancelled"}

\* is_under_warranty: the first and the last day count.
UnderWarranty(serial, day) ==
  \E w \in Warranty : w.serial = serial /\ w.from <= day /\ w.to >= day

\* create_job.
ReceiveJob(j) ==
  /\ jobs[j].status = "none"
  /\ \E serial \in {w.serial : w \in Warranty} \cup {NoSerial}, day \in Day :
       jobs' = [jobs EXCEPT ![j].status = "received",
                            ![j].covered = serial # NoSerial /\ UnderWarranty(serial, day)]
  /\ UNCHANGED <<used, stock, shelf, work>>

Take(m, t, pc) == work' = [work EXCEPT ![m] = [Resting EXCEPT !.pc = pc, !.task = t]]

BeginTask(m) ==
  /\ work[m].pc = "idle"
  /\ \E t \in Task :
       /\ t.kind = "return" => t.line \in DOMAIN used
       /\ t.kind = "consume" => Len(used) < MaxUsed
       /\ t.kind # "return" => jobs[t.job].version < MaxVersion
       /\ Take(m, t, IF t.kind = "return" THEN "line" ELSE "job")
  /\ UNCHANGED <<jobs, used, stock, shelf>>

Asked(m) == work[m].task

\* return_part reads the line and turns a returned one down.
ReadLine(m) ==
  /\ work[m].pc = "line"
  /\ used[Asked(m).line].returns = 0
  /\ work' = [work EXCEPT ![m].pc = "job"]
  /\ UNCHANGED <<jobs, used, stock, shelf>>

JobOf(m) == IF Asked(m).kind = "return" THEN used[Asked(m).line].job ELSE Asked(m).job

\* Only update_status looks at the status.
MayProceed(m) ==
  /\ jobs[JobOf(m)].status # "none"
  /\ Asked(m).kind = "status" => jobs[JobOf(m)].status \notin Closed

ReadJob(m) ==
  /\ work[m].pc = "job"
  /\ MayProceed(m)
  /\ work' = [work EXCEPT ![m].seen = jobs[JobOf(m)],
                ![m].pc = IF Asked(m).kind \in {"consume", "return"} THEN "stock" ELSE "save"]
  /\ UNCHANGED <<jobs, used, stock, shelf>>

Least(m, n) == IF m <= n THEN m ELSE n

Offered(p) == {r \in StockRow : r[1] = p /\ stock[r] > 0}

\* Slip: stock that is short is not noticed.
ShortNever(m) == FALSE

Short(m) == Asked(m).kind = "consume"
            /\ stock[<<Asked(m).part, "batched">>]
               + stock[<<Asked(m).part, "loose">>] < Asked(m).quantity

\* The rows a request locks: what is on offer, or the row that is credited.
Wanted(m) == IF Asked(m).kind = "consume" THEN Offered(Asked(m).part)
             ELSE {<<used[Asked(m).line].part, "loose">>}

\* What a request leaves in each row.  Batches come before the row without one.
Remaining(m) ==
  IF Asked(m).kind = "return"
  THEN LET line == used[Asked(m).line] IN
       [stock EXCEPT ![<<line.part, "loose">>] = @ + line.quantity]
  ELSE LET p == Asked(m).part
           first == Least(Asked(m).quantity, stock[<<p, "batched">>]) IN
       [stock EXCEPT ![<<p, "batched">>] = @ - first,
                     ![<<p, "loose">>] = @ - (Asked(m).quantity - first)]

\* Slip: the stock is read without its lock.
LockStockUnlocked(m) ==
  /\ work[m].pc = "stock"
  /\ ~Short(m)
  /\ work' = [work EXCEPT ![m].pc = "save", ![m].rows = Wanted(m), ![m].left = Remaining(m)]
  /\ UNCHANGED <<jobs, used, stock, shelf>>

\* issue_fefo and post_movement lock the rows until the transaction ends.
LockStock(m) ==
  /\ work[m].pc = "stock"
  /\ \A r \in Wanted(m) : shelf[r] = Nobody
  /\ ~Short(m)
  /\ shelf' = [r \in StockRow |-> IF r \in Wanted(m) THEN m ELSE shelf[r]]
  /\ work' = [work EXCEPT ![m].pc = "save", ![m].rows = Wanted(m), ![m].left = Remaining(m)]
  /\ UNCHANGED <<jobs, used, stock>>

\* Slip: the waiver is forgotten.
PayableInFull(job) == job.labour + job.parts

\* _recompute_payable: parts are waived under warranty.
Payable(job) == job.labour + IF job.covered THEN 0 ELSE job.parts

Billed(job) == [job EXCEPT !.payable = Payable(job)]

Value(line) == Price[line.part] * line.quantity

NewLine(m) == [job |-> Asked(m).job, part |-> Asked(m).part, quantity |-> Asked(m).quantity,
               returns |-> 0]

\* The job as the handler leaves it, from the job it has read.
Changed(m) ==
  LET seen == work[m].seen
      t == Asked(m) IN
  CASE t.kind = "consume"  -> Billed([seen EXCEPT !.parts = @ + Value(NewLine(m))])
    [] t.kind = "return"   -> Billed([seen EXCEPT !.parts = @ - Value(used[t.line])])
    [] t.kind = "complete" -> [Billed([seen EXCEPT !.labour = t.labour]) EXCEPT !.status = "ready"]
    [] t.kind = "status"   -> [seen EXCEPT !.status = t.status]

\* Slip: RepairJob has no version either.
ConflictNever(m) == FALSE

\* The job has changed since it was read.  A job written as it was read sends
\* no UPDATE, and nothing is compared.
Conflict(m) == Changed(m) # work[m].seen /\ jobs[JobOf(m)].version # work[m].seen.version

Leave(m) ==
  /\ shelf' = [r \in StockRow |-> IF shelf[r] = m THEN Nobody ELSE shelf[r]]
  /\ work' = [work EXCEPT ![m] = Resting]

Save(m) ==
  /\ work[m].pc = "save"
  /\ ~Conflict(m)
  /\ jobs' = IF Changed(m) = work[m].seen THEN jobs
             ELSE [jobs EXCEPT ![JobOf(m)] = [Changed(m) EXCEPT !.version = @ + 1]]
  /\ used' = CASE Asked(m).kind = "consume" -> Append(used, NewLine(m))
               [] Asked(m).kind = "return"  -> [used EXCEPT ![Asked(m).line].returns = @ + 1]
               [] OTHER -> used
  /\ stock' = [r \in StockRow |-> IF r \in work[m].rows THEN work[m].left[r] ELSE stock[r]]
  /\ Leave(m)

\* NotFoundError, already_returned, job_closed, insufficient stock, StaleDataError.
RefuseTask(m) ==
  /\ \/ work[m].pc = "line" /\ used[Asked(m).line].returns > 0
     \/ work[m].pc = "job" /\ ~MayProceed(m)
     \/ work[m].pc = "stock" /\ Short(m) /\ \A r \in Wanted(m) : shelf[r] = Nobody
     \/ work[m].pc = "save" /\ Conflict(m)
  /\ Leave(m)
  /\ UNCHANGED <<jobs, used, stock>>

\* A crash or a lost connection.
DropTask(m) == work[m].pc # "idle" /\ Leave(m) /\ UNCHANGED <<jobs, used, stock>>

JobNext ==
  \/ \E j \in Job : ReceiveJob(j)
  \/ \E m \in Mechanic : \/ BeginTask(m) \/ ReadLine(m) \/ ReadJob(m) \/ LockStock(m)
                         \/ Save(m) \/ RefuseTask(m) \/ DropTask(m)

JobSpec == JobInit /\ [][JobNext]_jobVars

-----------------------------------------------------------------------------
(* Properties.                                                             *)

LinesOf(j) == {n \in DOMAIN used : used[n].job = j}

\* The customer pays for labour and for the parts the stock ledger says are in
\* the job, none of them under warranty (service.py:188), whatever handlers did
\* to the job at once.
BillIsParts ==
  \A j \in Job :
    LET parts == MapThenSumSet(LAMBDA n : Value(used[n]) * (1 - used[n].returns), LinesOf(j)) IN
    /\ jobs[j].parts = parts
    /\ jobs[j].payable = jobs[j].labour + IF jobs[j].covered THEN 0 ELSE parts

LinesWith(p) == {n \in DOMAIN used : used[n].part = p}

\* A part is on the shelf or in a job: consumption and returns of the same part
\* by several handlers lose nothing and never take what is not there
\* (service.py:113, 155).
PartsAccounted ==
  \A p \in Part :
    stock[<<p, "batched">>] + stock[<<p, "loose">>] =
      Opening[p] + MapThenSumSet(LAMBDA n : used[n].quantity * (used[n].returns - 1), LinesWith(p))

\* The status of a closed job is final for update_status (api.py:240), also
\* for one that read the job before another closed it; only completing the
\* job takes it back to READY.
ClosedOnlyCompleted ==
  [][\A j \in Job : jobs[j].status \in Closed =>
       jobs'[j].status \in {jobs[j].status, "ready"}]_jobVars

\* "Part already returned." (service.py:152).  Violated: the line is read
\* before the job, so a return that commits in between is seen by neither the
\* check nor the version.
ReturnedOnce == \A n \in DOMAIN used : used[n].returns <= 1

\* "This job is closed and can no longer change status." (api.py:242).
\* Violated: set_labour_and_complete does not look at the status.
ClosedStaysClosed ==
  [][\A j \in Job : jobs[j].status \in Closed => jobs'[j].status = jobs[j].status]_jobVars

\* Whatever mechanics do at once, the bill is that of the parts in the job, and
\* every part is in stock or in a job.
JobsAddUp == BillIsParts /\ PartsAccounted
=============================================================================
