----------------------------- MODULE Scheduler -----------------------------
(***************************************************************************)
(* Scheduled transactions (src/src/transaction/scheduler.ts) with the      *)
(* in-memory store.  A run of processDueSchedules lists the pending        *)
(* schedules once, then awaits the application's execute for each that is  *)
(* due; other runs, and cancelSchedule, go on meanwhile.                   *)
(*                                                                         *)
(* The store hands out the objects it holds and saves copies, so two runs  *)
(* may share an object, whose changes both see, or hold different ones of  *)
(* the same schedule, of which the last to be saved prevails.  Objects are *)
(* therefore told apart: heap gives the contents of each.                  *)
(***************************************************************************)
EXTENDS Naturals, Sequences, FiniteSets

CONSTANTS
  Ids,         \* schedules, in the order of the store's Map once created
  Recurring,   \* those with a recurrenceMs, the others are one-time
  Period,      \* recurrenceMs
  MaxRetries,  \* config.maxRetries
  Runs,        \* calls of processDueSchedules under way at once
  Copies,      \* tell the objects of one schedule apart; bounds how many are alive
  None,        \* no object, no contents
  MaxNow       \* bound on the clock

Objects == Ids \X Copies

VARIABLES
  now,     \* Date.now()
  order,   \* the keys of the store's Map in insertion order
  store,   \* per id: the object the Map holds
  heap,    \* per object: its contents, None when nothing refers to it
  run      \* per run: its now, and the objects of the list not yet done with;
           \* the first in the Map's order is being executed

vars == <<now, order, store, heap, run>>

Statuses == {"pending", "executed", "failed", "cancelled"}

\* A run that finds an object failed for good may still count its own failure.
Schedule == [executeAt: 0..(MaxNow + Period), status: Statuses,
             failureCount: 0..(MaxRetries + Cardinality(Runs))]

TypeOK ==
  /\ now \in 0..MaxNow
  /\ order \in Seq(Ids)
  /\ store \in [Ids -> Objects \cup {None}]
  /\ heap \in [Objects -> Schedule \cup {None}]
  /\ run \in [Runs -> [at: 0..MaxNow, todo: SUBSET Objects]]

Created(id)  == \E i \in DOMAIN order : order[i] = id
Stored(id)   == heap[store[id]]
IdOf(o)      == o[1]

\* In the order of the store's Map.
NotAfter(o, p) ==
  \E i, j \in DOMAIN order : i <= j /\ order[i] = IdOf(o) /\ order[j] = IdOf(p)

Executing(r) == CHOOSE o \in run[r].todo : \A p \in run[r].todo : NotAfter(o, p)

Referenced(st, rn) ==
  {st[id] : id \in Ids} \cup UNION {rn[r].todo : r \in Runs}

Fresh(id) == CHOOSE o \in {id} \X Copies : o \notin Referenced(store, run)

\* save() of object o with new contents: o has changed and the Map holds a copy.
Saved(o, s) == [heap EXCEPT ![o] = s, ![Fresh(IdOf(o))] = s]

\* Objects that nothing refers to any more are garbage.
Collected(h, st, rn) == [o \in Objects |-> IF o \in Referenced(st, rn) THEN h[o] ELSE None]

-----------------------------------------------------------------------------
\* Mutant: every schedule of the store is listed.
ListAll == {store[id] : id \in {i \in Ids : Created(i)}}

\* store.list("pending")
ListPending == {store[id] : id \in {i \in Ids : Created(i) /\ Stored(i).status = "pending"}}

\* The loop goes on to the next object that is due, as its contents are by now.
FromNextDue(todo, at, h) ==
  LET due == {o \in todo : h[o].executeAt <= at}
  IN  {o \in todo : \E d \in due : NotAfter(d, o)}

Succeeded(id, s, at) ==
  IF id \in Recurring
  THEN [s EXCEPT !.executeAt = at + Period, !.failureCount = 0]
  ELSE [s EXCEPT !.status = "executed"]

Failed(s) ==
  [s EXCEPT !.failureCount = @ + 1,
            !.status = IF s.failureCount + 1 >= MaxRetries THEN "failed" ELSE @]

-----------------------------------------------------------------------------
Init ==
  /\ now = 0
  /\ order = <<>>
  /\ store = [id \in Ids |-> None]
  /\ heap = [o \in Objects |-> None]
  /\ run = [r \in Runs |-> [at |-> 0, todo |-> {}]]

\* scheduleTransaction: a one-time schedule must not lie in the past.
ScheduleTransaction(id, executeAt) ==
  /\ ~Created(id)
  /\ executeAt >= now \/ id \in Recurring
  /\ order' = Append(order, id)
  /\ store' = [store EXCEPT ![id] = Fresh(id)]
  /\ heap' = [heap EXCEPT ![Fresh(id)] = [executeAt |-> executeAt, status |-> "pending",
                                          failureCount |-> 0]]
  /\ UNCHANGED <<now, run>>

\* cancelSchedule
Cancel(id) ==
  /\ Created(id) /\ Stored(id).status = "pending"
  /\ store' = [store EXCEPT ![id] = Fresh(id)]
  /\ heap' = Collected(Saved(store[id], [Stored(id) EXCEPT !.status = "cancelled"]),
                       store', run)
  /\ UNCHANGED <<now, order, run>>

\* processDueSchedules, to its first await.
Begin(r) ==
  LET todo == FromNextDue(ListPending, now, heap)
  IN  /\ run[r].todo = {} /\ todo # {}
      /\ run' = [run EXCEPT ![r] = [at |-> now, todo |-> todo]]
      /\ UNCHANGED <<now, order, store, heap>>

\* execute settles: update the object, save it, and go on to the next await.
Settle(r, s) ==
  LET o == Executing(r)
      h == Saved(o, s)
  IN  /\ store' = [store EXCEPT ![IdOf(o)] = Fresh(IdOf(o))]
      /\ run' = [run EXCEPT ![r].todo = FromNextDue(@ \ {o}, run[r].at, h)]
      /\ heap' = Collected(h, store', run')
      /\ UNCHANGED <<now, order>>

Succeed(r) ==
  /\ run[r].todo # {}
  /\ Settle(r, Succeeded(IdOf(Executing(r)), heap[Executing(r)], run[r].at))

Fail(r) ==
  /\ run[r].todo # {}
  /\ Settle(r, Failed(heap[Executing(r)]))

Tick ==
  /\ now < MaxNow
  /\ now' = now + 1
  /\ UNCHANGED <<order, store, heap, run>>

Next ==
  \/ \E id \in Ids, executeAt \in 0..MaxNow : ScheduleTransaction(id, executeAt)
  \/ \E id \in Ids : Cancel(id)
  \/ \E r \in Runs : Begin(r) \/ Succeed(r) \/ Fail(r)
  \/ Tick

SafetySpec == Init /\ [][Next]_vars

\* Time passes, processDueSchedules is called periodically, and execute settles.
Spec ==
  /\ SafetySpec
  /\ WF_vars(Tick)
  /\ \A r \in Runs : WF_vars(Begin(r)) /\ WF_vars(Succeed(r) \/ Fail(r))

-----------------------------------------------------------------------------
Held(id) == \E r \in Runs : \E o \in run[r].todo : IdOf(o) = id

\* "Re-running a schedule that has already completed is a no-op": once a schedule
\* was executed, failed for good or was cancelled, and no run that listed it
\* before is under way, no run takes it up and nothing changes it any more.
DoneIsDone ==
  [][\A id \in Ids :
       Created(id) /\ Stored(id).status # "pending" /\ ~Held(id)
         => Stored(id)' = Stored(id) /\ ~Held(id)']_vars

\* No schedule stays due for ever: it is executed, rescheduled, cancelled or given
\* up, although overlapping runs overwrite each other's failure counts.
DueSchedulesSettle ==
  \A id \in Ids :
    []<>~(Created(id) /\ Stored(id).status = "pending" /\ Stored(id).executeAt <= now)

\* scheduler.ts: "Execution is idempotent: re-running a schedule that has already
\* completed is a no-op."
ExecutesOnce ==
  [][\A r \in Runs :
       Succeed(r) /\ IdOf(Executing(r)) \notin Recurring
         => Stored(IdOf(Executing(r))).status # "executed"]_vars
=============================================================================
