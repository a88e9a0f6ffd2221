------------------------------- MODULE Pending -------------------------------
(***************************************************************************)
(* The admission to one PJRT client: `Pending`, `Queue`, `Admitted` and    *)
(* `PendingPass` of bridge/src/lib.rs, as `acquire` and the drop of a pass *)
(* use them.  (`try_acquire` serves another pool, the read-ahead permit,   *)
(* which nothing ever waits on: module ClientProve.)                       *)
(*                                                                         *)
(* A critical section of the queue's mutex is one action; a sleeper on the *)
(* condition variable is "parked" until a notify_all makes it "awake".     *)
(* The drop of a pass removes its entry under the lock and notifies after  *)
(* the lock is released, so it takes two steps, with "dropped" between.    *)
(***************************************************************************)
EXTENDS Naturals, FiniteSets, FiniteSetsExt

CONSTANTS Instances,  \* the instances proofman hands over, each proved once
          Uploads,    \* Uploads[i]: OwnedRequest::upload_bytes of i
          Cap,        \* ZZ_PENDING: instances admitted at once
          Budget      \* ZZ_PENDING_BYTES: bytes beside the running prove

ASSUME QueueAssumption ==
    /\ IsFiniteSet(Instances)
    /\ Uploads \in [Instances -> Nat]
    /\ Cap \in Nat \ {0}
    /\ Budget \in Nat

VARIABLES
    admitted,  \* Queue.admitted: the {ticket, uploads} of the instances let in
    next,      \* Queue.next: the ticket the next instance draws
    serving,   \* Queue.serving: the ticket whose turn it is
    ticket,    \* the ticket each instance has drawn (0 until it draws one)
    pc         \* where each instance's thread is

vars == <<admitted, next, serving, ticket, pc>>

Waiting == {"parked", "awake"}

Init ==
    /\ admitted = {}
    /\ next = 0
    /\ serving = 0
    /\ ticket = [i \in Instances |-> 0]
    /\ pc = [i \in Instances |-> "new"]

SumUploads(A) == MapThenSumSet(LAMBDA a : a.uploads, A)

\* Mutant: the newcomer alone is weighed.
AdmitsWeighingJoinerOnly(bytes) ==
    /\ Cardinality(admitted) < Cap
    /\ admitted = {} \/ bytes <= Budget

\* Mutant: the ceiling is off by one.
AdmitsOneTooMany(bytes) ==
    /\ Cardinality(admitted) <= Cap
    /\ \/ admitted = {}
       \/ LET weights == {bytes} \cup {a.uploads : a \in admitted} IN
          bytes + SumUploads(admitted) - Min(weights) <= Budget

\* Mutant: an empty client takes no instance over the budget.
AdmitsNothingOverBudget(bytes) ==
    /\ Cardinality(admitted) < Cap
    /\ bytes + SumUploads(admitted) <= Budget

\* Queue::admits: everything but the smallest must fit the budget, since the
\* smallest is the one assumed to be proving; an empty client admits any size.
Admits(bytes) ==
    /\ Cardinality(admitted) < Cap
    /\ \/ admitted = {}
       \/ LET weights == {bytes} \cup {a.uploads : a \in admitted} IN
          bytes + SumUploads(admitted) - Min(weights) <= Budget

\* Mutant: the turn is not asked for.
MayEnterInAnyOrder(t, bytes) == Admits(bytes)

\* The `while` condition of acquire, negated.
MayEnter(t, bytes) == t = serving /\ Admits(bytes)

\* What a waiter does with the lock, holding ticket `t`: sleep, or count
\* itself in, move the turn on and wake everybody.
TestTurn(i, t) ==
    \/ /\ MayEnter(t, Uploads[i])
       /\ serving' = serving + 1
       /\ admitted' = admitted \cup {[ticket |-> t, uploads |-> Uploads[i]]}
       /\ pc' = [j \in Instances |-> IF j = i THEN "admitted"
                                     ELSE IF pc[j] = "parked" THEN "awake" ELSE pc[j]]
    \/ /\ ~MayEnter(t, Uploads[i])
       /\ pc' = [pc EXCEPT ![i] = "parked"]
       /\ UNCHANGED <<admitted, serving>>

\* The call: draw a ticket, then test.
Acquire(i) ==
    /\ pc[i] = "new"
    /\ ticket' = [ticket EXCEPT ![i] = next]
    /\ next' = next + 1
    /\ TestTurn(i, next)

\* A wake-up: test again, with the ticket drawn at the call.
Recheck(i) ==
    /\ pc[i] = "awake"
    /\ TestTurn(i, ticket[i])
    /\ UNCHANGED <<next, ticket>>

SpuriousWakeup(i) ==
    /\ pc[i] = "parked"
    /\ pc' = [pc EXCEPT ![i] = "awake"]
    /\ UNCHANGED <<admitted, next, serving, ticket>>

\* Mutant: the drop takes the oldest entry, not its own.
DropOldestPass(i) ==
    /\ pc[i] = "admitted"
    /\ admitted' = {a \in admitted : \E b \in admitted : b.ticket < a.ticket}
    /\ pc' = [pc EXCEPT ![i] = "dropped"]
    /\ UNCHANGED <<next, serving, ticket>>

\* Drop of the pass: the entry goes under the lock ...
DropPass(i) ==
    /\ pc[i] = "admitted"
    /\ admitted' = {a \in admitted : a.ticket # ticket[i]}
    /\ pc' = [pc EXCEPT ![i] = "dropped"]
    /\ UNCHANGED <<next, serving, ticket>>

\* ... and the waiters hear of it once the lock is released.
NotifyAfterDrop(i) ==
    /\ pc[i] = "dropped"
    /\ pc' = [j \in Instances |-> IF j = i THEN "gone"
                                  ELSE IF pc[j] = "parked" THEN "awake" ELSE pc[j]]
    /\ UNCHANGED <<admitted, next, serving, ticket>>

Finished == (\A i \in Instances : pc[i] = "gone") /\ UNCHANGED vars

Next ==
    \/ \E i \in Instances :
          \/ Acquire(i) \/ Recheck(i) \/ SpuriousWakeup(i)
          \/ DropPass(i) \/ NotifyAfterDrop(i)
    \/ Finished

Spec == Init /\ [][Next]_vars

\* A runnable thread runs and an admitted prove ends, by result, error or
\* panic, all of which drop its pass.
Fairness ==
    \A i \in Instances :
        WF_vars(Recheck(i)) /\ WF_vars(DropPass(i)) /\ WF_vars(NotifyAfterDrop(i))

FairSpec == Spec /\ Fairness

-----------------------------------------------------------------------------
\* The values the queue's state ranges over; tickets never exceed the number
\* of instances, each of which draws one.
TypeOK ==
    /\ admitted \in SUBSET [ticket : Nat, uploads : Nat]
    /\ next \in 0 .. Cardinality(Instances)
    /\ serving \in 0 .. next
    /\ ticket \in [Instances -> Nat]
    /\ pc \in [Instances -> {"new", "parked", "awake", "admitted", "dropped", "gone"}]

\* The threads that have drawn a ticket, those let in, and the entry one of
\* these stands for.
Drawn == {i \in Instances : pc[i] # "new"}

Inside == {i \in Instances : pc[i] = "admitted"}

Entry(i) == [ticket |-> ticket[i], uploads |-> Uploads[i]]

\* No more than Cap instances are in, whatever the order of drops and wakes.
AtMostCap == Cardinality(admitted) <= Cap

\* Whichever of the admitted instances turns out to be the one proving, the
\* uploads of the others beside it fit the budget (the comment of admits).
BudgetHoldsWhicheverProves ==
    \A a \in admitted : SumUploads(admitted \ {a}) <= Budget \/ admitted = {a}

\* No instance is let in while one that came before it still waits: a large
\* one cannot be kept out by a run of small ones.
NobodyOvertakes ==
    \A i, j \in Instances :
        (pc[i] \in Waiting /\ pc[j] \in {"admitted", "dropped", "gone"})
            => ticket[j] < ticket[i]

\* No lost wake-up: the instance whose turn it is sleeps only while it may
\* not enter, or while the notification of a finished drop is on its way.
NoLostWakeup ==
    \A i \in Instances :
        (pc[i] = "parked" /\ MayEnter(ticket[i], Uploads[i]))
            => \E j \in Instances : pc[j] = "dropped"

\* The queue's bookkeeping agrees with the threads: the admitted entries are
\* exactly those of the passes alive, and the turns between serving and next
\* are exactly the waiters' (what `pending` and `queued` report).
EntriesMatchPasses ==
    /\ admitted = {Entry(i) : i \in Inside}
    /\ {ticket[i] : i \in {j \in Instances : pc[j] \in Waiting}} = serving .. next - 1

\* Every ticket is drawn once, and has been served exactly when its holder no
\* longer waits.
TicketsInOrder ==
    /\ next = Cardinality(Drawn)
    /\ \A i \in Drawn : ticket[i] < next /\ (serving <= ticket[i] <=> pc[i] \in Waiting)
    /\ \A i, j \in Drawn : ticket[i] = ticket[j] => i = j

\* What is inductive (module PendingProofs).
IInv == TypeOK /\ TicketsInOrder /\ EntriesMatchPasses /\ AtMostCap /\ NoLostWakeup

\* The queue implements FifoAdmission: the line is the waiters in ticket
\* order, and inside are the instances whose pass is alive.
HolderOf(t) == CHOOSE i \in Instances : pc[i] \in Waiting /\ ticket[i] = t

Fifo == INSTANCE FifoAdmission WITH
            line <- [k \in 1 .. next - serving |-> HolderOf(serving + k - 1)],
            inside <- Inside

ImplementsFifoAdmission == Fifo!Spec

\* Every instance that asks is admitted in the end, the ones larger than the
\* budget included.
EveryoneIsAdmitted ==
    \A i \in Instances : pc[i] \in Waiting ~> pc[i] = "admitted"
=============================================================================
