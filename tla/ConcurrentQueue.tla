-------------------------- MODULE ConcurrentQueue --------------------------
(***************************************************************************)
(* concurrent_queue of Server/src/queue.cpp and Client/src/queue.cpp (the  *)
(* same file twice): a queue, its mutex and its condition variable, with   *)
(* any threads calling any of the operations.  What is pushed is told      *)
(* apart by its rank: the n-th value ever pushed is the number n.          *)
(***************************************************************************)
EXTENDS Naturals, Sequences, FiniteSets

CONSTANTS
  Threads,
  Nobody,      \* the owner of a free mutex
  MaxPushes    \* bound

ASSUME ThreadsAssumption == IsFiniteSet(Threads) /\ Nobody \notin Threads
ASSUME MaxPushesAssumption == MaxPushes \in Nat

VARIABLES
  the_queue,
  the_mutex,   \* its owner
  op,          \* [Threads -> the operation it is in, or "none"]
  pc,          \* [Threads -> where in that operation]
  value,       \* [Threads -> popped_value]
  pushed,      \* history: values pushed
  popped       \* history: values popped, in order

vars == <<the_queue, the_mutex, op, pc, value, pushed, popped>>

(* size stands for empty() too: either reads the queue under the mutex.    *)
Operations == {"push", "try_pop", "wait_and_pop", "size"}

Init ==
  /\ the_queue = <<>> /\ the_mutex = Nobody
  /\ op = [t \in Threads |-> "none"] /\ pc = [t \in Threads |-> "idle"]
  /\ value = [t \in Threads |-> 0]
  /\ pushed = 0 /\ popped = <<>>

Goto(t, from, to) ==
  /\ pc[t] = from
  /\ pc' = [pc EXCEPT ![t] = to]

(* A thread calls an operation, as long as the bound is kept. *)
Pushing == {t \in Threads : op[t] = "push" /\ pc[t] \in {"lock", "body"}}

Call(t, operation) ==
  /\ Goto(t, "idle", "lock")
  /\ operation = "push" => pushed + Cardinality(Pushing) < MaxPushes
  /\ op' = [op EXCEPT ![t] = operation]
  /\ UNCHANGED <<the_queue, the_mutex, value, pushed, popped>>

(* Mutant: the mutex is not asked for. *)
NeverMind(t) ==
  /\ Goto(t, "lock", "body")
  /\ the_mutex' = t
  /\ UNCHANGED <<the_queue, op, value, pushed, popped>>

Lock(t) ==
  /\ Goto(t, "lock", "body")
  /\ the_mutex = Nobody
  /\ the_mutex' = t
  /\ UNCHANGED <<the_queue, op, value, pushed, popped>>

Push(t) ==
  /\ op[t] = "push" /\ Goto(t, "body", "unlock")
  /\ the_queue' = Append(the_queue, pushed + 1)
  /\ pushed' = pushed + 1
  /\ UNCHANGED <<the_mutex, op, value, popped>>

Size(t) ==
  /\ op[t] = "size" /\ Goto(t, "body", "unlock")
  /\ UNCHANGED <<the_queue, the_mutex, op, value, pushed, popped>>

TryPopEmpty(t) ==
  /\ op[t] = "try_pop" /\ the_queue = <<>>
  /\ Goto(t, "body", "unlock")
  /\ UNCHANGED <<the_queue, the_mutex, op, value, pushed, popped>>

(* Mutant: an empty queue is found and nothing waited for. *)
LookOnce(t) ==
  /\ op[t] = "wait_and_pop" /\ the_queue = <<>>
  /\ Goto(t, "body", "unlock")
  /\ UNCHANGED <<the_queue, the_mutex, op, value, pushed, popped>>

(* wait gives up the mutex and joins the waiting threads in one step; it   *)
(* comes back through "lock" and to the test of the loop.                  *)
Wait(t) ==
  /\ op[t] = "wait_and_pop" /\ the_queue = <<>>
  /\ Goto(t, "body", "waiting")
  /\ the_mutex' = Nobody
  /\ UNCHANGED <<the_queue, op, value, pushed, popped>>

NotEmpty(t) ==
  /\ op[t] \in {"try_pop", "wait_and_pop"} /\ the_queue # <<>>
  /\ Goto(t, "body", "front")
  /\ UNCHANGED <<the_queue, the_mutex, op, value, pushed, popped>>

(* Mutant: the front is read after it has been removed. *)
ReadAfterPop(t) ==
  /\ Goto(t, "front", "pop")
  /\ value' = [value EXCEPT ![t] = IF Len(the_queue) > 1 THEN the_queue[2] ELSE 0]
  /\ UNCHANGED <<the_queue, the_mutex, op, pushed, popped>>

Front(t) ==
  /\ Goto(t, "front", "pop")
  /\ value' = [value EXCEPT ![t] = Head(the_queue)]
  /\ UNCHANGED <<the_queue, the_mutex, op, pushed, popped>>

Pop(t) ==
  /\ Goto(t, "pop", "unlock")
  /\ the_queue' = Tail(the_queue)
  /\ popped' = Append(popped, value[t])
  /\ UNCHANGED <<the_mutex, op, value, pushed>>

(* push unlocks before it notifies. *)
Unlock(t) ==
  /\ Goto(t, "unlock", IF op[t] = "push" THEN "notify" ELSE "idle")
  /\ op' = [op EXCEPT ![t] = IF @ = "push" THEN @ ELSE "none"]
  /\ the_mutex' = Nobody
  /\ UNCHANGED <<the_queue, value, pushed, popped>>

Waiting == {t \in Threads : pc[t] = "waiting"}

Wake(t, woken) ==
  /\ pc' = [u \in Threads |-> IF u \in woken THEN "lock" ELSE IF u = t THEN "idle" ELSE pc[u]]
  /\ op' = [op EXCEPT ![t] = "none"]
  /\ UNCHANGED <<the_queue, the_mutex, value, pushed, popped>>

(* Mutant: only a push that finds the queue empty notifies. *)
NotifyFirst(t) ==
  /\ pc[t] = "notify"
  /\ IF Waiting = {} \/ Len(the_queue) > 1 THEN Wake(t, {})
                                           ELSE \E w \in Waiting : Wake(t, {w})

NotifyOne(t) ==
  /\ pc[t] = "notify"
  /\ IF Waiting = {} THEN Wake(t, {}) ELSE \E w \in Waiting : Wake(t, {w})

(* A condition variable may wake a thread for no reason. *)
WakeUp(t) ==
  /\ Goto(t, "waiting", "lock")
  /\ UNCHANGED <<the_queue, the_mutex, op, value, pushed, popped>>

Step(t) ==
  \/ Push(t) \/ Size(t) \/ TryPopEmpty(t) \/ Wait(t) \/ NotEmpty(t) \/ Front(t)
  \/ Pop(t) \/ Unlock(t) \/ NotifyOne(t)

Next ==
  \E t \in Threads :
    \/ \E operation \in Operations : Call(t, operation)
    \/ Lock(t) \/ Step(t) \/ WakeUp(t)

Spec == Init /\ [][Next]_vars

(* An operation, once begun, goes on; a mutex that is freed again and      *)
(* again is got in the end.  Nobody has to call anything.                  *)
FairSpec == Spec /\ \A t \in Threads : SF_vars(Lock(t)) /\ WF_vars(Step(t))

-----------------------------------------------------------------------------
(* Properties *)

(* Types, and the mutex is with exactly the thread that is inside. *)
Inside(t) == pc[t] \in {"body", "front", "pop", "unlock"}

TypeOK ==
  /\ the_queue \in Seq(Nat) /\ the_mutex \in Threads \union {Nobody}
  /\ op \in [Threads -> Operations \union {"none"}]
  /\ pc \in [Threads -> {"idle", "lock", "body", "waiting", "front", "pop", "unlock",
                         "notify"}]
  /\ value \in [Threads -> Nat]
  /\ pushed \in Nat /\ popped \in Seq(Nat)
  /\ \A t \in Threads : Inside(t) <=> the_mutex = t

(* What has been popped, by whomever, and what is in the queue are all     *)
(* that was pushed, each once and in the order of the pushes: no two       *)
(* threads take the same front, and none takes from an empty queue.        *)
FirstInFirstOut ==
  /\ pushed = Len(popped) + Len(the_queue)
  /\ \A i \in 1..Len(popped) : popped[i] = i
  /\ \A i \in 1..Len(the_queue) : the_queue[i] = Len(popped) + i

(* While any thread waits, every value in the queue has a thread to see to *)
(* it: one that is on its way to pop, or one that has pushed and has still *)
(* to notify.  So no wake-up is lost between the unlock and the notify, or *)
(* between the test and the wait.                                          *)
SeesToIt(t) ==
  \/ op[t] = "push" /\ pc[t] \in {"unlock", "notify"}
  \/ op[t] = "wait_and_pop" /\ pc[t] \in {"lock", "body", "front", "pop"}

Busy == {t \in Threads : SeesToIt(t)}

NoLostWakeup == Waiting # {} => Len(the_queue) <= Cardinality(Busy)

(* A value does not stay in the queue while a thread waits for one. *)
SomebodyIsServed ==
  \A n \in 0..MaxPushes :
    (Len(popped) = n /\ the_queue # <<>> /\ Waiting # {}) ~> Len(popped) > n

(* Under the mutex an operation takes effect when it changes or reads the  *)
(* queue, and has done so from then until it returns.                      *)
Effective == {t \in Threads : pc[t] \in {"unlock", "notify"}}

Promise == INSTANCE QueuePromise WITH
  queue  <- the_queue,
  called <- op,
  done   <- Effective,
  added  <- pushed,
  taken  <- popped

(* Mutex and condition variable together make every operation of the       *)
(* template atomic: the threads together see one plain queue.              *)
KeepsQueuePromise == Promise!PromiseSpec
=============================================================================
