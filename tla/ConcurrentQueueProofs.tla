----------------------- MODULE ConcurrentQueueProofs -----------------------
(* Theorems about ConcurrentQueue, for any finite set of threads. *)
EXTENDS ConcurrentQueue, FiniteSetTheorems, TLAPS

(* What a thread between the test and the pop knows of the queue. *)
FrontOK ==
  \A t \in Threads :
    /\ pc[t] \in {"front", "pop"} => the_queue # <<>>
    /\ pc[t] = "pop" => value[t] = Head(the_queue)

(* Only an operation in progress is anywhere but idle. *)
OpOK ==
  \A t \in Threads :
    /\ pc[t] = "waiting" => op[t] = "wait_and_pop"
    /\ pc[t] = "notify" => op[t] = "push"
    /\ pc[t] \in {"front", "pop"} => op[t] \in {"try_pop", "wait_and_pop"}
    /\ pc[t] = "idle" => op[t] = "none"
    /\ op[t] = "none" => pc[t] = "idle"

Inv == TypeOK /\ FrontOK /\ OpOK

LEMMA InitInv ==
  ASSUME Init
  PROVE  Inv
BY ThreadsAssumption DEF Init, Inv, TypeOK, FrontOK, OpOK, Inside, Operations

(* The types of the queues that Push and Pop leave behind. *)
LEMMA HeadTail ==
  ASSUME NEW q \in Seq(Nat), q # <<>>
  PROVE  /\ Head(q) \in Nat /\ Tail(q) \in Seq(Nat)
         /\ Len(Tail(q)) = Len(q) - 1 /\ Head(q) = q[1]
         /\ \A i \in 1..Len(Tail(q)) : Tail(q)[i] = q[i + 1]
OBVIOUS

(* What Append makes of a sequence. *)
LEMMA Appended ==
  ASSUME NEW q \in Seq(Nat), NEW n \in Nat
  PROVE  /\ Len(Append(q, n)) = Len(q) + 1
         /\ Append(q, n)[Len(q) + 1] = n
         /\ \A i \in 1..Len(q) : Append(q, n)[i] = q[i]
OBVIOUS

(* Every step keeps the types, the mutex's owner and what threads know.    *)
LEMMA StepInv ==
  ASSUME Inv, [Next]_vars
  PROVE  Inv'
<1> USE ThreadsAssumption DEF Inv, TypeOK, OpOK, Goto, Inside, Operations
<1>1. CASE UNCHANGED vars
  BY <1>1 DEF vars, FrontOK
<1>2. ASSUME NEW t \in Threads, NEW o \in Operations, Call(t, o)
      PROVE  Inv'
  BY <1>2 DEF Call, FrontOK
<1>3. ASSUME NEW t \in Threads, Lock(t)
      PROVE  Inv'
  BY <1>3 DEF Lock, FrontOK
<1>4. ASSUME NEW t \in Threads, Push(t)
      PROVE  Inv'
  <2>1. TypeOK' /\ OpOK'
    BY <1>4 DEF Push
  <2>2. \A u \in Threads : pc'[u] \notin {"front", "pop"}
    BY <1>4 DEF Push
  <2> QED
    BY <2>1, <2>2 DEF FrontOK
<1>5. ASSUME NEW t \in Threads, Size(t) \/ TryPopEmpty(t)
      PROVE  Inv'
  BY <1>5 DEF Size, TryPopEmpty, FrontOK
<1>6. ASSUME NEW t \in Threads, Wait(t)
      PROVE  Inv'
  BY <1>6 DEF Wait, FrontOK
<1>7. ASSUME NEW t \in Threads, NotEmpty(t)
      PROVE  Inv'
  BY <1>7 DEF NotEmpty, FrontOK
<1>8. ASSUME NEW t \in Threads, Front(t)
      PROVE  Inv'
  <2>1. the_queue # <<>>
    BY <1>8 DEF Front, FrontOK
  <2>2. Head(the_queue) \in Nat
    BY <2>1, HeadTail
  <2> QED
    BY <1>8, <2>1, <2>2 DEF Front, FrontOK
<1>9. ASSUME NEW t \in Threads, Pop(t)
      PROVE  Inv'
  <2>1. the_queue # <<>>
    BY <1>9 DEF Pop, FrontOK
  <2>2. Tail(the_queue) \in Seq(Nat)
    BY <2>1, HeadTail
  <2>3. TypeOK' /\ OpOK'
    BY <1>9, <2>2 DEF Pop
  <2>4. \A u \in Threads : pc'[u] \notin {"front", "pop"}
    BY <1>9 DEF Pop
  <2> QED
    BY <2>3, <2>4 DEF FrontOK
<1>10. ASSUME NEW t \in Threads, Unlock(t)
       PROVE  Inv'
  BY <1>10 DEF Unlock, FrontOK
<1>11. ASSUME NEW t \in Threads, NotifyOne(t)
       PROVE  Inv'
  <2>1. PICK woken \in SUBSET Waiting : Wake(t, woken)
    BY <1>11 DEF NotifyOne
  <2> QED
    BY <1>11, <2>1 DEF NotifyOne, Wake, Waiting, FrontOK
<1>12. ASSUME NEW t \in Threads, WakeUp(t)
       PROVE  Inv'
  BY <1>12 DEF WakeUp, FrontOK
<1> QED
  BY <1>1, <1>2, <1>3, <1>4, <1>5, <1>6, <1>7, <1>8, <1>9, <1>10, <1>11, <1>12
     DEF Next, Step

(* Types, and mutual exclusion by the_mutex. *)
THEOREM QueueTypes == Spec => []TypeOK
<1>1. Spec => []Inv
  BY InitInv, StepInv, PTL DEF Spec
<1>2. Inv => TypeOK
  BY DEF Inv
<1> QED
  BY <1>1, <1>2, PTL

-----------------------------------------------------------------------------
(* A pop takes the first of what is left, a push adds the next. *)
LEMMA StepFifo ==
  ASSUME Inv, FirstInFirstOut, [Next]_vars
  PROVE  FirstInFirstOut'
<1> USE DEF Inv, TypeOK
<1>1. CASE UNCHANGED <<the_queue, pushed, popped>>
  BY <1>1 DEF FirstInFirstOut
<1>2. ASSUME NEW t \in Threads, Push(t)
      PROVE  FirstInFirstOut'
  <2>1. /\ the_queue' = Append(the_queue, pushed + 1) /\ popped' = popped
        /\ pushed' = pushed + 1
    BY <1>2 DEF Push
  <2>2. /\ Len(the_queue') = Len(the_queue) + 1
        /\ the_queue'[Len(the_queue) + 1] = pushed + 1
        /\ \A i \in 1..Len(the_queue) : the_queue'[i] = the_queue[i]
    <3>1. pushed + 1 \in Nat /\ the_queue \in Seq(Nat)
      OBVIOUS
    <3> HIDE DEF Inv, TypeOK
    <3> QED
      BY <2>1, <3>1, Appended
  <2>3. \A i \in 1..Len(the_queue') : the_queue'[i] = Len(popped') + i
    <3>1. /\ Len(popped) \in Nat /\ Len(the_queue) \in Nat
          /\ pushed = Len(popped) + Len(the_queue)
          /\ \A i \in 1..Len(the_queue) : the_queue[i] = Len(popped) + i
      BY DEF FirstInFirstOut
    <3> HIDE DEF Inv, TypeOK
    <3>2. SUFFICES ASSUME NEW i \in 1..(Len(the_queue) + 1)
                   PROVE  the_queue'[i] = Len(popped) + i
      BY <2>1, <2>2
    <3>3. CASE i = Len(the_queue) + 1
      BY <2>2, <3>1, <3>3
    <3>4. CASE i # Len(the_queue) + 1
      <4>1. i \in 1..Len(the_queue)
        BY <3>1, <3>4
      <4> QED
        BY <2>2, <3>1, <4>1
    <3> QED
      BY <3>3, <3>4
  <2> QED
    BY <2>1, <2>2, <2>3 DEF FirstInFirstOut
<1>3. ASSUME NEW t \in Threads, Pop(t)
      PROVE  FirstInFirstOut'
  <2>1. the_queue # <<>> /\ value[t] = Head(the_queue)
    BY <1>3 DEF Pop, Goto, FrontOK
  <2>2. value[t] = Len(popped) + 1
    BY <2>1, HeadTail DEF FirstInFirstOut
  <2>3. /\ Len(Tail(the_queue)) = Len(the_queue) - 1
        /\ \A i \in 1..Len(Tail(the_queue)) : Tail(the_queue)[i] = the_queue[i + 1]
    BY <2>1, HeadTail
  <2>4. /\ the_queue' = Tail(the_queue) /\ popped' = Append(popped, value[t])
        /\ pushed' = pushed
    BY <1>3 DEF Pop
  <2>5. /\ Len(popped') = Len(popped) + 1
        /\ popped'[Len(popped) + 1] = value[t]
        /\ \A i \in 1..Len(popped) : popped'[i] = popped[i]
    <3>1. value[t] \in Nat /\ popped \in Seq(Nat)
      OBVIOUS
    <3> HIDE DEF Inv, TypeOK
    <3> QED
      BY <2>4, <3>1, Appended
  <2>6. \A i \in 1..Len(popped') : popped'[i] = i
    <3>1. Len(popped) \in Nat
      OBVIOUS
    <3>2. \A i \in 1..Len(popped) : popped[i] = i
      BY DEF FirstInFirstOut
    <3> HIDE DEF Inv, TypeOK
    <3> QED
      BY <2>2, <2>5, <3>1, <3>2
  <2>7. \A i \in 1..Len(the_queue') : the_queue'[i] = Len(popped') + i
    <3>1. /\ Len(popped) \in Nat /\ Len(the_queue) \in Nat
          /\ \A i \in 1..Len(the_queue) : the_queue[i] = Len(popped) + i
      BY DEF FirstInFirstOut
    <3> HIDE DEF Inv, TypeOK
    <3>2. SUFFICES ASSUME NEW i \in 1..Len(Tail(the_queue))
                   PROVE  Tail(the_queue)[i] = Len(popped) + 1 + i
      BY <2>4, <2>5
    <3>3. i + 1 \in 1..Len(the_queue)
      BY <2>3, <3>1
    <3>4. Tail(the_queue)[i] = the_queue[i + 1]
      BY <2>3
    <3>5. the_queue[i + 1] = Len(popped) + (i + 1)
      BY <3>1, <3>3
    <3> QED
      BY <3>1, <3>4, <3>5
  <2>8. pushed' = Len(popped') + Len(the_queue')
    <3>1. /\ Len(popped) \in Nat /\ Len(the_queue) \in Nat
          /\ pushed = Len(popped) + Len(the_queue)
      BY DEF FirstInFirstOut
    <3>2. Len(popped') = Len(popped) + 1
      BY <2>5
    <3> HIDE DEF Inv, TypeOK
    <3>3. Len(the_queue') = Len(the_queue) - 1 /\ pushed' = pushed
      BY <2>3, <2>4
    <3> QED
      BY <3>1, <3>2, <3>3
  <2> QED
    BY <2>6, <2>7, <2>8 DEF FirstInFirstOut
<1> QED
  BY <1>1, <1>2, <1>3
     DEF Next, Step, vars, Call, Lock, Size, TryPopEmpty, Wait, NotEmpty, Front, Unlock,
         NotifyOne, Wake, WakeUp

(* However many threads push and pop, values come out in the order of the  *)
(* pushes, each once.                                                      *)
THEOREM Fifo == Spec => []FirstInFirstOut
<1>1. Init => FirstInFirstOut
  BY DEF Init, FirstInFirstOut
<1>2. Spec => [](Inv /\ FirstInFirstOut)
  BY <1>1, InitInv, StepInv, StepFifo, PTL DEF Spec
<1> QED
  BY <1>2, PTL

-----------------------------------------------------------------------------
LEMMA BusyFinite ==
  /\ IsFiniteSet(Busy) /\ IsFiniteSet(Busy')
  /\ Cardinality(Busy) \in Nat /\ Cardinality(Busy') \in Nat
<1>1. Busy \subseteq Threads /\ Busy' \subseteq Threads
  BY DEF Busy
<1> QED
  BY <1>1, ThreadsAssumption, FS_Subset, FS_CardinalityType

(* A thread that passes its duty on leaves as many behind. *)
LEMMA Exchange ==
  ASSUME NEW t \in Busy, NEW w, w \notin Busy, Busy' = (Busy \ {t}) \union {w}
  PROVE  Cardinality(Busy') = Cardinality(Busy)
<1>1. /\ IsFiniteSet(Busy \ {t})
      /\ Cardinality(Busy \ {t}) = Cardinality(Busy) - 1
  BY BusyFinite, FS_RemoveElement
<1>2. Cardinality((Busy \ {t}) \union {w}) = Cardinality(Busy \ {t}) + 1
  BY <1>1, FS_AddElement
<1> QED
  BY <1>1, <1>2, BusyFinite

(* A step that leaves the queue alone, lets nobody begin to wait and takes *)
(* nobody's duty away.                                                     *)
LEMMA NoDutyLost ==
  ASSUME NoLostWakeup, the_queue' = the_queue,
         Waiting' \subseteq Waiting, Busy \subseteq Busy', Inv
  PROVE  NoLostWakeup'
<1>1. Cardinality(Busy) <= Cardinality(Busy')
  BY BusyFinite, FS_Subset
<1>2. Len(the_queue) \in Nat
  BY DEF Inv, TypeOK
<1>3. CASE Waiting = {}
  BY <1>3 DEF NoLostWakeup
<1>4. CASE Waiting # {}
  <2>1. Len(the_queue) <= Cardinality(Busy)
    BY <1>4 DEF NoLostWakeup
  <2>2. Len(the_queue') <= Cardinality(Busy')
    BY <1>1, <1>2, <2>1, BusyFinite
  <2> QED
    BY <2>2 DEF NoLostWakeup
<1> QED
  BY <1>3, <1>4

LEMMA StepWakeup ==
  ASSUME Inv, Inv', NoLostWakeup, [Next]_vars
  PROVE  NoLostWakeup'
<1> USE DEF Inv, TypeOK, OpOK, Goto, Waiting, Busy, SeesToIt, Operations
<1>1. CASE UNCHANGED vars
  <2>1. the_queue' = the_queue /\ Waiting' = Waiting /\ Busy' = Busy
    BY <1>1 DEF vars
  <2> HIDE DEF Inv, Waiting, Busy
  <2> QED
    BY <2>1, NoDutyLost
<1>2. ASSUME NEW t \in Threads, NEW o \in Operations,
             Call(t, o) \/ Lock(t) \/ Size(t) \/ TryPopEmpty(t) \/ NotEmpty(t) \/ Front(t)
               \/ Unlock(t) \/ WakeUp(t)
      PROVE  NoLostWakeup'
  <2>1. the_queue' = the_queue
    BY <1>2 DEF Call, Lock, Size, TryPopEmpty, NotEmpty, Front, Unlock, WakeUp
  <2>2. Waiting' \subseteq Waiting
    BY <1>2 DEF Call, Lock, Size, TryPopEmpty, NotEmpty, Front, Unlock, WakeUp
  <2>3. Busy \subseteq Busy'
    BY <1>2 DEF Call, Lock, Size, TryPopEmpty, NotEmpty, Front, Unlock, WakeUp
  <2> HIDE DEF Inv, Waiting, Busy
  <2> QED
    BY <2>1, <2>2, <2>3, NoDutyLost
<1>3. ASSUME NEW t \in Threads, Push(t)
      PROVE  NoLostWakeup'
  <2>1. /\ t \notin Busy /\ Busy' = Busy \union {t} /\ Waiting' = Waiting
    BY <1>3 DEF Push
  <2>2. Cardinality(Busy') = Cardinality(Busy) + 1
    <3> HIDE DEF Inv, Waiting, Busy
    <3> QED
      BY <2>1, BusyFinite, FS_AddElement
  <2>3. Len(the_queue') = Len(the_queue) + 1 /\ Len(the_queue) \in Nat
    BY <1>3, Appended DEF Push
  <2> HIDE DEF Inv, Waiting, Busy
  <2> QED
    BY <2>1, <2>2, <2>3, BusyFinite DEF NoLostWakeup
<1>4. ASSUME NEW t \in Threads, Wait(t)
      PROVE  NoLostWakeup'
  <2>1. Len(the_queue') = 0
    BY <1>4 DEF Wait
  <2> HIDE DEF Inv, Waiting, Busy
  <2> QED
    BY <2>1, BusyFinite DEF NoLostWakeup
<1>5. ASSUME NEW t \in Threads, Pop(t)
      PROVE  NoLostWakeup'
  <2>1. Waiting' = Waiting /\ Busy' = Busy \ {t}
    BY <1>5 DEF Pop
  <2>2. Cardinality(Busy') >= Cardinality(Busy) - 1
    <3> HIDE DEF Inv, Waiting, Busy
    <3> QED
      BY <2>1, BusyFinite, FS_RemoveElement
  <2>3. the_queue # <<>>
    BY <1>5 DEF Pop, FrontOK
  <2>4. Len(the_queue') = Len(the_queue) - 1 /\ Len(the_queue) \in Nat
    BY <1>5, <2>3, HeadTail DEF Pop
  <2> HIDE DEF Inv, Waiting, Busy
  <2> QED
    BY <2>1, <2>2, <2>4, BusyFinite DEF NoLostWakeup
<1>6. ASSUME NEW t \in Threads, NotifyOne(t)
      PROVE  NoLostWakeup'
  <2>1. CASE Waiting = {}
    <3>1. Waiting' = {}
      BY <1>6, <2>1 DEF NotifyOne, Wake
    <3> QED
      BY <3>1 DEF NoLostWakeup
  <2>2. CASE Waiting # {}
    <3>1. PICK w \in Waiting : Wake(t, {w})
      BY <1>6, <2>2 DEF NotifyOne
    <3>2. /\ t \in Busy /\ w \notin Busy /\ t # w
          /\ Busy' = (Busy \ {t}) \union {w} /\ the_queue' = the_queue
      BY <1>6, <3>1 DEF NotifyOne, Wake
    <3>3. Cardinality(Busy') = Cardinality(Busy)
      BY <3>2, Exchange
    <3> HIDE DEF Inv, Waiting, Busy
    <3> QED
      BY <2>2, <3>2, <3>3 DEF NoLostWakeup
  <2> QED
    BY <2>1, <2>2
<1> QED
  BY <1>1, <1>2, <1>3, <1>4, <1>5, <1>6 DEF Next, Step

(* However many threads wait, none is left asleep beside a value that      *)
(* nobody sees to.                                                         *)
THEOREM WakeupsReach == Spec => []NoLostWakeup
<1>1. Init => NoLostWakeup
  BY DEF Init, NoLostWakeup, Waiting
<1>2. Spec => [](Inv /\ NoLostWakeup)
  BY <1>1, InitInv, StepInv, StepWakeup, PTL DEF Spec
<1> QED
  BY <1>2, PTL

-----------------------------------------------------------------------------
(* The refinement, step by step *)

LEMMA InitPromise ==
  ASSUME Init
  PROVE  Promise!PromiseInit
BY DEF Init, Promise!PromiseInit, Effective

(* A step that leaves the queue, the calls and the effects alone. *)
LEMMA Invisible ==
  ASSUME UNCHANGED <<the_queue, op, pushed, popped>>, Effective' = Effective
  PROVE  UNCHANGED Promise!promiseVars
BY DEF Promise!promiseVars

LEMMA StepPromise ==
  ASSUME Inv, [Next]_vars
  PROVE  [Promise!PromiseNext]_(Promise!promiseVars)
<1> USE DEF Inv, TypeOK, OpOK, Goto, Effective
<1>1. CASE UNCHANGED vars
  BY <1>1, Invisible DEF vars
<1>2. ASSUME NEW t \in Threads, NEW o \in Operations, Call(t, o)
      PROVE  Promise!Invoke(t, o)
  BY <1>2 DEF Call, Promise!Invoke
<1>3. ASSUME NEW t \in Threads, Lock(t) \/ NotEmpty(t) \/ Front(t) \/ Wait(t) \/ WakeUp(t)
      PROVE  UNCHANGED Promise!promiseVars
  BY <1>3, Invisible DEF Lock, NotEmpty, Front, Wait, WakeUp
<1>4. ASSUME NEW t \in Threads, pc[t] \in {"body", "pop"}, Goto(t, pc[t], "unlock"), op' = op
      PROVE  Promise!TakesEffect(t)
  BY <1>4 DEF Promise!TakesEffect
<1>5. ASSUME NEW t \in Threads, Push(t)
      PROVE  Promise!Add(t)
  BY <1>4, <1>5 DEF Push, Promise!Add
<1>6. ASSUME NEW t \in Threads, Size(t) \/ TryPopEmpty(t)
      PROVE  Promise!Look(t)
  BY <1>4, <1>6 DEF Size, TryPopEmpty, Promise!Look
<1>7. ASSUME NEW t \in Threads, Pop(t)
      PROVE  Promise!Take(t)
  BY <1>4, <1>7 DEF Pop, Promise!Take, FrontOK
<1>8. ASSUME NEW t \in Threads, Unlock(t), op[t] = "push"
      PROVE  UNCHANGED Promise!promiseVars
  <2>1. op' = op
    BY <1>8 DEF Unlock
  <2> QED
    BY <1>8, <2>1, Invisible DEF Unlock
<1>9. ASSUME NEW t \in Threads, Unlock(t), op[t] # "push"
      PROVE  Promise!Return(t)
  BY <1>9 DEF Unlock, Promise!Return
<1>10. ASSUME NEW t \in Threads, NotifyOne(t)
       PROVE  Promise!Return(t)
  <2>1. PICK woken \in SUBSET Waiting : Wake(t, woken)
    BY <1>10 DEF NotifyOne
  <2> QED
    BY <1>10, <2>1 DEF NotifyOne, Wake, Waiting, Promise!Return
<1> HIDE DEF Inv, TypeOK, OpOK, Goto, Effective
<1> QED
  BY <1>1, <1>2, <1>3, <1>5, <1>6, <1>7, <1>8, <1>9, <1>10
     DEF Next, Step, Promise!PromiseNext

(* However many threads call any of the operations, the template, with its *)
(* mutex and its condition variable, implements QueuePromise.              *)
THEOREM QueuePromiseKept == Spec => KeepsQueuePromise
<1>1. Spec => []Inv
  BY InitInv, StepInv, PTL DEF Spec
<1> QED
  BY <1>1, InitPromise, StepPromise, PTL DEF Spec, KeepsQueuePromise, Promise!PromiseSpec
=============================================================================
