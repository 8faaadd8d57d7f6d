---------------------------- MODULE QueuePromise ----------------------------
(***************************************************************************)
(* What a concurrent queue promises, with no mutex and no condition        *)
(* variable: every operation takes effect once and in one moment, between  *)
(* its call and its return; the one that waits does so on a value.         *)
(***************************************************************************)
EXTENDS Naturals, Sequences

CONSTANTS Threads, Operations

VARIABLES
  queue,
  called,   \* [Threads -> the operation called and not yet returned, or "none"]
  done,     \* the threads whose operation has taken effect
  added,    \* how many values have been pushed
  taken     \* the values popped, in order

promiseVars == <<queue, called, done, added, taken>>

PromiseInit ==
  /\ queue = <<>> /\ called = [t \in Threads |-> "none"] /\ done = {}
  /\ added = 0 /\ taken = <<>>

Invoke(t, operation) ==
  /\ called[t] = "none"
  /\ called' = [called EXCEPT ![t] = operation]
  /\ UNCHANGED <<queue, done, added, taken>>

TakesEffect(t) ==
  /\ t \notin done /\ done' = done \union {t}
  /\ UNCHANGED called

Add(t) ==
  /\ called[t] = "push" /\ TakesEffect(t)
  /\ queue' = Append(queue, added + 1) /\ added' = added + 1
  /\ UNCHANGED taken

Take(t) ==
  /\ called[t] \in {"try_pop", "wait_and_pop"} /\ TakesEffect(t)
  /\ queue # <<>>
  /\ queue' = Tail(queue) /\ taken' = Append(taken, Head(queue))
  /\ UNCHANGED added

Look(t) ==
  /\ called[t] = "size" \/ (called[t] = "try_pop" /\ queue = <<>>)
  /\ TakesEffect(t)
  /\ UNCHANGED <<queue, added, taken>>

Return(t) ==
  /\ t \in done /\ done' = done \ {t}
  /\ called' = [called EXCEPT ![t] = "none"]
  /\ UNCHANGED <<queue, added, taken>>

PromiseNext ==
  \E t \in Threads :
    \/ \E operation \in Operations : Invoke(t, operation)
    \/ Add(t) \/ Take(t) \/ Look(t) \/ Return(t)

PromiseSpec == PromiseInit /\ [][PromiseNext]_promiseVars
=============================================================================
