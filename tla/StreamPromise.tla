--------------------------- MODULE StreamPromise ---------------------------
(***************************************************************************)
(* What Motion JPEG over UDP promises, with no chunks, numbers or          *)
(* datagrams: the flushes of the server are settled one after the other,   *)
(* each written whole unless something was lost of it, or of the end of    *)
(* the one before; what is damaged is written up to its own end, or joins  *)
(* the next one.  The promise is off once a flush has filled its last      *)
(* chunk.                                                                  *)
(***************************************************************************)
EXTENDS Naturals, SequencesExt

VARIABLES
  sent,     \* the flushes, in order
  settled,  \* how many of them have been written or have joined the next
  hurt,     \* the next one cannot be written as it was sent
  written,  \* what has been written, write by write
  off

promiseVars == <<sent, settled, hurt, written, off>>

PromiseInit ==
  /\ sent = <<>> /\ settled = 0 /\ hurt = FALSE /\ written = <<>>
  /\ off \in BOOLEAN

(* A sequence grows by one element, whatever it is. *)
Extends(longer, seq) == longer # <<>> /\ Front(longer) = seq

Flush ==
  /\ Extends(sent', sent) /\ Last(sent') # <<>>
  /\ UNCHANGED <<settled, hurt, written>>

Damage ==
  /\ settled < Len(sent)
  /\ hurt' = TRUE
  /\ UNCHANGED <<sent, settled, written>>

Settle ==
  /\ settled < Len(sent)
  /\ settled' = settled + 1
  /\ UNCHANGED sent

WriteWhole ==
  /\ Settle /\ ~hurt
  /\ written' = Append(written, sent[settled + 1])
  /\ UNCHANGED hurt

(* What is written ends as the flush does, and the next one is safe. *)
WriteDamaged ==
  /\ Settle /\ hurt
  /\ Extends(written', written)
  /\ Last(written') # <<>> /\ Last(Last(written')) = Last(sent[settled + 1])
  /\ hurt' = FALSE

(* The end is lost: what there is of it will be written with the next. *)
JoinNext ==
  /\ Settle
  /\ hurt' = TRUE
  /\ UNCHANGED written

PromiseNext ==
  \/ ~off /\ ~off' /\ (Flush \/ Damage \/ WriteWhole \/ WriteDamaged \/ JoinNext)
  \/ off'

PromiseSpec == PromiseInit /\ [][PromiseNext]_promiseVars
=============================================================================
