----------------------------- MODULE BoundedFifo -----------------------------
(***************************************************************************)
(* What iot_queue_t promises: elements leave in the order they entered, an *)
(* element enters only while there are fewer than the limit (0 is no       *)
(* limit), lowering the limit drops nothing, and elements are discarded    *)
(* only after the queue is closed.                                         *)
(***************************************************************************)
EXTENDS Integers, Sequences

CONSTANTS Elements, Limits

VARIABLES buffer, limit, open

Init == buffer = <<>> /\ limit \in Limits /\ open = TRUE

Put == \E e \in Elements :
  /\ limit = 0 \/ Len(buffer) < limit
  /\ buffer' = Append(buffer, e)
  /\ UNCHANGED <<limit, open>>

Take ==
  /\ buffer # <<>>
  /\ buffer' = Tail(buffer)
  /\ UNCHANGED <<limit, open>>

Resize == limit' \in Limits /\ UNCHANGED <<buffer, open>>

Close == open' = FALSE /\ UNCHANGED <<buffer, limit>>

Discard == ~open /\ buffer' = <<>> /\ UNCHANGED <<limit, open>>

Next == Put \/ Take \/ Resize \/ Close \/ Discard

Spec == Init /\ [][Next]_<<buffer, limit, open>>

=============================================================================
