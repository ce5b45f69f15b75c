----------------------------- MODULE WorkQueue -----------------------------
(***************************************************************************)
(* The fixed-point work queue of the middle end                            *)
(* (crates/evrel-middle/src/js/work_queue.rs): a FIFO queue that holds an  *)
(* item at most once while it is waiting and lets it in again once it has  *)
(* been popped.  The code keeps the waiting items twice, as a VecDeque and *)
(* as a hash set; here the set is the range of the sequence.               *)
(*                                                                         *)
(* A handler pushes a batch of items.  Their order within one batch        *)
(* follows arena order, which no property depends on: Listing orders a     *)
(* batch in an arbitrary but fixed way.                                    *)
(***************************************************************************)
EXTENDS SequencesExt

Listing(S) == SetToSeq(S)

\* MUTANT: an item is pushed although it waits already.
PushAllAgain(queue, batch) == queue \o Listing(batch)

\* Pushes every item of batch that is not already waiting.
PushAll(queue, batch) == queue \o Listing(batch \ ToSet(queue))

IsEmpty(queue) == queue = <<>>
=============================================================================
