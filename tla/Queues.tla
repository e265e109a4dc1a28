------------------------------- MODULE Queues -------------------------------
(* Filtering a queue.                                                      *)
EXTENDS Naturals, Sequences

(* The queue q without the elements of out: SelectSeq, with its recursion  *)
(* written out, so that proofs can expand it.                              *)
Without(q, out) ==
    LET kept[i \in 0 .. Len(q)] ==
            IF i = 0 THEN <<>>
            ELSE IF q[i] \in out THEN kept[i - 1] ELSE Append(kept[i - 1], q[i])
    IN  kept[Len(q)]
=============================================================================
