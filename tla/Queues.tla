------------------------------- MODULE Queues -------------------------------
(* Queues of the DRAM controller (std::deque) as sequences. *)
EXTENDS Naturals, Sequences

\* The packet at position k is moved to the head and popped there.
erase(q, k) == SubSeq(q, 1, k - 1) \o SubSeq(q, k + 1, Len(q))

=============================================================================
