---------------------------------- MODULE Ring ----------------------------------
(* stats.RingBuffer: a circular buffer of fixed capacity. *)
EXTENDS Integers, Sequences

(* Mutants, used by the sensitivity checks only. *)

\* A reader that starts a place too late.
OffByOne(rb) == (rb.head - rb.count + rb.capacity + 1) % rb.capacity

NewRing(capacity, blank) ==
  [data |-> [i \in 0..(capacity - 1) |-> blank],
   capacity |-> capacity, head |-> 0, count |-> 0]

Add(rb, item) ==
  [rb EXCEPT !.data = [@ EXCEPT ![rb.head] = item],
             !.head = (rb.head + 1) % rb.capacity,
             !.count = IF rb.count < rb.capacity THEN rb.count + 1 ELSE rb.count]

Start(rb) == (rb.head - rb.count + rb.capacity) % rb.capacity

Slice(rb) ==
  [i \in 1..rb.count |-> rb.data[(Start(rb) + i - 1) % rb.capacity]]

Rings(Items, N) ==
  {rb \in [data : [0..(N - 1) -> Items], capacity : {N}, head : 0..(N - 1), count : 0..N] :
     rb.count < N => rb.head = rb.count}

=============================================================================
