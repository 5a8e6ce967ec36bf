-------------------------- MODULE MCScheduledTicks --------------------------
(* A small world for ScheduledTicks: two chunks of two positions.          *)
EXTENDS ScheduledTicks

(* Chunk 0 is always eligible, chunk 1 comes and goes.                     *)
SomeEligibilities == {<<0, TRUE>>, <<1, TRUE>>, <<1, FALSE>>}

Ask(d, p, delay, priority) ==
  [domain |-> d, pos |-> p, type |-> 0, delay |-> delay, priority |-> priority]
(* The first request is as overdue as a delay can be, and a tick later     *)
(* more than that.                                                         *)
SomeRequests == {Ask("block", 1, -DelayHalf, 0), Ask("block", 2, 1, 0)}

(* A chunk saved with a duplicate and an entry outside the chunk.          *)
Entry(p, delay) == [pos |-> p, type |-> 0, delay |-> delay, priority |-> 1]
SomeLoads == {[chunk |-> 0, lists |->
                 [d \in Domains |-> IF d = "fluid" THEN <<>>
                                    ELSE <<Entry(0, 1), Entry(2, 0), Entry(0, 1)>>]]}

SomeClears == {[domain |-> "block", area |-> <<0, 2>>]}
SomeCopies == {[domain |-> "block", area |-> <<0, 1>>, offset |-> 2]}

(* One tick of an area of another owner, of a type this one lacks or not.  *)
SomeForeign == {[domain |-> "block", offset |-> 2, snapshot |->
                   <<[pos |-> 0, type |-> t, trigger |-> 1, priority |-> 0, order |-> 0]>>] :
                  t \in {0, 9}}
=============================================================================
