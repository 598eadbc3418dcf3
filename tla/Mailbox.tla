------------------------------ MODULE Mailbox ------------------------------
(***************************************************************************)
(* What a shard promises to the rest of the program, without its queue,    *)
(* its wake channel and its consumer loop: requests arrive one at a time,  *)
(* and what has been handled is at every moment a prefix of what arrived,  *)
(* in the order of arrival, with nothing lost and nothing repeated.        *)
(***************************************************************************)
EXTENDS Integers, Sequences

CONSTANT Requests

VARIABLES arrived,    \* the requests in order of arrival
          processed   \* the requests handled so far, in order of handling

mailbox == <<arrived, processed>>

Init == arrived = <<>> /\ processed = <<>>

\* A request that has not been seen before arrives.
Arrive(r) ==
    /\ \A k \in DOMAIN arrived : arrived[k] # r
    /\ arrived' = Append(arrived, r)
    /\ UNCHANGED processed

\* Some of the requests waiting are handled, the oldest first.
Handle ==
    /\ \E n \in (Len(processed) + 1)..Len(arrived) :
          processed' = SubSeq(arrived, 1, n)
    /\ UNCHANGED arrived

Next == (\E r \in Requests : Arrive(r)) \/ Handle

SafeSpec == Init /\ [][Next]_mailbox

\* As long as requests are waiting, some of them are handled eventually.
Spec == SafeSpec /\ WF_mailbox(Handle)
=============================================================================
