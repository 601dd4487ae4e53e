---------------------------- MODULE LossyStream ----------------------------
(***************************************************************************)
(* What the market-data side promises: each reader is offered a stream of  *)
(* events and gets some of them, in order, each with its position in the   *)
(* stream.  Positions that were skipped are the events of this stream that *)
(* were lost, so the reader knows of them, and where they were.  An event  *)
(* that never entered the stream leaves no position.                       *)
(***************************************************************************)
EXTENDS Naturals, Sequences

CONSTANTS Readers, Events

VARIABLES offered,      \* offered[r]: the stream of r
          received      \* received[r]: what r got, [seq |-> position, event |-> event]

LastSeq(r) == IF received[r] = << >> THEN 0 ELSE received[r][Len(received[r])].seq

Offer(r) ==
    /\ \E e \in Events : offered' = [offered EXCEPT ![r] = Append(@, e)]
    /\ UNCHANGED received

Receive(r) ==
    /\ \E p \in LastSeq(r) + 1 .. Len(offered[r]) :
          received' = [received EXCEPT ![r] = Append(@, [seq |-> p, event |-> offered[r][p]])]
    /\ UNCHANGED offered

LInit ==
    /\ offered = [r \in Readers |-> << >>]
    /\ received = [r \in Readers |-> << >>]

LNext == \E r \in Readers : Offer(r) \/ Receive(r)

LSpec == LInit /\ [][LNext]_<<offered, received>>
=============================================================================
