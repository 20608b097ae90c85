---------------------------- MODULE BoundedFifo ----------------------------
(***************************************************************************)
(* What LogQueue promises its callers: a first-in first-out queue of at    *)
(* most Capacity items.  Taking an item and handing it over are two steps, *)
(* as between pop's compare-and-swap and its return.  A call may also be   *)
(* refused at any time (push and pop return false), which changes nothing. *)
(***************************************************************************)
EXTENDS Naturals, Sequences

CONSTANTS Consumer, Capacity, Item, NoItem

VARIABLES
    queue,  \* the items in the queue, oldest first
    hand,   \* the item a consumer has removed and not yet been given
    out     \* the item its last call returned

Init ==
    /\ queue = << >>
    /\ hand = [c \in Consumer |-> NoItem]
    /\ out = [c \in Consumer |-> NoItem]

Put ==
    /\ Len(queue) < Capacity
    /\ \E e \in Item : queue' = Append(queue, e)
    /\ UNCHANGED <<hand, out>>

Take(c) ==
    /\ queue # << >>
    /\ hand[c] = NoItem
    /\ hand' = [hand EXCEPT ![c] = Head(queue)]
    /\ queue' = Tail(queue)
    /\ UNCHANGED out

Deliver(c) ==
    /\ hand[c] # NoItem
    /\ out' = [out EXCEPT ![c] = hand[c]]
    /\ hand' = [hand EXCEPT ![c] = NoItem]
    /\ UNCHANGED queue

\* The consumer calls again and forgets the previous item.
Forget(c) ==
    /\ out[c] # NoItem
    /\ out' = [out EXCEPT ![c] = NoItem]
    /\ UNCHANGED <<queue, hand>>

Next == Put \/ \E c \in Consumer : Take(c) \/ Deliver(c) \/ Forget(c)

Spec == Init /\ [][Next]_<<queue, hand, out>>
============================================================================
