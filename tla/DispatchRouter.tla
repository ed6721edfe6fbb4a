---------------------------- MODULE DispatchRouter ----------------------------
(***************************************************************************)
(* One address of the dispatch router, between a simple_send and a         *)
(* simple_recv process.  The router is not part of the repository: this is *)
(* what the two programs of apps/CPP see of it.  It forwards messages in   *)
(* order, gives the sender credit while a receiver is attached, tells the  *)
(* sender of every message that was settled, and releases what a departed  *)
(* receiver left behind.  It may close the sender's connection unasked.    *)
(***************************************************************************)
EXTENDS Integers, Sequences

CONSTANTS Capacity,   \* how many messages the router holds for the address
          MayDismiss  \* may the router close a connection it was not asked to close?

ASSUME CapacityAssumption == Capacity \in Nat \ {0}
ASSUME DismissAssumption == MayDismiss \in BOOLEAN

VARIABLES queue,    \* messages sent and not settled, in order: [id, try];
                    \* the last ones may still be on their way to the router
          settles,  \* settlements on their way to the sender's connection
          sConn,    \* the connection of the sender, at its own end
          rConn,    \* the connection of the receiver, at its own end
          dismissed \* did the router close the sender's connection unasked?

routerVars == <<queue, settles, sConn, rConn, dismissed>>

\* "closing": closed by the client, the router's answer is on its way.
ConnStates == {"none", "open", "closing", "gone"}

RouterInit ==
    /\ queue = <<>> /\ settles = 0 /\ sConn = "none" /\ rConn = "none"
    /\ dismissed = FALSE

\* Credit outlives the close of a link, but what is sent on it is lost.
Credit ==
    /\ sConn \in {"open", "closing"} /\ rConn = "open"
    /\ Len(queue) < Capacity

Forward(msg) == IF sConn = "open" /\ ~dismissed THEN Append(queue, msg) ELSE queue

\* What the end of the sender's connection leaves of the queue: the last messages
\* of its current attempt may not have reached the router.
Reached(try) ==
    {SubSeq(queue, 1, n) : n \in
        {k \in 0..Len(queue) : \A i \in (k + 1)..Len(queue) : queue[i].try = try}}

\* The head of the queue is settled; a sender that reconnected since it sent
\* the message (try is its current attempt) does not hear of it.
SettleHead(try) ==
    /\ queue' = Tail(queue)
    /\ settles' = IF Head(queue).try = try /\ sConn \in {"open", "closing"} /\ ~dismissed
                  THEN settles + 1 ELSE settles

\* The receiver is gone: what it did not take goes back to the sender.
Release(try) ==
    /\ rConn = "gone" /\ queue # <<>>
    /\ SettleHead(try)
    /\ UNCHANGED <<sConn, rConn, dismissed>>

\* The router closes the sender's connection unasked; settlements that are on their
\* way arrive before the close.
Dismiss(try) ==
    /\ MayDismiss /\ sConn = "open" /\ ~dismissed
    /\ dismissed' = TRUE
    /\ queue' \in Reached(try)
    /\ UNCHANGED <<settles, sConn, rConn>>
=============================================================================
