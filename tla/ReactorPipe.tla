----------------------------- MODULE ReactorPipe -----------------------------
(***************************************************************************)
(* The connections between the reactor-send processes and the one          *)
(* reactor-recv process, as the proton engine shows them to the handlers   *)
(* of apps/C.  Proton is not part of the repository: what is here is what  *)
(* the handlers rely on.                                                   *)
(*                                                                         *)
(* A connection carries one link.  Transfers arrive in the order they were *)
(* sent and before the close that follows them, so a count of transfers in *)
(* transit is all that a handler can tell.  Credit follows AMQP: a flow    *)
(* frame names the delivery count up to which the sender may go.  granted  *)
(* is the count up to which the flow controller has given credit, named    *)
(* the highest one in a frame that proton has written, limit the highest   *)
(* one the sender has heard of.                                            *)
(*                                                                         *)
(* When a handler closes a connection its link stays open, and the flow    *)
(* controller goes on.  Proton writes its output later: what was granted   *)
(* until then goes out ahead of the close frame, and nothing after it.     *)
(***************************************************************************)
EXTENDS Integers, FiniteSets

CONSTANTS Senders,  \* the reactor-send processes
          Window    \* the credit window of pn_flowcontroller

ASSUME SendersAssumption == IsFiniteSet(Senders) /\ Senders # {}
ASSUME WindowAssumption == Window \in Nat \ {0}

VARIABLES wire,     \* wire[s]: transfers of s sent and not yet dispatched
          limit,    \* limit[s]: the delivery count s may reach, as s knows it
          granted,  \* granted[s]: the delivery count the receiver lets s reach
          named,    \* named[s]: the same, as proton has written it to s
          sLink,    \* sLink[s]: the connection of s, at its own end
          rLink,    \* rLink[s]: the connection of s, at the receiver's end
          acceptor  \* the listening socket of the receiver

pipeVars == <<wire, limit, granted, named, sLink, rLink, acceptor>>

\* "ended": the transport of this end is finished, after both closes or
\* because the peer is gone.
SLinkStates == {"none", "open", "closed", "ended"}

\* "accepted": PN_CONNECTION_INIT dispatched; "active": the link is open;
\* "closing": pn_connection_close called here, and not written yet; "closed":
\* closed by this end alone; "ended": both ends closed, still bound; "unbound":
\* PN_CONNECTION_UNBOUND dispatched and the connection released.
RLinkStates == {"none", "accepted", "active", "closing", "closed", "ended", "unbound"}

AcceptorStates == {"none", "listening", "closed"}

PipeTypeOK ==
    /\ wire \in [Senders -> Nat]
    /\ limit \in [Senders -> Nat]
    /\ granted \in [Senders -> Nat]
    /\ named \in [Senders -> Nat]
    /\ sLink \in [Senders -> SLinkStates]
    /\ rLink \in [Senders -> RLinkStates]
    /\ acceptor \in AcceptorStates

PipeInit ==
    /\ wire = [s \in Senders |-> 0]
    /\ limit = [s \in Senders |-> 0]
    /\ granted = [s \in Senders |-> 0]
    /\ named = [s \in Senders |-> 0]
    /\ sLink = [s \in Senders |-> "none"]
    /\ rLink = [s \in Senders |-> "none"]
    /\ acceptor = "none"

\* Definitions named Bug... are faulty variants of the definition that follows
\* them: slips that the properties must tell from the code.

\* An end without a handshaker, that takes no notice of the other.
BugReceiverGone(s) == FALSE

\* What an end sees once the other has closed, has died or never accepted.
ReceiverGone(s) ==
    \/ rLink[s] \in {"closed", "ended", "unbound"}
    \/ rLink[s] = "none" /\ acceptor # "listening"

SenderGone(s) == sLink[s] \in {"closed", "ended"} /\ wire[s] = 0
=============================================================================
