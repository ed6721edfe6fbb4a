--------------------------- MODULE DirectSoak_proofs ---------------------------
(***************************************************************************)
(* Proofs about DirectSoak, for any count, window and frequencies, any     *)
(* receivers and any number of breaks, as long as the receivers come one   *)
(* after the other and expect all the messages, as in p2p_soak.            *)
(***************************************************************************)
EXTENDS DirectSoak, FiniteSetTheorems, SequenceTheorems, TLAPS

Sequential == AtOnce = 1 /\ Requested <= Expected

LEMMA Constants ==
    /\ Requested \in Nat /\ Freqs \subseteq Nat /\ IsFiniteSet(Receivers)
    /\ Readers \subseteq Receivers /\ Expected \in Nat /\ Expected > 0
    /\ Window \in Nat /\ Window > 0 /\ Breaks \in Nat
BY DirectSendAssumption, DirectSoakAssumption

\* What is on the wire after a burst of n messages.
LEMMA HandedWire ==
    ASSUME NEW s \in Seq(Nat), NEW n \in Nat, NEW m \in Nat
    PROVE  LET t == s \o [i \in 1..n |-> m + i]
           IN  /\ t \in Seq(Nat)
               /\ Len(t) = Len(s) + n
               /\ \A i \in 1..Len(s) : t[i] = s[i]
               /\ \A i \in (Len(s) + 1)..Len(t) : t[i] = m + i - Len(s)
<1> DEFINE e == [i \in 1..n |-> m + i]
<1>1. e \in Seq(Nat) /\ Len(e) = n
  <2>1. e \in [1..n -> Nat] OBVIOUS
  <2>2. e \in Seq(Nat) BY <2>1, SeqDef
  <2> QED BY <2>1, <2>2, LenProperties
<1>2. \A i \in 1..n : e[i] = m + i OBVIOUS
<1>3. Len(s) \in Nat BY LenProperties
<1> HIDE DEF e
<1>4. /\ s \o e \in Seq(Nat) /\ Len(s \o e) = Len(s) + n
      /\ \A i \in 1..(Len(s) + n) :
            (s \o e)[i] = IF i <= Len(s) THEN s[i] ELSE e[i - Len(s)]
  BY <1>1, ConcatProperties
<1>5. \A i \in 1..Len(s) : (s \o e)[i] = s[i]
  BY <1>3, <1>4
<1>6. ASSUME NEW i \in (Len(s) + 1)..Len(s \o e) PROVE (s \o e)[i] = m + i - Len(s)
  <2>1. i \in 1..(Len(s) + n) /\ ~(i <= Len(s)) /\ i - Len(s) \in 1..n
    BY <1>3, <1>4
  <2>2. (s \o e)[i] = e[i - Len(s)] BY <1>4, <2>1
  <2> QED BY <1>2, <1>3, <2>1, <2>2
<1> QED BY <1>4, <1>5, <1>6 DEF e

\* on_sendable sends no more than there is credit and no more than is asked for.
LEMMA BurstBounds ==
    ASSUME sent \in Nat, sent <= Requested, NEW c \in Nat
    PROVE  /\ Burst(c) \in Nat /\ Burst(c) <= c
           /\ sent + Burst(c) <= Requested
           /\ sent = Requested => Burst(c) = 0
BY Constants DEF Burst

LEMMA InitIInv == ASSUME Init PROVE IInv
<1> USE Constants DEF Init, SendInit
<1>1. TypeOK
  <2>1. <<>> \in Seq(Nat) BY EmptySeq
  <2>2. wire \in [Receivers -> Seq(Nat)] BY <2>1
  <2>3. breaks \in 0..Breaks OBVIOUS
  <2> QED BY <2>2, <2>3 DEF TypeOK, SendTypeOK, ConnStates
<1>2. \A r \in Receivers : ~Joined(r) BY DEF Joined
<1>3. FlowInv BY <1>2 DEF FlowInv, Flow
<1>4. IdleInv BY <1>2 DEF IdleInv
<1>5. DeliveryInv BY DEF DeliveryInv
<1>6. RowsInv BY DEF RowsInv
<1> QED BY <1>1, <1>2, <1>3, <1>4, <1>5, <1>6 DEF IInv, OneAtATime

\* A receiver that is not connected, and that a step leaves alone, has no part in
\* the counts.
LEMMA Elsewhere ==
    ASSUME NEW q \in Receivers, Flow(q), ~Joined(q), conn'[q] = conn[q],
           received'[q] = received[q], acks'[q] = acks[q], wire'[q] = wire[q]
    PROVE  Flow(q)' /\ ~Joined(q)'
BY DEF Flow, Joined
-----------------------------------------------------------------------------
(* One lemma for each action. *)

LEMMA ListenIInv ==
    ASSUME IInv, Listen, UNCHANGED <<received, delivered, breaks>>
    PROVE  IInv'
<1> USE DEF IInv, Listen, pipeVars
<1>1. TypeOK' BY DEF TypeOK, SendTypeOK
<1>2. \A r \in Receivers : ~Joined(r) /\ ~Joined(r)' BY DEF IdleInv, Joined
<1>3. FlowInv' BY <1>2, Elsewhere DEF FlowInv, Flow
<1>4. IdleInv' BY <1>2 DEF IdleInv
<1>5. DeliveryInv' /\ RowsInv' BY DEF DeliveryInv, RowsInv, IdleInv
<1> QED BY <1>1, <1>2, <1>3, <1>4, <1>5 DEF OneAtATime

LEMMA OnSendableIInv ==
    ASSUME IInv, NEW r \in Receivers, OnSendable(r),
           UNCHANGED <<received, delivered, breaks>>
    PROVE  IInv'
<1> DEFINE c == credit[r] + grants[r]
           n == Burst(c)
<1>0. /\ sproc = "run" /\ conn[r] \in {"open", "left", "broken"}
      /\ sent \in Nat /\ confirmed \in Nat /\ acks[r] \in Nat /\ c \in Nat
      /\ wire[r] \in Seq(Nat) /\ Len(wire[r]) \in Nat /\ sent <= Requested
  BY LenProperties DEF IInv, TypeOK, SendTypeOK, OnSendable, DeliveryInv
<1>1. /\ n \in Nat /\ n <= c /\ sent + n <= Requested
      /\ sent = Requested => n = 0
  BY <1>0, BurstBounds
<1>2. /\ n = 0 \/ freq # 0
      /\ sent' = sent + n
      /\ rows' = IF n = 0 THEN rows ELSE rows \union Due(n)
      /\ wire' = [wire EXCEPT ![r] = Handed(r, n)]
      /\ credit' = [credit EXCEPT ![r] = c - n]
      /\ grants' = [grants EXCEPT ![r] = 0]
      /\ UNCHANGED <<sproc, freq, listening, confirmed, conn, acks>>
  <2>1. PICK k \in {n} :
           /\ k = 0 \/ freq # 0
           /\ sent' = sent + k
           /\ rows' = IF k = 0 THEN rows ELSE rows \union Due(k)
           /\ wire' = [wire EXCEPT ![r] = Handed(r, k)]
           /\ credit' = [credit EXCEPT ![r] = credit[r] + grants[r] - k]
           /\ grants' = [grants EXCEPT ![r] = 0]
    BY DEF OnSendable
  <2>2. k = n OBVIOUS
  <2>3. UNCHANGED <<sproc, freq, listening, confirmed, conn, acks>>
    BY DEF OnSendable
  <2> HIDE DEF n, c
  <2>4. credit' = [credit EXCEPT ![r] = c - n]
    <3>1. credit' = [credit EXCEPT ![r] = credit[r] + grants[r] - k] BY <2>1
    <3>2. credit[r] + grants[r] - k = c - n
      BY <1>1, <2>2 DEF c, IInv, TypeOK, SendTypeOK
    <3> QED BY <3>1, <3>2
  <2>5. /\ n = 0 \/ freq # 0
        /\ sent' = sent + n /\ rows' = IF n = 0 THEN rows ELSE rows \union Due(n)
    BY <2>1, <2>2
  <2>6. /\ wire' = [wire EXCEPT ![r] = Handed(r, n)]
        /\ grants' = [grants EXCEPT ![r] = 0]
    BY <2>1, <2>2
  <2> QED BY <2>3, <2>4, <2>5, <2>6
<1> DEFINE t == Handed(r, n)
<1>3. /\ t \in Seq(Nat)
      /\ conn[r] = "broken" => t = wire[r]
      /\ conn[r] # "broken" =>
            /\ Len(t) = Len(wire[r]) + n
            /\ \A i \in 1..Len(wire[r]) : t[i] = wire[r][i]
            /\ \A i \in (Len(wire[r]) + 1)..Len(t) : t[i] = sent + i - Len(wire[r])
  <2> HIDE DEF n, c
  <2> DEFINE u == wire[r] \o [i \in 1..n |-> sent + i]
  <2>1. /\ u \in Seq(Nat)
        /\ Len(u) = Len(wire[r]) + n
        /\ \A i \in 1..Len(wire[r]) : u[i] = wire[r][i]
        /\ \A i \in (Len(wire[r]) + 1)..Len(u) : u[i] = sent + i - Len(wire[r])
    <3>1. wire[r] \in Seq(Nat) /\ n \in Nat /\ sent \in Nat BY <1>0, <1>1
    <3> QED BY ONLY <3>1, HandedWire
  <2>2. t = IF conn[r] = "broken" THEN wire[r] ELSE u
    BY DEF Handed
  <2> HIDE DEF t, u
  <2> QED BY <1>0, <2>1, <2>2
<1> HIDE DEF c, n, t
<1>4. wire'[r] = t /\ \A q \in Receivers \ {r} : wire'[q] = wire[q]
  BY <1>2 DEF t, IInv, TypeOK, SendTypeOK
<1>5. \A q \in Receivers : Joined(q)' <=> Joined(q)
  BY <1>2 DEF Joined
<1>6. TypeOK'
  <2>1. Due(n) \subseteq Nat BY <1>0, <1>1 DEF Due
  <2>2. rows' \subseteq Nat BY <1>2, <2>1 DEF IInv, TypeOK, SendTypeOK
  <2>3. wire' \in [Receivers -> Seq(Nat)]
    BY <1>2, <1>3 DEF t, IInv, TypeOK, SendTypeOK
  <2>4. c - n \in Nat BY <1>0, <1>1
  <2>5. credit' \in [Receivers -> Nat] /\ grants' \in [Receivers -> Nat]
    BY <1>2, <2>4 DEF IInv, TypeOK, SendTypeOK
  <2>6. sent' \in Nat BY <1>0, <1>1, <1>2
  <2> QED BY <1>2, <2>2, <2>3, <2>5, <2>6 DEF IInv, TypeOK, SendTypeOK
<1>7. Flow(r)'
  <2>0. /\ wire'[r] = t /\ sent' = sent + n /\ confirmed' = confirmed /\ acks'[r] = acks[r]
        /\ conn'[r] = conn[r] /\ received'[r] = received[r] /\ delivered' = delivered
    BY <1>2, <1>4
  <2>flow. Flow(r) BY DEF IInv, FlowInv
  <2>1. CASE conn[r] = "open"
    <3>1. /\ sent = confirmed + acks[r] + Len(wire[r])
          /\ \A i \in 1..Len(wire[r]) : wire[r][i] = confirmed + acks[r] + i
      BY <2>1, <2>flow DEF Flow, Joined
    <3>2. sent' = confirmed + acks[r] + Len(t)
      <4>1. Len(t) = Len(wire[r]) + n BY <1>3, <2>1
      <4> QED BY <1>0, <1>1, <2>0, <3>1, <4>1
    <3>3. ASSUME NEW i \in 1..Len(t) PROVE t[i] = confirmed + acks[r] + i
      <4>1. CASE i \in 1..Len(wire[r])
        BY <1>3, <2>1, <3>1, <4>1
      <4>2. CASE i \in (Len(wire[r]) + 1)..Len(t)
        <5>1. t[i] = sent + i - Len(wire[r]) BY <1>3, <2>1, <4>2
        <5> QED BY <1>0, <3>1, <5>1
      <4> QED BY <1>0, <1>1, <1>3, <2>1, <4>1, <4>2
    <3> QED BY <2>0, <2>1, <2>flow, <3>2, <3>3 DEF Flow, Joined
  <2>2. CASE conn[r] = "left"
    <3>1. n = 0 /\ sent' = sent /\ wire[r] = <<>> /\ Len(wire[r]) = 0
      BY <1>0, <1>1, <2>0, <2>2, <2>flow, EmptySeq DEF Flow
    <3>2. t = <<>> BY <1>3, <2>2, <3>1, EmptySeq
    <3> QED BY <2>0, <2>2, <2>flow, <3>1, <3>2 DEF Flow, Joined
  <2>3. CASE conn[r] = "broken"
    BY <1>0, <1>1, <1>3, <2>0, <2>3, <2>flow DEF Flow, Joined
  <2> QED BY <1>0, <2>1, <2>2, <2>3
<1>8. FlowInv'
  <2>1. Joined(r) BY <1>0 DEF Joined
  <2>2. ASSUME NEW q \in Receivers \ {r} PROVE Flow(q)'
    <3>1. ~Joined(q) BY <2>1 DEF IInv, OneAtATime
    <3> QED BY <3>1, <1>2, <1>4, Elsewhere DEF IInv, FlowInv
  <2> QED BY <1>7, <2>2 DEF FlowInv
<1>9. IdleInv'
  <2>1. Joined(r) /\ Joined(r)' BY <1>0, <1>5 DEF Joined
  <2> QED BY <1>0, <1>2, <2>1 DEF IInv, IdleInv
<1>10. DeliveryInv'
  BY <1>0, <1>1, <1>2 DEF IInv, DeliveryInv
<1>11. RowsInv'
  BY <1>0, <1>1, <1>2 DEF IInv, RowsInv, Due
<1> QED BY <1>5, <1>6, <1>8, <1>9, <1>10, <1>11 DEF IInv, OneAtATime

LEMMA DivideByZeroIInv ==
    ASSUME IInv, NEW r \in Receivers, DivideByZero(r),
           UNCHANGED <<received, delivered, breaks>>
    PROVE  IInv'
<1>1. /\ sproc' = "crashed" /\ listening' = FALSE /\ sent' = sent + 1
      /\ conn' = [q \in Receivers |-> IF Joined(q) THEN "gone" ELSE conn[q]]
      /\ UNCHANGED <<freq, confirmed, rows, credit, grants, wire, acks>>
  BY DEF DivideByZero
<1>2. sent + 1 <= Requested
  <2> DEFINE c == credit[r] + grants[r]
  <2>1. c \in Nat /\ sent \in Nat /\ sent <= Requested
    BY DEF IInv, TypeOK, SendTypeOK, DeliveryInv
  <2>2. Burst(c) > 0 BY DEF DivideByZero
  <2> QED BY <2>1, <2>2, BurstBounds, Constants
<1>3. \A q \in Receivers : ~Joined(q)' /\ (conn'[q] = conn[q] \/ conn'[q] = "gone")
  BY <1>1 DEF Joined
<1>4. TypeOK'
  <2>1. conn' \in [Receivers -> ConnStates]
    BY <1>1 DEF IInv, TypeOK, SendTypeOK, ConnStates
  <2>2. sent' \in Nat BY <1>1 DEF IInv, TypeOK, SendTypeOK
  <2> QED BY <1>1, <2>1, <2>2 DEF IInv, TypeOK, SendTypeOK
<1>5. ASSUME NEW q \in Receivers PROVE Flow(q)'
  <2>1. /\ conn'[q] \notin {"open", "left", "closing", "broken"}
        /\ conn'[q] = "off" => conn[q] = "off"
    BY <1>3 DEF Joined
  <2>2. conn[q] = "off" => received[q] = 0 /\ acks[q] = 0 /\ wire[q] = <<>>
    BY DEF IInv, FlowInv, Flow
  <2> QED BY <1>1, <2>1, <2>2 DEF Flow, Joined
<1>6. FlowInv' BY <1>5 DEF FlowInv
<1>7. DeliveryInv'
  BY <1>1, <1>2 DEF IInv, DeliveryInv, TypeOK, SendTypeOK
<1>8. IdleInv' /\ RowsInv' /\ OneAtATime'
  BY <1>1, <1>3 DEF IdleInv, RowsInv, OneAtATime
<1> QED BY <1>4, <1>6, <1>7, <1>8 DEF IInv

LEMMA OnAcceptedIInv ==
    ASSUME IInv, NEW r \in Receivers, OnAccepted(r),
           UNCHANGED <<received, delivered, breaks>>
    PROVE  IInv'
<1>0. /\ sproc = "run" /\ Joined(r) /\ acks[r] \in Nat /\ acks[r] > 0
      /\ acks' = [acks EXCEPT ![r] = acks[r] - 1]
      /\ confirmed' = confirmed + 1 /\ confirmed \in Nat /\ sent \in Nat
      /\ UNCHANGED <<sproc, freq, sent, rows, credit, grants, wire>>
      /\ wire[r] \in Seq(Nat) /\ Len(wire[r]) \in Nat
  BY LenProperties DEF IInv, TypeOK, SendTypeOK, OnAccepted
<1>1. \/ /\ confirmed' = Requested /\ listening' = FALSE
         /\ conn' = [conn EXCEPT ![r] = CASE conn[r] = "open" -> "closing"
                                          [] conn[r] = "broken" -> "gone"
                                          [] OTHER -> conn[r]]
      \/ confirmed' # Requested /\ UNCHANGED <<listening, conn>>
  BY DEF OnAccepted, AllConfirmed, IInv, TypeOK, SendTypeOK
<1>2. acks'[r] = acks[r] - 1 /\ \A q \in Receivers \ {r} : acks'[q] = acks[q]
  BY <1>0 DEF IInv, TypeOK, SendTypeOK
<1>3. /\ \A q \in Receivers \ {r} : conn'[q] = conn[q]
      /\ conn[r] \in {"open", "left", "closing", "broken"}
      /\ \/ confirmed' # Requested /\ conn'[r] = conn[r]
         \/ confirmed' = Requested /\ conn'[r] = "closing" /\ conn[r] = "open"
         \/ confirmed' = Requested /\ conn'[r] = "gone" /\ conn[r] = "broken"
         \/ confirmed' = Requested /\ conn'[r] = conn[r] /\ conn[r] \in {"left", "closing"}
  BY <1>0, <1>1 DEF IInv, TypeOK, SendTypeOK, Joined
<1>4. confirmed' <= sent
  BY <1>0 DEF IInv, FlowInv, Flow, Joined
<1>5. \A q \in Receivers \ {r} : ~Joined(q)
  BY <1>0 DEF IInv, OneAtATime
<1>6. TypeOK'
  <2>1. acks' \in [Receivers -> Nat] BY <1>0 DEF IInv, TypeOK, SendTypeOK
  <2>2. conn' \in [Receivers -> ConnStates]
    BY <1>1 DEF IInv, TypeOK, SendTypeOK, ConnStates
  <2>3. listening' \in BOOLEAN BY <1>1 DEF IInv, TypeOK, SendTypeOK
  <2> QED BY <1>0, <2>1, <2>2, <2>3 DEF IInv, TypeOK, SendTypeOK
<1>7. Flow(r)'
  <2>1. confirmed' + acks'[r] = confirmed + acks[r]
    BY <1>0, <1>2
  <2>2. /\ wire'[r] = wire[r] /\ received'[r] = received[r]
        /\ sent' = sent /\ delivered' = delivered
    BY <1>0
  <2>flow. Flow(r) BY DEF IInv, FlowInv
  <2>3. CASE conn'[r] = conn[r]
    <3>1. conn[r] = "closing" => confirmed' = Requested \/ acks[r] = 0
      BY <1>0, <1>4, <2>flow, Constants DEF Flow, IInv, DeliveryInv
    <3> QED BY <1>0, <2>1, <2>2, <2>3, <2>flow, <3>1 DEF Flow, Joined
  <2>4. CASE conn[r] = "open" /\ conn'[r] = "closing" /\ confirmed' = Requested
    BY <2>1, <2>2, <2>4, <2>flow DEF Flow, Joined
  <2>5. CASE conn'[r] = "gone"
    BY <2>5 DEF Flow, Joined
  <2> QED BY <1>3, <2>3, <2>4, <2>5
<1>8. FlowInv'
  <2>1. ASSUME NEW q \in Receivers \ {r} PROVE Flow(q)'
    BY <1>0, <1>2, <1>3, <1>5, Elsewhere DEF IInv, FlowInv
  <2> QED BY <1>7, <2>1 DEF FlowInv
<1>9. \A q \in Receivers \ {r} : ~Joined(q)' BY <1>3, <1>5 DEF Joined
<1>10. DeliveryInv'
  <2>1. 1..(confirmed + acks[r]) \subseteq delivered
    BY <1>0 DEF IInv, FlowInv, Flow
  <2>2. 1..confirmed' \subseteq delivered BY <1>0, <2>1
  <2> QED BY <1>0, <1>4, <2>2 DEF IInv, DeliveryInv
<1>11. IdleInv'
  <2>1. Joined(r)' \/ sent' = confirmed'
    <3>1. sent <= Requested BY DEF IInv, DeliveryInv
    <3>2. confirmed' = Requested => sent' = confirmed' BY <1>0, <1>4, <3>1, Constants
    <3> QED BY <1>3, <3>2 DEF Joined
  <2>2. sproc' = "run" /\ sproc = "run" BY <1>0
  <2>3. ~listening' => confirmed' = Requested
    <3>1. ~listening /\ confirmed' # Requested => FALSE
      BY <1>0, <1>4, <2>2, Constants DEF IInv, IdleInv, DeliveryInv
    <3> QED BY <1>1, <3>1
  <2> QED BY <2>1, <2>2, <2>3 DEF IdleInv
<1>12. RowsInv' BY <1>0 DEF IInv, RowsInv
<1> QED BY <1>6, <1>8, <1>9, <1>10, <1>11, <1>12 DEF IInv, OneAtATime

LEMMA OnDisconnectedIInv ==
    ASSUME IInv, NEW r \in Receivers, OnDisconnected(r),
           UNCHANGED <<received, delivered, breaks>>
    PROVE  IInv'
<1>0. /\ sproc = "run" /\ conn[r] = "broken" /\ conn' = [conn EXCEPT ![r] = "gone"]
      /\ sent' = confirmed /\ confirmed \in Nat /\ sent \in Nat /\ confirmed <= sent
      /\ UNCHANGED <<sproc, freq, listening, confirmed, rows, credit, grants, wire, acks>>
  BY DEF OnDisconnected, Resume, IInv, TypeOK, SendTypeOK, DeliveryInv
<1>1. conn'[r] = "gone" /\ \A q \in Receivers \ {r} : conn'[q] = conn[q]
  BY <1>0 DEF IInv, TypeOK, SendTypeOK
<1>2. \A q \in Receivers \ {r} : ~Joined(q)
  BY <1>0 DEF IInv, OneAtATime, Joined
<1>3. \A q \in Receivers : ~Joined(q)'
  BY <1>1, <1>2 DEF Joined
<1>4. TypeOK'
  BY <1>0 DEF IInv, TypeOK, SendTypeOK, ConnStates
<1>5. FlowInv'
  <2>1. Flow(r)' BY <1>1 DEF Flow, Joined
  <2>2. ASSUME NEW q \in Receivers \ {r} PROVE Flow(q)'
    BY <1>0, <1>1, <1>2, Elsewhere DEF IInv, FlowInv
  <2> QED BY <2>1, <2>2 DEF FlowInv
<1>6. IdleInv' BY <1>0, <1>3 DEF IInv, IdleInv
<1>7. DeliveryInv' BY <1>0, Constants DEF IInv, DeliveryInv
<1>8. RowsInv' BY <1>0 DEF IInv, RowsInv
<1> QED BY <1>3, <1>4, <1>5, <1>6, <1>7, <1>8 DEF IInv, OneAtATime

LEMMA OnClosedIInv ==
    ASSUME IInv, NEW r \in Receivers, OnClosed(r),
           UNCHANGED <<received, delivered, breaks>>
    PROVE  IInv'
<1>0. /\ sproc = "run" /\ conn[r] = "left" /\ conn' = [conn EXCEPT ![r] = "gone"]
      /\ acks[r] = 0 /\ wire' = [wire EXCEPT ![r] = <<>>]
      /\ UNCHANGED <<sendVars, credit, grants, acks>>
  BY DEF OnClosed
<1>1. /\ conn'[r] = "gone" /\ \A q \in Receivers \ {r} : conn'[q] = conn[q]
      /\ \A q \in Receivers \ {r} : wire'[q] = wire[q]
  BY <1>0 DEF IInv, TypeOK, SendTypeOK
<1>2. \A q \in Receivers \ {r} : ~Joined(q)
  BY <1>0 DEF IInv, OneAtATime, Joined
<1>3. \A q \in Receivers : ~Joined(q)'
  BY <1>1, <1>2 DEF Joined
<1>4. TypeOK'
  <2>1. <<>> \in Seq(Nat) BY EmptySeq
  <2>2. wire' \in [Receivers -> Seq(Nat)] BY <1>0, <2>1 DEF IInv, TypeOK, SendTypeOK
  <2>3. conn' \in [Receivers -> ConnStates]
    BY <1>0 DEF IInv, TypeOK, SendTypeOK, ConnStates
  <2> QED BY <1>0, <2>2, <2>3 DEF IInv, TypeOK, SendTypeOK, sendVars
<1>5. FlowInv'
  <2>1. Flow(r)' BY <1>1 DEF Flow, Joined
  <2>2. ASSUME NEW q \in Receivers \ {r} PROVE Flow(q)'
    BY <1>0, <1>1, <1>2, Elsewhere DEF IInv, FlowInv
  <2> QED BY <2>1, <2>2 DEF FlowInv
<1>6. sent = confirmed
  <2>1. sent = confirmed + acks[r] + Len(wire[r]) /\ wire[r] = <<>>
    BY <1>0 DEF IInv, FlowInv, Flow
  <2>2. Len(wire[r]) = 0 BY <2>1, EmptySeq
  <2> QED BY <1>0, <2>1, <2>2 DEF IInv, TypeOK, SendTypeOK
<1>7. IdleInv' BY <1>0, <1>3, <1>6 DEF IInv, IdleInv, sendVars
<1>8. DeliveryInv' /\ RowsInv' BY <1>0 DEF IInv, DeliveryInv, RowsInv, sendVars
<1> QED BY <1>3, <1>4, <1>5, <1>7, <1>8 DEF IInv, OneAtATime

LEMMA ExitIInv ==
    ASSUME IInv, Exit, UNCHANGED <<received, delivered, breaks>>
    PROVE  IInv'
<1> USE DEF IInv, Exit, pipeVars
<1>1. TypeOK' BY DEF TypeOK, SendTypeOK
<1>2. \A r \in Receivers : ~Joined(r) /\ ~Joined(r)' BY DEF Joined
<1>3. FlowInv' BY <1>2, Elsewhere DEF FlowInv, Flow
<1>4. IdleInv' BY <1>2 DEF IdleInv
<1>5. DeliveryInv' /\ RowsInv' BY DEF DeliveryInv, RowsInv
<1> QED BY <1>1, <1>2, <1>3, <1>4, <1>5 DEF OneAtATime

LEMMA ConnectIInv ==
    ASSUME Sequential, IInv, NEW r \in Receivers, Connect(r)
    PROVE  IInv'
<1> USE DEF Connect, sendVars
<1>0. conn[r] = "off" /\ received[r] = 0 /\ acks[r] = 0 /\ wire[r] = <<>>
  BY DEF IInv, FlowInv, Flow
<1>1. ASSUME NEW q \in Receivers \ {r}
      PROVE  conn'[q] = conn[q] /\ (Joined(q)' <=> Joined(q))
  BY DEF IInv, TypeOK, SendTypeOK, Joined
<1>2. DeliveryInv' /\ RowsInv' BY DEF IInv, DeliveryInv, RowsInv
<1>3. TypeOK'
  <2>1. conn' \in [Receivers -> ConnStates] /\ grants' \in [Receivers -> Nat]
    BY Constants DEF IInv, TypeOK, SendTypeOK, ConnStates
  <2> QED BY <2>1 DEF IInv, TypeOK, SendTypeOK
<1>4. CASE listening
  <2> DEFINE J == {q \in Receivers : Joined(q)}
  <2>1. J = {}
    <3>1. IsFiniteSet(J) BY Constants, FS_Subset
    <3>2. Cardinality(J) < 1 BY <1>4 DEF Sequential
    <3>3. Cardinality(J) \in Nat BY <3>1, FS_CardinalityType
    <3>4. Cardinality(J) = 0 BY <3>2, <3>3
    <3> QED BY <3>1, <3>4, FS_EmptySet
  <2>2. \A q \in Receivers : ~Joined(q) BY <2>1
  <2>3. conn'[r] = "open" BY <1>4 DEF IInv, TypeOK, SendTypeOK
  <2>4. sproc = "run" /\ sent = confirmed BY <1>4, <2>2 DEF IInv, IdleInv
  <2>5. Flow(r)'
    <3>1. Len(wire[r]) = 0 BY <1>0, EmptySeq
    <3>2. 1..confirmed \subseteq delivered /\ confirmed \in Nat /\ sent \in Nat
      BY DEF IInv, DeliveryInv, TypeOK, SendTypeOK
    <3>3. /\ confirmed + acks[r] = confirmed /\ received[r] <= confirmed
          /\ confirmed + acks[r] + Len(wire[r]) = confirmed
      BY <1>0, <3>1, <3>2
    <3>4. \A i \in 1..Len(wire[r]) : wire[r][i] = confirmed + acks[r] + i
      BY <3>1
    <3> QED BY <2>3, <2>4, <3>2, <3>3, <3>4 DEF Flow, Joined
  <2>6. FlowInv'
    <3>1. ASSUME NEW q \in Receivers \ {r} PROVE Flow(q)'
      BY <1>1, <2>2, Elsewhere DEF IInv, FlowInv
    <3> QED BY <2>5, <3>1 DEF FlowInv
  <2>7. OneAtATime' BY <1>1, <2>2 DEF OneAtATime
  <2>8. IdleInv'
    <3>1. Joined(r)' BY <2>3 DEF Joined
    <3> QED BY <2>4, <3>1 DEF IInv, IdleInv
  <2> QED BY <1>2, <1>3, <2>6, <2>7, <2>8 DEF IInv
<1>5. CASE ~listening
  <2>1. conn'[r] = "gone" BY <1>5 DEF IInv, TypeOK, SendTypeOK
  <2>2. ~Joined(r) /\ ~Joined(r)' BY <1>0, <2>1 DEF Joined
  <2>3. \A q \in Receivers : (Joined(q)' <=> Joined(q)) BY <1>1, <2>2
  <2>4. OneAtATime' BY <2>3 DEF IInv, OneAtATime
  <2>5. FlowInv'
    <3>1. Flow(r)' BY <2>1 DEF Flow, Joined
    <3>2. ASSUME NEW q \in Receivers \ {r} PROVE Flow(q)'
      <4>1. Flow(q) BY DEF IInv, FlowInv
      <4>2. conn'[q] = conn[q] BY <1>1
      <4> QED BY <4>1, <4>2 DEF Flow, Joined
    <3> QED BY <3>1, <3>2 DEF FlowInv
  <2>6. IdleInv' BY <2>3 DEF IInv, IdleInv
  <2> QED BY <1>2, <1>3, <2>4, <2>5, <2>6 DEF IInv
<1> QED BY <1>4, <1>5

\* A reader that has a message to take is connected and not yet at the end.
LEMMA Taking ==
    ASSUME Sequential, IInv, NEW r \in Receivers, Take(r)
    PROVE  /\ conn[r] = "open" /\ wire[r] \in Seq(Nat) /\ wire[r] # <<>>
           /\ Len(wire[r]) \in Nat /\ Len(wire[r]) > 0
           /\ sent \in Nat /\ confirmed \in Nat /\ acks[r] \in Nat /\ received[r] \in Nat
           /\ sent = confirmed + acks[r] + Len(wire[r]) /\ sent <= Requested
           /\ Head(wire[r]) = confirmed + acks[r] + 1
           /\ received[r] < Expected
<1>1. /\ conn[r] \in {"open", "left", "closing"} /\ wire[r] # <<>>
      /\ wire[r] \in Seq(Nat) /\ sent \in Nat /\ confirmed \in Nat
      /\ acks[r] \in Nat /\ received[r] \in Nat
  BY DEF Take, IInv, TypeOK, SendTypeOK
<1>2. Len(wire[r]) \in Nat /\ Len(wire[r]) > 0
  <2>1. Len(wire[r]) \in Nat /\ Len(wire[r]) # 0
    BY <1>1, LenProperties, EmptySeq
  <2> QED BY <2>1
<1>3. /\ sent = confirmed + acks[r] + Len(wire[r]) /\ received[r] <= confirmed + acks[r]
      /\ conn[r] # "left"
      /\ conn[r] = "closing" => confirmed = Requested
      /\ \A i \in 1..Len(wire[r]) : wire[r][i] = confirmed + acks[r] + i
      /\ sent <= Requested
  BY <1>1 DEF IInv, FlowInv, Flow, Joined, DeliveryInv
<1>4. conn[r] = "open"
  <2>1. confirmed # Requested BY <1>1, <1>2, <1>3, Constants
  <2> QED BY <1>1, <1>3, <2>1
<1>5. Head(wire[r]) = confirmed + acks[r] + 1
  <2>1. Head(wire[r]) = wire[r][1] /\ 1 \in 1..Len(wire[r])
    BY <1>1, <1>2, HeadTailProperties
  <2> QED BY <1>3, <2>1
<1>6. received[r] < Expected
  <2>1. received[r] < Requested BY <1>1, <1>2, <1>3, Constants
  <2>2. Requested <= Expected BY DEF Sequential
  <2> QED BY <1>1, <2>1, <2>2, Constants
<1> QED BY <1>1, <1>2, <1>3, <1>4, <1>5, <1>6

LEMMA TakeIInv ==
    ASSUME Sequential, IInv, NEW r \in Receivers, Take(r)
    PROVE  IInv'
<1> DEFINE k == confirmed + acks[r]
           t == Tail(wire[r])
<1>0. /\ conn[r] = "open" /\ wire[r] \in Seq(Nat) /\ wire[r] # <<>>
      /\ Len(wire[r]) \in Nat /\ Len(wire[r]) > 0
      /\ sent \in Nat /\ confirmed \in Nat /\ acks[r] \in Nat /\ received[r] \in Nat
      /\ sent = k + Len(wire[r]) /\ sent <= Requested /\ k \in Nat
      /\ Head(wire[r]) = k + 1 /\ received[r] < Expected
  BY Taking
<1>1. /\ wire' = [wire EXCEPT ![r] = t] /\ acks' = [acks EXCEPT ![r] = acks[r] + 1]
      /\ grants' = [grants EXCEPT ![r] = grants[r] + 1]
      /\ delivered' = delivered \union {k + 1}
      /\ received' = [received EXCEPT ![r] = received[r] + 1]
      /\ conn' = IF received'[r] = Expected /\ conn[r] = "open"
                 THEN [conn EXCEPT ![r] = "left"] ELSE conn
      /\ UNCHANGED <<sendVars, credit, breaks>>
  BY <1>0 DEF Take
<1>2. /\ t \in Seq(Nat) /\ Len(t) = Len(wire[r]) - 1
      /\ \A i \in 1..Len(t) : t[i] = wire[r][i + 1]
  BY <1>0, HeadTailProperties
<1> HIDE DEF t, k
<1>3. /\ wire'[r] = t /\ acks'[r] = acks[r] + 1 /\ received'[r] = received[r] + 1
      /\ conn'[r] = IF received[r] + 1 = Expected THEN "left" ELSE "open"
  BY <1>0, <1>1 DEF IInv, TypeOK, SendTypeOK
<1>4. ASSUME NEW q \in Receivers \ {r}
      PROVE  /\ conn'[q] = conn[q] /\ wire'[q] = wire[q]
             /\ acks'[q] = acks[q] /\ received'[q] = received[q]
  BY <1>1 DEF IInv, TypeOK, SendTypeOK
<1>5. TypeOK'
  <2>1. wire' \in [Receivers -> Seq(Nat)] BY <1>1, <1>2 DEF IInv, TypeOK, SendTypeOK
  <2>2. acks' \in [Receivers -> Nat] /\ grants' \in [Receivers -> Nat]
    BY <1>1 DEF IInv, TypeOK, SendTypeOK
  <2>3. received' \in [Receivers -> Nat] BY <1>1 DEF IInv, TypeOK
  <2>4. conn' \in [Receivers -> ConnStates]
    BY <1>1 DEF IInv, TypeOK, SendTypeOK, ConnStates
  <2>5. delivered' \subseteq Nat BY <1>0, <1>1 DEF IInv, TypeOK
  <2> QED BY <1>1, <2>1, <2>2, <2>3, <2>4, <2>5 DEF IInv, TypeOK, SendTypeOK, sendVars
<1>6. 1..(k + 1) \subseteq delivered'
  <2>1. 1..k \subseteq delivered
    BY <1>0 DEF k, IInv, FlowInv, Flow, Joined
  <2>2. 1..(k + 1) \subseteq 1..k \union {k + 1}
    <3>1. k \in Nat BY <1>0
    <3> QED BY <3>1
  <2> QED BY <1>1, <2>1, <2>2
<1>7. Flow(r)'
  <2>1. sent' = sent /\ confirmed' = confirmed BY <1>1 DEF sendVars
  <2>2. confirmed + acks'[r] = k + 1 BY <1>0, <1>3 DEF k
  <2>3. sent = confirmed + acks'[r] + Len(t)
    <3>1. sent = k + Len(wire[r]) /\ Len(t) = Len(wire[r]) - 1 BY <1>0, <1>2
    <3>2. k \in Nat /\ Len(wire[r]) \in Nat BY <1>0
    <3> QED BY <2>2, <3>1, <3>2
  <2>4. received'[r] <= confirmed + acks'[r]
    <3>1. received[r] <= k BY <1>0 DEF k, IInv, FlowInv, Flow
    <3> QED BY <1>0, <1>3, <2>2, <3>1
  <2>5. \A i \in 1..Len(t) : t[i] = confirmed + acks'[r] + i
    <3>1. \A i \in 1..Len(wire[r]) : wire[r][i] = k + i
      BY <1>0 DEF k, IInv, FlowInv, Flow, Joined
    <3>2. ASSUME NEW i \in 1..Len(t) PROVE t[i] = confirmed + acks'[r] + i
      <4>1. i + 1 \in 1..Len(wire[r]) /\ i \in Nat BY <1>0, <1>2
      <4>2. t[i] = k + (i + 1) BY <1>2, <3>1, <4>1
      <4>3. k \in Nat /\ confirmed \in Nat /\ acks[r] \in Nat BY <1>0
      <4>4. i \in Nat BY <4>1
      <4>5. acks'[r] \in Nat BY <1>3, <4>3
      <4>6. \A a, b, x, y \in Nat : a + b = x + 1 => x + (y + 1) = a + b + y OBVIOUS
      <4> QED BY <2>2, <4>2, <4>3, <4>4, <4>5, <4>6
    <3> QED BY <3>2
  <2>6. conn'[r] = "left" => sent = Requested /\ t = <<>>
    <3>1. SUFFICES ASSUME received[r] + 1 = Expected PROVE sent = Requested /\ t = <<>>
      BY <1>3
    <3>2. Expected <= k + 1 BY <1>0, <1>3, <2>2, <2>4, <3>1
    <3>3. k + 1 <= sent BY <1>0
    <3>4. sent = Requested /\ Len(wire[r]) = 1
      <4>1. Requested <= Expected /\ Requested \in Nat /\ Expected \in Nat
        BY Constants DEF Sequential
      <4>2. sent = Requested BY <1>0, <3>2, <3>3, <4>1
      <4>3. k + 1 = sent BY <1>0, <3>2, <3>3, <4>1
      <4>4. k \in Nat /\ Len(wire[r]) \in Nat /\ sent = k + Len(wire[r]) /\ sent \in Nat BY <1>0
      <4>5. \A a, x \in Nat : a + 1 = a + x => x = 1 OBVIOUS
      <4>6. k + 1 = k + Len(wire[r]) BY <4>3, <4>4
      <4>7. Len(wire[r]) = 1 BY <4>4, <4>5, <4>6
      <4> QED BY <4>2, <4>7
    <3>5. Len(t) = 0 BY <1>2, <3>4
    <3> QED BY <1>2, <3>4, <3>5, EmptySeq
  <2>7. 1..(confirmed + acks'[r]) \subseteq delivered' BY <1>6, <2>2
  <2>8. conn'[r] \in {"left", "open"} BY <1>3
  <2> QED BY <1>3, <2>1, <2>3, <2>4, <2>5, <2>6, <2>7, <2>8 DEF Flow, Joined
<1>8. \A q \in Receivers \ {r} : ~Joined(q)
  BY <1>0 DEF IInv, OneAtATime, Joined
<1>9. FlowInv'
  <2>1. ASSUME NEW q \in Receivers \ {r} PROVE Flow(q)'
    BY <1>4, <1>8, Elsewhere DEF IInv, FlowInv
  <2> QED BY <1>7, <2>1 DEF FlowInv
<1>10. \A q \in Receivers : Joined(q)' <=> Joined(q)
  <2>1. Joined(r) /\ Joined(r)' BY <1>0, <1>3 DEF Joined
  <2>2. \A q \in Receivers \ {r} : Joined(q)' <=> Joined(q) BY <1>4 DEF Joined
  <2> QED BY <2>1, <2>2
<1>11. OneAtATime' BY <1>10 DEF IInv, OneAtATime
<1>12. IdleInv' BY <1>1, <1>10 DEF IInv, IdleInv, sendVars
<1>13. DeliveryInv'
  <2>1. delivered' \subseteq 1..Requested
    <3>1. k + 1 \in 1..Requested BY <1>0, Constants
    <3> QED BY <1>1, <3>1 DEF IInv, DeliveryInv
  <2>2. \A n \in delivered' : 1..n \subseteq delivered'
    BY <1>1, <1>6 DEF IInv, DeliveryInv
  <2> QED BY <1>1, <2>1, <2>2 DEF IInv, DeliveryInv, sendVars
<1>14. RowsInv' BY <1>1 DEF IInv, RowsInv, sendVars
<1> QED BY <1>5, <1>9, <1>11, <1>12, <1>13, <1>14 DEF IInv

\* The end of a connection, whatever ends it: what is on the wire is lost, and
\* some of the acceptances.
LEMMA CutIInv ==
    ASSUME IInv, NEW r \in Receivers, conn[r] \in {"open", "left", "closing"},
           conn' = [conn EXCEPT ![r] = Lost(r)], wire' = [wire EXCEPT ![r] = <<>>],
           NEW k \in 0..acks[r], acks' = [acks EXCEPT ![r] = k],
           UNCHANGED <<sendVars, credit, grants, received, delivered>>,
           breaks' \in 0..Breaks
    PROVE  IInv'
<1>0. /\ sent \in Nat /\ confirmed \in Nat /\ acks[r] \in Nat /\ k \in Nat /\ k <= acks[r]
      /\ sent' = sent /\ confirmed' = confirmed /\ delivered' = delivered
      /\ sproc' = sproc /\ listening' = listening /\ Len(wire[r]) \in Nat
  BY LenProperties DEF IInv, TypeOK, SendTypeOK, sendVars
<1>1. /\ conn'[r] = Lost(r) /\ wire'[r] = <<>> /\ acks'[r] = k
      /\ Lost(r) \in {"gone", "broken"}
  BY DEF IInv, TypeOK, SendTypeOK, Lost
<1>2. ASSUME NEW q \in Receivers \ {r}
      PROVE  /\ conn'[q] = conn[q] /\ wire'[q] = wire[q]
             /\ acks'[q] = acks[q] /\ received'[q] = received[q]
  BY DEF IInv, TypeOK, SendTypeOK
<1>3. \A q \in Receivers \ {r} : ~Joined(q) /\ ~Joined(q)'
  BY <1>2 DEF IInv, OneAtATime, Joined
<1>4. TypeOK'
  <2>1. <<>> \in Seq(Nat) BY EmptySeq
  <2>2. wire' \in [Receivers -> Seq(Nat)] BY <2>1 DEF IInv, TypeOK, SendTypeOK
  <2>3. conn' \in [Receivers -> ConnStates]
    BY <1>1 DEF IInv, TypeOK, SendTypeOK, ConnStates
  <2>4. acks' \in [Receivers -> Nat] BY <1>0 DEF IInv, TypeOK, SendTypeOK
  <2> QED BY <2>2, <2>3, <2>4 DEF IInv, TypeOK, SendTypeOK, sendVars
<1>5. /\ sent >= confirmed + k /\ 1..(confirmed + k) \subseteq delivered
  <2>1. /\ sent = confirmed + acks[r] + Len(wire[r])
        /\ 1..(confirmed + acks[r]) \subseteq delivered
    BY DEF IInv, FlowInv, Flow, Joined
  <2>2. 1..(confirmed + k) \subseteq 1..(confirmed + acks[r]) BY <1>0
  <2>3. sent >= confirmed + k BY <1>0, <2>1
  <2> QED BY <2>1, <2>2, <2>3
<1>6. Flow(r)'
  <2>1. Len(wire'[r]) = 0 BY <1>1, EmptySeq
  <2> QED BY <1>0, <1>1, <1>5, <2>1 DEF Flow, Joined
<1>7. FlowInv'
  <2>1. ASSUME NEW q \in Receivers \ {r} PROVE Flow(q)'
    BY <1>2, <1>3, Elsewhere DEF IInv, FlowInv
  <2> QED BY <1>6, <2>1 DEF FlowInv
<1>8. IdleInv'
  <2>1. Joined(r) BY DEF Joined
  <2>2. sproc = "run" BY <2>1 DEF IInv, IdleInv
  <2>3. Joined(r)' \/ sent = confirmed
    <3>1. CASE conn[r] = "closing"
      <4>1. confirmed = Requested BY <3>1 DEF IInv, FlowInv, Flow
      <4> QED BY <1>0, <4>1, Constants DEF IInv, DeliveryInv
    <3>2. CASE conn[r] # "closing" BY <1>1, <3>2 DEF Lost, Joined
    <3> QED BY <3>1, <3>2
  <2> QED BY <1>0, <2>2, <2>3 DEF IInv, IdleInv
<1>9. DeliveryInv' /\ RowsInv' BY DEF IInv, DeliveryInv, RowsInv, sendVars
<1> QED BY <1>3, <1>4, <1>7, <1>8, <1>9 DEF IInv, OneAtATime

LEMMA UnbrokenIInv ==
    ASSUME IInv, NEW r \in Receivers, Misread(r) \/ Answer(r)
    PROVE  IInv'
<1>1. /\ conn[r] \in {"open", "left", "closing"}
      /\ conn' = [conn EXCEPT ![r] = Lost(r)] /\ wire' = [wire EXCEPT ![r] = <<>>]
      /\ UNCHANGED <<sendVars, credit, grants, received, delivered>>
      /\ UNCHANGED <<acks, breaks>>
  BY DEF Misread, Answer, Lost
<1>2. /\ acks[r] \in 0..acks[r] /\ acks' = [acks EXCEPT ![r] = acks[r]]
      /\ breaks' \in 0..Breaks
  BY <1>1 DEF IInv, TypeOK, SendTypeOK
<1> QED BY <1>1, <1>2, CutIInv

LEMMA BreakIInv ==
    ASSUME IInv, NEW r \in Receivers, Break(r)
    PROVE  IInv'
<1>1. /\ conn[r] \in {"open", "left", "closing"}
      /\ conn' = [conn EXCEPT ![r] = Lost(r)] /\ wire' = [wire EXCEPT ![r] = <<>>]
      /\ UNCHANGED <<sendVars, credit, grants, received, delivered>>
  BY DEF Break
<1>2. PICK k \in 0..acks[r] : acks' = [acks EXCEPT ![r] = k] BY DEF Break
<1>3. breaks' \in 0..Breaks BY Constants DEF Break, IInv, TypeOK
<1> QED BY <1>1, <1>2, <1>3, CutIInv

LEMMA StutterIInv == ASSUME IInv, UNCHANGED vars PROVE IInv'
BY DEF IInv, vars, sendVars, pipeVars, TypeOK, SendTypeOK, OneAtATime, FlowInv, Flow,
       Joined, IdleInv, DeliveryInv, RowsInv

LEMMA NextIInv == ASSUME Sequential, IInv, [Next]_vars PROVE IInv'
<1>1. CASE Sender
  BY <1>1, ListenIInv, ExitIInv, OnSendableIInv, DivideByZeroIInv, OnAcceptedIInv,
     OnDisconnectedIInv, OnClosedIInv DEF Sender
<1>2. ASSUME NEW r \in Receivers, Connect(r) PROVE IInv' BY <1>2, ConnectIInv
<1>3. ASSUME NEW r \in Receivers, Receiver(r) PROVE IInv'
  BY <1>3, TakeIInv, UnbrokenIInv DEF Receiver
<1>4. ASSUME NEW r \in Receivers, Break(r) PROVE IInv' BY <1>4, BreakIInv
<1> QED BY <1>1, <1>2, <1>3, <1>4, StutterIInv DEF Next
-----------------------------------------------------------------------------
(* The theorems *)

\* However often the connection breaks, what was sent, confirmed, delivered and
\* written to the report stay related as IInv says.
THEOREM Invariance == ASSUME Sequential PROVE Spec => []IInv
<1>1. Init => IInv BY InitIInv
<1>2. IInv /\ [Next]_vars => IInv' BY NextIInv
<1> QED BY <1>1, <1>2, PTL DEF Spec

\* A direct_send that ends well has confirmed, and so reported, every message.
LEMMA AllRowsInv == ASSUME IInv PROVE AllRows
<1>1. SUFFICES ASSUME sproc = "ok" PROVE \A k \in 1..Requested : k % freq = 0 => k \in rows
  BY DEF AllRows
<1>2. confirmed = Requested BY <1>1 DEF IInv, IdleInv
<1>3. sent = Requested
  BY <1>2, Constants DEF IInv, DeliveryInv, TypeOK, SendTypeOK
<1> QED BY <1>1, <1>3 DEF IInv, RowsInv

\* The report of a direct_send that ends well has all its rows.
THEOREM RowsAreAll == ASSUME Sequential PROVE Spec => []AllRows
<1>1. Init => IInv BY InitIInv
<1>2. IInv /\ [Next]_vars => IInv' BY NextIInv
<1>3. IInv => AllRows BY AllRowsInv
<1> QED BY <1>1, <1>2, <1>3, PTL DEF Spec

\* Every step of the programs is a step of the transfer, or none at all.
LEMMA StepRefines ==
    ASSUME Sequential, IInv, Next
    PROVE  Transfer!Next \/ UNCHANGED Transfer!vars
<1> USE DEF Transfer!vars, sendVars
<1>1. ASSUME NEW r \in Receivers, Take(r) PROVE Transfer!Next
  <2> DEFINE k == confirmed + acks[r]
  <2>1. /\ conn[r] = "open" /\ k \in Nat /\ k + 1 \in 1..Requested
        /\ Head(wire[r]) = k + 1
    <3>1. /\ conn[r] = "open" /\ Len(wire[r]) \in Nat /\ Len(wire[r]) > 0
          /\ sent \in Nat /\ confirmed \in Nat /\ acks[r] \in Nat
          /\ sent = confirmed + acks[r] + Len(wire[r]) /\ sent <= Requested
          /\ Head(wire[r]) = confirmed + acks[r] + 1
      BY <1>1, Taking
    <3>2. k \in Nat /\ sent = k + Len(wire[r]) /\ Head(wire[r]) = k + 1 BY <3>1
    <3> HIDE DEF k
    <3>3. k + 1 <= Requested BY <3>1, <3>2, Constants
    <3> QED BY <3>1, <3>2, <3>3, Constants
  <2>2. 1..k \subseteq delivered
    BY <2>1 DEF IInv, FlowInv, Flow, Joined
  <2>3. delivered' = delivered \union {k + 1} /\ UNCHANGED <<sproc, confirmed>>
    BY <1>1, <2>1 DEF Take
  <2> HIDE DEF k
  <2>4. 1..((k + 1) - 1) \subseteq delivered
    <3>1. (k + 1) - 1 = k BY <2>1
    <3> QED BY <2>2, <3>1
  <2> QED BY <2>1, <2>3, <2>4 DEF Transfer!Next, Transfer!Deliver
<1>2. ASSUME NEW r \in Receivers, OnAccepted(r), UNCHANGED <<received, delivered, breaks>>
      PROVE  Transfer!Next
  <2>1. /\ Joined(r) /\ acks[r] \in Nat /\ acks[r] > 0 /\ confirmed \in Nat
        /\ confirmed' = confirmed + 1 /\ sproc' = sproc
    BY <1>2 DEF OnAccepted, IInv, TypeOK, SendTypeOK
  <2>2. 1..(confirmed + acks[r]) \subseteq delivered
    BY <2>1 DEF IInv, FlowInv, Flow
  <2>3. 1..(confirmed + 1) \subseteq delivered BY <2>1, <2>2
  <2> QED BY <1>2, <2>1, <2>3 DEF Transfer!Next, Transfer!Confirm
<1>3. ASSUME Exit, UNCHANGED <<received, delivered, breaks>> PROVE Transfer!Next
  <2>1. confirmed = Requested BY <1>3 DEF Exit, IInv, IdleInv
  <2>2. delivered = 1..Requested BY <2>1 DEF IInv, DeliveryInv
  <2>3. sproc' = "ok" /\ UNCHANGED <<delivered, confirmed>> BY <1>3 DEF Exit
  <2> QED BY <2>1, <2>2, <2>3 DEF Transfer!Next, Transfer!Complete
<1>4. ASSUME Listen, UNCHANGED <<received, delivered, breaks>> PROVE UNCHANGED Transfer!vars
  BY <1>4 DEF Listen
<1>5. ASSUME NEW r \in Receivers, UNCHANGED <<received, delivered, breaks>>,
             \/ OnSendable(r) \/ DivideByZero(r) \/ OnDisconnected(r) \/ OnClosed(r)
      PROVE  UNCHANGED Transfer!vars
  BY <1>5 DEF OnSendable, DivideByZero, OnDisconnected, OnClosed
<1>6. ASSUME NEW r \in Receivers,
             Connect(r) \/ Misread(r) \/ Answer(r) \/ Break(r)
      PROVE  UNCHANGED Transfer!vars
  BY <1>6 DEF Connect, Misread, Answer, Break
<1> QED BY <1>1, <1>2, <1>3, <1>4, <1>5, <1>6 DEF Next, Sender, Receiver

\* direct_send and its receivers implement the transfer without a gap.
THEOREM Refinement == ASSUME Sequential PROVE Spec => NoGap
<1>1. Init => IInv /\ Transfer!Init
  BY InitIInv DEF Init, SendInit, Transfer!Init
<1>2. IInv /\ [Next]_vars => IInv' BY NextIInv
<1>3. IInv /\ [Next]_vars => [Transfer!Next]_Transfer!vars
  <2>1. ASSUME UNCHANGED vars PROVE UNCHANGED Transfer!vars
    BY <2>1 DEF vars, sendVars, Transfer!vars
  <2> QED BY <2>1, StepRefines
<1> QED BY <1>1, <1>2, <1>3, PTL DEF Spec, NoGap, Transfer!Spec
=============================================================================
