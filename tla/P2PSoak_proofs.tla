---------------------------- MODULE P2PSoak_proofs ----------------------------
(***************************************************************************)
(* Proofs about P2PSoak, for any number of senders, any window and counts, *)
(* and whatever fails.  Every result follows from the invariant IInv of    *)
(* P2PSoak, proved conjunct by conjunct below.                             *)
(***************************************************************************)
EXTENDS P2PSoak, FiniteSetTheorems, TLAPS

\* The constants, as the SMT backend needs them.
LEMMA Constants ==
    /\ Window \in Nat /\ Window > 0
    /\ SendCount \in Nat
    /\ RecvCount \in Nat /\ RecvFreq \in Nat
    /\ Timestamping \in BOOLEAN
BY WindowAssumption, SendAssumption, RecvAssumption, StampAssumption

LEMMA Frequencies == ASSUME NEW s \in Senders PROVE SendFreq[s] \in Nat
BY SendAssumption

\* The actions of SLinkFlow and RDelivery change several functions at once;
\* these two lemmas give the values the invariants are about.

\* A run of the sender's while loop sends between none and all of the credit.
LEMMA BurstBounds ==
    ASSUME TypeOK, CreditInv, NEW s \in Senders, NEW lim \in limit[s]..named[s]
    PROVE  /\ Burst(s, lim) \in Nat
           /\ sent[s] + Burst(s, lim) <= lim
           /\ sent[s] + Burst(s, lim) <= SendCount
BY Constants DEF Burst, TypeOK, PipeTypeOK, SendTypeOK, CreditInv, CreditConserved

\* Report rows are message counts.
LEMMA DueRowsType ==
    ASSUME NEW m \in Nat, NEW n \in Nat, NEW f \in Nat
    PROVE  DueRows(m, n, f) \in SUBSET Nat
BY DEF DueRows

\* The rows of two periods that follow each other are the rows of both.
LEMMA DueRowsJoin ==
    ASSUME NEW m \in Nat, NEW n \in Nat, NEW f \in Nat, m <= n
    PROVE  DueRows(0, n, f) = DueRows(0, m, f) \union DueRows(m, n, f)
BY DEF DueRows
-----------------------------------------------------------------------------
(* Types *)

LEMMA InitTypeOK == ASSUME Init PROVE TypeOK
<1>1. PipeTypeOK
  BY DEF Init, PipeInit, PipeTypeOK, SLinkStates, RLinkStates, AcceptorStates
<1>2. SendTypeOK
  BY DEF Init, SendInit, SendTypeOK, ProcStates, FileStates
<1>3. RecvTypeOK
  BY DEF Init, RecvInit, RecvTypeOK
<1> QED BY <1>1, <1>2, <1>3 DEF Init, TypeOK

\* No action writes a value outside the types; the counts need the bounds of
\* CreditInv (a burst is not negative).
LEMMA NextTypeOK ==
    ASSUME TypeOK, CreditInv, [Next]_vars
    PROVE  TypeOK'
<1> USE DEF TypeOK, PipeTypeOK, SendTypeOK, RecvTypeOK,
            SLinkStates, RLinkStates, AcceptorStates, ProcStates, FileStates
<1> USE Constants
<1>die. ASSUME RDie, UNCHANGED sendVars, UNCHANGED saved, pc' \in {pc, "send"}
        PROVE  TypeOK'
  BY <1>die DEF RDie, sendVars
<1>1. CASE LaunchReceiver
  <2>1. CASE RLaunch /\ rproc' = "running"
    BY <1>1, <2>1 DEF LaunchReceiver, RLaunch, RDie, pipeVars, sendVars
  <2>2. CASE RDie
    BY <1>1, <2>2, <1>die DEF LaunchReceiver
  <2> QED BY <1>1, <2>1, <2>2 DEF LaunchReceiver, RLaunch
<1>2. ASSUME NEW s \in Senders, LaunchSender(s) PROVE TypeOK'
  BY <1>2 DEF LaunchSender, SLaunch, recvVars, pipeVars
<1>3. ASSUME NEW s \in Senders, Sending(s) PROVE TypeOK'
  <2> UNCHANGED <<recvVars, pc, saved>> BY <1>3 DEF Sending
  <2>1. CASE SConnectionInit(s)
    BY <2>1 DEF SConnectionInit, recvVars, sendVars
  <2>2. ASSUME NEW lim \in limit[s]..named[s], SDivideByZero(s, lim) PROVE TypeOK'
    BY <2>2 DEF SDivideByZero, recvVars
  <2>3. ASSUME NEW lim \in limit[s]..named[s], SSendAll(s, lim) PROVE TypeOK'
    <3>1. Burst(s, lim) \in Nat /\ sent[s] \in Nat BY BurstBounds
    <3>2. DueRows(sent[s], sent[s] + Burst(s, lim), SendFreq[s]) \in SUBSET Nat
      BY <3>1, DueRowsType, Frequencies
    <3>3. lim \in Nat OBVIOUS
    <3>4. sent' \in [Senders -> Nat] /\ wire' \in [Senders -> Nat]
            /\ limit' \in [Senders -> Nat]
      BY <2>3, <3>1, <3>3 DEF SSendAll
    <3>5. srows' \in [Senders -> SUBSET Nat]
      BY <2>3, <3>2 DEF SSendAll
    <3>6. /\ done' \in [Senders -> BOOLEAN]
          /\ sLink' \in [Senders -> SLinkStates]
          /\ sfp' \in [Senders -> FileStates]
      BY <2>3 DEF SSendAll, Closing, FClose
    <3> QED BY <2>3, <3>4, <3>5, <3>6 DEF SSendAll, recvVars
  <2>4. CASE SRemoteClose(s)
    BY <2>4 DEF SRemoteClose, recvVars, sendVars
  <2>5. CASE SExit(s)
    BY <2>5 DEF SExit, recvVars, pipeVars
  <2> QED BY <1>3, <2>1, <2>2, <2>3, <2>4, <2>5 DEF Sending, SendStep, SLinkFlow
<1>4. CASE Receiving
  <2> UNCHANGED <<sendVars, pc, saved>> BY <1>4 DEF Receiving
  <2>0. CASE RDie
    BY <2>0, <1>die
  <2>1. CASE RReactorInit
    BY <2>1, <2>0 DEF RReactorInit, recvVars, sendVars
  <2>2. CASE RReactorFinal
    BY <2>2 DEF RReactorFinal, NothingOpen, pipeVars, sendVars
  <2>3. ASSUME NEW s \in Senders, RConnectionInit(s) PROVE TypeOK'
    BY <2>3 DEF RConnectionInit, recvVars, sendVars
  <2>4. ASSUME NEW s \in Senders, RLinkRemoteOpen(s) PROVE TypeOK'
    BY <2>4 DEF RLinkRemoteOpen, TooLate, sendVars
  <2>5. ASSUME NEW s \in Senders, RDelivery(s), RCountMessage(s) PROVE TypeOK'
    <3>1. wire' \in [Senders -> Nat] /\ taken' \in [Senders -> Nat] /\ received' \in Nat
      BY <2>5 DEF RCountMessage, RDelivery
    <3>2. granted' \in [Senders -> Nat] /\ named' \in [Senders -> Nat]
      BY <2>5 DEF RCountMessage, TopUp
    <3>3. latencies' \in Nat /\ rrows' \in SUBSET [count : Nat, samples : Nat]
      BY <2>5 DEF RCountMessage, Report, Due, SumAfter
    <3>4. Shutdown \/ UNCHANGED <<shuttingDown, acceptor, rLink>>
      BY <2>5 DEF RCountMessage
    <3>5. shuttingDown' \in BOOLEAN /\ acceptor' \in AcceptorStates
      BY <3>4 DEF Shutdown
    <3>6. rLink' \in [Senders -> RLinkStates]
      BY <3>4 DEF Shutdown
    <3> QED BY <2>5, <3>1, <3>2, <3>3, <3>5, <3>6 DEF RCountMessage, sendVars
  <2>6. ASSUME NEW s \in Senders, RRemoteClose(s) PROVE TypeOK'
    BY <2>6 DEF RRemoteClose, recvVars, sendVars
  <2>7. ASSUME NEW s \in Senders, RUnbound(s) PROVE TypeOK'
    BY <2>7 DEF RUnbound, Forget, sendVars
  <2>8. ASSUME NEW s \in Senders, RWriteClose(s) PROVE TypeOK'
    BY <2>8 DEF RWriteClose, recvVars, sendVars
  <2> QED BY <1>4, <2>0, <2>1, <2>2, <2>3, <2>4, <2>5, <2>6, <2>7, <2>8
          DEF Receiving, RecvStep, RDelivery
<1>5. CASE WaitAndKeep
  BY <1>5 DEF WaitAndKeep, pipeVars, sendVars, recvVars
<1>6. CASE UNCHANGED vars
  BY <1>6 DEF vars, pipeVars, sendVars, recvVars
<1> QED BY <1>1, <1>2, <1>3, <1>4, <1>5, <1>6 DEF Next, Finished
-----------------------------------------------------------------------------
(* Credit *)

LEMMA InitCreditInv == ASSUME Init PROVE CreditInv
BY Constants DEF Init, PipeInit, SendInit, RecvInit, CreditInv, CreditConserved

\* What a step that leaves the counts and the credit alone does to CreditInv.
LEMMA CreditStutter ==
    ASSUME CreditInv,
           UNCHANGED <<wire, limit, granted, named, sent, taken>>,
           \A s \in Senders : rLink'[s] = "active" => rLink[s] = "active",
           \A s \in Senders : rLink'[s] \in {"none", "accepted"} =>
                                  rLink[s] \in {"none", "accepted"}
    PROVE  CreditInv'
BY DEF CreditInv, CreditConserved

\* A sender moves messages from its credit to the wire.
LEMMA CreditSend ==
    ASSUME TypeOK, CreditInv, NEW s \in Senders,
           NEW lim \in limit[s]..named[s], SSendAll(s, lim), UNCHANGED taken
    PROVE  CreditInv'
<1>1. /\ Burst(s, lim) \in Nat
      /\ sent[s] + Burst(s, lim) <= lim
      /\ sent[s] + Burst(s, lim) <= SendCount
  BY BurstBounds
<1>2. ASSUME NEW t \in Senders
      PROVE  /\ sent'[t] = taken'[t] + wire'[t]
             /\ sent'[t] <= limit'[t] /\ limit'[t] <= named'[t] /\ named'[t] <= granted'[t]
             /\ granted'[t] <= taken'[t] + Window
             /\ rLink'[t] = "active" => named'[t] = taken'[t] + Window
             /\ sent'[t] <= SendCount
             /\ rLink'[t] \in {"none", "accepted"} => granted'[t] = 0
             /\ granted'[t] \in {0, taken'[t] + Window}
  BY <1>1, Constants
     DEF SSendAll, TypeOK, PipeTypeOK, SendTypeOK, RecvTypeOK, CreditInv, CreditConserved
<1> QED BY <1>2 DEF CreditInv, CreditConserved

\* The receiver takes a message off the wire and tops the window up; the sender
\* is told while the connection is open.
LEMMA CreditReceive ==
    ASSUME TypeOK, CreditInv, NEW s \in Senders, wire[s] > 0,
           rLink[s] \in {"active", "closing", "closed"}, RCountMessage(s), UNCHANGED sendVars
    PROVE  CreditInv'
<1>1. ASSUME NEW t \in Senders
      PROVE  /\ rLink'[t] = "active" => rLink[t] = "active"
             /\ rLink'[t] \in {"none", "accepted"} => rLink'[t] = rLink[t]
  BY DEF RCountMessage, Enough, Shutdown, TypeOK, PipeTypeOK
<1>2. rLink'[s] \notin {"none", "accepted"}
  BY <1>1
<1>3. ASSUME NEW t \in Senders
      PROVE  /\ sent'[t] = taken'[t] + wire'[t]
             /\ sent'[t] <= limit'[t] /\ limit'[t] <= named'[t] /\ named'[t] <= granted'[t]
             /\ granted'[t] <= taken'[t] + Window
             /\ rLink'[t] = "active" => named'[t] = taken'[t] + Window
             /\ sent'[t] <= SendCount
             /\ rLink'[t] \in {"none", "accepted"} => granted'[t] = 0
             /\ granted'[t] \in {0, taken'[t] + Window}
  <2> /\ sent' = sent /\ limit' = limit
      /\ wire' = [wire EXCEPT ![s] = @ - 1]
      /\ taken' = [taken EXCEPT ![s] = @ + 1]
      /\ granted' = [granted EXCEPT ![s] = taken[s] + 1 + Window]
      /\ named' = [named EXCEPT ![s] =
                      IF rLink'[s] = "active" THEN taken[s] + 1 + Window ELSE @]
    BY DEF RCountMessage, TopUp, sendVars
  <2> QED BY <1>1, <1>2, Constants
          DEF TypeOK, PipeTypeOK, SendTypeOK, RecvTypeOK, CreditInv, CreditConserved
<1> QED BY <1>3 DEF CreditInv, CreditConserved

LEMMA NextCreditInv ==
    ASSUME TypeOK, CreditInv, [Next]_vars
    PROVE  CreditInv'
<1> USE DEF TypeOK, PipeTypeOK, SendTypeOK, RecvTypeOK
<1>die. ASSUME RDie, UNCHANGED sent PROVE CreditInv'
  BY <1>die, CreditStutter DEF RDie
<1>1. CASE LaunchReceiver
  <2>1. CASE RDie
    BY <1>1, <2>1, <1>die DEF LaunchReceiver, sendVars
  <2> QED BY <1>1, <2>1, CreditStutter DEF LaunchReceiver, RLaunch, sendVars, pipeVars
<1>2. ASSUME NEW s \in Senders, LaunchSender(s) PROVE CreditInv'
  BY <1>2, CreditStutter DEF LaunchSender, SLaunch, recvVars, pipeVars
<1>3. ASSUME NEW s \in Senders, Sending(s) PROVE CreditInv'
  <2> UNCHANGED taken BY <1>3 DEF Sending, recvVars
  <2>1. CASE SConnectionInit(s)
    BY <2>1, CreditStutter DEF SConnectionInit, sendVars
  <2>2. ASSUME NEW lim \in limit[s]..named[s], SDivideByZero(s, lim) PROVE CreditInv'
    BY <2>2, CreditStutter DEF SDivideByZero
  <2>3. ASSUME NEW lim \in limit[s]..named[s], SSendAll(s, lim) PROVE CreditInv'
    BY <2>3, CreditSend
  <2>4. CASE SRemoteClose(s)
    BY <2>4, CreditStutter DEF SRemoteClose, sendVars
  <2>5. CASE SExit(s)
    BY <2>5, CreditStutter DEF SExit, pipeVars
  <2> QED BY <1>3, <2>1, <2>2, <2>3, <2>4, <2>5 DEF Sending, SendStep, SLinkFlow
<1>4. CASE Receiving
  <2> UNCHANGED sendVars BY <1>4 DEF Receiving
  <2>0. CASE RDie
    BY <2>0, <1>die DEF sendVars
  <2>1. CASE RReactorInit
    BY <2>1, <2>0, CreditStutter DEF RReactorInit, recvVars, sendVars
  <2>2. CASE RReactorFinal
    BY <2>2, CreditStutter DEF RReactorFinal, NothingOpen, pipeVars, sendVars
  <2>3. ASSUME NEW s \in Senders, RConnectionInit(s) PROVE CreditInv'
    BY <2>3, CreditStutter DEF RConnectionInit, recvVars, sendVars
  <2>4. ASSUME NEW s \in Senders, RLinkRemoteOpen(s) PROVE CreditInv'
    <3>1. granted[s] = 0 /\ named[s] = 0 /\ sent[s] = 0 /\ taken[s] = 0 /\ limit[s] = 0
      <4>1. /\ granted[s] = 0 /\ sent[s] = taken[s] + wire[s]
            /\ sent[s] <= limit[s] /\ limit[s] <= named[s] /\ named[s] <= granted[s]
        BY <2>4 DEF RLinkRemoteOpen, CreditInv, CreditConserved
      <4> QED BY <4>1
    <3>2. UNCHANGED <<wire, limit, sent, taken>>
      BY <2>4 DEF RLinkRemoteOpen, sendVars
    <3>3. CASE UNCHANGED <<granted, named>> /\ rLink' = [rLink EXCEPT ![s] = "closing"]
      BY <3>2, <3>3, CreditStutter
    <3>4. CASE /\ rLink' = [rLink EXCEPT ![s] = "active"]
               /\ granted' = [granted EXCEPT ![s] = Window]
               /\ named' = [named EXCEPT ![s] = Window]
      <4>1. ASSUME NEW t \in Senders
            PROVE  /\ sent'[t] = taken'[t] + wire'[t]
                   /\ sent'[t] <= limit'[t] /\ limit'[t] <= named'[t]
                   /\ named'[t] <= granted'[t]
                   /\ granted'[t] <= taken'[t] + Window
                   /\ rLink'[t] = "active" => named'[t] = taken'[t] + Window
                   /\ sent'[t] <= SendCount
                   /\ rLink'[t] \in {"none", "accepted"} => granted'[t] = 0
                   /\ granted'[t] \in {0, taken'[t] + Window}
        <5>1. CASE t = s
          BY <3>1, <3>2, <3>4, <5>1, Constants DEF CreditInv, CreditConserved
        <5>2. CASE t # s
          BY <3>2, <3>4, <5>2 DEF CreditInv, CreditConserved
        <5> QED BY <5>1, <5>2
      <4> QED BY <4>1 DEF CreditInv, CreditConserved
    <3> QED BY <2>4, <3>3, <3>4 DEF RLinkRemoteOpen
  <2>5. ASSUME NEW s \in Senders, RDelivery(s), RCountMessage(s) PROVE CreditInv'
    BY <2>5, CreditReceive DEF RDelivery
  <2>6. ASSUME NEW s \in Senders, RRemoteClose(s) PROVE CreditInv'
    BY <2>6, CreditStutter DEF RRemoteClose, recvVars, sendVars
  <2>7. ASSUME NEW s \in Senders, RUnbound(s) PROVE CreditInv'
    BY <2>7, CreditStutter DEF RUnbound, Forget, sendVars
  <2>8. ASSUME NEW s \in Senders, RWriteClose(s) PROVE CreditInv'
    BY <2>8 DEF RWriteClose, recvVars, sendVars, CreditInv, CreditConserved
  <2> QED BY <1>4, <2>0, <2>1, <2>2, <2>3, <2>4, <2>5, <2>6, <2>7, <2>8
          DEF Receiving, RecvStep, RDelivery
<1>5. CASE WaitAndKeep
  BY <1>5, CreditStutter DEF WaitAndKeep, pipeVars, sendVars, recvVars
<1>6. CASE UNCHANGED vars
  BY <1>6, CreditStutter DEF vars, pipeVars, sendVars, recvVars
<1> QED BY <1>1, <1>2, <1>3, <1>4, <1>5, <1>6 DEF Next, Finished
-----------------------------------------------------------------------------
(* Senders *)

LEMMA InitSenderInv == ASSUME Init PROVE SenderInv
BY Constants DEF Init, PipeInit, SendInit, SenderInv, DueRows

\* The handler's rows follow the counter, and it closes the report at most
\* once: done is set with the close, and the close needs ~done.
LEMMA SenderSend ==
    ASSUME TypeOK, CreditInv, SenderInv, NEW s \in Senders,
           NEW lim \in limit[s]..named[s], SSendAll(s, lim), sproc[s] = "running"
    PROVE  SenderInv'
<1>1. /\ Burst(s, lim) \in Nat /\ sent[s] \in Nat
      /\ sent[s] + Burst(s, lim) <= SendCount
  BY BurstBounds DEF TypeOK, SendTypeOK
<1>2. srows'[s] = DueRows(0, sent'[s], SendFreq[s])
  <2>1. sent'[s] = sent[s] + Burst(s, lim)
    BY DEF SSendAll, TypeOK, SendTypeOK
  <2>2. srows'[s] = DueRows(0, sent[s], SendFreq[s])
                      \union DueRows(sent[s], sent[s] + Burst(s, lim), SendFreq[s])
    BY DEF SSendAll, SenderInv, TypeOK, SendTypeOK
  <2> QED BY <1>1, <2>1, <2>2, DueRowsJoin, Frequencies
<1>3. /\ done'[s] => sent'[s] = SendCount /\ sLink'[s] \in {"closed", "ended"}
      /\ sLink'[s] = "closed" => done'[s]
      /\ sproc'[s] = "running" /\ ~done'[s] => sfp'[s] = "open"
      /\ sproc'[s] = "idle" => ~done'[s]
      /\ sfp'[s] # "corrupt"
  BY <1>1, Constants DEF SSendAll, Closing, FClose, SenderInv, TypeOK, PipeTypeOK, SendTypeOK
<1>4. ASSUME NEW t \in Senders, t # s
      PROVE  /\ srows'[t] = srows[t] /\ sent'[t] = sent[t] /\ done'[t] = done[t]
             /\ sLink'[t] = sLink[t] /\ sproc'[t] = sproc[t] /\ sfp'[t] = sfp[t]
  BY <1>4 DEF SSendAll, TypeOK, PipeTypeOK, SendTypeOK
<1> QED BY <1>2, <1>3, <1>4 DEF SenderInv

LEMMA NextSenderInv ==
    ASSUME TypeOK, CreditInv, SenderInv, [Next]_vars
    PROVE  SenderInv'
<1> USE DEF TypeOK, PipeTypeOK, SendTypeOK, SenderInv
<1>same. ASSUME UNCHANGED <<sendVars, sLink>> PROVE SenderInv'
  BY <1>same DEF sendVars
<1>1. CASE LaunchReceiver
  BY <1>1, <1>same DEF LaunchReceiver, RLaunch, RDie, pipeVars
<1>2. ASSUME NEW s \in Senders, LaunchSender(s) PROVE SenderInv'
  BY <1>2 DEF LaunchSender, SLaunch, pipeVars, ProcStates
<1>3. ASSUME NEW s \in Senders, Sending(s) PROVE SenderInv'
  <2>1. CASE SConnectionInit(s)
    BY <2>1 DEF SConnectionInit, sendVars
  <2>2. ASSUME NEW lim \in limit[s]..named[s], SDivideByZero(s, lim) PROVE SenderInv'
    BY <2>2 DEF SDivideByZero
  <2>3. ASSUME NEW lim \in limit[s]..named[s], SSendAll(s, lim), SLinkFlow(s)
        PROVE  SenderInv'
    BY <2>3, SenderSend DEF SLinkFlow
  <2>4. CASE SRemoteClose(s)
    BY <2>4 DEF SRemoteClose, sendVars
  <2>5. CASE SExit(s)
    BY <2>5 DEF SExit, pipeVars
  <2> QED BY <1>3, <2>1, <2>2, <2>3, <2>4, <2>5 DEF Sending, SendStep, SLinkFlow
<1>4. CASE Receiving
  <2>1. UNCHANGED <<sendVars, sLink>>
    BY <1>4 DEF Receiving, RecvStep, RReactorInit, RReactorFinal, RConnectionInit,
                RLinkRemoteOpen, RDelivery, RCountMessage, RWriteClose, RRemoteClose,
                RUnbound, RDie, pipeVars
  <2> QED BY <2>1, <1>same
<1>5. CASE WaitAndKeep
  BY <1>5, <1>same DEF WaitAndKeep, pipeVars
<1>6. CASE UNCHANGED vars
  BY <1>6, <1>same DEF vars, pipeVars
<1> QED BY <1>1, <1>2, <1>3, <1>4, <1>5, <1>6 DEF Next, Finished
-----------------------------------------------------------------------------
(* The receiver's list, its shutdown, and what is left on the wire *)

LEMMA InitListInv == ASSUME Init PROVE ListInv
BY DEF Init, PipeInit, RecvInit, ListInv, ListHoldsLiveConnections

LEMMA NextListInv ==
    ASSUME TypeOK, ListInv, [Next]_vars
    PROVE  ListInv'
<1> USE DEF TypeOK, PipeTypeOK, RecvTypeOK, ListInv, ListHoldsLiveConnections
<1>die. ASSUME RDie PROVE ListInv'
  BY <1>die DEF RDie
<1>same. ASSUME UNCHANGED <<rproc, received, active, shuttingDown, acceptor, rLink>>
         PROVE  ListInv'
  BY <1>same
<1>1. CASE LaunchReceiver
  BY <1>1, <1>die DEF LaunchReceiver, RLaunch, pipeVars
<1>2. ASSUME NEW s \in Senders, LaunchSender(s) PROVE ListInv'
  BY <1>2, <1>same DEF LaunchSender, SLaunch, recvVars, pipeVars
<1>3. ASSUME NEW s \in Senders, Sending(s) PROVE ListInv'
  BY <1>3, <1>same DEF Sending, SendStep, SConnectionInit, SLinkFlow, SDivideByZero,
                       SSendAll, SRemoteClose, SExit, recvVars, pipeVars
<1>4. CASE Receiving
  <2>1. CASE RReactorInit
    BY <2>1, <1>die DEF RReactorInit, recvVars
  <2>2. CASE RReactorFinal
    BY <2>2 DEF RReactorFinal, NothingOpen, pipeVars
  <2>3. ASSUME NEW s \in Senders, RConnectionInit(s) PROVE ListInv'
    BY <2>3 DEF RConnectionInit, recvVars
  <2>4. ASSUME NEW s \in Senders, RLinkRemoteOpen(s) PROVE ListInv'
    BY <2>4 DEF RLinkRemoteOpen, TooLate
  <2>5. ASSUME NEW s \in Senders, RDelivery(s), RCountMessage(s) PROVE ListInv'
    BY <2>5, Constants DEF RDelivery, RCountMessage, Enough, Shutdown
  <2>6. ASSUME NEW s \in Senders, RRemoteClose(s) PROVE ListInv'
    BY <2>6 DEF RRemoteClose, recvVars
  <2>7. ASSUME NEW s \in Senders, RUnbound(s) PROVE ListInv'
    BY <2>7 DEF RUnbound, Forget
  <2>8. ASSUME NEW s \in Senders, RWriteClose(s) PROVE ListInv'
    BY <2>8 DEF RWriteClose, recvVars
  <2> QED BY <1>4, <1>die, <2>1, <2>2, <2>3, <2>4, <2>5, <2>6, <2>7, <2>8
          DEF Receiving, RecvStep, RDelivery
<1>5. CASE WaitAndKeep
  BY <1>5, <1>same DEF WaitAndKeep, pipeVars, recvVars
<1>6. CASE UNCHANGED vars
  BY <1>6, <1>same DEF vars, pipeVars, recvVars
<1> QED BY <1>1, <1>2, <1>3, <1>4, <1>5, <1>6 DEF Next, Finished

LEMMA InitDrainInv == ASSUME Init PROVE DrainInv
BY DEF Init, PipeInit, DrainInv

\* The only step that could refill the wire of a finished connection is a
\* sender's flow event, and that sender has sent all it has.
LEMMA NextDrainInv ==
    ASSUME TypeOK, CreditInv, SenderInv, DrainInv, [Next]_vars
    PROVE  DrainInv'
<1> USE DEF TypeOK, PipeTypeOK, RecvTypeOK, DrainInv
<1>die. ASSUME RDie PROVE DrainInv'
  BY <1>die DEF RDie
<1>1. CASE LaunchReceiver
  BY <1>1, <1>die DEF LaunchReceiver, RLaunch, pipeVars
<1>2. ASSUME NEW s \in Senders, LaunchSender(s) PROVE DrainInv'
  BY <1>2 DEF LaunchSender, SLaunch, recvVars, pipeVars
<1>3. ASSUME NEW s \in Senders, Sending(s) PROVE DrainInv'
  <2> UNCHANGED rproc BY <1>3 DEF Sending, recvVars
  <2>1. CASE SConnectionInit(s)
    BY <2>1 DEF SConnectionInit
  <2>2. ASSUME NEW lim \in limit[s]..named[s], SDivideByZero(s, lim) PROVE DrainInv'
    BY <2>2 DEF SDivideByZero
  <2>3. ASSUME NEW lim \in limit[s]..named[s], SSendAll(s, lim), SLinkFlow(s)
        PROVE  DrainInv'
    <3>1. /\ Burst(s, lim) \in Nat /\ sent[s] \in Nat
          /\ sent[s] + Burst(s, lim) <= SendCount
      BY BurstBounds DEF SendTypeOK
    <3>2. rproc # "failed" /\ rLink[s] \in {"ended", "unbound"}
            => Burst(s, lim) = 0 /\ sLink[s] = "closed"
      BY <2>3, <3>1, Constants DEF SLinkFlow, SenderInv
    <3> QED BY <2>3, <3>1, <3>2 DEF SSendAll
  <2>4. CASE SRemoteClose(s)
    BY <2>4 DEF SRemoteClose
  <2>5. CASE SExit(s)
    BY <2>5 DEF SExit, pipeVars
  <2> QED BY <1>3, <2>1, <2>2, <2>3, <2>4, <2>5 DEF Sending, SendStep, SLinkFlow
<1>4. CASE Receiving
  <2>1. CASE RReactorInit
    BY <2>1, <1>die DEF RReactorInit, recvVars
  <2>2. CASE RReactorFinal
    BY <2>2 DEF RReactorFinal, NothingOpen, pipeVars
  <2>3. ASSUME NEW s \in Senders, RConnectionInit(s) PROVE DrainInv'
    BY <2>3 DEF RConnectionInit, recvVars
  <2>4. ASSUME NEW s \in Senders, RLinkRemoteOpen(s) PROVE DrainInv'
    BY <2>4 DEF RLinkRemoteOpen, TooLate
  <2>5. ASSUME NEW s \in Senders, RDelivery(s), RCountMessage(s) PROVE DrainInv'
    BY <2>5 DEF RDelivery, RCountMessage, Enough, Shutdown
  <2>6. ASSUME NEW s \in Senders, RRemoteClose(s) PROVE DrainInv'
    BY <2>6 DEF RRemoteClose, SenderGone, recvVars
  <2>7. ASSUME NEW s \in Senders, RUnbound(s) PROVE DrainInv'
    BY <2>7 DEF RUnbound, Forget
  <2>8. ASSUME NEW s \in Senders, RWriteClose(s) PROVE DrainInv'
    BY <2>8 DEF RWriteClose, recvVars
  <2> QED BY <1>4, <1>die, <2>1, <2>2, <2>3, <2>4, <2>5, <2>6, <2>7, <2>8
          DEF Receiving, RecvStep, RDelivery
<1>5. CASE WaitAndKeep
  BY <1>5 DEF WaitAndKeep, pipeVars, recvVars
<1>6. CASE UNCHANGED vars
  BY <1>6 DEF vars, pipeVars, recvVars
<1> QED BY <1>1, <1>2, <1>3, <1>4, <1>5, <1>6 DEF Next, Finished
-----------------------------------------------------------------------------
(* The receiver's report *)

\* The quotient and the remainder are unique.
LEMMA RemainderUnique ==
    ASSUME NEW a \in Nat, NEW f \in Nat, f > 0, NEW q \in Nat, NEW r \in 0..(f - 1),
           a = f * q + r
    PROVE  a % f = r
<1> DEFINE p == a \div f
           u == a % f
<1>1. /\ a = f * p + u /\ u \in 0..(f - 1) /\ p \in Nat
  OBVIOUS
<1> HIDE DEF p, u
<1>2. ASSUME NEW x \in Nat, NEW y \in Nat, x < y PROVE f * x + f <= f * y
  <2>1. y = (x + 1) + (y - x - 1) /\ y - x - 1 \in Nat BY <1>2
  <2>2. f * y = f * (x + 1) + f * (y - x - 1) BY <2>1
  <2>3. f * (y - x - 1) \in Nat BY <2>1
  <2>4. f * (x + 1) = f * x + f OBVIOUS
  <2>5. f * x \in Nat OBVIOUS
  <2> QED BY <2>2, <2>3, <2>4, <2>5
<1>3. f * p \in Nat /\ f * q \in Nat BY <1>1
<1>4. CASE p < q BY <1>1, <1>2, <1>3, <1>4
<1>5. CASE q < p BY <1>1, <1>2, <1>3, <1>5
<1>6. CASE p = q BY <1>1, <1>3, <1>6 DEF u
<1> QED BY <1>1, <1>4, <1>5, <1>6

\* The remainder counts up to f - 1 and starts again.
LEMMA NextRemainder ==
    ASSUME NEW n \in Nat, NEW f \in Nat, f > 0
    PROVE  /\ (n + 1) % f = 0 => n % f = f - 1
           /\ (n + 1) % f # 0 => (n + 1) % f = (n % f) + 1
<1> DEFINE q == n \div f
           r == n % f
<1>1. /\ n = f * q + r /\ r \in 0..(f - 1) /\ q \in Nat
  OBVIOUS
<1>2. CASE r = f - 1
  <2>1. n + 1 = f * (q + 1) + 0
    BY <1>1, <1>2
  <2>2. (n + 1) % f = 0
    <3>1. q + 1 \in Nat /\ n + 1 \in Nat /\ 0 \in 0..(f - 1) BY <1>1
    <3> HIDE DEF q, r
    <3> QED BY <2>1, <3>1, RemainderUnique
  <2> QED BY <1>2, <2>2
<1>3. CASE r < f - 1
  <2>1. n + 1 = f * q + (r + 1) /\ r + 1 \in 0..(f - 1)
    BY <1>1, <1>3
  <2>2. (n + 1) % f = r + 1
    <3>1. q \in Nat /\ n + 1 \in Nat BY <1>1
    <3> HIDE DEF q, r
    <3> QED BY <2>1, <3>1, RemainderUnique
  <2> QED BY <1>1, <2>2
<1> QED BY <1>1, <1>2, <1>3

\* One more message is one more row, or none.
LEMMA DueRowsNext ==
    ASSUME NEW n \in Nat, NEW f \in Nat, f > 0
    PROVE  DueRows(0, n + 1, f) =
             IF (n + 1) % f = 0 THEN DueRows(0, n, f) \union {n + 1} ELSE DueRows(0, n, f)
BY DEF DueRows

LEMMA InitRowInv == ASSUME Init PROVE RowInv
<1>1. received = 0 /\ rrows = {} /\ latencies = 0
  BY DEF Init, RecvInit
<1>2. DueRows(0, 0, RecvFreq) = {}
  BY DEF DueRows
<1>3. RecvFreq > 0 => 0 % RecvFreq = 0
  BY Constants
<1> QED BY <1>1, <1>2, <1>3, Constants DEF RowInv, RowsCoverTheirPeriod

LEMMA RowsNext ==
    ASSUME TypeOK, RowInv, RecvFreq > 0, received' = received + 1, Report
    PROVE  RowInv'
<1>1. received \in Nat /\ latencies \in Nat /\ RecvFreq \in Nat
  BY Constants DEF TypeOK, RecvTypeOK
<1>2. /\ (received + 1) % RecvFreq = 0 => received % RecvFreq = RecvFreq - 1
      /\ (received + 1) % RecvFreq # 0 =>
            (received + 1) % RecvFreq = (received % RecvFreq) + 1
  BY <1>1, NextRemainder
<1>3. DueRows(0, received + 1, RecvFreq) =
        IF (received + 1) % RecvFreq = 0
        THEN DueRows(0, received, RecvFreq) \union {received + 1}
        ELSE DueRows(0, received, RecvFreq)
  BY <1>1, DueRowsNext
<1>4. /\ {row.count : row \in rrows} = DueRows(0, received, RecvFreq)
      /\ \A row \in rrows : row.samples = IF Timestamping THEN RecvFreq ELSE 0
      /\ latencies = IF Timestamping THEN received % RecvFreq ELSE 0
  BY DEF RowInv, RowsCoverTheirPeriod
<1>5. CASE (received + 1) % RecvFreq = 0
  <2> DEFINE row == [count |-> received + 1,
                     samples |-> IF Timestamping THEN latencies + 1 ELSE 0]
  <2>1. rrows' = rrows \union {row} /\ latencies' = 0
    BY <1>5 DEF Report, Due, SumAfter
  <2>2. row.count = received + 1 /\ row.samples = IF Timestamping THEN RecvFreq ELSE 0
    BY <1>1, <1>2, <1>4, <1>5
  <2> HIDE DEF row
  <2>3. {x.count : x \in rrows'} = DueRows(0, received', RecvFreq)
    BY <1>3, <1>4, <1>5, <2>1, <2>2
  <2>4. \A x \in rrows' : x.samples = IF Timestamping THEN RecvFreq ELSE 0
    BY <1>4, <2>1, <2>2
  <2> QED BY <1>5, <2>1, <2>3, <2>4 DEF RowInv, RowsCoverTheirPeriod
<1>6. CASE (received + 1) % RecvFreq # 0
  <2>1. rrows' = rrows /\ latencies' = IF Timestamping THEN latencies + 1 ELSE 0
    BY <1>6 DEF Report, Due, SumAfter
  <2> QED BY <1>2, <1>3, <1>4, <1>6, <2>1 DEF RowInv, RowsCoverTheirPeriod
<1> QED BY <1>5, <1>6

LEMMA NextRowInv ==
    ASSUME TypeOK, RowInv, [Next]_vars
    PROVE  RowInv'
<1>same. ASSUME UNCHANGED <<received, latencies, rrows>> PROVE RowInv'
  BY <1>same DEF RowInv, RowsCoverTheirPeriod
<1>die. ASSUME RDie PROVE RowInv'
  BY <1>die, <1>same DEF RDie
<1>1. CASE LaunchReceiver
  BY <1>1, <1>same, <1>die DEF LaunchReceiver, RLaunch
<1>2. ASSUME NEW s \in Senders, LaunchSender(s) \/ Sending(s) PROVE RowInv'
  BY <1>2, <1>same DEF LaunchSender, Sending, recvVars
<1>3. CASE Receiving
  <2>1. ASSUME NEW s \in Senders, RDelivery(s) PROVE RowInv'
    <3>1. CASE ~BadDelivery(s)
      <4>1. RecvFreq > 0 BY <3>1, Constants DEF BadDelivery
      <4> QED BY <2>1, <3>1, <4>1, RowsNext DEF RDelivery, RCountMessage
    <3> QED BY <2>1, <3>1, <1>die DEF RDelivery
  <2>2. CASE RReactorInit
    BY <2>2, <1>same, <1>die DEF RReactorInit, recvVars
  <2>3. CASE RReactorFinal
    BY <2>3, <1>same DEF RReactorFinal, NothingOpen
  <2>4. ASSUME NEW s \in Senders,
               RConnectionInit(s) \/ RLinkRemoteOpen(s) \/ RWriteClose(s)
                 \/ RRemoteClose(s) \/ RUnbound(s)
        PROVE  RowInv'
    BY <2>4, <1>same
       DEF RConnectionInit, RLinkRemoteOpen, RWriteClose, RRemoteClose, RUnbound, recvVars
  <2> QED BY <1>3, <2>1, <2>2, <2>3, <2>4 DEF Receiving, RecvStep
<1>4. CASE WaitAndKeep
  BY <1>4, <1>same DEF WaitAndKeep, recvVars
<1>5. CASE UNCHANGED vars
  BY <1>5, <1>same DEF vars, recvVars
<1> QED BY <1>1, <1>2, <1>3, <1>4, <1>5 DEF Next, Finished

LEMMA NextSavedInv ==
    ASSUME SavedInv, [Next]_vars
    PROVE  SavedInv'
<1> USE DEF SavedInv, Over
<1>1. CASE LaunchReceiver
  BY <1>1 DEF LaunchReceiver
<1>2. ASSUME NEW s \in Senders, LaunchSender(s) \/ Sending(s) PROVE SavedInv'
  BY <1>2 DEF LaunchSender, Sending, recvVars
<1>3. CASE Receiving
  BY <1>3 DEF Receiving, RReactorInit, RReactorFinal, RecvStep, RConnectionInit,
              RLinkRemoteOpen, RDelivery, RWriteClose, RRemoteClose, RUnbound
<1>4. CASE WaitAndKeep
  BY <1>4 DEF WaitAndKeep, recvVars
<1>5. CASE UNCHANGED vars
  BY <1>5 DEF vars, recvVars
<1> QED BY <1>1, <1>2, <1>3, <1>4, <1>5 DEF Next, Finished

\* Reach as a number, above all a sender may have sent.
LEMMA ReachBounds ==
    ASSUME TypeOK, CreditInv, NEW s \in Senders
    PROVE  /\ Reach(s) \in Nat /\ sent[s] <= Reach(s)
           /\ Reach(s) <= taken[s] + 2 * Window
           /\ rLink[s] # "closing" => Reach(s) = named[s]
BY Constants
   DEF Reach, TypeOK, PipeTypeOK, SendTypeOK, RecvTypeOK, CreditInv, CreditConserved

\* The credit of a connection that is used up later, as long as none is added.
LEMMA OutstandingShrinks ==
    ASSUME TypeOK, CreditInv, taken' = taken,
           \A s \in Senders : Reach(s)' \in Int /\ Reach(s)' <= Reach(s)
    PROVE  Outstanding' \subseteq Outstanding
<1>1. ASSUME NEW s \in Senders
      PROVE  {s} \X ((taken'[s] + 1)..Reach(s)') \subseteq {s} \X ((taken[s] + 1)..Reach(s))
  <2>1. Reach(s) \in Nat /\ taken[s] \in Nat
    BY ReachBounds DEF TypeOK, RecvTypeOK
  <2> QED BY <2>1
<1> QED BY <1>1 DEF Outstanding

\* A message that is counted uses up its own credit and no other.
LEMMA OutstandingNext ==
    ASSUME TypeOK, CreditInv, NEW s \in Senders, wire[s] > 0,
           taken' = [taken EXCEPT ![s] = @ + 1],
           \A t \in Senders : Reach(t)' = Reach(t)
    PROVE  /\ <<s, taken[s] + 1>> \in Outstanding
           /\ Outstanding' = Outstanding \ {<<s, taken[s] + 1>>}
<1>1. /\ taken \in [Senders -> Nat] /\ sent[s] \in Nat /\ wire[s] \in Nat
      /\ \A t \in Senders : Reach(t) \in Nat
  BY ReachBounds DEF TypeOK, PipeTypeOK, SendTypeOK, RecvTypeOK
<1>2. sent[s] = taken[s] + wire[s] /\ sent[s] <= Reach(s)
  BY ReachBounds DEF CreditInv, CreditConserved
<1>3. taken[s] + 1 \in (taken[s] + 1)..Reach(s)
  BY <1>1, <1>2
<1>4. <<s, taken[s] + 1>> \in Outstanding
  BY <1>3 DEF Outstanding
<1>5. ASSUME NEW t \in Senders
      PROVE  {t} \X ((taken'[t] + 1)..Reach(t)') =
               ({t} \X ((taken[t] + 1)..Reach(t))) \ {<<s, taken[s] + 1>>}
  <2>1. CASE t = s
    <3>1. (taken'[t] + 1)..Reach(t)' = ((taken[t] + 1)..Reach(t)) \ {taken[s] + 1}
      BY <1>1, <2>1
    <3> QED BY <2>1, <3>1
  <2>2. CASE t # s
    BY <1>1, <2>2
  <2> QED BY <2>1, <2>2
<1>6. Outstanding' = Outstanding \ {<<s, taken[s] + 1>>}
  BY <1>5 DEF Outstanding
<1> QED BY <1>4, <1>6

\* Credit from tk[s] to rc[s] on each connection, of at most two windows: there is
\* less than two windows for each as soon as one of them is short of it.
LEMMA CreditBound ==
    ASSUME NEW tk \in [Senders -> Nat], NEW rc \in [Senders -> Nat],
           \A s \in Senders : rc[s] <= tk[s] + 2 * Window
    PROVE  LET credit == UNION {{s} \X ((tk[s] + 1)..rc[s]) : s \in Senders}
           IN  /\ IsFiniteSet(credit) /\ Cardinality(credit) \in Nat
               /\ 2 * Window * Cardinality(Senders) \in Nat
               /\ (\E z \in Senders : rc[z] < tk[z] + 2 * Window) =>
                     Cardinality(credit) < 2 * Window * Cardinality(Senders)
<1> DEFINE credit == UNION {{s} \X ((tk[s] + 1)..rc[s]) : s \in Senders}
           W == 2 * Window
           T == Senders \X (1..W)
           f == [p \in credit |-> <<p[1], p[2] - tk[p[1]]>>]
<1>0. W \in Nat BY Constants
<1>1. ASSUME NEW p \in credit
      PROVE  /\ p = <<p[1], p[2]>> /\ p[1] \in Senders
             /\ p[2] \in Int /\ p[2] - tk[p[1]] \in 1..W
             /\ p[2] <= rc[p[1]]
  <2>1. PICK s \in Senders : p \in {s} \X ((tk[s] + 1)..rc[s])
    OBVIOUS
  <2>2. p = <<p[1], p[2]>> /\ p[1] = s /\ p[2] \in (tk[s] + 1)..rc[s]
    BY <2>1
  <2>3. tk[s] \in Nat /\ rc[s] \in Nat /\ rc[s] <= tk[s] + W
    OBVIOUS
  <2> QED BY <2>2, <2>3, <1>0
<1> HIDE DEF W
<1>2. f \in [credit -> T]
  BY <1>1
<1>3. ASSUME NEW p \in credit, NEW q \in credit, f[p] = f[q] PROVE p = q
  <2>1. p[1] = q[1] /\ p[2] - tk[p[1]] = q[2] - tk[q[1]]
    BY <1>3
  <2>2. tk[p[1]] \in Nat /\ p[2] \in Int /\ q[2] \in Int
    BY <1>1
  <2>3. p[2] = q[2]
    BY <2>1, <2>2
  <2> QED BY <1>1, <2>1, <2>3
<1>4. f \in Injection(credit, T)
  BY <1>2, <1>3 DEF Injection, IsInjective
<1>5. /\ IsFiniteSet(T) /\ Cardinality(T) = Cardinality(Senders) * W
      /\ Cardinality(Senders) \in Nat
  <2>1. IsFiniteSet(1..W) /\ Cardinality(1..W) = W
    BY <1>0, FS_Interval
  <2> QED BY <2>1, FS_Product, FS_CardinalityType, SendersAssumption
<1>6. W * Cardinality(Senders) \in Nat /\ Cardinality(Senders) * W = W * Cardinality(Senders)
  BY <1>0, <1>5
<1>7. ASSUME NEW z \in Senders, rc[z] < tk[z] + W
      PROVE  Cardinality(credit) < W * Cardinality(Senders)
  <2> DEFINE U == T \ {<<z, W>>}
  <2>1. ASSUME NEW p \in credit PROVE f[p] # <<z, W>>
    <3>1. tk[z] \in Nat /\ rc[z] \in Nat OBVIOUS
    <3>2. CASE p[1] = z
      <4>1. p[2] - tk[z] # W
        BY <1>0, <1>1, <1>7, <3>1, <3>2
      <4> QED BY <3>2, <4>1
    <3>3. CASE p[1] # z
      BY <3>3
    <3> QED BY <3>2, <3>3
  <2>2. f \in Injection(credit, U)
    BY <1>2, <1>3, <2>1 DEF Injection, IsInjective
  <2>3. z \in Senders /\ W \in 1..W
    <3>1. W >= 1 BY <1>0, Constants DEF W
    <3> QED BY <1>0, <3>1
  <2>4. <<z, W>> \in T
    BY <2>3
  <2> HIDE DEF T, f, credit
  <2>5. IsFiniteSet(U) /\ Cardinality(U) = Cardinality(T) - 1
    BY <1>5, <2>4, FS_RemoveElement
  <2> HIDE DEF U
  <2>6. Cardinality(credit) <= Cardinality(U) /\ IsFiniteSet(credit)
    BY <2>2, <2>5, FS_Injection
  <2>7. Cardinality(credit) \in Nat /\ Cardinality(T) \in Nat
    BY <1>5, <2>6, FS_CardinalityType
  <2> QED BY <1>5, <1>6, <2>5, <2>6, <2>7
<1> HIDE DEF f, T
<1>8. IsFiniteSet(credit) /\ Cardinality(credit) \in Nat
  <2> HIDE DEF credit
  <2> QED BY <1>4, <1>5, FS_Injection, FS_CardinalityType
<1>9. W = 2 * Window BY DEF W
<1> QED BY <1>6, <1>7, <1>8, <1>9

\* Less than two windows of credit are outstanding once one connection is short.
LEMMA OutstandingBound ==
    ASSUME TypeOK, CreditInv
    PROVE  /\ IsFiniteSet(Outstanding) /\ Cardinality(Outstanding) \in Nat
           /\ 2 * Window * Cardinality(Senders) \in Nat
           /\ (\E z \in Senders : Reach(z) < taken[z] + 2 * Window) =>
                 Cardinality(Outstanding) < 2 * Window * Cardinality(Senders)
<1> DEFINE rc == [s \in Senders |-> Reach(s)]
<1>1. taken \in [Senders -> Nat] BY DEF TypeOK, RecvTypeOK
<1>2. \A s \in Senders : rc[s] = Reach(s) /\ rc[s] \in Nat /\ rc[s] <= taken[s] + 2 * Window
  BY ReachBounds
<1>3. rc \in [Senders -> Nat] BY <1>2
<1>4. Outstanding = UNION {{s} \X ((taken[s] + 1)..rc[s]) : s \in Senders}
  BY <1>2 DEF Outstanding
<1>5. (\E z \in Senders : Reach(z) < taken[z] + 2 * Window)
        => \E z \in Senders : rc[z] < taken[z] + 2 * Window
  BY <1>2
<1> HIDE DEF rc
<1> QED BY <1>1, <1>2, <1>3, <1>4, <1>5, CreditBound

LEMMA InitOverrunInv == ASSUME Init PROVE OverrunInv
BY DEF Init, RecvInit, OverrunInv

\* A step that counts nothing once the receiver shuts down, and adds no credit then.
LEMMA OverrunStutter ==
    ASSUME TypeOK, CreditInv, OverrunInv,
           UNCHANGED <<received, shuttingDown, taken>>,
           shuttingDown => \A s \in Senders : Reach(s)' \in Int /\ Reach(s)' <= Reach(s)
    PROVE  OverrunInv'
<1> DEFINE all == 2 * Window * Cardinality(Senders)
<1>1. ASSUME shuttingDown, RecvCount > 0
      PROVE  received + Cardinality(Outstanding') < RecvCount + all
  <2>1. Outstanding' \subseteq Outstanding
    BY <1>1, OutstandingShrinks
  <2>2. IsFiniteSet(Outstanding) /\ Cardinality(Outstanding) \in Nat /\ all \in Nat
    BY OutstandingBound
  <2>3. Cardinality(Outstanding') <= Cardinality(Outstanding) /\ Cardinality(Outstanding') \in Nat
    BY <2>1, <2>2, FS_Subset, FS_CardinalityType
  <2>4. received + Cardinality(Outstanding) < RecvCount + all
    BY <1>1 DEF OverrunInv
  <2>5. received \in Nat /\ RecvCount \in Nat
    BY Constants DEF TypeOK, RecvTypeOK
  <2> HIDE DEF all
  <2> QED BY <2>2, <2>3, <2>4, <2>5
<1> QED BY <1>1 DEF OverrunInv

\* Once the receiver shuts down each message it counts was paid for by credit there
\* was when the shutdown began: the flow controller's later grants go out with the
\* close at the most, and Reach has counted them.  The message that starts the
\* shutdown leaves its own connection short of the two windows.
LEMMA NextOverrunInv ==
    ASSUME TypeOK, TypeOK', CreditInv, CreditInv', ListInv, ListInv', OverrunInv, [Next]_vars
    PROVE  OverrunInv'
<1>same. ASSUME UNCHANGED <<received, shuttingDown, taken, granted, named, rLink>>
         PROVE  OverrunInv'
  <2>1. ASSUME NEW s \in Senders PROVE Reach(s)' \in Int /\ Reach(s)' <= Reach(s)
    BY <1>same, ReachBounds DEF Reach
  <2> QED BY <1>same, <2>1, OverrunStutter
<1>less. ASSUME UNCHANGED <<received, shuttingDown, taken, granted, named>>,
                \A s \in Senders : rLink'[s] = "closing" => rLink[s] = "closing"
         PROVE  OverrunInv'
  <2>1. ASSUME NEW s \in Senders PROVE Reach(s)' \in Int /\ Reach(s)' <= Reach(s)
    <3>1. named[s] \in Nat
      BY DEF TypeOK, PipeTypeOK
    <3>2. Reach(s)' = named[s] \/ Reach(s)' = Reach(s)
      BY <1>less DEF Reach
    <3>3. named[s] <= Reach(s) /\ Reach(s) \in Nat
      BY <3>1, Constants DEF Reach
    <3> QED BY <3>1, <3>2, <3>3
  <2> QED BY <1>less, <2>1, OverrunStutter
<1>die. ASSUME RDie PROVE OverrunInv'
  BY <1>die, <1>less DEF RDie
<1>1. CASE LaunchReceiver
  BY <1>1, <1>same, <1>die DEF LaunchReceiver, RLaunch, pipeVars
<1>2. ASSUME NEW s \in Senders, LaunchSender(s) PROVE OverrunInv'
  BY <1>2, <1>same DEF LaunchSender, SLaunch, recvVars, pipeVars
<1>3. ASSUME NEW s \in Senders, Sending(s) PROVE OverrunInv'
  BY <1>3, <1>same DEF Sending, SendStep, SConnectionInit, SLinkFlow, SDivideByZero,
                       SSendAll, SRemoteClose, SExit, recvVars, pipeVars
<1>4. ASSUME NEW s \in Senders, RDelivery(s), RCountMessage(s) PROVE OverrunInv'
  <2> DEFINE all == 2 * Window * Cardinality(Senders)
  <2>1. /\ received' = received + 1 /\ taken' = [taken EXCEPT ![s] = @ + 1]
        /\ wire[s] > 0
    BY <1>4 DEF RDelivery, RCountMessage
  <2>2. received \in Nat /\ RecvCount \in Nat /\ shuttingDown \in BOOLEAN
    BY Constants DEF TypeOK, RecvTypeOK
  <2>3. shuttingDown' <=> received + 1 >= RecvCount
    <3>1. shuttingDown => received + 1 >= RecvCount
      BY <2>2 DEF OverrunInv
    <3>2. shuttingDown' \in BOOLEAN
      BY <1>4, <2>2 DEF RCountMessage, Enough, Shutdown
    <3>3. CASE received + 1 >= RecvCount
      BY <1>4, <2>2, <3>2, <3>3 DEF RCountMessage, Enough, Shutdown
    <3>4. CASE ~(received + 1 >= RecvCount)
      BY <1>4, <2>2, <3>1, <3>4 DEF RCountMessage, Enough
    <3> QED BY <3>3, <3>4
  <2>4. (shuttingDown <=> received > 0 /\ received >= RecvCount)'
    BY <2>1, <2>2, <2>3
  <2>5. ASSUME shuttingDown', RecvCount > 0
        PROVE  received' + Cardinality(Outstanding') < RecvCount + all
    <3>1. /\ rLink'[s] # "active"
          /\ named \in [Senders -> Nat] /\ granted \in [Senders -> Nat]
          /\ taken \in [Senders -> Nat]
      BY <2>5 DEF ListInv, TypeOK, PipeTypeOK, RecvTypeOK
    <3>2. named' = named /\ granted' = [granted EXCEPT ![s] = taken[s] + 1 + Window]
      BY <1>4, <3>1 DEF RCountMessage, TopUp
    <3>3. CASE shuttingDown
      <4>1. rLink' = rLink
        BY <1>4, <3>3 DEF RCountMessage, Shutdown, Enough
      <4>2. granted[s] > 0
        BY <2>1, <3>1, Constants
           DEF CreditInv, CreditConserved, TypeOK, PipeTypeOK, SendTypeOK
      <4>3. ASSUME NEW t \in Senders PROVE Reach(t)' = Reach(t)
        BY <3>1, <3>2, <4>1, <4>2, Constants DEF Reach
      <4>4. /\ <<s, taken[s] + 1>> \in Outstanding
            /\ Outstanding' = Outstanding \ {<<s, taken[s] + 1>>}
        BY <2>1, <4>3, OutstandingNext
      <4>5. IsFiniteSet(Outstanding) /\ Cardinality(Outstanding) \in Nat /\ all \in Nat
        BY OutstandingBound
      <4>6. Cardinality(Outstanding') = Cardinality(Outstanding) - 1
        BY <4>4, <4>5, FS_RemoveElement
      <4>7. received + Cardinality(Outstanding) < RecvCount + all
        BY <2>5, <3>3 DEF OverrunInv
      <4> HIDE DEF all
      <4> QED BY <2>1, <2>2, <4>5, <4>6, <4>7
    <3>4. CASE ~shuttingDown
      <4> DEFINE rc == [t \in Senders |-> Reach(t)']
      <4>1. received < RecvCount
        BY <2>2, <2>5, <3>4 DEF OverrunInv
      <4>2. taken' \in [Senders -> Nat] /\ taken'[s] = taken[s] + 1
        BY <2>1, <3>1
      <4>3. ASSUME NEW t \in Senders
            PROVE  Reach(t)' \in Nat /\ Reach(t)' <= taken'[t] + 2 * Window
        BY <4>2, Constants
           DEF Reach, TypeOK, PipeTypeOK, RecvTypeOK, CreditInv, CreditConserved
      <4>4. Reach(s)' < taken'[s] + 2 * Window
        <5>1. named[s] <= taken[s] + Window
          BY <3>1, Constants DEF CreditInv, CreditConserved
        <5> QED BY <3>1, <3>2, <4>2, <5>1, Constants DEF Reach
      <4>5. \A t \in Senders : rc[t] = Reach(t)'
        OBVIOUS
      <4>6. rc \in [Senders -> Nat] /\ \A t \in Senders : rc[t] <= taken'[t] + 2 * Window
        BY <4>3
      <4>7. Outstanding' = UNION {{t} \X ((taken'[t] + 1)..rc[t]) : t \in Senders}
        BY <4>5 DEF Outstanding
      <4>8. \E z \in Senders : rc[z] < taken'[z] + 2 * Window
        BY <4>4, <4>5
      <4> HIDE DEF rc
      <4>9. /\ Cardinality(Outstanding') < all
            /\ Cardinality(Outstanding') \in Nat /\ all \in Nat
        BY <4>2, <4>6, <4>7, <4>8, CreditBound
      <4> HIDE DEF all
      <4> QED BY <2>1, <2>2, <4>1, <4>9
    <3> QED BY <2>2, <3>3, <3>4
  <2> QED BY <2>4, <2>5 DEF OverrunInv
<1>5. CASE Receiving
  <2>1. CASE RReactorInit
    BY <2>1, <1>same, <1>die DEF RReactorInit, recvVars
  <2>2. CASE RReactorFinal
    BY <2>2, <1>same DEF RReactorFinal, NothingOpen, pipeVars
  <2>3. ASSUME NEW s \in Senders, RLinkRemoteOpen(s) PROVE OverrunInv'
    <3>1. CASE shuttingDown
      <4>1. /\ UNCHANGED <<received, shuttingDown, taken, granted, named>>
            /\ rLink' = [rLink EXCEPT ![s] = "closing"] /\ rLink[s] = "accepted"
        BY <2>3, <3>1 DEF RLinkRemoteOpen, TooLate
      <4>2. granted[s] = 0 /\ rLink \in [Senders -> RLinkStates]
        BY <4>1 DEF CreditInv, TypeOK, PipeTypeOK
      <4>3. ASSUME NEW t \in Senders PROVE Reach(t)' = Reach(t) /\ Reach(t) \in Int
        BY <4>1, <4>2, ReachBounds DEF Reach
      <4>4. ASSUME NEW t \in Senders PROVE Reach(t)' \in Int /\ Reach(t)' <= Reach(t)
        BY <4>3
      <4> QED BY <4>1, <4>4, OverrunStutter
    <3>2. CASE ~shuttingDown
      <4>1. received' = received /\ shuttingDown' = shuttingDown
        BY <2>3 DEF RLinkRemoteOpen
      <4> QED BY <3>2, <4>1 DEF OverrunInv
    <3> QED BY <3>1, <3>2
  <2>4. ASSUME NEW s \in Senders, RWriteClose(s) PROVE OverrunInv'
    <3>1. /\ UNCHANGED <<received, shuttingDown, taken, granted>>
          /\ rLink' = [rLink EXCEPT ![s] = "closed"] /\ rLink[s] = "closing"
          /\ named' = [named EXCEPT ![s] = granted[s]]
      BY <2>4 DEF RWriteClose, recvVars
    <3>2. /\ named \in [Senders -> Nat] /\ granted \in [Senders -> Nat]
          /\ taken \in [Senders -> Nat] /\ rLink \in [Senders -> RLinkStates]
      BY DEF TypeOK, PipeTypeOK, RecvTypeOK
    <3>3. granted[s] <= Reach(s)
      BY <3>1, <3>2, Constants
         DEF Reach, CreditInv, CreditConserved, TypeOK, PipeTypeOK, SendTypeOK
    <3>4. ASSUME NEW t \in Senders PROVE Reach(t)' \in Int /\ Reach(t)' <= Reach(t)
      <4>1. CASE t = s
        BY <3>1, <3>2, <3>3, <4>1 DEF Reach
      <4>2. CASE t # s
        BY <3>1, <3>2, <4>2, ReachBounds DEF Reach
      <4> QED BY <4>1, <4>2
    <3> QED BY <3>1, <3>4, OverrunStutter
  <2>5. ASSUME NEW s \in Senders, RConnectionInit(s) \/ RRemoteClose(s) \/ RUnbound(s)
        PROVE  OverrunInv'
    <3>1. /\ UNCHANGED <<received, shuttingDown, taken, granted, named>>
          /\ \A t \in Senders : rLink'[t] = "closing" => rLink[t] = "closing"
      BY <2>5 DEF RConnectionInit, RRemoteClose, RUnbound, recvVars, TypeOK, PipeTypeOK
    <3> QED BY <3>1, <1>less
  <2> QED BY <1>4, <1>5, <1>die, <2>1, <2>2, <2>3, <2>4, <2>5
          DEF Receiving, RecvStep, RDelivery
<1>6. CASE WaitAndKeep
  BY <1>6, <1>same DEF WaitAndKeep, pipeVars, recvVars
<1>7. CASE UNCHANGED vars
  BY <1>7, <1>same DEF vars, pipeVars, recvVars
<1> QED BY <1>1, <1>2, <1>3, <1>5, <1>6, <1>7 DEF Next, Finished
-----------------------------------------------------------------------------
(* The theorems *)

\* IInv holds in every reachable state.
THEOREM Invariance == Spec => []IInv
<1>1. ASSUME Init PROVE IInv
  <2>1. SavedInv BY <1>1 DEF Init, SavedInv
  <2> QED BY <1>1, <2>1, InitTypeOK, InitCreditInv, InitSenderInv, InitListInv,
             InitDrainInv, InitRowInv, InitOverrunInv DEF IInv
<1>2. ASSUME IInv, [Next]_vars PROVE IInv'
  BY <1>2, NextTypeOK, NextCreditInv, NextSenderInv, NextListInv, NextDrainInv,
     NextRowInv, NextSavedInv, NextOverrunInv DEF IInv
<1> QED BY <1>1, <1>2, PTL DEF Spec

\* Type correctness of the composed system.
THEOREM TypeCorrect == Spec => []TypeOK
BY Invariance, PTL DEF IInv

\* The credit protocol neither loses a message nor lets a sender run more than
\* a window ahead, for any number of senders and any window.
THEOREM CreditIsConserved == Spec => []CreditConserved
<1>1. IInv => CreditConserved BY DEF IInv, CreditInv
<1> QED BY <1>1, Invariance, PTL

\* reactor-send: a sender that is done sent all and reported all, and its
\* report is closed once.
THEOREM SenderReports == Spec => []SenderReportComplete
<1>1. IInv => SenderReportComplete BY DEF IInv, SenderInv, SenderReportComplete
<1> QED BY <1>1, Invariance, PTL

\* reactor-recv: every row covers one period, with as many latencies as it
\* divides by.
THEOREM RowsAreWhole == Spec => []RowsCoverTheirPeriod
<1>1. IInv => RowsCoverTheirPeriod BY DEF IInv, RowInv
<1> QED BY <1>1, Invariance, PTL

\* global_shutdown leaves no listed connection open, and stops listening.
THEOREM ShutdownIsTotal == Spec => []ShutdownClosesAll
<1>1. IInv => ShutdownClosesAll
  BY DEF IInv, ListInv, ListHoldsLiveConnections, ShutdownClosesAll
<1> QED BY <1>1, Invariance, PTL

\* active_connections holds every connection that is open at this end, and none
\* that was released.
THEOREM ListIsLive == Spec => []ListHoldsLiveConnections
<1>1. IInv => ListHoldsLiveConnections
  BY DEF IInv, ListInv
<1> QED BY <1>1, Invariance, PTL

\* The receiver shuts down at msg_count messages, and counts less than two windows
\* for each connection on top of them, the grants after the shutdown included.
THEOREM OverrunIsBounded == Spec => []OverrunIsCreditOnly
<1>1. ASSUME IInv, RecvCount > 0
      PROVE  received < RecvCount + 2 * Window * Cardinality(Senders)
  <2>1. /\ received \in Nat /\ RecvCount \in Nat
        /\ 2 * Window * Cardinality(Senders) \in Nat /\ Cardinality(Outstanding) \in Nat
    BY <1>1, OutstandingBound, Constants DEF IInv, TypeOK, RecvTypeOK
  <2>2. CASE shuttingDown
    <3>1. received + Cardinality(Outstanding) < RecvCount + 2 * Window * Cardinality(Senders)
      BY <1>1, <2>2 DEF IInv, OverrunInv
    <3> QED BY <2>1, <3>1
  <2>3. CASE ~shuttingDown
    <3>1. received < RecvCount
      BY <1>1, <2>1, <2>3 DEF IInv, OverrunInv
    <3> QED BY <2>1, <3>1
  <2> QED BY <2>2, <2>3
<1>2. IInv => OverrunIsCreditOnly
  BY <1>1 DEF IInv, OverrunInv, OverrunIsCreditOnly
<1> QED BY <1>2, Invariance, PTL

\* A receiver that exits by itself has counted msg_count messages.
THEOREM ExitIsComplete == Spec => []ExitMeansComplete
<1>1. IInv => ExitMeansComplete BY DEF IInv, ListInv, ExitMeansComplete
<1> QED BY <1>1, Invariance, PTL

\* A receiver that exits has counted every message of every sender that is done.
THEOREM DoneIsCounted == Spec => []CompletedMeansCounted
<1>1. ASSUME IInv, NEW s \in Senders, done[s], rproc = "exited" PROVE taken[s] = SendCount
  <2>1. sent[s] = SendCount /\ sent[s] = taken[s] + wire[s]
    BY <1>1 DEF IInv, SenderInv, CreditInv, CreditConserved
  <2>2. sent[s] \in Nat /\ taken[s] \in Nat /\ wire[s] \in Nat
    BY <1>1 DEF IInv, TypeOK, PipeTypeOK, SendTypeOK, RecvTypeOK
  <2>3. CASE rLink[s] = "unbound"
    BY <1>1, <2>1, <2>2, <2>3 DEF IInv, DrainInv
  <2>4. CASE rLink[s] = "none"
    <3>1. granted[s] = 0 /\ sent[s] <= limit[s] /\ limit[s] <= named[s]
            /\ named[s] <= granted[s]
      BY <1>1, <2>4 DEF IInv, CreditInv, CreditConserved
    <3>2. limit[s] \in Nat /\ named[s] \in Nat
      BY <1>1 DEF IInv, TypeOK, PipeTypeOK
    <3> QED BY <2>1, <2>2, <3>1, <3>2
  <2> QED BY <1>1, <2>3, <2>4 DEF IInv, ListInv
<1>2. IInv => CompletedMeansCounted
  BY <1>1 DEF CompletedMeansCounted
<1> QED BY <1>2, Invariance, PTL

\* The script keeps a report with every period up to msg_count.
THEOREM KeptIsWhole == Spec => []KeptReportIsWhole
<1>1. ASSUME IInv, pc = "done", rproc = "exited"
      PROVE  DueRows(0, RecvCount, RecvFreq) \subseteq {row.count : row \in saved}
  <2>1. saved = rrows /\ received >= RecvCount /\ received \in Nat
    BY <1>1 DEF IInv, SavedInv, ListInv, TypeOK, RecvTypeOK
  <2>2. {row.count : row \in rrows} = DueRows(0, received, RecvFreq)
    BY <1>1 DEF IInv, RowInv, RowsCoverTheirPeriod
  <2>3. DueRows(0, received, RecvFreq) =
          DueRows(0, RecvCount, RecvFreq) \union DueRows(RecvCount, received, RecvFreq)
    BY <2>1, DueRowsJoin, Constants
  <2> QED BY <2>1, <2>2, <2>3
<1>2. IInv => KeptReportIsWhole
  BY <1>1 DEF KeptReportIsWhole
<1> QED BY <1>2, Invariance, PTL
-----------------------------------------------------------------------------
(* Refinement of MeasuredTransfer *)

\* A burst is an Offer, a counted message a Count, every other step stutters.
LEMMA BurstIsOffer ==
    ASSUME IInv, NEW s \in Senders, NEW lim \in limit[s]..named[s],
           SSendAll(s, lim), UNCHANGED recvVars
    PROVE  MT!Offer(s) \/ UNCHANGED MT!mtVars
<1> DEFINE n == Burst(s, lim)
<1>1. UNCHANGED <<taken, received, shuttingDown>>
  BY DEF recvVars
<1>2. sent' = [sent EXCEPT ![s] = @ + n]
  BY DEF SSendAll
<1>3. /\ n \in Nat /\ sent[s] + n <= lim /\ sent[s] + n <= SendCount
  BY BurstBounds DEF IInv
<1>4. /\ sent \in [Senders -> Nat] /\ taken[s] \in Nat /\ wire[s] \in Nat
      /\ named[s] \in Nat /\ lim <= named[s] /\ lim \in Int
  BY DEF IInv, TypeOK, PipeTypeOK, SendTypeOK, RecvTypeOK
<1>5. named[s] <= taken[s] + Window /\ sent[s] = taken[s] + wire[s]
  BY Constants DEF IInv, TypeOK, PipeTypeOK, RecvTypeOK, CreditInv, CreditConserved
<1> HIDE DEF n
<1>6. CASE n = 0
  <2>1. sent' = sent BY <1>2, <1>4, <1>6
  <2> QED BY <1>1, <2>1 DEF MT!mtVars
<1>7. CASE n > 0
  <2>1. n \in 1..Window /\ sent[s] + n <= taken[s] + Window
    BY <1>3, <1>4, <1>5, <1>7, Constants
  <2> QED BY <1>1, <1>2, <1>3, <2>1 DEF MT!Offer
<1> QED BY <1>3, <1>6, <1>7

LEMMA MessageIsCount ==
    ASSUME IInv, NEW s \in Senders, RCountMessage(s), wire[s] > 0, UNCHANGED sendVars
    PROVE  MT!Count(s)
<1>1. taken[s] < sent[s]
  BY DEF IInv, CreditInv, CreditConserved, TypeOK, PipeTypeOK, SendTypeOK, RecvTypeOK
<1>2. taken' = [taken EXCEPT ![s] = @ + 1] /\ received' = received + 1 /\ sent' = sent
  BY DEF RCountMessage, sendVars
<1>3. shuttingDown' = (shuttingDown \/ received + 1 >= RecvCount)
  <2>1. shuttingDown => received + 1 >= RecvCount
    BY Constants DEF IInv, ListInv, TypeOK, RecvTypeOK
  <2>2. shuttingDown \in BOOLEAN /\ shuttingDown' \in BOOLEAN
    BY DEF IInv, TypeOK, RecvTypeOK, RCountMessage, Enough, Shutdown
  <2>3. CASE received + 1 >= RecvCount
    BY <2>2, <2>3 DEF RCountMessage, Enough, Shutdown
  <2>4. CASE ~(received + 1 >= RecvCount)
    BY <2>1, <2>2, <2>4 DEF RCountMessage, Enough
  <2> QED BY <2>3, <2>4
<1> QED BY <1>1, <1>2, <1>3 DEF MT!Count

\* The two programs, under any faults, keep the promise of MeasuredTransfer.
THEOREM Refinement == Spec => MeasuresTransfer
<1>1. ASSUME Init PROVE MT!Init
  BY <1>1 DEF Init, SendInit, RecvInit, MT!Init
<1>2. ASSUME IInv, [Next]_vars PROVE [MT!Next]_(MT!mtVars)
  <2>same. ASSUME UNCHANGED <<sent, taken, received, shuttingDown>>
           PROVE  [MT!Next]_(MT!mtVars)
    BY <2>same DEF MT!mtVars
  <2>1. CASE LaunchReceiver
    BY <2>1, <2>same DEF LaunchReceiver, RLaunch, RDie, sendVars
  <2>2. ASSUME NEW s \in Senders, LaunchSender(s) PROVE [MT!Next]_(MT!mtVars)
    BY <2>2, <2>same DEF LaunchSender, SLaunch, recvVars
  <2>3. ASSUME NEW s \in Senders, Sending(s) PROVE [MT!Next]_(MT!mtVars)
    <3>1. ASSUME NEW lim \in limit[s]..named[s], SSendAll(s, lim)
          PROVE  [MT!Next]_(MT!mtVars)
      BY <1>2, <2>3, <3>1, BurstIsOffer DEF Sending, MT!Next
    <3>2. CASE UNCHANGED sent
      BY <2>3, <3>2, <2>same DEF Sending, recvVars
    <3> QED BY <2>3, <3>1, <3>2
            DEF Sending, SendStep, SLinkFlow, SConnectionInit, SRemoteClose, SExit,
                SDivideByZero, sendVars
  <2>4. CASE Receiving
    <3>1. ASSUME NEW s \in Senders, RDelivery(s), RCountMessage(s)
          PROVE  [MT!Next]_(MT!mtVars)
      BY <1>2, <2>4, <3>1, MessageIsCount DEF Receiving, RDelivery, MT!Next
    <3>2. CASE UNCHANGED <<taken, received, shuttingDown>>
      BY <2>4, <3>2, <2>same DEF Receiving, sendVars
    <3> QED BY <2>4, <3>1, <3>2
            DEF Receiving, RReactorInit, RReactorFinal, RecvStep, RConnectionInit,
                RLinkRemoteOpen, RDelivery, RWriteClose, RRemoteClose, RUnbound, RDie,
                recvVars
  <2>5. CASE WaitAndKeep
    BY <2>5, <2>same DEF WaitAndKeep, sendVars, recvVars
  <2>6. CASE UNCHANGED vars
    BY <2>6, <2>same DEF vars, sendVars, recvVars
  <2> QED BY <1>2, <2>1, <2>2, <2>3, <2>4, <2>5, <2>6 DEF Next, Finished
<1> QED BY <1>1, <1>2, Invariance, PTL DEF Spec, MeasuresTransfer, MT!Spec
=============================================================================
