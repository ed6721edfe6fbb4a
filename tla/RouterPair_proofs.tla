--------------------------- MODULE RouterPair_proofs ---------------------------
(***************************************************************************)
(* Proofs about RouterPair, for any counts, frequencies, number of tries   *)
(* and of broken connections, and any capacity of the router.              *)
(***************************************************************************)
EXTENDS RouterPair, SequenceTheorems, TLAPS

Msg == [id : Nat, try : 0..(MaxTries - 1)]

LEMMA Constants ==
    /\ Capacity \in Nat /\ Requested \in Int /\ (Requested \in Nat \/ Requested = -1)
    /\ MaxSent \in Nat /\ Patience \in Nat /\ Patience > 0
    /\ MaxTries \in Nat /\ MaxTries > 0 /\ SendFreqs \subseteq Nat
    /\ Expected \in Int /\ (Expected \in Nat \/ Expected = -1) /\ RecvFreqs \subseteq Nat
    /\ SendBreaks \in Nat /\ RecvBreaks \in Nat /\ MayDismiss \in BOOLEAN
BY DismissAssumption, CapacityAssumption, SimpleSendAssumption, SimpleRecvAssumption, BreaksAssumption

\* What TypeOK says, for the solvers.
LEMMA Types ==
    ASSUME TypeOK
    PROVE  /\ queue \in Seq(Msg) /\ Len(queue) \in Nat
           /\ \A i \in 1..Len(queue) :
                 queue[i] \in Msg /\ queue[i].id \in Nat /\ queue[i].try \in Nat
           /\ rseen \in Seq(Nat) /\ Len(rseen) \in Nat
           /\ \A i \in 1..Len(rseen) : rseen[i] \in Nat
           /\ try \in Nat /\ try \in 0..(MaxTries - 1) /\ sent \in Nat /\ confirmed \in Nat
           /\ settles \in Nat /\ received \in Nat /\ waited \in Int
           /\ waited >= -1 /\ sfreq \in Nat /\ rfreq \in Nat
<1>1. queue \in Seq(Msg) /\ rseen \in Seq(Nat)
  BY DEF TypeOK, SendTypeOK, RecvTypeOK, Msg
<1>2. Len(queue) \in Nat /\ \A i \in 1..Len(queue) : queue[i] \in Msg
  BY <1>1, LenProperties, ElementOfSeq
<1>3. Len(rseen) \in Nat /\ \A i \in 1..Len(rseen) : rseen[i] \in Nat
  BY <1>1, LenProperties, ElementOfSeq
<1>4. \A i \in 1..Len(queue) : queue[i].id \in Nat /\ queue[i].try \in Nat
  BY <1>2, Constants DEF Msg
<1> QED BY <1>1, <1>2, <1>3, <1>4, Constants DEF TypeOK, SendTypeOK, RecvTypeOK

LEMMA InitIInv == ASSUME Init PROVE IInv
<1>0. /\ queue = <<>> /\ settles = 0 /\ sConn = "none" /\ rConn = "none" /\ dismissed = FALSE
      /\ sproc = "start" /\ sfreq \in SendFreqs /\ sfile \in BOOLEAN /\ srows = {}
      /\ try = 0 /\ sent = 0 /\ confirmed = 0 /\ waited = -1
      /\ rproc = "start" /\ rfreq \in RecvFreqs /\ rfile \in BOOLEAN /\ rrows = {}
      /\ received = 0 /\ rseen = <<>> /\ doneFile = FALSE /\ sbreaks = 0 /\ rbreaks = 0
  BY DEF Init, RouterInit, SendInit, RecvInit
<1>1. Len(queue) = 0 /\ queue \in Seq(Msg) /\ Len(rseen) = 0 /\ rseen \in Seq(Nat)
  BY <1>0, EmptySeq
<1>2. TypeOK
  <2>1. SendTypeOK BY <1>0, Constants DEF SendTypeOK
  <2>2. RecvTypeOK BY <1>0, <1>1, Constants DEF RecvTypeOK
  <2>3. /\ queue \in Seq([id : Nat, try : 0..(MaxTries - 1)])
        /\ settles \in Nat
    BY <1>0, <1>1 DEF Msg
  <2>4. sConn \in ConnStates /\ rConn \in ConnStates /\ dismissed \in BOOLEAN
    BY <1>0 DEF ConnStates
  <2>5. sbreaks \in 0..SendBreaks /\ rbreaks \in 0..RecvBreaks
    BY <1>0, Constants
  <2> QED BY <2>1, <2>2, <2>3, <2>4, <2>5 DEF TypeOK
<1>3. ConnInv BY <1>0 DEF ConnInv
<1>4. QueueInv
  <2>1. 0 \in 0..Len(queue) /\ Cut(0) BY <1>0, <1>1 DEF Cut
  <2> QED BY <2>1 DEF QueueInv
<1>5. CountInv BY <1>0, Constants DEF CountInv, Forever
<1>6. RowsInv BY <1>0 DEF RowsInv
<1>7. RetryNeverSkips BY <1>1 DEF RetryNeverSkips
<1>8. OrderInv BY <1>0, <1>1 DEF OrderInv
<1>9. ConfirmInv BY <1>0 DEF ConfirmInv
<1> QED BY <1>2, <1>3, <1>4, <1>5, <1>6, <1>7, <1>8, <1>9 DEF IInv
-----------------------------------------------------------------------------
(* The sender. *)

LEMMA SStartIInv ==
    ASSUME IInv, SStart, UNCHANGED <<recvVars, sbreaks, rbreaks>>
    PROVE  IInv'
<1>0. /\ sproc = "start" /\ sproc' \in {"run", "failed"}
      /\ sproc' = "run" => sConn' = "open"
      /\ sproc' = "failed" => sConn' = sConn
      /\ UNCHANGED <<sfreq, sfile, srows, try, sent, confirmed, waited, queue, settles, rConn>>
      /\ UNCHANGED <<rproc, rfreq, rfile, rrows, received, rseen, doneFile, sbreaks, rbreaks, dismissed>>
  BY DEF SStart, recvVars, sopts, ropts
<1>1. TypeOK /\ ConnInv /\ QueueInv /\ CountInv /\ RowsInv
      /\ RetryNeverSkips /\ OrderInv /\ ConfirmInv
  BY DEF IInv
<1>2. sConn = "none" /\ sent = 0 /\ confirmed = 0 /\ settles = 0 /\ waited = -1
  BY <1>0, <1>1 DEF ConnInv
<1>3. TypeOK' BY <1>0, <1>1 DEF TypeOK, SendTypeOK, RecvTypeOK, ConnStates
<1>4. ConnInv' BY <1>0, <1>1, <1>2 DEF ConnInv, Counts
<1>5. QueueInv'
  <2>1. PICK c \in 0..Len(queue) : Cut(c) BY <1>1 DEF QueueInv
  <2>2. c = Len(queue) BY <1>0, <2>1 DEF Cut
  <2>3. Cut(c)' BY <1>0, <1>1, <1>2, <2>1, <2>2, Types DEF Cut
  <2> QED BY <1>0, <2>3 DEF QueueInv
<1>6. CountInv' BY <1>0, <1>1, <1>2, Constants DEF CountInv, Forever
<1>7. RowsInv' BY <1>0, <1>2, <1>1 DEF RowsInv
<1>8. RetryNeverSkips' BY <1>0, <1>1 DEF RetryNeverSkips
<1>9. OrderInv' BY <1>0, <1>1, <1>2 DEF OrderInv, Queued, Seen
<1>10. ConfirmInv' BY <1>0, <1>1 DEF ConfirmInv
<1> QED BY <1>3, <1>4, <1>5, <1>6, <1>7, <1>8, <1>9, <1>10 DEF IInv

LEMMA STickIInv ==
    ASSUME IInv, STick, UNCHANGED <<recvVars, sbreaks, rbreaks>>
    PROVE  IInv'
<1> DEFINE m == [id |-> sent + 1, try |-> try]
<1>0. TypeOK /\ ConnInv /\ QueueInv /\ CountInv /\ RowsInv
      /\ RetryNeverSkips /\ OrderInv /\ ConfirmInv
  BY DEF IInv
<1>t. /\ queue \in Seq(Msg) /\ Len(queue) \in Nat /\ sent \in Nat
      /\ try \in Nat /\ try \in 0..(MaxTries - 1)
      /\ confirmed \in Nat /\ settles \in Nat /\ waited \in Int /\ waited >= -1
  BY <1>0, Types
<1>1. /\ sproc = "run" /\ sConn \in {"open", "closing"}
      /\ UNCHANGED <<sfreq, sfile, try, confirmed, settles, rConn>>
      /\ UNCHANGED <<rproc, rfreq, rfile, rrows, received, rseen, doneFile, sbreaks, rbreaks, dismissed>>
      /\ \/ waited' < Patience /\ UNCHANGED <<sproc, sConn>>
         \/ waited' > 0 /\ sproc' = "ok" /\ sConn' = "gone"
      /\ waited' = IF waited = -1 THEN -1 ELSE waited + 1
  BY <1>0 DEF STick, InPatience, ConnInv, recvVars, sopts, ropts
<1>2. /\ Sends => sfreq # 0 /\ sent' = sent + 1 /\ srows' = srows \union Due
      /\ Sends /\ sConn = "open" /\ ~dismissed => queue' = Append(queue, m)
      /\ Sends /\ ~(sConn = "open" /\ ~dismissed) => queue' = queue
      /\ ~Sends => UNCHANGED <<sent, srows, queue>>
  BY DEF STick, Forward
<1>3. m \in Msg /\ m.id = sent + 1 /\ m.try = try
  BY <1>0, Types, Constants DEF Msg
<1> HIDE DEF m
<1>4. Sends /\ sConn = "open" /\ ~dismissed =>
         /\ queue' \in Seq(Msg) /\ Len(queue') = Len(queue) + 1
         /\ \A i \in 1..Len(queue) : queue'[i] = queue[i]
         /\ queue'[Len(queue) + 1] = m
  BY <1>2, <1>3, <1>t, AppendProperties
<1>5. Sends => (Forever \/ sent < Requested) /\ rConn = "open"
  BY DEF Sends, Credit
<1>6. TypeOK'
  <2>1. queue' \in Seq(Msg) BY <1>1, <1>2, <1>4, <1>t
  <2>2. waited' \in -1..Patience
    BY <1>0, <1>1, Constants, <1>t DEF CountInv
  <2>3. sent' \in Nat BY <1>0, <1>2, <1>t
  <2>4. srows' \subseteq [try : 0..(MaxTries - 1), sent : Nat]
    <3>1. Due \subseteq [try : 0..(MaxTries - 1), sent : Nat]
      BY <1>0, Constants, <1>t DEF Due
    <3> QED BY <1>0, <1>2, <3>1 DEF TypeOK, SendTypeOK
  <2>5. SendTypeOK' BY <1>0, <1>1, <2>2, <2>3, <2>4 DEF TypeOK, SendTypeOK
  <2>6. RecvTypeOK' BY <1>0, <1>1 DEF TypeOK, RecvTypeOK
  <2> QED BY <1>0, <1>1, <2>1, <2>5, <2>6 DEF TypeOK, ConnStates, Msg
<1>7. ConnInv' BY <1>0, <1>1, <1>2, <1>5 DEF ConnInv, Counts
<1>8. QueueInv'
  <2>1. PICK c \in 0..Len(queue) : Cut(c) BY <1>0 DEF QueueInv
  <2>2. c \in 0..Len(queue') BY <1>1, <1>2, <1>4, <1>t
  <2>3. \A i \in 1..Len(queue') :
           IF i <= c THEN queue'[i].try < try' ELSE queue'[i].try = try'
    BY <1>1, <1>2, <1>3, <1>4, <2>1, <1>t DEF Cut
  <2>4. confirmed' + settles' + (Len(queue') - c) <= sent'
    BY <1>1, <1>2, <1>4, <2>1, <1>t DEF Cut
  <2>5. sConn' = "open" /\ ~dismissed' =>
           confirmed' + settles' + (Len(queue') - c) = sent'
    BY <1>1, <1>2, <1>4, <2>1, <1>t DEF Cut
  <2>6. Cut(c)' BY <1>1, <2>3, <2>4, <2>5 DEF Cut
  <2> QED BY <2>2, <2>6 DEF QueueInv
<1>9. CountInv'
  BY <1>0, <1>1, <1>2, <1>5, Constants, <1>t DEF CountInv, Forever
<1>10. RowsInv'
  <2>1. ASSUME NEW n \in 1..sent'
        PROVE  sfreq # 0 /\ (n % sfreq = 0 => [try |-> try, sent |-> n] \in srows')
    <3>1. CASE n \in 1..sent BY <1>0, <1>1, <1>2, <3>1 DEF RowsInv
    <3>2. CASE n \notin 1..sent
      <4>1. Sends /\ n = sent + 1 BY <1>0, <1>2, <3>2, <1>t
      <4> QED BY <1>2, <4>1 DEF Due
    <3> QED BY <3>1, <3>2
  <2> QED BY <1>0, <1>1, <2>1 DEF RowsInv
<1>11. RetryNeverSkips' BY <1>0, <1>1 DEF RetryNeverSkips
<1>12. OrderInv'
  <2>1. CASE rConn \in {"none", "open"} /\ Sends /\ sConn = "open" /\ ~dismissed
    <3>1. ASSUME NEW k \in 0..Len(queue), NEW x, Queued(queue, x, k)
          PROVE  Queued(queue', x, k)
      <4>1. \A j \in 1..Len(queue) : queue'[j] = queue[j] BY <1>4, <2>1
      <4>2. PICK j \in 1..k : queue[j].id = x BY <3>1 DEF Queued
      <4>3. queue'[j].id = x BY <4>1, <4>2, <1>t
      <4> QED BY <4>2, <4>3 DEF Queued
    <3>2. ASSUME NEW x, Seen(rseen, x) PROVE Seen(rseen', x) BY <1>1, <3>2
    <3>3. ASSUME NEW i \in 1..Len(queue')
          PROVE  \/ queue'[i].id - 1 = 0 \/ Queued(queue', queue'[i].id - 1, i - 1)
                 \/ Seen(rseen', queue'[i].id - 1)
      <4>1. CASE i \in 1..Len(queue)
        <5>1. queue'[i] = queue[i] /\ i - 1 \in 0..Len(queue)
          BY <1>4, <2>1, <4>1, <1>t
        <5>2. \/ queue[i].id - 1 = 0 \/ Queued(queue, queue[i].id - 1, i - 1)
              \/ Seen(rseen, queue[i].id - 1)
          BY <1>0, <2>1, <4>1 DEF OrderInv
        <5> QED BY <3>1, <3>2, <5>1, <5>2
      <4>2. CASE i \notin 1..Len(queue)
        <5>1. i - 1 = Len(queue) /\ queue'[i].id - 1 = sent
          BY <1>3, <1>4, <2>1, <4>2, <1>t
        <5>2. sent = 0 \/ Queued(queue, sent, Len(queue)) \/ Seen(rseen, sent)
          BY <1>0, <2>1 DEF OrderInv
        <5>3. Len(queue) \in 0..Len(queue) BY <1>0, <1>t
        <5> QED BY <3>1, <3>2, <5>1, <5>2, <5>3
      <4> QED BY <4>1, <4>2
    <3>4. Queued(queue', sent', Len(queue'))
      <4>1. Len(queue) + 1 \in 1..Len(queue') /\ queue'[Len(queue) + 1].id = sent'
        BY <1>2, <1>3, <1>4, <2>1, <1>t
      <4> QED BY <4>1 DEF Queued
    <3> QED BY <3>3, <3>4 DEF OrderInv
  <2>2. CASE ~(rConn \in {"none", "open"} /\ Sends /\ sConn = "open" /\ ~dismissed)
    <3>1. CASE rConn \in {"none", "open"}
      <4>1. queue' = queue /\ (sConn' = "open" /\ ~dismissed' => sent' = sent)
        BY <1>1, <1>2, <2>2, <3>1
      <4> QED BY <1>0, <1>1, <4>1 DEF OrderInv, Queued, Seen
    <3>2. CASE rConn \notin {"none", "open"} BY <1>1, <3>2 DEF OrderInv
    <3> QED BY <3>1, <3>2
  <2> QED BY <2>1, <2>2
<1>13. ConfirmInv' BY <1>0, <1>1 DEF ConfirmInv
<1> QED BY <1>6, <1>7, <1>8, <1>9, <1>10, <1>11, <1>12, <1>13 DEF IInv

LEMMA SDivideByZeroIInv ==
    ASSUME IInv, SDivideByZero, UNCHANGED <<recvVars, sbreaks, rbreaks>>
    PROVE  IInv'
<1>0. TypeOK /\ ConnInv /\ QueueInv /\ CountInv /\ RowsInv
      /\ RetryNeverSkips /\ OrderInv /\ ConfirmInv
  BY DEF IInv
<1>t. /\ Len(queue) \in Nat /\ sent \in Nat /\ confirmed \in Nat /\ waited \in Int
  BY <1>0, Types
<1>1. /\ sproc = "run" /\ sproc' = "crashed" /\ sConn' = "gone" /\ sent' = sent + 1
      /\ UNCHANGED <<sfreq, sfile, srows, try, confirmed, waited, queue, settles, rConn>>
      /\ UNCHANGED <<rproc, rfreq, rfile, rrows, received, rseen, doneFile, sbreaks, rbreaks, dismissed>>
      /\ Forever \/ sent < Requested
  BY DEF SDivideByZero, Sends, recvVars, sopts, ropts
<1>2. TypeOK' BY <1>0, <1>1, <1>t DEF TypeOK, SendTypeOK, RecvTypeOK, ConnStates
<1>3. ConnInv' BY <1>0, <1>1 DEF ConnInv, Counts
<1>4. QueueInv'
  <2>1. PICK c \in 0..Len(queue) : Cut(c) BY <1>0 DEF QueueInv
  <2>2. Cut(c)' BY <1>1, <2>1 DEF Cut
  <2> QED BY <1>1, <2>2 DEF QueueInv
<1>5. CountInv' BY <1>0, <1>1, <1>t, Constants DEF CountInv, Forever
<1>6. RowsInv' BY <1>0, <1>1 DEF RowsInv
<1>7. RetryNeverSkips' BY <1>0, <1>1 DEF RetryNeverSkips
<1>8. OrderInv' BY <1>0, <1>1 DEF OrderInv
<1>9. ConfirmInv' BY <1>0, <1>1 DEF ConfirmInv
<1> QED BY <1>2, <1>3, <1>4, <1>5, <1>6, <1>7, <1>8, <1>9 DEF IInv

LEMMA SSettledIInv ==
    ASSUME IInv, SSettled, UNCHANGED <<recvVars, sbreaks, rbreaks>>
    PROVE  IInv'
<1>0. TypeOK /\ ConnInv /\ QueueInv /\ CountInv /\ RowsInv
      /\ RetryNeverSkips /\ OrderInv /\ ConfirmInv
  BY DEF IInv
<1>t. /\ Len(queue) \in Nat /\ sent \in Nat /\ confirmed \in Nat /\ settles \in Nat
      /\ waited \in Int /\ received \in Nat
  BY <1>0, Types
<1>1. /\ sproc = "run" /\ settles > 0 /\ settles' = settles - 1
      /\ confirmed' = confirmed + 1
      /\ waited' = IF Closing THEN 0 ELSE waited
      /\ \/ confirmed + 1 = Requested /\ sproc' = "ok" /\ sConn' = "gone"
         \/ /\ confirmed + 1 # Requested /\ sproc' = sproc
            /\ sConn' = IF Closing THEN "closing" ELSE sConn
      /\ UNCHANGED <<sfreq, sfile, srows, try, sent, queue, rConn>>
      /\ UNCHANGED <<rproc, rfreq, rfile, rrows, received, rseen, doneFile, sbreaks, rbreaks, dismissed>>
  BY DEF SSettled, recvVars, sopts, ropts
<1>2. PICK c \in 0..Len(queue) : Cut(c) BY <1>0 DEF QueueInv
<1>3. confirmed + 1 <= sent BY <1>1, <1>2, <1>t DEF Cut
<1>4. TypeOK'
  <2>1. waited' \in -1..Patience BY <1>0, <1>1, Constants DEF TypeOK, SendTypeOK
  <2> QED BY <1>0, <1>1, <1>t, <2>1 DEF TypeOK, SendTypeOK, RecvTypeOK, ConnStates
<1>5. ConnInv' BY <1>0, <1>1 DEF ConnInv, Counts
<1>6. QueueInv'
  <2>1. Cut(c)'
    <3>1. sproc' = "run" => confirmed' + settles' + (Len(queue') - c) <= sent'
      BY <1>1, <1>2, <1>t DEF Cut
    <3>2. sConn' = "open" /\ ~dismissed' => confirmed' + settles' + (Len(queue') - c) = sent'
      BY <1>1, <1>2, <1>t DEF Cut
    <3> QED BY <1>1, <1>2, <3>1, <3>2 DEF Cut
  <2> QED BY <1>1, <2>1 DEF QueueInv
<1>7. CountInv' BY <1>0, <1>1, <1>3, <1>t, Constants DEF CountInv, Forever, Closing
<1>8. RowsInv' BY <1>0, <1>1 DEF RowsInv
<1>9. RetryNeverSkips' BY <1>0, <1>1 DEF RetryNeverSkips
<1>10. OrderInv' BY <1>0, <1>1 DEF OrderInv
<1>11. ConfirmInv' BY <1>0, <1>1, <1>t DEF ConfirmInv
<1> QED BY <1>4, <1>5, <1>6, <1>7, <1>8, <1>9, <1>10, <1>11 DEF IInv

LEMMA SConnectionCloseIInv ==
    ASSUME IInv, SConnectionClose, UNCHANGED <<recvVars, sbreaks, rbreaks>>
    PROVE  IInv'
<1>0. TypeOK /\ ConnInv /\ QueueInv /\ CountInv /\ RowsInv
      /\ RetryNeverSkips /\ OrderInv /\ ConfirmInv
  BY DEF IInv
<1>1. /\ sproc = "run" /\ (sConn = "closing" \/ dismissed)
      /\ sproc' = "ok" /\ sConn' = "gone"
      /\ UNCHANGED <<sfreq, sfile, srows, try, sent, confirmed, waited, queue, settles, rConn>>
      /\ UNCHANGED <<rproc, rfreq, rfile, rrows, received, rseen, doneFile, sbreaks, rbreaks, dismissed>>
  BY DEF SConnectionClose, recvVars, sopts, ropts
<1>2. TypeOK' BY <1>0, <1>1 DEF TypeOK, SendTypeOK, RecvTypeOK, ConnStates
<1>3. ConnInv' BY <1>0, <1>1 DEF ConnInv, Counts
<1>4. QueueInv'
  <2>1. PICK c \in 0..Len(queue) : Cut(c) BY <1>0 DEF QueueInv
  <2>2. Cut(c)' BY <1>1, <2>1 DEF Cut
  <2> QED BY <1>1, <2>2 DEF QueueInv
<1>5. CountInv' BY <1>0, <1>1 DEF CountInv, Forever
<1>6. RowsInv' BY <1>0, <1>1 DEF RowsInv
<1>7. RetryNeverSkips' BY <1>0, <1>1 DEF RetryNeverSkips
<1>8. OrderInv' BY <1>0, <1>1 DEF OrderInv
<1>9. ConfirmInv' BY <1>0, <1>1 DEF ConfirmInv
<1> QED BY <1>2, <1>3, <1>4, <1>5, <1>6, <1>7, <1>8, <1>9 DEF IInv

\* The end of a connection takes the end of the queue, and never a message of an
\* earlier attempt.
LEMMA Truncated ==
    ASSUME IInv, queue' \in Reached(try)
    PROVE  \E n \in 0..Len(queue) :
              /\ queue' \in Seq(Msg) /\ Len(queue') = n
              /\ \A i \in 1..n : queue'[i] = queue[i]
              /\ \A c \in 0..Len(queue) : Cut(c) => c <= n
              /\ rConn \in {"none", "open"} =>
                    \A i \in 1..n : \/ queue'[i].id - 1 = 0
                                    \/ Queued(queue', queue'[i].id - 1, i - 1)
                                    \/ Seen(rseen, queue'[i].id - 1)
<1>0. TypeOK /\ OrderInv BY DEF IInv
<1>t. /\ queue \in Seq(Msg) /\ Len(queue) \in Nat /\ try \in Nat
      /\ \A i \in 1..Len(queue) : queue[i] \in Msg /\ queue[i].try \in Nat
  BY <1>0, Types
<1>1. PICK n \in 0..Len(queue) :
         /\ \A i \in (n + 1)..Len(queue) : queue[i].try = try
         /\ queue' = SubSeq(queue, 1, n)
  BY DEF Reached
<1>2. /\ queue' \in Seq(Msg) /\ Len(queue') = n
      /\ \A i \in 1..n : queue'[i] = queue[i]
  <2>1. \A i \in 1..n : queue[i] \in Msg BY <1>t
  <2>2. /\ SubSeq(queue, 1, n) \in Seq(Msg)
        /\ Len(SubSeq(queue, 1, n)) = IF 1 <= n THEN n - 1 + 1 ELSE 0
        /\ \A i \in 1..(n - 1 + 1) : SubSeq(queue, 1, n)[i] = queue[1 + i - 1]
    BY <2>1, SubSeqProperties
  <2> QED BY <1>1, <2>2
<1>3. ASSUME NEW c \in 0..Len(queue), Cut(c), n < c PROVE FALSE
  <2>1. c \in (n + 1)..Len(queue) /\ c \in 1..Len(queue) /\ c <= c
    BY <1>t, <1>3
  <2>2. queue[c].try = try /\ queue[c].try < try BY <1>1, <1>3, <2>1 DEF Cut
  <2> QED BY <1>t, <2>2
<1>4. ASSUME rConn \in {"none", "open"}, NEW i \in 1..n
      PROVE  \/ queue'[i].id - 1 = 0 \/ Queued(queue', queue'[i].id - 1, i - 1)
             \/ Seen(rseen, queue'[i].id - 1)
  <2>1. i \in 1..Len(queue) /\ queue'[i] = queue[i] BY <1>2, <1>t
  <2>2. \/ queue[i].id - 1 = 0 \/ Queued(queue, queue[i].id - 1, i - 1)
        \/ Seen(rseen, queue[i].id - 1)
    BY <1>0, <1>4, <2>1 DEF OrderInv
  <2>3. \A x : Queued(queue, x, i - 1) => Queued(queue', x, i - 1)
    BY <1>2 DEF Queued
  <2> QED BY <2>1, <2>2, <2>3
<1> QED BY <1>2, <1>3, <1>4, <1>t

\* A break of the sender's connection.
LEMMA STransportErrorIInv ==
    ASSUME IInv, STransportError, sbreaks < SendBreaks, sbreaks' = sbreaks + 1,
           UNCHANGED <<recvVars, rbreaks>>
    PROVE  IInv'
<1>0. TypeOK /\ ConnInv /\ QueueInv /\ CountInv /\ RowsInv
      /\ RetryNeverSkips /\ OrderInv /\ ConfirmInv
  BY DEF IInv
<1>t. /\ queue \in Seq(Msg) /\ Len(queue) \in Nat /\ sent \in Nat /\ confirmed \in Nat
      /\ settles \in Nat /\ waited \in Int /\ received \in Nat
      /\ try \in Nat /\ try \in 0..(MaxTries - 1)
      /\ \A i \in 1..Len(queue) : queue[i] \in Msg /\ queue[i].try \in Nat
  BY <1>0, Types
<1>1. /\ sproc = "run" /\ sConn' = "none" /\ settles' = 0 /\ dismissed' = FALSE
      /\ UNCHANGED <<sfreq, sfile, srows, rConn>>
      /\ UNCHANGED <<rproc, rfreq, rfile, rrows, received, rseen, doneFile, rbreaks>>
      /\ \/ /\ try + 1 < MaxTries /\ sproc' = "start" /\ try' = try + 1
            /\ sent' = 0 /\ confirmed' = 0 /\ waited' = -1
         \/ /\ sproc' = "failed"
            /\ UNCHANGED <<try, sent, confirmed, waited>>
  BY DEF STransportError, Caught, Retries, Fresh, recvVars, sopts, ropts
<1>3. PICK n \in 0..Len(queue) :
         /\ queue' \in Seq(Msg) /\ Len(queue') = n
         /\ \A i \in 1..n : queue'[i] = queue[i]
         /\ \A c \in 0..Len(queue) : Cut(c) => c <= n
         /\ rConn \in {"none", "open"} =>
               \A i \in 1..n : \/ queue'[i].id - 1 = 0
                               \/ Queued(queue', queue'[i].id - 1, i - 1)
                               \/ Seen(rseen, queue'[i].id - 1)
  BY Truncated DEF STransportError
<1>4. TypeOK'
  <2>1. sbreaks' \in 0..SendBreaks BY <1>0, Constants DEF TypeOK
  <2>2. try' \in 0..(MaxTries - 1) /\ sent' \in Nat /\ confirmed' \in Nat
        /\ waited' \in -1..Patience
    <3>1. CASE try + 1 < MaxTries /\ try' = try + 1 /\ sent' = 0 /\ confirmed' = 0
               /\ waited' = -1
      BY <1>t, <3>1, Constants
    <3>2. CASE UNCHANGED <<try, sent, confirmed, waited>>
      BY <1>0, <3>2 DEF TypeOK, SendTypeOK
    <3> QED BY <1>1, <3>1, <3>2
  <2>3. SendTypeOK' BY <1>0, <1>1, <2>2 DEF TypeOK, SendTypeOK
  <2>4. RecvTypeOK' BY <1>0, <1>1 DEF TypeOK, RecvTypeOK
  <2> QED BY <1>0, <1>1, <1>3, <2>1, <2>3, <2>4 DEF TypeOK, ConnStates, Msg
<1>5. ConnInv' BY <1>0, <1>1 DEF ConnInv, Counts
<1>6. QueueInv'
  <2>1. PICK c \in 0..Len(queue) : Cut(c) BY <1>0 DEF QueueInv
  <2>2. c <= n BY <1>3, <2>1
  <2>3. CASE sproc' = "start"
    <3>1. ASSUME NEW i \in 1..n PROVE queue'[i].try < try'
      <4>1. i \in 1..Len(queue) /\ queue'[i] = queue[i] /\ try' = try + 1
        BY <1>1, <1>3, <1>t, <2>3
      <4>2. queue[i].try <= try
        <5>1. IF i <= c THEN queue[i].try < try ELSE queue[i].try = try
          BY <2>1, <4>1 DEF Cut
        <5>2. queue[i].try \in Nat BY <1>t, <4>1
        <5> QED BY <1>t, <5>1, <5>2
      <4>3. queue[i].try \in Nat BY <1>t, <4>1
      <4> QED BY <1>t, <4>1, <4>2, <4>3
    <3>2. Cut(n)' BY <1>1, <1>3, <2>3, <3>1 DEF Cut
    <3> QED BY <1>3, <3>2 DEF QueueInv
  <2>4. CASE sproc' = "failed"
    <3>1. ASSUME NEW i \in 1..n
          PROVE  IF i <= c THEN queue'[i].try < try' ELSE queue'[i].try = try'
      <4>1. i \in 1..Len(queue) /\ queue'[i] = queue[i] /\ try' = try
        BY <1>1, <1>3, <1>t, <2>4
      <4> QED BY <2>1, <4>1 DEF Cut
    <3>2. Cut(c)' BY <1>1, <1>3, <2>4, <3>1 DEF Cut
    <3> QED BY <1>3, <2>2, <3>2 DEF QueueInv
  <2> QED BY <1>1, <2>3, <2>4
<1>7. CountInv' BY <1>0, <1>1, Constants DEF CountInv, Forever
<1>8. RowsInv' BY <1>0, <1>1 DEF RowsInv
<1>9. RetryNeverSkips' BY <1>0, <1>1 DEF RetryNeverSkips
<1>10. OrderInv' BY <1>1, <1>3 DEF OrderInv
<1>11. ConfirmInv' BY <1>0, <1>1, <1>t DEF ConfirmInv
<1> QED BY <1>4, <1>5, <1>6, <1>7, <1>8, <1>9, <1>10, <1>11 DEF IInv
-----------------------------------------------------------------------------
(* The router and the receiver. *)

\* What SettleHead does to the queue.
LEMMA Settled ==
    ASSUME IInv, queue # <<>>, SettleHead(try),
           UNCHANGED <<try, sent, confirmed, sproc, sConn, dismissed>>
    PROVE  /\ queue' \in Seq(Msg) /\ Len(queue') = Len(queue) - 1 /\ Len(queue') \in Nat
           /\ \A i \in 1..Len(queue') : i + 1 \in 1..Len(queue) /\ queue'[i] = queue[i + 1]
           /\ Head(queue) = queue[1] /\ 1 \in 1..Len(queue)
           /\ settles' = settles \/ (settles' = settles + 1 /\ sConn \in {"open", "closing"})
           /\ settles' \in Nat
           /\ QueueInv'
<1>0. TypeOK /\ ConnInv /\ QueueInv BY DEF IInv
<1>t. /\ queue \in Seq(Msg) /\ Len(queue) \in Nat /\ settles \in Nat
      /\ confirmed \in Nat /\ sent \in Nat /\ try \in Nat
      /\ \A i \in 1..Len(queue) : queue[i].try \in Nat
  BY <1>0, Types
<1>1. /\ queue' \in Seq(Msg) /\ Len(queue') = Len(queue) - 1
      /\ \A i \in 1..Len(queue') : queue'[i] = queue[i + 1]
  BY <1>t, HeadTailProperties DEF SettleHead
<1>2. Head(queue) = queue[1] BY <1>t
<1>3. Len(queue) > 0 BY <1>t, EmptySeq
<1>4. Len(queue') \in Nat /\ 1 \in 1..Len(queue)
      /\ \A i \in 1..Len(queue') : i + 1 \in 1..Len(queue)
  BY <1>1, <1>3, <1>t
<1>5. settles' = IF queue[1].try = try /\ sConn \in {"open", "closing"} /\ ~dismissed
                 THEN settles + 1 ELSE settles
  BY <1>2 DEF SettleHead
<1>6. QueueInv'
  <2>1. PICK c \in 0..Len(queue) : Cut(c) BY <1>0 DEF QueueInv
  <2>2. CASE c = 0
    <3>1. queue[1].try = try BY <1>4, <2>1, <2>2 DEF Cut
    <3>2. \A i \in 1..Len(queue') : IF i <= 0 THEN queue'[i].try < try' ELSE queue'[i].try = try'
      BY <1>1, <1>4, <1>t, <2>1, <2>2 DEF Cut
    <3>3. sproc' # "start" BY <1>3, <2>1, <2>2 DEF Cut
    <3>u. settles' + (Len(queue') - 0) <= settles + (Len(queue) - 0)
      BY <1>1, <1>5, <1>t
    <3>n. settles' \in Nat /\ Len(queue') \in Nat BY <1>4, <1>5, <1>t
    <3>w. /\ confirmed' = confirmed /\ sent' = sent /\ sConn' = sConn
          /\ sproc' = sproc /\ dismissed' = dismissed
      OBVIOUS
    <3>4. sproc' = "run" => confirmed' + settles' + (Len(queue') - 0) <= sent'
      <4>1. sproc = "run" => confirmed + settles + (Len(queue) - 0) <= sent
        BY <2>1, <2>2 DEF Cut
      <4>t. confirmed \in Nat /\ settles \in Nat /\ Len(queue) \in Nat /\ sent \in Nat BY <1>t
      <4>2. sproc = "run" => confirmed + settles' + (Len(queue') - 0) <= sent
        BY <3>u, <3>n, <4>1, <4>t
      <4> QED BY <3>w, <4>2
    <3>5. ASSUME sConn' = "open", ~dismissed'
          PROVE  confirmed' + settles' + (Len(queue') - 0) = sent'
      <4>1. confirmed + settles + (Len(queue) - 0) = sent
        BY <2>1, <2>2, <3>w, <3>5 DEF Cut
      <4>2. settles' = settles + 1 /\ Len(queue') = Len(queue) - 1
        BY <1>1, <1>5, <3>1, <3>w, <3>5
      <4>t. confirmed \in Nat /\ settles \in Nat /\ Len(queue) \in Nat BY <1>t
      <4>3. confirmed + (settles + 1) + ((Len(queue) - 1) - 0) = sent BY <4>1, <4>t
      <4> QED BY <3>w, <4>2, <4>3
    <3>6. Cut(0)' BY <3>2, <3>3, <3>4, <3>5 DEF Cut
    <3> QED BY <1>4, <3>6 DEF QueueInv
  <2>3. CASE c > 0
    <3>1. queue[1].try < try BY <1>4, <1>t, <2>1, <2>3 DEF Cut
    <3>2. settles' = settles BY <1>5, <1>4, <1>t, <3>1
    <3>3. c - 1 \in 0..Len(queue') BY <1>1, <1>t, <2>3
    <3>4. ASSUME NEW i \in 1..Len(queue')
          PROVE  IF i <= c - 1 THEN queue'[i].try < try' ELSE queue'[i].try = try'
      <4>1. i + 1 \in 1..Len(queue) /\ queue'[i] = queue[i + 1] BY <1>1, <1>4
      <4>2. IF i + 1 <= c THEN queue[i + 1].try < try ELSE queue[i + 1].try = try
        BY <2>1, <4>1 DEF Cut
      <4>3. i <= c - 1 <=> i + 1 <= c BY <1>4
      <4> QED BY <4>1, <4>2, <4>3
    <3>5. sproc' = "start" => c - 1 = Len(queue') BY <1>1, <1>t, <2>1 DEF Cut
    <3>6. sproc' = "run" => confirmed' + settles' + (Len(queue') - (c - 1)) <= sent'
      BY <1>1, <1>t, <2>1, <3>2 DEF Cut
    <3>7. sConn' = "open" /\ ~dismissed' =>
             confirmed' + settles' + (Len(queue') - (c - 1)) = sent'
      BY <1>1, <1>t, <2>1, <3>2 DEF Cut
    <3>8. Cut(c - 1)' BY <3>4, <3>5, <3>6, <3>7 DEF Cut
    <3> QED BY <3>3, <3>8 DEF QueueInv
  <2> QED BY <1>t, <2>2, <2>3
<1>7. settles' \in Nat BY <1>5, <1>t
<1> QED BY <1>1, <1>2, <1>4, <1>5, <1>6, <1>7

LEMMA ReleaseIInv ==
    ASSUME IInv, Release(try), UNCHANGED <<sendVars, recvVars, sbreaks, rbreaks>>
    PROVE  IInv'
<1>0. TypeOK /\ ConnInv /\ QueueInv /\ CountInv /\ RowsInv
      /\ RetryNeverSkips /\ OrderInv /\ ConfirmInv
  BY DEF IInv
<1>1. /\ rConn = "gone" /\ queue # <<>> /\ SettleHead(try)
      /\ UNCHANGED <<sConn, rConn, dismissed>>
      /\ UNCHANGED <<sproc, sfreq, sfile, srows, try, sent, confirmed, waited>>
      /\ UNCHANGED <<rproc, rfreq, rfile, rrows, received, rseen, doneFile, sbreaks, rbreaks, dismissed>>
  BY DEF Release, sendVars, recvVars, sopts, ropts
<1>s. /\ queue' \in Seq(Msg) /\ settles' \in Nat /\ QueueInv'
      /\ settles' = settles \/ sConn \in {"open", "closing"}
  BY <1>1, Settled
<1>2. (sproc = "start" => settles' = settles) /\ queue' \in Seq(Msg) /\ settles' \in Nat
      /\ QueueInv'
  BY <1>0, <1>s DEF ConnInv
<1>3. TypeOK'
  BY <1>0, <1>1, <1>2 DEF TypeOK, SendTypeOK, RecvTypeOK, ConnStates, Msg
<1>4. ConnInv' BY <1>0, <1>1, <1>2 DEF ConnInv, Counts
<1>5. CountInv' BY <1>0, <1>1 DEF CountInv, Forever
<1>6. RowsInv' BY <1>0, <1>1 DEF RowsInv
<1>7. RetryNeverSkips' BY <1>0, <1>1 DEF RetryNeverSkips
<1>8. OrderInv' BY <1>1 DEF OrderInv
<1>9. ConfirmInv' BY <1>0, <1>1 DEF ConfirmInv
<1> QED BY <1>2, <1>3, <1>4, <1>5, <1>6, <1>7, <1>8, <1>9 DEF IInv

\* The router closes the sender's connection: a break that the sender does not feel yet.
LEMMA DismissIInv ==
    ASSUME IInv, Dismiss(try), UNCHANGED <<sendVars, recvVars, sbreaks, rbreaks>>
    PROVE  IInv'
<1>0. TypeOK /\ ConnInv /\ QueueInv /\ CountInv /\ RowsInv
      /\ RetryNeverSkips /\ OrderInv /\ ConfirmInv
  BY DEF IInv
<1>1. /\ sConn = "open" /\ dismissed' = TRUE /\ UNCHANGED <<settles, sConn, rConn>>
      /\ UNCHANGED <<sproc, sfreq, sfile, srows, try, sent, confirmed, waited>>
      /\ UNCHANGED <<rproc, rfreq, rfile, rrows, received, rseen, doneFile, sbreaks, rbreaks>>
  BY DEF Dismiss, sendVars, recvVars, sopts, ropts
<1>t. /\ Len(queue) \in Nat /\ confirmed \in Nat /\ settles \in Nat /\ sent \in Nat
  BY <1>0, Types
<1>2. PICK n \in 0..Len(queue) :
         /\ queue' \in Seq(Msg) /\ Len(queue') = n
         /\ \A i \in 1..n : queue'[i] = queue[i]
         /\ \A c \in 0..Len(queue) : Cut(c) => c <= n
         /\ rConn \in {"none", "open"} =>
               \A i \in 1..n : \/ queue'[i].id - 1 = 0
                               \/ Queued(queue', queue'[i].id - 1, i - 1)
                               \/ Seen(rseen, queue'[i].id - 1)
  BY Truncated DEF Dismiss
<1>3. TypeOK'
  BY <1>0, <1>1, <1>2 DEF TypeOK, SendTypeOK, RecvTypeOK, ConnStates, Msg
<1>4. ConnInv' BY <1>0, <1>1 DEF ConnInv, Counts
<1>5. QueueInv'
  <2>1. PICK c \in 0..Len(queue) : Cut(c) BY <1>0 DEF QueueInv
  <2>2. c \in 0..n BY <1>2, <2>1
  <2>3. sproc = "run" BY <1>0, <1>1 DEF ConnInv
  <2>4. ASSUME NEW i \in 1..n
        PROVE  IF i <= c THEN queue'[i].try < try' ELSE queue'[i].try = try'
    <3>1. i \in 1..Len(queue) /\ queue'[i] = queue[i] /\ try' = try
      BY <1>1, <1>2, <1>t
    <3> QED BY <2>1, <3>1 DEF Cut
  <2>5. confirmed + settles + (n - c) <= sent
    <3>1. confirmed + settles + (Len(queue) - c) <= sent BY <2>1, <2>3 DEF Cut
    <3> QED BY <1>2, <1>t, <2>1, <3>1
  <2>6. Cut(c)' BY <1>1, <1>2, <2>3, <2>4, <2>5 DEF Cut
  <2> QED BY <1>2, <2>2, <2>6 DEF QueueInv
<1>6. CountInv' BY <1>0, <1>1 DEF CountInv, Forever
<1>7. RowsInv' BY <1>0, <1>1 DEF RowsInv
<1>8. RetryNeverSkips' BY <1>0, <1>1 DEF RetryNeverSkips
<1>9. OrderInv' BY <1>1, <1>2 DEF OrderInv
<1>10. ConfirmInv' BY <1>0, <1>1 DEF ConfirmInv
<1> QED BY <1>3, <1>4, <1>5, <1>6, <1>7, <1>8, <1>9, <1>10 DEF IInv

LEMMA RStartIInv ==
    ASSUME IInv, RStart, UNCHANGED <<sendVars, sbreaks, rbreaks>>
    PROVE  IInv'
<1>0. TypeOK /\ ConnInv /\ QueueInv /\ CountInv /\ RowsInv
      /\ RetryNeverSkips /\ OrderInv /\ ConfirmInv
  BY DEF IInv
<1>1. /\ rproc = "start"
      /\ \/ rfile /\ rproc' = "run" /\ rConn' = "open"
         \/ ~rfile /\ rproc' = "failed" /\ rConn' = rConn
      /\ UNCHANGED <<rfreq, rfile, rrows, received, rseen, doneFile, queue, settles, sConn>>
      /\ UNCHANGED <<sproc, sfreq, sfile, srows, try, sent, confirmed, waited, sbreaks, rbreaks, dismissed>>
  BY DEF RStart, sendVars, sopts, ropts
<1>2. TypeOK' BY <1>0, <1>1 DEF TypeOK, SendTypeOK, RecvTypeOK, ConnStates
<1>3. ConnInv' BY <1>0, <1>1, Constants DEF ConnInv, Counts
<1>4. QueueInv'
  <2>1. PICK c \in 0..Len(queue) : Cut(c) BY <1>0 DEF QueueInv
  <2>2. Cut(c)' BY <1>1, <2>1 DEF Cut
  <2> QED BY <1>1, <2>2 DEF QueueInv
<1>5. CountInv' BY <1>0, <1>1 DEF CountInv, Forever
<1>6. RowsInv' BY <1>0, <1>1 DEF RowsInv
<1>7. RetryNeverSkips' BY <1>0, <1>1 DEF RetryNeverSkips
<1>8. OrderInv' BY <1>0, <1>1 DEF OrderInv, ConnInv
<1>9. ConfirmInv' BY <1>0, <1>1 DEF ConfirmInv, ConnInv
<1> QED BY <1>2, <1>3, <1>4, <1>5, <1>6, <1>7, <1>8, <1>9 DEF IInv

LEMMA RMessageIInv ==
    ASSUME IInv, RMessage(try), UNCHANGED <<sendVars, sbreaks, rbreaks>>
    PROVE  IInv'
<1> DEFINE id == Head(queue).id
<1>0. TypeOK /\ ConnInv /\ QueueInv /\ CountInv /\ RowsInv
      /\ RetryNeverSkips /\ OrderInv /\ ConfirmInv
  BY DEF IInv
<1>t. /\ Len(queue) \in Nat /\ rseen \in Seq(Nat) /\ Len(rseen) \in Nat
      /\ \A i \in 1..Len(queue) : queue[i].id \in Nat
      /\ received \in Nat /\ confirmed \in Nat /\ settles \in Nat /\ rfreq \in Nat
  BY <1>0, Types
<1>1. /\ rproc = "run" /\ rConn \in {"open", "closing"} /\ queue # <<>> /\ SettleHead(try)
      /\ UNCHANGED <<rproc, rfreq, rfile, sConn>>
      /\ UNCHANGED <<sproc, sfreq, sfile, srows, try, sent, confirmed, waited, sbreaks, rbreaks, dismissed>>
  BY DEF RMessage, sendVars, sopts, ropts
<1>2. /\ queue' \in Seq(Msg) /\ Len(queue') = Len(queue) - 1 /\ Len(queue') \in Nat
      /\ \A i \in 1..Len(queue') : i + 1 \in 1..Len(queue) /\ queue'[i] = queue[i + 1]
      /\ id = queue[1].id /\ 1 \in 1..Len(queue) /\ id \in Nat
      /\ settles' = settles \/ (settles' = settles + 1 /\ sConn \in {"open", "closing"})
      /\ settles' \in Nat /\ QueueInv'
  BY <1>1, Settled, <1>t
<1>3. Counts =>
        /\ rConn = "open" /\ rfreq # 0 /\ received' = received + 1
        /\ rrows' = IF (received + 1) % rfreq = 0 THEN rrows \union {received + 1} ELSE rrows
        /\ rseen' = Append(rseen, id)
        /\ IF received + 1 = Expected THEN rConn' = "closing" ELSE rConn' = rConn
        /\ doneFile' \in BOOLEAN
  <2>1. Counts => rConn # "closing" BY <1>0, Constants DEF ConnInv, Counts
  <2>2. doneFile \in BOOLEAN BY <1>0 DEF TypeOK, RecvTypeOK
  <2>3. Counts =>
          /\ rfreq # 0 /\ received' = received + 1
          /\ rrows' = IF received' % rfreq = 0 THEN rrows \union {received'} ELSE rrows
          /\ rseen' = Append(rseen, Head(queue).id)
          /\ IF received + 1 = Expected THEN rConn' = "closing" /\ doneFile' = TRUE
             ELSE rConn' = rConn /\ doneFile' = doneFile
    BY DEF RMessage
  <2> QED BY <1>1, <2>1, <2>2, <2>3
<1>4. ~Counts => /\ rConn = "closing"
                 /\ UNCHANGED <<received, rrows, rseen, rConn, doneFile>>
  BY <1>0, <1>1 DEF RMessage, ConnInv
<1> HIDE DEF id
<1>5. Counts => /\ rseen' \in Seq(Nat) /\ Len(rseen') = Len(rseen) + 1
                /\ \A i \in 1..Len(rseen) : rseen'[i] = rseen[i]
                /\ rseen'[Len(rseen) + 1] = id
  <2> DEFINE longer == Append(rseen, id)
  <2>1. id \in Nat /\ (Counts => rseen' = longer) BY <1>2, <1>3
  <2>2. /\ longer \in Seq(Nat) /\ Len(longer) = Len(rseen) + 1
        /\ \A i \in 1..Len(rseen) : longer[i] = rseen[i]
        /\ longer[Len(rseen) + 1] = id
    BY <1>t, <2>1, AppendProperties
  <2> HIDE DEF longer
  <2> QED BY <2>1, <2>2
<1>6. TypeOK'
  <2>1. SendTypeOK' BY <1>0, <1>1 DEF TypeOK, SendTypeOK
  <2>2. RecvTypeOK'
    <3>1. CASE Counts
      <4>1. rrows \subseteq Nat BY <1>0 DEF TypeOK, RecvTypeOK
      <4>2. received' \in Nat BY <1>3, <1>t, <3>1
      <4>3. rrows' \in {rrows, rrows \union {received'}} BY <1>3, <3>1
      <4>4. rrows' \subseteq Nat BY <4>1, <4>2, <4>3
      <4> QED BY <1>0, <1>1, <1>3, <1>5, <3>1, <4>2, <4>4 DEF TypeOK, RecvTypeOK
    <3>2. CASE ~Counts BY <1>0, <1>1, <1>4, <3>2 DEF TypeOK, RecvTypeOK
    <3> QED BY <3>1, <3>2
  <2>3. rConn' \in ConnStates BY <1>1, <1>3, <1>4 DEF ConnStates
  <2> QED BY <1>0, <1>1, <1>2, <2>1, <2>2, <2>3 DEF TypeOK, Msg
<1>7. ConnInv'
  <2>1. sproc = "start" => settles' = settles BY <1>0, <1>2 DEF ConnInv
  <2>2. rConn' \in {"open", "closing"} BY <1>1, <1>3, <1>4
  <2>3. rConn' = "open" => Counts'
    BY <1>3, <1>4, <1>t, Constants DEF Counts
  <2>4. rConn' = "closing" => received' = Expected /\ Expected > 0
    <3>1. CASE Counts
      <4>1. rConn' = "closing" => received + 1 = Expected BY <1>3, <3>1
      <4> QED BY <1>3, <1>t, <3>1, <4>1
    <3>2. CASE ~Counts BY <1>0, <1>4, <3>2 DEF ConnInv
    <3> QED BY <3>1, <3>2
  <2> QED BY <1>0, <1>1, <2>1, <2>2, <2>3, <2>4 DEF ConnInv
<1>8. CountInv' BY <1>0, <1>1, <1>2 DEF CountInv, Forever
<1>9. RowsInv'
  <2>1. ASSUME NEW n \in 1..received'
        PROVE  rfreq # 0 /\ (n % rfreq = 0 => n \in rrows')
    <3>1. CASE n \in 1..received BY <1>0, <1>1, <1>3, <1>4, <3>1 DEF RowsInv
    <3>2. CASE n \notin 1..received
      <4>1. Counts /\ n = received + 1 BY <1>3, <1>4, <1>t, <3>2
      <4> QED BY <1>3, <4>1
    <3> QED BY <3>1, <3>2
  <2> QED BY <1>0, <1>1, <2>1 DEF RowsInv
<1>10. \A x : Seen(rseen, x) => Seen(rseen', x)
  <2>1. CASE Counts BY <1>5, <1>t, <2>1 DEF Seen
  <2>2. CASE ~Counts BY <1>4, <2>2
  <2> QED BY <2>1, <2>2
<1>11. RetryNeverSkips'
  <2>1. CASE Counts
    <3>1. ASSUME NEW i \in 1..Len(rseen')
          PROVE  rseen'[i] = 1 \/ \E j \in 1..(i - 1) : rseen'[j] = rseen'[i] - 1
      <4>1. CASE i \in 1..Len(rseen)
        <5>1. rseen[i] = 1 \/ \E j \in 1..(i - 1) : rseen[j] = rseen[i] - 1
          BY <1>0, <4>1 DEF RetryNeverSkips
        <5>2. \A j \in 1..(i - 1) : j \in 1..Len(rseen) BY <1>t, <4>1
        <5> QED BY <1>5, <2>1, <4>1, <5>1, <5>2
      <4>2. CASE i \notin 1..Len(rseen)
        <5>1. i - 1 = Len(rseen) /\ rseen'[i] = id BY <1>5, <1>t, <2>1, <4>2
        <5>2. id - 1 = 0 \/ Queued(queue, id - 1, 1 - 1) \/ Seen(rseen, id - 1)
          BY <1>0, <1>2, <1>3, <2>1 DEF OrderInv
        <5>3. id = 1 \/ Seen(rseen, id - 1) BY <1>2, <5>2 DEF Queued
        <5> QED BY <1>5, <2>1, <5>1, <5>3 DEF Seen
      <4> QED BY <4>1, <4>2
    <3> QED BY <3>1 DEF RetryNeverSkips
  <2>2. CASE ~Counts BY <1>0, <1>4, <2>2 DEF RetryNeverSkips
  <2> QED BY <2>1, <2>2
<1>12. OrderInv'
  <2> SUFFICES ASSUME rConn' \in {"none", "open"} PROVE OrderInv'
    BY DEF OrderInv
  <2>1. Counts /\ rConn = "open" BY <1>3, <1>4
  <2>2. Seen(rseen', id)
    <3>1. Len(rseen) + 1 \in 1..Len(rseen') BY <1>5, <1>t, <2>1
    <3> QED BY <1>5, <2>1, <3>1 DEF Seen
  <2>3. ASSUME NEW x, NEW k \in 1..Len(queue), Queued(queue, x, k)
        PROVE  Queued(queue', x, k - 1) \/ Seen(rseen', x)
    <3>1. PICK j \in 1..k : queue[j].id = x BY <2>3 DEF Queued
    <3>2. CASE j = 1 BY <1>2, <2>2, <3>1, <3>2
    <3>3. CASE j # 1
      <4>1. j - 1 \in 1..(k - 1) /\ j - 1 \in 1..Len(queue') /\ (j - 1) + 1 = j
        BY <1>2, <1>t, <3>3
      <4>2. queue'[j - 1].id = x BY <1>2, <3>1, <4>1
      <4> QED BY <4>1, <4>2 DEF Queued
    <3> QED BY <3>2, <3>3
  <2>4. ASSUME NEW i \in 1..Len(queue')
        PROVE  \/ queue'[i].id - 1 = 0 \/ Queued(queue', queue'[i].id - 1, i - 1)
               \/ Seen(rseen', queue'[i].id - 1)
    <3>1. i + 1 \in 1..Len(queue) /\ queue'[i] = queue[i + 1] /\ (i + 1) - 1 = i
          /\ i \in 1..Len(queue)
      BY <1>2, <1>t
    <3>2. \/ queue[i + 1].id - 1 = 0 \/ Queued(queue, queue[i + 1].id - 1, i)
          \/ Seen(rseen, queue[i + 1].id - 1)
      BY <1>0, <2>1, <3>1 DEF OrderInv
    <3> QED BY <1>10, <2>3, <3>1, <3>2
  <2>5. sConn = "open" /\ ~dismissed =>
           sent = 0 \/ Queued(queue', sent, Len(queue')) \/ Seen(rseen', sent)
    <3>1. Len(queue) \in 1..Len(queue) /\ Len(queue') = Len(queue) - 1 BY <1>2, <1>t
    <3>2. sConn = "open" /\ ~dismissed =>
             sent = 0 \/ Queued(queue, sent, Len(queue)) \/ Seen(rseen, sent)
      BY <1>0, <2>1 DEF OrderInv
    <3> QED BY <1>10, <2>3, <3>1, <3>2
  <2> QED BY <1>1, <2>4, <2>5 DEF OrderInv
<1>13. ConfirmInv'
  <2>1. CASE Counts
    <3>1. rbreaks = 0 => confirmed + settles <= received
      BY <1>0, <1>1, <1>3, <2>1 DEF ConfirmInv
    <3>2. settles' <= settles + 1 /\ settles' \in Nat BY <1>2, <1>t
    <3>3. ASSUME rbreaks = 0 PROVE confirmed + settles' <= received + 1
      <4>1. confirmed + settles <= received BY <3>1, <3>3
      <4>t. confirmed \in Nat /\ settles \in Nat /\ received \in Nat BY <1>t
      <4>2. \A a, b, c, d \in Nat : a + b <= c /\ d <= b + 1 => a + d <= c + 1
        OBVIOUS
      <4> QED BY <3>2, <4>1, <4>2, <4>t
    <3> QED BY <1>1, <1>3, <2>1, <3>3 DEF ConfirmInv
  <2>2. CASE ~Counts BY <1>0, <1>1, <1>4, <2>2 DEF ConfirmInv
  <2> QED BY <2>1, <2>2
<1> QED BY <1>2, <1>6, <1>7, <1>8, <1>9, <1>11, <1>12, <1>13 DEF IInv

\* The ways in which the receiver ends, and none touches the queue.
LEMMA ReceiverEnds ==
    ASSUME IInv, rproc = "run", rConn \in {"open", "closing"}, rConn' = "gone",
           UNCHANGED <<rfreq, rfile, rrows, rseen, doneFile, queue, settles>>,
           UNCHANGED <<sConn, sproc, sfreq, sfile, srows, try, sent, confirmed, waited, sbreaks>>,
           UNCHANGED dismissed,
           rproc' \in {"ok", "failed", "crashed"}, received' \in Nat,
           rproc' # "crashed" => received' = received,
           rbreaks' \in 0..RecvBreaks,
           rbreaks' > 0 \/ rproc' = "crashed" \/ (rConn = "closing" /\ rbreaks' = rbreaks)
    PROVE  IInv'
<1>0. TypeOK /\ ConnInv /\ QueueInv /\ CountInv /\ RowsInv
      /\ RetryNeverSkips /\ OrderInv /\ ConfirmInv
  BY DEF IInv
<1>1. TypeOK' BY <1>0 DEF TypeOK, SendTypeOK, RecvTypeOK, ConnStates
<1>2. ConnInv' BY <1>0 DEF ConnInv
<1>3. QueueInv'
  <2>1. PICK c \in 0..Len(queue) : Cut(c) BY <1>0 DEF QueueInv
  <2>2. Cut(c)' BY <2>1 DEF Cut
  <2> QED BY <2>2 DEF QueueInv
<1>4. CountInv' BY <1>0 DEF CountInv, Forever
<1>5. RowsInv' BY <1>0 DEF RowsInv
<1>6. RetryNeverSkips' BY <1>0 DEF RetryNeverSkips
<1>7. OrderInv' BY DEF OrderInv
<1>8. ConfirmInv'
  <2>1. ASSUME rbreaks' = 0, rproc' # "crashed" PROVE received' = Expected
    <3>1. rConn = "closing" BY <1>1, <2>1, Constants
    <3> QED BY <1>0, <2>1, <3>1 DEF ConnInv
  <2> QED BY <2>1 DEF ConfirmInv
<1> QED BY <1>1, <1>2, <1>3, <1>4, <1>5, <1>6, <1>7, <1>8 DEF IInv

LEMMA RDivideByZeroIInv ==
    ASSUME IInv, RDivideByZero, UNCHANGED <<sendVars, sbreaks, rbreaks>>
    PROVE  IInv'
<1>0. received \in Nat /\ rbreaks \in 0..RecvBreaks BY Types DEF IInv, TypeOK
<1>1. received' \in Nat /\ rbreaks' \in 0..RecvBreaks BY <1>0 DEF RDivideByZero
<1>2. /\ rproc = "run" /\ rConn \in {"open", "closing"} /\ rConn' = "gone"
      /\ rproc' = "crashed"
      /\ UNCHANGED <<rfreq, rfile, rrows, rseen, doneFile, queue, settles>>
      /\ UNCHANGED <<sConn, sproc, sfreq, sfile, srows, try, sent, confirmed, waited, sbreaks>>
      /\ dismissed' = dismissed
  BY DEF RDivideByZero, sendVars, sopts, ropts
<1> QED BY <1>1, <1>2, ReceiverEnds

LEMMA RClosedIInv ==
    ASSUME IInv, RClosed, UNCHANGED <<sendVars, sbreaks, rbreaks>>
    PROVE  IInv'
<1>1. received' \in Nat /\ rbreaks' \in 0..RecvBreaks
  BY Types DEF IInv, RClosed, TypeOK
<1>2. ExitCode \in {"ok", "failed", "crashed"} /\ ExitCode # "crashed" BY DEF ExitCode
<1> QED BY <1>1, <1>2, ReceiverEnds DEF RClosed, sendVars, sopts, ropts

LEMMA RTransportErrorIInv ==
    ASSUME IInv, RTransportError, rbreaks < RecvBreaks, rbreaks' = rbreaks + 1,
           UNCHANGED <<sendVars, sbreaks>>
    PROVE  IInv'
<1>1. received' \in Nat /\ rbreaks' \in 0..RecvBreaks /\ rbreaks' > 0
  BY Types, Constants DEF IInv, RTransportError, TypeOK
<1>2. ExitCode \in {"ok", "failed", "crashed"} /\ ExitCode # "crashed" BY DEF ExitCode
<1> QED BY <1>1, <1>2, ReceiverEnds DEF RTransportError, sendVars, sopts, ropts

LEMMA StutterIInv ==
    ASSUME IInv, UNCHANGED vars
    PROVE  IInv'
<1>0. TypeOK /\ ConnInv /\ QueueInv /\ CountInv /\ RowsInv
      /\ RetryNeverSkips /\ OrderInv /\ ConfirmInv
  BY DEF IInv
<1>1. /\ UNCHANGED <<queue, settles, sConn, rConn, dismissed, sbreaks, rbreaks>>
      /\ UNCHANGED <<sproc, sfreq, sfile, srows, try, sent, confirmed, waited>>
      /\ UNCHANGED <<rproc, rfreq, rfile, rrows, received, rseen, doneFile>>
  BY DEF vars, routerVars, sendVars, recvVars, sopts, ropts
<1>2. TypeOK' BY <1>0, <1>1 DEF TypeOK, SendTypeOK, RecvTypeOK
<1>3. ConnInv' BY <1>0, <1>1 DEF ConnInv, Counts
<1>4. QueueInv'
  <2>1. PICK c \in 0..Len(queue) : Cut(c) BY <1>0 DEF QueueInv
  <2>2. Cut(c)' BY <1>1, <2>1 DEF Cut
  <2> QED BY <1>1, <2>2 DEF QueueInv
<1>5. CountInv' BY <1>0, <1>1 DEF CountInv, Forever
<1>6. RowsInv' BY <1>0, <1>1 DEF RowsInv
<1>7. RetryNeverSkips' BY <1>0, <1>1 DEF RetryNeverSkips
<1>8. OrderInv' BY <1>0, <1>1 DEF OrderInv
<1>9. ConfirmInv' BY <1>0, <1>1 DEF ConfirmInv
<1> QED BY <1>2, <1>3, <1>4, <1>5, <1>6, <1>7, <1>8, <1>9 DEF IInv
-----------------------------------------------------------------------------
(* The theorems. *)

LEMMA NextIInv ==
    ASSUME IInv, [Next]_vars
    PROVE  IInv'
<1>1. CASE Sending
  BY <1>1, SStartIInv, STickIInv, SDivideByZeroIInv, SSettledIInv, SConnectionCloseIInv
  DEF Sending, SendStep
<1>2. CASE Receiving
  BY <1>2, RStartIInv, RMessageIInv, RDivideByZeroIInv, RClosedIInv DEF Receiving, RecvStep
<1>3. CASE Releasing BY <1>3, ReleaseIInv DEF Releasing
<1>4. CASE SendBreak BY <1>4, STransportErrorIInv DEF SendBreak
<1>5. CASE RecvBreak BY <1>5, RTransportErrorIInv DEF RecvBreak
<1>6. CASE Finished \/ UNCHANGED vars BY <1>6, StutterIInv DEF Finished
<1>7. CASE Dismissing BY <1>7, DismissIInv DEF Dismissing
<1> QED BY <1>1, <1>2, <1>3, <1>4, <1>5, <1>6, <1>7 DEF Next

\* The inductive invariant holds: the queue is what earlier attempts left, then
\* this attempt's messages; the counts agree with it and with the reports.
THEOREM Invariance == Spec => []IInv
<1>1. Init => IInv BY InitIInv
<1>2. IInv /\ [Next]_vars => IInv' BY NextIInv
<1> QED BY <1>1, <1>2, PTL DEF Spec

\* While the sender is connected at both ends, what it sent in this attempt is what it
\* confirmed, what is being settled and what is in the queue.
THEOREM AttemptsAccounted == Spec => []AttemptAccounted
<1>1. ASSUME IInv PROVE AttemptAccounted
  <2>0. TypeOK /\ QueueInv BY <1>1 DEF IInv
  <2>t. /\ Len(queue) \in Nat /\ sent \in Nat /\ confirmed \in Nat /\ settles \in Nat
        /\ try \in Nat /\ \A i \in 1..Len(queue) : queue[i].try \in Nat
    BY <2>0, Types
  <2>1. PICK c \in 0..Len(queue) : Cut(c) BY <2>0 DEF QueueInv
  <2>2. \A i \in 1..Len(queue) : queue[i].try = try <=> i > c
    BY <2>1, <2>t DEF Cut
  <2>3. sConn = "open" /\ ~dismissed => sent = confirmed + settles + (Len(queue) - c)
    BY <2>1, <2>t DEF Cut
  <2> QED BY <2>2, <2>3 DEF AttemptAccounted
<1> QED BY <1>1, Invariance, PTL

\* simple_send exits with 0 only when it has sent all it was asked for, unless the
\* router closed its connection unasked.
THEOREM AllSent == ASSUME ~Forever PROVE Spec => []OkMeansAllSent
<1>1. ASSUME IInv PROVE OkMeansAllSent
  <2>1. TypeOK /\ CountInv BY <1>1 DEF IInv
  <2>2. sent \in Nat BY <2>1, Types
  <2> QED BY <2>1, <2>2, Constants DEF CountInv, OkMeansAllSent
<1> QED BY <1>1, Invariance, PTL

\* An attempt that starts over leaves no message out of what the receiver sees.
THEOREM NeverSkips == Spec => []RetryNeverSkips
<1>1. IInv => RetryNeverSkips BY DEF IInv
<1> QED BY <1>1, Invariance, PTL

\* The sender confirms no more than a receiver of all messages counted, unless
\* that receiver crashes or loses its connection.
THEOREM Confirmed == Spec => []ConfirmedMeansReceived
<1>1. ASSUME IInv PROVE ConfirmedMeansReceived
  <2>0. TypeOK /\ ConnInv /\ CountInv /\ ConfirmInv BY <1>1 DEF IInv
  <2>t. /\ sent \in Nat /\ confirmed \in Nat /\ settles \in Nat /\ received \in Nat
    BY <2>0, Types
  <2> SUFFICES ASSUME rbreaks = 0, rproc # "crashed", Expected = Requested
               PROVE  confirmed <= received
    BY DEF ConfirmedMeansReceived
  <2>1. CASE rConn \in {"none", "open"} BY <2>0, <2>t, <2>1 DEF ConfirmInv
  <2>2. CASE rConn \notin {"none", "open"}
    <3>1. received = Requested BY <2>0, <2>2 DEF ConfirmInv
    <3>2. ~Forever BY <2>t, <3>1 DEF Forever
    <3> QED BY <2>0, <2>t, <3>1, <3>2, Constants DEF CountInv
  <2> QED BY <2>1, <2>2
<1> QED BY <1>1, Invariance, PTL
=============================================================================
