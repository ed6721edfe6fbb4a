--------------------------- MODULE RouterTests_proofs ---------------------------
(***************************************************************************)
(* Proofs about RouterTests, for any list of tests, any numbers of pairs   *)
(* and any times.  Everything follows from the invariant IInv there.       *)
(***************************************************************************)
EXTENDS RouterTests, FiniteSetTheorems, SequenceTheorems, TLAPS

(* The scripts *)

\* What a test of the plan is.
LEMMA PlanType ==
    /\ Len(Plan) \in Nat /\ DOMAIN Plan = 1..Len(Plan)
    /\ \A i \in 1..Len(Plan) :
          /\ Plan[i].test \in DOMAIN Scripts /\ Plan[i].pairs \in Nat \ {0}
          /\ Plan[i].test = "router_1" => Plan[i].pairs = 1
          /\ 1..Plan[i].pairs \subseteq Pairs /\ Plan[i].pairs \in 1..Plan[i].pairs
    /\ Pairs \subseteq Nat
<1>1. Len(Plan) \in Nat /\ DOMAIN Plan = 1..Len(Plan)
  BY PlanAssumption, LenProperties
<1>2. \A i \in 1..Len(Plan) : Plan[i] \in [test : DOMAIN Scripts, pairs : Nat \ {0}]
  BY PlanAssumption, ElementOfSeq
<1>3. \A i \in 1..Len(Plan) : Plan[i].test \in DOMAIN Scripts /\ Plan[i].pairs \in Nat \ {0}
  BY <1>2
<1>4. \A i \in 1..Len(Plan) : 1..Plan[i].pairs \subseteq Pairs
  BY <1>1 DEF Pairs
<1>5. \A i \in 1..Len(Plan) : Plan[i].pairs \in 1..Plan[i].pairs
  BY <1>3
<1>6. Pairs \subseteq Nat
  BY <1>1, <1>3 DEF Pairs
<1> QED BY <1>1, <1>3, <1>4, <1>5, <1>6, PlanAssumption

Running == k \in 1..Len(Plan) /\ at \in 1..Len(Scripts[Test])

\* What comes before each step of each script.
LEMMA OrderRouter1 ==
    ASSUME Running, Test = "router_1"
    PROVE  /\ pc \in {"router", "receivers", "senders", "wait", "check", "stop"}
           /\ pc = "router"      => Past = {}
           /\ pc = "receivers"   => Past = {"router"}
           /\ pc = "senders"     => Past = {"router", "receivers"}
           /\ pc = "wait"        => Past = {"router", "receivers", "senders"}
           /\ pc = "check"       => Past = {"router", "receivers", "senders", "wait"}
           /\ pc = "stop"        => Past = {"router", "receivers", "senders", "wait",
                                            "check"}
           /\ at = Len(Scripts[Test]) <=> pc = "stop"
<1>1. Scripts[Test] = <<"router", "receivers", "senders", "wait", "check", "stop">>
  BY DEF Scripts
<1>2. at \in 1..6 /\ Len(Scripts[Test]) = 6
  BY <1>1 DEF Running
<1>3. pc = Scripts[Test][at] /\ Past = {Scripts[Test][i] : i \in 1..(at - 1)}
  BY PlanType DEF Running, pc, Past, Test
<1>4. at = 1 => pc = "router" /\ 1..(at - 1) = {}
  BY <1>1, <1>3
<1>5. at = 2 => pc = "receivers" /\ 1..(at - 1) = {1}
  BY <1>1, <1>3
<1>6. at = 3 => pc = "senders" /\ 1..(at - 1) = {1, 2}
  BY <1>1, <1>3
<1>7. at = 4 => pc = "wait" /\ 1..(at - 1) = {1, 2, 3}
  BY <1>1, <1>3
<1>8. at = 5 => pc = "check" /\ 1..(at - 1) = {1, 2, 3, 4}
  BY <1>1, <1>3
<1>9. at = 6 => pc = "stop" /\ 1..(at - 1) = {1, 2, 3, 4, 5}
  BY <1>1, <1>3
<1> QED BY <1>1, <1>2, <1>3, <1>4, <1>5, <1>6, <1>7, <1>8, <1>9

LEMMA OrderSoak ==
    ASSUME Running, Test = "router_soak"
    PROVE  /\ pc \in {"router", "rr", "receivers", "clear", "senders", "wait", "check",
                      "stop"}
           /\ pc = "router"      => Past = {}
           /\ pc = "rr"          => Past = {"router"}
           /\ pc = "receivers"   => Past = {"router", "rr"}
           /\ pc = "clear"       => Past = {"router", "rr", "receivers"}
           /\ pc = "senders"     => Past = {"router", "rr", "receivers", "clear"}
           /\ pc = "wait"        => Past = {"router", "rr", "receivers", "clear",
                                            "senders"}
           /\ pc = "check"       => Past = {"router", "rr", "receivers", "clear",
                                            "senders", "wait"}
           /\ pc = "stop"        => Past = {"router", "rr", "receivers", "clear",
                                            "senders", "wait", "check"}
           /\ at = Len(Scripts[Test]) <=> pc = "stop"
<1>1. Scripts[Test] = <<"router", "rr", "receivers", "clear", "senders", "wait",
                        "check", "stop">>
  BY DEF Scripts
<1>2. at \in 1..8 /\ Len(Scripts[Test]) = 8
  BY <1>1 DEF Running
<1>3. pc = Scripts[Test][at] /\ Past = {Scripts[Test][i] : i \in 1..(at - 1)}
  BY PlanType DEF Running, pc, Past, Test
<1>4. at = 1 => pc = "router" /\ 1..(at - 1) = {}
  BY <1>1, <1>3
<1>5. at = 2 => pc = "rr" /\ 1..(at - 1) = {1}
  BY <1>1, <1>3
<1>6. at = 3 => pc = "receivers" /\ 1..(at - 1) = {1, 2}
  BY <1>1, <1>3
<1>7. at = 4 => pc = "clear" /\ 1..(at - 1) = {1, 2, 3}
  BY <1>1, <1>3
<1>8. at = 5 => pc = "senders" /\ 1..(at - 1) = {1, 2, 3, 4}
  BY <1>1, <1>3
<1>9. at = 6 => pc = "wait" /\ 1..(at - 1) = {1, 2, 3, 4, 5}
  BY <1>1, <1>3
<1>10. at = 7 => pc = "check" /\ 1..(at - 1) = {1, 2, 3, 4, 5, 6}
  BY <1>1, <1>3
<1>11. at = 8 => pc = "stop" /\ 1..(at - 1) = {1, 2, 3, 4, 5, 6, 7}
  BY <1>1, <1>3
<1> QED BY <1>1, <1>2, <1>3, <1>4, <1>5, <1>6, <1>7, <1>8, <1>9, <1>10, <1>11

LEMMA OrderHeader ==
    ASSUME Running, Test = "header"
    PROVE  /\ pc \in {"header"}
           /\ pc = "header"      => Past = {}
           /\ at = Len(Scripts[Test]) <=> pc = "header"
<1>1. Scripts[Test] = <<"header">>
  BY DEF Scripts
<1>2. at \in 1..1 /\ Len(Scripts[Test]) = 1
  BY <1>1 DEF Running
<1>3. pc = Scripts[Test][at] /\ Past = {Scripts[Test][i] : i \in 1..(at - 1)}
  BY PlanType DEF Running, pc, Past, Test
<1>4. at = 1 => pc = "header" /\ 1..(at - 1) = {}
  BY <1>1, <1>3
<1> QED BY <1>1, <1>2, <1>3, <1>4

LEMMA OrderScale ==
    ASSUME Running, Test = "router_scale"
    PROVE  /\ pc \in {"router", "rr", "receivers", "clear", "senders", "reapers",
                      "wait", "check", "disarm", "row", "stop"}
           /\ pc = "router"      => Past = {}
           /\ pc = "rr"          => Past = {"router"}
           /\ pc = "receivers"   => Past = {"router", "rr"}
           /\ pc = "clear"       => Past = {"router", "rr", "receivers"}
           /\ pc = "senders"     => Past = {"router", "rr", "receivers", "clear"}
           /\ pc = "reapers"     => Past = {"router", "rr", "receivers", "clear",
                                            "senders"}
           /\ pc = "wait"        => Past = {"router", "rr", "receivers", "clear",
                                            "senders", "reapers"}
           /\ pc = "check"       => Past = {"router", "rr", "receivers", "clear",
                                            "senders", "reapers", "wait"}
           /\ pc = "disarm"      => Past = {"router", "rr", "receivers", "clear",
                                            "senders", "reapers", "wait", "check"}
           /\ pc = "row"         => Past = {"router", "rr", "receivers", "clear",
                                            "senders", "reapers", "wait", "check",
                                            "disarm"}
           /\ pc = "stop"        => Past = {"router", "rr", "receivers", "clear",
                                            "senders", "reapers", "wait", "check",
                                            "disarm", "row"}
           /\ at = Len(Scripts[Test]) <=> pc = "stop"
<1>1. Scripts[Test] = <<"router", "rr", "receivers", "clear", "senders", "reapers",
                        "wait", "check", "disarm", "row", "stop">>
  BY DEF Scripts
<1>2. at \in 1..11 /\ Len(Scripts[Test]) = 11
  BY <1>1 DEF Running
<1>3. pc = Scripts[Test][at] /\ Past = {Scripts[Test][i] : i \in 1..(at - 1)}
  BY PlanType DEF Running, pc, Past, Test
<1>4. at = 1 => pc = "router" /\ 1..(at - 1) = {}
  BY <1>1, <1>3
<1>5. at = 2 => pc = "rr" /\ 1..(at - 1) = {1}
  BY <1>1, <1>3
<1>6. at = 3 => pc = "receivers" /\ 1..(at - 1) = {1, 2}
  BY <1>1, <1>3
<1>7. at = 4 => pc = "clear" /\ 1..(at - 1) = {1, 2, 3}
  BY <1>1, <1>3
<1>8. at = 5 => pc = "senders" /\ 1..(at - 1) = {1, 2, 3, 4}
  BY <1>1, <1>3
<1>9. at = 6 => pc = "reapers" /\ 1..(at - 1) = {1, 2, 3, 4, 5}
  BY <1>1, <1>3
<1>10. at = 7 => pc = "wait" /\ 1..(at - 1) = {1, 2, 3, 4, 5, 6}
  BY <1>1, <1>3
<1>11. at = 8 => pc = "check" /\ 1..(at - 1) = {1, 2, 3, 4, 5, 6, 7}
  BY <1>1, <1>3
<1>12. at = 9 => pc = "disarm" /\ 1..(at - 1) = {1, 2, 3, 4, 5, 6, 7, 8}
  BY <1>1, <1>3
<1>13. at = 10 => pc = "row" /\ 1..(at - 1) = {1, 2, 3, 4, 5, 6, 7, 8, 9}
  BY <1>1, <1>3
<1>14. at = 11 => pc = "stop" /\ 1..(at - 1) = {1, 2, 3, 4, 5, 6, 7, 8, 9, 10}
  BY <1>1, <1>3
<1> QED BY <1>1, <1>2, <1>3, <1>4, <1>5, <1>6, <1>7, <1>8, <1>9, <1>10, <1>11, <1>12, <1>13, <1>14

LEMMA OrderScale2 ==
    ASSUME Running, Test = "router_scale_2"
    PROVE  /\ pc \in {"clear", "router", "rr", "signal", "receivers", "senders",
                      "touch", "stop", "row"}
           /\ pc = "clear"       => Past = {}
           /\ pc = "router"      => Past = {"clear"}
           /\ pc = "rr"          => Past = {"clear", "router"}
           /\ pc = "signal"      => Past = {"clear", "router", "rr"}
           /\ pc = "receivers"   => Past = {"clear", "router", "rr", "signal"}
           /\ pc = "senders"     => Past = {"clear", "router", "rr", "signal",
                                            "receivers"}
           /\ pc = "touch"       => Past = {"clear", "router", "rr", "signal",
                                            "receivers", "senders"}
           /\ pc = "stop"        => Past = {"clear", "router", "rr", "signal",
                                            "receivers", "senders", "touch"}
           /\ pc = "row"         => Past = {"clear", "router", "rr", "signal",
                                            "receivers", "senders", "touch", "stop"}
           /\ at = Len(Scripts[Test]) <=> pc = "row"
<1>1. Scripts[Test] = <<"clear", "router", "rr", "signal", "receivers", "senders",
                        "touch", "stop", "row">>
  BY DEF Scripts
<1>2. at \in 1..9 /\ Len(Scripts[Test]) = 9
  BY <1>1 DEF Running
<1>3. pc = Scripts[Test][at] /\ Past = {Scripts[Test][i] : i \in 1..(at - 1)}
  BY PlanType DEF Running, pc, Past, Test
<1>4. at = 1 => pc = "clear" /\ 1..(at - 1) = {}
  BY <1>1, <1>3
<1>5. at = 2 => pc = "router" /\ 1..(at - 1) = {1}
  BY <1>1, <1>3
<1>6. at = 3 => pc = "rr" /\ 1..(at - 1) = {1, 2}
  BY <1>1, <1>3
<1>7. at = 4 => pc = "signal" /\ 1..(at - 1) = {1, 2, 3}
  BY <1>1, <1>3
<1>8. at = 5 => pc = "receivers" /\ 1..(at - 1) = {1, 2, 3, 4}
  BY <1>1, <1>3
<1>9. at = 6 => pc = "senders" /\ 1..(at - 1) = {1, 2, 3, 4, 5}
  BY <1>1, <1>3
<1>10. at = 7 => pc = "touch" /\ 1..(at - 1) = {1, 2, 3, 4, 5, 6}
  BY <1>1, <1>3
<1>11. at = 8 => pc = "stop" /\ 1..(at - 1) = {1, 2, 3, 4, 5, 6, 7}
  BY <1>1, <1>3
<1>12. at = 9 => pc = "row" /\ 1..(at - 1) = {1, 2, 3, 4, 5, 6, 7, 8}
  BY <1>1, <1>3
<1> QED BY <1>1, <1>2, <1>3, <1>4, <1>5, <1>6, <1>7, <1>8, <1>9, <1>10, <1>11, <1>12

\* The same, as far as the invariant needs it.
LEMMA Order ==
    ASSUME Running
    PROVE  /\ pc = "header" => Past = {}
           /\ pc = "router" => Past \subseteq {"clear"}
           /\ pc = "rr" =>
                 /\ Past \subseteq {"clear", "router"}
                 /\ Test \in {"router_soak", "router_scale", "router_scale_2"}
           /\ pc = "signal" => Past = {"clear", "router", "rr"}
           /\ pc = "receivers" => Past \subseteq {"clear", "router", "rr", "signal"}
           /\ pc = "clear" => Past \subseteq {"router", "rr", "receivers"}
           /\ pc = "senders" =>
                 /\ "receivers" \in Past
                 /\ Past \subseteq {"router", "rr", "signal", "receivers", "clear"}
                 /\ "signal" \in Past => Test = "router_scale_2"
           /\ pc = "touch" =>
                 Past = {"clear", "router", "rr", "signal", "receivers", "senders"}
           /\ pc = "reapers" => Past = {"router", "rr", "receivers", "clear", "senders"}
           /\ pc = "wait" =>
                 /\ {"receivers", "senders"} \subseteq Past
                 /\ "clear" \in Past \/ Test = "router_1"
                 /\ {"signal", "touch", "wait", "check", "disarm", "stop"} \cap Past = {}
           /\ pc = "check" => "wait" \in Past /\ {"check", "disarm", "stop"} \cap Past = {}
           /\ pc = "disarm" => "wait" \in Past /\ {"disarm", "stop"} \cap Past = {}
           /\ pc = "row" =>
                 /\ "stop" \notin Past => "wait" \in Past
                 /\ "stop" \in Past => "reapers" \notin Past
                 /\ Test \in {"router_scale", "router_scale_2"}
           /\ pc = "stop" => "stop" \notin Past /\ ("reapers" \in Past => "disarm" \in Past)
           /\ at = Len(Scripts[Test]) =>
                 pc = "header" \/ pc = "stop" \/ (pc = "row" /\ "stop" \in Past)
           /\ pc = "stop" /\ at # Len(Scripts[Test]) => Test = "router_scale_2"
           /\ "stop" \in Past => "reapers" \notin Past
<1>1. Test \in {"router_1", "router_soak", "header", "router_scale", "router_scale_2"}
  BY PlanType DEF Running, Test, Scripts
<1>2. CASE Test = "router_1"
  BY <1>2, OrderRouter1
<1>3. CASE Test = "router_soak"
  BY <1>3, OrderSoak
<1>4. CASE Test = "header"
  BY <1>4, OrderHeader
<1>5. CASE Test = "router_scale"
  BY <1>5, OrderScale
<1>6. CASE Test = "router_scale_2"
  BY <1>6, OrderScale2
<1> QED BY <1>1, <1>2, <1>3, <1>4, <1>5, <1>6

\* Every script has a step.
LEMMA ScriptLengths ==
    \A i \in 1..Len(Plan) : Len(Scripts[Plan[i].test]) \in Nat \ {0}
<1>1. ASSUME NEW t \in DOMAIN Scripts PROVE Len(Scripts[t]) \in Nat \ {0}
  <2>1. t \in {"router_1", "router_soak", "header", "router_scale", "router_scale_2"}
    BY DEF Scripts
  <2>2. /\ t = "router_1" => Len(Scripts[t]) = 6
        /\ t = "router_soak" => Len(Scripts[t]) = 8
        /\ t = "header" => Len(Scripts[t]) = 1
        /\ t = "router_scale" => Len(Scripts[t]) = 11
        /\ t = "router_scale_2" => Len(Scripts[t]) = 9
    BY DEF Scripts
  <2>3. {1, 6, 8, 9, 11} \subseteq Nat \ {0}
    OBVIOUS
  <2>4. Len(Scripts[t]) \in {1, 6, 8, 9, 11}
    BY <2>1, <2>2
  <2> QED BY <2>3, <2>4
<1> QED BY <1>1, PlanType

\* Going on adds one step to the past, or begins the next test.
LEMMA Proceeding ==
    ASSUME Running, Proceed
    PROVE  /\ PlaceInv' /\ k' \in 1..(Len(Plan) + 1)
           /\ \/ at < Len(Scripts[Test]) /\ k' = k /\ Past' = Past \union {pc}
              \/ at = Len(Scripts[Test]) /\ k' = k + 1 /\ Past' = {}
<1>1. \A i \in 1..Len(Plan) : Len(Scripts[Plan[i].test]) \in Nat \ {0}
  BY ScriptLengths
<1>2. k \in 1..Len(Plan) /\ at \in 1..Len(Scripts[Test]) /\ Len(Scripts[Test]) \in Nat
  BY <1>1 DEF Running, Test
<1>3. CASE at < Len(Scripts[Test])
  <2>1. k' = k /\ at' = at + 1 /\ k <= Len(Plan) /\ Test' = Test
    BY <1>2, <1>3, PlanType DEF Proceed, Test
  <2>2. 1..(at' - 1) = (1..(at - 1)) \union {at}
    BY <1>2, <2>1
  <2>3. Past' = Past \union {pc}
    <3>1. pc = Scripts[Test][at] /\ Past = {Scripts[Test][i] : i \in 1..(at - 1)}
      BY <1>2, PlanType DEF pc, Past, Test
    <3>2. Past' = {Scripts[Test][i] : i \in 1..(at' - 1)}
      BY <2>1 DEF Past
    <3> QED BY <2>2, <3>1, <3>2
  <2>4. PlaceInv' /\ k' \in 1..(Len(Plan) + 1)
    BY <1>2, <1>3, <2>1, PlanType DEF PlaceInv, Test
  <2> QED BY <1>3, <2>1, <2>3, <2>4
<1>4. CASE ~(at < Len(Scripts[Test]))
  <2>1. k' = k + 1 /\ at' = 1 /\ at = Len(Scripts[Test])
    BY <1>2, <1>4 DEF Proceed
  <2>2. 1..(at' - 1) = {}
    BY <2>1
  <2>3. Past' = {}
    BY <2>1, <2>2 DEF Past, Test
  <2>4. k' \in 1..(Len(Plan) + 1)
    BY <1>2, <2>1, PlanType
  <2>5. PlaceInv'
    <3>1. k' <= Len(Plan) => 1 \in 1..Len(Scripts[Plan[k'].test])
      BY <1>1, <2>4, PlanType
    <3> QED BY <2>1, <3>1 DEF PlaceInv, Test
  <2> QED BY <2>1, <2>3, <2>4, <2>5
<1> QED BY <1>3, <1>4
-----------------------------------------------------------------------------
(* The steps *)

ProgramStep ==
    \/ RRStep \/ RouterWorks \/ RouterCrash
    \/ \E p \in Pairs : Go(p) \/ ReceiverDone(p)
    \/ \E t \in Targets : Reap(t)

\* A script is only run while there are tests.
LEMMA ScriptRuns ==
    ASSUME TypeOK, PlaceInv, Script
    PROVE  Running /\ k \in 1..Len(Plan) /\ (Proceed \/ UNCHANGED script)
<1>1. pc # "done"
  BY DEF Script, WriteHeader, StartRouter, StartRR, StartReceivers, ClearDone, ClearSignal,
         StartSender, TouchStart, StartReapers, Poll, Check, Disarm, WriteRow, Stop
<1>2. k \in 1..Len(Plan)
  BY <1>1, PlanType DEF TypeOK, pc
<1>3. Running
  BY <1>2, PlanType DEF PlaceInv, Running
<1>4. Proceed \/ UNCHANGED script
  BY DEF Script, WriteHeader, StartRouter, StartRR, StartReceivers, ClearDone, ClearSignal,
         StartSender, TouchStart, StartReapers, Poll, Check, Disarm, WriteRow, Stop
<1> QED BY <1>2, <1>3, <1>4

\* Which step of a script changes what.
LEMMA ScriptChanges ==
    ASSUME Script
    PROVE  /\ UNCHANGED <<client, crashes>>
           /\ pc \notin {"senders", "wait"} => Proceed
           /\ pc \notin {"senders", "stop"} => senders' = senders
           /\ pc = "senders" => StartSender
           /\ pc \notin {"receivers", "stop"} => recv' = recv
           /\ pc # "receivers" => names' = names
           /\ pc = "receivers" => StartReceivers
           /\ pc \notin {"clear", "check", "stop"} => doneFiles' = doneFiles
           /\ pc \in {"clear", "check", "stop"} => doneFiles' \in {doneFiles, {}}
           /\ pc = "clear" => doneFiles' = {}
           /\ pc \notin {"signal", "touch"} => start' = start
           /\ pc = "signal" => start' = FALSE
           /\ pc = "touch" => start' = TRUE
           /\ pc \notin {"reapers", "disarm"} => reapers' = reapers
           /\ pc = "reapers" => reapers' = [t \in Targets |-> k]
           /\ pc = "disarm" => reapers' = [t \in Targets |-> 0]
           /\ pc \notin {"senders", "wait"} => UNCHANGED <<clock, waits>>
           /\ pc # "wait" => found' = found
           /\ pc = "wait" => Poll
           /\ pc \notin {"check", "stop"} => verdict' = verdict
           /\ pc = "check" => verdict' = IF found THEN "found" ELSE "missing"
           /\ pc = "stop" => Stop
           /\ pc \notin {"router", "stop"} => router' = router
           /\ pc = "router" => router' = TRUE /\ NewProcess
           /\ pc = "rr" => StartRR
           /\ pc \notin {"router", "rr", "stop"} => UNCHANGED rrVars
           /\ pc # "rr" => pos' = pos
           /\ pc \notin {"header", "rr", "row"} => reports' = reports
           /\ pc = "header" => WriteHeader
           /\ pc = "row" => WriteRow
<1> USE DEF clients, signs, waiting, written
<1>1. CASE WriteHeader
  BY <1>1 DEF WriteHeader
<1>2. CASE StartRouter
  BY <1>2 DEF StartRouter
<1>3. CASE StartRR
  BY <1>3 DEF StartRR
<1>4. CASE StartReceivers
  BY <1>4 DEF StartReceivers
<1>5. CASE ClearDone
  BY <1>5 DEF ClearDone, Cleared
<1>6. CASE ClearSignal
  BY <1>6 DEF ClearSignal, Signal
<1>7. CASE StartSender
  BY <1>7 DEF StartSender
<1>8. CASE TouchStart
  BY <1>8 DEF TouchStart
<1>9. CASE StartReapers
  BY <1>9 DEF StartReapers
<1>10. CASE Poll
  BY <1>10 DEF Poll
<1>11. CASE Check
  BY <1>11 DEF Check
<1>12. CASE Disarm
  BY <1>12 DEF Disarm, Disarmed
<1>13. CASE WriteRow
  BY <1>13 DEF WriteRow
<1>14. CASE Stop
  BY <1>14 DEF Stop
<1> QED BY <1>1, <1>2, <1>3, <1>4, <1>5, <1>6, <1>7, <1>8, <1>9, <1>10, <1>11, <1>12,
           <1>13, <1>14 DEF Script

\* What the other programs may change: a pair goes on or dies, and a file appears.
ProgramEffect ==
    /\ UNCHANGED <<client, k, at, names, start, clock, waits, found, verdict>>
    /\ senders' \in [Pairs -> {"off", "failed", "waiting", "sending"}]
    /\ \A p \in Pairs :
          \/ senders'[p] = senders[p]
          \/ senders[p] = "waiting" /\ start /\ senders'[p] = "sending"
          \/ senders[p] # "off" /\ senders'[p] = "failed"
    /\ recv' \in [Pairs -> {"off", "running", "done", "killed"}]
    /\ \A p \in Pairs :
          \/ recv'[p] = recv[p]
          \/ recv[p] = "running" /\ recv'[p] \in {"done", "killed"}
    /\ \/ doneFiles' = doneFiles
       \/ \E p \in Pairs : /\ recv[p] = "running" /\ senders[p] = "sending"
                           /\ recv'[p] = "done"
                           /\ doneFiles' = doneFiles \union {names[p]}
    /\ reapers' \in [Targets -> 0..Len(Plan)]
    /\ \A t \in Targets : reapers'[t] \in {0, reapers[t]}
    /\ rr' # "off" => rr # "off"

LEMMA ProgramChanges == TypeOK /\ ProgramStep => ProgramEffect
<1> SUFFICES ASSUME TypeOK, ProgramStep PROVE ProgramEffect
  OBVIOUS
<1> USE DEF clients, signs, waiting, written, script
<1>0. /\ senders \in [Pairs -> {"off", "failed", "waiting", "sending"}]
      /\ recv \in [Pairs -> {"off", "running", "done", "killed"}]
      /\ reapers \in [Targets -> 0..Len(Plan)] /\ 0 \in 0..Len(Plan)
  BY PlanType DEF TypeOK
<1>1. ASSUME RRStep \/ RouterWorks \/ RouterCrash
      PROVE  /\ UNCHANGED <<client, script, clients, signs, waiting, verdict>>
             /\ rr' # "off" => rr # "off"
  BY <1>1 DEF RRStep, RouterWorks, RouterCrash, rrVars
<1>2. ASSUME NEW p \in Pairs, Go(p)
      PROVE  /\ UNCHANGED <<client, script, recv, names, signs, waiting, verdict, rr>>
             /\ senders[p] = "waiting" /\ start
             /\ senders' = [senders EXCEPT ![p] = "sending"]
  BY <1>2 DEF Go, rrVars
<1>3. ASSUME NEW p \in Pairs, ReceiverDone(p)
      PROVE  /\ UNCHANGED <<client, script, senders, names, start, waiting, verdict, rr>>
             /\ recv[p] = "running" /\ senders[p] = "sending"
             /\ recv' = [recv EXCEPT ![p] = "done"]
             /\ doneFiles' = doneFiles \union {names[p]}
  BY <1>3 DEF ReceiverDone, rrVars
<1>4. ASSUME NEW t \in Targets, Reap(t)
      PROVE  /\ UNCHANGED <<client, script, names, signs, clock, waits, found, verdict, rr>>
             /\ reapers' = [reapers EXCEPT ![t] = 0]
             /\ senders' = [p \in Pairs |-> IF t = "simple_send" /\ senders[p] # "off"
                                            THEN "failed" ELSE senders[p]]
             /\ recv' = [p \in Pairs |-> IF t = "simple_recv" /\ recv[p] = "running"
                                         THEN "killed" ELSE recv[p]]
  BY <1>4 DEF Reap, rrVars
<1>5. CASE RRStep \/ RouterWorks \/ RouterCrash
  BY <1>0, <1>1, <1>5 DEF ProgramEffect
<1>6. ASSUME NEW p \in Pairs, Go(p) PROVE ProgramEffect
  BY <1>0, <1>2, <1>6 DEF ProgramEffect
<1>7. ASSUME NEW p \in Pairs, ReceiverDone(p) PROVE ProgramEffect
  BY <1>0, <1>3, <1>7 DEF ProgramEffect
<1>8. ASSUME NEW t \in Targets, Reap(t) PROVE ProgramEffect
  BY <1>0, <1>4, <1>8 DEF ProgramEffect
<1> QED BY <1>5, <1>6, <1>7, <1>8 DEF ProgramStep

\* A step of a script leaves the place, goes on in the same test, or ends it.
Stays == /\ k' = k /\ Past' = Past /\ Test' = Test /\ Mine' = Mine
         /\ pc' = pc /\ pc \in {"senders", "wait"}
GoesOn == /\ k' = k /\ Past' = Past \union {pc} /\ Test' = Test /\ Mine' = Mine
          /\ pc = "stop" => Test = "router_scale_2"
Ends == /\ k' = k + 1 /\ Past' = {}
        /\ pc = "header" \/ pc = "stop" \/ (pc = "row" /\ "stop" \in Past)

LEMMA ScriptMoves ==
    ASSUME TypeOK, PlaceInv, Script
    PROVE  Running /\ PlaceInv' /\ k' \in 1..(Len(Plan) + 1) /\ (Stays \/ GoesOn \/ Ends)
<1>1. Running /\ k \in 1..Len(Plan)
  BY ScriptRuns
<1>2. CASE Proceed
  <2>1. CASE at < Len(Scripts[Test]) /\ k' = k /\ Past' = Past \union {pc}
    <3>1. at # Len(Scripts[Test])
      BY <1>1, <2>1 DEF Running
    <3> QED BY <1>1, <1>2, <2>1, <3>1, Proceeding, Order DEF GoesOn, Test, Mine
  <2>2. CASE at = Len(Scripts[Test]) /\ k' = k + 1 /\ Past' = {}
    BY <1>1, <1>2, <2>2, Proceeding, Order DEF Ends
  <2> QED BY <1>1, <1>2, <2>1, <2>2, Proceeding
<1>3. CASE ~Proceed
  <2>1. k' = k /\ at' = at /\ pc \in {"senders", "wait"}
    BY <1>3, ScriptRuns, ScriptChanges DEF script
  <2>2. Stays
    BY <2>1 DEF Stays, Past, Test, Mine, pc
  <2> QED BY <1>1, <2>1, <2>2, PlanType DEF PlaceInv, Test
<1> QED BY <1>2, <1>3

LEMMA ProgramStays ==
    ASSUME ProgramEffect
    PROVE  k' = k /\ Past' = Past /\ Test' = Test /\ Mine' = Mine /\ pc' = pc
BY DEF ProgramEffect, Past, Test, Mine, pc

LEMMA MineIsPaired == k \in 1..Len(Plan) => Mine \subseteq Pairs /\ Plan[k].pairs \in Mine
BY PlanType DEF Mine
-----------------------------------------------------------------------------
(* What runs when *)

LEMMA ScriptQuiet ==
    ASSUME TypeOK, PlaceInv, QuietInv, Script
    PROVE  QuietInv'
<1>1. Running /\ (Stays \/ GoesOn \/ Ends)
  BY ScriptMoves
<1>2. CASE pc = "stop"
  <2>1. rr' = "off" /\ verdict' = "none" /\ \A p \in Pairs : senders'[p] = "off" /\ recv'[p] = "off"
    BY <1>2, ScriptChanges DEF Stop, RRStop
  <2> QED BY <2>1 DEF QuietInv
<1>3. CASE pc # "stop" /\ ~Stays
  <2>1. rr' # "off" => rr # "off" \/ pc = "rr"
    BY <1>3, ScriptChanges DEF rrVars, NewProcess
  <2>2. verdict' # "none" => verdict # "none" \/ pc = "check"
    BY <1>3, ScriptChanges
  <2>3. ASSUME NEW p \in Pairs, senders'[p] # "off" PROVE senders[p] # "off" \/ pc = "senders"
    BY <1>3, <2>3, ScriptChanges
  <2>4. ASSUME NEW p \in Pairs, recv'[p] # "off"
        PROVE  recv[p] # "off" \/ (pc = "receivers" /\ p \in Mine)
    BY <1>3, <2>4, ScriptChanges DEF StartReceivers
  <2>5. CASE GoesOn
    <3>1. "stop" \notin Past' <=> "stop" \notin Past
      BY <1>3, <2>5 DEF GoesOn
    <3>2. /\ pc = "rr" => "stop" \notin Past
          /\ pc = "check" => "stop" \notin Past
          /\ pc = "senders" => "stop" \notin Past
          /\ pc = "receivers" => "stop" \notin Past
      BY <1>1, Order
    <3> QED BY <2>1, <2>2, <2>3, <2>4, <2>5, <3>1, <3>2 DEF QuietInv, GoesOn
  <2>6. CASE Ends
    <3>1. pc \notin {"rr", "check", "senders", "receivers"}
      BY <1>3, <2>6 DEF Ends
    <3>2. /\ rr = "off" /\ verdict = "none"
          /\ \A p \in Pairs : senders[p] = "off" /\ recv[p] = "off"
      BY <1>1, <1>3, <2>6, Order DEF Ends, QuietInv
    <3> QED BY <2>1, <2>2, <2>3, <2>4, <3>1, <3>2 DEF QuietInv
  <2> QED BY <1>1, <1>3, <2>5, <2>6
<1>4. CASE Stays
  <2>1. rr' = rr /\ verdict' = verdict /\ recv' = recv
    BY <1>4, ScriptChanges DEF Stays, rrVars
  <2>2. "stop" \notin Past
    BY <1>1, <1>4, Order DEF Stays
  <2>3. pc = "wait" => senders' = senders
    BY ScriptChanges
  <2> QED BY <1>4, <2>1, <2>2, <2>3 DEF QuietInv, Stays
<1> QED BY <1>2, <1>3, <1>4 DEF Stays

LEMMA ProgramQuiet ==
    ASSUME QuietInv, ProgramEffect
    PROVE  QuietInv'
BY ProgramStays DEF QuietInv, ProgramEffect

\* The sender that is started becomes something, and the last one is the end of it.
LEMMA SenderStarts ==
    ASSUME TypeOK, PlaceInv, Script, pc = "senders"
    PROVE  /\ senders' \in [Pairs -> {"off", "failed", "waiting", "sending"}]
           /\ \A p \in Pairs : senders[p] # "off" => senders'[p] = senders[p]
           /\ \A p \in Pairs :
                 senders'[p] = "sending" => senders[p] = "sending" \/ "F" \notin Passed[Test]
           /\ GoesOn => \A p \in Mine : senders'[p] # "off"
           /\ clock' = 0 /\ waits' = WaitCount
<1>1. k \in 1..Len(Plan) /\ Running
  BY ScriptRuns
<1>2. StartSender
  BY ScriptChanges
<1>3. PICK p \in Mine :
          /\ senders[p] = "off" /\ \A q \in Mine : q < p => senders[q] # "off"
          /\ senders' = [senders EXCEPT ![p] = Begins]
          /\ IF p = Plan[k].pairs THEN Proceed ELSE UNCHANGED script
  BY <1>2 DEF StartSender
<1>4. /\ senders \in [Pairs -> {"off", "failed", "waiting", "sending"}] /\ p \in Pairs
  BY <1>1, MineIsPaired DEF TypeOK
<1>5. Begins \in {"failed", "sending", "waiting"}
      /\ (Begins = "sending" => "F" \notin Passed[Test])
  BY DEF Begins
<1>6. ASSUME GoesOn, NEW q \in Mine PROVE senders'[q] # "off"
  <2>1. p = Plan[k].pairs
    <3>1. Past' # Past
      BY <1>1, <1>6, Order DEF GoesOn
    <3> QED BY <1>3, <3>1 DEF script, Past, Test
  <2>2. q < p \/ q = p
    BY <1>1, <2>1, PlanType DEF Mine
  <2>3. q \in Pairs
    BY <1>1, MineIsPaired
  <2> QED BY <1>3, <1>4, <1>5, <2>2, <2>3
<1>7. clock' = 0 /\ waits' = WaitCount
  BY <1>2 DEF StartSender
<1> QED BY <1>3, <1>4, <1>5, <1>6, <1>7

LEMMA ScriptStarted ==
    ASSUME TypeOK, PlaceInv, StartedInv, Script
    PROVE  StartedInv'
<1>1. Running /\ (Stays \/ GoesOn \/ Ends) /\ Mine \subseteq Pairs
  BY ScriptMoves, MineIsPaired DEF Running
<1>2. CASE Ends
  BY <1>2 DEF Ends, StartedInv
<1>3. CASE pc = "stop" /\ GoesOn
  BY <1>3 DEF GoesOn, StartedInv
<1>4. CASE pc = "receivers" /\ GoesOn
  <2>1. \A p \in Mine : recv'[p] = "running"
    BY <1>1, <1>4, ScriptChanges DEF StartReceivers
  <2>2. "senders" \notin Past'
    BY <1>1, <1>4, Order DEF GoesOn
  <2> QED BY <1>4, <2>1, <2>2 DEF GoesOn, StartedInv
<1>5. CASE pc = "senders"
  <2>1. recv' = recv /\ "senders" \notin Past /\ "receivers" \in Past /\ "stop" \notin Past
    BY <1>1, <1>5, ScriptChanges, Order
  <2>2. CASE Stays
    BY <2>1, <2>2 DEF Stays, StartedInv
  <2>3. CASE GoesOn
    <3>1. \A p \in Mine : senders'[p] # "off"
      BY <1>5, <2>3, SenderStarts
    <3> QED BY <2>1, <2>3, <3>1 DEF GoesOn, StartedInv
  <2> QED BY <1>1, <1>2, <2>2, <2>3
<1>6. CASE pc \notin {"stop", "receivers", "senders"} /\ ~Ends
  <2>1. recv' = recv /\ senders' = senders
    BY <1>6, ScriptChanges
  <2> QED BY <1>1, <1>6, <2>1 DEF StartedInv, Stays, GoesOn
<1> QED BY <1>1, <1>2, <1>3, <1>4, <1>5, <1>6 DEF Stays

LEMMA ProgramStarted ==
    ASSUME StartedInv, ProgramEffect, k \in 1..Len(Plan) \/ Past = {}
    PROVE  StartedInv'
<1>1. CASE Past = {}
  BY <1>1, ProgramStays DEF StartedInv
<1>2. CASE k \in 1..Len(Plan)
  BY <1>2, ProgramStays, MineIsPaired DEF StartedInv, ProgramEffect
<1> QED BY <1>1, <1>2

LEMMA ScriptSignal ==
    ASSUME TypeOK, PlaceInv, QuietInv, SignalInv, Script
    PROVE  SignalInv'
<1>1. Running /\ (Stays \/ GoesOn \/ Ends)
  BY ScriptMoves
<1>2. CASE Ends
  BY <1>2 DEF Ends, SignalInv
<1>3. CASE pc = "signal" /\ GoesOn
  <2>1. start' = FALSE /\ senders' = senders
    BY <1>3, ScriptChanges
  <2>2. \A p \in Pairs : senders[p] = "off"
    BY <1>1, <1>3, Order DEF QuietInv
  <2> QED BY <2>1, <2>2 DEF SignalInv
<1>4. CASE pc = "touch" /\ GoesOn
  BY <1>4 DEF GoesOn, SignalInv
<1>5. CASE pc = "senders" /\ ~Ends
  <2>1. start' = start
    BY <1>5, ScriptChanges
  <2>2. "signal" \in Past => "F" \in Passed[Test]
    BY <1>1, <1>5, Order DEF Passed
  <2>3. \A p \in Pairs :
            senders'[p] = "sending" => senders[p] = "sending" \/ "F" \notin Passed[Test]
    BY <1>5, SenderStarts
  <2>4. ("signal" \in Past' <=> "signal" \in Past) /\ ("touch" \in Past' <=> "touch" \in Past)
    BY <1>1, <1>5 DEF Stays, GoesOn
  <2> QED BY <2>1, <2>2, <2>3, <2>4 DEF SignalInv
<1>6. CASE pc = "stop" /\ GoesOn
  <2>1. start' = start /\ \A p \in Pairs : senders'[p] = "off"
    BY <1>6, ScriptChanges DEF Stop
  <2> QED BY <1>6, <2>1 DEF GoesOn, SignalInv
<1>7. CASE pc \notin {"signal", "touch", "senders", "stop"} /\ ~Ends
  <2>1. start' = start /\ senders' = senders
    BY <1>7, ScriptChanges
  <2> QED BY <1>1, <1>7, <2>1 DEF SignalInv, Stays, GoesOn
<1> QED BY <1>1, <1>2, <1>3, <1>4, <1>5, <1>6, <1>7 DEF Stays

LEMMA ProgramSignal ==
    ASSUME SignalInv, ProgramEffect
    PROVE  SignalInv'
BY ProgramStays DEF SignalInv, ProgramEffect

\* The reapers of a test are disarmed before its end.
LEMMA ScriptReapers ==
    ASSUME TypeOK, PlaceInv, ReapersInv, Script
    PROVE  ReapersInv'
<1>1. Running /\ (Stays \/ GoesOn \/ Ends)
  BY ScriptMoves
<1>2. CASE Ends
  <2>1. reapers' = reapers
    BY <1>2, ScriptChanges DEF Ends
  <2>2. \A t \in Targets : reapers[t] = 0
    BY <1>1, <1>2, Order DEF Ends, ReapersInv
  <2> QED BY <2>1, <2>2 DEF ReapersInv
<1>3. CASE pc = "reapers" /\ GoesOn
  <2>1. \A t \in Targets : reapers'[t] = k
    BY <1>3, ScriptChanges
  <2>2. "reapers" \in Past' /\ "disarm" \notin Past' /\ k' = k
    BY <1>1, <1>3, Order DEF GoesOn
  <2> QED BY <2>1, <2>2 DEF ReapersInv
<1>4. CASE pc = "disarm"
  BY <1>4, ScriptChanges DEF ReapersInv
<1>5. CASE pc \notin {"reapers", "disarm"} /\ ~Ends
  BY <1>1, <1>5, ScriptChanges DEF ReapersInv, Stays, GoesOn
<1> QED BY <1>1, <1>2, <1>3, <1>4, <1>5 DEF Stays

LEMMA ProgramReapers ==
    ASSUME ReapersInv, ProgramEffect
    PROVE  ReapersInv'
BY ProgramStays DEF ReapersInv, ProgramEffect

\* The loop ends before its count is below 0.
LEMMA ScriptPolls ==
    ASSUME TypeOK, PlaceInv, PollInv, Script
    PROVE  PollInv' /\ clock' \in 0..WaitCount /\ waits' \in 0..WaitCount
<1>1. Running /\ (Stays \/ GoesOn \/ Ends)
  BY ScriptMoves
<1>2. clock \in 0..WaitCount /\ waits \in 0..WaitCount /\ WaitCount \in Nat \ {0}
  BY TimesAssumption DEF TypeOK
<1>3. CASE pc = "senders"
  <2>1. clock' = 0 /\ waits' = WaitCount
    BY <1>3, SenderStarts
  <2> QED BY <1>2, <2>1 DEF PollInv
<1>4. CASE pc = "wait"
  <2>1. clock + waits = WaitCount /\ waits > 0 /\ "wait" \notin Past
    BY <1>1, <1>4, Order DEF PollInv
  <2>2. Poll
    BY <1>4, ScriptChanges
  <2>3. (Proceed /\ UNCHANGED <<clock, waits>>) \/ (Tick /\ (waits' = 0 => Proceed))
    BY <2>2 DEF Poll
  <2>4. clock' + waits' = WaitCount /\ clock' \in 0..WaitCount /\ waits' \in 0..WaitCount
    BY <1>2, <2>1, <2>3 DEF Tick
  <2>5. Proceed => "wait" \in Past' \/ Past' = {}
    BY <1>1, <1>4, Proceeding
  <2>6. waits' = 0 => "wait" \in Past' \/ Past' = {}
    BY <1>2, <2>1, <2>3, <2>5
  <2>7. waits' # 0 => waits' > 0
    BY <1>2, <2>4
  <2> QED BY <2>4, <2>6, <2>7 DEF PollInv
<1>5. CASE pc \notin {"senders", "wait"}
  <2>1. clock' = clock /\ waits' = waits
    BY <1>5, ScriptChanges
  <2>2. "senders" \in Past' => "senders" \in Past /\ ("wait" \notin Past' => "wait" \notin Past)
    BY <1>1, <1>5 DEF Stays, GoesOn, Ends
  <2> QED BY <1>2, <2>1, <2>2 DEF PollInv
<1> QED BY <1>3, <1>4, <1>5

LEMMA ProgramPolls ==
    ASSUME PollInv, ProgramEffect
    PROVE  PollInv'
BY ProgramStays DEF PollInv, ProgramEffect
-----------------------------------------------------------------------------
(* The done-files *)

LEMMA ScriptFiles ==
    ASSUME TypeOK, PlaceInv, QuietInv, FilesInv, Script
    PROVE  FilesInv'
<1>1. Running /\ k \in 1..Len(Plan) /\ (Stays \/ GoesOn \/ Ends)
  BY ScriptMoves, ScriptRuns
<1>2. k \in Nat /\ (k' = k \/ k' = k + 1) /\ \A n \in Nat : n <= k => n <= k'
  BY <1>1, PlanType DEF Stays, GoesOn, Ends
<1>3. names \in [Pairs -> Pids] /\ doneFiles \subseteq Pids /\ \A f \in Pids : f[1] \in Nat
  BY PlanType DEF TypeOK, Pids
<1>4. doneFiles' \subseteq doneFiles
  BY ScriptChanges
<1>5. pc = "receivers" =>
          /\ \A p \in Pairs : names'[p][1] <= k
          /\ ~Recur => \A p \in Pairs : names'[p] = <<k, p>>
          /\ doneFiles' = doneFiles
  <2> SUFFICES ASSUME pc = "receivers"
               PROVE  /\ \A p \in Pairs : names'[p][1] <= k
                      /\ ~Recur => \A p \in Pairs : names'[p] = <<k, p>>
                      /\ doneFiles' = doneFiles
    OBVIOUS
  <2>1. StartReceivers /\ doneFiles' = doneFiles
    BY ScriptChanges
  <2>2. \A p \in Pairs : Named[p] = <<k, p>> /\ Named[p][1] <= k
    BY <1>2 DEF Named
  <2>3. Named = [p \in Pairs |-> <<k, p>>]
    BY DEF Named
  <2>4. names' = Named \/ (Recur /\ \E f \in doneFiles :
                                      names' = [Named EXCEPT ![Plan[k].pairs] = f])
    BY <2>1 DEF StartReceivers
  <2>5. \A f \in doneFiles : f[1] <= k
    BY DEF FilesInv
  <2>6. ASSUME NEW f \in doneFiles, names' = [Named EXCEPT ![Plan[k].pairs] = f],
               NEW p \in Pairs
        PROVE  names'[p][1] <= k
    <3>1. names'[p] = f \/ names'[p] = Named[p]
      BY <2>3, <2>6
    <3> QED BY <2>2, <2>5, <3>1
  <2> QED BY <2>1, <2>2, <2>4, <2>6
<1>6. pc # "receivers" => names' = names
  BY ScriptChanges
<1>7. \A p \in Pairs : names'[p][1] <= k'
  <2> TAKE p \in Pairs
  <2>1. names'[p][1] <= k
    BY <1>5, <1>6 DEF FilesInv
  <2>2. CASE pc = "receivers"
    <3>1. k' = k
      BY <1>1, <2>2 DEF Stays, GoesOn, Ends
    <3> QED BY <2>1, <3>1
  <2>3. CASE pc # "receivers"
    <3>1. names'[p] \in Pids
      BY <1>3, <1>6, <2>3
    <3> QED BY <1>2, <1>3, <2>1, <3>1
  <2> QED BY <2>2, <2>3
<1>8. \A f \in doneFiles' : f[1] <= k' /\ ("receivers" \notin Past' => f[1] < k')
  <2> TAKE f \in doneFiles'
  <2>1. f[1] <= k /\ ("receivers" \notin Past => f[1] < k) /\ f[1] \in Nat
    BY <1>3, <1>4 DEF FilesInv
  <2>2. CASE Ends
    <3>1. k' = k + 1
      BY <2>2 DEF Ends
    <3> QED BY <1>2, <2>1, <3>1
  <2>3. CASE ~Ends
    <3>1. k' = k /\ ("receivers" \notin Past' => "receivers" \notin Past)
      BY <1>1, <2>3 DEF Stays, GoesOn
    <3> QED BY <2>1, <3>1
  <2> QED BY <2>2, <2>3
<1>9. ASSUME ~Recur, k' <= Len(Plan), Test' = "router_1", "receivers" \in Past',
             names'[1] \in doneFiles'
      PROVE  recv'[1] = "done"
  <2>1. k' = k /\ Test = "router_1" /\ pc # "stop"
    BY <1>1, <1>9 DEF Stays, GoesOn, Ends
  <2>2. CASE pc = "receivers"
    <3>1. 1 \in Pairs
      BY <1>1, <2>1, PlanType DEF Test
    <3>2. names'[1] = <<k, 1>> /\ names'[1] \in doneFiles
      BY <1>4, <1>5, <1>9, <2>2, <3>1
    <3>3. names'[1][1] < k
      BY <1>1, <2>2, <3>2, Order DEF FilesInv
    <3> QED BY <1>2, <3>2, <3>3
  <2>3. CASE pc # "receivers"
    <3>1. names' = names /\ recv' = recv /\ names[1] \in doneFiles
      BY <1>4, <1>9, <2>1, <2>3, ScriptChanges
    <3>2. "receivers" \in Past /\ k <= Len(Plan)
      BY <1>1, <1>9, <2>1, <2>3 DEF Stays, GoesOn, Ends
    <3> QED BY <1>9, <2>1, <3>1, <3>2 DEF FilesInv
  <2> QED BY <2>2, <2>3
<1>10. ASSUME "clear" \in Past', "stop" \notin Past'
       PROVE  doneFiles' \subseteq {names'[p] : p \in {q \in Mine' : recv'[q] = "done"}}
  <2>1. CASE pc = "clear"
    <3>1. doneFiles' = {}
      BY <2>1, ScriptChanges
    <3> QED BY <3>1
  <2>2. CASE pc # "clear"
    <3>1. Mine' = Mine /\ "clear" \in Past /\ "stop" \notin Past /\ pc # "stop"
      BY <1>1, <1>10, <2>2 DEF Stays, GoesOn, Ends
    <3>2. doneFiles \subseteq {names[p] : p \in {q \in Mine : recv[q] = "done"}}
      BY <3>1 DEF FilesInv
    <3>3. CASE pc # "receivers"
      <4>1. names' = names /\ recv' = recv
        BY <3>1, <3>3, ScriptChanges
      <4> QED BY <1>4, <3>1, <3>2, <4>1
    <3>4. CASE pc = "receivers"
      <4>1. \A q \in Mine : q \in Pairs /\ recv[q] = "off"
        BY <1>1, <3>4, Order, MineIsPaired DEF QuietInv
      <4>2. doneFiles = {}
        BY <3>2, <4>1
      <4> QED BY <1>4, <4>2
    <3> QED BY <3>3, <3>4
  <2> QED BY <2>1, <2>2
<1> QED BY <1>7, <1>8, <1>9, <1>10 DEF FilesInv

LEMMA ProgramFiles ==
    ASSUME TypeOK, QuietInv, FilesInv, ProgramEffect
    PROVE  FilesInv'
<1>1. k' = k /\ Past' = Past /\ Test' = Test /\ Mine' = Mine /\ names' = names
  BY ProgramStays DEF ProgramEffect
<1>2. \A p \in Pairs : recv[p] = "done" => recv'[p] = "done"
  BY DEF ProgramEffect
<1>3. CASE doneFiles' = doneFiles
  <2>1. ~Recur /\ k <= Len(Plan) /\ Test = "router_1" /\ "receivers" \in Past =>
          (names[1] \in doneFiles => recv'[1] = "done")
    <3>1. k \in 1..Len(Plan) /\ Test = "router_1" => 1 \in Pairs
      BY PlanType DEF Test
    <3>2. k <= Len(Plan) => k \in 1..Len(Plan)
      BY PlanType DEF TypeOK
    <3> QED BY <1>2, <3>1, <3>2 DEF FilesInv
  <2>2. "clear" \in Past /\ "stop" \notin Past =>
          doneFiles \subseteq {names[p] : p \in {q \in Mine : recv'[q] = "done"}}
    <3>1. k <= Len(Plan) => Mine \subseteq Pairs
      BY PlanType, MineIsPaired DEF TypeOK
    <3>2. "clear" \in Past => k <= Len(Plan)
      BY DEF Past
    <3> QED BY <1>2, <3>1, <3>2 DEF FilesInv
  <2> QED BY <1>1, <1>3, <2>1, <2>2 DEF FilesInv
<1>4. ASSUME NEW p \in Pairs, recv[p] = "running", recv'[p] = "done",
             doneFiles' = doneFiles \union {names[p]}
      PROVE  FilesInv'
  <2>1. p \in Mine /\ "receivers" \in Past /\ "stop" \notin Past
    BY <1>4 DEF QuietInv
  <2>2. k \in 1..Len(Plan)
    BY <2>1, PlanType DEF Past, TypeOK
  <2>3. \A f \in doneFiles' : f[1] <= k
    BY <1>4 DEF FilesInv
  <2>4. Test = "router_1" => p = 1
    BY <2>1, <2>2, PlanType DEF Mine, Test
  <2>5. ~Recur /\ k <= Len(Plan) /\ Test = "router_1" /\ "receivers" \in Past =>
          (names[1] \in doneFiles' => recv'[1] = "done")
    BY <1>4, <2>4
  <2>6. "clear" \in Past /\ "stop" \notin Past =>
          doneFiles' \subseteq {names[q] : q \in {o \in Mine : recv'[o] = "done"}}
    <3> SUFFICES ASSUME "clear" \in Past, "stop" \notin Past, NEW f \in doneFiles'
                 PROVE  \E q \in Mine : recv'[q] = "done" /\ f = names[q]
      OBVIOUS
    <3>1. CASE f = names[p]
      BY <1>4, <2>1, <3>1
    <3>2. CASE f \in doneFiles
      <4>1. \E q \in Mine : recv[q] = "done" /\ f = names[q]
        BY <3>2 DEF FilesInv
      <4> QED BY <1>2, <2>2, <4>1, MineIsPaired
    <3> QED BY <1>4, <3>1, <3>2
  <2> QED BY <1>1, <2>1, <2>3, <2>5, <2>6 DEF FilesInv
<1> QED BY <1>3, <1>4 DEF ProgramEffect

\* What the waiting loop looks for is there only when all receivers have finished.
LEMMA DoneIsDone ==
    ASSUME TypeOK, PlaceInv, FilesInv, PidsTell, Running, pc = "wait", Done
    PROVE  \A p \in Mine : recv[p] = "done"
<1>1. /\ {"receivers", "senders"} \subseteq Past /\ "stop" \notin Past
      /\ "clear" \in Past \/ Test = "router_1"
  BY Order
<1>2. k \in 1..Len(Plan) /\ k \in DOMAIN Plan
  BY PlanType DEF Running
<1>3. CASE Test = "router_1"
  <2>1. ~Recur /\ Plan[k].pairs = 1 /\ k <= Len(Plan)
    BY <1>2, <1>3, PlanType DEF PidsTell, Test
  <2>2. names[1] \in doneFiles
    BY <1>3, <2>1 DEF Done, FileThere
  <2>3. recv[1] = "done"
    BY <1>1, <1>3, <2>1, <2>2 DEF FilesInv
  <2> QED BY <2>1, <2>3 DEF Mine
<1>4. CASE Test # "router_1"
  <2> DEFINE D == {q \in Mine : recv[q] = "done"}
             F == {names[p] : p \in D}
             g == [p \in D |-> names[p]]
  <2>1. doneFiles \subseteq F /\ Cardinality(doneFiles) = Plan[k].pairs
    BY <1>1, <1>4 DEF FilesInv, Done, AllThere
  <2>2. IsFiniteSet(Mine) /\ Cardinality(Mine) = Plan[k].pairs /\ Plan[k].pairs \in Nat
    <3>1. Plan[k].pairs \in Nat \ {0}
      BY <1>2, PlanType
    <3>2. ASSUME NEW n \in Nat \ {0} PROVE IsFiniteSet(1..n) /\ Cardinality(1..n) = n
      BY FS_Interval
    <3> QED BY <3>1, <3>2 DEF Mine
  <2>3. D \subseteq Mine
    OBVIOUS
  <2>4. g \in Surjection(D, F)
    BY DEF Surjection
  <2> HIDE DEF D, F, g
  <2>5. IsFiniteSet(D) /\ Cardinality(D) <= Cardinality(Mine)
        /\ (Cardinality(D) = Cardinality(Mine) => D = Mine)
    BY <2>2, <2>3, FS_Subset
  <2>6. IsFiniteSet(F) /\ Cardinality(F) <= Cardinality(D)
    BY <2>4, <2>5, FS_Surjection
  <2>7. IsFiniteSet(doneFiles) /\ Cardinality(doneFiles) <= Cardinality(F)
    BY <2>1, <2>6, FS_Subset
  <2>8. Cardinality(D) \in Nat /\ Cardinality(F) \in Nat
    BY <2>5, <2>6, FS_CardinalityType
  <2>9. D = Mine
    BY <2>1, <2>2, <2>5, <2>6, <2>7, <2>8
  <2> QED BY <2>9 DEF D
<1> QED BY <1>3, <1>4

LEMMA ScriptFound ==
    ASSUME TypeOK, PlaceInv, QuietInv, FilesInv, FoundInv, Script
    PROVE  FoundInv'
<1>1. Running /\ (Stays \/ GoesOn \/ Ends)
  BY ScriptMoves
<1>2. verdict' # "none" => "check" \in Past'
  BY ScriptQuiet DEF QuietInv
<1> SUFFICES ASSUME PidsTell, "stop" \notin Past'
             PROVE  /\ "wait" \in Past' /\ found' => \A p \in Mine' : recv'[p] = "done"
                    /\ verdict' = "found" => found'
  BY DEF FoundInv, PidsTell
<1>3. CASE Ends
  BY <1>2, <1>3 DEF Ends
<1>4. CASE ~Ends
  <2>1. Mine' = Mine /\ pc # "stop" /\ "stop" \notin Past
    BY <1>1, <1>4 DEF Stays, GoesOn
  <2>2. CASE pc = "wait"
    <3>1. recv' = recv /\ found' = Done /\ verdict' = verdict
      BY <2>2, ScriptChanges DEF Poll
    <3>2. verdict = "none"
      BY <1>1, <2>2, Order DEF QuietInv
    <3>3. Done => \A p \in Mine : recv[p] = "done"
      BY <1>1, <2>2, DoneIsDone
    <3> QED BY <2>1, <3>1, <3>2, <3>3
  <2>3. CASE pc = "check"
    <3>1. recv' = recv /\ found' = found /\ verdict' = IF found THEN "found" ELSE "missing"
      BY <2>3, ScriptChanges
    <3>2. "wait" \in Past
      BY <1>1, <2>3, Order
    <3>3. found => \A p \in Mine : recv[p] = "done"
      BY <2>1, <3>2 DEF FoundInv
    <3> QED BY <2>1, <3>1, <3>3
  <2>4. CASE pc \notin {"wait", "check"}
    <3>1. found' = found /\ verdict' = verdict
      BY <2>1, <2>4, ScriptChanges
    <3>2. ("wait" \in Past' => "wait" \in Past) /\ (pc = "receivers" => "wait" \notin Past)
      BY <1>1, <1>4, <2>4, Order DEF Stays, GoesOn
    <3>3. pc # "receivers" => recv' = recv
      BY <2>1, ScriptChanges
    <3> QED BY <2>1, <3>1, <3>2, <3>3 DEF FoundInv
  <2> QED BY <2>2, <2>3, <2>4
<1> QED BY <1>3, <1>4

LEMMA ProgramFound ==
    ASSUME TypeOK, FoundInv, ProgramEffect
    PROVE  FoundInv'
<1>1. /\ Past' = Past /\ Mine' = Mine /\ found' = found /\ verdict' = verdict
      /\ \A p \in Pairs : recv[p] = "done" => recv'[p] = "done"
  BY ProgramStays DEF ProgramEffect
<1>2. "wait" \in Past => Mine \subseteq Pairs
  BY PlanType, MineIsPaired DEF Past, TypeOK
<1> QED BY <1>1, <1>2 DEF FoundInv, PidsTell
-----------------------------------------------------------------------------
(* rr and the reports *)

\* Remainders of numbers around one width.
LEMMA Remainders ==
    ASSUME NEW n \in 0..(Width - 1)
    PROVE  n % Width = n /\ (n - Width) % Width = n /\ Width % Width = 0
BY WidthAssumption

LEMMA NextRR ==
    ASSUME TypeOK, PlaceInv, QuietInv, RRInv, Next
    PROVE  RRInv'
<1>1. /\ ticks \in 0..(Width - 1) /\ previous \in 0..(Width - 1)
      /\ usage \in 0..(Width - 1) /\ fresh \in 0..(Width - 1) /\ spent \in 0..(Width - 1)
      /\ Width \in Nat /\ Width > 1
  BY WidthAssumption DEF TypeOK, RRTypeOK
<1>2. ASSUME Script PROVE RRInv'
  <2>1. Running
    BY <1>2, ScriptRuns
  <2>2. CASE pc = "router"
    <3>1. rr' = rr /\ rr = "off"
      BY <1>2, <2>1, <2>2, ScriptChanges, Order DEF NewProcess, QuietInv
    <3> QED BY <3>1 DEF RRInv
  <2>3. CASE pc = "rr"
    <3>1. /\ rr' = "asleep" /\ router' = router /\ fresh' = 0 /\ ticks' = ticks
          /\ router => previous' = ticks
      BY <1>2, <2>3, ScriptChanges DEF StartRR, Watch, Reading
    <3> QED BY <1>1, <3>1 DEF RRInv
  <2>4. CASE pc = "stop"
    BY <1>2, <2>4, ScriptChanges DEF Stop, RRStop, RRInv
  <2>5. CASE pc \notin {"router", "rr", "stop"}
    BY <1>2, <2>5, ScriptChanges DEF RRInv, rrVars
  <2> QED BY <2>2, <2>3, <2>4, <2>5
<1>3. ASSUME RRStep PROVE RRInv'
  <2>1. router' = router
    BY <1>3 DEF RRStep
  <2>2. CASE pos < MaxLines /\ ReadUsage(router) /\ pos' = pos
    <3>1. /\ rr = "asleep" /\ rr' = "halfway" /\ ticks' = ticks
          /\ spent' = fresh /\ fresh' = 0
      BY <2>2 DEF ReadUsage
    <3>2. ASSUME router
          PROVE  usage' = spent' /\ ticks' = previous' + fresh'
      <4>1. usage' = (ticks - previous) % Width /\ previous' = ticks
        BY <2>2, <3>2 DEF ReadUsage, Reading
      <4>2. ticks = previous + fresh \/ ticks + Width = previous + fresh
        BY <3>1, <3>2 DEF RRInv
      <4>3. ticks - previous = fresh \/ ticks - previous = fresh - Width
        BY <1>1, <4>2
      <4>4. usage' = fresh
        BY <1>1, <4>1, <4>3, Remainders
      <4> QED BY <1>1, <3>1, <4>1, <4>4
    <3> QED BY <2>1, <2>2, <3>1, <3>2 DEF RRInv
  <2>3. CASE RRCrash(router)
    BY <2>3 DEF RRCrash, RRInv
  <2>4. CASE ReadSize(router)
    BY <2>1, <2>4 DEF ReadSize, RRInv
  <2> QED BY <1>3, <2>2, <2>3, <2>4 DEF RRStep
<1>4. ASSUME RouterWorks PROVE RRInv'
  <2>1. /\ ticks' = (ticks + 1) % Width /\ fresh' = fresh + 1 /\ router' = router /\ router
        /\ UNCHANGED <<rr, previous, usage, spent, pos>>
    BY <1>4 DEF RouterWorks, Work, written
  <2>2. ASSUME ticks = previous + fresh \/ ticks + Width = previous + fresh
        PROVE  ticks' = previous + fresh' \/ ticks' + Width = previous + fresh'
    <3>1. CASE ticks + 1 < Width
      <4>1. ticks' = ticks + 1
        BY <1>1, <2>1, <3>1, Remainders
      <4> QED BY <1>1, <2>1, <2>2, <4>1
    <3>2. CASE ~(ticks + 1 < Width)
      <4>1. ticks + 1 = Width
        BY <1>1, <3>2
      <4>2. ticks' = 0
        BY <1>1, <2>1, <4>1, Remainders
      <4> QED BY <1>1, <2>1, <2>2, <4>1, <4>2
    <3> QED BY <3>1, <3>2
  <2> QED BY <2>1, <2>2 DEF RRInv
<1>5. ASSUME UNCHANGED <<rrVars, pos>>, router' => router PROVE RRInv'
  BY <1>5 DEF RRInv, rrVars
<1>6. ASSUME RouterCrash PROVE RRInv'
  BY <1>5, <1>6 DEF RouterCrash, written
<1>7. ASSUME NEW p \in Pairs, Go(p) \/ ReceiverDone(p) PROVE RRInv'
  BY <1>5, <1>7 DEF Go, ReceiverDone, written
<1>8. ASSUME NEW t \in Targets, Reap(t) PROVE RRInv'
  BY <1>5, <1>8 DEF Reap, written
<1>9. ASSUME Finished PROVE RRInv'
  BY <1>5, <1>9 DEF Finished, vars, written
<1> QED BY <1>2, <1>3, <1>4, <1>6, <1>7, <1>8, <1>9 DEF Next

\* The lines of a report after one more, or after one was overwritten.
LEMMA LinesStay ==
    ASSUME NEW file \in Seq(Lines), NEW line \in Lines, NEW n \in Nat,
           \A i \in 1..Len(file) : file[i][3] = TRUE, line[3] = TRUE,
           NEW new, new = IF n < Len(file) THEN [file EXCEPT ![n + 1] = line]
                          ELSE Append(file, line)
    PROVE  new \in Seq(Lines) /\ \A i \in 1..Len(new) : new[i][3] = TRUE
<1>1. Len(file) \in Nat
  BY LenProperties
<1>2. CASE n < Len(file)
  <2>1. n + 1 \in 1..Len(file)
    BY <1>1, <1>2
  <2>2. /\ new \in Seq(Lines) /\ Len(new) = Len(file)
        /\ \A i \in 1..Len(file) : new[i] = IF i = n + 1 THEN line ELSE file[i]
    BY <1>2, <2>1, ExceptSeq
  <2> QED BY <2>2
<1>3. CASE ~(n < Len(file))
  <2>1. new = Append(file, line)
    BY <1>3
  <2>2. /\ new \in Seq(Lines) /\ Len(new) = Len(file) + 1
        /\ \A i \in 1..Len(file) : new[i] = file[i]
        /\ new[Len(file) + 1] = line
    BY <2>1, AppendProperties
  <2>3. 1..Len(new) = (1..Len(file)) \union {Len(file) + 1}
    BY <1>1, <2>2
  <2> QED BY <2>2, <2>3
<1> QED BY <1>2, <1>3

\* Which file a test has for rr and for its row.
LEMMA ReportFiles ==
    ASSUME Running
    PROVE  /\ "rr" \in Past \/ pc = "rr" => RRFile \in Files
           /\ pc = "row" => Test \in Files /\ Test # "watch"
<1>1. "rr" \in Past \/ pc = "rr" => Test \in {"router_soak", "router_scale", "router_scale_2"}
  <2>1. Test \in {"router_1", "router_soak", "header", "router_scale", "router_scale_2"}
    BY PlanType DEF Running, Test, Scripts
  <2>2. Test = "router_1" => ~("rr" \in Past \/ pc = "rr")
    BY OrderRouter1
  <2>3. Test = "header" => ~("rr" \in Past \/ pc = "rr")
    BY OrderHeader
  <2> QED BY <2>1, <2>2, <2>3
<1>2. pc = "row" => Test \in {"router_scale", "router_scale_2"}
  BY Order
<1> QED BY <1>1, <1>2 DEF RRFile, Files

LEMMA NextReports ==
    ASSUME TypeOK, PlaceInv, QuietInv, RRInv, RowsAreMeasured, Next
    PROVE  reports' \in [Files -> Seq(Lines)] /\ RowsAreMeasured'
<1>1. /\ reports \in [Files -> Seq(Lines)] /\ pos \in 0..MaxLines
      /\ \A f \in Files : \A i \in 1..Len(reports[f]) : reports[f][i][3]
  BY DEF TypeOK, RowsAreMeasured
<1>2. ASSUME NEW f \in Files, NEW new \in Seq(Lines),
             \A i \in 1..Len(new) : new[i][3], reports' = [reports EXCEPT ![f] = new]
      PROVE  reports' \in [Files -> Seq(Lines)] /\ RowsAreMeasured'
  BY <1>1, <1>2 DEF RowsAreMeasured
<1>3. CASE UNCHANGED reports
  BY <1>1, <1>3 DEF RowsAreMeasured
<1>4. <<>> \in Seq(Lines) /\ Len(<<>>) = 0 /\ 1..0 = {}
  BY EmptySeq
<1>5. CASE Script
  <2>1. Running /\ k \in 1..Len(Plan)
    BY <1>5, ScriptRuns
  <2>2. k \in DOMAIN Plan
    BY <2>1, PlanType
  <2>3. CASE pc = "header"
    <3> DEFINE line == <<"header", k, TRUE>>
    <3>1. reports' = [reports EXCEPT !["router_scale"] = <<line>>] \/ UNCHANGED reports
      BY <1>5, <2>3, ScriptChanges DEF WriteHeader
    <3>2. line \in Lines /\ line[3] = TRUE
      BY <2>2 DEF Lines
    <3> HIDE DEF line
    <3>3. <<line>> \in Seq(Lines) /\ \A i \in 1..Len(<<line>>) : <<line>>[i] = line
      BY <3>2
    <3> QED BY <1>2, <1>3, <3>1, <3>2, <3>3 DEF Files
  <2>4. CASE pc = "rr"
    <3>1. reports' = [reports EXCEPT ![RRFile] = <<>>]
      BY <1>5, <2>4, ScriptChanges DEF StartRR
    <3> QED BY <1>2, <1>4, <2>1, <2>4, <3>1, ReportFiles
  <2>5. CASE pc = "row"
    <3> DEFINE line == <<"row", k, TRUE>>
               new == Append(reports[Test], line)
    <3>1. reports' = [reports EXCEPT ![Test] = new, !["watch"] = <<>>]
      BY <1>5, <2>5, ScriptChanges DEF WriteRow
    <3>2. line \in Lines /\ line[3] = TRUE
      BY <2>2 DEF Lines
    <3>3. Test \in Files /\ Test # "watch" /\ "watch" \in Files
      BY <2>1, <2>5, ReportFiles DEF Files
    <3> HIDE DEF line
    <3>4. new \in Seq(Lines) /\ \A i \in 1..Len(new) : new[i][3] = TRUE
      <4>1. reports[Test] \in Seq(Lines) /\ \A i \in 1..Len(reports[Test]) : reports[Test][i][3]
        BY <1>1, <3>3
      <4> DEFINE n == Len(reports[Test])
      <4>2. n \in Nat /\ ~(n < Len(reports[Test]))
        BY <4>1, LenProperties
      <4>3. \A i \in 1..n : reports[Test][i][3] = TRUE
        <5>1. \A i \in 1..n : reports[Test][i] \in Lines
          BY <4>1, ElementOfSeq
        <5>2. \A l \in Lines : l[3] \in BOOLEAN
          BY DEF Lines
        <5> QED BY <4>1, <5>1, <5>2
      <4>4. new = IF n < Len(reports[Test]) THEN [reports[Test] EXCEPT ![n + 1] = line]
                  ELSE Append(reports[Test], line)
        BY <4>2
      <4> HIDE DEF n, new
      <4> QED BY <3>2, <4>1, <4>2, <4>3, <4>4, LinesStay DEF n
    <3> HIDE DEF new
    <3>5. ASSUME NEW f \in Files
          PROVE  reports'[f] = IF f = "watch" THEN <<>> ELSE IF f = Test THEN new
                               ELSE reports[f]
      BY <1>1, <3>1, <3>3
    <3>6. reports' \in [Files -> Seq(Lines)]
      BY <1>1, <1>4, <3>1, <3>4
    <3>7. ASSUME NEW f \in Files, NEW i \in 1..Len(reports'[f]) PROVE reports'[f][i][3]
      <4>1. CASE f = "watch"
        BY <1>4, <3>5, <3>7, <4>1
      <4>2. CASE f # "watch"
        BY <1>1, <3>4, <3>5, <3>7, <4>2
      <4> QED BY <4>1, <4>2
    <3> QED BY <3>6, <3>7 DEF RowsAreMeasured
  <2>6. CASE pc \notin {"header", "rr", "row"}
    BY <1>3, <1>5, <2>6, ScriptChanges
  <2> QED BY <2>3, <2>4, <2>5, <2>6
<1>6. ASSUME RRStep PROVE reports' \in [Files -> Seq(Lines)] /\ RowsAreMeasured'
  <2>1. CASE UNCHANGED reports
    BY <1>3, <2>1
  <2>2. CASE ~UNCHANGED reports
    <3> DEFINE line == <<"rr", k, usage = spent>>
               file == reports[RRFile]
               new == IF pos < Len(file) THEN [file EXCEPT ![pos + 1] = line]
                      ELSE Append(file, line)
    <3>1. /\ rr # "off" /\ k <= Len(Plan) /\ ReadSize(router)
          /\ reports' = [reports EXCEPT ![RRFile] = new]
      BY <1>6, <2>2 DEF RRStep
    <3>2. k \in 1..Len(Plan) /\ Running
      BY <3>1, PlanType DEF TypeOK, PlaceInv, Running
    <3>3. RRFile \in Files
      BY <3>1, <3>2, ReportFiles DEF QuietInv
    <3>4. usage = spent
      BY <3>1 DEF ReadSize, SizeIsRead, RRInv
    <3>5. line \in Lines /\ line[3] = TRUE
      BY <3>2, <3>4, PlanType DEF Lines
    <3>6. file \in Seq(Lines) /\ \A i \in 1..Len(file) : file[i][3] = TRUE
      <4>1. file \in Seq(Lines) /\ \A i \in 1..Len(file) : file[i][3]
        BY <1>1, <3>3
      <4>2. \A i \in 1..Len(file) : file[i] \in Lines
        BY <4>1, ElementOfSeq
      <4>3. \A l \in Lines : l[3] \in BOOLEAN
        BY DEF Lines
      <4> QED BY <4>1, <4>2, <4>3
    <3>7. pos \in Nat
      BY <1>1, TimesAssumption
    <3> HIDE DEF line, file
    <3>8. new \in Seq(Lines) /\ \A i \in 1..Len(new) : new[i][3] = TRUE
      BY <3>5, <3>6, <3>7, LinesStay
    <3> HIDE DEF new
    <3> QED BY <1>2, <3>1, <3>3, <3>8
  <2> QED BY <2>1, <2>2
<1>7. ASSUME RouterWorks \/ RouterCrash \/ Finished PROVE UNCHANGED reports
  BY <1>7 DEF RouterWorks, RouterCrash, Finished, written, vars
<1>8. ASSUME NEW p \in Pairs, Go(p) \/ ReceiverDone(p) PROVE UNCHANGED reports
  BY <1>8 DEF Go, ReceiverDone, written
<1>9. ASSUME NEW t \in Targets, Reap(t) PROVE UNCHANGED reports
  BY <1>9 DEF Reap, written
<1> QED BY <1>3, <1>5, <1>6, <1>7, <1>8, <1>9 DEF Next
-----------------------------------------------------------------------------
(* Types *)

\* rr and its counters.
LEMMA NextRRType ==
    ASSUME TypeOK, RRInv, Next
    PROVE  RRTypeOK' /\ pos' \in 0..MaxLines
<1>1. /\ rr \in {"off", "asleep", "halfway", "crashed"}
      /\ ticks \in 0..(Width - 1) /\ previous \in 0..(Width - 1)
      /\ usage \in 0..(Width - 1) /\ fresh \in 0..(Width - 1) /\ spent \in 0..(Width - 1)
      /\ pos \in 0..MaxLines /\ Width \in Nat /\ Width > 1 /\ MaxLines \in Nat
  BY WidthAssumption, TimesAssumption DEF TypeOK, RRTypeOK
<1>2. 0 \in 0..(Width - 1) /\ 0 \in 0..MaxLines
      /\ \A n \in Int : n % Width \in 0..(Width - 1)
  BY <1>1
<1>3. ASSUME NEW alive \in BOOLEAN,
             \/ NewProcess \/ Work(alive) \/ Watch(alive) \/ ReadUsage(alive)
             \/ ReadSize(alive) \/ RRCrash(alive) \/ RRStop \/ UNCHANGED rrVars
      PROVE  RRTypeOK'
  <2>1. CASE NewProcess
    BY <1>1, <1>2, <2>1 DEF NewProcess, RRTypeOK
  <2>2. CASE Work(alive)
    <3>1. fresh + 1 \in 0..(Width - 1) /\ (ticks + 1) % Width \in 0..(Width - 1)
      BY <1>1, <1>2, <2>2 DEF Work
    <3> QED BY <1>1, <2>2, <3>1 DEF Work, RRTypeOK
  <2>3. CASE Watch(alive)
    BY <1>1, <1>2, <2>3 DEF Watch, Reading, RRTypeOK
  <2>4. CASE ReadUsage(alive)
    <3>1. Reading(alive) \in 0..(Width - 1)
      BY <1>1, <1>2 DEF Reading
    <3>2. (Reading(alive) - previous) % Width \in 0..(Width - 1)
      BY <1>1, <1>2, <3>1
    <3> QED BY <1>1, <1>2, <2>4, <3>1, <3>2 DEF ReadUsage, RRTypeOK
  <2>5. CASE ReadSize(alive) \/ RRCrash(alive)
    BY <1>1, <2>5 DEF ReadSize, RRCrash, RRTypeOK
  <2>6. CASE RRStop
    BY <1>2, <2>6 DEF RRStop, RRTypeOK
  <2>7. CASE UNCHANGED rrVars
    BY <1>1, <2>7 DEF rrVars, RRTypeOK
  <2> QED BY <1>3, <2>1, <2>2, <2>3, <2>4, <2>5, <2>6, <2>7
<1>4. router \in BOOLEAN
  BY DEF TypeOK
<1>5. CASE Script
  <2>1. pos' = pos \/ pos' = 0
    BY <1>5, ScriptChanges DEF StartRR
  <2>2. NewProcess \/ Watch(router) \/ RRStop \/ UNCHANGED rrVars
    BY <1>5, ScriptChanges DEF StartRR, Stop
  <2> QED BY <1>1, <1>2, <1>3, <1>4, <2>1, <2>2
<1>6. CASE RRStep
  <2>1. ReadUsage(router) \/ RRCrash(router) \/ ReadSize(router)
    BY <1>6 DEF RRStep
  <2>2. pos' = pos \/ (pos' = pos + 1 /\ rr = "halfway")
    BY <1>6 DEF RRStep, ReadSize
  <2>3. pos' \in 0..MaxLines
    BY <1>1, <2>2 DEF RRInv
  <2> QED BY <1>3, <1>4, <2>1, <2>3
<1>7. CASE RouterWorks
  BY <1>1, <1>3, <1>4, <1>7 DEF RouterWorks, written
<1>8. ASSUME UNCHANGED rrVars, UNCHANGED pos PROVE RRTypeOK' /\ pos' \in 0..MaxLines
  BY <1>1, <1>3, <1>4, <1>8
<1>9. ASSUME RouterCrash \/ Finished PROVE UNCHANGED rrVars /\ UNCHANGED pos
  BY <1>9 DEF RouterCrash, Finished, written, vars
<1>10. ASSUME NEW p \in Pairs, Go(p) \/ ReceiverDone(p)
       PROVE  UNCHANGED rrVars /\ UNCHANGED pos
  BY <1>10 DEF Go, ReceiverDone, written
<1>11. ASSUME NEW t \in Targets, Reap(t) PROVE UNCHANGED rrVars /\ UNCHANGED pos
  BY <1>11 DEF Reap, written
<1> QED BY <1>5, <1>6, <1>7, <1>8, <1>9, <1>10, <1>11 DEF Next

\* router and crashes.
LEMMA NextRouterType ==
    ASSUME TypeOK, Next
    PROVE  router' \in BOOLEAN /\ crashes' \in 0..Crashes
<1>1. router \in BOOLEAN /\ crashes \in 0..Crashes /\ Crashes \in Nat
  BY TimesAssumption DEF TypeOK
<1>2. CASE Script
  BY <1>1, <1>2, ScriptChanges DEF Stop
<1>3. CASE RRStep \/ RouterWorks \/ Finished
  BY <1>1, <1>3 DEF RRStep, RouterWorks, Finished, vars
<1>4. CASE RouterCrash
  <2>1. crashes' = crashes + 1 /\ crashes < Crashes
    BY <1>4 DEF RouterCrash
  <2>2. crashes' \in 0..Crashes
    BY <1>1, <2>1
  <2>3. router' = FALSE
    BY <1>4 DEF RouterCrash
  <2> QED BY <2>2, <2>3
<1>5. ASSUME NEW p \in Pairs, Go(p) \/ ReceiverDone(p) PROVE UNCHANGED <<router, crashes>>
  BY <1>5 DEF Go, ReceiverDone
<1>6. ASSUME NEW t \in Targets, Reap(t)
      PROVE  router' = (router /\ t # "qdrouterd") /\ crashes' = crashes
  BY <1>6 DEF Reap
<1> QED BY <1>1, <1>2, <1>3, <1>4, <1>5, <1>6 DEF Next

LEMMA ScriptType ==
    ASSUME TypeOK, PlaceInv, PollInv, RRInv, QuietInv, RowsAreMeasured, Script
    PROVE  TypeOK'
<1>1. k \in 1..Len(Plan) /\ k' \in 1..(Len(Plan) + 1) /\ Running
  BY ScriptRuns, ScriptMoves
<1>2. Next
  BY DEF Next
<1>3. client' \in {"current", "earlier"} /\ start' \in BOOLEAN /\ found' \in BOOLEAN
  <2>1. client' = client
    BY ScriptChanges
  <2>2. start' = start \/ start' = TRUE \/ start' = FALSE
    BY ScriptChanges
  <2>3. found' = found \/ found' = Done
    BY ScriptChanges DEF Poll
  <2>4. Done \in BOOLEAN
    <3>1. Test = "router_1" => Done = (names[Plan[k].pairs] \in doneFiles)
      BY DEF Done, FileThere
    <3>2. Test # "router_1" => Done = (Cardinality(doneFiles) = Plan[k].pairs)
      BY DEF Done, AllThere
    <3>3. /\ (names[Plan[k].pairs] \in doneFiles) \in BOOLEAN
          /\ (Cardinality(doneFiles) = Plan[k].pairs) \in BOOLEAN
      OBVIOUS
    <3> QED BY <3>1, <3>2, <3>3, Zenon
  <2> QED BY <2>1, <2>2, <2>3, <2>4 DEF TypeOK
<1>4. verdict' \in {"none", "found", "missing"}
  BY ScriptChanges DEF TypeOK, Stop
<1>5. senders' \in [Pairs -> {"off", "failed", "waiting", "sending"}]
  <2>1. CASE pc = "senders"
    BY <2>1, SenderStarts
  <2>2. CASE pc # "senders"
    BY <2>2, ScriptChanges DEF TypeOK, Stop
  <2> QED BY <2>1, <2>2
<1>6. recv' \in [Pairs -> {"off", "running", "done", "killed"}]
  BY ScriptChanges DEF TypeOK, Stop, StartReceivers
<1>7. names' \in [Pairs -> Pids]
  <2>1. CASE pc = "receivers"
    <3>1. Named \in [Pairs -> Pids]
      BY <1>1, PlanType DEF Named, Pids
    <3>2. names' = Named \/ \E f \in doneFiles : names' = [Named EXCEPT ![Plan[k].pairs] = f]
      BY <2>1, ScriptChanges DEF StartReceivers
    <3> QED BY <3>1, <3>2 DEF TypeOK
  <2>2. CASE pc # "receivers"
    BY <2>2, ScriptChanges DEF TypeOK
  <2> QED BY <2>1, <2>2
<1>8. doneFiles' \subseteq Pids
  BY ScriptChanges DEF TypeOK
<1>9. reapers' \in [Targets -> 0..Len(Plan)]
  <2>1. k \in 0..Len(Plan) /\ 0 \in 0..Len(Plan)
    BY <1>1, PlanType
  <2> QED BY <2>1, ScriptChanges DEF TypeOK
<1> QED BY <1>1, <1>2, <1>3, <1>4, <1>5, <1>6, <1>7, <1>8, <1>9, ScriptPolls, NextReports,
           NextRRType, NextRouterType DEF TypeOK

LEMMA ProgramType ==
    ASSUME TypeOK, PlaceInv, RRInv, QuietInv, RowsAreMeasured, ProgramStep, Next
    PROVE  TypeOK'
<1>1. ProgramEffect
  BY ProgramChanges
<1>2. doneFiles' \subseteq Pids
  BY <1>1 DEF ProgramEffect, TypeOK
<1>3. /\ UNCHANGED <<client, k, names, start, clock, waits, found, verdict>>
      /\ senders' \in [Pairs -> {"off", "failed", "waiting", "sending"}]
      /\ recv' \in [Pairs -> {"off", "running", "done", "killed"}]
      /\ reapers' \in [Targets -> 0..Len(Plan)]
  BY <1>1 DEF ProgramEffect
<1> QED BY <1>2, <1>3, NextReports, NextRRType, NextRouterType DEF TypeOK
-----------------------------------------------------------------------------
(* Theorems *)

LEMMA InitStep == Init => IInv
<1> SUFFICES ASSUME Init PROVE IInv
  OBVIOUS
<1>1. /\ k = 1 /\ at = 1 /\ Len(Plan) \in Nat /\ Len(Plan) # 0
      /\ k \in 1..Len(Plan)
  <2>1. Len(Plan) # 0
    BY PlanAssumption, EmptySeq
  <2> QED BY <2>1, PlanType DEF Init
<1>2. Past = {}
  BY <1>1 DEF Past
<1>3. TypeOK
  <2>1. names \in [Pairs -> Pids]
    BY <1>1, PlanType DEF Init, Pids
  <2>2. 0 \in 0..WaitCount /\ 0 \in 0..MaxLines /\ 0 \in 0..Crashes /\ 0 \in 0..Len(Plan)
    BY <1>1, TimesAssumption
  <2>3. reports \in [Files -> Seq(Lines)]
    BY EmptySeq DEF Init
  <2>4. RRTypeOK
    BY WidthAssumption DEF Init, RRInit, RRTypeOK
  <2>5. k \in 1..(Len(Plan) + 1)
    BY <1>1
  <2> QED BY <2>1, <2>2, <2>3, <2>4, <2>5 DEF Init, TypeOK
<1>4. PlaceInv
  <2>1. Len(Scripts[Test]) \in Nat \ {0}
    BY <1>1, ScriptLengths DEF Test
  <2> QED BY <1>1, <2>1 DEF PlaceInv
<1>5. QuietInv /\ StartedInv /\ SignalInv /\ ReapersInv /\ PollInv
  BY <1>2 DEF Init, RRInit, QuietInv, StartedInv, SignalInv, ReapersInv, PollInv
<1>6. FilesInv /\ FoundInv
  BY <1>1, <1>2, PlanType DEF Init, FilesInv, FoundInv
<1>7. RRInv /\ RowsAreMeasured
  <2>1. \A f \in Files : Len(reports[f]) = 0
    BY EmptySeq DEF Init
  <2> QED BY <2>1 DEF Init, RRInit, RRInv, RowsAreMeasured
<1> QED BY <1>3, <1>4, <1>5, <1>6, <1>7 DEF IInv

LEMMA NextStep == IInv /\ [Next]_vars => IInv'
<1> SUFFICES ASSUME IInv, [Next]_vars PROVE IInv'
  OBVIOUS
<1>1. /\ TypeOK /\ PlaceInv /\ QuietInv /\ StartedInv /\ SignalInv /\ ReapersInv
      /\ PollInv /\ FilesInv /\ FoundInv /\ RRInv /\ RowsAreMeasured
  BY DEF IInv
<1>2. CASE Script
  <2>1. Next
    BY <1>2 DEF Next
  <2>2. TypeOK' /\ PlaceInv' /\ QuietInv' /\ StartedInv' /\ SignalInv'
    BY <1>1, <1>2, ScriptType, ScriptMoves, ScriptQuiet, ScriptStarted, ScriptSignal
  <2>3. ReapersInv' /\ PollInv' /\ FilesInv' /\ FoundInv'
    BY <1>1, <1>2, ScriptReapers, ScriptPolls, ScriptFiles, ScriptFound
  <2> QED BY <1>1, <2>1, <2>2, <2>3, NextRR, NextReports DEF IInv
<1>3. CASE ProgramStep
  <2>1. Next
    BY <1>3 DEF Next, ProgramStep
  <2>2. ProgramEffect
    BY <1>1, <1>3, ProgramChanges
  <2>3. PlaceInv'
    BY <1>1, <2>2 DEF ProgramEffect, PlaceInv, Test
  <2>4. TypeOK' /\ QuietInv' /\ SignalInv'
    BY <1>1, <1>3, <2>1, <2>2, ProgramType, ProgramQuiet, ProgramSignal
  <2>5. StartedInv'
    <3>1. k \in 1..Len(Plan) \/ Past = {}
      BY <1>1, PlanType DEF TypeOK, Past
    <3> QED BY <1>1, <2>2, <3>1, ProgramStarted
  <2>6. ReapersInv' /\ PollInv' /\ FilesInv' /\ FoundInv'
    BY <1>1, <2>2, ProgramReapers, ProgramPolls, ProgramFiles, ProgramFound
  <2> QED BY <1>1, <2>1, <2>3, <2>4, <2>5, <2>6, NextRR, NextReports DEF IInv
<1>4. CASE UNCHANGED vars
  <2> USE DEF vars, script, clients, signs, waiting, written, rrVars
  <2>1. Past' = Past /\ pc' = pc /\ Test' = Test /\ Mine' = Mine
    BY <1>4 DEF Past, pc, Test, Mine
  <2>2. TypeOK' /\ PlaceInv'
    BY <1>1, <1>4, <2>1 DEF TypeOK, PlaceInv, RRTypeOK
  <2>3. QuietInv' /\ StartedInv' /\ SignalInv' /\ ReapersInv' /\ PollInv'
    BY <1>1, <1>4, <2>1 DEF QuietInv, StartedInv, SignalInv, ReapersInv, PollInv
  <2>4. FilesInv' /\ FoundInv' /\ RRInv' /\ RowsAreMeasured'
    BY <1>1, <1>4, <2>1 DEF FilesInv, FoundInv, PidsTell, RRInv, RowsAreMeasured
  <2> QED BY <2>2, <2>3, <2>4 DEF IInv
<1> QED BY <1>2, <1>3, <1>4 DEF Next, ProgramStep, Finished

\* The inductive invariant holds in every reachable state of the tests.
THEOREM Invariance == Spec => []IInv
BY InitStep, NextStep, PTL DEF Spec

\* Every variable keeps its type; in particular the waiting loop never counts
\* below zero, for any wait_count.
THEOREM TypeCorrect == Spec => []TypeOK
<1>1. IInv => TypeOK
  BY DEF IInv
<1> QED BY <1>1, Invariance, PTL

\* When a script says that it has found all its receivers, they have all finished,
\* whatever done-files earlier tests have left, unless a pid comes back in a plan
\* with router_1, which removes no file and looks for a single one.
THEOREM VerdictsAreTrue ==
    ASSUME PidsTell
    PROVE  Spec => []VerdictIsTrue
<1>1. IInv => VerdictIsTrue
  <2> SUFFICES ASSUME IInv, k <= Len(Plan), verdict = "found"
               PROVE  \A p \in Mine : recv[p] = "done"
    BY DEF VerdictIsTrue
  <2>1. "check" \in Past /\ "stop" \notin Past /\ found
    BY DEF IInv, QuietInv, FoundInv
  <2>2. "wait" \in Past
    <3>1. Running
      BY PlanType DEF IInv, TypeOK, PlaceInv, Running
    <3>2. Test \in {"router_1", "router_soak", "header", "router_scale", "router_scale_2"}
      BY <3>1, PlanType DEF Running, Test, Scripts
    <3>3. Test = "router_1" => "wait" \in Past
      BY <2>1, <3>1, OrderRouter1
    <3>4. Test = "router_soak" => "wait" \in Past
      BY <2>1, <3>1, OrderSoak
    <3>5. Test = "router_scale" => "wait" \in Past
      BY <2>1, <3>1, OrderScale
    <3>6. Test # "header" /\ Test # "router_scale_2"
      BY <2>1, <3>1, OrderHeader, OrderScale2
    <3> QED BY <3>2, <3>3, <3>4, <3>5, <3>6
  <2> QED BY <2>1, <2>2 DEF IInv, FoundInv
<1> QED BY <1>1, Invariance, PTL

\* A reaper that is still asleep is one of the running test, in whatever order the
\* sizes are run and however long they take: the script kills them before its end.
THEOREM ReapersStrikeTheirOwn == Spec => []ReapersOutOfTheWay
<1>1. IInv => ReapersOutOfTheWay
  BY DEF IInv, ReapersInv, ReapersOutOfTheWay
<1> QED BY <1>1, Invariance, PTL

\* No sender of router_scale_2 sends before all pairs are there, though the start
\* signal of the size before is left in /tmp.
THEOREM SignalStartsAll == Spec => []StartTogether
<1>1. IInv => StartTogether
  <2> SUFFICES ASSUME IInv, k <= Len(Plan), Test = "router_scale_2",
                      NEW p \in Pairs, senders[p] = "sending"
               PROVE  \A q \in Mine : senders[q] # "off" /\ recv[q] # "off"
    BY DEF StartTogether
  <2>1. Running
    BY PlanType DEF IInv, TypeOK, PlaceInv, Running
  <2>2. (pc = "senders" \/ "senders" \in Past) /\ "stop" \notin Past
    BY DEF IInv, QuietInv
  <2>3. "signal" \in Past => "touch" \in Past
    BY DEF IInv, SignalInv
  <2>4. "senders" \in Past /\ "receivers" \in Past
    BY <2>1, <2>2, <2>3, OrderScale2
  <2> QED BY <2>2, <2>4 DEF IInv, StartedInv
<1> QED BY <1>1, Invariance, PTL

\* Every row that rr prints has the CPU ticks that the router used in its period: the
\* wrap of the counter cancels out, and once the router is gone no row is printed.
THEOREM RowsAreTrue == Spec => []RowsAreMeasured
<1>1. IInv => RowsAreMeasured
  BY DEF IInv
<1> QED BY <1>1, Invariance, PTL
=============================================================================
