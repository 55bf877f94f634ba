---------------------------- MODULE ClientProofs ----------------------------
(***************************************************************************)
(* Proofs about Client.tla, for any number of starts, testers and ports: a *)
(* test reports once, and only the last proxy listens.  The inductive      *)
(* invariant says what each state of a tester's socket tells of its        *)
(* reports, and that Controllers still to be made are untouched.           *)
(***************************************************************************)
EXTENDS Client, TLAPS

-----------------------------------------------------------------------------
(* The testers.                                                            *)

(* What one tester looks like at any moment.                               *)
Consistent(s, active, connectivity, vs, ls) ==
    \/ /\ s = "Connecting" /\ active /\ vs = <<>> /\ ls = <<>>
    \/ /\ s = "Connected" /\ ~active /\ connectivity
       /\ vs = <<>> /\ ls = <<"latency">>
    \/ /\ s = "Unconnected" /\ ~active
       /\ \/ vs = <<>> /\ ls \in {<<>>, <<"latency">>}
          \/ vs = <<TRUE>> /\ connectivity /\ ls = <<"latency">>
          \/ vs = <<FALSE>> /\ ls \in {<<"LAG_ERROR">>, <<"LAG_TIMEOUT">>}
          \/ vs = <<FALSE>> /\ connectivity /\ ls = <<"latency", "LAG_ERROR">>

TestInv ==
    /\ TesterTypeOK
    /\ \A t \in Testers :
          Consistent(socket[t], timer[t], testingConnectivity[t], verdicts[t], lags[t])

(* A slot of tester t or a new test of it: the others stay as they are.    *)
OnlyOf(t) ==
    \A u \in Testers \ {t} :
        /\ socket'[u] = socket[u] /\ timer'[u] = timer[u]
        /\ testingConnectivity'[u] = testingConnectivity[u]
        /\ verdicts'[u] = verdicts[u] /\ lags'[u] = lags[u]

LEMMA ReportsKeep ==
    ASSUME TestInv, NEW t \in Testers,
           NEW s \in SocketStates, NEW r \in BOOLEAN,
           NEW vs \in Seq(BOOLEAN), NEW ls \in Seq(Lags), Reports(t, s, r, vs, ls),
           testingConnectivity' \in [Testers -> BOOLEAN],
           \A u \in Testers \ {t} : testingConnectivity'[u] = testingConnectivity[u],
           address' \in [Testers -> {"null", "ip"}],
           Consistent(s, r, testingConnectivity'[t], vs, ls)
    PROVE  TestInv' /\ OnlyOf(t) /\ verdicts'[t] = vs
<1>1. /\ socket' \in [Testers -> SocketStates] /\ timer' \in [Testers -> BOOLEAN]
      /\ verdicts' \in [Testers -> Seq(BOOLEAN)] /\ lags' \in [Testers -> Seq(Lags)]
  BY DEF Reports, TestInv, TesterTypeOK
<1>2. socket'[t] = s /\ timer'[t] = r /\ verdicts'[t] = vs /\ lags'[t] = ls
  BY DEF Reports, TestInv, TesterTypeOK
<1>3. OnlyOf(t)
  BY DEF Reports, TestInv, TesterTypeOK, OnlyOf
<1>4. ASSUME NEW u \in Testers
      PROVE  Consistent(socket'[u], timer'[u], testingConnectivity'[u], verdicts'[u], lags'[u])
  <2>1. CASE u = t
    BY <1>2, <2>1
  <2>2. CASE u # t
    BY <1>3, <2>2 DEF OnlyOf, TestInv
  <2> QED BY <2>1, <2>2
<1> QED BY <1>1, <1>2, <1>3, <1>4 DEF TestInv, TesterTypeOK

LEMMA StartTestKeeps ==
    ASSUME TestInv, NEW t \in Testers, NEW connectivity \in BOOLEAN,
           NEW addr \in {"ip", "null"}, StartTest(t, connectivity, addr)
    PROVE  TestInv' /\ OnlyOf(t)
<1>1. /\ testingConnectivity' \in [Testers -> BOOLEAN]
      /\ testingConnectivity'[t] = connectivity
      /\ \A u \in Testers \ {t} : testingConnectivity'[u] = testingConnectivity[u]
      /\ address' \in [Testers -> {"null", "ip"}]
  BY DEF StartTest, TestInv, TesterTypeOK
<1>2. <<>> \in Seq(BOOLEAN) /\ <<FALSE>> \in Seq(BOOLEAN)
      /\ <<>> \in Seq(Lags) /\ <<"latency">> \in Seq(Lags) /\ <<"LAG_ERROR">> \in Seq(Lags)
  BY DEF Lags
<1>3. CASE Reports(t, "Connecting", TRUE, <<>>, <<>>)
  <2>1. Consistent("Connecting", TRUE, connectivity, <<>>, <<>>)
    BY DEF Consistent
  <2>2. "Connecting" \in SocketStates
    BY DEF SocketStates
  <2> QED BY <1>1, <1>2, <1>3, <2>1, <2>2, ReportsKeep
<1>4. CASE Reports(t, IF connectivity THEN "Connected" ELSE "Unconnected",
                   FALSE, <<>>, <<"latency">>)
  <2> DEFINE s == IF connectivity THEN "Connected" ELSE "Unconnected"
  <2>1. Consistent(s, FALSE, connectivity, <<>>, <<"latency">>)
    BY DEF Consistent
  <2>2. s \in SocketStates /\ Reports(t, s, FALSE, <<>>, <<"latency">>)
    BY <1>4 DEF SocketStates
  <2> HIDE DEF s
  <2> QED BY <1>1, <1>2, <2>1, <2>2, ReportsKeep
<1>5. CASE Reports(t, "Unconnected", FALSE, <<FALSE>>, <<"LAG_ERROR">>)
  <2>1. Consistent("Unconnected", FALSE, connectivity, <<FALSE>>, <<"LAG_ERROR">>)
    BY DEF Consistent
  <2>2. "Unconnected" \in SocketStates
    BY DEF SocketStates
  <2> QED BY <1>1, <1>2, <1>5, <2>1, <2>2, ReportsKeep
<1> QED BY <1>3, <1>4, <1>5 DEF StartTest

(* One more report.                                                        *)
LEMMA Appended ==
    ASSUME NEW S, NEW s \in Seq(S), NEW e \in S
    PROVE  /\ Append(s, e) \in Seq(S) /\ Len(Append(s, e)) = Len(s) + 1
           /\ \A i \in 1 .. Len(s) : Append(s, e)[i] = s[i]
           /\ Append(s, e)[Len(s) + 1] = e
  OBVIOUS

LEMMA SlotKeeps ==
    ASSUME TestInv, NEW t \in Testers, Slot(t)
    PROVE  TestInv' /\ OnlyOf(t)
<1> DEFINE tc == testingConnectivity[t]
           vs == verdicts[t]
           ls == lags[t]
<1>1. /\ Consistent(socket[t], timer[t], tc, vs, ls)
      /\ tc \in BOOLEAN /\ vs \in Seq(BOOLEAN) /\ ls \in Seq(Lags)
      /\ socket[t] \in SocketStates /\ timer[t] \in BOOLEAN
  BY DEF TestInv, TesterTypeOK
<1>2. /\ testingConnectivity' \in [Testers -> BOOLEAN] /\ testingConnectivity'[t] = tc
      /\ \A u \in Testers \ {t} : testingConnectivity'[u] = testingConnectivity[u]
      /\ address' \in [Testers -> {"null", "ip"}]
  BY DEF Slot, onConnected, onSocketReadyRead, onSocketError, onTimeout, TestInv, TesterTypeOK
<1>3. "Connected" \in SocketStates /\ "Unconnected" \in SocketStates
  BY DEF SocketStates
<1>4. /\ Append(vs, TRUE) \in Seq(BOOLEAN) /\ Append(vs, FALSE) \in Seq(BOOLEAN)
      /\ \A l \in Lags : Append(ls, l) \in Seq(Lags)
      /\ "latency" \in Lags /\ "LAG_ERROR" \in Lags /\ "LAG_TIMEOUT" \in Lags
  BY <1>1 DEF Lags
<1> HIDE DEF tc, vs, ls
<1>5. CASE onConnected(t)
  <2> DEFINE s == IF tc THEN "Connected" ELSE "Unconnected"
  <2>1. s \in SocketStates /\ Reports(t, s, FALSE, vs, Append(ls, "latency"))
    BY <1>5 DEF onConnected, SocketStates, tc, vs, ls
  <2>2. Consistent(s, FALSE, tc, vs, Append(ls, "latency"))
    <3>1. vs = <<>> /\ ls = <<>>
      BY <1>1, <1>5 DEF onConnected, Consistent
    <3>2. Append(ls, "latency") = <<"latency">>
      BY <3>1
    <3> QED BY <1>1, <3>1, <3>2 DEF Consistent
  <2> HIDE DEF s
  <2> QED BY <1>1, <1>2, <1>4, <2>1, <2>2, ReportsKeep
<1>6. CASE onSocketReadyRead(t)
  <2>1. Reports(t, "Unconnected", timer[t], Append(vs, TRUE), ls)
    BY <1>6 DEF onSocketReadyRead, vs, ls
  <2>2. Consistent("Unconnected", timer[t], tc, Append(vs, TRUE), ls)
    <3>1. vs = <<>> /\ ls = <<"latency">> /\ tc /\ ~timer[t]
      BY <1>1, <1>6 DEF onSocketReadyRead, Consistent
    <3>2. Append(vs, TRUE) = <<TRUE>>
      BY <3>1
    <3> QED BY <3>1, <3>2 DEF Consistent
  <2>3. timer[t] \in BOOLEAN
    BY <1>1
  <2> DEFINE r == timer[t]
             ws == Append(vs, TRUE)
  <2>4. r \in BOOLEAN /\ ws \in Seq(BOOLEAN) /\ ls \in Seq(Lags)
    BY <1>1, <1>4
  <2> HIDE DEF r, ws
  <2>5. Reports(t, "Unconnected", r, ws, ls) /\ Consistent("Unconnected", r, tc, ws, ls)
    BY <2>1, <2>2 DEF r, ws
  <2> QED BY <1>2, <1>3, <2>4, <2>5, ReportsKeep
<1>7. CASE onSocketError(t)
  <2>1. Reports(t, "Unconnected", FALSE, Append(vs, FALSE), Append(ls, "LAG_ERROR"))
    BY <1>7 DEF onSocketError, vs, ls
  <2>2. Consistent("Unconnected", FALSE, tc, Append(vs, FALSE), Append(ls, "LAG_ERROR"))
    <3>1. vs = <<>> /\ (ls = <<>> \/ (tc /\ ls = <<"latency">>))
      <4>1. socket[t] # "Unconnected"
        BY <1>7 DEF onSocketError
      <4>2. CASE socket[t] = "Connecting"
        BY <1>1, <4>2 DEF Consistent
      <4>3. CASE socket[t] = "Connected"
        BY <1>1, <4>3 DEF Consistent
      <4> QED BY <1>1, <4>1, <4>2, <4>3 DEF SocketStates
    <3>2. /\ Append(vs, FALSE) = <<FALSE>>
          /\ ls = <<>> => Append(ls, "LAG_ERROR") = <<"LAG_ERROR">>
          /\ ls = <<"latency">> => Append(ls, "LAG_ERROR") = <<"latency", "LAG_ERROR">>
      <4>1. Append(<<>>, FALSE) = <<FALSE>> /\ Append(<<>>, "LAG_ERROR") = <<"LAG_ERROR">>
        OBVIOUS
      <4>2. Append(<<"latency">>, "LAG_ERROR") = <<"latency", "LAG_ERROR">>
        <5> DEFINE x == Append(<<"latency">>, "LAG_ERROR")
                   y == <<"latency", "LAG_ERROR">>
        <5>1. /\ x \in Seq(Lags) /\ Len(x) = 2 /\ x[1] = "latency" /\ x[2] = "LAG_ERROR"
          <6> DEFINE z == <<"latency">>
          <6>1. z \in Seq(Lags) /\ Len(z) = 1 /\ z[1] = "latency" /\ "LAG_ERROR" \in Lags
            BY DEF Lags
          <6> HIDE DEF z
          <6>2. /\ Append(z, "LAG_ERROR") \in Seq(Lags) /\ Len(Append(z, "LAG_ERROR")) = 2
                /\ Append(z, "LAG_ERROR")[1] = "latency"
                /\ Append(z, "LAG_ERROR")[2] = "LAG_ERROR"
            <7> DEFINE e == "LAG_ERROR"
            <7>1. z \in Seq(Lags) /\ e \in Lags
              BY <6>1
            <7> HIDE DEF e
            <7>2. /\ Append(z, e) \in Seq(Lags) /\ Len(Append(z, e)) = Len(z) + 1
                  /\ \A i \in 1 .. Len(z) : Append(z, e)[i] = z[i]
                  /\ Append(z, e)[Len(z) + 1] = e
              BY <7>1, Appended
            <7>3. Len(z) = 1 /\ z[1] = "latency"
              BY <6>1
            <7> QED BY <7>2, <7>3 DEF e
          <6> QED BY <6>2 DEF z
        <5>2. /\ y \in Seq(Lags) /\ Len(y) = 2 /\ y[1] = "latency" /\ y[2] = "LAG_ERROR"
          BY DEF Lags
        <5> HIDE DEF x, y
        <5>3. \A i \in 1 .. 2 : x[i] = y[i]
          BY <5>1, <5>2
        <5>4. x = y
          BY <5>1, <5>2, <5>3
        <5> QED BY <5>4 DEF x, y
      <4>3. ls = <<>> => Append(ls, "LAG_ERROR") = <<"LAG_ERROR">>
        BY <4>1
      <4>4. ls = <<"latency">> => Append(ls, "LAG_ERROR") = <<"latency", "LAG_ERROR">>
        BY <4>2
      <4>5. Append(vs, FALSE) = <<FALSE>>
        BY <3>1, <4>1
      <4> QED BY <4>3, <4>4, <4>5
    <3>3. CASE ls = <<>>
      BY <3>2, <3>3 DEF Consistent
    <3>4. CASE tc /\ ls = <<"latency">>
      BY <3>2, <3>4 DEF Consistent
    <3> QED BY <3>1, <3>3, <3>4
  <2> QED BY <1>1, <1>2, <1>3, <1>4, <2>1, <2>2, ReportsKeep
<1>8. CASE onTimeout(t)
  <2>1. Reports(t, "Unconnected", FALSE, Append(vs, FALSE), Append(ls, "LAG_TIMEOUT"))
    BY <1>8 DEF onTimeout, vs, ls
  <2>2. Consistent("Unconnected", FALSE, tc, Append(vs, FALSE), Append(ls, "LAG_TIMEOUT"))
    <3>1. vs = <<>> /\ ls = <<>>
      BY <1>1, <1>8 DEF onTimeout, Consistent
    <3>2. Append(vs, FALSE) = <<FALSE>> /\ Append(ls, "LAG_TIMEOUT") = <<"LAG_TIMEOUT">>
      BY <3>1
    <3> QED BY <3>2 DEF Consistent
  <2> QED BY <1>1, <1>2, <1>3, <1>4, <2>1, <2>2, ReportsKeep
<1> QED BY <1>5, <1>6, <1>7, <1>8 DEF Slot

LEMMA TestInvImplies == ASSUME TestInv PROVE OneVerdict
<1> SUFFICES ASSUME NEW t \in Testers
             PROVE  /\ Len(verdicts[t]) <= 1
                    /\ Answered(t) => socket[t] = "Unconnected"
                    /\ timer[t] <=> socket[t] = "Connecting"
                    /\ \/ Len(lags[t]) <= 1
                       \/ testingConnectivity[t] /\ lags[t] = <<"latency", "LAG_ERROR">>
                    /\ verdicts[t] = <<TRUE>> =>
                          testingConnectivity[t] /\ lags[t] = <<"latency">>
  BY DEF OneVerdict
<1>1. Consistent(socket[t], timer[t], testingConnectivity[t], verdicts[t], lags[t])
  BY DEF TestInv
<1> DEFINE s == socket[t]
           r == timer[t]
           tc == testingConnectivity[t]
           vs == verdicts[t]
           ls == lags[t]
<1>2. timer[t] \in BOOLEAN /\ testingConnectivity[t] \in BOOLEAN
  BY DEF TestInv, TesterTypeOK
<1> HIDE DEF s, r, tc, vs, ls
<1>3. Consistent(s, r, tc, vs, ls) /\ r \in BOOLEAN /\ tc \in BOOLEAN
  BY <1>1, <1>2 DEF s, r, tc, vs, ls
<1>4. /\ vs \in {<<>>, <<TRUE>>, <<FALSE>>}
      /\ vs # <<>> => s = "Unconnected"
      /\ \/ ls \in {<<>>, <<"latency">>, <<"LAG_ERROR">>, <<"LAG_TIMEOUT">>}
         \/ tc /\ ls = <<"latency", "LAG_ERROR">>
      /\ vs = <<TRUE>> => tc /\ ls = <<"latency">>
  <2>1. <<TRUE>> # <<FALSE>> /\ <<TRUE>> # <<>>
    <3>1. <<TRUE>>[1] # <<FALSE>>[1] /\ Len(<<TRUE>>) # Len(<<>>)
      OBVIOUS
    <3> QED BY <3>1
  <2> QED BY <1>3, <2>1, Zenon DEF Consistent
<1>6. /\ Len(<<>>) <= 1 /\ Len(<<TRUE>>) <= 1 /\ Len(<<FALSE>>) <= 1
      /\ Len(<<"latency">>) <= 1 /\ Len(<<"LAG_ERROR">>) <= 1 /\ Len(<<"LAG_TIMEOUT">>) <= 1
  OBVIOUS
<1>5. r <=> s = "Connecting"
  BY <1>3 DEF Consistent
<1> QED BY <1>4, <1>5, <1>6, Zenon DEF s, r, tc, vs, ls, Answered

-----------------------------------------------------------------------------
(* The client around them.                                                 *)

ProxyInv ==
    /\ starts \in 0 .. MaxStarts
    /\ port \in [Controllers -> Ports \cup {0}]
    /\ doomed \subseteq 1 .. starts - 1
    /\ running \in BOOLEAN /\ debug \in BOOLEAN
    /\ \A c \in Controllers : c > starts => port[c] = 0
    /\ OnlyTheLastProxy
    /\ starts = 0 => ~running

PrintInv ==
    /\ printed \in [Controllers -> Nat]
    /\ deleted \subseteq Controllers
    /\ \A t \in Controllers : printed[t] = Len(verdicts[t])

IInv == TestInv /\ ProxyInv /\ PrintInv

LEMMA InvImplies == ASSUME IInv PROVE TypeOK /\ OneVerdict /\ OnlyTheLastProxy
<1>1. OneVerdict
  BY TestInvImplies DEF IInv
<1>2. printed \in [Controllers -> 0 .. 1]
  <2>1. \A t \in Controllers : printed[t] \in Nat /\ printed[t] <= 1
    BY <1>1, ClientAssumption DEF IInv, PrintInv, OneVerdict, Controllers
  <2> QED BY <2>1 DEF IInv, PrintInv
<1>3. doomed \subseteq Controllers
  BY ClientAssumption DEF IInv, ProxyInv, Controllers
<1> QED BY <1>1, <1>2, <1>3 DEF IInv, TestInv, ProxyInv, PrintInv, TypeOK

LEMMA InitInv == Init => IInv
<1> SUFFICES ASSUME Init PROVE IInv
  OBVIOUS
<1>1. TesterTypeOK
  BY DEF Init, TesterInit, TesterTypeOK, SocketStates
<1>2. ASSUME NEW t \in Testers
      PROVE  Consistent(socket[t], timer[t], testingConnectivity[t], verdicts[t], lags[t])
  BY DEF Init, TesterInit, Consistent
<1>3. ProxyInv
  <2>1. /\ starts = 0 /\ port = [c \in Controllers |-> 0] /\ doomed = {}
        /\ running = FALSE /\ debug \in BOOLEAN
    BY DEF Init
  <2>2. /\ port \in [Controllers -> Ports \cup {0}]
        /\ \A c \in Controllers : port[c] = 0
    BY <2>1
  <2>3. 0 \in 0 .. MaxStarts
    BY ClientAssumption
  <2>4. OnlyTheLastProxy
    BY <2>1, <2>2 DEF OnlyTheLastProxy
  <2> QED BY <2>1, <2>2, <2>3, <2>4 DEF ProxyInv
<1>4. PrintInv
  BY ClientAssumption DEF Init, TesterInit, PrintInv, Controllers
<1> QED BY <1>1, <1>2, <1>3, <1>4 DEF IInv, TestInv

(* start() tests with a tester of its own and leaves at most one proxy     *)
(* that is not doomed.                                                     *)
LEMMA startKeeps == ASSUME IInv, NEW isServer \in BOOLEAN, start(isServer) PROVE IInv'
<1>1. /\ starts \in Nat /\ MaxStarts \in Nat /\ starts < MaxStarts /\ starts' = starts + 1
      /\ starts' \in Controllers /\ starts' \in Testers
  BY ClientAssumption DEF start, IInv, ProxyInv, Controllers
<1>2. TestInv' /\ \A u \in Testers \ {starts'} : verdicts'[u] = verdicts[u]
  <2>1. CASE isServer
    <3>1. UNCHANGED testVars
      BY <2>1 DEF start
    <3> QED BY <3>1 DEF IInv, TestInv, TesterTypeOK, testVars
  <2>2. CASE ~isServer
    <3>1. PICK addr \in {"ip", "null"} : startConnectivityTest(starts', addr)
      BY <2>2 DEF start
    <3>2. StartTest(starts', TRUE, addr)
      BY <3>1 DEF startConnectivityTest
    <3> DEFINE t == starts'
    <3>3. t \in Testers /\ StartTest(t, TRUE, addr)
      BY <1>1, <3>2
    <3> HIDE DEF t
    <3>4. TestInv' /\ OnlyOf(t)
      BY <3>3, StartTestKeeps DEF IInv
    <3> QED BY <3>4 DEF OnlyOf, t
  <2> QED BY <2>1, <2>2
<1>3. PrintInv'
  <2>1. printed' = [printed EXCEPT ![starts'] = Len(verdicts'[starts'])] /\ deleted' = deleted
    BY DEF start
  <2>2. Len(verdicts'[starts']) \in Nat
    BY <1>1, <1>2 DEF TestInv, TesterTypeOK
  <2>3. printed' \in [Controllers -> Nat]
    BY <2>1, <2>2 DEF IInv, PrintInv
  <2>4. ASSUME NEW t \in Controllers PROVE printed'[t] = Len(verdicts'[t])
    <3>1. t \in Testers
      BY ClientAssumption DEF Controllers
    <3>2. CASE t = starts'
      BY <2>1, <3>2 DEF IInv, PrintInv
    <3>3. CASE t # starts'
      BY <1>2, <2>1, <3>1, <3>3 DEF IInv, PrintInv
    <3> QED BY <3>2, <3>3
  <2> QED BY <2>1, <2>3, <2>4 DEF IInv, PrintInv
<1>4. ProxyInv'
  <2>1. /\ doomed' = IF starts > 0 THEN doomed \cup {starts} ELSE doomed
        /\ debug' = debug /\ \E p \in Ports : Listens(p)
    BY DEF start, lc
  <2>2. PICK p \in Ports :
          \/ port' = [port EXCEPT ![starts'] = 0] /\ running' = FALSE
          \/ /\ \A c \in Controllers : port[c] # p
             /\ port' = [port EXCEPT ![starts'] = p] /\ running' \in BOOLEAN
    BY <2>1 DEF Listens
  <2>3. p # 0
    BY ClientAssumption
  <2>4. /\ port \in [Controllers -> Ports \cup {0}] /\ doomed \subseteq 1 .. starts - 1
        /\ debug \in BOOLEAN
        /\ \A c \in Controllers : c > starts => port[c] = 0
        /\ \A c \in Controllers : port[c] # 0 => c = starts \/ c \in doomed
    BY DEF IInv, ProxyInv, OnlyTheLastProxy, lc
  <2>5. PICK q \in Ports \cup {0} :
          /\ port' = [port EXCEPT ![starts'] = q]
          /\ running' \in BOOLEAN /\ (running' => q # 0)
    BY <2>2, <2>3
  <2>6. /\ port' \in [Controllers -> Ports \cup {0}] /\ port'[starts'] = q
        /\ \A c \in Controllers : c # starts' => port'[c] = port[c]
    BY <1>1, <2>4, <2>5
  <2>7. doomed' \subseteq 1 .. starts' - 1
    BY <1>1, <2>1, <2>4
  <2>8. \A c \in Controllers : c > starts' => port'[c] = 0
    BY <1>1, <2>4, <2>6 DEF Controllers
  <2>9. ASSUME NEW c \in Controllers, port'[c] # 0 PROVE c = starts' \/ c \in doomed'
    <3>1. CASE c # starts'
      <4>1. port[c] # 0 /\ c \in Nat /\ c > 0
        BY <2>6, <2>9, <3>1 DEF Controllers
      <4>2. c = starts \/ c \in doomed
        BY <2>4, <4>1
      <4> QED BY <1>1, <2>1, <4>1, <4>2
    <3> QED BY <3>1
  <2>10. running' => port'[starts'] # 0 /\ starts' \notin doomed'
    BY <1>1, <2>5, <2>6, <2>7
  <2> QED BY <1>1, <2>1, <2>4, <2>5, <2>6, <2>7, <2>8, <2>9, <2>10
      DEF ProxyInv, OnlyTheLastProxy, lc, Controllers
<1> QED BY <1>2, <1>3, <1>4 DEF IInv

LEMMA DeleteControllerKeeps == ASSUME IInv, DeleteController PROVE IInv'
<1>1. PICK c \in doomed : doomed' = doomed \ {c} /\ port' = [port EXCEPT ![c] = 0]
  BY DEF DeleteController
<1>2. UNCHANGED <<testVars, starts, running, printed, deleted, debug>>
  BY DEF DeleteController
<1>3. TestInv' /\ PrintInv'
  BY <1>2 DEF IInv, TestInv, TesterTypeOK, PrintInv, testVars
<1>4. ProxyInv'
  <2>1. /\ starts \in Nat /\ c \in 1 .. starts - 1 /\ c \in Controllers
        /\ port \in [Controllers -> Ports \cup {0}]
    BY ClientAssumption DEF IInv, ProxyInv, Controllers
  <2>2. /\ port' \in [Controllers -> Ports \cup {0}] /\ port'[c] = 0
        /\ \A d \in Controllers : d # c => port'[d] = port[d]
    BY <1>1, <2>1
  <2>3. \A d \in Controllers : d > starts => port'[d] = 0
    BY <2>1, <2>2 DEF IInv, ProxyInv
  <2>4. OnlyTheLastProxy'
    <3>1. \A d \in Controllers : port'[d] # 0 => d = starts \/ d \in doomed'
      BY <1>1, <2>2 DEF IInv, ProxyInv, OnlyTheLastProxy, lc
    <3>2. running => port'[starts] # 0 /\ starts \notin doomed'
      <4> SUFFICES ASSUME running PROVE port'[starts] # 0 /\ starts \notin doomed'
        OBVIOUS
      <4>1. port[starts] # 0 /\ starts \notin doomed
        BY DEF IInv, ProxyInv, OnlyTheLastProxy, lc
      <4>2. starts \in Controllers /\ starts # c
        BY <2>1, ClientAssumption DEF IInv, ProxyInv, Controllers
      <4> QED BY <1>1, <2>2, <4>1, <4>2
    <3> QED BY <1>2, <3>1, <3>2 DEF OnlyTheLastProxy, lc, Controllers
  <2> QED BY <1>1, <1>2, <2>2, <2>3, <2>4 DEF IInv, ProxyInv, Controllers
<1> QED BY <1>3, <1>4 DEF IInv

LEMMA TesterSlotKeeps == ASSUME IInv, NEW t \in Controllers, TesterSlot(t) PROVE IInv'
<1>1. /\ Slot(t)
      /\ printed' = [printed EXCEPT ![t] = @ + (Len(verdicts'[t]) - Len(verdicts[t]))]
      /\ UNCHANGED <<starts, port, doomed, running, deleted, debug>>
  BY DEF TesterSlot
<1>2. t \in Testers /\ TestInv
  BY ClientAssumption DEF IInv, Controllers
<1>3. TestInv' /\ OnlyOf(t)
  BY <1>1, <1>2, SlotKeeps
<1>4. PrintInv'
  <2>1. Len(verdicts'[t]) \in Nat /\ Len(verdicts[t]) \in Nat /\ printed[t] = Len(verdicts[t])
    BY <1>2, <1>3 DEF TestInv, TesterTypeOK, IInv, PrintInv
  <2>2. printed' = [printed EXCEPT ![t] = Len(verdicts'[t])]
    BY <1>1, <2>1 DEF IInv, PrintInv
  <2>3. printed' \in [Controllers -> Nat]
    BY <2>1, <2>2 DEF IInv, PrintInv
  <2>4. ASSUME NEW u \in Controllers PROVE printed'[u] = Len(verdicts'[u])
    <3>1. u \in Testers
      BY ClientAssumption DEF Controllers
    <3>2. CASE u = t
      BY <2>2, <3>2 DEF IInv, PrintInv
    <3>3. CASE u # t
      BY <1>3, <2>2, <3>1, <3>3 DEF IInv, PrintInv, OnlyOf
    <3> QED BY <3>2, <3>3
  <2> QED BY <1>1, <2>3, <2>4 DEF IInv, PrintInv
<1>5. ProxyInv'
  BY <1>1 DEF IInv, ProxyInv, OnlyTheLastProxy, Controllers, lc
<1> QED BY <1>3, <1>4, <1>5 DEF IInv

LEMMA DeleteTesterKeeps == ASSUME IInv, DeleteTester PROVE IInv'
<1>1. UNCHANGED <<testVars, starts, port, doomed, running, printed, debug>>
      /\ deleted' \subseteq Controllers
  BY DEF DeleteTester, IInv, PrintInv
<1>2. TestInv' /\ PrintInv'
  BY <1>1 DEF IInv, TestInv, TesterTypeOK, PrintInv, testVars
<1>3. ProxyInv'
  BY <1>1 DEF IInv, ProxyInv, OnlyTheLastProxy, Controllers, lc
<1> QED BY <1>2, <1>3 DEF IInv

(* Other testers of an application are none of the client's.               *)
LEMMA AppKeeps == ASSUME IInv, NEW t \in AppTesters, AppTests(t) \/ AppSlot(t) PROVE IInv'
<1>1. t \in Testers /\ t \notin Controllers /\ TestInv
  BY ClientAssumption DEF IInv, Controllers
<1>2. UNCHANGED clientVars
  BY DEF AppTests, AppSlot
<1>3. TestInv' /\ OnlyOf(t)
  <2>1. CASE startConnectivityTest(t, "ip")
    BY <1>1, <2>1, StartTestKeeps DEF startConnectivityTest
  <2>2. CASE startLagTest(t)
    <3>1. address[t] \in {"ip", "null"}
      BY <1>1 DEF TestInv, TesterTypeOK
    <3> QED BY <1>1, <2>2, <3>1, StartTestKeeps DEF startLagTest
  <2>3. CASE Slot(t)
    BY <1>1, <2>3, SlotKeeps
  <2> QED BY <2>1, <2>2, <2>3 DEF AppTests, AppSlot
<1>4. PrintInv'
  <2>1. \A u \in Controllers : u \in Testers \ {t}
    BY <1>1, ClientAssumption DEF Controllers
  <2> QED BY <1>2, <1>3, <2>1 DEF IInv, PrintInv, OnlyOf, clientVars, Controllers
<1>5. ProxyInv'
  BY <1>2 DEF IInv, ProxyInv, OnlyTheLastProxy, Controllers, lc, clientVars
<1> QED BY <1>3, <1>4, <1>5 DEF IInv

LEMMA StepInv == IInv /\ [Next]_vars => IInv'
<1> SUFFICES ASSUME IInv, [Next]_vars PROVE IInv'
  OBVIOUS
<1>1. CASE UNCHANGED vars
  <2>1. TestInv' /\ PrintInv'
    BY <1>1 DEF IInv, TestInv, TesterTypeOK, PrintInv, vars, testVars, clientVars
  <2>2. ProxyInv'
    BY <1>1 DEF IInv, ProxyInv, OnlyTheLastProxy, Controllers, lc, vars, clientVars
  <2> QED BY <2>1, <2>2 DEF IInv
<1>2. CASE Next
  BY <1>2, startKeeps, DeleteControllerKeeps, TesterSlotKeeps, DeleteTesterKeeps, AppKeeps
  DEF Next
<1> QED BY <1>1, <1>2

LEMMA Invariant == Init /\ [][Next]_vars => []IInv
  BY InitInv, StepInv, PTL

-----------------------------------------------------------------------------
(* The theorems.                                                           *)

(* Types of every variable; the client prints one verdict of a tester.     *)
THEOREM ClientTypeCorrect == Spec => []TypeOK
  BY Invariant, InvImplies, PTL DEF Spec

(* A tester reports one verdict and then is at rest, whichever of the      *)
(* answer, an error and the timer comes first (addresstester.cpp:31-101).  *)
THEOREM VerdictsOnce == Spec => []OneVerdict
  BY Invariant, InvImplies, PTL DEF Spec

(* A Controller other than the last one listens only until the event loop  *)
(* deletes it (client.cpp:73-90).                                          *)
THEOREM LastProxyListens == Spec => []OnlyTheLastProxy
  BY Invariant, InvImplies, PTL DEF Spec
=============================================================================
