---------------------------- MODULE AddressTester ----------------------------
(***************************************************************************)
(* The AddressTesters of lib/addresstester.cpp, each with its socket, its  *)
(* single-shot timer and what it has reported of its current test.  A slot *)
(* is an action.  A test is started when the one before is over (the       *)
(* header, line 34, forbids anything else).                                *)
(***************************************************************************)
EXTENDS Naturals, Sequences

CONSTANT Testers

VARIABLES
    socket,                 \* state of the QTcpSocket
    timer,                  \* the QTimer runs
    testingConnectivity,
    address,                \* null: what getFirstIP() gives for a host name
    verdicts,               \* connectivityTestFinished() in the current test
    lags                    \* lagTestFinished() in the current test

testVars == <<socket, timer, testingConnectivity, address, verdicts, lags>>

SocketStates == {"Unconnected", "Connecting", "Connected"}
Lags == {"latency", "LAG_TIMEOUT", "LAG_ERROR"}

TesterTypeOK ==
    /\ socket \in [Testers -> SocketStates]
    /\ timer \in [Testers -> BOOLEAN]
    /\ testingConnectivity \in [Testers -> BOOLEAN]
    /\ address \in [Testers -> {"null", "ip"}]
    /\ verdicts \in [Testers -> Seq(BOOLEAN)]
    /\ lags \in [Testers -> Seq(Lags)]

TesterInit ==
    /\ socket = [t \in Testers |-> "Unconnected"]
    /\ timer = [t \in Testers |-> FALSE]
    /\ testingConnectivity = [t \in Testers |-> FALSE]
    /\ address = [t \in Testers |-> "ip"]
    /\ verdicts = [t \in Testers |-> <<>>]
    /\ lags = [t \in Testers |-> <<>>]

(* What a slot leaves behind: the socket in state s, the timer running or  *)
(* not, and the reports vs and ls emitted.                                 *)
Reports(t, s, running, vs, ls) ==
    /\ socket' = [socket EXCEPT ![t] = s]
    /\ timer' = [timer EXCEPT ![t] = running]
    /\ verdicts' = [verdicts EXCEPT ![t] = vs]
    /\ lags' = [lags EXCEPT ![t] = ls]

StartTestThenTimer(t, connectivity, to) ==
    /\ socket[t] = "Unconnected"
    /\ testingConnectivity' = [testingConnectivity EXCEPT ![t] = connectivity]
    /\ address' = [address EXCEPT ![t] = to]
    /\ \/ Reports(t, "Connecting", TRUE, <<>>, <<>>)
       \/ /\ to = "ip"
          /\ Reports(t, IF connectivity THEN "Connected" ELSE "Unconnected",
                     TRUE, <<>>, <<"latency">>)
       \/ Reports(t, "Unconnected", TRUE, <<FALSE>>, <<"LAG_ERROR">>)

StartTestUntimed(t, connectivity, to) ==
    /\ socket[t] = "Unconnected"
    /\ testingConnectivity' = [testingConnectivity EXCEPT ![t] = connectivity]
    /\ address' = [address EXCEPT ![t] = to]
    /\ Reports(t, "Connecting", FALSE, <<>>, <<>>)

(* connectToServer(), after either kind of test has set its mode.  The     *)
(* timer is started first, since connectToHost() may succeed or fail       *)
(* before it returns and the slot then stops the timer.                    *)
StartTest(t, connectivity, to) ==
    /\ socket[t] = "Unconnected"
    /\ testingConnectivity' = [testingConnectivity EXCEPT ![t] = connectivity]
    /\ address' = [address EXCEPT ![t] = to]
    /\ \/ Reports(t, "Connecting", TRUE, <<>>, <<>>)
       \/ /\ to = "ip"
          /\ Reports(t, IF connectivity THEN "Connected" ELSE "Unconnected",
                     FALSE, <<>>, <<"latency">>)
       \/ Reports(t, "Unconnected", FALSE, <<FALSE>>, <<"LAG_ERROR">>)

startConnectivityTest(t, to) == StartTest(t, TRUE, to)
startLagTest(t) == StartTest(t, FALSE, address[t])

(* The request goes out in a connectivity test; otherwise all is known.    *)
onConnected(t) ==
    /\ socket[t] = "Connecting" /\ address[t] = "ip"
    /\ Reports(t, IF testingConnectivity[t] THEN "Connected" ELSE "Unconnected",
               FALSE, verdicts[t], Append(lags[t], "latency"))
    /\ UNCHANGED <<testingConnectivity, address>>

onSocketReadyReadNoAbort(t) ==
    /\ socket[t] = "Connected"
    /\ Reports(t, "Connected", timer[t], Append(verdicts[t], TRUE), lags[t])
    /\ UNCHANGED <<testingConnectivity, address>>

onSocketReadyRead(t) ==
    /\ socket[t] = "Connected"
    /\ Reports(t, "Unconnected", timer[t], Append(verdicts[t], TRUE), lags[t])
    /\ UNCHANGED <<testingConnectivity, address>>

(* The attempt fails, or the connection breaks or is closed by the server. *)
onSocketError(t) ==
    /\ socket[t] \in {"Connecting", "Connected"}
    /\ Reports(t, "Unconnected", FALSE,
               Append(verdicts[t], FALSE), Append(lags[t], "LAG_ERROR"))
    /\ UNCHANGED <<testingConnectivity, address>>

onTimeout(t) ==
    /\ timer[t]
    /\ Reports(t, "Unconnected", FALSE,
               Append(verdicts[t], FALSE), Append(lags[t], "LAG_TIMEOUT"))
    /\ UNCHANGED <<testingConnectivity, address>>

Slot(t) ==
    onConnected(t) \/ onSocketReadyRead(t) \/ onSocketError(t) \/ onTimeout(t)

-----------------------------------------------------------------------------
(* Properties.                                                             *)

Answered(t) == verdicts[t] # <<>>

(* The server has accepted, has not answered, and no timer runs any more.  *)
WaitsForEver(t) == socket[t] = "Connected" /\ ~timer[t]

(* A test reports its verdict once, and then it is over: the socket is     *)
(* closed and no timer is left to report again.  It reports one latency or *)
(* error; only a connectivity test may add an error to its latency, when   *)
(* the connection ends without an answer (addresstester.cpp:57-100).       *)
OneVerdict ==
    \A t \in Testers :
        /\ Len(verdicts[t]) <= 1
        /\ Answered(t) => socket[t] = "Unconnected"
        /\ timer[t] <=> socket[t] = "Connecting"
        /\ \/ Len(lags[t]) <= 1
           \/ testingConnectivity[t] /\ lags[t] = <<"latency", "LAG_ERROR">>
        /\ verdicts[t] = <<TRUE>> => testingConnectivity[t] /\ lags[t] = <<"latency">>
=============================================================================
