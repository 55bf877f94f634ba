--------------------------- MODULE TcpRelayProofs ---------------------------
(***************************************************************************)
(* What TcpRelay keeps for every number of segments, in both modes: proofs *)
(* of the type invariant (with the bound on finished()), of the agreement  *)
(* between stage and sockets, of the integrity of the upstream direction,  *)
(* of its being a (safe) ordered channel, and of what the client receives. *)
(***************************************************************************)
EXTENDS TcpRelay, SequenceTheorems, TLAPS

(* Where the segments taken from the client are.                           *)
UpstreamHeld ==
    /\ \/ toRemote = <<>> /\ dataToWrite = Up!Stream(nUp)
       \/ toRemote = Up!Stream(nUp) /\ dataToWrite = <<>>
       \/ finished > 0 /\ toRemote = <<>> /\ dataToWrite = <<>>
    /\ stage \in {"INIT", "ADDR", "UDP_ASSOC"} => nUp = 0
    /\ stage \in {"DNS", "CONNECTING"} => toRemote = <<>>
    /\ lookup # "none" => toRemote = <<>>
    /\ stage = "STREAM" => dataToWrite = <<>>
    /\ IsLocal /\ finished = 0 => (enCipher <=> nUp > 0)

(* How often finished() may still be emitted: close() runs to its end once *)
(* from an open relay and once more from a relay a late result revived.    *)
FinishedSoFar ==
    LET soon == finished + Count(local = "Closing")
    IN  /\ stage = "DESTROYED" /\ lookup # "none" => soon <= 2
        /\ finished > 0 /\ stage # "DESTROYED" => soon <= 2
        /\ remote = "Abandoned" => finished <= 3
        /\ remote \in {"Abandoned", "Closing"} => stage = "DESTROYED"
        /\ local \in {"Connected", "Closing", "Unconnected"}

SocketsOK ==
    /\ stage \in Stages /\ local \in SocketStates /\ remote \in SocketStates
    /\ lookup \in {"none", "resolving", "resolved", "failed"}
    /\ finished \in 0 .. MaxFinished
    /\ StageMatchesSockets /\ FinishedSoFar

DataOK ==
    /\ dataToWrite \in Seq([n : Nat, form : Forms])
    /\ toRemote \in Seq([n : Nat, form : Forms])
    /\ toLocal \in Seq([what : {"accept", "reject", "reply", "udpReply", "data"},
                        n : Nat, form : Forms])
    /\ enCipher \in BOOLEAN /\ timer \in BOOLEAN
    /\ deCipher \in {"none", "lost", "aligned", "misaligned"}
    /\ deleted \in BOOLEAN /\ banned \in BOOLEAN /\ wellFormed \in BOOLEAN
    /\ nUp \in 0 .. MaxUp /\ nDown \in 0 .. MaxDown

(* How a step looks to the channel: nothing but perhaps a close, all that   *)
(* was held leaves, or a segment is taken and held, or taken and passed on. *)
UpstreamMove ==
    \/ UNCHANGED <<nUp, toRemote>> /\ finished' >= finished
    \/ /\ nUp' = nUp /\ finished' = finished
       /\ toRemote = <<>> /\ toRemote' = Up!Stream(nUp)
    \/ /\ finished = 0 /\ nUp' = nUp + 1
       /\ \/ toRemote = <<>> /\ toRemote' = <<>>
          \/ finished' = 0 /\ toRemote' = Up!Stream(nUp')

(* The inductive invariant.                                                *)
IInv == SocketsOK /\ DataOK /\ UpstreamHeld

-----------------------------------------------------------------------------
(* Streams: the empty one, and one segment more.                           *)
LEMMA StreamFacts ==
    ASSUME NEW k \in Nat
    PROVE  /\ Up!Stream(0) = <<>>
           /\ Up!Stream(k) \in Seq([n : Nat, form : Forms])
           /\ Append(Up!Stream(k), Up!Segment(k + 1)) = Up!Stream(k + 1)
           /\ Up!Stream(k) = <<>> => k = 0
<1>1. \A i \in Nat : Up!Segment(i) \in [n : Nat, form : Forms]
  BY DEF Up!Segment, Forms
<1>2. Up!Stream(0) = <<>> /\ Up!Stream(k) \in Seq([n : Nat, form : Forms])
  BY <1>1 DEF Up!Stream
<1>3. Append(Up!Stream(k), Up!Segment(k + 1)) = Up!Stream(k + 1)
  BY <1>1, <1>2, SMTT(30) DEF Up!Stream
<1>4. Len(Up!Stream(k)) = k
  BY DEF Up!Stream
<1> QED
  BY <1>2, <1>3, <1>4

(* What close() does to the sockets, to stage and to the number of         *)
(* finished().                                                             *)
LEMMA CloseEffect ==
    ASSUME NEW s, NEW l \in SocketStates \cup {"Failed"},
           NEW r \in SocketStates \cup {"Failed"},
           finished \in Nat, Close(s, l, r)
    PROVE  /\ stage' = "DESTROYED" /\ finished' \in Nat
           /\ local' \in SocketStates /\ remote' \in SocketStates
           /\ l = "Failed" => local' = "Unconnected"
           /\ r = "Failed" => remote' = "Unconnected"
           /\ l \in {"Unconnected", "Closing"} => local' = l
           /\ r \in {"Unconnected", "Closing", "Abandoned"} => remote' = r
           /\ s = "DESTROYED" =>
                /\ finished' = finished
                /\ l # "Failed" => local' = l
                /\ r # "Failed" => remote' = r
           /\ s # "DESTROYED" =>
                /\ l = "Connected" => local' \in {"Unconnected", "Closing"}
                /\ r = "Connected" => remote' \in {"Unconnected", "Closing"}
                /\ r = "Connecting" => remote' = "Abandoned"
                /\ finished' > finished /\ finished' <= finished + 3
                /\ r \notin {"Connected", "Failed"} => finished' <= finished + 2
                /\ l \notin {"Connected", "Failed"} => finished' <= finished + 2
                /\ local' = "Closing" => finished' <= finished + 2
                /\ r \notin {"Connected", "Failed"} /\ l \notin {"Connected", "Failed"}
                     => finished' = finished + 1
                /\ r \notin {"Connected", "Failed"} /\ local' = "Closing"
                     => finished' = finished + 1
<1>1. CASE s = "DESTROYED"
  BY <1>1 DEF Close, SocketStates
<1>2. CASE s # "DESTROYED"
  <2>1. PICK dl \in DrainedNow(l, toLocal'), dr \in DrainedNow(r, toRemote') :
            /\ stage' = "DESTROYED"
            /\ local' = ClosedSocket(l, dl) /\ remote' = ClosedSocket(r, dr)
            /\ finished' = finished + 1 + Count(dl) + Count(dr)
    BY <1>2 DEF Close
  <2>2. /\ dl \in BOOLEAN /\ l \notin {"Connected", "Failed"} => ~dl
        /\ dr \in BOOLEAN /\ r \notin {"Connected", "Failed"} => ~dr
    BY DEF DrainedNow
  <2>3. /\ Count(dl) \in {0, 1} /\ (~dl => Count(dl) = 0)
        /\ Count(dr) \in {0, 1} /\ (~dr => Count(dr) = 0)
    BY <2>2 DEF Count
  <2>4. /\ local' \in SocketStates
        /\ l = "Failed" => local' = "Unconnected"
        /\ l \in {"Unconnected", "Closing"} => local' = l
        /\ l = "Connected" => local' \in {"Unconnected", "Closing"}
        /\ local' = "Closing" => ~dl
    BY <2>1, <2>2 DEF ClosedSocket, SocketStates
  <2>5. /\ remote' \in SocketStates
        /\ r = "Failed" => remote' = "Unconnected"
        /\ r \in {"Unconnected", "Closing", "Abandoned"} => remote' = r
        /\ r = "Connected" => remote' \in {"Unconnected", "Closing"}
        /\ r = "Connecting" => remote' = "Abandoned"
    BY <2>1, <2>2 DEF ClosedSocket, SocketStates
  <2>6. PICK a \in {0, 1}, b \in {0, 1} :
            /\ finished' = finished + 1 + a + b
            /\ l \notin {"Connected", "Failed"} \/ local' = "Closing" => a = 0
            /\ r \notin {"Connected", "Failed"} => b = 0
    BY <2>1, <2>2, <2>3, <2>4
  <2>7. /\ finished' \in Nat /\ finished' > finished /\ finished' <= finished + 3
        /\ r \notin {"Connected", "Failed"} => finished' <= finished + 2
        /\ l \notin {"Connected", "Failed"} => finished' <= finished + 2
        /\ local' = "Closing" => finished' <= finished + 2
        /\ r \notin {"Connected", "Failed"} /\ l \notin {"Connected", "Failed"}
             => finished' = finished + 1
        /\ r \notin {"Connected", "Failed"} /\ local' = "Closing"
             => finished' = finished + 1
    BY <2>6
  <2> QED
    BY <1>2, <2>1, <2>4, <2>5, <2>7
<1> QED
  BY <1>1, <1>2

-----------------------------------------------------------------------------
(* close() from any slot, on any combination of socket states Qt can call  *)
(* it with: the sockets keep agreeing with stage, and finished() with its  *)
(* bound.                                                                  *)
LEMMA CloseFromHere ==
    ASSUME SocketsOK, NEW l, NEW r,
           \/ l = local
           \/ l = "Failed" /\ local \in {"Connected", "Closing"}
           \/ l = "Unconnected" /\ local = "Closing",
           \/ r = remote
           \/ r = "Failed" /\ remote \in {"Connected", "Closing"}
           \/ r = "Unconnected" /\ remote \in {"Connecting", "Abandoned", "Closing"},
           lookup' \in {lookup, "none"},
           Close(stage, l, r)
    PROVE  SocketsOK' /\ stage' = "DESTROYED" /\ finished' > 0 /\ finished' >= finished
<1>1. /\ l \in SocketStates \cup {"Failed"} /\ r \in SocketStates \cup {"Failed"}
      /\ finished \in Nat
  BY DEF SocketsOK, SocketStates, MaxFinished
<1>2. CASE stage = "DESTROYED"
  <2>1. /\ stage' = "DESTROYED" /\ finished' = finished
        /\ local' \in SocketStates /\ local' \in {local, "Unconnected"}
        /\ remote' \in SocketStates /\ remote' \in {remote, "Unconnected"}
    BY <1>1, <1>2, CloseEffect DEF SocketStates
  <2> QED
    BY <1>1, <1>2, <2>1 DEF SocketsOK, StageMatchesSockets, FinishedSoFar,
       MaxFinished, Count, Stages, SocketStates
<1>3. CASE stage # "DESTROYED"
  <2>1. CASE finished = 0
    BY <1>1, <1>3, <2>1, CloseEffect DEF SocketsOK, StageMatchesSockets, FinishedSoFar,
       MaxFinished, Count, Stages, SocketStates
  <2>2. CASE finished > 0
    BY <1>1, <1>3, <2>2, CloseEffect DEF SocketsOK, StageMatchesSockets, FinishedSoFar,
       MaxFinished, Count, Stages, SocketStates
  <2> QED
    BY <1>1, <2>1, <2>2
<1> QED
  BY <1>2, <1>3

(* connectToHost(): every outcome, from the request's handler (no lookup)  *)
(* or from a lookup's result, even one that comes after close().           *)
LEMMA ConnectEffect ==
    ASSUME SocketsOK, NEW held, ConnectToHost(held),
           remote = "Unconnected", lookup' = "none",
           stage \in {"INIT", "ADDR"} \/ lookup # "none"
    PROVE  /\ SocketsOK' /\ finished' >= finished
           /\ \/ stage' = "CONNECTING" /\ finished' = finished /\ Hold(held)
              \/ stage' = "STREAM" /\ finished' = finished /\ Flush(held)
              \/ stage' = "DESTROYED" /\ finished' > 0 /\ Hold(held)
<1>1. CASE /\ stage' = "CONNECTING" /\ remote' = "Connecting"
           /\ Hold(held) /\ UNCHANGED <<local, finished>>
  BY <1>1 DEF SocketsOK, StageMatchesSockets, FinishedSoFar, MaxFinished, Count,
     Stages, SocketStates
<1>2. CASE /\ stage' = "STREAM" /\ remote' = "Connected"
           /\ Flush(held) /\ UNCHANGED <<local, finished>>
  BY <1>2 DEF SocketsOK, StageMatchesSockets, FinishedSoFar, MaxFinished, Count,
     Stages, SocketStates
<1>3. CASE Hold(held) /\ Close("CONNECTING", local, "Unconnected")
  <2>1. local \in SocketStates \cup {"Failed"} /\ finished \in Nat
    BY DEF SocketsOK, MaxFinished
  <2>2. /\ stage' = "DESTROYED" /\ finished' \in Nat /\ finished' > finished
        /\ local' \in SocketStates /\ remote' = "Unconnected"
        /\ finished' <= finished + 2
        /\ local \notin {"Connected", "Failed"} => finished' = finished + 1
        /\ local = "Connected" => local' \in {"Unconnected", "Closing"}
        /\ local \in {"Unconnected", "Closing"} => local' = local
    BY <1>3, <2>1, CloseEffect DEF SocketStates
  <2> QED
    BY <1>3, <2>1, <2>2 DEF SocketsOK, StageMatchesSockets, FinishedSoFar,
       MaxFinished, Count, Stages, SocketStates
<1> QED
  BY <1>1, <1>2, <1>3 DEF ConnectToHost

(* lookUp(): the same outcomes, or a lookup under way.                     *)
LEMMA LookUpEffect ==
    ASSUME SocketsOK, NEW held, LookUp(held),
           stage \in {"INIT", "ADDR"}, finished = 0
    PROVE  /\ SocketsOK'
           /\ \/ stage' = "CONNECTING" /\ finished' = 0 /\ Hold(held)
              \/ stage' = "STREAM" /\ finished' = 0 /\ Flush(held) /\ lookup' = "none"
              \/ stage' = "DNS" /\ finished' = 0 /\ Hold(held)
              \/ stage' = "DESTROYED" /\ finished' > 0 /\ Hold(held)
<1>1. lookup = "none" /\ remote = "Unconnected"
  BY DEF SocketsOK, StageMatchesSockets, FinishedSoFar, SocketStates
<1>2. CASE ConnectToHost(held) /\ UNCHANGED lookup
  BY <1>1, <1>2, ConnectEffect
<1>3. CASE /\ stage' = "DNS" /\ lookup' = "resolving"
           /\ Hold(held) /\ UNCHANGED <<local, remote, finished>>
  BY <1>1, <1>3 DEF SocketsOK, StageMatchesSockets, FinishedSoFar, MaxFinished,
     Count, Stages, SocketStates
<1> QED
  BY <1>2, <1>3 DEF LookUp

-----------------------------------------------------------------------------
(* The slots that take nothing from the client.                            *)

LEMMA JustCloseKeeps ==
    ASSUME IInv, NEW l, NEW r,
           \/ l = local
           \/ l = "Failed" /\ local \in {"Connected", "Closing"}
           \/ l = "Unconnected" /\ local = "Closing",
           \/ r = remote
           \/ r = "Failed" /\ remote \in {"Connected", "Closing"}
           \/ r = "Unconnected" /\ remote \in {"Connecting", "Abandoned", "Closing"},
           UNCHANGED <<upstream, services, deCipher, nDown, deleted, wellFormed>>,
           timer' \in BOOLEAN,
           Close(stage, l, r)
    PROVE  IInv' /\ UpstreamMove
<1>1. SocketsOK' /\ stage' = "DESTROYED" /\ finished' > 0 /\ finished' >= finished
  BY CloseFromHere DEF IInv, services
<1>2. DataOK'
  BY DEF IInv, DataOK, upstream, services
<1>3. UpstreamHeld'
  BY <1>1 DEF IInv, UpstreamHeld, upstream, services, Up!Stream, Up!Segment
<1> QED
  BY <1>1, <1>2, <1>3 DEF IInv, UpstreamMove, upstream

LEMMA HeldOrNothing ==
    ASSUME IInv, toRemote = <<>>
    PROVE  dataToWrite \in {<<>>, Up!Stream(nUp)}
BY DEF IInv, UpstreamHeld

LEMMA RemoteConnectedKeeps ==
    ASSUME IInv, OnRemoteConnected
    PROVE  IInv' /\ UpstreamMove
<1> USE DEF IInv
<1>1. UNCHANGED <<nUp, services, others>>
  BY DEF OnRemoteConnected
<1>2. CASE /\ remote = "Connecting"
           /\ stage' = "STREAM" /\ remote' = "Connected" /\ Flush(dataToWrite)
           /\ UNCHANGED <<local, finished>>
  <2>1. DataOK'
    BY <1>1, <1>2 DEF DataOK, services, others, Flush
  <2>2. SocketsOK'
    BY <1>1, <1>2 DEF SocketsOK, StageMatchesSockets, FinishedSoFar, MaxFinished,
       Count, Stages, SocketStates, services
  <2>3. toRemote = <<>> /\ stage = "CONNECTING" /\ lookup = "none"
    BY <1>2 DEF UpstreamHeld, SocketsOK, StageMatchesSockets
  <2>4. toRemote' = dataToWrite /\ dataToWrite' = <<>>
    BY <1>2, <2>3 DEF Flush, DataOK
  <2>5. UpstreamHeld'
    BY <1>1, <1>2, <2>3, <2>4 DEF UpstreamHeld, services, Up!Stream, Up!Segment
  <2>6. UpstreamMove
    BY <1>1, <1>2, <2>3, <2>4, HeldOrNothing DEF UpstreamMove, SocketsOK, MaxFinished
  <2> QED
    BY <2>1, <2>2, <2>5, <2>6
<1>3. CASE /\ remote = "Abandoned"
           /\ dataToWrite' = <<>> /\ UNCHANGED toRemote
           /\ Close("STREAM", local, "Unconnected")
  <2>1. DataOK'
    BY <1>1, <1>3 DEF DataOK, services, others
  <2>2. /\ stage = "DESTROYED" /\ finished > 0 /\ finished <= 3 /\ lookup = "none"
        /\ local \in {"Unconnected", "Closing"} /\ finished \in Nat
    BY <1>3 DEF SocketsOK, StageMatchesSockets, FinishedSoFar, MaxFinished, SocketStates
  <2>3. /\ stage' = "DESTROYED" /\ finished' = finished + 1
        /\ local' = local /\ remote' = "Unconnected"
    BY <1>3, <2>2, CloseEffect DEF SocketStates
  <2>4. SocketsOK'
    BY <1>1, <2>2, <2>3 DEF SocketsOK, StageMatchesSockets, FinishedSoFar,
       MaxFinished, Count, Stages, SocketStates, services
  <2>5. UpstreamHeld'
    BY <1>1, <1>3, <2>2, <2>3 DEF UpstreamHeld, services, Up!Stream, Up!Segment
  <2>6. UpstreamMove
    BY <1>1, <1>3, <2>2, <2>3 DEF UpstreamMove
  <2> QED
    BY <2>1, <2>4, <2>5, <2>6
<1> QED
  BY <1>2, <1>3 DEF OnRemoteConnected

LEMMA DNSResolvedKeeps ==
    ASSUME IInv, OnDNSResolved
    PROVE  IInv' /\ UpstreamMove
<1> USE DEF IInv
<1>1. /\ UNCHANGED <<nUp, toLocal, enCipher, banned, others>>
      /\ lookup # "none" /\ lookup' = "none"
      /\ remote = "Unconnected" /\ toRemote = <<>>
  BY DEF OnDNSResolved, LookedUp, SocketsOK, StageMatchesSockets, UpstreamHeld
<1>2. Flush(dataToWrite) => toRemote' = dataToWrite /\ dataToWrite' = <<>>
  BY <1>1 DEF Flush, DataOK
<1>3. CASE ConnectToHost(dataToWrite)
  <2>1. /\ SocketsOK' /\ finished' >= finished
        /\ \/ stage' = "CONNECTING" /\ finished' = finished /\ Hold(dataToWrite)
           \/ stage' = "STREAM" /\ finished' = finished /\ Flush(dataToWrite)
           \/ stage' = "DESTROYED" /\ finished' > 0 /\ Hold(dataToWrite)
    BY <1>1, <1>3, ConnectEffect
  <2>2. DataOK'
    BY <1>1, <1>2, <2>1 DEF DataOK, Hold, others
  <2>3. finished \in Nat /\ finished' \in Nat
    BY <2>1 DEF SocketsOK, MaxFinished
  <2>4. UpstreamHeld'
    <3>1. CASE stage' = "STREAM" /\ finished' = finished /\ Flush(dataToWrite)
      BY <1>1, <1>2, <3>1 DEF UpstreamHeld, Up!Stream, Up!Segment
    <3>2. CASE stage' \in {"CONNECTING", "DESTROYED"} /\ Hold(dataToWrite)
      BY <1>1, <2>1, <2>3, <3>2 DEF UpstreamHeld, Hold, Up!Stream, Up!Segment
    <3> QED
      BY <2>1, <3>1, <3>2
  <2>5. UpstreamMove
    BY <1>1, <1>2, <2>1, HeldOrNothing DEF UpstreamMove, Hold, SocketsOK, MaxFinished
  <2> QED
    BY <2>1, <2>2, <2>4, <2>5
<1>4. CASE Hold(dataToWrite) /\ Close(stage, local, remote)
  <2>1. /\ SocketsOK' /\ stage' = "DESTROYED"
        /\ finished' > 0 /\ finished' >= finished
    BY <1>1, <1>4, CloseFromHere
  <2>2. DataOK'
    BY <1>1, <1>4 DEF DataOK, Hold, others
  <2>3. UpstreamHeld'
    BY <1>1, <1>4, <2>1 DEF UpstreamHeld, Hold, Up!Stream, Up!Segment
  <2> QED
    BY <1>1, <1>4, <2>1, <2>2, <2>3 DEF UpstreamMove, Hold
<1> QED
  BY <1>3, <1>4 DEF OnDNSResolved

-----------------------------------------------------------------------------
(* What the client sends.                                                  *)

(* The next segment, encrypted or not, is the one the channel owes.        *)
LEMMA NextSegment ==
    ASSUME IInv, finished = 0
    PROVE  /\ ForRemote(nUp + 1) = Up!Segment(nUp + 1)
           /\ Append(Up!Stream(nUp), ForRemote(nUp + 1)) = Up!Stream(nUp + 1)
           /\ nUp \in Nat /\ ForRemote(nUp + 1) \in [n : Nat, form : Forms]
<1>1. nUp \in Nat /\ (IsLocal => (enCipher <=> nUp > 0))
  BY RelayAssumption DEF IInv, DataOK, UpstreamHeld
<1>2. ForRemote(nUp + 1) = Up!Segment(nUp + 1)
  BY <1>1 DEF ForRemote, Encrypt, Plain, Up!Segment
<1>3. Up!Segment(nUp + 1) \in [n : Nat, form : Forms]
  BY <1>1 DEF Up!Segment, Forms
<1> QED
  BY <1>1, <1>2, <1>3, StreamFacts

LEMMA StageAndLookup ==
    ASSUME IInv
    PROVE  stage = "STREAM" => lookup = "none"
BY DEF IInv, SocketsOK, StageMatchesSockets

LEMMA LocalBranchKeeps ==
    ASSUME IInv, local = "Connected",
           UNCHANGED <<nDown, deleted, wellFormed>>, timer' \in BOOLEAN,
           deCipher' \in {"none", "lost", "aligned", "misaligned"},
           LocalStream \/ LocalGreeting \/ LocalHold \/ HandleStageAddr \/ LocalIgnored
    PROVE  IInv' /\ UpstreamMove
<1>1. finished = 0 /\ nUp \in Nat /\ finished \in Nat
  BY NextSegment DEF IInv, SocketsOK, StageMatchesSockets
<1>2. CASE LocalStream
  <2>1. stage = "STREAM" /\ remote = "Connected" /\ nUp < MaxUp /\ nUp' = nUp + 1
    BY <1>2 DEF LocalStream, TakeUp, IInv, SocketsOK, StageMatchesSockets
  <2>2. SocketsOK'
    BY <1>2 DEF LocalStream, sockets, IInv, SocketsOK, StageMatchesSockets, FinishedSoFar
  <2>3. toRemote' = Append(toRemote, ForRemote(nUp + 1)) /\ UNCHANGED dataToWrite
    BY <1>2, <2>1 DEF LocalStream
  <2>4. dataToWrite = <<>> /\ toRemote = Up!Stream(nUp)
    BY <1>1, <2>1, StreamFacts DEF IInv, UpstreamHeld
  <2>5. DataOK'
    <3>1. enCipher' \in BOOLEAN /\ UNCHANGED <<toLocal, banned>>
      BY <1>2 DEF LocalStream, IInv, DataOK
    <3>2. nUp' \in 0 .. MaxUp
      BY <1>1, <2>1, RelayAssumption
    <3> QED
      BY <1>1, <2>3, <3>1, <3>2, NextSegment DEF IInv, DataOK
  <2>6. toRemote' = Up!Stream(nUp') /\ Up!Stream(nUp)' = Up!Stream(nUp')
    BY <1>1, <2>1, <2>3, <2>4, NextSegment DEF Up!Stream, Up!Segment
  <2>7. (IsLocal => enCipher') /\ nUp' > 0
    BY <1>1, <1>2, <2>1 DEF LocalStream, IInv, DataOK
  <2>8. UNCHANGED <<stage, finished, lookup>>
    BY <1>2 DEF LocalStream, sockets
  <2>9. UpstreamHeld'
    BY <1>1, <2>1, <2>3, <2>4, <2>6, <2>7, <2>8, StageAndLookup DEF UpstreamHeld, IInv
  <2> QED
    BY <1>1, <2>1, <2>2, <2>5, <2>6, <2>8, <2>9 DEF IInv, UpstreamMove
<1>3. CASE LocalHold
  <2>1. stage \in {"DNS", "CONNECTING"} /\ nUp < MaxUp /\ nUp' = nUp + 1
    BY <1>3 DEF LocalHold, TakeUp
  <2>2. SocketsOK'
    BY <1>3 DEF LocalHold, sockets, IInv, SocketsOK, StageMatchesSockets, FinishedSoFar
  <2>3. dataToWrite' = Append(dataToWrite, ForRemote(nUp + 1)) /\ UNCHANGED toRemote
    BY <1>3, <2>1 DEF LocalHold, Hold
  <2>4. dataToWrite = Up!Stream(nUp) /\ toRemote = <<>>
    BY <1>1, <2>1, StreamFacts DEF IInv, UpstreamHeld
  <2>5. DataOK'
    <3>1. enCipher' \in BOOLEAN /\ UNCHANGED <<toLocal, banned>>
      BY <1>3 DEF LocalHold, IInv, DataOK
    <3>2. nUp' \in 0 .. MaxUp
      BY <1>1, <2>1, RelayAssumption
    <3> QED
      BY <1>1, <2>3, <3>1, <3>2, NextSegment DEF IInv, DataOK
  <2>6. dataToWrite' = Up!Stream(nUp') /\ Up!Stream(nUp)' = Up!Stream(nUp')
    BY <1>1, <2>1, <2>3, <2>4, NextSegment DEF Up!Stream, Up!Segment
  <2>7. (IsLocal => enCipher') /\ nUp' > 0
    BY <1>1, <1>3, <2>1 DEF LocalHold, IInv, DataOK
  <2>8. UNCHANGED <<stage, finished, lookup>>
    BY <1>3 DEF LocalHold, sockets
  <2>9. UpstreamHeld'
    BY <1>1, <2>1, <2>3, <2>4, <2>6, <2>7, <2>8, StageAndLookup DEF UpstreamHeld, IInv
  <2> QED
    BY <1>1, <2>1, <2>2, <2>3, <2>4, <2>5, <2>9 DEF IInv, UpstreamMove
<1>4. ASSUME LocalGreeting \/ (IsLocal /\ stage = "ADDR" /\ RequestUdpAssociate)
      PROVE  IInv' /\ UpstreamMove
  <2>1. /\ stage \in {"INIT", "ADDR"} /\ stage' \in {"ADDR", "UDP_ASSOC"}
        /\ UNCHANGED <<upstream, local, remote, finished, enCipher, lookup, banned>>
        /\ \E what \in {"accept", "reject", "udpReply"} : Answer(what)
    BY <1>4 DEF LocalGreeting, RequestUdpAssociate
  <2>2. SocketsOK'
    BY <1>1, <2>1 DEF IInv, SocketsOK, StageMatchesSockets, FinishedSoFar, Stages
  <2>3. DataOK'
    BY <2>1 DEF IInv, DataOK, Answer, Write, Plain, Forms, upstream
  <2>4. UpstreamHeld'
    BY <1>1, <2>1 DEF IInv, UpstreamHeld, upstream, Up!Stream, Up!Segment
  <2> QED
    BY <1>1, <2>1, <2>2, <2>3, <2>4 DEF IInv, UpstreamMove, upstream
<1>5. ASSUME stage \in {"INIT", "ADDR"}, RequestRefused \/ HeaderBad
      PROVE  IInv' /\ UpstreamMove
  <2>1. UNCHANGED <<upstream, toLocal, enCipher, lookup>> /\ Close(stage, local, remote)
        /\ banned' \in BOOLEAN
    BY <1>5, RelayAssumption DEF RequestRefused, HeaderBad, services, IInv, DataOK
  <2>2. /\ SocketsOK' /\ stage' = "DESTROYED"
        /\ finished' > 0 /\ finished' >= finished
    BY <2>1, CloseFromHere DEF IInv
  <2>3. DataOK'
    BY <2>1 DEF IInv, DataOK, upstream
  <2>4. UpstreamHeld'
    BY <2>1, <2>2 DEF IInv, UpstreamHeld, upstream, Up!Stream, Up!Segment
  <2> QED
    BY <2>1, <2>2, <2>3, <2>4 DEF IInv, UpstreamMove, upstream
<1>6. ASSUME stage \in {"INIT", "ADDR"}, IsLocal => RequestConnect, ~IsLocal => HeaderOk
      PROVE  IInv' /\ UpstreamMove
  <2>1. nUp = 0 /\ dataToWrite = <<>> /\ toRemote = <<>> /\ (IsLocal => ~enCipher)
    BY <1>1, <1>6, StreamFacts DEF IInv, UpstreamHeld
  <2>2. PICK held :
          /\ LookUp(held)
          /\ \/ held = <<>> /\ nUp' = 0 /\ ~IsLocal
             \/ held = Append(<<>>, ForRemote(1)) /\ nUp' = 1 /\ nUp < MaxUp
          /\ enCipher' \in BOOLEAN /\ (IsLocal => enCipher') /\ UNCHANGED banned
          /\ toLocal' = toLocal \/ Answer("reply")
    <3>1. CASE IsLocal
      BY <1>6, <2>1, <3>1 DEF RequestConnect, TakeUp, ForRemote
    <3>2. CASE ~IsLocal
      BY <1>6, <2>1, <3>2 DEF HeaderOk, TakeUp, IInv, DataOK
    <3> QED
      BY <3>1, <3>2, RelayAssumption
  <2>3. held = Up!Stream(nUp') /\ nUp' \in 0 .. MaxUp /\ nUp' \in Nat
    <3>1. Up!Stream(0) = <<>> /\ Append(Up!Stream(0), ForRemote(1)) = Up!Stream(1)
      BY <1>1, <2>1, NextSegment, StreamFacts
    <3> QED
      BY <2>1, <2>2, <3>1, RelayAssumption
  <2>4. /\ SocketsOK'
        /\ \/ stage' = "CONNECTING" /\ finished' = 0 /\ Hold(held)
           \/ stage' = "STREAM" /\ finished' = 0 /\ Flush(held) /\ lookup' = "none"
           \/ stage' = "DNS" /\ finished' = 0 /\ Hold(held)
           \/ stage' = "DESTROYED" /\ finished' > 0 /\ Hold(held)
    BY <1>1, <1>6, <2>2, LookUpEffect DEF IInv
  <2>5. held \in Seq([n : Nat, form : Forms]) /\ Up!Stream(nUp)' = Up!Stream(nUp')
    BY <2>3, StreamFacts DEF Up!Stream, Up!Segment
  <2>6. \/ stage' # "STREAM" /\ dataToWrite' = held /\ toRemote' = <<>>
        \/ stage' = "STREAM" /\ dataToWrite' = <<>> /\ toRemote' = held
    BY <2>1, <2>4, <2>5 DEF Hold, Flush
  <2>7. DataOK'
    <3>1. toLocal' \in Seq([what : {"accept", "reject", "reply", "udpReply", "data"},
                            n : Nat, form : Forms])
      <4>1. CASE toLocal' = toLocal
        BY <4>1 DEF IInv, DataOK
      <4>2. CASE Answer("reply")
        BY <4>2 DEF IInv, DataOK, Answer, Write, Plain, Forms
      <4> QED
        BY <2>2, <4>1, <4>2
    <3> QED
      BY <2>1, <2>2, <2>3, <2>5, <2>6, <3>1 DEF IInv, DataOK
  <2>8. UpstreamHeld'
    <3>1. IsLocal => enCipher' /\ nUp' > 0
      BY <2>2
    <3>2. lookup' # "none" => toRemote' = <<>>
      BY <2>4, <2>6 DEF Hold
    <3> QED
      BY <2>3, <2>4, <2>5, <2>6, <3>1, <3>2 DEF UpstreamHeld
  <2>9. UpstreamMove
    <3>1. CASE held = <<>> /\ nUp' = 0
      <4>1. toRemote' = <<>> /\ finished' \in Nat
        BY <2>4, <2>6, <3>1 DEF SocketsOK, MaxFinished
      <4> QED
        BY <1>1, <2>1, <3>1, <4>1 DEF UpstreamMove
    <3>2. CASE nUp' = 1
      BY <1>1, <2>1, <2>3, <2>4, <2>6, <3>2 DEF UpstreamMove
    <3> QED
      BY <2>2, <3>1, <3>2
  <2> QED
    BY <2>4, <2>7, <2>8, <2>9 DEF IInv
<1>7. CASE LocalIgnored
  <2>1. UNCHANGED <<sockets, upstream, services>>
    BY <1>7 DEF LocalIgnored
  <2> QED
    BY <2>1 DEF IInv, SocketsOK, DataOK, UpstreamHeld, StageMatchesSockets,
       FinishedSoFar, sockets, upstream, services, Up!Stream, Up!Segment, UpstreamMove
<1>8. CASE HandleStageAddr
  BY <1>4, <1>5, <1>6, <1>8 DEF HandleStageAddr
<1> QED
  BY <1>2, <1>3, <1>4, <1>7, <1>8

-----------------------------------------------------------------------------
(* The slots together.                                                     *)

LEMMA LocalReadyReadKeeps ==
    ASSUME IInv, OnLocalTcpSocketReadyRead
    PROVE  IInv' /\ UpstreamMove
<1>1. /\ local = "Connected" /\ timer' = TRUE
      /\ UNCHANGED <<nDown, deleted, wellFormed>>
  BY DEF OnLocalTcpSocketReadyRead
<1>2. CASE UNCHANGED <<upstream, services, deCipher>> /\ Close(stage, local, remote)
  BY <1>1, <1>2, JustCloseKeeps
<1>3. ASSUME NEW segment \in Segments,
             deCipher' = IF IsLocal THEN deCipher ELSE DeCipherAfter(segment),
             \/ LocalStream \/ LocalGreeting \/ LocalHold \/ HandleStageAddr
                  \/ LocalIgnored
             \/ UNCHANGED <<sockets, upstream, services>>
      PROVE  IInv' /\ UpstreamMove
  <2>1. deCipher' \in {"none", "lost", "aligned", "misaligned"}
    BY <1>3 DEF DeCipherAfter, HasDeCipher, Segments, IInv, DataOK
  <2>2. CASE LocalStream \/ LocalGreeting \/ LocalHold \/ HandleStageAddr \/ LocalIgnored
    BY <1>1, <2>1, <2>2, LocalBranchKeeps
  <2>3. CASE UNCHANGED <<sockets, upstream, services>>
    BY <1>1, <2>1, <2>3 DEF IInv, SocketsOK, DataOK, UpstreamHeld, StageMatchesSockets,
       FinishedSoFar, sockets, upstream, services, Up!Stream, Up!Segment, UpstreamMove,
       MaxFinished
  <2> QED
    BY <1>3, <2>2, <2>3
<1> QED
  BY <1>2, <1>3 DEF OnLocalTcpSocketReadyRead, Segments

LEMMA RemoteReadyReadKeeps ==
    ASSUME IInv, OnRemoteTcpSocketReadyRead
    PROVE  IInv' /\ UpstreamMove
<1>1. /\ remote = "Connected" /\ timer' = TRUE
      /\ UNCHANGED <<upstream, lookup, banned, deleted, wellFormed>>
  BY DEF OnRemoteTcpSocketReadyRead
<1>2. CASE UNCHANGED <<toLocal, enCipher, deCipher, nDown>> /\ Close(stage, local, remote)
  BY <1>1, <1>2, JustCloseKeeps DEF services
<1>3. ASSUME NEW segment \in Segments, UNCHANGED sockets,
             enCipher' = IF IsLocal THEN enCipher ELSE TRUE,
             deCipher' = IF IsLocal THEN DeCipherAfter(segment) ELSE deCipher,
             \/ /\ nDown < MaxDown /\ nDown' = nDown + 1
                /\ Write("data", ForLocal(nDown'))
             \/ UNCHANGED <<nDown, toLocal>>
      PROVE  IInv' /\ UpstreamMove
  <2>1. deCipher' \in {"none", "lost", "aligned", "misaligned"}
    BY <1>3 DEF DeCipherAfter, HasDeCipher, Segments, IInv, DataOK
  <2>2. enCipher' \in BOOLEAN /\ (IsLocal => enCipher' = enCipher)
    BY <1>3, RelayAssumption DEF IInv, DataOK
  <2>3. nDown' \in 0 .. MaxDown
    BY <1>3, RelayAssumption DEF IInv, DataOK
  <2>4. toLocal' \in Seq([what : {"accept", "reject", "reply", "udpReply", "data"},
                          n : Nat, form : Forms])
    <3>1. ForLocal(nDown') \in [n : Nat, form : Forms]
      BY <2>3, RelayAssumption DEF ForLocal, Encrypt, Plain, Forms
    <3>2. CASE Write("data", ForLocal(nDown'))
      BY <3>1, <3>2 DEF IInv, DataOK, Write
    <3>3. CASE UNCHANGED <<nDown, toLocal>>
      BY <3>3 DEF IInv, DataOK
    <3> QED
      BY <1>3, <3>2, <3>3
  <2>5. SocketsOK' /\ DataOK'
    BY <1>1, <1>3, <2>1, <2>2, <2>3, <2>4 DEF IInv, SocketsOK, DataOK,
       StageMatchesSockets, FinishedSoFar, sockets, upstream
  <2>6. UpstreamHeld' /\ UpstreamMove
    BY <1>1, <1>3, <2>2 DEF IInv, SocketsOK, MaxFinished, UpstreamHeld, UpstreamMove,
       sockets, upstream, Up!Stream, Up!Segment
  <2> QED
    BY <2>5, <2>6 DEF IInv
<1> QED
  BY <1>2, <1>3 DEF OnRemoteTcpSocketReadyRead, Segments

LEMMA StepKeeps ==
    ASSUME IInv, [Next]_vars
    PROVE  IInv' /\ UpstreamMove
<1>1. CASE OnLocalTcpSocketReadyRead
  BY <1>1, LocalReadyReadKeeps
<1>2. CASE OnRemoteTcpSocketReadyRead
  BY <1>2, RemoteReadyReadKeeps
<1>3. CASE OnRemoteConnected
  BY <1>3, RemoteConnectedKeeps
<1>4. CASE OnDNSResolved
  BY <1>4, DNSResolvedKeeps
<1>5. ASSUME NEW l, NEW r, JustClose(l, r),
             \/ l = local
             \/ l = "Failed" /\ local \in {"Connected", "Closing"}
             \/ l = "Unconnected" /\ local = "Closing",
             \/ r = remote
             \/ r = "Failed" /\ remote \in {"Connected", "Closing"}
             \/ r = "Unconnected" /\ remote \in {"Connecting", "Abandoned", "Closing"}
      PROVE  IInv' /\ UpstreamMove
  <2>1. /\ UNCHANGED <<upstream, services, deCipher, nDown, deleted, wellFormed>>
        /\ timer' \in BOOLEAN /\ Close(stage, l, r)
    BY <1>5 DEF JustClose, others, IInv, DataOK
  <2> QED
    BY <1>5, <2>1, JustCloseKeeps
<1>6. CASE OnLocalTcpSocketError
  BY <1>5, <1>6 DEF OnLocalTcpSocketError
<1>7. CASE OnRemoteTcpSocketError
  BY <1>5, <1>7 DEF OnRemoteTcpSocketError
<1>8. CASE LocalDisconnected
  BY <1>5, <1>8 DEF LocalDisconnected
<1>9. CASE RemoteDisconnected
  BY <1>5, <1>9 DEF RemoteDisconnected
<1>10. CASE OnTimeout
  BY <1>5, <1>10 DEF OnTimeout
<1>11. CASE OnLookUpFinished
  BY <1>11 DEF OnLookUpFinished, IInv, SocketsOK, DataOK, UpstreamHeld, UpstreamMove,
     StageMatchesSockets, FinishedSoFar, MaxFinished, sockets, upstream, others,
     Up!Stream, Up!Segment
<1>12. CASE Delete \/ UNCHANGED vars
  <2>1. /\ UNCHANGED <<sockets, upstream, services, deCipher, timer, nDown, wellFormed>>
        /\ deleted' \in BOOLEAN
    BY <1>12 DEF Delete, vars, others, IInv, DataOK
  <2> QED
    BY <2>1 DEF IInv, SocketsOK, DataOK, UpstreamHeld, UpstreamMove,
       StageMatchesSockets, FinishedSoFar, MaxFinished, sockets, upstream, services,
       Up!Stream, Up!Segment
<1> QED
  BY <1>1, <1>2, <1>3, <1>4, <1>6, <1>7, <1>8, <1>9, <1>10, <1>11, <1>12 DEF Next

LEMMA InitHolds == Init => IInv
<1> SUFFICES ASSUME Init PROVE IInv
  OBVIOUS
<1>1. SocketsOK
  BY DEF Init, SocketsOK, Stages, SocketStates, MaxFinished, StageMatchesSockets,
     FinishedSoFar, Count
<1>2. DataOK
  <2>1. \A S : <<>> \in Seq(S)
    OBVIOUS
  <2>2. 0 \in 0 .. MaxUp /\ 0 \in 0 .. MaxDown
    BY RelayAssumption
  <2> QED
    BY <2>1, <2>2 DEF Init, DataOK
<1>3. UpstreamHeld
  BY StreamFacts DEF Init, UpstreamHeld
<1> QED
  BY <1>1, <1>2, <1>3 DEF IInv

LEMMA Invariance == Safety => []IInv
<1>1. IInv /\ [Next]_vars => IInv'
  BY StepKeeps
<1> QED
  BY InitHolds, <1>1, PTL DEF Safety

-----------------------------------------------------------------------------
(* The theorems.                                                           *)

(* Every variable keeps its type; in particular finished() is emitted at   *)
(* most MaxFinished times, however close(), late lookups and abandoned     *)
(* connection attempts interleave.                                         *)
THEOREM TypeCorrect == Safety => []TypeOK
<1>1. IInv => TypeOK
  BY DEF IInv, SocketsOK, DataOK, TypeOK
<1> QED
  BY <1>1, Invariance, PTL

(* stage always says what the sockets and the lookup are doing.            *)
THEOREM StageAgrees == Safety => []StageMatchesSockets
<1>1. IInv => StageMatchesSockets
  BY DEF IInv, SocketsOK
<1> QED
  BY <1>1, Invariance, PTL

(* Nothing the client sends is lost, doubled, reordered or sent without    *)
(* its IV while the relay is open.                                         *)
THEOREM UpstreamIsIntact == Safety => []UpstreamIntact
<1>1. ASSUME IInv PROVE UpstreamIntact
  <2>1. nUp \in Nat /\ finished \in Nat
    BY <1>1, RelayAssumption DEF IInv, SocketsOK, DataOK, MaxFinished
  <2>2. Up!Stream(nUp) \in Seq([n : Nat, form : Forms])
    BY <2>1, StreamFacts
  <2>3. /\ <<>> \o Up!Stream(nUp) = Up!Stream(nUp)
        /\ Up!Stream(nUp) \o <<>> = Up!Stream(nUp)
    BY <2>2
  <2>4. \/ toRemote = <<>> /\ dataToWrite = Up!Stream(nUp)
        \/ toRemote = Up!Stream(nUp) /\ dataToWrite = <<>>
        \/ finished > 0 /\ toRemote = <<>>
    BY <1>1 DEF IInv, UpstreamHeld
  <2>5. finished = 0 => toRemote \o dataToWrite = Up!Stream(nUp)
    <3>1. CASE toRemote = <<>> /\ dataToWrite = Up!Stream(nUp)
      BY <2>3, <3>1, Zenon
    <3>2. CASE toRemote = Up!Stream(nUp) /\ dataToWrite = <<>>
      BY <2>3, <3>2, Zenon
    <3>3. CASE finished > 0
      BY <2>1, <3>3
    <3> QED
      BY <2>4, <3>1, <3>2, <3>3
  <2> QED
    BY <2>4, <2>5 DEF UpstreamIntact
<1> QED
  BY <1>1, Invariance, PTL

(* The relay implements the ordered channel (its safety part): every step  *)
(* is a step of the channel from nUp to toRemote, or none.                 *)
THEOREM ImplementsChannel == Safety => Up!Safety
<1>1. Init => Up!Init
  BY DEF Init, Up!Init
<1>2. ASSUME IInv, [Next]_vars PROVE [Up!Next]_Up!chanVars
  <2>1. UpstreamMove /\ IInv'
    BY <1>2, StepKeeps
  <2>2. finished \in Nat /\ finished' \in Nat /\ Up!Stream(nUp)' = Up!Stream(nUp')
    BY <1>2, <2>1 DEF IInv, SocketsOK, MaxFinished, Up!Stream, Up!Segment
  <2>3. CASE UNCHANGED <<nUp, toRemote>> /\ finished' >= finished
    <3>1. CASE (finished' > 0) = (finished > 0)
      BY <2>3, <3>1 DEF Up!chanVars
    <3>2. CASE finished' > 0 /\ finished = 0
      BY <2>3, <3>2 DEF Up!Next, Up!Close
    <3> QED
      BY <2>2, <2>3, <3>1, <3>2
  <2>4. CASE /\ nUp' = nUp /\ finished' = finished
             /\ toRemote = <<>> /\ toRemote' = Up!Stream(nUp)
    BY <2>4 DEF Up!Next, Up!Forward
  <2>5. CASE /\ finished = 0 /\ nUp' = nUp + 1
             /\ \/ toRemote = <<>> /\ toRemote' = <<>>
                \/ finished' = 0 /\ toRemote' = Up!Stream(nUp')
    <3>1. ~(finished > 0) /\ (finished' > 0) \in BOOLEAN
      BY <2>2, <2>5
    <3>2. CASE toRemote = <<>> /\ toRemote' = <<>>
      BY <2>5, <3>1, <3>2 DEF Up!Next, Up!Accept
    <3>3. CASE finished' = 0 /\ toRemote' = Up!Stream(nUp')
      <4>1. UNCHANGED (finished > 0)
        BY <2>5, <3>3
      <4> QED
        BY <2>5, <3>1, <3>3, <4>1 DEF Up!Next, Up!Accept
    <3> QED
      BY <2>5, <3>2, <3>3
  <2> QED
    BY <2>1, <2>2, <2>3, <2>4, <2>5 DEF UpstreamMove
<1> QED
  BY <1>1, <1>2, Invariance, PTL DEF Safety, Up!Safety

(* The relay keeps its side of the contract with the server: finished() is *)
(* emitted at most MaxFinished times in a row of steps of which none comes *)
(* after the deferred delete.                                              *)
THEOREM PromisesKept == Safety => LivesAsPromised
<1>1. Init => Life!Init
  BY DEF Init, Life!Init
<1>2. ASSUME IInv, [Next]_vars PROVE [Life!Next]_(Life!lifeVars)
  <2>1. /\ finished \in 0 .. MaxFinished /\ finished' \in 0 .. MaxFinished
        /\ finished' >= finished
    <3>1. IInv' /\ UpstreamMove
      BY <1>2, StepKeeps
    <3> QED
      BY <1>2, <3>1 DEF IInv, SocketsOK, UpstreamMove, MaxFinished
  <2>2. CASE Delete
    <3>1. finished' = finished
      BY <2>2 DEF Delete, sockets
    <3> QED
      BY <2>1, <2>2, <3>1 DEF Delete, Life!Next, Life!Delete, MaxFinished
  <2>3. CASE UNCHANGED vars
    BY <2>3 DEF vars, sockets, others, Life!lifeVars
  <2>4. CASE Next /\ ~Delete
    <3>1. ~deleted /\ ~deleted'
      <4>1. CASE OnLocalTcpSocketReadyRead
        BY <4>1 DEF OnLocalTcpSocketReadyRead
      <4>2. CASE OnRemoteTcpSocketReadyRead
        BY <4>2 DEF OnRemoteTcpSocketReadyRead
      <4>3. CASE OnRemoteConnected \/ OnLookUpFinished \/ OnDNSResolved
        BY <4>3 DEF OnRemoteConnected, OnLookUpFinished, OnDNSResolved, LookedUp, others
      <4>4. CASE \/ OnLocalTcpSocketError \/ OnRemoteTcpSocketError
                 \/ LocalDisconnected \/ RemoteDisconnected \/ OnTimeout
        BY <4>4 DEF OnLocalTcpSocketError, OnRemoteTcpSocketError, LocalDisconnected,
           RemoteDisconnected, OnTimeout, JustClose, others
      <4> QED
        BY <2>4, <4>1, <4>2, <4>3, <4>4 DEF Next
    <3>2. finished' = finished \/ finished' \in finished + 1 .. MaxFinished
      BY <2>1 DEF MaxFinished
    <3> QED
      BY <3>1, <3>2 DEF Life!Next, Life!Finish, Life!lifeVars
  <2> QED
    BY <1>2, <2>2, <2>3, <2>4
<1> QED
  BY <1>1, <1>2, Invariance, PTL DEF Safety, LivesAsPromised, Life!Spec

(* After the first finished() the client is neither read nor written.      *)
THEOREM ClosedMeansClosed == Safety => ClosedToClient
<1>1. ASSUME IInv, [Next]_vars, finished > 0
      PROVE  UNCHANGED <<nUp, nDown, toLocal>>
  <2>1. local # "Connected" /\ ~OnLocalTcpSocketReadyRead
    BY <1>1 DEF IInv, SocketsOK, StageMatchesSockets, MaxFinished,
       OnLocalTcpSocketReadyRead
  <2>2. CASE OnRemoteTcpSocketReadyRead
    BY <2>1, <2>2 DEF OnRemoteTcpSocketReadyRead, upstream
  <2>3. CASE OnRemoteConnected
    BY <2>3 DEF OnRemoteConnected, services, others
  <2>4. CASE OnDNSResolved
    BY <2>4 DEF OnDNSResolved, LookedUp, others
  <2>5. CASE OnLookUpFinished \/ Delete \/ UNCHANGED vars
    BY <2>5 DEF OnLookUpFinished, Delete, vars, upstream, services, others
  <2>6. CASE \/ OnLocalTcpSocketError \/ OnRemoteTcpSocketError
             \/ LocalDisconnected \/ RemoteDisconnected \/ OnTimeout
    <3>1. UNCHANGED <<upstream, services, others>>
      BY <2>6 DEF OnLocalTcpSocketError, OnRemoteTcpSocketError, LocalDisconnected,
         RemoteDisconnected, OnTimeout, JustClose
    <3> QED
      BY <3>1 DEF upstream, services, others
  <2> QED
    BY <1>1, <2>1, <2>2, <2>3, <2>4, <2>5, <2>6 DEF Next
<1>2. IInv /\ [Next]_vars => [finished > 0 => UNCHANGED <<nUp, nDown, toLocal>>]_vars
  BY <1>1
<1> QED
  BY <1>2, Invariance, PTL DEF Safety, ClosedToClient

(* The one slot and branch that bans.                                      *)
LEMMA WhereBanned ==
    ASSUME [Next]_vars, ~banned, banned'
    PROVE  OnLocalTcpSocketReadyRead /\ stage \in {"INIT", "ADDR"} /\ HeaderBad
<1>1. OnLocalTcpSocketReadyRead
  BY DEF Next, OnRemoteTcpSocketReadyRead, OnRemoteConnected, OnLookUpFinished,
     OnDNSResolved, LookedUp, OnLocalTcpSocketError, OnRemoteTcpSocketError,
     LocalDisconnected, RemoteDisconnected, OnTimeout, JustClose, Delete, services, vars
<1> QED
  BY <1>1 DEF OnLocalTcpSocketReadyRead, LocalStream, LocalGreeting, LocalHold,
     LocalIgnored, HandleStageAddr, RequestUdpAssociate, RequestRefused,
     RequestConnect, HeaderOk, services

(* The ban and the first finished() come in one step, as TcpServer has it: *)
(* when the server deletes the relay its peer has been banned already.     *)
BansAtFirstFinish == [][banned' # banned => finished = 0 /\ finished' > 0]_vars

(* handleStageAddr() bans a client only of an open relay, and closes it.   *)
THEOREM BanPrecedesFinish == Safety => BansAtFirstFinish
<1>1. ASSUME IInv, [Next]_vars, banned' # banned PROVE finished = 0 /\ finished' > 0
  <2>1. ~banned /\ banned'
    <3>1. CASE banned
      <4>1. banned'
        BY <1>1, <3>1 DEF Next, OnLocalTcpSocketReadyRead, LocalStream, LocalGreeting,
           LocalHold, LocalIgnored, HandleStageAddr, RequestUdpAssociate,
           RequestRefused, RequestConnect, HeaderOk, HeaderBad,
           OnRemoteTcpSocketReadyRead, OnRemoteConnected, OnLookUpFinished,
           OnDNSResolved, LookedUp, OnLocalTcpSocketError, OnRemoteTcpSocketError,
           LocalDisconnected, RemoteDisconnected, OnTimeout, JustClose, Delete,
           services, vars
      <4>2. banned' \in BOOLEAN
        BY <1>1, StepKeeps DEF IInv, DataOK
      <4> QED
        BY <1>1, <3>1, <4>1, <4>2 DEF IInv, DataOK
    <3>2. CASE ~banned
      <4>1. banned \in BOOLEAN /\ banned' \in BOOLEAN
        BY <1>1, StepKeeps DEF IInv, DataOK
      <4> QED
        BY <1>1, <3>2, <4>1
    <3> QED
      BY <3>1, <3>2
  <2>2. stage \in {"INIT", "ADDR"} /\ Close(stage, local, remote)
    BY <1>1, <2>1, WhereBanned DEF HeaderBad
  <2>3. finished = 0
    BY <1>1, <2>2 DEF IInv, SocketsOK, StageMatchesSockets, MaxFinished
  <2>4. finished' > finished
    BY <1>1, <2>2, CloseEffect DEF IInv, SocketsOK, SocketStates, MaxFinished
  <2> QED
    BY <2>3, <2>4
<1>2. ASSUME IInv, [Next]_vars
      PROVE  [banned' # banned => finished = 0 /\ finished' > 0]_vars
  BY <1>1, <1>2
<1> QED
  BY <1>2, Invariance, PTL DEF Safety, BansAtFirstFinish

(* A client this relay banned never gets a connection out of it.           *)
Banished ==
    banned => /\ stage = "DESTROYED" /\ toRemote = <<>>
              /\ remote = "Unconnected" /\ lookup = "none"

THEOREM BannedMeansUnconnected == Safety => []BannedNeverConnected
<1>1. Init => Banished
  BY DEF Init, Banished
<1>2. ASSUME IInv, Banished, [Next]_vars PROVE Banished'
  <2>1. CASE banned
    <3>1. /\ local # "Connected" /\ stage = "DESTROYED" /\ toRemote = <<>>
          /\ remote = "Unconnected" /\ lookup = "none" /\ dataToWrite = dataToWrite
      BY <1>2, <2>1 DEF Banished, IInv, SocketsOK, StageMatchesSockets
    <3>2. \/ \E l : JustClose(l, remote)
          \/ Delete
          \/ UNCHANGED vars
      BY <1>2, <3>1 DEF Next, OnLocalTcpSocketReadyRead, OnRemoteTcpSocketReadyRead,
         OnRemoteConnected, OnLookUpFinished, OnDNSResolved, LookedUp,
         OnLocalTcpSocketError, OnRemoteTcpSocketError, LocalDisconnected,
         RemoteDisconnected, OnTimeout
    <3>3. ASSUME NEW l, JustClose(l, remote) PROVE Banished'
      BY <3>1, <3>3 DEF JustClose, Close, Banished, upstream, services
    <3>4. CASE Delete \/ UNCHANGED vars
      BY <3>1, <3>4 DEF Delete, vars, Banished, sockets, upstream, services
    <3> QED
      BY <3>2, <3>3, <3>4
  <2>2. CASE ~banned /\ banned'
    <3>1. stage \in {"INIT", "ADDR"} /\ HeaderBad
      BY <1>2, <2>2, WhereBanned
    <3>2. remote = "Unconnected" /\ lookup = "none" /\ toRemote = <<>>
      BY <1>2, <3>1, StreamFacts DEF IInv, SocketsOK, SocketStates,
         StageMatchesSockets, FinishedSoFar, UpstreamHeld
    <3>3. Close(stage, local, remote) /\ UNCHANGED <<lookup, toRemote>>
      BY <3>1 DEF HeaderBad, upstream
    <3>4. stage' = "DESTROYED" /\ remote' = "Unconnected"
      BY <1>2, <3>2, <3>3, CloseEffect DEF IInv, SocketsOK, SocketStates, MaxFinished
    <3> QED
      BY <3>2, <3>3, <3>4 DEF Banished
  <2>3. CASE ~banned'
    BY <2>3 DEF Banished
  <2> QED
    BY <2>1, <2>2, <2>3
<1>3. Banished => BannedNeverConnected
  BY DEF Banished, BannedNeverConnected
<1> QED
  BY <1>1, <1>2, <1>3, Invariance, PTL DEF Safety

-----------------------------------------------------------------------------
(* What local receives.  While the relay is open its length is known: in   *)
(* client mode from the stage, in server mode from what remote has sent,   *)
(* and there the cipher exists once the first answer was encrypted.        *)
Reaching == {"DNS", "CONNECTING", "STREAM"}

Answers ==
    local = "Connected" =>
        /\ ~IsLocal => Len(toLocal) = nDown /\ (enCipher <=> nDown > 0)
        /\ IsLocal =>
              /\ stage = "INIT" => Len(toLocal) = 0 /\ nDown = 0
              /\ stage = "ADDR" => Len(toLocal) = 1 /\ nDown = 0
              /\ stage \in Reaching =>
                    Len(toLocal) = nDown + 2 /\ toLocal[2].what = "reply"

ClientInv == ClientStreamWellFormed /\ Answers

Items == [what : {"accept", "reject", "reply", "udpReply", "data"}, n : Nat, form : Forms]

(* One segment more, fit for its place.                                    *)
LEMMA OneMore ==
    ASSUME ClientStreamWellFormed, toLocal \in Seq(Items),
           NEW e \in Items, toLocal' = Append(toLocal, e),
           NEW k, k = Len(toLocal) + 1,
           \/ ~IsLocal /\ e =
                [what |-> "data", n |-> k, form |-> IF k = 1 THEN "framed" ELSE "cipher"]
           \/ IsLocal /\ k = 1 /\ e.what \in {"accept", "reject"}
           \/ IsLocal /\ k = 2 /\ e.what \in {"reply", "udpReply"}
           \/ /\ IsLocal /\ k > 2 /\ toLocal[2].what = "reply"
              /\ e = [what |-> "data", n |-> k - 2, form |-> "plain"]
    PROVE  /\ ClientStreamWellFormed' /\ Len(toLocal') = k /\ toLocal'[k] = e
           /\ k > 2 => toLocal'[2] = toLocal[2]
<1>1. /\ Len(toLocal') = k /\ k \in Nat /\ toLocal'[k] = e
      /\ \A i \in 1 .. Len(toLocal) : toLocal'[i] = toLocal[i]
      /\ DOMAIN toLocal' = 1 .. k /\ DOMAIN toLocal = 1 .. Len(toLocal)
      /\ Len(toLocal) \in Nat
  OBVIOUS
<1>2. k > 2 => toLocal'[2] = toLocal[2]
  BY <1>1
<1>3. ASSUME NEW i \in DOMAIN toLocal'
      PROVE  \/ ~IsLocal /\ toLocal'[i] =
                   [what |-> "data", n |-> i, form |-> IF i = 1 THEN "framed" ELSE "cipher"]
             \/ IsLocal /\ i = 1 /\ toLocal'[i].what \in {"accept", "reject"}
             \/ IsLocal /\ i = 2 /\ toLocal'[i].what \in {"reply", "udpReply"}
             \/ /\ IsLocal /\ i > 2 /\ toLocal'[2].what = "reply"
                /\ toLocal'[i] = [what |-> "data", n |-> i - 2, form |-> "plain"]
  <2>1. CASE i = k
    BY <1>1, <1>2, <2>1
  <2>2. CASE i # k
    <3>1. i \in DOMAIN toLocal /\ toLocal'[i] = toLocal[i] /\ (i > 2 => k > 2)
      BY <1>1, <2>2
    <3> QED
      BY <1>2, <3>1 DEF ClientStreamWellFormed
  <2> QED
    BY <2>1, <2>2
<1>4. ClientStreamWellFormed'
  BY <1>3 DEF ClientStreamWellFormed
<1> QED
  BY <1>1, <1>2, <1>4

(* A step that writes nothing to local.                                    *)
LEMMA NothingToClient ==
    ASSUME ClientInv, UNCHANGED <<toLocal, nDown>>, ~IsLocal => UNCHANGED enCipher,
           \/ local' # "Connected"
           \/ /\ local = "Connected"
              /\ \/ ~IsLocal \/ UNCHANGED stage
                 \/ stage \in Reaching /\ stage' \in Reaching
    PROVE  ClientInv'
BY DEF ClientInv, ClientStreamWellFormed, Answers, Reaching

(* close() leaves no relay open.                                           *)
LEMMA CloseShuts ==
    ASSUME IInv, NEW s, s # "DESTROYED" \/ local # "Connected",
           NEW l \in SocketStates \cup {"Failed"}, NEW r \in SocketStates \cup {"Failed"},
           l = local \/ l \in {"Failed", "Unconnected"},
           Close(s, l, r)
    PROVE  local' # "Connected"
<1>1. finished \in Nat /\ local \in {"Connected", "Closing", "Unconnected"}
  BY DEF IInv, SocketsOK, MaxFinished, FinishedSoFar
<1>2. CASE s = "DESTROYED"
  BY <1>1, <1>2, CloseEffect
<1>3. CASE s # "DESTROYED"
  BY <1>1, <1>3, CloseEffect
<1> QED
  BY <1>2, <1>3

LEMMA ConnectKeepsReaching ==
    ASSUME IInv, NEW held, ConnectToHost(held)
    PROVE  local' # "Connected" \/ (local' = local /\ stage' \in Reaching)
<1>1. CASE Close("CONNECTING", local, "Unconnected")
  BY <1>1, CloseShuts DEF IInv, SocketsOK, SocketStates
<1> QED
  BY <1>1 DEF ConnectToHost, Reaching

LEMMA LocalBranchAnswers ==
    ASSUME IInv, ClientInv, local = "Connected", UNCHANGED nDown,
           LocalStream \/ LocalGreeting \/ LocalHold \/ HandleStageAddr \/ LocalIgnored
    PROVE  ClientInv'
<1>1. /\ stage # "DESTROYED" /\ toLocal \in Seq(Items) /\ nDown \in Nat
      /\ local \in SocketStates /\ remote \in SocketStates
  BY RelayAssumption DEF IInv, SocketsOK, StageMatchesSockets, DataOK, Items
<1>2. CASE LocalStream \/ LocalHold \/ LocalIgnored
  BY <1>1, <1>2, NothingToClient DEF LocalStream, LocalHold, LocalIgnored, sockets, services
<1>3. ASSUME NEW w \in {"accept", "reject", "reply", "udpReply"}, Answer(w)
      PROVE  /\ [what |-> w, n |-> 0, form |-> "plain"] \in Items
             /\ toLocal' = Append(toLocal, [what |-> w, n |-> 0, form |-> "plain"])
  BY <1>3 DEF Answer, Write, Plain, Items, Forms
<1>4. CASE LocalGreeting
  <2>1. PICK w \in {"accept", "reject"} : Answer(w)
    BY <1>4 DEF LocalGreeting
  <2>2. IsLocal /\ stage = "INIT" /\ stage' = "ADDR" /\ Len(toLocal) = 0 /\ nDown = 0
    BY <1>4 DEF LocalGreeting, ClientInv, Answers
  <2>3. ClientStreamWellFormed' /\ Len(toLocal') = 1
    BY <1>1, <1>3, <2>1, <2>2, OneMore DEF ClientInv
  <2> QED
    BY <2>2, <2>3 DEF ClientInv, Answers, Reaching
<1>5. ASSUME IsLocal, stage = "ADDR", NEW w \in {"reply", "udpReply"}, Answer(w)
      PROVE  /\ ClientStreamWellFormed' /\ Len(toLocal') = 2
             /\ toLocal'[2].what = w /\ nDown' = 0
  <2>1. Len(toLocal) = 1 /\ nDown = 0
    BY <1>5 DEF ClientInv, Answers
  <2>2. /\ ClientStreamWellFormed' /\ Len(toLocal') = 2
        /\ toLocal'[2] = [what |-> w, n |-> 0, form |-> "plain"]
    <3> DEFINE e == [what |-> w, n |-> 0, form |-> "plain"]
    <3>1. e \in Items /\ toLocal' = Append(toLocal, e) /\ e.what \in {"reply", "udpReply"}
      BY <1>3, <1>5
    <3>2. 2 = Len(toLocal) + 1
      BY <2>1
    <3> HIDE DEF e
    <3>3. ClientStreamWellFormed' /\ Len(toLocal') = 2 /\ toLocal'[2] = e
      BY <1>1, <1>5, <3>1, <3>2, OneMore DEF ClientInv
    <3> QED
      BY <3>3 DEF e
  <2> QED
    BY <2>1, <2>2
<1>6. CASE IsLocal /\ HandleStageAddr
  <2>1. stage = "ADDR"
    BY <1>6 DEF HandleStageAddr
  <2>2. CASE RequestUdpAssociate
    <3>1. ClientStreamWellFormed' /\ stage' = "UDP_ASSOC"
      BY <1>5, <1>6, <2>1, <2>2 DEF RequestUdpAssociate
    <3> QED
      BY <1>6, <3>1 DEF ClientInv, Answers, Reaching
  <2>3. CASE RequestRefused
    BY <1>1, <1>6, <2>3, CloseShuts, NothingToClient DEF RequestRefused, services
  <2>4. CASE RequestConnect
    <3>1. ClientStreamWellFormed' /\ Len(toLocal') = nDown' + 2 /\ toLocal'[2].what = "reply"
      BY <1>5, <1>6, <2>1, <2>4 DEF RequestConnect
    <3>2. local' # "Connected" \/ stage' \in Reaching
      BY <2>4, ConnectKeepsReaching DEF RequestConnect, LookUp, Reaching
    <3> QED
      BY <1>6, <3>1, <3>2 DEF ClientInv, Answers, Reaching
  <2> QED
    BY <1>6, <2>2, <2>3, <2>4 DEF HandleStageAddr
<1>7. CASE ~IsLocal /\ HandleStageAddr
  BY <1>7, NothingToClient DEF HandleStageAddr, HeaderOk, HeaderBad
<1> QED
  BY <1>2, <1>4, <1>6, <1>7

LEMMA RemoteReadyReadAnswers ==
    ASSUME IInv, ClientInv, OnRemoteTcpSocketReadyRead
    PROVE  ClientInv'
<1>1. /\ toLocal \in Seq(Items) /\ nDown \in Nat /\ enCipher \in BOOLEAN
      /\ stage = "STREAM" /\ local \in SocketStates /\ remote \in SocketStates
  BY RelayAssumption DEF OnRemoteTcpSocketReadyRead, IInv, SocketsOK,
     StageMatchesSockets, DataOK, Items
<1>2. CASE UNCHANGED <<toLocal, enCipher, deCipher, nDown>> /\ Close(stage, local, remote)
  BY <1>1, <1>2, CloseShuts, NothingToClient
<1>3. CASE local # "Connected" /\ UNCHANGED <<sockets, nDown, toLocal>>
  BY <1>3 DEF ClientInv, ClientStreamWellFormed, Answers, sockets
<1>4. CASE /\ local = "Connected" /\ UNCHANGED sockets
           /\ nDown' = nDown + 1 /\ Write("data", ForLocal(nDown'))
           /\ enCipher' = IF IsLocal THEN enCipher ELSE TRUE
  <2> DEFINE e == [what |-> "data", n |-> nDown + 1, form |-> ForLocal(nDown + 1).form]
  <2>1. toLocal' = Append(toLocal, e) /\ e \in Items
    BY <1>1, <1>4 DEF Write, ForLocal, Plain, Encrypt, Items, Forms
  <2>2. CASE IsLocal
    <3>1. Len(toLocal) = nDown + 2 /\ toLocal[2].what = "reply"
      BY <1>1, <1>4, <2>2 DEF ClientInv, Answers, Reaching
    <3>2. e = [what |-> "data", n |-> (Len(toLocal) + 1) - 2, form |-> "plain"]
      BY <1>1, <2>2, <3>1 DEF ForLocal, Plain
    <3>3. /\ ClientStreamWellFormed' /\ Len(toLocal') = nDown' + 2
          /\ toLocal'[2] = toLocal[2]
      BY <1>1, <1>4, <2>1, <2>2, <3>1, <3>2, OneMore DEF ClientInv
    <3> QED
      BY <1>1, <1>4, <2>2, <3>1, <3>3 DEF ClientInv, Answers, Reaching, sockets
  <2>3. CASE ~IsLocal
    <3>1. Len(toLocal) = nDown /\ (enCipher <=> nDown > 0)
      BY <1>4, <2>3 DEF ClientInv, Answers
    <3>2. e = [what |-> "data", n |-> nDown + 1,
               form |-> IF nDown + 1 = 1 THEN "framed" ELSE "cipher"]
      BY <1>1, <2>3, <3>1 DEF ForLocal, Encrypt
    <3>3. ClientStreamWellFormed' /\ Len(toLocal') = nDown'
      BY <1>1, <1>4, <2>1, <2>3, <3>1, <3>2, OneMore DEF ClientInv
    <3> QED
      BY <1>1, <1>4, <2>3, <3>3 DEF ClientInv, Answers
  <2> QED
    BY <2>2, <2>3
<1>5. CASE UNCHANGED <<sockets, nDown, toLocal>> /\ IsLocal
  BY <1>5 DEF ClientInv, ClientStreamWellFormed, Answers, sockets
<1> QED
  BY <1>2, <1>3, <1>4, <1>5 DEF OnRemoteTcpSocketReadyRead

LEMMA StepAnswers ==
    ASSUME IInv, ClientInv, [Next]_vars
    PROVE  ClientInv'
<1>1. /\ local \in SocketStates /\ remote \in SocketStates
      /\ local = "Connected" => stage # "DESTROYED"
      /\ remote = "Connecting" => stage = "CONNECTING"
      /\ remote = "Abandoned" => stage = "DESTROYED"
      /\ lookup # "none" => stage \in {"DNS", "DESTROYED"}
  BY DEF IInv, SocketsOK, StageMatchesSockets, FinishedSoFar
<1>2. CASE OnLocalTcpSocketReadyRead
  <2>1. local = "Connected" /\ UNCHANGED nDown
    BY <1>2 DEF OnLocalTcpSocketReadyRead
  <2>2. CASE UNCHANGED <<upstream, services, deCipher>> /\ Close(stage, local, remote)
    BY <1>1, <2>1, <2>2, CloseShuts, NothingToClient DEF services
  <2>3. CASE UNCHANGED <<sockets, upstream, services>>
    BY <2>1, <2>3, NothingToClient DEF sockets, services
  <2> QED
    BY <1>2, <2>1, <2>2, <2>3, LocalBranchAnswers DEF OnLocalTcpSocketReadyRead
<1>3. CASE OnRemoteTcpSocketReadyRead
  BY <1>3, RemoteReadyReadAnswers
<1>4. CASE OnRemoteConnected
  <2>1. UNCHANGED <<toLocal, nDown, enCipher>>
    BY <1>4 DEF OnRemoteConnected, services, others
  <2>2. CASE remote = "Connecting" /\ stage' = "STREAM" /\ UNCHANGED local
    BY <1>1, <2>1, <2>2, NothingToClient DEF Reaching
  <2>3. CASE remote = "Abandoned" /\ Close("STREAM", local, "Unconnected")
    BY <1>1, <2>1, <2>3, CloseShuts, NothingToClient DEF SocketStates
  <2> QED
    BY <1>4, <2>2, <2>3 DEF OnRemoteConnected
<1>5. CASE OnDNSResolved
  <2>1. UNCHANGED <<toLocal, nDown, enCipher>> /\ lookup # "none"
    BY <1>5 DEF OnDNSResolved, LookedUp, others
  <2>2. CASE ConnectToHost(dataToWrite)
    <3>1. local' # "Connected" \/ (local' = local /\ stage' \in Reaching)
      BY <2>2, ConnectKeepsReaching
    <3> QED
      BY <1>1, <2>1, <3>1, NothingToClient DEF Reaching
  <2>3. CASE Close(stage, local, remote)
    BY <1>1, <2>1, <2>3, CloseShuts, NothingToClient
  <2> QED
    BY <1>5, <2>2, <2>3 DEF OnDNSResolved
<1>6. ASSUME NEW l \in {local, "Failed", "Unconnected"},
             NEW r \in {remote, "Failed", "Unconnected"}, JustClose(l, r)
      PROVE  ClientInv'
  <2>1. UNCHANGED <<toLocal, nDown, enCipher>> /\ Close(stage, l, r)
    BY <1>6 DEF JustClose, services, others
  <2>2. local' # "Connected"
    BY <1>1, <1>6, <2>1, CloseShuts DEF SocketStates
  <2> QED
    BY <2>1, <2>2, NothingToClient
<1>7. CASE \/ OnLocalTcpSocketError \/ OnRemoteTcpSocketError
           \/ LocalDisconnected \/ RemoteDisconnected \/ OnTimeout
  BY <1>6, <1>7 DEF OnLocalTcpSocketError, OnRemoteTcpSocketError, LocalDisconnected,
     RemoteDisconnected, OnTimeout
<1>8. CASE OnLookUpFinished \/ Delete \/ UNCHANGED vars
  BY <1>8 DEF OnLookUpFinished, Delete, vars, sockets, services, others, ClientInv,
     ClientStreamWellFormed, Answers
<1> QED
  BY <1>2, <1>3, <1>4, <1>5, <1>7, <1>8 DEF Next

(* The client gets the SOCKS5 answers and then the data, in order and each *)
(* once, or the encrypted stream with its IV in front, in both modes and   *)
(* however reads, lookups and closes interleave.                           *)
THEOREM ClientIsAnswered == Safety => []ClientStreamWellFormed
<1>1. Init => ClientInv
  BY DEF Init, ClientInv, ClientStreamWellFormed, Answers, Reaching
<1>2. IInv /\ ClientInv /\ [Next]_vars => ClientInv'
  BY StepAnswers
<1>3. ClientInv => ClientStreamWellFormed
  BY DEF ClientInv
<1> QED
  BY <1>1, <1>2, <1>3, Invariance, PTL DEF Safety
=============================================================================
