---------------------------- MODULE MobileProofs ----------------------------
(***************************************************************************)
(* What the app has been told about its node is true, for any number of     *)
(* starts and stops that fail or succeed, with all threads at work.         *)
(***************************************************************************)
EXTENDS Mobile, TLAPS

LEMMA CoresFacts ==
  /\ Nil \notin Cores
  /\ 0 \in 0 .. MaxCores
  /\ \A n \in 0 .. MaxCores : n < MaxCores => n + 1 \in Cores /\ n + 1 \in 0 .. MaxCores
BY MaxCoresAssumption DEF Nil, Cores

-----------------------------------------------------------------------------
(* Types.                                                                   *)

\* There is a number left for the node that a start is about to make, the field
\* it is made in refers to it, and who found an iprwc still finds one.
FieldInv ==
  /\ ctl \in {"json", "core"} => created < MaxCores
  /\ ctl \in {"multicast", "iprwc", "return"} => core \in Cores
  /\ recv = "checked" => iprwc # Nil
  /\ send = "checked" => iprwc # Nil

LEMMA TypeStep == TypeOK /\ FieldInv /\ [Next]_vars => TypeOK' /\ FieldInv'
<1> SUFFICES ASSUME TypeOK, FieldInv, [Next]_vars
             PROVE  TypeOK' /\ FieldInv'
  OBVIOUS
<1> USE CoresFacts
<1>1. CASE StartJSON \/ JsonError \/ JsonDone \/ StartPanics \/ StartReturns \/ Stop
  BY <1>1 DEF TypeOK, FieldInv, StartJSON, JsonError, JsonDone, StartPanics, StartReturns,
              Stop, Controller, Crash, fields, world, reader, writer
<1>2. CASE StartCore
  BY <1>2 DEF TypeOK, FieldInv, StartCore, Controller, reader, writer
<1>3. CASE StartMulticast
  BY <1>3 DEF TypeOK, FieldInv, StartMulticast, Controller, reader, writer
<1>4. CASE StartIprwc
  BY <1>4 DEF TypeOK, FieldInv, StartIprwc, Controller, world, reader, writer
<1>5. CASE StopMulticast
  BY <1>5 DEF TypeOK, FieldInv, StopMulticast, MulticastStopped, Controller, fields,
              reader, writer
<1>6. CASE StopCore
  BY <1>6 DEF TypeOK, FieldInv, StopCore, Controller, Crash, fields, reader, writer
<1>7. CASE Recv
  BY <1>7 DEF TypeOK, FieldInv, Recv, RecvCheck, RecvRead, RecvPacket, RecvEmpty, UseIprwc,
              Crash, fields, world, writer
<1>8. CASE SendCheck
  BY <1>8 DEF TypeOK, FieldInv, SendCheck, Steady, fields, world, reader
<1>9. CASE SendWrite
  BY <1>9 DEF TypeOK, FieldInv, SendWrite, UseIprwc, Crash, fields, world, reader
<1>10. CASE Get
  BY <1>10 DEF TypeOK, FieldInv, Get, Crash, fields, world, reader, writer
<1>11. CASE UNCHANGED vars
  BY <1>11 DEF TypeOK, FieldInv, vars, fields, world, reader, writer
<1> QED
  BY <1>1, <1>2, <1>3, <1>4, <1>5, <1>6, <1>7, <1>8, <1>9, <1>10, <1>11
  DEF Next, Start

LEMMA InitTypes == Init => TypeOK /\ FieldInv
BY CoresFacts DEF Init, TypeOK, FieldInv, Nil

\* The fields refer to nodes that were made, a blocked Recv to one of them, and
\* the binding makes no more nodes than starts.
THEOREM MobileTypes == Spec => []TypeOK
BY InitTypes, TypeStep, PTL DEF Spec

LEMMA TypesHold == Spec => [](TypeOK /\ FieldInv)
BY InitTypes, TypeStep, PTL DEF Spec

-----------------------------------------------------------------------------
(* Up.                                                                      *)

\* While the app takes its node to be up, iprwc refers to a running node: only a
\* Stop stops one, and a Stop that did has returned nil.  It is the node of the
\* core field but in the middle of a start on top of it.  A packet on its way
\* since before any Stop has a running node to go to.
ServedInv ==
  /\ up => iprwc \in Cores /\ cores[iprwc] = "running"
  /\ up /\ ctl \notin {"multicast", "iprwc"} => iprwc = core
  /\ ctl \in {"multicast", "iprwc", "return"} => core \in Cores /\ cores[core] = "running"
  /\ ctl = "return" => iprwc = core
  /\ ctl \in {"stop", "stopcore"} => ~steady
  /\ send = "checked" /\ steady => iprwc \in Cores /\ cores[iprwc] = "running"
  /\ ~lost

LEMMA ServedStep == TypeOK /\ FieldInv /\ ServedInv /\ [Next]_vars => ServedInv'
<1> SUFFICES ASSUME TypeOK, FieldInv, ServedInv, [Next]_vars
             PROVE  ServedInv'
  OBVIOUS
<1> USE CoresFacts
<1>1. CASE StartJSON \/ JsonError \/ JsonDone \/ StartPanics \/ StartReturns \/ Stop
  BY <1>1 DEF ServedInv, StartJSON, JsonError, JsonDone, StartPanics, StartReturns,
              Stop, Controller, Crash, fields, world, reader, writer
<1>2. CASE StartCore
  <2>1. created + 1 \in Cores
    BY <1>2 DEF TypeOK, FieldInv, StartCore, Controller
  <2>2. cores' \in [Cores -> {"none", "running", "stopped"}] /\ core' \in Cores
        /\ cores'[core'] = "running" /\ \A k \in Cores : cores[k] = "running" => cores'[k] = "running"
    BY <1>2, <2>1 DEF TypeOK, StartCore
  <2> QED
    BY <1>2, <2>2 DEF ServedInv, StartCore, Controller, reader, writer
<1>3. CASE StartMulticast
  BY <1>3 DEF ServedInv, StartMulticast, Controller, reader, writer
<1>4. CASE StartIprwc
  BY <1>4 DEF ServedInv, StartIprwc, Controller, world, reader, writer
<1>5. CASE StopMulticast
  BY <1>5 DEF ServedInv, StopMulticast, MulticastStopped, Controller, fields, reader, writer
<1>6. CASE StopCore
  BY <1>6 DEF ServedInv, StopCore, Controller, Crash, fields, reader, writer
<1>7. CASE Recv
  BY <1>7 DEF ServedInv, Recv, RecvCheck, RecvRead, RecvPacket, RecvEmpty, UseIprwc,
              Crash, fields, world, writer
<1>8. CASE SendCheck
  BY <1>8 DEF ServedInv, SendCheck, Steady, fields, world, reader
<1>9. CASE SendWrite
  BY <1>9 DEF ServedInv, SendWrite, UseIprwc, Crash, fields, world, reader
<1>10. CASE Get
  BY <1>10 DEF ServedInv, Get, Crash, fields, world, reader, writer
<1>11. CASE UNCHANGED vars
  BY <1>11 DEF ServedInv, vars, fields, world, reader, writer
<1> QED
  BY <1>1, <1>2, <1>3, <1>4, <1>5, <1>6, <1>7, <1>8, <1>9, <1>10, <1>11
  DEF Next, Start

LEMMA ServedHolds == Spec => [](TypeOK /\ FieldInv /\ ServedInv)
<1>1. Init => ServedInv
  BY DEF Init, ServedInv
<1> QED
  BY <1>1, InitTypes, TypeStep, ServedStep, PTL DEF Spec

\* An app that was told that its node is up has a running one, reads and writes
\* that one, and loses no packet it sends, however calls failed before.
THEOREM UpAlwaysMeansServed == Spec => []UpMeansServed
<1>1. ServedInv => UpMeansServed
  BY CoresFacts DEF ServedInv, UpMeansServed, Idle
<1> QED BY <1>1, ServedHolds, PTL

\* With the node up and no start or stop under way, no call crashes the app.
THEOREM NoCallCrashesInService == Spec => NoCrashInService
<1>1. ServedInv /\ [Next]_vars => [Idle /\ up => process' = "up"]_vars
  <2> SUFFICES ASSUME ServedInv, Next, Idle, up
               PROVE  process' = "up"
    BY DEF vars
  <2>1. core # Nil
    BY CoresFacts DEF ServedInv, Idle
  <2> QED
    BY <2>1 DEF Next, Idle, Start, StartJSON, JsonError, JsonDone, StartPanics, StartCore,
      StartMulticast, StartIprwc, StartReturns, Stop, StopMulticast, StopCore, Controller,
      Recv, RecvCheck, RecvRead, RecvPacket, RecvEmpty, SendCheck, SendWrite, UseIprwc, Get
<1> QED BY <1>1, ServedHolds, PTL DEF Spec, NoCrashInService

-----------------------------------------------------------------------------
(* Down.                                                                    *)

\* As long as no running node was replaced, whatever runs is what the fields
\* refer to, and without a node that is up nothing runs but what the start under
\* way has made so far.
DownInv ==
  ~doubled =>
    /\ \A k \in Cores : cores[k] = "running" => k = core
    /\ \A k \in Cores : mcasts[k] = "running" => k = multicast
    /\ ~up /\ ctl \in {"idle", "json", "core", "stop", "stopcore"} =>
         \A k \in Cores : cores[k] # "running" /\ mcasts[k] # "running"
    /\ ctl = "multicast" \/ ctl = "stopcore" => \A k \in Cores : mcasts[k] # "running"

LEMMA DownStep == TypeOK /\ FieldInv /\ ServedInv /\ DownInv /\ [Next]_vars => DownInv'
<1> SUFFICES ASSUME TypeOK, FieldInv, ServedInv, DownInv, [Next]_vars
             PROVE  DownInv'
  OBVIOUS
<1> USE CoresFacts
<1>1. CASE StartJSON \/ JsonError \/ JsonDone \/ StartPanics \/ StartReturns \/ Stop
  BY <1>1 DEF DownInv, StartJSON, JsonError, JsonDone, StartPanics, StartReturns,
              Stop, Controller, Crash, fields, world, reader, writer
<1>2. CASE StartCore
  <2>1. SUFFICES ASSUME ~doubled' PROVE DownInv'
    BY DEF DownInv
  <2>2. ~doubled /\ ~up
    BY <1>2, <2>1 DEF ServedInv, StartCore, Controller
  <2>3. \A k \in Cores : cores[k] # "running" /\ mcasts[k] # "running"
    BY <1>2, <2>2 DEF DownInv, StartCore, Controller
  <2>4. \A k \in Cores : cores'[k] = "running" => k = core'
    BY <1>2, <2>3 DEF TypeOK, StartCore
  <2> QED
    BY <1>2, <2>3, <2>4 DEF DownInv, StartCore, Controller
<1>3. CASE StartMulticast
  <2>1. CASE UNCHANGED mcasts /\ multicast' \in {multicast, Nil, core}
    BY <1>3, <2>1 DEF DownInv, StartMulticast, Controller
  <2>2. CASE multicast' = core /\ mcasts' = [mcasts EXCEPT ![core] = "running"]
    <3>1. ~doubled => \A k \in Cores : mcasts'[k] = "running" => k = multicast'
      BY <1>3, <2>2 DEF TypeOK, DownInv, StartMulticast, Controller
    <3> QED
      BY <1>3, <2>2, <3>1 DEF DownInv, StartMulticast, Controller
  <2> QED
    BY <1>3, <2>1, <2>2 DEF StartMulticast
<1>4. CASE StartIprwc
  BY <1>4 DEF DownInv, StartIprwc, Controller, world, reader, writer
<1>5. CASE StopMulticast
  <2>1. CASE ctl' = "stopcore" /\ MulticastStopped
    <3>1. \A k \in Cores : mcasts'[k] = "running" => mcasts[k] = "running" /\ k # multicast
      BY <2>1 DEF TypeOK, MulticastStopped
    <3> QED
      BY <1>5, <2>1, <3>1 DEF DownInv, StopMulticast, Controller, fields
  <2>2. CASE ctl' = "idle" /\ UNCHANGED mcasts
    BY <1>5, <2>2 DEF DownInv, StopMulticast, Controller, fields
  <2> QED
    BY <1>5, <2>1, <2>2 DEF StopMulticast, Controller
<1>6. CASE StopCore
  <2>1. CASE core = Nil
    <3>1. ~up
      BY <1>6, <2>1 DEF ServedInv, StopCore, Controller
    <3> QED
      BY <1>6, <2>1, <3>1 DEF DownInv, StopCore, Controller, fields
  <2>2. CASE core # Nil
    <3>1. \A k \in Cores : cores'[k] = "running" => cores[k] = "running" /\ k # core
      BY <1>6, <2>2 DEF TypeOK, StopCore
    <3> QED
      BY <1>6, <2>2, <3>1 DEF DownInv, StopCore, Controller, fields
  <2> QED
    BY <2>1, <2>2
<1>7. CASE Recv \/ SendCheck \/ SendWrite \/ Get \/ UNCHANGED vars
  BY <1>7 DEF DownInv, Recv, RecvCheck, RecvRead, RecvPacket, RecvEmpty, SendCheck,
              SendWrite, Get, vars, fields, world
<1> QED
  BY <1>1, <1>2, <1>3, <1>4, <1>5, <1>6, <1>7 DEF Next, Start

\* A Stop that returned nil has left nothing running, unless a start had replaced
\* a running node: after starts without multicast, failed stops and the rest, too.
THEOREM DownAlwaysMeansStopped == Spec => []DownMeansStopped
<1>1. Init => DownInv
  BY DEF Init, DownInv
<1>2. DownInv => DownMeansStopped
  BY DEF DownInv, DownMeansStopped, Idle
<1> QED
  BY <1>1, <1>2, ServedHolds, DownStep, PTL DEF Spec
=============================================================================
